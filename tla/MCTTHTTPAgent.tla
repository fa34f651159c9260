---------------------------- MODULE MCTTHTTPAgent ----------------------------
(***************************************************************************)
(* TTHTTPAgent with three requests: of a user, of nobody, and an upload    *)
(* that is not an upload request.                                          *)
(***************************************************************************)
EXTENDS TTHTTPAgent, TLC

CONSTANTS get, head, upload, plain, fresh, short, long, user, nobody

MCOwn == (get :> [cachePolicy |-> plain, timeout |-> long, cookie |-> user])
      @@ (head :> [cachePolicy |-> fresh, timeout |-> short, cookie |-> nobody])
      @@ (upload :> [cachePolicy |-> fresh, timeout |-> long, cookie |-> nobody])
MCDefault == [cachePolicy |-> plain, timeout |-> short, cookie |-> nobody]
MCMethodOf == (get :> "GET") @@ (head :> "HEAD") @@ (upload :> "Upload")
=============================================================================
