----------------------------- MODULE TTHTTPAgent -----------------------------
(***************************************************************************)
(* TTHTTPAgent sends the requests of the application through one           *)
(* AFHTTPSessionManager.  A request puts its cache policy, timeout and     *)
(* cookie into the request serializer they all share, one after the other, *)
(* and has its task made from what the serializer holds then; requests of  *)
(* several threads may do so at once.  Its answer is parsed by a chain of  *)
(* serializers, of which the first that makes something of it wins.  The   *)
(* URL is not modelled: any request may be one whose URL raises.           *)
(***************************************************************************)
EXTENDS Naturals, Sequences

CONSTANTS Requests,
          Own,          \* cachePolicy, timeout and cookie of each request
          Default,      \* what a new serializer holds
          MethodOf,     \* the method of each request
          UploadForms   \* the requests that are TTHTTPUploadRequests

Methods == {"GET", "POST", "HEAD", "PUT", "DELETE", "PATCH", "Upload"}

\* What a request serializer can hold.
Values(f) == {Own[r][f] : r \in Requests} \cup {Default[f]}
Settings == [cachePolicy : Values("cachePolicy"), timeout : Values("timeout"),
             cookie : Values("cookie")]

ASSUME AgentAssumption ==
    /\ Default \in Settings
    /\ Own \in [Requests -> Settings]
    /\ MethodOf \in [Requests -> Methods]
    /\ UploadForms \subseteq Requests

VARIABLES
    stage,          \* the step each request is at
    serializer,     \* the shared requestSerializer
    sent,           \* the settings each task was made with
    answer          \* the response each request got and what came of it

\* History variable.
VARIABLE during     \* for each request, those that were prepared at the same time

vars == <<stage, serializer, sent, answer, during>>

Preparation == {"cachePolicy", "timeout", "cookie", "request", "headers"}
Stages == Preparation \cup {"new", "sent", "answered", "noTask", "raised"}

\* What a response is like: its status, its type (that of JSON includes the
\* ones the agent adds) and whether the body is what the type says, empty or
\* something else.  The answer to a HEAD has no body.
Responses ==
    [ok : BOOLEAN, type : {"json", "gif", "image"}, body : {"right", "empty", "wrong"}]
        \cup [ok : BOOLEAN, type : {"none", "other"}, body : {"empty", "wrong"}]
ResponsesTo(r) == {response \in Responses : MethodOf[r] = "HEAD" => response.body = "empty"}
Outcomes == {"object", "data", "image", "nothing", "failure"}
NoAnswer == [response |-> [ok |-> FALSE, type |-> "none", body |-> "empty"],
             outcome |-> "failure"]

Init ==
    /\ stage = [r \in Requests |-> "new"]
    /\ serializer = Default
    /\ sent = [r \in Requests |-> Default]
    /\ answer = [r \in Requests |-> NoAnswer]
    /\ during = [r \in Requests |-> {}]

-----------------------------------------------------------------------------
\* The content types a serializer of AFNetworking accepts: gif is an image too.
Accepted(s) == IF s = "image" THEN {"gif", "image"} ELSE {s}

\* Is the type accepted?  An empty body without a type always is.
Typed(s, response) ==
    response.type \in Accepted(s) \/ (response.type = "none" /\ response.body = "empty")

\* Does the serializer make something of the response?  The one for gif takes
\* any data that is valid, even none, the last one everything.
Parses(s, response) ==
    \/ s = "last"
    \/ s = "gif" /\ Typed(s, response) /\ response.ok
    \/ s \in {"json", "image"} /\ Typed(s, response) /\ response.body = "right"

\* What it makes of it: an object that comes with an error is a failure.
Makes(s, response) ==
    IF s = "last" \/ ~ response.ok THEN "failure"
    ELSE IF s = "json" THEN "object"
    ELSE IF s = "gif" THEN "data"
    ELSE "image"

\* The serializers in the order of the agent.
Serializers == <<"json", "gif", "image", "last">>

\* Mutant: the error of the serializer that parsed is not looked at.
Outcome_AnyStatus(response) ==
    LET n == CHOOSE i \in DOMAIN Serializers :
                /\ Parses(Serializers[i], response)
                /\ \A j \in 1..(i - 1) : ~ Parses(Serializers[j], response)
    IN  Makes(Serializers[n], [response EXCEPT !.ok = TRUE])

\* AFCompoundResponseSerializer: the first that makes something.
Outcome(response) ==
    LET n == CHOOSE i \in DOMAIN Serializers :
                /\ Parses(Serializers[i], response)
                /\ \A j \in 1..(i - 1) : ~ Parses(Serializers[j], response)
    IN  Makes(Serializers[n], response)

-----------------------------------------------------------------------------
Preparing == {r \in Requests : stage[r] \in Preparation}

\* No request goes on once one has raised: nobody catches the exception.
Goes(r, from, to) ==
    /\ \A q \in Requests : stage[q] # "raised"
    /\ stage[r] = from
    /\ stage' = [stage EXCEPT ![r] = to]

\* requestByCustomRequest:progress:success:failure: is called,
Call(r) ==
    /\ Goes(r, "new", "cachePolicy")
    /\ during' = [q \in Requests |->
                    IF q = r THEN Preparing
                    ELSE IF q \in Preparing THEN during[q] \cup {r} ELSE during[q]]
    /\ UNCHANGED <<serializer, sent, answer>>

\* puts its cache policy,
SetCachePolicy(r) ==
    /\ Goes(r, "cachePolicy", "timeout")
    /\ serializer' = [serializer EXCEPT !.cachePolicy = Own[r].cachePolicy]
    /\ UNCHANGED <<sent, answer, during>>

\* Mutant: the timeout is set to the cache policy.
SetTimeout_Swapped(r) ==
    /\ Goes(r, "timeout", "cookie")
    /\ serializer' = [serializer EXCEPT !.timeout = Own[r].cachePolicy]
    /\ UNCHANGED <<sent, answer, during>>

\* its timeout
SetTimeout(r) ==
    /\ Goes(r, "timeout", "cookie")
    /\ serializer' = [serializer EXCEPT !.timeout = Own[r].timeout]
    /\ UNCHANGED <<sent, answer, during>>

\* Mutant: a request without a cookie leaves the header alone.
SetCookie_IfAny(r) ==
    /\ Goes(r, "cookie", "request")
    /\ serializer' = IF Own[r].cookie = Default.cookie THEN serializer
                     ELSE [serializer EXCEPT !.cookie = Own[r].cookie]
    /\ UNCHANGED <<sent, answer, during>>

\* and its cookie into the serializer; a nil cookie removes the header.
SetCookie(r) ==
    /\ Goes(r, "cookie", "request")
    /\ serializer' = [serializer EXCEPT !.cookie = Own[r].cookie]
    /\ UNCHANGED <<sent, answer, during>>

\* Mutant: a method has no case of its own.
HasTask_NotHead(r) == MethodOf[r] # "HEAD" /\ (MethodOf[r] = "Upload" => r \in UploadForms)

\* A task is made for every method, for an upload only of an upload request.
HasTask(r) == MethodOf[r] = "Upload" => r \in UploadForms

\* The switch ends without a task, and neither block is ever called.
MakeNoTask(r) ==
    /\ ~ HasTask(r)
    /\ Goes(r, "request", "noTask")
    /\ UNCHANGED <<serializer, sent, answer, during>>

\* The URL is nil or none at all, and an assertion of AFNetworking raises.  A
\* build without assertions makes the request all the same, and its task fails.
RaiseOnURL(r) ==
    /\ HasTask(r)
    /\ Goes(r, "request", "raised")
    /\ UNCHANGED <<serializer, sent, answer, during>>

\* The session manager makes the request with the cache policy and the timeout
\* the serializer holds now.  It cannot fail: only a block that serializes the
\* parameters sets an error, and the agent's serializer has none.
MakeRequest(r) ==
    /\ HasTask(r)
    /\ Goes(r, "request", "headers")
    /\ sent' = [sent EXCEPT ![r].cachePolicy = serializer.cachePolicy,
                            ![r].timeout = serializer.timeout]
    /\ UNCHANGED <<serializer, answer, during>>

\* Then it adds the headers the serializer holds now, and resumes the task.
AddHeaders(r) ==
    /\ Goes(r, "headers", "sent")
    /\ sent' = [sent EXCEPT ![r].cookie = serializer.cookie]
    /\ UNCHANGED <<serializer, answer, during>>

\* What the block of the request is called with: the success of a HEAD comes
\* without an object.
Passed(r, response) ==
    IF MethodOf[r] = "HEAD" /\ Outcome(response) # "failure" THEN "nothing" ELSE Outcome(response)

\* The task is answered, and the success or the failure block called.
Answered(r) ==
    /\ Goes(r, "sent", "answered")
    /\ \E response \in ResponsesTo(r) :
          answer' = [answer EXCEPT ![r] = [response |-> response, outcome |-> Passed(r, response)]]
    /\ UNCHANGED <<serializer, sent, during>>

\* The task fails before it has a response: no network, timeout, cancelled.
NotAnswered(r) ==
    /\ Goes(r, "sent", "answered")
    /\ UNCHANGED <<serializer, sent, answer, during>>

Step(r) ==
    \/ SetCachePolicy(r)
    \/ SetTimeout(r)
    \/ SetCookie(r)
    \/ MakeNoTask(r)
    \/ RaiseOnURL(r)
    \/ MakeRequest(r)
    \/ AddHeaders(r)
    \/ Answered(r)
    \/ NotAnswered(r)

Next == \E r \in Requests : Call(r) \/ Step(r)

\* A thread goes on, and a task is answered or times out.
Spec == Init /\ [][Next]_vars /\ \A r \in Requests : WF_vars(Step(r))

-----------------------------------------------------------------------------
\* The variables have the types the code gives them.
TypeOK ==
    /\ stage \in [Requests -> Stages]
    /\ serializer \in Settings
    /\ sent \in [Requests -> Settings]
    /\ answer \in [Requests -> [response : Responses, outcome : Outcomes]]
    /\ during \in [Requests -> SUBSET Requests]

\* A request is sent with the cache policy, timeout and cookie it asked for, or
\* with those of a request that was prepared at the same time: never with what
\* one that had been sent before left in the serializer.
SettingsAreMixedOnlyByOverlap ==
    \A r \in Requests, f \in {"cachePolicy", "timeout", "cookie"} :
        stage[r] \in {"sent", "answered"} =>
            \E q \in {r} \cup during[r] : sent[r][f] = Own[q][f]

\* Only an answer with a good status succeeds, with what its type says: an
\* object from JSON and an image from an image, of a body that is one; a gif is
\* handed on as the data it came as, never decoded, and so is an answer with
\* neither type nor body.  An error page that parses, or a body no serializer
\* understands, is a failure.
OnlyParsedAnswersSucceed ==
    \A r \in Requests :
        LET response == answer[r].response
            outcome == answer[r].outcome
        IN  /\ outcome # "failure" => response.ok
            /\ outcome = "object" => response.type = "json" /\ response.body = "right"
            /\ outcome = "image" => response.type = "image" /\ response.body = "right"
            /\ outcome \in {"data", "nothing"} =>
                  response.type = "gif" \/ (response.type = "none" /\ response.body = "empty")
            /\ outcome # "failure" => (outcome = "nothing" <=> MethodOf[r] = "HEAD")

\* Every request that is made comes to an answer, but for an upload that is not
\* an upload request and for those that are made when a bad URL ends the program.
RequestsAreAnswered ==
    \A r \in Requests :
        stage[r] # "new" ~>
            \/ stage[r] = "answered"
            \/ MethodOf[r] = "Upload" /\ r \notin UploadForms
            \/ \E q \in Requests : stage[q] = "raised"
=============================================================================
