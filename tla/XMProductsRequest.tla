------------------------- MODULE XMProductsRequest -------------------------
(***************************************************************************)
(* The half of XMAppleIAP that looks products up before it adds a payment. *)
(* One object serves every caller: the answer to an SKProductsRequest is   *)
(* routed by the object's properties as they are when the answer arrives,  *)
(* never by the request it answers.                                        *)
(*                                                                         *)
(* All of it runs on the main thread, so every method is one step.         *)
(***************************************************************************)
EXTENDS Naturals, FiniteSets

CONSTANTS Products,     \* product identifiers
          Lookups,      \* slots for the SKProductsRequests under way
          Blocks,       \* what the success and failure blocks can close over
          Nil

ASSUME NilAssumption == Nil \notin Products \cup Blocks
ASSUME LookupsAssumption == IsFiniteSet(Lookups)

VARIABLES
    registrations,      \* how often the one object is registered with the queue
    currentPurchaseID,  \* _currentPurchaseID
    products,           \* is the products block (of a query) set?
    block,              \* the success and failure blocks, always set together
    lookups             \* the requests under way: who asked and for what

iapVars == <<registrations, currentPurchaseID, products, block, lookups>>

\* A request is what was asked for; "by", which the code does not know, is for
\* the properties only.
Asked == [by : {"purchase", "query"}, ids : SUBSET Products]

ASSUME AskedAssumption == Nil \notin Asked

IAPTypeOK ==
    /\ registrations \in Nat
    /\ currentPurchaseID \in Products \cup {Nil}
    /\ products \in BOOLEAN
    /\ block \in Blocks \cup {Nil}
    /\ lookups \in [Lookups -> Asked \cup {Nil}]

IAPInit ==
    /\ registrations = 0
    /\ currentPurchaseID = Nil
    /\ products = FALSE
    /\ block = Nil
    /\ lookups = [l \in Lookups |-> Nil]

-----------------------------------------------------------------------------
\* sharedInstance exists, and observes the payment queue.
observing == registrations > 0

\* sharedInstance: the first use of the object makes it, and init registers it
\* as an observer of the payment queue.
SharedInstance == registrations' = IF observing THEN registrations ELSE 1

\* paymentQueue:shouldAddStorePayment:forProduct: registers the observer again.
RegisterAgain ==
    /\ observing
    /\ registrations' = registrations + 1
    /\ UNCHANGED <<currentPurchaseID, products, block, lookups>>

\* startPurchaseWithID: when payments are allowed.  The blocks of an earlier
\* purchase are overwritten whether or not it has been answered.
StartPurchase(l, pid, b) ==
    /\ lookups[l] = Nil
    /\ SharedInstance
    /\ block' = b
    /\ currentPurchaseID' = pid
    /\ lookups' = [lookups EXCEPT ![l] = [by |-> "purchase", ids |-> {pid}]]
    /\ UNCHANGED products

\* startPurchaseWithID: with a nil identifier or with payments not allowed:
\* the blocks are overwritten all the same, then failure is called.
RefusePurchase(b) ==
    /\ SharedInstance
    /\ block' = b
    /\ UNCHANGED <<currentPurchaseID, products, lookups>>

\* queryProductsWithIDs:success:
QueryProducts(l, ids) ==
    /\ lookups[l] = Nil
    /\ SharedInstance
    /\ products' = TRUE
    /\ lookups' = [lookups EXCEPT ![l] = [by |-> "query", ids |-> ids]]
    /\ UNCHANGED <<currentPurchaseID, block>>

-----------------------------------------------------------------------------
\* A response names the identifiers it found among those asked for.
Responses(l) == IF lookups[l] = Nil THEN {} ELSE SUBSET lookups[l].ids

Answered(l) == lookups' = [lookups EXCEPT ![l] = Nil]

\* didReceiveResponse: with no product: failure is called, nothing is reset.
EmptyResponse(l) ==
    /\ {} \in Responses(l)
    /\ Answered(l)
    /\ UNCHANGED <<registrations, currentPurchaseID, products, block>>

\* didReceiveResponse: while a products block is set: the block gets the
\* products, whoever asked, and the method returns.
AnswerQuery(l) ==
    /\ products
    /\ Responses(l) \ {{}} # {}
    /\ products' = FALSE
    /\ Answered(l)
    /\ UNCHANGED <<registrations, currentPurchaseID, block>>

\* The same, when the products block itself asks again: the block it installs
\* is erased by "self.products = nil" as soon as it returns.
AnswerQueryAskingAgain(l, other, ids) ==
    /\ products
    /\ Responses(l) \ {{}} # {}
    /\ other # l
    /\ lookups[other] = Nil
    /\ products' = FALSE
    /\ lookups' = [lookups EXCEPT ![l] = Nil,
                                  ![other] = [by |-> "query", ids |-> ids]]
    /\ UNCHANGED <<registrations, currentPurchaseID, block>>

\* didReceiveResponse: the current purchase is not among the products found:
\* failure is called.
ProductMissing(l) ==
    /\ ~ products
    /\ \E found \in Responses(l) \ {{}} : currentPurchaseID \notin found
    /\ Answered(l)
    /\ UNCHANGED <<registrations, currentPurchaseID, products, block>>

\* Mutant: no return after the products block has been called.
AddPayment_AfterQuery(l) ==
    /\ \E found \in Responses(l) : currentPurchaseID \in found
    /\ products' = FALSE
    /\ Answered(l)
    /\ UNCHANGED <<registrations, currentPurchaseID, block>>

\* didReceiveResponse: the current purchase is among the products found: a
\* payment for it is added to the payment queue.
AddPayment(l) ==
    /\ ~ products
    /\ \E found \in Responses(l) : currentPurchaseID \in found
    /\ Answered(l)
    /\ UNCHANGED <<registrations, currentPurchaseID, products, block>>

\* request:didFailWithError: failure is called, nothing is reset.
RequestFails(l) ==
    /\ lookups[l] # Nil
    /\ Answered(l)
    /\ UNCHANGED <<registrations, currentPurchaseID, products, block>>

\* A new process: every property is back to its initial value.
ForgetRequests ==
    /\ registrations' = 0
    /\ currentPurchaseID' = Nil
    /\ products' = FALSE
    /\ block' = Nil
    /\ lookups' = [l \in Lookups |-> Nil]
=============================================================================
