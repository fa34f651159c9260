----------------------------- MODULE XMApplePay -----------------------------
(***************************************************************************)
(* An in-app purchase from the host's call to the business server's        *)
(* answer: XMApplePay and XMSDKIOS start it, XMProductsRequest (the lookup *)
(* half of XMAppleIAP) adds the payment, SKPaymentQueue settles it, the    *)
(* observer half of XMAppleIAP takes the transaction, UserManager supplies *)
(* the user, SavedOrders keeps the order until the server has answered.    *)
(*                                                                         *)
(* Every callback runs on the main thread, so a handler is one step, with  *)
(* one exception: finishTransaction: is the last statement of the handlers *)
(* of a settled transaction, and the process may die just before it.       *)
(* "finishing" names the transaction between the two halves; no other      *)
(* handler runs there.                                                     *)
(***************************************************************************)
EXTENDS XMProductsRequest, SavedOrders, SKPaymentQueue

CONSTANTS Calls,            \* slots for purchases waiting for a login
          Uids,             \* user identifiers the server gives
          NoUid,            \* a nil uid
          Logins,           \* what a login may give: a model, or Nil if it fails
          Verdicts,         \* what an answer of the server may say: accepted or not
          Queries,          \* what the host asks queryProductsWithIDs: for
          MaxInFlight,      \* bound on the submissions of one order under way
          MaxRegistrations, \* bound on the registrations of one process
          MaxRepeated,      \* bound on the transactions handed over again
          MaxRelaunches     \* bound on crashes

ASSUME PayAssumption ==
    /\ Blocks = [route : {"pay", "direct"}, pid : Products, uid : Uids \cup {NoUid}]
    /\ Goods = Products
    /\ Queries \subseteq SUBSET Products
    \* Any dictionary with a "success" key makes a model, one without a uid too.
    /\ Logins \subseteq Uids \cup {NoUid, Nil}
    /\ Verdicts \subseteq BOOLEAN
    /\ Nil \notin Tids \cup Uids \cup {NoUid}
    /\ NoUid \notin Uids
    /\ MaxInFlight \in Nat
    /\ MaxRegistrations \in Nat
    /\ MaxRepeated \in Nat
    /\ MaxRelaunches \in Nat

VARIABLES
    userModel,      \* UserManager.userModel: Nil, or its uid (which may be nil)
    logins,         \* purchases waiting for the answer to their own login
    renewing,       \* how many logins of its own each renewal waits for
    saved,          \* the orders in NSUserDefaults, which survive a crash
    inFlight,       \* submissions to the business server, by transaction
    finishing       \* the transaction whose finishTransaction: is next, or Nil

\* History variables.
VARIABLES
    answered,       \* orders the server has answered with a dictionary
    accepted,       \* orders an answer has called accepted
    handed,         \* orders given to the host's success block
    torn,           \* orders recorded by a process that died before finishing
    repeated,       \* transactions that a second registration has handed over again
    relaunches      \* crashes so far

userVars == <<userModel, logins, renewing>>
orderVars == <<saved, inFlight>>
serverVars == <<answered, accepted>>
history == <<handed, torn, repeated, relaunches>>
vars == <<iapVars, queueVars, userVars, orderVars, finishing, serverVars, history>>

Init ==
    /\ IAPInit
    /\ QueueInit
    /\ userModel = Nil
    /\ logins = [c \in Calls |-> Nil]
    /\ renewing = [t \in Tids |-> 0]
    /\ saved = <<>>
    /\ inFlight = [t \in Tids |-> 0]
    /\ finishing = Nil
    /\ answered = {}
    /\ accepted = {}
    /\ handed = {}
    /\ torn = {}
    /\ repeated = {}
    /\ relaunches = 0

\* The main thread is between two handlers.
Idle == finishing = Nil

-----------------------------------------------------------------------------
\* Mutant: the model itself is passed on where its uid is meant.
UidOf_Model(model) == model

\* What a handler of a user model passes on: messages to a nil model give nil.
UidOf(model) == IF model = Nil THEN NoUid ELSE model

\* saveUid:... followed by applePayWithUid:...
RecordAndSubmit(t, uid, pid) ==
    /\ inFlight[t] < MaxInFlight
    /\ saved' = saveUid(saved, uid, pid, t)
    /\ inFlight' = [inFlight EXCEPT ![t] = @ + 1]

\* Mutant: only the orders of this process are submitted.
ProcessLostTransaction_Never == UNCHANGED <<saved, inFlight>>

\* processLostTransaction: submits every record on the list again, whether or
\* not an earlier submission of it is still under way.
ProcessLostTransaction ==
    /\ \A t \in Tids : inFlight[t] + Copies(saved, t) <= MaxInFlight
    /\ inFlight' = [t \in Tids |-> inFlight[t] + Copies(saved, t)]
    /\ UNCHANGED saved

\* XMAppleIAP's startPurchaseWithID:, allowed to make payments or not.
BeginPurchase(pid, b) ==
    \/ \E l \in Lookups : StartPurchase(l, pid, b)
    \/ RefusePurchase(b)

PayBlock(pid, model) == [route |-> "pay", pid |-> pid, uid |-> UidOf(model)]

-----------------------------------------------------------------------------
\* XMApplePay's startPurchaseWithID: with the user at hand...
StartPay(pid) ==
    /\ Idle
    /\ ProcessLostTransaction
    /\ userModel # Nil
    /\ BeginPurchase(pid, PayBlock(pid, userModel))
    /\ UNCHANGED <<queueVars, userVars, finishing, serverVars, history>>

\* ...and without: requestUserModelWithHandler: sends a login for this caller.
StartPayWithLogin(c, pid) ==
    /\ Idle
    /\ ProcessLostTransaction
    /\ userModel = Nil
    /\ logins[c] = Nil
    /\ logins' = [logins EXCEPT ![c] = pid]
    /\ UNCHANGED <<iapVars, queueVars, userModel, renewing, finishing, serverVars, history>>

\* XMSDKIOS's startPurchaseWithID: goes to XMAppleIAP with the host's blocks.
StartDirect(pid) ==
    /\ Idle
    /\ BeginPurchase(pid, [route |-> "direct", pid |-> pid, uid |-> NoUid])
    /\ UNCHANGED <<queueVars, userVars, orderVars, finishing, serverVars, history>>

StartQuery(ids) ==
    /\ Idle
    /\ \E l \in Lookups : QueryProducts(l, ids)
    /\ UNCHANGED <<queueVars, userVars, orderVars, finishing, serverVars, history>>

\* Mutant: the answer is stored whatever its code says.
LoginAnswered_Undoing(c, model) ==
    /\ Idle
    /\ logins[c] # Nil
    /\ userModel' = model
    /\ logins' = [logins EXCEPT ![c] = Nil]
    /\ BeginPurchase(logins[c], PayBlock(logins[c], model))
    /\ UNCHANGED <<queueVars, renewing, orderVars, finishing, serverVars, history>>

\* The answer to a login.  A failure leaves the cached model, and the handler
\* runs all the same, with a nil model.
LoginAnswered(c, model) ==
    /\ Idle
    /\ logins[c] # Nil
    /\ userModel' = IF model = Nil THEN userModel ELSE model
    /\ logins' = [logins EXCEPT ![c] = Nil]
    /\ BeginPurchase(logins[c], PayBlock(logins[c], model))
    /\ UNCHANGED <<queueVars, renewing, orderVars, finishing, serverVars, history>>

-----------------------------------------------------------------------------
\* The answers to the lookups.
LookupEnds(l) ==
    /\ Idle
    /\ \/ EmptyResponse(l)
       \/ AnswerQuery(l)
       \/ \E other \in Lookups, ids \in Queries :
             AnswerQueryAskingAgain(l, other, ids)
       \/ ProductMissing(l)
       \/ RequestFails(l)
    /\ UNCHANGED <<queueVars, userVars, orderVars, finishing, serverVars, history>>

LookupPays(l) ==
    /\ Idle
    /\ AddPayment(l)
    /\ \E t \in Tids : QueuePayment(t, currentPurchaseID)
    /\ UNCHANGED <<userVars, orderVars, finishing, serverVars, history>>

\* A promoted purchase registers the observer once more, adds a payment for it
\* and is told YES; what is not finished may be handed over again.
PromotedPurchase ==
    /\ Idle
    /\ registrations < MaxRegistrations
    /\ RegisterAgain
    /\ \E t, u \in Tids, pid \in Products : QueueTwoPayments(t, u, pid)
    /\ \E again \in SUBSET InState(Undelivered) :
          /\ ObserveAgain(again)
          /\ repeated' = repeated \cup again
          /\ Cardinality(repeated') <= MaxRepeated
    /\ UNCHANGED <<userVars, orderVars, finishing, serverVars, handed, torn, relaunches>>

\* StoreKit acts at any time.  It hands a transaction over once, or up to once
\* for each registration of the observer.
HandOvers == 1 .. (IF observing THEN registrations ELSE 1)

StoreKit ==
    /\ \E t \in Tids, n \in HandOvers :
          /\ SettlePurchase(t, n) \/ RenewSubscription(t, n) \/ RestorePurchase(t, n)
          /\ repeated' = IF n > 1 THEN repeated \cup {t} ELSE repeated
          /\ Cardinality(repeated') <= MaxRepeated
    /\ UNCHANGED <<iapVars, userVars, orderVars, finishing, serverVars, handed, torn, relaunches>>

-----------------------------------------------------------------------------
\* paymentQueue:updatedTransactions: takes a settled transaction of the given
\* states; finishTransaction: comes next.
Take(t, states) ==
    /\ Idle
    /\ observing
    /\ pending[t] > 0
    /\ t \in InState(states)
    /\ pending' = [pending EXCEPT ![t] = @ - 1]
    /\ UNCHANGED <<iapVars, tx>>

\* A purchase with an original transaction, the user at hand.
TakeRenewal(t) ==
    /\ Take(t, Paid)
    /\ tx[t].renewal
    /\ userModel # Nil
    /\ RecordAndSubmit(t, userModel, tx[t].pid)
    /\ finishing' = t
    /\ UNCHANGED <<userVars, serverVars, history>>

\* The same without the user: the order waits in memory for a login of its
\* own, and its transaction is finished without waiting.
TakeRenewalWithLogin(t) ==
    /\ Take(t, Paid)
    /\ tx[t].renewal
    /\ userModel = Nil
    /\ renewing' = [renewing EXCEPT ![t] = @ + 1]
    /\ finishing' = t
    /\ UNCHANGED <<userModel, logins, orderVars, serverVars, history>>

\* Mutant: a failed login drops the renewal instead of recording it.
RenewalLoginAnswered_Dropping(t, model) ==
    /\ Idle
    /\ renewing[t] > 0
    /\ renewing' = [renewing EXCEPT ![t] = @ - 1]
    /\ userModel' = IF model = Nil THEN userModel ELSE model
    /\ IF model = Nil
       THEN UNCHANGED orderVars
       ELSE RecordAndSubmit(t, UidOf(model), tx[t].pid)
    /\ UNCHANGED <<iapVars, queueVars, logins, finishing, serverVars, history>>

\* Mutant: the handler runs again for every login that is answered.
RenewalLoginAnswered_Repeating(t, model) ==
    /\ Idle
    /\ renewing[t] > 0
    /\ userModel' = IF model = Nil THEN userModel ELSE model
    /\ RecordAndSubmit(t, UidOf(model), tx[t].pid)
    /\ UNCHANGED <<iapVars, queueVars, logins, renewing, finishing, serverVars, history>>

\* The answer to the login a renewal waits for.
RenewalLoginAnswered(t, model) ==
    /\ Idle
    /\ renewing[t] > 0
    /\ renewing' = [renewing EXCEPT ![t] = @ - 1]
    /\ userModel' = IF model = Nil THEN userModel ELSE model
    /\ RecordAndSubmit(t, UidOf(model), tx[t].pid)
    /\ UNCHANGED <<iapVars, queueVars, logins, finishing, serverVars, history>>

\* Mutant: the order is submitted without being recorded first.
TakeOrder_Unrecorded(t) ==
    /\ Take(t, Paid)
    /\ ~ tx[t].renewal
    /\ block # Nil
    /\ block.route = "pay"
    /\ inFlight[t] < MaxInFlight
    /\ inFlight' = [inFlight EXCEPT ![t] = @ + 1]
    /\ finishing' = t
    /\ UNCHANGED <<userVars, saved, serverVars, history>>

\* A purchase of this device goes to whatever success block is set now.
TakeOrder(t) ==
    /\ Take(t, Paid)
    /\ ~ tx[t].renewal
    /\ block # Nil
    /\ block.route = "pay"
    /\ RecordAndSubmit(t, block.uid, block.pid)
    /\ finishing' = t
    /\ UNCHANGED <<userVars, serverVars, history>>

TakeOrderForHost(t) ==
    /\ Take(t, Paid)
    /\ ~ tx[t].renewal
    /\ block # Nil
    /\ block.route = "direct"
    /\ handed' = handed \cup {t}
    /\ finishing' = t
    /\ UNCHANGED <<userVars, orderVars, serverVars, torn, repeated, relaunches>>

\* No purchase was started in this process: nobody gets the receipt.
TakeOrderForNobody(t) ==
    /\ Take(t, Paid)
    /\ ~ tx[t].renewal
    /\ block = Nil
    /\ finishing' = t
    /\ UNCHANGED <<userVars, orderVars, serverVars, history>>

\* Without a receipt: failure is called and the transaction is not finished.
TakeOrderWithoutReceipt(t) ==
    /\ Take(t, Paid)
    /\ ~ tx[t].renewal
    /\ UNCHANGED <<userVars, orderVars, finishing, serverVars, history>>

\* Mutant: a restored purchase falls through to the block of a purchase.
TakeUnpaid_FallingThrough(t) ==
    /\ Take(t, Unpaid)
    /\ handed' = handed \cup {t}
    /\ finishing' = t
    /\ UNCHANGED <<userVars, orderVars, serverVars, torn, repeated, relaunches>>

\* A failed or restored transaction: failure is called, then it is finished.
TakeUnpaid(t) ==
    /\ Take(t, Unpaid)
    /\ finishing' = t
    /\ UNCHANGED <<userVars, orderVars, serverVars, history>>

\* The last statement of the handler.
Finish ==
    /\ finishing # Nil
    /\ FinishTransaction(finishing)
    /\ finishing' = Nil
    /\ UNCHANGED <<iapVars, userVars, orderVars, serverVars, history>>

-----------------------------------------------------------------------------
\* A submission is answered with a dictionary, whatever it says: the success
\* block removes a record of the order.
Verified(t, ok) ==
    /\ Idle
    /\ inFlight[t] > 0
    /\ inFlight' = [inFlight EXCEPT ![t] = @ - 1]
    /\ saved' = updateSavedProductInfo(saved, t)
    /\ answered' = answered \cup {t}
    /\ accepted' = IF ok THEN accepted \cup {t} ELSE accepted
    /\ UNCHANGED <<iapVars, queueVars, userVars, finishing, history>>

\* Mutant: the record is removed however the submission ends.
VerifyFailed_Removing(t) ==
    /\ Idle
    /\ inFlight[t] > 0
    /\ inFlight' = [inFlight EXCEPT ![t] = @ - 1]
    /\ saved' = updateSavedProductInfo(saved, t)
    /\ UNCHANGED <<iapVars, queueVars, userVars, finishing, serverVars, history>>

\* A submission is answered with something else, or not at all.  Whether the
\* server has accepted the order even so the device cannot know.
VerifyFailed(t) ==
    /\ Idle
    /\ inFlight[t] > 0
    /\ inFlight' = [inFlight EXCEPT ![t] = @ - 1]
    /\ UNCHANGED <<iapVars, queueVars, userVars, saved, finishing, serverVars, history>>

\* The app dies and starts again: NSUserDefaults and the payment queue remain.
Relaunch ==
    /\ relaunches < MaxRelaunches
    /\ relaunches' = relaunches + 1
    /\ ForgetRequests
    /\ DeliverAgain
    /\ userModel' = Nil
    /\ logins' = [c \in Calls |-> Nil]
    /\ renewing' = [t \in Tids |-> 0]
    /\ inFlight' = [t \in Tids |-> 0]
    /\ finishing' = Nil
    /\ torn' = torn \cup ({finishing} \cap SavedTids(saved))
    /\ UNCHANGED <<saved, serverVars, handed, repeated>>

-----------------------------------------------------------------------------
Next ==
    \/ \E pid \in Products : StartPay(pid) \/ StartDirect(pid)
    \/ \E c \in Calls, pid \in Products : StartPayWithLogin(c, pid)
    \/ \E ids \in Queries : StartQuery(ids)
    \/ \E c \in Calls, model \in Logins : LoginAnswered(c, model)
    \/ \E l \in Lookups : LookupEnds(l) \/ LookupPays(l)
    \/ PromotedPurchase
    \/ StoreKit
    \/ \E t \in Tids :
          \/ TakeRenewal(t)
          \/ TakeRenewalWithLogin(t)
          \/ \E model \in Logins : RenewalLoginAnswered(t, model)
          \/ TakeOrder(t)
          \/ TakeOrderForHost(t)
          \/ TakeOrderForNobody(t)
          \/ TakeOrderWithoutReceipt(t)
          \/ TakeUnpaid(t)
          \/ \E ok \in Verdicts : Verified(t, ok)
          \/ VerifyFailed(t)
    \/ Finish
    \/ Relaunch

Spec == Init /\ [][Next]_vars

\* What is assumed of the surroundings for liveness: StoreKit answers lookups
\* and hands over what is settled; a login or a submission is answered or times
\* out; the handlers run; the user goes on buying; and a submission that is
\* made again and again is, sometime, answered.  The crashes are bounded.
Buy ==
    \/ \E pid \in Products : StartPay(pid)
    \/ \E c \in Calls, pid \in Products : StartPayWithLogin(c, pid)

TakeAny(t) ==
    \/ TakeRenewal(t) \/ TakeRenewalWithLogin(t) \/ TakeUnpaid(t)
    \/ TakeOrder(t) \/ TakeOrderForHost(t) \/ TakeOrderForNobody(t)

Answer(t) == \E ok \in Verdicts : Verified(t, ok)

SubmissionEnds(t) == Answer(t) \/ VerifyFailed(t)

Fairness ==
    /\ WF_vars(Finish)
    /\ SF_vars(Buy)
    /\ \A c \in Calls : WF_vars(\E model \in Logins : LoginAnswered(c, model))
    /\ \A l \in Lookups : WF_vars(LookupEnds(l) \/ LookupPays(l))
    /\ \A t \in Tids :
          /\ WF_vars(TakeAny(t))
          /\ WF_vars(\E model \in Logins : RenewalLoginAnswered(t, model))
          /\ WF_vars(SubmissionEnds(t))
          /\ SF_vars(Answer(t))

LiveSpec == Spec /\ Fairness

-----------------------------------------------------------------------------
\* The variables have the types the code gives them.
Order == [tid : Tids, pid : Products, uid : Uids \cup {NoUid}]

TypeOK ==
    /\ IAPTypeOK
    /\ QueueTypeOK
    /\ userModel \in Uids \cup {NoUid, Nil}
    /\ logins \in [Calls -> Products \cup {Nil}]
    /\ renewing \in [Tids -> Nat]
    /\ saved \in Seq(Order)
    /\ inFlight \in [Tids -> Nat]
    /\ finishing \in Tids \cup {Nil}
    /\ answered \subseteq Tids
    /\ accepted \subseteq Tids
    /\ handed \subseteq Tids
    /\ torn \subseteq Tids
    /\ repeated \subseteq Tids
    /\ relaunches \in Nat

\* Whatever is being submitted can be submitted again: while an answer is due,
\* the order is on the device's list, unless an answer has come already.
SubmittedOrdersAreKept ==
    \A t \in Tids : inFlight[t] > 0 => t \in SavedTids(saved) \cup answered

\* The renewals that wait in memory for a login.
Waiting == {t \in Tids : renewing[t] > 0}

\* The list, the server and the host only ever see transactions the user has
\* paid, a renewal is never given to the host, and only what is settled is
\* about to be finished.
PaidOnly ==
    SavedTids(saved) \cup answered \cup accepted \cup handed \cup Waiting
        \subseteq InState(Paid)
RoutesAreSeparate ==
    /\ \A t \in handed : ~ tx[t].renewal
    /\ \A t \in Waiting : tx[t].renewal
FinishingIsSettled ==
    finishing # Nil => finishing \in InState(Paid \cup Unpaid)

OnlyPaidOrders == PaidOnly /\ RoutesAreSeparate /\ FinishingIsSettled

\* An order is recorded twice only if the app died between recording it and
\* finishing its transaction, or if a promoted purchase registered the observer
\* a second time and StoreKit handed the transaction over again for it.
DuplicatesHaveACause ==
    \A t \in Tids : Copies(saved, t) > 1 => t \in torn \cup repeated

\* What becomes of a purchase in the step that finishes it with StoreKit, by the
\* blocks in place: a renewal is on the list or waits for its login; with the
\* blocks of XMApplePay the order is on the list under their product and user;
\* with those of XMSDKIOS the host has it.  Without blocks, when no purchase
\* was started in this process, nothing is promised, and nobody has it
\* (PaidReceiptsAreSent).
KeptWhenFinished(t) ==
    IF tx[t].renewal THEN t \in SavedTids(saved) \cup Waiting
    ELSE block # Nil =>
            IF block.route = "pay"
            THEN \E i \in DOMAIN saved :
                    saved[i] = [tid |-> t, pid |-> block.pid, uid |-> block.uid]
            ELSE t \in handed

FinishedOrdersArePlaced ==
    [][ \A t \in InState({"purchased"}) \ InState({"purchased"})' :
            KeptWhenFinished(t) ]_vars

\* A failed login never undoes an earlier one: while the process lives, the user
\* once known stays known, in whatever order the logins are answered.
UserIsKept ==
    [][ relaunches' = relaunches /\ userModel # Nil => userModel' # Nil ]_vars

\* A record leaves the list only when the server has answered for its order.
RecordsLeaveWhenAnswered ==
    [][ SavedTids(saved) \ SavedTids(saved') \subseteq answered' ]_vars

\* The orders as OrderLedger sees them.
StatusOf(t) ==
    IF t \in answered THEN "settled"
    ELSE IF t \in SavedTids(saved) THEN "recorded"
    ELSE IF t \in InState({"purchased"}) THEN "paid"
    ELSE IF t \in InState({"done"})
         THEN IF t \in Waiting THEN "inHand"
              ELSE IF t \in handed THEN "handed" ELSE "dropped"
    ELSE "unpaid"

\* A renewal is finished before it is recorded, but only a crash makes use of
\* the gap: whatever a login answers, and in whatever order, it is recorded.
OnlyACrashLosesARenewal ==
    \A t \in Tids :
        tx[t] # Nobody /\ tx[t].renewal /\ StatusOf(t) = "dropped" => relaunches > 0

\* XMApplePay keeps the promise OrderLedger makes.
Ledger == INSTANCE OrderLedger
            WITH Orders <- Tids, status <- [t \in Tids |-> StatusOf(t)]
LedgerKept == Ledger!LedgerSpec

\* As long as the user goes on buying, an order on its way to the server gets
\* its answer and leaves the list, the second records of an order included, or
\* a crash drops it before it is recorded.
TakenOrdersAreSettled ==
    \A t \in Tids :
        StatusOf(t) \in {"inHand", "recorded"} \/ t \in SavedTids(saved)
            ~> StatusOf(t) \in {"settled", "dropped"} /\ t \notin SavedTids(saved)

-----------------------------------------------------------------------------
(***************************************************************************)
(* What comments in the repository say, and the code does not do.          *)
(***************************************************************************)

\* XMAppleIAP_Lost_Transaction_Helper.m:18: the local data is updated when the
\* transaction has succeeded.
RecordsLeaveWhenAccepted ==
    [][ SavedTids(saved) \ SavedTids(saved') \subseteq accepted' ]_vars

\* XMAppleIAP.m:114: when a purchase succeeds its receipt is sent to the server
\* (by XMApplePay, or by the host that called XMSDKIOS).
PaidReceiptsAreSent ==
    \A t \in InState({"done"}) : ~ tx[t].renewal => StatusOf(t) # "dropped"
=============================================================================
