--------------------------- MODULE SKPaymentQueue ---------------------------
(***************************************************************************)
(* StoreKit's payment queue (not part of the repository), as XMAppleIAP    *)
(* uses it: a payment becomes a transaction, the transaction is settled    *)
(* outside the app, and the queue hands it to the observer of each process *)
(* until finishTransaction: is called for it.  The queue survives the app. *)
(*                                                                         *)
(* An observer registered once is handed a transaction once per process.   *)
(* What one that is registered again is handed is not documented: here a   *)
(* transaction settled later is handed over once at least and at most once *)
(* for each registration, and the new registration may have what is not    *)
(* finished handed over once more.  A hand-over may come after the         *)
(* transaction was finished on an earlier one.                             *)
(***************************************************************************)
EXTENDS Naturals, FiniteSets

CONSTANTS Tids,         \* transaction identifiers
          Goods,        \* what a payment can be for
          Nobody        \* an identifier not yet used

VARIABLES
    tx,                 \* the transactions
    pending             \* how many times each is still to be handed over

queueVars == <<tx, pending>>

\* "done" and "closed": finished after a purchase, finished after anything else.
States == {"purchasing", "purchased", "failed", "restored", "done", "closed"}
Undelivered == {"purchased", "failed", "restored"}
Paid == {"purchased", "done"}
Unpaid == {"failed", "restored", "closed"}
Transaction == [state : States, pid : Goods, renewal : BOOLEAN]

ASSUME NobodyAssumption == Nobody \notin Transaction

QueueTypeOK ==
    /\ tx \in [Tids -> Transaction \cup {Nobody}]
    /\ pending \in [Tids -> Nat]

QueueInit ==
    /\ tx = [t \in Tids |-> Nobody]
    /\ pending = [t \in Tids |-> 0]

InState(S) == {t \in Tids : tx[t] # Nobody /\ tx[t].state \in S}

-----------------------------------------------------------------------------
\* The queue makes a transaction out of a payment.
NewTransaction(t, pid, state, renewal) ==
    /\ tx[t] = Nobody
    /\ tx' = [tx EXCEPT ![t] =
                [state |-> state, pid |-> pid, renewal |-> renewal]]

\* addPayment: queues a transaction the user has still to confirm.
QueuePayment(t, pid) ==
    /\ NewTransaction(t, pid, "purchasing", FALSE)
    /\ UNCHANGED pending

\* addPayment: in shouldAddStorePayment, and StoreKit's own payment when that
\* has answered YES.  The two are for one product; t = u if the queue joins
\* them, or if the promoted one was added at an earlier answer.
QueueTwoPayments(t, u, pid) ==
    /\ tx[t] = Nobody
    /\ tx[u] = Nobody
    /\ tx' = [x \in Tids |->
                IF x \in {t, u}
                THEN [state |-> "purchasing", pid |-> pid, renewal |-> FALSE]
                ELSE tx[x]]

\* addTransactionObserver: for an observer that is registered already.
ObserveAgain(again) ==
    /\ again \subseteq InState(Undelivered)
    /\ pending' = [t \in Tids |-> IF t \in again THEN pending[t] + 1 ELSE pending[t]]

\* A settled transaction will be handed over n times.
HandOver(t, n) == pending' = [pending EXCEPT ![t] = n]

\* The user or the App Store decides a purchase.
SettlePurchase(t, n) ==
    /\ t \in InState({"purchasing"})
    /\ \E outcome \in {"purchased", "failed"} :
          tx' = [tx EXCEPT ![t].state = outcome]
    /\ HandOver(t, n)

\* A subscription renews, or an earlier purchase is restored.
RenewSubscription(t, n) ==
    /\ \E pid \in Goods : NewTransaction(t, pid, "purchased", TRUE)
    /\ HandOver(t, n)

RestorePurchase(t, n) ==
    /\ \E pid \in Goods : NewTransaction(t, pid, "restored", TRUE)
    /\ HandOver(t, n)

\* finishTransaction: which changes nothing the second time.
FinishTransaction(t) ==
    /\ tx' = [tx EXCEPT ![t].state = IF @ \in Paid THEN "done" ELSE "closed"]
    /\ UNCHANGED pending

\* A new process observes the queue: whatever is settled and not finished will
\* be handed to it.
DeliverAgain ==
    /\ pending' = [t \in Tids |-> IF t \in InState(Undelivered) THEN 1 ELSE 0]
    /\ UNCHANGED tx
=============================================================================
