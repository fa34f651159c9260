----------------------------- MODULE OrderLedger -----------------------------
(***************************************************************************)
(* What XMApplePay promises about the orders of a device, whatever the     *)
(* order of callbacks, logins, verifications and crashes: an order that    *)
(* was paid stays with StoreKit until it is recorded on the device, given  *)
(* to the host, or let go of; a recorded order stays recorded until the    *)
(* business server has answered for it; what was answered stays answered.  *)
(* What went to the host or was let go of may still be recorded, if        *)
(* StoreKit hands it over again.  When an order may be let go of is not    *)
(* said here.                                                              *)
(***************************************************************************)
CONSTANT Orders

VARIABLE status

Statuses ==
    {"unpaid",      \* no money has moved
     "paid",        \* StoreKit holds an unfinished, paid transaction
     "inHand",      \* finished with StoreKit, waiting in memory for a login
     "recorded",    \* on the device's list of orders to verify
     "settled",     \* the business server has answered for it
     "handed",      \* finished with StoreKit, given to the host
     "dropped"}     \* finished with StoreKit, kept by nobody

LedgerInit == status = [o \in Orders |-> "unpaid"]

Move(o, from, to) ==
    /\ status[o] \in from
    /\ status' = [status EXCEPT ![o] = to]

Pay(o) == Move(o, {"unpaid"}, "paid")
TakeInHand(o) == Move(o, {"paid"}, "inHand")
Record(o) == Move(o, {"paid", "inHand", "handed", "dropped"}, "recorded")
Settle(o) == Move(o, {"recorded"}, "settled")
Hand(o) == Move(o, {"paid", "dropped"}, "handed")
Drop(o) == Move(o, {"paid"}, "dropped")

\* Only a crash loses what is in hand, and it loses nothing else.
Crash ==
    status' = [o \in Orders |->
                  IF status[o] = "inHand" THEN "dropped" ELSE status[o]]

LedgerNext ==
    \/ Crash
    \/ \E o \in Orders :
          \/ Pay(o)
          \/ TakeInHand(o)
          \/ Record(o)
          \/ Settle(o)
          \/ Hand(o)
          \/ Drop(o)

LedgerSpec == LedgerInit /\ [][LedgerNext]_status
=============================================================================
