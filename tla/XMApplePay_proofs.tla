-------------------------- MODULE XMApplePay_proofs --------------------------
(***************************************************************************)
(* Proofs about XMApplePay, for any number of transactions, products,      *)
(* lookups, calls, submissions and crashes, in four parts: the list of     *)
(* orders; the inductive invariant and what follows from it; where every   *)
(* order is between two crashes; and the refinement of OrderLedger.        *)
(***************************************************************************)
EXTENDS XMApplePay, SequenceTheorems, FiniteSetTheorems, WellFoundedInduction,
        TLAPS

-----------------------------------------------------------------------------
(***************************************************************************)
(* The list of orders: what saving and updating do to it, at any length.   *)
(***************************************************************************)

\* Saving adds the record's transaction to those on the list.
LEMMA SavingAdds ==
    ASSUME NEW R, NEW orders \in Seq(R),
           NEW uid, NEW pid, NEW tid,
           [tid |-> tid, pid |-> pid, uid |-> uid] \in R
    PROVE  /\ saveUid(orders, uid, pid, tid) \in Seq(R)
           /\ SavedTids(saveUid(orders, uid, pid, tid)) = SavedTids(orders) \cup {tid}
<1> DEFINE r == [tid |-> tid, pid |-> pid, uid |-> uid]
           s == Append(orders, r)
<1>1. /\ s \in Seq(R)
      /\ Len(s) = Len(orders) + 1
      /\ \A i \in 1..Len(orders) : s[i] = orders[i]
      /\ s[Len(orders) + 1] = r
  BY AppendProperties
<1>2. DOMAIN s = 1..(Len(orders) + 1) /\ DOMAIN orders = 1..Len(orders) /\ Len(orders) \in Nat
  BY <1>1, LenProperties
<1>3. DOMAIN s = DOMAIN orders \cup {Len(orders) + 1}
  BY <1>2
<1>4. SavedTids(s) = SavedTids(orders) \cup {r.tid}
  BY <1>1, <1>2, <1>3 DEF SavedTids
<1> QED
  BY <1>1, <1>4 DEF saveUid

\* A record to remove is looked for from the start of the list.
LEMMA FirstPosition ==
    ASSUME NEW R, NEW orders \in Seq(R), NEW tid, Positions(orders, tid) # {}
    PROVE  /\ Min(Positions(orders, tid)) \in 1..Len(orders)
           /\ orders[Min(Positions(orders, tid))].tid = tid
<1> DEFINE P == Positions(orders, tid)
<1>1. P \subseteq 1..Len(orders) /\ P \in SUBSET Nat
  BY LenProperties DEF Positions
<1>2. \E x \in P : \A y \in P : x <= y
  <2> DEFINE less == OpToRel(<, Nat)
  <2>1. \A x, y \in Nat : x < y => <<x, y>> \in less
    BY DEF OpToRel
  <2>2. \E x \in P : \A y \in P : <<y, x>> \notin less
    <3> HIDE DEF less
    <3>1. IsWellFoundedOn(less, Nat)
      BY NatLessThanWellFounded DEF less
    <3> QED
      BY <1>1, <3>1, WFMin
  <2> HIDE DEF less, P
  <2>3. PICK x \in P : \A y \in P : <<y, x>> \notin less
    BY <2>2
  <2>4. ASSUME NEW y \in P PROVE x <= y
    <3>1. x \in Nat /\ y \in Nat /\ ~ (y < x)
      BY <1>1, <2>1, <2>3
    <3> QED
      BY <3>1
  <2> QED
    BY <2>4
<1>3. Min(P) \in P
  BY <1>2 DEF Min
<1> QED
  BY <1>1, <1>3 DEF Positions

\* The transaction has one record at most.
RecordedOnce(orders, tid) ==
    \A i, j \in DOMAIN orders : orders[i].tid = tid /\ orders[j].tid = tid => i = j

\* Updating removes at most one record, and only of that transaction.
LEMMA UpdatingRemoves ==
    ASSUME NEW R, NEW orders \in Seq(R), NEW tid
    PROVE  /\ updateSavedProductInfo(orders, tid) \in Seq(R)
           /\ SavedTids(updateSavedProductInfo(orders, tid)) \subseteq SavedTids(orders)
           /\ SavedTids(orders) \ {tid} \subseteq SavedTids(updateSavedProductInfo(orders, tid))
           /\ \A u : RecordedOnce(orders, u) => RecordedOnce(updateSavedProductInfo(orders, tid), u)
<1>1. CASE Positions(orders, tid) = {}
  BY <1>1 DEF updateSavedProductInfo
<1>2. CASE Positions(orders, tid) # {}
  <2> DEFINE k == Min(Positions(orders, tid))
             before == SubSeq(orders, 1, k - 1)
             after == SubSeq(orders, k + 1, Len(orders))
             s == before \o after
  <2>1. k \in 1..Len(orders) /\ orders[k].tid = tid /\ Len(orders) \in Nat
    BY <1>2, FirstPosition, LenProperties
  <2> HIDE DEF k
  <2>2. /\ before \in Seq(R)
        /\ Len(before) = k - 1
        /\ \A i \in 1..(k - 1) : before[i] = orders[i]
    BY <2>1, SubSeqProperties
  <2>3. /\ after \in Seq(R)
        /\ Len(after) = Len(orders) - k
        /\ \A i \in 1..(Len(orders) - k) : after[i] = orders[k + i]
    BY <2>1, SubSeqProperties
  <2> HIDE DEF before, after
  <2>4. /\ s \in Seq(R)
        /\ Len(s) = Len(before) + Len(after)
        /\ \A i \in 1..Len(before) : s[i] = before[i]
        /\ \A i \in 1..Len(after) : s[Len(before) + i] = after[i]
    <3>1. /\ s \in Seq(R)
          /\ Len(s) = Len(before) + Len(after)
          /\ \A i \in 1..(Len(before) + Len(after)) :
                s[i] = IF i <= Len(before) THEN before[i] ELSE after[i - Len(before)]
      BY <2>2, <2>3, ConcatProperties
    <3>2. Len(before) \in Nat /\ Len(after) \in Nat
      BY <2>2, <2>3, LenProperties
    <3> HIDE DEF s
    <3>3. ASSUME NEW i \in 1..Len(before) PROVE s[i] = before[i]
      BY <3>1, <3>2
    <3>4. ASSUME NEW i \in 1..Len(after) PROVE s[Len(before) + i] = after[i]
      <4> DEFINE j == Len(before) + i
      <4>1. j \in 1..(Len(before) + Len(after)) /\ ~ (j <= Len(before)) /\ j - Len(before) = i
        BY <3>2
      <4> QED
        BY <3>1, <4>1
    <3> QED
      BY <3>1, <3>3, <3>4
  <2>5. updateSavedProductInfo(orders, tid) = s
    BY <1>2 DEF updateSavedProductInfo, RemoveAt, before, after, k
  <2> HIDE DEF s
  <2>6. DOMAIN s = 1..(Len(orders) - 1) /\ DOMAIN orders = 1..Len(orders)
    BY <2>1, <2>2, <2>3, <2>4, LenProperties
  <2>7. \A i \in 1..(k - 1) : s[i] = orders[i]
    BY <2>1, <2>2, <2>4
  <2>8. \A j \in (k + 1)..Len(orders) : s[j - 1] = orders[j]
    <3> SUFFICES ASSUME NEW j \in (k + 1)..Len(orders) PROVE s[j - 1] = orders[j]
      OBVIOUS
    <3>1. j - k \in 1..(Len(orders) - k)
      BY <2>1
    <3>2. s[Len(before) + (j - k)] = after[j - k] /\ after[j - k] = orders[k + (j - k)]
      BY <3>1, <2>3, <2>4
    <3>3. Len(before) + (j - k) = j - 1 /\ k + (j - k) = j
      BY <2>1, <2>2
    <3> QED
      BY <3>2, <3>3
  <2>9. \A i \in DOMAIN s : \E j \in DOMAIN orders : s[i] = orders[j]
    <3> SUFFICES ASSUME NEW i \in DOMAIN s PROVE \E j \in DOMAIN orders : s[i] = orders[j]
      OBVIOUS
    <3>1. CASE i < k
      BY <3>1, <2>1, <2>6, <2>7
    <3>2. CASE i >= k
      <4>1. i + 1 \in (k + 1)..Len(orders) /\ (i + 1) - 1 = i /\ i + 1 \in DOMAIN orders
        BY <3>2, <2>1, <2>6
      <4> QED
        BY <4>1, <2>8
    <3> QED
      BY <3>1, <3>2, <2>1, <2>6
  <2>10. \A j \in DOMAIN orders : j # k => \E i \in DOMAIN s : s[i] = orders[j]
    <3> SUFFICES ASSUME NEW j \in DOMAIN orders, j # k
                 PROVE \E i \in DOMAIN s : s[i] = orders[j]
      OBVIOUS
    <3>1. CASE j < k
      BY <3>1, <2>1, <2>6, <2>7
    <3>2. CASE j > k
      <4>1. j \in (k + 1)..Len(orders) /\ j - 1 \in DOMAIN s
        BY <3>2, <2>1, <2>6
      <4> QED
        BY <4>1, <2>8
    <3> QED
      BY <3>1, <3>2, <2>1, <2>6
  <2>11. SavedTids(s) \subseteq SavedTids(orders)
    BY <2>9 DEF SavedTids
  <2>12. SavedTids(orders) \ {tid} \subseteq SavedTids(s)
    BY <2>1, <2>10 DEF SavedTids
  <2>13. ASSUME NEW u, RecordedOnce(orders, u) PROVE RecordedOnce(s, u)
    <3> DEFINE from(i) == IF i < k THEN i ELSE i + 1
    <3>1. \A i \in DOMAIN s : from(i) \in DOMAIN orders /\ s[i] = orders[from(i)]
      <4> SUFFICES ASSUME NEW i \in DOMAIN s
                   PROVE  from(i) \in DOMAIN orders /\ s[i] = orders[from(i)]
        OBVIOUS
      <4>1. CASE i < k
        BY <4>1, <2>1, <2>6, <2>7
      <4>2. CASE ~ (i < k)
        <5>1. i + 1 \in (k + 1)..Len(orders) /\ (i + 1) - 1 = i /\ i + 1 \in DOMAIN orders
          BY <4>2, <2>1, <2>6
        <5> QED
          BY <4>2, <5>1, <2>8
      <4> QED
        BY <4>1, <4>2
    <3>2. \A i, j \in DOMAIN s : from(i) = from(j) => i = j
      BY <2>1, <2>6
    <3> HIDE DEF from
    <3> QED
      BY <2>13, <3>1, <3>2 DEF RecordedOnce
  <2> QED
    BY <2>4, <2>5, <2>11, <2>12, <2>13
<1> QED
  BY <1>1, <1>2

\* An order with a copy to submit is on the list.
LEMMA CopiesAreSaved ==
    ASSUME NEW R, NEW orders \in Seq(R), NEW tid
    PROVE  /\ Copies(orders, tid) \in Nat
           /\ Copies(orders, tid) > 0 => tid \in SavedTids(orders)
<1> DEFINE P == Positions(orders, tid)
<1>1. P \subseteq 1..Len(orders) /\ Len(orders) \in Nat
  BY LenProperties DEF Positions
<1>2. IsFiniteSet(1..Len(orders))
  BY <1>1, FS_Interval
<1>3. IsFiniteSet(P)
  BY <1>1, <1>2, FS_Subset
<1>4. Cardinality(P) \in Nat /\ (Cardinality(P) = 0 <=> P = {})
  BY <1>3, FS_CardinalityType, FS_EmptySet
<1>5. P # {} => tid \in SavedTids(orders)
  BY DEF Positions, SavedTids
<1> QED
  BY <1>4, <1>5 DEF Copies

\* Saving a transaction that is not on the list records it once, and leaves
\* the number of records of the others alone.
LEMMA SavingRecordsOnce ==
    ASSUME NEW R, NEW orders \in Seq(R), NEW uid, NEW pid, NEW tid,
           [tid |-> tid, pid |-> pid, uid |-> uid] \in R
    PROVE  /\ tid \notin SavedTids(orders) => RecordedOnce(saveUid(orders, uid, pid, tid), tid)
           /\ \A u : u # tid /\ RecordedOnce(orders, u)
                        => RecordedOnce(saveUid(orders, uid, pid, tid), u)
<1> DEFINE r == [tid |-> tid, pid |-> pid, uid |-> uid]
           s == saveUid(orders, uid, pid, tid)
<1>1. /\ Len(s) = Len(orders) + 1 /\ s \in Seq(R)
      /\ \A i \in 1..Len(orders) : s[i] = orders[i]
      /\ s[Len(orders) + 1] = r
  BY AppendProperties DEF saveUid
<1>2. /\ DOMAIN orders = 1..Len(orders) /\ Len(orders) \in Nat
      /\ DOMAIN s = 1..(Len(orders) + 1)
  BY <1>1, LenProperties
<1> HIDE DEF s
<1>3. r.tid = tid
  OBVIOUS
<1>4. \A i \in DOMAIN s : \/ i \in DOMAIN orders /\ s[i] = orders[i]
                          \/ i = Len(orders) + 1 /\ s[i].tid = tid
  BY <1>1, <1>2, <1>3
<1>5. tid \notin SavedTids(orders) => \A i \in DOMAIN orders : orders[i].tid # tid
  BY DEF SavedTids
<1>6. tid \notin SavedTids(orders) => RecordedOnce(s, tid)
  BY <1>4, <1>5 DEF RecordedOnce
<1>7. \A u : u # tid /\ RecordedOnce(orders, u) => RecordedOnce(s, u)
  BY <1>4 DEF RecordedOnce
<1> QED
  BY <1>6, <1>7 DEF s

\* A transaction recorded once has no second copy.
LEMMA OnceMeansOneCopy ==
    ASSUME NEW R, NEW orders \in Seq(R), NEW tid, RecordedOnce(orders, tid)
    PROVE  Copies(orders, tid) <= 1
<1>1. CASE Positions(orders, tid) = {}
  BY <1>1, FS_EmptySet DEF Copies
<1>2. CASE Positions(orders, tid) # {}
  <2>1. PICK i \in Positions(orders, tid) : TRUE
    BY <1>2
  <2>2. Positions(orders, tid) = {i}
    BY <2>1 DEF Positions, RecordedOnce
  <2>3. Cardinality({i}) = 1
    BY FS_Singleton
  <2>4. Copies(orders, tid) = 1
    BY <2>2, <2>3, Zenon DEF Copies
  <2> QED
    BY <2>4
<1> QED
  BY <1>1, <1>2

-----------------------------------------------------------------------------
(***************************************************************************)
(* Types, OnlyPaidOrders and SubmittedOrdersAreKept.                       *)
(***************************************************************************)
\* None of the three is inductive alone: what a step does to a transaction has
\* a type only if the transaction was paid, and a submission that ends leaves
\* the order recorded or answered only if it was so while it was under way.
IInv == TypeOK /\ OnlyPaidOrders /\ SubmittedOrdersAreKept

-----------------------------------------------------------------------------
\* Starting a purchase or a query leaves XMAppleIAP's properties well typed.
LEMMA StartingKeepsTypes ==
    ASSUME IAPTypeOK,
           \/ \E l \in Lookups, pid \in Products, b \in Blocks : StartPurchase(l, pid, b)
           \/ \E b \in Blocks : RefusePurchase(b)
           \/ \E l \in Lookups, ids \in SUBSET Products : QueryProducts(l, ids)
    PROVE  IAPTypeOK'
<1>0. ASSUME SharedInstance PROVE registrations' \in Nat
  BY <1>0 DEF IAPTypeOK, SharedInstance
<1>1. ASSUME NEW l \in Lookups, NEW pid \in Products, NEW b \in Blocks, StartPurchase(l, pid, b)
      PROVE  IAPTypeOK'
  <2>1. lookups' \in [Lookups -> Asked \cup {Nil}]
    BY <1>1 DEF IAPTypeOK, StartPurchase, Asked
  <2> QED
    BY <1>0, <1>1, <2>1, Zenon DEF IAPTypeOK, StartPurchase
<1>2. ASSUME NEW b \in Blocks, RefusePurchase(b) PROVE IAPTypeOK'
  BY <1>0, <1>2, Zenon DEF IAPTypeOK, RefusePurchase
<1>3. ASSUME NEW l \in Lookups, NEW ids \in SUBSET Products, QueryProducts(l, ids)
      PROVE  IAPTypeOK'
  <2>1. lookups' \in [Lookups -> Asked \cup {Nil}]
    BY <1>3 DEF IAPTypeOK, QueryProducts, Asked
  <2> QED
    BY <1>0, <1>3, <2>1, Zenon DEF IAPTypeOK, QueryProducts
<1> QED
  BY <1>1, <1>2, <1>3

\* So does every answer to a lookup, and a new process.
LEMMA AnsweringKeepsTypes ==
    ASSUME IAPTypeOK,
           \/ \E l \in Lookups : \/ EmptyResponse(l) \/ AnswerQuery(l) \/ ProductMissing(l)
                                 \/ AddPayment(l) \/ RequestFails(l)
           \/ ForgetRequests
           \/ UNCHANGED iapVars
    PROVE  IAPTypeOK'
<1>1. CASE ForgetRequests
  BY <1>1 DEF IAPTypeOK, ForgetRequests
<1>2. CASE UNCHANGED iapVars
  BY <1>2 DEF IAPTypeOK, iapVars
<1>3. ASSUME NEW l \in Lookups,
             \/ EmptyResponse(l) \/ AnswerQuery(l) \/ ProductMissing(l)
             \/ AddPayment(l) \/ RequestFails(l)
      PROVE  IAPTypeOK'
  <2>1. lookups' \in [Lookups -> Asked \cup {Nil}]
    BY <1>3 DEF IAPTypeOK, EmptyResponse, AnswerQuery, ProductMissing, AddPayment,
       RequestFails, Answered
  <2>2. products' \in BOOLEAN /\ UNCHANGED <<registrations, currentPurchaseID, block>>
    BY <1>3 DEF IAPTypeOK, EmptyResponse, AnswerQuery, ProductMissing, AddPayment, RequestFails
  <2> QED
    BY <2>1, <2>2 DEF IAPTypeOK
<1> QED
  BY <1>1, <1>2, <1>3

\* So does registering the observer once more.
LEMMA RegisteringKeepsTypes ==
    ASSUME IAPTypeOK, RegisterAgain
    PROVE  IAPTypeOK'
BY DEF IAPTypeOK, RegisterAgain

\* So does a products block that asks again.
LEMMA AskingAgainKeepsTypes ==
    ASSUME IAPTypeOK, NEW l \in Lookups, NEW other \in Lookups,
           NEW ids \in SUBSET Products, AnswerQueryAskingAgain(l, other, ids)
    PROVE  IAPTypeOK'
<1>1. lookups' \in [Lookups -> Asked \cup {Nil}]
  BY DEF IAPTypeOK, AnswerQueryAskingAgain, Asked
<1> QED
  BY <1>1, Zenon DEF IAPTypeOK, AnswerQueryAskingAgain

\* StoreKit's own steps keep its transactions well typed.
LEMMA StoreKitKeepsTypes ==
    ASSUME QueueTypeOK, NEW t \in Tids,
           \/ \E n \in Nat : \/ SettlePurchase(t, n)
                            \/ RenewSubscription(t, n)
                            \/ RestorePurchase(t, n)
           \/ \E pid \in Goods : QueuePayment(t, pid)
           \/ /\ \E u \in Tids, pid \in Goods : QueueTwoPayments(t, u, pid)
              /\ \E again : ObserveAgain(again)
           \/ t \in InState(Paid \cup Unpaid) /\ FinishTransaction(t)
    PROVE  QueueTypeOK'
<1> USE DEF QueueTypeOK, Transaction, States, InState, Paid, Unpaid, HandOver
<1>1. ASSUME NEW n \in Nat, SettlePurchase(t, n) PROVE QueueTypeOK'
  BY <1>1 DEF SettlePurchase
<1>2. ASSUME NEW n \in Nat, RenewSubscription(t, n) PROVE QueueTypeOK'
  BY <1>2 DEF RenewSubscription, NewTransaction
<1>3. ASSUME NEW n \in Nat, RestorePurchase(t, n) PROVE QueueTypeOK'
  BY <1>3 DEF RestorePurchase, NewTransaction
<1>4. ASSUME NEW pid \in Goods, QueuePayment(t, pid) PROVE QueueTypeOK'
  BY <1>4 DEF QueuePayment, NewTransaction
<1>5. ASSUME NEW u \in Tids, NEW pid \in Goods, QueueTwoPayments(t, u, pid),
             NEW again, ObserveAgain(again)
      PROVE  QueueTypeOK'
  <2>1. tx' \in [Tids -> Transaction \cup {Nobody}]
    BY <1>5 DEF QueueTwoPayments
  <2>2. pending' \in [Tids -> Nat]
    BY <1>5 DEF ObserveAgain
  <2> QED
    BY <2>1, <2>2
<1>6. ASSUME t \in InState(Paid \cup Unpaid), FinishTransaction(t) PROVE QueueTypeOK'
  BY <1>6 DEF FinishTransaction
<1> QED
  BY <1>1, <1>2, <1>3, <1>4, <1>5, <1>6

-----------------------------------------------------------------------------
\* What a handler passes on is a uid or a nil one, and its blocks are Blocks.
LEMMA BlocksAreTyped ==
    ASSUME NEW model \in Uids \cup {NoUid, Nil}, NEW pid \in Products
    PROVE  /\ UidOf(model) \in Uids \cup {NoUid}
           /\ PayBlock(pid, model) \in Blocks
           /\ [route |-> "direct", pid |-> pid, uid |-> NoUid] \in Blocks
<1>1. UidOf(model) \in Uids \cup {NoUid}
  BY DEF UidOf
<1> QED
  BY <1>1, PayAssumption DEF PayBlock

\* Beginning a purchase with any block keeps XMAppleIAP well typed.
LEMMA BeginningKeepsTypes ==
    ASSUME IAPTypeOK, NEW pid \in Products, NEW b \in Blocks, BeginPurchase(pid, b)
    PROVE  IAPTypeOK'
BY StartingKeepsTypes DEF BeginPurchase

\* Recording an order keeps the list and the submissions well typed.
LEMMA RecordingKeepsTypes ==
    ASSUME saved \in Seq(Order), inFlight \in [Tids -> Nat],
           NEW t \in Tids, NEW uid \in Uids \cup {NoUid}, NEW pid \in Products,
           RecordAndSubmit(t, uid, pid)
    PROVE  /\ saved' \in Seq(Order)
           /\ inFlight' \in [Tids -> Nat]
           /\ SavedTids(saved') = SavedTids(saved) \cup {t}
           /\ inFlight' = [inFlight EXCEPT ![t] = @ + 1]
<1>1. [tid |-> t, pid |-> pid, uid |-> uid] \in Order
  BY DEF Order
<1>2. saved' = saveUid(saved, uid, pid, t)
  BY DEF RecordAndSubmit
<1>3. saved' \in Seq(Order) /\ SavedTids(saved') = SavedTids(saved) \cup {t}
  BY <1>1, <1>2, SavingAdds
<1> QED
  BY <1>3 DEF RecordAndSubmit

\* Submitting the lost orders again keeps the submissions well typed.
LEMMA ProcessingKeepsTypes ==
    ASSUME saved \in Seq(Order), inFlight \in [Tids -> Nat], ProcessLostTransaction
    PROVE  /\ saved' = saved
           /\ inFlight' \in [Tids -> Nat]
           /\ \A t \in Tids : inFlight'[t] > 0 => inFlight[t] > 0 \/ t \in SavedTids(saved)
<1>1. \A t \in Tids : Copies(saved, t) \in Nat /\ (Copies(saved, t) > 0 => t \in SavedTids(saved))
  BY CopiesAreSaved
<1> QED
  BY <1>1 DEF ProcessLostTransaction

\* What is common to the handlers of a settled transaction.
LEMMA TakingKeepsTypes ==
    ASSUME TypeOK, NEW t \in Tids, NEW states, Take(t, states)
    PROVE  /\ IAPTypeOK'
           /\ QueueTypeOK'
           /\ tx' = tx
           /\ t \in InState(states)
           /\ pending[t] > 0
           /\ pending' = [pending EXCEPT ![t] = @ - 1]
           /\ tx[t] \in Transaction
<1>1. IAPTypeOK'
  BY AnsweringKeepsTypes DEF TypeOK, Take, iapVars
<1>2. tx[t] \in Transaction
  BY DEF TypeOK, QueueTypeOK, Take, InState
<1> QED
  BY <1>1, <1>2 DEF TypeOK, QueueTypeOK, Take

-----------------------------------------------------------------------------
\* The parts of IInv that speak of orders.
OrdersInv == OnlyPaidOrders /\ SubmittedOrdersAreKept

\* Steps before a payment is settled leave the orders alone.
LEMMA OrdersUntouched ==
    ASSUME OrdersInv,
           UNCHANGED <<queueVars, renewing, orderVars, finishing, serverVars, handed>>
    PROVE  OrdersInv'
BY DEF OrdersInv, OnlyPaidOrders, PaidOnly, RoutesAreSeparate, FinishingIsSettled, Waiting,
       SubmittedOrdersAreKept, InState, queueVars, orderVars, serverVars

\* Handlers move no transaction from one state to another.
LEMMA StatesUntouched ==
    ASSUME tx' = tx, NEW S
    PROVE  InState(S)' = InState(S)
BY DEF InState

\* The host's calls, and the answers to logins of purchases.
LEMMA CallsKeepIInv ==
    ASSUME IInv,
           \/ \E pid \in Products : StartPay(pid) \/ StartDirect(pid)
           \/ \E c \in Calls, pid \in Products : StartPayWithLogin(c, pid)
           \/ \E ids \in Queries : StartQuery(ids)
           \/ \E c \in Calls, model \in Logins : LoginAnswered(c, model)
    PROVE  IInv'
<1> USE DEF queueVars, userVars, orderVars, serverVars, history
<1>0. TypeOK /\ OrdersInv /\ IAPTypeOK /\ saved \in Seq(Order) /\ inFlight \in [Tids -> Nat]
  BY DEF IInv, OrdersInv, TypeOK
<1>1. ASSUME NEW pid \in Products, StartPay(pid) PROVE IInv'
  <2>1. userModel \in Uids \cup {NoUid, Nil}
    BY <1>0 DEF TypeOK
  <2>2. IAPTypeOK'
    BY <1>0, <1>1, <2>1, BlocksAreTyped, BeginningKeepsTypes DEF StartPay
  <2>3. /\ saved' = saved
        /\ inFlight' \in [Tids -> Nat]
        /\ \A t \in Tids : inFlight'[t] > 0 => inFlight[t] > 0 \/ t \in SavedTids(saved)
    BY <1>0, <1>1, ProcessingKeepsTypes DEF StartPay
  <2>4. TypeOK'
    BY <1>0, <1>1, <2>2, <2>3 DEF TypeOK, QueueTypeOK, StartPay
  <2>5. OnlyPaidOrders'
    BY <1>0, <1>1, <2>3 DEF OrdersInv, OnlyPaidOrders, PaidOnly, RoutesAreSeparate,
       FinishingIsSettled, Waiting, InState, StartPay
  <2>6. SubmittedOrdersAreKept'
    BY <1>0, <1>1, <2>3 DEF OrdersInv, SubmittedOrdersAreKept, StartPay
  <2> QED
    BY <2>4, <2>5, <2>6 DEF IInv
<1>2. ASSUME NEW pid \in Products, StartDirect(pid) PROVE IInv'
  <2>1. IAPTypeOK'
    BY <1>0, <1>2, BlocksAreTyped, BeginningKeepsTypes DEF StartDirect
  <2>2. TypeOK'
    BY <1>0, <1>2, <2>1 DEF TypeOK, QueueTypeOK, StartDirect
  <2> QED
    BY <1>0, <1>2, <2>2, OrdersUntouched DEF IInv, OrdersInv, StartDirect
<1>3. ASSUME NEW c \in Calls, NEW pid \in Products, StartPayWithLogin(c, pid) PROVE IInv'
  <2>1. IAPTypeOK'
    BY <1>0, <1>3, AnsweringKeepsTypes DEF StartPayWithLogin
  <2>2. /\ saved' = saved
        /\ inFlight' \in [Tids -> Nat]
        /\ \A t \in Tids : inFlight'[t] > 0 => inFlight[t] > 0 \/ t \in SavedTids(saved)
    BY <1>0, <1>3, ProcessingKeepsTypes DEF StartPayWithLogin
  <2>3. TypeOK'
    BY <1>0, <1>3, <2>1, <2>2 DEF TypeOK, QueueTypeOK, StartPayWithLogin
  <2>4. OnlyPaidOrders'
    BY <1>0, <1>3, <2>2 DEF OrdersInv, OnlyPaidOrders, PaidOnly, RoutesAreSeparate,
       FinishingIsSettled, Waiting, InState, StartPayWithLogin
  <2>5. SubmittedOrdersAreKept'
    BY <1>0, <1>3, <2>2 DEF OrdersInv, SubmittedOrdersAreKept, StartPayWithLogin
  <2> QED
    BY <2>3, <2>4, <2>5 DEF IInv
<1>4. ASSUME NEW ids \in Queries, StartQuery(ids) PROVE IInv'
  <2>1. IAPTypeOK'
    BY <1>0, <1>4, PayAssumption, StartingKeepsTypes DEF StartQuery
  <2>2. TypeOK'
    BY <1>0, <1>4, <2>1 DEF TypeOK, QueueTypeOK, StartQuery
  <2> QED
    BY <1>0, <1>4, <2>2, OrdersUntouched DEF IInv, OrdersInv, StartQuery
<1>5. ASSUME NEW c \in Calls, NEW model \in Logins, LoginAnswered(c, model) PROVE IInv'
  <2>1. logins[c] \in Products /\ model \in Uids \cup {NoUid, Nil}
    BY <1>0, <1>5, PayAssumption DEF TypeOK, LoginAnswered
  <2>2. IAPTypeOK'
    BY <1>0, <1>5, <2>1, BlocksAreTyped, BeginningKeepsTypes DEF LoginAnswered
  <2>3. TypeOK'
    BY <1>0, <1>5, <2>1, <2>2 DEF TypeOK, QueueTypeOK, LoginAnswered
  <2> QED
    BY <1>0, <1>5, <2>3, OrdersUntouched DEF IInv, OrdersInv, LoginAnswered
<1> QED
  BY <1>1, <1>2, <1>3, <1>4, <1>5

\* A payment is added for a product.
LEMMA CurrentIsAGood ==
    ASSUME IAPTypeOK, NEW l \in Lookups, AddPayment(l)
    PROVE  currentPurchaseID \in Goods
<1>1. PICK found \in Responses(l) : currentPurchaseID \in found
  BY DEF AddPayment
<1>2. lookups[l] \in Asked
  BY <1>1 DEF IAPTypeOK, Responses
<1> QED
  BY <1>1, <1>2, PayAssumption DEF Responses, Asked

\* StoreKit's own steps touch no transaction that was paid, and none that is
\* settled.
LEMMA StoreKitSparesSettled ==
    ASSUME QueueTypeOK,
           \/ \E t \in Tids, pid \in Goods : QueuePayment(t, pid)
           \/ \E t, u \in Tids, pid \in Goods : QueueTwoPayments(t, u, pid)
           \/ \E t \in Tids, n \in Nat :
                \/ SettlePurchase(t, n)
                \/ RenewSubscription(t, n)
                \/ RestorePurchase(t, n)
    PROVE  \A t \in InState(Paid \cup Unpaid) : tx'[t] = tx[t]
<1> DEFINE Spared == \A t \in InState(Paid \cup Unpaid) : tx'[t] = tx[t]
<1> USE DEF InState, Paid, Unpaid, QueueTypeOK
<1>1. ASSUME NEW t \in Tids, NEW pid \in Goods, QueuePayment(t, pid) PROVE Spared
  BY <1>1 DEF QueuePayment, NewTransaction
<1>2. ASSUME NEW t \in Tids, NEW u \in Tids, NEW pid \in Goods, QueueTwoPayments(t, u, pid)
      PROVE  Spared
  BY <1>2 DEF QueueTwoPayments
<1>3. ASSUME NEW t \in Tids, NEW n, SettlePurchase(t, n) PROVE Spared
  BY <1>3 DEF SettlePurchase
<1>4. ASSUME NEW t \in Tids, NEW n, RenewSubscription(t, n) PROVE Spared
  BY <1>4 DEF RenewSubscription, NewTransaction
<1>5. ASSUME NEW t \in Tids, NEW n, RestorePurchase(t, n) PROVE Spared
  BY <1>5 DEF RestorePurchase, NewTransaction
<1> QED
  BY <1>1, <1>2, <1>3, <1>4, <1>5

\* A hand-over is made a whole number of times, once at least.
LEMMA HandOversAreCounted ==
    ASSUME IAPTypeOK
    PROVE  HandOvers \subseteq Nat \ {0}
BY DEF IAPTypeOK, HandOvers, observing

\* The answers to lookups, and StoreKit's own steps.
LEMMA StoreKeepsIInv ==
    ASSUME IInv,
           \/ \E l \in Lookups : LookupEnds(l) \/ LookupPays(l)
           \/ PromotedPurchase
           \/ StoreKit
    PROVE  IInv'
<1> USE DEF userVars, orderVars, serverVars, history
<1>0. TypeOK /\ OrdersInv /\ IAPTypeOK /\ QueueTypeOK
  BY DEF IInv, OrdersInv, TypeOK
<1>1. ASSUME NEW l \in Lookups, LookupEnds(l) PROVE IInv'
  <2>1. IAPTypeOK'
    BY <1>0, <1>1, PayAssumption, AnsweringKeepsTypes, AskingAgainKeepsTypes DEF LookupEnds
  <2>2. TypeOK'
    BY <1>0, <1>1, <2>1 DEF TypeOK, QueueTypeOK, LookupEnds, queueVars
  <2> QED
    BY <1>0, <1>1, <2>2, OrdersUntouched DEF IInv, OrdersInv, LookupEnds
<1>2. ASSUME \/ \E l \in Lookups : LookupPays(l)
             \/ PromotedPurchase
             \/ StoreKit
      PROVE  IInv'
  <2>1. IAPTypeOK'
    BY <1>0, <1>2, AnsweringKeepsTypes, RegisteringKeepsTypes
    DEF LookupPays, PromotedPurchase, StoreKit
  <2>2. QueueTypeOK'
    <3>1. ASSUME NEW l \in Lookups, LookupPays(l) PROVE QueueTypeOK'
      <4>1. currentPurchaseID \in Goods
        BY <1>0, <3>1, CurrentIsAGood DEF LookupPays
      <4> QED
        BY <1>0, <3>1, <4>1, StoreKitKeepsTypes DEF LookupPays
    <3>2. ASSUME PromotedPurchase PROVE QueueTypeOK'
      BY <1>0, <3>2, PayAssumption, StoreKitKeepsTypes DEF PromotedPurchase
    <3>3. ASSUME StoreKit PROVE QueueTypeOK'
      BY <1>0, <3>3, StoreKitKeepsTypes, HandOversAreCounted DEF StoreKit
    <3> QED
      BY <1>2, <3>1, <3>2, <3>3
  <2>3. UNCHANGED <<renewing, saved, inFlight, finishing, answered, accepted, handed>>
    BY <1>2 DEF LookupPays, PromotedPurchase, StoreKit
  <2>4. TypeOK'
    <3>1. userModel' = userModel /\ logins' = logins /\ torn' = torn /\ relaunches' = relaunches
      BY <1>2 DEF LookupPays, PromotedPurchase, StoreKit
    <3>2. repeated' \subseteq Tids
      BY <1>0, <1>2 DEF TypeOK, LookupPays, PromotedPurchase, StoreKit, InState
    <3> QED
      BY <1>0, <2>1, <2>2, <2>3, <3>1, <3>2 DEF TypeOK
  <2>5. \/ \E t \in Tids, pid \in Goods : QueuePayment(t, pid)
        \/ \E t, u \in Tids, pid \in Goods : QueueTwoPayments(t, u, pid)
        \/ \E t \in Tids, n \in Nat :
             SettlePurchase(t, n) \/ RenewSubscription(t, n) \/ RestorePurchase(t, n)
    <3>1. ASSUME NEW l \in Lookups, LookupPays(l)
          PROVE  \E t \in Tids, pid \in Goods : QueuePayment(t, pid)
      <4>1. currentPurchaseID \in Goods
        BY <1>0, <3>1, CurrentIsAGood DEF LookupPays
      <4> QED
        BY <3>1, <4>1 DEF LookupPays
    <3> QED
      BY <1>0, <1>2, <3>1, PayAssumption, HandOversAreCounted DEF PromotedPurchase, StoreKit
  <2>6. \A t \in InState(Paid \cup Unpaid) : tx'[t] = tx[t]
    BY <1>0, <2>5, StoreKitSparesSettled
  <2>7. /\ \A t \in InState(Paid) : t \in InState(Paid)' /\ tx'[t] = tx[t]
        /\ InState(Paid \cup Unpaid) \subseteq InState(Paid \cup Unpaid)'
    BY <2>6 DEF InState
  <2>8. Waiting' = Waiting /\ SavedTids(saved)' = SavedTids(saved)
    BY <2>3 DEF Waiting, SavedTids
  <2> QED
    BY <1>0, <2>3, <2>4, <2>7, <2>8
    DEF IInv, OrdersInv, OnlyPaidOrders, PaidOnly, RoutesAreSeparate, FinishingIsSettled,
        SubmittedOrdersAreKept
<1> QED
  BY <1>1, <1>2

\* A handler of a settled transaction that records it, keeps it in hand, gives
\* it to the host, or does nothing with it.
LEMMA TakingKeepsIInv ==
    ASSUME IInv, NEW t \in Tids,
           \/ TakeRenewal(t) \/ TakeRenewalWithLogin(t)
           \/ TakeOrder(t) \/ TakeOrderForHost(t) \/ TakeOrderForNobody(t)
           \/ TakeOrderWithoutReceipt(t) \/ TakeUnpaid(t)
    PROVE  IInv'
<1> USE DEF userVars, orderVars, serverVars, history
<1>0. /\ TypeOK /\ QueueTypeOK /\ OnlyPaidOrders /\ SubmittedOrdersAreKept
      /\ saved \in Seq(Order) /\ inFlight \in [Tids -> Nat] /\ Nil \notin Tids
  BY PayAssumption DEF IInv, TypeOK
<1>1. PICK states \in {Paid, Unpaid} : Take(t, states)
  BY DEF TakeRenewal, TakeRenewalWithLogin, TakeOrder, TakeOrderForHost,
     TakeOrderForNobody, TakeOrderWithoutReceipt, TakeUnpaid
<1>2. /\ IAPTypeOK' /\ QueueTypeOK' /\ tx' = tx
      /\ t \in InState(states)
      /\ tx[t] \in Transaction
  BY <1>0, <1>1, TakingKeepsTypes
<1>3. finishing = Nil
  BY <1>1 DEF Take, Idle
<1>4. \A S : InState(S)' = InState(S)
  BY <1>2 DEF InState
<1>5. FinishingIsSettled'
  <2>1. t \in InState(Paid \cup Unpaid)
    BY <1>2 DEF InState
  <2>2. finishing' = t \/ finishing' = Nil
    BY <1>3 DEF TakeRenewal, TakeRenewalWithLogin, TakeOrder, TakeOrderForHost,
       TakeOrderForNobody, TakeOrderWithoutReceipt, TakeUnpaid
  <2> QED
    BY <1>2, <1>4, <2>1, <2>2 DEF FinishingIsSettled
<1>6. ASSUME NEW uid \in Uids \cup {NoUid}, NEW pid \in Products,
             RecordAndSubmit(t, uid, pid), t \in InState(Paid),
             finishing' = t, UNCHANGED <<userVars, serverVars, history>>
      PROVE  IInv'
  <2>1. /\ saved' \in Seq(Order)
        /\ inFlight' \in [Tids -> Nat]
        /\ SavedTids(saved') = SavedTids(saved) \cup {t}
        /\ inFlight' = [inFlight EXCEPT ![t] = @ + 1]
    BY <1>0, <1>6, RecordingKeepsTypes
  <2>2. TypeOK'
    BY <1>0, <1>2, <1>6, <2>1 DEF TypeOK
  <2>3. PaidOnly'
    BY <1>0, <1>4, <1>6, <2>1 DEF OnlyPaidOrders, PaidOnly, Waiting
  <2>4. RoutesAreSeparate'
    BY <1>0, <1>2, <1>6 DEF OnlyPaidOrders, RoutesAreSeparate, Waiting
  <2>5. SubmittedOrdersAreKept'
    BY <1>0, <1>6, <2>1 DEF SubmittedOrdersAreKept
  <2> QED
    BY <1>5, <2>2, <2>3, <2>4, <2>5 DEF IInv, OnlyPaidOrders
<1>7. ASSUME TakeRenewal(t) PROVE IInv'
  <2>1. userModel \in Uids \cup {NoUid} /\ tx[t].pid \in Products
    BY <1>0, <1>2, <1>7, PayAssumption DEF TakeRenewal, TypeOK, Transaction
  <2> QED
    BY <1>6, <1>7, <2>1 DEF TakeRenewal, Take
<1>8. ASSUME TakeOrder(t) PROVE IInv'
  <2>1. block.uid \in Uids \cup {NoUid} /\ block.pid \in Products
    BY <1>0, <1>8, PayAssumption DEF TakeOrder, TypeOK, IAPTypeOK
  <2> QED
    BY <1>6, <1>8, <2>1 DEF TakeOrder, Take
<1>9. ASSUME TakeRenewalWithLogin(t) PROVE IInv'
  <2>1. t \in InState(Paid) /\ tx[t].renewal
    BY <1>9 DEF TakeRenewalWithLogin, Take, InState
  <2>w. renewing' \in [Tids -> Nat] /\ Waiting' \subseteq Waiting \cup {t}
    BY <1>0, <1>9 DEF TypeOK, TakeRenewalWithLogin, Waiting
  <2>2. TypeOK'
    BY <1>0, <1>2, <1>9, <2>w DEF TypeOK, TakeRenewalWithLogin
  <2>3. PaidOnly' /\ RoutesAreSeparate'
    BY <1>0, <1>2, <1>4, <1>9, <2>1, <2>w
    DEF OnlyPaidOrders, PaidOnly, RoutesAreSeparate, TakeRenewalWithLogin
  <2>4. SubmittedOrdersAreKept'
    BY <1>0, <1>9 DEF SubmittedOrdersAreKept, TakeRenewalWithLogin
  <2> QED
    BY <1>5, <2>2, <2>3, <2>4 DEF IInv, OnlyPaidOrders
<1>10. ASSUME TakeOrderForHost(t) PROVE IInv'
  <2>1. t \in InState(Paid) /\ ~ tx[t].renewal
    BY <1>10 DEF TakeOrderForHost, Take, InState
  <2>2. TypeOK'
    BY <1>0, <1>2, <1>10 DEF TypeOK, TakeOrderForHost
  <2>3. PaidOnly' /\ RoutesAreSeparate'
    BY <1>0, <1>2, <1>4, <1>10, <2>1
    DEF OnlyPaidOrders, PaidOnly, RoutesAreSeparate, TakeOrderForHost, Waiting
  <2>4. SubmittedOrdersAreKept'
    BY <1>0, <1>10 DEF SubmittedOrdersAreKept, TakeOrderForHost
  <2> QED
    BY <1>5, <2>2, <2>3, <2>4 DEF IInv, OnlyPaidOrders
<1>11. ASSUME TakeOrderForNobody(t) \/ TakeOrderWithoutReceipt(t) \/ TakeUnpaid(t) PROVE IInv'
  <2>1. UNCHANGED <<userVars, orderVars, serverVars, history>> /\ finishing' \in {t, Nil}
    BY <1>3, <1>11 DEF TakeOrderForNobody, TakeOrderWithoutReceipt, TakeUnpaid
  <2>2. TypeOK'
    BY <1>0, <1>2, <2>1 DEF TypeOK
  <2>3. PaidOnly' /\ RoutesAreSeparate' /\ SubmittedOrdersAreKept'
    BY <1>0, <1>2, <1>4, <2>1
    DEF OnlyPaidOrders, PaidOnly, RoutesAreSeparate, SubmittedOrdersAreKept, Waiting
  <2> QED
    BY <1>5, <2>2, <2>3 DEF IInv, OnlyPaidOrders
<1> QED
  BY <1>7, <1>8, <1>9, <1>10, <1>11

\* The rest of the life of an order: the answer to a renewal's login, the end
\* of its transaction, the answers to its submissions, and a crash.
LEMMA OrdersKeepIInv ==
    ASSUME IInv,
           \/ \E t \in Tids : \/ \E model \in Logins : RenewalLoginAnswered(t, model)
                              \/ \E ok \in Verdicts : Verified(t, ok)
                              \/ VerifyFailed(t)
           \/ Finish
           \/ Relaunch
           \/ UNCHANGED vars
    PROVE  IInv'
<1> USE DEF userVars, orderVars, serverVars, history
<1>0. /\ TypeOK /\ IAPTypeOK /\ QueueTypeOK /\ OnlyPaidOrders /\ SubmittedOrdersAreKept
      /\ saved \in Seq(Order) /\ inFlight \in [Tids -> Nat] /\ Nil \notin Tids
  BY PayAssumption DEF IInv, TypeOK
<1>1. ASSUME NEW t \in Tids, NEW model \in Logins, RenewalLoginAnswered(t, model) PROVE IInv'
  <2>1. t \in InState(Paid) /\ tx[t].pid \in Products
    BY <1>0, <1>1, PayAssumption
    DEF OnlyPaidOrders, PaidOnly, Waiting, RenewalLoginAnswered, InState, QueueTypeOK, Transaction
  <2>2. UidOf(model) \in Uids \cup {NoUid} /\ model \in Uids \cup {NoUid, Nil}
    BY PayAssumption DEF UidOf
  <2>w. renewing' \in [Tids -> Nat] /\ Waiting' \subseteq Waiting
    BY <1>0, <1>1 DEF TypeOK, RenewalLoginAnswered, Waiting
  <2>3. /\ saved' \in Seq(Order)
        /\ inFlight' \in [Tids -> Nat]
        /\ SavedTids(saved') = SavedTids(saved) \cup {t}
        /\ inFlight' = [inFlight EXCEPT ![t] = @ + 1]
    BY <1>0, <1>1, <2>1, <2>2, RecordingKeepsTypes DEF RenewalLoginAnswered
  <2>4. IAPTypeOK' /\ QueueTypeOK' /\ UNCHANGED queueVars
    BY <1>0, <1>1, AnsweringKeepsTypes DEF RenewalLoginAnswered, QueueTypeOK, queueVars
  <2>5. TypeOK'
    BY <1>0, <1>1, <2>2, <2>3, <2>4, <2>w DEF TypeOK, RenewalLoginAnswered
  <2>6. OnlyPaidOrders'
    BY <1>0, <1>1, <2>1, <2>3, <2>4, <2>w
    DEF OnlyPaidOrders, PaidOnly, RoutesAreSeparate, FinishingIsSettled,
        RenewalLoginAnswered, InState, queueVars
  <2>7. SubmittedOrdersAreKept'
    BY <1>0, <1>1, <2>3 DEF SubmittedOrdersAreKept, RenewalLoginAnswered
  <2> QED
    BY <2>5, <2>6, <2>7 DEF IInv
<1>2. ASSUME NEW t \in Tids, NEW ok \in Verdicts, Verified(t, ok) PROVE IInv'
  <2>1. /\ saved' \in Seq(Order)
        /\ SavedTids(saved') \subseteq SavedTids(saved)
        /\ SavedTids(saved) \ {t} \subseteq SavedTids(saved')
    BY <1>0, <1>2, UpdatingRemoves DEF Verified
  <2>2. t \in InState(Paid)
    BY <1>0, <1>2 DEF OnlyPaidOrders, PaidOnly, SubmittedOrdersAreKept, Verified
  <2>3. /\ inFlight' \in [Tids -> Nat]
        /\ \A u \in Tids : inFlight'[u] > 0 => inFlight[u] > 0
    BY <1>0, <1>2 DEF Verified
  <2>4. IAPTypeOK' /\ QueueTypeOK' /\ UNCHANGED queueVars
    BY <1>0, <1>2, AnsweringKeepsTypes DEF Verified, QueueTypeOK, queueVars
  <2>5. TypeOK'
    BY <1>0, <1>2, <2>1, <2>3, <2>4 DEF TypeOK, Verified
  <2>6. OnlyPaidOrders'
    BY <1>0, <1>2, <2>1, <2>2, <2>4
    DEF OnlyPaidOrders, PaidOnly, RoutesAreSeparate, FinishingIsSettled, Verified,
        Waiting, InState, queueVars
  <2>7. SubmittedOrdersAreKept'
    BY <1>0, <1>2, <2>1, <2>3 DEF SubmittedOrdersAreKept, Verified
  <2> QED
    BY <2>5, <2>6, <2>7 DEF IInv
<1>3. ASSUME NEW t \in Tids, VerifyFailed(t) PROVE IInv'
  <2>1. t \in InState(Paid)
    BY <1>0, <1>3 DEF OnlyPaidOrders, PaidOnly, SubmittedOrdersAreKept, VerifyFailed
  <2>2. /\ inFlight' \in [Tids -> Nat]
        /\ \A u \in Tids : inFlight'[u] > 0 => inFlight[u] > 0
    BY <1>0, <1>3 DEF VerifyFailed
  <2>3. IAPTypeOK' /\ QueueTypeOK' /\ UNCHANGED queueVars
    BY <1>0, <1>3, AnsweringKeepsTypes DEF VerifyFailed, QueueTypeOK, queueVars
  <2>4. TypeOK'
    BY <1>0, <1>3, <2>2, <2>3 DEF TypeOK, VerifyFailed
  <2>5. OnlyPaidOrders'
    BY <1>0, <1>3, <2>1, <2>3
    DEF OnlyPaidOrders, PaidOnly, RoutesAreSeparate, FinishingIsSettled, VerifyFailed,
        Waiting, InState, queueVars
  <2>6. SubmittedOrdersAreKept'
    BY <1>0, <1>3, <2>2 DEF SubmittedOrdersAreKept, VerifyFailed
  <2> QED
    BY <2>4, <2>5, <2>6 DEF IInv
<1>4. ASSUME Finish PROVE IInv'
  <2>1. /\ finishing \in Tids /\ finishing \in InState(Paid \cup Unpaid)
        /\ FinishTransaction(finishing)
    BY <1>0, <1>4 DEF Finish, OnlyPaidOrders, FinishingIsSettled, TypeOK
  <2>2. QueueTypeOK'
    BY <1>0, <2>1, StoreKitKeepsTypes
  <2>3. TypeOK'
    BY <1>0, <1>4, <2>2, AnsweringKeepsTypes DEF TypeOK, Finish
  <2>4. \A t \in InState(Paid) :
           t \in InState(Paid)' /\ tx'[t].renewal = tx[t].renewal
    <3>1. tx[finishing] \in Transaction /\ finishing \in Tids
      BY <1>0, <2>1 DEF QueueTypeOK, InState
    <3>2. /\ \A t \in Tids : t # finishing => tx'[t] = tx[t]
          /\ tx'[finishing] = [tx[finishing] EXCEPT !.state = IF @ \in Paid THEN "done" ELSE "closed"]
      BY <1>0, <2>1 DEF FinishTransaction, QueueTypeOK
    <3>3. tx'[finishing] \in Transaction
      BY <2>2, <3>1, <3>2 DEF Transaction, States
    <3>4. tx[finishing] # Nobody /\ tx'[finishing] # Nobody
      BY <3>1, <3>3, NobodyAssumption
    <3>5. tx'[finishing].renewal = tx[finishing].renewal
      BY <3>1, <3>2 DEF Transaction
    <3>6. tx[finishing].state \in Paid => tx'[finishing].state \in Paid
      BY <3>1, <3>2 DEF Transaction, Paid
    <3> QED
      BY <3>2, <3>4, <3>5, <3>6 DEF InState
  <2>5. OnlyPaidOrders'
    <3>1. PaidOnly' /\ RoutesAreSeparate'
      BY <1>0, <1>4, <2>4 DEF OnlyPaidOrders, PaidOnly, RoutesAreSeparate, Finish, Waiting, InState
    <3>2. FinishingIsSettled'
      BY <1>4 DEF FinishingIsSettled, Finish
    <3> QED
      BY <3>1, <3>2 DEF OnlyPaidOrders
  <2>6. SubmittedOrdersAreKept'
    BY <1>0, <1>4 DEF SubmittedOrdersAreKept, Finish
  <2> QED
    BY <2>3, <2>5, <2>6 DEF IInv
<1>5. ASSUME Relaunch PROVE IInv'
  <2>1. IAPTypeOK'
    BY <1>0, <1>5, AnsweringKeepsTypes DEF Relaunch
  <2>2. tx' = tx /\ QueueTypeOK'
    BY <1>0, <1>5 DEF Relaunch, DeliverAgain, QueueTypeOK, InState
  <2>3. torn' \subseteq Tids
    <3>1. SavedTids(saved) \subseteq Tids
      BY <1>0 DEF OnlyPaidOrders, PaidOnly, InState
    <3> QED
      BY <1>0, <1>5, <3>1 DEF Relaunch, TypeOK
  <2>4. inFlight' = [t \in Tids |-> 0]
    BY <1>5 DEF Relaunch
  <2>5. TypeOK'
    BY <1>0, <1>5, <2>1, <2>2, <2>3, <2>4 DEF TypeOK, Relaunch
  <2>6. OnlyPaidOrders'
    BY <1>0, <1>5, <2>2
    DEF OnlyPaidOrders, PaidOnly, RoutesAreSeparate, FinishingIsSettled, Relaunch, InState,
        Waiting
  <2>7. SubmittedOrdersAreKept'
    BY <2>4 DEF SubmittedOrdersAreKept
  <2> QED
    BY <2>5, <2>6, <2>7 DEF IInv
<1>6. ASSUME UNCHANGED vars PROVE IInv'
  <2>1. TypeOK'
    BY <1>0, <1>6, AnsweringKeepsTypes DEF TypeOK, vars, iapVars, queueVars, QueueTypeOK
  <2>2. OrdersInv'
    BY <1>0, <1>6, OrdersUntouched DEF OrdersInv, vars, queueVars
  <2> QED
    BY <2>1, <2>2 DEF IInv, OrdersInv
<1> QED
  BY <1>1, <1>2, <1>3, <1>4, <1>5, <1>6

-----------------------------------------------------------------------------
\* A first launch satisfies IInv.
LEMMA StartsWithIInv == Init => IInv
<1> SUFFICES ASSUME Init PROVE IInv
  OBVIOUS
<1> USE DEF Init
<1>1. IAPTypeOK
  <2>1. lookups \in [Lookups -> Asked \cup {Nil}] /\ registrations \in Nat
    BY DEF IAPInit
  <2> QED
    BY <2>1, Zenon DEF IAPInit, IAPTypeOK
<1>2. QueueTypeOK
  BY DEF QueueInit, QueueTypeOK
<1>3. saved \in Seq(Order) /\ SavedTids(saved) = {}
  <2>1. DOMAIN saved = {} /\ saved \in Seq(Order)
    BY EmptySeq, LenProperties
  <2> QED
    BY <2>1 DEF SavedTids
<1>4. TypeOK
  BY <1>1, <1>2, <1>3 DEF TypeOK
<1>5. OnlyPaidOrders
  BY <1>3 DEF OnlyPaidOrders, PaidOnly, RoutesAreSeparate, FinishingIsSettled, Waiting
<1>6. SubmittedOrdersAreKept
  BY DEF SubmittedOrdersAreKept
<1> QED
  BY <1>4, <1>5, <1>6 DEF IInv

\* Every step keeps IInv.
LEMMA StepsKeepIInv ==
    ASSUME IInv, [Next]_vars
    PROVE  IInv'
BY CallsKeepIInv, StoreKeepsIInv, TakingKeepsIInv, OrdersKeepIInv DEF Next

\* In every reachable state the variables have their types.
THEOREM PayTypes == Spec => []TypeOK
<1>1. IInv /\ [Next]_vars => IInv'
  BY StepsKeepIInv
<1>2. IInv => TypeOK
  BY DEF IInv
<1> QED
  BY StartsWithIInv, <1>1, <1>2, PTL DEF Spec

\* The list, the server and the host only ever see transactions that were paid.
THEOREM PayOnlyPaidOrders == Spec => []OnlyPaidOrders
<1>1. IInv /\ [Next]_vars => IInv'
  BY StepsKeepIInv
<1>2. IInv => OnlyPaidOrders
  BY DEF IInv
<1> QED
  BY StartsWithIInv, <1>1, <1>2, PTL DEF Spec

\* Whatever is being submitted is on the device's list or answered already, so
\* a crash or a lost answer never loses it.
THEOREM PaySubmittedOrdersAreKept == Spec => []SubmittedOrdersAreKept
<1>1. IInv /\ [Next]_vars => IInv'
  BY StepsKeepIInv
<1>2. IInv => SubmittedOrdersAreKept
  BY DEF IInv
<1> QED
  BY StartsWithIInv, <1>1, <1>2, PTL DEF Spec

-----------------------------------------------------------------------------
Leaving == SavedTids(saved) \ SavedTids(saved') \subseteq answered'

\* Recording an order removes no record.
LEMMA RecordingLeavesNothing ==
    ASSUME saved \in Seq(Order), inFlight \in [Tids -> Nat],
           NEW t \in Tids, NEW uid \in Uids \cup {NoUid}, NEW pid \in Products,
           RecordAndSubmit(t, uid, pid)
    PROVE  Leaving
BY RecordingKeepsTypes DEF Leaving

\* Only an answer to an order removes a record, and only one of that order.
LEMMA LeavingIsAnswered ==
    ASSUME IInv, [Next]_vars
    PROVE  Leaving
<1>0. /\ saved \in Seq(Order) /\ inFlight \in [Tids -> Nat]
      /\ TypeOK /\ tx \in [Tids -> Transaction \cup {Nobody}]
  BY DEF IInv, TypeOK, QueueTypeOK
<1>1. ASSUME saved' = saved PROVE Leaving
  BY <1>1 DEF Leaving
<1>2. ASSUME NEW t \in Tids, NEW model \in Logins, RenewalLoginAnswered(t, model) PROVE Leaving
  <2>1. UidOf(model) \in Uids \cup {NoUid}
    BY PayAssumption DEF UidOf
  <2>2. tx[t].pid \in Products
    <3>1. t \in InState(Paid)
      BY <1>2 DEF IInv, OnlyPaidOrders, PaidOnly, Waiting, RenewalLoginAnswered
    <3> QED
      BY <1>0, <3>1, PayAssumption DEF InState, Transaction
  <2> QED
    BY <1>0, <1>2, <2>1, <2>2, RecordingLeavesNothing DEF RenewalLoginAnswered
<1>3. ASSUME NEW t \in Tids, TakeRenewal(t) PROVE Leaving
  <2>1. userModel \in Uids \cup {NoUid} /\ tx[t].pid \in Products
    BY <1>0, <1>3, PayAssumption DEF TakeRenewal, Take, TypeOK, InState, Transaction
  <2> QED
    BY <1>0, <1>3, <2>1, RecordingLeavesNothing DEF TakeRenewal
<1>4. ASSUME NEW t \in Tids, TakeOrder(t) PROVE Leaving
  <2>1. block.uid \in Uids \cup {NoUid} /\ block.pid \in Products
    BY <1>0, <1>4, PayAssumption DEF TakeOrder, TypeOK, IAPTypeOK
  <2> QED
    BY <1>0, <1>4, <2>1, RecordingLeavesNothing DEF TakeOrder
<1>5. ASSUME NEW t \in Tids, NEW ok \in Verdicts, Verified(t, ok) PROVE Leaving
  <2>1. saved' = updateSavedProductInfo(saved, t) /\ t \in answered'
    BY <1>5 DEF Verified
  <2>2. SavedTids(saved) \ {t} \subseteq SavedTids(saved')
    BY <1>0, <2>1, UpdatingRemoves
  <2> QED
    BY <2>1, <2>2 DEF Leaving
<1>6. \/ saved' = saved
      \/ \E t \in Tids : \/ \E model \in Logins : RenewalLoginAnswered(t, model)
                         \/ TakeRenewal(t)
                         \/ TakeOrder(t)
                         \/ \E ok \in Verdicts : Verified(t, ok)
  BY DEF Next, vars, orderVars, ProcessLostTransaction, StartPay, StartPayWithLogin, StartDirect,
     StartQuery, LoginAnswered, LookupEnds, LookupPays, PromotedPurchase, StoreKit,
     TakeRenewalWithLogin, TakeOrderForHost, TakeOrderForNobody, TakeOrderWithoutReceipt,
     TakeUnpaid, VerifyFailed, Finish, Relaunch
<1> QED
  BY <1>1, <1>2, <1>3, <1>4, <1>5, <1>6

\* A record leaves the device's list only when the server has answered for its
\* order: no crash, failed submission or second record takes it away.
THEOREM PayRecordsLeaveWhenAnswered == Spec => RecordsLeaveWhenAnswered
<1>1. IInv /\ [Next]_vars => IInv'
  BY StepsKeepIInv
<1>2. IInv /\ [Next]_vars => [Leaving]_vars
  BY LeavingIsAnswered
<1>3. [Leaving]_vars => [SavedTids(saved) \ SavedTids(saved') \subseteq answered']_vars
  BY DEF Leaving
<1> QED
  BY StartsWithIInv, <1>1, <1>2, <1>3, PTL DEF Spec, RecordsLeaveWhenAnswered

-----------------------------------------------------------------------------
(***************************************************************************)
(* Where every order is between two crashes: DuplicatesHaveACause,         *)
(* OnlyACrashLosesARenewal and FinishedOrdersArePlaced.                    *)
(***************************************************************************)
\* Handed over once and not torn by a crash, an order is recorded at most once,
\* because whatever is on the list, or waits for a login, has been taken from
\* the queue: it is about to be finished or finished already, so it is not taken
\* a second time.
Single(t) ==
    /\ RecordedOnce(saved, t)
    /\ pending[t] <= 1
    /\ renewing[t] <= 1
    /\ t \in Waiting => t \notin SavedTids(saved)
    /\ t \in SavedTids(saved) \cup Waiting =>
          pending[t] = 0 /\ (finishing = t \/ t \in InState({"done"}))

\* A renewal that was taken is recorded, answered, or waits in memory for its
\* login.
Renewed(t) ==
    /\ tx[t] # Nobody
    /\ tx[t].renewal
    /\ tx[t].state = "done" \/ (finishing = t /\ tx[t].state = "purchased")
    => t \in answered \cup SavedTids(saved) \cup Waiting

\* So it is before the first crash, and later as long as this process is still
\* to be handed the renewal, again or for the first time.
SingleInv == \A t \in Tids : t \notin torn \cup repeated => Single(t)
RenewedInv == \A t \in Tids : relaunches = 0 \/ pending[t] > 0 => Renewed(t)
JInv == SingleInv /\ RenewedInv

\* What StoreKit does to a transaction by itself: nothing; hand it over once
\* more to an observer registered again; or something to one that is not settled.
Quiet(t) ==
    \/ tx'[t] = tx[t] /\ pending'[t] = pending[t]
    \/ /\ tx'[t] = tx[t] /\ t \in repeated'
       /\ t \in InState(Undelivered) /\ finishing = Nil
    \/ /\ t \notin InState(Paid \cup Unpaid) /\ t \notin InState({"done"})'
       /\ t \notin repeated' => pending'[t] <= 1 \/ pending'[t] = pending[t]

\* A payment added to the queue is quiet, a second registration being one or not.
LEMMA PaymentsAreQuiet ==
    ASSUME QueueTypeOK, NEW t \in Tids, finishing = Nil,
           \/ \E u \in Tids, pid \in Goods : QueuePayment(u, pid)
           \/ \E u, v \in Tids, pid \in Goods, again \in SUBSET InState(Undelivered) :
                /\ QueueTwoPayments(u, v, pid)
                /\ ObserveAgain(again)
                /\ repeated' = repeated \cup again
    PROVE  Quiet(t)
<1> USE DEF InState, Undelivered, Paid, Unpaid, QueueTypeOK
<1>1. ASSUME NEW u \in Tids, NEW pid \in Goods, QueuePayment(u, pid) PROVE Quiet(t)
  BY <1>1 DEF QueuePayment, NewTransaction, Quiet
<1>2. ASSUME NEW u \in Tids, NEW v \in Tids, NEW pid \in Goods,
             NEW again \in SUBSET InState(Undelivered),
             QueueTwoPayments(u, v, pid), ObserveAgain(again), repeated' = repeated \cup again
      PROVE  Quiet(t)
  <2>1. /\ t \in again => t \in InState(Undelivered) /\ t \in repeated'
        /\ t \notin again => pending'[t] = pending[t]
    BY <1>2 DEF ObserveAgain
  <2>2. t \notin {u, v} => tx'[t] = tx[t]
    BY <1>2 DEF QueueTwoPayments
  <2>3. t \in {u, v} => /\ t \notin InState(Paid \cup Unpaid)
                        /\ t \notin InState({"done"})' /\ t \notin again
    BY <1>2 DEF QueueTwoPayments
  <2> QED
    BY <2>1, <2>2, <2>3 DEF Quiet
<1> QED
  BY <1>1, <1>2

\* So is what StoreKit decides, however often it hands it over.
LEMMA StoreKitIsQuiet ==
    ASSUME QueueTypeOK, NEW t \in Tids, NEW u \in Tids, NEW n \in Nat,
           SettlePurchase(u, n) \/ RenewSubscription(u, n) \/ RestorePurchase(u, n),
           repeated' = IF n > 1 THEN repeated \cup {u} ELSE repeated
    PROVE  Quiet(t)
<1> USE DEF InState, Paid, Unpaid, QueueTypeOK
<1>1. pending' = [pending EXCEPT ![u] = n]
  BY DEF SettlePurchase, RenewSubscription, RestorePurchase, HandOver
<1>2. /\ t # u => tx'[t] = tx[t]
      /\ u \notin InState(Paid \cup Unpaid) /\ u \notin InState({"done"})'
  <2>1. CASE SettlePurchase(u, n)
    <3>1. PICK outcome \in {"purchased", "failed"} : tx' = [tx EXCEPT ![u].state = outcome]
      BY <2>1 DEF SettlePurchase
    <3>2. tx[u] \in Transaction /\ tx[u].state = "purchasing"
      BY <2>1 DEF SettlePurchase
    <3>3. tx'[u].state = outcome
      BY <3>1, <3>2 DEF Transaction
    <3> QED
      BY <3>1, <3>2, <3>3
  <2>2. CASE RenewSubscription(u, n)
    BY <2>2 DEF RenewSubscription, NewTransaction
  <2>3. CASE RestorePurchase(u, n)
    BY <2>3 DEF RestorePurchase, NewTransaction
  <2> QED
    BY <2>1, <2>2, <2>3
<1>3. t = u => (t \notin repeated' => pending'[t] <= 1)
  BY <1>1
<1>4. t # u => pending'[t] = pending[t]
  BY <1>1
<1> QED
  BY <1>2, <1>3, <1>4 DEF Quiet

\* So is every step that adds payments to the queue, or in which StoreKit acts.
LEMMA StoreStepsAreQuiet ==
    ASSUME IInv, (\E l \in Lookups : LookupPays(l)) \/ PromotedPurchase \/ StoreKit
    PROVE  repeated \subseteq repeated' /\ \A t \in Tids : Quiet(t)
<1>0. IAPTypeOK /\ QueueTypeOK /\ HandOvers \subseteq Nat \ {0}
  BY HandOversAreCounted DEF IInv, TypeOK
<1>1. ASSUME NEW l \in Lookups, LookupPays(l)
      PROVE  repeated' = repeated /\ \A t \in Tids : Quiet(t)
  <2>1. currentPurchaseID \in Goods /\ finishing = Nil
    BY <1>0, <1>1, CurrentIsAGood DEF LookupPays, Idle
  <2>2. PICK u \in Tids : QueuePayment(u, currentPurchaseID)
    BY <1>1 DEF LookupPays
  <2> QED
    BY <1>0, <1>1, <2>1, <2>2, PaymentsAreQuiet DEF LookupPays, history
<1>2. ASSUME PromotedPurchase
      PROVE  repeated \subseteq repeated' /\ \A t \in Tids : Quiet(t)
  <2>1. PICK u, v \in Tids, pid \in Products : QueueTwoPayments(u, v, pid)
    BY <1>2 DEF PromotedPurchase
  <2>2. PICK again \in SUBSET InState(Undelivered) :
           ObserveAgain(again) /\ repeated' = repeated \cup again
    BY <1>2 DEF PromotedPurchase
  <2>3. pid \in Goods /\ finishing = Nil
    BY <1>2, PayAssumption DEF PromotedPurchase, Idle
  <2> QED
    BY <1>0, <2>1, <2>2, <2>3, PaymentsAreQuiet
<1>3. ASSUME StoreKit
      PROVE  repeated \subseteq repeated' /\ \A t \in Tids : Quiet(t)
  <2>1. PICK u \in Tids, n \in HandOvers :
           /\ SettlePurchase(u, n) \/ RenewSubscription(u, n) \/ RestorePurchase(u, n)
           /\ repeated' = IF n > 1 THEN repeated \cup {u} ELSE repeated
    BY <1>3 DEF StoreKit
  <2>2. n \in Nat
    BY <1>0
  <2> QED
    BY <1>0, <2>1, <2>2, StoreKitIsQuiet
<1> QED
  BY <1>1, <1>2, <1>3

\* Steps that touch no order, and no settled transaction.
LEMMA QuietKeepsJInv ==
    ASSUME IInv, JInv, \A t \in Tids : Quiet(t), repeated \subseteq repeated',
           UNCHANGED <<saved, renewing, torn, finishing, answered, relaunches>>
    PROVE  JInv'
<1>0. /\ SavedTids(saved) \cup Waiting \subseteq InState(Paid)
      /\ finishing # Nil => finishing \in InState(Paid \cup Unpaid)
      /\ Nil \notin Tids
      /\ Waiting' = Waiting /\ SavedTids(saved)' = SavedTids(saved)
  BY PayAssumption DEF IInv, OnlyPaidOrders, PaidOnly, FinishingIsSettled, Waiting, SavedTids
<1>1. ASSUME NEW t \in Tids, Single(t), t \notin repeated' PROVE Single(t)'
  <2>1. t \in SavedTids(saved) \cup Waiting => tx'[t] = tx[t] /\ pending'[t] = pending[t]
    BY <1>0, <1>1 DEF Quiet, InState, Paid, Unpaid
  <2>2. pending'[t] <= 1
    BY <1>1 DEF Quiet, Single
  <2> QED
    BY <1>0, <1>1, <2>1, <2>2 DEF Single, InState
<1>2. ASSUME NEW t \in Tids, relaunches = 0 \/ pending[t] > 0 => Renewed(t),
             relaunches' = 0 \/ pending'[t] > 0
      PROVE  Renewed(t)'
  <2>1. CASE tx'[t] = tx[t] /\ pending'[t] = pending[t]
    BY <1>0, <1>2, <2>1 DEF Renewed
  <2>2. CASE tx'[t] = tx[t] /\ t \in InState(Undelivered) /\ finishing = Nil
    BY <1>0, <2>2 DEF Renewed, InState, Undelivered
  <2>3. CASE t \notin InState(Paid \cup Unpaid) /\ t \notin InState({"done"})'
    <3>1. finishing # t
      BY <1>0, <2>3
    <3> QED
      BY <2>3, <3>1 DEF Renewed, InState
  <2> QED
    BY <2>1, <2>2, <2>3 DEF Quiet
<1> QED
  BY <1>1, <1>2 DEF JInv, SingleInv, RenewedInv

-----------------------------------------------------------------------------
\* The handlers of a settled transaction: it was handed over, so it is neither
\* on the list nor waiting for a login, unless a crash or an earlier hand-over
\* came between.
LEMMA TakingKeepsJInv ==
    ASSUME IInv, JInv, NEW t \in Tids,
           \/ TakeRenewal(t) \/ TakeRenewalWithLogin(t)
           \/ TakeOrder(t) \/ TakeOrderForHost(t) \/ TakeOrderForNobody(t)
           \/ TakeUnpaid(t)
    PROVE  JInv'
<1> USE DEF userVars, orderVars, serverVars, history
<1>0. /\ TypeOK /\ saved \in Seq(Order) /\ Nil \notin Tids
  BY PayAssumption DEF IInv, TypeOK
<1>1. PICK states \in {Paid, Unpaid} : Take(t, states)
  BY DEF TakeRenewal, TakeRenewalWithLogin, TakeOrder, TakeOrderForHost,
     TakeOrderForNobody, TakeUnpaid
<1>2. /\ tx' = tx /\ t \in InState(states)
      /\ pending[t] > 0 /\ pending' = [pending EXCEPT ![t] = @ - 1]
      /\ tx[t] \in Transaction
  BY <1>0, <1>1, TakingKeepsTypes
<1>p. /\ pending \in [Tids -> Nat] /\ renewing \in [Tids -> Nat]
      /\ pending'[t] = pending[t] - 1
      /\ \A u \in Tids : u # t => pending'[u] = pending[u]
  BY <1>0, <1>2 DEF TypeOK, QueueTypeOK
<1>3. /\ finishing = Nil /\ finishing' = t
      /\ UNCHANGED <<torn, repeated, relaunches, answered>>
  BY <1>1 DEF Take, Idle, TakeRenewal, TakeRenewalWithLogin, TakeOrder, TakeOrderForHost,
     TakeOrderForNobody, TakeUnpaid
<1>4. \/ saved' = saved /\ renewing' = renewing
      \/ saved' = saved /\ renewing' = [renewing EXCEPT ![t] = @ + 1]
      \/ /\ renewing' = renewing
         /\ \E uid \in Uids \cup {NoUid}, pid \in Products : saved' = saveUid(saved, uid, pid, t)
  <2>1. CASE TakeRenewal(t)
    <3>1. userModel \in Uids \cup {NoUid} /\ tx[t].pid \in Products
      BY <1>0, <1>2, <2>1, PayAssumption DEF TakeRenewal, TypeOK, Transaction
    <3> QED
      BY <2>1, <3>1 DEF TakeRenewal, RecordAndSubmit
  <2>2. CASE TakeOrder(t)
    <3>1. block.uid \in Uids \cup {NoUid} /\ block.pid \in Products
      BY <1>0, <2>2, PayAssumption DEF TakeOrder, TypeOK, IAPTypeOK
    <3> QED
      BY <2>2, <3>1 DEF TakeOrder, RecordAndSubmit
  <2> QED
    BY <2>1, <2>2 DEF TakeRenewalWithLogin, TakeOrderForHost, TakeOrderForNobody, TakeUnpaid
<1>5. /\ SavedTids(saved) \subseteq SavedTids(saved')
      /\ SavedTids(saved') \subseteq SavedTids(saved) \cup {t}
      /\ \A u : u # t /\ RecordedOnce(saved, u) => RecordedOnce(saved', u)
      /\ t \notin SavedTids(saved) /\ RecordedOnce(saved, t) => RecordedOnce(saved', t)
      /\ saved' = saved \/ renewing' = renewing
  <2>1. ASSUME NEW uid \in Uids \cup {NoUid}, NEW pid \in Products,
               saved' = saveUid(saved, uid, pid, t)
        PROVE  /\ SavedTids(saved') = SavedTids(saved) \cup {t}
               /\ \A u : u # t /\ RecordedOnce(saved, u) => RecordedOnce(saved', u)
               /\ t \notin SavedTids(saved) => RecordedOnce(saved', t)
    <3>1. [tid |-> t, pid |-> pid, uid |-> uid] \in Order
      BY DEF Order
    <3> QED
      BY <1>0, <2>1, <3>1, SavingAdds, SavingRecordsOnce
  <2> QED
    BY <1>4, <2>1
<1>w. /\ \A u \in Tids : u # t => renewing'[u] = renewing[u]
      /\ renewing'[t] \in {renewing[t], renewing[t] + 1}
      /\ Waiting \subseteq Waiting' /\ Waiting' \subseteq Waiting \cup {t}
  BY <1>4, <1>p DEF Waiting
<1>6. ASSUME NEW u \in Tids, Single(u) PROVE Single(u)'
  <2>1. CASE u = t
    <3>1. t \notin SavedTids(saved) \cup Waiting /\ pending'[t] = 0
      BY <1>2, <1>p, <1>6, <2>1 DEF Single
    <3>2. RecordedOnce(saved', t)
      BY <1>5, <1>6, <2>1, <3>1 DEF Single
    <3>3. t \in Waiting' => t \notin SavedTids(saved')
      BY <1>5, <3>1 DEF Waiting
    <3>4. renewing[t] = 0 /\ renewing'[t] <= 1
      BY <1>p, <1>w, <3>1 DEF Waiting
    <3> QED
      BY <1>3, <2>1, <3>1, <3>2, <3>3, <3>4 DEF Single
  <2>2. CASE u # t
    <3>1. /\ RecordedOnce(saved', u)
          /\ pending'[u] = pending[u] /\ renewing'[u] = renewing[u]
          /\ u \in Waiting' <=> u \in Waiting
          /\ u \in SavedTids(saved') <=> u \in SavedTids(saved)
      BY <1>p, <1>w, <1>5, <1>6, <2>2 DEF Single
    <3>2. u \in SavedTids(saved) \cup Waiting => pending[u] = 0 /\ u \in InState({"done"})
      BY <1>0, <1>3, <1>6 DEF Single
    <3>3. u \in InState({"done"})' <=> u \in InState({"done"})
      BY <1>2 DEF InState
    <3>4. /\ pending[u] <= 1 /\ renewing[u] <= 1
          /\ u \in Waiting => u \notin SavedTids(saved)
      BY <1>6 DEF Single
    <3> QED
      BY <3>1, <3>2, <3>3, <3>4 DEF Single
  <2> QED
    BY <2>1, <2>2
<1>7. ASSUME NEW u \in Tids, relaunches = 0 \/ pending[u] > 0 => Renewed(u),
             relaunches' = 0 \/ pending'[u] > 0
      PROVE  Renewed(u)'
  <2>1. CASE u = t
    <3>1. CASE TakeRenewal(t)
      <4>1. userModel \in Uids \cup {NoUid} /\ tx[t].pid \in Products
        BY <1>0, <1>2, <3>1, PayAssumption DEF TakeRenewal, TypeOK, Transaction
      <4>2. inFlight \in [Tids -> Nat] /\ RecordAndSubmit(t, userModel, tx[t].pid)
        BY <1>0, <3>1 DEF TypeOK, TakeRenewal
      <4>3. SavedTids(saved') = SavedTids(saved) \cup {t}
        BY <1>0, <4>1, <4>2, RecordingKeepsTypes
      <4>4. t \in SavedTids(saved')
        BY <4>3
      <4> QED
        BY <2>1, <4>4 DEF Renewed
    <3>2. CASE TakeRenewalWithLogin(t)
      <4>1. renewing'[t] = renewing[t] + 1 /\ renewing[t] \in Nat
        BY <1>p, <3>2 DEF TakeRenewalWithLogin
      <4>2. t \in Waiting'
        BY <4>1 DEF Waiting
      <4> QED
        BY <2>1, <4>2 DEF Renewed
    <3>3. CASE TakeOrder(t) \/ TakeOrderForHost(t) \/ TakeOrderForNobody(t)
      BY <1>2, <2>1, <3>3 DEF Renewed, TakeOrder, TakeOrderForHost, TakeOrderForNobody
    <3>4. CASE TakeUnpaid(t)
      <4>1. tx[t].state \notin {"done", "purchased"}
        BY <3>4 DEF TakeUnpaid, Take, InState, Unpaid
      <4> QED
        BY <1>2, <2>1, <4>1 DEF Renewed
    <3> QED
      BY <3>1, <3>2, <3>3, <3>4
  <2>2. CASE u # t
    <3>1. Renewed(u)
      BY <1>3, <1>7, <1>p, <2>2
    <3> QED
      BY <1>2, <1>3, <1>5, <1>w, <2>2, <3>1 DEF Renewed
  <2> QED
    BY <2>1, <2>2
<1> QED
  BY <1>3, <1>6, <1>7 DEF JInv, SingleInv, RenewedInv

\* A purchase without a receipt is taken and left as it is.
LEMMA LeavingUnfinishedKeepsJInv ==
    ASSUME IInv, JInv, NEW t \in Tids, TakeOrderWithoutReceipt(t)
    PROVE  JInv'
<1>1. /\ pending[t] > 0 /\ pending' = [pending EXCEPT ![t] = @ - 1] /\ tx' = tx
      /\ pending \in [Tids -> Nat]
  BY TakingKeepsTypes DEF IInv, TypeOK, QueueTypeOK, TakeOrderWithoutReceipt
<1>2. UNCHANGED <<saved, renewing, torn, repeated, finishing, answered, relaunches>>
  BY DEF TakeOrderWithoutReceipt, userVars, orderVars, serverVars, history
<1>3. \A u \in Tids : pending'[u] <= pending[u] /\ pending'[u] \in Nat /\ pending[u] \in Nat
  BY <1>1
<1>4. ASSUME NEW u \in Tids, Single(u) PROVE Single(u)'
  BY <1>1, <1>2, <1>3, <1>4 DEF Single, InState, Waiting
<1>5. ASSUME NEW u \in Tids, Renewed(u) PROVE Renewed(u)'
  BY <1>1, <1>2, <1>5 DEF Renewed, Waiting
<1>6. \A u \in Tids : pending'[u] > 0 => pending[u] > 0
  BY <1>3
<1> QED
  BY <1>2, <1>4, <1>5, <1>6 DEF JInv, SingleInv, RenewedInv

\* The answer to a renewal's login records it for the first time.
LEMMA RenewingKeepsJInv ==
    ASSUME IInv, JInv, NEW t \in Tids, NEW model \in Logins, RenewalLoginAnswered(t, model)
    PROVE  JInv'
<1> USE DEF queueVars, history, serverVars
<1>0. /\ saved \in Seq(Order) /\ inFlight \in [Tids -> Nat] /\ renewing \in [Tids -> Nat]
      /\ tx \in [Tids -> Transaction \cup {Nobody}] /\ t \in InState(Paid)
  BY DEF IInv, TypeOK, QueueTypeOK, OnlyPaidOrders, PaidOnly, Waiting, RenewalLoginAnswered
<1>1. UidOf(model) \in Uids \cup {NoUid}
  BY PayAssumption DEF UidOf
<1>2. tx[t].pid \in Products
  BY <1>0, PayAssumption DEF InState, Transaction
<1>3. [tid |-> t, pid |-> tx[t].pid, uid |-> UidOf(model)] \in Order
  BY <1>1, <1>2 DEF Order
<1>4. /\ saved' = saveUid(saved, UidOf(model), tx[t].pid, t)
      /\ UNCHANGED <<tx, pending, finishing, torn, repeated, relaunches, answered>>
  BY DEF RenewalLoginAnswered, RecordAndSubmit
<1>5. /\ SavedTids(saved') = SavedTids(saved) \cup {t}
      /\ \A u : u # t /\ RecordedOnce(saved, u) => RecordedOnce(saved', u)
      /\ t \notin SavedTids(saved) => RecordedOnce(saved', t)
  BY <1>0, <1>3, <1>4, SavingAdds, SavingRecordsOnce
<1>w. /\ t \in Waiting /\ renewing'[t] = renewing[t] - 1
      /\ \A u \in Tids : u # t => renewing'[u] = renewing[u]
      /\ Waiting' \subseteq Waiting /\ Waiting \ {t} \subseteq Waiting'
  BY <1>0 DEF RenewalLoginAnswered, Waiting
<1>6. ASSUME NEW u \in Tids, Single(u) PROVE Single(u)'
  <2>1. CASE u = t
    <3>1. renewing'[t] = 0
      BY <1>0, <1>6, <1>w, <2>1 DEF Single, Waiting
    <3>2. t \notin Waiting'
      BY <3>1 DEF Waiting
    <3> QED
      BY <1>4, <1>5, <1>6, <1>w, <2>1, <3>1, <3>2 DEF Single, InState
  <2>2. CASE u # t
    BY <1>4, <1>5, <1>6, <1>w, <2>2 DEF Single, InState
  <2> QED
    BY <2>1, <2>2
<1>7. ASSUME NEW u \in Tids, Renewed(u) PROVE Renewed(u)'
  BY <1>4, <1>5, <1>7, <1>w DEF Renewed
<1> QED
  BY <1>4, <1>6, <1>7 DEF JInv, SingleInv, RenewedInv

\* An answer removes a record, and adds none.
LEMMA VerifyingKeepsJInv ==
    ASSUME IInv, JInv, NEW t \in Tids, NEW ok \in Verdicts, Verified(t, ok)
    PROVE  JInv'
<1>1. /\ saved' = updateSavedProductInfo(saved, t) /\ answered' = answered \cup {t}
      /\ UNCHANGED <<tx, pending, renewing, finishing, torn, repeated, relaunches>>
  BY DEF Verified, queueVars, userVars, history
<1>2. saved \in Seq(Order)
  BY DEF IInv, TypeOK
<1>3. /\ SavedTids(saved') \subseteq SavedTids(saved)
      /\ SavedTids(saved) \ {t} \subseteq SavedTids(saved')
      /\ \A u : RecordedOnce(saved, u) => RecordedOnce(saved', u)
  BY <1>1, <1>2, UpdatingRemoves
<1>4. ASSUME NEW u \in Tids, Single(u) PROVE Single(u)'
  BY <1>1, <1>3, <1>4 DEF Single, InState, Waiting
<1>5. ASSUME NEW u \in Tids, Renewed(u) PROVE Renewed(u)'
  BY <1>1, <1>3, <1>5 DEF Renewed, Waiting
<1> QED
  BY <1>1, <1>4, <1>5 DEF JInv, SingleInv, RenewedInv

\* A finished purchase is done, whatever happens to it later.
LEMMA FinishingKeepsJInv ==
    ASSUME IInv, JInv, Finish
    PROVE  JInv'
<1> DEFINE f == finishing
<1>0. /\ UNCHANGED <<saved, pending, renewing, torn, repeated, relaunches, answered>>
      /\ f \in InState(Paid \cup Unpaid) /\ finishing' = Nil /\ Nil \notin Tids
      /\ tx \in [Tids -> Transaction \cup {Nobody}]
      /\ SavedTids(saved) \cup Waiting \subseteq InState(Paid)
      /\ Waiting' = Waiting
  BY PayAssumption DEF IInv, OnlyPaidOrders, PaidOnly, FinishingIsSettled, Finish, Waiting,
     FinishTransaction, TypeOK, QueueTypeOK, orderVars, userVars, serverVars, history
<1>1. f \in Tids /\ tx[f] \in Transaction /\ tx[f] # Nobody
  BY <1>0 DEF InState
<1>2. /\ \A t \in Tids : t # f => tx'[t] = tx[t]
      /\ tx'[f] = [tx[f] EXCEPT !.state = IF @ \in Paid THEN "done" ELSE "closed"]
  BY <1>0, <1>1 DEF Finish, FinishTransaction
<1>3. /\ tx'[f] \in Transaction /\ tx'[f].renewal = tx[f].renewal
      /\ tx[f].state \in Paid <=> tx'[f].state = "done"
      /\ tx'[f].state # "purchased"
  BY <1>1, <1>2 DEF Transaction, States
<1>4. tx'[f] # Nobody
  BY <1>3, NobodyAssumption
<1>5. ASSUME NEW t \in Tids, Single(t) PROVE Single(t)'
  <2>1. t \in SavedTids(saved) \cup Waiting => t \in InState({"done"})'
    <3>1. CASE t = f
      BY <1>0, <1>3, <1>4, <3>1 DEF InState
    <3>2. CASE t # f
      BY <1>2, <1>5, <3>2 DEF Single, InState
    <3> QED
      BY <3>1, <3>2
  <2> QED
    BY <1>0, <1>5, <2>1 DEF Single
<1>6. ASSUME NEW t \in Tids, Renewed(t) PROVE Renewed(t)'
  <2>1. CASE t = f
    <3>1. tx[f].state \in Paid => tx[f].state = "done" \/ tx[f].state = "purchased"
      BY DEF Paid
    <3> QED
      BY <1>0, <1>1, <1>3, <1>6, <2>1, <3>1 DEF Renewed
  <2>2. CASE t # f
    BY <1>0, <1>2, <1>6, <2>2 DEF Renewed
  <2> QED
    BY <2>1, <2>2
<1> QED
  BY <1>0, <1>5, <1>6 DEF JInv, SingleInv, RenewedInv

\* A crash hands over again only what was not finished, and marks what of it was
\* recorded.
LEMMA RelaunchingKeepsJInv ==
    ASSUME IInv, JInv, Relaunch
    PROVE  JInv'
<1>1. /\ saved' = saved /\ renewing' = [t \in Tids |-> 0] /\ tx' = tx
      /\ pending' = [t \in Tids |-> IF t \in InState(Undelivered) THEN 1 ELSE 0]
      /\ torn' = torn \cup ({finishing} \cap SavedTids(saved))
      /\ repeated' = repeated /\ relaunches' = relaunches + 1
      /\ finishing' = Nil /\ Nil \notin Tids
  BY PayAssumption DEF Relaunch, DeliverAgain
<1>2. relaunches \in Nat /\ Waiting' = {}
  BY <1>1 DEF IInv, TypeOK, Waiting
<1>3. ASSUME NEW t \in Tids, t \notin torn' \cup repeated' PROVE Single(t)'
  <2>1. Single(t) /\ (t \in SavedTids(saved) => finishing # t)
    BY <1>1, <1>3 DEF JInv, SingleInv
  <2>2. t \in SavedTids(saved) => t \in InState({"done"}) /\ pending'[t] = 0
    BY <1>1, <2>1 DEF Single, InState, Undelivered
  <2>3. pending'[t] <= 1 /\ renewing'[t] = 0
    BY <1>1
  <2> QED
    BY <1>1, <1>2, <2>1, <2>2, <2>3 DEF Single, InState
<1>4. ASSUME NEW t \in Tids, pending'[t] > 0 PROVE Renewed(t)'
  <2>1. t \in InState(Undelivered)
    BY <1>1, <1>4
  <2> QED
    BY <1>1, <2>1 DEF Renewed, InState, Undelivered
<1> QED
  BY <1>1, <1>2, <1>3, <1>4 DEF JInv, SingleInv, RenewedInv

-----------------------------------------------------------------------------
\* Every step keeps JInv.
LEMMA StepsKeepJInv ==
    ASSUME IInv, JInv, [Next]_vars
    PROVE  JInv'
<1> USE DEF queueVars, userVars, orderVars, serverVars, history
<1>0. TypeOK /\ IAPTypeOK /\ QueueTypeOK /\ saved \in Seq(Order) /\ inFlight \in [Tids -> Nat]
  BY DEF IInv, TypeOK
<1>1. ASSUME UNCHANGED <<tx, pending, saved, renewing, torn, repeated, finishing, answered,
                         relaunches>>
      PROVE  JInv'
  BY <1>1, QuietKeepsJInv DEF Quiet
<1>2. ASSUME ProcessLostTransaction PROVE saved' = saved
  BY <1>2 DEF ProcessLostTransaction
<1>3. ASSUME \/ \E pid \in Products : StartPay(pid) \/ StartDirect(pid)
             \/ \E c \in Calls, pid \in Products : StartPayWithLogin(c, pid)
             \/ \E ids \in Queries : StartQuery(ids)
             \/ \E c \in Calls, model \in Logins : LoginAnswered(c, model)
             \/ \E l \in Lookups : LookupEnds(l)
             \/ \E t \in Tids : VerifyFailed(t)
             \/ UNCHANGED vars
      PROVE  JInv'
  BY <1>1, <1>2, <1>3 DEF StartPay, StartDirect, StartPayWithLogin, StartQuery, LoginAnswered,
     LookupEnds, VerifyFailed, vars
<1>4. ASSUME \/ \E l \in Lookups : LookupPays(l)
             \/ PromotedPurchase
             \/ StoreKit
      PROVE  JInv'
  <2>1. UNCHANGED <<saved, renewing, torn, finishing, answered, relaunches>>
    BY <1>4 DEF LookupPays, PromotedPurchase, StoreKit
  <2>2. repeated \subseteq repeated' /\ \A t \in Tids : Quiet(t)
    BY <1>4, StoreStepsAreQuiet
  <2> QED
    BY <2>1, <2>2, QuietKeepsJInv
<1>5. ASSUME NEW t \in Tids,
             \/ TakeRenewal(t) \/ TakeRenewalWithLogin(t)
             \/ TakeOrder(t) \/ TakeOrderForHost(t) \/ TakeOrderForNobody(t)
             \/ TakeUnpaid(t)
      PROVE  JInv'
  BY <1>5, TakingKeepsJInv
<1>6. ASSUME NEW t \in Tids, TakeOrderWithoutReceipt(t) PROVE JInv'
  BY <1>6, LeavingUnfinishedKeepsJInv
<1> QED
  BY <1>3, <1>4, <1>5, <1>6, RenewingKeepsJInv, VerifyingKeepsJInv, FinishingKeepsJInv,
     RelaunchingKeepsJInv DEF Next

\* A first launch satisfies JInv.
LEMMA StartsWithJInv == Init => JInv
<1> SUFFICES ASSUME Init PROVE JInv
  OBVIOUS
<1>1. DOMAIN saved = {}
  BY EmptySeq, LenProperties DEF Init
<1>2. Waiting = {} /\ \A t \in Tids : tx[t] = Nobody /\ pending[t] = 0 /\ renewing[t] = 0
  BY DEF Init, QueueInit, Waiting
<1> QED
  BY <1>1, <1>2 DEF JInv, SingleInv, RenewedInv, Single, Renewed, RecordedOnce, SavedTids

\* An order is recorded twice only if the app died between recording it and
\* finishing its transaction, or if a second registration of the observer had it
\* handed over again.
THEOREM PayDuplicatesHaveACause == Spec => []DuplicatesHaveACause
<1>1. IInv /\ JInv /\ [Next]_vars => IInv' /\ JInv'
  BY StepsKeepIInv, StepsKeepJInv
<1>2. IInv /\ JInv => DuplicatesHaveACause
  <2> SUFFICES ASSUME IInv, JInv, NEW t \in Tids, t \notin torn \cup repeated
               PROVE  ~ (Copies(saved, t) > 1)
    BY DEF DuplicatesHaveACause
  <2>1. saved \in Seq(Order) /\ RecordedOnce(saved, t)
    BY DEF IInv, TypeOK, JInv, SingleInv, Single
  <2>2. Copies(saved, t) \in Nat /\ Copies(saved, t) <= 1
    BY <2>1, CopiesAreSaved, OnceMeansOneCopy
  <2> QED
    BY <2>2
<1> QED
  BY StartsWithIInv, StartsWithJInv, <1>1, <1>2, PTL DEF Spec

\* Whatever a login answers, and in whatever order, a renewal is recorded: only
\* a crash makes use of the gap between its finish and its record.
THEOREM PayOnlyACrashLosesARenewal == Spec => []OnlyACrashLosesARenewal
<1>1. IInv /\ JInv /\ [Next]_vars => IInv' /\ JInv'
  BY StepsKeepIInv, StepsKeepJInv
<1>2. IInv /\ JInv => OnlyACrashLosesARenewal
  <2> SUFFICES ASSUME IInv, JInv, NEW t \in Tids, tx[t] # Nobody, tx[t].renewal,
                      StatusOf(t) = "dropped"
               PROVE  relaunches > 0
    BY DEF OnlyACrashLosesARenewal
  <2>1. t \in InState({"done"}) /\ t \notin answered \cup SavedTids(saved) \cup Waiting
    BY DEF StatusOf
  <2>2. ~ Renewed(t)
    BY <2>1 DEF Renewed, InState
  <2>3. relaunches # 0 /\ relaunches \in Nat
    BY <2>2 DEF JInv, RenewedInv, IInv, TypeOK
  <2> QED
    BY <2>3
<1> QED
  BY StartsWithIInv, StartsWithJInv, <1>1, <1>2, PTL DEF Spec

-----------------------------------------------------------------------------
\* Saving puts the record on the list.
LEMMA SavingPlaces ==
    ASSUME NEW R, NEW orders \in Seq(R), NEW uid, NEW pid, NEW tid,
           [tid |-> tid, pid |-> pid, uid |-> uid] \in R
    PROVE  \E i \in DOMAIN saveUid(orders, uid, pid, tid) :
              saveUid(orders, uid, pid, tid)[i] = [tid |-> tid, pid |-> pid, uid |-> uid]
<1> DEFINE r == [tid |-> tid, pid |-> pid, uid |-> uid]
           s == saveUid(orders, uid, pid, tid)
<1>1. s \in Seq(R) /\ Len(s) = Len(orders) + 1 /\ s[Len(orders) + 1] = r
  BY AppendProperties DEF saveUid
<1>2. Len(orders) \in Nat /\ DOMAIN s = 1..(Len(orders) + 1)
  BY <1>1, LenProperties
<1>3. Len(orders) + 1 \in DOMAIN s
  BY <1>2
<1> QED
  BY <1>1, <1>3

\* Between the handler that takes a purchase and the end of its transaction no
\* other handler runs, so that the order is where the handler has put it.
TakenIsKept ==
    finishing # Nil /\ finishing \in InState(Paid) => KeptWhenFinished(finishing)

\* The handler of a settled transaction puts the order where its blocks say.
LEMMA TakingKeeps ==
    ASSUME IInv, NEW t \in Tids,
           \/ TakeRenewal(t) \/ TakeRenewalWithLogin(t)
           \/ TakeOrder(t) \/ TakeOrderForHost(t) \/ TakeOrderForNobody(t)
           \/ TakeOrderWithoutReceipt(t) \/ TakeUnpaid(t)
    PROVE  TakenIsKept' /\ tx' = tx
<1>0. /\ TypeOK /\ saved \in Seq(Order) /\ inFlight \in [Tids -> Nat] /\ Nil \notin Tids
      /\ tx \in [Tids -> Transaction \cup {Nobody}]
  BY PayAssumption DEF IInv, TypeOK, QueueTypeOK
<1>1. PICK states \in {Paid, Unpaid} : Take(t, states)
  BY DEF TakeRenewal, TakeRenewalWithLogin, TakeOrder, TakeOrderForHost,
     TakeOrderForNobody, TakeOrderWithoutReceipt, TakeUnpaid
<1>2. tx' = tx /\ block' = block /\ finishing = Nil
  BY <1>1 DEF Take, Idle, iapVars
<1>3. CASE TakeOrder(t)
  <2>1. block.uid \in Uids \cup {NoUid} /\ block.pid \in Products
    BY <1>0, <1>3, PayAssumption DEF TakeOrder, TypeOK, IAPTypeOK
  <2>2. [tid |-> t, pid |-> block.pid, uid |-> block.uid] \in Order
    BY <2>1 DEF Order
  <2>3. saved' = saveUid(saved, block.uid, block.pid, t)
    BY <1>3 DEF TakeOrder, RecordAndSubmit
  <2>4. \E i \in DOMAIN saved' :
           saved'[i] = [tid |-> t, pid |-> block.pid, uid |-> block.uid]
    BY <1>0, <2>2, <2>3, SavingPlaces
  <2>5. finishing' = t /\ ~ tx[t].renewal /\ block.route = "pay"
    BY <1>3 DEF TakeOrder
  <2> QED
    BY <1>2, <2>4, <2>5 DEF TakenIsKept, KeptWhenFinished
<1>4. CASE TakeOrderForHost(t)
  BY <1>2, <1>4 DEF TakeOrderForHost, TakenIsKept, KeptWhenFinished
<1>5. CASE TakeRenewal(t)
  <2>1. userModel \in Uids \cup {NoUid} /\ tx[t].pid \in Products
    BY <1>0, <1>5, PayAssumption DEF TakeRenewal, Take, TypeOK, InState, Transaction
  <2>2. SavedTids(saved') = SavedTids(saved) \cup {t}
    BY <1>0, <1>5, <2>1, RecordingKeepsTypes DEF TakeRenewal
  <2>3. finishing' = t /\ tx[t].renewal /\ t \in SavedTids(saved')
    BY <1>5, <2>2 DEF TakeRenewal
  <2> QED
    BY <1>2, <2>3 DEF TakenIsKept, KeptWhenFinished
<1>6. CASE TakeRenewalWithLogin(t)
  <2>1. renewing' = [renewing EXCEPT ![t] = @ + 1] /\ renewing \in [Tids -> Nat]
    BY <1>0, <1>6 DEF TakeRenewalWithLogin, TypeOK
  <2>2. t \in Waiting' /\ finishing' = t /\ tx[t].renewal
    BY <1>6, <2>1 DEF TakeRenewalWithLogin, Waiting
  <2> QED
    BY <1>2, <2>2 DEF TakenIsKept, KeptWhenFinished
<1>7. CASE TakeOrderForNobody(t)
  BY <1>2, <1>7 DEF TakeOrderForNobody, TakenIsKept, KeptWhenFinished
<1>8. CASE TakeOrderWithoutReceipt(t)
  BY <1>2, <1>8 DEF TakeOrderWithoutReceipt, TakenIsKept
<1>9. CASE TakeUnpaid(t)
  <2>1. t \in InState(Unpaid) /\ finishing' = t
    BY <1>9 DEF TakeUnpaid, Take
  <2> QED
    BY <1>2, <2>1 DEF TakenIsKept, InState, Paid, Unpaid
<1> QED
  BY <1>2, <1>3, <1>4, <1>5, <1>6, <1>7, <1>8, <1>9

\* Every step keeps TakenIsKept, and only the end of a transaction takes it out
\* of the paid ones.
LEMMA StepsKeepTaken ==
    ASSUME IInv, TakenIsKept, [Next]_vars
    PROVE  /\ TakenIsKept'
           /\ \A t \in InState({"purchased"}) \ InState({"purchased"})' : Finish /\ finishing = t
<1> USE DEF queueVars, userVars, orderVars, serverVars, history
<1>1. CASE (\E l \in Lookups : LookupPays(l)) \/ PromotedPurchase \/ StoreKit
  <2>1. /\ UNCHANGED <<saved, handed, renewing, finishing>>
        /\ finishing # Nil => UNCHANGED block
    BY <1>1 DEF LookupPays, PromotedPurchase, StoreKit, iapVars, Idle
  <2>2. \A t \in Tids : Quiet(t)
    BY <1>1, StoreStepsAreQuiet
  <2>3. \A t \in InState(Paid \cup Unpaid) : tx'[t] = tx[t]
    BY <2>2 DEF Quiet, InState
  <2>4. InState({"purchased"}) \subseteq InState(Paid \cup Unpaid)
    BY DEF InState, Paid
  <2>5. finishing # Nil => finishing \in InState(Paid \cup Unpaid)
    BY DEF IInv, OnlyPaidOrders, FinishingIsSettled
  <2>6. finishing # Nil => /\ tx'[finishing] = tx[finishing]
                           /\ finishing \in InState(Paid)' => finishing \in InState(Paid)
    BY <2>3, <2>5 DEF InState
  <2>7. TakenIsKept'
    <3>1. Waiting' = Waiting /\ SavedTids(saved)' = SavedTids(saved)
      BY <2>1 DEF Waiting, SavedTids
    <3> QED
      BY <2>1, <2>6, <3>1 DEF TakenIsKept, KeptWhenFinished
  <2> QED
    BY <2>3, <2>4, <2>7 DEF InState
<1>2. CASE \E t \in Tids : \/ TakeRenewal(t) \/ TakeRenewalWithLogin(t)
                          \/ TakeOrder(t) \/ TakeOrderForHost(t) \/ TakeOrderForNobody(t)
                          \/ TakeOrderWithoutReceipt(t) \/ TakeUnpaid(t)
  BY <1>2, TakingKeeps DEF InState
<1>3. CASE Finish
  <2>1. \A t \in Tids : t # finishing => tx'[t] = tx[t]
    BY <1>3 DEF Finish, FinishTransaction, IInv, TypeOK, QueueTypeOK
  <2> QED
    BY <1>3, <2>1 DEF Finish, TakenIsKept, InState
<1>4. CASE Relaunch
  BY <1>4 DEF Relaunch, DeliverAgain, TakenIsKept, InState
<1>5. CASE tx' = tx /\ finishing = Nil /\ finishing' = Nil
  BY <1>5 DEF TakenIsKept, InState
<1>6. CASE UNCHANGED vars
  BY <1>6 DEF TakenIsKept, KeptWhenFinished, InState, SavedTids, Waiting, vars, iapVars
<1>7. \/ tx' = tx /\ finishing = Nil /\ finishing' = Nil
      \/ (\E l \in Lookups : LookupPays(l)) \/ PromotedPurchase \/ StoreKit
      \/ \E t \in Tids : \/ TakeRenewal(t) \/ TakeRenewalWithLogin(t)
                         \/ TakeOrder(t) \/ TakeOrderForHost(t) \/ TakeOrderForNobody(t)
                         \/ TakeOrderWithoutReceipt(t) \/ TakeUnpaid(t)
      \/ Finish \/ Relaunch \/ UNCHANGED vars
  BY DEF Next, Idle, StartPay, StartPayWithLogin, StartDirect, StartQuery, LoginAnswered,
     LookupEnds, RenewalLoginAnswered, Verified, VerifyFailed
<1> QED
  BY <1>1, <1>2, <1>3, <1>4, <1>5, <1>6, <1>7

\* In the step that finishes a paid transaction with StoreKit, a renewal is on
\* the list or waits for its login; with XMApplePay's blocks in place the order
\* is on the list under their product and user; with XMSDKIOS's the host has
\* been given it.  Without blocks nothing is promised.
THEOREM PayFinishedOrdersArePlaced == Spec => FinishedOrdersArePlaced
<1> DEFINE Placed == \A t \in InState({"purchased"}) \ InState({"purchased"})' :
                        KeptWhenFinished(t)
<1>1. Init => IInv /\ TakenIsKept
  BY StartsWithIInv DEF Init, TakenIsKept
<1>2. IInv /\ TakenIsKept /\ [Next]_vars => (IInv /\ TakenIsKept)'
  BY StepsKeepIInv, StepsKeepTaken
<1>3. InState({"purchased"}) \subseteq InState(Paid)
  BY DEF InState, Paid
<1>4. IInv /\ TakenIsKept /\ [Next]_vars => [Placed]_vars
  BY <1>3, StepsKeepTaken DEF Finish, TakenIsKept
<1> QED
  BY <1>1, <1>2, <1>4, PTL DEF Spec, FinishedOrdersArePlaced

\* A failed login never undoes an earlier one: only the end of the process
\* forgets the user, however the logins under way are answered.
THEOREM PayUserIsKept == Spec => UserIsKept
<1> DEFINE Kept == relaunches' = relaunches /\ userModel # Nil => userModel' # Nil
<1>1. ASSUME IInv, [Next]_vars PROVE Kept
  <2>1. relaunches \in Nat
    BY <1>1 DEF IInv, TypeOK
  <2>2. CASE Relaunch
    BY <2>1, <2>2 DEF Relaunch
  <2>3. ASSUME NEW c \in Calls, NEW model \in Logins, LoginAnswered(c, model) PROVE Kept
    BY <2>3 DEF LoginAnswered
  <2>4. ASSUME NEW t \in Tids, NEW model \in Logins, RenewalLoginAnswered(t, model) PROVE Kept
    BY <2>4 DEF RenewalLoginAnswered
  <2>5. \/ userModel' = userModel \/ Relaunch
        \/ \E c \in Calls, model \in Logins : LoginAnswered(c, model)
        \/ \E t \in Tids, model \in Logins : RenewalLoginAnswered(t, model)
    BY <1>1 DEF Next, vars, userVars, StartPay, StartPayWithLogin, StartDirect, StartQuery,
       LookupEnds, LookupPays, PromotedPurchase, StoreKit, TakeRenewal, TakeRenewalWithLogin,
       TakeOrder, TakeOrderForHost, TakeOrderForNobody, TakeOrderWithoutReceipt, TakeUnpaid,
       Verified, VerifyFailed, Finish
  <2> QED
    BY <2>2, <2>3, <2>4, <2>5
<1>2. IInv /\ [Next]_vars => IInv'
  BY StepsKeepIInv
<1>3. IInv /\ [Next]_vars => [Kept]_vars
  BY <1>1
<1> QED
  BY StartsWithIInv, <1>2, <1>3, PTL DEF Spec, UserIsKept

-----------------------------------------------------------------------------
(***************************************************************************)
(* XMApplePay implements OrderLedger: every step of the code moves at most *)
(* one order the way the ledger allows, a crash apart, or leaves them all. *)
(***************************************************************************)
\* The orders keep their status when nothing it depends on changes.
LEMMA SameFactsSameStatus ==
    ASSUME NEW t,
           t \in answered' <=> t \in answered,
           t \in SavedTids(saved)' <=> t \in SavedTids(saved),
           t \in InState({"purchased"})' <=> t \in InState({"purchased"}),
           t \in InState({"done"})' <=> t \in InState({"done"}),
           t \in Waiting' <=> t \in Waiting,
           t \in handed' <=> t \in handed
    PROVE  StatusOf(t)' = StatusOf(t)
BY Zenon DEF StatusOf

\* A step that changes no status is a stuttering step of the ledger.
LEMMA StutteringStep ==
    ASSUME \A t \in Tids : StatusOf(t)' = StatusOf(t)
    PROVE  UNCHANGED [t \in Tids |-> StatusOf(t)]
OBVIOUS

\* A step that moves one order the way the ledger allows is a step of it.
LEMMA MovingStep ==
    ASSUME NEW t \in Tids,
           \A u \in Tids : u # t => StatusOf(u)' = StatusOf(u),
           \/ StatusOf(t)' = StatusOf(t)
           \/ StatusOf(t) = "unpaid" /\ StatusOf(t)' = "paid"
           \/ StatusOf(t) = "paid" /\ StatusOf(t)' \in {"inHand", "recorded", "handed", "dropped"}
           \/ StatusOf(t) \in {"inHand", "handed", "dropped"} /\ StatusOf(t)' = "recorded"
           \/ StatusOf(t) = "dropped" /\ StatusOf(t)' = "handed"
           \/ StatusOf(t) = "recorded" /\ StatusOf(t)' = "settled"
    PROVE  [Ledger!LedgerNext]_([u \in Tids |-> StatusOf(u)])
<1> DEFINE st == [u \in Tids |-> StatusOf(u)]
<1>1. CASE StatusOf(t)' = StatusOf(t)
  BY <1>1
<1>2. CASE StatusOf(t)' # StatusOf(t)
  <2>1. st' = [st EXCEPT ![t] = StatusOf(t)']
    OBVIOUS
  <2>2. st[t] = StatusOf(t)
    OBVIOUS
  <2> HIDE DEF st
  <2>3. \/ st[t] = "unpaid" /\ st' = [st EXCEPT ![t] = "paid"]
        \/ st[t] = "paid" /\ st' = [st EXCEPT ![t] = "inHand"]
        \/ st[t] = "paid" /\ st' = [st EXCEPT ![t] = "recorded"]
        \/ st[t] = "paid" /\ st' = [st EXCEPT ![t] = "handed"]
        \/ st[t] = "paid" /\ st' = [st EXCEPT ![t] = "dropped"]
        \/ st[t] \in {"inHand", "handed", "dropped"} /\ st' = [st EXCEPT ![t] = "recorded"]
        \/ st[t] = "dropped" /\ st' = [st EXCEPT ![t] = "handed"]
        \/ st[t] = "recorded" /\ st' = [st EXCEPT ![t] = "settled"]
    BY <1>2, <2>1, <2>2
  <2> QED
    BY <2>3 DEF Ledger!LedgerNext, Ledger!Move, Ledger!Pay, Ledger!TakeInHand,
       Ledger!Record, Ledger!Settle, Ledger!Hand, Ledger!Drop, st
<1> QED
  BY <1>1, <1>2

-----------------------------------------------------------------------------
\* Recording a paid order, whoever holds it.
LEMMA RecordingMoves ==
    ASSUME IInv, NEW t \in Tids, t \in InState(Paid),
           SavedTids(saved)' = SavedTids(saved) \cup {t},
           answered' = answered, handed' = handed, tx' = tx,
           Waiting \ {t} \subseteq Waiting', Waiting' \subseteq Waiting
    PROVE  [Ledger!LedgerNext]_([u \in Tids |-> StatusOf(u)])
<1>1. \A S : InState(S)' = InState(S)
  BY DEF InState
<1>2. \A u \in Tids : u # t => StatusOf(u)' = StatusOf(u)
  <2> SUFFICES ASSUME NEW u \in Tids, u # t PROVE StatusOf(u)' = StatusOf(u)
    OBVIOUS
  <2>1. u \in Waiting' <=> u \in Waiting
    OBVIOUS
  <2>2. u \in SavedTids(saved)' <=> u \in SavedTids(saved)
    OBVIOUS
  <2> QED
    BY <1>1, <2>1, <2>2, SameFactsSameStatus
<1>3. t \in InState({"purchased"}) \/ t \in InState({"done"})
  BY DEF InState, Paid
<1>4. StatusOf(t) \in {"settled", "recorded", "paid", "inHand", "handed", "dropped"}
  BY <1>3 DEF StatusOf
<1>5. IF t \in answered THEN StatusOf(t)' = "settled" ELSE StatusOf(t)' = "recorded"
  BY DEF StatusOf
<1>6. t \in answered <=> StatusOf(t) = "settled"
  BY DEF StatusOf
<1> QED
  BY <1>2, <1>4, <1>5, <1>6, MovingStep

\* Steps that change nothing a status depends on.
LEMMA QuietStep ==
    ASSUME UNCHANGED <<answered, saved, renewing, handed>>,
           InState({"purchased"})' = InState({"purchased"}),
           InState({"done"})' = InState({"done"})
    PROVE  [Ledger!LedgerNext]_([u \in Tids |-> StatusOf(u)])
<1>1. SavedTids(saved)' = SavedTids(saved) /\ Waiting' = Waiting
  BY DEF SavedTids, Waiting
<1>2. \A t \in Tids : StatusOf(t)' = StatusOf(t)
  BY <1>1, SameFactsSameStatus
<1> QED
  BY <1>2, StutteringStep

\* The host's calls, logins, lookups, failed submissions.
LEMMA FrontRefines ==
    ASSUME IInv,
           \/ \E pid \in Products : StartPay(pid) \/ StartDirect(pid)
           \/ \E c \in Calls, pid \in Products : StartPayWithLogin(c, pid)
           \/ \E ids \in Queries : StartQuery(ids)
           \/ \E c \in Calls, model \in Logins : LoginAnswered(c, model)
           \/ \E l \in Lookups : LookupEnds(l)
           \/ \E t \in Tids : VerifyFailed(t)
           \/ UNCHANGED vars
    PROVE  [Ledger!LedgerNext]_([u \in Tids |-> StatusOf(u)])
<1>1. UNCHANGED <<answered, saved, renewing, handed, tx>>
  BY DEF StartPay, StartDirect, StartPayWithLogin, StartQuery, LoginAnswered, LookupEnds,
     VerifyFailed, vars, queueVars, userVars, orderVars, serverVars, history,
     ProcessLostTransaction
<1>2. \A S : InState(S)' = InState(S)
  BY <1>1 DEF InState
<1> QED
  BY <1>1, <1>2, QuietStep

\* A transaction that is paid becomes a paid order; no other step of StoreKit
\* changes an order.
LEMMA StoreRefines ==
    ASSUME IInv,
           \/ \E l \in Lookups : LookupPays(l)
           \/ PromotedPurchase
           \/ StoreKit
    PROVE  [Ledger!LedgerNext]_([u \in Tids |-> StatusOf(u)])
<1>0. QueueTypeOK /\ UNCHANGED <<answered, saved, renewing, handed>>
  BY DEF IInv, TypeOK, LookupPays, PromotedPurchase, StoreKit, userVars, orderVars,
     serverVars, history
<1>1. SavedTids(saved)' = SavedTids(saved) /\ Waiting' = Waiting
  BY <1>0 DEF SavedTids, Waiting
<1>2. ASSUME NEW t \in Tids, NEW pid, QueuePayment(t, pid)
      PROVE  [Ledger!LedgerNext]_([u \in Tids |-> StatusOf(u)])
  <2>1. InState({"purchased"})' = InState({"purchased"}) /\ InState({"done"})' = InState({"done"})
    BY <1>0, <1>2 DEF QueuePayment, NewTransaction, InState, QueueTypeOK
  <2> QED
    BY <1>0, <2>1, QuietStep
<1>3. ASSUME NEW t \in Tids, NEW v \in Tids, NEW pid, QueueTwoPayments(t, v, pid)
      PROVE  [Ledger!LedgerNext]_([u \in Tids |-> StatusOf(u)])
  <2>1. InState({"purchased"})' = InState({"purchased"}) /\ InState({"done"})' = InState({"done"})
    BY <1>0, <1>3 DEF QueueTwoPayments, InState, QueueTypeOK
  <2> QED
    BY <1>0, <2>1, QuietStep
<1>4. ASSUME NEW t \in Tids, NEW n,
             SettlePurchase(t, n) \/ RenewSubscription(t, n) \/ RestorePurchase(t, n)
      PROVE  [Ledger!LedgerNext]_([u \in Tids |-> StatusOf(u)])
  <2>1. /\ t \notin InState(Paid)
        /\ t \notin InState({"done"})'
        /\ \A u \in Tids : u # t => tx'[u] = tx[u]
    <3>1. ASSUME SettlePurchase(t, n) PROVE <2>1
      <4>1. PICK outcome \in {"purchased", "failed"} : tx' = [tx EXCEPT ![t].state = outcome]
        BY <3>1 DEF SettlePurchase
      <4>2. tx[t] \in Transaction /\ tx[t].state = "purchasing"
        BY <1>0, <3>1 DEF SettlePurchase, InState, QueueTypeOK
      <4>3. tx'[t].state \in {"purchased", "failed"}
        BY <1>0, <4>1, <4>2 DEF QueueTypeOK, Transaction
      <4> QED
        BY <1>0, <4>1, <4>2, <4>3 DEF InState, QueueTypeOK, Paid
    <3>2. ASSUME RenewSubscription(t, n) \/ RestorePurchase(t, n) PROVE <2>1
      BY <1>0, <3>2 DEF RenewSubscription, RestorePurchase, NewTransaction, InState, QueueTypeOK, Paid
    <3> QED
      BY <1>4, <3>1, <3>2
  <2>2. \A u \in Tids : u # t => StatusOf(u)' = StatusOf(u)
    <3> SUFFICES ASSUME NEW u \in Tids, u # t PROVE StatusOf(u)' = StatusOf(u)
      OBVIOUS
    <3>1. /\ u \in InState({"purchased"})' <=> u \in InState({"purchased"})
          /\ u \in InState({"done"})' <=> u \in InState({"done"})
      BY <2>1 DEF InState
    <3> QED
      BY <1>0, <1>1, <3>1, SameFactsSameStatus
  <2>3. t \notin answered /\ t \notin SavedTids(saved) /\ t \notin InState({"purchased"}) \cup InState({"done"})
    BY <2>1 DEF IInv, OnlyPaidOrders, PaidOnly, InState, Paid
  <2>4. StatusOf(t) = "unpaid"
    BY <2>3 DEF StatusOf
  <2>5. StatusOf(t)' \in {"unpaid", "paid"}
    BY <1>0, <1>1, <2>1, <2>3 DEF StatusOf
  <2> QED
    BY <2>2, <2>4, <2>5, MovingStep
<1>5. CASE StoreKit
  BY <1>4, <1>5 DEF StoreKit
<1> QED
  BY <1>2, <1>3, <1>5 DEF LookupPays, PromotedPurchase

\* A handler records the order it takes, or changes no status yet; one that was
\* finished before, and is handed over again, it may record or give to the host.
LEMMA TakingRefines ==
    ASSUME IInv, JInv, NEW t \in Tids,
           \/ TakeRenewal(t) \/ TakeRenewalWithLogin(t)
           \/ TakeOrder(t) \/ TakeOrderForHost(t) \/ TakeOrderForNobody(t)
           \/ TakeOrderWithoutReceipt(t) \/ TakeUnpaid(t)
    PROVE  [Ledger!LedgerNext]_([u \in Tids |-> StatusOf(u)])
<1> USE DEF userVars, orderVars, serverVars, history
<1>0. /\ TypeOK /\ saved \in Seq(Order) /\ inFlight \in [Tids -> Nat] /\ tx' = tx
      /\ tx \in [Tids -> Transaction \cup {Nobody}]
  BY DEF IInv, TypeOK, QueueTypeOK, Take, TakeRenewal, TakeRenewalWithLogin, TakeOrder,
     TakeOrderForHost, TakeOrderForNobody, TakeOrderWithoutReceipt, TakeUnpaid
<1>1. \A S : InState(S)' = InState(S)
  BY <1>0 DEF InState
<1>2. CASE TakeRenewal(t)
  <2>1. t \in InState(Paid)
    BY <1>2 DEF TakeRenewal, Take
  <2>2. userModel \in Uids \cup {NoUid} /\ tx[t].pid \in Products
    BY <1>0, <1>2, <2>1, PayAssumption DEF TakeRenewal, TypeOK, Transaction, InState
  <2>3. SavedTids(saved') = SavedTids(saved) \cup {t} /\ Waiting' = Waiting
    BY <1>0, <1>2, <2>2, RecordingKeepsTypes DEF TakeRenewal, Waiting
  <2> QED
    BY <1>0, <1>2, <2>1, <2>3, RecordingMoves DEF TakeRenewal
<1>3. CASE TakeOrder(t)
  <2>1. t \in InState(Paid)
    BY <1>3 DEF TakeOrder, Take
  <2>2. block.uid \in Uids \cup {NoUid} /\ block.pid \in Products
    BY <1>0, <1>3, PayAssumption DEF TakeOrder, TypeOK, IAPTypeOK
  <2>3. SavedTids(saved') = SavedTids(saved) \cup {t} /\ Waiting' = Waiting
    BY <1>0, <1>3, <2>2, RecordingKeepsTypes DEF TakeOrder, Waiting
  <2> QED
    BY <1>0, <1>3, <2>1, <2>3, RecordingMoves DEF TakeOrder
<1>4. CASE TakeOrderForHost(t)
  <2>1. t \in InState({"purchased"}) \/ t \in InState({"done"})
    BY <1>4 DEF TakeOrderForHost, Take, InState, Paid
  <2>2. /\ SavedTids(saved)' = SavedTids(saved) /\ answered' = answered /\ Waiting' = Waiting
        /\ handed' = handed \cup {t}
    BY <1>4 DEF TakeOrderForHost, SavedTids, Waiting
  <2>3. \A u \in Tids : u # t => StatusOf(u)' = StatusOf(u)
    BY <1>1, <2>2, SameFactsSameStatus
  <2>4. \/ StatusOf(t)' = StatusOf(t)
        \/ StatusOf(t) = "dropped" /\ StatusOf(t)' = "handed"
    BY <1>1, <2>1, <2>2 DEF StatusOf
  <2> QED
    BY <2>3, <2>4, MovingStep
<1>5. CASE TakeRenewalWithLogin(t)
  <2>1. t \in InState(Paid) /\ pending[t] > 0 /\ tx[t].renewal
    BY <1>5 DEF TakeRenewalWithLogin, Take
  <2>2. /\ SavedTids(saved)' = SavedTids(saved) /\ answered' = answered /\ handed' = handed
        /\ \A u \in Tids : u # t => (u \in Waiting' <=> u \in Waiting)
        /\ t \in Waiting'
    BY <1>0, <1>5 DEF TakeRenewalWithLogin, SavedTids, Waiting, TypeOK
  <2>3. \A u \in Tids : u # t => StatusOf(u)' = StatusOf(u)
    BY <1>1, <2>2, SameFactsSameStatus
  <2>4. CASE t \in InState({"purchased"})
    <3>1. t \notin InState({"done"})
      BY <2>4 DEF InState
    <3>2. StatusOf(t)' = StatusOf(t)
      BY <1>1, <2>2, <2>4, <3>1 DEF StatusOf
    <3> QED
      BY <2>3, <3>2, MovingStep
  <2>5. CASE t \in InState({"done"})
    <3>1. t \in answered \cup SavedTids(saved) \cup Waiting
      BY <2>1, <2>5 DEF JInv, RenewedInv, Renewed, InState
    <3>2. t \notin InState({"purchased"})
      BY <2>5 DEF InState
    <3>3. StatusOf(t)' = StatusOf(t)
      BY <1>1, <2>2, <2>5, <3>1, <3>2 DEF StatusOf
    <3> QED
      BY <2>3, <3>3, MovingStep
  <2> QED
    BY <2>1, <2>4, <2>5 DEF InState, Paid
<1>6. CASE TakeOrderForNobody(t) \/ TakeOrderWithoutReceipt(t) \/ TakeUnpaid(t)
  <2>1. UNCHANGED <<answered, saved, renewing, handed>>
    BY <1>6 DEF TakeOrderForNobody, TakeOrderWithoutReceipt, TakeUnpaid
  <2> QED
    BY <1>1, <2>1, QuietStep
<1> QED
  BY <1>2, <1>3, <1>4, <1>5, <1>6

\* A login of a renewal records it, whatever the login says.
LEMMA RenewalRefines ==
    ASSUME IInv, NEW t \in Tids, NEW model \in Logins, RenewalLoginAnswered(t, model)
    PROVE  [Ledger!LedgerNext]_([u \in Tids |-> StatusOf(u)])
<1> USE DEF RenewalLoginAnswered
<1>1. /\ TypeOK /\ saved \in Seq(Order) /\ inFlight \in [Tids -> Nat]
      /\ tx \in [Tids -> Transaction \cup {Nobody}] /\ renewing \in [Tids -> Nat]
  BY DEF IInv, TypeOK, QueueTypeOK
<1>2. t \in InState(Paid)
  BY DEF IInv, OnlyPaidOrders, PaidOnly, Waiting
<1>3. tx[t].pid \in Products
  BY <1>1, <1>2, PayAssumption DEF InState, Transaction
<1>4. UidOf(model) \in Uids \cup {NoUid}
  BY PayAssumption DEF UidOf
<1>5. RecordAndSubmit(t, UidOf(model), tx[t].pid)
  OBVIOUS
<1>6. SavedTids(saved') = SavedTids(saved) \cup {t}
  BY <1>1, <1>3, <1>4, <1>5, RecordingKeepsTypes
<1>7. /\ answered' = answered /\ handed' = handed /\ tx' = tx
      /\ Waiting \ {t} \subseteq Waiting' /\ Waiting' \subseteq Waiting
  BY <1>1 DEF queueVars, serverVars, history, Waiting
<1> QED
  BY <1>2, <1>6, <1>7, RecordingMoves

\* The end of a transaction lets go of at most that order.
LEMMA FinishRefines ==
    ASSUME IInv, Finish
    PROVE  [Ledger!LedgerNext]_([u \in Tids |-> StatusOf(u)])
<1>f. PICK f \in Tids : f = finishing /\ f \in InState(Paid \cup Unpaid)
  BY DEF IInv, OnlyPaidOrders, FinishingIsSettled, InState, Finish
<1>0. /\ tx \in [Tids -> Transaction \cup {Nobody}]
      /\ UNCHANGED <<saved, answered, renewing, handed>>
  BY DEF IInv, TypeOK, QueueTypeOK, Finish, userVars, orderVars, serverVars, history
<1>1. /\ tx[f] \in Transaction /\ tx[f] # Nobody
      /\ tx[f].state \in Paid \cup Unpaid
  BY <1>f, <1>0 DEF InState
<1>2. tx' = [tx EXCEPT ![f].state = IF @ \in Paid THEN "done" ELSE "closed"]
  BY <1>f DEF Finish, FinishTransaction
<1>3. /\ tx'[f] \in Transaction
      /\ tx'[f].state = IF tx[f].state \in Paid THEN "done" ELSE "closed"
      /\ \A u \in Tids : u # f => tx'[u] = tx[u]
  BY <1>f, <1>0, <1>1, <1>2 DEF Transaction, States
<1>4. tx'[f] # Nobody
  BY <1>3, NobodyAssumption
<1>5. SavedTids(saved)' = SavedTids(saved) /\ Waiting' = Waiting
  BY <1>0 DEF SavedTids, Waiting
<1>6. \A u \in Tids : u # f => StatusOf(u)' = StatusOf(u)
  <2> SUFFICES ASSUME NEW u \in Tids, u # f PROVE StatusOf(u)' = StatusOf(u)
    OBVIOUS
  <2>1. /\ u \in InState({"purchased"})' <=> u \in InState({"purchased"})
        /\ u \in InState({"done"})' <=> u \in InState({"done"})
    BY <1>3 DEF InState
  <2> QED
    BY <1>0, <1>5, <2>1, SameFactsSameStatus
<1>7. CASE tx[f].state = "purchased"
  <2>1. /\ f \in InState({"purchased"}) /\ f \in InState({"done"})'
        /\ f \notin InState({"purchased"})'
    BY <1>0, <1>1, <1>3, <1>4, <1>7 DEF InState, Paid
  <2>2. \/ StatusOf(f)' = StatusOf(f)
        \/ StatusOf(f) = "paid" /\ StatusOf(f)' \in {"inHand", "handed", "dropped"}
    BY <1>0, <1>5, <2>1 DEF StatusOf
  <2> QED
    BY <1>0, <1>6, <2>2, MovingStep
<1>8. CASE tx[f].state = "done"
  <2>1. /\ f \in InState({"done"}) /\ f \in InState({"done"})'
        /\ f \notin InState({"purchased"}) /\ f \notin InState({"purchased"})'
    BY <1>1, <1>3, <1>4, <1>8 DEF InState, Paid
  <2>2. StatusOf(f)' = StatusOf(f)
    BY <1>0, <1>5, <2>1, SameFactsSameStatus
  <2> QED
    BY <1>6, <2>2, MovingStep
<1>9. CASE tx[f].state \notin Paid
  <2>1. /\ f \notin InState(Paid)
        /\ f \notin InState({"purchased"}) \cup InState({"done"})
        /\ f \notin InState({"purchased"})' \cup InState({"done"})'
    BY <1>0, <1>1, <1>3, <1>9 DEF InState, Paid
  <2>2. f \notin answered /\ f \notin SavedTids(saved)
    BY <2>1 DEF IInv, OnlyPaidOrders, PaidOnly
  <2>3. StatusOf(f)' = StatusOf(f)
    BY <1>0, <1>5, <2>1, <2>2 DEF StatusOf
  <2> QED
    BY <1>0, <1>6, <2>3, MovingStep
<1> QED
  BY <1>7, <1>8, <1>9 DEF Paid

\* An answered submission settles the order it was made for, and no other.
LEMMA VerifiedRefines ==
    ASSUME IInv, NEW t \in Tids, NEW ok \in Verdicts, Verified(t, ok)
    PROVE  [Ledger!LedgerNext]_([u \in Tids |-> StatusOf(u)])
<1>1. /\ saved \in Seq(Order) /\ t \in SavedTids(saved) \cup answered
      /\ saved' = updateSavedProductInfo(saved, t)
      /\ answered' = answered \cup {t}
      /\ UNCHANGED <<tx, renewing, handed>>
  BY DEF IInv, TypeOK, SubmittedOrdersAreKept, Verified, queueVars, userVars, history
<1>2. /\ \A u : u # t => (u \in SavedTids(saved') <=> u \in SavedTids(saved))
      /\ Waiting' = Waiting
  BY <1>1, UpdatingRemoves DEF Waiting
<1>3. \A S : InState(S)' = InState(S)
  BY <1>1 DEF InState
<1>4. \A u \in Tids : u # t => StatusOf(u)' = StatusOf(u)
  BY <1>1, <1>2, <1>3, SameFactsSameStatus
<1>5. StatusOf(t) \in {"settled", "recorded"}
  BY <1>1 DEF StatusOf
<1>6. StatusOf(t)' = "settled"
  BY <1>1 DEF StatusOf
<1> QED
  BY <1>4, <1>5, <1>6, MovingStep

\* A crash drops what is in hand and nothing else.
LEMMA RelaunchRefines ==
    ASSUME IInv, Relaunch
    PROVE  [Ledger!LedgerNext]_([u \in Tids |-> StatusOf(u)])
<1>1. /\ UNCHANGED <<saved, answered, handed, tx>>
      /\ Waiting' = {}
  BY DEF Relaunch, DeliverAgain, serverVars, Waiting
<1>2. \A S : InState(S)' = InState(S)
  BY <1>1 DEF InState
<1>3. SavedTids(saved)' = SavedTids(saved)
  BY <1>1 DEF SavedTids
<1>4. \A u \in Tids : u \in Waiting => u \notin handed
  BY DEF IInv, OnlyPaidOrders, RoutesAreSeparate
<1>5. ASSUME NEW u \in Tids
      PROVE  StatusOf(u)' = IF StatusOf(u) = "inHand" THEN "dropped" ELSE StatusOf(u)
  <2>1. CASE StatusOf(u) = "inHand"
    BY <1>1, <1>2, <1>3, <1>4, <2>1 DEF StatusOf
  <2>2. CASE StatusOf(u) # "inHand"
    BY <1>1, <1>2, <1>3, <1>4, <2>2 DEF StatusOf
  <2> QED
    BY <2>1, <2>2
<1> DEFINE st == [u \in Tids |-> StatusOf(u)]
<1>6. st' = [u \in Tids |-> IF st[u] = "inHand" THEN "dropped" ELSE st[u]]
  BY <1>5
<1> QED
  BY <1>6 DEF Ledger!LedgerNext, Ledger!Crash

-----------------------------------------------------------------------------
\* Before the first purchase every order is unpaid.
LEMMA LedgerStarts == Init => Ledger!LedgerInit
<1> SUFFICES ASSUME Init PROVE \A t \in Tids : StatusOf(t) = "unpaid"
  BY DEF Ledger!LedgerInit
<1>1. SavedTids(saved) = {} /\ answered = {}
  <2>1. DOMAIN saved = {} /\ answered = {}
    BY EmptySeq, LenProperties DEF Init
  <2> QED
    BY <2>1 DEF SavedTids
<1>2. \A S : InState(S) = {}
  BY DEF Init, QueueInit, InState
<1> QED
  BY <1>1, <1>2 DEF StatusOf

\* Every step of XMApplePay is a step of the ledger, or changes no order.
LEMMA LedgerSteps ==
    ASSUME IInv, JInv, [Next]_vars
    PROVE  [Ledger!LedgerNext]_([u \in Tids |-> StatusOf(u)])
BY FrontRefines, StoreRefines, TakingRefines, RenewalRefines, FinishRefines,
   VerifiedRefines, RelaunchRefines DEF Next

\* XMApplePay implements OrderLedger: a paid order stays with StoreKit until it
\* is recorded, in hand, given to the host or let go of; what is in hand is lost
\* only by a crash; and a recorded order is recorded until the server has
\* answered for it, through any crash.
THEOREM PayKeepsTheLedger == Spec => LedgerKept
<1>1. IInv /\ JInv /\ [Next]_vars => IInv' /\ JInv'
  BY StepsKeepIInv, StepsKeepJInv
<1>2. IInv /\ JInv /\ [Next]_vars => [Ledger!LedgerNext]_[t \in Tids |-> StatusOf(t)]
  BY LedgerSteps
<1>3. Spec => Ledger!LedgerInit /\ [][Ledger!LedgerNext]_[t \in Tids |-> StatusOf(t)]
  BY StartsWithIInv, StartsWithJInv, LedgerStarts, <1>1, <1>2, PTL DEF Spec
<1>4. Ledger!LedgerInit /\ [][Ledger!LedgerNext]_[t \in Tids |-> StatusOf(t)] => Ledger!LedgerSpec
  BY PTL DEF Ledger!LedgerSpec
<1>5. Ledger!LedgerSpec => LedgerKept
  BY PTL DEF LedgerKept
<1> QED
  BY <1>3, <1>4, <1>5, PTL
=============================================================================
