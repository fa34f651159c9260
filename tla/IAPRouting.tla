----------------------------- MODULE IAPRouting -----------------------------
(***************************************************************************)
(* How many payments the routing of XMProductsRequest can add for the      *)
(* purchases a host asks for, across relaunches of the app.                *)
(***************************************************************************)
EXTENDS XMProductsRequest

CONSTANT MaxCalls       \* bound on the calls a behaviour makes

ASSUME MaxCallsAssumption == MaxCalls \in Nat

\* History variables; the code keeps none of them.
VARIABLES
    starts,             \* purchases whose lookup was sent
    displaced,          \* query blocks lost while their answer was still due
    promotions,         \* answers YES to the question about a promoted purchase
    payments            \* payments added to the payment queue

tally == <<starts, displaced, promotions, payments>>
vars == <<iapVars, tally>>

Init ==
    /\ IAPInit
    /\ starts = 0
    /\ displaced = 0
    /\ promotions = 0
    /\ payments = 0

-----------------------------------------------------------------------------
Purchase ==
    \E l \in Lookups, pid \in Products, b \in Blocks :
        /\ starts < MaxCalls
        /\ StartPurchase(l, pid, b)
        /\ starts' = starts + 1
        /\ UNCHANGED <<displaced, promotions, payments>>

Refuse ==
    \E b \in Blocks : RefusePurchase(b) /\ UNCHANGED tally

\* A query issued while another query's block is set replaces that block.
Query ==
    \E l \in Lookups, ids \in SUBSET Products :
        /\ displaced < MaxCalls
        /\ QueryProducts(l, ids)
        /\ displaced' = displaced + (IF products THEN 1 ELSE 0)
        /\ UNCHANGED <<starts, promotions, payments>>

QueryAnswered ==
    \E l \in Lookups : AnswerQuery(l) /\ UNCHANGED tally

QueryAnsweredAskingAgain ==
    \E l, other \in Lookups, ids \in SUBSET Products :
        /\ displaced < MaxCalls
        /\ AnswerQueryAskingAgain(l, other, ids)
        /\ displaced' = displaced + 1
        /\ UNCHANGED <<starts, promotions, payments>>

NothingFound ==
    \E l \in Lookups :
        /\ EmptyResponse(l) \/ ProductMissing(l) \/ RequestFails(l)
        /\ UNCHANGED tally

PaymentAdded ==
    \E l \in Lookups :
        /\ AddPayment(l)
        /\ payments' = payments + 1
        /\ UNCHANGED <<starts, displaced, promotions>>

\* paymentQueue:shouldAddStorePayment:forProduct: registers the observer once
\* more, adds a payment of its own and returns YES, on which StoreKit adds the
\* promoted one too.  An observer registered more than once may be asked more
\* than once about one promoted purchase, which StoreKit adds once.
PromotedPurchase ==
    /\ promotions < MaxCalls
    /\ promotions' = promotions + 1
    /\ RegisterAgain
    /\ \/ payments' = payments + 2
       \/ registrations > 1 /\ payments' = payments + 1
    /\ UNCHANGED <<starts, displaced>>

Relaunch ==
    /\ ForgetRequests
    /\ UNCHANGED tally

Next ==
    \/ Purchase
    \/ Refuse
    \/ Query
    \/ QueryAnswered
    \/ QueryAnsweredAskingAgain
    \/ NothingFound
    \/ PaymentAdded
    \/ PromotedPurchase
    \/ Relaunch

Spec == Init /\ [][Next]_vars

-----------------------------------------------------------------------------
\* The variables have the types the code gives them.
TypeOK ==
    /\ IAPTypeOK
    /\ starts \in Nat
    /\ displaced \in Nat
    /\ promotions \in Nat
    /\ payments \in Nat

\* A payment is added only for a purchase that was asked for.  The one way the
\* routing can charge without being asked is a query whose block was replaced
\* or erased before its answer came: the answer is then taken for a purchase's.
\* A promoted purchase is charged up to twice for each time it is answered.
PaymentsAccounted == payments <= starts + displaced + 2 * promotions

\* What keeps it so: every lookup that may still add a payment is paid for in
\* advance.  One query answer at most is covered by the block that waits for it.
PurchaseLookups == {l \in Lookups : lookups[l] # Nil /\ lookups[l].by = "purchase"}
QueryLookups == {l \in Lookups : lookups[l] # Nil /\ lookups[l].by = "query"}
Loose == IF products /\ QueryLookups # {}
         THEN Cardinality(QueryLookups) - 1
         ELSE Cardinality(QueryLookups)
PaymentsCovered ==
    payments + Cardinality(PurchaseLookups) + Loose
        <= starts + displaced + 2 * promotions
=============================================================================
