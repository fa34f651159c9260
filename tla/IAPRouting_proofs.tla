-------------------------- MODULE IAPRouting_proofs --------------------------
(***************************************************************************)
(* PaymentsAccounted for any number of lookups, products and calls.        *)
(*                                                                         *)
(* It is not inductive: it says nothing of the lookups still under way,    *)
(* any of which may add a payment.  PaymentsCovered charges every one of   *)
(* them in advance, but for one query, which the products block covers.    *)
(***************************************************************************)
EXTENDS IAPRouting, FiniteSetTheorems, TLAPS

IInv == TypeOK /\ PaymentsCovered

-----------------------------------------------------------------------------
\* The lookups of each kind are finitely many.
LEMMA LookupsAreCounted ==
    /\ IsFiniteSet(PurchaseLookups)
    /\ IsFiniteSet(QueryLookups)
    /\ Cardinality(PurchaseLookups) \in Nat
    /\ Cardinality(QueryLookups) \in Nat
    /\ QueryLookups = {} <=> Cardinality(QueryLookups) = 0
<1>1. PurchaseLookups \subseteq Lookups /\ QueryLookups \subseteq Lookups
  BY DEF PurchaseLookups, QueryLookups
<1>2. IsFiniteSet(PurchaseLookups) /\ IsFiniteSet(QueryLookups)
  BY <1>1, LookupsAssumption, FS_Subset
<1> QED
  BY <1>2, FS_CardinalityType, FS_EmptySet

\* The same of the lookups after a step.
LEMMA LookupsAreCountedAfter ==
    /\ IsFiniteSet(PurchaseLookups')
    /\ IsFiniteSet(QueryLookups')
    /\ Cardinality(PurchaseLookups') \in Nat
    /\ Cardinality(QueryLookups') \in Nat
    /\ QueryLookups' = {} <=> Cardinality(QueryLookups') = 0
<1>1. PurchaseLookups' \subseteq Lookups /\ QueryLookups' \subseteq Lookups
  BY DEF PurchaseLookups, QueryLookups
<1>2. IsFiniteSet(PurchaseLookups') /\ IsFiniteSet(QueryLookups')
  BY <1>1, LookupsAssumption, FS_Subset
<1> QED
  BY <1>2, FS_CardinalityType, FS_EmptySet

\* Answering a lookup takes it from the lookups of its kind, and only from them.
LEMMA AnsweredCounts ==
    ASSUME IAPTypeOK, NEW l \in Lookups, lookups[l] # Nil, Answered(l)
    PROVE  \/ /\ Cardinality(PurchaseLookups') = Cardinality(PurchaseLookups) - 1
              /\ QueryLookups' = QueryLookups
           \/ /\ PurchaseLookups' = PurchaseLookups
              /\ Cardinality(QueryLookups') = Cardinality(QueryLookups) - 1
<1>1. lookups[l] \in Asked /\ lookups \in [Lookups -> Asked \cup {Nil}]
  BY DEF IAPTypeOK
<1>2. CASE lookups[l].by = "purchase"
  <2>1. PurchaseLookups' = PurchaseLookups \ {l} /\ l \in PurchaseLookups
    BY <1>1, <1>2 DEF PurchaseLookups, Answered, Asked
  <2>2. QueryLookups' = QueryLookups
    BY <1>1, <1>2 DEF QueryLookups, Answered, Asked
  <2> QED
    BY <2>1, <2>2, LookupsAreCounted, FS_RemoveElement
<1>3. CASE lookups[l].by = "query"
  <2>1. QueryLookups' = QueryLookups \ {l} /\ l \in QueryLookups
    BY <1>1, <1>3 DEF QueryLookups, Answered, Asked
  <2>2. PurchaseLookups' = PurchaseLookups
    BY <1>1, <1>3 DEF PurchaseLookups, Answered, Asked
  <2> QED
    BY <2>1, <2>2, LookupsAreCounted, FS_RemoveElement
<1> QED
  BY <1>1, <1>2, <1>3 DEF Asked

\* Starting a purchase adds one lookup to those of purchases.
LEMMA PurchaseCounts ==
    ASSUME IAPTypeOK, NEW l \in Lookups, NEW pid \in Products,
           lookups[l] = Nil,
           lookups' = [lookups EXCEPT ![l] = [by |-> "purchase", ids |-> {pid}]]
    PROVE  /\ Cardinality(PurchaseLookups') = Cardinality(PurchaseLookups) + 1
           /\ QueryLookups' = QueryLookups
<1>1. lookups \in [Lookups -> Asked \cup {Nil}]
  BY DEF IAPTypeOK
<1>2. [by |-> "purchase", ids |-> {pid}] \in Asked
  BY DEF Asked
<1>3. PurchaseLookups' = PurchaseLookups \cup {l} /\ l \notin PurchaseLookups
  BY <1>1, <1>2, AskedAssumption DEF PurchaseLookups, Asked
<1>4. QueryLookups' = QueryLookups
  BY <1>1, <1>2, AskedAssumption DEF QueryLookups, Asked
<1> QED
  BY <1>3, <1>4, LookupsAreCounted, FS_AddElement

\* Starting a query adds one lookup to those of queries.
LEMMA QueryCounts ==
    ASSUME IAPTypeOK, NEW l \in Lookups, NEW ids \in SUBSET Products,
           lookups[l] = Nil,
           lookups' = [lookups EXCEPT ![l] = [by |-> "query", ids |-> ids]]
    PROVE  /\ Cardinality(QueryLookups') = Cardinality(QueryLookups) + 1
           /\ PurchaseLookups' = PurchaseLookups
<1>1. lookups \in [Lookups -> Asked \cup {Nil}]
  BY DEF IAPTypeOK
<1>2. [by |-> "query", ids |-> ids] \in Asked
  BY DEF Asked
<1>3. QueryLookups' = QueryLookups \cup {l} /\ l \notin QueryLookups
  BY <1>1, <1>2, AskedAssumption DEF QueryLookups, Asked
<1>4. PurchaseLookups' = PurchaseLookups
  BY <1>1, <1>2, AskedAssumption DEF PurchaseLookups, Asked
<1> QED
  BY <1>3, <1>4, LookupsAreCounted, FS_AddElement

\* Answering one lookup and sending a query in the same step.
LEMMA AskingAgainCounts ==
    ASSUME IAPTypeOK, NEW l \in Lookups, NEW other \in Lookups,
           NEW ids \in SUBSET Products,
           lookups[l] # Nil, lookups[other] = Nil,
           lookups' = [lookups EXCEPT ![l] = Nil,
                                      ![other] = [by |-> "query", ids |-> ids]]
    PROVE  \/ /\ Cardinality(PurchaseLookups') = Cardinality(PurchaseLookups) - 1
              /\ Cardinality(QueryLookups') = Cardinality(QueryLookups) + 1
           \/ /\ Cardinality(PurchaseLookups') = Cardinality(PurchaseLookups)
              /\ Cardinality(QueryLookups') = Cardinality(QueryLookups)
<1>1. lookups[l] \in Asked /\ lookups \in [Lookups -> Asked \cup {Nil}]
  BY DEF IAPTypeOK
<1>2. [by |-> "query", ids |-> ids] \in Asked
  BY DEF Asked
<1>3. CASE lookups[l].by = "purchase"
  <2>1. PurchaseLookups' = PurchaseLookups \ {l} /\ l \in PurchaseLookups
    BY <1>1, <1>2, <1>3 DEF PurchaseLookups, Asked
  <2>2. QueryLookups' = QueryLookups \cup {other} /\ other \notin QueryLookups
    BY <1>1, <1>2, <1>3, AskedAssumption DEF QueryLookups, Asked
  <2> QED
    BY <2>1, <2>2, LookupsAreCounted, FS_RemoveElement, FS_AddElement
<1>4. CASE lookups[l].by = "query"
  <2>1. /\ QueryLookups' = (QueryLookups \ {l}) \cup {other}
        /\ l \in QueryLookups
        /\ other \notin QueryLookups \ {l}
    BY <1>1, <1>2, <1>4, AskedAssumption DEF QueryLookups, Asked
  <2>2. PurchaseLookups' = PurchaseLookups
    BY <1>1, <1>2, <1>4, AskedAssumption DEF PurchaseLookups, Asked
  <2>3. /\ IsFiniteSet(QueryLookups \ {l})
        /\ Cardinality(QueryLookups \ {l}) = Cardinality(QueryLookups) - 1
    BY <2>1, LookupsAreCounted, FS_RemoveElement
  <2>4. Cardinality(QueryLookups') = Cardinality(QueryLookups \ {l}) + 1
    BY <2>1, <2>3, FS_AddElement
  <2> QED
    BY <2>2, <2>3, <2>4, LookupsAreCounted
<1> QED
  BY <1>1, <1>3, <1>4 DEF Asked

-----------------------------------------------------------------------------
\* Every method of the object leaves its properties well typed.
LEMMA TypesAreKept ==
    ASSUME TypeOK, [Next]_vars
    PROVE  TypeOK'
<1> USE DEF TypeOK, IAPTypeOK, SharedInstance
<1>1. ASSUME Purchase PROVE TypeOK'
  BY <1>1 DEF Purchase, StartPurchase, Asked
<1>2. ASSUME Refuse PROVE TypeOK'
  BY <1>2 DEF Refuse, RefusePurchase, tally
<1>3. ASSUME Query PROVE TypeOK'
  BY <1>3 DEF Query, QueryProducts, Asked
<1>4. ASSUME QueryAnswered PROVE TypeOK'
  BY <1>4 DEF QueryAnswered, AnswerQuery, Answered, tally
<1>5. ASSUME QueryAnsweredAskingAgain PROVE TypeOK'
  <2>1. PICK l \in Lookups, other \in Lookups, ids \in SUBSET Products :
          /\ AnswerQueryAskingAgain(l, other, ids)
          /\ displaced' = displaced + 1
          /\ UNCHANGED <<starts, promotions, payments>>
    BY <1>5 DEF QueryAnsweredAskingAgain
  <2>2. lookups' \in [Lookups -> Asked \cup {Nil}]
    BY <2>1 DEF AnswerQueryAskingAgain, Asked
  <2>3. /\ registrations' \in Nat
        /\ products' \in BOOLEAN
        /\ currentPurchaseID' \in Products \cup {Nil}
        /\ block' \in Blocks \cup {Nil}
    BY <2>1, Zenon DEF AnswerQueryAskingAgain
  <2>4. starts' \in Nat /\ displaced' \in Nat /\ promotions' \in Nat /\ payments' \in Nat
    BY <2>1
  <2> QED
    BY <2>2, <2>3, <2>4, Zenon
<1>6. ASSUME NothingFound PROVE TypeOK'
  BY <1>6 DEF NothingFound, EmptyResponse, ProductMissing, RequestFails, Answered, tally
<1>7. ASSUME PaymentAdded PROVE TypeOK'
  BY <1>7 DEF PaymentAdded, AddPayment, Answered
<1>8. ASSUME PromotedPurchase PROVE TypeOK'
  BY <1>8 DEF PromotedPurchase, RegisterAgain
<1>9. ASSUME Relaunch PROVE TypeOK'
  BY <1>9 DEF Relaunch, ForgetRequests, tally
<1>10. ASSUME UNCHANGED vars PROVE TypeOK'
  BY <1>10 DEF vars, iapVars, tally
<1> QED
  BY <1>1, <1>2, <1>3, <1>4, <1>5, <1>6, <1>7, <1>8, <1>9, <1>10 DEF Next

\* A step that answers a lookup and adds no payment keeps the account covered,
\* if it leaves the products block alone or answers while it was set.
LEMMA AnsweringIsCovered ==
    ASSUME IInv, NEW l \in Lookups, lookups[l] # Nil, Answered(l),
           UNCHANGED tally,
           products' = products \/ (products /\ products' = FALSE)
    PROVE  PaymentsCovered'
<1>1. PICK p \in Nat, q \in Nat :
        p = Cardinality(PurchaseLookups) /\ q = Cardinality(QueryLookups)
  BY LookupsAreCounted
<1>2. PICK pp \in Nat, qq \in Nat :
        pp = Cardinality(PurchaseLookups') /\ qq = Cardinality(QueryLookups')
  BY LookupsAreCountedAfter
<1>3. (pp = p - 1 /\ qq = q) \/ (pp = p /\ qq = q - 1)
  BY <1>1, <1>2, AnsweredCounts DEF IInv, TypeOK
<1>4. Loose = IF products /\ q # 0 THEN q - 1 ELSE q
  BY <1>1, LookupsAreCounted DEF Loose
<1>5. Loose' = IF products' /\ qq # 0 THEN qq - 1 ELSE qq
  BY <1>2, LookupsAreCountedAfter DEF Loose
<1> QED
  BY <1>1, <1>2, <1>3, <1>4, <1>5 DEF IInv, TypeOK, IAPTypeOK, PaymentsCovered, tally

\* Every lookup that may still add a payment stays paid for in advance.
LEMMA PaymentsStayCovered ==
    ASSUME IInv, [Next]_vars
    PROVE  PaymentsCovered'
<1>1. PICK p \in Nat, q \in Nat :
        p = Cardinality(PurchaseLookups) /\ q = Cardinality(QueryLookups)
  BY LookupsAreCounted
<1>2. PICK pp \in Nat, qq \in Nat :
        pp = Cardinality(PurchaseLookups') /\ qq = Cardinality(QueryLookups')
  BY LookupsAreCountedAfter
<1>3. Loose = IF products /\ q # 0 THEN q - 1 ELSE q
  BY <1>1, LookupsAreCounted DEF Loose
<1>4. Loose' = IF products' /\ qq # 0 THEN qq - 1 ELSE qq
  BY <1>2, LookupsAreCountedAfter DEF Loose
<1>5. IAPTypeOK /\ TypeOK
  BY DEF IInv, TypeOK
<1>6. payments + p + Loose <= starts + displaced + 2 * promotions
  BY <1>1 DEF IInv, PaymentsCovered
<1>7. SUFFICES payments' + pp + Loose' <= starts' + displaced' + 2 * promotions'
  BY <1>2 DEF PaymentsCovered
<1> USE DEF TypeOK, IAPTypeOK
<1>8. ASSUME Purchase PROVE PaymentsCovered'
  <2>1. pp = p + 1 /\ qq = q /\ starts' = starts + 1 /\ products' = products
    BY <1>1, <1>2, <1>5, <1>8, PurchaseCounts DEF Purchase, StartPurchase
  <2> QED
    BY <1>2, <1>3, <1>4, <1>5, <1>6, <1>8, <2>1 DEF Purchase, PaymentsCovered
<1>9. ASSUME Query PROVE PaymentsCovered'
  <2>1. /\ pp = p
        /\ qq = q + 1
        /\ products'
        /\ displaced' = displaced + (IF products THEN 1 ELSE 0)
    BY <1>1, <1>2, <1>5, <1>9, QueryCounts DEF Query, QueryProducts
  <2> QED
    BY <1>2, <1>3, <1>4, <1>5, <1>6, <1>9, <2>1 DEF Query, PaymentsCovered
<1>10. ASSUME QueryAnswered PROVE PaymentsCovered'
  <2>1. PICK l \in Lookups : AnswerQuery(l) /\ UNCHANGED tally
    BY <1>10 DEF QueryAnswered
  <2>2. lookups[l] # Nil /\ Answered(l) /\ products /\ products' = FALSE
    BY <2>1 DEF AnswerQuery, Responses
  <2> QED
    BY <2>1, <2>2, AnsweringIsCovered
<1>11. ASSUME QueryAnsweredAskingAgain PROVE PaymentsCovered'
  <2>1. PICK l \in Lookups, other \in Lookups, ids \in SUBSET Products :
          /\ AnswerQueryAskingAgain(l, other, ids)
          /\ displaced' = displaced + 1
          /\ UNCHANGED <<starts, promotions, payments>>
    BY <1>11 DEF QueryAnsweredAskingAgain
  <2>2. lookups[l] # Nil /\ products /\ products' = FALSE
    BY <2>1 DEF AnswerQueryAskingAgain, Responses
  <2>3. (pp = p - 1 /\ qq = q + 1) \/ (pp = p /\ qq = q)
    BY <1>1, <1>2, <1>5, <2>1, <2>2, AskingAgainCounts DEF AnswerQueryAskingAgain
  <2> QED
    BY <1>2, <1>3, <1>4, <1>5, <1>6, <2>1, <2>2, <2>3 DEF PaymentsCovered
<1>12. ASSUME NothingFound PROVE PaymentsCovered'
  <2>1. PICK l \in Lookups :
          /\ EmptyResponse(l) \/ ProductMissing(l) \/ RequestFails(l)
          /\ UNCHANGED tally
    BY <1>12 DEF NothingFound
  <2>2. lookups[l] # Nil /\ Answered(l) /\ products' = products
    BY <2>1 DEF EmptyResponse, ProductMissing, RequestFails, Responses
  <2> QED
    BY <2>1, <2>2, AnsweringIsCovered
<1>13. ASSUME PaymentAdded PROVE PaymentsCovered'
  <2>1. PICK l \in Lookups :
          /\ AddPayment(l)
          /\ payments' = payments + 1
          /\ UNCHANGED <<starts, displaced, promotions>>
    BY <1>13 DEF PaymentAdded
  <2>2. lookups[l] # Nil /\ Answered(l) /\ products' = products /\ ~ products
    BY <2>1 DEF AddPayment, Responses
  <2>3. (pp = p - 1 /\ qq = q) \/ (pp = p /\ qq = q - 1)
    BY <1>1, <1>2, <1>5, <2>2, AnsweredCounts
  <2> QED
    BY <1>2, <1>3, <1>4, <1>5, <1>6, <2>1, <2>2, <2>3 DEF PaymentsCovered
<1>14. ASSUME PromotedPurchase PROVE PaymentsCovered'
  <2>1. PurchaseLookups' = PurchaseLookups /\ QueryLookups' = QueryLookups
    BY <1>14 DEF PromotedPurchase, RegisterAgain, PurchaseLookups, QueryLookups
  <2> QED
    BY <1>1, <1>2, <1>3, <1>4, <1>5, <1>6, <1>14, <2>1
    DEF PromotedPurchase, RegisterAgain, PaymentsCovered
<1>15. ASSUME Relaunch PROVE PaymentsCovered'
  <2>1. PurchaseLookups' = {} /\ QueryLookups' = {}
    BY <1>15 DEF Relaunch, ForgetRequests, PurchaseLookups, QueryLookups
  <2>2. pp = 0 /\ qq = 0
    BY <1>2, <2>1, FS_EmptySet
  <2> QED
    BY <1>2, <1>3, <1>4, <1>5, <1>6, <1>15, <2>2 DEF Relaunch, tally, PaymentsCovered
<1>16. ASSUME Refuse \/ UNCHANGED vars PROVE PaymentsCovered'
  <2>1. /\ PurchaseLookups' = PurchaseLookups
        /\ QueryLookups' = QueryLookups
        /\ products' = products
        /\ UNCHANGED tally
    BY <1>16 DEF Refuse, RefusePurchase, vars, iapVars, PurchaseLookups, QueryLookups
  <2> QED
    BY <1>1, <1>2, <1>3, <1>4, <1>5, <1>6, <2>1 DEF tally, PaymentsCovered
<1> QED
  BY <1>2, <1>8, <1>9, <1>10, <1>11, <1>12, <1>13, <1>14, <1>15, <1>16
  DEF Next, PaymentsCovered

-----------------------------------------------------------------------------
\* A new process starts well typed.
LEMMA StartsWellTyped == Init => TypeOK
<1> SUFFICES ASSUME Init PROVE TypeOK
  OBVIOUS
<1>1. lookups \in [Lookups -> Asked \cup {Nil}]
  BY DEF Init, IAPInit
<1>2. starts \in Nat /\ displaced \in Nat /\ promotions \in Nat /\ payments \in Nat
  BY DEF Init
<1> QED
  BY <1>1, <1>2, Zenon DEF Init, IAPInit, TypeOK, IAPTypeOK

\* The variables of IAPRouting have their types in every reachable state.
THEOREM RoutingTypes == Spec => []TypeOK
<1>1. Init => TypeOK
  BY StartsWellTyped
<1>2. TypeOK /\ [Next]_vars => TypeOK'
  BY TypesAreKept
<1> QED
  BY <1>1, <1>2, PTL DEF Spec

\* Every lookup under way that may add a payment is paid for in advance.
THEOREM RoutingCovered == Spec => []PaymentsCovered
<1>1. Init => IInv
  <2> SUFFICES ASSUME Init PROVE PaymentsCovered
    BY StartsWellTyped DEF IInv
  <2>1. PurchaseLookups = {} /\ QueryLookups = {}
    BY DEF Init, IAPInit, PurchaseLookups, QueryLookups
  <2>2. Cardinality(PurchaseLookups) = 0 /\ Loose = 0
    BY <2>1, FS_EmptySet DEF Loose
  <2> QED
    BY <2>2 DEF Init, PaymentsCovered
<1>2. IInv /\ [Next]_vars => IInv'
  BY TypesAreKept, PaymentsStayCovered DEF IInv
<1>3. IInv => PaymentsCovered
  BY DEF IInv
<1> QED
  BY <1>1, <1>2, <1>3, PTL DEF Spec

\* No more payments are added than purchases asked for, query blocks lost and
\* promoted purchases account for, however many lookups run at once.
THEOREM RoutingPaymentsAccounted == Spec => []PaymentsAccounted
<1>1. TypeOK /\ PaymentsCovered => PaymentsAccounted
  <2> SUFFICES ASSUME TypeOK, PaymentsCovered PROVE PaymentsAccounted
    OBVIOUS
  <2>1. Loose \in Nat /\ Cardinality(PurchaseLookups) \in Nat
    BY LookupsAreCounted DEF Loose
  <2> QED
    BY <2>1 DEF TypeOK, PaymentsCovered, PaymentsAccounted
<1> QED
  BY <1>1, RoutingTypes, RoutingCovered, PTL
=============================================================================
