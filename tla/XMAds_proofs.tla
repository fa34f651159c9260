----------------------------- MODULE XMAds_proofs -----------------------------
(***************************************************************************)
(* Proofs about XMAds, for any wrappers, ads, ad units and loads: its      *)
(* types, that no ad the host keeps is forgotten, that a wrapper alone     *)
(* with its ad tries one thing at a time, and that AdMob presents what the *)
(* latest load brought.                                                    *)
(***************************************************************************)
EXTENDS XMAds, SequenceTheorems, TLAPS

\* What is on screen was asked for: the last part of TypeOK.
ScreenOK ==
    screen \in {Nobody} \cup {a \in Ads : content[a] = "showing"}
                        \cup {OnScreen(n) : n \in presenting}

\* What AloneTriesOnce rests on: a wrapper that is not made has dispatched no
\* retry, and an ad without a wrapper was never loaded; an ad tells a wrapper of
\* its own; and an ad that is loading for one wrapper alone is not there yet.
NoRetryUnmade == \A w \in Wrappers \ made : retries[w] = <<>>
NoLoadUnmade ==
    \A a \in Ads : (\A v \in made : AdOf[v] # a) => a \notin loading /\ content[a] = "none"
OwnDelegate ==
    \A a \in Ads : delegate[a] # Nobody => delegate[a] \in made /\ AdOf[delegate[a]] = a
AloneLoadsNew ==
    \A w \in made : Alone(w) /\ AdOf[w] \in loading => content[AdOf[w]] = "none"

AloneInv == NoRetryUnmade /\ NoLoadUnmade /\ OwnDelegate /\ AloneLoadsNew /\ AloneTriesOnce

\* A wrapper of AdMob holds no ad but that of its own load.
AdIsOwn == \A n \in Loads : ad[n] \in {nil, n}

-----------------------------------------------------------------------------
\* The retries and their delays.

\* A retry that runs leaves the others, and is one less.
LEMMA RemovingOne ==
    ASSUME NEW S, NEW s \in Seq(S), NEW i \in DOMAIN s
    PROVE  RemoveAt(s, i) \in Seq(S) /\ Len(RemoveAt(s, i)) = Len(s) - 1
<1>1. Len(s) \in Nat /\ i \in 1..Len(s)
  BY LenProperties
<1> DEFINE before == SubSeq(s, 1, i - 1)
           after == SubSeq(s, i + 1, Len(s))
<1>2. before \in Seq(S) /\ Len(before) = i - 1
  BY <1>1, SubSeqProperties
<1>3. after \in Seq(S) /\ Len(after) = Len(s) - i
  BY <1>1, SubSeqProperties
<1>4. RemoveAt(s, i) = before \o after
  BY Zenon DEF RemoveAt
<1> HIDE DEF before, after
<1>5. before \o after \in Seq(S) /\ Len(before \o after) = Len(before) + Len(after)
  BY <1>2, <1>3, ConcatProperties
<1> QED
  BY <1>1, <1>2, <1>3, <1>4, <1>5

\* A retry is dispatched behind those that wait.
LEMMA AddingOne ==
    ASSUME NEW S, NEW s \in Seq(S), NEW d \in S
    PROVE  Append(s, d) \in Seq(S) /\ Len(Append(s, d)) = Len(s) + 1
  BY AppendProperties

\* Counting stops where the delay stops growing.
LEMMA CountedIs ==
    ASSUME NEW n \in Int
    PROVE  Counted(n) \in Int /\ Counted(n) <= MaxDoublings /\ (n >= 0 => Counted(n) >= 0)
  BY ALAdAssumption DEF Counted

\* Every delay is one of those the code's comment promises.
LEMMA DelayIs == ASSUME NEW n \in Int PROVE DelaySec(n) \in Delays
<1>1. CASE n < 0
  BY <1>1 DEF DelaySec, Delays
<1>2. CASE ~ (n < 0)
  <2>1. Counted(n) \in 0..MaxDoublings
    BY <1>2, CountedIs, ALAdAssumption
  <2>2. 2 ^ Counted(n) \in Delays
    BY <2>1, Zenon DEF Delays
  <2> QED
    BY <1>2, <2>2 DEF DelaySec
<1> QED
  BY <1>1, <1>2

\* An ad tells one wrapper at most, and that one is its delegate.
LEMMA ToldIs ==
    ASSUME ALTypeOK, NEW a \in Ads
    PROVE  /\ Told(a) \subseteq Wrappers
           /\ \A w \in Told(a) : w = delegate[a] /\ w # Nobody
  BY ALAdAssumption DEF Told

\* loadAd touches nothing but the ads that are loading.
LEMMA LoadAdIs ==
    ASSUME NEW a \in Ads, NEW has, loading \subseteq Ads, LoadAd(a, has)
    PROVE  /\ loading' \in {loading, loading \cup {a}}
           /\ loading' \subseteq Ads
           /\ has # "showing" => a \in loading'
  BY DEF LoadAd

\* Nor does loading the next ad, of an ad that is told.
LEMMA LoadNextIs ==
    ASSUME NEW a \in Ads, loading \subseteq Ads, LoadNext(a)
    PROVE  /\ loading' \in {loading, loading \cup {a}}
           /\ loading' \subseteq Ads
           /\ Told(a) # {} => a \in loading'
  BY LoadAdIs DEF LoadNext

-----------------------------------------------------------------------------
\* Types.

\* Nothing is made, loaded or asked for at the start.
LEMMA InitTypes == Init => TypeOK
<1> SUFFICES ASSUME Init PROVE TypeOK
  OBVIOUS
<1>1. \A w \in Wrappers : retries[w] = <<>> /\ <<>> \in Seq(Delays)
  BY EmptySeq DEF Init, ALInit
<1>2. ALTypeOK
  BY <1>1, ALAdAssumption DEF Init, ALInit, ALTypeOK
<1>3. AdmobTypeOK
  BY AdmobAssumption DEF Init, AdmobInit, AdmobTypeOK, Loads, nil
<1> QED
  BY <1>2, <1>3 DEF TypeOK, Init, ScreenInit

\* AppLovin's part keeps its types.
LEMMA ALTypes == ASSUME ALTypeOK, ALNext PROVE ALTypeOK'
<1> USE DEF ALTypeOK
<1>1. \A w \in Wrappers : AdOf[w] \in Ads
  BY ALAdAssumption
<1>2. ASSUME NEW w \in Wrappers, NEW n \in FirstAttempts, NEW keep \in BOOLEAN, Load(w, n, keep)
      PROVE  ALTypeOK'
  <2>1. loading' \subseteq Ads
    BY <1>1, <1>2, LoadAdIs DEF Load
  <2>2. n \in Int /\ n <= MaxDoublings
    BY ALAdAssumption
  <2> QED
    BY <1>1, <1>2, <2>1, <2>2 DEF Load
<1>3. ASSUME NEW w \in Wrappers, Release(w) PROVE ALTypeOK'
  BY <1>3 DEF Release
<1>4. ASSUME NEW w \in Wrappers, Present(w) PROVE ALTypeOK'
  BY <1>1, <1>4 DEF Present, wrapperVars
<1>5. ASSUME NEW w \in Wrappers, NEW i \in DOMAIN retries[w], Retry(w, i) PROVE ALTypeOK'
  <2>1. loading' \subseteq Ads
    BY <1>1, <1>5, LoadAdIs DEF Retry
  <2>2. RemoveAt(retries[w], i) \in Seq(Delays)
    BY RemovingOne
  <2> QED
    BY <1>5, <2>1, <2>2 DEF Retry
<1>6. ASSUME NEW a \in Ads, DidLoadAd(a) PROVE ALTypeOK'
  BY <1>6, ALAdAssumption DEF DidLoadAd
<1>7. ASSUME NEW a \in Ads, DidFailToLoadAd(a) PROVE ALTypeOK'
  <2>1. \A w \in Wrappers :
           /\ Counted(retryAttempt[w] + 1) \in Int
           /\ Counted(retryAttempt[w] + 1) <= MaxDoublings
    BY CountedIs
  <2>2. retryAttempt' \in [Wrappers -> {n \in Int : n <= MaxDoublings}]
    BY <1>7, <2>1 DEF DidFailToLoadAd
  <2>3. \A w \in Wrappers : DelaySec(retryAttempt[w] + 1) \in Delays
    BY DelayIs
  <2>4. \A w \in Wrappers : Append(retries[w], DelaySec(retryAttempt[w] + 1)) \in Seq(Delays)
    BY <2>3, AddingOne
  <2>5. retries' \in [Wrappers -> Seq(Delays)]
    BY <1>7, <2>4 DEF DidFailToLoadAd
  <2> QED
    BY <1>7, <2>2, <2>5 DEF DidFailToLoadAd
<1>8. ASSUME NEW a \in Ads, DidDisplayAd(a) PROVE ALTypeOK'
  BY <1>8 DEF DidDisplayAd, ALVars, wrapperVars
<1>9. ASSUME NEW a \in Ads, DidHideAd(a) \/ DidFailToDisplayAd(a) PROVE ALTypeOK'
  <2>1. loading' \subseteq Ads
    BY <1>9, LoadNextIs DEF DidHideAd, DidFailToDisplayAd
  <2> QED
    BY <1>9, <2>1 DEF DidHideAd, DidFailToDisplayAd, wrapperVars
<1> QED
  BY <1>2, <1>3, <1>4, <1>5, <1>6, <1>7, <1>8, <1>9 DEF ALNext

\* AdMob's part keeps its types, and gives each wrapper its own ad.
LEMMA AdmobTypes ==
    ASSUME AdmobTypeOK, AdIsOwn, AdmobNext PROVE AdmobTypeOK' /\ AdIsOwn'
<1> USE AdmobAssumption DEF AdmobTypeOK, AdIsOwn, Loads, nil
<1>1. ASSUME NEW u \in Units, LoadUnit(u) PROVE AdmobTypeOK' /\ AdIsOwn'
  <2>1. loads' = loads + 1 /\ loads' \in 0..MaxLoads
    BY <1>1 DEF LoadUnit
  <2>2. \A m \in 0..loads : m \in 0..loads'
    BY <2>1
  <2>3. ads' \in [Units -> 0..loads']
    BY <1>1, <2>1, <2>2 DEF LoadUnit
  <2>4. ad' \in [1..MaxLoads -> 0..loads']
    BY <1>1, <2>1, <2>2 DEF LoadUnit
  <2> QED
    BY <1>1, <2>1, <2>3, <2>4 DEF LoadUnit
<1>2. ASSUME NEW u \in Units, PresentUnit(u) PROVE AdmobTypeOK' /\ AdIsOwn'
  <2>1. ads[u] \in 1..MaxLoads /\ ad[ads[u]] \in 1..loads
    BY <1>2 DEF PresentUnit
  <2> QED
    BY <1>2, <2>1 DEF PresentUnit
<1>3. ASSUME NEW n \in 1..MaxLoads, Loaded(n) PROVE AdmobTypeOK' /\ AdIsOwn'
  <2>1. n \in 0..loads
    BY <1>3 DEF Loaded
  <2> QED
    BY <1>3, <2>1 DEF Loaded
<1>4. ASSUME NEW n \in 1..MaxLoads, FailedToLoad(n) PROVE AdmobTypeOK' /\ AdIsOwn'
  BY <1>4 DEF FailedToLoad
<1>5. ASSUME NEW n \in 1..MaxLoads, WillPresent(n) \/ DidDismiss(n) \/ DidFailToPresent(n)
      PROVE  AdmobTypeOK' /\ AdIsOwn'
  BY <1>5 DEF WillPresent, DidDismiss, DidFailToPresent, AdmobVars
<1> QED
  BY <1>1, <1>2, <1>3, <1>4, <1>5 DEF AdmobNext

\* Whichever SDK takes a step, what is on screen was asked for.
LEMMA ScreenSteps ==
    ASSUME ALTypeOK, AdmobTypeOK, ScreenOK, Next PROVE ScreenOK'
<1> USE DEF ScreenOK
<1>1. CASE ALNext /\ UNCHANGED AdmobVars
  <2> presenting' = presenting
    BY <1>1 DEF AdmobVars
  <2>1. ASSUME \A b \in Ads : content[b] = "showing" => content'[b] = "showing",
               screen' = screen
        PROVE  ScreenOK'
    BY <2>1
  <2>2. ASSUME NEW w \in Wrappers, NEW n, NEW keep, NEW i,
               Load(w, n, keep) \/ Release(w) \/ Present(w) \/ Retry(w, i)
        PROVE  ScreenOK'
    <3>1. AdOf[w] \in Ads
      BY ALAdAssumption
    <3> QED
      BY <2>1, <2>2, <3>1 DEF Load, Release, Present, Retry, wrapperVars, ALTypeOK
  <2>3. ASSUME NEW a \in Ads, DidLoadAd(a) \/ DidFailToLoadAd(a) PROVE ScreenOK'
    BY <2>1, <2>3 DEF DidLoadAd, DidFailToLoadAd, ALTypeOK
  <2>4. ASSUME NEW a \in Ads, DidDisplayAd(a) PROVE ScreenOK'
    BY <2>4 DEF DidDisplayAd, Takes, ALVars
  <2>5. ASSUME NEW a \in Ads, DidHideAd(a) PROVE ScreenOK'
    BY <2>5 DEF DidHideAd, Leaves
  <2>6. ASSUME NEW a \in Ads, DidFailToDisplayAd(a) PROVE ScreenOK'
    BY <2>6 DEF DidFailToDisplayAd, ALTypeOK
  <2> QED
    BY <1>1, <2>2, <2>3, <2>4, <2>5, <2>6 DEF ALNext
<1>2. CASE AdmobNext /\ UNCHANGED ALVars
  <2> content' = content
    BY <1>2 DEF ALVars
  <2>1. ASSUME NEW u \in Units, LoadUnit(u) \/ PresentUnit(u) PROVE ScreenOK'
    BY <2>1 DEF LoadUnit, PresentUnit
  <2>2. ASSUME NEW n \in Loads, Loaded(n) \/ FailedToLoad(n) PROVE ScreenOK'
    BY <2>2 DEF Loaded, FailedToLoad
  <2>3. ASSUME NEW n \in Loads, WillPresent(n) PROVE ScreenOK'
    BY <2>3 DEF WillPresent, Takes, AdmobVars
  <2>4. ASSUME NEW n \in Loads, DidDismiss(n) PROVE ScreenOK'
    BY <2>4 DEF DidDismiss, Leaves
  <2>5. ASSUME NEW n \in Loads, DidFailToPresent(n) PROVE ScreenOK'
    BY <2>5 DEF DidFailToPresent
  <2> QED
    BY <1>2, <2>1, <2>2, <2>3, <2>4, <2>5 DEF AdmobNext
<1> QED
  BY <1>1, <1>2 DEF Next

\* Every step keeps the types.
LEMMA StepTypes ==
    ASSUME TypeOK, AdIsOwn, [Next]_vars PROVE TypeOK' /\ AdIsOwn'
<1>0. ALTypeOK /\ AdmobTypeOK /\ ScreenOK
  BY DEF TypeOK, ScreenOK
<1>1. CASE Next
  <2>1. ScreenOK'
    BY <1>0, <1>1, ScreenSteps
  <2>2. CASE ALNext /\ UNCHANGED AdmobVars
    <3>1. ALTypeOK'
      BY <1>0, <2>2, ALTypes
    <3>2. AdmobTypeOK' /\ AdIsOwn'
      BY <1>0, <2>2 DEF AdmobVars, AdmobTypeOK, AdIsOwn
    <3> QED
      BY <2>1, <3>1, <3>2 DEF TypeOK, ScreenOK
  <2>3. CASE AdmobNext /\ UNCHANGED ALVars
    <3>1. AdmobTypeOK' /\ AdIsOwn'
      BY <1>0, <2>3, AdmobTypes
    <3>2. ALTypeOK'
      BY <1>0, <2>3 DEF ALVars, wrapperVars, ALTypeOK
    <3> QED
      BY <2>1, <3>1, <3>2 DEF TypeOK, ScreenOK
  <2> QED
    BY <1>1, <2>2, <2>3 DEF Next
<1>2. CASE UNCHANGED vars
  BY <1>0, <1>2 DEF vars, ALVars, wrapperVars, AdmobVars, TypeOK, ALTypeOK, AdmobTypeOK, AdIsOwn
<1> QED
  BY <1>1, <1>2

\* No wrapper of AdMob holds an ad at the start.
LEMMA InitOwn == Init => AdIsOwn
  BY DEF Init, AdmobInit, AdIsOwn

\* The variables have the types the code gives them, the delays among them, and
\* what is on screen was asked for and not yet dismissed.
THEOREM AdTypes == Spec => []TypeOK
<1>1. Init => TypeOK /\ AdIsOwn
  BY InitTypes, InitOwn
<1>2. TypeOK /\ AdIsOwn /\ [Next]_vars => TypeOK' /\ AdIsOwn'
  BY StepTypes
<1> QED
  BY <1>1, <1>2, PTL DEF Spec

\* The ad that AdMob presents is the one the latest load of its unit brought,
\* though the answers to an earlier load may come later: the wrapper of a load
\* holds no other ad.
THEOREM LatestIsPresented == Spec => LatestLoadIsPresented
<1> DEFINE Presented == \A n \in presenting' \ presenting : \E u \in Units : ads[u] = n
<1>1. ASSUME TypeOK, AdIsOwn, [Next]_vars PROVE Presented \/ AdmobVars' = AdmobVars
  <2>1. ASSUME NEW u \in Units, PresentUnit(u) PROVE Presented
    <3>1. ads[u] \in Loads /\ ad[ads[u]] = ads[u]
      BY <1>1, <2>1, AdmobAssumption DEF PresentUnit, TypeOK, AdmobTypeOK, AdIsOwn, Loads, nil
    <3> QED
      BY <2>1, <3>1 DEF PresentUnit
  <2>2. ASSUME NEW u \in Units, LoadUnit(u) PROVE Presented
    BY <2>2 DEF LoadUnit
  <2>3. ASSUME NEW n \in Loads,
               \/ Loaded(n) \/ FailedToLoad(n)
               \/ WillPresent(n) \/ DidDismiss(n) \/ DidFailToPresent(n)
        PROVE  Presented
    BY <2>3 DEF Loaded, FailedToLoad, WillPresent, DidDismiss, DidFailToPresent, AdmobVars
  <2> QED
    BY <1>1, <2>1, <2>2, <2>3 DEF Next, AdmobNext, vars
<1>2. TypeOK /\ AdIsOwn /\ [Next]_vars => [Presented]_AdmobVars
  <2> HIDE DEF Presented
  <2> QED
    BY <1>1
<1>3. Init => TypeOK /\ AdIsOwn
  BY InitTypes, InitOwn
<1>4. TypeOK /\ AdIsOwn /\ [Next]_vars => TypeOK' /\ AdIsOwn'
  BY StepTypes
<1> QED
  BY <1>2, <1>3, <1>4, PTL DEF Spec, LatestLoadIsPresented

-----------------------------------------------------------------------------
(***************************************************************************)
(* What the host keeps is not forgotten.                                   *)
(***************************************************************************)

\* A wrapper that is kept and told has not lost its ad, after a step of AppLovin's.
LEMMA RecoverSteps ==
    ASSUME ALTypeOK, KeptAdsRecover, ALNext PROVE KeptAdsRecover'
<1> USE DEF ALTypeOK
<1> SUFFICES ASSUME NEW w \in kept', delegate'[AdOf[w]] = w
             PROVE  AdOf[w] \in loading' \/ content'[AdOf[w]] # "none" \/ retries'[w] # <<>>
  BY DEF KeptAdsRecover
<1> DEFINE b == AdOf[w]
           Fine == b \in loading \/ content[b] # "none" \/ retries[w] # <<>>
           Fine1 == b \in loading' \/ content'[b] # "none" \/ retries'[w] # <<>>
<1>0. w \in Wrappers /\ b \in Ads
  <2>1. ALTypeOK'
    BY ALTypes
  <2> QED
    BY <2>1, ALAdAssumption
<1>1. w \in kept /\ delegate[b] = w => Fine
  BY DEF KeptAdsRecover
<1> HIDE DEF b
<1>2. ASSUME NEW v \in Wrappers, NEW n, NEW keep, Load(v, n, keep) PROVE Fine1
  <2>1. AdOf[v] \in Ads /\ loading \subseteq loading'
    BY <1>2, ALAdAssumption DEF Load, LoadAd
  <2>2. CASE v = w
    BY <1>2, <2>2 DEF Load, LoadAd, b
  <2>3. CASE v # w
    <3>1. w \in kept /\ delegate[b] = w
      BY <1>0, <1>2, <2>1, <2>3 DEF Load, b
    <3> QED
      BY <1>1, <1>2, <2>1, <3>1 DEF Load
  <2> QED
    BY <2>2, <2>3
<1>3. ASSUME NEW v \in Wrappers, Release(v) \/ Present(v) PROVE Fine1
  <2>1. AdOf[v] \in Ads
    BY ALAdAssumption
  <2>2. w \in kept /\ delegate[b] = w
    BY <1>3 DEF Release, Present, wrapperVars, b
  <2> QED
    BY <1>0, <1>1, <1>3, <2>1, <2>2 DEF Release, Present, wrapperVars
<1>4. ASSUME NEW v \in Wrappers, NEW i \in DOMAIN retries[v], Retry(v, i) PROVE Fine1
  <2>1. w \in kept /\ delegate[b] = w
    BY <1>4 DEF Retry, b
  <2>2. CASE v = w
    BY <1>4, <2>2 DEF Retry, LoadAd, b
  <2>3. CASE v # w
    BY <1>0, <1>1, <1>4, <2>1, <2>3 DEF Retry, LoadAd
  <2> QED
    BY <2>2, <2>3
<1>5. ASSUME NEW a \in Ads, DidLoadAd(a) PROVE Fine1
  <2>1. w \in kept /\ delegate[b] = w
    BY <1>5 DEF DidLoadAd, b
  <2> QED
    BY <1>0, <1>1, <1>5, <2>1 DEF DidLoadAd
<1>6. ASSUME NEW a \in Ads, DidFailToLoadAd(a) PROVE Fine1
  <2>1. w \in kept /\ delegate[b] = w
    BY <1>6 DEF DidFailToLoadAd, b
  <2>2. CASE a = b
    <3>1. w \in Told(a)
      BY <1>0, <2>1, <2>2 DEF Told, Alive
    <3>2. retries'[w] = Append(retries[w], DelaySec(retryAttempt[w] + 1))
      BY <1>0, <1>6, <3>1 DEF DidFailToLoadAd, TriesAgain
    <3>3. DelaySec(retryAttempt[w] + 1) \in Delays
      BY <1>0, DelayIs
    <3>4. Len(retries'[w]) = Len(retries[w]) + 1 /\ Len(retries[w]) \in Nat
      BY <1>0, <3>2, <3>3, AddingOne, LenProperties
    <3>5. Len(<<>>) = 0
      BY EmptySeq
    <3> QED
      BY <3>4, <3>5
  <2>3. CASE a # b
    <3>1. b \in loading \/ content[b] # "none" => Fine1
      BY <1>6, <2>3 DEF DidFailToLoadAd
    <3>2. CASE retries[w] # <<>>
      <4>1. CASE w \in Told(a)
        <5>1. retries'[w] = Append(retries[w], DelaySec(retryAttempt[w] + 1))
          BY <1>0, <1>6, <4>1 DEF DidFailToLoadAd, TriesAgain
        <5>2. DelaySec(retryAttempt[w] + 1) \in Delays
          BY <1>0, DelayIs
        <5>3. Len(retries'[w]) = Len(retries[w]) + 1 /\ Len(retries[w]) \in Nat
          BY <1>0, <5>1, <5>2, AddingOne, LenProperties
        <5>4. Len(<<>>) = 0
          BY EmptySeq
        <5> QED
          BY <5>3, <5>4
      <4>2. CASE w \notin Told(a)
        BY <1>0, <1>6, <3>2, <4>2 DEF DidFailToLoadAd
      <4> QED
        BY <4>1, <4>2
    <3> QED
      BY <1>1, <2>1, <3>1, <3>2
  <2> QED
    BY <2>2, <2>3
<1>7. ASSUME NEW a \in Ads, DidDisplayAd(a) PROVE Fine1
  BY <1>1, <1>7 DEF DidDisplayAd, ALVars, wrapperVars, b
<1>8. ASSUME NEW a \in Ads, DidHideAd(a) \/ DidFailToDisplayAd(a) PROVE Fine1
  <2>1. w \in kept /\ delegate[b] = w /\ retries' = retries /\ LoadNext(a)
    BY <1>8 DEF DidHideAd, DidFailToDisplayAd, wrapperVars, b
  <2>2. CASE a = b
    <3>1. w \in Told(a)
      BY <1>0, <2>1, <2>2 DEF Told, Alive
    <3> QED
      BY <2>1, <2>2, <3>1, LoadNextIs
  <2>3. CASE a # b
    <3>1. loading \subseteq loading'
      BY <2>1, LoadNextIs
    <3> QED
      BY <1>0, <1>1, <1>8, <2>1, <2>3, <3>1 DEF DidHideAd, DidFailToDisplayAd
  <2> QED
    BY <2>2, <2>3
<1> QED
  BY <1>2, <1>3, <1>4, <1>5, <1>6, <1>7, <1>8 DEF ALNext, b

\* The ad of a wrapper that is kept, and that is still told about it, is never
\* forgotten: it is being loaded, there, on screen, or a retry waits for it.
THEOREM KeptAdsAreNotForgotten == Spec => []KeptAdsRecover
<1>1. Init => KeptAdsRecover
  BY DEF Init, ALInit, KeptAdsRecover
<1>2. ASSUME TypeOK, KeptAdsRecover, [Next]_vars PROVE KeptAdsRecover'
  <2>1. CASE ALNext
    BY <1>2, <2>1, RecoverSteps DEF TypeOK
  <2>2. CASE UNCHANGED ALVars
    BY <1>2, <2>2 DEF ALVars, wrapperVars, KeptAdsRecover
  <2> QED
    BY <1>2, <2>1, <2>2 DEF Next, vars
<1> QED
  BY <1>1, <1>2, AdTypes, PTL DEF Spec

-----------------------------------------------------------------------------
(***************************************************************************)
(* One thing at a time.                                                    *)
(***************************************************************************)

\* A wrapper that is alone with its ad, before and after a step that makes none.
LEMMA AloneIs == ASSUME made' = made, NEW w PROVE Alone(w)' = Alone(w)
  BY DEF Alone

\* A wrapper is made: if it is alone, its ad was never loaded before, and if it
\* is not, neither is any other wrapper of the ad.
LEMMA LoadKeepsAlone ==
    ASSUME ALTypeOK, AloneInv, NEW v \in Wrappers, NEW n, NEW keep, Load(v, n, keep)
    PROVE  AloneInv'
<1> DEFINE a == AdOf[v]
<1>1. a \in Ads /\ v \in made' /\ made' = made \cup {v} /\ v \notin made /\ v # Nobody
  BY ALAdAssumption DEF Load
<1>2. /\ retries' = retries /\ content' = content
      /\ loading' \in {loading, loading \cup {a}}
      /\ delegate' = [delegate EXCEPT ![a] = v]
  BY DEF Load, LoadAd
<1>3. retries[v] = <<>>
  BY <1>1 DEF AloneInv, NoRetryUnmade
<1>4. \A w \in made : w \in Wrappers /\ AdOf[w] \in Ads
  BY ALAdAssumption DEF ALTypeOK
<1>5. \A w \in made : Alone(w)' => Alone(w) /\ AdOf[w] # a
  BY <1>1 DEF Alone
<1>6. Alone(v)' => content[a] = "none"
  <2>1. Alone(v)' => \A w \in made : AdOf[w] # a
    BY <1>1 DEF Alone
  <2> QED
    BY <1>1, <2>1 DEF AloneInv, NoLoadUnmade
<1> HIDE DEF a
<1>7. NoRetryUnmade'
  BY <1>1, <1>2 DEF AloneInv, NoRetryUnmade
<1>8. NoLoadUnmade'
  <2>1. ASSUME NEW b \in Ads, \A w \in made' : AdOf[w] # b
        PROVE  b \notin loading' /\ content'[b] = "none"
    <3>1. b # a /\ \A w \in made : AdOf[w] # b
      BY <1>1, <2>1 DEF a
    <3> QED
      BY <1>2, <3>1 DEF AloneInv, NoLoadUnmade
  <2> QED
    BY <2>1 DEF NoLoadUnmade
<1>9. OwnDelegate'
  <2>1. ASSUME NEW b \in Ads, delegate'[b] # Nobody
        PROVE  delegate'[b] \in made' /\ AdOf[delegate'[b]] = b
    BY <1>1, <1>2, <2>1 DEF ALTypeOK, AloneInv, OwnDelegate, a
  <2> QED
    BY <2>1 DEF OwnDelegate
<1>10. AloneLoadsNew' /\ AloneTriesOnce'
  <2> SUFFICES ASSUME NEW w \in made', Alone(w)'
               PROVE  /\ AdOf[w] \in loading' => content'[AdOf[w]] = "none"
                      /\ retries'[w] # <<>> => /\ Len(retries'[w]) = 1
                                              /\ AdOf[w] \notin loading'
                                              /\ content'[AdOf[w]] = "none"
    BY DEF AloneLoadsNew, AloneTriesOnce
  <2>1. CASE w = v
    BY <1>2, <1>3, <1>6, <2>1 DEF a
  <2>2. CASE w \in made
    <3>1. Alone(w) /\ (AdOf[w] \in loading' <=> AdOf[w] \in loading)
      BY <1>2, <1>5, <2>2
    <3> QED
      BY <1>2, <2>2, <3>1 DEF AloneInv, AloneLoadsNew, AloneTriesOnce
  <2> QED
    BY <1>1, <2>1, <2>2
<1> QED
  BY <1>7, <1>8, <1>9, <1>10 DEF AloneInv

\* A retry runs: it was the only one, and nothing else was tried.
LEMMA RetryKeepsAlone ==
    ASSUME ALTypeOK, AloneInv, NEW v \in Wrappers, NEW i \in DOMAIN retries[v], Retry(v, i)
    PROVE  AloneInv'
<1>1. /\ made' = made /\ content' = content /\ delegate' = delegate
      /\ loading' \in {loading, loading \cup {AdOf[v]}}
      /\ retries' = [retries EXCEPT ![v] = RemoveAt(@, i)]
  BY DEF Retry, LoadAd
<1>2. retries[v] # <<>> /\ retries[v] \in Seq(Delays)
  BY EmptySeq DEF ALTypeOK
<1>3. v \in made
  BY <1>2 DEF AloneInv, NoRetryUnmade
<1>4. retries'[v] = RemoveAt(retries[v], i) /\ \A w \in Wrappers : w # v => retries'[w] = retries[w]
  BY <1>1 DEF ALTypeOK
<1>5. NoRetryUnmade'
  BY <1>1, <1>3, <1>4 DEF AloneInv, NoRetryUnmade
<1>6. NoLoadUnmade' /\ OwnDelegate'
  BY <1>1, <1>3 DEF AloneInv, NoLoadUnmade, OwnDelegate
<1>7. AloneLoadsNew' /\ AloneTriesOnce'
  <2> SUFFICES ASSUME NEW w \in made, Alone(w)
               PROVE  /\ AdOf[w] \in loading' => content[AdOf[w]] = "none"
                      /\ retries'[w] # <<>> => /\ Len(retries'[w]) = 1
                                              /\ AdOf[w] \notin loading'
                                              /\ content[AdOf[w]] = "none"
    BY <1>1 DEF AloneLoadsNew, AloneTriesOnce, Alone
  <2>1. CASE w = v
    <3>1. Len(retries[v]) = 1 /\ content[AdOf[v]] = "none"
      BY <1>2, <1>3, <2>1 DEF AloneInv, AloneTriesOnce
    <3>2. retries'[v] \in Seq(Delays) /\ Len(retries'[v]) = 0
      BY <1>2, <1>4, <3>1, RemovingOne
    <3>3. retries'[v] = <<>>
      BY <3>2, EmptySeq
    <3> QED
      BY <2>1, <3>1, <3>3
  <2>2. CASE w # v
    <3>1. AdOf[w] # AdOf[v]
      BY <1>3, <2>2 DEF Alone
    <3>2. retries'[w] = retries[w] /\ (AdOf[w] \in loading' <=> AdOf[w] \in loading)
      BY <1>1, <1>4, <2>2, <3>1 DEF ALTypeOK
    <3> QED
      BY <3>2 DEF AloneInv, AloneLoadsNew, AloneTriesOnce
  <2> QED
    BY <2>1, <2>2
<1> QED
  BY <1>5, <1>6, <1>7 DEF AloneInv

\* An ad is asked to show itself, which no retry of its wrapper waits for.
LEMMA PresentKeepsAlone ==
    ASSUME ALTypeOK, AloneInv, NEW v \in Wrappers, Present(v) PROVE AloneInv'
<1>1. /\ made' = made /\ delegate' = delegate /\ loading' = loading /\ retries' = retries
      /\ v \in made /\ content[AdOf[v]] = "ready"
      /\ content' = [content EXCEPT ![AdOf[v]] = "showing"]
  BY DEF Present, wrapperVars, ALTypeOK
<1>2. \A b \in Ads : content[b] = "none" => content'[b] = "none"
  BY <1>1 DEF ALTypeOK
<1>3. \A w \in made : AdOf[w] \in Ads
  BY ALAdAssumption DEF ALTypeOK
<1>4. NoRetryUnmade' /\ NoLoadUnmade' /\ OwnDelegate'
  BY <1>1, <1>2 DEF AloneInv, NoRetryUnmade, NoLoadUnmade, OwnDelegate
<1>5. AloneLoadsNew' /\ AloneTriesOnce'
  BY <1>1, <1>2, <1>3 DEF AloneInv, AloneLoadsNew, AloneTriesOnce, Alone
<1> QED
  BY <1>4, <1>5 DEF AloneInv

\* An ad is there: it was loading, and no retry of its wrapper waited.
LEMMA DidLoadKeepsAlone ==
    ASSUME ALTypeOK, AloneInv, NEW a \in Ads, DidLoadAd(a) PROVE AloneInv'
<1>1. /\ made' = made /\ delegate' = delegate /\ retries' = retries
      /\ a \in loading /\ loading' = loading \ {a}
      /\ content' = [content EXCEPT ![a] = "ready"]
  BY DEF DidLoadAd
<1>2. \A b \in Ads : b # a => content'[b] = content[b] /\ (b \in loading' <=> b \in loading)
  BY <1>1 DEF ALTypeOK
<1>3. \A w \in made : AdOf[w] \in Ads
  BY ALAdAssumption DEF ALTypeOK
<1>4. NoRetryUnmade' /\ OwnDelegate'
  BY <1>1 DEF AloneInv, NoRetryUnmade, OwnDelegate
<1>5. NoLoadUnmade'
  BY <1>1, <1>2 DEF AloneInv, NoLoadUnmade
<1>6. AloneLoadsNew' /\ AloneTriesOnce'
  BY <1>1, <1>2, <1>3 DEF AloneInv, AloneLoadsNew, AloneTriesOnce, Alone
<1> QED
  BY <1>4, <1>5, <1>6 DEF AloneInv

\* A load has failed: no retry of its wrapper waited, and now one does.
LEMMA DidFailKeepsAlone ==
    ASSUME ALTypeOK, AloneInv, NEW a \in Ads, DidFailToLoadAd(a) PROVE AloneInv'
<1>1. /\ made' = made /\ delegate' = delegate /\ content' = content
      /\ a \in loading /\ loading' = loading \ {a}
  BY DEF DidFailToLoadAd
<1>2. ASSUME NEW w \in Told(a)
      PROVE  /\ w \in made /\ AdOf[w] = a
             /\ Len(retries'[w]) = Len(retries[w]) + 1
  <2>1. w \in Wrappers /\ w = delegate[a] /\ w # Nobody
    BY ToldIs
  <2>2. retries'[w] = Append(retries[w], DelaySec(retryAttempt[w] + 1))
    BY <2>1 DEF DidFailToLoadAd, TriesAgain
  <2>3. DelaySec(retryAttempt[w] + 1) \in Delays
    BY <2>1, DelayIs DEF ALTypeOK
  <2> QED
    BY <2>1, <2>2, <2>3, AddingOne DEF ALTypeOK, AloneInv, OwnDelegate
<1>3. \A w \in Wrappers \ Told(a) : retries'[w] = retries[w]
  BY DEF DidFailToLoadAd, ALTypeOK
<1>4. NoRetryUnmade'
  BY <1>1, <1>2, <1>3 DEF AloneInv, NoRetryUnmade
<1>5. NoLoadUnmade' /\ OwnDelegate' /\ AloneLoadsNew'
  BY <1>1 DEF AloneInv, NoLoadUnmade, OwnDelegate, AloneLoadsNew, Alone
<1>6. AloneTriesOnce'
  <2> SUFFICES ASSUME NEW w \in made, Alone(w), retries'[w] # <<>>
               PROVE  /\ Len(retries'[w]) = 1
                      /\ AdOf[w] \notin loading' /\ content[AdOf[w]] = "none"
    BY <1>1 DEF AloneTriesOnce, Alone
  <2>1. w \in Wrappers
    BY DEF ALTypeOK
  <2>2. CASE w \in Told(a)
    <3>1. AdOf[w] = a /\ content[a] = "none"
      BY <1>1, <1>2, <2>2 DEF AloneInv, AloneLoadsNew
    <3>2. retries[w] = <<>>
      BY <1>1, <3>1 DEF AloneInv, AloneTriesOnce
    <3>3. Len(retries[w]) = 0
      BY <3>2
    <3>4. Len(retries'[w]) = Len(retries[w]) + 1
      BY <1>2, <2>2
    <3>5. Len(retries'[w]) = 1
      BY <3>3, <3>4
    <3> QED
      BY <1>1, <3>1, <3>5
  <2>3. CASE w \notin Told(a)
    BY <1>1, <1>3, <2>1, <2>3 DEF AloneInv, AloneTriesOnce
  <2> QED
    BY <2>2, <2>3
<1> QED
  BY <1>4, <1>5, <1>6 DEF AloneInv

\* An ad has left the screen, or could not be shown, and the next may be loading:
\* no retry of its wrapper waits.
LEMMA NextKeepsAlone ==
    ASSUME ALTypeOK, AloneInv, NEW a \in Ads, DidHideAd(a) \/ DidFailToDisplayAd(a)
    PROVE  AloneInv'
<1>1. /\ made' = made /\ delegate' = delegate /\ retries' = retries
      /\ content[a] = "showing" /\ content' = [content EXCEPT ![a] = "none"]
      /\ LoadNext(a)
  BY DEF DidHideAd, DidFailToDisplayAd, wrapperVars
<1>2. loading' \in {loading, loading \cup {a}}
  BY <1>1, LoadNextIs DEF ALTypeOK
<1>3. /\ content'[a] = "none"
      /\ \A b \in Ads : b # a => content'[b] = content[b] /\ (b \in loading' <=> b \in loading)
  BY <1>1, <1>2 DEF ALTypeOK
<1>4. \A w \in made : AdOf[w] \in Ads
  BY ALAdAssumption DEF ALTypeOK
<1>5. NoRetryUnmade' /\ OwnDelegate'
  BY <1>1 DEF AloneInv, NoRetryUnmade, OwnDelegate
<1>6. NoLoadUnmade'
  BY <1>1, <1>3 DEF AloneInv, NoLoadUnmade
<1>7. AloneLoadsNew' /\ AloneTriesOnce'
  BY <1>1, <1>3, <1>4 DEF AloneInv, AloneLoadsNew, AloneTriesOnce, Alone
<1> QED
  BY <1>5, <1>6, <1>7 DEF AloneInv

\* Every step keeps the invariant.
LEMMA StepsKeepAlone == ASSUME TypeOK, AloneInv, [Next]_vars PROVE AloneInv'
<1>0. ALTypeOK
  BY DEF TypeOK
<1>1. CASE UNCHANGED <<made, delegate, retries, loading, content>>
  BY <1>1 DEF AloneInv, NoRetryUnmade, NoLoadUnmade, OwnDelegate, AloneLoadsNew,
              AloneTriesOnce, Alone
<1>2. CASE ALNext
  <2>1. ASSUME NEW w \in Wrappers, NEW n \in FirstAttempts, NEW keep \in BOOLEAN,
               Load(w, n, keep)
        PROVE  AloneInv'
    BY <1>0, <2>1, LoadKeepsAlone
  <2>2. ASSUME NEW w \in Wrappers, Release(w) PROVE AloneInv'
    BY <1>1, <2>2 DEF Release
  <2>3. ASSUME NEW w \in Wrappers, Present(w) PROVE AloneInv'
    BY <1>0, <2>3, PresentKeepsAlone
  <2>4. ASSUME NEW w \in Wrappers, NEW i \in DOMAIN retries[w], Retry(w, i) PROVE AloneInv'
    BY <1>0, <2>4, RetryKeepsAlone
  <2>5. ASSUME NEW a \in Ads, DidLoadAd(a) PROVE AloneInv'
    BY <1>0, <2>5, DidLoadKeepsAlone
  <2>6. ASSUME NEW a \in Ads, DidFailToLoadAd(a) PROVE AloneInv'
    BY <1>0, <2>6, DidFailKeepsAlone
  <2>7. ASSUME NEW a \in Ads, DidDisplayAd(a) PROVE AloneInv'
    BY <1>1, <2>7 DEF DidDisplayAd, ALVars, wrapperVars
  <2>8. ASSUME NEW a \in Ads, DidHideAd(a) \/ DidFailToDisplayAd(a) PROVE AloneInv'
    BY <1>0, <2>8, NextKeepsAlone
  <2> QED
    BY <1>2, <2>1, <2>2, <2>3, <2>4, <2>5, <2>6, <2>7, <2>8 DEF ALNext
<1>3. CASE UNCHANGED ALVars
  BY <1>1, <1>3 DEF ALVars, wrapperVars
<1> QED
  BY <1>2, <1>3 DEF Next, vars

\* No wrapper is made at the start.
LEMMA StartsAlone == Init => AloneInv
  BY DEF Init, ALInit, AloneInv, NoRetryUnmade, NoLoadUnmade, OwnDelegate, AloneLoadsNew,
         AloneTriesOnce

\* A wrapper that shares its ad with no other tries one thing at a time: no
\* retry waits while its ad is loading, loaded or shown, and never two wait.
THEOREM OneRetryAtATime == Spec => []AloneTriesOnce
<1>1. TypeOK /\ AloneInv /\ [Next]_vars => AloneInv'
  BY StepsKeepAlone
<1>2. AloneInv => AloneTriesOnce
  BY DEF AloneInv
<1> QED
  BY StartsAlone, <1>1, <1>2, AdTypes, PTL DEF Spec
=============================================================================
