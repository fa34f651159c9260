-------------------------------- MODULE XMALAd --------------------------------
(***************************************************************************)
(* XMALInterstitialAd and XMALRewardedAd wrap a full-screen ad of AppLovin *)
(* and keep it loaded: a load that fails is tried again after a delay that *)
(* doubles, and an ad that was shown, or could not be, is followed by the  *)
(* next.  An interstitial wrapper makes an ad of its own; the rewarded     *)
(* wrappers of an ad unit share one, whose weak delegate is the latest of  *)
(* them.  A wrapper lives while the host keeps it or a retry waits for it: *)
(* those XMAppLoving makes are kept by nobody, for its dictionaries are    *)
(* never allocated.                                                        *)
(***************************************************************************)
EXTENDS AdScreen, Integers, Sequences, SequencesExt

CONSTANTS Wrappers, Ads,
          AdOf,             \* the ad of each wrapper
          FirstAttempts,    \* the retryAttempt a host may start with
          MaxDoublings      \* 6

ASSUME ALAdAssumption ==
    /\ AdOf \in [Wrappers -> Ads]
    /\ FirstAttempts \subseteq Int /\ \A n \in FirstAttempts : n <= MaxDoublings
    /\ MaxDoublings \in Nat
    /\ Nobody \notin Wrappers \cup Ads

VARIABLES
    made,           \* the wrappers that were made
    kept,           \* those the host keeps
    retryAttempt,
    retries,        \* the delays of the retries each wrapper has dispatched
    delegate        \* of each ad: the wrapper that set itself last

\* The ads (external).
VARIABLES
    loading,        \* the ads whose load will be answered
    content         \* what each ad has: "none", "ready" or, once it is shown, "showing"

wrapperVars == <<made, kept, retryAttempt, retries, delegate>>
ALVars == <<wrapperVars, loading, content>>

ALInit ==
    /\ made = {} /\ kept = {}
    /\ retryAttempt = [w \in Wrappers |-> 0]
    /\ retries = [w \in Wrappers |-> <<>>]
    /\ delegate = [a \in Ads |-> Nobody]
    /\ loading = {}
    /\ content = [a \in Ads |-> "none"]

Alive(w) == w \in kept \/ retries[w] # <<>>

\* Whom the ad tells: the delegate, unless it is gone.
Told(a) == {w \in Wrappers : w = delegate[a] /\ Alive(w)}

\* Counting goes no further than the delay grows.
Counted(n) == IF n > MaxDoublings THEN MaxDoublings ELSE n

\* Mutant: the delay doubles without end.
DelaySec_Endless(n) == IF n < 0 THEN 0 ELSE 2 ^ n

\* pow(2, MIN(6, retryAttempt)), whose fraction is dropped.
DelaySec(n) == IF n < 0 THEN 0 ELSE 2 ^ Counted(n)

\* loadAd (external), of an ad with that content: one that is loading already
\* goes on, and one that is showing may not take notice.
LoadAd(a, has) ==
    \/ loading' = loading \cup {a}
    \/ /\ has = "showing"
       /\ UNCHANGED loading

-----------------------------------------------------------------------------
\* loadInsterstitialWithAdUnitID:retryAttemp: or loadRewardedAdWithAdUnitID:...
\* of a wrapper.  The host keeps what it made, and XMAppLoving does not.
Load(w, first, keep) ==
    /\ w \notin made
    /\ made' = made \cup {w}
    /\ kept' = IF keep THEN kept \cup {w} ELSE kept
    /\ retryAttempt' = [retryAttempt EXCEPT ![w] = first]
    /\ delegate' = [delegate EXCEPT ![AdOf[w]] = w]
    /\ LoadAd(AdOf[w], content[AdOf[w]])
    /\ UNCHANGED <<retries, content, screen>>

\* The host lets a wrapper go.
Release(w) ==
    /\ w \in kept
    /\ kept' = kept \ {w}
    /\ UNCHANGED <<made, retryAttempt, retries, delegate, loading, content, screen>>

\* present: the ad is asked to show itself if it is ready.
Present(w) ==
    /\ w \in kept
    /\ content[AdOf[w]] = "ready"
    /\ content' = [content EXCEPT ![AdOf[w]] = "showing"]
    /\ UNCHANGED <<wrapperVars, loading, screen>>

\* A dispatched retry runs.
Retry(w, i) ==
    /\ i \in DOMAIN retries[w]
    /\ retries' = [retries EXCEPT ![w] = RemoveAt(@, i)]
    /\ LoadAd(AdOf[w], content[AdOf[w]])
    /\ UNCHANGED <<made, kept, retryAttempt, delegate, content, screen>>

-----------------------------------------------------------------------------
\* didLoadAd:
DidLoadAd(a) ==
    /\ a \in loading
    /\ content[a] # "showing"
    /\ loading' = loading \ {a}
    /\ content' = [content EXCEPT ![a] = "ready"]
    /\ retryAttempt' = [w \in Wrappers |-> IF w \in Told(a) THEN 0 ELSE retryAttempt[w]]
    /\ UNCHANGED <<made, kept, retries, delegate, screen>>

\* Mutant: the wrapper gives up after the longest delay.
TriesAgain_Limited(w) == retryAttempt[w] < MaxDoublings

\* Every failure is followed by a retry.
TriesAgain(w) == TRUE

\* didFailToLoadAdForAdUnitIdentifier:withError:
DidFailToLoadAd(a) ==
    /\ a \in loading
    /\ content[a] # "ready"
    /\ loading' = loading \ {a}
    /\ retryAttempt' = [w \in Wrappers |->
                          IF w \in Told(a) THEN Counted(retryAttempt[w] + 1) ELSE retryAttempt[w]]
    /\ retries' = [w \in Wrappers |->
                     IF w \in Told(a) /\ TriesAgain(w)
                     THEN Append(retries[w], DelaySec(retryAttempt[w] + 1)) ELSE retries[w]]
    /\ UNCHANGED <<made, kept, delegate, content, screen>>

\* didDisplayAd:
DidDisplayAd(a) ==
    /\ content[a] = "showing"
    /\ Takes(a)
    /\ UNCHANGED ALVars

\* Mutant: the next ad is not loaded.
LoadNext_Never(a) == UNCHANGED loading

\* The delegate loads the next ad.
LoadNext(a) == IF Told(a) # {} THEN LoadAd(a, "none") ELSE UNCHANGED loading

\* didHideAd:
DidHideAd(a) ==
    /\ content[a] = "showing"
    /\ Leaves(a)
    /\ content' = [content EXCEPT ![a] = "none"]
    /\ LoadNext(a)
    /\ UNCHANGED wrapperVars

\* Mutant: an ad that cannot be shown is treated as a failed load too.
DidFailToDisplayAd_Retrying(a) ==
    /\ content[a] = "showing" /\ screen # a
    /\ content' = [content EXCEPT ![a] = "none"]
    /\ LoadNext(a)
    /\ retries' = [w \in Wrappers |->
                     IF w \in Told(a) THEN Append(retries[w], DelaySec(0)) ELSE retries[w]]
    /\ UNCHANGED <<made, kept, retryAttempt, delegate, screen>>

\* didFailToDisplayAd:withError:, the screen being taken or not.
DidFailToDisplayAd(a) ==
    /\ content[a] = "showing" /\ screen # a
    /\ content' = [content EXCEPT ![a] = "none"]
    /\ LoadNext(a)
    /\ UNCHANGED <<wrapperVars, screen>>

-----------------------------------------------------------------------------
ALNext ==
    \/ \E w \in Wrappers :
          \/ \E first \in FirstAttempts, keep \in BOOLEAN : Load(w, first, keep)
          \/ Release(w)
          \/ Present(w)
          \/ \E i \in DOMAIN retries[w] : Retry(w, i)
    \/ \E a \in Ads :
          \/ DidLoadAd(a)
          \/ DidFailToLoadAd(a)
          \/ DidDisplayAd(a)
          \/ DidHideAd(a)
          \/ DidFailToDisplayAd(a)

-----------------------------------------------------------------------------
\* The delays the comment of the code promises: doubling up to 64 seconds; none
\* at all while a host that started below zero still counts up to it.
Delays == {0} \cup {2 ^ n : n \in 0..MaxDoublings}

\* The variables have the types the code gives them, the delays among them.
ALTypeOK ==
    /\ made \subseteq Wrappers /\ kept \subseteq made
    /\ retryAttempt \in [Wrappers -> {n \in Int : n <= MaxDoublings}]
    /\ retries \in [Wrappers -> Seq(Delays)]
    /\ delegate \in [Ads -> Wrappers \cup {Nobody}]
    /\ loading \subseteq Ads
    /\ content \in [Ads -> {"none", "ready", "showing"}]

\* The ad of a wrapper that is kept, and that is still told about it, is never
\* forgotten: it is being loaded, there, on screen, or a retry waits for it.
KeptAdsRecover ==
    \A w \in kept :
        LET a == AdOf[w]
        IN  delegate[a] = w => a \in loading \/ content[a] # "none" \/ retries[w] # <<>>

Alone(w) == \A v \in made : AdOf[v] = AdOf[w] => v = w

\* A wrapper that shares its ad with no other tries one thing at a time: no
\* retry waits while its ad is loading, loaded or shown, and never two wait.
AloneTriesOnce ==
    \A w \in made :
        LET a == AdOf[w]
        IN  Alone(w) /\ retries[w] # <<>> =>
                Len(retries[w]) = 1 /\ a \notin loading /\ content[a] = "none"

\* A wrapper that is kept, and told about its ad, from some time on has an ad
\* to present again and again, however often loading and displaying it fail.
KeptAdsBecomeReady ==
    \A w \in Wrappers :
        <>[](w \in kept /\ delegate[AdOf[w]] = w) => []<>(content[AdOf[w]] = "ready")
=============================================================================
