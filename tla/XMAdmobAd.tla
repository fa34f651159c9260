------------------------------ MODULE XMAdmobAd ------------------------------
(***************************************************************************)
(* XMAdmob keeps, for each ad unit, the wrapper of the latest load; the    *)
(* wrapper (XMAdmobInterstitialAd, XMAdmobRewardedAd) holds the ad once it *)
(* is loaded.  Loads are answered in any order, or fail; an ad is shown    *)
(* once, and nothing is loaded again by itself.                            *)
(*                                                                         *)
(* The wrapper and the ad of the n-th load are named n.                    *)
(***************************************************************************)
EXTENDS AdScreen, Naturals

CONSTANTS Units, MaxLoads   \* MaxLoads bounds the loads of all units

ASSUME AdmobAssumption == MaxLoads \in Nat

Loads == 1..MaxLoads
nil == 0

VARIABLES
    loads,          \* how many there were
    ads,            \* interstitials, rewardedAds: unit -> wrapper
    pending,        \* the loads that are not answered
    ad,             \* the ad each wrapper holds
    shown,          \* the ads that were asked to present themselves
    presenting      \* those of them that are neither dismissed nor refused

AdmobVars == <<loads, ads, pending, ad, shown, presenting>>

\* An ad of AdMob on the screen it shares with those of AppLovin.
OnScreen(n) == <<"AdMob", n>>

AdmobInit ==
    /\ loads = 0
    /\ ads = [u \in Units |-> nil]
    /\ pending = {}
    /\ ad = [n \in Loads |-> nil]
    /\ shown = {} /\ presenting = {}

\* loadInsterstitialWithAdUnitID:, loadRewardedAdWithAdUnitID:
LoadUnit(u) ==
    /\ loads < MaxLoads
    /\ loads' = loads + 1
    /\ ads' = [ads EXCEPT ![u] = loads']
    /\ pending' = pending \cup {loads'}
    /\ UNCHANGED <<ad, shown, presenting, screen>>

\* Mutant: the answer is stored through the dictionary, in the latest wrapper.
Loaded_Latest(n) ==
    /\ n \in pending
    /\ pending' = pending \ {n}
    /\ \E u \in Units : ads[u] # nil /\ ad' = [ad EXCEPT ![ads[u]] = n]
    /\ UNCHANGED <<loads, ads, shown, presenting, screen>>

\* The completion handler, with an ad for the wrapper it captured.
Loaded(n) ==
    /\ n \in pending
    /\ pending' = pending \ {n}
    /\ ad' = [ad EXCEPT ![n] = n]
    /\ UNCHANGED <<loads, ads, shown, presenting, screen>>

\* The completion handler, with an error.
FailedToLoad(n) ==
    /\ n \in pending
    /\ pending' = pending \ {n}
    /\ UNCHANGED <<loads, ads, ad, shown, presenting, screen>>

\* presentInsterstitialWithAdUnitID:, presentRewardedAdWithAdUnitID:.  An ad
\* that was shown before is refused at once.
PresentUnit(u) ==
    /\ ads[u] # nil /\ ad[ads[u]] # nil
    /\ ad[ads[u]] \notin shown
    /\ shown' = shown \cup {ad[ads[u]]}
    /\ presenting' = presenting \cup {ad[ads[u]]}
    /\ UNCHANGED <<loads, ads, pending, ad, screen>>

\* adWillPresentFullScreenContent:
WillPresent(n) ==
    /\ n \in presenting
    /\ Takes(OnScreen(n))
    /\ UNCHANGED AdmobVars

\* adDidDismissFullScreenContent:
DidDismiss(n) ==
    /\ n \in presenting
    /\ Leaves(OnScreen(n))
    /\ presenting' = presenting \ {n}
    /\ UNCHANGED <<loads, ads, pending, ad, shown>>

\* ad:didFailToPresentFullScreenContentWithError:
DidFailToPresent(n) ==
    /\ n \in presenting /\ screen # OnScreen(n)
    /\ presenting' = presenting \ {n}
    /\ UNCHANGED <<loads, ads, pending, ad, shown, screen>>

AdmobNext ==
    \/ \E u \in Units : LoadUnit(u) \/ PresentUnit(u)
    \/ \E n \in Loads :
          \/ Loaded(n)
          \/ FailedToLoad(n)
          \/ WillPresent(n)
          \/ DidDismiss(n)
          \/ DidFailToPresent(n)

-----------------------------------------------------------------------------
\* The variables have the types the code gives them.
AdmobTypeOK ==
    /\ loads \in 0..MaxLoads
    /\ ads \in [Units -> 0..loads]
    /\ pending \subseteq 1..loads
    /\ ad \in [Loads -> 0..loads]
    /\ shown \subseteq 1..loads /\ presenting \subseteq shown

\* The ad that is presented is the one the latest load of its unit brought,
\* though the answers to an earlier load may come later.
LatestLoadIsPresented ==
    [][\A n \in presenting' \ presenting : \E u \in Units : ads[u] = n]_AdmobVars
=============================================================================
