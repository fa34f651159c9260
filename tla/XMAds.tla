-------------------------------- MODULE XMAds --------------------------------
(***************************************************************************)
(* The ads of AppLovin and of AdMob in one application, on one screen.     *)
(***************************************************************************)
EXTENDS XMALAd, XMAdmobAd

vars == <<ALVars, AdmobVars, screen>>

Init == ALInit /\ AdmobInit /\ ScreenInit

Next ==
    \/ ALNext /\ UNCHANGED AdmobVars
    \/ AdmobNext /\ UNCHANGED ALVars

\* Delays pass, what is asked of the screen is answered and ends; a load that
\* is tried again and again is answered with an ad at last.
Fairness ==
    /\ \A w \in Wrappers :
          WF_vars(\E i \in DOMAIN retries[w] : Retry(w, i) /\ UNCHANGED AdmobVars)
    /\ \A a \in Ads :
          /\ SF_vars(DidLoadAd(a) /\ UNCHANGED AdmobVars)
          /\ WF_vars((DidDisplayAd(a) \/ DidFailToDisplayAd(a)) /\ UNCHANGED AdmobVars)
          /\ WF_vars(DidHideAd(a) /\ UNCHANGED AdmobVars)
    /\ \A n \in Loads :
          /\ WF_vars((WillPresent(n) \/ DidFailToPresent(n)) /\ UNCHANGED ALVars)
          /\ WF_vars(DidDismiss(n) /\ UNCHANGED ALVars)

Spec == Init /\ [][Next]_vars /\ Fairness

\* Both parts have the types of their code; what is on screen was asked for.
TypeOK ==
    /\ ALTypeOK /\ AdmobTypeOK
    /\ screen \in {Nobody} \cup {a \in Ads : content[a] = "showing"}
                          \cup {OnScreen(n) : n \in presenting}
=============================================================================
