------------------------------- MODULE MCXMAds -------------------------------
(***************************************************************************)
(* XMAds with two wrappers of one rewarded ad and an ad unit of AdMob.     *)
(***************************************************************************)
EXTENDS XMAds

CONSTANTS first, second, rewarded, interstitials

MCAdOf == [w \in {first, second} |-> rewarded]
MCFirstAttempts == {-2, 0}
=============================================================================
