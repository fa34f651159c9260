------------------------------- MODULE AdScreen ------------------------------
(***************************************************************************)
(* The screen, on which one full-screen ad is shown at a time, whichever   *)
(* of the two ad SDKs it comes from (external).                            *)
(***************************************************************************)
CONSTANT Nobody

VARIABLE screen     \* the ad that is on screen, or Nobody

ScreenInit == screen = Nobody

\* An ad takes the screen if it is free, and leaves it.
Takes(ad) == screen = Nobody /\ screen' = ad
Leaves(ad) == screen = ad /\ screen' = Nobody
=============================================================================
