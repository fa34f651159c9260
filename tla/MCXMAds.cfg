\* Two wrappers of a shared rewarded ad (the first is, until the second is made,
\* what an interstitial wrapper always is: alone), loaded twice by AdMob too.
CONSTANTS
    first = first
    second = second
    rewarded = rewarded
    interstitials = interstitials
    Nobody = Nobody
    Wrappers = {first, second}
    Ads = {rewarded}
    AdOf <- MCAdOf
    FirstAttempts <- MCFirstAttempts
    MaxDoublings = 2
    Units = {interstitials}
    MaxLoads = 2
\* The last ads may be gone, with no load left under the bound.
CHECK_DEADLOCK FALSE
SPECIFICATION Spec
INVARIANTS
    TypeOK
    KeptAdsRecover
    AloneTriesOnce
PROPERTIES
    LatestLoadIsPresented
    KeptAdsBecomeReady
