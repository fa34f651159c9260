------------------------------ MODULE XMSDKStart -----------------------------
(***************************************************************************)
(* The start of the SDK.  startWithConfig: keeps the configuration and     *)
(* registers XMSDKIOS for the notifications of the application, after      *)
(* removing it from all of them but UIApplicationDidFinishLaunching; that  *)
(* notification, posted once in a launch, sets up the device identifier,   *)
(* Firebase and the ads.  The observers of the others call methods of      *)
(* UIApplicationDelegate that XMSDKIOS does not have.                      *)
(***************************************************************************)
EXTENDS Naturals

CONSTANT MaxStarts      \* bound on the calls of startWithConfig:

VARIABLES
    config,         \* the call whose configuration is kept, or 0
    launchObservers,    \* registrations for UIApplicationDidFinishLaunching
    otherObservers,     \* registrations for each of the other five
    launched,       \* has UIApplicationDidFinishLaunching been posted?
    deviceID,       \* is the identifier in NSUserDefaults?
    configures,     \* calls of [FIRApp configure] in this process
    unrecognised    \* was a selector sent that XMSDKIOS does not have?

vars == <<config, launchObservers, otherObservers, launched, deviceID, configures,
          unrecognised>>

Init ==
    /\ config = 0
    /\ launchObservers = 0 /\ otherObservers = 0
    /\ launched = FALSE
    /\ deviceID \in BOOLEAN
    /\ configures = 0
    /\ unrecognised = FALSE

\* An exception ends the application.
Runs == configures < 2 /\ ~ unrecognised

\* beginMonitorgNotification, which calls endMonitorgNotification first.
BeginMonitorgNotification ==
    /\ launchObservers' = launchObservers + 1
    /\ otherObservers' = 1

\* startWithConfig:
StartWithConfig ==
    /\ Runs
    /\ config < MaxStarts
    /\ config' = config + 1
    /\ BeginMonitorgNotification
    /\ UNCHANGED <<launched, deviceID, configures, unrecognised>>

\* UIKit posts UIApplicationDidFinishLaunchingNotification: each registration
\* runs application:didFinishLaunchingWithOptions:.
DidFinishLaunching ==
    /\ Runs
    /\ ~ launched
    /\ launched' = TRUE
    /\ deviceID' = (deviceID \/ launchObservers > 0)
    /\ configures' = configures + launchObservers
    /\ UNCHANGED <<config, launchObservers, otherObservers, unrecognised>>

\* UIKit posts one of the other notifications.
OtherNotification ==
    /\ Runs
    /\ launched
    /\ unrecognised' = (otherObservers > 0)
    /\ UNCHANGED <<config, launchObservers, otherObservers, launched, deviceID, configures>>

Next == StartWithConfig \/ DidFinishLaunching \/ OtherNotification

Spec == Init /\ [][Next]_vars

-----------------------------------------------------------------------------
\* FIRApp.m:213: the default app is configured once, and an exception says
\* "Default app has already been configured." otherwise.
FirebaseIsConfiguredOnce == configures <= 1
=============================================================================
