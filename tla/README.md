# A specification of XMSDK_ios

XMSDK_ios is an Objective-C library that gives an iOS app in-app purchases
verified by a business server, a login by device identifier, advertisements of
two vendors, playback of raw sound, recording, and speech to text. This
directory holds TLA+ models of its parts, TLC configurations that check small
instances of them, and proofs that hold for every instance.

The files under `src/XMSDK_ios/Classes` are the reference. Where a comment
beside the code says otherwise, the code was modelled; section 6 lists the
places, three of them as properties that a run shows to be violated.

## 1. Inventory

| Part | State it keeps | Operations | Talks to |
|---|---|---|---|
| `XMApplePay` | none | `startPurchaseWithID:` | lost-order helper, `UserManager`, `XMAppleIAP`, server |
| `XMAppleIAP` | current purchase, products block, success and failure blocks (one of each) | start a purchase, query products; StoreKit's answers, `updatedTransactions:`, `shouldAddStorePayment` | StoreKit, `UserManager`, helper, server |
| `XMAppleIAP_Lost_Transaction_Helper` | the list `iap_product` in `NSUserDefaults` | save, remove, hand out | nobody |
| `UserManager` | the user, once a login succeeded | `requestUserModelWithHandler:` | server |
| `TTNetworkRequest`, `TTHTTPAgent` | one session, one request serializer | login, verify, generic requests | AFNetworking |
| `PCMDataPlayer` | an audio queue, three buffers and their marks, a lock | `playWithData:`, `resetPlay`, the callback | AudioToolbox, on its own thread |
| `PCMFilePlayer` | an audio queue, buffers, a file, a lock | `player`, start, stop, pause, the callback | AudioToolbox, on its own thread |
| `PCMRecorder` | recorder, player, two timers, two clocks | start, end, play, ticks | AVFoundation |
| `XMSTTManager` and its actions and actuators | queue of actions, the current one, one actuator | `addAction:`, `stopAll`, task callbacks | Speech framework |
| `XMAppLoving`, `XMAL*Ad` | dictionaries of ads, a retry counter per ad | load, present, callbacks, delayed retry | AppLovin MAX |
| `XMAdmob`, `XMAdmob*Ad` | dictionaries of ads | load, present, callbacks | Google Mobile Ads |
| `XMSDKIOS`, `XMSDKIOSConfig` | configuration, notification observers, cached device id | start, facade methods | all of the above |
| `XMVideoPlayer` | none | one method | a library |

What is hard in them:

* **Purchases.** A purchase crosses four asynchronous answers (login, product
  lookup, payment, verification). One `XMAppleIAP` object serves all callers
  and routes every answer by its properties *as they are when the answer
  arrives*. The app may die anywhere. StoreKit hands an unfinished transaction
  over again, and the list of lost orders is submitted again at each purchase.
  Correct means: a payment is only added for a purchase that was asked for;
  a paid order is finished with StoreKit only once the blocks in place have kept
  it; a recorded order stays recorded until the server has answered for it, and
  gets its answer; an order is recorded twice only for a reason.
* **Streaming sound.** Callers of `playWithData:` compete for a lock and spin
  under it, while the audio queue's thread frees buffers, and `resetPlay` runs,
  without it. Correct means: no buffer in two hands, sound whole and in order,
  and calls that return.
* **Speech.** The callbacks of a recognition task do not name their action, and
  the next action only starts when a task ends. Correct means: text reaches
  the action it belongs to, one recording at a time, and the queue never stalls.
* **The file player.** The main thread fills the first buffers while the
  audio queue's thread already refills them, both through one lock; `player`
  called again replaces the lock, the file and the buffers in use. Correct
  means: no buffer in two hands, the file heard whole, in order, to its end.
* **The recorder.** Clocks of minutes and seconds, counted by timers that a
  second start replaces without stopping. Correct means: a clock shows the ticks
  of whatever counts it, none lost at a full minute, and a timer is only lost by
  being replaced. (A replaced timer still counts: the clock then runs fast.)
* **Ads.** A failed load is tried again up to 64 seconds later, while a display
  fails or ends and loads too; rewarded ads are shared; AdMob loads replace each
  other. Correct means: an ad is always on its way back, nothing is tried twice
  at once, and what is presented is the latest load.
* **HTTP.** Requests of several threads write their settings into one shared
  serializer, one by one. Correct means: a request is sent with its own settings
  or with those of one prepared at the same time, never with stale ones; only a
  parsed answer with a good status succeeds, as what its type says; each request
  comes to an end.
* **Start-up.** Observers of a repeated start. Correct means: the one-time setup
  of the libraries runs once.

The hazards, each at its line and with the properties that watch it, are listed
in `PROJECT.json`. Where the code does what a hazard fears, the property beside
it exempts that case and a note says so: it shows that nothing else goes wrong.

## 2. Modules

```
SavedOrders        XMProductsRequest        SKPaymentQueue (StoreKit)
       \             /          \             /
        \     IAPRouting         \           /
         \                        \         /
          +------------------- XMApplePay ------- implements ---> OrderLedger

AdScreen (the screen)              PCMDataPlayer ------ implements ---> SoundLine
   /          \
XMALAd     XMAdmobAd   PCMFilePlayer  PCMRecorder  XMSTTManager  TTHTTPAgent  XMSDKStart
   \          /
      XMAds
```

`MC*.tla` give the constants small values for TLC. `*_proofs.tla` hold the
theorems, one module per specification that is proved about.

### SavedOrders
The list of `XMAppleIAP_Lost_Transaction_Helper` as operators on a sequence:
`saveUid` appends and does not look for duplicates; `updateSavedProductInfo`
removes the first record of a transaction. The JSON text and the receipt are
left out. The record carries transaction, product and user.

### XMProductsRequest
The half of `XMAppleIAP` before the payment: one action for each outcome of
`startPurchaseWithID:`, `queryProductsWithIDs:` and
`productsRequest:didReceiveResponse:`. `products` is whether a products block is
set, `block` what the success and failure blocks close over (they are always set
together), `lookups` the `SKProductsRequest`s under way. `AnswerQueryAskingAgain`
is the callback that queries again from inside its block and loses the new block
to `self.products = nil`. `registrations` counts how often the object is
registered with the payment queue: once by `init` (`SharedInstance`), and once
more at each promoted purchase (`RegisterAgain`, `XMAppleIAP.m:229`).

### IAPRouting
`XMProductsRequest` with history variables that count purchases asked for,
query blocks lost, promoted purchases and payments added, across relaunches. A
promoted purchase adds two payments, or one if an observer registered more than
once is asked more than once about it.

### SKPaymentQueue
StoreKit's queue, which is not part of the repository, as the code relies on it:
transactions are settled outside the app, handed to the observer of each process
until finished, and survive the app. A renewal or a restored purchase is a
transaction with an original transaction.

An observer registered once is handed a transaction once per process. What one
registered again is handed StoreKit does not document, so the model leaves it
open: `pending` counts the hand-overs still to come, and after a second
registration a transaction settled later may be handed over once or once for
each registration, and one that is settled and not finished once more.

### XMApplePay
The composition. Variables and code:

| Variable | Code |
|---|---|
| `userModel` | `UserManager.userModel`; `Nil` is no model, `NoUid` a model whose uid is nil |
| `logins`, `renewing` | handlers waiting in `requestUserModelWithHandler:` for a purchase; how many for each renewal |
| `saved` | `NSUserDefaults["iap_product"]` |
| `inFlight` | verification requests under way, per transaction |
| `finishing` | the process is between the success block and `finishTransaction:` |
| `answered`, `accepted`, `handed`, `torn`, `repeated`, `relaunches` | history only; `torn` and `repeated` are the two causes of a second record: a crash between record and finish, and a hand-over for a second registration |

All callbacks run on the main thread, so each handler is one action with every
call it makes. There is one exception: the app may die between recording an
order and `finishTransaction:`, the last statement of the handler, so the end
of the transaction is the action `Finish`, and only `Relaunch`, the answers of
StoreKit's own side, and `Finish` itself are enabled there.

`block` is the *latest* caller's block when a transaction arrives, as in the
code. Hence `TakeOrder` records the product and the user of the latest
purchase, which need not be those of the transaction. Nothing in the repository
promises otherwise, so no property demands it. It is the main open design
question a reader of this model should raise.

### OrderLedger
The abstract promise. An order is unpaid, paid, in hand, recorded, settled,
handed to the host, or dropped; only a crash loses what is in hand, and a
recorded order can only become settled. It does not promise that what is paid is
recorded: an order may be dropped at any time, as the code does without blocks.
When it may be is the matter of `FinishedOrdersArePlaced` (what the blocks in
place must have done before a purchase is finished) and
`OnlyACrashLosesARenewal`. What was dropped or handed to the host may still be
recorded, if StoreKit hands it over again. `XMApplePay!LedgerKept` is the
refinement; `StatusOf` is the mapping.

### PCMDataPlayer
One program counter per calling thread, the marks `audioQueueBufferUsed`, the
contents of the buffers, and the audio queue with the buffers whose callbacks
are due. The marks are plain memory read by a spinning thread while another
thread writes them, so `Skip` may pass over a buffer that is free (a stale
read); it may never see a used buffer as free, since marks are only set under
the lock. `AudioQueueEnqueueBuffer` refuses an empty buffer and may refuse one
while a reset is under way; the code drops the status. A chunk is its place in
the order of the lock and whether it is empty. Chunks are taken to fit their
buffer, and creating the audio queue to succeed.

### SoundLine
The abstract promise of the streaming player: chunks are let in one at a time
and numbered, each is lined up where there is room or refused, and the line is
played from its head; a reset drops the whole line. `PCMDataPlayer!SoundIsALine`
is the refinement. The line is mapped to what the waiting buffers hold now
(`Sounds`), not to what they held when they were queued, so that a buffer
written over while it waits would break it; the chunk in hand is that of the
thread with the lock (`InHand`).

### XMSTTManager
The queue, the current action, the actuator, and the Speech framework's tasks.
The framework does not say whether a task keeps its delegate alive after the
manager has replaced the actuator: `KeepsDelegates` is a constant. TLC checks
the case where it does not; that the queue never stalls is proved for both. In
the other case `OneAtATime` and `ReportsReachTheirAction` fail, because a
cancelled task may report after the next one has started. A cancelled task may report its end or not.
`XMSTTAction`'s array of frames is modelled as the code leaves it: nil.

### PCMRecorder
The two timer fields, the two clocks, and what every scheduled timer counts: a
timer that left its field goes on. A timer is named by the call that scheduled
it. `fire` right after scheduling is part of the start. `recorded` and `left`
count ticks beside the clocks, and `replaced` holds the timers a second start
left running: the clocks are checked in ticks of all timers, and a tick is a
second only while one timer counts. The sound is left out.

### PCMFilePlayer
`player` is five steps on the main thread (file, data buffer, lock, queue, one
buffer after the other), because threads of earlier queues may read the fields
between any two of them. `readPCMAndPlay` is five steps of whichever thread runs
it. `lock` goes to the lock the field held when it was called, `unlock` to the
one it holds when it returns. The n-th call makes file, data buffer, lock and
queue n. Until two players overlap the chunks of the file are followed to the
ear (`heard`); from then on two threads with different locks write one data
buffer, what it holds is undefined, and the model calls it `Noise`: buffers are
still followed, bytes are not. The file is taken to be in the bundle.

### AdScreen, XMALAd, XMAdmobAd, XMAds
`XMALAd` stands for both AppLovin wrappers, which differ in one thing: an
interstitial wrapper makes its own ad, rewarded wrappers of a unit share one,
whose delegate is the latest of them (`AdOf`). A wrapper lives while the host
keeps it or a retry's block holds it. Those `XMAppLoving` makes are kept by
nobody, since its dictionaries are nil: these are `Load(w, first, FALSE)`.
`retries` are the delays of the blocks dispatched. AppLovin itself is external:
a load is answered, or not noticed while the ad shows.

`XMAdmobAd` has, for each unit, the wrapper of the latest load; completion
handlers speak to the wrapper they captured. `XMAds` composes the two over the
one screen of `AdScreen`: an ad of one SDK makes the display of the other fail.

### TTHTTPAgent
A request is five steps on its caller's thread: cache policy, timeout, cookie,
then AFNetworking reads the first two and later the headers. AFNetworking is
vendored under `src/Example/Pods`, and what a request runs through there is
mapped to its lines. `Outcome` is the chain of serializers over the kinds of
response; the success of a `HEAD` comes without an object (`Passed`). `during`
names the requests prepared at the same time.

The URL is not modelled, so any request may be one whose URL is nil or
malformed: an assertion of AFNetworking then raises (`RaiseOnURL`,
`AFURLRequestSerialization.m:361-367`), nobody catches it, and the program ends.
With assertions compiled out the request is made and its task fails, which is
`NotAnswered`. AFNetworking's failure without a task
(`AFHTTPSessionManager.m:266-274`) has no action because it cannot happen here:
the error it reports is only ever set by a `queryStringSerialization` block
(`AFURLRequestSerialization.m:489-499`), and the agent's serializer is a plain
`AFHTTPRequestSerializer` on which nothing sets one.

### XMSDKStart
Registrations for the launch notification and for the others, and what the
notification sets up. Either exception (a second `[FIRApp configure]`, a
selector `XMSDKIOS` does not have) ends the process.

## 3. Runs

| Run | Question | Bounds |
|---|---|---|
| `routing` | Can answers in any order add a payment nobody asked for? | 3 lookups at once, 2 products, 2 calls of each kind |
| `apple_pay` | What becomes of a paid order, through crashes and second hand-overs? | 2 transactions, 2 submissions of each at once, 2 registrations, 1 transaction repeated for them, 1 crash |
| `apple_pay_live` | Does an order on its way get its answer, and does the list drain? | 1 transaction, 2 crashes, 3 submissions at once, 2 registrations |
| `data_player` | Are buffers in one hand, is the player a first-in first-out line, does every call return? | 2 threads, 3 buffers, 4 calls |
| `stt` | Does text reach its action, one recording at a time, to the end? | 3 actions, 3 tasks, queue of 3 |
| `recorder` | Are the clocks exact in ticks, and which timers escape? | 4 starts or playbacks, a minute of 3 seconds, 7 ticks of recording |
| `file_player` | Is the file heard whole, in order, to its end, and no buffer shared? | 2 calls of `player`, 2 buffers, 3 chunks |
| `ads` | Does an ad always come back, one try at a time, and is the latest presented? | 2 wrappers of one ad, longest delay 2^2, 2 AdMob loads |
| `http` | Are settings stale, is each answer what its type says, does each request end? | 3 requests, all kinds of response |
| `refused_order`, `unsent_receipt`, `second_start` | Does the code do what a comment or an assertion says? (It does not.) | as small as the case needs |

Why the bounds are enough. *Routing*: two answers are needed to confuse each
other, and a third lookup lets a confusion be followed by another. *apple_pay*:
two transactions let one order's answer meet another's record and let a promoted
purchase be charged twice; two submissions of one order make the second answer
find no record; one crash separates every pair of adjacent steps, and its second
delivery is one way an order is recorded twice; the second registration, which
hands over twice without a crash, is the other, and a third would only repeat
it; one transaction handed over twice meets one that is not. To keep the run small its logins fail or give one uid and its answers
accept; the proofs, and the runs with one transaction, have logins that give a
model without a uid and answers that refuse. *apple_pay_live*: a list of two records
of one order needs one crash and three submissions at once, so that the bound on
submissions never blocks a purchase; the second crash hits the repeated round.
*data_player*: four calls use every buffer and come back to the first, and three
calls can lose them all; one thread is between any two steps of a call while the
other waits, calls or resets. *stt*: three actions let one run, one wait and
one arrive after a stop. *recorder*: four calls make two timers of each kind, or
a replaced one beside a failure; a recording of seven ticks fills two minutes of
three. *file_player*: two buffers let the main thread and the callback read at
once, a third chunk makes one of them be refilled, and two calls overlap at
every pair of steps. *ads*: a wrapper alone is what an interstitial always is,
two share a rewarded ad; the counter is capped where the delay stops growing, so
any number of failures is covered; the screen is contested by both SDKs. *http*:
two requests mix their settings, the third comes before, between or after them.

`CHECK_DEADLOCK FALSE` stands in the purchase runs because their bounds on
transactions, submissions and crashes let the model stop (the app waits for its
user there), in `ads` because all ads may be released with no load left, in
`http` because each request is made once, and in `second_start` because an
exception ends the process.

`PROJECT.json` names, for every property of a passing run, a mutant: a version of
one definition with a plausible mistake (a missing return, a record removed on
failure, a lock released early), under which the property fails. The mutants
stand in the modules, just before the definitions they replace.

## 4. Fairness

Safety runs assume none. `XMApplePay!LiveSpec` assumes what happens outside the
code: StoreKit and the server answer or fail (`WF` of each answer), the main
thread runs the handlers that are due, the user goes on buying (`SF` of `Buy`,
because the code submits lost orders only when a purchase starts), and a
submission made again and again is sometime answered (`SF` of `Verified`).
Without `SF` of `Buy` the property fails, which is a fact about the code: an
order lost in a crash waits for the next purchase, not for the next launch.

`PCMDataPlayer!LiveSpec` assumes that threads run, that sound is played and its
callbacks come, and that a spinning thread sees a free buffer in the end (`SF`
of `Claim`: buffers cannot be taken from it, since it holds the lock). `NSLock`
is not fair, and no fairness of it is assumed: the calls are bounded, so the
competition ends. `XMSTTManager!LiveSpec` assumes that recognition tasks end.

`PCMRecorder!LiveSpec` assumes that the run loop fires timers, not that a player
tells its end: a playback's timer must stop by itself at zero.
`PCMFilePlayer!LiveSpec` assumes that threads run and a running queue plays;
again the lock is not assumed fair. `XMAds` assumes that delays pass, that what
is asked of the screen is answered and ends, and that a load tried again and
again is answered with an ad at last (`SF` of `DidLoadAd`); how often loads and
displays fail before is open. `TTHTTPAgent` assumes that a thread goes on and a
task is answered or times out; a bad URL that ends the program is exempted.

## 5. What is proved

| Theorem | Says |
|---|---|
| `RoutingTypes`, `RoutingPaymentsAccounted` | types; no payment beyond purchases, lost query blocks and promotions |
| `PayTypes` | types of the whole purchase flow |
| `PayOnlyPaidOrders` | list, server and host only see paid transactions; renewals never reach the host; only what is settled is finished |
| `PaySubmittedOrdersAreKept` | what is being submitted is recorded or answered |
| `PayRecordsLeaveWhenAnswered` | only an answer removes a record |
| `PayKeepsTheLedger` | `XMApplePay` implements `OrderLedger` |
| `PayFinishedOrdersArePlaced` | when a paid transaction is finished, a renewal is recorded or waits for its login, an order under `XMApplePay`'s blocks is recorded with their product and user, one under the host's blocks is with the host; with no blocks set nothing is promised (`unsent_receipt`) |
| `PayDuplicatesHaveACause` | an order is recorded twice only after a crash between its record and its finish, or after a second registration had it handed over again |
| `PayUserIsKept` | no answer to a login takes back a user that is known |
| `PayOnlyACrashLosesARenewal` | before the first crash every finished renewal is recorded, answered or waiting |
| `ManagerTypes`, `ManagerNeverStalls` | types; a busy manager always hears the end of some task |
| `ManagerOneAtATime`, `ManagerReportsReachTheirAction` | one recording at a time, its text to its action, if replaced delegates are dropped |
| `PlayerTypes`, `PlayerBuffersHaveOneHolder` | types; no buffer of the streaming player in two hands |
| `PlayerSoundIsIntact`, `PlayerSoundIsInOrder` | what waits is not overwritten, and plays in the order of the lock |
| `PlayerIsALine` | `PCMDataPlayer` implements `SoundLine` |
| `RecorderTypes`, `RecorderCountsUp`, `RecorderCountsDown` | types; both clocks exact in ticks of all timers |
| `RecorderOrphans` | a running timer is in its field or was replaced |
| `AgentTypes`, `AgentMixesOnlyByOverlap` | types; settings are a request's own or of one prepared beside it |
| `AgentOnlyParsedSucceed` | only a good status succeeds, with what the type of the response says |
| `AdTypes`, `LatestIsPresented` | types; AdMob presents the ad of the latest load of its unit |
| `KeptAdsAreNotForgotten`, `OneRetryAtATime` | AppLovin's retries: at least one for an ad that failed, at most one for a wrapper alone |
| `FilePlayerTypes`, `FileBuffersHaveOneHolder` | types; no buffer of a file player in two hands, overlapping players included |
| `FileSoundIsInOrder` | the file is heard from its start, in order, while no two players overlap |

They hold for any sets of products, transactions, lookups, calls, threads,
buffers, actions, requests, wrappers and ads, a minute and a file of any length,
and any bounds, from the assumptions beside the constants: the "nothing" values
differ from the values they stand beside, `Lookups` is finite, `Blocks` is what
the two kinds of callers close over, bounds are naturals, and there is at least
one file player and one buffer of it.

*Routing.* `PaymentsAccounted` says nothing of lookups under way, any of which
may add a payment, so it is not inductive. `PaymentsCovered` charges each of
them in advance, apart from one query, which the products block covers. The
proof counts the lookups of each kind before and after each step.

*Purchases.* `IInv` is the type invariant with `OnlyPaidOrders` and
`SubmittedOrdersAreKept`. They need each other: recording an order is well typed
only because the transaction exists, and it exists because it was paid
(`PaidOnly`); finishing a transaction keeps `PaidOnly` only because what is
about to be finished is settled (`FinishingIsSettled`): it may be finished
already, if it was handed over twice, and then stays what it was. The
lemmas at the head of `XMApplePay_proofs` say what saving and updating do to the set of
recorded transactions. The refinement has one lemma per kind of step, each
ending in `MovingStep` (one order moves as the ledger allows) or `QuietStep`.
The step that settles an order needs `SubmittedOrdersAreKept`: an answer can
only come for an order that is recorded or was answered before. A crash needs
`RoutesAreSeparate`: an order in hand is never one the host has.
`DuplicatesHaveACause` speaks of the list alone; the inductive `SingleInv`
adds why no second record is made of a transaction that neither a crash tore nor
a second registration repeated: at most one hand-over is due for it, and once it
is on the list, or waits for a login, none is, and it is about to be finished or
finished. `RenewedInv` likewise says where a taken renewal is, before the first
crash and, after it, while this process is still to be handed it. The refinement
rests on it: a dropped renewal is not put in hand again.
`FinishedOrdersArePlaced` is an action property about the one step that finishes
a purchase; `TakenIsKept` says of every state before it that what is about to be
finished has been placed by the blocks that are set. `UserIsKept` needs the types
alone.

*Speech.* `NothingStalls` only says that some running task is heard. The
inductive `ActuatorRuns` says which: the one whose delegate is the actuator,
since it alone is heard if the framework drops the others. The two theorems with
that assumption rest on it too.

*Streaming player.* `HeldInv` (a thread past the lock has it, whoever has a
buffer finds it marked, the queue has a buffer once) gives mutual exclusion of
the buffers, although marks are cleared without the lock: only the audio queue
clears them, and only for buffers it gives back. `OrderInv` numbers the chunks
by the lock: the holder's is the last one taken and later than all in the queue.
`PlayerIsALine` rests on both: every step is one of `SoundLine` or leaves the
line and the hand alone. That a chunk lined up finds room is a pigeonhole
argument (`RoomForOne`): the queue has each buffer once and not the one claimed.
`HandInv` says that only the thread with the lock has a chunk in hand, the last
one taken.

*Recorder.* `IInv` joins the types and the three invariants; the arithmetic of a
carried and a borrowed minute stands in lemmas of its own.

*HTTP agent.* The chain of serializers is a finite function of a response, split
by the first serializer that parses; `AnswersAreOutcomes` ties each answer to
it. For the settings, `SharedInv` says of a
request in preparation that each field it has set is still its own, or was set
by a request that was preparing at the same time.

*Ads.* `KeptAdsRecover` is inductive with the types. `AloneTriesOnce` is not: that
a retry which runs finds no load under way says nothing of the load and the
display that come next. `AloneInv` adds that no retry, load or ad belongs to a
wrapper that was never made, that the delegate of an ad is a wrapper of that ad,
and that an ad that loads is not there yet. The retries are a sequence of delays,
so the types say which: 0 and the powers of two up to `MaxDoublings`. For AdMob,
`AdIsOwn` says that a wrapper holds nothing but the ad of its own load.

*File player.* The proof has three layers. `Control` says what each thread can be
doing: of the four fields `play` sets one after another, the later ones lag
behind the earlier ones (`FieldsOfOneCall`); the main thread reads only while it
fills; a callback reads for its own queue; a queue not made yet calls nobody.
`Holders` needs it: the lines of a queue hold buffers of that queue, each once
(`OwnLines`), none of them in a reader's hand (`NotBoth`), no buffer in two hands
(`OneHand`), and what the main thread has still to fill is nowhere (`Unfilled`).
Neither speaks of the lock, and so both survive overlapping players, whose
threads lock different locks. `SoundInv` holds while none overlapped: only the
current queue is busy (`Quiet`), who reads has its lock (`OneReader`), and what
was heard, what waits and what the reader holds are chunks that follow each other
up to the file's position (`Playing`), all of them if the queue was never cut.

Only model-checked: the liveness properties (`TakenOrdersAreSettled`,
`CallsReturn`, `ActionsEnd`, `PlayTimersStop`, `ReadersReturn`, `PlaybackEnds`,
`KeptAdsBecomeReady`, `RequestsAreAnswered`), since the prover has no fairness or
`ENABLED`. Every other property that a passing run checks is a theorem.

## 6. Where comments and code differ

Shown by runs:

| Run | Comment or assertion | Code |
|---|---|---|
| `unsent_receipt` | `XMAppleIAP.m:114`: a purchase that succeeded has its receipt sent | after a relaunch no block is set and the receipt goes nowhere |
| `refused_order` | lost-order helper `:18`: local data is updated when the transaction succeeds | any dictionary removes the record (`TTNetworkRequest+Real.m:56`) |
| `second_start` | FirebaseCore's `FIRApp.m:213`: "Default app has already been configured." | a second start before the launch is over configures it twice (`XMSDKIOS.m:122`) |

Met while modelling, and part of the models without a property, because one step
of the code shows each:

* `XMAppleIAP.m:119` says a transaction is finished whether or not the
  verification succeeds; without a receipt the method returns at line 112.
* `TTNetworkRequest+Real.h:19` declares the uid `_Nonnull`; a failed login
  records and submits a nil one (`XMApplePay.m:24`).
* `PCMDataPlayer.m:19` says the array tells whether a buffer is in use; a refused
  enqueue (`:111`) leaves it marked for ever. `CallsReturn` holds up to the loss
  of all three buffers, and then the caller spins with the lock.
* `XMSTTManager.h:23` says each callback's data is stored in the action's array;
  the array is never allocated (`XMSTTManager.m:40`), so nothing is shown.
* `XMAppLoving.m:33`: the dictionaries are never allocated, so an ad made through
  the facade can never be presented.
* `XMSDKIOS.m:173`: five observers send methods `XMSDKIOS` does not implement.
* A rewarded wrapper whose shared ad was taken over by a wrapper that is gone is
  never told again, and its ad is not recovered. A failed AdMob load is never
  repeated, and a load of a unit discards an ad that was ready.
* `HEAD`: an answer with a content type other than gif and no body, as a `HEAD`
  has none, falls through to the last serializer, whose error goes to `failure`.
* `XMAppleIAP.m:229`: a promoted purchase registers the observer a second time,
  though `init` has (line 33), and adds a payment (line 230) that its answer
  `YES` adds again. If StoreKit hands a transaction over once per registration,
  its order is recorded twice.
* `PCMFilePlayer`: once two players overlap, a reader of the first may wait for a
  lock that is never released.

## 7. Conventions

A module takes its parameters as `CONSTANTS` with named assumptions. Definitions
keep the names of the source. History variables, which the code does not have,
are declared apart. A handler with several outcomes is several actions, and each
carries all the effects of its outcome. Every bound (`MaxCalls`, `MaxInFlight`,
`MaxRegistrations`, `MaxRepeated`, `MaxRelaunches`, `MaxChunks`, `MaxQueue`, `MaxLength`, `MaxPlayers`, `MaxLoads`,
`MaxStarts`, and the sets `Lookups`, `Calls`, `Tasks`, `Wrappers`, `Requests` of
slots) is a guard of the action it bounds.

## 8. How to run

```
tlc -workers 2 -config MCXMApplePay.cfg MCXMApplePay
tlapm XMApplePay_proofs.tla
```

`PROJECT.json` lists every run with its module and configuration. The longest,
`apple_pay` (1.7 million states), `http` and `file_player`, take one to three
minutes each on two cores.

## 9. Not modelled, and what could follow

Left out for good: `XMVideoPlayer`, the Firebase Auth and rotation methods of the
facade, banners, `TTDataListModel` (calls into a library, views or property
names, without state); the building of a server request; the Example app and its
tests (templates); the vendored pods, which make up almost all of the
repository's lines and none of its own logic (but for the lines of AFNetworking
a request of `TTHTTPAgent` runs through). What the SDK's own code relies on
in a library is modelled as external: StoreKit's queue, the audio queue, the
Speech framework's tasks, the ads.

Left out of a modelled part: the JSON text of an order and its receipt; a chunk
of sound larger than its buffer; failures to create an audio queue; the bytes
heard when two file players overlap (undefined in the code) and a missing sound
file (undefined from the first read on).

What could follow: an abstract specification of the speech manager (a queue of
actions served one at a time) and of the ads; larger instances of `ads` with two
rewarded units.
