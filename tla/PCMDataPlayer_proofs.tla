------------------------- MODULE PCMDataPlayer_proofs -------------------------
(***************************************************************************)
(* Proofs about PCMDataPlayer, for any threads, any number of buffers and  *)
(* of calls: no buffer is in two hands, what waits to be played is what    *)
(* was enqueued, it is played in the order of the lock, and the player     *)
(* implements SoundLine.                                                   *)
(***************************************************************************)
EXTENDS PCMDataPlayer, FiniteSetTheorems, SequenceTheorems, TLAPS

\* No more calls are on their way than may still be made.
Budget ==
    /\ IsFiniteSet(Waiting)
    /\ taken + Cardinality(Waiting) <= MaxChunks

\* Between the lock and the unlocking a thread has the lock.
LockHeld ==
    \A th \in Threads :
        pc[th] \in {"scanning", "filling", "enqueueing", "unlocking"} => lock = th

\* A buffer that somebody has is marked; a thread's is not the audio queue's.
Marked ==
    /\ \A th \in Threads : pc[th] \in {"filling", "enqueueing"} =>
          used[at[th]] /\ at[th] \notin ToSet(queue) /\ at[th] \notin returning
    /\ \A b \in ToSet(queue) \cup returning : used[b]

\* The audio queue has a buffer once.
Once == IsInjective(queue) /\ ToSet(queue) \cap returning = {}

\* The chunk that a thread is about to enqueue is the last one taken, and
\* later than all that were enqueued.
Numbers ==
    /\ last <= taken
    /\ \A k \in DOMAIN queue : queuedAs[queue[k]].nr <= taken
    /\ \A th \in Threads : pc[th] \in {"scanning", "filling", "enqueueing"} =>
          /\ chunk[th].nr = taken
          /\ last < taken
          /\ \A k \in DOMAIN queue : queuedAs[queue[k]].nr < taken
    /\ \A th \in Threads : pc[th] = "enqueueing" => bytes[at[th]] = chunk[th]

HeldInv == LockHeld /\ Marked /\ Once
OrderInv == Numbers /\ QueuedSoundIsIntact /\ SoundIsInOrder

-----------------------------------------------------------------------------
\* The queue.

\* What a queue is once a buffer is put at its end, element by element.
LEMMA AppendIs ==
    ASSUME NEW S, NEW q \in Seq(S), NEW b \in S
    PROVE  /\ Append(q, b) \in Seq(S)
           /\ DOMAIN q = 1..Len(q) /\ Len(q) \in Nat
           /\ DOMAIN Append(q, b) = 1..(Len(q) + 1)
           /\ \A k \in DOMAIN q : Append(q, b)[k] = q[k]
           /\ Append(q, b)[Len(q) + 1] = b
           /\ ToSet(Append(q, b)) = ToSet(q) \cup {b}
<1>1. /\ Append(q, b) \in Seq(S)
      /\ DOMAIN q = 1..Len(q) /\ Len(q) \in Nat
      /\ DOMAIN Append(q, b) = 1..(Len(q) + 1)
      /\ \A k \in DOMAIN q : Append(q, b)[k] = q[k]
      /\ Append(q, b)[Len(q) + 1] = b
  BY AppendProperties, LenProperties
<1>2. \A k \in DOMAIN Append(q, b) : k \in DOMAIN q \/ k = Len(q) + 1
  BY <1>1
<1>3. ToSet(Append(q, b)) \subseteq ToSet(q) \cup {b}
  BY <1>1, <1>2 DEF ToSet
<1>4. DOMAIN q \subseteq DOMAIN Append(q, b) /\ Len(q) + 1 \in DOMAIN Append(q, b)
  BY <1>1
<1>5. ToSet(q) \cup {b} \subseteq ToSet(Append(q, b))
  BY <1>1, <1>4 DEF ToSet
<1> QED
  BY <1>1, <1>3, <1>5

\* What a queue is once its first buffer has left it, element by element.
LEMMA TailIs ==
    ASSUME NEW S, NEW q \in Seq(S), q # <<>>
    PROVE  /\ Head(q) \in S /\ Tail(q) \in Seq(S)
           /\ DOMAIN q = 1..Len(q) /\ Len(q) \in Nat \ {0} /\ 1 \in DOMAIN q
           /\ Head(q) = q[1]
           /\ \A k \in DOMAIN Tail(q) : /\ k \in Nat \ {0}
                                        /\ k + 1 \in DOMAIN q
                                        /\ Tail(q)[k] = q[k + 1]
           /\ ToSet(q) = {Head(q)} \cup ToSet(Tail(q))
<1>1. /\ Head(q) \in S /\ Tail(q) \in Seq(S)
      /\ DOMAIN q = 1..Len(q) /\ Len(q) \in Nat \ {0} /\ 1 \in DOMAIN q
      /\ Head(q) = q[1]
      /\ DOMAIN Tail(q) = 1..(Len(q) - 1)
      /\ \A k \in 1..(Len(q) - 1) : Tail(q)[k] = q[k + 1]
  BY HeadTailProperties, LenProperties, EmptySeq
<1>2. \A k \in DOMAIN Tail(q) : /\ k \in Nat \ {0}
                                /\ k + 1 \in DOMAIN q
                                /\ Tail(q)[k] = q[k + 1]
  BY <1>1
<1>3. {Head(q)} \cup ToSet(Tail(q)) \subseteq ToSet(q)
  BY <1>1, <1>2 DEF ToSet
<1>4. \A k \in DOMAIN q : k = 1 \/ (k - 1 \in DOMAIN Tail(q) /\ q[k] = Tail(q)[k - 1])
  BY <1>1
<1>5. ToSet(q) \subseteq {Head(q)} \cup ToSet(Tail(q))
  <2> SUFFICES ASSUME NEW k \in DOMAIN q
               PROVE  q[k] = Head(q) \/ q[k] \in ToSet(Tail(q))
    BY DEF ToSet
  <2>1. CASE k = 1
    BY <1>1, <2>1
  <2>2. CASE k - 1 \in DOMAIN Tail(q) /\ q[k] = Tail(q)[k - 1]
    BY <2>2, Zenon DEF ToSet
  <2> QED
    BY <1>4, <2>1, <2>2
<1> QED
  BY <1>1, <1>2, <1>3, <1>5

\* A buffer that is not in the queue can be put at its end: each is there once.
LEMMA AppendOnce ==
    ASSUME NEW S, NEW q \in Seq(S), NEW b \in S, IsInjective(q), b \notin ToSet(q)
    PROVE  IsInjective(Append(q, b))
<1>1. \A k \in DOMAIN q : q[k] # b
  BY DEF ToSet
<1>2. \A k \in DOMAIN Append(q, b) :
         \/ k \in DOMAIN q /\ Append(q, b)[k] = q[k]
         \/ k = Len(q) + 1 /\ Append(q, b)[k] = b
  BY AppendIs
<1> SUFFICES ASSUME NEW j \in DOMAIN Append(q, b), NEW k \in DOMAIN Append(q, b),
                    Append(q, b)[j] = Append(q, b)[k]
             PROVE  j = k
  BY Zenon DEF IsInjective
<1>3. j \in DOMAIN q /\ k \in DOMAIN q => j = k
  BY <1>2 DEF IsInjective
<1> QED
  BY <1>1, <1>2, <1>3, Zenon

\* The first buffer leaves the queue, and is nowhere else in it.
LEMMA TailOnce ==
    ASSUME NEW S, NEW q \in Seq(S), q # <<>>, IsInjective(q)
    PROVE  IsInjective(Tail(q)) /\ Head(q) \notin ToSet(Tail(q))
<1>1. IsInjective(Tail(q))
  BY TailIs DEF IsInjective
<1>2. \A k \in DOMAIN Tail(q) : Tail(q)[k] # Head(q)
  BY TailIs DEF IsInjective
<1> QED
  BY <1>1, <1>2 DEF ToSet

-----------------------------------------------------------------------------
\* Types, with the bound on the calls.

\* Before any call the variables are well typed and no call is counted.
LEMMA StartsWithTypes == Init => TypeOK /\ Budget
<1> SUFFICES ASSUME Init PROVE TypeOK /\ Budget
  OBVIOUS
<1>1. Waiting = {}
  BY DEF Init, Waiting
<1>2. Budget
  BY <1>1, FS_EmptySet, PlayerAssumption DEF Init, Budget
<1>3. NoChunk \in Chunks /\ 0 \in Positions
  BY PlayerAssumption DEF NoChunk, Chunks, Positions
<1>4. queue \in Seq(Positions)
  BY DEF Init
<1>5. TypeOK
  BY <1>3, <1>4, PlayerAssumption DEF Init, TypeOK, Places
<1> QED
  BY <1>2, <1>5

\* A call that is made counts against the bound on calls.
LEMMA CallingKeepsTypes ==
    ASSUME TypeOK, Budget, NEW th \in Threads, PlayWithData(th) PROVE (TypeOK /\ Budget)'
<1>1. Waiting' = Waiting \cup {th} /\ th \notin Waiting
  BY DEF Waiting, PlayWithData, Goes, TypeOK
<1>2. IsFiniteSet(Waiting') /\ Cardinality(Waiting') = Cardinality(Waiting) + 1
  BY <1>1, FS_AddElement DEF Budget
<1>3. Cardinality(Waiting) \in Nat
  BY FS_CardinalityType DEF Budget
<1>4. Budget'
  BY <1>2, <1>3, PlayerAssumption DEF Budget, PlayWithData, TypeOK, history
<1>5. TypeOK'
  BY DEF TypeOK, PlayWithData, Goes, Places, audioVars, history
<1> QED
  BY <1>4, <1>5

\* A thread that gets the lock turns a waiting call into a taken one.
LEMMA LockingKeepsTypes ==
    ASSUME TypeOK, Budget, NEW th \in Threads, Lock(th) PROVE (TypeOK /\ Budget)'
<1>1. Waiting' = Waiting \ {th} /\ th \in Waiting
  BY DEF Waiting, Lock, Goes, TypeOK
<1>2. IsFiniteSet(Waiting') /\ Cardinality(Waiting') = Cardinality(Waiting) - 1
  BY <1>1, FS_RemoveElement DEF Budget
<1>3. Cardinality(Waiting) \in Nat /\ Cardinality(Waiting') \in Nat
  BY <1>2, FS_CardinalityType DEF Budget
<1>4. Budget' /\ taken' \in 0..MaxChunks
  BY <1>2, <1>3, PlayerAssumption DEF Budget, Lock, TypeOK
<1>5. PICK empty \in BOOLEAN :
         chunk' = [chunk EXCEPT ![th] = [nr |-> taken + 1, empty |-> empty]]
  BY DEF Lock
<1>6. [nr |-> taken + 1, empty |-> empty] \in Chunks
  BY <1>4 DEF Lock, Chunks
<1>7. chunk' \in [Threads -> Chunks]
  BY <1>5, <1>6 DEF TypeOK
<1>8. 0 \in Positions
  BY PlayerAssumption DEF Positions
<1>9. TypeOK'
  BY <1>4, <1>7, <1>8 DEF TypeOK, Lock, Goes, Places, audioVars
<1> QED
  BY <1>4, <1>9

\* The other steps of a thread leave the calls on their way alone.
LEMMA WaitingStays ==
    ASSUME TypeOK, Budget, NEW th \in Threads,
           \/ Skip(th) \/ Claim(th) \/ Fill(th) \/ Enqueue(th) \/ EnqueueFails(th)
           \/ Unlock(th) \/ ResetPlay(th) \/ ResetEnds(th)
    PROVE  Budget'
<1>1. Waiting' = Waiting /\ taken' = taken
  BY DEF Waiting, Goes, TypeOK, Skip, Claim, Fill, Enqueue, EnqueueFails, Unlock, ResetPlay,
         ResetEnds, history
<1> QED
  BY <1>1 DEF Budget

\* The steps of a thread between the lock and its release.
LEMMA ThreadKeepsTypes ==
    ASSUME TypeOK, Budget, NEW th \in Threads,
           \/ Skip(th) \/ Claim(th) \/ Fill(th) \/ Enqueue(th) \/ EnqueueFails(th)
           \/ Unlock(th) \/ ResetPlay(th) \/ ResetEnds(th)
    PROVE  TypeOK'
<1>1. CASE Skip(th)
  <2>1. (at[th] + 1) % Buffers \in Positions
    BY PlayerAssumption DEF TypeOK, Positions
  <2> QED
    BY <1>1, <2>1 DEF TypeOK, Skip, audioVars, history
<1>2. CASE Claim(th)
  BY <1>2 DEF TypeOK, Claim, Goes, Places, audioVars, history
<1>3. CASE Fill(th)
  BY <1>3 DEF TypeOK, Fill, Goes, Places, audioVars, history
<1>4. CASE Enqueue(th)
  <2>1. at[th] \in Positions /\ queue' \in Seq(Positions)
    BY <1>4, AppendIs DEF TypeOK, Enqueue
  <2>2. queuedAs' \in [Positions -> Chunks]
    BY <1>4, <2>1 DEF TypeOK, Enqueue
  <2>3. pc' \in [Threads -> Places]
    BY <1>4 DEF TypeOK, Enqueue, Goes, Places
  <2> QED
    BY <1>4, <2>1, <2>2, <2>3 DEF TypeOK, Enqueue
<1>5. CASE EnqueueFails(th)
  BY <1>5 DEF TypeOK, EnqueueFails, Goes, Places, audioVars, history
<1>6. CASE Unlock(th)
  <2>1. 0 \in Positions /\ NoChunk \in Chunks
    BY PlayerAssumption DEF Positions, NoChunk, Chunks
  <2> QED
    BY <1>6, <2>1 DEF TypeOK, Unlock, Goes, Places, audioVars, history
<1>7. CASE ResetPlay(th)
  BY <1>7 DEF TypeOK, ResetPlay, Goes, Places, audioVars, history
<1>8. CASE ResetEnds(th)
  <2>1. queue' \in Seq(Positions)
    BY <1>8 DEF ResetEnds
  <2>2. ToSet(queue) \subseteq Positions
    BY LenProperties DEF TypeOK, ToSet
  <2>3. pc' \in [Threads -> Places]
    BY <1>8 DEF TypeOK, ResetEnds, Goes, Places
  <2> QED
    BY <1>8, <2>1, <2>2, <2>3 DEF TypeOK, ResetEnds, history
<1> QED
  BY <1>1, <1>2, <1>3, <1>4, <1>5, <1>6, <1>7, <1>8

\* The audio queue's thread: what it plays and hands back is a buffer.
LEMMA AudioKeepsTypes ==
    ASSUME TypeOK, Budget, PlayFirst \/ \E b \in Positions : AudioPlayerAQInputCallback(b)
    PROVE  (TypeOK /\ Budget)'
<1>1. Waiting' = Waiting /\ taken' = taken
  BY DEF Waiting, PlayFirst, AudioPlayerAQInputCallback, playerVars, history
<1>2. CASE PlayFirst
  <2>1. Head(queue) \in Positions /\ queue' \in Seq(Positions)
    BY <1>2, TailIs DEF PlayFirst, TypeOK
  <2>2. bytes[Head(queue)].nr \in 0..MaxChunks
    BY <2>1 DEF TypeOK, Chunks
  <2> QED
    BY <1>1, <1>2, <2>1, <2>2 DEF PlayFirst, TypeOK, Budget, playerVars
<1>3. CASE \E b \in Positions : AudioPlayerAQInputCallback(b)
  BY <1>1, <1>3 DEF AudioPlayerAQInputCallback, TypeOK, Budget, history
<1> QED
  BY <1>2, <1>3

\* Types and the count of the calls are kept by every step.
LEMMA NextKeepsTypes == TypeOK /\ Budget /\ [Next]_vars => (TypeOK /\ Budget)'
<1>1. TypeOK /\ Budget /\ UNCHANGED vars => (TypeOK /\ Budget)'
  BY DEF TypeOK, Budget, Waiting, vars, playerVars, audioVars, history
<1> QED
  BY <1>1, CallingKeepsTypes, LockingKeepsTypes, WaitingStays, ThreadKeepsTypes,
     AudioKeepsTypes DEF Next

\* Types and the count of the calls hold in every behaviour.
LEMMA PlayerBudget == Spec => [](TypeOK /\ Budget)
<1> QED
  BY StartsWithTypes, NextKeepsTypes, PTL DEF Spec

\* The player keeps its variables well typed.
THEOREM PlayerTypes == Spec => []TypeOK
<1> QED
  BY PlayerBudget, PTL

-----------------------------------------------------------------------------
\* Who has a buffer.

\* Before any call nobody has the lock or a buffer.
LEMMA StartsHeld == Init => HeldInv
  BY DEF Init, HeldInv, LockHeld, Marked, Once, ToSet, IsInjective

\* What a step of a thread does to the others.
LEMMA OthersStay ==
    ASSUME TypeOK, NEW th \in Threads,
           \/ PlayWithData(th) \/ Lock(th) \/ Skip(th) \/ Claim(th) \/ Fill(th) \/ Enqueue(th)
           \/ EnqueueFails(th) \/ Unlock(th) \/ ResetPlay(th) \/ ResetEnds(th)
    PROVE  \A x \in Threads : x # th => /\ pc'[x] = pc[x]
                                        /\ at'[x] = at[x]
                                        /\ chunk'[x] = chunk[x]
<1>1. \A x \in Threads : x # th => pc'[x] = pc[x]
  BY DEF TypeOK, Goes, PlayWithData, Lock, Skip, Claim, Fill, Enqueue, EnqueueFails, Unlock,
         ResetPlay, ResetEnds
<1>2. \A x \in Threads : x # th => at'[x] = at[x]
  BY DEF TypeOK, PlayWithData, Lock, Skip, Claim, Fill, Enqueue, EnqueueFails, Unlock,
         ResetPlay, ResetEnds
<1>3. \A x \in Threads : x # th => chunk'[x] = chunk[x]
  BY DEF TypeOK, PlayWithData, Lock, Skip, Claim, Fill, Enqueue, EnqueueFails, Unlock,
         ResetPlay, ResetEnds
<1> QED
  BY <1>1, <1>2, <1>3

\* NSLock lets one thread in: whoever is past it has it.
LEMMA ThreadKeepsLock ==
    ASSUME TypeOK, LockHeld, NEW th \in Threads,
           \/ PlayWithData(th) \/ Lock(th) \/ Skip(th) \/ Claim(th) \/ Fill(th) \/ Enqueue(th)
           \/ EnqueueFails(th) \/ Unlock(th) \/ ResetPlay(th) \/ ResetEnds(th)
    PROVE  LockHeld'
<1>1. \A x \in Threads : x # th => pc'[x] = pc[x]
  BY OthersStay
<1>2. CASE Lock(th)
  BY <1>1, <1>2, PlayerAssumption DEF Lock, LockHeld
<1>3. CASE Unlock(th)
  BY <1>1, <1>3 DEF Unlock, LockHeld, Goes, TypeOK
<1>4. CASE PlayWithData(th) \/ ResetPlay(th) \/ ResetEnds(th)
  BY <1>1, <1>4 DEF PlayWithData, ResetPlay, ResetEnds, LockHeld, Goes, TypeOK
<1>5. CASE Skip(th) \/ Claim(th) \/ Fill(th) \/ Enqueue(th) \/ EnqueueFails(th)
  BY <1>1, <1>5 DEF Skip, Claim, Fill, Enqueue, EnqueueFails, LockHeld, Goes, TypeOK
<1> QED
  BY <1>2, <1>3, <1>4, <1>5

\* The steps that neither take a buffer nor hand one on.
LEMMA QuietKeepsHeld ==
    ASSUME TypeOK, HeldInv, NEW th \in Threads,
           \/ PlayWithData(th) \/ Lock(th) \/ Skip(th) \/ Fill(th) \/ EnqueueFails(th)
           \/ Unlock(th) \/ ResetPlay(th)
    PROVE  HeldInv'
<1>1. LockHeld'
  BY ThreadKeepsLock DEF HeldInv
<1>2. UNCHANGED <<used, queue, returning>>
  BY DEF PlayWithData, Lock, Skip, Fill, EnqueueFails, Unlock, ResetPlay, audioVars
<1>3. ASSUME NEW x \in Threads, pc'[x] \in {"filling", "enqueueing"}
      PROVE  pc[x] \in {"filling", "enqueueing"} /\ at'[x] = at[x]
  <2>1. CASE x # th
    BY <1>3, <2>1, OthersStay
  <2>2. CASE x = th
    BY <1>3, <2>2 DEF PlayWithData, Lock, Skip, Fill, EnqueueFails, Unlock, ResetPlay, Goes,
                      TypeOK
  <2> QED
    BY <2>1, <2>2
<1>4. Marked'
  BY <1>2, <1>3 DEF HeldInv, Marked
<1> QED
  BY <1>1, <1>2, <1>4 DEF HeldInv, Once

\* A free buffer that is claimed was in no hand before.
LEMMA ClaimKeepsHeld ==
    ASSUME TypeOK, HeldInv, NEW th \in Threads, Claim(th) PROVE HeldInv'
<1>1. LockHeld'
  BY ThreadKeepsLock DEF HeldInv
<1>2. /\ UNCHANGED <<queue, returning, at>>
      /\ ~ used[at[th]] /\ at[th] \in Positions
      /\ \A b \in Positions : used[b] => used'[b]
      /\ used'[at[th]]
  BY DEF Claim, audioVars, TypeOK
<1>3. ToSet(queue) \cup returning \subseteq Positions
  BY LenProperties DEF TypeOK, ToSet
<1>4. \A x \in Threads : x # th => pc'[x] = pc[x]
  BY OthersStay
<1>5. Marked'
  BY <1>2, <1>3, <1>4 DEF HeldInv, Marked, TypeOK
<1> QED
  BY <1>1, <1>2, <1>5 DEF HeldInv, Once

\* A buffer goes from the hand of its thread to the end of the queue.
LEMMA EnqueueKeepsHeld ==
    ASSUME TypeOK, HeldInv, NEW th \in Threads, Enqueue(th) PROVE HeldInv'
<1>1. LockHeld'
  BY ThreadKeepsLock DEF HeldInv
<1>2. /\ UNCHANGED <<used, returning, at>>
      /\ at[th] \in Positions /\ queue \in Seq(Positions)
      /\ queue' = Append(queue, at[th])
      /\ pc[th] = "enqueueing" /\ pc'[th] = "unlocking"
  BY DEF Enqueue, Goes, TypeOK
<1>3. used[at[th]] /\ at[th] \notin ToSet(queue) /\ at[th] \notin returning
  BY <1>2 DEF HeldInv, Marked
<1>4. ToSet(queue') = ToSet(queue) \cup {at[th]}
  BY <1>2, AppendIs
<1>5. IsInjective(queue')
  BY <1>2, <1>3, AppendOnce DEF HeldInv, Once
<1>6. Once'
  BY <1>2, <1>3, <1>4, <1>5 DEF HeldInv, Once
<1>7. \A x \in Threads : x # th => pc'[x] = pc[x]
  BY OthersStay
<1>8. \A x \in Threads : pc'[x] \notin {"filling", "enqueueing"}
  BY <1>2, <1>7 DEF HeldInv, LockHeld
<1>9. Marked'
  BY <1>2, <1>3, <1>4, <1>8 DEF HeldInv, Marked
<1> QED
  BY <1>1, <1>6, <1>9 DEF HeldInv

\* A reset moves the queue's buffers to those that are coming back.
LEMMA ResetKeepsHeld ==
    ASSUME TypeOK, HeldInv, NEW th \in Threads, ResetEnds(th) PROVE HeldInv'
<1>1. LockHeld'
  BY ThreadKeepsLock DEF HeldInv
<1>2. /\ UNCHANGED <<used, at>>
      /\ queue' = <<>> /\ returning' = returning \cup ToSet(queue)
      /\ pc'[th] = "idle"
  BY DEF ResetEnds, Goes, TypeOK
<1>3. ToSet(queue') = {} /\ IsInjective(queue')
  BY <1>2 DEF ToSet, IsInjective
<1>4. \A x \in Threads : x # th => pc'[x] = pc[x]
  BY OthersStay
<1>5. Marked'
  BY <1>2, <1>3, <1>4 DEF HeldInv, Marked
<1> QED
  BY <1>1, <1>3, <1>5 DEF HeldInv, Once

\* The audio queue's thread hands a played buffer back and marks it free.
LEMMA AudioKeepsHeld ==
    ASSUME TypeOK, HeldInv, PlayFirst \/ \E b \in Positions : AudioPlayerAQInputCallback(b)
    PROVE  HeldInv'
<1>1. CASE PlayFirst
  <2>1. /\ UNCHANGED <<pc, lock, at, used>>
        /\ queue # <<>> /\ queue \in Seq(Positions) /\ queue' = Tail(queue)
        /\ returning' = returning \cup {Head(queue)}
    BY <1>1 DEF PlayFirst, playerVars, TypeOK
  <2>2. /\ ToSet(queue) = {Head(queue)} \cup ToSet(queue')
        /\ IsInjective(queue') /\ Head(queue) \notin ToSet(queue')
    BY <2>1, TailIs, TailOnce DEF HeldInv, Once
  <2> QED
    BY <2>1, <2>2 DEF HeldInv, LockHeld, Marked, Once
<1>2. CASE \E b \in Positions : AudioPlayerAQInputCallback(b)
  <2>1. PICK b \in Positions : AudioPlayerAQInputCallback(b)
    BY <1>2
  <2>2. /\ UNCHANGED <<pc, lock, at, queue>>
        /\ b \in returning /\ returning' = returning \ {b}
        /\ \A x \in Positions : x # b => used'[x] = used[x]
    BY <2>1 DEF AudioPlayerAQInputCallback, TypeOK
  <2>3. ToSet(queue) \cup returning \subseteq Positions
    BY LenProperties DEF TypeOK, ToSet
  <2> QED
    BY <2>2, <2>3 DEF HeldInv, LockHeld, Marked, Once, TypeOK
<1> QED
  BY <1>1, <1>2

\* Every step leaves each buffer in one hand.
LEMMA NextKeepsHeld == TypeOK /\ HeldInv /\ [Next]_vars => HeldInv'
<1>1. HeldInv /\ UNCHANGED vars => HeldInv'
  BY DEF HeldInv, LockHeld, Marked, Once, vars, playerVars, audioVars
<1> QED
  BY <1>1, QuietKeepsHeld, ClaimKeepsHeld, EnqueueKeepsHeld, ResetKeepsHeld, AudioKeepsHeld
  DEF Next

\* In every behaviour each buffer is in one hand.
LEMMA PlayerHeld == Spec => []HeldInv
<1> QED
  BY StartsHeld, NextKeepsHeld, PlayerTypes, PTL DEF Spec

\* The lock leaves one claimant.
LEMMA HeldMeansOneHolder == TypeOK /\ HeldInv => BuffersHaveOneHolder
<1> SUFFICES ASSUME TypeOK, HeldInv PROVE BuffersHaveOneHolder
  OBVIOUS
<1>1. ASSUME NEW b \in Positions
      PROVE  /\ ~ used[b] => Claimants(b) = {} /\ b \notin InAudioQueue
             /\ Cardinality(Claimants(b)) <= 1
             /\ Claimants(b) # {} => b \notin InAudioQueue
  <2>1. ~ used[b] => Claimants(b) = {} /\ b \notin InAudioQueue
    BY DEF HeldInv, Marked, Claimants, InAudioQueue
  <2>2. Claimants(b) # {} => b \notin InAudioQueue
    BY DEF HeldInv, Marked, Claimants, InAudioQueue
  <2>3. Claimants(b) \subseteq {lock}
    BY DEF HeldInv, LockHeld, Claimants
  <2>4. Cardinality(Claimants(b)) <= 1
    <3>1. IsFiniteSet({lock}) /\ Cardinality({lock}) = 1
      BY FS_Singleton
    <3>2. Cardinality(Claimants(b)) <= Cardinality({lock})
      BY <2>3, <3>1, FS_Subset
    <3> QED
      BY <3>1, <3>2
  <2> QED
    BY <2>1, <2>2, <2>4
<1> QED
  BY <1>1 DEF BuffersHaveOneHolder, HeldInv, Once

\* No buffer is in two hands.
THEOREM PlayerBuffersHaveOneHolder == Spec => []BuffersHaveOneHolder
<1> QED
  BY PlayerTypes, PlayerHeld, HeldMeansOneHolder, PTL

-----------------------------------------------------------------------------
\* The order of the sound.

IInv == TypeOK /\ HeldInv /\ OrderInv

\* An empty queue is in order.
LEMMA StartsInOrder == Init => OrderInv
<1> SUFFICES ASSUME Init PROVE OrderInv
  OBVIOUS
<1>1. DOMAIN queue = {} /\ ToSet(queue) = {}
  BY DEF Init, ToSet
<1>2. Numbers
  BY <1>1 DEF Init, Numbers
<1> QED
  BY <1>1, <1>2 DEF OrderInv, QueuedSoundIsIntact, SoundIsInOrder

\* A step that leaves the sound alone, and brings no thread nearer to enqueueing.
LEMMA QuietKeepsOrder ==
    ASSUME IInv, NEW th \in Threads,
           \/ PlayWithData(th) \/ Skip(th) \/ Claim(th) \/ EnqueueFails(th) \/ Unlock(th)
           \/ ResetPlay(th)
    PROVE  OrderInv'
<1>1. UNCHANGED <<queue, bytes, last, taken, queuedAs>>
  BY DEF PlayWithData, Skip, Claim, EnqueueFails, Unlock, ResetPlay, audioVars, history
<1>2. ASSUME NEW x \in Threads, pc'[x] \in {"scanning", "filling", "enqueueing"}
      PROVE  /\ pc[x] \in {"scanning", "filling", "enqueueing"}
             /\ chunk'[x] = chunk[x]
             /\ pc'[x] = "enqueueing" => pc[x] = "enqueueing" /\ at'[x] = at[x]
  <2>1. CASE x # th
    BY <1>2, <2>1, OthersStay DEF IInv
  <2>2. CASE x = th
    BY <1>2, <2>2 DEF PlayWithData, Skip, Claim, EnqueueFails, Unlock, ResetPlay, Goes, IInv,
                      TypeOK
  <2> QED
    BY <2>1, <2>2
<1>3. Numbers'
  BY <1>1, <1>2 DEF IInv, OrderInv, Numbers
<1> QED
  BY <1>1, <1>3 DEF IInv, OrderInv, QueuedSoundIsIntact, SoundIsInOrder

\* Between the lock and the unlocking, one thread is at work.
LEMMA OneAtWork ==
    ASSUME IInv, NEW th \in Threads, NEW x \in Threads, x # th,
           pc[th] \in {"scanning", "filling", "enqueueing", "unlocking"} \/ lock = NoThread
    PROVE  pc[x] \notin {"scanning", "filling", "enqueueing", "unlocking"}
  BY PlayerAssumption DEF IInv, HeldInv, LockHeld

\* The call that gets the lock has a number above all that were queued.
LEMMA LockKeepsOrder ==
    ASSUME IInv, NEW th \in Threads, Lock(th) PROVE OrderInv'
<1>1. /\ UNCHANGED <<queue, bytes, last, queuedAs>>
      /\ taken' = taken + 1 /\ lock = NoThread
      /\ pc'[th] = "scanning" /\ chunk'[th].nr = taken + 1
  BY DEF Lock, Goes, IInv, TypeOK, audioVars
<1>2. ASSUME NEW x \in Threads, x # th
      PROVE  pc'[x] \notin {"scanning", "filling", "enqueueing"}
  BY <1>1, <1>2, OneAtWork, OthersStay DEF IInv
<1>3. \A k \in DOMAIN queue : queuedAs[queue[k]].nr \in 0..MaxChunks
  BY LenProperties DEF IInv, TypeOK, Chunks
<1>4. taken \in Nat /\ last \in Nat
  BY DEF IInv, TypeOK
<1>5. Numbers'
  BY <1>1, <1>2, <1>3, <1>4 DEF IInv, OrderInv, Numbers
<1> QED
  BY <1>1, <1>5 DEF IInv, OrderInv, QueuedSoundIsIntact, SoundIsInOrder

\* Bytes are copied to a buffer that does not wait to be played.
LEMMA FillKeepsOrder ==
    ASSUME IInv, NEW th \in Threads, Fill(th) PROVE OrderInv'
<1>1. /\ UNCHANGED <<queue, chunk, at, last, taken, queuedAs>>
      /\ pc[th] = "filling" /\ at[th] \in Positions
      /\ bytes'[at[th]] = chunk[th]
      /\ \A b \in Positions : b # at[th] => bytes'[b] = bytes[b]
  BY DEF Fill, Goes, IInv, TypeOK, audioVars, history
<1>2. ASSUME NEW x \in Threads, x # th
      PROVE  pc'[x] \notin {"scanning", "filling", "enqueueing"}
  BY <1>1, <1>2, OneAtWork, OthersStay DEF IInv
<1>3. Numbers'
  BY <1>1, <1>2 DEF IInv, OrderInv, Numbers
<1>4. ToSet(queue) \subseteq Positions /\ at[th] \notin ToSet(queue)
  BY <1>1, LenProperties DEF IInv, TypeOK, HeldInv, Marked, ToSet
<1>5. QueuedSoundIsIntact'
  BY <1>1, <1>4 DEF IInv, OrderInv, QueuedSoundIsIntact
<1> QED
  BY <1>1, <1>3, <1>5 DEF IInv, OrderInv, SoundIsInOrder

\* The sound enqueued is the latest, and lies in the buffer that was filled.
LEMMA EnqueueKeepsOrder ==
    ASSUME IInv, NEW th \in Threads, Enqueue(th) PROVE OrderInv'
<1>1. /\ UNCHANGED <<bytes, chunk, at, last, taken>>
      /\ pc[th] = "enqueueing" /\ pc'[th] = "unlocking"
      /\ at[th] \in Positions /\ queue \in Seq(Positions)
      /\ queue' = Append(queue, at[th])
      /\ queuedAs'[at[th]] = bytes[at[th]]
      /\ \A b \in Positions : b # at[th] => queuedAs'[b] = queuedAs[b]
  BY DEF Enqueue, Goes, IInv, TypeOK
<1>2. /\ bytes[at[th]].nr = taken
      /\ last < taken
      /\ \A k \in DOMAIN queue : queuedAs[queue[k]].nr < taken
  BY <1>1 DEF IInv, OrderInv, Numbers
<1>3. ASSUME NEW x \in Threads
      PROVE  pc'[x] \notin {"scanning", "filling", "enqueueing"}
  BY <1>1, OneAtWork, OthersStay DEF IInv
<1>4. at[th] \notin ToSet(queue) /\ ToSet(queue) \subseteq Positions
  BY <1>1, LenProperties DEF IInv, TypeOK, HeldInv, Marked, ToSet
<1>5. /\ DOMAIN queue = 1..Len(queue) /\ Len(queue) \in Nat
      /\ DOMAIN queue' = 1..(Len(queue) + 1)
      /\ \A k \in DOMAIN queue : queue'[k] = queue[k]
      /\ queue'[Len(queue) + 1] = at[th]
      /\ ToSet(queue') = ToSet(queue) \cup {at[th]}
  BY <1>1, AppendIs
<1>6. \A k \in DOMAIN queue :
         queue[k] \in Positions /\ queuedAs'[queue'[k]] = queuedAs[queue[k]]
  BY <1>1, <1>4, <1>5 DEF ToSet
<1>7. queuedAs'[queue'[Len(queue) + 1]].nr = taken
  BY <1>1, <1>2, <1>5
<1>8. /\ taken \in Nat /\ last \in Nat
      /\ \A k \in DOMAIN queue : queuedAs[queue[k]].nr \in Nat
  BY <1>6 DEF IInv, TypeOK, Chunks
<1>9. \A k \in DOMAIN queue' : k \in DOMAIN queue \/ k = Len(queue) + 1
  BY <1>5
<1>10. Numbers'
  BY <1>1, <1>2, <1>3, <1>6, <1>7, <1>8, <1>9 DEF IInv, OrderInv, Numbers
<1>11. QueuedSoundIsIntact'
  BY <1>1, <1>4, <1>5 DEF IInv, OrderInv, QueuedSoundIsIntact
<1>12. SoundIsInOrder'
  <2>1. \A k \in DOMAIN queue' : last < queuedAs'[queue'[k]].nr
    BY <1>2, <1>6, <1>7, <1>9 DEF IInv, OrderInv, SoundIsInOrder
  <2>2. ASSUME NEW j \in DOMAIN queue', NEW k \in DOMAIN queue', j < k
        PROVE  queuedAs'[queue'[j]].nr < queuedAs'[queue'[k]].nr
    <3>1. j \in DOMAIN queue
      BY <1>5, <2>2
    <3>2. CASE k \in DOMAIN queue
      BY <1>6, <2>2, <3>1, <3>2 DEF IInv, OrderInv, SoundIsInOrder
    <3>3. CASE k = Len(queue) + 1
      BY <1>2, <1>6, <1>7, <3>1, <3>3
    <3> QED
      BY <1>9, <3>2, <3>3
  <2> QED
    BY <1>1, <2>1, <2>2 DEF SoundIsInOrder
<1> QED
  BY <1>10, <1>11, <1>12 DEF OrderInv

\* A reset leaves nothing queued that could be out of order.
LEMMA ResetKeepsOrder ==
    ASSUME IInv, NEW th \in Threads, ResetEnds(th) PROVE OrderInv'
<1>1. /\ UNCHANGED <<bytes, chunk, at, last, taken, queuedAs>>
      /\ DOMAIN queue' = {} /\ ToSet(queue') = {}
      /\ pc'[th] = "idle"
  BY DEF ResetEnds, Goes, IInv, TypeOK, history, ToSet
<1>2. \A x \in Threads : x # th => pc'[x] = pc[x]
  BY OthersStay DEF IInv
<1>3. Numbers'
  BY <1>1, <1>2 DEF IInv, OrderInv, Numbers
<1> QED
  BY <1>1, <1>3 DEF OrderInv, QueuedSoundIsIntact, SoundIsInOrder

\* What is played is the first of the queue, and the rest comes after it.
LEMMA AudioKeepsOrder ==
    ASSUME IInv, PlayFirst \/ \E b \in Positions : AudioPlayerAQInputCallback(b)
    PROVE  OrderInv'
<1>1. CASE PlayFirst
  <2>1. /\ UNCHANGED <<pc, at, chunk, bytes, taken, queuedAs>>
        /\ queue # <<>> /\ queue \in Seq(Positions) /\ queue' = Tail(queue)
        /\ last' = bytes[Head(queue)].nr
    BY <1>1 DEF PlayFirst, playerVars, IInv, TypeOK
  <2>2. /\ DOMAIN queue = 1..Len(queue) /\ 1 \in DOMAIN queue
        /\ Head(queue) = queue[1] /\ Head(queue) \in ToSet(queue)
        /\ ToSet(queue') \subseteq ToSet(queue)
        /\ \A k \in DOMAIN queue' : /\ k \in Nat \ {0}
                                    /\ k + 1 \in DOMAIN queue
                                    /\ queue'[k] = queue[k + 1]
    BY <2>1, TailIs
  <2>3. last' = queuedAs[queue[1]].nr
    BY <2>1, <2>2 DEF IInv, OrderInv, QueuedSoundIsIntact
  <2>4. Numbers'
    BY <2>1, <2>2, <2>3 DEF IInv, OrderInv, Numbers
  <2>5. QueuedSoundIsIntact'
    BY <2>1, <2>2 DEF IInv, OrderInv, QueuedSoundIsIntact
  <2>6. \A k \in DOMAIN queue' : last' < queuedAs'[queue'[k]].nr
    BY <2>1, <2>2, <2>3 DEF IInv, OrderInv, SoundIsInOrder
  <2>7. \A j, k \in DOMAIN queue' :
           j < k => queuedAs'[queue'[j]].nr < queuedAs'[queue'[k]].nr
    BY <2>1, <2>2 DEF IInv, OrderInv, SoundIsInOrder
  <2> QED
    BY <2>4, <2>5, <2>6, <2>7 DEF OrderInv, SoundIsInOrder
<1>2. CASE \E b \in Positions : AudioPlayerAQInputCallback(b)
  BY <1>2 DEF AudioPlayerAQInputCallback, history, IInv, OrderInv, Numbers,
              QueuedSoundIsIntact, SoundIsInOrder
<1> QED
  BY <1>1, <1>2

\* Every step keeps what is queued whole and in order.
LEMMA NextKeepsOrder == IInv /\ [Next]_vars => OrderInv'
<1>1. OrderInv /\ UNCHANGED vars => OrderInv'
  BY DEF OrderInv, Numbers, QueuedSoundIsIntact, SoundIsInOrder, vars, playerVars, audioVars,
         history
<1> QED
  BY <1>1, QuietKeepsOrder, LockKeepsOrder, FillKeepsOrder, EnqueueKeepsOrder,
     ResetKeepsOrder, AudioKeepsOrder DEF Next, IInv

\* In every behaviour what is queued is whole and in order.
LEMMA PlayerOrder == Spec => []OrderInv
<1>1. Init => OrderInv
  BY StartsInOrder
<1>2. TypeOK /\ HeldInv /\ OrderInv /\ [Next]_vars => OrderInv'
  BY NextKeepsOrder DEF IInv
<1> QED
  BY <1>1, <1>2, PlayerTypes, PlayerHeld, PTL DEF Spec

\* What a buffer holds while it waits to be played is what was enqueued.
THEOREM PlayerSoundIsIntact == Spec => []QueuedSoundIsIntact
<1>1. OrderInv => QueuedSoundIsIntact
  BY DEF OrderInv
<1> QED
  BY <1>1, PlayerOrder, PTL

\* Chunks are played in the order in which their calls got the lock.
THEOREM PlayerSoundIsInOrder == Spec => []SoundIsInOrder
<1>1. OrderInv => SoundIsInOrder
  BY DEF OrderInv
<1> QED
  BY <1>1, PlayerOrder, PTL

-----------------------------------------------------------------------------
(***************************************************************************)
(* The player is a line: each step lets a chunk in, lines it up, refuses   *)
(* it, plays or drops what waits, or changes nothing that is heard.        *)
(***************************************************************************)

Working == {"scanning", "filling", "enqueueing"}

\* A function on the first n numbers is a sequence of length n.
LEMMA ListIsSeq ==
    ASSUME NEW S, NEW n \in Nat, NEW f \in [1..n -> S]
    PROVE  f \in Seq(S) /\ Len(f) = n
<1>1. f \in Seq(S)
  BY SeqDef
<1>2. DOMAIN f = 1..n /\ DOMAIN f = 1..Len(f) /\ Len(f) \in Nat
  BY <1>1, LenProperties
<1> QED
  BY <1>1, <1>2

\* A list is the function on its places.
LEMMA SeqIsList ==
    ASSUME NEW S, NEW s \in Seq(S), NEW n \in Nat, DOMAIN s = 1..n
    PROVE  s = [k \in 1..n |-> s[k]]
<1>1. PICK m \in Nat : s \in [1..m -> S]
  BY SeqDef
<1>2. DOMAIN s = 1..m
  BY <1>1
<1>3. s = [k \in DOMAIN s |-> s[k]]
  BY <1>1, <1>2
<1> QED
  BY <1>3

\* A list with one more at its end, place by place.
LEMMA ListAppended ==
    ASSUME NEW S, NEW s \in Seq(S), NEW x \in S, NEW t,
           t = [k \in 1..(Len(s) + 1) |-> IF k = Len(s) + 1 THEN x ELSE s[k]]
    PROVE  t = Append(s, x)
<1>1. /\ DOMAIN Append(s, x) = 1..(Len(s) + 1) /\ Append(s, x) \in Seq(S)
      /\ \A k \in 1..Len(s) : Append(s, x)[k] = s[k]
      /\ Append(s, x)[Len(s) + 1] = x /\ Len(s) \in Nat
  BY AppendProperties, LenProperties
<1>2. Len(s) + 1 \in Nat
  BY <1>1
<1>3. Append(s, x) = [k \in 1..(Len(s) + 1) |-> Append(s, x)[k]]
  BY <1>1, <1>2, SeqIsList, Zenon
<1> QED
  BY <1>1, <1>3

\* A list without its head, place by place.
LEMMA ListsTail ==
    ASSUME NEW S, NEW s \in Seq(S), s # <<>>
    PROVE  /\ Head(s) = s[1] /\ Len(Tail(s)) = Len(s) - 1
           /\ Tail(s) = [k \in 1..(Len(s) - 1) |-> s[k + 1]]
<1>1. /\ Head(s) = s[1] /\ Len(Tail(s)) = Len(s) - 1 /\ Tail(s) \in Seq(S)
      /\ DOMAIN Tail(s) = 1..(Len(s) - 1) /\ Len(s) - 1 \in Nat
      /\ \A k \in 1..(Len(s) - 1) : Tail(s)[k] = s[k + 1]
  BY HeadTailProperties, LenProperties, EmptySeq
<1>2. Tail(s) = [k \in 1..(Len(s) - 1) |-> Tail(s)[k]]
  BY <1>1, SeqIsList
<1> QED
  BY <1>1, <1>2

\* The sounds of a queue, one for each buffer.
LEMMA SoundsAre ==
    ASSUME TypeOK
    PROVE  /\ queue \in Seq(Positions) /\ Len(queue) \in Nat /\ DOMAIN queue = 1..Len(queue)
           /\ Sounds \in Seq(0..MaxChunks) /\ Len(Sounds) = Len(queue)
           /\ DOMAIN Sounds = DOMAIN queue
           /\ \A k \in DOMAIN queue : queue[k] \in Positions /\ Sounds[k] = bytes[queue[k]].nr
<1>1. /\ queue \in Seq(Positions) /\ Len(queue) \in Nat /\ DOMAIN queue = 1..Len(queue)
      /\ \A k \in DOMAIN queue : queue[k] \in Positions
  BY LenProperties DEF TypeOK
<1>2. \A k \in 1..Len(queue) : bytes[queue[k]].nr \in 0..MaxChunks
  BY <1>1 DEF TypeOK, Chunks
<1>3. Sounds \in [1..Len(queue) -> 0..MaxChunks]
  BY <1>2 DEF Sounds
<1>4. Sounds \in Seq(0..MaxChunks) /\ Len(Sounds) = Len(queue)
  BY <1>1, <1>3, ListIsSeq
<1> QED
  BY <1>1, <1>3, <1>4 DEF Sounds

\* What is in hand: the last chunk taken, while a thread is at work.
SomeoneWorks == \E th \in Threads : pc[th] \in Working
HandInv ==
    /\ SomeoneWorks => InHand = taken /\ taken \in Nat \ {0}
    /\ ~ SomeoneWorks => InHand = 0

\* The thread at work has the lock, and the last chunk.
LEMMA HandIsLast == IInv => HandInv
<1> SUFFICES ASSUME IInv PROVE HandInv
  OBVIOUS
<1>1. ASSUME NEW th \in Threads, pc[th] \in Working
      PROVE  InHand = taken /\ taken \in Nat \ {0}
  <2>1. lock = th /\ chunk[th].nr = taken
    BY <1>1 DEF IInv, HeldInv, LockHeld, OrderInv, Numbers, Working
  <2>2. lock # NoThread
    BY <2>1, PlayerAssumption
  <2>3. last < taken /\ last \in Nat /\ taken \in Nat
    BY <1>1 DEF IInv, TypeOK, OrderInv, Numbers, Working
  <2> QED
    BY <1>1, <2>1, <2>2, <2>3 DEF InHand, Working
<1>2. ASSUME ~ SomeoneWorks PROVE InHand = 0
  BY <1>2 DEF InHand, IInv, TypeOK, Working, SomeoneWorks
<1> QED
  BY <1>1, <1>2 DEF HandInv, SomeoneWorks

\* A buffer outside the queue leaves room in it for one more.
LEMMA RoomForOne ==
    ASSUME NEW q \in Seq(Positions), IsInjective(q), NEW b \in Positions, b \notin ToSet(q)
    PROVE  Len(q) < Buffers
<1>1. /\ DOMAIN q = 1..Len(q) /\ Len(q) \in Nat /\ q \in [1..Len(q) -> Positions]
      /\ \A k \in 1..Len(q) : q[k] # b
  BY LenProperties DEF ToSet
<1>2. q \in [1..Len(q) -> Positions \ {b}]
  BY <1>1
<1>3. q \in Injection(1..Len(q), Positions \ {b})
  BY <1>1, <1>2 DEF Injection, IsInjective
<1>4. /\ IsFiniteSet(Positions) /\ Cardinality(Positions) = Buffers
      /\ Buffers \in Nat \ {0}
  BY FS_Interval, PlayerAssumption DEF Positions
<1>5. IsFiniteSet(Positions \ {b}) /\ Cardinality(Positions \ {b}) = Buffers - 1
  BY <1>4, FS_RemoveElement
<1>6. Cardinality(1..Len(q)) = Len(q)
  BY <1>1, FS_Interval
<1>7. Cardinality(1..Len(q)) <= Cardinality(Positions \ {b})
  BY <1>3, <1>5, FS_Injection
<1> QED
  BY <1>1, <1>4, <1>5, <1>6, <1>7

\* A step that changes neither what is in hand nor what waits is no step of the
\* line.
LEMMA SameSounds ==
    ASSUME UNCHANGED <<taken, last, queue>>, InHand' = InHand,
           \A k \in 1..Len(queue) : bytes'[queue[k]] = bytes[queue[k]]
    PROVE  [Line!LineNext]_(Line!lineVars)
<1>1. Sounds' = Sounds
  BY DEF Sounds
<1> QED
  BY <1>1 DEF Line!lineVars

\* Calls that wait, look for a buffer, fill it or return, and callbacks.
LEMMA QuietStepsOfTheLine ==
    ASSUME IInv, HandInv, HandInv',
           \/ \E th \in Threads : \/ PlayWithData(th) \/ Skip(th) \/ Claim(th) \/ Fill(th)
                                  \/ Unlock(th) \/ ResetPlay(th)
           \/ \E b \in Positions : AudioPlayerAQInputCallback(b)
           \/ UNCHANGED vars
    PROVE  [Line!LineNext]_(Line!lineVars)
<1>1. UNCHANGED <<taken, last, queue>>
  BY DEF PlayWithData, Skip, Claim, Fill, Unlock, ResetPlay, AudioPlayerAQInputCallback, vars,
         playerVars, audioVars, history
<1>2. \A x \in Threads : pc'[x] \in Working <=> pc[x] \in Working
  BY DEF PlayWithData, Skip, Claim, Fill, Unlock, ResetPlay, AudioPlayerAQInputCallback, vars,
         playerVars, Goes, Working, IInv, TypeOK
<1>3. InHand' = InHand
  BY <1>1, <1>2 DEF HandInv, SomeoneWorks
<1>4. \A k \in 1..Len(queue) : bytes'[queue[k]] = bytes[queue[k]]
  <2>1. CASE \E th \in Threads : Fill(th)
    <3>1. PICK th \in Threads : Fill(th)
      BY <2>1
    <3>2. /\ pc[th] = "filling" /\ bytes' = [bytes EXCEPT ![at[th]] = chunk[th]]
      BY <3>1 DEF Fill, Goes
    <3>3. \A k \in 1..Len(queue) : queue[k] \in Positions /\ queue[k] # at[th]
      BY <3>2, SoundsAre DEF IInv, HeldInv, Marked, ToSet
    <3> QED
      BY <3>2, <3>3 DEF IInv, TypeOK
  <2>2. CASE bytes' = bytes
    BY <2>2
  <2> QED
    BY <2>1, <2>2 DEF PlayWithData, Skip, Claim, Unlock, ResetPlay, AudioPlayerAQInputCallback,
       vars, playerVars
<1> QED
  BY <1>1, <1>3, <1>4, SameSounds

\* The call that gets the lock is let in.
LEMMA LockingLetsIn ==
    ASSUME IInv, HandInv, HandInv', NEW th \in Threads, Lock(th)
    PROVE  Line!LetIn
<1>1. ~ SomeoneWorks /\ InHand = 0
  BY PlayerAssumption DEF Lock, IInv, HeldInv, LockHeld, HandInv, SomeoneWorks, Working
<1>2. pc'[th] = "scanning"
  BY DEF Lock, Goes, IInv, TypeOK
<1>3. InHand' = taken' /\ taken' = taken + 1
  BY <1>2 DEF HandInv, SomeoneWorks, Working, Lock
<1>4. Sounds' = Sounds /\ last' = last
  BY DEF Lock, Sounds, audioVars
<1> QED
  BY <1>1, <1>3, <1>4 DEF Line!LetIn, Line!None

\* While one thread has come to the enqueueing, it alone has something in hand,
\* and then nobody has.
LEMMA HandIsEmptied ==
    ASSUME IInv, HandInv, HandInv', NEW th \in Threads, Goes(th, "enqueueing", "unlocking"),
           taken' = taken
    PROVE  InHand = taken /\ InHand # 0 /\ InHand' = 0
<1>1. pc[th] = "enqueueing" /\ pc'[th] = "unlocking" /\ \A x \in Threads : x # th => pc'[x] = pc[x]
  BY DEF Goes, IInv, TypeOK
<1>2. ~ SomeoneWorks'
  BY <1>1, OneAtWork DEF SomeoneWorks, Working
<1> QED
  BY <1>1, <1>2 DEF HandInv, SomeoneWorks, Working

\* The chunk in hand goes to the end of the line, where there is room for it.
LEMMA EnqueueingLinesUp ==
    ASSUME IInv, HandInv, HandInv', NEW th \in Threads, Enqueue(th)
    PROVE  Line!LineUp
<1>1. /\ UNCHANGED <<bytes, taken, last>> /\ Goes(th, "enqueueing", "unlocking")
      /\ pc[th] = "enqueueing" /\ at[th] \in Positions /\ queue' = Append(queue, at[th])
  BY DEF Enqueue, Goes, IInv, TypeOK
<1>2. InHand = taken /\ InHand # 0 /\ InHand' = 0
  BY <1>1, HandIsEmptied
<1>3. bytes[at[th]].nr = taken /\ at[th] \notin ToSet(queue) /\ IsInjective(queue)
  BY <1>1 DEF IInv, OrderInv, Numbers, HeldInv, Marked, Once
<1>4. Len(queue) < Buffers
  BY <1>1, <1>3, RoomForOne, SoundsAre DEF IInv
<1>5. Sounds' = Append(Sounds, taken)
  <2>1. /\ Len(queue') = Len(queue) + 1
        /\ \A k \in 1..Len(queue) : queue'[k] = queue[k]
        /\ queue'[Len(queue) + 1] = at[th]
    BY <1>1, SoundsAre, AppendProperties DEF IInv
  <2>2. Sounds' = [k \in 1..(Len(Sounds) + 1) |->
                      IF k = Len(Sounds) + 1 THEN taken ELSE Sounds[k]]
    BY <1>1, <1>3, <2>1, SoundsAre DEF IInv, Sounds
  <2>3. Sounds \in Seq(0..MaxChunks) /\ taken \in 0..MaxChunks
    BY SoundsAre DEF IInv, TypeOK
  <2> QED
    BY <2>2, <2>3, ListAppended
<1> QED
  BY <1>1, <1>2, <1>4, <1>5, SoundsAre DEF Line!LineUp, Line!None, IInv

\* A buffer that the audio queue does not take is a chunk refused.
LEMMA FailingRefuses ==
    ASSUME IInv, HandInv, HandInv', NEW th \in Threads, EnqueueFails(th)
    PROVE  Line!Refuse
<1>1. UNCHANGED <<bytes, queue, taken, last>> /\ Goes(th, "enqueueing", "unlocking")
  BY DEF EnqueueFails, audioVars, history
<1>2. InHand # 0 /\ InHand' = 0
  BY <1>1, HandIsEmptied
<1> QED
  BY <1>1, <1>2 DEF Line!Refuse, Line!None, Sounds

\* A reset drops what waits, and what is in hand stays there.
LEMMA ResettingDrops ==
    ASSUME IInv, HandInv, HandInv', NEW th \in Threads, ResetEnds(th)
    PROVE  Line!DropLine
<1>1. UNCHANGED <<taken, last>> /\ queue' = <<>>
  BY DEF ResetEnds, history
<1>2. \A x \in Threads : pc'[x] \in Working <=> pc[x] \in Working
  BY DEF ResetEnds, Goes, Working, IInv, TypeOK
<1>3. InHand' = InHand
  BY <1>1, <1>2 DEF HandInv, SomeoneWorks
<1>4. Sounds' = <<>>
  <2>1. Len(queue') = 0
    BY <1>1
  <2> QED
    BY <2>1 DEF Sounds
<1> QED
  BY <1>1, <1>3, <1>4 DEF Line!DropLine

\* The audio queue plays the head of the line.
LEMMA PlayingPlaysHead ==
    ASSUME IInv, HandInv, HandInv', PlayFirst
    PROVE  Line!PlayHead
<1>1. /\ UNCHANGED <<bytes, pc, taken>> /\ queue # <<>> /\ queue' = Tail(queue)
      /\ last' = bytes[Head(queue)].nr
  BY DEF PlayFirst, playerVars
<1>2. InHand' = InHand
  BY <1>1 DEF HandInv, SomeoneWorks
<1>3. /\ Len(queue) \in Nat \ {0} /\ Head(queue) = queue[1] /\ Len(queue') = Len(queue) - 1
      /\ \A k \in 1..(Len(queue) - 1) : queue'[k] = queue[k + 1]
  BY <1>1, SoundsAre, HeadTailProperties, EmptySeq DEF IInv
<1>4. /\ Sounds # <<>> /\ Head(Sounds) = Sounds[1] /\ Len(Tail(Sounds)) = Len(queue) - 1
      /\ Tail(Sounds) = [k \in 1..(Len(queue) - 1) |-> Sounds[k + 1]]
  <2>1. Sounds \in Seq(0..MaxChunks) /\ Len(Sounds) = Len(queue)
    BY SoundsAre DEF IInv
  <2>2. Sounds # <<>>
    BY <1>3, <2>1
  <2> QED
    BY <1>3, <2>1, <2>2, ListsTail
<1>5. Sounds' = Tail(Sounds)
  <2>1. \A k \in 1..(Len(queue) - 1) : Sounds[k + 1] = bytes[queue[k + 1]].nr
    BY <1>3 DEF Sounds
  <2> QED
    BY <1>1, <1>3, <1>4, <2>1 DEF Sounds
<1>6. last' = Head(Sounds)
  BY <1>1, <1>3, <1>4 DEF Sounds
<1> QED
  BY <1>1, <1>2, <1>4, <1>5, <1>6 DEF Line!PlayHead

\* Every step of the player is a step of the line, or changes nothing in it.
LEMMA PlayerSteps ==
    ASSUME IInv, HandInv, HandInv', [Next]_vars
    PROVE  [Line!LineNext]_(Line!lineVars)
<1>1. CASE \E th \in Threads : Lock(th) \/ Enqueue(th) \/ EnqueueFails(th) \/ ResetEnds(th)
  BY <1>1, LockingLetsIn, EnqueueingLinesUp, FailingRefuses, ResettingDrops DEF Line!LineNext
<1>2. CASE PlayFirst
  BY <1>2, PlayingPlaysHead DEF Line!LineNext
<1> QED
  BY <1>1, <1>2, QuietStepsOfTheLine DEF Next

\* The player is a line of chunks, first in, first out: whatever its callers,
\* its resets and the audio queue's thread do, no chunk that waits is lost,
\* repeated, overwritten or overtaken.
THEOREM PlayerIsALine == Spec => SoundIsALine
<1>1. Init => Line!LineInit
  <2> SUFFICES ASSUME Init PROVE Line!LineInit
    OBVIOUS
  <2>1. Sounds = <<>>
    BY DEF Init, Sounds
  <2> QED
    BY <2>1 DEF Init, InHand, Line!LineInit, Line!None
<1>2. IInv /\ HandInv /\ HandInv' /\ [Next]_vars => [Line!LineNext]_(Line!lineVars)
  BY PlayerSteps
<1>3. Spec => Line!LineInit /\ [][Line!LineNext]_(Line!lineVars)
  <2>1. Spec => []IInv
    BY PlayerTypes, PlayerHeld, PlayerOrder, PTL DEF IInv
  <2> QED
    BY <1>1, <1>2, <2>1, HandIsLast, PTL DEF Spec
<1>4. Line!LineInit /\ [][Line!LineNext]_(Line!lineVars) => Line!LineSpec
  BY PTL DEF Line!LineSpec
<1> QED
  BY <1>3, <1>4, PTL DEF SoundIsALine
=============================================================================
