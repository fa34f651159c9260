---------------------------- MODULE PCMDataPlayer ----------------------------
(***************************************************************************)
(* PCMDataPlayer: threads hand chunks of sound to an audio queue through a *)
(* handful of reusable buffers.  A lock serialises playWithData:, which    *)
(* spins under it until it finds a buffer marked free; the audio queue's   *)
(* own thread marks buffers free, and resetPlay runs, without the lock.    *)
(*                                                                         *)
(* A chunk is its place in the order in which the calls got the lock, and  *)
(* whether it holds any sound.                                             *)
(***************************************************************************)
EXTENDS Naturals, SequencesExt

CONSTANTS Threads,      \* the callers
          Buffers,      \* how many buffers: QUEUE_BUFFER_SIZE
          NoThread,     \* the lock is free
          MaxChunks     \* bound on the calls of playWithData:

ASSUME PlayerAssumption ==
    /\ NoThread \notin Threads
    /\ Buffers \in Nat \ {0}
    /\ MaxChunks \in Nat

VARIABLES
    pc,         \* where each thread is
    lock,       \* sysnLock
    at,         \* i, the buffer a thread looks at or has claimed
    chunk,      \* the data a thread has been called with
    used,       \* audioQueueBufferUsed
    bytes,      \* what each buffer holds
    queue,      \* the audio queue: the buffers to play, in order
    returning   \* the buffers whose callback is due

\* History variables.
VARIABLES
    taken,      \* calls that have got the lock
    last,       \* the last chunk played
    queuedAs    \* the chunk each buffer held when it was enqueued

playerVars == <<pc, lock, at, chunk, used, bytes>>
audioVars == <<queue, returning>>
history == <<taken, last, queuedAs>>
vars == <<playerVars, audioVars, history>>

Places == {"idle", "waiting", "scanning", "filling", "enqueueing", "unlocking", "resetting"}
Positions == 0..(Buffers - 1)
Chunks == [nr : 0..MaxChunks, empty : BOOLEAN]
NoChunk == [nr |-> 0, empty |-> TRUE]

Init ==
    /\ pc = [th \in Threads |-> "idle"]
    /\ lock = NoThread
    /\ at = [th \in Threads |-> 0]
    /\ chunk = [th \in Threads |-> NoChunk]
    /\ used = [i \in Positions |-> FALSE]
    /\ bytes = [i \in Positions |-> NoChunk]
    /\ queue = <<>>
    /\ returning = {}
    /\ taken = 0
    /\ last = 0
    /\ queuedAs = [i \in Positions |-> NoChunk]

Goes(th, from, to) ==
    /\ pc[th] = from
    /\ pc' = [pc EXCEPT ![th] = to]

\* Calls on their way, so that no more than MaxChunks are made.
Waiting == {th \in Threads : pc[th] = "waiting"}

-----------------------------------------------------------------------------
\* playWithData: is called...
PlayWithData(th) ==
    /\ taken + Cardinality(Waiting) < MaxChunks
    /\ Goes(th, "idle", "waiting")
    /\ UNCHANGED <<lock, at, chunk, used, bytes, audioVars, history>>

\* ...and gets the lock.
Lock(th) ==
    /\ lock = NoThread
    /\ Goes(th, "waiting", "scanning")
    /\ lock' = th
    /\ taken' = taken + 1
    /\ \E empty \in BOOLEAN :
          chunk' = [chunk EXCEPT ![th] = [nr |-> taken + 1, empty |-> empty]]
    /\ at' = [at EXCEPT ![th] = 0]
    /\ UNCHANGED <<used, bytes, audioVars, last, queuedAs>>

\* Mutant: i runs past the last buffer.
Skip_Unwrapped(th) ==
    /\ pc[th] = "scanning"
    /\ at' = [at EXCEPT ![th] = @ + 1]
    /\ UNCHANGED <<pc, lock, chunk, used, bytes, audioVars, history>>

\* The buffer looked at is marked used, or was so when it was last read: the
\* array is plain memory that the audio queue's thread writes without the lock.
Skip(th) ==
    /\ pc[th] = "scanning"
    /\ at' = [at EXCEPT ![th] = (@ + 1) % Buffers]
    /\ UNCHANGED <<pc, lock, chunk, used, bytes, audioVars, history>>

\* Mutant: the buffer is taken without being marked.
Claim_Unmarked(th) ==
    /\ ~ used[at[th]]
    /\ Goes(th, "scanning", "filling")
    /\ UNCHANGED <<lock, at, chunk, used, bytes, audioVars, history>>

\* The buffer looked at is free: it is marked.
Claim(th) ==
    /\ ~ used[at[th]]
    /\ Goes(th, "scanning", "filling")
    /\ used' = [used EXCEPT ![at[th]] = TRUE]
    /\ UNCHANGED <<lock, at, chunk, bytes, audioVars, history>>

\* Mutant: the lock covers the search for a buffer only.
Fill_Unlocked(th) ==
    /\ Goes(th, "filling", "enqueueing")
    /\ bytes' = [bytes EXCEPT ![at[th]] = chunk[th]]
    /\ lock' = NoThread
    /\ UNCHANGED <<at, chunk, used, audioVars, history>>

\* mAudioDataByteSize is set and the data copied.
Fill(th) ==
    /\ Goes(th, "filling", "enqueueing")
    /\ bytes' = [bytes EXCEPT ![at[th]] = chunk[th]]
    /\ UNCHANGED <<lock, at, chunk, used, audioVars, history>>

\* AudioQueueEnqueueBuffer accepts the buffer...
Enqueue(th) ==
    /\ ~ bytes[at[th]].empty
    /\ Goes(th, "enqueueing", "unlocking")
    /\ queue' = Append(queue, at[th])
    /\ queuedAs' = [queuedAs EXCEPT ![at[th]] = bytes[at[th]]]
    /\ UNCHANGED <<lock, at, chunk, used, bytes, returning, taken, last>>

Resetting == \E th \in Threads : pc[th] = "resetting"

\* Mutant: a check of the status that returns without unlocking.
EnqueueFails_Returning(th) ==
    /\ bytes[at[th]].empty \/ Resetting
    /\ Goes(th, "enqueueing", "idle")
    /\ UNCHANGED <<lock, at, chunk, used, bytes, audioVars, history>>

\* ...or refuses it, because it is empty or a reset is under way.  The status
\* is not looked at: the buffer stays marked.
EnqueueFails(th) ==
    /\ bytes[at[th]].empty \/ Resetting
    /\ Goes(th, "enqueueing", "unlocking")
    /\ UNCHANGED <<lock, at, chunk, used, bytes, audioVars, history>>

\* The call returns; its locals are gone.
Unlock(th) ==
    /\ Goes(th, "unlocking", "idle")
    /\ lock' = NoThread
    /\ at' = [at EXCEPT ![th] = 0]
    /\ chunk' = [chunk EXCEPT ![th] = NoChunk]
    /\ UNCHANGED <<used, bytes, audioVars, history>>

-----------------------------------------------------------------------------
\* resetPlay, without the lock: AudioQueueReset gives every buffer back.
ResetPlay(th) ==
    /\ Goes(th, "idle", "resetting")
    /\ UNCHANGED <<lock, at, chunk, used, bytes, audioVars, history>>

ResetEnds(th) ==
    /\ Goes(th, "resetting", "idle")
    /\ queue' = <<>>
    /\ returning' = returning \cup ToSet(queue)
    /\ UNCHANGED <<lock, at, chunk, used, bytes, history>>

\* The audio queue has played its first buffer.
PlayFirst ==
    /\ queue # <<>>
    /\ last' = bytes[Head(queue)].nr
    /\ queue' = Tail(queue)
    /\ returning' = returning \cup {Head(queue)}
    /\ UNCHANGED <<playerVars, taken, queuedAs>>

\* Mutant: the buffer given back is not compared with the three.
AudioPlayerAQInputCallback_Any(b) ==
    /\ b \in returning
    /\ returning' = returning \ {b}
    /\ used' = [i \in Positions |-> FALSE]
    /\ UNCHANGED <<pc, lock, at, chunk, bytes, queue, history>>

\* AudioPlayerAQInputCallback and resetBufferState: on the audio queue's thread.
AudioPlayerAQInputCallback(b) ==
    /\ b \in returning
    /\ returning' = returning \ {b}
    /\ used' = [used EXCEPT ![b] = FALSE]
    /\ UNCHANGED <<pc, lock, at, chunk, bytes, queue, history>>

-----------------------------------------------------------------------------
Next ==
    \/ \E th \in Threads :
          \/ PlayWithData(th)
          \/ Lock(th)
          \/ Skip(th)
          \/ Claim(th)
          \/ Fill(th)
          \/ Enqueue(th)
          \/ EnqueueFails(th)
          \/ Unlock(th)
          \/ ResetPlay(th)
          \/ ResetEnds(th)
    \/ PlayFirst
    \/ \E b \in Positions : AudioPlayerAQInputCallback(b)

Spec == Init /\ [][Next]_vars

\* Threads run, the sound goes on and its callbacks come; a thread that looks
\* at a free buffer again and again sees it free in the end.  No fairness of
\* the lock is needed while the calls are bounded.
Fairness ==
    /\ \A th \in Threads :
          /\ WF_vars(Lock(th))
          /\ WF_vars(Skip(th))
          /\ SF_vars(Claim(th))
          /\ WF_vars(Fill(th))
          /\ WF_vars(Enqueue(th) \/ EnqueueFails(th))
          /\ WF_vars(Unlock(th))
          /\ WF_vars(ResetEnds(th))
    /\ WF_vars(PlayFirst)
    /\ \A b \in Positions : WF_vars(AudioPlayerAQInputCallback(b))

LiveSpec == Spec /\ Fairness

-----------------------------------------------------------------------------
\* The variables have the types the code gives them.
TypeOK ==
    /\ pc \in [Threads -> Places]
    /\ lock \in Threads \cup {NoThread}
    /\ at \in [Threads -> Positions]
    /\ chunk \in [Threads -> Chunks]
    /\ used \in [Positions -> BOOLEAN]
    /\ bytes \in [Positions -> Chunks]
    /\ queue \in Seq(Positions)
    /\ returning \subseteq Positions
    /\ taken \in 0..MaxChunks
    /\ last \in 0..MaxChunks
    /\ queuedAs \in [Positions -> Chunks]

Claimants(b) == {th \in Threads : pc[th] \in {"filling", "enqueueing"} /\ at[th] = b}
InAudioQueue == ToSet(queue) \cup returning

\* No buffer is in two hands: a buffer marked free is in none, a buffer a
\* thread is filling is neither another thread's nor the audio queue's, and a
\* buffer in the audio queue is in it once.
BuffersHaveOneHolder ==
    /\ \A b \in Positions :
          /\ ~ used[b] => Claimants(b) = {} /\ b \notin InAudioQueue
          /\ Cardinality(Claimants(b)) <= 1
          /\ Claimants(b) # {} => b \notin InAudioQueue
    /\ IsInjective(queue)
    /\ ToSet(queue) \cap returning = {}

\* What a buffer holds while it waits to be played is what was enqueued.
QueuedSoundIsIntact ==
    \A b \in ToSet(queue) : bytes[b] = queuedAs[b]

\* Chunks are played in the order in which their calls got the lock, none
\* twice, whatever the resets drop between them.
SoundIsInOrder ==
    LET nr(k) == queuedAs[queue[k]].nr IN
    /\ \A k \in DOMAIN queue : last < nr(k)
    /\ \A j, k \in DOMAIN queue : j < k => nr(j) < nr(k)

\* The chunk of the thread that has the lock, until it is queued or refused.
InHand ==
    IF lock # NoThread /\ pc[lock] \in {"scanning", "filling", "enqueueing"}
    THEN chunk[lock].nr ELSE 0

\* What will be heard: the bytes in the buffers that wait, in their order.
Sounds == [k \in 1..Len(queue) |-> bytes[queue[k]].nr]

Line == INSTANCE SoundLine
    WITH Capacity <- Buffers, calls <- taken, inHand <- InHand, line <- Sounds, played <- last

\* The player is a line of chunks, first in, first out: callers, resets and the
\* audio queue's thread, which share three buffers and only half use the lock,
\* never lose, repeat, overwrite or overtake a chunk that waits.
SoundIsALine == Line!LineSpec

\* Buffers marked used that nobody will ever mark free.
Lost == {b \in Positions : used[b] /\ Claimants(b) = {} /\ b \notin InAudioQueue}

\* A call returns, unless every buffer has been lost to a failed enqueue; then
\* the call that spins for one holds the lock for ever.
CallsReturn ==
    \A th \in Threads :
        pc[th] = "waiting" ~> pc[th] = "idle" \/ Lost = Positions
=============================================================================
