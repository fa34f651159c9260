---------------------------- MODULE PCMFilePlayer ----------------------------
(***************************************************************************)
(* PCMFilePlayer plays a file of the bundle through an audio queue.  A     *)
(* call of player opens the file and fills the buffers of a new queue on   *)
(* the main thread, while the thread of the queue refills those that have  *)
(* been played: both go through readPCMAndPlay, one at a time thanks to    *)
(* synlock.  But the file, the data buffer, the lock and the queue are     *)
(* fields, and the next call of player replaces them one after the other   *)
(* under the hands of the queues that still play.                          *)
(*                                                                         *)
(* The n-th call of player makes file, data buffer, lock and queue n.      *)
(***************************************************************************)
EXTENDS Sequences, Naturals

CONSTANTS MaxPlayers,       \* bound on the calls of player
          QueueBufferSize,  \* QUEUE_BUFFER_SIZE
          Chunks            \* length of the file, in reads of EVERY_READ_LENGTH

ASSUME FilePlayerAssumption ==
    /\ MaxPlayers \in Nat \ {0}
    /\ QueueBufferSize \in Nat \ {0}
    /\ Chunks \in Nat

Players == 1..MaxPlayers
Buffers == Players \X (1..QueueBufferSize)

\* The main thread and the thread of each audio queue.
Main == 0
Threads == {Main} \cup Players

VARIABLES
    file, pcmDataBuffer, synlock, audioQueue,   \* the fields; 0 is nil
    position,       \* chunks read of the file the field holds
    data,           \* what the data buffer of the field holds
    held,           \* the threads that hold each lock
    main,           \* where the main thread is in player
    next,           \* the buffer it fills next
    reader          \* where each thread is in readPCMAndPlay

\* The audio queues (external).
VARIABLES
    state,          \* of each queue
    queue,          \* the buffers that wait to be played
    returned,       \* the buffers to be handed to the callback
    content         \* what each buffer holds

\* History variables; until two players overlap, what is heard is recorded and
\* the bytes of the buffers are followed.
VARIABLES
    heard,          \* what each queue has played
    cut,            \* the queues that were stopped
    overlapped      \* has player been called while an earlier queue was busy?

fields == <<file, pcmDataBuffer, synlock, audioQueue>>
queueVars == <<state, queue, returned, content>>
history == <<heard, cut, overlapped>>
vars == <<fields, position, data, held, main, next, reader, queueVars, history>>

nil == 0

\* A chunk of a file; bytes nobody wrote, or that two threads wrote; no bytes.
Chunk(f, n) == <<f, n>>
Noise == <<0, 0>>
Empty == <<>>
Contents == (Players \X (1..Chunks)) \cup {Noise, Empty}

Outside == [at |-> "outside", buffer |-> <<1, 1>>, lock |-> nil, some |-> FALSE]

Init ==
    /\ file = nil /\ pcmDataBuffer = nil /\ synlock = nil /\ audioQueue = nil
    /\ position = 0
    /\ data = Noise
    /\ held = [l \in Players |-> {}]
    /\ main = "outside" /\ next = 1
    /\ reader = [t \in Threads |-> Outside]
    /\ state = [q \in Players |-> "none"]
    /\ queue = [q \in Players |-> <<>>]
    /\ returned = [q \in Players |-> <<>>]
    /\ content = [b \in Buffers |-> Empty]
    /\ heard = [q \in Players |-> <<>>]
    /\ cut = {}
    /\ overlapped = FALSE

Goes(t, where) == reader' = [reader EXCEPT ![t].at = where]

\* Calls readPCMAndPlay, which evaluates synlock before it waits for it.
ReadPCMAndPlay(t, buffer) ==
    reader' = [reader EXCEPT ![t] =
        [at |-> "lock", buffer |-> buffer, lock |-> synlock, some |-> FALSE]]

Busy(q) == queue[q] # <<>> \/ returned[q] # <<>> \/ reader[q].at # "outside"

-----------------------------------------------------------------------------
\* player: the file is opened, ...
Player ==
    /\ main = "outside"
    /\ file < MaxPlayers
    /\ file' = file + 1 /\ position' = 0
    /\ main' = "data"
    /\ \/ /\ \A q \in Players : ~ Busy(q)
          /\ UNCHANGED <<content, history>>
       \/ /\ \E q \in Players : Busy(q)
          /\ overlapped' = TRUE /\ heard' = [q \in Players |-> <<>>] /\ cut' = {}
          /\ content' = [b \in Buffers |-> IF content[b] = Empty THEN Empty ELSE Noise]
    /\ UNCHANGED <<pcmDataBuffer, synlock, audioQueue, data, held, next, reader,
                   state, queue, returned>>

\* ... the data buffer allocated, ...
PlayerData ==
    /\ main = "data"
    /\ pcmDataBuffer' = file /\ data' = Noise
    /\ main' = "lock"
    /\ UNCHANGED <<file, synlock, audioQueue, position, held, next, reader,
                   queueVars, history>>

\* ... the lock made, ...
PlayerLock ==
    /\ main = "lock"
    /\ synlock' = file
    /\ main' = "queue"
    /\ UNCHANGED <<file, pcmDataBuffer, audioQueue, position, data, held, next,
                   reader, queueVars, history>>

\* ... initAudio makes the queue and its buffers, and the queue is started;
InitAudio ==
    /\ main = "queue"
    /\ audioQueue' = file
    /\ state' = [state EXCEPT ![file] = "running"]
    /\ main' = "fill" /\ next' = 1
    /\ UNCHANGED <<file, pcmDataBuffer, synlock, position, data, held, reader,
                   queue, returned, content, history>>

\* Mutant: the loop does not go on to the next buffer.
FillBuffer_First ==
    /\ main = "fill" /\ reader[Main].at = "outside"
    /\ next <= QueueBufferSize
    /\ ReadPCMAndPlay(Main, <<audioQueue, 1>>)
    /\ next' = next + 1
    /\ UNCHANGED <<fields, position, data, held, main, queueVars, history>>

\* each buffer is read and queued in turn;
FillBuffer ==
    /\ main = "fill" /\ reader[Main].at = "outside"
    /\ next <= QueueBufferSize
    /\ ReadPCMAndPlay(Main, <<audioQueue, next>>)
    /\ next' = next + 1
    /\ UNCHANGED <<fields, position, data, held, main, queueVars, history>>

\* player returns.
PlayerReturns ==
    /\ main = "fill" /\ reader[Main].at = "outside"
    /\ next > QueueBufferSize
    /\ main' = "outside"
    /\ UNCHANGED <<fields, position, data, held, next, reader, queueVars, history>>

-----------------------------------------------------------------------------
\* The callback of a queue, on the thread of the queue.
AudioPlayerAQInputCallback(q) ==
    /\ reader[q].at = "outside"
    /\ returned[q] # <<>>
    /\ ReadPCMAndPlay(q, Head(returned[q]))
    /\ returned' = [returned EXCEPT ![q] = Tail(@)]
    /\ UNCHANGED <<fields, position, data, held, main, next, state, queue, content, history>>

\* Mutant: readers do not wait for each other.
Lock_Missing(t) ==
    /\ reader[t].at = "lock"
    /\ held' = [held EXCEPT ![reader[t].lock] = @ \cup {t}]
    /\ Goes(t, "read")
    /\ UNCHANGED <<fields, position, data, main, next, queueVars, history>>

\* [synlock lock] returns.
Lock(t) ==
    /\ reader[t].at = "lock"
    /\ held[reader[t].lock] = {}
    /\ held' = [held EXCEPT ![reader[t].lock] = {t}]
    /\ Goes(t, "read")
    /\ UNCHANGED <<fields, position, data, main, next, queueVars, history>>

\* Mutant: a last read that is not full is taken for the end of the file.
AtEnd_Partial == position + 1 >= Chunks

\* Mutant: the end of the file is noticed one read too late.
AtEnd_Late == position > Chunks

\* fread returns no byte.
AtEnd == position = Chunks

\* fread, from the file and into the data buffer the fields hold now.
Read(t) ==
    /\ reader[t].at = "read"
    /\ reader' = [reader EXCEPT ![t].at = "copy", ![t].some = ~ AtEnd]
    /\ \/ /\ AtEnd
          /\ UNCHANGED <<position, data>>
       \/ /\ ~ AtEnd
          /\ position' = position + 1
          /\ data' = IF overlapped THEN Noise ELSE Chunk(file, position + 1)
    /\ UNCHANGED <<fields, held, main, next, queueVars, history>>

\* The copied bytes: those of the data buffer the field holds now.  Once two
\* players overlap, threads with different locks write it, and it may hold a
\* chunk of either file or a mixture: which one is not followed.
Copied(t) ==
    IF ~ reader[t].some THEN Empty ELSE IF overlapped THEN Noise ELSE data

\* The bytes are copied to the buffer.
Copy(t) ==
    /\ reader[t].at = "copy"
    /\ content' = [content EXCEPT ![reader[t].buffer] = Copied(t)]
    /\ Goes(t, "enqueue")
    /\ UNCHANGED <<fields, position, data, held, main, next, state, queue, returned, history>>

\* AudioQueueEnqueueBuffer (external): a buffer without bytes is refused, as any
\* may be while the queue is being stopped, and nobody queues it again.
Accepts(q, bytes) ==
    (IF bytes = Empty THEN {} ELSE {TRUE})
        \cup (IF bytes = Empty \/ state[q] = "stopped" THEN {FALSE} ELSE {})

\* The buffer is queued on the queue it belongs to.
Enqueue(t) ==
    LET b == reader[t].buffer
        q == b[1]
    IN  /\ reader[t].at = "enqueue"
        /\ \E accepted \in Accepts(q, content[b]) :
              queue' = IF accepted THEN [queue EXCEPT ![q] = Append(@, b)] ELSE queue
        /\ Goes(t, "unlock")
        /\ UNCHANGED <<fields, position, data, held, main, next, state, returned,
                       content, history>>

\* Mutant: at the end of the file the thread reads again until there is sound.
Unlock_Retrying(t) ==
    /\ reader[t].at = "unlock"
    /\ held' = [held EXCEPT ![synlock] = @ \ {t}]
    /\ reader' = [reader EXCEPT ![t] =
                    IF @.some THEN Outside ELSE [@ EXCEPT !.at = "lock", !.lock = synlock]]
    /\ UNCHANGED <<fields, position, data, main, next, queueVars, history>>

\* [synlock unlock], of the lock the field holds now.  To unlock the lock of
\* another thread may or may not release it.
Unlock(t) ==
    /\ reader[t].at = "unlock"
    /\ \/ held' = [held EXCEPT ![synlock] = @ \ {t}]
       \/ /\ t \notin held[synlock]
          /\ held' = [held EXCEPT ![synlock] = {}]
    /\ reader' = [reader EXCEPT ![t] = Outside]
    /\ UNCHANGED <<fields, position, data, main, next, queueVars, history>>

ReadStep(t) == Lock(t) \/ Read(t) \/ Copy(t) \/ Enqueue(t) \/ Unlock(t)

-----------------------------------------------------------------------------
\* The host, on the main thread, when it is not in player.
Host ==
    /\ main = "outside" /\ audioQueue # nil
    /\ UNCHANGED <<fields, position, data, held, main, next, reader, content, heard,
                   overlapped>>

AudioQueueStart ==
    /\ Host
    /\ state' = [state EXCEPT ![audioQueue] = "running"]
    /\ UNCHANGED <<queue, returned, cut>>

AudioQueuePause ==
    /\ Host
    /\ state[audioQueue] = "running"
    /\ state' = [state EXCEPT ![audioQueue] = "paused"]
    /\ UNCHANGED <<queue, returned, cut>>

\* AudioQueueStop at once: what waits is not played, its buffers come back.
AudioQueueStop ==
    /\ Host
    /\ state' = [state EXCEPT ![audioQueue] = "stopped"]
    /\ returned' = [returned EXCEPT ![audioQueue] = @ \o queue[audioQueue]]
    /\ queue' = [queue EXCEPT ![audioQueue] = <<>>]
    /\ cut' = IF overlapped THEN cut ELSE cut \cup {audioQueue}

\* A queue plays its next buffer, whose bytes matter no more.
Plays(q) ==
    /\ state[q] = "running"
    /\ queue[q] # <<>>
    /\ heard' = IF overlapped THEN heard
                ELSE [heard EXCEPT ![q] = Append(@, content[Head(queue[q])])]
    /\ returned' = [returned EXCEPT ![q] = Append(@, Head(queue[q]))]
    /\ queue' = [queue EXCEPT ![q] = Tail(@)]
    /\ content' = [content EXCEPT ![Head(queue[q])] = Empty]
    /\ UNCHANGED <<fields, position, data, held, main, next, reader, state,
                   cut, overlapped>>

MainStep == PlayerData \/ PlayerLock \/ InitAudio \/ FillBuffer \/ PlayerReturns

Next ==
    \/ Player \/ MainStep
    \/ \E t \in Threads : ReadStep(t)
    \/ \E q \in Players : AudioPlayerAQInputCallback(q) \/ Plays(q)
    \/ AudioQueueStart \/ AudioQueuePause \/ AudioQueueStop

Spec == Init /\ [][Next]_vars

\* Threads run, and a queue that is running plays what it is given.
Fairness ==
    /\ WF_vars(MainStep)
    /\ \A t \in Threads : WF_vars(ReadStep(t))
    /\ \A q \in Players : WF_vars(AudioPlayerAQInputCallback(q)) /\ WF_vars(Plays(q))

LiveSpec == Spec /\ Fairness

-----------------------------------------------------------------------------
\* The variables have the types the code gives them.
TypeOK ==
    /\ file \in 0..MaxPlayers /\ pcmDataBuffer \in 0..MaxPlayers
    /\ synlock \in 0..MaxPlayers /\ audioQueue \in 0..MaxPlayers
    /\ position \in 0..Chunks
    /\ data \in Contents
    /\ held \in [Players -> SUBSET Threads]
    /\ main \in {"outside", "data", "lock", "queue", "fill"}
    /\ next \in 1..(QueueBufferSize + 1)
    /\ reader \in [Threads -> [at : {"outside", "lock", "read", "copy", "enqueue", "unlock"},
                               buffer : Buffers, lock : 0..MaxPlayers, some : BOOLEAN]]
    /\ state \in [Players -> {"none", "running", "paused", "stopped"}]
    /\ queue \in [Players -> Seq(Buffers)] /\ returned \in [Players -> Seq(Buffers)]
    /\ content \in [Buffers -> Contents]
    /\ heard \in [Players -> Seq(Contents)]
    /\ cut \subseteq Players
    /\ overlapped \in BOOLEAN

\* A buffer is in one place at a time: waiting to be played, on its way to the
\* callback, or with one reader that has not queued it yet.  No two parties
\* write into a buffer, or one while it is played, even when players overlap.
BuffersHaveOneHolder ==
    \A q \in Players :
        LET line == returned[q] \o queue[q]
            InHand(t, b) == reader[t].buffer = b /\ reader[t].at \in {"lock", "read", "copy", "enqueue"}
        IN  /\ \A i, j \in DOMAIN line : line[i] = line[j] => i = j
            /\ \A t \in Threads, i \in DOMAIN line : ~ InHand(t, line[i])
            /\ \A t, u \in Threads, k \in 1..QueueBufferSize :
                  InHand(t, <<q, k>>) /\ InHand(u, <<q, k>>) => t = u

\* While no two players overlap, the file is heard in its order, whatever is
\* stopped, paused and started, and a queue that is not stopped plays every chunk
\* from the first one on: the two threads that read and queue never overtake each
\* other.
SoundIsInOrder ==
    ~ overlapped =>
        \A q \in Players : \A i \in DOMAIN heard[q] :
            /\ \A j \in DOMAIN heard[q] : i < j => heard[q][i][2] < heard[q][j][2]
            /\ q \notin cut => heard[q][i] = Chunk(q, i)

\* No thread, the main thread least of all, waits for the lock for ever while
\* no two players overlap.
ReadersReturn ==
    \A t \in Threads : reader[t].at # "outside" ~> reader[t].at = "outside" \/ overlapped

\* A queue that is left running, and that no other player overlaps, plays the
\* file to its end.
PlaybackEnds ==
    \A q \in Players :
        <>[](state[q] = "running" /\ q \notin cut /\ ~ overlapped)
            => <>(Len(heard[q]) = Chunks)
=============================================================================
