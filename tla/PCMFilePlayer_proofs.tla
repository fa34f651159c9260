------------------------- MODULE PCMFilePlayer_proofs -------------------------
(***************************************************************************)
(* Proofs about PCMFilePlayer, for any number of calls of player, buffers  *)
(* and chunks: its types, that no buffer is in two places, even when       *)
(* players overlap, and that a file is heard in its order when they do     *)
(* not.                                                                    *)
(***************************************************************************)
EXTENDS PCMFilePlayer, SequencesExt, SequenceTheorems, TLAPS

\* player is replacing the fields.
Opening == main \in {"data", "lock", "queue"}

\* The thread is in readPCMAndPlay.
Reads(t) == reader[t].at # "outside"

\* What the fields hold while player replaces them: nil or those of one call.
FieldsOfOneCall ==
    /\ file = IF Opening THEN audioQueue + 1 ELSE audioQueue
    /\ pcmDataBuffer = IF main = "data" THEN audioQueue ELSE file
    /\ synlock = IF main \in {"data", "lock"} THEN audioQueue ELSE file

\* The main thread reads for the last buffer it filled, the thread of a queue for
\* one of the queue, with a lock that was made; later queues are not there yet.
Control ==
    /\ FieldsOfOneCall
    /\ main = "fill" => audioQueue # nil
    /\ Reads(Main) => /\ main = "fill" /\ next > 1
                      /\ reader[Main].buffer = <<audioQueue, next - 1>>
    /\ \A q \in Players : Reads(q) => reader[q].buffer[1] = q
    /\ \A t \in Threads : Reads(t) => reader[t].lock # nil
    /\ \A q \in Players : audioQueue < q => ~ Busy(q)

\* A thread has a buffer from the call until it has queued it.
InHand(t, b) ==
    reader[t].buffer = b /\ reader[t].at \in {"lock", "read", "copy", "enqueue"}

InLine(q, b) == b \in ToSet(queue[q]) \/ b \in ToSet(returned[q])

\* A buffer is in one line of its queue, once, ...
OwnLines ==
    \A q \in Players :
        /\ IsInjective(queue[q]) /\ IsInjective(returned[q])
        /\ ToSet(queue[q]) \cap ToSet(returned[q]) = {}
        /\ \A b \in ToSet(queue[q]) \cup ToSet(returned[q]) : b[1] = q

\* ... or in one hand, ...
NotBoth == \A t \in Threads, q \in Players, b \in Buffers : InHand(t, b) => ~ InLine(q, b)
OneHand == \A t, u \in Threads, b \in Buffers : InHand(t, b) /\ InHand(u, b) => t = u

\* ... or not yet filled for the first time.
Unfilled ==
    main = "fill" => \A k \in next..QueueBufferSize :
        /\ ~ InLine(audioQueue, <<audioQueue, k>>)
        /\ \A t \in Threads : ~ InHand(t, <<audioQueue, k>>)

Holders == OwnLines /\ NotBoth /\ OneHand /\ Unfilled

Readers == [at : {"outside", "lock", "read", "copy", "enqueue", "unlock"},
            buffer : Buffers, lock : 0..MaxPlayers, some : BOOLEAN]

\* The parts of TypeOK: the threads, the fields and the buffers.
ReadersOK == reader \in [Threads -> Readers]
FieldsOK ==
    /\ file \in 0..MaxPlayers /\ pcmDataBuffer \in 0..MaxPlayers
    /\ synlock \in 0..MaxPlayers /\ audioQueue \in 0..MaxPlayers
    /\ position \in 0..Chunks /\ data \in Contents
    /\ held \in [Players -> SUBSET Threads]
    /\ main \in {"outside", "data", "lock", "queue", "fill"}
    /\ next \in 1..(QueueBufferSize + 1)
QueuesOK ==
    /\ state \in [Players -> {"none", "running", "paused", "stopped"}]
    /\ queue \in [Players -> Seq(Buffers)] /\ returned \in [Players -> Seq(Buffers)]
    /\ content \in [Buffers -> Contents]
    /\ heard \in [Players -> Seq(Contents)]
    /\ cut \subseteq Players
    /\ overlapped \in BOOLEAN

-----------------------------------------------------------------------------
(***************************************************************************)
(* The line of buffers: what a queue is when a buffer joins or leaves it.  *)
(***************************************************************************)

\* A buffer is put at the end of a line, element by element.
LEMMA AppendIs ==
    ASSUME NEW S, NEW s \in Seq(S), NEW b \in S
    PROVE  /\ Append(s, b) \in Seq(S)
           /\ DOMAIN s = 1..Len(s) /\ Len(s) \in Nat
           /\ DOMAIN Append(s, b) = 1..(Len(s) + 1)
           /\ Len(Append(s, b)) = Len(s) + 1
           /\ \A k \in DOMAIN s : Append(s, b)[k] = s[k]
           /\ Append(s, b)[Len(s) + 1] = b
           /\ ToSet(Append(s, b)) = ToSet(s) \cup {b}
<1>1. /\ Append(s, b) \in Seq(S)
      /\ DOMAIN s = 1..Len(s) /\ Len(s) \in Nat
      /\ DOMAIN Append(s, b) = 1..(Len(s) + 1)
      /\ Len(Append(s, b)) = Len(s) + 1
      /\ \A k \in DOMAIN s : Append(s, b)[k] = s[k]
      /\ Append(s, b)[Len(s) + 1] = b
  BY AppendProperties, LenProperties
<1>2. DOMAIN Append(s, b) = DOMAIN s \cup {Len(s) + 1}
  BY <1>1
<1>3. ToSet(Append(s, b)) = ToSet(s) \cup {b}
  BY <1>1, <1>2 DEF ToSet
<1> QED
  BY <1>1, <1>3

\* The first buffer of a line leaves it, element by element.
LEMMA TailIs ==
    ASSUME NEW S, NEW s \in Seq(S), s # <<>>
    PROVE  /\ Head(s) \in S /\ Tail(s) \in Seq(S)
           /\ DOMAIN s = 1..Len(s) /\ Len(s) \in Nat \ {0} /\ 1 \in DOMAIN s
           /\ Head(s) = s[1]
           /\ Len(Tail(s)) = Len(s) - 1
           /\ \A k \in DOMAIN Tail(s) : /\ k \in Nat \ {0}
                                        /\ k + 1 \in DOMAIN s
                                        /\ Tail(s)[k] = s[k + 1]
           /\ ToSet(s) = {Head(s)} \cup ToSet(Tail(s))
<1>1. /\ Head(s) \in S /\ Tail(s) \in Seq(S)
      /\ DOMAIN s = 1..Len(s) /\ Len(s) \in Nat \ {0} /\ 1 \in DOMAIN s
      /\ Head(s) = s[1]
      /\ Len(Tail(s)) = Len(s) - 1
      /\ DOMAIN Tail(s) = 1..(Len(s) - 1)
      /\ \A k \in 1..(Len(s) - 1) : Tail(s)[k] = s[k + 1]
  BY HeadTailProperties, LenProperties, EmptySeq
<1>2. \A k \in DOMAIN Tail(s) : k \in Nat \ {0} /\ k + 1 \in DOMAIN s /\ Tail(s)[k] = s[k + 1]
  BY <1>1
<1>3. {Head(s)} \cup ToSet(Tail(s)) \subseteq ToSet(s)
  BY <1>1, <1>2 DEF ToSet
<1>4. \A k \in DOMAIN s : k = 1 \/ (k - 1 \in DOMAIN Tail(s) /\ s[k] = Tail(s)[k - 1])
  BY <1>1
<1>5. ToSet(s) \subseteq {Head(s)} \cup ToSet(Tail(s))
  <2> SUFFICES ASSUME NEW k \in DOMAIN s
               PROVE  s[k] = Head(s) \/ s[k] \in ToSet(Tail(s))
    BY DEF ToSet
  <2>1. CASE k = 1
    BY <1>1, <2>1
  <2>2. CASE k - 1 \in DOMAIN Tail(s) /\ s[k] = Tail(s)[k - 1]
    BY <2>2, Zenon DEF ToSet
  <2> QED
    BY <1>4, <2>1, <2>2
<1> QED
  BY <1>1, <1>2, <1>3, <1>5

\* A buffer that is not in a line can join it: each is there once.
LEMMA AppendOnce ==
    ASSUME NEW S, NEW s \in Seq(S), NEW b \in S, IsInjective(s), b \notin ToSet(s)
    PROVE  IsInjective(Append(s, b))
<1>1. \A k \in DOMAIN s : s[k] # b
  BY DEF ToSet
<1>2. \A k \in DOMAIN Append(s, b) :
         \/ k \in DOMAIN s /\ Append(s, b)[k] = s[k]
         \/ k = Len(s) + 1 /\ Append(s, b)[k] = b
  BY AppendIs
<1> SUFFICES ASSUME NEW j \in DOMAIN Append(s, b), NEW k \in DOMAIN Append(s, b),
                    Append(s, b)[j] = Append(s, b)[k]
             PROVE  j = k
  BY Zenon DEF IsInjective
<1>3. j \in DOMAIN s /\ k \in DOMAIN s => j = k
  BY <1>2 DEF IsInjective
<1> QED
  BY <1>1, <1>2, <1>3, Zenon

\* The first buffer leaves a line, and is nowhere else in it.
LEMMA TailOnce ==
    ASSUME NEW S, NEW s \in Seq(S), s # <<>>, IsInjective(s)
    PROVE  IsInjective(Tail(s)) /\ Head(s) \notin ToSet(Tail(s))
<1>1. IsInjective(Tail(s))
  BY TailIs DEF IsInjective
<1>2. \A k \in DOMAIN Tail(s) : Tail(s)[k] # Head(s)
  BY TailIs DEF IsInjective
<1> QED
  BY <1>1, <1>2 DEF ToSet

\* Two lines without a buffer in common make one in which each is once.
LEMMA ConcatIs ==
    ASSUME NEW S, NEW s \in Seq(S), NEW r \in Seq(S),
           IsInjective(s), IsInjective(r), ToSet(s) \cap ToSet(r) = {}
    PROVE  /\ s \o r \in Seq(S)
           /\ ToSet(s \o r) = ToSet(s) \cup ToSet(r)
           /\ IsInjective(s \o r)
<1> DEFINE l == s \o r
<1>1. /\ l \in Seq(S) /\ Len(l) = Len(s) + Len(r)
      /\ \A i \in 1..(Len(s) + Len(r)) : l[i] = IF i <= Len(s) THEN s[i] ELSE r[i - Len(s)]
  BY ConcatProperties
<1>2. /\ DOMAIN l = 1..(Len(s) + Len(r)) /\ DOMAIN s = 1..Len(s) /\ DOMAIN r = 1..Len(r)
      /\ Len(s) \in Nat /\ Len(r) \in Nat
  BY <1>1, LenProperties
<1> HIDE DEF l
<1>3. \A i \in DOMAIN s : i \in DOMAIN l /\ l[i] = s[i]
  BY <1>1, <1>2
<1>4. \A i \in DOMAIN r : Len(s) + i \in DOMAIN l /\ l[Len(s) + i] = r[i]
  <2> SUFFICES ASSUME NEW i \in DOMAIN r
               PROVE  Len(s) + i \in DOMAIN l /\ l[Len(s) + i] = r[i]
    OBVIOUS
  <2> DEFINE j == Len(s) + i
  <2>1. j \in 1..(Len(s) + Len(r)) /\ ~ (j <= Len(s)) /\ j - Len(s) = i
    BY <1>2
  <2> QED
    BY <1>1, <1>2, <2>1
<1>5. \A i \in DOMAIN l :
         \/ i \in DOMAIN s /\ l[i] = s[i]
         \/ i - Len(s) \in DOMAIN r /\ l[i] = r[i - Len(s)]
  BY <1>1, <1>2
<1>6. ToSet(s) \cup ToSet(r) \subseteq ToSet(l)
  <2>1. ToSet(s) \subseteq ToSet(l)
    BY <1>3 DEF ToSet
  <2>2. ToSet(r) \subseteq ToSet(l)
    <3> SUFFICES ASSUME NEW i \in DOMAIN r PROVE r[i] \in ToSet(l)
      BY DEF ToSet
    <3> QED
      BY <1>4, Zenon DEF ToSet
  <2> QED
    BY <2>1, <2>2
<1>7. ToSet(l) \subseteq ToSet(s) \cup ToSet(r)
  <2> SUFFICES ASSUME NEW i \in DOMAIN l PROVE l[i] \in ToSet(s) \/ l[i] \in ToSet(r)
    BY DEF ToSet
  <2> QED
    BY <1>5, Zenon DEF ToSet
<1>8. IsInjective(l)
  <2> SUFFICES ASSUME NEW i \in DOMAIN l, NEW j \in DOMAIN l, l[i] = l[j] PROVE i = j
    BY Zenon DEF IsInjective
  <2>1. CASE i \in DOMAIN s /\ l[i] = s[i] /\ j \in DOMAIN s /\ l[j] = s[j]
    BY <2>1 DEF IsInjective
  <2>2. CASE /\ i - Len(s) \in DOMAIN r /\ l[i] = r[i - Len(s)]
             /\ j - Len(s) \in DOMAIN r /\ l[j] = r[j - Len(s)]
    <3>1. i - Len(s) = j - Len(s)
      BY <2>2 DEF IsInjective
    <3> QED
      BY <1>2, <3>1
  <2>3. ASSUME NEW m \in DOMAIN s, NEW n \in DOMAIN r, s[m] = r[n] PROVE FALSE
    BY <2>3 DEF ToSet
  <2> QED
    BY <1>5, <2>1, <2>2, <2>3
<1> QED
  BY <1>1, <1>6, <1>7, <1>8 DEF l

-----------------------------------------------------------------------------
(***************************************************************************)
(* The readers, and the types.                                             *)
(***************************************************************************)

\* A thread goes on in readPCMAndPlay, with the same buffer and lock.
LEMMA GoesIs ==
    ASSUME ReadersOK, NEW t \in Threads, NEW where, Goes(t, where),
           where \in {"outside", "lock", "read", "copy", "enqueue", "unlock"}
    PROVE  /\ ReadersOK'
           /\ reader'[t].at = where /\ reader'[t].buffer = reader[t].buffer
           /\ reader'[t].lock = reader[t].lock /\ reader'[t].some = reader[t].some
           /\ \A u \in Threads : u # t => reader'[u] = reader[u]
<1> USE DEF ReadersOK
<1>1. reader' = [reader EXCEPT ![t] = [reader[t] EXCEPT !.at = where]]
  BY DEF Goes
<1>2. reader'[t] = [reader[t] EXCEPT !.at = where]
  BY <1>1
<1>3. reader[t] \in Readers /\ reader'[t] \in Readers
  BY <1>2 DEF Readers
<1>4. \A u \in Threads : u # t => reader'[u] = reader[u]
  BY <1>1
<1>5. reader' \in [Threads -> Readers]
  BY <1>1, <1>3
<1> QED
  BY <1>2, <1>3, <1>4, <1>5 DEF Readers

\* A thread calls readPCMAndPlay.
LEMMA CallIs ==
    ASSUME ReadersOK, NEW t \in Threads, NEW b \in Buffers, synlock \in 0..MaxPlayers,
           ReadPCMAndPlay(t, b)
    PROVE  /\ ReadersOK'
           /\ reader'[t].at = "lock" /\ reader'[t].buffer = b
           /\ reader'[t].lock = synlock /\ ~ reader'[t].some
           /\ \A u \in Threads : u # t => reader'[u] = reader[u]
<1> USE DEF ReadersOK
<1> DEFINE r == [at |-> "lock", buffer |-> b, lock |-> synlock, some |-> FALSE]
<1>1. r \in Readers /\ reader' = [reader EXCEPT ![t] = r]
  BY DEF ReadPCMAndPlay, Readers
<1>2. reader'[t] = r /\ \A u \in Threads : u # t => reader'[u] = reader[u]
  BY <1>1
<1> QED
  BY <1>1, <1>2

\* A thread has read a chunk, or nothing.
LEMMA ReadIs ==
    ASSUME ReadersOK, NEW t \in Threads, Read(t)
    PROVE  /\ ReadersOK'
           /\ reader[t].at = "read" /\ reader'[t].at = "copy"
           /\ reader'[t].buffer = reader[t].buffer
           /\ reader'[t].lock = reader[t].lock /\ reader'[t].some = ~ AtEnd
           /\ \A u \in Threads : u # t => reader'[u] = reader[u]
<1> USE DEF ReadersOK
<1> DEFINE r == [[reader[t] EXCEPT !.at = "copy"] EXCEPT !.some = ~ AtEnd]
           some == ~ AtEnd
<1>1. reader' = [reader EXCEPT ![t].at = "copy", ![t].some = some]
  BY DEF Read
<1>2. some \in BOOLEAN
  BY DEF AtEnd
<1> HIDE DEF some
<1>3. reader'[t] = [[reader[t] EXCEPT !.at = "copy"] EXCEPT !.some = some]
  BY <1>1
<1>4. \A u \in Threads : u # t => reader'[u] = reader[u]
  BY <1>1
<1>5. reader[t] \in Readers /\ reader'[t] \in Readers
  BY <1>2, <1>3 DEF Readers
<1>6. reader' \in [Threads -> Readers]
  BY <1>1, <1>4, <1>5
<1>7. /\ reader'[t].at = "copy" /\ reader'[t].buffer = reader[t].buffer
      /\ reader'[t].lock = reader[t].lock /\ reader'[t].some = some
  BY <1>3, <1>5 DEF Readers
<1> QED
  BY <1>4, <1>6, <1>7 DEF some, Read

\* A thread returns from readPCMAndPlay.
LEMMA UnlockIs ==
    ASSUME ReadersOK, NEW t \in Threads, Unlock(t)
    PROVE  /\ ReadersOK'
           /\ reader[t].at = "unlock" /\ reader'[t].at = "outside"
           /\ \A u \in Threads : u # t => reader'[u] = reader[u]
<1> USE DEF ReadersOK
<1>1. Outside \in Readers
  BY FilePlayerAssumption DEF Outside, Readers, Buffers, Players, nil
<1>2. reader' = [reader EXCEPT ![t] = Outside] /\ reader[t].at = "unlock"
  BY DEF Unlock
<1>3. reader'[t] = Outside /\ Outside.at = "outside"
  BY <1>2 DEF Outside
<1> QED
  BY <1>1, <1>2, <1>3

\* The types, part by part.
LEMMA TypeParts ==
    /\ TypeOK <=> ReadersOK /\ FieldsOK /\ QueuesOK
    /\ TypeOK' <=> ReadersOK' /\ FieldsOK' /\ QueuesOK'
  BY DEF TypeOK, ReadersOK, FieldsOK, QueuesOK, Readers

\* Nothing is made at the start.
LEMMA InitTypes == Init => TypeOK
<1> SUFFICES ASSUME Init PROVE TypeOK
  OBVIOUS
<1>1. Outside \in Readers
  BY FilePlayerAssumption DEF Outside, Readers, Buffers, Players, nil
<1>2. ReadersOK
  BY <1>1 DEF Init, ReadersOK
<1>3. FieldsOK
  BY FilePlayerAssumption DEF Init, nil, FieldsOK, Contents
<1>4. \A S : <<>> \in Seq(S)
  BY EmptySeq
<1>5. QueuesOK
  BY <1>4 DEF Init, QueuesOK, Contents
<1> QED
  BY <1>2, <1>3, <1>5, TypeParts

\* What player does to the fields keeps the types.
LEMMA PlayerTypes ==
    ASSUME TypeOK, Control, Player \/ MainStep PROVE TypeOK'
<1>0. ReadersOK /\ FieldsOK /\ QueuesOK
  BY TypeParts
<1>1. FieldsOK'
  BY <1>0, FilePlayerAssumption DEF FieldsOK, Player, MainStep, PlayerData, PlayerLock, InitAudio,
     FillBuffer, PlayerReturns, fields, Contents
<1>2. ReadersOK'
  <2>1. CASE FillBuffer
    <3>1. audioQueue \in Players /\ next \in 1..QueueBufferSize
      BY <1>0, <2>1, FilePlayerAssumption DEF FillBuffer, Control, FieldsOK, Players, nil
    <3>2. <<audioQueue, next>> \in Buffers
      BY <3>1 DEF Buffers
    <3> QED
      BY <1>0, <2>1, <3>2, CallIs DEF FillBuffer, FieldsOK, Threads
  <2>2. CASE UNCHANGED reader
    BY <1>0, <2>2 DEF ReadersOK
  <2> QED
    BY <2>1, <2>2 DEF Player, MainStep, PlayerData, PlayerLock, InitAudio, PlayerReturns
<1>3. QueuesOK'
  <2>1. CASE Player
    <3>1. content' \in [Buffers -> Contents]
      BY <1>0, <2>1 DEF Player, QueuesOK, Contents
    <3>2. <<>> \in Seq(Contents)
      BY EmptySeq
    <3>3. heard' \in [Players -> Seq(Contents)] /\ cut' \subseteq Players /\ overlapped' \in BOOLEAN
      BY <1>0, <2>1, <3>2 DEF Player, QueuesOK, history
    <3> QED
      BY <1>0, <2>1, <3>1, <3>3 DEF Player, QueuesOK
  <2>2. CASE MainStep
    BY <1>0, <2>2 DEF QueuesOK, MainStep, PlayerData, PlayerLock, InitAudio, FillBuffer,
       PlayerReturns, queueVars, history
  <2> QED
    BY <2>1, <2>2
<1> QED
  BY <1>1, <1>2, <1>3, TypeParts

\* A thread that reads does so after the first call of player has made the fields.
LEMMA ReadsAFile ==
    ASSUME ReadersOK, FieldsOK, Control, NEW t \in Threads, Reads(t)
    PROVE  file \in Players /\ synlock \in Players /\ audioQueue \in Players
<1>1. audioQueue \in Players
  <2>1. CASE t = Main
    BY <2>1 DEF Control, FieldsOK, nil, Players
  <2>2. CASE t \in Players
    <3>1. ~ (audioQueue < t)
      BY <2>2 DEF Control, Busy, Reads
    <3> QED
      BY <2>2, <3>1, FilePlayerAssumption DEF FieldsOK, Players
  <2> QED
    BY <2>1, <2>2 DEF Threads
<1> QED
  BY <1>1, FilePlayerAssumption DEF Control, FieldsOfOneCall, FieldsOK, Players

\* The steps of readPCMAndPlay keep the types.
LEMMA ReadTypes ==
    ASSUME TypeOK, Control, NEW t \in Threads, ReadStep(t) PROVE TypeOK'
<1>0. ReadersOK /\ FieldsOK /\ QueuesOK
  BY TypeParts
<1>1. ReadersOK'
  BY <1>0, GoesIs, ReadIs, UnlockIs DEF ReadStep, Lock, Copy, Enqueue
<1>2. FieldsOK'
  <2>1. CASE Lock(t)
    BY <1>0, <2>1 DEF Lock, FieldsOK, fields
  <2>2. CASE Read(t)
    <3>1. CASE AtEnd
      BY <1>0, <2>2, <3>1 DEF Read, FieldsOK, fields
    <3>2. CASE ~ AtEnd
      <4>1. position' = position + 1 /\ position' \in 1..Chunks
        BY <1>0, <2>2, <3>2, FilePlayerAssumption DEF Read, AtEnd, FieldsOK
      <4>2. file \in Players
        BY <1>0, <2>2, ReadsAFile DEF Reads, Read
      <4>3. data' \in Contents
        BY <2>2, <3>2, <4>1, <4>2 DEF Read, Chunk, Contents
      <4> QED
        BY <1>0, <2>2, <4>1, <4>3 DEF Read, FieldsOK, fields
    <3> QED
      BY <3>1, <3>2
  <2>3. CASE Copy(t) \/ Enqueue(t)
    BY <1>0, <2>3 DEF Copy, Enqueue, FieldsOK, fields
  <2>4. CASE Unlock(t)
    BY <1>0, <2>4 DEF Unlock, FieldsOK, fields
  <2> QED
    BY <2>1, <2>2, <2>3, <2>4 DEF ReadStep
<1>3. QueuesOK'
  <2>1. CASE Lock(t) \/ Read(t) \/ Unlock(t)
    BY <1>0, <2>1 DEF Lock, Read, Unlock, QueuesOK, queueVars, history
  <2>2. CASE Copy(t)
    <3>1. Copied(t) \in Contents
      BY <1>0 DEF Copied, Contents, FieldsOK
    <3> QED
      BY <1>0, <2>2, <3>1 DEF Copy, QueuesOK, history
  <2>3. CASE Enqueue(t)
    <3>1. reader[t].buffer \in Buffers
      BY <1>0 DEF ReadersOK, Readers
    <3>2. reader[t].buffer[1] \in Players
      BY <3>1 DEF Buffers
    <3>3. Append(queue[reader[t].buffer[1]], reader[t].buffer) \in Seq(Buffers)
      BY <1>0, <3>1, <3>2, AppendIs DEF QueuesOK
    <3> QED
      BY <1>0, <2>3, <3>2, <3>3 DEF Enqueue, QueuesOK, history
  <2> QED
    BY <2>1, <2>2, <2>3 DEF ReadStep
<1> QED
  BY <1>1, <1>2, <1>3, TypeParts

\* A callback of a queue keeps the types.
LEMMA CallbackTypes ==
    ASSUME TypeOK, NEW q \in Players, AudioPlayerAQInputCallback(q) PROVE TypeOK'
<1>0. ReadersOK /\ FieldsOK /\ QueuesOK
  BY TypeParts
<1>1. Head(returned[q]) \in Buffers /\ Tail(returned[q]) \in Seq(Buffers)
  BY <1>0, TailIs DEF AudioPlayerAQInputCallback, QueuesOK
<1>2. ReadersOK'
  BY <1>0, <1>1, CallIs DEF AudioPlayerAQInputCallback, FieldsOK, Threads
<1>3. FieldsOK'
  BY <1>0 DEF AudioPlayerAQInputCallback, FieldsOK, fields
<1>4. QueuesOK'
  BY <1>0, <1>1 DEF AudioPlayerAQInputCallback, QueuesOK, history
<1> QED
  BY <1>2, <1>3, <1>4, TypeParts

\* A queue that plays keeps the types.
LEMMA PlaysTypes ==
    ASSUME TypeOK, NEW q \in Players, Plays(q) PROVE TypeOK'
<1>0. ReadersOK /\ FieldsOK /\ QueuesOK
  BY TypeParts
<1>1. Head(queue[q]) \in Buffers /\ Tail(queue[q]) \in Seq(Buffers)
  BY <1>0, TailIs DEF Plays, QueuesOK
<1>2. ReadersOK' /\ FieldsOK'
  BY <1>0 DEF Plays, ReadersOK, FieldsOK, fields
<1>3. Append(returned[q], Head(queue[q])) \in Seq(Buffers)
  BY <1>0, <1>1, AppendIs DEF QueuesOK
<1>4. Append(heard[q], content[Head(queue[q])]) \in Seq(Contents)
  BY <1>0, <1>1, AppendIs DEF QueuesOK
<1>5. /\ queue' \in [Players -> Seq(Buffers)]
      /\ returned' \in [Players -> Seq(Buffers)]
      /\ heard' \in [Players -> Seq(Contents)]
  BY <1>0, <1>1, <1>3, <1>4 DEF Plays, QueuesOK
<1>6. content' \in [Buffers -> Contents]
  BY <1>0, <1>1 DEF Plays, QueuesOK, Contents
<1>7. QueuesOK'
  BY <1>0, <1>5, <1>6 DEF Plays, QueuesOK
<1> QED
  BY <1>2, <1>7, TypeParts

\* What the host asks of a queue keeps the types.
LEMMA HostTypes ==
    ASSUME TypeOK, AudioQueueStart \/ AudioQueuePause \/ AudioQueueStop PROVE TypeOK'
<1>0. ReadersOK /\ FieldsOK /\ QueuesOK
  BY TypeParts
<1>1. ReadersOK' /\ FieldsOK'
  BY <1>0 DEF AudioQueueStart, AudioQueuePause, AudioQueueStop, Host, ReadersOK, FieldsOK, fields
<1>2. CASE AudioQueueStart \/ AudioQueuePause
  <2>1. QueuesOK'
    BY <1>0, <1>2 DEF AudioQueueStart, AudioQueuePause, Host, QueuesOK
  <2> QED
    BY <1>1, <2>1, TypeParts
<1>3. CASE AudioQueueStop
  <2>1. audioQueue \in Players
    BY <1>0, <1>3 DEF AudioQueueStop, Host, nil, Players, FieldsOK
  <2>2. returned[audioQueue] \o queue[audioQueue] \in Seq(Buffers) /\ <<>> \in Seq(Buffers)
    BY <1>0, <2>1, ConcatProperties, EmptySeq DEF QueuesOK
  <2>3. QueuesOK'
    BY <1>0, <1>3, <2>1, <2>2 DEF AudioQueueStop, Host, QueuesOK
  <2> QED
    BY <1>1, <2>3, TypeParts
<1> QED
  BY <1>2, <1>3

-----------------------------------------------------------------------------
(***************************************************************************)
(* The fields, and who uses them.                                          *)
(***************************************************************************)

\* No field is set at the start, and nobody reads.
LEMMA InitControl == Init => Control
  BY DEF Init, Control, FieldsOfOneCall, Opening, Reads, Busy, Outside, nil, Threads

\* player replaces the fields in their order, by those of the next call.
LEMMA PlayerControl ==
    ASSUME TypeOK, Control, Player \/ MainStep PROVE Control'
<1>0. ReadersOK /\ FieldsOK
  BY TypeParts
<1>1. CASE FillBuffer
  <2>1. audioQueue \in Players /\ next \in 1..QueueBufferSize /\ Main \in Threads
    BY <1>0, <1>1, FilePlayerAssumption DEF FillBuffer, Control, FieldsOK, Players, nil, Threads
  <2>2. <<audioQueue, next>> \in Buffers
    BY <2>1 DEF Buffers
  <2>3. /\ reader'[Main].buffer = <<audioQueue, next>> /\ reader'[Main].lock = synlock
        /\ \A t \in Threads : t # Main => reader'[t] = reader[t]
    BY <1>0, <1>1, <2>1, <2>2, CallIs DEF FillBuffer, FieldsOK
  <2>4. Players \subseteq Threads /\ Main \notin Players
    BY DEF Threads, Players, Main
  <2>5. synlock # nil /\ FieldsOfOneCall'
    BY <1>1, <2>1 DEF FillBuffer, Control, FieldsOfOneCall, Opening, fields, nil, Players
  <2>6. next' = next + 1 /\ next' > 1 /\ next' - 1 = next
    BY <1>1, <2>1 DEF FillBuffer
  <2>7. \A q \in Players : audioQueue' < q => ~ Busy(q)'
    BY <1>1, <2>3, <2>4 DEF FillBuffer, Control, Busy, fields, queueVars
  <2>8. \A t \in Threads : Reads(t)' => reader'[t].lock # nil
    BY <2>3, <2>5 DEF Control, Reads
  <2> QED
    BY <1>1, <2>3, <2>4, <2>5, <2>6, <2>7, <2>8 DEF FillBuffer, Control, Reads, fields
<1>2. CASE InitAudio
  <2>1. file = audioQueue + 1 /\ audioQueue' = file /\ FieldsOfOneCall'
    BY <1>2 DEF InitAudio, Control, FieldsOfOneCall, Opening
  <2>2. \A q \in Players : audioQueue' < q => audioQueue < q
    BY <1>0, <2>1 DEF FieldsOK, Players
  <2>3. audioQueue' # nil
    BY <1>0, <2>1 DEF FieldsOK, nil
  <2> QED
    BY <1>2, <2>1, <2>2, <2>3 DEF InitAudio, Control, Reads, Busy
<1>3. CASE Player
  <2>1. FieldsOfOneCall'
    BY <1>0, <1>3 DEF Player, Control, FieldsOfOneCall, Opening, FieldsOK
  <2> QED
    BY <1>3, <2>1 DEF Player, Control, Reads, Busy
<1>4. CASE PlayerData
  BY <1>4 DEF PlayerData, Control, FieldsOfOneCall, Opening, Reads, Busy, queueVars
<1>5. CASE PlayerLock
  BY <1>5 DEF PlayerLock, Control, FieldsOfOneCall, Opening, Reads, Busy, queueVars
<1>6. CASE PlayerReturns
  BY <1>6 DEF PlayerReturns, Control, FieldsOfOneCall, Opening, Reads, Busy, fields, queueVars
<1> QED
  BY <1>1, <1>2, <1>3, <1>4, <1>5, <1>6 DEF MainStep

\* A thread that goes on or returns keeps its buffer and its lock, and queues the
\* buffer where it belongs.
LEMMA ReadControl ==
    ASSUME TypeOK, Control, NEW t \in Threads, ReadStep(t) PROVE Control'
<1>0. ReadersOK /\ FieldsOK /\ QueuesOK
  BY TypeParts
<1>1. /\ reader[t].at # "outside"
      /\ reader'[t].at # "outside" => /\ reader'[t].buffer = reader[t].buffer
                                      /\ reader'[t].lock = reader[t].lock
      /\ \A u \in Threads : u # t => reader'[u] = reader[u]
  <2>1. CASE Lock(t)
    BY <1>0, <2>1, GoesIs DEF Lock
  <2>2. CASE Read(t)
    BY <1>0, <2>2, ReadIs
  <2>3. CASE Copy(t)
    BY <1>0, <2>3, GoesIs DEF Copy
  <2>4. CASE Enqueue(t)
    BY <1>0, <2>4, GoesIs DEF Enqueue
  <2>5. CASE Unlock(t)
    BY <1>0, <2>5, UnlockIs
  <2> QED
    BY <2>1, <2>2, <2>3, <2>4, <2>5 DEF ReadStep
<1>2. UNCHANGED <<file, pcmDataBuffer, synlock, audioQueue, main, next>>
  BY DEF ReadStep, Lock, Read, Copy, Enqueue, Unlock, fields
<1>3. FieldsOfOneCall'
  BY <1>2 DEF Control, FieldsOfOneCall, Opening
<1>4. Players \subseteq Threads /\ Main \in Threads
  BY DEF Threads
<1>5. ASSUME NEW q \in Players, audioQueue < q PROVE ~ Busy(q)'
  <2>1. ~ Busy(q) /\ q # t
    BY <1>1, <1>5 DEF Control, Busy
  <2>2. reader'[q] = reader[q] /\ returned' = returned
    BY <1>1, <1>4, <2>1 DEF ReadStep, Lock, Read, Copy, Enqueue, Unlock, queueVars
  <2>3. queue'[q] = queue[q]
    <3>1. CASE Enqueue(t)
      <4>1. reader[t].buffer[1] # q
        <5>1. CASE t = Main
          BY <1>0, <1>1, <1>5, <5>1 DEF Control, Reads, FieldsOK
        <5>2. CASE t \in Players
          BY <1>1, <2>1, <5>2 DEF Control, Reads
        <5> QED
          BY <5>1, <5>2 DEF Threads
      <4> QED
        BY <1>0, <3>1, <4>1 DEF Enqueue, QueuesOK
    <3>2. CASE UNCHANGED queue
      BY <3>2
    <3> QED
      BY <3>1, <3>2 DEF ReadStep, Lock, Read, Copy, Unlock, queueVars
  <2> QED
    BY <2>1, <2>2, <2>3 DEF Busy
<1>6. \A u \in Threads : Reads(u)' => /\ Reads(u) /\ reader'[u].buffer = reader[u].buffer
                                      /\ reader'[u].lock = reader[u].lock
  BY <1>1 DEF Reads
<1> QED
  BY <1>2, <1>3, <1>4, <1>5, <1>6 DEF Control

\* The queues and the host touch no field, and no queue that is not there.
LEMMA QueueControl ==
    ASSUME TypeOK, Control, Holders,
           \/ \E q \in Players : AudioPlayerAQInputCallback(q) \/ Plays(q)
           \/ AudioQueueStart \/ AudioQueuePause \/ AudioQueueStop
    PROVE  Control'
<1>0. ReadersOK /\ FieldsOK /\ QueuesOK
  BY TypeParts
<1>1. /\ UNCHANGED <<file, pcmDataBuffer, synlock, audioQueue, main, next>>
      /\ FieldsOfOneCall'
  BY DEF AudioPlayerAQInputCallback, Plays, AudioQueueStart, AudioQueuePause, AudioQueueStop,
         Host, fields, Control, FieldsOfOneCall, Opening
<1>2. Players \subseteq Threads /\ Main \in Threads /\ Main \notin Players
  BY DEF Threads, Main, Players
<1>3. ASSUME NEW q \in Players, AudioPlayerAQInputCallback(q) PROVE Control'
  <2>1. /\ Head(returned[q]) \in Buffers
        /\ ToSet(returned[q]) = {Head(returned[q])} \cup ToSet(Tail(returned[q]))
    BY <1>0, <1>3, TailIs DEF AudioPlayerAQInputCallback, QueuesOK
  <2>2. /\ reader'[q].buffer = Head(returned[q]) /\ reader'[q].lock = synlock
        /\ \A u \in Threads : u # q => reader'[u] = reader[u]
    BY <1>0, <1>2, <1>3, <2>1, CallIs DEF AudioPlayerAQInputCallback, FieldsOK
  <2>3. Head(returned[q])[1] = q
    BY <2>1 DEF Holders, OwnLines
  <2>4. ~ (audioQueue < q)
    BY <1>3 DEF AudioPlayerAQInputCallback, Control, Busy
  <2>5. synlock # nil
    BY <1>0, <2>4 DEF Control, FieldsOfOneCall, Opening, FieldsOK, Players, nil
  <2>6. \A p \in Players : audioQueue < p => ~ Busy(p)'
    <3> SUFFICES ASSUME NEW p \in Players, audioQueue < p PROVE ~ Busy(p)'
      OBVIOUS
    <3>1. p # q /\ ~ Busy(p)
      BY <2>4 DEF Control
    <3> QED
      BY <1>0, <1>2, <1>3, <2>2, <3>1 DEF AudioPlayerAQInputCallback, Busy, QueuesOK
  <2>7. \A u \in Threads : Reads(u)' => reader'[u].lock # nil
    BY <2>2, <2>5 DEF Control, Reads
  <2> QED
    BY <1>1, <1>2, <2>2, <2>3, <2>6, <2>7 DEF Control, Reads
<1>4. ASSUME NEW q \in Players, Plays(q) PROVE Control'
  <2>1. ~ (audioQueue < q)
    BY <1>4 DEF Plays, Control, Busy
  <2>2. \A p \in Players : audioQueue < p => ~ Busy(p)'
    BY <1>0, <1>4, <2>1 DEF Plays, Control, Busy, QueuesOK
  <2> QED
    BY <1>1, <1>4, <2>2 DEF Plays, Control, Reads
<1>5. CASE AudioQueueStart \/ AudioQueuePause
  BY <1>1, <1>5 DEF AudioQueueStart, AudioQueuePause, Host, Control, Reads, Busy
<1>6. CASE AudioQueueStop
  <2>1. \A p \in Players : audioQueue < p => ~ Busy(p)'
    BY <1>0, <1>6 DEF AudioQueueStop, Host, Control, Busy, QueuesOK, FieldsOK
  <2> QED
    BY <1>1, <1>6, <2>1 DEF AudioQueueStop, Host, Control, Reads
<1> QED
  BY <1>3, <1>4, <1>5, <1>6

-----------------------------------------------------------------------------
(***************************************************************************)
(* Who has a buffer.                                                       *)
(***************************************************************************)

\* A buffer that is still to be filled is one of the queue that player made.
LEMMA UnfilledIs ==
    ASSUME FieldsOK, Control, main = "fill", NEW k \in next..QueueBufferSize
    PROVE  <<audioQueue, k>> \in Buffers /\ audioQueue \in Players
<1>1. audioQueue \in Players /\ k \in 1..QueueBufferSize
  BY FilePlayerAssumption DEF Control, FieldsOK, Players, nil
<1> QED
  BY <1>1 DEF Buffers

\* A line holds buffers.
LEMMA LineIs ==
    ASSUME QueuesOK, NEW q \in Players
    PROVE  ToSet(queue[q]) \subseteq Buffers /\ ToSet(returned[q]) \subseteq Buffers
<1>1. queue[q] \in Seq(Buffers) /\ returned[q] \in Seq(Buffers)
  BY DEF QueuesOK
<1>2. ASSUME NEW s \in Seq(Buffers) PROVE ToSet(s) \subseteq Buffers
  BY ElementOfSeq, LenProperties DEF ToSet
<1> QED
  BY <1>1, <1>2

\* Steps that move no buffer, and put none in a hand, change nobody's.
LEMMA NothingMoves ==
    ASSUME FieldsOK, Control, Holders, UNCHANGED <<queue, returned>>,
           \A t \in Threads, b \in Buffers : InHand(t, b)' => InHand(t, b),
           main' = "fill" => UNCHANGED <<main, next, audioQueue>>
    PROVE  Holders'
<1>1. \A q, b : InLine(q, b)' <=> InLine(q, b)
  BY DEF InLine
<1>2. OwnLines'
  BY DEF Holders, OwnLines
<1>3. NotBoth' /\ OneHand'
  BY <1>1 DEF Holders, NotBoth, OneHand
<1>4. Unfilled'
  <2> SUFFICES ASSUME main' = "fill", NEW k \in next..QueueBufferSize
               PROVE  /\ ~ InLine(audioQueue, <<audioQueue, k>>)'
                      /\ \A t \in Threads : ~ InHand(t, <<audioQueue, k>>)'
    BY DEF Unfilled, InLine, InHand
  <2>1. main = "fill" /\ audioQueue' = audioQueue
    OBVIOUS
  <2>2. <<audioQueue, k>> \in Buffers
    BY <2>1, UnfilledIs
  <2>3. ~ InLine(audioQueue, <<audioQueue, k>>) /\ \A t \in Threads : ~ InHand(t, <<audioQueue, k>>)
    BY <2>1 DEF Holders, Unfilled
  <2>4. ~ InLine(audioQueue, <<audioQueue, k>>)'
    BY <2>1, <2>3 DEF InLine
  <2>5. \A t \in Threads : InHand(t, <<audioQueue, k>>)' => InHand(t, <<audioQueue, k>>)
    BY <2>1, <2>2 DEF InHand
  <2> QED
    BY <2>3, <2>4, <2>5
<1> QED
  BY <1>2, <1>3, <1>4 DEF Holders

\* The buffers of a new queue are in no line and no hand.
LEMMA InitAudioHolders ==
    ASSUME TypeOK, Control, Holders, InitAudio PROVE Holders'
<1>0. ReadersOK /\ FieldsOK /\ QueuesOK
  BY TypeParts
<1>1. /\ UNCHANGED <<queue, returned, reader>> /\ audioQueue' = file /\ audioQueue < file
      /\ file \in Players
  BY <1>0 DEF InitAudio, Control, FieldsOfOneCall, Opening, FieldsOK, Players
<1>2. ~ Busy(file) /\ ~ Reads(Main)
  BY <1>1 DEF Control, InitAudio
<1>3. \A b : ~ InLine(file, b)
  <2>1. DOMAIN <<>> = {}
    OBVIOUS
  <2> QED
    BY <1>2, <2>1 DEF Busy, InLine, ToSet
<1>4. ASSUME NEW t \in Threads, NEW k PROVE ~ InHand(t, <<file, k>>)
  <2>1. CASE t = Main
    BY <1>2, <2>1 DEF Reads, InHand
  <2>2. CASE t \in Players
    <3>1. InHand(t, <<file, k>>) => t = file
      BY <2>2 DEF Control, Reads, InHand
    <3> QED
      BY <1>2, <3>1 DEF Busy, InHand
  <2> QED
    BY <2>1, <2>2 DEF Threads
<1>5. OwnLines' /\ NotBoth' /\ OneHand'
  BY <1>1 DEF Holders, OwnLines, NotBoth, OneHand, InLine, InHand
<1>6. Unfilled'
  BY <1>1, <1>3, <1>4 DEF Unfilled, InLine, InHand
<1> QED
  BY <1>5, <1>6 DEF Holders

\* The main thread takes a buffer that was not filled yet.
LEMMA FillHolders ==
    ASSUME TypeOK, Control, Holders, FillBuffer PROVE Holders'
<1>0. ReadersOK /\ FieldsOK /\ QueuesOK
  BY TypeParts
<1> DEFINE b0 == <<audioQueue, next>>
<1>1. /\ main = "fill" /\ main' = "fill" /\ next' = next + 1 /\ next \in next..QueueBufferSize
      /\ UNCHANGED <<queue, returned, audioQueue>> /\ next \in Nat
  BY <1>0 DEF FillBuffer, FieldsOK, fields, queueVars
<1>2. b0 \in Buffers /\ ~ InLine(audioQueue, b0) /\ (\A t \in Threads : ~ InHand(t, b0))
  BY <1>0, <1>1, UnfilledIs DEF Holders, Unfilled
<1>3. /\ reader'[Main].buffer = b0
      /\ \A t \in Threads : t # Main => reader'[t] = reader[t]
  BY <1>0, <1>2, CallIs DEF FillBuffer, FieldsOK, Threads
<1>4. \A q \in Players : ~ InLine(q, b0)
  BY <1>0, <1>2, LineIs DEF InLine, Holders, OwnLines
<1>5. \A q, b : InLine(q, b)' <=> InLine(q, b)
  BY <1>1 DEF InLine
<1>6. \A t \in Threads : \A b : InHand(t, b)' => (b = b0 /\ t = Main) \/ InHand(t, b)
  BY <1>3 DEF InHand
<1> HIDE DEF b0
<1>7. OwnLines'
  BY <1>1 DEF Holders, OwnLines
<1>8. NotBoth' /\ OneHand'
  BY <1>2, <1>4, <1>5, <1>6 DEF Holders, NotBoth, OneHand
<1>9. Unfilled'
  <2> SUFFICES ASSUME NEW k \in (next + 1)..QueueBufferSize
               PROVE  /\ ~ InLine(audioQueue, <<audioQueue, k>>)
                      /\ \A t \in Threads : ~ InHand(t, <<audioQueue, k>>)'
    BY <1>1, <1>5 DEF Unfilled, InHand
  <2>1. k \in next..QueueBufferSize /\ <<audioQueue, k>> # b0
    BY <1>1 DEF b0
  <2> QED
    BY <1>1, <1>6, <2>1 DEF Holders, Unfilled, InHand
<1> QED
  BY <1>7, <1>8, <1>9 DEF Holders

\* A buffer goes from the hand of a thread to the queue, or is refused.
LEMMA EnqueueHolders ==
    ASSUME TypeOK, Control, Holders, NEW t \in Threads, Enqueue(t) PROVE Holders'
<1>0. ReadersOK /\ FieldsOK /\ QueuesOK
  BY TypeParts
<1> DEFINE b0 == reader[t].buffer
           q0 == b0[1]
<1>1. b0 \in Buffers /\ q0 \in Players /\ InHand(t, b0)
  BY <1>0 DEF ReadersOK, Readers, Buffers, Enqueue, InHand
<1>2. /\ reader'[t].at = "unlock"
      /\ \A u \in Threads : u # t => reader'[u] = reader[u]
  BY <1>0, GoesIs DEF Enqueue
<1>3. \A u \in Threads : \A b : InHand(u, b)' <=> InHand(u, b) /\ u # t
  BY <1>2 DEF InHand
<1>4. UNCHANGED <<returned, main, next, audioQueue>>
  BY DEF Enqueue, fields
<1> HIDE DEF b0, q0
<1>5. CASE UNCHANGED queue
  BY <1>0, <1>3, <1>4, <1>5, NothingMoves
<1>6. CASE queue' = [queue EXCEPT ![q0] = Append(queue[q0], b0)]
  <2>1. queue[q0] \in Seq(Buffers) /\ IsInjective(queue[q0]) /\ ~ InLine(q0, b0)
    BY <1>0, <1>1 DEF QueuesOK, Holders, OwnLines, NotBoth
  <2>2. /\ ToSet(queue'[q0]) = ToSet(queue[q0]) \cup {b0}
        /\ IsInjective(queue'[q0])
        /\ \A q \in Players : q # q0 => queue'[q] = queue[q]
    BY <1>0, <1>1, <1>6, <2>1, AppendIs, AppendOnce DEF QueuesOK, InLine
  <2>3. OwnLines'
    BY <1>1, <1>4, <2>1, <2>2 DEF Holders, OwnLines, InLine, q0
  <2>4. \A q \in Players, b \in Buffers : InLine(q, b)' => InLine(q, b) \/ b = b0
    BY <1>1, <1>4, <2>2 DEF InLine
  <2>5. NotBoth' /\ OneHand'
    BY <1>1, <1>3, <2>4 DEF Holders, NotBoth, OneHand
  <2>6. Unfilled'
    <3> SUFFICES ASSUME main = "fill", NEW k \in next..QueueBufferSize
                 PROVE  /\ ~ InLine(audioQueue, <<audioQueue, k>>)'
                        /\ \A u \in Threads : ~ InHand(u, <<audioQueue, k>>)'
      BY <1>4 DEF Unfilled, InLine, InHand
    <3>1. <<audioQueue, k>> \in Buffers /\ audioQueue \in Players
      BY <1>0, UnfilledIs
    <3>2. /\ ~ InLine(audioQueue, <<audioQueue, k>>)
          /\ \A u \in Threads : ~ InHand(u, <<audioQueue, k>>)
      BY DEF Holders, Unfilled
    <3>3. <<audioQueue, k>> # b0
      BY <1>1, <3>2
    <3>4. ~ InLine(audioQueue, <<audioQueue, k>>)'
      BY <1>4, <3>1, <3>2, <3>3, <2>4 DEF InLine
    <3>5. \A u \in Threads : ~ InHand(u, <<audioQueue, k>>)'
      BY <1>4, <3>2, <1>2 DEF InHand
    <3> QED
      BY <3>4, <3>5
  <2> QED
    BY <2>3, <2>5, <2>6 DEF Holders
<1> QED
  BY <1>5, <1>6 DEF Enqueue, b0, q0

\* A buffer goes from the line of the callback to the hand of the queue's thread.
LEMMA CallbackHolders ==
    ASSUME TypeOK, Control, Holders, NEW p \in Players, AudioPlayerAQInputCallback(p)
    PROVE  Holders'
<1>0. ReadersOK /\ FieldsOK /\ QueuesOK
  BY TypeParts
<1> DEFINE b0 == Head(returned[p])
<1>1. /\ returned[p] \in Seq(Buffers) /\ returned[p] # <<>> /\ IsInjective(returned[p])
      /\ ToSet(queue[p]) \cap ToSet(returned[p]) = {}
  BY <1>0 DEF AudioPlayerAQInputCallback, QueuesOK, Holders, OwnLines
<1>2. /\ b0 \in Buffers /\ ToSet(returned[p]) = {b0} \cup ToSet(Tail(returned[p]))
      /\ IsInjective(Tail(returned[p])) /\ b0 \notin ToSet(Tail(returned[p]))
  BY <1>1, TailIs, TailOnce
<1>3. /\ reader'[p].buffer = b0
      /\ \A u \in Threads : u # p => reader'[u] = reader[u]
      /\ p \in Threads
  BY <1>0, <1>2, CallIs DEF AudioPlayerAQInputCallback, FieldsOK, Threads
<1>4. /\ UNCHANGED <<queue, main, next, audioQueue>>
      /\ returned'[p] = Tail(returned[p])
      /\ \A q \in Players : q # p => returned'[q] = returned[q]
  BY <1>0 DEF AudioPlayerAQInputCallback, QueuesOK, fields
<1>5. InLine(p, b0) /\ b0[1] = p
  BY <1>2 DEF InLine, Holders, OwnLines
<1>6. \A u \in Threads : ~ InHand(u, b0)
  BY <1>2, <1>5 DEF Holders, NotBoth
<1> HIDE DEF b0
<1>7. \A u \in Threads : \A b : InHand(u, b)' => (b = b0 /\ u = p) \/ InHand(u, b)
  BY <1>3 DEF InHand
<1>8. \A q \in Players : \A b : InLine(q, b)' => InLine(q, b) /\ (q = p => b # b0)
  BY <1>1, <1>2, <1>4 DEF InLine
<1>9. \A q \in Players : ~ InLine(q, b0) \/ q = p
  BY <1>5 DEF InLine, Holders, OwnLines
<1>10. OwnLines'
  BY <1>1, <1>2, <1>4 DEF Holders, OwnLines
<1>11. NotBoth' /\ OneHand'
  BY <1>6, <1>7, <1>8, <1>9 DEF Holders, NotBoth, OneHand
<1>12. Unfilled'
  <2> SUFFICES ASSUME main = "fill", NEW k \in next..QueueBufferSize
               PROVE  /\ ~ InLine(audioQueue, <<audioQueue, k>>)'
                      /\ \A u \in Threads : ~ InHand(u, <<audioQueue, k>>)'
    BY <1>4 DEF Unfilled, InLine, InHand
  <2>1. <<audioQueue, k>> \in Buffers /\ audioQueue \in Players
    BY <1>0, UnfilledIs
  <2>2. /\ ~ InLine(audioQueue, <<audioQueue, k>>)
        /\ \A u \in Threads : ~ InHand(u, <<audioQueue, k>>)
    BY DEF Holders, Unfilled
  <2>3. <<audioQueue, k>> # b0
    BY <1>5, <2>2
  <2>4. ~ InLine(audioQueue, <<audioQueue, k>>)'
    BY <1>4, <1>8, <2>1, <2>2 DEF InLine
  <2>5. \A u \in Threads : ~ InHand(u, <<audioQueue, k>>)'
    BY <1>4, <1>7, <2>2, <2>3 DEF InHand
  <2> QED
    BY <2>4, <2>5
<1> QED
  BY <1>10, <1>11, <1>12 DEF Holders

\* Steps that only move buffers from one line to the other of a queue.
LEMMA LinesMove ==
    ASSUME FieldsOK, Control, Holders, UNCHANGED <<reader, main, next, audioQueue>>,
           OwnLines',
           \A q \in Players, b \in Buffers : InLine(q, b)' => InLine(q, b)
    PROVE  Holders'
<1>1. \A u, b : InHand(u, b)' <=> InHand(u, b)
  BY DEF InHand
<1>2. NotBoth' /\ OneHand'
  BY <1>1 DEF Holders, NotBoth, OneHand
<1>3. Unfilled'
  <2> SUFFICES ASSUME main = "fill", NEW k \in next..QueueBufferSize
               PROVE  /\ ~ InLine(audioQueue, <<audioQueue, k>>)'
                      /\ \A u \in Threads : ~ InHand(u, <<audioQueue, k>>)'
    BY DEF Unfilled, InLine, InHand
  <2>1. <<audioQueue, k>> \in Buffers /\ audioQueue \in Players
    BY UnfilledIs
  <2>2. /\ ~ InLine(audioQueue, <<audioQueue, k>>)
        /\ \A u \in Threads : ~ InHand(u, <<audioQueue, k>>)
    BY DEF Holders, Unfilled
  <2>3. ~ InLine(audioQueue, <<audioQueue, k>>)'
    BY <2>1, <2>2 DEF InLine
  <2> QED
    BY <2>2, <2>3 DEF InHand
<1> QED
  BY <1>2, <1>3 DEF Holders

\* A buffer that is played goes to the line of the callback.
LEMMA PlaysHolders ==
    ASSUME TypeOK, Control, Holders, NEW p \in Players, Plays(p) PROVE Holders'
<1>0. ReadersOK /\ FieldsOK /\ QueuesOK
  BY TypeParts
<1> DEFINE b0 == Head(queue[p])
<1>1. /\ queue[p] \in Seq(Buffers) /\ queue[p] # <<>> /\ IsInjective(queue[p])
      /\ returned[p] \in Seq(Buffers) /\ IsInjective(returned[p])
      /\ ToSet(queue[p]) \cap ToSet(returned[p]) = {}
  BY <1>0 DEF Plays, QueuesOK, Holders, OwnLines
<1>2. /\ b0 \in Buffers /\ ToSet(queue[p]) = {b0} \cup ToSet(Tail(queue[p]))
      /\ IsInjective(Tail(queue[p])) /\ b0 \notin ToSet(Tail(queue[p]))
  BY <1>1, TailIs, TailOnce
<1>3. /\ ToSet(Append(returned[p], b0)) = ToSet(returned[p]) \cup {b0}
      /\ IsInjective(Append(returned[p], b0))
  BY <1>1, <1>2, AppendIs, AppendOnce
<1>4. /\ UNCHANGED <<reader, main, next, audioQueue>>
      /\ queue'[p] = Tail(queue[p]) /\ returned'[p] = Append(returned[p], b0)
      /\ \A q \in Players : q # p => queue'[q] = queue[q] /\ returned'[q] = returned[q]
  BY <1>0 DEF Plays, QueuesOK, fields
<1> HIDE DEF b0
<1>5. ToSet(queue'[p]) \cap ToSet(returned'[p]) = {}
  BY <1>1, <1>2, <1>3, <1>4
<1>6. ToSet(queue'[p]) \cup ToSet(returned'[p]) \subseteq ToSet(queue[p]) \cup ToSet(returned[p])
  BY <1>2, <1>3, <1>4
<1>7. OwnLines'
  <2> SUFFICES ASSUME NEW q \in Players
               PROVE  /\ IsInjective(queue'[q]) /\ IsInjective(returned'[q])
                      /\ ToSet(queue'[q]) \cap ToSet(returned'[q]) = {}
                      /\ \A b \in ToSet(queue'[q]) \cup ToSet(returned'[q]) : b[1] = q
    BY DEF OwnLines
  <2>1. CASE q = p
    BY <1>2, <1>3, <1>4, <1>5, <1>6, <2>1 DEF Holders, OwnLines
  <2>2. CASE q # p
    BY <1>4, <2>2 DEF Holders, OwnLines
  <2> QED
    BY <2>1, <2>2
<1>8. \A q \in Players, b \in Buffers : InLine(q, b)' => InLine(q, b)
  BY <1>4, <1>6 DEF InLine
<1> QED
  BY <1>0, <1>4, <1>7, <1>8, LinesMove

\* A queue that is stopped hands all its buffers to the callback.
LEMMA StopHolders ==
    ASSUME TypeOK, Control, Holders, AudioQueueStop PROVE Holders'
<1>0. ReadersOK /\ FieldsOK /\ QueuesOK
  BY TypeParts
<1> DEFINE p == audioQueue
<1>1. p \in Players
  BY <1>0 DEF AudioQueueStop, Host, nil, Players, FieldsOK
<1>2. /\ queue[p] \in Seq(Buffers) /\ IsInjective(queue[p])
      /\ returned[p] \in Seq(Buffers) /\ IsInjective(returned[p])
      /\ ToSet(returned[p]) \cap ToSet(queue[p]) = {}
  BY <1>0, <1>1 DEF QueuesOK, Holders, OwnLines
<1>3. /\ ToSet(returned[p] \o queue[p]) = ToSet(returned[p]) \cup ToSet(queue[p])
      /\ IsInjective(returned[p] \o queue[p])
  BY <1>2, ConcatIs
<1>4. /\ UNCHANGED <<reader, main, next, audioQueue>>
      /\ queue'[p] = <<>> /\ returned'[p] = returned[p] \o queue[p]
      /\ \A q \in Players : q # p => queue'[q] = queue[q] /\ returned'[q] = returned[q]
  BY <1>0, <1>1 DEF AudioQueueStop, Host, QueuesOK, fields
<1> HIDE DEF p
<1>5. ToSet(queue'[p]) = {} /\ IsInjective(queue'[p])
  <2>1. DOMAIN <<>> = {}
    OBVIOUS
  <2> QED
    BY <1>4, <2>1 DEF ToSet, IsInjective
<1>6. ToSet(queue'[p]) \cup ToSet(returned'[p]) = ToSet(queue[p]) \cup ToSet(returned[p])
  BY <1>3, <1>4, <1>5
<1>7. OwnLines'
  <2> SUFFICES ASSUME NEW q \in Players
               PROVE  /\ IsInjective(queue'[q]) /\ IsInjective(returned'[q])
                      /\ ToSet(queue'[q]) \cap ToSet(returned'[q]) = {}
                      /\ \A b \in ToSet(queue'[q]) \cup ToSet(returned'[q]) : b[1] = q
    BY DEF OwnLines
  <2>1. CASE q = p
    BY <1>3, <1>4, <1>5, <1>6, <2>1 DEF Holders, OwnLines
  <2>2. CASE q # p
    BY <1>4, <2>2 DEF Holders, OwnLines
  <2> QED
    BY <2>1, <2>2
<1>8. \A q \in Players, b \in Buffers : InLine(q, b)' => InLine(q, b)
  BY <1>4, <1>6 DEF InLine
<1> QED
  BY <1>0, <1>4, <1>7, <1>8, LinesMove

\* Every step keeps the types, the fields and the buffers in order.
LEMMA StepsKeepHolders ==
    ASSUME TypeOK, Control, Holders, [Next]_vars PROVE TypeOK' /\ Control' /\ Holders'
<1>0. ReadersOK /\ FieldsOK /\ QueuesOK
  BY TypeParts
<1>1. CASE Player \/ MainStep
  <2>1. CASE Player \/ PlayerData \/ PlayerLock \/ PlayerReturns
    <3>1. UNCHANGED <<queue, returned, reader>> /\ main' # "fill"
      BY <2>1 DEF Player, PlayerData, PlayerLock, PlayerReturns, queueVars
    <3>2. Holders'
      BY <1>0, <3>1, NothingMoves DEF InHand
    <3> QED
      BY <1>1, <3>2, PlayerTypes, PlayerControl
  <2> QED
    BY <1>1, <2>1, InitAudioHolders, FillHolders, PlayerTypes, PlayerControl DEF MainStep
<1>2. ASSUME NEW t \in Threads, ReadStep(t) PROVE TypeOK' /\ Control' /\ Holders'
  <2>1. CASE Enqueue(t)
    BY <1>2, <2>1, EnqueueHolders, ReadTypes, ReadControl
  <2>2. CASE Lock(t) \/ Read(t) \/ Copy(t) \/ Unlock(t)
    <3>1. UNCHANGED <<queue, returned, main, next, audioQueue>>
      BY <2>2 DEF Lock, Read, Copy, Unlock, fields, queueVars
    <3>2. \A u \in Threads : \A b : InHand(u, b)' => InHand(u, b)
      <4>1. CASE Lock(t)
        BY <1>0, <4>1, GoesIs DEF Lock, InHand
      <4>2. CASE Read(t)
        BY <1>0, <4>2, ReadIs DEF InHand
      <4>3. CASE Copy(t)
        BY <1>0, <4>3, GoesIs DEF Copy, InHand
      <4>4. CASE Unlock(t)
        BY <1>0, <4>4, UnlockIs DEF InHand
      <4> QED
        BY <2>2, <4>1, <4>2, <4>3, <4>4
    <3>3. Holders'
      BY <1>0, <3>1, <3>2, NothingMoves
    <3> QED
      BY <1>2, <3>3, ReadTypes, ReadControl
  <2> QED
    BY <1>2, <2>1, <2>2 DEF ReadStep
<1>3. ASSUME NEW q \in Players, AudioPlayerAQInputCallback(q) PROVE TypeOK' /\ Control' /\ Holders'
  BY <1>3, CallbackTypes, QueueControl, CallbackHolders
<1>4. ASSUME NEW q \in Players, Plays(q) PROVE TypeOK' /\ Control' /\ Holders'
  BY <1>4, PlaysTypes, QueueControl, PlaysHolders
<1>5. CASE AudioQueueStart \/ AudioQueuePause
  <2>1. UNCHANGED <<queue, returned, reader, main, next, audioQueue>>
    BY <1>5 DEF AudioQueueStart, AudioQueuePause, Host, fields
  <2>2. Holders'
    BY <1>0, <2>1, NothingMoves DEF InHand
  <2> QED
    BY <1>5, <2>2, HostTypes, QueueControl
<1>6. CASE AudioQueueStop
  BY <1>6, HostTypes, QueueControl, StopHolders
<1>7. CASE UNCHANGED vars
  <2>1. TypeOK'
    BY <1>7 DEF vars, fields, queueVars, history, TypeOK
  <2>2. Control'
    BY <1>7 DEF vars, fields, queueVars, history, Control, FieldsOfOneCall, Opening, Reads, Busy
  <2>3. Holders'
    BY <1>0, <1>7, NothingMoves DEF vars, fields, queueVars, InHand
  <2> QED
    BY <2>1, <2>2, <2>3
<1> QED
  BY <1>1, <1>2, <1>3, <1>4, <1>5, <1>6, <1>7 DEF Next

\* No buffer is anywhere at the start.
LEMMA InitHolders == Init => Holders
<1> SUFFICES ASSUME Init PROVE Holders
  OBVIOUS
<1>1. /\ \A q \in Players : queue[q] = <<>> /\ returned[q] = <<>>
      /\ \A t \in Threads : reader[t].at = "outside"
      /\ main = "outside"
  BY DEF Init, Outside
<1>2. ToSet(<<>>) = {} /\ IsInjective(<<>>)
  BY DOMAIN <<>> = {} DEF ToSet, IsInjective
<1> QED
  BY <1>1, <1>2 DEF Holders, OwnLines, NotBoth, OneHand, Unfilled, InLine, InHand

\* The variables have the types the code gives them.
THEOREM FilePlayerTypes == Spec => []TypeOK
<1>1. Init => TypeOK /\ Control /\ Holders
  BY InitTypes, InitControl, InitHolders
<1>2. TypeOK /\ Control /\ Holders /\ [Next]_vars => TypeOK' /\ Control' /\ Holders'
  BY StepsKeepHolders
<1> QED
  BY <1>1, <1>2, PTL DEF Spec

\* What OwnLines, NotBoth and OneHand say, in the words of the property.
LEMMA OneHolder == ASSUME TypeOK, Holders PROVE BuffersHaveOneHolder
<1>0. QueuesOK
  BY TypeParts
<1> SUFFICES ASSUME NEW q \in Players
             PROVE  LET line == returned[q] \o queue[q]
                    IN  /\ \A i, j \in DOMAIN line : line[i] = line[j] => i = j
                        /\ \A t \in Threads, i \in DOMAIN line : ~ InHand(t, line[i])
                        /\ \A t, u \in Threads, k \in 1..QueueBufferSize :
                              InHand(t, <<q, k>>) /\ InHand(u, <<q, k>>) => t = u
  BY Zenon DEF BuffersHaveOneHolder, InHand
<1> DEFINE line == returned[q] \o queue[q]
<1>1. /\ queue[q] \in Seq(Buffers) /\ IsInjective(queue[q])
      /\ returned[q] \in Seq(Buffers) /\ IsInjective(returned[q])
      /\ ToSet(returned[q]) \cap ToSet(queue[q]) = {}
  BY <1>0 DEF QueuesOK, Holders, OwnLines
<1>2. IsInjective(line) /\ ToSet(line) = ToSet(returned[q]) \cup ToSet(queue[q])
  BY <1>1, ConcatIs
<1> HIDE DEF line
<1>3. \A i, j \in DOMAIN line : line[i] = line[j] => i = j
  BY <1>2 DEF IsInjective
<1>4. \A i \in DOMAIN line : line[i] \in Buffers /\ InLine(q, line[i])
  <2> SUFFICES ASSUME NEW i \in DOMAIN line PROVE line[i] \in Buffers /\ InLine(q, line[i])
    OBVIOUS
  <2>1. line[i] \in ToSet(line)
    BY DEF ToSet
  <2> QED
    BY <1>0, <1>2, <2>1, LineIs DEF InLine
<1>5. \A t \in Threads, i \in DOMAIN line : ~ InHand(t, line[i])
  BY <1>4 DEF Holders, NotBoth
<1>6. \A k \in 1..QueueBufferSize : <<q, k>> \in Buffers
  BY DEF Buffers
<1>7. \A t, u \in Threads, k \in 1..QueueBufferSize :
         InHand(t, <<q, k>>) /\ InHand(u, <<q, k>>) => t = u
  BY <1>6 DEF Holders, OneHand
<1> QED
  BY <1>3, <1>5, <1>7 DEF line

\* A buffer is in one place at a time: waiting to be played, on its way to the
\* callback, or with one reader that has not queued it yet, even when players
\* overlap and replace the fields under each other's hands.
THEOREM FileBuffersHaveOneHolder == Spec => []BuffersHaveOneHolder
<1>1. Init => TypeOK /\ Control /\ Holders
  BY InitTypes, InitControl, InitHolders
<1>2. TypeOK /\ Control /\ Holders /\ [Next]_vars => TypeOK' /\ Control' /\ Holders'
  BY StepsKeepHolders
<1>3. TypeOK /\ Holders => BuffersHaveOneHolder
  BY OneHolder
<1> QED
  BY <1>1, <1>2, <1>3, PTL DEF Spec

-----------------------------------------------------------------------------
(***************************************************************************)
(* The order of the sound, while no two players overlap.                   *)
(***************************************************************************)

\* Only the last queue, once it is made, has anything to do; nothing is read
\* before; and a queue that is not there yet has played nothing.
Quiet ==
    /\ \A q \in Players : q # audioQueue \/ file # audioQueue => ~ Busy(q)
    /\ file # audioQueue => position = 0
    /\ \A q \in Players : audioQueue < q => heard[q] = <<>>

\* What was heard was heard in its order: the invariant to prove, and where a
\* chunk is from.
HeardInOrder ==
    \A q \in Players : \A i \in DOMAIN heard[q] :
        /\ heard[q][i] \in Players \X (1..Chunks)
        /\ \A j \in DOMAIN heard[q] : i < j => heard[q][i][2] < heard[q][j][2]
        /\ q \notin cut => heard[q][i] = Chunk(q, i)

\* Readers wait for one lock, and the one that reads has it.
Reading(t) == reader[t].at \in {"read", "copy", "enqueue", "unlock"}
OneReader ==
    \A t \in Threads :
        /\ Reads(t) => reader[t].lock = synlock /\ t \in {Main, audioQueue}
        /\ Reading(t) => held[synlock] = {t}

\* The chunk a buffer holds.
Nr(b) == content[b][2]

\* What was heard of a queue, and what waits, comes before the n-th chunk.
Before(a, n) ==
    /\ \A i \in DOMAIN heard[a] : heard[a][i][2] < n
    /\ \A k \in DOMAIN queue[a] : Nr(queue[a][k]) < n

\* What waits is in its order, and comes after what was heard.
QueuedInOrder(a) ==
    \A k \in DOMAIN queue[a] :
        /\ content[queue[a][k]] \in Players \X (1..Chunks)
        /\ \A i \in DOMAIN heard[a] : heard[a][i][2] < Nr(queue[a][k])
        /\ \A j \in DOMAIN queue[a] : k < j => Nr(queue[a][k]) < Nr(queue[a][j])
        /\ a \notin cut => content[queue[a][k]] = Chunk(a, Len(heard[a]) + k)

\* A thread has read a chunk that is not in the queue yet: the last one read.
Carries(t) == reader[t].at \in {"copy", "enqueue"} /\ reader[t].some
Carried(a) ==
    \A t \in Threads :
        /\ Carries(t) => /\ position # 0 /\ Before(a, position)
                         /\ reader[t].at = "copy" => data = Chunk(a, position)
                         /\ reader[t].at = "enqueue" =>
                               content[reader[t].buffer] = Chunk(a, position)
        /\ reader[t].at = "enqueue" /\ ~ reader[t].some => content[reader[t].buffer] = Empty

\* Of a queue that was not stopped, every chunk that was read was heard, waits
\* or is carried.
OnItsWay == IF \E t \in Threads : Carries(t) THEN 1 ELSE 0
Accounted(a) ==
    a \notin cut => /\ state[a] # "stopped"
                    /\ position = Len(heard[a]) + Len(queue[a]) + OnItsWay

Playing(a) == Before(a, position + 1) /\ QueuedInOrder(a) /\ Carried(a) /\ Accounted(a)

SoundInv ==
    /\ Quiet /\ HeardInOrder /\ OneReader
    /\ file = audioQueue /\ audioQueue # nil => Playing(audioQueue)

\* A thread that reads does so for the queue that plays.
LEMMA ReaderIs ==
    ASSUME TypeOK, Control, SoundInv, NEW t \in Threads, Reads(t)
    PROVE  /\ file = audioQueue /\ synlock = audioQueue /\ audioQueue \in Players
           /\ reader[t].lock = audioQueue /\ t \in {Main, audioQueue}
           /\ reader[t].buffer \in Buffers /\ reader[t].buffer[1] = audioQueue
           /\ Playing(audioQueue)
<1>0. ReadersOK /\ FieldsOK
  BY TypeParts
<1>1. audioQueue \in Players /\ reader[t].buffer \in Buffers
  BY <1>0, ReadsAFile DEF ReadersOK, Readers
<1>2. t \in {Main, audioQueue} /\ reader[t].lock = synlock
  BY DEF SoundInv, OneReader
<1>3. file = audioQueue /\ reader[t].buffer[1] = audioQueue
  <2>1. CASE t = Main
    BY <2>1 DEF Control, FieldsOfOneCall, Opening
  <2>2. CASE t = audioQueue
    <3>1. Busy(t)
      BY DEF Busy, Reads
    <3> QED
      BY <1>1, <2>2, <3>1 DEF SoundInv, Quiet, Control
  <2> QED
    BY <1>2, <2>1, <2>2
<1>4. synlock = audioQueue
  BY <1>0, <1>3 DEF Control, FieldsOfOneCall, FieldsOK
<1> QED
  BY <1>1, <1>2, <1>3, <1>4 DEF SoundInv, Players, nil

\* No two threads read at a time.
LEMMA ReadsAlone ==
    ASSUME OneReader, NEW t \in Threads, NEW u \in Threads, Reading(t), Reading(u)
    PROVE  t = u
<1>1. held[synlock] = {t} /\ held[synlock] = {u}
  BY DEF OneReader
<1> QED
  BY <1>1

\* Steps of threads that carry nothing, and change nothing of the sound.
LEMMA PlayingStays ==
    ASSUME NEW a \in Players, Playing(a),
           UNCHANGED <<position, data, queue, content, heard, cut>>,
           state[a] # "stopped" => state'[a] # "stopped",
           \A t \in Threads : \/ reader'[t] = reader[t]
                              \/ /\ reader[t].at \notin {"copy", "enqueue"}
                                 /\ reader'[t].at \notin {"copy", "enqueue"}
    PROVE  Playing(a)'
<1>1. \A t \in Threads : Carries(t)' <=> Carries(t)
  BY DEF Carries
<1>2. OnItsWay' = OnItsWay
  BY <1>1 DEF OnItsWay
<1>3. Before(a, position + 1)' /\ QueuedInOrder(a)'
  BY DEF Playing, Before, QueuedInOrder, Nr
<1>4. \A n : Before(a, n) => Before(a, n)'
  BY DEF Before, Nr
<1>5. Carried(a)'
  <2> SUFFICES ASSUME NEW t \in Threads
               PROVE  /\ Carries(t)' =>
                            /\ position # 0 /\ Before(a, position)'
                            /\ reader'[t].at = "copy" => data = Chunk(a, position)
                            /\ reader'[t].at = "enqueue" =>
                                  content[reader'[t].buffer] = Chunk(a, position)
                      /\ reader'[t].at = "enqueue" /\ ~ reader'[t].some =>
                            content[reader'[t].buffer] = Empty
    BY DEF Carried
  <2>1. CASE reader'[t] = reader[t]
    BY <1>1, <2>1 DEF Playing, Carried, Before, Nr
  <2>2. CASE reader'[t].at \notin {"copy", "enqueue"}
    BY <2>2 DEF Carries
  <2> QED
    BY <2>1, <2>2
<1>6. Accounted(a)'
  BY <1>2 DEF Playing, Accounted
<1> QED
  BY <1>3, <1>5, <1>6 DEF Playing

\* A call of player that finds nothing to do, and makes the fields of the next.
LEMMA PlayerSound ==
    ASSUME TypeOK, Control, SoundInv, Player \/ MainStep, ~ overlapped' PROVE SoundInv'
<1>0. ReadersOK /\ FieldsOK /\ QueuesOK
  BY TypeParts
<1>1. CASE Player \/ PlayerData \/ PlayerLock
  <2>1. /\ UNCHANGED <<audioQueue, heard, cut, reader, queue, returned>>
        /\ file' # audioQueue' /\ position' = 0 /\ main # "fill"
        /\ \A q \in Players : ~ Busy(q)
    <3>1. CASE Player
      <4>1. file' = audioQueue + 1
        BY <3>1 DEF Player, Control, FieldsOfOneCall, Opening
      <4> QED
        BY <1>0, <3>1, <4>1 DEF Player, FieldsOK, history
    <3>2. CASE PlayerData \/ PlayerLock
      <4>1. file = audioQueue + 1 /\ file # audioQueue /\ file' = file
        BY <1>0, <3>2 DEF PlayerData, PlayerLock, Control, FieldsOfOneCall, Opening, FieldsOK
      <4> QED
        BY <3>2, <4>1 DEF PlayerData, PlayerLock, SoundInv, Quiet, queueVars, history
    <3> QED
      BY <1>1, <3>1, <3>2
  <2>2. \A t \in Threads : ~ Reads(t)
    BY <2>1 DEF Control, Busy, Reads, Threads
  <2>3. Quiet' /\ HeardInOrder'
    BY <2>1 DEF SoundInv, Quiet, HeardInOrder, Busy
  <2>4. OneReader'
    BY <2>1, <2>2 DEF OneReader, Reads, Reading
  <2> QED
    BY <2>1, <2>3, <2>4 DEF SoundInv
<1>2. CASE InitAudio
  <2> DEFINE a == file
  <2>1. /\ UNCHANGED <<file, position, heard, cut, reader, queue, returned>>
        /\ audioQueue' = file /\ audioQueue < file /\ file \in Players
        /\ state' = [state EXCEPT ![file] = "running"]
    BY <1>0, <1>2 DEF InitAudio, Control, FieldsOfOneCall, Opening, FieldsOK, Players, history
  <2>2. (\A q \in Players : ~ Busy(q)) /\ position = 0 /\ heard[file] = <<>>
    BY <1>0, <2>1 DEF SoundInv, Quiet, FieldsOK
  <2>3. \A t \in Threads : ~ Reads(t)
    BY <1>2, <2>2 DEF Control, InitAudio, Busy, Reads, Threads
  <2>4. Quiet' /\ HeardInOrder'
    <3>1. \A q \in Players : audioQueue' < q => audioQueue < q
      BY <1>0, <2>1 DEF FieldsOK, Players
    <3> QED
      BY <2>1, <2>2, <3>1 DEF SoundInv, Quiet, HeardInOrder, Busy
  <2>5. OneReader'
    BY <2>1, <2>3 DEF OneReader, Reads, Reading
  <2>6. queue[file] = <<>> /\ state'[file] = "running"
    BY <1>0, <2>1, <2>2 DEF Busy, QueuesOK
  <2>7. DOMAIN <<>> = {} /\ Len(<<>>) = 0
    BY EmptySeq
  <2>8. Before(audioQueue, position + 1)' /\ QueuedInOrder(audioQueue)'
    BY <2>1, <2>2, <2>6, <2>7 DEF Before, QueuedInOrder
  <2>9. Carried(audioQueue)' /\ OnItsWay' = 0
    BY <2>1, <2>3 DEF Carried, Carries, Reads, OnItsWay
  <2>10. Accounted(audioQueue)'
    BY <2>1, <2>2, <2>6, <2>7, <2>9 DEF Accounted
  <2> QED
    BY <2>4, <2>5, <2>8, <2>9, <2>10 DEF SoundInv, Playing
<1>3. CASE FillBuffer
  <2>1. audioQueue \in Players /\ next \in 1..QueueBufferSize /\ Main \in Threads
    BY <1>0, <1>3, FilePlayerAssumption DEF FillBuffer, Control, FieldsOK, Players, nil, Threads
  <2>2. <<audioQueue, next>> \in Buffers
    BY <2>1 DEF Buffers
  <2>3. /\ reader'[Main].at = "lock" /\ reader'[Main].lock = synlock /\ reader[Main].at = "outside"
        /\ \A t \in Threads : t # Main => reader'[t] = reader[t]
    BY <1>0, <1>3, <2>1, <2>2, CallIs DEF FillBuffer, FieldsOK
  <2>4. UNCHANGED <<file, audioQueue, synlock, held, position, data, queueVars, history>>
    BY <1>3 DEF FillBuffer, fields
  <2>5. Main \notin Players /\ Players \subseteq Threads
    BY DEF Main, Players, Threads
  <2>6. Quiet' /\ HeardInOrder'
    BY <2>3, <2>4, <2>5 DEF SoundInv, Quiet, HeardInOrder, Busy, queueVars, history
  <2>7. OneReader'
    BY <2>3, <2>4 DEF SoundInv, OneReader, Reads, Reading
  <2>8. file = audioQueue /\ audioQueue # nil => Playing(audioQueue)'
    BY <2>1, <2>3, <2>4, PlayingStays DEF SoundInv, queueVars, history
  <2> QED
    BY <2>4, <2>6, <2>7, <2>8 DEF SoundInv
<1>4. CASE PlayerReturns
  <2>1. UNCHANGED <<file, audioQueue, synlock, held, position, data, reader, queueVars, history>>
    BY <1>4 DEF PlayerReturns, fields
  <2>2. Quiet' /\ HeardInOrder' /\ OneReader'
    BY <2>1 DEF SoundInv, Quiet, HeardInOrder, OneReader, Reads, Reading, Busy, queueVars, history
  <2>3. file = audioQueue /\ audioQueue # nil => Playing(audioQueue)'
    <3>1. audioQueue # nil => audioQueue \in Players
      BY <1>0 DEF FieldsOK, Players, nil
    <3> QED
      BY <2>1, <3>1, PlayingStays DEF SoundInv, queueVars, history
  <2> QED
    BY <2>1, <2>2, <2>3 DEF SoundInv
<1> QED
  BY <1>1, <1>2, <1>3, <1>4 DEF MainStep

\* A thread that takes the lock, or returns, changes nothing of the sound.
LEMMA LockSound ==
    ASSUME TypeOK, Control, SoundInv, NEW t \in Threads, Lock(t) \/ Unlock(t) PROVE SoundInv'
<1>0. ReadersOK /\ FieldsOK /\ QueuesOK
  BY TypeParts
<1>1. UNCHANGED <<file, audioQueue, synlock, position, data, queueVars, history>>
  BY DEF Lock, Unlock, fields
<1>2. /\ Reads(t) /\ ~ Carries(t) /\ reader'[t].at \notin {"copy", "enqueue"}
      /\ reader[t].at \notin {"copy", "enqueue"}
      /\ Reads(t)' => reader'[t].lock = reader[t].lock
      /\ \A u \in Threads : u # t => reader'[u] = reader[u]
  <2>1. CASE Lock(t)
    BY <1>0, <2>1, GoesIs DEF Lock, Reads, Carries
  <2>2. CASE Unlock(t)
    BY <1>0, <2>2, UnlockIs DEF Reads, Carries
  <2> QED
    BY <2>1, <2>2
<1>3. /\ file = audioQueue /\ synlock = audioQueue /\ audioQueue \in Players
      /\ reader[t].lock = audioQueue /\ t \in {Main, audioQueue} /\ Playing(audioQueue)
  BY <1>2, ReaderIs
<1>4. Players \subseteq Threads /\ Main \notin Players
  BY DEF Main, Players, Threads
<1>5. Quiet' /\ HeardInOrder'
  BY <1>1, <1>2, <1>3, <1>4 DEF SoundInv, Quiet, HeardInOrder, Busy, queueVars, history
<1>6. OneReader'
  <2> SUFFICES ASSUME NEW u \in Threads
               PROVE  /\ Reads(u)' => reader'[u].lock = synlock' /\ u \in {Main, audioQueue'}
                      /\ Reading(u)' => held'[synlock'] = {u}
    BY DEF OneReader
  <2>1. Reads(u)' => reader'[u].lock = synlock' /\ u \in {Main, audioQueue'}
    <3>1. CASE u = t
      BY <1>1, <1>2, <1>3, <3>1
    <3>2. CASE u # t
      BY <1>1, <1>2, <3>2 DEF SoundInv, OneReader, Reads
    <3> QED
      BY <3>1, <3>2
  <2>2. CASE Lock(t)
    <3>1. held[audioQueue] = {} /\ held'[audioQueue] = {t}
      BY <1>0, <1>3, <2>2 DEF Lock, FieldsOK
    <3>2. \A v \in Threads : ~ Reading(v)
      BY <1>3, <3>1 DEF SoundInv, OneReader
    <3> QED
      BY <1>1, <1>2, <1>3, <2>1, <3>1, <3>2 DEF Reading
  <2>3. CASE Unlock(t)
    <3>1. Reading(t) /\ ~ Reading(t)'
      BY <1>0, <2>3, UnlockIs DEF Reading
    <3>2. \A v \in Threads : Reading(v) => v = t
      BY <3>1, ReadsAlone DEF SoundInv
    <3> QED
      BY <1>2, <2>1, <3>1, <3>2 DEF Reading
  <2> QED
    BY <2>2, <2>3
<1>7. Playing(audioQueue)'
  <2> DEFINE a == audioQueue
  <2>1. a \in Players /\ Playing(a)
    BY <1>3
  <2>2. state[a] # "stopped" => state'[a] # "stopped"
    BY <1>1 DEF queueVars
  <2> HIDE DEF a
  <2>3. \A u \in Threads : \/ reader'[u] = reader[u]
                           \/ /\ reader[u].at \notin {"copy", "enqueue"}
                              /\ reader'[u].at \notin {"copy", "enqueue"}
    BY <1>2
  <2> QED
    BY <1>1, <1>3, <2>3, PlayingStays DEF queueVars, history
<1> QED
  BY <1>5, <1>6, <1>7 DEF SoundInv

\* A chunk is read: the next one, by the one thread that reads.
LEMMA ReadSound ==
    ASSUME TypeOK, Control, SoundInv, NEW t \in Threads, Read(t), ~ overlapped PROVE SoundInv'
<1>0. ReadersOK /\ FieldsOK /\ QueuesOK
  BY TypeParts
<1>1. UNCHANGED <<file, audioQueue, synlock, held, queueVars, history>>
  BY DEF Read, fields
<1>2. /\ reader[t].at = "read" /\ reader'[t].at = "copy"
      /\ reader'[t].lock = reader[t].lock /\ reader'[t].some = ~ AtEnd
      /\ \A u \in Threads : u # t => reader'[u] = reader[u]
  BY <1>0, ReadIs
<1>3. Reads(t) /\ Reading(t)
  BY <1>2 DEF Reads, Reading
<1>4. /\ file = audioQueue /\ audioQueue \in Players /\ t \in {Main, audioQueue}
      /\ Playing(audioQueue)
  BY <1>3, ReaderIs
<1>5. Players \subseteq Threads /\ Main \notin Players
  BY DEF Main, Players, Threads
<1>6. Quiet' /\ HeardInOrder'
  BY <1>1, <1>2, <1>4, <1>5 DEF SoundInv, Quiet, HeardInOrder, Busy, queueVars, history
<1>7. OneReader'
  BY <1>1, <1>2, <1>3 DEF SoundInv, OneReader, Reads, Reading
<1>8. ASSUME NEW a \in Players, a = audioQueue PROVE Playing(a)'
  <2>1. \A u \in Threads : u # t => reader[u].at \notin {"copy", "enqueue"}
    BY <1>3, ReadsAlone DEF SoundInv, Reading
  <2>2. (\A u \in Threads : Carries(u)' => u = t) /\ (\A u \in Threads : ~ Carries(u))
    BY <1>2, <2>1 DEF Carries
  <2>3. OnItsWay = 0
    BY <2>2 DEF OnItsWay
  <2>4. position \in Nat
    BY <1>0, FilePlayerAssumption DEF FieldsOK
  <2>5. Before(a, position + 1) /\ QueuedInOrder(a) /\ Accounted(a)
    BY <1>4, <1>8 DEF Playing
  <2>6. QueuedInOrder(a)' /\ \A n : Before(a, n) => Before(a, n)'
    BY <1>1, <2>5 DEF QueuedInOrder, Before, Nr, queueVars, history
  <2>7. CASE AtEnd
    <3>1. UNCHANGED <<position, data>> /\ \A u \in Threads : ~ Carries(u)'
      BY <1>2, <2>2, <2>7 DEF Read, Carries
    <3>2. OnItsWay' = 0 /\ Before(a, position + 1)'
      BY <2>5, <2>6, <3>1 DEF OnItsWay, Before, Nr
    <3>3. Carried(a)'
      BY <1>2, <2>1, <3>1 DEF Carried
    <3>4. Accounted(a)'
      BY <1>1, <2>3, <2>5, <3>1, <3>2 DEF Accounted, queueVars, history
    <3> QED
      BY <2>6, <3>2, <3>3, <3>4 DEF Playing
  <2>8. CASE ~ AtEnd
    <3>1. position' = position + 1 /\ data' = Chunk(a, position + 1) /\ Carries(t)'
      BY <1>2, <1>4, <1>8, <2>8 DEF Read, Carries
    <3>2. OnItsWay' = 1
      BY <3>1 DEF OnItsWay
    <3>3. Before(a, position)' /\ position' # 0
      BY <1>1, <2>4, <2>5, <3>1 DEF Before, Nr, queueVars, history
    <3>4. Before(a, position + 1)'
      <4>1. \A i \in DOMAIN heard[a] : heard[a][i][2] \in Int
        BY <1>8 DEF SoundInv, HeardInOrder
      <4>2. \A k \in DOMAIN queue[a] : Nr(queue[a][k]) \in Int
        BY <2>5 DEF QueuedInOrder, Nr
      <4> QED
        BY <1>1, <2>4, <2>5, <3>1, <4>1, <4>2 DEF Before, Nr, queueVars, history
    <3>5. Carried(a)'
      BY <1>2, <2>1, <3>1, <3>3 DEF Carried, Carries
    <3>6. Accounted(a)'
      <4>1. Len(heard[a]) \in Nat /\ Len(queue[a]) \in Nat
        BY <1>0, LenProperties DEF QueuesOK
      <4> QED
        BY <1>1, <2>3, <2>4, <2>5, <3>1, <3>2, <4>1 DEF Accounted, queueVars, history
    <3> QED
      BY <2>6, <3>4, <3>5, <3>6 DEF Playing
  <2> QED
    BY <2>7, <2>8
<1>9. Playing(audioQueue)'
  BY <1>1, <1>4, <1>8
<1> QED
  BY <1>6, <1>7, <1>9 DEF SoundInv

\* The bytes are copied: to a buffer that is in no line.
LEMMA CopySound ==
    ASSUME TypeOK, Control, Holders, SoundInv, NEW t \in Threads, Copy(t), ~ overlapped
    PROVE  SoundInv'
<1>0. ReadersOK /\ FieldsOK /\ QueuesOK
  BY TypeParts
<1>1. /\ UNCHANGED <<file, audioQueue, synlock, held, position, data, state, queue, returned,
                     history>>
      /\ content' = [content EXCEPT ![reader[t].buffer] = Copied(t)]
  BY DEF Copy, fields
<1>2. /\ reader[t].at = "copy" /\ reader'[t].at = "enqueue"
      /\ reader'[t].lock = reader[t].lock /\ reader'[t].some = reader[t].some
      /\ reader'[t].buffer = reader[t].buffer
      /\ \A u \in Threads : u # t => reader'[u] = reader[u]
  BY <1>0, GoesIs DEF Copy
<1>3. Reads(t) /\ Reading(t)
  BY <1>2 DEF Reads, Reading
<1>4. /\ file = audioQueue /\ audioQueue \in Players /\ t \in {Main, audioQueue}
      /\ Playing(audioQueue) /\ reader[t].buffer \in Buffers
  BY <1>3, ReaderIs
<1>5. Players \subseteq Threads /\ Main \notin Players
  BY DEF Main, Players, Threads
<1>6. Quiet' /\ HeardInOrder'
  BY <1>1, <1>2, <1>4, <1>5 DEF SoundInv, Quiet, HeardInOrder, Busy, history
<1>7. OneReader'
  BY <1>1, <1>2, <1>3 DEF SoundInv, OneReader, Reads, Reading
<1>8. ASSUME NEW a \in Players, a = audioQueue PROVE Playing(a)'
  <2>1. \A k \in DOMAIN queue[a] : content'[queue[a][k]] = content[queue[a][k]]
    <3> SUFFICES ASSUME NEW k \in DOMAIN queue[a] PROVE queue[a][k] # reader[t].buffer
      BY <1>0, <1>1, <1>4 DEF QueuesOK
    <3>1. InHand(t, reader[t].buffer)
      BY <1>2 DEF InHand
    <3>2. ~ InLine(a, reader[t].buffer)
      BY <1>4, <1>8, <3>1 DEF Holders, NotBoth
    <3> QED
      BY <3>2, Zenon DEF InLine, ToSet
  <2>2. content'[reader[t].buffer] = Copied(t)
    BY <1>0, <1>1, <1>4 DEF QueuesOK
  <2>3. \A u \in Threads : u # t => reader[u].at \notin {"copy", "enqueue"}
    BY <1>3, ReadsAlone DEF SoundInv, Reading
  <2>4. \A u \in Threads : Carries(u)' <=> Carries(u)
    BY <1>2 DEF Carries
  <2>5. OnItsWay' = OnItsWay
    BY <2>4 DEF OnItsWay
  <2>6. \A n : Before(a, n) => Before(a, n)'
    BY <1>1, <2>1 DEF Before, Nr, history
  <2>7. Before(a, position + 1)'
    BY <1>1, <1>4, <1>8, <2>1 DEF Playing, Before, Nr, history
  <2>8. QueuedInOrder(a)'
    BY <1>1, <1>4, <1>8, <2>1 DEF Playing, QueuedInOrder, Nr, history
  <2>9. Accounted(a)'
    BY <1>1, <1>4, <1>8, <2>5 DEF Playing, Accounted, history
  <2>10. Carried(a)'
    <3>1. Carries(t) => /\ position # 0 /\ Before(a, position) /\ data = Chunk(a, position)
                        /\ Copied(t) = data
      BY <1>2, <1>4, <1>8 DEF Playing, Carried, Copied, Carries
    <3>2. ~ reader[t].some => Copied(t) = Empty
      BY DEF Copied
    <3>3. Before(a, position) => Before(a, position)'
      BY <1>1, <2>1 DEF Before, Nr, history
    <3>4. \A u \in Threads : u # t => reader'[u].at \notin {"copy", "enqueue"}
      BY <1>2, <2>3
    <3> QED
      BY <1>1, <1>2, <2>2, <2>4, <3>1, <3>2, <3>3, <3>4 DEF Carried, Carries
  <2> QED
    BY <2>7, <2>8, <2>9, <2>10 DEF Playing
<1>9. Playing(audioQueue)'
  BY <1>1, <1>4, <1>8
<1> QED
  BY <1>6, <1>7, <1>9 DEF SoundInv

\* The bytes are queued, behind all that were read before; a queue that was not
\* stopped takes them.
LEMMA EnqueueSound ==
    ASSUME TypeOK, Control, Holders, SoundInv, NEW t \in Threads, Enqueue(t), ~ overlapped
    PROVE  SoundInv'
<1>0. ReadersOK /\ FieldsOK /\ QueuesOK
  BY TypeParts
<1> DEFINE b0 == reader[t].buffer
<1>1. /\ UNCHANGED <<file, audioQueue, synlock, held, position, data, state, returned, content,
                     history>>
      /\ \E accepted \in Accepts(b0[1], content[b0]) :
            queue' = IF accepted THEN [queue EXCEPT ![b0[1]] = Append(@, b0)] ELSE queue
  BY DEF Enqueue, fields
<1>2. /\ reader[t].at = "enqueue" /\ reader'[t].at = "unlock"
      /\ reader'[t].lock = reader[t].lock
      /\ \A u \in Threads : u # t => reader'[u] = reader[u]
  BY <1>0, GoesIs DEF Enqueue
<1>3. Reads(t) /\ Reading(t)
  BY <1>2 DEF Reads, Reading
<1>4. /\ file = audioQueue /\ audioQueue \in Players /\ t \in {Main, audioQueue}
      /\ Playing(audioQueue) /\ b0 \in Buffers /\ b0[1] = audioQueue
  BY <1>3, ReaderIs
<1>5. Players \subseteq Threads /\ Main \notin Players
  BY DEF Main, Players, Threads
<1> HIDE DEF b0
<1>6. \A q \in Players : q # audioQueue => queue'[q] = queue[q]
  BY <1>0, <1>1, <1>4 DEF QueuesOK
<1>7. Quiet' /\ HeardInOrder'
  BY <1>1, <1>2, <1>4, <1>5, <1>6 DEF SoundInv, Quiet, HeardInOrder, Busy, history
<1>8. OneReader'
  BY <1>1, <1>2, <1>3 DEF SoundInv, OneReader, Reads, Reading
<1>9. ASSUME NEW a \in Players, a = audioQueue PROVE Playing(a)'
  <2>1. \A u \in Threads : u # t => reader[u].at \notin {"copy", "enqueue"}
    BY <1>3, ReadsAlone DEF SoundInv, Reading
  <2>2. \A u \in Threads : ~ Carries(u)' /\ reader'[u].at # "enqueue"
    BY <1>2, <2>1 DEF Carries
  <2>3. OnItsWay' = 0 /\ OnItsWay = IF reader[t].some THEN 1 ELSE 0
    BY <1>2, <2>1, <2>2 DEF OnItsWay, Carries
  <2>4. Carried(a)'
    BY <2>2 DEF Carried
  <2>5. Before(a, position + 1) /\ QueuedInOrder(a) /\ Accounted(a) /\ Carried(a)
    BY <1>4, <1>9 DEF Playing
  <2>6. /\ queue[a] \in Seq(Buffers) /\ heard[a] \in Seq(Contents)
        /\ Len(queue[a]) \in Nat /\ Len(heard[a]) \in Nat /\ position \in 0..Chunks /\ Chunks \in Nat
    BY <1>0, LenProperties, FilePlayerAssumption DEF QueuesOK, FieldsOK
  <2>7. CASE ~ reader[t].some
    <3>1. content[b0] = Empty
      BY <1>2, <2>5, <2>7 DEF Carried, b0
    <3>2. queue' = queue
      BY <1>1, <3>1 DEF Accepts
    <3>3. Before(a, position + 1)' /\ QueuedInOrder(a)'
      BY <1>1, <2>5, <3>2 DEF Before, QueuedInOrder, Nr, history
    <3>4. Accounted(a)'
      BY <1>1, <2>3, <2>5, <2>7, <3>2 DEF Accounted, history
    <3> QED
      BY <2>4, <3>3, <3>4 DEF Playing
  <2>8. CASE reader[t].some
    <3>1. content[b0] = Chunk(a, position) /\ position # 0 /\ Before(a, position)
      BY <1>2, <2>5, <2>8 DEF Carried, Carries, b0
    <3>2. /\ content[b0] \in Players \X (1..Chunks) /\ Nr(b0) = position
      BY <2>6, <3>1 DEF Chunk, Nr
    <3>3. CASE queue'[a] = queue[a]
      <4>1. a \in cut
        <5>1. CASE state[a] = "stopped"
          BY <2>5, <5>1 DEF Accounted
        <5>2. CASE state[a] # "stopped"
          <6>1. content[b0] # Empty
            BY <3>1 DEF Chunk, Empty
          <6>2. queue'[a] = Append(queue[a], b0)
            BY <1>0, <1>1, <1>4, <1>9, <5>2, <6>1 DEF Accepts, QueuesOK
          <6>3. Len(queue'[a]) = Len(queue[a]) + 1
            BY <1>4, <2>6, <6>2, AppendIs
          <6> QED
            BY <2>6, <3>3, <6>3
        <5> QED
          BY <5>1, <5>2
      <4>2. Before(a, position + 1)' /\ QueuedInOrder(a)'
        BY <1>1, <2>5, <3>3 DEF Before, QueuedInOrder, Nr, history
      <4>3. Accounted(a)'
        BY <1>1, <4>1 DEF Accounted, history
      <4> QED
        BY <2>4, <4>2, <4>3 DEF Playing
    <3>4. CASE queue'[a] = Append(queue[a], b0)
      <4> DEFINE n == Len(queue[a]) + 1
                 l == queue'[a]
      <4>1. /\ DOMAIN l = 1..n /\ Len(l) = n /\ l[n] = b0
            /\ DOMAIN queue[a] = 1..Len(queue[a])
            /\ \A k \in DOMAIN queue[a] : l[k] = queue[a][k]
        BY <1>4, <2>6, <3>4, AppendIs
      <4>2. \A k \in DOMAIN l : (k \in DOMAIN queue[a] /\ k < n) \/ k = n
        BY <2>6, <4>1
      <4> HIDE DEF l
      <4>3. \A k \in DOMAIN queue[a] : Nr(queue[a][k]) \in Nat /\ Nr(queue[a][k]) < position
        BY <2>5, <3>1 DEF QueuedInOrder, Before, Nr
      <4>4. \A i \in DOMAIN heard[a] : heard[a][i][2] < position /\ heard[a][i][2] \in Nat
        BY <1>9, <3>1 DEF Before, SoundInv, HeardInOrder
      <4>5. Before(a, position + 1)'
        <5>1. \A k \in DOMAIN l : Nr(l[k]) < position + 1
          BY <2>6, <3>2, <4>1, <4>2, <4>3
        <5>2. \A i \in DOMAIN heard[a] : heard[a][i][2] < position + 1
          BY <2>6, <4>4
        <5> QED
          BY <1>1, <5>1, <5>2 DEF Before, Nr, l, history
      <4>6. a \notin cut => position = Len(heard[a]) + n
        <5>1. OnItsWay = 1
          BY <2>3, <2>8
        <5>2. a \notin cut => position = Len(heard[a]) + Len(queue[a]) + 1
          BY <2>5, <5>1 DEF Accounted
        <5>3. \A x, y \in Nat : x + y + 1 = x + (y + 1)
          OBVIOUS
        <5>4. Len(heard[a]) + Len(queue[a]) + 1 = Len(heard[a]) + n
          BY <2>6, <5>3, Zenon
        <5> QED
          BY <5>2, <5>4
      <4>7. QueuedInOrder(a)'
        <5> SUFFICES ASSUME NEW k \in DOMAIN l
                     PROVE  /\ content[l[k]] \in Players \X (1..Chunks)
                            /\ \A i \in DOMAIN heard[a] : heard[a][i][2] < Nr(l[k])
                            /\ \A j \in DOMAIN l : k < j => Nr(l[k]) < Nr(l[j])
                            /\ a \notin cut => content[l[k]] = Chunk(a, Len(heard[a]) + k)
          BY <1>1 DEF QueuedInOrder, Nr, l, history
        <5>1. CASE k = n
          <6>1. \A j \in DOMAIN l : ~ (k < j)
            BY <2>6, <4>1, <5>1
          <6> QED
            BY <3>1, <3>2, <4>1, <4>4, <4>6, <5>1, <6>1
        <5>2. CASE k \in DOMAIN queue[a] /\ k < n
          <6>1. \A j \in DOMAIN l : k < j => Nr(l[k]) < Nr(l[j])
            BY <2>5, <3>2, <4>1, <4>2, <4>3, <5>2 DEF QueuedInOrder
          <6> QED
            BY <2>5, <4>1, <5>2, <6>1 DEF QueuedInOrder
        <5> QED
          BY <4>2, <5>1, <5>2
      <4>8. Accounted(a)'
        <5>1. a \notin cut => state[a] # "stopped" /\ position = Len(heard[a]) + Len(queue'[a]) + 0
          <6>1. Len(heard[a]) + n + 0 = Len(heard[a]) + n
            BY <2>6
          <6>2. Len(queue'[a]) = n
            BY <4>1 DEF l
          <6> HIDE DEF n
          <6> QED
            BY <2>5, <4>6, <6>1, <6>2 DEF Accounted
        <5>2. OnItsWay' = 0
          BY <2>3
        <5> QED
          BY <1>1, <5>1, <5>2 DEF Accounted, history
      <4> QED
        BY <2>4, <4>5, <4>7, <4>8 DEF Playing
    <3> QED
      BY <1>0, <1>1, <1>4, <1>9, <3>3, <3>4 DEF QueuesOK
  <2> QED
    BY <2>7, <2>8
<1>10. Playing(audioQueue)'
  BY <1>1, <1>4, <1>9
<1> QED
  BY <1>7, <1>8, <1>10 DEF SoundInv

\* A callback only waits for the lock, with a buffer that is not filled again yet.
LEMMA CallbackSound ==
    ASSUME TypeOK, Control, SoundInv, NEW p \in Players, AudioPlayerAQInputCallback(p)
    PROVE  SoundInv'
<1>0. ReadersOK /\ FieldsOK /\ QueuesOK
  BY TypeParts
<1>1. UNCHANGED <<file, audioQueue, synlock, held, position, data, state, queue, content,
                  history>>
  BY DEF AudioPlayerAQInputCallback, fields
<1>2. Head(returned[p]) \in Buffers
  BY <1>0, TailIs DEF AudioPlayerAQInputCallback, QueuesOK
<1>3. /\ reader[p].at = "outside" /\ reader'[p].at = "lock" /\ reader'[p].lock = synlock
      /\ \A u \in Threads : u # p => reader'[u] = reader[u]
  BY <1>0, <1>2, CallIs DEF AudioPlayerAQInputCallback, FieldsOK, Threads
<1>4. p = audioQueue /\ file = audioQueue /\ audioQueue # nil
  <2>1. Busy(p)
    BY DEF AudioPlayerAQInputCallback, Busy
  <2> QED
    BY <2>1 DEF SoundInv, Quiet, Players, nil
<1>5. \A q \in Players : q # p => returned'[q] = returned[q] /\ q \in Threads
  BY <1>0 DEF AudioPlayerAQInputCallback, QueuesOK, Threads
<1>6. Quiet' /\ HeardInOrder'
  BY <1>1, <1>3, <1>4, <1>5 DEF SoundInv, Quiet, HeardInOrder, Busy, history
<1>7. OneReader'
  BY <1>1, <1>3, <1>4 DEF SoundInv, OneReader, Reads, Reading
<1>8. Playing(audioQueue)'
  BY <1>1, <1>3, <1>4, PlayingStays DEF SoundInv, history
<1> QED
  BY <1>6, <1>7, <1>8 DEF SoundInv

\* The queue plays the first of what waits: the next after what was heard.
LEMMA PlaysSound ==
    ASSUME TypeOK, Control, Holders, SoundInv, NEW p \in Players, Plays(p), ~ overlapped
    PROVE  SoundInv'
<1>0. ReadersOK /\ FieldsOK /\ QueuesOK
  BY TypeParts
<1> DEFINE b0 == Head(queue[p])
           c0 == content[b0]
           n == Len(heard[p]) + 1
<1>1. /\ UNCHANGED <<file, audioQueue, synlock, held, position, data, state, reader, cut>>
      /\ queue[p] # <<>> /\ queue'[p] = Tail(queue[p]) /\ heard'[p] = Append(heard[p], c0)
      /\ \A q \in Players : q # p => /\ queue'[q] = queue[q] /\ returned'[q] = returned[q]
                                     /\ heard'[q] = heard[q]
      /\ content' = [content EXCEPT ![b0] = Empty]
  BY <1>0 DEF Plays, QueuesOK, fields
<1>2. p = audioQueue /\ file = audioQueue /\ Playing(p)
  <2>1. Busy(p)
    BY <1>1 DEF Busy
  <2> QED
    BY <2>1 DEF SoundInv, Quiet, Players, nil
<1>3. /\ queue[p] \in Seq(Buffers) /\ heard[p] \in Seq(Contents)
      /\ Len(queue[p]) \in Nat /\ Len(heard[p]) \in Nat /\ position \in Nat
  BY <1>0, LenProperties, FilePlayerAssumption DEF QueuesOK, FieldsOK
<1>4. /\ b0 \in Buffers /\ b0 = queue[p][1] /\ 1 \in DOMAIN queue[p]
      /\ Len(queue'[p]) = Len(queue[p]) - 1
      /\ \A k \in DOMAIN queue'[p] : /\ k \in Nat \ {0} /\ k + 1 \in DOMAIN queue[p]
                                     /\ queue'[p][k] = queue[p][k + 1]
  BY <1>1, <1>3, TailIs
<1>5. c0 \in Contents
  BY <1>0, <1>4 DEF QueuesOK
<1> HIDE DEF b0
<1>6. /\ DOMAIN heard[p] = 1..Len(heard[p]) /\ DOMAIN heard'[p] = 1..n /\ Len(heard'[p]) = n
      /\ heard'[p][n] = c0
      /\ \A i \in DOMAIN heard[p] : heard'[p][i] = heard[p][i]
  BY <1>1, <1>3, <1>5, AppendIs
<1>7. \A i \in DOMAIN heard'[p] : (i \in DOMAIN heard[p] /\ i < n) \/ i = n
  BY <1>3, <1>6
<1>8. Before(p, position + 1) /\ QueuedInOrder(p) /\ Carried(p) /\ Accounted(p)
  BY <1>2 DEF Playing
<1>9. /\ c0 \in Players \X (1..Chunks)
      /\ \A i \in DOMAIN heard[p] : heard[p][i][2] < c0[2]
      /\ p \notin cut => c0 = Chunk(p, n)
      /\ \A k \in DOMAIN queue[p] : 1 < k => c0[2] < Nr(queue[p][k])
      /\ c0[2] < position + 1
  BY <1>4, <1>8 DEF QueuedInOrder, Before, Nr
<1> HIDE DEF c0
<1>10. HeardInOrder'
  <2> SUFFICES ASSUME NEW q \in Players, NEW i \in DOMAIN heard'[q]
               PROVE  /\ heard'[q][i] \in Players \X (1..Chunks)
                      /\ \A j \in DOMAIN heard'[q] : i < j => heard'[q][i][2] < heard'[q][j][2]
                      /\ q \notin cut => heard'[q][i] = Chunk(q, i)
    BY <1>1 DEF HeardInOrder
  <2>1. CASE q # p
    BY <1>1, <2>1 DEF SoundInv, HeardInOrder
  <2>2. CASE q = p /\ i = n
    <3>1. \A j \in DOMAIN heard'[p] : ~ (i < j)
      BY <1>3, <1>6, <2>2
    <3> QED
      BY <1>6, <1>9, <2>2, <3>1
  <2>3. CASE q = p /\ i \in DOMAIN heard[p]
    <3>1. \A j \in DOMAIN heard'[p] : i < j => heard'[p][i][2] < heard'[p][j][2]
      BY <1>6, <1>7, <1>9, <2>3 DEF SoundInv, HeardInOrder
    <3> QED
      BY <1>6, <2>3, <3>1 DEF SoundInv, HeardInOrder
  <2> QED
    BY <1>7, <2>1, <2>2, <2>3
<1>11. Quiet'
  <2>1. \A q \in Players : q # audioQueue => ~ Busy(q)'
    BY <1>1, <1>2 DEF SoundInv, Quiet, Busy
  <2>2. \A q \in Players : audioQueue < q => heard'[q] = <<>>
    <3>1. ~ (audioQueue < p)
      BY <1>0, <1>2 DEF FieldsOK
    <3> QED
      BY <1>1, <3>1 DEF SoundInv, Quiet
  <2> QED
    BY <1>1, <1>2, <2>1, <2>2 DEF Quiet
<1>12. OneReader'
  BY <1>1 DEF SoundInv, OneReader, Reads, Reading
<1>13. IsInjective(queue[p]) /\ InLine(p, b0)
  <2>1. b0 \in ToSet(queue[p])
    BY <1>4, Zenon DEF ToSet
  <2> QED
    BY <2>1 DEF Holders, OwnLines, InLine
<1>14. \A k \in DOMAIN queue'[p] : /\ queue'[p][k] # b0 /\ queue'[p][k] \in Buffers
                                  /\ content'[queue'[p][k]] = content[queue[p][k + 1]]
  <2> SUFFICES ASSUME NEW k \in DOMAIN queue'[p]
               PROVE  /\ queue[p][k + 1] # b0 /\ queue[p][k + 1] \in Buffers
                      /\ content'[queue[p][k + 1]] = content[queue[p][k + 1]]
    BY <1>4
  <2>1. k + 1 \in DOMAIN queue[p] /\ k + 1 # 1
    BY <1>4
  <2>2. queue[p][k + 1] # b0
    BY <1>4, <1>13, <2>1 DEF IsInjective
  <2>3. queue[p][k + 1] \in Buffers
    BY <1>3, <2>1, ElementOfSeq, LenProperties
  <2> QED
    BY <1>0, <1>1, <2>2, <2>3 DEF QueuesOK
<1>15. ASSUME NEW m, Before(p, m), c0[2] < m PROVE Before(p, m)'
  <2>1. \A i \in DOMAIN heard'[p] : heard'[p][i][2] < m
    BY <1>6, <1>7, <1>15 DEF Before
  <2>2. \A k \in DOMAIN queue'[p] : content'[queue'[p][k]][2] < m
    BY <1>4, <1>14, <1>15 DEF Before, Nr
  <2> QED
    BY <2>1, <2>2 DEF Before, Nr
<1>16. Before(p, position + 1)'
  <2>1. \A i \in DOMAIN heard'[p] : heard'[p][i][2] < position + 1
    BY <1>6, <1>7, <1>8, <1>9 DEF Before
  <2>2. \A k \in DOMAIN queue'[p] : content'[queue'[p][k]][2] < position + 1
    BY <1>4, <1>8, <1>14 DEF Before, Nr
  <2> QED
    BY <1>1, <2>1, <2>2 DEF Before, Nr
<1>17. QueuedInOrder(p)'
  <2> SUFFICES ASSUME NEW k \in DOMAIN queue'[p]
               PROVE  /\ content'[queue'[p][k]] \in Players \X (1..Chunks)
                      /\ \A i \in DOMAIN heard'[p] :
                            heard'[p][i][2] < content'[queue'[p][k]][2]
                      /\ \A j \in DOMAIN queue'[p] :
                            k < j => content'[queue'[p][k]][2] < content'[queue'[p][j]][2]
                      /\ p \notin cut => content'[queue'[p][k]] = Chunk(p, n + k)
    BY <1>1, <1>6 DEF QueuedInOrder, Nr
  <2>1. k + 1 \in DOMAIN queue[p] /\ 1 < k + 1 /\ k \in Nat
    BY <1>4
  <2>2. content'[queue'[p][k]] = content[queue[p][k + 1]]
    BY <1>14
  <2>3. content[queue[p][k + 1]] \in Players \X (1..Chunks)
    BY <1>8, <2>1 DEF QueuedInOrder
  <2>4. \A i \in DOMAIN heard'[p] : heard'[p][i][2] < content[queue[p][k + 1]][2]
    <3>1. c0[2] < content[queue[p][k + 1]][2]
      BY <1>9, <2>1 DEF Nr
    <3>2. \A i \in DOMAIN heard[p] : heard[p][i][2] < content[queue[p][k + 1]][2]
      BY <1>8, <2>1 DEF QueuedInOrder, Nr
    <3> QED
      BY <1>6, <1>7, <3>1, <3>2
  <2>5. \A j \in DOMAIN queue'[p] :
           k < j => content[queue[p][k + 1]][2] < content'[queue'[p][j]][2]
    <3> SUFFICES ASSUME NEW j \in DOMAIN queue'[p], k < j
                 PROVE  content[queue[p][k + 1]][2] < content[queue[p][j + 1]][2]
      BY <1>14
    <3>1. j + 1 \in DOMAIN queue[p] /\ k + 1 < j + 1
      BY <1>4, <2>1
    <3> QED
      BY <1>8, <2>1, <3>1 DEF QueuedInOrder, Nr
  <2>6. p \notin cut => content[queue[p][k + 1]] = Chunk(p, n + k)
    <3>1. p \notin cut => content[queue[p][k + 1]] = Chunk(p, Len(heard[p]) + (k + 1))
      BY <1>8, <2>1 DEF QueuedInOrder
    <3>2. \A x, y \in Nat : x + (y + 1) = (x + 1) + y
      OBVIOUS
    <3>3. Len(heard[p]) + (k + 1) = n + k
      BY <1>3, <2>1, <3>2, Zenon
    <3> QED
      BY <3>1, <3>3
  <2> QED
    BY <2>2, <2>3, <2>4, <2>5, <2>6
<1>18. Carried(p)'
  <2> SUFFICES ASSUME NEW t \in Threads
               PROVE  /\ Carries(t) => /\ position # 0 /\ Before(p, position)'
                                       /\ reader[t].at = "copy" => data = Chunk(p, position)
                                       /\ reader[t].at = "enqueue" =>
                                             content'[reader[t].buffer] = Chunk(p, position)
                      /\ reader[t].at = "enqueue" /\ ~ reader[t].some =>
                            content'[reader[t].buffer] = Empty
    BY <1>1 DEF Carried, Carries, Before, Nr
  <2>1. Carries(t) => Before(p, position)'
    <3>1. Carries(t) => Before(p, position) /\ c0[2] < position
      BY <1>4, <1>8 DEF Carried, Before, Nr, c0
    <3> QED
      BY <1>1, <1>15, <3>1 DEF Before, Nr
  <2>2. reader[t].at = "enqueue" => content'[reader[t].buffer] = content[reader[t].buffer]
    <3>1. reader[t].buffer \in Buffers
      BY <1>0 DEF ReadersOK, Readers
    <3>2. reader[t].at = "enqueue" => InHand(t, reader[t].buffer)
      BY DEF InHand
    <3>3. reader[t].at = "enqueue" => reader[t].buffer # b0
      BY <1>13, <3>1, <3>2 DEF Holders, NotBoth
    <3> QED
      BY <1>0, <1>1, <3>1, <3>3 DEF QueuesOK
  <2> QED
    BY <1>8, <2>1, <2>2 DEF Carried, Carries
<1>19. Accounted(p)'
  <2>1. OnItsWay' = OnItsWay /\ OnItsWay \in Nat
    BY <1>1 DEF OnItsWay, Carries
  <2>2. \A x, y \in Nat : y # 0 => (x + 1) + (y - 1) = x + y
    OBVIOUS
  <2>3. Len(queue[p]) # 0
    BY <1>1, <1>3, EmptySeq
  <2>4. n + (Len(queue[p]) - 1) = Len(heard[p]) + Len(queue[p])
    BY <1>3, <2>2, <2>3, Zenon
  <2> QED
    BY <1>1, <1>4, <1>6, <1>8, <2>1, <2>4 DEF Accounted
<1>20. Playing(p)'
  BY <1>16, <1>17, <1>18, <1>19 DEF Playing
<1> QED
  BY <1>1, <1>2, <1>10, <1>11, <1>12, <1>20 DEF SoundInv

\* The host starts and pauses the queue that plays, or stops it: what waits is
\* not heard, and the queue is cut.
LEMMA HostSound ==
    ASSUME TypeOK, Control, SoundInv, ~ overlapped,
           AudioQueueStart \/ AudioQueuePause \/ AudioQueueStop
    PROVE  SoundInv'
<1>0. ReadersOK /\ FieldsOK /\ QueuesOK
  BY TypeParts
<1>1. /\ UNCHANGED <<file, audioQueue, synlock, held, position, data, reader, content, heard>>
      /\ audioQueue \in Players /\ file = audioQueue /\ Playing(audioQueue)
  <2>1. /\ UNCHANGED <<file, audioQueue, synlock, held, position, data, reader, content, heard>>
        /\ main = "outside" /\ audioQueue # nil
    BY DEF AudioQueueStart, AudioQueuePause, AudioQueueStop, Host, fields
  <2>2. audioQueue \in Players /\ file = audioQueue
    BY <1>0, <2>1 DEF Control, FieldsOfOneCall, Opening, FieldsOK, Players, nil
  <2> QED
    BY <2>1, <2>2 DEF SoundInv
<1>2. OneReader'
  BY <1>1 DEF SoundInv, OneReader, Reads, Reading
<1>3. CASE AudioQueueStart \/ AudioQueuePause
  <2>1. UNCHANGED <<queue, returned, cut>> /\ state'[audioQueue] # "stopped"
    BY <1>0, <1>1, <1>3 DEF AudioQueueStart, AudioQueuePause, QueuesOK
  <2>2. Quiet' /\ HeardInOrder'
    BY <1>1, <2>1 DEF SoundInv, Quiet, HeardInOrder, Busy
  <2>3. Playing(audioQueue)'
    BY <1>1, <2>1, PlayingStays
  <2> QED
    BY <1>2, <2>2, <2>3 DEF SoundInv
<1>4. CASE AudioQueueStop
  <2>1. /\ queue'[audioQueue] = <<>> /\ cut' = cut \cup {audioQueue}
        /\ \A q \in Players : q # audioQueue => /\ queue'[q] = queue[q]
                                               /\ returned'[q] = returned[q]
    BY <1>0, <1>1, <1>4 DEF AudioQueueStop, QueuesOK
  <2>2. Quiet' /\ HeardInOrder'
    BY <1>1, <2>1 DEF SoundInv, Quiet, HeardInOrder, Busy
  <2>3. ASSUME NEW a \in Players, a = audioQueue PROVE Playing(a)'
    <3>1. DOMAIN queue'[a] = {}
      BY <2>1, <2>3
    <3>2. \A n : Before(a, n) => Before(a, n)'
      BY <1>1, <3>1 DEF Before
    <3>3. Before(a, position + 1)'
      BY <1>1, <2>3, <3>1 DEF Playing, Before
    <3>4. QueuedInOrder(a)'
      BY <3>1 DEF QueuedInOrder
    <3>5. Carried(a)'
      BY <1>1, <2>3, <3>1 DEF Playing, Carried, Carries, Before
    <3>6. Accounted(a)'
      BY <2>1, <2>3 DEF Accounted
    <3> QED
      BY <3>3, <3>4, <3>5, <3>6 DEF Playing
  <2>4. Playing(audioQueue)'
    BY <1>1, <2>3
  <2> QED
    BY <1>2, <2>2, <2>4 DEF SoundInv
<1> QED
  BY <1>3, <1>4

\* Nothing is heard at the start.
LEMMA InitSound == Init => SoundInv
<1> SUFFICES ASSUME Init PROVE SoundInv
  OBVIOUS
<1>1. /\ file = nil /\ audioQueue = nil /\ position = 0
      /\ \A q \in Players : heard[q] = <<>> /\ queue[q] = <<>> /\ returned[q] = <<>>
      /\ \A t \in Threads : reader[t].at = "outside"
  BY DEF Init, Outside
<1>2. Players \subseteq Threads /\ DOMAIN <<>> = {}
  BY DEF Threads
<1> QED
  BY <1>1, <1>2 DEF SoundInv, Quiet, HeardInOrder, OneReader, Busy, Reads, Reading

\* Every step keeps the sound in order, while no two players overlap.
LEMMA StepsKeepSound ==
    ASSUME TypeOK, Control, Holders, ~ overlapped => SoundInv, [Next]_vars
    PROVE  (~ overlapped => SoundInv)'
<1> SUFFICES ASSUME ~ overlapped' PROVE SoundInv'
  OBVIOUS
<1>1. ~ overlapped
  <2>1. CASE Player
    BY <2>1, TypeParts DEF Player, history, QueuesOK
  <2>2. CASE UNCHANGED overlapped
    BY <2>2
  <2>3. ASSUME NEW t \in Threads, ReadStep(t) PROVE UNCHANGED overlapped
    BY <2>3 DEF ReadStep, Lock, Read, Copy, Enqueue, Unlock, history
  <2>4. CASE MainStep
    BY <2>4 DEF MainStep, PlayerData, PlayerLock, InitAudio, FillBuffer, PlayerReturns, history
  <2>5. ASSUME NEW q \in Players, AudioPlayerAQInputCallback(q) \/ Plays(q)
        PROVE  UNCHANGED overlapped
    BY <2>5 DEF AudioPlayerAQInputCallback, Plays, history
  <2>6. CASE AudioQueueStart \/ AudioQueuePause \/ AudioQueueStop
    BY <2>6 DEF AudioQueueStart, AudioQueuePause, AudioQueueStop, Host
  <2> QED
    BY <2>1, <2>2, <2>3, <2>4, <2>5, <2>6 DEF Next, vars, history
<1>2. SoundInv
  BY <1>1
<1>3. CASE Player \/ MainStep
  BY <1>2, <1>3, PlayerSound
<1>4. ASSUME NEW t \in Threads, ReadStep(t) PROVE SoundInv'
  BY <1>1, <1>2, <1>4, LockSound, ReadSound, CopySound, EnqueueSound DEF ReadStep
<1>5. ASSUME NEW q \in Players, AudioPlayerAQInputCallback(q) \/ Plays(q) PROVE SoundInv'
  BY <1>1, <1>2, <1>5, CallbackSound, PlaysSound
<1>6. CASE AudioQueueStart \/ AudioQueuePause \/ AudioQueueStop
  BY <1>1, <1>2, <1>6, HostSound
<1>7. CASE UNCHANGED vars
  <2>1. UNCHANGED <<file, audioQueue, synlock, held, position, data, reader, queueVars, history>>
    BY <1>7 DEF vars, fields
  <2>2. Quiet' /\ HeardInOrder' /\ OneReader'
    BY <1>2, <2>1 DEF SoundInv, Quiet, HeardInOrder, OneReader, Reads, Reading, Busy, queueVars,
       history
  <2>3. file = audioQueue /\ audioQueue # nil => Playing(audioQueue)'
    <3>1. audioQueue # nil => audioQueue \in Players
      BY TypeParts DEF FieldsOK, Players, nil
    <3> QED
      BY <1>2, <2>1, <3>1, PlayingStays DEF SoundInv, queueVars, history
  <2> QED
    BY <2>1, <2>2, <2>3 DEF SoundInv
<1> QED
  BY <1>3, <1>4, <1>5, <1>6, <1>7 DEF Next

\* While no two players overlap, the file is heard in its order, whatever is
\* stopped, paused and started, and a queue that is not stopped plays every
\* chunk from the first one on.
THEOREM FileSoundIsInOrder == Spec => []SoundIsInOrder
<1> DEFINE IInv == TypeOK /\ Control /\ Holders /\ (~ overlapped => SoundInv)
<1>1. Init => IInv
  BY InitTypes, InitControl, InitHolders, InitSound
<1>2. IInv /\ [Next]_vars => IInv'
  BY StepsKeepHolders, StepsKeepSound
<1>3. IInv => SoundIsInOrder
  BY DEF SoundInv, HeardInOrder, SoundIsInOrder
<1> QED
  BY <1>1, <1>2, <1>3, PTL DEF Spec
=============================================================================
