-------------------------- MODULE PCMRecorder_proofs --------------------------
(***************************************************************************)
(* Proofs about PCMRecorder, for a minute of any length and any number of  *)
(* calls: its two clocks show the ticks counted, and a timer can only be   *)
(* lost by being replaced.                                                 *)
(***************************************************************************)
EXTENDS PCMRecorder, TLAPS

-----------------------------------------------------------------------------
\* Arithmetic of the clocks.

\* A full minute is worth its seconds.
LEMMA AMinuteMore ==
    ASSUME NEW m \in Nat
    PROVE  (m + 1) * SecondsPerMinute = m * SecondsPerMinute + SecondsPerMinute
  BY RecorderAssumption

\* A borrowed minute is worth its seconds.
LEMMA AMinuteLess ==
    ASSUME NEW m \in Nat \ {0}
    PROVE  /\ m * SecondsPerMinute \in Nat
           /\ m * SecondsPerMinute = (m - 1) * SecondsPerMinute + SecondsPerMinute
<1>1. m - 1 \in Nat /\ (m - 1) + 1 = m
  OBVIOUS
<1>2. (m - 1) * SecondsPerMinute \in Nat
  BY <1>1, RecorderAssumption
<1> QED
  BY <1>1, <1>2, AMinuteMore, RecorderAssumption

\* Counting up moves an exact clock by one.
LEMMA CountingUp ==
    ASSUME NEW m \in Nat, NEW s \in 0..(SecondsPerMinute - 1), NEW n \in Nat,
           Total(m, s) = n, RecordSecondChange(m, s, n)
    PROVE  /\ minuteRecord' \in Nat /\ recordSecond' \in 0..(SecondsPerMinute - 1)
           /\ recorded' \in Nat
           /\ RecordClockIsExact'
<1>1. m * SecondsPerMinute \in Nat
  BY RecorderAssumption
<1>2. CASE Carries(s + 1)
  <2>1. s + 1 = SecondsPerMinute /\ recordSecond' = 0 /\ minuteRecord' = m + 1
    BY <1>2, RecorderAssumption DEF Carries, RecordSecondChange
  <2>2. Total(minuteRecord', recordSecond') = Total(m, s) + 1
    BY <1>1, <2>1, AMinuteMore, RecorderAssumption DEF Total
  <2> QED
    BY <2>1, <2>2, RecorderAssumption DEF RecordSecondChange, RecordClockIsExact, Total
<1>3. CASE ~ Carries(s + 1)
  <2>1. s + 1 < SecondsPerMinute /\ recordSecond' = s + 1 /\ minuteRecord' = m
    BY <1>3, RecorderAssumption DEF Carries, RecordSecondChange
  <2>2. Total(minuteRecord', recordSecond') = Total(m, s) + 1
    BY <1>1, <2>1, RecorderAssumption DEF Total
  <2> QED
    BY <2>1, <2>2, RecorderAssumption DEF RecordSecondChange, RecordClockIsExact, Total
<1> QED
  BY <1>2, <1>3

\* Counting down moves an exact clock by one, or leaves it at zero.
LEMMA CountingDown ==
    ASSUME NEW m \in Nat, NEW s \in 0..(SecondsPerMinute - 1), NEW n \in Nat,
           NEW timer, NEW running, Total(m, s) = n,
           PlaySecondChange(m, s, n, timer, running)
    PROVE  /\ minutePlay' \in Nat /\ playSecond' \in 0..(SecondsPerMinute - 1)
           /\ left' \in Nat
           /\ PlayClockIsExact'
<1>1. m * SecondsPerMinute \in Nat
  BY RecorderAssumption
<1>2. left' = IF n > 0 THEN n - 1 ELSE 0
  BY DEF PlaySecondChange
<1>3. CASE s > 0
  <2>1. playSecond' = s - 1 /\ minutePlay' = m
    BY <1>3 DEF PlaySecondChange
  <2> QED
    BY <1>1, <1>2, <1>3, <2>1, RecorderAssumption DEF PlayClockIsExact, Total
<1>4. CASE s = 0 /\ Borrows(m)
  <2>1. playSecond' = SecondsPerMinute - 1 /\ minutePlay' = m - 1 /\ m \in Nat \ {0}
    BY <1>4, RecorderAssumption DEF PlaySecondChange, Borrows
  <2>2. (m - 1) * SecondsPerMinute \in Nat /\ m - 1 \in Nat
    BY <2>1, RecorderAssumption
  <2>3. n = (m - 1) * SecondsPerMinute + SecondsPerMinute
    BY <1>4, <2>1, AMinuteLess, RecorderAssumption DEF Total
  <2> QED
    BY <1>2, <2>1, <2>2, <2>3, RecorderAssumption DEF PlayClockIsExact, Total
<1>5. CASE s = 0 /\ ~ Borrows(m)
  <2>1. playSecond' = 0 /\ minutePlay' = 0 /\ m = 0
    BY <1>5, RecorderAssumption DEF PlaySecondChange, Borrows
  <2> QED
    BY <1>2, <1>5, <2>1, RecorderAssumption DEF PlayClockIsExact, Total
<1> QED
  BY <1>3, <1>4, <1>5, RecorderAssumption

-----------------------------------------------------------------------------
\* Types and clocks hold together: a clock that were not exact could run over.
IInv == TypeOK /\ RecordClockIsExact /\ PlayClockIsExact /\ OnlyReplacedTimersAreOrphans

\* Before any call no timer runs and both clocks are at zero.
LEMMA StartsWithIInv == Init => IInv
<1> SUFFICES ASSUME Init PROVE IInv
  OBVIOUS
<1>1. 0 * SecondsPerMinute + 0 = 0
  BY RecorderAssumption
<1>2. RecordClockIsExact /\ PlayClockIsExact
  BY <1>1 DEF Init, RecordClockIsExact, PlayClockIsExact, Total
<1>3. 0 \in 0..(SecondsPerMinute - 1) /\ 0 \in 0..MaxCalls
  BY RecorderAssumption
<1>4. TypeOK
  BY <1>3 DEF Init, TypeOK, nil
<1>5. OnlyReplacedTimersAreOrphans
  BY DEF Init, OnlyReplacedTimersAreOrphans
<1> QED
  BY <1>2, <1>4, <1>5 DEF IInv

\* What invalidating a timer does.
LEMMA InvalidatedIs ==
    ASSUME NEW running \in [Timers -> {"record", "play", "stopped"}], NEW timer
    PROVE  /\ Invalidated(timer, running) \in [Timers -> {"record", "play", "stopped"}]
           /\ \A t \in Timers : /\ t = timer => Invalidated(timer, running)[t] = "stopped"
                                /\ t # timer => Invalidated(timer, running)[t] = running[t]
  BY DEF Invalidated

\* Counting a playback down stops no timer but the one of the field.
LEMMA CountingDownStops ==
    ASSUME NEW running \in [Timers -> {"record", "play", "stopped"}], NEW timer,
           NEW m, NEW s, NEW n, PlaySecondChange(m, s, n, timer, running)
    PROVE  /\ timers' \in [Timers -> {"record", "play", "stopped"}]
           /\ \A t \in Timers : timers'[t] # "stopped" => timers'[t] = running[t]
<1>1. timers' = running \/ timers' = Invalidated(timer, running)
  BY DEF PlaySecondChange, AtZero
<1> QED
  BY <1>1, InvalidatedIs

\* A new timer is another one than those that run.
LEMMA SchedulingIsNew ==
    ASSUME TypeOK, Called, NEW kind \in {"record", "play"}
    PROVE  /\ calls + 1 \in Timers /\ calls' = calls + 1 /\ calls' \in 0..MaxCalls
           /\ Scheduled(kind) \in [Timers -> {"record", "play", "stopped"}]
           /\ \A t \in Timers : /\ t = calls + 1 => Scheduled(kind)[t] = kind
                                /\ t # calls + 1 => Scheduled(kind)[t] = timers[t]
<1>1. calls + 1 \in Timers /\ calls' = calls + 1 /\ calls' \in 0..MaxCalls
  BY RecorderAssumption DEF Called, TypeOK, Timers
<1> QED
  BY <1>1 DEF TypeOK, Scheduled

-----------------------------------------------------------------------------
\* The operations.

\* A start sets the clock to zero and leaves an earlier timer as replaced.
LEMMA StartRecordKeepsIInv == IInv /\ StartRecord => IInv'
<1> SUFFICES ASSUME IInv, StartRecord PROVE IInv'
  OBVIOUS
<1>1. TypeOK /\ Called /\ timers' = Scheduled("record") /\ recordTimer' = calls + 1
  BY DEF IInv, StartRecord
<1>2. /\ minuteRecord' \in Nat /\ recordSecond' \in 0..(SecondsPerMinute - 1)
      /\ recorded' \in Nat /\ RecordClockIsExact'
  <2>1. 0 \in Nat /\ 0 \in 0..(SecondsPerMinute - 1) /\ Total(0, 0) = 0
    BY RecorderAssumption DEF Total
  <2>2. RecordSecondChange(0, 0, 0)
    BY DEF StartRecord
  <2> QED
    BY <2>1, <2>2, CountingUp
<1>3. replaced' \subseteq Timers /\ replaced \subseteq replaced'
  BY <1>1 DEF StartRecord, LetGo, TypeOK
<1>4. TypeOK'
  BY <1>1, <1>2, <1>3, SchedulingIsNew DEF StartRecord, TypeOK, playClock
<1>5. OnlyReplacedTimersAreOrphans'
  BY <1>1, <1>3, SchedulingIsNew
  DEF IInv, OnlyReplacedTimersAreOrphans, StartRecord, LetGo
<1> QED
  BY <1>2, <1>4, <1>5 DEF IInv, PlayClockIsExact, StartRecord, playClock

\* A playback takes the recorded length and leaves an earlier timer as replaced.
LEMMA PlayRecordKeepsIInv == IInv /\ PlayRecord => IInv'
<1> SUFFICES ASSUME IInv, PlayRecord PROVE IInv'
  OBVIOUS
<1>1. TypeOK /\ Called /\ playTimer' = calls + 1
  BY DEF IInv, PlayRecord
<1>2. PlaySecondChange(minuteRecord, recordSecond, recorded, calls + 1, Scheduled("play"))
  BY DEF PlayRecord
<1>3. /\ minutePlay' \in Nat /\ playSecond' \in 0..(SecondsPerMinute - 1)
      /\ left' \in Nat /\ PlayClockIsExact'
  BY <1>1, <1>2, CountingDown DEF IInv, RecordClockIsExact, TypeOK
<1>4. /\ timers' \in [Timers -> {"record", "play", "stopped"}]
      /\ \A t \in Timers : timers'[t] # "stopped" => timers'[t] = Scheduled("play")[t]
  BY <1>1, <1>2, SchedulingIsNew, CountingDownStops
<1>5. replaced' \subseteq Timers /\ replaced \subseteq replaced'
  BY <1>1 DEF PlayRecord, LetGo, TypeOK
<1>6. TypeOK'
  BY <1>1, <1>3, <1>4, <1>5, SchedulingIsNew DEF PlayRecord, TypeOK, recordClock
<1>7. OnlyReplacedTimersAreOrphans'
  BY <1>1, <1>4, <1>5, SchedulingIsNew
  DEF IInv, OnlyReplacedTimersAreOrphans, PlayRecord, LetGo
<1> QED
  BY <1>3, <1>6, <1>7 DEF IInv, RecordClockIsExact, PlayRecord, recordClock

\* An end invalidates the timer its field holds.
LEMMA EndsKeepIInv == IInv /\ (EndRecord \/ DidFinishPlaying) => IInv'
<1>1. ASSUME IInv, EndRecord PROVE IInv'
  <2>1. TypeOK'
    BY <1>1, InvalidatedIs DEF IInv, TypeOK, EndRecord, playClock, recordClock, nil
  <2>2. OnlyReplacedTimersAreOrphans'
    BY <1>1, InvalidatedIs DEF IInv, TypeOK, EndRecord, OnlyReplacedTimersAreOrphans
  <2> QED
    BY <1>1, <2>1, <2>2
    DEF IInv, EndRecord, RecordClockIsExact, PlayClockIsExact, playClock, recordClock
<1>2. ASSUME IInv, DidFinishPlaying PROVE IInv'
  <2>1. TypeOK'
    BY <1>2, InvalidatedIs DEF IInv, TypeOK, DidFinishPlaying, playClock, recordClock
  <2>2. OnlyReplacedTimersAreOrphans'
    BY <1>2, InvalidatedIs DEF IInv, TypeOK, DidFinishPlaying, OnlyReplacedTimersAreOrphans
  <2> QED
    BY <1>2, <2>1, <2>2
    DEF IInv, DidFinishPlaying, RecordClockIsExact, PlayClockIsExact, playClock, recordClock
<1> QED
  BY <1>1, <1>2

\* A start or playback that fails schedules nothing.
LEMMA FailuresKeepIInv ==
    IInv /\ (StartRecordFails \/ PlayRecordUnprepared \/ PlayRecordFails) => IInv'
<1>1. ASSUME IInv, StartRecordFails \/ PlayRecordFails PROVE IInv'
  <2>1. UNCHANGED <<recordTimer, playTimer, recordClock, playClock, timers, replaced>>
    BY <1>1 DEF StartRecordFails, PlayRecordFails
  <2>2. calls' \in 0..MaxCalls /\ playing' \in BOOLEAN /\ tmpUrl' \in BOOLEAN
    BY <1>1, SchedulingIsNew DEF StartRecordFails, PlayRecordFails, IInv, TypeOK
  <2> QED
    BY <1>1, <2>1, <2>2 DEF IInv, TypeOK, RecordClockIsExact, PlayClockIsExact,
                            OnlyReplacedTimersAreOrphans, recordClock, playClock
<1>2. ASSUME IInv, PlayRecordUnprepared PROVE IInv'
  <2>1. calls' \in 0..MaxCalls /\ playing' \in BOOLEAN
    BY <1>2, SchedulingIsNew DEF PlayRecordUnprepared, IInv
  <2> QED
    BY <1>2, <2>1 DEF PlayRecordUnprepared, IInv, TypeOK, RecordClockIsExact,
                      PlayClockIsExact, OnlyReplacedTimersAreOrphans, recordClock
<1> QED
  BY <1>1, <1>2

\* A timer that fires counts its clock by one second.
LEMMA TimersKeepIInv ==
    ASSUME IInv, NEW t \in Timers, RecordTimerFires(t) \/ PlayTimerFires(t) PROVE IInv'
<1>1. CASE RecordTimerFires(t)
  <2>1. /\ minuteRecord' \in Nat /\ recordSecond' \in 0..(SecondsPerMinute - 1)
        /\ recorded' \in Nat /\ RecordClockIsExact'
    BY <1>1, CountingUp DEF IInv, TypeOK, RecordClockIsExact, RecordTimerFires
  <2> QED
    BY <1>1, <2>1 DEF IInv, TypeOK, RecordTimerFires, PlayClockIsExact, playClock,
                      OnlyReplacedTimersAreOrphans
<1>2. CASE PlayTimerFires(t)
  <2>1. PlaySecondChange(minutePlay, playSecond, left, playTimer, timers)
    BY <1>2 DEF PlayTimerFires
  <2>2. /\ minutePlay' \in Nat /\ playSecond' \in 0..(SecondsPerMinute - 1)
        /\ left' \in Nat /\ PlayClockIsExact'
    BY <2>1, CountingDown DEF IInv, TypeOK, PlayClockIsExact
  <2>3. /\ timers' \in [Timers -> {"record", "play", "stopped"}]
        /\ \A x \in Timers : timers'[x] # "stopped" => timers'[x] = timers[x]
    BY <2>1, CountingDownStops DEF IInv, TypeOK
  <2> QED
    BY <1>2, <2>2, <2>3 DEF IInv, TypeOK, PlayTimerFires, RecordClockIsExact, recordClock,
                            OnlyReplacedTimersAreOrphans
<1> QED
  BY <1>1, <1>2

\* The inductive invariant is kept by every step.
LEMMA NextKeepsIInv == IInv /\ [Next]_vars => IInv'
<1>1. IInv /\ UNCHANGED vars => IInv'
  BY DEF IInv, TypeOK, RecordClockIsExact, PlayClockIsExact, OnlyReplacedTimersAreOrphans,
         vars, recordClock, playClock
<1> QED
  BY <1>1, StartRecordKeepsIInv, PlayRecordKeepsIInv, EndsKeepIInv, FailuresKeepIInv,
     TimersKeepIInv DEF Next

\* The inductive invariant holds in every behaviour.
LEMMA RecorderIInv == Spec => []IInv
<1> QED
  BY StartsWithIInv, NextKeepsIInv, PTL DEF Spec

-----------------------------------------------------------------------------
\* The recorder keeps its variables well typed; no clock shows sixty seconds.
THEOREM RecorderTypes == Spec => []TypeOK
<1>1. IInv => TypeOK
  BY DEF IInv
<1> QED
  BY <1>1, RecorderIInv, PTL

\* The clock of the recording shows the ticks counted, by whatever timers.
THEOREM RecorderCountsUp == Spec => []RecordClockIsExact
<1>1. IInv => RecordClockIsExact
  BY DEF IInv
<1> QED
  BY <1>1, RecorderIInv, PTL

\* The clock of the playback shows what the ticks counted have left, and never
\* less than zero.
THEOREM RecorderCountsDown == Spec => []PlayClockIsExact
<1>1. IInv => PlayClockIsExact
  BY DEF IInv
<1> QED
  BY <1>1, RecorderIInv, PTL

\* Only replacing a timer leaves it running without a field that holds it.
THEOREM RecorderOrphans == Spec => []OnlyReplacedTimersAreOrphans
<1>1. IInv => OnlyReplacedTimersAreOrphans
  BY DEF IInv
<1> QED
  BY <1>1, RecorderIInv, PTL

=============================================================================
