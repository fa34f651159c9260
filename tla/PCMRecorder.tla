----------------------------- MODULE PCMRecorder -----------------------------
(***************************************************************************)
(* PCMRecorder records sound and plays it back.  A repeating timer counts  *)
(* the minutes and seconds of a recording up, another counts those of its  *)
(* playback down.  Everything runs on the main thread, but the host may    *)
(* call startRecord, endRecord and playRecord in any order, and a timer    *)
(* that is replaced before it was invalidated goes on counting.            *)
(*                                                                         *)
(* A timer is named by the number of the call that scheduled it.           *)
(***************************************************************************)
EXTENDS Naturals

CONSTANTS SecondsPerMinute,     \* 60
          MaxCalls,             \* bound on the calls of startRecord, playRecord
          MaxLength             \* bound on the ticks of a recording

ASSUME RecorderAssumption ==
    /\ SecondsPerMinute \in Nat \ {0, 1}
    /\ MaxCalls \in Nat
    /\ MaxLength \in Nat \ {0}

VARIABLES
    recordTimer, playTimer,         \* the timer each field holds, or 0 for nil
    minuteRecord, recordSecond,
    minutePlay, playSecond,
    timers,         \* what each timer counts, or "stopped"
    tmpUrl,         \* is there a file to play?
    playing         \* will the player tell that it has finished?

\* History variables.
VARIABLES
    calls,      \* calls of startRecord and playRecord
    recorded,   \* ticks since the clock of the recording was last reset
    left,       \* ticks until the playback's clock, once reset, is at zero
    replaced    \* timers that were replaced while they were running

recordClock == <<minuteRecord, recordSecond, recorded>>
playClock == <<minutePlay, playSecond, left>>
vars == <<recordTimer, playTimer, recordClock, playClock, timers, tmpUrl,
          playing, calls, replaced>>

Timers == 1..MaxCalls
nil == 0

Init ==
    /\ recordTimer = nil /\ playTimer = nil
    /\ minuteRecord = 0 /\ recordSecond = 0
    /\ minutePlay = 0 /\ playSecond = 0
    /\ timers = [t \in Timers |-> "stopped"]
    /\ tmpUrl = FALSE
    /\ playing = FALSE
    /\ calls = 0 /\ recorded = 0 /\ left = 0
    /\ replaced = {}

Running(kind) == {t \in Timers : timers[t] = kind}

\* invalidate, which a nil timer does not mind.
Invalidated(t, running) ==
    [x \in Timers |-> IF x = t THEN "stopped" ELSE running[x]]

Called ==
    /\ calls < MaxCalls
    /\ calls' = calls + 1

Scheduled(kind) == [timers EXCEPT ![calls + 1] = kind]

\* The timer a field holds, left to itself if it is running.
LetGo(t) == replaced' = replaced \cup {x \in Timers : x = t /\ timers[x] # "stopped"}

\* Mutant: the minute has one second too many.
Carries_Late(second) == second > SecondsPerMinute

\* The second counted reaches 60: a minute is full.
Carries(second) == second > SecondsPerMinute - 1

\* recordSecondChange, from the given clock.
RecordSecondChange(minute, second, ticks) ==
    /\ recordSecond' = IF Carries(second + 1) THEN 0 ELSE second + 1
    /\ minuteRecord' = IF Carries(second + 1) THEN minute + 1 ELSE minute
    /\ recorded' = ticks + 1

\* Mutant: a playback that has reached zero starts over with the minute.
Borrows_Always(minute) == TRUE

\* The second that would be negative is borrowed from a minute, if there is one.
Borrows(minute) == minute > 0

\* Mutant: the clock stops at zero and the timer does not.
AtZero_Endless(timer, running) == running

\* The timer of the field is invalidated, whichever timer fired.
AtZero(timer, running) == Invalidated(timer, running)

\* playSecondChange, from the given clock, timer of the field and timers.
PlaySecondChange(minute, second, ticks, timer, running) ==
    /\ \/ /\ second > 0
          /\ playSecond' = second - 1
          /\ minutePlay' = minute
          /\ timers' = running
       \/ /\ second = 0 /\ Borrows(minute)
          /\ playSecond' = SecondsPerMinute - 1
          /\ minutePlay' = minute - 1
          /\ timers' = running
       \/ /\ second = 0 /\ ~ Borrows(minute)
          /\ playSecond' = 0
          /\ minutePlay' = 0
          /\ timers' = AtZero(timer, running)
    /\ left' = IF ticks > 0 THEN ticks - 1 ELSE 0

-----------------------------------------------------------------------------
\* startRecord: the clock starts from zero, and fire counts a first second.
StartRecord ==
    /\ Called
    /\ tmpUrl' = TRUE
    /\ recordTimer' = calls + 1
    /\ timers' = Scheduled("record")
    /\ LetGo(recordTimer)
    /\ RecordSecondChange(0, 0, 0)
    /\ UNCHANGED <<playTimer, playClock, playing>>

\* The recorder cannot be made or prepared: clock and timer stay as they were.
StartRecordFails ==
    /\ Called
    /\ tmpUrl' = TRUE
    /\ UNCHANGED <<recordTimer, playTimer, recordClock, playClock, timers,
                   playing, replaced>>

\* Mutant: the timer is forgotten without being invalidated.
EndRecord_Forgetting ==
    /\ recordTimer' = nil
    /\ UNCHANGED <<playTimer, recordClock, playClock, timers, tmpUrl, playing,
                   calls, replaced>>

\* endRecord
EndRecord ==
    /\ recordTimer' = nil
    /\ timers' = Invalidated(recordTimer, timers)
    /\ UNCHANGED <<playTimer, recordClock, playClock, tmpUrl, playing, calls, replaced>>

\* playRecord: the clock of the recording, as it is now, is counted down, and
\* fire counts a first second.  A player that is replaced finishes no more.
PlayRecord ==
    /\ Called
    /\ tmpUrl
    /\ playing' = TRUE
    /\ playTimer' = calls + 1
    /\ LetGo(playTimer)
    /\ PlaySecondChange(minuteRecord, recordSecond, recorded, calls + 1, Scheduled("play"))
    /\ UNCHANGED <<recordTimer, recordClock, tmpUrl>>

\* The player cannot be prepared: its clock has been set, and is counted by
\* whatever timer of an earlier playback still runs.
PlayRecordUnprepared ==
    /\ Called
    /\ tmpUrl
    /\ playing' = FALSE
    /\ minutePlay' = minuteRecord /\ playSecond' = recordSecond
    /\ left' = recorded
    /\ UNCHANGED <<recordTimer, playTimer, recordClock, timers, tmpUrl, replaced>>

\* The player cannot be made; the one before is gone.
PlayRecordFails ==
    /\ Called
    /\ playing' = FALSE
    /\ UNCHANGED <<recordTimer, playTimer, recordClock, playClock, timers,
                   tmpUrl, replaced>>

-----------------------------------------------------------------------------
\* A timer that counts a recording fires.
RecordTimerFires(t) ==
    /\ timers[t] = "record"
    /\ recorded < MaxLength
    /\ RecordSecondChange(minuteRecord, recordSecond, recorded)
    /\ UNCHANGED <<recordTimer, playTimer, playClock, timers, tmpUrl, playing,
                   calls, replaced>>

\* A timer that counts a playback fires.
PlayTimerFires(t) ==
    /\ timers[t] = "play"
    /\ PlaySecondChange(minutePlay, playSecond, left, playTimer, timers)
    /\ UNCHANGED <<recordTimer, playTimer, recordClock, tmpUrl, playing,
                   calls, replaced>>

\* audioPlayerDidFinishPlaying:
DidFinishPlaying ==
    /\ playing
    /\ playing' = FALSE
    /\ playTimer' = nil
    /\ timers' = Invalidated(playTimer, timers)
    /\ UNCHANGED <<recordTimer, recordClock, playClock, tmpUrl, calls, replaced>>

-----------------------------------------------------------------------------
Next ==
    \/ StartRecord
    \/ StartRecordFails
    \/ EndRecord
    \/ PlayRecord
    \/ PlayRecordUnprepared
    \/ PlayRecordFails
    \/ \E t \in Timers : RecordTimerFires(t) \/ PlayTimerFires(t)
    \/ DidFinishPlaying

Spec == Init /\ [][Next]_vars

\* The run loop fires the timers that are scheduled.
Fairness == \A t \in Timers : WF_vars(PlayTimerFires(t))

LiveSpec == Spec /\ Fairness

-----------------------------------------------------------------------------
\* The variables have the types the code gives them; a second is less than 60.
TypeOK ==
    /\ recordTimer \in Timers \cup {nil}
    /\ playTimer \in Timers \cup {nil}
    /\ minuteRecord \in Nat /\ recordSecond \in 0..(SecondsPerMinute - 1)
    /\ minutePlay \in Nat /\ playSecond \in 0..(SecondsPerMinute - 1)
    /\ timers \in [Timers -> {"record", "play", "stopped"}]
    /\ tmpUrl \in BOOLEAN
    /\ playing \in BOOLEAN
    /\ calls \in 0..MaxCalls
    /\ recorded \in Nat /\ left \in Nat
    /\ replaced \subseteq Timers

Total(minute, second) == minute * SecondsPerMinute + second

\* The clock of the recording shows the ticks of all timers since it was reset:
\* none is lost or gained at a full minute.  A tick is a second only as long as
\* one timer counts; one that a second start left behind counts along.
RecordClockIsExact == Total(minuteRecord, recordSecond) = recorded

\* The clock of the playback shows what the ticks of all timers have left of the
\* recording it was set from, and stays at zero however many go on counting.
PlayClockIsExact == Total(minutePlay, playSecond) = left

\* A timer that runs can still be stopped, through the field of its kind,
\* unless a second start or playback replaced it: a host that ends each
\* recording before the next one leaves no timer behind.
OnlyReplacedTimersAreOrphans ==
    \A t \in Timers :
        /\ timers[t] = "record" => t = recordTimer \/ t \in replaced
        /\ timers[t] = "play" => t = playTimer \/ t \in replaced

\* The timer of a playback stops, with the player or at zero, unless another
\* playback replaced it.
PlayTimersStop ==
    \A t \in Timers :
        timers[t] = "play" ~> timers[t] = "stopped" \/ t \in replaced
=============================================================================
