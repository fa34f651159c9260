\* Minutes of three seconds, so that a recording spans two of them, and four
\* calls: two timers of one kind, one of the other, and a failure.
CONSTANTS
    SecondsPerMinute = 3
    MaxCalls = 4
    MaxLength = 7
SPECIFICATION LiveSpec
INVARIANTS
    TypeOK
    RecordClockIsExact
    PlayClockIsExact
    OnlyReplacedTimersAreOrphans
PROPERTIES
    PlayTimersStop
