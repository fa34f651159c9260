\* Three actions and three tasks; an actuator that is replaced is gone.
CONSTANTS
    a1 = a1
    a2 = a2
    a3 = a3
    k1 = k1
    k2 = k2
    k3 = k3
    Actions <- MCActions
    Tasks <- MCTasks
    Nil = Nil
    MaxQueue = 3
    KeepsDelegates = FALSE
SPECIFICATION LiveSpec
INVARIANTS
    TypeOK
    NothingStalls
    OneAtATime
    ReportsReachTheirAction
PROPERTIES
    ActionsEnd
