CONSTANT
    MaxStarts = 2
SPECIFICATION Spec
INVARIANT
    FirebaseIsConfiguredOnce
CHECK_DEADLOCK FALSE
