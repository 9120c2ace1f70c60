\* Four cycles; any garbage on the stack, any failure at any time, two restarts.
SPECIFICATION FairSpec
CONSTANTS
    Garbage <- AnyGarbage
    Faults <- AnyFault
    MaxCycles = 4
    MaxRestarts = 2
CHECK_DEADLOCK FALSE
INVARIANTS
    TypeOK
    SpokenInOrder
    ResultIsCurrent
    NoDeadlock
PROPERTIES
    CycleEnds
