\* Five lines, four messages in the queue, power cuts.
SPECIFICATION Spec
CONSTANTS
    QueueMax = 4
    MaxPuts = 5
INVARIANTS
    TypeOK
    OnTheWay
    NothingVanishes
PROPERTIES
    OldestFirst
