\* A fetch before anything was put aside.
SPECIFICATION Spec
CONSTANTS
    QueueMax = 2
    MaxPuts = 1
INVARIANTS
    EmptyStoreAnswered
