SPECIFICATION Spec
CONSTANTS
    Node = {a, b}
    NoNode = NoNode
    MaxSecond = 1
    MaxRows = 2
    MaxStarts = 3
    MaxFaults = 1
CHECK_DEADLOCK FALSE
INVARIANTS DbSyncInv NoSwap
PROPERTIES NewestKept TakeoverAsks TakeoverComplete PassiveCatchesUp
