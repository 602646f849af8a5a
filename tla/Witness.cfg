SPECIFICATION WitnessSpec
CONSTANTS
    Node = {mac, aibox}
    NoNode = NoNode
    TTL = 3
    Grace = 1
    MaxTime = 9
INVARIANTS
    WitnessInv
    PromiseSurvivesRestart
    LockoutBounded
PROPERTIES
    TakeoverWaits
    ImplementsLeaseService
CHECK_DEADLOCK FALSE
