SPECIFICATION Spec
CONSTANTS
    mac = mac
    aibox = aibox
    Node = {mac, aibox}
    NoNode = NoNode
    TTL = 3
    Grace = 2
    MaxTime = 6
    Role <- MCRole
    Skew <- MCSkew
    Sleepers = {}
    Failers = {}
    OwnGroup = {mac}
    Belief <- MCBelief
    MaxRenewDelay = 1
    MaxTick = 1
    MaxRenewGap = 2
    MaxFaults = 1
    NoTime = NoTime
    NoPeer = NoPeer
    PeerStaleAfter = 1
    FailoverAfter = 2
    PeerErrorGrace = 1
    HandoverCooldown = 1
    YieldRequestCooldown = 1
    YieldRequestTTL = 1
    StartupGrace = 1
    FailureMemory = 1
INVARIANTS
    NeverTradeSimultaneously
CHECK_DEADLOCK FALSE
