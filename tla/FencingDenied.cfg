SPECIFICATION Spec
CONSTANTS
    mac = mac
    aibox = aibox
    Node = {mac, aibox}
    NoNode = NoNode
    TTL = 5
    Grace = 1
    MaxTime = 7
    Role <- MCRole
    Skew <- NoSkew
    Sleepers = {}
    Failers = {}
    OwnGroup = {}
    Belief <- MCBelief
    MaxRenewDelay = 2
    MaxTick = 2
    MaxRenewGap = 1
    MaxFaults = 1
    NoTime = NoTime
    NoPeer = NoPeer
    PeerStaleAfter = 1
    FailoverAfter = 2
    PeerErrorGrace = 1
    HandoverCooldown = 1
    YieldRequestCooldown = 1
    YieldRequestTTL = 1
    StartupGrace = 1
    FailureMemory = 1
PROPERTIES
    StartsOnlyWhileHolding
CHECK_DEADLOCK FALSE
