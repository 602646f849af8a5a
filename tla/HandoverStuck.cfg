SPECIFICATION Spec
CONSTANTS
    mac = mac
    aibox = aibox
    Node = {mac, aibox}
    NoNode = NoNode
    NoTime = NoTime
    NoPeer = NoPeer
    Role <- MCRole
    Backoff <- MCBackoff
    TTL = 2
    Grace = 1
    MaxFailures = 2
    RetryCooldown = 1
    PostFailureCooldown = 4
    PeerStaleAfter = 1
    FailoverAfter = 2
    PeerErrorGrace = 1
    HandoverCooldown = 3
    YieldRequestCooldown = 1
    YieldRequestTTL = 1
    StartupGrace = 1
    FailureMemory = 4
    Health = {"good", "bad", "stuck"}
    Horizon = 3
    MaxFaults = 1
PROPERTY StuckPeerReplaced
CHECK_DEADLOCK FALSE
