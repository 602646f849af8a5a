SPECIFICATION Spec
CONSTANTS
    Required = 2
    Grace = 1
    MaxHold = 1
    Cooldown = 2
    IncidentWindow = 2
    IncidentEpisodeGap = 2
    IncidentMaxAge = 1
    Threshold = 2
    RejectionCooldown = 2
    MaxFaults = 1
INVARIANTS SignalsInv NewsShortTracked ExitsOnlyItsOwn CooldownHolds CooldownEarned NoEpisodeSwallowed
PROPERTIES OneShortPerEpisode HysteresisHolds NewsShortEnds
