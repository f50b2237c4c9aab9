SPECIFICATION FairSpec
CONSTANTS
    PingInterval = 3
    ResolveTimeout = 4
    ConnectTimeout = 3
    Strategies = 2
    Lag = 2
    MaxOverdue = 6
    MaxPings = 3
INVARIANTS ConnectIsBounded SilenceIsNoticed NextPingIsCertain
PROPERTIES NoHotLoop StageHasFullTimeout GivenUpOnlyAfterSilence ResolvedAgain
