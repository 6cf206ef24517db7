SPECIFICATION FairSpec
CONSTANTS
    Proc = {"primary", "watchdog"}
    IP = {1, 2, 3}
    V6 = {3}
    ManualIPs = {1}
    SeedTorIPs = {2, 3}
    Publications <- Lists
    ChunkSize = 1
    InitialStaleSweep = 2
    MaxRule = 2
    Builds = {"guard", "warn"}
    Budgets <- SomeEvents
INVARIANT TypeOK
PROPERTIES ManualBlockStable RefreshApplied RulesConverge ListedBlocked DriftReported
