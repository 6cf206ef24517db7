SPECIFICATION FairSpec
CONSTANTS
    Proc = {"primary", "watchdog"}
    IP = {1, 2}
    V6 = {2}
    ManualIPs = {1}
    SeedTorIPs = {2}
    Publications <- Lists
    Builds = {"guard", "warn"}
    Budgets <- SomeEvents
INVARIANTS TypeOK ManualGapsCovered RuleAddedOnce
PROPERTIES ListedBlocked RemovedCleaned RemovalReported
