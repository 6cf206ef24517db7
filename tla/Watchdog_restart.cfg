SPECIFICATION FairSpec
CONSTANTS
    Proc = {p1, p2, p3, p4}
    Nobody = Nobody
    Budgets <- CrashEvents
    Posix = FALSE
\* Every process may be dead, or have returned from Run.
CHECK_DEADLOCK FALSE
PROPERTIES NoRedundantSpawn ImplementsPair
