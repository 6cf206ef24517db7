SPECIFICATION FairSpec
CONSTANTS
    Proc = {p1, p2, p3}
    Nobody = Nobody
    Budgets <- SquatEvents
    Posix = TRUE
\* Every process may be dead, or have returned from Run.
CHECK_DEADLOCK FALSE
PROPERTY RecoversUnlessSquatted
