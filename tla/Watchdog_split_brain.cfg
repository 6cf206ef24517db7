SPECIFICATION Spec
CONSTANTS
    Proc = {p1, p2, p3}
    Nobody = Nobody
    Budgets <- OverlapEvents
    Posix = TRUE
SYMMETRY Symmetry
\* Every process may be dead, or have returned from Run.
CHECK_DEADLOCK FALSE
INVARIANT MutualExclusion
