SPECIFICATION Spec
CONSTANTS
    Proc = {p1, p2, p3}
    Nobody = Nobody
    Budgets <- PairEvents
    Posix = FALSE
SYMMETRY Symmetry
\* Every process may be dead, or have returned from Run.
CHECK_DEADLOCK FALSE
INVARIANTS
    TypeOK SafeIfStartedOnce FilesHonest
PROPERTY ErrorsAreRefusals
