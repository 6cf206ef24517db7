SPECIFICATION Spec
CONSTANTS
    Documents <- SomeDocuments
    QueueSize = 2
    Budgets <- SomeEvents
    Tool = {t1, t2}
    Flags <- SomeFlags
    Site <- Sites
    BodyLimit = 6
    Answers <- SomeAnswers
SYMMETRY Symmetry
\* Nobody may have anything left to do.
CHECK_DEADLOCK FALSE
INVARIANTS
    TypeOK SettingsKept BinariesMatch TorListKept  LoaderCurrent
