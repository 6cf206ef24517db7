SPECIFICATION FairSpec
CONSTANTS
    Proc = {"primary", "watchdog"}
    Desired <- Servers
    Lists <- OtherLists
    Builds = {"guard", "warn"}
    Budgets <- SomeEvents
INVARIANTS TypeOK TempsAccounted
PROPERTIES SymlinkPreserved NameserversRestored DriftLogged
