SPECIFICATION FairSpec
CONSTANTS
    Proc = {1, 2, 3, 4}
    Service = {"almighty-blocker", "other"}
    DefaultName = "almighty-blocker"
    Installs <- InstalledOrNot
    Platforms = {"linux", "windows"}
    Budgets <- SomeEvents
CHECK_DEADLOCK FALSE
INVARIANTS TypeOK RegistrationHolds
PROPERTIES NameKept PrimaryKept
