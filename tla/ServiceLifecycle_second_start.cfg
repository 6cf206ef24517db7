SPECIFICATION FairSpec
CONSTANTS
    Proc = {1, 2, 3, 4}
    Service = {"almighty-blocker"}
    DefaultName = "almighty-blocker"
    Installs <- Installed
    Platforms = {"linux"}
    Budgets <- OneByHand
CHECK_DEADLOCK FALSE
PROPERTY AutomaticRestart
