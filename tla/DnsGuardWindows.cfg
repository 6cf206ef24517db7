SPECIFICATION FairSpec
CONSTANTS
    Proc = {"primary", "watchdog"}
    Iface = {"ethernet", "vpn"}
    NoGuid = {"vpn"}
    Broken = {"vpn"}
    DesiredV4 <- Four
    DesiredV6 <- None
    Lists <- SomeLists
    Builds = {"guard", "warn"}
    Budgets <- SomeEvents
INVARIANTS TypeOK MappingGapsCovered
PROPERTIES FirstServerKept FlagsTakeEffect InterfacesRestored ChangeLogged
