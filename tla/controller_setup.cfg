SPECIFICATION FairSpec
CONSTANTS
    Controllers <- MCControllers
    Principal <- MCPrincipal
    LegacyPrincipals <- MCLegacyPrincipals
    Tags <- MCTags
    LegacyTags <- MCLegacyTags
    OtherLinks <- MCOtherLinks
    PartitionsEnabled = TRUE
    PrimaryDC = TRUE
    MaxFaults = 2
INVARIANTS
    TypeOK
    RulesBounded
    SetupComplete
PROPERTIES
    PrincipalsKept
    LinksKept
    SetupFinishes
CHECK_DEADLOCK FALSE
