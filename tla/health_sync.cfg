SPECIFICATION FairSpec
CONSTANTS
    Apps = {"app"}
    Dataplane = "consul-dataplane"
    Proxy = "proxy"
    IsGateway = FALSE
    LoginEnabled = TRUE
    Healths = {"HEALTHY", "UNHEALTHY"}
    LostReplies = FALSE
    MaxFaults = 1
    MaxSigterms = 1
INVARIANTS
    TypeOK
    CacheCoherent
    DrainedBeforeDeregistration
PROPERTIES
    Reports
    PassesOnHealthy
    ActsAsTask
    HealthSynced
    OverallSynced
    SigtermEnds
CHECK_DEADLOCK FALSE
