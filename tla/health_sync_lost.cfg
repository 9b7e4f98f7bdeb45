SPECIFICATION FairSpec
CONSTANTS
    Apps = {"app"}
    Dataplane = "consul-dataplane"
    Proxy = "proxy"
    IsGateway = FALSE
    LoginEnabled = TRUE
    Healths = {"HEALTHY", "UNHEALTHY"}
    LostReplies = TRUE
    MaxFaults = 1
    MaxSigterms = 1
PROPERTY
    HealthSynced
CHECK_DEADLOCK FALSE
