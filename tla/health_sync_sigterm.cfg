SPECIFICATION FairSpec
CONSTANTS
    Apps = {"app"}
    Dataplane = "consul-dataplane"
    Proxy = "proxy"
    IsGateway = FALSE
    LoginEnabled = TRUE
    Healths = {"HEALTHY", "UNHEALTHY"}
    LostReplies = FALSE
    MaxFaults = 0
    MaxSigterms = 1
PROPERTY
    AnySigtermEnds
CHECK_DEADLOCK FALSE
