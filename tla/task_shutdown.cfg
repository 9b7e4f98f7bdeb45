SPECIFICATION FairSpec
CONSTANTS
    ExitCodes = {"ok"}
    Containers = {"app", "worker", "consul-dataplane", "injected"}
    NormalType = {"app", "worker", "consul-dataplane"}
    NonApp = {"consul-ecs-mesh-init", "consul-dataplane", "consul-ecs-health-sync"}
    AppContainer = "app"
    ProxyContainer = "consul-dataplane"
    MaxTerms = 1
    MaxOthers = 1
    MaxProxyTerms = 1
    MaxProxyOthers = 1
    MaxTaskOthers = 1
INVARIANTS
    TypeOK
    FirstTermWithheld
    ExitsWithApplication
    ExitsWithProxy
    ProxyAfterApplication
    NeverWaitsInVain
PROPERTIES
    KeepsOrder
    ShutdownCompletes
    ProxyEndEndsEntrypoint
CHECK_DEADLOCK FALSE
