SPECIFICATION FairSpec
CONSTANTS
    Cluster = "cluster"
    Region = "us-east-1"
    Family <- MCFamily
    Lower <- MCLower
    Tasks <- MCTasks
    Configs <- MCConfigs
    CentralConfigs <- MCCentral
    Apps = {"app"}
    Dataplane = "consul-dataplane"
    Proxy = "proxy"
    MaxFaults = 2
    MaxOperator = 1
INVARIANTS
    TypeOK
    HandsOver
    ProxyHasService
    Prepared
    DataplaneFollows
    RedirectSpares
    ResilientWhenDone
PROPERTIES
    FreshWriteKeeps
    Ends
CHECK_DEADLOCK FALSE
