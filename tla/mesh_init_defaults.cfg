SPECIFICATION FairSpec
CONSTANTS
    Cluster = "cluster"
    Region = "us-east-1"
    Family <- MCFamily
    Lower <- MCLower
    Tasks <- MCTasks
    Configs <- MCConfigs
    CentralConfigs <- MCCentral
    Apps = {"app"}
    Dataplane = "consul-dataplane"
    Proxy = "proxy"
    MaxFaults = 0
    MaxOperator = 1
PROPERTY
    PassiveOnlyAdded
CHECK_DEADLOCK FALSE
