SPECIFICATION Spec
CONSTANTS
    Tasks <- MCTasks
    OtherIds <- MCOtherIds
    Tokens = {"web.1"}
    TokenTask <- MCTokenTask
    TokenInCluster <- MCTokenInCluster
    TokenNS <- MCTokenNS
    Services = {"web-svc", "web-proxy"}
    ServiceTask <- MCServiceTask
    Namespaces = {"default"}
    DefaultNamespace = "default"
    Partition = ""
    MeshTag <- MCMeshTag
    PartitionTag <- MCPartitionTag
    NamespaceTag <- MCNamespaceTag
    NoTask = NoTask
    MaxFaults = 1
PROPERTY
    OnlyStoppedTasksCleaned
