SPECIFICATION Spec
CONSTANTS
    Tasks <- MCTasks
    OtherIds <- MCOtherIds
    Tokens = {"web.1", "web.2", "api.1", "manual"}
    TokenTask <- MCTokenTask
    TokenInCluster <- MCTokenInCluster
    TokenNS <- MCTokenNS
    Services = {"web-svc", "legacy-svc"}
    ServiceTask <- MCServiceTask
    Namespaces = {"default"}
    DefaultNamespace = "default"
    Partition = ""
    MeshTag <- MCMeshTag
    PartitionTag <- MCPartitionTag
    NamespaceTag <- MCNamespaceTag
    NoTask = NoTask
    MaxFaults = 1
PROPERTIES
    OnlyLeftoversRemoved
