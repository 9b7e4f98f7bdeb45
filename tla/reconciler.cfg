SPECIFICATION FairSpec
CONSTANTS
    Tasks <- MCTasksEnt
    OtherIds <- MCOtherIds
    Tokens = {"web.1", "web.2", "theirs.1", "gone.1", "manual"}
    TokenTask <- MCTokenTask
    TokenInCluster <- MCTokenInCluster
    TokenNS <- MCTokenNS
    Services = {"web-svc"}
    ServiceTask <- MCServiceTask
    Namespaces = {"default", "apps", "jobs"}
    DefaultNamespace = "default"
    Partition = "default"
    MeshTag <- MCMeshTag
    PartitionTag <- MCPartitionTag
    NamespaceTag <- MCNamespaceTag
    NoTask = NoTask
    MaxFaults = 2
INVARIANTS
    TypeOK
    NamespacesGoverned
    CleanCycleLeavesNothing
PROPERTIES
    Collects
    LeftoversEventuallyRemoved
    NamespaceEventuallyCreated
