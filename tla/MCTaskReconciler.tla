-------------------------- MODULE MCTaskReconciler --------------------------
(* Instances of TaskReconciler for TLC.  With partitions enabled: web runs in *)
(* namespace "apps", api carries neither tag and so runs in "default", batch  *)
(* belongs to another partition.  web logs in twice (mesh-init, health-sync). *)
(* There are also a token whose description does not parse, one of another    *)
(* cluster's task and one of a task of this cluster long gone.                *)
EXTENDS TaskReconciler

MCTasks == {"web", "api"}
MCTasksEnt == {"web", "batch"}
MCOtherIds == {"gone", "theirs"}

MCTokenTask == [k \in Tokens |->
    CASE k = "web.1" -> "web" [] k = "web.2" -> "web" [] k = "api.1" -> "api"
      [] k = "gone.1" -> "gone" [] k = "theirs.1" -> "theirs" [] OTHER -> NoTask]
MCTokenInCluster == [k \in Tokens |-> k # "theirs.1"]
MCTokenNS == [k \in Tokens |->
    IF PartitionsEnabled /\ k \in {"web.1", "web.2"} THEN "apps" ELSE "default"]

MCServiceTask == [s \in Services |->
    CASE s = "web-svc" -> "web" [] s = "web-proxy" -> "web" [] s = "api-svc" -> "api"
      [] OTHER -> NoTask]

MCMeshTag == [t \in Tasks |-> TRUE]
MCPartitionTag == [t \in Tasks |->
    CASE t = "web" -> "default" [] t = "batch" -> "other" [] OTHER -> ""]
MCNamespaceTag == [t \in Tasks |->
    CASE t = "web" -> "apps" [] t = "batch" -> "jobs" [] OTHER -> ""]
=============================================================================
