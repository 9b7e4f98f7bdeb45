--------------------------- MODULE TaskReconciler ---------------------------
(***************************************************************************)
(* The controller's polling loop (controller/controller.go) over the       *)
(* resources of controller/resource.go: list the ECS tasks of the cluster, *)
(* the ACL tokens and the catalog services they left in Consul, make the   *)
(* namespaces the tasks need, and remove the tokens and services of tasks  *)
(* that ECS no longer lists.  Every call to ECS or to Consul is a step of  *)
(* its own, so tasks start, log in, register and stop between any two of   *)
(* them; a call may fail, or take effect and still report an error.        *)
(***************************************************************************)
EXTENDS FiniteSets, Naturals

CONSTANTS
    Tasks,          \* ids of the ECS tasks of this controller's cluster
    OtherIds,       \* task ids of other clusters, as token metadata names them
    Tokens,         \* ACL tokens that may exist in the controller's partition
    TokenTask,      \* [Tokens -> task id, or NoTask if the description does not parse]
    TokenInCluster, \* [Tokens -> BOOLEAN]: its metadata names this cluster
    TokenNS,        \* [Tokens -> Namespaces]: where the token lives
    Services,       \* catalog services that may exist on this cluster's node
    ServiceTask,    \* [Services -> task id, or NoTask if Meta has no "task-id"]
    Namespaces,     \* Consul namespaces that may exist
    DefaultNamespace,
    Partition,      \* TaskStateLister.Partition, "" when partitions are disabled
    MeshTag,        \* [Tasks -> BOOLEAN]: the mesh tag is "true"
    PartitionTag,   \* [Tasks -> partition tag, or ""]
    NamespaceTag,   \* [Tasks -> namespace tag, or ""]
    NoTask,
    MaxFaults       \* bound: failed calls and controller restarts of a behaviour

TaskIds == Tasks \cup OtherIds

PartitionsEnabled == Partition # ""

(* taskStateFromTask rejects a task that carries only one of the two tags.   *)
TagsValid(t) ==
    PartitionsEnabled => (PartitionTag[t] = "" <=> NamespaceTag[t] = "")

TaskPartition(t) ==
    IF ~PartitionsEnabled THEN ""
    ELSE IF PartitionTag[t] = "" THEN "default" ELSE PartitionTag[t]

TaskNS(t) ==
    IF ~PartitionsEnabled THEN ""
    ELSE IF NamespaceTag[t] = "" THEN DefaultNamespace ELSE NamespaceTag[t]

(* Variant: the partition of the task is not compared.                        *)
ManagedAnyPartition(t) == MeshTag[t] /\ TagsValid(t)

(* The tasks fetchECSTasks keeps of those DescribeTasks returns.             *)
Managed(t) == MeshTag[t] /\ TagsValid(t) /\ TaskPartition(t) = Partition

(* Variant: descriptions that do not parse are not skipped.                   *)
OwnTokenUnparsed(k) == TokenInCluster[k]

(* fetchACLState keeps a token whose description parses and names the cluster. *)
OwnToken(k) == TokenTask[k] # NoTask /\ TokenInCluster[k]

(* Tokens and services that Tasks did not make and that are there before them: *)
(* hand-made ones, those of other clusters, those of tasks long gone.         *)
Foreign ==
    {k \in Tokens : ~OwnToken(k) \/ TokenTask[k] \notin Tasks}
    \cup {s \in Services : ServiceTask[s] \notin Tasks}

(* Only tasks the controller manages hold tokens and services of its own     *)
(* partition: mesh-init takes the partition of the task's configuration, and *)
(* the deployment gives the task the tags that repeat it.                    *)
ASSUME ConstantsAssumption ==
    /\ NoTask \notin TaskIds
    /\ Tasks \cap OtherIds = {} /\ Tokens \cap Services = {}
    /\ TokenTask \in [Tokens -> TaskIds \cup {NoTask}]
    /\ TokenInCluster \in [Tokens -> BOOLEAN]
    /\ TokenNS \in [Tokens -> Namespaces]
    /\ ServiceTask \in [Services -> TaskIds \cup {NoTask}]
    /\ MeshTag \in [Tasks -> BOOLEAN]
    /\ PartitionTag \in [Tasks -> STRING]
    /\ NamespaceTag \in [Tasks -> STRING]
    /\ DefaultNamespace \in Namespaces
    /\ \A t \in Tasks : Managed(t) => TaskNS(t) \in Namespaces \cup {""}
    /\ \A k \in Tokens : TokenTask[k] \in Tasks /\ TokenInCluster[k] => Managed(TokenTask[k])
    /\ \A s \in Services : ServiceTask[s] \in Tasks => Managed(ServiceTask[s])
    /\ MaxFaults \in Nat

VARIABLES
    status,      \* [Tasks -> life of the ECS task]
    tokens,      \* ACL tokens in Consul
    services,    \* services in the catalog on the cluster's node
    made,        \* tokens and services made so far: an accessor id is never reused,
                 \* and mesh-init registers a service once
    namespaces,  \* namespaces in Consul
    nsPolicies,  \* namespaces whose PolicyDefaults hold the cross-namespace policy
    xnsPolicy,   \* the cross-namespace policy exists
    pc,          \* where the controller is
    unlisted,    \* tasks ListTasks has still to return
    page,        \* tasks of the page being described
    found,       \* buildingResources with ECSTaskFound
    nsTodo,      \* namespaces still to be visited by the loop at pc
    seenTokens,  \* tokens recorded in the resources
    seenServices,\* services recorded in the resources
    resources,   \* task ids the reconcile loop has still to visit
    cur,         \* the resource being reconciled
    curTokens,   \* cur's tokens Delete has still to visit
    curServices, \* cur's services DeregisterServices has still to visit
    merr,        \* reconcile() has accumulated an error
    established, \* history: tasks that run since this cycle called ListTasks first
    gone,        \* history: tasks that had stopped when it did
    faults       \* bound counter

vars == << status, tokens, services, made, namespaces, nsPolicies, xnsPolicy, pc, unlisted,
           page, found, nsTodo, seenTokens, seenServices, resources, cur, curTokens,
           curServices, merr, established, gone, faults >>
catalog == << tokens, services, made >>
nsState == << namespaces, nsPolicies, xnsPolicy >>
listing == << unlisted, page, found, seenTokens, seenServices >>
visiting == << cur, curTokens, curServices >>
history == << established, gone >>
environment == << status, tokens, services, made, namespaces, nsPolicies, xnsPolicy >>
locals == << unlisted, page, found, nsTodo, seenTokens, seenServices, resources,
             cur, curTokens, curServices, merr >>

Status == {"absent", "running", "stopping", "stopped"}

PCs == {"sleep", "listClient", "listTasks", "describe", "listNamespaces", "listTokens",
        "listServices", "nsClient", "readPolicy", "createPolicy", "readDefault",
        "updateDefault", "listExisting", "createNamespaces", "next", "client",
        "delete", "deregister", "done"}

(* What ListTasks returns: desiredStatus defaults to RUNNING, so a task that  *)
(* has been told to stop is no longer listed.                                 *)
Running == {t \in Tasks : status[t] = "running"}

Stopped == {t \in Tasks : status[t] = "stopped"}

TokensOf(id) == {k \in seenTokens : TokenTask[k] = id}
ServicesOf(id) == {s \in seenServices : ServiceTask[s] = id}

Init ==
    /\ status = [t \in Tasks |-> "absent"]
    /\ tokens = {k \in Tokens \cap Foreign : TokenNS[k] = DefaultNamespace}
    /\ services = Services \cap Foreign
    /\ made = Foreign
    /\ namespaces = {DefaultNamespace}
    /\ nsPolicies = {}
    /\ xnsPolicy = FALSE
    /\ pc = "sleep"
    /\ unlisted = {} /\ page = {} /\ found = {} /\ nsTodo = {}
    /\ seenTokens = {} /\ seenServices = {} /\ resources = {}
    /\ cur = NoTask /\ curTokens = {} /\ curServices = {}
    /\ merr = FALSE
    /\ established = {} /\ gone = {}
    /\ faults = 0

-----------------------------------------------------------------------------
(* The tasks, as far as the controller meets them.  ECS starts and stops      *)
(* them; mesh-init and health-sync log in, register, deregister and log out.  *)

StartTask(t) ==
    /\ status[t] = "absent"
    /\ status' = [status EXCEPT ![t] = "running"]
    /\ UNCHANGED << catalog, nsState, pc, locals, history, faults >>

(* A login fails while the task's namespace does not exist.                   *)
Login(t) ==
    /\ status[t] \in {"running", "stopping"}
    /\ \E k \in Tokens \ made :
         /\ TokenTask[k] = t
         /\ TokenNS[k] \in namespaces
         /\ tokens' = tokens \cup {k}
         /\ made' = made \cup {k}
    /\ UNCHANGED << status, services, nsState, pc, locals, history, faults >>

(* The catalog registration carries the token of the login.                   *)
RegisterService(t) ==
    /\ status[t] = "running"
    /\ \E k \in tokens : TokenTask[k] = t
    /\ \E s \in Services \ made :
         /\ ServiceTask[s] = t
         /\ services' = services \cup {s}
         /\ made' = made \cup {s}
    /\ UNCHANGED << status, tokens, nsState, pc, locals, history, faults >>

(* ECS asks the task to stop: scale in, deployment, a failed essential container. *)
RequestStop(t) ==
    /\ status[t] = "running"
    /\ status' = [status EXCEPT ![t] = "stopping"]
    /\ established' = established \ {t}
    /\ UNCHANGED << catalog, nsState, pc, locals, gone, faults >>

(* health-sync's own cleanup, which a killed container never gets to.         *)
TaskDeregisters(t) ==
    /\ status[t] = "stopping"
    /\ \E s \in services \ Foreign :
         /\ ServiceTask[s] = t
         /\ services' = services \ {s}
    /\ UNCHANGED << status, tokens, made, nsState, pc, locals, history, faults >>

TaskLogsOut(t) ==
    /\ status[t] = "stopping"
    /\ \E k \in tokens \ Foreign :
         /\ TokenTask[k] = t
         /\ tokens' = tokens \ {k}
    /\ UNCHANGED << status, services, made, nsState, pc, locals, history, faults >>

TaskStopped(t) ==
    /\ status[t] = "stopping"
    /\ status' = [status EXCEPT ![t] = "stopped"]
    /\ UNCHANGED << catalog, nsState, pc, locals, history, faults >>

(* Somebody else takes an untagged service out of the catalog.                *)
OperatorDeregisters ==
    /\ \E s \in services : ServiceTask[s] = NoTask /\ services' = services \ {s}
    /\ UNCHANGED << status, tokens, made, nsState, pc, locals, history, faults >>

Task(t) ==
    \/ StartTask(t) \/ Login(t) \/ RegisterService(t) \/ RequestStop(t)
    \/ TaskDeregisters(t) \/ TaskLogsOut(t) \/ TaskStopped(t)

-----------------------------------------------------------------------------
(* The controller.                                                            *)

Fault == faults < MaxFaults /\ faults' = faults + 1

Forget ==
    /\ unlisted' = {} /\ page' = {} /\ found' = {} /\ nsTodo' = {}
    /\ seenTokens' = {} /\ seenServices' = {} /\ resources' = {}
    /\ cur' = NoTask /\ curTokens' = {} /\ curServices' = {}
    /\ merr' = FALSE
    /\ established' = {} /\ gone' = {}

(* Run: the polling interval elapses.                                         *)
Wake ==
    /\ pc = "sleep"
    /\ pc' = "listClient"
    /\ UNCHANGED << environment, locals, history, faults >>

(* reconcile returns at the first error of List, which changed nothing.       *)
ListFails ==
    /\ pc \in {"listClient", "listTasks", "describe", "listNamespaces", "listTokens",
               "listServices"}
    /\ Fault
    /\ pc' = "sleep"
    /\ Forget
    /\ UNCHANGED environment

ListClient ==
    /\ pc = "listClient"
    /\ pc' = "listTasks"
    /\ unlisted' = Running
    /\ established' = Running
    /\ gone' = Stopped
    /\ UNCHANGED << environment, page, found, nsTodo, seenTokens, seenServices,
                    resources, visiting, merr, faults >>

(* One page of ListTasks; no task at all gives one empty page.  A listed task *)
(* may drop out when it stops while the pages are read, and one that starts   *)
(* meanwhile may still be on a page.                                          *)
ListTasks ==
    /\ pc = "listTasks"
    /\ \E p \in SUBSET (unlisted \cup Running) :
         /\ p \cap found = {}
         /\ unlisted \cap Running # {} => p \cap unlisted # {}
         /\ page' = p
         /\ unlisted' = (unlisted \cap Running) \ p
         /\ pc' = IF p = {} THEN "listNamespaces" ELSE "describe"
    /\ UNCHANGED << environment, found, nsTodo, seenTokens, seenServices, resources,
                    visiting, merr, history, faults >>

(* Variant: the nextToken is ignored, so only the first page is described.    *)
DescribeFirstPage ==
    /\ pc = "describe"
    /\ found' = found \cup {t \in page : Managed(t)}
    /\ page' = {}
    /\ pc' = "listNamespaces"
    /\ UNCHANGED << environment, unlisted, nsTodo, seenTokens, seenServices, resources,
                    visiting, merr, history, faults >>

(* DescribeTasks and the loop over its tasks: tasks of another kind, with     *)
(* unusable tags or in another partition are skipped.  A page without a       *)
(* nextToken is the last.                                                     *)
DescribeTasks ==
    /\ pc = "describe"
    /\ found' = found \cup {t \in page : Managed(t)}
    /\ page' = {}
    /\ pc' = IF unlisted = {} THEN "listNamespaces" ELSE "listTasks"
    /\ UNCHANGED << environment, unlisted, nsTodo, seenTokens, seenServices, resources,
                    visiting, merr, history, faults >>

(* fetchACLState: the namespaces whose tokens are listed.                     *)
ListNamespaces ==
    /\ pc = "listNamespaces"
    /\ nsTodo' = IF PartitionsEnabled THEN namespaces ELSE {DefaultNamespace}
    /\ pc' = "listTokens"
    /\ UNCHANGED << environment, listing, resources, visiting, merr, history, faults >>

(* Variant: the loop over the namespaces ends after one.                      *)
ListTokensOnce ==
    /\ pc = "listTokens"
    /\ \E n \in nsTodo :
         seenTokens' = seenTokens \cup {k \in tokens : TokenNS[k] = n /\ OwnToken(k)}
    /\ nsTodo' = {}
    /\ pc' = "listServices"
    /\ UNCHANGED << environment, unlisted, page, found, seenServices, resources,
                    visiting, merr, history, faults >>

ListTokens ==
    /\ pc = "listTokens"
    /\ \E n \in nsTodo :
         /\ nsTodo' = nsTodo \ {n}
         /\ seenTokens' = seenTokens \cup {k \in tokens : TokenNS[k] = n /\ OwnToken(k)}
         /\ pc' = IF nsTodo = {n} THEN "listServices" ELSE "listTokens"
    /\ UNCHANGED << environment, unlisted, page, found, seenServices, resources,
                    visiting, merr, history, faults >>

Untagged == {s \in services : ServiceTask[s] = NoTask}

(* Variant: a service without a task id is recorded like any other.           *)
ListServicesTolerant ==
    /\ pc = "listServices"
    /\ seenServices' = services
    /\ resources' = found \cup {TokenTask[k] : k \in seenTokens}
                          \cup {ServiceTask[s] : s \in services}
    /\ pc' = IF PartitionsEnabled THEN "nsClient" ELSE "next"
    /\ UNCHANGED << environment, unlisted, page, found, nsTodo, seenTokens,
                    visiting, merr, history, faults >>

(* fetchServiceStateForTasks: NodeServiceList of the cluster's node.  One     *)
(* service without a task id makes the whole list an error.                   *)
ListServices ==
    /\ pc = "listServices"
    /\ Untagged = {}
    /\ seenServices' = services
    /\ resources' = found \cup {TokenTask[k] : k \in seenTokens}
                          \cup {ServiceTask[s] : s \in services}
    /\ pc' = IF PartitionsEnabled THEN "nsClient" ELSE "next"
    /\ UNCHANGED << environment, unlisted, page, found, nsTodo, seenTokens,
                    visiting, merr, history, faults >>

ListServicesUntagged ==
    /\ pc = "listServices"
    /\ Untagged # {}
    /\ pc' = "sleep"
    /\ Forget
    /\ UNCHANGED << environment, faults >>

-----------------------------------------------------------------------------
(* ReconcileNamespaces.  Any error but one of Namespaces().Create ends it;    *)
(* reconcile notes the error and goes on with the resources.                  *)

NamespacesFail ==
    /\ pc \in {"nsClient", "readPolicy", "createPolicy", "readDefault", "updateDefault",
               "listExisting"}
    /\ Fault
    /\ merr' = TRUE
    /\ pc' = "next"
    /\ UNCHANGED << environment, listing, nsTodo, resources, visiting, history >>

NamespaceClient ==
    /\ pc = "nsClient"
    /\ pc' = "readPolicy"
    /\ UNCHANGED << environment, locals, history, faults >>

ReadPolicy ==
    /\ pc = "readPolicy"
    /\ pc' = IF xnsPolicy THEN "readDefault" ELSE "createPolicy"
    /\ UNCHANGED << environment, locals, history, faults >>

CreatePolicy ==
    /\ pc = "createPolicy"
    /\ xnsPolicy' = TRUE
    /\ \/ pc' = "readDefault" /\ UNCHANGED << merr, faults >>
       \/ Fault /\ merr' = TRUE /\ pc' = "next"
    /\ UNCHANGED << status, catalog, namespaces, nsPolicies, listing, nsTodo, resources,
                    visiting, history >>

(* Variant: the early return for a linked policy also skips createNamespaces. *)
ReadDefaultReturns ==
    /\ pc = "readDefault"
    /\ pc' = IF DefaultNamespace \in nsPolicies THEN "next" ELSE "updateDefault"
    /\ UNCHANGED << environment, locals, history, faults >>

ReadDefault ==
    /\ pc = "readDefault"
    /\ pc' = IF DefaultNamespace \in nsPolicies THEN "listExisting" ELSE "updateDefault"
    /\ UNCHANGED << environment, locals, history, faults >>

UpdateDefault ==
    /\ pc = "updateDefault"
    /\ nsPolicies' = nsPolicies \cup {DefaultNamespace}
    /\ \/ pc' = "listExisting" /\ UNCHANGED << merr, faults >>
       \/ Fault /\ merr' = TRUE /\ pc' = "next"
    /\ UNCHANGED << status, catalog, namespaces, xnsPolicy, listing, nsTodo, resources,
                    visiting, history >>

(* createNamespaces: the namespaces of the tasks found, less the existing ones. *)
ListExisting ==
    /\ pc = "listExisting"
    /\ nsTodo' = {TaskNS(t) : t \in found} \ (namespaces \cup {""})
    /\ pc' = IF nsTodo' = {} THEN "next" ELSE "createNamespaces"
    /\ UNCHANGED << environment, listing, resources, visiting, merr, history, faults >>

CreateNamespace ==
    /\ pc = "createNamespaces"
    /\ \E n \in nsTodo :
         /\ nsTodo' = nsTodo \ {n}
         /\ \/ /\ namespaces' = namespaces \cup {n}
               /\ nsPolicies' = nsPolicies \cup {n}
               /\ \/ UNCHANGED << merr, faults >>
                  \/ Fault /\ merr' = TRUE
            \/ Fault /\ merr' = TRUE /\ UNCHANGED << namespaces, nsPolicies >>
         /\ pc' = IF nsTodo = {n} THEN "next" ELSE "createNamespaces"
    /\ UNCHANGED << status, catalog, xnsPolicy, listing, resources, visiting, history >>

-----------------------------------------------------------------------------
(* The loop over the resources, in any order: they come out of a Go map.      *)

(* Variant: IsPresent is not consulted.                                       *)
NextResourceAlways ==
    /\ pc = "next"
    /\ \E id \in resources :
         /\ resources' = resources \ {id}
         /\ pc' = "client" /\ cur' = id
    /\ UNCHANGED << environment, listing, nsTodo, curTokens, curServices, merr,
                    history, faults >>

(* Reconcile returns at once for a resource whose ECS task was found.         *)
NextResource ==
    /\ pc = "next"
    /\ \E id \in resources :
         /\ resources' = resources \ {id}
         /\ IF id \in found
              THEN UNCHANGED << pc, cur >>
              ELSE pc' = "client" /\ cur' = id
    /\ UNCHANGED << environment, listing, nsTodo, curTokens, curServices, merr,
                    history, faults >>

ResourcesDone ==
    /\ pc = "next"
    /\ resources = {}
    /\ pc' = "done"
    /\ UNCHANGED << environment, locals, history, faults >>

AfterDelete == IF ServicesOf(cur) # {} THEN "deregister" ELSE "next"

ReconcileClient ==
    /\ pc = "client"
    /\ \/ /\ pc' = IF TokensOf(cur) # {} THEN "delete" ELSE AfterDelete
          /\ curTokens' = TokensOf(cur)
          /\ curServices' = ServicesOf(cur)
          /\ UNCHANGED << cur, merr, faults >>
       \/ /\ Fault
          /\ merr' = TRUE
          /\ pc' = "next"
          /\ cur' = NoTask
          /\ UNCHANGED << curTokens, curServices >>
    /\ UNCHANGED << environment, listing, nsTodo, resources, history >>

(* Variant: Delete drops its error, as DeregisterServices does.               *)
DeleteTokenSilently ==
    /\ pc = "delete"
    /\ \E k \in curTokens :
         /\ \/ tokens' = tokens \ {k} /\ UNCHANGED faults
            \/ UNCHANGED tokens /\ Fault
         /\ curTokens' = curTokens \ {k}
         /\ pc' = IF curTokens = {k} THEN AfterDelete ELSE "delete"
    /\ UNCHANGED << status, services, made, nsState, listing, nsTodo, resources, cur,
                    curServices, merr, history >>

(* Delete stops at its first error; a token that is gone already may be one.  *)
DeleteToken ==
    /\ pc = "delete"
    /\ \E k \in curTokens :
         \/ /\ tokens' = tokens \ {k}
            /\ curTokens' = curTokens \ {k}
            /\ pc' = IF curTokens = {k} THEN AfterDelete ELSE "delete"
            /\ UNCHANGED << merr, faults >>
         \/ /\ tokens' \in {tokens, tokens \ {k}}
            /\ IF k \in tokens THEN Fault ELSE UNCHANGED faults
            /\ curTokens' = {}
            /\ merr' = TRUE
            /\ pc' = AfterDelete
    /\ UNCHANGED << status, services, made, nsState, listing, nsTodo, resources, cur,
                    curServices, history >>

(* DeregisterServices collects its errors in a variable it does not return.   *)
DeregisterService ==
    /\ pc = "deregister"
    /\ \E s \in curServices :
         /\ curServices' = curServices \ {s}
         /\ pc' = IF curServices = {s} THEN "next" ELSE "deregister"
         /\ \/ services' = services \ {s} /\ UNCHANGED faults
            \/ services' \in {services, services \ {s}} /\ Fault
    /\ UNCHANGED << status, tokens, made, nsState, listing, nsTodo, resources, cur, curTokens,
                    merr, history >>

(* reconcile returns merr, which Run logs.                                    *)
Finish ==
    /\ pc = "done"
    /\ pc' = "sleep"
    /\ Forget
    /\ UNCHANGED << environment, faults >>

(* The controller's own task is replaced, at any point of a cycle.            *)
Restart ==
    /\ pc # "sleep"
    /\ Fault
    /\ pc' = "sleep"
    /\ Forget
    /\ UNCHANGED environment

List ==
    \/ ListFails \/ ListClient \/ ListTasks \/ DescribeTasks \/ ListNamespaces
    \/ ListTokens \/ ListServices \/ ListServicesUntagged

ReconcileNamespaces ==
    \/ NamespacesFail \/ NamespaceClient \/ ReadPolicy \/ CreatePolicy \/ ReadDefault
    \/ UpdateDefault \/ ListExisting \/ CreateNamespace

Reconcile ==
    \/ NextResource \/ ResourcesDone \/ ReconcileClient \/ DeleteToken \/ DeregisterService

Controller == Wake \/ List \/ ReconcileNamespaces \/ Reconcile \/ Finish

Next ==
    \/ \E t \in Tasks : Task(t)
    \/ OperatorDeregisters
    \/ Controller
    \/ Restart

Spec == Init /\ [][Next]_vars

(* Run loops on a timer, and every call returns.                              *)
FairSpec == Spec /\ WF_vars(Controller)

-----------------------------------------------------------------------------
(* Properties.                                                                *)

TypeOK ==
    /\ status \in [Tasks -> Status]
    /\ tokens \subseteq Tokens
    /\ services \subseteq Services
    /\ made \subseteq Tokens \cup Services
    /\ namespaces \subseteq Namespaces /\ DefaultNamespace \in namespaces
    /\ nsPolicies \subseteq namespaces
    /\ xnsPolicy \in BOOLEAN
    /\ pc \in PCs
    /\ unlisted \subseteq Tasks /\ page \subseteq Tasks
    /\ found \subseteq {t \in Tasks : Managed(t)}
    /\ nsTodo \subseteq Namespaces
    /\ seenTokens \subseteq {k \in Tokens : OwnToken(k)}
    /\ seenServices \subseteq Services
    /\ resources \subseteq TaskIds
    /\ cur \in TaskIds \cup {NoTask}
    /\ curTokens \subseteq Tokens
    /\ curServices \subseteq Services
    /\ merr \in BOOLEAN
    /\ established \subseteq Running
    /\ gone \subseteq Stopped
    /\ faults \in 0..MaxFaults

(* However tasks start, stop, log in and register while the controller lists *)
(* ECS, then the tokens, then the services, it never takes a token or a      *)
(* service from a task that has been running since the cycle began to list,  *)
(* nor anything it cannot attribute to a task of its own cluster.            *)
TakesOnlyLeftovers ==
    /\ \A k \in tokens \ tokens' : OwnToken(k) /\ TokenTask[k] \notin established
    /\ \A s \in services \ services' :
         ServiceTask[s] # NoTask /\ ServiceTask[s] \notin established

OnlyLeftoversRemoved == [][Controller => TakesOnlyLeftovers]_vars

(* A namespace is only ever created for a task of this partition and with the *)
(* cross-namespace policy among its defaults, and that policy exists before   *)
(* any namespace refers to it, whichever of upsertCrossNSPolicy's and         *)
(* createNamespaces's calls fail and wherever a restart cuts a cycle short.   *)
NamespacesGoverned ==
    /\ namespaces \ {DefaultNamespace} \subseteq nsPolicies
    /\ \A ns \in namespaces \ {DefaultNamespace} :
         \E t \in Tasks : MeshTag[t] /\ TaskPartition(t) = Partition /\ TaskNS(t) = ns
    /\ nsPolicies # {} => xnsPolicy

(* A cycle that reports no error has deleted every token it saw of a task     *)
(* that ECS did not list, and it has seen enough: whichever tasks start, log  *)
(* in and stop, and whichever namespaces it makes meanwhile, not one token of *)
(* this cluster is left, in any namespace, of a task that had stopped when    *)
(* the cycle began or that is none of this cluster's tasks, and if no call    *)
(* ever failed, no service either.                                            *)
CleanCycleLeavesNothing ==
    pc = "done" /\ ~merr =>
        /\ \A k \in seenTokens : TokenTask[k] \notin found => k \notin tokens
        /\ \A k \in tokens : OwnToken(k) => TokenTask[k] \notin gone \cup OtherIds
        /\ faults = 0 => \A s \in services : ServiceTask[s] \notin gone \cup OtherIds

(* The cycle as the tasks and the log's reader know it.                       *)
Phase ==
    IF pc \in {"sleep", "listClient"} THEN "idle"
    ELSE IF pc = "done" /\ ~merr THEN "clean" ELSE "looking"

(* The tokens of other clusters are nobody's here.                            *)
TokenOwner == [k \in Tokens |-> IF OwnToken(k) THEN TokenTask[k] ELSE NoTask]

Collector == INSTANCE LeftoverCollector WITH
    Others <- OtherIds,
    ServiceOwner <- ServiceTask,
    Nobody <- NoTask,
    phase <- Phase, spared <- established, doomed <- gone

(* The loop implements the promise of LeftoverCollector: one thing at a time, *)
(* from no task that has run since the cycle began, and no cycle reported     *)
(* without an error that leaves a token of a task gone before it.             *)
Collects == Collector!CollectorSpec

(* The same of the catalog services: Reconcile "deletes ACL tokens and        *)
(* removes the service from Catalog" (controller/resource.go:514).            *)
CleanCycleRemovesServices ==
    pc = "done" /\ ~merr =>
        \A s \in seenServices : ServiceTask[s] \notin found => s \notin services

(* What CHANGELOG.md:133 calls leftovers: the controller takes tokens and     *)
(* services only from tasks "that have stopped".                              *)
OnlyStoppedTasksCleaned ==
    [][Controller =>
         /\ \A k \in tokens \ tokens' :
              TokenTask[k] \in Tasks => status[TokenTask[k]] = "stopped"
         /\ \A s \in services \ services' :
              ServiceTask[s] \in Tasks => status[ServiceTask[s]] = "stopped"]_vars

LeftoversOf(t) ==
    {k \in tokens : TokenTask[k] = t} \cup {s \in services : ServiceTask[s] = t}

(* "Ensure leftover tokens and services are removed for ECS tasks that have   *)
(* stopped" (CHANGELOG.md:133): whatever failed calls and restarts intervene, *)
(* nothing of a stopped task stays in Consul.                                 *)
LeftoversEventuallyRemoved ==
    \A t \in Tasks : status[t] = "stopped" ~> LeftoversOf(t) = {}

(* A managed task that keeps running gets the namespace it needs to log in.   *)
NamespaceEventuallyCreated ==
    \A t \in Tasks :
        status[t] = "running" /\ Managed(t) /\ TaskNS(t) # "" ~>
            status[t] # "running" \/ TaskNS(t) \in namespaces

=============================================================================
