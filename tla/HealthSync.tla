----------------------------- MODULE HealthSync -----------------------------
(***************************************************************************)
(* The health-sync container (subcommand/health-sync): the main loop of     *)
(* realRun, which copies the health ECS reports of the task's containers    *)
(* into the task's Consul checks, and the dataplaneMonitor goroutine, which *)
(* waits for SIGTERM and then for the dataplane container to stop.  Every   *)
(* metadata fetch and every Consul call is a step; the containers' health,  *)
(* SIGTERM, a lost Consul server and the monitor interleave with them.      *)
(***************************************************************************)
EXTENDS Naturals, FiniteSets

CONSTANTS
    Apps,         \* config.HealthSyncContainers
    Dataplane,    \* config.ConsulDataplaneContainerName, and its check of the service
    Proxy,        \* the dataplane's check of the sidecar proxy service
    IsGateway,    \* config.IsGateway()
    LoginEnabled, \* config.ConsulLogin.Enabled
    Healths,      \* ECS health statuses met
    LostReplies,  \* a Consul call may take effect and still report an error
    MaxFaults,    \* bound: failed calls and lost servers of a behaviour
    MaxSigterms   \* bound: SIGTERMs ECS sends

Names == Apps \cup {Dataplane}
CheckIds == Names \cup {Proxy}
Containers == Healths \cup {"missing"}

(* currentHealthStatuses[name]; "" is an absent key.                          *)
Cached == Healths \cup {"", "critical"}

ASSUME HealthSyncAssumption ==
    /\ Dataplane \notin Apps /\ Proxy \notin Names
    /\ IsGateway \in BOOLEAN /\ LoginEnabled \in BOOLEAN /\ LostReplies \in BOOLEAN
    /\ "HEALTHY" \in Healths /\ "UNHEALTHY" \in Healths
    /\ Healths \subseteq {"HEALTHY", "UNHEALTHY", "UNKNOWN", ""}
    /\ MaxFaults \in Nat /\ MaxSigterms \in Nat

VARIABLES
    meta,        \* what the task metadata says of each container now
    dpStopped,   \* the dataplane container is STOPPED in the metadata
    snap,        \* the metadata of the running syncChecks
    cur,         \* currentHealthStatuses; the dataplane's entry only decides what is
                 \* logged and is left out
    check,       \* status of each check in the catalog, "gone" with its service
    registered,  \* services of the task in the catalog: those of its checks
    loggedIn,    \* the login token exists
    pc,          \* where realRun is
    todo,        \* containers the loop at pc has still to visit
    shuttingDown,
    sigs,        \* c.sigs holds a SIGTERM; its capacity is 1
    sigterms,    \* SIGTERMs sent to the process
    monitor,     \* where the dataplaneMonitor goroutine is
    clientOK,    \* consulClient points at a live server
    switch,      \* watcherCh holds a new server
    errs,        \* the error the running setChecksCritical or shutdown accumulates
    critErr,     \* setChecksCritical returned an error
    faults       \* bound counter

vars == << meta, dpStopped, snap, cur, check, registered, loggedIn, pc, todo, shuttingDown,
           sigs, sigterms, monitor, clientOK, switch, errs, critErr, faults >>
task == << meta, dpStopped >>
consul == << check, registered, loggedIn >>
signals == << sigs, sigterms, monitor >>
client == << clientOK, switch >>
loop == << snap, cur, shuttingDown, errs, critErr >>

PCs == {"start", "notified", "fetchChecks", "select", "missing", "missingProxy", "present",
        "aggregate", "aggregateProxy", "critical", "criticalProxy", "deregister",
        "deregisterProxy", "logout", "return", "exited"}

(* Variant: the ECS status is written as it is.                               *)
ToConsulUnmapped(h) == h

(* ecsHealthToConsulHealth, which also maps what the cache holds.             *)
ToConsul(h) == IF h = "HEALTHY" THEN "passing" ELSE "critical"

(* c.checks: mesh-init registers for a gateway the dataplane's check only.    *)
Known == IF IsGateway THEN {Dataplane} ELSE CheckIds

Missing(s) == {n \in Names : s[n] = "missing"}
Present(s) == Names \ Missing(s)

(* The loop over parsedContainers: missing containers are not in that map.    *)
Overall(s) ==
    IF s[Dataplane] = "HEALTHY" /\ \A n \in Present(s) : s[n] = "HEALTHY"
    THEN "HEALTHY" ELSE "UNHEALTHY"

(* snap outside syncChecks.                                                   *)
NoMeta == [n \in Names |-> "missing"]

(* Variant: a container absent from the metadata has not stopped.             *)
HasContainerStoppedFound == dpStopped /\ meta[Dataplane] # "missing"

HasContainerStopped == dpStopped \/ meta[Dataplane] = "missing"

Fault == faults < MaxFaults /\ faults' = faults + 1

(* The process ends, with an error or not, and its memory with it.            *)
Exit(failed) ==
    /\ pc' = "exited" /\ errs' = failed
    /\ snap' = NoMeta /\ cur' = [n \in Apps |-> ""] /\ todo' = {}
    /\ shuttingDown' = FALSE /\ critErr' = FALSE
    /\ sigs' = FALSE /\ monitor' = "off"
    /\ clientOK' = TRUE /\ switch' = FALSE

Init ==
    /\ meta \in [Names -> Containers]
    /\ dpStopped = FALSE
    /\ snap = NoMeta
    /\ cur = [n \in Apps |-> ""]
    /\ check = [c \in Known |-> "critical"]
    /\ registered = IF IsGateway THEN {"service"} ELSE {"service", "proxy"}
    /\ loggedIn = LoginEnabled
    /\ pc = "start" /\ todo = {} /\ shuttingDown = FALSE
    /\ sigs = FALSE /\ sigterms = 0 /\ monitor = "off"
    /\ clientOK = TRUE /\ switch = FALSE
    /\ errs = FALSE /\ critErr = FALSE
    /\ faults = 0

-----------------------------------------------------------------------------
(* The task, ECS and the Consul servers.                                      *)

ContainerHealth(n, h) ==
    /\ pc # "exited"
    /\ meta[n] # h
    /\ meta' = [meta EXCEPT ![n] = h]
    /\ UNCHANGED << dpStopped, consul, pc, todo, loop, signals, client, faults >>

DataplaneStops ==
    /\ pc # "exited"
    /\ ~dpStopped
    /\ dpStopped' = TRUE
    /\ UNCHANGED << meta, consul, pc, todo, loop, signals, client, faults >>

(* Before the first Notify SIGTERM ends the process; afterwards it goes to    *)
(* each channel subscribed by then that has room.                             *)
Sigterm ==
    /\ pc # "exited"
    /\ sigterms < MaxSigterms
    /\ sigterms' = sigterms + 1
    /\ IF pc = "start"
         THEN Exit(TRUE)
         ELSE /\ sigs' = TRUE
              /\ monitor' = IF monitor = "armed" THEN "polling" ELSE monitor
              /\ UNCHANGED << pc, todo, loop, client >>
    /\ UNCHANGED << task, consul, faults >>

(* SIGKILL when the stop timeout expires.                                     *)
Kill ==
    /\ sigterms > 0
    /\ pc # "exited"
    /\ Exit(TRUE)
    /\ UNCHANGED << task, consul, sigterms, faults >>

(* The server the client talks to, or was to talk to, goes away; the watcher  *)
(* finds another.                                                             *)
ServerLost ==
    /\ pc # "exited"
    /\ ~switch
    /\ Fault
    /\ clientOK' = FALSE
    /\ switch' = TRUE
    /\ UNCHANGED << task, consul, pc, todo, loop, signals >>

-----------------------------------------------------------------------------
(* The dataplaneMonitor goroutine.                                            *)

(* Variant: the monitor does not wait for SIGTERM.                            *)
MonitorNotifyPolling ==
    /\ monitor = "off"
    /\ pc \notin {"start", "exited"}
    /\ monitor' = "polling"
    /\ UNCHANGED << task, consul, pc, todo, loop, sigs, sigterms, client, faults >>

MonitorNotify ==
    /\ monitor = "off"
    /\ pc \notin {"start", "exited"}
    /\ monitor' = "armed"
    /\ UNCHANGED << task, consul, pc, todo, loop, sigs, sigterms, client, faults >>

(* A failed metadata fetch, or a dataplane still running, waits a second more. *)
MonitorPoll ==
    /\ monitor = "polling"
    /\ pc # "exited"
    /\ HasContainerStopped
    /\ monitor' = "done"
    /\ UNCHANGED << task, consul, pc, todo, loop, sigs, sigterms, client, faults >>

-----------------------------------------------------------------------------
(* The start of realRun; any error ends the process.                          *)

Notify ==
    /\ pc = "start"
    /\ pc' = "notified"
    /\ UNCHANGED << task, consul, todo, loop, signals, client, faults >>

(* Metadata, the first server from the watcher and a client for it.           *)
Connect ==
    /\ pc = "notified"
    /\ \/ pc' = "fetchChecks" /\ UNCHANGED << todo, loop, sigs, monitor, client, faults >>
       \/ Exit(TRUE) /\ Fault
    /\ UNCHANGED << task, consul, sigterms >>

FetchHealthChecks ==
    /\ pc = "fetchChecks"
    /\ \/ /\ clientOK
          /\ pc' = "select"
          /\ UNCHANGED << todo, loop, sigs, monitor, client, faults >>
       \/ ~clientOK /\ Exit(TRUE) /\ UNCHANGED faults
       \/ Fault /\ Exit(TRUE)
    /\ UNCHANGED << task, consul, sigterms >>

-----------------------------------------------------------------------------
(* updateConsulHealthStatus.  ok is whether it returned nil.                  *)
Update(id, h, ok) ==
    IF ok
    THEN /\ id \in Known /\ clientOK
         /\ check' = [check EXCEPT ![id] = ToConsul(h)]
         /\ UNCHANGED faults
    ELSE IF id \in Known /\ clientOK
    THEN /\ Fault
         /\ \/ UNCHANGED check
            \/ LostReplies /\ check' = [check EXCEPT ![id] = ToConsul(h)]
    ELSE UNCHANGED << check, faults >>

(* Variant: the timer's branch does not look at shuttingDown.                 *)
SyncChecksAlways ==
    /\ pc = "select"
    /\ snap' = meta
    /\ todo' = IF Missing(meta) # {} THEN Missing(meta) ELSE Present(meta)
    /\ pc' = IF Missing(meta) # {} THEN "missing" ELSE "present"
    /\ UNCHANGED << task, consul, cur, shuttingDown, errs, critErr, signals, client, faults >>

(* syncChecks: the timer fires; a failed metadata fetch skips the round.      *)
SyncChecks ==
    /\ pc = "select"
    /\ ~shuttingDown
    /\ snap' = meta
    /\ todo' = IF Missing(meta) # {} THEN Missing(meta) ELSE Present(meta)
    /\ pc' = IF Missing(meta) # {} THEN "missing" ELSE "present"
    /\ UNCHANGED << task, consul, cur, shuttingDown, errs, critErr, signals, client, faults >>

(* Where the loop over the missing containers goes after the rest left.       *)
AfterMissing(left) ==
    /\ todo' = IF left # {} THEN left ELSE Present(snap)
    /\ pc' = IF left # {} THEN "missing"
             ELSE IF Present(snap) # {} THEN "present" ELSE "aggregate"

(* Variant: the cache keeps the status from before the container went missing. *)
MarkMissingUncached ==
    /\ pc = "missing"
    /\ \E n \in todo, ok \in BOOLEAN :
         /\ Update(n, "UNHEALTHY", ok)
         /\ IF ok /\ n = Dataplane /\ ~IsGateway
              THEN pc' = "missingProxy" /\ todo' = todo \ {n}
              ELSE AfterMissing(todo \ {n})
    /\ UNCHANGED << task, registered, loggedIn, loop, signals, client >>

MarkMissing ==
    /\ pc = "missing"
    /\ \E n \in todo, ok \in BOOLEAN :
         /\ Update(n, "UNHEALTHY", ok)
         /\ IF ok /\ n = Dataplane /\ ~IsGateway
              THEN pc' = "missingProxy" /\ todo' = todo \ {n}
              ELSE AfterMissing(todo \ {n})
         /\ cur' = IF ok /\ n \in Apps THEN [cur EXCEPT ![n] = "critical"] ELSE cur
    /\ UNCHANGED << task, registered, loggedIn, snap, shuttingDown, errs, critErr, signals,
                    client >>

MarkMissingProxy ==
    /\ pc = "missingProxy"
    /\ \E ok \in BOOLEAN : Update(Proxy, "UNHEALTHY", ok)
    /\ AfterMissing(todo)
    /\ UNCHANGED << task, registered, loggedIn, loop, signals, client >>

(* Variant: the cache is updated though the write failed.                     *)
SyncContainerOptimistic ==
    /\ pc = "present"
    /\ \E n \in todo :
         /\ IF n = Dataplane \/ snap[n] = cur[n] THEN UNCHANGED << cur, check, faults >>
            ELSE /\ \E ok \in BOOLEAN : Update(n, snap[n], ok)
                 /\ cur' = [cur EXCEPT ![n] = snap[n]]
         /\ todo' = todo \ {n}
         /\ pc' = IF todo = {n} THEN "aggregate" ELSE "present"
    /\ UNCHANGED << task, registered, loggedIn, snap, shuttingDown, errs, critErr, signals,
                    client >>

(* A container whose status is the cached one is not written, the dataplane   *)
(* never: its check gets the overall status below.                            *)
SyncContainer ==
    /\ pc = "present"
    /\ \E n \in todo :
         /\ IF n = Dataplane \/ snap[n] = cur[n]
            THEN UNCHANGED << cur, check, faults >>
            ELSE \E ok \in BOOLEAN :
                   /\ Update(n, snap[n], ok)
                   /\ cur' = IF ok THEN [cur EXCEPT ![n] = snap[n]] ELSE cur
         /\ todo' = todo \ {n}
         /\ pc' = IF todo = {n} THEN "aggregate" ELSE "present"
    /\ UNCHANGED << task, registered, loggedIn, snap, shuttingDown, errs, critErr, signals,
                    client >>

(* Variant: only the service's check gets the overall status.                 *)
AggregateServiceOnly ==
    /\ pc = "aggregate"
    /\ \E ok \in BOOLEAN : Update(Dataplane, Overall(snap), ok)
    /\ pc' = "select"
    /\ snap' = NoMeta
    /\ UNCHANGED << task, registered, loggedIn, cur, shuttingDown, errs, critErr, todo,
                    signals, client >>

(* handleHealthForDataplaneContainer with the overall status.                 *)
Aggregate ==
    /\ pc = "aggregate"
    /\ \E ok \in BOOLEAN :
         /\ Update(Dataplane, Overall(snap), ok)
         /\ IF ok /\ ~IsGateway
              THEN pc' = "aggregateProxy" /\ UNCHANGED snap
              ELSE pc' = "select" /\ snap' = NoMeta
    /\ UNCHANGED << task, registered, loggedIn, cur, shuttingDown, errs, critErr, todo,
                    signals, client >>

AggregateProxy ==
    /\ pc = "aggregateProxy"
    /\ \E ok \in BOOLEAN : Update(Proxy, Overall(snap), ok)
    /\ pc' = "select"
    /\ snap' = NoMeta
    /\ UNCHANGED << task, registered, loggedIn, cur, shuttingDown, errs, critErr, todo,
                    signals, client >>

-----------------------------------------------------------------------------
(* A new server from the watcher; setupConsulAPIClient may fail, which keeps  *)
(* the old client and belongs to the same fault.                              *)
SwitchServer ==
    /\ pc = "select"
    /\ switch
    /\ switch' = FALSE
    /\ clientOK' \in {TRUE, clientOK}
    /\ UNCHANGED << task, consul, pc, todo, loop, signals, faults >>

(* SIGTERM received: setChecksCritical.                                       *)
HandleSigterm ==
    /\ pc = "select"
    /\ sigs
    /\ sigs' = FALSE
    /\ shuttingDown' = TRUE
    /\ errs' = FALSE
    /\ todo' = Names
    /\ pc' = "critical"
    /\ UNCHANGED << task, consul, snap, cur, critErr, sigterms, monitor, client, faults >>

AfterCritical(left, ok) ==
    /\ todo' = left
    /\ errs' = (errs \/ ~ok)
    /\ pc' = IF left # {} THEN "critical" ELSE "select"
    /\ critErr' = IF left # {} THEN critErr ELSE errs'

(* Variant: the proxy's check of the dataplane is forgotten.                  *)
SetCheckCriticalServiceOnly ==
    /\ pc = "critical"
    /\ \E n \in todo, ok \in BOOLEAN :
         Update(n, "UNHEALTHY", ok) /\ AfterCritical(todo \ {n}, ok)
    /\ UNCHANGED << task, registered, loggedIn, snap, cur, shuttingDown, signals, client >>

SetCheckCritical ==
    /\ pc = "critical"
    /\ \E n \in todo, ok \in BOOLEAN :
         /\ Update(n, "UNHEALTHY", ok)
         /\ IF ok /\ n = Dataplane /\ ~IsGateway
              THEN /\ pc' = "criticalProxy" /\ todo' = todo \ {n}
                   /\ UNCHANGED << errs, critErr >>
              ELSE AfterCritical(todo \ {n}, ok)
    /\ UNCHANGED << task, registered, loggedIn, snap, cur, shuttingDown, signals, client >>

SetProxyCritical ==
    /\ pc = "criticalProxy"
    /\ \E ok \in BOOLEAN : Update(Proxy, "UNHEALTHY", ok) /\ AfterCritical(todo, ok)
    /\ UNCHANGED << task, registered, loggedIn, snap, cur, shuttingDown, signals, client >>

-----------------------------------------------------------------------------
(* The monitor is done: deregister and log out; errors are collected.         *)

HandleDone ==
    /\ pc = "select"
    /\ monitor = "done"
    /\ errs' = FALSE
    /\ pc' = "deregister"
    /\ UNCHANGED << task, consul, snap, cur, todo, shuttingDown, critErr, signals, client,
                    faults >>

AfterDeregister == IF LoginEnabled THEN "logout" ELSE "return"

(* deregisterConsulService; the service's checks go with it.                  *)
Removed(svc) ==
    /\ registered' = registered \ {svc}
    /\ check' = [c \in Known |-> IF (c = Proxy) <=> (svc = "proxy") THEN "gone" ELSE check[c]]

(* Variant: the error is dropped.                                             *)
DeregisterSilently(svc) ==
    \/ clientOK /\ Removed(svc) /\ UNCHANGED << errs, faults >>
    \/ ~clientOK /\ UNCHANGED << errs, registered, check, faults >>
    \/ Fault /\ UNCHANGED << errs, registered, check >>

Deregister(svc) ==
    \/ clientOK /\ Removed(svc) /\ UNCHANGED << errs, faults >>
    \/ ~clientOK /\ errs' = TRUE /\ UNCHANGED << registered, check, faults >>
    \/ /\ Fault /\ errs' = TRUE
       /\ \/ UNCHANGED << registered, check >>
          \/ LostReplies /\ clientOK /\ Removed(svc)

DeregisterService ==
    /\ pc = "deregister"
    /\ Deregister("service")
    /\ pc' = IF IsGateway THEN AfterDeregister ELSE "deregisterProxy"
    /\ UNCHANGED << task, loggedIn, snap, cur, todo, shuttingDown, critErr, signals, client >>

DeregisterProxy ==
    /\ pc = "deregisterProxy"
    /\ Deregister("proxy")
    /\ pc' = AfterDeregister
    /\ UNCHANGED << task, loggedIn, snap, cur, todo, shuttingDown, critErr, signals, client >>

Logout ==
    /\ pc = "logout"
    /\ pc' = "return"
    /\ \/ clientOK /\ loggedIn' = FALSE /\ UNCHANGED << errs, faults >>
       \/ ~clientOK /\ errs' = TRUE /\ UNCHANGED << loggedIn, faults >>
       \/ /\ Fault /\ errs' = TRUE
          /\ \/ UNCHANGED loggedIn
             \/ LostReplies /\ clientOK /\ loggedIn' = FALSE
    /\ UNCHANGED << task, check, registered, snap, cur, todo, shuttingDown, critErr, signals,
                    client >>

Return ==
    /\ pc = "return"
    /\ Exit(errs)
    /\ UNCHANGED << task, consul, sigterms, faults >>

Environment ==
    \/ \E n \in Names, h \in Containers : ContainerHealth(n, h)
    \/ DataplaneStops \/ Sigterm \/ Kill \/ ServerLost

Start == Notify \/ Connect \/ FetchHealthChecks

Sync ==
    \/ MarkMissing \/ MarkMissingProxy \/ SyncContainer \/ Aggregate \/ AggregateProxy

Shutdown ==
    \/ SetCheckCritical \/ SetProxyCritical \/ DeregisterService \/ DeregisterProxy
    \/ Logout \/ Return

Next ==
    \/ Environment
    \/ MonitorNotify \/ MonitorPoll
    \/ Start \/ SyncChecks \/ Sync \/ SwitchServer \/ HandleSigterm \/ HandleDone
    \/ Shutdown

Spec == Init /\ [][Next]_vars

(* The goroutines run and every call returns; select takes a branch that is   *)
(* ready again and again; ECS stops the dataplane container after SIGTERM.    *)
Fairness ==
    /\ WF_vars(Start) /\ WF_vars(Sync) /\ WF_vars(Shutdown)
    /\ SF_vars(SyncChecks) /\ SF_vars(SwitchServer)
    /\ SF_vars(HandleSigterm) /\ SF_vars(HandleDone)
    /\ WF_vars(MonitorNotify) /\ WF_vars(MonitorPoll)
    /\ WF_vars(sigterms > 0 /\ DataplaneStops)

FairSpec == Spec /\ Fairness

-----------------------------------------------------------------------------
(* Properties.                                                                *)

TypeOK ==
    /\ meta \in [Names -> Containers] /\ dpStopped \in BOOLEAN
    /\ snap \in [Names -> Containers]
    /\ cur \in [Apps -> Cached]
    /\ check \in [Known -> {"passing", "critical", "gone"}]
    /\ registered \subseteq {"service", "proxy"}
    /\ loggedIn \in BOOLEAN
    /\ pc \in PCs
    /\ todo \subseteq Names /\ (pc = "present" => todo \subseteq Present(snap))
    /\ shuttingDown \in BOOLEAN /\ sigs \in BOOLEAN
    /\ sigterms \in 0..MaxSigterms
    /\ monitor \in {"off", "armed", "polling", "done"}
    /\ clientOK \in BOOLEAN /\ switch \in BOOLEAN
    /\ errs \in BOOLEAN /\ critErr \in BOOLEAN
    /\ faults \in 0..MaxFaults

(* The status cache, which decides what syncChecks leaves out, says what the  *)
(* catalog holds, as long as a failed write did not take effect: an omitted   *)
(* write would have changed nothing.                                          *)
CacheCoherent ==
    ~LostReplies /\ ~shuttingDown /\ pc # "exited" =>
        \A n \in Apps \cap Known : check[n] \in {ToConsul(cur[n]), "gone"}

(* When setChecksCritical has reported no error, every check is critical      *)
(* until its service is deregistered.                                         *)
DrainedBeforeDeregistration ==
    shuttingDown /\ pc \notin {"critical", "criticalProxy"} /\ ~critErr =>
        \A c \in Known : check[c] # "passing"

TurnsPassing(c) == check[c] # "passing" /\ check'[c] = "passing"

HealthySnap == snap[Dataplane] = "HEALTHY" /\ \A n \in Present(snap) : snap[n] = "HEALTHY"

(* A check sends traffic to the task only on what the metadata of the running *)
(* round shows: a container's own check when that container is healthy, the   *)
(* checks of the service and of its sidecar proxy when the dataplane and      *)
(* every other listed container are.  Once SIGTERM is being handled none does *)
(* any more, whatever the timer, the watcher or a second SIGTERM do, and none *)
(* comes back that is gone with its service: traffic is drained for good.     *)
PassesOnHealthy ==
    [][\A c \in Known : TurnsPassing(c) =>
         /\ ~shuttingDown /\ check[c] = "critical"
         /\ c \in Apps => snap[c] = "HEALTHY"
         /\ c \notin Apps => HealthySnap]_vars

-----------------------------------------------------------------------------
(* What health-sync promises whoever reads the catalog.                       *)

ReportPCs == {"missing", "missingProxy", "present", "aggregate", "aggregateProxy"}
DrainPCs == {"critical", "criticalProxy"}
LeavePCs == {"deregister", "deregisterProxy", "logout", "return"}

Stage ==
    CASE pc = "exited" -> IF errs THEN "failed" ELSE "clean"
      [] pc \in LeavePCs -> "leaving"
      [] pc \in DrainPCs -> "draining"
      [] OTHER -> IF shuttingDown THEN "waiting" ELSE "reporting"

Reporter == INSTANCE HealthReporter WITH
    Sidecar <- Proxy,
    Checks <- Known,
    Vitals <- Containers,
    vital <- meta, stopped <- dpStopped,
    seen <- IF pc \in ReportPCs THEN {snap} ELSE {},
    board <- check, listed <- registered, held <- loggedIn,
    stage <- Stage,
    term <- sigterms > 0,
    released <- monitor = "done",
    drained <- shuttingDown /\ pc \notin DrainPCs /\ ~critErr

(* The loop implements the promise of HealthReporter.  Whatever the timer,    *)
(* the cache, lost servers and failed calls do, a check is only written with  *)
(* what one look at the metadata showed of it; reports end with SIGTERM; the  *)
(* services leave the catalog after the dataplane has ended; and health-sync  *)
(* exits without an error only when nothing of the task is left in Consul.    *)
Reports == Reporter!ReporterSpec

-----------------------------------------------------------------------------
(* What TaskReconciler assumes of a task, with this health-sync in it: SIGTERM *)
(* is ECS asking the task to stop.                                            *)

SelfTask == "task"
SelfToken == "token"
SelfServices == {"service", "proxy"}

Catalog == INSTANCE TaskReconciler WITH
    Tasks <- {SelfTask},
    OtherIds <- {},
    Tokens <- {SelfToken},
    TokenTask <- [k \in {SelfToken} |-> SelfTask],
    TokenInCluster <- [k \in {SelfToken} |-> TRUE],
    TokenNS <- [k \in {SelfToken} |-> "default"],
    Services <- SelfServices,
    ServiceTask <- [s \in SelfServices |-> SelfTask],
    Namespaces <- {"default"},
    DefaultNamespace <- "default",
    Partition <- "",
    MeshTag <- [t \in {SelfTask} |-> TRUE],
    PartitionTag <- [t \in {SelfTask} |-> ""],
    NamespaceTag <- [t \in {SelfTask} |-> ""],
    NoTask <- "",
    MaxFaults <- 0,
    status <- [t \in {SelfTask} |-> IF sigterms = 0 THEN "running" ELSE "stopping"],
    tokens <- IF loggedIn THEN {SelfToken} ELSE {},
    services <- registered,
    made <- {SelfToken} \cup SelfServices,
    namespaces <- {"default"},
    nsPolicies <- {},
    xnsPolicy <- FALSE,
    pc <- "sleep",
    unlisted <- {}, page <- {}, found <- {}, nsTodo <- {},
    seenTokens <- {}, seenServices <- {}, resources <- {},
    cur <- "", curTokens <- {}, curServices <- {},
    merr <- FALSE,
    established <- IF sigterms = 0 THEN {SelfTask} ELSE {}, gone <- {},
    faults <- 0

(* Every step of health-sync is, for Consul and ECS, one the controller's     *)
(* model lets a task take: it takes its services and its token away one at a  *)
(* time, only once ECS has asked the task to stop, so that a task ECS lists   *)
(* is never half gone.                                                        *)
ActsAsTask ==
    [][Catalog!Task(SelfTask)]_<< registered, loggedIn, sigterms = 0 >>

Syncing == pc \notin {"start", "exited"} /\ ~shuttingDown /\ clientOK

(* A container's health that stays the same ends up in its check, and so does *)
(* the overall health in the checks of the dataplane, after finitely many     *)
(* failed calls.                                                              *)
HealthSynced ==
    \A n \in Apps \cap Known, h \in Containers :
        <>[](Syncing /\ meta[n] = h) => <>[](check[n] = ToConsul(h))

OverallSynced ==
    \A h \in {"HEALTHY", "UNHEALTHY"} :
        <>[](Syncing /\ Overall(meta) = h) =>
            <>[](\A c \in Known \ Apps : check[c] = ToConsul(h))

(* A SIGTERM that reaches the monitor ends health-sync by itself: the monitor *)
(* sees the dataplane stop and the loop takes its signal, though calls fail.  *)
SigtermEnds == monitor = "polling" ~> pc = "exited"

(* The comment on the monitor's run (dataplane_monitor.go:37): "Run will wake *)
(* up when SIGTERM is received", after which health-sync terminates.          *)
AnySigtermEnds == sigterms > 0 ~> pc = "exited"

=============================================================================
