-------------------------- MODULE HealthSyncProofs --------------------------
(* Proofs about HealthSync, for every set of containers and of ECS statuses,  *)
(* gateways and services, with and without lost replies, and every number of  *)
(* failed calls and SIGTERMs.                                                 *)
EXTENDS HealthSync, TLAPS

LEMMA Constants ==
    /\ Dataplane \notin Apps /\ Proxy \notin Names
    /\ Apps \subseteq Names /\ Dataplane \in Names
    /\ Known \subseteq CheckIds /\ Names \subseteq CheckIds
    /\ IsGateway \in BOOLEAN /\ LoginEnabled \in BOOLEAN /\ LostReplies \in BOOLEAN
BY HealthSyncAssumption DEF HealthSyncAssumption, Names, CheckIds, Known

LEMMA Bounds == MaxFaults \in Nat /\ MaxSigterms \in Nat
BY HealthSyncAssumption DEF HealthSyncAssumption

-----------------------------------------------------------------------------
(* Type correctness.                                                          *)

LEMMA ToConsulType == \A h : ToConsul(h) \in {"passing", "critical"}
BY DEF ToConsul

LEMMA NoMetaType == NoMeta \in [Names -> Containers]
BY DEF NoMeta, Containers

LEMMA InitTypeOK == Init => TypeOK
<1> SUFFICES ASSUME Init PROVE TypeOK
    OBVIOUS
<1>1. faults \in 0..MaxFaults /\ sigterms \in 0..MaxSigterms
    <2>1. faults = 0 /\ sigterms = 0
        BY DEF Init
    <2> QED
        BY <2>1, Bounds
<1>2. cur \in [Apps -> Cached] /\ check \in [Known -> {"passing", "critical", "gone"}]
    BY DEF Init, Cached
<1>3. registered \subseteq {"service", "proxy"} /\ loggedIn \in BOOLEAN
    BY Constants DEF Init
<1> QED
    BY <1>1, <1>2, <1>3, NoMetaType DEF Init, TypeOK, PCs

LEMMA FaultTypeOK ==
    ASSUME faults \in 0..MaxFaults, Fault
    PROVE  faults' \in 0..MaxFaults
BY Bounds DEF Fault

(* The end of the process leaves the Consul state, the task and the counters. *)
LEMMA ExitTypeOK ==
    ASSUME TypeOK, NEW failed \in BOOLEAN, Exit(failed),
           UNCHANGED << task, consul >>,
           sigterms' \in 0..MaxSigterms, faults' \in 0..MaxFaults
    PROVE  TypeOK'
<1>1. cur' \in [Apps -> Cached]
    BY DEF Exit, Cached
<1>2. UNCHANGED << meta, dpStopped, check, registered, loggedIn >>
    BY DEF task, consul
<1> QED
    BY <1>1, <1>2, NoMetaType DEF Exit, TypeOK, PCs

LEMMA UpdateType ==
    ASSUME TypeOK, NEW id, NEW h, NEW ok, Update(id, h, ok)
    PROVE  /\ check' \in [Known -> {"passing", "critical", "gone"}]
           /\ faults' \in 0..MaxFaults
BY ToConsulType, FaultTypeOK DEF Update, TypeOK

LEMMA EnvironmentTypeOK ==
    ASSUME TypeOK, Environment
    PROVE  TypeOK'
<1> USE Constants DEF task, consul, signals, client, loop
<1>1. ASSUME NEW n \in Names, NEW h \in Containers, ContainerHealth(n, h)
      PROVE  TypeOK'
    BY <1>1 DEF ContainerHealth, TypeOK, Present, Missing
<1>2. CASE DataplaneStops
    BY <1>2 DEF DataplaneStops, TypeOK, Present, Missing
<1>3. CASE Sigterm
    <2>1. sigterms' \in 0..MaxSigterms
        BY <1>3, Bounds DEF Sigterm, TypeOK
    <2>2. CASE pc = "start"
        BY <1>3, <2>1, <2>2, ExitTypeOK DEF Sigterm, TypeOK
    <2>3. CASE pc # "start"
        BY <1>3, <2>1, <2>3 DEF Sigterm, TypeOK, Present, Missing
    <2> QED
        BY <2>2, <2>3
<1>4. CASE Kill
    BY <1>4, ExitTypeOK DEF Kill, TypeOK
<1>5. CASE ServerLost
    BY <1>5, FaultTypeOK DEF ServerLost, TypeOK, Present, Missing
<1> QED
    BY <1>1, <1>2, <1>3, <1>4, <1>5 DEF Environment

LEMMA StartTypeOK ==
    ASSUME TypeOK, Start
    PROVE  TypeOK'
<1> USE DEF task, consul, signals, client, loop
<1>1. CASE Notify
    BY <1>1 DEF Notify, TypeOK, PCs
<1>2. CASE Connect
    <2>1. CASE Exit(TRUE) /\ Fault
        BY <1>2, <2>1, ExitTypeOK, FaultTypeOK DEF Connect, TypeOK
    <2>2. CASE ~(Exit(TRUE) /\ Fault)
        BY <1>2, <2>2 DEF Connect, TypeOK, PCs
    <2> QED
        BY <2>1, <2>2
<1>3. CASE FetchHealthChecks
    <2>1. CASE Exit(TRUE)
        <3>1. faults' \in 0..MaxFaults
            BY <1>3, FaultTypeOK DEF FetchHealthChecks, TypeOK
        <3> QED
            BY <1>3, <2>1, <3>1, ExitTypeOK DEF FetchHealthChecks, TypeOK
    <2>2. CASE ~Exit(TRUE)
        BY <1>3, <2>2 DEF FetchHealthChecks, TypeOK, PCs
    <2> QED
        BY <2>1, <2>2
<1> QED
    BY <1>1, <1>2, <1>3 DEF Start

(* What AfterMissing and AfterCritical leave in todo and pc.                  *)
LEMMA AfterMissingType ==
    ASSUME NEW left \in SUBSET Names, AfterMissing(left)
    PROVE  /\ todo' \subseteq Names
           /\ pc' \in {"missing", "present", "aggregate"}
           /\ pc' = "present" => todo' = Present(snap)
BY DEF AfterMissing, Present

LEMMA SyncTypeOK ==
    ASSUME TypeOK, SyncChecks \/ Sync
    PROVE  TypeOK'
<1> USE DEF task, consul, signals, client, loop
<1>1. CASE SyncChecks
    BY <1>1 DEF SyncChecks, TypeOK, PCs, Missing, Present
<1>2. CASE MarkMissing
    <2> PICK n \in todo, ok \in BOOLEAN :
            /\ Update(n, "UNHEALTHY", ok)
            /\ IF ok /\ n = Dataplane /\ ~IsGateway
                 THEN pc' = "missingProxy" /\ todo' = todo \ {n}
                 ELSE AfterMissing(todo \ {n})
            /\ cur' = IF ok /\ n \in Apps THEN [cur EXCEPT ![n] = "critical"] ELSE cur
        BY <1>2 DEF MarkMissing
    <2>1. cur' \in [Apps -> Cached]
        BY DEF TypeOK, Cached
    <2>2. todo' \subseteq Names /\ pc' \in PCs /\ (pc' = "present" => todo' = Present(snap))
        BY AfterMissingType DEF TypeOK, PCs
    <2> QED
        BY <1>2, <2>1, <2>2, UpdateType DEF MarkMissing, TypeOK, Present, Missing
<1>3. CASE MarkMissingProxy
    BY <1>3, UpdateType, AfterMissingType
       DEF MarkMissingProxy, TypeOK, PCs, Present, Missing
<1>4. CASE SyncContainer
    <2> PICK n \in todo :
            /\ IF n = Dataplane \/ snap[n] = cur[n]
                 THEN UNCHANGED << cur, check, faults >>
                 ELSE \E ok \in BOOLEAN :
                        /\ Update(n, snap[n], ok)
                        /\ cur' = IF ok THEN [cur EXCEPT ![n] = snap[n]] ELSE cur
            /\ todo' = todo \ {n}
            /\ pc' = IF todo = {n} THEN "aggregate" ELSE "present"
        BY <1>4 DEF SyncContainer
    <2>1. CASE n = Dataplane \/ snap[n] = cur[n]
        BY <1>4, <2>1 DEF SyncContainer, TypeOK, PCs, Present, Missing
    <2>2. CASE ~(n = Dataplane \/ snap[n] = cur[n])
        <3> PICK ok \in BOOLEAN :
                /\ Update(n, snap[n], ok)
                /\ cur' = IF ok THEN [cur EXCEPT ![n] = snap[n]] ELSE cur
            BY <2>2
        <3>1. check' \in [Known -> {"passing", "critical", "gone"}] /\ faults' \in 0..MaxFaults
            BY UpdateType
        <3>2. snap[n] \in Cached
            BY <1>4 DEF TypeOK, SyncContainer, Containers, Cached, Present, Missing
        <3>3. cur' \in [Apps -> Cached]
            BY <3>2 DEF TypeOK
        <3> QED
            BY <1>4, <3>1, <3>3 DEF SyncContainer, TypeOK, PCs, Present, Missing
    <2> QED
        BY <2>1, <2>2
<1>5. CASE Aggregate
    BY <1>5, UpdateType, NoMetaType DEF Aggregate, TypeOK, PCs
<1>6. CASE AggregateProxy
    BY <1>6, UpdateType, NoMetaType DEF AggregateProxy, TypeOK, PCs
<1> QED
    BY <1>1, <1>2, <1>3, <1>4, <1>5, <1>6 DEF Sync

LEMMA AfterCriticalType ==
    ASSUME TypeOK, NEW left \in SUBSET Names, NEW ok \in BOOLEAN, AfterCritical(left, ok)
    PROVE  /\ todo' \subseteq Names
           /\ pc' \in {"critical", "select"}
           /\ errs' \in BOOLEAN /\ critErr' \in BOOLEAN
BY DEF AfterCritical, TypeOK

LEMMA DeregisterType ==
    ASSUME TypeOK, NEW svc, Deregister(svc)
    PROVE  /\ check' \in [Known -> {"passing", "critical", "gone"}]
           /\ registered' \subseteq {"service", "proxy"}
           /\ errs' \in BOOLEAN
           /\ faults' \in 0..MaxFaults
<1>1. ASSUME Removed(svc)
      PROVE  /\ check' \in [Known -> {"passing", "critical", "gone"}]
             /\ registered' \subseteq {"service", "proxy"}
    BY <1>1 DEF Removed, TypeOK
<1> QED
    BY <1>1, FaultTypeOK DEF Deregister, TypeOK

LEMMA ShutdownTypeOK ==
    ASSUME TypeOK, SwitchServer \/ HandleSigterm \/ HandleDone \/ Shutdown
    PROVE  TypeOK'
<1> USE DEF task, consul, signals, client, loop
<1>1. CASE SwitchServer
    BY <1>1, FaultTypeOK DEF SwitchServer, TypeOK
<1>2. CASE HandleSigterm
    BY <1>2 DEF HandleSigterm, TypeOK, PCs
<1>3. CASE HandleDone
    BY <1>3 DEF HandleDone, TypeOK, PCs
<1>4. CASE SetCheckCritical
    <2> PICK n \in todo, ok \in BOOLEAN :
            /\ Update(n, "UNHEALTHY", ok)
            /\ IF ok /\ n = Dataplane /\ ~IsGateway
                 THEN /\ pc' = "criticalProxy" /\ todo' = todo \ {n}
                      /\ UNCHANGED << errs, critErr >>
                 ELSE AfterCritical(todo \ {n}, ok)
        BY <1>4 DEF SetCheckCritical
    <2>1. /\ todo' \subseteq Names /\ pc' \in PCs \ {"present"}
          /\ errs' \in BOOLEAN /\ critErr' \in BOOLEAN
        BY AfterCriticalType DEF TypeOK, PCs
    <2> QED
        BY <1>4, <2>1, UpdateType DEF SetCheckCritical, TypeOK
<1>5. CASE SetProxyCritical
    BY <1>5, UpdateType, AfterCriticalType DEF SetProxyCritical, TypeOK, PCs
<1>6. CASE DeregisterService
    BY <1>6, DeregisterType DEF DeregisterService, AfterDeregister, TypeOK, PCs
<1>7. CASE DeregisterProxy
    BY <1>7, DeregisterType DEF DeregisterProxy, AfterDeregister, TypeOK, PCs
<1>8. CASE Logout
    BY <1>8, FaultTypeOK DEF Logout, TypeOK, PCs
<1>9. CASE Return
    BY <1>9, ExitTypeOK DEF Return, TypeOK
<1> QED
    BY <1>1, <1>2, <1>3, <1>4, <1>5, <1>6, <1>7, <1>8, <1>9 DEF Shutdown

LEMMA NextTypeOK == TypeOK /\ [Next]_vars => TypeOK'
<1> SUFFICES ASSUME TypeOK, [Next]_vars PROVE TypeOK'
    OBVIOUS
<1>1. CASE MonitorNotify
    BY <1>1 DEF MonitorNotify, TypeOK, Present, Missing, task, consul, client, loop
<1>2. CASE MonitorPoll
    BY <1>2 DEF MonitorPoll, TypeOK, Present, Missing, task, consul, client, loop
<1>3. CASE UNCHANGED vars
    BY <1>3 DEF vars, TypeOK, Present, Missing
<1> QED
    BY <1>1, <1>2, <1>3, EnvironmentTypeOK, StartTypeOK, SyncTypeOK, ShutdownTypeOK DEF Next

(* Every variable keeps its type, and syncChecks only compares containers     *)
(* that its metadata contains with the status cache.                          *)
THEOREM TypeCorrect == Spec => []TypeOK
BY InitTypeOK, NextTypeOK, PTL DEF Spec

-----------------------------------------------------------------------------
(* Phases: after SIGTERM has been taken realRun neither syncs nor starts.     *)

Phases ==
    /\ pc \in {"critical", "criticalProxy"} => shuttingDown
    /\ shuttingDown => pc \in {"select", "critical", "criticalProxy", "deregister",
                               "deregisterProxy", "logout", "return"}

LEMMA InitPhases == Init => Phases
BY DEF Init, Phases

LEMMA NextPhases ==
    ASSUME TypeOK, Phases, [Next]_vars
    PROVE  Phases'
<1> USE DEF Phases, task, consul, signals, client, loop
<1>1. CASE Environment
    <2>1. CASE Exit(TRUE)
        BY <2>1 DEF Exit
    <2>2. CASE ~Exit(TRUE)
        <3>1. pc' = pc /\ shuttingDown' = shuttingDown
            BY <1>1, <2>2 DEF Environment, ContainerHealth, DataplaneStops, Sigterm, Kill,
                              ServerLost
        <3> QED
            BY <3>1
    <2> QED
        BY <2>1, <2>2
<1>2. CASE MonitorNotify \/ MonitorPoll
    BY <1>2 DEF MonitorNotify, MonitorPoll
<1>3. CASE Start
    <2>1. CASE Notify
        BY <2>1 DEF Notify
    <2>2. CASE Connect
        <3>1. CASE Exit(TRUE) /\ Fault
            BY <3>1 DEF Exit
        <3>2. CASE ~(Exit(TRUE) /\ Fault)
            <4>1. pc = "notified" /\ UNCHANGED loop
                BY <2>2, <3>2 DEF Connect
            <4>2. pc' = "fetchChecks"
                BY <2>2, <3>2 DEF Connect
            <4> QED
                BY <4>1, <4>2
        <3> QED
            BY <3>1, <3>2
    <2>3. CASE FetchHealthChecks
        BY <2>3 DEF FetchHealthChecks, Exit
    <2> QED
        BY <1>3, <2>1, <2>2, <2>3 DEF Start
<1>4. CASE SyncChecks \/ Sync
    BY <1>4 DEF SyncChecks, Sync, MarkMissing, MarkMissingProxy, SyncContainer, Aggregate,
                AggregateProxy, AfterMissing
<1>5. CASE SwitchServer \/ HandleSigterm \/ HandleDone
    BY <1>5 DEF SwitchServer, HandleSigterm, HandleDone
<1>6. CASE Shutdown
    BY <1>6 DEF Shutdown, SetCheckCritical, SetProxyCritical, DeregisterService,
                DeregisterProxy, Logout, Return, AfterCritical, AfterDeregister, Exit
<1>7. CASE UNCHANGED vars
    BY <1>7 DEF vars
<1> QED
    BY <1>1, <1>2, <1>3, <1>4, <1>5, <1>6, <1>7 DEF Next

-----------------------------------------------------------------------------
(* CacheCoherent.                                                             *)

LEMMA InitCacheCoherent == Init => CacheCoherent
BY DEF Init, CacheCoherent, ToConsul

(* A write of another check, or of none, and an unchanged cache.              *)
LEMMA OtherWriteCoherent ==
    ASSUME CacheCoherent, cur' = cur, pc # "exited", ~shuttingDown,
           \A n \in Apps \cap Known : check'[n] = check[n]
    PROVE  CacheCoherent'
BY DEF CacheCoherent

LEMMA UpdateOther ==
    ASSUME TypeOK, NEW id, NEW h, NEW ok, Update(id, h, ok), NEW c \in Known, c # id
    PROVE  check'[c] = check[c]
BY DEF Update, TypeOK

LEMMA UpdateSelf ==
    ASSUME TypeOK, NEW id \in Known, NEW h, NEW ok \in BOOLEAN, Update(id, h, ok)
    PROVE  /\ ok => check'[id] = ToConsul(h)
           /\ check'[id] \in {check[id], ToConsul(h)}
           /\ ~ok /\ ~LostReplies => check' = check
BY DEF Update, TypeOK

LEMMA SyncCacheCoherent ==
    ASSUME TypeOK, CacheCoherent, Sync, ~LostReplies, ~shuttingDown
    PROVE  CacheCoherent'
<1> USE Constants DEF loop
<1>1. pc # "exited"
    BY DEF Sync, MarkMissing, MarkMissingProxy, SyncContainer, Aggregate, AggregateProxy
<1>2. CASE MarkMissing
    <2> PICK n \in todo, ok \in BOOLEAN :
            /\ Update(n, "UNHEALTHY", ok)
            /\ cur' = IF ok /\ n \in Apps THEN [cur EXCEPT ![n] = "critical"] ELSE cur
        BY <1>2 DEF MarkMissing
    <2>1. ASSUME NEW c \in Apps \cap Known, c = n
          PROVE  check'[c] \in {ToConsul(cur'[c]), "gone"}
        BY <1>1, <2>1, UpdateSelf DEF CacheCoherent, ToConsul, TypeOK
    <2>2. ASSUME NEW c \in Apps \cap Known, c # n
          PROVE  check'[c] \in {ToConsul(cur'[c]), "gone"}
        BY <1>1, <2>2, UpdateOther DEF CacheCoherent, TypeOK
    <2> QED
        BY <2>1, <2>2 DEF CacheCoherent
<1>3. CASE MarkMissingProxy
    BY <1>1, <1>3, UpdateOther, OtherWriteCoherent DEF MarkMissingProxy, Names
<1>4. CASE SyncContainer
    <2> PICK n \in todo :
            IF n = Dataplane \/ snap[n] = cur[n]
            THEN UNCHANGED << cur, check, faults >>
            ELSE \E ok \in BOOLEAN :
                   /\ Update(n, snap[n], ok)
                   /\ cur' = IF ok THEN [cur EXCEPT ![n] = snap[n]] ELSE cur
        BY <1>4 DEF SyncContainer
    <2>1. CASE n = Dataplane \/ snap[n] = cur[n]
        BY <1>1, <2>1 DEF CacheCoherent
    <2>2. CASE ~(n = Dataplane \/ snap[n] = cur[n])
        <3> PICK ok \in BOOLEAN :
                /\ Update(n, snap[n], ok)
                /\ cur' = IF ok THEN [cur EXCEPT ![n] = snap[n]] ELSE cur
            BY <2>2
        <3>1. ASSUME NEW c \in Apps \cap Known, c = n
              PROVE  check'[c] \in {ToConsul(cur'[c]), "gone"}
            BY <1>1, <3>1, UpdateSelf DEF CacheCoherent, TypeOK
        <3>2. ASSUME NEW c \in Apps \cap Known, c # n
              PROVE  check'[c] \in {ToConsul(cur'[c]), "gone"}
            BY <1>1, <3>2, UpdateOther DEF CacheCoherent, TypeOK
        <3> QED
            BY <3>1, <3>2 DEF CacheCoherent
    <2> QED
        BY <2>1, <2>2
<1>5. CASE Aggregate
    BY <1>1, <1>5, UpdateOther, OtherWriteCoherent DEF Aggregate
<1>6. CASE AggregateProxy
    BY <1>1, <1>6, UpdateOther, OtherWriteCoherent DEF AggregateProxy, Names
<1> QED
    BY <1>2, <1>3, <1>4, <1>5, <1>6 DEF Sync

LEMMA NextCacheCoherent ==
    ASSUME TypeOK, Phases, CacheCoherent, [Next]_vars
    PROVE  CacheCoherent'
<1> USE DEF task, consul, signals, client, loop
<1>0. SUFFICES ASSUME ~LostReplies PROVE CacheCoherent'
    BY DEF CacheCoherent
<1>1. CASE Environment
    BY <1>1 DEF Environment, ContainerHealth, DataplaneStops, Sigterm, Kill, ServerLost, Exit,
                CacheCoherent
<1>2. CASE MonitorNotify \/ MonitorPoll
    BY <1>2 DEF MonitorNotify, MonitorPoll, CacheCoherent
<1>3. CASE Start
    BY <1>3 DEF Start, Notify, Connect, FetchHealthChecks, Exit, CacheCoherent
<1>4. CASE SyncChecks \/ SwitchServer \/ HandleSigterm \/ HandleDone
    BY <1>4 DEF SyncChecks, SwitchServer, HandleSigterm, HandleDone, CacheCoherent
<1>5. CASE Sync
    <2>1. CASE shuttingDown
        BY <1>5, <2>1 DEF Sync, MarkMissing, MarkMissingProxy, SyncContainer, Aggregate,
                          AggregateProxy, Phases
    <2>2. CASE ~shuttingDown
        BY <1>0, <1>5, <2>2, SyncCacheCoherent
    <2> QED
        BY <2>1, <2>2
<1>6. CASE SetCheckCritical \/ SetProxyCritical
    BY <1>6 DEF SetCheckCritical, SetProxyCritical, Phases, CacheCoherent
<1>7. CASE DeregisterService \/ DeregisterProxy
    BY <1>7 DEF DeregisterService, DeregisterProxy, Deregister, Removed, CacheCoherent
<1>8. CASE Logout \/ Return
    BY <1>8 DEF Logout, Return, Exit, CacheCoherent
<1>9. CASE UNCHANGED vars
    BY <1>9 DEF vars, CacheCoherent
<1> QED
    BY <1>1, <1>2, <1>3, <1>4, <1>5, <1>6, <1>7, <1>8, <1>9 DEF Next, Shutdown

(* Until SIGTERM is taken, the catalog holds what the status cache says of    *)
(* every application container, if failed writes take no effect.              *)
THEOREM CacheIsCoherent == Spec => []CacheCoherent
<1>1. Init => TypeOK /\ Phases /\ CacheCoherent
    BY InitTypeOK, InitPhases, InitCacheCoherent
<1>2. TypeOK /\ Phases /\ CacheCoherent /\ [Next]_vars => (TypeOK /\ Phases /\ CacheCoherent)'
    BY NextTypeOK, NextPhases, NextCacheCoherent
<1> QED
    BY <1>1, <1>2, PTL DEF Spec

-----------------------------------------------------------------------------
(* Draining is for good: no check turns passing once SIGTERM is handled.      *)

LEMMA UpdateUnhealthy ==
    ASSUME TypeOK, NEW id, NEW ok \in BOOLEAN, Update(id, "UNHEALTHY", ok), NEW c \in Known
    PROVE  /\ check[c] # "passing" => check'[c] # "passing"
           /\ ok => id \in Known /\ check'[id] = "critical"
BY DEF Update, TypeOK, ToConsul

LEMMA DeregisterNotPassing ==
    ASSUME TypeOK, NEW svc, Deregister(svc), NEW c \in Known, check[c] # "passing"
    PROVE  check'[c] # "passing"
BY DEF Deregister, Removed, TypeOK

LEMMA NextNeverPassing ==
    ASSUME TypeOK, Phases, [Next]_vars, shuttingDown, NEW c \in Known, check[c] # "passing"
    PROVE  check'[c] # "passing"
<1> USE DEF task, consul, signals, client, loop
<1>1. CASE Environment
    BY <1>1 DEF Environment, ContainerHealth, DataplaneStops, Sigterm, Kill, ServerLost
<1>2. CASE MonitorNotify \/ MonitorPoll \/ Start
    BY <1>2 DEF MonitorNotify, MonitorPoll, Start, Notify, Connect, FetchHealthChecks
<1>3. CASE SyncChecks \/ SwitchServer \/ HandleSigterm \/ HandleDone
    BY <1>3 DEF SyncChecks, SwitchServer, HandleSigterm, HandleDone
<1>4. CASE Sync
    BY <1>4 DEF Sync, MarkMissing, MarkMissingProxy, SyncContainer, Aggregate, AggregateProxy,
                Phases
<1>5. CASE SetCheckCritical \/ SetProxyCritical
    BY <1>5, UpdateUnhealthy DEF SetCheckCritical, SetProxyCritical
<1>6. CASE DeregisterService \/ DeregisterProxy
    BY <1>6, DeregisterNotPassing DEF DeregisterService, DeregisterProxy
<1>7. CASE Logout \/ Return
    BY <1>7 DEF Logout, Return
<1>8. CASE UNCHANGED vars
    BY <1>8 DEF vars
<1> QED
    BY <1>1, <1>2, <1>3, <1>4, <1>5, <1>6, <1>7, <1>8 DEF Next, Shutdown

-----------------------------------------------------------------------------
(* DrainedBeforeDeregistration: while setChecksCritical runs without error,   *)
(* a check that still passes has its container ahead of the loop.             *)

Ahead(c, left) == c \in left \/ (c = Proxy /\ Dataplane \in left)

Draining ==
    /\ pc = "critical" /\ ~errs =>
         \A c \in Known : check[c] = "passing" => Ahead(c, todo)
    /\ pc = "criticalProxy" /\ ~errs =>
         \A c \in Known : check[c] = "passing" => c \in todo \/ c = Proxy
    /\ DrainedBeforeDeregistration

LEMMA InitDraining == Init => Draining
BY DEF Init, Draining, DrainedBeforeDeregistration

(* Steps that stay out of setChecksCritical and turn no check passing.        *)
LEMMA CalmDraining ==
    ASSUME TypeOK, Draining, pc' \notin {"critical", "criticalProxy"},
           pc \notin {"critical", "criticalProxy"},
           shuttingDown' => shuttingDown, critErr' = critErr,
           \A c \in Known : shuttingDown /\ check[c] # "passing" => check'[c] # "passing"
    PROVE  Draining'
BY DEF Draining, DrainedBeforeDeregistration, TypeOK

(* What the loop leaves when its last write is the rest's.                    *)
LEMMA AfterCriticalDraining ==
    ASSUME TypeOK, NEW left, NEW ok \in BOOLEAN, AfterCritical(left, ok),
           ~errs /\ ok => \A c \in Known : check'[c] = "passing" => Ahead(c, left)
    PROVE  Draining'
<1>1. ~errs' => \A c \in Known : check'[c] = "passing" => Ahead(c, left)
    BY DEF AfterCritical, TypeOK
<1>2. CASE left = {}
    BY <1>1, <1>2 DEF AfterCritical, Draining, DrainedBeforeDeregistration, Ahead, TypeOK
<1>3. CASE left # {}
    BY <1>1, <1>3 DEF AfterCritical, Draining, DrainedBeforeDeregistration
<1> QED
    BY <1>2, <1>3

LEMMA SetCriticalDraining ==
    ASSUME TypeOK, Draining, SetCheckCritical \/ SetProxyCritical
    PROVE  Draining'
<1>1. CASE SetCheckCritical
    <2> PICK n \in todo, ok \in BOOLEAN :
            /\ Update(n, "UNHEALTHY", ok)
            /\ IF ok /\ n = Dataplane /\ ~IsGateway
                 THEN /\ pc' = "criticalProxy" /\ todo' = todo \ {n}
                      /\ UNCHANGED << errs, critErr >>
                 ELSE AfterCritical(todo \ {n}, ok)
        BY <1>1 DEF SetCheckCritical
    <2>1. ASSUME ~errs, NEW c \in Known, check'[c] = "passing", ok
          PROVE  Ahead(c, todo) /\ c # n /\ (IsGateway => n = Dataplane /\ c = Dataplane)
        <3>1. check[c] = "passing"
            BY <2>1, UpdateUnhealthy
        <3>2. c # n
            BY <2>1, UpdateUnhealthy
        <3>3. n \in Known
            BY <2>1, UpdateUnhealthy
        <3> QED
            BY <1>1, <2>1, <3>1, <3>2, <3>3 DEF Draining, SetCheckCritical, Known
    <2>2. CASE ok /\ n = Dataplane /\ ~IsGateway
        <3>1. ~errs' => \A c \in Known : check'[c] = "passing" => c \in todo' \/ c = Proxy
            BY <2>1, <2>2 DEF Ahead
        <3> QED
            BY <2>2, <3>1 DEF Draining, DrainedBeforeDeregistration
    <2>3. CASE ~(ok /\ n = Dataplane /\ ~IsGateway)
        <3>1. ~errs /\ ok => \A c \in Known : check'[c] = "passing" => Ahead(c, todo \ {n})
            BY <2>1, <2>3 DEF Ahead
        <3> QED
            BY <2>3, <3>1, AfterCriticalDraining
    <2> QED
        BY <2>2, <2>3
<1>2. CASE SetProxyCritical
    <2> PICK ok \in BOOLEAN : Update(Proxy, "UNHEALTHY", ok) /\ AfterCritical(todo, ok)
        BY <1>2 DEF SetProxyCritical
    <2>1. ASSUME ~errs, ok, NEW c \in Known, check'[c] = "passing"
          PROVE  Ahead(c, todo)
        <3>1. check[c] = "passing" /\ c # Proxy
            BY <2>1, UpdateUnhealthy
        <3>2. pc = "criticalProxy"
            BY <1>2 DEF SetProxyCritical
        <3>3. c \in todo
            BY <2>1, <3>1, <3>2 DEF Draining
        <3> QED
            BY <3>3 DEF Ahead
    <2> QED
        BY <2>1, AfterCriticalDraining
<1> QED
    BY <1>1, <1>2

LEMMA NextDraining ==
    ASSUME TypeOK, Phases, Draining, [Next]_vars
    PROVE  Draining'
<1> USE DEF task, consul, signals, client, loop
<1>0. \A c \in Known : shuttingDown /\ check[c] # "passing" => check'[c] # "passing"
    BY NextNeverPassing
<1>1. CASE SetCheckCritical \/ SetProxyCritical
    BY <1>1, SetCriticalDraining
<1>2. CASE HandleSigterm
    BY <1>2, Constants
       DEF HandleSigterm, Draining, DrainedBeforeDeregistration, Ahead, CheckIds
<1>3. CASE Environment
    <2>1. CASE Exit(TRUE)
        BY <2>1 DEF Exit, Draining, DrainedBeforeDeregistration
    <2>2. CASE ~Exit(TRUE)
        <3>1. UNCHANGED << pc, check, todo, shuttingDown, errs, critErr >>
            BY <1>3, <2>2 DEF Environment, ContainerHealth, DataplaneStops, Sigterm, Kill,
                              ServerLost
        <3> QED
            BY <3>1 DEF Draining, DrainedBeforeDeregistration
    <2> QED
        BY <2>1, <2>2
<1>4. CASE MonitorNotify \/ MonitorPoll \/ SwitchServer
    <2>1. UNCHANGED << pc, check, todo, shuttingDown, errs, critErr >>
        BY <1>4 DEF MonitorNotify, MonitorPoll, SwitchServer
    <2> QED
        BY <2>1 DEF Draining, DrainedBeforeDeregistration
<1>5. CASE Start
    <2>1. ~shuttingDown' /\ pc' \notin {"critical", "criticalProxy"}
        <3>1. CASE Exit(TRUE)
            BY <3>1 DEF Exit
        <3>2. CASE ~Exit(TRUE)
            <4>1. pc \in {"start", "notified", "fetchChecks"} /\ shuttingDown' = shuttingDown
                BY <1>5, <3>2 DEF Start, Notify, Connect, FetchHealthChecks
            <4>2. pc' \in {"notified", "fetchChecks", "select"}
                BY <1>5, <3>2 DEF Start, Notify, Connect, FetchHealthChecks
            <4> QED
                BY <4>1, <4>2 DEF Phases
        <3> QED
            BY <3>1, <3>2
    <2> QED
        BY <2>1 DEF Draining, DrainedBeforeDeregistration
<1>6. CASE SyncChecks \/ Sync
    <2>1. ~shuttingDown' /\ pc' \notin {"critical", "criticalProxy"}
        BY <1>6 DEF SyncChecks, Sync, MarkMissing, MarkMissingProxy, SyncContainer, Aggregate,
                    AggregateProxy, AfterMissing, Phases
    <2> QED
        BY <2>1 DEF Draining, DrainedBeforeDeregistration
<1>7. CASE HandleDone \/ DeregisterService \/ DeregisterProxy \/ Logout
    <2>1. /\ pc' \notin {"critical", "criticalProxy"} /\ pc \notin {"critical", "criticalProxy"}
          /\ shuttingDown' = shuttingDown /\ critErr' = critErr
        BY <1>7 DEF HandleDone, DeregisterService, DeregisterProxy, Logout, AfterDeregister
    <2> QED
        BY <1>0, <2>1, CalmDraining
<1>8. CASE Return
    BY <1>8 DEF Return, Exit, Draining, DrainedBeforeDeregistration
<1>9. CASE UNCHANGED vars
    BY <1>9 DEF vars, Draining, DrainedBeforeDeregistration
<1> QED
    BY <1>1, <1>2, <1>3, <1>4, <1>5, <1>6, <1>7, <1>8, <1>9 DEF Next, Shutdown

(* A run of setChecksCritical that reported no error leaves no check passing, *)
(* whatever second SIGTERM or failed write came before it.                    *)
THEOREM Drained == Spec => []DrainedBeforeDeregistration
<1>1. Init => TypeOK /\ Phases /\ Draining
    BY InitTypeOK, InitPhases, InitDraining
<1>2. TypeOK /\ Phases /\ Draining /\ [Next]_vars => (TypeOK /\ Phases /\ Draining)'
    BY NextTypeOK, NextPhases, NextDraining
<1>3. Draining => DrainedBeforeDeregistration
    BY DEF Draining
<1> QED
    BY <1>1, <1>2, <1>3, PTL DEF Spec

-----------------------------------------------------------------------------
(* A clean exit: what the shutdown has removed by each of its steps when it has *)
(* met no error.                                                              *)

Leaving ==
    /\ IsGateway => registered \subseteq {"service"}
    /\ ~LoginEnabled => ~loggedIn
    /\ pc = "deregisterProxy" /\ ~errs => "service" \notin registered
    /\ pc = "logout" /\ ~errs => registered = {}
    /\ pc \in {"return", "exited"} /\ ~errs => registered = {} /\ ~loggedIn

LEMMA InitLeaving == Init => Leaving
<1> SUFFICES ASSUME Init PROVE Leaving
    OBVIOUS
<1>1. pc = "start" /\ (IsGateway => registered \subseteq {"service"})
    BY DEF Init
<1>2. ~LoginEnabled => ~loggedIn
    BY DEF Init
<1> QED
    BY <1>1, <1>2 DEF Leaving

LEMMA NextLeaving ==
    ASSUME TypeOK, Leaving, [Next]_vars
    PROVE  Leaving'
<1> USE DEF task, consul, signals, client, loop, Leaving
<1>1. CASE Exit(TRUE) /\ UNCHANGED consul
    BY <1>1 DEF Exit
<1>2. CASE Environment /\ ~Exit(TRUE)
    <2>1. UNCHANGED << pc, registered, loggedIn, errs >>
        BY <1>2 DEF Environment, ContainerHealth, DataplaneStops, Sigterm, Kill, ServerLost
    <2> QED
        BY <2>1
<1>3. CASE Start /\ ~Exit(TRUE)
    <2>1. pc' \in {"notified", "fetchChecks", "select"} /\ UNCHANGED << registered, loggedIn >>
        BY <1>3 DEF Start, Notify, Connect, FetchHealthChecks
    <2> QED
        BY <2>1
<1>4. CASE MonitorNotify \/ MonitorPoll \/ SwitchServer
    <2>1. UNCHANGED << pc, registered, loggedIn, errs >>
        BY <1>4 DEF MonitorNotify, MonitorPoll, SwitchServer
    <2> QED
        BY <2>1
<1>5. CASE SyncChecks \/ Sync
    <2>1. /\ pc' \notin {"deregisterProxy", "logout", "return", "exited"}
          /\ UNCHANGED << registered, loggedIn >>
        BY <1>5 DEF SyncChecks, Sync, MarkMissing, MarkMissingProxy, SyncContainer, Aggregate,
                    AggregateProxy, AfterMissing
    <2> QED
        BY <2>1
<1>6. CASE HandleSigterm \/ HandleDone \/ SetCheckCritical \/ SetProxyCritical
    <2>1. /\ pc' \notin {"deregisterProxy", "logout", "return", "exited"}
          /\ UNCHANGED << registered, loggedIn >>
        BY <1>6 DEF HandleSigterm, HandleDone, SetCheckCritical, SetProxyCritical, AfterCritical
    <2> QED
        BY <2>1
<1>7. CASE DeregisterService
    BY <1>7 DEF DeregisterService, Deregister, Removed, AfterDeregister, TypeOK
<1>8. CASE DeregisterProxy
    BY <1>8 DEF DeregisterProxy, Deregister, Removed, AfterDeregister, TypeOK
<1>9. CASE Logout
    BY <1>9 DEF Logout, TypeOK
<1>10. CASE Return
    BY <1>10 DEF Return, Exit
<1>11. CASE UNCHANGED vars
    BY <1>11 DEF vars
<1>12. Environment \/ Start => UNCHANGED consul
    BY DEF Environment, ContainerHealth, DataplaneStops, Sigterm, Kill, ServerLost, Start,
           Notify, Connect, FetchHealthChecks
<1> QED
    BY <1>1, <1>2, <1>3, <1>4, <1>5, <1>6, <1>7, <1>8, <1>9, <1>10, <1>11, <1>12
       DEF Next, Shutdown

(* health-sync exits without an error only when the services and the login    *)
(* token of the task are gone.                                                *)
THEOREM ExitsClean ==
    Spec => [](pc = "exited" /\ ~errs => registered = {} /\ ~loggedIn)
<1>1. Init => TypeOK /\ Leaving
    BY InitTypeOK, InitLeaving
<1>2. TypeOK /\ Leaving /\ [Next]_vars => (TypeOK /\ Leaving)'
    BY NextTypeOK, NextLeaving
<1>3. Leaving => (pc = "exited" /\ ~errs => registered = {} /\ ~loggedIn)
    BY DEF Leaving
<1> QED
    BY <1>1, <1>2, <1>3, PTL DEF Spec

-----------------------------------------------------------------------------
(* PassesOnHealthy.  A check is gone only once realRun is on its way out, so  *)
(* that a write of syncChecks never meets one.                                *)

LeavingPCs == {"deregister", "deregisterProxy", "logout", "return", "exited"}

GoneLate == pc \notin LeavingPCs => \A c \in Known : check[c] # "gone"

LEMMA UpdateNotGone ==
    ASSUME TypeOK, NEW id, NEW h, NEW ok, Update(id, h, ok), NEW c \in Known,
           check[c] # "gone"
    PROVE  check'[c] # "gone"
BY DEF Update, TypeOK, ToConsul

LEMMA InitGoneLate == Init => GoneLate
BY DEF Init, GoneLate

LEMMA NextGoneLate ==
    ASSUME TypeOK, GoneLate, [Next]_vars
    PROVE  GoneLate'
<1> USE DEF task, consul, signals, client, loop, GoneLate, LeavingPCs
<1>1. CASE Environment \/ Start
    BY <1>1 DEF Environment, ContainerHealth, DataplaneStops, Sigterm, Kill, ServerLost,
                Start, Notify, Connect, FetchHealthChecks, Exit
<1>2. CASE MonitorNotify \/ MonitorPoll \/ SyncChecks \/ SwitchServer
    BY <1>2 DEF MonitorNotify, MonitorPoll, SyncChecks, SwitchServer
<1>3. CASE HandleSigterm \/ HandleDone \/ Logout \/ Return
    BY <1>3 DEF HandleSigterm, HandleDone, Logout, Return, Exit
<1>4. CASE Sync
    <2>1. pc \notin LeavingPCs
        BY <1>4 DEF Sync, MarkMissing, MarkMissingProxy, SyncContainer, Aggregate,
                    AggregateProxy
    <2>2. check' = check \/ \E id, h : \E ok \in BOOLEAN : Update(id, h, ok)
        BY <1>4 DEF Sync, MarkMissing, MarkMissingProxy, SyncContainer, Aggregate,
                    AggregateProxy
    <2> QED
        BY <2>1, <2>2, UpdateNotGone
<1>5. CASE SetCheckCritical \/ SetProxyCritical
    <2>1. pc \notin LeavingPCs
        BY <1>5 DEF SetCheckCritical, SetProxyCritical
    <2>2. \E id, h : \E ok \in BOOLEAN : Update(id, h, ok)
        BY <1>5 DEF SetCheckCritical, SetProxyCritical
    <2> QED
        BY <2>1, <2>2, UpdateNotGone
<1>6. CASE DeregisterService \/ DeregisterProxy
    BY <1>6 DEF DeregisterService, DeregisterProxy, AfterDeregister
<1>7. CASE UNCHANGED vars
    BY <1>7 DEF vars
<1> QED
    BY <1>1, <1>2, <1>3, <1>4, <1>5, <1>6, <1>7 DEF Next, Shutdown

LEMMA OverallHealthy ==
    ASSUME ToConsul(Overall(snap)) = "passing"
    PROVE  HealthySnap
BY DEF ToConsul, Overall, HealthySnap

LEMMA KnownChecks == Known \subseteq Names \cup {Proxy}
BY DEF Known, CheckIds, Names

(* Only a write of syncChecks turns a check passing: the containers' in       *)
(* SyncContainer, the dataplane's in the writes of the overall health.        *)
LEMMA TurnsPassingStep ==
    ASSUME TypeOK, Phases, GoneLate, [Next]_vars, NEW c \in Known, TurnsPassing(c)
    PROVE  /\ ~shuttingDown /\ check[c] = "critical"
           /\ c \in Apps => snap[c] = "HEALTHY"
           /\ c \notin Apps => HealthySnap
<1> USE Constants DEF task, consul, signals, client, loop
<1>1. check[c] # "passing" /\ check'[c] = "passing"
    BY DEF TurnsPassing
<1>2. ~shuttingDown
    BY <1>1, NextNeverPassing
<1>3. CASE Environment \/ Start
    BY <1>1, <1>3 DEF Environment, ContainerHealth, DataplaneStops, Sigterm, Kill, ServerLost,
                      Start, Notify, Connect, FetchHealthChecks
<1>4. CASE MonitorNotify \/ MonitorPoll \/ SyncChecks \/ SwitchServer
    BY <1>1, <1>4 DEF MonitorNotify, MonitorPoll, SyncChecks, SwitchServer
<1>5. CASE HandleSigterm \/ HandleDone \/ Logout \/ Return
    BY <1>1, <1>5 DEF HandleSigterm, HandleDone, Logout, Return
<1>6. CASE MarkMissing \/ MarkMissingProxy \/ SetCheckCritical \/ SetProxyCritical
    BY <1>1, <1>6, UpdateUnhealthy
       DEF MarkMissing, MarkMissingProxy, SetCheckCritical, SetProxyCritical
<1>7. CASE SyncContainer
    <2> PICK n \in todo :
            IF n = Dataplane \/ snap[n] = cur[n]
            THEN UNCHANGED << cur, check, faults >>
            ELSE \E ok \in BOOLEAN :
                   /\ Update(n, snap[n], ok)
                   /\ cur' = IF ok THEN [cur EXCEPT ![n] = snap[n]] ELSE cur
        BY <1>7 DEF SyncContainer
    <2>1. PICK ok \in BOOLEAN : n # Dataplane /\ Update(n, snap[n], ok)
        BY <1>1
    <2>2. c = n
        BY <1>1, <2>1, UpdateOther
    <2>3. c \in Apps
        BY <2>1, <2>2 DEF TypeOK, Names
    <2>4. ToConsul(snap[c]) = "passing"
        BY <1>1, <2>1, <2>2, UpdateSelf
    <2>5. check[c] = "critical"
        BY <1>1, <1>7 DEF SyncContainer, GoneLate, LeavingPCs, TypeOK
    <2> QED
        BY <1>2, <2>3, <2>4, <2>5 DEF ToConsul
<1>8. CASE Aggregate \/ AggregateProxy
    <2> PICK id \in {Dataplane, Proxy}, ok \in BOOLEAN : Update(id, Overall(snap), ok)
        BY <1>8 DEF Aggregate, AggregateProxy
    <2>1. c = id
        BY <1>1, UpdateOther
    <2>2. ToConsul(Overall(snap)) = "passing"
        BY <1>1, <2>1, UpdateSelf
    <2>3. check[c] = "critical"
        BY <1>1, <1>8 DEF Aggregate, AggregateProxy, GoneLate, LeavingPCs, TypeOK
    <2>4. c \notin Apps
        BY <2>1 DEF Names
    <2> QED
        BY <1>2, <2>2, <2>3, <2>4, OverallHealthy
<1>9. CASE DeregisterService \/ DeregisterProxy
    BY <1>1, <1>9, DeregisterNotPassing DEF DeregisterService, DeregisterProxy
<1>10. CASE UNCHANGED vars
    BY <1>1, <1>10 DEF vars
<1> QED
    BY <1>3, <1>4, <1>5, <1>6, <1>7, <1>8, <1>9, <1>10 DEF Next, Sync, Shutdown

(* A check turns passing in no step but one that writes what the metadata of  *)
(* its round shows, and in none once SIGTERM is being handled.                *)
THEOREM Passes == Spec => PassesOnHealthy
<1>1. Init => TypeOK /\ Phases /\ GoneLate
    BY InitTypeOK, InitPhases, InitGoneLate
<1>2. TypeOK /\ Phases /\ GoneLate /\ [Next]_vars => (TypeOK /\ Phases /\ GoneLate)'
    BY NextTypeOK, NextPhases, NextGoneLate
<1>3. TypeOK /\ Phases /\ GoneLate /\ [Next]_vars =>
        [\A c \in Known : TurnsPassing(c) =>
           /\ ~shuttingDown /\ check[c] = "critical"
           /\ c \in Apps => snap[c] = "HEALTHY"
           /\ c \notin Apps => HealthySnap]_vars
    BY TurnsPassingStep
<1> QED
    BY <1>1, <1>2, <1>3, PTL DEF Spec, PassesOnHealthy

-----------------------------------------------------------------------------
(* ActsAsTask: the signal comes before everything that takes the task's       *)
(* registrations away.                                                        *)

Asked ==
    (\/ sigs \/ monitor \in {"polling", "done"}
     \/ pc \in {"deregister", "deregisterProxy", "logout", "return"}) => sigterms > 0

LEMMA InitAsked == Init => Asked
BY DEF Init, Asked

LEMMA NextAsked ==
    ASSUME TypeOK, Asked, [Next]_vars
    PROVE  Asked'
<1> USE DEF task, consul, signals, client, loop, Asked
<1>0. sigterms \in Nat
    BY Bounds DEF TypeOK
<1>1. CASE Exit(TRUE)
    BY <1>1 DEF Exit
<1>2. CASE Environment /\ ~Exit(TRUE)
    <2>1. CASE Sigterm
        BY <1>0, <2>1 DEF Sigterm
    <2> QED
        BY <1>2, <2>1 DEF Environment, ContainerHealth, DataplaneStops, Kill, ServerLost
<1>3. CASE Start /\ ~Exit(TRUE)
    BY <1>3 DEF Start, Notify, Connect, FetchHealthChecks
<1>4. CASE MonitorNotify \/ MonitorPoll \/ SwitchServer
    BY <1>4 DEF MonitorNotify, MonitorPoll, SwitchServer
<1>5. CASE SyncChecks \/ Sync
    BY <1>5 DEF SyncChecks, Sync, MarkMissing, MarkMissingProxy, SyncContainer, Aggregate,
                AggregateProxy, AfterMissing
<1>6. CASE HandleSigterm \/ HandleDone \/ SetCheckCritical \/ SetProxyCritical
    BY <1>6 DEF HandleSigterm, HandleDone, SetCheckCritical, SetProxyCritical, AfterCritical
<1>7. CASE DeregisterService \/ DeregisterProxy \/ Logout
    BY <1>7 DEF DeregisterService, DeregisterProxy, Logout, AfterDeregister
<1>8. CASE Return
    BY <1>8 DEF Return, Exit
<1>9. CASE UNCHANGED vars
    BY <1>9 DEF vars
<1> QED
    BY <1>1, <1>2, <1>3, <1>4, <1>5, <1>6, <1>7, <1>8, <1>9 DEF Next, Shutdown

(* The steps of the abstract task, with the values HealthSync gives them.     *)
LEMMA AbstractRequestStop ==
    ASSUME sigterms = 0, sigterms' > 0, UNCHANGED << registered, loggedIn >>
    PROVE  Catalog!Task(SelfTask)
<1>1. sigterms' # 0
    OBVIOUS
<1>2. Catalog!RequestStop(SelfTask)
    BY <1>1
    DEF Catalog!RequestStop, Catalog!catalog, Catalog!nsState, Catalog!locals, Catalog!history,
        SelfTask
<1> QED
    BY <1>2 DEF Catalog!Task

LEMMA AbstractDeregisters ==
    ASSUME TypeOK, sigterms > 0, UNCHANGED << loggedIn, sigterms >>,
           NEW svc \in registered, registered' = registered \ {svc}
    PROVE  Catalog!Task(SelfTask)
<1>0. sigterms # 0
    OBVIOUS
<1>1. svc \in registered \ Catalog!Foreign
    BY DEF TypeOK, Catalog!Foreign, Catalog!OwnToken, SelfServices, SelfTask, SelfToken
<1>2. svc \in SelfServices
    BY DEF TypeOK, SelfServices
<1>3. Catalog!TaskDeregisters(SelfTask)
    BY <1>0, <1>1, <1>2
       DEF Catalog!TaskDeregisters, Catalog!nsState, Catalog!locals, Catalog!history, SelfTask
<1> QED
    BY <1>3 DEF Catalog!Task

LEMMA AbstractLogsOut ==
    ASSUME loggedIn, ~loggedIn', sigterms > 0, UNCHANGED << registered, sigterms >>
    PROVE  Catalog!Task(SelfTask)
<1>0. sigterms # 0
    OBVIOUS
<1>1. SelfToken \in {SelfToken} \ Catalog!Foreign
    BY DEF Catalog!Foreign, Catalog!OwnToken, SelfServices, SelfTask, SelfToken
<1>2. Catalog!TaskLogsOut(SelfTask)
    BY <1>0, <1>1
    DEF Catalog!TaskLogsOut, Catalog!nsState, Catalog!locals, Catalog!history, SelfTask
<1> QED
    BY <1>2 DEF Catalog!Task

LEMMA NextActsAsTask ==
    ASSUME TypeOK, Asked, [Next]_vars
    PROVE  [Catalog!Task(SelfTask)]_<< registered, loggedIn, sigterms = 0 >>
<1> USE DEF task, consul, signals, client, loop
<1>0. sigterms \in Nat
    BY Bounds DEF TypeOK
<1>1. CASE Sigterm
    <2>1. UNCHANGED << registered, loggedIn >> /\ sigterms' > 0
        BY <1>0, <1>1 DEF Sigterm
    <2> QED
        BY <1>0, <2>1, AbstractRequestStop
<1>2. CASE Environment /\ ~Sigterm
    BY <1>2 DEF Environment, ContainerHealth, DataplaneStops, Kill, ServerLost
<1>3. CASE Start \/ MonitorNotify \/ MonitorPoll \/ SwitchServer
    BY <1>3 DEF Start, Notify, Connect, FetchHealthChecks, MonitorNotify, MonitorPoll,
                SwitchServer
<1>4. CASE SyncChecks \/ Sync
    BY <1>4 DEF SyncChecks, Sync, MarkMissing, MarkMissingProxy, SyncContainer, Aggregate,
                AggregateProxy
<1>5. CASE HandleSigterm \/ HandleDone \/ SetCheckCritical \/ SetProxyCritical \/ Return
    BY <1>5 DEF HandleSigterm, HandleDone, SetCheckCritical, SetProxyCritical, Return
<1>6. CASE DeregisterService \/ DeregisterProxy
    <2>1. UNCHANGED << loggedIn, sigterms >> /\ sigterms > 0
        BY <1>6 DEF DeregisterService, DeregisterProxy, Asked
    <2>2. PICK svc : Deregister(svc)
        BY <1>6 DEF DeregisterService, DeregisterProxy
    <2>3. registered' = registered \/ registered' = registered \ {svc}
        BY <2>2 DEF Deregister, Removed
    <2> QED
        BY <2>1, <2>3, AbstractDeregisters
<1>7. CASE Logout
    <2>1. UNCHANGED << registered, sigterms >> /\ sigterms > 0
        BY <1>7 DEF Logout, Asked
    <2>2. loggedIn' = loggedIn \/ loggedIn' = FALSE
        BY <1>7 DEF Logout
    <2> QED
        BY <2>1, <2>2, AbstractLogsOut DEF TypeOK
<1>8. CASE UNCHANGED vars
    BY <1>8 DEF vars
<1> QED
    BY <1>1, <1>2, <1>3, <1>4, <1>5, <1>6, <1>7, <1>8 DEF Next, Shutdown

(* The task the controller's model assumes is implemented by health-sync:     *)
(* only after SIGTERM, and one service or the token at a time.                *)
THEOREM IsATask == Spec => ActsAsTask
<1>1. TypeOK /\ Asked /\ [Next]_vars =>
        [Catalog!Task(SelfTask)]_<< registered, loggedIn, sigterms = 0 >>
    BY NextActsAsTask
<1> QED
    BY <1>1, InitTypeOK, NextTypeOK, InitAsked, NextAsked, PTL DEF Spec, ActsAsTask

-----------------------------------------------------------------------------
(* Reports.  The loop over the missing containers visits only such, which     *)
(* makes what it writes the verdict of its round.                             *)

MissingOnes ==
    /\ pc = "missing" => todo \subseteq Missing(snap)
    /\ pc = "missingProxy" => todo \subseteq Missing(snap) /\ Dataplane \in Missing(snap)

LEMMA InitMissingOnes == Init => MissingOnes
BY DEF Init, MissingOnes

LEMMA NextMissingOnes ==
    ASSUME TypeOK, MissingOnes, [Next]_vars
    PROVE  MissingOnes'
<1> USE DEF task, consul, signals, client, loop, MissingOnes, Missing
<1>1. CASE Environment \/ Start
    BY <1>1 DEF Environment, ContainerHealth, DataplaneStops, Sigterm, Kill, ServerLost, Start,
                Notify, Connect, FetchHealthChecks, Exit
<1>2. CASE MonitorNotify \/ MonitorPoll \/ SwitchServer \/ HandleSigterm \/ HandleDone
    BY <1>2 DEF MonitorNotify, MonitorPoll, SwitchServer, HandleSigterm, HandleDone
<1>3. CASE SyncChecks
    BY <1>3 DEF SyncChecks
<1>4. CASE MarkMissing
    BY <1>4 DEF MarkMissing, AfterMissing
<1>5. CASE MarkMissingProxy
    BY <1>5 DEF MarkMissingProxy, AfterMissing
<1>6. CASE SyncContainer \/ Aggregate \/ AggregateProxy
    BY <1>6 DEF SyncContainer, Aggregate, AggregateProxy
<1>7. CASE Shutdown
    BY <1>7 DEF Shutdown, SetCheckCritical, SetProxyCritical, AfterCritical, DeregisterService,
                DeregisterProxy, AfterDeregister, Logout, Return, Exit
<1>8. CASE UNCHANGED vars
    BY <1>8 DEF vars
<1> QED
    BY <1>1, <1>2, <1>3, <1>4, <1>5, <1>6, <1>7, <1>8 DEF Next, Sync

ReportInv ==
    /\ TypeOK /\ Phases /\ GoneLate /\ Asked /\ Draining /\ Leaving /\ MissingOnes

LEMMA InitReportInv == Init => ReportInv
BY InitTypeOK, InitPhases, InitGoneLate, InitAsked, InitDraining, InitLeaving, InitMissingOnes
   DEF ReportInv

LEMMA NextReportInv == ReportInv /\ [Next]_vars => ReportInv'
BY NextTypeOK, NextPhases, NextGoneLate, NextAsked, NextDraining, NextLeaving, NextMissingOnes
   DEF ReportInv

LEMMA InitReports == Init => Reporter!ReporterInit
<1> SUFFICES ASSUME Init PROVE Reporter!ReporterInit
    OBVIOUS
<1>1. pc = "start" /\ ~shuttingDown /\ monitor = "off" /\ sigterms = 0
    BY DEF Init
<1>2. Stage = "reporting"
    BY <1>1 DEF Stage, LeavePCs, DrainPCs
<1>3. (sigterms > 0) = FALSE /\ (monitor = "done") = FALSE
    BY <1>1
<1>4. (shuttingDown /\ pc \notin DrainPCs /\ ~critErr) = FALSE
    BY <1>1
<1>5. (IF pc \in ReportPCs THEN {snap} ELSE {}) = {}
    BY <1>1 DEF ReportPCs
<1>6. dpStopped = FALSE /\ check = [c \in Known |-> "critical"]
    BY DEF Init
<1> QED
    BY <1>2, <1>3, <1>4, <1>5, <1>6 DEF Reporter!ReporterInit

(* What a round writes is its verdict: critical for the missing containers,   *)
(* and so for the dataplane's checks when the dataplane is one of them, the   *)
(* health of each of the others, and the overall health.                      *)
LEMMA MissingVerdict ==
    ASSUME NEW n \in Missing(snap), NEW c, c = n \/ (c \notin Apps /\ n = Dataplane)
    PROVE  ToConsul("UNHEALTHY") = Reporter!Verdict(c, snap)
BY Constants DEF Missing, ToConsul, Reporter!Verdict, Reporter!Passes, Names

LEMMA PresentVerdict ==
    ASSUME NEW n \in Apps
    PROVE  ToConsul(snap[n]) = Reporter!Verdict(n, snap)
BY DEF ToConsul, Reporter!Verdict, Reporter!Passes

LEMMA OverallVerdict ==
    ASSUME NEW c \in {Dataplane, Proxy}
    PROVE  ToConsul(Overall(snap)) = Reporter!Verdict(c, snap)
BY Constants DEF ToConsul, Overall, Present, Missing, Names, Reporter!Verdict, Reporter!Passes

(* A write takes effect or not.                                               *)
LEMMA UpdateBoard ==
    ASSUME TypeOK, NEW id, NEW h, NEW ok, Update(id, h, ok), pc \notin LeavingPCs, GoneLate
    PROVE  \/ check' = check
           \/ /\ id \in Known /\ check[id] # "gone"
              /\ check' = [check EXCEPT ![id] = ToConsul(h)]
BY DEF Update, GoneLate

(* The mapped variables, by where realRun is.                                 *)
Look == IF pc \in ReportPCs THEN {snap} ELSE {}
Complete == shuttingDown /\ pc \notin DrainPCs /\ ~critErr

LEMMA StageFacts ==
    ASSUME ReportInv
    PROVE  /\ pc \in ReportPCs => Stage = "reporting" /\ Look = {snap} /\ ~shuttingDown
           /\ pc \notin ReportPCs => Look = {}
           /\ pc \in {"start", "notified", "fetchChecks"} =>
                Stage = "reporting" /\ ~shuttingDown
           /\ pc = "select" => Stage \in {"reporting", "waiting"}
           /\ pc = "select" /\ ~shuttingDown => Stage = "reporting"
           /\ pc \in DrainPCs => Stage = "draining"
           /\ pc \in LeavePCs => Stage = "leaving"
           /\ pc # "exited" => Stage \notin Reporter!Ended
BY DEF ReportInv, Phases, Stage, Look, ReportPCs, DrainPCs, LeavePCs, Reporter!Ended

(* The end of the process is Fails.                                           *)
LEMMA ExitFails ==
    ASSUME ReportInv, pc # "exited", Exit(TRUE)
    PROVE  Reporter!Fails
<1>1. Stage' = "failed"
    <2>1. pc' = "exited" /\ errs' = TRUE
        BY DEF Exit
    <2>2. pc' \notin LeavePCs /\ pc' \notin DrainPCs
        BY <2>1 DEF LeavePCs, DrainPCs
    <2> QED
        BY <2>1, <2>2 DEF Stage
<1>2. (IF pc \in ReportPCs THEN {snap} ELSE {})' = {}
    BY DEF Exit, ReportPCs
<1>3. (monitor = "done")' = FALSE
    BY DEF Exit
<1>4. (shuttingDown /\ pc \notin DrainPCs /\ ~critErr)' = FALSE
    BY DEF Exit
<1> QED
    BY <1>1, <1>2, <1>3, <1>4, StageFacts DEF Reporter!Fails

LEMMA EnvironmentReports ==
    ASSUME ReportInv, ReportInv', Environment
    PROVE  [Reporter!ReporterNext]_(Reporter!reporterVars)
<1> USE DEF task, consul, signals, client, loop
<1>1. ASSUME NEW n \in Names, NEW h \in Containers, ContainerHealth(n, h)
      PROVE  Reporter!HealthChanges
    <2>1. UNCHANGED << dpStopped, snap, check, registered, loggedIn, pc, shuttingDown, errs,
                       sigterms, monitor, critErr >>
        BY <1>1 DEF ContainerHealth
    <2>2. UNCHANGED Stage
        BY <2>1 DEF Stage
    <2>3. n \in Apps \cup {Dataplane} /\ meta' = [meta EXCEPT ![n] = h]
        BY <1>1 DEF ContainerHealth, Names
    <2> QED
        BY <2>1, <2>2, <2>3 DEF Reporter!HealthChanges, Reporter!entries, Reporter!course
<1>2. CASE DataplaneStops
    <2>1. dpStopped' = TRUE
        BY <1>2 DEF DataplaneStops
    <2>2. UNCHANGED << meta, snap, check, registered, loggedIn, pc, shuttingDown, errs,
                       sigterms, monitor, critErr >>
        BY <1>2 DEF DataplaneStops
    <2>3. UNCHANGED Stage
        BY <2>2 DEF Stage
    <2>4. Reporter!ContainerStops
        BY <2>1, <2>2, <2>3 DEF Reporter!ContainerStops, Reporter!entries, Reporter!course
    <2> QED
        BY <2>4 DEF Reporter!ReporterNext
<1>3. CASE Sigterm
    <2>1. UNCHANGED << meta, dpStopped, check, registered, loggedIn >> /\ pc # "exited"
        BY <1>3 DEF Sigterm
    <2>2. (sigterms > 0)' = TRUE
        BY <1>3, Bounds DEF Sigterm, ReportInv, TypeOK
    <2>3. CASE pc = "start"
        <3>1. Reporter!Fails
            BY <1>3, <2>1, <2>3, ExitFails DEF Sigterm
        <3> QED
            BY <2>1, <2>2, <3>1 DEF Reporter!AskToStop, Reporter!outside, Reporter!entries,
                                    Reporter!ReporterNext
    <2>4. CASE pc # "start"
        <3>1. UNCHANGED << pc, snap, shuttingDown, errs, critErr >>
            BY <1>3, <2>4 DEF Sigterm
        <3>2. UNCHANGED Stage
            BY <3>1 DEF Stage
        <3>3. UNCHANGED (monitor = "done")
            BY <1>3, <2>4 DEF Sigterm
        <3>4. Reporter!AskToStop
            BY <2>1, <2>2, <3>1, <3>2, <3>3
               DEF Reporter!AskToStop, Reporter!outside, Reporter!entries
        <3> QED
            BY <3>4 DEF Reporter!ReporterNext
    <2> QED
        BY <2>3, <2>4
<1>4. CASE Kill
    <2>1. Reporter!Fails
        BY <1>4, ExitFails DEF Kill
    <2>2. Reporter!Finish
        BY <1>4, <2>1 DEF Kill, Reporter!Finish, Reporter!outside, Reporter!entries
    <2> QED
        BY <2>2 DEF Reporter!ReporterNext
<1>5. CASE ServerLost
    BY <1>5 DEF ServerLost, Stage, Reporter!reporterVars
<1> QED
    BY <1>1, <1>2, <1>3, <1>4, <1>5 DEF Environment, Reporter!ReporterNext

LEMMA StartReports ==
    ASSUME ReportInv, ReportInv', Start
    PROVE  [Reporter!ReporterNext]_(Reporter!reporterVars)
<1> USE DEF task, consul, signals, client, loop
<1>0. pc \in {"start", "notified", "fetchChecks"} /\ UNCHANGED << task, consul, sigterms >>
    BY DEF Start, Notify, Connect, FetchHealthChecks
<1>1. CASE Exit(TRUE)
    <2>1. Reporter!Fails
        BY <1>0, <1>1, ExitFails
    <2>2. Reporter!Finish
        BY <1>0, <2>1 DEF Reporter!Finish, Reporter!outside, Reporter!entries
    <2> QED
        BY <2>2 DEF Reporter!ReporterNext
<1>2. CASE ~Exit(TRUE)
    <2>1. UNCHANGED << snap, shuttingDown, errs, critErr, monitor >>
        BY <1>2 DEF Start, Notify, Connect, FetchHealthChecks
    <2>2. pc' \in {"notified", "fetchChecks", "select"}
        BY <1>2 DEF Start, Notify, Connect, FetchHealthChecks
    <2>3. ~shuttingDown /\ ~shuttingDown'
        BY <1>0, <2>1, StageFacts
    <2>4. Stage = "reporting" /\ Stage' = "reporting"
        BY <1>0, <2>2, <2>3 DEF Stage, LeavePCs, DrainPCs
    <2>5. pc \notin ReportPCs /\ pc' \notin ReportPCs
        BY <1>0, <2>2 DEF ReportPCs
    <2> QED
        BY <1>0, <2>1, <2>3, <2>4, <2>5 DEF Reporter!reporterVars
<1> QED
    BY <1>1, <1>2

(* A step of syncChecks writes at most the verdict of one check.              *)
LEMMA WriteReports ==
    ASSUME ReportInv, pc \in ReportPCs, pc' \in ReportPCs \cup {"select"},
           snap' = snap \/ pc' = "select",
           UNCHANGED << meta, dpStopped, registered, loggedIn, shuttingDown, errs, critErr,
                        sigterms, monitor >>,
           \/ check' = check
           \/ \E c \in Known : /\ check[c] # "gone"
                               /\ check' = [check EXCEPT ![c] = Reporter!Verdict(c, snap)]
    PROVE  Reporter!Report
<1>1. Stage = "reporting" /\ ~shuttingDown /\ Look = {snap}
    BY StageFacts
<1>2. Stage' = "reporting"
    BY <1>1 DEF Stage, ReportPCs, DrainPCs, LeavePCs
<1>3. (IF pc \in ReportPCs THEN {snap} ELSE {}) = {snap}
    BY <1>1 DEF Look
<1>4. (IF pc \in ReportPCs THEN {snap} ELSE {})' \in {{snap}, {}}
    BY DEF ReportPCs
<1>5. UNCHANGED << shuttingDown /\ pc \notin DrainPCs /\ ~critErr >>
    BY <1>1
<1> QED
    BY <1>1, <1>2, <1>3, <1>4, <1>5 DEF Reporter!Report, Reporter!outside, Reporter!course

LEMMA SyncReports ==
    ASSUME ReportInv, ReportInv', Sync
    PROVE  Reporter!ReporterNext
<1> USE Constants DEF task, consul, signals, client, loop
<1>1. /\ pc \in ReportPCs /\ pc' \in ReportPCs \cup {"select"}
      /\ snap' = snap \/ pc' = "select"
      /\ UNCHANGED << meta, dpStopped, registered, loggedIn, shuttingDown, errs, critErr,
                      sigterms, monitor >>
    BY DEF Sync, MarkMissing, MarkMissingProxy, SyncContainer, Aggregate, AggregateProxy,
           AfterMissing, ReportPCs
<1>2. pc \notin LeavingPCs /\ TypeOK /\ GoneLate /\ MissingOnes
    BY <1>1 DEF ReportPCs, LeavingPCs, ReportInv
<1>3. \/ check' = check
      \/ \E c \in Known : /\ check[c] # "gone"
                          /\ check' = [check EXCEPT ![c] = Reporter!Verdict(c, snap)]
    <2>1. CASE MarkMissing
        <3>1. PICK n \in todo, ok \in BOOLEAN : Update(n, "UNHEALTHY", ok)
            BY <2>1 DEF MarkMissing
        <3>2. n \in Missing(snap)
            BY <1>2, <2>1 DEF MarkMissing, MissingOnes
        <3> QED
            BY <1>2, <3>1, <3>2, UpdateBoard, MissingVerdict
    <2>2. CASE MarkMissingProxy
        <3>1. PICK ok \in BOOLEAN : Update(Proxy, "UNHEALTHY", ok)
            BY <2>2 DEF MarkMissingProxy
        <3>2. Dataplane \in Missing(snap) /\ Proxy \notin Apps
            BY <1>2, <2>2 DEF MarkMissingProxy, MissingOnes, Names
        <3> QED
            BY <1>2, <3>1, <3>2, UpdateBoard, MissingVerdict
    <2>3. CASE SyncContainer
        <3>1. PICK n \in todo :
                \/ check' = check
                \/ n # Dataplane /\ \E ok \in BOOLEAN : Update(n, snap[n], ok)
            BY <2>3 DEF SyncContainer
        <3>2. n # Dataplane => n \in Apps
            BY <1>2 DEF TypeOK, Names
        <3> QED
            BY <1>2, <3>1, <3>2, UpdateBoard, PresentVerdict
    <2>4. CASE Aggregate \/ AggregateProxy
        <3>1. PICK c \in {Dataplane, Proxy}, ok \in BOOLEAN : Update(c, Overall(snap), ok)
            BY <2>4 DEF Aggregate, AggregateProxy
        <3> QED
            BY <1>2, <3>1, UpdateBoard, OverallVerdict
    <2> QED
        BY <2>1, <2>2, <2>3, <2>4 DEF Sync
<1>4. Reporter!Report
    BY <1>1, <1>3, WriteReports
<1> QED
    BY <1>4 DEF Reporter!ReporterNext

(* The branches of the select.                                                *)
LEMMA SelectReports ==
    ASSUME ReportInv, ReportInv', SyncChecks \/ SwitchServer \/ HandleSigterm \/ HandleDone
    PROVE  [Reporter!ReporterNext]_(Reporter!reporterVars)
<1> USE DEF task, consul, signals, client, loop
<1>0. pc = "select" /\ pc \notin ReportPCs
    BY DEF SyncChecks, SwitchServer, HandleSigterm, HandleDone, ReportPCs
<1>1. CASE SyncChecks
    <2>1. UNCHANGED << task, consul, shuttingDown, errs, critErr, sigterms, monitor >>
        BY <1>1 DEF SyncChecks
    <2>2. ~shuttingDown /\ snap' = meta /\ pc' \in {"missing", "present"}
        BY <1>1 DEF SyncChecks
    <2>3. Stage = "reporting" /\ Stage' = "reporting"
        BY <1>0, <2>1, <2>2 DEF Stage, DrainPCs, LeavePCs
    <2>4. (IF pc \in ReportPCs THEN {snap} ELSE {}) = {}
        BY <1>0
    <2>5. (IF pc \in ReportPCs THEN {snap} ELSE {})' = {meta}
        BY <2>2 DEF ReportPCs
    <2>6. UNCHANGED (shuttingDown /\ pc \notin DrainPCs /\ ~critErr)
        BY <2>1, <2>2
    <2>7. Reporter!Observe
        BY <2>1, <2>3, <2>4, <2>5, <2>6
           DEF Reporter!Observe, Reporter!outside, Reporter!entries, Reporter!course
    <2> QED
        BY <2>7 DEF Reporter!ReporterNext
<1>2. CASE SwitchServer
    BY <1>2 DEF SwitchServer, Stage, Reporter!reporterVars
<1>3. CASE HandleSigterm
    <2>1. UNCHANGED << task, consul, sigterms, monitor >>
        BY <1>3 DEF HandleSigterm
    <2>2. sigs /\ pc' = "critical"
        BY <1>3 DEF HandleSigterm
    <2>3. (sigterms > 0) = TRUE
        BY <2>2 DEF ReportInv, Asked
    <2>4. Stage \in {"reporting", "waiting"} /\ Stage' = "draining"
        BY <1>0, <2>2, StageFacts DEF Stage, DrainPCs, LeavePCs
    <2>5. (IF pc \in ReportPCs THEN {snap} ELSE {}) = {}
        BY <1>0
    <2>6. (IF pc \in ReportPCs THEN {snap} ELSE {})' = {}
        BY <2>2 DEF ReportPCs
    <2>7. (shuttingDown /\ pc \notin DrainPCs /\ ~critErr)' = FALSE
        BY <2>2 DEF DrainPCs
    <2>8. Reporter!StartDrain
        BY <2>1, <2>3, <2>4, <2>5, <2>6, <2>7
           DEF Reporter!StartDrain, Reporter!outside, Reporter!entries
    <2> QED
        BY <2>8 DEF Reporter!ReporterNext
<1>4. CASE HandleDone
    <2>1. UNCHANGED << task, consul, shuttingDown, critErr, sigterms, monitor >>
        BY <1>4 DEF HandleDone
    <2>2. (monitor = "done") = TRUE /\ pc' = "deregister"
        BY <1>4 DEF HandleDone
    <2>3. Stage \in {"reporting", "waiting"} /\ Stage' = "leaving"
        <3>1. Stage \in {"reporting", "waiting"}
            BY <1>0, StageFacts
        <3>2. pc' \in LeavePCs /\ pc' \notin DrainPCs /\ pc' # "exited"
            BY <2>2 DEF LeavePCs, DrainPCs
        <3> QED
            BY <3>1, <3>2 DEF Stage
    <2>4. (IF pc \in ReportPCs THEN {snap} ELSE {}) = {}
        BY <1>0
    <2>5. (IF pc \in ReportPCs THEN {snap} ELSE {})' = {}
        BY <2>2 DEF ReportPCs
    <2>6. UNCHANGED (shuttingDown /\ pc \notin DrainPCs /\ ~critErr)
        BY <1>0, <2>1, <2>2 DEF DrainPCs
    <2>7. Reporter!StartLeaving
        BY <2>1, <2>2, <2>3, <2>4, <2>5, <2>6
           DEF Reporter!StartLeaving, Reporter!outside, Reporter!entries, Reporter!course
    <2> QED
        BY <2>7 DEF Reporter!ReporterNext
<1> QED
    BY <1>1, <1>2, <1>3, <1>4

LEMMA MonitorReports ==
    ASSUME ReportInv, MonitorNotify \/ MonitorPoll
    PROVE  [Reporter!ReporterNext]_(Reporter!reporterVars)
<1> USE DEF task, consul, signals, client, loop
<1>1. UNCHANGED << meta, dpStopped, check, registered, loggedIn, pc, snap, shuttingDown, errs,
                   critErr, sigterms >>
    BY DEF MonitorNotify, MonitorPoll
<1>2. UNCHANGED Stage
    BY <1>1 DEF Stage
<1>3. CASE MonitorNotify
    BY <1>1, <1>2, <1>3 DEF MonitorNotify, Reporter!reporterVars
<1>4. CASE MonitorPoll
    <2>1. (sigterms > 0) = TRUE
        BY <1>4 DEF MonitorPoll, ReportInv, Asked
    <2>2. (monitor = "done")' = TRUE
        BY <1>4 DEF MonitorPoll
    <2>3. Stage \notin Reporter!Ended
        BY <1>4, StageFacts DEF MonitorPoll
    <2>4. dpStopped \/ meta[Dataplane] = "missing"
        BY <1>4 DEF MonitorPoll, HasContainerStopped
    <2>5. Reporter!SeeDataplaneEnd
        BY <1>1, <1>2, <2>1, <2>2, <2>3, <2>4
           DEF Reporter!SeeDataplaneEnd, Reporter!outside, Reporter!entries
    <2> QED
        BY <2>5 DEF Reporter!ReporterNext
<1> QED
    BY <1>3, <1>4

(* A step of setChecksCritical; the last one says whether all went well, and  *)
(* Draining says what that means.                                             *)
LEMMA DrainReports ==
    ASSUME ReportInv, ReportInv', SetCheckCritical \/ SetProxyCritical
    PROVE  Reporter!ReporterNext
<1> USE DEF task, consul, signals, client, loop
<1>1. /\ pc \in DrainPCs /\ pc' \in DrainPCs \cup {"select"}
      /\ UNCHANGED << meta, dpStopped, registered, loggedIn, snap, shuttingDown, sigterms,
                      monitor >>
    BY DEF SetCheckCritical, SetProxyCritical, AfterCritical, DrainPCs
<1>2. pc \notin LeavingPCs /\ TypeOK /\ GoneLate /\ shuttingDown
    BY <1>1 DEF DrainPCs, LeavingPCs, ReportInv, Phases
<1>3. \/ check' = check
      \/ \E c \in Known : check[c] # "gone" /\ check' = [check EXCEPT ![c] = "critical"]
    <2>1. PICK id : \E ok \in BOOLEAN : Update(id, "UNHEALTHY", ok)
        BY DEF SetCheckCritical, SetProxyCritical
    <2>2. ToConsul("UNHEALTHY") = "critical"
        BY DEF ToConsul
    <2> QED
        BY <1>2, <2>1, <2>2, UpdateBoard
<1>4. Stage = "draining"
    BY <1>1, StageFacts
<1>5. (IF pc \in ReportPCs THEN {snap} ELSE {}) = {}
    BY <1>1 DEF DrainPCs, ReportPCs
<1>6. (IF pc \in ReportPCs THEN {snap} ELSE {})' = {}
    BY <1>1 DEF DrainPCs, ReportPCs
<1>7. (shuttingDown /\ pc \notin DrainPCs /\ ~critErr) = FALSE
    BY <1>1
<1>8. CASE pc' \in DrainPCs
    <2>1. Stage' = "draining"
        BY <1>8 DEF Stage, DrainPCs, LeavePCs
    <2>2. (shuttingDown /\ pc \notin DrainPCs /\ ~critErr)' = FALSE
        BY <1>8
    <2>3. Reporter!Drain
        BY <1>1, <1>3, <1>4, <1>5, <1>6, <1>7, <2>1, <2>2
           DEF Reporter!Drain, Reporter!outside
    <2> QED
        BY <2>3 DEF Reporter!ReporterNext
<1>9. CASE pc' = "select"
    <2>1. Stage' = "waiting"
        BY <1>1, <1>2, <1>9 DEF Stage, DrainPCs, LeavePCs
    <2>2. critErr' = FALSE => Reporter!NonePasses(check')
        BY <1>1, <1>2, <1>9
           DEF ReportInv, Draining, DrainedBeforeDeregistration, Reporter!NonePasses
    <2>3. (shuttingDown /\ pc \notin DrainPCs /\ ~critErr)' \in
            {FALSE, Reporter!NonePasses(check')}
        <3>1. critErr' \in BOOLEAN
            BY DEF ReportInv, TypeOK
        <3>2. CASE critErr' = TRUE
            BY <3>2
        <3>3. CASE critErr' = FALSE
            <4>1. Reporter!NonePasses(check') = TRUE
                BY <2>2, <3>3 DEF Reporter!NonePasses
            <4>2. (shuttingDown /\ pc \notin DrainPCs /\ ~critErr)' = TRUE
                BY <1>1, <1>2, <1>9, <3>3 DEF DrainPCs
            <4> QED
                BY <4>1, <4>2
        <3> QED
            BY <3>1, <3>2, <3>3
    <2>4. Reporter!Drain
        BY <1>1, <1>3, <1>4, <1>5, <1>6, <2>1, <2>3 DEF Reporter!Drain, Reporter!outside
    <2> QED
        BY <2>4 DEF Reporter!ReporterNext
<1> QED
    BY <1>1, <1>8, <1>9

(* The steps after the monitor's signal.                                      *)
LEMMA LeaveReports ==
    ASSUME ReportInv, ReportInv',
           DeregisterService \/ DeregisterProxy \/ Logout \/ Return
    PROVE  [Reporter!ReporterNext]_(Reporter!reporterVars)
<1> USE DEF task, consul, signals, client, loop
<1>0. /\ pc \in LeavePCs /\ pc \notin ReportPCs /\ pc \notin DrainPCs
      /\ UNCHANGED << meta, dpStopped, sigterms >>
    BY DEF DeregisterService, DeregisterProxy, Logout, Return, LeavePCs, ReportPCs, DrainPCs
<1>1. Stage = "leaving" /\ Stage \notin Reporter!Ended
    BY <1>0, StageFacts DEF Reporter!Ended
<1>2. (IF pc \in ReportPCs THEN {snap} ELSE {}) = {}
    BY <1>0
<1>3. pc' \in LeavePCs \cup {"exited"}
    BY DEF DeregisterService, DeregisterProxy, Logout, Return, AfterDeregister, Exit, LeavePCs
<1>4. (IF pc \in ReportPCs THEN {snap} ELSE {})' = {}
    BY <1>3 DEF LeavePCs, ReportPCs
<1>5. CASE DeregisterService \/ DeregisterProxy \/ Logout
    <2>1. pc' \in LeavePCs /\ UNCHANGED << shuttingDown, critErr, monitor >>
        BY <1>5 DEF DeregisterService, DeregisterProxy, Logout, AfterDeregister, LeavePCs
    <2>2. pc' # "exited" /\ pc' \notin DrainPCs
        BY <2>1 DEF LeavePCs, DrainPCs
    <2>3. Stage' = "leaving"
        BY <2>1, <2>2 DEF Stage
    <2>4. UNCHANGED (shuttingDown /\ pc \notin DrainPCs /\ ~critErr)
        BY <1>0, <2>1, <2>2
    <2>5. CASE DeregisterService \/ DeregisterProxy
        <3>1. PICK svc \in {"service", "proxy"} : Deregister(svc) /\ loggedIn' = loggedIn
            BY <2>5 DEF DeregisterService, DeregisterProxy
        <3>2. CASE Removed(svc)
            <4>1. check' = [c \in Known |->
                              IF c \in Reporter!ChecksOf(svc) THEN "gone" ELSE check[c]]
                BY <3>2 DEF Removed, Reporter!ChecksOf
            <4>2. Reporter!Withdraw(svc)
                BY <1>0, <1>1, <1>2, <1>4, <2>1, <2>3, <2>4, <3>1, <3>2, <4>1
                   DEF Removed, Reporter!Withdraw, Reporter!outside, Reporter!course
            <4> QED
                BY <4>2 DEF Reporter!ReporterNext
        <3>3. CASE ~Removed(svc)
            <4>1. UNCHANGED << registered, check >>
                BY <3>1, <3>3 DEF Deregister
            <4> QED
                BY <1>0, <1>1, <1>2, <1>4, <2>1, <2>3, <2>4, <3>1, <4>1
                   DEF Reporter!reporterVars
        <3> QED
            BY <3>2, <3>3
    <2>6. CASE Logout
        <3>1. UNCHANGED << check, registered >>
            BY <2>6 DEF Logout
        <3>2. CASE loggedIn' = loggedIn
            BY <1>0, <1>1, <1>2, <1>4, <2>1, <2>3, <2>4, <3>1, <3>2
               DEF Reporter!reporterVars
        <3>3. CASE loggedIn' = FALSE
            <4>1. Reporter!LogOut
                BY <1>0, <1>1, <1>2, <1>4, <2>1, <2>3, <2>4, <3>1, <3>3
                   DEF Reporter!LogOut, Reporter!outside, Reporter!course
            <4> QED
                BY <4>1 DEF Reporter!ReporterNext
        <3> QED
            BY <2>6, <3>2, <3>3 DEF Logout
    <2> QED
        BY <1>5, <2>5, <2>6
<1>6. CASE Return
    <2>1. /\ pc' = "exited" /\ errs' = errs /\ errs \in BOOLEAN
          /\ UNCHANGED << check, registered, loggedIn >>
        BY <1>6 DEF Return, Exit, ReportInv, TypeOK
    <2>2. pc' \notin LeavePCs /\ pc' \notin DrainPCs
        BY <2>1 DEF LeavePCs, DrainPCs
    <2>3. (monitor = "done")' = FALSE
        BY <1>6 DEF Return, Exit
    <2>4. (shuttingDown /\ pc \notin DrainPCs /\ ~critErr)' = FALSE
        BY <1>6 DEF Return, Exit
    <2>5. CASE errs
        <3>1. Stage' = "failed"
            BY <2>1, <2>2, <2>5 DEF Stage
        <3>2. Reporter!Finish
            BY <1>0, <1>1, <1>4, <2>1, <2>3, <2>4, <3>1
               DEF Reporter!Finish, Reporter!Fails, Reporter!outside, Reporter!entries
        <3> QED
            BY <3>2 DEF Reporter!ReporterNext
    <2>6. CASE ~errs
        <3>1. Stage' = "clean"
            BY <2>1, <2>2, <2>6 DEF Stage
        <3>2. registered = {} /\ ~loggedIn
            BY <1>6, <2>6 DEF Return, ReportInv, Leaving
        <3>3. Reporter!Finish
            BY <1>0, <1>1, <1>2, <1>4, <2>1, <2>3, <2>4, <3>1, <3>2
               DEF Reporter!Finish, Reporter!outside, Reporter!entries
        <3> QED
            BY <3>3 DEF Reporter!ReporterNext
    <2> QED
        BY <2>5, <2>6
<1> QED
    BY <1>5, <1>6

LEMMA NextReports ==
    ASSUME ReportInv, ReportInv', [Next]_vars
    PROVE  [Reporter!ReporterNext]_(Reporter!reporterVars)
<1>1. CASE Environment
    BY <1>1, EnvironmentReports
<1>2. CASE MonitorNotify \/ MonitorPoll
    BY <1>2, MonitorReports
<1>3. CASE Start
    BY <1>3, StartReports
<1>4. CASE SyncChecks \/ SwitchServer \/ HandleSigterm \/ HandleDone
    BY <1>4, SelectReports
<1>5. CASE Sync
    BY <1>5, SyncReports
<1>6. CASE SetCheckCritical \/ SetProxyCritical
    BY <1>6, DrainReports
<1>7. CASE DeregisterService \/ DeregisterProxy \/ Logout \/ Return
    BY <1>7, LeaveReports
<1>8. CASE UNCHANGED vars
    BY <1>8 DEF vars, Stage, Reporter!reporterVars
<1> QED
    BY <1>1, <1>2, <1>3, <1>4, <1>5, <1>6, <1>7, <1>8 DEF Next, Shutdown

(* health-sync implements HealthReporter: each of its steps is one of that    *)
(* specification or changes nothing that it speaks of, for services and       *)
(* gateways, with lost replies, lost servers, repeated SIGTERMs and SIGKILL.  *)
THEOREM ImplementsReporter == Spec => Reports
<1>1. ReportInv /\ ReportInv' /\ [Next]_vars =>
        [Reporter!ReporterNext]_(Reporter!reporterVars)
    BY NextReports
<1> QED
    BY <1>1, InitReportInv, NextReportInv, InitReports, PTL
       DEF Spec, Reports, Reporter!ReporterSpec
=============================================================================
