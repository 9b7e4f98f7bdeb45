------------------------ MODULE TaskReconcilerProofs ------------------------
(* Proofs about TaskReconciler, for every set of tasks, tokens, services and  *)
(* namespaces and every number of failed calls and restarts.                  *)
EXTENDS TaskReconciler, TLAPS

-----------------------------------------------------------------------------
(* What the steps below use of the assumptions on the constants.              *)

LEMMA BasicFacts ==
    /\ MaxFaults \in Nat
    /\ DefaultNamespace \in Namespaces
    /\ NoTask \notin TaskIds
    /\ Tasks \subseteq TaskIds
BY ConstantsAssumption DEF ConstantsAssumption, TaskIds

LEMMA TokenFacts ==
    /\ \A k \in Tokens : OwnToken(k) => TokenTask[k] \in TaskIds
    /\ \A k \in Tokens : TokenNS[k] \in Namespaces
    /\ \A k \in Tokens : OwnToken(k) /\ TokenTask[k] \in Tasks => Managed(TokenTask[k])
BY ConstantsAssumption DEF ConstantsAssumption, OwnToken

LEMMA ServiceFacts ==
    /\ \A s \in Services : ServiceTask[s] \in TaskIds \cup {NoTask}
    /\ \A s \in Services : ServiceTask[s] \in Tasks => Managed(ServiceTask[s])
BY ConstantsAssumption DEF ConstantsAssumption

LEMMA NamespaceFacts ==
    \A t \in Tasks : Managed(t) => TaskNS(t) \in Namespaces \cup {""}
BY ConstantsAssumption DEF ConstantsAssumption

-----------------------------------------------------------------------------
(* Type correctness.                                                          *)

LEMMA InitTypeOK == Init => TypeOK
<1> SUFFICES ASSUME Init PROVE TypeOK
    OBVIOUS
<1>1. status \in [Tasks -> Status]
    BY DEF Init, Status
<1>2. faults \in 0..MaxFaults
    BY BasicFacts DEF Init
<1> QED
    BY <1>1, <1>2, BasicFacts DEF Init, TypeOK, PCs, Foreign

LEMMA FaultTypeOK ==
    ASSUME faults \in 0..MaxFaults, Fault
    PROVE  faults' \in 0..MaxFaults
BY BasicFacts DEF Fault

(* Task steps keep the types: a task leaves Running only by RequestStop,      *)
(* which takes it out of established.                                         *)
LEMMA TaskTypeOK ==
    ASSUME TypeOK, NEW t \in Tasks, Task(t)
    PROVE  TypeOK'
<1> USE DEF TypeOK, Status, Stopped, catalog, nsState, locals, listing, visiting, history
<1>1. CASE StartTask(t)
    BY <1>1 DEF StartTask, Running
<1>2. CASE Login(t)
    BY <1>2 DEF Login, Running
<1>3. CASE RegisterService(t)
    BY <1>3 DEF RegisterService, Running
<1>4. CASE RequestStop(t)
    BY <1>4 DEF RequestStop, Running
<1>5. CASE TaskDeregisters(t)
    BY <1>5 DEF TaskDeregisters, Running
<1>6. CASE TaskLogsOut(t)
    BY <1>6 DEF TaskLogsOut, Running
<1>7. CASE TaskStopped(t)
    BY <1>7 DEF TaskStopped, Running
<1> QED
    BY <1>1, <1>2, <1>3, <1>4, <1>5, <1>6, <1>7 DEF Task

LEMMA ListTypeOK ==
    ASSUME TypeOK, List
    PROVE  TypeOK'
<1> USE BasicFacts
    DEF TypeOK, PCs, Running, Stopped, history, environment, locals, listing, visiting
<1>1. CASE ListFails
    BY <1>1, FaultTypeOK DEF ListFails, Forget
<1>2. CASE ListClient
    BY <1>2 DEF ListClient
<1>3. CASE ListTasks
    BY <1>3 DEF ListTasks
<1>4. CASE DescribeTasks
    BY <1>4 DEF DescribeTasks
<1>5. CASE ListNamespaces
    BY <1>5 DEF ListNamespaces
<1>6. CASE ListTokens
    BY <1>6 DEF ListTokens
<1>7. CASE ListServices
    <2>1. resources' \subseteq TaskIds
        BY <1>7, TokenFacts, ServiceFacts DEF ListServices, Untagged
    <2> QED
        BY <1>7, <2>1 DEF ListServices
<1>8. CASE ListServicesUntagged
    BY <1>8 DEF ListServicesUntagged, Forget
<1> QED
    BY <1>1, <1>2, <1>3, <1>4, <1>5, <1>6, <1>7, <1>8 DEF List

LEMMA ReconcileNamespacesTypeOK ==
    ASSUME TypeOK, ReconcileNamespaces
    PROVE  TypeOK'
<1> USE BasicFacts
    DEF TypeOK, PCs, Running, Stopped, history, environment, catalog, locals, listing, visiting
<1>1. CASE NamespacesFail
    BY <1>1, FaultTypeOK DEF NamespacesFail
<1>2. CASE NamespaceClient
    BY <1>2 DEF NamespaceClient
<1>3. CASE ReadPolicy
    BY <1>3 DEF ReadPolicy
<1>4. CASE CreatePolicy
    BY <1>4, FaultTypeOK DEF CreatePolicy
<1>5. CASE ReadDefault
    BY <1>5 DEF ReadDefault
<1>6. CASE UpdateDefault
    BY <1>6, FaultTypeOK DEF UpdateDefault
<1>7. CASE ListExisting
    BY <1>7, NamespaceFacts DEF ListExisting
<1>8. CASE CreateNamespace
    BY <1>8, FaultTypeOK DEF CreateNamespace
<1> QED
    BY <1>1, <1>2, <1>3, <1>4, <1>5, <1>6, <1>7, <1>8 DEF ReconcileNamespaces

LEMMA ReconcileTypeOK ==
    ASSUME TypeOK, Reconcile
    PROVE  TypeOK'
<1> USE BasicFacts
    DEF TypeOK, PCs, Running, Stopped, history, environment, nsState, locals, listing, visiting
<1>1. CASE NextResource
    BY <1>1 DEF NextResource
<1>2. CASE ResourcesDone
    BY <1>2 DEF ResourcesDone
<1>3. CASE ReconcileClient
    BY <1>3, FaultTypeOK DEF ReconcileClient, AfterDelete, TokensOf, ServicesOf
<1>4. CASE DeleteToken
    BY <1>4, FaultTypeOK DEF DeleteToken, AfterDelete
<1>5. CASE DeregisterService
    BY <1>5, FaultTypeOK DEF DeregisterService
<1> QED
    BY <1>1, <1>2, <1>3, <1>4, <1>5 DEF Reconcile

LEMMA NextTypeOK == TypeOK /\ [Next]_vars => TypeOK'
<1> SUFFICES ASSUME TypeOK, [Next]_vars PROVE TypeOK'
    OBVIOUS
<1>1. CASE \E t \in Tasks : Task(t)
    BY <1>1, TaskTypeOK
<1>2. CASE OperatorDeregisters
    BY <1>2 DEF OperatorDeregisters, TypeOK, Running, Stopped, history, nsState, locals
<1>3. CASE Wake
    BY <1>3 DEF Wake, TypeOK, PCs, Running, Stopped, history, environment, locals
<1>4. CASE List
    BY <1>4, ListTypeOK
<1>5. CASE ReconcileNamespaces
    BY <1>5, ReconcileNamespacesTypeOK
<1>6. CASE Reconcile
    BY <1>6, ReconcileTypeOK
<1>7. CASE Finish
    BY <1>7, BasicFacts DEF Finish, Forget, TypeOK, PCs, Running, Stopped, history, environment
<1>8. CASE Restart
    BY <1>8, BasicFacts, FaultTypeOK
    DEF Restart, Forget, TypeOK, PCs, Running, Stopped, history, environment
<1>9. CASE UNCHANGED vars
    BY <1>9 DEF vars, TypeOK, Running, Stopped
<1> QED
    BY <1>1, <1>2, <1>3, <1>4, <1>5, <1>6, <1>7, <1>8, <1>9 DEF Next, Controller

(* Every variable keeps its type; in particular the tasks taken for           *)
(* established are running at every moment of a cycle.                        *)
THEOREM TypeCorrect == Spec => []TypeOK
BY InitTypeOK, NextTypeOK, PTL DEF Spec

-----------------------------------------------------------------------------
(* OnlyLeftoversRemoved.  Coverage is what listing establishes: an established *)
(* managed task is found, or is still to be listed or described.  Visiting is *)
(* what the loop over the resources keeps: cur was not found, and what is to  *)
(* be removed belongs to cur.                                                 *)

Coverage ==
    /\ pc \in {"sleep", "listClient"} => established = {}
    /\ \A t \in established : Managed(t) =>
         \/ t \in found
         \/ pc \in {"listTasks", "describe"} /\ t \in unlisted
         \/ pc = "describe" /\ t \in page

Visiting ==
    /\ pc \in {"client", "delete", "deregister"} => cur \in TaskIds \ found
    /\ pc = "delete" => curTokens \subseteq TokensOf(cur)
    /\ pc \in {"delete", "deregister"} => curServices \subseteq ServicesOf(cur)

LEMMA InitCoverage == Init => Coverage /\ Visiting
BY DEF Init, Coverage, Visiting

(* Outside List nothing is added to established, and pc has passed listing.   *)
LEMMA LaterKeepsCoverage ==
    ASSUME Coverage, found' = found, established' = established,
           pc \notin {"sleep", "listClient", "listTasks", "describe"},
           pc' \notin {"sleep", "listClient", "listTasks", "describe"}
    PROVE  Coverage'
BY DEF Coverage

LEMMA TaskCoverage ==
    ASSUME Coverage, NEW t \in Tasks, Task(t)
    PROVE  Coverage'
BY DEF Coverage, Task, StartTask, Login, RegisterService, RequestStop, TaskDeregisters,
       TaskLogsOut, TaskStopped, locals, history

LEMMA ListCoverage ==
    ASSUME TypeOK, Coverage, List
    PROVE  Coverage'
<1>1. CASE ListFails
    BY <1>1 DEF ListFails, Forget, Coverage
<1>2. CASE ListClient
    BY <1>2 DEF ListClient, Coverage
<1>3. CASE ListTasks
    <2> PICK p \in SUBSET (unlisted \cup Running) :
            /\ unlisted \cap Running # {} => p \cap unlisted # {}
            /\ page' = p
            /\ unlisted' = (unlisted \cap Running) \ p
            /\ pc' = IF p = {} THEN "listNamespaces" ELSE "describe"
        BY <1>3 DEF ListTasks
    <2>1. established \subseteq Running
        BY DEF TypeOK
    <2>2. pc = "listTasks" /\ UNCHANGED << found, established >>
        BY <1>3 DEF ListTasks, history
    <2>3. ASSUME NEW t \in established, Managed(t)
          PROVE  t \in found \/ t \in unlisted \cap Running
        BY <2>1, <2>2, <2>3 DEF Coverage
    <2>4. CASE p = {}
        BY <2>2, <2>3, <2>4 DEF Coverage
    <2>5. CASE p # {}
        BY <2>2, <2>3, <2>5 DEF Coverage
    <2> QED
        BY <2>4, <2>5
<1>4. CASE DescribeTasks
    BY <1>4 DEF DescribeTasks, Coverage, TypeOK, history
<1>5. CASE ListNamespaces
    BY <1>5, LaterKeepsCoverage DEF ListNamespaces, listing, history
<1>6. CASE ListTokens
    BY <1>6, LaterKeepsCoverage DEF ListTokens, history
<1>7. CASE ListServices
    BY <1>7, LaterKeepsCoverage DEF ListServices, history
<1>8. CASE ListServicesUntagged
    BY <1>8 DEF ListServicesUntagged, Forget, Coverage
<1> QED
    BY <1>1, <1>2, <1>3, <1>4, <1>5, <1>6, <1>7, <1>8 DEF List

LEMMA NextCoverage ==
    ASSUME TypeOK, Coverage, [Next]_vars
    PROVE  Coverage'
<1>1. CASE \E t \in Tasks : Task(t)
    BY <1>1, TaskCoverage
<1>2. CASE OperatorDeregisters
    BY <1>2 DEF OperatorDeregisters, Coverage, locals, history
<1>3. CASE Wake
    BY <1>3 DEF Wake, Coverage, locals, history
<1>4. CASE List
    BY <1>4, ListCoverage
<1>5. CASE ReconcileNamespaces
    BY <1>5, LaterKeepsCoverage
       DEF ReconcileNamespaces, NamespacesFail, NamespaceClient, ReadPolicy, CreatePolicy,
           ReadDefault, UpdateDefault, ListExisting, CreateNamespace, locals, listing, history
<1>6. CASE Reconcile
    BY <1>6, LaterKeepsCoverage
       DEF Reconcile, NextResource, ResourcesDone, ReconcileClient, DeleteToken,
           DeregisterService, AfterDelete, locals, listing, history
<1>7. CASE Finish \/ Restart
    BY <1>7 DEF Finish, Restart, Forget, Coverage
<1>8. CASE UNCHANGED vars
    BY <1>8 DEF vars, Coverage
<1> QED
    BY <1>1, <1>2, <1>3, <1>4, <1>5, <1>6, <1>7, <1>8 DEF Next, Controller

LEMMA NextVisiting ==
    ASSUME TypeOK, Visiting, [Next]_vars
    PROVE  Visiting'
<1> USE DEF Visiting, TokensOf, ServicesOf, locals
<1>1. CASE \E t \in Tasks : Task(t)
    BY <1>1 DEF Task, StartTask, Login, RegisterService, RequestStop, TaskDeregisters,
                TaskLogsOut, TaskStopped
<1>2. CASE OperatorDeregisters
    BY <1>2 DEF OperatorDeregisters
<1>3. CASE Wake
    BY <1>3 DEF Wake
<1>4. CASE List
    BY <1>4 DEF List, ListFails, ListClient, ListTasks, DescribeTasks, ListNamespaces,
                ListTokens, ListServices, ListServicesUntagged
<1>5. CASE ReconcileNamespaces
    BY <1>5 DEF ReconcileNamespaces, NamespacesFail, NamespaceClient, ReadPolicy,
                CreatePolicy, ReadDefault, UpdateDefault, ListExisting, CreateNamespace
<1>6. CASE NextResource
    BY <1>6 DEF NextResource, TypeOK, listing
<1>7. CASE ResourcesDone
    BY <1>7 DEF ResourcesDone
<1>8. CASE ReconcileClient
    BY <1>8 DEF ReconcileClient, AfterDelete, listing
<1>9. CASE DeleteToken
    BY <1>9 DEF DeleteToken, AfterDelete, listing
<1>10. CASE DeregisterService
    BY <1>10 DEF DeregisterService, listing
<1>11. CASE Finish \/ Restart
    BY <1>11 DEF Finish, Restart
<1>12. CASE UNCHANGED vars
    BY <1>12 DEF vars
<1> QED
    BY <1>1, <1>2, <1>3, <1>4, <1>5, <1>6, <1>7, <1>8, <1>9, <1>10, <1>11, <1>12
       DEF Next, Controller, Reconcile

(* A removal happens in DeleteToken or DeregisterService, of something of     *)
(* cur; cur was not found, so by Coverage it is no established task.          *)
LEMMA RemovalStep ==
    ASSUME TypeOK, Coverage, Visiting, Controller
    PROVE  TakesOnlyLeftovers
<1>1. CASE DeleteToken
    <2>1. services' = services /\ pc = "delete"
        BY <1>1 DEF DeleteToken
    <2>2. ASSUME NEW k \in tokens \ tokens'
          PROVE  OwnToken(k) /\ TokenTask[k] \notin established
        <3>1. k \in curTokens
            BY <1>1, <2>2 DEF DeleteToken
        <3>2. k \in Tokens /\ OwnToken(k) /\ TokenTask[k] = cur
            BY <2>1, <3>1 DEF Visiting, TokensOf, TypeOK
        <3>3. cur \notin found
            BY <2>1 DEF Visiting
        <3>4. ASSUME cur \in established PROVE FALSE
            <4>1. cur \in Tasks
                BY <3>4 DEF TypeOK, Running
            <4> QED
                BY <2>1, <3>2, <3>3, <3>4, <4>1, TokenFacts DEF Coverage
        <3> QED
            BY <3>2, <3>4
    <2> QED
        BY <2>1, <2>2 DEF TakesOnlyLeftovers
<1>2. CASE DeregisterService
    <2>1. tokens' = tokens /\ pc = "deregister"
        BY <1>2 DEF DeregisterService
    <2>2. ASSUME NEW s \in services \ services'
          PROVE  ServiceTask[s] # NoTask /\ ServiceTask[s] \notin established
        <3>1. s \in curServices
            BY <1>2, <2>2 DEF DeregisterService
        <3>2. s \in Services /\ ServiceTask[s] = cur
            BY <2>1, <3>1 DEF Visiting, ServicesOf, TypeOK
        <3>3. cur \in TaskIds \ found
            BY <2>1 DEF Visiting
        <3>4. ASSUME cur \in established PROVE FALSE
            <4>1. cur \in Tasks
                BY <3>4 DEF TypeOK, Running
            <4> QED
                BY <2>1, <3>2, <3>3, <3>4, <4>1, ServiceFacts DEF Coverage
        <3> QED
            BY <3>2, <3>3, <3>4, BasicFacts
    <2> QED
        BY <2>1, <2>2 DEF TakesOnlyLeftovers
<1>3. CASE ~DeleteToken /\ ~DeregisterService
    <2>1. UNCHANGED << tokens, services >>
        BY <1>3
           DEF Controller, Wake, Finish, List, ReconcileNamespaces, Reconcile, ListFails,
               ListClient, ListTasks, DescribeTasks, ListNamespaces, ListTokens,
               ListServices, ListServicesUntagged, NamespacesFail, NamespaceClient,
               ReadPolicy, CreatePolicy, ReadDefault, UpdateDefault, ListExisting,
               CreateNamespace, NextResource, ResourcesDone, ReconcileClient, environment,
               catalog
    <2> QED
        BY <2>1 DEF TakesOnlyLeftovers
<1> QED
    BY <1>1, <1>2, <1>3

(* The controller takes tokens and services only from tasks of its cluster    *)
(* that have not been running since its cycle began to list.                  *)
THEOREM LeftoversOnly == Spec => OnlyLeftoversRemoved
<1>1. Init => TypeOK /\ Coverage /\ Visiting
    BY InitTypeOK, InitCoverage
<1>2. TypeOK /\ Coverage /\ Visiting /\ [Next]_vars => (TypeOK /\ Coverage /\ Visiting)'
    BY NextTypeOK, NextCoverage, NextVisiting
<1>3. TypeOK /\ Coverage /\ Visiting /\ [Next]_vars =>
          [Controller => TakesOnlyLeftovers]_vars
    BY RemovalStep
<1> QED
    BY <1>1, <1>2, <1>3, PTL DEF Spec, OnlyLeftoversRemoved

-----------------------------------------------------------------------------
(* NamespacesGoverned.  The policy exists from the moment upsertCrossNSPolicy *)
(* reads the default namespace, and only namespaces of tasks found, which are *)
(* managed, are created.                                                      *)

PolicyReady ==
    /\ pc \in {"readDefault", "updateDefault", "listExisting", "createNamespaces"} => xnsPolicy
    /\ pc = "createNamespaces" => nsTodo \subseteq {TaskNS(t) : t \in found}

LEMMA NextPolicyReady ==
    ASSUME PolicyReady, [Next]_vars
    PROVE  PolicyReady'
<1> USE DEF PolicyReady, locals, nsState, environment
<1>1. CASE \E t \in Tasks : Task(t)
    BY <1>1 DEF Task, StartTask, Login, RegisterService, RequestStop, TaskDeregisters,
                TaskLogsOut, TaskStopped
<1>2. CASE OperatorDeregisters
    BY <1>2 DEF OperatorDeregisters
<1>3. CASE Wake \/ Finish \/ Restart
    BY <1>3 DEF Wake, Finish, Restart
<1>4. CASE List
    BY <1>4 DEF List, ListFails, ListClient, ListTasks, DescribeTasks, ListNamespaces,
                ListTokens, ListServices, ListServicesUntagged
<1>5. CASE ReconcileNamespaces
    BY <1>5 DEF ReconcileNamespaces, NamespacesFail, NamespaceClient, ReadPolicy,
                CreatePolicy, ReadDefault, UpdateDefault, ListExisting, CreateNamespace,
                listing
<1>6. CASE Reconcile
    BY <1>6 DEF Reconcile, NextResource, ResourcesDone, ReconcileClient, DeleteToken,
                DeregisterService, AfterDelete
<1>7. CASE UNCHANGED vars
    BY <1>7 DEF vars
<1> QED
    BY <1>1, <1>2, <1>3, <1>4, <1>5, <1>6, <1>7 DEF Next, Controller

LEMMA NextNamespacesGoverned ==
    ASSUME TypeOK, PolicyReady, NamespacesGoverned, [Next]_vars
    PROVE  NamespacesGoverned'
<1> USE DEF NamespacesGoverned
<1>1. CASE CreatePolicy
    BY <1>1 DEF CreatePolicy
<1>2. CASE UpdateDefault
    BY <1>2 DEF UpdateDefault, PolicyReady
<1>3. CASE CreateNamespace
    <2>1. \A ns \in namespaces' \ namespaces : \E t \in found : TaskNS(t) = ns
        BY <1>3 DEF CreateNamespace, PolicyReady
    <2>2. \A t \in found :
              t \in Tasks /\ MeshTag[t] /\ TaskPartition(t) = Partition
        BY DEF TypeOK, Managed
    <2>3. \A ns \in namespaces' \ {DefaultNamespace} :
              \E t \in Tasks : MeshTag[t] /\ TaskPartition(t) = Partition /\ TaskNS(t) = ns
        BY <2>1, <2>2
    <2> QED
        BY <1>3, <2>3 DEF CreateNamespace, PolicyReady, TypeOK
<1>4. CASE ~CreatePolicy /\ ~UpdateDefault /\ ~CreateNamespace
    <2>1. UNCHANGED nsState
        BY <1>4
           DEF Next, Controller, Wake, Finish, Restart, List, ReconcileNamespaces, Reconcile,
               ListFails, ListClient, ListTasks, DescribeTasks, ListNamespaces, ListTokens,
               ListServices, ListServicesUntagged, NamespacesFail, NamespaceClient,
               ReadPolicy, ReadDefault, ListExisting, NextResource, ResourcesDone,
               ReconcileClient, DeleteToken, DeregisterService, environment, nsState,
               Task, StartTask, Login, RegisterService, RequestStop, TaskDeregisters,
               TaskLogsOut, TaskStopped, OperatorDeregisters, vars
    <2> QED
        BY <2>1 DEF nsState
<1> QED
    BY <1>1, <1>2, <1>3, <1>4

(* Every namespace the controller creates is one of a managed task and has    *)
(* the cross-namespace policy, which exists before any namespace refers to it. *)
THEOREM Governed == Spec => []NamespacesGoverned
<1>1. Init => TypeOK /\ PolicyReady /\ NamespacesGoverned
    BY InitTypeOK DEF Init, PolicyReady, NamespacesGoverned
<1>2. TypeOK /\ PolicyReady /\ NamespacesGoverned /\ [Next]_vars =>
          (TypeOK /\ PolicyReady /\ NamespacesGoverned)'
    BY NextTypeOK, NextPolicyReady, NextNamespacesGoverned
<1> QED
    BY <1>1, <1>2, PTL DEF Spec

-----------------------------------------------------------------------------
(* CleanCycleLeavesNothing, of the tokens the cycle saw.  A token once gone   *)
(* does not come back, so a token the cycle saw and that is still there is    *)
(* still to be visited, or belongs to a task that was found, or an error has  *)
(* been noted.                                                                *)

TokensOnce == tokens \cup seenTokens \subseteq made

PastListing == {"nsClient", "readPolicy", "createPolicy", "readDefault", "updateDefault",
                "listExisting", "createNamespaces", "next", "client", "delete",
                "deregister", "done"}

Accounted(k) ==
    \/ k \notin tokens
    \/ TokenTask[k] \in found
    \/ merr
    \/ TokenTask[k] \in resources /\ pc # "done"
    \/ pc = "client" /\ TokenTask[k] = cur
    \/ pc = "delete" /\ k \in curTokens

AllAccounted == pc \in PastListing => \A k \in seenTokens : Accounted(k)

LEMMA NextTokensOnce ==
    ASSUME TokensOnce, [Next]_vars
    PROVE  TokensOnce'
<1> USE DEF TokensOnce, locals, environment, catalog, listing
<1>1. CASE \E t \in Tasks : Task(t)
    BY <1>1 DEF Task, StartTask, Login, RegisterService, RequestStop, TaskDeregisters,
                TaskLogsOut, TaskStopped
<1>2. CASE OperatorDeregisters
    BY <1>2 DEF OperatorDeregisters
<1>3. CASE Wake \/ Finish \/ Restart
    BY <1>3 DEF Wake, Finish, Restart, Forget
<1>4. CASE List
    BY <1>4 DEF List, ListFails, ListClient, ListTasks, DescribeTasks, ListNamespaces,
                ListTokens, ListServices, ListServicesUntagged, Forget
<1>5. CASE ReconcileNamespaces
    BY <1>5 DEF ReconcileNamespaces, NamespacesFail, NamespaceClient, ReadPolicy,
                CreatePolicy, ReadDefault, UpdateDefault, ListExisting, CreateNamespace
<1>6. CASE Reconcile
    BY <1>6 DEF Reconcile, NextResource, ResourcesDone, ReconcileClient, DeleteToken,
                DeregisterService, AfterDelete
<1>7. CASE UNCHANGED vars
    BY <1>7 DEF vars
<1> QED
    BY <1>1, <1>2, <1>3, <1>4, <1>5, <1>6, <1>7 DEF Next, Controller

(* No step brings back a token the cycle saw.                                 *)
LEMMA SeenStayGone ==
    ASSUME TokensOnce, [Next]_vars, NEW k \in seenTokens, k \notin tokens
    PROVE  k \notin tokens'
BY DEF TokensOnce, Next, Controller, Wake, Finish, Restart, List, ReconcileNamespaces,
       Reconcile, ListFails, ListClient, ListTasks, DescribeTasks, ListNamespaces,
       ListTokens, ListServices, ListServicesUntagged, NamespacesFail, NamespaceClient,
       ReadPolicy, CreatePolicy, ReadDefault, UpdateDefault, ListExisting,
       CreateNamespace, NextResource, ResourcesDone, ReconcileClient, DeleteToken,
       DeregisterService, environment, catalog, Task, StartTask, Login, RegisterService,
       RequestStop, TaskDeregisters, TaskLogsOut, TaskStopped, OperatorDeregisters, vars

LEMMA NextAllAccounted ==
    ASSUME TypeOK, TokensOnce, AllAccounted, [Next]_vars
    PROVE  AllAccounted'
<1> USE SeenStayGone DEF AllAccounted, Accounted, PastListing, locals, listing
<1>1. CASE \E t \in Tasks : Task(t)
    BY <1>1 DEF Task, StartTask, Login, RegisterService, RequestStop, TaskDeregisters,
                TaskLogsOut, TaskStopped
<1>2. CASE OperatorDeregisters
    BY <1>2 DEF OperatorDeregisters
<1>3. CASE Wake \/ Finish \/ Restart
    BY <1>3 DEF Wake, Finish, Restart
<1>4. CASE ListServices
    BY <1>4 DEF ListServices
<1>5. CASE List /\ ~ListServices
    BY <1>5 DEF List, ListFails, ListClient, ListTasks, DescribeTasks, ListNamespaces,
                ListTokens, ListServicesUntagged
<1>6. CASE ReconcileNamespaces
    <2>1. UNCHANGED << seenTokens, found, resources >> /\ (merr' = merr \/ merr' = TRUE)
        BY <1>6 DEF ReconcileNamespaces, NamespacesFail, NamespaceClient, ReadPolicy,
                    CreatePolicy, ReadDefault, UpdateDefault, ListExisting, CreateNamespace
    <2>2. /\ pc \in PastListing \ {"next", "client", "delete", "deregister", "done"}
          /\ pc' \in PastListing \ {"client", "delete", "deregister", "done"}
        BY <1>6 DEF ReconcileNamespaces, NamespacesFail, NamespaceClient, ReadPolicy,
                    CreatePolicy, ReadDefault, UpdateDefault, ListExisting, CreateNamespace
    <2> QED
        BY <2>1, <2>2
<1>7. CASE NextResource
    BY <1>7 DEF NextResource
<1>8. CASE ResourcesDone
    BY <1>8 DEF ResourcesDone
<1>9. CASE ReconcileClient
    BY <1>9 DEF ReconcileClient, AfterDelete, TokensOf
<1>10. CASE DeleteToken
    BY <1>10 DEF DeleteToken, AfterDelete
<1>11. CASE DeregisterService
    BY <1>11 DEF DeregisterService
<1>12. CASE UNCHANGED vars
    BY <1>12 DEF vars
<1> QED
    BY <1>1, <1>2, <1>3, <1>4, <1>5, <1>6, <1>7, <1>8, <1>9, <1>10, <1>11, <1>12
       DEF Next, Controller, Reconcile

-----------------------------------------------------------------------------
(* CleanCycleLeavesNothing, of what there is to see.  A task that has stopped *)
(* is never listed again and makes no token any more, and every namespace     *)
(* that holds a token of it exists before the namespaces are listed.          *)

GoneUnfound ==
    /\ pc \in {"sleep", "listClient"} => page = {} /\ found = {} /\ gone = {}
    /\ (unlisted \cup page \cup found) \cap gone = {}

NamespacePCs == {"nsClient", "readPolicy", "createPolicy", "readDefault", "updateDefault",
                 "listExisting", "createNamespaces"}

NamespacesKnown ==
    /\ \A k \in tokens : TokenNS[k] \in namespaces
    /\ ~PartitionsEnabled => namespaces = {DefaultNamespace} /\ pc \notin NamespacePCs

Leftover(id) == id \in gone \cup OtherIds

TokensListed ==
    \A k \in tokens : OwnToken(k) /\ Leftover(TokenTask[k]) =>
        /\ pc = "listTokens" => k \in seenTokens \/ TokenNS[k] \in nsTodo
        /\ pc \in PastListing \cup {"listServices"} => k \in seenTokens

ServiceAccounted(s) ==
    /\ s \in seenServices
    /\ \/ ServiceTask[s] \in resources /\ pc # "done"
       \/ pc = "client" /\ ServiceTask[s] = cur
       \/ pc \in {"delete", "deregister"} /\ s \in curServices

ServicesAccounted ==
    /\ pc = "delete" => curServices = ServicesOf(cur)
    /\ faults = 0 /\ pc \in PastListing =>
         \A s \in services : Leftover(ServiceTask[s]) => ServiceAccounted(s)

LEMMA IdFacts == Tasks \cap OtherIds = {}
BY ConstantsAssumption DEF ConstantsAssumption

(* What the controller does before it visits a resource and what tasks do     *)
(* have no part in what is gone: gone changes only as a cycle begins or ends. *)
LEMMA NextGoneUnfound ==
    ASSUME TypeOK, GoneUnfound, [Next]_vars
    PROVE  GoneUnfound'
<1> USE DEF GoneUnfound, TypeOK, locals, environment, listing, history
<1>1. CASE \E t \in Tasks : Task(t)
    BY <1>1 DEF Task, StartTask, Login, RegisterService, RequestStop, TaskDeregisters,
                TaskLogsOut, TaskStopped
<1>2. CASE OperatorDeregisters
    BY <1>2 DEF OperatorDeregisters
<1>3. CASE Wake \/ Finish \/ Restart
    BY <1>3 DEF Wake, Finish, Restart, Forget
<1>4. CASE ListClient
    BY <1>4 DEF ListClient, Running, Stopped
<1>5. CASE ListTasks
    BY <1>5 DEF ListTasks, Running, Stopped
<1>6. CASE List /\ ~ListClient /\ ~ListTasks
    BY <1>6 DEF List, ListFails, DescribeTasks, ListNamespaces, ListTokens, ListServices,
                ListServicesUntagged, Forget
<1>7. CASE ReconcileNamespaces
    BY <1>7 DEF ReconcileNamespaces, NamespacesFail, NamespaceClient, ReadPolicy,
                CreatePolicy, ReadDefault, UpdateDefault, ListExisting, CreateNamespace
<1>8. CASE Reconcile
    BY <1>8 DEF Reconcile, NextResource, ResourcesDone, ReconcileClient, DeleteToken,
                DeregisterService, AfterDelete
<1>9. CASE UNCHANGED vars
    BY <1>9 DEF vars
<1> QED
    BY <1>1, <1>2, <1>3, <1>4, <1>5, <1>6, <1>7, <1>8, <1>9 DEF Next, Controller

LEMMA NextNamespacesKnown ==
    ASSUME TypeOK, NamespacesKnown, [Next]_vars
    PROVE  NamespacesKnown'
<1> USE DEF NamespacesKnown, NamespacePCs, locals, environment, catalog, nsState, listing
<1>1. CASE \E t \in Tasks : Task(t)
    BY <1>1 DEF Task, StartTask, Login, RegisterService, RequestStop, TaskDeregisters,
                TaskLogsOut, TaskStopped
<1>2. CASE OperatorDeregisters
    BY <1>2 DEF OperatorDeregisters
<1>3. CASE Wake \/ Finish \/ Restart
    BY <1>3 DEF Wake, Finish, Restart
<1>4. CASE List
    BY <1>4 DEF List, ListFails, ListClient, ListTasks, DescribeTasks, ListNamespaces,
                ListTokens, ListServices, ListServicesUntagged
<1>5. CASE ReconcileNamespaces
    BY <1>5 DEF ReconcileNamespaces, NamespacesFail, NamespaceClient, ReadPolicy,
                CreatePolicy, ReadDefault, UpdateDefault, ListExisting, CreateNamespace
<1>6. CASE Reconcile
    BY <1>6 DEF Reconcile, NextResource, ResourcesDone, ReconcileClient, DeleteToken,
                DeregisterService, AfterDelete
<1>7. CASE UNCHANGED vars
    BY <1>7 DEF vars
<1> QED
    BY <1>1, <1>2, <1>3, <1>4, <1>5, <1>6, <1>7 DEF Next, Controller

(* Only Login adds a token, of a task that is not gone.                       *)
LEMMA LoginIsNoLeftover ==
    ASSUME TypeOK, NEW t \in Tasks, Login(t), NEW k \in tokens', k \notin tokens
    PROVE  ~Leftover(TokenTask[k])
<1>1. TokenTask[k] = t
    BY DEF Login
<1>2. t \notin gone
    BY DEF Login, TypeOK, Stopped
<1> QED
    BY <1>1, <1>2, IdFacts DEF Leftover

(* Only RegisterService adds a service.                                       *)
LEMMA RegisteredIsNoLeftover ==
    ASSUME TypeOK, NEW t \in Tasks, RegisterService(t), NEW s \in services', s \notin services
    PROVE  ~Leftover(ServiceTask[s])
<1>1. ServiceTask[s] = t
    BY DEF RegisterService
<1>2. t \notin gone
    BY DEF RegisterService, TypeOK, Stopped
<1> QED
    BY <1>1, <1>2, IdFacts DEF Leftover

LEMMA NextTokensListed ==
    ASSUME TypeOK, NamespacesKnown, TokensListed, [Next]_vars
    PROVE  TokensListed'
<1> USE DEF TokensListed, PastListing, locals, environment, catalog, listing, history
<1>1. ASSUME NEW t \in Tasks, Login(t)
      PROVE  TokensListed'
    <2>1. UNCHANGED << pc, nsTodo, seenTokens, gone >>
        BY <1>1 DEF Login
    <2>2. \A k \in tokens' : k \notin tokens => ~Leftover(TokenTask[k])
        BY <1>1, LoginIsNoLeftover
    <2> QED
        BY <2>1, <2>2 DEF Leftover
<1>2. ASSUME NEW t \in Tasks, Task(t), ~Login(t)
      PROVE  TokensListed'
    BY <1>2 DEF Task, StartTask, RegisterService, RequestStop, TaskDeregisters,
                TaskLogsOut, TaskStopped, Leftover
<1>3. CASE OperatorDeregisters
    BY <1>3 DEF OperatorDeregisters, Leftover
<1>4. CASE Wake \/ Finish \/ Restart
    BY <1>4 DEF Wake, Finish, Restart
<1>5. CASE ListNamespaces
    BY <1>5 DEF ListNamespaces, NamespacesKnown
<1>6. CASE ListTokens
    BY <1>6 DEF ListTokens, Leftover
<1>7. CASE List /\ ~ListNamespaces /\ ~ListTokens
    BY <1>7 DEF List, ListFails, ListClient, ListTasks, DescribeTasks, ListServices,
                ListServicesUntagged, Leftover
<1>8. CASE ReconcileNamespaces
    BY <1>8 DEF ReconcileNamespaces, NamespacesFail, NamespaceClient, ReadPolicy,
                CreatePolicy, ReadDefault, UpdateDefault, ListExisting, CreateNamespace,
                Leftover
<1>9. CASE Reconcile
    BY <1>9 DEF Reconcile, NextResource, ResourcesDone, ReconcileClient, DeleteToken,
                DeregisterService, AfterDelete, Leftover
<1>10. CASE UNCHANGED vars
    BY <1>10 DEF vars, Leftover
<1> QED
    BY <1>1, <1>2, <1>3, <1>4, <1>5, <1>6, <1>7, <1>8, <1>9, <1>10 DEF Next, Controller

(* A failed call is never forgotten.                                          *)
LEMMA NoFaultBefore ==
    ASSUME TypeOK, [Next]_vars, faults' = 0
    PROVE  faults = 0
<1>1. faults' = faults \/ Fault
    BY DEF Next, Controller, Wake, Finish, Restart, List, ReconcileNamespaces, Reconcile,
           ListFails, ListClient, ListTasks, DescribeTasks, ListNamespaces, ListTokens,
           ListServices, ListServicesUntagged, NamespacesFail, NamespaceClient, ReadPolicy,
           CreatePolicy, ReadDefault, UpdateDefault, ListExisting, CreateNamespace,
           NextResource, ResourcesDone, ReconcileClient, DeleteToken, DeregisterService,
           Task, StartTask, Login, RegisterService, RequestStop, TaskDeregisters,
           TaskLogsOut, TaskStopped, OperatorDeregisters, vars
<1>2. faults \in Nat
    BY BasicFacts DEF TypeOK
<1> QED
    BY <1>1, <1>2 DEF Fault

(* A task that was found is no leftover.                                      *)
LEMMA FoundIsNoLeftover ==
    ASSUME TypeOK, GoneUnfound, NEW id \in found
    PROVE  ~Leftover(id)
BY IdFacts DEF TypeOK, GoneUnfound, Leftover

LEMMA NextServicesAccounted ==
    ASSUME TypeOK, GoneUnfound, ServicesAccounted, [Next]_vars
    PROVE  ServicesAccounted'
<1> USE NoFaultBefore
    DEF ServicesAccounted, ServiceAccounted, PastListing, ServicesOf, locals, environment,
        catalog, listing, visiting, history
<1>1. ASSUME NEW t \in Tasks, RegisterService(t)
      PROVE  ServicesAccounted'
    <2>1. UNCHANGED << pc, cur, curServices, resources, seenServices, gone, faults >>
        BY <1>1 DEF RegisterService
    <2>2. \A s \in services' : s \notin services => ~Leftover(ServiceTask[s])
        BY <1>1, RegisteredIsNoLeftover
    <2> QED
        BY <2>1, <2>2 DEF Leftover
<1>2. ASSUME NEW t \in Tasks, Task(t), ~RegisterService(t)
      PROVE  ServicesAccounted'
    BY <1>2 DEF Task, StartTask, Login, RequestStop, TaskDeregisters, TaskLogsOut,
                TaskStopped, Leftover
<1>3. CASE OperatorDeregisters
    BY <1>3 DEF OperatorDeregisters, Leftover
<1>4. CASE Wake \/ Finish \/ Restart
    BY <1>4 DEF Wake, Finish, Restart
<1>5. CASE ListServices
    BY <1>5 DEF ListServices
<1>6. CASE List /\ ~ListServices
    BY <1>6 DEF List, ListFails, ListClient, ListTasks, DescribeTasks, ListNamespaces,
                ListTokens, ListServicesUntagged
<1>7. CASE ReconcileNamespaces
    <2>1. UNCHANGED << services, seenServices, resources, gone, cur, curServices >>
        BY <1>7 DEF ReconcileNamespaces, NamespacesFail, NamespaceClient, ReadPolicy,
                    CreatePolicy, ReadDefault, UpdateDefault, ListExisting, CreateNamespace
    <2>2. /\ pc \in PastListing \ {"next", "client", "delete", "deregister", "done"}
          /\ pc' \in PastListing \ {"client", "delete", "deregister", "done"}
        BY <1>7 DEF ReconcileNamespaces, NamespacesFail, NamespaceClient, ReadPolicy,
                    CreatePolicy, ReadDefault, UpdateDefault, ListExisting, CreateNamespace
    <2> QED
        BY <2>1, <2>2 DEF Leftover
<1>8. CASE NextResource
    BY <1>8, FoundIsNoLeftover DEF NextResource, Leftover
<1>9. CASE ResourcesDone
    BY <1>9 DEF ResourcesDone, Leftover
<1>10. CASE ReconcileClient
    <2>1. faults' = 0 => ~Fault
        BY BasicFacts DEF Fault, TypeOK
    <2> QED
        BY <1>10, <2>1 DEF ReconcileClient, AfterDelete, Leftover
<1>11. CASE DeleteToken
    <2>1. UNCHANGED << services, seenServices, resources, gone, cur, curServices >>
        BY <1>11 DEF DeleteToken
    <2>2. pc = "delete" /\ pc' \in {"delete", AfterDelete}
        BY <1>11 DEF DeleteToken
    <2> QED
        BY <2>1, <2>2 DEF Leftover, AfterDelete
<1>12. CASE DeregisterService
    <2>1. faults' = 0 => ~Fault
        BY BasicFacts DEF Fault, TypeOK
    <2> QED
        BY <1>12, <2>1 DEF DeregisterService, Leftover
<1>13. CASE UNCHANGED vars
    BY <1>13 DEF vars, Leftover
<1> QED
    BY <1>1, <1>2, <1>3, <1>4, <1>5, <1>6, <1>7, <1>8, <1>9, <1>10, <1>11, <1>12, <1>13
       DEF Next, Controller, Reconcile

-----------------------------------------------------------------------------
(* The parts together.                                                        *)

SweepInv ==
    /\ TypeOK /\ TokensOnce /\ AllAccounted
    /\ GoneUnfound /\ NamespacesKnown /\ TokensListed /\ ServicesAccounted

LEMMA InitSweepInv == Init => SweepInv
<1> SUFFICES ASSUME Init PROVE SweepInv
    OBVIOUS
<1>1. TypeOK
    BY InitTypeOK
<1>2. TokensOnce /\ AllAccounted
    BY DEF Init, TokensOnce, AllAccounted, PastListing
<1>3. GoneUnfound /\ NamespacesKnown
    BY DEF Init, GoneUnfound, NamespacesKnown, NamespacePCs
<1>4. TokensListed /\ ServicesAccounted
    BY DEF Init, TokensListed, ServicesAccounted, PastListing
<1> QED
    BY <1>1, <1>2, <1>3, <1>4 DEF SweepInv

LEMMA NextSweepInv == SweepInv /\ [Next]_vars => SweepInv'
BY NextTypeOK, NextTokensOnce, NextAllAccounted, NextGoneUnfound, NextNamespacesKnown,
   NextTokensListed, NextServicesAccounted DEF SweepInv

(* At the end of a cycle that noted no error, no token the cluster's own is   *)
(* left of a task that was gone before it, or is none of its tasks.           *)
LEMMA CleanOfTokens ==
    ASSUME SweepInv, pc \in PastListing, ~merr, pc = "done",
           NEW k \in tokens, OwnToken(k)
    PROVE  TokenTask[k] \notin gone \cup OtherIds
<1> SUFFICES ASSUME Leftover(TokenTask[k]) PROVE FALSE
    BY DEF Leftover
<1>1. k \in seenTokens
    BY DEF SweepInv, TokensListed
<1>2. TokenTask[k] \in found
    BY <1>1 DEF SweepInv, AllAccounted, Accounted
<1> QED
    BY <1>2, FoundIsNoLeftover DEF SweepInv

(* reconcile() returns nil only after every token of a task that had stopped  *)
(* before the cycle, or is none of the cluster's, is gone.                    *)
THEOREM CleanCycle == Spec => []CleanCycleLeavesNothing
<1>1. SweepInv => CleanCycleLeavesNothing
    <2> SUFFICES ASSUME SweepInv, pc = "done", ~merr
                 PROVE  /\ \A k \in seenTokens : TokenTask[k] \notin found => k \notin tokens
                        /\ \A k \in tokens : OwnToken(k) => TokenTask[k] \notin gone \cup OtherIds
                        /\ faults = 0 =>
                             \A s \in services : ServiceTask[s] \notin gone \cup OtherIds
        BY DEF CleanCycleLeavesNothing
    <2>1. \A k \in seenTokens : TokenTask[k] \notin found => k \notin tokens
        BY DEF SweepInv, AllAccounted, Accounted, PastListing
    <2>2. \A k \in tokens : OwnToken(k) => TokenTask[k] \notin gone \cup OtherIds
        BY CleanOfTokens DEF PastListing
    <2>3. faults = 0 => \A s \in services : ServiceTask[s] \notin gone \cup OtherIds
        BY DEF SweepInv, ServicesAccounted, ServiceAccounted, PastListing, Leftover
    <2> QED
        BY <2>1, <2>2, <2>3
<1> QED
    BY <1>1, InitSweepInv, NextSweepInv, PTL DEF Spec

-----------------------------------------------------------------------------
(* Collects.  Every step is one the promise allows, or changes nothing of     *)
(* what the promise is about.                                                 *)

ForeignMade == Foreign \subseteq made

CollectInv == SweepInv /\ Coverage /\ Visiting /\ ForeignMade

LEMMA NextForeignMade ==
    ASSUME ForeignMade, [Next]_vars
    PROVE  ForeignMade'
<1>1. made \subseteq made'
    BY DEF Next, Controller, Wake, Finish, Restart, List, ReconcileNamespaces, Reconcile,
           ListFails, ListClient, ListTasks, DescribeTasks, ListNamespaces, ListTokens,
           ListServices, ListServicesUntagged, NamespacesFail, NamespaceClient, ReadPolicy,
           CreatePolicy, ReadDefault, UpdateDefault, ListExisting, CreateNamespace,
           NextResource, ResourcesDone, ReconcileClient, DeleteToken, DeregisterService,
           Task, StartTask, Login, RegisterService, RequestStop, TaskDeregisters,
           TaskLogsOut, TaskStopped, OperatorDeregisters, vars, environment, catalog
<1> QED
    BY <1>1 DEF ForeignMade

LEMMA NextCollectInv == CollectInv /\ [Next]_vars => CollectInv'
BY NextSweepInv, NextCoverage, NextVisiting, NextForeignMade DEF CollectInv, SweepInv

LEMMA KindFacts == Tokens \cap Services = {}
BY ConstantsAssumption DEF ConstantsAssumption

(* What belongs to nobody belongs to no task.                                 *)
LEMMA OwnerFacts ==
    /\ \A k \in Tokens : OwnToken(k) => TokenOwner[k] = TokenTask[k]
    /\ \A k \in Tokens : ~OwnToken(k) => TokenOwner[k] = NoTask
    /\ NoTask \notin Tasks \cup OtherIds
BY BasicFacts DEF TokenOwner, TaskIds

LEMMA InitCollects == Init => Collector!CollectorInit
<1> SUFFICES ASSUME Init PROVE Collector!CollectorInit
    OBVIOUS
<1>1. tokens \subseteq {k \in Tokens : TokenOwner[k] \notin Tasks}
    BY OwnerFacts, KindFacts DEF Init, Foreign
<1>2. services \subseteq {s \in Services : ServiceTask[s] \notin Tasks}
    BY KindFacts DEF Init, Foreign
<1> QED
    BY <1>1, <1>2 DEF Init, Collector!CollectorInit, Phase

(* The life of the tasks is the same on both sides.                           *)
LEMMA TaskCollects ==
    ASSUME CollectInv, NEW t \in Tasks, Task(t)
    PROVE  Collector!CollectorNext
<1> USE DEF history, catalog, nsState, locals
<1>1. Phase' = Phase
    BY DEF Phase, Task, StartTask, Login, RegisterService, RequestStop, TaskDeregisters,
           TaskLogsOut, TaskStopped
<1>2. CASE StartTask(t)
    BY <1>1, <1>2 DEF StartTask, Collector!TaskStarts, Collector!CollectorNext
<1>3. CASE Login(t)
    <2>1. PICK k \in Tokens \ made : TokenTask[k] = t /\ tokens' = tokens \cup {k}
        BY <1>3 DEF Login
    <2>2. TokenOwner[k] = t
        BY <2>1, OwnerFacts DEF CollectInv, ForeignMade, Foreign
    <2>3. Collector!TaskAdds(t)
        BY <1>1, <1>3, <2>1, <2>2 DEF Login, Collector!TaskAdds
    <2> QED
        BY <2>3 DEF Collector!CollectorNext
<1>4. CASE RegisterService(t)
    <2>1. Collector!TaskAdds(t)
        BY <1>1, <1>4 DEF RegisterService, Collector!TaskAdds
    <2> QED
        BY <2>1 DEF Collector!CollectorNext
<1>5. CASE RequestStop(t)
    BY <1>1, <1>5 DEF RequestStop, Collector!TaskIsTold, Collector!CollectorNext
<1>6. CASE TaskDeregisters(t)
    <2>1. Collector!TaskRemoves(t)
        BY <1>1, <1>6 DEF TaskDeregisters, Collector!TaskRemoves
    <2> QED
        BY <2>1 DEF Collector!CollectorNext
<1>7. CASE TaskLogsOut(t)
    <2>1. PICK k \in tokens \ Foreign : TokenTask[k] = t /\ tokens' = tokens \ {k}
        BY <1>7 DEF TaskLogsOut
    <2>2. TokenOwner[k] = t
        BY <2>1, OwnerFacts DEF CollectInv, SweepInv, TypeOK, Foreign
    <2>3. Collector!TaskRemoves(t)
        BY <1>1, <1>7, <2>1, <2>2 DEF TaskLogsOut, Collector!TaskRemoves
    <2> QED
        BY <2>3 DEF Collector!CollectorNext
<1>8. CASE TaskStopped(t)
    BY <1>1, <1>8 DEF TaskStopped, Collector!TaskEnds, Collector!CollectorNext
<1> QED
    BY <1>2, <1>3, <1>4, <1>5, <1>6, <1>7, <1>8 DEF Task

(* A cycle that ends, wherever it is, comes to rest; before it has begun to   *)
(* look there is nothing to end.                                              *)
LEMMA ForgetCollects ==
    ASSUME CollectInv, pc' = "sleep", Forget, UNCHANGED environment
    PROVE  Collector!Rest \/ UNCHANGED Collector!collectorVars
<1>1. /\ Phase' = "idle" /\ established' = {} /\ gone' = {}
      /\ UNCHANGED << status, tokens, services >>
    BY DEF Phase, Forget, environment
<1>2. CASE Phase = "idle"
    BY <1>1, <1>2
       DEF Phase, CollectInv, SweepInv, Coverage, GoneUnfound, Collector!collectorVars
<1>3. CASE Phase # "idle"
    BY <1>1, <1>3 DEF Collector!Rest
<1> QED
    BY <1>2, <1>3

LEMMA ListCollects ==
    ASSUME CollectInv, List
    PROVE  [Collector!CollectorNext]_(Collector!collectorVars)
<1>1. CASE ListFails \/ ListServicesUntagged
    BY <1>1, ForgetCollects DEF ListFails, ListServicesUntagged, Collector!CollectorNext
<1>2. CASE ListClient
    BY <1>2 DEF ListClient, Phase, Running, Stopped, environment, Collector!Look,
                Collector!InStatus, Collector!CollectorNext
<1>3. CASE ListTasks \/ DescribeTasks \/ ListNamespaces \/ ListTokens \/ ListServices
    BY <1>3 DEF ListTasks, DescribeTasks, ListNamespaces, ListTokens, ListServices, Phase,
                environment, history, Collector!collectorVars
<1> QED
    BY <1>1, <1>2, <1>3 DEF List

LEMMA NamespacesCollect ==
    ASSUME ReconcileNamespaces
    PROVE  UNCHANGED Collector!collectorVars
BY DEF ReconcileNamespaces, NamespacesFail, NamespaceClient, ReadPolicy, CreatePolicy,
       ReadDefault, UpdateDefault, ListExisting, CreateNamespace, Phase, environment,
       catalog, history, Collector!collectorVars

(* The loop ends with no resource left to visit: what is left of a token the  *)
(* cycle saw belongs to a task that was found.                                *)
LEMMA DoneCollects ==
    ASSUME CollectInv, ResourcesDone
    PROVE  Collector!ReportClean \/ UNCHANGED Collector!collectorVars
<1>1. UNCHANGED << status, tokens, services, established, gone, merr >>
    BY DEF ResourcesDone, environment, history, locals
<1>2. CASE merr
    BY <1>1, <1>2 DEF ResourcesDone, Phase, Collector!collectorVars
<1>3. CASE ~merr
    <2>1. \A k \in tokens : TokenOwner[k] \notin gone \cup OtherIds
        <3> SUFFICES ASSUME NEW k \in tokens, TokenOwner[k] \in gone \cup OtherIds
                     PROVE  FALSE
            OBVIOUS
        <3>1. k \in Tokens /\ gone \subseteq Tasks
            BY DEF CollectInv, SweepInv, TypeOK, Stopped
        <3>2. OwnToken(k) /\ Leftover(TokenTask[k])
            BY <3>1, OwnerFacts DEF Leftover
        <3>3. k \in seenTokens
            BY <3>2 DEF ResourcesDone, CollectInv, SweepInv, TokensListed, PastListing
        <3>4. TokenTask[k] \in found
            BY <1>3, <3>3
               DEF ResourcesDone, CollectInv, SweepInv, AllAccounted, Accounted, PastListing
        <3> QED
            BY <3>2, <3>4, FoundIsNoLeftover DEF CollectInv, SweepInv
    <2> QED
        BY <1>1, <1>3, <2>1 DEF ResourcesDone, Phase, Collector!ReportClean, Collector!Left
<1> QED
    BY <1>2, <1>3

LEMMA ReconcileCollects ==
    ASSUME CollectInv, Reconcile
    PROVE  [Collector!CollectorNext]_(Collector!collectorVars)
<1>1. TakesOnlyLeftovers
    BY RemovalStep DEF CollectInv, SweepInv, Controller
<1>2. CASE ResourcesDone
    BY <1>2, DoneCollects DEF Collector!CollectorNext
<1>3. CASE NextResource \/ ReconcileClient
    BY <1>3 DEF NextResource, ReconcileClient, AfterDelete, Phase, environment, history,
                Collector!collectorVars
<1>4. CASE DeleteToken
    <2>1. /\ Phase = "looking" /\ Phase' = "looking"
          /\ UNCHANGED << status, services, established, gone >>
        BY <1>4 DEF DeleteToken, AfterDelete, Phase, history
    <2>2. CASE tokens' = tokens
        BY <2>1, <2>2 DEF Collector!collectorVars
    <2>3. CASE tokens' # tokens
        <3>1. PICK k \in tokens : tokens' = tokens \ {k}
            BY <1>4, <2>3 DEF DeleteToken
        <3>2. k \in Tokens /\ OwnToken(k) /\ TokenTask[k] \notin established
            BY <1>1, <3>1 DEF TakesOnlyLeftovers, CollectInv, SweepInv, TypeOK
        <3>3. Collector!Collectable(TokenOwner[k])
            BY <3>2, OwnerFacts DEF OwnToken, Collector!Collectable
        <3>4. Collector!Collect
            BY <2>1, <3>1, <3>3 DEF Collector!Collect
        <3> QED
            BY <3>4 DEF Collector!CollectorNext
    <2> QED
        BY <2>2, <2>3
<1>5. CASE DeregisterService
    <2>1. /\ Phase = "looking" /\ Phase' = "looking"
          /\ UNCHANGED << status, tokens, established, gone >>
        BY <1>5 DEF DeregisterService, Phase, history
    <2>2. CASE services' = services
        BY <2>1, <2>2 DEF Collector!collectorVars
    <2>3. CASE services' # services
        <3>1. PICK s \in services : services' = services \ {s}
            BY <1>5, <2>3 DEF DeregisterService
        <3>2. Collector!Collectable(ServiceTask[s])
            BY <1>1, <3>1 DEF TakesOnlyLeftovers, Collector!Collectable
        <3>3. Collector!Collect
            BY <2>1, <3>1, <3>2 DEF Collector!Collect
        <3> QED
            BY <3>3 DEF Collector!CollectorNext
    <2> QED
        BY <2>2, <2>3
<1> QED
    BY <1>2, <1>3, <1>4, <1>5 DEF Reconcile

LEMMA NextCollects ==
    ASSUME CollectInv, [Next]_vars
    PROVE  [Collector!CollectorNext]_(Collector!collectorVars)
<1>1. CASE \E t \in Tasks : Task(t)
    BY <1>1, TaskCollects
<1>2. CASE OperatorDeregisters
    BY <1>2 DEF OperatorDeregisters, Phase, nsState, locals, history,
                Collector!OperatorRemoves, Collector!CollectorNext
<1>3. CASE Wake
    BY <1>3 DEF Wake, Phase, environment, history, Collector!collectorVars
<1>4. CASE List
    BY <1>4, ListCollects
<1>5. CASE ReconcileNamespaces
    BY <1>5, NamespacesCollect
<1>6. CASE Reconcile
    BY <1>6, ReconcileCollects
<1>7. CASE Finish \/ Restart
    BY <1>7, ForgetCollects DEF Finish, Restart, Collector!CollectorNext
<1>8. CASE UNCHANGED vars
    BY <1>8 DEF vars, Phase, Collector!collectorVars
<1> QED
    BY <1>1, <1>2, <1>3, <1>4, <1>5, <1>6, <1>7, <1>8 DEF Next, Controller

(* The polling loop implements LeftoverCollector, whatever fails and whenever *)
(* the controller restarts.                                                   *)
THEOREM ImplementsCollector == Spec => Collects
<1>1. Init => CollectInv
    <2>1. Init => ForeignMade
        BY DEF Init, ForeignMade
    <2> QED
        BY <2>1, InitSweepInv, InitCoverage DEF CollectInv
<1>2. CollectInv /\ [Next]_vars => [Collector!CollectorNext]_(Collector!collectorVars)
    BY NextCollects
<1> QED
    BY <1>1, <1>2, InitCollects, NextCollectInv, PTL
       DEF Spec, Collects, Collector!CollectorSpec
=============================================================================
