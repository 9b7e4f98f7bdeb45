# TLA+ models of consul-ecs

consul-ecs is the Go program behind the containers that put an AWS ECS task into
a Consul service mesh: `mesh-init` registers the task and prepares its volume,
`health-sync` copies container health into Consul and takes the task out again,
`app-entrypoint` and `envoy-entrypoint` order the shutdown of the application and
the proxy, and one `controller` per ECS cluster sets up Consul's ACL resources and
removes what stopped tasks leave behind.

This directory holds TLA+ modules of these programs, TLC configurations that check
them on small instances, and proofs (TLAPS) of their safety properties for all
values of the constants. `PROJECT.json` links every definition to the lines it
models, and lists runs, mutants, hazards, findings and theorems.

## 1. Inventory

| Component | Source | State | Operations | Interacts with |
|---|---|---|---|---|
| controller reconcile loop | `controller/controller.go`, `resource.go` | none between cycles; in a cycle the `buildingResources` map | `Run`, `reconcile`, `List` (tasks, namespaces, tokens, services), `ReconcileNamespaces`, `TaskState.Reconcile` | ECS (`ListTasks`, `DescribeTasks`), Consul ACL, catalog, namespaces |
| controller command | `subcommand/controller/command.go` | none; everything is in Consul | `upsertConsulResources`: partition, policies, roles, auth method, binding rules, anonymous token, node | Consul; the controllers of other clusters |
| health-sync | `subcommand/health-sync/*.go` | `currentHealthStatuses`, `checks`, client, signal channel | select loop of `realRun`, `syncChecks`, `setChecksCritical`, deregistration, logout; the `dataplaneMonitor` goroutine | task metadata, Consul, ECS signals, the server watcher |
| mesh-init | `subcommand/mesh-init/*.go` | none; writes catalog, service defaults, shared volume | `realRun` step by step, registration retried without end | Consul; the mesh-init of the service's other tasks; an operator |
| entrypoint runner | `entrypoint/cmd.go` | the subprocess, channels `started` and `done` | `Run`, `Started`, `Done` | both entrypoints, the operating system |
| app-entrypoint | `subcommand/app-entrypoint/command_unix.go` | signal channel of capacity 1, the timer | `waitForSigterm`, `waitForShutdownDelay`, `waitForAppExit`, `forwardSignal`, `cleanup` | ECS signals, the application |
| envoy-entrypoint | `subcommand/envoy-entrypoint/*.go` | signal channel, context, `doneCh` of the monitor | `realRun`, `handleSignal`, `cleanup`; the `AppContainerMonitor` goroutine | ECS signals, the proxy, task metadata |
| task metadata | `awsutil/awsutil.go` | none | `HasContainerStopped`, `HasStopped`, `IsNormalType` | health-sync, envoy-entrypoint |
| DNS, redirection, dataplane files | `internal/dns`, `internal/redirecttraffic`, `internal/dataplane` | files and iptables of the task | one call each, from mesh-init | mesh-init |
| configuration | `config/config.go`, `types.go` | none; one JSON document per task, and the environment | defaults of parsing, `ConsulServerConnMgrConfig`, `GetGRPCTLSSettings`, the login, conversions to registrations | every program of the task works out its part by itself |
| logging, `net-dial`, `version`, Windows stubs | `logging`, `subcommand/net-dial`, ... | none | single calls | all |

What is hard, and the properties that make each part correct:

* **Reconcile loop.** It compares lists read one after the other (ECS tasks, ACL
  tokens, catalog services) while tasks start, log in, register and stop; any call may
  fail, and the controller may be replaced. It must take only leftovers, must remove
  them in the end, must report what it did not remove, and must not create a
  namespace that is not governed by the cross-namespace policy.
* **Controller command.** Each upsert reads, then writes, without check-and-set, while
  controllers of other clusters do the same. Whoever finishes must find the
  shared resources complete, restarts must not multiply rules, and lists must lose an entry only in the
  read-write race that the code accepts.
* **health-sync.** A timer, a watcher, SIGTERM and a finished monitor meet in one
  `select`; a status cache suppresses writes. The cache must not lie, health must arrive,
  traffic must be drained before deregistration and stay drained, and
  SIGTERM must end in a clean exit.
* **mesh-init.** It retries registrations that may have taken effect, shares service
  defaults with others, and must leave exactly what health-sync expects.
* **Configuration.** Several programs derive the same thing from one document, each with
  its own code and defaults: ids (mesh-init and health-sync), trust and credentials
  (mesh-init and the dataplane), the ready port (the dataplane and the redirection),
  ownership (mesh-init and the controller). Whatever is set, they must agree.
* **Entrypoints.** Two goroutines with channels, a one-place signal channel, a
  timer: the application must not get SIGTERM early, the proxy must outlive
  the application, and no entrypoint may hang or end before its subprocess.

## 2. Modules

| Module | What it is |
|---|---|
| `TaskReconciler` | the loop of `Controller.Run` and the life of the tasks of a cluster; implements `LeftoverCollector` |
| `ControllerSetup` | `upsertConsulResources` by several controllers over one Consul |
| `HealthSync` | `realRun` of health-sync and its dataplane monitor; implements `HealthReporter` and the task of `TaskReconciler` |
| `TaskConfig` | the configuration of a task, and what mesh-init, the dataplane, the redirection, health-sync and the controller each make of it |
| `MeshInit` | `realRun` of mesh-init, for several tasks, over `TaskConfig`; its `HandsOver` instantiates `HealthSync` |
| `EntrypointCmd` | `entrypoint.Cmd` as records and operators |
| `AppEntrypoint`, `EnvoyEntrypoint` | the two entrypoints, both over `EntrypointCmd` |
| `TaskShutdown` | both entrypoints in one task, joined by the task metadata; implements `ShutdownOrder` |
| `LeftoverCollector` | abstract: what a collector of leftovers may take, and what its clean report means |
| `HealthReporter` | abstract: what a check may say, and when a task is withdrawn from traffic and from the catalog |
| `ShutdownOrder` | abstract: who tells the commands of a task to end, and when |
| `MC*` | values of the constants for TLC |
| `*Proofs` | theorems about `TaskReconciler`, `HealthSync`, `TaskShutdown` (with its parts), `MeshInit`, `ControllerSetup` |
| `Promises` | theorems about the three abstract specifications |

Definitions keep the source's names. A definition whose comment begins with
"Variant:" is not part of a specification: it is how a plausible bug
would change the definition below it, and shows that a property notices.

### Correspondence with the code

**TaskReconciler.** `pc` is the call the controller makes next; one action is one call
to ECS or Consul with the local code up to the next call. `List` is
`ListClient`, `ListTasks`/`DescribeTasks` (page by page), `ListNamespaces`, `ListTokens`
(one namespace per step) and `ListServices`. `found`, `seenTokens` and `seenServices`
are the `buildingResources` map. `ReconcileNamespaces` is `NamespaceClient`,
`ReadPolicy`, `CreatePolicy`, `ReadDefault`, `UpdateDefault`, `ListExisting` and
`CreateNamespace`; `TaskState.Reconcile` is `ReconcileClient`, `DeleteToken` and
`DeregisterService`. Go's map order is the free choice of `NextResource` and of the
namespace loops. `merr` says whether `reconcile` has an error to return. A call may fail with or
without effect (`faults`), `Restart` replaces the controller between any two calls.
Tasks are absent, running, stopping or stopped; tokens and services are fixed sets
with an owner; those that are none of the tasks' own (hand-made, of other clusters, of
tasks long gone) are there from the start. `established` and `gone` are history variables: the
tasks that have been running since this cycle called `ListTasks` first, and those that
had stopped by then. `Collector` is `LeftoverCollector` with `Phase` for where a cycle is: it keeps
of the controller only whether a cycle is under way or was reported clean, and of the
lists only the two history variables. The `Partition`,
`PartitionTag` and `NamespaceTag` constants cover both Consul editions.

**ControllerSetup.** `Steps` is the list of calls of `upsertConsulResources`; `at[c]`
is where controller `c` is, `phase[c]` is the call within it and `seen[c]` what its
read returned. A failed write may have taken effect. An error exits the process and ECS starts
it again (`Restart`). The initial states are an empty Consul and one an earlier
version set up: roles without policies, an unsorted auth method, one binding rule.

**HealthSync.** `pc` runs through `realRun`: `start`, the `select`, the loops of
`syncChecks` over missing and present containers, `setChecksCritical`, the
deregistrations, the logout. `cur` is `currentHealthStatuses`, `check` the catalog.
`sigs` is the signal channel, `monitor` the goroutine with a channel of its own.
`clientOK` and `switch` are the client and the watcher's channel; a client that
cannot be made for a new server is left as it was, until the watcher reports another. `ToConsul` is
`ecsHealthToConsulHealth`. A repeated SIGTERM and SIGKILL are actions of ECS.
`Catalog` is `TaskReconciler` for the one task health-sync runs in: its services and login
token are those in the catalog, and the task runs until the first SIGTERM and is stopping
from then on. `ActsAsTask` says every step of health-sync is a step that the reconcile
loop expects of a task, or changes none of this: what `TaskReconciler` assumes of its
environment is what health-sync does. `Reporter` is `HealthReporter`: of `realRun` it keeps the
stage (`Stage`), of a round of `syncChecks` the metadata it goes by, and neither the
cache, the client, the loops nor the signal channels.

**TaskConfig.** A configuration is a record with the sections and fields of the JSON
(`gateway`, `service`, `proxy`, `consulLogin`, `consulServers`, `transparentProxy`) and `env`
for the two environment variables that are read. An empty string, port 0 and nil are
all `Unset`, and `Or` puts a default in their place, as `UnmarshalJSON` and the getters
do. An id is the record of what its text is made of (name, task, sidecar or not), so
that two ids are equal when the texts are, as long as task ids are all of one form.
An address is the port in it, or `"malformed"`. `Trust` is what a connection is
verified with: a PEM, the certificate of a file, or the system's. `Deregistration` is
written from health-sync's copies of `constructServiceName` and the id functions and not from
mesh-init's, so that a difference between the two would show.

**MeshInit.** `config[t]` is chosen in `Init` and never changes. `pc[t]` runs through
`realRun`; `Register` is `backoff.Retry`, with no limit; `GetDefaults` and `SetDefaults` are
the read and the write of `registerServiceDefaults`, with another task's or an operator's write
between them. `catalog` is the set of registrations, `caCert`, `dataplane` and `files` what
the other containers find on the volume and in `resolv.conf`, `redirection` the rules that are
applied. `RedirectTraffic` reads the proxy back from the catalog, merged with any of
`CentralConfigs`, which Consul's operators may change at any time. `HS(t)` is
`HealthSync` for the task's part of the catalog.

**Entrypoints.** A `Cmd` is a record: where `Run` is, the subprocess, the two
channels (a value, closed or not), the signals sent to the process group.
`Delivered` is `os/signal`: a signal that finds the one-place channel full is
dropped. SIGTERM and SIGINT kill a process that has not subscribed or has
stopped to. With no shutdown delay the first SIGTERM is never passed on; a test
expects that (`command_unix_test.go`, `app-exit-after-sigterm`), so it is modelled and
not reported. `ShutdownOrder` knows of each container only the life of its command, whether ECS has asked
it to stop, whether its command has a SIGTERM and whether its first process has ended;
the mapping in `TaskShutdown` reads them off the two `Cmd` records. In `TaskShutdown` the metadata may report a container stopped any
time after its first process has ended, never before.

### Assumptions about what is outside the repository

* ECS returns an empty page of `ListTasks` only when no task is left, and lists the
  tasks whose desired status is RUNNING (the default when the request names none).
* A task has the tags that repeat its configuration's partition and namespace, so that
  tokens and services of a managed task carry its id (`ConstantsAssumption`).
* A token's accessor id is never used again; a task registers a service once.
* A Consul write is atomic; a call that reports an error may have taken effect.
  `HealthSync` takes that as a constant, `LostReplies`, since it decides `HealthSynced`.
* ECS sends SIGTERM before SIGKILL, stops the dataplane after SIGTERM, and restarts
  the controller's container.

## 3. Runs

| Run | Properties | Shows |
|---|---|---|
| `reconciler` | `TypeOK`, `NamespacesGoverned`, `CleanCycleLeavesNothing`, `Collects`, `LeftoversEventuallyRemoved`, `NamespaceEventuallyCreated` | with partitions: the loop implements `LeftoverCollector`; a cycle without an error leaves nothing of the tasks gone before it; leftovers go in the end, namespaces appear and are governed |
| `reconciler_oss` | `OnlyLeftoversRemoved` | without partitions, two managed tasks, and a service without a task id that makes `List` fail |
| `health_sync` | `TypeOK`, `CacheCoherent`, `DrainedBeforeDeregistration`, `PassesOnHealthy`, `Reports`, `ActsAsTask`, `HealthSynced`, `OverallSynced`, `SigtermEnds` | the loop and the graceful shutdown; it implements `HealthReporter` and the reconcile loop's task |
| `task_shutdown` | `TypeOK`, `FirstTermWithheld`, `ExitsWithApplication`, `ExitsWithProxy`, `ProxyAfterApplication`, `NeverWaitsInVain`, `KeepsOrder`, `ShutdownCompletes`, `ProxyEndEndsEntrypoint` | the two entrypoints of one task, which implement `ShutdownOrder` |
| `controller_setup` | `TypeOK`, `RulesBounded`, `SetupComplete`, `PrincipalsKept`, `LinksKept`, `SetupFinishes` | two controllers, an operator, crashes |
| `mesh_init` | `TypeOK`, `HandsOver`, `ProxyHasService`, `Prepared`, `DataplaneFollows`, `RedirectSpares`, `ResilientWhenDone`, `FreshWriteKeeps`, `Ends` | two tasks, the first with any of sixteen configurations; what health-sync, the dataplane, the redirection and the controller rely on |

Six more runs each show one statement of the repository that the code does not keep:

| Run | Statement | What happens |
|---|---|---|
| `reconciler_stopped` | leftovers are those of tasks "that have stopped" (`CHANGELOG.md:133`) | `ListTasks` leaves out tasks asked to stop, and a task may start and log in after it: their tokens and services are removed while they run (`resource.go:157`) |
| `reconciler_dereg` | `Reconcile` "removes the service from Catalog" (`resource.go:514`), and the caller handles an error | `DeregisterServices` returns nil instead of its errors: the cycle reports success (`resource.go:578`); a later cycle tries again, so `LeftoversEventuallyRemoved` still holds |
| `health_sync_lost` | health-sync "Syncs ECS container's health status into Consul" (`health-sync/command.go:207`) | a write that takes effect but reports an error is not cached; when the health returns to the cached status nothing is written (`checks.go:151`) |
| `health_sync_sigterm` | the monitor "will wake up when SIGTERM is received" (`dataplane_monitor.go:37`) | a SIGTERM between the two `signal.Notify` calls reaches the loop and not the monitor: health-sync waits for SIGKILL (`dataplane_monitor.go:70`) |
| `app_sigterm` | `waitForSigterm` waits "until a sigterm is received" (`app-entrypoint/command_unix.go:102`) | the channel has one place for all signals; SIGTERM is dropped when SIGURG, SIGINT or SIGCHLD is in it (`command_unix.go:50`) |
| `mesh_init_defaults` | the passive health check is added only "if not already present" (`mesh-init/command.go:579-581`) | the entry is read and set without check-and-set: a check written in between is replaced (`command.go:654`) |

### Bounds, and why they are enough

* `TaskReconciler`: two tasks, one managed and one of another partition (`reconciler`)
  or two managed ones (`reconciler_oss`), tokens of the task (two, as it logs in twice), of a
  task long gone, of another cluster and with a description that does not parse;
  three namespaces. `MaxFaults` is 2 with partitions: one fault cuts a cycle short and
  another hits the cycle that repairs it. Every kind of ownership and a second visit of each loop occur. 294,517 and 448,082 states.
* `HealthSync`: one application container besides the dataplane, so that the loops
  meet one missing, the other missing, both, none; two health values; one SIGTERM in the
  runs; one fault, a failed call or a lost server, for which the client may then not be set
  up either. Gateways, several SIGTERMs and faults are covered by the proofs. 178,956 states.
* `TaskShutdown`: one SIGTERM and one other signal per container, at most one other
  signal in all (`MaxTaskOthers`): enough to fill the one-place channel. A worker
  container and one that ECS injects stand beside the application and the proxy. 436,274 states.
* `ControllerSetup`: two controllers with different principals, which is the smallest
  race; two faults, so that a restarted controller fails again; one operator's link. 435,618 states.
* `MeshInit`: two tasks, which share service defaults when the first is no gateway; two
  faults and one write of an operator. The first has one of sixteen configurations, each
  with another combination of options, so that every default and every override of
  `TaskConfig` is taken: names and ports given or not, a PEM, a file or neither, TLS by default
  or by gRPC's own setting, login, static token or neither, user metadata, two kinds of
  gateways, malformed addresses. Three central configurations: none, one that adds ports,
  one that does not parse. 89,876 states. Two configured tasks at once would multiply
  the states and add nothing: tasks meet only in the service defaults and the catalog's ids.

Only counters of faults, signals and operator writes bound the state spaces; everything
else is finite. `CHECK_DEADLOCK FALSE` is given where the process really ends; the
reconcile loop never does, and its runs check for deadlock.

### Fairness

* `TaskReconciler`: weak fairness of `Controller`: `Run` loops on a timer and each
  call returns. Tasks and ECS have none. Failures are finitely many.
* `HealthSync`: weak fairness of the start, the sync and the shutdown steps (code
  between two calls), strong fairness of the branches of `select`, which Go chooses uniformly at
  random when several are ready, and weak fairness of the monitor goroutine. The dataplane
  stops once SIGTERM was sent, as ECS stops every container of the task.
* `TaskShutdown`: weak fairness of each goroutine's steps and of the timer; the
  application and the proxy end after they got SIGTERM; stopped containers appear in
  the metadata once the task is being stopped.
* `ControllerSetup`: weak fairness of each controller's steps: ECS keeps the service's
  one task running. Not of crashes or of the operator.
* `MeshInit`: weak fairness of each container's steps.

## 4. Proofs

All theorems are for arbitrary constants that meet the named assumptions of the
modules: any number of tasks, tokens, services, containers, controllers, and any
number of faults and signals. `PROJECT.json` lists them.

**TaskReconcilerProofs** (from `ConstantsAssumption`). `TypeOK` is inductive.
`OnlyLeftoversRemoved` (theorem `LeftoversOnly`) needs two facts: `Coverage`, which the
listing establishes (an established managed task is found, or is still to be listed or
described), and `Visiting`, which the loop keeps (the resource being reconciled was not found, and what
is to be removed is its own). `NamespacesGoverned` (`Governed`) follows from
`PolicyReady`: the policy exists before a step that could refer to it.
`CleanCycleLeavesNothing` (`CleanCycle`) takes the invariant `SweepInv`, which follows a token
through the cycle. `GoneUnfound`: a task that had stopped is never found, as no page can
list it. `NamespacesKnown` and `TokensListed`: a token of a stopped task or of a foreign owner is in a
namespace still to be listed, or seen; no new one appears, as the owner cannot log in, not even in a
namespace made meanwhile. `AllAccounted`: a token seen is gone, of a task found, still
ahead of the loop, or its error is recorded, where `TokensOnce` keeps a deleted one from
coming back. `ServicesAccounted` is the same for the services, as long as no call has failed: their
errors are dropped. `ImplementsCollector` (`Collects`) maps every step to one of
`LeftoverCollector` or a stutter, from `CollectInv`, which is `SweepInv`, `Coverage`,
`Visiting` and that foreign things are never made.

**HealthSyncProofs** (from `HealthSyncAssumption`; services and gateways, with
and without login). `CacheCoherent` with `Phases` (no sync once SIGTERM is handled);
`DrainedBeforeDeregistration` from `Draining` (while `setChecksCritical` has no
error, a check that still passes is ahead of its loop); a clean exit (`ExitsClean`) from `Leaving`
(what each shutdown step has removed); `PassesOnHealthy` (`Passes`) from `Phases`,
the types and `GoneLate` (a check goes with its service, and that only after the last sync).
`ActsAsTask` (`IsATask`) is shown step by step: only a deregistration, a logout and the first
SIGTERM change what the mapping reads, and the former two come after a SIGTERM (`Asked`).
`Reports` (`ImplementsReporter`) uses all of these and `MissingOnes` (the loop over the missing
containers visits only such): every write of a round is then the verdict of its one
snapshot (`MissingVerdict`, `PresentVerdict`, `OverallVerdict`), `setChecksCritical` is a
withdrawal that is complete when it reports no error, and the process ends cleanly only
when nothing is left.

**TaskShutdownProofs** (from the assumptions of its three modules). The invariant
`IInv` joins the types, `AppEndOK` and `EnvoyEndOK` (how the channels of `Cmd.Run`
relate to where `realRun` is, `CmdOK`), `WaitOK` (who still can write to or close a channel that is
waited for), `TermOK` (whether a SIGTERM in the channel is the first)
and `ProxyOrderOK` (the monitor gives its signal only when cancelled, after which nobody
listens, or when every application container was stopped in the metadata). With it each step maps to a step of
`ShutdownOrder` or a stutter (`OrderIsKept` for `KeepsOrder`). `NeverWaitsInVain` (`NoVainWait`) is
the part of freedom from deadlock that is a state property: whoever blocks in a receive can
receive, or the one who will make that possible still has a step to take.

**Promises** proves of the abstract specifications what they are read for. `LeftoverCollector`: a
clean report is true as long as it stands (`CleanReportIsTrue`), and a task that has been running since the
cycle looked loses nothing, to anybody (`SparedKeepTheirs`). `ShutdownOrder`: SIGTERMs come
in order, and no command outlives its container (`OrderPromise`). `HealthReporter`: leaving begins
after the end of the dataplane, a complete withdrawal from traffic is for good, a clean end leaves
nothing (`ReporterPromise`); until then, and after a failure, nothing leaves the catalog
(`EntriesStay`); and a check starts passing only as it was seen (`PassesAsSeen`).

**MeshInitProofs** (from `MeshInitAssumption`, for every set of configurations and central
configurations). `IInv` is the type and, for each task and step of `realRun`, `CatalogOK`
(what is registered), `ChecksOK`, `CertOK` (the certificate, and the path passed on),
`FilesOK` (the dataplane's file is the one of this configuration and certificate),
`RulesOK` (the rules are of the task's proxy with some central configuration) and `DefaultsOK`. A step of one task
leaves what `IInv` says of the others (`OthersKeep`), as ids of different tasks differ
(`UniqueIds`). From it follow `Prepared`, `ProxyHasService`, `ResilientWhenDone` and, by
comparing the definitions of `TaskConfig`, `DataplaneFollows` (`DataplaneFollowsMeshInit`; the trust is
`TrustFollows`, and the credentials are compared unless mesh-init has a static token) and `RedirectSpares` (`RedirectionSpares`). `HandsOver` is the composition with `HealthSync`:
`RegisteredIsRemovable` and `NothingBesides` say that health-sync's ids hit the
registrations, and hit all; `AllRecognised` is the controller's side.

**ControllerSetupProofs** (from `ControllerAssumption`). `StepOK` is what is shown of
each step of a controller: it keeps the types, it takes away nothing another
controller has set up (`Grows`), and when it advances the step's resource is there
(`Established`). `SetupComplete` follows from `Progress`; it leaves out the controller's own principal,
which a write of another controller may drop (`upsertAuthMethod` says so itself). `PrincipalsKept` and
`LinksKept` say that this race is the only way to lose an entry; they come from
`ListsStep`, which names the only writes that change the lists.
`RulesBounded` needs the stronger `RulesCounted`: the copies of a rule and the controllers
about to create one are together at most the number of controllers.

Only model-checked: all liveness (`LeftoversEventuallyRemoved`,
`NamespaceEventuallyCreated`, `HealthSynced`, `OverallSynced`, `SigtermEnds`,
`ShutdownCompletes`, `ProxyEndEndsEntrypoint`, `SetupFinishes`, `Ends`), since the
prover has neither fairness nor ENABLED; and the violated statements.

## 5. Not modelled

* Of the configuration: validation against `schema.json`, the TLS settings of the HTTP
  client (`ClientConfig`), the normalisation of outlier detection, the controller's section.
  Of a registration: addresses, tagged addresses, locality, upstreams; of the redirection:
  outbound CIDRs; of the login: what the AWS bearer token holds beyond region and entity.
* Logging, `net-dial`, `version`, the command table, the Windows stubs, the test utilities: single
  calls or no part of a task.
* The text of ACL policies, of `resolv.conf`, of the dataplane's JSON, the iptables
  commands: what they say is modelled where another program relies on it.
* Which of several errors is reported: `controller.go:60` appends to the resource's
  error and not to `merr`; the models keep whether there is an error.
* Of the controller's setup: the error for a partition without `partitionsEnabled`
  (`command.go:275`), as other configuration errors; and roles that somebody has given
  other policies, which `upsertRole` leaves as they are.
* An empty page of `ListTasks` that carries a `nextToken` (`resource.go:166`).
* The gRPC server watcher and the Consul and ECS servers, beyond what the calls return.
* Tokens and services are made while their task runs; the ECS scheduler is a free environment.

Some races and failures the code has and admits: a principal or a link overwritten by a stale write,
a binding rule made twice, a check left passing by a failed update, services deregistered
without a drain when `select` takes a finished monitor before the SIGTERM. No property
forbids them; the properties listed with these hazards in `PROJECT.json` bound what they do.

## 6. Observations

Seen while modelling, and not contradicted by a run of their own:

* `schema.json` says that `consulServers.http.tls` and `defaults.tls` control TLS of the HTTP
  interface; the client is set up from `http.https` alone.
* `schema.json` (line 64) says the task id and cluster are always in the login's metadata; `mergeMeta`
  (`config.go:191`) lets the configuration replace them, as it does for a service's `task-id`. The controller then
  takes the token or the service for another task's. `HandsOver` is stated without that case.
* With `CONSUL_HTTP_TOKEN` set and login enabled, mesh-init uses the token and gives the
  dataplane credentials of type `login` with empty fields (`command.go:164-167`);
  `DataplaneFollows` leaves that case out.
* `GatewayAddress.ToConsulType` already puts the default WAN port in place, so that
  the one in `constructGatewayProxyRegistration` (`command.go:354`) is never used.
* A partial `outlierDetection` leaves its interval and failure count 0; an absent `controller`
  section leaves its IAM role path empty and not `/consul-ecs/`.

## 7. Plan

Done: the reconcile loop, as it is the one that deletes what others made; health-sync, the
entrypoints and their composition, the controllers' setup, mesh-init over the task's
configuration and its composition with health-sync; four refinements (`Collects`, `Reports`,
`ActsAsTask`, `KeepsOrder`), three of them of abstract specifications with theorems of their own;
a theorem for every safety property of a passing run.

Open:

1. A composition of `HealthSync` with `TaskReconciler` over one catalog, beyond the refinements:
   what an early removal by the controller does to the drain.
2. Abstract specifications for `ControllerSetup` (a set-up that only grows) and for `MeshInit`.
3. Gateways and a second application container in the run of `HealthSync`, which only the proofs cover.
4. The TLS of the HTTP client beside that of gRPC in `TaskConfig`.
