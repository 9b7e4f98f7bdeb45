------------------------------- MODULE MeshInit -------------------------------
(***************************************************************************)
(* The mesh-init containers (subcommand/mesh-init) of the tasks of one       *)
(* service and of its gateways: each registers its task in the Consul        *)
(* catalog, merges the passive health check into the service defaults its    *)
(* service shares, and prepares the volume and the network of its task.      *)
(***************************************************************************)
EXTENDS Naturals, FiniteSets, TaskConfig

CONSTANTS
    Tasks,          \* task ids
    Configs,        \* [task -> the configurations it may have]
    CentralConfigs, \* central configurations of proxies in Consul
    Apps,           \* config.HealthSyncContainers
    Dataplane,      \* config.ConsulDataplaneContainerName
    Proxy,          \* the name of the dataplane's check of the proxy service
    MaxFaults,      \* bound: failed calls and writes of a behaviour
    MaxOperator     \* bound: writes of the service defaults by an operator

(* The tasks that are no gateways are of one service.                         *)
OneService ==
    \A t, u \in Tasks : \A c \in Configs[t], d \in Configs[u] :
        ~IsGatewayConfig(c) /\ ~IsGatewayConfig(d) =>
            /\ constructServiceName(c, t) = constructServiceName(d, u)
            /\ c.service.namespace = d.service.namespace
            /\ c.service.partition = d.service.partition

(* The kinds of gateways that schema.json allows.                             *)
GatewayKinds == {"mesh-gateway", "terminating-gateway", "api-gateway"}

ASSUME MeshInitAssumption ==
    /\ OneService
    /\ \A t \in Tasks : \A c \in Configs[t] : IsGatewayConfig(c) => c.gateway.kind \in GatewayKinds
    /\ CentralConfigs # {}
    /\ Dataplane \notin Apps /\ Proxy \notin Apps \cup {Dataplane}
    /\ MaxFaults \in Nat /\ MaxOperator \in Nat

VARIABLES
    config,    \* the configuration of each task
    pc,        \* where realRun is
    catalog,   \* the registrations
    checks,    \* status of each << task, check >> in the catalog
    defaults,  \* the service defaults of the service in Consul
    seen,      \* those each mesh-init has read
    files,     \* the other files mesh-init has written for its task
    rpcCACertFile,  \* the path of the certificate for the dataplane
    caCert,         \* [task -> the certificate in the file of its volume]
    dataplane,      \* [task -> the dataplane's configuration file]
    redirection,    \* [task -> the redirection rules that are applied]
    faults, operator   \* bound counters

consul == << catalog, checks, defaults >>
volume == << files, rpcCACertFile, caCert, dataplane, redirection >>
vars == << config, pc, consul, volume, seen, faults, operator >>

(* Fields of the service defaults an operator sets, and UpstreamConfig's      *)
(* passive health check by who has set it; no entry is one without either.    *)
Entries == [fields : {"none", "set"}, passive : {"none", "operator", "consul-ecs"}]
NoEntry == [fields |-> "none", passive |-> "none"]

PCs == {"client", "service", "proxy", "getDefaults", "setDefaults", "binary", "caCert",
        "config", "dns", "redirect", "done", "failed"}

Init ==
    /\ config \in [Tasks -> UNION {Configs[t] : t \in Tasks}]
    /\ \A t \in Tasks : config[t] \in Configs[t]
    /\ pc = [t \in Tasks |-> "client"]
    /\ catalog = {}
    /\ checks = [c \in {} |-> "critical"]
    /\ defaults = NoEntry
    /\ seen = [t \in Tasks |-> NoEntry]
    /\ files = [t \in Tasks |-> {}]
    /\ rpcCACertFile = [t \in Tasks |-> Unset]
    /\ caCert = [t \in {} |-> Unset]
    /\ dataplane = [t \in {} |-> Unset]
    /\ redirection = [t \in {} |-> Unset]
    /\ faults = 0 /\ operator = 0

Fault == faults < MaxFaults /\ faults' = faults + 1

Goto(t, label) == pc' = [pc EXCEPT ![t] = label]

(* An error realRun returns: mesh-init exits with 1 and the task stops.       *)
Fail(t) == Goto(t, "failed") /\ Fault

-----------------------------------------------------------------------------
(* The metadata, the first server of the watcher, a client for it, and the    *)
(* registrations: that of a sidecar without a proxy section dereferences nil. *)
Client(t) ==
    /\ pc[t] = "client"
    /\ \/ /\ Goto(t, IF IsGatewayConfig(config[t]) THEN "proxy"
                     ELSE IF config[t].proxy.given THEN "service" ELSE "failed")
          /\ UNCHANGED faults
       \/ Fail(t)
    /\ UNCHANGED << consul, volume, seen, operator >>

(* Variant: the health-synced containers get no check of their own.           *)
DataplaneCheckOnly(t, svc) ==
    IF svc = "service" \/ IsGatewayConfig(config[t]) THEN {Dataplane} ELSE {Proxy}

(* constructChecks: one for each health-synced container, for a typical       *)
(* service only, and one for the dataplane.                                   *)
ConstructChecks(t, svc) ==
    IF svc = "service" THEN Apps \cup {Dataplane}
    ELSE IF IsGatewayConfig(config[t]) THEN {Dataplane} ELSE {Proxy}

(* A catalog registration sets the service and its checks, all critical.      *)
Registered(t, svc) ==
    LET r == Registration(config[t], t, svc)
        ids == {<< t, c >> : c \in ConstructChecks(t, svc)}
    IN /\ catalog' = {s \in catalog : s.id # r.id} \cup {r}
       /\ checks' = [i \in DOMAIN checks \cup ids |-> IF i \in ids THEN "critical" ELSE checks[i]]

(* Variant: after a failure the registration is given up.                     *)
RegisterOnce(t, svc, next) ==
    /\ \/ Registered(t, svc) /\ UNCHANGED faults
       \/ Fault /\ UNCHANGED << catalog, checks >>
    /\ Goto(t, next)
    /\ UNCHANGED << defaults, volume, seen, operator >>

(* Retried every second without end; a failed call may have taken effect.     *)
Register(t, svc, next) ==
    /\ \/ Registered(t, svc) /\ Goto(t, next) /\ UNCHANGED faults
       \/ Fault /\ (Registered(t, svc) \/ UNCHANGED << catalog, checks >>) /\ UNCHANGED pc
    /\ UNCHANGED << defaults, volume, seen, operator >>

RegisterService(t) ==
    /\ pc[t] = "service"
    /\ Register(t, "service", "proxy")

(* Variant: gateways, which have no service, get service defaults too.        *)
RegisterProxyAnyKind(t) ==
    /\ pc[t] = "proxy"
    /\ Register(t, "proxy", IF config[t].service.resilient THEN "getDefaults" ELSE "binary")

RegisterProxy(t) ==
    /\ pc[t] = "proxy"
    /\ Register(t, "proxy", IF ResilienceEnabled(config[t]) THEN "getDefaults" ELSE "binary")

-----------------------------------------------------------------------------
(* registerServiceDefaults.                                                   *)

(* Variant: a missing entry is waited for.                                    *)
GetDefaultsWaiting(t) ==
    /\ pc[t] = "getDefaults" /\ defaults # NoEntry
    /\ Goto(t, "setDefaults") /\ seen' = [seen EXCEPT ![t] = defaults]
    /\ UNCHANGED << consul, volume, operator, faults >>

(* A missing entry is not an error; any other failure is.                     *)
GetDefaults(t) ==
    /\ pc[t] = "getDefaults"
    /\ \/ Goto(t, "setDefaults") /\ seen' = [seen EXCEPT ![t] = defaults] /\ UNCHANGED faults
       \/ Fail(t) /\ UNCHANGED seen
    /\ UNCHANGED << consul, volume, operator >>

(* Variant: the passive health check is always set.                           *)
MergedAlways(e) == [e EXCEPT !.passive = "consul-ecs"]

(* The passive health check is added to an entry without one.                 *)
Merged(e) == IF e.passive = "none" THEN [e EXCEPT !.passive = "consul-ecs"] ELSE e

(* Variant: the entry is written once.                                        *)
SetDefaultsOnce(t) ==
    /\ pc[t] = "setDefaults"
    /\ Goto(t, "binary")
    /\ \/ defaults' = Merged(seen[t]) /\ UNCHANGED faults
       \/ Fault /\ UNCHANGED defaults
    /\ UNCHANGED << catalog, checks, volume, seen, operator >>

(* Set overwrites the entry, without check-and-set; retried without end.      *)
SetDefaults(t) ==
    /\ pc[t] = "setDefaults"
    /\ \/ defaults' = Merged(seen[t]) /\ Goto(t, "binary") /\ UNCHANGED faults
       \/ Fault /\ defaults' \in {defaults, Merged(seen[t])} /\ UNCHANGED pc
    /\ UNCHANGED << catalog, checks, volume, seen, operator >>

(* An operator writes the entry, at any time.                                 *)
OperatorWrites(e) ==
    /\ operator < MaxOperator /\ operator' = operator + 1
    /\ e.passive # "consul-ecs" /\ e # defaults
    /\ defaults' = e
    /\ UNCHANGED << pc, catalog, checks, volume, seen, faults >>

-----------------------------------------------------------------------------
(* The volume and the network of the task.                                    *)

Writes(t, file, next) ==
    \/ Goto(t, next) /\ files' = [files EXCEPT ![t] = @ \cup {file}] /\ UNCHANGED faults
    \/ Fail(t) /\ UNCHANGED files

(* A file or a set of rules that f keeps by task.                             *)
With(f, t, content) == [u \in DOMAIN f \cup {t} |-> IF u = t THEN content ELSE f[u]]

CopyBinary(t) ==
    /\ pc[t] = "binary"
    /\ Writes(t, "binary", "caCert")
    /\ UNCHANGED << consul, rpcCACertFile, caCert, dataplane, redirection, seen, operator >>

(* Variant: a certificate file that is configured goes before the PEM.        *)
WriteCACertFileFirst(t) ==
    /\ pc[t] = "caCert"
    /\ rpcCACertFile' = [rpcCACertFile EXCEPT ![t] = GetGRPCTLSSettings(config[t]).caCertFile]
    /\ Goto(t, "config")
    /\ UNCHANGED << consul, files, caCert, dataplane, redirection, seen, operator, faults >>

(* Only a PEM is written; otherwise the configured path, or none, is used.    *)
WriteCACert(t) ==
    /\ pc[t] = "caCert"
    /\ \/ /\ Goto(t, "config")
          /\ rpcCACertFile' = [rpcCACertFile EXCEPT ![t] = RPCCACertFile(config[t])]
          /\ caCert' = IF WritesCACert(config[t])
                         THEN With(caCert, t, config[t].env.grpcPem) ELSE caCert
          /\ UNCHANGED faults
       \/ /\ WritesCACert(config[t]) /\ Fail(t)
          /\ UNCHANGED << rpcCACertFile, caCert >>
    /\ UNCHANGED << consul, files, dataplane, redirection, seen, operator >>

(* Variant: the configuration of DNS is the last step.                        *)
AfterDNSDone(t) == "done"

(* Where realRun goes after the dataplane's configuration and after DNS.      *)
AfterDNS(t) == IF TransparentProxyEnabled(config[t]) THEN "redirect" ELSE "done"

WriteConfig(t) ==
    /\ pc[t] = "config"
    /\ \/ /\ Goto(t, IF ConsulDNSEnabled(config[t]) THEN "dns" ELSE AfterDNS(t))
          /\ dataplane' =
                With(dataplane, t, GetDataplaneConfigJSON(config[t], t, rpcCACertFile[t]))
          /\ UNCHANGED faults
       \/ Fail(t) /\ UNCHANGED dataplane
    /\ UNCHANGED << consul, files, rpcCACertFile, caCert, redirection, seen, operator >>

(* The dataplane's name server goes in front of those of resolv.conf.         *)
ConfigureDNS(t) ==
    /\ pc[t] = "dns"
    /\ Writes(t, "resolvConf", AfterDNS(t))
    /\ UNCHANGED << consul, rpcCACertFile, caCert, dataplane, redirection, seen, operator >>

(* What the catalog returns for the id of the proxy, in the namespace and     *)
(* partition of the client.                                                   *)
ProxyService(t) ==
    {r \in catalog :
        /\ r.node = Cluster /\ r.id = Registration(config[t], t, "proxy").id
        /\ r.namespace = getNamespace(config[t]) /\ r.partition = getPartition(config[t])}

(* A proxy that is not found, or whose configuration does not parse, is an    *)
(* error; the rules are for it with its central configuration as it is then.  *)
RedirectTraffic(t) ==
    /\ pc[t] = "redirect"
    /\ \/ \E central \in CentralConfigs :
            LET found == {p \in {WithCentralConfig(r, central) : r \in ProxyService(t)} :
                            ~Malformed(p)}
            IN IF found = {}
                 THEN Goto(t, "failed") /\ UNCHANGED << redirection, faults >>
                 ELSE \E proxySvc \in found :
                        /\ Goto(t, "done") /\ UNCHANGED faults
                        /\ redirection' =
                              With(redirection, t, RedirectionRules(config[t], proxySvc))
       \/ Fail(t) /\ UNCHANGED redirection
    /\ UNCHANGED << consul, files, rpcCACertFile, caCert, dataplane, seen, operator >>

Step(t) ==
    \/ Client(t) \/ RegisterService(t) \/ RegisterProxy(t) \/ GetDefaults(t) \/ SetDefaults(t)
    \/ CopyBinary(t) \/ WriteCACert(t) \/ WriteConfig(t) \/ ConfigureDNS(t)
    \/ RedirectTraffic(t)

Next ==
    /\ \/ \E t \in Tasks : Step(t)
       \/ \E e \in Entries : OperatorWrites(e)
    /\ UNCHANGED config

Spec == Init /\ [][Next]_vars

(* Each mesh-init runs and its calls return.                                  *)
FairSpec == Spec /\ \A t \in Tasks : WF_vars(Step(t) /\ UNCHANGED config)

-----------------------------------------------------------------------------
(* Properties.                                                                *)

TypeOK ==
    /\ config \in [Tasks -> UNION {Configs[t] : t \in Tasks}]
    /\ \A t \in Tasks : config[t] \in Configs[t]
    /\ pc \in [Tasks -> PCs]
    /\ catalog \subseteq {Registration(config[t], t, svc) : t \in Tasks, svc \in {"service", "proxy"}}
    /\ DOMAIN checks \subseteq Tasks \X (Apps \cup {Dataplane, Proxy})
    /\ \A c \in DOMAIN checks : checks[c] = "critical"
    /\ defaults \in Entries
    /\ seen \in [Tasks -> Entries]
    /\ files \in [Tasks -> SUBSET {"binary", "resolvConf"}]
    /\ DOMAIN rpcCACertFile = Tasks
    /\ DOMAIN caCert \cup DOMAIN dataplane \cup DOMAIN redirection \subseteq Tasks
    /\ \A t \in Tasks : pc[t] \in {"getDefaults", "setDefaults"} => ResilienceEnabled(config[t])
    /\ faults \in 0..MaxFaults /\ operator \in 0..MaxOperator

(* What health-sync of task t finds when ECS starts it: HealthSync with the   *)
(* task's part of the catalog, the services in it that it will deregister.    *)
TaskChecks(t) == {i \in DOMAIN checks : i[1] = t}
Removable(t, svc) == \E r \in catalog : Removes(Deregistration(config[t], t, svc), r)
HS(t, gateway) == INSTANCE HealthSync WITH
    IsGateway <- gateway, LoginEnabled <- TRUE, LostReplies <- TRUE,
    Healths <- {"HEALTHY", "UNHEALTHY"}, MaxSigterms <- 0, faults <- 0,
    meta <- [n \in Apps \cup {Dataplane} |-> "missing"], dpStopped <- FALSE,
    snap <- [n \in Apps \cup {Dataplane} |-> "missing"], cur <- [n \in Apps |-> ""],
    check <- [c \in {i[2] : i \in TaskChecks(t)} |-> checks[<< t, c >>]],
    registered <- {svc \in {"service", "proxy"} : Removable(t, svc)},
    loggedIn <- TRUE, pc <- "start", todo <- {}, shuttingDown <- FALSE, sigs <- FALSE,
    sigterms <- 0, monitor <- "off", clientOK <- TRUE, switch <- FALSE, errs <- FALSE,
    critErr <- FALSE

(* For the controller, the services of a task and the token of its login are  *)
(* the task's, unless its configuration replaces the metadata that say so.    *)
Recognised(t) ==
    LET c == config[t]
        login == getLoginDiscoveryCredentials(c, t)
        user == IF IsGatewayConfig(c) THEN c.gateway.meta ELSE c.service.meta
    IN /\ "task-id" \notin DOMAIN user =>
            \A r \in catalog : r.id.task = t => getTaskIDFromServiceMeta(r) = t
       /\ DOMAIN c.consulLogin.meta \cap DOMAIN TokenMeta(t) = {} =>
            parseTokenDescription(login) = [task |-> t, cluster |-> Cluster]

(* A successful mesh-init leaves the catalog as health-sync expects it, which *)
(* works out the ids for itself: each service it will deregister and each     *)
(* check it will write, all critical, and nothing of the task besides.  What  *)
(* health-sync does not come to remove the controller recognises.             *)
HandsOver ==
    \A t \in Tasks, gateway \in BOOLEAN :
        pc[t] = "done" /\ gateway = IsGatewayConfig(config[t]) =>
            /\ HS(t, gateway)!Init
            /\ \A r \in catalog : r.id.task = t =>
                 \E svc \in {"service", "proxy"} : Removes(Deregistration(config[t], t, svc), r)
            /\ Recognised(t)

(* However often a registration fails or is repeated, the catalog never holds *)
(* the proxy of a task without the service it is a proxy for.                 *)
ProxyHasService ==
    \A r \in catalog : r.kind = "connect-proxy" =>
        \E s \in catalog :
            /\ s.id = r.destination /\ s.port = r.localPort
            /\ s.namespace = r.namespace /\ s.partition = r.partition

(* The containers started after a successful mesh-init find what it was       *)
(* configured to prepare.                                                     *)
Prepared ==
    \A t \in Tasks : pc[t] = "done" =>
        /\ "binary" \in files[t] /\ t \in DOMAIN dataplane
        /\ ConsulDNSEnabled(config[t]) => "resolvConf" \in files[t]
        /\ TransparentProxyEnabled(config[t]) => t \in DOMAIN redirection

(* What the dataplane of task t verifies its servers with.                    *)
DataplaneTrust(t) ==
    LET file == dataplane[t].tls.caCertFile
    IN IF t \in DOMAIN caCert /\ file = CACertPath
         THEN Trust(caCert[t], Unset) ELSE Trust(Unset, file)

(* The file mesh-init writes makes the dataplane connect as mesh-init did:    *)
(* to the same servers, with the same trust, though it cannot take a PEM, and *)
(* with the same login, for the proxy that is in the catalog, and serve DNS   *)
(* where the task looks for it.  A static token is not passed on.             *)
DataplaneFollows ==
    \A t \in Tasks : pc[t] = "done" =>
        LET c == config[t]
            d == dataplane[t]
            own == ConsulServerConnMgrConfig(c, t)
        IN /\ d.addresses = own.addresses /\ d.grpcPort = own.grpcPort
           /\ d.serverWatchDisabled = own.serverWatchDisabled
           /\ d.tls.disabled = ~own.tls.enabled
           /\ d.tls.tlsServerName = own.tls.serverName
           /\ DataplaneTrust(t) = own.tls.trust
           /\ own.credentials.type # "static" => d.credentials = own.credentials
           /\ \E r \in catalog :
                /\ r.kind # Unset /\ r.id = d.id /\ r.node = d.node
                /\ r.namespace = d.namespace /\ r.partition = d.partition
           /\ d.dns # Unset <=> "resolvConf" \in files[t]

(* The redirection leads inbound traffic to the port the proxy is registered  *)
(* with, or binds to, lets the dataplane answer the readiness checks and the  *)
(* proxy those for metrics and exposed paths themselves, leaves health-sync's *)
(* own traffic alone, and sends DNS where the dataplane serves it.            *)
RedirectSpares ==
    \A t \in DOMAIN redirection :
        LET rules == redirection[t]
            proxy == rules.proxySvc
        IN /\ \E r \in ProxyService(t) : rules.proxyInboundPort = Or(proxy.opaque.bindPort, r.port)
           /\ dataplane[t].readyBindPort \in rules.excludeInboundPorts
           /\ {proxy.opaque.prometheus, proxy.opaque.stats} \ {Unset}
                \subseteq rules.excludeInboundPorts
           /\ config[t].proxy.expose \ {Unset} \subseteq rules.excludeInboundPorts
           /\ "5996" \in rules.excludeUIDs
           /\ rules.dns = dataplane[t].dns

(* A write of the service defaults by mesh-init.                              *)
MeshWrite == defaults' # defaults /\ operator' = operator

(* It is that of a task which, if nobody has written the entry since, keeps    *)
(* what the entry holds.                                                      *)
KeepsWhatItRead ==
    \E t \in Tasks :
        /\ pc[t] = "setDefaults"
        /\ seen[t] = defaults => defaults'.fields = defaults.fields /\ defaults.passive = "none"

(* A mesh-init that writes what it has just read keeps what the operator set: *)
(* only an entry written since its read is overwritten.                       *)
FreshWriteKeeps == [][MeshWrite => KeepsWhatItRead]_vars

(* With no operator at work, a resilient task that is done has a passive      *)
(* health check in the defaults of its service, whichever task wrote last.    *)
ResilientWhenDone ==
    operator = 0 =>
        \A t \in Tasks :
            pc[t] = "done" /\ ResilienceEnabled(config[t]) => defaults.passive # "none"

(* Every mesh-init ends, though its registrations are retried without end.    *)
Ends == \A t \in Tasks : <>(pc[t] \in {"done", "failed"})

(* The comment on registerServiceDefaults (command.go:579): it "only adds     *)
(* passive health check if not already present".                              *)
PassiveOnlyAdded ==
    [][MeshWrite => defaults.passive = "none" \/ defaults'.passive = defaults.passive]_vars

=============================================================================
