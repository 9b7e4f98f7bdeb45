--------------------------- MODULE MeshInitProofs ---------------------------
(* Proofs about MeshInit, for every set of tasks and of configurations, every *)
(* central configuration of proxies, and every number of failed calls and of  *)
(* writes by an operator.                                                     *)
EXTENDS MeshInit, TLAPS

LEMMA Bounds == MaxFaults \in Nat /\ MaxOperator \in Nat
BY MeshInitAssumption DEF MeshInitAssumption

LEMMA Kinds ==
    ASSUME NEW t \in Tasks, NEW c \in Configs[t], IsGatewayConfig(c)
    PROVE  c.gateway.kind \in GatewayKinds
BY MeshInitAssumption DEF MeshInitAssumption

Reg(t, svc) == Registration(config[t], t, svc)
Regs == {Reg(t, svc) : t \in Tasks, svc \in {"service", "proxy"}}
CheckIds(t, svc) == {<< t, c >> : c \in ConstructChecks(t, svc)}
AllCheckIds == Tasks \X (Apps \cup {Dataplane, Proxy})

(* The registrations of a task: what tells them apart.                        *)
LEMMA Ids ==
    ASSUME NEW t
    PROVE  /\ Reg(t, "service").id = makeServiceID(constructServiceName(config[t], t), t)
           /\ Reg(t, "service").kind = Unset
           /\ IsGatewayConfig(config[t]) =>
                /\ Reg(t, "proxy").id = makeServiceID(constructServiceName(config[t], t), t)
                /\ Reg(t, "proxy").kind = config[t].gateway.kind
           /\ ~IsGatewayConfig(config[t]) =>
                /\ Reg(t, "proxy").id = makeProxySvcID(Reg(t, "service").id)
                /\ Reg(t, "proxy").kind = "connect-proxy"
BY DEF Reg, Registration, constructServiceRegistration, constructProxyRegistration,
       constructGatewayProxyRegistration

LEMMA IdTask ==
    ASSUME NEW t, NEW svc \in {"service", "proxy"}
    PROVE  Reg(t, svc).id.task = t
BY DEF Reg, Registration, constructServiceRegistration, constructProxyRegistration,
       constructGatewayProxyRegistration, makeServiceID, makeProxySvcID

LEMMA IdSidecar ==
    ASSUME NEW t, NEW svc \in {"service", "proxy"}
    PROVE  /\ svc = "proxy" /\ ~IsGatewayConfig(config[t]) => Reg(t, svc).id.sidecar = TRUE
           /\ svc = "service" \/ IsGatewayConfig(config[t]) => Reg(t, svc).id.sidecar = FALSE
BY DEF Reg, Registration, constructServiceRegistration, constructProxyRegistration,
       constructGatewayProxyRegistration, makeServiceID, makeProxySvcID

LEMMA ProxyKind ==
    ASSUME NEW t
    PROVE  Reg(t, "proxy").kind # Unset
BY DEF Reg, Registration, constructProxyRegistration, constructGatewayProxyRegistration,
       IsGatewayConfig, Unset

LEMMA RegsDiffer ==
    ASSUME NEW t
    PROVE  Reg(t, "service") # Reg(t, "proxy")
BY Ids, ProxyKind

-----------------------------------------------------------------------------
(* Type correctness.                                                          *)

LEMMA InitTypeOK == Init => TypeOK
<1> SUFFICES ASSUME Init PROVE TypeOK
    OBVIOUS
<1>1. faults \in 0..MaxFaults /\ operator \in 0..MaxOperator
    BY Bounds DEF Init
<1>2. defaults \in Entries /\ seen \in [Tasks -> Entries]
    BY DEF Init, Entries, NoEntry
<1>3. DOMAIN checks = {} /\ DOMAIN caCert = {} /\ DOMAIN dataplane = {} /\ DOMAIN redirection = {}
    BY DEF Init
<1>4. DOMAIN rpcCACertFile = Tasks /\ catalog = {}
    BY DEF Init
<1> QED
    BY <1>1, <1>2, <1>3, <1>4 DEF Init, TypeOK, PCs

LEMMA FaultType ==
    ASSUME faults \in 0..MaxFaults, Fault \/ UNCHANGED faults
    PROVE  faults' \in 0..MaxFaults
BY Bounds DEF Fault

LEMMA MergedType ==
    ASSUME NEW e \in Entries
    PROVE  /\ Merged(e) \in Entries
           /\ Merged(e).passive # "none" /\ Merged(e).fields = e.fields
           /\ e.passive # "none" => Merged(e) = e
BY DEF Merged, Entries

(* What a step of task t leaves alone.                                        *)
LEMMA StepFrame ==
    ASSUME TypeOK, NEW t \in Tasks, Step(t)
    PROVE  /\ operator' = operator
           /\ Fault \/ UNCHANGED faults
           /\ \E l \in PCs : pc' = [pc EXCEPT ![t] = l]
<1> USE DEF TypeOK
<1>1. CASE Client(t) \/ RegisterService(t) \/ RegisterProxy(t)
    BY <1>1 DEF Client, RegisterService, RegisterProxy, Register, Goto, Fail, PCs
<1>2. CASE GetDefaults(t) \/ SetDefaults(t)
    BY <1>2 DEF GetDefaults, SetDefaults, Goto, Fail, PCs
<1>3. CASE CopyBinary(t) \/ WriteCACert(t) \/ WriteConfig(t)
    BY <1>3 DEF CopyBinary, WriteCACert, WriteConfig, Writes, Goto, Fail, PCs, AfterDNS
<1>4. CASE ConfigureDNS(t) \/ RedirectTraffic(t)
    BY <1>4 DEF ConfigureDNS, RedirectTraffic, Writes, Goto, Fail, PCs, AfterDNS
<1> QED
    BY <1>1, <1>2, <1>3, <1>4 DEF Step

LEMMA ConstructChecksType ==
    ASSUME NEW t \in Tasks, NEW svc \in {"service", "proxy"}
    PROVE  ConstructChecks(t, svc) \subseteq Apps \cup {Dataplane, Proxy}
BY DEF ConstructChecks

LEMMA RegisteredType ==
    ASSUME TypeOK, NEW t \in Tasks, NEW svc \in {"service", "proxy"}, Registered(t, svc)
    PROVE  /\ catalog' \subseteq Regs
           /\ DOMAIN checks' \subseteq AllCheckIds
           /\ DOMAIN checks' = DOMAIN checks \cup CheckIds(t, svc)
           /\ \A c \in DOMAIN checks' : checks'[c] = "critical"
<1>1. catalog \subseteq Regs /\ DOMAIN checks \subseteq AllCheckIds
    BY DEF TypeOK, Regs, Reg, AllCheckIds
<1>2. /\ Reg(t, svc) \in Regs
      /\ CheckIds(t, svc) \subseteq AllCheckIds
    BY ConstructChecksType DEF Regs, CheckIds, AllCheckIds
<1>3. /\ catalog' \subseteq catalog \cup {Reg(t, svc)}
      /\ DOMAIN checks' = DOMAIN checks \cup CheckIds(t, svc)
      /\ \A c \in DOMAIN checks' : checks'[c] \in {"critical", checks[c]}
      /\ \A c \in DOMAIN checks' \ DOMAIN checks : checks'[c] = "critical"
    BY DEF Registered, Reg, CheckIds
<1> QED
    BY <1>1, <1>2, <1>3 DEF TypeOK

(* The catalog and the checks after a step.                                   *)
LEMMA StepCatalogType ==
    ASSUME TypeOK, NEW t \in Tasks, Step(t), UNCHANGED config
    PROVE  /\ (catalog \subseteq Regs)'
           /\ DOMAIN checks' \subseteq AllCheckIds
           /\ \A c \in DOMAIN checks' : checks'[c] = "critical"
<1>1. ASSUME UNCHANGED << catalog, checks >>
      PROVE  /\ catalog' \subseteq Regs
             /\ DOMAIN checks' \subseteq AllCheckIds
             /\ \A c \in DOMAIN checks' : checks'[c] = "critical"
    BY <1>1 DEF TypeOK, Reg, Regs, AllCheckIds
<1>2. \/ UNCHANGED << catalog, checks >>
      \/ \E svc \in {"service", "proxy"} : Registered(t, svc)
    BY DEF Step, Client, RegisterService, RegisterProxy, Register, GetDefaults, SetDefaults,
           CopyBinary, WriteCACert, WriteConfig, ConfigureDNS, RedirectTraffic, consul
<1>3. /\ catalog' \subseteq Regs
      /\ DOMAIN checks' \subseteq AllCheckIds
      /\ \A c \in DOMAIN checks' : checks'[c] = "critical"
    <2>1. ASSUME NEW svc \in {"service", "proxy"}, Registered(t, svc)
          PROVE  /\ catalog' \subseteq Regs
                 /\ DOMAIN checks' \subseteq AllCheckIds
                 /\ \A c \in DOMAIN checks' : checks'[c] = "critical"
        BY <2>1, RegisteredType
    <2> QED
        BY <1>1, <1>2, <2>1
<1> QED
    BY <1>3 DEF Reg, Regs

(* What a step writes on the volume.                                          *)
LEMMA StepVolumeType ==
    ASSUME TypeOK, NEW t \in Tasks, Step(t)
    PROVE  /\ files' \in [Tasks -> SUBSET {"binary", "resolvConf"}]
           /\ DOMAIN rpcCACertFile' = Tasks
           /\ DOMAIN caCert' \cup DOMAIN dataplane' \cup DOMAIN redirection' \subseteq Tasks
<1> USE DEF TypeOK
<1>1. CASE Client(t) \/ RegisterService(t) \/ RegisterProxy(t) \/ GetDefaults(t) \/ SetDefaults(t)
    BY <1>1 DEF Client, RegisterService, RegisterProxy, Register, GetDefaults, SetDefaults, volume
<1>2. CASE CopyBinary(t) \/ ConfigureDNS(t)
    BY <1>2 DEF CopyBinary, ConfigureDNS, Writes
<1>3. CASE WriteCACert(t)
    BY <1>3 DEF WriteCACert, With
<1>4. CASE WriteConfig(t)
    BY <1>4 DEF WriteConfig, With
<1>5. CASE RedirectTraffic(t)
    BY <1>5 DEF RedirectTraffic, With
<1> QED
    BY <1>1, <1>2, <1>3, <1>4, <1>5 DEF Step

LEMMA StepTypeOK ==
    ASSUME TypeOK, NEW t \in Tasks, Step(t), UNCHANGED config
    PROVE  TypeOK'
<1>1. /\ faults' \in 0..MaxFaults /\ operator' \in 0..MaxOperator
      /\ pc' \in [Tasks -> PCs]
    BY StepFrame, FaultType DEF TypeOK
<1>2. defaults' \in Entries /\ seen' \in [Tasks -> Entries]
    <2>1. Merged(seen[t]) \in Entries
        BY MergedType DEF TypeOK
    <2> QED
        BY <2>1
        DEF TypeOK, Step, Client, RegisterService, RegisterProxy, Register, GetDefaults,
            SetDefaults, CopyBinary, WriteCACert, WriteConfig, ConfigureDNS, RedirectTraffic,
            consul
<1>3. \A u \in Tasks :
          pc'[u] \in {"getDefaults", "setDefaults"} => ResilienceEnabled(config'[u])
    <2>1. pc'[t] \in {"getDefaults", "setDefaults"} => ResilienceEnabled(config[t])
        BY DEF TypeOK, Step, Client, RegisterService, RegisterProxy, Register, GetDefaults,
               SetDefaults, CopyBinary, WriteCACert, WriteConfig, ConfigureDNS, RedirectTraffic,
               Writes, Goto, Fail, AfterDNS
    <2>2. \A u \in Tasks \ {t} : pc'[u] = pc[u]
        BY StepFrame DEF TypeOK
    <2> QED
        BY <2>1, <2>2 DEF TypeOK
<1> QED
    BY <1>1, <1>2, <1>3, StepCatalogType, StepVolumeType DEF TypeOK, Reg, Regs, AllCheckIds

LEMMA OperatorTypeOK ==
    ASSUME TypeOK, NEW e \in Entries, OperatorWrites(e), UNCHANGED config
    PROVE  TypeOK'
BY Bounds DEF OperatorWrites, TypeOK, volume

LEMMA NextTypeOK == TypeOK /\ [Next]_vars => TypeOK'
<1>1. TypeOK /\ UNCHANGED vars => TypeOK'
    BY DEF TypeOK, vars, consul, volume
<1> QED
    BY <1>1, StepTypeOK, OperatorTypeOK DEF Next

(* Every variable of the mesh-init containers keeps its type.                 *)
THEOREM TypeCorrect == Spec => []TypeOK
BY InitTypeOK, NextTypeOK, PTL DEF Spec

-----------------------------------------------------------------------------
(* FreshWriteKeeps is a property of one step.                                 *)

(* Only registerServiceDefaults writes the defaults, and what it writes over  *)
(* an entry it has just read differs from it by the passive health check.     *)
THEOREM FreshWrites == Spec => FreshWriteKeeps
<1>1. TypeOK /\ [Next]_vars => [MeshWrite => KeepsWhatItRead]_vars
    <2> SUFFICES ASSUME TypeOK, Next, MeshWrite PROVE KeepsWhatItRead
        OBVIOUS
    <2>1. ASSUME NEW e \in Entries, OperatorWrites(e) PROVE FALSE
        BY <2>1 DEF OperatorWrites, MeshWrite, TypeOK
    <2>2. PICK t \in Tasks : Step(t)
        BY <2>1 DEF Next
    <2>3. SetDefaults(t)
        BY <2>2 DEF Step, Client, RegisterService, RegisterProxy, Register, GetDefaults,
                    CopyBinary, WriteCACert, WriteConfig, ConfigureDNS, RedirectTraffic,
                    consul, MeshWrite
    <2>4. defaults' = Merged(seen[t])
        BY <2>3 DEF SetDefaults, MeshWrite
    <2> QED
        BY <2>3, <2>4, MergedType DEF SetDefaults, TypeOK, MeshWrite, KeepsWhatItRead
<1> QED
    BY <1>1, TypeCorrect, PTL DEF Spec, FreshWriteKeeps

-----------------------------------------------------------------------------
(* What mesh-init has done of each task at each step of realRun.              *)

PastDefaults == {"binary", "caCert", "config", "dns", "redirect", "done"}
PastProxy == {"getDefaults", "setDefaults"} \cup PastDefaults
PastService == {"proxy"} \cup PastProxy

KnownChecks(t) ==
    IF IsGatewayConfig(config[t]) THEN {Dataplane} ELSE Apps \cup {Dataplane, Proxy}

CatalogOK(t) ==
    LET gateway == IsGatewayConfig(config[t])
    IN /\ ~gateway /\ pc[t] \in PastService => Reg(t, "service") \in catalog
       /\ ~gateway /\ Reg(t, "proxy") \in catalog => Reg(t, "service") \in catalog
       /\ gateway => pc[t] # "service" /\ Reg(t, "service") \notin catalog
       /\ pc[t] \in PastProxy => Reg(t, "proxy") \in catalog

ChecksOK(t) ==
    /\ \A svc \in {"service", "proxy"} : Reg(t, svc) \in catalog =>
         \A c \in ConstructChecks(t, svc) : << t, c >> \in DOMAIN checks
    /\ \A c : << t, c >> \in DOMAIN checks => c \in KnownChecks(t)

(* The certificate, and the path of it, on which the dataplane's file relies. *)
CertOK(t) ==
    /\ pc[t] \in {"config", "dns", "redirect", "done"} =>
        /\ rpcCACertFile[t] = RPCCACertFile(config[t])
        /\ WritesCACert(config[t]) => t \in DOMAIN caCert
    /\ t \in DOMAIN caCert => WritesCACert(config[t]) /\ caCert[t] = config[t].env.grpcPem

FilesOK(t) ==
    /\ pc[t] \in PastDefaults \ {"binary"} => "binary" \in files[t]
    /\ pc[t] \in {"dns", "redirect", "done"} =>
        /\ t \in DOMAIN dataplane
        /\ dataplane[t] = GetDataplaneConfigJSON(config[t], t, RPCCACertFile(config[t]))
    /\ pc[t] = "dns" \/ "resolvConf" \in files[t] => ConsulDNSEnabled(config[t])
    /\ pc[t] \in {"redirect", "done"} /\ ConsulDNSEnabled(config[t]) => "resolvConf" \in files[t]

(* The rules are those for the proxy the task has registered.                 *)
RulesOK(t) ==
    /\ pc[t] = "redirect" => TransparentProxyEnabled(config[t])
    /\ pc[t] = "done" /\ TransparentProxyEnabled(config[t]) => t \in DOMAIN redirection
    /\ t \in DOMAIN redirection =>
        /\ pc[t] = "done" /\ TransparentProxyEnabled(config[t])
        /\ \E central \in CentralConfigs :
            redirection[t] =
                RedirectionRules(config[t], WithCentralConfig(Reg(t, "proxy"), central))

DefaultsOK(t) ==
    operator = 0 /\ ResilienceEnabled(config[t]) /\ pc[t] \in PastDefaults =>
        defaults.passive # "none"

TaskOK(t) ==
    CatalogOK(t) /\ ChecksOK(t) /\ CertOK(t) /\ FilesOK(t) /\ RulesOK(t) /\ DefaultsOK(t)

IInv == TypeOK /\ \A t \in Tasks : TaskOK(t)

LEMMA InitIInv == Init => IInv
<1> SUFFICES ASSUME Init, NEW t \in Tasks PROVE TaskOK(t)
    BY InitTypeOK DEF IInv
<1>1. /\ pc[t] = "client" /\ catalog = {} /\ DOMAIN checks = {} /\ files[t] = {}
      /\ DOMAIN caCert = {} /\ DOMAIN dataplane = {} /\ DOMAIN redirection = {}
    BY DEF Init
<1> QED
    BY <1>1 DEF TaskOK, CatalogOK, ChecksOK, CertOK, FilesOK, RulesOK, DefaultsOK, PastService,
                PastProxy, PastDefaults

(* Only the task has services with its id in theirs, and each of its two has  *)
(* an id of its own.                                                          *)
LEMMA UniqueIds ==
    ASSUME TypeOK, NEW t \in Tasks, NEW svc \in {"service", "proxy"}, NEW r \in catalog,
           IsGatewayConfig(config[t]) => svc = "proxy" /\ Reg(t, "service") \notin catalog,
           r.id = Reg(t, svc).id
    PROVE  r = Reg(t, svc)
<1>1. PICK u \in Tasks, s \in {"service", "proxy"} : r = Reg(u, s)
    BY DEF TypeOK, Reg
<1>2. u = t
    BY <1>1, IdTask
<1>3. CASE IsGatewayConfig(config[t])
    BY <1>1, <1>2, <1>3
<1>4. CASE ~IsGatewayConfig(config[t]) /\ s # svc
    <2>1. Reg(t, "service").id # Reg(t, "proxy").id
        BY <1>4, IdSidecar
    <2> QED
        BY <1>1, <1>2, <1>4, <2>1
<1> QED
    BY <1>1, <1>2, <1>3, <1>4

(* A registration replaces nothing but itself.                                *)
LEMMA AddsRegistration ==
    ASSUME TypeOK, NEW t \in Tasks, CatalogOK(t), NEW svc \in {"service", "proxy"},
           svc = "service" => ~IsGatewayConfig(config[t]), Registered(t, svc)
    PROVE  catalog' = catalog \cup {Reg(t, svc)}
<1>1. catalog' = {s \in catalog : s.id # Reg(t, svc).id} \cup {Reg(t, svc)}
    BY DEF Registered, Reg
<1>2. \A r \in catalog : r.id = Reg(t, svc).id => r = Reg(t, svc)
    BY UniqueIds DEF CatalogOK
<1> QED
    BY <1>1, <1>2

(* What a step of t does to the catalog.                                      *)
LEMMA StepCatalog ==
    ASSUME IInv, NEW t \in Tasks, Step(t)
    PROVE  \/ UNCHANGED << catalog, checks >>
           \/ \E svc \in {"service", "proxy"} :
                /\ catalog' = catalog \cup {Reg(t, svc)}
                /\ DOMAIN checks' = DOMAIN checks \cup CheckIds(t, svc)
<1>0. TypeOK /\ CatalogOK(t)
    BY DEF IInv, TaskOK
<1>1. CASE RegisterService(t)
    <2>1. ~IsGatewayConfig(config[t])
        BY <1>0, <1>1 DEF RegisterService, CatalogOK
    <2>2. UNCHANGED << catalog, checks >> \/ Registered(t, "service")
        BY <1>1 DEF RegisterService, Register
    <2>3. Registered(t, "service") =>
            /\ catalog' = catalog \cup {Reg(t, "service")}
            /\ DOMAIN checks' = DOMAIN checks \cup CheckIds(t, "service")
        BY <1>0, <2>1, AddsRegistration, RegisteredType
    <2> QED
        BY <2>2, <2>3
<1>2. CASE RegisterProxy(t)
    <2>1. UNCHANGED << catalog, checks >> \/ Registered(t, "proxy")
        BY <1>2 DEF RegisterProxy, Register
    <2>2. Registered(t, "proxy") =>
            /\ catalog' = catalog \cup {Reg(t, "proxy")}
            /\ DOMAIN checks' = DOMAIN checks \cup CheckIds(t, "proxy")
        BY <1>0, AddsRegistration, RegisteredType
    <2> QED
        BY <2>1, <2>2
<1> QED
    BY <1>1, <1>2
    DEF Step, Client, GetDefaults, SetDefaults, CopyBinary, WriteCACert, WriteConfig,
        ConfigureDNS, RedirectTraffic, consul

(* The steps of one task leave the others' registrations, checks, files and   *)
(* place alone, and never make the passive health check go.                   *)
LEMMA OthersKeep ==
    ASSUME IInv, NEW t \in Tasks, Step(t), UNCHANGED config, NEW u \in Tasks, u # t
    PROVE  TaskOK(u)'
<1>1. /\ pc'[u] = pc[u] /\ files'[u] = files[u] /\ rpcCACertFile'[u] = rpcCACertFile[u]
      /\ operator' = operator
    BY DEF IInv, TypeOK, Step, Client, RegisterService, RegisterProxy, Register, GetDefaults,
           SetDefaults, CopyBinary, WriteCACert, WriteConfig, ConfigureDNS, RedirectTraffic,
           Writes, Goto, Fail, volume
<1>2. /\ u \in DOMAIN caCert' <=> u \in DOMAIN caCert
      /\ u \in DOMAIN caCert => caCert'[u] = caCert[u]
      /\ u \in DOMAIN dataplane' <=> u \in DOMAIN dataplane
      /\ u \in DOMAIN dataplane => dataplane'[u] = dataplane[u]
      /\ u \in DOMAIN redirection' <=> u \in DOMAIN redirection
      /\ u \in DOMAIN redirection => redirection'[u] = redirection[u]
    BY DEF Step, Client, RegisterService, RegisterProxy, Register, GetDefaults, SetDefaults,
           CopyBinary, WriteCACert, WriteConfig, ConfigureDNS, RedirectTraffic, volume, With
<1>3. \A s \in {"service", "proxy"} : Reg(u, s) \in catalog' <=> Reg(u, s) \in catalog
    <2>1. \A s, r \in {"service", "proxy"} : Reg(u, s) # Reg(t, r)
        BY IdTask
    <2> QED
        BY StepCatalog, <2>1
<1>4. \A c : << u, c >> \in DOMAIN checks' <=> << u, c >> \in DOMAIN checks
    <2>1. \A c, svc : << u, c >> \notin CheckIds(t, svc)
        BY DEF CheckIds
    <2> QED
        BY StepCatalog, <2>1
<1>5. defaults.passive # "none" => defaults'.passive # "none"
    BY MergedType
    DEF IInv, TypeOK, Step, Client, RegisterService, RegisterProxy, Register, GetDefaults,
        SetDefaults, CopyBinary, WriteCACert, WriteConfig, ConfigureDNS, RedirectTraffic,
        consul
<1>6. TaskOK(u)
    BY DEF IInv
<1>7. CatalogOK(u)'
    BY <1>1, <1>3, <1>6 DEF TaskOK, CatalogOK, Reg
<1>8. ChecksOK(u)'
    BY <1>3, <1>4, <1>6 DEF TaskOK, ChecksOK, KnownChecks, ConstructChecks, Reg
<1>9. CertOK(u)' /\ FilesOK(u)'
    BY <1>1, <1>2, <1>6 DEF TaskOK, CertOK, FilesOK
<1>10. RulesOK(u)'
    BY <1>1, <1>2, <1>6 DEF TaskOK, RulesOK, Reg
<1>11. DefaultsOK(u)'
    BY <1>1, <1>5, <1>6 DEF TaskOK, DefaultsOK
<1> QED
    BY <1>7, <1>8, <1>9, <1>10, <1>11 DEF TaskOK

(* A registration of svc, whether or not its reply came, and the place after. *)
LEMMA RegisterKeeps ==
    ASSUME IInv, NEW t \in Tasks, NEW svc \in {"service", "proxy"}, NEW next \in PCs,
           svc = "service" => ~IsGatewayConfig(config[t]), Register(t, svc, next),
           UNCHANGED config
    PROVE  /\ ChecksOK(t)'
           /\ pc'[t] \in {pc[t], next}
           /\ pc'[t] # pc[t] => Reg(t, svc) \in catalog'
           /\ catalog' \in {catalog, catalog \cup {Reg(t, svc)}}
           /\ UNCHANGED << defaults, volume, operator >>
<1>0. TypeOK /\ CatalogOK(t) /\ ChecksOK(t)
    BY DEF IInv, TaskOK
<1>1. /\ UNCHANGED << catalog, checks >> \/ Registered(t, svc)
      /\ pc' = pc \/ (pc' = [pc EXCEPT ![t] = next] /\ Registered(t, svc))
      /\ UNCHANGED << defaults, volume, operator >>
    BY DEF Register, Goto
<1>2. Registered(t, svc) =>
        /\ catalog' = catalog \cup {Reg(t, svc)}
        /\ DOMAIN checks' = DOMAIN checks \cup CheckIds(t, svc)
    BY <1>0, AddsRegistration, RegisteredType
<1>3. ConstructChecks(t, svc) \subseteq KnownChecks(t)
    BY DEF ConstructChecks, KnownChecks
<1>4. \A s \in {"service", "proxy"} : Reg(t, s)' = Reg(t, s)
    BY DEF Reg
<1>5. ASSUME Registered(t, svc), NEW s \in {"service", "proxy"}, Reg(t, s) \in catalog',
             NEW c \in ConstructChecks(t, s)
      PROVE  << t, c >> \in DOMAIN checks'
    <2>1. CASE s = svc
        BY <1>2, <1>5, <2>1 DEF CheckIds
    <2>2. CASE s # svc
        <3>1. Reg(t, s) # Reg(t, svc)
            BY <2>2, RegsDiffer
        <3> QED
            BY <1>0, <1>2, <1>5, <3>1 DEF ChecksOK
    <2> QED
        BY <2>1, <2>2
<1>6. ASSUME Registered(t, svc), NEW c, << t, c >> \in DOMAIN checks'
      PROVE  c \in KnownChecks(t)
    BY <1>0, <1>2, <1>3, <1>6 DEF ChecksOK, CheckIds
<1>7. ChecksOK(t)'
    <2>1. CASE UNCHANGED << catalog, checks >>
        BY <1>0, <1>4, <2>1 DEF ChecksOK, ConstructChecks, KnownChecks
    <2>2. CASE Registered(t, svc)
        BY <1>4, <1>5, <1>6, <2>2 DEF ChecksOK, ConstructChecks, KnownChecks
    <2> QED
        BY <1>1, <2>1, <2>2
<1> QED
    BY <1>0, <1>1, <1>2, <1>7 DEF TypeOK

(* The steps of t that write no registration.                                 *)
LEMMA CatalogKeeps ==
    ASSUME IInv, NEW t \in Tasks, UNCHANGED << config, catalog, checks >>,
           pc'[t] \in PastService => pc[t] \in PastService \/ IsGatewayConfig(config[t]),
           pc'[t] \in PastProxy => pc[t] \in PastProxy,
           pc'[t] = "service" => ~IsGatewayConfig(config[t])
    PROVE  CatalogOK(t)' /\ ChecksOK(t)'
<1>1. CatalogOK(t) /\ ChecksOK(t)
    BY DEF IInv, TaskOK
<1> QED
    BY <1>1 DEF CatalogOK, ChecksOK, ConstructChecks, KnownChecks, Reg

LEMMA StepKeeps ==
    ASSUME IInv, NEW t \in Tasks, Step(t), UNCHANGED config
    PROVE  TaskOK(t)'
<1>0. /\ TypeOK /\ CatalogOK(t) /\ ChecksOK(t) /\ CertOK(t) /\ FilesOK(t) /\ RulesOK(t)
      /\ DefaultsOK(t)
    BY DEF IInv, TaskOK
<1> USE DEF PastService, PastProxy, PastDefaults, consul, volume
<1>1. CASE RegisterService(t)
    <2>1. Register(t, "service", "proxy") /\ pc[t] = "service" /\ ~IsGatewayConfig(config[t])
        BY <1>0, <1>1 DEF RegisterService, CatalogOK
    <2>2. /\ ChecksOK(t)' /\ pc'[t] \in {"service", "proxy"}
          /\ pc'[t] = "proxy" => Reg(t, "service") \in catalog'
          /\ catalog' \in {catalog, catalog \cup {Reg(t, "service")}}
          /\ UNCHANGED << defaults, volume, operator >>
        BY <2>1, RegisterKeeps DEF PCs
    <2>3. CatalogOK(t)'
        BY <1>0, <2>1, <2>2, RegsDiffer DEF CatalogOK, Reg
    <2> QED
        BY <1>0, <2>1, <2>2, <2>3 DEF TaskOK, CertOK, FilesOK, RulesOK, DefaultsOK, Reg
<1>2. CASE RegisterProxy(t)
    <2>1. PICK next \in {"getDefaults", "binary"} :
              /\ Register(t, "proxy", next)
              /\ next = "binary" => ~ResilienceEnabled(config[t])
        BY <1>2 DEF RegisterProxy
    <2>2. pc[t] = "proxy"
        BY <1>2 DEF RegisterProxy
    <2>3. /\ ChecksOK(t)' /\ pc'[t] \in {"proxy", next}
          /\ pc'[t] = next => Reg(t, "proxy") \in catalog'
          /\ catalog' \in {catalog, catalog \cup {Reg(t, "proxy")}}
          /\ UNCHANGED << defaults, volume, operator >>
        BY <2>1, <2>2, RegisterKeeps DEF PCs
    <2>4. CatalogOK(t)'
        BY <1>0, <2>2, <2>3, RegsDiffer DEF CatalogOK, Reg
    <2> QED
        BY <1>0, <2>1, <2>2, <2>3, <2>4 DEF TaskOK, CertOK, FilesOK, RulesOK, DefaultsOK, Reg
<1>3. CASE Client(t)
    <2>1. /\ pc[t] = "client" /\ pc'[t] \in {"service", "proxy", "failed"}
          /\ pc'[t] = "proxy" => IsGatewayConfig(config[t])
          /\ pc'[t] = "service" => ~IsGatewayConfig(config[t])
          /\ UNCHANGED << catalog, checks, defaults, volume, operator >>
        BY <1>0, <1>3 DEF Client, Goto, Fail, TypeOK
    <2>2. CatalogOK(t)' /\ ChecksOK(t)'
        BY <2>1, CatalogKeeps
    <2> QED
        BY <1>0, <2>1, <2>2 DEF TaskOK, CertOK, FilesOK, RulesOK, DefaultsOK, Reg
<1>4. CASE GetDefaults(t)
    <2>1. /\ pc[t] = "getDefaults" /\ pc'[t] \in {"setDefaults", "failed"}
          /\ UNCHANGED << catalog, checks, defaults, volume, operator >>
        BY <1>0, <1>4 DEF GetDefaults, Goto, Fail, TypeOK
    <2>2. CatalogOK(t)' /\ ChecksOK(t)'
        BY <2>1, CatalogKeeps
    <2> QED
        BY <1>0, <2>1, <2>2 DEF TaskOK, CertOK, FilesOK, RulesOK, DefaultsOK, Reg
<1>5. CASE SetDefaults(t)
    <2>1. Merged(seen[t]).passive # "none"
        BY <1>0, MergedType DEF TypeOK
    <2>2. /\ pc[t] = "setDefaults" /\ pc'[t] \in {"setDefaults", "binary"}
          /\ pc'[t] = "binary" => defaults' = Merged(seen[t])
          /\ UNCHANGED << catalog, checks, volume, operator >>
        BY <1>0, <1>5 DEF SetDefaults, Goto, TypeOK
    <2>3. CatalogOK(t)' /\ ChecksOK(t)'
        BY <2>2, CatalogKeeps
    <2> QED
        BY <1>0, <2>1, <2>2, <2>3 DEF TaskOK, CertOK, FilesOK, RulesOK, DefaultsOK, Reg
<1>6. CASE CopyBinary(t)
    <2>1. /\ pc[t] = "binary" /\ pc'[t] \in {"caCert", "failed"}
          /\ pc'[t] = "caCert" => "binary" \in files'[t]
          /\ "resolvConf" \in files'[t] => "resolvConf" \in files[t]
          /\ UNCHANGED << catalog, checks, defaults, caCert, dataplane, redirection, operator >>
        BY <1>0, <1>6 DEF CopyBinary, Writes, Goto, Fail, TypeOK
    <2>2. CatalogOK(t)' /\ ChecksOK(t)'
        BY <2>1, CatalogKeeps
    <2> QED
        BY <1>0, <2>1, <2>2 DEF TaskOK, CertOK, FilesOK, RulesOK, DefaultsOK, Reg
<1>7. CASE WriteCACert(t)
    <2>1. /\ pc[t] = "caCert" /\ pc'[t] \in {"config", "failed"}
          /\ pc'[t] = "config" => rpcCACertFile'[t] = RPCCACertFile(config[t])
          /\ UNCHANGED << catalog, checks, defaults, files, dataplane, redirection, operator >>
        BY <1>0, <1>7 DEF WriteCACert, Goto, Fail, TypeOK
    <2>2. /\ pc'[t] = "config" /\ WritesCACert(config[t]) => t \in DOMAIN caCert'
          /\ t \in DOMAIN caCert' =>
                WritesCACert(config[t]) /\ caCert'[t] = config[t].env.grpcPem
        BY <1>0, <1>7 DEF WriteCACert, Goto, Fail, TypeOK, CertOK, With
    <2>3. CatalogOK(t)' /\ ChecksOK(t)'
        BY <2>1, CatalogKeeps
    <2> QED
        BY <1>0, <2>1, <2>2, <2>3 DEF TaskOK, CertOK, FilesOK, RulesOK, DefaultsOK, Reg
<1>8. CASE WriteConfig(t)
    <2>1. /\ pc[t] = "config" /\ pc'[t] \in {"dns", "redirect", "done", "failed"}
          /\ pc'[t] = "dns" => ConsulDNSEnabled(config[t])
          /\ pc'[t] \in {"redirect", "done"} => ~ConsulDNSEnabled(config[t])
          /\ pc'[t] = "redirect" => TransparentProxyEnabled(config[t])
          /\ pc'[t] = "done" => ~TransparentProxyEnabled(config[t])
          /\ UNCHANGED << catalog, checks, defaults, files, rpcCACertFile, caCert, redirection,
                          operator >>
        BY <1>0, <1>8 DEF WriteConfig, AfterDNS, Goto, Fail, TypeOK
    <2>2. pc'[t] # "failed" =>
            /\ t \in DOMAIN dataplane'
            /\ dataplane'[t] = GetDataplaneConfigJSON(config[t], t, rpcCACertFile[t])
        BY <1>0, <1>8 DEF WriteConfig, Goto, Fail, TypeOK, With
    <2>3. CatalogOK(t)' /\ ChecksOK(t)'
        BY <2>1, CatalogKeeps
    <2> QED
        BY <1>0, <2>1, <2>2, <2>3 DEF TaskOK, CertOK, FilesOK, RulesOK, DefaultsOK, Reg
<1>9. CASE ConfigureDNS(t)
    <2>1. /\ pc[t] = "dns" /\ pc'[t] \in {"redirect", "done", "failed"}
          /\ pc'[t] = "redirect" => TransparentProxyEnabled(config[t])
          /\ pc'[t] = "done" => ~TransparentProxyEnabled(config[t])
          /\ pc'[t] # "failed" => files'[t] = files[t] \cup {"resolvConf"}
          /\ pc'[t] = "failed" => files'[t] = files[t]
          /\ UNCHANGED << catalog, checks, defaults, rpcCACertFile, caCert, dataplane,
                          redirection, operator >>
        BY <1>0, <1>9 DEF ConfigureDNS, AfterDNS, Writes, Goto, Fail, TypeOK
    <2>2. CatalogOK(t)' /\ ChecksOK(t)'
        BY <2>1, CatalogKeeps
    <2> QED
        BY <1>0, <2>1, <2>2 DEF TaskOK, CertOK, FilesOK, RulesOK, DefaultsOK, Reg
<1>10. CASE RedirectTraffic(t)
    <2>1. /\ pc[t] = "redirect" /\ pc'[t] \in {"done", "failed"}
          /\ UNCHANGED << catalog, checks, defaults, files, rpcCACertFile, caCert, dataplane,
                          operator >>
          /\ pc'[t] = "failed" => UNCHANGED redirection
        BY <1>0, <1>10 DEF RedirectTraffic, Goto, Fail, TypeOK
    <2>2. TransparentProxyEnabled(config[t]) /\ ~IsGatewayConfig(config[t])
        BY <1>0, <2>1 DEF RulesOK, TransparentProxyEnabled
    <2>3. \A r \in ProxyService(t) : r = Reg(t, "proxy")
        BY <1>0, <2>2, UniqueIds DEF ProxyService, Reg
    <2>4. pc'[t] = "done" =>
            /\ t \in DOMAIN redirection'
            /\ \E central \in CentralConfigs :
                redirection'[t] =
                    RedirectionRules(config[t], WithCentralConfig(Reg(t, "proxy"), central))
        <3>1. pc'[t] = "done" =>
                \E central \in CentralConfigs, r \in ProxyService(t) :
                    redirection' = With(redirection, t, RedirectionRules(config[t],
                                                            WithCentralConfig(r, central)))
            BY <1>0, <1>10 DEF RedirectTraffic, Goto, Fail, TypeOK
        <3>2. pc'[t] = "done" =>
                \E central \in CentralConfigs :
                    redirection' = With(redirection, t, RedirectionRules(config[t],
                                            WithCentralConfig(Reg(t, "proxy"), central)))
            BY <2>3, <3>1
        <3>3. \A content : /\ t \in DOMAIN With(redirection, t, content)
                           /\ With(redirection, t, content)[t] = content
            BY DEF With
        <3> QED
            BY <3>2, <3>3
    <2>5. CatalogOK(t)' /\ ChecksOK(t)'
        BY <2>1, CatalogKeeps
    <2>6. RulesOK(t)'
        BY <1>0, <2>1, <2>2, <2>4 DEF RulesOK, Reg
    <2> QED
        BY <1>0, <2>1, <2>5, <2>6 DEF TaskOK, CertOK, FilesOK, DefaultsOK
<1> QED
    BY <1>1, <1>2, <1>3, <1>4, <1>5, <1>6, <1>7, <1>8, <1>9, <1>10 DEF Step

LEMMA NextIInv == IInv /\ [Next]_vars => IInv'
<1> SUFFICES ASSUME IInv, [Next]_vars PROVE IInv'
    OBVIOUS
<1>1. TypeOK'
    BY NextTypeOK DEF IInv
<1>2. ASSUME NEW t \in Tasks, Step(t), UNCHANGED config PROVE \A u \in Tasks : TaskOK(u)'
    BY <1>2, OthersKeep, StepKeeps
<1>3. ASSUME UNCHANGED << config, pc, catalog, checks, volume >>, NEW t \in Tasks,
             \/ defaults' = defaults /\ operator' = operator
             \/ operator' # 0
      PROVE  TaskOK(t)'
    <2>1. TaskOK(t)
        BY DEF IInv
    <2>2. CatalogOK(t)' /\ ChecksOK(t)'
        BY <1>3, <2>1 DEF TaskOK, CatalogOK, ChecksOK, ConstructChecks, KnownChecks, Reg
    <2>3. CertOK(t)' /\ FilesOK(t)' /\ RulesOK(t)' /\ DefaultsOK(t)'
        BY <1>3, <2>1 DEF TaskOK, CertOK, FilesOK, RulesOK, DefaultsOK, volume, Reg
    <2> QED
        BY <2>2, <2>3 DEF TaskOK
<1>4. ASSUME NEW e \in Entries, OperatorWrites(e), UNCHANGED config, NEW t \in Tasks
      PROVE  TaskOK(t)'
    <2>1. operator' # 0
        BY <1>4, Bounds DEF OperatorWrites, IInv, TypeOK
    <2> QED
        BY <1>3, <1>4, <2>1 DEF OperatorWrites
<1>5. ASSUME UNCHANGED vars, NEW t \in Tasks PROVE TaskOK(t)'
    BY <1>3, <1>5 DEF vars, consul
<1> QED
    BY <1>1, <1>2, <1>4, <1>5 DEF Next, IInv

LEMMA Invariant == Spec => []IInv
BY InitIInv, NextIInv, PTL DEF Spec

(* A proxy is registered after the service it is a proxy for, however often   *)
(* a registration is repeated.                                                *)
THEOREM ProxiesHaveServices == Spec => []ProxyHasService
<1>1. ASSUME IInv, NEW r \in catalog, r.kind = "connect-proxy"
      PROVE  \E s \in catalog :
                /\ s.id = r.destination /\ s.port = r.localPort
                /\ s.namespace = r.namespace /\ s.partition = r.partition
    <2>1. PICK t \in Tasks, svc \in {"service", "proxy"} : r = Reg(t, svc)
        BY <1>1 DEF IInv, TypeOK, Reg
    <2>2. ~IsGatewayConfig(config[t])
        <3>1. ASSUME IsGatewayConfig(config[t]) PROVE FALSE
            <4>0. config[t] \in Configs[t]
                BY <1>1 DEF IInv, TypeOK
            <4>1. config[t].gateway.kind \in GatewayKinds
                BY <3>1, <4>0, Kinds
            <4>2. r.kind \in {Unset, config[t].gateway.kind}
                BY <2>1, <3>1, Ids
            <4> QED
                BY <1>1, <4>1, <4>2 DEF GatewayKinds, Unset
        <3> QED
            BY <3>1
    <2>3. svc = "proxy"
        BY <1>1, <2>1, Ids DEF Unset
    <2>4. Reg(t, "service") \in catalog
        BY <1>1, <2>1, <2>2, <2>3 DEF IInv, TaskOK, CatalogOK
    <2> QED
        BY <2>1, <2>2, <2>3, <2>4
        DEF Reg, Registration, constructProxyRegistration, constructServiceRegistration
<1>2. IInv => ProxyHasService
    BY <1>1 DEF ProxyHasService
<1> QED
    BY <1>2, Invariant, PTL

(* realRun returns nil only after all it was configured to prepare.           *)
THEOREM AllPrepared == Spec => []Prepared
<1>1. IInv => Prepared
    BY DEF IInv, TaskOK, FilesOK, RulesOK, Prepared, PastDefaults
<1> QED
    BY <1>1, Invariant, PTL

(* registerServiceDefaults leaves a passive health check that other mesh-init *)
(* containers keep.                                                           *)
THEOREM Resilience == Spec => []ResilientWhenDone
<1>1. IInv => ResilientWhenDone
    BY DEF IInv, TaskOK, DefaultsOK, ResilientWhenDone, PastDefaults
<1> QED
    BY <1>1, Invariant, PTL

-----------------------------------------------------------------------------
(* The dataplane's configuration and the rules, which two functions make of   *)
(* the configuration, say the same as the connection and the registration.    *)

LEMMA TrustFollows ==
    ASSUME NEW t, CertOK(t), pc[t] = "done",
           dataplane[t] = GetDataplaneConfigJSON(config[t], t, RPCCACertFile(config[t]))
    PROVE  DataplaneTrust(t) = ConnTLS(config[t]).trust
<1> DEFINE c == config[t]
           tls == GetGRPCTLSSettings(c)
<1>1. dataplane[t].tls.caCertFile = IF tls.enabled THEN RPCCACertFile(c) ELSE Unset
    BY DEF GetDataplaneConfigJSON, DataplaneTLS
<1>2. CASE ~tls.enabled
    BY <1>1, <1>2 DEF DataplaneTrust, ConnTLS, NoTLS, CACertPath, Unset
<1>3. CASE tls.enabled /\ c.env.grpcPem = Unset
    <2>1. t \notin DOMAIN caCert /\ dataplane[t].tls.caCertFile = tls.caCertFile
        BY <1>1, <1>3 DEF CertOK, WritesCACert, RPCCACertFile
    <2> QED
        BY <1>3, <2>1 DEF DataplaneTrust, ConnTLS, Trust
<1>4. CASE tls.enabled /\ c.env.grpcPem # Unset
    <2>1. /\ t \in DOMAIN caCert /\ caCert[t] = c.env.grpcPem
          /\ dataplane[t].tls.caCertFile = CACertPath
        BY <1>1, <1>4 DEF CertOK, WritesCACert, RPCCACertFile
    <2> QED
        BY <1>4, <2>1 DEF DataplaneTrust, ConnTLS, Trust
<1> QED
    BY <1>2, <1>3, <1>4

(* GetDataplaneConfigJSON and writeRPCCACertToSharedVolume give the dataplane *)
(* the connection ConsulServerConnMgrConfig gives mesh-init.                  *)
THEOREM DataplaneFollowsMeshInit == Spec => []DataplaneFollows
<1>1. ASSUME IInv, NEW t \in Tasks, pc[t] = "done"
      PROVE  LET c == config[t]
                 d == dataplane[t]
                 own == ConsulServerConnMgrConfig(c, t)
             IN /\ d.addresses = own.addresses /\ d.grpcPort = own.grpcPort
                /\ d.serverWatchDisabled = own.serverWatchDisabled
                /\ d.tls.disabled = ~own.tls.enabled
                /\ d.tls.tlsServerName = own.tls.serverName
                /\ DataplaneTrust(t) = own.tls.trust
                /\ own.credentials.type # "static" => d.credentials = own.credentials
                /\ \E r \in catalog :
                     /\ r.kind # Unset /\ r.id = d.id /\ r.node = d.node
                     /\ r.namespace = d.namespace /\ r.partition = d.partition
                /\ d.dns # Unset <=> "resolvConf" \in files[t]
    <2> DEFINE c == config[t]
               d == dataplane[t]
               own == ConsulServerConnMgrConfig(c, t)
    <2>0. CatalogOK(t) /\ CertOK(t) /\ FilesOK(t)
        BY <1>1 DEF IInv, TaskOK
    <2>1. d = GetDataplaneConfigJSON(c, t, RPCCACertFile(c))
        BY <1>1, <2>0 DEF FilesOK
    <2>2. /\ d.addresses = own.addresses /\ d.grpcPort = own.grpcPort
          /\ d.serverWatchDisabled = own.serverWatchDisabled
        BY <2>1 DEF GetDataplaneConfigJSON, ConsulServerConnMgrConfig
    <2>3. d.tls = DataplaneTLS(c, RPCCACertFile(c)) /\ own.tls = ConnTLS(c)
        BY <2>1 DEF GetDataplaneConfigJSON, ConsulServerConnMgrConfig
    <2>4. d.tls.disabled = ~own.tls.enabled /\ d.tls.tlsServerName = own.tls.serverName
        <3>1. CASE GetGRPCTLSSettings(c).enabled
            <4>1. d.tls.disabled = FALSE /\ own.tls.enabled = TRUE
                BY <2>3, <3>1 DEF DataplaneTLS, ConnTLS
            <4>2. d.tls.tlsServerName = own.tls.serverName
                BY <2>3, <3>1 DEF DataplaneTLS, ConnTLS
            <4> QED
                BY <4>1, <4>2
        <3>2. CASE ~GetGRPCTLSSettings(c).enabled
            <4>1. d.tls.disabled = TRUE /\ own.tls.enabled = FALSE
                BY <2>3, <3>2 DEF DataplaneTLS, ConnTLS, NoTLS
            <4>2. d.tls.tlsServerName = own.tls.serverName
                BY <2>3, <3>2 DEF DataplaneTLS, ConnTLS, NoTLS
            <4> QED
                BY <4>1, <4>2
        <3> QED
            BY <3>1, <3>2
    <2>5. DataplaneTrust(t) = own.tls.trust
        BY <1>1, <2>0, <2>1, <2>3, TrustFollows
    <2>6. d.credentials = DataplaneCredentials(c, t) /\ own.credentials = ConnCredentials(c, t)
        BY <2>1 DEF GetDataplaneConfigJSON, ConsulServerConnMgrConfig
    <2>7. own.credentials.type # "static" => d.credentials = own.credentials
        BY <2>6 DEF DataplaneCredentials, ConnCredentials
    <2>8. /\ Reg(t, "proxy") \in catalog /\ Reg(t, "proxy").kind # Unset
          /\ Reg(t, "proxy").id = d.id /\ Reg(t, "proxy").node = d.node
          /\ Reg(t, "proxy").namespace = d.namespace /\ Reg(t, "proxy").partition = d.partition
        BY <1>1, <2>0, <2>1, ProxyKind
        DEF CatalogOK, PastProxy, PastDefaults, GetDataplaneConfigJSON, Reg
    <2>9. d.dns # Unset <=> ConsulDNSEnabled(c)
        BY <2>1 DEF GetDataplaneConfigJSON, Unset
    <2>10. d.dns # Unset <=> "resolvConf" \in files[t]
        BY <1>1, <2>0, <2>9 DEF FilesOK
    <2> QED
        BY <2>2, <2>4, <2>5, <2>7, <2>8, <2>10
<1>2. IInv => DataplaneFollows
    BY <1>1 DEF DataplaneFollows
<1> QED
    BY <1>2, Invariant, PTL

(* The rules applyTrafficRedirectionRules applies agree with the registration *)
(* and with the dataplane's configuration, whatever the central one is.       *)
THEOREM RedirectionSpares == Spec => []RedirectSpares
<1>1. ASSUME IInv, NEW t \in DOMAIN redirection
      PROVE  LET rules == redirection[t]
                 proxy == rules.proxySvc
             IN /\ \E r \in ProxyService(t) :
                     rules.proxyInboundPort = Or(proxy.opaque.bindPort, r.port)
                /\ dataplane[t].readyBindPort \in rules.excludeInboundPorts
                /\ {proxy.opaque.prometheus, proxy.opaque.stats} \ {Unset}
                       \subseteq rules.excludeInboundPorts
                /\ config[t].proxy.expose \ {Unset} \subseteq rules.excludeInboundPorts
                /\ "5996" \in rules.excludeUIDs
                /\ rules.dns = dataplane[t].dns
    <2> DEFINE c == config[t]
               reg == Reg(t, "proxy")
    <2>0. t \in Tasks /\ CatalogOK(t) /\ FilesOK(t) /\ RulesOK(t)
        BY <1>1 DEF IInv, TypeOK, TaskOK
    <2>1. /\ pc[t] = "done" /\ TransparentProxyEnabled(c) /\ ~IsGatewayConfig(c)
          /\ dataplane[t] = GetDataplaneConfigJSON(c, t, RPCCACertFile(c))
        BY <1>1, <2>0 DEF RulesOK, FilesOK, TransparentProxyEnabled
    <2>2. PICK central \in CentralConfigs :
              redirection[t] = RedirectionRules(c, WithCentralConfig(reg, central))
        BY <1>1, <2>0 DEF RulesOK
    <2> DEFINE proxySvc == WithCentralConfig(reg, central)
    <2>3. reg \in ProxyService(t) /\ proxySvc.port = reg.port
        BY <2>0, <2>1
        DEF CatalogOK, PastProxy, PastDefaults, ProxyService, Reg, Registration, getNamespace,
            getPartition, constructProxyRegistration, constructServiceRegistration,
            WithCentralConfig
    <2>4. redirection[t].proxySvc = proxySvc
        BY <2>2 DEF RedirectionRules
    <2>5. redirection[t].proxyInboundPort = Or(proxySvc.opaque.bindPort, reg.port)
        BY <2>2, <2>3 DEF RedirectionRules
    <2>6. /\ redirection[t].excludeInboundPorts = ExcludedInbound(c, proxySvc)
          /\ "5996" \in redirection[t].excludeUIDs
        BY <2>2 DEF RedirectionRules
    <2>7. dataplane[t].readyBindPort \in ExcludedInbound(c, proxySvc)
        <3>1. dataplane[t].readyBindPort = GetHealthCheckPort(c.proxy.healthCheckPort)
            BY <2>1 DEF GetDataplaneConfigJSON
        <3>2. GetHealthCheckPort(c.proxy.healthCheckPort) # Unset
            BY DEF GetHealthCheckPort, Or, Unset
        <3> QED
            BY <3>1, <3>2 DEF ExcludedInbound
    <2>8. c.proxy.expose \ {Unset} \subseteq ExcludedInbound(c, proxySvc)
        <3>1. reg.proxy.expose = c.proxy.expose
            BY <2>1 DEF Reg, Registration, constructProxyRegistration, ProxyConfig
        <3>2. c.proxy.expose # {} => proxySvc.expose = c.proxy.expose
            BY <3>1 DEF WithCentralConfig
        <3> QED
            BY <3>2 DEF ExcludedInbound
    <2>9. redirection[t].dns = dataplane[t].dns
        BY <2>1, <2>2 DEF RedirectionRules, GetDataplaneConfigJSON
    <2>10. {proxySvc.opaque.prometheus, proxySvc.opaque.stats} \ {Unset}
               \subseteq ExcludedInbound(c, proxySvc)
        BY DEF ExcludedInbound
    <2> HIDE DEF proxySvc, reg
    <2> QED
        BY <2>3, <2>4, <2>5, <2>6, <2>7, <2>8, <2>9, <2>10
<1>2. IInv => RedirectSpares
    BY <1>1 DEF RedirectSpares
<1> QED
    BY <1>2, Invariant, PTL

-----------------------------------------------------------------------------
(* What mesh-init leaves for health-sync and for the controller.              *)

(* Deregistration is of what was registered.                                  *)
LEMMA Removed ==
    ASSUME NEW t \in Tasks
    PROVE  /\ ~IsGatewayConfig(config[t]) =>
                \A svc \in {"service", "proxy"} :
                    Removes(Deregistration(config[t], t, svc), Reg(t, svc))
           /\ IsGatewayConfig(config[t]) =>
                Removes(Deregistration(config[t], t, "service"), Reg(t, "proxy"))
<1>1. CASE ~IsGatewayConfig(config[t])
    BY <1>1 DEF Removes, Deregistration, Reg, Registration, constructServiceRegistration,
                constructProxyRegistration, constructServiceName
<1>2. CASE IsGatewayConfig(config[t])
    BY <1>2 DEF Removes, Deregistration, Reg, Registration, constructGatewayProxyRegistration,
                constructServiceName
<1> QED
    BY <1>1, <1>2

(* The sidecar's id is deregistered as the proxy's, and no other id.          *)
LEMMA RemovesFields ==
    ASSUME NEW t \in Tasks, NEW svc \in {"service", "proxy"}, NEW r,
           Removes(Deregistration(config[t], t, svc), r)
    PROVE  r.id.task = t /\ (svc = "proxy" => r.id.sidecar = TRUE)
<1>1. r.id = Deregistration(config[t], t, svc).id
    BY DEF Removes, Deregistration
<1>2. /\ Deregistration(config[t], t, svc).id.task = t
      /\ svc = "proxy" => Deregistration(config[t], t, svc).id.sidecar = TRUE
    BY DEF Deregistration, makeServiceID, makeProxySvcID
<1> QED
    BY <1>1, <1>2

LEMMA RegisteredIsRemovable ==
    ASSUME IInv, NEW t \in Tasks, pc[t] = "done"
    PROVE  {svc \in {"service", "proxy"} : Removable(t, svc)} =
              IF IsGatewayConfig(config[t]) THEN {"service"} ELSE {"service", "proxy"}
<1>0. TypeOK /\ CatalogOK(t)
    BY DEF IInv, TaskOK
<1>1. CASE ~IsGatewayConfig(config[t])
    <2>1. Reg(t, "service") \in catalog /\ Reg(t, "proxy") \in catalog
        BY <1>0, <1>1 DEF CatalogOK, PastService, PastProxy, PastDefaults
    <2> QED
        BY <1>1, <2>1, Removed DEF Removable
<1>2. CASE IsGatewayConfig(config[t])
    <2>1. Reg(t, "proxy") \in catalog
        BY <1>0, <1>2 DEF CatalogOK, PastService, PastProxy, PastDefaults
    <2>2. Removable(t, "service")
        BY <1>2, <2>1, Removed DEF Removable
    <2>3. ASSUME Removable(t, "proxy") PROVE FALSE
        <3>1. PICK r \in catalog : Removes(Deregistration(config[t], t, "proxy"), r)
            BY <2>3 DEF Removable
        <3>2. r.id.task = t /\ r.id.sidecar = TRUE
            BY <3>1, RemovesFields
        <3>3. PICK u \in Tasks, s \in {"service", "proxy"} : r = Reg(u, s)
            BY <1>0 DEF TypeOK, Reg
        <3> QED
            BY <1>2, <3>2, <3>3, IdTask, IdSidecar
    <2> QED
        BY <1>2, <2>2, <2>3
<1> QED
    BY <1>1, <1>2

LEMMA NothingBesides ==
    ASSUME IInv, NEW t \in Tasks, NEW r \in catalog, r.id.task = t
    PROVE  \E svc \in {"service", "proxy"} : Removes(Deregistration(config[t], t, svc), r)
<1>0. TypeOK /\ CatalogOK(t)
    BY DEF IInv, TaskOK
<1>1. PICK u \in Tasks, s \in {"service", "proxy"} : r = Reg(u, s)
    BY <1>0 DEF TypeOK, Reg
<1>2. u = t
    BY <1>1, IdTask
<1>3. CASE ~IsGatewayConfig(config[t])
    BY <1>1, <1>2, <1>3, Removed
<1>4. CASE IsGatewayConfig(config[t])
    <2>1. s = "proxy"
        BY <1>0, <1>1, <1>2, <1>4 DEF CatalogOK
    <2> QED
        BY <1>1, <1>2, <1>4, <2>1, Removed
<1> QED
    BY <1>3, <1>4

LEMMA AllRecognised ==
    ASSUME IInv, NEW t \in Tasks
    PROVE  Recognised(t)
<1> DEFINE c == config[t]
           user == IF IsGatewayConfig(c) THEN c.gateway.meta ELSE c.service.meta
<1>1. ASSUME "task-id" \notin DOMAIN user, NEW r \in catalog, r.id.task = t
      PROVE  getTaskIDFromServiceMeta(r) = t
    <2>1. PICK u \in Tasks, s \in {"service", "proxy"} : r = Reg(u, s)
        BY <1>1 DEF IInv, TypeOK, Reg
    <2>2. u = t
        BY <1>1, <2>1, IdTask
    <2>3. IsGatewayConfig(c) => s = "proxy"
        BY <2>1, <2>2 DEF IInv, TaskOK, CatalogOK
    <2>4. r.meta = ServiceMeta(t, user)
        BY <2>1, <2>2, <2>3 DEF Reg, Registration, constructServiceRegistration,
            constructProxyRegistration, constructGatewayProxyRegistration
    <2>5. ServiceMeta(t, user)["task-id"] = t
        BY <1>1 DEF ServiceMeta, mergeMeta
    <2> QED
        BY <2>4, <2>5 DEF getTaskIDFromServiceMeta
<1>2. ASSUME DOMAIN c.consulLogin.meta \cap DOMAIN TokenMeta(t) = {}
      PROVE  parseTokenDescription(getLoginDiscoveryCredentials(c, t)) =
                [task |-> t, cluster |-> Cluster]
    <2>1. /\ TokenMeta(t)["consul.hashicorp.com/task-id"] = t
          /\ TokenMeta(t)["consul.hashicorp.com/cluster"] = Cluster
          /\ DOMAIN TokenMeta(t) =
                {"consul.hashicorp.com/task-id", "consul.hashicorp.com/cluster"}
        BY DEF TokenMeta
    <2>2. \A k \in DOMAIN TokenMeta(t) :
              mergeMeta(TokenMeta(t), c.consulLogin.meta)[k] = TokenMeta(t)[k]
        BY <1>2 DEF mergeMeta
    <2>3. getLoginDiscoveryCredentials(c, t).meta = mergeMeta(TokenMeta(t), c.consulLogin.meta)
        BY DEF getLoginDiscoveryCredentials
    <2> QED
        BY <2>1, <2>2, <2>3 DEF parseTokenDescription
<1> QED
    BY <1>1, <1>2 DEF Recognised

(* The catalog of a task whose mesh-init has ended well is a state in which   *)
(* health-sync may start, and from which it removes all the task has.         *)
THEOREM HandOver == Spec => []HandsOver
<1>1. ASSUME IInv, NEW t \in Tasks, pc[t] = "done", NEW gateway \in BOOLEAN,
             gateway = IsGatewayConfig(config[t])
      PROVE  HS(t, gateway)!Init
    <2>0. TypeOK /\ CatalogOK(t) /\ ChecksOK(t)
        BY <1>1 DEF IInv, TaskOK
    <2>1. /\ Reg(t, "proxy") \in catalog
          /\ ~gateway => Reg(t, "service") \in catalog
        BY <1>1, <2>0 DEF CatalogOK, PastService, PastProxy, PastDefaults
    <2>2. \A c : << t, c >> \in DOMAIN checks <=> c \in KnownChecks(t)
        BY <1>1, <2>0, <2>1 DEF ChecksOK, ConstructChecks, KnownChecks
    <2>3. {i[2] : i \in TaskChecks(t)} = KnownChecks(t)
        <3>1. \A i \in TaskChecks(t) : i = << t, i[2] >>
            BY <2>0 DEF TaskChecks, TypeOK
        <3>2. \A c \in KnownChecks(t) : << t, c >> \in TaskChecks(t)
            BY <2>2 DEF TaskChecks
        <3>3. \A i \in TaskChecks(t) : i[2] \in KnownChecks(t)
            BY <2>2, <3>1 DEF TaskChecks
        <3>4. \A c : << t, c >>[2] = c
            OBVIOUS
        <3> QED
            BY <3>2, <3>3, <3>4
    <2>4. KnownChecks(t) = HS(t, gateway)!Known
        BY <1>1 DEF KnownChecks, HS!Known, HS!CheckIds, HS!Names
    <2>5. \A c \in KnownChecks(t) : checks[<< t, c >>] = "critical"
        BY <2>0, <2>2 DEF TypeOK
    <2>6. {svc \in {"service", "proxy"} : Removable(t, svc)} =
              IF gateway THEN {"service"} ELSE {"service", "proxy"}
        BY <1>1, RegisteredIsRemovable
    <2> QED
        BY <2>3, <2>4, <2>5, <2>6 DEF HS!Init, HS!Known, HS!NoMeta, HS!Names, HS!Containers
<1>2. IInv => HandsOver
    BY <1>1, NothingBesides, AllRecognised DEF HandsOver
<1> QED
    BY <1>2, Invariant, PTL

=============================================================================
