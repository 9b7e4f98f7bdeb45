------------------------------ MODULE TaskConfig ------------------------------
(***************************************************************************)
(* The configuration of a task (package config), and what the programs of   *)
(* the task make of it, each on its own: mesh-init its connection to Consul, *)
(* the registrations, the dataplane's configuration and the redirection of   *)
(* traffic; health-sync what to deregister; the controller whose it is.      *)
(*                                                                           *)
(* A configuration is a record with the sections and fields of the JSON, and *)
(* "env" for the environment of the container.  A string that is empty, a    *)
(* port that is 0 and a field that is nil are Unset; a section that is not   *)
(* given is one in which nothing is set, which the code gives the same       *)
(* defaults.  Only for proxy the code tells the two apart, by "given".       *)
(***************************************************************************)
CONSTANTS
    Cluster,  \* the ARN of the ECS cluster, and the name of the Consul node
    Region,   \* the AWS region of the cluster
    Family,   \* [task id -> family of its task definition]
    Lower     \* [family -> the family in lower case]

Unset == "unset"

Or(value, default) == IF value = Unset THEN default ELSE value

IsGatewayConfig(c) == c.gateway.kind # Unset

TransparentProxy(c) == Or(c.transparentProxy.enabled, "true") = "true"
TransparentProxyEnabled(c) == TransparentProxy(c) /\ ~IsGatewayConfig(c)
ConsulDNSEnabled(c) == TransparentProxyEnabled(c) /\ c.transparentProxy.consulDNS

ResilienceEnabled(c) == ~IsGatewayConfig(c) /\ c.service.resilient

getNamespace(c) == IF IsGatewayConfig(c) THEN c.gateway.namespace ELSE c.service.namespace
getPartition(c) == IF IsGatewayConfig(c) THEN c.gateway.partition ELSE c.service.partition

GetPublicListenerPort(c) == Or(c.proxy.publicListenerPort, "20000")
GetHealthCheckPort(port) == Or(port, "22000")

(* The default is for a port that is not given; 0 is not among the values.    *)
GRPCPort(c) == Or(c.consulServers.grpc.port, "8503")

DefaultTLS(c) == Or(c.consulServers.defaults.tls, "true")

(* Each setting of gRPC overrides the default of both interfaces by itself.   *)
GetGRPCTLSSettings(c) ==
    LET grpc == c.consulServers.grpc
        defaults == c.consulServers.defaults
    IN [enabled |-> Or(grpc.tls, DefaultTLS(c)) = "true",
        caCertFile |-> Or(grpc.caCertFile, defaults.caCertFile),
        tlsServerName |-> Or(grpc.tlsServerName, defaults.tlsServerName)]

(* What the second map adds or replaces.                                      *)
mergeMeta(m1, m2) ==
    [k \in DOMAIN m1 \cup DOMAIN m2 |-> IF k \in DOMAIN m2 THEN m2[k] ELSE m1[k]]

-----------------------------------------------------------------------------
(* The connection of mesh-init and health-sync to the Consul servers.         *)

NoLogin == [authMethod |-> Unset, partition |-> Unset, datacenter |-> Unset,
            bearer |-> [region |-> Unset, includeEntity |-> Unset], meta |-> [k \in {} |-> Unset]]

TokenMeta(t) ==
    [k \in {"consul.hashicorp.com/task-id", "consul.hashicorp.com/cluster"} |->
        IF k = "consul.hashicorp.com/task-id" THEN t ELSE Cluster]

IncludeEntity(c) == Or(c.consulLogin.includeEntity, "true")

getLoginDiscoveryCredentials(c, t) ==
    [authMethod |-> Or(c.consulLogin.method, "iam-ecs-service-token"),
     partition |-> getPartition(c),
     datacenter |-> c.consulLogin.datacenter,
     bearer |-> [region |-> Or(c.consulLogin.region, Region),
                 includeEntity |-> IncludeEntity(c)],
     meta |-> mergeMeta(TokenMeta(t), c.consulLogin.meta)]

(* The certificates the gRPC connection is verified with: those of a PEM in   *)
(* the environment, else those of a file, else the system's.                  *)
Trust(pem, file) == [pem |-> pem, file |-> IF pem = Unset THEN file ELSE Unset]
NoTLS == [enabled |-> FALSE, trust |-> Trust(Unset, Unset), serverName |-> Unset]

ConnTLS(c) ==
    LET tls == GetGRPCTLSSettings(c)
    IN IF tls.enabled
         THEN [enabled |-> TRUE, trust |-> Trust(c.env.grpcPem, tls.caCertFile),
               serverName |-> tls.tlsServerName]
         ELSE NoTLS

(* A token in the environment goes before the login.                          *)
ConnCredentials(c, t) ==
    IF c.env.httpToken # Unset THEN [type |-> "static", login |-> NoLogin]
    ELSE IF c.consulLogin.enabled
           THEN [type |-> "login", login |-> getLoginDiscoveryCredentials(c, t)]
           ELSE [type |-> Unset, login |-> NoLogin]

ConsulServerConnMgrConfig(c, t) ==
    [addresses |-> c.consulServers.hosts, grpcPort |-> GRPCPort(c),
     tls |-> ConnTLS(c), credentials |-> ConnCredentials(c, t),
     serverWatchDisabled |-> c.consulServers.skipServerWatch]

-----------------------------------------------------------------------------
(* What mesh-init registers.  An id is the record of what its text is made of.*)

constructServiceName(c, t) ==
    Or(IF IsGatewayConfig(c) THEN c.gateway.name ELSE c.service.name, Lower[Family[t]])

makeServiceID(name, t) == [name |-> name, task |-> t, sidecar |-> FALSE]
makeProxySvcID(id) == [name |-> id.name, task |-> id.task, sidecar |-> TRUE]
NoService == makeServiceID(Unset, Unset)

ServiceMeta(t, user) ==
    mergeMeta([k \in {"task-id", "source"} |-> IF k = "task-id" THEN t ELSE "consul-ecs"], user)

NoProxyConfig ==
    [opaque |-> [bindPort |-> Unset, prometheus |-> Unset, stats |-> Unset],
     expose |-> {}, outbound |-> Unset]

(* The proxy section, without its upstreams.                                  *)
ProxyConfig(c) == [opaque |-> c.proxy.opaque, expose |-> c.proxy.expose, outbound |-> Unset]

constructServiceRegistration(c, t) ==
    [node |-> Cluster, id |-> makeServiceID(constructServiceName(c, t), t), kind |-> Unset,
     namespace |-> c.service.namespace, partition |-> c.service.partition,
     port |-> c.service.port, meta |-> ServiceMeta(t, c.service.meta),
     destination |-> NoService, localPort |-> Unset, proxy |-> NoProxyConfig]

constructProxyRegistration(c, t) ==
    LET service == constructServiceRegistration(c, t)
    IN [node |-> Cluster, id |-> makeProxySvcID(service.id), kind |-> "connect-proxy",
        namespace |-> service.namespace, partition |-> service.partition,
        port |-> GetPublicListenerPort(c), meta |-> service.meta,
        destination |-> service.id, localPort |-> service.port,
        proxy |-> ProxyConfig(c)]

constructGatewayProxyRegistration(c, t) ==
    [node |-> Cluster, id |-> makeServiceID(constructServiceName(c, t), t),
     kind |-> c.gateway.kind,
     namespace |-> c.gateway.namespace, partition |-> c.gateway.partition,
     port |-> IF c.gateway.kind = "mesh-gateway" THEN Or(c.gateway.lanPort, "8443") ELSE "8443",
     meta |-> ServiceMeta(t, c.gateway.meta),
     destination |-> NoService, localPort |-> Unset, proxy |-> NoProxyConfig]

(* The registrations realRun makes, by the steps of it that write them.       *)
Registration(c, t, svc) ==
    IF svc = "service" THEN constructServiceRegistration(c, t)
    ELSE IF IsGatewayConfig(c) THEN constructGatewayProxyRegistration(c, t)
    ELSE constructProxyRegistration(c, t)

-----------------------------------------------------------------------------
(* The files and rules mesh-init leaves for the dataplane.                    *)

CACertPath == "<bootstrapDir>/consul-grpc-ca-cert.pem"

(* Whether the certificate is written to the volume, and the path of it that  *)
(* writeRPCCACertToSharedVolume returns.                                      *)
WritesCACert(c) == GetGRPCTLSSettings(c).enabled /\ c.env.grpcPem # Unset
RPCCACertFile(c) ==
    IF ~GetGRPCTLSSettings(c).enabled THEN Unset
    ELSE IF c.env.grpcPem = Unset THEN GetGRPCTLSSettings(c).caCertFile ELSE CACertPath

DataplaneTLS(c, caCertFile) ==
    LET tls == GetGRPCTLSSettings(c)
    IN IF tls.enabled
         THEN [disabled |-> FALSE, caCertFile |-> caCertFile,
               tlsServerName |-> tls.tlsServerName]
         ELSE [disabled |-> TRUE, caCertFile |-> Unset, tlsServerName |-> Unset]

(* The login of whatever credentials mesh-init has: static ones have none.    *)
DataplaneCredentials(c, t) ==
    IF c.consulLogin.enabled
      THEN [type |-> "login", login |-> ConnCredentials(c, t).login]
      ELSE [type |-> Unset, login |-> NoLogin]

GetDataplaneConfigJSON(c, t, caCertFile) ==
    LET proxy == Registration(c, t, "proxy")
    IN [addresses |-> c.consulServers.hosts, grpcPort |-> GRPCPort(c),
        serverWatchDisabled |-> c.consulServers.skipServerWatch,
        tls |-> DataplaneTLS(c, caCertFile), credentials |-> DataplaneCredentials(c, t),
        node |-> proxy.node, id |-> proxy.id,
        namespace |-> proxy.namespace, partition |-> proxy.partition,
        readyBindPort |-> GetHealthCheckPort(IF IsGatewayConfig(c) THEN c.gateway.healthCheckPort
                                             ELSE c.proxy.healthCheckPort),
        dns |-> IF ConsulDNSEnabled(c) THEN "127.0.0.1:8600" ELSE Unset]

(* The catalog merges the central configuration of proxies under the          *)
(* registration it returns.                                                   *)
WithCentralConfig(r, central) ==
    [port |-> r.port,
     opaque |-> [bindPort |-> Or(r.proxy.opaque.bindPort, central.opaque.bindPort),
                 prometheus |-> Or(r.proxy.opaque.prometheus, central.opaque.prometheus),
                 stats |-> Or(r.proxy.opaque.stats, central.opaque.stats)],
     expose |-> IF r.proxy.expose = {} THEN central.expose ELSE r.proxy.expose,
     outbound |-> Or(r.proxy.outbound, central.outbound)]

(* An address is the port it names, or does not parse.                        *)
Malformed(proxySvc) ==
    "malformed" \in {proxySvc.opaque.bindPort, proxySvc.opaque.prometheus, proxySvc.opaque.stats}

(* Variant: the port of the health check is excluded as it is configured.     *)
ExcludedInboundUndefaulted(c, proxySvc) ==
    c.transparentProxy.excludeInboundPorts
        \cup {c.proxy.healthCheckPort}
        \cup (({proxySvc.opaque.prometheus, proxySvc.opaque.stats} \cup proxySvc.expose)
                  \ {Unset})

ExcludedInbound(c, proxySvc) ==
    c.transparentProxy.excludeInboundPorts
        \cup {GetHealthCheckPort(c.proxy.healthCheckPort)}
        \cup (({proxySvc.opaque.prometheus, proxySvc.opaque.stats} \cup proxySvc.expose)
                  \ {Unset})

(* redirecttraffic.New and Apply.                                             *)
RedirectionRules(c, proxySvc) ==
    [proxySvc |-> proxySvc,
     proxyUserID |-> "5995",
     proxyInboundPort |-> Or(proxySvc.opaque.bindPort, proxySvc.port),
     proxyOutboundPort |-> Or(proxySvc.outbound, "15001"),
     excludeInboundPorts |-> ExcludedInbound(c, proxySvc),
     excludeOutboundPorts |-> c.transparentProxy.excludeOutboundPorts,
     excludeUIDs |-> c.transparentProxy.excludeUIDs \cup {"5996"},
     dns |-> IF ConsulDNSEnabled(c) THEN "127.0.0.1:8600" ELSE Unset]

-----------------------------------------------------------------------------
(* What health-sync deregisters, by an id, a namespace and a partition it     *)
(* works out for itself, and whose the controller takes a service to be.      *)

Deregistration(c, t, svc) ==
    LET name == Or(IF IsGatewayConfig(c) THEN c.gateway.name ELSE c.service.name, Lower[Family[t]])
        id == makeServiceID(name, t)
        section == IF IsGatewayConfig(c) THEN c.gateway ELSE c.service
    IN [node |-> Cluster, id |-> IF svc = "proxy" THEN makeProxySvcID(id) ELSE id,
        namespace |-> section.namespace, partition |-> section.partition]

Removes(deregistration, r) ==
    deregistration = [node |-> r.node, id |-> r.id,
                      namespace |-> r.namespace, partition |-> r.partition]

getTaskIDFromServiceMeta(r) == r.meta["task-id"]

parseTokenDescription(login) ==
    [task |-> login.meta["consul.hashicorp.com/task-id"],
     cluster |-> login.meta["consul.hashicorp.com/cluster"]]

=============================================================================
