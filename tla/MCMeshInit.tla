------------------------------ MODULE MCMeshInit ------------------------------
(* Two tasks: the first has one of a set of configurations, each with another *)
(* combination of options; the second one of a plain resilient service.       *)
EXTENDS MeshInit

MCTasks == {"web1", "web2"}
MCFamily == [t \in MCTasks |-> "Web"]
MCLower == [f \in {"Web"} |-> "web"]

NoMeta == [k \in {} |-> Unset]
UserMeta == [k \in {"task-id", "team"} |-> IF k = "team" THEN "blue" ELSE "mine"]
LoginMeta == [k \in {"team"} |-> "blue"]
NoTLSSettings == [tls |-> Unset, caCertFile |-> Unset, tlsServerName |-> Unset]
NoOpaque == [bindPort |-> Unset, prometheus |-> Unset, stats |-> Unset]

(* Only what the schema requires, and the proxy.                              *)
Base ==
    [gateway |-> [kind |-> Unset, name |-> Unset, namespace |-> Unset, partition |-> Unset,
                  meta |-> NoMeta, lanPort |-> Unset, healthCheckPort |-> Unset],
     service |-> [name |-> "web", namespace |-> Unset, partition |-> Unset, meta |-> NoMeta,
                  port |-> "8080", resilient |-> FALSE],
     proxy |-> [given |-> TRUE, publicListenerPort |-> Unset, healthCheckPort |-> Unset,
                opaque |-> NoOpaque, expose |-> {}],
     consulLogin |-> [enabled |-> FALSE, method |-> Unset, includeEntity |-> Unset,
                      datacenter |-> Unset, region |-> Unset, meta |-> NoMeta],
     consulServers |-> [hosts |-> "consul.dc1", skipServerWatch |-> FALSE,
                        defaults |-> NoTLSSettings,
                        grpc |-> [port |-> Unset, tls |-> Unset, caCertFile |-> Unset,
                                  tlsServerName |-> Unset]],
     transparentProxy |-> [enabled |-> Unset, consulDNS |-> FALSE, excludeInboundPorts |-> {},
                           excludeOutboundPorts |-> {}, excludeUIDs |-> {}],
     env |-> [grpcPem |-> Unset, httpToken |-> Unset]]

Web == [Base EXCEPT !.service.resilient = TRUE, !.consulLogin.enabled = TRUE]

Service == [Base EXCEPT !.service.name = Unset, !.transparentProxy.consulDNS = TRUE]

Gateway ==
    [Base EXCEPT !.gateway.kind = "mesh-gateway", !.gateway.name = "gw", !.gateway.partition = "p",
                 !.gateway.namespace = "n", !.service.resilient = TRUE, !.proxy.given = FALSE,
                 !.transparentProxy.consulDNS = TRUE]

MCFirst ==
    {Base, Web, Service, Gateway,
     [Base EXCEPT !.proxy.given = FALSE],
     [Base EXCEPT !.transparentProxy.enabled = "false", !.transparentProxy.consulDNS = TRUE],
     [Gateway EXCEPT !.gateway.kind = "api-gateway", !.gateway.name = Unset,
                     !.gateway.healthCheckPort = "23000", !.consulLogin.enabled = TRUE],
     [Web EXCEPT !.env.grpcPem = "PEM", !.consulLogin.meta = LoginMeta, !.service.meta = UserMeta],
     [Web EXCEPT !.env.httpToken = "token", !.consulServers.defaults.tls = "false"],
     [Service EXCEPT !.env.grpcPem = "PEM", !.consulServers.defaults.caCertFile = "ca.pem"],
     [Service EXCEPT !.consulServers.defaults.caCertFile = "ca.pem",
                     !.consulServers.defaults.tlsServerName = "server",
                     !.consulServers.grpc.caCertFile = "grpc-ca.pem"],
     [Service EXCEPT !.consulServers.defaults.tls = "false", !.consulServers.grpc.tls = "true",
                     !.consulServers.grpc.tlsServerName = "grpc"],
     [Service EXCEPT !.consulServers.grpc.tls = "false", !.env.grpcPem = "PEM",
                     !.consulServers.grpc.port = "8502", !.consulLogin.enabled = TRUE],
     [Service EXCEPT !.proxy.opaque = [bindPort |-> "21000", prometheus |-> "20200",
                                       stats |-> Unset],
                     !.proxy.expose = {"8081"}, !.proxy.healthCheckPort = "23000"],
     [Service EXCEPT !.proxy.opaque.stats = "malformed", !.proxy.publicListenerPort = "21000"],
     [Service EXCEPT !.transparentProxy.excludeInboundPorts = {"9000"},
                     !.transparentProxy.excludeUIDs = {"1000"}]}

MCConfigs == [t \in MCTasks |-> IF t = "web1" THEN MCFirst ELSE {Web}]

(* Proxy defaults without and with settings of their own.                     *)
MCCentral ==
    {[opaque |-> NoOpaque, expose |-> {}, outbound |-> Unset],
     [opaque |-> [NoOpaque EXCEPT !.prometheus = "20201"], expose |-> {"8082"},
      outbound |-> "15002"],
     [opaque |-> [NoOpaque EXCEPT !.stats = "malformed"], expose |-> {}, outbound |-> Unset]}

=============================================================================
