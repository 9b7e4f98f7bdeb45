-------------------------- MODULE MCControllerSetup --------------------------
(* Two controllers of clusters in different accounts, in the primary          *)
(* datacenter, over a Consul an earlier version may have set up.              *)
EXTENDS ControllerSetup

MCControllers == {"east", "west"}
MCPrincipal == [c \in MCControllers |-> c]
MCLegacyPrincipals == {"old"}
MCTags == {"service-name", "gateway-kind"}
MCLegacyTags == {"service-name"}
MCOtherLinks == {"operator"}

=============================================================================
