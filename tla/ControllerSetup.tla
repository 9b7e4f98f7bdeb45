--------------------------- MODULE ControllerSetup ---------------------------
(***************************************************************************)
(* The start of the controller (subcommand/controller): upsertConsulResources*)
(* reads each resource it needs in Consul and writes it when it is missing.  *)
(* The controllers of several ECS clusters share the resources, and a        *)
(* controller that meets an error exits and is started again by ECS.         *)
(***************************************************************************)
EXTENDS Naturals, Sequences, FiniteSets

CONSTANTS
    Controllers,
    Principal,          \* the IAM principal pattern of each controller
    LegacyPrincipals,   \* those of the auth method of an earlier version
    Tags, LegacyTags,   \* IAMEntityTags now and then
    OtherLinks,         \* policies an operator links to the anonymous token
    PartitionsEnabled,  \* config.Controller.PartitionsEnabled
    PrimaryDC,          \* this datacenter is the primary one
    MaxFaults           \* bound: failed calls and crashes of a behaviour

ASSUME ControllerAssumption ==
    /\ IsFiniteSet(Controllers) /\ Controllers # {}
    /\ LegacyTags \subseteq Tags
    /\ "anonymous" \notin OtherLinks
    /\ PartitionsEnabled \in BOOLEAN /\ PrimaryDC \in BOOLEAN
    /\ MaxFaults \in Nat

Principals == {Principal[c] : c \in Controllers} \cup LegacyPrincipals
Roles == {"api-gateway", "mesh-gateway", "terminating-gateway"}
Policies == {"api-gateway", "mesh-gateway", "anonymous"}
Rules == {"service"} \cup Roles

(* The policy upsertRole attaches to a role.                                  *)
RolePolicy(r) == {r} \ {"terminating-gateway"}

(* upsertConsulResources, one entry for each call that upserts a resource.    *)
Steps == <<
    << "self", "" >>, << "partition", "" >>,
    << "policy", "api-gateway" >>, << "role", "api-gateway" >>,
    << "policy", "mesh-gateway" >>, << "role", "mesh-gateway" >>,
    << "role", "terminating-gateway" >>,
    << "method", "" >>,
    << "rule", "service" >>, << "rule", "api-gateway" >>,
    << "rule", "terminating-gateway" >>, << "rule", "mesh-gateway" >>,
    << "anonymous", "" >>, << "node", "" >> >>

Done == Len(Steps) + 1

VARIABLES
    acl,    \* the resources in Consul; sorted: the lists of the method are in order
    at,     \* the step each controller is at; Done when it reconciles
    phase,  \* the call of that step
    seen,   \* what its read returned
    faults  \* bound counter

vars == << acl, at, phase, seen, faults >>

Nothing == [found |-> FALSE, links |-> {}, tags |-> {}]

(* A new Consul cluster, or one an earlier version has set up.                *)
Init ==
    /\ \E legacy, ordered \in BOOLEAN :
         /\ legacy \/ ordered
         /\ acl = [partition |-> FALSE,
                   policies |-> {},
                   roles |-> IF legacy THEN Roles ELSE {},
                   rolePolicies |-> [r \in Roles |-> {}],
                   method |-> legacy,
                   principals |-> IF legacy THEN LegacyPrincipals ELSE {},
                   tags |-> IF legacy THEN LegacyTags ELSE {},
                   sorted |-> ordered,
                   rules |-> [r \in Rules |-> IF legacy /\ r = "service" THEN 1 ELSE 0],
                   links |-> {},
                   nodes |-> {}]
    /\ at = [c \in Controllers |-> 1]
    /\ phase = [c \in Controllers |-> "read"]
    /\ seen = [c \in Controllers |-> Nothing]
    /\ faults = 0

-----------------------------------------------------------------------------
Doing(c, kind, ph) == at[c] # Done /\ Steps[at[c]][1] = kind /\ phase[c] = ph
Name(c) == Steps[at[c]][2]

Fault == faults < MaxFaults /\ faults' = faults + 1

Goto(c, step) ==
    /\ at' = [at EXCEPT ![c] = step]
    /\ phase' = [phase EXCEPT ![c] = "read"]
    /\ seen' = [seen EXCEPT ![c] = Nothing]

(* The next upsert.                                                           *)
Advance(c) == Goto(c, at[c] + 1)

(* run returns an error, the container exits and ECS starts it again.         *)
Restart(c) == Goto(c, 1)

(* A read: what it returned and the call that follows.                        *)
Saw(c, copy, ph) ==
    /\ seen' = [seen EXCEPT ![c] = copy]
    /\ phase' = [phase EXCEPT ![c] = ph]
    /\ UNCHANGED << acl, at, faults >>

Skip(c) == Advance(c) /\ UNCHANGED << acl, faults >>

FailedRead(c) == Fault /\ Restart(c) /\ UNCHANGED acl

(* A write; one that fails may have taken effect.                             *)
Wrote(c, new) ==
    \/ acl' = new /\ Advance(c) /\ UNCHANGED faults
    \/ Fault /\ acl' \in {acl, new} /\ Restart(c)

(* Variant: the create is tried again.                                        *)
ConflictRetried(c) == UNCHANGED vars

(* Names are unique in Consul: the create of an existing resource fails.      *)
Conflict(c) == Restart(c) /\ UNCHANGED << acl, faults >>

-----------------------------------------------------------------------------
(* The metadata, the watcher and the agent's configuration.                   *)
Self(c) ==
    /\ Doing(c, "self", "read")
    /\ Skip(c) \/ FailedRead(c)

UpsertPartition(c) ==
    \/ /\ Doing(c, "partition", "read")
       /\ IF ~PartitionsEnabled \/ acl.partition
            THEN Skip(c)
            ELSE Saw(c, Nothing, "write") \/ FailedRead(c)
    \/ /\ Doing(c, "partition", "write")
       /\ IF acl.partition THEN Conflict(c) ELSE Wrote(c, [acl EXCEPT !.partition = TRUE])

UpsertConsulPolicy(c) ==
    \/ /\ Doing(c, "policy", "read")
       /\ IF Name(c) \in acl.policies
            THEN Skip(c)
            ELSE Saw(c, Nothing, "write") \/ FailedRead(c)
    \/ /\ Doing(c, "policy", "write")
       /\ IF Name(c) \in acl.policies
            THEN Conflict(c)
            ELSE Wrote(c, [acl EXCEPT !.policies = @ \cup {Name(c)}])

(* Variant: an existing role is left as it is.                                *)
RoleExists(r) == r \in acl.roles

(* An existing role with policies, or one that needs none, is left as it is.  *)
RoleSettled(r) == r \in acl.roles /\ (acl.rolePolicies[r] # {} \/ RolePolicy(r) = {})

UpsertRole(c) ==
    \/ /\ Doing(c, "role", "read")
       /\ IF RoleSettled(Name(c))
            THEN Skip(c)
            ELSE \/ Saw(c, [Nothing EXCEPT !.found = Name(c) \in acl.roles], "write")
                 \/ FailedRead(c)
    \/ /\ Doing(c, "role", "write")
       /\ IF ~seen[c].found /\ Name(c) \in acl.roles
            THEN Conflict(c)
            ELSE Wrote(c, [acl EXCEPT !.roles = @ \cup {Name(c)},
                                      !.rolePolicies[Name(c)] = RolePolicy(Name(c))])

(* Variant: the update sets this controller's principal only.                 *)
OwnMethod(c) ==
    [acl EXCEPT !.method = TRUE, !.principals = {Principal[c]}, !.tags = Tags, !.sorted = TRUE]

(* The principals and tags of an existing auth method are merged with those   *)
(* of this controller, in order; it is updated when that changes the lists.   *)
MergedMethod(c) ==
    [acl EXCEPT !.method = TRUE,
                !.principals = seen[c].links \cup {Principal[c]},
                !.tags = seen[c].tags \cup Tags,
                !.sorted = TRUE]

UpsertAuthMethod(c) ==
    \/ /\ Doing(c, "method", "read")
       /\ IF acl.method /\ acl.sorted /\ Principal[c] \in acl.principals /\ Tags \subseteq acl.tags
            THEN Skip(c)
            ELSE \/ Saw(c, [found |-> acl.method, links |-> acl.principals,
                            tags |-> acl.tags], "write")
                 \/ FailedRead(c)
    \/ /\ Doing(c, "method", "write")
       /\ IF ~seen[c].found /\ acl.method
            THEN Conflict(c)
            ELSE Wrote(c, MergedMethod(c))

(* Variant: the rules in Consul are not looked at.                            *)
NoMatchingRule(c) == FALSE

(* A rule with the same bind name and description.                            *)
MatchingRule(c) == acl.rules[Name(c)] > 0

(* A matching rule is updated, which changes nothing here; otherwise one is   *)
(* created, though another may by now exist.                                  *)
UpsertBindingRule(c) ==
    \/ /\ Doing(c, "rule", "read")
       /\ \/ Saw(c, [Nothing EXCEPT !.found = MatchingRule(c)], "write")
          \/ FailedRead(c)
    \/ /\ Doing(c, "rule", "write")
       /\ Wrote(c, IF seen[c].found THEN acl ELSE [acl EXCEPT !.rules[Name(c)] = @ + 1])

(* upsertAnonymousTokenPolicy, in the primary datacenter: the token, unless   *)
(* the policy is linked, then the policy, which is created if need be.        *)
ReadAnonymousToken(c) ==
    /\ Doing(c, "anonymous", "read")
    /\ IF ~PrimaryDC \/ "anonymous" \in acl.links
         THEN Skip(c)
         ELSE Saw(c, [Nothing EXCEPT !.links = acl.links], "policy") \/ FailedRead(c)

(* Variant: the policy is taken to exist.                                     *)
AssumeAnonymousPolicy(c) ==
    /\ Doing(c, "anonymous", "policy")
    /\ Saw(c, seen[c], "write")

ReadAnonymousPolicy(c) ==
    /\ Doing(c, "anonymous", "policy")
    /\ \/ Saw(c, seen[c], IF "anonymous" \in acl.policies THEN "write" ELSE "create")
       \/ FailedRead(c)

WithAnonymousPolicy == [acl EXCEPT !.policies = @ \cup {"anonymous"}]

CreateAnonymousPolicy(c) ==
    /\ Doing(c, "anonymous", "create")
    /\ IF "anonymous" \in acl.policies
         THEN Conflict(c)
         ELSE \/ /\ acl' = WithAnonymousPolicy
                 /\ phase' = [phase EXCEPT ![c] = "write"]
                 /\ UNCHANGED << at, seen, faults >>
              \/ Fault /\ acl' \in {acl, WithAnonymousPolicy} /\ Restart(c)

(* Variant: the token is updated with this policy alone.                      *)
UpdateAnonymousTokenAlone(c) ==
    /\ Doing(c, "anonymous", "write")
    /\ Wrote(c, [acl EXCEPT !.links = {"anonymous"}])

(* The token as it was read is written back with one more policy.             *)
UpdateAnonymousToken(c) ==
    /\ Doing(c, "anonymous", "write")
    /\ Wrote(c, [acl EXCEPT !.links = seen[c].links \cup {"anonymous"}])

(* The node of the cluster, under its ARN.                                    *)
RegisterNode(c) ==
    /\ Doing(c, "node", "read")
    /\ Wrote(c, [acl EXCEPT !.nodes = @ \cup {c}])

(* The task of a controller is stopped and replaced.                          *)
Crash(c) ==
    /\ at[c] # 1 \/ phase[c] # "read"
    /\ Fault
    /\ Restart(c)
    /\ UNCHANGED acl

(* An operator links a policy to the anonymous token.                         *)
OperatorLinks(p) ==
    /\ p \notin acl.links
    /\ acl' = [acl EXCEPT !.links = @ \cup {p}]
    /\ UNCHANGED << at, phase, seen, faults >>

Upsert(c) ==
    \/ Self(c) \/ UpsertPartition(c) \/ UpsertConsulPolicy(c) \/ UpsertRole(c)
    \/ UpsertAuthMethod(c) \/ UpsertBindingRule(c)
    \/ ReadAnonymousToken(c) \/ ReadAnonymousPolicy(c) \/ CreateAnonymousPolicy(c)
    \/ UpdateAnonymousToken(c) \/ RegisterNode(c)

Next ==
    \/ \E c \in Controllers : Upsert(c) \/ Crash(c)
    \/ \E p \in OtherLinks : OperatorLinks(p)

Spec == Init /\ [][Next]_vars

(* ECS keeps a controller running, and every call returns.                    *)
FairSpec == Spec /\ \A c \in Controllers : WF_vars(Upsert(c))

-----------------------------------------------------------------------------
(* Properties.                                                                *)

Acls == [partition : BOOLEAN,
         policies : SUBSET Policies,
         roles : SUBSET Roles,
         rolePolicies : [Roles -> SUBSET Policies],
         method : BOOLEAN,
         principals : SUBSET Principals,
         tags : SUBSET Tags,
         sorted : BOOLEAN,
         rules : [Rules -> Nat],
         links : SUBSET (OtherLinks \cup {"anonymous"}),
         nodes : SUBSET Controllers]

Copies == [found : BOOLEAN,
           links : SUBSET (Principals \cup OtherLinks \cup {"anonymous"}),
           tags : SUBSET Tags]

TypeOK ==
    /\ acl \in Acls
    /\ at \in [Controllers -> 1..Done]
    /\ phase \in [Controllers -> {"read", "policy", "create", "write"}]
    /\ seen \in [Controllers -> Copies]
    /\ \A c \in Controllers : Doing(c, "anonymous", "write") => "anonymous" \in acl.policies
    /\ faults \in 0..MaxFaults

(* Restarts, failed calls and lost replies make no controller create a        *)
(* binding rule twice; only controllers that start together do.               *)
RulesBounded == \A r \in Rules : acl.rules[r] <= Cardinality(Controllers)

(* A controller that reconciles finds in Consul, whatever the other           *)
(* controllers wrote over its own writes: roles with the policies that exist, *)
(* the auth method with every tag, the rules, the linked policy, its node.    *)
(* Its own principal another controller may have overwritten: PrincipalsKept. *)
SetupComplete ==
    \A c \in Controllers : at[c] = Done =>
        /\ PartitionsEnabled => acl.partition
        /\ \A r \in Roles : r \in acl.roles /\ RolePolicy(r) \subseteq acl.rolePolicies[r]
        /\ \A r \in Roles : acl.rolePolicies[r] \subseteq acl.policies
        /\ acl.method /\ Tags \subseteq acl.tags
        /\ \A r \in Rules : acl.rules[r] > 0
        /\ PrimaryDC => "anonymous" \in acl.links \cap acl.policies
        /\ c \in acl.nodes

(* The step writes over what a read of kind returned before the write of x.   *)
StaleWrite(kind, x) ==
    \E c \in Controllers : Doing(c, kind, "write") /\ x \notin seen[c].links

(* The auth method loses a trusted principal only in the race its comment     *)
(* admits: a controller writes what it read before the principal was added.   *)
PrincipalsKept ==
    [][\A p \in acl.principals \ acl'.principals : StaleWrite("method", p)]_vars

(* The anonymous token loses an operator's policy only when the controller    *)
(* read the token before the policy was linked.                               *)
LinksKept ==
    [][\A p \in acl.links \ acl'.links : StaleWrite("anonymous", p)]_vars

(* After finitely many failures every controller finishes its setup, though   *)
(* a controller that loses the race to create a resource starts over.         *)
SetupFinishes == \A c \in Controllers : <>[](at[c] = Done)

=============================================================================
