------------------------ MODULE ControllerSetupProofs ------------------------
(* Proofs about ControllerSetup, for every finite set of controllers, all     *)
(* principals, tags and policies of an operator, and any number of failures.  *)
EXTENDS ControllerSetup, FiniteSetTheorems, TLAPS

-----------------------------------------------------------------------------
(* The steps of upsertConsulResources.                                        *)

LEMMA DonePlace == Done = 15
BY DEF Done, Steps

LEMMA StepList ==
    /\ Steps[1][1] = "self" /\ Steps[1][2] = ""
    /\ Steps[2][1] = "partition" /\ Steps[2][2] = ""
    /\ Steps[3][1] = "policy" /\ Steps[3][2] = "api-gateway"
    /\ Steps[4][1] = "role" /\ Steps[4][2] = "api-gateway"
    /\ Steps[5][1] = "policy" /\ Steps[5][2] = "mesh-gateway"
    /\ Steps[6][1] = "role" /\ Steps[6][2] = "mesh-gateway"
    /\ Steps[7][1] = "role" /\ Steps[7][2] = "terminating-gateway"
    /\ Steps[8][1] = "method" /\ Steps[8][2] = ""
    /\ Steps[9][1] = "rule" /\ Steps[9][2] = "service"
    /\ Steps[10][1] = "rule" /\ Steps[10][2] = "api-gateway"
    /\ Steps[11][1] = "rule" /\ Steps[11][2] = "terminating-gateway"
    /\ Steps[12][1] = "rule" /\ Steps[12][2] = "mesh-gateway"
    /\ Steps[13][1] = "anonymous" /\ Steps[13][2] = ""
    /\ Steps[14][1] = "node" /\ Steps[14][2] = ""
BY DEF Steps

LEMMA StepKinds ==
    ASSUME NEW i \in 1..14
    PROVE  /\ Steps[i][1] = "partition" => i = 2
           /\ Steps[i][1] = "policy" => i \in {3, 5} /\ Steps[i][2] \in Policies
           /\ Steps[i][1] = "role" => i \in {4, 6, 7} /\ Steps[i][2] \in Roles
           /\ Steps[i][1] = "method" => i = 8
           /\ Steps[i][1] = "rule" => Steps[i][2] \in Rules
           /\ Steps[i][1] = "anonymous" => i = 13
<1>1. \/ i = 1 \/ i = 2 \/ i = 3 \/ i = 4 \/ i = 5 \/ i = 6 \/ i = 7
      \/ i = 8 \/ i = 9 \/ i = 10 \/ i = 11 \/ i = 12 \/ i = 13 \/ i = 14
    OBVIOUS
<1> QED
    BY <1>1, StepList DEF Policies, Roles, Rules

LEMMA Constants ==
    /\ IsFiniteSet(Controllers) /\ Controllers # {}
    /\ LegacyTags \subseteq Tags
    /\ \A c \in Controllers : Principal[c] \in Principals
    /\ LegacyPrincipals \subseteq Principals
    /\ MaxFaults \in Nat
BY ControllerAssumption DEF ControllerAssumption, Principals

LEMMA NothingType == Nothing \in Copies
BY DEF Nothing, Copies

LEMMA FoundType ==
    ASSUME NEW b \in BOOLEAN
    PROVE  /\ [Nothing EXCEPT !.found = b] \in Copies
           /\ [Nothing EXCEPT !.found = b].links = {}
           /\ [Nothing EXCEPT !.found = b].found = b
BY DEF Nothing, Copies

LEMMA DoingPlace ==
    ASSUME TypeOK, NEW c \in Controllers, NEW kind, NEW ph, Doing(c, kind, ph)
    PROVE  at[c] \in 1..14 /\ Steps[at[c]][1] = kind /\ phase[c] = ph
<1>1. at[c] \in 1..15
    BY DonePlace DEF TypeOK
<1> QED
    BY <1>1, DonePlace DEF Doing

-----------------------------------------------------------------------------
(* What any step of a controller does to its own place.                       *)

Phases == {"read", "policy", "create", "write"}

Local(c) ==
    /\ at' \in [Controllers -> 1..Done]
    /\ phase' \in [Controllers -> {"read", "policy", "create", "write"}]
    /\ seen' \in [Controllers -> Copies]
    /\ faults' \in 0..MaxFaults
    /\ \A d \in Controllers \ {c} :
         at'[d] = at[d] /\ phase'[d] = phase[d] /\ seen'[d] = seen[d]

LEMMA FaultType ==
    ASSUME TypeOK, Fault \/ UNCHANGED faults
    PROVE  faults' \in 0..MaxFaults
BY Constants DEF Fault, TypeOK

LEMMA GotoShape ==
    ASSUME TypeOK, NEW c \in Controllers, NEW step \in 1..Done, Goto(c, step),
           Fault \/ UNCHANGED faults
    PROVE  Local(c) /\ at'[c] = step /\ phase'[c] = "read"
BY NothingType, FaultType DEF Goto, TypeOK, Local

LEMMA SkipShape ==
    ASSUME TypeOK, NEW c \in Controllers, at[c] \in 1..14, Skip(c)
    PROVE  Local(c) /\ at'[c] = at[c] + 1 /\ phase'[c] = "read" /\ acl' = acl
<1>1. at[c] + 1 \in 1..Done
    BY DonePlace
<1> QED
    BY <1>1, GotoShape DEF Skip, Advance

LEMMA BackShape ==
    ASSUME TypeOK, NEW c \in Controllers, FailedRead(c) \/ Conflict(c) \/ Crash(c)
    PROVE  Local(c) /\ at'[c] = 1 /\ phase'[c] = "read" /\ acl' = acl
<1>1. 1 \in 1..Done
    BY DonePlace
<1> QED
    BY <1>1, GotoShape DEF FailedRead, Conflict, Crash, Restart

LEMMA SawShape ==
    ASSUME TypeOK, NEW c \in Controllers, NEW copy \in Copies, NEW ph \in Phases,
           Saw(c, copy, ph)
    PROVE  Local(c) /\ at' = at /\ phase'[c] = ph /\ seen'[c] = copy /\ acl' = acl
BY DEF Saw, TypeOK, Local, Phases

LEMMA WroteShape ==
    ASSUME TypeOK, NEW c \in Controllers, at[c] \in 1..14, NEW new \in Acls, Wrote(c, new)
    PROVE  /\ Local(c) /\ phase'[c] = "read"
           /\ acl' \in {acl, new} /\ acl' \in Acls
           /\ at'[c] \in {1, at[c] + 1}
           /\ at'[c] = at[c] + 1 => acl' = new
<1>1. at[c] + 1 \in 1..Done /\ 1 \in 1..Done /\ at[c] + 1 # 1
    BY DonePlace
<1>2. CASE acl' = new /\ Advance(c) /\ UNCHANGED faults
    BY <1>1, <1>2, GotoShape DEF Advance
<1>3. CASE Fault /\ acl' \in {acl, new} /\ Restart(c)
    BY <1>1, <1>3, GotoShape DEF Restart, TypeOK
<1> QED
    BY <1>2, <1>3 DEF Wrote

LEMMA InitTypeOK == Init => TypeOK
<1> SUFFICES ASSUME Init PROVE TypeOK
    OBVIOUS
<1>1. acl \in Acls
    BY Constants DEF Init, Acls, Policies, Roles, Rules
<1>2. at \in [Controllers -> 1..Done]
    <2>1. 1 \in 1..Done
        BY DonePlace
    <2> QED
        BY <2>1 DEF Init
<1>3. faults \in 0..MaxFaults
    BY Constants DEF Init
<1> QED
    BY <1>1, <1>2, <1>3, NothingType DEF Init, TypeOK, Doing

-----------------------------------------------------------------------------
(* What the resources of Consul keep, and what a controller has set up when   *)
(* it is past a step.                                                         *)

RoleHeld(r) == r \in acl.roles /\ acl.rolePolicies[r] = RolePolicy(r)

Established(c, i) ==
    /\ Steps[i][1] = "partition" /\ PartitionsEnabled => acl.partition
    /\ Steps[i][1] = "policy" => Steps[i][2] \in acl.policies
    /\ Steps[i][1] = "role" => RoleHeld(Steps[i][2])
    /\ Steps[i][1] = "method" => acl.method /\ Tags \subseteq acl.tags
    /\ Steps[i][1] = "rule" => acl.rules[Steps[i][2]] > 0
    /\ Steps[i][1] = "anonymous" /\ PrimaryDC => "anonymous" \in acl.links
    /\ Steps[i][1] = "node" => c \in acl.nodes

Progress(c) == \A i \in 1..14 : i < at[c] => Established(c, i)

(* The copy a controller writes back was read from the resource it writes.    *)
SeenOK(c) ==
    /\ Doing(c, "method", "write") => seen[c].links \subseteq Principals
    /\ at[c] = 13 /\ phase[c] # "read" =>
         seen[c].links \subseteq OtherLinks \cup {"anonymous"}
    /\ Doing(c, "rule", "write") /\ seen[c].found => acl.rules[Name(c)] > 0

ResourcesOK ==
    /\ \A r \in Roles : acl.rolePolicies[r] \subseteq RolePolicy(r) \cap acl.policies
    /\ "anonymous" \in acl.links => "anonymous" \in acl.policies

IInv ==
    /\ TypeOK /\ ResourcesOK
    /\ \A c \in Controllers : SeenOK(c) /\ Progress(c)

(* No step takes away what a step of upsertConsulResources sets up.           *)
Grows ==
    /\ acl.partition => acl'.partition
    /\ acl.policies \subseteq acl'.policies
    /\ \A r \in Roles : RoleHeld(r) => RoleHeld(r)'
    /\ acl.method /\ Tags \subseteq acl.tags => acl'.method /\ Tags \subseteq acl'.tags
    /\ \A r \in Rules : acl.rules[r] > 0 => acl'.rules[r] > 0
    /\ "anonymous" \in acl.links => "anonymous" \in acl'.links
    /\ acl.nodes \subseteq acl'.nodes

LEMMA GrowsEstablished ==
    ASSUME Grows, NEW c \in Controllers, NEW i \in 1..14, Established(c, i)
    PROVE  Established(c, i)'
BY StepKinds DEF Grows, Established

LEMMA UnchangedGrows == acl' = acl => Grows
BY DEF Grows, RoleHeld

(* What is to be shown of every step of a controller.                         *)
StepOK(c) ==
    /\ Local(c) /\ acl' \in Acls
    /\ Grows /\ ResourcesOK' /\ SeenOK(c)'
    /\ at'[c] \in {1, at[c], at[c] + 1}
    /\ \A i \in 1..14 : i = at[c] /\ at'[c] = i + 1 => Established(c, i)'
    /\ Doing(c, "anonymous", "write")' => "anonymous" \in acl'.policies

LEMMA RolePolicyType ==
    ASSUME NEW r \in Roles
    PROVE  /\ RolePolicy(r) \in {{r}, {}} /\ RolePolicy(r) \subseteq Policies
           /\ RolePolicy("terminating-gateway") = {}
BY DEF RolePolicy, Roles, Policies

LEMMA SkipOK ==
    ASSUME IInv, NEW c \in Controllers, at[c] \in 1..14, Skip(c), Established(c, at[c])
    PROVE  StepOK(c)
<1>1. Local(c) /\ at'[c] = at[c] + 1 /\ phase'[c] = "read" /\ acl' = acl
    BY SkipShape DEF IInv
<1>2. SeenOK(c)' /\ ~Doing(c, "anonymous", "write")'
    BY <1>1 DEF SeenOK, Doing
<1>3. \A i \in 1..14 : i = at[c] => Established(c, i)'
    BY <1>1 DEF Established, RoleHeld
<1> QED
    BY <1>1, <1>2, <1>3, UnchangedGrows DEF StepOK, IInv, TypeOK, ResourcesOK

LEMMA BackOK ==
    ASSUME IInv, NEW c \in Controllers, at[c] \in 1..15,
           FailedRead(c) \/ Conflict(c) \/ Crash(c)
    PROVE  StepOK(c)
<1>1. Local(c) /\ at'[c] = 1 /\ phase'[c] = "read" /\ acl' = acl
    BY BackShape DEF IInv
<1>2. SeenOK(c)' /\ ~Doing(c, "anonymous", "write")'
    BY <1>1 DEF SeenOK, Doing
<1>3. at'[c] # at[c] + 1
    BY <1>1
<1> QED
    BY <1>1, <1>2, <1>3, UnchangedGrows DEF StepOK, IInv, TypeOK, ResourcesOK

LEMMA SawOK ==
    ASSUME IInv, NEW c \in Controllers, at[c] \in 1..14, NEW copy \in Copies,
           NEW ph \in Phases, Saw(c, copy, ph),
           Steps[at[c]][1] = "method" => copy.links \subseteq Principals,
           Steps[at[c]][1] = "anonymous" => copy.links \subseteq OtherLinks \cup {"anonymous"},
           Steps[at[c]][1] = "anonymous" /\ ph = "write" => "anonymous" \in acl.policies,
           Steps[at[c]][1] = "rule" /\ copy.found => acl.rules[Name(c)] > 0
    PROVE  StepOK(c)
<1>1. Local(c) /\ at' = at /\ phase'[c] = ph /\ seen'[c] = copy /\ acl' = acl
    BY SawShape DEF IInv
<1>2. SeenOK(c)'
    BY <1>1, StepList DEF SeenOK, Doing, Name
<1>3. Doing(c, "anonymous", "write")' => "anonymous" \in acl'.policies
    BY <1>1 DEF Doing
<1>4. at'[c] # at[c] + 1
    BY <1>1
<1> QED
    BY <1>1, <1>2, <1>3, <1>4, UnchangedGrows DEF StepOK, IInv, TypeOK, ResourcesOK

(* A write of new resources; acl' is new, or the resources as they were.      *)
LEMMA WroteOK ==
    ASSUME IInv, NEW c \in Controllers, at[c] \in 1..14, NEW new \in Acls, Wrote(c, new),
           acl' = new =>
               Grows /\ ResourcesOK' /\ \A i \in 1..14 : i = at[c] => Established(c, i)'
    PROVE  StepOK(c)
<1>1. /\ Local(c) /\ phase'[c] = "read"
      /\ acl' \in {acl, new} /\ acl' \in Acls
      /\ at'[c] \in {1, at[c] + 1}
      /\ at'[c] = at[c] + 1 => acl' = new
    BY WroteShape DEF IInv
<1>2. SeenOK(c)' /\ ~Doing(c, "anonymous", "write")'
    BY <1>1 DEF SeenOK, Doing
<1>3. Grows /\ ResourcesOK'
    BY <1>1, UnchangedGrows DEF IInv, ResourcesOK
<1> QED
    BY <1>1, <1>2, <1>3 DEF StepOK

-----------------------------------------------------------------------------
(* The steps of upsertConsulResources.                                        *)

LEMMA PlaceOf ==
    ASSUME IInv, NEW c \in Controllers, NEW kind, NEW ph, Doing(c, kind, ph)
    PROVE  /\ at[c] \in 1..14 /\ at[c] \in 1..15 /\ Steps[at[c]][1] = kind /\ phase[c] = ph
           /\ seen[c] \in Copies
BY DoingPlace DEF IInv, TypeOK

(* What the written resources are to be in terms of the old ones.             *)
LEMMA SelfOK ==
    ASSUME IInv, NEW c \in Controllers, Self(c)
    PROVE  StepOK(c)
<1>1. at[c] \in 1..14 /\ at[c] \in 1..15 /\ Steps[at[c]][1] = "self"
    BY PlaceOf DEF Self
<1>2. Established(c, at[c])
    BY <1>1 DEF Established
<1> QED
    BY <1>1, <1>2, SkipOK, BackOK DEF Self

LEMMA PartitionOK ==
    ASSUME IInv, NEW c \in Controllers, UpsertPartition(c)
    PROVE  StepOK(c)
<1>0. /\ at[c] \in 1..14 /\ at[c] \in 1..15 /\ Steps[at[c]][1] = "partition"
      /\ acl \in Acls
    BY PlaceOf DEF UpsertPartition, IInv, TypeOK
<1>1. CASE Skip(c) /\ (~PartitionsEnabled \/ acl.partition)
    <2>1. Established(c, at[c])
        BY <1>0, <1>1 DEF Established
    <2> QED
        BY <1>0, <1>1, <2>1, SkipOK
<1>2. CASE Saw(c, Nothing, "write")
    BY <1>0, <1>2, SawOK, NothingType DEF Phases
<1>3. CASE FailedRead(c) \/ Conflict(c)
    BY <1>0, <1>3, BackOK
<1>4. CASE Wrote(c, [acl EXCEPT !.partition = TRUE])
    <2> DEFINE new == [acl EXCEPT !.partition = TRUE]
    <2>1. new \in Acls
        BY <1>0 DEF Acls
    <2>2. acl' = new => Grows
        BY <1>0 DEF Acls, Grows, RoleHeld
    <2>3. acl' = new => ResourcesOK'
        BY <1>0 DEF Acls, IInv, ResourcesOK
    <2>4. acl' = new => \A i \in 1..14 : i = at[c] => Established(c, i)'
        BY <1>0 DEF Acls, Established
    <2> QED
        BY <1>0, <1>4, <2>1, <2>2, <2>3, <2>4, WroteOK
<1> QED
    BY <1>1, <1>2, <1>3, <1>4 DEF UpsertPartition

LEMMA PolicyOK ==
    ASSUME IInv, NEW c \in Controllers, UpsertConsulPolicy(c)
    PROVE  StepOK(c)
<1>0. /\ at[c] \in 1..14 /\ at[c] \in 1..15 /\ Steps[at[c]][1] = "policy"
      /\ acl \in Acls /\ Name(c) = Steps[at[c]][2] /\ Name(c) \in Policies
    BY PlaceOf, StepKinds DEF UpsertConsulPolicy, IInv, TypeOK, Name
<1>1. CASE Skip(c) /\ Name(c) \in acl.policies
    <2>1. Established(c, at[c])
        BY <1>0, <1>1 DEF Established
    <2> QED
        BY <1>0, <1>1, <2>1, SkipOK
<1>2. CASE Saw(c, Nothing, "write")
    BY <1>0, <1>2, SawOK, NothingType DEF Phases
<1>3. CASE FailedRead(c) \/ Conflict(c)
    BY <1>0, <1>3, BackOK
<1>4. CASE Wrote(c, [acl EXCEPT !.policies = @ \cup {Name(c)}])
    <2> DEFINE new == [acl EXCEPT !.policies = @ \cup {Name(c)}]
    <2>1. new \in Acls
        BY <1>0 DEF Acls
    <2>2. acl' = new => Grows
        BY <1>0 DEF Acls, Grows, RoleHeld
    <2>3. acl' = new => ResourcesOK'
        BY <1>0 DEF Acls, IInv, ResourcesOK
    <2>4. acl' = new => \A i \in 1..14 : i = at[c] => Established(c, i)'
        BY <1>0 DEF Acls, Established
    <2> QED
        BY <1>0, <1>4, <2>1, <2>2, <2>3, <2>4, WroteOK
<1> QED
    BY <1>1, <1>2, <1>3, <1>4 DEF UpsertConsulPolicy

(* The policy a role gets was made in an earlier step of the same controller. *)
LEMMA RolePolicyMade ==
    ASSUME IInv, NEW c \in Controllers, at[c] \in {4, 6, 7}
    PROVE  RolePolicy(Name(c)) \subseteq acl.policies
<1>1. CASE at[c] = 4
    <2>1. 3 \in 1..14 /\ 3 < at[c]
        BY <1>1
    <2>2. Progress(c)
        BY DEF IInv
    <2>3. Established(c, 3)
        BY <2>1, <2>2 DEF Progress
    <2>4. /\ Steps[3][1] = "policy" /\ Steps[3][2] = "api-gateway"
          /\ Steps[4][2] = "api-gateway"
        BY StepList
    <2>5. Name(c) = "api-gateway" /\ "api-gateway" \in acl.policies
        BY <1>1, <2>3, <2>4 DEF Established, Name
    <2> QED
        BY <2>5 DEF RolePolicy
<1>2. CASE at[c] = 6
    <2>1. 5 \in 1..14 /\ 5 < at[c]
        BY <1>2
    <2>2. Progress(c)
        BY DEF IInv
    <2>3. Established(c, 5)
        BY <2>1, <2>2 DEF Progress
    <2>4. /\ Steps[5][1] = "policy" /\ Steps[5][2] = "mesh-gateway"
          /\ Steps[6][2] = "mesh-gateway"
        BY StepList
    <2>5. Name(c) = "mesh-gateway" /\ "mesh-gateway" \in acl.policies
        BY <1>2, <2>3, <2>4 DEF Established, Name
    <2> QED
        BY <2>5 DEF RolePolicy
<1>3. CASE at[c] = 7
    <2>1. Name(c) = "terminating-gateway"
        BY <1>3, StepList DEF Name
    <2> QED
        BY <2>1 DEF RolePolicy
<1> QED
    BY <1>1, <1>2, <1>3

LEMMA RoleOK ==
    ASSUME IInv, NEW c \in Controllers, UpsertRole(c)
    PROVE  StepOK(c)
<1>0. /\ at[c] \in 1..14 /\ at[c] \in 1..15 /\ Steps[at[c]][1] = "role"
      /\ acl \in Acls /\ Name(c) = Steps[at[c]][2] /\ Name(c) \in Roles
      /\ at[c] \in {4, 6, 7}
    BY PlaceOf, StepKinds DEF UpsertRole, IInv, TypeOK, Name
<1>1. CASE Skip(c) /\ RoleSettled(Name(c))
    <2>0. acl.rolePolicies[Name(c)] \subseteq RolePolicy(Name(c))
        BY <1>0 DEF IInv, ResourcesOK
    <2>1. RoleHeld(Name(c))
        BY <1>0, <1>1, <2>0, RolePolicyType DEF RoleSettled, RoleHeld
    <2>2. Established(c, at[c])
        BY <1>0, <2>1 DEF Established
    <2> QED
        BY <1>0, <1>1, <2>2, SkipOK
<1>2. CASE Saw(c, [Nothing EXCEPT !.found = Name(c) \in acl.roles], "write")
    <2>1. [Nothing EXCEPT !.found = Name(c) \in acl.roles] \in Copies
        <3>1. (Name(c) \in acl.roles) \in BOOLEAN
            OBVIOUS
        <3> QED
            BY <3>1, FoundType, Zenon
    <2> QED
        BY <1>0, <1>2, <2>1, SawOK DEF Phases
<1>3. CASE FailedRead(c) \/ Conflict(c)
    BY <1>0, <1>3, BackOK
<1>4. CASE Wrote(c, [acl EXCEPT !.roles = @ \cup {Name(c)},
                                !.rolePolicies[Name(c)] = RolePolicy(Name(c))])
    <2> DEFINE new == [acl EXCEPT !.roles = @ \cup {Name(c)},
                                  !.rolePolicies[Name(c)] = RolePolicy(Name(c))]
    <2>1. new \in Acls
        BY <1>0, RolePolicyType DEF Acls
    <2>2. acl' = new => Grows
        BY <1>0 DEF Acls, Grows, RoleHeld
    <2>3. acl' = new => ResourcesOK'
        BY <1>0, RolePolicyMade DEF Acls, IInv, ResourcesOK
    <2>4. acl' = new => \A i \in 1..14 : i = at[c] => Established(c, i)'
        BY <1>0 DEF Acls, Established, RoleHeld
    <2> QED
        BY <1>0, <1>4, <2>1, <2>2, <2>3, <2>4, WroteOK
<1> QED
    BY <1>1, <1>2, <1>3, <1>4 DEF UpsertRole

LEMMA MethodOK ==
    ASSUME IInv, NEW c \in Controllers, UpsertAuthMethod(c)
    PROVE  StepOK(c)
<1>0. /\ at[c] \in 1..14 /\ at[c] \in 1..15 /\ Steps[at[c]][1] = "method"
      /\ acl \in Acls
    BY PlaceOf DEF UpsertAuthMethod, IInv, TypeOK
<1>1. CASE Skip(c) /\ acl.method /\ Tags \subseteq acl.tags
    <2>1. Established(c, at[c])
        BY <1>0, <1>1 DEF Established
    <2> QED
        BY <1>0, <1>1, <2>1, SkipOK
<1>2. CASE Saw(c, [found |-> acl.method, links |-> acl.principals, tags |-> acl.tags], "write")
    <2> DEFINE copy == [found |-> acl.method, links |-> acl.principals, tags |-> acl.tags]
    <2>1. copy \in Copies /\ copy.links \subseteq Principals
        BY <1>0 DEF Copies, Acls
    <2> QED
        BY <1>0, <1>2, <2>1, SawOK DEF Phases
<1>3. CASE FailedRead(c) \/ Conflict(c)
    BY <1>0, <1>3, BackOK
<1>4. CASE Doing(c, "method", "write") /\ Wrote(c, MergedMethod(c))
    <2>1. seen[c].links \subseteq Principals /\ seen[c].tags \subseteq Tags
        BY <1>4, PlaceOf DEF IInv, SeenOK, Copies
    <2>2. MergedMethod(c) \in Acls
        BY <1>0, <2>1, Constants DEF MergedMethod, Acls
    <2>3. acl' = MergedMethod(c) => Grows
        BY <1>0 DEF MergedMethod, Acls, Grows, RoleHeld
    <2>4. acl' = MergedMethod(c) => ResourcesOK'
        BY <1>0 DEF MergedMethod, Acls, IInv, ResourcesOK
    <2>5. acl' = MergedMethod(c) => \A i \in 1..14 : i = at[c] => Established(c, i)'
        BY <1>0 DEF MergedMethod, Acls, Established
    <2> QED
        BY <1>0, <1>4, <2>2, <2>3, <2>4, <2>5, WroteOK
<1> QED
    BY <1>1, <1>2, <1>3, <1>4 DEF UpsertAuthMethod

LEMMA RuleOK ==
    ASSUME IInv, NEW c \in Controllers, UpsertBindingRule(c)
    PROVE  StepOK(c)
<1>0. /\ at[c] \in 1..14 /\ at[c] \in 1..15 /\ Steps[at[c]][1] = "rule"
      /\ acl \in Acls /\ Name(c) = Steps[at[c]][2] /\ Name(c) \in Rules
    BY PlaceOf, StepKinds DEF UpsertBindingRule, IInv, TypeOK, Name
<1>1. CASE Saw(c, [Nothing EXCEPT !.found = MatchingRule(c)], "write")
    <2>1. [Nothing EXCEPT !.found = MatchingRule(c)] \in Copies
        <3>1. MatchingRule(c) \in BOOLEAN
            BY DEF MatchingRule
        <3> QED
            BY <3>1, FoundType, Zenon
    <2>2. [Nothing EXCEPT !.found = MatchingRule(c)].found => acl.rules[Name(c)] > 0
        BY DEF Nothing, MatchingRule
    <2> QED
        BY <1>0, <1>1, <2>1, <2>2, SawOK DEF Phases
<1>2. CASE FailedRead(c)
    BY <1>0, <1>2, BackOK
<1>3. CASE Doing(c, "rule", "write") /\ Wrote(c, IF seen[c].found THEN acl
                                                ELSE [acl EXCEPT !.rules[Name(c)] = @ + 1])
    <2> DEFINE new == IF seen[c].found THEN acl ELSE [acl EXCEPT !.rules[Name(c)] = @ + 1]
    <2>1. new \in Acls
        BY <1>0 DEF Acls
    <2>2. acl' = new => Grows
        BY <1>0 DEF Acls, Grows, RoleHeld
    <2>3. acl' = new => ResourcesOK'
        BY <1>0 DEF Acls, IInv, ResourcesOK
    <2>4. acl' = new => acl'.rules[Name(c)] > 0
        BY <1>0, <1>3 DEF Acls, IInv, SeenOK
    <2>5. acl' = new => \A i \in 1..14 : i = at[c] => Established(c, i)'
        BY <1>0, <2>4 DEF Established
    <2> QED
        BY <1>0, <1>3, <2>1, <2>2, <2>3, <2>5, WroteOK
<1> QED
    BY <1>1, <1>2, <1>3 DEF UpsertBindingRule

LEMMA AnonymousReadOK ==
    ASSUME IInv, NEW c \in Controllers, ReadAnonymousToken(c) \/ ReadAnonymousPolicy(c)
    PROVE  StepOK(c)
<1>0. /\ at[c] \in 1..14 /\ at[c] \in 1..15 /\ Steps[at[c]][1] = "anonymous"
      /\ acl \in Acls /\ at[c] = 13 /\ seen[c] \in Copies
    BY PlaceOf, StepKinds DEF ReadAnonymousToken, ReadAnonymousPolicy, IInv, TypeOK
<1>1. CASE Skip(c) /\ (~PrimaryDC \/ "anonymous" \in acl.links)
    <2>1. Established(c, at[c])
        BY <1>0, <1>1 DEF Established
    <2> QED
        BY <1>0, <1>1, <2>1, SkipOK
<1>2. CASE Saw(c, [Nothing EXCEPT !.links = acl.links], "policy")
    <2>1. /\ [Nothing EXCEPT !.links = acl.links] \in Copies
          /\ [Nothing EXCEPT !.links = acl.links].links \subseteq OtherLinks \cup {"anonymous"}
        BY <1>0 DEF Nothing, Copies, Acls
    <2> QED
        BY <1>0, <1>2, <2>1, SawOK DEF Phases
<1>3. CASE /\ Doing(c, "anonymous", "policy")
           /\ Saw(c, seen[c], IF "anonymous" \in acl.policies THEN "write" ELSE "create")
    <2>1. seen[c].links \subseteq OtherLinks \cup {"anonymous"}
        BY <1>0, <1>3 DEF IInv, SeenOK, Doing
    <2> QED
        BY <1>0, <1>3, <2>1, SawOK DEF Phases
<1>4. CASE FailedRead(c)
    BY <1>0, <1>4, BackOK
<1> QED
    BY <1>1, <1>2, <1>3, <1>4 DEF ReadAnonymousToken, ReadAnonymousPolicy

LEMMA AnonymousCreateOK ==
    ASSUME IInv, NEW c \in Controllers, CreateAnonymousPolicy(c)
    PROVE  StepOK(c)
<1>0. /\ at[c] \in 1..14 /\ at[c] \in 1..15 /\ Steps[at[c]][1] = "anonymous"
      /\ acl \in Acls /\ at[c] = 13 /\ phase[c] = "create"
    BY PlaceOf, StepKinds DEF CreateAnonymousPolicy, IInv, TypeOK
<1>1. CASE Conflict(c)
    BY <1>0, <1>1, BackOK
<1>2. CASE acl' \in {acl, WithAnonymousPolicy} /\ ~Conflict(c)
    <2>1. WithAnonymousPolicy \in Acls
        BY <1>0 DEF Acls, Policies, WithAnonymousPolicy
    <2>2. Grows
        BY <1>0, <1>2 DEF Acls, Grows, RoleHeld, WithAnonymousPolicy
    <2>3. ResourcesOK'
        BY <1>0, <1>2 DEF Acls, IInv, ResourcesOK, WithAnonymousPolicy
    <2>4. CASE Fault /\ Restart(c)
        <3>1. Local(c) /\ at'[c] = 1 /\ phase'[c] = "read"
            BY <2>4, DonePlace, GotoShape DEF IInv, Restart
        <3> QED
            BY <1>0, <1>2, <2>1, <2>2, <2>3, <3>1 DEF StepOK, SeenOK, Doing
    <2>5. CASE /\ acl' = WithAnonymousPolicy
               /\ phase' = [phase EXCEPT ![c] = "write"]
               /\ UNCHANGED << at, seen, faults >>
        <3>1. Local(c)
            BY <2>5 DEF IInv, TypeOK, Local
        <3>2. SeenOK(c)'
            BY <1>0, <2>5 DEF IInv, SeenOK, Doing
        <3>3. "anonymous" \in acl'.policies
            BY <1>0, <2>5 DEF Acls, WithAnonymousPolicy
        <3> QED
            BY <1>0, <2>1, <2>2, <2>3, <2>5, <3>1, <3>2, <3>3 DEF StepOK
    <2> QED
        BY <1>2, <2>4, <2>5 DEF CreateAnonymousPolicy
<1> QED
    BY <1>1, <1>2 DEF CreateAnonymousPolicy

LEMMA AnonymousUpdateOK ==
    ASSUME IInv, NEW c \in Controllers, UpdateAnonymousToken(c)
    PROVE  StepOK(c)
<1> DEFINE new == [acl EXCEPT !.links = seen[c].links \cup {"anonymous"}]
<1>0. /\ at[c] \in 1..14 /\ Steps[at[c]][1] = "anonymous" /\ phase[c] = "write"
      /\ acl \in Acls /\ at[c] = 13 /\ Doing(c, "anonymous", "write")
    BY PlaceOf, StepKinds DEF UpdateAnonymousToken, IInv, TypeOK
<1>1. /\ seen[c].links \subseteq OtherLinks \cup {"anonymous"}
      /\ "anonymous" \in acl.policies
    BY <1>0 DEF IInv, SeenOK, TypeOK
<1>2. new \in Acls
    BY <1>0, <1>1 DEF Acls
<1>3. acl' = new => Grows
    BY <1>0 DEF Acls, Grows, RoleHeld
<1>4. acl' = new => ResourcesOK'
    BY <1>0, <1>1 DEF Acls, IInv, ResourcesOK
<1>5. acl' = new => \A i \in 1..14 : i = at[c] => Established(c, i)'
    BY <1>0 DEF Acls, Established
<1> QED
    BY <1>0, <1>2, <1>3, <1>4, <1>5, WroteOK DEF UpdateAnonymousToken

LEMMA NodeOK ==
    ASSUME IInv, NEW c \in Controllers, RegisterNode(c)
    PROVE  StepOK(c)
<1> DEFINE new == [acl EXCEPT !.nodes = @ \cup {c}]
<1>0. at[c] \in 1..14 /\ Steps[at[c]][1] = "node" /\ acl \in Acls
    BY PlaceOf DEF RegisterNode, IInv, TypeOK
<1>2. new \in Acls
    BY <1>0 DEF Acls
<1>3. acl' = new => Grows
    BY <1>0 DEF Acls, Grows, RoleHeld
<1>4. acl' = new => ResourcesOK'
    BY <1>0 DEF Acls, IInv, ResourcesOK
<1>5. acl' = new => \A i \in 1..14 : i = at[c] => Established(c, i)'
    BY <1>0 DEF Established
<1> QED
    BY <1>0, <1>2, <1>3, <1>4, <1>5, WroteOK DEF RegisterNode

LEMMA ControllerStepOK ==
    ASSUME IInv, NEW c \in Controllers, Upsert(c) \/ Crash(c)
    PROVE  StepOK(c)
<1>1. CASE Crash(c)
    <2>1. at[c] \in 1..15
        BY DonePlace DEF IInv, TypeOK
    <2> QED
        BY <1>1, <2>1, BackOK
<1> QED
    BY <1>1, SelfOK, PartitionOK, PolicyOK, RoleOK, MethodOK, RuleOK, AnonymousReadOK,
       AnonymousCreateOK, AnonymousUpdateOK, NodeOK DEF Upsert

(* A step that keeps what is set up leaves the other controllers in order.    *)
LEMMA StepIInv ==
    ASSUME IInv, NEW c \in Controllers, StepOK(c)
    PROVE  IInv'
<1>1. \A d \in Controllers \ {c} :
        /\ at'[d] = at[d] /\ phase'[d] = phase[d] /\ seen'[d] = seen[d]
    BY DEF StepOK, Local
<1>2. acl.policies \subseteq acl'.policies /\ Grows
    BY DEF StepOK, Grows
<1>3. TypeOK'
    <2>1. \A d \in Controllers : Doing(d, "anonymous", "write")' => "anonymous" \in acl'.policies
        BY <1>1, <1>2 DEF StepOK, IInv, TypeOK, Doing
    <2> QED
        BY <2>1 DEF StepOK, Local, TypeOK
<1>4. ASSUME NEW d \in Controllers PROVE SeenOK(d)'
    <2>1. CASE d = c
        BY <2>1 DEF StepOK
    <2>2. CASE d # c
        <3>1. Doing(d, "rule", "write") => Name(d) \in Rules
            BY PlaceOf, StepKinds DEF Name
        <3> QED
            BY <1>1, <1>2, <2>2, <3>1 DEF IInv, SeenOK, Doing, Name, Grows
    <2> QED
        BY <2>1, <2>2
<1>5. ASSUME NEW d \in Controllers, NEW i \in 1..14, i < at'[d] PROVE Established(d, i)'
    <2>1. CASE i < at[d]
        BY <1>2, <2>1, GrowsEstablished DEF IInv, Progress
    <2>2. CASE ~(i < at[d])
        <3>1. d = c
            BY <1>1, <1>5, <2>2
        <3>2. at[c] \in 1..15
            BY DonePlace DEF IInv, TypeOK
        <3>3. i = at[c] /\ at'[c] = i + 1
            BY <1>5, <2>2, <3>1, <3>2 DEF StepOK
        <3> QED
            BY <3>1, <3>3 DEF StepOK
    <2> QED
        BY <2>1, <2>2
<1> QED
    BY <1>3, <1>4, <1>5 DEF StepOK, IInv, Progress

LEMMA OperatorIInv ==
    ASSUME IInv, NEW p \in OtherLinks, OperatorLinks(p)
    PROVE  IInv'
<1>0. acl \in Acls /\ "anonymous" # p
    BY ControllerAssumption DEF IInv, TypeOK, ControllerAssumption
<1>1. /\ acl' = [acl EXCEPT !.links = @ \cup {p}]
      /\ UNCHANGED << at, phase, seen, faults >>
    BY DEF OperatorLinks
<1>2. acl' \in Acls
    BY <1>0, <1>1 DEF Acls
<1>3. Grows
    BY <1>0, <1>1 DEF Acls, Grows, RoleHeld
<1>4. ResourcesOK'
    BY <1>0, <1>1 DEF Acls, IInv, ResourcesOK
<1>5. TypeOK'
    BY <1>0, <1>1, <1>2 DEF Acls, IInv, TypeOK, Doing
<1>6. ASSUME NEW d \in Controllers PROVE SeenOK(d)' /\ Progress(d)'
    <2>1. SeenOK(d)'
        BY <1>0, <1>1 DEF Acls, IInv, SeenOK, Doing, Name
    <2>2. \A i \in 1..14 : i < at[d] => Established(d, i)'
        BY <1>3, GrowsEstablished DEF IInv, Progress
    <2> QED
        BY <1>1, <2>1, <2>2 DEF Progress
<1> QED
    BY <1>4, <1>5, <1>6 DEF IInv

LEMMA InitIInv == Init => IInv
<1> SUFFICES ASSUME Init PROVE IInv
    OBVIOUS
<1>1. ResourcesOK
    BY DEF Init, ResourcesOK
<1>2. \A c \in Controllers : SeenOK(c) /\ Progress(c)
    BY DEF Init, SeenOK, Progress, Doing
<1> QED
    BY <1>1, <1>2, InitTypeOK DEF IInv

LEMMA NextIInv == IInv /\ [Next]_vars => IInv'
<1> SUFFICES ASSUME IInv, [Next]_vars PROVE IInv'
    OBVIOUS
<1>1. CASE \E c \in Controllers : Upsert(c) \/ Crash(c)
    BY <1>1, ControllerStepOK, StepIInv
<1>2. CASE \E p \in OtherLinks : OperatorLinks(p)
    BY <1>2, OperatorIInv
<1>3. CASE UNCHANGED vars
    BY <1>3 DEF vars, IInv, TypeOK, ResourcesOK, SeenOK, Progress, Established, RoleHeld,
                Doing, Name
<1> QED
    BY <1>1, <1>2, <1>3 DEF Next

LEMMA Invariant == Spec => []IInv
BY InitIInv, NextIInv, PTL DEF Spec

(* Every variable of the controllers' setup keeps its type.                   *)
THEOREM TypeCorrect == Spec => []TypeOK
<1>1. IInv => TypeOK
    BY DEF IInv
<1> QED
    BY <1>1, Invariant, PTL

(* upsertConsulResources returns without error only when the policies, roles, *)
(* auth method, rules and the cluster's node are in Consul, and nothing the   *)
(* other controllers do takes these away.                                     *)
THEOREM Complete == Spec => []SetupComplete
<1>1. ASSUME IInv, NEW c \in Controllers, at[c] = Done
      PROVE  /\ PartitionsEnabled => acl.partition
             /\ \A r \in Roles : r \in acl.roles /\ RolePolicy(r) \subseteq acl.rolePolicies[r]
             /\ \A r \in Roles : acl.rolePolicies[r] \subseteq acl.policies
             /\ acl.method /\ Tags \subseteq acl.tags
             /\ \A r \in Rules : acl.rules[r] > 0
             /\ PrimaryDC => "anonymous" \in acl.links \cap acl.policies
             /\ c \in acl.nodes
    <2>1. \A i \in 1..14 : Established(c, i)
        BY <1>1, DonePlace DEF IInv, Progress
    <2>2. PartitionsEnabled => acl.partition
        <3>1. Established(c, 2)
            BY <2>1
        <3>2. Steps[2][1] = "partition"
            BY StepList
        <3> QED
            BY <3>1, <3>2 DEF Established
    <2>3. \A r \in Roles : RoleHeld(r)
        <3>1. Established(c, 4) /\ Established(c, 6) /\ Established(c, 7)
            BY <2>1
        <3>2. /\ Steps[4][1] = "role" /\ Steps[4][2] = "api-gateway"
              /\ Steps[6][1] = "role" /\ Steps[6][2] = "mesh-gateway"
              /\ Steps[7][1] = "role" /\ Steps[7][2] = "terminating-gateway"
            BY StepList
        <3> QED
            BY <3>1, <3>2 DEF Established, Roles
    <2>4. acl.method /\ Tags \subseteq acl.tags
        <3>1. Established(c, 8)
            BY <2>1
        <3>2. Steps[8][1] = "method"
            BY StepList
        <3> QED
            BY <3>1, <3>2 DEF Established
    <2>5. \A r \in Rules : acl.rules[r] > 0
        <3>1. Established(c, 9) /\ Established(c, 10) /\ Established(c, 11) /\ Established(c, 12)
            BY <2>1
        <3>2. /\ Steps[9][1] = "rule" /\ Steps[9][2] = "service"
              /\ Steps[10][1] = "rule" /\ Steps[10][2] = "api-gateway"
              /\ Steps[11][1] = "rule" /\ Steps[11][2] = "terminating-gateway"
              /\ Steps[12][1] = "rule" /\ Steps[12][2] = "mesh-gateway"
            BY StepList
        <3> QED
            BY <3>1, <3>2 DEF Established, Roles, Rules
    <2>6. PrimaryDC => "anonymous" \in acl.links
        <3>1. Established(c, 13)
            BY <2>1
        <3>2. Steps[13][1] = "anonymous"
            BY StepList
        <3> QED
            BY <3>1, <3>2 DEF Established
    <2>7. c \in acl.nodes
        <3>1. Established(c, 14)
            BY <2>1
        <3>2. Steps[14][1] = "node"
            BY StepList
        <3> QED
            BY <3>1, <3>2 DEF Established
    <2> QED
        BY <1>1, <2>2, <2>3, <2>4, <2>5, <2>6, <2>7 DEF IInv, ResourcesOK, RoleHeld
<1>2. IInv => SetupComplete
    BY <1>1 DEF SetupComplete
<1> QED
    BY <1>2, Invariant, PTL

-----------------------------------------------------------------------------
(* PrincipalsKept and LinksKept: what one step can take from a list.          *)

LEMMA ListsStep ==
    ASSUME IInv, NEW c \in Controllers, Upsert(c) \/ Crash(c)
    PROVE  /\ \/ acl'.principals = acl.principals
              \/ /\ Doing(c, "method", "write")
                 /\ acl'.principals = seen[c].links \cup {Principal[c]}
           /\ \/ acl'.links = acl.links
              \/ /\ Doing(c, "anonymous", "write")
                 /\ acl'.links = seen[c].links \cup {"anonymous"}
<1>0. acl \in Acls
    BY DEF IInv, TypeOK
<1> USE <1>0 DEF Acls, Wrote, Skip, Saw, FailedRead, Conflict
<1>1. CASE Self(c) \/ UpsertPartition(c) \/ UpsertConsulPolicy(c) \/ RegisterNode(c)
    BY <1>1 DEF Self, UpsertPartition, UpsertConsulPolicy, RegisterNode
<1>2. CASE UpsertRole(c)
    BY <1>2 DEF UpsertRole
<1>3. CASE UpsertAuthMethod(c)
    BY <1>3 DEF UpsertAuthMethod, MergedMethod
<1>4. CASE UpsertBindingRule(c)
    BY <1>4 DEF UpsertBindingRule
<1>5. CASE ReadAnonymousToken(c) \/ ReadAnonymousPolicy(c) \/ CreateAnonymousPolicy(c)
    BY <1>5 DEF ReadAnonymousToken, ReadAnonymousPolicy, CreateAnonymousPolicy,
                WithAnonymousPolicy
<1>6. CASE UpdateAnonymousToken(c)
    BY <1>6 DEF UpdateAnonymousToken
<1>7. CASE Crash(c)
    BY <1>7 DEF Crash
<1> QED
    BY <1>1, <1>2, <1>3, <1>4, <1>5, <1>6, <1>7 DEF Upsert

LEMMA OperatorLists ==
    ASSUME IInv, NEW p \in OtherLinks, OperatorLinks(p)
    PROVE  acl'.principals = acl.principals /\ acl.links \subseteq acl'.links
<1>1. acl \in Acls /\ acl' = [acl EXCEPT !.links = @ \cup {p}]
    BY DEF IInv, TypeOK, OperatorLinks
<1> QED
    BY <1>1 DEF Acls

(* The auth method loses a principal only to a controller that read the       *)
(* method before the principal was added (upsertAuthMethod).                  *)
THEOREM PrincipalsStay == Spec => PrincipalsKept
<1>1. IInv /\ [Next]_vars =>
          [\A p \in acl.principals \ acl'.principals : StaleWrite("method", p)]_vars
    <2> SUFFICES ASSUME IInv, Next, NEW p \in acl.principals \ acl'.principals
                 PROVE  StaleWrite("method", p)
        OBVIOUS
    <2>1. PICK c \in Controllers : Upsert(c) \/ Crash(c)
        BY OperatorLists DEF Next
    <2> QED
        BY <2>1, ListsStep DEF StaleWrite
<1> QED
    BY <1>1, Invariant, PTL DEF Spec, PrincipalsKept

(* The anonymous token loses a policy only to a controller that read the      *)
(* token before the policy was linked (upsertAnonymousTokenPolicy).           *)
THEOREM LinksStay == Spec => LinksKept
<1>1. IInv /\ [Next]_vars =>
          [\A p \in acl.links \ acl'.links : StaleWrite("anonymous", p)]_vars
    <2> SUFFICES ASSUME IInv, Next, NEW p \in acl.links \ acl'.links
                 PROVE  StaleWrite("anonymous", p)
        OBVIOUS
    <2>1. PICK c \in Controllers : Upsert(c) \/ Crash(c)
        BY OperatorLists DEF Next
    <2> QED
        BY <2>1, ListsStep DEF StaleWrite
<1> QED
    BY <1>1, Invariant, PTL DEF Spec, LinksKept

-----------------------------------------------------------------------------
(* RulesBounded: a rule that exists and the controllers that are about to     *)
(* create it are together no more than the controllers, since a controller    *)
(* that reads the rules later finds it.                                       *)

Pending(r) ==
    {c \in Controllers : Doing(c, "rule", "write") /\ Name(c) = r /\ ~seen[c].found}

RulesCounted ==
    \A r \in Rules : acl.rules[r] + Cardinality(Pending(r)) <= Cardinality(Controllers)

LEMMA PendingFinite ==
    ASSUME NEW r
    PROVE  /\ IsFiniteSet(Pending(r)) /\ Cardinality(Pending(r)) \in Nat
           /\ Cardinality(Pending(r)) <= Cardinality(Controllers)
           /\ Cardinality(Controllers) \in Nat
BY Constants, FS_Subset, FS_CardinalityType DEF Pending

LEMMA PendingFinitePrimed ==
    ASSUME NEW r
    PROVE  /\ IsFiniteSet(Pending(r)') /\ Cardinality(Pending(r)') \in Nat
           /\ Cardinality(Pending(r)') <= Cardinality(Controllers)
BY Constants, FS_Subset, FS_CardinalityType DEF Pending

LEMMA InitRulesCounted == Init => RulesCounted
<1> SUFFICES ASSUME Init, NEW r \in Rules
             PROVE  acl.rules[r] + Cardinality(Pending(r)) <= Cardinality(Controllers)
    BY DEF RulesCounted
<1>1. Pending(r) = {}
    BY DEF Init, Pending, Doing
<1>2. acl.rules[r] \in {0, 1}
    BY DEF Init
<1>3. Cardinality(Controllers) \in Nat /\ Cardinality(Controllers) # 0
    BY Constants, FS_CardinalityType, FS_EmptySet
<1> QED
    BY <1>1, <1>2, <1>3, FS_EmptySet

(* A controller that is not about to create a rule leaves the others' count.  *)
LEMMA NotPending ==
    ASSUME NEW c \in Controllers, NEW r, Local(c),
           phase'[c] # "write" \/ Steps[at'[c]][1] # "rule" \/ Steps[at'[c]][2] # r
           \/ seen'[c].found
    PROVE  Pending(r)' \subseteq Pending(r) \ {c}
BY DEF Local, Pending, Doing, Name

(* Every step but those of upsertBindingRule.                                 *)
LEMMA OtherStepRules ==
    ASSUME IInv, NEW c \in Controllers, Upsert(c) \/ Crash(c), ~UpsertBindingRule(c)
    PROVE  /\ acl'.rules = acl.rules
           /\ phase'[c] # "write" \/ Steps[at'[c]][1] # "rule"
<1>0. acl \in Acls /\ at[c] \in 1..15 /\ at \in [Controllers -> 1..15]
      /\ phase \in [Controllers -> {"read", "policy", "create", "write"}]
    BY DonePlace DEF IInv, TypeOK
<1> USE <1>0 DEF Acls, Wrote, Skip, Saw, FailedRead, Conflict, Advance, Restart, Goto, Doing
<1>1. CASE Self(c) \/ UpsertPartition(c)
    BY <1>1 DEF Self, UpsertPartition
<1>2. CASE UpsertConsulPolicy(c)
    BY <1>2 DEF UpsertConsulPolicy
<1>3. CASE UpsertRole(c)
    BY <1>3 DEF UpsertRole
<1>4. CASE UpsertAuthMethod(c)
    BY <1>4 DEF UpsertAuthMethod, MergedMethod
<1>5. CASE ReadAnonymousToken(c) \/ ReadAnonymousPolicy(c)
    BY <1>5 DEF ReadAnonymousToken, ReadAnonymousPolicy
<1>6. CASE CreateAnonymousPolicy(c)
    BY <1>6 DEF CreateAnonymousPolicy, WithAnonymousPolicy
<1>7. CASE UpdateAnonymousToken(c) \/ RegisterNode(c)
    BY <1>7 DEF UpdateAnonymousToken, RegisterNode
<1>8. CASE Crash(c)
    BY <1>8 DEF Crash
<1> QED
    BY <1>1, <1>2, <1>3, <1>4, <1>5, <1>6, <1>7, <1>8 DEF Upsert

(* The steps that touch the count: a read of the rules and a create.          *)
LEMMA RuleStep ==
    ASSUME IInv, NEW c \in Controllers, Upsert(c) \/ Crash(c), NEW r \in Rules
    PROVE  \/ acl'.rules[r] = acl.rules[r] /\ Pending(r)' \subseteq Pending(r)
           \/ acl'.rules[r] = 0
           \/ /\ c \in Pending(r) /\ acl'.rules[r] = acl.rules[r] + 1
              /\ Pending(r)' \subseteq Pending(r) \ {c}
<1>0. Local(c) /\ acl \in Acls
    BY ControllerStepOK DEF StepOK, IInv, TypeOK
<1>1. CASE ~UpsertBindingRule(c)
    <2>1. acl'.rules = acl.rules /\ (phase'[c] # "write" \/ Steps[at'[c]][1] # "rule")
        BY <1>1, OtherStepRules
    <2> QED
        BY <1>0, <2>1, NotPending
<1>2. CASE UpsertBindingRule(c)
    <2>0. at[c] \in 1..14 /\ Steps[at[c]][1] = "rule" /\ Name(c) = Steps[at[c]][2]
          /\ Name(c) \in Rules
        BY <1>2, PlaceOf, StepKinds DEF UpsertBindingRule, Name
    <2>1. CASE Saw(c, [Nothing EXCEPT !.found = MatchingRule(c)], "write")
        <3>1. MatchingRule(c) \in BOOLEAN
            BY DEF MatchingRule
        <3>2. /\ at' = at /\ acl' = acl
              /\ seen'[c] = [Nothing EXCEPT !.found = MatchingRule(c)]
            BY <2>1, <3>1, SawShape, FoundType DEF IInv, Phases
        <3>3. seen'[c].found = MatchingRule(c)
            BY <3>1, <3>2, FoundType
        <3>4. CASE MatchingRule(c) \/ Name(c) # r
            BY <1>0, <2>0, <3>2, <3>3, <3>4, NotPending
        <3>5. CASE ~MatchingRule(c) /\ Name(c) = r
            <4>1. acl.rules[r] \in Nat
                BY <1>0 DEF Acls
            <4> QED
                BY <3>2, <3>5, <4>1 DEF MatchingRule
        <3> QED
            BY <3>4, <3>5
    <2>2. CASE FailedRead(c)
        BY <1>0, <2>2, BackShape, NotPending DEF IInv
    <2>3. CASE /\ Doing(c, "rule", "write")
               /\ Wrote(c, IF seen[c].found THEN acl ELSE [acl EXCEPT !.rules[Name(c)] = @ + 1])
        <3> DEFINE new == [acl EXCEPT !.rules[Name(c)] = @ + 1]
        <3>1. /\ new \in Acls /\ new.rules[Name(c)] = acl.rules[Name(c)] + 1
              /\ \A s \in Rules \ {Name(c)} : new.rules[s] = acl.rules[s]
            BY <1>0, <2>0 DEF Acls
        <3>2. /\ phase'[c] = "read"
              /\ acl' \in {acl, IF seen[c].found THEN acl ELSE new}
            BY <1>0, <2>0, <2>3, <3>1, WroteShape DEF IInv
        <3>3. Pending(r)' \subseteq Pending(r) \ {c}
            BY <1>0, <3>2, NotPending
        <3>4. CASE acl' = acl \/ Name(c) # r
            BY <3>1, <3>2, <3>3, <3>4
        <3>5. CASE acl' # acl /\ Name(c) = r
            <4>1. c \in Pending(r)
                BY <2>3, <3>2, <3>5 DEF Pending
            <4> QED
                BY <3>1, <3>2, <3>3, <3>5, <4>1
        <3> QED
            BY <3>4, <3>5
    <2> QED
        BY <1>2, <2>1, <2>2, <2>3 DEF UpsertBindingRule
<1> QED
    BY <1>1, <1>2

LEMMA NextRulesCounted == IInv /\ RulesCounted /\ [Next]_vars => RulesCounted'
<1> SUFFICES ASSUME IInv, RulesCounted, [Next]_vars, NEW r \in Rules
             PROVE  acl'.rules[r] + Cardinality(Pending(r)') <= Cardinality(Controllers)
    BY DEF RulesCounted
<1>1. /\ acl.rules[r] \in Nat
      /\ acl.rules[r] + Cardinality(Pending(r)) <= Cardinality(Controllers)
    BY DEF IInv, TypeOK, Acls, RulesCounted
<1>2. CASE acl'.rules[r] = acl.rules[r] /\ Pending(r)' \subseteq Pending(r)
    <2>1. Cardinality(Pending(r)') <= Cardinality(Pending(r))
        BY <1>2, PendingFinite, FS_Subset
    <2> QED
        BY <1>1, <1>2, <2>1, PendingFinite, PendingFinitePrimed
<1>3. CASE acl'.rules[r] = 0
    BY <1>3, PendingFinite, PendingFinitePrimed
<1>4. ASSUME NEW c \in Pending(r), acl'.rules[r] = acl.rules[r] + 1,
             Pending(r)' \subseteq Pending(r) \ {c}
      PROVE  acl'.rules[r] + Cardinality(Pending(r)') <= Cardinality(Controllers)
    <2>1. /\ IsFiniteSet(Pending(r) \ {c})
          /\ Cardinality(Pending(r) \ {c}) = Cardinality(Pending(r)) - 1
        BY PendingFinite, FS_RemoveElement
    <2>2. Cardinality(Pending(r)') <= Cardinality(Pending(r) \ {c})
        BY <1>4, <2>1, FS_Subset
    <2> QED
        BY <1>1, <1>4, <2>1, <2>2, PendingFinite, PendingFinitePrimed
<1>5. CASE \E c \in Controllers : Upsert(c) \/ Crash(c)
    <2>1. PICK c \in Controllers : Upsert(c) \/ Crash(c)
        BY <1>5
    <2> QED
        BY <1>2, <1>3, <1>4, <2>1, RuleStep
<1>6. CASE (\E p \in OtherLinks : OperatorLinks(p)) \/ UNCHANGED vars
    <2>1. acl'.rules = acl.rules /\ UNCHANGED << at, phase, seen >>
        BY <1>6 DEF IInv, TypeOK, Acls, OperatorLinks, vars
    <2>2. Pending(r)' = Pending(r)
        BY <2>1 DEF Pending, Doing, Name
    <2> QED
        BY <1>2, <2>1, <2>2
<1> QED
    BY <1>5, <1>6 DEF Next

(* No binding rule exists more often than there are controllers: a controller *)
(* that fails or restarts finds on its next read what it had created.         *)
THEOREM RulesBound == Spec => []RulesBounded
<1>1. ASSUME IInv, RulesCounted, NEW r \in Rules
      PROVE  acl.rules[r] <= Cardinality(Controllers)
    BY <1>1, PendingFinite DEF IInv, TypeOK, Acls, RulesCounted
<1>2. IInv /\ RulesCounted => RulesBounded
    BY <1>1 DEF RulesBounded
<1>3. Init /\ []IInv /\ [][Next]_vars => []RulesCounted
    BY InitRulesCounted, NextRulesCounted, PTL
<1> QED
    BY <1>2, <1>3, Invariant, PTL DEF Spec

=============================================================================
