---------------------------- MODULE ShutdownOrder ----------------------------
(***************************************************************************)
(* What the entrypoints of a task promise to the commands they run: a       *)
(* command hears of the end of the task only from its entrypoint, the       *)
(* application's after ECS has asked for it, the proxy's after the          *)
(* application's container has ended too; and a container that ends by      *)
(* itself leaves no command behind.                                         *)
(***************************************************************************)
CONSTANTS App, Proxy   \* the two containers, and the command of each

VARIABLES
    life,   \* [container -> life of its command]
    asked,  \* containers ECS has asked to stop
    told,   \* containers whose command has a SIGTERM
    ended   \* containers whose first process has ended

orderVars == << life, asked, told, ended >>
Both == {App, Proxy}

OrderInit ==
    /\ life = [c \in Both |-> "none"]
    /\ asked = {} /\ told = {} /\ ended = {}

CommandStarts(c) ==
    /\ c \notin ended /\ life[c] = "none"
    /\ life' = [life EXCEPT ![c] = "running"]
    /\ UNCHANGED << asked, told, ended >>

CommandEnds(c) ==
    /\ c \notin ended /\ life[c] = "running"
    /\ life' = [life EXCEPT ![c] = "gone"]
    /\ UNCHANGED << asked, told, ended >>

MayBeTold(c) ==
    /\ c \in asked \ ended /\ life[c] = "running"
    /\ c = Proxy => App \in ended

Tell(c) ==
    /\ MayBeTold(c)
    /\ told' = told \cup {c}
    /\ UNCHANGED << life, asked, ended >>

(* The first process ends; what its command was told is over with it.         *)
End(c) ==
    /\ c \notin ended
    /\ ended' = ended \cup {c} /\ told' = told \ {c}

(* The entrypoint returns, or a signal ends it while it listens for none.     *)
Leave(c) ==
    /\ life[c] # "running"
    /\ End(c)
    /\ UNCHANGED << life, asked >>

Ask(c) ==
    /\ asked' = asked \cup {c}
    /\ \/ UNCHANGED << told, ended >>
       \/ life[c] # "running" /\ End(c)
    /\ UNCHANGED life

(* The stop timeout expires: the command dies with its container.             *)
KillContainer(c) ==
    /\ c \in asked
    /\ End(c)
    /\ life' = [life EXCEPT ![c] = IF @ = "none" THEN "none" ELSE "gone"]
    /\ UNCHANGED asked

OrderNext ==
    \E c \in Both :
        CommandStarts(c) \/ CommandEnds(c) \/ Tell(c) \/ Leave(c) \/ Ask(c) \/ KillContainer(c)

OrderSpec == OrderInit /\ [][OrderNext]_orderVars

=============================================================================
