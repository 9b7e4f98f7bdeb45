------------------------- MODULE LeftoverCollector -------------------------
(***************************************************************************)
(* What the controller promises to the tasks of a cluster and to whoever    *)
(* reads its log: it collects one token or service at a time, only what it  *)
(* can attribute, never from a task that has been running since its cycle   *)
(* began to look, and a cycle it reports as clean leaves no token of a task *)
(* that had ended when the cycle began.  How it finds out what to collect,  *)
(* and what it does about namespaces, is not part of the promise.           *)
(***************************************************************************)
CONSTANTS
    Tasks,          \* the tasks of the cluster
    Others,         \* owners that are none of its tasks
    Tokens,
    Services,
    TokenOwner,     \* [Tokens -> owner, or Nobody]
    ServiceOwner,   \* [Services -> owner, or Nobody]
    Nobody          \* the owner of what cannot be attributed

VARIABLES
    status,         \* [Tasks -> life of the task]
    tokens,         \* the tokens there are
    services,       \* the services there are
    phase,          \* "idle", "looking" (a cycle is under way) or "clean" (it said so)
    spared,         \* tasks running since the cycle began to look
    doomed          \* tasks that had stopped when it did

collectorVars == << status, tokens, services, phase, spared, doomed >>

InStatus(s) == {t \in Tasks : status[t] = s}

Left == doomed \cup Others

CollectorInit ==
    /\ status = [t \in Tasks |-> "absent"]
    /\ tokens \subseteq {k \in Tokens : TokenOwner[k] \notin Tasks}
    /\ services \subseteq {s \in Services : ServiceOwner[s] \notin Tasks}
    /\ phase = "idle" /\ spared = {} /\ doomed = {}

-----------------------------------------------------------------------------
(* The tasks.                                                                 *)

TaskStarts(t) ==
    /\ status[t] = "absent"
    /\ status' = [status EXCEPT ![t] = "running"]
    /\ UNCHANGED << tokens, services, phase, spared, doomed >>

TaskIsTold(t) ==
    /\ status[t] = "running"
    /\ status' = [status EXCEPT ![t] = "stopping"]
    /\ spared' = spared \ {t}
    /\ UNCHANGED << tokens, services, phase, doomed >>

TaskEnds(t) ==
    /\ status[t] = "stopping"
    /\ status' = [status EXCEPT ![t] = "stopped"]
    /\ UNCHANGED << tokens, services, phase, spared, doomed >>

(* A task that has started and not ended adds what is its own, ...            *)
TaskAdds(t) ==
    /\ status[t] \in {"running", "stopping"}
    /\ \/ /\ \E k \in Tokens : TokenOwner[k] = t /\ tokens' = tokens \cup {k}
          /\ UNCHANGED services
       \/ /\ \E s \in Services : ServiceOwner[s] = t /\ services' = services \cup {s}
          /\ UNCHANGED tokens
    /\ UNCHANGED << status, phase, spared, doomed >>

(* ... and one told to stop takes it away again.                              *)
TaskRemoves(t) ==
    /\ status[t] = "stopping"
    /\ \/ /\ \E k \in tokens : TokenOwner[k] = t /\ tokens' = tokens \ {k}
          /\ UNCHANGED services
       \/ /\ \E s \in services : ServiceOwner[s] = t /\ services' = services \ {s}
          /\ UNCHANGED tokens
    /\ UNCHANGED << status, phase, spared, doomed >>

OperatorRemoves ==
    /\ \E s \in services : ServiceOwner[s] = Nobody /\ services' = services \ {s}
    /\ UNCHANGED << status, tokens, phase, spared, doomed >>

-----------------------------------------------------------------------------
(* The collector.                                                             *)

Look ==
    /\ phase = "idle"
    /\ phase' = "looking"
    /\ spared' = InStatus("running")
    /\ doomed' = InStatus("stopped")
    /\ UNCHANGED << status, tokens, services >>

Collectable(owner) == owner # Nobody /\ owner \notin spared

Collect ==
    /\ phase = "looking"
    /\ \/ /\ \E k \in tokens : Collectable(TokenOwner[k]) /\ tokens' = tokens \ {k}
          /\ UNCHANGED services
       \/ /\ \E s \in services : Collectable(ServiceOwner[s]) /\ services' = services \ {s}
          /\ UNCHANGED tokens
    /\ UNCHANGED << status, phase, spared, doomed >>

ReportClean ==
    /\ phase = "looking"
    /\ \A k \in tokens : TokenOwner[k] \notin Left
    /\ phase' = "clean"
    /\ UNCHANGED << status, tokens, services, spared, doomed >>

(* The cycle is over, reported or not, or the collector restarts.             *)
Rest ==
    /\ phase # "idle"
    /\ phase' = "idle" /\ spared' = {} /\ doomed' = {}
    /\ UNCHANGED << status, tokens, services >>

CollectorNext ==
    \/ \E t \in Tasks :
         TaskStarts(t) \/ TaskIsTold(t) \/ TaskEnds(t) \/ TaskAdds(t) \/ TaskRemoves(t)
    \/ OperatorRemoves
    \/ Look \/ Collect \/ ReportClean \/ Rest

CollectorSpec == CollectorInit /\ [][CollectorNext]_collectorVars

=============================================================================
