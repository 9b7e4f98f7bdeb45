---------------------------- MODULE HealthReporter ----------------------------
(***************************************************************************)
(* What health-sync promises to those who send traffic to the task, and to  *)
(* whoever cleans up after it: a check says what one look at the metadata   *)
(* showed; once ECS has asked the task to stop it reports no more and only  *)
(* withdraws, first from traffic, and from the catalog when the dataplane   *)
(* has ended; it ends cleanly when nothing of the task is left.  Caches,    *)
(* retries, servers that go away and the order of the calls are not part of *)
(* the promise, nor that any of this happens.                               *)
(***************************************************************************)
CONSTANTS
    Apps,        \* the containers whose health is reported
    Dataplane,   \* the dataplane's container, and the check of the service
    Sidecar,     \* the check of the sidecar proxy
    Checks,      \* the checks there are
    Vitals       \* what the metadata may say of a container

VARIABLES
    vital,       \* [container -> what the metadata says of it]
    stopped,     \* the dataplane's container is stopped
    seen,        \* the look at the metadata being reported, if any
    board,       \* [Checks -> status in Consul, or "gone"]
    listed,      \* services of the task in the catalog
    held,        \* the task's token exists
    stage,       \* where the reporter is
    term,        \* ECS has asked the task to stop
    released,    \* after that the dataplane was found stopped
    drained      \* the last withdrawal from traffic was complete

reporterVars == << vital, stopped, seen, board, listed, held, stage, term, released, drained >>
outside == << vital, stopped >>
entries == << board, listed, held >>
course == << term, released, drained >>

Passes(c, s) ==
    IF c \in Apps THEN s[c] = "HEALTHY"
    ELSE s[Dataplane] = "HEALTHY" /\ \A n \in Apps : s[n] \in {"HEALTHY", "missing"}

Verdict(c, s) == IF Passes(c, s) THEN "passing" ELSE "critical"

ChecksOf(svc) == IF svc = "proxy" THEN {Sidecar} ELSE Checks \ {Sidecar}

NonePasses(b) == \A c \in Checks : b[c] # "passing"

Ended == {"clean", "failed"}

ReporterInit ==
    /\ stopped = FALSE /\ seen = {}
    /\ board = [c \in Checks |-> "critical"]
    /\ stage = "reporting"
    /\ term = FALSE /\ released = FALSE /\ drained = FALSE

-----------------------------------------------------------------------------
(* The task and ECS.                                                          *)

HealthChanges ==
    /\ \E n \in Apps \cup {Dataplane}, h \in Vitals : vital' = [vital EXCEPT ![n] = h]
    /\ UNCHANGED << stopped, seen, entries, stage, course >>

ContainerStops ==
    /\ stopped' = TRUE
    /\ UNCHANGED << vital, seen, entries, stage, course >>

Fails ==
    /\ stage \notin Ended
    /\ stage' = "failed"
    /\ seen' = {} /\ released' = FALSE /\ drained' = FALSE

(* A reporter that does not listen yet is ended by the signal.                *)
AskToStop ==
    /\ term' = TRUE
    /\ \/ Fails
       \/ UNCHANGED << seen, stage, released, drained >>
    /\ UNCHANGED << outside, entries >>

-----------------------------------------------------------------------------
(* The reporter.                                                              *)

Observe ==
    /\ stage = "reporting" /\ seen = {}
    /\ seen' = {vital}
    /\ UNCHANGED << outside, entries, stage, course >>

(* A report may get lost; the last one of a look ends it.                     *)
Report ==
    /\ stage = "reporting"
    /\ \E s \in seen :
         \/ UNCHANGED board
         \/ \E c \in Checks :
              board[c] # "gone" /\ board' = [board EXCEPT ![c] = Verdict(c, s)]
    /\ seen' \in {seen, {}}
    /\ UNCHANGED << outside, listed, held, stage, course >>

StartDrain ==
    /\ stage \in {"reporting", "waiting"}
    /\ term /\ seen = {}
    /\ stage' = "draining" /\ drained' = FALSE
    /\ UNCHANGED << outside, seen, entries, term, released >>

Drain ==
    /\ stage = "draining"
    /\ \/ UNCHANGED board
       \/ \E c \in Checks : board[c] # "gone" /\ board' = [board EXCEPT ![c] = "critical"]
    /\ \/ UNCHANGED << stage, drained >>
       \/ stage' = "waiting" /\ drained' \in {FALSE, NonePasses(board')}
    /\ UNCHANGED << outside, seen, listed, held, term, released >>

SeeDataplaneEnd ==
    /\ term /\ stage \notin Ended
    /\ stopped \/ vital[Dataplane] = "missing"
    /\ released' = TRUE
    /\ UNCHANGED << outside, seen, entries, stage, term, drained >>

StartLeaving ==
    /\ stage \in {"reporting", "waiting"}
    /\ released /\ seen = {}
    /\ stage' = "leaving"
    /\ UNCHANGED << outside, seen, entries, course >>

Withdraw(svc) ==
    /\ stage = "leaving"
    /\ listed' = listed \ {svc}
    /\ board' = [c \in Checks |-> IF c \in ChecksOf(svc) THEN "gone" ELSE board[c]]
    /\ UNCHANGED << outside, seen, held, stage, course >>

LogOut ==
    /\ stage = "leaving"
    /\ held' = FALSE
    /\ UNCHANGED << outside, seen, board, listed, stage, course >>

Finish ==
    /\ \/ Fails
       \/ /\ stage = "leaving" /\ listed = {} /\ ~held
          /\ stage' = "clean"
          /\ released' = FALSE /\ drained' = FALSE /\ UNCHANGED seen
    /\ UNCHANGED << outside, entries, term >>

ReporterNext ==
    \/ HealthChanges \/ ContainerStops \/ AskToStop
    \/ Observe \/ Report \/ StartDrain \/ Drain \/ SeeDataplaneEnd \/ StartLeaving
    \/ \E svc \in {"service", "proxy"} : Withdraw(svc)
    \/ LogOut \/ Finish

ReporterSpec == ReporterInit /\ [][ReporterNext]_reporterVars

=============================================================================
