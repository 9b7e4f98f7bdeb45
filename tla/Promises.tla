------------------------------- MODULE Promises -------------------------------
(* What the three abstract specifications promise, as invariants and action   *)
(* properties of them: what holds of them holds, through the refinements, of  *)
(* the programs that implement them.                                          *)
EXTENDS LeftoverCollector, ShutdownOrder, HealthReporter, TLAPS

-----------------------------------------------------------------------------
(* LeftoverCollector.                                                         *)

CollectorType ==
    /\ status \in [Tasks -> {"absent", "running", "stopping", "stopped"}]
    /\ phase \in {"idle", "looking", "clean"}

(* The two lists the cycle goes by stay true while it works.                  *)
ListsHold == spared \subseteq InStatus("running") /\ doomed \subseteq InStatus("stopped")

CleanMeansNone == phase = "clean" => \A k \in tokens : TokenOwner[k] \notin Left

LEMMA CollectorStep ==
    ASSUME Tasks \cap Others = {}, CollectorType, ListsHold, CleanMeansNone,
           [CollectorNext]_collectorVars
    PROVE  CollectorType' /\ ListsHold' /\ CleanMeansNone'
<1> USE DEF CollectorType, ListsHold, CleanMeansNone, InStatus, Left
<1>1. ASSUME NEW t \in Tasks, TaskStarts(t) \/ TaskIsTold(t) \/ TaskEnds(t)
      PROVE  CollectorType' /\ ListsHold' /\ CleanMeansNone'
    BY <1>1 DEF TaskStarts, TaskIsTold, TaskEnds
<1>2. ASSUME NEW t \in Tasks, TaskAdds(t)
      PROVE  CollectorType' /\ ListsHold' /\ CleanMeansNone'
    <2>1. t \notin doomed \cup Others
        BY <1>2 DEF TaskAdds
    <2>2. \A k \in tokens' : k \in tokens \/ TokenOwner[k] = t
        BY <1>2 DEF TaskAdds
    <2> QED
        BY <1>2, <2>1, <2>2 DEF TaskAdds
<1>3. ASSUME NEW t \in Tasks, TaskRemoves(t)
      PROVE  CollectorType' /\ ListsHold' /\ CleanMeansNone'
    BY <1>3 DEF TaskRemoves
<1>4. CASE OperatorRemoves \/ Look \/ Collect \/ ReportClean \/ Rest
    BY <1>4 DEF OperatorRemoves, Look, Collect, ReportClean, Rest
<1>5. CASE UNCHANGED collectorVars
    BY <1>5 DEF collectorVars
<1> QED
    BY <1>1, <1>2, <1>3, <1>4, <1>5 DEF CollectorNext

LEMMA CollectorInvariant ==
    ASSUME Tasks \cap Others = {}
    PROVE  CollectorSpec => [](CollectorType /\ ListsHold /\ CleanMeansNone)
<1>1. CollectorInit => CollectorType /\ ListsHold /\ CleanMeansNone
    BY DEF CollectorInit, CollectorType, ListsHold, CleanMeansNone, InStatus
<1>2. CollectorType /\ ListsHold /\ CleanMeansNone /\ [CollectorNext]_collectorVars =>
        CollectorType' /\ ListsHold' /\ CleanMeansNone'
    BY CollectorStep
<1> QED
    BY <1>1, <1>2, PTL DEF CollectorSpec

(* As long as a cycle's clean report stands, whoever starts, logs in or stops *)
(* meanwhile, no token is left of a task that had ended when the cycle looked *)
(* or of an owner that is none of the cluster's tasks.                        *)
THEOREM CleanReportIsTrue ==
    ASSUME Tasks \cap Others = {}
    PROVE  CollectorSpec => []CleanMeansNone
BY CollectorInvariant, PTL

KeepsSpared ==
    /\ \A k \in tokens \ tokens' : TokenOwner[k] \notin spared
    /\ \A s \in services \ services' : ServiceOwner[s] \notin spared

(* A task that has been running since the cycle looked loses nothing, to the  *)
(* collector or to anybody else.                                              *)
THEOREM SparedKeepTheirs ==
    ASSUME Tasks \cap Others = {}, Nobody \notin Tasks
    PROVE  CollectorSpec => [][KeepsSpared]_collectorVars
<1>1. ASSUME CollectorType, ListsHold, [CollectorNext]_collectorVars
      PROVE  [KeepsSpared]_collectorVars
    <2> USE DEF CollectorType, ListsHold, InStatus, KeepsSpared
    <2>1. ASSUME NEW t \in Tasks, TaskStarts(t) \/ TaskIsTold(t) \/ TaskEnds(t) \/ TaskAdds(t)
          PROVE  KeepsSpared
        BY <2>1 DEF TaskStarts, TaskIsTold, TaskEnds, TaskAdds
    <2>2. ASSUME NEW t \in Tasks, TaskRemoves(t)
          PROVE  KeepsSpared
        <3>1. t \notin spared
            BY <1>1, <2>2 DEF TaskRemoves
        <3> QED
            BY <2>2, <3>1 DEF TaskRemoves
    <2>3. CASE OperatorRemoves
        <3>1. Nobody \notin spared
            BY <1>1
        <3> QED
            BY <2>3, <3>1 DEF OperatorRemoves
    <2>4. CASE Collect
        BY <2>4 DEF Collect, Collectable
    <2>5. CASE Look \/ ReportClean \/ Rest
        BY <2>5 DEF Look, ReportClean, Rest
    <2> QED
        BY <1>1, <2>1, <2>2, <2>3, <2>4, <2>5 DEF CollectorNext
<1> QED
    BY <1>1, CollectorInvariant, PTL DEF CollectorSpec

-----------------------------------------------------------------------------
(* ShutdownOrder.                                                             *)

OrderType == life \in [Both -> {"none", "running", "gone"}]

(* A command has a SIGTERM only while its container runs and after ECS has    *)
(* asked it to stop, the proxy's only after the application has ended; and no *)
(* command runs in a container that has ended.                                *)
InOrder ==
    /\ told \subseteq asked \ ended
    /\ Proxy \in told => App \in ended
    /\ \A c \in Both \cap ended : life[c] # "running"

(* The order of the end of a task, at any of its moments.                     *)
THEOREM OrderPromise == OrderSpec => []InOrder
<1>1. OrderInit => OrderType /\ InOrder
    BY DEF OrderInit, OrderType, InOrder
<1>2. ASSUME OrderType, InOrder, [OrderNext]_orderVars
      PROVE  OrderType' /\ InOrder'
    <2> USE DEF OrderType, InOrder
    <2>1. ASSUME NEW c \in Both, CommandStarts(c) \/ CommandEnds(c) \/ Tell(c)
          PROVE  OrderType' /\ InOrder'
        BY <1>2, <2>1 DEF CommandStarts, CommandEnds, Tell, MayBeTold
    <2>2. ASSUME NEW c \in Both, Leave(c) \/ Ask(c) \/ KillContainer(c)
          PROVE  OrderType' /\ InOrder'
        BY <1>2, <2>2 DEF Leave, Ask, KillContainer, End
    <2>3. CASE UNCHANGED orderVars
        BY <1>2, <2>3 DEF orderVars
    <2> QED
        BY <1>2, <2>1, <2>2, <2>3 DEF OrderNext
<1> QED
    BY <1>1, <1>2, PTL DEF OrderSpec

-----------------------------------------------------------------------------
(* HealthReporter.                                                            *)

ReporterType ==
    /\ stage \in {"reporting", "draining", "waiting", "leaving"} \cup Ended
    /\ term \in BOOLEAN /\ released \in BOOLEAN /\ drained \in BOOLEAN
    /\ DOMAIN board = Checks

(* Reports end when the withdrawal begins, and that begins only after ECS has *)
(* asked for it, the one from the catalog only after the dataplane has ended. *)
Withdrawal ==
    /\ stage \in {"draining", "waiting"} => term
    /\ released => term
    /\ stage = "leaving" => released
    /\ drained => stage \in {"waiting", "leaving"} /\ NonePasses(board)
    /\ stage = "clean" => listed = {} /\ ~held

LEMMA ReporterStep ==
    ASSUME ReporterType, Withdrawal, [ReporterNext]_reporterVars
    PROVE  ReporterType' /\ Withdrawal'
<1> USE DEF ReporterType, Withdrawal, Ended, outside, entries, course
<1>1. CASE HealthChanges \/ ContainerStops \/ Observe
    BY <1>1 DEF HealthChanges, ContainerStops, Observe, NonePasses
<1>2. CASE AskToStop
    <2>1. term' = TRUE /\ UNCHANGED << board, listed, held >>
        BY <1>2 DEF AskToStop
    <2>2. CASE Fails
        BY <2>1, <2>2 DEF Fails
    <2>3. CASE UNCHANGED << stage, released, drained >>
        BY <2>1, <2>3
    <2> QED
        BY <1>2, <2>2, <2>3 DEF AskToStop
<1>3. CASE Report
    <2>1. ~drained /\ DOMAIN board' = Checks
        BY <1>3 DEF Report
    <2> QED
        BY <1>3, <2>1 DEF Report
<1>4. CASE StartDrain \/ SeeDataplaneEnd \/ StartLeaving
    <2>1. CASE StartDrain
        BY <2>1 DEF StartDrain
    <2>2. CASE SeeDataplaneEnd
        BY <2>2 DEF SeeDataplaneEnd
    <2>3. CASE StartLeaving
        BY <2>3 DEF StartLeaving
    <2> QED
        BY <1>4, <2>1, <2>2, <2>3
<1>5. CASE Drain
    <2>1. ~drained /\ DOMAIN board' = Checks
        BY <1>5 DEF Drain
    <2>2. CASE UNCHANGED << stage, drained >>
        BY <1>5, <2>1, <2>2 DEF Drain
    <2>3. CASE stage' = "waiting" /\ drained' \in {FALSE, NonePasses(board')}
        <3>1. drained' => NonePasses(board')
            BY <2>3
        <3>2. drained' \in BOOLEAN
            BY <2>3 DEF NonePasses
        <3>3. UNCHANGED << term, released, listed, held >> /\ term
            BY <1>5 DEF Drain
        <3> QED
            BY <2>1, <2>3, <3>1, <3>2, <3>3 DEF NonePasses
    <2> QED
        BY <1>5, <2>2, <2>3 DEF Drain
<1>6. ASSUME NEW svc \in {"service", "proxy"}, Withdraw(svc)
      PROVE  ReporterType' /\ Withdrawal'
    <2>1. \A c \in Checks : board'[c] = "passing" => board[c] = "passing"
        BY <1>6 DEF Withdraw
    <2> QED
        BY <1>6, <2>1 DEF Withdraw, NonePasses
<1>7. CASE LogOut \/ Finish
    <2>1. CASE LogOut
        BY <2>1 DEF LogOut
    <2>2. CASE Finish /\ Fails
        BY <2>2 DEF Finish, Fails
    <2>3. CASE Finish /\ ~Fails
        BY <2>3 DEF Finish
    <2> QED
        BY <1>7, <2>1, <2>2, <2>3
<1>8. CASE UNCHANGED reporterVars
    BY <1>8 DEF reporterVars, NonePasses
<1> QED
    BY <1>1, <1>2, <1>3, <1>4, <1>5, <1>6, <1>7, <1>8 DEF ReporterNext

LEMMA ReporterInvariant == ReporterSpec => [](ReporterType /\ Withdrawal)
<1>1. ReporterInit => ReporterType /\ Withdrawal
    BY DEF ReporterInit, ReporterType, Withdrawal, Ended
<1> QED
    BY <1>1, ReporterStep, PTL DEF ReporterSpec

(* Whatever reports get lost: leaving the catalog begins only after the       *)
(* dataplane was found stopped, a withdrawal from traffic that says it was    *)
(* complete was and stays so, and a clean end means that nothing is left.     *)
THEOREM ReporterPromise == ReporterSpec => []Withdrawal
BY ReporterInvariant, PTL

NoneRemoved == \A c \in Checks : board[c] # "gone" => board'[c] # "gone"

(* What a step takes from the catalog, or from the task's login, it takes     *)
(* after ECS has asked the task to stop and its dataplane was found stopped.  *)
KeepsEntries ==
    \/ listed' = listed /\ held' = held /\ NoneRemoved
    \/ term /\ released

(* At every stage before, and after a failure, the task stays in the catalog  *)
(* with its checks and keeps its token.                                       *)
THEOREM EntriesStay == ReporterSpec => [][KeepsEntries]_reporterVars
<1>1. ASSUME ReporterType, Withdrawal, [ReporterNext]_reporterVars
      PROVE  [KeepsEntries]_reporterVars
    <2> USE DEF ReporterType, KeepsEntries, NoneRemoved, outside, entries, course
    <2>1. ASSUME NEW svc \in {"service", "proxy"}, Withdraw(svc)
          PROVE  KeepsEntries
        BY <1>1, <2>1 DEF Withdraw, Withdrawal, Ended
    <2>2. CASE LogOut
        BY <1>1, <2>2 DEF LogOut, Withdrawal, Ended
    <2>3. CASE Report
        BY <1>1, <2>3 DEF Report, Verdict
    <2>4. CASE Drain
        BY <1>1, <2>4 DEF Drain
    <2>5. CASE \/ HealthChanges \/ ContainerStops \/ AskToStop \/ Observe \/ StartDrain
              \/ SeeDataplaneEnd \/ StartLeaving \/ Finish
        BY <2>5 DEF HealthChanges, ContainerStops, AskToStop, Observe, StartDrain,
                    SeeDataplaneEnd, StartLeaving, Finish
    <2> QED
        BY <1>1, <2>1, <2>2, <2>3, <2>4, <2>5 DEF ReporterNext
<1> QED
    BY <1>1, ReporterInvariant, PTL DEF ReporterSpec

(* A check that passes has been shown to: it starts passing when the one look *)
(* being reported says so, and never after SIGTERM has been taken.            *)
ShownToPass ==
    \A c \in Checks : board[c] # "passing" /\ board'[c] = "passing" =>
        /\ stage = "reporting" /\ board[c] # "gone"
        /\ \E s \in seen : Passes(c, s)

(* Every step of the reporter that makes a check pass is such a report.        *)
THEOREM PassesAsSeen == ReporterSpec => [][ShownToPass]_reporterVars
<1>1. ASSUME ReporterType, [ReporterNext]_reporterVars
      PROVE  [ShownToPass]_reporterVars
    <2> USE DEF ReporterType, ShownToPass, outside, entries, course
    <2>1. CASE Report
        <3>1. PICK s \in seen :
                \/ UNCHANGED board
                \/ \E c \in Checks :
                     board[c] # "gone" /\ board' = [board EXCEPT ![c] = Verdict(c, s)]
            BY <2>1 DEF Report
        <3>2. stage = "reporting"
            BY <2>1 DEF Report
        <3>3. CASE UNCHANGED board
            BY <3>3
        <3>4. ASSUME NEW c \in Checks, board[c] # "gone",
                     board' = [board EXCEPT ![c] = Verdict(c, s)]
              PROVE  ShownToPass
            BY <1>1, <3>2, <3>4 DEF Verdict
        <3> QED
            BY <3>1, <3>3, <3>4
    <2>2. CASE Drain
        BY <1>1, <2>2 DEF Drain
    <2>3. ASSUME NEW svc \in {"service", "proxy"}, Withdraw(svc)
          PROVE  ShownToPass
        BY <2>3 DEF Withdraw
    <2>4. CASE ~(Report \/ Drain \/ \E svc \in {"service", "proxy"} : Withdraw(svc))
        <3>1. board' = board
            BY <1>1, <2>4
               DEF ReporterNext, HealthChanges, ContainerStops, AskToStop, Observe, StartDrain,
                   SeeDataplaneEnd, StartLeaving, LogOut, Finish, reporterVars
        <3> QED
            BY <3>1
    <2> QED
        BY <2>1, <2>2, <2>3, <2>4
<1> QED
    BY <1>1, ReporterInvariant, PTL DEF ReporterSpec
===============================================================================
