---------------------------- MODULE TaskShutdown -----------------------------
(***************************************************************************)
(* The shutdown of a task: app-entrypoint in its application container and  *)
(* envoy-entrypoint in its proxy container, which learns of the end of the  *)
(* first from the task metadata.  ECS signals the containers in any order.  *)
(***************************************************************************)
EXTENDS AppEntrypoint, EnvoyEntrypoint

CONSTANTS
    AppContainer,    \* the container of app-entrypoint
    ProxyContainer,  \* the container of envoy-entrypoint
    MaxTaskOthers    \* bound: SIGINTs and SIGURGs both get together

ASSUME TaskShutdownAssumption ==
    /\ AppContainer \in NormalType \ NonApp
    /\ ProxyContainer \in NonApp
    /\ MaxTaskOthers \in Nat

vars == << appVars, envoyVars >>

Init == AppInit /\ EnvoyInit

(* Containers whose first process has ended; other ones of the task stop as   *)
(* they like, those ECS injects outlive them.                                 *)
MayBeReported(c) ==
    /\ c = AppContainer => appPc \in Ended
    /\ c = ProxyContainer => envoyPc \in EnvoyEnded
    /\ c \in NormalType

ReportStopped ==
    /\ appTerms + envoyTerms > 0
    /\ \E c \in Containers : MayBeReported(c) /\ ContainerStopped(c)
    /\ UNCHANGED appVars

Next ==
    /\ \/ AppNext /\ UNCHANGED envoyVars
       \/ EnvoyNext /\ UNCHANGED appVars
       \/ ReportStopped
    /\ appOthers' + envoyOthers' <= MaxTaskOthers

Spec == Init /\ [][Next]_vars

EnvoyFairness ==
    /\ WF_envoyVars(EnvoyRun) /\ WF_envoyVars(EnvoyBegin) /\ WF_envoyVars(EnvoyStarted)
    /\ WF_envoyVars(EnvoyDone) /\ WF_envoyVars(HandleSignal)
    /\ WF_envoyVars(EnvoyMonitorDone) /\ WF_envoyVars(EnvoyCleanup)
    /\ WF_envoyVars(EnvoyAwaitMonitor) /\ WF_envoyVars(EnvoyAwaitDone)
    /\ WF_envoyVars(MonitorStep)
    /\ WF_envoyVars("TERM" \in envoy.got /\ EnvoyChildExits)

(* Both entrypoints run, and the agent reports what has stopped.              *)
FairSpec == Spec /\ AppFairness /\ EnvoyFairness /\ WF_vars(ReportStopped)

-----------------------------------------------------------------------------
(* Properties.                                                                *)

TypeOK == AppTypeOK /\ EnvoyTypeOK

(* What ShutdownOrder sees of the container c.                                *)
Both == {AppContainer, ProxyContainer}
Cmd(c) == IF c = AppContainer THEN app ELSE envoy
Up(c) == IF c = AppContainer THEN appPc \notin Ended ELSE envoyPc \notin EnvoyEnded
Asked(c) == IF c = AppContainer THEN appTerms > 0 ELSE envoyTerms > 0
Told(c) == Up(c) /\ "TERM" \in Cmd(c).got

Life(c) ==
    CASE Cmd(c).child = "none" -> "none"
      [] Cmd(c).child = "running" -> "running"
      [] OTHER -> "gone"

Order == INSTANCE ShutdownOrder WITH
    App <- AppContainer,
    Proxy <- ProxyContainer,
    life <- [c \in Both |-> Life(c)],
    asked <- {c \in Both : Asked(c)},
    told <- {c \in Both : Told(c)},
    ended <- {c \in Both : ~Up(c)}

(* The two entrypoints with their channels, timers and goroutines implement   *)
(* the order of shutdown: no command is told early or left running.           *)
KeepsOrder == Order!OrderSpec

(* Once the monitor has a SIGTERM and app-entrypoint another, with a shutdown *)
(* delay, both containers end by themselves: the application after the delay, *)
(* the proxy after the application.                                           *)
ShutdownCompletes ==
    (appDelay /\ appPc = "waitForSigterm" /\ appSigs = "TERM" /\ monitor = "polling") ~>
        (appPc \in Ended /\ envoyPc \in EnvoyEnded)

(* A proxy that ends on its own ends its entrypoint, cancelled monitor and    *)
(* all, whether or not SIGTERM has come.                                      *)
ProxyEndEndsEntrypoint ==
    envoy.child = "exited" ~> envoyPc \in EnvoyEnded

(* The proxy gets SIGTERM only after the end of the application container and *)
(* when every other application of the task has stopped too, sidecars that    *)
(* ECS injects and the containers of the mesh aside.                          *)
ProxyAfterApplication ==
    "TERM" \in envoy.got =>
        /\ appPc \in Ended
        /\ \A c \in Containers : IsApplication(c) => c \in metaStopped

(* No receive waits for a value nobody will send.  A start that failed, and   *)
(* one whose value is taken already, are told by Run's closes; and what the   *)
(* cleanup of either entrypoint waits for comes without any further signal,   *)
(* poll of the metadata or end of a process: from a Run that has only its     *)
(* closes left, and from a monitor that has been cancelled, wherever that was *)
(* in its own wait.                                                           *)
NeverWaitsInVain ==
    /\ appPc = "starting" => Ready(app.started) \/ app.run \in {"spawned", "closing"}
    /\ appPc \in AppLoops => Ready(app.done) \/ app.run \in {"waiting", "closing"}
    /\ appPc \in {"cleanup", "stopped"} => Ready(app.done) \/ app.run = "closing"
    /\ envoyPc = "starting" => Ready(envoy.started) \/ envoy.run \in {"spawned", "closing"}
    /\ envoyPc = "loop" => Ready(envoy.done) \/ envoy.run \in {"waiting", "closing"}
    /\ envoyPc \in {"cleanup", "awaitMonitor", "awaitEnvoy"} =>
         Ready(envoy.done) \/ envoy.run = "closing"
    /\ envoyPc = "awaitMonitor" =>
         \/ Ready(monitorDone)
         \/ cancelled /\ monitor \in {"spawned", "armed", "polling", "closing"}

=============================================================================
