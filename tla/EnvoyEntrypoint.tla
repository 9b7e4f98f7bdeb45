--------------------------- MODULE EnvoyEntrypoint ---------------------------
(***************************************************************************)
(* envoy-entrypoint, the first process of the proxy's container: it runs    *)
(* the proxy and does not pass SIGTERM on.  After a SIGTERM its             *)
(* AppContainerMonitor polls the task metadata, and when the application    *)
(* containers have stopped the proxy gets the SIGTERM.                      *)
(***************************************************************************)
EXTENDS EntrypointCmd

CONSTANTS
    Containers,      \* containers of the task
    NormalType,      \* those not injected by ECS
    NonApp,          \* nonAppContainers
    MaxProxyTerms,   \* bound: SIGTERMs sent to the proxy's container
    MaxProxyOthers   \* bound: SIGINTs and SIGURGs it gets

ASSUME EnvoyEntrypointAssumption ==
    /\ NormalType \subseteq Containers
    /\ MaxProxyTerms \in Nat /\ MaxProxyOthers \in Nat

VARIABLES
    metaStopped,  \* containers that are STOPPED in the task metadata
    envoyPc,      \* where realRun is
    envoy,        \* c.envoyCmd
    envoySigs,    \* c.sigs
    envoyCode,    \* what realRun returns
    monitor,      \* where the AppContainerMonitor goroutine is
    monitorDone,  \* its doneCh
    cancelled,    \* c.cancel() has been called
    envoyTerms, envoyOthers   \* signals sent so far

envoyVars == << metaStopped, envoyPc, envoy, envoySigs, envoyCode, monitor, monitorDone,
                cancelled, envoyTerms, envoyOthers >>
envoyCounters == << envoyTerms, envoyOthers >>
monitorVars == << monitor, monitorDone >>

EnvoyEnded == {"exited", "killed"}

IsApplication(c) == c \in NormalType /\ c \notin NonApp

(* Variant: one stopped application is enough.                                *)
AnyAppContainerStopped == \E c \in Containers : IsApplication(c) /\ c \in metaStopped

AllAppContainersStopped == \A c \in Containers : IsApplication(c) => c \in metaStopped

EnvoyInit ==
    /\ metaStopped = {}
    /\ envoyPc = "start" /\ envoy = NewCmd
    /\ envoySigs = "none" /\ envoyCode = "none"
    /\ monitor = "new" /\ monitorDone = NewChan /\ cancelled = FALSE
    /\ envoyTerms = 0 /\ envoyOthers = 0

(* The agent reports a container STOPPED.                                     *)
ContainerStopped(c) ==
    /\ c \in Containers \ metaStopped
    /\ metaStopped' = metaStopped \cup {c}
    /\ UNCHANGED << envoyPc, envoy, envoySigs, envoyCode, monitorVars, cancelled,
                    envoyCounters >>

-----------------------------------------------------------------------------
(* Signals to the process: realRun subscribes to all of them from Notify to   *)
(* Stop, the monitor to SIGTERM while it waits for one.                       *)

EnvoyKilled ==
    /\ envoyPc' = "killed" /\ envoy' = KilledCmd(envoy)
    /\ envoySigs' = "none" /\ monitor' = "finished"
    /\ UNCHANGED << metaStopped, envoyCode, monitorDone, cancelled >>

EnvoySubscribes == envoyPc \in {"starting", "loop", "cleanup"}

EnvoyTerm ==
    /\ envoyPc \notin EnvoyEnded
    /\ envoyTerms < MaxProxyTerms /\ envoyTerms' = envoyTerms + 1
    /\ IF ~EnvoySubscribes /\ monitor # "armed"
         THEN EnvoyKilled
         ELSE /\ envoySigs' = IF EnvoySubscribes THEN Delivered(envoySigs, "TERM") ELSE envoySigs
              /\ monitor' = IF monitor = "armed" THEN "polling" ELSE monitor
              /\ UNCHANGED << metaStopped, envoyPc, envoy, envoyCode, monitorDone, cancelled >>
    /\ UNCHANGED envoyOthers

EnvoyOther ==
    /\ envoyPc \notin EnvoyEnded
    /\ envoyOthers < MaxProxyOthers /\ envoyOthers' = envoyOthers + 1
    /\ \E s \in {"INT", "URG"} :
         IF ~EnvoySubscribes /\ s = "INT"
         THEN EnvoyKilled
         ELSE /\ envoySigs' = IF EnvoySubscribes THEN Delivered(envoySigs, s) ELSE envoySigs
              /\ UNCHANGED << metaStopped, envoyPc, envoy, envoyCode, monitorVars, cancelled >>
    /\ UNCHANGED envoyTerms

EnvoyKill ==
    /\ envoyTerms > 0 /\ envoyPc \notin EnvoyEnded
    /\ EnvoyKilled
    /\ UNCHANGED envoyCounters

EnvoyChildExits ==
    /\ envoyPc \notin EnvoyEnded
    /\ ChildExit(envoy, envoy')
    /\ envoySigs' = IF EnvoySubscribes THEN Delivered(envoySigs, "CHLD") ELSE envoySigs
    /\ UNCHANGED << metaStopped, envoyPc, envoyCode, monitorVars, cancelled, envoyCounters >>

-----------------------------------------------------------------------------
(* The AppContainerMonitor goroutine.                                         *)

envoyRest == << metaStopped, envoyPc, envoy, envoySigs, envoyCode, cancelled, envoyTerms,
                envoyOthers >>

MonitorNotify ==
    /\ monitor = "spawned"
    /\ monitor' = "armed"
    /\ UNCHANGED << envoyRest, monitorDone >>

(* Cancelled before SIGTERM: Done still gets a value.                         *)
MonitorCancelled ==
    /\ monitor = "armed" /\ cancelled
    /\ monitor' = "closing" /\ monitorDone' = Sent(monitorDone)
    /\ UNCHANGED envoyRest

(* A failed metadata fetch, or an application still running, waits a second   *)
(* more.                                                                      *)
MonitorPoll ==
    /\ monitor = "polling" /\ AllAppContainersStopped
    /\ monitor' = "closing" /\ monitorDone' = Sent(monitorDone)
    /\ UNCHANGED envoyRest

MonitorQuits ==
    /\ monitor = "polling" /\ cancelled
    /\ monitor' = "closing"
    /\ UNCHANGED << envoyRest, monitorDone >>

MonitorCloses ==
    /\ monitor = "closing"
    /\ monitor' = "finished" /\ monitorDone' = Closed(monitorDone)
    /\ UNCHANGED envoyRest

-----------------------------------------------------------------------------
(* c.envoyCmd.Run                                                             *)
EnvoyRun ==
    /\ envoyPc \notin EnvoyEnded
    /\ CmdRun(envoy, envoy')
    /\ UNCHANGED << metaStopped, envoyPc, envoySigs, envoyCode, monitorVars, cancelled,
                    envoyCounters >>

(* realRun: Notify, go envoyCmd.Run, go appMonitor.Run.                       *)
EnvoyBegin ==
    /\ envoyPc = "start"
    /\ envoyPc' = "starting"
    /\ envoy' = [envoy EXCEPT !.run = "spawned"]
    /\ monitor' = "spawned"
    /\ UNCHANGED << metaStopped, envoySigs, envoyCode, monitorDone, cancelled, envoyCounters >>

EnvoyStarted ==
    /\ envoyPc = "starting"
    /\ Ready(envoy.started)
    /\ envoy' = [envoy EXCEPT !.started = Received(@)]
    /\ IF envoy.started.val
         THEN envoyPc' = "loop" /\ UNCHANGED envoyCode
         ELSE envoyPc' = "cleanup" /\ envoyCode' = "failed"
    /\ UNCHANGED << metaStopped, envoySigs, monitorVars, cancelled, envoyCounters >>

EnvoyDone ==
    /\ envoyPc = "loop"
    /\ Ready(envoy.done)
    /\ envoy' = [envoy EXCEPT !.done = Received(@)]
    /\ envoyCode' = envoy.code
    /\ envoyPc' = "cleanup"
    /\ UNCHANGED << metaStopped, envoySigs, monitorVars, cancelled, envoyCounters >>

(* Variant: every signal is forwarded.                                        *)
HandleSignalAny ==
    /\ envoyPc = "loop"
    /\ envoySigs # "none"
    /\ envoySigs' = "none"
    /\ envoy' = Signalled(envoy, envoySigs)
    /\ UNCHANGED << metaStopped, envoyPc, envoyCode, monitorVars, cancelled, envoyCounters >>

HandleSignal ==
    /\ envoyPc = "loop"
    /\ envoySigs # "none"
    /\ envoySigs' = "none"
    /\ envoy' = IF envoySigs \in {"TERM", "CHLD", "URG"} THEN envoy
                ELSE Signalled(envoy, envoySigs)
    /\ UNCHANGED << metaStopped, envoyPc, envoyCode, monitorVars, cancelled, envoyCounters >>

(* The applications have stopped; once the value is taken the closed channel  *)
(* is received from again and again, without effect.                          *)
EnvoyMonitorDone ==
    /\ envoyPc = "loop"
    /\ monitorDone.val
    /\ monitorDone' = Received(monitorDone)
    /\ envoy' = Signalled(envoy, "TERM")
    /\ UNCHANGED << metaStopped, envoyPc, envoySigs, envoyCode, monitor, cancelled,
                    envoyCounters >>

(* Variant: the monitor is not cancelled.                                     *)
EnvoyCleanupWithoutCancel ==
    /\ envoyPc = "cleanup"
    /\ envoyPc' = "awaitMonitor"
    /\ envoySigs' = "none"
    /\ UNCHANGED << metaStopped, envoy, envoyCode, monitorVars, cancelled, envoyCounters >>

(* cleanup: signal.Stop, cancel, then <-appMonitor.Done(), <-envoyCmd.Done(). *)
EnvoyCleanup ==
    /\ envoyPc = "cleanup"
    /\ envoyPc' = "awaitMonitor"
    /\ envoySigs' = "none"
    /\ cancelled' = TRUE
    /\ UNCHANGED << metaStopped, envoy, envoyCode, monitorVars, envoyCounters >>

(* Variant: the monitor is cancelled but not awaited.                         *)
EnvoyAwaitMonitorNot ==
    /\ envoyPc = "awaitMonitor"
    /\ envoyPc' = "awaitEnvoy"
    /\ UNCHANGED << metaStopped, envoy, envoySigs, envoyCode, monitorVars, cancelled,
                    envoyCounters >>

EnvoyAwaitMonitor ==
    /\ envoyPc = "awaitMonitor"
    /\ Ready(monitorDone)
    /\ monitorDone' = Received(monitorDone)
    /\ envoyPc' = "awaitEnvoy"
    /\ UNCHANGED << metaStopped, envoy, envoySigs, envoyCode, monitor, cancelled, envoyCounters >>

EnvoyAwaitDone ==
    /\ envoyPc = "awaitEnvoy"
    /\ Ready(envoy.done)
    /\ envoy' = [envoy EXCEPT !.done = Received(@)]
    /\ envoyPc' = "exited"
    /\ UNCHANGED << metaStopped, envoySigs, envoyCode, monitorVars, cancelled, envoyCounters >>

MonitorStep ==
    /\ envoyPc \notin EnvoyEnded
    /\ MonitorNotify \/ MonitorCancelled \/ MonitorPoll \/ MonitorQuits \/ MonitorCloses

EnvoyStep ==
    \/ EnvoyRun \/ EnvoyBegin \/ EnvoyStarted \/ EnvoyDone \/ HandleSignal \/ EnvoyMonitorDone
    \/ EnvoyCleanup \/ EnvoyAwaitMonitor \/ EnvoyAwaitDone

EnvoyNext ==
    \/ EnvoyTerm \/ EnvoyOther \/ EnvoyKill \/ EnvoyChildExits
    \/ MonitorStep \/ EnvoyStep

-----------------------------------------------------------------------------
(* Properties.                                                                *)

EnvoyTypeOK ==
    /\ metaStopped \subseteq Containers
    /\ envoyPc \in {"start", "starting", "loop", "cleanup", "awaitMonitor", "awaitEnvoy"}
                     \cup EnvoyEnded
    /\ envoy \in Cmds
    /\ envoySigs \in {"none"} \cup Signals
    /\ envoyCode \in {"none", "failed"} \cup ExitCodes
    /\ monitor \in {"new", "spawned", "armed", "polling", "closing", "finished"}
    /\ monitorDone \in Chans
    /\ cancelled \in BOOLEAN
    /\ envoyTerms \in 0..MaxProxyTerms /\ envoyOthers \in 0..MaxProxyOthers

(* envoy-entrypoint ends by itself only when its monitor polls no more and    *)
(* the proxy has been reaped, with its code, or could not be started.         *)
ExitsWithProxy ==
    envoyPc = "exited" =>
        /\ monitor \in {"closing", "finished"}
        /\ \/ envoy.child = "reaped" /\ envoyCode = envoy.code
           \/ envoy.child = "none" /\ envoyCode = "failed"

=============================================================================
