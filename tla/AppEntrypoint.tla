---------------------------- MODULE AppEntrypoint ----------------------------
(***************************************************************************)
(* app-entrypoint, the first process of an application container: it runs   *)
(* the application and, when ECS sends SIGTERM, keeps it running for the    *)
(* shutdown delay before it sends the SIGTERM on.                           *)
(***************************************************************************)
EXTENDS EntrypointCmd

CONSTANTS
    MaxTerms,   \* bound: SIGTERMs sent to one container
    MaxOthers   \* bound: SIGINTs and SIGURGs one container gets

ASSUME EntrypointAssumption == MaxTerms \in Nat /\ MaxOthers \in Nat

VARIABLES
    appDelay,  \* c.shutdownDelay > 0
    appPc,     \* where realRun is
    app,       \* c.appCmd
    appSigs,   \* c.sigs
    appTimer,  \* the timer of waitForShutdownDelay
    appCode,   \* what realRun returns
    appTerms, appOthers   \* signals sent so far

appVars == << appDelay, appPc, app, appSigs, appTimer, appCode, appTerms, appOthers >>
appCounters == << appTerms, appOthers >>

AppLoops == {"waitForSigterm", "waitForShutdownDelay", "waitForAppExit"}
Ended == {"exited", "killed"}

AppInit ==
    /\ appDelay \in BOOLEAN
    /\ appPc = "start" /\ app = NewCmd
    /\ appSigs = "none" /\ appTimer = "off" /\ appCode = "none"
    /\ appTerms = 0 /\ appOthers = 0

-----------------------------------------------------------------------------
(* Signals to the process.  SIGTERM and SIGINT end it while it subscribes to  *)
(* none: before Notify and after Stop.                                        *)

AppKilled ==
    /\ appPc' = "killed" /\ app' = KilledCmd(app)
    /\ appSigs' = "none" /\ appTimer' = "off"
    /\ UNCHANGED << appDelay, appCode >>

AppGets(s) ==
    /\ appPc \notin Ended
    /\ IF appPc \in {"start", "stopped"}
         THEN IF s \in {"TERM", "INT"} THEN AppKilled
              ELSE UNCHANGED << appDelay, appPc, app, appSigs, appTimer, appCode >>
         ELSE /\ appSigs' = Delivered(appSigs, s)
              /\ UNCHANGED << appDelay, appPc, app, appTimer, appCode >>

AppTerm ==
    /\ appTerms < MaxTerms /\ appTerms' = appTerms + 1
    /\ AppGets("TERM")
    /\ UNCHANGED appOthers

(* The Go runtime sends itself SIGURG to preempt goroutines.                  *)
AppOther ==
    /\ appOthers < MaxOthers /\ appOthers' = appOthers + 1
    /\ \E s \in {"INT", "URG"} : AppGets(s)
    /\ UNCHANGED appTerms

(* SIGKILL when the stop timeout expires.                                     *)
AppKill ==
    /\ appTerms > 0 /\ appPc \notin Ended
    /\ AppKilled
    /\ UNCHANGED appCounters

AppChildExits ==
    /\ appPc \notin Ended
    /\ ChildExit(app, app')
    /\ appSigs' = IF appPc = "stopped" THEN appSigs ELSE Delivered(appSigs, "CHLD")
    /\ UNCHANGED << appDelay, appPc, appTimer, appCode, appCounters >>

-----------------------------------------------------------------------------
(* c.appCmd.Run                                                               *)
AppRun ==
    /\ appPc \notin Ended
    /\ CmdRun(app, app')
    /\ UNCHANGED << appDelay, appPc, appSigs, appTimer, appCode, appCounters >>

(* realRun: Notify, go Run.                                                   *)
AppBegin ==
    /\ appPc = "start"
    /\ appPc' = "starting"
    /\ app' = [app EXCEPT !.run = "spawned"]
    /\ UNCHANGED << appDelay, appSigs, appTimer, appCode, appCounters >>

(* <-Started(); a closed channel is a failed start.                           *)
AppStarted ==
    /\ appPc = "starting"
    /\ Ready(app.started)
    /\ app' = [app EXCEPT !.started = Received(@)]
    /\ IF app.started.val
         THEN appPc' = "waitForSigterm" /\ UNCHANGED appCode
         ELSE appPc' = "cleanup" /\ appCode' = "failed"
    /\ UNCHANGED << appDelay, appSigs, appTimer, appCounters >>

(* <-Done() in each of the loops: the exit code of the application.           *)
AppDone ==
    /\ appPc \in AppLoops
    /\ Ready(app.done)
    /\ app' = [app EXCEPT !.done = Received(@)]
    /\ appCode' = app.code
    /\ appPc' = "cleanup"
    /\ UNCHANGED << appDelay, appSigs, appTimer, appCounters >>

(* Variant: the first SIGTERM is forwarded like the others.                   *)
TakeSigtermForwarding ==
    /\ appPc = "waitForSigterm"
    /\ appSigs = "TERM"
    /\ appSigs' = "none"
    /\ app' = Signalled(app, "TERM")
    /\ IF appDelay
         THEN appPc' = "waitForShutdownDelay" /\ appTimer' = "running"
         ELSE appPc' = "waitForAppExit" /\ UNCHANGED appTimer
    /\ UNCHANGED << appDelay, appCode, appCounters >>

(* waitForSigterm returns; without a delay the application is only awaited.   *)
TakeSigterm ==
    /\ appPc = "waitForSigterm"
    /\ appSigs = "TERM"
    /\ appSigs' = "none"
    /\ IF appDelay
         THEN appPc' = "waitForShutdownDelay" /\ appTimer' = "running"
         ELSE appPc' = "waitForAppExit" /\ UNCHANGED appTimer
    /\ UNCHANGED << appDelay, app, appCode, appCounters >>

(* Variant: the signals meant for the entrypoint itself are forwarded too.      *)
ForwardSignalAny ==
    /\ appPc \in AppLoops
    /\ appSigs # "none"
    /\ appPc = "waitForSigterm" => appSigs # "TERM"
    /\ appSigs' = "none"
    /\ app' = Signalled(app, appSigs)
    /\ UNCHANGED << appDelay, appPc, appTimer, appCode, appCounters >>

(* forwardSignal; a SIGTERM too, once the first has been taken.               *)
ForwardSignal ==
    /\ appPc \in AppLoops
    /\ appSigs # "none"
    /\ appPc = "waitForSigterm" => appSigs # "TERM"
    /\ appSigs' = "none"
    /\ app' = IF appSigs \in {"CHLD", "URG"} THEN app ELSE Signalled(app, appSigs)
    /\ UNCHANGED << appDelay, appPc, appTimer, appCode, appCounters >>

(* Variant: the SIGTERM after the delay is forgotten.                         *)
ShutdownDelayOverSilently ==
    /\ appPc = "waitForShutdownDelay"
    /\ appTimer = "running"
    /\ appTimer' = "fired"
    /\ UNCHANGED << appDelay, appPc, app, appSigs, appCode, appCounters >>

(* <-timer: SIGTERM to the process group; the loop goes on.                   *)
ShutdownDelayOver ==
    /\ appPc = "waitForShutdownDelay"
    /\ appTimer = "running"
    /\ appTimer' = "fired"
    /\ app' = Signalled(app, "TERM")
    /\ UNCHANGED << appDelay, appPc, appSigs, appCode, appCounters >>

(* cleanup: signal.Stop, then <-Done().                                       *)
AppStopSignals ==
    /\ appPc = "cleanup"
    /\ appPc' = "stopped"
    /\ appSigs' = "none"
    /\ UNCHANGED << appDelay, app, appTimer, appCode, appCounters >>

AppAwaitDone ==
    /\ appPc = "stopped"
    /\ Ready(app.done)
    /\ app' = [app EXCEPT !.done = Received(@)]
    /\ appPc' = "exited"
    /\ appTimer' = "off"
    /\ UNCHANGED << appDelay, appSigs, appCode, appCounters >>

AppStep ==
    \/ AppRun \/ AppBegin \/ AppStarted \/ AppDone \/ TakeSigterm \/ ForwardSignal
    \/ ShutdownDelayOver \/ AppStopSignals \/ AppAwaitDone

AppNext == AppTerm \/ AppOther \/ AppKill \/ AppChildExits \/ AppStep

AppSpec == AppInit /\ [][AppNext]_appVars

(* The goroutines run, the timer fires, select takes a branch that stays      *)
(* ready; the application ends after a SIGTERM.                               *)
AppFairness ==
    /\ WF_appVars(AppRun) /\ WF_appVars(AppBegin) /\ WF_appVars(AppStarted)
    /\ WF_appVars(AppDone) /\ WF_appVars(TakeSigterm) /\ WF_appVars(ForwardSignal)
    /\ WF_appVars(ShutdownDelayOver) /\ WF_appVars(AppStopSignals)
    /\ WF_appVars(AppAwaitDone)
    /\ WF_appVars("TERM" \in app.got /\ AppChildExits)

AppFairSpec == AppSpec /\ AppFairness

-----------------------------------------------------------------------------
(* Properties.                                                                *)

AppTypeOK ==
    /\ appDelay \in BOOLEAN
    /\ appPc \in {"start", "starting", "cleanup", "stopped"} \cup AppLoops \cup Ended
    /\ app \in Cmds
    /\ appSigs \in {"none"} \cup Signals
    /\ appTimer \in {"off", "running", "fired"}
    /\ appCode \in {"none", "failed"} \cup ExitCodes
    /\ appTerms \in 0..MaxTerms /\ appOthers \in 0..MaxOthers

(* The first SIGTERM is kept from the application: it gets one only when the  *)
(* shutdown delay is over or ECS has sent another.                            *)
FirstTermWithheld ==
    "TERM" \in app.got => appTerms >= 2 \/ (appDelay /\ appTerms = 1 /\ appTimer # "running")

(* app-entrypoint ends by itself only when its application has been reaped or *)
(* could not be started, with the application's exit code.                    *)
ExitsWithApplication ==
    appPc = "exited" =>
        \/ app.child = "reaped" /\ appCode = app.code
        \/ app.child = "none" /\ appCode = "failed"

(* The comment on waitForSigterm (command_unix.go:102): it "waits until       *)
(* c.appCmd has exited, or until a sigterm is received".                      *)
SigtermTaken ==
    appPc = "waitForSigterm" /\ appTerms > 0 ~> appPc # "waitForSigterm"

=============================================================================
