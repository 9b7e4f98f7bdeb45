------------------------- MODULE TaskShutdownProofs -------------------------
(* Proofs about TaskShutdown, for every set of containers and of exit codes,  *)
(* and every number of signals.                                               *)
EXTENDS TaskShutdown, TLAPS

-----------------------------------------------------------------------------
(* The record of a command: types, and what its goroutine keeps of it.        *)

LEMMA NewCmdType == NewCmd \in Cmds
BY DEF NewCmd, Cmds, NewChan, Chans

LEMMA ReceivedType ==
    ASSUME NEW ch \in Chans
    PROVE  /\ Received(ch) \in Chans
           /\ ~Received(ch).val /\ Received(ch).closed = ch.closed
BY DEF Received, Chans

LEMMA SentType ==
    ASSUME NEW ch \in Chans
    PROVE  Sent(ch) \in Chans /\ Sent(ch).val /\ Sent(ch).closed = ch.closed
BY DEF Sent, Chans

LEMMA ClosedType ==
    ASSUME NEW ch \in Chans
    PROVE  Closed(ch) \in Chans /\ Closed(ch).closed /\ Closed(ch).val = ch.val
BY DEF Closed, Chans

LEMMA KilledCmdType ==
    ASSUME NEW c \in Cmds
    PROVE  /\ KilledCmd(c) \in Cmds
           /\ KilledCmd(c).run = "finished" /\ KilledCmd(c).child \in {"none", "killed"}
           /\ KilledCmd(c).got = {}
           /\ KilledCmd(c).started = NewChan /\ KilledCmd(c).done = NewChan
BY NewCmdType DEF KilledCmd, Cmds, NewCmd

LEMMA SignalledType ==
    ASSUME NEW c \in Cmds, NEW s \in {"TERM", "INT"}
    PROVE  /\ Signalled(c, s) \in Cmds
           /\ Signalled(c, s).got \subseteq c.got \cup {s}
           /\ Signalled(c, s).run = c.run /\ Signalled(c, s).child = c.child
           /\ Signalled(c, s).code = c.code
           /\ Signalled(c, s).started = c.started /\ Signalled(c, s).done = c.done
BY DEF Signalled, Cmds

LEMMA ChildExitType ==
    ASSUME NEW c \in Cmds, NEW d, ChildExit(c, d)
    PROVE  /\ d \in Cmds
           /\ c.child = "running" /\ d.child = "exited"
           /\ d.run = c.run /\ d.got = c.got
           /\ d.started = c.started /\ d.done = c.done
BY DEF ChildExit, Cmds

LEMMA StartReceived ==
    ASSUME NEW c \in Cmds
    PROVE  LET d == [c EXCEPT !.started = Received(@)]
           IN /\ d \in Cmds
              /\ d.run = c.run /\ d.child = c.child /\ d.code = c.code /\ d.got = c.got
              /\ d.done = c.done
              /\ ~d.started.val /\ d.started.closed = c.started.closed
<1>1. c.started \in Chans
    BY DEF Cmds
<1> QED
    BY <1>1, ReceivedType DEF Cmds

LEMMA DoneReceived ==
    ASSUME NEW c \in Cmds
    PROVE  LET d == [c EXCEPT !.done = Received(@)]
           IN /\ d \in Cmds
              /\ d.run = c.run /\ d.child = c.child /\ d.code = c.code /\ d.got = c.got
              /\ d.started = c.started
              /\ ~d.done.val /\ d.done.closed = c.done.closed
<1>1. c.done \in Chans
    BY DEF Cmds
<1> QED
    BY <1>1, ReceivedType DEF Cmds

(* The subprocess is running or not yet reaped exactly while Run waits, and   *)
(* the channels tell of what has happened.                                    *)
CmdOK(c) ==
    /\ c.run \in {"new", "spawned"} =>
         c.child = "none" /\ ~c.started.val /\ ~c.started.closed
    /\ c.run = "waiting" => c.child \in {"running", "exited"}
    /\ c.run \in {"closing", "finished"} => c.child \in {"none", "reaped", "killed"}
    /\ c.done.val \/ c.done.closed => c.run \in {"closing", "finished"}
    /\ c.started.val => c.child # "none"
    /\ c.started.closed => c.run = "finished"

(* What a step of Run does to the record.                                     *)
LEMMA CmdRunSteps ==
    ASSUME NEW c \in Cmds, NEW d, CmdRun(c, d)
    PROVE  /\ d \in Cmds
           /\ d.got = c.got /\ d.code = c.code
           /\ \/ /\ c.run = "spawned" /\ d.run = "waiting" /\ d.child = "running"
                 /\ d.started.val /\ d.started.closed = c.started.closed
                 /\ d.done = c.done
              \/ /\ c.run = "spawned" /\ d.run = "closing" /\ d.child = c.child
                 /\ d.started = c.started /\ d.done = c.done
              \/ /\ c.run = "waiting" /\ c.child = "exited"
                 /\ d.run = "closing" /\ d.child = "reaped"
                 /\ d.started = c.started
                 /\ d.done.val /\ d.done.closed = c.done.closed
              \/ /\ c.run = "closing" /\ d.run = "finished" /\ d.child = c.child
                 /\ d.started.val = c.started.val /\ d.done.val = c.done.val
                 /\ d.started.closed /\ d.done.closed
<1>1. c.started \in Chans /\ c.done \in Chans
    BY DEF Cmds
<1>2. CASE c.run = "spawned" /\ d = [c EXCEPT !.run = "waiting", !.child = "running",
                                              !.started = Sent(@)]
    <2>1. Sent(c.started) \in Chans /\ Sent(c.started).val
             /\ Sent(c.started).closed = c.started.closed
        BY <1>1, SentType
    <2> QED
        BY <1>2, <2>1 DEF Cmds
<1>3. CASE c.run = "spawned" /\ d = [c EXCEPT !.run = "closing"]
    BY <1>3 DEF Cmds
<1>4. CASE /\ c.run = "waiting" /\ c.child = "exited"
           /\ d = [c EXCEPT !.run = "closing", !.child = "reaped", !.done = Sent(@)]
    <2>1. Sent(c.done) \in Chans /\ Sent(c.done).val /\ Sent(c.done).closed = c.done.closed
        BY <1>1, SentType
    <2> QED
        BY <1>4, <2>1 DEF Cmds
<1>5. CASE /\ c.run = "closing"
           /\ d = [c EXCEPT !.run = "finished", !.started = Closed(@), !.done = Closed(@)]
    <2>1. /\ Closed(c.started) \in Chans /\ Closed(c.started).closed
          /\ Closed(c.started).val = c.started.val
          /\ Closed(c.done) \in Chans /\ Closed(c.done).closed
          /\ Closed(c.done).val = c.done.val
        BY <1>1, ClosedType
    <2> QED
        BY <1>5, <2>1 DEF Cmds
<1> QED
    BY <1>2, <1>3, <1>4, <1>5 DEF CmdRun

LEMMA CmdRunOK ==
    ASSUME NEW c \in Cmds, NEW d, CmdOK(c), CmdRun(c, d)
    PROVE  CmdOK(d)
<1>1. c.started \in Chans /\ c.done \in Chans /\ d \in Cmds
    BY CmdRunSteps DEF Cmds
<1> QED
    BY <1>1, CmdRunSteps DEF CmdOK, Cmds, Chans

-----------------------------------------------------------------------------
(* app-entrypoint.                                                            *)

LEMMA AppInitTypeOK == AppInit => AppTypeOK
BY NewCmdType, EntrypointAssumption DEF AppInit, AppTypeOK, EntrypointAssumption

LEMMA DeliveredType ==
    ASSUME NEW sigs \in {"none"} \cup Signals, NEW s \in Signals
    PROVE  Delivered(sigs, s) \in {"none"} \cup Signals /\ Delivered(sigs, s) \in {sigs, s}
BY DEF Delivered

LEMMA AppKilledTypeOK ==
    ASSUME AppTypeOK, AppKilled, appTerms' \in 0..MaxTerms, appOthers' \in 0..MaxOthers
    PROVE  AppTypeOK'
BY KilledCmdType DEF AppKilled, AppTypeOK, Ended

LEMMA AppGetsTypeOK ==
    ASSUME AppTypeOK, NEW s \in {"TERM", "INT", "URG"}, AppGets(s),
           appTerms' \in 0..MaxTerms, appOthers' \in 0..MaxOthers
    PROVE  AppTypeOK'
<1>1. CASE AppKilled
    BY <1>1, AppKilledTypeOK
<1>2. CASE /\ appSigs' = Delivered(appSigs, s)
           /\ UNCHANGED << appDelay, appPc, app, appTimer, appCode >>
    <2>1. appSigs' \in {"none"} \cup Signals
        BY <1>2, DeliveredType DEF AppTypeOK, Signals
    <2> QED
        BY <1>2, <2>1 DEF AppTypeOK
<1>3. CASE UNCHANGED << appDelay, appPc, app, appSigs, appTimer, appCode >>
    BY <1>3 DEF AppTypeOK
<1> QED
    BY <1>1, <1>2, <1>3 DEF AppGets

LEMMA AppStepTypeOK ==
    ASSUME AppTypeOK, AppStep
    PROVE  AppTypeOK'
<1> USE DEF AppTypeOK, AppLoops, Ended, appCounters
<1>1. CASE AppRun
    BY <1>1, CmdRunSteps DEF AppRun
<1>2. CASE AppBegin
    BY <1>2 DEF AppBegin, Cmds
<1>3. CASE AppStarted
    BY <1>3, StartReceived DEF AppStarted
<1>4. CASE AppDone
    BY <1>4, DoneReceived DEF AppDone, Cmds
<1>5. CASE TakeSigterm
    BY <1>5 DEF TakeSigterm
<1>6. CASE ForwardSignal
    BY <1>6, SignalledType DEF ForwardSignal, Signals
<1>7. CASE ShutdownDelayOver
    BY <1>7, SignalledType DEF ShutdownDelayOver
<1>8. CASE AppStopSignals
    BY <1>8 DEF AppStopSignals
<1>9. CASE AppAwaitDone
    BY <1>9, DoneReceived DEF AppAwaitDone
<1> QED
    BY <1>1, <1>2, <1>3, <1>4, <1>5, <1>6, <1>7, <1>8, <1>9 DEF AppStep

LEMMA AppNextTypeOK ==
    ASSUME AppTypeOK, AppNext
    PROVE  AppTypeOK'
<1>1. CASE AppTerm
    <2>1. appTerms' \in 0..MaxTerms /\ appOthers' \in 0..MaxOthers
        BY <1>1, EntrypointAssumption DEF AppTerm, AppTypeOK, EntrypointAssumption
    <2> QED
        BY <1>1, <2>1, AppGetsTypeOK DEF AppTerm
<1>2. CASE AppOther
    <2>1. appTerms' \in 0..MaxTerms /\ appOthers' \in 0..MaxOthers
        BY <1>2, EntrypointAssumption DEF AppOther, AppTypeOK, EntrypointAssumption
    <2> QED
        BY <1>2, <2>1, AppGetsTypeOK DEF AppOther
<1>3. CASE AppKill
    <2>1. appTerms' \in 0..MaxTerms /\ appOthers' \in 0..MaxOthers
        BY <1>3 DEF AppKill, AppTypeOK, appCounters
    <2> QED
        BY <1>3, <2>1, AppKilledTypeOK DEF AppKill
<1>4. CASE AppChildExits
    <2>1. app' \in Cmds
        BY <1>4, ChildExitType DEF AppChildExits, AppTypeOK
    <2>2. appSigs' \in {"none"} \cup Signals
        BY <1>4, DeliveredType DEF AppChildExits, AppTypeOK, Signals
    <2> QED
        BY <1>4, <2>1, <2>2 DEF AppChildExits, AppTypeOK, appCounters
<1> QED
    BY <1>1, <1>2, <1>3, <1>4, AppStepTypeOK DEF AppNext

(* Where realRun is decides what Run can have done: a loop has a started      *)
(* application, and cleanup is reached with an ended or an unstarted one.     *)
AppEndOK ==
    /\ CmdOK(app)
    /\ app.child = "killed" => appPc = "killed"
    /\ appPc = "starting" => app.child = "none" \/ app.started.val
    /\ appPc = "start" => app.run = "new"
    /\ appPc \in AppLoops => app.child # "none"
    /\ appPc \in {"cleanup", "stopped", "exited"} =>
         \/ app.child = "reaped" /\ appCode = app.code
         \/ app.child = "none" /\ app.run = "finished" /\ appCode = "failed"

LEMMA AppInitEndOK == AppInit => AppEndOK
BY DEF AppInit, AppEndOK, CmdOK, NewCmd, NewChan, AppLoops

LEMMA AppKilledEndOK ==
    ASSUME AppTypeOK, AppKilled
    PROVE  AppEndOK'
BY KilledCmdType DEF AppKilled, AppTypeOK, AppEndOK, CmdOK, NewChan, AppLoops

LEMMA AppGetsEndOK ==
    ASSUME AppTypeOK, AppEndOK, NEW s, AppGets(s)
    PROVE  AppEndOK'
<1>1. CASE AppKilled
    BY <1>1, AppKilledEndOK
<1>2. CASE UNCHANGED << appDelay, appPc, app, appTimer, appCode >>
    BY <1>2 DEF AppEndOK, CmdOK
<1> QED
    BY <1>1, <1>2 DEF AppGets

LEMMA AppNextEndOK ==
    ASSUME AppTypeOK, AppEndOK, AppNext
    PROVE  AppEndOK'
<1> USE DEF AppLoops, Ended, appCounters
<1>1. CASE AppTerm \/ AppOther
    BY <1>1, AppGetsEndOK DEF AppTerm, AppOther
<1>2. CASE AppKill
    BY <1>2, AppKilledEndOK DEF AppKill
<1>3. CASE AppChildExits
    BY <1>3, ChildExitType DEF AppChildExits, AppTypeOK, AppEndOK, CmdOK
<1>4. CASE AppRun
    <2>1. CmdOK(app')
        BY <1>4, CmdRunOK DEF AppRun, AppTypeOK, AppEndOK
    <2>2. app.run = "spawned" => app.child = "none" /\ ~app.started.val
        BY DEF AppEndOK, CmdOK
    <2>3. CmdRun(app, app') /\ app \in Cmds /\ UNCHANGED << appPc, appCode >>
        BY <1>4 DEF AppRun, AppTypeOK
    <2> QED
        BY <2>1, <2>2, <2>3, CmdRunSteps DEF AppEndOK
<1>5. CASE AppBegin
    BY <1>5 DEF AppBegin, AppTypeOK, AppEndOK, CmdOK, Cmds
<1>6. CASE AppStarted
    BY <1>6, StartReceived DEF AppStarted, AppTypeOK, AppEndOK, CmdOK, Ready
<1>7. CASE AppDone
    BY <1>7, DoneReceived DEF AppDone, AppTypeOK, AppEndOK, CmdOK, Ready
<1>8. CASE TakeSigterm
    BY <1>8 DEF TakeSigterm, AppEndOK, CmdOK
<1>9. CASE ForwardSignal
    BY <1>9, SignalledType DEF ForwardSignal, AppTypeOK, Signals, AppEndOK, CmdOK
<1>10. CASE ShutdownDelayOver
    BY <1>10, SignalledType DEF ShutdownDelayOver, AppTypeOK, AppEndOK, CmdOK
<1>11. CASE AppStopSignals
    BY <1>11 DEF AppStopSignals, AppEndOK, CmdOK
<1>12. CASE AppAwaitDone
    BY <1>12, DoneReceived DEF AppAwaitDone, AppTypeOK, AppEndOK, CmdOK
<1> QED
    BY <1>1, <1>2, <1>3, <1>4, <1>5, <1>6, <1>7, <1>8, <1>9, <1>10, <1>11, <1>12
    DEF AppNext, AppStep

(* A SIGTERM in the channel was sent; one in the channel of a loop that has   *)
(* taken the first is another; the timer runs only with a shutdown delay.     *)
TermOK ==
    /\ FirstTermWithheld
    /\ appSigs = "TERM" => appTerms >= 1
    /\ appPc \in {"waitForShutdownDelay", "waitForAppExit"} =>
         appTerms >= 1 /\ (appSigs = "TERM" => appTerms >= 2)
    /\ appPc = "waitForShutdownDelay" => appDelay
    /\ appPc \in {"start", "starting", "waitForSigterm"} => "TERM" \notin app.got

LEMMA AppInitTermOK == AppInit => TermOK
BY DEF AppInit, TermOK, FirstTermWithheld, NewCmd

LEMMA AppNextTermOK ==
    ASSUME AppTypeOK, TermOK, AppNext
    PROVE  TermOK'
<1>0. appTerms \in Nat /\ appSigs \in {"none"} \cup Signals /\ app \in Cmds
    BY DEF AppTypeOK
<1> USE <1>0 DEF TermOK, FirstTermWithheld, AppLoops, Ended, appCounters
<1>1. ASSUME AppKilled, appTerms' >= appTerms
      PROVE  TermOK'
    BY <1>1, KilledCmdType DEF AppKilled
<1>2. CASE AppTerm
    <2>1. appTerms' = appTerms + 1
        BY <1>2 DEF AppTerm
    <2>2. CASE AppKilled
        BY <2>1, <2>2, <1>1
    <2>3. CASE ~AppKilled
        BY <1>2, <2>1, <2>3, DeliveredType DEF AppTerm, AppGets, Signals
    <2> QED
        BY <2>2, <2>3
<1>3. CASE AppOther
    <2>1. PICK s \in {"INT", "URG"} : AppGets(s)
        BY <1>3 DEF AppOther
    <2>2. appTerms' = appTerms
        BY <1>3 DEF AppOther
    <2>3. CASE AppKilled
        BY <2>2, <2>3, <1>1
    <2>4. CASE ~AppKilled
        BY <2>1, <2>2, <2>4, DeliveredType DEF AppGets, Signals
    <2> QED
        BY <2>3, <2>4
<1>4. CASE AppKill
    BY <1>4, <1>1 DEF AppKill
<1>5. CASE AppChildExits
    BY <1>5, ChildExitType, DeliveredType DEF AppChildExits, Signals
<1>6. CASE AppRun
    BY <1>6, CmdRunSteps DEF AppRun
<1>7. CASE AppBegin
    BY <1>7 DEF AppBegin, Cmds
<1>8. CASE AppStarted
    BY <1>8, StartReceived DEF AppStarted
<1>9. CASE AppDone
    BY <1>9, DoneReceived DEF AppDone
<1>10. CASE TakeSigterm
    BY <1>10 DEF TakeSigterm
<1>11. CASE ForwardSignal
    BY <1>11, SignalledType DEF ForwardSignal, Signals
<1>12. CASE ShutdownDelayOver
    BY <1>12, SignalledType DEF ShutdownDelayOver
<1>13. CASE AppStopSignals
    BY <1>13 DEF AppStopSignals
<1>14. CASE AppAwaitDone
    BY <1>14, DoneReceived DEF AppAwaitDone
<1> QED
    BY <1>2, <1>3, <1>4, <1>5, <1>6, <1>7, <1>8, <1>9, <1>10, <1>11, <1>12, <1>13, <1>14
    DEF AppNext, AppStep

-----------------------------------------------------------------------------
(* envoy-entrypoint.                                                          *)

LEMMA EnvoyInitTypeOK == EnvoyInit => EnvoyTypeOK
<1>1. NewChan \in Chans
    BY DEF NewChan, Chans
<1>2. 0 \in 0..MaxProxyTerms /\ 0 \in 0..MaxProxyOthers
    BY EnvoyEntrypointAssumption DEF EnvoyEntrypointAssumption
<1> QED
    BY <1>1, <1>2, NewCmdType DEF EnvoyInit, EnvoyTypeOK

LEMMA EnvoyKilledTypeOK ==
    ASSUME EnvoyTypeOK, EnvoyKilled, envoyTerms' \in 0..MaxProxyTerms,
           envoyOthers' \in 0..MaxProxyOthers
    PROVE  EnvoyTypeOK'
BY KilledCmdType DEF EnvoyKilled, EnvoyTypeOK, EnvoyEnded

LEMMA EnvoySignalsTypeOK ==
    ASSUME EnvoyTypeOK, EnvoyTerm \/ EnvoyOther \/ EnvoyKill \/ EnvoyChildExits
    PROVE  EnvoyTypeOK'
<1> USE EnvoyEntrypointAssumption, DeliveredType
    DEF EnvoyEntrypointAssumption, EnvoyTypeOK, Signals, envoyCounters, monitorVars
<1>1. CASE EnvoyTerm
    <2>1. envoyTerms' \in 0..MaxProxyTerms /\ envoyOthers' \in 0..MaxProxyOthers
        BY <1>1 DEF EnvoyTerm
    <2>2. CASE EnvoyKilled
        BY <2>1, <2>2, EnvoyKilledTypeOK
    <2>3. CASE ~EnvoyKilled
        BY <1>1, <2>1, <2>3 DEF EnvoyTerm
    <2> QED
        BY <2>2, <2>3
<1>2. CASE EnvoyOther
    <2>1. envoyTerms' \in 0..MaxProxyTerms /\ envoyOthers' \in 0..MaxProxyOthers
        BY <1>2 DEF EnvoyOther
    <2>2. CASE EnvoyKilled
        BY <2>1, <2>2, EnvoyKilledTypeOK
    <2>3. CASE ~EnvoyKilled
        BY <1>2, <2>1, <2>3 DEF EnvoyOther
    <2> QED
        BY <2>2, <2>3
<1>3. CASE EnvoyKill
    BY <1>3, EnvoyKilledTypeOK DEF EnvoyKill
<1>4. CASE EnvoyChildExits
    BY <1>4, ChildExitType DEF EnvoyChildExits
<1> QED
    BY <1>1, <1>2, <1>3, <1>4

LEMMA MonitorStepTypeOK ==
    ASSUME EnvoyTypeOK, MonitorStep
    PROVE  EnvoyTypeOK'
<1> USE SentType, ClosedType DEF EnvoyTypeOK, envoyRest
<1>1. CASE MonitorNotify
    BY <1>1 DEF MonitorNotify
<1>2. CASE MonitorCancelled
    BY <1>2 DEF MonitorCancelled
<1>3. CASE MonitorPoll
    BY <1>3 DEF MonitorPoll
<1>4. CASE MonitorQuits
    BY <1>4 DEF MonitorQuits
<1>5. CASE MonitorCloses
    BY <1>5 DEF MonitorCloses
<1> QED
    BY <1>1, <1>2, <1>3, <1>4, <1>5 DEF MonitorStep

LEMMA EnvoyStepTypeOK ==
    ASSUME EnvoyTypeOK, EnvoyStep
    PROVE  EnvoyTypeOK'
<1> USE DEF EnvoyTypeOK, EnvoyEnded, envoyCounters, monitorVars
<1>1. CASE EnvoyRun
    BY <1>1, CmdRunSteps DEF EnvoyRun
<1>2. CASE EnvoyBegin
    BY <1>2 DEF EnvoyBegin, Cmds
<1>3. CASE EnvoyStarted
    BY <1>3, StartReceived DEF EnvoyStarted
<1>4. CASE EnvoyDone
    BY <1>4, DoneReceived DEF EnvoyDone, Cmds
<1>5. CASE HandleSignal
    BY <1>5, SignalledType DEF HandleSignal, Signals
<1>6. CASE EnvoyMonitorDone
    BY <1>6, SignalledType, ReceivedType DEF EnvoyMonitorDone
<1>7. CASE EnvoyCleanup
    BY <1>7 DEF EnvoyCleanup
<1>8. CASE EnvoyAwaitMonitor
    BY <1>8, ReceivedType DEF EnvoyAwaitMonitor
<1>9. CASE EnvoyAwaitDone
    BY <1>9, DoneReceived DEF EnvoyAwaitDone
<1> QED
    BY <1>1, <1>2, <1>3, <1>4, <1>5, <1>6, <1>7, <1>8, <1>9 DEF EnvoyStep

LEMMA EnvoyNextTypeOK ==
    ASSUME EnvoyTypeOK, EnvoyNext
    PROVE  EnvoyTypeOK'
BY EnvoySignalsTypeOK, MonitorStepTypeOK, EnvoyStepTypeOK DEF EnvoyNext

ContainerRest == << envoyPc, envoy, envoySigs, envoyCode, monitorVars, cancelled,
                    envoyCounters >>

LEMMA ContainerStoppedTypeOK ==
    ASSUME EnvoyTypeOK, NEW c \in Containers, ContainerStopped(c)
    PROVE  EnvoyTypeOK'
BY DEF ContainerStopped, EnvoyTypeOK, monitorVars, envoyCounters

(* As AppEndOK; and the monitor tells its end through monitorDone.            *)
EnvoyEndOK ==
    /\ CmdOK(envoy)
    /\ envoy.child = "killed" => envoyPc = "killed"
    /\ envoyPc = "starting" => envoy.child = "none" \/ envoy.started.val
    /\ envoyPc = "start" => envoy.run = "new" /\ monitor = "new"
    /\ envoyPc = "loop" => envoy.child # "none"
    /\ envoyPc \in {"cleanup", "awaitMonitor", "awaitEnvoy", "exited"} =>
         \/ envoy.child = "reaped" /\ envoyCode = envoy.code
         \/ envoy.child = "none" /\ envoy.run = "finished" /\ envoyCode = "failed"
    /\ monitorDone.val \/ monitorDone.closed => monitor \in {"closing", "finished"}
    /\ envoyPc \in {"awaitEnvoy", "exited"} => monitor \in {"closing", "finished"}

LEMMA EnvoyInitEndOK == EnvoyInit => EnvoyEndOK
BY DEF EnvoyInit, EnvoyEndOK, CmdOK, NewCmd, NewChan

LEMMA EnvoyKilledEndOK ==
    ASSUME EnvoyTypeOK, EnvoyKilled
    PROVE  EnvoyEndOK'
BY KilledCmdType DEF EnvoyKilled, EnvoyTypeOK, EnvoyEndOK, CmdOK, NewChan

LEMMA EnvoySignalsEndOK ==
    ASSUME EnvoyTypeOK, EnvoyEndOK, EnvoyTerm \/ EnvoyOther \/ EnvoyKill \/ EnvoyChildExits
    PROVE  EnvoyEndOK'
<1> USE DEF EnvoyEndOK, CmdOK, envoyCounters, monitorVars
<1>1. CASE EnvoyKilled
    BY <1>1, EnvoyKilledEndOK
<1>2. CASE EnvoyTerm /\ ~EnvoyKilled
    BY <1>2 DEF EnvoyTerm
<1>3. CASE EnvoyOther /\ ~EnvoyKilled
    BY <1>3 DEF EnvoyOther
<1>4. CASE EnvoyKill
    BY <1>4, EnvoyKilledEndOK DEF EnvoyKill
<1>5. CASE EnvoyChildExits
    BY <1>5, ChildExitType DEF EnvoyChildExits, EnvoyTypeOK, EnvoyEnded
<1> QED
    BY <1>1, <1>2, <1>3, <1>4, <1>5

LEMMA MonitorStepEndOK ==
    ASSUME EnvoyTypeOK, EnvoyEndOK, MonitorStep
    PROVE  EnvoyEndOK'
<1>0. monitorDone \in Chans
    BY DEF EnvoyTypeOK
<1> USE <1>0, SentType, ClosedType DEF EnvoyEndOK, CmdOK, envoyRest
<1>1. CASE MonitorNotify
    BY <1>1 DEF MonitorNotify
<1>2. CASE MonitorCancelled
    BY <1>2 DEF MonitorCancelled
<1>3. CASE MonitorPoll
    BY <1>3 DEF MonitorPoll
<1>4. CASE MonitorQuits
    BY <1>4 DEF MonitorQuits
<1>5. CASE MonitorCloses
    BY <1>5 DEF MonitorCloses
<1> QED
    BY <1>1, <1>2, <1>3, <1>4, <1>5 DEF MonitorStep

LEMMA EnvoyStepEndOK ==
    ASSUME EnvoyTypeOK, EnvoyEndOK, EnvoyStep
    PROVE  EnvoyEndOK'
<1> USE DEF EnvoyEnded, envoyCounters, monitorVars
<1>1. CASE EnvoyRun
    <2>1. CmdOK(envoy')
        BY <1>1, CmdRunOK DEF EnvoyRun, EnvoyTypeOK, EnvoyEndOK
    <2>2. envoy.run = "spawned" => envoy.child = "none" /\ ~envoy.started.val
        BY DEF EnvoyEndOK, CmdOK
    <2>3. /\ CmdRun(envoy, envoy') /\ envoy \in Cmds
          /\ UNCHANGED << envoyPc, envoyCode, monitor, monitorDone >>
        BY <1>1 DEF EnvoyRun, EnvoyTypeOK
    <2> QED
        BY <2>1, <2>2, <2>3, CmdRunSteps DEF EnvoyEndOK
<1>2. CASE EnvoyBegin
    BY <1>2 DEF EnvoyBegin, EnvoyTypeOK, EnvoyEndOK, CmdOK, Cmds
<1>3. CASE EnvoyStarted
    BY <1>3, StartReceived DEF EnvoyStarted, EnvoyTypeOK, EnvoyEndOK, CmdOK, Ready
<1>4. CASE EnvoyDone
    BY <1>4, DoneReceived DEF EnvoyDone, EnvoyTypeOK, EnvoyEndOK, CmdOK, Ready
<1>5. CASE HandleSignal
    BY <1>5, SignalledType DEF HandleSignal, EnvoyTypeOK, Signals, EnvoyEndOK, CmdOK
<1>6. CASE EnvoyMonitorDone
    BY <1>6, SignalledType, ReceivedType DEF EnvoyMonitorDone, EnvoyTypeOK, EnvoyEndOK, CmdOK
<1>7. CASE EnvoyCleanup
    BY <1>7 DEF EnvoyCleanup, EnvoyEndOK, CmdOK
<1>8. CASE EnvoyAwaitMonitor
    BY <1>8, ReceivedType DEF EnvoyAwaitMonitor, EnvoyTypeOK, EnvoyEndOK, CmdOK, Ready
<1>9. CASE EnvoyAwaitDone
    BY <1>9, DoneReceived DEF EnvoyAwaitDone, EnvoyTypeOK, EnvoyEndOK, CmdOK
<1> QED
    BY <1>1, <1>2, <1>3, <1>4, <1>5, <1>6, <1>7, <1>8, <1>9 DEF EnvoyStep

LEMMA EnvoyNextEndOK ==
    ASSUME EnvoyTypeOK, EnvoyEndOK, EnvoyNext
    PROVE  EnvoyEndOK'
BY EnvoySignalsEndOK, MonitorStepEndOK, EnvoyStepEndOK DEF EnvoyNext

-----------------------------------------------------------------------------
(* The two together.                                                          *)

(* The monitor gives realRun its signal only when it was cancelled, and then  *)
(* realRun no longer listens for it, or when the application container has    *)
(* been reported stopped.                                                     *)
ProxyOrderOK ==
    /\ ProxyAfterApplication
    /\ AppContainer \in metaStopped => appPc \in Ended
    /\ cancelled => envoyPc \in {"awaitMonitor", "awaitEnvoy"} \cup EnvoyEnded
    /\ monitorDone.val => cancelled \/ (appPc \in Ended /\ AllAppContainersStopped)

(* Run and the monitor exist once realRun has begun, and have closed their    *)
(* channels when they are over; cleanup has cancelled what it awaits.         *)
WaitOK ==
    /\ appPc \notin {"start"} \cup Ended =>
         app.run # "new" /\ (app.run = "finished" => app.started.closed /\ app.done.closed)
    /\ envoyPc \notin {"start"} \cup EnvoyEnded =>
         /\ envoy.run # "new"
         /\ envoy.run = "finished" => envoy.started.closed /\ envoy.done.closed
         /\ monitor # "new"
         /\ monitor = "finished" => monitorDone.closed
    /\ envoyPc = "awaitMonitor" => cancelled

IInv ==
    /\ AppTypeOK /\ EnvoyTypeOK
    /\ AppEndOK /\ EnvoyEndOK
    /\ TermOK /\ ProxyOrderOK /\ WaitOK

LEMMA InitIInv == Init => IInv
<1> SUFFICES ASSUME Init PROVE IInv
    OBVIOUS
<1>1. ProxyOrderOK
    BY DEF Init, EnvoyInit, ProxyOrderOK, ProxyAfterApplication, NewCmd, NewChan
<1>2. WaitOK
    BY DEF Init, AppInit, EnvoyInit, WaitOK
<1> QED
    BY <1>1, <1>2, AppInitTypeOK, AppInitEndOK, AppInitTermOK, EnvoyInitTypeOK, EnvoyInitEndOK
    DEF Init, IInv

LEMMA AppEndedStays == AppNext /\ appPc \in Ended => appPc' \in Ended
<1> SUFFICES ASSUME AppNext, appPc \in Ended PROVE FALSE
    OBVIOUS
<1> QED
    BY DEF AppNext, AppTerm, AppOther, AppGets, AppKill, AppChildExits, AppStep, AppRun,
           AppBegin, AppStarted, AppDone, TakeSigterm, ForwardSignal, ShutdownDelayOver,
           AppStopSignals, AppAwaitDone, AppLoops, Ended

(* A stopped application container is what the monitor waits for.             *)
LEMMA MonitorAwaitsApplication ==
    AllAppContainersStopped => AppContainer \in metaStopped
BY TaskShutdownAssumption, EnvoyEntrypointAssumption
DEF AllAppContainersStopped, IsApplication, TaskShutdownAssumption, EnvoyEntrypointAssumption

LEMMA EnvoyOrderOK ==
    ASSUME EnvoyTypeOK, ProxyOrderOK, EnvoyNext, UNCHANGED appVars
    PROVE  ProxyOrderOK'
<1>0. envoy \in Cmds /\ monitorDone \in Chans /\ appPc' = appPc
    BY DEF EnvoyTypeOK, appVars
<1> USE <1>0 DEF ProxyOrderOK, ProxyAfterApplication, AllAppContainersStopped, envoyCounters,
                 monitorVars
<1>1. CASE EnvoyKilled
    BY <1>1, KilledCmdType DEF EnvoyKilled, EnvoyEnded
<1>2. CASE (EnvoyTerm \/ EnvoyOther \/ EnvoyKill) /\ ~EnvoyKilled
    BY <1>2 DEF EnvoyTerm, EnvoyOther, EnvoyKill
<1>3. CASE EnvoyChildExits
    BY <1>3, ChildExitType DEF EnvoyChildExits
<1>4. CASE MonitorStep
    <2>1. UNCHANGED envoyRest
        BY <1>4 DEF MonitorStep, MonitorNotify, MonitorCancelled, MonitorPoll, MonitorQuits,
                    MonitorCloses
    <2>2. monitorDone'.val => monitorDone.val \/ cancelled \/ AllAppContainersStopped
        BY <1>4, ClosedType DEF MonitorStep, MonitorNotify, MonitorCancelled, MonitorPoll,
                    MonitorQuits, MonitorCloses
    <2> QED
        BY <2>1, <2>2, MonitorAwaitsApplication DEF envoyRest
<1>5. CASE EnvoyRun
    BY <1>5, CmdRunSteps DEF EnvoyRun
<1>6. CASE EnvoyBegin
    BY <1>6 DEF EnvoyBegin, Cmds, EnvoyEnded
<1>7. CASE EnvoyStarted
    BY <1>7, StartReceived DEF EnvoyStarted, EnvoyEnded
<1>8. CASE EnvoyDone
    BY <1>8, DoneReceived DEF EnvoyDone, EnvoyEnded
<1>9. CASE HandleSignal
    <2>1. "TERM" \in envoy'.got => "TERM" \in envoy.got
        BY <1>9, SignalledType DEF HandleSignal, EnvoyTypeOK, Signals
    <2> QED
        BY <1>9, <2>1 DEF HandleSignal
<1>10. CASE EnvoyMonitorDone
    BY <1>10, SignalledType, ReceivedType DEF EnvoyMonitorDone, EnvoyEnded
<1>11. CASE EnvoyCleanup
    BY <1>11 DEF EnvoyCleanup
<1>12. CASE EnvoyAwaitMonitor
    BY <1>12, ReceivedType DEF EnvoyAwaitMonitor, EnvoyEnded
<1>13. CASE EnvoyAwaitDone
    BY <1>13, DoneReceived DEF EnvoyAwaitDone, EnvoyEnded
<1> QED
    BY <1>1, <1>2, <1>3, <1>4, <1>5, <1>6, <1>7, <1>8, <1>9, <1>10, <1>11, <1>12, <1>13
    DEF EnvoyNext, EnvoyStep

LEMMA AppWaitOK ==
    ASSUME AppTypeOK, AppEndOK, WaitOK, AppNext, UNCHANGED envoyVars
    PROVE  WaitOK'
<1>0. app \in Cmds
    BY DEF AppTypeOK
<1> USE <1>0 DEF WaitOK, envoyVars, AppLoops, Ended, appCounters
<1>1. CASE AppKilled
    BY <1>1 DEF AppKilled
<1>2. CASE (AppTerm \/ AppOther \/ AppKill) /\ ~AppKilled
    BY <1>2 DEF AppTerm, AppOther, AppKill, AppGets
<1>3. CASE AppChildExits
    BY <1>3, ChildExitType DEF AppChildExits
<1>4. CASE AppRun
    BY <1>4, CmdRunSteps DEF AppRun
<1>5. CASE AppBegin
    BY <1>5 DEF AppBegin, Cmds
<1>6. CASE AppStarted
    BY <1>6, StartReceived DEF AppStarted
<1>7. CASE AppDone
    BY <1>7, DoneReceived DEF AppDone
<1>8. CASE TakeSigterm
    BY <1>8 DEF TakeSigterm
<1>9. CASE ForwardSignal
    BY <1>9, SignalledType DEF ForwardSignal, AppTypeOK, Signals
<1>10. CASE ShutdownDelayOver
    BY <1>10, SignalledType DEF ShutdownDelayOver
<1>11. CASE AppStopSignals
    BY <1>11 DEF AppStopSignals
<1>12. CASE AppAwaitDone
    BY <1>12 DEF AppAwaitDone
<1> QED
    BY <1>1, <1>2, <1>3, <1>4, <1>5, <1>6, <1>7, <1>8, <1>9, <1>10, <1>11, <1>12
    DEF AppNext, AppStep

LEMMA EnvoyWaitOK ==
    ASSUME EnvoyTypeOK, EnvoyEndOK, WaitOK, EnvoyNext, UNCHANGED appVars
    PROVE  WaitOK'
<1>0. envoy \in Cmds /\ monitorDone \in Chans
    BY DEF EnvoyTypeOK
<1> USE <1>0 DEF WaitOK, appVars, EnvoyEnded, envoyCounters, monitorVars
<1>1. CASE EnvoyKilled
    BY <1>1 DEF EnvoyKilled
<1>2. CASE (EnvoyTerm \/ EnvoyOther \/ EnvoyKill) /\ ~EnvoyKilled
    BY <1>2 DEF EnvoyTerm, EnvoyOther, EnvoyKill
<1>3. CASE EnvoyChildExits
    BY <1>3, ChildExitType DEF EnvoyChildExits
<1>4. CASE MonitorStep
    BY <1>4, SentType, ClosedType
    DEF MonitorStep, MonitorNotify, MonitorCancelled, MonitorPoll, MonitorQuits,
        MonitorCloses, envoyRest
<1>5. CASE EnvoyRun
    BY <1>5, CmdRunSteps DEF EnvoyRun
<1>6. CASE EnvoyBegin
    BY <1>6 DEF EnvoyBegin, Cmds
<1>7. CASE EnvoyStarted
    BY <1>7, StartReceived DEF EnvoyStarted
<1>8. CASE EnvoyDone
    BY <1>8, DoneReceived DEF EnvoyDone
<1>9. CASE HandleSignal
    BY <1>9, SignalledType DEF HandleSignal, EnvoyTypeOK, Signals
<1>10. CASE EnvoyMonitorDone
    BY <1>10, SignalledType, ReceivedType DEF EnvoyMonitorDone
<1>11. CASE EnvoyCleanup
    BY <1>11 DEF EnvoyCleanup
<1>12. CASE EnvoyAwaitMonitor
    BY <1>12, ReceivedType DEF EnvoyAwaitMonitor
<1>13. CASE EnvoyAwaitDone
    BY <1>13 DEF EnvoyAwaitDone
<1> QED
    BY <1>1, <1>2, <1>3, <1>4, <1>5, <1>6, <1>7, <1>8, <1>9, <1>10, <1>11, <1>12, <1>13
    DEF EnvoyNext, EnvoyStep

LEMMA NextIInv == IInv /\ [Next]_vars => IInv'
<1> SUFFICES ASSUME IInv, [Next]_vars PROVE IInv'
    OBVIOUS
<1> USE DEF IInv
<1>1. CASE AppNext /\ UNCHANGED envoyVars
    <2>1. EnvoyTypeOK' /\ EnvoyEndOK'
        BY <1>1 DEF envoyVars, EnvoyTypeOK, EnvoyEndOK, CmdOK
    <2>2. ProxyOrderOK'
        BY <1>1, AppEndedStays DEF envoyVars, ProxyOrderOK, ProxyAfterApplication,
                                  AllAppContainersStopped
    <2> QED
        BY <1>1, <2>1, <2>2, AppWaitOK, AppNextTypeOK, AppNextEndOK, AppNextTermOK
<1>2. CASE EnvoyNext /\ UNCHANGED appVars
    <2>1. AppTypeOK' /\ AppEndOK' /\ TermOK'
        BY <1>2 DEF appVars, AppTypeOK, AppEndOK, CmdOK, TermOK, FirstTermWithheld
    <2> QED
        BY <1>2, <2>1, EnvoyNextTypeOK, EnvoyNextEndOK, EnvoyOrderOK, EnvoyWaitOK
<1>3. CASE ReportStopped
    <2>1. AppTypeOK' /\ AppEndOK' /\ TermOK'
        BY <1>3 DEF ReportStopped, appVars, AppTypeOK, AppEndOK, CmdOK, TermOK,
                    FirstTermWithheld
    <2>2. PICK c \in Containers : MayBeReported(c) /\ ContainerStopped(c)
        BY <1>3 DEF ReportStopped
    <2>3. EnvoyTypeOK' /\ EnvoyEndOK'
        BY <2>2, ContainerStoppedTypeOK
        DEF ContainerStopped, EnvoyEndOK, CmdOK, monitorVars
    <2>4. ProxyOrderOK'
        BY <1>3, <2>2 DEF ReportStopped, appVars, MayBeReported, ContainerStopped,
                          monitorVars, ProxyOrderOK, ProxyAfterApplication,
                          AllAppContainersStopped
    <2>5. WaitOK'
        BY <1>3, <2>2 DEF ReportStopped, appVars, ContainerStopped, monitorVars, WaitOK
    <2> QED
        BY <2>1, <2>3, <2>4, <2>5
<1>4. CASE UNCHANGED vars
    BY <1>4 DEF vars, appVars, envoyVars, AppTypeOK, EnvoyTypeOK, AppEndOK, EnvoyEndOK,
                CmdOK, TermOK, FirstTermWithheld, ProxyOrderOK, ProxyAfterApplication, WaitOK,
                AllAppContainersStopped
<1> QED
    BY <1>1, <1>2, <1>3, <1>4 DEF Next

LEMMA Invariant == Spec => []IInv
BY InitIInv, NextIInv, PTL DEF Spec

(* Every variable of both entrypoints keeps its type.                         *)
THEOREM TypeCorrect == Spec => []TypeOK
<1>1. IInv => TypeOK
    BY DEF IInv, TypeOK
<1> QED
    BY <1>1, Invariant, PTL

(* waitForSigterm and waitForShutdownDelay keep the first SIGTERM from the    *)
(* application, whatever signals arrive and however many.                     *)
THEOREM FirstTermIsWithheld == Spec => []FirstTermWithheld
<1>1. IInv => FirstTermWithheld
    BY DEF IInv, TermOK
<1> QED
    BY <1>1, Invariant, PTL

(* realRun of app-entrypoint returns the exit code of a reaped application,   *)
(* or the error of one that did not start.                                    *)
THEOREM AppExits == Spec => []ExitsWithApplication
<1>1. IInv => ExitsWithApplication
    BY DEF IInv, AppEndOK, ExitsWithApplication
<1> QED
    BY <1>1, Invariant, PTL

(* realRun of envoy-entrypoint returns when its monitor is over and the proxy *)
(* is reaped or did not start.                                                *)
THEOREM EnvoyExits == Spec => []ExitsWithProxy
<1>1. IInv => ExitsWithProxy
    BY DEF IInv, EnvoyEndOK, ExitsWithProxy
<1> QED
    BY <1>1, Invariant, PTL

(* The SIGTERM of the monitor reaches the proxy after the application's       *)
(* container has ended.                                                       *)
THEOREM ProxyOutlivesApplication == Spec => []ProxyAfterApplication
<1>1. IInv => ProxyAfterApplication
    BY DEF IInv, ProxyOrderOK
<1> QED
    BY <1>1, Invariant, PTL

(* What an entrypoint has begun to wait for is there or on its way, whatever  *)
(* the other processes and the metadata do.                                   *)
THEOREM NoVainWait == Spec => []NeverWaitsInVain
<1>1. IInv => NeverWaitsInVain
    <2> SUFFICES ASSUME IInv PROVE NeverWaitsInVain
        OBVIOUS
    <2> USE DEF IInv, CmdOK, WaitOK, Ready, Ended, EnvoyEnded, Cmds
    <2>1. /\ appPc = "starting" => Ready(app.started) \/ app.run \in {"spawned", "closing"}
          /\ appPc \in AppLoops => Ready(app.done) \/ app.run \in {"waiting", "closing"}
          /\ appPc \in {"cleanup", "stopped"} => Ready(app.done) \/ app.run = "closing"
        BY DEF AppTypeOK, AppEndOK, AppLoops
    <2>2. /\ envoyPc = "starting" =>
               Ready(envoy.started) \/ envoy.run \in {"spawned", "closing"}
          /\ envoyPc = "loop" => Ready(envoy.done) \/ envoy.run \in {"waiting", "closing"}
          /\ envoyPc \in {"cleanup", "awaitMonitor", "awaitEnvoy"} =>
               Ready(envoy.done) \/ envoy.run = "closing"
        BY DEF EnvoyTypeOK, EnvoyEndOK
    <2>3. envoyPc = "awaitMonitor" =>
              \/ Ready(monitorDone)
              \/ cancelled /\ monitor \in {"spawned", "armed", "polling", "closing"}
        BY DEF EnvoyTypeOK
    <2> QED
        BY <2>1, <2>2, <2>3 DEF NeverWaitsInVain
<1> QED
    BY <1>1, Invariant, PTL

-----------------------------------------------------------------------------
(* KeepsOrder: every step of an entrypoint is a step of its container in      *)
(* ShutdownOrder, or changes nothing that one sees.                           *)

LEMMA TwoContainers == AppContainer # ProxyContainer
BY TaskShutdownAssumption DEF TaskShutdownAssumption

(* What changes of the container c in each step of ShutdownOrder.             *)
Stays(c) == UNCHANGED << Life(c), Asked(c), Told(c), Up(c) >>

Starts(c) ==
    /\ Up(c) /\ Life(c) = "none" /\ Life(c)' = "running"
    /\ UNCHANGED << Asked(c), Told(c), Up(c) >>

Ends(c) ==
    /\ Up(c) /\ Life(c) = "running" /\ Life(c)' = "gone"
    /\ UNCHANGED << Asked(c), Told(c), Up(c) >>

Hears(c) ==
    /\ Up(c) /\ Asked(c) /\ Life(c) = "running" /\ Told(c)'
    /\ c = ProxyContainer => ~Up(AppContainer)
    /\ UNCHANGED << Life(c), Asked(c), Up(c) >>

Quits(c) ==
    /\ Up(c) /\ ~Up(c)' /\ ~Told(c)' /\ Life(c) # "running"
    /\ UNCHANGED << Life(c), Asked(c) >>

IsAsked(c) ==
    /\ Asked(c)' /\ UNCHANGED Life(c)
    /\ \/ UNCHANGED << Told(c), Up(c) >>
       \/ Up(c) /\ ~Up(c)' /\ ~Told(c)' /\ Life(c) # "running"

IsKilled(c) ==
    /\ Asked(c) /\ Asked(c)' /\ Up(c) /\ ~Up(c)' /\ ~Told(c)'
    /\ Life(c)' = IF Life(c) = "none" THEN "none" ELSE "gone"

SideStep(c) ==
    Stays(c) \/ Starts(c) \/ Ends(c) \/ Hears(c) \/ Quits(c) \/ IsAsked(c) \/ IsKilled(c)

LEMMA SideStepIsOrderStep ==
    ASSUME NEW c \in Both, SideStep(c), \A d \in Both \ {c} : Stays(d)
    PROVE  [Order!OrderNext]_(Order!orderVars)
<1>1. CASE Stays(c)
    <2>1. \A d \in Both : Stays(d)
        BY <1>1
    <2>2. UNCHANGED << [d \in Both |-> Life(d)], {d \in Both : Asked(d)},
                       {d \in Both : Told(d)}, {d \in Both : ~Up(d)} >>
        BY <2>1 DEF Stays
    <2> QED
        BY <2>2 DEF Order!orderVars
<1>2. CASE Starts(c)
    <2>1. Order!CommandStarts(c)
        BY <1>2 DEF Starts, Stays, Order!CommandStarts
    <2> QED
        BY <2>1 DEF Order!OrderNext, Order!Both, Both
<1>3. CASE Ends(c)
    <2>1. Order!CommandEnds(c)
        BY <1>3 DEF Ends, Stays, Order!CommandEnds
    <2> QED
        BY <2>1 DEF Order!OrderNext, Order!Both, Both
<1>4. CASE Hears(c)
    <2>1. Order!Tell(c)
        BY <1>4 DEF Hears, Stays, Order!Tell, Order!MayBeTold, Both
    <2> QED
        BY <2>1 DEF Order!OrderNext, Order!Both, Both
<1>5. CASE Quits(c)
    <2>1. Order!Leave(c)
        BY <1>5 DEF Quits, Stays, Order!Leave, Order!End
    <2> QED
        BY <2>1 DEF Order!OrderNext, Order!Both, Both
<1>6. CASE IsAsked(c)
    <2>1. Order!Ask(c)
        BY <1>6 DEF IsAsked, Stays, Order!Ask, Order!End
    <2> QED
        BY <2>1 DEF Order!OrderNext, Order!Both, Both
<1>7. CASE IsKilled(c)
    <2>1. Order!KillContainer(c)
        BY <1>7 DEF IsKilled, Stays, Order!KillContainer, Order!End
    <2> QED
        BY <2>1 DEF Order!OrderNext, Order!Both, Both
<1> QED
    BY <1>1, <1>2, <1>3, <1>4, <1>5, <1>6, <1>7 DEF SideStep

LEMMA SignalledTold ==
    ASSUME NEW c \in Cmds, NEW s \in {"TERM", "INT"}
    PROVE  /\ c.child = "running" /\ s = "TERM" => "TERM" \in Signalled(c, s).got
           /\ c.child # "running" \/ s # "TERM" =>
                ("TERM" \in Signalled(c, s).got <=> "TERM" \in c.got)
BY DEF Signalled, Cmds

LEMMA KilledLife ==
    ASSUME NEW c \in Cmds
    PROVE  KilledCmd(c).child = IF c.child = "none" THEN "none" ELSE "killed"
BY NewCmdType DEF KilledCmd, NewCmd, Cmds

LEMMA AppIsKilled ==
    ASSUME IInv, AppKilled, appPc \notin Ended
    PROVE  LET c == AppContainer
           IN  /\ Up(c) /\ ~Up(c)' /\ ~Told(c)'
               /\ Life(c)' = IF Life(c) = "none" THEN "none" ELSE "gone"
<1>1. app \in Cmds /\ app' = KilledCmd(app) /\ appPc' = "killed"
    BY DEF IInv, AppTypeOK, AppKilled
<1> QED
    BY <1>1, KilledLife DEF Up, Told, Life, Cmd, Ended

(* A step that leaves the record's child and SIGTERM and the place alone.     *)
LEMMA AppStays ==
    ASSUME app'.child = app.child, "TERM" \in app'.got <=> "TERM" \in app.got,
           UNCHANGED appTerms, appPc \in Ended <=> appPc' \in Ended
    PROVE  SideStep(AppContainer)
BY DEF SideStep, Stays, Life, Asked, Told, Up, Cmd

LEMMA AppHears ==
    ASSUME IInv, app' = Signalled(app, "TERM"), appPc \notin Ended, appTerms > 0,
           UNCHANGED << appPc, appTerms >>
    PROVE  SideStep(AppContainer)
<1>0. app \in Cmds /\ app'.child = app.child
    BY SignalledType DEF IInv, AppTypeOK
<1>1. CASE app.child = "running"
    <2>1. "TERM" \in app'.got
        BY <1>0, <1>1, SignalledTold
    <2>2. Hears(AppContainer)
        BY <1>0, <1>1, <2>1, TwoContainers DEF Hears, Life, Asked, Told, Up, Cmd
    <2> QED
        BY <2>2 DEF SideStep
<1>2. CASE app.child # "running"
    BY <1>0, <1>2, SignalledTold, AppStays
<1> QED
    BY <1>1, <1>2

LEMMA AppGetsSide ==
    ASSUME IInv, NEW s, AppGets(s), UNCHANGED appTerms
    PROVE  SideStep(AppContainer)
<1>1. CASE AppKilled /\ appPc \in {"start", "stopped"}
    <2>1. Life(AppContainer) # "running"
        BY <1>1 DEF IInv, AppEndOK, CmdOK, Life, Cmd
    <2>2. Life(AppContainer)' = Life(AppContainer)
        BY <1>1, <2>1, AppIsKilled DEF AppGets, Life
    <2>3. Quits(AppContainer)
        BY <1>1, <2>1, <2>2, AppIsKilled DEF AppGets, Quits, Asked
    <2> QED
        BY <2>3 DEF SideStep
<1>2. CASE UNCHANGED << appPc, app >>
    BY <1>2, AppStays
<1> QED
    BY <1>1, <1>2 DEF AppGets

LEMMA AppSide ==
    ASSUME IInv, AppNext
    PROVE  SideStep(AppContainer)
<1>0. app \in Cmds /\ AppEndOK /\ TermOK /\ appTerms \in Nat /\ appSigs \in {"none"} \cup Signals
    BY DEF IInv, AppTypeOK
<1> USE DEF AppLoops, Ended, appCounters
<1>1. CASE AppTerm
    <2>1. appTerms' > 0 /\ AppGets("TERM") /\ Asked(AppContainer)'
        BY <1>0, <1>1 DEF AppTerm, Asked
    <2>2. CASE AppKilled /\ appPc \in {"start", "stopped"}
        <3>1. Life(AppContainer) # "running"
            BY <1>0, <2>2 DEF AppEndOK, CmdOK, Life, Cmd
        <3>2. Life(AppContainer)' = Life(AppContainer)
            BY <2>2, <3>1, AppIsKilled DEF Life
        <3>3. IsAsked(AppContainer)
            BY <2>1, <2>2, <3>1, <3>2, AppIsKilled DEF IsAsked
        <3> QED
            BY <3>3 DEF SideStep
    <2>3. CASE UNCHANGED << appPc, app >>
        <3>1. UNCHANGED << Life(AppContainer), Told(AppContainer), Up(AppContainer) >>
            BY <2>3 DEF Life, Told, Up, Cmd
        <3>2. IsAsked(AppContainer)
            BY <2>1, <3>1 DEF IsAsked
        <3> QED
            BY <3>2 DEF SideStep
    <2> QED
        BY <2>1, <2>2, <2>3 DEF AppGets
<1>2. CASE AppOther
    BY <1>2, AppGetsSide DEF AppOther
<1>3. CASE AppKill
    <2>1. IsKilled(AppContainer)
        BY <1>3, AppIsKilled DEF AppKill, IsKilled, Asked
    <2> QED
        BY <2>1 DEF SideStep
<1>4. CASE AppChildExits
    <2>1. /\ app.child = "running" /\ app'.child = "exited" /\ app'.got = app.got
          /\ UNCHANGED << appPc, appTerms >> /\ appPc \notin Ended
        BY <1>0, <1>4, ChildExitType DEF AppChildExits
    <2>2. Ends(AppContainer)
        BY <2>1 DEF Ends, Life, Asked, Told, Up, Cmd
    <2> QED
        BY <2>2 DEF SideStep
<1>5. CASE AppRun
    <2>1. CmdRun(app, app') /\ UNCHANGED << appPc, appTerms >> /\ appPc \notin Ended
        BY <1>5 DEF AppRun
    <2>2. CASE app.run = "spawned" /\ app'.child = "running"
        <3>1. app.child = "none" /\ app'.got = app.got
            BY <1>0, <2>1, <2>2, CmdRunSteps DEF AppEndOK, CmdOK
        <3>2. Starts(AppContainer)
            BY <2>1, <2>2, <3>1 DEF Starts, Life, Asked, Told, Up, Cmd
        <3> QED
            BY <3>2 DEF SideStep
    <2>3. CASE app.child = "exited" /\ app'.child = "reaped"
        <3>1. Stays(AppContainer)
            BY <1>0, <2>1, <2>3, CmdRunSteps DEF Stays, Life, Asked, Told, Up, Cmd
        <3> QED
            BY <3>1 DEF SideStep
    <2>4. CASE app'.child = app.child
        BY <1>0, <2>1, <2>4, CmdRunSteps, AppStays
    <2> QED
        BY <1>0, <2>1, <2>2, <2>3, <2>4, CmdRunSteps
<1>6. CASE AppBegin
    <2>1. app'.child = app.child /\ app'.got = app.got
        BY <1>0, <1>6 DEF AppBegin, Cmds
    <2> QED
        BY <1>6, <2>1, AppStays DEF AppBegin
<1>7. CASE AppStarted
    BY <1>0, <1>7, StartReceived, AppStays DEF AppStarted
<1>8. CASE AppDone
    BY <1>0, <1>8, DoneReceived, AppStays DEF AppDone
<1>9. CASE TakeSigterm
    BY <1>9, AppStays DEF TakeSigterm
<1>10. CASE ForwardSignal
    <2>1. CASE appSigs = "TERM"
        <3>1. app' = Signalled(app, "TERM") /\ appTerms > 0
            BY <1>0, <1>10, <2>1 DEF ForwardSignal, TermOK
        <3> QED
            BY <1>10, <3>1, AppHears DEF ForwardSignal
    <2>2. CASE appSigs = "INT"
        <3>1. app' = Signalled(app, "INT")
            BY <1>10, <2>2 DEF ForwardSignal
        <3>2. app'.child = app.child /\ ("TERM" \in app'.got <=> "TERM" \in app.got)
            BY <1>0, <3>1, SignalledType, SignalledTold
        <3> QED
            BY <1>10, <3>2, AppStays DEF ForwardSignal
    <2>3. CASE appSigs \notin {"TERM", "INT"}
        BY <1>0, <1>10, <2>3, AppStays DEF ForwardSignal, Signals
    <2> QED
        BY <2>1, <2>2, <2>3
<1>11. CASE ShutdownDelayOver
    <2>1. appTerms > 0
        BY <1>0, <1>11 DEF ShutdownDelayOver, TermOK
    <2> QED
        BY <1>11, <2>1, AppHears DEF ShutdownDelayOver
<1>12. CASE AppStopSignals
    BY <1>12, AppStays DEF AppStopSignals
<1>13. CASE AppAwaitDone
    <2>1. app'.child = app.child /\ app'.got = app.got
        BY <1>0, <1>13, DoneReceived DEF AppAwaitDone
    <2>2. appPc = "stopped" /\ appPc' = "exited" /\ UNCHANGED appTerms
        BY <1>13 DEF AppAwaitDone
    <2>3. CASE ~Told(AppContainer)'
        <3>1. Quits(AppContainer)
            BY <1>0, <2>1, <2>2, <2>3 DEF Quits, AppEndOK, Life, Asked, Up, Cmd
        <3> QED
            BY <3>1 DEF SideStep
    <2> QED
        BY <2>2, <2>3 DEF Told, Up
<1> QED
    BY <1>1, <1>2, <1>3, <1>4, <1>5, <1>6, <1>7, <1>8, <1>9, <1>10, <1>11, <1>12, <1>13
    DEF AppNext, AppStep

(* The monitor's signal to realRun says that ECS has asked, too.              *)
ProxyAsked ==
    /\ monitor = "polling" => envoyTerms > 0
    /\ monitorDone.val => cancelled \/ envoyTerms > 0

LEMMA EnvoyProxyAsked ==
    ASSUME EnvoyTypeOK, ProxyAsked, EnvoyNext
    PROVE  ProxyAsked'
<1>0. envoyTerms \in Nat /\ monitorDone \in Chans
    BY DEF EnvoyTypeOK
<1> USE <1>0 DEF ProxyAsked, envoyCounters, monitorVars
<1>1. CASE EnvoyTerm
    BY <1>1 DEF EnvoyTerm, EnvoyKilled
<1>2. CASE EnvoyOther \/ EnvoyKill
    BY <1>2 DEF EnvoyOther, EnvoyKill, EnvoyKilled
<1>3. CASE MonitorStep
    BY <1>3, SentType, ClosedType
    DEF MonitorStep, MonitorNotify, MonitorCancelled, MonitorPoll, MonitorQuits,
        MonitorCloses, envoyRest
<1>4. CASE EnvoyMonitorDone \/ EnvoyAwaitMonitor
    BY <1>4, ReceivedType DEF EnvoyMonitorDone, EnvoyAwaitMonitor
<1>5. CASE EnvoyChildExits \/ EnvoyRun \/ EnvoyBegin \/ EnvoyStarted
    BY <1>5 DEF EnvoyChildExits, EnvoyRun, EnvoyBegin, EnvoyStarted
<1>6. CASE EnvoyDone \/ HandleSignal \/ EnvoyCleanup \/ EnvoyAwaitDone
    BY <1>6 DEF EnvoyDone, HandleSignal, EnvoyCleanup, EnvoyAwaitDone
<1> QED
    BY <1>1, <1>2, <1>3, <1>4, <1>5, <1>6 DEF EnvoyNext, EnvoyStep

LEMMA NextProxyAsked == IInv /\ ProxyAsked /\ [Next]_vars => ProxyAsked'
<1> SUFFICES ASSUME IInv, ProxyAsked, [Next]_vars PROVE ProxyAsked'
    OBVIOUS
<1>1. CASE EnvoyNext
    BY <1>1, EnvoyProxyAsked DEF IInv
<1>2. CASE UNCHANGED envoyVars
    BY <1>2 DEF envoyVars, ProxyAsked
<1>3. CASE ReportStopped
    BY <1>3 DEF ReportStopped, ContainerStopped, monitorVars, envoyCounters, ProxyAsked
<1> QED
    BY <1>1, <1>2, <1>3 DEF Next, vars

LEMMA EnvoyIsKilled ==
    ASSUME IInv, EnvoyKilled, envoyPc \notin EnvoyEnded
    PROVE  LET c == ProxyContainer
           IN  /\ Up(c) /\ ~Up(c)' /\ ~Told(c)'
               /\ Life(c)' = IF Life(c) = "none" THEN "none" ELSE "gone"
<1>1. envoy \in Cmds /\ envoy' = KilledCmd(envoy) /\ envoyPc' = "killed"
    BY DEF IInv, EnvoyTypeOK, EnvoyKilled
<1> QED
    BY <1>1, KilledLife, TwoContainers DEF Up, Told, Life, Cmd, EnvoyEnded

LEMMA EnvoyStays ==
    ASSUME envoy'.child = envoy.child, "TERM" \in envoy'.got <=> "TERM" \in envoy.got,
           UNCHANGED envoyTerms, envoyPc \in EnvoyEnded <=> envoyPc' \in EnvoyEnded
    PROVE  SideStep(ProxyContainer)
BY TwoContainers DEF SideStep, Stays, Life, Asked, Told, Up, Cmd

(* Outside the subscriptions of realRun there is no running proxy.            *)
LEMMA UnsubscribedLife ==
    ASSUME IInv, ~EnvoySubscribes, envoyPc \notin EnvoyEnded
    PROVE  Life(ProxyContainer) # "running"
<1>1. envoyPc \in {"start", "awaitMonitor", "awaitEnvoy"}
    BY DEF IInv, EnvoyTypeOK, EnvoySubscribes
<1> QED
    BY <1>1, TwoContainers DEF IInv, EnvoyEndOK, CmdOK, Life, Cmd

LEMMA EnvoySignalsSide ==
    ASSUME IInv, EnvoyTerm \/ EnvoyOther \/ EnvoyKill \/ EnvoyChildExits
    PROVE  SideStep(ProxyContainer)
<1>0. envoy \in Cmds /\ envoyTerms \in Nat
    BY DEF IInv, EnvoyTypeOK
<1> DEFINE c == ProxyContainer
<1> USE TwoContainers DEF envoyCounters, monitorVars
<1>1. CASE EnvoyTerm
    <2>1. Asked(c)' /\ envoyPc \notin EnvoyEnded
        BY <1>0, <1>1 DEF EnvoyTerm, Asked
    <2>2. CASE EnvoyKilled /\ ~EnvoySubscribes
        <3>1. Life(c) # "running"
            BY <2>1, <2>2, UnsubscribedLife
        <3>2. Life(c)' = Life(c)
            BY <2>1, <2>2, <3>1, EnvoyIsKilled DEF Life
        <3>3. IsAsked(c)
            BY <2>1, <2>2, <3>1, <3>2, EnvoyIsKilled DEF IsAsked
        <3> QED
            BY <3>3 DEF SideStep
    <2>3. CASE UNCHANGED << envoyPc, envoy >>
        <3>1. UNCHANGED << Life(c), Told(c), Up(c) >>
            BY <2>3 DEF Life, Told, Up, Cmd
        <3>2. IsAsked(c)
            BY <2>1, <3>1 DEF IsAsked
        <3> QED
            BY <3>2 DEF SideStep
    <2> QED
        BY <1>1, <2>2, <2>3 DEF EnvoyTerm
<1>2. CASE EnvoyOther
    <2>1. envoyPc \notin EnvoyEnded /\ UNCHANGED envoyTerms
        BY <1>2 DEF EnvoyOther
    <2>2. CASE EnvoyKilled /\ ~EnvoySubscribes
        <3>1. Life(c) # "running"
            BY <2>1, <2>2, UnsubscribedLife
        <3>2. Life(c)' = Life(c)
            BY <2>1, <2>2, <3>1, EnvoyIsKilled DEF Life
        <3>3. Quits(c)
            BY <2>1, <2>2, <3>1, <3>2, EnvoyIsKilled DEF Quits, Asked
        <3> QED
            BY <3>3 DEF SideStep
    <2>3. CASE UNCHANGED << envoyPc, envoy >>
        BY <2>1, <2>3, EnvoyStays
    <2> QED
        BY <1>2, <2>2, <2>3 DEF EnvoyOther
<1>3. CASE EnvoyKill
    <2>1. IsKilled(c)
        BY <1>3, EnvoyIsKilled DEF EnvoyKill, IsKilled, Asked
    <2> QED
        BY <2>1 DEF SideStep
<1>4. CASE EnvoyChildExits
    <2>1. /\ envoy.child = "running" /\ envoy'.child = "exited" /\ envoy'.got = envoy.got
          /\ UNCHANGED << envoyPc, envoyTerms >> /\ envoyPc \notin EnvoyEnded
        BY <1>0, <1>4, ChildExitType DEF EnvoyChildExits
    <2>2. Ends(c)
        BY <2>1 DEF Ends, Life, Asked, Told, Up, Cmd
    <2> QED
        BY <2>2 DEF SideStep
<1> QED
    BY <1>1, <1>2, <1>3, <1>4

LEMMA EnvoyStepSide ==
    ASSUME IInv, ProxyAsked, EnvoyStep
    PROVE  SideStep(ProxyContainer)
<1>0. /\ envoy \in Cmds /\ EnvoyEndOK /\ ProxyOrderOK
      /\ envoySigs \in {"none"} \cup Signals
    BY DEF IInv, EnvoyTypeOK
<1> DEFINE c == ProxyContainer
<1> USE DEF EnvoyEnded, envoyCounters
<1>1. CASE EnvoyRun
    <2>1. CmdRun(envoy, envoy') /\ UNCHANGED << envoyPc, envoyTerms >> /\ envoyPc \notin EnvoyEnded
        BY <1>1 DEF EnvoyRun
    <2>2. CASE envoy.run = "spawned" /\ envoy'.child = "running"
        <3>1. envoy.child = "none" /\ envoy'.got = envoy.got
            BY <1>0, <2>1, <2>2, CmdRunSteps DEF EnvoyEndOK, CmdOK
        <3>2. Starts(c)
            BY <2>1, <2>2, <3>1, TwoContainers DEF Starts, Life, Asked, Told, Up, Cmd
        <3> QED
            BY <3>2 DEF SideStep
    <2>3. CASE envoy.child = "exited" /\ envoy'.child = "reaped"
        <3>1. Stays(c)
            BY <1>0, <2>1, <2>3, CmdRunSteps, TwoContainers DEF Stays, Life, Asked, Told, Up, Cmd
        <3> QED
            BY <3>1 DEF SideStep
    <2>4. CASE envoy'.child = envoy.child
        BY <1>0, <2>1, <2>4, CmdRunSteps, EnvoyStays
    <2> QED
        BY <1>0, <2>1, <2>2, <2>3, <2>4, CmdRunSteps
<1>2. CASE EnvoyBegin
    <2>1. envoy'.child = envoy.child /\ envoy'.got = envoy.got
        BY <1>0, <1>2 DEF EnvoyBegin, Cmds
    <2> QED
        BY <1>2, <2>1, EnvoyStays DEF EnvoyBegin
<1>3. CASE EnvoyStarted
    BY <1>0, <1>3, StartReceived, EnvoyStays DEF EnvoyStarted
<1>4. CASE EnvoyDone
    BY <1>0, <1>4, DoneReceived, EnvoyStays DEF EnvoyDone
<1>5. CASE HandleSignal
    <2>1. CASE envoySigs = "INT"
        <3>1. envoy' = Signalled(envoy, "INT")
            BY <1>5, <2>1 DEF HandleSignal
        <3>2. envoy'.child = envoy.child /\ ("TERM" \in envoy'.got <=> "TERM" \in envoy.got)
            BY <1>0, <3>1, SignalledType, SignalledTold
        <3> QED
            BY <1>5, <3>2, EnvoyStays DEF HandleSignal
    <2>2. CASE envoySigs # "INT"
        BY <1>0, <1>5, <2>2, EnvoyStays DEF HandleSignal, Signals
    <2> QED
        BY <2>1, <2>2
<1>6. CASE EnvoyMonitorDone
    <2>1. /\ envoy' = Signalled(envoy, "TERM") /\ envoyPc = "loop"
          /\ UNCHANGED << envoyPc, envoyTerms >> /\ monitorDone.val
        BY <1>6 DEF EnvoyMonitorDone
    <2>2. envoyTerms > 0 /\ appPc \in Ended
        BY <1>0, <2>1 DEF ProxyAsked, ProxyOrderOK
    <2>3. envoy'.child = envoy.child
        BY <1>0, <2>1, SignalledType
    <2>4. CASE envoy.child = "running"
        <3>1. "TERM" \in envoy'.got
            BY <1>0, <2>1, <2>4, SignalledTold
        <3>2. Hears(c)
            BY <2>1, <2>2, <2>3, <2>4, <3>1, TwoContainers DEF Hears, Life, Asked, Told, Up, Cmd
        <3> QED
            BY <3>2 DEF SideStep
    <2>5. CASE envoy.child # "running"
        BY <1>0, <2>1, <2>3, <2>5, SignalledTold, EnvoyStays
    <2> QED
        BY <2>4, <2>5
<1>7. CASE EnvoyCleanup \/ EnvoyAwaitMonitor
    BY <1>7, EnvoyStays DEF EnvoyCleanup, EnvoyAwaitMonitor
<1>8. CASE EnvoyAwaitDone
    <2>1. envoy'.child = envoy.child /\ envoy'.got = envoy.got
        BY <1>0, <1>8, DoneReceived DEF EnvoyAwaitDone
    <2>2. envoyPc = "awaitEnvoy" /\ envoyPc' = "exited" /\ UNCHANGED envoyTerms
        BY <1>8 DEF EnvoyAwaitDone
    <2>3. ~Told(c)'
        BY <2>2, TwoContainers DEF Told, Up
    <2>4. Quits(c)
        BY <1>0, <2>1, <2>2, <2>3, TwoContainers DEF Quits, EnvoyEndOK, Life, Asked, Up, Cmd
    <2> QED
        BY <2>4 DEF SideStep
<1> QED
    BY <1>1, <1>2, <1>3, <1>4, <1>5, <1>6, <1>7, <1>8 DEF EnvoyStep

LEMMA AppUnseen ==
    ASSUME UNCHANGED << app, appPc, appTerms >>
    PROVE  Stays(AppContainer)
BY DEF Stays, Life, Asked, Told, Up, Cmd

LEMMA EnvoyUnseen ==
    ASSUME UNCHANGED << envoy, envoyPc, envoyTerms >>
    PROVE  Stays(ProxyContainer)
BY TwoContainers DEF Stays, Life, Asked, Told, Up, Cmd

LEMMA NextKeepsOrder ==
    ASSUME IInv, ProxyAsked, [Next]_vars
    PROVE  [Order!OrderNext]_(Order!orderVars)
<1>1. CASE AppNext /\ UNCHANGED envoyVars
    <2>1. SideStep(AppContainer) /\ Stays(ProxyContainer)
        BY <1>1, AppSide, EnvoyUnseen DEF envoyVars
    <2> QED
        BY <2>1, SideStepIsOrderStep DEF Both
<1>2. CASE EnvoyNext /\ UNCHANGED appVars
    <2>1. SideStep(ProxyContainer)
        <3>1. CASE MonitorStep
            <4>1. UNCHANGED << envoy, envoyPc, envoyTerms >>
                BY <3>1 DEF MonitorStep, MonitorNotify, MonitorCancelled, MonitorPoll,
                            MonitorQuits, MonitorCloses, envoyRest
            <4> QED
                BY <4>1, EnvoyStays
        <3> QED
            BY <1>2, <3>1, EnvoySignalsSide, EnvoyStepSide DEF EnvoyNext
    <2>2. Stays(AppContainer)
        BY <1>2, AppUnseen DEF appVars
    <2> QED
        BY <2>1, <2>2, SideStepIsOrderStep DEF Both
<1>3. CASE ReportStopped \/ UNCHANGED vars
    <2>1. UNCHANGED << app, appPc, appTerms, envoy, envoyPc, envoyTerms >>
        BY <1>3 DEF ReportStopped, ContainerStopped, envoyCounters, vars, appVars, envoyVars
    <2>2. Stays(AppContainer) /\ Stays(ProxyContainer)
        BY <2>1, AppUnseen, EnvoyUnseen
    <2> QED
        BY <2>2, SideStepIsOrderStep DEF SideStep, Both
<1> QED
    BY <1>1, <1>2, <1>3 DEF Next

LEMMA InitKeepsOrder == Init => Order!OrderInit
<1> SUFFICES ASSUME Init PROVE Order!OrderInit
    OBVIOUS
<1>1. \A c \in Both : Life(c) = "none" /\ ~Asked(c) /\ ~Told(c) /\ Up(c)
    BY DEF Init, AppInit, EnvoyInit, NewCmd, Both, Life, Asked, Told, Up, Cmd, Ended, EnvoyEnded
<1> QED
    BY <1>1 DEF Order!OrderInit, Order!Both, Both

(* The entrypoints implement ShutdownOrder: with any number of signals, in    *)
(* any order, no command is told early or outlives its container.             *)
THEOREM OrderIsKept == Spec => KeepsOrder
<1>1. Init => ProxyAsked
    BY DEF Init, EnvoyInit, NewChan, ProxyAsked
<1>2. IInv /\ ProxyAsked /\ [Next]_vars => [Order!OrderNext]_(Order!orderVars)
    BY NextKeepsOrder
<1> QED
    BY <1>1, <1>2, Invariant, NextProxyAsked, InitKeepsOrder, PTL
    DEF Spec, KeepsOrder, Order!OrderSpec

=============================================================================
