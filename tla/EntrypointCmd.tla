---------------------------- MODULE EntrypointCmd ----------------------------
(***************************************************************************)
(* entrypoint.Cmd: a command run in a subprocess by a goroutine, Run, which *)
(* tells its owner of the start and the end through two channels.  A Cmd is *)
(* a record; its owner is app-entrypoint or envoy-entrypoint.  The signals  *)
(* an owner subscribes to go to a channel of capacity 1.                    *)
(***************************************************************************)
EXTENDS Naturals

CONSTANT ExitCodes  \* exit codes a command may end with; "failed" is a failed start

Signals == {"TERM", "INT", "URG", "CHLD"}

-----------------------------------------------------------------------------
(* Channels of capacity 1 that are sent to at most once and then closed.      *)

Chans == [val : BOOLEAN, closed : BOOLEAN]

NewChan == [val |-> FALSE, closed |-> FALSE]

(* A receive does not block; it takes the value first.                        *)
Ready(ch) == ch.val \/ ch.closed

Sent(ch) == [ch EXCEPT !.val = TRUE]
Received(ch) == [ch EXCEPT !.val = FALSE]
Closed(ch) == [ch EXCEPT !.closed = TRUE]

(* os/signal drops a signal its channel has no room for.                      *)
Delivered(sigs, s) == IF sigs = "none" THEN s ELSE sigs

-----------------------------------------------------------------------------
Cmds == [run : {"new", "spawned", "waiting", "closing", "finished"},
         child : {"none", "running", "exited", "reaped", "killed"},
         code : {"none"} \cup ExitCodes,
         got : SUBSET {"TERM", "INT"},
         started : Chans,
         done : Chans]

NewCmd == [run |-> "new", child |-> "none", code |-> "none", got |-> {},
           started |-> NewChan, done |-> NewChan]

(* Variant: Done is closed, and the end told, before the process is reaped.   *)
CmdRunNoWait(c, d) ==
    \/ /\ c.run = "spawned"
       /\ d = [c EXCEPT !.run = "waiting", !.child = "running", !.started = Sent(@)]
    \/ c.run = "spawned" /\ d = [c EXCEPT !.run = "closing"]
    \/ c.run = "waiting" /\ d = [c EXCEPT !.run = "closing", !.done = Sent(@)]
    \/ /\ c.run = "closing"
       /\ d = [c EXCEPT !.run = "finished", !.started = Closed(@), !.done = Closed(@)]

(* Variant: Run closes the channel of the start only.                         *)
CmdRunUnclosed(c, d) ==
    \/ /\ c.run = "spawned"
       /\ d = [c EXCEPT !.run = "waiting", !.child = "running", !.started = Sent(@)]
    \/ c.run = "spawned" /\ d = [c EXCEPT !.run = "closing"]
    \/ /\ c.run = "waiting" /\ c.child = "exited"
       /\ d = [c EXCEPT !.run = "closing", !.child = "reaped", !.done = Sent(@)]
    \/ c.run = "closing" /\ d = [c EXCEPT !.run = "finished", !.started = Closed(@)]

(* The steps of Run from c to d: Start succeeds or fails, Wait returns, the   *)
(* deferred closes.                                                           *)
CmdRun(c, d) ==
    \/ /\ c.run = "spawned"
       /\ d = [c EXCEPT !.run = "waiting", !.child = "running", !.started = Sent(@)]
    \/ c.run = "spawned" /\ d = [c EXCEPT !.run = "closing"]
    \/ /\ c.run = "waiting" /\ c.child = "exited"
       /\ d = [c EXCEPT !.run = "closing", !.child = "reaped", !.done = Sent(@)]
    \/ /\ c.run = "closing"
       /\ d = [c EXCEPT !.run = "finished", !.started = Closed(@), !.done = Closed(@)]

(* The subprocess ends, by itself or because of a signal it got.              *)
ChildExit(c, d) ==
    /\ c.child = "running"
    /\ \E code \in ExitCodes : d = [c EXCEPT !.child = "exited", !.code = code]

(* A signal sent to the subprocess or to its process group.                   *)
Signalled(c, s) == IF c.child = "running" THEN [c EXCEPT !.got = @ \cup {s}] ELSE c

(* The container is killed: the owner is its first process.                   *)
KilledCmd(c) ==
    [NewCmd EXCEPT !.run = "finished", !.child = IF c.child = "none" THEN "none" ELSE "killed"]

=============================================================================
