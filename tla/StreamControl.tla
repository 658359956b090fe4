---------------------------- MODULE StreamControl ----------------------------
(***************************************************************************)
(* One stream of a monitoring process: its slot in StreamSupervisor, the   *)
(* StreamSession objects and their threads, the command thread that runs   *)
(* SupervisorMonitoringControl operations, and the main thread that runs   *)
(* MonitoringWorkerRunner.shutdown twice (in run's finally and again in    *)
(* live_main's).  The supervisor's lock is dropped around every create,    *)
(* start, stop and join; those are the points where the threads meet.      *)
(*                                                                         *)
(* Sources: src/src/core/stream_supervisor.py, stream_session.py,          *)
(* src/src/app/supervisor_monitoring_control.py,                           *)
(* monitoring_worker_runner.py.  Heartbeat and projection threads are      *)
(* taken to drain in time.  Capacity is not reached: there is one stream.  *)
(***************************************************************************)
EXTENDS Naturals, FiniteSets

CONSTANTS
    Configs,        \* configurations a command may carry
    Enabled,        \* those with enabled = TRUE
    MaxSessions     \* bound: session objects that exist at the same time

ASSUME ControlAssumption ==
    /\ Enabled \subseteq Configs
    /\ Enabled # {}
    /\ MaxSessions \in Nat \ {0}

VARIABLES
    slot,           \* _StreamSlot of the stream, present = FALSE if none
    sess,           \* session -> StreamSession and its thread
    cmd,            \* the command thread
    reply,          \* how the last command ended
    main,           \* the thread that runs shutdown()
    cmdStop,        \* _command_stop_event
    redis           \* the shared client is "open" or "closed"

vars == <<slot, sess, cmd, reply, main, cmdStop, redis>>

Sessions == 1 .. MaxSessions
Actions == {"start", "pause", "resume", "stop", "update"}
SessionStatus == {"created", "running", "stopping", "paused", "stopped", "failed"}
Replies == {"none", "applied", "noop", "error"}
Whys == {"pause", "remove", "update", "discard"}

TypeOK ==
    /\ slot \in [present : BOOLEAN, session : 0 .. MaxSessions,
                 idle : SessionStatus, desired : BOOLEAN, config : Configs]
    /\ sess \in [Sessions -> [status : SessionStatus, target : SessionStatus,
                              alive : BOOLEAN, asked : BOOLEAN,
                              config : Configs]]
    /\ cmd \in [pc : {"idle", "pause", "resume", "remove", "add", "update",
                      "apply", "start", "create", "accept", "refuse", "ask",
                      "join", "gone"},
                action : Actions, config : Configs, session : 0 .. MaxSessions,
                why : Whys, restart : BOOLEAN]
    /\ reply \in Replies
    /\ main \in [pc : {"run", "join", "sweep", "ask", "wait", "close", "end"},
                 pass : 1 .. 2, session : 0 .. MaxSessions,
                 commands : BOOLEAN, streams : BOOLEAN]
    /\ cmdStop \in BOOLEAN
    /\ redis \in {"open", "closed"}
    /\ ~ slot.present => slot.session = 0 /\ ~ slot.desired
    /\ cmd.pc \in {"accept", "ask", "join"} => cmd.session # 0
    /\ main.pc \in {"ask", "wait"} => main.session # 0

\* Before the first command, reconcile() may have registered a desired PAUSED
\* stream.
Init ==
    \E c \in Configs, registered \in BOOLEAN :
        /\ slot = [present |-> registered, session |-> 0, idle |-> "paused",
                   desired |-> FALSE, config |-> c]
        /\ sess = [n \in Sessions |->
                     [status |-> "created", target |-> "stopped",
                      alive |-> FALSE, asked |-> FALSE, config |-> c]]
        /\ cmd = [pc |-> "idle", action |-> "stop", config |-> c,
                  session |-> 0, why |-> "remove", restart |-> FALSE]
        /\ reply = "none"
        /\ main = [pc |-> "run", pass |-> 1, session |-> 0,
                   commands |-> FALSE, streams |-> FALSE]
        /\ cmdStop = FALSE
        /\ redis = "open"

-----------------------------------------------------------------------------
(* StreamSession.                                                           *)

\* stop(): the locked part, and runtime.stop(); the join is the caller's step.
AskStop(n, target) ==
    sess' = [sess EXCEPT ![n].target = target, ![n].asked = TRUE,
               ![n].status = IF @ = "running" THEN "stopping" ELSE @]

\* run_forever returned, which it only does when asked to stop.
SessionEnds(n) ==
    /\ sess[n].alive
    /\ sess[n].asked
    /\ sess[n].status \in {"running", "stopping"}
    /\ sess' = [sess EXCEPT ![n].status = sess[n].target]
    /\ UNCHANGED <<slot, cmd, reply, main, cmdStop, redis>>

\* run_forever raised.
SessionFails(n) ==
    /\ sess[n].alive
    /\ sess[n].status \in {"running", "stopping"}
    /\ sess' = [sess EXCEPT ![n].status = "failed"]
    /\ UNCHANGED <<slot, cmd, reply, main, cmdStop, redis>>

\* _close_resources is done and the thread is gone.
SessionExits(n) ==
    /\ sess[n].alive
    /\ sess[n].status \notin {"running", "stopping"}
    /\ sess' = [sess EXCEPT ![n].alive = FALSE]
    /\ UNCHANGED <<slot, cmd, reply, main, cmdStop, redis>>

-----------------------------------------------------------------------------
(* A command: what SupervisorMonitoringControl reads and decides.           *)

\* supervisor.snapshot(stream_id).status
Snapshot == IF slot.session # 0 THEN sess[slot.session].status ELSE slot.idle

\* The command ends with an error result.
Refused(a, c) ==
    \/ a = "start" /\ c \notin Enabled
    \/ a = "start" /\ slot.present /\ (slot.config # c \/ Snapshot = "stopping")
    \/ a \in {"pause", "resume", "update"} /\ ~ slot.present
    \/ a \in {"pause", "resume"} /\ slot.present /\ Snapshot = "stopping"
    \/ a = "resume" /\ slot.present /\ Snapshot = "failed"

\* The command ends with changed = False.
Idempotent(a, c) ==
    \/ a = "start" /\ slot.present /\ Snapshot = "running"
    \/ a = "resume" /\ slot.present /\ Snapshot = "running"
    \/ a = "pause" /\ slot.present /\ Snapshot \in {"paused", "failed", "stopped"}
    \/ a = "stop" /\ ~ slot.present
    \/ a = "update" /\ slot.present /\ slot.config = c

\* The supervisor operation the command goes on with.
FirstCall(a) ==
    CASE a = "start" /\ ~ slot.present -> "add"
      [] a = "start" /\ slot.present /\ Snapshot = "failed" -> "remove"
      [] a = "start" /\ slot.present /\ Snapshot # "failed" -> "resume"
      [] a = "stop" -> "remove"
      [] OTHER -> a

Goto(pc) == cmd' = [cmd EXCEPT !.pc = pc]
Finish(result) == Goto("idle") /\ reply' = result

\* One poll of the command thread, unless it was asked to stop.
Begin(a, c) ==
    /\ cmd.pc = "idle"
    /\ ~ cmdStop
    /\ \/ Refused(a, c) /\ reply' = "error" /\ UNCHANGED cmd
       \/ ~ Refused(a, c) /\ Idempotent(a, c) /\ reply' = "noop" /\ UNCHANGED cmd
       \/ /\ ~ Refused(a, c) /\ ~ Idempotent(a, c)
          /\ cmd' = [cmd EXCEPT !.pc = FirstCall(a), !.action = a,
                       !.config = c]
          /\ reply' = "none"
    /\ UNCHANGED <<slot, sess, main, cmdStop, redis>>

\* The command thread leaves run() once its stop event is set.
CommandThreadEnds ==
    /\ cmd.pc = "idle"
    /\ cmdStop
    /\ Goto("gone")
    /\ UNCHANGED <<slot, sess, reply, main, cmdStop, redis>>

-----------------------------------------------------------------------------
(* StreamSupervisor, up to the unlocked stop of a session.                  *)

\* Continue with session.stop() of the slot's session for this reason.
StopSlotSession(why) ==
    cmd' = [cmd EXCEPT !.pc = "ask", !.session = slot.session, !.why = why]

\* pause(): without a session the slot is idle at once.
Pause ==
    /\ cmd.pc = "pause"
    /\ IF slot.session = 0
       THEN /\ slot' = [slot EXCEPT !.desired = FALSE, !.idle = "paused"]
            /\ Finish("applied")
       ELSE /\ slot' = [slot EXCEPT !.desired = FALSE]
            /\ StopSlotSession("pause")
            /\ UNCHANGED reply
    /\ UNCHANGED <<sess, main, cmdStop, redis>>

\* resume(): returns without a word if the slot still has a session.
Resume ==
    /\ cmd.pc = "resume"
    /\ \/ /\ slot.session # 0
          /\ Finish("applied")
          /\ UNCHANGED slot
       \/ /\ slot.session = 0
          /\ slot.config \notin Enabled
          /\ Finish("error")
          /\ UNCHANGED slot
       \/ /\ slot.session = 0
          /\ slot.config \in Enabled
          /\ slot' = [slot EXCEPT !.desired = TRUE]
          /\ Goto("start")
          /\ UNCHANGED reply
    /\ UNCHANGED <<sess, main, cmdStop, redis>>

\* The slot is popped; a START goes on to add it again.
Forget ==
    /\ slot' = [slot EXCEPT !.present = FALSE, !.session = 0,
                  !.idle = "paused", !.desired = FALSE]
    /\ IF cmd.action = "start" THEN Goto("add") /\ UNCHANGED reply
                               ELSE Finish("applied")

Remove ==
    /\ cmd.pc = "remove"
    /\ IF slot.session = 0
       THEN Forget
       ELSE StopSlotSession("remove") /\ UNCHANGED <<slot, reply>>
    /\ UNCHANGED <<sess, main, cmdStop, redis>>

Add ==
    /\ cmd.pc = "add"
    /\ slot' = [present |-> TRUE, session |-> 0, idle |-> "created",
                desired |-> TRUE, config |-> cmd.config]
    /\ Goto("start")
    /\ UNCHANGED <<sess, reply, main, cmdStop, redis>>

\* Mutant of UpdateRead: the new configuration is stored before the drain.
UpdateReadStoresConfig ==
    /\ cmd.pc = "update"
    /\ slot' = [slot EXCEPT !.config = cmd.config]
    /\ cmd' = [cmd EXCEPT
                 !.pc = IF slot.session = 0 THEN "apply" ELSE "ask",
                 !.session = slot.session, !.why = "update",
                 !.restart = slot.desired /\ cmd.config \in Enabled]
    /\ UNCHANGED <<sess, reply, main, cmdStop, redis>>

\* update(): whether to restart is decided before the old session is drained.
UpdateRead ==
    /\ cmd.pc = "update"
    /\ cmd' = [cmd EXCEPT
                 !.pc = IF slot.session = 0 THEN "apply" ELSE "ask",
                 !.session = slot.session, !.why = "update",
                 !.restart = slot.desired /\ cmd.config \in Enabled]
    /\ UNCHANGED <<slot, sess, reply, main, cmdStop, redis>>

UpdateApply ==
    /\ cmd.pc = "apply"
    /\ slot' = [slot EXCEPT !.session = 0, !.config = cmd.config,
                  !.idle = IF cmd.restart THEN "created" ELSE "paused",
                  !.desired = cmd.restart]
    /\ IF cmd.restart THEN Goto("start") /\ UNCHANGED reply
                      ELSE Finish("applied")
    /\ UNCHANGED <<sess, main, cmdStop, redis>>

-----------------------------------------------------------------------------
(* The command thread waits for a session: ask, then join with a timeout.   *)

Ask ==
    /\ cmd.pc = "ask"
    /\ AskStop(cmd.session, IF cmd.why = "pause" THEN "paused" ELSE "stopped")
    /\ Goto("join")
    /\ UNCHANGED <<slot, reply, main, cmdStop, redis>>

\* join returned because the thread is gone; the locked section after it.
Joined ==
    /\ cmd.pc = "join"
    /\ ~ sess[cmd.session].alive
    /\ \/ /\ cmd.why = "pause"
          /\ slot' = [slot EXCEPT !.session = 0, !.idle = "paused"]
          /\ Finish("applied")
       \/ cmd.why = "remove" /\ Forget
       \/ cmd.why = "update" /\ Goto("apply") /\ UNCHANGED <<slot, reply>>
       \/ cmd.why = "discard" /\ Finish("applied") /\ UNCHANGED slot
    /\ UNCHANGED <<sess, main, cmdStop, redis>>

\* Mutant of JoinTimedOut: update() ignores that the session did not drain.
JoinTimedOutUpdates ==
    /\ cmd.pc = "join"
    /\ sess[cmd.session].alive
    /\ IF cmd.why = "update" THEN Goto("apply") /\ UNCHANGED reply
       ELSE Finish(IF cmd.why = "discard" THEN "applied" ELSE "error")
    /\ UNCHANGED <<slot, sess, main, cmdStop, redis>>

\* Mutant of JoinTimedOut: pause() ignores that the session did not drain.
JoinTimedOutPauses ==
    /\ cmd.pc = "join"
    /\ sess[cmd.session].alive
    /\ IF cmd.why = "pause"
       THEN slot' = [slot EXCEPT !.session = 0, !.idle = "paused"]
       ELSE UNCHANGED slot
    /\ Finish(IF cmd.why \in {"discard", "pause"} THEN "applied" ELSE "error")
    /\ UNCHANGED <<sess, main, cmdStop, redis>>

\* join timed out: an error, except that _start_slot ignores it.
JoinTimedOut ==
    /\ cmd.pc = "join"
    /\ sess[cmd.session].alive
    /\ Finish(IF cmd.why = "discard" THEN "applied" ELSE "error")
    /\ UNCHANGED <<slot, sess, main, cmdStop, redis>>

-----------------------------------------------------------------------------
(* _start_slot: create and start run outside the lock.                      *)

StartSlot ==
    /\ cmd.pc = "start"
    /\ IF slot.session = 0 /\ slot.desired
       THEN /\ cmd' = [cmd EXCEPT !.pc = "create", !.config = slot.config]
            /\ UNCHANGED reply
       ELSE Finish("applied")
    /\ UNCHANGED <<slot, sess, main, cmdStop, redis>>

\* Session objects nobody refers to.
Fresh == {n \in Sessions : /\ ~ sess[n].alive
                           /\ n \notin {slot.session, main.session}}

\* factory.create and session.start succeed.
CreateSession ==
    /\ cmd.pc = "create"
    /\ \E n \in Fresh :
          /\ \A m \in Fresh : n <= m
          /\ sess' = [sess EXCEPT ![n] =
                        [status |-> "running", target |-> "stopped",
                         alive |-> TRUE, asked |-> FALSE,
                         config |-> cmd.config]]
          /\ cmd' = [cmd EXCEPT !.pc = "accept", !.session = n]
    /\ UNCHANGED <<slot, reply, main, cmdStop, redis>>

\* factory.create raises.
CreateFails ==
    /\ cmd.pc = "create"
    /\ Goto("refuse")
    /\ UNCHANGED <<slot, sess, reply, main, cmdStop, redis>>

Refuse ==
    /\ cmd.pc = "refuse"
    /\ slot' = [slot EXCEPT !.idle = IF slot.desired THEN "failed" ELSE @]
    /\ Finish("error")
    /\ UNCHANGED <<sess, main, cmdStop, redis>>

\* Mutant of Accept: an invalidated startup is dropped without a stop.
AcceptDropsSession ==
    /\ cmd.pc = "accept"
    /\ IF slot.session = 0 /\ slot.desired /\ slot.config = cmd.config
       THEN slot' = [slot EXCEPT !.session = cmd.session]
       ELSE UNCHANGED slot
    /\ Finish("applied")
    /\ UNCHANGED <<sess, main, cmdStop, redis>>

\* The new session is installed unless the slot changed meanwhile; then it is
\* stopped again.
Accept ==
    /\ cmd.pc = "accept"
    /\ IF slot.session = 0 /\ slot.desired /\ slot.config = cmd.config
       THEN /\ slot' = [slot EXCEPT !.session = cmd.session]
            /\ Finish("applied")
       ELSE /\ cmd' = [cmd EXCEPT !.pc = "ask", !.why = "discard"]
            /\ UNCHANGED <<slot, reply>>
    /\ UNCHANGED <<sess, main, cmdStop, redis>>

-----------------------------------------------------------------------------
(* MonitoringWorkerRunner.shutdown on the main thread, and stop_all.        *)

\* A signal or a failed service: the command thread is asked to stop.
Signal ==
    /\ main.pc = "run"
    /\ main' = [main EXCEPT !.pc = "join"]
    /\ cmdStop' = TRUE
    /\ UNCHANGED <<slot, sess, cmd, reply, redis>>

\* Join of the command thread, which may time out.
JoinCommands ==
    /\ main.pc = "join"
    /\ main' = [main EXCEPT !.pc = "sweep", !.commands = cmd.pc = "gone"]
    /\ UNCHANGED <<slot, sess, cmd, reply, cmdStop, redis>>

\* stop_all: the locked part.
Sweep ==
    /\ main.pc = "sweep"
    /\ slot' = [slot EXCEPT !.desired = FALSE]
    /\ main' = [main EXCEPT !.pc = IF slot.session = 0 THEN "close" ELSE "ask",
                  !.session = slot.session, !.streams = TRUE]
    /\ UNCHANGED <<sess, cmd, reply, cmdStop, redis>>

SweepAsk ==
    /\ main.pc = "ask"
    /\ AskStop(main.session, "stopped")
    /\ main' = [main EXCEPT !.pc = "wait"]
    /\ UNCHANGED <<slot, cmd, reply, cmdStop, redis>>

\* The session drained, or its share of the deadline passed.
SweepWait ==
    /\ main.pc = "wait"
    /\ main' = [main EXCEPT !.pc = "close", !.session = 0,
                  !.streams = ~ sess[main.session].alive]
    /\ slot' = IF ~ sess[main.session].alive /\ slot.session = main.session
               THEN [slot EXCEPT !.session = 0, !.idle = "stopped"]
               ELSE slot
    /\ UNCHANGED <<sess, cmd, reply, cmdStop, redis>>

\* Step 6 closes Redis if everybody drained; live_main calls shutdown again.
Close ==
    /\ main.pc = "close"
    /\ redis' = IF main.commands /\ main.streams THEN "closed" ELSE redis
    /\ main' = [main EXCEPT
                  !.pc = IF main.pass = 2 \/ redis' = "closed" THEN "end"
                         ELSE "join",
                  !.pass = 2]
    /\ UNCHANGED <<slot, sess, cmd, reply, cmdStop>>

-----------------------------------------------------------------------------

Session(n) == SessionEnds(n) \/ SessionExits(n)

Operation ==
    \/ Pause \/ Resume \/ Remove \/ Add \/ UpdateRead \/ UpdateApply
    \/ Ask \/ Joined \/ JoinTimedOut
    \/ StartSlot \/ CreateSession \/ CreateFails \/ Refuse \/ Accept

Shutdown ==
    JoinCommands \/ Sweep \/ SweepAsk \/ SweepWait \/ Close

Next ==
    \/ \E a \in Actions, c \in Configs : Begin(a, c)
    \/ Operation
    \/ CommandThreadEnds
    \/ \E n \in Sessions : Session(n) \/ SessionFails(n)
    \/ Signal
    \/ Shutdown

Spec == Init /\ [][Next]_vars

\* Threads are scheduled: operations and shutdown go on (every join has a
\* timeout), and a session that was asked to stop ends, late as it may be.
Fairness ==
    /\ WF_vars(Operation)
    /\ WF_vars(CommandThreadEnds)
    /\ WF_vars(Shutdown)
    /\ \A n \in Sessions : WF_vars(Session(n))

FairSpec == Spec /\ Fairness

-----------------------------------------------------------------------------
(* What the supervisor promises.                                            *)

Running(n) == sess[n].alive /\ ~ sess[n].asked

\* No two threads of one stream that were not asked to stop, and none that
\* outlived its slot beside a new one: replacing a session, restarting a
\* failed one and racing shutdown never leave two threads at work.
OneLiveSession == Cardinality({n \in Sessions : sess[n].alive}) <= 1

\* Nobody forgets a running session: it is the slot's, or the command thread
\* is about to install or to stop it.
RunningIsOwned ==
    \A n \in Sessions :
        Running(n) => \/ slot.session = n
                      \/ cmd.pc \in {"accept", "ask"} /\ cmd.session = n

\* A running session runs the configuration its slot reports, although
\* update() replaces both while the supervisor's lock is not held.
RunsReportedConfig ==
    \A n \in Sessions :
        Running(n) /\ slot.session = n => sess[n].config = slot.config

Ends(a, result) ==
    cmd.pc # "idle" /\ cmd'.pc = "idle" /\ cmd.action = a /\ reply' = result

\* A PAUSE or STOP reported as applied leaves no thread of the stream behind.
AppliedStopIsQuiet ==
    [][Ends("pause", "applied") \/ Ends("stop", "applied")
         => \A n \in Sessions : ~ sess'[n].alive]_vars

\* A START or RESUME reported as applied leaves a session that nobody has
\* asked to stop, unless the process shuts down.
AppliedStartIsRunning ==
    [][(Ends("start", "applied") \/ Ends("resume", "applied")) /\ ~ cmdStop'
         => slot'.session # 0 /\ ~ sess'[slot'.session].asked]_vars

\* The shared Redis client is never closed under a thread that may use it.
ClosedWithoutUsers ==
    redis = "closed" => cmd.pc = "gone" /\ \A n \in Sessions : ~ sess[n].alive

\* Once Redis is closed the process can end: no session runs on unasked.
ClosedThenQuiet ==
    redis = "closed" ~> \A n \in Sessions : ~ sess[n].alive
=============================================================================
