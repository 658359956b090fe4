-------------------------- MODULE StreamControlProofs --------------------------
(***************************************************************************)
(* Proofs about StreamControl, for every set of configurations and every   *)
(* number of session objects.                                              *)
(*                                                                         *)
(* The supervisor drops its lock around every create, start, stop and      *)
(* join, so what the command thread relies on while it does not hold it    *)
(* has to be an invariant that the main thread's shutdown preserves: that  *)
(* is Owned and the parts that follow it.                                  *)
(***************************************************************************)
EXTENDS StreamControl, FiniteSetTheorems, TLAPS

USE ControlAssumption
USE DEF vars, Sessions, Goto, Finish, AskStop, StopSlotSession, Forget

-----------------------------------------------------------------------------
(* The inductive invariant.                                                 *)

\* TypeOK, by variables.
SlotOK ==
    slot \in [present : BOOLEAN, session : 0 .. MaxSessions,
              idle : SessionStatus, desired : BOOLEAN, config : Configs]
NoSlotIsEmpty == ~ slot.present => slot.session = 0 /\ ~ slot.desired
SessOK ==
    sess \in [Sessions -> [status : SessionStatus, target : SessionStatus,
                           alive : BOOLEAN, asked : BOOLEAN, config : Configs]]
CmdOK ==
    cmd \in [pc : {"idle", "pause", "resume", "remove", "add", "update",
                   "apply", "start", "create", "accept", "refuse", "ask",
                   "join", "gone"},
             action : Actions, config : Configs, session : 0 .. MaxSessions,
             why : Whys, restart : BOOLEAN]
HandIsFull == cmd.pc \in {"accept", "ask", "join"} => cmd.session # 0
MainOK ==
    main \in [pc : {"run", "join", "sweep", "ask", "wait", "close", "end"},
              pass : 1 .. 2, session : 0 .. MaxSessions,
              commands : BOOLEAN, streams : BOOLEAN]
SweepIsOfOne == main.pc \in {"ask", "wait"} => main.session # 0
RestOK ==
    /\ reply \in Replies
    /\ cmdStop \in BOOLEAN
    /\ redis \in {"open", "closed"}

Types == /\ SlotOK /\ NoSlotIsEmpty /\ SessOK /\ CmdOK /\ HandIsFull
         /\ MainOK /\ SweepIsOfOne /\ RestOK

\* The command thread has a session in hand.
InHand(n) == cmd.pc \in {"accept", "ask", "join"} /\ cmd.session = n

\* A live thread belongs to the slot's session, to the one the command thread
\* has in hand, or it was asked to stop by a startup that lost against shutdown.
Owned ==
    \A n \in Sessions : sess[n].alive =>
        \/ slot.session = n
        \/ InHand(n)
        \/ cmdStop /\ cmd.pc \in {"idle", "gone"} /\ sess[n].asked

\* From the moment a slot is made or refilled until a session is created no
\* thread is alive.
Clear ==
    cmd.pc \in {"add", "apply", "start", "create", "refuse"} =>
        \A n \in Sessions : ~ sess[n].alive

OneAlive == \A m, n \in Sessions : sess[m].alive /\ sess[n].alive => m = n

\* The slot that is being started is empty, and only shutdown has taken back
\* the wish that it runs.
Starting ==
    /\ cmd.pc \in {"add", "start", "create", "accept", "refuse"} =>
          slot.session = 0
    /\ cmd.pc \in {"start", "create", "accept"} => slot.desired \/ cmdStop
    /\ cmd.pc \in {"create", "accept"} => slot.config = cmd.config
    /\ cmd.pc = "accept" => sess[cmd.session].config = cmd.config

\* The session waited for is the slot's, unless it has been discarded, which
\* happens in a shutdown only, or shutdown has found it drained.
Stopping ==
    cmd.pc \in {"ask", "join"} =>
        /\ slot.session \in {0, cmd.session}
        /\ cmd.why = "discard" => cmdStop
        /\ cmd.why # "discard" /\ sess[cmd.session].alive =>
              slot.session = cmd.session
        /\ cmd.pc = "join" => sess[cmd.session].asked

\* Where each command may be.
Route ==
    /\ cmd.pc = "pause" => cmd.action = "pause"
    /\ cmd.pc \in {"update", "apply"} => cmd.action = "update"
    /\ cmd.pc = "remove" => cmd.action \in {"start", "stop"}
    /\ cmd.pc \in {"resume", "add", "start", "create", "accept", "refuse"} =>
          cmd.action \notin {"pause", "stop"}
    /\ cmd.pc \in {"ask", "join"} =>
          /\ cmd.why = "pause" => cmd.action = "pause"
          /\ cmd.why = "remove" => cmd.action \in {"start", "stop"}
          /\ cmd.why = "update" => cmd.action = "update"
          /\ cmd.why = "discard" => cmd.action \notin {"pause", "stop"}

ConfigKept ==
    \A n \in Sessions : slot.session = n => sess[n].config = slot.config

\* Shutdown runs after the stop event is set, and closes Redis when it has seen
\* the command thread gone and the slot's session drained.
Closing ==
    /\ main.pc # "run" => cmdStop
    /\ main.commands => cmd.pc = "gone"
    /\ main.pc \in {"ask", "wait"} /\ main.commands =>
          slot.session = main.session
    /\ main.pc \in {"close", "end"} /\ main.commands /\ main.streams
          => slot.session = 0
    /\ redis = "closed" => main.pc = "end" /\ main.commands /\ main.streams

\* The slot the command thread works on is there.
SlotIsThere == cmd.pc \notin {"idle", "gone", "add"} => slot.present

Inv == /\ SlotIsThere /\ Owned /\ Clear /\ OneAlive /\ Starting
       /\ Stopping /\ Route /\ ConfigKept /\ Closing

-----------------------------------------------------------------------------
(* One step preserves each part.                                            *)

\* The call a command of kind a goes on with.
BeginsWith(a) ==
    /\ cmd'.pc \in {"add", "remove", "resume", "pause", "update"}
    /\ cmd'.action = a /\ cmd'.session = cmd.session
    /\ cmd'.pc = "add" => a = "start" /\ ~ slot.present
    /\ cmd'.pc # "add" => slot.present
    /\ cmd'.pc = "remove" => a \in {"start", "stop"}
    /\ cmd'.pc = "resume" => a \in {"start", "resume"}
    /\ cmd'.pc \in {"pause", "update"} => a = cmd'.pc

\* A command is answered at once, or the thread goes on to the call it needs.
LEMMA BeginTo ==
    ASSUME CmdOK, NEW a \in Actions, NEW c \in Configs, Begin(a, c)
    PROVE  cmd' = cmd \/ (CmdOK' /\ BeginsWith(a))
<1>1. /\ FirstCall(a) \in {"add", "remove", "resume", "pause", "update"}
      /\ FirstCall(a) = "add" => a = "start" /\ ~ slot.present
      /\ FirstCall(a) # "add" /\ a = "start" => slot.present
      /\ FirstCall(a) = "remove" => a \in {"start", "stop"}
      /\ FirstCall(a) = "resume" => a \in {"start", "resume"}
      /\ FirstCall(a) \in {"pause", "update"} => a = FirstCall(a)
  BY DEF FirstCall, Actions
<1>2. CASE /\ ~ Refused(a, c) /\ ~ Idempotent(a, c)
           /\ cmd' = [cmd EXCEPT !.pc = FirstCall(a), !.action = a,
                        !.config = c]
  <2>1. a # "start" => slot.present
    BY <1>2 DEF Refused, Idempotent, Actions
  <2>2. CmdOK'
    BY <1>1, <1>2 DEF CmdOK
  <2>3. /\ cmd'.pc = FirstCall(a) /\ cmd'.action = a
        /\ cmd'.session = cmd.session
    BY <1>2 DEF CmdOK
  <2> QED BY <1>1, <2>1, <2>2, <2>3 DEF BeginsWith
<1> QED BY <1>2 DEF Begin

\* The slot keeps its type ...
LEMMA SlotStep ==
    ASSUME Types, [Next]_vars
    PROVE  SlotOK'
<1> USE DEF Types, SlotOK, SessionStatus
<1>0. 0 \in 0 .. MaxSessions
  OBVIOUS
<1>1. CASE UNCHANGED slot
  BY <1>1
<1>2. CASE Pause
  BY <1>2 DEF Pause
<1>3. CASE Resume
  BY <1>3 DEF Resume
<1>4. CASE Remove
  BY <1>4 DEF Remove
<1>5. CASE Add
  BY <1>5 DEF Add, CmdOK
<1>6. CASE UpdateApply
  <2>1. CASE cmd.restart
    <3>1. slot' = [slot EXCEPT !.session = 0, !.config = cmd.config,
                     !.idle = "created", !.desired = cmd.restart]
      BY <1>6, <2>1 DEF UpdateApply
    <3> QED BY <1>0, <3>1 DEF CmdOK
  <2>2. CASE ~ cmd.restart
    <3>1. slot' = [slot EXCEPT !.session = 0, !.config = cmd.config,
                     !.idle = "paused", !.desired = cmd.restart]
      BY <1>6, <2>2 DEF UpdateApply
    <3> QED BY <1>0, <3>1 DEF CmdOK
  <2> QED BY <2>1, <2>2
<1>7. CASE Joined
  <2>1. CASE UNCHANGED slot
    BY <2>1
  <2>2. CASE slot' = [slot EXCEPT !.session = 0, !.idle = "paused"]
    BY <1>0, <2>2
  <2>3. CASE slot' = [slot EXCEPT !.present = FALSE, !.session = 0,
                        !.idle = "paused", !.desired = FALSE]
    BY <1>0, <2>3
  <2> QED BY <1>7, <2>1, <2>2, <2>3 DEF Joined
<1>8. CASE Refuse
  BY <1>8 DEF Refuse
<1>9. CASE Accept
  BY <1>9 DEF Accept, CmdOK
<1>10. CASE Sweep
  BY <1>10 DEF Sweep
<1>11. CASE SweepWait
  <2>1. CASE slot' = [slot EXCEPT !.session = 0, !.idle = "stopped"]
    BY <1>0, <2>1
  <2>2. CASE slot' = slot
    BY <2>2
  <2> QED BY <1>11, <2>1, <2>2 DEF SweepWait
<1> QED BY <1>1, <1>2, <1>3, <1>4, <1>5, <1>6, <1>7, <1>8, <1>9, <1>10, <1>11
      DEF Next, Operation, Shutdown, Session, Begin, UpdateRead, Ask,
      JoinTimedOut, StartSlot, CreateSession, CreateFails, CommandThreadEnds,
      SessionEnds, SessionExits, SessionFails, Signal, JoinCommands, SweepAsk,
      Close

\* ... and is empty when it is absent, which it never is under the command
\* thread's hands.
LEMMA NoSlotStep ==
    ASSUME Types, SlotIsThere, [Next]_vars
    PROVE  NoSlotIsEmpty' /\ SlotIsThere'
<1> USE DEF Types, SlotOK, CmdOK, NoSlotIsEmpty, SlotIsThere
<1>1. CASE UNCHANGED <<slot, cmd>>
  BY <1>1
<1>2. ASSUME NEW a \in Actions, NEW c \in Configs, Begin(a, c)
      PROVE  NoSlotIsEmpty' /\ SlotIsThere'
  <2>1. slot' = slot
    BY <1>2 DEF Begin
  <2>2. cmd' = cmd \/ (cmd'.pc # "add" => slot.present)
    BY <1>2, BeginTo DEF BeginsWith
  <2> QED BY <2>1, <2>2
<1>3. CASE Pause
  BY <1>3 DEF Pause
<1>4. CASE Resume
  BY <1>4 DEF Resume
<1>5. CASE Remove
  <2>1. CASE slot.session # 0
    BY <1>5, <2>1 DEF Remove
  <2>2. CASE slot.session = 0
    <3>1. /\ slot' = [slot EXCEPT !.present = FALSE, !.session = 0,
                         !.idle = "paused", !.desired = FALSE]
          /\ cmd'.pc \in {"add", "idle"}
      BY <1>5, <2>2 DEF Remove
    <3> QED BY <3>1
  <2> QED BY <2>1, <2>2
<1>6. CASE Add
  BY <1>6 DEF Add
<1>7. CASE UpdateRead
  BY <1>7 DEF UpdateRead
<1>8. CASE UpdateApply
  <2>1. slot'.present = slot.present /\ slot.present
    BY <1>8 DEF UpdateApply
  <2> QED BY <2>1
<1>9. CASE Joined
  <2>1. CASE slot' = slot
    BY <1>9, <2>1 DEF Joined
  <2>2. CASE slot' = [slot EXCEPT !.session = 0, !.idle = "paused"]
    BY <1>9, <2>2 DEF Joined
  <2>3. CASE cmd.why = "remove"
    <3>1. /\ slot' = [slot EXCEPT !.present = FALSE, !.session = 0,
                         !.idle = "paused", !.desired = FALSE]
          /\ cmd'.pc \in {"add", "idle"}
      BY <1>9, <2>3 DEF Joined
    <3> QED BY <3>1
  <2> QED BY <1>9, <2>1, <2>2, <2>3 DEF Joined
<1>10. CASE Refuse
  BY <1>10 DEF Refuse
<1>11. CASE Accept
  BY <1>11 DEF Accept
<1>12. CASE Sweep
  BY <1>12 DEF Sweep
<1>13. CASE SweepWait
  <2>1. CASE slot' = [slot EXCEPT !.session = 0, !.idle = "stopped"]
    BY <1>13, <2>1 DEF SweepWait
  <2>2. CASE slot' = slot
    BY <1>13, <2>2 DEF SweepWait
  <2> QED BY <1>13, <2>1, <2>2 DEF SweepWait
<1>14. CASE Ask \/ JoinTimedOut \/ StartSlot \/ CreateSession \/ CreateFails
            \/ CommandThreadEnds
  BY <1>14 DEF Ask, JoinTimedOut, StartSlot, CreateSession, CreateFails,
               CommandThreadEnds
<1> QED BY <1>1, <1>2, <1>3, <1>4, <1>5, <1>6, <1>7, <1>8, <1>9, <1>10, <1>11,
      <1>12, <1>13, <1>14
      DEF Next, Operation, Shutdown, Session, SessionEnds, SessionExits,
      SessionFails, Signal, JoinCommands, SweepAsk, Close

\* A session that is asked to stop keeps its type ...
LEMMA AskStopOK ==
    ASSUME SessOK, NEW n \in Sessions, NEW target \in {"paused", "stopped"},
           AskStop(n, target)
    PROVE  SessOK'
<1>1. CASE sess[n].status = "running"
  <2>1. sess' = [sess EXCEPT ![n].target = target, ![n].asked = TRUE,
                   ![n].status = "stopping"]
    BY <1>1
  <2>2. [sess[n] EXCEPT !.target = target, !.asked = TRUE,
                        !.status = "stopping"]
           \in [status : SessionStatus, target : SessionStatus,
               alive : BOOLEAN, asked : BOOLEAN, config : Configs]
    BY DEF SessOK, SessionStatus
  <2>3. sess' = [sess EXCEPT ![n] = [sess[n] EXCEPT !.target = target,
                                       !.asked = TRUE, !.status = "stopping"]]
    BY <2>1 DEF SessOK
  <2> QED BY <2>2, <2>3 DEF SessOK
<1>2. CASE sess[n].status # "running"
  <2>1. sess' = [sess EXCEPT ![n].target = target, ![n].asked = TRUE]
    BY <1>2 DEF SessOK
  <2>2. [sess[n] EXCEPT !.target = target, !.asked = TRUE]
           \in [status : SessionStatus, target : SessionStatus,
               alive : BOOLEAN, asked : BOOLEAN, config : Configs]
    BY DEF SessOK, SessionStatus
  <2>3. sess' = [sess EXCEPT ![n] = [sess[n] EXCEPT !.target = target,
                                       !.asked = TRUE]]
    BY <2>1 DEF SessOK
  <2> QED BY <2>2, <2>3 DEF SessOK
<1> QED BY <1>1, <1>2

\* ... as all of them do in every step.
LEMMA SessStep ==
    ASSUME Types, [Next]_vars
    PROVE  SessOK'
<1> USE DEF Types
<1>1. CASE UNCHANGED sess
  BY <1>1 DEF SessOK
<1>2. ASSUME NEW n \in Sessions, SessionEnds(n) PROVE SessOK'
  BY <1>2 DEF SessOK, SessionEnds
<1>3. ASSUME NEW n \in Sessions, SessionExits(n) PROVE SessOK'
  BY <1>3 DEF SessOK, SessionExits
<1>4. ASSUME NEW n \in Sessions, SessionFails(n) PROVE SessOK'
  BY <1>4 DEF SessOK, SessionFails, SessionStatus
<1>5. CASE Ask
  <2>1. cmd.session \in Sessions
    BY <1>5 DEF Ask, CmdOK, HandIsFull
  <2> QED BY <1>5, <2>1, AskStopOK DEF Ask
<1>6. CASE SweepAsk
  <2>1. main.session \in Sessions
    BY <1>6 DEF SweepAsk, MainOK, SweepIsOfOne
  <2> QED BY <1>6, <2>1, AskStopOK DEF SweepAsk
<1>7. CASE CreateSession
  BY <1>7 DEF CreateSession, Fresh, CmdOK, SessOK, SessionStatus
<1> QED BY <1>1, <1>2, <1>3, <1>4, <1>5, <1>6, <1>7
      DEF Next, Operation, Shutdown, Session, Begin, Pause, Resume, Remove, Add,
      UpdateRead, UpdateApply, Joined, JoinTimedOut, StartSlot, CreateFails,
      Refuse, Accept, CommandThreadEnds, Signal, JoinCommands, Sweep,
      SweepWait, Close

\* The command thread keeps its type.
LEMMA CmdStep ==
    ASSUME Types, [Next]_vars
    PROVE  CmdOK' /\ HandIsFull'
<1> USE DEF Types, CmdOK, HandIsFull, Whys
<1>1. CASE UNCHANGED cmd
  BY <1>1
<1>2. ASSUME NEW a \in Actions, NEW c \in Configs, Begin(a, c)
      PROVE  CmdOK' /\ HandIsFull'
  BY <1>2, BeginTo DEF BeginsWith
<1>3. CASE Pause
  BY ZenonT(40), <1>3 DEF Pause, SlotOK
<1>4. CASE Resume
  BY <1>4 DEF Resume
<1>5. CASE Remove
  BY ZenonT(40), <1>5 DEF Remove, SlotOK
<1>6. CASE Add
  BY <1>6 DEF Add
<1>7. CASE UpdateRead
  BY <1>7 DEF UpdateRead, SlotOK
<1>8. CASE UpdateApply
  BY <1>8 DEF UpdateApply
<1>9. CASE Ask
  BY <1>9 DEF Ask
<1>10. CASE Joined
  BY <1>10 DEF Joined
<1>11. CASE JoinTimedOut
  BY <1>11 DEF JoinTimedOut
<1>12. CASE StartSlot
  BY ZenonT(40), <1>12 DEF StartSlot, SlotOK
<1>13. CASE CreateSession
  <2>1. PICK n \in Sessions : cmd' = [cmd EXCEPT !.pc = "accept", !.session = n]
    BY <1>13 DEF CreateSession, Fresh
  <2>2. n \in 0 .. MaxSessions /\ n # 0
    OBVIOUS
  <2> QED BY <2>1, <2>2
<1>14. CASE CreateFails
  BY <1>14 DEF CreateFails
<1>15. CASE Refuse
  BY <1>15 DEF Refuse
<1>16. CASE Accept
  BY ZenonT(40), <1>16 DEF Accept
<1>17. CASE CommandThreadEnds
  BY <1>17 DEF CommandThreadEnds
<1> QED BY <1>1, <1>2, <1>3, <1>4, <1>5, <1>6, <1>7, <1>8, <1>9, <1>10, <1>11,
      <1>12, <1>13, <1>14, <1>15, <1>16, <1>17
      DEF Next, Operation, Shutdown, Session, SessionEnds, SessionExits,
      SessionFails, Signal, JoinCommands, Sweep, SweepAsk, SweepWait, Close

\* The main thread keeps its type.
LEMMA MainStep ==
    ASSUME Types, [Next]_vars
    PROVE  MainOK' /\ SweepIsOfOne'
<1> USE DEF Types, MainOK, SweepIsOfOne
<1>1. CASE UNCHANGED main
  BY <1>1
<1>2. CASE Signal
  BY <1>2 DEF Signal
<1>3. CASE JoinCommands
  BY <1>3 DEF JoinCommands
<1>4. CASE Sweep
  BY <1>4 DEF Sweep, SlotOK
<1>5. CASE SweepAsk
  BY <1>5 DEF SweepAsk
<1>6. CASE SweepWait
  <2>1. PICK b \in BOOLEAN : main' = [main EXCEPT !.pc = "close",
                                         !.session = 0, !.streams = b]
    <3>1. (~ sess[main.session].alive) \in BOOLEAN
      OBVIOUS
    <3> QED BY <1>6, <3>1 DEF SweepWait
  <2>2. 0 \in 0 .. MaxSessions
    OBVIOUS
  <2> QED BY <2>1, <2>2
<1>7. CASE Close
  <2>0. 2 \in 1 .. 2
    OBVIOUS
  <2>1. CASE main' = [main EXCEPT !.pc = "end", !.pass = 2]
    BY <2>0, <2>1
  <2>2. CASE main' = [main EXCEPT !.pc = "join", !.pass = 2]
    BY <2>0, <2>2
  <2> QED BY <1>7, <2>1, <2>2 DEF Close
<1> QED BY <1>1, <1>2, <1>3, <1>4, <1>5, <1>6, <1>7
      DEF Next, Operation, Shutdown, Session, Begin, Pause, Resume, Remove, Add,
      UpdateRead, UpdateApply, Ask, Joined, JoinTimedOut, StartSlot,
      CreateSession, CreateFails, Refuse, Accept, CommandThreadEnds,
      SessionEnds, SessionExits, SessionFails

\* The other variables keep theirs.
LEMMA RestStep ==
    ASSUME Types, [Next]_vars
    PROVE  RestOK'
BY DEF Types, RestOK, Replies, Next, Operation, Shutdown, Session, Begin, Pause,
      Resume, Remove, Add, UpdateRead, UpdateApply, Ask, Joined, JoinTimedOut,
      StartSlot, CreateSession, CreateFails, Refuse, Accept, CommandThreadEnds,
      SessionEnds, SessionExits, SessionFails, Signal, JoinCommands, Sweep,
      SweepAsk, SweepWait, Close

\* No step loses a live thread.
LEMMA OwnedStep ==
    ASSUME Types, Owned, Clear, Starting, Stopping, Closing, [Next]_vars
    PROVE  Owned'
<1> USE DEF Types, SlotOK, NoSlotIsEmpty, SessOK, CmdOK, HandIsFull, MainOK,
           SweepIsOfOne, RestOK, Owned, InHand, Clear, Starting, Stopping,
           Closing
<1>1. CASE UNCHANGED vars
  BY <1>1
<1>2. ASSUME NEW a \in Actions, NEW c \in Configs, Begin(a, c) PROVE Owned'
  <2>1. /\ UNCHANGED <<slot, sess, main, cmdStop, redis>>
        /\ cmd.pc = "idle" /\ ~ cmdStop
    BY <1>2 DEF Begin
  <2>2. CASE cmd' = cmd
    BY <2>1, <2>2
  <2>3. CASE cmd' # cmd
    <3>1. BeginsWith(a)
      BY <1>2, <2>3, BeginTo
    <3> QED BY <2>1, <2>3, <3>1 DEF BeginsWith
  <2> QED BY <2>2, <2>3
<1>3. ASSUME NEW n \in Sessions, SessionEnds(n) PROVE Owned'
  BY <1>3 DEF SessionEnds
<1>4. ASSUME NEW n \in Sessions, SessionExits(n) PROVE Owned'
  BY <1>4 DEF SessionExits
<1>5. ASSUME NEW n \in Sessions, SessionFails(n) PROVE Owned'
  BY <1>5 DEF SessionFails
<1>6. CASE Pause
  <2>1. CASE slot.session = 0
    BY <1>6, <2>1 DEF Pause
  <2>2. CASE slot.session # 0
    BY <1>6, <2>2 DEF Pause
  <2> QED BY <1>6, <2>1, <2>2
<1>7. CASE Resume
  BY <1>7 DEF Resume
<1>8. CASE Remove
  <2>1. CASE slot.session = 0 /\ cmd.action = "start"
    BY <1>8, <2>1 DEF Remove
  <2>2. CASE slot.session = 0 /\ cmd.action # "start"
    BY <1>8, <2>2 DEF Remove
  <2>3. CASE slot.session # 0
    BY <1>8, <2>3 DEF Remove
  <2> QED BY <1>8, <2>1, <2>2, <2>3
<1>9. CASE Add
  BY <1>9 DEF Add
<1>10. CASE UpdateRead
  BY <1>10 DEF UpdateRead
<1>11. CASE UpdateApply
  BY <1>11 DEF UpdateApply
<1>12. CASE Ask
  BY <1>12 DEF Ask
<1>13. CASE Joined
  BY <1>13 DEF Joined
<1>14. CASE JoinTimedOut
  BY <1>14 DEF JoinTimedOut
<1>15. CASE StartSlot
  BY <1>15 DEF StartSlot
<1>16. CASE CreateSession
  BY <1>16 DEF CreateSession, Fresh
<1>17. CASE CreateFails
  BY <1>17 DEF CreateFails
<1>18. CASE Refuse
  BY <1>18 DEF Refuse
<1>19. CASE Accept
  <2>1. CASE slot.session = 0 /\ slot.desired /\ slot.config = cmd.config
    BY <1>19, <2>1 DEF Accept
  <2>2. CASE ~ (slot.session = 0 /\ slot.desired /\ slot.config = cmd.config)
    BY ZenonT(40), <1>19, <2>2 DEF Accept
  <2> QED BY <1>19, <2>1, <2>2
<1>20. CASE CommandThreadEnds
  BY <1>20 DEF CommandThreadEnds
<1>21. CASE Signal
  BY <1>21 DEF Signal
<1>22. CASE JoinCommands
  BY <1>22 DEF JoinCommands
<1>23. CASE Sweep
  BY <1>23 DEF Sweep
<1>24. CASE SweepAsk
  BY <1>24 DEF SweepAsk
<1>25. CASE SweepWait
  BY <1>25 DEF SweepWait
<1>26. CASE Close
  BY <1>26 DEF Close
<1> QED BY <1>1, <1>2, <1>3, <1>4, <1>5, <1>6, <1>7, <1>8, <1>9, <1>10, <1>11,
      <1>12, <1>13, <1>14, <1>15, <1>16, <1>17, <1>18, <1>19, <1>20, <1>21,
      <1>22, <1>23, <1>24, <1>25, <1>26 DEF Next, Operation, Shutdown, Session

\* No thread comes to life before a session is created.
LEMMA ClearStep ==
    ASSUME Types, Owned, Clear, Stopping, [Next]_vars
    PROVE  Clear'
<1> USE DEF Types, SlotOK, NoSlotIsEmpty, SessOK, CmdOK, HandIsFull, MainOK,
           SweepIsOfOne, RestOK, Owned, InHand, Clear, Stopping
<1>1. CASE UNCHANGED vars
  BY <1>1
<1>2. ASSUME NEW a \in Actions, NEW c \in Configs, Begin(a, c) PROVE Clear'
  <2>1. /\ UNCHANGED <<slot, sess, main, cmdStop, redis>>
        /\ cmd.pc = "idle" /\ ~ cmdStop
    BY <1>2 DEF Begin
  <2>2. CASE cmd' = cmd
    BY <2>1, <2>2
  <2>3. CASE cmd' # cmd
    <3>1. BeginsWith(a)
      BY <1>2, <2>3, BeginTo
    <3> QED BY <2>1, <2>3, <3>1 DEF BeginsWith
  <2> QED BY <2>2, <2>3
<1>3. ASSUME NEW n \in Sessions, SessionEnds(n) PROVE Clear'
  BY <1>3 DEF SessionEnds
<1>4. ASSUME NEW n \in Sessions, SessionExits(n) PROVE Clear'
  BY <1>4 DEF SessionExits
<1>5. ASSUME NEW n \in Sessions, SessionFails(n) PROVE Clear'
  BY <1>5 DEF SessionFails
<1>6. CASE Pause
  <2>1. CASE slot.session = 0
    BY <1>6, <2>1 DEF Pause
  <2>2. CASE slot.session # 0
    BY ZenonT(40), <1>6, <2>2 DEF Pause
  <2> QED BY <1>6, <2>1, <2>2
<1>7. CASE Resume
  BY <1>7 DEF Resume
<1>8. CASE Remove
  <2>1. CASE slot.session = 0 /\ cmd.action = "start"
    BY <1>8, <2>1 DEF Remove
  <2>2. CASE slot.session = 0 /\ cmd.action # "start"
    BY <1>8, <2>2 DEF Remove
  <2>3. CASE slot.session # 0
    BY ZenonT(40), <1>8, <2>3 DEF Remove
  <2> QED BY <1>8, <2>1, <2>2, <2>3
<1>9. CASE Add
  BY <1>9 DEF Add
<1>10. CASE UpdateRead
  BY <1>10 DEF UpdateRead
<1>11. CASE UpdateApply
  BY <1>11 DEF UpdateApply
<1>12. CASE Ask
  BY <1>12 DEF Ask
<1>13. CASE Joined
  BY <1>13 DEF Joined
<1>14. CASE JoinTimedOut
  BY <1>14 DEF JoinTimedOut
<1>15. CASE StartSlot
  BY <1>15 DEF StartSlot
<1>16. CASE CreateSession
  BY <1>16 DEF CreateSession, Fresh
<1>17. CASE CreateFails
  BY <1>17 DEF CreateFails
<1>18. CASE Refuse
  BY <1>18 DEF Refuse
<1>19. CASE Accept
  <2>1. CASE slot.session = 0 /\ slot.desired /\ slot.config = cmd.config
    BY <1>19, <2>1 DEF Accept
  <2>2. CASE ~ (slot.session = 0 /\ slot.desired /\ slot.config = cmd.config)
    BY <1>19, <2>2 DEF Accept
  <2> QED BY <1>19, <2>1, <2>2
<1>20. CASE CommandThreadEnds
  BY <1>20 DEF CommandThreadEnds
<1>21. CASE Signal
  BY <1>21 DEF Signal
<1>22. CASE JoinCommands
  BY <1>22 DEF JoinCommands
<1>23. CASE Sweep
  BY <1>23 DEF Sweep
<1>24. CASE SweepAsk
  BY <1>24 DEF SweepAsk
<1>25. CASE SweepWait
  BY <1>25 DEF SweepWait
<1>26. CASE Close
  BY <1>26 DEF Close
<1> QED BY <1>1, <1>2, <1>3, <1>4, <1>5, <1>6, <1>7, <1>8, <1>9, <1>10, <1>11,
      <1>12, <1>13, <1>14, <1>15, <1>16, <1>17, <1>18, <1>19, <1>20, <1>21,
      <1>22, <1>23, <1>24, <1>25, <1>26 DEF Next, Operation, Shutdown, Session

\* A session is created only when no thread is alive.
LEMMA OneAliveStep ==
    ASSUME Types, OneAlive, Clear, [Next]_vars
    PROVE  OneAlive'
<1> USE DEF Types, SlotOK, NoSlotIsEmpty, SessOK, CmdOK, HandIsFull, MainOK,
           SweepIsOfOne, RestOK, OneAlive, Clear
<1>1. CASE UNCHANGED vars
  BY <1>1
<1>2. ASSUME NEW a \in Actions, NEW c \in Configs, Begin(a, c) PROVE OneAlive'
  <2>1. /\ UNCHANGED <<slot, sess, main, cmdStop, redis>>
        /\ cmd.pc = "idle" /\ ~ cmdStop
    BY <1>2 DEF Begin
  <2>2. CASE cmd' = cmd
    BY <2>1, <2>2
  <2>3. CASE cmd' # cmd
    <3>1. BeginsWith(a)
      BY <1>2, <2>3, BeginTo
    <3> QED BY <2>1, <2>3, <3>1 DEF BeginsWith
  <2> QED BY <2>2, <2>3
<1>3. ASSUME NEW n \in Sessions, SessionEnds(n) PROVE OneAlive'
  BY <1>3 DEF SessionEnds
<1>4. ASSUME NEW n \in Sessions, SessionExits(n) PROVE OneAlive'
  BY <1>4 DEF SessionExits
<1>5. ASSUME NEW n \in Sessions, SessionFails(n) PROVE OneAlive'
  BY <1>5 DEF SessionFails
<1>6. CASE Pause
  <2>1. CASE slot.session = 0
    BY <1>6, <2>1 DEF Pause
  <2>2. CASE slot.session # 0
    BY <1>6, <2>2 DEF Pause
  <2> QED BY <1>6, <2>1, <2>2
<1>7. CASE Resume
  BY <1>7 DEF Resume
<1>8. CASE Remove
  <2>1. CASE slot.session = 0 /\ cmd.action = "start"
    BY <1>8, <2>1 DEF Remove
  <2>2. CASE slot.session = 0 /\ cmd.action # "start"
    BY <1>8, <2>2 DEF Remove
  <2>3. CASE slot.session # 0
    BY <1>8, <2>3 DEF Remove
  <2> QED BY <1>8, <2>1, <2>2, <2>3
<1>9. CASE Add
  BY <1>9 DEF Add
<1>10. CASE UpdateRead
  BY <1>10 DEF UpdateRead
<1>11. CASE UpdateApply
  BY <1>11 DEF UpdateApply
<1>12. CASE Ask
  BY <1>12 DEF Ask
<1>13. CASE Joined
  BY <1>13 DEF Joined
<1>14. CASE JoinTimedOut
  BY <1>14 DEF JoinTimedOut
<1>15. CASE StartSlot
  BY <1>15 DEF StartSlot
<1>16. CASE CreateSession
  BY <1>16 DEF CreateSession, Fresh
<1>17. CASE CreateFails
  BY <1>17 DEF CreateFails
<1>18. CASE Refuse
  BY <1>18 DEF Refuse
<1>19. CASE Accept
  <2>1. CASE slot.session = 0 /\ slot.desired /\ slot.config = cmd.config
    BY <1>19, <2>1 DEF Accept
  <2>2. CASE ~ (slot.session = 0 /\ slot.desired /\ slot.config = cmd.config)
    BY <1>19, <2>2 DEF Accept
  <2> QED BY <1>19, <2>1, <2>2
<1>20. CASE CommandThreadEnds
  BY <1>20 DEF CommandThreadEnds
<1>21. CASE Signal
  BY <1>21 DEF Signal
<1>22. CASE JoinCommands
  BY <1>22 DEF JoinCommands
<1>23. CASE Sweep
  BY <1>23 DEF Sweep
<1>24. CASE SweepAsk
  BY <1>24 DEF SweepAsk
<1>25. CASE SweepWait
  BY <1>25 DEF SweepWait
<1>26. CASE Close
  BY <1>26 DEF Close
<1> QED BY <1>1, <1>2, <1>3, <1>4, <1>5, <1>6, <1>7, <1>8, <1>9, <1>10, <1>11,
      <1>12, <1>13, <1>14, <1>15, <1>16, <1>17, <1>18, <1>19, <1>20, <1>21,
      <1>22, <1>23, <1>24, <1>25, <1>26 DEF Next, Operation, Shutdown, Session

\* Only shutdown takes back the wish that a slot being started runs.
LEMMA StartingStep ==
    ASSUME Types, Starting, Closing, Stopping, [Next]_vars
    PROVE  Starting'
<1> USE DEF Types, SlotOK, NoSlotIsEmpty, SessOK, CmdOK, HandIsFull, MainOK,
           SweepIsOfOne, RestOK, Starting, Closing, Stopping
<1>1. CASE UNCHANGED vars
  BY <1>1
<1>2. ASSUME NEW a \in Actions, NEW c \in Configs, Begin(a, c) PROVE Starting'
  <2>1. /\ UNCHANGED <<slot, sess, main, cmdStop, redis>>
        /\ cmd.pc = "idle" /\ ~ cmdStop
    BY <1>2 DEF Begin
  <2>2. CASE cmd' = cmd
    BY <2>1, <2>2
  <2>3. CASE cmd' # cmd
    <3>1. BeginsWith(a)
      BY <1>2, <2>3, BeginTo
    <3> QED BY <2>1, <2>3, <3>1 DEF BeginsWith
  <2> QED BY <2>2, <2>3
<1>3. ASSUME NEW n \in Sessions, SessionEnds(n) PROVE Starting'
  BY <1>3 DEF SessionEnds
<1>4. ASSUME NEW n \in Sessions, SessionExits(n) PROVE Starting'
  BY <1>4 DEF SessionExits
<1>5. ASSUME NEW n \in Sessions, SessionFails(n) PROVE Starting'
  BY <1>5 DEF SessionFails
<1>6. CASE Pause
  <2>1. CASE slot.session = 0
    BY <1>6, <2>1 DEF Pause
  <2>2. CASE slot.session # 0
    BY ZenonT(40), <1>6, <2>2 DEF Pause
  <2> QED BY <1>6, <2>1, <2>2
<1>7. CASE Resume
  BY <1>7 DEF Resume
<1>8. CASE Remove
  <2>1. CASE slot.session = 0 /\ cmd.action = "start"
    BY ZenonT(40), <1>8, <2>1 DEF Remove
  <2>2. CASE slot.session = 0 /\ cmd.action # "start"
    BY <1>8, <2>2 DEF Remove
  <2>3. CASE slot.session # 0
    BY ZenonT(40), <1>8, <2>3 DEF Remove
  <2> QED BY <1>8, <2>1, <2>2, <2>3
<1>9. CASE Add
  BY <1>9 DEF Add
<1>10. CASE UpdateRead
  BY <1>10 DEF UpdateRead
<1>11. CASE UpdateApply
  BY <1>11 DEF UpdateApply
<1>12. CASE Ask
  BY <1>12 DEF Ask
<1>13. CASE Joined
  BY ZenonT(40), <1>13 DEF Joined
<1>14. CASE JoinTimedOut
  BY <1>14 DEF JoinTimedOut
<1>15. CASE StartSlot
  BY <1>15 DEF StartSlot
<1>16. CASE CreateSession
  BY <1>16 DEF CreateSession, Fresh
<1>17. CASE CreateFails
  BY <1>17 DEF CreateFails
<1>18. CASE Refuse
  BY <1>18 DEF Refuse
<1>19. CASE Accept
  <2>1. CASE slot.session = 0 /\ slot.desired /\ slot.config = cmd.config
    BY <1>19, <2>1 DEF Accept
  <2>2. CASE ~ (slot.session = 0 /\ slot.desired /\ slot.config = cmd.config)
    BY <1>19, <2>2 DEF Accept
  <2> QED BY <1>19, <2>1, <2>2
<1>20. CASE CommandThreadEnds
  BY <1>20 DEF CommandThreadEnds
<1>21. CASE Signal
  BY <1>21 DEF Signal
<1>22. CASE JoinCommands
  BY <1>22 DEF JoinCommands
<1>23. CASE Sweep
  BY <1>23 DEF Sweep
<1>24. CASE SweepAsk
  BY <1>24 DEF SweepAsk
<1>25. CASE SweepWait
  BY <1>25 DEF SweepWait
<1>26. CASE Close
  BY <1>26 DEF Close
<1> QED BY <1>1, <1>2, <1>3, <1>4, <1>5, <1>6, <1>7, <1>8, <1>9, <1>10, <1>11,
      <1>12, <1>13, <1>14, <1>15, <1>16, <1>17, <1>18, <1>19, <1>20, <1>21,
      <1>22, <1>23, <1>24, <1>25, <1>26 DEF Next, Operation, Shutdown, Session

\* The session waited for stays the slot's until its thread is gone.
LEMMA StoppingStep ==
    ASSUME Types, Owned, Starting, Stopping, Clear, Closing, [Next]_vars
    PROVE  Stopping'
<1> USE DEF Types, SlotOK, NoSlotIsEmpty, SessOK, CmdOK, HandIsFull, MainOK,
           SweepIsOfOne, RestOK, Owned, InHand, Starting, Stopping, Closing
<1>1. CASE UNCHANGED vars
  BY <1>1
<1>2. ASSUME NEW a \in Actions, NEW c \in Configs, Begin(a, c) PROVE Stopping'
  <2>1. /\ UNCHANGED <<slot, sess, main, cmdStop, redis>>
        /\ cmd.pc = "idle" /\ ~ cmdStop
    BY <1>2 DEF Begin
  <2>2. CASE cmd' = cmd
    BY <2>1, <2>2
  <2>3. CASE cmd' # cmd
    <3>1. BeginsWith(a)
      BY <1>2, <2>3, BeginTo
    <3> QED BY <2>1, <2>3, <3>1 DEF BeginsWith
  <2> QED BY <2>2, <2>3
<1>3. ASSUME NEW n \in Sessions, SessionEnds(n) PROVE Stopping'
  BY <1>3 DEF SessionEnds
<1>4. ASSUME NEW n \in Sessions, SessionExits(n) PROVE Stopping'
  BY <1>4 DEF SessionExits
<1>5. ASSUME NEW n \in Sessions, SessionFails(n) PROVE Stopping'
  BY <1>5 DEF SessionFails
<1>6. CASE Pause
  <2>1. CASE slot.session = 0
    BY <1>6, <2>1 DEF Pause
  <2>2. CASE slot.session # 0
    <3>1. /\ cmd'.pc = "ask" /\ cmd'.session = slot.session
          /\ cmd'.why = "pause" /\ slot'.session = slot.session
      BY ZenonT(40), <1>6, <2>2 DEF Pause
    <3> QED BY <3>1 DEF Stopping
  <2> QED BY <2>1, <2>2
<1>7. CASE Resume
  BY <1>7 DEF Resume
<1>8. CASE Remove
  <2>1. CASE slot.session = 0
    BY <1>8, <2>1 DEF Remove
  <2>2. CASE slot.session # 0
    <3>1. /\ cmd'.pc = "ask" /\ cmd'.session = slot.session
          /\ cmd'.why = "remove" /\ slot'.session = slot.session
      BY <1>8, <2>2 DEF Remove
    <3> QED BY <3>1 DEF Stopping
  <2> QED BY <2>1, <2>2
<1>9. CASE Add
  BY <1>9 DEF Add
<1>10. CASE UpdateRead
  BY <1>10 DEF UpdateRead
<1>11. CASE UpdateApply
  BY <1>11 DEF UpdateApply
<1>12. CASE Ask
  BY <1>12 DEF Ask
<1>13. CASE Joined
  BY <1>13 DEF Joined
<1>14. CASE JoinTimedOut
  BY <1>14 DEF JoinTimedOut
<1>15. CASE StartSlot
  BY ZenonT(40), <1>15 DEF StartSlot
<1>16. CASE CreateSession
  BY <1>16 DEF CreateSession, Fresh
<1>17. CASE CreateFails
  BY <1>17 DEF CreateFails
<1>18. CASE Refuse
  BY <1>18 DEF Refuse
<1>19. CASE Accept
  <2>1. CASE slot.session = 0 /\ slot.desired /\ slot.config = cmd.config
    BY <1>19, <2>1 DEF Accept
  <2>2. CASE ~ (slot.session = 0 /\ slot.desired /\ slot.config = cmd.config)
    BY ZenonT(40), <1>19, <2>2 DEF Accept
  <2> QED BY <1>19, <2>1, <2>2
<1>20. CASE CommandThreadEnds
  BY <1>20 DEF CommandThreadEnds
<1>21. CASE Signal
  BY <1>21 DEF Signal
<1>22. CASE JoinCommands
  BY <1>22 DEF JoinCommands
<1>23. CASE Sweep
  BY <1>23 DEF Sweep
<1>24. CASE SweepAsk
  BY <1>24 DEF SweepAsk
<1>25. CASE SweepWait
  BY <1>25 DEF SweepWait
<1>26. CASE Close
  BY <1>26 DEF Close
<1> QED BY <1>1, <1>2, <1>3, <1>4, <1>5, <1>6, <1>7, <1>8, <1>9, <1>10, <1>11,
      <1>12, <1>13, <1>14, <1>15, <1>16, <1>17, <1>18, <1>19, <1>20, <1>21,
      <1>22, <1>23, <1>24, <1>25, <1>26 DEF Next, Operation, Shutdown, Session

\* A command keeps to its calls.
LEMMA RouteStep ==
    ASSUME Types, Route, [Next]_vars
    PROVE  Route'
<1> USE DEF Types, CmdOK, Route, Whys
<1>1. CASE UNCHANGED vars
  BY <1>1
<1>2. ASSUME NEW a \in Actions, NEW c \in Configs, Begin(a, c) PROVE Route'
  <2>1. /\ UNCHANGED <<slot, sess, main, cmdStop, redis>>
        /\ cmd.pc = "idle" /\ ~ cmdStop
    BY <1>2 DEF Begin
  <2>2. CASE cmd' = cmd
    BY <2>1, <2>2
  <2>3. CASE cmd' # cmd
    <3>1. BeginsWith(a)
      BY <1>2, <2>3, BeginTo
    <3> QED BY <2>1, <2>3, <3>1 DEF BeginsWith
  <2> QED BY <2>2, <2>3
<1>3. ASSUME NEW n \in Sessions, SessionEnds(n) PROVE Route'
  BY <1>3 DEF SessionEnds
<1>4. ASSUME NEW n \in Sessions, SessionExits(n) PROVE Route'
  BY <1>4 DEF SessionExits
<1>5. ASSUME NEW n \in Sessions, SessionFails(n) PROVE Route'
  BY <1>5 DEF SessionFails
<1>6. CASE Pause
  <2>1. CASE slot.session = 0
    BY <1>6, <2>1 DEF Pause
  <2>2. CASE slot.session # 0
    BY ZenonT(40), <1>6, <2>2 DEF Pause
  <2> QED BY <1>6, <2>1, <2>2
<1>7. CASE Resume
  BY <1>7 DEF Resume
<1>8. CASE Remove
  <2>1. CASE slot.session = 0 /\ cmd.action = "start"
    BY <1>8, <2>1 DEF Remove
  <2>2. CASE slot.session = 0 /\ cmd.action # "start"
    BY <1>8, <2>2 DEF Remove
  <2>3. CASE slot.session # 0
    BY <1>8, <2>3 DEF Remove
  <2> QED BY <1>8, <2>1, <2>2, <2>3
<1>9. CASE Add
  BY <1>9 DEF Add
<1>10. CASE UpdateRead
  BY <1>10 DEF UpdateRead
<1>11. CASE UpdateApply
  BY <1>11 DEF UpdateApply
<1>12. CASE Ask
  BY <1>12 DEF Ask
<1>13. CASE Joined
  BY <1>13 DEF Joined
<1>14. CASE JoinTimedOut
  BY <1>14 DEF JoinTimedOut
<1>15. CASE StartSlot
  BY <1>15 DEF StartSlot
<1>16. CASE CreateSession
  BY <1>16 DEF CreateSession, Fresh
<1>17. CASE CreateFails
  BY <1>17 DEF CreateFails
<1>18. CASE Refuse
  BY <1>18 DEF Refuse
<1>19. CASE Accept
  <2>1. CASE slot.session = 0 /\ slot.desired /\ slot.config = cmd.config
    BY <1>19, <2>1 DEF Accept
  <2>2. CASE ~ (slot.session = 0 /\ slot.desired /\ slot.config = cmd.config)
    BY <1>19, <2>2 DEF Accept
  <2> QED BY <1>19, <2>1, <2>2
<1>20. CASE CommandThreadEnds
  BY <1>20 DEF CommandThreadEnds
<1>21. CASE Signal
  BY <1>21 DEF Signal
<1>22. CASE JoinCommands
  BY <1>22 DEF JoinCommands
<1>23. CASE Sweep
  BY <1>23 DEF Sweep
<1>24. CASE SweepAsk
  BY <1>24 DEF SweepAsk
<1>25. CASE SweepWait
  BY <1>25 DEF SweepWait
<1>26. CASE Close
  BY <1>26 DEF Close
<1> QED BY <1>1, <1>2, <1>3, <1>4, <1>5, <1>6, <1>7, <1>8, <1>9, <1>10, <1>11,
      <1>12, <1>13, <1>14, <1>15, <1>16, <1>17, <1>18, <1>19, <1>20, <1>21,
      <1>22, <1>23, <1>24, <1>25, <1>26 DEF Next, Operation, Shutdown, Session

\* The slot's configuration changes only while it holds no session.
LEMMA ConfigKeptStep ==
    ASSUME Types, ConfigKept, Starting, [Next]_vars
    PROVE  ConfigKept'
<1> USE DEF Types, SlotOK, SessOK, CmdOK, HandIsFull, MainOK, SweepIsOfOne,
           ConfigKept, Starting
<1>1. CASE UNCHANGED vars
  BY <1>1
<1>2. ASSUME NEW a \in Actions, NEW c \in Configs, Begin(a, c) PROVE ConfigKept'
  <2>1. /\ UNCHANGED <<slot, sess, main, cmdStop, redis>>
        /\ cmd.pc = "idle" /\ ~ cmdStop
    BY <1>2 DEF Begin
  <2>2. CASE cmd' = cmd
    BY <2>1, <2>2
  <2>3. CASE cmd' # cmd
    <3>1. BeginsWith(a)
      BY <1>2, <2>3, BeginTo
    <3> QED BY <2>1, <2>3, <3>1 DEF BeginsWith
  <2> QED BY <2>2, <2>3
<1>3. ASSUME NEW n \in Sessions, SessionEnds(n) PROVE ConfigKept'
  BY <1>3 DEF SessionEnds
<1>4. ASSUME NEW n \in Sessions, SessionExits(n) PROVE ConfigKept'
  BY <1>4 DEF SessionExits
<1>5. ASSUME NEW n \in Sessions, SessionFails(n) PROVE ConfigKept'
  BY <1>5 DEF SessionFails
<1>6. CASE Pause
  <2>1. /\ sess' = sess /\ slot'.config = slot.config
        /\ slot'.session \in {0, slot.session}
    BY <1>6 DEF Pause
  <2> QED BY <2>1
<1>7. CASE Resume
  BY <1>7 DEF Resume
<1>8. CASE Remove
  <2>1. /\ sess' = sess /\ slot'.config = slot.config
        /\ slot'.session \in {0, slot.session}
    BY <1>8 DEF Remove
  <2> QED BY <2>1
<1>9. CASE Add
  BY <1>9 DEF Add
<1>10. CASE UpdateRead
  BY <1>10 DEF UpdateRead
<1>11. CASE UpdateApply
  BY <1>11 DEF UpdateApply
<1>12. CASE Ask
  BY <1>12 DEF Ask
<1>13. CASE Joined
  <2>1. /\ sess' = sess /\ slot'.config = slot.config
        /\ slot'.session \in {0, slot.session}
    BY <1>13 DEF Joined
  <2> QED BY <2>1
<1>14. CASE JoinTimedOut
  BY <1>14 DEF JoinTimedOut
<1>15. CASE StartSlot
  BY <1>15 DEF StartSlot
<1>16. CASE CreateSession
  BY <1>16 DEF CreateSession, Fresh
<1>17. CASE CreateFails
  BY <1>17 DEF CreateFails
<1>18. CASE Refuse
  BY <1>18 DEF Refuse
<1>19. CASE Accept
  <2>1. CASE slot.session = 0 /\ slot.desired /\ slot.config = cmd.config
    BY <1>19, <2>1 DEF Accept
  <2>2. CASE ~ (slot.session = 0 /\ slot.desired /\ slot.config = cmd.config)
    BY <1>19, <2>2 DEF Accept
  <2> QED BY <1>19, <2>1, <2>2
<1>20. CASE CommandThreadEnds
  BY <1>20 DEF CommandThreadEnds
<1>21. CASE Signal
  BY <1>21 DEF Signal
<1>22. CASE JoinCommands
  BY <1>22 DEF JoinCommands
<1>23. CASE Sweep
  BY <1>23 DEF Sweep
<1>24. CASE SweepAsk
  BY <1>24 DEF SweepAsk
<1>25. CASE SweepWait
  BY <1>25 DEF SweepWait
<1>26. CASE Close
  BY <1>26 DEF Close
<1> QED BY <1>1, <1>2, <1>3, <1>4, <1>5, <1>6, <1>7, <1>8, <1>9, <1>10, <1>11,
      <1>12, <1>13, <1>14, <1>15, <1>16, <1>17, <1>18, <1>19, <1>20, <1>21,
      <1>22, <1>23, <1>24, <1>25, <1>26 DEF Next, Operation, Shutdown, Session

\* What shutdown has seen drained stays so: nothing starts after it.
LEMMA ClosingStep ==
    ASSUME Types, Closing, Starting, [Next]_vars
    PROVE  Closing'
<1> USE DEF Types, SlotOK, NoSlotIsEmpty, SessOK, CmdOK, HandIsFull, MainOK,
           SweepIsOfOne, RestOK, Closing, Starting
<1>1. CASE UNCHANGED vars
  BY <1>1
<1>2. ASSUME NEW a \in Actions, NEW c \in Configs, Begin(a, c) PROVE Closing'
  <2>1. /\ UNCHANGED <<slot, sess, main, cmdStop, redis>>
        /\ cmd.pc = "idle" /\ ~ cmdStop
    BY <1>2 DEF Begin
  <2>2. CASE cmd' = cmd
    BY <2>1, <2>2
  <2>3. CASE cmd' # cmd
    <3>1. BeginsWith(a)
      BY <1>2, <2>3, BeginTo
    <3> QED BY <2>1, <2>3, <3>1 DEF BeginsWith
  <2> QED BY <2>2, <2>3
<1>3. ASSUME NEW n \in Sessions, SessionEnds(n) PROVE Closing'
  BY <1>3 DEF SessionEnds
<1>4. ASSUME NEW n \in Sessions, SessionExits(n) PROVE Closing'
  BY <1>4 DEF SessionExits
<1>5. ASSUME NEW n \in Sessions, SessionFails(n) PROVE Closing'
  BY <1>5 DEF SessionFails
<1>6. CASE Pause
  <2>1. CASE slot.session = 0
    BY <1>6, <2>1 DEF Pause
  <2>2. CASE slot.session # 0
    BY <1>6, <2>2 DEF Pause
  <2> QED BY <1>6, <2>1, <2>2
<1>7. CASE Resume
  BY <1>7 DEF Resume
<1>8. CASE Remove
  <2>1. CASE slot.session = 0 /\ cmd.action = "start"
    BY <1>8, <2>1 DEF Remove
  <2>2. CASE slot.session = 0 /\ cmd.action # "start"
    BY <1>8, <2>2 DEF Remove
  <2>3. CASE slot.session # 0
    BY <1>8, <2>3 DEF Remove
  <2> QED BY <1>8, <2>1, <2>2, <2>3
<1>9. CASE Add
  BY <1>9 DEF Add
<1>10. CASE UpdateRead
  BY <1>10 DEF UpdateRead
<1>11. CASE UpdateApply
  BY <1>11 DEF UpdateApply
<1>12. CASE Ask
  BY <1>12 DEF Ask
<1>13. CASE Joined
  BY <1>13 DEF Joined
<1>14. CASE JoinTimedOut
  BY <1>14 DEF JoinTimedOut
<1>15. CASE StartSlot
  BY <1>15 DEF StartSlot
<1>16. CASE CreateSession
  BY <1>16 DEF CreateSession, Fresh
<1>17. CASE CreateFails
  BY <1>17 DEF CreateFails
<1>18. CASE Refuse
  BY <1>18 DEF Refuse
<1>19. CASE Accept
  <2>1. CASE slot.session = 0 /\ slot.desired /\ slot.config = cmd.config
    BY <1>19, <2>1 DEF Accept
  <2>2. CASE ~ (slot.session = 0 /\ slot.desired /\ slot.config = cmd.config)
    BY <1>19, <2>2 DEF Accept
  <2> QED BY <1>19, <2>1, <2>2
<1>20. CASE CommandThreadEnds
  BY <1>20 DEF CommandThreadEnds
<1>21. CASE Signal
  BY <1>21 DEF Signal
<1>22. CASE JoinCommands
  BY <1>22 DEF JoinCommands
<1>23. CASE Sweep
  BY <1>23 DEF Sweep
<1>24. CASE SweepAsk
  BY <1>24 DEF SweepAsk
<1>25. CASE SweepWait
  BY <1>25 DEF SweepWait
<1>26. CASE Close
  BY <1>26 DEF Close
<1> QED BY <1>1, <1>2, <1>3, <1>4, <1>5, <1>6, <1>7, <1>8, <1>9, <1>10, <1>11,
      <1>12, <1>13, <1>14, <1>15, <1>16, <1>17, <1>18, <1>19, <1>20, <1>21,
      <1>22, <1>23, <1>24, <1>25, <1>26 DEF Next, Operation, Shutdown, Session

-----------------------------------------------------------------------------
(* The inductive invariant.                                                 *)

\* It holds when the process has started.
LEMMA InvInit ==
    ASSUME Init
    PROVE  Types /\ Inv
<1>1. PICK c \in Configs, registered \in BOOLEAN : Init!(c, registered)
  BY DEF Init
<1>2. 0 \in 0 .. MaxSessions
  OBVIOUS
<1>3. SlotOK /\ NoSlotIsEmpty
  BY <1>1, <1>2 DEF SlotOK, NoSlotIsEmpty, SessionStatus
<1>4. SessOK
  BY <1>1 DEF SessOK, SessionStatus
<1>5. CmdOK /\ HandIsFull
  BY <1>1, <1>2 DEF CmdOK, HandIsFull, Actions, Whys
<1>6. MainOK /\ SweepIsOfOne
  BY <1>1, <1>2 DEF MainOK, SweepIsOfOne
<1>7. RestOK
  BY <1>1 DEF RestOK, Replies
<1>8. slot.session = 0 /\ cmd.pc = "idle" /\ main.pc = "run" /\ redis = "open"
      /\ ~ main.commands /\ \A n \in Sessions : ~ sess[n].alive
  BY <1>1
<1>9. SlotIsThere /\ Owned /\ Clear /\ OneAlive
  BY <1>8 DEF SlotIsThere, Owned, Clear, OneAlive
<1>10. Starting /\ Stopping /\ Route
  BY <1>8 DEF Starting, Stopping, Route
<1>11. ConfigKept /\ Closing
  BY <1>8 DEF ConfigKept, Closing
<1> QED BY <1>3, <1>4, <1>5, <1>6, <1>7, <1>9, <1>10, <1>11 DEF Types, Inv

\* Every step of every thread preserves it.
LEMMA InvStep ==
    ASSUME Types, Inv, [Next]_vars
    PROVE  Types' /\ Inv'
<1>1. Types'
  BY SlotStep, NoSlotStep, SessStep, CmdStep, MainStep, RestStep DEF Types, Inv
<1>2. Inv'
  BY NoSlotStep, OwnedStep, ClearStep, OneAliveStep, StartingStep,
     StoppingStep, RouteStep, ConfigKeptStep, ClosingStep DEF Inv
<1> QED BY <1>1, <1>2

\* The command thread and the main thread, each with the lock held only between
\* its own steps, keep the invariant.
THEOREM InvHolds == Spec => [](Types /\ Inv)
<1>1. Init => Types /\ Inv
  BY InvInit
<1>2. Types /\ Inv /\ [Next]_vars => (Types /\ Inv)'
  BY InvStep
<1> QED BY <1>1, <1>2, PTL DEF Spec

-----------------------------------------------------------------------------
(* What the supervisor promises.                                            *)

\* Every variable keeps its type; a slot that was removed holds nothing, and
\* whoever waits for a session has one.
THEOREM TypesHold == Spec => []TypeOK
<1>1. Types => TypeOK
  BY DEF Types, TypeOK, SlotOK, NoSlotIsEmpty, SessOK, CmdOK, HandIsFull,
         MainOK, SweepIsOfOne, RestOK
<1> QED BY <1>1, InvHolds, PTL

\* StreamSupervisor never has two threads of one stream: a replaced session, a
\* restarted one and a startup that races shutdown are gone before the next.
THEOREM OneSessionLives == Spec => []OneLiveSession
<1>1. ASSUME OneAlive PROVE OneLiveSession
  <2> DEFINE L == {n \in Sessions : sess[n].alive}
  <2>1. CASE L = {}
    <3>1. Cardinality(L) = 0
      BY <2>1, FS_EmptySet
    <3> QED BY <3>1 DEF OneLiveSession
  <2>2. ASSUME NEW m \in L PROVE OneLiveSession
    <3>1. L = {m}
      BY <1>1, <2>2 DEF OneAlive
    <3>2. Cardinality(L) = 1
      BY <3>1, FS_Singleton
    <3> QED BY <3>2 DEF OneLiveSession
  <2> QED BY <2>1, <2>2
<1> QED BY <1>1, InvHolds, PTL DEF Inv

\* Nobody forgets a session that runs unasked: it is the slot's, or the command
\* thread is about to install it or to stop it.
THEOREM RunningSessionsAreOwned == Spec => []RunningIsOwned
<1>1. Owned /\ Stopping => RunningIsOwned
  BY DEF Owned, Stopping, InHand, RunningIsOwned, Running
<1> QED BY <1>1, InvHolds, PTL DEF Inv

\* update() replaces session and configuration of the slot in two locked
\* sections; in between, as ever, a running session runs what the slot says.
THEOREM SlotReportsTheConfig == Spec => []RunsReportedConfig
<1>1. ConfigKept => RunsReportedConfig
  BY DEF ConfigKept, RunsReportedConfig
<1> QED BY <1>1, InvHolds, PTL DEF Inv

\* A PAUSE or STOP that was answered with "applied" left no thread of the
\* stream alive, whatever shutdown did meanwhile.
THEOREM AppliedStopsAreQuiet == Spec => AppliedStopIsQuiet
<1> DEFINE Applied == Ends("pause", "applied") \/ Ends("stop", "applied")
           Quiet == \A n \in Sessions : ~ sess'[n].alive
<1>1. ASSUME Types, Inv, [Next]_vars, Applied
      PROVE  Quiet
  <2>1. /\ cmd.pc # "idle" /\ cmd'.pc = "idle"
        /\ cmd.action \in {"pause", "stop"} /\ reply' = "applied"
    BY <1>1 DEF Ends
  <2>2. CmdOK /\ Route /\ Owned /\ Stopping
    BY <1>1 DEF Types, Inv
  <2>3. cmd.pc \notin {"resume", "add", "update", "apply", "start", "create",
                       "accept", "refuse"}
    BY <2>1, <2>2 DEF Route
  <2>4. Operation
    BY <1>1, <2>1 DEF Next, Begin, CommandThreadEnds, Session, SessionEnds,
       SessionExits, SessionFails, Signal, Shutdown, JoinCommands, Sweep,
       SweepAsk, SweepWait, Close
  <2>5. CASE Pause \/ Remove
    <3>1. slot.session = 0 /\ cmd.pc \in {"pause", "remove"} /\ sess' = sess
      BY <2>1, <2>2, <2>5 DEF Pause, Remove, CmdOK
    <3> QED BY <2>2, <3>1 DEF Owned, InHand
  <2>6. CASE Joined
    <3>1. /\ cmd.pc = "join" /\ ~ sess[cmd.session].alive /\ sess' = sess
          /\ slot.session \in {0, cmd.session}
      BY <2>2, <2>6 DEF Joined, Stopping
    <3> QED BY <2>2, <3>1 DEF Owned, InHand
  <2>7. CASE Ask
    BY <2>1, <2>2, <2>7 DEF Ask, CmdOK
  <2>8. CASE JoinTimedOut
    BY <2>1, <2>2, <2>8 DEF JoinTimedOut, Route
  <2> QED BY <2>3, <2>4, <2>5, <2>6, <2>7, <2>8 DEF Operation, Resume, Add,
         UpdateRead, UpdateApply, StartSlot, CreateSession, CreateFails,
         Refuse, Accept
<1>2. Types /\ Inv /\ [Next]_vars => [Applied => Quiet]_vars
  BY <1>1
<1> QED BY <1>2, InvHolds, PTL DEF Spec, AppliedStopIsQuiet

\* Redis is closed only when the command thread is gone and no session of the
\* stream runs on without having been asked to stop.
THEOREM ClosedWithNobodyUnasked ==
    Spec => [](redis = "closed" =>
                  cmd.pc = "gone" /\ \A n \in Sessions : ~ Running(n))
<1>1. Owned /\ Closing =>
         (redis = "closed" =>
             cmd.pc = "gone" /\ \A n \in Sessions : ~ Running(n))
  BY DEF Owned, InHand, Closing, Running
<1> QED BY <1>1, InvHolds, PTL DEF Inv
=============================================================================
