------------------------------ MODULE MediaGates ------------------------------
(***************************************************************************)
(* Where batches wait: the bounded executor of each stream, whose threads  *)
(* analyse one segment at a time (the default parallelism of video), and   *)
(* the two process gates an analysis passes, that of its stream and then   *)
(* the one all streams of the process share.  A gate is a counter under a  *)
(* condition: whoever wakes up must look again, and a thread that has not  *)
(* slept may be quicker.                                                   *)
(*                                                                         *)
(* Sources: src/src/core/media_process_budget.py, bounded_executor.py,     *)
(* process_runner.py, profile_worker.py (_analyze), profile_scheduler.py   *)
(* (submission and shutdown).                                              *)
(***************************************************************************)
EXTENDS Integers, SequencesExt

CONSTANTS
    Streams,
    Service,            \* the gate that all streams share
    Threads,            \* threads of the executors
    StreamOf,           \* thread -> stream
    StreamLimit,        \* max_concurrent_media_processes
    ServiceLimit,       \* the limit of the service gate
    Pending,            \* max_pending_tasks
    MaxBatches          \* bound: stream -> batches submitted for it

ASSUME GatesAssumption ==
    /\ Service \notin Streams
    /\ IsFiniteSet(Threads) /\ Threads \subseteq Int
    /\ StreamOf \in [Threads -> Streams]
    /\ {StreamLimit, ServiceLimit} \subseteq Nat \ {0}
    /\ Pending \in Nat /\ MaxBatches \in [Streams -> Nat]

VARIABLES
    pool,       \* stream -> its executor: free permits, queued batches, whether
                \* it is open, and the batches not yet submitted
    thread,     \* thread -> what it does
    gate        \* gate -> active, and the threads that wait for a notification

gatesVars == <<pool, thread, gate>>

Gates == Streams \cup {Service}
Limit(g) == IF g = Service THEN ServiceLimit ELSE StreamLimit

\* max_workers + max_pending_tasks.
Capacity(s) == Cardinality({t \in Threads : StreamOf[t] = s}) + Pending

\* The stages of an analysis, in their order: asking the gate of the stream and
\* of the service (or asleep there), the process, and giving the gates back.
Asking(g) == IF g = Service THEN "askService" ELSE "askStream"
Asleep(g) == IF g = Service THEN "sleepService" ELSE "sleepStream"
Stages == {"free", "askStream", "sleepStream", "askService", "sleepService",
           "process", "giveService", "giveStream", "end"}

Meets(t, g) == g \in {Service, StreamOf[t]}
At(stages, g) == {t \in Threads : Meets(t, g) /\ thread[t] \in stages}

Holders(g) ==
    At({"process", "giveService"} \cup
             IF g = Service THEN {}
             ELSE {"askService", "sleepService", "giveStream"}, g)

-----------------------------------------------------------------------------
\* try_submit: without a permit, or after shutdown, the batch is refused.
SubmitBatch(s) ==
    /\ pool[s].left > 0
    /\ pool[s].open
    /\ pool[s].permits > 0
    /\ pool' = [pool EXCEPT ![s].left = @ - 1, ![s].permits = @ - 1, ![s].queued = @ + 1]
    /\ UNCHANGED <<thread, gate>>

\* shutdown(cancel_futures=True): a batch no thread has taken is cancelled, and
\* its done callback returns the permit; the batches being run go on.
ShutDown(s) ==
    /\ pool[s].open
    /\ pool' = [pool EXCEPT ![s].open = FALSE, ![s].queued = 0,
                            ![s].permits = @ + pool[s].queued]
    /\ UNCHANGED <<thread, gate>>

\* A thread takes a batch and begins its first analysis: any of the free ones, but
\* they differ in their numbers only, so it is the first.
Take(t) ==
    /\ thread[t] = "free"
    /\ \A u \in Threads : StreamOf[u] = StreamOf[t] /\ thread[u] = "free" => t <= u
    /\ pool[StreamOf[t]].queued > 0
    /\ pool' = [pool EXCEPT ![StreamOf[t]].queued = @ - 1]
    /\ thread' = [thread EXCEPT ![t] = "askStream"]
    /\ UNCHANGED gate

\* ObservableProcessGate.acquire, also after a notification: the first gate of
\* the composite is the stream's.
Acquire(t, g) ==
    /\ Meets(t, g) /\ thread[t] = Asking(g)
    /\ IF gate[g].active < Limit(g)
       THEN /\ gate' = [gate EXCEPT ![g].active = @ + 1]
            /\ thread' = [thread EXCEPT ![t] = IF g = Service THEN "process" ELSE "askService"]
       ELSE /\ gate' = [gate EXCEPT ![g].sleepers = Append(@, t)]
            /\ thread' = [thread EXCEPT ![t] = Asleep(g)]
    /\ UNCHANGED pool

\* The process ends: it exits, is killed at its timeout, or cannot be started.
EndProcess(t) ==
    /\ thread[t] = "process"
    /\ thread' = [thread EXCEPT ![t] = "giveService"]
    /\ UNCHANGED <<pool, gate>>

\* Mutant: the thread that has waited longest of the own stream is woken.
ReleaseToOwnStream(t, g) ==
    /\ Meets(t, g) /\ thread[t] = IF g = Service THEN "giveService" ELSE "giveStream"
    /\ \E own \in {SelectSeq(gate[g].sleepers, LAMBDA w : StreamOf[w] = StreamOf[t])} :
       \E woken \in {{own[i] : i \in 1 .. 1 \cap DOMAIN own}} :
          /\ gate' = [gate EXCEPT ![g].active = @ - 1,
                         ![g].sleepers = SelectSeq(@, LAMBDA w : w \notin woken)]
          /\ thread' = [w \in Threads |->
                IF w \in woken THEN Asking(g)
                ELSE IF w # t THEN thread[w]
                ELSE IF g = Service THEN "giveStream" ELSE "end"]
    /\ UNCHANGED pool

\* release, of the service's gate first: notify() wakes the thread that has
\* waited longest.
Release(t, g) ==
    /\ Meets(t, g) /\ thread[t] = IF g = Service THEN "giveService" ELSE "giveStream"
    /\ LET next == IF g = Service THEN "giveStream" ELSE "end"
       IN  IF gate[g].sleepers = <<>>
           THEN /\ gate' = [gate EXCEPT ![g].active = @ - 1]
                /\ thread' = [thread EXCEPT ![t] = next]
           ELSE /\ gate' = [gate EXCEPT ![g].active = @ - 1, ![g].sleepers = Tail(@)]
                /\ thread' = [thread EXCEPT ![t] = next,
                                            ![Head(gate[g].sleepers)] = Asking(g)]
    /\ UNCHANGED pool

\* The batch has another segment to analyse, or it is done: its callback returns
\* the permit.
EndAnalysis(t) ==
    /\ thread[t] = "end"
    /\ \/ /\ thread' = [thread EXCEPT ![t] = "askStream"]
          /\ UNCHANGED pool
       \/ /\ thread' = [thread EXCEPT ![t] = "free"]
          /\ pool' = [pool EXCEPT ![StreamOf[t]].permits = @ + 1]
    /\ UNCHANGED gate

-----------------------------------------------------------------------------
GatesInit ==
    /\ pool = [s \in Streams |-> [permits |-> Capacity(s), queued |-> 0, open |-> TRUE,
                                  left |-> MaxBatches[s]]]
    /\ thread = [t \in Threads |-> "free"]
    /\ gate = [g \in Gates |-> [active |-> 0, sleepers |-> <<>>]]

GatesNext ==
    \/ \E s \in Streams : SubmitBatch(s) \/ ShutDown(s)
    \/ \E t \in Threads :
          \/ Take(t) \/ EndProcess(t) \/ EndAnalysis(t)
          \/ \E g \in Gates : Acquire(t, g) \/ Release(t, g)

GatesSpec == GatesInit /\ [][GatesNext]_gatesVars

-----------------------------------------------------------------------------
(* Properties.                                                             *)

\* No slot is lost and none is given twice, by either gate or the executor; a
\* slot is never free while a thread sleeps that nobody awake will take; and the
\* two gates never leave every analysis asleep, whatever wakes up in which order.
SlotsServed ==
    /\ \A g \in Gates :
          /\ gate[g].active = Cardinality(Holders(g)) /\ gate[g].active <= Limit(g)
          /\ ToSet(gate[g].sleepers) = At({Asleep(g)}, g)
          /\ gate[g].sleepers # <<>> =>
                Limit(g) - gate[g].active <= Cardinality(At({Asking(g)}, g))
    /\ \A s \in Streams :
          Capacity(s) - pool[s].permits =
             pool[s].queued + Cardinality(At(Stages \ {"free"}, s))
    /\ (\E t \in Threads : thread[t] \in {"sleepStream", "sleepService"}) =>
          \E t \in Threads : thread[t] \notin {"free", "sleepStream", "sleepService"}
=============================================================================
