---------------------------- MODULE CommandRequest ----------------------------
(***************************************************************************)
(* The API's side of a command: a client posts it, perhaps again with the  *)
(* same Idempotency-Key when an answer failed to come, a script in Redis   *)
(* makes it an entry of the command stream or finds the receipt it already *)
(* has, and the client asks for the result until the worker has one.  What *)
(* the worker does with an entry is CommandConsumer's subject.             *)
(*                                                                         *)
(* Sources: src/src/presentation/api/main.py and, of its adapters,         *)
(* redis_monitoring_control.py, redis_command_codec.py and                 *)
(* redis_command_result_reader.py.                                         *)
(***************************************************************************)
EXTENDS Integers, Sequences, FiniteSets

CONSTANTS
    Requests,           \* operations a client wants, each with
    KeyOf,              \* its Idempotency-Key, NoKey without
    PrintOf,            \* and the fingerprint of what it asks for
    NoKey,
    NoReceipt,
    MaxPosts,           \* bound: posts, each with a command id of its own
    MaxRefused          \* bound: failing Redis calls

ASSUME RequestAssumption ==
    /\ KeyOf \in [Requests -> {KeyOf[r] : r \in Requests}]
    /\ PrintOf \in [Requests -> {PrintOf[r] : r \in Requests}]
    /\ NoReceipt \notin [id : Nat, print : {PrintOf[r] : r \in Requests}]
    /\ {MaxPosts, MaxRefused} \subseteq Nat

VARIABLES
    posts,          \* posts made so far
    calls,          \* posts under way: [id, request, answer]
    keyed,          \* Redis: idempotency key -> [id, print], NoReceipt if none
    submitted,      \* Redis: ids of the submitted markers
    commands,       \* Redis: stream of commands, [id, print, key]
    processed,      \* Redis: id -> its processed marker: "no", "kept", "expired"
    receipts,       \* request -> ids of the receipts its client got
    lookup,         \* the command whose result is asked for (bound: one, 0 until
                    \* it is chosen), whether its processed marker has been
                    \* read, and the last answer
    refused

requestVars == <<posts, calls, keyed, submitted, commands, processed,
                 receipts, lookup, refused>>

CommandIds == 1 .. MaxPosts
NoAnswer == 0           \* of a post under way; else it is the id of a receipt
Conflict == -1
IdempotencyKeys == {KeyOf[r] : r \in Requests} \ {NoKey}

Refuse == /\ refused > 0
          /\ refused' = refused - 1

-----------------------------------------------------------------------------
(* Submission.                                                             *)

\* A client posts a request, also while an earlier post of it is under way or
\* after one that failed.  _submit gives each a new command id.
Post(r) ==
    /\ posts < MaxPosts
    /\ posts' = posts + 1
    /\ calls' = calls \cup {[id |-> posts + 1, request |-> r, answer |-> NoAnswer]}
    /\ UNCHANGED <<keyed, submitted, commands, processed, receipts, lookup, refused>>

Answered(call, result) == (calls \ {call}) \cup {[call EXCEPT !.answer = result]}

\* Mutant: a key that is known is answered with its receipt, whatever is asked.
ReplaysAny(call) ==
    /\ KeyOf[call.request] \in IdempotencyKeys
    /\ keyed[KeyOf[call.request]] # NoReceipt

\* SUBMIT_COMMAND_LUA: the key has a receipt for the same request ...
Replays(call) ==
    /\ KeyOf[call.request] \in IdempotencyKeys
    /\ keyed[KeyOf[call.request]] # NoReceipt
    /\ keyed[KeyOf[call.request]].print = PrintOf[call.request]

\* ... or for another one ...
Conflicts(call) ==
    /\ KeyOf[call.request] \in IdempotencyKeys
    /\ keyed[KeyOf[call.request]] # NoReceipt
    /\ ~Replays(call)

\* ... or none, and the command is added.
SubmitCommand(call) ==
    /\ call \in calls /\ call.answer = NoAnswer
    /\ LET key == KeyOf[call.request]
           record == [id |-> call.id, print |-> PrintOf[call.request]]
           fresh == ~Replays(call) /\ ~Conflicts(call)
           result == IF fresh THEN call.id
                     ELSE IF Conflicts(call) THEN Conflict ELSE keyed[key].id
       IN  /\ keyed' = IF fresh /\ key # NoKey THEN [keyed EXCEPT ![key] = record] ELSE keyed
           /\ submitted' = IF fresh THEN submitted \cup {call.id} ELSE submitted
           /\ commands' = IF fresh
                          THEN Append(commands, [id |-> call.id, key |-> key,
                                                 print |-> PrintOf[call.request]])
                          ELSE commands
           /\ \/ calls' = Answered(call, result) /\ UNCHANGED refused
              \/ Refuse /\ calls' = calls \ {call}      \* only the answer is lost
    /\ UNCHANGED <<posts, processed, receipts, lookup>>

\* Redis is unavailable: 503, and nothing was done.
SubmitFails(call) ==
    /\ call \in calls /\ call.answer = NoAnswer
    /\ Refuse
    /\ calls' = calls \ {call}
    /\ UNCHANGED <<posts, keyed, submitted, commands, processed, receipts, lookup>>

\* The client gets 202 with a receipt, or 409, or it has gone.
PostReturns(call) ==
    /\ call \in calls /\ call.answer # NoAnswer
    /\ calls' = calls \ {call}
    /\ receipts' = IF call.answer = Conflict THEN receipts
                   ELSE [receipts EXCEPT ![call.request] = @ \cup {call.answer}]
    /\ UNCHANGED <<posts, keyed, submitted, commands, processed, lookup, refused>>

\* submission_ttl_seconds have passed since the script set both keys.
SubmissionExpires(id) ==
    /\ id \in submitted
    /\ submitted' = submitted \ {id}
    /\ keyed' = [k \in IdempotencyKeys |->
                    IF keyed[k] # NoReceipt /\ keyed[k].id = id THEN NoReceipt ELSE keyed[k]]
    /\ UNCHANGED <<posts, calls, commands, processed, receipts, lookup, refused>>

-----------------------------------------------------------------------------
(* The result.                                                             *)

\* The worker's finalization, of any entry it has not yet processed.
FinishCommand(id) ==
    /\ id \in {commands[i].id : i \in DOMAIN commands} /\ processed[id] = "no"
    /\ processed' = [processed EXCEPT ![id] = "kept"]
    /\ UNCHANGED <<posts, calls, keyed, submitted, commands, receipts, lookup, refused>>

\* Mutant: the result is kept for less time than the receipt.
ResultExpiresFirst(id) ==
    /\ processed[id] = "kept"
    /\ processed' = [processed EXCEPT ![id] = "expired"]
    /\ UNCHANGED <<posts, calls, keyed, submitted, commands, receipts, lookup, refused>>

\* processed_ttl_seconds, by default those of the submission, have passed since
\* a later moment.
ResultExpires(id) ==
    /\ processed[id] = "kept" /\ id \notin submitted
    /\ processed' = [processed EXCEPT ![id] = "expired"]
    /\ UNCHANGED <<posts, calls, keyed, submitted, commands, receipts, lookup, refused>>

\* get_command_result: first the processed marker; who has it is answered.
LookupProcessed(id) ==
    /\ ~lookup.reading /\ lookup.id \in {0, id}
    /\ \E r \in Requests : id \in receipts[r]
    /\ lookup' = IF processed[id] = "kept"
                 THEN [id |-> id, reading |-> FALSE, answer |-> "FINAL"]
                 ELSE [lookup EXCEPT !.id = id, !.reading = TRUE]
    /\ UNCHANGED <<posts, calls, keyed, submitted, commands, processed, receipts, refused>>

\* Then, in another call, the submitted marker: 202 or 404.
LookupSubmitted ==
    /\ lookup.reading
    /\ lookup' = [lookup EXCEPT !.reading = FALSE,
                     !.answer = IF lookup.id \in submitted THEN "PENDING" ELSE "MISSING"]
    /\ UNCHANGED <<posts, calls, keyed, submitted, commands, processed, receipts, refused>>

\* Redis fails between the two: 503.
LookupFails ==
    /\ lookup.reading
    /\ Refuse
    /\ lookup' = [lookup EXCEPT !.reading = FALSE]
    /\ UNCHANGED <<posts, calls, keyed, submitted, commands, processed, receipts>>

-----------------------------------------------------------------------------
RequestInit ==
    /\ posts = 0 /\ calls = {}
    /\ keyed = [k \in IdempotencyKeys |-> NoReceipt]
    /\ submitted = {} /\ commands = <<>>
    /\ processed = [id \in CommandIds |-> "no"]
    /\ receipts = [r \in Requests |-> {}]
    /\ lookup = [id |-> 0, reading |-> FALSE, answer |-> "none"]
    /\ refused = MaxRefused

RequestNext ==
    \/ \E r \in Requests : Post(r)
    \/ \E call \in calls : SubmitCommand(call) \/ SubmitFails(call) \/ PostReturns(call)
    \/ \E id \in CommandIds :
          SubmissionExpires(id) \/ FinishCommand(id) \/ ResultExpires(id) \/ LookupProcessed(id)
    \/ LookupSubmitted \/ LookupFails

RequestSpec == RequestInit /\ [][RequestNext]_requestVars

-----------------------------------------------------------------------------
(* Properties.                                                             *)

\* However often a client posts a request under one key, at once or after an
\* answer was lost, it becomes one command for as long as its receipt lives; and
\* every receipt is for a command that asks for what its holder asked for.
OneCommandPerKey ==
    /\ \A k \in IdempotencyKeys :
          Cardinality({i \in DOMAIN commands :
                          commands[i].key = k /\ commands[i].id \in submitted}) <= 1
    /\ \A r \in Requests : \A id \in receipts[r] :
          \E i \in DOMAIN commands :
             commands[i].id = id /\ commands[i].print = PrintOf[r]

\* Who asks for a result again and again, through two reads with the worker
\* between them, never loses one it was given for a mere receipt, and is told
\* that there is no such command only when the time of the receipt is over.
AnswersAdvance ==
    [][lookup'.answer # lookup.answer =>
          /\ lookup.answer = "FINAL" => lookup'.answer = "MISSING"
          /\ lookup'.answer = "MISSING" => lookup.id \notin submitted]_requestVars
=============================================================================
