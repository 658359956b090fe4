------------------------- MODULE CommandConsumerProofs -------------------------
(***************************************************************************)
(* Proofs about CommandConsumer, for every set of commands, every number   *)
(* of entries, faults and crashes, and every batch size.                   *)
(*                                                                         *)
(* The group reads new entries only when nothing is pending, so what is    *)
(* pending is always the rest of the last batch, under one consumer name,  *)
(* and so is what the command thread has in hand or has deferred.          *)
(***************************************************************************)
EXTENDS CommandConsumer, FiniteSetTheorems, TLAPS

-----------------------------------------------------------------------------
(* The inductive invariant.                                                 *)

StreamOK ==
    /\ stream \in Seq([id : Ids, kind : Kinds \cup {"invalid"},
                       config : Configs])
    /\ Len(stream) <= MaxEntries
    /\ \A e \in DOMAIN stream : Command(e) \in Payloads
OwnerOK ==
    /\ owner \in [Entries -> Names \cup {None}]
    /\ delivered \in 0 .. Len(stream)
    /\ \A e \in Entries : e > delivered => owner[e] = None
AnswersOK ==
    /\ marker \in [Ids -> SUBSET Payloads]
    /\ results \in Seq([id : Ids, kind : Kinds, status : Statuses])
    /\ dead \subseteq 1 .. delivered
StateOK ==
    /\ registry \in [life : {None, "running", "paused", "stopped"},
                     config : Configs \cup {None}]
    /\ actual \in [life : {"absent", "running", "paused", "failed"},
                   config : Configs \cup {None}, wants : BOOLEAN]
    /\ left \in [faults : 0 .. MaxFaults, crashes : 0 .. MaxCrashes,
                 failures : 0 .. MaxFailures]
ThreadOK ==
    /\ name \in Names
    /\ stage \in Stages
    /\ retrying \in BOOLEAN
    /\ outcome \in Statuses \cup {None}
    /\ stage \in {"save", "finalize"} => outcome \in Statuses

Types == StreamOK /\ OwnerOK /\ AnswersOK /\ StateOK /\ ThreadOK

\* The last entries delivered, in order.
IsRest(s) ==
    /\ s \in Seq(Nat)
    /\ Len(s) <= delivered
    /\ \A i \in 1 .. Len(s) : s[i] = delivered - Len(s) + i

Answered(e) == marker[stream[e].id] = {Command(e)}

\* All that is pending is in s, under the name of the process; only the first
\* entry of s may have been finalized without the process knowing.
Covers(s) ==
    s # <<>> =>
        /\ \A e \in Entries : owner[e] # None => e >= s[1]
        /\ \A e \in Entries : s[1] < e /\ e <= delivered => owner[e] = name
        /\ owner[s[1]] # name => owner[s[1]] = None /\ Answered(s[1])

\* What the command thread has in hand or keeps for later.
Hands ==
    /\ IsRest(todo) /\ IsRest(deferred)
    /\ Covers(todo) /\ Covers(deferred)
    /\ stage \in {"look", "save", "finalize"} <=> todo # <<>>
    /\ todo # <<>> => deferred = IF retrying THEN todo ELSE <<>>
    /\ stage \in {"down", "recover"} => deferred = <<>>

\* The entry that is executed is pending, and its id has no result yet.
Executing ==
    stage \in {"save", "finalize"} =>
        /\ owner[todo[1]] = name
        /\ ~ Unacceptable(todo[1])
        /\ marker[stream[todo[1]].id] = {}

\* What is pending is the rest of one batch, under one consumer name.
OneBatch ==
    \E a \in 0 .. delivered, n \in Names :
        /\ delivered - a <= BatchSize
        /\ owner = [e \in Entries |-> IF a < e /\ e <= delivered THEN n ELSE None]

\* An id is marked when, and only when, it has its result.
MarkedIsTold ==
    \A i \in Ids : marker[i] # {} <=> \E k \in DOMAIN results : results[k].id = i

Recorded ==
    results # <<>> /\ Succeeded(Last(results).status) =>
        registry.life = DesiredLife(Last(results).kind, registry.life)

\* The earliest pending entry still has to be executed.
FirstIsDue ==
    \E e \in Entries :
        /\ owner[e] # None /\ \A f \in 1 .. e - 1 : owner[f] = None
        /\ ~ Unacceptable(e)
        /\ marker[stream[e].id] = {}

\* The registry is ahead of the last result only while the command that wrote
\* it is due; and it is written before success is reported.
RecordedFirst ==
    /\ Recorded \/ FirstIsDue
    /\ stage = "finalize" /\ Succeeded(outcome) =>
          registry.life = DesiredLife(stream[todo[1]].kind, registry.life)

Inv == /\ Hands /\ Executing /\ OneBatch
       /\ OneResult /\ MarkedIsTold /\ AckedIsAnswered /\ RecordedFirst

-----------------------------------------------------------------------------
(* Operators.                                                               *)

\* The first n of an interval of entries are its first n numbers.
LEMMA EarliestOfInterval ==
    ASSUME NEW a \in Nat, NEW b \in Nat, a <= b, NEW n \in Nat
    PROVE  Earliest(n, a + 1 .. b) =
              [i \in 1 .. IF b - a < n THEN b - a ELSE n |-> a + i]
<1> DEFINE S == a + 1 .. b
<1>0. ASSUME NEW c \in Nat, a <= c PROVE Cardinality(a + 1 .. c) = c - a
  <2>1. a + 1 \in Int /\ c \in Int
    OBVIOUS
  <2>2. Cardinality(a + 1 .. c) = IF a + 1 > c THEN 0 ELSE c - (a + 1) + 1
    BY <2>1, FS_Interval
  <2> QED BY <1>0, <2>2
<1>1. Cardinality(S) = b - a
  BY <1>0
<1>2. ASSUME NEW e \in S PROVE Cardinality({f \in S : f <= e}) = e - a
  <2>1. {f \in S : f <= e} = a + 1 .. e
    OBVIOUS
  <2>2. e \in Nat /\ a <= e
    OBVIOUS
  <2>3. Cardinality(a + 1 .. e) = e - a
    BY <2>2, <1>0
  <2> QED BY <2>1, <2>3
<1>3. ASSUME NEW i \in 1 .. b - a
      PROVE  (CHOOSE e \in S : Cardinality({f \in S : f <= e}) = i) = a + i
  <2>1. a + i \in S /\ Cardinality({f \in S : f <= a + i}) = i
    BY <1>2
  <2>2. ASSUME NEW e \in S, Cardinality({f \in S : f <= e}) = i
        PROVE  e = a + i
    BY <1>2, <2>2
  <2> QED BY <2>1, <2>2
<1>4. \A i \in 1 .. (IF b - a < n THEN b - a ELSE n) : i \in 1 .. b - a
  OBVIOUS
<1> HIDE DEF S
<1>5. Earliest(n, S) =
         [i \in 1 .. IF b - a < n THEN b - a ELSE n |->
            CHOOSE e \in S : Cardinality({f \in S : f <= e}) = i]
  BY <1>1 DEF Earliest
<1>6. Earliest(n, S) =
         [i \in 1 .. IF b - a < n THEN b - a ELSE n |-> a + i]
  BY <1>3, <1>4, <1>5
<1> QED BY <1>6 DEF S

\* What an operation returns is a status, and what it leaves is a slot.
LEMMA OutcomeOK ==
    ASSUME StateOK, NEW kind \in Kinds, NEW c \in Configs,
           NEW o \in Outcomes(kind, c)
    PROVE  /\ o[1] \in Statuses
           /\ o[2] \in [life : {"absent", "running", "paused", "failed"},
                        config : Configs \cup {None}, wants : BOOLEAN]
<1> DEFINE Slots == [life : {"absent", "running", "paused", "failed"},
                     config : Configs \cup {None}, wants : BOOLEAN]
<1>1. \A s \in Statuses : Stays(s) \subseteq Statuses \X Slots
  BY DEF Stays, StateOK
<1>2. ASSUME NEW d \in Configs \cup {None}
      PROVE  Starts(d) \subseteq Statuses \X Slots /\ Idles(d) \subseteq Statuses \X Slots
  <2>1. <<"applied", [life |-> "running", config |-> d, wants |-> TRUE]>>
          \in Statuses \X Slots
    BY DEF Statuses
  <2>2. <<"failed", [life |-> "failed", config |-> d, wants |-> TRUE]>>
          \in Statuses \X Slots
    BY DEF Statuses
  <2>3. <<"applied", [life |-> "paused", config |-> d, wants |-> FALSE]>>
          \in Statuses \X Slots
    BY DEF Statuses
  <2> HIDE DEF Slots
  <2> QED BY <2>1, <2>2, <2>3 DEF Starts, Idles
<1>3. <<"applied", Absent>> \in Statuses \X Slots
  BY DEF Absent, Statuses
<1>4. actual.config \in Configs \cup {None}
  BY DEF StateOK
<1>5. Outcomes(kind, c) \in
         {Stays("rejected"), Stays("noop"), Stays("failed"),
          {<<"applied", Absent>>}, Starts(c), Starts(actual.config), Idles(c),
          Idles(actual.config)}
  BY DEF Outcomes
<1>6. Outcomes(kind, c) \subseteq Statuses \X Slots
  BY <1>1, <1>2, <1>3, <1>4, <1>5 DEF Statuses
<1> QED BY <1>6

\* A bound that is spent stays within its type.
LEMMA SpendOK ==
    ASSUME StateOK, NEW what \in {"faults", "crashes", "failures"}, Spend(what)
    PROVE  left' \in [faults : 0 .. MaxFaults, crashes : 0 .. MaxCrashes,
                      failures : 0 .. MaxFailures]
<1> USE ConsumerAssumption DEF StateOK, Spend
<1>1. CASE what = "faults"
  BY <1>1
<1>2. CASE what = "crashes"
  BY <1>2
<1>3. CASE what = "failures"
  BY <1>3
<1> QED BY <1>1, <1>2, <1>3

\* The first entry in hand is an entry of the stream.
LEMMA CurrentIsDelivered ==
    ASSUME Types, Hands, todo # <<>>
    PROVE  /\ Current = todo[1] /\ Current \in 1 .. delivered
           /\ Current \in Entries /\ Current \in DOMAIN stream
           /\ stream[Current] \in [id : Ids, kind : Kinds \cup {"invalid"},
                                   config : Configs]
           /\ Command(Current) \in Payloads
           /\ Len(todo) \in Nat \ {0} /\ Current = delivered - Len(todo) + 1
<1>1. /\ todo \in Seq(Nat) /\ Len(todo) <= delivered
      /\ \A i \in 1 .. Len(todo) : todo[i] = delivered - Len(todo) + i
  BY DEF Hands, IsRest
<1>2. Len(todo) \in Nat \ {0} /\ Current = todo[1]
  BY <1>1 DEF Current
<1>3. delivered \in Nat /\ delivered <= Len(stream) /\ Len(stream) <= MaxEntries
      /\ Len(stream) \in Nat
  BY DEF Types, OwnerOK, StreamOK
<1>4. Current \in 1 .. delivered /\ Current = delivered - Len(todo) + 1
  BY <1>1, <1>2, <1>3
<1>5. Current \in Entries /\ Current \in 1 .. Len(stream)
  BY <1>3, <1>4, ConsumerAssumption DEF Entries
<1>6. /\ stream \in Seq([id : Ids, kind : Kinds \cup {"invalid"},
                         config : Configs])
      /\ \A e \in DOMAIN stream : Command(e) \in Payloads
  BY DEF Types, StreamOK
<1>7. Current \in DOMAIN stream /\ stream[Current] \in
         [id : Ids, kind : Kinds \cup {"invalid"}, config : Configs]
  <2> DEFINE Record == [id : Ids, kind : Kinds \cup {"invalid"}, config : Configs]
  <2> HIDE DEF Record
  <2>1. stream \in Seq(Record)
    BY <1>6 DEF Record
  <2>2. Current \in DOMAIN stream /\ stream[Current] \in Record
    BY <1>5, <2>1
  <2> QED BY <2>2 DEF Record
<1> QED BY <1>2, <1>4, <1>5, <1>6, <1>7

-----------------------------------------------------------------------------
(* A poll of the group.                                                     *)

\* The numbers after a.
LEMMA FromIsRest ==
    ASSUME NEW a \in Nat, NEW m \in Nat,
           NEW s, s = [i \in 1 .. m |-> a + i]
    PROVE  /\ s \in Seq(Nat) /\ Len(s) = m
           /\ \A i \in 1 .. m : s[i] = a + i
           /\ ToSet(s) = a + 1 .. a + m
<1>1. s \in Seq(Nat) /\ Len(s) = m /\ DOMAIN s = 1 .. m
  OBVIOUS
<1>2. ASSUME NEW e \in a + 1 .. a + m PROVE e \in ToSet(s)
  <2>1. e - a \in 1 .. m /\ s[e - a] = e
    OBVIOUS
  <2> QED BY <1>1, <2>1 DEF ToSet
<1>3. ToSet(s) \subseteq a + 1 .. a + m
  BY <1>1 DEF ToSet
<1> QED BY <1>1, <1>2, <1>3

\* Own pending entries, entries claimed from another name and new entries are
\* all the rest of one batch, which the process then holds completely.
LEMMA PollTakesBatch ==
    ASSUME Types, OneBatch, PollOwn \/ PollClaim \/ PollNew
    PROVE  \E a \in 0 .. delivered' :
              /\ a < delivered' /\ delivered' - a <= BatchSize
              /\ delivered <= delivered' /\ delivered' \in 0 .. Len(stream)
              /\ owner' = [e \in Entries |->
                             IF a < e /\ e <= delivered' THEN name ELSE None]
              /\ todo' = [i \in 1 .. delivered' - a |-> a + i]
              /\ Pending = {} \/ delivered' = delivered
              /\ \A e \in Entries : (owner[e] = None /\ e <= delivered) <=>
                                       (owner'[e] = None /\ e <= delivered')
<1> USE ConsumerAssumption DEF Entries
<1>1. PICK a \in 0 .. delivered, n \in Names :
         /\ delivered - a <= BatchSize
         /\ owner = [e \in Entries |->
                       IF a < e /\ e <= delivered THEN n ELSE None]
  BY DEF OneBatch
<1>2. /\ Len(stream) \in Nat /\ Len(stream) <= MaxEntries
      /\ delivered \in Nat /\ delivered <= Len(stream) /\ name \in Names
  BY DEF Types, StreamOK, OwnerOK, ThreadOK
<1>3. Pending = a + 1 .. delivered
  BY <1>1, <1>2 DEF Pending
<1>4. Own = IF n = name THEN a + 1 .. delivered ELSE {}
  BY <1>1, <1>2, <1>3 DEF Own
<1>5. Earliest(BatchSize, a + 1 .. delivered) =
         [i \in 1 .. delivered - a |-> a + i]
  <2>1. a \in Nat /\ a <= delivered /\ BatchSize \in Nat
    BY <1>2
  <2>2. (IF delivered - a < BatchSize THEN delivered - a ELSE BatchSize)
           = delivered - a
    BY <1>1, <1>2
  <2> QED BY <1>2, <2>1, <2>2, EarliestOfInterval
<1>6. CASE PollOwn
  <2>1. /\ n = name /\ Own = a + 1 .. delivered /\ a < delivered
        /\ owner' = owner /\ delivered' = delivered
        /\ todo' = Earliest(BatchSize, Own)
    BY <1>2, <1>4, <1>6 DEF PollOwn, Work, redisVars
  <2>2. a \in 0 .. delivered' /\ \A e \in Entries : owner'[e] = owner[e]
    BY <1>2, <2>1
  <2>3. todo' = [i \in 1 .. delivered' - a |-> a + i]
    BY <1>5, <2>1
  <2>4. owner' = [e \in Entries |->
                    IF a < e /\ e <= delivered' THEN name ELSE None]
    BY <1>1, <2>1
  <2> WITNESS a \in 0 .. delivered'
  <2> QED BY <1>1, <1>2, <2>1, <2>2, <2>3, <2>4
<1>7. CASE PollClaim
  <2>1. /\ a < delivered /\ delivered' = delivered
        /\ todo' = [i \in 1 .. delivered - a |-> a + i]
        /\ owner' = [e \in Entries |-> IF e \in ToSet(todo') THEN name
                                                             ELSE owner[e]]
    BY <1>2, <1>3, <1>5, <1>7 DEF PollClaim, Work
  <2>2. ToSet(todo') = a + 1 .. delivered
    BY <1>2, <2>1, FromIsRest
  <2>3. \A e \in Entries : owner'[e] = IF a < e /\ e <= delivered THEN name
                                                                  ELSE None
    BY <1>1, <1>2, <2>1, <2>2
  <2>4. owner' = [e \in Entries |->
                    IF a < e /\ e <= delivered' THEN name ELSE None]
    BY <2>1, <2>3
  <2>5. a \in 0 .. delivered' /\ delivered' = delivered
    BY <1>2, <2>1
  <2>6. todo' = [i \in 1 .. delivered' - a |-> a + i]
    BY <2>1
  <2>7. \A e \in Entries : (owner[e] = None /\ e <= delivered) <=>
                               (owner'[e] = None /\ e <= delivered')
    BY <1>1, <1>2, <2>1, <2>3
  <2> WITNESS a \in 0 .. delivered'
  <2> QED BY <1>1, <1>2, <2>1, <2>4, <2>5, <2>6, <2>7
<1>8. CASE PollNew
  <2>1. a = delivered /\ delivered < Len(stream) /\ Pending = {}
    BY <1>2, <1>3, <1>8 DEF PollNew
  <2> DEFINE size == IF Len(stream) - delivered < BatchSize
                     THEN Len(stream) - delivered ELSE BatchSize
             new == [i \in 1 .. size |-> delivered + i]
  <2>2. size \in Nat /\ 0 < size /\ size <= BatchSize
           /\ delivered + size <= Len(stream)
    BY <1>2, <2>1
  <2>3. Earliest(BatchSize, delivered + 1 .. Len(stream)) = new
    BY <1>2, EarliestOfInterval
  <2> HIDE DEF size
  <2>4. Len(new) = size /\ ToSet(new) = delivered + 1 .. delivered + size
    BY <1>2, <2>2, FromIsRest
  <2>5. /\ todo' = new /\ delivered' = delivered + size
        /\ owner' = [e \in Entries |-> IF e \in ToSet(new) THEN name
                                                           ELSE owner[e]]
    BY <1>8, <2>3, <2>4 DEF PollNew, Work
  <2>6. \A e \in Entries : owner'[e] = IF a < e /\ e <= delivered' THEN name
                                                                   ELSE None
    BY <1>1, <1>2, <2>1, <2>2, <2>4, <2>5
  <2>7. owner' = [e \in Entries |->
                    IF a < e /\ e <= delivered' THEN name ELSE None]
    BY <2>5, <2>6
  <2>8. \A e \in Entries : (owner[e] = None /\ e <= delivered) <=>
                                       (owner'[e] = None /\ e <= delivered')
    BY <1>1, <1>2, <2>1, <2>2, <2>5, <2>6
  <2> QED BY SMTT(30), <1>2, <2>1, <2>2, <2>5, <2>7, <2>8
<1> QED BY <1>6, <1>7, <1>8

-----------------------------------------------------------------------------
(* Types.                                                                   *)

\* Clients only append to the stream.
LEMMA StreamStep ==
    ASSUME StreamOK, [Next]_vars
    PROVE  /\ StreamOK'
           /\ Len(stream) \in Nat /\ Len(stream') \in Nat
           /\ Len(stream) <= Len(stream')
           /\ \A e \in 1 .. Len(stream) : stream'[e] = stream[e]
<1> DEFINE Record == [id : Ids, kind : Kinds \cup {"invalid"}, config : Configs]
<1>1. CASE UNCHANGED stream
  BY <1>1 DEF StreamOK, Command
<1>2. ASSUME NEW i \in Ids, NEW p \in Payloads, Submit(i, p)
      PROVE  /\ StreamOK'
             /\ Len(stream) \in Nat /\ Len(stream') \in Nat
             /\ Len(stream) <= Len(stream')
             /\ \A e \in 1 .. Len(stream) : stream'[e] = stream[e]
  <2> DEFINE r == [id |-> i, kind |-> p.kind, config |-> p.config]
  <2>1. /\ p.kind \in Kinds \cup {"invalid"} /\ p.config \in Configs
        /\ p = [kind |-> p.kind, config |-> p.config]
    BY ConsumerAssumption
  <2>2. r \in Record /\ r.kind = p.kind /\ r.config = p.config
    BY <2>1
  <2> HIDE DEF r, Record
  <2>3. stream \in Seq(Record)
    BY DEF StreamOK, Record
  <2>4. stream' = Append(stream, r) /\ Len(stream) < MaxEntries
    BY <1>2 DEF Submit, r
  <2>5. /\ stream' \in Seq(Record) /\ Len(stream') = Len(stream) + 1
        /\ Len(stream) \in Nat
        /\ \A e \in 1 .. Len(stream) : stream'[e] = stream[e]
        /\ stream'[Len(stream) + 1] = r
    BY <2>2, <2>3, <2>4
  <2>6. DOMAIN stream = 1 .. Len(stream) /\ DOMAIN stream' = 1 .. Len(stream')
    BY <2>3, <2>5
  <2>7. ASSUME NEW e \in DOMAIN stream' PROVE Command(e)' \in Payloads
    <3>1. CASE e \in 1 .. Len(stream)
      BY <2>5, <2>6, <3>1 DEF StreamOK, Command
    <3>2. CASE e = Len(stream) + 1
      BY <2>1, <2>2, <2>5, <3>2 DEF Command
    <3> QED BY <2>5, <2>6, <3>1, <3>2
  <2>8. Len(stream') <= MaxEntries
    BY <2>4, <2>5, ConsumerAssumption
  <2> QED BY <2>5, <2>7, <2>8 DEF StreamOK, Record
<1> QED BY <1>1, <1>2 DEF vars, redisVars, Next, Poll, PollDeferred, PollOwn, PollClaim,
      PollNew, Process, DeadLetter, Replay, Handle, Save, Finalize, Commit,
      Faulty, SaveFails, FinalizeUnheard, CallFails, SessionDies, Crash,
      Reconcile, Restart

\* The registry, the slot and the bounds keep their types.
LEMMA StateStep ==
    ASSUME Types, Hands, Executing, [Next]_vars
    PROVE  StateOK'
<1>1. StateOK
  BY DEF Types
<1>2. CASE UNCHANGED <<registry, actual, left>>
  BY <1>1, <1>2 DEF StateOK
<1>3. CASE Handle
  <2>1. stream[Current].kind \in Kinds /\ stream[Current].config \in Configs
    BY <1>3, CurrentIsDelivered DEF Handle, Unacceptable, Types, Hands
  <2>2. PICK o \in Outcomes(stream[Current].kind, stream[Current].config) :
           actual' = o[2] /\ (Spend("failures") \/ left' = left)
    BY <1>3 DEF Handle
  <2>3. UNCHANGED registry
    BY <1>3 DEF Handle, redisVars
  <2> QED BY <1>1, <2>1, <2>2, <2>3, OutcomeOK, SpendOK DEF StateOK
<1>4. CASE Save
  <2>1. stream[Current].kind \in Kinds /\ stream[Current].config \in Configs
    BY <1>4, CurrentIsDelivered DEF Save, Executing, Unacceptable, Types, Hands, Current
  <2>2. DesiredLife(stream[Current].kind, registry.life)
           \in {"running", "paused", "stopped"}
    BY DEF DesiredLife
  <2>3. DesiredConfig(stream[Current].kind, stream[Current].config)
           \in Configs \cup {None}
    BY <1>1, <2>1 DEF DesiredConfig, StateOK
  <2>4. registry' = [life |-> DesiredLife(stream[Current].kind, registry.life),
                     config |-> DesiredConfig(stream[Current].kind,
                                              stream[Current].config)]
        /\ UNCHANGED <<actual, left>>
    BY <1>4 DEF Save
  <2> QED BY <1>1, <2>2, <2>3, <2>4 DEF StateOK
<1>5. CASE SaveFails \/ FinalizeUnheard \/ CallFails
  <2>1. Spend("faults") /\ UNCHANGED <<registry, actual>>
    BY <1>5 DEF SaveFails, FinalizeUnheard, CallFails, Commit, redisVars
  <2> QED BY <1>1, <2>1, SpendOK DEF StateOK
<1>6. CASE SessionDies
  <2>1. /\ Spend("failures") /\ UNCHANGED registry
        /\ actual' = [actual EXCEPT !.life = "failed"]
    BY <1>6 DEF SessionDies, redisVars
  <2> QED BY <1>1, <2>1, SpendOK DEF StateOK
<1>7. CASE Crash
  <2>1. Spend("crashes") /\ actual' = Absent /\ UNCHANGED registry
    BY <1>7 DEF Crash, redisVars
  <2> QED BY <1>1, <2>1, SpendOK DEF StateOK, Absent
<1>8. CASE Reconcile
  <2>1. registry.config \in Configs \cup {None} /\ UNCHANGED registry
    BY <1>1, <1>8 DEF StateOK, Reconcile, redisVars
  <2>2. CASE \E o \in Starts(registry.config) :
                actual' = o[2] /\ (Spend("failures") \/ left' = left)
    <3> DEFINE Slots == [life : {"absent", "running", "paused", "failed"},
                         config : Configs \cup {None}, wants : BOOLEAN]
    <3>1. PICK o \in Starts(registry.config) : actual' = o[2]
      BY <2>2
    <3>2. actual' \in Slots
      <4>1. CASE o = <<"applied", [life |-> "running", config |-> registry.config,
                                   wants |-> TRUE]>>
        BY <2>1, <3>1, <4>1
      <4>2. CASE o = <<"failed", [life |-> "failed", config |-> registry.config,
                                  wants |-> TRUE]>>
        BY <2>1, <3>1, <4>2
      <4> HIDE DEF Slots
      <4> QED BY <3>1, <4>1, <4>2 DEF Starts
    <3> QED BY <1>1, <2>1, <2>2, <3>2, SpendOK DEF StateOK
  <2>3. CASE actual' = [life |-> "paused", config |-> registry.config,
                        wants |-> FALSE] /\ left' = left
    BY <1>1, <2>1, <2>3 DEF StateOK
  <2>4. CASE UNCHANGED <<actual, left>>
    BY <1>1, <2>1, <2>4 DEF StateOK
  <2> QED BY <1>8, <2>2, <2>3, <2>4 DEF Reconcile
<1> QED BY <1>2, <1>3, <1>4, <1>5, <1>6, <1>7, <1>8
      DEF vars, redisVars, Next, Submit, Poll, PollDeferred, PollOwn, PollClaim,
      PollNew, Process, DeadLetter, Replay, Finalize, Commit, Faulty, Restart

\* The command thread keeps its types.
LEMMA ThreadStep ==
    ASSUME Types, Hands, [Next]_vars
    PROVE  ThreadOK'
<1>1. ThreadOK
  BY DEF Types
<1> USE DEF ThreadOK, Stages
<1>2. CASE UNCHANGED <<name, stage, retrying, outcome>>
  BY <1>1, <1>2
<1>3. CASE Poll
  BY <1>1, <1>3 DEF Poll, PollDeferred, PollOwn, PollClaim, PollNew, Work
<1>4. CASE NextEntry
  BY <1>1, <1>4 DEF NextEntry
<1>5. ASSUME NEW d, EndPoll(d) PROVE ThreadOK'
  BY <1>1, <1>5 DEF EndPoll
<1>6. CASE Handle
  <2>1. stream[Current].kind \in Kinds /\ stream[Current].config \in Configs
    BY <1>6, CurrentIsDelivered DEF Handle, Unacceptable, Types, Hands
  <2>2. PICK o \in Outcomes(stream[Current].kind, stream[Current].config) :
           outcome' = o[1] /\ stage' \in {"save", "finalize"}
    BY <1>6 DEF Handle
  <2>3. outcome' \in Statuses
    BY <2>1, <2>2, OutcomeOK DEF Types
  <2> QED BY <1>1, <1>6, <2>2, <2>3 DEF Handle, workVars
<1>7. CASE Save
  BY <1>1, <1>7 DEF Save, workVars
<1>8. CASE Crash
  BY <1>1, <1>8 DEF Crash
<1>9. ASSUME NEW n \in Names, Restart(n) PROVE ThreadOK'
  BY <1>1, <1>9 DEF Restart
<1>10. CASE Reconcile
  BY <1>1, <1>10 DEF Reconcile, workVars
<1> QED BY <1>2, <1>3, <1>4, <1>5, <1>6, <1>7, <1>8, <1>9, <1>10
      DEF vars, workVars, Next, Submit, Process, DeadLetter, Replay, Finalize,
      Faulty, SaveFails, FinalizeUnheard, CallFails, SessionDies

-----------------------------------------------------------------------------
(* What is pending, and what the process has in hand.                       *)

\* Acknowledging the first entry in hand leaves the others pending.
LEMMA AckLeavesRest ==
    ASSUME Types, Hands, OneBatch, todo # <<>>, Ack(Current)
    PROVE  /\ Current \in 0 .. delivered /\ delivered - Current <= BatchSize
           /\ owner' = [e \in Entries |->
                          IF Current < e /\ e <= delivered THEN name ELSE None]
<1>1. /\ Current = todo[1] /\ Current \in 1 .. delivered /\ Current \in Entries
      /\ delivered \in Nat /\ BatchSize \in Nat
  BY CurrentIsDelivered, ConsumerAssumption DEF Types, StreamOK, OwnerOK
<1>2. /\ \A e \in Entries : e > delivered => owner[e] = None
      /\ \A e \in Entries : owner[e] # None => e >= Current
      /\ \A e \in Entries : Current < e /\ e <= delivered => owner[e] = name
  BY <1>1 DEF Hands, Covers, Types, OwnerOK
<1>3. owner' = [owner EXCEPT ![Current] = None]
      /\ owner \in [Entries -> Names \cup {None}] /\ Entries \subseteq Nat
  BY DEF Ack, Types, OwnerOK, Entries
<1>4. ASSUME NEW e \in Entries
      PROVE  owner'[e] = IF Current < e /\ e <= delivered THEN name ELSE None
  BY <1>1, <1>2, <1>3, <1>4
<1>5. owner' = [e \in Entries |->
                  IF Current < e /\ e <= delivered THEN name ELSE None]
  BY <1>3, <1>4
<1>6. delivered - Current <= BatchSize
  <2>1. CASE Current = delivered
    BY <1>1, <2>1
  <2>2. CASE Current < delivered
    <3>1. Current + 1 \in Entries /\ owner[Current + 1] = name
      BY <1>1, <1>2, <2>2, ConsumerAssumption DEF Entries, Types, OwnerOK, StreamOK
    <3>2. name # None
      BY ConsumerAssumption DEF Types, ThreadOK
    <3>3. PICK a \in 0 .. delivered, n \in Names :
             /\ delivered - a <= BatchSize
             /\ owner = [e \in Entries |->
                           IF a < e /\ e <= delivered THEN n ELSE None]
      BY DEF OneBatch
    <3>4. a < Current + 1
      BY <3>1, <3>2, <3>3
    <3> QED BY <1>1, <3>3, <3>4
  <2> QED BY <1>1, <2>1, <2>2
<1> QED BY <1>1, <1>5, <1>6

\* What is pending stays the rest of one batch.
LEMMA OwnerStep ==
    ASSUME Types, Hands, OneBatch, [Next]_vars
    PROVE  OwnerOK' /\ OneBatch'
<1>1. /\ Len(stream) \in Nat /\ Len(stream') \in Nat
      /\ Len(stream) <= Len(stream')
      /\ delivered \in 0 .. Len(stream) /\ OwnerOK /\ name \in Names
  BY StreamStep DEF Types, OwnerOK, ThreadOK
<1>2. CASE UNCHANGED <<owner, delivered>>
  BY <1>1, <1>2 DEF OwnerOK, OneBatch
<1>3. ASSUME NEW a \in 0 .. delivered', delivered' - a <= BatchSize,
             delivered' \in 0 .. Len(stream), NEW n \in Names,
             owner' = [e \in Entries |->
                         IF a < e /\ e <= delivered' THEN n ELSE None]
      PROVE  OwnerOK' /\ OneBatch'
  <2>1. OneBatch'
    BY <1>3 DEF OneBatch
  <2>2. /\ owner' \in [Entries -> Names \cup {None}]
        /\ \A e \in Entries : e > delivered' => owner'[e] = None
    BY <1>3 DEF Entries
  <2> QED BY <1>1, <1>3, <2>1, <2>2 DEF OwnerOK
<1>4. CASE PollOwn \/ PollClaim \/ PollNew
  BY <1>1, <1>3, <1>4, PollTakesBatch
<1>5. CASE DeadLetter \/ Replay \/ Finalize \/ FinalizeUnheard
  <2>1. todo # <<>> /\ Ack(Current) /\ delivered' = delivered
    BY <1>5 DEF DeadLetter, Replay, Finalize, FinalizeUnheard, Commit, Hands
  <2> QED BY <1>1, <1>3, <2>1, AckLeavesRest
<1> QED BY <1>2, <1>4, <1>5
      DEF vars, redisVars, Next, Submit, Poll, PollDeferred, Process, Handle,
      Save, Faulty, SaveFails, CallFails, SessionDies, Crash, Restart, Reconcile

\* Markers, results and dead letters keep their types.
LEMMA AnswersStep ==
    ASSUME Types, Hands, Executing, [Next]_vars
    PROVE  AnswersOK' /\ delivered <= delivered'
<1>1. AnswersOK /\ delivered \in Nat
  BY DEF Types, OwnerOK
<1>2. CASE UNCHANGED <<marker, results, dead, delivered>>
  BY <1>1, <1>2 DEF AnswersOK
<1>3. CASE PollNew
  <2>1. UNCHANGED <<marker, results, dead>>
    BY <1>3 DEF PollNew
  <2>2. delivered' \in Nat /\ delivered <= delivered'
    <3>1. /\ Len(stream) \in Nat /\ delivered < Len(stream) /\ BatchSize \in Nat
      BY <1>3, ConsumerAssumption DEF PollNew, Types, StreamOK
    <3>2. Earliest(BatchSize, delivered + 1 .. Len(stream)) =
             [i \in 1 .. IF Len(stream) - delivered < BatchSize
                         THEN Len(stream) - delivered
                         ELSE BatchSize |-> delivered + i]
      <4>1. delivered <= Len(stream)
        BY <1>1, <3>1
      <4> QED BY <1>1, <3>1, <4>1, EarliestOfInterval
    <3>3. (IF Len(stream) - delivered < BatchSize
           THEN Len(stream) - delivered ELSE BatchSize) \in Nat
      BY <1>1, <3>1
    <3>4. Len(Earliest(BatchSize, delivered + 1 .. Len(stream))) \in Nat
      BY <1>1, <3>2, <3>3, FromIsRest
    <3> QED BY <1>1, <1>3, <3>4 DEF PollNew
  <2> QED BY <1>1, <2>1, <2>2 DEF AnswersOK
<1>4. CASE DeadLetter
  <2>1. /\ dead' = dead \cup {Current} /\ UNCHANGED <<marker, results, delivered>>
        /\ Current \in 1 .. delivered
    BY <1>4, CurrentIsDelivered DEF DeadLetter, Hands
  <2> QED BY <1>1, <2>1 DEF AnswersOK
<1>5. CASE Finalize \/ FinalizeUnheard
  <2>1. /\ stage = "finalize" /\ Commit /\ UNCHANGED <<dead, delivered>>
    BY <1>5 DEF Finalize, FinalizeUnheard, Commit
  <2>2. /\ stream[Current].id \in Ids /\ stream[Current].kind \in Kinds
        /\ Command(Current) \in Payloads /\ outcome \in Statuses
    BY <2>1, CurrentIsDelivered DEF Hands, Executing, Unacceptable, Types,
       ThreadOK
  <2>3. marker' \in [Ids -> SUBSET Payloads]
    BY <1>1, <2>1, <2>2 DEF Commit, AnswersOK
  <2> DEFINE r == [id |-> stream[Current].id, kind |-> stream[Current].kind,
                   status |-> outcome]
             Record == [id : Ids, kind : Kinds, status : Statuses]
  <2>4. r \in Record
    BY <2>2
  <2>5. results' = Append(results, r) /\ results \in Seq(Record)
    BY <1>1, <2>1 DEF Commit, AnswersOK
  <2> HIDE DEF r, Record
  <2>6. results' \in Seq(Record)
    BY <2>4, <2>5
  <2> QED BY <1>1, <2>1, <2>3, <2>6 DEF AnswersOK, Record
<1> QED BY <1>2, <1>3, <1>4, <1>5
      DEF vars, redisVars, Next, Submit, Poll, PollDeferred, PollOwn, PollClaim,
      Process, Replay, Handle, Save, Faulty, SaveFails, CallFails, SessionDies,
      Crash, Restart, Reconcile

\* The entries in hand were delivered: more in the stream does not change them.
LEMMA CoversStays ==
    ASSUME Types, [Next]_vars, NEW s, IsRest(s), Covers(s),
           UNCHANGED <<owner, delivered, marker>>, name' = name \/ s = <<>>
    PROVE  IsRest(s)' /\ Covers(s)'
<1>1. IsRest(s)'
  BY DEF IsRest
<1>2. CASE s = <<>>
  BY <1>1, <1>2 DEF Covers
<1>3. CASE s # <<>>
  <2>1. s[1] \in 1 .. Len(stream)
    BY <1>3 DEF IsRest, Types, OwnerOK, StreamOK
  <2>2. stream'[s[1]] = stream[s[1]]
    BY <2>1, StreamStep DEF Types
  <2>3. Answered(s[1]) => Answered(s[1])'
    BY <2>2 DEF Answered, Command
  <2> QED BY <1>1, <1>3, <2>3 DEF Covers
<1> QED BY <1>2, <1>3

\* Only the empty sequence has no length.
LEMMA EmptyIsShort ==
    ASSUME NEW s \in Seq(Nat)
    PROVE  s = <<>> <=> Len(s) = 0
OBVIOUS

\* The entries of one batch, as a poll takes them.
LEMMA BatchIsRest ==
    ASSUME NEW n \in Nat, NEW d \in 0 .. n, NEW a \in 0 .. d, a < d,
           NEW s, s = [i \in 1 .. d - a |-> a + i]
    PROVE  /\ d \in Nat /\ a \in Nat
           /\ s \in Seq(Nat) /\ s # <<>> /\ s[1] = a + 1 /\ Len(s) <= d
           /\ \A i \in 1 .. Len(s) : s[i] = d - Len(s) + i
<1>1. d \in Nat /\ a \in Nat /\ d - a \in Nat \ {0} /\ 1 \in 1 .. d - a
  OBVIOUS
<1>2. s \in Seq(Nat) /\ Len(s) = d - a /\ \A i \in 1 .. d - a : s[i] = a + i
  BY <1>1, FromIsRest
<1>3. s # <<>>
  BY <1>1, <1>2, EmptyIsShort
<1> QED BY <1>1, <1>2, <1>3

\* The next entry is taken up: the first was acknowledged.
LEMMA NextEntryHands ==
    ASSUME Types, Hands, OneBatch, todo # <<>>, Ack(Current), NextEntry,
           UNCHANGED delivered
    PROVE  Hands'
<1>1. /\ owner' = [e \in Entries |->
                     IF Current < e /\ e <= delivered THEN name ELSE None]
      /\ Current = todo[1] /\ Current = delivered - Len(todo) + 1
      /\ Len(todo) \in Nat \ {0} /\ delivered \in Nat /\ Len(todo) <= delivered
      /\ todo \in Seq(Nat)
      /\ \A i \in 1 .. Len(todo) : todo[i] = delivered - Len(todo) + i
  BY AckLeavesRest, CurrentIsDelivered DEF Types, OwnerOK, Hands, IsRest
<1>2. name' = name /\ todo' = Tail(todo)
  BY DEF NextEntry
<1>3. /\ Tail(todo) \in Seq(Nat) /\ Len(Tail(todo)) = Len(todo) - 1
      /\ \A i \in 1 .. Len(todo) - 1 : Tail(todo)[i] = todo[i + 1]
  BY <1>1
<1>4. todo' # <<>> <=> Len(todo) > 1
  <2>1. todo' = <<>> <=> Len(todo') = 0
    BY <1>2, <1>3, EmptyIsShort
  <2> QED BY SMTT(30), <1>1, <1>2, <1>3, <2>1
<1>5. IsRest(todo)'
  <2>1. /\ todo' \in Seq(Nat) /\ Len(todo') = Len(todo) - 1
        /\ Len(todo) - 1 <= delivered
        /\ \A i \in 1 .. Len(todo) - 1 : todo'[i] = delivered - (Len(todo) - 1) + i
    BY <1>1, <1>2, <1>3
  <2> QED BY <2>1 DEF IsRest
<1>6. Covers(todo)'
  <2>1. CASE todo' = <<>>
    BY <2>1 DEF Covers
  <2>2. CASE todo' # <<>>
    <3>1. Len(todo) > 1 /\ todo'[1] = Current + 1
      BY SMTT(30), <1>1, <1>2, <1>3, <1>4, <2>2
    <3>2. /\ \A e \in Entries : owner'[e] # None => e >= Current + 1
          /\ \A e \in Entries : Current + 1 < e /\ e <= delivered => owner'[e] = name
      BY <1>1 DEF Entries
    <3>3. owner'[Current + 1] = name
      <4>1. Len(stream) \in Nat /\ delivered <= Len(stream) /\ Len(stream) <= MaxEntries
        BY DEF Types, OwnerOK, StreamOK
      <4>2. Current + 1 \in 1 .. MaxEntries /\ Current + 1 <= delivered
        BY <1>1, <3>1, <4>1, ConsumerAssumption
      <4> QED BY <1>1, <4>2 DEF Entries
    <3> QED BY <1>2, <3>1, <3>2, <3>3 DEF Covers
  <2> QED BY <2>1, <2>2
<1>7. deferred' = IF retrying THEN todo' ELSE <<>>
  BY <1>2 DEF Hands, NextEntry
<1>8. IsRest(deferred)' /\ Covers(deferred)'
  <2>1. CASE deferred' = todo'
    BY <1>5, <1>6, <2>1 DEF IsRest, Covers
  <2>2. CASE deferred' = <<>>
    BY <1>1, <2>2 DEF IsRest, Covers
  <2> QED BY <1>7, <2>1, <2>2
<1>9. /\ (stage' \in {"look", "save", "finalize"}) <=> todo' # <<>>
      /\ stage' \notin {"down", "recover"} /\ retrying' = retrying
  <2>1. stage' = (IF Len(todo) = 1 THEN "idle" ELSE "look")
        /\ retrying' = retrying
    BY DEF NextEntry
  <2>2. \A n \in Nat \ {0} : n = 1 \/ n > 1
    OBVIOUS
  <2>3. CASE Len(todo) = 1
    BY <1>4, <2>1, <2>3
  <2>4. CASE Len(todo) > 1
    BY <1>1, <1>4, <2>1, <2>4
  <2> QED BY <1>1, <2>2, <2>3, <2>4
<1> QED BY <1>5, <1>6, <1>7, <1>8, <1>9 DEF Hands

\* What the process has in hand stays the rest of what was delivered.
LEMMA HandsStep ==
    ASSUME Types, Hands, Executing, OneBatch, [Next]_vars
    PROVE  Hands'
<1>1. IsRest(todo) /\ IsRest(deferred) /\ Covers(todo) /\ Covers(deferred)
      /\ delivered \in Nat /\ Len(<<>>) = 0 /\ <<>> \in Seq(Nat)
  BY DEF Hands, Types, OwnerOK
<1>2. IsRest(<<>>) /\ Covers(<<>>)
  BY <1>1 DEF IsRest, Covers
<1>4. CASE UNCHANGED <<owner, delivered, marker, name, todo, retrying, deferred, stage>>
  BY <1>1, <1>4, CoversStays DEF Hands
<1>5. CASE PollDeferred
  <2>1. /\ UNCHANGED <<owner, delivered, marker, name, deferred>>
        /\ todo' = deferred /\ deferred # <<>> /\ retrying' /\ stage' = "look"
    BY <1>5 DEF PollDeferred, Work, redisVars
  <2>2. IsRest(deferred)' /\ Covers(deferred)'
    BY <1>1, <2>1, CoversStays
  <2> QED BY <2>1, <2>2 DEF Hands
<1>6. CASE PollOwn \/ PollClaim \/ PollNew
  <2>0. Len(stream) \in Nat /\ Len(stream) <= MaxEntries
    BY DEF Types, StreamOK
  <2>1. PICK a \in 0 .. delivered' :
           /\ a < delivered' /\ delivered' \in 0 .. Len(stream)
           /\ owner' = [e \in Entries |->
                          IF a < e /\ e <= delivered' THEN name ELSE None]
           /\ todo' = [i \in 1 .. delivered' - a |-> a + i]
    BY <1>6, PollTakesBatch
  <2>2. /\ deferred' = <<>> /\ name' = name /\ stage' = "look" /\ ~ retrying'
    BY <1>6 DEF PollOwn, PollClaim, PollNew, Work
  <2>3. /\ a \in Nat /\ delivered' \in Nat
        /\ todo' \in Seq(Nat) /\ todo' # <<>> /\ todo'[1] = a + 1
        /\ Len(todo') <= delivered'
        /\ \A i \in 1 .. Len(todo') : todo'[i] = delivered' - Len(todo') + i
    <3> DEFINE n == Len(stream)
               d == delivered'
               s == todo'
    <3>1. n \in Nat /\ d \in 0 .. n /\ a \in 0 .. d /\ a < d
          /\ s = [i \in 1 .. d - a |-> a + i]
      BY <2>0, <2>1
    <3> HIDE DEF n, d, s
    <3>2. /\ d \in Nat /\ a \in Nat
          /\ s \in Seq(Nat) /\ s # <<>> /\ s[1] = a + 1 /\ Len(s) <= d
          /\ \A i \in 1 .. Len(s) : s[i] = d - Len(s) + i
      BY <3>1, BatchIsRest
    <3> QED BY <3>2 DEF d, s
  <2>4. a < delivered' /\ delivered' <= MaxEntries
    BY <2>0, <2>1, <2>3, ConsumerAssumption
  <2>5. IsRest(todo)'
    BY <2>3 DEF IsRest
  <2>6. a + 1 \in Entries
    BY <2>3, <2>4, ConsumerAssumption DEF Entries
  <2>7. /\ \A e \in Entries : owner'[e] # None => e >= a + 1
        /\ \A e \in Entries : a + 1 < e /\ e <= delivered' => owner'[e] = name
        /\ owner'[a + 1] = name
    BY <2>1, <2>3, <2>6 DEF Entries
  <2>8. Covers(todo)'
    BY <2>2, <2>3, <2>7 DEF Covers
  <2>9. IsRest(<<>>)' /\ Covers(<<>>)'
    BY <1>1, <2>3 DEF IsRest, Covers
  <2> QED BY <2>2, <2>3, <2>5, <2>8, <2>9 DEF Hands
<1>7. CASE DeadLetter \/ Replay \/ Finalize
  <2>1. todo # <<>> /\ Ack(Current) /\ NextEntry /\ UNCHANGED delivered
    BY <1>7 DEF DeadLetter, Replay, Finalize, Commit, Hands
  <2> QED BY <2>1, NextEntryHands
<1>8. CASE Handle \/ Save
  <2>1. /\ UNCHANGED <<owner, delivered, marker, name, todo, retrying, deferred>>
        /\ {stage, stage'} \subseteq {"look", "save", "finalize"}
    BY <1>8 DEF Handle, Save, redisVars, workVars
  <2>2. IsRest(todo)' /\ Covers(todo)' /\ IsRest(deferred)' /\ Covers(deferred)'
    BY <1>1, <2>1, CoversStays
  <2> QED BY <2>1, <2>2 DEF Hands
<1>9. CASE SaveFails \/ CallFails
  <2>1. /\ UNCHANGED <<owner, delivered, marker, name, retrying>>
        /\ todo' = <<>> /\ stage' = "idle" /\ deferred' \in {todo, deferred}
    BY <1>9 DEF SaveFails, CallFails, EndPoll, redisVars
  <2>2. IsRest(deferred)' /\ Covers(deferred)'
    BY <1>1, <2>1, CoversStays DEF IsRest, Covers
  <2>3. IsRest(todo)' /\ Covers(todo)'
    BY <1>1, <2>1 DEF IsRest, Covers
  <2> QED BY <2>1, <2>2, <2>3 DEF Hands
<1>10. CASE FinalizeUnheard
  <2>1. /\ stage = "finalize" /\ todo # <<>> /\ Ack(Current) /\ Commit
        /\ UNCHANGED <<delivered, name, deferred, stream>>
        /\ todo' = <<>> /\ stage' = "idle"
    BY <1>10 DEF FinalizeUnheard, Commit, EndPoll, Hands
  <2>2. IsRest(todo)' /\ Covers(todo)'
    BY <1>1, <2>1 DEF IsRest, Covers
  <2>3. IsRest(deferred)'
    BY <1>1, <2>1 DEF IsRest
  <2>4. Covers(deferred)'
    <3>1. CASE deferred = <<>>
      BY <2>1, <3>1 DEF Covers
    <3>2. CASE deferred = todo
      <4>1. /\ owner' = [e \in Entries |->
                           IF Current < e /\ e <= delivered THEN name ELSE None]
            /\ Current = todo[1] /\ Current \in Entries /\ delivered \in Nat
            /\ stream[Current].id \in Ids
        BY <1>1, <2>1, AckLeavesRest, CurrentIsDelivered
      <4>2. \A e : e = Current => Answered(e)'
        <5>1. marker'[stream[Current].id] = {Command(Current)}
          BY <2>1, <4>1 DEF Commit, Types, AnswersOK
        <5> QED BY <2>1, <5>1 DEF Answered, Command
      <4>3. /\ \A e \in Entries : owner'[e] # None => e >= Current
            /\ \A e \in Entries : Current < e /\ e <= delivered => owner'[e] = name
            /\ owner'[Current] = None
        BY <4>1 DEF Entries
      <4>4. deferred'[1] = Current
        BY <2>1, <3>2, <4>1
      <4>5. Answered(deferred[1])'
        BY <2>1, <4>2, <4>4
      <4> QED BY <2>1, <4>3, <4>4, <4>5 DEF Covers
    <3> QED BY <2>1, <3>1, <3>2 DEF Hands
  <2> QED BY <2>1, <2>2, <2>3, <2>4 DEF Hands
<1>11. CASE Crash \/ Reconcile \/ \E n \in Names : Restart(n)
  <2>1. /\ todo' = <<>> /\ deferred' = <<>> /\ UNCHANGED delivered
        /\ stage' \in {"down", "recover", "idle"}
    BY <1>11 DEF Crash, Restart, Reconcile, Hands, redisVars, workVars
  <2> QED BY <1>1, <2>1 DEF Hands, IsRest, Covers
<1> QED BY <1>4, <1>5, <1>6, <1>7, <1>8, <1>9, <1>10, <1>11
      DEF vars, redisVars, workVars, Next, Submit, Poll, Process, Faulty,
      SessionDies

-----------------------------------------------------------------------------
(* One result for each command, in the order of the stream.                 *)

\* An entry that was delivered stays what it is.
LEMMA EntryStays ==
    ASSUME Types, [Next]_vars, NEW e \in 1 .. delivered
    PROVE  stream'[e] = stream[e]
<1>1. e \in 1 .. Len(stream)
  BY DEF Types, OwnerOK, StreamOK
<1> QED BY <1>1, StreamStep DEF Types

\* Before its command is executed the entry in hand is pending.
LEMMA CurrentIsPending ==
    ASSUME Types, Hands, todo # <<>>, ~ Answered(Current)
    PROVE  /\ owner[Current] = name /\ name # None
           /\ \A f \in 1 .. Current - 1 : owner[f] = None
<1>1. Current = todo[1] /\ Current \in 1 .. delivered /\ Current \in Entries
  BY CurrentIsDelivered
<1>2. owner[Current] = name /\ \A e \in Entries : owner[e] # None => e >= Current
  BY <1>1 DEF Hands, Covers
<1>3. name # None
  BY ConsumerAssumption DEF Types, ThreadOK
<1>4. \A f \in 1 .. Current - 1 : f \in Entries /\ ~ (f >= Current)
  BY <1>1, ConsumerAssumption DEF Entries
<1> QED BY <1>2, <1>3, <1>4

\* A command is executed only while its entry is pending and its id unmarked.
LEMMA ExecutingStep ==
    ASSUME Types, Hands, Executing, [Next]_vars
    PROVE  Executing'
<1>1. CASE UNCHANGED <<owner, name, todo, marker, stage>>
  <2>1. ASSUME stage \in {"save", "finalize"} PROVE Executing'
    <3>1. Current = todo[1] /\ Current \in 1 .. delivered
      BY <2>1, CurrentIsDelivered DEF Hands
    <3>2. stream'[todo[1]] = stream[todo[1]]
      BY <3>1, EntryStays
    <3> QED BY <1>1, <2>1, <3>2 DEF Executing, Unacceptable, Command
  <2> QED BY <1>1, <2>1 DEF Executing
<1>2. CASE Handle
  <2>1. /\ stage = "look" /\ todo # <<>> /\ ~ Unacceptable(Current)
        /\ marker[stream[Current].id] = {}
        /\ UNCHANGED <<owner, marker, stream, name, todo>>
    BY <1>2 DEF Handle, Hands, redisVars, workVars
  <2>2. Current = todo[1] /\ owner[Current] = name
    BY <2>1, CurrentIsDelivered, CurrentIsPending DEF Answered
  <2> QED BY <2>1, <2>2 DEF Executing, Unacceptable, Command
<1>3. CASE Save
  BY <1>3 DEF Save, workVars, Executing, Unacceptable, Command
<1>4. CASE stage' \notin {"save", "finalize"}
  BY <1>4 DEF Executing
<1> QED BY <1>1, <1>2, <1>3, <1>4
      DEF vars, redisVars, workVars, Next, Submit, Poll, PollDeferred, PollOwn,
      PollClaim, PollNew, Work, Process, DeadLetter, Replay, Finalize,
      NextEntry, EndPoll, Faulty, SaveFails, FinalizeUnheard, CallFails,
      SessionDies, Crash, Restart, Reconcile

\* The result of an entry is the first of its id, and marks it.
LEMMA ResultStep ==
    ASSUME Types, Hands, Executing, OneResult, MarkedIsTold, [Next]_vars
    PROVE  OneResult' /\ MarkedIsTold'
<1>1. CASE UNCHANGED <<results, marker>>
  BY <1>1 DEF OneResult, MarkedIsTold
<1>2. CASE Finalize \/ FinalizeUnheard
  <2> DEFINE i == stream[Current].id
             r == [id |-> i, kind |-> stream[Current].kind, status |-> outcome]
  <2>1. stage = "finalize" /\ Commit /\ todo # <<>>
    BY <1>2 DEF Finalize, FinalizeUnheard, Hands
  <2>2. i \in Ids /\ marker[i] = {} /\ r.id = i
    BY <2>1, CurrentIsDelivered DEF Executing
  <2>3. /\ results' = Append(results, r)
        /\ marker' = [marker EXCEPT ![i] = {Command(Current)}]
        /\ marker \in [Ids -> SUBSET Payloads]
        /\ results \in Seq([id : Ids, kind : Kinds, status : Statuses])
    BY <2>1 DEF Commit, Types, AnswersOK
  <2> HIDE DEF i, r
  <2>4. /\ Len(results) \in Nat /\ DOMAIN results = 1 .. Len(results)
        /\ DOMAIN results' = 1 .. Len(results) + 1
        /\ \A k \in 1 .. Len(results) : results'[k] = results[k]
        /\ results'[Len(results) + 1] = r
    BY <2>3
  <2>5. \A k \in 1 .. Len(results) : results[k].id # i
    BY <2>2, <2>4 DEF MarkedIsTold
  <2>6. \A k \in DOMAIN results' :
           k \in 1 .. Len(results) \/ k = Len(results) + 1
    BY <2>4
  <2>7. OneResult'
    BY <2>2, <2>4, <2>5, <2>6 DEF OneResult
  <2>8. ASSUME NEW j \in Ids
        PROVE  marker'[j] # {} <=> \E k \in DOMAIN results' : results'[k].id = j
    <3>1. CASE j = i
      <4>1. Len(results) + 1 \in DOMAIN results'
        BY <2>4
      <4>2. marker'[i] # {}
        BY <2>2, <2>3
      <4> QED BY <2>2, <2>4, <3>1, <4>1, <4>2
    <3>2. CASE j # i
      <4>1. marker'[j] = marker[j]
        BY <2>3, <3>2
      <4>2. marker[j] # {} <=> \E k \in 1 .. Len(results) : results[k].id = j
        BY <2>4 DEF MarkedIsTold
      <4>3. \A k \in 1 .. Len(results) : k \in DOMAIN results'
        BY <2>4
      <4> QED BY <2>2, <2>4, <2>6, <3>2, <4>1, <4>2, <4>3
    <3> QED BY <3>1, <3>2
  <2> QED BY <2>7, <2>8 DEF MarkedIsTold
<1> QED BY <1>1, <1>2
      DEF vars, redisVars, Next, Submit, Poll, PollDeferred, PollOwn, PollClaim,
      PollNew, Process, DeadLetter, Replay, Handle, Save, Faulty, SaveFails,
      CallFails, SessionDies, Crash, Restart, Reconcile

\* What is acknowledged has its result or is in the dead-letter stream.
LEMMA AckedStep ==
    ASSUME Types, Hands, Executing, OneBatch, MarkedIsTold, AckedIsAnswered,
           [Next]_vars
    PROVE  AckedIsAnswered'
<1> DEFINE Told(e) == e \in dead \/ \E k \in DOMAIN results :
                                        results[k].id = stream[e].id
<1>1. ASSUME UNCHANGED <<results, dead>>, Acked' \subseteq Acked
      PROVE  AckedIsAnswered'
  <2>1. \A e \in Acked : stream'[e] = stream[e]
    BY EntryStays DEF Acked
  <2> QED BY <1>1, <2>1 DEF AckedIsAnswered
<1>2. CASE UNCHANGED <<owner, delivered, results, dead>>
  <2>1. Acked' = Acked
    BY <1>2 DEF Acked
  <2> QED BY <1>1, <1>2, <2>1
<1>3. CASE PollOwn \/ PollClaim \/ PollNew
  <2>1. /\ delivered' \in 0 .. Len(stream) /\ Len(stream) \in Nat
        /\ Len(stream) <= MaxEntries /\ delivered \in Nat
        /\ \A e \in Entries : (owner[e] = None /\ e <= delivered) <=>
                                 (owner'[e] = None /\ e <= delivered')
    BY <1>3, PollTakesBatch DEF Types, StreamOK, OwnerOK
  <2>2. \A e \in 1 .. delivered' : e \in Entries /\ e \in Nat /\ e >= 1
    BY <2>1, ConsumerAssumption DEF Entries
  <2>3. ASSUME NEW e \in Acked' PROVE e \in Acked
    <3>1. e \in 1 .. delivered' /\ owner'[e] = None
      BY DEF Acked
    <3>2. e \in Nat /\ e >= 1 /\ e <= delivered /\ owner[e] = None
      BY <2>1, <2>2, <3>1
    <3> QED BY <2>1, <3>2 DEF Acked
  <2>4. UNCHANGED <<results, dead>>
    BY <1>3 DEF PollOwn, PollClaim, PollNew, redisVars
  <2> QED BY <1>1, <2>3, <2>4
<1>4. ASSUME NEW c, c = Current, todo # <<>>, Ack(c),
             UNCHANGED <<stream, delivered>>, dead \subseteq dead',
             \A k \in DOMAIN results :
                k \in DOMAIN results' /\ results'[k] = results[k],
             Told(c)'
      PROVE  AckedIsAnswered'
  <2>1. Acked' \subseteq Acked \cup {c}
    <3>1. /\ owner' = [owner EXCEPT ![c] = None]
          /\ c \in 1 .. delivered /\ owner \in [Entries -> Names \cup {None}]
          /\ \A e \in 1 .. delivered : e \in Entries
      BY <1>4, CurrentIsDelivered, ConsumerAssumption
         DEF Ack, Types, OwnerOK, StreamOK, Entries
    <3> QED BY <1>4, <3>1 DEF Acked
  <2>2. ASSUME NEW e \in Acked PROVE Told(e)'
    BY <1>4 DEF AckedIsAnswered
  <2> QED BY <1>4, <2>1, <2>2 DEF AckedIsAnswered
<1>5. CASE DeadLetter
  <2>1. /\ todo # <<>> /\ Ack(Current) /\ dead' = dead \cup {Current}
        /\ UNCHANGED <<stream, delivered, results>>
    BY <1>5 DEF DeadLetter, Hands
  <2> QED BY <1>4, <2>1
<1>6. CASE Replay
  <2>1. /\ todo # <<>> /\ Ack(Current) /\ marker[stream[Current].id] # {}
        /\ UNCHANGED <<stream, delivered, results, dead>>
    BY <1>6 DEF Replay, Hands
  <2>2. \E k \in DOMAIN results : results[k].id = stream[Current].id
    BY <2>1, CurrentIsDelivered DEF MarkedIsTold
  <2> QED BY <1>4, <2>1, <2>2
<1>7. CASE Finalize \/ FinalizeUnheard
  <2> DEFINE r == [id |-> stream[Current].id, kind |-> stream[Current].kind,
                   status |-> outcome]
  <2>1. /\ todo # <<>> /\ Ack(Current) /\ results' = Append(results, r)
        /\ UNCHANGED <<stream, delivered, dead>>
    BY <1>7 DEF Finalize, FinalizeUnheard, Commit, Hands
  <2>2. r.id = stream[Current].id
        /\ results \in Seq([id : Ids, kind : Kinds, status : Statuses])
    BY DEF Types, AnswersOK
  <2> HIDE DEF r
  <2>3. /\ \A k \in DOMAIN results :
              k \in DOMAIN results' /\ results'[k] = results[k]
        /\ Len(results) + 1 \in DOMAIN results'
        /\ results'[Len(results) + 1] = r
    BY <2>1, <2>2
  <2> QED BY <1>4, <2>1, <2>2, <2>3
<1> QED BY <1>2, <1>3, <1>5, <1>6, <1>7
      DEF vars, redisVars, Next, Submit, Poll, PollDeferred, Process, Handle,
      Save, Faulty, SaveFails, CallFails, SessionDies, Crash, Restart, Reconcile

-----------------------------------------------------------------------------
(* The registry.                                                            *)

\* The desired state of a command that is executed twice is that of once.
LEMMA DesiredTwice ==
    ASSUME NEW kind \in Kinds, NEW before
    PROVE  DesiredLife(kind, DesiredLife(kind, before)) = DesiredLife(kind, before)
BY DEF DesiredLife, Kinds

\* The earliest pending entry stays due until it is executed.
LEMMA DueStays ==
    ASSUME Types, [Next]_vars, FirstIsDue, UNCHANGED <<marker, delivered>>,
           \A e \in Entries : owner[e] = None <=> owner'[e] = None
    PROVE  FirstIsDue'
<1>1. PICK e \in Entries :
         /\ owner[e] # None /\ \A f \in 1 .. e - 1 : owner[f] = None
         /\ ~ Unacceptable(e) /\ marker[stream[e].id] = {}
  BY DEF FirstIsDue
<1>2. e \in 1 .. delivered /\ \A f \in 1 .. e - 1 : f \in Entries
  BY <1>1, ConsumerAssumption DEF Types, OwnerOK, Entries
<1>3. stream'[e] = stream[e]
  BY <1>2, EntryStays
<1>4. ~ Unacceptable(e)' /\ marker'[stream'[e].id] = {}
  BY <1>1, <1>3 DEF Unacceptable, Command
<1> QED BY <1>1, <1>2, <1>4 DEF FirstIsDue

\* Success is reported after it was recorded, and what was recorded before a
\* crash or a failed call is done again before anything else.
LEMMA RecordedStep ==
    ASSUME Types, Hands, Executing, OneBatch, RecordedFirst, [Next]_vars
    PROVE  RecordedFirst'
<1> DEFINE First == Recorded \/ FirstIsDue
           Saved == stage = "finalize" /\ Succeeded(outcome) =>
                       registry.life = DesiredLife(stream[todo[1]].kind,
                                                   registry.life)
<1>1. First'
  <2>1. CASE UNCHANGED <<owner, delivered, marker, results, registry>>
    <3>1. Recorded => Recorded'
      BY <2>1 DEF Recorded, DesiredLife
    <3>2. FirstIsDue => FirstIsDue'
      BY <2>1, DueStays
    <3> QED BY <3>1, <3>2 DEF RecordedFirst
  <2>2. CASE PollOwn \/ PollClaim \/ PollNew
    <3>1. /\ Pending = {} \/ delivered' = delivered
          /\ \A e \in Entries : (owner[e] = None /\ e <= delivered) <=>
                                   (owner'[e] = None /\ e <= delivered')
          /\ UNCHANGED <<marker, results, registry>>
      BY <2>2, PollTakesBatch DEF PollOwn, PollClaim, PollNew, redisVars
    <3>2. Recorded => Recorded'
      BY <3>1 DEF Recorded, DesiredLife
    <3>3. ASSUME FirstIsDue PROVE FirstIsDue'
      <4>1. delivered' = delivered
        BY <3>1, <3>3 DEF FirstIsDue, Pending
      <4>2. \A e \in Entries : owner[e] = None <=> owner'[e] = None
        <5>1. OwnerOK /\ OwnerOK'
          BY OwnerStep DEF Types
        <5>2. ASSUME NEW e \in Entries, e > delivered
              PROVE  owner[e] = None /\ owner'[e] = None
          BY <4>1, <5>1, <5>2 DEF OwnerOK
        <5>3. ASSUME NEW e \in Entries PROVE e > delivered \/ e <= delivered
          BY <5>1 DEF Entries, OwnerOK, Types, StreamOK
        <5> QED BY <3>1, <4>1, <5>2, <5>3
      <4> QED BY <3>1, <3>3, <4>1, <4>2, DueStays
    <3> QED BY <3>2, <3>3 DEF RecordedFirst
  <2>3. CASE DeadLetter \/ Replay
    <3>1. /\ todo # <<>> /\ Ack(Current)
          /\ UNCHANGED <<marker, results, registry, delivered, stream>>
          /\ Unacceptable(Current) \/ marker[stream[Current].id] # {}
      BY <2>3 DEF DeadLetter, Replay, Hands
    <3>2. Recorded => Recorded'
      BY <3>1 DEF Recorded, DesiredLife
    <3>3. ASSUME FirstIsDue PROVE FirstIsDue'
      <4>1. PICK e \in Entries :
               /\ owner[e] # None /\ \A f \in 1 .. e - 1 : owner[f] = None
               /\ ~ Unacceptable(e) /\ marker[stream[e].id] = {}
        BY <3>3 DEF FirstIsDue
      <4>2. Current \in Entries /\ Current = todo[1] /\ Current # e
        BY <3>1, <4>1, CurrentIsDelivered
      <4>3. e >= Current
        BY <3>1, <4>1, <4>2 DEF Hands, Covers
      <4>4. Current \in 1 .. e - 1
        BY <4>2, <4>3 DEF Entries
      <4>5. owner[Current] = None
        BY <4>1, <4>4
      <4>6. owner' = owner
        BY <3>1, <4>2, <4>5 DEF Ack, Types, OwnerOK
      <4> QED BY <3>1, <3>3, <4>6, DueStays
    <3> QED BY <3>2, <3>3 DEF RecordedFirst
  <2>4. CASE Save
    <3>1. /\ stage = "save" /\ todo # <<>> /\ UNCHANGED <<owner, marker, stream>>
      BY <2>4 DEF Save, Hands
    <3>2. /\ Current = todo[1] /\ Current \in Entries
          /\ ~ Unacceptable(Current) /\ marker[stream[Current].id] = {}
      BY <3>1, CurrentIsDelivered DEF Executing
    <3>3. owner[Current] # None /\ \A f \in 1 .. Current - 1 : owner[f] = None
      BY <3>1, <3>2, CurrentIsPending DEF Answered
    <3>4. ASSUME NEW c \in Entries, c = Current
          PROVE  /\ owner'[c] # None /\ \A f \in 1 .. c - 1 : owner'[f] = None
                 /\ ~ Unacceptable(c)' /\ marker'[stream'[c].id] = {}
      BY <3>1, <3>2, <3>3, <3>4 DEF Unacceptable, Command
    <3> QED BY <3>2, <3>4 DEF FirstIsDue
  <2>5. CASE Finalize \/ FinalizeUnheard
    <3> DEFINE r == [id |-> stream[Current].id, kind |-> stream[Current].kind,
                     status |-> outcome]
    <3>1. /\ stage = "finalize" /\ results' = Append(results, r)
          /\ todo # <<>> /\ UNCHANGED registry
      BY <2>5 DEF Finalize, FinalizeUnheard, Commit, Hands
    <3>2. results \in Seq([id : Ids, kind : Kinds, status : Statuses])
      BY DEF Types, AnswersOK
    <3>3. r.kind = stream[todo[1]].kind /\ r.status = outcome
      BY <3>1, CurrentIsDelivered
    <3> HIDE DEF r
    <3>4. Last(results') = r
      BY <3>1, <3>2 DEF Last
    <3>5. Succeeded(outcome) =>
             registry.life = DesiredLife(r.kind, registry.life)
      BY <3>1, <3>3 DEF RecordedFirst
    <3> QED BY <3>1, <3>3, <3>4, <3>5 DEF Recorded, Succeeded, DesiredLife
  <2> QED BY <2>1, <2>2, <2>3, <2>4, <2>5
        DEF vars, redisVars, Next, Submit, Poll, PollDeferred, Process, Handle,
        Faulty, SaveFails, CallFails, SessionDies, Crash, Restart, Reconcile
<1>2. Saved'
  <2>1. CASE UNCHANGED <<registry, todo, stage, outcome>>
    <3>1. ASSUME stage = "finalize" PROVE stream'[todo[1]] = stream[todo[1]]
      BY <3>1, CurrentIsDelivered, EntryStays DEF Hands
    <3> QED BY <2>1, <3>1 DEF RecordedFirst, DesiredLife
  <2>2. CASE Handle
    <3>1. PICK o : outcome' = o[1]
                   /\ stage' = IF ToSave(o[1]) THEN "save" ELSE "finalize"
      BY <2>2 DEF Handle
    <3> QED BY <3>1 DEF ToSave, Succeeded
  <2>3. CASE Save
    <3>1. /\ stage = "save" /\ todo # <<>> /\ UNCHANGED <<stream, todo>>
          /\ registry' = [life |-> DesiredLife(stream[Current].kind, registry.life),
                          config |-> DesiredConfig(stream[Current].kind,
                                                   stream[Current].config)]
      BY <2>3 DEF Save, Hands, workVars
    <3>2. Current = todo[1] /\ stream[Current].kind \in Kinds
      BY <3>1, CurrentIsDelivered DEF Executing, Unacceptable
    <3>3. registry'.life = DesiredLife(stream[Current].kind, registry.life)
      BY <3>1
    <3>4. registry'.life = DesiredLife(stream[Current].kind, registry'.life)
      BY <3>2, <3>3, DesiredTwice
    <3>5. stream'[todo'[1]].kind = stream[Current].kind
      BY <3>1, <3>2
    <3> QED BY <3>4, <3>5 DEF DesiredLife
  <2>4. CASE stage' # "finalize"
    BY <2>4
  <2> QED BY <2>1, <2>2, <2>3, <2>4
        DEF vars, redisVars, workVars, Next, Submit, Poll, PollDeferred, PollOwn,
        PollClaim, PollNew, Work, Process, DeadLetter, Replay, Finalize,
        NextEntry, EndPoll, Faulty, SaveFails, FinalizeUnheard, CallFails,
        SessionDies, Crash, Restart, Reconcile
<1> QED BY <1>1, <1>2 DEF RecordedFirst

-----------------------------------------------------------------------------
(* The inductive invariant.                                                 *)

\* It holds when the process starts for the first time.
LEMMA InvInit ==
    ASSUME Init
    PROVE  Types /\ Inv
<1> USE DEF Init
<1>1. Len(<<>>) = 0 /\ DOMAIN <<>> = {}
  OBVIOUS
<1>2. StreamOK
  BY <1>1, ConsumerAssumption DEF StreamOK
<1>3. OwnerOK
  BY <1>1 DEF OwnerOK, Entries
<1>4. AnswersOK
  BY DEF AnswersOK
<1>5. StateOK
  <2>1. registry \in [life : {None, "running", "paused", "stopped"},
                      config : Configs \cup {None}]
    OBVIOUS
  <2>2. actual \in [life : {"absent", "running", "paused", "failed"},
                    config : Configs \cup {None}, wants : BOOLEAN]
    BY DEF Absent
  <2>3. left \in [faults : 0 .. MaxFaults, crashes : 0 .. MaxCrashes,
                  failures : 0 .. MaxFailures]
    BY ConsumerAssumption
  <2> QED BY <2>1, <2>2, <2>3 DEF StateOK
<1>6. ThreadOK
  BY DEF ThreadOK, Stages
<1>7. Hands /\ Executing
  BY <1>1 DEF Hands, IsRest, Covers, Executing
<1>8. OneBatch
  <2>1. \A e \in Entries : ~ (0 < e /\ e <= 0)
    BY DEF Entries
  <2>2. owner = [e \in Entries |-> IF 0 < e /\ e <= delivered THEN name ELSE None]
    BY <2>1
  <2>3. 0 \in 0 .. delivered /\ delivered - 0 <= BatchSize /\ name \in Names
    BY ConsumerAssumption
  <2> QED BY <2>2, <2>3 DEF OneBatch
<1>9. OneResult /\ MarkedIsTold /\ AckedIsAnswered
  BY <1>1 DEF OneResult, MarkedIsTold, AckedIsAnswered, Acked
<1>10. RecordedFirst
  BY DEF RecordedFirst, Recorded
<1> QED BY <1>2, <1>3, <1>4, <1>5, <1>6, <1>7, <1>8, <1>9, <1>10
        DEF Types, Inv

\* Every step of the process, the clients and the failures preserves it.
LEMMA InvStep ==
    ASSUME Types, Inv, [Next]_vars
    PROVE  Types' /\ Inv'
<1>1. Types'
  BY StreamStep, OwnerStep, AnswersStep, StateStep, ThreadStep DEF Types, Inv
<1>2. Inv'
  BY HandsStep, ExecutingStep, OwnerStep, ResultStep, AckedStep, RecordedStep
     DEF Inv
<1> QED BY <1>1, <1>2

\* Failed calls, lost answers, crashes and restarts under another name leave
\* one batch pending, in order, with nothing told twice or forgotten.
THEOREM InvHolds == Spec => [](Types /\ Inv)
<1>1. Init => Types /\ Inv
  BY InvInit
<1>2. Types /\ Inv /\ [Next]_vars => (Types /\ Inv)'
  BY InvStep
<1> QED BY <1>1, <1>2, PTL DEF Spec

-----------------------------------------------------------------------------
(* What the command path promises.                                          *)

\* Every variable keeps its type, and the entries of the poll that goes on are
\* pending under the name of the process once it has looked at them.
THEOREM TypesHold == Spec => []TypeOK
<1>1. Types /\ Inv => TypeOK
  <2> SUFFICES ASSUME Types, Inv PROVE TypeOK
    OBVIOUS
  <2>1. /\ \A e \in DOMAIN stream : stream[e].id \in Ids /\ Command(e) \in Payloads
        /\ owner \in [Entries -> Names \cup {None}]
        /\ delivered \in 0 .. Len(stream)
    <3> DEFINE Record == [id : Ids, kind : Kinds \cup {"invalid"}, config : Configs]
    <3>1. stream \in Seq(Record)
      BY DEF Types, StreamOK
    <3>2. \A r \in Record : r.id \in Ids
      OBVIOUS
    <3> HIDE DEF Record
    <3>3. \A e \in DOMAIN stream : stream[e] \in Record
      BY <3>1
    <3> QED BY <3>2, <3>3 DEF Types, StreamOK, OwnerOK
  <2>2. /\ marker \in [Ids -> SUBSET Payloads]
        /\ \A i \in DOMAIN results :
              results[i] \in [id : Ids, kind : Kinds, status : Statuses]
        /\ dead \subseteq 1 .. delivered
    <3> DEFINE Record == [id : Ids, kind : Kinds, status : Statuses]
    <3>1. results \in Seq(Record)
      BY DEF Types, AnswersOK
    <3> HIDE DEF Record
    <3>2. \A i \in DOMAIN results : results[i] \in Record
      BY <3>1
    <3> QED BY <3>2 DEF Types, AnswersOK, Record
  <2>3. todo \in Seq(1 .. delivered) /\ deferred \in Seq(1 .. delivered)
    <3>1. ASSUME NEW s, IsRest(s) PROVE s \in Seq(1 .. delivered)
      <4>1. s \in Seq(Nat) /\ Len(s) \in Nat /\ delivered \in Nat /\ Len(s) <= delivered
        BY <3>1 DEF IsRest, Types, OwnerOK
      <4>2. \A i \in 1 .. Len(s) : s[i] \in 1 .. delivered
        BY <3>1, <4>1 DEF IsRest
      <4> QED BY <4>1, <4>2
    <3> QED BY <3>1 DEF Inv, Hands
  <2>4. \A i \in DOMAIN todo : stage = "look" \/ owner[todo[i]] = name
    <3>1. SUFFICES ASSUME NEW i \in DOMAIN todo, stage # "look"
                   PROVE  owner[todo[i]] = name
      OBVIOUS
    <3>2. todo # <<>> /\ stage \in {"save", "finalize"} /\ i \in 1 .. Len(todo)
      BY <2>3, <3>1 DEF Inv, Hands, Types, ThreadOK, Stages
    <3>3. /\ todo[i] = delivered - Len(todo) + i /\ Len(todo) \in Nat
          /\ todo[1] = delivered - Len(todo) + 1 /\ delivered \in Nat
          /\ Len(todo) <= delivered
      BY <2>3, <3>2 DEF Inv, Hands, IsRest, Types, OwnerOK
    <3>4. todo[i] \in Entries /\ todo[i] <= delivered /\ todo[1] <= todo[i]
      BY <3>2, <3>3, ConsumerAssumption DEF Entries, Types, OwnerOK, StreamOK
    <3>5. CASE todo[i] = todo[1]
      BY <3>2, <3>5 DEF Inv, Executing
    <3>6. CASE todo[i] # todo[1]
      <4>1. todo[1] < todo[i]
        BY <3>2, <3>3, <3>6
      <4> QED BY <3>2, <3>4, <4>1 DEF Inv, Hands, Covers
    <3> QED BY <3>5, <3>6
  <2>5. /\ registry \in [life : {None, "running", "paused", "stopped"},
                         config : Configs \cup {None}]
        /\ actual \in [life : {"absent", "running", "paused", "failed"},
                       config : Configs \cup {None}, wants : BOOLEAN]
        /\ left \in [faults : 0 .. MaxFaults, crashes : 0 .. MaxCrashes,
                     failures : 0 .. MaxFailures]
        /\ name \in Names /\ stage \in Stages /\ retrying \in BOOLEAN
        /\ outcome \in Statuses \cup {None}
        /\ (stage \in {"look", "save", "finalize"}) <=> (todo # <<>>)
    BY DEF Types, StateOK, ThreadOK, Inv, Hands
  <2> QED BY <2>1, <2>2, <2>3, <2>4, <2>5 DEF TypeOK
<1> QED BY <1>1, InvHolds, PTL

\* A command id gets at most one result, however often it is submitted,
\* delivered or executed.
THEOREM ResultsAreUnique == Spec => []OneResult
<1>1. Inv => OneResult
  BY DEF Inv
<1> QED BY <1>1, InvHolds, PTL

\* No entry is acknowledged without a result or a dead letter.
THEOREM AckedEntriesAreAnswered == Spec => []AckedIsAnswered
<1>1. Inv => AckedIsAnswered
  BY DEF Inv
<1> QED BY <1>1, InvHolds, PTL

\* Between commands the desired-state registry agrees with the last success
\* that was reported.
THEOREM ReportsAreRecorded == Spec => []ReportedIsRecorded
<1>1. Inv => ReportedIsRecorded
  <2>1. FirstIsDue => Pending # {}
    BY DEF FirstIsDue, Pending
  <2> QED BY <2>1 DEF Inv, RecordedFirst, Recorded, ReportedIsRecorded
<1> QED BY <1>1, InvHolds, PTL

\* No command is executed before all earlier entries are acknowledged.
THEOREM NobodyOvertakes == Spec => NoOvertaking
<1>1. ASSUME Types, Inv, Handle
      PROVE  \A e \in 1 .. Current - 1 : e \in Acked
  <2>1. todo # <<>> /\ ~ Answered(Current)
    BY <1>1 DEF Handle, Inv, Hands, Answered
  <2>2. \A e \in 1 .. Current - 1 : owner[e] = None
    BY <1>1, <2>1, CurrentIsPending DEF Inv
  <2>3. Current \in 1 .. delivered /\ delivered \in Nat
    BY <1>1, <2>1, CurrentIsDelivered DEF Inv, Types, OwnerOK
  <2> QED BY <2>2, <2>3 DEF Acked
<1>2. Types /\ Inv /\ [Next]_vars =>
         [Handle => \A e \in 1 .. Current - 1 : e \in Acked]_vars
  BY <1>1
<1> QED BY <1>2, InvHolds, PTL DEF Spec, NoOvertaking
=============================================================================
