---------------------------- MODULE AlertLifecycle ----------------------------
(***************************************************************************)
(* One variant of one stream under one check: the segments whose analyses  *)
(* are committed, in the order the commits happen, the store of the check, *)
(* and the alerts a reader of the alert stream has seen opened and not yet *)
(* resolved.                                                               *)
(*                                                                         *)
(* Segments are published along a timeline.  One can be lost (terminal     *)
(* failure, coverage gap), be committed late by another worker, be         *)
(* replaced under its sequence number, follow a discontinuity, or begin a  *)
(* new timeline generation.  Commits are atomic and happen once for each   *)
(* segment and revision: EventStore and ProfileWorker show that.           *)
(***************************************************************************)
EXTENDS AlertStore

CONSTANTS
    Checks,             \* the checks to look at, one at a time
    Pictures,           \* the intervals a checked segment may show
    MaxSegments,        \* bound: segments published
    MaxUpsets           \* bound: segments lost or replaced, timeline changes

ASSUME BoundsAssumption ==
    /\ Checks \subseteq {"black_screen", "video_freeze", "audio_loss",
                         "macroblocking"}
    /\ Pictures \subseteq Seq(Nat \X Nat)
    /\ \A p \in Pictures : \A n \in DOMAIN p :
          /\ p[n][1] < p[n][2] /\ p[n][2] <= SegmentLength
          /\ n > 1 => p[n - 1][2] <= p[n][1]
    /\ MaxSegments \in Nat /\ MaxUpsets \in Nat

VARIABLES
    check,      \* the check this behaviour looks at
    tip,        \* the last segment published
    lost,       \* a segment that was not committed, and may still be
    last,       \* the last segment committed
    store,      \* the check's keys in Redis
    live,       \* alerts opened and not resolved
    healthy,    \* contiguous healthy segments, up to the last commit
    raised,     \* the last commit raised an error
    upsets      \* steps that broke the order so far

vars == <<check, tip, lost, last, store, live, healthy, raised, upsets>>

Black == INSTANCE BlackScreen
Freeze == INSTANCE VideoFreeze
Audio == INSTANCE AudioLoss
Blocks == INSTANCE Macroblocking

(* What the detector may say.  An audio store refuses an unchecked result;  *)
(* only the freeze check compares frames.  (The processors of black screen  *)
(* and freeze retry an unchecked result; their stores accept it.)           *)
Evidences ==
    {Evidence(TRUE, p, TRUE) : p \in Pictures}
      \cup (IF check = "audio_loss" THEN {} ELSE {Evidence(FALSE, <<>>, TRUE)})
      \cup (IF check = "video_freeze"
               THEN {Evidence(TRUE, p, FALSE) :
                        p \in {q \in Pictures : q # <<>> /\ q[1][1] = 0}}
               ELSE {})

Applied(s, evidence) ==
    CASE check = "black_screen" -> Black!Apply(store, s, evidence)
      [] check = "video_freeze" -> Freeze!Apply(store, s, evidence)
      [] check = "audio_loss" -> Audio!Apply(store, s, evidence)
      [] check = "macroblocking" -> Blocks!Apply(store, s, evidence)

AlertName(alert) == <<alert.kind, alert.id>>

(* What a reader of the alert stream knows after one more alert.            *)
Read(known, alert) ==
    CASE alert.state = "OPEN" -> known \cup {AlertName(alert)}
      [] alert.state = "RESOLVED" -> known \ {AlertName(alert)}
      [] alert.state = "UPDATE" -> known

HealthyBound == RecoveryHealthy + 2

HealthyAfter(s, evidence) ==
    LET follows == last # None /\ SameTimeline(last, s) /\ s.seq = last.seq + 1
        count == IF follows THEN healthy + 1 ELSE 1
    IN IF ~ evidence.checked \/ evidence.intervals # <<>> THEN 0
       ELSE IF count > HealthyBound THEN HealthyBound ELSE count

Commit(s) ==
    \E evidence \in Evidences :
       LET result == Applied(s, evidence)
       IN /\ store' = result.store
          /\ raised' = result.raised
          /\ live' = Fold(Read, live, result.alerts)
          /\ healthy' = HealthyAfter(s, evidence)
          /\ last' = s
          /\ UNCHANGED check

-----------------------------------------------------------------------------
Init ==
    /\ check \in Checks
    /\ tip = Segment(0, 0, 0, 0, 0)
    /\ lost = None
    /\ last = None
    /\ store = EmptyStore
    /\ live = {}
    /\ healthy = 0
    /\ raised = FALSE
    /\ upsets = 0

PublishNext(s) == tip.at < MaxSegments /\ tip' = s

Upset == upsets < MaxUpsets /\ upsets' = upsets + 1

Follower == Segment(tip.gen, tip.disc, tip.seq + 1, 0, tip.at + 1)

(* The next segment of the timeline.                                        *)
Observe ==
    /\ PublishNext(Follower)
    /\ Commit(Follower)
    /\ UNCHANGED <<lost, upsets>>

(* The next segment is published and not committed, for now or for good.    *)
Lose ==
    /\ Upset
    /\ PublishNext(Follower)
    /\ lost' = Follower
    /\ UNCHANGED <<check, last, store, live, healthy, raised>>

(* A segment that was thought lost is committed after later ones.           *)
CommitLate ==
    /\ lost # None
    /\ lost # tip
    /\ Commit(lost)
    /\ lost' = None
    /\ UNCHANGED <<tip, upsets>>

(* The playlist replaces the media of the last sequence number.             *)
Replace ==
    /\ Upset
    /\ tip' = [tip EXCEPT !.rev = @ + 1]
    /\ Commit(tip')
    /\ UNCHANGED lost

Discontinue ==
    LET s == Segment(tip.gen, tip.disc + 1, tip.seq + 1, 0, tip.at + 1)
    IN /\ Upset
       /\ PublishNext(s)
       /\ Commit(s)
       /\ UNCHANGED lost

(* A new generation: sequence numbers start again.                          *)
Reset ==
    LET s == Segment(tip.gen + 1, 0, 0, 0, tip.at + 1)
    IN /\ tip.gen < MaxGeneration
       /\ Upset
       /\ PublishNext(s)
       /\ Commit(s)
       /\ UNCHANGED lost

Next == Observe \/ Lose \/ CommitLate \/ Replace \/ Discontinue \/ Reset

Spec == Init /\ [][Next]_vars

-----------------------------------------------------------------------------
(* The store is well formed: one open event, one recovery, at most as many  *)
(* canonical events as are referred to.                                     *)
TypeOK ==
    /\ check \in Checks
    /\ tip.at \in 0 .. MaxSegments
    /\ store.open # None => /\ store.open.id \in store.saved
                            /\ store.open.off = SegmentLength
                            /\ store.open.dur \in 1 .. AlertDuration
    /\ store.recovery # None => /\ store.recovery.healthy \in 0 .. RecoveryHealthy - 1
                                /\ store.recovery.kind \in {"CONTINUOUS", "REPEATED"}
    /\ \A g \in Generations : store.incident[g] # None =>
          store.incident[g].fresh \in 0 .. UpdateEvery - 1
    /\ healthy \in 0 .. HealthyBound
    /\ raised \in BOOLEAN

(* The alerts something in the store will resolve: the one the open event   *)
(* raised, and the one that waits for recovery.                             *)
Owners ==
    {<<"CONTINUOUS", e.id>> : e \in {x \in {store.open} \ {None} : x.sent}}
      \cup {<<r.kind, r.id>> : r \in {store.recovery} \ {None}}

(* Every alert that is open for a reader of the stream is held by the store *)
(* (nothing else would ever resolve it), every alert held is open, and only *)
(* one is at a time.  The freeze store does not keep the first part.        *)
EveryAlertHeld == live \subseteq Owners

AlertsHeld ==
    /\ Owners \subseteq live
    /\ check # "video_freeze" => EveryAlertHeld
    /\ ~ (store.open # None /\ store.open.sent /\ store.recovery # None)

(* Healthy segments in a row end every event and every recovery, whatever   *)
(* was lost, reordered or renumbered before them.                           *)
RecoveryEnds ==
    healthy = HealthyBound => store.open = None /\ store.recovery = None

(* An event long enough to be reported is reported, or belongs to an        *)
(* outage whose alert is still open.                                        *)
LongEventReported ==
    store.open # None /\ store.open.dur = AlertDuration =>
        store.open.sent \/ store.recovery # None

(* A repeated incident exists exactly while its alert waits for recovery,   *)
(* in the generation the recovery names.                                    *)
IncidentHeld ==
    \A g \in Generations :
       IF store.recovery # None /\ store.recovery.kind = "REPEATED"
             /\ store.recovery.gen = g
          THEN store.incident[g] # None /\ store.incident[g].id = store.recovery.id
          ELSE store.incident[g] = None

(* No recovery refers to an event or an incident that is not there.         *)
NeverRaises == ~ raised

(* The alert that waits for recovery was resolved, on its own timeline.     *)
Recovered ==
    /\ store.recovery # None
    /\ <<store.recovery.kind, store.recovery.id>> \in live \ live'
    /\ SameTimeline(store.recovery, last')

(* An alert is resolved on the timeline it waits on only after as many      *)
(* healthy segments in a row as the policy asks for.  The freeze and the    *)
(* macroblocking store count on over an event that opens and closes within  *)
(* one segment; the audio store does not wait.                              *)
NoFalseRecovery ==
    [][(check = "black_screen" /\ Recovered) => healthy' >= RecoveryHealthy]_vars
=============================================================================
