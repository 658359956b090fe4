----------------------------- MODULE MCComponents -----------------------------
(***************************************************************************)
(* Bounded instances of the modules about the edges of a worker.  They     *)
(* share no state, so a behaviour is one of one of them, chosen at the     *)
(* start; the others stay as they begin.                                   *)
(***************************************************************************)
EXTENDS LiveCycle, MediaGates, WorkerHeartbeat, StatusProjection, VariantCycle,
        CommandRequest, AlertFeed, TLC

CONSTANTS
    s1, s2, w1, w2, a1, b1, k1, r1, r2, r3,
    Parts          \* the modules whose behaviours a run has

VARIABLE part

\* LiveCycle: the last of three segments is of a new generation.
ThreeSegments == 1 .. 3
TwoGenerations == <<0, 0, 1>>

\* MediaGates: a thread more of one stream than its gate lets pass, and with the
\* other stream's one more than the gate of the service does.
FourThreads == 1 .. 4
TwoExecutors == [t \in FourThreads |-> IF t <= 3 THEN s1 ELSE s2]
OneEach == (s1 :> 3) @@ (s2 :> 1)

\* VariantCycle: a ladder of renditions and its sound; the same with other
\* tokens and in another order; a part of it; one whose sound has a name that is
\* another one with a number; sound alone.
Rung(path, query, height, bandwidth, group) ==
    [path |-> path, query |-> query, height |-> height, bandwidth |-> bandwidth,
     codecs |-> "both", group |-> group]
Rendition(group, name, path, preferred) ==
    [group |-> group, name |-> name, path |-> path, preferred |-> preferred,
     stableName |-> Nothing]
Ladder(query) ==
    <<Rung(1, query, 1080, 8, <<"main">>), Rung(2, query, 720, 4, <<"main">>),
      Rung(3, query, 720, 6, <<"main">>), Rung(4, query, Nothing, 2, <<"low">>)>>
Sound ==
    <<Rendition(<<"main">>, <<"en">>, 10, "no"),
      Rendition(<<"main">>, <<"en">>, 11, "default"),
      Rendition(<<"main">>, <<"en">>, 10, "autoselect"),
      Rendition(<<"low">>, <<"en">>, 12, "no"),
      Rendition(<<"gone">>, <<"fr">>, 13, "no")>>
Second == Rendition(<<"main">>, <<"en", "_", 2>>, 14, "no")
SomeMasters ==
    {[playlists |-> Ladder(0), media |-> Sound],
     [playlists |-> Ladder(1), media |-> Sound],
     [playlists |-> SubSeq(Ladder(1), 3, 4) \o SubSeq(Ladder(0), 1, 2), media |-> Sound],
     [playlists |-> SubSeq(Ladder(0), 2, 3), media |-> SubSeq(Sound, 1, 2)],
     [playlists |-> SubSeq(Ladder(0), 2, 3), media |-> Append(SubSeq(Sound, 1, 2), Second)],
     [playlists |-> <<[Rung(5, 0, Nothing, 1, Nothing) EXCEPT !.codecs = "audio"]>>,
      media |-> <<>>]}
SomePolicies ==
    {[mode |-> choice, count |-> 3, wanted |-> {}] : choice \in {"highest", "all"}}
    \cup {[mode |-> "representative", count |-> n, wanted |-> {}] : n \in 1 .. 3}
    \cup {[mode |-> "explicit", count |-> 3, wanted |-> wanted] : wanted \in
            {{<<"video", <<2>>, 4, 720>>},
             {<<"height", 720, "_", 2>>, <<"video", <<1>>, 8, 1080>>}}}

\* CommandRequest: a key used for two requests, and a request without one.
SharedKey == (r1 :> k1) @@ (r2 :> k1) @@ (r3 :> NoKey)
TwoPrints == (r1 :> "PAUSE") @@ (r2 :> "STOP") @@ (r3 :> "PAUSE")

\* AlertFeed: an entry nobody can read, then an alert.
AlertStreams == (a1 :> s1) @@ (b1 :> s2)
SomeAlerts == <<{Poison}, {a1}>>

-----------------------------------------------------------------------------
ComponentsInit ==
    /\ part \in Parts
    /\ CycleInit /\ GatesInit /\ HeartbeatInit /\ StatusInit /\ VariantInit
    /\ RequestInit /\ FeedInit
    /\ me = w1      \* the other name leads to the same behaviours, renamed
    /\ part # "status" => slots = [s \in StreamIds |-> None]
    /\ part # "variants" => /\ policy = CHOOSE p \in Policies : TRUE
                            /\ master = CHOOSE m \in Masters : m.media = <<>>

ComponentsNext ==
    /\ UNCHANGED part
    /\ \/ part = "cycle" /\ CycleNext
       \/ part = "gates" /\ GatesNext
       \/ part = "heartbeat" /\ HeartbeatNext
       \/ part = "status" /\ StatusNext
       \/ part = "variants" /\ VariantNext
       \/ part = "request" /\ RequestNext
       \/ part = "feed" /\ FeedNext
    /\ part # "cycle" => UNCHANGED cycleVars
    /\ part # "gates" => UNCHANGED gatesVars
    /\ part # "heartbeat" => UNCHANGED heartbeatVars
    /\ part # "status" => UNCHANGED statusVars
    /\ part # "variants" => UNCHANGED variantVars
    /\ part # "request" => UNCHANGED requestVars
    /\ part # "feed" => UNCHANGED feedVars

componentsVars == <<part, cycleVars, gatesVars, heartbeatVars, statusVars,
                    variantVars, requestVars, feedVars>>

\* CycleFairness, where the behaviour is one of LiveCycle.
ComponentsFairness ==
    /\ WF_cycleVars(part = "cycle" /\ RuntimeStep)
    /\ WF_cycleVars(part = "cycle" /\ BatchStep)
    /\ SF_cycleVars(part = "cycle" /\ TimePasses)

ComponentsSpec ==
    ComponentsInit /\ [][ComponentsNext]_componentsVars /\ ComponentsFairness
=============================================================================
