----------------------------- MODULE VariantCycle -----------------------------
(***************************************************************************)
(* What a stream session monitors: each cycle loads the master playlist,   *)
(* names the variants and audio renditions it finds, selects some of them, *)
(* loads their media playlists, and registers those it could load, while   *)
(* the origin rotates tokens, reorders, adds and withdraws renditions.     *)
(*                                                                         *)
(* Sources: src/src/playlist/master_parser.py, src/src/core/               *)
(* variant_selector.py, context.py, live_polling.py (the registry) and     *)
(* live_runtime.py.  Resolution is one number for width and height, and    *)
(* the order of hashed ids is that of the paths they hash.                 *)
(* A text is the sequence of its pieces, the numbers in it and what is     *)
(* between them, so that two texts put together may be a third.            *)
(***************************************************************************)
EXTENDS Integers, Sequences, FiniteSets, Subsequence, SequencesExt

CONSTANTS
    Masters,            \* master playlists the origin serves: [playlists, media]
    Policies,           \* variant selection: [mode, count, wanted]
    Nothing,            \* no resolution, group or playlist
    MaxServed,          \* bound: times the origin changes its master playlist
    MaxUnloaded,        \* bound: media playlists of one cycle that fail
    MaxRefusals         \* bound: failing Redis calls

ASSUME VariantAssumption ==
    /\ Nothing \notin Masters
    /\ \A m \in Masters :
          /\ m.playlists \in Seq(ToSet(m.playlists))
          /\ m.media \in Seq(ToSet(m.media))
          /\ \A e \in ToSet(m.playlists) :
                /\ e.path \in Nat /\ e.bandwidth \in Nat
                /\ e.height \in Nat \cup {Nothing}
          /\ \A e \in ToSet(m.media) : \A text \in {e.name} \cup ({e.group} \ {Nothing}) :
                Len(text) \in Nat /\ text = [i \in 1 .. Len(text) |-> text[i]]
    /\ {MaxServed, MaxUnloaded, MaxRefusals} \subseteq Nat
    /\ \A p \in Policies : /\ p.mode \in {"highest", "all", "representative", "explicit"}
                           /\ p.count \in Nat \ {0}

VARIABLES
    master,     \* what the origin serves, Nothing if it cannot be loaded
    policy,     \* of the session
    session,    \* "poll", "refresh", or "failed" for good
    context,    \* MonitoringContext: the master it was made of, the variants
                \* selected, and the one kept for each id of a loaded media
                \* playlist (snapshots); loaded is a history of those loaded
    registry,   \* Redis: stable id -> id of the active variants
    served, refusals

variantVars == <<master, policy, session, context, registry, served, refusals>>

-----------------------------------------------------------------------------
(* parse_master_playlist.                                                  *)

\* Mutant: a name that was used before is used again.
NumberedNever(base, occurrence) == base

\* A base name that was used before gets its number as a suffix.  Only base names
\* are counted: what comes out may be the base name of another.
Numbered(base, occurrence) ==
    IF occurrence = 0 THEN base ELSE base \o <<"_", occurrence + 1>>

\* How often the base name of element i of names occurs before it.
Occurrence(names, i) == Cardinality({j \in 1 .. i - 1 : names[j] = names[i]})

\* Without codecs, or with any that is not known to be audio, FFmpeg decides.
InferHasVideo(entry) == entry.height # Nothing \/ entry.codecs # "audio"

ExternalGroups(media) == {m.group : m \in {n \in ToSet(media) : n.path # Nothing}}

InferAudioHint(entry, media) ==
    CASE entry.group \in ExternalGroups(media) \ {Nothing} -> "external"
      [] entry.codecs \in {"audio", "both"}
         /\ entry.group \notin ExternalGroups(media) \ {Nothing} -> "muxed"
      [] entry.codecs = "video"
         /\ entry.group \notin ExternalGroups(media) \ {Nothing} -> "absent"
      [] OTHER -> "unknown"

\* Mutant: the query, where the CDN puts its tokens, is part of the identity.
StableVariantIdOfQuery(entry) ==
    <<"video", <<entry.path, entry.query>>, entry.bandwidth, entry.height>>

\* _stable_variant_id: without query and fragment.
StableVariantId(entry) ==
    <<"video", <<entry.path>>, entry.bandwidth, entry.height>>

VariantBase(entries, i) ==
    IF entries[i].height # Nothing THEN <<"height", entries[i].height>>
    ELSE <<"variant", "_", i - 1>>

VideoVariants(m) ==
    LET entries == m.playlists
        bases == [i \in DOMAIN entries |-> VariantBase(entries, i)]
    IN  [i \in DOMAIN entries |->
            [id |-> Numbered(bases[i], Occurrence(bases, i)),
             stable |-> StableVariantId(entries[i]),
             kind |-> "variant", hasVideo |-> InferHasVideo(entries[i]),
             hint |-> InferAudioHint(entries[i], m.media),
             height |-> entries[i].height, bandwidth |-> entries[i].bandwidth,
             group |-> entries[i].group, preferred |-> "no"]]

\* _stable_audio_rendition_id; the bar that separates its parts occurs neither in a
\* path nor in a STABLE-RENDITION-ID.
StableAudioId(rendition) ==
    IF rendition.stableName # Nothing
    THEN <<"audio", "stable", rendition.group, rendition.stableName>>
    ELSE <<"audio", "uri", rendition.path, rendition.group>>

\* Renditions with a playlist of their own in a group that some variant names,
\* the first of each identity.
UsedMedia(m) ==
    LET referenced == {e.group : e \in ToSet(m.playlists)} \ {Nothing}
        usable == {i \in DOMAIN m.media : /\ m.media[i].group \in referenced
                                         /\ m.media[i].path # Nothing}
    IN  Pick(m.media, {i \in usable : \A j \in usable : j < i =>
                StableAudioId(m.media[j]) # StableAudioId(m.media[i])})

AudioBase(rendition) == <<"audio", ":">> \o rendition.group \o <<":">> \o rendition.name

AudioRenditions(m) ==
    LET kept == UsedMedia(m)
        bases == [i \in DOMAIN kept |-> AudioBase(kept[i])]
    IN  [i \in DOMAIN kept |->
            [id |-> Numbered(bases[i], Occurrence(bases, i)),
             stable |-> StableAudioId(kept[i]),
             kind |-> "audio", hasVideo |-> FALSE, hint |-> "muxed",
             height |-> Nothing, bandwidth |-> 0,
             group |-> kept[i].group, preferred |-> kept[i].preferred]]

ParseMaster(m) == VideoVariants(m) \o AudioRenditions(m)

-----------------------------------------------------------------------------
(* select_variants.                                                        *)

Pixels(v) == IF v.height = Nothing THEN 0 ELSE v.height

\* _quality_key, compared.
WorseThan(a, b) ==
    \/ Pixels(a) < Pixels(b)
    \/ Pixels(a) = Pixels(b) /\ a.bandwidth < b.bandwidth
    \/ Pixels(a) = Pixels(b) /\ a.bandwidth = b.bandwidth /\ a.stable[2][1] < b.stable[2][1]

Videos(variants) ==
    Pick(variants, {i \in DOMAIN variants : /\ variants[i].kind = "variant"
                                           /\ variants[i].hasVideo})

Audios(variants) ==
    Pick(variants, {i \in DOMAIN variants : variants[i].kind = "audio"})

\* max(video, key=_quality_key): the first of equal ones.
Highest(videos) ==
    videos[CHOOSE i \in DOMAIN videos : \A j \in DOMAIN videos :
              /\ ~WorseThan(videos[i], videos[j])
              /\ j < i => WorseThan(videos[j], videos[i])]

\* sorted(video, key=_quality_key), which keeps the order of equal ones.
Ranked(videos) ==
    LET Before(j, i) == WorseThan(videos[j], videos[i])
                        \/ (~WorseThan(videos[i], videos[j]) /\ j < i)
        Rank(i) == Cardinality({j \in DOMAIN videos : Before(j, i)})
    IN  [k \in DOMAIN videos |->
            videos[CHOOSE i \in DOMAIN videos : Rank(i) = k - 1]]

\* round(): to the even one when two are equally near.
RoundedQuotient(a, b) ==
    LET q == a \div b
        rest == 2 * (a % b)
    IN  IF rest > b \/ (rest = b /\ q % 2 = 1) THEN q + 1 ELSE q

\* Mutant: the last index is never reached.
SpacedIndexesOpen(n, count) ==
    IF count = 1 THEN {n \div 2}
    ELSE {RoundedQuotient(i * (n - 1), count) : i \in 0 .. count - 1}

\* The indexes, from 0, that _evenly_spaced picks among n > count.
SpacedIndexes(n, count) ==
    IF count = 1 THEN {n \div 2}
    ELSE {RoundedQuotient(i * (n - 1), count - 1) : i \in 0 .. count - 1}

EvenlySpaced(videos, count) ==
    IF Len(videos) <= count THEN videos
    ELSE Pick(videos, {k + 1 : k \in SpacedIndexes(Len(videos), count)})

\* _preferred_audio_rendition: the first one of the group that is the default, or
\* that is for autoselection, or of the group, as a sequence of at most one.
PreferredAudio(audios, group) ==
    LET candidates == {i \in DOMAIN audios : audios[i].group = group}
        Of(mark) == {i \in candidates : audios[i].preferred = mark}
        best == IF Of("default") # {} THEN Of("default")
                ELSE IF Of("autoselect") # {} THEN Of("autoselect")
                ELSE candidates
    IN  Pick(audios, {i \in best : \A j \in best : i <= j})

\* VariantSelectionError.
CannotSelect(variants, p) ==
    \/ /\ p.mode = "explicit"
       /\ \E name \in p.wanted : \A v \in ToSet(variants) : name \notin {v.id, v.stable}
    \/ p.mode = "highest" /\ Videos(variants) = <<>>

SelectVariants(variants, p) ==
    LET videos == Videos(variants)
        audios == Audios(variants)
        best == Highest(videos)
        spaced == EvenlySpaced(Ranked(videos), p.count)
        groups == {v.group : v \in ToSet(spaced)} \ {Nothing}
    IN  CASE p.mode = "all" -> variants
          [] p.mode = "explicit" ->
               Pick(variants, {i \in DOMAIN variants :
                       {variants[i].id, variants[i].stable} \cap p.wanted # {}})
          [] p.mode = "highest" -> <<best>> \o PreferredAudio(audios, best.group)
          [] p.mode = "representative" ->
               spaced \o Pick(audios, {i \in DOMAIN audios : audios[i].group \in groups})

-----------------------------------------------------------------------------
(* The cycle.                                                              *)

EmptyContext == [of |-> Nothing, selected |-> <<>>, loaded |-> {}, snapshots |-> {}]

\* The origin serves another master playlist, or none.
ServeMaster ==
    /\ served > 0
    /\ served' = served - 1
    /\ master' \in (Masters \cup {Nothing}) \ {master}
    /\ UNCHANGED <<policy, session, context, registry, refusals>>

\* What a dictionary keeps that takes the members of S in any order under the key
\* in that field: the last of each key.
LastOfEach(S, field) ==
    {kept \in SUBSET S : /\ \A v \in S : \E w \in kept : w[field] = v[field]
                        /\ \A v, w \in kept : v[field] = w[field] => v = w}

\* build_monitoring_context: any of the media playlists may fail, each by itself,
\* and they arrive in any order.  If the master cannot be loaded the session stays
\* as it is until the next cycle.
LoadContext ==
    /\ session = "poll" /\ master # Nothing
    /\ ~CannotSelect(ParseMaster(master), policy)
    /\ \E selected \in {SelectVariants(ParseMaster(master), policy)} :
          \E loaded \in SUBSET ToSet(selected) :
             /\ Cardinality(ToSet(selected) \ loaded) <= MaxUnloaded
             /\ \E snapshots \in LastOfEach(loaded, "id") :
                   context' = [of |-> master, selected |-> selected,
                               loaded |-> loaded, snapshots |-> snapshots]
    /\ session' = "refresh"
    /\ UNCHANGED <<master, policy, registry, served, refusals>>

\* run_forever does not expect a VariantSelectionError: the session has failed.
SelectionFails ==
    /\ session = "poll" /\ master # Nothing
    /\ CannotSelect(ParseMaster(master), policy)
    /\ session' = "failed"
    /\ UNCHANGED <<master, policy, context, registry, served, refusals>>

\* The mappings that refresh may write: two variants may have one stable id.
Active ==
    {[s \in {v.stable : v \in kept} |-> (CHOOSE v \in kept : v.stable = s).id] :
        kept \in LastOfEach(context.snapshots, "stable")}

\* RedisActiveVariantRegistry.refresh: one transaction, which may fail, or lose
\* its answer, and then ends the cycle.
RefreshRegistry ==
    /\ session = "refresh"
    /\ session' = "poll"
    /\ \/ registry' \in Active /\ UNCHANGED refusals
       \/ /\ refusals > 0
          /\ refusals' = refusals - 1
          /\ registry' \in {registry} \cup Active
    /\ UNCHANGED <<master, policy, context, served>>

\* ttl_seconds without a refresh.
RegistryExpires ==
    /\ registry # <<>>
    /\ session = "failed" \/ master = Nothing
    /\ registry' = <<>>
    /\ UNCHANGED <<master, policy, session, context, served, refusals>>

VariantInit ==
    /\ master \in Masters
    /\ policy \in Policies
    /\ session = "poll"
    /\ context = EmptyContext
    /\ registry = <<>>
    /\ served = MaxServed
    /\ refusals = MaxRefusals

VariantNext ==
    \/ ServeMaster \/ LoadContext \/ SelectionFails
    \/ RefreshRegistry \/ RegistryExpires

VariantSpec == VariantInit /\ [][VariantNext]_variantVars

-----------------------------------------------------------------------------
(* Properties.                                                             *)

\* What tells a selected rendition from the others: a video's id; an audio
\* rendition's stable id, since its id may also be another's.
Mark(v) == IF v.kind = "audio" THEN v.stable ELSE v.id

\* What is selected is what the policy promises: the best video there is, or
\* as many as asked for from the lowest to the best, none twice, and with every
\* video whose sound is in a playlist of its own one that carries it.
SelectedAsPromised ==
    context.of # Nothing =>
       LET videos == Videos(ParseMaster(context.of))
           chosen == Videos(context.selected)
           Better(v, others) == \E w \in ToSet(others) : WorseThan(v, w)
           Worse(v, others) == \E w \in ToSet(others) : WorseThan(w, v)
       IN  /\ policy.mode = "highest" =>
                 Len(chosen) = 1 /\ ~Better(chosen[1], videos)
           /\ policy.mode = "representative" =>
                 /\ Len(chosen) = Min({Len(videos), policy.count})
                 /\ (policy.count > 1 /\ videos # <<>>) =>
                       /\ \E v \in ToSet(chosen) : ~Better(v, videos)
                       /\ \E v \in ToSet(chosen) : ~Worse(v, videos)
           /\ Cardinality({Mark(v) : v \in ToSet(context.selected)}) = Len(context.selected)
           /\ policy.mode \in {"highest", "representative"} =>
                 \A v \in ToSet(chosen) : v.hint = "external" =>
                    \E a \in ToSet(Audios(context.selected)) : a.group = v.group

\* No audio rendition is named like another one with a number.
PlainNames(m) ==
    \A a, b \in ToSet(UsedMedia(m)) : \A n \in 2 .. Len(UsedMedia(m)) :
       AudioBase(a) # AudioBase(b) \o <<"_", n>>

\* Unless a refresh has failed, Redis lists after each cycle what that cycle loaded
\* and nothing the origin has withdrawn or does not deliver.  Every video that was
\* loaded is listed, however names repeat; an audio rendition can only be missing
\* if its master playlist has a name that is another one with a number, so that
\* two renditions share an id and the snapshot of one replaces the other's.
LoadedIsListed ==
    (session = "poll" /\ registry # <<>> /\ refusals = MaxRefusals) =>
       /\ \A s \in DOMAIN registry :
             \E v \in context.loaded : v.stable = s /\ v.id = registry[s]
       /\ \A v \in context.loaded :
             \/ v.stable \in DOMAIN registry
             \/ v.kind = "audio" /\ ~PlainNames(context.of)

\* What is monitored is what the policy promises, from the selection to what Redis
\* lists as active after the cycle, whatever fails to load and whatever arrives
\* last.
MonitoredAsPromised == SelectedAsPromised /\ LoadedIsListed

\* The renditions of a master playlist, whatever their order and their tokens.
Renditions(m) ==
    {<<e.path, e.bandwidth, e.height, e.codecs, e.group>> : e \in ToSet(m.playlists)}

\* What is monitored before and after, if the origin only rotates its tokens and
\* reorders its variants.  Names by position, which an explicit policy may also
\* use, have no such promise.
SameIdentities ==
    (/\ context'.of # context.of /\ context.of # Nothing
     /\ Renditions(context.of) = Renditions(context'.of)
     /\ context.of.media = context'.of.media
     /\ policy.wanted \cap {v.id : v \in ToSet(ParseMaster(context.of))
                                      \cup ToSet(ParseMaster(context'.of))} = {})
    => {v.stable : v \in ToSet(context.selected)}
          = {v.stable : v \in ToSet(context'.selected)}

\* While the origin only rotates its tokens and reorders its variants, the same
\* renditions are monitored under the same identities: records, markers and
\* events of a stream go on where they were.
IdentityKept == [][SameIdentities]_variantVars
=============================================================================
