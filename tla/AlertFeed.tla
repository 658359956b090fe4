------------------------------- MODULE AlertFeed -------------------------------
(***************************************************************************)
(* How an alert reaches the dashboard: the Redis stream all alerts go      *)
(* through, the history the API reads from it, the WebSocket whose server  *)
(* side follows it with a cursor of its own, and the browser's client,     *)
(* which takes alerts from both, across lost connections and changes of    *)
(* the stream it shows.                                                    *)
(*                                                                         *)
(* Sources: src/src/presentation/api/adapters/redis_alert_source.py,       *)
(* alert_codec.py, src/src/presentation/api/main.py, src/src/core/         *)
(* alert_stream.py, src/src/presentation/static/js/alert-client.js.  The   *)
(* limits of the history (50), of the ids seen (1000) and of the stream    *)
(* (10 000) are not reached.                                               *)
(***************************************************************************)
EXTENDS Integers, Sequences, FiniteSets, Subsequence, SequencesExt

CONSTANTS
    AlertIds,
    StreamOfAlert,      \* alert id -> its stream
    Poison,             \* an entry that cannot be parsed
    NoStream,
    Published,          \* bound: the entries each place of the outbox may get
    MaxSessions,        \* bound: times the dashboard shows a stream
    MaxConnections      \* bound: WebSockets opened

ASSUME FeedAssumption ==
    /\ Poison \notin AlertIds
    /\ NoStream \notin {StreamOfAlert[a] : a \in AlertIds}
    /\ Published \in Seq(SUBSET (AlertIds \cup {Poison}))
    /\ {MaxSessions, MaxConnections} \subseteq Nat

VARIABLES
    outbox,     \* Redis stream of all alerts
    page,       \* AlertClient: streamId, generationToken, shouldReconnect, and
                \* whether the timer to reconnect is armed
    socket,     \* the current WebSocket: state of the browser's side, the
                \* server's cursor, the messages under way; history: where the
                \* cursor began, the length of the outbox when it opened, and
                \* what became of the history asked for then
    fetches,    \* requests for the history: [token, stream, read, ofSocket]
    seen,       \* seenAlertIds
    shown,      \* history: alerts shown, in order, in this session
    sessions, connections

feedVars == <<outbox, page, socket, fetches, seen, shown, sessions, connections>>

FeedStreams == {StreamOfAlert[a] : a \in AlertIds}
Unresolved == -1
Unread == <<Poison>>

NoSocket == [state |-> "none", cursor |-> Unresolved, wire |-> <<>>,
             from |-> 0, openedAt |-> 0, history |-> "none"]

\* parse_alert_fields succeeds, and the alert is of stream s.
IsOf(entry, s) == entry # Poison /\ StreamOfAlert[entry] = s

\* recent: oldest first.
Recent(s) == Pick(outbox, {i \in DOMAIN outbox : IsOf(outbox[i], s)})

-----------------------------------------------------------------------------
(* The browser.                                                            *)

\* _processAlert on each of a sequence of alerts.
ProcessAll(alerts) ==
    LET fresh == {i \in DOMAIN alerts :
                     alerts[i] \notin seen /\ \A j \in 1 .. i - 1 : alerts[j] # alerts[i]}
    IN  /\ seen' = seen \cup ToSet(alerts)
        /\ shown' = shown \o Pick(alerts, fresh)

NewFetch(token, stream, ofSocket) ==
    [token |-> token, stream |-> stream, read |-> Unread, ofSocket |-> ofSocket]

\* start: what the last session had is stopped, and a first history is asked for.
StartSession(s) ==
    /\ sessions > 0 /\ connections > 0
    /\ sessions' = sessions - 1 /\ connections' = connections - 1
    /\ page' = [stream |-> s, token |-> page.token + 2, live |-> TRUE, timer |-> FALSE]
    /\ socket' = [NoSocket EXCEPT !.state = "connecting"]
    /\ fetches' = fetches \cup {NewFetch(page.token + 2, s, FALSE)}
    /\ seen' = {} /\ shown' = <<>>
    /\ UNCHANGED outbox

\* stop.
StopSession ==
    /\ page.live
    /\ page' = [page EXCEPT !.token = @ + 1, !.live = FALSE, !.timer = FALSE]
    /\ socket' = NoSocket
    /\ UNCHANGED <<outbox, fetches, seen, shown, sessions, connections>>

\* onopen: ask for the history again, to fill the gap of the connection.
SocketOpens ==
    /\ socket.state = "accepted"
    /\ socket' = [socket EXCEPT !.state = "open", !.openedAt = Len(outbox),
                                !.history = "asked"]
    /\ fetches' = fetches \cup {NewFetch(page.token, page.stream, TRUE)}
    /\ UNCHANGED <<outbox, page, seen, shown, sessions, connections>>

\* onmessage.
ReceiveMessage ==
    /\ socket.state = "open" /\ socket.wire # <<>>
    /\ ProcessAll(<<Head(socket.wire)>>)
    /\ socket' = [socket EXCEPT !.wire = Tail(@)]
    /\ UNCHANGED <<outbox, page, fetches, sessions, connections>>

\* The connection cannot be made or is lost, or the server closes it: onclose
\* arms the timer.
LoseSocket ==
    /\ socket.state # "none"
    /\ socket' = NoSocket
    /\ fetches' = {[f EXCEPT !.ofSocket = FALSE] : f \in fetches}
    /\ page' = [page EXCEPT !.timer = TRUE]
    /\ UNCHANGED <<outbox, seen, shown, sessions, connections>>

\* _connect, by the timer.
Reconnect ==
    /\ page.timer /\ connections > 0
    /\ connections' = connections - 1
    /\ page' = [page EXCEPT !.timer = FALSE]
    /\ socket' = [NoSocket EXCEPT !.state = "connecting"]
    /\ UNCHANGED <<outbox, fetches, seen, shown, sessions>>

\* Mutant: an answer is taken whatever session asked.
HistoryAnswersAny(f) ==
    /\ f \in fetches /\ f.read # Unread
    /\ fetches' = fetches \ {f}
    /\ ProcessAll(f.read)
    /\ socket' = IF f.token = page.token /\ f.ofSocket
                 THEN [socket EXCEPT !.history = "read"] ELSE socket
    /\ UNCHANGED <<outbox, page, sessions, connections>>

\* _fetchRecentAlerts gets its answer: one of an earlier session is dropped.
HistoryAnswers(f) ==
    /\ f \in fetches /\ f.read # Unread
    /\ fetches' = fetches \ {f}
    /\ IF f.token # page.token THEN UNCHANGED <<socket, seen, shown>>
       ELSE /\ ProcessAll(f.read)
            /\ socket' = IF f.ofSocket THEN [socket EXCEPT !.history = "read"] ELSE socket
    /\ UNCHANGED <<outbox, page, sessions, connections>>

\* ... or an error, which it passes over.
HistoryFails(f) ==
    /\ f \in fetches
    /\ fetches' = fetches \ {f}
    /\ UNCHANGED <<outbox, page, socket, seen, shown, sessions, connections>>

-----------------------------------------------------------------------------
(* The API and Redis.  A failing Redis call of the subscription is made    *)
(* again after a pause, with the cursor it had.                            *)

\* An alert is published, of any stream; runtime health uses an id again.
PublishAlert ==
    /\ Len(outbox) < Len(Published)
    /\ \E entry \in Published[Len(outbox) + 1] : outbox' = Append(outbox, entry)
    /\ UNCHANGED <<page, socket, fetches, seen, shown, sessions, connections>>

\* recent: entries that come between two pages are newer than both.
ReadHistory(f) ==
    /\ f \in fetches /\ f.read = Unread
    /\ fetches' = (fetches \ {f}) \cup {[f EXCEPT !.read = Recent(f.stream)]}
    /\ UNCHANGED <<outbox, page, socket, seen, shown, sessions, connections>>

\* websocket_endpoint: accept, before anything is read.
AcceptSocket ==
    /\ socket.state = "connecting"
    /\ socket' = [socket EXCEPT !.state = "accepted"]
    /\ UNCHANGED <<outbox, page, fetches, seen, shown, sessions, connections>>

\* _initial_cursor: the newest entry there is.
ResolveCursor ==
    /\ socket.state \in {"accepted", "open"} /\ socket.cursor = Unresolved
    /\ socket' = [socket EXCEPT !.cursor = Len(outbox), !.from = Len(outbox)]
    /\ UNCHANGED <<outbox, page, fetches, seen, shown, sessions, connections>>

\* subscribe: entry by entry, the parsed ones of the stream are sent.
Follow ==
    /\ socket.cursor # Unresolved /\ socket.cursor < Len(outbox)
    /\ LET entry == outbox[socket.cursor + 1]
       IN  socket' = [socket EXCEPT !.cursor = @ + 1,
                          !.wire = IF IsOf(entry, page.stream) THEN Append(@, entry) ELSE @]
    /\ UNCHANGED <<outbox, page, fetches, seen, shown, sessions, connections>>

-----------------------------------------------------------------------------
FeedInit ==
    /\ outbox = <<>>
    /\ page = [stream |-> NoStream, token |-> 0, live |-> FALSE, timer |-> FALSE]
    /\ socket = NoSocket
    /\ fetches = {}
    /\ seen = {} /\ shown = <<>>
    /\ sessions = MaxSessions /\ connections = MaxConnections

FeedNext ==
    \/ \E s \in FeedStreams : StartSession(s)
    \/ StopSession \/ SocketOpens \/ ReceiveMessage \/ LoseSocket \/ Reconnect
    \/ \E f \in fetches : ReadHistory(f) \/ HistoryAnswers(f) \/ HistoryFails(f)
    \/ PublishAlert \/ AcceptSocket \/ ResolveCursor \/ Follow

FeedSpec == FeedInit /\ [][FeedNext]_feedVars

-----------------------------------------------------------------------------
(* Properties.                                                             *)

\* The connection stands, its history has come, and all that was sent.
CaughtUp ==
    /\ socket.state = "open" /\ socket.history = "read"
    /\ socket.cursor = Len(outbox) /\ socket.wire = <<>>

\* Alerts of the stream in these places of the outbox are shown.
ShownOf(places) ==
    \A i \in places : IsOf(outbox[i], page.stream) => outbox[i] \in ToSet(shown)

\* An alert is shown at most once and only while its stream is, though it comes
\* by two ways and from connections and requests of earlier sessions; and once a
\* connection has caught up nothing is missing, whatever was published while
\* there was none, but what came between its opening and its cursor.
AlertsShown ==
    /\ \A i, j \in DOMAIN shown : shown[i] = shown[j] => i = j
    /\ \A i \in DOMAIN shown : StreamOfAlert[shown[i]] = page.stream
    /\ CaughtUp => ShownOf((1 .. socket.openedAt) \cup (socket.from + 1 .. Len(outbox)))

\* The client fetches the history to fill the gap of the connection, and the
\* server resolves its cursor first to create none: nothing is missing at all.
\* An alert published after the history was read and before the cursor was
\* resolved is.
NoDeliveryGap == CaughtUp => ShownOf(1 .. Len(outbox))
=============================================================================
