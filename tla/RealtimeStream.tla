--------------------------- MODULE RealtimeStream ---------------------------
(***************************************************************************)
(* The hint streams: a change of one user's data publishes a hint over     *)
(* Redis, a subscriber routes it to the server-sent-event connections the  *)
(* hub holds for that user, and each browser tab answers every hint, and   *)
(* every (re)connection, by fetching again.  The notification feed and the *)
(* AI runs have one such path each, alike but for names.                   *)
(*                                                                         *)
(* Hints carry nothing, so a version number stands for the data and a flag *)
(* for any number of hints on their way down one socket.  A hint may be    *)
(* dropped before, in or after Redis; a stream ends with its token at the  *)
(* latest.  A tab's query is TanStack's: it fetches on mount, an           *)
(* invalidation restarts a fetch under way if the query has data, and      *)
(* otherwise waits for that first fetch.                                   *)
(***************************************************************************)
EXTENDS Integers, FiniteSets

CONSTANTS
  Tabs,           \* one user's browser tabs
  QueueDepth,     \* frames a connection buffers for a stuck socket
  MaxPerUser,     \* connections of one user
  MaxConnections, \* connections of the process
  MaxInFlight,    \* publishes in flight
  MaxEdits,       \* bound: changes of the data
  MaxMisses       \* bound: hints and fetches that get lost

ASSUME StreamAssumption ==
  /\ IsFiniteSet(Tabs)
  /\ {QueueDepth, MaxPerUser, MaxConnections, MaxInFlight, MaxEdits, MaxMisses} \subseteq Nat

VARIABLES
  version,    \* the user's data in Postgres
  publishing, \* hints a publisher awaits
  wire,       \* hints in Redis
  foreign,    \* connections of other users
  stream,     \* the server's side of each tab's connection
  tab,        \* the tab's side
  misses      \* hints and fetches that were lost

streamVars == <<version, publishing, wire, foreign, stream, tab, misses>>

Version == 0 .. MaxEdits

Stream == [registered : BOOLEAN,     \* in the hub
           backpressured : BOOLEAN,
           queue : 0 .. QueueDepth]

Tab == [link : {"off", "asking", "open", "ended", "failed"},
        opened : BOOLEAN,   \* the response headers are on their way
        hint : BOOLEAN,     \* a data frame is in the socket
        fetch : {"none", "asked", "read"},
        read : Version,     \* what the pending fetch has read
        loaded : BOOLEAN,   \* the query has data, ...
        view : Version,     \* ... which the tab shows
        missed : BOOLEAN,   \* something for it was lost since its stream opened
        swallowed : BOOLEAN] \* an invalidation was answered with an older first read

StreamTypeOK ==
  /\ version \in Version
  /\ publishing \subseteq Version /\ wire \subseteq Version
  /\ foreign \in 0 .. MaxConnections
  /\ stream \in [Tabs -> Stream]
  /\ tab \in [Tabs -> Tab]
  /\ misses \in 0 .. MaxMisses

NoStream == [registered |-> FALSE, backpressured |-> FALSE, queue |-> 0]

\* A run's query is seeded with what its creation returned; the feed's has no data.
Blank(seeded) == [link |-> "off", opened |-> FALSE, hint |-> FALSE, fetch |-> "none", read |-> 0,
                  loaded |-> seeded, view |-> 0, missed |-> FALSE, swallowed |-> FALSE]

StreamInit ==
  /\ version = 0
  /\ publishing = {} /\ wire = {}
  /\ foreign = 0
  /\ stream = [t \in Tabs |-> NoStream]
  /\ tab \in [Tabs -> {Blank(seeded) : seeded \in BOOLEAN}]
  /\ misses = 0

Registered == {t \in Tabs : stream[t].registered}
Miss == misses < MaxMisses /\ misses' = misses + 1
MissedBy(T) == tab' = [t \in Tabs |-> IF t \in T THEN [tab[t] EXCEPT !.missed = TRUE] ELSE tab[t]]

-----------------------------------------------------------------------------
(* From the change to the hub.                                             *)

\* publish: fired after the commit and never awaited; too many in flight drop it.
PublishHint ==
  /\ version < MaxEdits
  /\ version' = version + 1
  /\ \/ /\ Cardinality(publishing) < MaxInFlight
        /\ publishing' = publishing \cup {version'}
        /\ UNCHANGED <<tab, misses>>
     \/ /\ Cardinality(publishing) >= MaxInFlight
        /\ MissedBy(Tabs)
        /\ UNCHANGED <<publishing, misses>>
  /\ UNCHANGED <<wire, foreign, stream>>

\* Redis takes the hint, whether or not the publisher hears of it ...
HintLands(v) ==
  /\ v \in publishing
  /\ publishing' = publishing \ {v}
  /\ wire' = wire \cup {v}
  /\ UNCHANGED <<version, foreign, stream, tab, misses>>

\* ... or it is lost, on the way in or because the subscriber is reconnecting.
HintIsLost(v) ==
  /\ v \in publishing \cup wire
  /\ Miss
  /\ publishing' = publishing \ {v} /\ wire' = wire \ {v}
  /\ MissedBy(Tabs)
  /\ UNCHANGED <<version, foreign, stream>>

\* overflow: the socket is destroyed with everything in it.
Overflow(t) == {[stream |-> NoStream, tab |-> [tab[t] EXCEPT !.link = "ended", !.hint = FALSE,
                                                             !.opened = FALSE]]}

\* What sendData leaves of a connection: written, with the socket then full or not, or buffered.
SendData(t) ==
  IF ~stream[t].registered THEN {[stream |-> stream[t], tab |-> tab[t]]}
  ELSE IF ~stream[t].backpressured
  THEN {[stream |-> [stream[t] EXCEPT !.backpressured = b], tab |-> [tab[t] EXCEPT !.hint = TRUE]] :
          b \in BOOLEAN}
  ELSE IF stream[t].queue < QueueDepth
  THEN {[stream |-> [stream[t] EXCEPT !.queue = @ + 1], tab |-> tab[t]]}
  ELSE Overflow(t)

\* The subscriber's onMessage: every connection of that user, one after the other.
OnMessage(v) ==
  /\ v \in wire
  /\ wire' = wire \ {v}
  /\ \E after \in [Tabs -> UNION {SendData(t) : t \in Tabs}] :
       /\ \A t \in Tabs : after[t] \in SendData(t)
       /\ stream' = [t \in Tabs |-> after[t].stream]
       /\ tab' = [t \in Tabs |-> after[t].tab]
  /\ UNCHANGED <<version, publishing, foreign, misses>>

-----------------------------------------------------------------------------
(* The life of a connection.                                               *)

HubIsFull == Cardinality(Registered) + foreign >= MaxConnections
UserIsFull == Cardinality(Registered) >= MaxPerUser

\* register, the headers and the ready frame, in one step of the event loop.
Admit(t) ==
  /\ tab[t].link = "asking" /\ ~HubIsFull /\ ~UserIsFull
  /\ \E b \in BOOLEAN :
       stream' = [stream EXCEPT ![t] = [NoStream EXCEPT !.registered = TRUE, !.backpressured = b]]
  /\ tab' = [tab EXCEPT ![t].link = "open", ![t].opened = TRUE, ![t].missed = FALSE]
  /\ UNCHANGED <<version, publishing, wire, foreign, misses>>

\* 429, 503 and 401: an EventSource gives up on any status but 200.
Reject429(t) ==
  /\ tab[t].link = "asking" /\ (HubIsFull \/ UserIsFull)
  /\ tab' = [tab EXCEPT ![t].link = "failed"]
  /\ UNCHANGED <<version, publishing, wire, foreign, stream, misses>>

\* close: 'expired' at the token's end, 'shutdown', or a start that throws.  What is in the
\* socket still arrives; what is in the buffer does not.
CloseStream(t) ==
  /\ stream[t].registered
  /\ stream' = [stream EXCEPT ![t] = NoStream]
  /\ tab' = [tab EXCEPT ![t].link = "ended"]
  /\ UNCHANGED <<version, publishing, wire, foreign, misses>>

\* heartbeat: a comment line to every socket that is not stuck.
Heartbeat ==
  /\ \E T \in SUBSET {t \in Registered : ~stream[t].backpressured} :
       /\ T # {}
       /\ stream' = [t \in Tabs |-> IF t \in T THEN [stream[t] EXCEPT !.backpressured = TRUE]
                                    ELSE stream[t]]
  /\ UNCHANGED <<version, publishing, wire, foreign, tab, misses>>

\* onDrain: buffered frames go out until the socket is full again.
OnDrain(t) ==
  /\ stream[t].registered /\ stream[t].backpressured
  /\ \E n \in 0 .. stream[t].queue, b \in BOOLEAN :
       /\ n < stream[t].queue => n > 0 /\ b
       /\ n = 0 => ~b
       /\ stream' = [stream EXCEPT ![t].queue = @ - n, ![t].backpressured = b]
       /\ tab' = [tab EXCEPT ![t].hint = @ \/ n > 0]
  /\ UNCHANGED <<version, publishing, wire, foreign, misses>>

\* Other users come and go.
OthersConnect ==
  /\ foreign' \in {foreign - 1, foreign + 1} \cap Nat
  /\ foreign' <= MaxConnections - Cardinality(Registered)
  /\ UNCHANGED <<version, publishing, wire, stream, tab, misses>>

-----------------------------------------------------------------------------
(* The tab: useEventSource and the queries it invalidates.                 *)

Ask(r) == [r EXCEPT !.fetch = "asked", !.swallowed = FALSE]

\* The queries and the stream start side by side: a query fetches if it has no data, or data
\* past its staleTime, and is not fetching already.
Mount(t) ==
  /\ tab[t].link = "off"
  /\ \E stale \in BOOLEAN :
       LET r == [tab[t] EXCEPT !.link = "asking"] IN
       tab' = [tab EXCEPT ![t] = IF r.fetch = "none" /\ (~r.loaded \/ stale) THEN Ask(r) ELSE r]
  /\ UNCHANGED <<version, publishing, wire, foreign, stream, misses>>

\* source.close() at unmount; a fetch under way goes on.
Unmount(t) ==
  /\ tab[t].link # "off"
  /\ tab' = [tab EXCEPT ![t] = [@ EXCEPT !.link = "off", !.opened = FALSE, !.hint = FALSE]]
  /\ stream' = [stream EXCEPT ![t] = NoStream]
  /\ UNCHANGED <<version, publishing, wire, foreign, misses>>

\* An EventSource reconnects by itself when a stream ends.
Reconnect(t) ==
  /\ tab[t].link = "ended" /\ ~tab[t].hint /\ ~tab[t].opened
  /\ tab' = [tab EXCEPT ![t].link = "asking"]
  /\ UNCHANGED <<version, publishing, wire, foreign, stream, misses>>

\* The pending promise of a first fetch answers the invalidation, and may have read already.
Joined(r) == [r EXCEPT !.swallowed = @ \/ (r.fetch = "read" /\ ~r.loaded)]

\* Slip: invalidateQueries with cancelRefetch off joins every fetch that is under way.
JoinFetch(r) == IF r.fetch = "none" THEN Ask(r) ELSE Joined(r)

\* invalidateQueries starts over a fetch that is under way, unless there is no data yet.
Invalidate(r) == IF r.fetch = "none" \/ r.loaded THEN Ask(r) ELSE Joined(r)

\* Slip: only a hint makes the tab fetch.
OpenedIsNoNews(r) == [r EXCEPT !.opened = FALSE]

\* onOpen: whatever changed while there was no stream is fetched now.
AfterOpen(r) == Invalidate([r EXCEPT !.opened = FALSE])

OnOpen(t) ==
  /\ tab[t].opened
  /\ tab' = [tab EXCEPT ![t] = AfterOpen(@)]
  /\ UNCHANGED <<version, publishing, wire, foreign, stream, misses>>

OnEvent(t) ==
  /\ tab[t].hint
  /\ tab' = [tab EXCEPT ![t] = Invalidate([@ EXCEPT !.hint = FALSE])]
  /\ UNCHANGED <<version, publishing, wire, foreign, stream, misses>>

FetchReads(t) ==
  /\ tab[t].fetch = "asked"
  /\ tab' = [tab EXCEPT ![t].fetch = "read", ![t].read = version]
  /\ UNCHANGED <<version, publishing, wire, foreign, stream, misses>>

FetchArrives(t) ==
  /\ tab[t].fetch = "read"
  /\ tab' = [tab EXCEPT ![t].fetch = "none", ![t].loaded = TRUE, ![t].view = tab[t].read,
                         ![t].read = 0]
  /\ UNCHANGED <<version, publishing, wire, foreign, stream, misses>>

FetchFails(t) ==
  /\ tab[t].fetch # "none" /\ Miss
  /\ tab' = [tab EXCEPT ![t].fetch = "none", ![t].read = 0, ![t].missed = TRUE]
  /\ UNCHANGED <<version, publishing, wire, foreign, stream>>

TabNext(t) ==
  \/ Admit(t) \/ Reject429(t) \/ CloseStream(t) \/ OnDrain(t)
  \/ Mount(t) \/ Unmount(t) \/ Reconnect(t) \/ OnOpen(t) \/ OnEvent(t)
  \/ FetchReads(t) \/ FetchArrives(t) \/ FetchFails(t)

StreamNext ==
  \/ PublishHint \/ Heartbeat \/ OthersConnect
  \/ \E v \in Version : HintLands(v) \/ HintIsLost(v) \/ OnMessage(v)
  \/ \E t \in Tabs : TabNext(t)

StreamSpec == StreamInit /\ [][StreamNext]_streamVars

\* Redis and the subscriber move on; a token expires; a browser reads its socket, reconnects and
\* completes its fetches, which take a moment of a stream's minutes; the server answers a
\* connection.  Nothing makes a tab mount or unmount.
StreamFairness ==
  /\ \A v \in Version : WF_streamVars(HintLands(v)) /\ WF_streamVars(OnMessage(v))
  /\ \A t \in Tabs :
       /\ WF_streamVars(Admit(t) \/ Reject429(t)) /\ WF_streamVars(CloseStream(t))
       /\ WF_streamVars(Reconnect(t)) /\ WF_streamVars(OnOpen(t)) /\ WF_streamVars(OnEvent(t))
       /\ SF_streamVars(FetchReads(t)) /\ SF_streamVars(FetchArrives(t))

StreamFairSpec == StreamSpec /\ StreamFairness

-----------------------------------------------------------------------------
\* A tab with an open stream for which nothing is on its way shows what Postgres holds, unless
\* something of its own was lost since the stream opened, or its last invalidation was answered
\* with a first fetch that had read before: no change falls between a later snapshot and the
\* subscription, or between a full buffer and the reconnection
\* (notification-stream.connection.ts, use-event-source.ts).
QuietTab(t) ==
  /\ tab[t].link = "open" /\ ~tab[t].opened /\ ~tab[t].hint /\ tab[t].fetch = "none"
  /\ publishing = {} /\ wire = {} /\ stream[t].queue = 0

IsCurrent(t) == tab[t].loaded /\ tab[t].view = version

QuietTabIsCurrent ==
  \A t \in Tabs : QuietTab(t) /\ ~tab[t].missed /\ ~tab[t].swallowed => IsCurrent(t)

\* Whatever was lost or swallowed, a tab that stays and is not turned away ends up with what
\* Postgres holds: the token's expiry brings the reconnection that fetches again.
TabCatchesUp ==
  \A t \in Tabs : []<>(tab[t].link = "off") \/ <>[](IsCurrent(t) \/ tab[t].link = "failed")

\* What docs/notifications/README.md:290-291 promises of "connect the stream then refetch": a
\* tab that lost nothing since its stream opened is current.  The refetch of onOpen may be no
\* refetch at all.
SubscribedIsCurrent == \A t \in Tabs : QuietTab(t) /\ ~tab[t].missed => IsCurrent(t)

=============================================================================
