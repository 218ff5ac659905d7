------------------------ MODULE RealtimeStreamProofs ------------------------
(***************************************************************************)
(* A tab with an open stream is current, or something that will make it so *)
(* is on its way to it: the invariant that makes QuietTabIsCurrent hold,   *)
(* for every number of tabs, every size of the buffers and every limit on  *)
(* connections.                                                            *)
(***************************************************************************)
EXTENDS RealtimeStream, FiniteSetTheorems, TLAPS

\* x is the tab's side of a connection and s the server's: the tab is current, or fetches what
\* is, or a hint is somewhere between Postgres and its next fetch.
IsServed(x, s) ==
  \/ x.missed \/ x.swallowed \/ x.opened \/ x.hint \/ x.fetch = "asked" \/ s.queue > 0
  \/ publishing # {} \/ wire # {}
  \/ x.fetch = "read" /\ x.read = version
  \/ x.fetch = "none" /\ x.loaded /\ x.view = version

OpenIsServed(x, s) == x.link = "open" => s.registered /\ IsServed(x, s)

StreamInv ==
  /\ StreamTypeOK
  /\ \A t \in Tabs : OpenIsServed(tab[t], stream[t])

LEMMA StreamInitInv == StreamInit => StreamInv
<1> SUFFICES ASSUME StreamInit PROVE StreamInv
  OBVIOUS
<1>1. /\ 0 \in Version /\ 0 \in 0 .. QueueDepth /\ 0 \in 0 .. MaxConnections
      /\ 0 \in 0 .. MaxMisses
  BY StreamAssumption DEF Version
<1>2. NoStream \in Stream
  BY <1>1 DEF NoStream, Stream
<1>3. \A b \in BOOLEAN : Blank(b) \in Tab /\ Blank(b).link = "off"
  BY <1>1 DEF Blank, Tab
<1>4. tab \in [Tabs -> Tab] /\ \A t \in Tabs : tab[t].link = "off"
  BY <1>3 DEF StreamInit
<1>5. StreamTypeOK
  BY <1>1, <1>2, <1>4 DEF StreamInit, StreamTypeOK
<1> QED
  BY <1>4, <1>5 DEF StreamInv, OpenIsServed

\* One tab and its connection move; nothing changes between Postgres and the hub.
LEMMA OneTabMoves ==
  ASSUME StreamInv, NEW t \in Tabs, NEW x \in Tab, NEW s \in Stream,
         tab' = [tab EXCEPT ![t] = x], stream' = [stream EXCEPT ![t] = s],
         UNCHANGED <<version, publishing, wire, foreign>>, misses' \in 0 .. MaxMisses,
         OpenIsServed(x, s)
  PROVE  StreamInv'
<1>1. StreamTypeOK'
  BY DEF StreamInv, StreamTypeOK
<1>2. ASSUME NEW u \in Tabs PROVE OpenIsServed(tab[u], stream[u])'
  <2>1. CASE u = t
    <3>1. tab'[u] = x /\ stream'[u] = s
      BY <2>1 DEF StreamInv, StreamTypeOK
    <3> QED
      BY <3>1 DEF OpenIsServed, IsServed
  <2>2. CASE u # t
    <3>1. tab'[u] = tab[u] /\ stream'[u] = stream[u] /\ OpenIsServed(tab[u], stream[u])
      BY <2>2 DEF StreamInv, StreamTypeOK
    <3> QED
      BY <3>1 DEF OpenIsServed, IsServed
  <2> QED
    BY <2>1, <2>2
<1> QED
  BY <1>1, <1>2 DEF StreamInv

\* An invalidation starts a fetch, or joins a first fetch that is yet to read, or is swallowed.
LEMMA InvalidateServes ==
  ASSUME NEW r \in Tab, NEW s \in Stream
  PROVE  Invalidate(r) \in Tab /\ Invalidate(r).link = r.link /\ IsServed(Invalidate(r), s)
<1>1. CASE r.fetch = "none" \/ r.loaded
  <2>1. Invalidate(r) = [r EXCEPT !.fetch = "asked", !.swallowed = FALSE]
    BY <1>1 DEF Invalidate, Ask
  <2> QED
    BY <2>1 DEF Tab, IsServed
<1>2. CASE ~(r.fetch = "none" \/ r.loaded)
  <2>1. PICK b \in BOOLEAN : b <=> r.swallowed \/ (r.fetch = "read" /\ ~r.loaded)
    OBVIOUS
  <2>2. (r.swallowed \/ (r.fetch = "read" /\ ~r.loaded)) = b
    BY <2>1, Zenon DEF Tab
  <2>3. Invalidate(r) = [r EXCEPT !.swallowed = b]
    BY <1>2, <2>2 DEF Invalidate, Joined
  <2>4. r.fetch = "read" => b
    BY <1>2, <2>1
  <2>5. r.fetch \in {"asked", "read"}
    BY <1>2 DEF Tab
  <2> QED
    BY <2>3, <2>4, <2>5 DEF Tab, IsServed
<1> QED
  BY <1>1, <1>2

\* A step of one tab, its stream or its connection.
LEMMA TabKeepsStream ==
  ASSUME StreamInv, NEW t \in Tabs, TabNext(t)
  PROVE  StreamInv'
<1> DEFINE old == tab[t]
           srv == stream[t]
<1>t. /\ old \in Tab /\ srv \in Stream /\ OpenIsServed(old, srv)
      /\ misses \in 0 .. MaxMisses /\ version \in Version /\ version \in Nat
      /\ tab \in [Tabs -> Tab] /\ stream \in [Tabs -> Stream]
  <2>1. version \in Version
    BY DEF StreamInv, StreamTypeOK
  <2> QED
    BY <2>1, StreamAssumption DEF StreamInv, StreamTypeOK, Version
<1>n. NoStream \in Stream
  BY StreamAssumption DEF NoStream, Stream
<1>z. 0 \in Version /\ MaxMisses \in Nat
  BY StreamAssumption DEF Version
<1>s. stream = [stream EXCEPT ![t] = srv]
  BY <1>t
<1>1. CASE Admit(t)
  <2>1. PICK b \in BOOLEAN :
          stream' = [stream EXCEPT ![t] = [NoStream EXCEPT !.registered = TRUE, !.backpressured = b]]
    BY <1>1 DEF Admit
  <2>2. PICK s \in Stream : stream' = [stream EXCEPT ![t] = s] /\ s.registered
    <3> DEFINE s == [NoStream EXCEPT !.registered = TRUE, !.backpressured = b]
    <3>1. s \in Stream /\ s.registered
      BY <1>n DEF Stream
    <3> HIDE DEF s
    <3> QED
      BY <2>1, <3>1 DEF s
  <2>3. PICK x \in Tab : tab' = [tab EXCEPT ![t] = x] /\ x.opened
    <3> DEFINE x == [old EXCEPT !.link = "open", !.opened = TRUE, !.missed = FALSE]
    <3>1. x \in Tab /\ x.opened
      BY <1>t DEF Tab
    <3>2. tab' = [tab EXCEPT ![t] = x]
      BY <1>1, <1>t DEF Admit
    <3> HIDE DEF x
    <3> QED
      BY <3>1, <3>2
  <2>4. OpenIsServed(x, s)
    BY <2>2, <2>3 DEF OpenIsServed, IsServed
  <2> QED
    BY <1>1, <1>t, <2>2, <2>3, <2>4, OneTabMoves DEF Admit
<1>2. CASE Reject429(t)
  <2>2. PICK x \in Tab : tab' = [tab EXCEPT ![t] = x]
                       /\ x.link = "failed"
    <3> DEFINE x == [old EXCEPT !.link = "failed"]
    <3>1. x \in Tab /\ x.link = "failed"
      BY <1>t DEF Tab
    <3>2. tab' = [tab EXCEPT ![t] = x]
      BY <1>2, <1>t DEF Reject429
    <3> HIDE DEF x
    <3> QED
      BY <3>1, <3>2
  <2>3. OpenIsServed(x, srv)
    BY <1>2, <1>t, <2>2 DEF Reject429, OpenIsServed, IsServed
  <2> QED
    BY <1>2, <1>t, <1>s, <2>2, <2>3, OneTabMoves DEF Reject429
<1>3. CASE CloseStream(t)
  <2>1. stream' = [stream EXCEPT ![t] = NoStream] /\ NoStream \in Stream
    BY <1>3, <1>n DEF CloseStream
  <2>2. PICK x \in Tab : tab' = [tab EXCEPT ![t] = x]
                       /\ x.link = "ended"
    <3> DEFINE x == [old EXCEPT !.link = "ended"]
    <3>1. x \in Tab /\ x.link = "ended"
      BY <1>t DEF Tab
    <3>2. tab' = [tab EXCEPT ![t] = x]
      BY <1>3, <1>t DEF CloseStream
    <3> HIDE DEF x
    <3> QED
      BY <3>1, <3>2
  <2>3. OpenIsServed(x, NoStream)
    BY <1>3, <1>t, <2>2, <2>1 DEF CloseStream, OpenIsServed, IsServed
  <2> QED
    BY <1>3, <1>t, <2>1, <2>2, <2>3, OneTabMoves DEF CloseStream
<1>4. CASE OnDrain(t)
  <2>0. PICK n \in 0 .. srv.queue, b \in BOOLEAN :
          /\ n = 0 => ~b
          /\ n < srv.queue => n > 0 /\ b
          /\ stream' = [stream EXCEPT ![t].queue = @ - n, ![t].backpressured = b]
          /\ tab' = [tab EXCEPT ![t].hint = @ \/ n > 0]
    BY <1>4 DEF OnDrain
  <2>1. PICK s \in Stream : stream' = [stream EXCEPT ![t] = s] /\ s.registered = srv.registered
    <3> DEFINE s == [srv EXCEPT !.queue = srv.queue - n, !.backpressured = b]
    <3>1. srv.queue \in 0 .. QueueDepth /\ QueueDepth \in Nat
      BY <1>t, StreamAssumption DEF Stream
    <3>2. srv.queue - n \in 0 .. QueueDepth
      BY <3>1
    <3>3. s \in Stream /\ s.registered = srv.registered
      BY <1>t, <3>2 DEF Stream
    <3>4. stream' = [stream EXCEPT ![t] = s]
      BY <1>t, <2>0
    <3> HIDE DEF s
    <3> QED
      BY <3>3, <3>4
  <2>h. PICK h \in BOOLEAN : h <=> old.hint \/ n > 0
    OBVIOUS
  <2>2. PICK x \in Tab : /\ tab' = [tab EXCEPT ![t] = x]
                         /\ x.link = old.link /\ x.hint = h /\ x.opened = old.opened
                         /\ x.missed = old.missed /\ x.fetch = old.fetch
                         /\ x.read = old.read /\ x.view = old.view
                         /\ x.loaded = old.loaded /\ x.swallowed = old.swallowed
    <3> DEFINE x == [old EXCEPT !.hint = h]
    <3>1. /\ x \in Tab /\ x.link = old.link /\ x.hint = h /\ x.opened = old.opened
          /\ x.missed = old.missed /\ x.fetch = old.fetch /\ x.read = old.read
          /\ x.view = old.view /\ x.loaded = old.loaded /\ x.swallowed = old.swallowed
      BY <1>t DEF Tab
    <3>2. (old.hint \/ n > 0) = h
      <4>1. old.hint \in BOOLEAN
        BY <1>t DEF Tab
      <4> QED
        BY <2>h, <4>1, Zenon
    <3>3. tab' = [tab EXCEPT ![t] = x]
      BY <2>0, <3>2
    <3> HIDE DEF x
    <3> QED
      BY <3>1, <3>3
  <2>3. OpenIsServed(x, s)
    <3>1. srv.queue > 0 => h
      <4>1. srv.queue \in 0 .. QueueDepth /\ QueueDepth \in Nat
        BY <1>t, StreamAssumption DEF Stream
      <4>2. n \in 0 .. srv.queue /\ (n < srv.queue => n > 0)
        BY <2>0
      <4>3. n \in Nat /\ srv.queue \in Nat
        BY <4>1, <4>2
      <4>4. srv.queue > 0 => n > 0
        BY <4>2, <4>3
      <4> QED
        BY <2>h, <4>4
    <3>2. IsServed(old, srv) => IsServed(x, s)
      <4>1. CASE h
        BY <2>2, <4>1 DEF IsServed
      <4>2. CASE ~h
        <5>1. ~old.hint /\ ~(srv.queue > 0)
          BY <2>h, <3>1, <4>2
        <5> QED
          BY <2>2, <5>1 DEF IsServed
      <4> QED
        BY <4>1, <4>2
    <3> QED
      BY <1>t, <2>1, <2>2, <3>2 DEF OpenIsServed
  <2> QED
    BY <1>4, <1>t, <2>1, <2>2, <2>3, OneTabMoves DEF OnDrain
<1>5. CASE Mount(t)
  <2> DEFINE r == [old EXCEPT !.link = "asking"]
  <2>1. PICK stale \in BOOLEAN :
          tab' = [tab EXCEPT ![t] = IF r.fetch = "none" /\ (~r.loaded \/ stale) THEN Ask(r) ELSE r]
    BY <1>5 DEF Mount
  <2>r. r \in Tab /\ r.link = "asking"
    BY <1>t DEF Tab
  <2>a. Ask(r) \in Tab /\ Ask(r).link = "asking"
    <3> HIDE DEF r
    <3> QED
      BY <2>r DEF Tab, Ask
  <2>2. PICK x \in Tab : tab' = [tab EXCEPT ![t] = x] /\ x.link = "asking"
    <3> DEFINE x == IF r.fetch = "none" /\ (~r.loaded \/ stale) THEN Ask(r) ELSE r
    <3>1. x \in Tab /\ x.link = "asking"
      BY <2>r, <2>a
    <3>2. tab' = [tab EXCEPT ![t] = x]
      BY <2>1
    <3> HIDE DEF x
    <3> QED
      BY <3>1, <3>2
  <2>3. OpenIsServed(x, srv)
    BY <2>2 DEF OpenIsServed
  <2> QED
    BY <1>5, <1>t, <1>s, <2>2, <2>3, OneTabMoves DEF Mount
<1>6. CASE Unmount(t)
  <2>1. stream' = [stream EXCEPT ![t] = NoStream] /\ NoStream \in Stream
    BY <1>6, <1>n DEF Unmount
  <2>2. PICK x \in Tab : tab' = [tab EXCEPT ![t] = x]
                       /\ x.link = "off"
    <3> DEFINE x == [old EXCEPT !.link = "off", !.opened = FALSE, !.hint = FALSE]
    <3>1. x \in Tab /\ x.link = "off"
      BY <1>t DEF Tab
    <3>2. tab' = [tab EXCEPT ![t] = x]
      BY <1>6, <1>t DEF Unmount
    <3> HIDE DEF x
    <3> QED
      BY <3>1, <3>2
  <2>3. OpenIsServed(x, NoStream)
    BY <1>6, <1>t, <2>2, <2>1 DEF Unmount, OpenIsServed, IsServed
  <2> QED
    BY <1>6, <1>t, <2>1, <2>2, <2>3, OneTabMoves DEF Unmount
<1>7. CASE Reconnect(t)
  <2>2. PICK x \in Tab : tab' = [tab EXCEPT ![t] = x]
                       /\ x.link = "asking"
    <3> DEFINE x == [old EXCEPT !.link = "asking"]
    <3>1. x \in Tab /\ x.link = "asking"
      BY <1>t DEF Tab
    <3>2. tab' = [tab EXCEPT ![t] = x]
      BY <1>7, <1>t DEF Reconnect
    <3> HIDE DEF x
    <3> QED
      BY <3>1, <3>2
  <2>3. OpenIsServed(x, srv)
    BY <1>7, <1>t, <2>2 DEF Reconnect, OpenIsServed, IsServed
  <2> QED
    BY <1>7, <1>t, <1>s, <2>2, <2>3, OneTabMoves DEF Reconnect
<1>8. CASE OnOpen(t)
  <2> DEFINE r == [old EXCEPT !.opened = FALSE]
  <2>1. r \in Tab /\ r.link = old.link
    BY <1>t DEF Tab
  <2>0. tab' = [tab EXCEPT ![t] = Invalidate(r)]
    BY <1>8, <1>t DEF OnOpen, AfterOpen
  <2> HIDE DEF r
  <2>2. PICK x \in Tab : tab' = [tab EXCEPT ![t] = x] /\ x.link = old.link /\ IsServed(x, srv)
    BY <1>t, <2>0, <2>1, InvalidateServes
  <2>3. OpenIsServed(x, srv)
    BY <1>t, <2>2 DEF OpenIsServed
  <2> QED
    BY <1>8, <1>t, <1>s, <2>2, <2>3, OneTabMoves DEF OnOpen
<1>9. CASE OnEvent(t)
  <2> DEFINE r == [old EXCEPT !.hint = FALSE]
  <2>1. r \in Tab /\ r.link = old.link
    BY <1>t DEF Tab
  <2>0. tab' = [tab EXCEPT ![t] = Invalidate(r)]
    BY <1>9, <1>t DEF OnEvent
  <2> HIDE DEF r
  <2>2. PICK x \in Tab : tab' = [tab EXCEPT ![t] = x] /\ x.link = old.link /\ IsServed(x, srv)
    BY <1>t, <2>0, <2>1, InvalidateServes
  <2>3. OpenIsServed(x, srv)
    BY <1>t, <2>2 DEF OpenIsServed
  <2> QED
    BY <1>9, <1>t, <1>s, <2>2, <2>3, OneTabMoves DEF OnEvent
<1>10. CASE FetchReads(t)
  <2>2. PICK x \in Tab : tab' = [tab EXCEPT ![t] = x]
                       /\ x.link = old.link /\ x.fetch = "read" /\ x.read = version
    <3> DEFINE x == [old EXCEPT !.fetch = "read", !.read = version]
    <3>1. x \in Tab /\ x.link = old.link /\ x.fetch = "read" /\ x.read = version
      BY <1>t DEF Tab
    <3>2. tab' = [tab EXCEPT ![t] = x]
      BY <1>10, <1>t DEF FetchReads
    <3> HIDE DEF x
    <3> QED
      BY <3>1, <3>2
  <2>3. OpenIsServed(x, srv)
    BY <1>10, <1>t, <2>2 DEF FetchReads, OpenIsServed, IsServed
  <2> QED
    BY <1>10, <1>t, <1>s, <2>2, <2>3, OneTabMoves DEF FetchReads
<1>11. CASE FetchArrives(t)
  <2>2. PICK x \in Tab : tab' = [tab EXCEPT ![t] = x]
                       /\ x.link = old.link /\ x.fetch = "none" /\ x.loaded /\ x.view = old.read
                       /\ x.hint = old.hint /\ x.opened = old.opened
                       /\ x.missed = old.missed /\ x.swallowed = old.swallowed
    <3> DEFINE x == [old EXCEPT !.fetch = "none", !.loaded = TRUE, !.view = old.read, !.read = 0]
    <3>1. /\ x \in Tab /\ x.link = old.link /\ x.fetch = "none" /\ x.loaded /\ x.view = old.read
          /\ x.hint = old.hint /\ x.opened = old.opened /\ x.missed = old.missed
          /\ x.swallowed = old.swallowed
      BY <1>t, <1>z DEF Tab
    <3>2. tab' = [tab EXCEPT ![t] = x]
      BY <1>11, <1>t, <1>z DEF FetchArrives
    <3> HIDE DEF x
    <3> QED
      BY <3>1, <3>2
  <2>3. OpenIsServed(x, srv)
    BY <1>11, <1>t, <2>2 DEF FetchArrives, OpenIsServed, IsServed
  <2> QED
    BY <1>11, <1>t, <1>s, <2>2, <2>3, OneTabMoves DEF FetchArrives
<1>12. CASE FetchFails(t)
  <2>2. PICK x \in Tab : tab' = [tab EXCEPT ![t] = x]
                       /\ x.missed /\ x.link = old.link
    <3> DEFINE x == [old EXCEPT !.fetch = "none", !.read = 0, !.missed = TRUE]
    <3>1. x \in Tab /\ x.missed /\ x.link = old.link
      BY <1>t, <1>z DEF Tab
    <3>2. tab' = [tab EXCEPT ![t] = x]
      BY <1>12, <1>t, <1>z DEF FetchFails
    <3> HIDE DEF x
    <3> QED
      BY <3>1, <3>2
  <2>3. OpenIsServed(x, srv)
    BY <1>t, <2>2 DEF OpenIsServed, IsServed
  <2> QED
    <3>1. misses' \in 0 .. MaxMisses
      BY <1>12, <1>t, <1>z DEF FetchFails, Miss
    <3>2. UNCHANGED <<version, publishing, wire, foreign, stream>>
      BY <1>12 DEF FetchFails
    <3> QED
      BY <1>t, <1>s, <2>2, <2>3, <3>1, <3>2, OneTabMoves
<1> QED
  BY <1>1, <1>2, <1>3, <1>4, <1>5, <1>6, <1>7, <1>8, <1>9, <1>10, <1>11, <1>12 DEF TabNext

\* A hint that is lost marks every tab, and does no more.
LEMMA MissedMarks ==
  ASSUME StreamInv, MissedBy(Tabs)
  PROVE  /\ tab' \in [Tabs -> Tab]
         /\ \A t \in Tabs : tab'[t].missed /\ tab'[t].link = tab[t].link
<1>1. ASSUME NEW t \in Tabs
      PROVE  /\ [tab[t] EXCEPT !.missed = TRUE] \in Tab
             /\ [tab[t] EXCEPT !.missed = TRUE].missed
             /\ [tab[t] EXCEPT !.missed = TRUE].link = tab[t].link
  <2>1. tab[t] \in Tab
    BY DEF StreamInv, StreamTypeOK
  <2> QED
    BY <2>1 DEF Tab
<1>2. tab' = [t \in Tabs |-> [tab[t] EXCEPT !.missed = TRUE]]
  BY DEF MissedBy
<1> QED
  BY <1>1, <1>2

\* What the hub leaves of a connection holds the hint, in the socket or in the buffer.
LEMMA SentIsHeld ==
  ASSUME StreamInv, NEW t \in Tabs, NEW a \in SendData(t)
  PROVE  /\ a.stream \in Stream /\ a.tab \in Tab
         /\ a.tab.link = "open" => a.stream.registered /\ (a.tab.hint \/ a.stream.queue > 0)
<1> DEFINE old == tab[t]
           srv == stream[t]
<1>t. old \in Tab /\ srv \in Stream /\ (old.link = "open" => srv.registered)
  BY DEF StreamInv, StreamTypeOK, OpenIsServed
<1>q. QueueDepth \in Nat
  BY StreamAssumption
<1>1. CASE ~srv.registered
  <2>1. a = [stream |-> srv, tab |-> old]
    BY <1>1 DEF SendData
  <2> QED
    BY <1>1, <1>t, <2>1
<1>2. CASE srv.registered /\ ~srv.backpressured
  <2>1. PICK b \in BOOLEAN : a = [stream |-> [srv EXCEPT !.backpressured = b],
                                  tab |-> [old EXCEPT !.hint = TRUE]]
    BY <1>2 DEF SendData
  <2>2. [srv EXCEPT !.backpressured = b] \in Stream
        /\ [srv EXCEPT !.backpressured = b].registered
    BY <1>2, <1>t DEF Stream
  <2>3. [old EXCEPT !.hint = TRUE] \in Tab /\ [old EXCEPT !.hint = TRUE].hint
    BY <1>t DEF Tab
  <2> QED
    BY <2>1, <2>2, <2>3
<1>3. CASE srv.registered /\ srv.backpressured /\ srv.queue < QueueDepth
  <2>1. a = [stream |-> [srv EXCEPT !.queue = srv.queue + 1], tab |-> old]
    BY <1>3 DEF SendData
  <2>2. srv.queue \in 0 .. QueueDepth
    BY <1>t DEF Stream
  <2>3. srv.queue + 1 \in 0 .. QueueDepth /\ srv.queue + 1 > 0
    BY <1>3, <1>q, <2>2
  <2>4. /\ [srv EXCEPT !.queue = srv.queue + 1] \in Stream
        /\ [srv EXCEPT !.queue = srv.queue + 1].registered
        /\ [srv EXCEPT !.queue = srv.queue + 1].queue = srv.queue + 1
    BY <1>3, <1>t, <2>3 DEF Stream
  <2> QED
    BY <1>t, <2>1, <2>3, <2>4
<1>4. CASE srv.registered /\ srv.backpressured /\ ~(srv.queue < QueueDepth)
  <2>1. a = [stream |-> NoStream, tab |-> [old EXCEPT !.link = "ended", !.hint = FALSE,
                                                      !.opened = FALSE]]
    BY <1>4 DEF SendData, Overflow
  <2>2. NoStream \in Stream
    BY <1>q DEF NoStream, Stream
  <2>3. /\ [old EXCEPT !.link = "ended", !.hint = FALSE, !.opened = FALSE] \in Tab
        /\ [old EXCEPT !.link = "ended", !.hint = FALSE, !.opened = FALSE].link = "ended"
    BY <1>t DEF Tab
  <2> QED
    BY <2>1, <2>2, <2>3
<1> QED
  BY <1>1, <1>2, <1>3, <1>4

\* The steps between the change and the hub, and those of the process.
LEMMA HintKeepsStream ==
  ASSUME StreamInv, NEW v \in Version, PublishHint \/ HintLands(v) \/ HintIsLost(v)
  PROVE  StreamInv'
<1>t. /\ version \in Version /\ publishing \subseteq Version /\ wire \subseteq Version
      /\ misses \in 0 .. MaxMisses /\ MaxMisses \in Nat /\ MaxEdits \in Nat
      /\ tab \in [Tabs -> Tab]
  BY StreamAssumption DEF StreamInv, StreamTypeOK
<1>1. ASSUME tab' \in [Tabs -> Tab], \A t \in Tabs : tab'[t].link = tab[t].link,
             publishing' # {} \/ wire' # {} \/ (\A t \in Tabs : tab'[t].missed),
             version' \in Version, publishing' \subseteq Version, wire' \subseteq Version,
             misses' \in 0 .. MaxMisses, UNCHANGED <<foreign, stream>>
      PROVE  StreamInv'
  <2>1. StreamTypeOK'
    BY <1>1 DEF StreamInv, StreamTypeOK
  <2>2. ASSUME NEW t \in Tabs PROVE OpenIsServed(tab[t], stream[t])'
    <3>1. OpenIsServed(tab[t], stream[t]) /\ tab'[t].link = tab[t].link /\ stream' = stream
      BY <1>1 DEF StreamInv
    <3>2. IsServed(tab[t], stream[t])'
      BY <1>1 DEF IsServed
    <3> QED
      BY <3>1, <3>2 DEF OpenIsServed
  <2> QED
    BY <2>1, <2>2 DEF StreamInv
<1>2. CASE PublishHint
  <2>1. version' \in Version
    BY <1>2, <1>t DEF PublishHint, Version
  <2>2. CASE publishing' = publishing \cup {version'} /\ UNCHANGED <<tab, misses>>
    BY <1>1, <1>2, <1>t, <2>1, <2>2 DEF PublishHint
  <2>3. CASE MissedBy(Tabs) /\ UNCHANGED <<publishing, misses>>
    BY <1>1, <1>2, <1>t, <2>1, <2>3, MissedMarks DEF PublishHint
  <2> QED
    BY <1>2, <2>2, <2>3 DEF PublishHint
<1>3. CASE HintLands(v)
  BY <1>1, <1>3, <1>t DEF HintLands
<1>4. CASE HintIsLost(v)
  <2>1. misses' \in 0 .. MaxMisses
    BY <1>4, <1>t DEF HintIsLost, Miss
  <2> QED
    BY <1>1, <1>4, <1>t, <2>1, MissedMarks DEF HintIsLost
<1> QED
  BY <1>2, <1>3, <1>4

LEMMA MessageKeepsStream ==
  ASSUME StreamInv, NEW v \in Version, OnMessage(v)
  PROVE  StreamInv'
<1>1. PICK after \in [Tabs -> UNION {SendData(t) : t \in Tabs}] :
        /\ \A t \in Tabs : after[t] \in SendData(t)
        /\ stream' = [t \in Tabs |-> after[t].stream]
        /\ tab' = [t \in Tabs |-> after[t].tab]
  BY DEF OnMessage
<1>2. ASSUME NEW t \in Tabs
      PROVE  /\ stream'[t] \in Stream /\ tab'[t] \in Tab
             /\ OpenIsServed(tab[t], stream[t])'
  <2>1. stream'[t] = after[t].stream /\ tab'[t] = after[t].tab /\ after[t] \in SendData(t)
    BY <1>1
  <2>2. PICK a \in SendData(t) : a = after[t]
    BY <2>1
  <2>3. stream'[t] = a.stream /\ tab'[t] = a.tab
    BY <2>1, <2>2
  <2> QED
    BY <2>3, SentIsHeld DEF OpenIsServed, IsServed
<1>3. stream' \in [Tabs -> Stream] /\ tab' \in [Tabs -> Tab]
  BY <1>1, <1>2
<1>4. StreamTypeOK'
  BY <1>3 DEF StreamInv, StreamTypeOK, OnMessage
<1> QED
  BY <1>2, <1>4 DEF StreamInv

LEMMA HubKeepsStream ==
  ASSUME StreamInv, Heartbeat \/ OthersConnect \/ UNCHANGED streamVars
  PROVE  StreamInv'
<1>1. CASE Heartbeat
  <2>1. PICK T \in SUBSET {t \in Registered : ~stream[t].backpressured} :
          stream' = [t \in Tabs |-> IF t \in T THEN [stream[t] EXCEPT !.backpressured = TRUE]
                                    ELSE stream[t]]
    BY <1>1 DEF Heartbeat
  <2>2. ASSUME NEW t \in Tabs
        PROVE  /\ stream'[t] \in Stream /\ stream'[t].registered = stream[t].registered
               /\ stream'[t].queue = stream[t].queue
    <3>1. stream[t] \in Stream
      BY DEF StreamInv, StreamTypeOK
    <3>2. /\ [stream[t] EXCEPT !.backpressured = TRUE] \in Stream
          /\ [stream[t] EXCEPT !.backpressured = TRUE].registered = stream[t].registered
          /\ [stream[t] EXCEPT !.backpressured = TRUE].queue = stream[t].queue
      BY <3>1 DEF Stream
    <3>3. stream'[t] = [stream[t] EXCEPT !.backpressured = TRUE] \/ stream'[t] = stream[t]
      BY <2>1
    <3> QED
      BY <3>1, <3>2, <3>3
  <2>3. stream' \in [Tabs -> Stream]
    BY <2>1, <2>2
  <2>4. StreamTypeOK'
    BY <1>1, <2>3 DEF Heartbeat, StreamInv, StreamTypeOK
  <2>5. ASSUME NEW t \in Tabs PROVE OpenIsServed(tab[t], stream[t])'
    <3>1. OpenIsServed(tab[t], stream[t])
      BY DEF StreamInv
    <3>2. IsServed(tab[t], stream[t]) => IsServed(tab[t], stream[t])'
      BY <1>1, <2>2 DEF Heartbeat, IsServed
    <3> QED
      BY <1>1, <2>2, <3>1, <3>2 DEF Heartbeat, OpenIsServed
  <2> QED
    BY <2>4, <2>5 DEF StreamInv
<1>2. CASE OthersConnect
  <2>1. Cardinality(Registered) \in Nat
    <3>1. IsFiniteSet(Registered)
      BY StreamAssumption, FS_Subset DEF Registered
    <3> QED
      BY <3>1, FS_CardinalityType
  <2>2. foreign' \in 0 .. MaxConnections
    <3>1. PICK c \in Nat : c = Cardinality(Registered)
      BY <2>1
    <3>2. foreign' \in Nat /\ foreign' <= MaxConnections - c /\ MaxConnections \in Nat
      BY <1>2, <3>1, StreamAssumption DEF OthersConnect
    <3> QED
      BY <3>2
  <2> QED
    BY <1>2, <2>2 DEF OthersConnect, StreamInv, StreamTypeOK, OpenIsServed, IsServed
<1>3. CASE UNCHANGED streamVars
  BY <1>3 DEF streamVars, StreamInv, StreamTypeOK, OpenIsServed, IsServed
<1> QED
  BY <1>1, <1>2, <1>3

\* Every state of the streams: their types, and what keeps an open tab from going stale.
THEOREM StreamInvariant == StreamSpec => []StreamInv
<1>1. StreamInv /\ [StreamNext]_streamVars => StreamInv'
  BY TabKeepsStream, HintKeepsStream, MessageKeepsStream, HubKeepsStream, StreamAssumption
     DEF StreamNext, Version
<1> QED
  BY <1>1, StreamInitInv, PTL DEF StreamSpec

\* QuietTabIsCurrent: a tab with an open stream for which nothing is on its way has data, and
\* shows what Postgres holds, unless something of its own was lost since the stream opened or its
\* last invalidation was answered with a first fetch that had read before.
THEOREM QuietTabHolds == StreamSpec => []QuietTabIsCurrent
<1>1. StreamInv => QuietTabIsCurrent
  <2> SUFFICES ASSUME StreamInv, NEW t \in Tabs, QuietTab(t), ~tab[t].missed, ~tab[t].swallowed
               PROVE  IsCurrent(t)
    BY DEF QuietTabIsCurrent
  <2>1. IsServed(tab[t], stream[t]) /\ stream[t].queue = 0
    BY DEF StreamInv, OpenIsServed, QuietTab
  <2> QED
    BY <2>1 DEF IsServed, QuietTab, IsCurrent
<1> QED
  BY <1>1, StreamInvariant, PTL
=============================================================================
