-------------------------- MODULE EventStreamProofs --------------------------
(***************************************************************************)
(* What a connection leaves behind and what a live component shows, for    *)
(* any number of connections, views and events; and what the other pages   *)
(* show, list and wait for, for any number of tabs, approvals and requests *)
(* in flight.                                                              *)
(***************************************************************************)
EXTENDS Console, FiniteSetTheorems, SequenceTheorems, TLAPS

ConnectionTypeOK ==
  /\ request \in [Connections -> {"none", "sent", "served", "late"}]
  /\ attached \subseteq Connections

\* A stream has a subscription and may be closed only once it has been set up.
SetUpFirst ==
  \A c \in Connections : c \in attached \cup closed => request[c] \in {"served", "late"}

\* Closing takes the subscription along, but for an enqueue that threw.
ClosedButTripped == attached \cap closed \subseteq tripped

\* The end of a request is not missed by a stream that was set up in time: it is
\* closed from then on.
AbortedIsClosed == \A c \in attached \cap aborted : c \in closed \/ request[c] = "late"

LeakInv == ConnectionTypeOK /\ SetUpFirst /\ ClosedButTripped /\ AbortedIsClosed

-----------------------------------------------------------------------------
LEMMA LeakInit == EventStreamInit => LeakInv
BY DEF EventStreamInit, LeakInv, ConnectionTypeOK, SetUpFirst, ClosedButTripped, AbortedIsClosed

\* Opening a connection touches none that has been set up.
LEMMA ConnectingLeaksNothing ==
  ASSUME LeakInv, NEW c \in Fresh,
         request' = [request EXCEPT ![c] = "sent"],
         UNCHANGED <<attached, closed, aborted, tripped>>
  PROVE  LeakInv'
BY DEF LeakInv, ConnectionTypeOK, SetUpFirst, ClosedButTripped, AbortedIsClosed, Fresh

LEMMA TrippingIsNoted ==
  ASSUME LeakInv, NEW connections \in SUBSET (attached \ closed), Trip(connections),
         UNCHANGED <<request, attached, aborted>>
  PROVE  LeakInv'
BY DEF LeakInv, ConnectionTypeOK, SetUpFirst, ClosedButTripped, AbortedIsClosed, Trip

LEMMA LeakStep == LeakInv /\ [EventStreamNext]_streamVars => LeakInv'
<1> SUFFICES ASSUME LeakInv, [EventStreamNext]_streamVars
             PROVE  LeakInv'
  OBVIOUS
<1> USE DEF LeakInv, ConnectionTypeOK, SetUpFirst, ClosedButTripped, AbortedIsClosed
<1>1. CASE Publish
  BY <1>1, TrippingIsNoted DEF Publish
<1>2. ASSUME NEW c \in Connections, Serve(c)
      PROVE  LeakInv'
  BY <1>2 DEF Serve
<1>3. ASSUME NEW c \in Connections, Heartbeat(c)
      PROVE  LeakInv'
  BY <1>3, TrippingIsNoted DEF Heartbeat
<1>4. ASSUME NEW c \in Connections, ReaderCancelled(c)
      PROVE  LeakInv'
  BY <1>4 DEF ReaderCancelled
<1>5. ASSUME NEW c \in Connections, Abort(c)
      PROVE  LeakInv'
  BY <1>5 DEF Abort, Close
<1>6. ASSUME NEW c \in Connections, Drop(c)
      PROVE  LeakInv'
  BY <1>6, ConnectingLeaksNothing DEF Drop
<1>7. ASSUME NEW c \in Connections, Deliver(c)
      PROVE  LeakInv'
  BY <1>7 DEF Deliver, serverVars
<1>8. ASSUME NEW v \in Views, Mount(v)
      PROVE  LeakInv'
  <2>1. PICK c \in Connections : Subscribe(c)
    BY <1>8 DEF Mount
  <2>2. CASE source = NoConnection
    BY <1>8, <2>1, <2>2, ConnectingLeaksNothing DEF Mount, Subscribe, Connect
  <2>3. CASE source # NoConnection
    BY <1>8, <2>1, <2>3 DEF Mount, Subscribe
  <2> QED
    BY <2>2, <2>3
<1>9. ASSUME NEW v \in Views, Unmount(v)
      PROVE  LeakInv'
  BY <1>9 DEF Unmount, serverVars
<1>10. CASE UNCHANGED streamVars
  BY <1>10 DEF streamVars, serverVars
<1> QED
  BY <1>1, <1>2, <1>3, <1>4, <1>5, <1>6, <1>7, <1>8, <1>9, <1>10 DEF EventStreamNext

-----------------------------------------------------------------------------
\* A subscription and a heartbeat that outlive their connection are those of a
\* stream whose enqueue threw first (the catch of send and of the heartbeat in
\* app/api/events/stream/route.ts), or of one set up after its request was over.
THEOREM StreamsLeakOnlyWhenBroken == EventStreamSpec => []OnlyBrokenPipesLeak
<1>1. LeakInv => OnlyBrokenPipesLeak
  BY DEF LeakInv, ClosedButTripped, AbortedIsClosed, OnlyBrokenPipesLeak
<1> QED
  BY <1>1, LeakInit, LeakStep, PTL DEF EventStreamSpec

-----------------------------------------------------------------------------
(* The frames on their way, and the lists they end in.                     *)

StreamTypeOK ==
  /\ published \in Nat
  /\ pipe \in [Connections -> Seq(Nat)]
  /\ feed \in [Views -> Seq(Nat)]
  /\ source \in Connections \cup {NoConnection}

\* What is published is sent on the connection.
Live(c) == c \in attached \ (closed \cup broken)

UnservedIsEmpty ==
  \A c \in Connections : request[c] \in {"none", "sent"} => pipe[c] = <<>>

\* The page listens to one stream, and a list that is not empty is on the page.
OneSource ==
  /\ open \subseteq {source} \cap Connections
  /\ \A v \in Views : feed[v] # <<>> => v \in mounted

\* A pipe holds events without a gap, after the line of its stream at most, and
\* that of a live connection ends with the newest.
PipesInOrder ==
  \A c \in Connections :
    /\ \A i \in 1 .. Len(pipe[c]) : pipe[c][i] <= published
    /\ \A i, k \in 1 .. Len(pipe[c]) : i < k =>
         /\ pipe[c][k] # StreamOpen
         /\ pipe[c][i] # StreamOpen => pipe[c][k] = pipe[c][i] + (k - i)
    /\ Live(c) /\ pipe[c] # <<>> => pipe[c][Len(pipe[c])] \in {StreamOpen, published}

\* What is still to be delivered comes after all that is shown, and right after
\* the newest event that is shown unless the line of a stream stands between.
PipesAreAhead ==
  \A c \in open, v \in Views :
    /\ \A k \in 1 .. Len(pipe[c]), i \in 1 .. Len(feed[v]) :
         pipe[c][k] # StreamOpen => feed[v][i] < pipe[c][k]
    /\ feed[v] # <<>> /\ feed[v][1] # StreamOpen =>
         IF pipe[c] # <<>> THEN pipe[c][1] \in {StreamOpen, feed[v][1] + 1}
         ELSE Live(c) => feed[v][1] = published

\* A list of events, newest first, in which gaps are marked.
Faithful(events) ==
  \A i, j \in 1 .. Len(events) :
    /\ i < j
    /\ events[i] # StreamOpen /\ events[j] # StreamOpen
    => /\ events[i] > events[j]
       /\ \/ events[i] - events[j] = j - i
          \/ \E k \in i .. j : events[k] = StreamOpen

FeedsAreFaithful ==
  \A v \in Views :
    /\ Faithful(feed[v])
    /\ \A i \in 1 .. Len(feed[v]) : feed[v][i] <= published

FeedInv ==
  /\ LeakInv /\ StreamTypeOK /\ UnservedIsEmpty /\ OneSource
  /\ PipesInOrder /\ PipesAreAhead /\ FeedsAreFaithful

\* What a component shows after a frame: the frame, and what it showed before as
\* far as there is room.
LEMMA FrameInFront ==
  ASSUME NEW frame \in Nat, NEW events \in Seq(Nat)
  PROVE  LET after == Newest(<<frame>> \o events)
         IN /\ after \in Seq(Nat)
            /\ Len(after) \in 1 .. Len(events) + 1
            /\ after[1] = frame
            /\ \A i \in 2 .. Len(after) : after[i] = events[i - 1]
<1>. DEFINE all == <<frame>> \o events
            length == IF Len(all) < FeedLimit THEN Len(all) ELSE FeedLimit
            after == Newest(all)
<1>1. /\ all \in Seq(Nat) /\ Len(all) = Len(events) + 1 /\ Len(events) \in Nat
      /\ all[1] = frame
      /\ \A i \in 2 .. Len(all) : all[i] = events[i - 1]
  <2>1. <<frame>> \in Seq(Nat) /\ Len(<<frame>>) = 1 /\ <<frame>>[1] = frame
    OBVIOUS
  <2>2. /\ all \in Seq(Nat) /\ Len(all) = Len(<<frame>>) + Len(events)
        /\ \A i \in 1 .. Len(<<frame>>) + Len(events) :
             all[i] = IF i <= Len(<<frame>>) THEN <<frame>>[i] ELSE events[i - Len(<<frame>>)]
    BY <2>1, ConcatProperties
  <2>3. Len(events) \in Nat
    BY LenProperties
  <2>. HIDE DEF all
  <2>. QED BY <2>1, <2>2, <2>3
<1>2. length \in 1 .. Len(all)
  BY <1>1, EventStreamAssumption DEF EventStreamAssumption
<1>. HIDE DEF all, length
<1>3. /\ SubSeq(all, 1, length) \in Seq(Nat)
      /\ Len(SubSeq(all, 1, length)) = length
      /\ \A i \in 1 .. length : SubSeq(all, 1, length)[i] = all[i]
  <2>1. \A i \in 1 .. Len(all) : all[i] \in Nat
    BY <1>1, ElementOfSeq
  <2>2. /\ SubSeq(all, 1, length) \in Seq(Nat)
        /\ Len(SubSeq(all, 1, length)) = IF 1 <= length THEN length - 1 + 1 ELSE 0
        /\ \A i \in 1 .. length - 1 + 1 : SubSeq(all, 1, length)[i] = all[1 + i - 1]
    <3>1. 1 \in Int /\ length \in Int /\ \A i \in 1 .. length : all[i] \in Nat
      BY <1>1, <1>2, <2>1
    <3>. QED BY <3>1, SubSeqProperties
  <2>. QED BY <1>1, <1>2, <2>2
<1>4. Newest(all) = SubSeq(all, 1, length)
  BY DEF Newest, length
<1>5. /\ after \in Seq(Nat) /\ Len(after) = length
      /\ \A i \in 1 .. length : after[i] = all[i]
  BY <1>3, <1>4
<1>. HIDE DEF after
<1>6. /\ after \in Seq(Nat)
      /\ Len(after) \in 1 .. Len(events) + 1
      /\ after[1] = frame
      /\ \A i \in 2 .. Len(after) : after[i] = events[i - 1]
  BY <1>1, <1>2, <1>5
<1>. QED BY <1>6 DEF after, all

\* A frame that comes after all that is shown, and right after the newest of it
\* where that is an event, goes in front of it.
LEMMA FaithfulInFront ==
  ASSUME NEW frame \in Nat, NEW events \in Seq(Nat), NEW after \in Seq(Nat),
         Faithful(events),
         Len(after) \in 1 .. Len(events) + 1, after[1] = frame,
         \A i \in 2 .. Len(after) : after[i] = events[i - 1],
         frame # StreamOpen => \A i \in 1 .. Len(events) : events[i] < frame,
         events # <<>> /\ events[1] # StreamOpen => frame \in {StreamOpen, events[1] + 1}
  PROVE  Faithful(after)
<1>0. Len(events) \in Nat /\ Len(after) \in Nat /\ \A i \in 1 .. Len(events) : events[i] \in Nat
  BY LenProperties, ElementOfSeq
<1>. SUFFICES ASSUME NEW i \in 1 .. Len(after), NEW j \in 1 .. Len(after), i < j,
                     after[i] # StreamOpen, after[j] # StreamOpen
              PROVE  /\ after[i] > after[j]
                     /\ \/ after[i] - after[j] = j - i
                        \/ \E k \in i .. j : after[k] = StreamOpen
  BY DEF Faithful
<1>1. j \in 2 .. Len(after) /\ j - 1 \in 1 .. Len(events) /\ after[j] = events[j - 1]
  BY <1>0
<1>2. CASE i # 1
  <2>1. i \in 2 .. Len(after) /\ i - 1 \in 1 .. Len(events) /\ after[i] = events[i - 1]
    BY <1>0, <1>2
  <2>2. /\ events[i - 1] > events[j - 1]
        /\ \/ events[i - 1] - events[j - 1] = (j - 1) - (i - 1)
           \/ \E k \in i - 1 .. j - 1 : events[k] = StreamOpen
    <3>1. i - 1 < j - 1
      OBVIOUS
    <3>. QED BY <1>1, <2>1, <3>1 DEF Faithful
  <2>3. ASSUME NEW k \in i - 1 .. j - 1, events[k] = StreamOpen
        PROVE  \E m \in i .. j : after[m] = StreamOpen
    <3>1. k + 1 \in i .. j /\ k + 1 \in 2 .. Len(after) /\ (k + 1) - 1 = k
      BY <1>0, <1>1, <2>1
    <3>2. after[k + 1] = events[k]
      BY <3>1
    <3>. QED BY <2>3, <3>1, <3>2
  <2>4. (j - 1) - (i - 1) = j - i
    OBVIOUS
  <2>. QED BY <1>1, <2>1, <2>2, <2>3, <2>4
<1>3. CASE i = 1
  <2>1. frame # StreamOpen /\ events[j - 1] < frame
    BY <1>1, <1>3
  <2>2. 1 \in 1 .. Len(events) /\ events # <<>> /\ 2 \in i .. j /\ 2 \in 2 .. Len(after)
    BY <1>0, <1>1, <1>3
  <2>3. after[2] = events[1]
    BY <2>2
  <2>4. CASE events[1] = StreamOpen
    BY <1>1, <1>3, <2>1, <2>2, <2>3, <2>4, <1>0
  <2>5. CASE events[1] # StreamOpen
    <3>1. frame = events[1] + 1
      BY <2>1, <2>2, <2>5
    <3>2. CASE j = 2
      BY <1>0, <1>1, <1>3, <2>1, <2>2, <3>1, <3>2
    <3>3. CASE j # 2
      <4>1. 1 < j - 1
        BY <1>1, <3>3
      <4>2. \/ events[1] - events[j - 1] = (j - 1) - 1
            \/ \E k \in 1 .. j - 1 : events[k] = StreamOpen
        BY <1>1, <2>2, <2>5, <4>1 DEF Faithful
      <4>3. ASSUME NEW k \in 1 .. j - 1, events[k] = StreamOpen
            PROVE  \E m \in i .. j : after[m] = StreamOpen
        <5>1. k + 1 \in i .. j /\ k + 1 \in 2 .. Len(after) /\ (k + 1) - 1 = k
          BY <1>0, <1>1, <1>3
        <5>2. after[k + 1] = events[k]
          BY <5>1
        <5>. QED BY <4>3, <5>1, <5>2
      <4>4. ASSUME events[1] - events[j - 1] = (j - 1) - 1
            PROVE  after[i] - after[j] = j - i
        <5>1. /\ after[i] = events[1] + 1 /\ after[j] = events[j - 1] /\ i = 1
              /\ events[1] \in Int /\ events[j - 1] \in Int /\ j \in Int
          BY <1>0, <1>1, <1>3, <2>2, <3>1
        <5>2. PICK x, y \in Int : x = events[1] /\ y = events[j - 1]
          BY <5>1
        <5>3. x - y = (j - 1) - 1 => (x + 1) - y = j - 1
          BY <5>1
        <5>. QED BY <4>4, <5>1, <5>2, <5>3
      <4>. QED BY <1>1, <1>3, <2>1, <4>2, <4>3, <4>4, <1>0
    <3>. QED BY <3>2, <3>3
  <2>. QED BY <2>4, <2>5
<1>. QED BY <1>2, <1>3

-----------------------------------------------------------------------------
LEMMA FeedInit == EventStreamInit => FeedInv
<1>. SUFFICES ASSUME EventStreamInit PROVE FeedInv
  OBVIOUS
<1>1. /\ \A c \in Connections : pipe[c] = <<>>
      /\ \A v \in Views : feed[v] = <<>>
  BY DEF EventStreamInit
<1>. QED
  BY <1>1, LeakInit, EmptySeq
     DEF EventStreamInit, FeedInv, StreamTypeOK, UnservedIsEmpty, OneSource, PipesInOrder,
         PipesAreAhead, Live, FeedsAreFaithful, Faithful

\* A step that sends and delivers nothing, and brings no stream to life.
LEMMA QuietStep ==
  ASSUME FeedInv, LeakInv', UNCHANGED <<published, pipe>>, source' \in Connections \cup {NoConnection},
         \A v \in Views : feed'[v] = feed[v] \/ feed'[v] = <<>>,
         feed' \in [Views -> Seq(Nat)],
         \A v \in Views : feed'[v] # <<>> => v \in mounted',
         \A c \in Connections : request'[c] \in {"none", "sent"} => request[c] \in {"none", "sent"},
         \A c \in Connections : Live(c)' => Live(c),
         open' \subseteq {source'} \cap Connections,
         \A c \in open' : c \in open \/ request'[c] \in {"none", "sent"}
  PROVE  FeedInv'
<1>0. /\ LeakInv /\ StreamTypeOK /\ UnservedIsEmpty /\ OneSource
      /\ PipesInOrder /\ PipesAreAhead /\ FeedsAreFaithful
  BY DEF FeedInv
<1>1. StreamTypeOK' /\ UnservedIsEmpty' /\ OneSource'
  BY <1>0 DEF StreamTypeOK, UnservedIsEmpty, OneSource
<1>2. PipesInOrder'
  BY <1>0 DEF PipesInOrder
<1>3. FeedsAreFaithful'
  <2>. SUFFICES ASSUME NEW v \in Views
                PROVE  /\ Faithful(feed'[v])
                       /\ \A i \in 1 .. Len(feed'[v]) : feed'[v][i] <= published
    BY DEF FeedsAreFaithful, Faithful
  <2>1. CASE feed'[v] = feed[v]
    BY <1>0, <2>1 DEF FeedsAreFaithful
  <2>2. CASE feed'[v] = <<>>
    BY <2>2, EmptySeq DEF Faithful
  <2>. QED BY <2>1, <2>2
<1>4. PipesAreAhead'
  <2>. SUFFICES ASSUME NEW c \in open', NEW v \in Views, feed'[v] # <<>>
                PROVE  /\ \A k \in 1 .. Len(pipe[c]), i \in 1 .. Len(feed[v]) :
                            pipe[c][k] # StreamOpen => feed[v][i] < pipe[c][k]
                       /\ feed[v][1] # StreamOpen =>
                            IF pipe[c] # <<>> THEN pipe[c][1] \in {StreamOpen, feed[v][1] + 1}
                            ELSE Live(c)' => feed[v][1] = published
    <3>1. \A v \in Views : feed'[v] = <<>> => Len(feed'[v]) = 0
      BY EmptySeq
    <3>2. \A v \in Views : feed'[v] # <<>> => feed'[v] = feed[v]
      OBVIOUS
    <3>. QED BY <3>1, <3>2 DEF PipesAreAhead
  <2>1. CASE c \in open
    BY <1>0, <2>1 DEF PipesAreAhead, OneSource
  <2>2. CASE c \notin open
    <3>1. request'[c] \in {"none", "sent"} /\ c \in Connections
      BY <2>2
    <3>2. pipe[c] = <<>> /\ Len(pipe[c]) = 0 /\ ~Live(c)'
      BY <1>0, <3>1, EmptySeq DEF UnservedIsEmpty, Live, LeakInv, SetUpFirst
    <3>. QED BY <3>2
  <2>. QED BY <2>1, <2>2
<1>. QED BY <1>0, <1>1, <1>2, <1>3, <1>4 DEF FeedInv

\* A stream that is set up has its opening line before it, and none of the events
\* published until then.
LEMMA ServeKeepsFeeds ==
  ASSUME FeedInv, LeakInv', NEW c \in Connections, Serve(c)
  PROVE  FeedInv'
<1>0. /\ LeakInv /\ StreamTypeOK /\ UnservedIsEmpty /\ OneSource
      /\ PipesInOrder /\ PipesAreAhead /\ FeedsAreFaithful
  BY DEF FeedInv
<1>1. /\ UNCHANGED <<published, source, open, mounted, feed, closed, broken>>
      /\ pipe' = [pipe EXCEPT ![c] = <<StreamOpen>>]
      /\ request' = [request EXCEPT ![c] = IF c \in aborted THEN "late" ELSE "served"]
      /\ attached' = attached \cup {c}
  BY DEF Serve, clientVars
<1>2. /\ \A d \in Connections \ {c} : pipe'[d] = pipe[d] /\ (Live(d)' <=> Live(d))
      /\ pipe'[c] = <<StreamOpen>> /\ pipe'[c] # <<>> /\ Len(pipe'[c]) = 1
      /\ pipe'[c][1] = StreamOpen
      /\ pipe' \in [Connections -> Seq(Nat)]
      /\ \A d \in Connections \ {c} : request'[d] = request[d]
      /\ request'[c] \in {"served", "late"}
  BY <1>0, <1>1 DEF StreamTypeOK, StreamOpen, Live, LeakInv, ConnectionTypeOK
<1>3. StreamTypeOK' /\ UnservedIsEmpty' /\ OneSource' /\ FeedsAreFaithful'
  BY <1>0, <1>1, <1>2 DEF StreamTypeOK, UnservedIsEmpty, OneSource, FeedsAreFaithful
<1>4. PipesInOrder'
  <2>. SUFFICES ASSUME NEW d \in Connections
                PROVE  /\ \A i \in 1 .. Len(pipe'[d]) : pipe'[d][i] <= published
                       /\ \A i, k \in 1 .. Len(pipe'[d]) : i < k =>
                            /\ pipe'[d][k] # StreamOpen
                            /\ pipe'[d][i] # StreamOpen => pipe'[d][k] = pipe'[d][i] + (k - i)
                       /\ Live(d)' /\ pipe'[d] # <<>> => pipe'[d][Len(pipe'[d])] \in {StreamOpen, published}
    BY <1>1 DEF PipesInOrder
  <2>1. CASE d = c
    BY <1>0, <1>2, <2>1 DEF StreamTypeOK, StreamOpen
  <2>2. CASE d # c
    <3>1. pipe'[d] = pipe[d] /\ (Live(d)' <=> Live(d))
      BY <1>2, <2>2
    <3>2. /\ \A i \in 1 .. Len(pipe[d]) : pipe[d][i] <= published
          /\ \A i, k \in 1 .. Len(pipe[d]) : i < k =>
               /\ pipe[d][k] # StreamOpen
               /\ pipe[d][i] # StreamOpen => pipe[d][k] = pipe[d][i] + (k - i)
          /\ Live(d) /\ pipe[d] # <<>> => pipe[d][Len(pipe[d])] \in {StreamOpen, published}
      BY <1>0 DEF PipesInOrder
    <3>. QED BY <3>1, <3>2
  <2>. QED BY <2>1, <2>2
<1>5. PipesAreAhead'
  <2>. SUFFICES ASSUME NEW d \in open, NEW v \in Views
                PROVE  /\ \A k \in 1 .. Len(pipe'[d]), i \in 1 .. Len(feed[v]) :
                            pipe'[d][k] # StreamOpen => feed[v][i] < pipe'[d][k]
                       /\ feed[v] # <<>> /\ feed[v][1] # StreamOpen =>
                            IF pipe'[d] # <<>> THEN pipe'[d][1] \in {StreamOpen, feed[v][1] + 1}
                            ELSE Live(d)' => feed[v][1] = published
    BY <1>1 DEF PipesAreAhead
  <2>1. CASE d = c
    BY <1>2, <2>1
  <2>2. CASE d # c
    <3>1. d \in Connections
      BY <1>0 DEF OneSource
    <3>. QED BY <1>0, <1>2, <2>2, <3>1 DEF PipesAreAhead
  <2>. QED BY <2>1, <2>2
<1>. QED BY <1>3, <1>4, <1>5 DEF FeedInv

\* An event goes behind what is on its way, on every connection that is alive.
LEMMA PublishKeepsFeeds ==
  ASSUME FeedInv, LeakInv', Publish
  PROVE  FeedInv'
<1>0. /\ LeakInv /\ StreamTypeOK /\ UnservedIsEmpty /\ OneSource
      /\ PipesInOrder /\ PipesAreAhead /\ FeedsAreFaithful
  BY DEF FeedInv
<1>1. /\ UNCHANGED <<request, source, open, mounted, feed, attached, broken>>
      /\ published' = published + 1
      /\ pipe' = [c \in Connections |-> IF Live(c) THEN Append(pipe[c], published') ELSE pipe[c]]
      /\ closed \subseteq closed'
  BY DEF Publish, Trip, clientVars, Live
<1>2. PICK m \in Nat : m = published /\ published' = m + 1
  BY <1>0, <1>1 DEF StreamTypeOK
<1>3. ASSUME NEW c \in Connections
      PROVE  /\ pipe[c] \in Seq(Nat) /\ Len(pipe[c]) \in Nat
             /\ \A i \in 1 .. Len(pipe[c]) : pipe[c][i] \in Nat
             /\ Live(c)' => Live(c)
             /\ ~Live(c) => pipe'[c] = pipe[c]
             /\ Live(c) => /\ pipe'[c] = Append(pipe[c], m + 1)
                           /\ pipe'[c] \in Seq(Nat) /\ pipe'[c] # <<>>
                           /\ Len(pipe'[c]) = Len(pipe[c]) + 1
                           /\ \A i \in 1 .. Len(pipe[c]) : pipe'[c][i] = pipe[c][i]
                           /\ pipe'[c][Len(pipe[c]) + 1] = m + 1
  <2>1. pipe[c] \in Seq(Nat) /\ m + 1 \in Nat
    BY <1>0, <1>2 DEF StreamTypeOK
  <2>2. Live(c)' => Live(c)
    BY <1>1 DEF Live
  <2>3. pipe'[c] = IF Live(c) THEN Append(pipe[c], m + 1) ELSE pipe[c]
    BY <1>1, <1>2
  <2>4. Len(pipe[c]) \in Nat /\ \A i \in 1 .. Len(pipe[c]) : pipe[c][i] \in Nat
    BY <2>1, LenProperties, ElementOfSeq
  <2>5. /\ Append(pipe[c], m + 1) \in Seq(Nat)
        /\ Append(pipe[c], m + 1) # <<>>
        /\ Len(Append(pipe[c], m + 1)) = Len(pipe[c]) + 1
        /\ \A i \in 1 .. Len(pipe[c]) : Append(pipe[c], m + 1)[i] = pipe[c][i]
        /\ Append(pipe[c], m + 1)[Len(pipe[c]) + 1] = m + 1
    BY <2>1, AppendProperties
  <2>. QED BY <2>1, <2>2, <2>3, <2>4, <2>5
<1>4. StreamTypeOK' /\ UnservedIsEmpty' /\ OneSource'
  <2>1. ASSUME NEW c \in Connections PROVE pipe'[c] \in Seq(Nat)
    BY <1>3
  <2>2. ASSUME NEW c \in Connections, request[c] \in {"none", "sent"} PROVE pipe'[c] = <<>>
    BY <1>0, <1>3, <2>2 DEF UnservedIsEmpty, Live, LeakInv, SetUpFirst
  <2>. QED BY <1>0, <1>1, <1>2, <2>1, <2>2 DEF StreamTypeOK, UnservedIsEmpty, OneSource
<1>5. FeedsAreFaithful'
  <2>1. \A v \in Views : \A i \in 1 .. Len(feed[v]) : feed[v][i] \in Nat
    BY <1>0, ElementOfSeq DEF StreamTypeOK
  <2>2. \A v \in Views : \A i \in 1 .. Len(feed[v]) : feed[v][i] <= m
    BY <1>0, <1>2 DEF FeedsAreFaithful
  <2>3. \A v \in Views : \A i \in 1 .. Len(feed[v]) : feed[v][i] <= m + 1
    BY <2>1, <2>2
  <2>. QED BY <1>0, <1>1, <1>2, <2>3 DEF FeedsAreFaithful, Faithful
<1>6. PipesInOrder'
  <2>. SUFFICES ASSUME NEW c \in Connections
                PROVE  /\ \A i \in 1 .. Len(pipe'[c]) : pipe'[c][i] <= m + 1
                       /\ \A i, k \in 1 .. Len(pipe'[c]) : i < k =>
                            /\ pipe'[c][k] # StreamOpen
                            /\ pipe'[c][i] # StreamOpen => pipe'[c][k] = pipe'[c][i] + (k - i)
                       /\ Live(c)' /\ pipe'[c] # <<>> => pipe'[c][Len(pipe'[c])] \in {StreamOpen, m + 1}
    BY <1>2 DEF PipesInOrder
  <2>1. /\ \A i \in 1 .. Len(pipe[c]) : pipe[c][i] <= m
        /\ \A i, k \in 1 .. Len(pipe[c]) : i < k =>
             /\ pipe[c][k] # StreamOpen
             /\ pipe[c][i] # StreamOpen => pipe[c][k] = pipe[c][i] + (k - i)
        /\ Live(c) /\ pipe[c] # <<>> => pipe[c][Len(pipe[c])] \in {StreamOpen, m}
    BY <1>0, <1>2 DEF PipesInOrder
  <2>2. CASE ~Live(c)
    BY <1>3, <2>1, <2>2
  <2>3. CASE Live(c)
    <3>0. Len(pipe[c]) \in Nat /\ Len(pipe'[c]) = Len(pipe[c]) + 1
      BY <1>3, <2>3
    <3>1. ASSUME NEW i \in 1 .. Len(pipe'[c]) PROVE pipe'[c][i] <= m + 1
      <4>1. CASE i \in 1 .. Len(pipe[c])
        <5>1. pipe'[c][i] = pipe[c][i] /\ pipe[c][i] \in Nat /\ pipe[c][i] <= m
          BY <1>3, <2>1, <2>3, <4>1
        <5>. QED BY <5>1
      <4>2. CASE i = Len(pipe[c]) + 1
        BY <1>3, <2>3, <4>2
      <4>. QED BY <3>0, <4>1, <4>2
    <3>2. ASSUME NEW i \in 1 .. Len(pipe'[c]), NEW k \in 1 .. Len(pipe'[c]), i < k
          PROVE  /\ pipe'[c][k] # StreamOpen
                 /\ pipe'[c][i] # StreamOpen => pipe'[c][k] = pipe'[c][i] + (k - i)
      <4>0. i \in 1 .. Len(pipe[c]) /\ pipe'[c][i] = pipe[c][i] /\ pipe[c][i] \in Nat
        BY <1>3, <2>3, <3>2
      <4>1. CASE k \in 1 .. Len(pipe[c])
        BY <1>3, <2>1, <2>3, <3>2, <4>0, <4>1
      <4>2. CASE k = Len(pipe[c]) + 1
        <5>1. pipe'[c][k] = m + 1 /\ m + 1 # StreamOpen /\ pipe[c] # <<>>
          BY <1>3, <2>3, <4>0, <4>2, EmptySeq DEF StreamOpen
        <5>2. pipe[c][i] # StreamOpen => m = pipe[c][i] + (Len(pipe[c]) - i)
          <6>1. pipe[c][Len(pipe[c])] \in {StreamOpen, m}
            BY <2>1, <2>3, <5>1
          <6>2. CASE i = Len(pipe[c])
            BY <1>3, <4>0, <6>1, <6>2
          <6>3. CASE i # Len(pipe[c])
            <7>1. i < Len(pipe[c]) /\ Len(pipe[c]) \in 1 .. Len(pipe[c])
              BY <1>3, <4>0, <6>3
            <7>. QED BY <2>1, <4>0, <6>1, <7>1
          <6>. QED BY <6>2, <6>3
        <5>3. PICK x, n \in Nat : x = pipe[c][i] /\ n = Len(pipe[c])
          BY <3>0, <4>0
        <5>4. x # StreamOpen => m + 1 = x + ((n + 1) - i)
          BY <5>2, <5>3
        <5>. QED BY <4>0, <4>2, <5>1, <5>3, <5>4
      <4>. QED BY <1>3, <2>3, <4>1, <4>2
    <3>. QED BY <1>3, <2>3, <3>1, <3>2
  <2>. QED BY <2>2, <2>3
<1>7. PipesAreAhead'
  <2>. SUFFICES ASSUME NEW c \in open, NEW v \in Views
                PROVE  /\ \A k \in 1 .. Len(pipe'[c]), i \in 1 .. Len(feed[v]) :
                            pipe'[c][k] # StreamOpen => feed[v][i] < pipe'[c][k]
                       /\ feed[v] # <<>> /\ feed[v][1] # StreamOpen =>
                            IF pipe'[c] # <<>> THEN pipe'[c][1] \in {StreamOpen, feed[v][1] + 1}
                            ELSE Live(c)' => feed[v][1] = m + 1
    BY <1>1, <1>2 DEF PipesAreAhead
  <2>1. /\ \A k \in 1 .. Len(pipe[c]), i \in 1 .. Len(feed[v]) :
             pipe[c][k] # StreamOpen => feed[v][i] < pipe[c][k]
        /\ feed[v] # <<>> /\ feed[v][1] # StreamOpen =>
             IF pipe[c] # <<>> THEN pipe[c][1] \in {StreamOpen, feed[v][1] + 1}
             ELSE Live(c) => feed[v][1] = m
    BY <1>0, <1>2 DEF PipesAreAhead
  <2>2. /\ \A i \in 1 .. Len(feed[v]) : feed[v][i] \in Nat /\ feed[v][i] <= m
        /\ c \in Connections
    BY <1>0, <1>2, ElementOfSeq DEF StreamTypeOK, FeedsAreFaithful, OneSource
  <2>3. CASE ~Live(c)
    BY <1>3, <2>1, <2>2, <2>3
  <2>4. CASE Live(c)
    <3>1. ASSUME NEW k \in 1 .. Len(pipe'[c]), NEW i \in 1 .. Len(feed[v]), pipe'[c][k] # StreamOpen
          PROVE  feed[v][i] < pipe'[c][k]
      <4>1. CASE k \in 1 .. Len(pipe[c])
        BY <1>3, <2>1, <2>2, <2>4, <3>1, <4>1
      <4>2. CASE k = Len(pipe[c]) + 1
        BY <1>3, <2>2, <2>4, <4>2
      <4>. QED BY <1>3, <2>2, <2>4, <4>1, <4>2
    <3>2. ASSUME feed[v] # <<>>, feed[v][1] # StreamOpen
          PROVE  pipe'[c] # <<>> /\ pipe'[c][1] \in {StreamOpen, feed[v][1] + 1}
      <4>1. CASE pipe[c] = <<>>
        BY <1>3, <2>1, <2>2, <2>4, <3>2, <4>1, EmptySeq
      <4>2. CASE pipe[c] # <<>>
        <5>1. 1 \in 1 .. Len(pipe[c])
          BY <1>3, <2>2, <4>2, EmptySeq
        <5>. QED BY <1>3, <2>1, <2>2, <2>4, <3>2, <4>2, <5>1
      <4>. QED BY <4>1, <4>2
    <3>. QED BY <3>1, <3>2
  <2>. QED BY <2>3, <2>4
<1>. QED BY <1>4, <1>5, <1>6, <1>7 DEF FeedInv

\* A frame that is delivered goes in front of every list on the page.
LEMMA DeliverKeepsFeeds ==
  ASSUME FeedInv, LeakInv', NEW c \in Connections, Deliver(c)
  PROVE  FeedInv'
<1>0. /\ LeakInv /\ StreamTypeOK /\ UnservedIsEmpty /\ OneSource
      /\ PipesInOrder /\ PipesAreAhead /\ FeedsAreFaithful
  BY DEF FeedInv
<1>1. /\ c \in open /\ pipe[c] # <<>> /\ pipe[c] \in Seq(Nat)
      /\ UNCHANGED <<published, request, attached, closed, broken, source, open, mounted>>
      /\ pipe' = [pipe EXCEPT ![c] = Tail(@)]
      /\ feed' = [v \in Views |->
           IF v \in mounted THEN Newest(<<Head(pipe[c])>> \o feed[v]) ELSE feed[v]]
  BY <1>0 DEF Deliver, serverVars, StreamTypeOK
<1>2. /\ \A d \in Connections : (Live(d)' <=> Live(d))
      /\ \A d \in open : d = c
  BY <1>0, <1>1 DEF Live, OneSource
<1>3. /\ pipe'[c] \in Seq(Nat) /\ Len(pipe[c]) \in Nat \ {0}
      /\ Len(pipe'[c]) = Len(pipe[c]) - 1
      /\ \A i \in 1 .. Len(pipe'[c]) : pipe'[c][i] = pipe[c][i + 1]
      /\ \A d \in Connections \ {c} : pipe'[d] = pipe[d]
      /\ Head(pipe[c]) = pipe[c][1]
      /\ \A i \in 1 .. Len(pipe[c]) : pipe[c][i] \in Nat
  BY <1>0, <1>1, HeadTailProperties, EmptySeq, LenProperties, ElementOfSeq DEF StreamTypeOK
<1>4. PICK h \in Nat : h = pipe[c][1] /\ h = Head(pipe[c])
  BY <1>3
<1>5. /\ h <= published
      /\ \A k \in 2 .. Len(pipe[c]) : pipe[c][k] # StreamOpen /\ (h # StreamOpen => pipe[c][k] = h + (k - 1))
      /\ Live(c) => pipe[c][Len(pipe[c])] \in {StreamOpen, published}
  <2>1. 1 \in 1 .. Len(pipe[c]) /\ \A k \in 2 .. Len(pipe[c]) : k \in 1 .. Len(pipe[c]) /\ 1 < k
    BY <1>3
  <2>. QED BY <1>0, <1>1, <1>4, <2>1 DEF PipesInOrder
<1>6. ASSUME NEW v \in mounted \cap Views
      PROVE  /\ feed'[v] \in Seq(Nat)
             /\ Len(feed'[v]) \in 1 .. Len(feed[v]) + 1
             /\ feed'[v][1] = h
             /\ \A i \in 2 .. Len(feed'[v]) : feed'[v][i] = feed[v][i - 1]
  <2>1. feed[v] \in Seq(Nat) /\ feed'[v] = Newest(<<h>> \o feed[v])
    BY <1>0, <1>1, <1>4 DEF StreamTypeOK
  <2>. QED BY <2>1, FrameInFront
<1>7. ASSUME NEW v \in Views \ mounted
      PROVE  feed'[v] = feed[v] /\ feed[v] = <<>> /\ Len(feed[v]) = 0
  BY <1>0, <1>1, EmptySeq DEF OneSource
<1>8. ASSUME NEW v \in Views
      PROVE  /\ \A i \in 1 .. Len(feed[v]) : feed[v][i] \in Nat /\ feed[v][i] <= published
             /\ \A k \in 1 .. Len(pipe[c]), i \in 1 .. Len(feed[v]) :
                  pipe[c][k] # StreamOpen => feed[v][i] < pipe[c][k]
             /\ feed[v] # <<>> /\ feed[v][1] # StreamOpen => h \in {StreamOpen, feed[v][1] + 1}
  BY <1>0, <1>1, <1>4, ElementOfSeq DEF StreamTypeOK, FeedsAreFaithful, PipesAreAhead
<1>9. StreamTypeOK' /\ UnservedIsEmpty' /\ OneSource'
  <2>1. ASSUME NEW v \in Views PROVE feed'[v] \in Seq(Nat)
    BY <1>0, <1>6, <1>7 DEF StreamTypeOK
  <2>2. ASSUME NEW d \in Connections PROVE pipe'[d] \in Seq(Nat)
    BY <1>0, <1>3 DEF StreamTypeOK
  <2>3. request[c] \notin {"none", "sent"}
    BY <1>0, <1>1 DEF UnservedIsEmpty
  <2>. QED BY <1>0, <1>1, <1>3, <1>7, <2>1, <2>2, <2>3 DEF StreamTypeOK, UnservedIsEmpty, OneSource
<1>10. FeedsAreFaithful'
  <2>. SUFFICES ASSUME NEW v \in Views
                PROVE  /\ Faithful(feed'[v])
                       /\ \A i \in 1 .. Len(feed'[v]) : feed'[v][i] <= published
    BY <1>1 DEF FeedsAreFaithful, Faithful
  <2>1. CASE v \notin mounted
    BY <1>0, <1>7, <2>1 DEF FeedsAreFaithful
  <2>2. CASE v \in mounted
    <3>1. 1 \in 1 .. Len(pipe[c])
      BY <1>3
    <3>2. h # StreamOpen => \A i \in 1 .. Len(feed[v]) : feed[v][i] < h
      BY <1>4, <1>8, <3>1
    <3>3. feed[v] \in Seq(Nat) /\ Faithful(feed[v])
      BY <1>0 DEF StreamTypeOK, FeedsAreFaithful
    <3>4. Faithful(feed'[v])
      BY <1>6, <1>8, <2>2, <3>2, <3>3, FaithfulInFront
    <3>5. ASSUME NEW i \in 1 .. Len(feed'[v]) PROVE feed'[v][i] <= published
      <4>1. Len(feed[v]) \in Nat
        BY <3>3, LenProperties
      <4>2. CASE i = 1
        BY <1>5, <1>6, <2>2, <4>2
      <4>3. CASE i # 1
        <5>1. i \in 2 .. Len(feed'[v]) /\ i - 1 \in 1 .. Len(feed[v])
          BY <1>6, <2>2, <4>1, <4>3
        <5>. QED BY <1>6, <1>8, <2>2, <5>1
      <4>. QED BY <4>2, <4>3
    <3>. QED BY <3>4, <3>5
  <2>. QED BY <2>1, <2>2
<1>11. PipesInOrder'
  <2>. SUFFICES ASSUME NEW d \in Connections
                PROVE  /\ \A i \in 1 .. Len(pipe'[d]) : pipe'[d][i] <= published
                       /\ \A i, k \in 1 .. Len(pipe'[d]) : i < k =>
                            /\ pipe'[d][k] # StreamOpen
                            /\ pipe'[d][i] # StreamOpen => pipe'[d][k] = pipe'[d][i] + (k - i)
                       /\ Live(d) /\ pipe'[d] # <<>> => pipe'[d][Len(pipe'[d])] \in {StreamOpen, published}
    BY <1>1, <1>2 DEF PipesInOrder
  <2>1. /\ \A i \in 1 .. Len(pipe[d]) : pipe[d][i] <= published
        /\ \A i, k \in 1 .. Len(pipe[d]) : i < k =>
             /\ pipe[d][k] # StreamOpen
             /\ pipe[d][i] # StreamOpen => pipe[d][k] = pipe[d][i] + (k - i)
        /\ Live(d) /\ pipe[d] # <<>> => pipe[d][Len(pipe[d])] \in {StreamOpen, published}
    BY <1>0 DEF PipesInOrder
  <2>2. CASE d # c
    BY <1>3, <2>1, <2>2
  <2>3. CASE d = c
    <3>1. ASSUME NEW i \in 1 .. Len(pipe'[c])
          PROVE  i + 1 \in 1 .. Len(pipe[c]) /\ pipe'[c][i] = pipe[c][i + 1]
      BY <1>3
    <3>2. ASSUME NEW i \in 1 .. Len(pipe'[c]), NEW k \in 1 .. Len(pipe'[c]), i < k
          PROVE  /\ pipe'[c][k] # StreamOpen
                 /\ pipe'[c][i] # StreamOpen => pipe'[c][k] = pipe'[c][i] + (k - i)
      <4>1. i + 1 < k + 1 /\ (k + 1) - (i + 1) = k - i
        BY <3>2
      <4>. QED BY <2>1, <2>3, <3>1, <4>1
    <3>3. ASSUME Live(c), pipe'[c] # <<>>
          PROVE  pipe'[c][Len(pipe'[c])] \in {StreamOpen, published}
      <4>1. Len(pipe'[c]) \in 1 .. Len(pipe'[c]) /\ Len(pipe'[c]) + 1 = Len(pipe[c])
        BY <1>3, <3>3, EmptySeq
      <4>. QED BY <1>5, <3>1, <3>3, <4>1
    <3>. QED BY <2>1, <2>3, <3>1, <3>2, <3>3
  <2>. QED BY <2>2, <2>3
<1>12. PipesAreAhead'
  <2>. SUFFICES ASSUME NEW v \in Views
                PROVE  /\ \A k \in 1 .. Len(pipe'[c]), i \in 1 .. Len(feed'[v]) :
                            pipe'[c][k] # StreamOpen => feed'[v][i] < pipe'[c][k]
                       /\ feed'[v] # <<>> /\ feed'[v][1] # StreamOpen =>
                            IF pipe'[c] # <<>> THEN pipe'[c][1] \in {StreamOpen, feed'[v][1] + 1}
                            ELSE Live(c) => feed'[v][1] = published
    <3>1. published' = published /\ open' = open /\ (Live(c)' <=> Live(c))
      BY <1>1, <1>2
    <3>. QED BY <1>2, <3>1 DEF PipesAreAhead
  <2>1. CASE v \notin mounted
    BY <1>7, <2>1
  <2>2. CASE v \in mounted
    <3>0. ASSUME NEW k \in 1 .. Len(pipe'[c])
          PROVE  /\ k + 1 \in 2 .. Len(pipe[c]) /\ k + 1 \in 1 .. Len(pipe[c])
                 /\ pipe'[c][k] = pipe[c][k + 1] /\ pipe[c][k + 1] \in Nat
      BY <1>3
    <3>1. ASSUME NEW k \in 1 .. Len(pipe'[c]), NEW i \in 1 .. Len(feed'[v]), pipe'[c][k] # StreamOpen
          PROVE  feed'[v][i] < pipe'[c][k]
      <4>1. CASE i = 1
        <5>1. feed'[v][i] = h
          BY <1>6, <2>2, <4>1
        <5>2. CASE h = StreamOpen
          BY <3>0, <3>1, <5>1, <5>2 DEF StreamOpen
        <5>3. CASE h # StreamOpen
          <6>1. pipe[c][k + 1] = h + ((k + 1) - 1)
            BY <1>5, <3>0, <5>3
          <6>. QED BY <3>0, <5>1, <6>1
        <5>. QED BY <5>2, <5>3
      <4>2. CASE i # 1
        <5>1. Len(feed[v]) \in Nat
          BY <1>0, LenProperties DEF StreamTypeOK
        <5>2. i \in 2 .. Len(feed'[v]) /\ i - 1 \in 1 .. Len(feed[v])
          BY <1>6, <2>2, <4>2, <5>1
        <5>3. feed'[v][i] = feed[v][i - 1]
          BY <1>6, <2>2, <5>2
        <5>4. pipe[c][k + 1] # StreamOpen /\ k + 1 \in 1 .. Len(pipe[c])
          BY <3>0, <3>1
        <5>5. feed[v][i - 1] < pipe[c][k + 1]
          BY <1>8, <5>2, <5>4
        <5>. QED BY <3>0, <5>3, <5>5
      <4>. QED BY <4>1, <4>2
    <3>2. ASSUME h # StreamOpen, pipe'[c] # <<>>
          PROVE  pipe'[c][1] = h + 1
      <4>1. 1 \in 1 .. Len(pipe'[c])
        BY <1>3, <3>2, EmptySeq
      <4>2. 1 + 1 \in 2 .. Len(pipe[c]) /\ pipe'[c][1] = pipe[c][1 + 1]
        BY <3>0, <4>1
      <4>. QED BY <1>5, <3>2, <4>2
    <3>3. ASSUME h # StreamOpen, pipe'[c] = <<>>, Live(c)
          PROVE  h = published
      <4>1. Len(pipe[c]) = 1
        BY <1>3, <3>3, EmptySeq
      <4>. QED BY <1>4, <1>5, <3>3, <4>1
    <3>. QED BY <1>6, <2>2, <3>1, <3>2, <3>3
  <2>. QED BY <2>1, <2>2
<1>. QED BY <1>9, <1>10, <1>11, <1>12 DEF FeedInv

LEMMA FeedNext == FeedInv /\ [EventStreamNext]_streamVars => FeedInv'
<1>. SUFFICES ASSUME FeedInv, [EventStreamNext]_streamVars
              PROVE  FeedInv'
  OBVIOUS
<1>0. /\ LeakInv' /\ LeakInv /\ StreamTypeOK /\ OneSource
      /\ \A v \in Views : feed[v] \in Seq(Nat)
  BY LeakStep DEF FeedInv, StreamTypeOK
<1>1. CASE Publish
  BY <1>0, <1>1, PublishKeepsFeeds
<1>2. ASSUME NEW c \in Connections, Serve(c) PROVE FeedInv'
  BY <1>0, <1>2, ServeKeepsFeeds
<1>3. ASSUME NEW c \in Connections, Heartbeat(c) PROVE FeedInv'
  <2>1. /\ UNCHANGED <<published, pipe, source, open, mounted, feed, request, attached, broken>>
        /\ closed \subseteq closed'
    BY <1>3 DEF Heartbeat, Trip, clientVars
  <2>2. \A d \in Connections : Live(d)' => Live(d)
    BY <2>1 DEF Live
  <2>. QED BY <1>0, <2>1, <2>2, QuietStep DEF StreamTypeOK, OneSource
<1>4. ASSUME NEW c \in Connections, ReaderCancelled(c) PROVE FeedInv'
  <2>1. /\ UNCHANGED <<published, pipe, source, open, mounted, feed, request, attached, closed>>
        /\ broken \subseteq broken'
    BY <1>4 DEF ReaderCancelled, clientVars
  <2>2. \A d \in Connections : Live(d)' => Live(d)
    BY <2>1 DEF Live
  <2>. QED BY <1>0, <2>1, <2>2, QuietStep DEF StreamTypeOK, OneSource
<1>5. ASSUME NEW c \in Connections, Abort(c) PROVE FeedInv'
  <2>1. /\ UNCHANGED <<published, pipe, source, open, mounted, feed, request, broken>>
        /\ closed \subseteq closed' /\ attached' \subseteq attached
    BY <1>5 DEF Abort, Close, clientVars
  <2>2. \A d \in Connections : Live(d)' => Live(d)
    BY <2>1 DEF Live
  <2>. QED BY <1>0, <2>1, <2>2, QuietStep DEF StreamTypeOK, OneSource
<1>6. ASSUME NEW c \in Connections, Drop(c) PROVE FeedInv'
  <2>1. PICK next \in Fresh :
          /\ open' = (open \ {c}) \cup {next}
          /\ request' = [request EXCEPT ![next] = "sent"]
          /\ source' = IF source = c THEN next ELSE source
    BY <1>6 DEF Drop
  <2>2. /\ UNCHANGED <<published, pipe, mounted, feed, attached, closed, broken>>
        /\ c \in open /\ source = c /\ next \in Connections /\ request[next] = "none"
    BY <1>0, <1>6 DEF Drop, OneSource, Fresh
  <2>3. \A d \in Connections : Live(d)' => Live(d)
    BY <2>2 DEF Live
  <2>4. /\ request'[next] = "sent"
        /\ \A d \in Connections : d # next => request'[d] = request[d]
    BY <1>0, <2>1, <2>2 DEF LeakInv, ConnectionTypeOK
  <2>5. open' \subseteq {source'} \cap Connections /\ source' \in Connections
    BY <1>0, <2>1, <2>2 DEF OneSource
  <2>6. \A d \in open' : d \in open \/ request'[d] \in {"none", "sent"}
    BY <2>1, <2>4
  <2>. QED BY <1>0, <2>2, <2>3, <2>4, <2>5, <2>6, QuietStep DEF StreamTypeOK, OneSource
<1>7. ASSUME NEW c \in Connections, Deliver(c) PROVE FeedInv'
  BY <1>0, <1>7, DeliverKeepsFeeds
<1>8. ASSUME NEW v \in Views, Mount(v) PROVE FeedInv'
  <2>1. PICK c \in Connections : Subscribe(c)
    BY <1>8 DEF Mount
  <2>2. /\ UNCHANGED <<published, pipe, feed, attached, closed, broken>>
        /\ mounted \subseteq mounted'
    BY <1>8 DEF Mount
  <2>3. \A d \in Connections : Live(d)' => Live(d)
    BY <2>2 DEF Live
  <2>4. CASE source = NoConnection
    <3>1. /\ c \in Fresh /\ request' = [request EXCEPT ![c] = "sent"]
          /\ source' = c /\ open' = open \cup {c}
      BY <2>1, <2>4 DEF Subscribe, Connect
    <3>2. open = {} /\ request[c] = "none"
      BY <1>0, <2>4, <3>1, EventStreamAssumption DEF OneSource, EventStreamAssumption, Fresh
    <3>3. /\ request'[c] = "sent"
          /\ \A d \in Connections : d # c => request'[d] = request[d]
      BY <1>0, <3>1 DEF LeakInv, ConnectionTypeOK
    <3>. QED BY <1>0, <2>2, <2>3, <3>1, <3>2, <3>3, QuietStep DEF StreamTypeOK, OneSource
  <2>5. CASE source # NoConnection
    <3>1. UNCHANGED <<request, source, open>>
      BY <2>1, <2>5 DEF Subscribe
    <3>. QED BY <1>0, <2>2, <2>3, <3>1, QuietStep DEF StreamTypeOK, OneSource
  <2>. QED BY <2>4, <2>5
<1>9. ASSUME NEW v \in Views, Unmount(v) PROVE FeedInv'
  <2>1. /\ UNCHANGED <<published, pipe, request, attached, closed, broken>>
        /\ mounted' = mounted \ {v} /\ feed' = [feed EXCEPT ![v] = <<>>]
        /\ \/ UNCHANGED <<source, open>>
           \/ source' = NoConnection /\ open' = open \ {source}
    BY <1>9 DEF Unmount, serverVars
  <2>2. \A d \in Connections : Live(d)' => Live(d)
    BY <2>1 DEF Live
  <2>3. /\ \A w \in Views : w # v => feed'[w] = feed[w]
        /\ feed'[v] = <<>> /\ feed' \in [Views -> Seq(Nat)]
    BY <1>0, <2>1, EmptySeq DEF StreamTypeOK
  <2>4. \A w \in Views : feed'[w] # <<>> => w \in mounted'
    BY <1>0, <2>1, <2>3 DEF OneSource
  <2>5. /\ open' \subseteq {source'} \cap Connections /\ open' \subseteq open
        /\ source' \in Connections \cup {NoConnection}
    BY <1>0, <2>1 DEF OneSource, StreamTypeOK
  <2>6. /\ \A w \in Views : feed'[w] = feed[w] \/ feed'[w] = <<>>
        /\ \A d \in open' : d \in open \/ request'[d] \in {"none", "sent"}
        /\ \A d \in Connections : request'[d] \in {"none", "sent"} => request[d] \in {"none", "sent"}
    BY <2>1, <2>3, <2>5
  <2>. QED BY <1>0, <2>1, <2>2, <2>3, <2>4, <2>5, <2>6, QuietStep
<1>10. CASE UNCHANGED streamVars
  <2>1. UNCHANGED <<published, pipe, source, open, mounted, feed, request, attached, closed, broken>>
    BY <1>10 DEF streamVars, serverVars, clientVars
  <2>2. \A d \in Connections : Live(d)' => Live(d)
    BY <2>1 DEF Live
  <2>. QED BY <1>0, <2>1, <2>2, QuietStep DEF StreamTypeOK, OneSource
<1>. QED
  BY <1>1, <1>2, <1>3, <1>4, <1>5, <1>6, <1>7, <1>8, <1>9, <1>10 DEF EventStreamNext

\* What a component shows is what was published, each event once and in its order
\* (useLiveEvents of components/live.tsx), whichever streams are closed, opened and
\* connected again while it is on the page; where an event is missing between two
\* others, the line of a stream that was opened stands in the gap.
THEOREM FeedsShowWhatWasPublished == EventStreamSpec => []FeedIsFaithful
<1>1. FeedInv => FeedIsFaithful
  <2>. SUFFICES ASSUME FeedInv, NEW v \in Views PROVE DOMAIN feed[v] = 1 .. Len(feed[v]) /\ Faithful(feed[v])
    BY DEF FeedIsFaithful, Faithful
  <2>1. feed[v] \in Seq(Nat)
    BY DEF FeedInv, StreamTypeOK
  <2>. QED BY <2>1, LenProperties DEF FeedInv, FeedsAreFaithful
<1>. QED
  BY <1>1, FeedInit, FeedNext, PTL DEF EventStreamSpec

-----------------------------------------------------------------------------
\* The page of the live components behaves like the event stream, and the other
\* pages, and what they ask of the server, leave the stream alone.
THEOREM PagesStreamEvents == ConsoleSpec => EventStreamSpec
<1>1. ConsoleInit => EventStreamInit
  BY DEF ConsoleInit
<1>2. [ConsoleNext]_<<streamVars, consoleVars>> => [EventStreamNext]_streamVars
  BY DEF ConsoleNext
<1> QED
  BY <1>1, <1>2, PTL DEF ConsoleSpec, EventStreamSpec

-----------------------------------------------------------------------------
(* The pages that ask for something, and what becomes of their requests.   *)

Request(c) ==
  /\ c.n \in 1 .. sent
  /\ c.by \in Components
  /\ c.by \in Tabs => c.about.approval \in Approvals
  /\ c.by = "memory" => c.about = "all"

ConsoleTypeOK ==
  /\ sent \in Nat /\ cutOffs \in Nat
  /\ \A c \in calls \cup waiting : Request(c)
  /\ \A x \in answers : Request(x.call) /\ x.how \in {"ok", "refused", "error"}
  /\ busy = [w \in Components |-> busy[w]]
  /\ shown \in [Components -> Nat] /\ newest \in [Components -> Nat]
  /\ last = [w \in Components |-> last[w]]
  /\ \A w \in Components : last[w].n \in Nat
  /\ queue \in [Tabs -> SUBSET Approvals]
  /\ status = [a \in Approvals |-> status[a]]
  /\ clicked \in [Tabs -> SUBSET Approvals]
  /\ \A t \in Tabs : IsFiniteSet(clicked[t])

\* Requests are told apart by their number, and a component shows no answer to a
\* request that it has not sent.
Numbered ==
  /\ \A c, d \in calls \cup waiting : c.n = d.n => c = d
  /\ \A c \in waiting : c.n <= last[c.by].n
  /\ \A w \in Components : last[w].n <= sent /\ shown[w] <= newest[w] /\ newest[w] <= last[w].n

\* A component that is disabled while it waits has one request, its last.
OneEach ==
  \A c \in waiting : c.by \in Runners \cup {"memory"} =>
    c.n = last[c.by].n /\ busy[c.by] # NoCall

\* Until it is answered it shows no answer that is newer, and then it shows this.
RunnersShowTheLast ==
  \A w \in Runners :
    IF Awaited(w) = {} THEN shown[w] = last[w].n \/ (w = "shop" /\ newest[w] < last[w].n)
    ELSE newest[w] < last[w].n

DraftIsAsked == page = "pricing" /\ ~timer => last["pricing"].about = draft

\* A request that no handler has taken up has no answer.  Who sent it waits, or was
\* told that it was cut off.
OneAnswer == \A x \in answers : x.call \notin calls
CallsAreAwaited == \A c \in calls : c \in waiting \/ <<c.by, c.about>> \in unheard

\* A tab takes an approval from its list when it is decided.
OkIsDecided ==
  \A x \in answers : x.call.by \in Tabs /\ x.how = "ok" => status[x.call.about.approval].is # "PENDING"

QueuesListWhatPends == \A t \in Tabs, a \in Approvals : a \notin queue[t] => status[a].is # "PENDING"

\* The tab that has decided about an approval it lists waits for an answer that is
\* not a refusal, or was not told well.
Decider(c, t, a) ==
  /\ c \in waiting /\ c \notin calls /\ c.by = t /\ c.about.approval = a
  /\ \A x \in answers : x.call = c => x.how # "refused"

NotToldWell(t, a) == \E x \in unheard : x[1] = t /\ x[2].approval = a

DeciderIsHeard ==
  \A t \in Tabs, a \in Approvals : a \in queue[t] /\ status[a].by = t =>
    (\E c \in waiting : Decider(c, t, a)) \/ NotToldWell(t, a)

MemoryAnswers ==
  \A x \in answers : x.call.by = "memory" =>
    (x.how = "ok" /\ "old" \notin records) \/ x.how = "error"

EmptiedListIsExplained ==
  /\ list = {} /\ "old" \in records => <<"memory", "all">> \in unheard
  /\ list # {} /\ "old" \notin records
     => Awaited("memory") # {} \/ <<"memory", "all">> \in unheard

\* A tab that decides about one approval only asks about it once at a time.
OneOnly(t) == \E a \in Approvals : clicked[t] \subseteq {a}

TabsAskOnce ==
  \A c \in waiting : c.by \in Tabs =>
    /\ c.about.approval \in clicked[c.by]
    /\ OneOnly(c.by) => /\ busy[c.by] = c.about.approval
                        /\ \A d \in waiting : d.by = c.by => d = c

BusyAwaits ==
  /\ busy["pricing"] = NoCall
  /\ \A w \in Components :
       busy[w] # NoCall => Awaited(w) # {} \/ (w = "memory" /\ cutOffs > 0)

\* What the requests on their way say, and what only a component itself says.
ServerInv ==
  /\ OneAnswer /\ CallsAreAwaited /\ OkIsDecided /\ QueuesListWhatPends /\ DeciderIsHeard
  /\ MemoryAnswers /\ EmptiedListIsExplained

PageInv == OneEach /\ RunnersShowTheLast /\ DraftIsAsked /\ TabsAskOnce /\ BusyAwaits

ConsoleInv == ConsoleTypeOK /\ Numbered /\ ServerInv /\ PageInv

-----------------------------------------------------------------------------
LEMMA ComponentsAreDistinct ==
  /\ Runners \cup {"pricing", "memory"} \subseteq Components /\ Tabs \subseteq Components
  /\ \A t \in Tabs : t \notin Runners /\ t # "pricing" /\ t # "memory" /\ t # "nobody"
  /\ "pricing" \notin Runners /\ "memory" \notin Runners
BY ConsoleAssumption DEF ConsoleAssumption, Components, Runners

LEMMA ConsoleStarts == ConsoleInit => ConsoleInv
<1>. SUFFICES ASSUME ConsoleInit PROVE ConsoleInv
  OBVIOUS
<1>1. /\ sent = 0 /\ calls = {} /\ waiting = {} /\ answers = {} /\ cutOffs = 0
      /\ busy = [w \in Components |-> NoCall]
      /\ shown = [w \in Components |-> 0] /\ newest = shown
      /\ last = [w \in Components |-> [n |-> 0, about |-> NoCall]]
      /\ timer = (page = "pricing")
      /\ queue = [t \in Tabs |-> Approvals]
      /\ list = {"old"} /\ records = {"old"}
      /\ status = [a \in Approvals |-> [is |-> "PENDING", by |-> "nobody"]]
      /\ clicked = [t \in Tabs |-> {}]
  BY DEF ConsoleInit
<1>2. ConsoleTypeOK
  BY <1>1, FS_EmptySet DEF ConsoleTypeOK
<1>3. Numbered
  BY <1>1 DEF Numbered
<1>4. ServerInv
  BY <1>1, ComponentsAreDistinct
     DEF ServerInv, OneAnswer, CallsAreAwaited, OkIsDecided, QueuesListWhatPends, DeciderIsHeard,
         MemoryAnswers, EmptiedListIsExplained
<1>5. PageInv
  BY <1>1, ComponentsAreDistinct
     DEF PageInv, OneEach, RunnersShowTheLast, DraftIsAsked, TabsAskOnce, BusyAwaits, Awaited
<1>. QED BY <1>2, <1>3, <1>4, <1>5 DEF ConsoleInv

-----------------------------------------------------------------------------
(* A request that is sent.                                                 *)

LEMMA SendKeeps ==
  ASSUME ConsoleInv, NEW w \in Components, NEW about, Send(w, about),
         w \in Tabs => about.approval \in Approvals,
         w = "memory" => about = "all",
         busy' = [v \in Components |-> busy'[v]],
         shown' \in [Components -> Nat], \A v \in Components : shown'[v] <= newest[v],
         UNCHANGED <<queue, list>>,
         clicked' \in [Tabs -> SUBSET Approvals],
         \A t \in Tabs : IsFiniteSet(clicked'[t])
  PROVE  /\ ConsoleTypeOK' /\ Numbered' /\ ServerInv'
         /\ last'[w].n = sent' /\ last'[w].about = about
         /\ \A v \in Components : v # w => last'[v] = last[v]
         /\ UNCHANGED newest /\ newest[w] < sent'
         /\ \E c \in waiting' :
              /\ c.n = sent' /\ c.by = w /\ c.about = about
              /\ c \notin waiting /\ waiting' = waiting \cup {c}
<1>. PICK c : c = [n |-> sent + 1, by |-> w, about |-> about]
  OBVIOUS
<1>1. /\ sent' = sent + 1
      /\ calls' = calls \cup {c} /\ waiting' = waiting \cup {c}
      /\ last' = [last EXCEPT ![w] = [n |-> sent + 1, about |-> about]]
      /\ UNCHANGED <<page, answers, newest, status, records, unheard, cutOffs, throws>>
      /\ c.n = sent + 1 /\ c.by = w /\ c.about = about
  BY DEF Send, dataVars
<1>0. /\ ConsoleTypeOK /\ Numbered /\ ServerInv
      /\ sent \in Nat /\ sent' \in Nat
  BY <1>1 DEF ConsoleInv, ConsoleTypeOK
<1>2. /\ \A d \in calls \cup waiting : d.n \in 1 .. sent /\ d.n # c.n
      /\ \A x \in answers : x.call.n \in 1 .. sent /\ x.call # c
      /\ c \notin calls \cup waiting
  <2>1. \A n \in 1 .. sent : n # sent + 1
    BY <1>0
  <2>. QED BY <1>0, <1>1, <2>1 DEF ConsoleTypeOK, Request
<1>3. /\ last'[w].n = sent + 1 /\ last'[w].about = about
      /\ \A v \in Components : v # w => last'[v] = last[v]
      /\ last' = [v \in Components |-> last'[v]]
  BY <1>0, <1>1 DEF ConsoleTypeOK
<1>4. ConsoleTypeOK'
  <2>1. \A n \in 1 .. sent : n \in 1 .. sent + 1
    BY <1>0
  <2>2. \A d : Request(d) => Request(d)'
    BY <1>1, <2>1 DEF Request
  <2>3. Request(c)'
    BY <1>0, <1>1 DEF Request
  <2>4. \A v \in Components : last'[v].n \in Nat
    BY <1>0, <1>3 DEF ConsoleTypeOK
  <2>. QED BY <1>0, <1>1, <1>3, <2>2, <2>3, <2>4 DEF ConsoleTypeOK
<1>5. newest[w] < sent + 1
  <2>1. newest[w] \in Nat /\ last[w].n \in Nat /\ newest[w] <= last[w].n /\ last[w].n <= sent
    BY <1>0 DEF ConsoleTypeOK, Numbered
  <2>. QED BY <1>0, <2>1
<1>6. Numbered'
  <2>1. \A d, e \in calls' \cup waiting' : d.n = e.n => d = e
    BY <1>0, <1>1, <1>2 DEF Numbered
  <2>2. ASSUME NEW d \in waiting' PROVE d.n <= last'[d.by].n
    <3>1. CASE d = c
      BY <1>0, <1>1, <1>3, <3>1
    <3>2. CASE d # c
      <4>1. d \in waiting /\ d.by \in Components /\ d.n \in 1 .. sent /\ d.n <= last[d.by].n
        BY <1>0, <1>1, <3>2 DEF ConsoleTypeOK, Request, Numbered
      <4>. QED BY <1>0, <1>3, <4>1
    <3>. QED BY <3>1, <3>2
  <2>3. ASSUME NEW v \in Components
        PROVE  last'[v].n <= sent' /\ shown'[v] <= newest'[v] /\ newest'[v] <= last'[v].n
    <3>1. newest[v] \in Nat /\ last[v].n \in Nat /\ newest[v] <= last[v].n /\ last[v].n <= sent
      BY <1>0 DEF ConsoleTypeOK, Numbered
    <3>. QED BY <1>0, <1>1, <1>3, <1>5, <3>1
  <2>. QED BY <2>1, <2>2, <2>3 DEF Numbered
<1>7. ServerInv'
  <2>1. OneAnswer' /\ CallsAreAwaited'
    BY <1>0, <1>1, <1>2 DEF ServerInv, OneAnswer, CallsAreAwaited
  <2>2. OkIsDecided' /\ QueuesListWhatPends' /\ MemoryAnswers'
    BY <1>0, <1>1 DEF ServerInv, OkIsDecided, QueuesListWhatPends, MemoryAnswers
  <2>3. EmptiedListIsExplained'
    BY <1>0, <1>1 DEF ServerInv, EmptiedListIsExplained, Awaited
  <2>4. DeciderIsHeard'
    <3>1. \A d, t, a : d \in waiting /\ Decider(d, t, a) => Decider(d, t, a)'
      BY <1>1, <1>2 DEF Decider
    <3>2. \A t, a : NotToldWell(t, a)' <=> NotToldWell(t, a)
      BY <1>1 DEF NotToldWell
    <3>. QED BY <1>0, <1>1, <3>1, <3>2 DEF ServerInv, DeciderIsHeard
  <2>. QED BY <2>1, <2>2, <2>3, <2>4 DEF ServerInv
<1>. QED BY <1>1, <1>2, <1>3, <1>4, <1>5, <1>6, <1>7

\* A component that is free waits for nothing.
LEMMA FreeWaitsForNothing ==
  ASSUME ConsoleInv, NEW w \in Runners \cup {"memory"}, busy[w] = NoCall
  PROVE  \A c \in waiting : c.by # w
BY DEF ConsoleInv, PageInv, OneEach

LEMMA RunnerAsks ==
  ASSUME ConsoleInv, NEW w \in Runners, NEW about, about # NoCall, busy[w] = NoCall,
         busy' = [busy EXCEPT ![w] = about], Send(w, about),
         shown' = [shown EXCEPT ![w] = 0] \/ UNCHANGED shown,
         UNCHANGED <<draft, timer, queue, list, clicked>>
  PROVE  ConsoleInv'
<1>0. /\ w \in Components /\ w \notin Tabs /\ w # "memory" /\ w # "pricing"
      /\ ConsoleTypeOK /\ Numbered /\ PageInv /\ page' = page /\ cutOffs' = cutOffs
  BY ComponentsAreDistinct DEF ConsoleInv, Send
<1>1. /\ busy' = [v \in Components |-> busy'[v]]
      /\ \A v \in Components : v # w => busy'[v] = busy[v]
      /\ busy'[w] = about
      /\ shown' \in [Components -> Nat] /\ \A v \in Components : shown'[v] <= newest[v]
      /\ \A v \in Components : v # w => shown'[v] = shown[v]
  <2>1. \A v \in Components : newest[v] \in Nat /\ shown[v] \in Nat /\ shown[v] <= newest[v]
    BY <1>0 DEF ConsoleTypeOK, Numbered
  <2>2. /\ busy' = [v \in Components |-> busy'[v]]
        /\ \A v \in Components : v # w => busy'[v] = busy[v]
        /\ busy'[w] = about
    BY <1>0 DEF ConsoleTypeOK
  <2>3. /\ shown' \in [Components -> Nat]
        /\ \A v \in Components : v # w => shown'[v] = shown[v]
        /\ shown'[w] = 0 \/ shown'[w] = shown[w]
    BY <1>0 DEF ConsoleTypeOK
  <2>4. \A v \in Components : shown'[v] <= newest[v]
    BY <2>1, <2>3
  <2>. QED BY <2>2, <2>3, <2>4
<1>2. /\ ConsoleTypeOK' /\ Numbered' /\ ServerInv'
      /\ last'[w].n = sent'
      /\ \A v \in Components : v # w => last'[v] = last[v]
      /\ UNCHANGED newest /\ newest[w] < sent'
      /\ \E c \in waiting' :
           /\ c.n = sent' /\ c.by = w
           /\ c \notin waiting /\ waiting' = waiting \cup {c}
  BY <1>0, <1>1, SendKeeps DEF ConsoleTypeOK
<1>3. PICK c : c.n = sent' /\ c.by = w /\ waiting' = waiting \cup {c}
  BY <1>2
<1>4. /\ \A d \in waiting : d.by # w /\ d.by \in Components
      /\ \A v \in Components : v # w => Awaited(v)' = Awaited(v)
      /\ Awaited(w)' # {}
  BY <1>0, <1>3, FreeWaitsForNothing DEF Awaited, ConsoleTypeOK, Request
<1>5. PageInv'
  <2>1. OneEach'
    BY <1>0, <1>1, <1>2, <1>3, <1>4 DEF PageInv, OneEach
  <2>2. RunnersShowTheLast'
    BY <1>0, <1>1, <1>2, <1>4, ComponentsAreDistinct DEF PageInv, RunnersShowTheLast
  <2>3. DraftIsAsked'
    BY <1>0, <1>2, ComponentsAreDistinct DEF PageInv, DraftIsAsked
  <2>4. TabsAskOnce'
    BY <1>0, <1>1, <1>3, <1>4 DEF PageInv, TabsAskOnce, OneOnly
  <2>5. BusyAwaits'
    BY <1>0, <1>1, <1>4, ComponentsAreDistinct DEF PageInv, BusyAwaits
  <2>. QED BY <2>1, <2>2, <2>3, <2>4, <2>5 DEF PageInv
<1>. QED BY <1>2, <1>5 DEF ConsoleInv

LEMMA ResolveKeeps ==
  ASSUME ConsoleInv, NEW t \in Tabs, NEW a \in Approvals, NEW decision, Resolve(t, a, decision)
  PROVE  ConsoleInv'
<1>. PICK about : about = [approval |-> a, decision |-> decision]
  OBVIOUS
<1>0. /\ t \in Components /\ t \notin Runners /\ t # "memory" /\ t # "pricing" /\ about.approval = a
      /\ busy[t] # a /\ busy' = [busy EXCEPT ![t] = a]
      /\ clicked' = [clicked EXCEPT ![t] = @ \cup {a}]
      /\ Send(t, about)
      /\ UNCHANGED <<page, cutOffs, shown, draft, timer, queue, list>>
      /\ ConsoleTypeOK /\ Numbered /\ PageInv
  BY ComponentsAreDistinct DEF ConsoleInv, Send, Resolve
<1>1. /\ busy' = [v \in Components |-> busy'[v]]
      /\ \A v \in Components : v # t => busy'[v] = busy[v]
      /\ busy'[t] = a
      /\ shown' \in [Components -> Nat] /\ \A v \in Components : shown'[v] <= newest[v]
      /\ clicked' \in [Tabs -> SUBSET Approvals]
      /\ \A u \in Tabs : u # t => clicked'[u] = clicked[u]
      /\ clicked'[t] = clicked[t] \cup {a}
  BY <1>0 DEF ConsoleTypeOK, Numbered
<1>2. \A u \in Tabs : IsFiniteSet(clicked'[u])
  BY <1>0, <1>1, FS_AddElement DEF ConsoleTypeOK
<1>3. /\ ConsoleTypeOK' /\ Numbered' /\ ServerInv'
      /\ \A v \in Components : v # t => last'[v] = last[v]
      /\ UNCHANGED newest
      /\ \E c \in waiting' :
           /\ c.n = sent' /\ c.by = t /\ c.about = about
           /\ c \notin waiting /\ waiting' = waiting \cup {c}
  <2>1. /\ t \in Components /\ Send(t, about)
        /\ t \in Tabs => about.approval \in Approvals
        /\ t = "memory" => about = "all"
        /\ UNCHANGED <<queue, list>>
    BY <1>0
  <2>. QED BY <1>1, <1>2, <2>1, SendKeeps
<1>4. PICK c : c.by = t /\ c.about = about /\ waiting' = waiting \cup {c}
  BY <1>3
<1>5. /\ \A d \in waiting : d.by \in Components
      /\ \A v \in Components : v # t => Awaited(v)' = Awaited(v)
      /\ Awaited(t)' # {}
  BY <1>0, <1>4 DEF Awaited, ConsoleTypeOK, Request
<1>6. PageInv'
  <2>1. OneEach'
    BY <1>0, <1>1, <1>3, <1>4, <1>5 DEF PageInv, OneEach
  <2>2. RunnersShowTheLast'
    BY <1>0, <1>3, <1>5, ComponentsAreDistinct DEF PageInv, RunnersShowTheLast
  <2>3. DraftIsAsked'
    BY <1>0, <1>3, ComponentsAreDistinct DEF PageInv, DraftIsAsked
  <2>4. TabsAskOnce'
    <3>1. ASSUME NEW d \in waiting', d.by \in Tabs PROVE d.about.approval \in clicked'[d.by]
      BY <1>0, <1>1, <1>4, <3>1 DEF PageInv, TabsAskOnce
    <3>2. ASSUME NEW d \in waiting', d.by \in Tabs, OneOnly(d.by)'
          PROVE  /\ busy'[d.by] = d.about.approval
                 /\ \A e \in waiting' : e.by = d.by => e = d
      <4>1. CASE d.by # t
        <5>1. d \in waiting /\ clicked'[d.by] = clicked[d.by] /\ OneOnly(d.by) /\ d.by \in Components
          BY <1>0, <1>1, <1>4, <1>5, <3>2, <4>1 DEF OneOnly
        <5>. QED BY <1>0, <1>1, <1>4, <3>2, <4>1, <5>1 DEF PageInv, TabsAskOnce
      <4>2. CASE d.by = t
        <5>1. clicked[t] \subseteq {a} /\ OneOnly(t)
          BY <1>1, <3>2, <4>2 DEF OneOnly
        <5>2. \A e \in waiting : e.by # t
          BY <1>0, <5>1 DEF PageInv, TabsAskOnce
        <5>. QED BY <1>0, <1>1, <1>4, <3>2, <4>2, <5>2
      <4>. QED BY <4>1, <4>2
    <3>. QED BY <3>1, <3>2 DEF TabsAskOnce
  <2>5. BusyAwaits'
    BY <1>0, <1>1, <1>5, ComponentsAreDistinct DEF PageInv, BusyAwaits
  <2>. QED BY <2>1, <2>2, <2>3, <2>4, <2>5 DEF PageInv
<1>. QED BY <1>3, <1>6 DEF ConsoleInv

LEMMA ClearKeeps ==
  ASSUME ConsoleInv, Clear
  PROVE  ConsoleInv'
<1>0. /\ "memory" \in Components /\ "memory" \notin Tabs /\ "memory" \notin Runners
      /\ busy["memory"] = NoCall /\ busy' = [busy EXCEPT !["memory"] = "all"]
      /\ Send("memory", "all") /\ "all" # NoCall
      /\ UNCHANGED <<page, cutOffs, shown, draft, timer, queue, list, clicked>>
      /\ ConsoleTypeOK /\ Numbered /\ PageInv
  BY ComponentsAreDistinct, ConsoleAssumption DEF ConsoleAssumption, ConsoleInv, Send, Clear
<1>1. /\ busy' = [v \in Components |-> busy'[v]]
      /\ \A v \in Components : v # "memory" => busy'[v] = busy[v]
      /\ busy'["memory"] # NoCall
      /\ shown' \in [Components -> Nat] /\ \A v \in Components : shown'[v] <= newest[v]
  BY <1>0 DEF ConsoleTypeOK, Numbered
<1>2. /\ ConsoleTypeOK' /\ Numbered' /\ ServerInv'
      /\ last'["memory"].n = sent'
      /\ \A v \in Components : v # "memory" => last'[v] = last[v]
      /\ UNCHANGED newest
      /\ \E c \in waiting' :
           /\ c.n = sent' /\ c.by = "memory"
           /\ c \notin waiting /\ waiting' = waiting \cup {c}
  BY <1>0, <1>1, SendKeeps DEF ConsoleTypeOK
<1>3. PICK c : c.n = sent' /\ c.by = "memory" /\ waiting' = waiting \cup {c}
  BY <1>2
<1>4. /\ \A d \in waiting : d.by # "memory" /\ d.by \in Components
      /\ \A v \in Components : v # "memory" => Awaited(v)' = Awaited(v)
      /\ Awaited("memory")' # {}
  BY <1>0, <1>3, FreeWaitsForNothing DEF Awaited, ConsoleTypeOK, Request
<1>5. PageInv'
  <2>1. OneEach'
    BY <1>0, <1>1, <1>2, <1>3, <1>4 DEF PageInv, OneEach
  <2>2. RunnersShowTheLast'
    BY <1>0, <1>2, <1>4, ComponentsAreDistinct DEF PageInv, RunnersShowTheLast
  <2>3. DraftIsAsked'
    BY <1>0, <1>2, ComponentsAreDistinct DEF PageInv, DraftIsAsked
  <2>4. TabsAskOnce'
    BY <1>0, <1>1, <1>3, <1>4 DEF PageInv, TabsAskOnce, OneOnly
  <2>5. BusyAwaits'
    BY <1>0, <1>1, <1>4, ComponentsAreDistinct DEF PageInv, BusyAwaits
  <2>. QED BY <2>1, <2>2, <2>3, <2>4, <2>5 DEF PageInv
<1>. QED BY <1>2, <1>5 DEF ConsoleInv

LEMMA ProjectKeeps ==
  ASSUME ConsoleInv, Project
  PROVE  ConsoleInv'
<1>0. /\ "pricing" \in Components /\ "pricing" \notin Tabs /\ "pricing" \notin Runners
      /\ Send("pricing", draft)
      /\ UNCHANGED <<page, cutOffs, busy, shown, draft, queue, list, clicked>>
      /\ ConsoleTypeOK /\ Numbered /\ PageInv
  BY ComponentsAreDistinct DEF ConsoleInv, Send, Project
<1>1. /\ ConsoleTypeOK' /\ Numbered' /\ ServerInv'
      /\ last'["pricing"].about = draft
      /\ \A v \in Components : v # "pricing" => last'[v] = last[v]
      /\ UNCHANGED newest
      /\ \E c \in waiting' :
           /\ c.n = sent' /\ c.by = "pricing" /\ c.about = draft
           /\ c \notin waiting /\ waiting' = waiting \cup {c}
  BY <1>0, SendKeeps DEF ConsoleTypeOK, Numbered
<1>2. PICK c : c.by = "pricing" /\ waiting' = waiting \cup {c}
  BY <1>1
<1>3. /\ \A d \in waiting : d.by \in Components
      /\ \A v \in Components : v # "pricing" => Awaited(v)' = Awaited(v)
  BY <1>0, <1>2 DEF Awaited, ConsoleTypeOK, Request
<1>4. PageInv'
  <2>1. OneEach'
    BY <1>0, <1>1, <1>2, <1>3 DEF PageInv, OneEach
  <2>2. RunnersShowTheLast'
    BY <1>0, <1>1, <1>3, ComponentsAreDistinct DEF PageInv, RunnersShowTheLast
  <2>3. DraftIsAsked'
    BY <1>0, <1>1 DEF DraftIsAsked
  <2>4. TabsAskOnce'
    BY <1>0, <1>2, <1>3 DEF PageInv, TabsAskOnce, OneOnly
  <2>5. BusyAwaits'
    BY <1>0, <1>3, ComponentsAreDistinct DEF PageInv, BusyAwaits
  <2>. QED BY <2>1, <2>2, <2>3, <2>4, <2>5 DEF PageInv
<1>. QED BY <1>1, <1>4 DEF ConsoleInv

-----------------------------------------------------------------------------
(* A request that is answered.                                             *)

\* What a handler does to the tables: the first decision about an approval is
\* recorded with the tab it comes from, and the memory is emptied as a whole.
Recorded(c, how) ==
  /\ status' = [a \in Approvals |-> status'[a]]
  /\ \A a \in Approvals : status'[a] = status[a]
       \/ /\ status'[a].is # "PENDING" /\ status'[a].by = c.by
          /\ c.by \in Tabs /\ c.about.approval = a /\ how # "refused"
  /\ c.by \in Tabs /\ how = "ok" => status'[c.about.approval].is # "PENDING"
  /\ IF c.by = "memory" THEN (records' = {} /\ how = "ok") \/ (UNCHANGED records /\ how = "error")
     ELSE UNCHANGED records

LEMMA AnswerKeeps ==
  ASSUME ConsoleInv, NEW c \in calls, NEW how \in {"ok", "refused", "error"},
         Answer(c, how), Recorded(c, how)
  PROVE  ConsoleInv'
<1>0. /\ ConsoleTypeOK /\ Numbered /\ ServerInv /\ PageInv
      /\ calls' = calls \ {c}
      /\ answers' = answers \cup {[call |-> c, how |-> how]}
      /\ UNCHANGED <<page, sent, waiting, busy, shown, newest, last, draft, timer, queue, list,
                     unheard, clicked, cutOffs>>
      /\ Request(c)
  BY DEF ConsoleInv, Answer, pageVars, ConsoleTypeOK
<1>1. PICK x : /\ x = [call |-> c, how |-> how] /\ x.call = c /\ x.how = how
               /\ answers' = answers \cup {x}
  BY <1>0
<1>2. ConsoleTypeOK'
  <2>1. \A d : Request(d)' <=> Request(d)
    BY <1>0 DEF Request
  <2>2. \A y \in answers' : Request(y.call)' /\ y.how \in {"ok", "refused", "error"}
    BY <1>0, <1>1, <2>1 DEF ConsoleTypeOK
  <2>3. \A d \in calls' \cup waiting' : Request(d)'
    BY <1>0, <2>1 DEF ConsoleTypeOK
  <2>. QED BY <1>0, <2>2, <2>3 DEF ConsoleTypeOK, Recorded
<1>3. Numbered'
  BY <1>0 DEF Numbered
<1>4. PageInv'
  BY <1>0 DEF PageInv, OneEach, RunnersShowTheLast, DraftIsAsked, TabsAskOnce, BusyAwaits, Awaited,
              OneOnly
<1>5. \A a \in Approvals : status[a].is # "PENDING" => status'[a].is # "PENDING"
  BY DEF Recorded
<1>6. ServerInv'
  <2>1. OneAnswer' /\ CallsAreAwaited'
    BY <1>0, <1>1 DEF ServerInv, OneAnswer, CallsAreAwaited
  <2>2. OkIsDecided'
    <3>1. ASSUME NEW y \in answers, y.call.by \in Tabs, y.how = "ok"
          PROVE  status'[y.call.about.approval].is # "PENDING"
      BY <1>0, <1>5, <3>1 DEF ServerInv, OkIsDecided, ConsoleTypeOK, Request
    <3>. QED BY <1>1, <3>1 DEF OkIsDecided, Recorded
  <2>3. QueuesListWhatPends'
    BY <1>0, <1>5 DEF ServerInv, QueuesListWhatPends
  <2>4. MemoryAnswers'
    BY <1>0, <1>1 DEF ServerInv, MemoryAnswers, Recorded
  <2>5. EmptiedListIsExplained'
    <3>1. CASE UNCHANGED records
      BY <1>0, <3>1 DEF ServerInv, EmptiedListIsExplained, Awaited
    <3>2. CASE c.by = "memory" /\ records' = {}
      BY <1>0, <3>2 DEF ServerInv, EmptiedListIsExplained, Awaited, CallsAreAwaited, Request
    <3>. QED BY <3>1, <3>2 DEF Recorded
  <2>6. DeciderIsHeard'
    <3>. SUFFICES ASSUME NEW t \in Tabs, NEW a \in Approvals, a \in queue[t], status'[a].by = t
                  PROVE  (\E d \in waiting : Decider(d, t, a)') \/ NotToldWell(t, a)'
      BY <1>0 DEF DeciderIsHeard
    <3>0. NotToldWell(t, a)' <=> NotToldWell(t, a)
      BY <1>0 DEF NotToldWell
    <3>1. CASE status'[a] = status[a]
      <4>1. \A d : Decider(d, t, a) => Decider(d, t, a)'
        BY <1>0, <1>1 DEF Decider
      <4>. QED BY <1>0, <3>0, <3>1, <4>1 DEF ServerInv, DeciderIsHeard
    <3>2. CASE status'[a].by = c.by /\ c.about.approval = a /\ how # "refused"
      <4>1. CASE c \in waiting
        <5>1. \A y \in answers' : y.call = c => y.how # "refused"
          BY <1>0, <1>1, <3>2 DEF ServerInv, OneAnswer
        <5>2. Decider(c, t, a)'
          BY <1>0, <3>2, <4>1, <5>1 DEF Decider
        <5>. QED BY <4>1, <5>2
      <4>2. CASE c \notin waiting
        <5>1. <<c.by, c.about>> \in unheard
          BY <1>0, <4>2 DEF ServerInv, CallsAreAwaited
        <5>2. <<c.by, c.about>>[1] = t /\ <<c.by, c.about>>[2].approval = a
          BY <3>2
        <5>. QED BY <3>0, <5>1, <5>2 DEF NotToldWell
      <4>. QED BY <4>1, <4>2
    <3>. QED BY <3>1, <3>2 DEF Recorded
  <2>. QED BY <2>1, <2>2, <2>3, <2>4, <2>5, <2>6 DEF ServerInv
<1>. QED BY <1>2, <1>3, <1>4, <1>6 DEF ConsoleInv

LEMMA RouteRecords ==
  ASSUME ConsoleTypeOK, NEW c \in calls, UNCHANGED dataVars, NEW how, c.by \notin Tabs, c.by # "memory"
  PROVE  Recorded(c, how)
BY DEF ConsoleTypeOK, dataVars, Recorded

LEMMA ThrowRecords ==
  ASSUME ConsoleTypeOK, NEW c \in calls, UNCHANGED dataVars
  PROVE  Recorded(c, "error")
BY DEF ConsoleTypeOK, dataVars, Recorded

LEMMA HandlersKeep ==
  ASSUME ConsoleInv, NEW c \in calls,
         \/ AskRoute(c) \/ SimulateRoute(c) \/ StartRoute(c) \/ GoalsRoute(c)
         \/ AgentRoute(c) \/ RecommendRoute(c) \/ PricingRoute(c)
         \/ ApproveRoute(c) \/ RejectRoute(c) \/ ClearRoute(c) \/ Handle(c)
  PROVE  ConsoleInv'
<1>0. ConsoleTypeOK /\ Request(c)
  BY DEF ConsoleInv, ConsoleTypeOK
<1>1. ASSUME NEW w \in Runners, NEW invalid, RouteAnswers(c, w, invalid) PROVE ConsoleInv'
  <2>1. c.by \notin Tabs /\ c.by # "memory" /\ UNCHANGED dataVars
    BY <1>1, ComponentsAreDistinct DEF RouteAnswers
  <2>2. PICK how \in {"ok", "refused", "error"} : Answer(c, how)
    BY <1>1 DEF RouteAnswers
  <2>. QED BY <1>0, <2>1, <2>2, RouteRecords, AnswerKeeps
<1>2. CASE PricingRoute(c)
  <2>1. c.by \notin Tabs /\ c.by # "memory" /\ UNCHANGED dataVars
    BY <1>2, ComponentsAreDistinct DEF PricingRoute
  <2>2. PICK how \in {"ok", "refused", "error"} : Answer(c, how)
    BY <1>2 DEF PricingRoute
  <2>. QED BY <1>0, <2>1, <2>2, RouteRecords, AnswerKeeps
<1>3. ASSUME NEW decision, NEW outcome \in {"APPROVED", "REJECTED"}, DecideRoute(c, decision, outcome)
      PROVE  ConsoleInv'
  <2>1. /\ c.by \in Tabs /\ c.by # "memory" /\ c.about.approval \in Approvals /\ records' = records
        /\ outcome # "PENDING"
    BY <1>0, <1>3, ComponentsAreDistinct DEF DecideRoute, Request
  <2>2. CASE status[c.about.approval].is = "PENDING"
    <3>1. status' = [status EXCEPT ![c.about.approval] = [is |-> outcome, by |-> c.by]]
      BY <1>3, <2>2 DEF DecideRoute
    <3>2. PICK how \in {"ok", "error"} : Answer(c, how)
      BY <1>3, <2>2 DEF DecideRoute
    <3>3. /\ status' = [a \in Approvals |-> status'[a]]
          /\ status'[c.about.approval].is = outcome /\ status'[c.about.approval].by = c.by
          /\ \A a \in Approvals : a # c.about.approval => status'[a] = status[a]
      BY <1>0, <2>1, <3>1 DEF ConsoleTypeOK
    <3>4. Recorded(c, how)
      BY <2>1, <3>3 DEF Recorded
    <3>. QED BY <3>2, <3>4, AnswerKeeps
  <2>3. CASE status[c.about.approval].is # "PENDING"
    <3>1. Answer(c, "refused") /\ UNCHANGED status
      BY <1>3, <2>3 DEF DecideRoute
    <3>2. Recorded(c, "refused")
      BY <1>0, <2>1, <2>3, <3>1 DEF Recorded, ConsoleTypeOK
    <3>. QED BY <3>1, <3>2, AnswerKeeps
  <2>. QED BY <2>2, <2>3
<1>4. CASE ClearRoute(c)
  <2>1. c.by \notin Tabs /\ c.by = "memory" /\ records' = {} /\ Answer(c, "ok") /\ UNCHANGED status
    BY <1>4, ComponentsAreDistinct DEF ClearRoute
  <2>2. Recorded(c, "ok")
    BY <1>0, <2>1 DEF Recorded, ConsoleTypeOK
  <2>. QED BY <2>1, <2>2, AnswerKeeps
<1>5. CASE Handle(c)
  BY <1>0, <1>5, ThrowRecords, AnswerKeeps DEF Handle
<1>. QED
  BY <1>1, <1>2, <1>3, <1>4, <1>5
     DEF AskRoute, SimulateRoute, StartRoute, GoalsRoute, AgentRoute, RecommendRoute, Runners,
         ApproveRoute, RejectRoute

-----------------------------------------------------------------------------
(* A component that hears of its request.                                  *)

\* What is told is an answer that was given, or that the request was cut off.
Told(c, how) ==
  \/ how = "cut" /\ cutOffs' = cutOffs + 1
  \/ /\ \E x \in answers : x.call = c /\ x.how = how
     /\ UNCHANGED cutOffs

LEMMA SettleTypes ==
  ASSUME ConsoleInv, NEW c \in waiting, NEW how, Settle(c, how), Told(c, how)
  PROVE  /\ ConsoleTypeOK' /\ Numbered'
         /\ waiting' = waiting \ {c} /\ answers' = {x \in answers : x.call # c}
         /\ unheard \subseteq unheard'
         /\ how \in {"error", "cut"} => <<c.by, c.about>> \in unheard'
         /\ UNCHANGED <<page, calls, last, draft, timer, status, records, clicked>>
         /\ c.by \in Components /\ how \in {"ok", "refused", "error", "cut"}
         /\ \A w \in Components : w # c.by =>
              busy'[w] = busy[w] /\ shown'[w] = shown[w] /\ newest'[w] = newest[w]
         /\ \/ busy'[c.by] = NoCall
            \/ busy'[c.by] = busy[c.by] /\ (c.by = "pricing" \/ (c.by = "memory" /\ how = "cut"))
         /\ cutOffs \in Nat /\ cutOffs' \in Nat /\ cutOffs <= cutOffs' /\ (how = "cut" => cutOffs' > 0)
<1>0. /\ ConsoleTypeOK /\ Numbered /\ Heard(c, how)
      /\ c.by \in Components /\ c.n \in Nat /\ c.n <= last[c.by].n
  BY DEF ConsoleInv, ConsoleTypeOK, Request, Settle, Numbered
<1>1. /\ waiting' = waiting \ {c} /\ answers' = {x \in answers : x.call # c}
      /\ unheard' = IF how \in {"error", "cut"} THEN unheard \cup {<<c.by, c.about>>} ELSE unheard
      /\ UNCHANGED <<page, sent, calls, last, draft, timer, status, records, clicked>>
  BY <1>0 DEF Heard, dataVars
<1>2. /\ how \in {"ok", "refused", "error", "cut"}
      /\ cutOffs \in Nat /\ cutOffs' \in Nat /\ cutOffs <= cutOffs' /\ (how = "cut" => cutOffs' > 0)
  <2>1. cutOffs \in Nat
    BY <1>0 DEF ConsoleTypeOK
  <2>2. how = "cut" => cutOffs' = cutOffs + 1
    BY <1>0 DEF Told, ConsoleTypeOK
  <2>3. how # "cut" => cutOffs' = cutOffs /\ how \in {"ok", "refused", "error"}
    BY <1>0 DEF Told, ConsoleTypeOK
  <2>. QED BY <2>1, <2>2, <2>3, <1>0 DEF Told, ConsoleTypeOK
<1>3. /\ busy' = [w \in Components |-> busy'[w]]
      /\ \A w \in Components : w # c.by => busy'[w] = busy[w]
      /\ \/ busy'[c.by] = NoCall
         \/ busy'[c.by] = busy[c.by] /\ (c.by = "pricing" \/ (c.by = "memory" /\ how = "cut"))
  <2>1. \/ busy' = [busy EXCEPT ![c.by] = NoCall]
        \/ UNCHANGED busy /\ (c.by = "pricing" \/ (c.by = "memory" /\ how = "cut"))
    BY DEF Settle, Report, Recommend, Projected, Resolved, Cleared, Free
  <2>. QED BY <1>0, <2>1 DEF ConsoleTypeOK
<1>4. UNCHANGED <<shown, newest>> \/ Show(c)
  BY DEF Settle, Report, Recommend, Projected
<1>5. /\ shown' \in [Components -> Nat] /\ newest' \in [Components -> Nat]
      /\ \A w \in Components : w # c.by => shown'[w] = shown[w] /\ newest'[w] = newest[w]
      /\ \A w \in Components : shown'[w] <= newest'[w] /\ newest'[w] <= last[w].n
  <2>1. CASE UNCHANGED <<shown, newest>>
    BY <1>0, <2>1 DEF ConsoleTypeOK, Numbered
  <2>2. CASE Show(c)
    <3>1. /\ \A w \in Components : shown[w] \in Nat /\ newest[w] \in Nat /\ last[w].n \in Nat
          /\ \A w \in Components : shown[w] <= newest[w] /\ newest[w] <= last[w].n
      BY <1>0 DEF ConsoleTypeOK, Numbered
    <3>2. /\ shown' \in [Components -> Nat] /\ newest' \in [Components -> Nat]
          /\ shown'[c.by] = c.n /\ newest'[c.by] = IF c.n > newest[c.by] THEN c.n ELSE newest[c.by]
          /\ \A w \in Components : w # c.by => shown'[w] = shown[w] /\ newest'[w] = newest[w]
      <4>1. (IF c.n > newest[c.by] THEN c.n ELSE newest[c.by]) \in Nat
        BY <1>0, <3>1
      <4>. QED BY <1>0, <2>2, <4>1 DEF ConsoleTypeOK, Show
    <3>3. shown'[c.by] <= newest'[c.by] /\ newest'[c.by] <= last[c.by].n
      BY <1>0, <3>1, <3>2
    <3>4. \A w \in Components : shown'[w] <= newest'[w] /\ newest'[w] <= last[w].n
      BY <3>1, <3>2, <3>3
    <3>. QED BY <3>2, <3>4
  <2>. QED BY <1>4, <2>1, <2>2
<1>6. queue' \in [Tabs -> SUBSET Approvals]
  <2>1. UNCHANGED queue \/ (c.by \in Tabs /\ queue' = [queue EXCEPT ![c.by] = @ \ {c.about.approval}])
    BY DEF Settle, Resolved, Cleared
  <2>. QED BY <1>0, <2>1 DEF ConsoleTypeOK
<1>7. ConsoleTypeOK'
  <2>1. \A d : Request(d)' <=> Request(d)
    BY <1>1 DEF Request
  <2>. QED BY <1>0, <1>1, <1>2, <1>3, <1>5, <1>6, <2>1 DEF ConsoleTypeOK
<1>8. Numbered'
  <2>1. /\ \A d, e \in calls' \cup waiting' : d.n = e.n => d = e
        /\ \A d \in waiting' : d.n <= last'[d.by].n
        /\ \A w \in Components : last'[w].n <= sent'
    BY <1>0, <1>1 DEF Numbered
  <2>. QED BY <1>1, <1>5, <2>1 DEF Numbered
<1>. QED BY <1>0, <1>1, <1>2, <1>3, <1>5, <1>7, <1>8

\* The requests that are told apart from the one that was told.
LEMMA SettlePage ==
  ASSUME ConsoleInv, NEW c \in waiting, NEW how, Settle(c, how), Told(c, how)
  PROVE  PageInv'
<1>0. /\ PageInv /\ Numbered /\ Numbered' /\ ConsoleTypeOK
      /\ waiting' = waiting \ {c}
      /\ UNCHANGED <<page, calls, last, draft, timer, clicked>>
      /\ c.by \in Components
      /\ \A w \in Components : w # c.by =>
           busy'[w] = busy[w] /\ shown'[w] = shown[w] /\ newest'[w] = newest[w]
      /\ \/ busy'[c.by] = NoCall
         \/ busy'[c.by] = busy[c.by] /\ (c.by = "pricing" \/ (c.by = "memory" /\ how = "cut"))
      /\ cutOffs \in Nat /\ cutOffs' \in Nat /\ cutOffs <= cutOffs' /\ (how = "cut" => cutOffs' > 0)
  BY SettleTypes DEF ConsoleInv
<1>1. \A d \in waiting : d.by \in Components
  BY <1>0 DEF ConsoleTypeOK, Request
<1>2. \A w \in Components : w # c.by => Awaited(w)' = Awaited(w)
  BY <1>0 DEF Awaited
<1>3. c.by \in Runners \cup {"memory"} => \A d \in waiting' : d.by # c.by
  BY <1>0 DEF PageInv, OneEach, Numbered
<1>4. OneEach'
  BY <1>0, <1>1, <1>3 DEF PageInv, OneEach
<1>5. RunnersShowTheLast'
  <2>. SUFFICES ASSUME NEW w \in Runners
                PROVE  IF Awaited(w)' = {}
                       THEN shown'[w] = last[w].n \/ (w = "shop" /\ newest'[w] < last[w].n)
                       ELSE newest'[w] < last[w].n
    BY <1>0 DEF RunnersShowTheLast
  <2>1. CASE w # c.by
    BY <1>0, <1>2, <2>1, ComponentsAreDistinct DEF PageInv, RunnersShowTheLast
  <2>2. CASE w = c.by
    <3>1. Awaited(w)' = {} /\ c.n = last[w].n
      BY <1>0, <1>3, <2>2 DEF PageInv, OneEach, Awaited
    <3>2. w \in Components /\ w \notin Tabs /\ w # "pricing" /\ w # "memory"
      BY ComponentsAreDistinct
    <3>3. \/ Show(c)
          \/ w = "shop" /\ UNCHANGED newest
      BY <2>2, <3>2 DEF Settle, Report, Recommend
    <3>4. newest[w] < last[w].n
      <4>1. Awaited(w) # {}
        BY <2>2 DEF Awaited
      <4>. QED BY <1>0, <4>1 DEF PageInv, RunnersShowTheLast
    <3>5. Show(c) => shown'[w] = c.n
      BY <1>0, <2>2, <3>2 DEF Show, ConsoleTypeOK
    <3>. QED BY <3>1, <3>3, <3>4, <3>5
  <2>. QED BY <2>1, <2>2
<1>6. DraftIsAsked'
  BY <1>0 DEF PageInv, DraftIsAsked
<1>7. TabsAskOnce'
  <2>1. ASSUME NEW d \in waiting', d.by \in Tabs
        PROVE  d.about.approval \in clicked'[d.by]
    BY <1>0, <2>1 DEF PageInv, TabsAskOnce
  <2>2. ASSUME NEW d \in waiting', d.by \in Tabs, OneOnly(d.by)'
        PROVE  /\ busy'[d.by] = d.about.approval
               /\ \A e \in waiting' : e.by = d.by => e = d
    <3>1. d \in waiting /\ d # c /\ OneOnly(d.by)
      BY <1>0, <2>2 DEF OneOnly
    <3>2. d.by # c.by
      BY <1>0, <2>2, <3>1 DEF PageInv, TabsAskOnce
    <3>. QED BY <1>0, <1>1, <2>2, <3>1, <3>2 DEF PageInv, TabsAskOnce
  <2>. QED BY <2>1, <2>2 DEF TabsAskOnce
<1>8. BusyAwaits'
  <2>1. busy'["pricing"] = NoCall
    BY <1>0, ComponentsAreDistinct DEF PageInv, BusyAwaits
  <2>2. ASSUME NEW w \in Components, busy'[w] # NoCall
        PROVE  Awaited(w)' # {} \/ (w = "memory" /\ cutOffs' > 0)
    <3>1. CASE w # c.by
      <4>1. cutOffs > 0 => cutOffs' > 0
        BY <1>0
      <4>. QED BY <1>0, <1>2, <2>2, <3>1, <4>1 DEF PageInv, BusyAwaits
    <3>2. CASE w = c.by
      BY <1>0, <2>1, <2>2, <3>2
    <3>. QED BY <3>1, <3>2
  <2>. QED BY <2>1, <2>2 DEF BusyAwaits
<1>. QED BY <1>4, <1>5, <1>6, <1>7, <1>8 DEF PageInv

LEMMA SettleServer ==
  ASSUME ConsoleInv, NEW c \in waiting, NEW how, Settle(c, how), Told(c, how)
  PROVE  ServerInv'
<1>0. /\ ServerInv /\ ConsoleTypeOK /\ Request(c)
      /\ waiting' = waiting \ {c} /\ answers' = {x \in answers : x.call # c}
      /\ unheard \subseteq unheard'
      /\ how \in {"error", "cut"} => <<c.by, c.about>> \in unheard'
      /\ UNCHANGED <<calls, status, records>>
      /\ how \in {"ok", "refused", "error", "cut"}
  BY SettleTypes DEF ConsoleInv, ConsoleTypeOK
<1>1. how # "cut" => \E x \in answers : x.call = c /\ x.how = how
  BY DEF Told
<1>2. IF c.by \in Tabs /\ how = "ok"
      THEN /\ queue'[c.by] = queue[c.by] \ {c.about.approval}
           /\ \A t \in Tabs : t # c.by => queue'[t] = queue[t]
      ELSE queue' = queue
  <2>1. /\ c.by \in Tabs /\ how = "ok" => queue' = [queue EXCEPT ![c.by] = @ \ {c.about.approval}]
        /\ ~(c.by \in Tabs /\ how = "ok") => queue' = queue
    BY ComponentsAreDistinct DEF Settle, Resolved, Runners
  <2>. QED BY <1>0, <2>1 DEF ConsoleTypeOK
<1>3. \/ UNCHANGED list /\ (c.by # "memory" \/ how = "cut")
      \/ c.by = "memory" /\ how # "cut" /\ list' = {}
  BY ComponentsAreDistinct DEF Settle, Cleared
<1>4. OneAnswer' /\ OkIsDecided' /\ MemoryAnswers'
  BY <1>0 DEF ServerInv, OneAnswer, OkIsDecided, MemoryAnswers
<1>5. CallsAreAwaited'
  <2>1. c \in calls => how = "cut"
    BY <1>0, <1>1 DEF ServerInv, OneAnswer
  <2>. QED BY <1>0, <2>1 DEF ServerInv, CallsAreAwaited
<1>6. QueuesListWhatPends'
  <2>. SUFFICES ASSUME NEW t \in Tabs, NEW a \in Approvals, a \notin queue'[t]
                PROVE  status[a].is # "PENDING"
    BY <1>0 DEF QueuesListWhatPends
  <2>1. CASE a \notin queue[t]
    BY <1>0, <2>1 DEF ServerInv, QueuesListWhatPends
  <2>2. CASE a \in queue[t]
    <3>1. t = c.by /\ a = c.about.approval /\ how = "ok"
      BY <1>2, <2>2
    <3>. QED BY <1>0, <1>1, <3>1 DEF ServerInv, OkIsDecided
  <2>. QED BY <2>1, <2>2
<1>7. EmptiedListIsExplained'
  <2>1. CASE c.by # "memory"
    <3>1. Awaited("memory")' = Awaited("memory") /\ UNCHANGED list
      BY <1>0, <1>3, <2>1 DEF Awaited
    <3>. QED BY <1>0, <3>1 DEF ServerInv, EmptiedListIsExplained
  <2>2. CASE c.by = "memory" /\ how = "cut"
    BY <1>0, <2>2 DEF Request, EmptiedListIsExplained
  <2>3. CASE c.by = "memory" /\ how # "cut"
    BY <1>0, <1>1, <1>3, <2>3 DEF Request, ServerInv, MemoryAnswers, EmptiedListIsExplained
  <2>. QED BY <2>1, <2>2, <2>3
<1>8. DeciderIsHeard'
  <2>. SUFFICES ASSUME NEW t \in Tabs, NEW a \in Approvals, a \in queue'[t], status[a].by = t
                PROVE  (\E d \in waiting' : Decider(d, t, a)') \/ NotToldWell(t, a)'
    BY <1>0 DEF DeciderIsHeard
  <2>1. a \in queue[t]
    BY <1>2
  <2>2. NotToldWell(t, a) => NotToldWell(t, a)'
    BY <1>0 DEF NotToldWell
  <2>3. ASSUME NEW d \in waiting, Decider(d, t, a), d # c
        PROVE  (\E e \in waiting' : Decider(e, t, a)')
    BY <1>0, <2>3 DEF Decider
  <2>4. ASSUME Decider(c, t, a)
        PROVE  NotToldWell(t, a)'
    <3>1. how \in {"error", "cut"}
      BY <1>0, <1>1, <1>2, <2>4 DEF Decider
    <3>2. <<c.by, c.about>>[1] = t /\ <<c.by, c.about>>[2].approval = a
      BY <2>4 DEF Decider
    <3>. QED BY <1>0, <3>1, <3>2 DEF NotToldWell
  <2>. QED BY <1>0, <2>1, <2>2, <2>3, <2>4 DEF ServerInv, DeciderIsHeard
<1>. QED BY <1>4, <1>5, <1>6, <1>7, <1>8 DEF ServerInv

LEMMA SettleKeeps ==
  ASSUME ConsoleInv, NEW c \in waiting, NEW how, Settle(c, how), Told(c, how)
  PROVE  ConsoleInv'
BY SettleTypes, SettlePage, SettleServer DEF ConsoleInv

-----------------------------------------------------------------------------
\* A step that only sets the draft, or only writes to the memory.
LEMMA OtherKeeps ==
  ASSUME ConsoleInv,
         UNCHANGED <<page, sent, calls, waiting, answers, busy, shown, newest, last, queue, list,
                     status, unheard, clicked, cutOffs>>,
         timer' \/ UNCHANGED <<draft, timer>>,
         records' = records \cup {"new"} \/ UNCHANGED records
  PROVE  ConsoleInv'
<1>0. ConsoleTypeOK /\ Numbered /\ ServerInv /\ PageInv
  BY DEF ConsoleInv
<1>1. ConsoleTypeOK'
  <2>1. \A d : Request(d)' <=> Request(d)
    BY DEF Request
  <2>. QED BY <1>0, <2>1 DEF ConsoleTypeOK
<1>2. Numbered'
  BY <1>0 DEF Numbered
<1>3. PageInv'
  BY <1>0 DEF PageInv, OneEach, RunnersShowTheLast, DraftIsAsked, TabsAskOnce, BusyAwaits, Awaited,
              OneOnly
<1>4. ServerInv'
  <2>1. /\ \A d, t, a : Decider(d, t, a)' <=> Decider(d, t, a)
        /\ \A t, a : NotToldWell(t, a)' <=> NotToldWell(t, a)
    BY DEF Decider, NotToldWell
  <2>2. "old" \in records' <=> "old" \in records
    OBVIOUS
  <2>3. OneAnswer' /\ CallsAreAwaited' /\ OkIsDecided' /\ QueuesListWhatPends' /\ DeciderIsHeard'
    BY <1>0, <2>1 DEF ServerInv, OneAnswer, CallsAreAwaited, OkIsDecided, QueuesListWhatPends,
                      DeciderIsHeard
  <2>4. MemoryAnswers' /\ EmptiedListIsExplained'
    BY <1>0, <2>2 DEF ServerInv, MemoryAnswers, EmptiedListIsExplained, Awaited
  <2>. QED BY <2>3, <2>4 DEF ServerInv
<1>. QED BY <1>1, <1>2, <1>3, <1>4 DEF ConsoleInv

LEMMA RunKeeps ==
  ASSUME ConsoleInv, NEW w \in Runners, NEW about, about # NoCall, Run(w, about)
  PROVE  ConsoleInv'
BY RunnerAsks DEF Run

LEMMA ConsoleKeeps == ConsoleInv /\ [ConsoleNext]_<<streamVars, consoleVars>> => ConsoleInv'
<1>. SUFFICES ASSUME ConsoleInv, [ConsoleNext]_<<streamVars, consoleVars>>
              PROVE  ConsoleInv'
  OBVIOUS
<1>0. \A x \in {"question", "hm", "stockout", "demand_spike", "reset", "goal", "short", "this",
                "query", "q"} : x # NoCall
  BY ConsoleAssumption DEF ConsoleAssumption
<1>1. CASE Ask \/ Fire \/ StartDemo \/ Submit \/ RunAgent
  <2>1. /\ {"ask", "scenario", "demo", "goal", "agent"} \subseteq Runners
        /\ Ask => \E x \in {"question", "hm"} : Run("ask", x)
        /\ Fire => \E x \in {"stockout", "demand_spike"} : Run("scenario", x)
        /\ StartDemo => Run("demo", "reset")
        /\ Submit => \E x \in {"goal", "short"} : Run("goal", x)
        /\ RunAgent => Run("agent", "this")
    BY DEF Ask, Fire, StartDemo, Submit, RunAgent, Runners
  <2>. QED BY <1>0, <1>1, <2>1, RunKeeps
<1>2. CASE Search
  <2>1. PICK x \in {"query", "q"} : busy' = [busy EXCEPT !["shop"] = x] /\ Send("shop", x)
    BY <1>2 DEF Search
  <2>2. /\ "shop" \in Runners /\ busy["shop"] = NoCall /\ x # NoCall
        /\ UNCHANGED <<shown, draft, timer, queue, list, clicked>>
    BY <1>0, <1>2 DEF Search, Runners
  <2>. QED BY <2>1, <2>2, RunnerAsks
<1>3. ASSUME NEW t \in Tabs, NEW a \in Approvals, NEW d, Resolve(t, a, d) PROVE ConsoleInv'
  BY <1>3, ResolveKeeps
<1>4. CASE Clear
  BY <1>4, ClearKeeps
<1>5. CASE SelectProduct \/ SetPrice \/ SetElasticity
  <2>1. /\ timer' = TRUE
        /\ UNCHANGED <<page, sent, calls, waiting, answers, busy, shown, newest, last, queue, list,
                       status, records, unheard, clicked, cutOffs>>
    BY <1>5 DEF SelectProduct, SetPrice, SetElasticity, Redraft, dataVars
  <2>. QED BY <2>1, OtherKeeps
<1>6. CASE Project
  BY <1>6, ProjectKeeps
<1>7. ASSUME NEW c \in calls,
             \/ AskRoute(c) \/ SimulateRoute(c) \/ StartRoute(c) \/ GoalsRoute(c)
             \/ AgentRoute(c) \/ RecommendRoute(c) \/ PricingRoute(c)
             \/ ApproveRoute(c) \/ RejectRoute(c) \/ ClearRoute(c) \/ Handle(c)
      PROVE  ConsoleInv'
  BY <1>7, HandlersKeep
<1>8. CASE Remember
  <2>1. /\ records' = records \cup {"new"}
        /\ UNCHANGED <<page, sent, calls, waiting, answers, busy, shown, newest, last, draft, timer,
                       queue, list, status, unheard, clicked, cutOffs>>
    BY <1>8 DEF Remember, pageVars
  <2>. QED BY <2>1, OtherKeeps
<1>9. CASE Answered
  <2>1. PICK x \in answers : x.call \in waiting /\ Settle(x.call, x.how) /\ UNCHANGED cutOffs
    BY <1>9 DEF Answered
  <2>2. Told(x.call, x.how)
    BY <2>1 DEF Told
  <2>. QED BY <2>1, <2>2, SettleKeeps
<1>10. ASSUME NEW c \in waiting, CutOff(c) PROVE ConsoleInv'
  <2>1. Settle(c, "cut") /\ Told(c, "cut")
    BY <1>10 DEF CutOff, Told
  <2>. QED BY <2>1, SettleKeeps
<1>11. CASE UNCHANGED consoleVars
  <2>1. UNCHANGED <<page, sent, calls, waiting, answers, busy, shown, newest, last, draft, timer,
                    queue, list, status, records, unheard, clicked, cutOffs>>
    BY <1>11 DEF consoleVars, pageVars, dataVars
  <2>. QED BY <2>1, OtherKeeps
<1>. QED
  BY <1>1, <1>2, <1>3, <1>4, <1>5, <1>6, <1>7, <1>8, <1>9, <1>10, <1>11 DEF ConsoleNext, ConsoleStep

LEMMA ConsoleInvariance == ConsoleSpec => []ConsoleInv
BY ConsoleStarts, ConsoleKeeps, PTL DEF ConsoleSpec

\* What a component shows when it has come to rest answers the last thing it was
\* asked (the components of components/interactive.tsx), but for the recommender
\* and the simulator, which ignore an answer that is no good, and the simulator
\* when answers overtake each other.
THEOREM PagesShowTheLastAnswer == ConsoleSpec => []AnswersAreExplained
<1>1. ConsoleInv => AnswersAreExplained
  <2>. SUFFICES ASSUME ConsoleInv, NEW w \in Runners \cup {"pricing"}, Awaited(w) = {},
                       w = "pricing" => ~timer
                PROVE  /\ \/ shown[w] = last[w].n
                          \/ w \in {"shop", "pricing"} /\ newest[w] < last[w].n
                          \/ w = "pricing" /\ shown[w] < newest[w]
                       /\ w = "pricing" /\ page = "pricing" => last[w].about = draft
    BY DEF AnswersAreExplained
  <2>1. CASE w = "pricing"
    <3>1. /\ shown[w] \in Nat /\ newest[w] \in Nat /\ last[w].n \in Nat
          /\ shown[w] <= newest[w] /\ newest[w] <= last[w].n
      BY ComponentsAreDistinct DEF ConsoleInv, ConsoleTypeOK, Numbered
    <3>2. page = "pricing" => last[w].about = draft
      BY <2>1 DEF ConsoleInv, PageInv, DraftIsAsked
    <3>. QED BY <2>1, <3>1, <3>2
  <2>2. CASE w \in Runners
    BY <2>2, ComponentsAreDistinct DEF ConsoleInv, PageInv, RunnersShowTheLast
  <2>. QED BY <2>1, <2>2
<1>. QED BY <1>1, ConsoleInvariance, PTL

\* What a page lists agrees with the tables (the approvals and the memory panel of
\* components/interactive.tsx), but for what it was not told, or told badly, and
\* for what others did.
THEOREM ListsAgreeWithTheTables == ConsoleSpec => []ListsAreExplained
<1>1. ConsoleInv => ListsAreExplained
  <2>. SUFFICES ASSUME ConsoleInv PROVE ListsAreExplained
    OBVIOUS
  <2>1. ServerInv
    BY DEF ConsoleInv
  <2>2. ASSUME NEW t \in Tabs, NEW a \in Approvals, a \in queue[t], status[a].by = t
        PROVE  \/ \E c \in Awaited(t) : c.about.approval = a
               \/ \E x \in unheard : x[1] = t /\ x[2].approval = a
    BY <2>1, <2>2 DEF ServerInv, DeciderIsHeard, Decider, NotToldWell, Awaited
  <2>. QED BY <2>1, <2>2 DEF ServerInv, QueuesListWhatPends, EmptiedListIsExplained, ListsAreExplained
<1>. QED BY <1>1, ConsoleInvariance, PTL

\* A component that says it is busy awaits an answer, but for a memory panel whose
\* request was cut off, and two answers about one thing are awaited only by a tab
\* that has decided about another approval as well.
THEOREM BusyComponentsWait == ConsoleSpec => []BusyIsExplained
<1>1. ConsoleInv => BusyIsExplained
  <2>. SUFFICES ASSUME ConsoleInv,
                       NEW c \in waiting, NEW d \in waiting, c # d, c.by = d.by, c.by # "pricing",
                       c.by \in Tabs => c.about.approval = d.about.approval
                PROVE  c.by \in Tabs /\ Cardinality(clicked[c.by]) > 1
    BY DEF BusyIsExplained, ConsoleInv, PageInv, BusyAwaits
  <2>0. ConsoleTypeOK /\ Numbered /\ PageInv /\ c.by \in Components
    BY DEF ConsoleInv, ConsoleTypeOK, Request
  <2>1. c.by \notin Runners \cup {"memory"}
    BY <2>0 DEF PageInv, OneEach, Numbered
  <2>2. c.by \in Tabs
    BY <2>0, <2>1 DEF Components
  <2>3. ~OneOnly(c.by) /\ c.about.approval \in clicked[c.by] /\ c.about.approval \in Approvals
    BY <2>0, <2>2 DEF PageInv, TabsAskOnce, ConsoleTypeOK, Request
  <2>4. PICK S : S = clicked[c.by]
    OBVIOUS
  <2>5. IsFiniteSet(S) /\ Cardinality(S) \in Nat
    BY <2>0, <2>2, <2>4, FS_CardinalityType DEF ConsoleTypeOK
  <2>6. Cardinality(S) # 0
    BY <2>3, <2>4, <2>5, FS_EmptySet
  <2>7. Cardinality(S) # 1
    <3>1. SUFFICES ASSUME Cardinality(S) = 1 PROVE FALSE
      OBVIOUS
    <3>2. PICK x : S = {x}
      BY <2>5, <3>1, FS_Singleton
    <3>. QED BY <2>3, <2>4, <3>2 DEF OneOnly
  <2>. QED BY <2>2, <2>4, <2>5, <2>6, <2>7
<1>. QED BY <1>1, ConsoleInvariance, PTL
=============================================================================
