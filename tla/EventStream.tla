----------------------------- MODULE EventStream -----------------------------
(***************************************************************************)
(* The events of the bus on their way to the pages: publish and subscribe  *)
(* (events/bus.ts), one server-sent stream a connection                    *)
(* (app/api/events/stream/route.ts), and the one EventSource that all the  *)
(* live components of a page share (components/live.tsx).                  *)
(*                                                                         *)
(* A connection ends at the client first.  The server hears of it twice,   *)
(* in either order: the reader of the stream is cancelled, so that         *)
(* enqueuing throws, and the request's signal fires.  The browser connects *)
(* again by itself when the network fails, and what was published          *)
(* meanwhile is not sent again.                                            *)
(***************************************************************************)
EXTENDS Naturals, Sequences

CONSTANTS
  Views,         \* components that listen while they are on the page
  Connections,   \* requests to /api/events/stream
  NoConnection,
  FeedLimit,     \* how many events a component keeps
  MaxEvents,     \* bound: how many events are published
  MaxDrops       \* bound: how often the network fails

ASSUME EventStreamAssumption ==
  /\ NoConnection \notin Connections
  /\ FeedLimit \in Nat \ {0} /\ MaxEvents \in Nat /\ MaxDrops \in Nat

VARIABLES
  published,  \* how many events have been published; they are numbered
  request,    \* "none", "sent", "served", or "late": served when it was over
  attached,   \* connections with a subscription to the bus and a heartbeat
  closed,     \* those whose closed flag is set
  broken,     \* those whose stream has no reader any more
  aborted,    \* those whose signal has fired
  tripped,    \* those whose closed flag was set because enqueuing threw
  pipe,       \* frames the server has sent and the client has not read
  source,     \* the EventSource of the page, as the connection it is on
  open,       \* connections of the EventSources that were not closed
  mounted,    \* components that are on the page
  feed,       \* the events each of them shows, newest first
  drops

serverVars == <<published, request, attached, closed, broken, aborted, tripped>>
clientVars == <<source, open, mounted, feed>>
streamVars == <<serverVars, clientVars, pipe, drops>>

\* The first frame of every stream; it is no event of the bus.
StreamOpen == 0

EventStreamInit ==
  /\ published = 0
  /\ request = [c \in Connections |-> "none"]
  /\ attached = {} /\ closed = {} /\ broken = {} /\ aborted = {} /\ tripped = {}
  /\ pipe = [c \in Connections |-> <<>>]
  /\ source = NoConnection
  /\ open = {} /\ mounted = {}
  /\ feed = [v \in Views |-> <<>>]
  /\ drops = 0

-----------------------------------------------------------------------------
(* The server.                                                             *)

\* GET.  The listener for the end of the request is added last, and a signal
\* that has fired already does not fire again.
Serve(c) ==
  /\ request[c] = "sent"
  /\ request' = [request EXCEPT ![c] = IF c \in aborted THEN "late" ELSE "served"]
  /\ pipe' = [pipe EXCEPT ![c] = <<StreamOpen>>]
  /\ attached' = attached \cup {c}
  /\ UNCHANGED <<published, closed, broken, aborted, tripped, clientVars, drops>>

\* An enqueue that throws closes the stream, and leaves the rest as it is.
Trip(connections) ==
  /\ closed' = closed \cup connections
  /\ tripped' = tripped \cup connections

\* Every subscriber is called in turn, and none of them can fail the publisher.
\* An event that cannot be stored is thrown out before the first is called.
Publish ==
  /\ published < MaxEvents
  /\ published' = published + 1
  /\ pipe' = [c \in Connections |->
       IF c \in attached \ (closed \cup broken) THEN Append(pipe[c], published') ELSE pipe[c]]
  /\ Trip((attached \cap broken) \ closed)
  /\ UNCHANGED <<request, attached, broken, aborted, clientVars, drops>>

\* A comment line: nobody sees it, but it may find the reader gone.
Heartbeat(c) ==
  /\ c \in (attached \cap broken) \ closed
  /\ Trip({c})
  /\ UNCHANGED <<published, request, attached, broken, aborted, clientVars, pipe, drops>>

Over(c) == request[c] # "none" /\ c \notin open

ReaderCancelled(c) ==
  /\ Over(c) /\ request[c] # "sent"
  /\ c \notin broken
  /\ broken' = broken \cup {c}
  /\ UNCHANGED <<published, request, attached, closed, aborted, tripped, clientVars, pipe, drops>>

\* Mutant: the subscription is forgotten when the stream is closed.
CloseKeepsSubscription(c) ==
  /\ closed' = closed \cup {c}
  /\ UNCHANGED attached

\* close: the flag says that there is nothing left to do, whoever has set it.
Close(c) ==
  IF request[c] = "served" /\ c \notin closed
  THEN closed' = closed \cup {c} /\ attached' = attached \ {c}
  ELSE UNCHANGED <<closed, attached>>

Abort(c) ==
  /\ Over(c)
  /\ c \notin aborted
  /\ aborted' = aborted \cup {c}
  /\ Close(c)
  /\ UNCHANGED <<published, request, broken, tripped, clientVars, pipe, drops>>

-----------------------------------------------------------------------------
(* The page.                                                               *)

Fresh == {c \in Connections : request[c] = "none"}

Connect(c) ==
  /\ c \in Fresh
  /\ request' = [request EXCEPT ![c] = "sent"]
  /\ source' = c

\* Mutant: every component opens a stream, and the last one is the page's.
SubscribeAlways(c) ==
  /\ Connect(c)
  /\ open' = open \cup {c}

\* The first listener opens the stream that the others share.
Subscribe(c) ==
  IF source = NoConnection
  THEN Connect(c) /\ open' = open \cup {c}
  ELSE UNCHANGED <<request, source, open>>

Mount(v) ==
  /\ v \notin mounted
  /\ mounted' = mounted \cup {v}
  /\ \E c \in Connections : Subscribe(c)
  /\ UNCHANGED <<published, attached, closed, broken, aborted, tripped, pipe, feed, drops>>

\* The last one to leave closes it.  What a component has shown goes with it.
Unmount(v) ==
  /\ v \in mounted
  /\ mounted' = mounted \ {v}
  /\ feed' = [feed EXCEPT ![v] = <<>>]
  /\ IF mounted' = {} /\ source # NoConnection
     THEN source' = NoConnection /\ open' = open \ {source}
     ELSE UNCHANGED <<source, open>>
  /\ UNCHANGED <<serverVars, pipe, drops>>

\* The network fails, and the EventSource connects again.
Drop(c) ==
  /\ drops < MaxDrops
  /\ drops' = drops + 1
  /\ c \in open
  /\ \E next \in Fresh :
       /\ open' = (open \ {c}) \cup {next}
       /\ request' = [request EXCEPT ![next] = "sent"]
       /\ source' = IF source = c THEN next ELSE source
  /\ UNCHANGED <<published, attached, closed, broken, aborted, tripped, pipe, mounted, feed>>

Newest(events) == SubSeq(events, 1, IF Len(events) < FeedLimit THEN Len(events) ELSE FeedLimit)

\* onmessage: each listener puts the frame before the others and cuts the list.
Deliver(c) ==
  /\ c \in open /\ pipe[c] # <<>>
  /\ feed' = [v \in Views |->
       IF v \in mounted THEN Newest(<<Head(pipe[c])>> \o feed[v]) ELSE feed[v]]
  /\ pipe' = [pipe EXCEPT ![c] = Tail(@)]
  /\ UNCHANGED <<serverVars, source, open, mounted, drops>>

EventStreamNext ==
  \/ Publish
  \/ \E c \in Connections :
       Serve(c) \/ Heartbeat(c) \/ ReaderCancelled(c) \/ Abort(c) \/ Drop(c) \/ Deliver(c)
  \/ \E v \in Views : Mount(v) \/ Unmount(v)

EventStreamSpec == EventStreamInit /\ [][EventStreamNext]_streamVars

-----------------------------------------------------------------------------
(* Properties.                                                             *)

\* A subscription and a heartbeat outlive their connection only when the stream
\* found its reader gone before it heard of the end of the request, or when the
\* request was over before the stream was set up.
OnlyBrokenPipesLeak ==
  \A c \in attached \cap aborted : c \in tripped \/ request[c] = "late"

\* What a component shows is what was published, each event once and in its
\* order, through closing, opening and reconnecting; where an event is missing
\* between two others, the line of a stream that was opened stands in the gap.
FeedIsFaithful ==
  \A v \in Views : \A i, j \in DOMAIN feed[v] :
    /\ i < j
    /\ feed[v][i] # StreamOpen /\ feed[v][j] # StreamOpen
    => /\ feed[v][i] > feed[v][j]
       /\ \/ feed[v][i] - feed[v][j] = j - i
          \/ \E k \in i..j : feed[v][k] = StreamOpen
=============================================================================
