--------------------------- MODULE RealtimeServer ---------------------------
(***************************************************************************)
(* The WebSocket endpoint of api/realtime.py.  The requests announced by   *)
(* the ingestion are numbered; the ring buffer always holds the last ones. *)
(* Each connection replays the end of the ring, registers a callback that  *)
(* fills a bounded queue, and empties the queue through the filter the     *)
(* client sent last.                                                       *)
(***************************************************************************)
EXTENDS Integers, Sequences, FiniteSets

CONSTANTS
  Conns,        \* connections, in the order in which they are dialled
  Hosts,        \* virtual hosts requests are for
  NoHost,       \* the host of a filter that lets everything through
  MaxRequests,  \* bound: requests announced
  MaxRefusals,  \* bound: connections refused
  QueueSize,    \* maxsize of a connection's queue
  ReplaySize    \* how much of the ring is replayed

ASSUME ConnsAreNumbered == IsFiniteSet(Conns) /\ Conns = 1 .. Cardinality(Conns)
ASSUME SizesArePositive == QueueSize \in Nat \ {0} /\ ReplaySize \in Nat \ {0}
ASSUME RequestsAreBounded == MaxRequests \in Nat
ASSUME NoHostIsNone == NoHost \notin Hosts

VARIABLES
  hostOf,    \* the hosts of the requests announced so far, in order
  conn,      \* of each connection: "none", "refused", "replaying", "serving" or "closed"
  queue,     \* the queue of each connection
  filter,    \* active_filter["host"] of each connection
  toClient,  \* everything sent on each connection
  toServer,  \* everything the client sent on each connection ...
  taken,     \* ... and how much of it the receiver has taken
  ready      \* readyState of the client's end: "none", "connecting", "open", "closed"

server == <<hostOf, conn, queue, filter, toClient, taken>>

Filters == Hosts \cup {NoHost}
Announced == Len(hostOf)

ServerTypeOK ==
  /\ hostOf \in Seq(Hosts) /\ Announced <= MaxRequests
  /\ conn \in [Conns -> {"none", "refused", "replaying", "serving", "closed"}]
  /\ queue \in [Conns -> Seq(1 .. Announced)]
  /\ \A c \in Conns : Len(queue[c]) <= QueueSize
  /\ filter \in [Conns -> Filters]
  /\ toClient \in [Conns -> Seq([type : {"replay", "new"}, data : Seq(1 .. Announced)])]
  /\ toServer \in [Conns -> Seq(Filters)]
  /\ \A c \in Conns : taken[c] \in 0 .. Len(toServer[c])
  /\ ready \in [Conns -> {"none", "connecting", "open", "closed"}]

ServerInit ==
  /\ hostOf = <<>>
  /\ conn = [c \in Conns |-> "none"]
  /\ queue = [c \in Conns |-> <<>>]
  /\ filter = [c \in Conns |-> NoHost]
  /\ toClient = [c \in Conns |-> <<>>]
  /\ toServer = [c \in Conns |-> <<>>] /\ taken = [c \in Conns |-> 0]
  /\ ready = [c \in Conns |-> "none"]

\* ring[-100:], oldest first.
Replay ==
  LET first == IF Announced < ReplaySize THEN 1 ELSE Announced - ReplaySize + 1
  IN  [i \in 1 .. Announced - first + 1 |-> first + i - 1]

\* Mutant: the callback is registered before the replay is taken from the ring, and the last
\* request is in both.
Accept_RegistersFirst(c) ==
  /\ conn[c] = "none" /\ ready[c] = "connecting"
  /\ conn' = [conn EXCEPT ![c] = "serving"]
  /\ queue' = [queue EXCEPT ![c] = IF Announced = 0 THEN <<>> ELSE <<Announced>>]
  /\ toClient' = IF Announced = 0 THEN toClient
                 ELSE [toClient EXCEPT ![c] = <<[type |-> "replay", data |-> Replay]>>]
  /\ UNCHANGED <<hostOf, filter, toServer, taken, ready>>

\* Accept the connection and hand the replay to the socket; the callback is registered
\* only when the send has been awaited.  With an empty ring there is nothing to await.
Accept(c) ==
  /\ conn[c] = "none" /\ ready[c] = "connecting"
  /\ conn' = [conn EXCEPT ![c] = IF Announced = 0 THEN "serving" ELSE "replaying"]
  /\ toClient' = IF Announced = 0 THEN toClient
                 ELSE [toClient EXCEPT ![c] = <<[type |-> "replay", data |-> Replay]>>]
  /\ UNCHANGED <<hostOf, queue, filter, toServer, taken, ready>>

\* require_auth_ws finds no valid token: the connection is closed with 4001.
Reject(c) ==
  /\ conn[c] = "none" /\ ready[c] = "connecting"
  /\ Cardinality({d \in Conns : conn[d] = "refused"}) < MaxRefusals
  /\ conn' = [conn EXCEPT ![c] = "refused"]
  /\ UNCHANGED <<hostOf, queue, filter, toClient, toServer, taken, ready>>

\* register_broadcast, whether or not the replay could be sent.
Register(c) ==
  /\ conn[c] = "replaying"
  /\ conn' = [conn EXCEPT ![c] = "serving"]
  /\ UNCHANGED <<hostOf, queue, filter, toClient, toServer, taken, ready>>

\* Mutant: the queue has no limit.
Broadcast_Unbounded(h) ==
  /\ Announced < MaxRequests
  /\ hostOf' = Append(hostOf, h)
  /\ queue' = [c \in Conns |-> IF conn[c] = "serving" THEN Append(queue[c], Announced + 1)
                                ELSE queue[c]]
  /\ UNCHANGED <<conn, filter, toClient, toServer, taken, ready>>

\* ingest_line_async announces a request: ring, and every registered callback.  A full
\* queue drops the message.
Broadcast(h) ==
  /\ Announced < MaxRequests
  /\ hostOf' = Append(hostOf, h)
  /\ queue' = [c \in Conns |->
                 IF conn[c] = "serving" /\ Len(queue[c]) < QueueSize
                 THEN Append(queue[c], Announced + 1) ELSE queue[c]]
  /\ UNCHANGED <<conn, filter, toClient, toServer, taken, ready>>

PassesFilter(i, f) == f # NoHost => hostOf[i] = f

\* One turn of _sender: the filter is the one of the moment the message is taken.
Send(c) ==
  /\ conn[c] = "serving" /\ queue[c] # <<>>
  /\ queue' = [queue EXCEPT ![c] = Tail(queue[c])]
  /\ toClient' = IF PassesFilter(Head(queue[c]), filter[c]) /\ ready[c] # "closed"
                 THEN [toClient EXCEPT ![c] =
                         Append(@, [type |-> "new", data |-> <<Head(queue[c])>>])]
                 ELSE toClient
  /\ UNCHANGED <<hostOf, conn, filter, toServer, taken, ready>>

\* One turn of _receiver.
Receive(c) ==
  /\ conn[c] = "serving" /\ taken[c] < Len(toServer[c])
  /\ taken' = [taken EXCEPT ![c] = @ + 1]
  /\ filter' = [filter EXCEPT ![c] = toServer[c][taken[c] + 1]]
  /\ UNCHANGED <<hostOf, conn, queue, toClient, toServer, ready>>

\* Mutant: only the sender notices that the client has gone.
Finish_OnSendOnly(c) ==
  /\ conn[c] = "serving" /\ ready[c] = "closed"
  /\ queue[c] # <<>>
  /\ conn' = [conn EXCEPT ![c] = "closed"]
  /\ UNCHANGED <<hostOf, queue, filter, toClient, toServer, taken, ready>>

\* The client has gone: a task ends, the others are cancelled, the callback is removed.
Finish(c) ==
  /\ conn[c] = "serving" /\ ready[c] = "closed"
  /\ conn' = [conn EXCEPT ![c] = "closed"]
  /\ UNCHANGED <<hostOf, queue, filter, toClient, toServer, taken, ready>>

ServerStep(c) ==
  Accept(c) \/ Reject(c) \/ Register(c) \/ Send(c) \/ Receive(c) \/ Finish(c)

ServerNext ==
  \/ \E h \in Hosts : Broadcast(h)
  \/ \E c \in Conns : ServerStep(c)

-----------------------------------------------------------------------------

\* On one connection no request is sent twice and none before an older one, across the
\* seam between the replay and the live queue.
WireInOrder ==
  \A c \in Conns : \A i, j \in DOMAIN toClient[c] :
    \A a \in DOMAIN toClient[c][i].data : \A b \in DOMAIN toClient[c][j].data :
      i < j \/ (i = j /\ a < b) => toClient[c][i].data[a] < toClient[c][j].data[b]

\* The callback of a connection whose client has gone does not stay registered.
CallbackRemoved ==
  \A c \in Conns : (conn[c] \in {"replaying", "serving"} /\ ready[c] = "closed")
                     ~> conn[c] = "closed"
=============================================================================
