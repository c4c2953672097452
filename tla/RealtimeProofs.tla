--------------------------- MODULE RealtimeProofs ---------------------------
(***************************************************************************)
(* That a connection of the real-time endpoint delivers the requests in    *)
(* order and without repetition, for every number of connections and every *)
(* size of queue, ring and replay, whatever the browser does; that the     *)
(* browser never has more than one socket, or none with nothing to redial  *)
(* it, whatever the server and the network do; that the rows of the page   *)
(* stay in order across replays and redials; and that every queue and list *)
(* keeps its bound.                                                        *)
(***************************************************************************)
EXTENDS Realtime, FiniteSetTheorems, SequenceTheorems, WellFoundedInduction, TLAPS

USE SizesArePositive

\* The shape of what is on the wire and in the queues: numbers of announced requests.
Shape ==
  /\ hostOf \in Seq(Hosts)
  /\ queue \in [Conns -> Seq(Nat)]
  /\ toClient \in [Conns -> Seq([type : {"replay", "new"}, data : Seq(Nat)])]
  /\ DOMAIN conn = Conns

\* Before a callback is registered nothing is queued, and before a connection is accepted
\* nothing is sent on it.
Fresh ==
  \A c \in Conns : /\ conn[c] \in {"none", "replaying"} => queue[c] = <<>>
                   /\ conn[c] = "none" => toClient[c] = <<>>

\* What is queued has been announced, in order ...
QueueInOrder ==
  \A c \in Conns : \A k \in DOMAIN queue[c] :
    /\ queue[c][k] <= Len(hostOf)
    /\ \A l \in DOMAIN queue[c] : k < l => queue[c][k] < queue[c][l]

\* ... and what is sent has been announced, before anything that is queued.
SentBeforeQueued ==
  \A c \in Conns : \A i \in DOMAIN toClient[c] : \A a \in DOMAIN toClient[c][i].data :
    /\ toClient[c][i].data[a] <= Len(hostOf)
    /\ \A k \in DOMAIN queue[c] : toClient[c][i].data[a] < queue[c][k]

WireInv == Shape /\ Fresh /\ QueueInOrder /\ SentBeforeQueued /\ WireInOrder

-----------------------------------------------------------------------------

LEMMA SeqElement ==
  ASSUME NEW S, NEW s \in Seq(S), NEW i \in DOMAIN s PROVE s[i] \in S
OBVIOUS

\* The replay is a piece of the numbers announced so far, in order.
LEMMA ReplayInOrder ==
  ASSUME hostOf \in Seq(Hosts)
  PROVE  /\ Replay \in Seq(Nat)
         /\ \A a \in DOMAIN Replay : 1 <= Replay[a] /\ Replay[a] <= Len(hostOf)
         /\ \A a, b \in DOMAIN Replay : a < b => Replay[a] < Replay[b]
<1>. DEFINE first == IF Announced < ReplaySize THEN 1 ELSE Announced - ReplaySize + 1
<1>1. Announced \in Nat /\ first \in Nat /\ first >= 1 /\ first <= Announced + 1
  BY DEF Announced
<1>2. Replay = [i \in 1 .. Announced - first + 1 |-> first + i - 1]
  BY DEF Replay
<1>3. Announced - first + 1 \in Nat
  BY <1>1
<1>4. \A i \in 1 .. Announced - first + 1 : first + i - 1 \in Nat
  BY <1>1
<1>. HIDE DEF first
<1>5. Replay \in Seq(Nat)
  BY <1>2, <1>3, <1>4
<1>. QED  BY <1>1, <1>2, <1>5 DEF Announced

LEMMA WireInit == Init => WireInv
<1>. SUFFICES ASSUME Init PROVE WireInv
  OBVIOUS
<1>1. hostOf = <<>> /\ conn = [c \in Conns |-> "none"] /\ queue = [c \in Conns |-> <<>>]
        /\ toClient = [c \in Conns |-> <<>>]
  BY DEF Init, ServerInit
<1>. QED
  BY <1>1 DEF WireInv, Shape, Fresh, QueueInOrder, SentBeforeQueued, WireInOrder

\* A step that leaves these four alone keeps the invariant.
LEMMA WireStutter ==
  ASSUME WireInv, UNCHANGED <<hostOf, conn, queue, toClient>> PROVE WireInv'
BY DEF WireInv, Shape, Fresh, QueueInOrder, SentBeforeQueued, WireInOrder

\* A step of a connection that is past its replay keeps it too.
LEMMA WireConnStep ==
  ASSUME WireInv, NEW c \in Conns, NEW s,
         conn' = [conn EXCEPT ![c] = s], s \notin {"none", "replaying"},
         UNCHANGED <<hostOf, queue, toClient>>
  PROVE  WireInv'
BY DEF WireInv, Shape, Fresh, QueueInOrder, SentBeforeQueued, WireInOrder

\* Accepting a connection puts at most the replay on it, and no callback is registered yet.
LEMMA WireAccept ==
  ASSUME WireInv, NEW c \in Conns, Accept(c) PROVE WireInv'
<1>. DEFINE msg == [type |-> "replay", data |-> Replay]
<1>1. UNCHANGED <<hostOf, queue>> /\ conn[c] = "none" /\ queue[c] = <<>> /\ toClient[c] = <<>>
  BY DEF Accept, WireInv, Fresh
<1>2. /\ Replay \in Seq(Nat)
      /\ \A a \in DOMAIN Replay : Replay[a] <= Len(hostOf)
      /\ \A a, b \in DOMAIN Replay : a < b => Replay[a] < Replay[b]
  BY ReplayInOrder DEF WireInv, Shape
<1>3. msg \in [type : {"replay", "new"}, data : Seq(Nat)] /\ msg.data = Replay
  BY <1>2
<1>4. conn' = [conn EXCEPT ![c] = IF Announced = 0 THEN "serving" ELSE "replaying"]
  BY DEF Accept
<1>5. CASE toClient' = toClient
  <2>1. Fresh'
    BY <1>1, <1>4, <1>5 DEF WireInv, Shape, Fresh
  <2>2. Shape'
    BY <1>1, <1>4, <1>5 DEF WireInv, Shape
  <2>3. QueueInOrder' /\ SentBeforeQueued' /\ WireInOrder'
    BY <1>1, <1>5 DEF WireInv, QueueInOrder, SentBeforeQueued, WireInOrder
  <2>. QED  BY <2>1, <2>2, <2>3 DEF WireInv
<1>6. CASE toClient' = [toClient EXCEPT ![c] = <<msg>>]
  <2>. HIDE DEF msg
  <2>1. toClient'[c] = <<msg>> /\ \A d \in Conns : d # c => toClient'[d] = toClient[d]
    BY <1>6 DEF WireInv, Shape
  <2>2. Shape'
    BY <1>1, <1>3, <1>4, <1>6 DEF WireInv, Shape
  <2>3. Fresh'
    BY <1>1, <1>4, <2>1 DEF WireInv, Shape, Fresh
  <2>4. QueueInOrder'
    BY <1>1 DEF WireInv, QueueInOrder
  <2>5. SentBeforeQueued'
    BY <1>1, <1>2, <1>3, <2>1 DEF WireInv, SentBeforeQueued
  <2>6. WireInOrder'
    BY <1>1, <1>2, <1>3, <2>1 DEF WireInv, WireInOrder
  <2>. QED  BY <2>2, <2>3, <2>4, <2>5, <2>6 DEF WireInv
<1>. QED  BY <1>5, <1>6 DEF Accept

\* A broadcast leaves a queue as it is or puts the number announced at its end.
LEMMA BroadcastQueue ==
  ASSUME WireInv, NEW h \in Hosts, Broadcast(h), NEW c \in Conns, NEW k \in DOMAIN queue'[c]
  PROVE  (k \in DOMAIN queue[c] /\ queue'[c][k] = queue[c][k])
           \/ (k = Len(queue[c]) + 1 /\ queue'[c][k] = Len(hostOf) + 1)
<1>1. queue[c] \in Seq(Nat) /\ Len(hostOf) + 1 \in Nat
  BY DEF WireInv, Shape
<1>2. CASE queue'[c] = queue[c]
  BY <1>2
<1>3. CASE queue'[c] = Append(queue[c], Len(hostOf) + 1)
  <2>1. k \in 1 .. Len(queue[c]) + 1
    BY <1>1, <1>3
  <2>2. CASE k = Len(queue[c]) + 1
    BY <1>1, <1>3, <2>2
  <2>3. CASE k \in 1 .. Len(queue[c])
    BY <1>1, <1>3, <2>3
  <2>. QED  BY <1>1, <2>1, <2>2, <2>3
<1>. QED  BY <1>2, <1>3 DEF Broadcast, Announced

\* A broadcast appends a number greater than all others to some queues.
LEMMA WireBroadcast ==
  ASSUME WireInv, NEW h \in Hosts, Broadcast(h) PROVE WireInv'
<1>1. /\ hostOf' = Append(hostOf, h) /\ UNCHANGED <<conn, toClient>>
      /\ Len(hostOf) \in Nat /\ Len(hostOf') = Len(hostOf) + 1
  BY DEF Broadcast, WireInv, Shape
<1>2. ASSUME NEW c \in Conns
      PROVE  queue'[c] = queue[c]
               \/ (queue'[c] = Append(queue[c], Len(hostOf) + 1) /\ conn[c] = "serving")
  BY DEF Broadcast, Announced
<1>3. queue' \in [Conns -> Seq(Nat)]
  <2>1. ASSUME NEW c \in Conns PROVE queue'[c] \in Seq(Nat)
    <3>1. queue[c] \in Seq(Nat) /\ Len(hostOf) + 1 \in Nat
      BY <1>1 DEF WireInv, Shape
    <3>2. Append(queue[c], Len(hostOf) + 1) \in Seq(Nat)
      BY <3>1
    <3>. QED  BY <1>2, <3>1, <3>2
  <2>2. queue' = [c \in Conns |-> queue'[c]]
    BY DEF Broadcast
  <2>. QED  BY <2>1, <2>2
<1>4. Shape'
  BY <1>1, <1>3 DEF WireInv, Shape
<1>5. Fresh'
  BY <1>1, <1>2 DEF WireInv, Fresh
<1>6. ASSUME NEW c \in Conns, NEW k \in DOMAIN queue'[c]
      PROVE  (k \in DOMAIN queue[c] /\ queue'[c][k] = queue[c][k])
               \/ (k = Len(queue[c]) + 1 /\ queue'[c][k] = Len(hostOf) + 1)
  BY BroadcastQueue
<1>7. QueueInOrder'
  <2>1. ASSUME NEW c \in Conns, NEW k \in DOMAIN queue'[c]
        PROVE  queue'[c][k] <= Len(hostOf')
    <3>1. queue[c] \in Seq(Nat)
      BY DEF WireInv, Shape
    <3>2. CASE k \in DOMAIN queue[c] /\ queue'[c][k] = queue[c][k]
      <4>1. queue[c][k] \in Nat
        BY <3>1, <3>2
      <4>2. queue[c][k] <= Len(hostOf)
        BY <3>2 DEF WireInv, QueueInOrder
      <4>. QED  BY <1>1, <3>2, <4>1, <4>2
    <3>. QED  BY <1>1, <1>6, <3>2
  <2>2. ASSUME NEW c \in Conns, NEW k \in DOMAIN queue'[c], NEW l \in DOMAIN queue'[c], k < l
        PROVE  queue'[c][k] < queue'[c][l]
    <3>1. queue[c] \in Seq(Nat)
      BY DEF WireInv, Shape
    <3>2. k \in DOMAIN queue[c] /\ queue'[c][k] = queue[c][k]
      <4>1. l \in Nat /\ l <= Len(queue[c]) + 1
        BY <1>6, <3>1
      <4>. QED  BY <1>6, <2>2, <3>1, <4>1
    <3>3. queue[c][k] \in Nat
      BY <3>1, <3>2
    <3>4. queue[c][k] <= Len(hostOf)
      BY <3>2 DEF WireInv, QueueInOrder
    <3>. QED  BY <1>1, <1>6, <2>2, <3>2, <3>3, <3>4 DEF WireInv, QueueInOrder
  <2>. QED  BY <2>1, <2>2 DEF QueueInOrder
<1>8. SentBeforeQueued'
  <2>1. ASSUME NEW c \in Conns, NEW i \in DOMAIN toClient[c],
               NEW a \in DOMAIN toClient[c][i].data
        PROVE  /\ toClient[c][i].data[a] <= Len(hostOf')
               /\ \A k \in DOMAIN queue'[c] : toClient[c][i].data[a] < queue'[c][k]
    <3>1. toClient[c] \in Seq([type : {"replay", "new"}, data : Seq(Nat)])
      BY DEF WireInv, Shape
    <3>5. toClient[c][i] \in [type : {"replay", "new"}, data : Seq(Nat)]
      BY <3>1, SeqElement
    <3>2. toClient[c][i].data \in Seq(Nat)
      BY <3>5
    <3>3. toClient[c][i].data[a] \in Nat
      BY <3>2
    <3>4. toClient[c][i].data[a] <= Len(hostOf)
      BY DEF WireInv, SentBeforeQueued
    <3>. QED  BY <1>1, <1>6, <3>3, <3>4 DEF WireInv, SentBeforeQueued
  <2>. QED  BY <1>1, <2>1 DEF SentBeforeQueued
<1>9. WireInOrder'
  BY <1>1 DEF WireInv, WireInOrder
<1>. QED  BY <1>4, <1>5, <1>7, <1>8, <1>9 DEF WireInv

\* What the sender leaves in the queue was there before.
LEMMA SendQueue ==
  ASSUME WireInv, NEW c \in Conns, Send(c), NEW k \in DOMAIN queue'[c]
  PROVE  k \in Nat /\ k + 1 \in DOMAIN queue[c] /\ queue'[c][k] = queue[c][k + 1]
<1>1. queue[c] \in Seq(Nat) /\ queue[c] # <<>> /\ queue'[c] = Tail(queue[c])
  BY DEF Send, WireInv, Shape
<1>2. Len(Tail(queue[c])) = Len(queue[c]) - 1 /\ Tail(queue[c]) \in Seq(Nat)
  BY <1>1
<1>3. k \in 1 .. Len(queue[c]) - 1 /\ Len(queue[c]) \in Nat
  BY <1>1, <1>2
<1>. QED  BY <1>1, <1>3

\* The sender moves the head of the queue to the wire, or drops it.
LEMMA WireSend ==
  ASSUME WireInv, NEW c \in Conns, Send(c) PROVE WireInv'
<1>. DEFINE head == Head(queue[c])
            msg == [type |-> "new", data |-> <<head>>]
<1>1. UNCHANGED <<hostOf, conn>> /\ conn[c] = "serving" /\ queue[c] # <<>>
        /\ queue' = [queue EXCEPT ![c] = Tail(queue[c])]
  BY DEF Send
<1>2. queue[c] \in Seq(Nat) /\ head \in Nat /\ head = queue[c][1] /\ 1 \in DOMAIN queue[c]
  BY <1>1 DEF WireInv, Shape
<1>3. head <= Len(hostOf)
  BY <1>2 DEF WireInv, QueueInOrder
<1>4. \A d \in Conns : d # c => queue'[d] = queue[d]
  BY <1>1 DEF WireInv, Shape
<1>5. ASSUME NEW k \in DOMAIN queue'[c]
      PROVE  k \in Nat /\ k + 1 \in DOMAIN queue[c] /\ queue'[c][k] = queue[c][k + 1]
  BY SendQueue
<1>6. ASSUME NEW k \in DOMAIN queue'[c] PROVE head < queue'[c][k]
  <2>1. 1 < k + 1 /\ k + 1 \in DOMAIN queue[c] /\ queue'[c][k] = queue[c][k + 1]
    <3>1. k >= 1
      <4>1. queue'[c] \in Seq(Nat)
        BY <1>1, <1>2 DEF WireInv, Shape
      <4>. QED  BY <4>1
    <3>. QED  BY <1>5, <3>1
  <2>. QED  BY <1>2, <2>1 DEF WireInv, QueueInOrder
<1>7. queue' \in [Conns -> Seq(Nat)]
  BY <1>1, <1>2 DEF WireInv, Shape
<1>8. QueueInOrder'
  <2>1. ASSUME NEW k \in DOMAIN queue'[c]
        PROVE  /\ queue'[c][k] <= Len(hostOf)
               /\ \A l \in DOMAIN queue'[c] : k < l => queue'[c][k] < queue'[c][l]
    BY <1>5 DEF WireInv, QueueInOrder
  <2>. QED  BY <1>1, <1>4, <2>1 DEF WireInv, QueueInOrder
<1>9. CASE toClient' = toClient
  <2>1. Shape'
    BY <1>1, <1>7, <1>9 DEF WireInv, Shape
  <2>4. WireInOrder'
    BY <1>9 DEF WireInv, WireInOrder
  <2>3. Fresh'
    BY <1>1, <1>4, <1>9 DEF WireInv, Fresh
  <2>2. SentBeforeQueued'
    BY <1>1, <1>4, <1>5, <1>9 DEF WireInv, SentBeforeQueued
  <2>. QED  BY <1>8, <2>1, <2>2, <2>3, <2>4 DEF WireInv
<1>10. CASE toClient' = [toClient EXCEPT ![c] = Append(@, msg)]
  <2>1. msg \in [type : {"replay", "new"}, data : Seq(Nat)] /\ msg.data = <<head>>
    BY <1>2
  <2>. HIDE DEF msg
  <2>2. toClient[c] \in Seq([type : {"replay", "new"}, data : Seq(Nat)])
    BY DEF WireInv, Shape
  <2>3. toClient'[c] = Append(toClient[c], msg)
          /\ \A d \in Conns : d # c => toClient'[d] = toClient[d]
    BY <1>10 DEF WireInv, Shape
  <2>4. ASSUME NEW i \in DOMAIN toClient'[c]
        PROVE  (i \in DOMAIN toClient[c] /\ toClient'[c][i] = toClient[c][i])
                 \/ (i = Len(toClient[c]) + 1 /\ toClient'[c][i] = msg)
    BY <2>1, <2>2, <2>3
  <2>5. Shape'
    BY <1>1, <1>7, <1>10, <2>1, <2>2 DEF WireInv, Shape
  <2>6. Fresh'
    BY <1>1, <1>4, <2>3 DEF WireInv, Shape, Fresh
  <2>7. SentBeforeQueued'
    <3>1. ASSUME NEW i \in DOMAIN toClient'[c], NEW a \in DOMAIN toClient'[c][i].data
          PROVE  /\ toClient'[c][i].data[a] <= Len(hostOf)
                 /\ \A k \in DOMAIN queue'[c] : toClient'[c][i].data[a] < queue'[c][k]
      <4>1. CASE i \in DOMAIN toClient[c] /\ toClient'[c][i] = toClient[c][i]
        BY <1>5, <4>1 DEF WireInv, SentBeforeQueued
      <4>2. CASE toClient'[c][i] = msg
        BY <1>3, <1>6, <2>1, <4>2
      <4>. QED  BY <2>4, <4>1, <4>2
    <3>. QED  BY <1>1, <1>4, <2>3, <3>1 DEF WireInv, SentBeforeQueued
  <2>8. WireInOrder'
    <3>1. ASSUME NEW i \in DOMAIN toClient'[c], NEW j \in DOMAIN toClient'[c],
                 NEW a \in DOMAIN toClient'[c][i].data, NEW b \in DOMAIN toClient'[c][j].data,
                 i < j \/ (i = j /\ a < b)
          PROVE  toClient'[c][i].data[a] < toClient'[c][j].data[b]
      <4>1. CASE j \in DOMAIN toClient[c] /\ toClient'[c][j] = toClient[c][j]
        <5>1. i \in DOMAIN toClient[c] /\ toClient'[c][i] = toClient[c][i]
          BY <2>2, <2>4, <3>1, <4>1
        <5>. QED  BY <3>1, <4>1, <5>1 DEF WireInv, WireInOrder
      <4>2. CASE j = Len(toClient[c]) + 1 /\ toClient'[c][j] = msg
        <5>1. b = 1 /\ toClient'[c][j].data[b] = head
          BY <2>1, <4>2
        <5>2. i # j
          BY <2>1, <3>1, <4>2, <5>1
        <5>3. i \in DOMAIN toClient[c] /\ toClient'[c][i] = toClient[c][i]
          BY <2>4, <4>2, <5>2
        <5>. QED  BY <1>2, <5>1, <5>3 DEF WireInv, SentBeforeQueued
      <4>. QED  BY <2>4, <4>1, <4>2
    <3>2. ASSUME NEW d \in Conns, d # c, NEW i \in DOMAIN toClient[d], NEW j \in DOMAIN toClient[d],
                 NEW a \in DOMAIN toClient[d][i].data, NEW b \in DOMAIN toClient[d][j].data,
                 i < j \/ (i = j /\ a < b)
          PROVE  toClient[d][i].data[a] < toClient[d][j].data[b]
      BY <3>2 DEF WireInv, WireInOrder
    <3>3. \A d \in Conns : d # c => toClient'[d] = toClient[d]
      BY <2>3
    <3>. HIDE DEF msg, head
    <3>. QED  BY <3>1, <3>2, <3>3 DEF WireInOrder
  <2>. QED  BY <1>8, <2>5, <2>6, <2>7, <2>8 DEF WireInv
<1>. QED  BY <1>9, <1>10 DEF Send

LEMMA WireStep == WireInv /\ [Next]_vars => WireInv'
<1>. SUFFICES ASSUME WireInv, [Next]_vars PROVE WireInv'
  OBVIOUS
<1>1. CASE \E h \in Hosts : Broadcast(h)
  BY <1>1, WireBroadcast
<1>2. ASSUME NEW c \in Conns, ServerStep(c) PROVE WireInv'
  <2>1. CASE Accept(c)
    BY <2>1, WireAccept
  <2>2. CASE Send(c)
    BY <2>2, WireSend
  <2>3. CASE Reject(c)
    BY <2>3, WireConnStep DEF Reject
  <2>4. CASE Register(c)
    <3>1. conn' = [conn EXCEPT ![c] = "serving"] /\ UNCHANGED <<hostOf, queue, toClient>>
      BY <2>4 DEF Register
    <3>2. "serving" \notin {"none", "replaying"}
      OBVIOUS
    <3>. QED  BY <3>1, <3>2, WireConnStep
  <2>5. CASE Receive(c)
    BY <2>5, WireStutter DEF Receive
  <2>6. CASE Finish(c)
    BY <2>6, WireConnStep DEF Finish
  <2>. QED  BY <1>2, <2>1, <2>2, <2>3, <2>4, <2>5, <2>6 DEF ServerStep
<1>3. CASE ServerSide
  BY <1>1, <1>2, <1>3 DEF ServerSide, ServerNext
<1>4. CASE User \/ Timers \/ Network
  BY <1>4, WireStutter DEF User, Timers, Network, Opened, Refused, server
<1>5. CASE UNCHANGED vars
  BY <1>5, WireStutter DEF vars, server
<1>. QED  BY <1>3, <1>4, <1>5 DEF Next

\* On one connection no request is sent twice and none before an older one, across the
\* seam between the replay and the live queue: the callback is registered only after the
\* replay has been taken from the ring.
THEOREM WireDeliversInOrder == Spec => []WireInOrder
<1>1. WireInv => WireInOrder
  BY DEF WireInv
<1>. QED  BY <1>1, WireInit, WireStep, PTL DEF Spec
-----------------------------------------------------------------------------
(* The browser's end: one socket, or one reason to get one.                *)

Live(c) == ready[c] \in {"connecting", "open"}
Held == ws # 0 /\ Live(ws)
AskedOnce == {c \in Conns : conn[c] = "refused"}
TurnedAway == {c \in AskedOnce : ready[c] = "closed"}
One(b) == IF b THEN 1 ELSE 0

\* Sockets are used in the order of their numbers, and none but the last is held.
Sockets ==
  /\ DOMAIN conn = Conns
  /\ ready \in [Conns -> {"none", "connecting", "open", "closed"}]
  /\ dials \in Nat /\ ws \in 0 .. dials /\ ws \in Conns \cup {0}
  /\ \A c \in Conns : c > dials => ready[c] = "none"
  /\ \A c \in Conns : Live(c) => c = ws

\* Every dial, and every reason for one, is a mount's, a loss's or a refusal's.
Budget ==
  /\ mounts \in 0 .. MaxMounts /\ losses \in 0 .. MaxLosses
  /\ Cardinality(AskedOnce) <= MaxRefusals
  /\ dials + One(pending) + One(timer) <= mounts + losses + Cardinality(TurnedAway)

\* What a mounted page has, one of the three, and what is left of one that is gone.
OneOfThree ==
  /\ pending \in BOOLEAN /\ timer \in BOOLEAN /\ mounted \in BOOLEAN /\ should \in BOOLEAN
  /\ mounted => should
  /\ mounted => \/ Held /\ ~timer /\ ~pending
                \/ ~Held /\ timer /\ ~pending
                \/ ~Held /\ ~timer /\ pending
  /\ ~mounted => ~Held /\ ~timer /\ ~pending

DialInv == Sockets /\ Budget /\ OneOfThree

LEMMA NoSocketIsZero == \A c \in Conns : c \in Nat /\ c # 0
BY ConnsAreNumbered, FS_CardinalityType

LEMMA RefusedCount ==
  /\ Cardinality(AskedOnce) \in Nat /\ Cardinality(TurnedAway) \in Nat
  /\ Cardinality(TurnedAway) <= Cardinality(AskedOnce)
<1>1. IsFiniteSet(AskedOnce) /\ TurnedAway \subseteq AskedOnce
  BY ConnsAreNumbered, FS_Subset DEF AskedOnce, TurnedAway
<1>. QED  BY <1>1, FS_Subset, FS_CardinalityType

\* The next socket exists whenever there is a reason to dial.
LEMMA SocketLeft ==
  ASSUME DialInv, pending \/ timer PROVE dials + 1 \in Conns
<1>1. dials + 1 <= MaxMounts + MaxLosses + MaxRefusals
  BY RefusedCount, PageBounds DEF DialInv, Sockets, Budget, OneOfThree, One
<1>2. Cardinality(Conns) \in Nat
  BY ConnsAreNumbered, FS_CardinalityType
<1>. QED
  BY <1>1, <1>2, ConnsAreNumbered, EnoughConnections, PageBounds DEF DialInv, Sockets

LEMMA DialInit == Init => DialInv
<1>. SUFFICES ASSUME Init PROVE DialInv
  OBVIOUS
<1>1. AskedOnce = {}
  BY DEF Init, ServerInit, AskedOnce
<1>2. Cardinality(AskedOnce) = 0 /\ Cardinality(TurnedAway) = 0
  BY <1>1, FS_EmptySet DEF TurnedAway
<1>3. Sockets
  BY DEF Init, ServerInit, Client!ClientInit, Sockets, Live
<1>4. Budget
  BY <1>2, PageBounds DEF Init, Client!ClientInit, Budget, One
<1>5. OneOfThree
  BY DEF Init, Client!ClientInit, OneOfThree, Held
<1>. QED  BY <1>3, <1>4, <1>5 DEF DialInv

\* A step that closes no socket the server has turned away, and turns none away.
LEMMA SameRefusals ==
  ASSUME UNCHANGED conn, \A c \in Conns : conn[c] = "refused" /\ ready[c] = "closed" => ready'[c] = "closed"
  PROVE  /\ Cardinality(AskedOnce)' = Cardinality(AskedOnce)
         /\ Cardinality(TurnedAway)' \in Nat
         /\ Cardinality(TurnedAway)' >= Cardinality(TurnedAway)
<1>1. AskedOnce' = AskedOnce /\ TurnedAway \subseteq TurnedAway' /\ IsFiniteSet(TurnedAway')
  BY ConnsAreNumbered, FS_Subset DEF AskedOnce, TurnedAway
<1>. QED  BY <1>1, FS_Subset, FS_CardinalityType

\* The server refuses connections, and no more than MaxRefusals.
LEMMA DialServer == ASSUME DialInv, ServerSide PROVE DialInv'
<1>1. UNCHANGED <<ready, ws, dials, should, pending, timer, mounted, mounts, losses>>
  BY DEF ServerSide, ServerNext, ServerStep, client, Broadcast, Accept, Reject, Register, Send,
    Receive, Finish
<1>2. DOMAIN conn' = Conns
  BY DEF ServerSide, ServerNext, ServerStep, Broadcast, Accept, Reject, Register, Send,
    Receive, Finish, DialInv, Sockets
<1>3. Sockets' /\ OneOfThree'
  BY <1>1, <1>2 DEF DialInv, Sockets, OneOfThree, Held, Live
<1>4. TurnedAway \subseteq TurnedAway' /\ Cardinality(AskedOnce)' <= MaxRefusals
  <2>1. CASE \E c \in Conns : Reject(c)
    <3>. PICK c \in Conns : Reject(c)
      BY <2>1
    <3>1. AskedOnce' = AskedOnce \cup {c} /\ c \notin AskedOnce
      BY DEF Reject, AskedOnce, DialInv, Sockets
    <3>2. IsFiniteSet(AskedOnce)
      BY ConnsAreNumbered, FS_Subset DEF AskedOnce
    <3>3. Cardinality(AskedOnce)' = Cardinality(AskedOnce) + 1
      BY <3>1, <3>2, FS_AddElement
    <3>4. Cardinality(AskedOnce) < MaxRefusals
      BY DEF Reject, AskedOnce
    <3>5. TurnedAway \subseteq TurnedAway'
      BY <1>1, <3>1 DEF TurnedAway
    <3>. QED  BY <3>3, <3>4, <3>5, RefusedCount, PageBounds
  <2>2. CASE ~ \E c \in Conns : Reject(c)
    <3>1. AskedOnce' = AskedOnce
      BY <2>2 DEF ServerSide, ServerNext, ServerStep, Broadcast, Accept, Register, Send,
        Receive, Finish, AskedOnce, DialInv, Sockets
    <3>. QED  BY <1>1, <3>1 DEF TurnedAway, DialInv, Budget
  <2>. QED  BY <2>1, <2>2
<1>5. Cardinality(TurnedAway) <= Cardinality(TurnedAway') /\ Cardinality(TurnedAway') \in Nat
  <2>1. IsFiniteSet(TurnedAway')
    BY ConnsAreNumbered, FS_Subset DEF AskedOnce, TurnedAway
  <2>. QED  BY <1>4, <2>1, FS_Subset, FS_CardinalityType
<1>6. Budget'
  BY <1>1, <1>4, <1>5, RefusedCount DEF DialInv, Sockets, Budget, One, OneOfThree
<1>. QED  BY <1>3, <1>6 DEF DialInv

\* A reason to dial becomes a socket.
LEMMA DialTimers == ASSUME DialInv, Timers PROVE DialInv'
<1>1. dials + 1 \in Conns /\ mounted /\ should /\ ~Held
  BY SocketLeft DEF Timers, Client!FireConnect, Client!FireTimer, DialInv, OneOfThree
<1>2. /\ UNCHANGED <<conn, should, mounted, mounts, losses>>
      /\ dials' = dials + 1 /\ ws' = dials + 1
      /\ ready' = [ready EXCEPT ![dials + 1] = "connecting"]
  BY <1>1 DEF Timers, Client!FireConnect, Client!FireTimer, Client!Dial, Client!page,
    Client!counters, server
<1>3. /\ ~pending' /\ ~timer' /\ pending' \in BOOLEAN /\ timer' \in BOOLEAN
      /\ (pending /\ ~timer) \/ (~pending /\ timer)
  <2>1. /\ pending \in BOOLEAN /\ timer \in BOOLEAN
        /\ (pending /\ ~timer) \/ (~pending /\ timer)
    BY <1>1 DEF DialInv, OneOfThree
  <2>2. CASE Client!FireConnect
    BY <2>1, <2>2 DEF Client!FireConnect
  <2>3. CASE Client!FireTimer
    BY <2>1, <2>3 DEF Client!FireTimer
  <2>. QED  BY <2>1, <2>2, <2>3 DEF Timers
<1>4. /\ One(pending) \in Nat /\ One(timer) \in Nat /\ One(pending) + One(timer) = 1
      /\ One(pending') = 0 /\ One(timer') = 0
  BY <1>3 DEF One
<1>5. ready[dials + 1] = "none"
  BY <1>1, NoSocketIsZero DEF DialInv, Sockets
<1>6. Sockets'
  BY <1>1, <1>2, NoSocketIsZero DEF DialInv, Sockets, Live, Held
<1>7. OneOfThree'
  <2>1. ws' # 0 /\ ready'[ws'] = "connecting"
    BY <1>1, <1>2 DEF DialInv, Sockets
  <2>2. Held'
    BY <2>1 DEF Held, Live
  <2>. QED  BY <1>1, <1>2, <1>3, <2>2 DEF DialInv, OneOfThree
<1>8. Budget'
  <2>1. \A c \in Conns : ready[c] = "closed" => ready'[c] = "closed"
    BY <1>1, <1>2, <1>5 DEF DialInv, Sockets
  <2>2. /\ Cardinality(AskedOnce)' = Cardinality(AskedOnce)
        /\ Cardinality(TurnedAway)' \in Nat
        /\ Cardinality(TurnedAway)' >= Cardinality(TurnedAway)
    BY <1>2, <2>1, SameRefusals
  <2>. QED  BY <1>2, <1>4, <2>2, RefusedCount, PageBounds DEF DialInv, Sockets, Budget
<1>. QED  BY <1>6, <1>7, <1>8 DEF DialInv

\* The page comes and goes.
LEMMA DialUser == ASSUME DialInv, User PROVE DialInv'
<1>. USE PageBounds
<1>0. UNCHANGED conn
  BY DEF User, server
<1>1. ASSUME NEW f \in Filters, Client!Mount(f) PROVE DialInv'
  <2>1. /\ ~Held /\ ~timer /\ ~pending /\ pending' = TRUE /\ mounted' = TRUE /\ should' = TRUE
        /\ UNCHANGED <<ready, ws, dials, timer, losses>>
        /\ mounts' = mounts + 1 /\ mounts < MaxMounts
    BY <1>1 DEF Client!Mount, Client!State, DialInv, OneOfThree, Held, Live
  <2>2. Sockets' /\ OneOfThree'
    BY <1>0, <2>1 DEF DialInv, Sockets, OneOfThree, Held, Live
  <2>3. Budget'
    BY <1>0, <2>1, SameRefusals, RefusedCount DEF DialInv, Sockets, Budget, One
  <2>. QED  BY <2>2, <2>3 DEF DialInv
<1>2. CASE (\E f \in Filters : Client!ChangeFilter(f)) \/ Client!TogglePause
  <2>1. UNCHANGED <<ready, ws, dials, should, pending, timer, mounted, mounts, losses>>
    BY <1>2 DEF Client!ChangeFilter, Client!TogglePause, Client!connection, Client!counters
  <2>2. Sockets' /\ OneOfThree'
    BY <1>0, <2>1 DEF DialInv, Sockets, OneOfThree, Held, Live
  <2>3. Budget'
    BY <1>0, <2>1, SameRefusals, RefusedCount DEF DialInv, Sockets, Budget, One
  <2>. QED  BY <2>2, <2>3 DEF DialInv
<1>3. CASE Client!Unmount
  <2>1. /\ mounted' = FALSE /\ should' = FALSE /\ pending' = FALSE /\ timer' = FALSE
        /\ UNCHANGED <<dials, mounts, losses>> /\ ws' \in {ws, 0}
        /\ ws' = ws => ~Held \/ ws = 0
        /\ ready' = IF ws # ws' THEN [ready EXCEPT ![ws] = "closed"] ELSE ready
    BY <1>3 DEF Client!Unmount, Client!counters, DialInv, Sockets, OneOfThree, Held
  <2>2. Sockets' /\ ~Held'
    BY <1>0, <2>1 DEF DialInv, Sockets, Held, Live
  <2>3. OneOfThree'
    BY <2>1, <2>2 DEF OneOfThree
  <2>4. \A c \in Conns : ready[c] = "closed" => ready'[c] = "closed"
    BY <2>1 DEF DialInv, Sockets
  <2>5. Budget'
    BY <1>0, <2>1, <2>4, SameRefusals, RefusedCount DEF DialInv, Sockets, Budget, One
  <2>. QED  BY <2>2, <2>3, <2>5 DEF DialInv
<1>. QED  BY <1>1, <1>2, <1>3 DEF User

\* A socket opens, is lost or turned away.
LEMMA DialNetwork == ASSUME DialInv, Network PROVE DialInv'
<1>. USE PageBounds
<1>0. UNCHANGED <<conn, ws, dials, should, pending, mounted, mounts>>
  BY DEF Network, Opened, Refused, server, Client!Lose, Client!Deliver, Client!Opened,
    Client!CloseEvent, Client!connection, Client!page, Client!counters
<1>1. ASSUME NEW c \in Conns, Client!Deliver(c) \/ Opened(c) PROVE DialInv'
  <2>1. UNCHANGED <<timer, losses>> /\ \A d \in Conns : Live(d)' <=> Live(d)
    BY <1>1 DEF Opened, Client!Deliver, Client!Opened, Client!connection, Client!counters,
      DialInv, Sockets, Live
  <2>2. /\ ready' \in [Conns -> {"none", "connecting", "open", "closed"}]
        /\ \A d \in Conns : ready[d] \in {"none", "closed"} => ready'[d] = ready[d]
    BY <1>1 DEF Opened, Client!Deliver, Client!Opened, DialInv, Sockets
  <2>3. Sockets'
    BY <1>0, <2>1, <2>2 DEF DialInv, Sockets
  <2>4. OneOfThree'
    BY <1>0, <2>1 DEF DialInv, Sockets, OneOfThree, Held
  <2>5. Budget'
    BY <1>0, <2>1, <2>2, SameRefusals, RefusedCount DEF DialInv, Sockets, Budget, One
  <2>. QED  BY <2>3, <2>4, <2>5 DEF DialInv
<1>2. ASSUME NEW c \in Conns, Live(c), Client!CloseEvent(c) PROVE Sockets' /\ OneOfThree'
  <2>0. c = ws /\ ws # 0 /\ Held
    BY <1>2, NoSocketIsZero DEF DialInv, Sockets, Held
  <2>1. c = ws /\ ws # 0 /\ ~timer /\ ~pending /\ mounted /\ should
    BY <2>0 DEF DialInv, OneOfThree
  <2>2. timer' = (timer \/ (ws = c /\ should)) /\ ready' = [ready EXCEPT ![c] = "closed"]
    BY <1>2 DEF Client!CloseEvent
  <2>3. timer' = TRUE
    BY <2>1, <2>2, Zenon
  <2>4. Sockets' /\ ~Held'
    BY <1>0, <2>1, <2>2 DEF DialInv, Sockets, Held, Live
  <2>. QED  BY <1>0, <2>1, <2>3, <2>4 DEF DialInv, OneOfThree
<1>3. ASSUME NEW c \in Conns, Client!Lose(c) PROVE DialInv'
  <2>1. Live(c) /\ Client!CloseEvent(c) /\ losses' = losses + 1 /\ losses < MaxLosses
    BY <1>3 DEF Client!Lose, Live
  <2>2. \A d \in Conns : ready[d] = "closed" => ready'[d] = "closed"
    BY <2>1 DEF Client!CloseEvent, DialInv, Sockets
  <2>3. One(timer)' <= One(timer) + 1 /\ One(timer) \in Nat /\ One(timer)' \in Nat
    BY DEF One
  <2>4. Budget'
    BY <1>0, <2>1, <2>2, <2>3, SameRefusals, RefusedCount DEF DialInv, Sockets, Budget, One
  <2>. QED  BY <1>2, <2>1, <2>4 DEF DialInv
<1>4. ASSUME NEW c \in Conns, Refused(c) PROVE DialInv'
  <2>1. /\ Live(c) /\ Client!CloseEvent(c) /\ UNCHANGED losses /\ conn[c] = "refused"
        /\ ready[c] = "connecting" /\ ready' = [ready EXCEPT ![c] = "closed"]
    BY <1>4 DEF Refused, Client!CloseEvent, Live
  <2>2. AskedOnce' = AskedOnce /\ TurnedAway' = TurnedAway \cup {c} /\ c \notin TurnedAway
    BY <1>0, <2>1 DEF AskedOnce, TurnedAway, DialInv, Sockets
  <2>3. IsFiniteSet(TurnedAway)
    BY ConnsAreNumbered, FS_Subset DEF AskedOnce, TurnedAway
  <2>4. Cardinality(TurnedAway)' = Cardinality(TurnedAway) + 1
    BY <2>2, <2>3, FS_AddElement
  <2>5. One(timer)' <= One(timer) + 1 /\ One(timer) \in Nat /\ One(timer)' \in Nat
    BY DEF One
  <2>6. Budget'
    BY <1>0, <2>1, <2>2, <2>4, <2>5, RefusedCount DEF DialInv, Sockets, Budget, One
  <2>. QED  BY <1>2, <2>1, <2>6 DEF DialInv
<1>. QED  BY <1>1, <1>3, <1>4 DEF Network

LEMMA DialStep == DialInv /\ [Next]_vars => DialInv'
<1>. SUFFICES ASSUME DialInv, [Next]_vars PROVE DialInv'
  OBVIOUS
<1>1. CASE UNCHANGED vars
  BY <1>1 DEF vars, server, client, DialInv, Sockets, Budget, OneOfThree, AskedOnce, TurnedAway,
    Held, Live, One
<1>. QED  BY <1>1, DialServer, DialTimers, DialUser, DialNetwork DEF Next

\* A page on screen has exactly one socket, reconnect timer or deferred connect, one that has
\* gone has none, and no socket but the one held is alive (websocket.ts, whatever connect,
\* disconnect, timers and the server do in which order).
THEOREM OneSocketAtATime == Spec => []OneConnection
<1>1. DialInv => OneConnection
  <2>. SUFFICES ASSUME DialInv PROVE OneConnection
    OBVIOUS
  <2>. DEFINE sockets == {c \in Conns : ready[c] \in {"connecting", "open"}}
  <2>1. /\ Held => sockets = {ws}
        /\ ~Held => sockets = {}
    BY NoSocketIsZero DEF DialInv, Sockets, Held, Live
  <2>2. Cardinality(sockets) = IF Held THEN 1 ELSE 0
    BY <2>1, FS_EmptySet, FS_Singleton
  <2>3. sockets \subseteq {ws}
    BY <2>1
  <2>. HIDE DEF sockets
  <2>4. Cardinality(sockets) + (IF timer THEN 1 ELSE 0) + (IF pending THEN 1 ELSE 0)
          = IF mounted THEN 1 ELSE 0
    BY <2>2 DEF DialInv, OneOfThree
  <2>. QED  BY <2>3, <2>4 DEF OneConnection, sockets
<1>. QED  BY <1>1, DialInit, DialStep, PTL DEF Spec
-----------------------------------------------------------------------------
(* The page's rows.  What the socket held still has to deliver, on the wire *)
(* or in its queue, is newer than every row shown: a live message can go in *)
(* front.  A replay may be older, but it replaces the rows.                 *)

\* A request announced singly is a message of one request, and nothing is sent on a
\* connection before it has a socket.
SentShape ==
  /\ \A c \in Conns : ready[c] = "none" => conn[c] = "none"
  /\ \A c \in Conns : \A i \in DOMAIN toClient[c] :
       toClient[c][i].type = "new" => Len(toClient[c][i].data) = 1

RowsShape == rows \in Seq(Nat) /\ seen \in [Conns -> Nat]

RowsAnnounced == \A a \in DOMAIN rows : rows[a] <= Len(hostOf)

\* Every row is older than what is queued for the socket c and than its live messages
\* that the browser has not delivered.
OlderThanComing(c) ==
  \A a \in DOMAIN rows :
    /\ \A k \in DOMAIN queue[c] : rows[a] < queue[c][k]
    /\ \A i \in DOMAIN toClient[c] :
         i > seen[c] /\ toClient[c][i].type = "new" => rows[a] < toClient[c][i].data[1]

RowsInv ==
  /\ SentShape /\ RowsShape /\ RowsNewestFirst /\ RowsAnnounced
  /\ ws # 0 => OlderThanComing(ws)

LEMMA LeastExists ==
  ASSUME NEW T, T \subseteq Nat, T # {}
  PROVE  \E n \in T : \A m \in T : n <= m
<1>1. PICK n \in T : \A m \in T : ~ (<<m, n>> \in OpToRel(<, Nat))
  BY NatLessThanWellFounded, WFMin
<1>2. \A m \in T : ~ (m < n)
  BY <1>1 DEF OpToRel
<1>. QED  BY <1>2

\* The client module counts as the server module does.
LEMMA SameCardinality == \A S : Client!Cardinality(S) = Cardinality(S)
BY DEF Client!Cardinality, Cardinality

LEMMA GreatestExists ==
  ASSUME NEW N \in Nat, NEW S, S \subseteq 1 .. N, S # {}
  PROVE  \E x \in S : \A y \in S : y <= x
<1>. DEFINE T == {N - x : x \in S}
<1>0. \A x \in S : x \in Nat /\ x <= N
  OBVIOUS
<1>1. T \subseteq Nat /\ T # {}
  <2>1. \A x \in S : N - x \in Nat
    BY <1>0
  <2>. QED  BY <2>1
<1>2. PICK n \in T : \A m \in T : n <= m
  BY <1>1, LeastExists
<1>3. PICK x \in S : n = N - x
  BY <1>2
<1>4. \A y \in S : N - x <= N - y
  BY <1>2, <1>3
<1>. QED  BY <1>0, <1>4

AtLeast(S, x) == {y \in S : y >= x}

LEMMA InAtLeast == \A S, x, y : y \in AtLeast(S, x) <=> y \in S /\ y >= x
BY DEF AtLeast

LEMMA AtLeastFinite ==
  ASSUME NEW N \in Nat, NEW S, S \subseteq 1 .. N
  PROVE  /\ IsFiniteSet(S)
         /\ \A x : IsFiniteSet(AtLeast(S, x)) /\ AtLeast(S, x) \subseteq S
<1>1. IsFiniteSet(1 .. N)
  BY FS_Interval
<1>2. IsFiniteSet(S)
  BY <1>1, FS_Subset
<1>3. \A x : AtLeast(S, x) \subseteq S
  BY DEF AtLeast
<1>. QED  BY <1>2, <1>3, FS_Subset

\* There is an element that n elements are not below, for every n there can be.
LEMMA NthGreatest ==
  ASSUME NEW N \in Nat, NEW S, S \subseteq 1 .. N
  PROVE  \A n \in 1 .. Cardinality(S) : \E x \in S : Cardinality(AtLeast(S, x)) = n
<1>. DEFINE Has(n) == \E x \in S : Cardinality(AtLeast(S, x)) = n
            T == {n \in 1 .. Cardinality(S) : ~Has(n)}
<1>0. IsFiniteSet(S) /\ Cardinality(S) \in Nat 
  BY AtLeastFinite, FS_CardinalityType
<1>8. \A x \in S : x \in Nat
  OBVIOUS
<1>1. SUFFICES ASSUME T # {} PROVE FALSE
  OBVIOUS
<1>2. T \subseteq Nat
  BY <1>0
<1>3. PICK m \in T : \A n \in T : m <= n
  BY <1>1, <1>2, LeastExists
<1>4. m \in 1 .. Cardinality(S) /\ ~Has(m)
  OBVIOUS
<1>5. S # {}
  BY <1>0, <1>4, FS_EmptySet
<1>6. CASE m = 1
  <2>1. PICK x \in S : \A y \in S : y <= x
    BY <1>5, GreatestExists
  <2>4. ASSUME NEW y \in S PROVE y >= x <=> y = x
    <3>1. x \in Nat /\ y \in Nat /\ y <= x
      BY <1>8, <2>1
    <3>. QED  BY <3>1
  <2>3. x \in AtLeast(S, x) /\ \A y \in AtLeast(S, x) : y = x
    BY <2>4 DEF AtLeast
  <2>2. AtLeast(S, x) = {x}
    BY <2>3
  <2>. QED  BY <1>4, <1>6, <2>2, FS_Singleton
<1>7. CASE m # 1
  <2>1. m - 1 \in 1 .. Cardinality(S) /\ m - 1 < m /\ m - 1 \in Nat /\ m \in Nat
    BY <1>0, <1>4, <1>7
  <2>2. Has(m - 1)
    BY <1>3, <2>1
  <2>3. PICK z \in S : Cardinality(AtLeast(S, z)) = m - 1
    BY <2>2
  <2>. DEFINE B == {y \in S : y < z}
  <2>4. B # {}
    <3>1. SUFFICES ASSUME B = {} PROVE FALSE
      OBVIOUS
    <3>3. \A y \in S : ~ (y < z)
      BY <3>1
    <3>4. \A y \in S : y >= z
      BY <1>8, <3>3
    <3>5. \A y : y \in AtLeast(S, z) <=> y \in S
      BY <3>4, InAtLeast
    <3>2. AtLeast(S, z) = S
      BY <3>5
    <3>. QED  BY <1>0, <1>4, <2>1, <2>3, <3>2
  <2>5. PICK x \in B : \A y \in B : y <= x
    BY <2>4, GreatestExists
  <2>. HIDE DEF T
  <2>9. x \in S /\ x < z /\ \A y \in S : y < z => y <= x
    BY <2>5
  <2>11. ASSUME NEW y \in S PROVE y >= x <=> y >= z \/ y = x
    <3>1. x \in Nat /\ y \in Nat /\ z \in Nat
      BY <1>8, <2>9
    <3>2. x < z /\ (y < z => y <= x)
      BY <2>9
    <3>. QED  BY <3>1, <3>2
  <2>10. /\ x \in AtLeast(S, x) /\ \A y \in AtLeast(S, z) : y \in AtLeast(S, x)
         /\ \A y \in AtLeast(S, x) : y \in AtLeast(S, z) \/ y = x
    BY <2>9, <2>11 DEF AtLeast
  <2>12. x \notin AtLeast(S, z)
    BY <1>8, <2>9 DEF AtLeast
  <2>6. AtLeast(S, x) = AtLeast(S, z) \cup {x} /\ x \notin AtLeast(S, z)
    BY <2>10, <2>12
  <2>8. IsFiniteSet(AtLeast(S, z))
    BY AtLeastFinite
  <2>7. Cardinality(AtLeast(S, x)) = m - 1 + 1
    BY <2>3, <2>6, <2>8, FS_AddElement
  <2>. QED  BY <1>4, <2>1, <2>5, <2>7
<1>. QED  BY <1>6, <1>7

\* Descending lists elements of the set, greatest first.
LEMMA DescendingDescends ==
  ASSUME NEW N \in Nat, NEW S, S \subseteq 1 .. N
  PROVE  /\ DOMAIN Client!Descending(S) = 1 .. Cardinality(S) /\ Cardinality(S) \in Nat
         /\ \A n \in 1 .. Cardinality(S) : Client!Descending(S)[n] \in S
         /\ \A i, j \in 1 .. Cardinality(S) :
              i < j => Client!Descending(S)[i] > Client!Descending(S)[j]
<1>. DEFINE d == Client!Descending(S)
<1>0. d = [n \in 1 .. Cardinality(S) |-> CHOOSE x \in S : Cardinality({y \in S : y >= x}) = n]
  BY Zenon DEF Client!Descending, Client!Cardinality, Cardinality
<1>. HIDE DEF d
<1>1. DOMAIN d = 1 .. Cardinality(S) /\ Cardinality(S) \in Nat
  BY <1>0, AtLeastFinite, FS_CardinalityType
<1>2. ASSUME NEW n \in 1 .. Cardinality(S)
      PROVE  d[n] \in S /\ Cardinality(AtLeast(S, d[n])) = n
  <2>1. d[n] = CHOOSE x \in S : Cardinality({y \in S : y >= x}) = n
    BY <1>0
  <2>2. d[n] = CHOOSE x \in S : Cardinality(AtLeast(S, x)) = n
    BY <2>1 DEF AtLeast
  <2>3. \E x \in S : Cardinality(AtLeast(S, x)) = n
    BY NthGreatest
  <2>. QED  BY <2>2, <2>3
<1>8. \A x \in S : x \in Nat
  OBVIOUS
<1>3. ASSUME NEW i \in 1 .. Cardinality(S), NEW j \in 1 .. Cardinality(S), i < j
      PROVE  d[i] > d[j]
  <2>0. d[i] \in Nat /\ d[j] \in Nat
    BY <1>2, <1>8
  <2>1. SUFFICES ASSUME d[i] <= d[j] PROVE FALSE
    BY <2>0
  <2>2. AtLeast(S, d[j]) \subseteq AtLeast(S, d[i])
    <3>1. \A y \in S : y >= d[j] => y >= d[i]
      BY <1>8, <2>0, <2>1
    <3>. QED  BY <3>1, InAtLeast
  <2>3. Cardinality(AtLeast(S, d[j])) <= Cardinality(AtLeast(S, d[i]))
    BY <2>2, AtLeastFinite, FS_Subset
  <2>. QED  BY <1>1, <1>2, <1>3, <2>3
<1>. QED  BY <1>1, <1>2, <1>3 DEF d

Increasing(s) == \A a, b \in DOMAIN s : a < b => s[a] < s[b]
Decreasing(s) == \A a, b \in DOMAIN s : a < b => s[a] > s[b]

\* What a replay shows is part of it, last first.
LEMMA ShownDecreases ==
  ASSUME NEW data \in Seq(Nat), Increasing(data)
  PROVE  /\ Client!Shown(data) \in Seq(Nat) /\ Decreasing(Client!Shown(data))
         /\ \A n \in DOMAIN Client!Shown(data) :
              \E k \in DOMAIN data : Client!Shown(data)[n] = data[k]
<1>. DEFINE S == {k \in DOMAIN data : pageFilter # NoHost => hostOf[data[k]] = pageFilter}
            kept == Client!Descending(S)
            N == Cardinality(S)
<1>1. Client!Shown(data) = [n \in DOMAIN kept |-> data[kept[n]]]
  BY DEF Client!Shown
<1>2. S \in SUBSET (1 .. Len(data)) /\ Len(data) \in Nat /\ S \subseteq DOMAIN data
  OBVIOUS
<1>. HIDE DEF S
<1>3. /\ DOMAIN kept = 1 .. N /\ N \in Nat
      /\ \A n \in 1 .. N : kept[n] \in S
      /\ \A i, j \in 1 .. N : i < j => kept[i] > kept[j]
  BY <1>2, DescendingDescends
<1>. HIDE DEF kept, N
<1>4. \A n \in 1 .. N : kept[n] \in DOMAIN data /\ kept[n] \in Nat /\ data[kept[n]] \in Nat
  BY <1>2, <1>3
<1>5. Client!Shown(data) = [n \in 1 .. N |-> data[kept[n]]]
  BY <1>1, <1>3
<1>6. Client!Shown(data) \in Seq(Nat)
  BY <1>3, <1>4, <1>5
<1>7. ASSUME NEW i \in 1 .. N, NEW j \in 1 .. N, i < j
      PROVE  data[kept[i]] > data[kept[j]]
  <2>1. data[kept[j]] < data[kept[i]]
    BY <1>3, <1>4, <1>7 DEF Increasing
  <2>. QED  BY <1>4, <2>1
<1>. QED  BY <1>4, <1>5, <1>6, <1>7 DEF Decreasing

\* The page keeps the first rows.
LEMMA NewestKeeps ==
  ASSUME NEW S, NEW s \in Seq(S)
  PROVE  /\ Client!Newest(s) \in Seq(S) /\ Len(Client!Newest(s)) <= MaxRows
         /\ \A a \in DOMAIN Client!Newest(s) : a \in DOMAIN s /\ Client!Newest(s)[a] = s[a]
<1>. DEFINE m == IF Len(s) < MaxRows THEN Len(s) ELSE MaxRows
<1>1. m \in Nat /\ m <= Len(s) /\ m <= MaxRows /\ Len(s) \in Nat
  BY PageBounds
<1>2. Client!Newest(s) = SubSeq(s, 1, m)
  BY DEF Client!Newest
<1>. HIDE DEF m
<1>3. /\ SubSeq(s, 1, m) \in Seq(S) /\ Len(SubSeq(s, 1, m)) = m
      /\ \A a \in 1 .. m : SubSeq(s, 1, m)[a] = s[a]
  BY <1>1
<1>. QED  BY <1>1, <1>2, <1>3

\* A replay the page is sent contains nothing twice and nothing before an older request.
LEMMA SentIncreases ==
  ASSUME WireInv, NEW c \in Conns, NEW i \in DOMAIN toClient[c]
  PROVE  toClient[c][i].data \in Seq(Nat) /\ Increasing(toClient[c][i].data)
<1>1. toClient[c] \in Seq([type : {"replay", "new"}, data : Seq(Nat)])
  BY DEF WireInv, Shape
<1>2. toClient[c][i] \in [type : {"replay", "new"}, data : Seq(Nat)]
  BY <1>1, SeqElement
<1>. QED  BY <1>2 DEF WireInv, WireInOrder, Increasing

LEMMA RowsInit == Init => RowsInv
<1>. SUFFICES ASSUME Init PROVE RowsInv
  OBVIOUS
<1>1. /\ rows = <<>> /\ seen = [c \in Conns |-> 0] /\ ws = 0
      /\ conn = [c \in Conns |-> "none"] /\ toClient = [c \in Conns |-> <<>>]
  BY DEF Init, ServerInit, Client!ClientInit
<1>. QED
  BY <1>1, ConnsAreNumbered DEF RowsInv, SentShape, RowsShape, RowsNewestFirst, RowsAnnounced

\* A step that empties the rows, or leaves them, and sends nothing new.
LEMMA RowsStutter ==
  ASSUME RowsInv, rows' \in {rows, <<>>}, UNCHANGED <<hostOf, queue, toClient, seen>>,
         ws' \in {ws, 0}, \A c \in Conns : ready'[c] = "none" => conn'[c] = "none"
  PROVE  RowsInv'
<1>1. SentShape'
  <2>1. \A c \in Conns : \A i \in DOMAIN toClient'[c] :
          toClient'[c][i].type = "new" => Len(toClient'[c][i].data) = 1
    BY DEF RowsInv, SentShape
  <2>. QED  BY <2>1 DEF SentShape
<1>3. RowsShape' /\ RowsAnnounced' /\ RowsNewestFirst'
  <2>1. CASE rows' = rows
    BY <2>1 DEF RowsInv, RowsShape, RowsAnnounced, RowsNewestFirst
  <2>2. CASE rows' = <<>>
    BY <2>2 DEF RowsInv, RowsShape, RowsAnnounced, RowsNewestFirst
  <2>. QED  BY <2>1, <2>2
<1>2. ws' # 0 => OlderThanComing(ws)'
  <2>1. CASE rows' = rows
    BY <2>1 DEF RowsInv, OlderThanComing
  <2>2. CASE rows' = <<>>
    BY <2>2 DEF OlderThanComing
  <2>. QED  BY <2>1, <2>2
<1>. QED  BY <1>1, <1>2, <1>3 DEF RowsInv

\* A message that is on the wire after a step of the server was there before, or it is the
\* head of the queue, or a replay.
LEMMA SentByServer ==
  ASSUME WireInv, ServerSide, NEW c \in Conns, NEW i \in DOMAIN toClient'[c]
  PROVE  \/ i \in DOMAIN toClient[c] /\ toClient'[c][i] = toClient[c][i]
         \/ 1 \in DOMAIN queue[c] /\ toClient'[c][i].data = <<queue[c][1]>>
         \/ toClient'[c][i].type = "replay" /\ toClient'[c][i].data = Replay
<1>1. CASE UNCHANGED toClient
  BY <1>1
<1>2. ASSUME NEW d \in Conns, Accept(d), toClient' # toClient
      PROVE  \/ i \in DOMAIN toClient[c] /\ toClient'[c][i] = toClient[c][i]
             \/ toClient'[c][i].type = "replay" /\ toClient'[c][i].data = Replay
  <2>1. toClient' = [toClient EXCEPT ![d] = <<[type |-> "replay", data |-> Replay]>>]
    BY <1>2 DEF Accept
  <2>2. CASE c = d
    <3>1. toClient'[c] = <<[type |-> "replay", data |-> Replay]>>
      BY <2>1, <2>2 DEF WireInv, Shape
    <3>2. toClient'[c][i] = [type |-> "replay", data |-> Replay]
      BY <3>1
    <3>. QED  BY <3>2
  <2>3. CASE c # d
    BY <2>1, <2>3 DEF WireInv, Shape
  <2>. QED  BY <2>2, <2>3
<1>3. ASSUME NEW d \in Conns, Send(d), toClient' # toClient
      PROVE  \/ i \in DOMAIN toClient[c] /\ toClient'[c][i] = toClient[c][i]
             \/ 1 \in DOMAIN queue[c] /\ toClient'[c][i].data = <<queue[c][1]>>
  <2>. DEFINE msg == [type |-> "new", data |-> <<Head(queue[d])>>]
  <2>1. toClient' = [toClient EXCEPT ![d] = Append(@, msg)] /\ queue[d] # <<>>
    BY <1>3 DEF Send
  <2>2. CASE c # d
    BY <2>1, <2>2 DEF WireInv, Shape
  <2>3. CASE c = d
    <3>1. /\ toClient[c] \in Seq([type : {"replay", "new"}, data : Seq(Nat)])
          /\ queue[c] \in Seq(Nat)
      BY DEF WireInv, Shape
    <3>2. 1 \in DOMAIN queue[c] /\ Head(queue[c]) = queue[c][1]
      BY <2>1, <2>3, <3>1
    <3>3. msg.data = <<queue[c][1]>>
      BY <2>3, <3>2
    <3>. HIDE DEF msg
    <3>4. toClient'[c] = Append(toClient[c], msg)
      BY <2>1, <2>3 DEF WireInv, Shape
    <3>5. \/ i \in DOMAIN toClient[c] /\ toClient'[c][i] = toClient[c][i]
          \/ toClient'[c][i] = msg
      BY <3>1, <3>4
    <3>. QED  BY <3>2, <3>3, <3>5
  <2>. QED  BY <2>2, <2>3
<1>. QED
  BY <1>1, <1>2, <1>3 DEF ServerSide, ServerNext, ServerStep, Broadcast, Reject, Register, Receive,
    Finish

\* What the server sends or queues on a connection is newer than what the page shows.
LEMMA RowsServer == ASSUME WireInv, DialInv, RowsInv, ServerSide PROVE RowsInv'
<1>1. UNCHANGED <<ready, seen, ws, rows>> /\ RowsShape' /\ RowsNewestFirst'
  BY DEF ServerSide, ServerNext, ServerStep, client, Broadcast, Accept, Reject, Register, Send,
    Receive, Finish, RowsInv, RowsShape, RowsNewestFirst
<1>2. SentShape'
  <2>1. ASSUME NEW c \in Conns, ready[c] = "none" PROVE conn'[c] = "none"
    BY <2>1 DEF ServerSide, ServerNext, ServerStep, Broadcast, Accept, Reject, Register, Send,
      Receive, Finish, RowsInv, SentShape, DialInv, Sockets
  <2>2. ASSUME NEW c \in Conns, NEW i \in DOMAIN toClient'[c], toClient'[c][i].type = "new"
        PROVE  Len(toClient'[c][i].data) = 1
    <3>1. CASE i \in DOMAIN toClient[c] /\ toClient'[c][i] = toClient[c][i]
      BY <2>2, <3>1 DEF RowsInv, SentShape
    <3>2. CASE toClient'[c][i].data = <<queue[c][1]>>
      BY <3>2
    <3>. QED  BY <2>2, <3>1, <3>2, SentByServer
  <2>. QED  BY <1>1, <2>1, <2>2 DEF SentShape
<1>3. RowsAnnounced'
  <2>1. Len(hostOf) \in Nat /\ Len(hostOf') >= Len(hostOf) /\ Len(hostOf') \in Nat
    <3>1. hostOf' = hostOf \/ \E h \in Hosts : hostOf' = Append(hostOf, h)
      BY DEF ServerSide, ServerNext, ServerStep, Broadcast, Accept, Reject, Register, Send,
        Receive, Finish
    <3>2. hostOf \in Seq(Hosts)
      BY DEF WireInv, Shape
    <3>. QED  BY <3>1, <3>2
  <2>2. \A a \in DOMAIN rows : rows[a] \in Nat /\ rows[a] <= Len(hostOf)
    BY DEF RowsInv, RowsShape, RowsAnnounced
  <2>. QED  BY <1>1, <2>1, <2>2 DEF RowsAnnounced
<1>4. ASSUME ws # 0 PROVE OlderThanComing(ws)'
  <2>. SUFFICES ASSUME NEW a \in DOMAIN rows
                PROVE  /\ \A k \in DOMAIN queue'[ws] : rows[a] < queue'[ws][k]
                       /\ \A i \in DOMAIN toClient'[ws] :
                            i > seen[ws] /\ toClient'[ws][i].type = "new"
                              => rows[a] < toClient'[ws][i].data[1]
    BY <1>1 DEF OlderThanComing
  <2>1. ws \in Conns /\ rows[a] \in Nat /\ rows[a] <= Len(hostOf) /\ Len(hostOf) \in Nat
    BY <1>4 DEF DialInv, Sockets, RowsInv, RowsShape, RowsAnnounced, WireInv, Shape
  <2>2. /\ \A k \in DOMAIN queue[ws] : rows[a] < queue[ws][k]
        /\ \A i \in DOMAIN toClient[ws] :
             i > seen[ws] /\ toClient[ws][i].type = "new" => rows[a] < toClient[ws][i].data[1]
    BY <1>4 DEF RowsInv, OlderThanComing
  <2>3. ASSUME NEW k \in DOMAIN queue'[ws] PROVE rows[a] < queue'[ws][k]
    <3>1. CASE UNCHANGED queue
      BY <2>2, <3>1
    <3>2. ASSUME NEW h \in Hosts, Broadcast(h) PROVE rows[a] < queue'[ws][k]
      BY <2>1, <2>2, <3>2, BroadcastQueue
    <3>3. ASSUME NEW c \in Conns, Send(c) PROVE rows[a] < queue'[ws][k]
      <4>1. CASE c = ws
        BY <2>2, <3>3, <4>1, SendQueue
      <4>2. CASE c # ws
        <5>1. queue'[ws] = queue[ws]
          BY <2>1, <3>3, <4>2 DEF Send, WireInv, Shape
        <5>. QED  BY <2>2, <5>1
      <4>. QED  BY <4>1, <4>2
    <3>. QED
      BY <3>1, <3>2, <3>3 DEF ServerSide, ServerNext, ServerStep, Accept, Reject, Register, Receive,
        Finish
  <2>4. ASSUME NEW i \in DOMAIN toClient'[ws], i > seen[ws], toClient'[ws][i].type = "new"
        PROVE  rows[a] < toClient'[ws][i].data[1]
    BY <2>1, <2>2, <2>4, SentByServer
  <2>. QED  BY <2>3, <2>4
<1>. QED  BY <1>1, <1>2, <1>3, <1>4 DEF RowsInv

\* A new socket has nothing to deliver yet.
LEMMA RowsTimers == ASSUME WireInv, DialInv, RowsInv, Timers PROVE RowsInv'
<1>1. dials + 1 \in Conns /\ should
  BY SocketLeft DEF Timers, Client!FireConnect, Client!FireTimer, DialInv, OneOfThree
<1>2. /\ UNCHANGED <<hostOf, queue, toClient, conn, rows, seen>>
      /\ ws' = dials + 1 /\ ready' = [ready EXCEPT ![dials + 1] = "connecting"]
  BY <1>1 DEF Timers, Client!FireConnect, Client!FireTimer, Client!Dial, Client!page, server
<1>3. ready[dials + 1] = "none"
  BY <1>1, NoSocketIsZero DEF DialInv, Sockets
<1>4. queue[dials + 1] = <<>> /\ toClient[dials + 1] = <<>>
  BY <1>1, <1>3 DEF RowsInv, SentShape, WireInv, Fresh
<1>5. OlderThanComing(ws)'
  BY <1>2, <1>4 DEF OlderThanComing
<1>6. \A c \in Conns : ready'[c] = "none" => ready[c] = "none"
  BY <1>2 DEF DialInv, Sockets
<1>7. SentShape'
  BY <1>2, <1>6 DEF RowsInv, SentShape
<1>8. RowsShape' /\ RowsAnnounced' /\ RowsNewestFirst'
  BY <1>2 DEF RowsInv, RowsShape, RowsAnnounced, RowsNewestFirst
<1>. QED  BY <1>5, <1>7, <1>8 DEF RowsInv

LEMMA RowsUser == ASSUME DialInv, RowsInv, User PROVE RowsInv'
<1>1. UNCHANGED <<hostOf, queue, toClient, conn, seen>>
  BY DEF User, server, Client!Mount, Client!ChangeFilter, Client!TogglePause, Client!Unmount
<1>2. rows' \in {rows, <<>>} /\ ws' \in {ws, 0}
  BY DEF User, Client!Mount, Client!ChangeFilter, Client!TogglePause, Client!Unmount,
    Client!connection
<1>3. \A c \in Conns : ready'[c] = "none" => ready[c] = "none"
  BY DEF User, Client!Mount, Client!ChangeFilter, Client!TogglePause, Client!Unmount, DialInv,
    Sockets
<1>4. \A c \in Conns : ready'[c] = "none" => conn'[c] = "none"
  BY <1>1, <1>3 DEF RowsInv, SentShape
<1>. QED  BY <1>1, <1>2, <1>4, RowsStutter

LEMMA OneInFront ==
  ASSUME NEW s \in Seq(Nat), NEW u \in Seq(Nat), Len(s) = 1
  PROVE  /\ s \o u \in Seq(Nat) /\ (s \o u)[1] = s[1]
         /\ \A a \in DOMAIN (s \o u) : a \in Nat /\ a >= 1
         /\ \A a \in DOMAIN (s \o u) : a # 1 => a - 1 \in DOMAIN u /\ (s \o u)[a] = u[a - 1]
<1>0. /\ s \o u \in Seq(Nat) /\ Len(s \o u) = Len(s) + Len(u)
      /\ \A a \in 1 .. Len(s) + Len(u) :
           (s \o u)[a] = IF a <= Len(s) THEN s[a] ELSE u[a - Len(s)]
  BY ConcatProperties, Zenon
<1>1. s \o u \in Seq(Nat) /\ Len(s \o u) = 1 + Len(u) /\ Len(u) \in Nat
  BY <1>0
<1>2. DOMAIN (s \o u) = 1 .. 1 + Len(u) /\ DOMAIN u = 1 .. Len(u)
  BY <1>1
<1>3. \A a \in 1 .. 1 + Len(u) : (s \o u)[a] = IF a <= 1 THEN s[a] ELSE u[a - 1]
  BY <1>0, <1>1
<1>. QED  BY <1>1, <1>2, <1>3

\* What comes in front of the rows is newer than they are, what replaces them need not be;
\* both are older than what is still to come.
LEMMA RowsDeliver ==
  ASSUME WireInv, DialInv, RowsInv, NEW c \in Conns, Client!Deliver(c), UNCHANGED server
  PROVE  RowsInv'
<1>. DEFINE at == seen[c] + 1
            msg == toClient[c][at]
<1>1. /\ UNCHANGED <<hostOf, queue, toClient, conn, ready, ws>>
      /\ seen' = [seen EXCEPT ![c] = @ + 1] /\ seen[c] < Len(toClient[c])
  BY DEF Client!Deliver, Client!connection, server
<1>2. /\ seen[c] \in Nat /\ seen' \in [Conns -> Nat]
      /\ toClient[c] \in Seq([type : {"replay", "new"}, data : Seq(Nat)])
      /\ at \in DOMAIN toClient[c] /\ at \in Nat
  <2>1. seen[c] \in Nat /\ seen' \in [Conns -> Nat]
    BY <1>1 DEF RowsInv, RowsShape
  <2>2. toClient[c] \in Seq([type : {"replay", "new"}, data : Seq(Nat)])
    BY DEF WireInv, Shape
  <2>. QED  BY <1>1, <2>1, <2>2
<1>3. /\ msg.data \in Seq(Nat) /\ Increasing(msg.data)
      /\ \A b \in DOMAIN msg.data : msg.data[b] <= Len(hostOf)
  BY <1>2, SentIncreases DEF WireInv, SentBeforeQueued
<1>4. SentShape'
  BY <1>1 DEF RowsInv, SentShape
<1>5. \A d \in Conns : seen'[d] >= seen[d] /\ seen[d] \in Nat /\ seen'[d] \in Nat
  BY <1>1, <1>2 DEF RowsInv, RowsShape
<1>6. CASE rows' = rows
  <2>1. RowsShape' /\ RowsAnnounced' /\ RowsNewestFirst'
    BY <1>1, <1>2, <1>6 DEF RowsInv, RowsShape, RowsAnnounced, RowsNewestFirst
  <2>2. ASSUME ws # 0 PROVE OlderThanComing(ws)'
    <3>1. ws \in Conns /\ OlderThanComing(ws) /\ toClient[ws] \in Seq([type : {"replay", "new"}, data : Seq(Nat)])
      BY <2>2 DEF RowsInv, DialInv, Sockets, WireInv, Shape
    <3>2. \A i \in DOMAIN toClient[ws] : i > seen'[ws] => i > seen[ws]
      BY <1>5, <3>1
    <3>. QED  BY <1>1, <1>6, <3>1, <3>2 DEF OlderThanComing
  <2>. QED  BY <1>1, <1>4, <2>1, <2>2 DEF RowsInv
<1>7. ASSUME NEW new \in Seq(Nat), rows' = Client!Newest(new), Decreasing(new), ws = c,
             \A a \in DOMAIN new :
               \/ \E b \in DOMAIN msg.data : new[a] = msg.data[b]
               \/ msg.type = "new" /\ \E b \in DOMAIN rows : new[a] = rows[b]
      PROVE  RowsInv'
  <2>1. /\ rows' \in Seq(Nat)
        /\ \A a \in DOMAIN rows' : a \in DOMAIN new /\ rows'[a] = new[a]
    BY <1>7, NewestKeeps
  <2>2. RowsShape'
    BY <1>2, <2>1 DEF RowsShape
  <2>3. RowsNewestFirst'
    BY <1>7, <2>1 DEF RowsNewestFirst, Decreasing
  <2>4. \A b \in DOMAIN rows : rows[b] <= Len(hostOf)
    BY DEF RowsInv, RowsAnnounced
  <2>5. RowsAnnounced'
    <3>. HIDE DEF msg
    <3>. QED  BY <1>1, <1>3, <1>7, <2>1, <2>4 DEF RowsAnnounced
  <2>6. ASSUME NEW k \in DOMAIN queue[c]
        PROVE  /\ \A b \in DOMAIN msg.data : msg.data[b] < queue[c][k]
               /\ \A b \in DOMAIN rows : rows[b] < queue[c][k]
    <3>1. \A b \in DOMAIN msg.data : msg.data[b] < queue[c][k]
      BY <1>2 DEF WireInv, SentBeforeQueued
    <3>2. c # 0 /\ OlderThanComing(c)
      BY <1>7, NoSocketIsZero DEF RowsInv
    <3>. QED  BY <3>1, <3>2 DEF OlderThanComing
  <2>7. ASSUME NEW i \in DOMAIN toClient[c], i > at, toClient[c][i].type = "new"
        PROVE  /\ \A b \in DOMAIN msg.data : msg.data[b] < toClient[c][i].data[1]
               /\ \A b \in DOMAIN rows : rows[b] < toClient[c][i].data[1]
    <3>1. toClient[c][i].data \in Seq(Nat) /\ Len(toClient[c][i].data) = 1
      BY <2>7, SentIncreases DEF RowsInv, SentShape
    <3>2. 1 \in DOMAIN toClient[c][i].data /\ at < i
      BY <1>2, <2>7, <3>1
    <3>3. \A b \in DOMAIN msg.data : msg.data[b] < toClient[c][i].data[1]
      BY <1>2, <3>2 DEF WireInv, WireInOrder
    <3>4. c # 0 /\ OlderThanComing(c) /\ i > seen[c]
      <4>1. i \in Nat
        BY <1>2
      <4>. QED  BY <1>2, <1>7, <2>7, <4>1, NoSocketIsZero DEF RowsInv
    <3>. QED  BY <2>7, <3>3, <3>4 DEF OlderThanComing
  <2>8. seen'[c] = at
    BY <1>1 DEF RowsInv, RowsShape
  <2>9. OlderThanComing(c)'
    <3>. HIDE DEF msg, at
    <3>. QED  BY <1>1, <1>7, <2>1, <2>6, <2>7, <2>8 DEF OlderThanComing
  <2>. QED  BY <1>1, <1>4, <1>7, <2>2, <2>3, <2>5, <2>9 DEF RowsInv
<1>8. CASE ws = c /\ rows' = Client!Newest(Client!Shown(msg.data))
  <2>. HIDE DEF msg
  <2>1. /\ Client!Shown(msg.data) \in Seq(Nat) /\ Decreasing(Client!Shown(msg.data))
        /\ \A n \in DOMAIN Client!Shown(msg.data) :
             \E k \in DOMAIN msg.data : Client!Shown(msg.data)[n] = msg.data[k]
    BY <1>3, ShownDecreases
  <2>. QED  BY <1>7, <1>8, <2>1
<1>9. CASE ws = c /\ msg.type = "new" /\ rows' = Client!Newest(msg.data \o rows)
  <2>1. Len(msg.data) = 1 /\ rows \in Seq(Nat)
    BY <1>2, <1>9 DEF RowsInv, SentShape, RowsShape
  <2>2. /\ 1 \in DOMAIN msg.data /\ msg.data[1] \in Nat
        /\ \A b \in DOMAIN rows : rows[b] < msg.data[1]
    <3>1. c # 0 /\ OlderThanComing(c) /\ at > seen[c]
      BY <1>2, <1>9, NoSocketIsZero DEF RowsInv
    <3>2. \A b \in DOMAIN rows : rows[b] < msg.data[1]
      BY <1>2, <1>9, <3>1 DEF OlderThanComing
    <3>. HIDE DEF msg
    <3>. QED  BY <1>3, <2>1, <3>2
  <2>. HIDE DEF msg
  <2>. DEFINE new == msg.data \o rows
  <2>3. /\ new \in Seq(Nat) /\ new[1] = msg.data[1]
        /\ \A a \in DOMAIN new : a \in Nat /\ a >= 1
        /\ \A a \in DOMAIN new : a # 1 => a - 1 \in DOMAIN rows /\ new[a] = rows[a - 1]
    BY <1>3, <2>1, OneInFront
  <2>7. \A b \in DOMAIN rows : rows[b] \in Nat
    BY <2>1
  <2>. HIDE DEF new
  <2>5. Decreasing(new)
    <3>1. ASSUME NEW a \in DOMAIN new, NEW b \in DOMAIN new, a < b PROVE new[a] > new[b]
      <4>0. a \in Nat /\ b \in Nat /\ a >= 1 /\ b # 1
        BY <2>3, <3>1
      <4>1. /\ a \in Nat /\ b \in Nat /\ b - 1 \in DOMAIN rows /\ new[b] = rows[b - 1]
            /\ rows[b - 1] \in Nat
        BY <2>3, <2>7, <4>0
      <4>2. CASE a = 1
        BY <2>2, <2>3, <4>1, <4>2
      <4>3. CASE a # 1
        <5>1. a - 1 \in DOMAIN rows /\ new[a] = rows[a - 1] /\ a - 1 < b - 1
          BY <2>3, <3>1, <4>1, <4>3
        <5>. QED  BY <4>1, <5>1 DEF RowsInv, RowsNewestFirst
      <4>. QED  BY <4>2, <4>3
    <3>. QED  BY <3>1 DEF Decreasing
  <2>6. \A a \in DOMAIN new : \/ \E b \in DOMAIN msg.data : new[a] = msg.data[b]
                              \/ msg.type = "new" /\ \E b \in DOMAIN rows : new[a] = rows[b]
    BY <1>9, <2>2, <2>3
  <2>8. rows' = Client!Newest(new)
    BY <1>9 DEF new
  <2>. QED  BY <1>7, <1>9, <2>3, <2>5, <2>6, <2>8
<1>10. msg.type \in {"replay", "new"}
  <2>1. msg \in [type : {"replay", "new"}, data : Seq(Nat)]
    BY <1>2, SeqElement
  <2>. QED  BY <2>1
<1>. QED
  BY <1>6, <1>8, <1>9, <1>10 DEF Client!Deliver, Client!Current, Client!ShowReplay

\* Where the rows come from when a delivery changes them.
LEMMA DeliveredFrom ==
  ASSUME WireInv, RowsInv, NEW c \in Conns, Client!Deliver(c), rows' # rows
  PROVE  \E new \in Seq(Nat) :
           /\ rows' = Client!Newest(new)
           /\ \A a \in DOMAIN new :
                \/ \E b \in DOMAIN toClient[c][seen[c] + 1].data :
                     new[a] = toClient[c][seen[c] + 1].data[b]
                \/ \E b \in DOMAIN rows : new[a] = rows[b]
<1>. DEFINE at == seen[c] + 1
            msg == toClient[c][at]
<1>1. /\ toClient[c] \in Seq([type : {"replay", "new"}, data : Seq(Nat)])
      /\ seen[c] \in Nat /\ seen[c] < Len(toClient[c])
  BY DEF WireInv, Shape, RowsInv, RowsShape, Client!Deliver
<1>2. at \in DOMAIN toClient[c]
  BY <1>1
<1>3. msg.data \in Seq(Nat) /\ Increasing(msg.data) /\ rows \in Seq(Nat)
  BY <1>2, SentIncreases DEF RowsInv, RowsShape
<1>4. msg \in [type : {"replay", "new"}, data : Seq(Nat)]
  BY <1>1, <1>2, SeqElement
<1>5. msg.type = "new" => Len(msg.data) = 1
  BY <1>2 DEF RowsInv, SentShape
<1>6. \/ rows' = Client!Newest(Client!Shown(msg.data))
      \/ msg.type = "new" /\ rows' = Client!Newest(msg.data \o rows)
  BY <1>4 DEF Client!Deliver, Client!ShowReplay
<1>. HIDE DEF msg
<1>7. CASE rows' = Client!Newest(Client!Shown(msg.data))
  BY <1>3, <1>7, ShownDecreases DEF msg
<1>8. CASE msg.type = "new" /\ rows' = Client!Newest(msg.data \o rows)
  <2>1. /\ msg.data \o rows \in Seq(Nat) /\ (msg.data \o rows)[1] = msg.data[1]
        /\ 1 \in DOMAIN msg.data
        /\ \A a \in DOMAIN (msg.data \o rows) :
             a # 1 => a - 1 \in DOMAIN rows /\ (msg.data \o rows)[a] = rows[a - 1]
    <3>1. Len(msg.data) = 1
      BY <1>5, <1>8
    <3>2. 1 \in DOMAIN msg.data
      BY <1>3, <3>1
    <3>. QED  BY <1>3, <3>1, <3>2, OneInFront
  <2>2. \A a \in DOMAIN (msg.data \o rows) :
          \/ \E b \in DOMAIN msg.data : (msg.data \o rows)[a] = msg.data[b]
          \/ \E b \in DOMAIN rows : (msg.data \o rows)[a] = rows[b]
    BY <2>1
  <2>. QED  BY <1>8, <2>1, <2>2 DEF msg
<1>. QED  BY <1>6, <1>7, <1>8

LEMMA RowsNetwork == ASSUME WireInv, DialInv, RowsInv, Network PROVE RowsInv'
<1>1. CASE \E c \in Conns : Client!Deliver(c) /\ UNCHANGED server
  BY <1>1, RowsDeliver
<1>2. CASE \E c \in Conns : (Client!Lose(c) /\ UNCHANGED server) \/ Opened(c) \/ Refused(c)
  <2>1. /\ UNCHANGED <<hostOf, queue, toClient, conn, seen, rows, ws>>
        /\ \A c \in Conns : ready'[c] = "none" => ready[c] = "none"
    BY <1>2 DEF Client!Lose, Client!CloseEvent, Client!Opened, Opened, Refused, server,
      Client!connection, Client!page, DialInv, Sockets
  <2>2. \A c \in Conns : ready'[c] = "none" => conn'[c] = "none"
    BY <2>1 DEF RowsInv, SentShape
  <2>. QED  BY <2>1, <2>2, RowsStutter
<1>. QED  BY <1>1, <1>2 DEF Network

LEMMA RowsStep == WireInv /\ DialInv /\ RowsInv /\ [Next]_vars => RowsInv'
<1>. SUFFICES ASSUME WireInv, DialInv, RowsInv, [Next]_vars PROVE RowsInv'
  OBVIOUS
<1>1. CASE UNCHANGED vars
  <2>1. UNCHANGED <<hostOf, queue, toClient, conn, ready, seen, rows, ws>>
    BY <1>1 DEF vars, server, client
  <2>2. \A c \in Conns : ready'[c] = "none" => conn'[c] = "none"
    BY <2>1 DEF RowsInv, SentShape
  <2>. QED  BY <2>1, <2>2, RowsStutter
<1>. QED  BY <1>1, RowsServer, RowsTimers, RowsUser, RowsNetwork DEF Next

\* The rows of the page are newest first and without repetition, across reconnects, replays,
\* pauses and changes of filter: a replay may overlap what is shown, but replaces it, and what
\* a socket still has to deliver singly is newer than everything on the page (RealTime.tsx,
\* realtime.py).
THEOREM RowsStayInOrder == Spec => []RowsNewestFirst
<1>1. RowsInv => RowsNewestFirst
  BY DEF RowsInv
<1>. QED
  BY <1>1, WireInit, WireStep, DialInit, DialStep, RowsInit, RowsStep, PTL DEF Spec
-----------------------------------------------------------------------------
(* The types, with the bounds on every queue and list.                      *)

\* The sides of a connection and what the client says on it.
Talk ==
  /\ conn \in [Conns -> {"none", "refused", "replaying", "serving", "closed"}]
  /\ filter \in [Conns -> Filters] /\ toServer \in [Conns -> Seq(Filters)]
  /\ taken \in [Conns -> Nat] /\ \A c \in Conns : taken[c] <= Len(toServer[c])
  /\ pageFilter \in Filters /\ paused \in BOOLEAN

\* Requests are counted from one, and no more than MaxRequests are announced.
Counted ==
  /\ Len(hostOf) <= MaxRequests
  /\ \A c \in Conns : \A k \in DOMAIN queue[c] : queue[c][k] >= 1
  /\ \A c \in Conns : \A i \in DOMAIN toClient[c] : \A a \in DOMAIN toClient[c][i].data :
       toClient[c][i].data[a] >= 1
  /\ \A a \in DOMAIN rows : rows[a] >= 1

Bounded ==
  /\ \A c \in Conns : Len(queue[c]) <= QueueSize /\ seen[c] <= Len(toClient[c])
  /\ Len(rows) <= MaxRows /\ dials <= Cardinality(Conns)

TypeInv == Talk /\ Counted /\ Bounded

LEMMA TypesInit == Init => TypeInv
<1>. SUFFICES ASSUME Init PROVE TypeInv
  OBVIOUS
<1>1. Talk
  <2>1. /\ conn = [c \in Conns |-> "none"] /\ filter = [c \in Conns |-> NoHost]
        /\ toServer = [c \in Conns |-> <<>>] /\ taken = [c \in Conns |-> 0]
        /\ pageFilter \in Filters /\ paused = FALSE
    BY DEF Init, ServerInit, Client!ClientInit
  <2>2. NoHost \in Filters /\ <<>> \in Seq(Filters) /\ Len(<<>>) = 0
    BY DEF Filters
  <2>3. conn \in [Conns -> {"none", "refused", "replaying", "serving", "closed"}]
    BY <2>1
  <2>4. filter \in [Conns -> Filters] /\ toServer \in [Conns -> Seq(Filters)]
    BY <2>1, <2>2
  <2>5. taken \in [Conns -> Nat] /\ \A c \in Conns : taken[c] <= Len(toServer[c])
    BY <2>1, <2>2
  <2>. QED  BY <2>1, <2>3, <2>4, <2>5 DEF Talk
<1>2. Counted
  <2>1. /\ hostOf = <<>> /\ rows = <<>> /\ queue = [c \in Conns |-> <<>>]
        /\ toClient = [c \in Conns |-> <<>>]
    BY DEF Init, ServerInit, Client!ClientInit
  <2>. QED  BY <2>1, RequestsAreBounded DEF Counted
<1>3. Bounded
  <2>1. /\ dials = 0 /\ rows = <<>> /\ queue = [c \in Conns |-> <<>>]
        /\ toClient = [c \in Conns |-> <<>>] /\ seen = [c \in Conns |-> 0]
    BY DEF Init, ServerInit, Client!ClientInit
  <2>2. 0 <= QueueSize /\ 0 <= MaxRows /\ Cardinality(Conns) >= 0
    BY PageBounds, ConnsAreNumbered, FS_CardinalityType
  <2>. QED  BY <2>1, <2>2 DEF Bounded
<1>. QED  BY <1>1, <1>2, <1>3 DEF TypeInv

LEMMA TalkStep == ASSUME Talk, DialInv, Next PROVE Talk'
<1>1. CASE ServerSide
  <2>1. UNCHANGED <<toServer, pageFilter, paused>>
    BY <1>1 DEF ServerSide, ServerNext, ServerStep, client, Broadcast, Accept, Reject, Register,
      Send, Receive, Finish
  <2>2. conn' \in [Conns -> {"none", "refused", "replaying", "serving", "closed"}]
    BY <1>1 DEF ServerSide, ServerNext, ServerStep, Broadcast, Accept, Reject, Register,
      Send, Receive, Finish, Talk
  <2>3. CASE UNCHANGED <<filter, taken>>
    BY <2>1, <2>2, <2>3 DEF Talk
  <2>4. ASSUME NEW c \in Conns, Receive(c) PROVE Talk'
    <3>1. /\ taken[c] \in Nat /\ taken[c] + 1 <= Len(toServer[c]) /\ toServer[c] \in Seq(Filters)
          /\ taken' = [taken EXCEPT ![c] = @ + 1]
          /\ filter' = [filter EXCEPT ![c] = toServer[c][taken[c] + 1]]
      BY <2>4 DEF Receive, Talk
    <3>2. toServer[c][taken[c] + 1] \in Filters
      BY <3>1
    <3>. QED  BY <2>1, <2>2, <3>1, <3>2 DEF Talk
  <2>. QED
    BY <1>1, <2>3, <2>4 DEF ServerSide, ServerNext, ServerStep, Broadcast, Accept, Reject, Register,
      Send, Finish
<1>2. CASE User
  <2>1. UNCHANGED <<conn, filter, taken>>
    BY <1>2 DEF User, server
  <2>2. pageFilter' \in Filters /\ paused' \in BOOLEAN
    BY <1>2 DEF User, Talk, Client!Mount, Client!ChangeFilter, Client!TogglePause, Client!Unmount
  <2>3. CASE UNCHANGED toServer
    BY <2>1, <2>2, <2>3 DEF Talk
  <2>4. ASSUME NEW f \in Filters, Client!ChangeFilter(f), toServer' # toServer PROVE Talk'
    <3>1. ws \in Conns /\ toServer' = [toServer EXCEPT ![ws] = Append(@, f)]
      BY <2>4 DEF Client!ChangeFilter, Client!State, DialInv, Sockets
    <3>2. toServer[ws] \in Seq(Filters)
      BY <3>1 DEF Talk
    <3>3. Append(toServer[ws], f) \in Seq(Filters)
            /\ Len(Append(toServer[ws], f)) = Len(toServer[ws]) + 1 /\ Len(toServer[ws]) \in Nat
      BY <3>2
    <3>. QED  BY <2>1, <2>2, <3>1, <3>3 DEF Talk
  <2>. QED  BY <1>2, <2>3, <2>4 DEF User, Client!Mount, Client!TogglePause, Client!Unmount
<1>3. CASE Timers \/ Network
  <2>1. UNCHANGED <<conn, filter, taken, toServer, pageFilter, paused>>
    BY <1>3 DEF Timers, Network, Opened, Refused, server, Client!FireConnect, Client!FireTimer,
      Client!page, Client!Lose, Client!CloseEvent, Client!Opened, Client!Deliver
  <2>. QED  BY <2>1 DEF Talk
<1>. QED  BY <1>1, <1>2, <1>3 DEF Next

LEMMA CountedStep == ASSUME WireInv, DialInv, RowsInv, Counted, Next PROVE Counted'
<1>1. CASE ServerSide
  <2>1. Len(hostOf) \in Nat /\ hostOf \in Seq(Hosts)
    BY DEF WireInv, Shape
  <2>2. rows' = rows
    BY <1>1 DEF ServerSide, client
  <2>3. Len(hostOf') <= MaxRequests
    <3>1. hostOf' = hostOf \/ \E h \in Hosts : hostOf' = Append(hostOf, h) /\ Len(hostOf) < MaxRequests
      BY <1>1 DEF ServerSide, ServerNext, ServerStep, Broadcast, Accept, Reject, Register, Send,
        Receive, Finish, Announced
    <3>. QED  BY <2>1, <3>1, RequestsAreBounded DEF Counted
  <2>4. ASSUME NEW c \in Conns, NEW k \in DOMAIN queue'[c] PROVE queue'[c][k] >= 1
    <3>1. CASE UNCHANGED queue
      BY <3>1 DEF Counted
    <3>2. ASSUME NEW h \in Hosts, Broadcast(h) PROVE queue'[c][k] >= 1
      BY <2>1, <3>2, BroadcastQueue DEF Counted
    <3>3. ASSUME NEW d \in Conns, Send(d) PROVE queue'[c][k] >= 1
      <4>1. CASE c = d
        BY <3>3, <4>1, SendQueue DEF Counted
      <4>2. CASE c # d
        <5>1. queue'[c] = queue[c]
          BY <3>3, <4>2 DEF Send, WireInv, Shape
        <5>. QED  BY <5>1 DEF Counted
      <4>. QED  BY <4>1, <4>2
    <3>. QED
      BY <1>1, <3>1, <3>2, <3>3 DEF ServerSide, ServerNext, ServerStep, Accept, Reject, Register,
        Receive, Finish
  <2>5. ASSUME NEW c \in Conns, NEW i \in DOMAIN toClient'[c], NEW a \in DOMAIN toClient'[c][i].data
        PROVE  toClient'[c][i].data[a] >= 1
    <3>1. CASE i \in DOMAIN toClient[c] /\ toClient'[c][i] = toClient[c][i]
      BY <3>1 DEF Counted
    <3>2. CASE 1 \in DOMAIN queue[c] /\ toClient'[c][i].data = <<queue[c][1]>>
      BY <3>2 DEF Counted
    <3>3. CASE toClient'[c][i].data = Replay
      BY <2>1, <3>3, ReplayInOrder
    <3>. QED  BY <1>1, <3>1, <3>2, <3>3, SentByServer
  <2>. QED  BY <2>2, <2>3, <2>4, <2>5 DEF Counted
<1>2. CASE User \/ Timers \/ Network
  <2>1. UNCHANGED <<hostOf, queue, toClient>>
    BY <1>2 DEF User, Timers, Network, Opened, Refused, server
  <2>2. CASE rows' \in {rows, <<>>}
    BY <2>1, <2>2 DEF Counted
  <2>3. ASSUME NEW c \in Conns, Client!Deliver(c), rows' # rows
        PROVE  \A a \in DOMAIN rows' : rows'[a] >= 1
    <3>. DEFINE at == seen[c] + 1
                msg == toClient[c][at]
    <3>1. PICK new \in Seq(Nat) :
            /\ rows' = Client!Newest(new)
            /\ \A a \in DOMAIN new : \/ \E b \in DOMAIN msg.data : new[a] = msg.data[b]
                                     \/ \E b \in DOMAIN rows : new[a] = rows[b]
      BY <2>3, DeliveredFrom
    <3>2. at \in DOMAIN toClient[c]
      <4>1. toClient[c] \in Seq([type : {"replay", "new"}, data : Seq(Nat)]) /\ seen[c] \in Nat
        BY DEF WireInv, Shape, RowsInv, RowsShape
      <4>. QED  BY <2>3, <4>1 DEF Client!Deliver
    <3>3. \A b \in DOMAIN msg.data : msg.data[b] >= 1
      BY <3>2 DEF Counted
    <3>4. \A b \in DOMAIN rows : rows[b] >= 1
      BY DEF Counted
    <3>. HIDE DEF msg
    <3>. QED  BY <3>1, <3>3, <3>4, NewestKeeps
  <2>. QED
    BY <1>2, <2>1, <2>2, <2>3 DEF Counted, User, Timers, Network, Opened, Refused, Client!Mount,
      Client!ChangeFilter, Client!TogglePause, Client!Unmount, Client!FireConnect, Client!FireTimer,
      Client!page, Client!Lose, Client!CloseEvent, Client!Opened
<1>. QED  BY <1>1, <1>2 DEF Next

LEMMA BoundedStep == ASSUME WireInv, DialInv, RowsInv, Bounded, Next PROVE Bounded'
<1>1. CASE ServerSide
  <2>1. UNCHANGED <<rows, seen, dials>>
    BY <1>1 DEF ServerSide, client
  <2>2. ASSUME NEW c \in Conns PROVE Len(queue'[c]) <= QueueSize
    <3>1. queue[c] \in Seq(Nat) /\ Len(queue[c]) <= QueueSize
      BY DEF Bounded, WireInv, Shape
    <3>2. \/ queue'[c] = queue[c]
          \/ queue'[c] = Append(queue[c], Len(hostOf) + 1) /\ Len(queue[c]) < QueueSize
          \/ queue[c] # <<>> /\ queue'[c] = Tail(queue[c])
      BY <1>1 DEF ServerSide, ServerNext, ServerStep, Broadcast, Accept, Reject, Register, Send,
        Receive, Finish, WireInv, Shape, Announced
    <3>3. Len(hostOf) + 1 \in Nat
      BY DEF WireInv, Shape
    <3>4. CASE queue'[c] = Append(queue[c], Len(hostOf) + 1) /\ Len(queue[c]) < QueueSize
      <4>1. Len(queue'[c]) = Len(queue[c]) + 1
        BY <3>1, <3>3, <3>4
      <4>. QED  BY <3>1, <3>4, <4>1
    <3>5. CASE queue[c] # <<>> /\ queue'[c] = Tail(queue[c])
      <4>1. Len(queue'[c]) = Len(queue[c]) - 1
        BY <3>1, <3>5
      <4>. QED  BY <3>1, <4>1
    <3>. QED  BY <3>1, <3>2, <3>4, <3>5
  <2>3. ASSUME NEW c \in Conns PROVE seen[c] <= Len(toClient'[c])
    <3>1. toClient[c] \in Seq([type : {"replay", "new"}, data : Seq(Nat)])
            /\ seen[c] <= Len(toClient[c]) /\ seen[c] \in Nat
      BY DEF Bounded, WireInv, Shape, RowsInv, RowsShape
    <3>2. CASE UNCHANGED toClient
      BY <3>1, <3>2
    <3>3. ASSUME NEW d \in Conns, Accept(d), toClient' # toClient PROVE seen[c] <= Len(toClient'[c])
      <4>1. toClient' = [toClient EXCEPT ![d] = <<[type |-> "replay", data |-> Replay]>>]
              /\ toClient[d] = <<>>
        BY <3>3 DEF Accept, WireInv, Fresh
      <4>2. CASE c = d
        <5>1. Len(toClient'[c]) = 1 /\ Len(toClient[c]) = 0
          BY <4>1, <4>2 DEF WireInv, Shape
        <5>. QED  BY <3>1, <5>1
      <4>3. CASE c # d
        BY <3>1, <4>1, <4>3 DEF WireInv, Shape
      <4>. QED  BY <4>2, <4>3
    <3>4. ASSUME NEW d \in Conns, Send(d), toClient' # toClient PROVE seen[c] <= Len(toClient'[c])
      <4>. DEFINE msg == [type |-> "new", data |-> <<Head(queue[d])>>]
      <4>1. toClient' = [toClient EXCEPT ![d] = Append(@, msg)] /\ queue[d] \in Seq(Nat) /\ queue[d] # <<>>
        BY <3>4 DEF Send, WireInv, Shape
      <4>2. msg \in [type : {"replay", "new"}, data : Seq(Nat)]
        BY <4>1
      <4>. HIDE DEF msg
      <4>3. CASE c = d
        <5>1. toClient'[c] = Append(toClient[c], msg)
          BY <4>1, <4>3 DEF WireInv, Shape
        <5>2. Len(toClient'[c]) = Len(toClient[c]) + 1 /\ Len(toClient[c]) \in Nat
          BY <3>1, <4>2, <5>1
        <5>. QED  BY <3>1, <5>2
      <4>4. CASE c # d
        BY <3>1, <4>1, <4>4 DEF WireInv, Shape
      <4>. QED  BY <4>3, <4>4
    <3>. QED
      BY <1>1, <3>2, <3>3, <3>4 DEF ServerSide, ServerNext, ServerStep, Broadcast, Reject, Register,
        Receive, Finish
  <2>. QED  BY <2>1, <2>2, <2>3 DEF Bounded
<1>2. CASE User \/ Network
  <2>1. UNCHANGED <<dials, queue, toClient>>
    BY <1>2 DEF User, Network, Opened, Refused, server, Client!Mount, Client!ChangeFilter,
      Client!TogglePause, Client!Unmount, Client!Lose, Client!CloseEvent, Client!Opened,
      Client!Deliver, Client!connection
  <2>2. ASSUME NEW c \in Conns PROVE seen'[c] <= Len(toClient[c])
    <3>1. CASE UNCHANGED seen
      BY <3>1 DEF Bounded
    <3>2. ASSUME NEW d \in Conns, Client!Deliver(d) PROVE seen'[c] <= Len(toClient[c])
      <4>1. seen' = [seen EXCEPT ![d] = @ + 1] /\ seen[d] < Len(toClient[d]) /\ seen[d] \in Nat
              /\ Len(toClient[d]) \in Nat
        BY <3>2 DEF Client!Deliver, RowsInv, RowsShape, WireInv, Shape
      <4>. QED  BY <4>1 DEF Bounded, RowsInv, RowsShape
    <3>. QED
      BY <1>2, <3>1, <3>2 DEF User, Network, Opened, Refused, Client!Mount, Client!ChangeFilter,
        Client!TogglePause, Client!Unmount, Client!Lose, Client!CloseEvent, Client!Opened
  <2>3. Len(rows') <= MaxRows
    <3>1. CASE rows' \in {rows, <<>>}
      BY <3>1, PageBounds DEF Bounded
    <3>2. ASSUME NEW d \in Conns, Client!Deliver(d), rows' # rows PROVE Len(rows') <= MaxRows
      <4>1. PICK new \in Seq(Nat) : rows' = Client!Newest(new)
        BY <3>2, DeliveredFrom
      <4>. QED  BY <4>1, NewestKeeps
    <3>. QED
      BY <1>2, <3>1, <3>2 DEF User, Network, Opened, Refused, Client!Mount, Client!ChangeFilter,
        Client!TogglePause, Client!Unmount, Client!Lose, Client!CloseEvent, Client!Opened, Client!page
  <2>. QED  BY <2>1, <2>2, <2>3 DEF Bounded
<1>3. CASE Timers
  <2>1. dials + 1 \in Conns /\ should
    BY <1>3, SocketLeft DEF Timers, Client!FireConnect, Client!FireTimer, DialInv, OneOfThree
  <2>2. UNCHANGED <<queue, toClient, rows, seen>> /\ dials' = dials + 1
    BY <1>3, <2>1 DEF Timers, Client!FireConnect, Client!FireTimer, Client!Dial, Client!page, server
  <2>3. dials + 1 <= Cardinality(Conns)
    BY <2>1, ConnsAreNumbered, FS_CardinalityType
  <2>. QED  BY <2>2, <2>3 DEF Bounded
<1>. QED  BY <1>1, <1>2, <1>3 DEF Next

LEMMA TypesStep == WireInv /\ DialInv /\ RowsInv /\ TypeInv /\ [Next]_vars => TypeInv'
<1>. SUFFICES ASSUME WireInv, DialInv, RowsInv, TypeInv, [Next]_vars PROVE TypeInv'
  OBVIOUS
<1>1. CASE UNCHANGED vars
  BY <1>1 DEF vars, server, client, Client!connection, TypeInv, Talk, Counted, Bounded
<1>. QED  BY <1>1, TalkStep, CountedStep, BoundedStep DEF TypeInv

LEMMA SeqOf ==
  ASSUME NEW S, NEW T, NEW s \in Seq(S), \A a \in DOMAIN s : s[a] \in T
  PROVE  s \in Seq(T)
<1>1. \A a \in 1 .. Len(s) : s[a] \in T
  OBVIOUS
<1>2. Len(s) \in Nat /\ s = [a \in 1 .. Len(s) |-> s[a]]
  OBVIOUS
<1>. QED  BY <1>1, <1>2

LEMMA BoundedSeq ==
  ASSUME NEW n \in Nat, NEW s \in Seq(Nat), \A a \in DOMAIN s : 1 <= s[a] /\ s[a] <= n
  PROVE  s \in Seq(1 .. n)
<1>1. \A a \in DOMAIN s : s[a] \in 1 .. n
  OBVIOUS
<1>. QED  BY <1>1, SeqOf

\* Every variable of the endpoint and of the page has its type, with every queue, list of
\* rows and number of sockets within its bound and nothing on a wire, in a queue or on the
\* page that was not announced (realtime.py, websocket.ts, RealTime.tsx).
THEOREM RealtimeTyped == Spec => []TypeOK
<1>1. ASSUME WireInv, DialInv, RowsInv, TypeInv PROVE TypeOK
  <2>1. Announced \in Nat /\ Announced = Len(hostOf)
    BY <1>1 DEF Announced, WireInv, Shape
  <2>2. ASSUME NEW c \in Conns PROVE queue[c] \in Seq(1 .. Announced)
    <3>1. queue[c] \in Seq(Nat) /\ \A k \in DOMAIN queue[c] : 1 <= queue[c][k] /\ queue[c][k] <= Announced
      <4>1. queue[c] \in Seq(Nat)
        BY <1>1 DEF WireInv, Shape
      <4>2. \A k \in DOMAIN queue[c] : queue[c][k] \in Nat
        BY <4>1
      <4>. QED  BY <1>1, <2>1, <4>1, <4>2 DEF WireInv, QueueInOrder, TypeInv, Counted
    <3>. QED  BY <2>1, <3>1, BoundedSeq
  <2>3. ASSUME NEW c \in Conns
        PROVE  toClient[c] \in Seq([type : {"replay", "new"}, data : Seq(1 .. Announced)])
    <3>1. toClient[c] \in Seq([type : {"replay", "new"}, data : Seq(Nat)])
      BY <1>1 DEF WireInv, Shape
    <3>2. ASSUME NEW i \in DOMAIN toClient[c]
          PROVE  toClient[c][i] \in [type : {"replay", "new"}, data : Seq(1 .. Announced)]
      <4>1. toClient[c][i] \in [type : {"replay", "new"}, data : Seq(Nat)]
        BY <3>1, SeqElement
      <4>2. \A a \in DOMAIN toClient[c][i].data :
              1 <= toClient[c][i].data[a] /\ toClient[c][i].data[a] <= Announced
        <5>1. \A a \in DOMAIN toClient[c][i].data : toClient[c][i].data[a] \in Nat
          BY <4>1
        <5>. QED  BY <1>1, <2>1, <5>1 DEF WireInv, SentBeforeQueued, TypeInv, Counted
      <4>3. toClient[c][i].data \in Seq(1 .. Announced)
        BY <2>1, <4>1, <4>2, BoundedSeq
      <4>. QED  BY <4>1, <4>3
    <3>. DEFINE Old == [type : {"replay", "new"}, data : Seq(Nat)]
                Sent == [type : {"replay", "new"}, data : Seq(1 .. Announced)]
    <3>3. toClient[c] \in Seq(Old) /\ \A i \in DOMAIN toClient[c] : toClient[c][i] \in Sent
      BY <3>1, <3>2
    <3>. HIDE DEF Old, Sent
    <3>4. toClient[c] \in Seq(Sent)
      BY <3>3, SeqOf
    <3>. QED  BY <3>4 DEF Sent
  <2>4. rows \in Seq(1 .. Announced)
    <3>1. rows \in Seq(Nat)
      BY <1>1 DEF RowsInv, RowsShape
    <3>2. \A a \in DOMAIN rows : 1 <= rows[a] /\ rows[a] <= Announced
      <4>1. \A a \in DOMAIN rows : rows[a] \in Nat
        BY <3>1
      <4>. QED  BY <1>1, <2>1, <4>1 DEF RowsInv, RowsAnnounced, TypeInv, Counted
    <3>. QED  BY <2>1, <3>1, <3>2, BoundedSeq
  <2>5. ServerTypeOK
    <3>1. queue \in [Conns -> Seq(1 .. Announced)]
      BY <1>1, <2>2 DEF WireInv, Shape
    <3>2. toClient \in [Conns -> Seq([type : {"replay", "new"}, data : Seq(1 .. Announced)])]
      BY <1>1, <2>3 DEF WireInv, Shape
    <3>3. \A c \in Conns : taken[c] \in 0 .. Len(toServer[c])
      BY <1>1 DEF TypeInv, Talk
    <3>. QED
      BY <1>1, <2>1, <3>1, <3>2, <3>3 DEF ServerTypeOK, WireInv, Shape, DialInv, Sockets, TypeInv, Talk,
        Counted, Bounded
  <2>6. Client!ClientTypeOK
    <3>1. \A c \in Conns : seen[c] \in 0 .. Len(toClient[c])
      <4>1. \A c \in Conns : toClient[c] \in Seq([type : {"replay", "new"}, data : Seq(Nat)])
        BY <1>1 DEF WireInv, Shape
      <4>. QED  BY <1>1, <4>1 DEF TypeInv, Bounded, RowsInv, RowsShape
    <3>2. Client!Cardinality(Conns) = Cardinality(Conns) /\ Cardinality(Conns) \in Nat
      BY SameCardinality, ConnsAreNumbered, FS_CardinalityType
    <3>3. dials \in 0 .. Client!Cardinality(Conns)
      BY <1>1, <3>2 DEF DialInv, Sockets, TypeInv, Bounded
    <3>. QED
      BY <1>1, <2>1, <2>4, <3>1, <3>3 DEF Client!ClientTypeOK, DialInv, Sockets, OneOfThree, TypeInv, Talk,
        Bounded
  <2>. QED  BY <2>5, <2>6 DEF TypeOK
<1>. QED
  BY <1>1, WireInit, WireStep, DialInit, DialStep, RowsInit, RowsStep, TypesInit, TypesStep, PTL DEF Spec
=============================================================================
