--------------------------- MODULE RealtimeClient ---------------------------
(***************************************************************************)
(* The browser's end: the wsClient singleton of lib/websocket.ts and the   *)
(* page that uses it, pages/RealTime.tsx.  A mounted page dials through a  *)
(* deferred connect, redials after a lost connection by a timer, and shows *)
(* the rows it is sent; an unmounted page has torn everything down.        *)
(***************************************************************************)
EXTENDS Integers, Sequences, FiniteSets

CONSTANTS
  Conns, Filters, NoHost,
  MaxRows,      \* rows the page keeps
  MaxMounts, MaxLosses, MaxFilterChanges   \* bounds

VARIABLES
  ready, toServer, toClient, hostOf,   \* shared with the server
  seen,        \* how many messages of each connection the browser has delivered
  ws,          \* the socket wsClient holds, 0 for none
  dials,       \* sockets created so far
  should,      \* shouldReconnect
  pending,     \* the deferred initial connect is scheduled
  timer,       \* a reconnect timer is running
  mounted,     \* the page is on screen
  paused,
  pageFilter,  \* filters.host of the URL
  rows,        \* what the page keeps, newest first
  mounts, losses, changes   \* counters of the bounds

connection == <<ws, dials, should, pending, timer>>
page == <<mounted, paused, pageFilter, rows>>
counters == <<mounts, losses, changes>>
client == <<seen, connection, page, counters>>

ClientTypeOK ==
  /\ \A c \in Conns : seen[c] \in 0 .. Len(toClient[c])
  /\ ws \in Conns \cup {0} /\ dials \in 0 .. Cardinality(Conns)
  /\ should \in BOOLEAN /\ pending \in BOOLEAN /\ timer \in BOOLEAN
  /\ mounted \in BOOLEAN /\ paused \in BOOLEAN /\ pageFilter \in Filters
  /\ rows \in Seq(1 .. Len(hostOf)) /\ Len(rows) <= MaxRows

ClientInit ==
  /\ seen = [c \in Conns |-> 0]
  /\ ws = 0 /\ dials = 0 /\ should = TRUE /\ pending = FALSE /\ timer = FALSE
  /\ mounted = FALSE /\ paused = FALSE /\ pageFilter \in Filters /\ rows = <<>>
  /\ mounts = 0 /\ losses = 0 /\ changes = 0

State(c) == IF c = 0 THEN "none" ELSE ready[c]

\* The page appears, under whatever filter the URL carries: connect(), and the filter
\* effect, whose send finds no open socket.
Mount(f) ==
  /\ ~mounted /\ mounts < MaxMounts
  /\ mounts' = mounts + 1
  /\ mounted' = TRUE /\ paused' = FALSE /\ pageFilter' = f /\ rows' = <<>>
  /\ should' = TRUE
  /\ pending' = (pending \/ State(ws) \notin {"open", "connecting"})
  /\ UNCHANGED <<ready, toServer, seen, ws, dials, timer, losses, changes>>

\* _connect: a new socket takes the place of the one held.
Dial ==
  /\ dials' = dials + 1
  /\ ws' = dials + 1
  /\ ready' = [ready EXCEPT ![dials + 1] = "connecting"]

FireConnect ==
  /\ pending
  /\ pending' = FALSE
  /\ IF should THEN Dial ELSE UNCHANGED <<dials, ws, ready>>
  /\ UNCHANGED <<toServer, seen, should, timer, page, counters>>

\* The reconnect timer's callback asks nothing before it dials.
FireTimer ==
  /\ timer
  /\ timer' = FALSE
  /\ Dial
  /\ UNCHANGED <<toServer, seen, should, pending, page, counters>>

\* The server has accepted the socket: onopen sends no filter.
Opened(c) ==
  /\ ready[c] = "connecting"
  /\ ready' = [ready EXCEPT ![c] = "open"]
  /\ UNCHANGED <<toServer, seen, connection, page, counters>>

\* Mutant: a lost socket arms the timer also when it has been taken down on purpose.
CloseEvent_Always(c) ==
  /\ ready' = [ready EXCEPT ![c] = "closed"]
  /\ timer' = TRUE
  /\ UNCHANGED <<toServer, seen, ws, dials, should, pending, page>>

\* Mutant: the timer is armed only for a socket that had been open.
CloseEvent_OnlyIfOpened(c) ==
  /\ ready' = [ready EXCEPT ![c] = "closed"]
  /\ timer' = (timer \/ (ws = c /\ should /\ ready[c] = "open"))
  /\ UNCHANGED <<toServer, seen, ws, dials, should, pending, page>>

\* onclose (after onerror, if it was an error): only the socket held arms the timer.
CloseEvent(c) ==
  /\ ready' = [ready EXCEPT ![c] = "closed"]
  /\ timer' = (timer \/ (ws = c /\ should))
  /\ UNCHANGED <<toServer, seen, ws, dials, should, pending, page>>

\* The network or the server drops a socket.
Lose(c) ==
  /\ losses < MaxLosses
  /\ losses' = losses + 1
  /\ ready[c] \in {"connecting", "open"}
  /\ CloseEvent(c)
  /\ UNCHANGED <<mounts, changes>>

\* this.ws === ws.
Current(c) == ws = c

Newest(s) == SubSeq(s, 1, IF Len(s) < MaxRows THEN Len(s) ELSE MaxRows)

\* The elements of a finite set of numbers, greatest first.
Descending(S) ==
  [n \in 1 .. Cardinality(S) |-> CHOOSE x \in S : Cardinality({y \in S : y >= x}) = n]

\* The rows of a replay that the page's filter lets through, last first.
Shown(data) ==
  LET kept == Descending({k \in DOMAIN data :
                            pageFilter # NoHost => hostOf[data[k]] = pageFilter})
  IN  [n \in DOMAIN kept |-> data[kept[n]]]

\* Mutant: a replay is put in front of the rows already shown.
ShowReplay_Prepends(data) == rows' = Newest(Shown(data) \o rows)

\* A replay replaces the rows, newest first and filtered.
ShowReplay(data) == rows' = Newest(Shown(data))

\* onmessage: live rows go in front unless the page is paused.
Deliver(c) ==
  /\ ready[c] = "open" /\ seen[c] < Len(toClient[c])
  /\ seen' = [seen EXCEPT ![c] = @ + 1]
  /\ LET msg == toClient[c][seen[c] + 1]
     IN  IF ~(mounted /\ Current(c)) THEN UNCHANGED rows
         ELSE IF msg.type = "replay" THEN ShowReplay(msg.data)
         ELSE IF paused THEN UNCHANGED rows
         ELSE rows' = Newest(msg.data \o rows)
  /\ UNCHANGED <<ready, toServer, connection, mounted, paused, pageFilter, counters>>

\* The filter effect: tell the server if the socket is open, and start over.
ChangeFilter(f) ==
  /\ mounted /\ f # pageFilter /\ changes < MaxFilterChanges
  /\ changes' = changes + 1
  /\ pageFilter' = f
  /\ toServer' = IF State(ws) = "open" THEN [toServer EXCEPT ![ws] = Append(@, f)]
                 ELSE toServer
  /\ rows' = <<>>
  /\ UNCHANGED <<ready, seen, connection, mounted, paused, mounts, losses>>

TogglePause ==
  /\ mounted
  /\ paused' = ~paused
  /\ UNCHANGED <<ready, toServer, seen, connection, mounted, pageFilter, rows, counters>>

\* Mutant: disconnect forgets the reconnect timer.
Unmount_KeepsTimer ==
  /\ mounted
  /\ mounted' = FALSE /\ rows' = <<>>
  /\ should' = FALSE
  /\ IF pending THEN pending' = FALSE /\ UNCHANGED <<ready, ws, timer>>
     ELSE /\ pending' = FALSE /\ timer' = timer /\ ws' = 0
          /\ ready' = IF ws = 0 THEN ready ELSE [ready EXCEPT ![ws] = "closed"]
  /\ UNCHANGED <<toServer, seen, dials, paused, pageFilter, counters>>

\* The page goes: handlers off, disconnect().  A deferred connect is cancelled and
\* nothing else is looked at; otherwise timer and socket go, the socket's handlers first.
Unmount ==
  /\ mounted
  /\ mounted' = FALSE /\ rows' = <<>>
  /\ should' = FALSE
  /\ IF pending THEN pending' = FALSE /\ UNCHANGED <<ready, ws, timer>>
     ELSE /\ pending' = FALSE /\ timer' = FALSE /\ ws' = 0
          /\ ready' = IF ws = 0 THEN ready ELSE [ready EXCEPT ![ws] = "closed"]
  /\ UNCHANGED <<toServer, seen, dials, paused, pageFilter, counters>>
=============================================================================
