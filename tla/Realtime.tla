------------------------------ MODULE Realtime ------------------------------
(***************************************************************************)
(* The real-time path end to end: the WebSocket endpoint of the server and *)
(* the page in the browser, over connections that deliver in order and may *)
(* be lost at any time.                                                    *)
(***************************************************************************)
EXTENDS RealtimeServer

CONSTANTS MaxRows, MaxMounts, MaxLosses, MaxFilterChanges

ASSUME PageBounds ==
  /\ MaxRows \in Nat \ {0}
  /\ MaxRefusals \in Nat /\ MaxMounts \in Nat /\ MaxLosses \in Nat /\ MaxFilterChanges \in Nat
\* There is a connection for every mount and every redial.
ASSUME EnoughConnections == Cardinality(Conns) >= MaxMounts + MaxLosses + MaxRefusals

VARIABLES seen, ws, dials, should, pending, timer, mounted, paused, pageFilter, rows,
          mounts, losses, changes

Client == INSTANCE RealtimeClient

client == <<seen, ws, dials, should, pending, timer, mounted, paused, pageFilter, rows,
            mounts, losses, changes>>
vars == <<server, toServer, ready, client>>

Init == ServerInit /\ Client!ClientInit

ServerSide == ServerNext /\ UNCHANGED client

\* onopen, when the server has accepted.
Opened(c) == conn[c] \in {"replaying", "serving"} /\ Client!Opened(c) /\ UNCHANGED server

\* The server's close with 4001 reaches the client, which redials.
Refused(c) ==
  /\ conn[c] = "refused" /\ ready[c] = "connecting"
  /\ Client!CloseEvent(c)
  /\ UNCHANGED <<mounts, losses, changes, server>>

User ==
  /\ \/ \E f \in Filters : Client!Mount(f) \/ Client!ChangeFilter(f)
     \/ Client!TogglePause \/ Client!Unmount
  /\ UNCHANGED server

Timers == (Client!FireConnect \/ Client!FireTimer) /\ UNCHANGED server

Network ==
  \/ \E c \in Conns : Client!Lose(c) /\ UNCHANGED server
  \/ \E c \in Conns : Client!Deliver(c) /\ UNCHANGED server
  \/ \E c \in Conns : Opened(c) \/ Refused(c)

Next == ServerSide \/ User \/ Timers \/ Network

Spec == Init /\ [][Next]_vars

\* Timers fire, tasks that can go on do, handshakes end; users, requests and losses
\* need not come.
Fairness ==
  /\ WF_vars(Client!FireConnect /\ UNCHANGED server)
  /\ WF_vars(Client!FireTimer /\ UNCHANGED server)
  /\ \A c \in Conns :
       /\ WF_vars((Accept(c) \/ Reject(c)) /\ UNCHANGED client)
       /\ WF_vars((Register(c) \/ Finish(c)) /\ UNCHANGED client)
       /\ WF_vars(Opened(c) \/ Refused(c))

FairSpec == Spec /\ Fairness
-----------------------------------------------------------------------------

TypeOK == ServerTypeOK /\ Client!ClientTypeOK

\* At any time the client has one socket, or one reason to get one, and a page that is
\* gone leaves nothing behind that could bring a socket back (websocket.ts).
OneConnection ==
  LET sockets == {c \in Conns : ready[c] \in {"connecting", "open"}}
  IN  /\ Cardinality(sockets) + (IF timer THEN 1 ELSE 0) + (IF pending THEN 1 ELSE 0)
           = IF mounted THEN 1 ELSE 0
      /\ sockets \subseteq {ws}

\* The rows on the page are in the order in which the server announced them, newest
\* first and without repetition, across reconnects, replays, pauses and filter changes.
RowsNewestFirst == \A i, j \in DOMAIN rows : i < j => rows[i] > rows[j]

\* A page that stays on screen gets its socket back, whatever drops or refuses it.
Reconnects == mounted ~> (~mounted \/ Client!State(ws) = "open")

\* "host already filtered by WS server", the comment on computeLocalMetrics: on an open
\* socket with nothing left in flight to the server, the server filters by the page's host.
HostFilterInForce ==
  \A c \in Conns :
    mounted /\ ws = c /\ ready[c] = "open" /\ conn[c] = "serving" /\ taken[c] = Len(toServer[c])
      => filter[c] = pageFilter
=============================================================================
