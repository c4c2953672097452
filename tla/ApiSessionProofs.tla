-------------------------- MODULE ApiSessionProofs --------------------------
(***************************************************************************)
(* That the API client never has two refresh requests under way, keeps     *)
(* live sessions and never sends a call a third time, for every number of  *)
(* calls, reloads, losses and expiries.                                    *)
(***************************************************************************)
EXTENDS ApiSession, FiniteSetTheorems, TLAPS

\* There is no request and no promise, or one request and the promise of it.  A promise is
\* never 0, because requests are numbered from 1.
OneFlight ==
  \/ flights = {} /\ promise = 0
  \/ \E f : flights = {f} /\ f.id = promise /\ promise # 0

FlightInv == OneFlight /\ starts \in Nat /\ reloads \in Nat

LEMMA FlightInit == Init => FlightInv
BY DEF Init, FlightInv, OneFlight

\* The number of a new request, while there is no other.
LEMMA FirstFlightId ==
  ASSUME FlightInv, flights = {} PROVE FlightId \in Nat /\ FlightId # 0
<1>1. Cardinality(flights) = 0
  BY FS_EmptySet
<1>. QED  BY <1>1 DEF FlightInv, FlightId

\* A step of a call leaves requests and promise alone, or starts the one request.
LEMMA FlightRejected ==
  ASSUME FlightInv, NEW c \in Slots, Rejected(c) PROVE FlightInv'
<1>1. UNCHANGED <<starts, reloads>>
  BY DEF Rejected, counters
<1>2. CASE UNCHANGED <<promise, flights>>
  BY <1>1, <1>2 DEF FlightInv, OneFlight
<1>3. ASSUME DoRefresh(c, call[c]) PROVE FlightInv'
  <2>1. CASE NewFlight
    <3>. DEFINE f == [id |-> FlightId, sess |-> refresh, answer |-> Unanswered]
    <3>1. flights = {}
      BY <2>1 DEF NewFlight, FlightInv, OneFlight
    <3>2. FlightId \in Nat /\ FlightId # 0
      BY <3>1, FirstFlightId
    <3>3. flights' = flights \cup {f} /\ promise' = FlightId
      BY <1>3, <2>1 DEF DoRefresh
    <3>4. f.id = FlightId
      OBVIOUS
    <3>. HIDE DEF f
    <3>5. flights' = {f}
      BY <3>1, <3>3
    <3>. QED  BY <1>1, <3>2, <3>3, <3>4, <3>5 DEF FlightInv, OneFlight
  <2>2. CASE ~NewFlight
    BY <1>2, <1>3, <2>2 DEF DoRefresh
  <2>. QED  BY <2>1, <2>2
<1>4. MayRetry(c) => DoRefresh(c, call[c])
  BY DEF Rejected
<1>5. ~MayRetry(c) => UNCHANGED <<promise, flights>>
  BY DEF Rejected
<1>. QED  BY <1>2, <1>3, <1>4, <1>5

\* The end of a request leaves none: it was the only one.
LEMMA FlightEnds ==
  ASSUME FlightInv, NEW f \in flights, promise' = 0, flights' \in {{}, flights \ {f}},
         UNCHANGED <<starts, reloads>>
  PROVE  FlightInv'
<1>1. flights = {f}
  BY DEF FlightInv, OneFlight
<1>2. flights' = {}
  BY <1>1
<1>. QED  BY <1>2 DEF FlightInv, OneFlight

LEMMA FlightStep == FlightInv /\ [Next]_vars => FlightInv'
<1>. SUFFICES ASSUME FlightInv, [Next]_vars PROVE FlightInv'
  OBVIOUS
<1>1. CASE UNCHANGED <<promise, flights, starts, reloads>>
  BY <1>1 DEF FlightInv, OneFlight
<1>2. ASSUME NEW t \in valid, Expire(t) PROVE FlightInv'
  BY <1>1, <1>2 DEF Expire, client
<1>3. ASSUME NEW c \in Calls, Request(c) \/ Logout(c) \/ Login(c) PROVE FlightInv'
  <2>1. \E kind : Begin(c, kind)
    BY <1>3 DEF Request, Logout, Login
  <2>2. starts' = starts + 1 /\ UNCHANGED <<promise, flights, reloads>>
    BY <2>1 DEF Begin
  <2>. QED  BY <2>2 DEF FlightInv, OneFlight
<1>4. ASSUME NEW c \in Slots, Accepted(c) \/ CallLost(c) PROVE FlightInv'
  BY <1>1, <1>4 DEF Accepted, CallLost, counters
<1>5. ASSUME NEW c \in Slots, Rejected(c) PROVE FlightInv'
  BY <1>5, FlightRejected
<1>6. ASSUME NEW f \in flights, RefreshAnswered(f) PROVE FlightInv'
  <2>1. UNCHANGED <<promise, starts, reloads>>
    BY <1>6 DEF RefreshAnswered, counters
  <2>2. PICK a : flights' = (flights \ {f}) \cup {[f EXCEPT !.answer = a]}
    BY <1>6 DEF RefreshAnswered
  <2>3. flights = {f} /\ f.id = promise /\ promise # 0
    BY DEF FlightInv, OneFlight
  <2>4. [f EXCEPT !.answer = a].id = f.id
    OBVIOUS
  <2>. DEFINE g == [f EXCEPT !.answer = a]
  <2>5. flights' = {g} /\ g.id = promise
    BY <2>2, <2>3, <2>4
  <2>. HIDE DEF g
  <2>. QED  BY <2>1, <2>3, <2>5 DEF FlightInv, OneFlight
<1>7. ASSUME NEW f \in flights, RefreshGranted(f) PROVE FlightInv'
  BY <1>7, FlightEnds DEF RefreshGranted, counters
<1>8. ASSUME NEW f \in flights, RefreshRefused(f) \/ RefreshLost(f) PROVE FlightInv'
  <2>1. RefreshFails(f)
    BY <1>8 DEF RefreshRefused, RefreshLost
  <2>. QED  BY <2>1, FlightEnds DEF RefreshFails
<1>9. CASE Reload
  <2>1. starts' = starts /\ reloads' = reloads + 1
    BY <1>9 DEF Reload
  <2>2. CASE refresh = 0
    BY <1>9, <2>1, <2>2 DEF Reload, FlightInv, OneFlight
  <2>3. CASE refresh # 0
    <3>. DEFINE f == [id |-> FlightId, sess |-> refresh, answer |-> Unanswered]
    <3>1. flights' = {f} /\ promise' = FlightId
      BY <1>9, <2>3 DEF Reload
    <3>2. f.id = FlightId
      OBVIOUS
    <3>3. Cardinality(flights) \in Nat
      <4>1. CASE flights = {}
        BY <4>1, FS_EmptySet
      <4>2. CASE \E g : flights = {g}
        <5>1. PICK g : flights = {g}
          BY <4>2
        <5>2. Cardinality({g}) = 1
          BY FS_Singleton
        <5>. QED  BY <5>1, <5>2
      <4>. QED  BY <4>1, <4>2 DEF FlightInv, OneFlight
    <3>4. FlightId # 0
      BY <3>3 DEF FlightInv, FlightId
    <3>. HIDE DEF f
    <3>. QED  BY <2>1, <3>1, <3>2, <3>4 DEF FlightInv, OneFlight
  <2>. QED  BY <2>2, <2>3
<1>10. CASE UNCHANGED vars
  BY <1>1, <1>10 DEF vars, client, counters
<1>. QED  BY <1>2, <1>3, <1>4, <1>5, <1>6, <1>7, <1>8, <1>9, <1>10 DEF Next

\* However many calls meet a 401 at the same time, one refresh request is under way at
\* most, and the promise the calls wait for stands for it.
THEOREM RefreshIsShared == Spec => []SingleFlight
<1>1. ASSUME FlightInv PROVE SingleFlight
  <2>1. Cardinality(flights) <= 1
    <3>1. CASE flights = {}
      BY <3>1, FS_EmptySet
    <3>2. CASE \E f : flights = {f}
      BY <3>2, FS_Singleton
    <3>. QED  BY <1>1, <3>1, <3>2 DEF FlightInv, OneFlight
  <2>2. promise = 0 <=> flights = {}
    BY <1>1 DEF FlightInv, OneFlight
  <2>3. \A f \in flights : f.id = promise
    BY <1>1 DEF FlightInv, OneFlight
  <2>. QED  BY <2>1, <2>2, <2>3 DEF SingleFlight
<1>2. FlightInv => SingleFlight
  BY <1>1
<1>. QED  BY <1>2, FlightInit, FlightStep, PTL DEF Spec
-----------------------------------------------------------------------------
(* That a live session is kept.                                            *)

CallRecord == [pc : {"idle", "sent", "waiting"}, token : Nat, tries : Nat, sess : Nat, on : Nat,
               kind : {"none", "data", "login", "logout", "boot"}]

Shape ==
  /\ sessions \in Nat /\ tokens \in Nat /\ live \subseteq 1 .. sessions
  /\ access \in Nat /\ refresh \in 0 .. sessions /\ promise \in Nat /\ losses \in Nat
  /\ call \in [Slots -> CallRecord]

\* A refused refresh was for a session that is not live, and never will be again: sessions
\* are numbered in the order they are opened.
RefusalIsHonest ==
  \A f \in flights : /\ f.sess \in 0 .. sessions /\ f.answer \in Int
                     /\ f.answer = Refusal => f.sess \notin live

\* One may log in only while logged out, one request at a time; only Boot is bootstrap.
LoginAlone ==
  /\ \A c \in Calls : call[c].kind = "login" => refresh = 0
  /\ \A c, d \in Calls : call[c].kind = "login" /\ call[d].kind = "login" => c = d
  /\ call[Boot].kind # "login"
  /\ \A c \in Calls : call[c].kind # "boot"

KeepInv == FlightInv /\ Shape /\ RefusalIsHonest /\ LoginAlone

LEMMA IdleIsRecord == Idle \in CallRecord
BY DEF Idle, CallRecord

LEMMA KeepInit == Init => KeepInv
<1>. SUFFICES ASSUME Init PROVE KeepInv
  OBVIOUS
<1>1. \A c \in Slots : call[c] = Idle
  BY DEF Init, AllIdle
<1>2. call \in [Slots -> CallRecord]
  BY IdleIsRecord DEF Init, AllIdle
<1>3. Shape
  BY <1>2 DEF Init, Shape
<1>4. LoginAlone
  BY <1>1 DEF LoginAlone, Idle, Slots
<1>5. RefusalIsHonest
  BY DEF Init, RefusalIsHonest
<1>. QED  BY <1>3, <1>4, <1>5, FlightInit DEF KeepInv

\* The number of a request is a natural number.
LEMMA FlightIdType == FlightInv => FlightId \in Nat
<1>. SUFFICES ASSUME FlightInv PROVE FlightId \in Nat
  OBVIOUS
<1>1. Cardinality(flights) \in Nat
  <2>1. CASE flights = {}
    BY <2>1, FS_EmptySet
  <2>2. CASE \E g : flights = {g}
    BY <2>2, FS_Singleton
  <2>. QED  BY <2>1, <2>2 DEF FlightInv, OneFlight
<1>. QED  BY <1>1 DEF FlightInv, FlightId

\* A step after which no more calls log in than before, and no token is put into the page.
LEMMA LoginAloneKept ==
  ASSUME LoginAlone, \A c \in Slots : call'[c].kind \in {"none", call[c].kind},
         refresh' \in {0, refresh}
  PROVE  LoginAlone'
BY DEF LoginAlone, Slots

\* A step of a call that opens no session: it gives up, is answered, or waits.
LEMMA CallSettles ==
  ASSUME KeepInv, NEW c \in Slots, NEW r \in CallRecord, r.kind \in {"none", call[c].kind},
         call' = [call EXCEPT ![c] = r], UNCHANGED <<sessions, tokens>>, live' \subseteq live,
         access' \in {0, access}, refresh' \in {0, refresh}
  PROVE  LoginAlone' /\ (promise' \in Nat /\ losses' \in Nat => Shape')
<1>1. \A d \in Slots : call'[d] = IF d = c THEN r ELSE call[d]
  BY DEF KeepInv, Shape
<1>2. LoginAlone'
  BY <1>1, LoginAloneKept DEF KeepInv
<1>3. call' \in [Slots -> CallRecord]
  BY DEF KeepInv, Shape
<1>. QED  BY <1>2, <1>3 DEF KeepInv, Shape

LEMMA KeepAccepted ==
  ASSUME KeepInv, FlightInv', NEW c \in Slots, Accepted(c) PROVE KeepInv'
<1>1. call' = [call EXCEPT ![c] = Idle] /\ UNCHANGED <<promise, flights, losses>>
  BY DEF Accepted, counters
<1>2. Idle.kind = "none"
  BY DEF Idle
<1>3. CASE call[c].kind # "login"
  <2>1. UNCHANGED <<sessions, tokens>> /\ live' \subseteq live
        /\ access' \in {0, access} /\ refresh' \in {0, refresh}
    BY <1>3 DEF Accepted, server, ClearTokens
  <2>2. LoginAlone' /\ Shape'
    BY <1>1, <1>2, <2>1, IdleIsRecord, CallSettles DEF KeepInv, Shape
  <2>3. RefusalIsHonest'
    BY <1>1, <2>1 DEF KeepInv, RefusalIsHonest
  <2>. QED  BY <2>2, <2>3 DEF KeepInv
<1>4. CASE call[c].kind = "login"
  <2>1. /\ sessions' = sessions + 1 /\ live' = live \cup {sessions + 1}
        /\ tokens' = tokens + 1 /\ access' = tokens + 1 /\ refresh' = sessions + 1
    BY <1>4 DEF Accepted
  <2>2. Shape'
    BY <1>1, <2>1, IdleIsRecord DEF KeepInv, Shape
  <2>3. \A d \in Slots : call'[d].kind # "login"
    BY <1>1, <1>2, <1>4 DEF KeepInv, Shape, LoginAlone, Slots
  <2>4. LoginAlone'
    <3>1. \A d \in Calls : call'[d].kind # "boot"
      BY <1>1, <1>2 DEF KeepInv, Shape, LoginAlone, Slots
    <3>. QED  BY <2>3, <3>1 DEF LoginAlone, Slots
  <2>5. RefusalIsHonest'
    BY <1>1, <2>1 DEF KeepInv, Shape, RefusalIsHonest
  <2>. QED  BY <2>2, <2>4, <2>5 DEF KeepInv
<1>. QED  BY <1>3, <1>4

LEMMA KeepRejected ==
  ASSUME KeepInv, FlightInv', NEW c \in Slots, Rejected(c) \/ CallLost(c) PROVE KeepInv'
<1>0. UNCHANGED server /\ losses' \in Nat
  BY DEF Rejected, CallLost, counters, KeepInv, Shape
<1>1. ASSUME GiveUp(c), UNCHANGED <<promise, flights>> PROVE KeepInv'
  <2>1. call' = [call EXCEPT ![c] = Idle] /\ access' \in {0, access} /\ refresh' \in {0, refresh}
    BY <1>1 DEF GiveUp, ClearTokens
  <2>2. LoginAlone' /\ Shape'
    BY <1>0, <1>1, <2>1, IdleIsRecord, CallSettles DEF KeepInv, Shape, Idle, server
  <2>3. RefusalIsHonest'
    BY <1>0, <1>1 DEF KeepInv, RefusalIsHonest, server
  <2>. QED  BY <2>2, <2>3 DEF KeepInv
<1>2. ASSUME DoRefresh(c, call[c]), UNCHANGED <<access, refresh>> PROVE KeepInv'
  <2>. DEFINE id == IF NewFlight THEN FlightId ELSE promise
              r == [call[c] EXCEPT !.pc = "waiting", !.on = id]
              f == [id |-> id, sess |-> refresh, answer |-> Unanswered]
  <2>1. id \in Nat /\ promise' = id
    BY <1>2, FlightIdType DEF DoRefresh, KeepInv, Shape
  <2>2. r \in CallRecord /\ r.kind = call[c].kind
    BY <2>1 DEF KeepInv, Shape, CallRecord
  <2>3. call' = [call EXCEPT ![c] = r]
    BY <1>2 DEF DoRefresh
  <2>4. f.sess = refresh /\ f.answer = 0
    BY DEF Unanswered
  <2>5. flights' \subseteq flights \cup {f}
    BY <1>2 DEF DoRefresh
  <2>. HIDE DEF id, r, f
  <2>6. LoginAlone' /\ Shape'
    BY <1>0, <1>2, <2>1, <2>2, <2>3, CallSettles DEF server
  <2>7. RefusalIsHonest'
    BY <1>0, <2>4, <2>5 DEF KeepInv, Shape, RefusalIsHonest, Refusal, server
  <2>. QED  BY <2>6, <2>7 DEF KeepInv
<1>. QED  BY <1>1, <1>2 DEF Rejected, CallLost

LEMMA KeepRefresh ==
  ASSUME KeepInv, FlightInv', NEW f \in flights,
         RefreshAnswered(f) \/ RefreshGranted(f) \/ RefreshRefused(f) \/ RefreshLost(f)
  PROVE  KeepInv'
<1>1. CASE RefreshAnswered(f)
  <2>1. UNCHANGED <<live, sessions, access, refresh, promise, call, losses>>
        /\ tokens' \in {tokens, tokens + 1}
    BY <1>1 DEF RefreshAnswered, counters
  <2>. DEFINE a == IF f.sess \in live THEN tokens + 1 ELSE Refusal
              g == [f EXCEPT !.answer = a]
  <2>2. flights' = (flights \ {f}) \cup {g}
    BY <1>1 DEF RefreshAnswered
  <2>3. f.answer \in Int /\ f.sess \in 0 .. sessions /\ f.answer = Unanswered
    BY <1>1 DEF KeepInv, RefusalIsHonest, RefreshAnswered
  <2>4. a \in Int /\ (a = Refusal => f.sess \notin live)
    BY DEF KeepInv, Shape, Refusal
  <2>. HIDE DEF a
  <2>5. g = f \/ (g.sess = f.sess /\ g.answer = a)
    OBVIOUS
  <2>. HIDE DEF g
  <2>6. RefusalIsHonest'
    BY <2>1, <2>2, <2>3, <2>4, <2>5 DEF KeepInv, RefusalIsHonest, Unanswered, Refusal
  <2>7. Shape' /\ LoginAlone'
    BY <2>1 DEF KeepInv, Shape, LoginAlone
  <2>. QED  BY <2>6, <2>7 DEF KeepInv
<1>2. CASE RefreshGranted(f)
  <2>1. /\ UNCHANGED <<server, refresh, losses>> /\ promise' = 0 /\ flights' \subseteq flights
        /\ access' = f.answer /\ f.answer > 0 /\ Resume(f, f.answer)
    BY <1>2 DEF RefreshGranted, counters
  <2>2. f.answer \in Nat
    BY <2>1 DEF KeepInv, RefusalIsHonest
  <2>3. ASSUME NEW c \in Slots
        PROVE  call'[c] \in CallRecord /\ call'[c].kind = call[c].kind
    <3>. DEFINE m == call[c].tries + 1
                q == [call[c] EXCEPT !.pc = "sent", !.token = f.answer]
                r == [q EXCEPT !.on = 0, !.tries = m]
    <3>1. call'[c] = IF c \in Waiting(f) THEN r ELSE call[c]
      BY <2>1 DEF Resume
    <3>2. call[c] \in CallRecord /\ m \in Nat
      BY DEF KeepInv, Shape, CallRecord
    <3>. HIDE DEF m
    <3>3. q \in CallRecord /\ q.kind = call[c].kind
      BY <2>2, <3>2 DEF CallRecord
    <3>. HIDE DEF q
    <3>4. r \in CallRecord /\ r.kind = q.kind
      BY <3>2, <3>3 DEF CallRecord
    <3>. HIDE DEF r
    <3>. QED  BY <3>1, <3>2, <3>3, <3>4
  <2>4. call' \in [Slots -> CallRecord]
    <3>1. call' = [c \in Slots |-> call'[c]]
      BY <2>1 DEF Resume
    <3>. QED  BY <2>3, <3>1
  <2>5. LoginAlone'
    BY <2>1, <2>3, LoginAloneKept DEF KeepInv
  <2>6. Shape' /\ RefusalIsHonest'
    BY <2>1, <2>2, <2>4 DEF KeepInv, Shape, RefusalIsHonest, server
  <2>. QED  BY <2>5, <2>6 DEF KeepInv
<1>3. CASE RefreshRefused(f) \/ RefreshLost(f)
  <2>1. RefreshFails(f) /\ losses' \in Nat
    BY <1>3 DEF RefreshRefused, RefreshLost, KeepInv, Shape
  <2>2. /\ UNCHANGED server /\ promise' = 0 /\ flights' \subseteq flights
        /\ access' = 0 /\ refresh' = 0
    BY <2>1 DEF RefreshFails, ClearTokens
  <2>3. call' = [c \in Slots |-> call'[c]] /\ \A c \in Slots : call'[c] \in {Idle, call[c]}
    BY <2>1 DEF RefreshFails, AllIdle
  <2>4. call' \in [Slots -> CallRecord]
    BY <2>3, IdleIsRecord DEF KeepInv, Shape
  <2>5. LoginAlone'
    BY <2>2, <2>3, LoginAloneKept DEF KeepInv, Idle
  <2>6. Shape' /\ RefusalIsHonest'
    BY <2>1, <2>2, <2>4 DEF KeepInv, Shape, RefusalIsHonest, server
  <2>. QED  BY <2>5, <2>6 DEF KeepInv
<1>. QED  BY <1>1, <1>2, <1>3

LEMMA KeepStep == KeepInv /\ [Next]_vars => KeepInv'
<1>. SUFFICES ASSUME KeepInv, [Next]_vars PROVE KeepInv'
  OBVIOUS
<1>0. FlightInv'
  BY FlightStep DEF KeepInv
<1>1. CASE (\E t \in valid : Expire(t)) \/ UNCHANGED vars
  <2>1. UNCHANGED <<live, sessions, tokens, client, losses>>
    BY <1>1 DEF Expire, vars, server, counters
  <2>. QED  BY <1>0, <2>1 DEF KeepInv, Shape, RefusalIsHonest, LoginAlone, client
<1>2. ASSUME NEW c \in Calls, Request(c) \/ Logout(c) \/ Login(c) PROVE KeepInv'
  <2>1. PICK kind \in {"data", "logout", "login"} :
          Begin(c, kind) /\ (kind = "login" => refresh = 0 /\ ~Busy("login"))
    BY <1>2 DEF Request, Logout, Login
  <2>. DEFINE r == [pc |-> "sent", kind |-> kind, token |-> access,
                    tries |-> 1, sess |-> refresh, on |-> 0]
  <2>2. /\ call' = [call EXCEPT ![c] = r] /\ c \in Slots
        /\ UNCHANGED <<server, access, refresh, promise, flights, losses>>
    BY <2>1 DEF Begin, Slots
  <2>3. r \in CallRecord /\ r.kind = kind
    BY DEF CallRecord, KeepInv, Shape
  <2>. HIDE DEF r
  <2>4. call' \in [Slots -> CallRecord]
    BY <2>2, <2>3 DEF KeepInv, Shape
  <2>5. \A d \in Slots : call'[d] = IF d = c THEN r ELSE call[d]
    BY <2>2 DEF KeepInv, Shape
  <2>6. LoginAlone'
    BY <2>1, <2>2, <2>3, <2>5, BootIsApart DEF KeepInv, LoginAlone, Busy, Slots
  <2>7. Shape' /\ RefusalIsHonest'
    BY <2>2, <2>4 DEF KeepInv, Shape, RefusalIsHonest, server
  <2>. QED  BY <1>0, <2>6, <2>7 DEF KeepInv
<1>3. CASE \E c \in Slots : Accepted(c) \/ Rejected(c) \/ CallLost(c)
  BY <1>0, <1>3, KeepAccepted, KeepRejected
<1>4. CASE \E f \in flights :
             RefreshAnswered(f) \/ RefreshGranted(f) \/ RefreshRefused(f) \/ RefreshLost(f)
  BY <1>0, <1>4, KeepRefresh
<1>5. CASE Reload
  <2>1. UNCHANGED <<server, refresh, losses>> /\ access' = 0
    BY <1>5 DEF Reload
  <2>2. FlightId \in Nat
    BY FlightIdType DEF KeepInv
  <2>. DEFINE r == [Idle EXCEPT !.pc = "waiting", !.kind = "boot", !.on = FlightId]
              f == [id |-> FlightId, sess |-> refresh, answer |-> Unanswered]
  <2>3. r \in CallRecord /\ r.kind = "boot" /\ Idle.kind = "none"
    BY <2>2 DEF Idle, CallRecord
  <2>4. f.sess = refresh /\ f.answer = 0
    BY DEF Unanswered
  <2>5. promise' \in Nat /\ flights' \subseteq {f}
        /\ (call' = AllIdle \/ call' = [AllIdle EXCEPT ![Boot] = r])
    BY <1>5, <2>2 DEF Reload
  <2>. HIDE DEF r, f
  <2>6. call' \in [Slots -> CallRecord] /\ \A c \in Slots : call'[c] \in {Idle, r}
    BY <2>3, <2>5, IdleIsRecord DEF AllIdle, Slots
  <2>7. LoginAlone'
    <3>1. \A c \in Calls : call'[c] = Idle
      BY <2>5, BootIsApart DEF AllIdle, Slots
    <3>2. call'[Boot].kind # "login"
      BY <2>3, <2>6 DEF Slots
    <3>. QED  BY <2>3, <3>1, <3>2 DEF LoginAlone
  <2>8. Shape' /\ RefusalIsHonest'
    BY <2>1, <2>4, <2>5, <2>6 DEF KeepInv, Shape, RefusalIsHonest, Refusal, server
  <2>. QED  BY <1>0, <2>7, <2>8 DEF KeepInv
<1>. QED  BY <1>1, <1>2, <1>3, <1>4, <1>5 DEF Next

\* However calls, refreshes, reloads and answers interleave, a live session is dropped only
\* by a logout, by the start of the page, by a failing network or server, or by the answer to the
\* refresh of an earlier session.
THEOREM LiveSessionIsKept == Spec => SessionKept
<1>1. KeepInv /\ [Next]_vars => [refresh' # refresh /\ refresh \in live => SessionMayEnd]_vars
  <2>. SUFFICES ASSUME KeepInv, Next, refresh' # refresh, refresh \in live PROVE SessionMayEnd
    BY DEF vars, client
  <2>1. refresh # 0
    BY DEF KeepInv, Shape
  <2>2. ASSUME NEW c \in Slots, Accepted(c) \/ Rejected(c) \/ CallLost(c) PROVE SessionMayEnd
    <3>1. call[c].pc = "sent"
      BY <2>2 DEF Accepted, Rejected, CallLost
    <3>2. CASE c = Boot
      BY <3>1, <3>2 DEF SessionMayEnd
    <3>3. CASE c \in Calls
      <4>1. call[c].kind # "login"
        BY <2>1, <3>3 DEF KeepInv, LoginAlone
      <4>2. call[c].kind = "logout" \/ call[c].kind = "boot"
        BY <2>2, <4>1 DEF Accepted, Rejected, CallLost, GiveUp
      <4>3. CASE call[c].kind = "logout"
        BY <3>3, <4>3 DEF SessionMayEnd, Busy
      <4>4. CASE call[c].kind = "boot"
        BY <3>3, <4>4 DEF KeepInv, LoginAlone
      <4>. QED  BY <4>2, <4>3, <4>4
    <3>. QED  BY <3>2, <3>3 DEF Slots
  <2>3. ASSUME NEW f \in flights, RefreshRefused(f) PROVE SessionMayEnd
    <3>1. f.sess \notin live
      BY <2>3 DEF RefreshRefused, KeepInv, RefusalIsHonest
    <3>. QED  BY <3>1 DEF SessionMayEnd
  <2>4. ASSUME NEW f \in flights, RefreshLost(f) PROVE SessionMayEnd
    BY <2>4 DEF RefreshLost, KeepInv, Shape, SessionMayEnd
  <2>5. \/ \E c \in Slots : Accepted(c) \/ Rejected(c) \/ CallLost(c)
        \/ \E f \in flights : RefreshRefused(f) \/ RefreshLost(f)
    BY DEF Next, Expire, Request, Logout, Login, Begin, RefreshAnswered, RefreshGranted, Reload, client
  <2>. QED  BY <2>2, <2>3, <2>4, <2>5
<1>2. Init => KeepInv
  BY KeepInit
<1>3. KeepInv /\ [Next]_vars => KeepInv'
  BY KeepStep
<1>. QED  BY <1>1, <1>2, <1>3, PTL DEF Spec, SessionKept
-----------------------------------------------------------------------------
(* That every variable keeps its type.                                     *)

\* A call carries tokens and sessions the server has given out.  It waits for a refresh
\* before it has been sent for the second time, so that it is never sent a third time.
CallWithin(r, t, s) ==
  r.token <= t /\ r.sess <= s /\ r.tries <= 2 /\ (r.pc = "waiting" => r.tries <= 1)

\* A request is for a session there has been: without one no refresh is begun.
FlightWithin(f, t, s) == f.sess \in 1 .. s /\ f.answer \in -1 .. t

GivenOut ==
  /\ valid \subseteq 1 .. tokens /\ access <= tokens
  /\ \A f \in flights : FlightWithin(f, tokens, sessions)
  /\ \A c \in Slots : CallWithin(call[c], tokens, sessions)

TypeInv == KeepInv /\ GivenOut

LEMMA IdleWithin == \A t, s \in Nat : CallWithin(Idle, t, s)
BY DEF CallWithin, Idle

\* What was within the tokens and sessions given out stays so when more are given out.
LEMMA GivenOutKept ==
  ASSUME TypeInv, KeepInv', tokens <= tokens', sessions <= sessions',
         valid' \subseteq 1 .. tokens', access' <= tokens',
         \A f \in flights' : f \in flights \/ FlightWithin(f, tokens', sessions'),
         \A c \in Slots : call'[c] = call[c] \/ CallWithin(call'[c], tokens', sessions')
  PROVE  TypeInv'
<1>1. tokens \in Nat /\ tokens' \in Nat /\ sessions \in Nat /\ sessions' \in Nat
  BY DEF TypeInv, KeepInv, Shape
<1>2. ASSUME NEW f \in flights PROVE FlightWithin(f, tokens', sessions')
  <2>1. FlightWithin(f, tokens, sessions)
    BY DEF TypeInv, GivenOut
  <2>. QED  BY <1>1, <2>1 DEF FlightWithin
<1>3. ASSUME NEW c \in Slots PROVE CallWithin(call[c], tokens', sessions')
  <2>1. CallWithin(call[c], tokens, sessions) /\ call[c].token \in Nat /\ call[c].sess \in Nat
    BY DEF TypeInv, GivenOut, KeepInv, Shape, CallRecord
  <2>. QED  BY <1>1, <2>1 DEF CallWithin
<1>. QED  BY <1>2, <1>3 DEF TypeInv, GivenOut

\* A step that changes one call, and gives nothing out.
LEMMA OneCallWithin ==
  ASSUME TypeInv, KeepInv', NEW c \in Slots, NEW r, call' = [call EXCEPT ![c] = r],
         CallWithin(r, tokens, sessions), UNCHANGED <<tokens, sessions>>, valid' = valid,
         access' \in {0, access},
         \A f \in flights' : f \in flights \/ FlightWithin(f, tokens, sessions)
  PROVE  TypeInv'
<1>1. \A d \in Slots : call'[d] = IF d = c THEN r ELSE call[d]
  BY DEF TypeInv, KeepInv, Shape
<1>2. \A d \in Slots : call'[d] = call[d] \/ CallWithin(call'[d], tokens', sessions')
  BY <1>1
<1>3. tokens \in Nat /\ tokens <= tokens' /\ sessions <= sessions'
  BY DEF TypeInv, KeepInv, Shape
<1>4. valid' \subseteq 1 .. tokens' /\ access' <= tokens'
  BY <1>3 DEF TypeInv, GivenOut
<1>. QED  BY <1>2, <1>3, <1>4, GivenOutKept

LEMMA GivenOutCall ==
  ASSUME TypeInv, KeepInv', NEW c \in Slots, Accepted(c) \/ Rejected(c) \/ CallLost(c)
  PROVE  TypeInv'
<1>0. /\ tokens \in Nat /\ sessions \in Nat /\ refresh \in 0 .. sessions
      /\ CallWithin(Idle, tokens, sessions) /\ CallWithin(call[c], tokens, sessions)
      /\ call[c] \in CallRecord
  BY IdleWithin DEF TypeInv, KeepInv, Shape, GivenOut
<1>1. CASE Accepted(c)
  <2>1. call' = [call EXCEPT ![c] = Idle] /\ UNCHANGED flights
    BY <1>1 DEF Accepted
  <2>2. CASE call[c].kind # "login"
    <3>1. UNCHANGED <<tokens, sessions, valid>> /\ access' \in {0, access}
      BY <1>1, <2>2 DEF Accepted, server, ClearTokens
    <3>. QED  BY <1>0, <2>1, <3>1, OneCallWithin
  <2>3. CASE call[c].kind = "login"
    <3>1. /\ sessions' = sessions + 1 /\ tokens' = tokens + 1
          /\ valid' = valid \cup {tokens + 1} /\ access' = tokens + 1
      BY <1>1, <2>3 DEF Accepted
    <3>2. tokens <= tokens' /\ sessions <= sessions' /\ access' <= tokens'
      BY <1>0, <3>1
    <3>3. valid' \subseteq 1 .. tokens'
      BY <1>0, <3>1 DEF TypeInv, GivenOut
    <3>4. \A d \in Slots : call'[d] \in {Idle, call[d]}
      BY <2>1 DEF TypeInv, KeepInv, Shape
    <3>5. CallWithin(Idle, tokens', sessions')
      BY <1>0, <3>1, IdleWithin
    <3>. QED  BY <2>1, <3>2, <3>3, <3>4, <3>5, GivenOutKept
  <2>. QED  BY <2>2, <2>3
<1>2. ASSUME GiveUp(c), UNCHANGED <<server, flights>> PROVE TypeInv'
  <2>1. call' = [call EXCEPT ![c] = Idle] /\ access' \in {0, access}
    BY <1>2 DEF GiveUp, ClearTokens
  <2>. QED  BY <1>0, <1>2, <2>1, OneCallWithin DEF server
<1>3. ASSUME MayRetry(c), DoRefresh(c, call[c]), UNCHANGED <<server, access>> PROVE TypeInv'
  <2>. DEFINE id == IF NewFlight THEN FlightId ELSE promise
              r == [call[c] EXCEPT !.pc = "waiting", !.on = id]
              f == [id |-> id, sess |-> refresh, answer |-> Unanswered]
  <2>1. call' = [call EXCEPT ![c] = r] /\ flights' \subseteq flights \cup {f}
    BY <1>3 DEF DoRefresh
  <2>2. r.token = call[c].token /\ r.sess = call[c].sess /\ r.tries = call[c].tries
    BY <1>0 DEF CallRecord
  <2>3. f.sess = refresh /\ f.answer = 0
    BY DEF Unanswered
  <2>. HIDE DEF r, f
  <2>4. CallWithin(r, tokens, sessions)
    BY <1>0, <1>3, <2>2 DEF CallWithin, MayRetry
  <2>5. FlightWithin(f, tokens, sessions)
    BY <1>0, <1>3, <2>3 DEF FlightWithin, MayRetry
  <2>. QED  BY <1>3, <2>1, <2>4, <2>5, OneCallWithin DEF server
<1>. QED  BY <1>1, <1>2, <1>3 DEF Rejected, CallLost

LEMMA GivenOutRefresh ==
  ASSUME TypeInv, KeepInv', NEW f \in flights,
         RefreshAnswered(f) \/ RefreshGranted(f) \/ RefreshRefused(f) \/ RefreshLost(f)
  PROVE  TypeInv'
<1>0. /\ tokens \in Nat /\ sessions \in Nat /\ access \in Nat
      /\ FlightWithin(f, tokens, sessions) /\ valid \subseteq 1 .. tokens /\ access <= tokens
  BY DEF TypeInv, KeepInv, Shape, GivenOut
<1>1. CASE RefreshAnswered(f)
  <2>1. UNCHANGED <<sessions, access, call>>
    BY <1>1 DEF RefreshAnswered
  <2>. DEFINE a == IF f.sess \in live THEN tokens + 1 ELSE Refusal
              g == [f EXCEPT !.answer = a]
  <2>2. flights' = (flights \ {f}) \cup {g}
    BY <1>1 DEF RefreshAnswered
  <2>3. tokens <= tokens' /\ a \in -1 .. tokens' /\ valid' \subseteq 1 .. tokens'
    <3>1. CASE f.sess \in live
      <4>1. tokens' = tokens + 1 /\ valid' = valid \cup {tokens + 1}
        BY <1>1, <3>1 DEF RefreshAnswered
      <4>. QED  BY <1>0, <3>1, <4>1
    <3>2. CASE f.sess \notin live
      <4>1. tokens' = tokens /\ valid' = valid
        BY <1>1, <3>2 DEF RefreshAnswered
      <4>. QED  BY <1>0, <3>2, <4>1 DEF Refusal
    <3>. QED  BY <3>1, <3>2
  <2>. HIDE DEF a
  <2>4. g = f \/ (g.sess = f.sess /\ g.answer = a)
    OBVIOUS
  <2>. HIDE DEF g
  <2>5. g \in flights \/ FlightWithin(g, tokens', sessions')
    BY <1>0, <2>1, <2>3, <2>4 DEF FlightWithin
  <2>6. tokens' \in Nat /\ access' <= tokens' /\ sessions <= sessions'
    BY <1>0, <2>1, <2>3 DEF KeepInv, Shape
  <2>. QED  BY <2>1, <2>2, <2>3, <2>5, <2>6, GivenOutKept
<1>2. CASE RefreshGranted(f)
  <2>1. UNCHANGED <<tokens, sessions, valid>> /\ flights' \subseteq flights /\ access' = f.answer
    BY <1>2 DEF RefreshGranted, server
  <2>2. f.answer \in Nat /\ f.answer <= tokens
    BY <1>0, <1>2 DEF RefreshGranted, FlightWithin
  <2>3. ASSUME NEW c \in Waiting(f) PROVE CallWithin(call'[c], tokens, sessions)
    <3>. DEFINE m == call[c].tries + 1
                r == [call[c] EXCEPT !.pc = "sent", !.token = f.answer, !.on = 0, !.tries = m]
    <3>1. c \in Slots /\ call[c].pc = "waiting"
      BY DEF Waiting
    <3>2. call'[c] = r
      BY <1>2, <3>1 DEF RefreshGranted, Resume
    <3>3. call[c] \in CallRecord /\ CallWithin(call[c], tokens, sessions)
      BY <3>1 DEF TypeInv, KeepInv, Shape, GivenOut
    <3>4. m <= 2
      BY <3>1, <3>3 DEF CallWithin, CallRecord
    <3>. HIDE DEF m
    <3>5. r.pc = "sent" /\ r.token = f.answer /\ r.sess = call[c].sess /\ r.tries = m
      BY <3>3 DEF CallRecord
    <3>. HIDE DEF r
    <3>. QED  BY <2>2, <3>2, <3>3, <3>4, <3>5 DEF CallWithin
  <2>4. \A c \in Slots : call'[c] = call[c] \/ CallWithin(call'[c], tokens', sessions')
    <3>1. \A c \in Slots : c \notin Waiting(f) => call'[c] = call[c]
      BY <1>2 DEF RefreshGranted, Resume
    <3>. QED  BY <2>1, <2>3, <3>1
  <2>5. tokens <= tokens' /\ sessions <= sessions' /\ access' <= tokens'
    BY <1>0, <2>1, <2>2
  <2>. QED  BY <1>0, <2>1, <2>4, <2>5, GivenOutKept
<1>3. CASE RefreshRefused(f) \/ RefreshLost(f)
  <2>1. RefreshFails(f)
    BY <1>3 DEF RefreshRefused, RefreshLost
  <2>2. UNCHANGED <<tokens, sessions, valid>> /\ flights' \subseteq flights /\ access' = 0
    BY <2>1 DEF RefreshFails, ClearTokens, server
  <2>3. \A c \in Slots : call'[c] \in {Idle, call[c]}
    BY <2>1 DEF RefreshFails, AllIdle
  <2>4. CallWithin(Idle, tokens', sessions')
    BY <1>0, <2>2, IdleWithin
  <2>5. tokens <= tokens' /\ sessions <= sessions' /\ access' <= tokens'
    BY <1>0, <2>2
  <2>. QED  BY <1>0, <2>2, <2>3, <2>4, <2>5, GivenOutKept
<1>. QED  BY <1>1, <1>2, <1>3

LEMMA GivenOutStep == TypeInv /\ [Next]_vars => TypeInv'
<1>. SUFFICES ASSUME TypeInv, [Next]_vars PROVE TypeInv'
  OBVIOUS
<1>0. /\ KeepInv' /\ tokens \in Nat /\ sessions \in Nat /\ refresh \in 0 .. sessions
      /\ access \in Nat /\ access <= tokens /\ valid \subseteq 1 .. tokens
  BY KeepStep DEF TypeInv, KeepInv, Shape, GivenOut
<1>1. ASSUME (\E t \in valid : Expire(t)) \/ UNCHANGED vars PROVE TypeInv'
  <2>1. UNCHANGED <<tokens, sessions, client>> /\ valid' \subseteq valid
    BY <1>1 DEF Expire, vars, server
  <2>2. tokens <= tokens' /\ sessions <= sessions' /\ access' <= tokens'
    BY <1>0, <2>1 DEF client
  <2>. QED  BY <1>0, <2>1, <2>2, GivenOutKept DEF client
<1>2. ASSUME NEW c \in Calls, Request(c) \/ Logout(c) \/ Login(c) PROVE TypeInv'
  <2>1. PICK kind : Begin(c, kind)
    BY <1>2 DEF Request, Logout, Login
  <2>. DEFINE r == [pc |-> "sent", kind |-> kind, token |-> access,
                    tries |-> 1, sess |-> refresh, on |-> 0]
  <2>2. call' = [call EXCEPT ![c] = r] /\ UNCHANGED <<server, access, flights>>
    BY <2>1 DEF Begin
  <2>3. CallWithin(r, tokens, sessions)
    BY <1>0 DEF CallWithin
  <2>. HIDE DEF r
  <2>. QED  BY <1>0, <2>2, <2>3, OneCallWithin DEF server, Slots
<1>3. ASSUME NEW c \in Slots, Accepted(c) \/ Rejected(c) \/ CallLost(c) PROVE TypeInv'
  BY <1>0, <1>3, GivenOutCall
<1>4. ASSUME NEW f \in flights,
             RefreshAnswered(f) \/ RefreshGranted(f) \/ RefreshRefused(f) \/ RefreshLost(f)
      PROVE  TypeInv'
  BY <1>0, <1>4, GivenOutRefresh
<1>5. ASSUME Reload PROVE TypeInv'
  <2>1. UNCHANGED <<tokens, sessions, valid>> /\ access' = 0
    BY <1>5 DEF Reload, server
  <2>. DEFINE r == [Idle EXCEPT !.pc = "waiting", !.kind = "boot", !.on = FlightId]
              f == [id |-> FlightId, sess |-> refresh, answer |-> Unanswered]
  <2>2. r.token = 0 /\ r.sess = 0 /\ r.tries = 0 /\ f.sess = refresh /\ f.answer = 0
    BY DEF Idle, Unanswered
  <2>3. flights' = {} \/ (flights' = {f} /\ refresh # 0)
    BY <1>5 DEF Reload
  <2>4. call' = AllIdle \/ call' = [AllIdle EXCEPT ![Boot] = r]
    BY <1>5 DEF Reload
  <2>. HIDE DEF r, f
  <2>5. \A c \in Slots : call'[c] \in {Idle, r}
    BY <2>4 DEF AllIdle, Slots
  <2>6. CallWithin(Idle, tokens', sessions') /\ CallWithin(r, tokens', sessions')
    BY <1>0, <2>1, <2>2, IdleWithin DEF CallWithin
  <2>7. \A g \in flights' : FlightWithin(g, tokens', sessions')
    BY <1>0, <2>1, <2>2, <2>3 DEF FlightWithin
  <2>8. tokens <= tokens' /\ sessions <= sessions' /\ access' <= tokens'
    BY <1>0, <2>1
  <2>. QED  BY <1>0, <2>1, <2>5, <2>6, <2>7, <2>8, GivenOutKept
<1>. QED  BY <1>1, <1>2, <1>3, <1>4, <1>5 DEF Next

\* Every variable of the session keeps its type: in particular a call is sent twice at most,
\* and never with a token or for a session the server has not given out (_fetch, _doRefresh).
THEOREM SessionTyped == Spec => []TypeOK
<1>1. Init => TypeInv
  <2>. SUFFICES ASSUME Init PROVE TypeInv
    OBVIOUS
  <2>1. \A c \in Slots : call[c] = Idle
    BY DEF Init, AllIdle
  <2>2. CallWithin(Idle, tokens, sessions)
    BY IdleWithin DEF Init
  <2>. QED  BY <2>1, <2>2, KeepInit DEF Init, TypeInv, GivenOut
<1>2. TypeInv => TypeOK
  <2>. SUFFICES ASSUME TypeInv PROVE TypeOK
    OBVIOUS
  <2>0. tokens \in Nat /\ sessions \in Nat
    BY DEF TypeInv, KeepInv, Shape
  <2>. DEFINE R == [pc : {"idle", "sent", "waiting"}, token : 0 .. tokens,
                    kind : {"none", "data", "login", "logout", "boot"},
                    tries : 0 .. 2, sess : 0 .. sessions, on : Nat]
  <2>1. ASSUME NEW c \in Slots PROVE call[c] \in R
    <3>1. call[c] \in CallRecord /\ CallWithin(call[c], tokens, sessions)
      BY DEF TypeInv, KeepInv, Shape, GivenOut
    <3>2. /\ call[c].token \in 0 .. tokens /\ call[c].sess \in 0 .. sessions
          /\ call[c].tries \in 0 .. 2
      BY <2>0, <3>1 DEF CallRecord, CallWithin
    <3>. QED  BY <3>1, <3>2 DEF CallRecord
  <2>. HIDE DEF R
  <2>2. call \in [Slots -> R]
    BY <2>1 DEF TypeInv, KeepInv, Shape
  <2>3. access \in 0 .. tokens
    BY <2>0 DEF TypeInv, KeepInv, Shape, GivenOut
  <2>4. \A f \in flights : f.sess \in 1 .. sessions /\ f.answer \in -1 .. tokens
    BY DEF TypeInv, GivenOut, FlightWithin
  <2>. QED  BY <2>2, <2>3, <2>4 DEF TypeOK, TypeInv, KeepInv, Shape, GivenOut, R
<1>. QED  BY <1>1, <1>2, GivenOutStep, PTL DEF Spec
=============================================================================
