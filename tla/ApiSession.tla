----------------------------- MODULE ApiSession -----------------------------
(***************************************************************************)
(* The browser's session: the API client of lib/api.ts, the login and      *)
(* logout of stores/auth.ts and the start of main.tsx, against a server    *)
(* that knows live sessions (refresh tokens) and valid access tokens.      *)
(* JavaScript runs one callback at a time: an action is what happens       *)
(* between two awaits, and a promise that is settled resumes all who wait  *)
(* for it before anything else runs.                                       *)
(*                                                                         *)
(* The refresh token is kept in a variable, in localStorage and in the     *)
(* store; the three change together within each action.                    *)
(***************************************************************************)
EXTENDS Integers, FiniteSets

CONSTANTS
  Calls,      \* calls that can be under way at a time
  Boot,       \* the calls bootstrap() makes, one after the other
  MaxStarts, MaxReloads, MaxLosses, MaxExpiries   \* bounds

ASSUME BootIsApart == Boot \notin Calls
ASSUME SessionBounds ==
  /\ MaxStarts \in Nat /\ MaxReloads \in Nat /\ MaxLosses \in Nat /\ MaxExpiries \in Nat

VARIABLES
  live,      \* the server: sessions that are not revoked
  valid,     \* the server: access tokens that have not expired
  sessions, tokens,   \* how many of each the server has given out
  access,    \* _accessToken, 0 for ""
  refresh,   \* _refreshToken: a session, 0 for ""
  promise,   \* _refreshPromise: the refresh request it stands for, 0 for null
  flights,   \* POST /auth/refresh requests under way
  call,      \* the calls under way
  starts, reloads, losses, expiries   \* counters of the bounds

server == <<live, valid, sessions, tokens>>
client == <<access, refresh, promise, flights, call>>
counters == <<starts, reloads, losses, expiries>>
vars == <<server, client, counters>>

\* Answers to a refresh request.
Unanswered == 0
Refusal == -1

Idle == [pc |-> "idle", kind |-> "none", token |-> 0, tries |-> 0, sess |-> 0, on |-> 0]
Slots == Calls \cup {Boot}
AllIdle == [c \in Slots |-> Idle]

TypeOK ==
  /\ live \subseteq 1 .. sessions /\ valid \subseteq 1 .. tokens
  /\ access \in 0 .. tokens /\ refresh \in 0 .. sessions
  /\ \A f \in flights : f.sess \in 1 .. sessions /\ f.answer \in -1 .. tokens
  /\ call \in [Slots -> [pc : {"idle", "sent", "waiting"}, token : 0 .. tokens,
                         kind : {"none", "data", "login", "logout", "boot"},
                         tries : 0 .. 2, sess : 0 .. sessions, on : Nat]]

\* A first visit: nothing is stored.
Init ==
  /\ live = {} /\ valid = {} /\ sessions = 0 /\ tokens = 0
  /\ access = 0 /\ refresh = 0 /\ promise = 0 /\ flights = {}
  /\ call = AllIdle
  /\ starts = 0 /\ reloads = 0 /\ losses = 0 /\ expiries = 0

Waiting(f) == {c \in Slots : call[c].pc = "waiting" /\ call[c].on = f.id}
Rendered == call[Boot].pc = "idle"
Busy(kind) == \E c \in Calls : call[c].kind = kind

-----------------------------------------------------------------------------
(* The server.                                                             *)

\* An access token comes to the end of its 15 minutes.
Expire(t) ==
  /\ expiries < MaxExpiries /\ t \in valid
  /\ expiries' = expiries + 1
  /\ valid' = valid \ {t}
  /\ UNCHANGED <<live, sessions, tokens, client, starts, reloads, losses>>

\* POST /auth/refresh: a new access token for a live session, or 401.
RefreshAnswered(f) ==
  /\ f \in flights /\ f.answer = Unanswered
  /\ LET granted == f.sess \in live
     IN  /\ tokens' = IF granted THEN tokens + 1 ELSE tokens
         /\ valid' = IF granted THEN valid \cup {tokens + 1} ELSE valid
         /\ flights' = (flights \ {f}) \cup
                         {[f EXCEPT !.answer = IF granted THEN tokens + 1 ELSE Refusal]}
  /\ UNCHANGED <<live, sessions, access, refresh, promise, call, counters>>

-----------------------------------------------------------------------------
(* The pages.                                                              *)

Begin(c, kind) ==
  /\ Rendered /\ call[c].pc = "idle" /\ starts < MaxStarts
  /\ starts' = starts + 1
  /\ call' = [call EXCEPT ![c] = [pc |-> "sent", kind |-> kind, token |-> access,
                                  tries |-> 1, sess |-> refresh, on |-> 0]]
  /\ UNCHANGED <<server, access, refresh, promise, flights, reloads, losses, expiries>>

\* RequireAuth shows the pages of the app while the store holds a refresh token ...
Request(c) == refresh # 0 /\ Begin(c, "data")
Logout(c) == refresh # 0 /\ ~Busy("logout") /\ Begin(c, "logout")

\* ... and the login page otherwise.
Login(c) == refresh = 0 /\ ~Busy("login") /\ Begin(c, "login")

\* Mutant: every 401 starts a refresh of its own.
NewFlight_Always == TRUE

\* _doRefresh starts a request only when none is in flight.
NewFlight == promise = 0

FlightId == 1 + starts + reloads + Cardinality(flights)

\* _doRefresh, with the refresh token of this moment; c waits for the answer.
DoRefresh(c, record) ==
  LET id == IF NewFlight THEN FlightId ELSE promise
  IN  /\ flights' = IF NewFlight
                    THEN flights \cup {[id |-> id, sess |-> refresh, answer |-> Unanswered]}
                    ELSE flights
      /\ promise' = id
      /\ call' = [call EXCEPT ![c] = [record EXCEPT !.pc = "waiting", !.on = id]]

\* The page is loaded anew: memory is lost, and initSession exchanges the stored refresh
\* token before anything is rendered.
Reload ==
  /\ reloads < MaxReloads
  /\ reloads' = reloads + 1
  /\ access' = 0
  /\ flights' = IF refresh = 0 THEN {}
                ELSE {[id |-> FlightId, sess |-> refresh, answer |-> Unanswered]}
  /\ promise' = IF refresh = 0 THEN 0 ELSE FlightId
  /\ call' = IF refresh = 0 THEN AllIdle
             ELSE [AllIdle EXCEPT ![Boot] = [Idle EXCEPT !.pc = "waiting", !.kind = "boot",
                                                         !.on = FlightId]]
  /\ UNCHANGED <<server, refresh, starts, losses, expiries>>

-----------------------------------------------------------------------------
(* _fetch: what follows the response of a call.                            *)

ClearTokens == access' = 0 /\ refresh' = 0

\* The server accepts the call.
Accepted(c) ==
  /\ call[c].pc = "sent"
  /\ call[c].kind = "login" \/ call[c].token \in valid
  /\ call' = [call EXCEPT ![c] = Idle]
  /\ \/ /\ call[c].kind \in {"data", "boot"}
        /\ UNCHANGED <<server, access, refresh>>
     \/ /\ call[c].kind = "logout"
        /\ live' = live \ {call[c].sess}
        /\ ClearTokens
        /\ UNCHANGED <<valid, sessions, tokens>>
     \/ /\ call[c].kind = "login"
        /\ sessions' = sessions + 1 /\ live' = live \cup {sessions + 1}
        /\ tokens' = tokens + 1 /\ valid' = valid \cup {tokens + 1}
        /\ access' = tokens + 1 /\ refresh' = sessions + 1
  /\ UNCHANGED <<promise, flights, counters>>

\* Mutant: any failed call ends the session.
GiveUp_EndsSession(c) ==
  /\ call' = [call EXCEPT ![c] = Idle]
  /\ ClearTokens

\* The call throws: logout and bootstrap catch it and clear the tokens.
GiveUp(c) ==
  /\ call' = [call EXCEPT ![c] = Idle]
  /\ IF call[c].kind \in {"logout", "boot"} THEN ClearTokens ELSE UNCHANGED <<access, refresh>>

\* Mutant: the retried call is retried again.
MayRetry_Always(c) == refresh # 0

\* A 401 is answered by a refresh once, if there is a refresh token.
MayRetry(c) == refresh # 0 /\ call[c].tries = 1

\* 401, also for wrong credentials.
Rejected(c) ==
  /\ call[c].pc = "sent"
  /\ call[c].kind = "login" \/ call[c].token \notin valid
  /\ IF MayRetry(c)
     THEN DoRefresh(c, call[c]) /\ UNCHANGED <<access, refresh>>
     ELSE GiveUp(c) /\ UNCHANGED <<promise, flights>>
  /\ UNCHANGED <<server, counters>>

\* fetch rejects, or the answer is an error other than 401: both throw.
CallLost(c) ==
  /\ losses < MaxLosses /\ call[c].pc = "sent"
  /\ losses' = losses + 1
  /\ GiveUp(c)
  /\ UNCHANGED <<server, promise, flights, starts, reloads, expiries>>

-----------------------------------------------------------------------------
(* What follows the response of a refresh request.                         *)

\* Mutant: only one of the waiting calls is resumed.
Resume_One(f, token) ==
  \E c \in Waiting(f) :
    call' = [call EXCEPT ![c] = [@ EXCEPT !.pc = "sent", !.token = token, !.on = 0,
                                          !.tries = @ + 1]]

\* All who wait send their call again, bootstrap sends its first.
Resume(f, token) ==
  call' = [c \in Slots |->
             IF c \in Waiting(f)
             THEN [call[c] EXCEPT !.pc = "sent", !.token = token, !.on = 0, !.tries = @ + 1]
             ELSE call[c]]

RefreshGranted(f) ==
  /\ f \in flights /\ f.answer > 0
  /\ access' = f.answer
  /\ promise' = 0 /\ flights' = flights \ {f}
  /\ Resume(f, f.answer)
  /\ UNCHANGED <<server, refresh, counters>>

\* The tokens go.  A call that waited calls the handler, which loads the login page;
\* initSession has suppressed it and renders.
RefreshFails(f) ==
  /\ ClearTokens
  /\ promise' = 0
  /\ IF \E c \in Waiting(f) : call[c].tries > 0
     THEN flights' = {} /\ call' = AllIdle
     ELSE flights' = flights \ {f}
            /\ call' = [c \in Slots |-> IF c \in Waiting(f) THEN Idle ELSE call[c]]
  /\ UNCHANGED <<server, starts, reloads, expiries>>

RefreshRefused(f) ==
  f \in flights /\ f.answer = Refusal /\ RefreshFails(f) /\ UNCHANGED losses

\* No answer, or one that is neither a grant nor a refusal, such as a 502: the same to the
\* client, though the session may be live.
RefreshLost(f) ==
  /\ f \in flights /\ losses < MaxLosses /\ losses' = losses + 1
  /\ RefreshFails(f)

-----------------------------------------------------------------------------
Next ==
  \/ \E t \in valid : Expire(t)
  \/ \E c \in Calls : Request(c) \/ Logout(c) \/ Login(c)
  \/ \E c \in Slots : Accepted(c) \/ Rejected(c) \/ CallLost(c)
  \/ \E f \in flights :
       RefreshAnswered(f) \/ RefreshGranted(f) \/ RefreshRefused(f) \/ RefreshLost(f)
  \/ Reload

Spec == Init /\ [][Next]_vars

\* Every request is answered or fails; users need not do anything.
Fairness ==
  /\ \A c \in Slots : WF_vars(Accepted(c) \/ Rejected(c))
  /\ WF_vars(\E f \in flights : RefreshAnswered(f))
  /\ WF_vars(\E f \in flights : RefreshGranted(f) \/ RefreshRefused(f))

FairSpec == Spec /\ Fairness
-----------------------------------------------------------------------------

\* "Concurrent 401s share one in-flight refresh": there is never a second refresh request,
\* and the promise stands for the one there is.
SingleFlight ==
  /\ Cardinality(flights) <= 1
  /\ promise = 0 <=> flights = {}
  /\ \A f \in flights : f.id = promise

\* A live session is given up only at a logout, when network or server fail, when the start
\* of the page does, or by the late answer to a refresh of an earlier session.
SessionMayEnd ==
  \/ losses' # losses
  \/ Busy("logout")
  \/ call[Boot].pc # "idle"
  \/ \E f \in flights : f.sess # refresh
SessionKept == [][refresh' # refresh /\ refresh \in live => SessionMayEnd]_vars

\* Every call comes to an end: an answer, an error, or the login page.
CallsEnd == \A c \in Slots : call[c].pc # "idle" ~> call[c].pc = "idle"
=============================================================================
