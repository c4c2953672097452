--------------------------- MODULE SecurityEngine ---------------------------
(***************************************************************************)
(* The rules of core/security_engine.py that count: sliding windows of the *)
(* requests and login posts of an address, and the set of paths it did not *)
(* find.  Rows are evaluated on the event loop, one after the other; the   *)
(* scheduler's cleanup forgets inactive addresses from a thread of the     *)
(* executor, so that the steps of both interleave, wherever one of them    *)
(* looks into a dictionary the other changes.                              *)
(*                                                                         *)
(* The rules that look at one row alone (patterns, user agents, durations) *)
(* keep no state and are left out, as are rules 7 and 10, which compare    *)
(* the window of rule 1 with constants, and the window of a host, which no *)
(* rule reads.  A deque or a set that is empty is not told apart from one  *)
(* that is absent, but for the window of the requests (known).             *)
(***************************************************************************)
EXTENDS Integers, Sequences, FiniteSets, SequencesExt

CONSTANTS
  Addresses, Paths,
  Requests,         \* the rows: whose they are, what rule 8 and rule 9 look for in them
  Minute, Hour,     \* the lengths of the windows, in ticks of the clock
  RateThreshold,    \* cfg.security.rate_limit_threshold
  WindowCap,        \* maxlen of _ip_req_window (1000)
  LoginMax,         \* login posts allowed in an hour (10)
  LoginCap,         \* maxlen of _ip_login_posts (100)
  NotFoundMax,      \* distinct paths not found that are allowed (50)
  MaxTime, MaxRequests   \* bounds

ASSUME WindowsNest == Minute \in Nat /\ Hour \in Nat /\ 0 < Minute /\ Minute <= Hour
ASSUME ThresholdIsAny == RateThreshold \in Int   \* config.py sets no limits
ASSUME CapsSuffice ==
  /\ WindowCap \in Nat \ {0}
  /\ LoginMax \in Nat /\ LoginCap \in Nat /\ LoginMax < LoginCap
\* A row may be a POST to a login path, have a path that was not found, both or neither.
ASSUME RequestsAreRows ==
  Requests \subseteq [addr : Addresses, login : BOOLEAN, missing : {{}} \cup {{p} : p \in Paths}]
ASSUME NotFoundMaxIsNatural == NotFoundMax \in Nat
ASSUME TimeIsBounded == MaxTime \in Nat /\ MaxRequests \in Nat

VARIABLES
  now,
  known,        \* keys of _ip_req_window
  reqWindow,    \* _ip_req_window: arrival times, oldest first
  notFound,     \* _ip_404_paths
  loginPosts,   \* _ip_login_posts
  evaluation,   \* the next step of _evaluate for the last row, and its local "window"
  cleanup,      \* the cleanup thread, its local variables, and the address it has half deleted
  raised,       \* the events of the last row
  history       \* every row, the "now" of its evaluation, and whether a cleanup ran meanwhile

windows == <<reqWindow, notFound, loginPosts>>
vars == <<now, known, windows, evaluation, cleanup, raised, history>>

Idle == [phase |-> "idle", cutoff |-> 0, size |-> 0, scan |-> {}, stale |-> {}, half |-> {}]

Done == [step |-> "none", window |-> <<>>]

Init ==
  /\ now = 0 /\ known = {}
  /\ reqWindow = [a \in Addresses |-> <<>>]
  /\ notFound = [a \in Addresses |-> {}]
  /\ loginPosts = [a \in Addresses |-> <<>>]
  /\ evaluation = Done /\ cleanup = Idle
  /\ raised = {} /\ history = <<>>

\* Mutant: the deques have no maxlen.
Push_Unbounded(w, t, cap) == Append(w, t)

\* deque.append: a full deque drops its oldest element.
Push(w, t, cap) == IF Len(w) = cap THEN Append(Tail(w), t) ELSE Append(w, t)

\* _expire_window: elements are taken from the front until one is young enough.
Expire(w, t, seconds) ==
  LET first == CHOOSE n \in 1 .. Len(w) + 1 :
                 /\ \A k \in 1 .. n - 1 : w[k] < t - seconds
                 /\ n <= Len(w) => w[n] >= t - seconds
  IN  SubSeq(w, first, Len(w))

\* Mutant: login posts are counted in the window of the requests.
LoginWindow_Minute(w, t) == Expire(Push(w, t, LoginCap), t, Minute)

LoginWindow(w, t) == Expire(Push(w, t, LoginCap), t, Hour)

\* Mutant: the requests of an address are never expired.
RequestWindow_Unexpired(w, t) == Push(w, t, WindowCap)

RequestWindow(w, t) == Expire(Push(w, t, WindowCap), t, Minute)

\* The row that is, or was last, under evaluation, and its arrival.
Row == Last(history).row
At == Last(history).at

\* _evaluate reads the time and looks up the window of the requests, which creates it.
Begin(r) ==
  /\ evaluation.step = "none" /\ Len(history) < MaxRequests
  /\ known' = known \cup {r.addr}
  /\ evaluation' = [step |-> "window", window |-> reqWindow[r.addr]]
  /\ raised' = {}
  /\ history' = Append(history, [row |-> r, at |-> now, racing |-> cleanup.phase # "idle"])
  /\ UNCHANGED <<now, windows, cleanup>>

\* What a row has yet to do after rule 1, and after rule 8.
AfterRate(r) == IF r.missing # {} THEN "path" ELSE IF r.login THEN "post" ELSE "none"
AfterScan(r) == IF r.login THEN "post" ELSE "none"

\* It appends to that window, expires it and applies rule 1: to the deque it looked up,
\* although the cleanup may have taken it out of the dictionary since.
CountRequest ==
  LET w == RequestWindow(evaluation.window, At)
  IN  /\ evaluation.step = "window"
      /\ reqWindow' = [reqWindow EXCEPT ![Row.addr] = IF Row.addr \in known THEN w ELSE @]
      /\ raised' = IF Len(w) >= RateThreshold THEN {"rate_limit_trigger"} ELSE {}
      /\ evaluation' = [Done EXCEPT !.step = AfterRate(Row)]
      /\ UNCHANGED <<now, known, notFound, loginPosts, cleanup, history>>

\* It adds a path that was not found to those of the address ...
AddPath ==
  /\ evaluation.step = "path"
  /\ notFound' = [notFound EXCEPT ![Row.addr] = @ \cup Row.missing]
  /\ evaluation' = [Done EXCEPT !.step = "scan"]
  /\ UNCHANGED <<now, known, reqWindow, loginPosts, cleanup, raised, history>>

\* ... and looks them up once more to count them (rule 8).
CountPaths ==
  /\ evaluation.step = "scan"
  /\ raised' = IF Cardinality(notFound[Row.addr]) > NotFoundMax
                  THEN raised \cup {"port_scan_attempt"} ELSE raised
  /\ evaluation' = [Done EXCEPT !.step = AfterScan(Row)]
  /\ UNCHANGED <<now, known, windows, cleanup, history>>

\* A login post is appended to those of the address, which are expired and counted (rule 9).
\* One step: a deque the cleanup drops in the middle is gone as if dropped right after.
CountPost ==
  LET w == LoginWindow(loginPosts[Row.addr], At)
  IN  /\ evaluation.step = "post"
      /\ loginPosts' = [loginPosts EXCEPT ![Row.addr] = w]
      /\ raised' = IF Len(w) > LoginMax THEN raised \cup {"repeated_auth_fail"} ELSE raised
      /\ evaluation' = Done
      /\ UNCHANGED <<now, known, reqWindow, notFound, cleanup, history>>

\* The clock: a tick stands for minutes, and a row is evaluated in less than one, since
\* _evaluate does not await.
Tick ==
  /\ now < MaxTime /\ evaluation.step = "none"
  /\ now' = now + 1
  /\ UNCHANGED <<known, windows, evaluation, cleanup, raised, history>>

\* cleanup_stale_ip_data: the cutoff (a row under evaluation is noted as raced) ...
CleanupStart ==
  /\ cleanup.phase = "idle"
  /\ cleanup' = [Idle EXCEPT !.phase = "scan", !.cutoff = now - Hour,
                             !.size = Cardinality(known), !.scan = known]
  /\ history' = IF evaluation.step = "none" THEN history
                ELSE [history EXCEPT ![Len(history)].racing = TRUE]
  /\ UNCHANGED <<now, known, windows, evaluation, raised>>

\* Mutant: an address is stale after a minute, as its requests are.
Stale_AfterMinute(a) == reqWindow[a] = <<>> \/ Last(reqWindow[a]) < cleanup.cutoff + Hour - Minute

Stale(a) == reqWindow[a] = <<>> \/ Last(reqWindow[a]) < cleanup.cutoff

\* ... the comprehension, which reads one window at a time ...
CleanupScan(a) ==
  /\ cleanup.phase = "scan" /\ a \in cleanup.scan /\ Cardinality(known) = cleanup.size
  /\ cleanup' = [cleanup EXCEPT !.scan = @ \ {a},
                                !.stale = IF Stale(a) THEN @ \cup {a} ELSE @]
  /\ UNCHANGED <<now, known, windows, evaluation, raised, history>>

\* ... and raises when an address has been added meanwhile; the scheduler logs it ...
CleanupFails ==
  /\ cleanup.phase = "scan" /\ Cardinality(known) # cleanup.size
  /\ cleanup' = Idle
  /\ UNCHANGED <<now, known, windows, evaluation, raised, history>>

CleanupScanned ==
  /\ cleanup.phase = "scan" /\ cleanup.scan = {} /\ Cardinality(known) = cleanup.size
  /\ cleanup' = [cleanup EXCEPT !.phase = "delete"]
  /\ UNCHANGED <<now, known, windows, evaluation, raised, history>>

\* ... then, of each stale address, the window of its requests goes ...
CleanupDelete(a) ==
  /\ cleanup.phase = "delete" /\ a \in cleanup.stale
  /\ cleanup' = [cleanup EXCEPT !.phase = "paths", !.stale = @ \ {a}, !.half = {a}]
  /\ known' = known \ {a}
  /\ reqWindow' = [reqWindow EXCEPT ![a] = <<>>]
  /\ UNCHANGED <<now, notFound, loginPosts, evaluation, raised, history>>

\* ... then its paths ...
CleanupPaths(a) ==
  /\ cleanup.phase = "paths" /\ a \in cleanup.half
  /\ cleanup' = [cleanup EXCEPT !.phase = "posts"]
  /\ notFound' = [notFound EXCEPT ![a] = {}]
  /\ UNCHANGED <<now, known, reqWindow, loginPosts, evaluation, raised, history>>

\* Mutant: the login posts of a stale address are kept.
CleanupPosts_Kept(a) ==
  /\ cleanup.phase = "posts" /\ a \in cleanup.half
  /\ cleanup' = [cleanup EXCEPT !.phase = "delete", !.half = {}]
  /\ UNCHANGED <<now, known, windows, evaluation, raised, history>>

\* ... and then its login posts.
CleanupPosts(a) ==
  /\ cleanup.phase = "posts" /\ a \in cleanup.half
  /\ cleanup' = [cleanup EXCEPT !.phase = "delete", !.half = {}]
  /\ loginPosts' = [loginPosts EXCEPT ![a] = <<>>]
  /\ UNCHANGED <<now, known, reqWindow, notFound, evaluation, raised, history>>

CleanupEnd ==
  /\ cleanup.phase = "delete" /\ cleanup.stale = {}
  /\ cleanup' = Idle
  /\ UNCHANGED <<now, known, windows, evaluation, raised, history>>

Next ==
  \/ \E r \in Requests : Begin(r)
  \/ CountRequest \/ AddPath \/ CountPaths \/ CountPost
  \/ Tick
  \/ CleanupStart \/ CleanupFails \/ CleanupScanned \/ CleanupEnd
  \/ \E a \in Addresses :
       CleanupScan(a) \/ CleanupDelete(a) \/ CleanupPaths(a) \/ CleanupPosts(a)

Spec == Init /\ [][Next]_vars
-----------------------------------------------------------------------------

TypeOK ==
  /\ now \in 0 .. MaxTime /\ known \subseteq Addresses
  /\ reqWindow \in [Addresses -> Seq(0 .. now)] /\ loginPosts \in [Addresses -> Seq(0 .. now)]
  /\ \A a \in Addresses : /\ Len(reqWindow[a]) <= WindowCap
                          /\ Len(loginPosts[a]) <= LoginCap
                          /\ reqWindow[a] # <<>> => a \in known
  /\ notFound \in [Addresses -> SUBSET Paths]
  /\ evaluation.step \in {"none", "window", "path", "scan", "post"}
  /\ evaluation.window \in Seq(0 .. now) /\ Len(evaluation.window) <= WindowCap
  /\ cleanup.scan \cup cleanup.stale \cup cleanup.half \subseteq Addresses

\* A row has been evaluated, and none is being evaluated.
Evaluated == history # <<>> /\ evaluation.step = "none"

\* The rows of the last row's address that are no older than "seconds", as indices.
Recent(seconds) == {i \in DOMAIN history : /\ history[i].row.addr = Row.addr
                                          /\ history[i].at >= At - seconds}

\* An event that says "at least this many" is raised only when so many rows did arrive,
\* and always when so many did while no cleanup ran.
RaisedExactly(event, rows, enough) ==
  /\ event \in raised => Cardinality(rows) >= enough
  /\ Cardinality({i \in rows : ~history[i].racing}) >= enough => event \in raised

\* The rate limit counts the requests of the last minute: what the deque drops, what the
\* window expires and what a cleanup forgets never costs an event it owes, and never
\* makes one it does not (rule 1).  A threshold the deque cannot reach, which the
\* configuration allows, never makes one at all.
RateRuleExact ==
  Evaluated =>
    IF RateThreshold <= WindowCap
      THEN RaisedExactly("rate_limit_trigger", Recent(Minute), RateThreshold)
      ELSE "rate_limit_trigger" \notin raised

\* The login rule counts the posts of the last hour, although the cleanup looks only at
\* the requests of an address (rule 9).
LoginRuleExact ==
  Evaluated /\ Row.login =>
    RaisedExactly("repeated_auth_fail", {i \in Recent(Hour) : history[i].row.login}, LoginMax + 1)

\* The scan rule misses no address that did not find more than the allowed paths within
\* an hour, although the cleanup forgets the paths with the windows (rule 8).
ScanRuleMissesNone ==
  Evaluated /\ Row.missing # {} =>
    LET asked == {i \in Recent(Hour) : ~history[i].racing}
    IN  Cardinality(UNION {history[i].row.missing : i \in asked}) > NotFoundMax
          => "port_scan_attempt" \in raised

\* Row i is the last of address a, and a cleanup raced it.
LastAndRaced(i, a) ==
  /\ history[i].row.addr = a /\ history[i].racing
  /\ \A j \in DOMAIN history : j > i => history[j].row.addr # a

\* What is kept of an address that no cleanup finds any more, since its window is gone, is
\* what the last of its rows wrote, and that row was evaluated while a cleanup ran: such a
\* leak is at most one path and one post, and goes with the address's next silence.
OnlyRacesLeak ==
  \A a \in Addresses \ (known \cup cleanup.half) :
    /\ notFound[a] # {} =>
         \E i \in DOMAIN history : LastAndRaced(i, a) /\ notFound[a] \subseteq history[i].row.missing
    /\ loginPosts[a] # <<>> =>
         \E i \in DOMAIN history : LastAndRaced(i, a) /\ loginPosts[a] = <<history[i].at>>
=============================================================================
