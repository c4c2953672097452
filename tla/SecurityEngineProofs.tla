------------------------ MODULE SecurityEngineProofs ------------------------
(***************************************************************************)
(* That the counting rules of SecurityEngine raise what they owe and       *)
(* nothing else, and what the cleanup can leave behind, for every set of   *)
(* addresses and paths, every length of the windows and every limit.       *)
(***************************************************************************)
EXTENDS SecurityEngine, FiniteSetTheorems, SequenceTheorems, WellFoundedInduction, TLAPS

Rows == [row : Requests, at : Nat, racing : BOOLEAN]

\* The rows of an address, as indices of the history; row i is the last and "steps" are still
\* to come; and the rows that have reached each window.
RowsOf(a) == {i \in DOMAIN history : history[i].row.addr = a}
Pending(i, steps) == i = Len(history) /\ evaluation.step \in steps
ArrivedOf(a) == {i \in RowsOf(a) : ~Pending(i, {"window"})}
LoginsOf(a) == {i \in RowsOf(a) : history[i].row.login /\ ~Pending(i, {"window", "path", "scan", "post"})}
MissingOf(a) == {i \in RowsOf(a) : ~Pending(i, {"window", "path"})}

HistoryInOrder ==
  /\ history \in Seq(Rows)
  /\ \A i \in DOMAIN history : history[i].at <= now
  /\ \A i, j \in DOMAIN history : i < j => history[i].at <= history[j].at

\* Element k of window w is the arrival of row f[k], and the rows are in order.
Arrivals(f, w, R, h) ==
  /\ f \in [1 .. Len(w) -> R]
  /\ \A k \in 1 .. Len(w) : w[k] = h[f[k]].at
  /\ \A k, l \in 1 .. Len(w) : k < l => f[k] < f[l]

\* A row of the last "seconds" before t that no cleanup raced is in the window, unless the
\* window is full of rows that came no earlier.
Complete(f, w, R, h, t, seconds, cap) ==
  \A i \in R : ~h[i].racing /\ h[i].at >= t - seconds =>
    \/ \E k \in 1 .. Len(w) : f[k] = i
    \/ Len(w) = cap /\ \A k \in 1 .. Len(w) : w[k] >= h[i].at

\* Window w is what is left of the arrivals of rows R.
Tracks(w, R, h, t, seconds, cap) ==
  \E f \in [1 .. Len(w) -> R] : Arrivals(f, w, R, h) /\ Complete(f, w, R, h, t, seconds, cap)

WindowsTrack ==
  \A a \in Addresses :
    /\ Tracks(reqWindow[a], ArrivedOf(a), history, now, Minute, WindowCap)
    /\ Tracks(loginPosts[a], LoginsOf(a), history, now, Hour, LoginCap)

\* A row under evaluation came now, has not come to rule 9, and has a window still unless a
\* cleanup raced it; the window it looked up is that of its address.
EvaluationShape ==
  /\ evaluation.step # "none" =>
       /\ history # <<>> /\ At = now /\ "repeated_auth_fail" \notin raised
       /\ cleanup.phase # "idle" \/ Row.addr \notin known => Last(history).racing
       /\ evaluation.step = "post" => Row.login
  /\ evaluation.step = "window" =>
       Tracks(evaluation.window, ArrivedOf(Row.addr), history, now, Minute, WindowCap)

\* The window of an address ends with the last row that reached it: what the cleanup looks at.
LastRowIsLast ==
  \A a \in known : reqWindow[a] # <<>> => \A i \in ArrivedOf(a) : history[i].at <= Last(reqWindow[a])

\* The cleanup looks at known addresses, and deletes one at a time.
CleanupShape ==
  /\ cleanup \in [phase : {"idle", "scan", "delete", "paths", "posts"}, cutoff : Int, size : Nat,
                  scan : SUBSET Addresses, stale : SUBSET Addresses, half : SUBSET Addresses]
  /\ IsFiniteSet(known)
  /\ cleanup.phase # "idle" => cleanup.cutoff <= now - Hour
  /\ cleanup.phase = "idle" => cleanup.stale = {}
  /\ cleanup.phase = "scan" => cleanup.scan \subseteq known
  /\ cleanup.phase \notin {"paths", "posts"} => cleanup.half = {}
  /\ \A a, b \in cleanup.half : a = b

\* What the cleanup is deleting had no row since its cutoff before it began, and neither had
\* an address without a window, from which it starts again.
StaleIsOld ==
  \A a \in cleanup.stale \cup cleanup.half : \A i \in RowsOf(a) :
    ~history[i].racing => history[i].at < cleanup.cutoff
Cutoff == IF cleanup.phase = "idle" THEN now - Hour ELSE cleanup.cutoff
EmptyIsOld ==
  \A a \in Addresses : reqWindow[a] = <<>> =>
    \A i \in ArrivedOf(a) : ~history[i].racing => history[i].at < Cutoff

\* The paths of the last hour's rows are remembered.
PathsKept ==
  \A a \in Addresses :
    /\ IsFiniteSet(notFound[a])
    /\ \A i \in MissingOf(a) :
         ~history[i].racing /\ history[i].at >= now - Hour => history[i].row.missing \subseteq notFound[a]

\* What is kept of an address without a window was written by its last row, after the cleanup
\* had passed.
PathLeak(a) ==
  notFound[a] # {} =>
    \E i \in DOMAIN history : LastAndRaced(i, a) /\ notFound[a] \subseteq history[i].row.missing
PostLeak(a) ==
  loginPosts[a] # <<>> => \E i \in LoginsOf(a) : LastAndRaced(i, a) /\ loginPosts[a] = <<history[i].at>>
LeaksAreRaced ==
  \A a \in Addresses \ known :
    /\ a \notin cleanup.half \/ cleanup.phase = "posts" => PathLeak(a)
    /\ a \notin cleanup.half => PostLeak(a)

\* The rules, each from the step that applies it.
RateSoFar ==
  history # <<>> /\ evaluation.step # "window" =>
    IF RateThreshold <= WindowCap
      THEN RaisedExactly("rate_limit_trigger", Recent(Minute), RateThreshold)
      ELSE "rate_limit_trigger" \notin raised
ScanSoFar ==
  history # <<>> /\ evaluation.step \in {"post", "none"} /\ Row.missing # {} =>
    LET asked == {i \in Recent(Hour) : ~history[i].racing}
    IN  Cardinality(UNION {history[i].row.missing : i \in asked}) > NotFoundMax
          => "port_scan_attempt" \in raised
RulesRight == RateSoFar /\ ScanSoFar /\ LoginRuleExact

IInv ==
  /\ TypeOK /\ HistoryInOrder /\ WindowsTrack /\ EvaluationShape /\ LastRowIsLast
  /\ CleanupShape /\ StaleIsOld /\ EmptyIsOld /\ PathsKept /\ LeaksAreRaced
-----------------------------------------------------------------------------

USE WindowsNest, ThresholdIsAny, CapsSuffice, NotFoundMaxIsNatural, TimeIsBounded

\* A set of numbers has a smallest one.
LEMMA LeastExists ==
  ASSUME NEW S, S \subseteq Nat, S # {} PROVE \E m \in S : \A x \in S : m <= x
<1>1. PICK m \in S : \A x \in S : ~ (<<x, m>> \in OpToRel(<, Nat))
  BY NatLessThanWellFounded, WFMin
<1>2. \A x \in S : ~ (x < m)
  BY <1>1 DEF OpToRel
<1>. QED  BY <1>2

\* Expire drops the old elements at the front of a window, and stops at the first young one.
LEMMA ExpireDrops ==
  ASSUME NEW u \in Seq(Nat), NEW seconds \in Nat, NEW t \in Nat
  PROVE  \E d \in 0 .. Len(u) : /\ Expire(u, t, seconds) = SubSeq(u, d + 1, Len(u))
                                /\ \A k \in 1 .. d : u[k] < t - seconds
                                /\ d < Len(u) => u[d + 1] >= t - seconds
<1>. DEFINE Stops(n) == n <= Len(u) => u[n] >= t - seconds
            Old(n) == \A k \in 1 .. n - 1 : u[k] < t - seconds
            S == {n \in 1 .. Len(u) + 1 : Stops(n)}
            first == CHOOSE n \in 1 .. Len(u) + 1 : Old(n) /\ Stops(n)
<1>0. Len(u) \in Nat /\ \A k \in 1 .. Len(u) : u[k] \in Nat
  OBVIOUS
<1>1. S \subseteq Nat /\ Len(u) + 1 \in S
  BY <1>0
<1>2. PICK m \in S : \A x \in S : m <= x
  BY <1>1, LeastExists
<1>3. ASSUME NEW k \in 1 .. m - 1 PROVE u[k] < t - seconds
  <2>1. k \in 1 .. Len(u) /\ k \notin S
    BY <1>0, <1>2
  <2>. QED  BY <2>1, <1>0
<1>4. m \in 1 .. Len(u) + 1 /\ Old(m) /\ Stops(m)
  BY <1>3
<1>5. first \in 1 .. Len(u) + 1 /\ Old(first) /\ Stops(first)
  <2>. HIDE DEF Old, Stops
  <2>. QED  BY <1>4
<1>6. Expire(u, t, seconds) = SubSeq(u, first, Len(u))
  BY DEF Expire
<1>. DEFINE d == first - 1
<1>. HIDE DEF first
<1>7. d \in 0 .. Len(u) /\ d + 1 = first
  BY <1>0, <1>5
<1>. HIDE DEF d
<1>8. \A k \in 1 .. d : u[k] < t - seconds
  BY <1>5, <1>7
<1>9. d < Len(u) => u[d + 1] >= t - seconds
  BY <1>0, <1>5, <1>7
<1>10. Expire(u, t, seconds) = SubSeq(u, d + 1, Len(u))
  BY <1>6, <1>7
<1>. QED  BY <1>7, <1>8, <1>9, <1>10

\* Window v after an arrival at t: the last elements of what it was, w, without d of them,
\* and the arrival; what went is old, or was the front of a full window.
Kept(v, d, w, t, cap, seconds) ==
  /\ v \in Seq(Nat) /\ Len(v) = Len(w) + 1 - d /\ Len(v) <= cap
  /\ \A k \in 1 .. Len(v) - 1 : v[k] = w[k + d]
  /\ v[Len(v)] = t
  /\ \A k \in 1 .. d : w[k] < t - seconds \/ (k = 1 /\ Len(w) = cap)
  /\ v[1] >= t - seconds

LEMMA ArrivalKept ==
  ASSUME NEW w \in Seq(Nat), NEW cap \in Nat \ {0}, Len(w) <= cap, NEW seconds \in Nat, NEW t \in Nat
  PROVE  \E d \in 0 .. Len(w) : Kept(Expire(Push(w, t, cap), t, seconds), d, w, t, cap, seconds)
<1>. DEFINE u == Push(w, t, cap)
            v == Expire(u, t, seconds)
            e == IF Len(w) = cap THEN 1 ELSE 0
<1>0. Len(w) \in Nat /\ \A k \in 1 .. Len(w) : w[k] \in Nat
  OBVIOUS
<1>1. /\ u \in Seq(Nat) /\ Len(u) = Len(w) + 1 - e
      /\ \A k \in 1 .. Len(u) - 1 : u[k] = w[k + e]
      /\ u[Len(u)] = t
  <2>1. CASE Len(w) = cap
    <3>1. w # <<>>
      BY <2>1
    <3>2. /\ Tail(w) \in Seq(Nat) /\ Len(Tail(w)) = Len(w) - 1
          /\ \A k \in 1 .. Len(Tail(w)) : Tail(w)[k] = w[k + 1]
      BY <3>1, HeadTailProperties
    <3>3. u = Append(Tail(w), t) /\ e = 1
      BY <2>1 DEF Push
    <3>. HIDE DEF u, e
    <3>4. /\ u \in Seq(Nat) /\ Len(u) = Len(Tail(w)) + 1
          /\ \A k \in 1 .. Len(Tail(w)) : u[k] = Tail(w)[k]
          /\ u[Len(Tail(w)) + 1] = t
      <4>. DEFINE tail == Tail(w)
      <4>1. tail \in Seq(Nat) /\ u = Append(tail, t)
        BY <3>2, <3>3
      <4>. HIDE DEF tail
      <4>2. /\ u \in Seq(Nat) /\ Len(u) = Len(tail) + 1
            /\ \A k \in 1 .. Len(tail) : u[k] = tail[k]
            /\ u[Len(tail) + 1] = t
        BY <4>1, AppendProperties
      <4>. QED  BY <4>2 DEF tail
    <3>5. Len(u) = Len(w) /\ Len(Tail(w)) = Len(u) - 1
      BY <1>0, <3>2, <3>4
    <3>6. \A k \in 1 .. Len(u) - 1 : u[k] = w[k + 1]
      BY <3>2, <3>4, <3>5
    <3>. QED  BY <1>0, <3>2, <3>3, <3>4, <3>5, <3>6
  <2>2. CASE Len(w) # cap
    <3>1. u = Append(w, t) /\ e = 0
      BY <2>2 DEF Push
    <3>. HIDE DEF u, e
    <3>2. /\ u \in Seq(Nat) /\ Len(u) = Len(w) + 1
          /\ \A k \in 1 .. Len(w) : u[k] = w[k]
          /\ u[Len(w) + 1] = t
      BY <3>1, AppendProperties
    <3>. QED  BY <1>0, <3>1, <3>2
  <2>. QED  BY <2>1, <2>2
<1>. HIDE DEF u
<1>2. PICK c \in 0 .. Len(u) : /\ v = SubSeq(u, c + 1, Len(u))
                               /\ \A k \in 1 .. c : u[k] < t - seconds
                               /\ c < Len(u) => u[c + 1] >= t - seconds
  BY <1>1, ExpireDrops
<1>3. e \in {0, 1} /\ e <= Len(w) /\ (e = 1 <=> Len(w) = cap)
  BY <1>0
<1>. HIDE DEF v, e
<1>4. Len(u) \in Nat /\ c < Len(u)
  <2>1. Len(u) \in 1 .. Len(w) + 1
    BY <1>0, <1>1, <1>3
  <2>2. ~(u[Len(u)] < t - seconds)
    BY <1>1
  <2>. QED  BY <1>2, <2>1, <2>2
<1>5. /\ v \in Seq(Nat) /\ Len(v) = Len(u) - c
      /\ \A k \in 1 .. Len(u) - c : v[k] = u[k + c]
  <2>1. \A k \in c + 1 .. Len(u) : u[k] \in Nat
    BY <1>1, <1>2, <1>4
  <2>2. /\ SubSeq(u, c + 1, Len(u)) \in Seq(Nat)
        /\ Len(SubSeq(u, c + 1, Len(u))) = IF c + 1 <= Len(u) THEN Len(u) - (c + 1) + 1 ELSE 0
        /\ \A k \in 1 .. Len(u) - (c + 1) + 1 : SubSeq(u, c + 1, Len(u))[k] = u[(c + 1) + k - 1]
    BY <2>1, <1>4, SubSeqProperties
  <2>. QED  BY <2>2, <1>2, <1>4
<1>. DEFINE d == c + e
<1>6. d \in 0 .. Len(w) /\ Len(v) = Len(w) + 1 - d /\ Len(v) <= cap
  <2>1. Len(u) = Len(w) + 1 - e /\ Len(v) = Len(u) - c /\ c \in Nat
    BY <1>1, <1>2, <1>4, <1>5
  <2>2. e \in {0, 1} /\ (e = 0 => Len(w) # cap)
    BY <1>3
  <2>. QED  BY <1>0, <1>4, <2>1, <2>2
<1>7. ASSUME NEW k \in 1 .. Len(v) - 1 PROVE v[k] = w[k + d]
  <2>1. k \in 1 .. Len(u) - c /\ k + c \in 1 .. Len(u) - 1
    <3>1. Len(v) = Len(u) - c /\ c \in Nat
      BY <1>2, <1>4, <1>5
    <3>. QED  BY <3>1, <1>4
  <2>2. v[k] = u[k + c] /\ u[k + c] = w[(k + c) + e]
    BY <2>1, <1>1, <1>5
  <2>3. (k + c) + e = k + d
    BY <1>3
  <2>. QED  BY <2>2, <2>3
<1>8. v[Len(v)] = t
  BY <1>1, <1>4, <1>5
<1>9. ASSUME NEW k \in 1 .. d PROVE w[k] < t - seconds \/ (k = 1 /\ Len(w) = cap)
  <2>1. CASE k = 1 /\ e = 1
    BY <2>1, <1>3
  <2>2. CASE ~(k = 1 /\ e = 1)
    <3>1. k - e \in 1 .. c /\ k - e \in 1 .. Len(u) - 1 /\ (k - e) + e = k
      BY <2>2, <1>3, <1>4
    <3>. QED  BY <3>1, <1>1, <1>2
  <2>. QED  BY <2>1, <2>2
<1>10. v[1] >= t - seconds
  <2>1. 1 \in 1 .. Len(u) - c /\ 1 + c = c + 1
    BY <1>4
  <2>. QED  BY <2>1, <1>2, <1>4, <1>5
<1>11. Kept(v, d, w, t, cap, seconds)
  BY <1>5, <1>6, <1>7, <1>8, <1>9, <1>10 DEF Kept
<1>. HIDE DEF d
<1>. QED  BY <1>6, <1>11 DEF u, v

\* Rows up to n, in the order of their arrival, up to t; and what a window is that the last
\* of rows R has joined at t.
EarlierRows(R, h, t, n) ==
  /\ R \subseteq 1 .. n
  /\ \A i \in R : h[i].at \in Nat /\ h[i].at <= t
  /\ \A i, j \in R : i < j => h[i].at <= h[j].at
Joined(v, R, h, t, seconds, cap) ==
  /\ v \in Seq(Nat) /\ Len(v) \in 1 .. cap /\ v[Len(v)] = t
  /\ \A k \in 1 .. Len(v) : v[k] \in Nat /\ t - seconds <= v[k] /\ v[k] <= t
  /\ Tracks(v, R, h, t, seconds, cap)

\* An arrival and the expiry after it keep a window tracking its rows, with the new one.
LEMMA ArrivalTracked ==
  ASSUME NEW w \in Seq(Nat), NEW cap \in Nat \ {0}, Len(w) <= cap, NEW seconds \in Nat, NEW t \in Nat,
         NEW n \in Nat, NEW R, NEW h, EarlierRows(R, h, t, n), h[n + 1].at = t,
         Tracks(w, R, h, t, seconds, cap)
  PROVE  Joined(Expire(Push(w, t, cap), t, seconds), R \cup {n + 1}, h, t, seconds, cap)
<1>. USE DEF EarlierRows, Joined
<1>. DEFINE v == Expire(Push(w, t, cap), t, seconds)
<1>1. PICK f \in [1 .. Len(w) -> R] : Arrivals(f, w, R, h) /\ Complete(f, w, R, h, t, seconds, cap)
  BY DEF Tracks
<1>0. PICK d \in 0 .. Len(w) : Kept(v, d, w, t, cap, seconds)
  BY ArrivalKept
<1>2. /\ v \in Seq(Nat) /\ Len(v) = Len(w) + 1 - d /\ Len(v) <= cap
      /\ \A k \in 1 .. Len(v) - 1 : v[k] = w[k + d]
      /\ v[Len(v)] = t
      /\ \A k \in 1 .. d : w[k] < t - seconds \/ (k = 1 /\ Len(w) = cap)
      /\ v[1] >= t - seconds
  BY <1>0 DEF Kept
<1>. HIDE DEF v
<1>3. Len(w) \in Nat /\ Len(v) \in 1 .. Len(w) + 1 /\ d = Len(w) + 1 - Len(v)
  <2>1. Len(w) \in Nat /\ Len(v) = Len(w) + 1 - d
    BY <1>2
  <2>. QED  BY <2>1
<1>4. \A k \in 1 .. Len(w) : w[k] = h[f[k]].at /\ w[k] \in Nat /\ w[k] <= t /\ f[k] \in R
  BY <1>1 DEF Arrivals
<1>5. ASSUME NEW k \in 1 .. Len(w), NEW l \in k .. Len(w) PROVE w[k] <= w[l]
  <2>1. CASE k = l
    BY <2>1, <1>4
  <2>2. CASE k # l
    <3>1. k < l /\ l \in 1 .. Len(w)
      BY <2>2
    <3>2. f[k] < f[l]
      BY <3>1, <1>1 DEF Arrivals
    <3>. QED  BY <3>1, <3>2, <1>4
  <2>. QED  BY <2>1, <2>2
<1>6. ASSUME NEW k \in 1 .. Len(v) PROVE k = Len(v) \/ (k + d \in 1 .. Len(w) /\ v[k] = w[k + d])
  <2>1. CASE k # Len(v)
    <3>1. k \in 1 .. Len(v) - 1 /\ k + d \in 1 .. Len(w)
      BY <2>1, <1>3
    <3>. QED  BY <3>1, <1>2
  <2>. QED  BY <2>1
<1>7. ASSUME NEW k \in 1 .. Len(v) PROVE v[k] \in Nat /\ t - seconds <= v[k] /\ v[k] <= t
  <2>1. CASE k = Len(v)
    BY <2>1, <1>2
  <2>2. CASE k # Len(v)
    <3>1. k + d \in 1 .. Len(w) /\ v[k] = w[k + d]
      BY <2>2, <1>6
    <3>2. 1 \in 1 .. Len(v) /\ 1 # Len(v) /\ 1 + d \in 1 .. Len(w) /\ k + d \in 1 + d .. Len(w)
      <4>1. Len(w) \in Nat /\ Len(v) \in Nat /\ Len(v) = Len(w) + 1 - d /\ k < Len(v)
        BY <2>2, <1>3
      <4>. QED  BY <4>1
    <3>3. v[1] = w[1 + d]
      BY <3>2, <1>6
    <3>4. w[1 + d] <= w[k + d]
      BY <3>2, <3>1, <1>5
    <3>5. v[1] >= t - seconds
      BY <1>2
    <3>6. w[k + d] \in Nat /\ w[k + d] <= t /\ w[1 + d] \in Nat
      BY <3>1, <3>2, <1>4
    <3>7. \A x, y \in Nat : x >= t - seconds /\ x <= y => t - seconds <= y
      OBVIOUS
    <3>8. t - seconds <= w[k + d]
      BY <3>3, <3>4, <3>5, <3>6, <3>7
    <3>. QED  BY <3>1, <3>6, <3>8
  <2>. QED  BY <2>1, <2>2
<1>8. v \in Seq(Nat) /\ Len(v) \in 1 .. cap /\ v[Len(v)] = t
  BY <1>2, <1>3
<1>. DEFINE F == [k \in 1 .. Len(v) |-> IF k = Len(v) THEN n + 1 ELSE f[k + d]]
<1>9. Arrivals(F, v, R \cup {n + 1}, h)
  <2>1. ASSUME NEW k \in 1 .. Len(v) PROVE F[k] \in R \cup {n + 1} /\ v[k] = h[F[k]].at
    <3>1. CASE k = Len(v)
      BY <3>1, <1>2
    <3>2. CASE k # Len(v)
      <4>1. k + d \in 1 .. Len(w) /\ v[k] = w[k + d] /\ F[k] = f[k + d]
        BY <3>2, <1>6
      <4>2. f[k + d] \in R /\ w[k + d] = h[f[k + d]].at
        BY <4>1, <1>4
      <4>. QED  BY <4>1, <4>2
    <3>. QED  BY <3>1, <3>2
  <2>2. ASSUME NEW k \in 1 .. Len(v), NEW l \in 1 .. Len(v), k < l PROVE F[k] < F[l]
    <3>1. k # Len(v) /\ k + d \in 1 .. Len(w) /\ F[k] = f[k + d]
      BY <2>2, <1>3, <1>6
    <3>2. CASE l = Len(v)
      <4>1. F[l] = n + 1 /\ f[k + d] \in 1 .. n
        BY <3>1, <3>2, <1>4
      <4>. QED  BY <3>1, <4>1
    <3>3. CASE l # Len(v)
      <4>1. l + d \in 1 .. Len(w) /\ F[l] = f[l + d] /\ k + d < l + d
        BY <3>3, <2>2, <1>3, <1>6
      <4>. QED  BY <3>1, <4>1, <1>1 DEF Arrivals
    <3>. QED  BY <3>2, <3>3
  <2>3. F \in [1 .. Len(v) -> R \cup {n + 1}]
    BY <2>1
  <2>. QED  BY <2>1, <2>2, <2>3 DEF Arrivals
<1>10. Complete(F, v, R \cup {n + 1}, h, t, seconds, cap)
  <2>. SUFFICES ASSUME NEW i \in R \cup {n + 1}, ~h[i].racing, h[i].at >= t - seconds
                PROVE  \/ \E k \in 1 .. Len(v) : F[k] = i
                       \/ Len(v) = cap /\ \A k \in 1 .. Len(v) : v[k] >= h[i].at
    BY DEF Complete
  <2>1. CASE i = n + 1
    <3>1. Len(v) \in 1 .. Len(v) /\ F[Len(v)] = n + 1
      BY <1>3
    <3>. QED  BY <2>1, <3>1
  <2>2. CASE i \in R
    <3>1. ~h[i].racing /\ h[i].at >= t - seconds /\ h[i].at \in Nat /\ h[i].at <= t
      BY <2>2
    <3>2. CASE \E k \in d + 1 .. Len(w) : f[k] = i
      <4>1. PICK k \in d + 1 .. Len(w) : f[k] = i
        BY <3>2
      <4>2. k - d \in 1 .. Len(v) /\ k - d # Len(v) /\ (k - d) + d = k
        BY <1>3
      <4>3. F[k - d] = f[k]
        BY <4>2
      <4>. QED  BY <4>1, <4>2, <4>3
    <3>3. CASE ~ \E k \in d + 1 .. Len(w) : f[k] = i
      <4>1. Len(w) = cap /\ \A k \in 1 .. Len(w) : w[k] >= h[i].at
        <5>1. CASE \E k \in 1 .. Len(w) : f[k] = i
          <6>1. PICK k \in 1 .. Len(w) : f[k] = i
            BY <5>1
          <6>2. k \in 1 .. d /\ w[k] = h[i].at
            BY <6>1, <3>3, <1>3, <1>4
          <6>3. k = 1 /\ Len(w) = cap
            <7>1. w[k] < t - seconds \/ (k = 1 /\ Len(w) = cap)
              BY <6>2, <1>2
            <7>. QED  BY <7>1, <6>2, <3>1
          <6>. QED  BY <6>2, <6>3, <1>5
        <5>2. CASE ~ \E k \in 1 .. Len(w) : f[k] = i
          BY <5>2, <2>2, <3>1, <1>1 DEF Complete
        <5>. QED  BY <5>1, <5>2
      <4>2. d = 1
        <5>1. d >= 1
          BY <4>1, <1>2, <1>3
        <5>2. ASSUME d >= 2 PROVE FALSE
          <6>1. 2 \in 1 .. d /\ 2 \in 1 .. Len(w)
            BY <5>2, <1>3
          <6>2. w[2] < t - seconds
            BY <6>1, <1>2
          <6>3. w[2] >= h[i].at /\ w[2] \in Nat
            BY <4>1, <6>1, <1>4
          <6>. QED  BY <6>2, <6>3, <3>1
        <5>. QED  BY <5>1, <5>2, <1>3
      <4>3. Len(v) = cap
        BY <4>1, <4>2, <1>3
      <4>4. ASSUME NEW k \in 1 .. Len(v) PROVE v[k] >= h[i].at
        <5>1. CASE k = Len(v)
          BY <5>1, <3>1, <1>2
        <5>2. CASE k # Len(v)
          BY <5>2, <3>1, <4>1, <1>6
        <5>. QED  BY <5>1, <5>2
      <4>. QED  BY <4>3, <4>4
    <3>. QED  BY <3>2, <3>3
  <2>. QED  BY <2>1, <2>2
<1>11. F \in [1 .. Len(v) -> R \cup {n + 1}]
  BY <1>9 DEF Arrivals
<1>12. Tracks(v, R \cup {n + 1}, h, t, seconds, cap)
  <2>. HIDE DEF F
  <2>. QED  BY <1>9, <1>10, <1>11 DEF Tracks
<1>. QED  BY <1>7, <1>8, <1>12 DEF v

SameRows(R, h, g) == \A i \in R : h[i].at \in Nat /\ g[i].at = h[i].at /\ (h[i].racing => g[i].racing)

\* What is remembered of rows still tracks them later, and when a cleanup races one.
LEMMA TracksLater ==
  ASSUME NEW w \in Seq(Nat), NEW cap \in Nat, NEW seconds \in Nat, NEW t \in Nat, NEW u \in Nat, t <= u,
         NEW R, NEW h, NEW g, SameRows(R, h, g), Tracks(w, R, h, t, seconds, cap)
  PROVE  Tracks(w, R, g, u, seconds, cap)
<1>. USE DEF SameRows
<1>1. PICK f \in [1 .. Len(w) -> R] : Arrivals(f, w, R, h) /\ Complete(f, w, R, h, t, seconds, cap)
  BY DEF Tracks
<1>2. Arrivals(f, w, R, g)
  BY <1>1 DEF Arrivals
<1>3. ASSUME NEW i \in R, ~g[i].racing, g[i].at >= u - seconds
      PROVE  \/ \E k \in 1 .. Len(w) : f[k] = i
             \/ Len(w) = cap /\ \A k \in 1 .. Len(w) : w[k] >= g[i].at
  <2>1. ~h[i].racing /\ h[i].at >= t - seconds /\ g[i].at = h[i].at
    BY <1>3
  <2>. QED  BY <2>1, <1>1 DEF Complete
<1>4. Complete(f, w, R, g, u, seconds, cap)
  BY <1>3 DEF Complete
<1>. QED  BY <1>2, <1>4 DEF Tracks

\* A row that a cleanup raced need not be in the window.
LEMMA TracksRaced ==
  ASSUME NEW w \in Seq(Nat), NEW cap, NEW seconds, NEW t, NEW R, NEW S, NEW h,
         R \subseteq S, \A i \in S : i \in R \/ h[i].racing, Tracks(w, R, h, t, seconds, cap)
  PROVE  Tracks(w, S, h, t, seconds, cap)
<1>1. PICK f \in [1 .. Len(w) -> R] : Arrivals(f, w, R, h) /\ Complete(f, w, R, h, t, seconds, cap)
  BY DEF Tracks
<1>2. f \in [1 .. Len(w) -> S]
  OBVIOUS
<1>3. Arrivals(f, w, S, h)
  BY <1>1, <1>2 DEF Arrivals
<1>4. Complete(f, w, S, h, t, seconds, cap)
  BY <1>1 DEF Complete
<1>. QED  BY <1>2, <1>3, <1>4 DEF Tracks

\* An emptied window tracks rows that are old, or that a cleanup raced.
LEMMA TracksNothing ==
  ASSUME NEW cap, NEW seconds, NEW t, NEW R, NEW h,
         \A i \in R : ~h[i].racing => ~(h[i].at >= t - seconds)
  PROVE  Tracks(<<>>, R, h, t, seconds, cap)
<1>. DEFINE f == [k \in 1 .. 0 |-> 0]
<1>1. f \in [1 .. Len(<<>>) -> R] /\ 1 .. Len(<<>>) = {}
  OBVIOUS
<1>2. Arrivals(f, <<>>, R, h)
  BY <1>1 DEF Arrivals
<1>3. Complete(f, <<>>, R, h, t, seconds, cap)
  BY DEF Complete
<1>. QED  BY <1>1, <1>2, <1>3 DEF Tracks

\* How many numbers there are up to m.
LEMMA IntervalSize ==
  ASSUME NEW m \in Nat PROVE IsFiniteSet(1 .. m) /\ Cardinality(1 .. m) = m
<1>1. IsFiniteSet(1 .. m) /\ Cardinality(1 .. m) = IF 1 > m THEN 0 ELSE m - 1 + 1
  BY FS_Interval
<1>. QED  BY <1>1

\* The rows of R no older than "seconds" at t, those of them no cleanup raced, and a window
\* without older elements.
RecentOf(R, h, t, seconds) == {i \in R : h[i].at >= t - seconds}
CalmOf(rows, h) == {i \in rows : ~h[i].racing}
Young(w, t, seconds) == \A k \in 1 .. Len(w) : w[k] >= t - seconds
RowsUpTo(R, h, n) == R \subseteq 1 .. n /\ \A i \in R : h[i].at \in Nat

\* A window without old elements counts the recent rows: never more than there are, and
\* never fewer than "enough" when so many are.
LEMMA TrackedCount ==
  ASSUME NEW w \in Seq(Nat), NEW cap \in Nat, NEW seconds \in Nat, NEW t \in Nat,
         NEW n \in Nat, NEW R, NEW h, RowsUpTo(R, h, n), Young(w, t, seconds),
         Tracks(w, R, h, t, seconds, cap), NEW enough \in Int, enough <= cap
  PROVE  /\ Len(w) >= enough => Cardinality(RecentOf(R, h, t, seconds)) >= enough
         /\ Cardinality(CalmOf(RecentOf(R, h, t, seconds), h)) >= enough => Len(w) >= enough
<1>. USE DEF RowsUpTo, Young
<1>. DEFINE rows == {i \in R : h[i].at >= t - seconds}
            calm == {i \in rows : ~h[i].racing}
<1>0. rows = RecentOf(R, h, t, seconds) /\ calm = CalmOf(RecentOf(R, h, t, seconds), h)
  BY DEF RecentOf, CalmOf
<1>1. PICK f \in [1 .. Len(w) -> R] : Arrivals(f, w, R, h) /\ Complete(f, w, R, h, t, seconds, cap)
  BY DEF Tracks
<1>2. Len(w) \in Nat /\ IsFiniteSet(1 .. Len(w)) /\ Cardinality(1 .. Len(w)) = Len(w)
  BY IntervalSize
<1>3. IsFiniteSet(rows) /\ IsFiniteSet(calm) /\ Cardinality(rows) \in Nat /\ Cardinality(calm) \in Nat
  <2>1. IsFiniteSet(1 .. n)
    BY FS_Interval
  <2>2. rows \in SUBSET (1 .. n) /\ calm \in SUBSET (1 .. n)
    OBVIOUS
  <2>. HIDE DEF rows, calm
  <2>. QED  BY <2>1, <2>2, FS_Subset, FS_CardinalityType
<1>4. Len(w) <= Cardinality(rows)
  <2>1. f \in [1 .. Len(w) -> rows]
    BY <1>1 DEF Arrivals
  <2>2. \A k, l \in 1 .. Len(w) : f[k] = f[l] => k = l
    <3>1. \A k, l \in 1 .. Len(w) : k < l => f[k] < f[l] /\ f[k] \in 1 .. n
      BY <1>1 DEF Arrivals
    <3>. QED  BY <1>2, <3>1
  <2>3. f \in Injection(1 .. Len(w), rows)
    <3>. HIDE DEF rows
    <3>. QED  BY <2>1, <2>2 DEF Injection, IsInjective
  <2>. HIDE DEF rows
  <2>. QED  BY <1>2, <1>3, <2>3, FS_Injection
<1>5. CASE \E i \in calm : Len(w) = cap
  <2>1. Len(w) = cap
    BY <1>5
  <2>. HIDE DEF rows, calm
  <2>2. Len(w) >= enough => Cardinality(rows) >= enough
    BY <1>2, <1>3, <1>4
  <2>3. Len(w) >= enough
    BY <2>1
  <2>. QED  BY <1>0, <2>2, <2>3
<1>6. CASE ~ \E i \in calm : Len(w) = cap
  <2>1. \A i \in calm : \E k \in 1 .. Len(w) : f[k] = i
    BY <1>1, <1>6 DEF Complete
  <2>. DEFINE seen == {k \in 1 .. Len(w) : f[k] \in calm}
              s == [k \in seen |-> f[k]]
  <2>2. seen \in SUBSET (1 .. Len(w))
    OBVIOUS
  <2>3. s \in Surjection(seen, calm)
    <3>. HIDE DEF calm
    <3>. QED  BY <2>1 DEF Surjection
  <2>. HIDE DEF calm, seen
  <2>4. IsFiniteSet(seen) /\ Cardinality(seen) <= Len(w) /\ Cardinality(seen) \in Nat
    BY <1>2, <2>2, FS_Subset, FS_CardinalityType
  <2>5. Cardinality(calm) <= Cardinality(seen)
    BY <2>3, <2>4, FS_Surjection
  <2>. HIDE DEF rows
  <2>6. Len(w) >= enough => Cardinality(rows) >= enough
    BY <1>2, <1>3, <1>4
  <2>7. Cardinality(calm) >= enough => Len(w) >= enough
    BY <1>2, <1>3, <2>4, <2>5
  <2>. QED  BY <1>0, <2>6, <2>7 DEF calm
<1>. QED  BY <1>5, <1>6

\* A rule owes no more when a cleanup races more rows.
LEMMA FewerCalm ==
  ASSUME NEW rows, IsFiniteSet(rows), NEW h, NEW g, \A i \in rows : h[i].racing => g[i].racing,
         NEW enough \in Int, Cardinality(CalmOf(rows, g)) >= enough
  PROVE  Cardinality(CalmOf(rows, h)) >= enough
<1>1. CalmOf(rows, g) \in SUBSET CalmOf(rows, h) /\ CalmOf(rows, h) \in SUBSET rows
  BY DEF CalmOf
<1>2. /\ IsFiniteSet(CalmOf(rows, h)) /\ Cardinality(CalmOf(rows, h)) \in Nat
      /\ Cardinality(CalmOf(rows, g)) <= Cardinality(CalmOf(rows, h))
      /\ Cardinality(CalmOf(rows, g)) \in Nat
  BY <1>1, FS_Subset, FS_CardinalityType
<1>. QED  BY <1>2

\* Windows are sequences of times up to now.
LEMMA SeqUpTo ==
  ASSUME NEW t \in Nat, NEW v \in Seq(Nat), \A k \in 1 .. Len(v) : v[k] <= t
  PROVE  v \in Seq(0 .. t)
<1>1. Len(v) \in Nat /\ v \in [1 .. Len(v) -> 0 .. t]
  OBVIOUS
<1>. QED  BY <1>1

LEMMA SeqOfTimes ==
  ASSUME NEW t \in Nat, NEW v \in Seq(0 .. t)
  PROVE  v \in Seq(Nat) /\ Len(v) \in Nat /\ \A k \in 1 .. Len(v) : v[k] <= t
<1>1. Len(v) \in Nat /\ v \in [1 .. Len(v) -> 0 .. t]
  OBVIOUS
<1>2. v \in [1 .. Len(v) -> Nat]
  BY <1>1
<1>. QED  BY <1>1, <1>2

-----------------------------------------------------------------------------

\* The initial state satisfies the invariant.
LEMMA InvInit == Init => IInv /\ RulesRight
<1>. SUFFICES ASSUME Init PROVE IInv /\ RulesRight
  OBVIOUS
<1>. USE DEF Init
<1>1. DOMAIN history = {} /\ \A a : RowsOf(a) = {} /\ ArrivedOf(a) = {} /\ LoginsOf(a) = {} /\ MissingOf(a) = {}
  BY DEF RowsOf, ArrivedOf, LoginsOf, MissingOf
<1>2. TypeOK
  <2>1. <<>> \in Seq(0 .. now) /\ Len(<<>>) = 0
    OBVIOUS
  <2>. QED  BY <2>1 DEF TypeOK, Idle, Done
<1>3. HistoryInOrder
  BY <1>1 DEF HistoryInOrder
<1>4. WindowsTrack
  <2>1. ASSUME NEW a \in Addresses
        PROVE  /\ Tracks(<<>>, ArrivedOf(a), history, now, Minute, WindowCap)
               /\ Tracks(<<>>, LoginsOf(a), history, now, Hour, LoginCap)
    BY <1>1, TracksNothing
  <2>. QED  BY <2>1 DEF WindowsTrack
<1>5. EvaluationShape /\ LastRowIsLast /\ EmptyIsOld
  BY <1>1 DEF EvaluationShape, Done, LastRowIsLast, EmptyIsOld
<1>6. CleanupShape /\ StaleIsOld
  BY FS_EmptySet DEF CleanupShape, StaleIsOld, Idle
<1>7. PathsKept
  BY <1>1, FS_EmptySet DEF PathsKept
<1>8. LeaksAreRaced
  BY DEF LeaksAreRaced, PathLeak, PostLeak
<1>9. RulesRight
  BY DEF RulesRight, RateSoFar, ScanSoFar, LoginRuleExact, Evaluated
<1>. QED  BY <1>2, <1>3, <1>4, <1>5, <1>6, <1>7, <1>8, <1>9 DEF IInv

\* What the invariant says of the rows.
LEMMA RowTypes ==
  ASSUME IInv
  PROVE  /\ history \in Seq(Rows) /\ Len(history) \in Nat /\ DOMAIN history = 1 .. Len(history)
         /\ \A i \in 1 .. Len(history) :
              /\ history[i].at \in Nat /\ history[i].at <= now /\ history[i].racing \in BOOLEAN
              /\ history[i].row \in Requests /\ history[i].row.addr \in Addresses
              /\ history[i].row.login \in BOOLEAN
              /\ history[i].row.missing \subseteq Paths /\ IsFiniteSet(history[i].row.missing)
         /\ \A i, j \in 1 .. Len(history) : i < j => history[i].at <= history[j].at
<1>1. /\ history \in Seq(Rows) /\ Len(history) \in Nat /\ DOMAIN history = 1 .. Len(history)
      /\ \A i \in 1 .. Len(history) : history[i].at <= now
      /\ \A i, j \in 1 .. Len(history) : i < j => history[i].at <= history[j].at
  BY DEF IInv, HistoryInOrder
<1>2. ASSUME NEW i \in 1 .. Len(history)
      PROVE  /\ history[i].at \in Nat /\ history[i].racing \in BOOLEAN
             /\ history[i].row \in Requests /\ history[i].row.addr \in Addresses
             /\ history[i].row.login \in BOOLEAN
             /\ history[i].row.missing \subseteq Paths /\ IsFiniteSet(history[i].row.missing)
  <2>1. history[i] \in Rows
    BY <1>1
  <2>2. history[i].at \in Nat /\ history[i].racing \in BOOLEAN /\ history[i].row \in Requests
    BY <2>1 DEF Rows
  <2>3. /\ history[i].row.addr \in Addresses /\ history[i].row.login \in BOOLEAN
        /\ history[i].row.missing = {} \/ \E p \in Paths : history[i].row.missing = {p}
    BY <2>2, RequestsAreRows
  <2>4. IsFiniteSet(history[i].row.missing) /\ history[i].row.missing \subseteq Paths
    <3>1. CASE history[i].row.missing = {}
      BY <3>1, FS_EmptySet
    <3>2. CASE \E p \in Paths : history[i].row.missing = {p}
      <4>1. PICK p \in Paths : history[i].row.missing = {p}
        BY <3>2
      <4>2. IsFiniteSet({p})
        BY FS_Singleton
      <4>. QED  BY <4>1, <4>2
    <3>. QED  BY <2>3, <3>1, <3>2
  <2>. QED  BY <2>2, <2>3, <2>4
<1>. QED  BY <1>1, <1>2

\* What it says of the last row, which may be under evaluation.
LEMMA LastRow ==
  ASSUME IInv, history # <<>>
  PROVE  LET n == Len(history)
         IN  /\ n \in Nat \ {0} /\ history[n] = Last(history) /\ Row = history[n].row /\ At = history[n].at
             /\ Row.addr \in Addresses /\ n \in RowsOf(Row.addr) /\ Row.login \in BOOLEAN
             /\ \A b : b # Row.addr => n \notin RowsOf(b)
             /\ \A i : LastAndRaced(i, Row.addr) /\ i \in 1 .. n => i = n
             /\ Last(history).racing <=> history[n].racing
<1>. DEFINE n == Len(history)
<1>1. n \in Nat \ {0} /\ DOMAIN history = 1 .. n
  BY RowTypes DEF IInv, HistoryInOrder
<1>2. n \in 1 .. n
  BY <1>1
<1>3. history[n].row.addr \in Addresses /\ history[n].row.login \in BOOLEAN
  BY <1>2, RowTypes
<1>4. history[n] = Last(history) /\ Row = history[n].row /\ At = history[n].at
  BY DEF Last, Row, At
<1>5. Row.addr \in Addresses /\ Row.login \in BOOLEAN
  BY <1>3, <1>4
<1>6. n \in RowsOf(Row.addr) /\ \A b : b # Row.addr => n \notin RowsOf(b)
  BY <1>1, <1>2, <1>4 DEF RowsOf
<1>7. ASSUME NEW i \in 1 .. n, LastAndRaced(i, Row.addr) PROVE i = n
  <2>. HIDE DEF n
  <2>1. ~(n > i)
    BY <1>1, <1>2, <1>4, <1>7 DEF LastAndRaced
  <2>. QED  BY <1>1, <2>1
<1>. QED  BY <1>1, <1>4, <1>5, <1>6, <1>7

\* What it says of the windows of one address.
LEMMA WindowTypes ==
  ASSUME IInv, NEW a \in Addresses
  PROVE  /\ now \in Nat /\ now <= MaxTime
         /\ reqWindow[a] \in Seq(Nat) /\ Len(reqWindow[a]) \in Nat /\ Len(reqWindow[a]) <= WindowCap
         /\ loginPosts[a] \in Seq(Nat) /\ Len(loginPosts[a]) \in Nat /\ Len(loginPosts[a]) <= LoginCap
         /\ Tracks(reqWindow[a], ArrivedOf(a), history, now, Minute, WindowCap)
         /\ Tracks(loginPosts[a], LoginsOf(a), history, now, Hour, LoginCap)
         /\ \A i \in RowsOf(a) : history[i].at \in Nat /\ history[i].at <= now
         /\ \A i, j \in RowsOf(a) : i < j => history[i].at <= history[j].at
         /\ RowsOf(a) \subseteq 1 .. Len(history) /\ Len(history) \in Nat
         /\ ArrivedOf(a) \subseteq RowsOf(a) /\ LoginsOf(a) \subseteq RowsOf(a)
         /\ MissingOf(a) \subseteq RowsOf(a)
<1>1. now \in Nat /\ now <= MaxTime /\ reqWindow[a] \in Seq(0 .. now) /\ loginPosts[a] \in Seq(0 .. now)
      /\ Len(reqWindow[a]) <= WindowCap /\ Len(loginPosts[a]) <= LoginCap
  BY DEF IInv, TypeOK
<1>2. /\ reqWindow[a] \in Seq(Nat) /\ Len(reqWindow[a]) \in Nat
      /\ loginPosts[a] \in Seq(Nat) /\ Len(loginPosts[a]) \in Nat
  BY <1>1, SeqOfTimes
<1>3. RowsOf(a) \subseteq 1 .. Len(history) /\ Len(history) \in Nat
  BY RowTypes DEF RowsOf
<1>4. /\ \A i \in RowsOf(a) : history[i].at \in Nat /\ history[i].at <= now
      /\ \A i, j \in RowsOf(a) : i < j => history[i].at <= history[j].at
  BY <1>3, RowTypes
<1>5. /\ ArrivedOf(a) \subseteq RowsOf(a) /\ LoginsOf(a) \subseteq RowsOf(a)
      /\ MissingOf(a) \subseteq RowsOf(a)
  BY DEF ArrivedOf, LoginsOf, MissingOf
<1>. QED  BY <1>1, <1>2, <1>3, <1>4, <1>5 DEF IInv, WindowsTrack
-----------------------------------------------------------------------------

\* A row that begins is added to the history, and has reached no window yet.
LEMMA RowAdded ==
  ASSUME IInv, NEW r \in Requests, Begin(r)
  PROVE  LET n == Len(history)
         IN  /\ history' \in Seq(Rows) /\ Len(history') = n + 1 /\ DOMAIN history' = 1 .. n + 1
             /\ \A i \in 1 .. n : history'[i] = history[i]
             /\ history'[n + 1].row = r /\ history'[n + 1].at = now
             /\ cleanup.phase # "idle" => history'[n + 1].racing
             /\ Last(history') = history'[n + 1] /\ history' # <<>>
             /\ \A b : RowsOf(b)' = IF b = r.addr THEN RowsOf(b) \cup {n + 1} ELSE RowsOf(b)
             /\ \A b : /\ ArrivedOf(b)' = ArrivedOf(b) /\ LoginsOf(b)' = LoginsOf(b)
                       /\ MissingOf(b)' = MissingOf(b)
<1>. DEFINE n == Len(history)
            new == [row |-> r, at |-> now, racing |-> cleanup.phase # "idle"]
<1>1. history \in Seq(Rows) /\ n \in Nat /\ DOMAIN history = 1 .. n /\ now \in Nat
  BY RowTypes DEF IInv, TypeOK
<1>2. new \in Rows
  BY <1>1 DEF Rows
<1>3. history' = Append(history, new) /\ evaluation.step = "none" /\ evaluation'.step = "window"
  BY DEF Begin
<1>4. new.row = r /\ new.at = now /\ (cleanup.phase # "idle" => new.racing)
  <2>1. new.row = r /\ new.at = now /\ new.racing = (cleanup.phase # "idle")
    OBVIOUS
  <2>. HIDE DEF new
  <2>. QED  BY <2>1, Zenon
<1>. HIDE DEF new
<1>5. /\ history' \in Seq(Rows) /\ Len(history') = n + 1
      /\ \A i \in 1 .. n : history'[i] = history[i]
      /\ history'[n + 1] = new
  BY <1>1, <1>2, <1>3, AppendProperties
<1>6. DOMAIN history' = 1 .. n + 1 /\ 1 .. n + 1 = (1 .. n) \cup {n + 1} /\ n + 1 \notin 1 .. n
  BY <1>1, <1>5
<1>7. history' # <<>> /\ Last(history') = history'[n + 1]
  BY <1>1, <1>5 DEF Last
<1>. HIDE DEF n
<1>8. \A b : RowsOf(b)' = IF b = r.addr THEN RowsOf(b) \cup {n + 1} ELSE RowsOf(b)
  BY <1>1, <1>4, <1>5, <1>6 DEF RowsOf
<1>9. \A b : \A i \in RowsOf(b) : history'[i] = history[i] /\ i # n + 1
  BY <1>1, <1>5, <1>6 DEF RowsOf
<1>10. \A i : Pending(i, {"window"})' <=> i = n + 1
  BY <1>3, <1>5 DEF Pending
<1>11. \A i : /\ Pending(i, {"window", "path", "scan", "post"})' <=> i = n + 1
              /\ Pending(i, {"window", "path"})' <=> i = n + 1
  BY <1>3, <1>5 DEF Pending
<1>12. \A i : ~Pending(i, {"window"}) /\ ~Pending(i, {"window", "path", "scan", "post"}) /\ ~Pending(i, {"window", "path"})
  BY <1>3 DEF Pending
<1>13. ASSUME NEW b
       PROVE  /\ ArrivedOf(b)' = ArrivedOf(b) /\ LoginsOf(b)' = LoginsOf(b)
              /\ MissingOf(b)' = MissingOf(b)
  <2>1. RowsOf(b)' \ {n + 1} = RowsOf(b)
    BY <1>8, <1>9
  <2>2. ArrivedOf(b)' = ArrivedOf(b) /\ MissingOf(b)' = MissingOf(b)
    BY <2>1, <1>10, <1>11, <1>12 DEF ArrivedOf, MissingOf
  <2>3. LoginsOf(b)' = LoginsOf(b)
    BY <2>1, <1>9, <1>11, <1>12 DEF LoginsOf
  <2>. QED  BY <2>2, <2>3
<1>. QED  BY <1>4, <1>5, <1>6, <1>7, <1>8, <1>13 DEF n

\* It keeps the invariant, and there is nothing to say of the rules yet ...
LEMMA BeginKeeps == ASSUME IInv, NEW r \in Requests, Begin(r) PROVE IInv' /\ RulesRight'
<1>. DEFINE n == Len(history)
<1>1. /\ n \in Nat /\ DOMAIN history = 1 .. n /\ r.addr \in Addresses
      /\ now \in Nat /\ now <= MaxTime /\ known \subseteq Addresses
      /\ \A i \in 1 .. n : history[i].at \in Nat /\ history[i].at <= now
      /\ \A i, j \in 1 .. n : i < j => history[i].at <= history[j].at
  BY RowTypes, RequestsAreRows DEF IInv, TypeOK
<1>2. /\ UNCHANGED <<now, reqWindow, notFound, loginPosts, cleanup>>
      /\ known' = known \cup {r.addr} /\ raised' = {}
      /\ evaluation.step = "none"
      /\ evaluation'.step = "window" /\ evaluation'.window = reqWindow[r.addr]
  BY DEF Begin, windows
<1>3. /\ history' \in Seq(Rows) /\ Len(history') = n + 1 /\ DOMAIN history' = 1 .. n + 1
      /\ \A i \in 1 .. n : history'[i] = history[i]
      /\ history'[n + 1].row = r /\ history'[n + 1].at = now
      /\ cleanup.phase # "idle" => history'[n + 1].racing
      /\ Last(history') = history'[n + 1] /\ history' # <<>>
      /\ \A b : RowsOf(b)' = IF b = r.addr THEN RowsOf(b) \cup {n + 1} ELSE RowsOf(b)
      /\ \A b : /\ ArrivedOf(b)' = ArrivedOf(b) /\ LoginsOf(b)' = LoginsOf(b)
                /\ MissingOf(b)' = MissingOf(b)
  BY RowAdded
<1>. HIDE DEF n
<1>4. \A b : RowsOf(b) \subseteq 1 .. n
  BY <1>1 DEF RowsOf
<1>5. \A b : ArrivedOf(b) \subseteq RowsOf(b) /\ LoginsOf(b) \subseteq RowsOf(b) /\ MissingOf(b) \subseteq RowsOf(b)
  BY DEF ArrivedOf, LoginsOf, MissingOf
<1>6. \A b : SameRows(ArrivedOf(b), history, history') /\ SameRows(LoginsOf(b), history, history')
  BY <1>1, <1>3, <1>4, <1>5 DEF SameRows
<1>7. Row' = r /\ At' = now
  BY <1>3 DEF Row, At
<1>8. TypeOK'
  BY <1>1, <1>2 DEF IInv, TypeOK
<1>9. HistoryInOrder'
  <2>1. ASSUME NEW i \in 1 .. n + 1 PROVE history'[i].at \in Nat /\ history'[i].at <= now
    <3>1. CASE i = n + 1
      BY <3>1, <1>1, <1>3
    <3>2. CASE i # n + 1
      <4>1. i \in 1 .. n
        BY <3>2, <1>1
      <4>. QED  BY <4>1, <1>1, <1>3
    <3>. QED  BY <3>1, <3>2
  <2>2. ASSUME NEW i \in 1 .. n + 1, NEW j \in 1 .. n + 1, i < j
        PROVE  history'[i].at <= history'[j].at
    <3>1. i \in 1 .. n /\ history'[i].at <= now
      BY <2>1, <2>2, <1>1
    <3>2. CASE j = n + 1
      BY <3>1, <3>2, <1>3
    <3>3. CASE j # n + 1
      <4>1. j \in 1 .. n
        BY <3>3, <1>1
      <4>2. history[i].at <= history[j].at
        BY <3>1, <4>1, <2>2, <1>1
      <4>. QED  BY <3>1, <4>1, <4>2, <1>3
    <3>. QED  BY <3>2, <3>3
  <2>. QED  BY <1>2, <1>3, <2>1, <2>2 DEF HistoryInOrder
<1>10. ASSUME NEW b \in Addresses
       PROVE  /\ Tracks(reqWindow[b], ArrivedOf(b), history', now, Minute, WindowCap)
              /\ Tracks(loginPosts[b], LoginsOf(b), history', now, Hour, LoginCap)
  <2>1. /\ reqWindow[b] \in Seq(Nat) /\ loginPosts[b] \in Seq(Nat)
        /\ Tracks(reqWindow[b], ArrivedOf(b), history, now, Minute, WindowCap)
        /\ Tracks(loginPosts[b], LoginsOf(b), history, now, Hour, LoginCap)
    BY WindowTypes
  <2>2. WindowCap \in Nat /\ LoginCap \in Nat /\ Minute \in Nat /\ Hour \in Nat /\ now <= now
    BY <1>1
  <2>3. SameRows(ArrivedOf(b), history, history') /\ SameRows(LoginsOf(b), history, history')
    BY <1>6
  <2>. QED  BY <1>1, <2>1, <2>2, <2>3, TracksLater
<1>11. WindowsTrack'
  BY <1>2, <1>3, <1>10 DEF WindowsTrack
<1>12. EvaluationShape'
  <2>1. r.addr \in known' /\ Row'.addr = r.addr /\ At' = now'
    BY <1>2, <1>7
  <2>2. Tracks(evaluation'.window, ArrivedOf(r.addr)', history', now', Minute, WindowCap)
    BY <1>1, <1>2, <1>3, <1>10
  <2>. QED  BY <1>2, <1>3, <2>1, <2>2 DEF EvaluationShape
<1>13. LastRowIsLast'
  <2>1. r.addr \notin known => reqWindow[r.addr] = <<>>
    BY <1>1 DEF IInv, TypeOK
  <2>2. \A b : \A i \in ArrivedOf(b) : history'[i] = history[i]
    BY <1>3, <1>4, <1>5
  <2>. QED  BY <1>2, <1>3, <2>1, <2>2 DEF IInv, LastRowIsLast
<1>14. CleanupShape'
  <2>1. IsFiniteSet(known')
    BY <1>2, FS_AddElement DEF IInv, CleanupShape
  <2>. QED  BY <1>2, <2>1 DEF IInv, CleanupShape
<1>15. StaleIsOld'
  <2>. SUFFICES ASSUME NEW b \in cleanup.stale \cup cleanup.half, NEW i \in RowsOf(b)',
                       ~history'[i].racing
                PROVE  history'[i].at < cleanup.cutoff
    BY <1>2 DEF StaleIsOld
  <2>1. cleanup.phase # "idle"
    BY DEF IInv, CleanupShape
  <2>2. i # n + 1
    BY <2>1, <1>3
  <2>3. i \in RowsOf(b) /\ i \in 1 .. n
    BY <2>2, <1>3, <1>4
  <2>. QED  BY <2>3, <1>3 DEF IInv, StaleIsOld
<1>16. EmptyIsOld'
  <2>1. Cutoff' = Cutoff
    BY <1>2 DEF Cutoff
  <2>2. \A b : \A i \in ArrivedOf(b) : history'[i] = history[i]
    BY <1>3, <1>4, <1>5
  <2>. QED  BY <1>2, <1>3, <2>1, <2>2 DEF IInv, EmptyIsOld
<1>17. PathsKept'
  <2>1. \A b : \A i \in MissingOf(b) : history'[i] = history[i]
    BY <1>3, <1>4, <1>5
  <2>. QED  BY <1>2, <1>3, <2>1 DEF IInv, PathsKept
<1>18. LeaksAreRaced'
  <2>1. ASSUME NEW b \in Addresses \ known', NEW i \in DOMAIN history, LastAndRaced(i, b)
        PROVE  LastAndRaced(i, b)' /\ i \in DOMAIN history' /\ history'[i] = history[i]
    <3>1. i \in DOMAIN history' /\ history'[i] = history[i] /\ b # r.addr
      BY <1>1, <1>2, <1>3
    <3>2. \A j \in 1 .. n + 1 : j # n + 1 => j \in 1 .. n
      BY <1>1
    <3>3. \A j \in 1 .. n + 1 : j > i => history'[j].row.addr # b
      BY <2>1, <3>1, <3>2, <1>1, <1>3 DEF LastAndRaced
    <3>. QED  BY <2>1, <3>1, <3>3, <1>3 DEF LastAndRaced
  <2>2. \A b : LoginsOf(b) \subseteq DOMAIN history
    BY <1>1, <1>4, <1>5
  <2>3. ASSUME NEW b \in Addresses \ known' PROVE (PathLeak(b) => PathLeak(b)') /\ (PostLeak(b) => PostLeak(b)')
    <3>1. PathLeak(b) => PathLeak(b)'
      BY <2>1, <1>2 DEF PathLeak
    <3>2. PostLeak(b) => PostLeak(b)'
      BY <2>1, <2>2, <1>2, <1>3 DEF PostLeak
    <3>. QED  BY <3>1, <3>2
  <2>4. \A b \in Addresses \ known' : b \in Addresses \ known
    BY <1>2
  <2>. QED  BY <2>3, <2>4, <1>2 DEF IInv, LeaksAreRaced
<1>19. RulesRight'
  BY <1>2 DEF RulesRight, RateSoFar, ScanSoFar, LoginRuleExact, Evaluated
<1>. QED  BY <1>8, <1>9, <1>11, <1>12, <1>13, <1>14, <1>15, <1>16, <1>17, <1>18, <1>19 DEF IInv

\* A later step of an evaluation leaves the rows, the clock and the cleanup as they are.
LEMMA StepOfRow ==
  ASSUME IInv, evaluation.step # "none", UNCHANGED <<now, known, cleanup, history>>,
         evaluation'.window = <<>>, evaluation'.step \in {"path", "scan", "post", "none"},
         evaluation'.step # "none" => "repeated_auth_fail" \notin raised',
         evaluation'.step = "post" => Row.login
  PROVE  /\ HistoryInOrder' /\ EvaluationShape' /\ CleanupShape' /\ StaleIsOld'
         /\ Row' = Row /\ At' = At /\ At = now /\ history # <<>>
         /\ Cutoff' = Cutoff /\ \A s : Recent(s)' = Recent(s)
         /\ \A b : RowsOf(b)' = RowsOf(b)
         /\ \A s : Recent(s) = {i \in RowsOf(Row.addr) : history[i].at >= now - s}
         /\ Row.addr \notin known => Last(history).racing
<1>1. \A b : RowsOf(b)' = RowsOf(b)
  BY DEF RowsOf
<1>2. Row' = Row /\ At' = At
  BY DEF Row, At
<1>3. At = now /\ history # <<>> /\ (cleanup.phase # "idle" \/ Row.addr \notin known => Last(history).racing)
  BY DEF IInv, EvaluationShape
<1>4. EvaluationShape'
  BY <1>2, <1>3 DEF EvaluationShape
<1>5. HistoryInOrder' /\ CleanupShape' /\ StaleIsOld' /\ Cutoff' = Cutoff
  BY <1>1 DEF IInv, HistoryInOrder, CleanupShape, StaleIsOld, Cutoff
<1>6. \A s : Recent(s)' = Recent(s)
  BY <1>2 DEF Recent
<1>7. \A s : Recent(s) = {i \in RowsOf(Row.addr) : history[i].at >= now - s}
  BY <1>3 DEF Recent, RowsOf
<1>. QED  BY <1>1, <1>2, <1>3, <1>4, <1>5, <1>6, <1>7

\* A window that the last row joins at "now" tracks it with the others, rows R.
JoinedNow(v, w, R, seconds, cap) ==
  /\ Joined(v, R \cup {Len(history)}, history, now, seconds, cap)
  /\ v \in Seq(0 .. now) /\ Last(v) = now /\ v # <<>> /\ Young(v, now, seconds)
  /\ w = <<>> => v = <<now>>

LEMMA LastRowJoins ==
  ASSUME IInv, history # <<>>, At = now, NEW R, R \subseteq RowsOf(Row.addr), Len(history) \notin R,
         NEW w \in Seq(Nat), NEW cap \in Nat \ {0}, Len(w) <= cap, NEW seconds \in Nat,
         Tracks(w, R, history, now, seconds, cap)
  PROVE  JoinedNow(Expire(Push(w, At, cap), At, seconds), w, R, seconds, cap)
<1>1. now \in Nat /\ Len(history) \in Nat \ {0} /\ history[Len(history)].at = now
  BY LastRow DEF IInv, TypeOK
<1>. DEFINE m == Len(history) - 1
            v == Expire(Push(w, now, cap), now, seconds)
<1>2. m \in Nat /\ Len(history) = m + 1
  BY <1>1
<1>. HIDE DEF m
<1>3. Row.addr \in Addresses
  BY LastRow
<1>4. R \subseteq 1 .. m
  <2>1. R \subseteq 1 .. Len(history)
    BY <1>3, WindowTypes
  <2>2. ASSUME NEW i \in R PROVE i \in 1 .. m
    BY <2>1, <1>2
  <2>. QED  BY <2>2
<1>5. EarlierRows(R, history, now, m) /\ history[m + 1].at = now
  BY <1>1, <1>2, <1>3, <1>4, WindowTypes DEF EarlierRows
<1>6. now \in Nat /\ R \cup {Len(history)} = R \cup {m + 1}
  BY <1>1, <1>2
<1>. HIDE DEF v
<1>7. Joined(v, R \cup {Len(history)}, history, now, seconds, cap)
  BY <1>2, <1>5, <1>6, ArrivalTracked DEF v
<1>8. PICK d \in 0 .. Len(w) : Kept(v, d, w, now, cap, seconds)
  BY <1>1, ArrivalKept DEF v
<1>9. v \in Seq(0 .. now)
  BY <1>1, <1>7, SeqUpTo DEF Joined
<1>10. Last(v) = now /\ v # <<>> /\ Young(v, now, seconds)
  BY <1>1, <1>7 DEF Last, Young, Joined
<1>11. w = <<>> => v = <<now>>
  <2>. SUFFICES ASSUME w = <<>> PROVE v = <<now>>
    OBVIOUS
  <2>1. Len(v) = 1 /\ v[1] = now /\ v \in Seq(Nat)
    BY <1>7, <1>8 DEF Kept, Joined
  <2>. QED  BY <2>1
<1>. QED  BY <1>7, <1>9, <1>10, <1>11 DEF v, JoinedNow

\* ... and so do its later steps: the window of the requests and rule 1 ...
LEMMA CountRequestKeeps == ASSUME IInv, RulesRight, CountRequest PROVE IInv' /\ RulesRight'
<1>. DEFINE n == Len(history)
            a == Row.addr
            w == RequestWindow(evaluation.window, At)
<1>1. /\ evaluation.step = "window" /\ UNCHANGED <<now, known, notFound, loginPosts, cleanup, history>>
      /\ reqWindow' = [reqWindow EXCEPT ![a] = IF a \in known THEN w ELSE @]
      /\ raised' = IF Len(w) >= RateThreshold THEN {"rate_limit_trigger"} ELSE {}
      /\ evaluation'.step = AfterRate(Row) /\ evaluation'.window = <<>>
  BY DEF CountRequest, Done
<1>2. /\ history # <<>> /\ At = now
      /\ Tracks(evaluation.window, ArrivedOf(a), history, now, Minute, WindowCap)
  BY <1>1 DEF IInv, EvaluationShape
<1>3. /\ n \in Nat \ {0} /\ Row = history[n].row /\ a \in Addresses /\ n \in RowsOf(a)
      /\ \A b : b # a => n \notin RowsOf(b)
      /\ Last(history).racing <=> history[n].racing
  BY <1>2, LastRow
<1>4. /\ evaluation'.step = "path" => Row.missing # {}
      /\ evaluation'.step # "path" => Row.missing = {}
      /\ evaluation'.step = "none" => ~Row.login
      /\ evaluation'.step = "post" => Row.login
      /\ evaluation'.step \in {"path", "post", "none"}
  BY <1>1 DEF AfterRate
<1>5. "repeated_auth_fail" \notin raised'
  BY <1>1
<1>6. /\ HistoryInOrder' /\ EvaluationShape' /\ CleanupShape' /\ StaleIsOld'
      /\ Row' = Row /\ At' = At /\ Cutoff' = Cutoff /\ \A s : Recent(s)' = Recent(s)
      /\ \A b : RowsOf(b)' = RowsOf(b)
      /\ \A s : Recent(s) = {i \in RowsOf(a) : history[i].at >= now - s}
      /\ a \notin known => history[n].racing
  BY <1>1, <1>3, <1>4, <1>5, StepOfRow
<1>7. ASSUME NEW b
      PROVE  /\ ArrivedOf(b)' = RowsOf(b)
             /\ ArrivedOf(b) = RowsOf(b) \ {n}
             /\ LoginsOf(b)' = LoginsOf(b)
             /\ MissingOf(b) \subseteq MissingOf(b)'
             /\ \A i \in MissingOf(b)' : i \in MissingOf(b) \/ history[i].row.missing = {}
  <2>. HIDE DEF n
  <2>1. \A i : /\ Pending(i, {"window"}) <=> i = Len(history)
               /\ Pending(i, {"window", "path"}) <=> i = Len(history)
               /\ Pending(i, {"window", "path", "scan", "post"}) <=> i = Len(history)
    BY <1>1 DEF Pending
  <2>2. \A i : /\ ~Pending(i, {"window"})'
               /\ Pending(i, {"window", "path"})' <=> i = Len(history) /\ evaluation'.step = "path"
               /\ Pending(i, {"window", "path", "scan", "post"})' <=>
                    i = Len(history) /\ evaluation'.step # "none"
    BY <1>1, <1>4 DEF Pending
  <2>3. ArrivedOf(b)' = RowsOf(b) /\ ArrivedOf(b) = RowsOf(b) \ {n}
    BY <2>1, <2>2, <1>6 DEF ArrivedOf, n
  <2>4. LoginsOf(b)' = LoginsOf(b)
    BY <2>1, <2>2, <1>1, <1>3, <1>4, <1>6 DEF LoginsOf, n
  <2>5. /\ MissingOf(b) \subseteq MissingOf(b)'
        /\ \A i \in MissingOf(b)' : i \in MissingOf(b) \/ history[i].row.missing = {}
    BY <2>1, <2>2, <1>3, <1>4, <1>6 DEF MissingOf, n
  <2>. QED  BY <2>3, <2>4, <2>5
<1>8. RowsOf(a) = ArrivedOf(a) \cup {n} /\ n \notin ArrivedOf(a) /\ ArrivedOf(a) \subseteq RowsOf(a)
  BY <1>3, <1>7
<1>9. \A b : b # a => ArrivedOf(b)' = ArrivedOf(b)
  <2>. HIDE DEF n, a
  <2>. SUFFICES ASSUME NEW b, b # a PROVE ArrivedOf(b)' = ArrivedOf(b)
    OBVIOUS
  <2>1. n \notin RowsOf(b)
    BY <1>3
  <2>2. ArrivedOf(b)' = RowsOf(b) /\ ArrivedOf(b) = RowsOf(b) \ {n}
    BY <1>7
  <2>. QED  BY <2>1, <2>2
<1>10. /\ w \in Seq(Nat) /\ w \in Seq(0 .. now) /\ Len(w) \in 1 .. WindowCap /\ Last(w) = now
       /\ w # <<>> /\ Young(w, now, Minute)
       /\ Tracks(w, RowsOf(a), history, now, Minute, WindowCap)
  <2>1. evaluation.window \in Seq(0 .. now) /\ Len(evaluation.window) <= WindowCap /\ now \in Nat
    BY DEF IInv, TypeOK
  <2>2. evaluation.window \in Seq(Nat)
    BY <2>1, SeqOfTimes
  <2>. HIDE DEF n, a, w
  <2>3. n \notin ArrivedOf(a) /\ RowsOf(a) = ArrivedOf(a) \cup {Len(history)} /\ n = Len(history)
    BY <1>8 DEF n
  <2>4. JoinedNow(w, evaluation.window, ArrivedOf(a), Minute, WindowCap)
    <3>1. ArrivedOf(a) \subseteq RowsOf(Row.addr) /\ Len(history) \notin ArrivedOf(a)
      BY <1>8, <2>3 DEF a
    <3>2. Minute \in Nat /\ WindowCap \in Nat \ {0}
      OBVIOUS
    <3>3. JoinedNow(Expire(Push(evaluation.window, At, WindowCap), At, Minute),
                    evaluation.window, ArrivedOf(a), Minute, WindowCap)
      BY <1>2, <2>1, <2>2, <3>1, <3>2, LastRowJoins
    <3>. QED  BY <3>3 DEF w, RequestWindow
  <2>. QED  BY <2>3, <2>4 DEF JoinedNow, Joined
<1>. HIDE DEF n, a, w
<1>11. /\ reqWindow \in [Addresses -> Seq(0 .. now)]
       /\ \A b \in Addresses : reqWindow'[b] = IF b = a /\ a \in known THEN w ELSE reqWindow[b]
       /\ now \in Nat
  BY <1>1 DEF IInv, TypeOK
<1>12. TypeOK'
  <2>1. reqWindow' \in [Addresses -> Seq(0 .. now)]
    <3>1. DOMAIN reqWindow' = Addresses /\ reqWindow' = [b \in Addresses |-> reqWindow'[b]]
      BY <1>1, <1>11
    <3>. QED  BY <3>1, <1>10, <1>11
  <2>2. \A b \in Addresses : Len(reqWindow'[b]) <= WindowCap /\ (reqWindow'[b] # <<>> => b \in known)
    BY <1>10, <1>11 DEF IInv, TypeOK
  <2>3. <<>> \in Seq(0 .. now) /\ Len(<<>>) <= WindowCap
    OBVIOUS
  <2>. QED  BY <1>1, <1>4, <2>1, <2>2, <2>3 DEF IInv, TypeOK
<1>13. WindowsTrack'
  <2>. SUFFICES ASSUME NEW b \in Addresses
                PROVE  Tracks(reqWindow'[b], ArrivedOf(b)', history, now, Minute, WindowCap)
    BY <1>1, <1>7 DEF IInv, WindowsTrack
  <2>1. Tracks(reqWindow[b], ArrivedOf(b), history, now, Minute, WindowCap) /\ reqWindow[b] \in Seq(Nat)
    BY WindowTypes
  <2>2. CASE b # a
    BY <2>1, <2>2, <1>9, <1>11
  <2>3. CASE b = a /\ a \in known
    BY <2>3, <1>7, <1>10, <1>11
  <2>4. CASE b = a /\ a \notin known
    <3>1. ArrivedOf(b)' = ArrivedOf(a) \cup {n} /\ history[n].racing
      BY <2>4, <1>6, <1>7, <1>8
    <3>2. Tracks(reqWindow[a], ArrivedOf(a) \cup {n}, history, now, Minute, WindowCap)
      BY <2>1, <2>4, <3>1, TracksRaced
    <3>. QED  BY <3>1, <3>2, <2>4, <1>11
  <2>. QED  BY <2>2, <2>3, <2>4
<1>14. LastRowIsLast'
  <2>. SUFFICES ASSUME NEW b \in known, reqWindow'[b] # <<>>, NEW i \in ArrivedOf(b)'
                PROVE  history[i].at <= Last(reqWindow'[b])
    BY <1>1 DEF LastRowIsLast
  <2>1. b \in Addresses
    BY DEF IInv, TypeOK
  <2>2. CASE b = a
    BY <2>1, <2>2, <1>7, <1>10, <1>11, WindowTypes
  <2>3. CASE b # a
    BY <2>1, <2>3, <1>9, <1>11 DEF IInv, LastRowIsLast
  <2>. QED  BY <2>2, <2>3
<1>15. EmptyIsOld'
  <2>. SUFFICES ASSUME NEW b \in Addresses, reqWindow'[b] = <<>>, NEW i \in ArrivedOf(b)', ~history[i].racing
                PROVE  history[i].at < Cutoff
    BY <1>1, <1>6 DEF EmptyIsOld
  <2>1. reqWindow[b] = <<>> /\ ~(b = a /\ a \in known)
    BY <1>10, <1>11
  <2>2. i \in ArrivedOf(b)
    <3>1. CASE b = a
      BY <3>1, <2>1, <1>6, <1>7, <1>8
    <3>2. CASE b # a
      BY <3>2, <1>9
    <3>. QED  BY <3>1, <3>2
  <2>. QED  BY <2>1, <2>2 DEF IInv, EmptyIsOld
<1>16. PathsKept'
  <2>. SUFFICES ASSUME NEW b \in Addresses, NEW i \in MissingOf(b)', ~history[i].racing,
                       history[i].at >= now - Hour
                PROVE  history[i].row.missing \subseteq notFound[b]
    BY <1>1 DEF IInv, PathsKept
  <2>1. i \in MissingOf(b) \/ history[i].row.missing = {}
    BY <1>7
  <2>. QED  BY <2>1 DEF IInv, PathsKept
<1>17. LeaksAreRaced'
  <2>1. \A i, b : LastAndRaced(i, b)' <=> LastAndRaced(i, b)
    BY <1>1 DEF LastAndRaced
  <2>. QED  BY <2>1, <1>1, <1>7 DEF IInv, LeaksAreRaced, PathLeak, PostLeak
<1>18. RateSoFar'
  <2>. DEFINE rows == RecentOf(RowsOf(a), history, now, Minute)
  <2>1. Recent(Minute)' = rows
    BY <1>6 DEF RecentOf
  <2>2. "rate_limit_trigger" \in raised' <=> Len(w) >= RateThreshold
    BY <1>1
  <2>3. CASE RateThreshold <= WindowCap
    <3>1. /\ RowsUpTo(RowsOf(a), history, Len(history)) /\ Len(history) \in Nat
          /\ RateThreshold \in Int /\ WindowCap \in Nat /\ Minute \in Nat
      BY <1>3, WindowTypes DEF RowsUpTo
    <3>2. /\ Len(w) >= RateThreshold => Cardinality(rows) >= RateThreshold
          /\ Cardinality(CalmOf(rows, history)) >= RateThreshold => Len(w) >= RateThreshold
      BY <2>3, <3>1, <1>10, <1>11, TrackedCount
    <3>. HIDE DEF rows
    <3>3. RaisedExactly("rate_limit_trigger", Recent(Minute), RateThreshold)'
      BY <3>2, <2>1, <2>2, <1>1 DEF RaisedExactly, CalmOf
    <3>. QED  BY <2>3, <3>3 DEF RateSoFar
  <2>4. CASE ~(RateThreshold <= WindowCap)
    <3>1. Len(w) \in Nat /\ Len(w) <= WindowCap
      BY <1>10
    <3>2. ~(Len(w) >= RateThreshold)
      BY <2>4, <3>1
    <3>. QED  BY <2>4, <3>2, <2>2 DEF RateSoFar
  <2>. QED  BY <2>3, <2>4
<1>19. ScanSoFar' /\ LoginRuleExact'
  BY <1>4, <1>6 DEF ScanSoFar, LoginRuleExact, Evaluated
<1>. QED  BY <1>6, <1>12, <1>13, <1>14, <1>15, <1>16, <1>17, <1>18, <1>19 DEF IInv, RulesRight

\* ... the path it did not find ...
LEMMA AddPathKeeps == ASSUME IInv, RulesRight, AddPath PROVE IInv' /\ RulesRight'
<1>. DEFINE n == Len(history)
            a == Row.addr
<1>1. /\ evaluation.step = "path" /\ UNCHANGED <<now, known, reqWindow, loginPosts, cleanup, raised, history>>
      /\ notFound' = [notFound EXCEPT ![a] = @ \cup Row.missing]
      /\ evaluation'.step = "scan" /\ evaluation'.window = <<>>
  BY DEF AddPath, Done
<1>2. history # <<>> /\ At = now /\ "repeated_auth_fail" \notin raised
  BY <1>1 DEF IInv, EvaluationShape
<1>3. /\ n \in Nat \ {0} /\ Row = history[n].row /\ a \in Addresses /\ n \in RowsOf(a)
      /\ \A b : b # a => n \notin RowsOf(b)
      /\ \A i : LastAndRaced(i, a) /\ i \in 1 .. n => i = n
      /\ Last(history).racing <=> history[n].racing
  BY <1>2, LastRow
<1>4. /\ HistoryInOrder' /\ EvaluationShape' /\ CleanupShape' /\ StaleIsOld'
      /\ Row' = Row /\ Cutoff' = Cutoff /\ \A s : Recent(s)' = Recent(s)
      /\ \A b : RowsOf(b)' = RowsOf(b)
      /\ a \notin known => history[n].racing
  BY <1>1, <1>2, <1>3, StepOfRow
<1>5. /\ DOMAIN history = 1 .. n /\ history[n].row.missing \subseteq Paths
      /\ IsFiniteSet(history[n].row.missing) /\ history[n].row.addr = a
  BY <1>3, RowTypes
<1>. HIDE DEF n, a
<1>6. ASSUME NEW b
      PROVE  /\ ArrivedOf(b)' = ArrivedOf(b) /\ LoginsOf(b)' = LoginsOf(b)
             /\ MissingOf(b)' \subseteq MissingOf(b) \cup {n}
             /\ b # a => MissingOf(b)' \subseteq MissingOf(b)
  <2>1. \A i : /\ ~Pending(i, {"window"}) /\ ~Pending(i, {"window"})'
               /\ Pending(i, {"window", "path", "scan", "post"}) <=> i = n
               /\ Pending(i, {"window", "path", "scan", "post"})' <=> i = n
               /\ Pending(i, {"window", "path"}) <=> i = n
    BY <1>1 DEF Pending, n
  <2>2. ArrivedOf(b)' = ArrivedOf(b) /\ LoginsOf(b)' = LoginsOf(b)
    BY <2>1, <1>1, <1>4 DEF ArrivedOf, LoginsOf
  <2>3. MissingOf(b)' \subseteq RowsOf(b) /\ RowsOf(b) \ {n} \subseteq MissingOf(b)
    BY <2>1, <1>4 DEF MissingOf
  <2>4. b # a => n \notin RowsOf(b)
    BY <1>3
  <2>. QED  BY <2>2, <2>3, <2>4
<1>7. /\ notFound \in [Addresses -> SUBSET Paths]
      /\ notFound'[a] = notFound[a] \cup history[n].row.missing
      /\ \A b \in Addresses : b # a => notFound'[b] = notFound[b]
      /\ notFound' \in [Addresses -> SUBSET Paths]
  <2>1. notFound \in [Addresses -> SUBSET Paths]
    BY DEF IInv, TypeOK
  <2>. QED  BY <2>1, <1>1, <1>3, <1>5
<1>8. TypeOK'
  <2>1. <<>> \in Seq(0 .. now) /\ Len(<<>>) <= WindowCap
    OBVIOUS
  <2>. QED  BY <2>1, <1>1, <1>7 DEF IInv, TypeOK
<1>9. WindowsTrack' /\ LastRowIsLast' /\ EmptyIsOld'
  <2>1. WindowsTrack'
    BY <1>1, <1>6 DEF IInv, WindowsTrack
  <2>2. LastRowIsLast' /\ EmptyIsOld'
    BY <1>1, <1>4, <1>6 DEF IInv, LastRowIsLast, EmptyIsOld
  <2>. QED  BY <2>1, <2>2
<1>10. PathsKept'
  <2>. SUFFICES ASSUME NEW b \in Addresses
                PROVE  /\ IsFiniteSet(notFound'[b])
                       /\ \A i \in MissingOf(b)' : ~history[i].racing /\ history[i].at >= now - Hour
                            => history[i].row.missing \subseteq notFound'[b]
    BY <1>1 DEF PathsKept
  <2>1. IsFiniteSet(notFound[b]) /\ notFound[b] \subseteq notFound'[b]
    BY <1>7 DEF IInv, PathsKept
  <2>2. IsFiniteSet(notFound'[b])
    <3>1. CASE b = a
      <4>1. IsFiniteSet(notFound[b] \cup history[n].row.missing)
        BY <2>1, <1>5, FS_Union
      <4>. QED  BY <3>1, <4>1, <1>7
    <3>2. CASE b # a
      BY <3>2, <2>1, <1>7
    <3>. QED  BY <3>1, <3>2
  <2>3. ASSUME NEW i \in MissingOf(b)', ~history[i].racing, history[i].at >= now - Hour
        PROVE  history[i].row.missing \subseteq notFound'[b]
    <3>1. CASE i \in MissingOf(b)
      BY <3>1, <2>1, <2>3 DEF IInv, PathsKept
    <3>2. CASE i \notin MissingOf(b)
      BY <3>2, <1>6, <1>7
    <3>. QED  BY <3>1, <3>2
  <2>. QED  BY <2>2, <2>3
<1>11. \A i, b : LastAndRaced(i, b)' <=> LastAndRaced(i, b)
  BY <1>1 DEF LastAndRaced
<1>12. LeaksAreRaced'
  <2>1. ASSUME NEW b \in Addresses \ known, PathLeak(b) PROVE PathLeak(b)'
    <3>1. CASE b # a
      BY <3>1, <2>1, <1>1, <1>7, <1>11 DEF PathLeak
    <3>2. CASE b = a
      <4>1. n \in DOMAIN history /\ LastAndRaced(n, a)
        <5>1. n \in 1 .. n /\ \A j \in 1 .. n : ~(j > n)
          BY <1>3
        <5>. QED  BY <5>1, <3>2, <1>4, <1>5 DEF LastAndRaced
      <4>2. notFound[a] \subseteq history[n].row.missing
        BY <3>2, <2>1, <1>3, <1>5 DEF PathLeak
      <4>. QED  BY <4>1, <4>2, <3>2, <1>1, <1>7, <1>11 DEF PathLeak
    <3>. QED  BY <3>1, <3>2
  <2>2. ASSUME NEW b, PostLeak(b) PROVE PostLeak(b)'
    BY <2>2, <1>1, <1>6, <1>11 DEF PostLeak
  <2>. QED  BY <2>1, <2>2, <1>1 DEF IInv, LeaksAreRaced
<1>13. RulesRight'
  BY <1>1, <1>4 DEF RulesRight, RateSoFar, ScanSoFar, LoginRuleExact, Evaluated, RaisedExactly
<1>. QED  BY <1>4, <1>8, <1>9, <1>10, <1>12, <1>13 DEF IInv

\* ... the count of those paths, rule 8 ...
LEMMA CountPathsKeeps == ASSUME IInv, RulesRight, CountPaths PROVE IInv' /\ RulesRight'
<1>. DEFINE n == Len(history)
            a == Row.addr
<1>1. /\ evaluation.step = "scan" /\ UNCHANGED <<now, known, reqWindow, notFound, loginPosts, cleanup, history>>
      /\ raised' = IF Cardinality(notFound[a]) > NotFoundMax
                      THEN raised \cup {"port_scan_attempt"} ELSE raised
      /\ evaluation'.step = AfterScan(Row) /\ evaluation'.window = <<>>
  BY DEF CountPaths, Done, windows
<1>2. history # <<>> /\ At = now /\ "repeated_auth_fail" \notin raised
  BY <1>1 DEF IInv, EvaluationShape
<1>3. /\ (evaluation'.step = "post" /\ Row.login) \/ (evaluation'.step = "none" /\ ~Row.login)
      /\ "repeated_auth_fail" \notin raised'
      /\ "rate_limit_trigger" \in raised' <=> "rate_limit_trigger" \in raised
  BY <1>1, <1>2 DEF AfterScan
<1>4. a \in Addresses /\ Row = history[n].row /\ \A b : b # a => n \notin RowsOf(b)
  BY <1>2, LastRow
<1>5. /\ HistoryInOrder' /\ EvaluationShape' /\ CleanupShape' /\ StaleIsOld'
      /\ Row' = Row /\ Cutoff' = Cutoff /\ \A s : Recent(s)' = Recent(s)
      /\ \A b : RowsOf(b)' = RowsOf(b)
      /\ \A s : Recent(s) = {i \in RowsOf(a) : history[i].at >= now - s}
  BY <1>1, <1>2, <1>3, StepOfRow
<1>. HIDE DEF n, a
<1>6. \A i : ~Pending(i, {"window"}) /\ ~Pending(i, {"window", "path"})
  BY <1>1 DEF Pending
<1>7. ASSUME NEW b
      PROVE  /\ ArrivedOf(b)' = ArrivedOf(b) /\ LoginsOf(b)' = LoginsOf(b)
             /\ MissingOf(b)' = MissingOf(b)
  <2>1. \A i : /\ ~Pending(i, {"window"})' /\ ~Pending(i, {"window", "path"})'
               /\ Pending(i, {"window", "path", "scan", "post"}) <=> i = n
               /\ Pending(i, {"window", "path", "scan", "post"})' <=> i = n /\ Row.login
    BY <1>1, <1>3 DEF Pending, n
  <2>2. LoginsOf(b)' = LoginsOf(b)
    BY <2>1, <1>1, <1>4, <1>5 DEF LoginsOf
  <2>3. ArrivedOf(b)' = ArrivedOf(b) /\ MissingOf(b)' = MissingOf(b)
    BY <2>1, <1>5, <1>6 DEF ArrivedOf, MissingOf
  <2>. QED  BY <2>2, <2>3
<1>8. TypeOK'
  <2>1. <<>> \in Seq(0 .. now) /\ Len(<<>>) <= WindowCap
    OBVIOUS
  <2>. QED  BY <2>1, <1>1, <1>3 DEF IInv, TypeOK
<1>9. WindowsTrack' /\ LastRowIsLast' /\ EmptyIsOld' /\ PathsKept'
  <2>1. WindowsTrack'
    BY <1>1, <1>7 DEF IInv, WindowsTrack
  <2>2. LastRowIsLast' /\ EmptyIsOld' /\ PathsKept'
    BY <1>1, <1>5, <1>7 DEF IInv, LastRowIsLast, EmptyIsOld, PathsKept
  <2>. QED  BY <2>1, <2>2
<1>10. LeaksAreRaced'
  BY <1>1, <1>7 DEF IInv, LeaksAreRaced, PathLeak, PostLeak, LastAndRaced
<1>11. RateSoFar' /\ LoginRuleExact'
  <2>1. RaisedExactly("rate_limit_trigger", Recent(Minute), RateThreshold)' <=>
        RaisedExactly("rate_limit_trigger", Recent(Minute), RateThreshold)
    BY <1>1, <1>3, <1>5 DEF RaisedExactly
  <2>2. RateSoFar'
    BY <2>1, <1>1, <1>3 DEF RulesRight, RateSoFar
  <2>3. LoginRuleExact'
    BY <1>3, <1>5 DEF LoginRuleExact, Evaluated
  <2>. QED  BY <2>2, <2>3
<1>12. ScanSoFar'
  <2>. DEFINE asked == {i \in Recent(Hour) : ~history[i].racing}
              paths == UNION {history[i].row.missing : i \in asked}
  <2>1. IsFiniteSet(notFound[a])
    BY <1>4 DEF IInv, PathsKept
  <2>2. ASSUME NEW i \in asked PROVE history[i].row.missing \subseteq notFound[a]
    <3>1. i \in MissingOf(a)
      BY <1>5, <1>6 DEF MissingOf
    <3>2. ~history[i].racing /\ history[i].at >= now - Hour
      BY <1>5
    <3>. QED  BY <3>1, <3>2, <1>4 DEF IInv, PathsKept
  <2>3. paths \subseteq notFound[a]
    <3>. HIDE DEF asked
    <3>. QED  BY <2>2
  <2>. HIDE DEF paths
  <2>4. Cardinality(paths) <= Cardinality(notFound[a]) /\ Cardinality(paths) \in Nat
        /\ Cardinality(notFound[a]) \in Nat
    BY <2>1, <2>3, FS_Subset, FS_CardinalityType
  <2>5. Cardinality(paths) > NotFoundMax => "port_scan_attempt" \in raised'
    BY <2>4, <1>1
  <2>. QED  BY <2>5, <1>1, <1>5 DEF ScanSoFar, paths
<1>. QED  BY <1>5, <1>8, <1>9, <1>10, <1>11, <1>12 DEF IInv, RulesRight

\* ... and the login post, rule 9.
LEMMA CountPostKeeps == ASSUME IInv, RulesRight, CountPost PROVE IInv' /\ RulesRight'
<1>. DEFINE n == Len(history)
            a == Row.addr
            w == LoginWindow(loginPosts[a], At)
<1>1. /\ evaluation.step = "post" /\ UNCHANGED <<now, known, reqWindow, notFound, cleanup, history>>
      /\ loginPosts' = [loginPosts EXCEPT ![a] = w]
      /\ raised' = IF Len(w) > LoginMax THEN raised \cup {"repeated_auth_fail"} ELSE raised
      /\ evaluation'.step = "none" /\ evaluation'.window = <<>>
  BY DEF CountPost, Done
<1>2. history # <<>> /\ At = now /\ "repeated_auth_fail" \notin raised /\ Row.login
  BY <1>1 DEF IInv, EvaluationShape
<1>3. /\ n \in Nat \ {0} /\ Row = history[n].row /\ a \in Addresses /\ n \in RowsOf(a)
      /\ history[n].at = now
      /\ \A b : b # a => n \notin RowsOf(b)
      /\ \A i : LastAndRaced(i, a) /\ i \in 1 .. n => i = n
      /\ Last(history).racing <=> history[n].racing
  BY <1>2, LastRow
<1>4. /\ HistoryInOrder' /\ EvaluationShape' /\ CleanupShape' /\ StaleIsOld'
      /\ Row' = Row /\ Cutoff' = Cutoff /\ \A s : Recent(s)' = Recent(s)
      /\ \A b : RowsOf(b)' = RowsOf(b)
      /\ \A s : Recent(s) = {i \in RowsOf(a) : history[i].at >= now - s}
      /\ a \notin known => history[n].racing
  BY <1>1, <1>2, <1>3, StepOfRow
<1>5. DOMAIN history = 1 .. n /\ RowsOf(a) \subseteq 1 .. n /\ LoginsOf(a) \subseteq RowsOf(a)
  BY <1>3, RowTypes, WindowTypes
<1>6. /\ now \in Nat /\ loginPosts[a] \in Seq(Nat) /\ Len(loginPosts[a]) <= LoginCap
      /\ Tracks(loginPosts[a], LoginsOf(a), history, now, Hour, LoginCap)
      /\ \A i \in RowsOf(a) : history[i].at \in Nat
  BY <1>3, WindowTypes
<1>. HIDE DEF n
<1>7. \A i : /\ Pending(i, {"window", "path", "scan", "post"}) <=> i = n
             /\ ~Pending(i, {"window", "path", "scan", "post"})'
             /\ ~Pending(i, {"window"}) /\ ~Pending(i, {"window"})'
             /\ ~Pending(i, {"window", "path"}) /\ ~Pending(i, {"window", "path"})'
  BY <1>1 DEF Pending, n
<1>8. /\ n \notin LoginsOf(a)
      /\ \A b : LoginsOf(b)' = {i \in RowsOf(b) : history[i].row.login}
  BY <1>1, <1>4, <1>7 DEF LoginsOf
<1>9. \A b : b = a => LoginsOf(b)' = LoginsOf(a) \cup {n}
  BY <1>2, <1>3, <1>7, <1>8 DEF LoginsOf
<1>10. ASSUME NEW b, b # a PROVE LoginsOf(b)' = LoginsOf(b)
  BY <1>3, <1>7, <1>8, <1>10 DEF LoginsOf
<1>11. \A b : ArrivedOf(b)' = ArrivedOf(b) /\ MissingOf(b)' = MissingOf(b)
  BY <1>4, <1>7 DEF ArrivedOf, MissingOf
<1>12. JoinedNow(w, loginPosts[a], LoginsOf(a), Hour, LoginCap)
  <2>. HIDE DEF a
  <2>1. LoginsOf(a) \subseteq RowsOf(Row.addr) /\ Len(history) \notin LoginsOf(a)
    BY <1>5, <1>8 DEF a, n
  <2>2. Hour \in Nat /\ LoginCap \in Nat \ {0}
    OBVIOUS
  <2>3. JoinedNow(Expire(Push(loginPosts[a], At, LoginCap), At, Hour), loginPosts[a], LoginsOf(a), Hour, LoginCap)
    BY <1>2, <1>6, <2>1, <2>2, LastRowJoins
  <2>. QED  BY <2>3 DEF LoginWindow
<1>. HIDE DEF a, w
<1>13. /\ w \in Seq(Nat) /\ Len(w) \in 1 .. LoginCap /\ w \in Seq(0 .. now) /\ w # <<>>
       /\ loginPosts[a] = <<>> => w = <<now>>
       /\ Young(w, now, Hour)
       /\ Tracks(w, LoginsOf(a) \cup {n}, history, now, Hour, LoginCap)
  BY <1>9, <1>12 DEF JoinedNow, Joined, n
<1>14. /\ loginPosts \in [Addresses -> Seq(0 .. now)]
       /\ loginPosts'[a] = w /\ \A b \in Addresses : b # a => loginPosts'[b] = loginPosts[b]
       /\ loginPosts' \in [Addresses -> Seq(0 .. now)]
  <2>1. loginPosts \in [Addresses -> Seq(0 .. now)]
    BY DEF IInv, TypeOK
  <2>. QED  BY <2>1, <1>1, <1>3, <1>13
<1>15. TypeOK'
  <2>1. <<>> \in Seq(0 .. now) /\ Len(<<>>) <= WindowCap
    OBVIOUS
  <2>2. \A b \in Addresses : Len(loginPosts'[b]) <= LoginCap
    <3>1. Len(w) <= LoginCap
      BY <1>13
    <3>. QED  BY <3>1, <1>14 DEF IInv, TypeOK
  <2>. QED  BY <2>1, <2>2, <1>1, <1>14 DEF IInv, TypeOK
<1>16. WindowsTrack'
  <2>. SUFFICES ASSUME NEW b \in Addresses
                PROVE  /\ Tracks(reqWindow[b], ArrivedOf(b)', history, now, Minute, WindowCap)
                       /\ Tracks(loginPosts'[b], LoginsOf(b)', history, now, Hour, LoginCap)
    BY <1>1 DEF WindowsTrack
  <2>1. /\ Tracks(reqWindow[b], ArrivedOf(b), history, now, Minute, WindowCap)
        /\ Tracks(loginPosts[b], LoginsOf(b), history, now, Hour, LoginCap)
    BY DEF IInv, WindowsTrack
  <2>2. Tracks(loginPosts'[b], LoginsOf(b)', history, now, Hour, LoginCap)
    <3>1. CASE b = a
      BY <3>1, <1>9, <1>13, <1>14
    <3>2. CASE b # a
      BY <3>2, <2>1, <1>10, <1>14
    <3>. QED  BY <3>1, <3>2
  <2>. QED  BY <2>1, <2>2, <1>11
<1>17. LastRowIsLast' /\ EmptyIsOld' /\ PathsKept'
  BY <1>1, <1>4, <1>11 DEF IInv, LastRowIsLast, EmptyIsOld, PathsKept
<1>18. LeaksAreRaced'
  <2>1. \A i, b : LastAndRaced(i, b)' <=> LastAndRaced(i, b)
    BY <1>1 DEF LastAndRaced
  <2>2. ASSUME NEW b, PathLeak(b) PROVE PathLeak(b)'
    BY <2>1, <2>2, <1>1 DEF PathLeak
  <2>3. ASSUME NEW b \in Addresses \ known, PostLeak(b) PROVE PostLeak(b)'
    <3>1. CASE b # a
      BY <3>1, <2>1, <2>3, <1>1, <1>10, <1>14 DEF PostLeak
    <3>2. CASE b = a
      <4>1. ASSUME loginPosts[a] # <<>> PROVE FALSE
        <5>1. PICK i \in LoginsOf(a) : LastAndRaced(i, a)
          BY <4>1, <3>2, <2>3 DEF PostLeak
        <5>2. i = n
          BY <5>1, <1>3, <1>5
        <5>. QED  BY <5>1, <5>2, <1>8
      <4>2. loginPosts'[a] = <<history[n].at>>
        BY <4>1, <1>3, <1>13, <1>14
      <4>3. LastAndRaced(n, a)
        <5>1. \A j \in 1 .. n : ~(j > n)
          BY <1>3
        <5>. QED  BY <5>1, <3>2, <1>3, <1>4, <1>5 DEF LastAndRaced, RowsOf
      <4>. QED  BY <4>2, <4>3, <3>2, <2>1, <1>1, <1>9 DEF PostLeak
    <3>. QED  BY <3>1, <3>2
  <2>. QED  BY <2>2, <2>3, <1>1 DEF IInv, LeaksAreRaced
<1>19. RateSoFar' /\ ScanSoFar'
  <2>1. /\ "rate_limit_trigger" \in raised' <=> "rate_limit_trigger" \in raised
        /\ "port_scan_attempt" \in raised' <=> "port_scan_attempt" \in raised
    BY <1>1
  <2>2. RaisedExactly("rate_limit_trigger", Recent(Minute), RateThreshold)' <=>
        RaisedExactly("rate_limit_trigger", Recent(Minute), RateThreshold)
    BY <2>1, <1>1, <1>4 DEF RaisedExactly
  <2>3. RateSoFar'
    BY <2>1, <2>2, <1>1 DEF RulesRight, RateSoFar
  <2>4. ScanSoFar'
    BY <2>1, <1>1, <1>4 DEF RulesRight, ScanSoFar
  <2>. QED  BY <2>3, <2>4
<1>20. LoginRuleExact'
  <2>. DEFINE R == LoginsOf(a) \cup {n}
              rows == RecentOf(R, history, now, Hour)
  <2>0. R = {i \in RowsOf(a) : history[i].row.login}
    BY <1>8, <1>9
  <2>1. {i \in Recent(Hour) : history[i].row.login}' = rows
    <3>. HIDE DEF R
    <3>1. rows = {i \in Recent(Hour) : history[i].row.login}
      BY <2>0, <1>4 DEF RecentOf
    <3>. QED  BY <3>1, <1>1, <1>4
  <2>2. "repeated_auth_fail" \in raised' <=> Len(w) >= LoginMax + 1
    <3>1. Len(w) \in Nat
      BY <1>13
    <3>2. Len(w) > LoginMax <=> Len(w) >= LoginMax + 1
      BY <3>1
    <3>. QED  BY <3>2, <1>1, <1>2
  <2>3. /\ RowsUpTo(R, history, n) /\ n \in Nat /\ Hour \in Nat /\ LoginCap \in Nat
        /\ LoginMax + 1 \in Int /\ LoginMax + 1 <= LoginCap
    BY <2>0, <1>3, <1>5, <1>6 DEF RowsUpTo
  <2>4. /\ Len(w) >= LoginMax + 1 => Cardinality(rows) >= LoginMax + 1
        /\ Cardinality(CalmOf(rows, history)) >= LoginMax + 1 => Len(w) >= LoginMax + 1
    BY <2>3, <1>6, <1>13, TrackedCount
  <2>. HIDE DEF rows
  <2>5. RaisedExactly("repeated_auth_fail", {i \in Recent(Hour) : history[i].row.login}, LoginMax + 1)'
    BY <2>1, <2>2, <2>4, <1>1 DEF RaisedExactly, CalmOf
  <2>. QED  BY <2>5 DEF LoginRuleExact
<1>. QED  BY <1>4, <1>15, <1>16, <1>17, <1>18, <1>19, <1>20 DEF IInv, RulesRight
-----------------------------------------------------------------------------

\* A rule speaks of the rows and the events alone.
LEMMA RulesStay ==
  ASSUME RulesRight, UNCHANGED <<evaluation, raised, history>> PROVE RulesRight'
BY DEF RulesRight, RateSoFar, ScanSoFar, LoginRuleExact, Evaluated, Recent, Row, At, RaisedExactly

LEMMA RowsStay ==
  ASSUME UNCHANGED <<evaluation, history>>
  PROVE  /\ \A b : /\ RowsOf(b)' = RowsOf(b) /\ ArrivedOf(b)' = ArrivedOf(b)
                   /\ LoginsOf(b)' = LoginsOf(b) /\ MissingOf(b)' = MissingOf(b)
         /\ \A i, b : LastAndRaced(i, b)' <=> LastAndRaced(i, b)
         /\ Row' = Row /\ At' = At
<1>1. \A b : RowsOf(b)' = RowsOf(b)
  BY DEF RowsOf
<1>2. \A b : /\ ArrivedOf(b)' = ArrivedOf(b) /\ LoginsOf(b)' = LoginsOf(b)
             /\ MissingOf(b)' = MissingOf(b)
  BY DEF RowsOf, ArrivedOf, LoginsOf, MissingOf, Pending
<1>3. \A i, b : LastAndRaced(i, b)' <=> LastAndRaced(i, b)
  BY DEF LastAndRaced
<1>. QED  BY <1>1, <1>2, <1>3 DEF Row, At

\* Time passes between two evaluations: windows keep what they owe, and owe less.
LEMMA TickKeeps == ASSUME IInv, RulesRight, Tick PROVE IInv' /\ RulesRight'
<1>1. /\ now' = now + 1 /\ now < MaxTime /\ evaluation.step = "none"
      /\ UNCHANGED <<known, reqWindow, notFound, loginPosts, evaluation, cleanup, raised, history>>
  BY DEF Tick, windows
<1>2. /\ \A b : /\ RowsOf(b)' = RowsOf(b) /\ ArrivedOf(b)' = ArrivedOf(b)
                /\ LoginsOf(b)' = LoginsOf(b) /\ MissingOf(b)' = MissingOf(b)
      /\ \A i, b : LastAndRaced(i, b)' <=> LastAndRaced(i, b)
  BY <1>1, RowsStay
<1>3. now \in Nat /\ now' \in Nat /\ now <= now' /\ now' <= MaxTime
  BY <1>1 DEF IInv, TypeOK
<1>4. RulesRight'
  BY <1>1, RulesStay
<1>5. TypeOK'
  <2>1. now' \in 0 .. MaxTime
    BY <1>3
  <2>2. ASSUME NEW v \in Seq(0 .. now) PROVE v \in Seq(0 .. now')
    <3>1. v \in Seq(Nat) /\ \A k \in 1 .. Len(v) : v[k] <= now
      BY <1>3, SeqOfTimes
    <3>2. \A k \in 1 .. Len(v) : v[k] \in Nat /\ v[k] <= now'
      BY <3>1, <1>3
    <3>. QED  BY <3>1, <3>2, <1>3, SeqUpTo
  <2>3. reqWindow' \in [Addresses -> Seq(0 .. now')] /\ loginPosts' \in [Addresses -> Seq(0 .. now')]
    BY <2>2, <1>1 DEF IInv, TypeOK
  <2>4. evaluation'.window \in Seq(0 .. now')
    BY <2>2, <1>1 DEF IInv, TypeOK
  <2>. QED  BY <2>1, <2>3, <2>4, <1>1 DEF IInv, TypeOK
<1>6. HistoryInOrder'
  <2>1. /\ history \in Seq(Rows)
        /\ \A i \in DOMAIN history : history[i].at \in Nat /\ history[i].at <= now
        /\ \A i, j \in DOMAIN history : i < j => history[i].at <= history[j].at
    BY RowTypes
  <2>2. \A i \in DOMAIN history : history[i].at <= now'
    BY <2>1, <1>3
  <2>. QED  BY <2>1, <2>2, <1>1 DEF HistoryInOrder
<1>7. WindowsTrack'
  <2>. SUFFICES ASSUME NEW a \in Addresses
                PROVE  /\ Tracks(reqWindow[a], ArrivedOf(a), history, now', Minute, WindowCap)
                       /\ Tracks(loginPosts[a], LoginsOf(a), history, now', Hour, LoginCap)
    BY <1>1, <1>2 DEF WindowsTrack
  <2>1. /\ reqWindow[a] \in Seq(Nat) /\ loginPosts[a] \in Seq(Nat)
        /\ Tracks(reqWindow[a], ArrivedOf(a), history, now, Minute, WindowCap)
        /\ Tracks(loginPosts[a], LoginsOf(a), history, now, Hour, LoginCap)
        /\ SameRows(ArrivedOf(a), history, history) /\ SameRows(LoginsOf(a), history, history)
    BY WindowTypes DEF SameRows
  <2>2. Minute \in Nat /\ Hour \in Nat /\ WindowCap \in Nat /\ LoginCap \in Nat
    OBVIOUS
  <2>3. Tracks(reqWindow[a], ArrivedOf(a), history, now', Minute, WindowCap)
    BY <2>1, <2>2, <1>3, TracksLater
  <2>4. Tracks(loginPosts[a], LoginsOf(a), history, now', Hour, LoginCap)
    BY <2>1, <2>2, <1>3, TracksLater
  <2>. QED  BY <2>3, <2>4
<1>8. EvaluationShape' /\ LastRowIsLast' /\ StaleIsOld'
  BY <1>1, <1>2 DEF IInv, EvaluationShape, LastRowIsLast, StaleIsOld
<1>9. CleanupShape'
  BY <1>1, <1>3 DEF IInv, CleanupShape
<1>10. EmptyIsOld'
  <2>1. Cutoff \in Int /\ Cutoff' \in Int /\ Cutoff <= Cutoff'
    BY <1>1, <1>3 DEF IInv, CleanupShape, Cutoff
  <2>. SUFFICES ASSUME NEW a \in Addresses, reqWindow[a] = <<>>, NEW i \in ArrivedOf(a), ~history[i].racing
                PROVE  history[i].at < Cutoff'
    BY <1>1, <1>2 DEF EmptyIsOld
  <2>2. history[i].at < Cutoff /\ history[i].at \in Nat
    BY WindowTypes DEF IInv, EmptyIsOld
  <2>. QED  BY <2>1, <2>2
<1>11. PathsKept'
  <2>. SUFFICES ASSUME NEW a \in Addresses, NEW i \in MissingOf(a), ~history[i].racing,
                       history[i].at >= now' - Hour
                PROVE  history[i].row.missing \subseteq notFound[a]
    BY <1>1, <1>2 DEF IInv, PathsKept
  <2>1. history[i].at \in Nat
    BY WindowTypes
  <2>2. history[i].at >= now - Hour
    BY <2>1, <1>3
  <2>. QED  BY <2>2 DEF IInv, PathsKept
<1>12. LeaksAreRaced'
  BY <1>1, <1>2 DEF IInv, LeaksAreRaced, PathLeak, PostLeak
<1>. QED  BY <1>4, <1>5, <1>6, <1>7, <1>8, <1>9, <1>10, <1>11, <1>12 DEF IInv

\* A cleanup begins: it deletes nothing, but races the row under evaluation.
LEMMA CleanupStartKeeps == ASSUME IInv, RulesRight, CleanupStart PROVE IInv' /\ RulesRight'
<1>. DEFINE n == Len(history)
<1>1. /\ cleanup.phase = "idle"
      /\ cleanup' = [Idle EXCEPT !.phase = "scan", !.cutoff = now - Hour,
                                 !.size = Cardinality(known), !.scan = known]
      /\ history' = IF evaluation.step = "none" THEN history
                    ELSE [history EXCEPT ![n].racing = TRUE]
      /\ UNCHANGED <<now, known, reqWindow, notFound, loginPosts, evaluation, raised>>
  BY DEF CleanupStart, windows
<1>2. /\ history \in Seq(Rows) /\ n \in Nat /\ DOMAIN history = 1 .. n /\ now \in Nat
      /\ evaluation.step # "none" => history # <<>> /\ n \in 1 .. n
  BY RowTypes, LastRow DEF IInv, TypeOK, EvaluationShape
<1>3. /\ history' \in Seq(Rows) /\ Len(history') = n /\ DOMAIN history' = 1 .. n
      /\ \A i \in 1 .. n : /\ history'[i].row = history[i].row /\ history'[i].at = history[i].at
                           /\ history[i].racing => history'[i].racing
      /\ evaluation.step # "none" => history'[n].racing
  <2>1. CASE evaluation.step = "none"
    BY <2>1, <1>1, <1>2
  <2>2. CASE evaluation.step # "none"
    <3>1. history' = [history EXCEPT ![n] = [history[n] EXCEPT !.racing = TRUE]]
      BY <2>2, <1>1
    <3>2. history[n] \in Rows
      BY <2>2, <1>2
    <3>. DEFINE r == [history[n] EXCEPT !.racing = TRUE]
    <3>3. r \in Rows /\ r.row = history[n].row /\ r.at = history[n].at /\ r.racing = TRUE
      BY <3>2 DEF Rows
    <3>. HIDE DEF n, r
    <3>4. history' \in Seq(Rows) /\ Len(history') = n /\ DOMAIN history' = 1 .. n
      BY <3>1, <3>3, <1>2, <2>2 DEF n, r
    <3>5. \A i \in 1 .. n : history'[i] = IF i = n THEN r ELSE history[i]
      BY <3>1, <1>2 DEF r
    <3>6. history'[n].racing
      BY <3>3, <3>5, <1>2, <2>2, Zenon
    <3>. QED  BY <3>3, <3>4, <3>5, <3>6
  <2>. QED  BY <2>1, <2>2
<1>4. /\ (evaluation.step # "none" => Last(history').racing)
      /\ (history # <<>> => history' # <<>> /\ Row' = Row /\ At' = At)
      /\ (history' # <<>> => history # <<>>)
  <2>1. Last(history') = history'[n] /\ Last(history) = history[n]
    BY <1>3 DEF Last
  <2>2. history # <<>> <=> n # 0
    BY <1>2
  <2>3. history' # <<>> <=> n # 0
    BY <1>3
  <2>. HIDE DEF n
  <2>4. n # 0 => n \in 1 .. n
    BY <1>2
  <2>. QED  BY <2>1, <2>2, <2>3, <2>4, <1>3 DEF Row, At
<1>. HIDE DEF n
<1>5. /\ \A b : /\ RowsOf(b)' = RowsOf(b) /\ ArrivedOf(b)' = ArrivedOf(b)
                /\ LoginsOf(b)' = LoginsOf(b) /\ MissingOf(b)' = MissingOf(b)
                /\ RowsOf(b) \subseteq 1 .. n
      /\ \A i, b : i \in 1 .. n /\ LastAndRaced(i, b) => LastAndRaced(i, b)'
  <2>1. \A b : RowsOf(b)' = RowsOf(b) /\ RowsOf(b) \subseteq 1 .. n
    BY <1>2, <1>3 DEF RowsOf
  <2>2. \A i : /\ Pending(i, {"window"})' <=> Pending(i, {"window"})
               /\ Pending(i, {"window", "path"})' <=> Pending(i, {"window", "path"})
               /\ Pending(i, {"window", "path", "scan", "post"})' <=>
                    Pending(i, {"window", "path", "scan", "post"})
    BY <1>1, <1>3 DEF Pending, n
  <2>3. \A b : ArrivedOf(b)' = ArrivedOf(b) /\ MissingOf(b)' = MissingOf(b)
    BY <2>1, <2>2 DEF ArrivedOf, MissingOf
  <2>4. \A b : LoginsOf(b)' = LoginsOf(b)
    BY <2>1, <2>2, <1>3 DEF LoginsOf
  <2>5. \A i, b : i \in 1 .. n /\ LastAndRaced(i, b) => LastAndRaced(i, b)'
    BY <1>2, <1>3 DEF LastAndRaced
  <2>. QED  BY <2>1, <2>3, <2>4, <2>5
<1>6. /\ ArrivedOf(Row.addr) \subseteq 1 .. n
      /\ \A a \in Addresses : ArrivedOf(a) \subseteq 1 .. n /\ LoginsOf(a) \subseteq 1 .. n
                              /\ MissingOf(a) \subseteq 1 .. n
  BY <1>5 DEF ArrivedOf, LoginsOf, MissingOf
<1>7. /\ cleanup'.phase = "scan" /\ cleanup'.cutoff = now - Hour /\ cleanup'.stale = {}
      /\ cleanup'.half = {} /\ cleanup'.scan = known /\ cleanup'.size = Cardinality(known)
      /\ Cutoff = now - Hour /\ Cutoff' = now - Hour /\ cleanup.half = {}
      /\ cleanup' = [phase |-> "scan", cutoff |-> now - Hour, size |-> Cardinality(known),
                     scan |-> known, stale |-> {}, half |-> {}]
  BY <1>1 DEF Idle, Cutoff, IInv, CleanupShape
<1>8. TypeOK'
  BY <1>1, <1>7 DEF IInv, TypeOK
<1>9. HistoryInOrder'
  <2>1. /\ \A i \in 1 .. n : history[i].at <= now
        /\ \A i, j \in 1 .. n : i < j => history[i].at <= history[j].at
    BY RowTypes DEF n
  <2>. QED  BY <2>1, <1>1, <1>3 DEF HistoryInOrder
<1>10. ASSUME NEW w \in Seq(Nat), NEW R, R \subseteq 1 .. n, NEW cap \in Nat, NEW seconds \in Nat,
              Tracks(w, R, history, now, seconds, cap)
       PROVE  Tracks(w, R, history', now, seconds, cap)
  <2>1. SameRows(R, history, history')
    BY <1>3, <1>10, RowTypes DEF SameRows, n
  <2>. QED  BY <2>1, <1>2, <1>10, TracksLater
<1>11. Minute \in Nat /\ Hour \in Nat /\ WindowCap \in Nat /\ LoginCap \in Nat
  OBVIOUS
<1>12. WindowsTrack'
  <2>. SUFFICES ASSUME NEW a \in Addresses
                PROVE  /\ Tracks(reqWindow[a], ArrivedOf(a), history', now, Minute, WindowCap)
                       /\ Tracks(loginPosts[a], LoginsOf(a), history', now, Hour, LoginCap)
    BY <1>1, <1>5 DEF WindowsTrack
  <2>1. /\ reqWindow[a] \in Seq(Nat) /\ loginPosts[a] \in Seq(Nat)
        /\ Tracks(reqWindow[a], ArrivedOf(a), history, now, Minute, WindowCap)
        /\ Tracks(loginPosts[a], LoginsOf(a), history, now, Hour, LoginCap)
    BY WindowTypes
  <2>. QED  BY <2>1, <1>6, <1>10, <1>11
<1>13. EvaluationShape'
  <2>1. CASE evaluation.step = "none"
    BY <2>1, <1>1 DEF EvaluationShape
  <2>2. CASE evaluation.step # "none"
    <3>1. /\ history # <<>> /\ At = now /\ "repeated_auth_fail" \notin raised
          /\ evaluation.step = "post" => Row.login
          /\ evaluation.step = "window" =>
               Tracks(evaluation.window, ArrivedOf(Row.addr), history, now, Minute, WindowCap)
          /\ evaluation.window \in Seq(Nat)
      BY <2>2, <1>2, SeqOfTimes DEF IInv, EvaluationShape, TypeOK
    <3>2. evaluation.step = "window" =>
            Tracks(evaluation.window, ArrivedOf(Row.addr), history', now, Minute, WindowCap)
      BY <3>1, <1>6, <1>10, <1>11
    <3>. DEFINE a == Row.addr
    <3>3. ArrivedOf(Row.addr)' = ArrivedOf(a)
      BY <3>1, <1>4, <1>5
    <3>. QED  BY <2>2, <3>1, <3>2, <3>3, <1>1, <1>4 DEF EvaluationShape
  <2>. QED  BY <2>1, <2>2
<1>14. LastRowIsLast'
  BY <1>1, <1>3, <1>5, <1>6 DEF IInv, LastRowIsLast, TypeOK
<1>15. CleanupShape'
  <2>1. IsFiniteSet(known) /\ Cardinality(known) \in Nat /\ known \subseteq Addresses
    BY FS_CardinalityType DEF IInv, CleanupShape, TypeOK
  <2>2. now - Hour \in Int /\ now - Hour <= now' - Hour
    BY <1>1, <1>2
  <2>. QED  BY <2>1, <2>2, <1>1, <1>7 DEF CleanupShape
<1>16. StaleIsOld'
  BY <1>7 DEF StaleIsOld
<1>17. EmptyIsOld' /\ PathsKept'
  <2>1. EmptyIsOld'
    BY <1>1, <1>3, <1>5, <1>6, <1>7 DEF IInv, EmptyIsOld
  <2>2. PathsKept'
    BY <1>1, <1>3, <1>5, <1>6 DEF IInv, PathsKept
  <2>. QED  BY <2>1, <2>2
<1>18. LeaksAreRaced'
  <2>1. ASSUME NEW a, PathLeak(a) PROVE PathLeak(a)'
    BY <2>1, <1>1, <1>2, <1>3, <1>5 DEF PathLeak
  <2>2. ASSUME NEW a \in Addresses, PostLeak(a) PROVE PostLeak(a)'
    BY <2>2, <1>1, <1>3, <1>5, <1>6 DEF PostLeak
  <2>. QED  BY <2>1, <2>2, <1>1, <1>7 DEF IInv, LeaksAreRaced
<1>19. RulesRight'
  <2>1. CASE evaluation.step = "none" \/ history = <<>>
    <3>1. history' = history
      BY <2>1, <1>1, <1>2
    <3>. QED  BY <3>1, <1>1, RulesStay
  <2>2. CASE evaluation.step # "none" /\ history # <<>>
    <3>1. Row' = Row /\ At' = At
      BY <2>2, <1>4
    <3>2. \A s : Recent(s)' = Recent(s) /\ Recent(s) \subseteq 1 .. n
      BY <3>1, <1>2, <1>3 DEF Recent
    <3>3. LoginRuleExact'
      BY <2>2, <1>1 DEF LoginRuleExact, Evaluated
    <3>4. RateSoFar'
      <4>. DEFINE rows == Recent(Minute)
      <4>1. IsFiniteSet(rows)
        <5>1. IsFiniteSet(1 .. n)
          BY <1>2, FS_Interval
        <5>. QED  BY <5>1, <3>2, FS_Subset
      <4>2. \A i \in rows : history[i].racing => history'[i].racing
        BY <3>2, <1>3
      <4>. HIDE DEF rows
      <4>3. Cardinality(CalmOf(rows, history')) >= RateThreshold =>
              Cardinality(CalmOf(rows, history)) >= RateThreshold
        BY <4>1, <4>2, FewerCalm
      <4>4. RaisedExactly("rate_limit_trigger", Recent(Minute), RateThreshold) =>
              RaisedExactly("rate_limit_trigger", Recent(Minute), RateThreshold)'
        BY <4>3, <3>2, <1>1 DEF RaisedExactly, CalmOf, rows
      <4>. QED  BY <4>4, <2>2, <1>1 DEF RulesRight, RateSoFar
    <3>5. ScanSoFar'
      <4>. SUFFICES ASSUME evaluation.step = "post", Row.missing # {}
                    PROVE  LET asked == {i \in Recent(Hour) : ~history'[i].racing}
                           IN  Cardinality(UNION {history'[i].row.missing : i \in asked}) > NotFoundMax
                                 => "port_scan_attempt" \in raised
        BY <3>1, <3>2, <2>2, <1>1 DEF ScanSoFar
      <4>. DEFINE asked == {i \in Recent(Hour) : ~history[i].racing}
                  later == {i \in Recent(Hour) : ~history'[i].racing}
                  paths == UNION {history[i].row.missing : i \in asked}
                  fewer == UNION {history'[i].row.missing : i \in later}
      <4>1. later \subseteq asked /\ \A i \in later : history'[i].row.missing = history[i].row.missing
        BY <3>2, <1>3
      <4>2. fewer \subseteq paths
        <5>. HIDE DEF asked, later
        <5>. QED  BY <4>1
      <4>3. paths \subseteq notFound[Row.addr] /\ IsFiniteSet(notFound[Row.addr])
        <5>1. Row.addr \in Addresses /\ At = now
          BY <2>2, LastRow DEF IInv, EvaluationShape
        <5>2. ASSUME NEW i \in asked PROVE history[i].row.missing \subseteq notFound[Row.addr]
          <6>1. i \in MissingOf(Row.addr) /\ ~history[i].racing /\ history[i].at >= now - Hour
            BY <5>1 DEF Recent, MissingOf, RowsOf, Pending
          <6>. QED  BY <5>1, <6>1 DEF IInv, PathsKept
        <5>. HIDE DEF asked
        <5>. QED  BY <5>1, <5>2 DEF IInv, PathsKept
      <4>4. Cardinality(paths) > NotFoundMax => "port_scan_attempt" \in raised
        BY <2>2 DEF RulesRight, ScanSoFar
      <4>. HIDE DEF fewer, paths
      <4>5. IsFiniteSet(paths)
        BY <4>3, FS_Subset
      <4>6. /\ Cardinality(fewer) <= Cardinality(paths)
            /\ Cardinality(fewer) \in Nat /\ Cardinality(paths) \in Nat
        BY <4>2, <4>5, FS_Subset, FS_CardinalityType
      <4>7. Cardinality(fewer) > NotFoundMax => "port_scan_attempt" \in raised
        BY <4>4, <4>6
      <4>. QED  BY <4>7 DEF fewer
    <3>. QED  BY <3>3, <3>4, <3>5 DEF RulesRight
  <2>. QED  BY <2>1, <2>2
<1>. QED  BY <1>8, <1>9, <1>12, <1>13, <1>14, <1>15, <1>16, <1>17, <1>18, <1>19 DEF IInv

\* A step of the cleanup that deletes nothing need only keep what is said of the cleanup.
LEMMA LookingKeeps ==
  ASSUME IInv, RulesRight, UNCHANGED <<now, known, windows, evaluation, raised, history>>,
         cleanup.phase \in {"scan", "delete"}, cleanup.half = {}, cleanup'.half = {},
         cleanup'.scan \subseteq cleanup.scan, cleanup'.stale \subseteq Addresses,
         CleanupShape', StaleIsOld', EmptyIsOld'
  PROVE  IInv' /\ RulesRight'
<1>1. /\ UNCHANGED <<reqWindow, notFound, loginPosts>>
      /\ \A b : /\ RowsOf(b)' = RowsOf(b) /\ ArrivedOf(b)' = ArrivedOf(b)
                /\ LoginsOf(b)' = LoginsOf(b) /\ MissingOf(b)' = MissingOf(b)
      /\ \A i, b : LastAndRaced(i, b)' <=> LastAndRaced(i, b)
      /\ Row' = Row /\ At' = At
  BY RowsStay DEF windows
<1>2. RulesRight'
  BY RulesStay
<1>3. TypeOK' /\ HistoryInOrder'
  BY <1>1 DEF IInv, TypeOK, HistoryInOrder
<1>4. WindowsTrack' /\ LastRowIsLast' /\ PathsKept'
  BY <1>1 DEF IInv, WindowsTrack, LastRowIsLast, PathsKept
<1>5. EvaluationShape'
  <2>. DEFINE a == Row.addr
  <2>1. ArrivedOf(Row.addr)' = ArrivedOf(a)
    BY <1>1
  <2>2. cleanup.phase # "idle"
    OBVIOUS
  <2>. QED  BY <2>1, <2>2, <1>1 DEF IInv, EvaluationShape
<1>6. LeaksAreRaced'
  BY <1>1 DEF IInv, LeaksAreRaced, PathLeak, PostLeak
<1>. QED  BY <1>2, <1>3, <1>4, <1>5, <1>6 DEF IInv

\* The cleanup finds an address stale only if all its rows are older than the cutoff, but
\* those it raced.
LEMMA CleanupScanKeeps ==
  ASSUME IInv, RulesRight, NEW a \in Addresses, CleanupScan(a) PROVE IInv' /\ RulesRight'
<1>1. /\ cleanup.phase = "scan" /\ a \in cleanup.scan
      /\ cleanup' = [cleanup EXCEPT !.scan = @ \ {a}, !.stale = IF Stale(a) THEN @ \cup {a} ELSE @]
      /\ UNCHANGED <<now, known, windows, evaluation, raised, history>>
  BY DEF CleanupScan
<1>2. /\ cleanup \in [phase : {"idle", "scan", "delete", "paths", "posts"}, cutoff : Int, size : Nat,
                      scan : SUBSET Addresses, stale : SUBSET Addresses, half : SUBSET Addresses]
      /\ cleanup.half = {} /\ cleanup.scan \subseteq known
  BY <1>1 DEF IInv, CleanupShape
<1>3. /\ cleanup'.phase = "scan" /\ cleanup'.cutoff = cleanup.cutoff /\ cleanup'.half = {}
      /\ cleanup'.scan \subseteq cleanup.scan /\ cleanup'.stale \subseteq cleanup.stale \cup {a}
      /\ a \in cleanup'.stale => a \in cleanup.stale \/ Stale(a)
      /\ cleanup' \in [phase : {"idle", "scan", "delete", "paths", "posts"}, cutoff : Int, size : Nat,
                       scan : SUBSET Addresses, stale : SUBSET Addresses, half : SUBSET Addresses]
  BY <1>1, <1>2
<1>4. \A b : RowsOf(b)' = RowsOf(b) /\ ArrivedOf(b)' = ArrivedOf(b)
  BY <1>1, RowsStay
<1>5. CleanupShape'
  BY <1>1, <1>2, <1>3 DEF IInv, CleanupShape
<1>6. EmptyIsOld'
  BY <1>1, <1>3, <1>4 DEF IInv, EmptyIsOld, Cutoff, windows
<1>7. StaleIsOld'
  <2>. SUFFICES ASSUME NEW b \in cleanup'.stale, NEW i \in RowsOf(b), ~history[i].racing
                PROVE  history[i].at < cleanup.cutoff
    BY <1>1, <1>3, <1>4 DEF StaleIsOld
  <2>1. CASE b \in cleanup.stale
    BY <2>1 DEF IInv, StaleIsOld
  <2>2. CASE b \notin cleanup.stale
    <3>1. b = a /\ Stale(a) /\ a \in known
      BY <2>2, <1>1, <1>2, <1>3
    <3>2. i \in ArrivedOf(a)
      <4>1. ASSUME Pending(i, {"window"}) PROVE FALSE
        <5>1. history # <<>> /\ Last(history).racing /\ i = Len(history)
          BY <4>1, <1>1 DEF Pending, IInv, EvaluationShape
        <5>2. Last(history).racing <=> history[i].racing
          BY <5>1, LastRow
        <5>. QED  BY <5>1, <5>2
      <4>. QED  BY <4>1, <3>1 DEF ArrivedOf
    <3>3. CASE reqWindow[a] = <<>>
      BY <3>2, <3>3, <1>1 DEF IInv, EmptyIsOld, Cutoff
    <3>4. CASE reqWindow[a] # <<>>
      <4>1. Last(reqWindow[a]) < cleanup.cutoff /\ history[i].at <= Last(reqWindow[a])
        BY <3>1, <3>2, <3>4 DEF Stale, IInv, LastRowIsLast
      <4>2. Last(reqWindow[a]) \in Nat /\ history[i].at \in Nat /\ cleanup.cutoff \in Int
        <5>1. reqWindow[a] \in Seq(Nat) /\ Len(reqWindow[a]) \in 1 .. Len(reqWindow[a])
          BY <3>4, WindowTypes
        <5>2. Last(reqWindow[a]) \in Nat
          BY <5>1 DEF Last
        <5>3. history[i].at \in Nat
          BY <3>1, WindowTypes
        <5>. QED  BY <5>2, <5>3, <1>2
      <4>. QED  BY <4>1, <4>2
    <3>. QED  BY <3>3, <3>4
  <2>. QED  BY <2>1, <2>2
<1>. QED  BY <1>1, <1>2, <1>3, <1>5, <1>6, <1>7, LookingKeeps

\* It gives up, goes on to delete, or ends.
LEMMA CleanupMovesOn ==
  ASSUME IInv, RulesRight, CleanupFails \/ CleanupScanned \/ CleanupEnd PROVE IInv' /\ RulesRight'
<1>1. /\ cleanup.phase \in {"scan", "delete"}
      /\ cleanup' = Idle \/ cleanup' = [cleanup EXCEPT !.phase = "delete"]
      /\ UNCHANGED <<now, known, windows, evaluation, raised, history>>
  BY DEF CleanupFails, CleanupScanned, CleanupEnd
<1>2. /\ cleanup \in [phase : {"idle", "scan", "delete", "paths", "posts"}, cutoff : Int, size : Nat,
                      scan : SUBSET Addresses, stale : SUBSET Addresses, half : SUBSET Addresses]
      /\ cleanup.half = {} /\ cleanup.cutoff <= now - Hour /\ now \in Nat
  BY <1>1 DEF IInv, CleanupShape, TypeOK
<1>3. /\ cleanup' \in [phase : {"idle", "scan", "delete", "paths", "posts"}, cutoff : Int, size : Nat,
                       scan : SUBSET Addresses, stale : SUBSET Addresses, half : SUBSET Addresses]
      /\ cleanup'.half = {} /\ cleanup'.scan \subseteq cleanup.scan
      /\ \/ cleanup'.phase = "idle" /\ cleanup'.stale = {}
         \/ cleanup'.phase = "delete" /\ cleanup'.stale = cleanup.stale /\ cleanup'.cutoff = cleanup.cutoff
  BY <1>1, <1>2 DEF Idle
<1>4. \A b : RowsOf(b)' = RowsOf(b) /\ ArrivedOf(b)' = ArrivedOf(b)
  BY <1>1, RowsStay
<1>5. CleanupShape'
  BY <1>1, <1>2, <1>3 DEF IInv, CleanupShape
<1>6. StaleIsOld'
  BY <1>1, <1>2, <1>3, <1>4 DEF IInv, StaleIsOld
<1>7. EmptyIsOld'
  <2>1. Cutoff = cleanup.cutoff /\ Cutoff' \in {cleanup.cutoff, now - Hour}
    BY <1>1, <1>3 DEF Cutoff
  <2>. SUFFICES ASSUME NEW b \in Addresses, reqWindow[b] = <<>>, NEW i \in ArrivedOf(b), ~history[i].racing
                PROVE  history[i].at < Cutoff'
    BY <1>1, <1>4 DEF EmptyIsOld, windows
  <2>2. history[i].at < cleanup.cutoff /\ history[i].at \in Nat
    BY <2>1, WindowTypes DEF IInv, EmptyIsOld
  <2>. QED  BY <2>1, <2>2, <1>2
<1>8. cleanup'.stale \subseteq Addresses
  BY <1>3
<1>. QED  BY <1>1, <1>2, <1>3, <1>5, <1>6, <1>7, <1>8, LookingKeeps

\* What is being deleted is older than any window, but for rows the cleanup raced.
LEMMA OldRows ==
  ASSUME IInv, NEW a \in cleanup.stale \cup cleanup.half
  PROVE  /\ a \in Addresses /\ cleanup.phase # "idle"
         /\ \A i \in RowsOf(a) : ~history[i].racing =>
              /\ history[i].at < Cutoff
              /\ ~(history[i].at >= now - Hour) /\ ~(history[i].at >= now - Minute)
<1>1. a \in Addresses /\ cleanup.phase # "idle" /\ Cutoff = cleanup.cutoff
  BY DEF IInv, CleanupShape, Cutoff
<1>2. cleanup.cutoff \in Int /\ cleanup.cutoff <= now - Hour /\ now \in Nat
  BY <1>1 DEF IInv, CleanupShape, TypeOK
<1>3. ASSUME NEW i \in RowsOf(a), ~history[i].racing
      PROVE  history[i].at < cleanup.cutoff /\ history[i].at \in Nat
  BY <1>1, <1>3, WindowTypes DEF IInv, StaleIsOld
<1>. QED  BY <1>1, <1>2, <1>3

\* The window of a stale address goes ...
LEMMA CleanupDeleteKeeps ==
  ASSUME IInv, RulesRight, NEW a \in Addresses, CleanupDelete(a) PROVE IInv' /\ RulesRight'
<1>1. /\ cleanup.phase = "delete" /\ a \in cleanup.stale
      /\ cleanup' = [cleanup EXCEPT !.phase = "paths", !.stale = @ \ {a}, !.half = {a}]
      /\ known' = known \ {a} /\ reqWindow' = [reqWindow EXCEPT ![a] = <<>>]
      /\ UNCHANGED <<now, notFound, loginPosts, evaluation, raised, history>>
  BY DEF CleanupDelete
<1>2. /\ \A b : /\ RowsOf(b)' = RowsOf(b) /\ ArrivedOf(b)' = ArrivedOf(b)
                /\ LoginsOf(b)' = LoginsOf(b) /\ MissingOf(b)' = MissingOf(b)
      /\ \A i, b : LastAndRaced(i, b)' <=> LastAndRaced(i, b)
      /\ Row' = Row /\ At' = At
  BY <1>1, RowsStay
<1>3. RulesRight'
  BY <1>1, RulesStay
<1>4. /\ cleanup \in [phase : {"idle", "scan", "delete", "paths", "posts"}, cutoff : Int, size : Nat,
                      scan : SUBSET Addresses, stale : SUBSET Addresses, half : SUBSET Addresses]
      /\ cleanup.half = {} /\ cleanup.cutoff <= now - Hour
  BY <1>1 DEF IInv, CleanupShape
<1>5. /\ cleanup'.phase = "paths" /\ cleanup'.cutoff = cleanup.cutoff /\ cleanup'.half = {a}
      /\ cleanup'.stale = cleanup.stale \ {a} /\ cleanup'.scan = cleanup.scan
      /\ cleanup' \in [phase : {"idle", "scan", "delete", "paths", "posts"}, cutoff : Int, size : Nat,
                       scan : SUBSET Addresses, stale : SUBSET Addresses, half : SUBSET Addresses]
      /\ Cutoff' = Cutoff
  BY <1>1, <1>4 DEF Cutoff
<1>6. /\ reqWindow \in [Addresses -> Seq(0 .. now)]
      /\ reqWindow'[a] = <<>> /\ \A b \in Addresses : b # a => reqWindow'[b] = reqWindow[b]
      /\ reqWindow' \in [Addresses -> Seq(0 .. now)]
  <2>1. reqWindow \in [Addresses -> Seq(0 .. now)] /\ <<>> \in Seq(0 .. now)
    BY DEF IInv, TypeOK
  <2>. QED  BY <2>1, <1>1
<1>7. TypeOK'
  <2>1. \A b \in Addresses : Len(reqWindow'[b]) <= WindowCap /\ (reqWindow'[b] # <<>> => b \in known')
    BY <1>1, <1>6 DEF IInv, TypeOK
  <2>2. cleanup'.scan \cup cleanup'.stale \cup cleanup'.half \subseteq Addresses
    BY <1>4, <1>5
  <2>. QED  BY <2>1, <2>2, <1>1, <1>6 DEF IInv, TypeOK
<1>8. \A i \in RowsOf(a) : ~history[i].racing => ~(history[i].at >= now - Minute) /\ history[i].at < Cutoff
  BY <1>1, OldRows
<1>9. WindowsTrack'
  <2>. SUFFICES ASSUME NEW b \in Addresses
                PROVE  /\ Tracks(reqWindow'[b], ArrivedOf(b), history, now, Minute, WindowCap)
                       /\ Tracks(loginPosts[b], LoginsOf(b), history, now, Hour, LoginCap)
    BY <1>1, <1>2 DEF WindowsTrack
  <2>1. /\ Tracks(reqWindow[b], ArrivedOf(b), history, now, Minute, WindowCap)
        /\ Tracks(loginPosts[b], LoginsOf(b), history, now, Hour, LoginCap)
    BY DEF IInv, WindowsTrack
  <2>2. Tracks(<<>>, ArrivedOf(a), history, now, Minute, WindowCap)
    <3>1. \A i \in ArrivedOf(a) : ~history[i].racing => ~(history[i].at >= now - Minute)
      BY <1>8 DEF ArrivedOf
    <3>. QED  BY <3>1, TracksNothing
  <2>. QED  BY <2>1, <2>2, <1>6
<1>10. EvaluationShape' /\ HistoryInOrder' /\ PathsKept'
  <2>. DEFINE c == Row.addr
  <2>1. ArrivedOf(Row.addr)' = ArrivedOf(c)
    BY <1>2
  <2>2. cleanup.phase # "idle"
    BY <1>1
  <2>3. EvaluationShape'
    BY <2>1, <2>2, <1>1, <1>2 DEF IInv, EvaluationShape
  <2>. QED  BY <2>3, <1>1, <1>2 DEF IInv, HistoryInOrder, PathsKept
<1>11. LastRowIsLast'
  BY <1>1, <1>2, <1>6 DEF IInv, LastRowIsLast, TypeOK
<1>12. CleanupShape'
  <2>1. IsFiniteSet(known) /\ known' \subseteq known
    BY <1>1 DEF IInv, CleanupShape
  <2>2. IsFiniteSet(known')
    BY <2>1, FS_Subset
  <2>. QED  BY <2>2, <1>1, <1>4, <1>5 DEF CleanupShape
<1>13. StaleIsOld'
  BY <1>1, <1>2, <1>5 DEF IInv, StaleIsOld
<1>14. EmptyIsOld'
  <2>. SUFFICES ASSUME NEW b \in Addresses, reqWindow'[b] = <<>>, NEW i \in ArrivedOf(b), ~history[i].racing
                PROVE  history[i].at < Cutoff
    BY <1>1, <1>2, <1>5 DEF EmptyIsOld
  <2>1. CASE b = a
    BY <2>1, <1>8 DEF ArrivedOf
  <2>2. CASE b # a
    BY <2>2, <1>6 DEF IInv, EmptyIsOld
  <2>. QED  BY <2>1, <2>2
<1>15. LeaksAreRaced'
  <2>1. ASSUME NEW b PROVE /\ PathLeak(b) => PathLeak(b)'
                           /\ PostLeak(b) => PostLeak(b)'
    BY <1>1, <1>2 DEF PathLeak, PostLeak
  <2>2. \A b \in Addresses \ known' : b = a \/ b \in Addresses \ known
    BY <1>1
  <2>. QED  BY <2>1, <2>2, <1>4, <1>5 DEF IInv, LeaksAreRaced
<1>. QED  BY <1>3, <1>7, <1>9, <1>10, <1>11, <1>12, <1>13, <1>14, <1>15 DEF IInv

\* ... then its paths ...
LEMMA CleanupPathsKeeps ==
  ASSUME IInv, RulesRight, NEW a \in Addresses, CleanupPaths(a) PROVE IInv' /\ RulesRight'
<1>1. /\ cleanup.phase = "paths" /\ a \in cleanup.half
      /\ cleanup' = [cleanup EXCEPT !.phase = "posts"]
      /\ notFound' = [notFound EXCEPT ![a] = {}]
      /\ UNCHANGED <<now, known, reqWindow, loginPosts, evaluation, raised, history>>
  BY DEF CleanupPaths
<1>2. /\ \A b : /\ RowsOf(b)' = RowsOf(b) /\ ArrivedOf(b)' = ArrivedOf(b)
                /\ LoginsOf(b)' = LoginsOf(b) /\ MissingOf(b)' = MissingOf(b)
      /\ \A i, b : LastAndRaced(i, b)' <=> LastAndRaced(i, b)
      /\ Row' = Row /\ At' = At
  BY <1>1, RowsStay
<1>3. RulesRight'
  BY <1>1, RulesStay
<1>4. /\ cleanup \in [phase : {"idle", "scan", "delete", "paths", "posts"}, cutoff : Int, size : Nat,
                      scan : SUBSET Addresses, stale : SUBSET Addresses, half : SUBSET Addresses]
      /\ \A b \in cleanup.half : b = a
  BY <1>1 DEF IInv, CleanupShape
<1>5. /\ cleanup'.phase = "posts" /\ cleanup'.cutoff = cleanup.cutoff /\ cleanup'.half = cleanup.half
      /\ cleanup'.stale = cleanup.stale /\ cleanup'.scan = cleanup.scan
      /\ cleanup' \in [phase : {"idle", "scan", "delete", "paths", "posts"}, cutoff : Int, size : Nat,
                       scan : SUBSET Addresses, stale : SUBSET Addresses, half : SUBSET Addresses]
      /\ Cutoff' = Cutoff
  BY <1>1, <1>4 DEF Cutoff
<1>6. /\ notFound' \in [Addresses -> SUBSET Paths]
      /\ notFound'[a] = {} /\ \A b \in Addresses : b # a => notFound'[b] = notFound[b]
  <2>1. notFound \in [Addresses -> SUBSET Paths]
    BY DEF IInv, TypeOK
  <2>. QED  BY <2>1, <1>1
<1>7. TypeOK'
  BY <1>1, <1>5, <1>6 DEF IInv, TypeOK
<1>8. WindowsTrack' /\ LastRowIsLast' /\ HistoryInOrder' /\ StaleIsOld' /\ EmptyIsOld'
  <2>1. WindowsTrack' /\ LastRowIsLast'
    BY <1>1, <1>2 DEF IInv, WindowsTrack, LastRowIsLast
  <2>2. HistoryInOrder' /\ StaleIsOld' /\ EmptyIsOld'
    BY <1>1, <1>2, <1>5 DEF IInv, HistoryInOrder, StaleIsOld, EmptyIsOld
  <2>. QED  BY <2>1, <2>2
<1>9. EvaluationShape'
  <2>. DEFINE c == Row.addr
  <2>1. ArrivedOf(Row.addr)' = ArrivedOf(c)
    BY <1>2
  <2>2. cleanup.phase # "idle"
    BY <1>1
  <2>. QED  BY <2>1, <2>2, <1>1, <1>2 DEF IInv, EvaluationShape
<1>10. CleanupShape'
  BY <1>1, <1>4, <1>5 DEF IInv, CleanupShape
<1>11. PathsKept'
  <2>. SUFFICES ASSUME NEW b \in Addresses
                PROVE  /\ IsFiniteSet(notFound'[b])
                       /\ \A i \in MissingOf(b) : ~history[i].racing /\ history[i].at >= now - Hour
                            => history[i].row.missing \subseteq notFound'[b]
    BY <1>1, <1>2 DEF PathsKept
  <2>1. CASE b = a
    <3>1. \A i \in RowsOf(a) : ~history[i].racing => ~(history[i].at >= now - Hour)
      BY <1>1, OldRows
    <3>2. IsFiniteSet({})
      BY FS_EmptySet
    <3>. QED  BY <2>1, <3>1, <3>2, <1>6 DEF MissingOf
  <2>2. CASE b # a
    BY <2>2, <1>6 DEF IInv, PathsKept
  <2>. QED  BY <2>1, <2>2
<1>12. LeaksAreRaced'
  <2>1. ASSUME NEW b PROVE PostLeak(b) => PostLeak(b)'
    BY <1>1, <1>2 DEF PostLeak
  <2>2. PathLeak(a)'
    BY <1>6 DEF PathLeak
  <2>3. ASSUME NEW b \in Addresses, b # a PROVE PathLeak(b) => PathLeak(b)'
    BY <2>3, <1>1, <1>2, <1>6 DEF PathLeak
  <2>. QED  BY <2>1, <2>2, <2>3, <1>1, <1>4, <1>5 DEF IInv, LeaksAreRaced
<1>. QED  BY <1>3, <1>7, <1>8, <1>9, <1>10, <1>11, <1>12 DEF IInv

\* ... and its login posts.
LEMMA CleanupPostsKeeps ==
  ASSUME IInv, RulesRight, NEW a \in Addresses, CleanupPosts(a) PROVE IInv' /\ RulesRight'
<1>1. /\ cleanup.phase = "posts" /\ a \in cleanup.half
      /\ cleanup' = [cleanup EXCEPT !.phase = "delete", !.half = {}]
      /\ loginPosts' = [loginPosts EXCEPT ![a] = <<>>]
      /\ UNCHANGED <<now, known, reqWindow, notFound, evaluation, raised, history>>
  BY DEF CleanupPosts
<1>2. /\ \A b : /\ RowsOf(b)' = RowsOf(b) /\ ArrivedOf(b)' = ArrivedOf(b)
                /\ LoginsOf(b)' = LoginsOf(b) /\ MissingOf(b)' = MissingOf(b)
      /\ \A i, b : LastAndRaced(i, b)' <=> LastAndRaced(i, b)
      /\ Row' = Row /\ At' = At
  BY <1>1, RowsStay
<1>3. RulesRight'
  BY <1>1, RulesStay
<1>4. /\ cleanup \in [phase : {"idle", "scan", "delete", "paths", "posts"}, cutoff : Int, size : Nat,
                      scan : SUBSET Addresses, stale : SUBSET Addresses, half : SUBSET Addresses]
      /\ \A b \in cleanup.half : b = a
  BY <1>1 DEF IInv, CleanupShape
<1>5. /\ cleanup'.phase = "delete" /\ cleanup'.cutoff = cleanup.cutoff /\ cleanup'.half = {}
      /\ cleanup'.stale = cleanup.stale /\ cleanup'.scan = cleanup.scan
      /\ cleanup' \in [phase : {"idle", "scan", "delete", "paths", "posts"}, cutoff : Int, size : Nat,
                       scan : SUBSET Addresses, stale : SUBSET Addresses, half : SUBSET Addresses]
      /\ Cutoff' = Cutoff
  BY <1>1, <1>4 DEF Cutoff
<1>6. /\ loginPosts' \in [Addresses -> Seq(0 .. now)]
      /\ loginPosts'[a] = <<>> /\ \A b \in Addresses : b # a => loginPosts'[b] = loginPosts[b]
  <2>1. loginPosts \in [Addresses -> Seq(0 .. now)] /\ <<>> \in Seq(0 .. now)
    BY DEF IInv, TypeOK
  <2>. QED  BY <2>1, <1>1
<1>7. TypeOK'
  <2>1. \A b \in Addresses : Len(loginPosts'[b]) <= LoginCap
    <3>1. Len(<<>>) <= LoginCap
      OBVIOUS
    <3>. QED  BY <3>1, <1>6 DEF IInv, TypeOK
  <2>. QED  BY <2>1, <1>1, <1>5, <1>6 DEF IInv, TypeOK
<1>8. LastRowIsLast' /\ HistoryInOrder' /\ StaleIsOld' /\ EmptyIsOld' /\ PathsKept'
  <2>1. LastRowIsLast' /\ PathsKept'
    BY <1>1, <1>2 DEF IInv, LastRowIsLast, PathsKept
  <2>2. HistoryInOrder' /\ StaleIsOld' /\ EmptyIsOld'
    BY <1>1, <1>2, <1>5 DEF IInv, HistoryInOrder, StaleIsOld, EmptyIsOld
  <2>. QED  BY <2>1, <2>2
<1>9. EvaluationShape'
  <2>. DEFINE c == Row.addr
  <2>1. ArrivedOf(Row.addr)' = ArrivedOf(c)
    BY <1>2
  <2>2. cleanup.phase # "idle"
    BY <1>1
  <2>. QED  BY <2>1, <2>2, <1>1, <1>2 DEF IInv, EvaluationShape
<1>10. CleanupShape'
  BY <1>1, <1>4, <1>5 DEF IInv, CleanupShape
<1>11. WindowsTrack'
  <2>. SUFFICES ASSUME NEW b \in Addresses
                PROVE  /\ Tracks(reqWindow[b], ArrivedOf(b), history, now, Minute, WindowCap)
                       /\ Tracks(loginPosts'[b], LoginsOf(b), history, now, Hour, LoginCap)
    BY <1>1, <1>2 DEF WindowsTrack
  <2>1. /\ Tracks(reqWindow[b], ArrivedOf(b), history, now, Minute, WindowCap)
        /\ Tracks(loginPosts[b], LoginsOf(b), history, now, Hour, LoginCap)
    BY DEF IInv, WindowsTrack
  <2>2. Tracks(<<>>, LoginsOf(a), history, now, Hour, LoginCap)
    <3>1. \A i \in RowsOf(a) : ~history[i].racing => ~(history[i].at >= now - Hour)
      BY <1>1, OldRows
    <3>2. \A i \in LoginsOf(a) : ~history[i].racing => ~(history[i].at >= now - Hour)
      BY <3>1 DEF LoginsOf
    <3>. QED  BY <3>2, TracksNothing
  <2>. QED  BY <2>1, <2>2, <1>6
<1>12. LeaksAreRaced'
  <2>1. ASSUME NEW b PROVE PathLeak(b) => PathLeak(b)'
    BY <1>1, <1>2 DEF PathLeak
  <2>2. PostLeak(a)'
    BY <1>6 DEF PostLeak
  <2>3. ASSUME NEW b \in Addresses, b # a PROVE PostLeak(b) => PostLeak(b)'
    BY <2>3, <1>1, <1>2, <1>6 DEF PostLeak
  <2>. QED  BY <2>1, <2>2, <2>3, <1>1, <1>4, <1>5 DEF IInv, LeaksAreRaced
<1>. QED  BY <1>3, <1>7, <1>8, <1>9, <1>10, <1>11, <1>12 DEF IInv

\* Every step keeps the invariant, and what the rules have said.
LEMMA InvNext == ASSUME IInv, RulesRight, [Next]_vars PROVE IInv' /\ RulesRight'
<1>1. ASSUME NEW r \in Requests, Begin(r) PROVE IInv' /\ RulesRight'
  BY <1>1, BeginKeeps
<1>2. CASE CountRequest
  BY <1>2, CountRequestKeeps
<1>3. CASE AddPath
  BY <1>3, AddPathKeeps
<1>4. CASE CountPaths
  BY <1>4, CountPathsKeeps
<1>5. CASE CountPost
  BY <1>5, CountPostKeeps
<1>6. CASE Tick
  BY <1>6, TickKeeps
<1>7. CASE CleanupStart
  BY <1>7, CleanupStartKeeps
<1>8. CASE CleanupFails \/ CleanupScanned \/ CleanupEnd
  BY <1>8, CleanupMovesOn
<1>9. ASSUME NEW a \in Addresses, CleanupScan(a) PROVE IInv' /\ RulesRight'
  BY <1>9, CleanupScanKeeps
<1>10. ASSUME NEW a \in Addresses, CleanupDelete(a) PROVE IInv' /\ RulesRight'
  BY <1>10, CleanupDeleteKeeps
<1>11. ASSUME NEW a \in Addresses, CleanupPaths(a) PROVE IInv' /\ RulesRight'
  BY <1>11, CleanupPathsKeeps
<1>12. ASSUME NEW a \in Addresses, CleanupPosts(a) PROVE IInv' /\ RulesRight'
  BY <1>12, CleanupPostsKeeps
<1>13. CASE UNCHANGED vars
  <2>1. UNCHANGED <<now, known, reqWindow, notFound, loginPosts, evaluation, cleanup, raised, history>>
    BY <1>13 DEF vars, windows
  <2>2. RulesRight'
    BY <2>1, RulesStay
  <2>3. /\ \A b : /\ RowsOf(b)' = RowsOf(b) /\ ArrivedOf(b)' = ArrivedOf(b)
                  /\ LoginsOf(b)' = LoginsOf(b) /\ MissingOf(b)' = MissingOf(b)
        /\ \A i, b : LastAndRaced(i, b)' <=> LastAndRaced(i, b)
        /\ Row' = Row /\ At' = At
    BY <2>1, RowsStay
  <2>. DEFINE c == Row.addr
  <2>4. ArrivedOf(Row.addr)' = ArrivedOf(c)
    BY <2>3
  <2>5. TypeOK' /\ HistoryInOrder' /\ WindowsTrack' /\ LastRowIsLast'
    BY <2>1, <2>3 DEF IInv, TypeOK, HistoryInOrder, WindowsTrack, LastRowIsLast
  <2>6. CleanupShape' /\ StaleIsOld' /\ EmptyIsOld' /\ PathsKept' /\ LeaksAreRaced'
    BY <2>1, <2>3 DEF IInv, CleanupShape, StaleIsOld, EmptyIsOld, Cutoff, PathsKept, LeaksAreRaced,
                      PathLeak, PostLeak
  <2>7. EvaluationShape'
    BY <2>1, <2>3, <2>4 DEF IInv, EvaluationShape
  <2>. QED  BY <2>2, <2>5, <2>6, <2>7 DEF IInv
<1>. QED  BY <1>1, <1>2, <1>3, <1>4, <1>5, <1>6, <1>7, <1>8, <1>9, <1>10, <1>11, <1>12, <1>13 DEF Next

LEMMA InvAlways == Spec => [](IInv /\ RulesRight)
<1>1. Init => IInv /\ RulesRight
  BY InvInit
<1>2. IInv /\ RulesRight /\ [Next]_vars => IInv' /\ RulesRight'
  BY InvNext
<1>. QED  BY <1>1, <1>2, PTL DEF Spec
-----------------------------------------------------------------------------

\* The windows stay within their limits, and hold times; a window that is not empty is that
\* of an address the cleanup finds.
THEOREM WindowsTyped == Spec => []TypeOK
<1>1. IInv => TypeOK
  BY DEF IInv
<1>. QED  BY <1>1, InvAlways, PTL

\* The rate limit counts the requests of the last minute, whatever the deque dropped, the
\* window expired and a cleanup forgot between any two of its steps; a threshold above the
\* deque's length never fires.
THEOREM RateRuleHolds == Spec => []RateRuleExact
<1>1. RulesRight => RateRuleExact
  BY DEF RulesRight, RateSoFar, RateRuleExact, Evaluated
<1>. QED  BY <1>1, InvAlways, PTL

\* The login rule counts the posts of the last hour.
THEOREM LoginRuleHolds == Spec => []LoginRuleExact
<1>1. RulesRight => LoginRuleExact
  BY DEF RulesRight
<1>. QED  BY <1>1, InvAlways, PTL

\* The scan rule misses no address.
THEOREM ScanRuleHolds == Spec => []ScanRuleMissesNone
<1>1. RulesRight => ScanRuleMissesNone
  BY DEF RulesRight, ScanSoFar, ScanRuleMissesNone, Evaluated
<1>. QED  BY <1>1, InvAlways, PTL

\* What a cleanup leaves behind of an address is what one row wrote while it ran.
THEOREM LeaksAreRows == Spec => []OnlyRacesLeak
<1>1. IInv => OnlyRacesLeak
  BY DEF IInv, LeaksAreRaced, PathLeak, PostLeak, OnlyRacesLeak, LoginsOf, RowsOf
<1>. QED  BY <1>1, InvAlways, PTL
=============================================================================
