-------------------------- MODULE RequestLogProofs --------------------------
(***************************************************************************)
(* That the aggregates of the scheduler count every request that came in   *)
(* time and none twice, that the log is paged without skipping any, and    *)
(* that the panels of the console agree, for every set of rows, every      *)
(* order of their arrival, every schedule and every moment.                *)
(***************************************************************************)
EXTENDS RequestLog, FiniteSetTheorems, WellFoundedInduction, TLAPS

USE DEF Hour

\* The tables hold what came in and was not purged; in time means within the minute.
LogInv ==
  /\ now \in Nat
  /\ requests \subseteq ever /\ late \subseteq ever /\ ever \subseteq Rows
  /\ \A r \in ever \ requests : r.ts < now - Retention

\* What has been aggregated is over: nothing that comes in time can belong to it.
BucketsAreOver ==
  /\ \A k \in DOMAIN stats_minutely : k[1] < now
  /\ \A k \in DOMAIN stats_hourly : k[1] * Hour + Hour <= now

\* The requests a key of the aggregates stands for, and what its figure may be.
OfMinute(k) == {r \in ever : r.ts = k[1] /\ r.host = k[2]}
OfHour(k) == {r \in ever : r.ts \div Hour = k[1] /\ r.host = k[2]}
Within(n, R) == Cardinality(R \ late) <= n /\ n <= Cardinality(R)

KeysAreTimes ==
  /\ \A k \in DOMAIN stats_minutely : k[1] \in Int /\ stats_minutely[k] \in Nat
  /\ \A k \in DOMAIN stats_hourly : k[1] \in Int /\ stats_hourly[k] \in Nat

StatsInv ==
  /\ LogInv /\ KeysAreTimes /\ BucketsAreOver
  /\ \A k \in DOMAIN stats_minutely : Within(stats_minutely[k], OfMinute(k))
  /\ \A k \in DOMAIN stats_hourly : Within(stats_hourly[k], OfHour(k))

-----------------------------------------------------------------------------

\* A part of the rows has no more elements than the whole.
LEMMA FewerRows ==
  ASSUME NEW S, NEW T, S \subseteq T, T \subseteq Rows
  PROVE  /\ Cardinality(S) \in Nat /\ Cardinality(T) \in Nat
         /\ Cardinality(S) <= Cardinality(T)
<1>1. IsFiniteSet(T)
  BY FS_Subset, RowsHaveTimes
<1>. QED  BY <1>1, FS_Subset, FS_CardinalityType

LEMMA LogInit == Init => LogInv
BY DEF Init, LogInv

LEMMA LogNext == LogInv /\ [Next]_vars => LogInv'
<1>. SUFFICES ASSUME LogInv, [Next]_vars PROVE LogInv'
  OBVIOUS
<1>. USE RowsHaveTimes, RetentionCoversHours DEF LogInv
<1>1. CASE UNCHANGED vars
  BY <1>1 DEF vars
<1>2. ASSUME NEW r \in Rows, Insert(r) PROVE LogInv'
  BY <1>2 DEF Insert
<1>3. ASSUME NEW e \in Events, InsertEvent(e) PROVE LogInv'
  BY <1>3 DEF InsertEvent
<1>4. CASE Tick
  BY <1>4 DEF Tick
<1>5. CASE Purge
  BY <1>5 DEF Purge
<1>6. CASE Jobs
  BY <1>6 DEF Jobs, AggregateMinutely, RunHourly
<1>. QED  BY <1>1, <1>2, <1>3, <1>4, <1>5, <1>6 DEF Next, Arrivals

\* Reading the log page by page never skips a request: its place only moves back
\* (query_requests_page under insert_request and purge_old_data).
THEOREM PagesSkipNone == Spec => RowsMoveBackOnly
<1>1. LogInv /\ [Next]_vars =>
        [\A r \in requests \cap requests' : Rank(r, requests') >= Rank(r, requests)]_vars
  <2>. SUFFICES ASSUME LogInv, [Next]_vars, NEW r \in requests \cap requests'
                PROVE Rank(r, requests') >= Rank(r, requests)
    OBVIOUS
  <2>. DEFINE newer == {q \in requests : q.ts > r.ts}
              newerThen == {q \in requests' : q.ts > r.ts}
  <2>1. requests' \subseteq Rows
    BY LogNext DEF LogInv
  <2>2. newer \subseteq newerThen
    <3>1. CASE requests \subseteq requests'
      BY <3>1
    <3>2. CASE Purge
      BY <3>2, RowsHaveTimes, RetentionCoversHours DEF Purge, LogInv
    <3>. QED
      BY <3>1, <3>2 DEF Next, Arrivals, Jobs, Insert, InsertEvent, Tick, AggregateMinutely,
        RunHourly, vars
  <2>3. /\ Cardinality(newer) \in Nat /\ Cardinality(newerThen) \in Nat
        /\ Cardinality(newer) <= Cardinality(newerThen)
    BY <2>1, <2>2, FewerRows
  <2>. QED  BY <2>3 DEF Rank
<1>. QED  BY <1>1, LogInit, LogNext, PTL DEF Spec, RowsMoveBackOnly

-----------------------------------------------------------------------------

LEMMA StatsInit == Init => StatsInv
BY LogInit DEF Init, StatsInv, KeysAreTimes, BucketsAreOver, NoStats

\* Steps that add no figure: they leave those they keep, and the rows they stand for.
LEMMA StatsKept ==
  ASSUME StatsInv, LogInv', now <= now', ever' = ever, late' = late,
         \A k \in DOMAIN stats_minutely' :
           k \in DOMAIN stats_minutely /\ stats_minutely'[k] = stats_minutely[k],
         \A k \in DOMAIN stats_hourly' :
           k \in DOMAIN stats_hourly /\ stats_hourly'[k] = stats_hourly[k]
  PROVE  StatsInv'
<1>1. now \in Nat /\ now' \in Nat
  BY DEF StatsInv, LogInv
<1>2. KeysAreTimes'
  BY DEF StatsInv, KeysAreTimes
<1>3. BucketsAreOver'
  BY <1>1 DEF StatsInv, KeysAreTimes, BucketsAreOver
<1>. QED  BY <1>2, <1>3 DEF StatsInv, Within, OfMinute, OfHour

\* A request that comes in time is in no bucket yet; a late one is not promised.
LEMMA StatsInsert ==
  ASSUME StatsInv, LogInv', NEW r \in Rows, Insert(r) PROVE StatsInv'
<1>. USE RowsHaveTimes
<1>1. UNCHANGED <<now, stats_minutely, stats_hourly>>
  BY DEF Insert
<1>2. ASSUME NEW R, NEW R2, R \subseteq R2, R2 \subseteq Rows, R2 \ late' \subseteq R \ late,
             NEW n \in Nat, Within(n, R)
      PROVE  (Cardinality(R2 \ late') <= n /\ n <= Cardinality(R2))
  <2>1. /\ Cardinality(R2 \ late') \in Nat /\ Cardinality(R \ late) \in Nat
        /\ Cardinality(R2 \ late') <= Cardinality(R \ late)
    BY <1>2, FewerRows
  <2>2. /\ Cardinality(R) \in Nat /\ Cardinality(R2) \in Nat
        /\ Cardinality(R) <= Cardinality(R2)
    BY <1>2, FewerRows
  <2>. QED  BY <1>2, <2>1, <2>2 DEF Within
<1>3. ASSUME NEW k \in DOMAIN stats_minutely PROVE Within(stats_minutely[k], OfMinute(k))'
  <2>1. OfMinute(k) \subseteq OfMinute(k)' /\ OfMinute(k)' \subseteq Rows
    BY DEF OfMinute, Insert, StatsInv, LogInv
  <2>2. OfMinute(k)' \ late' \subseteq OfMinute(k) \ late
    BY DEF OfMinute, Insert, StatsInv, LogInv, BucketsAreOver, KeysAreTimes
  <2>. QED  BY <1>1, <1>2, <2>1, <2>2 DEF StatsInv, KeysAreTimes, Within
<1>4. ASSUME NEW k \in DOMAIN stats_hourly PROVE Within(stats_hourly[k], OfHour(k))'
  <2>1. OfHour(k) \subseteq OfHour(k)' /\ OfHour(k)' \subseteq Rows
    BY DEF OfHour, Insert, StatsInv, LogInv
  <2>2. OfHour(k)' \ late' \subseteq OfHour(k) \ late
    BY DEF OfHour, Insert, StatsInv, LogInv, BucketsAreOver, KeysAreTimes
  <2>. QED  BY <1>1, <1>2, <2>1, <2>2 DEF StatsInv, KeysAreTimes, Within
<1>. QED  BY <1>1, <1>3, <1>4 DEF StatsInv, KeysAreTimes, BucketsAreOver

\* The figures of a bucket that is over and not older than the rows that are kept.
LEMMA AggregateCounts ==
  ASSUME StatsInv, NEW bucket \in Int, NEW from \in Int, NEW to \in Int,
         from >= now - Retention,
         NEW k \in DOMAIN Aggregate(bucket, from, to), NEW R,
         R = {r \in ever : from <= r.ts /\ r.ts < to /\ r.host = k[2]}
  PROVE  /\ k[1] = bucket
         /\ Aggregate(bucket, from, to)[k] \in Nat
         /\ Within(Aggregate(bucket, from, to)[k], R)
<1>. DEFINE kept == {r \in requests : from <= r.ts /\ r.ts < to}
            mine == {r \in kept : r.host = k[2]}
<1>1. k[1] = bucket /\ Aggregate(bucket, from, to)[k] = Cardinality(mine)
  BY DEF Aggregate
<1>2. mine \subseteq R /\ R \subseteq Rows
  BY DEF StatsInv, LogInv
<1>3. R \ late \subseteq mine
  BY RowsHaveTimes, RetentionCoversHours DEF StatsInv, LogInv
<1>4. /\ Cardinality(R \ late) \in Nat /\ Cardinality(mine) \in Nat /\ Cardinality(R) \in Nat
      /\ Cardinality(R \ late) <= Cardinality(mine) /\ Cardinality(mine) <= Cardinality(R)
  BY <1>2, <1>3, FewerRows
<1>. QED  BY <1>1, <1>4 DEF Within

LEMMA StatsMinutely == StatsInv /\ AggregateMinutely => StatsInv'
<1>. SUFFICES ASSUME StatsInv, AggregateMinutely PROVE StatsInv'
  OBVIOUS
<1>. DEFINE new == Aggregate(now - 1, now - 1, now)
<1>0. now \in Nat /\ now - 1 >= now - Retention
  BY RetentionCoversHours DEF StatsInv, LogInv
<1>1. ASSUME NEW k \in DOMAIN new
      PROVE k[1] = now - 1 /\ new[k] \in Nat /\ Within(new[k], OfMinute(k))
  <2>. DEFINE R == {r \in ever : now - 1 <= r.ts /\ r.ts < now /\ r.host = k[2]}
  <2>1. k[1] = now - 1 /\ new[k] \in Nat /\ Within(new[k], R)
    BY <1>0, AggregateCounts
  <2>2. \A r \in ever : r.ts \in Nat
    BY RowsHaveTimes DEF StatsInv, LogInv
  <2>3. R = OfMinute(k)
    BY <1>0, <2>1, <2>2 DEF OfMinute
  <2>. QED  BY <2>1, <2>3
<1>2. UNCHANGED <<now, requests, ever, late, stats_hourly>> /\ stats_minutely' = Replace(new, stats_minutely)
  BY DEF AggregateMinutely
<1>. HIDE DEF new
<1>3. \A k \in DOMAIN stats_minutely' :
        /\ k[1] \in Int /\ k[1] < now /\ stats_minutely'[k] \in Nat
        /\ Within(stats_minutely'[k], OfMinute(k))
  BY <1>0, <1>1, <1>2 DEF Replace, StatsInv, KeysAreTimes, BucketsAreOver
<1>. QED
  BY <1>2, <1>3 DEF StatsInv, LogInv, KeysAreTimes, BucketsAreOver, Within, OfMinute, OfHour

LEMMA StatsHourly == StatsInv /\ RunHourly => StatsInv'
<1>. SUFFICES ASSUME StatsInv, RunHourly PROVE StatsInv'
  OBVIOUS
<1>. DEFINE hour == now \div Hour - 1
            new == Aggregate(hour, hour * Hour, hour * Hour + Hour)
<1>0. /\ now \in Nat /\ hour \in Int
      /\ hour * Hour >= now - Retention /\ hour * Hour + Hour <= now
  BY RetentionCoversHours DEF StatsInv, LogInv
<1>1. ASSUME NEW k \in DOMAIN new
      PROVE k[1] = hour /\ new[k] \in Nat /\ Within(new[k], OfHour(k))
  <2>. DEFINE R == {r \in ever : hour * Hour <= r.ts /\ r.ts < hour * Hour + Hour /\ r.host = k[2]}
  <2>. HIDE DEF hour
  <2>1. k[1] = hour /\ new[k] \in Nat /\ Within(new[k], R)
    BY <1>0, AggregateCounts
  <2>2. \A r \in ever : r.ts \in Nat
    BY RowsHaveTimes DEF StatsInv, LogInv
  <2>3. \A x \in Nat : (hour * Hour <= x /\ x < hour * Hour + Hour) <=> x \div Hour = hour
    BY <1>0
  <2>4. R = OfHour(k)
    BY <2>1, <2>2, <2>3 DEF OfHour
  <2>. QED  BY <2>1, <2>4
<1>2. UNCHANGED <<now, requests, ever, late, stats_minutely>> /\ stats_hourly' = Replace(new, stats_hourly)
  BY DEF RunHourly
<1>. HIDE DEF new, hour
<1>3. \A k \in DOMAIN stats_hourly' :
        /\ k[1] \in Int /\ k[1] * Hour + Hour <= now /\ stats_hourly'[k] \in Nat
        /\ Within(stats_hourly'[k], OfHour(k))
  BY <1>0, <1>1, <1>2 DEF Replace, StatsInv, KeysAreTimes, BucketsAreOver
<1>. QED
  BY <1>2, <1>3 DEF StatsInv, LogInv, KeysAreTimes, BucketsAreOver, Within, OfMinute, OfHour

LEMMA StatsNext == StatsInv /\ [Next]_vars => StatsInv'
<1>. SUFFICES ASSUME StatsInv, [Next]_vars PROVE StatsInv'
  OBVIOUS
<1>0. LogInv' /\ now \in Nat
  BY LogNext DEF StatsInv, LogInv
<1>1. CASE UNCHANGED vars
  BY <1>0, <1>1, StatsKept DEF vars
<1>2. ASSUME NEW r \in Rows, Insert(r) PROVE StatsInv'
  BY <1>0, <1>2, StatsInsert
<1>3. ASSUME NEW e \in Events, InsertEvent(e) PROVE StatsInv'
  BY <1>0, <1>3, StatsKept DEF InsertEvent
<1>4. CASE Tick
  BY <1>0, <1>4, StatsKept DEF Tick
<1>5. CASE Purge
  BY <1>0, <1>5, StatsKept DEF Purge, Restrict
<1>6. CASE Jobs
  BY <1>6, StatsMinutely, StatsHourly DEF Jobs
<1>. QED  BY <1>1, <1>2, <1>3, <1>4, <1>5, <1>6 DEF Next, Arrivals

\* A row of the aggregates counts every request of its minute or hour that came in time and
\* none twice, however often and late the jobs run (aggregate_minutely, _run_hourly).
THEOREM AggregatesAreRight == Spec => []AggregatesCountOnce
<1>1. StatsInv => AggregatesCountOnce
  BY DEF StatsInv, Within, OfMinute, OfHour, AggregatesCountOnce
<1>. QED  BY <1>1, StatsInit, StatsNext, PTL DEF Spec

\* An aggregate has a key only for a minute or an hour that had a request.
LEMMA AggregateKeys ==
  ASSUME LogInv, TypeOK, NEW bucket \in Int, NEW from \in Int, NEW to \in Int, bucket <= now,
         to > 0 => bucket >= 0
  PROVE  DOMAIN Aggregate(bucket, from, to) \subseteq (0 .. MaxNow) \X Hosts
<1>. SUFFICES ASSUME NEW r \in requests, from <= r.ts, r.ts < to
              PROVE  <<bucket, r.host>> \in (0 .. MaxNow) \X Hosts
  BY DEF Aggregate
<1>1. r \in Rows /\ r.ts \in Nat
  BY RowsHaveTimes DEF LogInv
<1>2. r.host \in Hosts
  BY <1>1 DEF Hosts, Values
<1>3. bucket \in 0 .. MaxNow
  BY <1>1, LastMinute DEF TypeOK
<1>. QED  BY <1>2, <1>3

\* The tables hold what came in, and the aggregates have keys of minutes and hours that
\* have been, whatever is inserted late, aggregated twice or purged (duckdb_manager.py).
THEOREM TablesTyped == Spec => []TypeOK
<1>1. Init => LogInv /\ TypeOK
  BY LogInit, LastMinute DEF Init, TypeOK, NoStats
<1>2. LogInv /\ TypeOK /\ [Next]_vars => LogInv' /\ TypeOK'
  <2>. SUFFICES ASSUME LogInv, TypeOK, [Next]_vars PROVE TypeOK'
    BY LogNext
  <2>1. CASE UNCHANGED vars
    BY <2>1 DEF vars, TypeOK
  <2>2. ASSUME NEW r \in Rows, Insert(r) PROVE TypeOK'
    BY <2>2 DEF Insert, TypeOK
  <2>3. ASSUME NEW e \in Events, InsertEvent(e) PROVE TypeOK'
    BY <2>3 DEF InsertEvent, TypeOK
  <2>4. CASE Tick
    BY <2>4, LastMinute DEF Tick, TypeOK
  <2>5. CASE Purge
    BY <2>5 DEF Purge, TypeOK, Restrict
  <2>6. CASE AggregateMinutely
    <3>1. DOMAIN Aggregate(now - 1, now - 1, now) \subseteq (0 .. MaxNow) \X Hosts
      BY AggregateKeys DEF LogInv
    <3>2. DOMAIN stats_minutely' = DOMAIN Aggregate(now - 1, now - 1, now) \cup DOMAIN stats_minutely
      BY <2>6 DEF AggregateMinutely, Replace
    <3>. QED  BY <2>6, <3>1, <3>2 DEF AggregateMinutely, TypeOK
  <2>7. CASE RunHourly
    <3>. DEFINE hour == now \div Hour - 1
    <3>1. hour \in Int /\ hour <= now /\ (hour * Hour + Hour > 0 => hour >= 0)
      BY DEF LogInv
    <3>2. hour * Hour \in Int /\ hour * Hour + Hour \in Int
      BY <3>1
    <3>. HIDE DEF hour
    <3>3. DOMAIN Aggregate(hour, hour * Hour, hour * Hour + Hour) \subseteq (0 .. MaxNow) \X Hosts
      BY <3>1, <3>2, AggregateKeys
    <3>4. stats_hourly' = Replace(Aggregate(hour, hour * Hour, hour * Hour + Hour), stats_hourly)
      BY <2>7 DEF RunHourly, hour
    <3>5. DOMAIN stats_hourly' \subseteq (0 .. MaxNow) \X Hosts
      BY <3>3, <3>4 DEF Replace, TypeOK
    <3>. QED  BY <2>7, <3>5 DEF RunHourly, TypeOK
  <2>. QED  BY <2>1, <2>2, <2>3, <2>4, <2>5, <2>6, <2>7 DEF Next, Arrivals, Jobs
<1>. QED  BY <1>1, <1>2, PTL DEF Spec

-----------------------------------------------------------------------------
(* Pages of a list. *)

\* A list that can be ordered by time.
Timed(S) == IsFiniteSet(S) /\ \A r \in S : r.ts \in Nat /\ \A q \in S : r.ts = q.ts => r = q

Later(r, S) == {q \in S : q.ts > r.ts}

\* The place of a row is one of the list's, and no two have the same.
LEMMA PlaceInList ==
  ASSUME NEW S, Timed(S)
  PROVE  /\ Cardinality(S) \in Nat
         /\ \A r \in S : Rank(r, S) \in 1 .. Cardinality(S)
         /\ \A r, q \in S : Rank(r, S) = Rank(q, S) => r = q
<1>0. IsFiniteSet(S) /\ Cardinality(S) \in Nat
  BY FS_CardinalityType DEF Timed
<1>1. ASSUME NEW r \in S
      PROVE  IsFiniteSet(Later(r, S)) /\ Cardinality(Later(r, S)) \in Nat
             /\ Rank(r, S) = Cardinality(Later(r, S)) + 1
  <2>1. Later(r, S) \in SUBSET S
    BY DEF Later
  <2>. QED  BY <1>0, <2>1, FS_Subset, FS_CardinalityType DEF Rank, Later
<1>2. ASSUME NEW r \in S PROVE Rank(r, S) \in 1 .. Cardinality(S)
  <2>1. IsFiniteSet(S \ {r}) /\ Cardinality(S \ {r}) = Cardinality(S) - 1
    BY <1>0, FS_RemoveElement
  <2>2. Later(r, S) \in SUBSET (S \ {r})
    BY DEF Later, Timed
  <2>3. Cardinality(Later(r, S)) <= Cardinality(S) - 1
    BY <2>1, <2>2, FS_Subset
  <2>. QED  BY <1>0, <1>1, <2>3
<1>3. ASSUME NEW r \in S, NEW q \in S, r.ts < q.ts PROVE Rank(q, S) < Rank(r, S)
  <2>1. q \notin Later(q, S) /\ Later(q, S) \cup {q} \in SUBSET Later(r, S)
    BY <1>3 DEF Later, Timed
  <2>2. Cardinality(Later(q, S) \cup {q}) = Cardinality(Later(q, S)) + 1
    BY <1>1, <2>1, FS_AddElement
  <2>3. Cardinality(Later(q, S) \cup {q}) <= Cardinality(Later(r, S))
    BY <1>1, <2>1, FS_Subset
  <2>. QED  BY <1>1, <2>2, <2>3
<1>4. ASSUME NEW r \in S, NEW q \in S, Rank(r, S) = Rank(q, S) PROVE r = q
  <2>1. r.ts \in Nat /\ q.ts \in Nat /\ Rank(r, S) \in Nat
    BY <1>2 DEF Timed
  <2>2. ~(r.ts < q.ts) /\ ~(q.ts < r.ts)
    BY <1>3, <1>4, <2>1
  <2>3. r.ts = q.ts
    BY <2>1, <2>2
  <2>. QED  BY <2>3 DEF Timed
<1>. QED  BY <1>0, <1>2, <1>4

\* As many rows as places: every place is a row's.
LEMMA PlaceIsTaken ==
  ASSUME NEW S, Timed(S), NEW i \in 1 .. Cardinality(S)
  PROVE  \E r \in S : Rank(r, S) = i
<1>. DEFINE n == Cardinality(S)
            place == [r \in S |-> Rank(r, S)]
<1>1. n \in Nat /\ IsFiniteSet(S)
  BY PlaceInList DEF Timed
<1>2. IsFiniteSet(1 .. n) /\ Cardinality(1 .. n) = n
  BY <1>1, FS_Interval
<1>3. place \in Injection(S, 1 .. n)
  BY PlaceInList DEF Injection, IsInjective
<1>4. place \in Surjection(S, 1 .. n)
  BY <1>2, <1>3, FS_Injection
<1>. QED  BY <1>4 DEF Surjection

\* The rows from one place to another are as many as the places.
LEMMA PlacesBetween ==
  ASSUME NEW S, Timed(S), NEW a \in Nat, NEW b \in Nat, a <= b, b <= Cardinality(S)
  PROVE  Cardinality({r \in S : a < Rank(r, S) /\ Rank(r, S) <= b}) = b - a
<1>. DEFINE P == {r \in S : a < Rank(r, S) /\ Rank(r, S) <= b}
            T == a + 1 .. b
            place == [r \in P |-> Rank(r, S)]
<1>1. IsFiniteSet(P)
  BY FS_Subset DEF Timed
<1>2. Cardinality(T) = b - a
  <2>1. a + 1 \in Int /\ b \in Int /\ (a + 1 > b => b - a = 0)
    OBVIOUS
  <2>2. Cardinality(a + 1 .. b) = IF a + 1 > b THEN 0 ELSE b - (a + 1) + 1
    BY <2>1, FS_Interval
  <2>. QED  BY <2>1, <2>2
<1>3. \A r \in P : Rank(r, S) \in T
  BY PlaceInList
<1>4. \A i \in T : \E r \in P : Rank(r, S) = i
  <2>. TAKE i \in T
  <2>1. i \in 1 .. Cardinality(S) /\ a < i /\ i <= b
    BY PlaceInList
  <2>. QED  BY <2>1, PlaceIsTaken
<1>5. place \in Bijection(P, T)
  <2>1. \A r, q \in P : Rank(r, S) = Rank(q, S) => r = q
    BY PlaceInList
  <2>. HIDE DEF P, T
  <2>. QED  BY <1>3, <1>4, <2>1 DEF Bijection, Injection, Surjection, IsInjective
<1>. HIDE DEF P, T, place
<1>6. ExistsBijection(P, T)
  BY <1>5 DEF ExistsBijection
<1>7. Cardinality(P) = b - a
  BY <1>1, <1>2, <1>6, FS_Bijection
<1>. QED  BY <1>7 DEF P

LEMMA PageBounds ==
  ASSUME NEW n \in Nat, NEW L \in Nat \ {0}
  PROVE  /\ TotalPages(n, L) \in Nat
         /\ \A p \in 1 .. TotalPages(n, L) : (p - 1) * L \in Nat /\ (p - 1) * L < n
         /\ \A i \in 1 .. n : \E p \in 1 .. TotalPages(n, L) : (p - 1) * L < i /\ i <= p * L
<1>. DEFINE last == TotalPages(n, L)
<1>1. last \in Nat /\ L * last <= n + L - 1 /\ n + L - 1 < L * last + L
  BY DEF TotalPages
<1>. HIDE DEF last
<1>2. ASSUME NEW p \in 1 .. last PROVE (p - 1) * L \in Nat /\ (p - 1) * L < n
  BY <1>1
<1>3. ASSUME NEW i \in 1 .. n PROVE \E p \in 1 .. last : (p - 1) * L < i /\ i <= p * L
  <2>. DEFINE k == (i - 1) \div L
  <2>1. k \in Nat /\ L * k <= i - 1 /\ i - 1 < L * k + L
    OBVIOUS
  <2>. HIDE DEF k
  <2>2. k < last
    BY <1>1, <2>1
  <2>3. k + 1 \in 1 .. last /\ ((k + 1) - 1) * L < i /\ i <= (k + 1) * L
    BY <1>1, <2>1, <2>2
  <2>. QED  BY <2>3
<1>. QED  BY <1>1, <1>2, <1>3 DEF last

\* Pages share no row.
LEMMA PagesApart ==
  ASSUME NEW S, Timed(S), NEW L \in Nat, NEW p \in Nat, NEW q \in Nat, p < q
  PROVE  PageOf(S, p, L) \cap PageOf(S, q, L) = {}
<1>. SUFFICES ASSUME NEW r \in PageOf(S, p, L), r \in PageOf(S, q, L) PROVE FALSE
  OBVIOUS
<1>1. r \in S /\ Rank(r, S) <= p * L /\ (q - 1) * L < Rank(r, S)
  BY DEF PageOf
<1>2. Rank(r, S) \in Nat
  BY <1>1, PlaceInList
<1>3. p * L \in Nat /\ (q - 1) * L \in Nat /\ p * L <= (q - 1) * L
  OBVIOUS
<1>. QED  BY <1>1, <1>2, <1>3

\* The pages of a list are all of it, and each but the last is full.
LEMMA PagesAreList ==
  ASSUME NEW S, Timed(S), NEW L \in Nat \ {0}
  PROVE  LET n == Cardinality(S) IN
         /\ UNION {PageOf(S, p, L) : p \in 1 .. TotalPages(n, L)} = S
         /\ \A p \in 1 .. TotalPages(n, L) :
              /\ n > 0
              /\ Cardinality(PageOf(S, p, L)) = (IF p * L < n THEN p * L ELSE n) - (p - 1) * L
<1>. DEFINE n == Cardinality(S)
<1>0. n \in Nat
  BY PlaceInList
<1>1. ASSUME NEW r \in S PROVE \E p \in 1 .. TotalPages(n, L) : r \in PageOf(S, p, L)
  <2>1. Rank(r, S) \in 1 .. n
    BY PlaceInList
  <2>2. PICK p \in 1 .. TotalPages(n, L) : (p - 1) * L < Rank(r, S) /\ Rank(r, S) <= p * L
    BY <1>0, <2>1, PageBounds
  <2>. QED  BY <2>2 DEF PageOf
<1>2. \A p : PageOf(S, p, L) \subseteq S
  BY DEF PageOf
<1>3. ASSUME NEW p \in 1 .. TotalPages(n, L)
      PROVE  n > 0 /\ Cardinality(PageOf(S, p, L)) = (IF p * L < n THEN p * L ELSE n) - (p - 1) * L
  <2>. DEFINE a == (p - 1) * L
              b == IF p * L < n THEN p * L ELSE n
  <2>1. a \in Nat /\ a < n
    BY <1>0, PageBounds
  <2>2. p \in Nat /\ p * L \in Nat /\ a <= p * L
    BY <1>0, PageBounds
  <2>3. b \in Nat /\ a <= b /\ b <= n
    BY <1>0, <2>1, <2>2
  <2>4. PageOf(S, p, L) = {r \in S : a < Rank(r, S) /\ Rank(r, S) <= b}
    <3>1. \A r \in S : Rank(r, S) \in 1 .. n
      BY PlaceInList
    <3>2. \A i \in 1 .. n : i <= p * L <=> i <= b
      BY <1>0, <2>2
    <3>. HIDE DEF n, a, b
    <3>. QED  BY <3>1, <3>2 DEF PageOf, a
  <2>. HIDE DEF a, b
  <2>5. Cardinality(PageOf(S, p, L)) = b - a
    BY <2>1, <2>3, <2>4, PlacesBetween
  <2>. QED  BY <1>0, <2>1, <2>5 DEF a, b
<1>. HIDE DEF n
<1>4. UNION {PageOf(S, p, L) : p \in 1 .. TotalPages(n, L)} = S
  BY <1>1, <1>2
<1>. QED  BY <1>3, <1>4 DEF n

-----------------------------------------------------------------------------
(* Answers with a limit.                                                   *)

\* So many of what there is, and all of it only when there is no more.
LEMMA LeadingSize ==
  ASSUME NEW key, IsFiniteSet(DOMAIN key), NEW limit \in Nat, NEW K \in Leading(key, limit)
  PROVE  /\ K \subseteq DOMAIN key /\ IsFiniteSet(K)
         /\ Cardinality(DOMAIN key) \in Nat /\ Cardinality(K) \in Nat
         /\ Cardinality(K) = IF Cardinality(DOMAIN key) < limit THEN Cardinality(DOMAIN key) ELSE limit
         /\ K = DOMAIN key <=> Cardinality(DOMAIN key) <= limit
<1>. DEFINE size == Cardinality(DOMAIN key)
<1>1. K \in SUBSET DOMAIN key /\ Cardinality(K) = IF size < limit THEN size ELSE limit
  BY DEF Leading
<1>2. size \in Nat /\ IsFiniteSet(K) /\ (Cardinality(K) = size => K = DOMAIN key)
  BY <1>1, FS_Subset, FS_CardinalityType
<1>3. Cardinality(K) \in Nat
  BY <1>2, FS_CardinalityType
<1>4. K = DOMAIN key => Cardinality(K) = size
  OBVIOUS
<1>. HIDE DEF size
<1>5. size <= limit <=> Cardinality(K) = size
  BY <1>1, <1>2
<1>. QED  BY <1>1, <1>2, <1>3, <1>4, <1>5 DEF size

\* A row that no other has the time of is among the first by time when its place is.
LEMMA LedByPlace ==
  ASSUME NEW S, IsFiniteSet(S), \A r \in S : r.ts \in Nat, NEW e \in S,
         \A r \in S : r.ts = e.ts => e = r, NEW limit \in Nat,
         NEW K \in Leading([r \in S |-> r.ts], limit)
  PROVE  e \in K <=> Rank(e, S) <= limit
<1>. DEFINE ts == [r \in S |-> r.ts]
            size == Cardinality(S)
<1>1. /\ K \subseteq S /\ IsFiniteSet(K) /\ Cardinality(K) \in Nat /\ size \in Nat
      /\ Cardinality(K) = IF size < limit THEN size ELSE limit
      /\ K = S <=> size <= limit
  <2>1. DOMAIN ts = S
    OBVIOUS
  <2>. HIDE DEF ts
  <2>2. K \in Leading(ts, limit)
    BY DEF ts
  <2>. QED  BY <2>1, <2>2, LeadingSize
<1>2. \A k \in K, j \in S \ K : j.ts <= k.ts
  BY DEF Leading
<1>3. /\ IsFiniteSet(Later(e, S)) /\ Cardinality(Later(e, S)) \in Nat
      /\ Rank(e, S) = Cardinality(Later(e, S)) + 1
  <2>1. Later(e, S) \in SUBSET S
    BY DEF Later
  <2>. QED  BY <2>1, FS_Subset, FS_CardinalityType DEF Rank, Later
<1>. HIDE DEF size
<1>4. ASSUME e \in K PROVE Rank(e, S) <= limit
  <2>1. Later(e, S) \cup {e} \in SUBSET K /\ e \notin Later(e, S)
    BY <1>2, <1>4 DEF Later
  <2>2. Cardinality(Later(e, S) \cup {e}) = Cardinality(Later(e, S)) + 1
    BY <1>3, <2>1, FS_AddElement
  <2>3. Cardinality(Later(e, S) \cup {e}) <= Cardinality(K)
    BY <1>1, <2>1, FS_Subset
  <2>4. Cardinality(K) <= limit
    BY <1>1
  <2>. QED  BY <1>1, <1>3, <2>2, <2>3, <2>4
<1>5. ASSUME e \notin K PROVE limit < Rank(e, S)
  <2>1. K \in SUBSET Later(e, S)
    <3>1. \A k \in K : k \in S /\ k # e /\ e.ts <= k.ts /\ k.ts \in Nat /\ e.ts \in Nat
      BY <1>1, <1>2, <1>5
    <3>2. \A k \in K : k.ts > e.ts
      BY <3>1
    <3>. QED  BY <3>1, <3>2 DEF Later
  <2>2. Cardinality(K) <= Cardinality(Later(e, S))
    BY <1>3, <2>1, FS_Subset
  <2>3. Cardinality(K) = limit
    <3>1. ~(size <= limit)
      BY <1>1, <1>5
    <3>. QED  BY <1>1, <3>1
  <2>. QED  BY <1>1, <1>3, <2>2, <2>3
<1>. QED  BY <1>3, <1>4, <1>5

\* The first page of the events is the first of them.
LEMMA FirstEvents ==
  ASSUME NEW S, IsFiniteSet(S), NEW D \in EventPages(S, 1, EventsLimit)
  PROVE  D \in Leading([e \in S |-> e.ts], EventsLimit)
<1>. DEFINE ts == [e \in S |-> e.ts]
<1>0. (1 - 1) * EventsLimit = 0 /\ 1 * EventsLimit = EventsLimit
  BY AnswersHoldEvents
<1>1. \A B \in Leading(ts, 0) : B = {}
  <2>. SUFFICES ASSUME NEW B \in Leading(ts, 0) PROVE B = {}
    OBVIOUS
  <2>. HIDE DEF ts
  <2>1. DOMAIN ts = S /\ 0 \in Nat
    BY DEF ts
  <2>2. Cardinality(S) \in Nat /\ IsFiniteSet(B)
        /\ Cardinality(B) = IF Cardinality(S) < 0 THEN Cardinality(S) ELSE 0
    BY <2>1, LeadingSize
  <2>3. Cardinality(B) = 0
    BY <2>2
  <2>. QED  BY <2>2, <2>3, FS_EmptySet
<1>2. PICK A \in Leading(ts, EventsLimit) : \E B \in Leading(ts, 0) : D = A \ B
  BY <1>0 DEF EventPages
<1>. QED  BY <1>1, <1>2

\* An event that no other has the time of is on the page of its place, whichever answer.
LEMMA EventOnItsPage ==
  ASSUME NEW S, IsFiniteSet(S), \A r \in S : r.ts \in Nat, NEW e \in S,
         \A r \in S : r.ts = e.ts => e = r,
         NEW p \in Nat \ {0}, (p - 1) * EventsLimit < Rank(e, S), Rank(e, S) <= p * EventsLimit,
         NEW D \in EventPages(S, p, EventsLimit)
  PROVE  e \in D
<1>. DEFINE ts == [r \in S |-> r.ts]
            a == (p - 1) * EventsLimit
            b == p * EventsLimit
<1>1. a \in Nat /\ b \in Nat
  BY AnswersHoldEvents
<1>2. PICK A \in Leading(ts, b) : \E B \in Leading(ts, a) : D = A \ B
  <2>1. D \in UNION {{A \ B : B \in {B \in Leading(ts, a) : B \subseteq A}} : A \in Leading(ts, b)}
    BY DEF EventPages
  <2>. HIDE DEF ts, a, b
  <2>. QED  BY <2>1
<1>3. PICK B \in Leading(ts, a) : D = A \ B
  BY <1>2
<1>4. Rank(e, S) \in Nat
  <2>1. {q \in S : q.ts > e.ts} \in SUBSET S
    OBVIOUS
  <2>. QED  BY <2>1, FS_Subset, FS_CardinalityType DEF Rank
<1>. HIDE DEF a, b
<1>5. e \in A /\ e \notin B
  BY <1>1, <1>2, <1>3, <1>4, LedByPlace DEF a, b
<1>. QED  BY <1>3, <1>5

\* A filter in the form the pages have it from the URL.
IsFilter(f) ==
  /\ f = [k \in FilterKeys |-> f[k]]
  /\ f.method \in ValidMethods \cup {None} /\ f.status_class \in Classes \cup {None}
  /\ UpperCase(f.method) = f.method /\ UpperCase(f.country) = f.country

LEMMA UrlFiltersAreFilters == ASSUME NEW f, DOMAIN f = FilterKeys PROVE IsFilter(UrlFilters(f))
BY CapitalsStay DEF IsFilter, UrlFilters, UpperCase, FilterKeys

\* A country set on such a filter leaves the rest as it is.
LEMMA CountrySet ==
  ASSUME NEW f, IsFilter(f), NEW c, c \notin DOMAIN Upper
  PROVE  UrlFilters([f EXCEPT !.country = c]) = [f EXCEPT !.country = c]
BY DEF IsFilter, UrlFilters, UpperCase, FilterKeys

LEMMA FoundIsTimed ==
  ASSUME LogInv, NEW w, NEW f PROVE Timed(BuildWhere(requests, w, f))
<1>1. BuildWhere(requests, w, f) \in SUBSET Rows
  BY DEF BuildWhere, LogInv
<1>. QED  BY <1>1, RowsHaveTimes, TimesDistinct, FS_Subset DEF Timed

\* A line is found by every filter it offers: they are those that found it and one of its own
\* columns.
LEMMA OfferedFindsLine ==
  ASSUME NEW r \in Rows, NEW rows, NEW w, NEW f, IsFilter(f), r \in BuildWhere(rows, w, f),
         NEW g \in LineFilters(r, f)
  PROVE  r \in BuildWhere(rows, w, g)
<1>1. CASE g = [f EXCEPT !.host = r.host]
  BY <1>1 DEF BuildWhere, IsFilter, FilterKeys
<1>2. CASE g = [f EXCEPT !.remote_ip = r.remote_ip]
  BY <1>2 DEF BuildWhere, IsFilter, FilterKeys
<1>3. CASE r.path # None /\ g = [f EXCEPT !.path = r.path]
  BY <1>3, PathsContainThemselves DEF BuildWhere, IsFilter, FilterKeys, Like
<1>4. CASE g = UrlFilters([f EXCEPT !.country = r.country_code])
  <2>1. r.country_code \notin DOMAIN Upper
    BY CodesAreCapital
  <2>2. g = [f EXCEPT !.country = r.country_code] /\ UpperCase(r.country_code) = r.country_code
    BY <1>4, <2>1, CountrySet DEF UpperCase
  <2>. QED  BY <2>2 DEF BuildWhere, IsFilter, FilterKeys
<1>. QED  BY <1>1, <1>2, <1>3, <1>4 DEF LineFilters

LEMMA RequestsPaged ==
  ASSUME LogInv, NEW w, NEW f, IsFilter(f) PROVE RequestsAgree(requests, w, f)
<1>. DEFINE found == BuildWhere(requests, w, f)
            n == Cardinality(found)
            last == TotalPages(n, PageSize)
            Page(p) == Requests(requests, w, f, p)
<1>0. n \in Nat /\ Timed(found) /\ last \in Nat /\ found \subseteq Rows
  <2>1. Timed(found) /\ found \subseteq Rows
    BY FoundIsTimed DEF BuildWhere, LogInv
  <2>. HIDE DEF found
  <2>2. n \in Nat
    BY <2>1, PlaceInList
  <2>. QED  BY <2>1, <2>2, PageBounds, PagesHoldRows
<1>1. ASSUME NEW p
      PROVE  /\ Page(p).lines = PageOf(found, p, PageSize) /\ Page(p).pager = Pager(p, n)
             /\ Page(p).filters = [r \in PageOf(found, p, PageSize) |-> LineFilters(r, f)]
  BY DEF Requests, QueryRequestsPage
<1>2. ASSUME NEW p
      PROVE  /\ Pager(p, n).last = last /\ Pager(p, n).forward = (p < last)
             /\ n > 0 => Pager(p, n).showing = <<(p - 1) * PageSize + 1,
                                     IF p * PageSize < n THEN p * PageSize ELSE n>>
  BY DEF Pager
<1>3. UNION {Page(p).lines : p \in 1 .. last} = found
  <2>1. UNION {PageOf(found, p, PageSize) : p \in 1 .. last} = found
    BY <1>0, PagesAreList, PagesHoldRows
  <2>. HIDE DEF Page, found, last
  <2>. QED  BY <1>1, <2>1
<1>4. ASSUME NEW p \in 1 .. last
      PROVE  Page(p).pager.showing[2] - Page(p).pager.showing[1] + 1 = Cardinality(Page(p).lines)
  <2>. DEFINE a == (p - 1) * PageSize
              b == IF p * PageSize < n THEN p * PageSize ELSE n
  <2>1. n > 0 /\ Cardinality(PageOf(found, p, PageSize)) = b - a
    BY <1>0, PagesAreList, PagesHoldRows
  <2>2. Page(p).pager.showing = <<a + 1, b>>
    BY <1>1, <1>2, <2>1
  <2>3. a \in Int /\ b \in Int
    BY <1>0, PagesHoldRows
  <2>. HIDE DEF a, b, n, found
  <2>4. b - (a + 1) + 1 = b - a
    BY <2>3
  <2>5. Cardinality(Page(p).lines) = b - a
    BY <1>1, <2>1
  <2>. HIDE DEF Page
  <2>6. Page(p).pager.showing[1] = a + 1 /\ Page(p).pager.showing[2] = b
    BY <2>2
  <2>. QED  BY <2>4, <2>5, <2>6
<1>5. ASSUME NEW p \in 1 .. last, NEW q \in 1 .. p - 1
      PROVE  Page(q).lines \cap Page(p).lines = {}
  <2>1. p \in Nat /\ q \in Nat /\ q < p /\ PageSize \in Nat
    BY <1>0, PagesHoldRows
  <2>2. PageOf(found, q, PageSize) \cap PageOf(found, p, PageSize) = {}
    BY <1>0, <2>1, PagesApart
  <2>. QED  BY <1>1, <2>2
<1>6. ASSUME NEW p \in 1 .. last, NEW r \in Page(p).lines, NEW g \in Page(p).filters[r]
      PROVE  r \in BuildWhere(requests, w, g)
  <2>1. r \in found /\ r \in PageOf(found, p, PageSize)
    BY <1>1, <1>6 DEF PageOf
  <2>2. g \in LineFilters(r, f)
    BY <1>1, <1>6, <2>1
  <2>. QED  BY <1>0, <2>1, <2>2, OfferedFindsLine
<1>7. Page(1).pager.last = last /\ \A p : Page(p).pager.forward = (p < last)
  BY <1>1, <1>2
<1>8. /\ UNION {Page(p).lines : p \in 1 .. Page(1).pager.last} = found
      /\ \A p \in 1 .. Page(1).pager.last :
           /\ Page(p).pager.showing[2] - Page(p).pager.showing[1] + 1 = Cardinality(Page(p).lines)
           /\ Page(p).pager.forward <=> p < Page(1).pager.last
           /\ \A m \in 1 .. p - 1 : Page(m).lines \cap Page(p).lines = {}
           /\ \A r \in Page(p).lines : \A g \in Page(p).filters[r] : r \in BuildWhere(requests, w, g)
  <2>. HIDE DEF Page, found, last
  <2>. QED  BY <1>3, <1>4, <1>5, <1>6, <1>7
<1>. QED  BY <1>8 DEF RequestsAgree

\* The pages behind a pill of an address.
LEMMA PillsArePaged == ASSUME LogInv, NEW w, NEW ip PROVE PillsPaged(requests, w, ip)
<1>. SUFFICES ASSUME NEW c \in PathFilters
     PROVE LET Tab(n) == RequestsTab(requests, w, ip, c, n)
               pages == Tab(1).pages
           IN  /\ UNION {Tab(n).lines : n \in 1 .. pages} = BuildWhere(requests, w, Tab(1).explorer)
               /\ \A n \in 1 .. pages : /\ \A m \in 1 .. n - 1 : Tab(m).lines \cap Tab(n).lines = {}
                                        /\ Tab(n).forward <=> n < pages
  BY DEF PillsPaged
<1>. DEFINE g == WithClass(IpFilter(ip), c)
            found == BuildWhere(requests, w, g)
            last == TotalPages(Cardinality(found), PageSize)
            Tab(n) == RequestsTab(requests, w, ip, c, n)
<1>0. Timed(found) /\ last \in Nat
  BY FoundIsTimed, PlaceInList, PageBounds, PagesHoldRows
<1>1. ASSUME NEW n
      PROVE  /\ Tab(n).lines = PageOf(found, n, PageSize) /\ Tab(n).pages = last
             /\ Tab(n).explorer = g /\ Tab(n).forward = (last > 1 /\ n < last)
  BY DEF RequestsTab, QueryRequestsPage
<1>2. UNION {PageOf(found, n, PageSize) : n \in 1 .. last} = found
  BY <1>0, PagesAreList, PagesHoldRows
<1>3. ASSUME NEW n \in 1 .. last, NEW m \in 1 .. n - 1
      PROVE  PageOf(found, m, PageSize) \cap PageOf(found, n, PageSize) = {}
  <2>1. m \in Nat /\ n \in Nat /\ m < n /\ PageSize \in Nat
    BY <1>0, PagesHoldRows
  <2>. QED  BY <1>0, <2>1, PagesApart
<1>4. \A n \in 1 .. last : (last > 1 /\ n < last) <=> n < last
  BY <1>0
<1>. HIDE DEF g, last, Tab
<1>5. UNION {Tab(n).lines : n \in 1 .. Tab(1).pages} = BuildWhere(requests, w, Tab(1).explorer)
  BY <1>1, <1>2
<1>6. ASSUME NEW n \in 1 .. last
      PROVE  /\ \A m \in 1 .. n - 1 : Tab(m).lines \cap Tab(n).lines = {}
             /\ Tab(n).forward <=> n < last
  <2>. HIDE DEF found
  <2>1. \A m \in 1 .. n - 1 : Tab(m).lines \cap Tab(n).lines = {}
    BY <1>1, <1>3
  <2>2. Tab(n).forward <=> n < last
    BY <1>1, <1>4
  <2>. QED  BY <2>1, <2>2
<1>. QED  BY <1>1, <1>5, <1>6 DEF Tab

-----------------------------------------------------------------------------
(* The events of the security page. *)

\* Fewer on a page makes no fewer pages; one is enough for what fits on it.
LEMMA MorePages ==
  ASSUME NEW n \in Nat, NEW L \in Nat \ {0}, NEW P \in 1 .. L
  PROVE  /\ TotalPages(n, L) \in Nat /\ TotalPages(n, P) \in Nat
         /\ TotalPages(n, L) <= TotalPages(n, P)
         /\ 1 < TotalPages(n, P) => n > P
<1>. DEFINE k == TotalPages(n, L)
            j == TotalPages(n, P)
<1>1. k \in Nat /\ L * k <= n + L - 1
  BY DEF TotalPages
<1>2. j \in Nat /\ P * j <= n + P - 1 /\ n + P - 1 < P * j + P
  BY DEF TotalPages
<1>. HIDE DEF k, j
<1>3. k <= j
  <2>. SUFFICES ASSUME j + 1 <= k PROVE FALSE
    BY <1>1, <1>2
  <2>1. L * (j + 1) <= L * k
    BY <1>1, <1>2
  <2>2. L * (j + 1) = L * j + L /\ P * j <= L * j
    BY <1>2
  <2>3. L * j \in Nat /\ P * j \in Nat /\ L * k \in Nat
    BY <1>1, <1>2
  <2>. QED  BY <1>1, <1>2, <2>1, <2>2, <2>3
<1>4. 1 < j => n > P
  <2>. SUFFICES ASSUME 2 <= j PROVE n > P
    BY <1>2
  <2>1. P * 2 <= P * j
    BY <1>2
  <2>. QED  BY <1>2, <2>1
<1>. QED  BY <1>1, <1>2, <1>3, <1>4 DEF k, j

\* What a severity narrows an answer to, and an address the answer for everybody.
LEMMA EventsNarrowed ==
  ASSUME NEW w, NEW f, NEW s, s # None, NEW ip, ip # None
  PROVE  LET Found(g, t) == FoundEvents(security_events, w, AskedEvents(g, t))
         IN  /\ Found(f, s) = {e \in Found(f, None) : e.severity = s}
             /\ Found(IpFilter(ip), None) = {e \in Found(NoFilter, None) : e.remote_ip = ip}
<1>. DEFINE Asks(q, h, a, t) == /\ DOMAIN q = {"host", "remote_ip", "event_type", "severity"}
                                /\ q["host"] = h /\ q["remote_ip"] = a /\ q["event_type"] = None
                                /\ q["severity"] = t
            Found(g, t) == FoundEvents(security_events, w, AskedEvents(g, t))
<1>1. \A g, t : Asks(AskedEvents(g, t), g.host, g.remote_ip, t)
  BY DEF AskedEvents, AllTypes
<1>2. /\ IpFilter(ip).host = None /\ IpFilter(ip).remote_ip = ip
      /\ NoFilter.host = None /\ NoFilter.remote_ip = None
  BY DEF IpFilter, NoFilter, FilterKeys
<1>3. ASSUME NEW q, NEW h, NEW a, NEW t, Asks(q, h, a, t)
      PROVE  FoundEvents(security_events, w, q)
               = {e \in security_events : /\ w.from <= e.ts /\ e.ts <= w.to
                                          /\ Chosen(h) => e.host = h
                                          /\ Chosen(a) => e.remote_ip = a
                                          /\ Chosen(t) => e.severity = t}
  BY <1>3 DEF FoundEvents, Chosen
<1>. HIDE DEF Asks
<1>4. \A g, t : Found(g, t) =
        {e \in security_events : /\ w.from <= e.ts /\ e.ts <= w.to
                                 /\ Chosen(g.host) => e.host = g.host
                                 /\ Chosen(g.remote_ip) => e.remote_ip = g.remote_ip
                                 /\ Chosen(t) => e.severity = t}
  BY <1>1, <1>3
<1>. HIDE DEF Found
<1>5. Found(f, s) = {e \in Found(f, None) : e.severity = s}
  BY <1>4 DEF Chosen
<1>6. Found(IpFilter(ip), None) = {e \in Found(NoFilter, None) : e.remote_ip = ip}
  BY <1>2, <1>4 DEF Chosen
<1>. QED  BY <1>5, <1>6 DEF Found

LEMMA EventsFinite ==
  ASSUME security_events \subseteq Events, NEW w, NEW q
  PROVE  LET S == FoundEvents(security_events, w, q)
         IN  IsFiniteSet(S) /\ Cardinality(S) \in Nat /\ (\A e \in S : e.ts \in Nat) /\ S \in SUBSET Events
<1>1. FoundEvents(security_events, w, q) \in SUBSET Events
  BY DEF FoundEvents
<1>. HIDE DEF FoundEvents
<1>. QED  BY <1>1, EventsHaveTimes, FS_Subset, FS_CardinalityType

\* Every answer counts what it finds; the first page has the first of it, all of it if it fits.
LEMMA EventsAnswered ==
  ASSUME security_events \subseteq Events, NEW w, NEW f, NEW s
  PROVE  LET S == FoundEvents(security_events, w, AskedEvents(f, s))
         IN  /\ \A n : \A answer \in GetSecurityEvents(security_events, w, f, s, n) :
                  answer.total = Cardinality(S) /\ answer.data \in EventPages(S, n, EventsLimit)
             /\ \A answer \in GetSecurityEvents(security_events, w, f, s, 1) :
                  /\ answer.data \subseteq S /\ IsFiniteSet(answer.data)
                  /\ Cardinality(answer.data) = IF Cardinality(S) < EventsLimit THEN Cardinality(S) ELSE EventsLimit
                  /\ answer.data = S <=> Cardinality(S) <= EventsLimit
<1>. DEFINE S == FoundEvents(security_events, w, AskedEvents(f, s))
            ts == [e \in S |-> e.ts]
<1>1. ASSUME NEW n, NEW answer \in GetSecurityEvents(security_events, w, f, s, n)
      PROVE  answer.total = Cardinality(S) /\ answer.data \in EventPages(S, n, EventsLimit)
  BY DEF GetSecurityEvents, QuerySecurityEvents
<1>2. IsFiniteSet(S) /\ EventsLimit \in Nat
  BY EventsFinite, AnswersHoldEvents
<1>3. DOMAIN ts = S
  OBVIOUS
<1>4. ASSUME NEW answer \in GetSecurityEvents(security_events, w, f, s, 1)
      PROVE  /\ answer.data \subseteq S /\ IsFiniteSet(answer.data)
             /\ Cardinality(answer.data) = IF Cardinality(S) < EventsLimit THEN Cardinality(S) ELSE EventsLimit
             /\ answer.data = S <=> Cardinality(S) <= EventsLimit
  <2>1. answer.data \in EventPages(S, 1, EventsLimit)
    BY <1>1
  <2>. HIDE DEF S
  <2>2. answer.data \in Leading(ts, EventsLimit)
    BY <1>2, <2>1, FirstEvents
  <2>. HIDE DEF ts
  <2>. QED  BY <1>2, <1>3, <2>2, LeadingSize
<1>. QED  BY <1>1, <1>4 DEF S

\* The security tab of an address shows events of the address only, and all of them unless the
\* events of everybody fill more than the page it asks for.
LEMMA TabHidesNone ==
  ASSUME security_events \subseteq Events, NEW rows, NEW w, NEW ip, ip # None
  PROVE  SecurityTabComplete(rows, security_events, w, ip)
<1>. DEFINE E == FoundEvents(security_events, w, AskedEvents(NoFilter, None))
            own == FoundEvents(security_events, w, AskedEvents(IpFilter(ip), None))
            Answers == GetSecurityEvents(security_events, w, NoFilter, None, 1)
<1>1. IPDetail(rows, security_events, w, ip).security = {{e \in answer.data : e.remote_ip = ip} : answer \in Answers}
  BY DEF IPDetail, SecurityTab
<1>2. own = {e \in E : e.remote_ip = ip}
  BY SeveritiesAreValues, EventsNarrowed DEF Severities
<1>3. IsFiniteSet(E) /\ IsFiniteSet(E \ own) /\ Cardinality(E) \in Nat /\ Cardinality(E \ own) \in Nat
  <2>1. IsFiniteSet(E)
    BY EventsFinite
  <2>. HIDE DEF E
  <2>2. E \ own \in SUBSET E
    OBVIOUS
  <2>. QED  BY <2>1, <2>2, FS_Subset, FS_CardinalityType
<1>4. ASSUME NEW answer \in Answers
      PROVE  /\ answer.data \subseteq E /\ IsFiniteSet(answer.data)
             /\ Cardinality(answer.data) = IF Cardinality(E) < EventsLimit THEN Cardinality(E) ELSE EventsLimit
             /\ answer.data = E <=> Cardinality(E) <= EventsLimit
  BY EventsAnswered
<1>. HIDE DEF E, own, Answers
<1>5. ASSUME NEW answer \in Answers
      PROVE  LET tab == {e \in answer.data : e.remote_ip = ip}
             IN  /\ tab \subseteq own
                 /\ Cardinality(E) <= EventsLimit => tab = own
                 /\ Cardinality(E \ own) < EventsLimit /\ own # {} => tab # {}
  <2>. DEFINE tab == {e \in answer.data : e.remote_ip = ip}
  <2>1. tab = answer.data \cap own
    BY <1>2, <1>4
  <2>2. Cardinality(E) <= EventsLimit => tab = own
    BY <1>2, <1>4, <2>1
  <2>3. ASSUME Cardinality(E \ own) < EventsLimit, own # {}, tab = {} PROVE FALSE
    <3>1. answer.data \in SUBSET (E \ own)
      BY <1>4, <2>1, <2>3
    <3>2. Cardinality(answer.data) <= Cardinality(E \ own)
      BY <1>3, <3>1, FS_Subset
    <3>3. Cardinality(answer.data) = Cardinality(E) /\ ~(Cardinality(E) < EventsLimit) => FALSE
      BY <1>3, <1>4, <2>3, <3>2, AnswersHoldEvents
    <3>4. Cardinality(E) <= EventsLimit
      BY <1>3, <1>4, <2>3, <3>2, AnswersHoldEvents
    <3>5. answer.data = E
      BY <1>4, <3>4
    <3>. QED  BY <1>2, <2>3, <3>1, <3>5
  <2>. HIDE DEF tab
  <2>. QED  BY <2>1, <2>2, <2>3 DEF tab
<1>. QED  BY <1>1, <1>5 DEF SecurityTabComplete, E, own

LEMMA TilesCount ==
  ASSUME security_events \subseteq Events, NEW rows, NEW w, NEW f
  PROVE  SeveritiesAgree(rows, security_events, w, f)
<1>. DEFINE Found(s) == FoundEvents(security_events, w, AskedEvents(f, s))
            E == Found(None)
            n == Cardinality(E)
            Page(s, m) == SecurityPage(rows, security_events, w, f, s, m)
            pages == TotalPages(n, EventsPage)
<1>0. EventsLimit \in Nat \ {0} /\ EventsPage \in 1 .. EventsLimit /\ EventsPage \in Nat \ {0}
  BY AnswersHoldEvents, PagerReachesAll
<1>1. IsFiniteSet(E) /\ n \in Nat /\ \A e \in E : e.ts \in Nat
  BY EventsFinite
<1>2. ASSUME NEW s, NEW m, NEW page \in Page(s, m)
      PROVE  /\ page.log.total = Cardinality(Found(s)) /\ page.log.pages = TotalPages(Cardinality(Found(s)), EventsPage)
             /\ page.log.forward = (m < TotalPages(Cardinality(Found(s)), EventsPage))
             /\ page.log.lines \in EventPages(Found(s), m, EventsLimit)
             /\ \A t \in Severities : page.tiles[t] = Cardinality({e \in page.log.lines : e.severity = t})
             /\ page.badge.all_clear <=> {e \in page.log.lines : e.severity \in {"critical", "high"}} = {}
  <2>1. PICK answer \in GetSecurityEvents(security_events, w, f, s, m) :
          /\ page.tiles = SeverityTiles(answer) /\ page.badge = Badge(answer)
          /\ page.log = EventsLog(answer, m)
    BY DEF SecurityPage
  <2>2. answer.total = Cardinality(Found(s)) /\ answer.data \in EventPages(Found(s), m, EventsLimit)
    BY EventsAnswered
  <2>. HIDE DEF Found
  <2>3. /\ page.log.lines = answer.data /\ page.log.total = answer.total
        /\ page.log.pages = TotalPages(answer.total, EventsPage)
        /\ page.log.forward = (m < TotalPages(answer.total, EventsPage))
    BY <2>1 DEF EventsLog
  <2>4. \A t \in Severities : page.tiles[t] = Cardinality({e \in answer.data : e.severity = t})
    BY <2>1 DEF SeverityTiles, CountOf
  <2>5. page.badge.all_clear <=> {e \in answer.data : e.severity \in {"critical", "high"}} = {}
    <3>. DEFINE X == {e \in answer.data : e.severity \in {"critical", "high"}}
    <3>1. page.badge = [count |-> Cardinality(X), all_clear |-> X = {}]
      BY <2>1 DEF Badge
    <3>. HIDE DEF X
    <3>2. page.badge.all_clear = (X = {})
      BY <3>1, SMT
    <3>. QED  BY <3>2, Zenon DEF X
  <2>. QED  BY <2>2, <2>3, <2>4, <2>5
<1>3. \A s \in Severities : Found(s) = {e \in E : e.severity = s}
  <2>. SUFFICES ASSUME NEW s \in Severities PROVE Found(s) = {e \in E : e.severity = s}
    OBVIOUS
  <2>1. s # None
    BY SeveritiesAreValues
  <2>. QED  BY <2>1, EventsNarrowed
<1>4. ASSUME NEW page \in Page(None, 1)
      PROVE  page.log.lines \subseteq E /\ (n <= EventsLimit => page.log.lines = E)
  <2>1. PICK answer \in GetSecurityEvents(security_events, w, f, None, 1) : page.log = EventsLog(answer, 1)
    BY DEF SecurityPage
  <2>2. page.log.lines = answer.data
    BY <2>1 DEF EventsLog
  <2>3. answer.data \subseteq E /\ (answer.data = E <=> n <= EventsLimit)
    BY EventsAnswered
  <2>. QED  BY <2>2, <2>3
<1>. HIDE DEF Page, Found, E, n
<1>5. ASSUME NEW page \in Page(None, 1), NEW s \in Severities
      PROVE  LET On == {e \in page.log.lines : e.severity = s}
             IN  /\ page.tiles[s] = Cardinality(On) /\ page.tiles[s] \in Nat
                 /\ page.tiles[s] = 0 <=> On = {}
                 /\ page.tiles[s] <= Cardinality(Found(s))
                 /\ n <= EventsLimit => page.tiles[s] = Cardinality(Found(s))
  <2>. DEFINE On == {e \in page.log.lines : e.severity = s}
  <2>1. page.tiles[s] = Cardinality(On)
    BY <1>2
  <2>2. On \in SUBSET Found(s) /\ Found(s) \in SUBSET E /\ (n <= EventsLimit => On = Found(s))
    BY <1>3, <1>4
  <2>. HIDE DEF On
  <2>3. IsFiniteSet(Found(s))
    BY <1>1, <2>2, FS_Subset
  <2>4. IsFiniteSet(On) /\ Cardinality(On) <= Cardinality(Found(s))
    BY <2>2, <2>3, FS_Subset
  <2>5. Cardinality(On) \in Nat /\ (Cardinality(On) = 0 <=> On = {})
    BY <2>4, FS_CardinalityType, FS_EmptySet
  <2>. QED  BY <2>1, <2>2, <2>4, <2>5 DEF On
<1>6. ASSUME NEW page \in Page(None, 1)
      PROVE  page.badge.all_clear <=> page.tiles["critical"] + page.tiles["high"] = 0
  <2>. DEFINE On(s) == {e \in page.log.lines : e.severity = s}
              x == page.tiles["critical"]
              y == page.tiles["high"]
  <2>1. page.badge.all_clear <=> On("critical") = {} /\ On("high") = {}
    BY <1>2
  <2>2. {"critical", "high"} \subseteq Severities
    BY DEF Severities
  <2>3. x \in Nat /\ y \in Nat /\ (x = 0 <=> On("critical") = {}) /\ (y = 0 <=> On("high") = {})
    BY <1>5, <2>2
  <2>. HIDE DEF On
  <2>4. x + y = 0 <=> x = 0 /\ y = 0
    BY <2>3
  <2>. QED  BY <2>1, <2>3, <2>4
<1>7. ASSUME NEW e \in E, \A d \in E : d.ts = e.ts => d = e
      PROVE  \E m \in 1 .. pages : \A then \in Page(None, m) : e \in then.log.lines
  <2>1. Rank(e, E) \in 1 .. n
    <3>1. Later(e, E) \in SUBSET (E \ {e})
      BY <1>1 DEF Later
    <3>2. IsFiniteSet(E \ {e}) /\ Cardinality(E \ {e}) = n - 1
      BY <1>1, FS_RemoveElement DEF n
    <3>3. IsFiniteSet(Later(e, E)) /\ Cardinality(Later(e, E)) <= n - 1
      BY <3>1, <3>2, FS_Subset
    <3>4. Cardinality(Later(e, E)) \in Nat
      BY <3>3, FS_CardinalityType
    <3>. QED  BY <1>1, <3>3, <3>4 DEF Rank, Later
  <2>2. PICK m \in 1 .. TotalPages(n, EventsLimit) :
          (m - 1) * EventsLimit < Rank(e, E) /\ Rank(e, E) <= m * EventsLimit
    BY <1>0, <1>1, <2>1, PageBounds
  <2>3. TotalPages(n, EventsLimit) \in Nat /\ pages \in Nat /\ TotalPages(n, EventsLimit) <= pages
    BY <1>0, <1>1, MorePages
  <2>4. m \in 1 .. pages /\ m \in Nat \ {0}
    BY <2>3
  <2>5. ASSUME NEW then \in Page(None, m) PROVE e \in then.log.lines
    <3>1. then.log.lines \in EventPages(E, m, EventsLimit)
      BY <1>2 DEF E
    <3>2. \A d \in E : d.ts = e.ts => e = d
      BY <1>7
    <3>. QED  BY <1>1, <2>2, <2>4, <3>1, <3>2, EventOnItsPage
  <2>. QED  BY <2>4, <2>5
<1>8. 1 < pages => n > EventsPage
  BY <1>0, <1>1, MorePages
<1>9. ASSUME NEW page \in Page(None, 1)
      PROVE  /\ page.log.total = n /\ page.log.pages = pages /\ page.log.forward = (1 < pages)
  BY <1>2 DEF n, E
<1>10. ASSUME NEW page \in Page(None, 1)
       PROVE  /\ \A s \in Severities : \A behind \in Page(s, 1) :
                   /\ page.tiles[s] <= behind.log.total
                   /\ page.log.total <= EventsLimit => page.tiles[s] = behind.log.total
              /\ page.badge.all_clear <=> page.tiles["critical"] + page.tiles["high"] = 0
              /\ \A e \in E : (\A d \in E : d.ts = e.ts => d = e) =>
                   \E m \in 1 .. page.log.pages : \A then \in Page(None, m) : e \in then.log.lines
              /\ page.log.forward => page.log.total > EventsPage
  <2>1. ASSUME NEW s \in Severities, NEW behind \in Page(s, 1)
        PROVE  /\ page.tiles[s] <= behind.log.total
               /\ page.log.total <= EventsLimit => page.tiles[s] = behind.log.total
    <3>1. behind.log.total = Cardinality(Found(s))
      BY <1>2
    <3>2. page.log.total = n
      BY <1>9
    <3>3. page.tiles[s] <= Cardinality(Found(s)) /\ (n <= EventsLimit => page.tiles[s] = Cardinality(Found(s)))
      BY <1>5
    <3>. QED  BY <3>1, <3>2, <3>3
  <2>. QED  BY <1>6, <1>7, <1>8, <1>9, <2>1
<1>. QED  BY <1>10 DEF SeveritiesAgree, Page, E, Found

\* What is stored has come.
RowsHaveCome == \A r \in requests : r.ts <= now

LEMMA RowsHaveComeInv == Spec => []RowsHaveCome
<1>1. Init => LogInv /\ RowsHaveCome
  BY LogInit DEF Init, RowsHaveCome
<1>2. LogInv /\ RowsHaveCome /\ [Next]_vars => LogInv' /\ RowsHaveCome'
  <2>. SUFFICES ASSUME LogInv, RowsHaveCome, [Next]_vars PROVE RowsHaveCome'
    BY LogNext
  <2>1. ASSUME NEW r \in Rows, Insert(r) PROVE RowsHaveCome'
    BY <2>1 DEF Insert, RowsHaveCome
  <2>2. CASE Tick
    BY <2>2, RowsHaveTimes DEF Tick, RowsHaveCome, LogInv
  <2>3. CASE requests' \subseteq requests /\ now' = now
    BY <2>3 DEF RowsHaveCome
  <2>. QED
    BY <2>1, <2>2, <2>3 DEF Next, Arrivals, Jobs, InsertEvent, Purge, AggregateMinutely, RunHourly, vars
<1>. QED  BY <1>1, <1>2, PTL DEF Spec

\* The live page and the API filter alike, but for a wildcard.
LEMMA LiveFiltersAsStored ==
  ASSUME LogInv, RowsHaveCome, NEW f, IsFilter(f) PROVE LiveRowsAgree(requests, now, f)
<1>. SUFFICES ASSUME f.path \notin Wild
     PROVE LivePage({r \in requests : now - LocalWindow <= r.ts}, now, f).shown
             = BuildWhere(requests, [from |-> now - LocalWindow, to |-> now], f)
  BY DEF LiveRowsAgree
<1>1. \A path : Like(path, f.path) <=> Includes(path, f.path)
  BY DEF Like, Includes
<1>2. UpperCase(f.method) = f.method /\ UpperCase(f.country) = f.country
  BY DEF IsFilter
<1>. QED  BY <1>1, <1>2 DEF LivePage, BuildWhere, RowMatchesFilters, RowsHaveCome

LEMMA FiltersAreFilters == \A f \in Filters : IsFilter(f)
BY UrlFiltersAreFilters, TypedAreFilters DEF Filters

\* Every list the console shows in pages is shown whole, and the browser filters the rows it
\* was sent as the API filters those it stores (query_requests_page and the pagers of
\* Requests.tsx, IPDetail.tsx and Security.tsx, get_security_events, RealTime.tsx).
THEOREM ListsAreShownWhole == Spec => []ListsAreComplete
<1>0. \A ip \in Values(Rows, "remote_ip") : ip # None
  BY RowsHaveColumns DEF Values
<1>1. LogInv /\ TypeOK /\ RowsHaveCome => ListsAreComplete
  BY <1>0, PillsArePaged, TabHidesNone, TilesCount, RequestsPaged, LiveFiltersAsStored, FiltersAreFilters
     DEF ListsAreComplete, TypeOK
<1>2. Spec => []LogInv
  BY LogInit, LogNext, PTL DEF Spec
<1>. QED  BY <1>1, <1>2, TablesTyped, RowsHaveComeInv, PTL

HIDE DEF Hour

-----------------------------------------------------------------------------
(* Sums and groups.                                                        *)

\* Counted by groups, everything is counted once: by any key a row has, whatever other groups
\* there are.
LEMMA SumOfGroups ==
  ASSUME NEW R, IsFiniteSet(R), NEW key, NEW f,
         \A r \in R : key[r] \in DOMAIN f,
         \A k \in DOMAIN f : f[k] = Cardinality({r \in R : key[r] = k})
  PROVE  SumOf(f) = Cardinality(R) /\ SumOf(f) \in Nat
<1>. DEFINE Group(k) == {r \in R : key[r] = k}
            Count(k) == CHOOSE h : h \in Bijection(Group(k), 1 .. f[k])
            Pairs == UNION {{k} \X (1 .. f[k]) : k \in DOMAIN f}
            place == [r \in R |-> <<key[r], Count(key[r])[r]>>]
<1>1. ASSUME NEW k \in DOMAIN f PROVE Count(k) \in Bijection(Group(k), 1 .. f[k])
  <2>1. IsFiniteSet(Group(k)) /\ f[k] = Cardinality(Group(k))
    BY FS_Subset
  <2>. HIDE DEF Group
  <2>2. f[k] \in Nat
    BY <2>1, FS_CardinalityType
  <2>3. IsFiniteSet(1 .. f[k]) /\ Cardinality(1 .. f[k]) = f[k]
    BY <2>2, FS_Interval
  <2>4. \E h : h \in Bijection(Group(k), 1 .. f[k])
    BY <2>1, <2>3, FS_SameCardinalityBij DEF ExistsBijection
  <2>. QED  BY <2>4
<1>. HIDE DEF Count
<1>2. ASSUME NEW k \in DOMAIN f
      PROVE  /\ \A r \in Group(k) : Count(k)[r] \in 1 .. f[k]
             /\ \A r, q \in Group(k) : Count(k)[r] = Count(k)[q] => r = q
             /\ \A i \in 1 .. f[k] : \E r \in Group(k) : Count(k)[r] = i
  <2>. HIDE DEF Group
  <2>. QED  BY <1>1 DEF Bijection, Injection, Surjection, IsInjective
<1>3. place \in Bijection(R, Pairs)
  <2>1. \A r \in R : place[r] \in Pairs
    BY <1>2
  <2>2. ASSUME NEW r \in R, NEW q \in R, place[r] = place[q] PROVE r = q
    <3>1. key[r] = key[q] /\ Count(key[r])[r] = Count(key[r])[q]
      BY <2>2
    <3>2. key[r] \in DOMAIN f /\ r \in Group(key[r]) /\ q \in Group(key[r])
      BY <3>1
    <3>. HIDE DEF Group
    <3>. QED  BY <1>2, <3>1, <3>2
  <2>3. ASSUME NEW u \in Pairs PROVE \E r \in R : place[r] = u
    <3>1. PICK k \in DOMAIN f : u \in {k} \X (1 .. f[k])
      OBVIOUS
    <3>2. PICK i \in 1 .. f[k] : u = <<k, i>>
      BY <3>1
    <3>3. PICK r \in Group(k) : Count(k)[r] = i
      BY <1>2
    <3>4. r \in R /\ key[r] = k
      OBVIOUS
    <3>. QED  BY <3>2, <3>3, <3>4
  <2>4. place \in [R -> Pairs]
    <3>. HIDE DEF Pairs
    <3>1. \A r \in R : <<key[r], Count(key[r])[r]>> \in Pairs
      BY <2>1
    <3>. QED  BY <3>1
  <2>. HIDE DEF place, Pairs
  <2>. QED  BY <2>2, <2>3, <2>4 DEF Bijection, Injection, Surjection, IsInjective
<1>. HIDE DEF place, Pairs
<1>4. Cardinality(Pairs) = Cardinality(R)
  BY <1>3, FS_Bijection DEF ExistsBijection
<1>. QED  BY <1>4, FS_CardinalityType DEF SumOf, Pairs

\* Nothing is added by what there is none of.
LEMMA SumOfOccurring ==
  ASSUME NEW f, \A k \in DOMAIN f : f[k] \in Nat, NEW K, K \subseteq DOMAIN f,
         \A k \in DOMAIN f \ K : f[k] = 0
  PROVE  SumOf([k \in K |-> f[k]]) = SumOf(f)
<1>. DEFINE g == [k \in K |-> f[k]]
<1>1. UNION {{k} \X (1 .. g[k]) : k \in K} = UNION {{k} \X (1 .. f[k]) : k \in DOMAIN f}
  <2>1. ASSUME NEW k \in DOMAIN f, NEW i \in 1 .. f[k] PROVE k \in K /\ g[k] = f[k]
    BY <2>1
  <2>. QED  BY <2>1
<1>. QED  BY <1>1 DEF SumOf

\* What a query finds is finite.
LEMMA FoundFinite ==
  ASSUME NEW rows, rows \subseteq Rows, NEW w, NEW f
  PROVE  /\ BuildWhere(rows, w, f) \subseteq Rows /\ IsFiniteSet(BuildWhere(rows, w, f))
         /\ Cardinality(BuildWhere(rows, w, f)) \in Nat
<1>1. BuildWhere(rows, w, f) \in SUBSET Rows
  BY DEF BuildWhere
<1>. QED  BY <1>1, RowsHaveTimes, FS_Subset, FS_CardinalityType

\* The grouped queries count every row.
LEMMA GroupTotals ==
  ASSUME NEW R, IsFiniteSet(R), NEW c
  PROVE  /\ SumOf(Column(GroupBy(R, c), "req_count")) = Cardinality(R)
         /\ SumOf(Counts(R, c)) = Cardinality(R)
<1>. DEFINE key == [r \in R |-> r[c]]
            f == Column(GroupBy(R, c), "req_count")
            g == Counts(R, c)
<1>1. \A v \in Values(R, c) : {r \in R : key[r] = v} = {r \in R : r[c] = v}
  OBVIOUS
<1>2. DOMAIN f = Values(R, c) /\ \A v \in DOMAIN f : f[v] = Cardinality({r \in R : key[r] = v})
  BY <1>1 DEF Column, GroupBy, Stat
<1>3. DOMAIN g = Values(R, c) /\ \A v \in DOMAIN g : g[v] = Cardinality({r \in R : key[r] = v})
  BY <1>1 DEF Counts
<1>4. \A r \in R : key[r] \in Values(R, c)
  BY DEF Values
<1>. HIDE DEF key, f, g
<1>5. SumOf(f) = Cardinality(R)
  BY <1>2, <1>4, SumOfGroups
<1>6. SumOf(g) = Cardinality(R)
  BY <1>3, <1>4, SumOfGroups
<1>. QED  BY <1>5, <1>6 DEF f, g

\* A time series counts every row.
LEMMA SeriesTotal ==
  ASSUME NEW R, IsFiniteSet(R), NEW bucket
  PROVE  SumOf(Column(QueryTimeseries(R, bucket), "req_count")) = Cardinality(R)
<1>. DEFINE key == [r \in R |-> r.ts \div bucket]
            f == Column(QueryTimeseries(R, bucket), "req_count")
<1>1. DOMAIN f = {r.ts \div bucket : r \in R}
      /\ \A b \in DOMAIN f : f[b] = Cardinality({r \in R : r.ts \div bucket = b})
  BY DEF Column, QueryTimeseries
<1>2. \A b : {r \in R : key[r] = b} = {r \in R : r.ts \div bucket = b}
  OBVIOUS
<1>3. \A r \in R : key[r] \in DOMAIN f
  BY <1>1
<1>. HIDE DEF f
<1>4. \A b \in DOMAIN f : f[b] = Cardinality({r \in R : key[r] = b})
  BY <1>1, <1>2
<1>. HIDE DEF key
<1>5. SumOf(f) = Cardinality(R)
  BY <1>3, <1>4, SumOfGroups
<1>. QED  BY <1>5 DEF f

-----------------------------------------------------------------------------
(* The status classes.                                                     *)

Low(c) == CASE c = "2xx" -> 200 [] c = "3xx" -> 300 [] c = "4xx" -> 400 [] c = "5xx" -> 500
InClass(R, c) == {r \in R : GetStatusClass(r.status) = c}
BeyondClasses(R) == {r \in R : r.status # None /\ r.status >= 600}

\* The class of a status as the parser writes it.
LEMMA ClassOfNumber ==
  ASSUME NEW s \in 0 .. 999
  PROVE  /\ s < 200 \/ s > 599 => GetStatusClass(s) = None
         /\ 200 <= s /\ s <= 299 => GetStatusClass(s) = "2xx"
         /\ 300 <= s /\ s <= 399 => GetStatusClass(s) = "3xx"
         /\ 400 <= s /\ s <= 499 => GetStatusClass(s) = "4xx"
         /\ 500 <= s /\ s <= 599 => GetStatusClass(s) = "5xx"
<1>0. s # None
  BY NullIsNoValue
<1>1. ASSUME 200 <= s /\ s <= 299 PROVE GetStatusClass(s) = "2xx"
  BY <1>0, <1>1 DEF GetStatusClass
<1>2. ASSUME 300 <= s /\ s <= 399 PROVE GetStatusClass(s) = "3xx"
  BY <1>0, <1>2 DEF GetStatusClass
<1>3. ASSUME 400 <= s /\ s <= 499 PROVE GetStatusClass(s) = "4xx"
  BY <1>0, <1>3 DEF GetStatusClass
<1>4. ASSUME 500 <= s /\ s <= 599 PROVE GetStatusClass(s) = "5xx"
  BY <1>0, <1>4 DEF GetStatusClass
<1>5. ASSUME s < 200 \/ s > 599 PROVE GetStatusClass(s) = None
  BY <1>0, <1>5 DEF GetStatusClass
<1>. QED  BY <1>1, <1>2, <1>3, <1>4, <1>5

\* The class written when the line was parsed is that of the numbers asked for.
LEMMA ClassOfStatus ==
  ASSUME NEW r \in Rows, NEW c \in Classes
  PROVE  /\ Low(c) \in Nat
         /\ GetStatusClass(r.status) = c
              <=> r.status # None /\ Low(c) <= r.status /\ r.status <= Low(c) + 99
<1>1. r.status \in (0 .. 999) \cup {None} /\ None \notin Classes
  BY RowsHaveColumns, NullIsNoValue DEF NoTop
<1>2. /\ c \in {"2xx", "3xx", "4xx", "5xx"} /\ None \notin {"2xx", "3xx", "4xx", "5xx"}
  BY <1>1 DEF Classes
<1>3. /\ c = "2xx" => Low(c) = 200
      /\ c = "3xx" => Low(c) = 300
      /\ c = "4xx" => Low(c) = 400
      /\ c = "5xx" => Low(c) = 500
  BY DEF Low
<1>4. CASE r.status = None
  <2>1. GetStatusClass(r.status) = None
    BY <1>4, NullIsNoValue DEF GetStatusClass
  <2>. QED  BY <1>1, <1>2, <1>3, <1>4, <2>1
<1>5. ASSUME NEW s \in 0 .. 999
      PROVE  Low(c) \in Nat /\ (GetStatusClass(s) = c <=> Low(c) <= s /\ s <= Low(c) + 99)
  <2>1. /\ s < 200 \/ s > 599 => GetStatusClass(s) = None
        /\ 200 <= s /\ s <= 299 => GetStatusClass(s) = "2xx"
        /\ 300 <= s /\ s <= 399 => GetStatusClass(s) = "3xx"
        /\ 400 <= s /\ s <= 499 => GetStatusClass(s) = "4xx"
        /\ 500 <= s /\ s <= 599 => GetStatusClass(s) = "5xx"
    BY ClassOfNumber
  <2>. QED  BY <1>2, <1>3, <2>1
<1>6. CASE r.status # None
  <2>1. r.status \in 0 .. 999
    BY <1>1, <1>6
  <2>. QED  BY <1>5, <1>6, <2>1
<1>. QED  BY <1>4, <1>6

\* What SQL counts by its bounds: the rows of the class, and with no upper end for 5xx those
\* beyond the classes too.
LEMMA ByClassCounts ==
  ASSUME NEW R, R \subseteq Rows, NEW c \in Classes
  PROVE  /\ ByClass(R, 599)[c] = Cardinality(InClass(R, c))
         /\ ByClass(R, NoTop)[c] = Cardinality(InClass(R, c))
              + IF c = "5xx" THEN Cardinality(BeyondClasses(R)) ELSE 0
         /\ {r \in R : /\ r.status # None /\ Low(c) <= r.status
                      /\ r.status <= IF c = "5xx" THEN NoTop ELSE Low(c) + 99}
              = InClass(R, c) \cup IF c = "5xx" THEN BeyondClasses(R) ELSE {}
<1>. DEFINE Upto(top) == {r \in R : /\ r.status # None /\ Low(c) <= r.status
                                   /\ r.status <= IF c = "5xx" THEN top ELSE Low(c) + 99}
<1>1. \A top : ByClass(R, top)[c] = Cardinality(Upto(top))
  BY DEF ByClass, Low, Classes
<1>2. \A r \in R : r.status # None => r.status \in 0 .. 999
  BY RowsHaveColumns DEF NoTop
<1>3. \A r \in R : GetStatusClass(r.status) = c
                     <=> r.status # None /\ Low(c) <= r.status /\ r.status <= Low(c) + 99
  BY ClassOfStatus
<1>4. c = "5xx" => Low(c) = 500
  BY DEF Low
<1>5. Upto(599) = InClass(R, c)
  BY <1>3, <1>4 DEF InClass
<1>6. c # "5xx" => Upto(NoTop) = InClass(R, c)
  BY <1>3 DEF InClass
<1>7. ASSUME c = "5xx"
      PROVE  /\ Upto(NoTop) = InClass(R, c) \cup BeyondClasses(R)
             /\ InClass(R, c) \cap BeyondClasses(R) = {}
  <2>1. Upto(NoTop) = {r \in R : r.status # None /\ 500 <= r.status}
    BY <1>2, <1>4, <1>7 DEF NoTop
  <2>2. InClass(R, c) = {r \in R : r.status # None /\ 500 <= r.status /\ r.status <= 599}
    BY <1>2, <1>3, <1>4, <1>7 DEF InClass
  <2>. DEFINE Serious(r) == r.status # None /\ 500 <= r.status
              Within5(r) == r.status <= 599
              Past(r) == r.status >= 600
  <2>3. \A r \in R : r.status # None => (Within5(r) <=> ~Past(r)) /\ (Past(r) => 500 <= r.status)
    BY <1>2
  <2>4. /\ Upto(NoTop) = {r \in R : Serious(r)}
        /\ InClass(R, c) = {r \in R : Serious(r) /\ Within5(r)}
        /\ BeyondClasses(R) = {r \in R : Serious(r) /\ Past(r)}
    <3>1. BeyondClasses(R) = {r \in R : Serious(r) /\ Past(r)}
      BY <2>3 DEF BeyondClasses
    <3>. QED  BY <2>1, <2>2, <3>1
  <2>5. \A r \in R : Serious(r) => (Within5(r) <=> ~Past(r))
    BY <2>3
  <2>. HIDE DEF Upto, Serious, Within5, Past
  <2>. QED  BY <2>4, <2>5
<1>. HIDE DEF Upto
<1>8. InClass(R, c) \in SUBSET Rows /\ BeyondClasses(R) \in SUBSET Rows
  BY DEF InClass, BeyondClasses
<1>9. /\ IsFiniteSet(InClass(R, c)) /\ IsFiniteSet(BeyondClasses(R))
      /\ Cardinality(InClass(R, c)) \in Nat /\ Cardinality(BeyondClasses(R)) \in Nat
  BY <1>8, RowsHaveTimes, FS_Subset, FS_CardinalityType
<1>10. ASSUME c = "5xx"
       PROVE  Cardinality(Upto(NoTop)) = Cardinality(InClass(R, c)) + Cardinality(BeyondClasses(R))
  <2>1. Cardinality(InClass(R, c) \cap BeyondClasses(R)) = 0
    BY <1>7, <1>10, FS_EmptySet
  <2>2. Cardinality(InClass(R, c) \cup BeyondClasses(R))
          = Cardinality(InClass(R, c)) + Cardinality(BeyondClasses(R)) - Cardinality(InClass(R, c) \cap BeyondClasses(R))
    BY <1>9, FS_Union
  <2>3. Upto(NoTop) = InClass(R, c) \cup BeyondClasses(R)
    BY <1>7, <1>10
  <2>4. \A x, y \in Nat : x + y - 0 = x + y
    OBVIOUS
  <2>. QED  BY <1>9, <2>1, <2>2, <2>3, <2>4
<1>11. Upto(NoTop) = InClass(R, c) \cup IF c = "5xx" THEN BeyondClasses(R) ELSE {}
  BY <1>6, <1>7
<1>. QED  BY <1>1, <1>5, <1>6, <1>9, <1>10, <1>11 DEF Upto

-----------------------------------------------------------------------------
(* Sums of what is finite.                                                 *)

\* What a function takes on a finite set is finite.
LEMMA RangeFinite ==
  ASSUME NEW g, IsFiniteSet(DOMAIN g)
  PROVE  /\ IsFiniteSet({g[x] : x \in DOMAIN g})
         /\ Cardinality({g[x] : x \in DOMAIN g}) <= Cardinality(DOMAIN g)
<1>. DEFINE h == [x \in DOMAIN g |-> g[x]]
<1>1. h \in Surjection(DOMAIN g, {g[x] : x \in DOMAIN g})
  BY DEF Surjection
<1>. HIDE DEF h
<1>. QED  BY <1>1, FS_Surjection

\* A sum has as many parts as pairs of a group and a number up to its count.
LEMMA SumFinite ==
  ASSUME NEW f, IsFiniteSet(DOMAIN f), \A k \in DOMAIN f : f[k] \in Nat
  PROVE  /\ IsFiniteSet(UNION {{k} \X (1 .. f[k]) : k \in DOMAIN f})
         /\ SumOf(f) \in Nat
         /\ \A k \in DOMAIN f : f[k] <= SumOf(f)
<1>. DEFINE Part(k) == {k} \X (1 .. f[k])
            part == [k \in DOMAIN f |-> Part(k)]
            Pairs == UNION {part[k] : k \in DOMAIN part}
<1>1. ASSUME NEW k \in DOMAIN f PROVE IsFiniteSet(Part(k)) /\ Cardinality(Part(k)) = f[k]
  <2>1. f[k] \in Nat /\ IsFiniteSet(1 .. f[k]) /\ Cardinality(1 .. f[k]) = f[k]
    BY FS_Interval
  <2>2. IsFiniteSet({k}) /\ Cardinality({k}) = 1
    BY FS_Singleton
  <2>3. IsFiniteSet({k} \X (1 .. f[k]))
        /\ Cardinality({k} \X (1 .. f[k])) = Cardinality({k}) * Cardinality(1 .. f[k])
    BY <2>1, <2>2, FS_Product
  <2>. QED  BY <2>1, <2>2, <2>3
<1>2. DOMAIN part = DOMAIN f /\ \A k \in DOMAIN f : part[k] = Part(k)
  OBVIOUS
<1>3. UNION {{k} \X (1 .. f[k]) : k \in DOMAIN f} = Pairs
  BY <1>2
<1>4. ASSUME NEW k \in DOMAIN f PROVE Part(k) \in SUBSET Pairs
  BY <1>2
<1>. HIDE DEF Part, part
<1>5. IsFiniteSet({part[k] : k \in DOMAIN part})
  BY <1>2, RangeFinite
<1>6. IsFiniteSet(Pairs)
  BY <1>1, <1>2, <1>5, FS_UNION
<1>7. Cardinality(Pairs) \in Nat
  BY <1>6, FS_CardinalityType
<1>8. ASSUME NEW k \in DOMAIN f PROVE f[k] <= Cardinality(Pairs)
  <2>. HIDE DEF Pairs
  <2>. QED  BY <1>1, <1>4, <1>6, FS_Subset
<1>. QED  BY <1>3, <1>6, <1>7, <1>8 DEF SumOf

\* A part of a sum is no more than it, and as much only when nothing is left out.
LEMMA SumOfFewer ==
  ASSUME NEW f, IsFiniteSet(DOMAIN f), \A k \in DOMAIN f : f[k] \in Nat, NEW K, K \subseteq DOMAIN f
  PROVE  /\ SumOf([k \in K |-> f[k]]) \in Nat /\ SumOf([k \in K |-> f[k]]) <= SumOf(f)
         /\ (\A k \in DOMAIN f : f[k] > 0) => (SumOf([k \in K |-> f[k]]) = SumOf(f) <=> K = DOMAIN f)
<1>. DEFINE F == UNION {{k} \X (1 .. f[k]) : k \in DOMAIN f}
            G == UNION {{k} \X (1 .. f[k]) : k \in K}
            g == [k \in K |-> f[k]]
<1>1. SumOf(f) = Cardinality(F) /\ SumOf(g) = Cardinality(G)
  <2>1. UNION {{k} \X (1 .. g[k]) : k \in DOMAIN g} = G
    OBVIOUS
  <2>. QED  BY <2>1 DEF SumOf
<1>2. G \in SUBSET F
  OBVIOUS
<1>3. ASSUME NEW k \in DOMAIN f \ K, f[k] > 0 PROVE G # F
  <2>1. <<k, 1>> \in F
    <3>1. f[k] \in Nat /\ 1 \in 1 .. f[k]
      BY <1>3
    <3>. QED  BY <3>1
  <2>2. <<k, 1>> \notin G
    OBVIOUS
  <2>. HIDE DEF F, G
  <2>. QED  BY <2>1, <2>2
<1>4. K = DOMAIN f => G = F
  OBVIOUS
<1>5. IsFiniteSet(F)
  <2>. HIDE DEF G, g
  <2>. QED  BY SumFinite
<1>. HIDE DEF F, G, g
<1>6. /\ IsFiniteSet(G) /\ Cardinality(G) <= Cardinality(F) /\ Cardinality(G) \in Nat
      /\ Cardinality(G) = Cardinality(F) => G = F
  BY <1>2, <1>5, FS_Subset, FS_CardinalityType
<1>7. ASSUME \A k \in DOMAIN f : f[k] > 0, Cardinality(G) = Cardinality(F) PROVE K = DOMAIN f
  <2>1. \A k \in DOMAIN f : k \in K
    BY <1>3, <1>6, <1>7
  <2>. QED  BY <2>1
<1>. QED  BY <1>1, <1>4, <1>6, <1>7 DEF g

\* A query of groups with a limit counts no more than the rows, and all of them when the
\* groups fit.
LEMMA TopSum ==
  ASSUME NEW R, IsFiniteSet(R), NEW c, NEW limit \in Nat, NEW K \in Leading(Counts(R, c), limit)
  PROVE  LET size == Cardinality(Values(R, c))
             sum == SumOf([v \in K |-> Counts(R, c)[v]])
         IN  /\ IsFiniteSet(Values(R, c)) /\ size \in Nat /\ K \subseteq Values(R, c)
             /\ IsFiniteSet(K) /\ Cardinality(K) = IF size < limit THEN size ELSE limit
             /\ sum \in Nat /\ sum <= Cardinality(R)
             /\ sum = Cardinality(R) <=> size <= limit
<1>. DEFINE f == Counts(R, c)
            V == Values(R, c)
            sum == SumOf([v \in K |-> f[v]])
<1>1. DOMAIN f = V /\ \A v \in V : f[v] = Cardinality({r \in R : r[c] = v})
  BY DEF Counts
<1>2. IsFiniteSet(V)
  <2>. DEFINE g == [r \in R |-> r[c]]
  <2>1. V = {g[r] : r \in DOMAIN g} /\ DOMAIN g = R
    BY DEF Values
  <2>. HIDE DEF g, V
  <2>. QED  BY <2>1, RangeFinite
<1>3. ASSUME NEW v \in V PROVE f[v] \in Nat /\ f[v] > 0
  <2>. DEFINE S == {r \in R : r[c] = v}
  <2>1. S \in SUBSET R /\ S # {}
    BY DEF Values
  <2>2. f[v] = Cardinality(S)
    BY <1>1
  <2>. HIDE DEF S, f
  <2>3. IsFiniteSet(S)
    BY <2>1, FS_Subset
  <2>4. Cardinality(S) \in Nat /\ Cardinality(S) # 0
    BY <2>1, <2>3, FS_CardinalityType, FS_EmptySet
  <2>. QED  BY <2>2, <2>4
<1>4. SumOf(f) = Cardinality(R)
  BY GroupTotals
<1>5. K \in Leading(f, limit)
  OBVIOUS
<1>. HIDE DEF f, V
<1>6. /\ K \subseteq V /\ IsFiniteSet(K) /\ Cardinality(V) \in Nat
      /\ Cardinality(K) = IF Cardinality(V) < limit THEN Cardinality(V) ELSE limit
      /\ K = V <=> Cardinality(V) <= limit
  BY <1>1, <1>2, <1>5, LeadingSize
<1>7. /\ sum \in Nat /\ sum <= SumOf(f)
      /\ sum = SumOf(f) <=> K = V
  BY <1>1, <1>2, <1>3, <1>6, SumOfFewer
<1>. HIDE DEF sum
<1>8. /\ sum \in Nat /\ sum <= Cardinality(R) /\ IsFiniteSet(V) /\ K \subseteq V /\ IsFiniteSet(K)
      /\ Cardinality(V) \in Nat /\ Cardinality(K) = IF Cardinality(V) < limit THEN Cardinality(V) ELSE limit
      /\ sum = Cardinality(R) <=> Cardinality(V) <= limit
  BY <1>2, <1>4, <1>6, <1>7
<1>. QED  BY <1>8 DEF sum, f, V

\* The same of the groups with all their columns.
LEMMA TopListed ==
  ASSUME NEW R, IsFiniteSet(R), NEW c, NEW limit \in Nat \ {0},
         NEW t \in TopBy(GroupBy(R, c), "req_count", limit)
  PROVE  LET size == Cardinality(Values(R, c))
             sum == SumOf(Column(t, "req_count"))
         IN  /\ DOMAIN t \subseteq Values(R, c) /\ IsFiniteSet(DOMAIN t) /\ size \in Nat
             /\ \A v \in DOMAIN t : t[v] = Stat({r \in R : r[c] = v})
             /\ Cardinality(DOMAIN t) = IF size < limit THEN size ELSE limit
             /\ sum \in Nat /\ sum <= Cardinality(R)
             /\ sum = Cardinality(R) <=> size <= limit
             /\ DOMAIN t = {} <=> R = {}
<1>. DEFINE G == GroupBy(R, c)
            f == Counts(R, c)
            V == Values(R, c)
<1>1. DOMAIN G = V /\ \A v \in V : G[v] = Stat({r \in R : r[c] = v})
  BY DEF GroupBy
<1>2. Column(G, "req_count") = f
  BY DEF Column, GroupBy, Counts, Stat
<1>. HIDE DEF G
<1>3. PICK K \in Leading(f, limit) : t = [v \in K |-> G[v]]
  <2>1. t \in {Restrict(G, K) : K \in Leading(f, limit)}
    BY <1>2 DEF TopBy, G
  <2>. HIDE DEF f
  <2>. QED  BY <2>1 DEF Restrict
<1>4. /\ IsFiniteSet(V) /\ Cardinality(V) \in Nat /\ K \subseteq V
      /\ IsFiniteSet(K) /\ Cardinality(K) = IF Cardinality(V) < limit THEN Cardinality(V) ELSE limit
      /\ SumOf([v \in K |-> f[v]]) \in Nat /\ SumOf([v \in K |-> f[v]]) <= Cardinality(R)
      /\ SumOf([v \in K |-> f[v]]) = Cardinality(R) <=> Cardinality(V) <= limit
  BY TopSum
<1>5. \A v \in V : f[v] = G[v]["req_count"] /\ DOMAIN f = V
  <2>. HIDE DEF f, V
  <2>. QED  BY <1>1, <1>2 DEF Column
<1>6. R = {} <=> V = {}
  BY DEF Values
<1>. HIDE DEF f, V
<1>7. Column(t, "req_count") = [v \in K |-> f[v]]
  BY <1>3, <1>4, <1>5 DEF Column
<1>8. K = {} <=> R = {}
  <2>1. Cardinality(K) = 0 <=> K = {}
    BY <1>4, FS_EmptySet
  <2>2. Cardinality(V) = 0 <=> V = {}
    BY <1>4, FS_EmptySet
  <2>. QED  BY <1>4, <1>6, <2>1, <2>2
<1>9. DOMAIN t = K /\ \A v \in K : t[v] = Stat({r \in R : r[c] = v})
  BY <1>1, <1>3, <1>4
<1>. QED  BY <1>4, <1>7, <1>8, <1>9 DEF V

\* The parts of a sum that are nothing may be left out; what is left is a sum if it is any.
LEMMA SharesMakeUp ==
  ASSUME NEW f, IsFiniteSet(DOMAIN f), \A k \in DOMAIN f : f[k] \in Nat
  PROVE  LET K == {k \in DOMAIN f : f[k] > 0}
         IN  /\ SumOf([k \in K |-> f[k]]) = SumOf(f)
             /\ K # {} => SumOf(f) > 0
<1>. DEFINE K == {k \in DOMAIN f : f[k] > 0}
<1>1. \A k \in DOMAIN f \ K : f[k] = 0
  OBVIOUS
<1>2. ASSUME NEW k \in K PROVE SumOf(f) > 0
  <2>1. f[k] \in Nat /\ f[k] > 0 /\ f[k] <= SumOf(f) /\ SumOf(f) \in Nat
    BY SumFinite
  <2>. QED  BY <2>1
<1>3. K \subseteq DOMAIN f
  OBVIOUS
<1>. HIDE DEF K
<1>4. SumOf([k \in K |-> f[k]]) = SumOf(f)
  BY <1>1, <1>3, SumOfOccurring
<1>. QED  BY <1>2, <1>4 DEF K

\* There are finitely many classes.
LEMMA ClassesFinite == IsFiniteSet(Classes) /\ Classes # {}
<1>1. /\ IsFiniteSet({"2xx"}) /\ IsFiniteSet({"2xx"} \cup {"3xx"})
      /\ IsFiniteSet({"2xx"} \cup {"3xx"} \cup {"4xx"})
      /\ IsFiniteSet({"2xx"} \cup {"3xx"} \cup {"4xx"} \cup {"5xx"})
  BY FS_Singleton, FS_Union
<1>2. Classes = {"2xx"} \cup {"3xx"} \cup {"4xx"} \cup {"5xx"}
  BY DEF Classes
<1>. QED  BY <1>1, <1>2

-----------------------------------------------------------------------------
(* Rates.                                                                  *)

\* Both sides may be multiplied by a number, and divided.
LEMMA Times == \A x, y \in Nat, k \in Nat \ {0} : x <= y <=> x * k <= y * k
<1>. SUFFICES ASSUME NEW x \in Nat, NEW y \in Nat, NEW k \in Nat \ {0}
              PROVE  x <= y <=> x * k <= y * k
  OBVIOUS
<1>1. ASSUME x <= y PROVE x * k <= y * k
  <2>1. y * k = x * k + (y - x) * k /\ (y - x) * k >= 0
    BY <1>1
  <2>. QED  BY <2>1
<1>2. ASSUME y < x PROVE y * k < x * k
  <2>1. x * k = y * k + (x - y) * k /\ (x - y) * k > 0
    BY <1>2
  <2>. QED  BY <2>1
<1>. QED  BY <1>1, <1>2

\* A rounded quotient is half a unit from the exact one at most.
LEMMA RoundedIs ==
  ASSUME NEW part \in Nat, NEW whole \in Nat \ {0}, NEW scale \in Nat
  PROVE  LET n == Rounded(part, whole, scale)
         IN  /\ n \in Nat
             /\ 2 * part * scale <= (2 * n + 1) * whole /\ (2 * n - 1) * whole <= 2 * part * scale
<1>. DEFINE x == part * scale
            b == x \div whole
            Near(n) == 2 * part * scale <= (2 * n + 1) * whole /\ (2 * n - 1) * whole <= 2 * part * scale
<1>1. x \in Nat /\ 2 * part * scale = 2 * x
  OBVIOUS
<1>. HIDE DEF x
<1>2. b \in Nat /\ b * whole <= x /\ x < b * whole + whole
  <2>1. x = whole * (x \div whole) + (x % whole) /\ x % whole \in 0 .. whole - 1 /\ x \div whole \in Nat
    BY <1>1
  <2>2. whole * b = b * whole
    BY <2>1
  <2>. HIDE DEF b
  <2>. QED  BY <1>1, <2>1, <2>2 DEF b
<1>. HIDE DEF b
<1>3. \E n \in {b, b + 1} : Near(n)
  <2>. DEFINE q == b * whole
  <2>1. q \in Nat /\ q <= x /\ x < q + whole
    BY <1>2
  <2>2. /\ (2 * b + 1) * whole = 2 * q + whole /\ (2 * b - 1) * whole = 2 * q - whole
        /\ (2 * (b + 1) + 1) * whole = 2 * q + 3 * whole /\ (2 * (b + 1) - 1) * whole = 2 * q + whole
    BY <1>2
  <2>. HIDE DEF q
  <2>3. CASE 2 * x <= 2 * q + whole
    BY <1>1, <2>1, <2>2, <2>3
  <2>4. CASE 2 * x > 2 * q + whole
    BY <1>1, <2>1, <2>2, <2>4
  <2>. QED  BY <1>1, <2>1, <2>3, <2>4
<1>4. Rounded(part, whole, scale) = CHOOSE n \in {b, b + 1} : Near(n)
  BY DEF Rounded, b, x
<1>. HIDE DEF Near
<1>5. Rounded(part, whole, scale) \in {b, b + 1} /\ Near(Rounded(part, whole, scale))
  BY <1>3, <1>4
<1>. QED  BY <1>2, <1>5 DEF Near

\* More than a twentieth in units of a thousandth is more than a twentieth in finer ones too.
LEMMA OverStays ==
  ASSUME NEW e \in Nat, NEW n \in Nat \ {0}, Over(Rounded(e, n, 1000), 5, 1000)
  PROVE  Over(Rounded(e, n, 10000), 5, 10000)
<1>. DEFINE a == Rounded(e, n, 1000)
            b == Rounded(e, n, 10000)
<1>1. a \in Nat /\ (2 * a - 1) * n <= 2 * e * 1000
  BY RoundedIs
<1>2. b \in Nat /\ 2 * e * 10000 <= (2 * b + 1) * n
  BY RoundedIs
<1>3. a * 100 > 5 * 1000
  BY DEF Over
<1>. HIDE DEF a, b
<1>4. 101 <= 2 * a - 1 /\ 2 * a - 1 \in Nat
  BY <1>1, <1>3
<1>5. 101 * n <= (2 * a - 1) * n
  BY <1>4, Times
<1>6. 101 * n <= 2000 * e
  <2>1. \A k \in Nat : k * n \in Nat
    OBVIOUS
  <2>2. 2 * e * 1000 = 2000 * e
    OBVIOUS
  <2>. QED  BY <1>1, <1>4, <1>5, <2>1, <2>2
<1>7. 1010 * n <= (2 * b + 1) * n
  <2>1. 2 * e * 10000 = 10 * (2000 * e) /\ 1010 * n = 10 * (101 * n)
    OBVIOUS
  <2>2. (2 * b + 1) * n \in Nat
    BY <1>2
  <2>. QED  BY <1>2, <1>6, <2>1, <2>2
<1>8. 1010 <= 2 * b + 1
  <2>1. 2 * b + 1 \in Nat
    BY <1>2
  <2>. QED  BY <1>7, <2>1, Times
<1>9. b * 100 > 5 * 10000
  BY <1>2, <1>8
<1>. QED  BY <1>9 DEF Over, b

-----------------------------------------------------------------------------
(* The pages of a host.                                                    *)

\* The counts of the classes are numbers.
LEMMA CountsOfClasses ==
  ASSUME NEW R, R \subseteq Rows, NEW top \in {599, NoTop}
  PROVE  /\ DOMAIN ByClass(R, top) = Classes
         /\ \A c \in Classes : ByClass(R, top)[c] \in Nat
<1>1. ASSUME NEW c \in Classes PROVE ByClass(R, top)[c] \in Nat
  <2>1. /\ InClass(R, c) \in SUBSET Rows /\ BeyondClasses(R) \in SUBSET Rows
    BY DEF InClass, BeyondClasses
  <2>2. Cardinality(InClass(R, c)) \in Nat /\ Cardinality(BeyondClasses(R)) \in Nat
    BY <2>1, RowsHaveTimes, FS_Subset, FS_CardinalityType
  <2>3. \A i, j \in Nat : i + j \in Nat /\ i + 0 \in Nat
    OBVIOUS
  <2>. QED  BY <2>2, <2>3, ByClassCounts
<1>2. DOMAIN ByClass(R, top) = Classes
  BY DEF ByClass
<1>. QED  BY <1>1, <1>2

\* A tile turns red above a tenth of errors, and amber or red above a twentieth.
LEMMA LevelOfErrors ==
  ASSUME NEW rate \in Nat, NEW scale \in Nat
  PROVE  /\ Over(rate, 20, scale) => Over(rate, 5, scale)
         /\ Over(rate, 10, scale) => Over(rate, 5, scale)
         /\ Over(rate, 5, scale) <=> ErrorLevel(rate, scale) # "plain"
         /\ Over(rate, 10, scale) <=> ErrorLevel(rate, scale) = "red"
<1>1. /\ Over(rate, 20, scale) => Over(rate, 5, scale)
      /\ Over(rate, 10, scale) => Over(rate, 5, scale)
  BY DEF Over
<1>2. Over(rate, 10, scale) => ErrorLevel(rate, scale) = "red"
  BY DEF ErrorLevel
<1>3. ~Over(rate, 10, scale) /\ Over(rate, 5, scale) => ErrorLevel(rate, scale) = "amber"
  BY DEF ErrorLevel
<1>4. ~Over(rate, 10, scale) /\ ~Over(rate, 5, scale) => ErrorLevel(rate, scale) = "plain"
  BY DEF ErrorLevel
<1>. QED  BY <1>1, <1>2, <1>3, <1>4

\* Errors are some of the requests.
LEMMA ErrorsCounted ==
  ASSUME NEW R, IsFiniteSet(R)
  PROVE  Errors(R) \in Nat /\ Errors(R) <= Cardinality(R) /\ Cardinality(R) \in Nat
<1>1. {r \in R : r.status # None /\ r.status >= 400} \in SUBSET R
  OBVIOUS
<1>. QED  BY <1>1, FS_Subset, FS_CardinalityType DEF Errors

LEMMA RateIsNumber ==
  ASSUME NEW R, IsFiniteSet(R), NEW scale \in Nat PROVE ErrorRate(R, scale) \in Nat
<1>1. Errors(R) \in Nat /\ Cardinality(R) \in Nat
  BY ErrorsCounted
<1>2. CASE Cardinality(R) = 0
  BY <1>2 DEF ErrorRate, Rounded
<1>3. CASE Cardinality(R) # 0
  BY <1>1, <1>3, RoundedIs DEF ErrorRate
<1>. QED  BY <1>2, <1>3

\* The card of a host counts what its page counts.
LEMMA HostCardCounts ==
  ASSUME NEW rows, rows \subseteq Rows, NEW w, NEW host, host # None,
         BuildWhere(rows, w, HostFilter(host)) # {}
  PROVE  LET R == BuildWhere(rows, w, HostFilter(host))
         IN  /\ HostsPage(rows, w)[host].requests = Cardinality(R)
             /\ HostsPage(rows, w)[host].unique_ips = Cardinality(Values(R, "remote_ip"))
             /\ HostsPage(rows, w)[host].high = Over(ErrorRate(R, 1000), 5, 1000)
<1>. DEFINE R == BuildWhere(rows, w, HostFilter(host))
            A == BuildWhere(rows, w, NoFilter)
            H == GetHosts(rows, w)
<1>1. R = {r \in A : r["host"] = host}
  BY DEF BuildWhere, HostFilter, NoFilter, Chosen, FilterKeys
<1>2. H = [v \in Values(A, "host") |-> Stat({r \in A : r["host"] = v})]
  BY DEF GetHosts, QueryHostsSummary, GroupBy
<1>3. host \in Values(A, "host")
  BY <1>1 DEF Values
<1>4. host \in DOMAIN H /\ H[host] = Stat(R)
  BY <1>1, <1>2, <1>3
<1>5. HostsPage(rows, w)[host] = HostCard(host, Stat(R))
  BY <1>4 DEF HostsPage
<1>6. /\ Stat(R).req_count = Cardinality(R) /\ Stat(R).error_rate = ErrorRate(R, 1000)
      /\ Stat(R).unique_ips = Cardinality(Values(R, "remote_ip"))
  BY DEF Stat
<1>. HIDE DEF R, H, A
<1>7. /\ HostCard(host, Stat(R)).requests = Cardinality(R)
      /\ HostCard(host, Stat(R)).unique_ips = Cardinality(Values(R, "remote_ip"))
      /\ HostCard(host, Stat(R)).high = Over(Stat(R).error_rate, 5, 1000)
  BY <1>6 DEF HostCard
<1>. QED  BY <1>5, <1>6, <1>7 DEF R

\* The classes that occur have shares of all that have a class.
LEMMA HeroShares ==
  ASSUME NEW R, R \subseteq Rows, NEW host
  PROVE  LET shares == HostHero(host, QueryOverview(R)).shares
         IN  DOMAIN shares # {} =>
               SumOf([c \in DOMAIN shares |-> shares[c][1]])
                 = shares[CHOOSE c \in DOMAIN shares : TRUE][2]
<1>. DEFINE req == ByClass(R, NoTop)
            K == {c \in DOMAIN req : req[c] > 0}
            shares == HostHero(host, QueryOverview(R)).shares
<1>1. DOMAIN req = Classes /\ \A c \in Classes : req[c] \in Nat
  BY CountsOfClasses
<1>2. shares = [c \in {c \in Classes : req[c] > 0} |-> <<req[c], OrOne(SumOf(req))>>]
  BY DEF HostHero, QueryOverview
<1>. HIDE DEF req, shares
<1>3. K = {c \in Classes : req[c] > 0}
  BY <1>1
<1>4. DOMAIN shares = K /\ \A c \in K : shares[c] = <<req[c], OrOne(SumOf(req))>>
  BY <1>2, <1>3
<1>5. SumOf([c \in K |-> req[c]]) = SumOf(req) /\ (K # {} => SumOf(req) > 0) /\ SumOf(req) \in Nat
  BY <1>1, ClassesFinite, SharesMakeUp, SumFinite
<1>. HIDE DEF K
<1>6. [c \in DOMAIN shares |-> shares[c][1]] = [c \in K |-> req[c]]
  BY <1>4
<1>7. ASSUME K # {} PROVE OrOne(SumOf(req)) = SumOf(req)
  BY <1>5, <1>7 DEF OrOne
<1>8. DOMAIN shares # {} =>
        SumOf([c \in DOMAIN shares |-> shares[c][1]]) = shares[CHOOSE c \in DOMAIN shares : TRUE][2]
  <2>. SUFFICES ASSUME K # {}
       PROVE  SumOf([c \in DOMAIN shares |-> shares[c][1]]) = shares[CHOOSE c \in DOMAIN shares : TRUE][2]
    BY <1>4
  <2>1. (CHOOSE c \in DOMAIN shares : TRUE) \in K
    BY <1>4
  <2>. QED  BY <1>4, <1>5, <1>6, <1>7, <2>1
<1>. QED  BY <1>8 DEF shares

\* Every request is in one cell of the heatmap, and every cell that is asked for is drawn.
LEMMA HeatmapCounts ==
  ASSUME NEW R, R \subseteq Rows
  PROVE  LET busy == QueryHostPatterns(R).busy_hours
         IN  /\ SumOf(Column(HourHeatmap(busy), "count")) = Cardinality(R)
             /\ DOMAIN busy = {} <=> R = {}
<1>. DEFINE Cell(r) == <<DayOfWeek(r.ts), HourOfDay(r.ts)>>
            busy == QueryHostPatterns(R).busy_hours
            Cells == (0 .. 6) \X (0 .. Day \div Hour - 1)
            key == [r \in R |-> Cell(r)]
            f == Column(HourHeatmap(busy), "count")
<1>1. busy = [k \in {Cell(r) : r \in R} |-> Cardinality({r \in R : Cell(r) = k})]
  BY DEF QueryHostPatterns
<1>2. \A r \in R : Cell(r) \in Cells
  <2>1. \A t \in Nat : DayOfWeek(t) \in 0 .. 6 /\ HourOfDay(t) \in 0 .. Day \div Hour - 1
    BY DEF DayOfWeek, HourOfDay, Day, Hour
  <2>2. \A r \in R : r.ts \in Nat
    BY RowsHaveTimes
  <2>. QED  BY <2>1, <2>2
<1>3. f = [k \in Cells |-> IF k \in DOMAIN busy THEN busy[k] ELSE 0]
  BY DEF HourHeatmap, Column
<1>. HIDE DEF Cell
<1>4. /\ DOMAIN busy = {Cell(r) : r \in R}
      /\ \A k \in DOMAIN busy : busy[k] = Cardinality({r \in R : Cell(r) = k})
  BY <1>1
<1>. HIDE DEF busy, f, Cells
<1>5. \A k : {r \in R : key[r] = k} = {r \in R : Cell(r) = k}
  OBVIOUS
<1>6. DOMAIN f = Cells /\ \A r \in R : key[r] \in DOMAIN f
  BY <1>2, <1>3
<1>7. ASSUME NEW k \in DOMAIN f PROVE f[k] = Cardinality({r \in R : key[r] = k})
  <2>1. CASE k \in DOMAIN busy
    BY <1>3, <1>4, <1>5, <1>6, <2>1
  <2>2. CASE k \notin DOMAIN busy
    <3>1. {r \in R : Cell(r) = k} = {}
      BY <1>4, <2>2
    <3>2. f[k] = 0
      BY <1>3, <1>6, <2>2
    <3>. QED  BY <1>5, <3>1, <3>2, FS_EmptySet
  <2>. QED  BY <2>1, <2>2
<1>8. IsFiniteSet(R)
  BY RowsHaveTimes, FS_Subset
<1>. HIDE DEF key
<1>9. SumOf(f) = Cardinality(R)
  BY <1>6, <1>7, <1>8, SumOfGroups
<1>. QED  BY <1>4, <1>9 DEF f, busy

\* Every request has a protocol, if only Unknown.
LEMMA ProtocolsCount ==
  ASSUME NEW R, R \subseteq Rows
  PROVE  SumOf(QueryHostPatterns(R).protocols) = Cardinality(R)
<1>. DEFINE Name(r) == IF r.http_proto = None THEN "Unknown" ELSE r.http_proto
            key == [r \in R |-> Name(r)]
            Of(p) == {r \in R : p = r.http_proto \/ (p = "Unknown" /\ r.http_proto = None)}
            f == QueryHostPatterns(R).protocols
<1>1. f = [p \in {Name(r) : r \in R} |-> Cardinality(Of(p))]
  BY DEF QueryHostPatterns
<1>2. \A q \in R : Of(Name(q)) = {r \in R : Name(r) = Name(q)}
  OBVIOUS
<1>. HIDE DEF Name, Of
<1>3. DOMAIN f = {Name(r) : r \in R} /\ \A q \in R : f[Name(q)] = Cardinality(Of(Name(q)))
  BY <1>1
<1>. HIDE DEF f
<1>4. \A p : {r \in R : key[r] = p} = {r \in R : Name(r) = p}
  OBVIOUS
<1>5. ASSUME NEW p \in DOMAIN f PROVE f[p] = Cardinality({r \in R : key[r] = p})
  <2>. HIDE DEF key
  <2>1. PICK q \in R : p = Name(q)
    BY <1>3
  <2>2. f[p] = Cardinality(Of(Name(q))) /\ Of(Name(q)) = {r \in R : Name(r) = p}
    BY <1>2, <1>3, <2>1
  <2>. QED  BY <1>4, <2>2
<1>6. \A r \in R : key[r] \in DOMAIN f
  BY <1>3
<1>7. IsFiniteSet(R)
  BY RowsHaveTimes, FS_Subset
<1>. HIDE DEF key
<1>8. SumOf(f) = Cardinality(R)
  BY <1>5, <1>6, <1>7, SumOfGroups
<1>. QED  BY <1>8 DEF f

\* The visitors listed count no more than all requests, and all of them when they fit.
LEMMA VisitorsCount ==
  ASSUME NEW R, R \subseteq Rows, NEW ips \in QueryTopIps(R)
  PROVE  LET listed == SumOf(Column(VisitorsCard(ips), "requests"))
         IN  /\ listed <= Cardinality(R)
             /\ listed = Cardinality(R) <=> Cardinality(Values(R, "remote_ip")) <= Limit["groups"]
<1>1. Column(VisitorsCard(ips), "requests") = Column(ips, "req_count")
  BY DEF VisitorsCard, Column
<1>2. IsFiniteSet(R)
  BY RowsHaveTimes, FS_Subset
<1>3. Limit["groups"] \in Nat \ {0}
  BY ListsHaveLimits DEF LimitedLists
<1>4. ips \in TopBy(GroupBy(R, "remote_ip"), "req_count", Limit["groups"])
  BY DEF QueryTopIps
<1>. QED  BY <1>1, <1>2, <1>3, <1>4, TopListed

\* The page of a host: tiles, charts, lists, heatmap and the card that leads to it.
LEMMA HostTotals ==
  ASSUME NEW rows, rows \subseteq Rows, NEW w, NEW host, host # None
  PROVE  HostTotalsAgree(rows, w, host)
<1>. DEFINE R == BuildWhere(rows, w, HostFilter(host))
            o == QueryOverview(R)
            patterns == QueryHostPatterns(R)
            page == HostDetail(rows, w, host)
            n == page.tiles.requests
<1>1. R \subseteq Rows /\ IsFiniteSet(R) /\ Cardinality(R) \in Nat
  BY FoundFinite
<1>2. /\ page.tiles = HostTiles(o) /\ page.hero = HostHero(host, o)
      /\ page.charts = HostCharts(QueryTimeseries(R, w.bucket), QueryPerformance(R, w.bucket))
      /\ page.patterns = PatternsTab(patterns)
      /\ page.visitors = {VisitorsCard(ips) : ips \in QueryTopIps(R)}
  BY DEF HostDetail
<1>3. /\ o.total_requests = Cardinality(R) /\ o.unique_ips = Cardinality(Values(R, "remote_ip"))
      /\ o.error_rate = ErrorRate(R, 10000)
  BY DEF QueryOverview
<1>. HIDE DEF page, o
<1>4. /\ page.tiles.requests = Cardinality(R) /\ page.hero.requests = Cardinality(R)
      /\ page.tiles.unique_ips = Cardinality(Values(R, "remote_ip"))
      /\ page.tiles.level = ErrorLevel(ErrorRate(R, 10000), 10000)
      /\ page.hero.all_requests = HostFilter(host)
  BY <1>2, <1>3 DEF HostTiles, HostHero
<1>5. SumOf(page.charts.traffic) = Cardinality(R)
  <2>1. page.charts.traffic = Column(QueryTimeseries(R, w.bucket), "req_count")
    BY <1>2 DEF HostCharts
  <2>. QED  BY <1>1, <2>1, SeriesTotal
<1>6. page.charts.latency # None => page.charts.latency \subseteq DOMAIN page.charts.traffic
  <2>1. /\ page.charts.latency # None => page.charts.latency = QueryPerformance(R, w.bucket)
        /\ DOMAIN page.charts.traffic = DOMAIN QueryTimeseries(R, w.bucket)
    BY <1>2 DEF HostCharts, Column
  <2>2. QueryPerformance(R, w.bucket) \subseteq DOMAIN QueryTimeseries(R, w.bucket)
    BY DEF QueryPerformance, QueryTimeseries, Known
  <2>. QED  BY <2>1, <2>2
<1>7. ASSUME NEW visitors \in page.visitors
      PROVE  LET listed == SumOf(Column(visitors, "requests"))
             IN  listed <= n /\ (listed = n <=> page.tiles.unique_ips <= Limit["groups"])
  <2>1. PICK ips \in QueryTopIps(R) : visitors = VisitorsCard(ips)
    BY <1>2, <1>7
  <2>. HIDE DEF R
  <2>. QED  BY <1>1, <1>4, <2>1, VisitorsCount
<1>8. ASSUME n > 0
      PROVE  /\ HostsPage(rows, w)[host].requests = n
             /\ HostsPage(rows, w)[host].unique_ips = page.tiles.unique_ips
             /\ HostsPage(rows, w)[host].high => page.tiles.level # "plain"
  <2>1. R # {}
    BY <1>1, <1>4, <1>8, FS_EmptySet
  <2>2. /\ HostsPage(rows, w)[host].requests = Cardinality(R)
        /\ HostsPage(rows, w)[host].unique_ips = Cardinality(Values(R, "remote_ip"))
        /\ HostsPage(rows, w)[host].high = Over(ErrorRate(R, 1000), 5, 1000)
    BY <2>1, HostCardCounts
  <2>. HIDE DEF R
  <2>3. Over(ErrorRate(R, 1000), 5, 1000) => Over(ErrorRate(R, 10000), 5, 10000)
    <3>1. Errors(R) \in Nat /\ Cardinality(R) \in Nat \ {0}
      BY <1>1, <1>4, <1>8, ErrorsCounted
    <3>. QED  BY <3>1, OverStays DEF ErrorRate
  <2>4. Over(ErrorRate(R, 10000), 5, 10000) <=> page.tiles.level # "plain"
    BY <1>1, <1>4, RateIsNumber, LevelOfErrors
  <2>5. HostsPage(rows, w)[host].high => page.tiles.level # "plain"
    BY <2>2, <2>3, <2>4
  <2>. QED  BY <1>4, <2>2, <2>5
<1>9. /\ (n > 0) <=> (page.patterns # NoPanel)
      /\ page.patterns # NoPanel =>
           /\ SumOf(Column(page.patterns.heatmap, "count")) = n
           /\ SumOf(Column(page.patterns.protocols, "count")) = n
           /\ page.patterns.bots.count <= n
  <2>1. /\ SumOf(Column(HourHeatmap(patterns.busy_hours), "count")) = Cardinality(R)
        /\ DOMAIN patterns.busy_hours = {} <=> R = {}
        /\ SumOf(patterns.protocols) = Cardinality(R)
    BY <1>1, HeatmapCounts, ProtocolsCount
  <2>2. R # {} <=> Cardinality(R) > 0
    BY <1>1, FS_EmptySet
  <2>3. {r \in R : r.is_bot} \in SUBSET R /\ patterns.bot_count = Cardinality({r \in R : r.is_bot})
    BY DEF QueryHostPatterns
  <2>4. patterns.bot_count <= Cardinality(R)
    BY <1>1, <2>3, FS_Subset
  <2>. HIDE DEF R, patterns
  <2>5. CASE Nonempty(patterns.busy_hours)
    <3>1. /\ page.patterns.heatmap = HourHeatmap(patterns.busy_hours)
          /\ page.patterns.protocols = [p \in DOMAIN patterns.protocols |->
                         BarRow(patterns.protocols[p], OrOne(SumOf(patterns.protocols)))]
          /\ page.patterns.bots.count = patterns.bot_count
          /\ page.patterns # NoPanel
      BY <1>2, <2>5 DEF PatternsTab, NoPanel
    <3>2. Column(page.patterns.protocols, "count") = [p \in DOMAIN patterns.protocols |-> patterns.protocols[p]]
      BY <3>1 DEF Column, BarRow
    <3>3. patterns.protocols = [p \in DOMAIN patterns.protocols |-> patterns.protocols[p]]
      BY DEF patterns, QueryHostPatterns
    <3>4. n > 0
      BY <1>4, <2>1, <2>2, <2>5 DEF Nonempty
    <3>5. n = Cardinality(R)
      BY <1>4
    <3>. HIDE DEF n
    <3>. QED  BY <2>1, <2>4, <3>1, <3>2, <3>3, <3>4, <3>5
  <2>6. CASE ~Nonempty(patterns.busy_hours)
    <3>1. page.patterns = NoPanel
      BY <1>2, <2>6 DEF PatternsTab
    <3>2. ~(n > 0)
      BY <1>4, <2>1, <2>2, <2>6 DEF Nonempty
    <3>. HIDE DEF n
    <3>. QED  BY <3>1, <3>2
  <2>. QED  BY <2>5, <2>6
<1>10. DOMAIN page.hero.shares # {} =>
           SumOf([c \in DOMAIN page.hero.shares |-> page.hero.shares[c][1]])
             = page.hero.shares[CHOOSE c \in DOMAIN page.hero.shares : TRUE][2]
  BY <1>1, <1>2, HeroShares DEF o
<1>11. n = Cardinality(BuildWhere(rows, w, page.hero.all_requests)) /\ page.hero.requests = n
  BY <1>4
<1>12. SumOf(page.charts.traffic) = n
  BY <1>4, <1>5
<1>. HIDE DEF n, R
<1>. QED  BY <1>6, <1>7, <1>8, <1>9, <1>10, <1>11, <1>12 DEF HostTotalsAgree, page, n

\* The part of the requests a filter by class finds.
LEMMA FoundByClass ==
  ASSUME NEW rows, NEW w, NEW f, f.status_class = None, NEW g, NEW c \in Classes,
         g.status_class = c, \A k \in FilterKeys \ {"status_class"} : g[k] = f[k],
         DOMAIN f = FilterKeys, DOMAIN g = FilterKeys
  PROVE  BuildWhere(rows, w, g) = InClass(BuildWhere(rows, w, f), c)
<1>1. /\ g.host = f.host /\ g.remote_ip = f.remote_ip /\ g.method = f.method
      /\ g.path = f.path /\ g.country = f.country
  BY DEF FilterKeys
<1>2. c # None
  BY NullIsNoValue
<1>. QED  BY <1>1, <1>2 DEF BuildWhere, InClass, Chosen

\* The classes share out the requests that have one.
LEMMA ClassesShareOut ==
  ASSUME NEW S, S \subseteq Rows
  PROVE  SumOf(ByClass(S, 599)) \in Nat /\ SumOf(ByClass(S, 599)) <= Cardinality(S)
<1>. DEFINE C == {r \in S : GetStatusClass(r.status) \in Classes}
            key == [r \in C |-> GetStatusClass(r.status)]
            f == ByClass(S, 599)
<1>1. IsFiniteSet(S) /\ C \in SUBSET S
  BY RowsHaveTimes, FS_Subset
<1>2. IsFiniteSet(C) /\ Cardinality(C) <= Cardinality(S)
  BY <1>1, FS_Subset
<1>3. \A c \in Classes : {r \in C : key[r] = c} = InClass(S, c)
  BY DEF InClass
<1>4. DOMAIN f = Classes /\ \A c \in Classes : f[c] = Cardinality(InClass(S, c))
  BY CountsOfClasses, ByClassCounts
<1>5. \A r \in C : key[r] \in Classes
  OBVIOUS
<1>. HIDE DEF C, key, f
<1>6. SumOf(f) = Cardinality(C) /\ SumOf(f) \in Nat
  BY <1>2, <1>3, <1>4, <1>5, SumOfGroups
<1>. QED  BY <1>2, <1>6 DEF f

\* The shares of the classes that occur are of all that was counted.
LEMMA SharesOfClasses ==
  ASSUME NEW S, S \subseteq Rows, NEW whole
  PROVE  LET req == ByClass(S, 599)
             bar == [c \in {c \in Classes : req[c] > 0} |-> <<req[c], whole>>]
         IN  SumOf([c \in DOMAIN bar |-> bar[c][1]]) <= Cardinality(S)
<1>. DEFINE req == ByClass(S, 599)
            K == {c \in DOMAIN req : req[c] > 0}
            bar == [c \in {c \in Classes : req[c] > 0} |-> <<req[c], whole>>]
<1>1. DOMAIN req = Classes /\ \A c \in Classes : req[c] \in Nat
  BY CountsOfClasses
<1>2. SumOf(req) <= Cardinality(S)
  BY ClassesShareOut
<1>. HIDE DEF req
<1>3. SumOf([c \in K |-> req[c]]) = SumOf(req)
  BY <1>1, ClassesFinite, SharesMakeUp
<1>4. [c \in DOMAIN bar |-> bar[c][1]] = [c \in K |-> req[c]]
  BY <1>1
<1>. HIDE DEF bar, K
<1>5. SumOf([c \in DOMAIN bar |-> bar[c][1]]) <= Cardinality(S)
  BY <1>2, <1>3, <1>4
<1>. QED  BY <1>5 DEF bar, req

Paths(R) == Values(Known(R, "path"), "path")
OnPath(R, p) == {r \in R : r.path = p}

\* The paths by status, all of them, are those of the requests on each path.
LEMMA PathsAnswered ==
  ASSUME NEW R, R \subseteq Rows
  PROVE  LET paths == PathsByStatus(R)
         IN  /\ DOMAIN paths = Paths(R) /\ IsFiniteSet(Paths(R))
             /\ \A p \in Paths(R) :
                  /\ p # None /\ paths[p].total = Cardinality(OnPath(R, p))
                  /\ paths[p].req = ByClass(OnPath(R, p), 599)
                  /\ \A c \in Classes : paths[p].req[c] = Cardinality(InClass(OnPath(R, p), c))
<1>1. PathsByStatus(R) = [p \in Paths(R) |->
          [total |-> Cardinality(OnPath(R, p)), req |-> ByClass(OnPath(R, p), 599)]]
  BY DEF PathsByStatus, Paths, OnPath
<1>2. \A p \in Paths(R) : p # None
  BY DEF Paths, Values, Known
<1>3. \A p : OnPath(R, p) \in SUBSET Rows
  BY DEF OnPath
<1>4. \A p : \A c \in Classes : ByClass(OnPath(R, p), 599)[c] = Cardinality(InClass(OnPath(R, p), c))
  BY <1>3, ByClassCounts
<1>5. IsFiniteSet(Paths(R))
  <2>. DEFINE g == [r \in Known(R, "path") |-> r["path"]]
  <2>1. Known(R, "path") \in SUBSET Rows
    BY DEF Known
  <2>2. IsFiniteSet(Known(R, "path"))
    BY <2>1, RowsHaveTimes, FS_Subset
  <2>3. Paths(R) = {g[r] : r \in DOMAIN g} /\ DOMAIN g = Known(R, "path")
    BY DEF Paths, Values
  <2>. HIDE DEF g
  <2>. QED  BY <2>2, <2>3, RangeFinite
<1>. QED  BY <1>1, <1>2, <1>4, <1>5

\* An answer has the first of them, all of them if they fit.
LEMMA PathsLed ==
  ASSUME NEW R, R \subseteq Rows, NEW paths \in QueryPathsByStatus(R)
  PROVE  /\ DOMAIN paths \subseteq Paths(R) /\ IsFiniteSet(Paths(R))
         /\ Cardinality(Paths(R)) <= Limit["paths"] => DOMAIN paths = Paths(R)
         /\ \A p \in DOMAIN paths :
              /\ p # None /\ paths[p].total = Cardinality(OnPath(R, p))
              /\ paths[p].req = ByClass(OnPath(R, p), 599)
              /\ \A c \in Classes : paths[p].req[c] = Cardinality(InClass(OnPath(R, p), c))
<1>. DEFINE all == PathsByStatus(R)
            key == Column(all, "total")
<1>1. PICK K \in Leading(key, Limit["paths"]) : paths = [p \in K |-> all[p]]
  <2>1. paths \in {Restrict(all, K) : K \in Leading(key, Limit["paths"])}
    BY DEF QueryPathsByStatus, TopBy
  <2>. HIDE DEF all, key
  <2>. QED  BY <2>1 DEF Restrict
<1>2. /\ DOMAIN all = Paths(R) /\ IsFiniteSet(Paths(R))
      /\ \A p \in Paths(R) :
           /\ p # None /\ all[p].total = Cardinality(OnPath(R, p))
           /\ all[p].req = ByClass(OnPath(R, p), 599)
           /\ \A c \in Classes : all[p].req[c] = Cardinality(InClass(OnPath(R, p), c))
  BY PathsAnswered
<1>3. DOMAIN key = DOMAIN all
  BY DEF Column
<1>4. Limit["paths"] \in Nat
  BY ListsHaveLimits DEF LimitedLists
<1>. HIDE DEF all, key
<1>5. K \subseteq Paths(R) /\ (K = Paths(R) <=> Cardinality(Paths(R)) <= Limit["paths"])
  BY <1>1, <1>2, <1>3, <1>4, LeadingSize
<1>. QED  BY <1>1, <1>2, <1>5

\* The requests of a class, or all.
OfClass(R, c) == IF c = "all" THEN R ELSE InClass(R, c)

\* The figures on the buttons of the paths.
LEMMA ButtonsCount ==
  ASSUME NEW R, R \subseteq Rows, NEW paths \in QueryPathsByStatus(R), NEW c \in PathFilters
  PROVE  LET n == Cardinality(Known(OfClass(R, c), "path"))
         IN  /\ PathButtons(paths)[c] \in Nat /\ PathButtons(paths)[c] <= n
             /\ Cardinality(Paths(R)) <= Limit["paths"] => PathButtons(paths)[c] = n
<1>. DEFINE Count(p) == Cardinality(OfClass(OnPath(R, p), c))
            f == [p \in Paths(R) |-> Count(p)]
            K == Known(OfClass(R, c), "path")
            key == [r \in K |-> r.path]
<1>1. /\ DOMAIN paths \subseteq Paths(R) /\ IsFiniteSet(Paths(R))
      /\ Cardinality(Paths(R)) <= Limit["paths"] => DOMAIN paths = Paths(R)
      /\ \A p \in DOMAIN paths :
           /\ paths[p].total = Cardinality(OnPath(R, p))
           /\ \A d \in Classes : paths[p].req[d] = Cardinality(InClass(OnPath(R, p), d))
  BY PathsLed
<1>2. \A p \in DOMAIN paths : PathCount(paths[p], c) = Count(p)
  BY <1>1 DEF PathCount, OfClass, PathFilters
<1>3. PathButtons(paths)[c] = SumOf([p \in DOMAIN paths |-> f[p]])
  <2>1. PathButtons(paths)[c] = SumOf([p \in DOMAIN paths |-> PathCount(paths[p], c)])
    BY DEF PathButtons
  <2>2. [p \in DOMAIN paths |-> PathCount(paths[p], c)] = [p \in DOMAIN paths |-> f[p]]
    BY <1>1, <1>2
  <2>. QED  BY <2>1, <2>2
<1>4. \A p \in Paths(R) : p # None
  BY DEF Paths, Values, Known
<1>5. \A p \in Paths(R) : {r \in K : key[r] = p} = OfClass(OnPath(R, p), c)
  BY <1>4 DEF Known, OnPath, OfClass, InClass
<1>6. \A r \in K : key[r] \in Paths(R)
  BY DEF Paths, Values, Known, OfClass, InClass
<1>7. K \in SUBSET Rows /\ \A p : OfClass(OnPath(R, p), c) \in SUBSET Rows
  BY DEF Known, OfClass, OnPath, InClass
<1>8. DOMAIN f = Paths(R) /\ \A p \in DOMAIN f : f[p] = Count(p) /\ f[p] \in Nat
  BY <1>7, RowsHaveTimes, FS_Subset, FS_CardinalityType
<1>. HIDE DEF f, K, key
<1>9. SumOf(f) = Cardinality(K)
  <2>1. IsFiniteSet(K)
    BY <1>7, RowsHaveTimes, FS_Subset
  <2>2. \A p \in DOMAIN f : f[p] = Cardinality({r \in K : key[r] = p})
    BY <1>5, <1>8
  <2>. QED  BY <1>6, <1>8, <2>1, <2>2, SumOfGroups
<1>10. SumOf([p \in DOMAIN paths |-> f[p]]) \in Nat /\ SumOf([p \in DOMAIN paths |-> f[p]]) <= SumOf(f)
  BY <1>1, <1>8, SumOfFewer
<1>11. ASSUME DOMAIN paths = Paths(R) PROVE SumOf([p \in DOMAIN paths |-> f[p]]) = SumOf(f)
  <2>1. [p \in DOMAIN paths |-> f[p]] = f
    BY <1>11 DEF f
  <2>. QED  BY <2>1
<1>. QED  BY <1>1, <1>3, <1>9, <1>10, <1>11 DEF K

\* A list in order has everything that is shown.
LEMMA OrderedIsWhole ==
  ASSUME NEW paths, NEW c, IsFiniteSet(PathsShown(paths, c)), NEW s \in PathsInOrder(paths, c)
  PROVE  {s[i] : i \in DOMAIN s} = PathsShown(paths, c)
<1>. DEFINE Shown == PathsShown(paths, c)
            n == Cardinality(Shown)
<1>1. n \in Nat /\ IsFiniteSet(Shown)
  BY FS_CardinalityType
<1>2. s \in [1 .. n -> Shown] /\ \A i, j \in 1 .. n : i < j => s[i] # s[j]
  BY DEF PathsInOrder
<1>. HIDE DEF Shown, n
<1>3. \A i, j \in 1 .. n : i # j => s[i] # s[j]
  <2>1. \A i, j \in 1 .. n : i # j => i < j \/ j < i
    BY <1>1
  <2>. QED  BY <1>2, <2>1
<1>4. s \in Injection(1 .. n, Shown)
  BY <1>2, <1>3 DEF Injection, IsInjective
<1>5. IsFiniteSet(1 .. n) /\ Cardinality(1 .. n) = n
  BY <1>1, FS_Interval
<1>6. s \in Surjection(1 .. n, Shown)
  BY <1>1, <1>4, <1>5, FS_Injection DEF n
<1>. QED  BY <1>2, <1>6 DEF Surjection, Shown

\* The list under a button has only paths that the filter by its class finds, and all of them
\* if they fit.
LEMMA ButtonsList ==
  ASSUME NEW R, R \subseteq Rows, NEW paths \in QueryPathsByStatus(R), NEW c \in PathFilters,
         NEW s \in PathsInOrder(paths, c)
  PROVE  /\ {s[i] : i \in DOMAIN s} \subseteq Paths(OfClass(R, c))
         /\ Cardinality(Paths(R)) <= Limit["paths"] => {s[i] : i \in DOMAIN s} = Paths(OfClass(R, c))
<1>1. /\ DOMAIN paths \subseteq Paths(R) /\ IsFiniteSet(Paths(R))
      /\ Cardinality(Paths(R)) <= Limit["paths"] => DOMAIN paths = Paths(R)
      /\ \A p \in DOMAIN paths :
           /\ p # None /\ \A d \in Classes : paths[p].req[d] = Cardinality(InClass(OnPath(R, p), d))
  BY PathsLed
<1>2. PathsShown(paths, c) = {p \in DOMAIN paths : OfClass(OnPath(R, p), c) # {}}
  <2>1. CASE c = "all"
    <3>1. \A p \in DOMAIN paths : OnPath(R, p) # {}
      BY <1>1 DEF OnPath, Paths, Values, Known
    <3>. QED  BY <2>1, <3>1 DEF PathsShown, OfClass
  <2>2. CASE c # "all"
    <3>1. \A p \in DOMAIN paths : PathCount(paths[p], c) > 0 <=> InClass(OnPath(R, p), c) # {}
      <4>. SUFFICES ASSUME NEW p \in DOMAIN paths
           PROVE  PathCount(paths[p], c) > 0 <=> InClass(OnPath(R, p), c) # {}
        OBVIOUS
      <4>1. InClass(OnPath(R, p), c) \in SUBSET Rows
        BY DEF InClass, OnPath
      <4>2. Cardinality(InClass(OnPath(R, p), c)) > 0 <=> InClass(OnPath(R, p), c) # {}
        BY <4>1, RowsHaveTimes, FS_Subset, FS_CardinalityType, FS_EmptySet
      <4>3. PathCount(paths[p], c) = Cardinality(InClass(OnPath(R, p), c))
        BY <1>1, <2>2 DEF PathCount, PathFilters
      <4>. QED  BY <4>2, <4>3
    <3>. QED  BY <2>2, <3>1 DEF PathsShown, OfClass
  <2>. QED  BY <2>1, <2>2
<1>3. IsFiniteSet(PathsShown(paths, c))
  <2>1. PathsShown(paths, c) \in SUBSET Paths(R)
    BY <1>1, <1>2
  <2>. QED  BY <1>1, <2>1, FS_Subset
<1>4. {s[i] : i \in DOMAIN s} = PathsShown(paths, c)
  BY <1>3, OrderedIsWhole
<1>5. {p \in Paths(R) : OfClass(OnPath(R, p), c) # {}} = Paths(OfClass(R, c))
  <2>1. \A p \in Paths(R) : p # None
    BY DEF Paths, Values, Known
  <2>. QED  BY <2>1 DEF Paths, Values, Known, InClass, OnPath, OfClass
<1>. QED  BY <1>1, <1>2, <1>4, <1>5

\* The page of a host: its paths, the buttons above them and the filters behind them.
LEMMA HostPaths ==
  ASSUME NEW rows, rows \subseteq Rows, NEW w, NEW host
  PROVE  HostPathsAgree(rows, w, host)
<1>. DEFINE R == BuildWhere(rows, w, HostFilter(host))
            page == HostDetail(rows, w, host)
            Of(c) == IF c = "all" THEN R
                     ELSE BuildWhere(rows, w, [HostFilter(host) EXCEPT !.status_class = c])
            fits == Cardinality(Paths(R)) <= Limit["paths"]
<1>1. R \subseteq Rows /\ IsFiniteSet(R) /\ Cardinality(R) \in Nat
  BY FoundFinite
<1>2. /\ page.paths = {PathsTab(paths) : paths \in QueryPathsByStatus(R)}
      /\ page.slow = {SlowTable(slow) : slow \in QuerySlowestPaths(R)}
  BY DEF HostDetail
<1>3. \A c \in PathFilters : Of(c) = OfClass(R, c)
  <2>. SUFFICES ASSUME NEW c \in Classes PROVE Of(c) = OfClass(R, c)
    BY DEF PathFilters, OfClass
  <2>. DEFINE f == HostFilter(host)
              g == [HostFilter(host) EXCEPT !.status_class = c]
  <2>0. c # "all"
    BY DEF Classes
  <2>1. /\ f.status_class = None /\ g.status_class = c /\ DOMAIN f = FilterKeys /\ DOMAIN g = FilterKeys
        /\ \A k \in FilterKeys \ {"status_class"} : g[k] = f[k]
    BY DEF HostFilter, NoFilter, FilterKeys
  <2>. HIDE DEF f, g
  <2>2. BuildWhere(rows, w, g) = InClass(BuildWhere(rows, w, f), c)
    BY <2>1, FoundByClass
  <2>. QED  BY <2>0, <2>2 DEF f, g, OfClass
<1>. HIDE DEF page, R, Of
<1>4. \A c \in Classes : QueryOverview(R).req[c]
        = Cardinality(Of(c)) + IF c = "5xx" THEN Cardinality(BeyondClasses(R)) ELSE 0
  <2>1. QueryOverview(R).req = ByClass(R, NoTop)
    BY DEF QueryOverview
  <2>2. \A c \in Classes : c \in PathFilters /\ c # "all"
    BY DEF PathFilters, Classes
  <2>3. \A c \in Classes : Of(c) = InClass(R, c)
    BY <1>3, <2>2 DEF OfClass
  <2>. QED  BY <1>1, <2>1, <2>3, ByClassCounts
<1>5. ASSUME NEW tab \in page.paths
      PROVE  /\ \A c \in PathFilters :
                  /\ tab.buttons[c] <= Cardinality(Known(Of(c), "path"))
                  /\ fits => tab.buttons[c] = Cardinality(Known(Of(c), "path"))
                  /\ \A s \in tab.listed[c] :
                       /\ {s[i] : i \in DOMAIN s} \subseteq Paths(Of(c))
                       /\ fits => {s[i] : i \in DOMAIN s} = Paths(Of(c))
             /\ fits => \A slow \in page.slow : slow # None => slow \subseteq DOMAIN tab.lines
             /\ \A p \in DOMAIN tab.lines : tab.lines[p].total >=
                  SumOf([c \in DOMAIN tab.lines[p].bar |-> tab.lines[p].bar[c][1]])
  <2>1. PICK paths \in QueryPathsByStatus(R) : tab = PathsTab(paths)
    BY <1>2, <1>5
  <2>2. /\ tab.buttons = PathButtons(paths)
        /\ tab.lines = [p \in DOMAIN paths |-> PathLine(paths[p])]
        /\ \A c \in PathFilters : tab.listed[c] = PathsInOrder(paths, c)
    BY <2>1 DEF PathsTab
  <2>3. /\ DOMAIN paths \subseteq Paths(R) /\ (fits => DOMAIN paths = Paths(R))
        /\ \A p \in DOMAIN paths :
             paths[p].total = Cardinality(OnPath(R, p)) /\ paths[p].req = ByClass(OnPath(R, p), 599)
    BY <1>1, PathsLed
  <2>4. ASSUME NEW c \in PathFilters
        PROVE  /\ tab.buttons[c] <= Cardinality(Known(Of(c), "path"))
               /\ fits => tab.buttons[c] = Cardinality(Known(Of(c), "path"))
    BY <1>1, <1>3, <2>2, ButtonsCount
  <2>5. ASSUME NEW c \in PathFilters, NEW s \in tab.listed[c]
        PROVE  /\ {s[i] : i \in DOMAIN s} \subseteq Paths(Of(c))
               /\ fits => {s[i] : i \in DOMAIN s} = Paths(Of(c))
    <3>1. s \in PathsInOrder(paths, c)
      BY <2>2, <2>5
    <3>. QED  BY <1>1, <1>3, <3>1, ButtonsList
  <2>6. ASSUME fits, NEW slow \in page.slow, slow # None PROVE slow \subseteq DOMAIN tab.lines
    <3>1. slow \in QuerySlowestPaths(R)
      BY <1>2, <2>6 DEF SlowTable
    <3>2. slow \subseteq Paths(R)
      BY <3>1 DEF QuerySlowestPaths, Leading, Counts, Values, Known, Paths
    <3>. QED  BY <2>2, <2>3, <2>6, <3>2
  <2>7. ASSUME NEW p \in DOMAIN tab.lines
        PROVE  tab.lines[p].total >= SumOf([c \in DOMAIN tab.lines[p].bar |-> tab.lines[p].bar[c][1]])
    <3>. DEFINE S == OnPath(R, p)
                req == ByClass(S, 599)
                bar == [c \in {c \in Classes : req[c] > 0} |-> <<req[c], OrOne(Cardinality(S))>>]
    <3>1. p \in DOMAIN paths /\ tab.lines[p] = PathLine(paths[p])
      BY <2>2
    <3>2. tab.lines[p].total = Cardinality(S) /\ tab.lines[p].bar = bar
      BY <2>3, <3>1 DEF PathLine
    <3>3. S \in SUBSET Rows
      BY <1>1 DEF OnPath
    <3>4. SumOf([c \in DOMAIN bar |-> bar[c][1]]) <= Cardinality(S) /\ Cardinality(S) \in Nat
      BY <3>3, SharesOfClasses, RowsHaveTimes, FS_Subset, FS_CardinalityType
    <3>. HIDE DEF bar, S
    <3>. QED  BY <3>2, <3>4
  <2>. QED  BY <2>4, <2>5, <2>6, <2>7
<1>. QED  BY <1>4, <1>5 DEF HostPathsAgree, page, R, Of, BeyondClasses, Paths

-----------------------------------------------------------------------------
(* The pages of an address.                                                *)

\* What the pills add up is what the classes count.
LEMMA PillsByClass ==
  ASSUME NEW R, R \subseteq Rows, NEW profile, profile.req_count = Cardinality(R)
  PROVE  LET pills == FilterCounts(profile, QueryStatusCodes(R))
         IN  /\ DOMAIN pills = PathFilters /\ pills["all"] = Cardinality(R)
             /\ \A c \in Classes : pills[c] = ByClass(R, NoTop)[c]
<1>. DEFINE codes == QueryStatusCodes(R)
            Between(low, high) == {s \in DOMAIN codes : low <= s /\ s < high}
            In(low, high) == SumOf([s \in Between(low, high) |-> codes[s]])
            pills == FilterCounts(profile, codes)
            Found(low, high) == {r \in R : r.status # None /\ low <= r.status /\ r.status < high}
<1>0. /\ pills = [c \in PathFilters |->
           CASE c = "all" -> profile.req_count [] c = "2xx" -> In(200, 300)
             [] c = "3xx" -> In(300, 400) [] c = "4xx" -> In(400, 500) [] c = "5xx" -> In(500, 1000)]
  BY DEF FilterCounts
<1>1. /\ DOMAIN codes = Values(Known(R, "status"), "status")
      /\ \A s \in DOMAIN codes : codes[s] = Cardinality({r \in Known(R, "status") : r.status = s})
  BY DEF QueryStatusCodes, Counts
<1>. HIDE DEF codes
<1>2. ASSUME NEW low, NEW high PROVE In(low, high) = Cardinality(Found(low, high))
  <2>. DEFINE K == Found(low, high)
              key == [r \in K |-> r.status]
              f == [s \in Between(low, high) |-> codes[s]]
  <2>1. \A r \in K : r \in Known(R, "status") /\ key[r] = r.status /\ key[r] \in DOMAIN f
    BY <1>1 DEF Known, Values
  <2>2. \A s \in DOMAIN f : f[s] = Cardinality({r \in Known(R, "status") : r.status = s})
    BY <1>1
  <2>3. \A s \in DOMAIN f : {r \in K : key[r] = s} = {r \in Known(R, "status") : r.status = s}
    BY <2>1 DEF Known
  <2>4. K \in SUBSET Rows
    OBVIOUS
  <2>. HIDE DEF K, key, f
  <2>5. IsFiniteSet(K)
    BY <2>4, RowsHaveTimes, FS_Subset
  <2>6. \A s \in DOMAIN f : f[s] = Cardinality({r \in K : key[r] = s})
    BY <2>2, <2>3
  <2>7. SumOf(f) = Cardinality(K)
    BY <2>1, <2>5, <2>6, SumOfGroups
  <2>. QED  BY <2>7 DEF f, K
<1>. HIDE DEF In, Between
<1>3. /\ DOMAIN pills = PathFilters /\ pills["all"] = Cardinality(R)
      /\ pills["2xx"] = In(200, 300) /\ pills["3xx"] = In(300, 400)
      /\ pills["4xx"] = In(400, 500) /\ pills["5xx"] = In(500, 1000)
  BY <1>0 DEF PathFilters, Classes
<1>. HIDE DEF pills
<1>4. /\ Low("2xx") = 200 /\ Low("3xx") = 300 /\ Low("4xx") = 400 /\ Low("5xx") = 500
  BY DEF Low
<1>. DEFINE Upto(c) == {r \in R : /\ r.status # None /\ Low(c) <= r.status
                                 /\ r.status <= IF c = "5xx" THEN NoTop ELSE Low(c) + 99}
<1>5. ASSUME NEW c \in Classes PROVE ByClass(R, NoTop)[c] = Cardinality(Upto(c))
  BY DEF ByClass, Low, Classes
<1>6. \A r \in R : r.status # None => r.status \in 0 .. 999
  BY RowsHaveColumns DEF NoTop
<1>. DEFINE Whole(s) == /\ s < 300 <=> s <= 299
                        /\ s < 400 <=> s <= 399
                        /\ s < 500 <=> s <= 499
                        /\ s < 1000 <=> s <= 999
<1>7. \A r \in R : r.status # None => Whole(r.status)
  <2>1. \A s \in 0 .. 999 : Whole(s)
    OBVIOUS
  <2>. HIDE DEF Whole
  <2>. QED  BY <1>6, <2>1, Zenon
<1>8. /\ Found(200, 300) = Upto("2xx") /\ Found(300, 400) = Upto("3xx")
      /\ Found(400, 500) = Upto("4xx") /\ Found(500, 1000) = Upto("5xx")
  <2>1. Upto("2xx") = {r \in R : r.status # None /\ 200 <= r.status /\ r.status <= 299}
    BY <1>4
  <2>2. Upto("3xx") = {r \in R : r.status # None /\ 300 <= r.status /\ r.status <= 399}
    BY <1>4
  <2>3. Upto("4xx") = {r \in R : r.status # None /\ 400 <= r.status /\ r.status <= 499}
    BY <1>4
  <2>4. Upto("5xx") = {r \in R : r.status # None /\ 500 <= r.status /\ r.status <= 999}
    BY <1>4 DEF NoTop
  <2>. HIDE DEF Upto
  <2>5. Found(200, 300) = Upto("2xx")
    BY <1>7, <2>1
  <2>6. Found(300, 400) = Upto("3xx")
    BY <1>7, <2>2
  <2>7. Found(400, 500) = Upto("4xx")
    BY <1>7, <2>3
  <2>8. Found(500, 1000) = Upto("5xx")
    BY <1>7, <2>4
  <2>. QED  BY <2>5, <2>6, <2>7, <2>8
<1>9. \A c \in Classes : pills[c] = ByClass(R, NoTop)[c]
  <2>. HIDE DEF Found, Upto
  <2>. QED  BY <1>2, <1>3, <1>5, <1>8 DEF Classes
<1>. QED  BY <1>3, <1>9 DEF pills, codes

\* What is behind a filter of the tab of an address.
LEMMA BehindPill ==
  ASSUME NEW rows, NEW w, NEW ip
  PROVE  /\ IpRows(rows, w, ip) = BuildWhere(rows, w, IpFilter(ip))
         /\ WithClass(IpFilter(ip), "all") = IpFilter(ip)
         /\ \A c \in Classes :
              BuildWhere(rows, w, WithClass(IpFilter(ip), c)) = InClass(IpRows(rows, w, ip), c)
<1>1. IpRows(rows, w, ip) = BuildWhere(rows, w, IpFilter(ip))
  BY DEF IpRows, IpFilter
<1>2. ASSUME NEW c \in Classes
      PROVE  BuildWhere(rows, w, WithClass(IpFilter(ip), c)) = InClass(BuildWhere(rows, w, IpFilter(ip)), c)
  <2>. DEFINE f == IpFilter(ip)
              g == [IpFilter(ip) EXCEPT !.status_class = c]
  <2>1. /\ f.status_class = None /\ g.status_class = c /\ DOMAIN f = FilterKeys /\ DOMAIN g = FilterKeys
        /\ \A k \in FilterKeys \ {"status_class"} : g[k] = f[k]
    BY DEF IpFilter, NoFilter, FilterKeys
  <2>2. WithClass(IpFilter(ip), c) = g
    BY DEF WithClass, Classes
  <2>. HIDE DEF f, g
  <2>3. BuildWhere(rows, w, g) = InClass(BuildWhere(rows, w, f), c)
    BY <2>1, FoundByClass
  <2>. QED  BY <2>2, <2>3 DEF f
<1>. QED  BY <1>1, <1>2 DEF WithClass

\* The page of an address: a pill counts what the tab behind it lists.
LEMMA Pills ==
  ASSUME NEW rows, rows \subseteq Rows, NEW events, NEW w, NEW ip
  PROVE  PillsCount(rows, events, w, ip)
<1>. DEFINE R == IpRows(rows, w, ip)
            page == IPDetail(rows, events, w, ip)
            profile == QueryIpProfile(R)
            First(c) == RequestsTab(rows, w, ip, c, 1)
<1>1. R \subseteq Rows /\ Cardinality(R) \in Nat
  BY BehindPill, FoundFinite
<1>2. page.pills = FilterCounts(profile, QueryStatusCodes(R)) /\ profile.req_count = Cardinality(R)
  BY DEF IPDetail, QueryIpDetail, QueryIpProfile
<1>3. \A c : /\ First(c).total = Cardinality(BuildWhere(rows, w, WithClass(IpFilter(ip), c)))
             /\ First(c).explorer = WithClass(IpFilter(ip), c)
  BY DEF RequestsTab, QueryRequestsPage
<1>. HIDE DEF profile, page, First
<1>4. page.pills["all"] = Cardinality(R) /\ \A c \in Classes : page.pills[c] = ByClass(R, NoTop)[c]
  BY <1>1, <1>2, PillsByClass
<1>5. /\ First("all").total = Cardinality(R)
      /\ \A c \in Classes : First(c).total = Cardinality(InClass(R, c))
  BY <1>3, BehindPill
<1>. HIDE DEF R
<1>6. page.pills["all"] = First("all").total + 0
  BY <1>1, <1>4, <1>5
<1>7. \A c \in Classes : page.pills[c] = First(c).total
                           + IF c = "5xx" THEN Cardinality(BeyondClasses(R)) ELSE 0
  BY <1>1, <1>4, <1>5, ByClassCounts
<1>8. ASSUME NEW c \in PathFilters
      PROVE  /\ page.pills[c] = First(c).total + IF c = "5xx" THEN Cardinality(BeyondClasses(R)) ELSE 0
             /\ Cardinality(BuildWhere(rows, w, First(c).explorer)) = First(c).total
  BY <1>3, <1>6, <1>7 DEF PathFilters
<1>. QED  BY <1>8 DEF PillsCount, page, First, R, BeyondClasses

\* One part and the rest make the sum.
LEMMA SumSplit ==
  ASSUME NEW f, IsFiniteSet(DOMAIN f), \A k \in DOMAIN f : f[k] \in Nat, NEW a \in DOMAIN f
  PROVE  SumOf(f) = f[a] + SumOf([k \in DOMAIN f \ {a} |-> f[k]])
<1>. DEFINE g == [k \in DOMAIN f \ {a} |-> f[k]]
            F == UNION {{k} \X (1 .. f[k]) : k \in DOMAIN f}
            G == UNION {{k} \X (1 .. g[k]) : k \in DOMAIN g}
            A == {a} \X (1 .. f[a])
<1>1. DOMAIN g = DOMAIN f \ {a} /\ \A k \in DOMAIN g : g[k] = f[k]
  OBVIOUS
<1>2. F = A \cup G
  <2>. HIDE DEF g
  <2>. QED  BY <1>1
<1>3. A \cap G = {}
  <2>. HIDE DEF g
  <2>. QED  BY <1>1
<1>4. IsFiniteSet(A) /\ Cardinality(A) = f[a]
  <2>1. f[a] \in Nat /\ IsFiniteSet(1 .. f[a]) /\ Cardinality(1 .. f[a]) = f[a]
    BY FS_Interval
  <2>2. IsFiniteSet({a}) /\ Cardinality({a}) = 1
    BY FS_Singleton
  <2>3. IsFiniteSet({a} \X (1 .. f[a]))
        /\ Cardinality({a} \X (1 .. f[a])) = Cardinality({a}) * Cardinality(1 .. f[a])
    BY <2>1, <2>2, FS_Product
  <2>. QED  BY <2>1, <2>2, <2>3
<1>5. IsFiniteSet(DOMAIN g) /\ \A k \in DOMAIN g : g[k] \in Nat
  BY <1>1, FS_Subset
<1>. HIDE DEF g, A
<1>6. IsFiniteSet(G)
  BY <1>5, SumFinite
<1>. HIDE DEF F, G
<1>7. Cardinality(F) = f[a] + Cardinality(G)
  <2>1. Cardinality(A \cap G) = 0
    BY <1>3, FS_EmptySet
  <2>2. Cardinality(A \cup G) = Cardinality(A) + Cardinality(G) - Cardinality(A \cap G)
    BY <1>4, <1>6, FS_Union
  <2>3. Cardinality(G) \in Nat /\ f[a] \in Nat
    BY <1>6, FS_CardinalityType
  <2>. QED  BY <1>2, <1>4, <2>1, <2>2, <2>3
<1>. QED  BY <1>7 DEF SumOf, F, G, g

\* The pills of the classes are of requests with a status.
LEMMA PillsWithin ==
  ASSUME NEW R, R \subseteq Rows, NEW pills, DOMAIN pills = PathFilters,
         pills["all"] = Cardinality(R), \A c \in Classes : pills[c] = ByClass(R, NoTop)[c]
  PROVE  SumOf(QueryStatusCodes(R)) >= SumOf(pills) - Cardinality(R)
<1>. DEFINE Top(c) == IF c = "5xx" THEN BeyondClasses(R) ELSE {}
            K == {r \in R : GetStatusClass(r.status) \in Classes} \cup BeyondClasses(R)
            Class(r) == IF r \in BeyondClasses(R) THEN "5xx" ELSE GetStatusClass(r.status)
            key == [r \in K |-> Class(r)]
            f == [c \in Classes |-> pills[c]]
<1>1. K \in SUBSET Known(R, "status") /\ Known(R, "status") \in SUBSET Rows
  <2>1. \A r \in R : GetStatusClass(r.status) \in Classes => r.status # None
    BY NullIsNoValue DEF GetStatusClass
  <2>. QED  BY <2>1 DEF Known, BeyondClasses
<1>2. /\ IsFiniteSet(K) /\ Cardinality(K) \in Nat /\ Cardinality(Known(R, "status")) \in Nat
      /\ Cardinality(K) <= Cardinality(Known(R, "status"))
      /\ IsFiniteSet(Known(R, "status"))
  <2>. HIDE DEF K
  <2>1. IsFiniteSet(Known(R, "status"))
    BY <1>1, RowsHaveTimes, FS_Subset
  <2>. QED  BY <1>1, <2>1, FS_Subset, FS_CardinalityType
<1>3. \A r \in BeyondClasses(R) : r \in R /\ GetStatusClass(r.status) = None
  <2>1. \A r \in BeyondClasses(R) : r \in R /\ r.status \in 0 .. 999 /\ r.status > 599
    BY RowsHaveColumns DEF BeyondClasses, NoTop
  <2>. QED  BY <2>1, ClassOfNumber
<1>4. ASSUME NEW c \in Classes PROVE {r \in K : key[r] = c} = InClass(R, c) \cup Top(c)
  <2>1. None # c
    BY NullIsNoValue
  <2>. QED  BY <1>3, <2>1 DEF InClass
<1>5. \A r \in K : key[r] \in Classes
  BY DEF Classes
<1>6. \A c \in Classes : ByClass(R, NoTop)[c] = Cardinality(InClass(R, c) \cup Top(c))
  <2>. DEFINE Upto(c) == {r \in R : /\ r.status # None /\ Low(c) <= r.status
                                   /\ r.status <= IF c = "5xx" THEN NoTop ELSE Low(c) + 99}
  <2>1. ASSUME NEW c \in Classes PROVE ByClass(R, NoTop)[c] = Cardinality(Upto(c))
    BY DEF ByClass, Low, Classes
  <2>2. \A c \in Classes : Upto(c) = InClass(R, c) \cup Top(c)
    BY ByClassCounts
  <2>. HIDE DEF Upto, Top
  <2>. QED  BY <2>1, <2>2
<1>. HIDE DEF K, key, Top
<1>7. DOMAIN f = Classes /\ \A c \in DOMAIN f : f[c] = Cardinality({r \in K : key[r] = c})
  BY <1>4, <1>6
<1>8. SumOf(f) = Cardinality(K)
  <2>. HIDE DEF f
  <2>. QED  BY <1>2, <1>5, <1>7, SumOfGroups
<1>9. SumOf(pills) = Cardinality(R) + SumOf(f)
  <2>1. IsFiniteSet({"all"}) /\ IsFiniteSet(PathFilters)
    BY ClassesFinite, FS_Singleton, FS_Union DEF PathFilters
  <2>2. PathFilters \ {"all"} = Classes /\ "all" \in PathFilters
    BY DEF PathFilters, Classes
  <2>3. R \in SUBSET Rows
    OBVIOUS
  <2>4. Cardinality(R) \in Nat
    BY <2>3, RowsHaveTimes, FS_Subset, FS_CardinalityType
  <2>5. \A c \in DOMAIN pills : pills[c] \in Nat
    BY <2>4, CountsOfClasses DEF PathFilters
  <2>6. SumOf(pills) = pills["all"] + SumOf([c \in PathFilters \ {"all"} |-> pills[c]])
    BY <2>1, <2>2, <2>5, SumSplit
  <2>. QED  BY <2>2, <2>6
<1>10. SumOf(QueryStatusCodes(R)) = Cardinality(Known(R, "status"))
  BY <1>2, GroupTotals DEF QueryStatusCodes
<1>11. Cardinality(R) \in Nat
  BY RowsHaveTimes, FS_Subset, FS_CardinalityType
<1>. HIDE DEF f
<1>. QED  BY <1>2, <1>8, <1>9, <1>10, <1>11

\* The hours of the day count each request once, and one request is in one hour.
LEMMA HoursCount ==
  ASSUME NEW R, R \subseteq Rows
  PROVE  LET chart == BusyHoursChart(QueryIpDetail(R).busy_hours)
         IN  /\ SumOf(Column(chart.bars, "err")) = Errors(R)
             /\ SumOf(Column(chart.bars, "ok")) + Errors(R) = Cardinality(R)
             /\ Cardinality(R) < Day \div Hour => ~chart.allHoursActive
             /\ DOMAIN QueryIpDetail(R).busy_hours = {} <=> R = {}
<1>. DEFINE hours == 0 .. Day \div Hour - 1
            In(h) == {r \in R : HourOfDay(r.ts) = h}
            busy == QueryIpDetail(R).busy_hours
            Asked(h) == IF h \in DOMAIN busy THEN busy[h].req_count ELSE 0
            Failed(h) == IF h \in DOMAIN busy THEN busy[h].err_count ELSE 0
            chart == BusyHoursChart(busy)
            E == {r \in R : r.status # None /\ r.status >= 400}
<1>1. /\ DOMAIN busy = {HourOfDay(r.ts) : r \in R}
      /\ \A h \in DOMAIN busy : busy[h].req_count = Cardinality(In(h)) /\ busy[h].err_count = Errors(In(h))
  BY DEF QueryIpDetail
<1>2. /\ chart.bars = [h \in hours |-> [ok |-> Asked(h) - Failed(h), err |-> Failed(h)]]
      /\ chart.allHoursActive <=> \A h \in hours : Asked(h) > 0
  BY DEF BusyHoursChart
<1>3. \A r \in R : HourOfDay(r.ts) \in hours
  <2>1. \A t \in Nat : HourOfDay(t) \in hours
    BY DEF HourOfDay, Day, Hour
  <2>. QED  BY <2>1, RowsHaveTimes
<1>. HIDE DEF busy, chart, hours
<1>4. /\ IsFiniteSet(R) /\ Cardinality(R) \in Nat /\ IsFiniteSet(E) /\ IsFiniteSet(R \ E)
      /\ Cardinality(E) \in Nat /\ Cardinality(R \ E) \in Nat /\ Cardinality(R \ E) + Cardinality(E) = Cardinality(R)
  <2>1. IsFiniteSet(R)
    BY RowsHaveTimes, FS_Subset
  <2>2. E \in SUBSET R /\ R \cap E = E
    OBVIOUS
  <2>. HIDE DEF E
  <2>3. IsFiniteSet(E)
    BY <2>1, <2>2, FS_Subset
  <2>4. IsFiniteSet(R \ E) /\ Cardinality(R \ E) = Cardinality(R) - Cardinality(R \cap E)
    BY <2>1, FS_Difference
  <2>5. Cardinality(R) \in Nat /\ Cardinality(E) \in Nat /\ Cardinality(R \ E) \in Nat
    BY <2>1, <2>3, <2>4, FS_CardinalityType
  <2>6. Cardinality(R \ E) = Cardinality(R) - Cardinality(E)
    BY <2>2, <2>4
  <2>. QED  BY <2>1, <2>3, <2>4, <2>5, <2>6
<1>5. \A h \in hours : Asked(h) = Cardinality(In(h)) /\ Failed(h) = Errors(In(h))
  <2>. SUFFICES ASSUME NEW h \in hours PROVE Asked(h) = Cardinality(In(h)) /\ Failed(h) = Errors(In(h))
    OBVIOUS
  <2>1. CASE h \in DOMAIN busy
    BY <1>1, <2>1
  <2>2. CASE h \notin DOMAIN busy
    <3>1. In(h) = {} /\ {r \in In(h) : r.status # None /\ r.status >= 400} = {}
      BY <1>1, <2>2
    <3>. HIDE DEF In
    <3>. QED  BY <2>2, <3>1, FS_EmptySet DEF Errors
  <2>. QED  BY <2>1, <2>2
<1>. HIDE DEF Asked, Failed
<1>6. \A h : Errors(In(h)) = Cardinality({r \in E : HourOfDay(r.ts) = h})
  <2>1. \A h : {r \in In(h) : r.status # None /\ r.status >= 400} = {r \in E : HourOfDay(r.ts) = h}
    OBVIOUS
  <2>. QED  BY <2>1 DEF Errors
<1>7. \A h : Cardinality(In(h)) - Errors(In(h)) = Cardinality({r \in R \ E : HourOfDay(r.ts) = h})
  <2>. SUFFICES ASSUME NEW h
       PROVE  Cardinality(In(h)) - Errors(In(h)) = Cardinality({r \in R \ E : HourOfDay(r.ts) = h})
    OBVIOUS
  <2>. DEFINE B == {r \in E : HourOfDay(r.ts) = h}
              A == {r \in R \ E : HourOfDay(r.ts) = h}
  <2>1. In(h) \in SUBSET R /\ In(h) \cap B = B /\ In(h) \ B = A
    OBVIOUS
  <2>2. IsFiniteSet(In(h))
    BY <1>4, <2>1, FS_Subset
  <2>. HIDE DEF A, B, In
  <2>3. Cardinality(In(h) \ B) = Cardinality(In(h)) - Cardinality(In(h) \cap B)
    BY <2>2, FS_Difference
  <2>4. Cardinality(A) = Cardinality(In(h)) - Cardinality(B)
    BY <2>1, <2>3
  <2>. QED  BY <1>6, <2>4 DEF A, B
<1>. HIDE DEF E
<1>8. SumOf(Column(chart.bars, "err")) = Cardinality(E)
  <2>. DEFINE f == Column(chart.bars, "err")
              key == [r \in E |-> HourOfDay(r.ts)]
  <2>1. DOMAIN f = hours /\ \A h \in hours : f[h] = Cardinality({r \in E : HourOfDay(r.ts) = h})
    <3>1. f = [h \in hours |-> Failed(h)]
      BY <1>2 DEF Column
    <3>2. \A h \in hours : Failed(h) = Cardinality({r \in E : HourOfDay(r.ts) = h})
      BY <1>5, <1>6
    <3>. HIDE DEF f
    <3>. QED  BY <3>1, <3>2
  <2>2. \A h : {r \in E : key[r] = h} = {r \in E : HourOfDay(r.ts) = h}
    OBVIOUS
  <2>3. \A r \in E : key[r] \in DOMAIN f
    BY <1>3, <2>1 DEF E
  <2>4. \A h \in DOMAIN f : f[h] = Cardinality({r \in E : key[r] = h})
    BY <2>1, <2>2
  <2>. HIDE DEF f, key
  <2>5. SumOf(f) = Cardinality(E)
    BY <1>4, <2>3, <2>4, SumOfGroups
  <2>. QED  BY <2>5 DEF f
<1>9. SumOf(Column(chart.bars, "ok")) = Cardinality(R \ E)
  <2>. DEFINE f == Column(chart.bars, "ok")
              O == R \ E
              key == [r \in O |-> HourOfDay(r.ts)]
  <2>1. DOMAIN f = hours /\ \A h \in hours : f[h] = Cardinality({r \in O : HourOfDay(r.ts) = h})
    <3>1. f = [h \in hours |-> Asked(h) - Failed(h)]
      BY <1>2 DEF Column
    <3>2. \A h \in hours : Asked(h) - Failed(h) = Cardinality({r \in O : HourOfDay(r.ts) = h})
      BY <1>5, <1>7
    <3>. HIDE DEF f
    <3>. QED  BY <3>1, <3>2
  <2>2. \A h : {r \in O : key[r] = h} = {r \in O : HourOfDay(r.ts) = h}
    OBVIOUS
  <2>3. \A r \in O : key[r] \in DOMAIN f
    BY <1>3, <2>1
  <2>4. \A h \in DOMAIN f : f[h] = Cardinality({r \in O : key[r] = h})
    BY <2>1, <2>2
  <2>. HIDE DEF f, key
  <2>5. SumOf(f) = Cardinality(O)
    BY <1>4, <2>3, <2>4, SumOfGroups
  <2>. QED  BY <2>5 DEF f
<1>10. Errors(R) = Cardinality(E)
  BY DEF Errors, E
<1>11. ASSUME chart.allHoursActive PROVE ~(Cardinality(R) < Day \div Hour)
  <2>1. Day \div Hour = 2 /\ 0 \in hours /\ 1 \in hours
    BY DEF Day, Hour, hours
  <2>2. Cardinality(In(0)) > 0 /\ Cardinality(In(1)) > 0
    BY <1>2, <1>5, <1>11, <2>1
  <2>3. In(0) # {} /\ In(1) # {}
    <3>. HIDE DEF In
    <3>. QED  BY <2>2, FS_EmptySet
  <2>4. PICK r \in R, q \in R : HourOfDay(r.ts) = 0 /\ HourOfDay(q.ts) = 1
    BY <2>3
  <2>5. r # q
    BY <2>4
  <2>6. Cardinality({r}) = 1 /\ IsFiniteSet({r}) /\ Cardinality({r} \cup {q}) = Cardinality({r}) + 1
    BY <2>5, FS_Singleton, FS_AddElement
  <2>7. {r} \cup {q} \in SUBSET R
    OBVIOUS
  <2>8. Cardinality({r} \cup {q}) <= Cardinality(R)
    BY <1>4, <2>7, FS_Subset
  <2>9. Cardinality({r} \cup {q}) = 2
    BY <2>6
  <2>10. Cardinality(R) \in Nat /\ 2 <= Cardinality(R)
    BY <1>4, <2>8, <2>9
  <2>. QED  BY <2>1, <2>10
<1>12. DOMAIN busy = {} <=> R = {}
  BY <1>1
<1>13. SumOf(Column(chart.bars, "ok")) + Errors(R) = Cardinality(R)
  BY <1>4, <1>9, <1>10
<1>. QED  BY <1>8, <1>10, <1>11, <1>12, <1>13 DEF chart, busy

\* The page of an address: pills, statuses, timeline, hosts, hours and the log it leads to.
LEMMA IpTotals ==
  ASSUME NEW rows, rows \subseteq Rows, NEW events, NEW w, NEW ip
  PROVE  IpTotalsAgree(rows, events, w, ip)
<1>. DEFINE R == IpRows(rows, w, ip)
            page == IPDetail(rows, events, w, ip)
            profile == QueryIpProfile(R)
            detail == QueryIpDetail(R)
            n == page.tiles.requests
            hours == page.activity.hours
            chart == BusyHoursChart(detail.busy_hours)
<1>1. R \subseteq Rows /\ IsFiniteSet(R) /\ Cardinality(R) \in Nat
      /\ R = BuildWhere(rows, w, IpFilter(ip))
  BY BehindPill, FoundFinite
<1>2. /\ page.tiles = IpTiles(profile, detail) /\ page.hero = IpHero(ip, profile, detail)
      /\ page.timeline = Column(detail.timeline, "req_count")
      /\ page.activity = ActivityTab(detail)
      /\ page.buttons = {PathButtons(paths) : paths \in QueryPathsByStatus(R)}
      /\ page.pills = FilterCounts(profile, detail.status_codes)
  BY DEF IPDetail
<1>3. /\ profile.req_count = Cardinality(R) /\ profile.error_rate = ErrorRate(R, 1000)
      /\ profile.hosts_count = Cardinality(Values(R, "host"))
      /\ detail.hosts_accessed = TopBy(GroupBy(R, "host"), "req_count", Limit["hosts"])
      /\ detail.status_codes = QueryStatusCodes(R)
  BY DEF QueryIpProfile, QueryIpDetail
<1>4. /\ DOMAIN detail.timeline = {r.ts \div Hour : r \in R}
      /\ \A b \in DOMAIN detail.timeline :
           detail.timeline[b].req_count = Cardinality({r \in R : r.ts \div Hour = b})
  BY DEF QueryIpDetail
<1>. HIDE DEF page, profile, R
<1>5. n = Cardinality(R) /\ page.tiles.hosts = Cardinality(Values(R, "host"))
      /\ page.tiles.error_rate = ErrorRate(R, 1000) /\ page.hero.all_requests = IpFilter(ip)
  BY <1>2, <1>3 DEF IpTiles, IpHero
<1>6. page.pills["all"] = n /\ SumOf(Column(page.activity.statuses, "count")) >= SumOf(page.pills) - n
  <2>1. /\ DOMAIN page.pills = PathFilters /\ page.pills["all"] = Cardinality(R)
        /\ \A c \in Classes : page.pills[c] = ByClass(R, NoTop)[c]
    BY <1>1, <1>2, <1>3, PillsByClass
  <2>2. SumOf(QueryStatusCodes(R)) >= SumOf(page.pills) - Cardinality(R)
    BY <1>1, <2>1, PillsWithin
  <2>3. Column(page.activity.statuses, "count")
          = [s \in DOMAIN QueryStatusCodes(R) |-> QueryStatusCodes(R)[s]]
    BY <1>2, <1>3 DEF ActivityTab, StatusCard, Column
  <2>4. [s \in DOMAIN QueryStatusCodes(R) |-> QueryStatusCodes(R)[s]] = QueryStatusCodes(R)
    BY DEF QueryStatusCodes, Counts
  <2>. QED  BY <1>5, <2>1, <2>2, <2>3, <2>4
<1>7. SumOf(page.timeline) = n
  <2>. DEFINE f == Column(detail.timeline, "req_count")
              key == [r \in R |-> r.ts \div Hour]
  <2>1. /\ DOMAIN f = {r.ts \div Hour : r \in R}
        /\ \A b \in DOMAIN f : f[b] = Cardinality({r \in R : r.ts \div Hour = b})
    BY <1>4 DEF Column
  <2>2. \A b : {r \in R : key[r] = b} = {r \in R : r.ts \div Hour = b}
    OBVIOUS
  <2>3. \A r \in R : key[r] \in DOMAIN f
    BY <2>1
  <2>. HIDE DEF f
  <2>4. \A b \in DOMAIN f : f[b] = Cardinality({r \in R : key[r] = b})
    BY <2>1, <2>2
  <2>. HIDE DEF key
  <2>5. SumOf(f) = Cardinality(R)
    BY <1>1, <2>3, <2>4, SumOfGroups
  <2>. QED  BY <1>2, <1>5, <2>5 DEF f
<1>8. ASSUME NEW hosts \in page.activity.hosts
      PROVE  LET listed == SumOf(Column(hosts.lines, "requests"))
             IN  /\ hosts.heading = IF page.tiles.hosts < Limit["hosts"] THEN page.tiles.hosts ELSE Limit["hosts"]
                 /\ listed <= n /\ (listed = n <=> page.tiles.hosts <= Limit["hosts"])
  <2>1. page.activity.hosts = {HostsAccessed(t) : t \in TopBy(GroupBy(R, "host"), "req_count", Limit["hosts"])}
    BY <1>2, <1>3 DEF ActivityTab
  <2>2. PICK t \in TopBy(GroupBy(R, "host"), "req_count", Limit["hosts"]) : hosts = HostsAccessed(t)
    BY <1>8, <2>1
  <2>3. hosts.heading = Cardinality(DOMAIN t) /\ Column(hosts.lines, "requests") = Column(t, "req_count")
    BY <2>2 DEF HostsAccessed, Column
  <2>4. Limit["hosts"] \in Nat \ {0}
    BY ListsHaveLimits DEF LimitedLists
  <2>. QED  BY <1>1, <1>5, <2>2, <2>3, <2>4, TopListed
<1>9. ASSUME NEW buttons \in page.buttons PROVE buttons["all"] <= n
  <2>1. PICK paths \in QueryPathsByStatus(R) : buttons = PathButtons(paths)
    BY <1>2, <1>9
  <2>2. "all" \in PathFilters /\ OfClass(R, "all") = R
    BY DEF PathFilters, OfClass
  <2>3. buttons["all"] \in Nat /\ buttons["all"] <= Cardinality(Known(R, "path"))
    BY <1>1, <2>1, <2>2, ButtonsCount
  <2>4. Known(R, "path") \in SUBSET R
    BY DEF Known
  <2>5. IsFiniteSet(Known(R, "path")) /\ Cardinality(Known(R, "path")) <= Cardinality(R)
    BY <1>1, <2>4, FS_Subset
  <2>. QED  BY <1>1, <1>5, <2>3, <2>5, FS_CardinalityType
<1>10. /\ SumOf(Column(chart.bars, "err")) = Errors(R)
       /\ SumOf(Column(chart.bars, "ok")) + Errors(R) = Cardinality(R)
       /\ Cardinality(R) < Day \div Hour => ~chart.allHoursActive
       /\ DOMAIN detail.busy_hours = {} <=> R = {}
  BY <1>1, HoursCount
<1>11. hours = IF DOMAIN detail.busy_hours # {} THEN chart ELSE NoPanel
  BY <1>2 DEF ActivityTab, Nonempty
<1>12. chart # NoPanel
  BY DEF BusyHoursChart, NoPanel
<1>. HIDE DEF chart, detail
<1>13. R # {} <=> n > 0
  BY <1>1, <1>5, FS_EmptySet
<1>14. (n > 0) <=> (hours # NoPanel)
  BY <1>10, <1>11, <1>12, <1>13
<1>15. hours # NoPanel =>
         /\ page.tiles.error_rate = Rounded(SumOf(Column(hours.bars, "err")), n, 1000)
         /\ SumOf(Column(hours.bars, "ok")) + SumOf(Column(hours.bars, "err")) = n
         /\ n < Day \div Hour => ~hours.allHoursActive
  BY <1>5, <1>10, <1>11 DEF ErrorRate
<1>16. Cardinality(BuildWhere(rows, w, page.hero.all_requests)) = n
  BY <1>1, <1>5
<1>. HIDE DEF n, hours
<1>. QED  BY <1>6, <1>7, <1>8, <1>9, <1>14, <1>15, <1>16 DEF IpTotalsAgree, page, n, hours

\* The card of an address says what its page says.
LEMMA IpCard ==
  ASSUME NEW rows, rows \subseteq Rows, NEW events, NEW t, NEW ip
  PROVE  IpCardAgrees(rows, events, t, ip)
<1>. DEFINE w == ResolveTimeRange(Preset("l24h"), t)
            R == IpRows(rows, w, ip)
            profile == QueryIpProfile(R)
            page == IPDetail(rows, events, w, ip)
            card == IPCardContent(rows, t, ip)
<1>1. IsFiniteSet(R)
  BY BehindPill, FoundFinite
<1>2. /\ page.tiles.requests = profile.req_count /\ page.hero.threat = Threat(profile.max_threat)
      /\ page.tiles.level = ErrorLevel(profile.error_rate, 1000)
  BY DEF IPDetail, IpTiles, IpHero
<1>3. /\ card.requests = profile.req_count /\ card.threat = Threat(profile.max_threat)
      /\ card.red = Over(profile.error_rate, 10, 1000)
  BY DEF IPCardContent
<1>4. profile.error_rate = ErrorRate(R, 1000)
  BY DEF QueryIpProfile
<1>. HIDE DEF R, profile, page, card
<1>5. Over(ErrorRate(R, 1000), 10, 1000) <=> ErrorLevel(ErrorRate(R, 1000), 1000) = "red"
  BY <1>1, RateIsNumber, LevelOfErrors
<1>6. card.red <=> page.tiles.level = "red"
  BY <1>2, <1>3, <1>4, <1>5
<1>. QED  BY <1>2, <1>3, <1>6 DEF IpCardAgrees, page, card, w

-----------------------------------------------------------------------------
(* The dashboard and the other pages.                                      *)

\* The chart of the types of events counts the lines of the page, all of them if it has a bar
\* for every type.
LEMMA TypesCounted ==
  ASSUME security_events \subseteq Events, NEW rows, NEW w, NEW f
  PROVE  TypesAgree(rows, security_events, w, f)
<1>. SUFFICES ASSUME NEW page \in SecurityPage(rows, security_events, w, f, None, 1), NEW types \in page.types
     PROVE /\ SumOf(types) <= Cardinality(page.log.lines)
           /\ SumOf(types) = Cardinality(page.log.lines)
                <=> Cardinality(Values(page.log.lines, "event_type")) <= Limit["types"]
  BY DEF TypesAgree
<1>1. PICK answer \in GetSecurityEvents(security_events, w, f, None, 1) :
        page.types = TypeChart(answer) /\ page.log.lines = answer.data
  BY DEF SecurityPage, EventsLog
<1>2. IsFiniteSet(answer.data)
  BY EventsAnswered
<1>. DEFINE data == answer.data
            counts == Counts(data, "event_type")
<1>3. types \in {Restrict(counts, K) : K \in Leading(counts, Limit["types"])}
  BY <1>1 DEF TypeChart, TopCounts
<1>. HIDE DEF counts, data
<1>4. PICK K \in Leading(counts, Limit["types"]) : types = [v \in K |-> counts[v]]
  BY <1>3 DEF Restrict
<1>5. Limit["types"] \in Nat
  BY ListsHaveLimits DEF LimitedLists
<1>6. /\ SumOf([v \in K |-> counts[v]]) <= Cardinality(data)
      /\ SumOf([v \in K |-> counts[v]]) = Cardinality(data)
           <=> Cardinality(Values(data, "event_type")) <= Limit["types"]
  BY <1>2, <1>5, TopSum DEF counts, data
<1>. QED  BY <1>1, <1>4, <1>6 DEF data

\* Cardinalities of what is apart add up.
LEMMA ApartAddUp ==
  ASSUME NEW S, NEW T, IsFiniteSet(S), IsFiniteSet(T), S \cap T = {}
  PROVE  /\ IsFiniteSet(S \cup T) /\ Cardinality(S) \in Nat /\ Cardinality(T) \in Nat
         /\ Cardinality(S \cup T) = Cardinality(S) + Cardinality(T)
<1>1. /\ IsFiniteSet(S \cup T)
      /\ Cardinality(S \cup T) = Cardinality(S) + Cardinality(T) - Cardinality(S \cap T)
  BY FS_Union
<1>2. Cardinality(S \cap T) = 0
  BY FS_EmptySet
<1>3. Cardinality(S) \in Nat /\ Cardinality(T) \in Nat
  BY FS_CardinalityType
<1>4. \A x, y \in Nat : x + y - 0 = x + y
  OBVIOUS
<1>. QED  BY <1>1, <1>2, <1>3, <1>4

\* The errors are the two classes of errors, and what is beyond the classes.
LEMMA ErrorsByClass ==
  ASSUME NEW R, R \subseteq Rows
  PROVE  /\ ByClass(R, NoTop)["4xx"] + ByClass(R, NoTop)["5xx"] = Errors(R)
         /\ Cardinality(InClass(R, "4xx")) + Cardinality(InClass(R, "5xx"))
              = Errors(R) - Cardinality(BeyondClasses(R))
<1>. DEFINE A == InClass(R, "4xx")
            B == InClass(R, "5xx")
            C == BeyondClasses(R)
            E == {r \in R : r.status # None /\ r.status >= 400}
<1>1. /\ "4xx" \in Classes /\ "5xx" \in Classes
      /\ Low("4xx") = 400 /\ Low("5xx") = 500
  BY DEF Classes, Low
<1>2. \A r \in R : r.status # None => r.status \in 0 .. 999
  BY RowsHaveColumns DEF NoTop
<1>3. \A r \in R : /\ r \in A <=> r.status # None /\ 400 <= r.status /\ r.status <= 400 + 99
                   /\ r \in B <=> r.status # None /\ 500 <= r.status /\ r.status <= 500 + 99
                   /\ r \in C <=> r.status # None /\ r.status >= 600
  <2>1. ASSUME NEW r \in R
        PROVE  /\ GetStatusClass(r.status) = "4xx"
                    <=> r.status # None /\ 400 <= r.status /\ r.status <= 400 + 99
               /\ GetStatusClass(r.status) = "5xx"
                    <=> r.status # None /\ 500 <= r.status /\ r.status <= 500 + 99
    BY <1>1, ClassOfStatus
  <2>. QED  BY <2>1 DEF InClass, BeyondClasses
<1>4. /\ A \subseteq R /\ B \subseteq R /\ C \subseteq R
      /\ A \in SUBSET Rows /\ B \in SUBSET Rows /\ C \in SUBSET Rows
  BY DEF InClass, BeyondClasses
<1>. HIDE DEF A, B, C
<1>5. \A r \in R : /\ ~(r \in A /\ r \in B) /\ ~(r \in A /\ r \in C) /\ ~(r \in B /\ r \in C)
                   /\ (r \in A \/ r \in B \/ r \in C) <=> (r.status # None /\ r.status >= 400)
  <2>1. ASSUME NEW r \in R, r.status = None PROVE r \notin A /\ r \notin B /\ r \notin C
    BY <1>3, <2>1
  <2>2. ASSUME NEW r \in R, r.status # None
        PROVE  /\ r \in A <=> 400 <= r.status /\ r.status <= 499
               /\ r \in B <=> 500 <= r.status /\ r.status <= 599
               /\ r \in C <=> r.status >= 600
    BY <1>3, <2>2
  <2>3. ASSUME NEW r \in R, r.status # None
        PROVE  /\ ~(r \in A /\ r \in B) /\ ~(r \in A /\ r \in C) /\ ~(r \in B /\ r \in C)
               /\ (r \in A \/ r \in B \/ r \in C) <=> r.status >= 400
    <3>1. r.status \in 0 .. 999
      BY <1>2, <2>3
    <3>2. /\ r \in A <=> 400 <= r.status /\ r.status <= 499
          /\ r \in B <=> 500 <= r.status /\ r.status <= 599
          /\ r \in C <=> r.status >= 600
      BY <2>2, <2>3
    <3>. DEFINE x == r.status
    <3>3. /\ x \in 0 .. 999 /\ (r \in A <=> 400 <= x /\ x <= 499)
          /\ (r \in B <=> 500 <= x /\ x <= 599) /\ (r \in C <=> x >= 600)
      BY <3>1, <3>2
    <3>. HIDE DEF x
    <3>4. /\ ~(r \in A /\ r \in B) /\ ~(r \in A /\ r \in C) /\ ~(r \in B /\ r \in C)
          /\ (r \in A \/ r \in B \/ r \in C) <=> x >= 400
      BY <3>3
    <3>. QED  BY <3>4 DEF x
  <2>. QED  BY <2>1, <2>3
<1>6. A \cap B = {} /\ (A \cup B) \cap C = {} /\ (A \cup B) \cup C = E
  BY <1>4, <1>5
<1>7. IsFiniteSet(A) /\ IsFiniteSet(B) /\ IsFiniteSet(C)
  BY <1>4, RowsHaveTimes, FS_Subset
<1>8. /\ IsFiniteSet(A \cup B) /\ Cardinality(A) \in Nat /\ Cardinality(B) \in Nat
      /\ Cardinality(A \cup B) = Cardinality(A) + Cardinality(B)
  BY <1>6, <1>7, ApartAddUp
<1>9. /\ Cardinality(C) \in Nat
      /\ Cardinality((A \cup B) \cup C) = Cardinality(A \cup B) + Cardinality(C)
  BY <1>6, <1>7, <1>8, ApartAddUp
<1>10. Errors(R) = Cardinality(A) + Cardinality(B) + Cardinality(C)
  BY <1>6, <1>8, <1>9 DEF Errors
<1>11. /\ ByClass(R, NoTop)["4xx"] = Cardinality(A) + 0
       /\ ByClass(R, NoTop)["5xx"] = Cardinality(B) + Cardinality(C)
  BY <1>1, ByClassCounts DEF A, B, C
<1>12. \A a, b, c \in Nat : /\ a + 0 + (b + c) = a + b + c
                            /\ a + b = a + b + c - c
  OBVIOUS
<1>. QED  BY <1>8, <1>9, <1>10, <1>11, <1>12 DEF A, B, C

\* The countries of an answer are some of those of the requests the other filters leave, each
\* with as many as the filter by it finds.
LEMMA CountriesAnswered ==
  ASSUME NEW rows, rows \subseteq Rows, NEW w, NEW f, IsFilter(f),
         NEW countries \in GetTopCountries(rows, w, NoCountry(f))
  PROVE  LET found == Known(BuildWhere(rows, w, NoCountry(f)), "country_code")
             sum == SumOf(Column(countries, "req_count"))
         IN  /\ IsFiniteSet(found) /\ IsFiniteSet(DOMAIN countries)
             /\ DOMAIN countries = {} <=> found = {}
             /\ sum \in Nat /\ sum <= Cardinality(found)
             /\ sum = Cardinality(found) <=> Cardinality(Values(found, "country_code")) <= Limit["groups"]
             /\ \A c \in DOMAIN countries :
                  LET S == BuildWhere(rows, w, [f EXCEPT !.country = c])
                  IN  /\ c # None /\ c \notin DOMAIN Upper /\ countries[c] = Stat(S)
                      /\ S # {} /\ S \subseteq Rows
<1>. DEFINE F == BuildWhere(rows, w, NoCountry(f))
            found == Known(F, "country_code")
            Of(c) == BuildWhere(rows, w, [f EXCEPT !.country = c])
<1>1. countries \in TopBy(GroupBy(found, "country_code"), "req_count", Limit["groups"])
  BY DEF GetTopCountries, QueryTopCountries, NoCountry
<1>2. found \in SUBSET Rows
  BY DEF Known, BuildWhere
<1>3. IsFiniteSet(found)
  BY <1>2, RowsHaveTimes, FS_Subset
<1>4. Limit["groups"] \in Nat \ {0}
  BY ListsHaveLimits DEF LimitedLists
<1>5. ASSUME NEW c, c # None, c \notin DOMAIN Upper PROVE Of(c) = {r \in found : r["country_code"] = c}
  BY <1>5 DEF BuildWhere, Known, NoCountry, IsFilter, FilterKeys, Chosen, UpperCase
<1>6. ASSUME NEW c \in Values(found, "country_code")
      PROVE  /\ c # None /\ c \notin DOMAIN Upper /\ Of(c) # {} /\ Of(c) \subseteq Rows
             /\ Of(c) = {r \in found : r["country_code"] = c}
  <2>1. PICK r \in found : c = r["country_code"]
    BY DEF Values
  <2>2. c # None
    BY <2>1 DEF Known
  <2>. HIDE DEF found, Of
  <2>3. c \notin DOMAIN Upper
    BY <1>2, <2>1, CodesAreCapital
  <2>4. Of(c) = {r2 \in found : r2["country_code"] = c}
    BY <1>5, <2>2, <2>3
  <2>. QED  BY <1>2, <2>1, <2>2, <2>3, <2>4
<1>. DEFINE sum == SumOf(Column(countries, "req_count"))
<1>. HIDE DEF found, Of
<1>7. /\ DOMAIN countries \subseteq Values(found, "country_code") /\ IsFiniteSet(DOMAIN countries)
      /\ \A c \in DOMAIN countries : countries[c] = Stat({r \in found : r["country_code"] = c})
      /\ sum \in Nat /\ sum <= Cardinality(found)
      /\ sum = Cardinality(found) <=> Cardinality(Values(found, "country_code")) <= Limit["groups"]
      /\ DOMAIN countries = {} <=> found = {}
  BY <1>1, <1>3, <1>4, TopListed
<1>8. \A c \in DOMAIN countries : /\ c # None /\ c \notin DOMAIN Upper /\ countries[c] = Stat(Of(c))
                                  /\ Of(c) # {} /\ Of(c) \subseteq Rows
  BY <1>6, <1>7
<1>. HIDE DEF sum
<1>. QED  BY <1>3, <1>7, <1>8 DEF found, Of, sum

\* A set of numbers has a smallest one.
LEMMA LeastExists ==
  ASSUME NEW S, S \subseteq Nat, S # {} PROVE \E m \in S : \A x \in S : m <= x
<1>1. PICK m \in S : \A x \in S : ~ (<<x, m>> \in OpToRel(<, Nat))
  BY NatLessThanWellFounded, WFMin
<1>2. \A x \in S : ~ (x < m)
  BY <1>1 DEF OpToRel
<1>. QED  BY <1>2

\* Of finitely many, by an order in which any two can be compared, there is one all others
\* are at most.
LEMMA BestExists ==
  ASSUME NEW D, IsFiniteSet(D), D # {}, NEW leq,
         \A a, b \in D : <<a, b>> \in leq \/ <<b, a>> \in leq,
         \A a, b, c \in D : <<a, b>> \in leq /\ <<b, c>> \in leq => <<a, c>> \in leq
  PROVE  \E c \in D : \A d \in D : <<d, c>> \in leq
<1>. DEFINE Better(c) == {d \in D : <<d, c>> \notin leq}
            N == {Cardinality(Better(c)) : c \in D}
<1>1. \A c \in D : IsFiniteSet(Better(c)) /\ Cardinality(Better(c)) \in Nat
  <2>1. \A c \in D : Better(c) \in SUBSET D
    OBVIOUS
  <2>. HIDE DEF Better
  <2>. QED  BY <2>1, FS_Subset, FS_CardinalityType
<1>2. PICK n \in N : \A m \in N : n <= m
  <2>1. N \subseteq Nat /\ N # {}
    BY <1>1
  <2>. HIDE DEF N
  <2>. QED  BY <2>1, LeastExists
<1>3. PICK c \in D : n = Cardinality(Better(c))
  OBVIOUS
<1>4. ASSUME NEW d \in Better(c) PROVE FALSE
  <2>1. d \in D /\ <<c, d>> \in leq
    OBVIOUS
  <2>2. Better(d) \subseteq Better(c) /\ d \notin Better(d)
    BY <2>1
  <2>3. Cardinality(Better(d)) \in N
    BY <2>1
  <2>. HIDE DEF Better, N
  <2>4. Cardinality(Better(d)) <= Cardinality(Better(c))
        /\ (Cardinality(Better(d)) = Cardinality(Better(c)) => Better(d) = Better(c))
    BY <1>1, <2>2, FS_Subset
  <2>5. Cardinality(Better(d)) < Cardinality(Better(c))
    BY <1>1, <1>4, <2>1, <2>2, <2>4
  <2>. QED  BY <1>1, <1>2, <1>3, <2>1, <2>3, <2>5
<1>. QED  BY <1>4

\* Of finitely many numbers, one is the greatest.
LEMMA GreatestExists ==
  ASSUME NEW g, IsFiniteSet(DOMAIN g), DOMAIN g # {}, \A c \in DOMAIN g : g[c] \in Nat
  PROVE  \E c \in DOMAIN g : \A d \in DOMAIN g : g[d] <= g[c]
<1>. DEFINE D == DOMAIN g
            leq == {p \in D \X D : g[p[1]] <= g[p[2]]}
<1>1. ASSUME NEW d \in DOMAIN g, NEW c \in DOMAIN g PROVE <<d, c>> \in leq <=> g[d] <= g[c]
  <2>1. d \in D /\ c \in D
    OBVIOUS
  <2>. HIDE DEF D
  <2>. QED  BY <2>1
<1>. HIDE DEF leq
<1>2. \A a, b \in DOMAIN g : <<a, b>> \in leq \/ <<b, a>> \in leq
  <2>1. \A x, y \in Nat : x <= y \/ y <= x
    OBVIOUS
  <2>. QED  BY <1>1, <2>1
<1>3. \A a, b, c \in DOMAIN g : <<a, b>> \in leq /\ <<b, c>> \in leq => <<a, c>> \in leq
  <2>1. \A x, y, z \in Nat : x <= y /\ y <= z => x <= z
    OBVIOUS
  <2>. QED  BY <1>1, <2>1
<1>4. \E c \in DOMAIN g : \A d \in DOMAIN g : <<d, c>> \in leq
  BY <1>2, <1>3, BestExists
<1>. QED  BY <1>1, <1>4

\* A country is fine up to a twentieth of errors.
LEMMA HealthOK == ASSUME NEW rate \in Nat PROVE CountryHealth(rate) = "OK" <=> ~Over(rate, 5, 1000)
<1>1. Over(rate, 20, 1000) => Over(rate, 5, 1000)
  BY LevelOfErrors
<1>2. Over(rate, 10, 1000) => Over(rate, 5, 1000)
  BY LevelOfErrors
<1>. QED  BY <1>1, <1>2 DEF CountryHealth

\* The worst of the countries is there, and when it is fine all are.
LEMMA WorstExists ==
  ASSUME NEW table, IsFiniteSet(DOMAIN table), DOMAIN table # {},
         \A c \in DOMAIN table : table[c].error_rate \in Nat
  PROVE  LET worst == {c \in DOMAIN table : \A d \in DOMAIN table : table[d].error_rate <= table[c].error_rate}
         IN  /\ worst # {}
             /\ \A c \in worst : CountryHealth(table[c].error_rate) = "OK" =>
                  \A d \in DOMAIN table : CountryHealth(table[d].error_rate) = "OK"
<1>. DEFINE g == [c \in DOMAIN table |-> table[c].error_rate]
<1>1. DOMAIN g = DOMAIN table /\ \A c \in DOMAIN table : g[c] = table[c].error_rate /\ g[c] \in Nat
  OBVIOUS
<1>. HIDE DEF g
<1>2. \E c \in DOMAIN table : \A d \in DOMAIN table : g[d] <= g[c]
  BY <1>1, GreatestExists
<1>3. ASSUME NEW c \in DOMAIN table, \A d \in DOMAIN table : table[d].error_rate <= table[c].error_rate,
             CountryHealth(table[c].error_rate) = "OK", NEW d \in DOMAIN table
      PROVE  CountryHealth(table[d].error_rate) = "OK"
  <2>. DEFINE e == table[c].error_rate
              x == table[d].error_rate
  <2>1. e \in Nat /\ x \in Nat /\ x <= e /\ CountryHealth(e) = "OK"
    BY <1>3
  <2>. HIDE DEF e, x
  <2>2. ~Over(e, 5, 1000)
    BY <2>1, HealthOK
  <2>3. ~Over(x, 5, 1000)
    BY <2>1, <2>2 DEF Over
  <2>4. CountryHealth(x) = "OK"
    BY <2>1, <2>3, HealthOK
  <2>. QED  BY <2>4 DEF x
<1>. QED  BY <1>1, <1>2, <1>3

LinesCount(rows, w, f, list) ==
  LET Of(c) == BuildWhere(rows, w, [f EXCEPT !.country = c])
  IN  /\ SumOf([c \in DOMAIN list |-> list[c].bar.count])
           <= Cardinality(Known(BuildWhere(rows, w, NoCountry(f)), "country_code"))
      /\ SumOf([c \in DOMAIN list |-> list[c].bar.count]) \in Nat
      /\ \A c \in DOMAIN list :
           /\ c # None /\ c \notin DOMAIN Upper /\ list[c].bar.count = Cardinality(Of(c))
           /\ list[c].active = (f.country = c) /\ list[c].click = CountryToggle(f, c)

\* A list of countries on the dashboard: each line says how many the filter by it finds.
LEMMA CountryLines ==
  ASSUME NEW rows, rows \subseteq Rows, NEW w, NEW f, IsFilter(f), NEW o,
         NEW countries \in GetTopCountries(rows, w, NoCountry(f)),
         NEW list \in CountriesList(countries, o, f)
  PROVE  LinesCount(rows, w, f, list)
<1>. DEFINE key == Column(countries, "req_count")
            found == Known(BuildWhere(rows, w, NoCountry(f)), "country_code")
            Of(c) == BuildWhere(rows, w, [f EXCEPT !.country = c])
            Line(c) == [bar |-> BarRow(countries[c].req_count, o.total_requests),
                        active |-> f.country = c, click |-> CountryToggle(f, c)]
<1>1. list \in {[c \in K |-> Line(c)] : K \in Leading(key, Limit["dashboard"])}
  BY DEF CountriesList
<1>2. /\ IsFiniteSet(found) /\ IsFiniteSet(DOMAIN countries)
      /\ SumOf(key) \in Nat /\ SumOf(key) <= Cardinality(found)
      /\ \A c \in DOMAIN countries : /\ c # None /\ c \notin DOMAIN Upper /\ countries[c] = Stat(Of(c))
                                     /\ Of(c) \subseteq Rows
  BY CountriesAnswered
<1>3. \A c : /\ Line(c).bar.count = countries[c].req_count
             /\ Line(c).active = (f.country = c) /\ Line(c).click = CountryToggle(f, c)
  BY DEF BarRow
<1>4. DOMAIN key = DOMAIN countries /\ \A c \in DOMAIN countries : key[c] = countries[c].req_count
  BY DEF Column
<1>. HIDE DEF Line, key, Of, found
<1>5. PICK K \in Leading(key, Limit["dashboard"]) : list = [c \in K |-> Line(c)]
  BY <1>1
<1>6. K \subseteq DOMAIN countries
  BY <1>4 DEF Leading
<1>7. \A c \in DOMAIN countries : key[c] = Cardinality(Of(c))
  BY <1>2, <1>4 DEF Stat
<1>8. \A c \in DOMAIN countries : key[c] \in Nat
  <2>1. \A c \in DOMAIN countries : Of(c) \in SUBSET Rows
    BY <1>2
  <2>. QED  BY <1>7, <2>1, RowsHaveTimes, FS_Subset, FS_CardinalityType
<1>9. ASSUME NEW c \in DOMAIN list
      PROVE  /\ c # None /\ c \notin DOMAIN Upper /\ list[c].bar.count = Cardinality(Of(c))
             /\ list[c].bar.count = key[c]
             /\ list[c].active = (f.country = c) /\ list[c].click = CountryToggle(f, c)
  <2>1. c \in K /\ c \in DOMAIN countries /\ list[c] = Line(c)
    BY <1>5, <1>6
  <2>2. c # None /\ c \notin DOMAIN Upper
    BY <1>2, <2>1
  <2>3. list[c].bar.count = key[c] /\ list[c].bar.count = Cardinality(Of(c))
    BY <1>3, <1>4, <1>7, <2>1
  <2>4. list[c].active = (f.country = c) /\ list[c].click = CountryToggle(f, c)
    BY <1>3, <2>1
  <2>. QED  BY <2>2, <2>3, <2>4
<1>10. [c \in DOMAIN list |-> list[c].bar.count] = [c \in K |-> key[c]]
  BY <1>5, <1>9
<1>11. SumOf([c \in K |-> key[c]]) \in Nat /\ SumOf([c \in K |-> key[c]]) <= SumOf(key)
  BY <1>2, <1>4, <1>6, <1>8, SumOfFewer
<1>12. Cardinality(found) \in Nat
  BY <1>2, FS_CardinalityType
<1>13. /\ SumOf([c \in DOMAIN list |-> list[c].bar.count]) <= Cardinality(found)
       /\ SumOf([c \in DOMAIN list |-> list[c].bar.count]) \in Nat
  BY <1>2, <1>10, <1>11, <1>12
<1>. QED  BY <1>9, <1>13 DEF LinesCount, found, Of

\* The dashboard: cards, chart, banner and countries, and what a click on a country leaves.
LEMMA DashboardCounts ==
  ASSUME NEW rows, rows \subseteq Rows, NEW events, NEW w, NEW f, IsFilter(f)
  PROVE  DashboardAgrees(rows, events, w, f)
<1>. DEFINE R == BuildWhere(rows, w, f)
            F == BuildWhere(rows, w, NoCountry(f))
            o == QueryOverview(R)
            page == Dashboard(rows, events, w, f)
            Of(c) == BuildWhere(rows, w, [f EXCEPT !.country = c])
            n == page.cards.requests
            asked == Cardinality(FoundEvents(events, w, AskedEvents(f, None)))
            recent == GetSecurityEvents(events, w, f, None, 1)
<1>1. /\ IsFiniteSet(R) /\ R \subseteq Rows /\ Cardinality(R) \in Nat
      /\ IsFiniteSet(F) /\ Cardinality(F) \in Nat
  BY FoundFinite
<1>2. /\ o.total_requests = Cardinality(R) /\ o.error_rate = ErrorRate(R, 10000)
      /\ o.req = ByClass(R, NoTop)
  BY DEF QueryOverview
<1>3. /\ page.banner = {HealthBanner(o.error_rate, o.total_requests, answer.total) : answer \in recent}
      /\ page.cards = StatCards(o)
      /\ page.traffic = Column(QueryTimeseries(R, w.bucket), "req_count")
      /\ page.countries = UNION {CountriesList(countries, o, f) :
                                 countries \in GetTopCountries(rows, w, NoCountry(f))}
  BY DEF Dashboard
<1>4. \A answer \in recent : answer.total = asked
  BY DEF GetSecurityEvents, QuerySecurityEvents
<1>5. \A security \in SecurityPage(rows, events, w, f, None, 1) : security.log.total = asked
  <2>1. \A security \in SecurityPage(rows, events, w, f, None, 1) :
          \E answer \in recent : security.log.total = answer.total
    <3>. HIDE DEF recent
    <3>. QED  BY DEF SecurityPage, EventsLog, recent
  <2>. HIDE DEF recent, asked
  <2>. QED  BY <1>4, <2>1
<1>6. /\ n = Cardinality(R) /\ page.cards.errors = o.req["4xx"] + o.req["5xx"]
      /\ page.cards.error_rate = ErrorRate(R, 10000)
      /\ page.cards.level = ErrorLevel(ErrorRate(R, 10000), 10000)
  <2>. HIDE DEF o, page
  <2>. QED  BY <1>2, <1>3 DEF StatCards
<1>7. \A g : Dashboard(rows, events, w, g).cards.requests = Cardinality(BuildWhere(rows, w, g))
  BY DEF Dashboard, StatCards, QueryOverview
<1>9. SumOf(page.traffic) = n
  <2>. HIDE DEF page, R
  <2>. QED  BY <1>1, <1>3, <1>6, SeriesTotal
<1>10. page.cards.error_rate = Rounded(page.cards.errors, n, 10000)
  <2>. HIDE DEF page, R, o
  <2>1. page.cards.errors = Errors(R)
    BY <1>1, <1>2, <1>6, ErrorsByClass
  <2>. QED  BY <1>6, <2>1 DEF ErrorRate
<1>11. ASSUME NEW banner \in page.banner, banner # NoPanel
       PROVE  /\ banner.level = "critical" <=> page.cards.level = "red"
              /\ banner.events = asked
  <2>. DEFINE rate == ErrorRate(R, 10000)
  <2>. HIDE DEF page, R, o, recent, asked
  <2>1. rate \in Nat
    BY <1>1, RateIsNumber
  <2>2. PICK answer \in recent : banner = HealthBanner(rate, Cardinality(R), answer.total)
    BY <1>2, <1>3, <1>11
  <2>3. page.cards.level = ErrorLevel(rate, 10000)
    BY <1>6
  <2>. HIDE DEF rate
  <2>4. Over(rate, 10, 10000) <=> page.cards.level = "red"
    BY <2>1, <2>3, LevelOfErrors
  <2>5. banner.events = answer.total
    BY <1>11, <2>2 DEF HealthBanner
  <2>6. banner.level = "critical" <=> Over(rate, 10, 10000)
    BY <1>11, <2>2 DEF HealthBanner
  <2>. QED  BY <1>4, <2>4, <2>5, <2>6
<1>12. ASSUME NEW list \in page.countries
       PROVE  /\ ~Chosen(f.country) => SumOf([c \in DOMAIN list |-> list[c].bar.count]) <= n
              /\ \A c \in DOMAIN list :
                   /\ c # None /\ c \notin DOMAIN Upper /\ list[c].bar.count = Cardinality(Of(c))
                   /\ list[c].active = (f.country = c) /\ list[c].click = CountryToggle(f, c)
  <2>1. PICK countries \in GetTopCountries(rows, w, NoCountry(f)) : list \in CountriesList(countries, o, f)
    <3>. HIDE DEF page, o
    <3>. QED  BY <1>3, <1>12
  <2>2. /\ SumOf([c \in DOMAIN list |-> list[c].bar.count]) <= Cardinality(Known(F, "country_code"))
        /\ SumOf([c \in DOMAIN list |-> list[c].bar.count]) \in Nat
        /\ \A c \in DOMAIN list :
             /\ c # None /\ c \notin DOMAIN Upper /\ list[c].bar.count = Cardinality(Of(c))
             /\ list[c].active = (f.country = c) /\ list[c].click = CountryToggle(f, c)
    <3>. HIDE DEF o, page
    <3>1. LinesCount(rows, w, f, list)
      BY <2>1, CountryLines
    <3>. QED  BY <3>1 DEF LinesCount
  <2>3. Known(F, "country_code") \in SUBSET F
    BY DEF Known
  <2>4. ~Chosen(f.country) => F = R
    BY DEF BuildWhere, NoCountry, Chosen, IsFilter, FilterKeys
  <2>. HIDE DEF page, R, F, o, Of
  <2>5. Cardinality(Known(F, "country_code")) <= Cardinality(F) /\ Cardinality(Known(F, "country_code")) \in Nat
    BY <1>1, <2>3, FS_Subset, FS_CardinalityType
  <2>6. ~Chosen(f.country) => SumOf([c \in DOMAIN list |-> list[c].bar.count]) <= n
    BY <1>1, <1>6, <2>2, <2>4, <2>5
  <2>. QED  BY <2>2, <2>6
<1>13. ASSUME NEW list \in page.countries, NEW c \in DOMAIN list
       PROVE  IF list[c].active
              THEN list[c].bar.count = n /\ Dashboard(rows, events, w, list[c].click).cards.requests >= n
              ELSE Dashboard(rows, events, w, list[c].click).cards.requests = list[c].bar.count
  <2>1. /\ c # None /\ c \notin DOMAIN Upper /\ list[c].bar.count = Cardinality(Of(c))
        /\ list[c].active = (f.country = c) /\ list[c].click = CountryToggle(f, c)
    BY <1>12, <1>13
  <2>2. ASSUME f.country = c PROVE Of(c) = R /\ CountryToggle(f, c) = NoCountry(f) /\ R \in SUBSET F
    <3>1. Of(c) = R
      BY <2>2 DEF BuildWhere, IsFilter, FilterKeys
    <3>2. R \in SUBSET F
      BY DEF BuildWhere, NoCountry, IsFilter, FilterKeys, Chosen
    <3>3. None \notin DOMAIN Upper
      BY CapitalsStay
    <3>4. CountryToggle(f, c) = NoCountry(f)
      BY <2>2, <3>3, CountrySet DEF CountryToggle, NoCountry
    <3>. QED  BY <3>1, <3>2, <3>4
  <2>3. f.country # c => CountryToggle(f, c) = [f EXCEPT !.country = c]
    BY <2>1, CountrySet DEF CountryToggle
  <2>. HIDE DEF page, R
  <2>4. f.country = c => Cardinality(R) <= Cardinality(F)
    <3>. HIDE DEF F, Of
    <3>. QED  BY <1>1, <2>2, FS_Subset
  <2>5. CASE f.country = c
    <3>. HIDE DEF Of, F
    <3>0. list[c].active
      BY <2>1, <2>5, Zenon
    <3>4. list[c].bar.count = n
      BY <1>6, <2>1, <2>2, <2>5
    <3>1. list[c].active /\ list[c].bar.count = n
      BY <3>0, <3>4
    <3>2. Dashboard(rows, events, w, list[c].click).cards.requests = Cardinality(F)
      BY <1>7, <2>1, <2>2, <2>5 DEF F
    <3>. HIDE DEF n
    <3>3. Dashboard(rows, events, w, list[c].click).cards.requests >= n
      BY <1>1, <1>6, <2>4, <2>5, <3>2
    <3>. QED  BY <3>1, <3>3
  <2>6. CASE f.country # c
    BY <1>7, <2>1, <2>3, <2>6
  <2>. QED  BY <2>5, <2>6
<1>. HIDE DEF recent, n, R, o, asked
<1>. QED  BY <1>5, <1>9, <1>10, <1>11, <1>12, <1>13 DEF DashboardAgrees, page, n

\* A bar of either chart of the countries is as long as the filter by its country finds.
LEMMA GeoBars ==
  ASSUME NEW rows, rows \subseteq Rows, NEW w, NEW f, IsFilter(f),
         NEW countries \in GetTopCountries(rows, w, NoCountry(f)),
         NEW bars \in GeoChart(countries), NEW c \in DOMAIN bars
  PROVE  bars[c].requests = Cardinality(BuildWhere(rows, w, [f EXCEPT !.country = c]))
<1>. DEFINE key == Column(countries, "req_count")
            Bar(d) == [requests |-> countries[d].req_count, errors |-> ErrorsOf(countries[d])]
<1>1. DOMAIN countries # {}
  <2>1. ASSUME DOMAIN countries = {} PROVE FALSE
    <3>1. bars = NoPanel
      BY <2>1 DEF GeoChart, Nonempty
    <3>. QED  BY <3>1 DEF NoPanel
  <2>. QED  BY <2>1
<1>2. bars \in {[d \in K |-> Bar(d)] : K \in Leading(key, Limit["chart"])}
  BY <1>1 DEF GeoChart, Nonempty
<1>3. \A d : Bar(d).requests = countries[d].req_count
  OBVIOUS
<1>4. DOMAIN key = DOMAIN countries
  BY DEF Column
<1>. HIDE DEF Bar, key
<1>5. PICK K \in Leading(key, Limit["chart"]) : bars = [d \in K |-> Bar(d)]
  BY <1>2
<1>6. c \in DOMAIN countries /\ bars[c] = Bar(c)
  BY <1>4, <1>5 DEF Leading
<1>7. countries[c] = Stat(BuildWhere(rows, w, [f EXCEPT !.country = c]))
  <2>1. \A d \in DOMAIN countries : countries[d] = Stat(BuildWhere(rows, w, [f EXCEPT !.country = d]))
    BY CountriesAnswered
  <2>. QED  BY <1>6, <2>1
<1>. QED  BY <1>3, <1>6, <1>7 DEF Stat

LEMMA AnalyticsBars ==
  ASSUME NEW rows, rows \subseteq Rows, NEW w, NEW f, IsFilter(f),
         NEW countries \in GetTopCountries(rows, w, NoCountry(f)),
         NEW chart \in CountryChart(countries, f), NEW c \in DOMAIN chart
  PROVE  /\ chart[c].requests = Cardinality(BuildWhere(rows, w, [f EXCEPT !.country = c]))
         /\ ~(chart[c].marked /\ chart[c].faded)
<1>. DEFINE key == Column(countries, "req_count")
            Bar(d) == [requests |-> countries[d].req_count, errors |-> ErrorsOf(countries[d]),
                       marked |-> f.country = d, faded |-> Chosen(f.country) /\ f.country # d,
                       click |-> CountryToggle(f, d)]
<1>1. DOMAIN countries # {}
  <2>1. ASSUME DOMAIN countries = {} PROVE FALSE
    <3>1. chart = NoPanel
      BY <2>1 DEF CountryChart, Nonempty
    <3>. QED  BY <3>1 DEF NoPanel
  <2>. QED  BY <2>1
<1>2. chart \in {[d \in K |-> Bar(d)] : K \in Leading(key, Limit["chart"])}
  BY <1>1 DEF CountryChart, Nonempty
<1>3. /\ Bar(c).requests = countries[c].req_count
      /\ Bar(c).marked = (f.country = c)
      /\ Bar(c).faded = (Chosen(f.country) /\ f.country # c)
  OBVIOUS
<1>4. DOMAIN key = DOMAIN countries
  BY DEF Column
<1>. HIDE DEF Bar, key
<1>5. PICK K \in Leading(key, Limit["chart"]) : chart = [d \in K |-> Bar(d)]
  BY <1>2
<1>6. c \in DOMAIN countries /\ chart[c] = Bar(c)
  BY <1>4, <1>5 DEF Leading
<1>7. countries[c] = Stat(BuildWhere(rows, w, [f EXCEPT !.country = c]))
  <2>1. \A d \in DOMAIN countries : countries[d] = Stat(BuildWhere(rows, w, [f EXCEPT !.country = d]))
    BY CountriesAnswered
  <2>. QED  BY <1>6, <2>1
<1>8. chart[c].requests = Cardinality(BuildWhere(rows, w, [f EXCEPT !.country = c]))
  BY <1>3, <1>6, <1>7 DEF Stat
<1>9. ASSUME chart[c].marked, chart[c].faded PROVE FALSE
  <2>1. chart[c].marked = (f.country = c)
    BY <1>3, <1>6
  <2>2. chart[c].faded = (Chosen(f.country) /\ f.country # c)
    BY <1>3, <1>6
  <2>3. f.country = c
    BY <1>9, <2>1, Zenon
  <2>4. Chosen(f.country) /\ f.country # c
    BY <1>9, <2>2, Zenon
  <2>. QED  BY <2>3, <2>4
<1>. QED  BY <1>8, <1>9

\* The page of the countries and the chart of them on Analytics.
LEMMA GeoCounts ==
  ASSUME NEW rows, rows \subseteq Rows, NEW w, NEW f, IsFilter(f)
  PROVE  GeoAgrees(rows, w, f)
<1>. DEFINE Tables == GetTopCountries(rows, w, NoCountry(f))
            found == Known(BuildWhere(rows, w, NoCountry(f)), "country_code")
            charts == Analytics(rows, w, f, SortBy([field |-> None, dir |-> "desc"], "req_count")).countries
            size == Cardinality(Values(found, "country_code"))
<1>1. charts = UNION {CountryChart(countries, f) : countries \in Tables}
  BY DEF Analytics
<1>. HIDE DEF charts
<1>2. ASSUME NEW page \in Geo(rows, w, f)
      PROVE  /\ page.summary = NoPanel <=> found = {}
             /\ page.summary # NoPanel =>
                  /\ page.summary.total <= Cardinality(found)
                  /\ page.summary.total = Cardinality(found) <=> size <= Limit["groups"]
                  /\ page.summary.top # {} /\ page.summary.worst # {}
                  /\ \A c \in page.summary.worst : page.table[c].health = "OK" =>
                       \A d \in DOMAIN page.table : page.table[d].health = "OK"
             /\ \A bars \in page.chart, chart \in charts : chart # NoPanel =>
                  \A c \in DOMAIN chart : /\ ~(chart[c].marked /\ chart[c].faded)
                                         /\ c \in DOMAIN bars => chart[c].requests = bars[c].requests
  <2>1. PICK countries \in Tables :
          /\ page.summary = GeoSummary(countries) /\ page.chart = GeoChart(countries)
          /\ page.table = GeoTable(countries)
    BY <1>2 DEF Geo
  <2>. DEFINE top == {c \in DOMAIN countries :
                        \A d \in DOMAIN countries : countries[d].req_count <= countries[c].req_count}
              worst == {c \in DOMAIN countries :
                          \A d \in DOMAIN countries : countries[d].error_rate <= countries[c].error_rate}
              sum == SumOf(Column(countries, "req_count"))
  <2>2. /\ IsFiniteSet(DOMAIN countries) /\ (DOMAIN countries = {} <=> found = {})
        /\ sum <= Cardinality(found)
        /\ sum = Cardinality(found) <=> size <= Limit["groups"]
    BY CountriesAnswered
  <2>3. ASSUME NEW c \in DOMAIN countries
        PROVE  countries[c].error_rate \in Nat /\ countries[c].req_count \in Nat
    <3>. DEFINE S == BuildWhere(rows, w, [f EXCEPT !.country = c])
    <3>1. countries[c] = Stat(S)
      BY CountriesAnswered
    <3>2. IsFiniteSet(S)
      BY FoundFinite
    <3>. HIDE DEF S
    <3>3. Cardinality(S) \in Nat /\ ErrorRate(S, 1000) \in Nat
      BY <3>2, FS_CardinalityType, RateIsNumber
    <3>. QED  BY <3>1, <3>3 DEF Stat
  <2>. HIDE DEF found, size, sum
  <2>4. DOMAIN countries # {} => top # {}
    <3>. DEFINE g == [c \in DOMAIN countries |-> countries[c].req_count]
    <3>1. DOMAIN g = DOMAIN countries /\ \A c \in DOMAIN countries : g[c] = countries[c].req_count /\ g[c] \in Nat
      BY <2>3
    <3>. HIDE DEF g
    <3>2. DOMAIN countries # {} => \E c \in DOMAIN countries : \A d \in DOMAIN countries : g[d] <= g[c]
      BY <2>2, <3>1, GreatestExists
    <3>. QED  BY <3>1, <3>2
  <2>5. DOMAIN countries # {} =>
          /\ worst # {}
          /\ \A c \in worst : CountryHealth(countries[c].error_rate) = "OK" =>
               \A d \in DOMAIN countries : CountryHealth(countries[d].error_rate) = "OK"
    BY <2>2, <2>3, WorstExists
  <2>6. /\ DOMAIN page.table = DOMAIN countries
        /\ \A c \in DOMAIN countries : page.table[c].health = CountryHealth(countries[c].error_rate)
    BY <2>1 DEF GeoTable
  <2>7. \A c \in worst : c \in DOMAIN countries
    OBVIOUS
  <2>. HIDE DEF top, worst
  <2>8. page.summary # NoPanel <=> DOMAIN countries # {}
    <3>1. [number |-> Cardinality(DOMAIN countries), total |-> sum, top |-> top, worst |-> worst] # NoPanel
      BY DEF NoPanel
    <3>. QED  BY <2>1, <3>1 DEF GeoSummary, Nonempty, top, worst, sum
  <2>9. DOMAIN countries # {} =>
          page.summary.total = sum /\ page.summary.top = top /\ page.summary.worst = worst
    BY <2>1 DEF GeoSummary, Nonempty, top, worst, sum
  <2>10. ASSUME NEW bars \in page.chart, NEW chart \in charts, NEW c \in DOMAIN chart
         PROVE  /\ ~(chart[c].marked /\ chart[c].faded)
                /\ c \in DOMAIN bars => chart[c].requests = bars[c].requests
    <3>1. PICK other \in Tables : chart \in CountryChart(other, f)
      BY <1>1
    <3>2. /\ chart[c].requests = Cardinality(BuildWhere(rows, w, [f EXCEPT !.country = c]))
          /\ ~(chart[c].marked /\ chart[c].faded)
      BY <3>1, AnalyticsBars
    <3>3. c \in DOMAIN bars => bars[c].requests = Cardinality(BuildWhere(rows, w, [f EXCEPT !.country = c]))
      BY <2>1, GeoBars
    <3>. QED  BY <3>2, <3>3
  <2>11. page.summary = NoPanel <=> found = {}
    BY <2>2, <2>8
  <2>12. page.summary # NoPanel =>
           /\ page.summary.total <= Cardinality(found)
           /\ page.summary.total = Cardinality(found) <=> size <= Limit["groups"]
           /\ page.summary.top # {} /\ page.summary.worst # {}
    BY <2>2, <2>4, <2>5, <2>8, <2>9
  <2>13. page.summary # NoPanel =>
           \A c \in page.summary.worst : page.table[c].health = "OK" =>
             \A d \in DOMAIN page.table : page.table[d].health = "OK"
    BY <2>5, <2>6, <2>7, <2>8, <2>9
  <2>. QED  BY <2>10, <2>11, <2>12, <2>13
<1>. HIDE DEF found
<1>. QED  BY <1>2 DEF GeoAgrees, found, size, charts

\* The browser's figures of the last rows are those the API has of them.
LEMMA LiveMetricsAsStored ==
  ASSUME LogInv, RowsHaveCome, NEW f, IsFilter(f) PROVE LiveMetricsAgree(requests, now, f)
<1>. DEFINE window == [from |-> now - LocalWindow, to |-> now]
            stored == BuildWhere(requests, window, f)
            received == {r \in requests : window.from <= r.ts}
            ofHost == {r \in received : Chosen(f.host) => r.host = f.host}
            g == [f EXCEPT !.host = None]
            matched == {r \in ofHost : r.ts >= now - LocalWindow /\ RowMatchesFilters(r, g)}
            metrics == ComputeLocalMetrics(ofHost, now, f)
            o == QueryOverview(stored)
            Beyond == {r \in stored : r.status # None /\ r.status >= 600}
<1>. SUFFICES ASSUME f.path \notin Wild
     PROVE /\ metrics = NoPanel <=> stored = {}
           /\ metrics # NoPanel => /\ metrics.req_count = o.total_requests
                                   /\ metrics.unique_ips = o.unique_ips
                                   /\ metrics.bytes_out = o.bytes_out
                                   /\ metrics.errors = o.req["4xx"] + o.req["5xx"] - Cardinality(Beyond)
  BY DEF LiveMetricsAgree
<1>1. /\ g.host = None /\ g.remote_ip = f.remote_ip /\ g.method = f.method
      /\ g.status_class = f.status_class /\ g.path = f.path /\ g.country = f.country
  BY DEF IsFilter, FilterKeys
<1>2. \A path : Like(path, f.path) <=> Includes(path, f.path)
  BY DEF Like, Includes
<1>0. UpperCase(f.method) = f.method /\ UpperCase(f.country) = f.country
  BY DEF IsFilter
<1>3. ASSUME NEW r \in requests
      PROVE  r \in matched <=> r \in stored
  <2>1. r.ts <= now /\ window.to = now /\ window.from = now - LocalWindow
    BY DEF RowsHaveCome
  <2>2. RowMatchesFilters(r, g) <=>
          /\ Chosen(f.remote_ip) => r.remote_ip = f.remote_ip
          /\ Chosen(f.method) => r.method = f.method
          /\ Chosen(f.status_class) => GetStatusClass(r.status) = f.status_class
          /\ Chosen(f.path) => Includes(r.path, f.path)
          /\ Chosen(f.country) => r.country_code = f.country
    BY <1>1 DEF RowMatchesFilters, Chosen
  <2>3. r.ts >= now - LocalWindow <=> now - LocalWindow <= r.ts
    OBVIOUS
  <2>. HIDE DEF g
  <2>. QED  BY <1>0, <1>2, <2>1, <2>2, <2>3 DEF BuildWhere
<1>4. matched = stored
  <2>1. matched \subseteq requests /\ stored \subseteq requests
    BY DEF BuildWhere
  <2>. HIDE DEF matched, stored
  <2>. QED  BY <1>3, <2>1
<1>5. stored \subseteq Rows
  BY DEF BuildWhere, LogInv
<1>6. metrics = IF matched = {} THEN NoPanel
      ELSE [req_count |-> Cardinality(matched),
            req |-> [c \in Classes |-> Cardinality(InClass(matched, c))],
            errors |-> Cardinality(InClass(matched, "4xx")) + Cardinality(InClass(matched, "5xx")),
            timed |-> Known(matched, "duration_ms") # {},
            unique_ips |-> Cardinality(Values(matched, "remote_ip")),
            bytes_out |-> Total(matched, "response_bytes")]
  BY DEF ComputeLocalMetrics, InClass
<1>7. Cardinality(InClass(stored, "4xx")) + Cardinality(InClass(stored, "5xx"))
        = ByClass(stored, NoTop)["4xx"] + ByClass(stored, NoTop)["5xx"] - Cardinality(Beyond)
  <2>1. Beyond = BeyondClasses(stored)
    BY DEF BeyondClasses
  <2>. HIDE DEF stored, Beyond
  <2>2. ByClass(stored, NoTop)["4xx"] + ByClass(stored, NoTop)["5xx"] = Errors(stored)
    BY <1>5, ErrorsByClass
  <2>3. Cardinality(InClass(stored, "4xx")) + Cardinality(InClass(stored, "5xx"))
          = Errors(stored) - Cardinality(Beyond)
    BY <1>5, <2>1, ErrorsByClass
  <2>4. /\ ByClass(stored, NoTop)["4xx"] \in Nat /\ ByClass(stored, NoTop)["5xx"] \in Nat
        /\ Cardinality(Beyond) \in Nat
    <3>1. "4xx" \in Classes /\ "5xx" \in Classes
      BY DEF Classes
    <3>2. BeyondClasses(stored) \in SUBSET Rows
      BY <1>5 DEF BeyondClasses
    <3>. QED  BY <1>5, <2>1, <3>1, <3>2, CountsOfClasses, RowsHaveTimes, FS_Subset, FS_CardinalityType
  <2>. QED  BY <2>2, <2>3, <2>4
<1>8. /\ o.total_requests = Cardinality(stored) /\ o.req = ByClass(stored, NoTop)
      /\ o.unique_ips = Cardinality(Values(stored, "remote_ip"))
      /\ o.bytes_out = Total(stored, "response_bytes")
  BY DEF QueryOverview
<1>. HIDE DEF matched, stored, metrics, o, Beyond
<1>9. CASE stored = {}
  BY <1>4, <1>6, <1>9
<1>10. CASE stored # {}
  <2>1. /\ metrics.req_count = Cardinality(stored)
        /\ metrics.unique_ips = Cardinality(Values(stored, "remote_ip"))
        /\ metrics.bytes_out = Total(stored, "response_bytes")
        /\ metrics.errors = ByClass(stored, NoTop)["4xx"] + ByClass(stored, NoTop)["5xx"] - Cardinality(Beyond)
        /\ metrics # NoPanel
    BY <1>4, <1>6, <1>7, <1>10 DEF NoPanel
  <2>. QED  BY <1>8, <1>10, <2>1
<1>. QED  BY <1>9, <1>10

\* All panels of all pages agree: the figures of a page with those of the lists, charts and
\* pills beside it and with those of the pages it leads to (HostDetail.tsx, IPDetail.tsx,
\* Dashboard.tsx, Analytics.tsx, Geo.tsx, Security.tsx, RealTime.tsx), as far as the limits of
\* their queries go.
THEOREM PanelsAlwaysAgree == Spec => []PanelsAgree
<1>1. /\ \A h \in Hosts : h # None
      /\ \A ip \in Values(Rows, "remote_ip") : ip # None
  BY RowsHaveColumns DEF Values, Hosts
<1>3. LogInv /\ TypeOK /\ RowsHaveCome /\ ListsAreComplete => PanelsAgree
  <2>. SUFFICES ASSUME LogInv, TypeOK, RowsHaveCome, ListsAreComplete PROVE PanelsAgree
    OBVIOUS
  <2>0. requests \subseteq Rows /\ security_events \subseteq Events
    BY DEF LogInv, TypeOK
  <2>1. \A w \in Windows, h \in Hosts : HostTotalsAgree(requests, w, h) /\ HostPathsAgree(requests, w, h)
    BY <1>1, <2>0, HostTotals, HostPaths
  <2>2. \A w \in Windows, ip \in Values(Rows, "remote_ip") :
          /\ PillsCount(requests, security_events, w, ip)
          /\ IpTotalsAgree(requests, security_events, w, ip)
    BY <2>0, Pills, IpTotals
  <2>3. \A w \in Windows, f \in Filters : TypesAgree(requests, security_events, w, f)
    BY <2>0, TypesCounted
  <2>4. \A w \in Windows, f \in Filters :
          DashboardAgrees(requests, security_events, w, f) /\ GeoAgrees(requests, w, f)
    BY <2>0, FiltersAreFilters, DashboardCounts, GeoCounts
  <2>5. \A ip \in Values(Rows, "remote_ip") : IpCardAgrees(requests, security_events, now, ip)
    BY <2>0, IpCard
  <2>6. \A f \in Filters : LiveMetricsAgree(requests, now, f)
    BY FiltersAreFilters, LiveMetricsAsStored
  <2>. QED  BY <2>1, <2>2, <2>3, <2>4, <2>5, <2>6 DEF PanelsAgree
<1>4. Spec => []LogInv
  BY LogInit, LogNext, PTL DEF Spec
<1>. QED  BY <1>3, <1>4, TablesTyped, RowsHaveComeInv, ListsAreShownWhole, PTL
=============================================================================
