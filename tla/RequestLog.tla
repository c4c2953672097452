---------------------------- MODULE RequestLog ----------------------------
(***************************************************************************)
(* The tables of DuckDB as time goes by: requests and security events come *)
(* in, late ones too, the scheduler aggregates them by minute and by hour  *)
(* and purges what is old.  A tick is a minute.  The pages of the console  *)
(* are read off the tables at any moment.                                  *)
(***************************************************************************)
EXTENDS ConsolePages, Functions

CONSTANTS
  Rows, Events,      \* what may come in, each with its ts
  Typed,             \* the filters the pages are opened with, as in the URL
  MaxNow,            \* bound: last minute
  Retention,         \* database.retention_days, in ticks
  AggRetention       \* database.aggregation_retention_days, in ticks

\* The order of the log is that of ts alone.  Not so the events: one request has several.
ASSUME TimesDistinct == \A r, q \in Rows : r.ts = q.ts => r = q

\* A row is kept until its minute and its hour have been aggregated.
ASSUME RowsHaveTimes == IsFiniteSet(Rows) /\ \A r \in Rows : r.ts \in Nat
ASSUME RowsHaveColumns ==   \* NOT NULL, and a status of three digits
  \A r \in Rows : r.host # None /\ r.remote_ip # None /\ r.status \in (0 .. NoTop) \cup {None}
ASSUME CodesAreCapital == \A r \in Rows : r.country_code \notin DOMAIN Upper
ASSUME TypedAreFilters == \A f \in Typed : DOMAIN f = FilterKeys
ASSUME EventsHaveTimes == IsFiniteSet(Events) /\ \A e \in Events : e.ts \in Nat
ASSUME RetentionCoversHours == Retention \in Nat /\ Retention >= 2 * Hour - 1

\* A path contains itself, as a fragment to filter by.
ASSUME PathsContainThemselves == \A r \in Rows : r.path # None => <<r.path, r.path>> \in Infix

ASSUME LastMinute == MaxNow \in Nat

VARIABLES
  now,
  requests,          \* the table of requests
  security_events,   \* the table of security events
  stats_minutely,    \* requests by <<minute, host>>
  stats_hourly,      \* requests by <<hour, host>>
  ever,              \* history: every request that came in
  late               \* history: those of them that came after their minute

vars == <<now, requests, security_events, stats_minutely, stats_hourly, ever, late>>

Hosts == Values(Rows, "host")
NoStats == [k \in {} |-> 0]

TypeOK ==
  /\ now \in 0 .. MaxNow
  /\ requests \subseteq ever /\ late \subseteq ever /\ ever \subseteq Rows
  /\ security_events \subseteq Events
  /\ DOMAIN stats_minutely \subseteq (0 .. MaxNow) \X Hosts
  /\ DOMAIN stats_hourly \subseteq (0 .. MaxNow) \X Hosts

Init ==
  /\ now = 0 /\ requests = {} /\ security_events = {}
  /\ stats_minutely = NoStats /\ stats_hourly = NoStats
  /\ ever = {} /\ late = {}

Tick ==
  /\ now < MaxNow
  /\ now' = now + 1
  /\ UNCHANGED <<requests, security_events, stats_minutely, stats_hourly, ever, late>>

\* A line is stored when it is read, which may be long after it was written.
Insert(r) ==
  /\ r \in Rows \ ever /\ r.ts <= now
  /\ requests' = requests \cup {r}
  /\ ever' = ever \cup {r}
  /\ late' = IF r.ts < now THEN late \cup {r} ELSE late
  /\ UNCHANGED <<now, security_events, stats_minutely, stats_hourly>>

InsertEvent(e) ==
  /\ e \in Events \ security_events /\ e.ts = now
  /\ security_events' = security_events \cup {e}
  /\ UNCHANGED <<now, requests, stats_minutely, stats_hourly, ever, late>>

-----------------------------------------------------------------------------
(* The jobs of the scheduler.                                              *)

\* COUNT(*) of the rows from one moment up to another, by host.
Aggregate(bucket, from, to) ==
  LET R == {r \in requests : from <= r.ts /\ r.ts < to}
  IN  [k \in {<<bucket, r.host>> : r \in R} |-> Cardinality({r \in R : r.host = k[2]})]

\* Mutant: the figures of a key are added to those it has.
Replace_Adds(new, old) ==
  [k \in DOMAIN new \cup DOMAIN old |->
     (IF k \in DOMAIN new THEN new[k] ELSE 0) + (IF k \in DOMAIN old THEN old[k] ELSE 0)]

\* INSERT OR REPLACE: the new figures win over those of the same key.
Replace(new, old) ==
  [k \in DOMAIN new \cup DOMAIN old |-> IF k \in DOMAIN new THEN new[k] ELSE old[k]]

\* The minute that has just ended.
AggregateMinutely ==
  /\ stats_minutely' = Replace(Aggregate(now - 1, now - 1, now), stats_minutely)
  /\ UNCHANGED <<now, requests, security_events, stats_hourly, ever, late>>

\* The hour that has just ended.
RunHourly ==
  LET hour == now \div Hour - 1
  IN  /\ stats_hourly' = Replace(Aggregate(hour, hour * Hour, hour * Hour + Hour), stats_hourly)
      /\ UNCHANGED <<now, requests, security_events, stats_minutely, ever, late>>

Purge ==
  /\ requests' = {r \in requests : r.ts >= now - Retention}
  /\ security_events' = {e \in security_events : e.ts >= now - Retention}
  /\ stats_minutely' = Restrict(stats_minutely,
       {k \in DOMAIN stats_minutely : k[1] >= now - AggRetention})
  /\ stats_hourly' = Restrict(stats_hourly,
       {k \in DOMAIN stats_hourly : k[1] * Hour >= now - AggRetention})
  /\ UNCHANGED <<now, ever, late>>

Arrivals == (\E r \in Rows : Insert(r)) \/ (\E e \in Events : InsertEvent(e)) \/ Tick \/ Purge
Jobs == AggregateMinutely \/ RunHourly
Next == Arrivals \/ Jobs
Spec == Init /\ [][Next]_vars

-----------------------------------------------------------------------------
(* Properties.                                                             *)

\* What the pages of the console are asked for.
Windows == {ResolveTimeRange(m, now) : m \in {Preset("l1h"), Preset("l24h"), OneDay(0)}}
Filters == {UrlFilters(f) : f \in Typed}

\* What is shown a page at a time is shown whole: at any moment, under every window and
\* filter, the pages of the log and of the pills of an address hold all that was asked for and
\* nothing twice, the security tab of an address leaves out none of its events, the pager of
\* the security page reaches all of them and its tiles count them, and the live page shows of
\* the rows it has what the API would.
ListsAreComplete ==
  /\ \A w \in Windows :
       /\ \A ip \in Values(Rows, "remote_ip") :
            PillsPaged(requests, w, ip) /\ SecurityTabComplete(requests, security_events, w, ip)
       /\ \A f \in Filters : /\ RequestsAgree(requests, w, f)
                             /\ SeveritiesAgree(requests, security_events, w, f)
  /\ \A f \in Filters : LiveRowsAgree(requests, now, f)

\* Every panel of a page is a request of its own, and the same figure is computed by
\* different SQL or in the browser: at any moment, under every window and filter, the panels
\* of the console that speak of the same requests agree.
PanelsAgree ==
  /\ ListsAreComplete
  /\ \A w \in Windows :
       /\ \A h \in Hosts : HostTotalsAgree(requests, w, h) /\ HostPathsAgree(requests, w, h)
       /\ \A ip \in Values(Rows, "remote_ip") : /\ PillsCount(requests, security_events, w, ip)
                                                /\ IpTotalsAgree(requests, security_events, w, ip)
       /\ \A f \in Filters : /\ TypesAgree(requests, security_events, w, f)
                             /\ DashboardAgrees(requests, security_events, w, f)
                             /\ GeoAgrees(requests, w, f)
  /\ \A ip \in Values(Rows, "remote_ip") : IpCardAgrees(requests, security_events, now, ip)
  /\ \A f \in Filters : LiveMetricsAgree(requests, now, f)

\* Reading the log page by page while requests come in never skips one: a request's place
\* in the list only moves back, late arrivals included, so that the next page repeats
\* requests of the last rather than missing some.
RowsMoveBackOnly ==
  [][\A r \in requests \cap requests' : Rank(r, requests') >= Rank(r, requests)]_vars

\* A row of the aggregates counts every request of its minute or hour that came in time,
\* and none twice, however often the job ran and whatever was purged since.
AggregatesCountOnce ==
  LET InTime(R) == Cardinality(R \ late)
      OfMinute(k) == {r \in ever : r.ts = k[1] /\ r.host = k[2]}
      OfHour(k) == {r \in ever : r.ts \div Hour = k[1] /\ r.host = k[2]}
  IN  /\ \A k \in DOMAIN stats_minutely :
           /\ InTime(OfMinute(k)) <= stats_minutely[k]
           /\ stats_minutely[k] <= Cardinality(OfMinute(k))
      /\ \A k \in DOMAIN stats_hourly :
           /\ InTime(OfHour(k)) <= stats_hourly[k]
           /\ stats_hourly[k] <= Cardinality(OfHour(k))
=============================================================================
