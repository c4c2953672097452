------------------------------ MODULE Queries ------------------------------
(***************************************************************************)
(* The SQL of duckdb_manager.py as operators over a set of rows, and the   *)
(* two filters of the console that must mean the same: build_where of the  *)
(* server and rowMatchesFilters of the live page.                          *)
(*                                                                         *)
(* A row is a record of its columns, NULL is None.  Time counts ticks:     *)
(* Hour of them make an hour, Day of them a day.  A query with a LIMIT has *)
(* a set of answers: which of several groups with as many requests come    *)
(* last, SQL leaves open.  Left out: medians and percentiles.              *)
(***************************************************************************)
EXTENDS Integers, FiniteSets, FiniteSetsExt, Functions

CONSTANTS
  None,         \* NULL, undefined, and a filter that is not set
  Infix,        \* pairs <<fragment, path>>: the path contains the fragment
  Wild,         \* fragments with a LIKE wildcard, % or _
  Upper,        \* what upper() makes of the texts that it changes
  Limit,        \* for each list, how many lines it has at most
  EventsLimit   \* security events an answer holds (100)

ASSUME AnswersHoldEvents == EventsLimit \in Nat \ {0}

\* LIMIT: 20 groups, 30 cities, 100 paths, 15 referers, 10 paths of a profile, 20 hosts of an
\* address.  slice: 8 lines of the dashboard, 12 bars of a chart, 8 event types.
LimitedLists == {"groups", "cities", "paths", "referers", "profile", "hosts", "dashboard", "chart", "types"}
ASSUME ListsHaveLimits == \A l \in LimitedLists : Limit[l] \in Nat \ {0}

Hour == 2
Day == 4
Classes == {"2xx", "3xx", "4xx", "5xx"}
ASSUME NullIsNoValue == None \notin Nat /\ None \notin Classes
FilterKeys == {"host", "remote_ip", "method", "status_class", "path", "country"}
NoFilter == [k \in FilterKeys |-> None]
ValidMethods == {"GET", "POST", "PUT", "DELETE", "PATCH", "HEAD", "OPTIONS"}
ASSUME CapitalsStay ==
  /\ (ValidMethods \cup {None}) \cap DOMAIN Upper = {}
  /\ \A x \in DOMAIN Upper : Upper[x] \notin DOMAIN Upper /\ Upper[x] # None
AllTypes == [host |-> None, remote_ip |-> None, event_type |-> None, severity |-> None]

\* A window is what period or date asks for: the last hours up to now, or 24 hours.
Preset(period) == [type |-> "preset", preset |-> period]
OneDay(date) == [type |-> "day", date |-> date]
Lookback == [l1h |-> [span |-> Hour, bucket |-> 1], l24h |-> [span |-> Day, bucket |-> Hour]]
ResolveTimeRange(mode, now) ==
  IF mode.type = "day"
  THEN [from |-> mode.date * Day, to |-> mode.date * Day + Day, bucket |-> Hour]
  ELSE [from |-> now - Lookback[mode.preset].span, to |-> now,
        bucket |-> Lookback[mode.preset].bucket]

-----------------------------------------------------------------------------
(* Filters.                                                                *)

\* The column status_class, computed when the line is parsed: none from 600 on.
GetStatusClass(status) ==
  CASE status = None -> None
    [] status \in 200 .. 299 -> "2xx"
    [] status \in 300 .. 399 -> "3xx"
    [] status \in 400 .. 499 -> "4xx"
    [] status \in 500 .. 599 -> "5xx"
    [] OTHER -> None

Chosen(value) == value # None

UpperCase(text) == IF text \in DOMAIN Upper THEN Upper[text] ELSE text

\* Mutant: a country is taken as the URL has it.
UrlFilters_AsTyped(typed) ==
  [typed EXCEPT !.method = IF @ \in ValidMethods THEN @ ELSE None,
                !.status_class = IF @ \in Classes THEN @ ELSE None]

\* The filters a page has of what its URL says, typed by hand or set by a click.
UrlFilters(typed) ==
  [typed EXCEPT !.method = IF @ \in ValidMethods THEN @ ELSE None,
                !.status_class = IF @ \in Classes THEN @ ELSE None,
                !.country = UpperCase(@)]

\* path LIKE %fragment%: a wildcard in the fragment matches more than itself.
Like(path, fragment) ==
  path # None /\ (<<fragment, path>> \in Infix \/ fragment \in Wild)

Includes(path, fragment) == path # None /\ <<fragment, path>> \in Infix

\* build_where: the window, both ends included, and a conjunct per filter that is set.
BuildWhere(rows, window, f) ==
  {r \in rows : /\ window.from <= r.ts /\ r.ts <= window.to
                /\ Chosen(f.host) => r.host = f.host
                /\ Chosen(f.remote_ip) => r.remote_ip = f.remote_ip
                /\ Chosen(f.method) => r.method = UpperCase(f.method)
                /\ Chosen(f.status_class) => GetStatusClass(r.status) = f.status_class
                /\ Chosen(f.path) => Like(r.path, f.path)
                /\ Chosen(f.country) => r.country_code = UpperCase(f.country)}

\* Mutant: a row without a path passes the path filter.
RowMatchesFilters_NullPasses(r, f) ==
  /\ Chosen(f.host) => r.host = f.host
  /\ Chosen(f.remote_ip) => r.remote_ip = f.remote_ip
  /\ Chosen(f.method) => r.method = f.method
  /\ Chosen(f.status_class) => GetStatusClass(r.status) = f.status_class
  /\ Chosen(f.path) /\ r.path # None => Includes(r.path, f.path)
  /\ Chosen(f.country) => r.country_code = f.country

\* The rows of the live page.
RowMatchesFilters(r, f) ==
  /\ Chosen(f.host) => r.host = f.host
  /\ Chosen(f.remote_ip) => r.remote_ip = f.remote_ip
  /\ Chosen(f.method) => r.method = f.method
  /\ Chosen(f.status_class) => GetStatusClass(r.status) = f.status_class
  /\ Chosen(f.path) => Includes(r.path, f.path)
  /\ Chosen(f.country) => r.country_code = f.country

-----------------------------------------------------------------------------
(* Aggregates over the rows a WHERE clause has left.                       *)

Values(rows, c) == {r[c] : r \in rows}
Known(rows, c) == {r \in rows : r[c] # None}
ZeroIfNull(x) == IF x = None THEN 0 ELSE x
Total(rows, c) == MapThenSumSet(LAMBDA r : ZeroIfNull(r[c]), rows)
MaxOf(rows, c) == Max({0} \cup {r[c] : r \in rows})
Errors(rows) == Cardinality({r \in rows : r.status # None /\ r.status >= 400})

\* round(part / whole, digits), in units of its last digit, scale of which make 1.  A half goes
\* either way, as the double next to it falls.
Rounded(part, whole, scale) ==
  LET below == (part * scale) \div whole
  IN  IF whole = 0 THEN 0
      ELSE CHOOSE n \in {below, below + 1} : /\ 2 * part * scale <= (2 * n + 1) * whole
                                            /\ (2 * n - 1) * whole <= 2 * part * scale

\* AVG of the errors: three digits of it in most answers, four in the overview.
ErrorRate(rows, scale) == Rounded(Errors(rows), Cardinality(rows), scale)
Over(rate, percent, scale) == rate * 100 > percent * scale

\* The columns the grouped queries have in common.
Stat(rows) ==
  [req_count |-> Cardinality(rows), unique_ips |-> Cardinality(Values(rows, "remote_ip")),
   error_rate |-> ErrorRate(rows, 1000), bytes_out |-> Total(rows, "response_bytes"),
   threat_score |-> MaxOf(rows, "threat_score"), last_seen |-> MaxOf(rows, "ts")]

GroupBy(rows, c) == [v \in Values(rows, c) |-> Stat({r \in rows : r[c] = v})]
Counts(rows, c) == [v \in Values(rows, c) |-> Cardinality({r \in rows : r[c] = v})]

\* ORDER BY key DESC LIMIT limit: so many of them, and none left out before one that is not.
\* slice of a sorted answer is the same again.
Leading(key, limit) ==
  LET size == Cardinality(DOMAIN key)
  IN  {K \in SUBSET DOMAIN key :
         /\ Cardinality(K) = IF size < limit THEN size ELSE limit
         /\ \A k \in K, j \in DOMAIN key \ K : key[j] <= key[k]}

Column(table, c) == [k \in DOMAIN table |-> table[k][c]]
\* The answers of a query, of the table that has all the groups: the first by a column.
TopBy(table, c, limit) == {Restrict(table, K) : K \in Leading(Column(table, c), limit)}
TopCounts(counts, limit) == {Restrict(counts, K) : K \in Leading(counts, limit)}

\* COUNT per class: most queries have no upper end for 5xx, two have 599.
ByClass(rows, top) ==
  LET low == [c \in Classes |-> CASE c = "2xx" -> 200 [] c = "3xx" -> 300
                                  [] c = "4xx" -> 400 [] c = "5xx" -> 500]
  IN  [c \in Classes |->
         Cardinality({r \in rows : /\ r.status # None /\ low[c] <= r.status
                                   /\ r.status <= IF c = "5xx" THEN top ELSE low[c] + 99})]
NoTop == 999

\* Mutant: an error is a status above 400.
QueryOverview_Above(rows) ==
  [total_requests |-> Cardinality(rows), unique_ips |-> Cardinality(Values(rows, "remote_ip")),
   bytes_out |-> Total(rows, "response_bytes"),
   error_rate |-> Rounded(Cardinality({r \in rows : r.status # None /\ r.status > 400}),
                          Cardinality(rows), 10000),
   timed |-> Known(rows, "duration_ms") # {}, req |-> ByClass(rows, NoTop)]

\* p50_ms is 0 when no row has a duration.
QueryOverview(rows) ==
  [total_requests |-> Cardinality(rows), unique_ips |-> Cardinality(Values(rows, "remote_ip")),
   bytes_out |-> Total(rows, "response_bytes"), error_rate |-> ErrorRate(rows, 10000),
   timed |-> Known(rows, "duration_ms") # {}, req |-> ByClass(rows, NoTop)]

\* time_bucket; /bandwidth returns the same buckets.
QueryTimeseries(rows, bucket) ==
  LET In(b) == {r \in rows : r.ts \div bucket = b}
  IN  [b \in {r.ts \div bucket : r \in rows} |->
         [req_count |-> Cardinality(In(b)), unique_ips |-> Cardinality(Values(In(b), "remote_ip")),
          bytes_out |-> Total(In(b), "response_bytes"), req |-> ByClass(In(b), NoTop)]]

\* The buckets that have a measured duration.
QueryPerformance(rows, bucket) == {r.ts \div bucket : r \in Known(rows, "duration_ms")}

QueryStatusCodes(rows) == Counts(Known(rows, "status"), "status")
QueryHostsSummary(rows) == GroupBy(rows, "host")
QueryDevices(rows) == Counts(Known(rows, "ua_device"), "ua_device")

\* With a LIMIT.  The name of a country goes with its code; the empty text of a city, a
\* system or a referer counts as None.
QueryTopIps(rows) == TopBy(GroupBy(rows, "remote_ip"), "req_count", Limit["groups"])
QueryTopPaths(rows) == TopBy(GroupBy(Known(rows, "path"), "path"), "req_count", Limit["groups"])
QueryTopCountries(rows) ==
  TopBy(GroupBy(Known(rows, "country_code"), "country_code"), "req_count", Limit["groups"])
QueryTopCities(rows) ==
  LET Key(r) == <<r.city, r.country_code>>
  IN  TopBy([k \in {Key(r) : r \in Known(rows, "city")} |-> Stat({r \in rows : Key(r) = k})],
            "req_count", Limit["cities"])
QueryBrowsers(rows) == TopCounts(Counts(Known(rows, "ua_browser"), "ua_browser"), Limit["groups"])
QueryOs(rows) == TopCounts(Counts(Known(rows, "ua_os"), "ua_os"), Limit["groups"])

\* Without the limit that both pages set to 100.
PathsByStatus(rows) ==
  [p \in Values(Known(rows, "path"), "path") |->
     LET R == {r \in rows : r.path = p}
     IN  [total |-> Cardinality(R), req |-> ByClass(R, 599)]]
QueryPathsByStatus(rows) == TopBy(PathsByStatus(rows), "total", Limit["paths"])

\* HAVING COUNT(*) >= 3, over the rows with a duration; by a percentile, which is left out, so
\* that any of them may be first.
QuerySlowestPaths(rows) ==
  LET counts == Counts(Known(Known(rows, "path"), "duration_ms"), "path")
  IN  Leading([p \in {p \in DOMAIN counts : counts[p] >= 3} |-> 0], Limit["groups"])

HourOfDay(ts) == (ts % Day) \div Hour
DayOfWeek(ts) == (ts \div Day) % 7
QueryHostPatterns(rows) ==
  LET Cell(r) == <<DayOfWeek(r.ts), HourOfDay(r.ts)>>
  IN  [busy_hours |-> [k \in {Cell(r) : r \in rows} |->
                         Cardinality({r \in rows : Cell(r) = k})],
       protocols |-> [p \in {IF r.http_proto = None THEN "Unknown" ELSE r.http_proto : r \in rows} |->
                        Cardinality({r \in rows : p = r.http_proto
                                       \/ (p = "Unknown" /\ r.http_proto = None)})],
       bot_count |-> Cardinality({r \in rows : r.is_bot}), of |-> Cardinality(rows),
       top_referers |-> TopCounts(Counts(Known(rows, "referer_domain"), "referer_domain"),
                                 Limit["referers"])]

\* The twelve queries of one address; of the one best browser, too, a tie leaves a set.
QueryIpDetail(rows) ==
  LET At(b) == {r \in rows : r.ts \div Hour = b}
      In(h) == {r \in rows : HourOfDay(r.ts) = h}
      Best(c) == LET n == Counts(Known(rows, c), c)
                 IN  {v \in DOMAIN n : \A u \in DOMAIN n : n[u] <= n[v]}
  IN  [hosts_accessed |-> TopBy(GroupBy(rows, "host"), "req_count", Limit["hosts"]),
       timeline |-> [b \in {r.ts \div Hour : r \in rows} |->
                       [req_count |-> Cardinality(At(b)), req |-> ByClass(At(b), 599)]],
       methods |-> Counts(Known(rows, "method"), "method"),
       status_codes |-> QueryStatusCodes(rows),
       busy_hours |-> [h \in {HourOfDay(r.ts) : r \in rows} |->
                         [req_count |-> Cardinality(In(h)), err_count |-> Errors(In(h))]],
       browser |-> Best("ua_browser"), os |-> Best("ua_os"), tls |-> Best("tls_version"),
       bot_rate |-> Rounded(Cardinality({r \in rows : r.is_bot}), Cardinality(rows), 1000),
       bytes_out |-> Total(rows, "response_bytes"),
       timed |-> Known(rows, "duration_ms") # {}]

QueryIpProfile(rows) ==
  [req_count |-> Cardinality(rows), hosts_count |-> Cardinality(Values(rows, "host")),
   error_rate |-> ErrorRate(rows, 1000), max_threat |-> MaxOf(rows, "threat_score"),
   countries |-> Values(Known(rows, "country_code"), "country_code"),
   last_seen |-> MaxOf(rows, "ts"),
   top_paths |-> TopCounts(Counts(Known(rows, "path"), "path"), Limit["profile"])]

\* The addresses with a threat score, the worst first, of two as bad the one with more requests.
QueryTopThreats(rows) ==
  LET table == GroupBy({r \in rows : r.threat_score > 0}, "remote_ip")
      Badness(t) == t.threat_score * (Cardinality(rows) + 1) + t.req_count
  IN  {Restrict(table, K) : K \in Leading([ip \in DOMAIN table |-> Badness(table[ip])], Limit["groups"])}

\* Mutant: without DESC.
Rank_Ascending(r, rows) == Cardinality({q \in rows : q.ts < r.ts}) + 1

\* ORDER BY ts DESC LIMIT limit OFFSET (page - 1) * limit, for rows no two of which have the
\* same ts: of those that do, SQL may show one twice and the other never.
Rank(r, rows) == Cardinality({q \in rows : q.ts > r.ts}) + 1
PageOf(rows, page, limit) ==
  {r \in rows : (page - 1) * limit < Rank(r, rows) /\ Rank(r, rows) <= page * limit}

QueryRequestsPage(rows, page, limit) ==
  [total |-> Cardinality(rows), data |-> PageOf(rows, page, limit)]

\* Events of one request have the same ts, so that a page is one of several: what comes first
\* up to its end less what comes first up to its start.
EventPages(events, page, limit) ==
  LET ts == [e \in events |-> e.ts]
  IN  UNION {{A \ B : B \in {B \in Leading(ts, (page - 1) * limit) : B \subseteq A}} :
             A \in Leading(ts, page * limit)}

FoundEvents(events, window, q) ==
  {e \in events : /\ window.from <= e.ts /\ e.ts <= window.to
                  /\ \A k \in DOMAIN q : Chosen(q[k]) => e[k] = q[k]}

\* Mutant: the total counts the page.
QuerySecurityEvents_PageTotal(events, window, q, page) ==
  LET Pages == EventPages(FoundEvents(events, window, q), page, EventsLimit)
  IN  {[total |-> Cardinality(data), data |-> data] : data \in Pages}

QuerySecurityEvents(events, window, q, page) ==
  LET Pages == EventPages(FoundEvents(events, window, q), page, EventsLimit)
  IN  {[total |-> Cardinality(FoundEvents(events, window, q)), data |-> data] : data \in Pages}

-----------------------------------------------------------------------------
(* The endpoints that change the filters they are given.                   *)

\* top-countries and distinct-countries offer the country to filter by: they ignore it.
GetTopCountries(rows, window, f) ==
  QueryTopCountries(BuildWhere(rows, window, [f EXCEPT !.country = None]))
QueryDistinctCountries(rows, window, f) ==
  Values(BuildWhere(rows, window, [f EXCEPT !.country = None]), "country_code") \ {None}

GetHosts(rows, window) == QueryHostsSummary(BuildWhere(rows, window, NoFilter))
IpRows(rows, window, ip) == BuildWhere(rows, window, [NoFilter EXCEPT !.remote_ip = ip])

\* The events endpoint takes host and address of the console's filters, nothing else.
AskedEvents(f, severity) ==
  [AllTypes EXCEPT !.host = f.host, !.remote_ip = f.remote_ip, !.severity = severity]
GetSecurityEvents(events, window, f, severity, page) ==
  QuerySecurityEvents(events, window, AskedEvents(f, severity), page)

\* The sum of natural numbers: so many of each, counted together.
SumOf(counts) == Cardinality(UNION {{k} \X (1 .. counts[k]) : k \in DOMAIN counts})
=============================================================================
