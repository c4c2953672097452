--------------------------- MODULE ConsolePages ---------------------------
(***************************************************************************)
(* What the other pages of the console show of the answers of the API:     *)
(* Dashboard.tsx, Analytics.tsx, Geo.tsx, Security.tsx, Requests.tsx and   *)
(* RealTime.tsx.  f is the filters of the URL, window the chosen range.    *)
(***************************************************************************)
EXTENDS IpPage

CONSTANTS
  EventsPage,   \* events the pager of the security page counts to a page (50)
  LocalWindow   \* ticks the live metrics look back

ASSUME PagerReachesAll == EventsPage \in 1 .. EventsLimit

NoCountry(f) == [f EXCEPT !.country = None]

-----------------------------------------------------------------------------
(* Dashboard.                                                              *)

\* No banner without requests.
HealthBanner(rate, total, events) ==
  IF total = 0 THEN NoPanel
  ELSE [level |-> IF Over(rate, 10, 10000) THEN "critical"
                  ELSE IF Over(rate, 5, 10000) THEN "degraded" ELSE "healthy",
        events |-> events]

\* The four classes and their part of all requests, those without a class included.
StatusBar(o) ==
  IF o.total_requests = 0 THEN NoPanel
  ELSE [c \in Classes |-> BarRow(o.req[c], o.total_requests)]

StatCards(o) ==
  [requests |-> o.total_requests, unique_ips |-> o.unique_ips, bytes_out |-> o.bytes_out,
   p50 |-> o.timed, errors |-> o.req["4xx"] + o.req["5xx"],
   error_rate |-> o.error_rate, level |-> ErrorLevel(o.error_rate, 10000)]

\* The first countries of all requests, as parts of the requests the country filter leaves; a
\* click on one sets the filter, on the active one clears it.
CountryToggle(f, country) ==
  UrlFilters([f EXCEPT !.country = IF f.country = country THEN None ELSE country])
CountriesList(countries, o, f) ==
  {[c \in K |-> [bar |-> BarRow(countries[c].req_count, o.total_requests),
                active |-> f.country = c, click |-> CountryToggle(f, c)]] :
     K \in Leading(Column(countries, "req_count"), Limit["dashboard"])}

TopEndpoints(paths) ==
  {Restrict(RelativeToFirst(paths), K) : K \in Leading(Column(paths, "req_count"), 8)}
TopAddresses(ips) ==
  {[ip \in K |-> [requests |-> ips[ip].req_count, badge |-> ips[ip].threat_score > 40]] :
     K \in Leading(Column(ips, "req_count"), 5)}
RecentEvents(answer) == IF answer.data # {} THEN EventPages(answer.data, 1, 4) ELSE {}

Dashboard(rows, events, window, f) ==
  LET R == BuildWhere(rows, window, f)
      o == QueryOverview(R)
      recent == GetSecurityEvents(events, window, f, None, 1)
  IN  [banner |-> {HealthBanner(o.error_rate, o.total_requests, answer.total) : answer \in recent},
       cards |-> StatCards(o), bar |-> StatusBar(o),
       traffic |-> Column(QueryTimeseries(R, window.bucket), "req_count"),
       countries |-> UNION {CountriesList(countries, o, f) :
                            countries \in GetTopCountries(rows, window, NoCountry(f))},
       endpoints |-> UNION {TopEndpoints(paths) : paths \in QueryTopPaths(R)},
       addresses |-> UNION {TopAddresses(ips) : ips \in QueryTopIps(R)},
       recent |-> UNION {RecentEvents(answer) : answer \in recent}]

-----------------------------------------------------------------------------
(* Analytics.                                                              *)

\* A click on the column that sorts already turns the direction, any other sorts by it.
SortBy(sort, field) ==
  [field |-> field, dir |-> IF sort.field = field /\ sort.dir = "desc" THEN "asc" ELSE "desc"]
InOrder(table, sort) ==
  {s \in [1 .. Cardinality(DOMAIN table) -> DOMAIN table] :
     \A i, j \in DOMAIN s : i < j =>
       /\ s[i] # s[j]
       /\ IF sort.dir = "desc" THEN table[s[i]][sort.field] >= table[s[j]][sort.field]
          ELSE table[s[i]][sort.field] <= table[s[j]][sort.field]}

TrafficCharts(series) ==
  [traffic |-> Column(series, "req_count"), visitors |-> Column(series, "unique_ips")]
BandwidthChart(series) == IF Nonempty(series) THEN Column(series, "bytes_out") ELSE NoPanel
PercentilesChart(perf) == IF perf # {} THEN perf ELSE None
Donut(counts, slice) == IF Nonempty(counts) THEN TopCounts(counts, slice) ELSE {NoPanel}

\* A bar of errors, counted back from the rate.
ErrorsOf(stat) == Rounded(stat.error_rate * stat.req_count, 1000, 1)

\* The chart of the first countries: the chosen one is marked, the others fade.
CountryChart(countries, f) ==
  IF Nonempty(countries)
  THEN {[c \in K |->
          [requests |-> countries[c].req_count, errors |-> ErrorsOf(countries[c]),
           marked |-> f.country = c, faded |-> Chosen(f.country) /\ f.country # c,
           click |-> CountryToggle(f, c)]] :
         K \in Leading(Column(countries, "req_count"), Limit["chart"])}
  ELSE {NoPanel}

\* Lines sorted by the chosen column, each with its part of the first line's requests.
EndpointTable(paths, sort) == InOrder(paths, sort)
AddressTable(ips, sort) == InOrder(ips, sort)

Analytics(rows, window, f, sort) ==
  LET R == BuildWhere(rows, window, f)
      series == QueryTimeseries(R, window.bucket)
  IN  [charts |-> TrafficCharts(series), bandwidth |-> BandwidthChart(series),
       percentiles |-> PercentilesChart(QueryPerformance(R, window.bucket)),
       browsers |-> UNION {Donut(browsers, 6) : browsers \in QueryBrowsers(R)},
       devices |-> Donut(QueryDevices(R), Cardinality(R)), statuses |-> Donut(QueryStatusCodes(R), 8),
       countries |-> UNION {CountryChart(countries, f) :
                            countries \in GetTopCountries(rows, window, NoCountry(f))},
       endpoints |-> UNION {EndpointTable(paths, sort) : paths \in QueryTopPaths(R)},
       addresses |-> UNION {AddressTable(ips, sort) : ips \in QueryTopIps(R)}]

-----------------------------------------------------------------------------
(* Geo.                                                                    *)

CountryHealth(rate) ==
  IF Over(rate, 20, 1000) THEN "High" ELSE IF Over(rate, 10, 1000) THEN "Medium"
  ELSE IF Over(rate, 5, 1000) THEN "Low" ELSE "OK"

\* The summary of the countries of an answer: the first of them, and the worst of their rates.
GeoSummary(countries) ==
  IF Nonempty(countries)
  THEN [number |-> Cardinality(DOMAIN countries),
        total |-> SumOf(Column(countries, "req_count")),
        top |-> {c \in DOMAIN countries :
                   \A d \in DOMAIN countries : countries[d].req_count <= countries[c].req_count},
        worst |-> {c \in DOMAIN countries :
                     \A d \in DOMAIN countries : countries[d].error_rate <= countries[c].error_rate}]
  ELSE NoPanel
GeoChart(countries) ==
  IF Nonempty(countries)
  THEN {[c \in K |-> [requests |-> countries[c].req_count, errors |-> ErrorsOf(countries[c])]] :
         K \in Leading(Column(countries, "req_count"), Limit["chart"])}
  ELSE {NoPanel}
GeoTable(countries) ==
  [c \in DOMAIN countries |->
     [requests |-> countries[c].req_count, unique_ips |-> countries[c].unique_ips,
      share |-> <<countries[c].req_count, SumOf(Column(countries, "req_count"))>>,
      level |-> ErrorLevel(countries[c].error_rate, 1000),
      health |-> CountryHealth(countries[c].error_rate)]]
Geo(rows, window, f) ==
  {[summary |-> GeoSummary(countries), chart |-> GeoChart(countries), table |-> GeoTable(countries)] :
     countries \in GetTopCountries(rows, window, NoCountry(f))}

-----------------------------------------------------------------------------
(* Security.                                                               *)

Severities == {"critical", "high", "medium", "low", "info"}
ASSUME SeveritiesAreValues == None \notin Severities
CountOf(data, c, v) == Cardinality({e \in data : e[c] = v})

\* The tiles and the badge count the events of the page shown, the heading counts all.
SeverityTiles(answer) == [s \in Severities |-> CountOf(answer.data, "severity", s)]
Badge(answer) ==
  LET serious == {e \in answer.data : e.severity \in {"critical", "high"}}
  IN  [count |-> Cardinality(serious), all_clear |-> serious = {}]
TypeChart(answer) == TopCounts(Counts(answer.data, "event_type"), Limit["types"])
ThreatsCard(threats) ==
  {[ip \in K |-> [score |-> threats[ip].threat_score, level |-> ThreatLevel(threats[ip].threat_score),
                 requests |-> threats[ip].req_count]] : K \in Leading(Column(threats, "threat_score"), 10)}
EventsLog(answer, page) ==
  [lines |-> answer.data, total |-> answer.total,
   pages |-> TotalPages(answer.total, EventsPage),
   back |-> page > 1, forward |-> page < TotalPages(answer.total, EventsPage)]

SecurityPage(rows, events, window, f, severity, page) ==
  {[tiles |-> SeverityTiles(answer), badge |-> Badge(answer), types |-> TypeChart(answer),
    threats |-> UNION {ThreatsCard(threats) :
                       threats \in QueryTopThreats(BuildWhere(rows, window, NoFilter))},
    log |-> EventsLog(answer, page)] : answer \in GetSecurityEvents(events, window, f, severity, page)}

-----------------------------------------------------------------------------
(* The request log.                                                        *)

\* What a line offers to filter by; the page of the new list is the first.
LineFilters(r, f) ==
  {[f EXCEPT !.host = r.host], [f EXCEPT !.remote_ip = r.remote_ip]}
    \cup (IF r.path # None THEN {[f EXCEPT !.path = r.path]} ELSE {})
    \cup (IF r.country_code # None THEN {UrlFilters([f EXCEPT !.country = r.country_code])} ELSE {})

\* The two pages on either side of the current one, and the arrows that still lead somewhere.
Pager(page, total) ==
  LET pages == TotalPages(total, PageSize)
  IN  [numbers |-> {p \in 1 .. pages : page - 2 <= p /\ p <= page + 2},
       back |-> page > 1, forward |-> page < pages, last |-> pages, more |-> pages > page + 2,
       showing |-> IF total > 0 THEN <<(page - 1) * PageSize + 1,
                                      IF page * PageSize < total THEN page * PageSize ELSE total>>
                   ELSE None]
\* The drawer of a line: what is unknown is a dash.
RequestDetail(r) ==
  [known |-> {c \in DOMAIN r : r[c] # None}, bot |-> r.is_bot,
   threat |-> IF r.threat_score > 0 THEN ThreatLevel(r.threat_score) ELSE None]
Requests(rows, window, f, page) ==
  LET answer == QueryRequestsPage(BuildWhere(rows, window, f), page, PageSize)
  IN  [lines |-> answer.data, total |-> answer.total, pager |-> Pager(page, answer.total),
       details |-> [r \in answer.data |-> RequestDetail(r)],
       filters |-> [r \in answer.data |-> LineFilters(r, f)]]

-----------------------------------------------------------------------------
(* The live page, of the rows and events it has received.                  *)

\* Metrics of the last events the filters leave; the host was filtered by the server.  An
\* event has the time it was received at, taken here for the time of the request.
ComputeLocalMetrics(received, now, f) ==
  LET matched == {r \in received : r.ts >= now - LocalWindow
                                     /\ RowMatchesFilters(r, [f EXCEPT !.host = None])}
      Count(c) == Cardinality({r \in matched : GetStatusClass(r.status) = c})
  IN  IF matched = {} THEN NoPanel
      ELSE [req_count |-> Cardinality(matched), req |-> [c \in Classes |-> Count(c)],
            errors |-> Count("4xx") + Count("5xx"), timed |-> Known(matched, "duration_ms") # {},
            unique_ips |-> Cardinality(Values(matched, "remote_ip")),
            bytes_out |-> Total(matched, "response_bytes")]

CountryFeed(shown) == Counts(Known(shown, "country_code"), "country_code")
HostFeed(shown) == Counts(shown, "host")
\* The first ten in the alphabet, which is left open here, as is the row a score is from.
IPFeed(shown) ==
  {[ip \in K |-> [count |-> Cardinality({r \in shown : r.remote_ip = ip}),
                 threats |-> {r.threat_score : r \in {r \in shown : r.remote_ip = ip}}]] :
     K \in Leading([ip \in Values(shown, "remote_ip") |-> 0], 10)}

MetricTiles(metrics, shown) ==
  [requests |-> IF metrics = NoPanel THEN None ELSE metrics.req_count,
   errors |-> IF metrics = NoPanel THEN None ELSE metrics.req["4xx"] + metrics.req["5xx"],
   unique_ips |-> IF metrics = NoPanel THEN Cardinality(Values(shown, "remote_ip")) ELSE metrics.unique_ips,
   countries |-> Cardinality(Values(shown, "country_code") \ {None}),
   hosts |-> Cardinality(Values(shown, "host"))]
LivePage(received, now, f) ==
  LET shown == {r \in received : RowMatchesFilters(r, f)}
  IN  [shown |-> shown, tiles |-> MetricTiles(ComputeLocalMetrics(received, now, f), shown),
       countries |-> CountryFeed(shown), hosts |-> HostFeed(shown), ips |-> IPFeed(shown)]

-----------------------------------------------------------------------------
\* The dashboard's cards, chart and countries count the same requests, its rate is that of
\* the errors it counts, a click on a country leaves as many as its line said, and the
\* banner's events are those the security page has under the same filters.
DashboardAgrees(rows, events, window, f) ==
  LET page == Dashboard(rows, events, window, f)
      n == page.cards.requests
      After(click) == Dashboard(rows, events, window, click).cards.requests
  IN  /\ SumOf(page.traffic) = n
      /\ page.cards.error_rate = Rounded(page.cards.errors, n, 10000)
      /\ \A banner \in page.banner : banner # NoPanel =>
           /\ banner.level = "critical" <=> page.cards.level = "red"
           /\ \A security \in SecurityPage(rows, events, window, f, None, 1) :
                banner.events = security.log.total
      /\ \A countries \in page.countries :
           /\ ~Chosen(f.country) =>
                SumOf([c \in DOMAIN countries |-> countries[c].bar.count]) <= n
           /\ \A c \in DOMAIN countries :
                IF countries[c].active
                THEN countries[c].bar.count = n /\ After(countries[c].click) >= n
                ELSE After(countries[c].click) = countries[c].bar.count

\* The countries of the geo page are no more requests than have a country, whatever country
\* is chosen, and all of them when the countries fit the answer.  When the worst of them is OK,
\* all are.  Analytics marks at most the chosen one, and a country that is in both charts has
\* the same bar.
GeoAgrees(rows, window, f) ==
  LET found == Known(BuildWhere(rows, window, NoCountry(f)), "country_code")
      charts == Analytics(rows, window, f, SortBy([field |-> None, dir |-> "desc"], "req_count")).countries
  IN  \A page \in Geo(rows, window, f) :
        /\ page.summary = NoPanel <=> found = {}
        /\ page.summary # NoPanel =>
             /\ page.summary.total <= Cardinality(found)
             /\ page.summary.total = Cardinality(found)
                  <=> Cardinality(Values(found, "country_code")) <= Limit["groups"]
             /\ page.summary.top # {} /\ page.summary.worst # {}
             /\ \A c \in page.summary.worst : page.table[c].health = "OK" =>
                  \A d \in DOMAIN page.table : page.table[d].health = "OK"
        /\ \A bars \in page.chart, chart \in charts : chart # NoPanel =>
             \A c \in DOMAIN chart : /\ ~(chart[c].marked /\ chart[c].faded)
                                    /\ c \in DOMAIN bars => chart[c].requests = bars[c].requests

\* A tile of the security page says how many events the filter by its severity finds, as
\* long as one page holds them all; "All clear" is only said of a page without a serious
\* event.  The pager has a page for every event, unless others have the same time.
SeveritiesAgree(rows, events, window, f) ==
  LET Page(s, n) == SecurityPage(rows, events, window, f, s, n)
      found == FoundEvents(events, window, AskedEvents(f, None))
  IN  \A page \in Page(None, 1) :
        /\ \A s \in Severities : \A behind \in Page(s, 1) :
             /\ page.tiles[s] <= behind.log.total
             /\ page.log.total <= EventsLimit => page.tiles[s] = behind.log.total
        /\ page.badge.all_clear <=> page.tiles["critical"] + page.tiles["high"] = 0
        /\ \A e \in found : (\A d \in found : d.ts = e.ts => d = e) =>
             \E n \in 1 .. page.log.pages : \A then \in Page(None, n) : e \in then.log.lines
        /\ page.log.forward => page.log.total > EventsPage

\* The chart of the types counts no more than the lines of the page, and all of them when
\* there are no more types than bars.
TypesAgree(rows, events, window, f) ==
  \A page \in SecurityPage(rows, events, window, f, None, 1) :
    \A types \in page.types :
      /\ SumOf(types) <= Cardinality(page.log.lines)
      /\ SumOf(types) = Cardinality(page.log.lines)
           <=> Cardinality(Values(page.log.lines, "event_type")) <= Limit["types"]

\* The pages of the log are all the requests found, none twice, each as long as it says;
\* the filters a line offers find the line.
RequestsAgree(rows, window, f) ==
  LET found == BuildWhere(rows, window, f)
      pages == Requests(rows, window, f, 1).pager.last
      Page(n) == Requests(rows, window, f, n)
  IN  /\ UNION {Page(n).lines : n \in 1 .. pages} = found
      /\ \A n \in 1 .. pages :
           /\ Page(n).pager.showing[2] - Page(n).pager.showing[1] + 1 = Cardinality(Page(n).lines)
           /\ Page(n).pager.forward <=> n < pages
           /\ \A m \in 1 .. n - 1 : Page(m).lines \cap Page(n).lines = {}
           /\ \A r \in Page(n).lines : \A g \in Page(n).filters[r] : r \in BuildWhere(rows, window, g)

\* The live page filters the rows it has received as the API filters those it has stored,
\* unless the path filter holds a wildcard.
LiveRowsAgree(rows, now, f) ==
  LET window == [from |-> now - LocalWindow, to |-> now]
      received == {r \in rows : window.from <= r.ts}
  IN  f.path \notin Wild => LivePage(received, now, f).shown = BuildWhere(rows, window, f)

\* Its metrics are the overview of the rows of its host, errors from status 600 on aside.
LiveMetricsAgree(rows, now, f) ==
  LET window == [from |-> now - LocalWindow, to |-> now]
      stored == BuildWhere(rows, window, f)
      received == {r \in rows : window.from <= r.ts}
      metrics == ComputeLocalMetrics({r \in received : Chosen(f.host) => r.host = f.host}, now, f)
      o == QueryOverview(stored)
      Beyond == {r \in stored : r.status # None /\ r.status >= 600}
  IN  f.path \notin Wild =>
        /\ metrics = NoPanel <=> stored = {}
        /\ metrics # NoPanel => /\ metrics.req_count = o.total_requests
                             /\ metrics.unique_ips = o.unique_ips
                             /\ metrics.bytes_out = o.bytes_out
                             /\ metrics.errors = o.req["4xx"] + o.req["5xx"] - Cardinality(Beyond)
=============================================================================
