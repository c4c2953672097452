----------------------------- MODULE HostPage -----------------------------
(***************************************************************************)
(* What pages/HostDetail.tsx and pages/Hosts.tsx show of the answers of    *)
(* the API: the figures and lists of every panel, and when a panel is      *)
(* shown at all.  Layout, colours as such and formatting are left out; a   *)
(* colour that depends on a figure is the level it stands for.  A panel    *)
(* with a set of answers has a set of looks, one for each.                 *)
(***************************************************************************)
EXTENDS Queries

HostFilter(host) == [NoFilter EXCEPT !.host = host]
OrOne(n) == IF n = 0 THEN 1 ELSE n
Nonempty(table) == DOMAIN table # {}
NoPanel == <<>>   \* in the place of a panel that is not there

\* The level of a rate, of which scale makes 1.
ErrorLevel(rate, scale) ==
  IF Over(rate, 10, scale) THEN "red" ELSE IF Over(rate, 5, scale) THEN "amber" ELSE "plain"
ThreatLevel(score) ==
  IF score > 70 THEN "red" ELSE IF score > 40 THEN "amber" ELSE "plain"

\* A bar with its figure and its share; nothing of nothing is 0 %.
BarRow(count, total) == [count |-> count, share |-> <<count, total>>]

\* Every day and hour has a cell; the darkest are within 18 % of the busiest.
HeatCell(count, most) ==
  IF count = 0 THEN 0
  ELSE 1 + Cardinality({step \in {12, 25, 45, 65, 82} : count * 100 >= step * most})
HourHeatmap(busy) ==
  LET most == Max({1} \cup {busy[k] : k \in DOMAIN busy})
      Count(k) == IF k \in DOMAIN busy THEN busy[k] ELSE 0
  IN  [k \in (0 .. 6) \X (0 .. Day \div Hour - 1) |->
         [count |-> Count(k), shade |-> HeatCell(Count(k), most)]]

-----------------------------------------------------------------------------
(* The panels, of the answers they are given; o is that of /overview.      *)

\* The status bar: the classes that occur, as shares of the requests with a class.
HostHero(host, o) ==
  LET classed == OrOne(SumOf(o.req))
  IN  [requests |-> o.total_requests, unique_ips |-> o.unique_ips, sent |-> o.bytes_out,
       shares |-> [c \in {c \in Classes : o.req[c] > 0} |-> <<o.req[c], classed>>],
       all_requests |-> HostFilter(host)]

HostTiles(o) ==
  [requests |-> o.total_requests, unique_ips |-> o.unique_ips,
   error_rate |-> o.error_rate, level |-> ErrorLevel(o.error_rate, 10000),
   p50 |-> o.timed, bytes_out |-> o.bytes_out]

\* Traffic and visitors share the series; the latency card needs a bucket with a duration.
HostCharts(series, perf) ==
  [traffic |-> Column(series, "req_count"), visitors |-> Column(series, "unique_ips"),
   latency |-> IF perf # {} THEN perf ELSE None]

\* The first eight of the referers of an answer.
ReferersCard(counts) ==
  {[d \in K |-> BarRow(counts[d], Max({counts[e] : e \in DOMAIN counts}))] : K \in Leading(counts, 8)}

\* Nothing but a notice when the window has no request.
PatternsTab(patterns) ==
  IF Nonempty(patterns.busy_hours)
  THEN [heatmap |-> HourHeatmap(patterns.busy_hours),
        protocols |-> [p \in DOMAIN patterns.protocols |->
                         BarRow(patterns.protocols[p], OrOne(SumOf(patterns.protocols)))],
        bots |-> [count |-> patterns.bot_count,
                  warning |-> Over(Rounded(patterns.bot_count, patterns.of, 1000), 30, 1000)],
        referers |-> UNION {ReferersCard(counts) : counts \in patterns.top_referers}]
  ELSE NoPanel

PathFilters == {"all"} \cup Classes
PathCount(entry, filter) == IF filter = "all" THEN entry.total ELSE entry.req[filter]

\* Mutant: the buttons count paths, not their requests.
PathButtons_Paths(paths) ==
  [filter \in PathFilters |-> Cardinality({p \in DOMAIN paths : PathCount(paths[p], filter) > 0})]

\* The figure on each filter button.
PathButtons(paths) ==
  [filter \in PathFilters |-> SumOf([p \in DOMAIN paths |-> PathCount(paths[p], filter)])]

\* The list under them: most requests of the chosen class first.
PathsShown(paths, filter) ==
  {p \in DOMAIN paths : filter = "all" \/ PathCount(paths[p], filter) > 0}
PathsInOrder(paths, filter) ==
  {s \in [1 .. Cardinality(PathsShown(paths, filter)) -> PathsShown(paths, filter)] :
     \A i, j \in DOMAIN s : i < j => /\ s[i] # s[j]
                                     /\ PathCount(paths[s[i]], filter) >= PathCount(paths[s[j]], filter)}

\* A line of the list: the total, the classes that occur, and their part of the total.
PathLine(entry) ==
  [total |-> entry.total,
   bar |-> [c \in {c \in Classes : entry.req[c] > 0} |-> <<entry.req[c], OrOne(entry.total)>>]]

\* The paths of one answer.
PathsTab(paths) ==
  [buttons |-> PathButtons(paths), lines |-> [p \in DOMAIN paths |-> PathLine(paths[p])],
   listed |-> [filter \in PathFilters |-> PathsInOrder(paths, filter)]]

\* The slowest paths, or a notice that there is too little to rank.
SlowTable(slow) == IF slow = {} THEN None ELSE slow

\* Visitors as shares of the visitors listed, countries and cities of the first of them.
VisitorsCard(ips) ==
  LET listed == OrOne(SumOf(Column(ips, "req_count")))
  IN  [ip \in DOMAIN ips |->
         [requests |-> ips[ip].req_count, share |-> <<ips[ip].req_count, listed>>,
          level |-> ErrorLevel(ips[ip].error_rate, 1000),
          threat |-> ThreatLevel(ips[ip].threat_score)]]
RelativeToFirst(table) ==
  LET first == Max({1} \cup {table[k].req_count : k \in DOMAIN table})
  IN  [k \in DOMAIN table |-> [requests |-> table[k].req_count, unique_ips |-> table[k].unique_ips,
                               width |-> <<table[k].req_count, first>>]]
CountriesCard(countries) ==
  {[c \in K |-> [line |-> RelativeToFirst(countries)[c],
                error_note |-> Over(countries[c].error_rate, 5, 1000)]] :
     K \in Leading(Column(countries, "req_count"), 15)}
CitiesCard(cities) == RelativeToFirst(cities)

\* A card of the clients tab: its heading says 1 request where there is none, and counts what
\* the answer has beyond the bars.
ClientsCard(counts, K) ==
  LET total == OrOne(SumOf(counts))
  IN  [heading |-> total, bars |-> [k \in K |-> BarRow(counts[k], total)]]
ClientsTab(browsers, devices, os) ==
  [browsers |-> UNION {{ClientsCard(b, K) : K \in Leading(b, 15)} : b \in browsers},
   devices |-> ClientsCard(devices, DOMAIN devices),
   os |-> UNION {{ClientsCard(x, K) : K \in Leading(x, 15)} : x \in os}]

-----------------------------------------------------------------------------
(* The two pages, with the questions they ask.                             *)

HostDetail(rows, window, host) ==
  LET R == BuildWhere(rows, window, HostFilter(host))
      o == QueryOverview(R)
  IN  [hero |-> HostHero(host, o), tiles |-> HostTiles(o),
       charts |-> HostCharts(QueryTimeseries(R, window.bucket), QueryPerformance(R, window.bucket)),
       patterns |-> PatternsTab(QueryHostPatterns(R)),
       paths |-> {PathsTab(paths) : paths \in QueryPathsByStatus(R)},
       slow |-> {SlowTable(slow) : slow \in QuerySlowestPaths(R)},
       visitors |-> {VisitorsCard(ips) : ips \in QueryTopIps(R)},
       countries |-> UNION {CountriesCard(countries) :
                            countries \in GetTopCountries(rows, window, HostFilter(host))},
       cities |-> {CitiesCard(cities) : cities \in QueryTopCities(R)},
       clients |-> ClientsTab(QueryBrowsers(R), QueryDevices(R), QueryOs(R))]

\* A card of the list of hosts: the figures, and the page it opens.
HostCard(host, s) ==
  [requests |-> s.req_count, unique_ips |-> s.unique_ips, sent |-> s.bytes_out,
   last_seen |-> s.last_seen, high |-> Over(s.error_rate, 5, 1000),
   healthy |-> 1000 - s.error_rate, opens |-> host]
HostsPage(rows, window) ==
  [h \in DOMAIN GetHosts(rows, window) |-> HostCard(h, GetHosts(rows, window)[h])]

-----------------------------------------------------------------------------
\* Every panel of a host's page counts the same requests: the card that opens it, the
\* tiles, the chart, the heatmap, the protocols and the link to all of them; the visitors
\* listed do when there are no more of them than the list has lines, and no more than that
\* otherwise.  A card marked high never opens a page without a colour, although the two round
\* the rate to different digits.  The bar's shares make up the whole, and a bot is a request.
HostTotalsAgree(rows, window, host) ==
  LET page == HostDetail(rows, window, host)
      n == page.tiles.requests
      found == BuildWhere(rows, window, page.hero.all_requests)
      card == HostsPage(rows, window)[host]
  IN  /\ n = Cardinality(found) /\ page.hero.requests = n
      /\ SumOf(page.charts.traffic) = n
      /\ page.charts.latency # None => page.charts.latency \subseteq DOMAIN page.charts.traffic
      /\ \A visitors \in page.visitors :
           LET listed == SumOf(Column(visitors, "requests"))
           IN  listed <= n /\ (listed = n <=> page.tiles.unique_ips <= Limit["groups"])
      /\ n > 0 => /\ card.requests = n /\ card.unique_ips = page.tiles.unique_ips
                  /\ card.high => page.tiles.level # "plain"
      /\ (n > 0) <=> (page.patterns # NoPanel)
      /\ page.patterns # NoPanel =>
           /\ SumOf(Column(page.patterns.heatmap, "count")) = n
           /\ SumOf(Column(page.patterns.protocols, "count")) = n
           /\ page.patterns.bots.count <= n
      /\ DOMAIN page.hero.shares # {} =>
           SumOf([c \in DOMAIN page.hero.shares |-> page.hero.shares[c][1]])
             = page.hero.shares[CHOOSE c \in DOMAIN page.hero.shares : TRUE][2]

\* The buttons of the paths tab count no more than the requests with a path, of the class
\* they are for, and all of them when the paths fit the answer; then, too, the paths listed
\* under a button are those the filter by its class finds, and the slowest are among them.  A
\* status from 600 on is in the bar's 5xx and in no filter's.
HostPathsAgree(rows, window, host) ==
  LET page == HostDetail(rows, window, host)
      R == BuildWhere(rows, window, HostFilter(host))
      Of(c) == IF c = "all" THEN R
               ELSE BuildWhere(rows, window, [HostFilter(host) EXCEPT !.status_class = c])
      fits == Cardinality(Values(Known(R, "path"), "path")) <= Limit["paths"]
      Beyond == {r \in R : r.status # None /\ r.status >= 600}
  IN  /\ \A c \in Classes : QueryOverview(R).req[c]
           = Cardinality(Of(c)) + IF c = "5xx" THEN Cardinality(Beyond) ELSE 0
      /\ \A tab \in page.paths :
           /\ \A c \in PathFilters :
                LET found == Known(Of(c), "path")
                IN  /\ tab.buttons[c] <= Cardinality(found)
                    /\ fits => tab.buttons[c] = Cardinality(found)
                    /\ \A s \in tab.listed[c] :
                         /\ {s[i] : i \in DOMAIN s} \subseteq Values(found, "path")
                         /\ fits => {s[i] : i \in DOMAIN s} = Values(found, "path")
           /\ fits => \A slow \in page.slow : slow # None => slow \subseteq DOMAIN tab.lines
           /\ \A p \in DOMAIN tab.lines : tab.lines[p].total >=
                SumOf([c \in DOMAIN tab.lines[p].bar |-> tab.lines[p].bar[c][1]])
=============================================================================
