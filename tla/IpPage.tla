------------------------------ MODULE IpPage ------------------------------
(***************************************************************************)
(* What pages/IPDetail.tsx and the card of components/shared/IPBadge.tsx   *)
(* show of one address.  The panels that are the same as a host's are      *)
(* HostPage's.                                                             *)
(***************************************************************************)
EXTENDS HostPage

CONSTANT PageSize   \* requests on a page of the tab (LIMIT = 50)

ASSUME PagesHoldRows == PageSize \in Nat \ {0}

IpFilter(ip) == [NoFilter EXCEPT !.remote_ip = ip]
WithClass(f, c) == IF c = "all" THEN f ELSE [f EXCEPT !.status_class = c]

Threat(score) == IF score > 70 THEN "HIGH" ELSE IF score > 40 THEN "MEDIUM" ELSE "LOW"
Colour(status) ==
  IF status >= 500 THEN "red" ELSE IF status >= 400 THEN "amber"
  ELSE IF status >= 300 THEN "indigo" ELSE "green"

\* The heading: country and threat of the profile, the client of the detail.
IpHero(ip, profile, detail) ==
  [countries |-> profile.countries, threat |-> Threat(profile.max_threat),
   bot |-> Over(detail.bot_rate, 50, 1000),
   badges |-> [browser |-> detail.browser, os |-> detail.os, tls |-> detail.tls],
   bot_flagged |-> detail.bot_rate, last_seen |-> profile.last_seen,
   all_requests |-> IpFilter(ip)]

IpTiles(profile, detail) ==
  [requests |-> profile.req_count, hosts |-> profile.hosts_count,
   error_rate |-> profile.error_rate, level |-> ErrorLevel(profile.error_rate, 1000),
   response |-> detail.timed, bandwidth |-> detail.bytes_out]

\* Every hour of the day has a bar; an address active in all of them is called a bot.
BusyHoursChart(busy) ==
  LET hours == 0 .. Day \div Hour - 1
      Requests(h) == IF h \in DOMAIN busy THEN busy[h].req_count ELSE 0
      Failed(h) == IF h \in DOMAIN busy THEN busy[h].err_count ELSE 0
  IN  [bars |-> [h \in hours |-> [ok |-> Requests(h) - Failed(h), err |-> Failed(h)]],
       allHoursActive |-> \A h \in hours : Requests(h) > 0]

\* Its heading calls the hosts of the answer the distinct hosts.
HostsAccessed(hosts) ==
  [heading |-> Cardinality(DOMAIN hosts),
   lines |-> [h \in DOMAIN hosts |-> [requests |-> hosts[h].req_count,
                                     level |-> ErrorLevel(hosts[h].error_rate, 1000)]]]

\* Bars as long as their part of the longest; the figure beside them is that part too.
MethodsCard(methods) ==
  LET most == Max({1} \cup {methods[m] : m \in DOMAIN methods})
  IN  [m \in DOMAIN methods |-> BarRow(methods[m], most)]
StatusCard(codes) ==
  LET most == Max({1} \cup {codes[s] : s \in DOMAIN codes})
  IN  [s \in DOMAIN codes |-> [count |-> codes[s], width |-> <<codes[s], most>>, colour |-> Colour(s)]]

\* The rows of the client card that have a value; without any of three, a notice too.
ClientCard(detail) ==
  [browser |-> detail.browser, os |-> detail.os, tls |-> detail.tls,
   bots |-> detail.bot_rate,
   notice |-> detail.browser = {} /\ detail.os = {} /\ detail.tls = {}]

ActivityTab(detail) ==
  [hours |-> IF Nonempty(detail.busy_hours) THEN BusyHoursChart(detail.busy_hours) ELSE NoPanel,
   hosts |-> {HostsAccessed(hosts) : hosts \in detail.hosts_accessed}, methods |-> MethodsCard(detail.methods),
   statuses |-> StatusCard(detail.status_codes), client |-> ClientCard(detail)]

\* Mutant: a redirect counts as a success.
FilterCounts_From2xx(profile, codes) ==
  LET In(low, high) == SumOf([s \in {s \in DOMAIN codes : low <= s /\ s < high} |-> codes[s]])
  IN  [c \in PathFilters |->
         CASE c = "all" -> profile.req_count [] c = "2xx" -> In(200, 400)
           [] c = "3xx" -> In(300, 400) [] c = "4xx" -> In(400, 500) [] c = "5xx" -> In(500, 1000)]

\* The figures of the pills, added up from the status codes of the detail.
FilterCounts(profile, codes) ==
  LET In(low, high) == SumOf([s \in {s \in DOMAIN codes : low <= s /\ s < high} |-> codes[s]])
  IN  [c \in PathFilters |->
         CASE c = "all" -> profile.req_count [] c = "2xx" -> In(200, 300)
           [] c = "3xx" -> In(300, 400) [] c = "4xx" -> In(400, 500) [] c = "5xx" -> In(500, 1000)]

\* The requests behind a pill, a page of them, the pager and the link to the explorer.
TotalPages(total, size) == (total + size - 1) \div size
RequestsTab(rows, window, ip, filter, page) ==
  LET answer == QueryRequestsPage(BuildWhere(rows, window, WithClass(IpFilter(ip), filter)),
                                  page, PageSize)
      pages == TotalPages(answer.total, PageSize)
  IN  [lines |-> answer.data, total |-> answer.total, pages |-> pages,
       pager |-> pages > 1, back |-> pages > 1 /\ page > 1, forward |-> pages > 1 /\ page < pages,
       explorer |-> WithClass(IpFilter(ip), filter)]

\* The first page of everybody's events, the address picked out of it.
SecurityTab(events, window, ip) ==
  {{e \in answer.data : e.remote_ip = ip} : answer \in GetSecurityEvents(events, window, NoFilter, None, 1)}

IPDetail(rows, events, window, ip) ==
  LET R == IpRows(rows, window, ip)
      profile == QueryIpProfile(R)
      detail == QueryIpDetail(R)
  IN  [hero |-> IpHero(ip, profile, detail), tiles |-> IpTiles(profile, detail),
       timeline |-> Column(detail.timeline, "req_count"), activity |-> ActivityTab(detail),
       buttons |-> {PathButtons(paths) : paths \in QueryPathsByStatus(R)},
       pills |-> FilterCounts(profile, detail.status_codes),
       security |-> SecurityTab(events, window, ip)]

\* The card over an address anywhere: its last 24 hours, whatever window is chosen.
IPCardContent(rows, now, ip) ==
  LET profile == QueryIpProfile(IpRows(rows, ResolveTimeRange(Preset("l24h"), now), ip))
  IN  [requests |-> profile.req_count, red |-> Over(profile.error_rate, 10, 1000),
       threat |-> Threat(profile.max_threat)]

-----------------------------------------------------------------------------
\* A pill says how many requests are behind it, and the link beside it finds as many.  From
\* 600 on, as on a host's page.
PillsCount(rows, events, window, ip) ==
  LET page == IPDetail(rows, events, window, ip)
      Beyond == {r \in IpRows(rows, window, ip) : r.status # None /\ r.status >= 600}
  IN  \A c \in PathFilters :
        LET first == RequestsTab(rows, window, ip, c, 1)
        IN  /\ page.pills[c] = first.total + IF c = "5xx" THEN Cardinality(Beyond) ELSE 0
            /\ Cardinality(BuildWhere(rows, window, first.explorer)) = first.total

\* The pages of a pill are all its requests, none twice.
PillsPaged(rows, window, ip) ==
  \A c \in PathFilters :
    LET Tab(n) == RequestsTab(rows, window, ip, c, n)
        pages == Tab(1).pages
    IN  /\ UNION {Tab(n).lines : n \in 1 .. pages} = BuildWhere(rows, window, Tab(1).explorer)
        /\ \A n \in 1 .. pages : /\ \A m \in 1 .. n - 1 : Tab(m).lines \cap Tab(n).lines = {}
                                 /\ Tab(n).forward <=> n < pages

\* The panels of an address count the same requests, errors and hosts; the profile and
\* the detail are two requests to the server.  The list of hosts is that of the tile up to its
\* last line, and counts every request when the tile says no more than it has lines.
IpTotalsAgree(rows, events, window, ip) ==
  LET page == IPDetail(rows, events, window, ip)
      n == page.tiles.requests
      hours == page.activity.hours
  IN  /\ page.pills["all"] = n /\ SumOf(page.timeline) = n
      /\ Cardinality(BuildWhere(rows, window, page.hero.all_requests)) = n
      /\ \A hosts \in page.activity.hosts :
           LET listed == SumOf(Column(hosts.lines, "requests"))
           IN  /\ hosts.heading = IF page.tiles.hosts < Limit["hosts"] THEN page.tiles.hosts ELSE Limit["hosts"]
               /\ listed <= n /\ (listed = n <=> page.tiles.hosts <= Limit["hosts"])
      /\ SumOf(Column(page.activity.statuses, "count")) >= SumOf(page.pills) - n
      /\ (n > 0) <=> (hours # NoPanel)
      /\ hours # NoPanel =>
           /\ page.tiles.error_rate = Rounded(SumOf(Column(hours.bars, "err")), n, 1000)
           /\ SumOf(Column(hours.bars, "ok")) + SumOf(Column(hours.bars, "err")) = n
           /\ n < Day \div Hour => ~hours.allHoursActive
      /\ \A buttons \in page.buttons : buttons["all"] <= n

\* The security tab shows events of the address only, and hides one of them only when the
\* events of everybody fill more than the one page it asks for.
SecurityTabComplete(rows, events, window, ip) ==
  LET everybody == FoundEvents(events, window, AskedEvents(NoFilter, None))
      own == FoundEvents(events, window, AskedEvents(IpFilter(ip), None))
  IN  \A tab \in IPDetail(rows, events, window, ip).security :
        /\ tab \subseteq own
        /\ Cardinality(everybody) <= EventsLimit => tab = own
        /\ Cardinality(everybody \ own) < EventsLimit /\ own # {} => tab # {}

\* The card over an address says what its page says of the last 24 hours.
IpCardAgrees(rows, events, now, ip) ==
  LET page == IPDetail(rows, events, ResolveTimeRange(Preset("l24h"), now), ip)
      card == IPCardContent(rows, now, ip)
  IN  /\ card.requests = page.tiles.requests /\ card.threat = page.hero.threat
      /\ card.red <=> page.tiles.level = "red"
=============================================================================
