----------------------------- MODULE Explorer -----------------------------
(***************************************************************************)
(* A tab of the console between its address bar and the API: the filters   *)
(* and the page in the URL, the drawer that stages filters, the time range *)
(* of the top bar, a page's own state, and the query cache every panel     *)
(* reads through.  One panel is watched at a time.                         *)
(*                                                                         *)
(* Of the six filters two are kept: country, which some panels leave out,  *)
(* and host, which stands for the other five.                              *)
(***************************************************************************)
EXTENDS Naturals

CONSTANTS
  Undefined,
  HostNames, Countries, Modes,   \* filter values and time ranges
  MaxChanges,                \* bound: changes the user makes
  MaxFetches                 \* bound: requests to the API

VARIABLES
  panel,     \* the panel that is watched, Undefined before the first page is open
  tab,       \* mode; URL: host, country, page; subject of the route; the page's own state
  drawer,    \* open, and the filters staged in it
  pending,   \* requests under way: the key they are for and what they ask
  cache,     \* by query key: what was asked for the answer that is kept
  changes, fetches

tabVars == <<panel, tab, drawer, pending, cache, changes, fetches>>

-----------------------------------------------------------------------------
(* The useQuery calls: the values a query key names and those queryFn reads. *)

ByUrl == {"overview", "timeseries-dash", "top-paths-dash", "top-ips-dash", "security-events-dash",
          "ts-an", "perf-an", "bw-an", "paths-an", "ips-an", "br-an", "dev-an", "sc-an"}
AnyCountry == {"top-countries-dash", "co-an", "countries-geo"}
ByRange == {"filter-hosts", "filter-countries", "top-threats", "hosts-page"}
BySubject == {"host-paths", "host-slowest", "host-top-ips", "host-top-countries", "host-top-cities",
              "host-browsers", "host-devices", "host-os", "host-overview", "host-timeseries",
              "host-performance", "host-patterns", "ip-paths", "ip-profile", "ip-detail"}
Unfiltered == {"whitelist", "alert-rules", "alert-history", "system-info", "log-sources", "app-settings"}
Panels == ByUrl \cup AnyCountry \cup ByRange \cup BySubject \cup Unfiltered
            \cup {"requests", "security-events", "ip-requests", "ip-sec-events", "ip-status", "ip-mini"}

\* Mutant: the log is cached by its filters alone.
QueryKey_NoPage(p) ==
  CASE p \in ByUrl -> {"mode", "host", "country"}
    [] p \in AnyCountry -> {"mode", "host"}
    [] p \in ByRange -> {"mode"}
    [] p \in BySubject -> {"subject", "mode"}
    [] p = "requests" -> {"host", "country", "mode"}
    [] p = "security-events" -> {"ownPage", "ownFilter", "mode", "host", "country"}
    [] p = "ip-requests" -> {"subject", "ownFilter", "ownPage", "mode"}
    [] p = "ip-sec-events" -> {"subject", "mode"}
    [] p \in {"ip-status", "ip-mini"} -> {"subject"}
    [] OTHER -> {}

QueryKey(p) ==
  CASE p \in ByUrl -> {"mode", "host", "country"}
    [] p \in AnyCountry -> {"mode", "host"}
    [] p \in ByRange -> {"mode"}
    [] p \in BySubject -> {"subject", "mode"}
    [] p = "requests" -> {"page", "host", "country", "mode"}
    [] p = "security-events" -> {"ownPage", "ownFilter", "mode", "host", "country"}
    [] p = "ip-requests" -> {"subject", "ownFilter", "ownPage", "mode"}
    [] p = "ip-sec-events" -> {"subject", "mode"}
    [] p \in {"ip-status", "ip-mini"} -> {"subject"}
    [] OTHER -> {}

\* Events are asked for by host and address, those of an address without even that; the
\* card over an address always asks for 24 hours.
QueryFn(p) ==
  CASE p \in ByUrl \ {"security-events-dash"} -> {"mode", "host", "country"}
    [] p = "security-events-dash" -> {"mode", "host"}
    [] p \in AnyCountry -> {"mode", "host"}
    [] p \in ByRange -> {"mode"}
    [] p \in BySubject -> {"mode", "subject"}
    [] p = "requests" -> {"mode", "host", "country", "page"}
    [] p = "security-events" -> {"mode", "host", "ownPage", "ownFilter"}
    [] p = "ip-requests" -> {"mode", "subject", "ownFilter", "ownPage"}
    [] p = "ip-sec-events" -> {"mode"}
    [] p \in {"ip-status", "ip-mini"} -> {"subject"}
    [] OTHER -> {}

\* There is something to choose from, and a panel to be told from none.
ASSUME ChoicesExist ==
  /\ Modes # {} /\ HostNames # {} /\ Undefined \notin Panels
  /\ MaxChanges \in Nat /\ MaxFetches \in Nat

Key(p) == <<p, [x \in QueryKey(p) |-> tab[x]]>>
Asked(p) == [x \in QueryFn(p) |-> tab[x]]

\* The pages with a filter bar.
Filtered == ByUrl \cup AnyCountry \cup {"requests", "security-events", "filter-hosts", "filter-countries"}

TabTypeOK ==
  /\ panel \in Panels \cup {Undefined}
  /\ tab.mode \in Modes /\ tab.host \in HostNames \cup {Undefined} /\ tab.country \in Countries \cup {Undefined}
  /\ tab.page \in {1, 2} /\ tab.ownPage \in {1, 2} /\ tab.subject \in HostNames
  /\ drawer.open => panel \in Filtered
  /\ changes \in 0 .. MaxChanges /\ fetches \in 0 .. MaxFetches

OwnFilters == {Undefined, "high"}   \* a severity, or the class of a pill

Closed == [open |-> FALSE, host |-> Undefined, country |-> Undefined]

TabInit ==
  /\ panel = Undefined /\ drawer = Closed /\ pending = {} /\ cache = [k \in {} |-> Undefined]
  /\ tab = [mode |-> CHOOSE m \in Modes : TRUE, host |-> Undefined, country |-> Undefined, page |-> 1,
            subject |-> CHOOSE h \in HostNames : TRUE, ownPage |-> 1, ownFilter |-> Undefined]
  /\ changes = 0 /\ fetches = 0

\* The user does something; an open drawer covers the page.
Change ==
  /\ panel # Undefined /\ ~drawer.open
  /\ changes < MaxChanges
  /\ changes' = changes + 1
  /\ UNCHANGED <<pending, cache, fetches>>

-----------------------------------------------------------------------------
(* The address bar.                                                        *)

\* A link of the navigation carries no query; the page it opens starts afresh.
Open(p, subject) ==
  /\ panel = Undefined
  /\ panel' = p
  /\ tab' = [tab EXCEPT !.subject = subject]
  /\ UNCHANGED <<drawer, pending, cache, changes, fetches>>

\* From one subject's page to another's, through the list.
OpenSubject(subject) ==
  /\ Change
  /\ panel \in BySubject \cup {"ip-requests", "ip-sec-events", "ip-status", "ip-mini"}
  /\ subject # tab.subject
  /\ tab' = [tab EXCEPT !.subject = subject, !.ownPage = 1, !.ownFilter = Undefined]
  /\ UNCHANGED <<panel, drawer>>

\* All requests of the page's subject.
FollowLink ==
  /\ Change
  /\ panel \in {"host-overview", "ip-requests"}
  /\ panel' = "requests"
  /\ tab' = [tab EXCEPT !.host = tab.subject, !.country = Undefined, !.page = 1]
  /\ UNCHANGED drawer

\* setFilter, removeFilter and clearFilters: the page number goes with the old filters.
SetFilters(host, country) ==
  tab' = [tab EXCEPT !.host = host, !.country = country, !.page = 1]

\* A button of a line or of a country; on the active country it clears.
SetFilter ==
  /\ Change
  /\ panel \in Filtered
  /\ \/ \E h \in HostNames : SetFilters(h, tab.country)
     \/ \E c \in Countries : SetFilters(tab.host, IF tab.country = c THEN Undefined ELSE c)
  /\ UNCHANGED <<panel, drawer>>

\* The cross on a chip.
RemoveFilter ==
  /\ Change
  /\ panel \in Filtered
  /\ \/ tab.host # Undefined /\ SetFilters(Undefined, tab.country)
     \/ tab.country # Undefined /\ SetFilters(tab.host, Undefined)
  /\ UNCHANGED <<panel, drawer>>

\* Offered from the second chip on.
ClearFilters ==
  /\ Change
  /\ panel \in Filtered
  /\ tab.host # Undefined /\ tab.country # Undefined
  /\ SetFilters(Undefined, Undefined)
  /\ UNCHANGED <<panel, drawer>>

GoToPage ==
  /\ Change
  /\ panel = "requests"
  /\ tab' = [tab EXCEPT !.page = 3 - tab.page]
  /\ UNCHANGED <<panel, drawer>>

\* Neither the page in the URL nor a page's own state is reset.
ChangeMode(m) ==
  /\ Change
  /\ m # tab.mode
  /\ tab' = [tab EXCEPT !.mode = m]
  /\ UNCHANGED <<panel, drawer>>

\* The pills of an address start at the first page, the severities keep theirs.
SetOwnFilter(c) ==
  /\ Change
  /\ panel \in {"security-events", "ip-requests"}
  /\ tab' = [tab EXCEPT !.ownFilter = c, !.ownPage = IF panel = "ip-requests" THEN 1 ELSE @]
  /\ UNCHANGED <<panel, drawer>>

TurnOwnPage ==
  /\ Change
  /\ panel \in {"security-events", "ip-requests"}
  /\ tab' = [tab EXCEPT !.ownPage = 3 - tab.ownPage]
  /\ UNCHANGED <<panel, drawer>>

-----------------------------------------------------------------------------
(* The drawer: filters are staged in it and reach the URL together.        *)

OpenDrawer ==
  /\ Change
  /\ panel \in Filtered
  /\ drawer' = [open |-> TRUE, host |-> tab.host, country |-> tab.country]
  /\ UNCHANGED <<panel, tab>>

Stage ==
  /\ drawer.open
  /\ \/ \E h \in HostNames \cup {Undefined} : drawer' = [drawer EXCEPT !.host = h]
     \/ \E c \in Countries \cup {Undefined} : drawer' = [drawer EXCEPT !.country = c]
  /\ UNCHANGED <<panel, tab, pending, cache, changes, fetches>>

\* Apply, Reset all, or a click outside.
CloseDrawer ==
  /\ drawer.open
  /\ drawer' = Closed
  /\ \/ SetFilters(drawer.host, drawer.country)
     \/ SetFilters(Undefined, Undefined)
     \/ UNCHANGED tab
  /\ UNCHANGED <<panel, pending, cache, changes, fetches>>

-----------------------------------------------------------------------------
(* The query cache.                                                        *)

\* A panel that is shown asks when its key has no answer yet or an old one.
Fetch ==
  /\ panel # Undefined /\ fetches < MaxFetches
  /\ \A q \in pending : q.key # Key(panel)
  /\ pending' = pending \cup {[key |-> Key(panel), asked |-> Asked(panel)]}
  /\ fetches' = fetches + 1
  /\ UNCHANGED <<panel, tab, drawer, cache, changes>>

\* An answer is kept under the key it was asked for, whatever is shown by now.
FetchAnswered(q) ==
  /\ q \in pending
  /\ pending' = pending \ {q}
  /\ cache' = [k \in DOMAIN cache \cup {q.key} |-> IF k = q.key THEN q.asked ELSE cache[k]]
  /\ UNCHANGED <<panel, tab, drawer, changes, fetches>>

FetchFails(q) ==
  /\ q \in pending
  /\ pending' = pending \ {q}
  /\ UNCHANGED <<panel, tab, drawer, cache, changes, fetches>>

TabNext ==
  \/ \E p \in Panels, h \in HostNames : Open(p, h)
  \/ \E h \in HostNames : OpenSubject(h)
  \/ \E c \in OwnFilters : SetOwnFilter(c)
  \/ \E m \in Modes : ChangeMode(m)
  \/ FollowLink \/ SetFilter \/ RemoveFilter \/ ClearFilters \/ GoToPage \/ TurnOwnPage
  \/ OpenDrawer \/ Stage \/ CloseDrawer
  \/ Fetch \/ (\E q \in pending : FetchAnswered(q) \/ FetchFails(q))

TabSpec == TabInit /\ [][TabNext]_tabVars

-----------------------------------------------------------------------------
\* A panel that has an answer and waits for none shows what the URL, the time range and the
\* page ask for now: no answer, however late, is kept where another question is looked up.
SettledShowsUrl ==
  panel # Undefined /\ Key(panel) \in DOMAIN cache => cache[Key(panel)] = Asked(panel)
=============================================================================
