----------------------------- MODULE MCConsole -----------------------------
(* An instance of Console for TLC: small tables, a short calendar, two networks. *)
EXTENDS Console, TLC

\* What the navigation finds for a query.
NavFound == "" :> {"/", "/realtime", "/requests", "/analytics", "/hosts", "/geo", "/security",
                   "/alerts", "/settings"} @@ "re" :> {"/realtime", "/requests"} @@ "x" :> {}

\* Five days over three months, of which three can be chosen.
FiveDays == 1 :> 1 @@ 2 :> 1 @@ 3 :> 2 @@ 4 :> 2 @@ 5 :> 3

\* Two of the five sections.
TwoSections == "retention" :> {"retention_days", "aggregation_retention_days"} @@ "webhook" :> {"webhook_url"}
ZeroDefault == [k \in {"retention_days", "aggregation_retention_days", "webhook_url"} |-> 0]

\* Two addresses and the network that holds both.
OverlappingNetworks == "i1" :> {"i1"} @@ "i2" :> {"i2"} @@ "net" :> {"i1", "i2"}

-----------------------------------------------------------------------------
(* The rows and events of the tables.                                      *)

Row(ts, host, ip, path_, status, ms, country, threat) ==
  [ts |-> ts, host |-> host, remote_ip |-> ip, method |-> "GET", path |-> path_,
   status |-> status, duration_ms |-> ms, response_bytes |-> ts + 1, country_code |-> country,
   city |-> country, ua_browser |-> IF threat > 0 THEN None ELSE "Firefox", ua_os |-> None,
   ua_device |-> "desktop", referer_domain |-> IF ts = 1 THEN "example.org" ELSE None,
   http_proto |-> IF threat > 0 THEN None ELSE "HTTP/2.0", tls_version |-> "tls1.3",
   is_bot |-> threat > 0, threat_score |-> threat]

\* With a status from 600 on, a request without a path, one at midnight, three timed ones on
\* one path, three countries and addresses, and a country only one of two hosts knows.
FiveRows ==
  {Row(0, "h1", "i1", "/a", 200, 5, "US", 0), Row(1, "h1", "i2", "/a", 400, 7, None, 45),
   Row(2, "h1", "i1", "/b", 600, None, "DE", 0), Row(3, "h2", "i1", None, 302, 1, "FR", 0),
   Row(4, "h1", "i3", "/a", 503, 3, "FR", 80)}

\* Two of one request, and a third.
Event(ts, type, severity, ip, host) ==
  [ts |-> ts, event_type |-> type, severity |-> severity, remote_ip |-> ip, host |-> host]
ThreeEvents ==
  {Event(1, "rate_limit", "high", "i1", "h1"), Event(1, "path_scan", "medium", "i1", "h1"),
   Event(3, "rate_limit", "high", "i2", "h2")}

Fragments == {<<"a", "/a">>, <<"/a", "/a">>, <<"/b", "/b">>}

\* Lists shorter than what the rows would fill.
SmallLimits ==
  [l \in LimitedLists |-> CASE l = "groups" -> 2 [] OTHER -> 1]

Capitals == "us" :> "US" @@ "fr" :> "FR"

\* As typed: each filter alone, two together, and values the page changes.
TypedFilters ==
  {NoFilter} \cup {[NoFilter EXCEPT !.host = h] : h \in {"h1", "h2"}}
    \cup {[NoFilter EXCEPT !.country = c] : c \in {"fr", "DE"}}
    \cup {[NoFilter EXCEPT !.path = p] : p \in {"a", "_"}}
    \cup {[NoFilter EXCEPT !.remote_ip = "i1", !.status_class = "2xx"],
          [NoFilter EXCEPT !.method = "FETCH", !.country = "us"]}
=============================================================================
