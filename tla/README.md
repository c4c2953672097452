# cadsa in TLA+

TLA+ specifications of [cadsa](../src/README.md), a dashboard for the access logs of the Caddy
web server, with the TLC runs that check them on small instances and TLAPS proofs of the
properties that matter most for every instance. Paths below are relative to `src/`; `PROJECT.json`
maps every definition to the lines it models.

## 1. The system

A single Python process (FastAPI on one asyncio event loop, with a pool of executor threads, the
observer thread of `watchdog` and an APScheduler) tails Caddy's JSON logs into DuckDB, watches
the traffic for suspicious patterns, and serves a React front end, which logs in with a password
and a second factor, follows the traffic over a WebSocket and reads everything else through a
query cache.

| Component | State | Operations | Interacts with |
| --- | --- | --- | --- |
| Log watcher, `backend/core/log_watcher.py` | per file a byte position and a lock | backfill, `on_modified`, start, stop | reads Caddy's file; schedules one coroutine per line on the loop |
| Ingestion, `backend/core/ingestion.py` | replay ring (10 000), live window (30 s), broadcast callbacks | `ingest_line_async`, register/unregister | parser and insert on executor threads; ring, broadcast, security engine on the loop |
| Parser, enrichment, `log_parser.py`, `enrichment.py` | none | one row per line | called by ingestion |
| Discovery, `discovery.py` | none | which files to watch, once at start | Caddy's admin API, Caddyfile, file system |
| Security engine, `security_engine.py` | three windows per address | `_evaluate` per row, `cleanup_stale_ip_data` every 30 minutes | the cleanup runs on an executor thread at the same time as the loop |
| DuckDB store, `backend/db/duckdb_manager.py` | requests, events, statistics by minute and hour | insert, aggregate, purge; some thirty queries | pipeline, scheduler, APIs |
| SQLite store, `backend/db/sqlite_manager.py` | users, refresh tokens, alert rules, settings, whitelist, blocklist | one connection and transaction per call | authentication, alerts, settings, security API |
| Authentication, `backend/api/auth.py` | partial tokens in memory | login, 2fa, backup code, refresh, logout, set-up, confirm, change of password | each request awaits the store between its steps |
| Real-time endpoint, `backend/api/realtime.py` | per connection a queue (500) and a filter | replay, register, send, receive, end | callback from the pipeline |
| Analytics, security, settings APIs, `backend/api/` | none | one or several store calls per request | the pages |
| Scheduler, alerts, `backend/scheduler.py`, `backend/alerts/` | last trigger of a rule | aggregation, purge, alert rules, metrics | the stores |
| Session, `frontend/src/lib/api.ts`, `stores/auth.ts`, `main.tsx` | access and refresh token, the shared refresh promise | fetch with one retry, refresh, login, logout, reload | authentication API |
| Routes and first steps, `App.tsx`, `pages/Login.tsx`, `ChangePassword.tsx`, `Setup2FA.tsx` | the user as last loaded, the step of the page | four gates, two steps of a login, password, QR code, backup codes | authentication API; the account changes under them |
| Real time, `lib/websocket.ts`, `pages/RealTime.tsx` | socket, timers, rows | connect, reconnect, disconnect, show | real-time endpoint |
| Filters and query cache, `hooks/useFilters.ts`, `components/shared/FilterBar.tsx`, every `useQuery` | URL, staged filters, answers by key | set, remove, clear, stage, page, fetch | analytics and security APIs |
| Pages of hosts and addresses, dashboard, analytics, geography, security, requests | none but a page number or a tab | figures computed from several answers | query cache |
| Frame, `components/layout/Layout.tsx`, `ui/date-picker.tsx`, `lib/date-range.ts` | palette, menus, calendar, time range | keyboard and mouse, midnight | the range every panel asks for |
| Settings page, `pages/Settings.tsx` | a draft per section | edit, save | `PATCH /settings/`, one key after the other |
| Address lists, `pages/IPDetail.tsx`, `pages/Security.tsx` | the last answer | block, trust, remove | `security_api.py`, by id |

What makes it hard:

- lines of one file are handled by concurrent coroutines whose inserts finish in any order;
- a restart finds out from timestamps alone which lines it has seen;
- requests of the authentication API work on rows read before an await;
- the security cleanup is a thread beside the loop that evaluates rows;
- a connection's replay and its registration for live messages are separated by an await;
- the browser reconnects by timers that race with mounting and unmounting;
- calls share one token refresh, whose answer may be late, lost, or for a session that has gone;
- the gates of the routes decide on a copy of the user that another browser makes stale;
- answers arrive for questions the page no longer asks, and are kept by key;
- one figure is computed by several queries, or again in the browser;
- rows arrive late, after their minute was aggregated and while the log is being paged;
- drafts and lists of entries are older than the tables they are written back to.

What makes each part right is stated as the properties of section 3; the full list of hazards,
each at its line, is in `PROJECT.json`.

## 2. The modules

| Module | Models |
| --- | --- |
| `LogIngest` | one log file from disk to the requests table: Caddy, watcher, pipeline, start/stop, purge |
| `LineStore` | the abstract specification of the table: a line is absent, stored once, purged for good |
| `Auth` | the login endpoints over the users and refresh-token tables, for one account |
| `Onboarding` | the gates of `App.tsx` and the pages of login, password and second factor, in several browsers |
| `RealtimeServer` | the WebSocket endpoint for any number of connections |
| `RealtimeClient` | the `wsClient` singleton and the page that uses it |
| `Realtime` | the two of them composed, with the network and the user |
| `SecurityEngine` | the counting rules and the cleanup thread |
| `ApiSession` | the browser's tokens, calls and shared refresh, against a server that knows live sessions and valid tokens |
| `Queries` | the SQL of the DuckDB store as operators over a set of rows |
| `HostPage`, `IpPage`, `ConsolePages` | what every panel of the console makes of the answers |
| `RequestLog` | the tables over time: late rows, events, aggregation, purge |
| `Explorer` | URL, filters, drawer and the query cache of a tab |
| `Shell` | palette, menus, calendar and time range around the pages |
| `SettingsPage` | drafts of the settings page and the key-by-key PATCH |
| `IpLists` | whitelist and blocklist, and the tabs that edit them |
| `Console` | the last five side by side |
| `MC*` | instances for TLC: the values of the constants, and nothing of the model |
| `*Proofs` | the theorems about the module of that name and their proofs |

Definitions named `X_Something` with the comment *Mutant* are variants of `X` with a plausible bug.
No specification uses them; each property has been seen to fail with one of them in the place of
its original.

### LogIngest

A line is its number in the order of writing, and one unit long, so the byte position `_pos` is a
number of lines and `base` counts the lines that went away with rotated files. `stage` says where
*this process* is with each line; a `Stop` (crash or shutdown, which wait for no coroutine) resets
everything in memory and keeps the file and the table. `StartWatching` does the whole backfill
under the handler's lock: position at the end, and of every line whether it is too old, taken for
a duplicate or scheduled. `ObserverStart` is a separate step because lines can be written before
it. `CheckSize` and `ReadFile` are the two halves of `_read_new_lines`, between which Caddy can
write or rotate. `Parse`, `Insert`/`InsertFails` and `Announce` are the coroutine of a line between
its awaits, and since each is an action per line, inserts happen in any order. `Purge` is the
scheduled `DELETE`. What Caddy can write is abstracted to four `Kinds` of line, by what the
backfill's pattern and `parse_line` do with it.

Abstractions: one handler per file; a line is written at once; `ts` never goes back within a file;
the timestamps DuckDB returns are UTC; the file system reports every modification of the watched
file while the observer runs (coalesced into one pending `event`).

### Auth

An action is what one request does between two awaits, or one SQLite transaction executed for it;
`req[r]` is a record of the request's local variables. So `BackupRead` and `BackupWrite` are two
actions (two connections), while `RecordFailure` is one (one `UPDATE` within a transaction). The
variables `misses`, `overrun`, `passes`, `spent`, `opened` are history: they record what happened
and no action reads them. In a request's record, `open` is history too: two-factor login was
unconfirmed at some time since the request began.

One account is modelled, since no state is shared between accounts but the dictionary of partial
tokens, whose keys are random. A password, a TOTP code and a backup code are abstracted to whether
they verify. `Setup` and `ConfirmRead` need an access token that has not expired.

Time passes by `Tick`, whose guard `Prompt` is an assumption about the environment: a request is
handled in milliseconds and a lock lasts minutes, so no request still works on the row it read
when the lock in that row is over and a *later* lock is in force. Without it a request that slept
through a whole lock would be answered under the next one.

### Onboarding

`Gate` is where the routes of `App.tsx` send a tab, from the tab's copy of the user; `Redirect`
takes the step. `SubmitPassword`, `SubmitCode`, `ChangePassword`, `SetUp`, `Scan`, `Verify` and
`Done` are the buttons, each with the request behind it as one step — except the confirmation,
whose code is verified against the secret read before (`Verify`) and whose write comes after
another await (`Confirm`). `Visit`, `Back`, `Logout` and wrong entries are what a user may do
besides, bounded by `MaxMoves`. Access tokens do not expire here; `ApiSession` has that.

### Realtime

Requests announced by the pipeline are numbered. `Accept` takes the replay from the ring and hands
it to the socket; if there was something to send, `Register` is a later step, and what is
announced in between is lost for this connection, as in the code. `Send` applies the filter of the
moment a message leaves the queue. Connections deliver in order: `toClient[c]` is everything sent,
`seen[c]` how much the browser delivered; a lost connection is simply not delivered further.

`RealtimeClient` keeps the socket `ws`, the deferred connect and the reconnect timer apart.
`Unmount` has the early return of `disconnect()`. The two modules share `ready`, `toServer`,
`toClient` and `hostOf`; `Realtime` conjoins each one's actions with `UNCHANGED` for the other and
joins them where the network does (`Opened`, `Refused`, `Deliver`).

The filters of the page that apply to the rows on screen only are in `ConsolePages`. Pings, status
indicators and the growing delay of the timer are left out (a timer may fire at any time).

### SecurityEngine

The evaluation of a row does not await, but the cleanup is a thread: it may run between any two
bytecodes of `_evaluate`. So an evaluation is cut wherever it looks into a dictionary the cleanup
deletes from: `Begin` reads the time and looks up the window of rule 1 (the `defaultdict` creates
it), `CountRequest` appends to the deque it *looked up*, which may be in the dictionary no longer,
`AddPath` and `CountPaths` are the two look-ups of rule 8, `CountPost` is rule 9. A row may have a
login post, a path that was not found, both or neither. The cleanup is cut the same way: the
cutoff, the test of each address, the end of the scan, and for each stale address its three
deletions. Adding an address during the scan makes the comprehension raise `RuntimeError`, which
the scheduler logs: `CleanupFails`. The clock stands during an evaluation: a tick is minutes.

`history` records every row, the time of its evaluation and whether a cleanup ran meanwhile
(`racing`). Rows that raced are not owed to the rules, and they are the ones that leak: what an
evaluation writes after the cleanup deleted its address stays in the dictionaries, and no later
cleanup finds it until the address comes back.

### ApiSession

JavaScript runs one callback at a time, so an action is what happens between two awaits, and a
settled promise resumes everybody who waits for it in one step. The server is reduced to the
sessions it holds live and the access tokens it still accepts. `Reload` is the start of the page
with the token kept in localStorage; `bootstrap`'s own calls go through the slot `Boot`, before
which nothing is rendered. `RefreshLost` is a refresh without an answer or with one that is not ok
(a 502 of the proxy, say): `api.ts:122` takes both for a refusal.

### Queries, HostPage, IpPage, ConsolePages, RequestLog

A row is a record of its columns, `None` is NULL, and a `GROUP BY` is a function from the group to
its figures. Time counts ticks, `Hour` = 2 and `Day` = 4, so that every range and bucket of the code
has its place in a small instance. `build_where` and the live page's `rowMatchesFilters` are both
there, each with its own treatment of NULL, of fragments with a wildcard, of both ends of a range
and of capitals: the page folds what its URL says (`UrlFilters`), the server folds it again
(`UpperCase`).

A query with a `LIMIT` has a *set* of answers. `ORDER BY req_count DESC LIMIT 20` leaves open which
of several groups of equal size come last (`Leading`), and the panels are read off every answer,
each query's on its own, so that two panels need not get the same one. The slices of the browser
(8 lines, 12 bars, 8 event types) are cut the same way. Events are paged by `OFFSET`; several events
of one request have one `ts`, whose order is open too (`EventPages`). Rates are rounded to the digits
of the answer they come in, three of most and four of the overview (`Rounded`), and thresholds are
compared with the rounded rate. Left out: medians and percentiles (only whether there is one).

The three page modules have an operator per panel, from the answers to what it shows: counts,
shares as pairs, levels of colour by their thresholds, and when the panel is not there at all.
Which panels show the same thing is stated next to them (`HostTotalsAgree`, `PillsCount`, ...).

`RequestLog` lets rows and events come in, rows also late, and takes `AggregateMinutely`,
`RunHourly` and `Purge` at any time. Its assumptions: timestamps of requests are distinct (`ORDER BY
ts` says nothing of equal ones; events may share theirs), every row has one, and retention is at
least an hour and the time to aggregate it (`RetentionCoversHours`; the configuration's unit is
days).

### Explorer

Every `useQuery` of the console is a panel name with two sets: the values its key names
(`QueryKey`) and those its request reads (`QueryFn`), both read off the call. An answer is kept
under the key it was asked for, whatever the tab shows by then. `SetFilters`, `FollowLink`,
`GoToPage`, `ChangeMode`, `Stage`, `CloseDrawer` are the ways the URL and the range change. Of six
filters two are kept: country, which some panels leave out, and host for the other five; one panel
is watched at a time, which is enough since a key begins with the panel's name.

### Shell, SettingsPage, IpLists

`Shell`: a day is a number with a month. `Midnight` passes while calendar or palette are open.

`SettingsPage`: `Save` sends every field of a section, `SetSetting` stores one key of them, and
`Answered` may come before the last, for a server that stopped among them. `SomeoneElse` is another
tab. `blind` and `overtaken` record when a draft is older than what it overwrites.

`IpLists`: the database gives ids out again, `DELETE` goes by id, and each tab shows the answer it
had last.

### Console

The parts of the console share nothing but the API. A behaviour starts one of them and stays with
it: `pages` and `stats` (both `RequestLog`, with the pages read off the tables, or the
aggregates), `tab` (`Explorer`), `frame` (`Shell`), `form` (`SettingsPage`), `lists` (`IpLists`).

## 3. Runs

| Run | Bounds | Checks |
| --- | --- | --- |
| `LogIngestSafety` | 3 lines, clock 0..3, 1 stop, 1 rotation, retention 1, ring of 2 | type; a line at most once, none after its purge; the ring; refinement of `LineStore` |
| `LogIngestTail` | 3 lines of all kinds, 1 stop, no rotation; fair | position never passes an unread line; pending modifications are ingested |
| `AuthSafety` | 2 requests, threshold 2, lock of 2, clock 0..3, 2 partial tokens, 1 session, 1 set-up | type; lockout; lock in force; partial tokens; second factor |
| `Onboarding` | 2 browsers, 2 moves besides going on; fair | type; initial password; proved secret; redirects end; no dead end |
| `RealtimeSafety` | 2 connections, 2 hosts, 3 requests, queue 1, replay 2, 2 rows | type; order on the wire; order on the page |
| `RealtimeLive` | 4 connections, 2 mounts, 1 loss, 1 refusal; fair | one connection; callback removed; reconnects |
| `SecuritySafety` | 2 addresses, 2 paths, 3 rows, thresholds 2, 1 and 1, deques of 2, minute 1, hour 2, clock 0..3 | type; rate, login and scan rules; what races leave |
| `ApiSessionCalls` | 3 slots, 4 calls, 1 reload, 1 lost message, 2 expiries; fair | type; single flight; session kept; calls end |
| `Console` | 5 rows, 3 events, clock 0..4, retention 3, page size 2, an answer of 2 events, pages of 1, lists of 2 groups or 1 line, filters as typed; tab: 2 changes, 2 fetches; frame: 5 days in 3 months; form: 2 edits, 1 by someone else; lists: 2 tabs, 2 addresses, a network of both, 4 changes | types; panels agree; aggregates; paging; cache; frame; settings; lists |
| `LogIngestLost`, `AuthBackupRace`, `RealtimeFilter` | as small as the trace needs | one expected violation each, see section 5 |

Why the bounds are enough: two lines suffice to disagree about order and a third to be new after a
restart; one stop and one rotation put a crash or a rotation between any two other steps; a clock
one longer than retention + backfill lets a line be purged and still be tried by a backfill. Two
requests race on every row; a threshold of two makes the attempt that locks distinct from the first,
and a lock of two ticks within a clock of three can run, be extended by a request under way and end.
A queue of one and a replay of two are both overrun by three requests. A minute of 1 and an hour of
2 keep all orders of arrival, expiry and cleanup; three rows reach every threshold and pass it, and
overrun the deques of two; one address has rows of every kind, the other none of a sign. Four
connections are enough for both mounts and both redials, so a dial never lacks a connection. Two
browsers make each other's copy of the user stale at every step, and two moves put a reload and a
lost request, or two detours, anywhere on the way.

In `Console`, the five rows have what the queries treat differently: a status from 600 on, no path,
no country, no duration, a moment at midnight, two hosts, three addresses and three countries. The
limits are below that (`SmallLimits`): every list of addresses or countries, of paths, hosts of an
address, cities, referers, bars and event types stops short in some state and is whole in another.
Two of three events have one `ts` and fall on two pages; countries and methods are typed in small
letters, and one method is not known. With a retention of three and a clock to four the first row is
purged and its minute and hour aggregated before or after. Two changes and two fetches are what it
takes for an answer to come late for another question; five days over three months with midnight in
the middle empty a month of its days; two edits and one other tab make a draft stale in one section
while another is saved; two ids and four changes give an id out again while a tab still shows its
old owner.

`CHECK_DEADLOCK FALSE` is set everywhere because every bound (lines, requests, time) stops the
behaviour when it is used up.

Symmetry is used for hosts, addresses, paths, requests and codes in runs without liveness; none of
them is compared or ordered.

**Fairness.** `LogIngest`: observer start, both halves of a read, and the coroutine of every line
— threads and loop that keep running; not the writer, the clock, stops or starts. `Realtime`:
timers fire, an accepted connection goes on to its registration, a dead one is noticed (the
receiver's `receive_text` raises), and a handshake ends; nobody has to mount, announce or lose
anything. `Send`, `Receive` and `Deliver` need none. `ApiSession`: every request under way is
answered or fails; users do nothing they need not do. `Onboarding`: `Forward(b)` of each browser —
rendering and requests go on, and the user goes on with the form on the screen; no detour is
obliged to happen, and none is forbidden. Everywhere weak fairness is enough.

### The properties

`LogIngest`
- **AtMostOnce** — a line has at most one row, and none after its purge: a backfill brings no purged
  row back, since it reads `min(30, retention)` days.
- **RingHoldsStoredOnce** — the replay ring holds stored requests only, each once.
- **NoLineBehindPosition** — the position never passes over an unread line. Not true with rotation:
  a new file that has outgrown the old position is read from there (hazard list).
- **ChangeIsIngested** (liveness) — a pending modification brings every line behind the position to
  its end in the pipeline.
- **ImplementsLineStore** (refinement) — with `Life` as the mapping.

`Auth`
- **LockoutCounts** — failures are not lost among concurrent requests; at the threshold a lock is set.
- **LockStopsAttempts** — while locked, fewer wrong passwords than concurrent requests are still
  answered: those that read the row before.
- **PartialAcceptedOnce**, **SecondFactorRequired**.

`Onboarding`
- **ConsoleAfterPassword** — in a browser that knows its user, the console shows to nobody who still
  has the initial password. One that could not load the user is let through (section 5).
- **ConfirmedSecretProved** — two-factor login is on only with a secret whose code was verified,
  unless a set-up ran in the middle of a confirmation (then the code confirms a secret nobody proved).
- **Settles** (liveness) — the four gates never send a browser round.
- **NoDeadEnd** (liveness) — who goes on reaches the console, unless another browser's set-up or a
  lost request has overtaken the page.

`Realtime`
- **WireInOrder** — across replay and queue, no request twice or out of order on a connection.
- **RowsNewestFirst** — the same for the rows on the page, across reconnects and filters.
- **OneConnection** — a mounted page has exactly one socket, timer or deferred connect; an unmounted
  none.
- **CallbackRemoved**, **Reconnects** (liveness).

`SecurityEngine`
- **RateRuleExact**, **LoginRuleExact** — an event is raised only if enough rows arrived in the
  window, and always if enough arrived while no cleanup ran. A rate threshold above the deque's
  length, which the configuration allows, never raises one (section 5).
- **ScanRuleMissesNone** — the second half for the paths not found. The first half does not hold
  (finding on rule 8).
- **OnlyRacesLeak** — what is kept of an address no later cleanup looks at is what one row wrote, the
  last of that address, while a cleanup ran. That it happens at all is a finding.

`ApiSession`
- **SingleFlight** — one refresh at a time.
- **SessionKept** (action) — a live session is dropped only by logout, at start, by a failing network
  or server or by the late answer for an earlier session.
- **CallsEnd** (liveness) — no call waits or retries for ever.

`Console`
- **PagesAgree** — at any moment, under every range and filter, panels that speak of the same
  requests agree, though one asks the server for a sum, another groups, and a third counts in the
  browser; rates up to the digits of their answers, lists up to their `LIMIT`: such a list counts no
  more than the tile beside it, and all of it just when the groups fit. Where panels do not agree, the
  disagreement is a finding and the property states what holds.
  `ListsAreComplete` is the part of it about lists and their pages.
- **RowsMoveBackOnly** (action) — paging through the log while requests arrive, late ones too,
  repeats some and skips none.
- **AggregatesCountOnce** — a statistics row counts each request of its minute or hour that came in
  time and none twice, whatever the jobs' schedule and whatever was purged.
- **SettledShowsUrl** — a panel at rest shows the answer to what URL, range and page ask for.
- **ShellKeepsSelection** — palette, calendar and range stay within what they offer, past midnight.
- **UntouchedKept** (action) — saving a section leaves the fields nobody edited, unless the draft is
  older than the table or was begun blind.
- **UnblockIsLocal** (action) — when a button on the page of an address changes anything for another,
  then the entry the page shows has gone and its id was given out again.

## 4. Proofs

`tlapm` checks every theorem below to the last leaf. They hold for all values of the constants that
satisfy the modules' assumptions, which TLC evaluates for the instances. Every invariant and every
action property of section 3 that a run expects to hold is a theorem; the liveness properties are
not. Where a property is not inductive, the invariant that carries it is
named here.

### LogIngestProofs

`TypeCorrect`, then `StoredAtMostOnce` and `IngestImplementsLineStore`.
`AtMostOnce` is not inductive: a scheduled line whose row is already stored would be stored again.
`IInv` calls a line *claimed* when this process or the table has had to do with it, and says: a line
whose row may still come has none and never had one; a purged line is behind the retention's
cutoff; every claimed line of the current file lies at or before the position, and then the
position is inside the file (`PositionSeparates`) — so a read schedules unclaimed lines only, and a
file shorter than the position is a new one; lines not written yet are unclaimed; without a handler
nothing is in flight. At a restart the two comparisons of the backfill do the rest: `ts <= last_ts`
for the stored lines, the cutoff for the purged ones. Assumption: `SamePath`, the configured path is
the absolute one rows are stored under. Without it the theorem is false (finding on `main.py:88`).

`RingShowsStored` (same assumption) adds `RingInv`: a line past its insert was stored or purged
(`StoredBehindInsert`), what is in the ring has been announced (`RingIsAnnounced`), no line is in
it twice, and it is empty without a process. `PositionPassesNone` assumes that the log is not
rotated (`MaxRotations = 0`, as in `LogIngestTail`; false otherwise) and that retention and
backfill are not zero.

### AuthProofs

`FailuresAreCounted` from a small invariant (`LockTime > 0` makes every lock non-NULL);
`PartialTokensSpentOnce` from: a token is in the dictionary, or was accepted at most once, and never
was both; `FactorIsRequired` from: the record of every request in flight is honest (`Honest`) —
`open` is set if the factor is unconfirmed now, if the request read an unconfirmed row, and if it
skips the factor. `LockHolds` counts: the wrong passwords answered since the lock plus the requests
that may still be answered (`Threats`, those that read the row before) stay below the number of
requests; the one that locked is never among them. It rests on `Prompt`. `AuthTyped` needs to know
what a request's record carries at each of its steps, which is where the type comes from when the
step writes it to a table.

### OnboardingProofs

`SecretIsProved` from `VerifiedIsProved`: as long as no set-up has run in between, a confirmation
about to be written has proved the stored secret. `InitialPasswordStaysOut` from `UsersLagBehind`:
the flag is cleared and never set again, so a stale copy can only ask for more. It is about browsers
that know their user; without one `RequireAuth` lets everybody through. `OnboardingTyped`
from `Secrets`: secrets are numbered in the order they are made, and no page, authenticator or
confirmation knows one before; a confirmation under way implies that there is one. Any number of
browsers.

### RealtimeProofs

`WireDeliversInOrder`: everything in the queue is newer than everything sent, the queue is
increasing, and while the replay is on its way the queue is empty. `OneSocketAtATime` from
`DialInv`: of socket, timer and deferred connect a mounted page has one and an unmounted one none
(`OneOfThree`), every unclosed connection is the client's (`Sockets`), and connections never run out
(`Budget`; assumption `EnoughConnections`).

`RowsStayInOrder` is about the two ends together. The page's rows being newest first says nothing of
the message that comes next; `RowsInv` adds that the rows are requests already announced
(`RowsAnnounced`), that a live message carries one request (`SentShape`), and, for the socket the
page holds, that the requests queued for it or still to be delivered as live messages are newer than
every row (`OlderThanComing`). A replay need not be newer, since it replaces the rows; that what
follows it is newer is `WireDeliversInOrder`. `RealtimeTyped` rests on what a connection can carry
(`Talk`) and on the counts of mounts, losses and refusals.

### SecurityEngineProofs

`RateRuleHolds`, `LoginRuleHolds`, `ScanRuleHolds` and `LeaksAreRows`. The rules compare the length
of a window with a threshold, and the properties compare the number of rows in the *history* with it,
so the invariant says that a window is part of the history: `WindowsTrack` — an increasing map takes
the entries of a window to rows of that address with those times, and it misses no row of the last
minute or hour but those that raced a cleanup, or those older than a full window. A row under
evaluation has reached some windows and not yet others (`ArrivedOf`, `LoginsOf`, `MissingOf`), and
the deque it looked up is tracked on its own (`EvaluationShape`). `HistoryInOrder` and
`LastRowIsLast` (the entry the cleanup looks at is the last row that reached the window) turn a test
of one entry into a statement about all rows. The cleanup tests an address in one step and drops its
windows in three others: `CleanupShape` says where the thread stands, `StaleIsOld` that an address it
is about to drop has had no row since the cutoff but those that raced it, `EmptyIsOld` the same of
one without a window, `PathsKept` that the paths of the last hour's other rows are remembered.
`LeaksAreRaced` carries `OnlyRacesLeak`: of an address without a window, what is left was written
after the cleanup had passed that dictionary, by the last of its rows. Assumptions: `WindowsNest` (a
minute is no longer than an hour), `CapsSuffice` (the deque of the posts is longer than rule 9 counts
to, both constants of the code); the rate threshold is any number, as in the configuration
(`ThresholdIsAny`).

### ApiSessionProofs

`RefreshIsShared`: there is no request and no promise, or one request and the promise stands for it
(`OneFlight`); a new one is numbered from 1, so that the promise is not mistaken for none.
`LiveSessionIsKept`: a refused refresh asked about a session that is not live (`RefusalIsHonest`),
and nothing else is under way during a login (`LoginAlone`). `SessionTyped` bounds the retries: a
call that waits for the refresh has not been sent twice, and every token in the browser, in a call
or in an answer is one the server has given out (`GivenOut`).

### RequestLogProofs

`PagesSkipNone` from `LogInv`: what left the table is older than everything that stays, so it was
behind every request whose place is compared. `AggregatesAreRight` from `StatsInv`: a key is written
only when its bucket is over (`BucketsAreOver`), after which only late rows can join it, and a
bucket that is computed again either still has all its rows or is past recomputing. Assumptions:
`RowsHaveTimes`, `RetentionCoversHours` — with a retention shorter than an hour and its job the
purge comes first and the theorem is false. `TablesTyped`: aggregates exist only for buckets and
hosts that had a request.

`ListsAreShownWhole` is the part of `PanelsAgree` about lists. A page holds the rows whose place in
the order by `ts` lies between two numbers; the place of a row is one more than the number of rows
before it. `PlaceInList`, `PlaceIsTaken` and `PlacesBetween` show that this is a bijection from the
rows found to `1 .. n`, whence the pages are disjoint, none but the last is short, and together they
are the list (`PagesApart`, `PagesAreList`). Of events that share a `ts` the place is not
determined. A page of them is the first so many without the first so many fewer, for some choice of
each (`LeadingSize`), and an event with a `ts` of its own is among the first `n` in every choice
just when its place is (`LedByPlace`); so the security page's pager, which steps by less than its
answers hold (`PagerReachesAll`), reaches each of these whatever the answers (`EventOnItsPage`). The
tab of an address takes its events out of the newest of all, hiding none when all fit in an answer
(`TabHidesNone`). `UrlFiltersAreFilters` says what folding to capitals makes of anything typed;
`LiveFiltersAsStored` compares the browser's filters with the SQL's, column by column with NULL.
What it needs of the state is that tables hold rows and events (`LogInv`, `TablesTyped`) and none of
the future (`RowsHaveComeInv`). Assumptions, beside the sizes of pages and answers:
`PathsContainThemselves`, `SeveritiesAreValues`, `CodesAreCapital` (the country codes stored are
capitals), `CapitalsStay` (folding twice is folding once, and leaves the known methods alone).

`PanelsAlwaysAgree` is all of it, and needs no more of the state; what is hard is the counting. Most
panels add up what a query grouped: by host, path, country, class, hour, day or type. Sums of
functions would need induction over the groups, so `SumOf` is the number of pairs of a group and a
number up to its count, and `SumOfGroups` gives a bijection from the rows to these pairs: whatever
the key, counted by groups everything is counted once. Over it:

- *Groups.* `GroupTotals`, `SeriesTotal`, `HoursCount`, `HeatmapCounts`, `ProtocolsCount`: tables,
  series, hours and heatmap count the requests of the page; a cell that is drawn but not in the
  answer adds nothing (`SumOfOccurring`).
- *Limits.* A list cut off is a part of the sum, and as much only when nothing is cut off, since every
  group has a request (`SumOfFewer`, `TopSum`, `TopListed`): so the heading over the hosts of an
  address, the shares of visitors and the bars of a chart count no more than the tile beside them, and
  as much just when the groups fit.
- *Classes.* The parser's class of a status and the bounds in the SQL name the same rows
  (`ClassOfStatus`, `ByClassCounts`), but that most queries put a status from 600 on among 5xx,
  which the classes leave out (`BeyondClasses`): so the errors are the last two classes
  (`ErrorsByClass`), the browser's metrics miss those beyond (`LiveMetricsAsStored`), and a filter
  by class finds what the button (`ButtonsCount`) or the pill (`Pills`) says, as the property has it.
- *Orders.* The list under a button has as many places as paths, so a list without repetition has
  them all (`ButtonsList`); of countries compared by rate there is a worst (`BestExists`, from
  `LeastExists` and `GreatestExists`): when the worst listed is fine, all listed are
  (`WorstExists`).
- *Rates.* A rounded rate is half a unit from the exact one at most (`RoundedIs`); what is more than a
  twentieth in thousandths is so in finer units too (`OverStays`), not the other way: a card may be
  plain next to a tile that warns, never the reverse (`LevelOfErrors`).

The theorem is put together of one lemma for each panel property of `HostPage`, `IpPage` and
`ConsolePages`. Assumptions: `RowsHaveColumns` (the columns host and address are NOT NULL, a status
has three digits), `NullIsNoValue` and `ListsHaveLimits` (no limit is zero). Levels and colours are
`IF` chains, as in the source: guards of a `CASE` that overlap leave the choice open, of which TLC
always takes the first, and nothing can be proved of it.

### ConsoleProofs

`PartsKeepTheirSpecs`: the composition implements `Spec`, `TabSpec`, `FrameSpec`, `FormSpec` and
`ListsSpec`, so that what is proved of one part holds in the behaviours the run checks.

- `SettledPanelsShowUrl` from `AnswersInv`: what is asked and kept under a key is determined by the
  key (`KeyNamesAll`: every value a request reads is named by its key).
- `UnblockTouchesOne` from `ListsInv`: ids are distinct within a table (`RowsApart`, which needs the
  largest id plus one) and what the page of an address asks to remove is that address alone
  (`Removals`), so that another address can only be touched under an id that was given out again.
  Assumption `NetworksHold`.
- `SelectionHolds` from `FrameInv`: the month in view has a day that has come (`CalendarKept`), and
  the day chosen was one (`DayHasCome`); midnight adds days at the end, so neither is lost.
  Assumptions: `CalendarRuns` (months follow their days), `NothingTyped` (an empty query is one the
  palette answers).
- `UntouchedFieldsKept` from `FormInv`: for a field the user has not edited, a draft that is neither
  blind nor overtaken holds the value in the table (`DraftsFresh`), and so do the request being
  stored key by key (`PatchFresh`) and the answer on its way (`AnswerFresh`). Assumption
  `SectionsApart`: no key belongs to two sections.
- `PagesAlwaysAgree` from `PanelsAlwaysAgree`: the panels agree whatever the other parts do.
- `ConsoleTyped`: the types of all parts.

**Only model-checked.** The liveness properties (`ChangeIsIngested`, `CallbackRemoved`,
`Reconnects`, `CallsEnd`, `Settles`, `NoDeadEnd`): fairness and `ENABLED` are beyond the prover.

## 5. Where code and documents disagree

Shown by a run:

- `LogIngestLost` — `log_watcher.py:105`: a line older than the newest stored one counts as a
  duplicate although a crash kept it from being stored;
- `AuthBackupRace` — `sqlite_manager.py:211`: a single-use backup code used twice;
- `RealtimeFilter` — `RealTime.tsx:348`: "host already filtered by WS server" — not after a
  reconnect, nor for a filter in the URL.

Seen by reading, with the quotation in `PROJECT.json`:

- `log_watcher.py:152` a missing file "will retry when it appears", and does not;
- `main.py:88` asks for the path as configured where rows have the absolute one;
- `security_engine.py:122`, `:154` rule 1's ">300" and rule 8's "per hour"; `:122` a rate limit above
  the deque's 1000 entries never triggers; `:199` a cleanup during an evaluation leaves paths and
  posts no later cleanup finds;
- `alerts/engine.py:62` the arguments of `query_overview`: no threshold rule can trigger;
- `config.py:50` 30 days of retention where the README has 90; `duckdb_manager.py:1061` aggregates
  that no query reads; `duckdb_manager.py:231` midnight belongs to two days;
- `api.ts:123` a late refused refresh throws the next session away; `api.ts:150` a wrong password
  may be sent twice and counted twice;
- `App.tsx:49` lets a session whose user could not be loaded past every step;
- `App.tsx:32` lets a confirmed user into the set-up, which takes the confirmation away;
- `Settings.tsx:497` settings no code reads; `Security.tsx:322` a whitelist the engine ignores;
- `sqlite_manager.py:94` ids given out again, and entries removed by id;
- `IPDetail.tsx:425` the events of an address, filtered from the newest hundred of all;
- `IPDetail.tsx:628`, `HostDetail.tsx:487` a number of hosts and a list of all cities that stop at
  the `LIMIT` of their queries;
- `FilterBar.tsx:368` proposes a network where an address is compared;
- `Layout.tsx:27` shortcuts nobody listens to; `Security.tsx:51` a pager by 50 for answers of 100;
- `Dashboard.tsx:213`, `HostDetail.tsx:919`, `:549` shares of the wrong total.

## 6. Not modelled

- **Alerts**: page, rules, engine, notifiers. Every threshold rule raises before it can trigger
  (section 5), so that a model of the cooldown would describe a program that does not run.
- **Enrichment, discovery, configuration**: functions of a line, or of what the machine answers
  once at start; their results are the constants of the modules.
- **The live metrics window and its broadcast**, pings, the list of live requests by HTTP.
- **The parser's conversion** of fields, apart from whether it yields a row and its status class.
- **The audit log, inactive and unknown users, limits by address** of the authentication API.
- **Charts, badges, tooltips, formatting, exports, the map; scripts and the log generator**:
  presentation, or outside the running system.

What would come next: the live metrics window against the thread that reads it; discovery as an
operator over what each source answers; the account of an inactive user.
