----------------------------- MODULE LogIngest -----------------------------
(***************************************************************************)
(* One Caddy access log from the file on disk to the requests table: the   *)
(* tailing handler (core/log_watcher.py), the ingestion coroutine of each  *)
(* line (core/ingestion.py), the start and stop of the service (main.py)   *)
(* and the retention purge (db/duckdb_manager.py).                         *)
(*                                                                         *)
(* A line is a number: the n-th line ever written to the log.  The current *)
(* file holds the lines base+1 .. written, every line one unit long, so    *)
(* the file is Size units long and the handler's byte offset _pos is a     *)
(* number of lines.  Rotation starts a new file behind the written lines.  *)
(***************************************************************************)
EXTENDS Integers, Sequences

CONSTANTS
  MaxLines,      \* bound: lines written over a behaviour
  MaxTime,       \* bound: last value of the clock
  MaxStops,      \* bound: crashes and shutdowns
  MaxRotations,  \* bound: log rotations
  Kinds,         \* what Caddy writes into the log
  Retention,     \* database.retention_days
  MaxBackfill,   \* the 30 of min(30, retention_days)
  BackfillOn,    \* logs.initial_backfill_hours > 0
  SamePath,      \* the configured path is the absolute path rows are stored under
  RingSize       \* maxlen of the replay ring

ASSUME BoundsAreNaturals ==
  /\ MaxLines \in Nat /\ MaxTime \in Nat /\ MaxStops \in Nat /\ MaxRotations \in Nat
ASSUME DaysAreNaturals == Retention \in Nat /\ MaxBackfill \in Nat
ASSUME SwitchesAreBoolean == BackfillOn \in BOOLEAN /\ SamePath \in BOOLEAN
ASSUME RingHasRoom == RingSize \in Nat /\ RingSize > 0

\* "access":  an access log line with a numeric ts;
\* "untimed": an access log line whose ts the backfill's pattern does not match;
\* "other":   a line with a ts that is no access log line (parse_line returns None);
\* "broken":  a line parse_line raises on.
ASSUME KindsAreKnown == Kinds \subseteq {"access", "untimed", "other", "broken"}

VARIABLES
  now,        \* the wall clock, in the unit ts and the retention are counted in
  written,    \* number of lines written so far
  base,       \* lines that went into files rotated away
  exists,     \* the log file exists under its name
  kind, ts,   \* of every written line
  rotations,  \* rotations so far
  stops,      \* stops so far
  proc,       \* "down", "starting" (handler made, observer not started) or "up"
  watched,    \* a handler for the file is scheduled with the observer
  pos,        \* LogFileHandler._pos
  event,      \* a modification the observer has not handled yet
  reading,    \* the observer thread is between getsize and the read
  stage,      \* where this process is with each line
  rows,       \* rows of the requests table that came from each line
  purged,     \* lines whose row the purge deleted
  ring        \* _ring_buffer

file == <<written, base, exists, kind, ts, rotations>>
watcher == <<watched, pos, event, reading>>
store == <<rows, purged>>
vars == <<now, file, stops, proc, watcher, stage, store, ring>>

Lines == 1 .. MaxLines
Stages == {"unread", "old", "dup", "notime", "scheduled", "parsed",
           "rejected", "failed", "inserted", "announced"}
InFile == {l \in Lines : base < l /\ l <= written}
Size == written - base
Stored == {l \in Lines : rows[l] > 0}
Settled == {"rejected", "failed", "announced"}

TypeOK ==
  /\ now \in 0 .. MaxTime
  /\ written \in 0 .. MaxLines /\ base \in 0 .. written /\ exists \in BOOLEAN
  /\ kind \in [Lines -> Kinds \cup {"none"}] /\ ts \in [Lines -> 0 .. MaxTime]
  /\ rotations \in 0 .. MaxRotations /\ stops \in 0 .. MaxStops
  /\ proc \in {"down", "starting", "up"} /\ watched \in BOOLEAN
  /\ pos \in 0 .. MaxLines /\ event \in BOOLEAN /\ reading \in BOOLEAN
  /\ stage \in [Lines -> Stages]
  /\ rows \in [Lines -> Nat] /\ purged \in SUBSET Lines
  /\ ring \in Seq(Lines) /\ Len(ring) <= RingSize

-----------------------------------------------------------------------------
(* Caddy, the clock, and the service manager.                              *)

Init ==
  /\ now = 0 /\ written = 0 /\ base = 0 /\ exists \in BOOLEAN
  /\ kind = [l \in Lines |-> "none"] /\ ts = [l \in Lines |-> 0]
  /\ rotations = 0 /\ stops = 0 /\ proc = "down"
  /\ watched = FALSE /\ pos = 0 /\ event = FALSE /\ reading = FALSE
  /\ stage = [l \in Lines |-> "unread"]
  /\ rows = [l \in Lines |-> 0] /\ purged = {} /\ ring = <<>>

Tick ==
  /\ now < MaxTime
  /\ now' = now + 1
  /\ UNCHANGED <<file, stops, proc, watcher, stage, store, ring>>

\* Caddy writes a line.  inotify reports it only to a started observer with a handler.
WriteLine ==
  /\ written < MaxLines
  /\ written' = written + 1
  /\ ts' = [ts EXCEPT ![written + 1] = now]
  /\ \E k \in Kinds : kind' = [kind EXCEPT ![written + 1] = k]
  /\ exists' = TRUE
  /\ event' = (event \/ (proc = "up" /\ watched))
  /\ UNCHANGED <<now, base, rotations, stops, proc, watched, pos, reading,
                 stage, store, ring>>

\* The log is renamed away; the next line creates a new file.  A rename is no
\* modification of the watched path.
Rotate ==
  /\ rotations < MaxRotations
  /\ exists
  /\ rotations' = rotations + 1
  /\ base' = written
  /\ exists' = FALSE
  /\ UNCHANGED <<now, written, kind, ts, stops, proc, watcher, stage, store, ring>>

\* lifespan's shutdown or a crash: everything in memory is lost, coroutines in
\* flight included; stop_watching and stop_scheduler wait for none of them.
Stop ==
  /\ stops < MaxStops
  /\ proc # "down"
  /\ stops' = stops + 1
  /\ proc' = "down"
  /\ watched' = FALSE /\ pos' = 0 /\ event' = FALSE /\ reading' = FALSE
  /\ stage' = [l \in Lines |-> "unread"]
  /\ ring' = <<>>
  /\ UNCHANGED <<now, file, store>>

-----------------------------------------------------------------------------
(* Startup: start_watching with its backfill.                              *)

\* Mutant: the cap by retention_days is forgotten.
BackfillDays_Uncapped == IF BackfillOn THEN MaxBackfill ELSE 0

\* min(30, retention_days), or no backfill at all.
BackfillDays ==
  IF ~BackfillOn THEN 0 ELSE IF MaxBackfill < Retention THEN MaxBackfill ELSE Retention

\* Mutant: the newest stored line itself passes the comparison.
AtOrBeforeLast_Strict(l) == SamePath /\ \E m \in Stored : ts[l] < ts[m]

\* ts <= last_ts, where last_ts is the newest ts among the rows stored under the path
\* as configured; the rows themselves carry the handler's absolute path.
AtOrBeforeLast(l) == SamePath /\ \E m \in Stored : ts[l] <= ts[m]

BackfillStage(l) ==
  IF kind[l] = "untimed" THEN "notime"
  ELSE IF ts[l] < now - BackfillDays THEN "old"
  ELSE IF AtOrBeforeLast(l) THEN "dup" ELSE "scheduled"

\* start_watching for a file that exists: a handler at the end of the file, and a
\* backfill of the whole file unless it is switched off.
StartWatching ==
  /\ proc = "down"
  /\ exists
  /\ proc' = "starting"
  /\ watched' = TRUE
  /\ pos' = Size
  /\ stage' = IF BackfillDays = 0
              THEN stage
              ELSE [l \in Lines |-> IF l \in InFile THEN BackfillStage(l) ELSE stage[l]]
  /\ UNCHANGED <<now, file, stops, event, reading, store, ring>>

\* start_watching for a file that does not exist: no handler, the file is skipped.
StartBlind ==
  /\ proc = "down"
  /\ ~exists
  /\ proc' = "starting"
  /\ UNCHANGED <<now, file, stops, watcher, stage, store, ring>>

\* Mutant: the observer's start moves the handler to the end of the file.
ObserverStart_SeeksEnd ==
  /\ proc = "starting"
  /\ proc' = "up"
  /\ pos' = IF watched THEN Size ELSE pos
  /\ UNCHANGED <<now, file, stops, watched, event, reading, stage, store, ring>>

\* _observer.start(), the last thing start_watching does.
ObserverStart ==
  /\ proc = "starting"
  /\ proc' = "up"
  /\ UNCHANGED <<now, file, stops, watcher, stage, store, ring>>

-----------------------------------------------------------------------------
(* The observer thread: on_modified and _read_new_lines, under the lock.   *)

\* Mutant: a file that has not grown counts as rotated.
CheckSize_ResetsUnchanged ==
  /\ proc = "up" /\ watched /\ event /\ ~reading
  /\ event' = FALSE
  /\ reading' = exists
  /\ pos' = IF exists /\ Size <= pos THEN 0 ELSE pos
  /\ UNCHANGED <<now, file, stops, proc, watched, stage, store, ring>>

\* getsize and the comparison with _pos.  On a missing file getsize raises and the
\* handler returns.
CheckSize ==
  /\ proc = "up" /\ watched /\ event /\ ~reading
  /\ event' = FALSE
  /\ reading' = exists
  /\ pos' = IF exists /\ Size < pos THEN 0 ELSE pos
  /\ UNCHANGED <<now, file, stops, proc, watched, stage, store, ring>>

\* Mutant: one line is read for each modification.
ReadFile_OneLine ==
  /\ proc = "up" /\ reading
  /\ reading' = FALSE
  /\ pos' = IF exists /\ pos < Size THEN pos + 1 ELSE pos
  /\ stage' = [l \in Lines |->
                 IF exists /\ l \in InFile /\ l = base + pos + 1 THEN "scheduled" ELSE stage[l]]
  /\ UNCHANGED <<now, file, stops, proc, watched, event, store, ring>>

\* open, seek, read to the end, and one coroutine per line.  The file may have been
\* rotated since getsize: open raises when it is gone, and a read behind the end of a
\* shorter file returns nothing and leaves the position where the seek put it.
ReadFile ==
  /\ proc = "up" /\ reading
  /\ reading' = FALSE
  /\ pos' = IF exists /\ pos < Size THEN Size ELSE pos
  /\ stage' = [l \in Lines |->
                 IF exists /\ l \in InFile /\ base + pos < l THEN "scheduled" ELSE stage[l]]
  /\ UNCHANGED <<now, file, stops, proc, watched, event, store, ring>>

-----------------------------------------------------------------------------
(* The coroutine of a line: ingest_line_async.                             *)

\* process_line on an executor thread.
Parse(l) ==
  /\ proc = "up"
  /\ stage[l] = "scheduled"
  /\ stage' = [stage EXCEPT ![l] =
                 IF kind[l] \in {"access", "untimed"} THEN "parsed" ELSE "rejected"]
  /\ UNCHANGED <<now, file, stops, proc, watcher, store, ring>>

\* insert_request on an executor thread: it stores the row ...
Insert(l) ==
  /\ proc = "up"
  /\ stage[l] = "parsed"
  /\ rows' = [rows EXCEPT ![l] = @ + 1]
  /\ stage' = [stage EXCEPT ![l] = "inserted"]
  /\ UNCHANGED <<now, file, stops, proc, watcher, purged, ring>>

\* Mutant: the return after the logged failure is missing.
InsertFails_GoesOn(l) ==
  /\ proc = "up"
  /\ stage[l] = "parsed"
  /\ stage' = [stage EXCEPT ![l] = "inserted"]
  /\ UNCHANGED <<now, file, stops, proc, watcher, store, ring>>

\* ... or raises, and the coroutine logs and returns.
InsertFails(l) ==
  /\ proc = "up"
  /\ stage[l] = "parsed"
  /\ stage' = [stage EXCEPT ![l] = "failed"]
  /\ UNCHANGED <<now, file, stops, proc, watcher, store, ring>>

\* Mutant: the ring is a list.
Push_Unbounded(r, l) == Append(r, l)

\* deque(maxlen): an append to a full ring drops the oldest entry.
Push(r, l) == Append(IF Len(r) < RingSize THEN r ELSE Tail(r), l)

\* Back on the event loop, without an await in between: ring, live counters, broadcast.
Announce(l) ==
  /\ proc = "up"
  /\ stage[l] = "inserted"
  /\ ring' = Push(ring, l)
  /\ stage' = [stage EXCEPT ![l] = "announced"]
  /\ UNCHANGED <<now, file, stops, proc, watcher, store>>

\* _run_cleanup: DELETE FROM requests WHERE ts < now - retention_days.
Expired == {l \in Stored : ts[l] < now - Retention}
Purge ==
  /\ proc = "up"
  /\ Expired # {}
  /\ rows' = [l \in Lines |-> IF l \in Expired THEN 0 ELSE rows[l]]
  /\ purged' = purged \cup Expired
  /\ UNCHANGED <<now, file, stops, proc, watcher, stage, ring>>

-----------------------------------------------------------------------------
Next ==
  \/ Tick \/ WriteLine \/ Rotate \/ Stop
  \/ StartWatching \/ StartBlind \/ ObserverStart
  \/ CheckSize \/ ReadFile
  \/ \E l \in Lines : Parse(l) \/ Insert(l) \/ InsertFails(l) \/ Announce(l)
  \/ Purge

Spec == Init /\ [][Next]_vars

\* The event loop, its executor and the observer thread keep running; nobody is obliged
\* to write a line, rotate, stop or start.
Fairness ==
  /\ WF_vars(ObserverStart) /\ WF_vars(CheckSize) /\ WF_vars(ReadFile)
  /\ \A l \in Lines :
       WF_vars(Parse(l)) /\ WF_vars(Insert(l) \/ InsertFails(l)) /\ WF_vars(Announce(l))

FairSpec == Spec /\ Fairness

-----------------------------------------------------------------------------
(* What the ingestion promises.                                            *)

\* No line of the log is ever counted twice: whatever is rotated, crashed, backfilled
\* and purged in between, a line has at most one row, and none once its row was purged.
AtMostOnce ==
  \A l \in Lines : rows[l] <= 1 /\ (l \in purged => rows[l] = 0)

\* The replay ring shows only requests that were stored, and each of them once: the
\* failing insert leaves no trace in it.
RingHoldsStoredOnce ==
  /\ \A i \in DOMAIN ring : rows[ring[i]] = 1 \/ ring[i] \in purged
  /\ \A i, j \in DOMAIN ring : i # j => ring[i] # ring[j]

\* The handler's position never passes over a line of the file without the line being
\* read, also for lines written between the backfill and the observer's start.
\* (Without a backfill the lines older than the start are not wanted.)
NoLineBehindPosition ==
  BackfillOn /\ watched /\ pos <= Size =>
    \A l \in InFile : stage[l] = "unread" => base + pos < l

\* Once a modification is pending, every line the file holds behind the position is
\* eventually read and comes to an end in the pipeline, unless it is rotated away or
\* the process stops first.
ChangeIsIngested ==
  \A l \in Lines :
    (proc = "up" /\ watched /\ event /\ l \in InFile /\ base + pos < l)
      ~> (stage[l] \in Settled \/ l \notin InFile \/ proc = "down")

\* "last_ts: newest ts already stored for this source - skip anything at or before it"
\* and the counter skipped_dup: an access line the backfill skips as a duplicate, older
\* than the newest stored line, has been stored itself.
DupWasStored ==
  \A l \in Lines :
    stage[l] = "dup" /\ kind[l] = "access" /\ (\E m \in Stored : ts[l] < ts[m])
      => rows[l] > 0 \/ l \in purged

\* The life of each line as the abstract specification sees it.
Life == [l \in Lines |->
  CASE l \in purged /\ rows[l] = 0    -> "purged"
    [] l \notin purged /\ rows[l] = 0 -> "absent"
    [] l \notin purged /\ rows[l] = 1 -> "stored"
    [] OTHER                          -> "duplicated"]

Abstract == INSTANCE LineStore WITH Lines <- Lines, life <- Life

\* The watcher, the pipeline and the purge together implement the abstract store: each
\* line is absent, stored at most once, then purged for good.
ImplementsLineStore == Abstract!Spec
=============================================================================
