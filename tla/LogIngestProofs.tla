-------------------------- MODULE LogIngestProofs --------------------------
(***************************************************************************)
(* That LogIngest stores no line of the log twice, for every number of     *)
(* lines, stops and rotations, every retention and every backfill setting. *)
(***************************************************************************)
EXTENDS LogIngest, TLAPS

\* The process or the table has had to do with line l.
Claimed(l) == stage[l] # "unread" \/ rows[l] > 0 \/ l \in purged

\* The row of line l may still come.
Pending(l) == stage[l] \in {"scheduled", "parsed"}

\* Lines that are not written yet are nobody's.
FutureUnclaimed == \A l \in Lines : written < l => ~Claimed(l)

\* A line whose row may still come has none yet and never had one.
PendingIsNew == \A l \in Lines : Pending(l) => rows[l] = 0 /\ l \notin purged

\* Purged lines are behind the cutoff, which only moves forward.
PurgedIsOld == \A l \in purged : rows[l] = 0 /\ ts[l] < now - Retention

AtMostOneRow == \A l \in Lines : rows[l] <= 1

\* The handler's position separates the claimed lines of the file from the others, and
\* once a line of this file is claimed the position is inside the file, so that a file
\* shorter than the position is a new one.
PositionSeparates ==
  watched => \A l \in InFile : Claimed(l) => l <= base + pos /\ pos <= Size

\* Without a handler nothing is in flight.
IdleWithoutHandler ==
  /\ ~watched => stage = [l \in Lines |-> "unread"]
  /\ reading => watched
  /\ proc = "down" => ~watched

IInv ==
  /\ TypeOK
  /\ FutureUnclaimed
  /\ PendingIsNew
  /\ PurgedIsOld
  /\ AtMostOneRow
  /\ PositionSeparates
  /\ IdleWithoutHandler

-----------------------------------------------------------------------------

USE BoundsAreNaturals, DaysAreNaturals, SwitchesAreBoolean, RingHasRoom

\* A push keeps the ring a bounded sequence of lines.
LEMMA PushType ==
  ASSUME NEW r \in Seq(Lines), Len(r) <= RingSize, NEW l \in Lines
  PROVE  Push(r, l) \in Seq(Lines) /\ Len(Push(r, l)) <= RingSize
<1>1. CASE Len(r) < RingSize
  BY <1>1 DEF Push
<1>2. CASE ~(Len(r) < RingSize)
  <2>1. r # <<>>
    BY <1>2
  <2>2. Tail(r) \in Seq(Lines) /\ Len(Tail(r)) = Len(r) - 1
    BY <2>1
  <2>. QED  BY <1>2, <2>2 DEF Push
<1>. QED  BY <1>1, <1>2

LEMMA BackfillStageType ==
  ASSUME NEW l \in Lines PROVE BackfillStage(l) \in Stages
BY DEF BackfillStage, Stages

\* Type correctness is preserved by every step.
LEMMA TypeStep == TypeOK /\ [Next]_vars => TypeOK'
<1>. SUFFICES ASSUME TypeOK, [Next]_vars PROVE TypeOK'
  OBVIOUS
<1>. USE DEF TypeOK
<1>1. CASE Tick
  BY <1>1 DEF Tick, file, watcher, store
<1>2. CASE WriteLine
  <2>1. written + 1 \in Lines
    BY <1>2 DEF WriteLine, Lines
  <2>. QED  BY <1>2, <2>1 DEF WriteLine, store
<1>3. CASE Rotate
  <2>1. exists' \in BOOLEAN
    BY <1>3 DEF Rotate
  <2>2. rotations' \in 0 .. MaxRotations /\ base' \in 0 .. written'
    BY <1>3 DEF Rotate
  <2>3. UNCHANGED <<now, written, kind, ts, stops, proc, watcher, stage, store, ring>>
    BY <1>3 DEF Rotate
  <2>. QED  BY <2>1, <2>2, <2>3 DEF watcher, store
<1>4. CASE Stop
  <2>1. watched' \in BOOLEAN /\ event' \in BOOLEAN /\ reading' \in BOOLEAN
    BY <1>4 DEF Stop
  <2>2. stops' \in 0 .. MaxStops /\ pos' = 0 /\ proc' = "down" /\ ring' = <<>>
    BY <1>4 DEF Stop
  <2>3. stage' \in [Lines -> Stages]
    BY <1>4 DEF Stop, Stages
  <2>4. UNCHANGED <<now, file, store>>
    BY <1>4 DEF Stop
  <2>. QED  BY <2>1, <2>2, <2>3, <2>4 DEF file, store
<1>5. CASE StartWatching
  <2>1. Size \in 0 .. MaxLines
    BY DEF Size
  <2>2. stage' \in [Lines -> Stages]
    BY <1>5, BackfillStageType DEF StartWatching
  <2>. QED  BY <1>5, <2>1, <2>2 DEF StartWatching, file, store
<1>6. CASE StartBlind
  BY <1>6 DEF StartBlind, file, watcher, store
<1>7. CASE ObserverStart
  BY <1>7 DEF ObserverStart, file, watcher, store
<1>8. CASE CheckSize
  <2>1. event' \in BOOLEAN /\ reading' \in BOOLEAN
    BY <1>8 DEF CheckSize
  <2>2. pos' \in 0 .. MaxLines
    BY <1>8 DEF CheckSize
  <2>3. UNCHANGED <<now, file, stops, proc, watched, stage, store, ring>>
    BY <1>8 DEF CheckSize
  <2>. QED  BY <2>1, <2>2, <2>3 DEF file, store
<1>9. CASE ReadFile
  <2>1. Size \in 0 .. MaxLines
    BY DEF Size
  <2>2. stage' \in [Lines -> Stages]
    BY <1>9 DEF ReadFile, Stages
  <2>. QED  BY <1>9, <2>1, <2>2 DEF ReadFile, file, store
<1>10. ASSUME NEW l \in Lines, Parse(l) PROVE TypeOK'
  BY <1>10 DEF Parse, Stages, file, watcher, store
<1>11. ASSUME NEW l \in Lines, Insert(l) PROVE TypeOK'
  BY <1>11 DEF Insert, Stages, file, watcher
<1>12. ASSUME NEW l \in Lines, InsertFails(l) PROVE TypeOK'
  BY <1>12 DEF InsertFails, Stages, file, watcher, store
<1>13. ASSUME NEW l \in Lines, Announce(l) PROVE TypeOK'
  BY <1>13, PushType DEF Announce, Stages, file, watcher, store
<1>14. CASE Purge
  BY <1>14 DEF Purge, Expired, Stored, file, watcher
<1>15. CASE UNCHANGED vars
  BY <1>15 DEF vars, file, watcher, store
<1>. QED
  BY <1>1, <1>2, <1>3, <1>4, <1>5, <1>6, <1>7, <1>8, <1>9, <1>10, <1>11, <1>12,
     <1>13, <1>14, <1>15 DEF Next

LEMMA InitInv == Init => IInv
<1>. SUFFICES ASSUME Init PROVE IInv
  OBVIOUS
<1>. USE DEF Init
<1>1. TypeOK
  <2>1. exists \in BOOLEAN /\ watched \in BOOLEAN /\ event \in BOOLEAN /\ reading \in BOOLEAN
    OBVIOUS
  <2>2. stage \in [Lines -> Stages] /\ rows \in [Lines -> Nat] /\ ts \in [Lines -> 0 .. MaxTime]
    BY DEF Stages
  <2>3. kind \in [Lines -> Kinds \cup {"none"}]
    OBVIOUS
  <2>. QED  BY <2>1, <2>2, <2>3 DEF TypeOK
<1>2. \A l \in Lines : ~Claimed(l) /\ ~Pending(l) /\ rows[l] = 0
  BY DEF Claimed, Pending
<1>3. PurgedIsOld
  BY DEF PurgedIsOld
<1>4. ~watched /\ ~reading /\ stage = [l \in Lines |-> "unread"]
  OBVIOUS
<1>. QED
  BY <1>1, <1>2, <1>3, <1>4 DEF IInv, FutureUnclaimed, PendingIsNew, AtMostOneRow,
     PositionSeparates, IdleWithoutHandler

\* LogIngest is type correct.
THEOREM TypeCorrect == Spec => []TypeOK
<1>1. Init => TypeOK
  BY InitInv DEF IInv
<1>. QED  BY <1>1, TypeStep, PTL DEF Spec

-----------------------------------------------------------------------------

\* A step that leaves stage, rows and purged alone claims and releases no line.
LEMMA ClaimsUnchanged ==
  ASSUME UNCHANGED <<stage, store>>
  PROVE  \A l \in Lines : (Claimed(l)' <=> Claimed(l)) /\ (Pending(l)' <=> Pending(l))
BY DEF Claimed, Pending, store

\* A step that only moves line l on in the pipeline, and gives it no row.
LEMMA MovesOneLine ==
  ASSUME IInv, TypeOK', NEW l \in Lines,
         stage[l] \in {"scheduled", "parsed", "inserted"},
         NEW s \in Stages \ {"unread"}, Pending(l) \/ s \notin {"scheduled", "parsed"},
         stage' = [stage EXCEPT ![l] = s],
         proc = "up", UNCHANGED <<now, file, proc, watcher, store>>
  PROVE  IInv'
<1>. USE DEF IInv
<1>1. \A k \in Lines : (Claimed(k)' <=> Claimed(k)) /\ (Pending(k)' => Pending(k))
  BY DEF Claimed, Pending, TypeOK, store
<1>2. watched
  BY DEF IdleWithoutHandler
<1>3. FutureUnclaimed' /\ PendingIsNew' /\ PurgedIsOld' /\ AtMostOneRow'
  BY <1>1 DEF FutureUnclaimed, PendingIsNew, PurgedIsOld, AtMostOneRow, file, store
<1>4. PositionSeparates'
  BY <1>1 DEF PositionSeparates, InFile, Size, file, watcher
<1>5. IdleWithoutHandler'
  BY <1>2 DEF IdleWithoutHandler, watcher
<1>. QED  BY <1>3, <1>4, <1>5

LEMMA TickInv == IInv /\ Tick /\ TypeOK' => IInv'
<1>. SUFFICES ASSUME IInv, Tick, TypeOK' PROVE IInv'
  OBVIOUS
<1>. USE DEF IInv, Tick
<1>1. \A l \in Lines : (Claimed(l)' <=> Claimed(l)) /\ (Pending(l)' <=> Pending(l))
  BY ClaimsUnchanged
<1>2. PurgedIsOld'
  BY DEF PurgedIsOld, TypeOK, file, store
<1>3. FutureUnclaimed' /\ PendingIsNew' /\ AtMostOneRow'
  BY <1>1 DEF FutureUnclaimed, PendingIsNew, AtMostOneRow, file, store
<1>4. PositionSeparates' /\ IdleWithoutHandler'
  BY <1>1 DEF PositionSeparates, IdleWithoutHandler, InFile, Size, file, watcher
<1>. QED  BY <1>2, <1>3, <1>4

\* The new line is unclaimed, and its time does not matter as it has not been purged.
LEMMA WriteLineInv == IInv /\ WriteLine /\ TypeOK' => IInv'
<1>. SUFFICES ASSUME IInv, WriteLine, TypeOK' PROVE IInv'
  OBVIOUS
<1>. USE DEF IInv
<1>1. UNCHANGED <<stage, store, now, base, watched, pos, proc, reading>>
  BY DEF WriteLine
<1>2. \A l \in Lines : (Claimed(l)' <=> Claimed(l)) /\ (Pending(l)' <=> Pending(l))
  BY <1>1, ClaimsUnchanged
<1>3. written' = written + 1 /\ written \in Nat /\ written + 1 \in Lines /\ base \in Nat /\ pos \in Nat
  BY DEF WriteLine, TypeOK, Lines
<1>4. ~Claimed(written + 1)
  BY <1>3 DEF FutureUnclaimed
<1>5. PurgedIsOld'
  <2>1. \A l \in purged : l \in Lines /\ Claimed(l)
    BY DEF TypeOK, Claimed
  <2>2. \A l \in purged : l # written + 1 /\ ts'[l] = ts[l]
    BY <1>4, <2>1 DEF WriteLine, TypeOK
  <2>. QED  BY <1>1, <2>2 DEF PurgedIsOld, store
<1>6. FutureUnclaimed' /\ PendingIsNew' /\ AtMostOneRow'
  BY <1>1, <1>2, <1>3 DEF FutureUnclaimed, PendingIsNew, AtMostOneRow, store, Lines
<1>7. PositionSeparates'
  BY <1>1, <1>2, <1>3, <1>4 DEF PositionSeparates, InFile, Size, Lines
<1>8. IdleWithoutHandler'
  BY <1>1 DEF IdleWithoutHandler
<1>. QED  BY <1>5, <1>6, <1>7, <1>8

\* All written lines are behind the new file: it holds no claimed line.
LEMMA RotateInv == IInv /\ Rotate /\ TypeOK' => IInv'
<1>. SUFFICES ASSUME IInv, Rotate, TypeOK' PROVE IInv'
  OBVIOUS
<1>. USE DEF IInv
<1>1. UNCHANGED <<stage, store, now, written, ts, watcher, proc>> /\ base' = written
  BY DEF Rotate
<1>2. \A l \in Lines : (Claimed(l)' <=> Claimed(l)) /\ (Pending(l)' <=> Pending(l))
  BY <1>1, ClaimsUnchanged
<1>3. FutureUnclaimed' /\ PendingIsNew' /\ PurgedIsOld' /\ AtMostOneRow'
  BY <1>1, <1>2 DEF FutureUnclaimed, PendingIsNew, PurgedIsOld, AtMostOneRow, store
<1>4. PositionSeparates' /\ IdleWithoutHandler'
  BY <1>1, <1>2 DEF PositionSeparates, IdleWithoutHandler, InFile, TypeOK, Lines, watcher
<1>. QED  BY <1>3, <1>4

LEMMA StopInv == IInv /\ Stop /\ TypeOK' => IInv'
<1>. SUFFICES ASSUME IInv, Stop, TypeOK' PROVE IInv'
  OBVIOUS
<1>. USE DEF IInv
<1>1. UNCHANGED <<now, file, store>> /\ ~watched' /\ ~reading'
  BY DEF Stop
<1>2. stage' = [l \in Lines |-> "unread"]
  BY DEF Stop
<1>3. \A l \in Lines : (Claimed(l)' => Claimed(l)) /\ ~Pending(l)'
  BY <1>1, <1>2 DEF Claimed, Pending, store
<1>4. FutureUnclaimed' /\ PendingIsNew' /\ PurgedIsOld' /\ AtMostOneRow'
  BY <1>1, <1>3 DEF FutureUnclaimed, PendingIsNew, PurgedIsOld, AtMostOneRow, file, store
<1>5. PositionSeparates' /\ IdleWithoutHandler'
  BY <1>1, <1>2 DEF PositionSeparates, IdleWithoutHandler
<1>. QED  BY <1>4, <1>5

\* The backfill schedules no line that has or had a row: a stored line is at or before
\* the newest stored one, a purged line is behind the cutoff, which is no older than
\* the retention.  This is where the path under which rows are looked up matters.
LEMMA BackfillSchedulesNew ==
  ASSUME SamePath, TypeOK, PurgedIsOld, BackfillDays # 0,
         NEW l \in Lines, BackfillStage(l) = "scheduled"
  PROVE  rows[l] = 0 /\ l \notin purged
<1>1. ~AtOrBeforeLast(l) /\ ~(ts[l] < now - BackfillDays)
  BY DEF BackfillStage
<1>2. BackfillDays \in Nat /\ BackfillDays <= Retention
  BY DEF BackfillDays
<1>3. ts[l] \in Nat /\ now \in Nat
  BY DEF TypeOK
<1>4. l \notin Stored
  BY <1>1, <1>3 DEF AtOrBeforeLast
<1>5. l \notin purged
  BY <1>1, <1>2, <1>3 DEF PurgedIsOld
<1>. QED  BY <1>4, <1>5 DEF Stored, TypeOK

LEMMA StartWatchingInv == SamePath /\ IInv /\ StartWatching /\ TypeOK' => IInv'
<1>. SUFFICES ASSUME SamePath, IInv, StartWatching, TypeOK' PROVE IInv'
  OBVIOUS
<1>. USE DEF IInv
<1>1. /\ UNCHANGED <<now, file, store, reading>>
      /\ watched' /\ pos' = Size /\ proc' = "starting" /\ ~reading
  BY DEF StartWatching, IdleWithoutHandler
<1>2. stage = [l \in Lines |-> "unread"]
  BY DEF StartWatching, IdleWithoutHandler
<1>3. ASSUME NEW l \in Lines, Pending(l)'
      PROVE  l \in InFile /\ BackfillDays # 0 /\ BackfillStage(l) = "scheduled"
  <2>1. stage'[l] \in {"scheduled", "parsed"}
    BY <1>3 DEF Pending
  <2>2. BackfillDays # 0 /\ l \in InFile
    BY <1>2, <2>1 DEF StartWatching
  <2>3. stage'[l] = BackfillStage(l)
    BY <2>2 DEF StartWatching
  <2>. QED  BY <2>1, <2>2, <2>3 DEF BackfillStage
<1>4. PendingIsNew'
  <2>1. \A l \in Lines : Pending(l)' => rows[l] = 0 /\ l \notin purged
    BY <1>3, BackfillSchedulesNew
  <2>. QED  BY <1>1, <2>1 DEF PendingIsNew, store
<1>5. FutureUnclaimed'
  <2>. SUFFICES ASSUME NEW l \in Lines, written < l PROVE ~Claimed(l)'
    BY <1>1 DEF FutureUnclaimed, file
  <2>1. ~Claimed(l) /\ l \notin InFile
    BY DEF FutureUnclaimed, InFile, TypeOK, Lines
  <2>2. stage'[l] = stage[l]
    BY <2>1, <1>2 DEF StartWatching
  <2>. QED  BY <1>1, <2>1, <2>2 DEF Claimed, store
<1>6. PurgedIsOld' /\ AtMostOneRow'
  BY <1>1 DEF PurgedIsOld, AtMostOneRow, file, store
<1>7. PositionSeparates'
  BY <1>1 DEF PositionSeparates, InFile, Size, TypeOK, Lines, file
<1>8. IdleWithoutHandler'
  BY <1>1 DEF IdleWithoutHandler
<1>. QED  BY <1>4, <1>5, <1>6, <1>7, <1>8

\* Steps that leave the pipeline, the file and the position alone.
LEMMA ControlInv ==
  IInv /\ (StartBlind \/ ObserverStart) /\ TypeOK' => IInv'
<1>. SUFFICES ASSUME IInv, StartBlind \/ ObserverStart, TypeOK' PROVE IInv'
  OBVIOUS
<1>. USE DEF IInv
<1>1. UNCHANGED <<now, file, watcher, stage, store>> /\ proc' # "down"
  BY DEF StartBlind, ObserverStart
<1>2. \A l \in Lines : (Claimed(l)' <=> Claimed(l)) /\ (Pending(l)' <=> Pending(l))
  BY <1>1, ClaimsUnchanged
<1>3. FutureUnclaimed' /\ PendingIsNew' /\ PurgedIsOld' /\ AtMostOneRow'
  BY <1>1, <1>2 DEF FutureUnclaimed, PendingIsNew, PurgedIsOld, AtMostOneRow, file, store
<1>4. PositionSeparates' /\ IdleWithoutHandler'
  BY <1>1, <1>2 DEF PositionSeparates, IdleWithoutHandler, InFile, Size, file, watcher
<1>. QED  BY <1>3, <1>4

\* A file shorter than the position holds no claimed line: the reset re-reads nothing.
LEMMA CheckSizeInv == IInv /\ CheckSize /\ TypeOK' => IInv'
<1>. SUFFICES ASSUME IInv, CheckSize, TypeOK' PROVE IInv'
  OBVIOUS
<1>. USE DEF IInv
<1>1. UNCHANGED <<now, file, stage, store, watched, proc>> /\ watched /\ proc = "up"
  BY DEF CheckSize
<1>2. \A l \in Lines : (Claimed(l)' <=> Claimed(l)) /\ (Pending(l)' <=> Pending(l))
  BY <1>1, ClaimsUnchanged
<1>3. FutureUnclaimed' /\ PendingIsNew' /\ PurgedIsOld' /\ AtMostOneRow'
  BY <1>1, <1>2 DEF FutureUnclaimed, PendingIsNew, PurgedIsOld, AtMostOneRow, file, store
<1>4. PositionSeparates'
  <2>1. pos' = pos \/ (Size < pos /\ pos' = 0)
    BY DEF CheckSize
  <2>2. Size' = Size /\ InFile' = InFile /\ base' = base
    BY <1>1 DEF Size, InFile, file
  <2>3. CASE pos' = pos
    <3>1. \A l \in InFile : Claimed(l)' => Claimed(l)
      BY <1>2 DEF InFile
    <3>2. \A l \in InFile : Claimed(l)' => l <= base + pos /\ pos <= Size
      BY <1>1, <3>1 DEF PositionSeparates
    <3>. QED  BY <2>2, <2>3, <3>2 DEF PositionSeparates
  <2>4. CASE Size < pos
    <3>1. \A l \in InFile : ~Claimed(l)
      BY <1>1, <2>4 DEF PositionSeparates, Size, TypeOK
    <3>. QED  BY <1>2, <2>2, <3>1 DEF PositionSeparates, InFile
  <2>. QED  BY <2>1, <2>3, <2>4
<1>5. IdleWithoutHandler'
  BY <1>1 DEF IdleWithoutHandler
<1>. QED  BY <1>3, <1>4, <1>5

\* The read schedules lines beyond the position only, and those are unclaimed.
LEMMA ReadFileInv == IInv /\ ReadFile /\ TypeOK' => IInv'
<1>. SUFFICES ASSUME IInv, ReadFile, TypeOK' PROVE IInv'
  OBVIOUS
<1>. USE DEF IInv
<1>1. UNCHANGED <<now, file, store, watched, proc>> /\ watched /\ proc = "up" /\ ~reading'
  BY DEF ReadFile, IdleWithoutHandler
<1>2. ASSUME NEW l \in Lines, ~(exists /\ l \in InFile /\ base + pos < l)
      PROVE  (Claimed(l)' <=> Claimed(l)) /\ (Pending(l)' <=> Pending(l))
  BY <1>1, <1>2 DEF ReadFile, Claimed, Pending, store
<1>3. ASSUME NEW l \in InFile, base + pos < l
      PROVE  ~Claimed(l)
  BY <1>1, <1>3 DEF PositionSeparates, InFile, TypeOK, Lines
<1>4. PendingIsNew'
  <2>. SUFFICES ASSUME NEW l \in Lines, Pending(l)' PROVE rows[l] = 0 /\ l \notin purged
    BY <1>1 DEF PendingIsNew, store
  <2>1. CASE exists /\ l \in InFile /\ base + pos < l
    <3>. HIDE DEF IInv
    <3>1. ~Claimed(l)
      BY <1>3, <2>1
    <3>2. rows[l] \in Nat
      BY DEF IInv, TypeOK
    <3>. QED  BY <3>1, <3>2 DEF Claimed
  <2>2. CASE ~(exists /\ l \in InFile /\ base + pos < l)
    BY <1>2, <2>2 DEF PendingIsNew
  <2>. QED  BY <2>1, <2>2
<1>5. FutureUnclaimed'
  <2>. SUFFICES ASSUME NEW l \in Lines, written < l PROVE ~Claimed(l)'
    BY <1>1 DEF FutureUnclaimed, file
  <2>1. ~Claimed(l) /\ l \notin InFile
    BY DEF FutureUnclaimed, InFile, TypeOK, Lines
  <2>. QED  BY <1>2, <2>1
<1>6. PurgedIsOld' /\ AtMostOneRow'
  BY <1>1 DEF PurgedIsOld, AtMostOneRow, file, store
<1>7. PositionSeparates'
  <2>. SUFFICES ASSUME NEW l \in InFile, Claimed(l)' PROVE l <= base + pos' /\ pos' <= Size
    BY <1>1 DEF PositionSeparates, InFile, Size, file
  <2>1. pos' = IF exists /\ pos < Size THEN Size ELSE pos
    BY DEF ReadFile
  <2>2. l \in Lines /\ l \in Nat /\ base < l /\ l <= written /\ base \in Nat /\ written \in Nat /\ pos \in Nat
    BY DEF InFile, TypeOK, Lines
  <2>3. CASE exists /\ base + pos < l
    <3>0. base + pos < l
      BY <2>3
    <3>1. pos < Size
      BY <2>2, <3>0 DEF Size
    <3>2. pos' = Size
      BY <2>1, <2>3, <3>1
    <3>. QED  BY <2>2, <3>2 DEF Size
  <2>4. CASE ~(exists /\ base + pos < l)
    <3>1. Claimed(l)
      BY <1>2, <2>2, <2>4
    <3>2. l <= base + pos /\ pos <= Size
      BY <1>1, <3>1 DEF PositionSeparates
    <3>. QED  BY <2>1, <2>2, <3>2 DEF Size
  <2>. QED  BY <2>3, <2>4
<1>8. IdleWithoutHandler'
  BY <1>1 DEF IdleWithoutHandler
<1>. QED  BY <1>4, <1>5, <1>6, <1>7, <1>8

LEMMA ParseInv ==
  ASSUME IInv, TypeOK', NEW l \in Lines, Parse(l) PROVE IInv'
<1>. DEFINE s == IF kind[l] \in {"access", "untimed"} THEN "parsed" ELSE "rejected"
<1>1. stage[l] = "scheduled" /\ stage' = [stage EXCEPT ![l] = s] /\ s \in Stages \ {"unread"}
  BY DEF Parse, Stages
<1>2. Pending(l) /\ proc = "up" /\ UNCHANGED <<now, file, proc, watcher, store>>
  BY DEF Parse, Pending
<1>. QED  BY <1>1, <1>2, MovesOneLine

LEMMA InsertFailsInv ==
  ASSUME IInv, TypeOK', NEW l \in Lines, InsertFails(l) PROVE IInv'
<1>1. stage[l] = "parsed" /\ stage' = [stage EXCEPT ![l] = "failed"]
  BY DEF InsertFails
<1>2. Pending(l) /\ proc = "up" /\ UNCHANGED <<now, file, proc, watcher, store>>
  BY DEF InsertFails, Pending
<1>3. "failed" \in Stages \ {"unread"}
  BY DEF Stages
<1>. QED  BY <1>1, <1>2, <1>3, MovesOneLine

LEMMA AnnounceInv ==
  ASSUME IInv, TypeOK', NEW l \in Lines, Announce(l) PROVE IInv'
<1>1. stage[l] = "inserted" /\ stage' = [stage EXCEPT ![l] = "announced"]
  BY DEF Announce
<1>2. proc = "up" /\ UNCHANGED <<now, file, proc, watcher, store>>
  BY DEF Announce
<1>3. "announced" \in Stages \ {"unread"} /\ "announced" \notin {"scheduled", "parsed"}
  BY DEF Stages
<1>. QED  BY <1>1, <1>2, <1>3, MovesOneLine

\* The insert is the one step that adds a row: it finds none.
LEMMA InsertInv ==
  ASSUME IInv, TypeOK', NEW l \in Lines, Insert(l) PROVE IInv'
<1>. USE DEF IInv
<1>1. /\ stage[l] = "parsed" /\ stage' = [stage EXCEPT ![l] = "inserted"]
      /\ rows' = [rows EXCEPT ![l] = rows[l] + 1]
      /\ UNCHANGED <<now, file, proc, watcher, purged>> /\ proc = "up"
  BY DEF Insert
<1>2. rows[l] = 0 /\ l \notin purged /\ Claimed(l)
  BY <1>1 DEF PendingIsNew, Pending, Claimed
<1>3. \A k \in Lines : k # l => rows'[k] = rows[k] /\ stage'[k] = stage[k]
  BY <1>1 DEF TypeOK
<1>4. rows'[l] = 1 /\ stage'[l] = "inserted"
  BY <1>1, <1>2 DEF TypeOK
<1>5. \A k \in Lines : (Claimed(k)' <=> Claimed(k)) /\ (Pending(k)' => Pending(k) /\ k # l)
  BY <1>1, <1>2, <1>3, <1>4 DEF Claimed, Pending
<1>6. FutureUnclaimed' /\ AtMostOneRow' /\ PendingIsNew'
  BY <1>1, <1>3, <1>4, <1>5 DEF FutureUnclaimed, AtMostOneRow, PendingIsNew, file
<1>7. PurgedIsOld'
  BY <1>1, <1>2, <1>3 DEF PurgedIsOld, TypeOK, file
<1>8. PositionSeparates'
  <2>1. \A k \in InFile : Claimed(k)' => Claimed(k)
    BY <1>5 DEF InFile
  <2>. QED  BY <1>1, <2>1 DEF PositionSeparates, InFile, Size, file, watcher
<1>9. IdleWithoutHandler'
  <2>1. watched
    BY <1>1 DEF IdleWithoutHandler
  <2>. QED  BY <1>1, <2>1 DEF IdleWithoutHandler, watcher
<1>. QED  BY <1>6, <1>7, <1>8, <1>9

\* The purge turns stored lines, which are not pending, into purged ones.
LEMMA PurgeInv == IInv /\ Purge /\ TypeOK' => IInv'
<1>. SUFFICES ASSUME IInv, Purge, TypeOK' PROVE IInv'
  OBVIOUS
<1>. USE DEF IInv
<1>1. UNCHANGED <<now, file, proc, watcher, stage>> /\ proc = "up"
      /\ purged' = purged \cup Expired
      /\ rows' = [l \in Lines |-> IF l \in Expired THEN 0 ELSE rows[l]]
  BY DEF Purge
<1>2. \A l \in Expired : l \in Lines /\ rows[l] > 0 /\ ts[l] < now - Retention
  BY DEF Expired, Stored
<1>3. \A l \in Lines : (Claimed(l)' => Claimed(l)) /\ (Pending(l)' <=> Pending(l))
  BY <1>1, <1>2 DEF Claimed, Pending
<1>4. FutureUnclaimed'
  BY <1>1, <1>3 DEF FutureUnclaimed, file
<1>5. PendingIsNew'
  <2>1. \A l \in Lines : Pending(l) => l \notin Expired
    BY <1>2 DEF PendingIsNew
  <2>. QED  BY <1>1, <1>3, <2>1 DEF PendingIsNew
<1>6. PurgedIsOld' /\ AtMostOneRow'
  BY <1>1, <1>2 DEF PurgedIsOld, AtMostOneRow, TypeOK, file
<1>7. PositionSeparates'
  <2>1. \A k \in InFile : Claimed(k)' => Claimed(k)
    BY <1>3 DEF InFile
  <2>. QED  BY <1>1, <2>1 DEF PositionSeparates, InFile, Size, file, watcher
<1>8. IdleWithoutHandler'
  BY <1>1 DEF IdleWithoutHandler, watcher
<1>. QED  BY <1>4, <1>5, <1>6, <1>7, <1>8

LEMMA StutterInv == IInv /\ UNCHANGED vars => IInv'
BY DEF IInv, vars, file, watcher, store, TypeOK, FutureUnclaimed, PendingIsNew, PurgedIsOld,
       AtMostOneRow, PositionSeparates, IdleWithoutHandler, Claimed, Pending, InFile, Size

LEMMA StepInv == SamePath /\ IInv /\ [Next]_vars => IInv'
<1>. SUFFICES ASSUME SamePath, IInv, [Next]_vars PROVE IInv'
  OBVIOUS
<1>1. TypeOK'
  BY TypeStep DEF IInv
<1>2. CASE Tick \/ WriteLine \/ Rotate \/ Stop
  BY <1>1, <1>2, TickInv, WriteLineInv, RotateInv, StopInv
<1>3. CASE StartWatching \/ StartBlind \/ ObserverStart
  BY <1>1, <1>3, StartWatchingInv, ControlInv
<1>4. CASE CheckSize \/ ReadFile \/ Purge
  BY <1>1, <1>4, CheckSizeInv, ReadFileInv, PurgeInv
<1>5. ASSUME NEW l \in Lines, Parse(l) \/ Insert(l) \/ InsertFails(l) \/ Announce(l)
      PROVE  IInv'
  BY <1>1, <1>5, ParseInv, InsertInv, InsertFailsInv, AnnounceInv
<1>6. CASE UNCHANGED vars
  BY <1>6, StutterInv
<1>. QED  BY <1>2, <1>3, <1>4, <1>5, <1>6 DEF Next

LEMMA Invariance == ASSUME SamePath PROVE Spec => []IInv
<1>1. IInv /\ [Next]_vars => IInv'
  BY StepInv
<1>. QED  BY <1>1, InitInv, PTL DEF Spec

\* When the log is configured under its absolute path, no line is ever stored twice,
\* and none again after the purge deleted its row.
THEOREM StoredAtMostOnce == ASSUME SamePath PROVE Spec => []AtMostOnce
<1>1. IInv => AtMostOnce
  BY DEF IInv, AtMostOneRow, PurgedIsOld, AtMostOnce
<1>. QED  BY <1>1, Invariance, PTL

-----------------------------------------------------------------------------

LEMMA LifeOfLine ==
  ASSUME IInv, NEW l \in Lines
  PROVE  Life[l] = IF l \in purged THEN "purged"
                   ELSE IF rows[l] = 0 THEN "absent" ELSE "stored"
<1>1. rows[l] \in {0, 1} /\ (l \in purged => rows[l] = 0)
  BY DEF IInv, TypeOK, AtMostOneRow, PurgedIsOld
<1>. QED  BY <1>1 DEF Life

LEMMA LifeUnchanged == UNCHANGED store => UNCHANGED Life
BY DEF store, Life

LEMMA InsertStores ==
  ASSUME IInv, IInv', NEW l \in Lines, Insert(l)
  PROVE  Abstract!Store(l)
<1>1. /\ rows' = [rows EXCEPT ![l] = rows[l] + 1] /\ purged' = purged
      /\ rows[l] = 0 /\ l \notin purged
  BY DEF Insert, IInv, PendingIsNew, Pending
<1>2. \A k \in Lines : rows'[k] = IF k = l THEN 1 ELSE rows[k]
  BY <1>1 DEF IInv, TypeOK
<1>3. Life[l] = "absent"
  BY <1>1, LifeOfLine
<1>4. ASSUME NEW k \in Lines
      PROVE  Life'[k] = IF k = l THEN "stored" ELSE Life[k]
  BY <1>1, <1>2 DEF Life
<1>5. Life' = [Life EXCEPT ![l] = "stored"]
  BY <1>4 DEF Life
<1>. QED  BY <1>3, <1>5 DEF Abstract!Store

LEMMA PurgePurges ==
  ASSUME IInv, IInv', Purge
  PROVE  Abstract!Purge(Expired)
<1>1. /\ rows' = [l \in Lines |-> IF l \in Expired THEN 0 ELSE rows[l]]
      /\ purged' = purged \cup Expired
  BY DEF Purge
<1>2. \A l \in Expired : l \in Lines /\ rows[l] # 0 /\ l \notin purged
  <2>1. \A l \in Expired : l \in Lines /\ rows[l] > 0
    BY DEF Expired, Stored
  <2>2. \A l \in purged : rows[l] = 0
    BY DEF IInv, PurgedIsOld
  <2>. QED  BY <2>1, <2>2
<1>3. \A l \in Expired : Life[l] = "stored"
  BY <1>2, LifeOfLine
<1>4. ASSUME NEW l \in Lines
      PROVE  Life'[l] = IF l \in Expired THEN "purged" ELSE Life[l]
  BY <1>1 DEF Life
<1>5. Life' = [l \in Lines |-> IF l \in Expired THEN "purged" ELSE Life[l]]
  BY <1>4 DEF Life
<1>. QED  BY <1>3, <1>5 DEF Abstract!Purge

LEMMA StepSimulates ==
  ASSUME IInv, IInv', [Next]_vars PROVE [Abstract!Next]_Life
<1>1. ASSUME NEW l \in Lines, Insert(l) PROVE Abstract!Next
  BY <1>1, InsertStores DEF Abstract!Next
<1>2. CASE Purge
  <2>1. Expired \in SUBSET Lines
    BY DEF Expired, Stored
  <2>. QED  BY <1>2, <2>1, PurgePurges DEF Abstract!Next
<1>3. CASE UNCHANGED store
  BY <1>3, LifeUnchanged
<1>4. UNCHANGED store \/ Purge \/ \E l \in Lines : Insert(l)
  BY DEF Next, vars, Tick, WriteLine, Rotate, Stop, StartWatching, StartBlind,
     ObserverStart, CheckSize, ReadFile, Parse, InsertFails, Announce
<1>. QED  BY <1>1, <1>2, <1>3, <1>4

\* The watcher, the pipeline and the purge implement the abstract store of lines.
THEOREM IngestImplementsLineStore == ASSUME SamePath PROVE Spec => ImplementsLineStore
<1>1. Init => Abstract!Init
  BY DEF Init, Life, Abstract!Init
<1>2. IInv /\ IInv' /\ [Next]_vars => [Abstract!Next]_Life
  BY StepSimulates
<1>. QED  BY <1>1, <1>2, Invariance, PTL DEF Spec, ImplementsLineStore, Abstract!Spec
-----------------------------------------------------------------------------
(* The replay ring.                                                        *)

\* A line that got through the insert has its row, or had it; the ring holds lines that
\* were announced, each once; and it dies with the process.
Lasting(l) == rows[l] = 1 \/ l \in purged
StoredBehindInsert == \A l \in Lines : stage[l] \in {"inserted", "announced"} => Lasting(l)
RingIsAnnounced == \A i \in DOMAIN ring : stage[ring[i]] = "announced"
RingDistinct == \A i, j \in DOMAIN ring : i # j => ring[i] # ring[j]
RingDies == proc = "down" => ring = <<>>

RingInv == StoredBehindInsert /\ RingIsAnnounced /\ RingDistinct /\ RingDies

\* Every entry of a pushed ring is the new line or an entry of the old ring, at another
\* place for another entry.
LEMMA PushEntries ==
  ASSUME NEW r \in Seq(Lines), Len(r) <= RingSize, NEW l \in Lines
  PROVE  \E d \in {0, 1} :
           \A i \in DOMAIN Push(r, l) :
             \/ i = Len(Push(r, l)) /\ Push(r, l)[i] = l
             \/ i # Len(Push(r, l)) /\ i + d \in DOMAIN r /\ Push(r, l)[i] = r[i + d]
<1>1. CASE Len(r) < RingSize
  <2>1. Push(r, l) = Append(r, l)
    BY <1>1 DEF Push
  <2>2. \A i \in DOMAIN Append(r, l) :
             \/ i = Len(Append(r, l)) /\ Append(r, l)[i] = l
             \/ i # Len(Append(r, l)) /\ i + 0 \in DOMAIN r /\ Append(r, l)[i] = r[i + 0]
    OBVIOUS
  <2>. QED  BY <2>1, <2>2
<1>2. CASE ~(Len(r) < RingSize)
  <2>1. Push(r, l) = Append(Tail(r), l) /\ r # <<>>
    BY <1>2 DEF Push
  <2>2. Tail(r) \in Seq(Lines) /\ Len(Tail(r)) = Len(r) - 1
    BY <2>1
  <2>3. \A i \in DOMAIN Tail(r) : i + 1 \in DOMAIN r /\ Tail(r)[i] = r[i + 1]
    BY <2>1
  <2>4. \A i \in DOMAIN Append(Tail(r), l) :
             \/ i = Len(Append(Tail(r), l)) /\ Append(Tail(r), l)[i] = l
             \/ /\ i # Len(Append(Tail(r), l)) /\ i \in DOMAIN Tail(r)
                /\ Append(Tail(r), l)[i] = Tail(r)[i]
    BY <2>2
  <2>. QED  BY <2>1, <2>3, <2>4
<1>. QED  BY <1>1, <1>2

\* A step that keeps the ring and takes no line back out of the end of the pipeline.
LEMMA RingKept ==
  ASSUME TypeOK, RingInv, ring' = ring, proc' = "down" => proc = "down",
         \A l \in Lines : stage[l] = "announced" => stage'[l] = "announced",
         \A l \in Lines : stage'[l] \in {"inserted", "announced"} => Lasting(l)'
  PROVE  RingInv'
<1>1. \A i \in DOMAIN ring : ring[i] \in Lines
  BY DEF TypeOK
<1>. QED  BY <1>1 DEF RingInv, StoredBehindInsert, RingIsAnnounced, RingDistinct, RingDies

\* No step but Stop takes a line back: a backfill finds the pipeline empty, and a read
\* schedules lines nobody has had to do with.
LEMMA RingStep == IInv /\ IInv' /\ RingInv /\ [Next]_vars => RingInv'
<1>. SUFFICES ASSUME IInv, IInv', RingInv, [Next]_vars PROVE RingInv'
  OBVIOUS
<1>0. TypeOK /\ StoredBehindInsert
  BY DEF IInv, RingInv
<1>1. CASE Tick \/ WriteLine \/ Rotate \/ StartBlind \/ ObserverStart \/ CheckSize \/ UNCHANGED vars
  <2>1. UNCHANGED <<stage, rows, purged, ring>> /\ (proc' = "down" => proc = "down")
    BY <1>1 DEF Tick, WriteLine, Rotate, StartBlind, ObserverStart, CheckSize, vars, store
  <2>2. \A l \in Lines : stage'[l] \in {"inserted", "announced"} => Lasting(l)'
    BY <1>0, <2>1 DEF StoredBehindInsert, Lasting
  <2>. QED  BY <1>0, <2>1, <2>2, RingKept
<1>2. CASE Stop
  BY <1>2 DEF Stop, RingInv, StoredBehindInsert, RingIsAnnounced, RingDistinct, RingDies
<1>3. CASE StartWatching
  <2>1. stage = [l \in Lines |-> "unread"]
    BY <1>3 DEF IInv, IdleWithoutHandler, StartWatching
  <2>2. \A l \in Lines : stage'[l] \notin {"inserted", "announced"}
    BY <1>3, <2>1 DEF StartWatching, BackfillStage
  <2>3. ring' = ring /\ proc' = "starting"
    BY <1>3 DEF StartWatching
  <2>. QED  BY <1>0, <2>1, <2>2, <2>3, RingKept
<1>4. CASE ReadFile
  <2>1. UNCHANGED <<rows, purged, ring, proc>> /\ reading
    BY <1>4 DEF ReadFile, store
  <2>2. ASSUME NEW l \in InFile, base + pos < l PROVE stage[l] = "unread"
    <3>1. ~Claimed(l)
      BY <2>1, <2>2 DEF IInv, IdleWithoutHandler, PositionSeparates, InFile, TypeOK, Lines
    <3>. QED  BY <3>1 DEF Claimed
  <2>3. \A l \in Lines : stage'[l] = stage[l] \/ (stage[l] = "unread" /\ stage'[l] = "scheduled")
    BY <1>4, <2>2 DEF ReadFile
  <2>4. \A l \in Lines : stage'[l] \in {"inserted", "announced"} => Lasting(l)'
    BY <1>0, <2>1, <2>3 DEF StoredBehindInsert, Lasting
  <2>5. \A l \in Lines : stage[l] = "announced" => stage'[l] = "announced"
    BY <2>3
  <2>. QED  BY <1>0, <2>1, <2>4, <2>5, RingKept
<1>5. ASSUME NEW l \in Lines, Parse(l) \/ InsertFails(l) PROVE RingInv'
  <2>1. UNCHANGED <<rows, purged, ring, proc>> /\ stage[l] \in {"scheduled", "parsed"}
    BY <1>5 DEF Parse, InsertFails, store
  <2>2. stage'[l] \notin {"inserted", "announced"} /\ \A k \in Lines : k # l => stage'[k] = stage[k]
    BY <1>0, <1>5 DEF Parse, InsertFails, TypeOK
  <2>3. \A k \in Lines : stage'[k] \in {"inserted", "announced"} => Lasting(k)'
    BY <1>0, <2>1, <2>2 DEF StoredBehindInsert, Lasting
  <2>4. \A k \in Lines : stage[k] = "announced" => stage'[k] = "announced"
    BY <2>1, <2>2
  <2>. QED  BY <1>0, <2>1, <2>3, <2>4, RingKept
<1>6. ASSUME NEW l \in Lines, Insert(l) PROVE RingInv'
  <2>1. ring' = ring /\ proc' = proc /\ purged' = purged /\ stage[l] = "parsed" /\ rows[l] = 0
    BY <1>6 DEF Insert, IInv, PendingIsNew, Pending
  <2>2. rows'[l] = 1 /\ \A k \in Lines : k # l => stage'[k] = stage[k] /\ rows'[k] = rows[k]
    BY <1>0, <1>6, <2>1 DEF Insert, TypeOK
  <2>3. \A k \in Lines : stage'[k] \in {"inserted", "announced"} => Lasting(k)'
    BY <1>0, <2>1, <2>2 DEF StoredBehindInsert, Lasting
  <2>4. \A k \in Lines : stage[k] = "announced" => stage'[k] = "announced"
    BY <2>1, <2>2
  <2>. QED  BY <1>0, <2>1, <2>3, <2>4, RingKept
<1>7. ASSUME NEW l \in Lines, Announce(l) PROVE RingInv'
  <2>1. UNCHANGED <<rows, purged, proc>> /\ stage[l] = "inserted" /\ proc = "up" /\ ring' = Push(ring, l)
    BY <1>7 DEF Announce, store
  <2>2. stage'[l] = "announced" /\ \A k \in Lines : k # l => stage'[k] = stage[k]
    BY <1>0, <1>7 DEF Announce, TypeOK
  <2>3. StoredBehindInsert'
    BY <1>0, <2>1, <2>2 DEF StoredBehindInsert, Lasting
  <2>4. PICK d \in {0, 1} :
          \A i \in DOMAIN ring' :
             \/ i = Len(ring') /\ ring'[i] = l
             \/ i # Len(ring') /\ i + d \in DOMAIN ring /\ ring'[i] = ring[i + d]
    BY <1>0, <2>1, PushEntries DEF TypeOK
  <2>5. \A i \in DOMAIN ring : ring[i] \in Lines /\ ring[i] # l /\ stage[ring[i]] = "announced"
    BY <1>0, <2>1 DEF RingInv, RingIsAnnounced, TypeOK
  <2>6. RingIsAnnounced'
    BY <2>2, <2>4, <2>5 DEF RingIsAnnounced
  <2>7. RingDistinct'
    <3>. SUFFICES ASSUME NEW i \in DOMAIN ring', NEW j \in DOMAIN ring', i # j
                  PROVE  ring'[i] # ring'[j]
      BY DEF RingDistinct
    <3>1. ring' \in Seq(Lines)
      BY DEF IInv, TypeOK
    <3>2. i \in Nat /\ j \in Nat
      BY <3>1
    <3>3. i + d # j + d
      BY <3>2
    <3>4. CASE i = Len(ring') \/ j = Len(ring')
      BY <2>4, <2>5, <3>4
    <3>5. CASE ~(i = Len(ring') \/ j = Len(ring'))
      BY <2>4, <3>3, <3>5 DEF RingInv, RingDistinct
    <3>. QED  BY <3>4, <3>5
  <2>8. RingDies'
    BY <2>1 DEF RingDies
  <2>. QED  BY <2>3, <2>6, <2>7, <2>8 DEF RingInv
<1>8. CASE Purge
  <2>1. UNCHANGED <<stage, ring, proc>> /\ purged' = purged \cup Expired
        /\ \A l \in Lines : rows'[l] = IF l \in Expired THEN 0 ELSE rows[l]
    BY <1>8 DEF Purge
  <2>2. \A l \in Lines : stage'[l] \in {"inserted", "announced"} => Lasting(l)'
    BY <1>0, <2>1 DEF StoredBehindInsert, Lasting
  <2>. QED  BY <1>0, <2>1, <2>2, RingKept
<1>. QED
  BY <1>1, <1>2, <1>3, <1>4, <1>5, <1>6, <1>7, <1>8 DEF Next

\* When the log is configured under its absolute path, the replay ring holds requests
\* that were stored, each of them once, through failing inserts, purges and restarts.
THEOREM RingShowsStored == ASSUME SamePath PROVE Spec => []RingHoldsStoredOnce
<1>1. Init => RingInv
  BY DEF Init, RingInv, StoredBehindInsert, RingIsAnnounced, RingDistinct, RingDies
<1>2. IInv /\ RingInv => RingHoldsStoredOnce
  <2>. SUFFICES ASSUME IInv, RingInv PROVE RingHoldsStoredOnce
    OBVIOUS
  <2>1. \A i \in DOMAIN ring : ring[i] \in Lines /\ stage[ring[i]] = "announced"
    BY DEF IInv, TypeOK, RingInv, RingIsAnnounced
  <2>2. \A i \in DOMAIN ring : Lasting(ring[i])
    BY <2>1 DEF RingInv, StoredBehindInsert
  <2>. QED  BY <2>2 DEF RingInv, RingDistinct, RingHoldsStoredOnce, Lasting
<1>3. IInv /\ IInv' /\ RingInv /\ [Next]_vars => RingInv'
  BY RingStep
<1>. QED  BY <1>1, <1>2, <1>3, Invariance, PTL DEF Spec

-----------------------------------------------------------------------------
(* The position, as long as the log is not rotated.                        *)

\* The position stays inside the file and every unread line lies behind it.
PositionInv ==
  watched => /\ pos <= Size
             /\ \A l \in InFile : stage[l] = "unread" => base + pos < l

LEMMA PositionStep ==
  ASSUME MaxRotations = 0, BackfillDays # 0, TypeOK, PositionInv, IdleWithoutHandler, [Next]_vars
  PROVE  PositionInv'
<1>1. CASE Tick \/ StartBlind \/ ObserverStart \/ Purge \/ UNCHANGED vars
  <2>1. UNCHANGED <<stage, written, base, watched, pos>>
    BY <1>1 DEF Tick, StartBlind, ObserverStart, Purge, vars, file, watcher
  <2>. QED  BY <2>1 DEF PositionInv, InFile, Size
<1>2. CASE WriteLine
  <2>1. UNCHANGED <<stage, base, watched, pos>> /\ written' = written + 1
    BY <1>2 DEF WriteLine
  <2>2. \A l \in InFile' : l \in InFile \/ l = written + 1
    BY <2>1 DEF InFile, Lines, TypeOK
  <2>. QED  BY <2>1, <2>2 DEF PositionInv, Size, TypeOK
<1>3. CASE Rotate
  BY <1>3 DEF Rotate, TypeOK
<1>4. CASE Stop
  BY <1>4 DEF Stop, PositionInv
<1>5. CASE StartWatching
  <2>1. UNCHANGED <<written, base>> /\ pos' = Size
    BY <1>5 DEF StartWatching, file
  <2>2. \A l \in InFile : stage'[l] = BackfillStage(l)
    BY <1>5 DEF StartWatching, InFile
  <2>3. \A l \in InFile : stage'[l] # "unread"
    BY <2>2 DEF BackfillStage
  <2>. QED  BY <2>1, <2>3 DEF PositionInv, InFile, Size, TypeOK
<1>6. CASE CheckSize
  <2>1. UNCHANGED <<stage, written, base, watched>> /\ watched
    BY <1>6 DEF CheckSize, file
  <2>2. pos' = pos
    BY <1>6, <2>1 DEF CheckSize, PositionInv, Size, TypeOK
  <2>. QED  BY <2>1, <2>2 DEF PositionInv, InFile, Size
<1>7. CASE ReadFile
  <2>1. UNCHANGED <<written, base, watched>> /\ watched
    BY <1>7 DEF ReadFile, file, IdleWithoutHandler
  <2>2. ASSUME NEW l \in InFile, stage'[l] = "unread"
        PROVE  base + pos < l /\ ~exists
    <3>1. ~(exists /\ base + pos < l) /\ stage[l] = "unread"
      BY <1>7, <2>2 DEF ReadFile, InFile
    <3>. QED  BY <2>1, <3>1 DEF PositionInv
  <2>3. pos' = IF exists /\ pos < Size THEN Size ELSE pos
    BY <1>7 DEF ReadFile
  <2>4. InFile' = InFile /\ Size' = Size /\ Size \in Int /\ pos \in Int
    BY <2>1 DEF InFile, Size, TypeOK
  <2>5. pos' <= Size
    BY <2>1, <2>3, <2>4 DEF PositionInv
  <2>. QED  BY <2>1, <2>2, <2>3, <2>4, <2>5 DEF PositionInv
<1>8. ASSUME NEW l \in Lines, Parse(l) \/ Insert(l) \/ InsertFails(l) \/ Announce(l)
      PROVE  PositionInv'
  <2>1. UNCHANGED <<written, base, watched, pos>>
    BY <1>8 DEF Parse, Insert, InsertFails, Announce, file, watcher
  <2>2. \A k \in Lines : stage'[k] = stage[k] \/ stage'[k] # "unread"
    BY <1>8 DEF Parse, Insert, InsertFails, Announce, TypeOK
  <2>. QED  BY <2>1, <2>2 DEF PositionInv, InFile, Size
<1>. QED
  BY <1>1, <1>2, <1>3, <1>4, <1>5, <1>6, <1>7, <1>8 DEF Next

\* While the log is not rotated, the handler's position never passes over an unread
\* line, those between the backfill and the observer's start included.
THEOREM PositionPassesNone ==
  ASSUME MaxRotations = 0, Retention > 0, MaxBackfill > 0
  PROVE  Spec => []NoLineBehindPosition
<1>1. CASE ~BackfillOn
  BY <1>1, PTL DEF NoLineBehindPosition
<1>2. CASE BackfillOn
  <2>1. BackfillDays # 0
    BY <1>2 DEF BackfillDays
  <2>2. Init => TypeOK /\ IdleWithoutHandler /\ PositionInv
    BY InitInv DEF IInv, Init, PositionInv
  <2>3. TypeOK /\ IdleWithoutHandler /\ [Next]_vars => IdleWithoutHandler'
    <3>. SUFFICES ASSUME TypeOK, IdleWithoutHandler, [Next]_vars PROVE IdleWithoutHandler'
      OBVIOUS
    <3>. USE DEF IdleWithoutHandler
    <3>1. CASE Tick \/ WriteLine \/ Rotate \/ StartBlind \/ Purge \/ UNCHANGED vars
      BY <3>1 DEF Tick, WriteLine, Rotate, StartBlind, Purge, vars, watcher
    <3>2. CASE Stop \/ StartWatching
      BY <3>2 DEF Stop, StartWatching
    <3>3. CASE ObserverStart \/ CheckSize \/ ReadFile
      BY <3>3 DEF ObserverStart, CheckSize, ReadFile, watcher
    <3>4. ASSUME NEW l \in Lines, Parse(l) \/ Insert(l) \/ InsertFails(l) \/ Announce(l)
          PROVE  IdleWithoutHandler'
      <4>1. watched
        BY <3>4 DEF Parse, Insert, InsertFails, Announce
      <4>. QED  BY <3>4, <4>1 DEF Parse, Insert, InsertFails, Announce, watcher
    <3>. QED  BY <3>1, <3>2, <3>3, <3>4 DEF Next
  <2>4. TypeOK /\ IdleWithoutHandler /\ PositionInv /\ [Next]_vars => PositionInv'
    BY <2>1, PositionStep
  <2>5. PositionInv => NoLineBehindPosition
    BY DEF PositionInv, NoLineBehindPosition
  <2>. QED  BY <2>2, <2>3, <2>4, <2>5, TypeStep, PTL DEF Spec
<1>. QED  BY <1>1, <1>2
=============================================================================
