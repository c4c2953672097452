---------------------------- MODULE ConsoleProofs ----------------------------
(***************************************************************************)
(* That the parts of the console keep what they promise and their types,   *)
(* for every set of filters, pages, days, sections and networks and any    *)
(* number of tabs, edits, requests and midnights, alone and side by side.  *)
(***************************************************************************)
EXTENDS Console, RequestLogProofs, WellFoundedInduction

-----------------------------------------------------------------------------
(* A tab and its query cache.                                              *)

\* What is kept under a key is the answer to what the key alone tells.
AnswersKey(key, asked) ==
  key[1] \in Panels /\ asked = [x \in QueryFn(key[1]) |-> key[2][x]]

AnswersInv ==
  /\ panel \in Panels \cup {Undefined}
  /\ \A q \in pending : AnswersKey(q.key, q.asked)
  /\ \A k \in DOMAIN cache : AnswersKey(k, cache[k])

-----------------------------------------------------------------------------

\* Every value a request reads is named by its query key.
LEMMA KeyNamesAll == ASSUME NEW p \in Panels PROVE QueryFn(p) \subseteq QueryKey(p)
<1>1. CASE p \in ByUrl
  BY <1>1 DEF ByUrl, QueryKey, QueryFn
<1>2. CASE p \in AnyCountry
  BY <1>2 DEF ByUrl, AnyCountry, QueryKey, QueryFn
<1>3. CASE p \in ByRange
  BY <1>3 DEF ByUrl, AnyCountry, ByRange, QueryKey, QueryFn
<1>4. CASE p \in BySubject
  BY <1>4 DEF ByUrl, AnyCountry, ByRange, BySubject, QueryKey, QueryFn
<1>5. CASE p \in Unfiltered
  BY <1>5 DEF ByUrl, AnyCountry, ByRange, BySubject, Unfiltered, QueryKey, QueryFn
<1>6. CASE p \in {"requests", "security-events", "ip-requests", "ip-sec-events", "ip-status", "ip-mini"}
  BY <1>6 DEF ByUrl, AnyCountry, ByRange, BySubject, QueryKey, QueryFn
<1>. QED  BY <1>1, <1>2, <1>3, <1>4, <1>5, <1>6 DEF Panels

\* So an answer tells what was asked, in whatever state it was asked.
LEMMA AskedByKey == ASSUME NEW p \in Panels PROVE AnswersKey(Key(p), Asked(p))
<1>1. \A x \in QueryFn(p) : Key(p)[2][x] = tab[x]
  BY KeyNamesAll DEF Key
<1>2. [x \in QueryFn(p) |-> tab[x]] = [x \in QueryFn(p) |-> Key(p)[2][x]]
  BY <1>1
<1>. QED  BY <1>2 DEF AnswersKey, Asked, Key

LEMMA AnswersInit == TabInit => AnswersInv
BY DEF TabInit, AnswersInv

LEMMA AnswersNext == AnswersInv /\ [TabNext]_tabVars => AnswersInv'
<1>. SUFFICES ASSUME AnswersInv, [TabNext]_tabVars PROVE AnswersInv'
  OBVIOUS
<1>1. CASE UNCHANGED tabVars
  BY <1>1 DEF AnswersInv, AnswersKey, tabVars
<1>2. ASSUME NEW p \in Panels, NEW h \in HostNames, Open(p, h) PROVE AnswersInv'
  BY <1>2 DEF Open, AnswersInv, AnswersKey
<1>3. CASE FollowLink
  <2>1. "requests" \in Panels
    BY DEF Panels
  <2>. QED  BY <1>3, <2>1 DEF FollowLink, Change, AnswersInv, AnswersKey
<1>4. ASSUME NEW h \in HostNames, OpenSubject(h) PROVE AnswersInv'
  BY <1>4 DEF OpenSubject, Change, AnswersInv, AnswersKey
<1>5. ASSUME NEW c \in OwnFilters, SetOwnFilter(c) PROVE AnswersInv'
  BY <1>5 DEF SetOwnFilter, Change, AnswersInv, AnswersKey
<1>6. ASSUME NEW m \in Modes, ChangeMode(m) PROVE AnswersInv'
  BY <1>6 DEF ChangeMode, Change, AnswersInv, AnswersKey
<1>7. CASE SetFilter \/ RemoveFilter \/ ClearFilters \/ GoToPage \/ TurnOwnPage
  BY <1>7 DEF SetFilter, RemoveFilter, ClearFilters, GoToPage, TurnOwnPage, Change, AnswersInv, AnswersKey
<1>8. CASE OpenDrawer \/ Stage \/ CloseDrawer
  BY <1>8 DEF OpenDrawer, Stage, CloseDrawer, Change, AnswersInv, AnswersKey
<1>9. CASE Fetch
  <2>1. AnswersKey(Key(panel), Asked(panel))
    BY <1>9, AskedByKey DEF Fetch, AnswersInv
  <2>2. \A q \in pending' : AnswersKey(q.key, q.asked)
    BY <1>9, <2>1 DEF Fetch, AnswersInv
  <2>. QED  BY <1>9, <2>2 DEF Fetch, AnswersInv, AnswersKey
<1>10. ASSUME NEW q \in pending, FetchAnswered(q) PROVE AnswersInv'
  <2>1. \A k \in DOMAIN cache' : AnswersKey(k, cache'[k])
    BY <1>10 DEF FetchAnswered, AnswersInv
  <2>. QED  BY <1>10, <2>1 DEF FetchAnswered, AnswersInv, AnswersKey
<1>11. ASSUME NEW q \in pending, FetchFails(q) PROVE AnswersInv'
  BY <1>11 DEF FetchFails, AnswersInv, AnswersKey
<1>. QED
  BY <1>1, <1>2, <1>3, <1>4, <1>5, <1>6, <1>7, <1>8, <1>9, <1>10, <1>11 DEF TabNext

\* A panel that has an answer shows what the URL, the time range and the page ask for now,
\* whatever the user did while answers were under way (useQuery's keys against buildParams).
THEOREM SettledPanelsShowUrl == TabSpec => []SettledShowsUrl
<1>1. AnswersInv => SettledShowsUrl
  <2>. SUFFICES ASSUME AnswersInv, panel # Undefined, Key(panel) \in DOMAIN cache
                PROVE cache[Key(panel)] = Asked(panel)
    BY DEF SettledShowsUrl
  <2>1. panel \in Panels
    BY DEF AnswersInv
  <2>. QED  BY <2>1, AskedByKey DEF AnswersInv, AnswersKey
<1>. QED  BY <1>1, AnswersInit, AnswersNext, PTL DEF TabSpec

TabStates ==
  [mode : Modes, host : HostNames \cup {Undefined}, country : Countries \cup {Undefined},
   page : {1, 2}, subject : HostNames, ownPage : {1, 2}, ownFilter : OwnFilters]
Drawers == [open : BOOLEAN, host : HostNames \cup {Undefined}, country : Countries \cup {Undefined}]

TabTypes ==
  /\ panel \in Panels \cup {Undefined} /\ tab \in TabStates /\ drawer \in Drawers
  /\ drawer.open => panel \in Filtered
  /\ changes \in 0 .. MaxChanges /\ fetches \in 0 .. MaxFetches

LEMMA FilteredPanels == Filtered \subseteq Panels /\ Undefined \notin Filtered /\ "requests" \in Filtered
<1>1. Filtered \subseteq Panels /\ "requests" \in Filtered
  BY DEF Filtered, Panels, ByRange
<1>. QED  BY <1>1, ChoicesExist

LEMMA ClosedTyped == Closed \in Drawers /\ Closed.open = FALSE
BY DEF Closed, Drawers

LEMMA TabTypesInit == TabInit => TabTypes
<1>. SUFFICES ASSUME TabInit PROVE TabTypes
  OBVIOUS
<1>1. (CHOOSE m \in Modes : TRUE) \in Modes /\ (CHOOSE h \in HostNames : TRUE) \in HostNames
  BY ChoicesExist
<1>2. tab \in TabStates
  BY <1>1 DEF TabInit, TabStates, OwnFilters
<1>. QED  BY <1>2, ClosedTyped, ChoicesExist DEF TabInit, TabTypes

LEMMA TabTypesNext == TabTypes /\ [TabNext]_tabVars => TabTypes'
<1>. SUFFICES ASSUME TabTypes, [TabNext]_tabVars PROVE TabTypes'
  OBVIOUS
<1>0. Change => changes' \in 0 .. MaxChanges /\ fetches' = fetches /\ ~drawer.open
  BY ChoicesExist DEF Change, TabTypes
<1>1. CASE UNCHANGED tabVars
  BY <1>1 DEF TabTypes, tabVars
<1>2. ASSUME NEW p \in Panels, NEW h \in HostNames, Open(p, h) PROVE TabTypes'
  <2>1. ~drawer.open
    BY <1>2, FilteredPanels DEF Open, TabTypes
  <2>. QED  BY <1>2, <2>1 DEF Open, TabTypes, TabStates
<1>3. ASSUME NEW h \in HostNames, OpenSubject(h) PROVE TabTypes'
  <2>1. tab' \in TabStates
    BY <1>3 DEF OpenSubject, TabTypes, TabStates, OwnFilters
  <2>. QED  BY <1>0, <1>3, <2>1 DEF OpenSubject, TabTypes
<1>4. ASSUME NEW c \in OwnFilters, SetOwnFilter(c) PROVE TabTypes'
  <2>1. tab' \in TabStates
    BY <1>4 DEF SetOwnFilter, TabTypes, TabStates
  <2>. QED  BY <1>0, <1>4, <2>1 DEF SetOwnFilter, TabTypes
<1>5. ASSUME NEW m \in Modes, ChangeMode(m) PROVE TabTypes'
  <2>1. tab' \in TabStates
    BY <1>5 DEF ChangeMode, TabTypes, TabStates
  <2>. QED  BY <1>0, <1>5, <2>1 DEF ChangeMode, TabTypes
<1>6. CASE FollowLink
  <2>1. tab' \in TabStates
    BY <1>6 DEF FollowLink, TabTypes, TabStates
  <2>. QED  BY <1>0, <1>6, <2>1, FilteredPanels DEF FollowLink, TabTypes
<1>7. ASSUME NEW h \in HostNames \cup {Undefined}, NEW c \in Countries \cup {Undefined}, SetFilters(h, c)
      PROVE  tab' \in TabStates
  BY <1>7 DEF SetFilters, TabTypes, TabStates
<1>8. tab.host \in HostNames \cup {Undefined} /\ tab.country \in Countries \cup {Undefined}
  BY DEF TabTypes, TabStates
<1>9. CASE SetFilter
  <2>1. tab' \in TabStates
    BY <1>7, <1>8, <1>9 DEF SetFilter
  <2>. QED  BY <1>0, <1>9, <2>1 DEF SetFilter, TabTypes
<1>10. CASE RemoveFilter
  <2>1. tab' \in TabStates
    BY <1>7, <1>8, <1>10 DEF RemoveFilter
  <2>. QED  BY <1>0, <1>10, <2>1 DEF RemoveFilter, TabTypes
<1>11. CASE ClearFilters
  <2>1. tab' \in TabStates
    BY <1>7, <1>11 DEF ClearFilters
  <2>. QED  BY <1>0, <1>11, <2>1 DEF ClearFilters, TabTypes
<1>12. CASE GoToPage
  <2>1. tab' \in TabStates
    BY <1>12 DEF GoToPage, TabTypes, TabStates
  <2>. QED  BY <1>0, <1>12, <2>1 DEF GoToPage, TabTypes
<1>13. CASE TurnOwnPage
  <2>1. tab' \in TabStates
    BY <1>13 DEF TurnOwnPage, TabTypes, TabStates
  <2>. QED  BY <1>0, <1>13, <2>1 DEF TurnOwnPage, TabTypes
<1>14. CASE OpenDrawer
  <2>1. drawer' \in Drawers
    BY <1>8, <1>14 DEF OpenDrawer, Drawers
  <2>. QED  BY <1>0, <1>14, <2>1 DEF OpenDrawer, TabTypes
<1>15. CASE Stage
  <2>1. drawer' \in Drawers /\ drawer'.open = drawer.open
    BY <1>15 DEF Stage, TabTypes, Drawers
  <2>. QED  BY <1>15, <2>1 DEF Stage, TabTypes
<1>16. CASE CloseDrawer
  <2>1. drawer.host \in HostNames \cup {Undefined} /\ drawer.country \in Countries \cup {Undefined}
    BY DEF TabTypes, Drawers
  <2>2. tab' \in TabStates
    BY <1>7, <1>16, <2>1 DEF CloseDrawer, TabTypes
  <2>. QED  BY <1>16, <2>2, ClosedTyped DEF CloseDrawer, TabTypes
<1>17. CASE Fetch
  BY <1>17, ChoicesExist DEF Fetch, TabTypes
<1>18. ASSUME NEW q \in pending, FetchAnswered(q) \/ FetchFails(q) PROVE TabTypes'
  BY <1>18 DEF FetchAnswered, FetchFails, TabTypes
<1>. QED
  BY <1>1, <1>2, <1>3, <1>4, <1>5, <1>6, <1>9, <1>10, <1>11, <1>12, <1>13, <1>14, <1>15, <1>16,
     <1>17, <1>18 DEF TabNext

-----------------------------------------------------------------------------
(* The frame.                                                              *)

Pages == {AllNav[i] : i \in DOMAIN AllNav} \cup {"/change-password", "/login"}
Views == {0} \cup {MonthOf[d] : d \in Days}
Palettes == [open : BOOLEAN, query : Queries, selected : -1 .. 8]
Pickers == [open : BOOLEAN, view : Views]

FrameTypes ==
  /\ path \in Pages
  /\ palette \in Palettes
  /\ menu \in BOOLEAN /\ nav \in BOOLEAN /\ today \in Days
  /\ picker \in Pickers

\* The month in view has a day that has come.
SelectionKept == (palette.open /\ Hits # {}) => palette.selected \in 0 .. Cardinality(Hits) - 1
CalendarKept ==
  picker.open => path \notin HideDatePicker /\ \E d \in DaysOf(picker.view) : d <= today
DayHasCome == mode.type = "custom" => mode.date \in Days /\ mode.date <= today

FrameInv == FrameTypes /\ SelectionKept /\ CalendarKept /\ DayHasCome

LEMMA NavLength == Len(AllNav) = 9 /\ DOMAIN AllNav = 1 .. 9
BY DEF AllNav

LEMMA DaysCount == ASSUME NEW d \in Days PROVE d \in Nat /\ MonthOf[d] \in Nat
BY CalendarRuns DEF Days

\* A part of the navigation has at most its pages.
LEMMA PagesCount ==
  ASSUME NEW S, S \subseteq DOMAIN AllNav
  PROVE  Cardinality(S) \in 0 .. 9 /\ (S # {} => Cardinality(S) > 0)
<1>0. 1 \in Int /\ 9 \in Int
  OBVIOUS
<1>1. IsFiniteSet(1 .. 9) /\ Cardinality(1 .. 9) = IF 1 > 9 THEN 0 ELSE 9 - 1 + 1
  BY <1>0, FS_Interval, Zenon
<1>2. Cardinality(1 .. 9) = 9
  BY <1>1
<1>3. IsFiniteSet(S) /\ Cardinality(S) <= 9
  BY <1>1, <1>2, NavLength, FS_Subset
<1>4. Cardinality(S) \in Nat
  BY <1>3, FS_CardinalityType
<1>5. Cardinality(S) = 0 <=> S = {}
  BY <1>3, FS_EmptySet
<1>. QED  BY <1>3, <1>4, <1>5

\* Earlier months have the earlier days.
LEMMA MonthsInOrder ==
  ASSUME NEW d \in Days, NEW e \in Days, MonthOf[d] < MonthOf[e] PROVE d < e
<1>1. e <= d => MonthOf[e] <= MonthOf[d]
  BY CalendarRuns DEF Days
<1>. QED  BY <1>1, DaysCount

\* From a month with a day that has come, the calendar still leads to one that can be chosen.
LEMMA CalendarLeads ==
  ASSUME today \in Days, NEW d \in DaysOf(picker.view), d <= today
  PROVE  (\E e \in DaysOf(picker.view) : ~IsDisabled(e)) \/ CanNext
<1>. DEFINE view == picker.view
<1>1. d \in Days /\ MonthOf[d] = view
  BY DEF DaysOf
<1>2. today \in Nat /\ d \in Nat /\ view \in Nat /\ MonthOf[today] \in Nat
  BY <1>1, DaysCount
<1>3. MonthOf[d] <= MonthOf[today]
  BY <1>1, CalendarRuns DEF Days
<1>4. CASE MonthOf[today] = view
  <2>1. today \in DaysOf(picker.view)
    BY <1>4 DEF DaysOf
  <2>2. ~IsDisabled(today)
    BY <1>2, CalendarRuns DEF IsDisabled, EarliestAllowedDate
  <2>. QED  BY <2>1, <2>2
<1>5. CASE MonthOf[today] > view
  <2>. DEFINE later == {x \in Days : MonthOf[x] > view}
  <2>1. later \subseteq Nat /\ today \in later
    BY <1>5, DaysCount
  <2>2. PICK m \in later : \A x \in later : m <= x
    BY <2>1, LeastExists
  <2>3. m \in Days /\ MonthOf[m] > view /\ m \in Nat /\ MonthOf[m] \in Nat /\ m <= today
    BY <2>1, <2>2, DaysCount
  <2>4. d < m
    BY <1>1, <2>3, MonthsInOrder
  <2>5. m - 1 \in Days
    BY <1>1, <1>2, <2>3, <2>4, CalendarRuns DEF Days
  <2>6. m - 1 \notin later
    BY <2>2, <2>3
  <2>7. MonthOf[m - 1] <= view /\ MonthOf[m - 1] \in Nat
    BY <1>2, <2>5, <2>6, DaysCount
  <2>8. MonthOf[m] <= MonthOf[m - 1] + 1
    <3>1. m = (m - 1) + 1
      BY <2>3
    <3>. QED  BY <2>3, <2>5, <3>1, CalendarRuns DEF Days
  <2>9. MonthOf[m] = view + 1
    BY <1>2, <2>3, <2>7, <2>8
  <2>10. m \in DaysOf(view + 1)
    BY <2>3, <2>9 DEF DaysOf
  <2>11. \A e \in DaysOf(view + 1) : m <= e
    BY <1>2, <2>2 DEF DaysOf
  <2>. QED  BY <2>3, <2>10, <2>11 DEF CanNext
<1>. QED  BY <1>2, <1>1, <1>3, <1>4, <1>5

LEMMA ShutTyped == Shut \in Palettes
<1>1. "" \in Queries
  BY NothingTyped, Zenon DEF Queries
<1>2. \A q \in Queries : [open |-> FALSE, query |-> q, selected |-> 0] \in Palettes
  BY DEF Palettes
<1>. QED  BY <1>1, <1>2, Zenon DEF Shut

LEMMA NoPickerTyped == NoPicker \in Pickers
BY DEF NoPicker, Views, Pickers

LEMMA FrameInvInit == FrameInit => FrameInv
<1>. SUFFICES ASSUME FrameInit PROVE FrameInv
  OBVIOUS
<1>1. FrameTypes
  <2>1. path \in Pages
    BY NavLength DEF FrameInit, Pages, AllNav
  <2>2. palette \in Palettes
    BY ShutTyped DEF FrameInit
  <2>3. picker \in Pickers
    BY NoPickerTyped DEF FrameInit
  <2>. QED  BY <2>1, <2>2, <2>3, CalendarRuns DEF FrameInit, FrameTypes, Days
<1>. QED
  BY <1>1 DEF FrameInit, FrameInv, SelectionKept, CalendarKept, DayHasCome, Shut, NoPicker, PresetRange

\* What the palette lists depends on its query alone.
LEMMA SameHits == palette'.query = palette.query => Hits' = Hits
BY DEF Hits

LEMMA PaletteStep ==
  ASSUME FrameInv, UNCHANGED <<path, picker, mode, today>>, menu' \in BOOLEAN, nav' \in BOOLEAN,
         palette' \in Palettes,
         SelectionKept'
  PROVE  FrameInv'
BY DEF FrameInv, FrameTypes, CalendarKept, DayHasCome, DaysOf, Days

LEMMA ShowStep ==
  ASSUME FrameInv, NEW p \in Pages, Show(p), UNCHANGED <<mode, today>>, nav' \in BOOLEAN,
         \/ UNCHANGED palette
         \/ palette' = [palette EXCEPT !.open = FALSE]
  PROVE  FrameInv'
<1>1. FrameTypes'
  <2>1. palette' \in Palettes
    BY DEF FrameInv, FrameTypes, Palettes
  <2>. QED  BY <2>1, NoPickerTyped DEF Show, FrameInv, FrameTypes, Days
<1>2. SelectionKept'
  <2>1. CASE UNCHANGED palette
    BY <2>1 DEF FrameInv, SelectionKept, Hits
  <2>2. CASE palette' = [palette EXCEPT !.open = FALSE]
    BY <2>2 DEF FrameInv, FrameTypes, SelectionKept
  <2>. QED  BY <2>1, <2>2
<1>3. CalendarKept' /\ DayHasCome'
  BY DEF Show, FrameInv, CalendarKept, DayHasCome, NoPicker, Days
<1>. QED  BY <1>1, <1>2, <1>3 DEF FrameInv

\* The calendar is shut, or opened.
LEMMA PickerStep ==
  ASSUME FrameInv, UNCHANGED <<path, palette, nav, today>>, menu' \in BOOLEAN,
         \/ picker' = NoPicker
         \/ /\ picker' \in Pickers
            /\ path \notin HideDatePicker /\ \E d \in DaysOf(picker'.view) : d <= today,
         DayHasCome'
  PROVE  FrameInv'
<1>1. FrameTypes'
  <2>1. picker' \in Pickers
    BY NoPickerTyped
  <2>. QED  BY <2>1 DEF FrameInv, FrameTypes, Days
<1>2. SelectionKept'
  BY DEF FrameInv, SelectionKept, Hits
<1>3. CalendarKept'
  BY DEF FrameInv, CalendarKept, NoPicker, DaysOf, Days
<1>. QED  BY <1>1, <1>2, <1>3 DEF FrameInv

LEMMA TurnMonthKeeps == FrameInv /\ TurnMonth => FrameInv'
<1>. SUFFICES ASSUME FrameInv, TurnMonth PROVE FrameInv'
  OBVIOUS
<1>1. path \notin HideDatePicker /\ today \in Nat
  BY DaysCount DEF TurnMonth, FrameInv, FrameTypes, CalendarKept
<1>2. PICK d \in DaysOf(picker.view) : d <= today
  BY DEF TurnMonth, FrameInv, CalendarKept
<1>3. d \in Days /\ MonthOf[d] = picker.view /\ d \in Nat /\ picker.view \in Nat
  BY DaysCount DEF DaysOf
<1>4. \E v : /\ picker' = [picker EXCEPT !.view = v]
             /\ \E e \in DaysOf(v) : e <= today
  <2>1. CASE CanPrev /\ picker' = [picker EXCEPT !.view = @ - 1]
    <3>1. PICK e \in DaysOf(picker.view - 1) : TRUE
      BY <2>1 DEF CanPrev
    <3>2. e \in Days /\ MonthOf[e] < MonthOf[d] /\ e \in Nat
      BY <1>3, <3>1, DaysCount DEF DaysOf
    <3>3. e < d
      BY <1>3, <3>2, MonthsInOrder
    <3>4. e <= today
      BY <1>1, <1>2, <1>3, <3>2, <3>3
    <3>. QED  BY <2>1, <3>4
  <2>2. CASE CanNext /\ picker' = [picker EXCEPT !.view = @ + 1]
    BY <2>2 DEF CanNext
  <2>. QED  BY <2>1, <2>2 DEF TurnMonth
<1>5. PICK v : picker' = [picker EXCEPT !.view = v] /\ \E e \in DaysOf(v) : e <= today
  BY <1>4
<1>6. picker \in Pickers
  BY DEF FrameInv, FrameTypes
<1>7. picker'.view = v /\ picker' \in Pickers
  <2>1. v \in Views
    BY <1>5 DEF DaysOf, Views
  <2>. QED  BY <1>5, <1>6, <2>1 DEF Pickers
<1>8. UNCHANGED <<path, palette, menu, nav, mode, today>>
  BY DEF TurnMonth
<1>9. menu' \in BOOLEAN /\ DayHasCome'
  BY <1>8 DEF FrameInv, FrameTypes, DayHasCome, Days
<1>. QED  BY <1>1, <1>5, <1>7, <1>8, <1>9, PickerStep

LEMMA PaletteKeeps ==
  FrameInv /\ (OpenPalette \/ Shortcut \/ Arrow \/ Escape
                 \/ (\E q \in Queries : Type(q)) \/ \E i \in 0 .. Len(AllNav) - 1 : Hover(i))
    => FrameInv'
<1>. USE NavLength
<1>. SUFFICES ASSUME FrameInv PROVE
       (OpenPalette \/ Shortcut \/ Arrow \/ Escape
          \/ (\E q \in Queries : Type(q)) \/ \E i \in 0 .. Len(AllNav) - 1 : Hover(i)) => FrameInv'
  OBVIOUS
<1>0. /\ palette \in Palettes
      /\ menu \in BOOLEAN /\ nav \in BOOLEAN
      /\ SelectionKept
  BY DEF FrameInv, FrameTypes
<1>1. /\ Cardinality(Hits)' \in 0 .. 9
      /\ Hits' # {} => Cardinality(Hits)' > 0
  BY PagesCount DEF Hits
<1>2. Shut \in Palettes
  BY ShutTyped
<1>3. palette'.selected = 0 => SelectionKept'
  BY <1>1 DEF SelectionKept
<1>4. ASSUME OpenPalette PROVE FrameInv'
  <2>0. Shut.selected = 0
    BY Zenon DEF Shut
  <2>1. /\ palette' \in Palettes
        /\ palette'.selected = 0
    BY <1>2, <1>4, <2>0 DEF OpenPalette, Palettes
  <2>2. FrameTypes'
    BY <1>0, <1>4, <2>1, NoPickerTyped DEF OpenPalette, FrameInv, FrameTypes, Days
  <2>3. CalendarKept' /\ DayHasCome'
    BY <1>4 DEF OpenPalette, FrameInv, CalendarKept, DayHasCome, NoPicker, Days
  <2>. QED  BY <1>3, <2>1, <2>2, <2>3 DEF FrameInv
<1>5. ASSUME Shortcut PROVE FrameInv'
  <2>1. /\ palette' \in Palettes
        /\ palette'.open = FALSE \/ palette'.selected = 0
    <3>1. Shut.selected = 0
      BY Zenon DEF Shut
    <3>. QED  BY <1>0, <1>2, <1>5, <3>1 DEF Shortcut, Palettes
  <2>2. SelectionKept'
    BY <1>3, <2>1 DEF SelectionKept
  <2>3. menu' \in BOOLEAN /\ nav' \in BOOLEAN /\ UNCHANGED <<path, picker, mode, today>>
    BY <1>0, <1>5 DEF Shortcut
  <2>. QED  BY <2>1, <2>2, <2>3, PaletteStep
<1>6. ASSUME Arrow PROVE FrameInv'
  <2>0. palette'.query = palette.query /\ palette.open
    BY <1>0, <1>6 DEF Arrow, Palettes
  <2>1. Hits' = Hits
    BY <2>0, SameHits
  <2>2. palette.selected \in -1 .. 8 /\ Cardinality(Hits) \in 0 .. 9
    BY <1>0, <1>1, <2>1 DEF Palettes
  <2>3. CASE palette' = [palette EXCEPT !.selected = Smaller(palette.selected + 1, Cardinality(Hits) - 1)]
    <3>1. palette'.selected = Smaller(palette.selected + 1, Cardinality(Hits) - 1)
      BY <1>0, <2>3
    <3>2. Smaller(palette.selected + 1, Cardinality(Hits) - 1) \in -1 .. 8
      BY <2>2 DEF Smaller
    <3>3. palette' \in Palettes
      BY <1>0, <2>3, <3>2 DEF Palettes
    <3>4. SelectionKept'
      BY <1>0, <2>0, <2>1, <2>2, <3>1 DEF SelectionKept, Smaller
    <3>. QED  BY <1>0, <1>6, <3>3, <3>4, PaletteStep DEF Arrow
  <2>4. CASE palette' = [palette EXCEPT !.selected = Greater(palette.selected - 1, 0)]
    <3>1. palette'.selected = Greater(palette.selected - 1, 0)
      BY <1>0, <2>4
    <3>2. Greater(palette.selected - 1, 0) \in 0 .. 8
      BY <2>2 DEF Greater
    <3>3. palette' \in Palettes
      BY <1>0, <2>4, <3>2 DEF Palettes
    <3>4. SelectionKept'
      BY <1>0, <1>1, <2>0, <2>1, <2>2, <3>1 DEF SelectionKept, Greater
    <3>. QED  BY <1>0, <1>6, <3>3, <3>4, PaletteStep DEF Arrow
  <2>. QED  BY <1>6, <2>3, <2>4 DEF Arrow
<1>7. ASSUME Escape PROVE FrameInv'
  <2>1. /\ palette' \in Palettes
        /\ palette'.open = FALSE
    BY <1>0, <1>7 DEF Escape, Palettes
  <2>2. SelectionKept'
    BY <2>1 DEF SelectionKept
  <2>3. menu' \in BOOLEAN /\ nav' \in BOOLEAN /\ UNCHANGED <<path, picker, mode, today>>
    BY <1>0, <1>7 DEF Escape
  <2>. QED  BY <2>1, <2>2, <2>3, PaletteStep
<1>8. ASSUME NEW q \in Queries, Type(q) PROVE FrameInv'
  <2>1. palette' \in Palettes
    <3>1. CASE q = palette.query
      BY <1>0, <1>8, <3>1 DEF Type, Palettes
    <3>2. CASE q # palette.query
      <4>. DEFINE typed == [palette EXCEPT !.query = q]
      <4>1. typed \in Palettes
        BY <1>0 DEF Palettes
      <4>2. palette' = [typed EXCEPT !.selected = 0]
        BY <1>8, <3>2 DEF Type
      <4>. HIDE DEF typed
      <4>. QED  BY <4>1, <4>2 DEF Palettes
    <3>. QED  BY <3>1, <3>2
  <2>2. SelectionKept'
    <3>1. CASE q = palette.query
      <4>1. palette' = palette
        BY <1>0, <1>8, <3>1 DEF Type, Palettes
      <4>. QED  BY <1>0, <4>1 DEF SelectionKept, Hits
    <3>2. CASE q # palette.query
      BY <1>0, <1>3, <1>8, <3>2 DEF Type
    <3>. QED  BY <3>1, <3>2
  <2>. QED  BY <1>0, <1>8, <2>1, <2>2, PaletteStep DEF Type
<1>9. ASSUME NEW i \in 0 .. Len(AllNav) - 1, Hover(i) PROVE FrameInv'
  <2>1. /\ palette' \in Palettes
        /\ palette'.query = palette.query /\ palette'.selected = i
    BY <1>0, <1>9 DEF Hover, Palettes
  <2>2. SelectionKept'
    BY <1>9, <2>1, SameHits DEF SelectionKept, Hover
  <2>. QED  BY <1>0, <1>9, <2>1, <2>2, PaletteStep DEF Hover
<1>. QED  BY <1>4, <1>5, <1>6, <1>7, <1>8, <1>9

LEMMA NavigationKeeps ==
  FrameInv /\ (Enter \/ OpenNav \/ LeaveNav \/ ToggleMenu \/ PickFromMenu \/ SignOut
                 \/ \E i \in DOMAIN AllNav : Navigate(AllNav[i]))
    => FrameInv'
<1>. SUFFICES ASSUME FrameInv PROVE
       (Enter \/ OpenNav \/ LeaveNav \/ ToggleMenu \/ PickFromMenu \/ SignOut
          \/ \E i \in DOMAIN AllNav : Navigate(AllNav[i])) => FrameInv'
  OBVIOUS
<1>0. /\ nav \in BOOLEAN /\ menu \in BOOLEAN /\ DayHasCome
      /\ \A i \in DOMAIN AllNav : AllNav[i] \in Pages
      /\ {"/settings", "/change-password", "/login"} \subseteq Pages
  BY NavLength DEF FrameInv, FrameTypes, Pages, AllNav
<1>1. ASSUME Enter PROVE FrameInv'
  <2>1. PICK i \in Hits : Show(AllNav[i])
    BY <1>1 DEF Enter
  <2>. QED  BY <1>0, <1>1, <2>1, ShowStep DEF Enter, Hits
<1>2. ASSUME OpenNav PROVE FrameInv'
  <2>1. FrameTypes'
    BY <1>2, NoPickerTyped DEF OpenNav, FrameInv, FrameTypes, Days
  <2>2. SelectionKept' /\ CalendarKept' /\ DayHasCome'
    BY <1>2 DEF OpenNav, FrameInv, SelectionKept, CalendarKept, DayHasCome, NoPicker, Hits, Days
  <2>. QED  BY <2>1, <2>2 DEF FrameInv
<1>3. ASSUME LeaveNav PROVE FrameInv'
  <2>1. CASE UNCHANGED <<path, picker, menu>>
    BY <1>0, <1>3, <2>1
       DEF LeaveNav, FrameInv, FrameTypes, SelectionKept, CalendarKept, DayHasCome, Hits, DaysOf, Days
  <2>2. ASSUME NEW i \in DOMAIN AllNav, Show(AllNav[i]) PROVE FrameInv'
    BY <1>0, <1>3, <2>2, ShowStep DEF LeaveNav
  <2>. QED  BY <1>3, <2>1, <2>2 DEF LeaveNav
<1>4. ASSUME ToggleMenu PROVE FrameInv'
  <2>1. menu' \in BOOLEAN /\ DayHasCome'
    BY <1>0, <1>4 DEF ToggleMenu, DayHasCome, Days
  <2>. QED  BY <1>4, <2>1, PickerStep DEF ToggleMenu
<1>5. ASSUME PickFromMenu PROVE FrameInv'
  BY <1>0, <1>5, ShowStep DEF PickFromMenu
<1>6. ASSUME SignOut PROVE FrameInv'
  BY <1>0, <1>6, ShowStep DEF SignOut
<1>7. ASSUME NEW i \in DOMAIN AllNav, Navigate(AllNav[i]) PROVE FrameInv'
  BY <1>0, <1>7, ShowStep DEF Navigate
<1>. QED  BY <1>1, <1>2, <1>3, <1>4, <1>5, <1>6, <1>7

LEMMA RangeKeeps ==
  FrameInv /\ (ClearDay \/ TogglePicker \/ Midnight
                 \/ (\E p \in RangePresets : PickPreset(p)) \/ \E day \in Days : PickDay(day))
    => FrameInv'
<1>. SUFFICES ASSUME FrameInv PROVE
       (ClearDay \/ TogglePicker \/ Midnight
          \/ (\E p \in RangePresets : PickPreset(p)) \/ \E day \in Days : PickDay(day)) => FrameInv'
  OBVIOUS
<1>0. menu \in BOOLEAN /\ DayHasCome /\ today \in Days /\ today \in Nat
  BY DaysCount DEF FrameInv, FrameTypes
<1>1. ASSUME ClearDay PROVE FrameInv'
  <2>1. menu' \in BOOLEAN /\ DayHasCome'
    BY <1>1 DEF ClearDay, DayHasCome, PresetRange
  <2>. QED  BY <1>1, <2>1, PickerStep DEF ClearDay
<1>2. ASSUME TogglePicker PROVE FrameInv'
  <2>1. menu' \in BOOLEAN /\ DayHasCome'
    BY <1>0, <1>2 DEF TogglePicker, DayHasCome, Days
  <2>2. \/ picker' = NoPicker
        \/ /\ picker' \in Pickers
           /\ path \notin HideDatePicker /\ \E d \in DaysOf(picker'.view) : d <= today
    <3>1. CASE picker' = [open |-> TRUE, view |-> MonthOf[today]]
      <4>1. today \in DaysOf(picker'.view) /\ today <= today
        BY <1>0, <3>1 DEF DaysOf
      <4>2. picker' \in Pickers
        BY <1>0, <3>1 DEF Views, Pickers
      <4>. QED  BY <1>2, <4>1, <4>2 DEF TogglePicker, ShowsDatePicker
    <3>. QED  BY <1>2, <3>1 DEF TogglePicker
  <2>. QED  BY <1>2, <2>1, <2>2, PickerStep DEF TogglePicker
<1>3. ASSUME Midnight PROVE FrameInv'
  <2>1. today' = today + 1 /\ today' \in Days
    BY <1>3 DEF Midnight, Days
  <2>2. FrameTypes' /\ SelectionKept'
    BY <1>3, <2>1 DEF Midnight, FrameInv, FrameTypes, SelectionKept, Hits, Days
  <2>3. CalendarKept'
    <3>1. SUFFICES ASSUME picker.open
                   PROVE  path \notin HideDatePicker /\ \E d \in DaysOf(picker.view) : d <= today + 1
      BY <1>3, <2>1 DEF Midnight, CalendarKept, DaysOf, Days
    <3>2. PICK d \in DaysOf(picker.view) : d <= today
      BY <3>1 DEF FrameInv, CalendarKept
    <3>3. d <= today + 1
      BY <1>0, <3>2, DaysCount DEF DaysOf
    <3>. QED  BY <3>1, <3>3 DEF FrameInv, CalendarKept
  <2>4. DayHasCome'
    BY <1>0, <1>3, <2>1, DaysCount DEF Midnight, DayHasCome, Days
  <2>. QED  BY <2>2, <2>3, <2>4 DEF FrameInv
<1>4. ASSUME NEW p \in RangePresets, PickPreset(p) PROVE FrameInv'
  <2>1. menu' \in BOOLEAN /\ DayHasCome'
    BY <1>4 DEF PickPreset, DayHasCome, PresetRange
  <2>. QED  BY <1>4, <2>1, PickerStep DEF PickPreset
<1>5. ASSUME NEW day \in Days, PickDay(day) PROVE FrameInv'
  <2>1. day <= today
    BY <1>0, <1>5, DaysCount DEF PickDay, IsDisabled
  <2>2. menu' \in BOOLEAN /\ DayHasCome'
    BY <1>0, <1>5, <2>1 DEF PickDay, DayHasCome, Days
  <2>. QED  BY <1>5, <2>2, PickerStep DEF PickDay
<1>. QED  BY <1>1, <1>2, <1>3, <1>4, <1>5

LEMMA FrameInvNext == FrameInv /\ [FrameNext]_frameVars => FrameInv'
<1>1. FrameInv /\ UNCHANGED frameVars => FrameInv'
  BY DEF frameVars, FrameInv, FrameTypes, SelectionKept, CalendarKept, DayHasCome, Hits, DaysOf, Days
<1>. QED  BY <1>1, PaletteKeeps, NavigationKeeps, RangeKeeps, TurnMonthKeeps DEF FrameNext

\* The selection of the palette stays in its list, and the calendar never leads where no
\* day can be chosen, whatever is typed, clicked and passed of midnights (CommandPalette.tsx,
\* DatePicker.tsx, Layout.tsx).
THEOREM SelectionHolds == FrameSpec => []ShellKeepsSelection
<1>1. FrameInv => ShellKeepsSelection
  <2>. SUFFICES ASSUME FrameInv PROVE ShellKeepsSelection
    OBVIOUS
  <2>1. today \in Days
    BY DEF FrameInv, FrameTypes
  <2>2. picker.open => (\E d \in DaysOf(picker.view) : ~IsDisabled(d)) \/ CanNext
    <3>. SUFFICES ASSUME picker.open PROVE (\E d \in DaysOf(picker.view) : ~IsDisabled(d)) \/ CanNext
      OBVIOUS
    <3>1. PICK d \in DaysOf(picker.view) : d <= today
      BY DEF FrameInv, CalendarKept
    <3>. QED  BY <2>1, <3>1, CalendarLeads
  <2>. QED  BY <2>2 DEF FrameInv, SelectionKept, CalendarKept, DayHasCome, ShellKeepsSelection
<1>. QED  BY <1>1, FrameInvInit, FrameInvNext, PTL DEF FrameSpec

-----------------------------------------------------------------------------
(* The settings page.                                                      *)

\* What may change although the user left it alone, and a value that is no change.
Free(k) == k \in touched \cup overtaken \/ SectionOf(k) \in blind
NoChange(v, k) == v = Shown(settings, k) \/ Free(k)

FormTypes ==
  /\ settings \in Tables /\ stored \in Tables \cup {Unset}
  /\ DOMAIN draft = Sections
  /\ \A s \in Sections : draft[s] # Unset => draft[s] \in [KeyOf[s] -> FieldValues]
  /\ patch # Unset => DOMAIN patch \subseteq Keys /\ \A k \in DOMAIN patch : patch[k] \in FieldValues
  /\ touched \subseteq Keys /\ blind \subseteq Sections /\ overtaken \subseteq Keys

\* The same after the step.
NoChangeThen(v, k) == v = Shown(settings', k) \/ Free(k)'

DraftsFresh == \A s \in Sections, k \in Keys :
                 (draft[s] # Unset /\ k \in KeyOf[s]) => NoChange(draft[s][k], k)
PatchFresh == \A k \in Keys : (patch # Unset /\ k \in DOMAIN patch) => NoChange(patch[k], k)
AnswerFresh == \A k \in Keys : stored # Unset => NoChange(Shown(stored, k), k)

FormInv == FormTypes /\ DraftsFresh /\ PatchFresh /\ AnswerFresh

LEMMA FreshThen ==
  /\ (\A s \in Sections, k \in Keys :
        (draft'[s] # Unset /\ k \in KeyOf[s]) => NoChangeThen(draft'[s][k], k)) => DraftsFresh'
  /\ (\A k \in Keys : (patch' # Unset /\ k \in DOMAIN patch') => NoChangeThen(patch'[k], k))
       => PatchFresh'
  /\ (\A k \in Keys : stored' # Unset => NoChangeThen(Shown(stored', k), k)) => AnswerFresh'
BY DEF NoChangeThen, NoChange, DraftsFresh, PatchFresh, AnswerFresh, Shown

\* A key has one section.
LEMMA KeyHasSection ==
  /\ \A k \in Keys : SectionOf(k) \in Sections /\ k \in KeyOf[SectionOf(k)]
  /\ \A s \in Sections : \A k \in KeyOf[s] : k \in Keys /\ SectionOf(k) = s
<1>1. \A s \in Sections : \A k \in KeyOf[s] : k \in Keys
  BY DEF Keys
<1>2. ASSUME NEW k \in Keys PROVE SectionOf(k) \in Sections /\ k \in KeyOf[SectionOf(k)]
  <2>1. \E s \in Sections : k \in KeyOf[s]
    BY DEF Keys
  <2>. QED  BY <2>1 DEF SectionOf
<1>3. ASSUME NEW s \in Sections, NEW k \in KeyOf[s] PROVE SectionOf(k) = s
  <2>1. SectionOf(k) \in Sections /\ k \in KeyOf[SectionOf(k)]
    BY <1>1, <1>2
  <2>2. KeyOf[s] \cap KeyOf[SectionOf(k)] # {}
    BY <2>1
  <2>. QED  BY <2>1, <2>2, SectionsApart
<1>. QED  BY <1>1, <1>2, <1>3

\* Unset is neither a table nor a draft, and what is shown of a table is a value.
LEMMA UnsetApart ==
  /\ Unset \notin Tables
  /\ \A s \in Sections : Unset \notin [KeyOf[s] -> FieldValues]
  /\ \A v \in FieldValues : v # Unset
BY SectionsApart DEF Tables, Keys

LEMMA ShownIsValue ==
  ASSUME NEW t \in Tables \cup {Unset}, NEW k \in Keys PROVE Shown(t, k) \in FieldValues
<1>1. Default[k] \in FieldValues
  BY SectionsApart DEF Keys
<1>. QED  BY <1>1 DEF Shown, Tables

\* Storing one key changes what is shown of no other.
LEMMA ShownExcept ==
  ASSUME NEW t \in Tables, NEW k \in Keys, NEW v \in FieldValues
  PROVE  /\ [t EXCEPT ![k] = v] \in Tables
         /\ Shown([t EXCEPT ![k] = v], k) = v
         /\ \A j \in Keys : j # k => Shown([t EXCEPT ![k] = v], j) = Shown(t, j)
<1>. DEFINE u == [t EXCEPT ![k] = v]
<1>1. u \in Tables /\ u[k] = v /\ \A j \in Keys : j # k => u[j] = t[j]
  BY DEF Tables
<1>2. u # Unset /\ t # Unset /\ v # Unset
  BY <1>1, UnsetApart
<1>. HIDE DEF u
<1>3. Shown(u, k) = v /\ \A j \in Keys : j # k => Shown(u, j) = Shown(t, j)
  BY <1>1, <1>2 DEF Shown
<1>. QED  BY <1>1, <1>3 DEF u

\* What a section shows are values of its fields; those the user left alone are stored so.
LEMMA ValsTyped ==
  ASSUME FormTypes, NEW s \in Sections PROVE Vals(s) \in [KeyOf[s] -> FieldValues]
<1>1. \A k \in KeyOf[s] : Shown(stored, k) \in FieldValues
  BY ShownIsValue, KeyHasSection DEF FormTypes
<1>. QED  BY <1>1 DEF FormTypes, Vals

LEMMA ValsFresh ==
  ASSUME FormInv, NEW s \in Sections, NEW k \in KeyOf[s], draft[s] # Unset \/ stored # Unset
  PROVE  NoChange(Vals(s)[k], k)
<1>1. k \in Keys
  BY KeyHasSection
<1>2. CASE draft[s] # Unset
  BY <1>1, <1>2 DEF FormInv, DraftsFresh, Vals
<1>3. CASE draft[s] = Unset
  <2>1. Vals(s)[k] = Shown(stored, k)
    BY <1>3 DEF Vals
  <2>. QED  BY <1>1, <1>3, <2>1 DEF FormInv, AnswerFresh
<1>. QED  BY <1>2, <1>3

LEMMA FormInvInit == FormInit => FormInv
<1>. SUFFICES ASSUME FormInit PROVE FormInv
  OBVIOUS
<1>1. settings \in Tables
  BY DEF FormInit, Tables
<1>. QED
  BY <1>1 DEF FormInit, FormInv, FormTypes, DraftsFresh, PatchFresh, AnswerFresh

LEMMA EditKeeps ==
  ASSUME FormInv, NEW k \in Keys, NEW v \in FieldValues, Edit(k, v) PROVE FormInv'
<1>. DEFINE s == SectionOf(k)
            vals == Vals(s)
<1>1. s \in Sections /\ k \in KeyOf[s]
  BY KeyHasSection
<1>2. /\ draft' = [draft EXCEPT ![s] = [vals EXCEPT ![k] = v]]
      /\ touched' = touched \cup {k}
      /\ blind' = IF stored = Unset /\ draft[s] = Unset THEN blind \cup {s} ELSE blind
      /\ UNCHANGED <<settings, stored, patch, overtaken>>
  BY DEF Edit
<1>3. vals \in [KeyOf[s] -> FieldValues]
  BY <1>1, ValsTyped DEF FormInv
<1>4. \A j \in KeyOf[s] : j # k => NoChange(vals[j], j) \/ s \in blind'
  BY <1>1, <1>2, ValsFresh
<1>5. \A j \in KeyOf[s] : SectionOf(j) = s
  BY <1>1, KeyHasSection
<1>. HIDE DEF s, vals
<1>6. DOMAIN draft = Sections
  BY DEF FormInv, FormTypes
<1>7. \A r \in Sections : draft'[r] = IF r = s THEN [vals EXCEPT ![k] = v] ELSE draft[r]
  BY <1>1, <1>2, <1>6
<1>8. \A x : \A j \in Keys : NoChange(x, j) => NoChangeThen(x, j)
  BY <1>2 DEF NoChange, NoChangeThen, Free, Shown
<1>9. FormTypes'
  <2>1. [vals EXCEPT ![k] = v] \in [KeyOf[s] -> FieldValues]
    BY <1>3
  <2>. QED  BY <1>1, <1>2, <1>6, <1>7, <2>1 DEF FormInv, FormTypes
<1>10. DraftsFresh'
  <2>. SUFFICES ASSUME NEW r \in Sections, NEW j \in Keys, draft'[r] # Unset, j \in KeyOf[r]
                PROVE  NoChangeThen(draft'[r][j], j)
    BY FreshThen
  <2>1. CASE r # s
    <3>1. NoChange(draft[r][j], j)
      BY <1>7, <2>1 DEF FormInv, DraftsFresh
    <3>. QED  BY <1>7, <1>8, <2>1, <3>1
  <2>2. CASE r = s /\ j = k
    BY <1>2, <2>2 DEF NoChangeThen, Free
  <2>3. CASE r = s /\ j # k
    <3>1. draft'[r][j] = vals[j]
      BY <1>3, <1>7, <2>3
    <3>2. NoChange(vals[j], j) \/ SectionOf(j) \in blind'
      BY <1>4, <1>5, <2>3
    <3>3. SectionOf(j) \in blind' => NoChangeThen(vals[j], j)
      BY DEF NoChangeThen, Free
    <3>. QED  BY <1>8, <3>1, <3>2, <3>3
  <2>. QED  BY <2>1, <2>2, <2>3
<1>11. PatchFresh' /\ AnswerFresh'
  <2>1. \A j \in Keys : (patch' # Unset /\ j \in DOMAIN patch') => NoChangeThen(patch'[j], j)
    BY <1>2, <1>8 DEF FormInv, PatchFresh
  <2>2. \A j \in Keys : stored' # Unset => NoChangeThen(Shown(stored', j), j)
    BY <1>2, <1>8 DEF FormInv, AnswerFresh, Shown
  <2>. QED  BY <2>1, <2>2, FreshThen
<1>. QED  BY <1>9, <1>10, <1>11 DEF FormInv

LEMMA SaveKeeps == ASSUME FormInv, NEW s \in Sections, Save(s) PROVE FormInv'
<1>. DEFINE vals == Vals(s)
<1>1. /\ patch' = vals
      /\ blind' = IF stored = Unset THEN blind \cup {s} ELSE blind
      /\ UNCHANGED <<settings, stored, draft, touched, overtaken>>
  BY DEF Save
<1>2. vals \in [KeyOf[s] -> FieldValues]
  BY ValsTyped DEF FormInv
<1>3. \A j \in KeyOf[s] : NoChange(vals[j], j) \/ s \in blind'
  BY <1>1, ValsFresh
<1>4. \A j \in KeyOf[s] : j \in Keys /\ SectionOf(j) = s
  BY KeyHasSection
<1>. HIDE DEF vals
<1>5. \A x : \A j \in Keys : NoChange(x, j) => NoChangeThen(x, j)
  BY <1>1 DEF NoChange, NoChangeThen, Free, Shown
<1>6. FormTypes'
  BY <1>1, <1>2, <1>4 DEF FormInv, FormTypes
<1>7. PatchFresh'
  <2>1. \A j \in KeyOf[s] : s \in blind' => NoChangeThen(vals[j], j)
    BY <1>4 DEF NoChangeThen, Free
  <2>2. \A j \in KeyOf[s] : NoChangeThen(vals[j], j)
    BY <1>3, <1>4, <1>5, <2>1
  <2>3. DOMAIN vals = KeyOf[s]
    BY <1>2
  <2>. QED  BY <1>1, <2>2, <2>3, FreshThen
<1>8. DraftsFresh' /\ AnswerFresh'
  <2>1. \A r \in Sections, j \in Keys :
          (draft'[r] # Unset /\ j \in KeyOf[r]) => NoChangeThen(draft'[r][j], j)
    BY <1>1, <1>5 DEF FormInv, DraftsFresh
  <2>2. \A j \in Keys : stored' # Unset => NoChangeThen(Shown(stored', j), j)
    BY <1>1, <1>5 DEF FormInv, AnswerFresh, Shown
  <2>. QED  BY <2>1, <2>2, FreshThen
<1>. QED  BY <1>6, <1>7, <1>8 DEF FormInv

\* A table that is shown as before wherever it is not free keeps everything fresh.
LEMMA StoreKeeps ==
  ASSUME FormInv, NEW k \in Keys, NEW v \in FieldValues, settings' = [settings EXCEPT ![k] = v],
         NoChange(v, k) \/ k \in overtaken',
         overtaken \subseteq overtaken', overtaken' \subseteq Keys,
         UNCHANGED <<stored, draft, touched, blind>>,
         patch' = patch \/ (patch # Unset /\ patch' = Remaining(k))
  PROVE  FormInv' /\ \A j \in Keys : Shown(settings', j) # Shown(settings, j) =>
                                       j \in touched \cup overtaken' \/ SectionOf(j) \in blind
<1>1. /\ settings' \in Tables /\ Shown(settings', k) = v
      /\ \A j \in Keys : j # k => Shown(settings', j) = Shown(settings, j)
  BY ShownExcept DEF FormInv, FormTypes
<1>2. \A j \in Keys : Shown(settings', j) = Shown(settings, j) \/ Free(j)'
  BY <1>1 DEF NoChange, Free
<1>3. \A x : \A j \in Keys : NoChange(x, j) => NoChangeThen(x, j)
  <2>1. \A j \in Keys : Free(j) => Free(j)'
    BY DEF Free
  <2>. QED  BY <1>2, <2>1 DEF NoChange, NoChangeThen
<1>4. patch' # Unset => /\ patch # Unset /\ DOMAIN patch' \subseteq DOMAIN patch
                         /\ \A j \in DOMAIN patch' : patch'[j] = patch[j]
  BY DEF Remaining
<1>5. FormTypes'
  <2>1. patch' # Unset => DOMAIN patch' \subseteq Keys /\ \A j \in DOMAIN patch' : patch'[j] \in FieldValues
    BY <1>4 DEF FormInv, FormTypes
  <2>. QED  BY <1>1, <2>1 DEF FormInv, FormTypes
<1>6. DraftsFresh' /\ AnswerFresh'
  <2>1. \A r \in Sections, j \in Keys :
          (draft'[r] # Unset /\ j \in KeyOf[r]) => NoChangeThen(draft'[r][j], j)
    BY <1>3 DEF FormInv, DraftsFresh
  <2>2. \A j \in Keys : stored' # Unset => NoChangeThen(Shown(stored', j), j)
    BY <1>3 DEF FormInv, AnswerFresh, Shown
  <2>. QED  BY <2>1, <2>2, FreshThen
<1>7. PatchFresh'
  <2>1. \A j \in Keys : (patch' # Unset /\ j \in DOMAIN patch') => NoChangeThen(patch'[j], j)
    BY <1>3, <1>4 DEF FormInv, PatchFresh
  <2>. QED  BY <2>1, FreshThen
<1>. QED  BY <1>2, <1>5, <1>6, <1>7 DEF FormInv, Free

LEMMA LoadKeeps == ASSUME FormInv, Load PROVE FormInv'
<1>1. /\ stored' = settings
      /\ overtaken' = {k \in overtaken : draft[SectionOf(k)] # Unset
                                           \/ (patch # Unset /\ k \in DOMAIN patch)}
      /\ UNCHANGED <<settings, draft, patch, touched, blind>>
  BY DEF Load
<1>2. FormTypes' /\ AnswerFresh'
  BY <1>1 DEF FormInv, FormTypes, AnswerFresh, NoChange, Shown
<1>3. DraftsFresh'
  <2>. SUFFICES ASSUME NEW s \in Sections, NEW k \in Keys, draft[s] # Unset, k \in KeyOf[s]
                PROVE  NoChangeThen(draft[s][k], k)
    BY <1>1, FreshThen
  <2>1. SectionOf(k) = s
    BY KeyHasSection
  <2>2. NoChange(draft[s][k], k)
    BY DEF FormInv, DraftsFresh
  <2>. QED  BY <1>1, <2>1, <2>2 DEF NoChange, NoChangeThen, Free
<1>4. PatchFresh'
  BY <1>1 DEF FormInv, PatchFresh, NoChange, Free
<1>. QED  BY <1>2, <1>3, <1>4 DEF FormInv

LEMMA FormStep ==
  ASSUME FormInv, [FormNext]_formVars
  PROVE  /\ FormInv'
         /\ \A k \in Keys : Shown(settings', k) # Shown(settings, k) =>
              k \in touched \cup overtaken' \/ SectionOf(k) \in blind
<1>. DEFINE Kept == \A k \in Keys : Shown(settings', k) # Shown(settings, k) =>
                      k \in touched \cup overtaken' \/ SectionOf(k) \in blind
<1>1. settings' = settings => Kept
  OBVIOUS
<1>. HIDE DEF Kept
<1>2. ASSUME UNCHANGED formVars PROVE FormInv' /\ Kept
  BY <1>1, <1>2 DEF formVars, FormInv, FormTypes, DraftsFresh, PatchFresh, AnswerFresh, NoChange,
       Free, Shown
<1>3. ASSUME NEW k \in Keys, NEW v \in FieldValues, Edit(k, v) PROVE FormInv' /\ Kept
  <2>1. settings' = settings
    BY <1>3 DEF Edit
  <2>. QED  BY <1>1, <1>3, <2>1, EditKeeps
<1>4. ASSUME NEW k \in Keys, NEW v \in FieldValues, SomeoneElse(k, v) PROVE FormInv' /\ Kept
  BY <1>4, StoreKeeps DEF SomeoneElse, FormInv, FormTypes, Kept
<1>5. ASSUME NEW s \in Sections, Save(s) PROVE FormInv' /\ Kept
  <2>1. settings' = settings
    BY <1>5 DEF Save
  <2>. QED  BY <1>1, <1>5, <2>1, SaveKeeps
<1>6. ASSUME NEW k \in Keys, SetSetting(k) PROVE FormInv' /\ Kept
  <2>1. patch[k] \in FieldValues /\ NoChange(patch[k], k)
    BY <1>6 DEF SetSetting, FormInv, FormTypes, PatchFresh
  <2>2. /\ settings' = [settings EXCEPT ![k] = patch[k]]
        /\ patch # Unset /\ patch' = Remaining(k)
        /\ UNCHANGED <<stored, draft, touched, blind, overtaken>>
    BY <1>6 DEF SetSetting
  <2>3. overtaken \subseteq overtaken' /\ overtaken' \subseteq Keys
    BY <2>2 DEF FormInv, FormTypes
  <2>. QED  BY <2>1, <2>2, <2>3, StoreKeeps DEF Kept
<1>7. ASSUME Answered PROVE FormInv' /\ Kept
  BY <1>1, <1>7 DEF Answered, FormInv, FormTypes, DraftsFresh, PatchFresh, AnswerFresh, NoChange,
       Free, Shown
<1>8. ASSUME Load PROVE FormInv' /\ Kept
  <2>1. settings' = settings
    BY <1>8 DEF Load
  <2>. QED  BY <1>1, <1>8, <2>1, LoadKeeps
<1>9. FormInv' /\ Kept
  BY <1>2, <1>3, <1>4, <1>5, <1>6, <1>7, <1>8 DEF FormNext
<1>. QED  BY <1>9 DEF Kept

\* Saving a section changes no field the user left alone, in whatever order edits, saves,
\* answers and someone else's changes come (Settings.tsx, api/settings.py).
THEOREM UntouchedFieldsKept == FormSpec => UntouchedKept
<1>1. FormInv /\ [FormNext]_formVars => FormInv'
  BY FormStep
<1>2. FormInv /\ [FormNext]_formVars =>
        [\A k \in Keys : Shown(settings', k) # Shown(settings, k) =>
           k \in touched \cup overtaken' \/ SectionOf(k) \in blind]_formVars
  BY FormStep
<1>. QED  BY <1>1, <1>2, FormInvInit, PTL DEF FormSpec, UntouchedKept

-----------------------------------------------------------------------------
(* The lists of addresses.                                                 *)

\* The requests that the page of an address sends about an entry: it holds that address.
Removals ==
  \A t \in Tabs :
    (request[t] # Nothing /\ request[t].op = "remove" /\ page[t] # Nothing)
      => /\ request[t].list \in Lists /\ request[t].entry \in Entries
         /\ IsIndividual(request[t].entry.cidr)
         /\ page[t] \in Covers[request[t].entry.cidr]

RowsApart == \A l \in Lists : \A e, g \in list[l] : e.id = g.id => e = g

ListsInv ==
  /\ list \in [Lists -> SUBSET Entries]
  /\ page \in [Tabs -> Addresses \cup {Nothing}]
  /\ seen \in [Tabs -> [Lists -> SUBSET Entries]]
  /\ DOMAIN request = Tabs
  /\ \A t \in Tabs : request[t] # Nothing /\ request[t].op = "add"
                       => request[t].list \in Lists /\ request[t].cidr \in Networks
  /\ Removals /\ RowsApart

\* What Max returns of numbers with a bound.
LEMMA MaxOfIds ==
  ASSUME NEW n \in Nat, NEW S, S \subseteq 0 .. n, S # {}
  PROVE  Max(S) \in S /\ \A x \in S : x <= Max(S)
<1>. DEFINE T == {n - x : x \in S}
<1>0. \A x \in S : x \in Nat /\ n - x \in Nat
  OBVIOUS
<1>1. T \subseteq Nat /\ T # {}
  BY <1>0
<1>2. PICK m \in T : \A y \in T : m <= y
  BY <1>1, LeastExists
<1>3. PICK s \in S : m = n - s
  OBVIOUS
<1>4. \A x \in S : s >= x
  <2>1. ASSUME NEW x \in S PROVE n - s <= n - x
    BY <1>2, <1>3
  <2>. QED  BY <1>0, <2>1
<1>. QED  BY <1>4 DEF Max

\* The entry found for an address is one that holds it, and there is one if any does.
LEMMA MatchFound ==
  ASSUME NEW ip, NEW S, S \subseteq Entries
  PROVE  /\ Listed(ip, S) <=> \E e \in S : ip \in Covers[e.cidr]
         /\ Listed(ip, S) => MatchCidr(ip, S) \in S /\ ip \in Covers[MatchCidr(ip, S).cidr]
<1>. DEFINE hits == {e \in S : ip \in Covers[e.cidr]}
<1>1. CASE hits = {}
  BY <1>1 DEF Listed, MatchCidr
<1>2. CASE hits # {}
  <2>. DEFINE ids == {e.id : e \in hits}
  <2>1. ids \subseteq Nat /\ ids # {}
    BY <1>2 DEF Entries
  <2>2. PICK m \in ids : \A x \in ids : m <= x
    BY <2>1, LeastExists
  <2>3. PICK e \in hits : e.id = m
    OBVIOUS
  <2>4. \A g \in hits : e.id <= g.id
    BY <2>2, <2>3
  <2>5. MatchCidr(ip, S) \in hits
    BY <1>2, <2>4 DEF MatchCidr
  <2>. QED  BY <2>5, NetworksHold DEF Listed
<1>. QED  BY <1>1, <1>2

LEMMA ListsInvInit == ListsInit => ListsInv
BY NetworksHold DEF ListsInit, ListsInv, Removals, RowsApart, Lists

LEMMA AddKeeps == ASSUME ListsInv, NEW t \in Tabs, Add(t) PROVE ListsInv'
<1>. DEFINE r == request[t]
            rows == list[r.list]
            ids == {0} \cup {e.id : e \in rows}
            id == 1 + Max(ids)
            row == [id |-> id, cidr |-> r.cidr]
<1>1. r.list \in Lists /\ r.cidr \in Networks /\ rows \subseteq Entries
  BY DEF Add, ListsInv
<1>2. ids \subseteq 0 .. MaxId /\ ids # {}
  BY <1>1, NetworksHold DEF Entries
<1>3. Max(ids) \in 0 .. MaxId /\ \A x \in ids : x <= Max(ids)
  BY <1>2, MaxOfIds, NetworksHold
<1>4. id <= MaxId
  BY DEF Add
<1>5. \A e \in rows : e.id # id
  BY <1>1, <1>3 DEF Entries
<1>6. row \in Entries
  BY <1>1, <1>3, <1>4, NetworksHold DEF Entries
<1>7. /\ list' = list \/ list' = [list EXCEPT ![r.list] = rows \cup {row}]
      /\ request' = [request EXCEPT ![t] = Nothing]
      /\ UNCHANGED <<page, seen>>
  BY DEF Add
<1>. HIDE DEF id
<1>8. CASE list' = list
  BY <1>7, <1>8 DEF ListsInv, Removals, RowsApart
<1>9. CASE list' = [list EXCEPT ![r.list] = rows \cup {row}]
  <2>1. \A l \in Lists : list'[l] = IF l = r.list THEN rows \cup {row} ELSE list[l]
    BY <1>1, <1>9 DEF ListsInv
  <2>2. list' \in [Lists -> SUBSET Entries]
    BY <1>1, <1>6, <1>9 DEF ListsInv
  <2>3. \A e \in rows : e.id # row.id
    BY <1>5
  <2>. HIDE DEF row, rows, r
  <2>4. RowsApart'
    <3>. SUFFICES ASSUME NEW l \in Lists, NEW e \in list'[l], NEW g \in list'[l], e.id = g.id
                  PROVE e = g
      BY DEF RowsApart
    <3>1. \A d, f \in list[l] : d.id = f.id => d = f
      BY DEF ListsInv, RowsApart
    <3>2. CASE l # r.list
      BY <2>1, <3>1, <3>2
    <3>3. CASE l = r.list
      BY <2>1, <2>3, <3>1, <3>3 DEF rows
    <3>. QED  BY <3>2, <3>3
  <2>. USE DEF r
  <2>5. Removals'
    BY <1>7 DEF ListsInv, Removals
  <2>. QED  BY <1>7, <2>2, <2>4, <2>5 DEF ListsInv
<1>. QED  BY <1>7, <1>8, <1>9

LEMMA AskKeeps ==
  ASSUME ListsInv, NEW t \in Tabs, NEW r, Ask(t, r),
         r.op = "add" => r.list \in Lists /\ r.cidr \in Networks,
         (r.op = "remove" /\ page[t] # Nothing)
           => /\ r.list \in Lists /\ r.entry \in Entries
              /\ IsIndividual(r.entry.cidr) /\ page[t] \in Covers[r.entry.cidr]
  PROVE  ListsInv'
<1>1. UNCHANGED <<list, page, seen>> /\ request' = [request EXCEPT ![t] = r]
  BY DEF Ask
<1>2. \A u \in Tabs : request'[u] = IF u = t THEN r ELSE request[u]
  BY <1>1 DEF ListsInv
<1>3. Removals'
  BY <1>1, <1>2 DEF ListsInv, Removals
<1>. QED  BY <1>1, <1>2, <1>3 DEF ListsInv, RowsApart

LEMMA ListsInvNext == ListsInv /\ [ListsNext]_listVars => ListsInv'
<1>. SUFFICES ASSUME ListsInv, [ListsNext]_listVars PROVE ListsInv'
  OBVIOUS
<1>1. CASE UNCHANGED listVars
  BY <1>1 DEF listVars, ListsInv, Removals, RowsApart
<1>2. ASSUME NEW t \in Tabs, NEW ip \in Addresses \cup {Nothing}, Visit(t, ip) PROVE ListsInv'
  BY <1>2 DEF Visit, ListsInv, Removals, RowsApart
<1>3. ASSUME NEW t \in Tabs, NEW l \in Lists, Block(t, l) PROVE ListsInv'
  <2>. DEFINE r == [op |-> "add", list |-> l, cidr |-> page[t]]
  <2>1. Ask(t, r) /\ page[t] \in Networks
    BY <1>3, NetworksHold DEF Block, ListsInv
  <2>2. r.op = "add" /\ r.list = l /\ r.cidr = page[t]
    OBVIOUS
  <2>. HIDE DEF r
  <2>. QED  BY <2>1, <2>2, AskKeeps
<1>4. ASSUME NEW t \in Tabs, NEW l \in Lists, Unblock(t, l) PROVE ListsInv'
  <2>. DEFINE e == MatchCidr(page[t], seen[t][l])
              r == [op |-> "remove", list |-> l, entry |-> e]
  <2>1. Ask(t, r) /\ e # Nothing /\ IsIndividual(e.cidr)
    BY <1>4 DEF Unblock
  <2>2. seen[t][l] \subseteq Entries
    BY DEF ListsInv
  <2>3. e \in Entries /\ page[t] \in Covers[e.cidr]
    BY <2>1, <2>2, MatchFound DEF Listed
  <2>. HIDE DEF e
  <2>4. r.op = "remove" /\ r.list = l /\ r.entry = e
    OBVIOUS
  <2>. HIDE DEF r
  <2>. QED  BY <2>1, <2>3, <2>4, AskKeeps
<1>5. ASSUME NEW t \in Tabs, NEW cidr \in Networks, AddNetwork(t, cidr) PROVE ListsInv'
  <2>. DEFINE r == [op |-> "add", list |-> "white", cidr |-> cidr]
  <2>1. Ask(t, r) /\ r.op = "add" /\ r.list \in Lists /\ r.cidr = cidr
    BY <1>5 DEF AddNetwork, Lists
  <2>. HIDE DEF r
  <2>. QED  BY <2>1, AskKeeps
<1>6. ASSUME NEW t \in Tabs, NEW e \in Entries, RemoveEntry(t, e) PROVE ListsInv'
  <2>. DEFINE r == [op |-> "remove", list |-> "white", entry |-> e]
  <2>1. Ask(t, r) /\ r.op = "remove" /\ page[t] = Nothing
    BY <1>6 DEF RemoveEntry
  <2>. HIDE DEF r
  <2>. QED  BY <2>1, AskKeeps
<1>7. ASSUME NEW t \in Tabs, Add(t) PROVE ListsInv'
  BY <1>7, AddKeeps
<1>8. ASSUME NEW t \in Tabs, Remove(t) PROVE ListsInv'
  <2>1. /\ \A l \in Lists : list'[l] \subseteq list[l]
        /\ list' \in [Lists -> SUBSET Entries]
        /\ request' = [request EXCEPT ![t] = Nothing] /\ UNCHANGED <<page, seen>>
    BY <1>8 DEF Remove, ListsInv
  <2>. QED  BY <2>1 DEF ListsInv, Removals, RowsApart
<1>9. ASSUME NEW t \in Tabs, Refresh(t) PROVE ListsInv'
  BY <1>9 DEF Refresh, ListsInv, Removals, RowsApart
<1>. QED
  BY <1>1, <1>2, <1>3, <1>4, <1>5, <1>6, <1>7, <1>8, <1>9 DEF ListsNext

\* Removing an address from a list on its page leaves every other address as it was listed,
\* unless the entry shown has gone and its id was given out again (IPActions, _is_individual
\* and the remove endpoints).
THEOREM UnblockTouchesOne == ListsSpec => UnblockIsLocal
<1>1. ASSUME ListsInv, [ListsNext]_listVars, NEW t \in Tabs,
             request[t] # Nothing, request'[t] = Nothing, request[t].op = "remove", page[t] # Nothing,
             \/ request[t].entry \in list[request[t].list]
             \/ \A e \in list[request[t].list] : e.id # request[t].entry.id,
             NEW a \in Addresses \ {page[t]}, NEW l \in Lists
      PROVE  Listed(a, list'[l]) = Listed(a, list[l])
  <2>. DEFINE gone == request[t].entry
  <2>1. /\ request[t].list \in Lists /\ gone \in Entries
        /\ IsIndividual(gone.cidr) /\ page[t] \in Covers[gone.cidr]
    BY <1>1 DEF ListsInv, Removals
  <2>2. Covers[gone.cidr] = {page[t]}
    <3>1. IsFiniteSet(Covers[gone.cidr])
      BY <2>1, NetworksHold DEF Entries
    <3>2. PICK x : Covers[gone.cidr] = {x}
      BY <2>1, <3>1, FS_Singleton DEF IsIndividual
    <3>. QED  BY <2>1, <3>2
  <2>3. Remove(t)
    <3>2. \A v \in Tabs : \A r : ~ Ask(v, r) \/ v # t
      BY <1>1 DEF Ask
    <3>3. \A v \in Tabs : \A r : Ask(v, r) => request'[t] = request[t] \/ v = t
      BY DEF Ask, ListsInv
    <3>4. \A v \in Tabs : \A r : ~ Ask(v, r)
      BY <1>1, <3>2, <3>3
    <3>5. \A v \in Tabs : Add(v) => v # t /\ request'[t] = request[t]
      BY <1>1 DEF Add, ListsInv
    <3>6. \A v \in Tabs : Remove(v) => v = t \/ request'[t] = request[t]
      BY DEF Remove, ListsInv
    <3>7. \A v \in Tabs : Refresh(v) => request' = request
      BY DEF Refresh
    <3>8. \A v \in Tabs, ip \in Addresses \cup {Nothing} : Visit(v, ip) => request' = request
      BY DEF Visit
    <3>. QED
      BY <1>1, <3>4, <3>5, <3>6, <3>7, <3>8 DEF ListsNext, listVars, Block, Unblock, AddNetwork, RemoveEntry
  <2>4. list'[l] = IF l = request[t].list THEN {e \in list[l] : e.id # gone.id} ELSE list[l]
    BY <1>1, <2>1, <2>3 DEF Remove, ListsInv
  <2>5. \A e \in list[l] : a \in Covers[e.cidr] => e \in list'[l]
    BY <1>1, <2>1, <2>2, <2>4 DEF ListsInv, RowsApart
  <2>6. list'[l] \subseteq list[l] /\ list[l] \subseteq Entries
    BY <2>4, <1>1 DEF ListsInv
  <2>7. Listed(a, list[l]) <=> Listed(a, list'[l])
    BY <2>5, <2>6, MatchFound
  <2>8. Listed(a, list[l]) \in BOOLEAN /\ Listed(a, list'[l]) \in BOOLEAN
    BY DEF Listed
  <2>. QED  BY <2>7, <2>8
<1>2. ListsInv /\ [ListsNext]_listVars =>
        [\A t \in Tabs :
           (request[t] # Nothing /\ request'[t] = Nothing /\ request[t].op = "remove" /\ page[t] # Nothing)
           => LET rows == list[request[t].list]
              IN  \/ \A a \in Addresses \ {page[t]}, l \in Lists : Listed(a, list'[l]) = Listed(a, list[l])
                  \/ /\ request[t].entry \notin rows
                     /\ \E e \in rows : e.id = request[t].entry.id]_listVars
  BY <1>1
<1>. QED  BY <1>2, ListsInvInit, ListsInvNext, PTL DEF ListsSpec, UnblockIsLocal

-----------------------------------------------------------------------------
(* The parts side by side.                                                 *)

\* What has changed nothing of a part is a step of it, or none.
LEMMA StepOfParts ==
  [ConsoleNext]_consoleVars =>
    [Next]_vars /\ [TabNext]_tabVars /\ [FrameNext]_frameVars /\ [FormNext]_formVars
      /\ [ListsNext]_listVars
BY DEF ConsoleNext, consoleVars, Start, Next

\* Side by side each part behaves as it does alone: what is proved of a part holds there.
THEOREM PartsKeepTheirSpecs ==
  ConsoleSpec => Spec /\ TabSpec /\ FrameSpec /\ FormSpec /\ ListsSpec
<1>1. ConsoleInit => Init /\ TabInit /\ FrameInit /\ FormInit /\ ListsInit
  BY DEF ConsoleInit
<1>. QED
  BY <1>1, StepOfParts, PTL DEF ConsoleSpec, Spec, TabSpec, FrameSpec, FormSpec, ListsSpec

\* Tables, URL state, frame, settings form and lists hold what they are meant to hold.
THEOREM ConsoleTyped == ConsoleSpec => []ConsoleTypeOK
<1>1. TabTypes => TabTypeOK
  BY DEF TabTypes, TabTypeOK, TabStates
<1>2. FrameInv => FrameTypeOK
  BY NavLength DEF FrameInv, FrameTypes, FrameTypeOK, Pages, Palettes, Pickers, Views
<1>3. FormInv => FormTypeOK
  BY DEF FormInv, FormTypes, FormTypeOK
<1>4. ListsInv => ListsTypeOK
  BY DEF ListsInv, RowsApart, ListsTypeOK
<1>5. TypeOK /\ TabTypeOK /\ FrameTypeOK /\ FormTypeOK /\ ListsTypeOK => ConsoleTypeOK
  BY DEF ConsoleTypeOK
<1>6. TabSpec => []TabTypeOK
  BY <1>1, TabTypesInit, TabTypesNext, PTL DEF TabSpec
<1>7. FrameSpec => []FrameTypeOK
  BY <1>2, FrameInvInit, FrameInvNext, PTL DEF FrameSpec
<1>8. FormInv /\ [FormNext]_formVars => FormInv'
  BY FormStep
<1>9. FormSpec => []FormTypeOK
  BY <1>3, <1>8, FormInvInit, PTL DEF FormSpec
<1>10. ListsSpec => []ListsTypeOK
  BY <1>4, ListsInvInit, ListsInvNext, PTL DEF ListsSpec
<1>. QED  BY <1>5, <1>6, <1>7, <1>9, <1>10, TablesTyped, PartsKeepTheirSpecs, PTL

\* The pages of the console agree whatever its other parts do meanwhile (what PanelsAlwaysAgree
\* says of the tables alone).
THEOREM PagesAlwaysAgree == ConsoleSpec => []PagesAgree
<1>1. PanelsAgree => PagesAgree
  BY DEF PagesAgree
<1>. QED  BY <1>1, PanelsAlwaysAgree, PartsKeepTheirSpecs, PTL
=============================================================================
