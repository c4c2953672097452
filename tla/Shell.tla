------------------------------- MODULE Shell -------------------------------
(***************************************************************************)
(* The frame around the pages of the console (components/layout): the      *)
(* navigation, the command palette, the user menu, the sheet of a narrow   *)
(* window, and the time range with its calendar (components/ui and lib).   *)
(*                                                                         *)
(* A day is a number.  The frame outlives the pages, and midnight passes   *)
(* while it is open.                                                       *)
(***************************************************************************)
EXTENDS Integers, Sequences, FiniteSets

CONSTANTS
  Found,         \* by query: the pages whose label contains it
  MonthOf,       \* by day: the number of its month
  MaxRetentionDays,     \* MAX_RETENTION_DAYS
  FirstDay       \* the day the tab is opened on

\* The days have no gaps, and neither have their months.
ASSUME CalendarRuns ==
  /\ DOMAIN MonthOf \subseteq Nat /\ FirstDay \in DOMAIN MonthOf /\ MaxRetentionDays \in Nat
  /\ \A d, e \in DOMAIN MonthOf : d .. e \subseteq DOMAIN MonthOf
  /\ \A d \in DOMAIN MonthOf : MonthOf[d] \in Nat
  /\ \A d, e \in DOMAIN MonthOf : d <= e => MonthOf[d] <= MonthOf[e]
  /\ \A d, e \in DOMAIN MonthOf : e = d + 1 => MonthOf[e] <= MonthOf[d] + 1

ASSUME NothingTyped == "" \in DOMAIN Found

VARIABLES
  path,          \* the page shown
  palette,       \* open, query, selected
  menu,          \* the user menu is open
  nav,           \* the sheet of a narrow window is open
  picker,        \* the calendar: open, and the month in view
  mode,          \* the time range: a preset, or a day
  today

frameVars == <<path, palette, menu, nav, picker, mode, today>>

\* ALL_NAV, in order.
AllNav == <<"/", "/realtime", "/requests", "/analytics", "/hosts", "/geo", "/security",
            "/alerts", "/settings">>
HideDatePicker == {"/realtime"}
RangePresets == {"l1h", "l24h"}

Days == DOMAIN MonthOf
Queries == DOMAIN Found
\* What the palette lists: the pages its query finds, in the order of the navigation.  The
\* one at index n of the list has n of them before it.
Hits == {i \in DOMAIN AllNav : AllNav[i] \in Found[palette.query]}
IndexOf(i) == Cardinality({j \in Hits : j < i})

Shut == [open |-> FALSE, query |-> "", selected |-> 0]
NoPicker == [open |-> FALSE, view |-> 0]
PresetRange(p) == [type |-> "preset", preset |-> p]

FrameTypeOK ==
  /\ path \in {AllNav[i] : i \in DOMAIN AllNav} \cup {"/change-password", "/login"}
  /\ palette.open \in BOOLEAN /\ palette.query \in Queries
  /\ palette.selected \in -1 .. Len(AllNav) - 1
  /\ menu \in BOOLEAN /\ nav \in BOOLEAN /\ today \in Days
  /\ picker.open \in BOOLEAN /\ picker.view \in {0} \cup {MonthOf[d] : d \in Days}

FrameInit ==
  /\ path = "/" /\ palette = Shut /\ menu = FALSE /\ nav = FALSE
  /\ picker = NoPicker /\ mode = PresetRange("l1h") /\ today = FirstDay

Signed == path # "/login"
\* What the overlays leave within reach; a click on it closes the popups beside it.
Uncovered == Signed /\ ~palette.open /\ ~nav

\* A new page; the calendar does not survive the page that has none.
Show(p) ==
  /\ path' = p
  /\ picker' = NoPicker /\ menu' = FALSE

-----------------------------------------------------------------------------
(* The command palette.                                                    *)

\* Every opening starts with no query and the first page.
OpenPalette ==
  /\ Uncovered
  /\ palette' = [Shut EXCEPT !.open = TRUE]
  /\ menu' = FALSE /\ picker' = NoPicker
  /\ UNCHANGED <<path, nav, mode, today>>

\* Ctrl-K, whatever is open.
Shortcut ==
  /\ Signed
  /\ palette' = IF palette.open THEN [palette EXCEPT !.open = FALSE] ELSE [Shut EXCEPT !.open = TRUE]
  /\ UNCHANGED <<path, menu, nav, picker, mode, today>>

\* Mutant: the selection outlives the list it is in.
Type_KeepsSelection(q) ==
  /\ palette.open
  /\ palette' = [palette EXCEPT !.query = q]
  /\ UNCHANGED <<path, menu, nav, picker, mode, today>>

Type(q) ==
  /\ palette.open
  /\ palette' = [palette EXCEPT !.query = q,
                                !.selected = IF q = palette.query THEN palette.selected ELSE 0]
  /\ UNCHANGED <<path, menu, nav, picker, mode, today>>

Smaller(i, j) == IF i < j THEN i ELSE j
Greater(i, j) == IF i > j THEN i ELSE j

\* The arrows; down in an empty list is before its start.
Arrow ==
  /\ palette.open
  /\ \/ palette' = [palette EXCEPT !.selected = Smaller(palette.selected + 1, Cardinality(Hits) - 1)]
     \/ palette' = [palette EXCEPT !.selected = Greater(palette.selected - 1, 0)]
  /\ UNCHANGED <<path, menu, nav, picker, mode, today>>

Hover(i) ==
  /\ palette.open
  /\ i \in 0 .. Cardinality(Hits) - 1
  /\ palette' = [palette EXCEPT !.selected = i]
  /\ UNCHANGED <<path, menu, nav, picker, mode, today>>

\* Enter on the selected page, or a click on it; nothing where there is none.
Enter ==
  /\ palette.open
  /\ palette' = [palette EXCEPT !.open = FALSE]
  /\ \E i \in Hits : IndexOf(i) = palette.selected /\ Show(AllNav[i])
  /\ UNCHANGED <<nav, mode, today>>

\* Palette and sheet both listen to Escape.
Escape ==
  /\ palette.open \/ nav
  /\ palette' = [palette EXCEPT !.open = FALSE]
  /\ nav' = FALSE
  /\ UNCHANGED <<path, menu, picker, mode, today>>

-----------------------------------------------------------------------------
(* Navigation: the sidebar, the bar below, the sheet and the user menu.    *)

Navigate(p) ==
  /\ Uncovered
  /\ Show(p)
  /\ UNCHANGED <<palette, nav, mode, today>>

OpenNav ==
  /\ Uncovered
  /\ nav' = TRUE /\ menu' = FALSE /\ picker' = NoPicker
  /\ UNCHANGED <<path, palette, mode, today>>

\* A page of the sheet, or its backdrop.
LeaveNav ==
  /\ nav /\ ~palette.open
  /\ nav' = FALSE
  /\ (\E i \in DOMAIN AllNav : Show(AllNav[i])) \/ UNCHANGED <<path, picker, menu>>
  /\ UNCHANGED <<palette, mode, today>>

ToggleMenu ==
  /\ Uncovered
  /\ menu' = ~menu /\ picker' = NoPicker
  /\ UNCHANGED <<path, palette, nav, mode, today>>

PickFromMenu ==
  /\ menu /\ Uncovered
  /\ \E p \in {"/settings", "/change-password"} : Show(p)
  /\ UNCHANGED <<palette, nav, mode, today>>

\* From the menu or the sheet; the range chosen is kept for who signs in next.
SignOut ==
  /\ menu \/ nav
  /\ ~palette.open
  /\ Show("/login") /\ nav' = FALSE
  /\ UNCHANGED <<palette, mode, today>>

-----------------------------------------------------------------------------
(* The time range.                                                         *)

ShowsDatePicker == Uncovered /\ path \notin HideDatePicker

PickPreset(p) ==
  /\ ShowsDatePicker
  /\ mode' = PresetRange(p) /\ picker' = NoPicker /\ menu' = FALSE
  /\ UNCHANGED <<path, palette, nav, today>>

\* The cross beside a chosen day.
ClearDay ==
  /\ ShowsDatePicker
  /\ mode.type = "custom"
  /\ mode' = PresetRange("l1h") /\ picker' = NoPicker /\ menu' = FALSE
  /\ UNCHANGED <<path, palette, nav, today>>

\* The calendar opens on the current month.
TogglePicker ==
  /\ ShowsDatePicker
  /\ picker' = IF picker.open THEN NoPicker ELSE [open |-> TRUE, view |-> MonthOf[today]]
  /\ menu' = FALSE
  /\ UNCHANGED <<path, palette, nav, mode, today>>

EarliestAllowedDate == today - MaxRetentionDays
IsDisabled(day) == day < EarliestAllowedDate \/ day > today
DaysOf(month) == {d \in Days : MonthOf[d] = month}
\* The last day of the month before is late enough; the first of the next has come.
CanPrev == \E d \in DaysOf(picker.view - 1) :
             d >= EarliestAllowedDate /\ \A e \in DaysOf(picker.view - 1) : e <= d
CanNext == \E d \in DaysOf(picker.view + 1) :
             d <= today /\ \A e \in DaysOf(picker.view + 1) : d <= e

TurnMonth ==
  /\ picker.open /\ Uncovered
  /\ \/ CanPrev /\ picker' = [picker EXCEPT !.view = @ - 1]
     \/ CanNext /\ picker' = [picker EXCEPT !.view = @ + 1]
  /\ UNCHANGED <<path, palette, menu, nav, mode, today>>

PickDay(day) ==
  /\ picker.open /\ Uncovered
  /\ day \in DaysOf(picker.view) /\ ~IsDisabled(day)
  /\ mode' = [type |-> "custom", date |-> day]
  /\ picker' = NoPicker
  /\ UNCHANGED <<path, palette, menu, nav, today>>

Midnight ==
  /\ today + 1 \in Days
  /\ today' = today + 1
  /\ UNCHANGED <<path, palette, menu, nav, picker, mode>>

FrameNext ==
  \/ OpenPalette \/ Shortcut \/ Arrow \/ Enter \/ Escape
  \/ \E q \in Queries : Type(q)
  \/ \E i \in 0 .. Len(AllNav) - 1 : Hover(i)
  \/ \E i \in DOMAIN AllNav : Navigate(AllNav[i])
  \/ OpenNav \/ LeaveNav \/ ToggleMenu \/ PickFromMenu \/ SignOut
  \/ \E p \in RangePresets : PickPreset(p)
  \/ ClearDay \/ TogglePicker \/ TurnMonth
  \/ \E day \in Days : PickDay(day)
  \/ Midnight

FrameSpec == FrameInit /\ [][FrameNext]_frameVars

-----------------------------------------------------------------------------
\* The selection of the palette is in its list, or the list is empty.  The calendar shows a
\* month with a day to choose or an arrow that still leads to one, also after midnight took
\* its only day away, is never open where there is no time range, and never lets a day of
\* the future be chosen.
ShellKeepsSelection ==
  /\ palette.open /\ Hits # {} => palette.selected \in 0 .. Cardinality(Hits) - 1
  /\ picker.open => (\E d \in DaysOf(picker.view) : ~IsDisabled(d)) \/ CanNext
  /\ picker.open => path \notin HideDatePicker
  /\ mode.type = "custom" => mode.date <= today
=============================================================================
