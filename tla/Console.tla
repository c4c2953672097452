------------------------------ MODULE Console ------------------------------
(***************************************************************************)
(* The parts of the console that share nothing but the API, side by side.  *)
(* A behaviour starts one part and stays with it: the tables and the pages *)
(* read off them, the tables and the scheduler's aggregates, a tab and its *)
(* query cache, the frame, the settings page, or the lists of addresses.   *)
(***************************************************************************)
EXTENDS RequestLog, Explorer, IpLists, Shell, SettingsPage

VARIABLE part

consoleVars == <<part, vars, tabVars, frameVars, formVars, listVars>>

ConsoleInit ==
  /\ part = None
  /\ Init /\ TabInit /\ FrameInit /\ FormInit /\ ListsInit

Parts == {"pages", "stats", "tab", "frame", "form", "lists"}

Start ==
  /\ part = None
  /\ part' \in Parts
  /\ UNCHANGED <<vars, tabVars, frameVars, formVars, listVars>>

ConsoleNext ==
  \/ Start
  \/ /\ part = "pages" /\ Arrivals
     /\ UNCHANGED <<part, tabVars, frameVars, formVars, listVars>>
  \/ /\ part = "stats" /\ (Arrivals \/ Jobs) /\ security_events' = {}
     /\ UNCHANGED <<part, tabVars, frameVars, formVars, listVars>>
  \/ /\ part = "tab" /\ TabNext
     /\ UNCHANGED <<part, vars, frameVars, formVars, listVars>>
  \/ /\ part = "frame" /\ FrameNext
     /\ UNCHANGED <<part, vars, tabVars, formVars, listVars>>
  \/ /\ part = "form" /\ FormNext
     /\ UNCHANGED <<part, vars, tabVars, frameVars, listVars>>
  \/ /\ part = "lists" /\ ListsNext
     /\ UNCHANGED <<part, vars, tabVars, frameVars, formVars>>

ConsoleSpec == ConsoleInit /\ [][ConsoleNext]_consoleVars

-----------------------------------------------------------------------------
\* Every part keeps its variables within their types, and the lists their ids apart.
ConsoleTypeOK == TypeOK /\ TabTypeOK /\ FrameTypeOK /\ FormTypeOK /\ ListsTypeOK

\* RequestLog: the panels of the console agree; looked at where no aggregates are kept.
PagesAgree == part = "pages" => PanelsAgree
=============================================================================
