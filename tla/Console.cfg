SPECIFICATION ConsoleSpec
CONSTANTS
  None = none
  Undefined = undefined
  Nothing = nothing
  Infix <- Fragments
  Wild = {"_"}
  Upper <- Capitals
  Limit <- SmallLimits
  EventsLimit = 2
  EventsPage = 1
  PageSize = 2
  LocalWindow = 2
  Rows <- FiveRows
  Events <- ThreeEvents
  Typed <- TypedFilters
  MaxNow = 4
  Retention = 3
  AggRetention = 3
  HostNames = {"h1", "h2"}
  Countries = {"US"}
  Modes = {"l1h", "l24h"}
  MaxChanges = 2
  MaxFetches = 2
  Tabs = {"tab1", "tab2"}
  Addresses = {"i1", "i2"}
  Covers <- OverlappingNetworks
  MaxId = 2
  Found <- NavFound
  MonthOf <- FiveDays
  MaxRetentionDays = 2
  FirstDay = 3
  Unset = unset
  Sections = {"retention", "webhook"}
  KeyOf <- TwoSections
  FieldValues = {0, 1}
  Default <- ZeroDefault
  MaxEdits = 2
  MaxOthers = 1
  MaxAsks = 4
INVARIANTS ConsoleTypeOK PagesAgree AggregatesCountOnce SettledShowsUrl ShellKeepsSelection
PROPERTIES RowsMoveBackOnly UntouchedKept UnblockIsLocal
CHECK_DEADLOCK FALSE
