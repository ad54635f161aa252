CONSTANTS
  Handlers = {1, 2}
  MaxFaults = 1
  Menus <- ConsoleMenus
  Attempts = 2
  Seats = 3
  MaxNow = 8
  Staff = {3}
  Days = {1, 2}
  Scores = {0, 1, 2, 3}
  Batches <- TwoLeads
  Queries <- SevenFilters
  ThreshA = 3
  ThreshB = 2
  MaxRuns = 2
  PageSize = 2
  PageFilters = {1, 2, 7}
  PageStages = {6}
SPECIFICATION Spec
INVARIANTS ConsoleTypeOK CodeGuesses MembershipsSound StayOut TablesKept SentAsRecorded BatchAccounted FilterKept PagesTrue
PROPERTIES NichesKept UnlockFits
CHECK_DEADLOCK FALSE
