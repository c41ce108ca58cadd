SPECIFICATION MCSpec
CHECK_DEADLOCK FALSE
CONSTANTS
  DefaultLimit = 1
  MaxPage = 2
  MaxScan = 3
  FrameBytes = 4
  CursorBytes = 2
  Writers = {"w1", "w2"}
  Readers = {"r"}
  Casts = {{"w1", "w2"}, {"w1", "r"}}
  Contents <- MCContents
  Edits <- MCEdits
  Refs = {1, 2, 3}
  Volatile = {3}
  Keys = {"k"}
  Searches <- MCSearches
  LookupLimit = 2
  MaxGen = 3
  MaxDepth = 3
  MaxStringBound = 2
  MaxArrayBound = 2
  MaxBytes = 4194304
  Probes <- MCProbes
  RecipeAsks <- MCRecipeAsks
  SearchAsks <- MCSearchAsks
  CallBytes = {0, 1}
  MaxChanges = 2
  MaxTime = 1
  MaxLease = 2
  Lease = 1
  Fixed <- MCFixed
  Asks <- MCAsks
  Readiness = {TRUE, FALSE}
  Budgets = {TRUE, FALSE}
INVARIANTS HiddenRecordsOnlyCrowd AdmittedRecipesRun SelectionIsForced PreparedFactsHeld
PROPERTIES PublishesAreSerial AnswersAreCurrent
