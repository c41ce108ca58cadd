SPECIFICATION MCSpec
CHECK_DEADLOCK FALSE
CONSTANTS
  SentenceRange = 2
  Items = 2
  DocChunks <- MCDocChunks
  Labels <- MCLabels
  Searchers <- MCSearchers
  Vocabulary = {1, 2, 3, 4, 5}
  SnippetLen = 6
  NoLabel = "none"
  MaxFaults = 1
  MaxEvents = 3
  RecentMax = 2
  LineLen = 5
  Budgets = {0, 2, 4, 9}
  Runs <- MCRuns
  Allowed = {"ls"}
  Installed = {"sh", "python"}
  NoResult = "pending"
INVARIANTS ChunksAccountForText SuccessMeansStored EmptySearchOverlooksNothing SnapshotKeepsItsErrors
PROPERTIES CallsEndClean
