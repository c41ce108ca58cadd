SPECIFICATION MCSpec
CHECK_DEADLOCK FALSE
CONSTANTS
  FaultSets <- MCFaultSets
  CutSets <- MCCutSets
  MaxCuts = 1
  Releases = {"r1", "r2"}
  Manifests <- MCManifests
  Baselines <- MCBaselines
  Uses <- MCUses
  MaxStarts = 2
  MaxMeddling = 1
  Kids = {"k1", "k2", "k3"}
  MaxAge = 2
  Skew = 1
  Leases = {1}
  MaxClock = 4
  MaxRekeys = 2
  Impostors = {"echo", "guard"}
  Corpora <- MCCorpora
  Clients = {"c1", "c2"}
  Queries <- MCQueries
  Limits = {1}
  Extending <- MCExtending
  Likeness <- MCLikeness
  Vectors <- MCVectors
  Floor = 1
  MaxSemantic = 2
  MaxLexical = 2
  Batch = 2
INVARIANTS QualifiedIssuersComply ReleasesAreSound TokensOutliveRotation PagesAreOfOneRanking
PROPERTIES RuntimesEndClean
