SPECIFICATION AllSpec
CONSTANTS
  Profiles = {a, b}
  Workspaces = {"w1"}
  Requests = {r1, r2}
  NoProfile = NoProfile
  MaxFindings = 2
  MaxTraces = 2
  Tools = {"quality", "audit"}
  Rulebook <- GateRulebook
  MaxLoose = 1
  Count = 5
  Bucket <- BucketOf
  Split <- BucketOf
  PerBucket = 2
  Contents = {1, 2, 3}
  MaxBad = 1
  Alike <- LooksLike
  Codes = {"blur", "leak"}
  Aggregate = "aggregate"
  Categories = {"scratch", "dent"}
  MaxPixels = 2
  Policies <- PolicySet
  MaxScore = 2
  Retentions <- RetentionSet
  Normals = 1
  Anomalies = 2
  Budget = 2
  Library <- Cards
  Size = 3
  Queries <- QuerySet
  Embeddings <- EmbeddingSet
  Accounts = {"alice"}
  Limit <- LimitOf
  Window = 3
  PerSecond = 2
  Waits = {0, 1}
  MaxTime <- TimeOf
SYMMETRY Symmetry
INVARIANTS
  ProfilesAreKeyed
  GateIsStrict
  CasesCloseClean
  ModelsAreJudged
  RetrievalIsStable
  ThrottleHolds
PROPERTIES
  RevokedIsFinal
  ChampionsImprove
CHECK_DEADLOCK FALSE
