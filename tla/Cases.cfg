SPECIFICATION AllSpec
CONSTANTS
  Runs = {d1, d2}
  Datasets = {"one", "two", "copy", "leak", "mixed"}
  Data <- DatasetOf
  MaxMoves = 1
  MaxCrashes = 1
  Threads = {p1, p2}
  Keys = {k1, k2}
  CaseIds = {"c1"}
  MaxAttempts = 2
  CaseCrashes = 1
  Creates = {"create"}
  Decides = {d1, d2}
  Resumes = {}
  Stale = {}
  Hosts = {h1, h2}
  Host <- HostOf
  p1 = p1
  p2 = p2
  h1 = h1
  h2 = h2
  k1 = k1
  k2 = k2
  d1 = d1
  d2 = d2
  None = None
SYMMETRY Symmetry
INVARIANTS
  TrainingIsExclusive
  RivalsAreBound
PROPERTIES
  EndedStaysEnded
  ImplementsScope
CHECK_DEADLOCK FALSE
