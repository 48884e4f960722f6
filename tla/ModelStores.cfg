SPECIFICATION AllSpec
CONSTANTS
  Packs = {"p1", "p2"}
  Assets = {"a1"}
  Runtimes = {"q1"}
  Files = {"weights", "index", "image"}
  Jobs = {"j1"}
  FilesOf <- Contents
  Stable = {"p1"}
  MaxRevisions = 3
  MaxUpgrades = 1
  MaxCrashes = 2
  Cycles = {c1, c2}
  Inputs = {"one", "two", "four"}
  Samples = {"a", "b", "v", "t", "u"}
  Split <- SplitOf
  MaxRounds = 2
  MaxErrors = 1
  MaxChanges = 1
  MaxNotes = 2
  TornWrites = TRUE
  Times = {1, 2, 3}
  MaxRecords = 6
  MaxLines = 2
  Tools = {"quality", "audit"}
  Retries = 1
  MaxCalls = 2
  MaxLost = 1
SYMMETRY Symmetry
INVARIANTS
  PacksAreSound
  LearningIsFair
  RecordsAreWhole
PROPERTIES
  ApprovalsStand
  DecisionsStand
CHECK_DEADLOCK FALSE
