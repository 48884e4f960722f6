SPECIFICATION AllSpec
CONSTANTS
  Cases = {c1, c2}
  Named = {r1}
  Unnamed = unnamed
  Modes = {r1}
  Procs = {p1, p2}
  None = None
  MaxAttempts = 2
  MaxCrashes = 1
PROPERTIES
  ApprovedRecovers
  WorkReachesAnEnd
CHECK_DEADLOCK FALSE
