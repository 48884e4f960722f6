SPECIFICATION AllSpec
CONSTANTS
  Users = {u1, u2}
  Bootstrap = u1
  Sessions = {s1, s2}
  Passwords = {a, b}
  Threads = {t1, t2}
  MaxVersion = 2
  None = None
  Members = {"a", "b"}
  Found = {"a"}
  MaxVersions = 2
  MaxDrift = 1
  Assets = {"a1"}
  Orders = {"o1"}
  Boxes = {"none", "b1", "b2"}
  NoBox = "none"
  MaxRevisions = 3
  MaxCrashes = 1
SYMMETRY Symmetry
INVARIANTS
  AdminRemains
  SessionsAreCurrent
  ReviewsAreSound
PROPERTIES
  NoResurrection
  RecordsStand
CHECK_DEADLOCK FALSE
