SPECIFICATION Spec
CONSTANTS
  Tasks = {t1, t2}
  Sources = {}
  Snapshots = {}
  Synthetic = synthetic
  ApprovalModes = {TRUE}
  Users = {u1}
  Suspendable = {}
  Procs = {p1, p2}
  None = None
  MaxCrashes = 1
SYMMETRY Symmetry
INVARIANTS
  LiveRunIsOwned
  RecoveryIsFinal
  OfferedNeverCompletes
PROPERTY
  ImplementsAttempts
