SPECIFICATION FairSpec
CONSTANTS
  Tasks = {t1}
  Sources = {}
  Snapshots = {}
  Synthetic = synthetic
  ApprovalModes = {TRUE}
  Users = {u1}
  Suspendable = {}
  Procs = {p1, p2}
  None = None
  MaxCrashes = 0
PROPERTY
  ApprovedPlanIsExecuted
