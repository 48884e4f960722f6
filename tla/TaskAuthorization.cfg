SPECIFICATION Spec
CONSTANTS
  Tasks = {t1}
  Sources = {snapshot}
  Snapshots = {snapshot}
  Synthetic = synthetic
  ApprovalModes = {TRUE, FALSE}
  Users = {u1}
  Suspendable = {u1}
  Procs = {p1, p2}
  None = None
  MaxCrashes = 1
INVARIANTS
  NoUnauthorizedRun
  ApprovedPlanHasLiveGrant
PROPERTY
  LifecycleObeyed
