----------------------- MODULE TaskLifecycleProofs -----------------------
(***************************************************************************)
(* Machine-checked proofs about TaskLifecycle, for any tasks, sources,     *)
(* accounts, processes and number of crashes.                              *)
(***************************************************************************)
EXTENDS TaskLifecycle, TLAPS

\* Who is inside the execution lock of a task holds it.
LockHeld ==
  \A p \in Procs : pc[p] \in Holding => job[p] \in Tasks /\ lock[job[p]] = p

\* Work is done only for rows that exist, and an insertion has its request.
JobKnown ==
  \A p \in Procs :
    IF pc[p] = "insert" THEN ask[p] \in Requests
    ELSE pc[p] # "idle" => job[p] \in Tasks /\ status[job[p]] # "ABSENT"

\* Only rows that exist are queued.
QueueKnown == \A p \in Procs : \A t \in futures[p] : status[t] # "ABSENT"

\* A process between claim and end of the attempt owns a live row.
RunOwned ==
  \A p \in Procs : Executing(p) =>
    owner[job[p]] = p /\ status[job[p]] \in LiveStatuses

\* What the owner, plan and phase columns say of each status.
RowsAgree ==
  \A t \in Tasks :
    /\ status[t] \in {"ABSENT", "PLANNED", "CANCELLED"} => owner[t] = None
    /\ phase[t] = "failed_authorization" => owner[t] = None
    /\ phase[t] = "failed_authorization" => status[t] = "FAILED"
    /\ owner[t] # None /\ approvalReq[t] => plan[t] = "APPROVE_PLAN"
    /\ plan[t] = "CANCEL_PLAN" => status[t] = "CANCELLED"
    /\ status[t] = "ABSENT" => plan[t] = "NONE"

\* A recovered row is FAILED for good and its replacement exists.
Recovered ==
  \A t \in Tasks : replacement[t] # None =>
    /\ status[t] = "FAILED" /\ phase[t] = "interrupted"
    /\ status[replacement[t]] # "ABSENT" /\ approvalReq[replacement[t]]
    /\ \A x \in Tasks \ {t} : replacement[x] # replacement[t]

\* A task once reported INTERRUPTED is failed, or live with nobody inside.
OfferedOrphaned ==
  \A t \in offered :
    /\ status[t] \in LiveStatuses \cup {"FAILED"}
    /\ \A p \in Procs : Executing(p) => job[p] # t

\* The grant an approval of t would be, or was, bound to is the latest event.
Grounded(t) == source[t] \in Sources => auth[source[t]] = "GRANTED"

\* From the last preflight read of an approval on, the plan is grounded or no
\* longer PLANNED: terminal events take both together.
ApprovalGrounded ==
  /\ \A p \in Procs : pc[p] \in {"ap_preview", "ap_record"} =>
       (status[job[p]] = "PLANNED" => Grounded(job[p]))
  /\ \A t \in Tasks : status[t] = "PLANNED" /\ plan[t] = "APPROVE_PLAN"
       => Grounded(t)

\* The part of the inductive invariant that is not about types.
Inv ==
  /\ LockHeld /\ JobKnown /\ QueueKnown /\ RunOwned /\ RowsAgree
  /\ Recovered /\ OfferedOrphaned /\ ApprovalGrounded

IInv == TypeOK /\ Inv

-----------------------------------------------------------------------------
(***************************************************************************)
(* Types.  The helpers first: what moving, finishing, enlisting and        *)
(* expiring do to the variables they change.                               *)
(***************************************************************************)
\* Moving a process to a label keeps the type of pc.
LEMMA GotoType ==
  ASSUME TypeOK, NEW p, NEW l \in PCs, Goto(p, l)
  PROVE  pc' \in [Procs -> PCs]
BY DEF TypeOK, Goto

\* Ending an activity keeps the types of pc, job and seen.
LEMMA FinishType ==
  ASSUME TypeOK, NEW p, Finish(p)
  PROVE  /\ pc' \in [Procs -> PCs]
         /\ job' \in [Procs -> Tasks \cup {None}]
         /\ seen' \in [Procs -> Statuses]
BY DEF TypeOK, Finish, Goto, PCs, Statuses

\* Handing a task to start_task keeps the types of pc, job and seen.
LEMMA EnlistType ==
  ASSUME TypeOK, NEW p, NEW t \in Tasks, Enlist(p, t)
  PROVE  /\ pc' \in [Procs -> PCs]
         /\ job' \in [Procs -> Tasks \cup {None}]
         /\ seen' \in [Procs -> Statuses]
BY DEF TypeOK, Enlist, Goto, PCs, Statuses

\* _expire_source_if_due keeps the types of the three columns it writes.
LEMMA ExpireType ==
  ASSUME TypeOK, NEW s, ExpireSourceIfDue(s)
  PROVE  /\ auth' \in [Sources -> AuthEvents]
         /\ status' \in [Tasks -> Statuses]
         /\ phase' \in [Tasks -> Phases]
BY DEF TypeOK, ExpireSourceIfDue, AppendTerminalEvent, AuthEvents, Statuses,
       Phases

\* Storing a preflight verdict keeps the type of ready.
LEMMA ReadyType ==
  ASSUME TypeOK, NEW p, NEW v \in BOOLEAN, ready' = [ready EXCEPT ![p] = v]
  PROVE  ready' \in [Procs -> BOOLEAN]
BY DEF TypeOK

\* set_verifying_if_running keeps the types of status and phase.
LEMMA VerifyingType ==
  ASSUME TypeOK, NEW t, SetVerifying(t)
  PROVE  status' \in [Tasks -> Statuses] /\ phase' \in [Tasks -> Phases]
<1>1. CASE status[t] = "RUNNING"
  BY <1>1 DEF TypeOK, SetVerifying, Statuses, Phases
<1>2. CASE status[t] # "RUNNING"
  BY <1>2 DEF TypeOK, SetVerifying
<1> QED BY <1>1, <1>2

\* Every program point used by an action is one of PCs.
LEMMA Labels ==
  /\ Holding \subseteq PCs
  /\ {"idle", "lock", "insert", "start", "ap_task", "ap_profile", "ap_auth",
      "ap_preview", "ap_record", "rc_lock", "pb_lock"} \subseteq PCs
  /\ {"load", "fail_planned", "pre_task", "pre_profile", "pre_auth", "claim",
      "check_auth", "check_profile", "run", "post_run", "verify", "publish",
      "fail", "rc_check", "rc_commit", "pb_read", "release"} \subseteq PCs
BY DEF PCs, Holding, BeforeClaim, AfterClaim, Recovering

\* Every step preserves the types of the variables.
LEMMA TypeStep == TypeOK /\ JobKnown /\ [Next]_vars => TypeOK'
<1> SUFFICES ASSUME TypeOK, JobKnown, [Next]_vars PROVE TypeOK'
  OBVIOUS
<1> USE DEF rows, locals, world
<1>1. ASSUME NEW s \in Sources, AuthorizeSource(s) PROVE TypeOK'
  BY <1>1
     DEF AuthorizeSource, AuthEvents, TypeOK
<1>2. ASSUME NEW s \in Sources, RevokeSource(s) PROVE TypeOK'
  BY <1>2
     DEF RevokeSource, AppendTerminalEvent, AuthEvents, Statuses, Phases,
         TypeOK
<1>3. ASSUME NEW s \in Sources, ExpireDue(s) PROVE TypeOK'
  BY <1>3, ExpireType
     DEF ExpireDue, TypeOK
<1>4. ASSUME NEW s \in Sources, DeadlinePasses(s) PROVE TypeOK'
  BY <1>4
     DEF DeadlinePasses, TypeOK
<1>5. ASSUME NEW s \in Sources, SourceDrifts(s) PROVE TypeOK'
  BY <1>5
     DEF SourceDrifts, TypeOK
<1>6. ASSUME NEW u \in Users, SetAccountStatus(u) PROVE TypeOK'
  BY <1>6
     DEF SetAccountStatus, TypeOK
<1>7. ASSUME NEW t \in Tasks, CancelPlan(t) PROVE TypeOK'
  BY <1>7
     DEF CancelPlan, Statuses, Phases, TypeOK
<1>8. ASSUME NEW p \in Procs, Crash(p) PROVE TypeOK'
  BY <1>8, FinishType, ConstantsAssumption
     DEF Crash, TypeOK
<1>9. ASSUME NEW p \in Procs, NEW r \in Requests, CreateCheck(p, r)
       PROVE  TypeOK'
  BY <1>9, GotoType, ExpireType, Labels
     DEF CreateCheck, TypeOK
<1>10. ASSUME NEW p \in Procs, NEW t \in Tasks, NEW autoStart \in BOOLEAN,
         CreateInsert(p, t, autoStart) PROVE TypeOK'
  <2>1. ask[p] \in Requests
    BY <1>10 DEF CreateInsert, JobKnown
  <2>2. rows' \in [Tasks -> Sources \cup {Synthetic}]
                   \X [Tasks -> BOOLEAN] \X [Tasks -> Users \cup {None}]
    BY <1>10, <2>1, ConstantsAssumption DEF CreateInsert, InsertRow, TypeOK, Requests
  <2> QED BY <1>10, <2>2, EnlistType, FinishType
          DEF CreateInsert, InsertRow, TypeOK, Statuses, Phases
<1>11. ASSUME NEW p \in Procs, NEW t \in Tasks, CreateReplay(p, t)
       PROVE  TypeOK'
  BY <1>11, EnlistType, FinishType
     DEF CreateReplay, TypeOK
<1>12. ASSUME NEW p \in Procs, CreateConflict(p) PROVE TypeOK'
  BY <1>12, FinishType
     DEF CreateConflict, TypeOK
<1>13. ASSUME NEW p \in Procs, StartTask(p) PROVE TypeOK'
  BY <1>13, FinishType
     DEF StartTask, JobKnown, TypeOK
<1>14. ASSUME NEW p \in Procs, NEW t \in Tasks, BeginApproval(p, t)
       PROVE  TypeOK'
  BY <1>14, GotoType, Labels
     DEF BeginApproval, Begin, TypeOK
<1>15. ASSUME NEW p \in Procs, ApprovalPreflight(p) PROVE TypeOK'
  <2>1. CASE PreflightTask(p, "ap_task", "ap_profile", status[job[p]] = "PLANNED")
    BY <2>1, GotoType, ExpireType, ReadyType, Labels DEF PreflightTask, TypeOK
  <2>2. CASE PreflightProfile(p, "ap_profile", "ap_auth")
    <3> DEFINE s == source[job[p]]
               v == ready[p] /\ ActiveAfterRead(s)
                    /\ (s \in Sources => matched[s])
    <3>1. v \in BOOLEAN
      OBVIOUS
    <3>2. ready' = [ready EXCEPT ![p] = v]
      BY <2>2 DEF PreflightProfile
    <3>3. ready' \in [Procs -> BOOLEAN]
      <4> HIDE DEF v
      <4> QED BY <3>1, <3>2, ReadyType
    <3> QED BY <2>2, <3>3, GotoType, ExpireType, Labels
            DEF PreflightProfile, TypeOK
  <2>3. CASE PreflightAuth(p, "ap_auth", "ap_preview", Finish(p))
    BY <2>3, GotoType, FinishType, ExpireType, ReadyType, Labels
       DEF PreflightAuth, TypeOK
  <2> QED BY <1>15, <2>1, <2>2, <2>3 DEF ApprovalPreflight
<1>16. ASSUME NEW p \in Procs, ApprovalPreview(p) PROVE TypeOK'
  BY <1>16, GotoType, ExpireType, Labels
     DEF ApprovalPreview, TypeOK
<1>17. ASSUME NEW p \in Procs, RecordApproval(p) PROVE TypeOK'
  <2>1. job[p] \in Tasks
    BY <1>17 DEF RecordApproval, JobKnown
  <2> QED BY <1>17, <2>1, EnlistType, FinishType
          DEF RecordApproval, TypeOK
<1>18. ASSUME NEW p \in Procs, NEW t \in Tasks, Dequeue(p, t) PROVE TypeOK'
  BY <1>18, GotoType, Labels
     DEF Dequeue, Begin, TypeOK
<1>19. ASSUME NEW p \in Procs, NEW t \in Tasks, RunTaskSync(p, t) PROVE TypeOK'
  BY <1>19, GotoType, Labels
     DEF RunTaskSync, Begin, TypeOK
<1>20. ASSUME NEW p \in Procs, AcquireLock(p, "lock", "load") PROVE TypeOK'
  BY <1>20, GotoType, FinishType, Labels
     DEF AcquireLock, TypeOK
<1>21. ASSUME NEW p \in Procs, AcquireLock(p, "pb_lock", "pb_read")
       PROVE  TypeOK'
  BY <1>21, GotoType, FinishType, Labels
     DEF AcquireLock, TypeOK
<1>22. ASSUME NEW p \in Procs, AcquireLock(p, "rc_lock", "rc_check")
       PROVE  TypeOK'
  BY <1>22, GotoType, FinishType, Labels
     DEF AcquireLock, TypeOK
<1>23. ASSUME NEW p \in Procs, ReleaseLock(p) PROVE TypeOK'
  BY <1>23, FinishType
     DEF ReleaseLock, TypeOK
<1>24. ASSUME NEW p \in Procs, RequireActiveActor(p) PROVE TypeOK'
  BY <1>24, GotoType, Labels
     DEF RequireActiveActor, TypeOK
<1>25. ASSUME NEW p \in Procs, FailPlanned(p) PROVE TypeOK'
  BY <1>25, GotoType, Labels
     DEF FailPlanned, Statuses, Phases, TypeOK
<1>26. ASSUME NEW p \in Procs, ExecutionPreflight(p) PROVE TypeOK'
  <2>1. CASE PreflightTask(p, "pre_task", "pre_profile",
         status[job[p]] = "PLANNED" /\ plan[job[p]] = "APPROVE_PLAN")
    BY <2>1, GotoType, ExpireType, ReadyType, Labels DEF PreflightTask, TypeOK
  <2>2. CASE PreflightProfile(p, "pre_profile", "pre_auth")
    <3> DEFINE s == source[job[p]]
               v == ready[p] /\ ActiveAfterRead(s)
                    /\ (s \in Sources => matched[s])
    <3>1. v \in BOOLEAN
      OBVIOUS
    <3>2. ready' = [ready EXCEPT ![p] = v]
      BY <2>2 DEF PreflightProfile
    <3>3. ready' \in [Procs -> BOOLEAN]
      <4> HIDE DEF v
      <4> QED BY <3>1, <3>2, ReadyType
    <3> QED BY <2>2, <3>3, GotoType, ExpireType, Labels
            DEF PreflightProfile, TypeOK
  <2>3. CASE PreflightAuth(p, "pre_auth", "claim",
         Goto(p, "release") /\ UNCHANGED <<job, seen>>)
    BY <2>3, GotoType, FinishType, ExpireType, ReadyType, Labels
       DEF PreflightAuth, TypeOK
  <2> QED BY <1>26, <2>1, <2>2, <2>3 DEF ExecutionPreflight
<1>27. ASSUME NEW p \in Procs, ClaimTask(p) PROVE TypeOK'
  <2>1. CASE Claimable(job[p])
    BY <1>27, <2>1, GotoType, Labels DEF ClaimTask, Statuses, Phases, TypeOK
  <2>2. CASE ~Claimable(job[p])
    BY <1>27, <2>2, GotoType, Labels DEF ClaimTask, TypeOK
  <2> QED BY <2>1, <2>2
<1>28. ASSUME NEW p \in Procs, CheckAuthorization(p) PROVE TypeOK'
  BY <1>28, GotoType, ExpireType, Labels
     DEF CheckAuthorization, TypeOK
<1>29. ASSUME NEW p \in Procs, CheckProfile(p) PROVE TypeOK'
  BY <1>29, GotoType, Labels
     DEF CheckProfile, TypeOK
<1>30. ASSUME NEW p \in Procs, VerificationEvent(p) PROVE TypeOK'
  BY <1>30, VerifyingType
     DEF VerificationEvent, TypeOK
<1>31. ASSUME NEW p \in Procs, RunReturns(p) PROVE TypeOK'
  BY <1>31, GotoType, Labels
     DEF RunReturns, TypeOK
<1>32. ASSUME NEW p \in Procs, PostRun(p) PROVE TypeOK'
  BY <1>32, GotoType, ExpireType, Labels
     DEF PostRun, TypeOK
<1>33. ASSUME NEW p \in Procs, EnterVerifying(p) PROVE TypeOK'
  BY <1>33, GotoType, VerifyingType, Labels
     DEF EnterVerifying, TypeOK
<1>34. ASSUME NEW p \in Procs, Publish(p) PROVE TypeOK'
  BY <1>34, GotoType, Labels
     DEF Publish, Statuses, Phases, TypeOK
<1>35. ASSUME NEW p \in Procs, ExecutionRaises(p) PROVE TypeOK'
  BY <1>35, GotoType, Labels
     DEF ExecutionRaises, TypeOK
<1>36. ASSUME NEW p \in Procs, FailExecution(p) PROVE TypeOK'
  BY <1>36, GotoType, Labels
     DEF FailExecution, Statuses, Phases, TypeOK
<1>37. ASSUME NEW p \in Procs, NEW t \in Tasks, BeginProbe(p, t) PROVE TypeOK'
  BY <1>37, GotoType, Labels
     DEF BeginProbe, Begin, TypeOK
<1>38. ASSUME NEW p \in Procs, ProbeRead(p) PROVE TypeOK'
  <2>1. job[p] \in Tasks
    BY <1>38 DEF ProbeRead, JobKnown
  <2> QED BY <1>38, <2>1, GotoType, Labels
          DEF ProbeRead, TypeOK
<1>39. ASSUME NEW p \in Procs, NEW t \in Tasks, NEW x \in LiveStatuses,
         BeginRecovery(p, t, x) PROVE TypeOK'
  BY <1>39, GotoType, Labels
     DEF BeginRecovery, Begin, LiveStatuses, Statuses, TypeOK
<1>40. ASSUME NEW p \in Procs, RecoveryCheck(p) PROVE TypeOK'
  BY <1>40, GotoType, ExpireType, Labels
     DEF RecoveryCheck, TypeOK
<1>41. ASSUME NEW p \in Procs, RecoveryAborts(p) PROVE TypeOK'
  BY <1>41, GotoType, Labels
     DEF RecoveryAborts, TypeOK
<1>42. ASSUME NEW p \in Procs, NEW r \in Tasks, NEW u \in Users,
         RecoveryCommit(p, r, u) PROVE TypeOK'
  <2>1. job[p] \in Tasks
    BY <1>42 DEF RecoveryCommit, JobKnown
  <2> QED BY <1>42, <2>1, GotoType, Labels
          DEF RecoveryCommit, Statuses, Phases, TypeOK
<1>43. CASE UNCHANGED vars
  BY <1>43 DEF vars, TypeOK
<1> QED
  BY <1>1, <1>2, <1>3, <1>4, <1>5, <1>6, <1>7, <1>8, <1>9, <1>10, <1>11,
     <1>12, <1>13, <1>14, <1>15, <1>16, <1>17, <1>18, <1>19, <1>20, <1>21,
     <1>22, <1>23, <1>24, <1>25, <1>26, <1>27, <1>28, <1>29, <1>30, <1>31,
     <1>32, <1>33, <1>34, <1>35, <1>36, <1>37, <1>38, <1>39, <1>40, <1>41,
     <1>42, <1>43
     DEF Next, Environment, Proceed, PoolTakes, Client
-----------------------------------------------------------------------------
(***************************************************************************)
(* The invariant.                                                          *)
(***************************************************************************)

\* What a read of a source can do: fail some PLANNED rows closed, and take the
\* grant from under no row that stays PLANNED.
LEMMA ExpireEffect ==
  ASSUME TypeOK, NEW s, ExpireSourceIfDue(s)
  PROVE  \A t \in Tasks :
           /\ \/ status'[t] = status[t] /\ phase'[t] = phase[t]
              \/ /\ status[t] = "PLANNED" /\ status'[t] = "FAILED"
                 /\ phase'[t] = "failed_authorization"
           /\ status'[t] = "PLANNED" =>
                (source[t] \in Sources => auth'[source[t]] = auth[source[t]])
<1>1. CASE ExpiryDue(s)
  BY <1>1 DEF ExpireSourceIfDue, AppendTerminalEvent, Pending, TypeOK
<1>2. CASE ~ExpiryDue(s)
  BY <1>2 DEF ExpireSourceIfDue
<1> QED BY <1>1, <1>2

\* Only the holder of a lock is past AcquireLock.
LEMMA LockHeldStep == IInv /\ [Next]_vars => LockHeld'
<1> SUFFICES ASSUME TypeOK, Inv, TypeOK', [Next]_vars PROVE LockHeld'
  BY TypeStep DEF IInv, Inv
<1> USE ConstantsAssumption
    DEF Inv, TypeOK, LockHeld, JobKnown, Executing, Holding, BeforeClaim,
        AfterClaim, Recovering, rows, locals, world
<1>1. ASSUME NEW s \in Sources, AuthorizeSource(s) PROVE LockHeld'
  BY <1>1 DEF AuthorizeSource
<1>2. ASSUME NEW s \in Sources, RevokeSource(s) PROVE LockHeld'
  BY <1>2 DEF RevokeSource, AppendTerminalEvent, Pending
<1>3. ASSUME NEW s \in Sources, ExpireDue(s) PROVE LockHeld'
  BY <1>3, ExpireEffect DEF ExpireDue
<1>4. ASSUME NEW s \in Sources, DeadlinePasses(s) PROVE LockHeld'
  BY <1>4 DEF DeadlinePasses
<1>5. ASSUME NEW s \in Sources, SourceDrifts(s) PROVE LockHeld'
  BY <1>5 DEF SourceDrifts
<1>6. ASSUME NEW u \in Users, SetAccountStatus(u) PROVE LockHeld'
  BY <1>6 DEF SetAccountStatus
<1>7. ASSUME NEW t \in Tasks, CancelPlan(t) PROVE LockHeld'
  BY <1>7 DEF CancelPlan, PlanUndecided
<1>8. ASSUME NEW p \in Procs, Crash(p) PROVE LockHeld'
  BY <1>8 DEF Crash, Finish, Goto
<1>9. ASSUME NEW p \in Procs, NEW r \in Requests, CreateCheck(p, r)
       PROVE  LockHeld'
  BY <1>9, ExpireEffect DEF CreateCheck, Goto
<1>10. ASSUME NEW p \in Procs, NEW t \in Tasks, NEW autoStart \in BOOLEAN,
         CreateInsert(p, t, autoStart) PROVE LockHeld'
  BY <1>10 DEF CreateInsert, InsertRow, Enlist, Finish, Goto, Requests
<1>11. ASSUME NEW p \in Procs, NEW t \in Tasks, CreateReplay(p, t)
       PROVE  LockHeld'
  BY <1>11 DEF CreateReplay, Enlist, Finish, Goto
<1>12. ASSUME NEW p \in Procs, CreateConflict(p) PROVE LockHeld'
  BY <1>12 DEF CreateConflict, Finish, Goto
<1>13. ASSUME NEW p \in Procs, StartTask(p) PROVE LockHeld'
  BY <1>13 DEF StartTask, Finish, Goto
<1>14. ASSUME NEW p \in Procs, NEW t \in Tasks, BeginApproval(p, t)
       PROVE  LockHeld'
  BY <1>14 DEF BeginApproval, Begin, Goto
<1>15. ASSUME NEW p \in Procs, ApprovalPreflight(p) PROVE LockHeld'
  BY <1>15, ExpireEffect
     DEF ApprovalPreflight, PreflightTask, PreflightProfile, PreflightAuth,
         ActiveAfterRead, Finish, Goto
<1>16. ASSUME NEW p \in Procs, ApprovalPreview(p) PROVE LockHeld'
  BY <1>16, ExpireEffect DEF ApprovalPreview, Goto
<1>17. ASSUME NEW p \in Procs, RecordApproval(p) PROVE LockHeld'
  <2>1. CASE PlanUndecided(job[p]) /\ approvalReq[job[p]]
    BY <1>17, <2>1 DEF RecordApproval, Enlist, Goto
  <2>2. CASE ~(PlanUndecided(job[p]) /\ approvalReq[job[p]])
    BY <1>17, <2>2 DEF RecordApproval, Finish, Goto
  <2> QED BY <2>1, <2>2
<1>18. ASSUME NEW p \in Procs, NEW t \in Tasks, Dequeue(p, t) PROVE LockHeld'
  BY <1>18 DEF Dequeue, Begin, Goto
<1>19. ASSUME NEW p \in Procs, NEW t \in Tasks, RunTaskSync(p, t)
       PROVE  LockHeld'
  BY <1>19 DEF RunTaskSync, Begin, Goto
<1>20. ASSUME NEW p \in Procs, AcquireLock(p, "lock", "load") PROVE LockHeld'
  BY <1>20 DEF AcquireLock, Finish, Goto
<1>21. ASSUME NEW p \in Procs, AcquireLock(p, "pb_lock", "pb_read")
       PROVE  LockHeld'
  BY <1>21 DEF AcquireLock, Finish, Goto
<1>22. ASSUME NEW p \in Procs, AcquireLock(p, "rc_lock", "rc_check")
       PROVE  LockHeld'
  BY <1>22 DEF AcquireLock, Finish, Goto
<1>23. ASSUME NEW p \in Procs, ReleaseLock(p) PROVE LockHeld'
  BY <1>23 DEF ReleaseLock, Finish, Goto
<1>24. ASSUME NEW p \in Procs, RequireActiveActor(p) PROVE LockHeld'
  BY <1>24 DEF RequireActiveActor, Goto
<1>25. ASSUME NEW p \in Procs, FailPlanned(p) PROVE LockHeld'
  BY <1>25 DEF FailPlanned, Goto
<1>26. ASSUME NEW p \in Procs, ExecutionPreflight(p) PROVE LockHeld'
  BY <1>26, ExpireEffect
     DEF ExecutionPreflight, PreflightTask, PreflightProfile, PreflightAuth,
         Goto
<1>27. ASSUME NEW p \in Procs, ClaimTask(p) PROVE LockHeld'
  BY <1>27 DEF ClaimTask, Claimable, Goto
<1>28. ASSUME NEW p \in Procs, CheckAuthorization(p) PROVE LockHeld'
  BY <1>28, ExpireEffect DEF CheckAuthorization, Goto
<1>29. ASSUME NEW p \in Procs, CheckProfile(p) PROVE LockHeld'
  BY <1>29 DEF CheckProfile, Goto
<1>30. ASSUME NEW p \in Procs, VerificationEvent(p) PROVE LockHeld'
  BY <1>30 DEF VerificationEvent, SetVerifying
<1>31. ASSUME NEW p \in Procs, RunReturns(p) PROVE LockHeld'
  BY <1>31 DEF RunReturns, Goto
<1>32. ASSUME NEW p \in Procs, PostRun(p) PROVE LockHeld'
  BY <1>32, ExpireEffect DEF PostRun, Goto
<1>33. ASSUME NEW p \in Procs, EnterVerifying(p) PROVE LockHeld'
  BY <1>33 DEF EnterVerifying, SetVerifying, Goto
<1>34. ASSUME NEW p \in Procs, Publish(p) PROVE LockHeld'
  BY <1>34 DEF Publish, Goto
<1>35. ASSUME NEW p \in Procs, ExecutionRaises(p) PROVE LockHeld'
  BY <1>35 DEF ExecutionRaises, Goto
<1>36. ASSUME NEW p \in Procs, FailExecution(p) PROVE LockHeld'
  BY <1>36 DEF FailExecution, Goto
<1>37. ASSUME NEW p \in Procs, NEW t \in Tasks, BeginProbe(p, t)
       PROVE  LockHeld'
  BY <1>37 DEF BeginProbe, Begin, Goto
<1>38. ASSUME NEW p \in Procs, ProbeRead(p) PROVE LockHeld'
  BY <1>38 DEF ProbeRead, Goto
<1>39. ASSUME NEW p \in Procs, NEW t \in Tasks, NEW x \in LiveStatuses,
         BeginRecovery(p, t, x) PROVE LockHeld'
  BY <1>39 DEF BeginRecovery, Begin, Goto
<1>40. ASSUME NEW p \in Procs, RecoveryCheck(p) PROVE LockHeld'
  BY <1>40, ExpireEffect DEF RecoveryCheck, Recoverable, Goto
<1>41. ASSUME NEW p \in Procs, RecoveryAborts(p) PROVE LockHeld'
  BY <1>41 DEF RecoveryAborts, Goto
<1>42. ASSUME NEW p \in Procs, NEW r \in Tasks, NEW u \in Users,
         RecoveryCommit(p, r, u) PROVE LockHeld'
  BY <1>42 DEF RecoveryCommit, Recoverable, Goto
<1>43. CASE UNCHANGED vars
  BY <1>43 DEF vars
<1> HIDE ConstantsAssumption
         DEF Inv, TypeOK, LockHeld, JobKnown, Executing, Holding,
             BeforeClaim, AfterClaim, Recovering, rows, locals, world
<1> QED
  BY <1>1, <1>2, <1>3, <1>4, <1>5, <1>6, <1>7, <1>8, <1>9, <1>10, <1>11,
     <1>12, <1>13, <1>14, <1>15, <1>16, <1>17, <1>18, <1>19, <1>20, <1>21,
     <1>22, <1>23, <1>24, <1>25, <1>26, <1>27, <1>28, <1>29, <1>30, <1>31,
     <1>32, <1>33, <1>34, <1>35, <1>36, <1>37, <1>38, <1>39, <1>40, <1>41,
     <1>42, <1>43
     DEF Next, Environment, Proceed, PoolTakes, Client

\* Jobs name existing rows.
LEMMA JobKnownStep == IInv /\ [Next]_vars => JobKnown'
<1> SUFFICES ASSUME TypeOK, Inv, TypeOK', [Next]_vars PROVE JobKnown'
  BY TypeStep DEF IInv, Inv
<1> USE ConstantsAssumption
    DEF Inv, TypeOK, JobKnown, QueueKnown, rows, locals, world
<1>1. ASSUME NEW s \in Sources, AuthorizeSource(s) PROVE JobKnown'
  BY <1>1 DEF AuthorizeSource
<1>2. ASSUME NEW s \in Sources, RevokeSource(s) PROVE JobKnown'
  BY <1>2 DEF RevokeSource, AppendTerminalEvent, Pending
<1>3. ASSUME NEW s \in Sources, ExpireDue(s) PROVE JobKnown'
  BY <1>3, ExpireEffect DEF ExpireDue
<1>4. ASSUME NEW s \in Sources, DeadlinePasses(s) PROVE JobKnown'
  BY <1>4 DEF DeadlinePasses
<1>5. ASSUME NEW s \in Sources, SourceDrifts(s) PROVE JobKnown'
  BY <1>5 DEF SourceDrifts
<1>6. ASSUME NEW u \in Users, SetAccountStatus(u) PROVE JobKnown'
  BY <1>6 DEF SetAccountStatus
<1>7. ASSUME NEW t \in Tasks, CancelPlan(t) PROVE JobKnown'
  BY <1>7 DEF CancelPlan, PlanUndecided
<1>8. ASSUME NEW p \in Procs, Crash(p) PROVE JobKnown'
  BY <1>8 DEF Crash, Finish, Goto
<1>9. ASSUME NEW p \in Procs, NEW r \in Requests, CreateCheck(p, r)
       PROVE  JobKnown'
  BY <1>9, ExpireEffect DEF CreateCheck, Goto
<1>10. ASSUME NEW p \in Procs, NEW t \in Tasks, NEW autoStart \in BOOLEAN,
         CreateInsert(p, t, autoStart) PROVE JobKnown'
  BY <1>10 DEF CreateInsert, InsertRow, Enlist, Finish, Goto, Requests
<1>11. ASSUME NEW p \in Procs, NEW t \in Tasks, CreateReplay(p, t)
       PROVE  JobKnown'
  BY <1>11 DEF CreateReplay, Enlist, Finish, Goto
<1>12. ASSUME NEW p \in Procs, CreateConflict(p) PROVE JobKnown'
  BY <1>12 DEF CreateConflict, Finish, Goto
<1>13. ASSUME NEW p \in Procs, StartTask(p) PROVE JobKnown'
  BY <1>13 DEF StartTask, Finish, Goto
<1>14. ASSUME NEW p \in Procs, NEW t \in Tasks, BeginApproval(p, t)
       PROVE  JobKnown'
  BY <1>14 DEF BeginApproval, Begin, Goto
<1>15. ASSUME NEW p \in Procs, ApprovalPreflight(p) PROVE JobKnown'
  <2>1. CASE PreflightTask(p, "ap_task", "ap_profile", status[job[p]] = "PLANNED")
    BY <2>1, ExpireEffect DEF PreflightTask, Goto
  <2>2. CASE PreflightProfile(p, "ap_profile", "ap_auth")
    BY <2>2, ExpireEffect DEF PreflightProfile, Goto
  <2>3. CASE PreflightAuth(p, "ap_auth", "ap_preview", Finish(p))
    BY <2>3, ExpireEffect DEF PreflightAuth, Goto, Finish
  <2> QED BY <1>15, <2>1, <2>2, <2>3 DEF ApprovalPreflight
<1>16. ASSUME NEW p \in Procs, ApprovalPreview(p) PROVE JobKnown'
  BY <1>16, ExpireEffect DEF ApprovalPreview, Goto
<1>17. ASSUME NEW p \in Procs, RecordApproval(p) PROVE JobKnown'
  <2>1. CASE PlanUndecided(job[p]) /\ approvalReq[job[p]]
    BY <1>17, <2>1 DEF RecordApproval, Enlist, Goto
  <2>2. CASE ~(PlanUndecided(job[p]) /\ approvalReq[job[p]])
    BY <1>17, <2>2 DEF RecordApproval, Finish, Goto
  <2> QED BY <2>1, <2>2
<1>18. ASSUME NEW p \in Procs, NEW t \in Tasks, Dequeue(p, t) PROVE JobKnown'
  BY <1>18 DEF Dequeue, Begin, Goto
<1>19. ASSUME NEW p \in Procs, NEW t \in Tasks, RunTaskSync(p, t)
       PROVE  JobKnown'
  BY <1>19 DEF RunTaskSync, Begin, Goto
<1>20. ASSUME NEW p \in Procs, AcquireLock(p, "lock", "load") PROVE JobKnown'
  BY <1>20 DEF AcquireLock, Finish, Goto
<1>21. ASSUME NEW p \in Procs, AcquireLock(p, "pb_lock", "pb_read")
       PROVE  JobKnown'
  BY <1>21 DEF AcquireLock, Finish, Goto
<1>22. ASSUME NEW p \in Procs, AcquireLock(p, "rc_lock", "rc_check")
       PROVE  JobKnown'
  BY <1>22 DEF AcquireLock, Finish, Goto
<1>23. ASSUME NEW p \in Procs, ReleaseLock(p) PROVE JobKnown'
  BY <1>23 DEF ReleaseLock, Finish, Goto
<1>24. ASSUME NEW p \in Procs, RequireActiveActor(p) PROVE JobKnown'
  BY <1>24 DEF RequireActiveActor, Goto
<1>25. ASSUME NEW p \in Procs, FailPlanned(p) PROVE JobKnown'
  BY <1>25 DEF FailPlanned, Goto
<1>26. ASSUME NEW p \in Procs, ExecutionPreflight(p) PROVE JobKnown'
  <2>1. CASE PreflightTask(p, "pre_task", "pre_profile",
         status[job[p]] = "PLANNED" /\ plan[job[p]] = "APPROVE_PLAN")
    BY <2>1, ExpireEffect DEF PreflightTask, Goto
  <2>2. CASE PreflightProfile(p, "pre_profile", "pre_auth")
    BY <2>2, ExpireEffect DEF PreflightProfile, Goto
  <2>3. CASE PreflightAuth(p, "pre_auth", "claim",
         Goto(p, "release") /\ UNCHANGED <<job, seen>>)
    BY <2>3, ExpireEffect DEF PreflightAuth, Goto
  <2> QED BY <1>26, <2>1, <2>2, <2>3 DEF ExecutionPreflight
<1>27. ASSUME NEW p \in Procs, ClaimTask(p) PROVE JobKnown'
  BY <1>27 DEF ClaimTask, Claimable, Goto
<1>28. ASSUME NEW p \in Procs, CheckAuthorization(p) PROVE JobKnown'
  BY <1>28, ExpireEffect DEF CheckAuthorization, Goto
<1>29. ASSUME NEW p \in Procs, CheckProfile(p) PROVE JobKnown'
  BY <1>29 DEF CheckProfile, Goto
<1>30. ASSUME NEW p \in Procs, VerificationEvent(p) PROVE JobKnown'
  BY <1>30 DEF VerificationEvent, SetVerifying
<1>31. ASSUME NEW p \in Procs, RunReturns(p) PROVE JobKnown'
  BY <1>31 DEF RunReturns, Goto
<1>32. ASSUME NEW p \in Procs, PostRun(p) PROVE JobKnown'
  BY <1>32, ExpireEffect DEF PostRun, Goto
<1>33. ASSUME NEW p \in Procs, EnterVerifying(p) PROVE JobKnown'
  BY <1>33 DEF EnterVerifying, SetVerifying, Goto
<1>34. ASSUME NEW p \in Procs, Publish(p) PROVE JobKnown'
  BY <1>34 DEF Publish, Goto
<1>35. ASSUME NEW p \in Procs, ExecutionRaises(p) PROVE JobKnown'
  BY <1>35 DEF ExecutionRaises, Goto, AfterClaim
<1>36. ASSUME NEW p \in Procs, FailExecution(p) PROVE JobKnown'
  BY <1>36 DEF FailExecution, Goto
<1>37. ASSUME NEW p \in Procs, NEW t \in Tasks, BeginProbe(p, t)
       PROVE  JobKnown'
  BY <1>37 DEF BeginProbe, Begin, Goto, LiveStatuses
<1>38. ASSUME NEW p \in Procs, ProbeRead(p) PROVE JobKnown'
  BY <1>38 DEF ProbeRead, Goto
<1>39. ASSUME NEW p \in Procs, NEW t \in Tasks, NEW x \in LiveStatuses,
         BeginRecovery(p, t, x) PROVE JobKnown'
  BY <1>39 DEF BeginRecovery, Begin, Goto
<1>40. ASSUME NEW p \in Procs, RecoveryCheck(p) PROVE JobKnown'
  BY <1>40, ExpireEffect DEF RecoveryCheck, Recoverable, Goto
<1>41. ASSUME NEW p \in Procs, RecoveryAborts(p) PROVE JobKnown'
  BY <1>41 DEF RecoveryAborts, Goto
<1>42. ASSUME NEW p \in Procs, NEW r \in Tasks, NEW u \in Users,
         RecoveryCommit(p, r, u) PROVE JobKnown'
  BY <1>42 DEF RecoveryCommit, Recoverable, Goto
<1>43. CASE UNCHANGED vars
  BY <1>43 DEF vars
<1> HIDE ConstantsAssumption
         DEF Inv, TypeOK, JobKnown, QueueKnown, rows, locals, world
<1> QED
  BY <1>1, <1>2, <1>3, <1>4, <1>5, <1>6, <1>7, <1>8, <1>9, <1>10, <1>11,
     <1>12, <1>13, <1>14, <1>15, <1>16, <1>17, <1>18, <1>19, <1>20, <1>21,
     <1>22, <1>23, <1>24, <1>25, <1>26, <1>27, <1>28, <1>29, <1>30, <1>31,
     <1>32, <1>33, <1>34, <1>35, <1>36, <1>37, <1>38, <1>39, <1>40, <1>41,
     <1>42, <1>43
     DEF Next, Environment, Proceed, PoolTakes, Client

\* Queued futures name existing rows.
LEMMA QueueKnownStep == IInv /\ [Next]_vars => QueueKnown'
<1> SUFFICES ASSUME TypeOK, Inv, TypeOK', [Next]_vars PROVE QueueKnown'
  BY TypeStep DEF IInv, Inv
<1> USE ConstantsAssumption
    DEF Inv, TypeOK, JobKnown, QueueKnown, rows, locals, world
<1>1. ASSUME NEW s \in Sources, AuthorizeSource(s) PROVE QueueKnown'
  BY <1>1 DEF AuthorizeSource
<1>2. ASSUME NEW s \in Sources, RevokeSource(s) PROVE QueueKnown'
  BY <1>2 DEF RevokeSource, AppendTerminalEvent, Pending
<1>3. ASSUME NEW s \in Sources, ExpireDue(s) PROVE QueueKnown'
  BY <1>3, ExpireEffect DEF ExpireDue
<1>4. ASSUME NEW s \in Sources, DeadlinePasses(s) PROVE QueueKnown'
  BY <1>4 DEF DeadlinePasses
<1>5. ASSUME NEW s \in Sources, SourceDrifts(s) PROVE QueueKnown'
  BY <1>5 DEF SourceDrifts
<1>6. ASSUME NEW u \in Users, SetAccountStatus(u) PROVE QueueKnown'
  BY <1>6 DEF SetAccountStatus
<1>7. ASSUME NEW t \in Tasks, CancelPlan(t) PROVE QueueKnown'
  BY <1>7 DEF CancelPlan, PlanUndecided
<1>8. ASSUME NEW p \in Procs, Crash(p) PROVE QueueKnown'
  BY <1>8 DEF Crash, Finish, Goto
<1>9. ASSUME NEW p \in Procs, NEW r \in Requests, CreateCheck(p, r)
       PROVE  QueueKnown'
  BY <1>9, ExpireEffect DEF CreateCheck, Goto
<1>10. ASSUME NEW p \in Procs, NEW t \in Tasks, NEW autoStart \in BOOLEAN,
         CreateInsert(p, t, autoStart) PROVE QueueKnown'
  BY <1>10 DEF CreateInsert, InsertRow, Enlist, Finish, Goto, Requests
<1>11. ASSUME NEW p \in Procs, NEW t \in Tasks, CreateReplay(p, t)
       PROVE  QueueKnown'
  BY <1>11 DEF CreateReplay, Enlist, Finish, Goto
<1>12. ASSUME NEW p \in Procs, CreateConflict(p) PROVE QueueKnown'
  BY <1>12 DEF CreateConflict, Finish, Goto
<1>13. ASSUME NEW p \in Procs, StartTask(p) PROVE QueueKnown'
  BY <1>13 DEF StartTask, Finish, Goto
<1>14. ASSUME NEW p \in Procs, NEW t \in Tasks, BeginApproval(p, t)
       PROVE  QueueKnown'
  BY <1>14 DEF BeginApproval, Begin, Goto
<1>15. ASSUME NEW p \in Procs, ApprovalPreflight(p) PROVE QueueKnown'
  BY <1>15, ExpireEffect
     DEF ApprovalPreflight, PreflightTask, PreflightProfile, PreflightAuth,
         ActiveAfterRead, Finish, Goto
<1>16. ASSUME NEW p \in Procs, ApprovalPreview(p) PROVE QueueKnown'
  BY <1>16, ExpireEffect DEF ApprovalPreview, Goto
<1>17. ASSUME NEW p \in Procs, RecordApproval(p) PROVE QueueKnown'
  BY <1>17 DEF RecordApproval, PlanUndecided, Enlist, Finish, Goto
<1>18. ASSUME NEW p \in Procs, NEW t \in Tasks, Dequeue(p, t) PROVE QueueKnown'
  BY <1>18 DEF Dequeue, Begin, Goto
<1>19. ASSUME NEW p \in Procs, NEW t \in Tasks, RunTaskSync(p, t)
       PROVE  QueueKnown'
  BY <1>19 DEF RunTaskSync, Begin, Goto
<1>20. ASSUME NEW p \in Procs, AcquireLock(p, "lock", "load") PROVE QueueKnown'
  BY <1>20 DEF AcquireLock, Finish, Goto
<1>21. ASSUME NEW p \in Procs, AcquireLock(p, "pb_lock", "pb_read")
       PROVE  QueueKnown'
  BY <1>21 DEF AcquireLock, Finish, Goto
<1>22. ASSUME NEW p \in Procs, AcquireLock(p, "rc_lock", "rc_check")
       PROVE  QueueKnown'
  BY <1>22 DEF AcquireLock, Finish, Goto
<1>23. ASSUME NEW p \in Procs, ReleaseLock(p) PROVE QueueKnown'
  BY <1>23 DEF ReleaseLock, Finish, Goto
<1>24. ASSUME NEW p \in Procs, RequireActiveActor(p) PROVE QueueKnown'
  BY <1>24 DEF RequireActiveActor, Goto
<1>25. ASSUME NEW p \in Procs, FailPlanned(p) PROVE QueueKnown'
  BY <1>25 DEF FailPlanned, Goto
<1>26. ASSUME NEW p \in Procs, ExecutionPreflight(p) PROVE QueueKnown'
  BY <1>26, ExpireEffect
     DEF ExecutionPreflight, PreflightTask, PreflightProfile, PreflightAuth,
         Goto
<1>27. ASSUME NEW p \in Procs, ClaimTask(p) PROVE QueueKnown'
  BY <1>27 DEF ClaimTask, Claimable, Goto
<1>28. ASSUME NEW p \in Procs, CheckAuthorization(p) PROVE QueueKnown'
  BY <1>28, ExpireEffect DEF CheckAuthorization, Goto
<1>29. ASSUME NEW p \in Procs, CheckProfile(p) PROVE QueueKnown'
  BY <1>29 DEF CheckProfile, Goto
<1>30. ASSUME NEW p \in Procs, VerificationEvent(p) PROVE QueueKnown'
  BY <1>30 DEF VerificationEvent, SetVerifying
<1>31. ASSUME NEW p \in Procs, RunReturns(p) PROVE QueueKnown'
  BY <1>31 DEF RunReturns, Goto
<1>32. ASSUME NEW p \in Procs, PostRun(p) PROVE QueueKnown'
  BY <1>32, ExpireEffect DEF PostRun, Goto
<1>33. ASSUME NEW p \in Procs, EnterVerifying(p) PROVE QueueKnown'
  BY <1>33 DEF EnterVerifying, SetVerifying, Goto
<1>34. ASSUME NEW p \in Procs, Publish(p) PROVE QueueKnown'
  BY <1>34 DEF Publish, Goto
<1>35. ASSUME NEW p \in Procs, ExecutionRaises(p) PROVE QueueKnown'
  BY <1>35 DEF ExecutionRaises, Goto
<1>36. ASSUME NEW p \in Procs, FailExecution(p) PROVE QueueKnown'
  BY <1>36 DEF FailExecution, Goto
<1>37. ASSUME NEW p \in Procs, NEW t \in Tasks, BeginProbe(p, t)
       PROVE  QueueKnown'
  BY <1>37 DEF BeginProbe, Begin, Goto
<1>38. ASSUME NEW p \in Procs, ProbeRead(p) PROVE QueueKnown'
  BY <1>38 DEF ProbeRead, Goto
<1>39. ASSUME NEW p \in Procs, NEW t \in Tasks, NEW x \in LiveStatuses,
         BeginRecovery(p, t, x) PROVE QueueKnown'
  BY <1>39 DEF BeginRecovery, Begin, Goto
<1>40. ASSUME NEW p \in Procs, RecoveryCheck(p) PROVE QueueKnown'
  BY <1>40, ExpireEffect DEF RecoveryCheck, Recoverable, Goto
<1>41. ASSUME NEW p \in Procs, RecoveryAborts(p) PROVE QueueKnown'
  BY <1>41 DEF RecoveryAborts, Goto
<1>42. ASSUME NEW p \in Procs, NEW r \in Tasks, NEW u \in Users,
         RecoveryCommit(p, r, u) PROVE QueueKnown'
  BY <1>42 DEF RecoveryCommit, Recoverable, Goto
<1>43. CASE UNCHANGED vars
  BY <1>43 DEF vars
<1> HIDE ConstantsAssumption
         DEF Inv, TypeOK, JobKnown, QueueKnown, rows, locals, world
<1> QED
  BY <1>1, <1>2, <1>3, <1>4, <1>5, <1>6, <1>7, <1>8, <1>9, <1>10, <1>11,
     <1>12, <1>13, <1>14, <1>15, <1>16, <1>17, <1>18, <1>19, <1>20, <1>21,
     <1>22, <1>23, <1>24, <1>25, <1>26, <1>27, <1>28, <1>29, <1>30, <1>31,
     <1>32, <1>33, <1>34, <1>35, <1>36, <1>37, <1>38, <1>39, <1>40, <1>41,
     <1>42, <1>43
     DEF Next, Environment, Proceed, PoolTakes, Client

\* Nobody but the process inside an attempt changes its row.
LEMMA RunOwnedStep == IInv /\ [Next]_vars => RunOwned'
<1> SUFFICES ASSUME TypeOK, Inv, TypeOK', [Next]_vars PROVE RunOwned'
  BY TypeStep DEF IInv, Inv
<1> USE ConstantsAssumption
    DEF Inv, TypeOK, LockHeld, JobKnown, RunOwned, Executing, Holding,
        BeforeClaim, AfterClaim, Recovering, LiveStatuses, rows, locals,
        world
<1>1. ASSUME NEW s \in Sources, AuthorizeSource(s) PROVE RunOwned'
  BY <1>1 DEF AuthorizeSource
<1>2. ASSUME NEW s \in Sources, RevokeSource(s) PROVE RunOwned'
  BY <1>2 DEF RevokeSource, AppendTerminalEvent, Pending
<1>3. ASSUME NEW s \in Sources, ExpireDue(s) PROVE RunOwned'
  BY <1>3, ExpireEffect DEF ExpireDue
<1>4. ASSUME NEW s \in Sources, DeadlinePasses(s) PROVE RunOwned'
  BY <1>4 DEF DeadlinePasses
<1>5. ASSUME NEW s \in Sources, SourceDrifts(s) PROVE RunOwned'
  BY <1>5 DEF SourceDrifts
<1>6. ASSUME NEW u \in Users, SetAccountStatus(u) PROVE RunOwned'
  BY <1>6 DEF SetAccountStatus
<1>7. ASSUME NEW t \in Tasks, CancelPlan(t) PROVE RunOwned'
  BY <1>7 DEF CancelPlan, PlanUndecided
<1>8. ASSUME NEW p \in Procs, Crash(p) PROVE RunOwned'
  BY <1>8 DEF Crash, Finish, Goto
<1>9. ASSUME NEW p \in Procs, NEW r \in Requests, CreateCheck(p, r)
       PROVE  RunOwned'
  BY <1>9, ExpireEffect DEF CreateCheck, Goto
<1>10. ASSUME NEW p \in Procs, NEW t \in Tasks, NEW autoStart \in BOOLEAN,
         CreateInsert(p, t, autoStart) PROVE RunOwned'
  BY <1>10 DEF CreateInsert, InsertRow, Enlist, Finish, Goto, Requests
<1>11. ASSUME NEW p \in Procs, NEW t \in Tasks, CreateReplay(p, t)
       PROVE  RunOwned'
  BY <1>11 DEF CreateReplay, Enlist, Finish, Goto
<1>12. ASSUME NEW p \in Procs, CreateConflict(p) PROVE RunOwned'
  BY <1>12 DEF CreateConflict, Finish, Goto
<1>13. ASSUME NEW p \in Procs, StartTask(p) PROVE RunOwned'
  BY <1>13 DEF StartTask, Finish, Goto
<1>14. ASSUME NEW p \in Procs, NEW t \in Tasks, BeginApproval(p, t)
       PROVE  RunOwned'
  BY <1>14 DEF BeginApproval, Begin, Goto
<1>15. ASSUME NEW p \in Procs, ApprovalPreflight(p) PROVE RunOwned'
  <2>1. CASE PreflightTask(p, "ap_task", "ap_profile", status[job[p]] = "PLANNED")
    BY <2>1, ExpireEffect DEF PreflightTask, Goto
  <2>2. CASE PreflightProfile(p, "ap_profile", "ap_auth")
    BY <2>2, ExpireEffect DEF PreflightProfile, Goto
  <2>3. CASE PreflightAuth(p, "ap_auth", "ap_preview", Finish(p))
    BY <2>3, ExpireEffect DEF PreflightAuth, Goto, Finish
  <2> QED BY <1>15, <2>1, <2>2, <2>3 DEF ApprovalPreflight
<1>16. ASSUME NEW p \in Procs, ApprovalPreview(p) PROVE RunOwned'
  BY <1>16, ExpireEffect DEF ApprovalPreview, Goto
<1>17. ASSUME NEW p \in Procs, RecordApproval(p) PROVE RunOwned'
  BY <1>17 DEF RecordApproval, PlanUndecided, Enlist, Finish, Goto
<1>18. ASSUME NEW p \in Procs, NEW t \in Tasks, Dequeue(p, t) PROVE RunOwned'
  BY <1>18 DEF Dequeue, Begin, Goto
<1>19. ASSUME NEW p \in Procs, NEW t \in Tasks, RunTaskSync(p, t)
       PROVE  RunOwned'
  BY <1>19 DEF RunTaskSync, Begin, Goto
<1>20. ASSUME NEW p \in Procs, AcquireLock(p, "lock", "load") PROVE RunOwned'
  BY <1>20 DEF AcquireLock, Finish, Goto
<1>21. ASSUME NEW p \in Procs, AcquireLock(p, "pb_lock", "pb_read")
       PROVE  RunOwned'
  BY <1>21 DEF AcquireLock, Finish, Goto
<1>22. ASSUME NEW p \in Procs, AcquireLock(p, "rc_lock", "rc_check")
       PROVE  RunOwned'
  BY <1>22 DEF AcquireLock, Finish, Goto
<1>23. ASSUME NEW p \in Procs, ReleaseLock(p) PROVE RunOwned'
  BY <1>23 DEF ReleaseLock, Finish, Goto
<1>24. ASSUME NEW p \in Procs, RequireActiveActor(p) PROVE RunOwned'
  BY <1>24 DEF RequireActiveActor, Goto
<1>25. ASSUME NEW p \in Procs, FailPlanned(p) PROVE RunOwned'
  BY <1>25 DEF FailPlanned, Goto
<1>26. ASSUME NEW p \in Procs, ExecutionPreflight(p) PROVE RunOwned'
  <2>1. CASE PreflightTask(p, "pre_task", "pre_profile",
         status[job[p]] = "PLANNED" /\ plan[job[p]] = "APPROVE_PLAN")
    BY <2>1, ExpireEffect DEF PreflightTask, Goto
  <2>2. CASE PreflightProfile(p, "pre_profile", "pre_auth")
    BY <2>2, ExpireEffect DEF PreflightProfile, Goto
  <2>3. CASE PreflightAuth(p, "pre_auth", "claim",
         Goto(p, "release") /\ UNCHANGED <<job, seen>>)
    BY <2>3, ExpireEffect DEF PreflightAuth, Goto
  <2> QED BY <1>26, <2>1, <2>2, <2>3 DEF ExecutionPreflight
<1>27. ASSUME NEW p \in Procs, ClaimTask(p) PROVE RunOwned'
  BY <1>27 DEF ClaimTask, Claimable, Goto
<1>28. ASSUME NEW p \in Procs, CheckAuthorization(p) PROVE RunOwned'
  BY <1>28, ExpireEffect DEF CheckAuthorization, Goto
<1>29. ASSUME NEW p \in Procs, CheckProfile(p) PROVE RunOwned'
  BY <1>29 DEF CheckProfile, Goto
<1>30. ASSUME NEW p \in Procs, VerificationEvent(p) PROVE RunOwned'
  BY <1>30 DEF VerificationEvent, SetVerifying
<1>31. ASSUME NEW p \in Procs, RunReturns(p) PROVE RunOwned'
  BY <1>31 DEF RunReturns, Goto
<1>32. ASSUME NEW p \in Procs, PostRun(p) PROVE RunOwned'
  BY <1>32, ExpireEffect DEF PostRun, Goto
<1>33. ASSUME NEW p \in Procs, EnterVerifying(p) PROVE RunOwned'
  BY <1>33 DEF EnterVerifying, SetVerifying, Goto
<1>34. ASSUME NEW p \in Procs, Publish(p) PROVE RunOwned'
  BY <1>34 DEF Publish, Goto
<1>35. ASSUME NEW p \in Procs, ExecutionRaises(p) PROVE RunOwned'
  BY <1>35 DEF ExecutionRaises, Goto
<1>36. ASSUME NEW p \in Procs, FailExecution(p) PROVE RunOwned'
  BY <1>36 DEF FailExecution, Goto
<1>37. ASSUME NEW p \in Procs, NEW t \in Tasks, BeginProbe(p, t)
       PROVE  RunOwned'
  BY <1>37 DEF BeginProbe, Begin, Goto
<1>38. ASSUME NEW p \in Procs, ProbeRead(p) PROVE RunOwned'
  BY <1>38 DEF ProbeRead, Goto
<1>39. ASSUME NEW p \in Procs, NEW t \in Tasks, NEW x \in LiveStatuses,
         BeginRecovery(p, t, x) PROVE RunOwned'
  BY <1>39 DEF BeginRecovery, Begin, Goto
<1>40. ASSUME NEW p \in Procs, RecoveryCheck(p) PROVE RunOwned'
  BY <1>40, ExpireEffect DEF RecoveryCheck, Recoverable, Goto
<1>41. ASSUME NEW p \in Procs, RecoveryAborts(p) PROVE RunOwned'
  BY <1>41 DEF RecoveryAborts, Goto
<1>42. ASSUME NEW p \in Procs, NEW r \in Tasks, NEW u \in Users,
         RecoveryCommit(p, r, u) PROVE RunOwned'
  BY <1>42 DEF RecoveryCommit, Recoverable, Goto
<1>43. CASE UNCHANGED vars
  BY <1>43 DEF vars
<1> HIDE ConstantsAssumption
         DEF Inv, TypeOK, LockHeld, JobKnown, RunOwned, Executing, Holding,
             BeforeClaim, AfterClaim, Recovering, LiveStatuses, rows, locals,
             world
<1> QED
  BY <1>1, <1>2, <1>3, <1>4, <1>5, <1>6, <1>7, <1>8, <1>9, <1>10, <1>11,
     <1>12, <1>13, <1>14, <1>15, <1>16, <1>17, <1>18, <1>19, <1>20, <1>21,
     <1>22, <1>23, <1>24, <1>25, <1>26, <1>27, <1>28, <1>29, <1>30, <1>31,
     <1>32, <1>33, <1>34, <1>35, <1>36, <1>37, <1>38, <1>39, <1>40, <1>41,
     <1>42, <1>43
     DEF Next, Environment, Proceed, PoolTakes, Client

\* Owner, plan and phase follow the status.
LEMMA RowsAgreeStep == IInv /\ [Next]_vars => RowsAgree'
<1> SUFFICES ASSUME TypeOK, Inv, TypeOK', [Next]_vars PROVE RowsAgree'
  BY TypeStep DEF IInv, Inv
<1> USE ConstantsAssumption
    DEF Inv, TypeOK, JobKnown, RunOwned, RowsAgree, Executing, AfterClaim,
        LiveStatuses, rows, locals, world
<1>1. ASSUME NEW s \in Sources, AuthorizeSource(s) PROVE RowsAgree'
  BY <1>1 DEF AuthorizeSource
<1>2. ASSUME NEW s \in Sources, RevokeSource(s) PROVE RowsAgree'
  BY <1>2 DEF RevokeSource, AppendTerminalEvent, Pending
<1>3. ASSUME NEW s \in Sources, ExpireDue(s) PROVE RowsAgree'
  BY <1>3, ExpireEffect DEF ExpireDue
<1>4. ASSUME NEW s \in Sources, DeadlinePasses(s) PROVE RowsAgree'
  BY <1>4 DEF DeadlinePasses
<1>5. ASSUME NEW s \in Sources, SourceDrifts(s) PROVE RowsAgree'
  BY <1>5 DEF SourceDrifts
<1>6. ASSUME NEW u \in Users, SetAccountStatus(u) PROVE RowsAgree'
  BY <1>6 DEF SetAccountStatus
<1>7. ASSUME NEW t \in Tasks, CancelPlan(t) PROVE RowsAgree'
  BY <1>7 DEF CancelPlan, PlanUndecided
<1>8. ASSUME NEW p \in Procs, Crash(p) PROVE RowsAgree'
  BY <1>8 DEF Crash, Finish, Goto
<1>9. ASSUME NEW p \in Procs, NEW r \in Requests, CreateCheck(p, r)
       PROVE  RowsAgree'
  BY <1>9, ExpireEffect DEF CreateCheck, Goto
<1>10. ASSUME NEW p \in Procs, NEW t \in Tasks, NEW autoStart \in BOOLEAN,
         CreateInsert(p, t, autoStart) PROVE RowsAgree'
  BY <1>10 DEF CreateInsert, InsertRow, Enlist, Finish, Goto, Requests
<1>11. ASSUME NEW p \in Procs, NEW t \in Tasks, CreateReplay(p, t)
       PROVE  RowsAgree'
  BY <1>11 DEF CreateReplay, Enlist, Finish, Goto
<1>12. ASSUME NEW p \in Procs, CreateConflict(p) PROVE RowsAgree'
  BY <1>12 DEF CreateConflict, Finish, Goto
<1>13. ASSUME NEW p \in Procs, StartTask(p) PROVE RowsAgree'
  BY <1>13 DEF StartTask, Finish, Goto
<1>14. ASSUME NEW p \in Procs, NEW t \in Tasks, BeginApproval(p, t)
       PROVE  RowsAgree'
  BY <1>14 DEF BeginApproval, Begin, Goto
<1>15. ASSUME NEW p \in Procs, ApprovalPreflight(p) PROVE RowsAgree'
  BY <1>15, ExpireEffect
     DEF ApprovalPreflight, PreflightTask, PreflightProfile, PreflightAuth,
         ActiveAfterRead, Finish, Goto
<1>16. ASSUME NEW p \in Procs, ApprovalPreview(p) PROVE RowsAgree'
  BY <1>16, ExpireEffect DEF ApprovalPreview, Goto
<1>17. ASSUME NEW p \in Procs, RecordApproval(p) PROVE RowsAgree'
  BY <1>17 DEF RecordApproval, PlanUndecided, Enlist, Finish, Goto
<1>18. ASSUME NEW p \in Procs, NEW t \in Tasks, Dequeue(p, t) PROVE RowsAgree'
  BY <1>18 DEF Dequeue, Begin, Goto
<1>19. ASSUME NEW p \in Procs, NEW t \in Tasks, RunTaskSync(p, t)
       PROVE  RowsAgree'
  BY <1>19 DEF RunTaskSync, Begin, Goto
<1>20. ASSUME NEW p \in Procs, AcquireLock(p, "lock", "load") PROVE RowsAgree'
  BY <1>20 DEF AcquireLock, Finish, Goto
<1>21. ASSUME NEW p \in Procs, AcquireLock(p, "pb_lock", "pb_read")
       PROVE  RowsAgree'
  BY <1>21 DEF AcquireLock, Finish, Goto
<1>22. ASSUME NEW p \in Procs, AcquireLock(p, "rc_lock", "rc_check")
       PROVE  RowsAgree'
  BY <1>22 DEF AcquireLock, Finish, Goto
<1>23. ASSUME NEW p \in Procs, ReleaseLock(p) PROVE RowsAgree'
  BY <1>23 DEF ReleaseLock, Finish, Goto
<1>24. ASSUME NEW p \in Procs, RequireActiveActor(p) PROVE RowsAgree'
  BY <1>24 DEF RequireActiveActor, Goto
<1>25. ASSUME NEW p \in Procs, FailPlanned(p) PROVE RowsAgree'
  BY <1>25 DEF FailPlanned, Goto
<1>26. ASSUME NEW p \in Procs, ExecutionPreflight(p) PROVE RowsAgree'
  BY <1>26, ExpireEffect
     DEF ExecutionPreflight, PreflightTask, PreflightProfile, PreflightAuth,
         Goto
<1>27. ASSUME NEW p \in Procs, ClaimTask(p) PROVE RowsAgree'
  BY <1>27 DEF ClaimTask, Claimable, Goto
<1>28. ASSUME NEW p \in Procs, CheckAuthorization(p) PROVE RowsAgree'
  BY <1>28, ExpireEffect DEF CheckAuthorization, Goto
<1>29. ASSUME NEW p \in Procs, CheckProfile(p) PROVE RowsAgree'
  BY <1>29 DEF CheckProfile, Goto
<1>30. ASSUME NEW p \in Procs, VerificationEvent(p) PROVE RowsAgree'
  BY <1>30 DEF VerificationEvent, SetVerifying
<1>31. ASSUME NEW p \in Procs, RunReturns(p) PROVE RowsAgree'
  BY <1>31 DEF RunReturns, Goto
<1>32. ASSUME NEW p \in Procs, PostRun(p) PROVE RowsAgree'
  BY <1>32, ExpireEffect DEF PostRun, Goto
<1>33. ASSUME NEW p \in Procs, EnterVerifying(p) PROVE RowsAgree'
  BY <1>33 DEF EnterVerifying, SetVerifying, Goto
<1>34. ASSUME NEW p \in Procs, Publish(p) PROVE RowsAgree'
  BY <1>34 DEF Publish, Goto
<1>35. ASSUME NEW p \in Procs, ExecutionRaises(p) PROVE RowsAgree'
  BY <1>35 DEF ExecutionRaises, Goto
<1>36. ASSUME NEW p \in Procs, FailExecution(p) PROVE RowsAgree'
  BY <1>36 DEF FailExecution, Goto
<1>37. ASSUME NEW p \in Procs, NEW t \in Tasks, BeginProbe(p, t)
       PROVE  RowsAgree'
  BY <1>37 DEF BeginProbe, Begin, Goto
<1>38. ASSUME NEW p \in Procs, ProbeRead(p) PROVE RowsAgree'
  BY <1>38 DEF ProbeRead, Goto
<1>39. ASSUME NEW p \in Procs, NEW t \in Tasks, NEW x \in LiveStatuses,
         BeginRecovery(p, t, x) PROVE RowsAgree'
  BY <1>39 DEF BeginRecovery, Begin, Goto
<1>40. ASSUME NEW p \in Procs, RecoveryCheck(p) PROVE RowsAgree'
  BY <1>40, ExpireEffect DEF RecoveryCheck, Recoverable, Goto
<1>41. ASSUME NEW p \in Procs, RecoveryAborts(p) PROVE RowsAgree'
  BY <1>41 DEF RecoveryAborts, Goto
<1>42. ASSUME NEW p \in Procs, NEW r \in Tasks, NEW u \in Users,
         RecoveryCommit(p, r, u) PROVE RowsAgree'
  BY <1>42 DEF RecoveryCommit, Recoverable, Goto
<1>43. CASE UNCHANGED vars
  BY <1>43 DEF vars
<1> HIDE ConstantsAssumption
         DEF Inv, TypeOK, JobKnown, RunOwned, RowsAgree, Executing,
             AfterClaim, LiveStatuses, rows, locals, world
<1> QED
  BY <1>1, <1>2, <1>3, <1>4, <1>5, <1>6, <1>7, <1>8, <1>9, <1>10, <1>11,
     <1>12, <1>13, <1>14, <1>15, <1>16, <1>17, <1>18, <1>19, <1>20, <1>21,
     <1>22, <1>23, <1>24, <1>25, <1>26, <1>27, <1>28, <1>29, <1>30, <1>31,
     <1>32, <1>33, <1>34, <1>35, <1>36, <1>37, <1>38, <1>39, <1>40, <1>41,
     <1>42, <1>43
     DEF Next, Environment, Proceed, PoolTakes, Client

\* A recovery is final, and its replacement is fresh.
LEMMA RecoveredStep == IInv /\ [Next]_vars => Recovered'
<1> SUFFICES ASSUME TypeOK, Inv, TypeOK', [Next]_vars PROVE Recovered'
  BY TypeStep DEF IInv, Inv
<1> USE ConstantsAssumption
    DEF Inv, TypeOK, JobKnown, RunOwned, Recovered, Executing, AfterClaim,
        LiveStatuses, rows, locals, world
<1>1. ASSUME NEW s \in Sources, AuthorizeSource(s) PROVE Recovered'
  BY <1>1 DEF AuthorizeSource
<1>2. ASSUME NEW s \in Sources, RevokeSource(s) PROVE Recovered'
  BY <1>2 DEF RevokeSource, AppendTerminalEvent, Pending
<1>3. ASSUME NEW s \in Sources, ExpireDue(s) PROVE Recovered'
  BY <1>3, ExpireEffect DEF ExpireDue
<1>4. ASSUME NEW s \in Sources, DeadlinePasses(s) PROVE Recovered'
  BY <1>4 DEF DeadlinePasses
<1>5. ASSUME NEW s \in Sources, SourceDrifts(s) PROVE Recovered'
  BY <1>5 DEF SourceDrifts
<1>6. ASSUME NEW u \in Users, SetAccountStatus(u) PROVE Recovered'
  BY <1>6 DEF SetAccountStatus
<1>7. ASSUME NEW t \in Tasks, CancelPlan(t) PROVE Recovered'
  BY <1>7 DEF CancelPlan, PlanUndecided
<1>8. ASSUME NEW p \in Procs, Crash(p) PROVE Recovered'
  BY <1>8 DEF Crash, Finish, Goto
<1>9. ASSUME NEW p \in Procs, NEW r \in Requests, CreateCheck(p, r)
       PROVE  Recovered'
  BY <1>9, ExpireEffect DEF CreateCheck, Goto
<1>10. ASSUME NEW p \in Procs, NEW t \in Tasks, NEW autoStart \in BOOLEAN,
         CreateInsert(p, t, autoStart) PROVE Recovered'
  BY <1>10 DEF CreateInsert, InsertRow, Enlist, Finish, Goto, Requests
<1>11. ASSUME NEW p \in Procs, NEW t \in Tasks, CreateReplay(p, t)
       PROVE  Recovered'
  BY <1>11 DEF CreateReplay, Enlist, Finish, Goto
<1>12. ASSUME NEW p \in Procs, CreateConflict(p) PROVE Recovered'
  BY <1>12 DEF CreateConflict, Finish, Goto
<1>13. ASSUME NEW p \in Procs, StartTask(p) PROVE Recovered'
  BY <1>13 DEF StartTask, Finish, Goto
<1>14. ASSUME NEW p \in Procs, NEW t \in Tasks, BeginApproval(p, t)
       PROVE  Recovered'
  BY <1>14 DEF BeginApproval, Begin, Goto
<1>15. ASSUME NEW p \in Procs, ApprovalPreflight(p) PROVE Recovered'
  BY <1>15, ExpireEffect
     DEF ApprovalPreflight, PreflightTask, PreflightProfile, PreflightAuth,
         ActiveAfterRead, Finish, Goto
<1>16. ASSUME NEW p \in Procs, ApprovalPreview(p) PROVE Recovered'
  BY <1>16, ExpireEffect DEF ApprovalPreview, Goto
<1>17. ASSUME NEW p \in Procs, RecordApproval(p) PROVE Recovered'
  BY <1>17 DEF RecordApproval, PlanUndecided, Enlist, Finish, Goto
<1>18. ASSUME NEW p \in Procs, NEW t \in Tasks, Dequeue(p, t) PROVE Recovered'
  BY <1>18 DEF Dequeue, Begin, Goto
<1>19. ASSUME NEW p \in Procs, NEW t \in Tasks, RunTaskSync(p, t)
       PROVE  Recovered'
  BY <1>19 DEF RunTaskSync, Begin, Goto
<1>20. ASSUME NEW p \in Procs, AcquireLock(p, "lock", "load") PROVE Recovered'
  BY <1>20 DEF AcquireLock, Finish, Goto
<1>21. ASSUME NEW p \in Procs, AcquireLock(p, "pb_lock", "pb_read")
       PROVE  Recovered'
  BY <1>21 DEF AcquireLock, Finish, Goto
<1>22. ASSUME NEW p \in Procs, AcquireLock(p, "rc_lock", "rc_check")
       PROVE  Recovered'
  BY <1>22 DEF AcquireLock, Finish, Goto
<1>23. ASSUME NEW p \in Procs, ReleaseLock(p) PROVE Recovered'
  BY <1>23 DEF ReleaseLock, Finish, Goto
<1>24. ASSUME NEW p \in Procs, RequireActiveActor(p) PROVE Recovered'
  BY <1>24 DEF RequireActiveActor, Goto
<1>25. ASSUME NEW p \in Procs, FailPlanned(p) PROVE Recovered'
  BY <1>25 DEF FailPlanned, Goto
<1>26. ASSUME NEW p \in Procs, ExecutionPreflight(p) PROVE Recovered'
  BY <1>26, ExpireEffect
     DEF ExecutionPreflight, PreflightTask, PreflightProfile, PreflightAuth,
         Goto
<1>27. ASSUME NEW p \in Procs, ClaimTask(p) PROVE Recovered'
  BY <1>27 DEF ClaimTask, Claimable, Goto
<1>28. ASSUME NEW p \in Procs, CheckAuthorization(p) PROVE Recovered'
  BY <1>28, ExpireEffect DEF CheckAuthorization, Goto
<1>29. ASSUME NEW p \in Procs, CheckProfile(p) PROVE Recovered'
  BY <1>29 DEF CheckProfile, Goto
<1>30. ASSUME NEW p \in Procs, VerificationEvent(p) PROVE Recovered'
  BY <1>30 DEF VerificationEvent, SetVerifying
<1>31. ASSUME NEW p \in Procs, RunReturns(p) PROVE Recovered'
  BY <1>31 DEF RunReturns, Goto
<1>32. ASSUME NEW p \in Procs, PostRun(p) PROVE Recovered'
  BY <1>32, ExpireEffect DEF PostRun, Goto
<1>33. ASSUME NEW p \in Procs, EnterVerifying(p) PROVE Recovered'
  BY <1>33 DEF EnterVerifying, SetVerifying, Goto
<1>34. ASSUME NEW p \in Procs, Publish(p) PROVE Recovered'
  BY <1>34 DEF Publish, Goto
<1>35. ASSUME NEW p \in Procs, ExecutionRaises(p) PROVE Recovered'
  BY <1>35 DEF ExecutionRaises, Goto
<1>36. ASSUME NEW p \in Procs, FailExecution(p) PROVE Recovered'
  BY <1>36 DEF FailExecution, Goto
<1>37. ASSUME NEW p \in Procs, NEW t \in Tasks, BeginProbe(p, t)
       PROVE  Recovered'
  BY <1>37 DEF BeginProbe, Begin, Goto
<1>38. ASSUME NEW p \in Procs, ProbeRead(p) PROVE Recovered'
  BY <1>38 DEF ProbeRead, Goto
<1>39. ASSUME NEW p \in Procs, NEW t \in Tasks, NEW x \in LiveStatuses,
         BeginRecovery(p, t, x) PROVE Recovered'
  BY <1>39 DEF BeginRecovery, Begin, Goto
<1>40. ASSUME NEW p \in Procs, RecoveryCheck(p) PROVE Recovered'
  BY <1>40, ExpireEffect DEF RecoveryCheck, Recoverable, Goto
<1>41. ASSUME NEW p \in Procs, RecoveryAborts(p) PROVE Recovered'
  BY <1>41 DEF RecoveryAborts, Goto
<1>42. ASSUME NEW p \in Procs, NEW r \in Tasks, NEW u \in Users,
         RecoveryCommit(p, r, u) PROVE Recovered'
  BY <1>42 DEF RecoveryCommit, Recoverable, Goto
<1>43. CASE UNCHANGED vars
  BY <1>43 DEF vars
<1> HIDE ConstantsAssumption
         DEF Inv, TypeOK, JobKnown, RunOwned, Recovered, Executing,
             AfterClaim, LiveStatuses, rows, locals, world
<1> QED
  BY <1>1, <1>2, <1>3, <1>4, <1>5, <1>6, <1>7, <1>8, <1>9, <1>10, <1>11,
     <1>12, <1>13, <1>14, <1>15, <1>16, <1>17, <1>18, <1>19, <1>20, <1>21,
     <1>22, <1>23, <1>24, <1>25, <1>26, <1>27, <1>28, <1>29, <1>30, <1>31,
     <1>32, <1>33, <1>34, <1>35, <1>36, <1>37, <1>38, <1>39, <1>40, <1>41,
     <1>42, <1>43
     DEF Next, Environment, Proceed, PoolTakes, Client

\* Nobody enters a task that was reported INTERRUPTED.
LEMMA OfferedOrphanedStep == IInv /\ [Next]_vars => OfferedOrphaned'
<1> SUFFICES ASSUME TypeOK, Inv, TypeOK', [Next]_vars PROVE OfferedOrphaned'
  BY TypeStep DEF IInv, Inv
<1> USE ConstantsAssumption
    DEF Inv, TypeOK, LockHeld, JobKnown, RunOwned, OfferedOrphaned,
        Executing, Holding, BeforeClaim, AfterClaim, Recovering,
        LiveStatuses, rows, locals, world
<1>1. ASSUME NEW s \in Sources, AuthorizeSource(s) PROVE OfferedOrphaned'
  BY <1>1 DEF AuthorizeSource
<1>2. ASSUME NEW s \in Sources, RevokeSource(s) PROVE OfferedOrphaned'
  BY <1>2 DEF RevokeSource, AppendTerminalEvent, Pending
<1>3. ASSUME NEW s \in Sources, ExpireDue(s) PROVE OfferedOrphaned'
  BY <1>3, ExpireEffect DEF ExpireDue
<1>4. ASSUME NEW s \in Sources, DeadlinePasses(s) PROVE OfferedOrphaned'
  BY <1>4 DEF DeadlinePasses
<1>5. ASSUME NEW s \in Sources, SourceDrifts(s) PROVE OfferedOrphaned'
  BY <1>5 DEF SourceDrifts
<1>6. ASSUME NEW u \in Users, SetAccountStatus(u) PROVE OfferedOrphaned'
  BY <1>6 DEF SetAccountStatus
<1>7. ASSUME NEW t \in Tasks, CancelPlan(t) PROVE OfferedOrphaned'
  BY <1>7 DEF CancelPlan, PlanUndecided
<1>8. ASSUME NEW p \in Procs, Crash(p) PROVE OfferedOrphaned'
  BY <1>8 DEF Crash, Finish, Goto
<1>9. ASSUME NEW p \in Procs, NEW r \in Requests, CreateCheck(p, r)
       PROVE  OfferedOrphaned'
  BY <1>9, ExpireEffect DEF CreateCheck, Goto
<1>10. ASSUME NEW p \in Procs, NEW t \in Tasks, NEW autoStart \in BOOLEAN,
         CreateInsert(p, t, autoStart) PROVE OfferedOrphaned'
  BY <1>10 DEF CreateInsert, InsertRow, Enlist, Finish, Goto, Requests
<1>11. ASSUME NEW p \in Procs, NEW t \in Tasks, CreateReplay(p, t)
       PROVE  OfferedOrphaned'
  BY <1>11 DEF CreateReplay, Enlist, Finish, Goto
<1>12. ASSUME NEW p \in Procs, CreateConflict(p) PROVE OfferedOrphaned'
  BY <1>12 DEF CreateConflict, Finish, Goto
<1>13. ASSUME NEW p \in Procs, StartTask(p) PROVE OfferedOrphaned'
  BY <1>13 DEF StartTask, Finish, Goto
<1>14. ASSUME NEW p \in Procs, NEW t \in Tasks, BeginApproval(p, t)
       PROVE  OfferedOrphaned'
  BY <1>14 DEF BeginApproval, Begin, Goto
<1>15. ASSUME NEW p \in Procs, ApprovalPreflight(p) PROVE OfferedOrphaned'
  BY <1>15, ExpireEffect
     DEF ApprovalPreflight, PreflightTask, PreflightProfile, PreflightAuth,
         ActiveAfterRead, Finish, Goto
<1>16. ASSUME NEW p \in Procs, ApprovalPreview(p) PROVE OfferedOrphaned'
  BY <1>16, ExpireEffect DEF ApprovalPreview, Goto
<1>17. ASSUME NEW p \in Procs, RecordApproval(p) PROVE OfferedOrphaned'
  BY <1>17 DEF RecordApproval, PlanUndecided, Enlist, Finish, Goto
<1>18. ASSUME NEW p \in Procs, NEW t \in Tasks, Dequeue(p, t)
       PROVE  OfferedOrphaned'
  BY <1>18 DEF Dequeue, Begin, Goto
<1>19. ASSUME NEW p \in Procs, NEW t \in Tasks, RunTaskSync(p, t)
       PROVE  OfferedOrphaned'
  BY <1>19 DEF RunTaskSync, Begin, Goto
<1>20. ASSUME NEW p \in Procs, AcquireLock(p, "lock", "load")
       PROVE  OfferedOrphaned'
  BY <1>20 DEF AcquireLock, Finish, Goto
<1>21. ASSUME NEW p \in Procs, AcquireLock(p, "pb_lock", "pb_read")
       PROVE  OfferedOrphaned'
  BY <1>21 DEF AcquireLock, Finish, Goto
<1>22. ASSUME NEW p \in Procs, AcquireLock(p, "rc_lock", "rc_check")
       PROVE  OfferedOrphaned'
  BY <1>22 DEF AcquireLock, Finish, Goto
<1>23. ASSUME NEW p \in Procs, ReleaseLock(p) PROVE OfferedOrphaned'
  BY <1>23 DEF ReleaseLock, Finish, Goto
<1>24. ASSUME NEW p \in Procs, RequireActiveActor(p) PROVE OfferedOrphaned'
  BY <1>24 DEF RequireActiveActor, Goto
<1>25. ASSUME NEW p \in Procs, FailPlanned(p) PROVE OfferedOrphaned'
  BY <1>25 DEF FailPlanned, Goto
<1>26. ASSUME NEW p \in Procs, ExecutionPreflight(p) PROVE OfferedOrphaned'
  BY <1>26, ExpireEffect
     DEF ExecutionPreflight, PreflightTask, PreflightProfile, PreflightAuth,
         Goto
<1>27. ASSUME NEW p \in Procs, ClaimTask(p) PROVE OfferedOrphaned'
  BY <1>27 DEF ClaimTask, Claimable, Goto
<1>28. ASSUME NEW p \in Procs, CheckAuthorization(p) PROVE OfferedOrphaned'
  BY <1>28, ExpireEffect DEF CheckAuthorization, Goto
<1>29. ASSUME NEW p \in Procs, CheckProfile(p) PROVE OfferedOrphaned'
  BY <1>29 DEF CheckProfile, Goto
<1>30. ASSUME NEW p \in Procs, VerificationEvent(p) PROVE OfferedOrphaned'
  BY <1>30 DEF VerificationEvent, SetVerifying
<1>31. ASSUME NEW p \in Procs, RunReturns(p) PROVE OfferedOrphaned'
  BY <1>31 DEF RunReturns, Goto
<1>32. ASSUME NEW p \in Procs, PostRun(p) PROVE OfferedOrphaned'
  BY <1>32, ExpireEffect DEF PostRun, Goto
<1>33. ASSUME NEW p \in Procs, EnterVerifying(p) PROVE OfferedOrphaned'
  BY <1>33 DEF EnterVerifying, SetVerifying, Goto
<1>34. ASSUME NEW p \in Procs, Publish(p) PROVE OfferedOrphaned'
  BY <1>34 DEF Publish, Goto
<1>35. ASSUME NEW p \in Procs, ExecutionRaises(p) PROVE OfferedOrphaned'
  BY <1>35 DEF ExecutionRaises, Goto
<1>36. ASSUME NEW p \in Procs, FailExecution(p) PROVE OfferedOrphaned'
  BY <1>36 DEF FailExecution, Goto
<1>37. ASSUME NEW p \in Procs, NEW t \in Tasks, BeginProbe(p, t)
       PROVE  OfferedOrphaned'
  BY <1>37 DEF BeginProbe, Begin, Goto
<1>38. ASSUME NEW p \in Procs, ProbeRead(p) PROVE OfferedOrphaned'
  BY <1>38 DEF ProbeRead, Goto
<1>39. ASSUME NEW p \in Procs, NEW t \in Tasks, NEW x \in LiveStatuses,
         BeginRecovery(p, t, x) PROVE OfferedOrphaned'
  BY <1>39 DEF BeginRecovery, Begin, Goto
<1>40. ASSUME NEW p \in Procs, RecoveryCheck(p) PROVE OfferedOrphaned'
  BY <1>40, ExpireEffect DEF RecoveryCheck, Recoverable, Goto
<1>41. ASSUME NEW p \in Procs, RecoveryAborts(p) PROVE OfferedOrphaned'
  BY <1>41 DEF RecoveryAborts, Goto
<1>42. ASSUME NEW p \in Procs, NEW r \in Tasks, NEW u \in Users,
         RecoveryCommit(p, r, u) PROVE OfferedOrphaned'
  BY <1>42 DEF RecoveryCommit, Recoverable, Goto
<1>43. CASE UNCHANGED vars
  BY <1>43 DEF vars
<1> HIDE ConstantsAssumption
         DEF Inv, TypeOK, LockHeld, JobKnown, RunOwned, OfferedOrphaned,
             Executing, Holding, BeforeClaim, AfterClaim, Recovering,
             LiveStatuses, rows, locals, world
<1> QED
  BY <1>1, <1>2, <1>3, <1>4, <1>5, <1>6, <1>7, <1>8, <1>9, <1>10, <1>11,
     <1>12, <1>13, <1>14, <1>15, <1>16, <1>17, <1>18, <1>19, <1>20, <1>21,
     <1>22, <1>23, <1>24, <1>25, <1>26, <1>27, <1>28, <1>29, <1>30, <1>31,
     <1>32, <1>33, <1>34, <1>35, <1>36, <1>37, <1>38, <1>39, <1>40, <1>41,
     <1>42, <1>43
     DEF Next, Environment, Proceed, PoolTakes, Client

\* Terminal events take pending approvals with them.
LEMMA ApprovalGroundedStep == IInv /\ [Next]_vars => ApprovalGrounded'
<1> SUFFICES ASSUME TypeOK, Inv, TypeOK', [Next]_vars PROVE ApprovalGrounded'
  BY TypeStep DEF IInv, Inv
<1> USE ConstantsAssumption
    DEF Inv, TypeOK, JobKnown, RowsAgree, ApprovalGrounded, Grounded, rows,
        locals, world
<1>1. ASSUME NEW s \in Sources, AuthorizeSource(s) PROVE ApprovalGrounded'
  BY <1>1 DEF AuthorizeSource
<1>2. ASSUME NEW s \in Sources, RevokeSource(s) PROVE ApprovalGrounded'
  BY <1>2 DEF RevokeSource, AppendTerminalEvent, Pending
<1>3. ASSUME NEW s \in Sources, ExpireDue(s) PROVE ApprovalGrounded'
  BY <1>3, ExpireEffect DEF ExpireDue
<1>4. ASSUME NEW s \in Sources, DeadlinePasses(s) PROVE ApprovalGrounded'
  BY <1>4 DEF DeadlinePasses
<1>5. ASSUME NEW s \in Sources, SourceDrifts(s) PROVE ApprovalGrounded'
  BY <1>5 DEF SourceDrifts
<1>6. ASSUME NEW u \in Users, SetAccountStatus(u) PROVE ApprovalGrounded'
  BY <1>6 DEF SetAccountStatus
<1>7. ASSUME NEW t \in Tasks, CancelPlan(t) PROVE ApprovalGrounded'
  BY <1>7 DEF CancelPlan, PlanUndecided
<1>8. ASSUME NEW p \in Procs, Crash(p) PROVE ApprovalGrounded'
  BY <1>8 DEF Crash, Finish, Goto
<1>9. ASSUME NEW p \in Procs, NEW r \in Requests, CreateCheck(p, r)
       PROVE  ApprovalGrounded'
  BY <1>9, ExpireEffect DEF CreateCheck, Goto
<1>10. ASSUME NEW p \in Procs, NEW t \in Tasks, NEW autoStart \in BOOLEAN,
         CreateInsert(p, t, autoStart) PROVE ApprovalGrounded'
  BY <1>10 DEF CreateInsert, InsertRow, Enlist, Finish, Goto, Requests
<1>11. ASSUME NEW p \in Procs, NEW t \in Tasks, CreateReplay(p, t)
       PROVE  ApprovalGrounded'
  <2>1. pc'[p] \notin {"ap_preview", "ap_record"}
    BY <1>11 DEF CreateReplay, Enlist, Finish, Goto
  <2>2. \A q \in Procs \ {p} : pc'[q] = pc[q] /\ job'[q] = job[q]
    BY <1>11 DEF CreateReplay, Enlist, Finish, Goto
  <2>3. UNCHANGED <<status, rows, plan, auth, world>>
    BY <1>11 DEF CreateReplay
  <2> QED BY <2>1, <2>2, <2>3
<1>12. ASSUME NEW p \in Procs, CreateConflict(p) PROVE ApprovalGrounded'
  BY <1>12 DEF CreateConflict, Finish, Goto
<1>13. ASSUME NEW p \in Procs, StartTask(p) PROVE ApprovalGrounded'
  BY <1>13 DEF StartTask, Finish, Goto
<1>14. ASSUME NEW p \in Procs, NEW t \in Tasks, BeginApproval(p, t)
       PROVE  ApprovalGrounded'
  BY <1>14 DEF BeginApproval, Begin, Goto
<1>15. ASSUME NEW p \in Procs, ApprovalPreflight(p) PROVE ApprovalGrounded'
  <2>1. CASE PreflightTask(p, "ap_task", "ap_profile", status[job[p]] = "PLANNED")
    BY <2>1, ExpireEffect DEF PreflightTask, Goto
  <2>2. CASE PreflightProfile(p, "ap_profile", "ap_auth")
    BY <2>2, ExpireEffect DEF PreflightProfile, Goto
  <2>3. CASE PreflightAuth(p, "ap_auth", "ap_preview", Finish(p))
    BY <2>3, ExpireEffect DEF PreflightAuth, ActiveAfterRead, Goto, Finish
  <2> QED BY <1>15, <2>1, <2>2, <2>3 DEF ApprovalPreflight
<1>16. ASSUME NEW p \in Procs, ApprovalPreview(p) PROVE ApprovalGrounded'
  BY <1>16, ExpireEffect DEF ApprovalPreview, Goto
<1>17. ASSUME NEW p \in Procs, RecordApproval(p) PROVE ApprovalGrounded'
  BY <1>17 DEF RecordApproval, PlanUndecided, Enlist, Finish, Goto
<1>18. ASSUME NEW p \in Procs, NEW t \in Tasks, Dequeue(p, t)
       PROVE  ApprovalGrounded'
  BY <1>18 DEF Dequeue, Begin, Goto
<1>19. ASSUME NEW p \in Procs, NEW t \in Tasks, RunTaskSync(p, t)
       PROVE  ApprovalGrounded'
  BY <1>19 DEF RunTaskSync, Begin, Goto
<1>20. ASSUME NEW p \in Procs, AcquireLock(p, "lock", "load")
       PROVE  ApprovalGrounded'
  BY <1>20 DEF AcquireLock, Finish, Goto
<1>21. ASSUME NEW p \in Procs, AcquireLock(p, "pb_lock", "pb_read")
       PROVE  ApprovalGrounded'
  BY <1>21 DEF AcquireLock, Finish, Goto
<1>22. ASSUME NEW p \in Procs, AcquireLock(p, "rc_lock", "rc_check")
       PROVE  ApprovalGrounded'
  BY <1>22 DEF AcquireLock, Finish, Goto
<1>23. ASSUME NEW p \in Procs, ReleaseLock(p) PROVE ApprovalGrounded'
  BY <1>23 DEF ReleaseLock, Finish, Goto
<1>24. ASSUME NEW p \in Procs, RequireActiveActor(p) PROVE ApprovalGrounded'
  BY <1>24 DEF RequireActiveActor, Goto
<1>25. ASSUME NEW p \in Procs, FailPlanned(p) PROVE ApprovalGrounded'
  BY <1>25 DEF FailPlanned, Goto
<1>26. ASSUME NEW p \in Procs, ExecutionPreflight(p) PROVE ApprovalGrounded'
  <2>1. CASE PreflightTask(p, "pre_task", "pre_profile",
         status[job[p]] = "PLANNED" /\ plan[job[p]] = "APPROVE_PLAN")
    BY <2>1, ExpireEffect DEF PreflightTask, Goto
  <2>2. CASE PreflightProfile(p, "pre_profile", "pre_auth")
    BY <2>2, ExpireEffect DEF PreflightProfile, Goto
  <2>3. CASE PreflightAuth(p, "pre_auth", "claim",
         Goto(p, "release") /\ UNCHANGED <<job, seen>>)
    <3>1. pc'[p] \in {"claim", "release"} /\ \A q \in Procs \ {p} : pc'[q] = pc[q]
      BY <2>3 DEF PreflightAuth, Goto
    <3>2. UNCHANGED <<rows, plan, world, job>>
      BY <2>3 DEF PreflightAuth
    <3> QED BY <2>3, <3>1, <3>2, ExpireEffect DEF PreflightAuth
  <2> QED BY <1>26, <2>1, <2>2, <2>3 DEF ExecutionPreflight
<1>27. ASSUME NEW p \in Procs, ClaimTask(p) PROVE ApprovalGrounded'
  <2>1. CASE Claimable(job[p])
    BY <1>27, <2>1 DEF ClaimTask, Goto
  <2>2. CASE ~(Claimable(job[p]))
    BY <1>27, <2>2 DEF ClaimTask, Goto
  <2> QED BY <2>1, <2>2
<1>28. ASSUME NEW p \in Procs, CheckAuthorization(p) PROVE ApprovalGrounded'
  BY <1>28, ExpireEffect DEF CheckAuthorization, Goto
<1>29. ASSUME NEW p \in Procs, CheckProfile(p) PROVE ApprovalGrounded'
  BY <1>29 DEF CheckProfile, Goto
<1>30. ASSUME NEW p \in Procs, VerificationEvent(p) PROVE ApprovalGrounded'
  <2>1. CASE status[job[p]] = "RUNNING"
    BY <1>30, <2>1 DEF VerificationEvent, SetVerifying
  <2>2. CASE ~(status[job[p]] = "RUNNING")
    BY <1>30, <2>2 DEF VerificationEvent, SetVerifying
  <2> QED BY <2>1, <2>2
<1>31. ASSUME NEW p \in Procs, RunReturns(p) PROVE ApprovalGrounded'
  BY <1>31 DEF RunReturns, Goto
<1>32. ASSUME NEW p \in Procs, PostRun(p) PROVE ApprovalGrounded'
  BY <1>32, ExpireEffect DEF PostRun, Goto
<1>33. ASSUME NEW p \in Procs, EnterVerifying(p) PROVE ApprovalGrounded'
  <2>1. CASE status[job[p]] = "RUNNING"
    BY <1>33, <2>1 DEF EnterVerifying, SetVerifying, Goto
  <2>2. CASE ~(status[job[p]] = "RUNNING")
    BY <1>33, <2>2 DEF EnterVerifying, SetVerifying, Goto
  <2> QED BY <2>1, <2>2
<1>34. ASSUME NEW p \in Procs, Publish(p) PROVE ApprovalGrounded'
  BY <1>34 DEF Publish, Goto
<1>35. ASSUME NEW p \in Procs, ExecutionRaises(p) PROVE ApprovalGrounded'
  BY <1>35 DEF ExecutionRaises, Goto
<1>36. ASSUME NEW p \in Procs, FailExecution(p) PROVE ApprovalGrounded'
  BY <1>36 DEF FailExecution, Goto
<1>37. ASSUME NEW p \in Procs, NEW t \in Tasks, BeginProbe(p, t)
       PROVE  ApprovalGrounded'
  BY <1>37 DEF BeginProbe, Begin, Goto
<1>38. ASSUME NEW p \in Procs, ProbeRead(p) PROVE ApprovalGrounded'
  BY <1>38 DEF ProbeRead, Goto
<1>39. ASSUME NEW p \in Procs, NEW t \in Tasks, NEW x \in LiveStatuses,
         BeginRecovery(p, t, x) PROVE ApprovalGrounded'
  BY <1>39 DEF BeginRecovery, Begin, Goto
<1>40. ASSUME NEW p \in Procs, RecoveryCheck(p) PROVE ApprovalGrounded'
  <2>1. CASE Recoverable(p, job[p])
    BY <1>40, <2>1, ExpireEffect DEF RecoveryCheck, Goto
  <2>2. CASE ~(Recoverable(p, job[p]))
    BY <1>40, <2>2, ExpireEffect DEF RecoveryCheck, Goto
  <2> QED BY <2>1, <2>2
<1>41. ASSUME NEW p \in Procs, RecoveryAborts(p) PROVE ApprovalGrounded'
  BY <1>41 DEF RecoveryAborts, Goto
<1>42. ASSUME NEW p \in Procs, NEW r \in Tasks, NEW u \in Users,
         RecoveryCommit(p, r, u) PROVE ApprovalGrounded'
  BY <1>42 DEF RecoveryCommit, Recoverable, Goto
<1>43. CASE UNCHANGED vars
  BY <1>43 DEF vars
<1> HIDE ConstantsAssumption
         DEF Inv, TypeOK, JobKnown, RowsAgree, ApprovalGrounded, Grounded,
             rows, locals, world
<1> QED
  BY <1>1, <1>2, <1>3, <1>4, <1>5, <1>6, <1>7, <1>8, <1>9, <1>10, <1>11,
     <1>12, <1>13, <1>14, <1>15, <1>16, <1>17, <1>18, <1>19, <1>20, <1>21,
     <1>22, <1>23, <1>24, <1>25, <1>26, <1>27, <1>28, <1>29, <1>30, <1>31,
     <1>32, <1>33, <1>34, <1>35, <1>36, <1>37, <1>38, <1>39, <1>40, <1>41,
     <1>42, <1>43
     DEF Next, Environment, Proceed, PoolTakes, Client

\* A fresh product root satisfies the inductive invariant.
LEMMA InitInv == Init => IInv
BY ConstantsAssumption
   DEF Init, IInv, Inv, TypeOK, LockHeld, JobKnown, QueueKnown, RunOwned,
       RowsAgree, Recovered, OfferedOrphaned, ApprovalGrounded, Grounded, Executing,
       Holding, BeforeClaim, AfterClaim, Recovering, LiveStatuses, Statuses,
       Phases, AuthEvents, PCs, NoRequest

\* Every reachable state satisfies the inductive invariant.
THEOREM Invariance == Spec => []IInv
<1>1. IInv /\ [Next]_vars => IInv'
  BY TypeStep, LockHeldStep, JobKnownStep, QueueKnownStep,
     RunOwnedStep, RowsAgreeStep, RecoveredStep, OfferedOrphanedStep, ApprovalGroundedStep
     DEF IInv, Inv
<1> QED BY <1>1, InitInv, PTL DEF Spec

\* The columns and the processes' memories keep their types.
THEOREM TypeCorrect == Spec => []TypeOK
BY Invariance, PTL DEF IInv

\* While a process is inside an attempt the row stays its own, live and not
\* replaced, and nobody else is inside it (claim_task, the execution lock and
\* recover_owned_task_execution).
THEOREM LiveRunOwned == Spec => []LiveRunIsOwned
<1>1. IInv => LiveRunIsOwned
  BY ConstantsAssumption DEF IInv, Inv, LiveRunIsOwned, RunOwned,
     Recovered, JobKnown, Executing, LiveStatuses, AfterClaim, TypeOK
<1> QED BY <1>1, Invariance, PTL

\* No claim without the approval the task needs, and no attempt of a task that
\* was cancelled or that a terminal authorization event has failed closed
\* (claim_task, record_intervention and _fail_pending_tasks_for_source).  Whether
\* the grant is live at the claim is not part of it.
THEOREM RunsAreAuthorized == Spec => []NoUnauthorizedRun
<1>1. IInv => NoUnauthorizedRun
  BY DEF IInv, Inv, NoUnauthorizedRun, RowsAgree
<1> QED BY <1>1, Invariance, PTL

\* A recovered task stays failed, nobody is inside it, and its replacement is
\* its own and needs a new approval (recover_owned_task_execution).
THEOREM RecoveryFinal == Spec => []RecoveryIsFinal
<1>1. IInv => RecoveryIsFinal
  BY ConstantsAssumption DEF IInv, Inv, RecoveryIsFinal, RunOwned,
     Recovered, LiveStatuses, TypeOK
<1> QED BY <1>1, Invariance, PTL

\* What a probe reported INTERRUPTED never completes (task_execution_recovery).
THEOREM OfferedStaysDead == Spec => []OfferedNeverCompletes
<1>1. IInv => OfferedNeverCompletes
  BY DEF IInv, Inv, OfferedNeverCompletes, OfferedOrphaned, LiveStatuses
<1> QED BY <1>1, Invariance, PTL

\* An approved plan that still waits has a live grant (intervene_task against
\* revocation and expiry).
THEOREM ApprovalHasGrant == Spec => []ApprovedPlanHasLiveGrant
<1>1. IInv => ApprovedPlanHasLiveGrant
  BY DEF IInv, Inv, ApprovedPlanHasLiveGrant, ApprovalGrounded, Grounded
<1> QED BY <1>1, Invariance, PTL

-----------------------------------------------------------------------------
(***************************************************************************)
(* The status table.                                                       *)
(***************************************************************************)
\* The step moves row t along _TRANSITIONS, if at all.
Legal(t) == status'[t] # status[t] => status'[t] \in Transitions[status[t]]

\* Each action moves each row along the table, or leaves its status alone.
LEMMA StatusStep == IInv /\ [Next]_vars => \A t \in Tasks : Legal(t)
<1> SUFFICES ASSUME IInv, [Next]_vars, NEW tk \in Tasks PROVE Legal(tk)
  OBVIOUS
<1> USE ConstantsAssumption
    DEF IInv, Inv, TypeOK, JobKnown, RunOwned, Executing, AfterClaim, Legal,
        Transitions, LiveStatuses, rows, locals, world
<1>1. ASSUME NEW s \in Sources, AuthorizeSource(s) PROVE Legal(tk)
  BY <1>1 DEF AuthorizeSource
<1>2. ASSUME NEW s \in Sources, RevokeSource(s) PROVE Legal(tk)
  BY <1>2 DEF RevokeSource, AppendTerminalEvent, Pending
<1>3. ASSUME NEW s \in Sources, ExpireDue(s) PROVE Legal(tk)
  BY <1>3, ExpireEffect DEF ExpireDue
<1>4. ASSUME NEW s \in Sources, DeadlinePasses(s) PROVE Legal(tk)
  BY <1>4 DEF DeadlinePasses
<1>5. ASSUME NEW s \in Sources, SourceDrifts(s) PROVE Legal(tk)
  BY <1>5 DEF SourceDrifts
<1>6. ASSUME NEW u \in Users, SetAccountStatus(u) PROVE Legal(tk)
  BY <1>6 DEF SetAccountStatus
<1>7. ASSUME NEW t \in Tasks, CancelPlan(t) PROVE Legal(tk)
  BY <1>7 DEF CancelPlan, PlanUndecided
<1>8. ASSUME NEW p \in Procs, Crash(p) PROVE Legal(tk)
  BY <1>8 DEF Crash, Finish, Goto
<1>9. ASSUME NEW p \in Procs, NEW r \in Requests, CreateCheck(p, r)
       PROVE  Legal(tk)
  BY <1>9, ExpireEffect DEF CreateCheck, Goto
<1>10. ASSUME NEW p \in Procs, NEW t \in Tasks, NEW autoStart \in BOOLEAN,
         CreateInsert(p, t, autoStart) PROVE Legal(tk)
  BY <1>10 DEF CreateInsert, InsertRow, Enlist, Finish, Goto, Requests
<1>11. ASSUME NEW p \in Procs, NEW t \in Tasks, CreateReplay(p, t)
       PROVE  Legal(tk)
  BY <1>11 DEF CreateReplay, Enlist, Finish, Goto
<1>12. ASSUME NEW p \in Procs, CreateConflict(p) PROVE Legal(tk)
  BY <1>12 DEF CreateConflict, Finish, Goto
<1>13. ASSUME NEW p \in Procs, StartTask(p) PROVE Legal(tk)
  BY <1>13 DEF StartTask, Finish, Goto
<1>14. ASSUME NEW p \in Procs, NEW t \in Tasks, BeginApproval(p, t)
       PROVE  Legal(tk)
  BY <1>14 DEF BeginApproval, Begin, Goto
<1>15. ASSUME NEW p \in Procs, ApprovalPreflight(p) PROVE Legal(tk)
  BY <1>15, ExpireEffect
     DEF ApprovalPreflight, PreflightTask, PreflightProfile, PreflightAuth,
         ActiveAfterRead, Finish, Goto
<1>16. ASSUME NEW p \in Procs, ApprovalPreview(p) PROVE Legal(tk)
  BY <1>16, ExpireEffect DEF ApprovalPreview, Goto
<1>17. ASSUME NEW p \in Procs, RecordApproval(p) PROVE Legal(tk)
  BY <1>17 DEF RecordApproval, PlanUndecided, Enlist, Finish, Goto
<1>18. ASSUME NEW p \in Procs, NEW t \in Tasks, Dequeue(p, t) PROVE Legal(tk)
  BY <1>18 DEF Dequeue, Begin, Goto
<1>19. ASSUME NEW p \in Procs, NEW t \in Tasks, RunTaskSync(p, t)
       PROVE  Legal(tk)
  BY <1>19 DEF RunTaskSync, Begin, Goto
<1>20. ASSUME NEW p \in Procs, AcquireLock(p, "lock", "load") PROVE Legal(tk)
  BY <1>20 DEF AcquireLock, Finish, Goto
<1>21. ASSUME NEW p \in Procs, AcquireLock(p, "pb_lock", "pb_read")
       PROVE  Legal(tk)
  BY <1>21 DEF AcquireLock, Finish, Goto
<1>22. ASSUME NEW p \in Procs, AcquireLock(p, "rc_lock", "rc_check")
       PROVE  Legal(tk)
  BY <1>22 DEF AcquireLock, Finish, Goto
<1>23. ASSUME NEW p \in Procs, ReleaseLock(p) PROVE Legal(tk)
  BY <1>23 DEF ReleaseLock, Finish, Goto
<1>24. ASSUME NEW p \in Procs, RequireActiveActor(p) PROVE Legal(tk)
  BY <1>24 DEF RequireActiveActor, Goto
<1>25. ASSUME NEW p \in Procs, FailPlanned(p) PROVE Legal(tk)
  BY <1>25 DEF FailPlanned, Goto
<1>26. ASSUME NEW p \in Procs, ExecutionPreflight(p) PROVE Legal(tk)
  BY <1>26, ExpireEffect
     DEF ExecutionPreflight, PreflightTask, PreflightProfile, PreflightAuth,
         Goto
<1>27. ASSUME NEW p \in Procs, ClaimTask(p) PROVE Legal(tk)
  BY <1>27 DEF ClaimTask, Claimable, Goto
<1>28. ASSUME NEW p \in Procs, CheckAuthorization(p) PROVE Legal(tk)
  BY <1>28, ExpireEffect DEF CheckAuthorization, Goto
<1>29. ASSUME NEW p \in Procs, CheckProfile(p) PROVE Legal(tk)
  BY <1>29 DEF CheckProfile, Goto
<1>30. ASSUME NEW p \in Procs, VerificationEvent(p) PROVE Legal(tk)
  BY <1>30 DEF VerificationEvent, SetVerifying
<1>31. ASSUME NEW p \in Procs, RunReturns(p) PROVE Legal(tk)
  BY <1>31 DEF RunReturns, Goto
<1>32. ASSUME NEW p \in Procs, PostRun(p) PROVE Legal(tk)
  BY <1>32, ExpireEffect DEF PostRun, Goto
<1>33. ASSUME NEW p \in Procs, EnterVerifying(p) PROVE Legal(tk)
  BY <1>33 DEF EnterVerifying, SetVerifying, Goto
<1>34. ASSUME NEW p \in Procs, Publish(p) PROVE Legal(tk)
  BY <1>34 DEF Publish, Goto
<1>35. ASSUME NEW p \in Procs, ExecutionRaises(p) PROVE Legal(tk)
  BY <1>35 DEF ExecutionRaises, Goto
<1>36. ASSUME NEW p \in Procs, FailExecution(p) PROVE Legal(tk)
  BY <1>36 DEF FailExecution, Goto
<1>37. ASSUME NEW p \in Procs, NEW t \in Tasks, BeginProbe(p, t)
       PROVE  Legal(tk)
  BY <1>37 DEF BeginProbe, Begin, Goto
<1>38. ASSUME NEW p \in Procs, ProbeRead(p) PROVE Legal(tk)
  BY <1>38 DEF ProbeRead, Goto
<1>39. ASSUME NEW p \in Procs, NEW t \in Tasks, NEW x \in LiveStatuses,
         BeginRecovery(p, t, x) PROVE Legal(tk)
  BY <1>39 DEF BeginRecovery, Begin, Goto
<1>40. ASSUME NEW p \in Procs, RecoveryCheck(p) PROVE Legal(tk)
  BY <1>40, ExpireEffect DEF RecoveryCheck, Recoverable, Goto
<1>41. ASSUME NEW p \in Procs, RecoveryAborts(p) PROVE Legal(tk)
  BY <1>41 DEF RecoveryAborts, Goto
<1>42. ASSUME NEW p \in Procs, NEW r \in Tasks, NEW u \in Users,
         RecoveryCommit(p, r, u) PROVE Legal(tk)
  BY <1>42 DEF RecoveryCommit, Recoverable, Goto
<1>43. CASE UNCHANGED vars
  BY <1>43 DEF vars
<1> QED
  BY <1>1, <1>2, <1>3, <1>4, <1>5, <1>6, <1>7, <1>8, <1>9, <1>10, <1>11,
     <1>12, <1>13, <1>14, <1>15, <1>16, <1>17, <1>18, <1>19, <1>20, <1>21,
     <1>22, <1>23, <1>24, <1>25, <1>26, <1>27, <1>28, <1>29, <1>30, <1>31,
     <1>32, <1>33, <1>34, <1>35, <1>36, <1>37, <1>38, <1>39, <1>40, <1>41,
     <1>42, <1>43
     DEF Next, Environment, Proceed, PoolTakes, Client

\* Every writer of execution_status obeys _TRANSITIONS, the ones that do not
\* consult it included.
THEOREM TransitionsObeyed == Spec => LifecycleObeyed
<1>1. IInv /\ [Next]_vars
        => [\A t \in Tasks : status'[t] # status[t] =>
              status'[t] \in Transitions[status[t]]]_vars
  BY StatusStep DEF Legal
<1> QED BY <1>1, Invariance, PTL DEF Spec, LifecycleObeyed
-----------------------------------------------------------------------------
(***************************************************************************)
(* The refinement: the lifecycle implements ExecutionAttempts.             *)
(***************************************************************************)
\* The abstract state of a row of status st, with somebody inside it or not.
ClassOf(st, inside) ==
  IF st = "ABSENT" THEN "absent"
  ELSE IF st = "PLANNED" THEN "waiting"
  ELSE IF st \in LiveStatuses THEN IF inside THEN "live" ELSE "orphan"
  ELSE IF st = "COMPLETED" THEN "published" ELSE "closed"

\* The step is one of the abstract attempts, or changes none of them.
Mapped == [Attempts!Next]_<<AttemptOf, replacement>>

\* The step moves nobody into or out of an attempt, and only closes rows that
\* wait or starts the verification of one that runs.
Quiet ==
  /\ \A q \in Procs : /\ Executing(q)' <=> Executing(q)
                      /\ Executing(q) => job'[q] = job[q]
  /\ \A t \in Tasks :
       \/ status'[t] = status[t]
       \/ status[t] = "PLANNED" /\ status'[t] \in {"FAILED", "CANCELLED"}
       \/ status[t] = "RUNNING" /\ status'[t] = "VERIFYING"
  /\ UNCHANGED replacement

\* The mapped rows, before and after a step.
LEMMA Classes ==
  /\ AttemptOf = [t \in Tasks |-> ClassOf(status[t], Attempted(t))]
  /\ AttemptOf' = [t \in Tasks |-> ClassOf(status'[t], Attempted(t)')]
BY DEF AttemptOf, ClassOf

\* A live row with somebody inside is a live attempt, and closed or published
\* whoever is inside once its status is final.
LEMMA LiveClasses ==
  /\ \A st \in LiveStatuses : /\ ClassOf(st, TRUE) = "live"
                              /\ ClassOf(st, FALSE) = "orphan"
  /\ \A b \in BOOLEAN : /\ ClassOf("COMPLETED", b) = "published"
                        /\ ClassOf("FAILED", b) = "closed"
BY DEF ClassOf, LiveStatuses

\* A quiet step closes the rows it takes out of PLANNED, or maps to a stutter.
LEMMA QuietMaps == Quiet => Mapped
<1> SUFFICES ASSUME Quiet PROVE Mapped
  OBVIOUS
<1> DEFINE S == {t \in Tasks : status[t] = "PLANNED"
                               /\ status'[t] \in {"FAILED", "CANCELLED"}}
<1>1. \A t \in Tasks : Attempted(t)' <=> Attempted(t)
  BY DEF Quiet, Attempted
<1>2. /\ \A t \in S : AttemptOf[t] = "waiting"
      /\ AttemptOf' = [t \in Tasks |-> IF t \in S THEN "closed" ELSE AttemptOf[t]]
  BY <1>1, Classes DEF Quiet, ClassOf, LiveStatuses
<1>3. CASE S = {}
  BY <1>2, <1>3, Classes DEF Mapped, Quiet
<1>4. CASE S # {}
  <2>1. Attempts!Close(S)
    BY <1>2, <1>4 DEF Attempts!Close, Quiet
  <2> QED BY <2>1 DEF Mapped, Attempts!Next
<1> QED BY <1>3, <1>4

\* A step that moves one row along the five single moves is that move.
LEMMA MoveMaps ==
  ASSUME NEW t \in Tasks, UNCHANGED replacement,
         \A x \in Tasks \ {t} : /\ status'[x] = status[x]
                                /\ Attempted(x)' <=> Attempted(x),
         <<ClassOf(status[t], Attempted(t)), ClassOf(status'[t], Attempted(t)')>>
           \in {<<"absent", "waiting">>, <<"waiting", "live">>,
                <<"live", "published">>, <<"live", "closed">>,
                <<"live", "orphan">>}
  PROVE  Mapped
<1> DEFINE from == ClassOf(status[t], Attempted(t))
           to == ClassOf(status'[t], Attempted(t)')
<1>1. AttemptOf[t] = from /\ AttemptOf' = [AttemptOf EXCEPT ![t] = to]
  <2>1. \A x \in Tasks \ {t} : ClassOf(status'[x], Attempted(x)')
                                = ClassOf(status[x], Attempted(x))
    BY DEF ClassOf
  <2> QED BY <2>1, Classes
<1>2. Attempts!Move(t, from, to)
  BY <1>1 DEF Attempts!Move
<1>3. Attempts!Create(t) \/ Attempts!Claim(t) \/ Attempts!Publish(t)
        \/ Attempts!Fail(t) \/ Attempts!Orphan(t)
  BY <1>2 DEF Attempts!Create, Attempts!Claim, Attempts!Publish, Attempts!Fail,
              Attempts!Orphan
<1> QED BY <1>3 DEF Mapped, Attempts!Next

\* Every step of the lifecycle is a step of the attempts or a stutter.
LEMMA RefinementStep == IInv /\ [Next]_vars => Mapped
<1> SUFFICES ASSUME IInv, [Next]_vars PROVE Mapped
  OBVIOUS
<1> USE ConstantsAssumption
    DEF IInv, Inv, TypeOK, LockHeld, JobKnown, RunOwned, Executing, Holding,
        BeforeClaim, AfterClaim, Recovering, LiveStatuses, rows, locals, world
<1>1. ASSUME NEW s \in Sources, AuthorizeSource(s) PROVE Mapped
  BY <1>1, QuietMaps DEF Quiet, AuthorizeSource
<1>2. ASSUME NEW s \in Sources, RevokeSource(s) PROVE Mapped
  BY <1>2, QuietMaps DEF Quiet, RevokeSource, AppendTerminalEvent, Pending
<1>3. ASSUME NEW s \in Sources, ExpireDue(s) PROVE Mapped
  BY <1>3, ExpireEffect, QuietMaps DEF Quiet, ExpireDue
<1>4. ASSUME NEW s \in Sources, DeadlinePasses(s) PROVE Mapped
  BY <1>4, QuietMaps DEF Quiet, DeadlinePasses
<1>5. ASSUME NEW s \in Sources, SourceDrifts(s) PROVE Mapped
  BY <1>5, QuietMaps DEF Quiet, SourceDrifts
<1>6. ASSUME NEW u \in Users, SetAccountStatus(u) PROVE Mapped
  BY <1>6, QuietMaps DEF Quiet, SetAccountStatus
<1>7. ASSUME NEW t \in Tasks, CancelPlan(t) PROVE Mapped
  BY <1>7, QuietMaps DEF Quiet, CancelPlan, PlanUndecided
<1>8. ASSUME NEW p \in Procs, Crash(p) PROVE Mapped
  <2>1. CASE ~Executing(p)
    BY <1>8, <2>1, QuietMaps DEF Quiet, Crash, Finish, Goto
  <2>2. CASE Executing(p)
    <3>1. /\ job[p] \in Tasks /\ status[job[p]] \in LiveStatuses
          /\ owner[job[p]] = p
      BY <2>2
    <3>2. /\ \A q \in Procs : Executing(q)' <=> Executing(q) /\ q # p
          /\ \A q \in Procs \ {p} : job'[q] = job[q]
      BY <1>8 DEF Crash, Finish, Goto
    <3>3. \A q \in Procs \ {p} : Executing(q) => job[q] # job[p]
      BY <3>1
    <3>4. \A x \in Tasks : Attempted(x)' <=> Attempted(x) /\ x # job[p]
      BY <2>2, <3>2, <3>3 DEF Attempted
    <3>5. UNCHANGED <<status, replacement>> /\ Attempted(job[p])
      BY <1>8, <2>2 DEF Crash, Attempted
    <3> QED BY <3>1, <3>4, <3>5, MoveMaps, LiveClasses DEF ClassOf
  <2> QED BY <2>1, <2>2
<1>9. ASSUME NEW p \in Procs, NEW r \in Requests, CreateCheck(p, r)
       PROVE  Mapped
  BY <1>9, ExpireEffect, QuietMaps DEF Quiet, CreateCheck, Goto
<1>10. ASSUME NEW p \in Procs, NEW t \in Tasks, NEW autoStart \in BOOLEAN,
         CreateInsert(p, t, autoStart) PROVE Mapped
  <2>1. /\ status[t] = "ABSENT" /\ status' = [status EXCEPT ![t] = "PLANNED"]
        /\ UNCHANGED replacement
    BY <1>10 DEF CreateInsert, InsertRow
  <2>2. \A q \in Procs : /\ Executing(q)' <=> Executing(q)
                         /\ Executing(q) => job'[q] = job[q]
    BY <1>10 DEF CreateInsert, Enlist, Finish, Goto
  <2>3. \A x \in Tasks : Attempted(x)' <=> Attempted(x)
    BY <2>2 DEF Attempted
  <2> QED BY <2>1, <2>3, MoveMaps DEF ClassOf
<1>11. ASSUME NEW p \in Procs, NEW t \in Tasks, CreateReplay(p, t)
       PROVE  Mapped
  BY <1>11, QuietMaps DEF Quiet, CreateReplay, Enlist, Finish, Goto
<1>12. ASSUME NEW p \in Procs, CreateConflict(p) PROVE Mapped
  BY <1>12, QuietMaps DEF Quiet, CreateConflict, Finish, Goto
<1>13. ASSUME NEW p \in Procs, StartTask(p) PROVE Mapped
  BY <1>13, QuietMaps DEF Quiet, StartTask, Finish, Goto
<1>14. ASSUME NEW p \in Procs, NEW t \in Tasks, BeginApproval(p, t)
       PROVE  Mapped
  BY <1>14, QuietMaps DEF Quiet, BeginApproval, Begin, Goto
<1>15. ASSUME NEW p \in Procs, ApprovalPreflight(p) PROVE Mapped
  BY <1>15, ExpireEffect, QuietMaps
     DEF Quiet, ApprovalPreflight, PreflightTask, PreflightProfile, PreflightAuth,
         ActiveAfterRead, Finish, Goto
<1>16. ASSUME NEW p \in Procs, ApprovalPreview(p) PROVE Mapped
  BY <1>16, ExpireEffect, QuietMaps DEF Quiet, ApprovalPreview, Goto
<1>17. ASSUME NEW p \in Procs, RecordApproval(p) PROVE Mapped
  BY <1>17, QuietMaps DEF Quiet, RecordApproval, PlanUndecided, Enlist, Finish, Goto
<1>18. ASSUME NEW p \in Procs, NEW t \in Tasks, Dequeue(p, t) PROVE Mapped
  BY <1>18, QuietMaps DEF Quiet, Dequeue, Begin, Goto
<1>19. ASSUME NEW p \in Procs, NEW t \in Tasks, RunTaskSync(p, t)
       PROVE  Mapped
  BY <1>19, QuietMaps DEF Quiet, RunTaskSync, Begin, Goto
<1>20. ASSUME NEW p \in Procs, AcquireLock(p, "lock", "load") PROVE Mapped
  BY <1>20, QuietMaps DEF Quiet, AcquireLock, Finish, Goto
<1>21. ASSUME NEW p \in Procs, AcquireLock(p, "pb_lock", "pb_read")
       PROVE  Mapped
  BY <1>21, QuietMaps DEF Quiet, AcquireLock, Finish, Goto
<1>22. ASSUME NEW p \in Procs, AcquireLock(p, "rc_lock", "rc_check")
       PROVE  Mapped
  BY <1>22, QuietMaps DEF Quiet, AcquireLock, Finish, Goto
<1>23. ASSUME NEW p \in Procs, ReleaseLock(p) PROVE Mapped
  BY <1>23, QuietMaps DEF Quiet, ReleaseLock, Finish, Goto
<1>24. ASSUME NEW p \in Procs, RequireActiveActor(p) PROVE Mapped
  BY <1>24, QuietMaps DEF Quiet, RequireActiveActor, Goto
<1>25. ASSUME NEW p \in Procs, FailPlanned(p) PROVE Mapped
  BY <1>25, QuietMaps DEF Quiet, FailPlanned, Goto
<1>26. ASSUME NEW p \in Procs, ExecutionPreflight(p) PROVE Mapped
  BY <1>26, ExpireEffect, QuietMaps
     DEF Quiet, ExecutionPreflight, PreflightTask, PreflightProfile, PreflightAuth,
         Goto
<1>27. ASSUME NEW p \in Procs, ClaimTask(p) PROVE Mapped
  <2>1. CASE ~Claimable(job[p])
    BY <1>27, <2>1, QuietMaps DEF Quiet, ClaimTask, Goto
  <2>2. CASE Claimable(job[p])
    <3>1. /\ job[p] \in Tasks /\ status[job[p]] = "PLANNED"
          /\ status' = [status EXCEPT ![job[p]] = "RUNNING"]
          /\ UNCHANGED <<replacement, job>>
      BY <1>27, <2>2 DEF ClaimTask, Claimable
    <3>2. \A q \in Procs : Executing(q)' <=> Executing(q) \/ q = p
      BY <1>27, <2>2 DEF ClaimTask, Goto
    <3>3. \A x \in Tasks : Attempted(x)' <=> Attempted(x) \/ x = job[p]
      BY <3>1, <3>2 DEF Attempted
    <3> QED BY <3>1, <3>3, MoveMaps DEF ClassOf
  <2> QED BY <2>1, <2>2
<1>28. ASSUME NEW p \in Procs, CheckAuthorization(p) PROVE Mapped
  BY <1>28, ExpireEffect, QuietMaps DEF Quiet, CheckAuthorization, Goto
<1>29. ASSUME NEW p \in Procs, CheckProfile(p) PROVE Mapped
  BY <1>29, QuietMaps DEF Quiet, CheckProfile, Goto
<1>30. ASSUME NEW p \in Procs, VerificationEvent(p) PROVE Mapped
  BY <1>30, QuietMaps DEF Quiet, VerificationEvent, SetVerifying
<1>31. ASSUME NEW p \in Procs, RunReturns(p) PROVE Mapped
  BY <1>31, QuietMaps DEF Quiet, RunReturns, Goto
<1>32. ASSUME NEW p \in Procs, PostRun(p) PROVE Mapped
  BY <1>32, ExpireEffect, QuietMaps DEF Quiet, PostRun, Goto
<1>33. ASSUME NEW p \in Procs, EnterVerifying(p) PROVE Mapped
  BY <1>33, QuietMaps DEF Quiet, EnterVerifying, SetVerifying, Goto
<1>34. ASSUME NEW p \in Procs, Publish(p) PROVE Mapped
  <2>1. /\ job[p] \in Tasks /\ status[job[p]] \in LiveStatuses
        /\ Attempted(job[p]) /\ UNCHANGED <<replacement, job>>
    BY <1>34 DEF Publish, Attempted
  <2>2. CASE ~active[creator[job[p]]]
    BY <1>34, <2>1, <2>2, QuietMaps DEF Quiet, Publish, Goto
  <2>3. CASE active[creator[job[p]]]
    <3>1. /\ status' = [status EXCEPT ![job[p]] = "COMPLETED"]
          /\ \A q \in Procs : Executing(q)' <=> Executing(q) /\ q # p
      BY <1>34, <2>1, <2>3 DEF Publish, Goto
    <3>2. \A x \in Tasks \ {job[p]} : Attempted(x)' <=> Attempted(x)
      BY <2>1, <3>1 DEF Attempted
    <3> QED BY <2>1, <3>1, <3>2, MoveMaps, LiveClasses DEF ClassOf
  <2> QED BY <2>2, <2>3
<1>35. ASSUME NEW p \in Procs, ExecutionRaises(p) PROVE Mapped
  BY <1>35, QuietMaps DEF Quiet, ExecutionRaises, Goto
<1>36. ASSUME NEW p \in Procs, FailExecution(p) PROVE Mapped
  <2>1. /\ job[p] \in Tasks /\ status[job[p]] \in LiveStatuses
        /\ Attempted(job[p]) /\ UNCHANGED <<replacement, job>>
    BY <1>36 DEF FailExecution, Attempted
  <2>2. /\ status' = [status EXCEPT ![job[p]] = "FAILED"]
        /\ \A q \in Procs : Executing(q)' <=> Executing(q) /\ q # p
    BY <1>36, <2>1 DEF FailExecution, Goto
  <2>3. \A x \in Tasks \ {job[p]} : Attempted(x)' <=> Attempted(x)
    BY <2>1, <2>2 DEF Attempted
  <2> QED BY <2>1, <2>2, <2>3, MoveMaps, LiveClasses DEF ClassOf
<1>37. ASSUME NEW p \in Procs, NEW t \in Tasks, BeginProbe(p, t)
       PROVE  Mapped
  BY <1>37, QuietMaps DEF Quiet, BeginProbe, Begin, Goto
<1>38. ASSUME NEW p \in Procs, ProbeRead(p) PROVE Mapped
  BY <1>38, QuietMaps DEF Quiet, ProbeRead, Goto
<1>39. ASSUME NEW p \in Procs, NEW t \in Tasks, NEW x \in LiveStatuses,
         BeginRecovery(p, t, x) PROVE Mapped
  BY <1>39, QuietMaps DEF Quiet, BeginRecovery, Begin, Goto
<1>40. ASSUME NEW p \in Procs, RecoveryCheck(p) PROVE Mapped
  BY <1>40, ExpireEffect, QuietMaps DEF Quiet, RecoveryCheck, Recoverable, Goto
<1>41. ASSUME NEW p \in Procs, RecoveryAborts(p) PROVE Mapped
  BY <1>41, QuietMaps DEF Quiet, RecoveryAborts, Goto
<1>42. ASSUME NEW p \in Procs, NEW r \in Tasks, NEW u \in Users,
         RecoveryCommit(p, r, u) PROVE Mapped
  <2>1. /\ job[p] \in Tasks /\ status[job[p]] \in LiveStatuses
        /\ lock[job[p]] = p /\ ~Executing(p) /\ status[r] = "ABSENT"
        /\ status' = [status EXCEPT ![job[p]] = "FAILED", ![r] = "PLANNED"]
        /\ replacement' = [replacement EXCEPT ![job[p]] = r]
        /\ UNCHANGED job
    BY <1>42 DEF RecoveryCommit, Recoverable
  <2>2. ~Attempted(job[p])
    BY <2>1 DEF Attempted
  <2>3. \A q \in Procs : Executing(q)' <=> Executing(q)
    BY <1>42 DEF RecoveryCommit, Goto
  <2>4. \A x \in Tasks : Attempted(x)' <=> Attempted(x)
    BY <2>1, <2>3 DEF Attempted
  <2>5. /\ AttemptOf[job[p]] = "orphan" /\ AttemptOf[r] = "absent"
        /\ job[p] # r
    BY <2>1, <2>2, Classes DEF ClassOf
  <2>6. AttemptOf' = [AttemptOf EXCEPT ![job[p]] = "closed", ![r] = "waiting"]
    BY <2>1, <2>4, <2>5, Classes DEF ClassOf
  <2>7. Attempts!Replace(job[p], r)
    BY <2>1, <2>5, <2>6 DEF Attempts!Replace
  <2> QED BY <2>1, <2>7 DEF Mapped, Attempts!Next
<1>43. CASE UNCHANGED vars
  BY <1>43, QuietMaps DEF Quiet, vars
<1> HIDE DEF IInv, Inv, TypeOK, LockHeld, JobKnown, RunOwned, Executing, Holding,
             BeforeClaim, AfterClaim, Recovering, LiveStatuses, rows, locals,
             world
<1> QED
  BY <1>1, <1>2, <1>3, <1>4, <1>5, <1>6, <1>7, <1>8, <1>9, <1>10, <1>11,
     <1>12, <1>13, <1>14, <1>15, <1>16, <1>17, <1>18, <1>19, <1>20, <1>21,
     <1>22, <1>23, <1>24, <1>25, <1>26, <1>27, <1>28, <1>29, <1>30, <1>31,
     <1>32, <1>33, <1>34, <1>35, <1>36, <1>37, <1>38, <1>39, <1>40, <1>41,
     <1>42, <1>43
     DEF Next, Environment, Proceed, PoolTakes, Client

\* Every behaviour of the task lifecycle is a behaviour of the attempts: at
\* most one attempt per task, published only from inside it, replaced only
\* when nobody is (claim_task, the execution lock, transition_task and
\* recover_owned_task_execution).
THEOREM AttemptsImplemented == Spec => ImplementsAttempts
<1>1. Init => Attempts!Init
  BY Classes DEF Init, Attempts!Init, ClassOf
<1>2. IInv /\ [Next]_vars => [Attempts!Next]_<<AttemptOf, replacement>>
  BY RefinementStep DEF Mapped
<1> QED BY <1>1, <1>2, Invariance, PTL DEF Spec, ImplementsAttempts, Attempts!Spec
=============================================================================
