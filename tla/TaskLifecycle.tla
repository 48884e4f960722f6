--------------------------- MODULE TaskLifecycle ---------------------------
(***************************************************************************)
(* The task lifecycle of VisionData Gate: TaskStore (task_store.py), the   *)
(* part of ProductService that creates, approves, executes and recovers    *)
(* tasks (product_service.py) and the per-task execution lock              *)
(* (execution_recovery.py).                                                *)
(*                                                                         *)
(* SQLite serialises the store: every TaskStore method is one BEGIN        *)
(* IMMEDIATE transaction, so it is one step here.  Everything between two  *)
(* transactions can be interleaved with other processes, and a process can *)
(* die between any two of them.  A process is one Python process with one  *)
(* pool worker; it performs one activity (an API call, a CLI run or a      *)
(* queued execution) at a time, and further concurrency is obtained with   *)
(* further processes, since processes share nothing but the database and   *)
(* the OS file locks.                                                      *)
(***************************************************************************)
EXTENDS Naturals, FiniteSets

CONSTANTS
  Tasks,        \* task identifiers: rows of agent_tasks, created and to come
  Sources,      \* local source authorizations (local_source_authorizations)
  Snapshots,    \* the sources that are immutable operator project snapshots
  Synthetic,    \* the built-in demo source: no authorization, no deadline
  ApprovalModes,\* the values of plan_approval_required clients ask for
  Users,        \* accounts
  Suspendable,  \* the accounts that are not the last active administrator
  Procs,        \* processes sharing one product root
  None,         \* no process, no task, no user
  MaxCrashes    \* bound: how many times a process dies in a behaviour

ASSUME ConstantsAssumption ==
  /\ Snapshots \subseteq Sources
  /\ Synthetic \notin Sources
  /\ Suspendable \subseteq Users
  /\ ApprovalModes \subseteq BOOLEAN
  /\ None \notin Tasks \cup Procs \cup Users \cup Sources
  /\ MaxCrashes \in Nat

VARIABLES
  status,       \* agent_tasks.execution_status
  phase,        \* agent_tasks.current_phase
  source,       \* agent_tasks.source_id
  approvalReq,  \* agent_tasks.plan_approval_required
  creator,      \* agent_tasks.created_by
  plan,         \* the APPROVE_PLAN / CANCEL_PLAN row of task_interventions
  owner,        \* task_execution_owners: the process that claimed the task
  replacement,  \* task_execution_recoveries: the replacement task
  auth,         \* latest event of each source's authorization chain
  due,          \* the declared validity window of the source has passed
  matched,      \* the live source bytes still have the frozen profile
  active,       \* identity_credentials.status is ACTIVE
  lock,         \* holder of each task's OS execution lock
  futures,      \* ProductService._futures: submitted and not yet running
  pc,           \* what each process does next
  job,          \* the task it does it for
  seen,         \* the task status a recovery request was made for
  ready,        \* the verdict of the preflight it is evaluating
  ask,          \* the request of the task it is creating
  offered,      \* history: tasks some probe has classified INTERRUPTED
  crashes       \* how many crashes have happened

rows  == <<source, approvalReq, creator>>
locals == <<job, seen, ready, ask>>
world == <<due, matched, active>>
vars  == <<status, phase, rows, plan, owner, replacement, auth, world, lock,
           futures, pc, locals, offered, crashes>>

Statuses == {"ABSENT", "PLANNED", "RUNNING", "VERIFYING", "COMPLETED",
             "FAILED", "CANCELLED"}
Phases == {"absent", "planned", "running", "verification", "completed",
           "failed", "failed_authorization", "interrupted", "cancelled"}
LiveStatuses == {"RUNNING", "VERIFYING"}
AuthEvents == {"NONE", "GRANTED", "REVOKED", "EXPIRED"}
Requests == [source : Sources \cup {Synthetic}, approvalReq : ApprovalModes,
             creator : Users]
NoRequest == [source |-> Synthetic, approvalReq |-> FALSE, creator |-> None]

\* Program points inside _execute_owned_task, before and after claim_task.
BeforeClaim == {"load", "fail_planned", "pre_task", "pre_profile",
                "pre_auth", "claim"}
AfterClaim == {"check_auth", "check_profile", "run", "post_run", "verify",
               "publish", "fail"}
Recovering == {"rc_check", "rc_commit"}
\* Program points at which the process holds the lock of its job.
Holding == BeforeClaim \cup AfterClaim \cup Recovering
           \cup {"pb_read", "release"}
PCs == Holding \cup {"idle", "lock", "insert", "start", "ap_task",
                     "ap_profile", "ap_auth", "ap_preview", "ap_record",
                     "rc_lock", "pb_lock"}

TypeOK ==
  /\ status \in [Tasks -> Statuses]
  /\ phase \in [Tasks -> Phases]
  /\ source \in [Tasks -> Sources \cup {Synthetic}]
  /\ approvalReq \in [Tasks -> BOOLEAN]
  /\ creator \in [Tasks -> Users \cup {None}]
  /\ plan \in [Tasks -> {"NONE", "APPROVE_PLAN", "CANCEL_PLAN"}]
  /\ owner \in [Tasks -> Procs \cup {None}]
  /\ replacement \in [Tasks -> Tasks \cup {None}]
  /\ auth \in [Sources -> AuthEvents]
  /\ due \in [Sources -> BOOLEAN]
  /\ matched \in [Sources -> BOOLEAN]
  /\ active \in [Users -> BOOLEAN]
  /\ lock \in [Tasks -> Procs \cup {None}]
  /\ futures \in [Procs -> SUBSET Tasks]
  /\ pc \in [Procs -> PCs]
  /\ job \in [Procs -> Tasks \cup {None}]
  /\ seen \in [Procs -> Statuses]
  /\ ready \in [Procs -> BOOLEAN]
  /\ ask \in [Procs -> Requests \cup {NoRequest}]
  /\ offered \in SUBSET Tasks
  /\ crashes \in 0..MaxCrashes

\* A fresh product root: no source is authorized, no task exists, and every
\* account is active.
Init ==
  /\ status = [t \in Tasks |-> "ABSENT"]
  /\ phase = [t \in Tasks |-> "absent"]
  /\ source = [t \in Tasks |-> Synthetic]
  /\ approvalReq = [t \in Tasks |-> FALSE]
  /\ creator = [t \in Tasks |-> None]
  /\ plan = [t \in Tasks |-> "NONE"]
  /\ owner = [t \in Tasks |-> None]
  /\ replacement = [t \in Tasks |-> None]
  /\ auth = [s \in Sources |-> "NONE"]
  /\ due = [s \in Sources |-> FALSE]
  /\ matched = [s \in Sources |-> TRUE]
  /\ active = [u \in Users |-> TRUE]
  /\ lock = [t \in Tasks |-> None]
  /\ futures = [p \in Procs |-> {}]
  /\ pc = [p \in Procs |-> "idle"]
  /\ job = [p \in Procs |-> None]
  /\ seen = [p \in Procs |-> "ABSENT"]
  /\ ready = [p \in Procs |-> FALSE]
  /\ ask = [p \in Procs |-> NoRequest]
  /\ offered = {}
  /\ crashes = 0

-----------------------------------------------------------------------------
(***************************************************************************)
(* Source authorization.                                                   *)
(***************************************************************************)

\* Mutant of Pending: a terminal event also fails the tasks that run.
PendingOrRunning(s) ==
  {t \in Tasks : status[t] \in {"PLANNED", "RUNNING"} /\ source[t] = s}

\* _fail_pending_tasks_for_source: the tasks a terminal event fails closed.
\* (CREATED is never stored: create_task inserts PLANNED.)
Pending(s) == {t \in Tasks : status[t] = "PLANNED" /\ source[t] = s}

\* _append_terminal_source_authorization_event, for an event e of source s.
AppendTerminalEvent(s, e) ==
  /\ auth[s] = "GRANTED"
  /\ auth' = [auth EXCEPT ![s] = e]
  /\ status' = [t \in Tasks |-> IF t \in Pending(s) THEN "FAILED" ELSE status[t]]
  /\ phase' = [t \in Tasks |-> IF t \in Pending(s) THEN "failed_authorization"
                                                  ELSE phase[t]]

ExpiryDue(s) == s \in Sources /\ due[s] /\ auth[s] = "GRANTED"

\* _expire_source_if_due, which every read of a source performs first.  A
\* task on the synthetic source reads no authorization.
ExpireSourceIfDue(s) ==
  IF ExpiryDue(s)
  THEN AppendTerminalEvent(s, "EXPIRED")
  ELSE UNCHANGED <<auth, status, phase>>

\* Mutant of ActiveAfterRead: the receipt looks at the window and forgets the
\* revocation.
WindowOnly(s) == s = Synthetic \/ ~due[s]

\* The receipt such a read returns says "active" (_local_source_receipt).
ActiveAfterRead(s) == s = Synthetic \/ (auth[s] = "GRANTED" /\ ~due[s])

\* create_local_source_authorization of a root not yet authorized: the GRANTED
\* event, sequence 1.  For a known root it only expires what is due and returns
\* the existing receipt, even a terminal one: that is ExpireDue.
AuthorizeSource(s) ==
  /\ auth[s] = "NONE"
  /\ auth' = [auth EXCEPT ![s] = "GRANTED"]
  /\ UNCHANGED <<status, phase, rows, plan, owner, replacement, world, lock,
                 futures, pc, locals, offered, crashes>>

\* revoke_local_source_authorization.  On a source whose window has passed the
\* expiry is appended first, the revocation then finds a terminal chain and
\* raises, and the transaction rolls back: the step has no effect.
RevokeSource(s) ==
  /\ ~due[s]
  /\ AppendTerminalEvent(s, "REVOKED")
  /\ UNCHANGED <<rows, plan, owner, replacement, world, lock, futures, pc,
                 locals, offered, crashes>>

\* expire_due_local_source_authorizations and the listing reads.
ExpireDue(s) ==
  /\ ExpiryDue(s)
  /\ ExpireSourceIfDue(s)
  /\ UNCHANGED <<rows, plan, owner, replacement, world, lock, futures, pc,
                 locals, offered, crashes>>

\* The clock reaches authorization_valid_until.
DeadlinePasses(s) ==
  /\ ~due[s] /\ auth[s] # "NONE"
  /\ due' = [due EXCEPT ![s] = TRUE]
  /\ UNCHANGED <<status, phase, rows, plan, owner, replacement, auth, matched,
                 active, lock, futures, pc, locals, offered, crashes>>

\* The authorized bytes change, or are restored, outside the program.
SourceDrifts(s) ==
  /\ auth[s] # "NONE"
  /\ matched' = [matched EXCEPT ![s] = ~matched[s]]
  /\ UNCHANGED <<status, phase, rows, plan, owner, replacement, auth, due,
                 active, lock, futures, pc, locals, offered, crashes>>

\* IdentityService.set_status on the account of a task creator.  The last
\* active administrator is protected (_protect_last_admin).
SetAccountStatus(u) ==
  /\ u \in Suspendable
  /\ active' = [active EXCEPT ![u] = ~active[u]]
  /\ UNCHANGED <<status, phase, rows, plan, owner, replacement, auth, due,
                 matched, lock, futures, pc, locals, offered, crashes>>

-----------------------------------------------------------------------------
(***************************************************************************)
(* Program points.  Goto moves process p; Finish ends its activity.        *)
(***************************************************************************)
Goto(p, label) == pc' = [pc EXCEPT ![p] = label]

\* p starts an activity on behalf of task t.
Begin(p, t, label) ==
  /\ pc[p] = "idle"
  /\ Goto(p, label)
  /\ job' = [job EXCEPT ![p] = t]

Finish(p) ==
  /\ Goto(p, "idle")
  /\ job' = [job EXCEPT ![p] = None]
  /\ seen' = [seen EXCEPT ![p] = "ABSENT"]

-----------------------------------------------------------------------------
(***************************************************************************)
(* Task creation: _create_validated_task and TaskStore.create_task.  The   *)
(* source is checked in one transaction and the row inserted in another.   *)
(***************************************************************************)
SourceAdmitsTask(s) ==
  /\ ActiveAfterRead(s)
  /\ s \in Snapshots => matched[s]

CreateCheck(p, r) ==
  /\ pc[p] = "idle"
  /\ r.source \in Sources => auth[r.source] # "NONE"
  /\ ExpireSourceIfDue(r.source)
  /\ IF SourceAdmitsTask(r.source)
     THEN /\ Goto(p, "insert")
          /\ ask' = [ask EXCEPT ![p] = r]
     ELSE UNCHANGED <<pc, ask>>
  /\ UNCHANGED <<rows, plan, owner, replacement, world, lock, futures, job,
                 seen, ready, offered, crashes>>

\* The store does not look at the source again.
InsertRow(t, r) ==
  /\ status[t] = "ABSENT"
  /\ status' = [status EXCEPT ![t] = "PLANNED"]
  /\ phase' = [phase EXCEPT ![t] = "planned"]
  /\ source' = [source EXCEPT ![t] = r.source]
  /\ approvalReq' = [approvalReq EXCEPT ![t] = r.approvalReq]
  /\ creator' = [creator EXCEPT ![t] = r.creator]

\* start_task is called next, for t.
Enlist(p, t) ==
  /\ Goto(p, "start")
  /\ job' = [job EXCEPT ![p] = t]
  /\ UNCHANGED seen

\* auto_start holds on the API and is FALSE for the CLI, which runs the task
\* synchronously instead (RunTaskSync).
CreateInsert(p, t, autoStart) ==
  /\ pc[p] = "insert"
  /\ InsertRow(t, ask[p])
  /\ IF autoStart /\ ~ask[p].approvalReq
     THEN Enlist(p, t)
     ELSE Finish(p)
  /\ ask' = [ask EXCEPT ![p] = NoRequest]
  /\ UNCHANGED <<plan, owner, replacement, auth, world, lock, futures, ready,
                 offered, crashes>>

\* The idempotency key already names t: the stored row is returned, and a
\* PLANNED task that needs no approval is started again.
CreateReplay(p, t) ==
  /\ pc[p] = "insert"
  /\ status[t] # "ABSENT"
  /\ ask[p] = [source |-> source[t], approvalReq |-> approvalReq[t],
               creator |-> creator[t]]
  /\ IF status[t] = "PLANNED" /\ ~approvalReq[t]
     THEN Enlist(p, t)
     ELSE Finish(p)
  /\ ask' = [ask EXCEPT ![p] = NoRequest]
  /\ UNCHANGED <<status, phase, rows, plan, owner, replacement, auth, world,
                 lock, futures, ready, offered, crashes>>

\* The key was used for a different request.
CreateConflict(p) ==
  /\ pc[p] = "insert"
  /\ \E t \in Tasks : status[t] # "ABSENT"
  /\ Finish(p)
  /\ ask' = [ask EXCEPT ![p] = NoRequest]
  /\ UNCHANGED <<status, phase, rows, plan, owner, replacement, auth, world,
                 lock, futures, ready, offered, crashes>>

\* start_task: a task with an undone future is not submitted twice.  (A process
\* is idle when it starts a task, so none of its futures is running.)
StartTask(p) ==
  /\ pc[p] = "start"
  /\ futures' = [futures EXCEPT ![p] = @ \cup {job[p]}]
  /\ Finish(p)
  /\ UNCHANGED <<status, phase, rows, plan, owner, replacement, auth, world,
                 lock, ready, ask, offered, crashes>>

-----------------------------------------------------------------------------
(***************************************************************************)
(* task_preflight, evaluated in three reads.  The reads of the task row    *)
(* and of its interventions are one step: a task that leaves PLANNED       *)
(* between them never returns to it, so neither claim_task nor             *)
(* record_intervention accepts the verdict.  The plan preview between them *)
(* reads the source, and expires it when due.                              *)
(***************************************************************************)
PreflightTask(p, from, to, verdict) ==
  /\ pc[p] = from
  /\ ready' = [ready EXCEPT ![p] = verdict]
  /\ ExpireSourceIfDue(source[job[p]])
  /\ Goto(p, to)
  /\ UNCHANGED <<rows, plan, owner, replacement, world, lock, futures, job,
                 seen, ask, offered, crashes>>

\* _live_source_profile_status: MATCHED needs an active authorization and the
\* frozen profile.
PreflightProfile(p, from, to) ==
  LET s == source[job[p]] IN
  /\ pc[p] = from
  /\ ready' = [ready EXCEPT ![p] =
                 @ /\ ActiveAfterRead(s) /\ (s \in Sources => matched[s])]
  /\ ExpireSourceIfDue(s)
  /\ Goto(p, to)
  /\ UNCHANGED <<rows, plan, owner, replacement, world, lock, futures, job,
                 seen, ask, offered, crashes>>

\* get_local_source_authorization: the event the approval must be bound to.
\* A source has one GRANTED event, so a binding is current exactly when the
\* latest event still is that one.
PreflightAuth(p, from, pass, stop) ==
  LET s == source[job[p]] IN
  /\ pc[p] = from
  /\ ExpireSourceIfDue(s)
  /\ IF ready[p] /\ ActiveAfterRead(s)
     THEN Goto(p, pass) /\ UNCHANGED <<job, seen>>
     ELSE stop
  /\ ready' = [ready EXCEPT ![p] = FALSE]
  /\ UNCHANGED <<rows, plan, owner, replacement, world, lock, futures, ask,
                 offered, crashes>>

-----------------------------------------------------------------------------
(***************************************************************************)
(* Human interventions: intervene_task and TaskStore.record_intervention.  *)
(***************************************************************************)
BeginApproval(p, t) ==
  /\ status[t] # "ABSENT"
  /\ Begin(p, t, "ap_task")
  /\ UNCHANGED <<status, phase, rows, plan, owner, replacement, auth, world,
                 lock, futures, seen, ready, ask, offered, crashes>>

\* Approval needs prerequisite_ready: a pending approval does not block it.
ApprovalPreflight(p) ==
  \/ PreflightTask(p, "ap_task", "ap_profile", status[job[p]] = "PLANNED")
  \/ PreflightProfile(p, "ap_profile", "ap_auth")
  \/ PreflightAuth(p, "ap_auth", "ap_preview", Finish(p))

\* The second task_plan_preview reads, and may expire, the source again.
ApprovalPreview(p) ==
  /\ pc[p] = "ap_preview"
  /\ ExpireSourceIfDue(source[job[p]])
  /\ Goto(p, "ap_record")
  /\ UNCHANGED <<rows, plan, owner, replacement, world, lock, futures, locals,
                 offered, crashes>>

\* The snapshot the intervention is bound to is that of a PLANNED row, and a
\* row is PLANNED once: the comparison with the stored row is the status test.
PlanUndecided(t) == status[t] = "PLANNED" /\ plan[t] = "NONE"

RecordApproval(p) ==
  LET t == job[p] IN
  /\ pc[p] = "ap_record"
  /\ IF PlanUndecided(t) /\ approvalReq[t]
     THEN /\ plan' = [plan EXCEPT ![t] = "APPROVE_PLAN"]
          /\ Enlist(p, t)
     ELSE Finish(p) /\ UNCHANGED plan
  /\ UNCHANGED <<status, phase, rows, owner, replacement, auth, world, lock,
                 futures, ready, ask, offered, crashes>>

CancelPlan(t) ==
  /\ PlanUndecided(t)
  /\ plan' = [plan EXCEPT ![t] = "CANCEL_PLAN"]
  /\ status' = [status EXCEPT ![t] = "CANCELLED"]
  /\ phase' = [phase EXCEPT ![t] = "cancelled"]
  /\ UNCHANGED <<rows, owner, replacement, auth, world, lock, futures, pc,
                 locals, offered, crashes>>

-----------------------------------------------------------------------------
(***************************************************************************)
(* Execution: _execute_task and _execute_owned_task.                       *)
(***************************************************************************)

\* Mutant of Dequeue: the future is never discarded.
DequeueKeeps(p, t) ==
  /\ t \in futures[p]
  /\ Begin(p, t, "lock")
  /\ UNCHANGED <<status, phase, rows, plan, owner, replacement, auth, world,
                 lock, futures, seen, ready, ask, offered, crashes>>

\* The pool worker picks a submitted future.
Dequeue(p, t) ==
  /\ t \in futures[p]
  /\ Begin(p, t, "lock")
  /\ futures' = [futures EXCEPT ![p] = @ \ {t}]
  /\ UNCHANGED <<status, phase, rows, plan, owner, replacement, auth, world,
                 lock, seen, ready, ask, offered, crashes>>

\* run_task_sync: the CLI and the CAPA executor run a stored task inline.
RunTaskSync(p, t) ==
  /\ status[t] # "ABSENT"
  /\ Begin(p, t, "lock")
  /\ UNCHANGED <<status, phase, rows, plan, owner, replacement, auth, world,
                 lock, futures, seen, ready, ask, offered, crashes>>

\* Mutant of AcquireLock: the lock is advisory and always obtained.
AcquireAlways(p, from, held) ==
  /\ pc[p] = from
  /\ lock' = [lock EXCEPT ![job[p]] = p]
  /\ Goto(p, held)
  /\ UNCHANGED <<status, phase, rows, plan, owner, replacement, auth, world,
                 futures, locals, offered, crashes>>

\* task_execution_lock is not blocking: who does not get it gives up at once.
AcquireLock(p, from, held) ==
  LET t == job[p] IN
  /\ pc[p] = from
  /\ IF lock[t] = None
     THEN lock' = [lock EXCEPT ![t] = p] /\ Goto(p, held) /\ UNCHANGED <<job, seen>>
     ELSE Finish(p) /\ UNCHANGED lock
  /\ UNCHANGED <<status, phase, rows, plan, owner, replacement, auth, world,
                 futures, ready, ask, offered, crashes>>

\* Mutant of ReleaseLock: the activity ends and the lock stays.
ReleaseForgotten(p) ==
  /\ pc[p] = "release"
  /\ Finish(p)
  /\ UNCHANGED <<status, phase, rows, plan, owner, replacement, auth, world,
                 lock, futures, ready, ask, offered, crashes>>

\* The activity ends: the context manager releases the lock.
ReleaseLock(p) ==
  LET t == job[p] IN
  /\ pc[p] = "release"
  /\ lock' = [lock EXCEPT ![t] = None]
  /\ Finish(p)
  /\ UNCHANGED <<status, phase, rows, plan, owner, replacement, auth, world,
                 futures, ready, ask, offered, crashes>>

\* planned_task is read, then require_active_actor on its creator; IdentityError
\* ends the attempt.  One step: a row that has left PLANNED between the two
\* reads is refused by the transition and by the claim that follow.
RequireActiveActor(p) ==
  LET t == job[p] IN
  /\ pc[p] = "load"
  /\ Goto(p, IF active[creator[t]]
             THEN IF approvalReq[t] THEN "pre_task" ELSE "claim"
             ELSE IF status[t] = "PLANNED" THEN "fail_planned" ELSE "release")
  /\ UNCHANGED <<status, phase, rows, plan, owner, replacement, auth, world,
                 lock, futures, locals, offered, crashes>>

\* Mutant of FailPlanned: the row is failed whatever it has become.
FailUnchecked(p) ==
  /\ pc[p] = "fail_planned"
  /\ status' = [status EXCEPT ![job[p]] = "FAILED"]
  /\ phase' = [phase EXCEPT ![job[p]] = "failed"]
  /\ Goto(p, "release")
  /\ UNCHANGED <<rows, plan, owner, replacement, auth, world, lock, futures,
                 locals, offered, crashes>>

\* transition_task to FAILED: refused unless the row is still PLANNED.
FailPlanned(p) ==
  LET t == job[p] IN
  /\ pc[p] = "fail_planned"
  /\ IF status[t] = "PLANNED"
     THEN /\ status' = [status EXCEPT ![t] = "FAILED"]
          /\ phase' = [phase EXCEPT ![t] = "failed"]
     ELSE UNCHANGED <<status, phase>>
  /\ Goto(p, "release")
  /\ UNCHANGED <<rows, plan, owner, replacement, auth, world, lock, futures,
                 locals, offered, crashes>>

\* Execution needs execution_ready: the approval exists and is current.
ExecutionPreflight(p) ==
  \/ PreflightTask(p, "pre_task", "pre_profile",
       status[job[p]] = "PLANNED" /\ plan[job[p]] = "APPROVE_PLAN")
  \/ PreflightProfile(p, "pre_profile", "pre_auth")
  \/ PreflightAuth(p, "pre_auth", "claim",
                   Goto(p, "release") /\ UNCHANGED <<job, seen>>)

Claimable(t) ==
  /\ status[t] = "PLANNED"
  /\ approvalReq[t] => plan[t] = "APPROVE_PLAN"

\* claim_task: the conditional UPDATE and the owner row, in one transaction.
ClaimTask(p) ==
  LET t == job[p] IN
  /\ pc[p] = "claim"
  /\ IF Claimable(t)
     THEN /\ status' = [status EXCEPT ![t] = "RUNNING"]
          /\ phase' = [phase EXCEPT ![t] = "running"]
          /\ owner' = [owner EXCEPT ![t] = p]
          /\ Goto(p, IF source[t] \in Sources THEN "check_auth" ELSE "run")
     ELSE Goto(p, "release") /\ UNCHANGED <<status, phase, owner>>
  /\ UNCHANGED <<rows, plan, replacement, auth, world, lock, futures, locals,
                 offered, crashes>>

\* get_local_source_binding_unscoped: the authorization is read again.
CheckAuthorization(p) ==
  LET s == source[job[p]] IN
  /\ pc[p] = "check_auth"
  /\ ExpireSourceIfDue(s)
  /\ Goto(p, IF ActiveAfterRead(s) THEN "check_profile" ELSE "fail")
  /\ UNCHANGED <<rows, plan, owner, replacement, world, lock, futures, locals,
                 offered, crashes>>

\* _profile_bound_source reads the source and compares the frozen profile.
CheckProfile(p) ==
  /\ pc[p] = "check_profile"
  /\ Goto(p, IF matched[source[job[p]]] THEN "run" ELSE "fail")
  /\ UNCHANGED <<status, phase, rows, plan, owner, replacement, auth, world,
                 lock, futures, locals, offered, crashes>>

\* Mutant of SetVerifying: the status is written into the phase column.
SetVerifyingMisnamed(t) ==
  IF status[t] = "RUNNING"
  THEN /\ status' = [status EXCEPT ![t] = "VERIFYING"]
       /\ phase' = [phase EXCEPT ![t] = "VERIFYING"]
  ELSE UNCHANGED <<status, phase>>

\* set_verifying_if_running
SetVerifying(t) ==
  IF status[t] = "RUNNING"
  THEN /\ status' = [status EXCEPT ![t] = "VERIFYING"]
       /\ phase' = [phase EXCEPT ![t] = "verification"]
  ELSE UNCHANGED <<status, phase>>

\* on_event, for an event of the verification phase.
VerificationEvent(p) ==
  /\ pc[p] = "run"
  /\ status[job[p]] = "RUNNING"
  /\ SetVerifying(job[p])
  /\ UNCHANGED <<rows, plan, owner, replacement, auth, world, lock, futures,
                 pc, locals, offered, crashes>>

RunReturns(p) ==
  /\ pc[p] = "run"
  /\ Goto(p, "post_run")
  /\ UNCHANGED <<status, phase, rows, plan, owner, replacement, auth, world,
                 lock, futures, locals, offered, crashes>>

\* The finished run re-reads its source for the adapter kind, not for its
\* status; verification, reconciliation and packaging follow.
PostRun(p) ==
  /\ pc[p] = "post_run"
  /\ ExpireSourceIfDue(source[job[p]])
  /\ Goto(p, "verify")
  /\ UNCHANGED <<rows, plan, owner, replacement, world, lock, futures, locals,
                 offered, crashes>>

EnterVerifying(p) ==
  /\ pc[p] = "verify"
  /\ SetVerifying(job[p])
  /\ Goto(p, "publish")
  /\ UNCHANGED <<rows, plan, owner, replacement, auth, world, lock, futures,
                 locals, offered, crashes>>

\* transition_task to COMPLETED: a legal transition, by an active creator.
Publish(p) ==
  LET t == job[p] IN
  /\ pc[p] = "publish"
  /\ IF status[t] \in LiveStatuses /\ active[creator[t]]
     THEN /\ status' = [status EXCEPT ![t] = "COMPLETED"]
          /\ phase' = [phase EXCEPT ![t] = "completed"]
          /\ Goto(p, "release")
     ELSE Goto(p, "fail") /\ UNCHANGED <<status, phase>>
  /\ UNCHANGED <<rows, plan, owner, replacement, auth, world, lock, futures,
                 locals, offered, crashes>>

\* Any step of the attempt may raise: the output directory exists, the runner
\* or the adapter fails, evidence does not verify or does not audit.
ExecutionRaises(p) ==
  /\ pc[p] \in AfterClaim \ {"fail"}
  /\ Goto(p, "fail")
  /\ UNCHANGED <<status, phase, rows, plan, owner, replacement, auth, world,
                 lock, futures, locals, offered, crashes>>

\* except Exception: a row still RUNNING or VERIFYING becomes FAILED.
FailExecution(p) ==
  LET t == job[p] IN
  /\ pc[p] = "fail"
  /\ IF status[t] \in LiveStatuses
     THEN /\ status' = [status EXCEPT ![t] = "FAILED"]
          /\ phase' = [phase EXCEPT ![t] = "failed"]
     ELSE UNCHANGED <<status, phase>>
  /\ Goto(p, "release")
  /\ UNCHANGED <<rows, plan, owner, replacement, auth, world, lock, futures,
                 locals, offered, crashes>>

-----------------------------------------------------------------------------
(***************************************************************************)
(* Recovery of interrupted executions.                                     *)
(***************************************************************************)

\* task_execution_recovery: a live row with an owner is probed.
BeginProbe(p, t) ==
  /\ status[t] \in LiveStatuses /\ owner[t] # None
  /\ Begin(p, t, "pb_lock")
  /\ UNCHANGED <<status, phase, rows, plan, owner, replacement, auth, world,
                 lock, futures, seen, ready, ask, offered, crashes>>

\* Mutant of ProbeRead: the row read before the lock is trusted.
ProbeTrusts(p) ==
  /\ pc[p] = "pb_read"
  /\ offered' = offered \cup {job[p]}
  /\ Goto(p, "release")
  /\ UNCHANGED <<status, phase, rows, plan, owner, replacement, auth, world,
                 lock, futures, locals, crashes>>

\* The row is read again while the lock is held; INTERRUPTED is reported only
\* for a row that is still live.
ProbeRead(p) ==
  LET t == job[p] IN
  /\ pc[p] = "pb_read"
  /\ offered' = IF status[t] \in LiveStatuses THEN offered \cup {t} ELSE offered
  /\ Goto(p, "release")
  /\ UNCHANGED <<status, phase, rows, plan, owner, replacement, auth, world,
                 lock, futures, locals, crashes>>

\* Mutant of BeginRecovery: recovery does not take the execution lock.
BeginUnlocked(p, t, expected) ==
  /\ status[t] # "ABSENT" /\ replacement[t] = None
  /\ Begin(p, t, "rc_check")
  /\ seen' = [seen EXCEPT ![p] = expected]
  /\ UNCHANGED <<status, phase, rows, plan, owner, replacement, auth, world,
                 lock, futures, ready, ask, offered, crashes>>

\* recover_task_execution, asked for a row the operator saw as expected.  A
\* replay of a stored receipt returns it and changes nothing.
BeginRecovery(p, t, expected) ==
  /\ status[t] # "ABSENT" /\ replacement[t] = None
  /\ Begin(p, t, "rc_lock")
  /\ seen' = [seen EXCEPT ![p] = expected]
  /\ UNCHANGED <<status, phase, rows, plan, owner, replacement, auth, world,
                 lock, futures, ready, ask, offered, crashes>>

\* A row is RUNNING once and VERIFYING once: the snapshot is the status.
Recoverable(p, t) ==
  /\ status[t] \in LiveStatuses
  /\ status[t] = seen[p]
  /\ owner[t] # None

\* The checks under the lock, then the read of the source binding digest.
RecoveryCheck(p) ==
  LET t == job[p] IN
  /\ pc[p] = "rc_check"
  /\ IF Recoverable(p, t)
     THEN ExpireSourceIfDue(source[t]) /\ Goto(p, "rc_commit")
     ELSE UNCHANGED <<auth, status, phase>> /\ Goto(p, "release")
  /\ UNCHANGED <<rows, plan, owner, replacement, world, lock, futures, locals,
                 offered, crashes>>

\* Mutant of RecoveryCommit: the replacement inherits the orphan's approval.
CommitWithoutApproval(p, r, u) ==
  LET t == job[p] IN
  /\ pc[p] = "rc_commit"
  /\ replacement[t] = None /\ Recoverable(p, t)
  /\ status[r] = "ABSENT"
  /\ status' = [status EXCEPT ![t] = "FAILED", ![r] = "PLANNED"]
  /\ phase' = [phase EXCEPT ![t] = "interrupted", ![r] = "planned"]
  /\ source' = [source EXCEPT ![r] = source[t]]
  /\ creator' = [creator EXCEPT ![r] = u]
  /\ replacement' = [replacement EXCEPT ![t] = r]
  /\ Goto(p, "release")
  /\ UNCHANGED <<approvalReq, plan, owner, auth, world, lock, futures, locals,
                 offered, crashes>>

\* recover_owned_task_execution: the orphan fails and a fresh task r, which
\* needs a new approval, is inserted for actor u.
RecoveryCommit(p, r, u) ==
  LET t == job[p] IN
  /\ pc[p] = "rc_commit"
  /\ replacement[t] = None /\ Recoverable(p, t)
  /\ status[r] = "ABSENT"
  /\ status' = [status EXCEPT ![t] = "FAILED", ![r] = "PLANNED"]
  /\ phase' = [phase EXCEPT ![t] = "interrupted", ![r] = "planned"]
  /\ source' = [source EXCEPT ![r] = source[t]]
  /\ approvalReq' = [approvalReq EXCEPT ![r] = TRUE]
  /\ creator' = [creator EXCEPT ![r] = u]
  /\ replacement' = [replacement EXCEPT ![t] = r]
  /\ Goto(p, "release")
  /\ UNCHANGED <<plan, owner, auth, world, lock, futures, locals, offered,
                 crashes>>

\* ConflictError, or the bound on task identifiers is reached.
RecoveryAborts(p) ==
  /\ pc[p] = "rc_commit"
  /\ \/ ~(replacement[job[p]] = None /\ Recoverable(p, job[p]))
     \/ \A r \in Tasks : status[r] # "ABSENT"
  /\ Goto(p, "release")
  /\ UNCHANGED <<status, phase, rows, plan, owner, replacement, auth, world,
                 lock, futures, locals, offered, crashes>>

-----------------------------------------------------------------------------
\* A process dies.  The OS releases its locks; its queue and everything it had
\* in memory are gone.  __init__'s recover_interrupted changes nothing.
Crash(p) ==
  /\ crashes < MaxCrashes
  /\ crashes' = crashes + 1
  /\ pc[p] # "idle" \/ futures[p] # {}
  /\ lock' = [t \in Tasks |-> IF lock[t] = p THEN None ELSE lock[t]]
  /\ futures' = [futures EXCEPT ![p] = {}]
  /\ Finish(p)
  /\ ready' = [ready EXCEPT ![p] = FALSE]
  /\ ask' = [ask EXCEPT ![p] = NoRequest]
  /\ UNCHANGED <<status, phase, rows, plan, owner, replacement, auth, world,
                 offered>>

-----------------------------------------------------------------------------
\* What p does without waiting for anyone: the rest of what it has begun.
Proceed(p) ==
  \/ CreateConflict(p) \/ StartTask(p)
  \/ ApprovalPreflight(p) \/ ApprovalPreview(p)
  \/ RecordApproval(p)
  \/ AcquireLock(p, "lock", "load") \/ ReleaseLock(p)
  \/ RequireActiveActor(p) \/ FailPlanned(p)
  \/ ExecutionPreflight(p) \/ ClaimTask(p)
  \/ CheckAuthorization(p) \/ CheckProfile(p) \/ VerificationEvent(p)
  \/ RunReturns(p) \/ PostRun(p) \/ EnterVerifying(p) \/ Publish(p)
  \/ ExecutionRaises(p) \/ FailExecution(p)
  \/ AcquireLock(p, "pb_lock", "pb_read") \/ ProbeRead(p)
  \/ AcquireLock(p, "rc_lock", "rc_check") \/ RecoveryCheck(p)
  \/ RecoveryAborts(p)
  \/ \E r \in Tasks, u \in Users : RecoveryCommit(p, r, u)
  \/ \E t \in Tasks : CreateReplay(p, t)
  \/ \E t \in Tasks, autoStart \in BOOLEAN : CreateInsert(p, t, autoStart)

PoolTakes(p) == \E t \in Tasks : Dequeue(p, t)

\* What a client or an operator asks of an idle process.
Client(p) ==
  \/ \E r \in Requests : CreateCheck(p, r)
  \/ \E t \in Tasks : BeginApproval(p, t) \/ RunTaskSync(p, t)
                       \/ BeginProbe(p, t)
  \/ \E t \in Tasks, x \in LiveStatuses : BeginRecovery(p, t, x)

Environment ==
  \/ \E s \in Sources : \/ AuthorizeSource(s) \/ RevokeSource(s)
                         \/ ExpireDue(s) \/ DeadlinePasses(s)
                         \/ SourceDrifts(s)
  \/ \E u \in Users : SetAccountStatus(u)
  \/ \E t \in Tasks : CancelPlan(t)
  \/ \E p \in Procs : Crash(p)

Next == Environment \/ \E p \in Procs : Proceed(p) \/ PoolTakes(p) \/ Client(p)

Spec == Init /\ [][Next]_vars

\* A live process keeps running what it has begun: threads are scheduled and
\* runners terminate.  The pool worker is a thread of its own with a FIFO
\* queue, so the API calls that keep the process busy here cannot keep a queued
\* future waiting: strong fairness.  Nothing obliges a client to ask.
Fairness ==
  /\ \A p \in Procs : WF_vars(Proceed(p))
  /\ \A p \in Procs, t \in Tasks : SF_vars(Dequeue(p, t))

FairSpec == Spec /\ Fairness

-----------------------------------------------------------------------------
(***************************************************************************)
(* Properties.                                                             *)
(***************************************************************************)

\* p is between claim_task and the end of the attempt.
Executing(p) == pc[p] \in AfterClaim

\* A run in progress is never pulled from under its process: while p executes
\* a task, p is the one recorded owner, the row is still RUNNING or VERIFYING,
\* no recovery has replaced it and no other process executes it.  Revocation,
\* expiry, account changes, probes, recovery and other starts all interleave.
LiveRunIsOwned ==
  \A p \in Procs : Executing(p) =>
    /\ owner[job[p]] = p
    /\ status[job[p]] \in LiveStatuses
    /\ replacement[job[p]] = None
    /\ \A q \in Procs \ {p} : Executing(q) => job[q] # job[p]

\* _TRANSITIONS, the table transition_task enforces.
Transitions ==
  [ABSENT |-> {"PLANNED"}, PLANNED |-> {"RUNNING", "FAILED", "CANCELLED"},
   RUNNING |-> {"VERIFYING", "COMPLETED", "FAILED"},
   VERIFYING |-> {"COMPLETED", "FAILED"},
   COMPLETED |-> {}, FAILED |-> {}, CANCELLED |-> {}]

\* Every writer of execution_status obeys the table, although five of them
\* (claim, verification, cancellation, fail-closed, recovery) update the
\* column with SQL of their own and never consult it.
LifecycleObeyed ==
  [][\A t \in Tasks : status'[t] # status[t] =>
       status'[t] \in Transitions[status[t]]]_vars

\* A task that needs approval is claimed only with a recorded approval, a
\* cancelled task was never claimed, and a task failed closed by a terminal
\* authorization event ("without reading source bytes") never ran.
NoUnauthorizedRun ==
  \A t \in Tasks : owner[t] # None =>
    /\ approvalReq[t] => plan[t] = "APPROVE_PLAN"
    /\ status[t] # "CANCELLED"
    /\ phase[t] # "failed_authorization"

\* Recovery replaces an attempt exactly when it is dead for good: a recovered
\* task stays FAILED, no two tasks share a replacement, and a replacement
\* needs an approval of its own before it can run.
RecoveryIsFinal ==
  \A t \in Tasks : replacement[t] # None =>
    /\ status[t] = "FAILED" /\ phase[t] = "interrupted"
    /\ approvalReq[replacement[t]]
    /\ \A q \in Procs : Executing(q) => job[q] # t
    /\ \A x \in Tasks \ {t} : replacement[x] # replacement[t]

\* "a completed run is never offered as recoverable": once a probe classified
\* a task INTERRUPTED it never completes, whatever ran when the probe did.
OfferedNeverCompletes ==
  \A t \in offered : status[t] \notin {"PLANNED", "COMPLETED"}

\* Approval and source authorization stay together: an approved plan that waits
\* for execution has a source whose latest event is still the grant it was
\* bound to.  The check before the approval, the approval itself, and the
\* revocation or expiry that fails pending tasks closed are separate
\* transactions of different processes.
ApprovedPlanHasLiveGrant ==
  \A t \in Tasks : status[t] = "PLANNED" /\ plan[t] = "APPROVE_PLAN"
    => (source[t] \in Sources => auth[source[t]] = "GRANTED")

\* An execution in progress ends, and with it the lock it holds.
LocksAreReleased ==
  \A p \in Procs, t \in Tasks : lock[t] = p ~> lock[t] # p

\* A queued execution reaches the lock.
QueuedIsTaken ==
  \A p \in Procs, t \in Tasks : t \in futures[p] ~> t \notin futures[p]

\* Both: what was submitted is taken, and what runs lets its lock go.
ExecutionsEnd == LocksAreReleased /\ QueuedIsTaken

\* "after an authorization is revoked or expires, future reads fail closed"
\* (docs/DATA_SOURCE_AND_COMPLIANCE_SEMIFINAL_RC3.md:101): no process is about
\* to read source bytes under a terminal authorization.
ReadsFailClosed ==
  \A p \in Procs : pc[p] \in {"check_profile", "run"} =>
    (source[job[p]] \in Sources => auth[source[job[p]]] = "GRANTED")

\* "COMPLETED after approval" (docs/API_QUICKSTART.md:179): an approved plan
\* does not stay PLANNED.
ApprovedPlanIsExecuted ==
  \A t \in Tasks : status[t] = "PLANNED" /\ plan[t] = "APPROVE_PLAN"
    ~> status[t] # "PLANNED"

-----------------------------------------------------------------------------
(***************************************************************************)
(* Refinement: what the lifecycle promises about attempts.  An attempt is  *)
(* live while a process is inside it and orphaned when that process is     *)
(* gone and the row still says RUNNING or VERIFYING.                       *)
(***************************************************************************)
Attempted(t) == \E p \in Procs : Executing(p) /\ job[p] = t

AttemptOf ==
  [t \in Tasks |->
     IF status[t] = "ABSENT" THEN "absent"
     ELSE IF status[t] = "PLANNED" THEN "waiting"
     ELSE IF status[t] \in LiveStatuses
          THEN IF Attempted(t) THEN "live" ELSE "orphan"
     ELSE IF status[t] = "COMPLETED" THEN "published" ELSE "closed"]

Attempts == INSTANCE ExecutionAttempts
              WITH attempt <- AttemptOf, heir <- replacement

\* Every behaviour of the task lifecycle is one of the abstract attempts: at
\* most one attempt per task, published only by the process inside it, and
\* replaced only when that process is gone.
ImplementsAttempts == Attempts!Spec
=============================================================================
