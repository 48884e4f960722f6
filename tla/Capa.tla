-------------------------------- MODULE Capa --------------------------------
(***************************************************************************)
(* Corrective actions (CAPA) of ProductService (product_service.py) over   *)
(* capa.py: a remediation plan is selected, approved by a named human and  *)
(* executed into one derived data version, one child run and a chain of    *)
(* write-once receipts.  All cases of one completed parent task are        *)
(* modelled.  execute_remediation_plan is a long request without a lock of *)
(* its own: it reads the case once and then writes seven files, one        *)
(* directory and three rows one after the other; another request for the   *)
(* same case, or a crash, can come between any two of them, and a retry    *)
(* must find its way through what is there.                                *)
(*                                                                         *)
(* A receipt with a time stamp in it (approval, authorization, execution,  *)
(* recovery) is created or conflicts: two requests never write the same    *)
(* bytes.  A receipt without one may be written again by anyone.  The      *)
(* child run itself is TaskLifecycle's: here it is claimed, ends, or is    *)
(* left RUNNING by a dead process until an operator recovers it.           *)
(***************************************************************************)
EXTENDS Naturals

CONSTANTS
  Cases,       \* CAPA cases of the parent task
  Named,       \* execution requests that name reviewer and note (HTTP API)
  Unnamed,     \* the call without a request (Streamlit app, pilot tool)
  Modes,       \* the requests that are made
  Procs,       \* request threads
  None,
  MaxAttempts, \* child attempts per case: 3 in the code
  MaxCrashes   \* bound: requests that die half way

ASSUME CapaAssumption ==
  /\ Unnamed \notin Named
  /\ Modes \subseteq Named \cup {Unnamed}
  /\ None \notin Procs \cup Cases \cup Named \cup {Unnamed}
  /\ MaxAttempts \in Nat \ {0}
  /\ MaxCrashes \in Nat

VARIABLES
  selection,   \* cases with selection.json
  queue,       \* cases with responsibility_queue.initial.json
  approval,    \* cases with approval.json
  authz,       \* execution_authorization.json: the request it names
  gate,        \* runtime_invariant.execute_capa.json: the request it binds
  version,     \* published derived version directory: the request's thread
  derived,     \* derived_version.json: the build it is the receipt of
  granted,     \* authorization of the derived directory as a source
  child,       \* execution_status of each child attempt
  agreed,      \* child attempts with an APPROVE_PLAN row
  execution,   \* execution.json
  closed,      \* cases with responsibility_queue.final.json
  recovery,    \* cases with recovery.json
  assessed,    \* cases with outcome_assessment.json
  parent,      \* the parent's source: authorization and live bytes
  pc, on, mode,\* what each thread does next, for which case and request
  report,      \* the case as it was read at the start
  build,       \* the derived version the thread goes on with
  try,         \* the child attempt it looks at
  saw,         \* the status that attempt had
  family,      \* the lineage report it has computed
  crashes

receipts == <<selection, queue, approval, authz, gate, derived, execution,
              closed, recovery, assessed>>
rows == <<granted, child, agreed>>
locals == <<on, mode, report, build, try, saw, family>>
vars == <<receipts, version, rows, parent, pc, locals, crashes>>

Attempts == 1..MaxAttempts
Statuses == {"ABSENT", "PLANNED", "RUNNING", "COMPLETED", "FAILED", "CANCELLED"}
\* The status of every task of the run family: all children of the parent.
Families == [Cases -> [Attempts -> Statuses]]
Executions == [mode : Named \cup {Unnamed}, try : Attempts, family : Families]
ASSUME NoneAssumption == None \notin Executions
Reports == [authz : Named \cup {None}, derived : Procs \cup {None},
            executed : BOOLEAN]
NoReport == [authz |-> None, derived |-> None, executed |-> FALSE]
PCs == {"idle", "queue", "approve", "source", "authorize", "gate", "derive",
        "publish", "receipt", "register", "child", "agree", "run", "running",
        "recheck", "execution", "close", "recovery", "assess"}

TypeOK ==
  /\ selection \subseteq Cases /\ queue \subseteq Cases
  /\ approval \subseteq Cases /\ closed \subseteq Cases
  /\ recovery \subseteq Cases /\ assessed \subseteq Cases
  /\ authz \in [Cases -> Named \cup {None}]
  /\ gate \in [Cases -> Named \cup {Unnamed, None}]
  /\ version \in [Cases -> Procs \cup {None}]
  /\ derived \in [Cases -> Procs \cup {None}]
  /\ granted \in [Cases -> {"NONE", "GRANTED", "REVOKED"}]
  /\ child \in Families
  /\ agreed \in [Cases -> SUBSET Attempts]
  /\ execution \in [Cases -> Executions \cup {None}]
  /\ parent \in {"MATCHED", "CHANGED", "REVOKED"}
  /\ pc \in [Procs -> PCs]
  /\ on \in [Procs -> Cases \cup {None}]
  /\ mode \in [Procs -> Named \cup {Unnamed, None}]
  /\ report \in [Procs -> Reports]
  /\ build \in [Procs -> Procs \cup {None}]
  /\ try \in [Procs -> Attempts]
  /\ saw \in [Procs -> Statuses]
  /\ family \in [Procs -> Families \cup {None}]
  /\ crashes \in 0..MaxCrashes

\* A completed parent task with an authorized local source, and no case yet.
Init ==
  /\ selection = {} /\ queue = {} /\ approval = {} /\ closed = {}
  /\ recovery = {} /\ assessed = {}
  /\ authz = [c \in Cases |-> None]
  /\ gate = [c \in Cases |-> None]
  /\ version = [c \in Cases |-> None]
  /\ derived = [c \in Cases |-> None]
  /\ granted = [c \in Cases |-> "NONE"]
  /\ child = [c \in Cases |-> [a \in Attempts |-> "ABSENT"]]
  /\ agreed = [c \in Cases |-> {}]
  /\ execution = [c \in Cases |-> None]
  /\ parent = "MATCHED"
  /\ pc = [p \in Procs |-> "idle"]
  /\ on = [p \in Procs |-> None]
  /\ mode = [p \in Procs |-> None]
  /\ report = [p \in Procs |-> NoReport]
  /\ build = [p \in Procs |-> None]
  /\ try = [p \in Procs |-> 1]
  /\ saw = [p \in Procs |-> "ABSENT"]
  /\ family = [p \in Procs |-> None]
  /\ crashes = 0

-----------------------------------------------------------------------------
(* What get_capa_case checks before it returns a case. *)

\* The receipts that are there bind each other.
Binds(c) ==
  /\ authz[c] # None => c \in approval
  /\ derived[c] # None => c \in approval
  /\ execution[c] # None =>
       /\ c \in approval /\ derived[c] # None
       /\ authz[c] = IF execution[c].mode = Unnamed THEN None
                     ELSE execution[c].mode
       /\ child[c][execution[c].try] = "COMPLETED"
  /\ c \in closed => execution[c] # None
  /\ c \in recovery => execution[c] # None /\ c \in closed

\* The lineage report is computed again and compared with the recorded one.
LineageHolds(c) == execution[c] # None => execution[c].family = child

Readable(c) ==
  c \in selection /\ c \in queue /\ Binds(c) /\ LineageHolds(c)

-----------------------------------------------------------------------------
Goto(p, label) == pc' = [pc EXCEPT ![p] = label]

\* The request ends: with an answer, a conflict or another error.
End(p) ==
  /\ Goto(p, "idle")
  /\ on' = [on EXCEPT ![p] = None]
  /\ mode' = [mode EXCEPT ![p] = None]
  /\ report' = [report EXCEPT ![p] = NoReport]
  /\ build' = [build EXCEPT ![p] = None]
  /\ try' = [try EXCEPT ![p] = 1]
  /\ saw' = [saw EXCEPT ![p] = "ABSENT"]
  /\ family' = [family EXCEPT ![p] = None]

\* select_remediation_plan.  A case that has its selection is only read.
Select(p, c) ==
  /\ pc[p] = "idle"
  /\ c \notin selection
  /\ selection' = selection \cup {c}
  /\ Goto(p, "queue")
  /\ on' = [on EXCEPT ![p] = c]
  /\ UNCHANGED <<queue, approval, authz, gate, derived, execution, closed,
                 recovery, assessed, version, rows, parent, mode, report,
                 build, try, saw, family, crashes>>

SelectQueue(p) ==
  /\ pc[p] = "queue"
  /\ queue' = queue \cup {on[p]}
  /\ End(p)
  /\ UNCHANGED <<selection, approval, authz, gate, derived, execution, closed,
                 recovery, assessed, version, rows, parent, crashes>>

\* approve_remediation_plan reads the case and the live source, and writes the
\* approval later.
BeginApproval(p, c) ==
  /\ pc[p] = "idle"
  /\ Readable(c) /\ c \notin approval
  /\ parent = "MATCHED"
  /\ Goto(p, "approve")
  /\ on' = [on EXCEPT ![p] = c]
  /\ UNCHANGED <<receipts, version, rows, parent, mode, report, build, try,
                 saw, family, crashes>>

WriteApproval(p) ==
  /\ pc[p] = "approve"
  /\ approval' = approval \cup {on[p]}
  /\ End(p)
  /\ UNCHANGED <<selection, queue, authz, gate, derived, execution, closed,
                 recovery, assessed, version, rows, parent, crashes>>

-----------------------------------------------------------------------------
(* execute_remediation_plan *)

BeginExecution(p, c, m) ==
  /\ pc[p] = "idle"
  /\ Readable(c) /\ c \in approval /\ c \notin recovery
  /\ Goto(p, "source")
  /\ on' = [on EXCEPT ![p] = c]
  /\ mode' = [mode EXCEPT ![p] = m]
  /\ report' = [report EXCEPT ![p] =
       [authz |-> authz[c], derived |-> derived[c],
        executed |-> execution[c] # None]]
  /\ try' = [try EXCEPT ![p] =
       IF execution[c] # None THEN execution[c].try ELSE 1]
  /\ UNCHANGED <<receipts, version, rows, parent, build, saw, family, crashes>>

\* An authorization that the case had when it was read must be the request's.
AuthorizationAdmits(p) == report[p].authz \in {None, mode[p]}

\* The live source is still the approved one, and the authorization on record
\* names the request.
CheckSource(p) ==
  /\ pc[p] = "source"
  /\ \/ /\ parent = "MATCHED" /\ AuthorizationAdmits(p)
        /\ Goto(p, IF mode[p] \in Named /\ report[p].authz = None
                   THEN "authorize" ELSE "gate")
        /\ UNCHANGED locals
     \/ /\ ~(parent = "MATCHED" /\ AuthorizationAdmits(p))
        /\ End(p)
  /\ UNCHANGED <<receipts, version, rows, parent, crashes>>

WriteAuthorization(p) ==
  LET c == on[p] IN
  /\ pc[p] = "authorize"
  /\ \/ /\ authz[c] = None
        /\ authz' = [authz EXCEPT ![c] = mode[p]]
        /\ Goto(p, "gate")
        /\ UNCHANGED locals
     \/ /\ authz[c] # None
        /\ End(p)
        /\ UNCHANGED authz
  /\ UNCHANGED <<selection, queue, approval, gate, derived, execution, closed,
                 recovery, assessed, version, rows, parent, crashes>>

\* The receipt of the runtime invariants binds the authorization, or the
\* approval if nobody is named.
WriteGate(p) ==
  LET c == on[p] IN
  /\ pc[p] = "gate"
  /\ \/ /\ gate[c] \in {None, mode[p]}
        /\ gate' = [gate EXCEPT ![c] = mode[p]]
        /\ Goto(p, "derive")
        /\ UNCHANGED locals
     \/ /\ gate[c] \notin {None, mode[p]}
        /\ End(p)
        /\ UNCHANGED gate
  /\ UNCHANGED <<selection, queue, approval, authz, derived, execution, closed,
                 recovery, assessed, version, rows, parent, crashes>>

\* Mutant of Derive: a version is always built, a published one not adopted.
DeriveAnew(p) ==
  /\ pc[p] = "derive"
  /\ Goto(p, "publish")
  /\ UNCHANGED <<receipts, version, rows, parent, locals, crashes>>

\* A published directory is verified and adopted (_recover_published_derived_
\* version); otherwise a version is built in a staging directory.
Derive(p) ==
  LET c == on[p] IN
  /\ pc[p] = "derive"
  /\ \/ /\ version[c] # None
        /\ report[p].derived \in {None, version[c]}
        /\ build' = [build EXCEPT ![p] = version[c]]
        /\ Goto(p, "receipt")
        /\ UNCHANGED <<on, mode, report, try, saw, family>>
     \/ /\ version[c] = None /\ report[p].derived = None
        /\ Goto(p, "publish")
        /\ UNCHANGED locals
     \/ /\ report[p].derived \notin {None, version[c]}
        /\ End(p)
  /\ UNCHANGED <<receipts, version, rows, parent, crashes>>

\* Mutant of Publish: the rename replaces a version that is there.
PublishReplaces(p) ==
  LET c == on[p] IN
  /\ pc[p] = "publish"
  /\ version' = [version EXCEPT ![c] = p]
  /\ build' = [build EXCEPT ![p] = p]
  /\ Goto(p, "receipt")
  /\ UNCHANGED <<receipts, rows, parent, crashes, on, mode, report, try, saw,
                 family>>

\* _publish_staged_version: one rename, never onto an existing directory.  A
\* build may also fail before it (budget, copy, digest); its staging directory
\* is removed.
Publish(p) ==
  LET c == on[p] IN
  /\ pc[p] = "publish"
  /\ \/ /\ version[c] = None
        /\ version' = [version EXCEPT ![c] = p]
        /\ build' = [build EXCEPT ![p] = p]
        /\ Goto(p, "receipt")
        /\ UNCHANGED <<on, mode, report, try, saw, family>>
     \/ /\ version[c] # None
        /\ End(p)
        /\ UNCHANGED version
  /\ UNCHANGED <<receipts, rows, parent, crashes>>

WriteDerived(p) ==
  LET c == on[p] IN
  /\ pc[p] = "receipt"
  /\ \/ /\ derived[c] \in {None, build[p]}
        /\ derived' = [derived EXCEPT ![c] = build[p]]
        /\ Goto(p, "register")
        /\ UNCHANGED locals
     \/ /\ derived[c] \notin {None, build[p]}
        /\ End(p)
        /\ UNCHANGED derived
  /\ UNCHANGED <<selection, queue, approval, authz, gate, execution, closed,
                 recovery, assessed, version, rows, parent, crashes>>

\* create_local_source_authorization returns the row of the directory if there
\* is one, whatever its status; the status must be active.
Register(p) ==
  LET c == on[p] IN
  /\ pc[p] = "register"
  /\ \/ /\ granted[c] # "REVOKED"
        /\ granted' = [granted EXCEPT ![c] = "GRANTED"]
        /\ saw' = [saw EXCEPT ![p] = IF report[p].executed
                                     THEN child[c][try[p]] ELSE "ABSENT"]
        /\ Goto(p, IF report[p].executed THEN "agree" ELSE "child")
        /\ UNCHANGED <<on, mode, report, build, try, family>>
     \/ /\ granted[c] = "REVOKED"
        /\ End(p)
        /\ UNCHANGED granted
  /\ UNCHANGED <<receipts, version, child, agreed, parent, crashes>>

\* Mutant of Ended: a run nobody answers for is given up.
EndedOrRunning == {"FAILED", "CANCELLED", "RUNNING"}

\* Statuses after which the next attempt is tried.
Ended == {"FAILED", "CANCELLED"}

\* Mutant of MayTryAgain: one attempt too many.
MayTryOnceMore(a) == a <= MaxAttempts

\* for attempt in range(1, 4): the loop goes on to another attempt.
MayTryAgain(a) == a < MaxAttempts

\* create_reverification_task with the key of the attempt: the stored row, or
\* a new one.  Either needs the derived source to be active.
CreateChild(p) ==
  LET c == on[p]  a == try[p]  s == child[c][a] IN
  /\ pc[p] = "child"
  /\ \/ /\ granted[c] = "GRANTED" /\ s \in {"ABSENT", "PLANNED", "COMPLETED"}
        /\ child' = [child EXCEPT ![c][a] = IF s = "ABSENT" THEN "PLANNED" ELSE s]
        /\ saw' = [saw EXCEPT ![p] = IF s = "ABSENT" THEN "PLANNED" ELSE s]
        /\ Goto(p, "agree")
        /\ UNCHANGED <<on, mode, report, build, try, family>>
     \/ /\ granted[c] = "GRANTED" /\ s \in Ended /\ MayTryAgain(a)
        /\ try' = [try EXCEPT ![p] = a + 1]
        /\ UNCHANGED <<child, pc, on, mode, report, build, saw, family>>
     \/ /\ \/ granted[c] # "GRANTED"
           \/ s = "RUNNING" /\ s \notin Ended
           \/ s \in Ended /\ ~MayTryAgain(a)
        /\ End(p)
        /\ UNCHANGED child
  /\ UNCHANGED <<receipts, version, granted, agreed, parent, crashes>>

\* The plan of the child is approved once, without being started.
AgreeChild(p) ==
  LET c == on[p]  a == try[p] IN
  /\ pc[p] = "agree"
  /\ \/ /\ a \in agreed[c]
        /\ Goto(p, IF saw[p] = "PLANNED" THEN "run" ELSE "recheck")
        /\ UNCHANGED <<agreed, locals>>
     \/ /\ a \notin agreed[c]
        /\ saw[p] = "PLANNED" /\ child[c][a] = "PLANNED"
        /\ agreed' = [agreed EXCEPT ![c] = @ \cup {a}]
        /\ Goto(p, "run")
        /\ UNCHANGED locals
     \/ /\ a \notin agreed[c]
        /\ ~(saw[p] = "PLANNED" /\ child[c][a] = "PLANNED")
        /\ End(p)
        /\ UNCHANGED agreed
  /\ UNCHANGED <<receipts, version, granted, child, parent, crashes>>

\* run_task_sync: the run is claimed, or the task is returned as it is.
RunChild(p) ==
  LET c == on[p]  a == try[p] IN
  /\ pc[p] = "run"
  /\ \/ /\ child[c][a] = "PLANNED" /\ granted[c] = "GRANTED"
        /\ child' = [child EXCEPT ![c][a] = "RUNNING"]
        /\ Goto(p, "running")
        /\ UNCHANGED locals
     \/ /\ child[c][a] = "COMPLETED"
        /\ Goto(p, "recheck")
        /\ UNCHANGED <<child, locals>>
     \/ /\ child[c][a] # "COMPLETED"
        /\ ~(child[c][a] = "PLANNED" /\ granted[c] = "GRANTED")
        /\ End(p)
        /\ UNCHANGED child
  /\ UNCHANGED <<receipts, version, granted, agreed, parent, crashes>>

ChildEnds(p) ==
  LET c == on[p]  a == try[p] IN
  /\ pc[p] = "running"
  /\ \/ /\ child' = [child EXCEPT ![c][a] = "COMPLETED"]
        /\ Goto(p, "recheck")
        /\ UNCHANGED locals
     \/ /\ child' = [child EXCEPT ![c][a] = "FAILED"]
        /\ End(p)
  /\ UNCHANGED <<receipts, version, granted, agreed, parent, crashes>>

\* The lineage report is computed and the parent compared with what it was.
Recheck(p) ==
  /\ pc[p] = "recheck"
  /\ \/ /\ parent = "MATCHED" /\ child[on[p]][try[p]] = "COMPLETED"
        /\ family' = [family EXCEPT ![p] = child]
        /\ Goto(p, IF report[p].executed THEN "close" ELSE "execution")
        /\ UNCHANGED <<on, mode, report, build, try, saw>>
     \/ /\ ~(parent = "MATCHED" /\ child[on[p]][try[p]] = "COMPLETED")
        /\ End(p)
  /\ UNCHANGED <<receipts, version, rows, parent, crashes>>

WriteExecution(p) ==
  LET c == on[p] IN
  /\ pc[p] = "execution"
  /\ \/ /\ execution[c] = None
        /\ execution' = [execution EXCEPT ![c] =
             [mode |-> mode[p], try |-> try[p], family |-> family[p]]]
        /\ Goto(p, "close")
        /\ UNCHANGED locals
     \/ /\ execution[c] # None
        /\ End(p)
        /\ UNCHANGED execution
  /\ UNCHANGED <<selection, queue, approval, authz, gate, derived, closed,
                 recovery, assessed, version, rows, parent, crashes>>

\* Mutant of WriteClosed: the two last receipts in the other order.
RecoveryFirst(p) ==
  /\ pc[p] = "close"
  /\ recovery' = recovery \cup {on[p]}
  /\ Goto(p, "recovery")
  /\ UNCHANGED <<selection, queue, approval, authz, gate, derived, execution,
                 closed, assessed, version, rows, parent, locals, crashes>>

WriteClosed(p) ==
  /\ pc[p] = "close"
  /\ closed' = closed \cup {on[p]}
  /\ Goto(p, "recovery")
  /\ UNCHANGED <<selection, queue, approval, authz, gate, derived, execution,
                 recovery, assessed, version, rows, parent, locals, crashes>>

\* After the recovery receipt the case is read again, for the assessment.
WriteRecovery(p) ==
  LET c == on[p] IN
  /\ pc[p] = "recovery"
  /\ \/ /\ c \notin recovery
        /\ recovery' = recovery \cup {c}
        /\ Goto(p, "assess")
        /\ UNCHANGED locals
     \/ /\ c \in recovery
        /\ End(p)
        /\ UNCHANGED recovery
  /\ UNCHANGED <<selection, queue, approval, authz, gate, derived, execution,
                 closed, assessed, version, rows, parent, crashes>>

WriteAssessment(p) ==
  LET c == on[p] IN
  /\ pc[p] = "assess"
  /\ assessed' = IF Readable(c) THEN assessed \cup {c} ELSE assessed
  /\ End(p)
  /\ UNCHANGED <<selection, queue, approval, authz, gate, derived, execution,
                 closed, recovery, version, rows, parent, crashes>>

-----------------------------------------------------------------------------
(* The world around the requests. *)

\* A request dies half way: the process crashes, or a write or a build fails.
\* A child run stays RUNNING.
Crash(p) ==
  /\ pc[p] # "idle" /\ crashes < MaxCrashes
  /\ crashes' = crashes + 1
  /\ End(p)
  /\ UNCHANGED <<receipts, version, rows, parent>>

SourceDrifts ==
  /\ parent = "MATCHED"
  /\ parent' = "CHANGED"
  /\ UNCHANGED <<receipts, version, rows, pc, locals, crashes>>

RevokeParent ==
  /\ parent # "REVOKED"
  /\ parent' = "REVOKED"
  /\ UNCHANGED <<receipts, version, rows, pc, locals, crashes>>

\* Revocation of the derived source fails the children that have not begun.
RevokeDerived(c) ==
  /\ granted[c] = "GRANTED"
  /\ granted' = [granted EXCEPT ![c] = "REVOKED"]
  /\ child' = [child EXCEPT ![c] =
       [a \in Attempts |-> IF @[a] = "PLANNED" THEN "FAILED" ELSE @[a]]]
  /\ UNCHANGED <<receipts, version, agreed, parent, pc, locals, crashes>>

\* An operator cancels the plan of a child that nobody has approved.
CancelChild(c, a) ==
  /\ child[c][a] = "PLANNED" /\ a \notin agreed[c]
  /\ child' = [child EXCEPT ![c][a] = "CANCELLED"]
  /\ UNCHANGED <<receipts, version, granted, agreed, parent, pc, locals,
                 crashes>>

\* An operator recovers a child run whose process is gone.
RecoverChild(c, a) ==
  /\ child[c][a] = "RUNNING"
  /\ ~\E p \in Procs : pc[p] = "running" /\ on[p] = c /\ try[p] = a
  /\ child' = [child EXCEPT ![c][a] = "FAILED"]
  /\ UNCHANGED <<receipts, version, granted, agreed, parent, pc, locals,
                 crashes>>

Step(p) ==
  \/ SelectQueue(p) \/ WriteApproval(p)
  \/ CheckSource(p) \/ WriteAuthorization(p) \/ WriteGate(p) \/ Derive(p)
  \/ Publish(p) \/ WriteDerived(p) \/ Register(p) \/ CreateChild(p)
  \/ AgreeChild(p) \/ RunChild(p) \/ ChildEnds(p) \/ Recheck(p)
  \/ WriteExecution(p) \/ WriteClosed(p) \/ WriteRecovery(p)
  \/ WriteAssessment(p)

Requests(p) ==
  \E c \in Cases :
    \/ Select(p, c) \/ BeginApproval(p, c)
    \/ \E m \in Modes : BeginExecution(p, c, m)

Operators ==
  \/ SourceDrifts \/ RevokeParent
  \/ \E c \in Cases :
       \/ RevokeDerived(c)
       \/ \E a \in Attempts : CancelChild(c, a) \/ RecoverChild(c, a)

Next ==
  \/ \E p \in Procs : Step(p) \/ Requests(p) \/ Crash(p)
  \/ Operators

Spec == Init /\ [][Next]_vars

\* Requests run on, a client whose execution has ended asks again with a
\* request that the case admits, and an operator recovers an abandoned child.
Fairness ==
  /\ \A p \in Procs : WF_vars(Step(p))
  /\ \A c \in Cases : \A m \in Modes :
       SF_vars(\E p \in Procs : BeginExecution(p, c, m))
  /\ \A c \in Cases : WF_vars(\E a \in Attempts : RecoverChild(c, a))

FairSpec == Spec /\ Fairness

-----------------------------------------------------------------------------
(* Properties *)

\* The receipt in the case is that of the published directory, whoever built
\* it and whoever crashed between the rename and the receipt: two rival builds
\* and a recovery never leave the case with a receipt of another build.
VersionsAgree ==
  \A c \in Cases :
    /\ derived[c] \in {None, version[c]}
    /\ \A p \in Procs : on[p] = c => build[p] \in {None, version[c]}

\* At most one child attempt of a case ever completes, and no two run at once:
\* a retry never starts another attempt while an earlier one may still finish.
OneChildCompletes ==
  \A c \in Cases : \A a, b \in Attempts :
    (a # b /\ child[c][a] \in {"RUNNING", "COMPLETED"})
      => child[c][b] \notin {"RUNNING", "COMPLETED"}

\* Every receipt on disk binds the receipts it is built on, at every instant
\* and for every order in which requests write them: get_capa_case never finds
\* an authorization, an execution, a queue or a recovery that does not fit.
ReceiptsBind == \A c \in Cases : Binds(c)

\* Whatever rival requests for a case, a crash and a withdrawn source do, the
\* receipt in the case is that of the published version, one child attempt
\* completes, and the receipts of the case bind one another.
CaseIsBound == TypeOK /\ VersionsAgree /\ OneChildCompletes /\ ReceiptsBind

\* A case whose recovery has been recorded can be read from then on.
CompletedStaysReadable == \A c \in Cases : c \in assessed => Readable(c)

\* Nothing is left to hope for: the sources are gone, every attempt is used, or
\* a run of the family (a child of another case) has moved since the lineage
\* report in the execution receipt was computed, so that get_capa_case refuses
\* the case from then on.
Hopeless(c) ==
  \/ parent # "MATCHED" \/ granted[c] = "REVOKED"
  \/ \A a \in Attempts : child[c][a] \in Ended
  \/ ~LineageHolds(c)

\* An approved case that is asked for again and again is recovered, however
\* often its requests die and whatever rival cases of its parent do, unless the
\* sources are withdrawn, all attempts have failed, or a rival case has moved the
\* lineage its execution receipt records before its recovery is written.
ApprovedRecovers ==
  \A c \in Cases : c \in approval ~> (c \in recovery \/ Hopeless(c))
=============================================================================
