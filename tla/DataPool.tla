------------------------------ MODULE DataPool ------------------------------
(***************************************************************************)
(* A governed data pool (data_pool.py), the qualified subset derived from   *)
(* it (operator_snapshot.py) and the bridge to detector training            *)
(* (vision_data_pool_bridge.py).  The pool begins with the origin task,     *)
(* whose gate found something in some members.  Its qualified members can   *)
(* be materialized as a snapshot with a source of its own; a second task    *)
(* gates that source, and a new version of the pool may refer to it.        *)
(*                                                                         *)
(* Every request reads pool, version and task context in transactions of    *)
(* their own and then writes in one more; source authorizations are         *)
(* revoked and the sealed readiness drifts in between.  Seals and digests   *)
(* are the values they are taken of.                                        *)
(***************************************************************************)
EXTENDS Naturals, Sequences, FiniteSets

CONSTANTS
  Requests,    \* concurrent requests
  Keys,        \* request_key values
  Members,     \* samples of the origin snapshot
  Found,       \* members the origin gate has findings for
  MaxVersions, \* bound: versions of the pool
  MaxDrift     \* bound: changes of the readiness of both tasks

Tasks == {"origin", "regate"}
\* The derived source is made of the members without findings.
Clean == Members \ Found
MembersOf(t) == IF t = "origin" THEN Members ELSE Clean
FindingsOf(t) == IF t = "origin" THEN Found ELSE {}
GatePassed(t) == t = "regate"

VARIABLES
  source,   \* authorization of the source of each task
  rd,       \* readiness receipt of each task
  pool,     \* versions of the pool; its receipt is the whole sequence
  derived,  \* derivation record of each version number
  ops,      \* operations table
  snap,     \* directory of the derived snapshot
  req,      \* requests under way
  exported  \* history: bindings the publishing transaction has accepted

vars == <<source, rd, pool, derived, ops, snap, req, exported>>

Idle == [op |-> "idle"]
Dispositions == {"QUALIFIED", "REPAIR", "HOLD"}

TypeOK ==
  /\ source \in [Tasks -> {"none", "active", "revoked"}]
  /\ rd \in [Tasks -> 0..MaxDrift]
  /\ Len(pool) <= MaxVersions
  /\ \A i \in DOMAIN pool :
       /\ pool[i].task \in Tasks
       /\ DOMAIN pool[i].decided = MembersOf(pool[i].task)
  /\ derived \in [1..MaxVersions -> {"none", "FULL", "SUBSET"}]
  /\ snap \in {"none", "partial", "whole"}

Init ==
  /\ source = [t \in Tasks |-> IF t = "origin" THEN "active" ELSE "none"]
  /\ rd = [t \in Tasks |-> 0]
  /\ pool = <<>> /\ ops = {} /\ snap = "none" /\ exported = {}
  /\ derived = [i \in 1..MaxVersions |-> "none"]
  /\ req = [r \in Requests |-> Idle]

Done(r) == req' = [req EXCEPT ![r] = Idle]

\* _task_context: the task exists and its source is active.
Context(t) == source[t] = "active"

-----------------------------------------------------------------------------
(* Versions *)

Qualified(v) == {m \in DOMAIN v.decided : v.decided[m] = "QUALIFIED"}

\* Mutant of QualifiedByEvidence: a batch that is blocked by somebody else's
\* findings is clean.
QualifiedByOthers(t, m) == GatePassed(t) \/ FindingsOf(t) # {}

\* A member without findings, in a batch that passed or that only other
\* members' findings have blocked.
QualifiedByEvidence(t, m) ==
  /\ m \notin FindingsOf(t)
  /\ GatePassed(t) \/ FindingsOf(t) \ {m} # {}

\* _build_version accepts the decisions of the human review.
Reviewable(t, decided) ==
  \A m \in MembersOf(t) :
    /\ decided[m] = "QUALIFIED" => QualifiedByEvidence(t, m)
    /\ decided[m] = "REPAIR" => m \in FindingsOf(t)

\* Mutant of Reviews: the member sets are not compared.
ReviewsOfAny(t) == {d \in [Members -> Dispositions] : Reviewable(t, d)}

\* Decisions, one for each member of the snapshot, that a reviewer may send;
\* others are refused and change nothing.
Reviews(t) == {d \in [MembersOf(t) -> Dispositions] : Reviewable(t, d)}

\* _freshness_reasons is empty.
Fresh(v) == Context(v.task) /\ v.rd = rd[v.task]

\* _check_replay: the earlier request with this key.  It answers for the new
\* one, or is in conflict with it; neither writes.
Replay(op, target, key) == {o \in ops : o.op = op /\ o.target = target /\ o.key = key}
Logged(op, target, key) == ops \cup {[op |-> op, target |-> target, key |-> key]}

\* create_pool, create_version: reads.  A version names its task, the
\* decisions and the readiness and pool its reviewer has seen.
ReadForVersion(r, t, key, decided) ==
  LET op == IF pool = <<>> THEN "create" ELSE "version" IN
  /\ req[r] = Idle
  /\ op = "create" => t = "origin"
  /\ op = "version" => Fresh(pool[Len(pool)])
  /\ Context(t)
  /\ req' = [req EXCEPT ![r] = [op |-> op, key |-> key, seen |-> pool,
                                version |-> [task |-> t, rd |-> rd[t], decided |-> decided,
                                              parent |-> Len(pool)]]]
  /\ UNCHANGED <<source, rd, pool, derived, ops, snap, exported>>

Extend(v) ==
  /\ Len(pool) < MaxVersions
  /\ pool' = Append(pool, v)

\* Mutant of WriteVersion: the pool that was read is not compared with the
\* stored one.
WriteVersionUnread(r) ==
  LET q == req[r] IN
  /\ q.op \in {"create", "version"}
  /\ IF Context(q.version.task)
     THEN /\ Extend(q.version)
          /\ ops' = Logged(q.op, 0, q.key)
     ELSE UNCHANGED <<pool, ops>>
  /\ Done(r)
  /\ UNCHANGED <<source, rd, derived, snap, exported>>

\* The transaction.  A key that is known answers with its result; an origin
\* task has one pool; a version needs the pool it was reviewed on.
WriteVersion(r) ==
  LET q == req[r] IN
  /\ q.op \in {"create", "version"}
  /\ IF /\ Context(q.version.task)
        /\ Replay(q.op, 0, q.key) = {}
        /\ q.seen = pool
     THEN /\ Extend(q.version)
          /\ ops' = Logged(q.op, 0, q.key)
     ELSE UNCHANGED <<pool, ops>>
  /\ Done(r)
  /\ UNCHANGED <<source, rd, derived, snap, exported>>

-----------------------------------------------------------------------------
(* Derivation *)

\* derive_version reads the pool and asks for a replay.
ReadForDerive(r, key) ==
  LET n == Len(pool) IN
  /\ req[r] = Idle /\ pool # <<>> /\ Fresh(pool[n])
  /\ Replay("derive", n, key) = {}
  /\ req' = [req EXCEPT ![r] = [op |-> "context", key |-> key, seen |-> pool]]
  /\ UNCHANGED <<source, rd, pool, derived, ops, snap, exported>>

Last(s) == s[Len(s)]

\* The retained members decide: none is refused, all of them are a reference,
\* some are materialized.
DeriveContext(r) ==
  LET q == req[r]
      v == Last(q.seen)
  IN  /\ q.op = "context"
      /\ IF ~Context(v.task) \/ Qualified(v) = {} THEN Done(r)
         ELSE req' = [req EXCEPT ![r] =
                [op |-> IF Qualified(v) = MembersOf(v.task) THEN "FULL" ELSE "subset",
                 key |-> q.key, seen |-> q.seen]]
      /\ UNCHANGED <<source, rd, pool, derived, ops, snap, exported>>

\* Mutant of Recover: a directory that is there is taken as it is.
RecoverUnread == snap # "none"

\* A directory that is there is profiled, and used only when it is whole.
Recover == snap = "whole"

\* _recover_or_materialize_subset: destination.mkdir, then the copying, the
\* manifest and last the receipt, in place.
MakeDirectory(r) ==
  /\ req[r].op = "subset" /\ snap = "none"
  /\ snap' = "partial"
  /\ req' = [req EXCEPT ![r].op = "copying"]
  /\ UNCHANGED <<source, rd, pool, derived, ops, exported>>

FinishDirectory(r) ==
  /\ req[r].op = "copying"
  /\ snap' = "whole"
  /\ req' = [req EXCEPT ![r].op = "authorize"]
  /\ UNCHANGED <<source, rd, pool, derived, ops, exported>>

RecoverDirectory(r) ==
  /\ req[r].op = "subset" /\ snap # "none"
  /\ IF Recover THEN req' = [req EXCEPT ![r].op = "authorize"] ELSE Done(r)
  /\ UNCHANGED <<source, rd, pool, derived, ops, snap, exported>>

\* _authorize_subset_source: one source for the directory and its receipt,
\* whatever has become of it.
Authorize(r) ==
  /\ req[r].op = "authorize"
  /\ source' = IF source["regate"] = "none" THEN [source EXCEPT !["regate"] = "active"]
               ELSE source
  /\ req' = [req EXCEPT ![r].op = "SUBSET"]
  /\ UNCHANGED <<rd, pool, derived, ops, snap, exported>>

\* Mutant of WriteDerivation: only the version, not the pool, is compared.
WriteDerivationOfOld(r) ==
  LET q == req[r]
      n == Len(q.seen)
  IN  /\ q.op \in {"FULL", "SUBSET"}
      /\ IF /\ source[Last(q.seen).task] = "active"
            /\ derived[n] = "none"
         THEN /\ derived' = [derived EXCEPT ![n] = q.op]
              /\ ops' = Logged("derive", n, q.key)
         ELSE UNCHANGED <<derived, ops>>
      /\ Done(r)
      /\ UNCHANGED <<source, rd, pool, snap, exported>>

\* The transaction: both sources active, the pool as it was read, one
\* derivation per version.
WriteDerivation(r) ==
  LET q == req[r]
      n == Len(q.seen)
  IN  /\ q.op \in {"FULL", "SUBSET"}
      /\ IF /\ source[Last(q.seen).task] = "active"
            /\ q.op = "SUBSET" => source["regate"] = "active"
            /\ q.seen = pool
            /\ Replay("derive", n, q.key) = {}
            /\ derived[n] = "none"
         THEN /\ derived' = [derived EXCEPT ![n] = q.op]
              /\ ops' = Logged("derive", n, q.key)
         ELSE UNCHANGED <<derived, ops>>
      /\ Done(r)
      /\ UNCHANGED <<source, rd, pool, snap, exported>>

-----------------------------------------------------------------------------
(* The bridge *)

\* Mutant of Trainable: everything that was reviewed may be trained on.
TrainableReviewed(v) == Fresh(v) /\ \A m \in DOMAIN v.decided : v.decided[m] # "HOLD"

\* load_fresh_data_pool_context with require_all_qualified and
\* require_gate_pass.
Trainable(v) == /\ Fresh(v)
                /\ Qualified(v) = MembersOf(v.task)
                /\ GatePassed(v.task) /\ FindingsOf(v.task) = {}

\* _build_input reads everything once ...
ReadInput(r) ==
  /\ req[r] = Idle /\ pool # <<>> /\ Trainable(Last(pool))
  /\ req' = [req EXCEPT ![r] = [op |-> "input", seen |-> pool]]
  /\ UNCHANGED <<source, rd, pool, derived, ops, snap, exported>>

\* ... and again when the images have been read; then there is a binding.
ConfirmInput(r) ==
  /\ req[r].op = "input"
  /\ IF pool = req[r].seen /\ Trainable(Last(pool))
     THEN req' = [req EXCEPT ![r].op = "binding"]
     ELSE Done(r)
  /\ UNCHANGED <<source, rd, pool, derived, ops, snap, exported>>

HeadUnchanged(seen) == pool = seen

\* verify_pool_binding_in_connection, in the transaction that publishes: the
\* head of the pool, the task and its source; not the readiness.
Publish(r) ==
  LET seen == req[r].seen IN
  /\ req[r].op = "binding"
  /\ exported' = IF HeadUnchanged(seen) /\ Context(Last(seen).task)
                 THEN exported \cup {[version |-> Last(seen), head |-> Len(pool)]}
                 ELSE exported
  /\ Done(r)
  /\ UNCHANGED <<source, rd, pool, derived, ops, snap>>

-----------------------------------------------------------------------------
(* Environment *)

RevokeSource(t) ==
  /\ source[t] = "active"
  /\ source' = [source EXCEPT ![t] = "revoked"]
  /\ UNCHANGED <<rd, pool, derived, ops, snap, req, exported>>

Drift(t) ==
  /\ rd["origin"] + rd["regate"] < MaxDrift
  /\ rd' = [rd EXCEPT ![t] = @ + 1]
  /\ UNCHANGED <<source, pool, derived, ops, snap, req, exported>>

\* The process stops: every request is gone, a directory stays as it is.
Stop ==
  /\ \E r \in Requests : req[r] # Idle
  /\ req' = [r \in Requests |-> Idle]
  /\ UNCHANGED <<source, rd, pool, derived, ops, snap, exported>>

Next ==
  \/ \E r \in Requests :
       \/ \E t \in Tasks, key \in Keys :
            \E decided \in Reviews(t) : ReadForVersion(r, t, key, decided)
       \/ WriteVersion(r)
       \/ \E key \in Keys : ReadForDerive(r, key)
       \/ DeriveContext(r) \/ MakeDirectory(r) \/ FinishDirectory(r)
       \/ RecoverDirectory(r) \/ Authorize(r) \/ WriteDerivation(r)
       \/ ReadInput(r) \/ ConfirmInput(r) \/ Publish(r)
  \/ \E t \in Tasks : RevokeSource(t) \/ Drift(t)
  \/ Stop

Spec == Init /\ [][Next]_vars

-----------------------------------------------------------------------------
(* Properties *)

\* Versions are written one on top of the other: each was reviewed on exactly
\* the pool that it extends, so no review is lost between two reviewers.
NoReviewLost ==
  /\ \A i \in DOMAIN pool : pool[i].parent = i - 1
  /\ Cardinality({o \in ops : o.op \in {"create", "version"}}) = Len(pool)

\* A subset is derived only from a snapshot that is whole, and it retains no
\* member the gate has a finding for.
SubsetIsWholeAndClean ==
  \A n \in DOMAIN pool : derived[n] = "SUBSET" =>
    /\ snap = "whole"
    /\ source["regate"] # "none"
    /\ Qualified(pool[n]) \cap FindingsOf(pool[n].task) = {}

\* A version is derived while it is the current one, and its record stays.
DerivesCurrent ==
  \A n \in 1..MaxVersions : derived'[n] # derived[n] =>
    n = Len(pool) /\ derived[n] = "none" /\ source[pool[n].task] = "active"
DerivedWhileCurrent == [][DerivesCurrent]_vars

\* Nothing reaches the trainer but the head of the pool, all of it qualified,
\* on a task whose own gate passed: a derived subset must be gated anew.
ExportedIsRegated ==
  \A e \in exported :
    /\ e.version.parent + 1 = e.head
    /\ e.version.task = "regate"
    /\ Qualified(e.version) = MembersOf(e.version.task)
=============================================================================
