--------------------------- MODULE VisionTraining ---------------------------
(***************************************************************************)
(* Detection training in the model registry (local_model_registry.py): the  *)
(* frozen datasets of a project, its training runs, the feedback they leave *)
(* and the selection of a candidate by a person.                            *)
(*                                                                          *)
(* create_training_run returns while a thread of its process trains; the    *)
(* thread holds the lock of the run from its first read to its last write.  *)
(* A process that stops leaves the row QUEUED or RUNNING; recover_run takes *)
(* the lock to learn that no thread owns the run.  Files and annotations    *)
(* are verified outside transactions, heads and authorizations again inside.*)
(*                                                                          *)
(* Data that is abstracted: a dataset is its samples (pixels, group, split) *)
(* and the content, pool version and gate task it is bound to; the feedback *)
(* of a run is one item.  A replayed request key returns the stored record; *)
(* a refusal that writes nothing is a step not taken.                       *)
(***************************************************************************)
EXTENDS Naturals, FiniteSets

CONSTANTS
  Runs, Datasets,
  Data,        \* Data[d] = [samples, content, version, task]; version "none": no pool
  MaxMoves,    \* bound: changes of the pools and annotations behind the datasets
  MaxCrashes   \* bound: processes that stop while a thread trains

ASSUME BoundAssumption == MaxCrashes \in Nat

Splits == {"train", "val", "test"}

VARIABLES
  fresh,     \* the sources of a dataset: current, drifted (files, annotations), moved (head)
  dataset,   \* absent, frozen (copied, not registered) or published
  members,   \* vision_split_members: <<kind, value, split>>
  run,       \* the run rows
  step,      \* where the request or the thread of a run is
  lock,      \* who holds "vision-run:<id>"
  feedback,  \* the feedback row of a run
  picking,   \* runs whose selection has verified the sources and not yet written
  member,    \* the actor who created the runs is a member of the project
  crashes

vars == <<fresh, dataset, members, run, step, lock, feedback, picking, member, crashes>>

Active == {"QUEUED", "RUNNING"}
Ended == {"SUCCEEDED_CANDIDATE", "FAILED", "CANCELLED", "TIMED_OUT", "INTERRUPTED_HOLD"}
Results == {"completed", "cancelled", "timed_out", "failed"}
NoData == "no_dataset"

NewRun == [status |-> "ABSENT", cancel |-> FALSE, data |-> NoData, responds |-> {},
           result |-> "none", selection |-> "PENDING"]

Init ==
  /\ fresh = [d \in Datasets |-> "current"]
  /\ dataset = [d \in Datasets |-> "absent"]
  /\ members = {}
  /\ run = [r \in Runs |-> NewRun]
  /\ step = [r \in Runs |-> "none"]
  /\ lock = [r \in Runs |-> "free"]
  /\ feedback = [r \in Runs |-> "none"]
  /\ picking = {}
  /\ member = TRUE
  /\ crashes = 0

Bound(d) == Data[d].version # "none"

\* verify_pool_binding: the producer is queried and every file read again.
Verified(d) == Bound(d) => member /\ fresh[d] = "current"

\* verify_pool_binding_in_connection: heads and authorizations only.
HeadVerified(d) == Bound(d) => member /\ fresh[d] # "moved"

-----------------------------------------------------------------------------
(* Datasets *)

\* DetectionDatasetManifest and _collect.
WellFormed(d) ==
  /\ {s.split : s \in Data[d].samples} = Splits
  /\ \A s, t \in Data[d].samples : /\ s.group = t.group => s.split = t.split
                                   /\ s.pixel = t.pixel => s = t

\* Both kinds of key a sample leaves in vision_split_members.
KeysOf(s) == {<<"pixel", s.pixel, s.split>>, <<"group", s.group, s.split>>}

\* Mutant of MembersAllow: groups are recorded and not compared.
MembersAllowPixels(d) ==
  \A s \in Data[d].samples : \A old \in members :
    (old[1] = "pixel" /\ old[2] = s.pixel) => old[3] = s.split

MembersAllow(d) ==
  \A s \in Data[d].samples : \A key \in KeysOf(s) : \A old \in members :
    (old[1] = key[1] /\ old[2] = key[2]) => old[3] = key[3]

FreezeDataset(d) ==
  /\ dataset[d] = "absent" /\ member
  /\ Verified(d) /\ WellFormed(d)
  /\ dataset' = [dataset EXCEPT ![d] = "frozen"]
  /\ UNCHANGED <<fresh, members, run, step, lock, feedback, picking, member, crashes>>

PublishDataset(d) ==
  /\ dataset[d] = "frozen" /\ member
  /\ HeadVerified(d) /\ MembersAllow(d)
  /\ members' = members \cup UNION {KeysOf(s) : s \in Data[d].samples}
  /\ dataset' = [dataset EXCEPT ![d] = "published"]
  /\ UNCHANGED <<fresh, run, step, lock, feedback, picking, member, crashes>>

-----------------------------------------------------------------------------
(* create_training_run *)

\* Mutant of FeedbackInputs: the same images under a new pool version will do.
FeedbackInputsAnyContent(d, responds) ==
  \A r \in responds : feedback[r] = "TRIAGED" /\ run[r].data # d

\* _feedback_inputs: triaged, and answered by other data of another gate.
FeedbackInputs(d, responds) ==
  \A r \in responds :
    LET old == Data[run[r].data] IN
    /\ feedback[r] = "TRIAGED"
    /\ run[r].data # d
    /\ old.content # Data[d].content
    /\ old.version # "none" => /\ Bound(d)
                               /\ old.version # Data[d].version
                               /\ old.task # Data[d].task

StartCreate(r, d, responds) ==
  /\ run[r].status = "ABSENT" /\ step[r] = "none"
  /\ dataset[d] = "published" /\ Bound(d)
  /\ FeedbackInputs(d, responds) /\ Verified(d)
  /\ run' = [run EXCEPT ![r].data = d, ![r].responds = responds]
  /\ step' = [step EXCEPT ![r] = "creating"]
  /\ UNCHANGED <<fresh, dataset, members, lock, feedback, picking, member, crashes>>

\* Mutant of NoneActive: a queued run does not count.
NoneRunning == \A r \in Runs : run[r].status # "RUNNING"

NoneActive == \A r \in Runs : run[r].status \notin Active

CommitCreate(r) ==
  /\ step[r] = "creating"
  /\ HeadVerified(run[r].data) /\ FeedbackInputs(run[r].data, run[r].responds)
  /\ NoneActive
  /\ run' = [run EXCEPT ![r].status = "QUEUED"]
  /\ step' = [step EXCEPT ![r] = "started"]
  /\ UNCHANGED <<fresh, dataset, members, lock, feedback, picking, member, crashes>>

\* Refused in the transaction: the run never existed.
RefuseCreate(r) ==
  /\ step[r] = "creating"
  /\ \/ ~HeadVerified(run[r].data)
     \/ ~NoneActive
  /\ run' = [run EXCEPT ![r] = NewRun]
  /\ step' = [step EXCEPT ![r] = "none"]
  /\ UNCHANGED <<fresh, dataset, members, lock, feedback, picking, member, crashes>>

-----------------------------------------------------------------------------
(* _execute_run *)

\* The thread gives up when it does not get the lock.
ThreadLock(r) ==
  /\ step[r] = "started"
  /\ IF lock[r] = "free"
     THEN lock' = [lock EXCEPT ![r] = "thread"] /\ step' = [step EXCEPT ![r] = "locked"]
     ELSE UNCHANGED lock /\ step' = [step EXCEPT ![r] = "none"]
  /\ UNCHANGED <<fresh, dataset, members, run, feedback, picking, member, crashes>>

EndThread(r) ==
  /\ step' = [step EXCEPT ![r] = "none"]
  /\ lock' = [lock EXCEPT ![r] = "free"]

\* Mutant of MayBegin: the row is not read again.
MayBeginUnread(r) == member /\ HeadVerified(run[r].data)

MayBegin(r) == run[r].status = "QUEUED" /\ member /\ HeadVerified(run[r].data)

Begin(r) ==
  /\ step[r] = "locked" /\ MayBegin(r)
  /\ run' = [run EXCEPT ![r].status = "RUNNING"]
  /\ step' = [step EXCEPT ![r] = "running"]
  /\ UNCHANGED <<fresh, dataset, members, lock, feedback, picking, member, crashes>>

\* The run was cancelled or recovered before the thread had the lock.
TooLate(r) ==
  /\ step[r] = "locked" /\ member /\ run[r].status # "QUEUED"
  /\ EndThread(r)
  /\ UNCHANGED <<fresh, dataset, members, run, feedback, picking, member, crashes>>

\* Sources verified, inputs copied, the subprocess ran.  It polls _cancelled,
\* and may have ended before a cancel came.
Train(r, result) ==
  /\ step[r] = "running"
  /\ result = "cancelled" => run[r].cancel
  /\ run' = [run EXCEPT ![r].result = result]
  /\ step' = [step EXCEPT ![r] = "trained"]
  /\ UNCHANGED <<fresh, dataset, members, lock, feedback, picking, member, crashes>>

VerifyTrained(r) ==
  /\ step[r] = "trained" /\ member /\ Verified(run[r].data)
  /\ step' = [step EXCEPT ![r] = "verified"]
  /\ UNCHANGED <<fresh, dataset, members, run, lock, feedback, picking, member, crashes>>

\* Mutant of StatusOf: the words of the subprocess are kept.
StatusUnmapped(r) == IF run[r].cancel THEN "CANCELLED" ELSE run[r].result

\* The status the subprocess returned; also the mutant of StatusOf in which
\* that decides.
StatusReturned(r) ==
  CASE run[r].result = "completed" -> "SUCCEEDED_CANDIDATE"
    [] run[r].result = "cancelled" -> "CANCELLED"
    [] run[r].result = "timed_out" -> "TIMED_OUT"
    [] OTHER -> "FAILED"

\* A cancel that came after the subprocess ended still wins.
StatusOf(r) ==
  IF run[r].cancel THEN "CANCELLED" ELSE StatusReturned(r)

\* Candidate, feedback and row in one transaction.
Publish(r, disagrees) ==
  /\ step[r] = "verified" /\ member /\ HeadVerified(run[r].data)
  /\ disagrees => StatusOf(r) = "SUCCEEDED_CANDIDATE"
  /\ run' = [run EXCEPT ![r].status = StatusOf(r)]
  /\ feedback' = [feedback EXCEPT ![r] = IF disagrees THEN "PENDING" ELSE "none"]
  /\ EndThread(r)
  /\ UNCHANGED <<fresh, dataset, members, picking, member, crashes>>

\* except Exception: the row is written whatever its status is by now.
HandlerReached(r) ==
  \/ step[r] = "locked" /\ (~member \/ run[r].status = "QUEUED")
  \/ step[r] \in {"running", "trained", "verified"}

Handler(r) ==
  /\ HandlerReached(r)
  /\ run' = [run EXCEPT ![r].status = IF run[r].cancel THEN "CANCELLED" ELSE "FAILED"]
  /\ EndThread(r)
  /\ UNCHANGED <<fresh, dataset, members, feedback, picking, member, crashes>>

-----------------------------------------------------------------------------
(* _run_action: cancel, recover, selection; triage_feedback *)

Cancel(r) ==
  /\ run[r].status \in Active /\ ~run[r].cancel
  /\ run' = [run EXCEPT ![r].cancel = TRUE,
                        ![r].status = IF run[r].status = "QUEUED" THEN "CANCELLED" ELSE @]
  /\ UNCHANGED <<fresh, dataset, members, step, lock, feedback, picking, member, crashes>>

\* Mutant of MayRecover: the lock of the run is not asked for.
MayRecoverHeld(r) == lock[r] \in {"free", "thread"}

MayRecover(r) == lock[r] = "free"

\* Mutant of RecoverLock: a run that never began is not interrupted.
RecoverLockRunning(r) ==
  /\ run[r].status = "RUNNING" /\ MayRecover(r)
  /\ lock' = [lock EXCEPT ![r] = "recover"]
  /\ UNCHANGED <<fresh, dataset, members, run, step, feedback, picking, member, crashes>>

RecoverLock(r) ==
  /\ run[r].status \in Active /\ MayRecover(r)
  /\ lock' = [lock EXCEPT ![r] = "recover"]
  /\ UNCHANGED <<fresh, dataset, members, run, step, feedback, picking, member, crashes>>

Recover(r) ==
  /\ lock[r] = "recover" /\ run[r].status \in Active
  /\ run' = [run EXCEPT ![r].status = "INTERRUPTED_HOLD", ![r].cancel = TRUE]
  /\ lock' = [lock EXCEPT ![r] = "free"]
  /\ UNCHANGED <<fresh, dataset, members, step, feedback, picking, member, crashes>>

\* The receipt the caller has seen is not the current one, or the run ended.
RecoverRefused(r) ==
  /\ lock[r] = "recover"
  /\ lock' = [lock EXCEPT ![r] = "free"]
  /\ UNCHANGED <<fresh, dataset, members, run, step, feedback, picking, member, crashes>>

StartSelect(r) ==
  /\ run[r].status = "SUCCEEDED_CANDIDATE" /\ run[r].selection = "PENDING"
  /\ r \notin picking /\ member /\ Verified(run[r].data)
  /\ picking' = picking \cup {r}
  /\ UNCHANGED <<fresh, dataset, members, run, step, lock, feedback, member, crashes>>

Select(r, action) ==
  /\ r \in picking /\ member
  /\ run[r].status = "SUCCEEDED_CANDIDATE" /\ run[r].selection = "PENDING"
  /\ HeadVerified(run[r].data)
  /\ run' = [run EXCEPT ![r].selection = action]
  /\ picking' = picking \ {r}
  /\ UNCHANGED <<fresh, dataset, members, step, lock, feedback, member, crashes>>

Triage(r, class) ==
  /\ run[r].status = "SUCCEEDED_CANDIDATE" /\ feedback[r] = "PENDING"
  /\ feedback' = [feedback EXCEPT ![r] = class]
  /\ UNCHANGED <<fresh, dataset, members, run, step, lock, picking, member, crashes>>

-----------------------------------------------------------------------------
(* The surroundings *)

Rank(f) == CASE f = "current" -> 0 [] f = "drifted" -> 1 [] OTHER -> 2

PoolMoves(d, f) ==
  /\ Bound(d) /\ Rank(f) > Rank(fresh[d])
  /\ Cardinality({e \in Datasets : fresh[e] # "current"} \cup {d}) <= MaxMoves
  /\ fresh' = [fresh EXCEPT ![d] = f]
  /\ UNCHANGED <<dataset, members, run, step, lock, feedback, picking, member, crashes>>

RemoveMember ==
  /\ member /\ member' = FALSE
  /\ UNCHANGED <<fresh, dataset, members, run, step, lock, feedback, picking, crashes>>

\* The process that owns the request or the thread of r stops.
Crash(r) ==
  /\ crashes < MaxCrashes /\ step[r] # "none"
  /\ crashes' = crashes + 1
  /\ step' = [step EXCEPT ![r] = "none"]
  /\ lock' = [lock EXCEPT ![r] = IF @ = "thread" THEN "free" ELSE @]
  /\ run' = [run EXCEPT ![r] = IF @.status = "ABSENT" THEN NewRun ELSE @]
  /\ UNCHANGED <<fresh, dataset, members, feedback, picking, member>>

ThreadStep(r) ==
  \/ ThreadLock(r) \/ Begin(r) \/ TooLate(r) \/ VerifyTrained(r) \/ Handler(r)
  \/ \E result \in Results : Train(r, result)
  \/ \E disagrees \in BOOLEAN : Publish(r, disagrees)

Next ==
  \/ \E d \in Datasets : FreezeDataset(d) \/ PublishDataset(d)
  \/ \E r \in Runs : \E d \in Datasets : \E responds \in SUBSET (Runs \ {r}) :
       StartCreate(r, d, responds)
  \/ \E r \in Runs : \/ CommitCreate(r) \/ RefuseCreate(r)
                     \/ ThreadStep(r)
                     \/ Cancel(r) \/ RecoverLock(r) \/ Recover(r) \/ RecoverRefused(r)
                     \/ StartSelect(r) \/ Crash(r)
                     \/ \E action \in {"SELECT", "REJECT"} : Select(r, action)
                     \/ \E class \in {"TRIAGED", "UNKNOWN"} : Triage(r, class)
  \/ \E d \in Datasets : \E f \in {"drifted", "moved"} : PoolMoves(d, f)
  \/ RemoveMember

Spec == Init /\ [][Next]_vars

\* Threads keep running while their process does, and an operator repeats the
\* recovery of a run nobody works on until it is accepted.
Fairness ==
  \A r \in Runs : /\ WF_vars(ThreadStep(r))
                  /\ WF_vars(RecoverLock(r))
                  /\ SF_vars(Recover(r))

FairSpec == Spec /\ Fairness

-----------------------------------------------------------------------------
(* Properties *)

TypeOK ==
  /\ fresh \in [Datasets -> {"current", "drifted", "moved"}]
  /\ dataset \in [Datasets -> {"absent", "frozen", "published"}]
  /\ run \in [Runs -> [status : Active \cup Ended \cup {"ABSENT"}, cancel : BOOLEAN,
                       data : Datasets \cup {NoData}, responds : SUBSET Runs,
                       result : Results \cup {"none"}, selection : {"PENDING", "SELECT", "REJECT"}]]
  /\ step \in [Runs -> {"none", "creating", "started", "locked", "running", "trained", "verified"}]
  /\ lock \in [Runs -> {"free", "thread", "recover"}]
  /\ feedback \in [Runs -> {"none", "PENDING", "TRIAGED", "UNKNOWN"}]
  /\ picking \subseteq Runs /\ member \in BOOLEAN /\ crashes \in 0 .. MaxCrashes

\* A project trains one model at a time (PROJECT_TRAINING_ALREADY_ACTIVE),
\* although checks, threads and recoveries of its runs overlap.
OneActive == Cardinality({r \in Runs : run[r].status \in Active}) <= 1

\* While a thread trains, its row says RUNNING: nobody declared the run
\* interrupted under it and nobody may create another one beside it.
TrainsItsRun ==
  \A r \in Runs : step[r] \in {"running", "trained", "verified"} =>
    run[r].status = "RUNNING" /\ lock[r] = "thread"

\* A cancel that was accepted is never answered by a candidate.
NoCancelledCandidate ==
  \A r \in Runs : run[r].status = "SUCCEEDED_CANDIDATE" => ~run[r].cancel

\* No two datasets of the project disagree about the split of an image or of
\* a group of images, in whatever order they were frozen and registered.
SplitsAgree ==
  \A d, e \in {x \in Datasets : dataset[x] = "published"} :
    \A s \in Data[d].samples, t \in Data[e].samples :
      (s.pixel = t.pixel \/ s.group = t.group) => s.split = t.split

\* A run that answers feedback was trained on other images and labels than
\* the run that gave it, and on the result of another gate.
AnswersDiffer ==
  \A r \in Runs : run[r].status # "ABSENT" =>
    \A f \in run[r].responds : /\ Data[run[f].data].content # Data[run[r].data].content
                               /\ Data[run[f].data].task # Data[run[r].data].task

\* All of these at once: what a project trains, on what, and with which result.
TrainingIsExclusive ==
  TypeOK /\ OneActive /\ TrainsItsRun /\ NoCancelledCandidate /\ SplitsAgree /\ AnswersDiffer

\* An ended run does not come back and never turns into a candidate.  Its
\* thread may still record that the cancelled or recovered run was cancelled.
KeepsEnded ==
  \A r \in Runs : run[r].status \in Ended =>
    run'[r].status \in {run[r].status} \cup
      (IF run[r].status = "INTERRUPTED_HOLD" THEN {"CANCELLED"} ELSE {})
EndedStaysEnded == [][KeepsEnded]_vars

\* A project does not stay blocked: a run that is queued or running ends,
\* with its thread or, when that is gone, by recovery.
RunEnds == \A r \in Runs : run[r].status \in Active ~> run[r].status \in Ended
=============================================================================
