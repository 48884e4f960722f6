---------------------------- MODULE CasesProofs ----------------------------
(***************************************************************************)
(* Proofs about the parts of MCCases: VisionTraining, for any runs and     *)
(* datasets (one run is trained at a time, on what was verified, and an    *)
(* ended run stays ended), and, over the variables this instance gives     *)
(* them, the case of Capa and the decisions of IncidentCommands, whose     *)
(* proofs are instances of CapaProofs and IncidentCommandsProofs.          *)
(***************************************************************************)
EXTENDS MCCases, FiniteSetTheorems, TLAPS

RunRows == [status : Active \cup Ended \cup {"ABSENT"}, cancel : BOOLEAN,
            data : Datasets \cup {NoData}, responds : SUBSET Runs,
            result : Results \cup {"none"}, selection : {"PENDING", "SELECT", "REJECT"}]

WithLock == {"locked", "running", "trained", "verified"}

\* OneActive without counting.
AtMostOne == \A r, s \in Runs : run[r].status \in Active /\ run[s].status \in Active => r = s

\* Where a thread is and what its row says: it holds the lock of its run, and a
\* row that another request ended before the thread began was cancelled.
StepsFitRows ==
  \A r \in Runs :
    /\ step[r] \in WithLock => lock[r] = "thread"
    /\ step[r] = "creating" => run[r].status = "ABSENT"
    /\ step[r] \in {"started", "locked"} =>
         \/ run[r].status = "QUEUED"
         \/ run[r].cancel /\ run[r].status \in {"CANCELLED", "INTERRUPTED_HOLD"}

\* A run that exists, or is being created, trains on a dataset of a pool, and
\* answers runs that exist, are not replaced and trained on other data.
RowsAreBound ==
  \A r \in Runs : (run[r].status # "ABSENT" \/ step[r] = "creating") =>
    run[r].data \in Datasets /\ Bound(run[r].data)

AnswersExist ==
  \A r \in Runs : run[r].status # "ABSENT" =>
    \A f \in run[r].responds : run[f].status # "ABSENT"

\* Feedback comes from a candidate.
FeedbackIsEarned == \A r \in Runs : feedback[r] # "none" => run[r].status = "SUCCEEDED_CANDIDATE"

\* What the registry knows of the datasets it has published; each is well
\* formed since it was frozen.
MembersKnown ==
  \A d \in Datasets :
    /\ dataset[d] # "absent" => WellFormed(d)
    /\ dataset[d] = "published" => \A s \in Data[d].samples : KeysOf(s) \subseteq members

\* The inductive invariant.
IInv ==
  /\ TypeOK /\ AtMostOne /\ TrainsItsRun /\ NoCancelledCandidate /\ SplitsAgree /\ AnswersDiffer
  /\ StepsFitRows /\ RowsAreBound /\ AnswersExist /\ FeedbackIsEarned /\ MembersKnown

\* Its parts about runs.
RunsInv ==
  /\ TypeOK /\ AtMostOne /\ TrainsItsRun /\ NoCancelledCandidate /\ AnswersDiffer
  /\ StepsFitRows /\ RowsAreBound /\ AnswersExist /\ FeedbackIsEarned

-----------------------------------------------------------------------------
LEMMA InitIInv == Init => IInv
<1> SUFFICES ASSUME Init PROVE IInv
  OBVIOUS
<1>1. NewRun \in RunRows /\ NewRun.status = "ABSENT"
  BY DEF NewRun, RunRows
<1>2. /\ run = [r \in Runs |-> NewRun] /\ step = [r \in Runs |-> "none"]
      /\ lock = [r \in Runs |-> "free"] /\ feedback = [r \in Runs |-> "none"]
      /\ dataset = [d \in Datasets |-> "absent"] /\ fresh = [d \in Datasets |-> "current"]
      /\ picking = {} /\ member = TRUE /\ crashes = 0
  BY DEF Init
<1>3. TypeOK
  BY <1>1, <1>2, BoundAssumption DEF TypeOK, RunRows
<1>4. \A r \in Runs : run[r].status = "ABSENT" /\ step[r] = "none" /\ feedback[r] = "none"
  BY <1>1, <1>2
<1>5. \A d \in Datasets : dataset[d] = "absent"
  BY <1>2
<1>6. AtMostOne /\ TrainsItsRun /\ NoCancelledCandidate /\ AnswersDiffer
  BY <1>4 DEF AtMostOne, TrainsItsRun, NoCancelledCandidate, AnswersDiffer, Active
<1>7. StepsFitRows /\ RowsAreBound /\ AnswersExist /\ FeedbackIsEarned
  BY <1>4 DEF StepsFitRows, RowsAreBound, AnswersExist, FeedbackIsEarned, WithLock
<1>8. SplitsAgree /\ MembersKnown
  BY <1>5 DEF SplitsAgree, MembersKnown
<1> QED
  BY <1>3, <1>6, <1>7, <1>8 DEF IInv

\* A row that changes in one place.
LEMMA ChangedRow ==
  ASSUME TypeOK, NEW r \in Runs, NEW row \in RunRows, run' = [run EXCEPT ![r] = row]
  PROVE  run' \in [Runs -> RunRows] /\ run'[r] = row /\ \A s \in Runs \ {r} : run'[s] = run[s]
BY DEF TypeOK, RunRows

\* The rows that a change of status (and of the cancellation) writes.
LEMMA StatusRow ==
  ASSUME TypeOK, NEW r \in Runs, NEW st \in Active \cup Ended, NEW c \in BOOLEAN,
         \/ run' = [run EXCEPT ![r].status = st] /\ c = run[r].cancel
         \/ run' = [run EXCEPT ![r].cancel = c, ![r].status = st]
         \/ run' = [run EXCEPT ![r].status = st, ![r].cancel = c]
  PROVE  /\ run' \in [Runs -> RunRows]
         /\ run'[r].status = st /\ run'[r].cancel = c
         /\ run'[r].data = run[r].data /\ run'[r].responds = run[r].responds
         /\ \A s \in Runs \ {r} : run'[s] = run[s]
<1> DEFINE row == [run[r] EXCEPT !.status = st, !.cancel = c]
<1>0. run \in [Runs -> RunRows]
  BY DEF TypeOK, RunRows
<1>1. run[r] \in RunRows
  BY <1>0
<1>2. /\ row \in RunRows /\ row.status = st /\ row.cancel = c
      /\ row.data = run[r].data /\ row.responds = run[r].responds
  BY <1>1 DEF RunRows
<1>3. CASE run' = [run EXCEPT ![r].status = st] /\ c = run[r].cancel
  <2>1. [run[r] EXCEPT !.status = st] = row
    BY <1>1, <1>3 DEF RunRows
  <2>2. run' = [run EXCEPT ![r] = row]
    BY <1>3, <2>1
  <2> HIDE DEF row
  <2> QED BY <1>2, <2>2, ChangedRow
<1>4. CASE run' = [run EXCEPT ![r].cancel = c, ![r].status = st]
  <2> DEFINE first == [run[r] EXCEPT !.cancel = c]
  <2>1. first \in RunRows /\ [first EXCEPT !.status = st] = row
    BY <1>1 DEF RunRows
  <2>2. run' = [run EXCEPT ![r] = [first EXCEPT !.status = st]]
    BY <1>0, <1>4
  <2>3. run' = [run EXCEPT ![r] = row]
    BY <2>1, <2>2
  <2> HIDE DEF row
  <2> QED BY <1>2, <2>3, ChangedRow
<1>5. CASE run' = [run EXCEPT ![r].status = st, ![r].cancel = c]
  <2> DEFINE first == [run[r] EXCEPT !.status = st]
  <2>1. first \in RunRows /\ [first EXCEPT !.cancel = c] = row
    BY <1>1 DEF RunRows
  <2>2. run' = [run EXCEPT ![r] = [first EXCEPT !.cancel = c]]
    BY <1>0, <1>5
  <2>3. run' = [run EXCEPT ![r] = row]
    BY <2>1, <2>2
  <2> HIDE DEF row
  <2> QED BY <1>2, <2>3, ChangedRow
<1> QED BY <1>3, <1>4, <1>5

LEMMA StatusOnly ==
  ASSUME IInv, NEW r \in Runs, NEW st \in Active \cup Ended, run' = [run EXCEPT ![r].status = st]
  PROVE  /\ run' \in [Runs -> RunRows]
         /\ run'[r].status = st /\ run'[r].cancel = run[r].cancel
         /\ run'[r].data = run[r].data /\ run'[r].responds = run[r].responds
         /\ \A s \in Runs \ {r} : run'[s] = run[s]
<1>1. TypeOK
  BY DEF IInv
<1>2. run[r].cancel \in BOOLEAN
  BY <1>1 DEF TypeOK
<1> QED BY <1>1, <1>2, StatusRow

-----------------------------------------------------------------------------
(* Datasets *)

LEMMA DatasetStep ==
  ASSUME IInv, NEW d \in Datasets, FreezeDataset(d) \/ PublishDataset(d)
  PROVE  IInv'
<1>1. UNCHANGED <<fresh, run, step, lock, feedback, picking, member, crashes>>
  BY DEF FreezeDataset, PublishDataset
<1>2. CASE FreezeDataset(d)
  <2>1. dataset[d] = "absent" /\ WellFormed(d) /\ members' = members /\ dataset' = [dataset EXCEPT ![d] = "frozen"]
    BY <1>2 DEF FreezeDataset
  <2>2. TypeOK'
    BY <1>1, <2>1 DEF IInv, TypeOK
  <2>3. SplitsAgree'
    BY <2>1 DEF IInv, TypeOK, SplitsAgree
  <2>4. MembersKnown'
    BY <2>1 DEF IInv, TypeOK, MembersKnown, WellFormed
  <2> QED
    BY <1>1, <2>2, <2>3, <2>4 DEF IInv, AtMostOne, TrainsItsRun, NoCancelledCandidate,
       AnswersDiffer, StepsFitRows, RowsAreBound, Bound, AnswersExist, FeedbackIsEarned
<1>3. CASE PublishDataset(d)
  <2>1. /\ dataset[d] = "frozen" /\ MembersAllow(d)
        /\ members' = members \cup UNION {KeysOf(s) : s \in Data[d].samples}
        /\ dataset' = [dataset EXCEPT ![d] = "published"]
    BY <1>3 DEF PublishDataset
  <2>2. TypeOK'
    BY <1>1, <2>1 DEF IInv, TypeOK
  <2>3. WellFormed(d)
    BY <2>1 DEF IInv, MembersKnown
  <2>4. MembersKnown'
    <3>1. \A s \in Data[d].samples : KeysOf(s) \subseteq members'
      BY <2>1
    <3>2. members \subseteq members'
      BY <2>1
    <3>3. \A e \in Datasets : dataset'[e] = IF e = d THEN "published" ELSE dataset[e]
      BY <2>1 DEF IInv, TypeOK
    <3>4. ASSUME NEW e \in Datasets
          PROVE  /\ dataset'[e] # "absent" => WellFormed(e)
                 /\ dataset'[e] = "published" => \A s \in Data[e].samples : KeysOf(s) \subseteq members'
      BY <2>3, <3>1, <3>2, <3>3 DEF IInv, MembersKnown
    <3> QED BY <3>4 DEF MembersKnown, WellFormed, KeysOf
  \* The new dataset agrees with every old one, through what the registry knows.
  <2>5. ASSUME NEW e \in Datasets, dataset[e] = "published",
               NEW s \in Data[d].samples, NEW t \in Data[e].samples,
               s.pixel = t.pixel \/ s.group = t.group
        PROVE  s.split = t.split
    <3>1. <<"pixel", t.pixel, t.split>> \in members /\ <<"group", t.group, t.split>> \in members
      BY <2>5 DEF IInv, MembersKnown, KeysOf
    <3>2. <<"pixel", s.pixel, s.split>> \in KeysOf(s) /\ <<"group", s.group, s.split>> \in KeysOf(s)
      BY DEF KeysOf
    <3>3. ASSUME NEW key \in KeysOf(s), NEW old \in members, old[1] = key[1], old[2] = key[2]
          PROVE  old[3] = key[3]
      BY <2>1, <3>3 DEF MembersAllow
    <3>4. CASE s.pixel = t.pixel
      BY <3>1, <3>2, <3>3, <3>4
    <3>5. CASE s.group = t.group
      BY <3>1, <3>2, <3>3, <3>5
    <3> QED BY <2>5, <3>4, <3>5
  <2>6. ASSUME NEW s \in Data[d].samples, NEW t \in Data[d].samples, s.pixel = t.pixel \/ s.group = t.group
        PROVE  s.split = t.split
    BY <2>3, <2>6 DEF WellFormed
  <2>7. SplitsAgree'
    <3> SUFFICES ASSUME NEW a \in Datasets, NEW b \in Datasets,
                        dataset'[a] = "published", dataset'[b] = "published",
                        NEW s \in Data[a].samples, NEW t \in Data[b].samples,
                        s.pixel = t.pixel \/ s.group = t.group
                 PROVE  s.split = t.split
      BY DEF SplitsAgree
    <3>1. (a = d \/ dataset[a] = "published") /\ (b = d \/ dataset[b] = "published")
      BY <2>1 DEF IInv, TypeOK
    <3>2. CASE a = d
      BY <2>5, <2>6, <3>1, <3>2
    <3>3. CASE b = d
      BY <2>5, <2>6, <3>1, <3>3
    <3>4. CASE a # d /\ b # d
      BY <3>1, <3>4 DEF IInv, SplitsAgree
    <3> QED BY <3>2, <3>3, <3>4
  <2> QED
    BY <1>1, <2>2, <2>4, <2>7 DEF IInv, AtMostOne, TrainsItsRun, NoCancelledCandidate,
       AnswersDiffer, StepsFitRows, RowsAreBound, Bound, AnswersExist, FeedbackIsEarned
<1> QED BY <1>2, <1>3

\* What says that the datasets keep.
LEMMA DatasetsKeep ==
  ASSUME IInv, UNCHANGED <<dataset, members>>, RunsInv'
  PROVE  IInv'
BY DEF IInv, RunsInv, SplitsAgree, MembersKnown, WellFormed, KeysOf

-----------------------------------------------------------------------------
(* Runs *)

LEMMA StartCreateStep ==
  ASSUME IInv, NEW r \in Runs, NEW d \in Datasets, NEW responds \in SUBSET (Runs \ {r}),
         StartCreate(r, d, responds)
  PROVE  IInv'
<1>1. /\ run[r].status = "ABSENT" /\ step[r] = "none" /\ Bound(d)
      /\ run' = [run EXCEPT ![r].data = d, ![r].responds = responds]
      /\ step' = [step EXCEPT ![r] = "creating"]
      /\ UNCHANGED <<fresh, dataset, members, lock, feedback, picking, member, crashes>>
  BY DEF StartCreate
<1> DEFINE row == [run[r] EXCEPT !.data = d, !.responds = responds]
<1>2. run[r] \in RunRows
  BY DEF IInv, TypeOK, RunRows
<1>3. row \in RunRows /\ row.status = "ABSENT" /\ row.data = d /\ row.cancel = run[r].cancel
  BY <1>1, <1>2 DEF RunRows
<1>4. run' = [run EXCEPT ![r] = row]
  BY <1>1, <1>2 DEF RunRows, IInv, TypeOK
<1> HIDE DEF row
<1>5. run' \in [Runs -> RunRows] /\ run'[r] = row /\ \A s \in Runs \ {r} : run'[s] = run[s]
  BY <1>3, <1>4, ChangedRow DEF IInv
<1>6. \A s \in Runs : step'[s] = IF s = r THEN "creating" ELSE step[s]
  BY <1>1 DEF IInv, TypeOK
<1>7. TypeOK'
  BY <1>1, <1>5 DEF IInv, TypeOK, RunRows
<1>8. AtMostOne' /\ TrainsItsRun' /\ NoCancelledCandidate' /\ StepsFitRows'
  BY <1>1, <1>3, <1>5, <1>6 DEF IInv, AtMostOne, TrainsItsRun, NoCancelledCandidate, StepsFitRows, Active, WithLock
<1>9. RowsAreBound'
  BY <1>1, <1>3, <1>5, <1>6 DEF IInv, RowsAreBound, Bound
<1>10. AnswersExist' /\ AnswersDiffer'
  <2>1. ASSUME NEW s \in Runs, run'[s].status # "ABSENT"
        PROVE  s # r /\ run'[s] = run[s] /\ \A f \in run[s].responds : f \in Runs /\ f # r /\ run'[f] = run[f]
    BY <1>1, <1>3, <1>5, <2>1 DEF IInv, AnswersExist, TypeOK
  <2> QED BY <2>1 DEF IInv, AnswersExist, AnswersDiffer
<1>11. FeedbackIsEarned'
  BY <1>1, <1>3, <1>5 DEF IInv, FeedbackIsEarned
<1> QED
  BY <1>1, <1>7, <1>8, <1>9, <1>10, <1>11, DatasetsKeep DEF RunsInv

\* A change of status, cancellation or result of one run that exists before
\* and after: what it trains on, and what it answers, keep.
LEMMA DataKeep ==
  ASSUME IInv, NEW r \in Runs, run' \in [Runs -> RunRows],
         run[r].status # "ABSENT", run'[r].status # "ABSENT",
         run'[r].data = run[r].data, run'[r].responds = run[r].responds,
         \A s \in Runs \ {r} : run'[s] = run[s]
  PROVE  AnswersExist' /\ AnswersDiffer'
<1>1. \A s \in Runs : /\ run[s].status # "ABSENT" <=> run'[s].status # "ABSENT"
                      /\ run'[s].data = run[s].data /\ run'[s].responds = run[s].responds
                      /\ run[s].responds \subseteq Runs
  BY DEF IInv, TypeOK
<1> QED BY <1>1 DEF IInv, AnswersExist, AnswersDiffer

LEMMA CommitCreateStep ==
  ASSUME IInv, NEW r \in Runs, CommitCreate(r)
  PROVE  IInv'
<1>1. /\ step[r] = "creating" /\ FeedbackInputs(run[r].data, run[r].responds) /\ NoneActive
      /\ run' = [run EXCEPT ![r].status = "QUEUED"]
      /\ step' = [step EXCEPT ![r] = "started"]
      /\ UNCHANGED <<fresh, dataset, members, lock, feedback, picking, member, crashes>>
  BY DEF CommitCreate
<1>2. /\ run' \in [Runs -> RunRows]
      /\ run'[r].status = "QUEUED" /\ run'[r].cancel = run[r].cancel
      /\ run'[r].data = run[r].data /\ run'[r].responds = run[r].responds
      /\ \A s \in Runs \ {r} : run'[s] = run[s]
  BY <1>1, StatusOnly DEF Active
<1>3. \A s \in Runs : step'[s] = IF s = r THEN "started" ELSE step[s]
  BY <1>1 DEF IInv, TypeOK
<1>4. run[r].status = "ABSENT" /\ run[r].data \in Datasets /\ Bound(run[r].data) /\ run[r].responds \subseteq Runs
  BY <1>1 DEF IInv, StepsFitRows, RowsAreBound, TypeOK
<1>5. TypeOK'
  BY <1>1, <1>2 DEF IInv, TypeOK, RunRows
<1>6. AtMostOne'
  BY <1>1, <1>2 DEF AtMostOne, NoneActive
<1>7. TrainsItsRun' /\ NoCancelledCandidate' /\ StepsFitRows'
  BY <1>1, <1>2, <1>3 DEF IInv, TrainsItsRun, NoCancelledCandidate, StepsFitRows, WithLock
<1>8. RowsAreBound'
  BY <1>1, <1>2, <1>3, <1>4 DEF IInv, RowsAreBound, Bound
\* Checked in the transaction: what it answers is triaged, hence a candidate of
\* other content and of another gate.
<1>9. ASSUME NEW f \in run[r].responds
      PROVE  /\ f \in Runs /\ f # r /\ run[f].status = "SUCCEEDED_CANDIDATE"
             /\ Data[run[f].data].content # Data[run[r].data].content
             /\ Data[run[f].data].task # Data[run[r].data].task
  <2>1. f \in Runs /\ feedback[f] = "TRIAGED"
    BY <1>1, <1>4 DEF FeedbackInputs
  <2>2. run[f].status = "SUCCEEDED_CANDIDATE"
    BY <2>1 DEF IInv, FeedbackIsEarned
  <2>3. Bound(run[f].data)
    BY <2>1, <2>2 DEF IInv, RowsAreBound
  <2> QED BY <1>1, <1>4, <2>1, <2>2, <2>3 DEF FeedbackInputs, Bound
<1>10. ASSUME NEW s \in Runs, s # r, run[s].status # "ABSENT", NEW f \in run[s].responds
       PROVE  f \in Runs /\ f # r /\ run[f].status # "ABSENT"
  BY <1>4, <1>10 DEF IInv, AnswersExist, TypeOK
<1>11. AnswersExist'
  BY <1>2, <1>9, <1>10 DEF AnswersExist
<1>12. AnswersDiffer'
  <2> SUFFICES ASSUME NEW s \in Runs, run'[s].status # "ABSENT", NEW f \in run'[s].responds
               PROVE  /\ Data[run'[f].data].content # Data[run'[s].data].content
                      /\ Data[run'[f].data].task # Data[run'[s].data].task
    BY DEF AnswersDiffer
  <2>1. CASE s = r
    BY <1>2, <1>9, <2>1
  <2>2. CASE s # r
    BY <1>2, <1>10, <2>2 DEF IInv, AnswersDiffer
  <2> QED BY <2>1, <2>2
<1>13. FeedbackIsEarned'
  BY <1>1, <1>2, <1>4 DEF IInv, FeedbackIsEarned
<1> QED
  BY <1>1, <1>5, <1>6, <1>7, <1>8, <1>11, <1>12, <1>13, DatasetsKeep DEF RunsInv

\* A create that is refused, or whose process stops, leaves no run; a stopped
\* thread leaves its row as it is.
LEMMA DropStep ==
  ASSUME IInv, NEW r \in Runs, RefuseCreate(r) \/ Crash(r)
  PROVE  IInv'
<1>1. /\ step' = [step EXCEPT ![r] = "none"]
      /\ UNCHANGED <<fresh, dataset, members, feedback, picking, member>>
      /\ crashes' \in 0 .. MaxCrashes
      /\ lock' \in [Runs -> {"free", "thread", "recover"}]
      /\ \A s \in Runs \ {r} : lock'[s] = lock[s]
  <2>1. CASE RefuseCreate(r)
    BY <2>1 DEF RefuseCreate, IInv, TypeOK
  <2>2. CASE Crash(r)
    BY <2>2, BoundAssumption DEF Crash, IInv, TypeOK
  <2> QED BY <2>1, <2>2
<1>2. NewRun \in RunRows /\ NewRun.status = "ABSENT"
  BY DEF NewRun, RunRows
<1>3. \/ run' = run
      \/ run' = [run EXCEPT ![r] = NewRun] /\ run[r].status = "ABSENT"
  <2>1. CASE RefuseCreate(r)
    BY <2>1 DEF RefuseCreate, IInv, StepsFitRows
  <2>2. CASE Crash(r)
    BY <2>2 DEF Crash, IInv, TypeOK
  <2> QED BY <2>1, <2>2
<1>4. /\ run' \in [Runs -> RunRows]
      /\ \A s \in Runs : run'[s] = run[s] \/ (s = r /\ run[s].status = "ABSENT" /\ run'[s].status = "ABSENT")
  BY <1>2, <1>3, ChangedRow DEF IInv, TypeOK, RunRows
<1>5. \A s \in Runs : step'[s] = IF s = r THEN "none" ELSE step[s]
  BY <1>1 DEF IInv, TypeOK
<1>6. TypeOK'
  BY <1>1, <1>4 DEF IInv, TypeOK, RunRows
<1>7. AtMostOne' /\ TrainsItsRun' /\ NoCancelledCandidate' /\ StepsFitRows'
  BY <1>1, <1>4, <1>5 DEF IInv, AtMostOne, TrainsItsRun, NoCancelledCandidate, StepsFitRows, Active, WithLock
<1>8. RowsAreBound' /\ FeedbackIsEarned'
  BY <1>1, <1>4, <1>5 DEF IInv, RowsAreBound, Bound, FeedbackIsEarned
<1>9. AnswersExist' /\ AnswersDiffer'
  <2>1. ASSUME NEW s \in Runs, run'[s].status # "ABSENT", NEW f \in run'[s].responds
        PROVE  /\ run'[s] = run[s] /\ run[s].status # "ABSENT" /\ f \in run[s].responds
               /\ f \in Runs /\ run[f].status # "ABSENT" /\ run'[f] = run[f]
    BY <1>4, <2>1 DEF IInv, AnswersExist, TypeOK
  <2> QED BY <2>1 DEF IInv, AnswersExist, AnswersDiffer
<1> QED
  BY <1>1, <1>6, <1>7, <1>8, <1>9, DatasetsKeep DEF RunsInv

\* The steps of a thread, and of a recovery, that leave the rows alone.
LEMMA LockStep ==
  ASSUME IInv, NEW r \in Runs,
         ThreadLock(r) \/ TooLate(r) \/ VerifyTrained(r) \/ RecoverLock(r) \/ RecoverRefused(r)
  PROVE  IInv'
<1>1. UNCHANGED <<fresh, dataset, members, run, feedback, picking, member, crashes>>
  BY DEF ThreadLock, TooLate, VerifyTrained, RecoverLock, RecoverRefused
<1>2. /\ step' \in [Runs -> {"none", "creating", "started", "locked", "running", "trained", "verified"}]
      /\ lock' \in [Runs -> {"free", "thread", "recover"}]
      /\ \A s \in Runs \ {r} : step'[s] = step[s] /\ lock'[s] = lock[s]
      /\ \/ step'[r] = "none"
         \/ step[r] = "started" /\ step'[r] = "locked" /\ lock'[r] = "thread"
         \/ step[r] = "trained" /\ step'[r] = "verified" /\ lock'[r] = lock[r]
         \/ step'[r] = step[r] /\ lock[r] # "thread"
  <2>1. step \in [Runs -> {"none", "creating", "started", "locked", "running", "trained", "verified"}]
        /\ lock \in [Runs -> {"free", "thread", "recover"}]
    BY DEF IInv, TypeOK
  <2>2. CASE ThreadLock(r)
    BY <2>1, <2>2 DEF ThreadLock
  <2>3. CASE TooLate(r)
    BY <2>1, <2>3 DEF TooLate, EndThread
  <2>4. CASE VerifyTrained(r)
    BY <2>1, <2>4 DEF VerifyTrained
  <2>5. CASE RecoverLock(r)
    BY <2>1, <2>5 DEF RecoverLock, MayRecover
  <2>6. CASE RecoverRefused(r)
    BY <2>1, <2>6 DEF RecoverRefused
  <2> QED BY <2>2, <2>3, <2>4, <2>5, <2>6
<1>3. TypeOK'
  BY <1>1, <1>2 DEF IInv, TypeOK
<1>4. TrainsItsRun' /\ StepsFitRows'
  BY <1>1, <1>2 DEF IInv, TrainsItsRun, StepsFitRows, WithLock
<1>5. RowsAreBound'
  BY <1>1, <1>2 DEF IInv, RowsAreBound, Bound
<1> QED
  BY <1>1, <1>3, <1>4, <1>5, DatasetsKeep DEF RunsInv, IInv, AtMostOne, NoCancelledCandidate,
     AnswersDiffer, AnswersExist, FeedbackIsEarned

\* The thread begins, and its subprocess ends.
LEMMA TrainStep ==
  ASSUME IInv, NEW r \in Runs, Begin(r) \/ \E result \in Results : Train(r, result)
  PROVE  IInv'
<1>1. /\ step[r] \in {"locked", "running"}
      /\ step' = [step EXCEPT ![r] = IF step[r] = "locked" THEN "running" ELSE "trained"]
      /\ UNCHANGED <<fresh, dataset, members, lock, feedback, picking, member, crashes>>
      /\ run[r].status = IF step[r] = "locked" THEN "QUEUED" ELSE "RUNNING"
      /\ lock[r] = "thread"
  BY DEF Begin, MayBegin, Train, IInv, TrainsItsRun, StepsFitRows, WithLock
<1>2. /\ run' \in [Runs -> RunRows]
      /\ run'[r].status = "RUNNING" /\ run'[r].cancel = run[r].cancel
      /\ run'[r].data = run[r].data /\ run'[r].responds = run[r].responds
      /\ \A s \in Runs \ {r} : run'[s] = run[s]
  <2>1. CASE Begin(r)
    BY <2>1, StatusOnly DEF Begin, Active
  <2>2. ASSUME NEW result \in Results, Train(r, result)
        PROVE  <1>2
    <3> DEFINE row == [run[r] EXCEPT !.result = result]
    <3>1. run[r] \in RunRows /\ run[r].status = "RUNNING"
      BY <2>2 DEF Train, IInv, TypeOK, TrainsItsRun, RunRows
    <3>2. /\ row \in RunRows /\ row.status = "RUNNING" /\ row.cancel = run[r].cancel
          /\ row.data = run[r].data /\ row.responds = run[r].responds
      BY <3>1 DEF RunRows
    <3>3. run' = [run EXCEPT ![r] = row]
      BY <2>2 DEF Train
    <3> HIDE DEF row
    <3> QED BY <3>2, <3>3, ChangedRow DEF IInv
  <2> QED BY <2>1, <2>2
<1>3. \A s \in Runs : step'[s] = IF s = r THEN IF step[r] = "locked" THEN "running" ELSE "trained" ELSE step[s]
  BY <1>1 DEF IInv, TypeOK
<1>4. TypeOK'
  BY <1>1, <1>2, <1>3 DEF IInv, TypeOK, RunRows
<1>5. AtMostOne'
  BY <1>1, <1>2 DEF IInv, AtMostOne, Active
<1>6. TrainsItsRun' /\ NoCancelledCandidate' /\ StepsFitRows'
  BY <1>1, <1>2, <1>3 DEF IInv, TrainsItsRun, NoCancelledCandidate, StepsFitRows, WithLock
<1>7. RowsAreBound' /\ FeedbackIsEarned'
  BY <1>1, <1>2, <1>3 DEF IInv, RowsAreBound, Bound, FeedbackIsEarned
<1>8. AnswersExist' /\ AnswersDiffer'
  BY <1>1, <1>2, DataKeep
<1> QED
  BY <1>1, <1>4, <1>5, <1>6, <1>7, <1>8, DatasetsKeep DEF RunsInv

\* The thread ends: with what the subprocess returned, or with its handler.
LEMMA EndStep ==
  ASSUME IInv, NEW r \in Runs, Handler(r) \/ \E disagrees \in BOOLEAN : Publish(r, disagrees)
  PROVE  IInv'
<1>1. /\ step[r] \in WithLock
      /\ step' = [step EXCEPT ![r] = "none"] /\ lock' = [lock EXCEPT ![r] = "free"]
      /\ UNCHANGED <<fresh, dataset, members, picking, member, crashes>>
  BY DEF Handler, HandlerReached, Publish, EndThread, WithLock
<1>2. /\ run[r].status \notin {"ABSENT", "SUCCEEDED_CANDIDATE"}
  BY <1>1 DEF IInv, TrainsItsRun, StepsFitRows, WithLock
<1> DEFINE Ends(st) == /\ run' = [run EXCEPT ![r].status = st]
                       /\ st = "SUCCEEDED_CANDIDATE" => ~run[r].cancel
                       /\ \/ feedback' = feedback
                          \/ feedback' = [feedback EXCEPT ![r] = "none"]
                          \/ feedback' = [feedback EXCEPT ![r] = "PENDING"] /\ st = "SUCCEEDED_CANDIDATE"
<1>3. PICK st \in Ended : Ends(st)
  <2>1. CASE Handler(r)
    BY <2>1 DEF Handler, Ended
  <2>2. ASSUME NEW disagrees \in BOOLEAN, Publish(r, disagrees)
        PROVE  \E st \in Ended : Ends(st)
    <3>0. StatusOf(r) = "SUCCEEDED_CANDIDATE" => ~run[r].cancel
      BY DEF StatusOf, StatusReturned
    <3>1. Ends(StatusOf(r))
      BY <2>2, <3>0 DEF Publish
    <3>2. StatusOf(r) \in Ended
      BY DEF StatusOf, StatusReturned, Ended
    <3> QED BY <3>1, <3>2
  <2> QED BY <2>1, <2>2
<1>12. /\ feedback' \in [Runs -> {"none", "PENDING", "TRIAGED", "UNKNOWN"}]
       /\ \A s \in Runs : \/ feedback'[s] = feedback[s]
                          \/ s = r /\ (feedback'[r] = "none" \/ st = "SUCCEEDED_CANDIDATE")
  <2>1. feedback \in [Runs -> {"none", "PENDING", "TRIAGED", "UNKNOWN"}]
    BY DEF IInv, TypeOK
  <2>2. CASE feedback' = feedback
    BY <2>1, <2>2
  <2>3. CASE feedback' = [feedback EXCEPT ![r] = "none"]
    BY <2>1, <2>3
  <2>4. CASE feedback' = [feedback EXCEPT ![r] = "PENDING"] /\ st = "SUCCEEDED_CANDIDATE"
    BY <2>1, <2>4
  <2> QED BY <1>3, <2>2, <2>3, <2>4
<1>4. /\ run' \in [Runs -> RunRows]
      /\ run'[r].status = st /\ run'[r].cancel = run[r].cancel
      /\ run'[r].data = run[r].data /\ run'[r].responds = run[r].responds
      /\ \A s \in Runs \ {r} : run'[s] = run[s]
  BY <1>3, StatusOnly
<1>5. \A s \in Runs : /\ step'[s] = IF s = r THEN "none" ELSE step[s]
                      /\ lock'[s] = IF s = r THEN "free" ELSE lock[s]
  BY <1>1 DEF IInv, TypeOK
<1>6. TypeOK'
  BY <1>1, <1>4, <1>12 DEF IInv, TypeOK, RunRows
<1>7. AtMostOne'
  BY <1>4 DEF IInv, AtMostOne, Active, Ended
<1>8. TrainsItsRun' /\ NoCancelledCandidate' /\ StepsFitRows'
  BY <1>3, <1>4, <1>5 DEF IInv, TrainsItsRun, NoCancelledCandidate, StepsFitRows, WithLock
<1>9. RowsAreBound'
  BY <1>2, <1>4, <1>5 DEF IInv, RowsAreBound, Bound
<1>10. AnswersExist' /\ AnswersDiffer'
  BY <1>2, <1>4, DataKeep DEF Ended
<1>11. FeedbackIsEarned'
  BY <1>2, <1>4, <1>12 DEF IInv, FeedbackIsEarned
<1> QED
  BY <1>1, <1>6, <1>7, <1>8, <1>9, <1>10, <1>11, DatasetsKeep DEF RunsInv

\* A person cancels a run, or takes one over whose lock nobody holds.
LEMMA ActionStep ==
  ASSUME IInv, NEW r \in Runs, Cancel(r) \/ Recover(r)
  PROVE  IInv'
<1>1. /\ run[r].status \in Active
      /\ UNCHANGED <<fresh, dataset, members, step, feedback, picking, member, crashes>>
      /\ lock' = lock \/ (lock[r] = "recover" /\ lock' = [lock EXCEPT ![r] = "free"])
  BY DEF Cancel, Recover
<1>2. PICK st \in Active \cup Ended :
        /\ \/ run' = [run EXCEPT ![r].cancel = TRUE, ![r].status = st]
           \/ run' = [run EXCEPT ![r].status = st, ![r].cancel = TRUE]
        /\ \/ run[r].status = "QUEUED" /\ st = "CANCELLED"
           \/ run[r].status = "RUNNING" /\ st = "RUNNING"
           \/ st = "INTERRUPTED_HOLD" /\ lock[r] = "recover"
  <2>1. CASE Cancel(r)
    <3>1. CASE run[r].status = "QUEUED"
      BY <2>1, <3>1 DEF Cancel, Ended
    <3>2. CASE run[r].status # "QUEUED"
      BY <1>1, <2>1, <3>2 DEF Cancel, Active
    <3> QED BY <3>1, <3>2
  <2>2. CASE Recover(r)
    BY <2>2 DEF Recover, Ended
  <2> QED BY <2>1, <2>2
<1>3. /\ run' \in [Runs -> RunRows]
      /\ run'[r].status = st /\ run'[r].cancel
      /\ run'[r].data = run[r].data /\ run'[r].responds = run[r].responds
      /\ \A s \in Runs \ {r} : run'[s] = run[s]
  BY <1>2, StatusRow DEF IInv
<1>4. TypeOK'
  BY <1>1, <1>3 DEF IInv, TypeOK, RunRows
<1>5. AtMostOne'
  BY <1>1, <1>3 DEF IInv, AtMostOne
<1>6. TrainsItsRun' /\ NoCancelledCandidate' /\ StepsFitRows'
  <2>1. \A s \in Runs : lock'[s] = lock[s] \/ (s = r /\ lock[r] = "recover")
    <3>1. lock \in [Runs -> {"free", "thread", "recover"}]
      BY DEF IInv, TypeOK
    <3> QED BY <1>1, <3>1
  <2>2. st # "SUCCEEDED_CANDIDATE"
    BY <1>2
  <2>3. step[r] \in WithLock => lock[r] = "thread"
    BY DEF IInv, StepsFitRows
  <2>4. TrainsItsRun'
    BY <1>1, <1>2, <1>3, <2>1, <2>3 DEF IInv, TrainsItsRun, WithLock
  <2>5. NoCancelledCandidate'
    BY <1>3, <2>2 DEF IInv, NoCancelledCandidate
  <2>6. StepsFitRows'
    BY <1>1, <1>2, <1>3, <2>1 DEF IInv, StepsFitRows, WithLock, Active
  <2> QED BY <2>4, <2>5, <2>6
<1>7. RowsAreBound' /\ FeedbackIsEarned'
  BY <1>1, <1>3 DEF IInv, RowsAreBound, Bound, FeedbackIsEarned, Active
<1>8. AnswersExist' /\ AnswersDiffer'
  BY <1>1, <1>2, <1>3, DataKeep DEF Active
<1> QED
  BY <1>1, <1>4, <1>5, <1>6, <1>7, <1>8, DatasetsKeep DEF RunsInv

\* A person decides about a candidate or its feedback; the sources of a dataset
\* move, or the member goes.
LEMMA SelectionStep ==
  ASSUME IInv,
         \/ \E r \in Runs : StartSelect(r)
         \/ \E r \in Runs, class \in {"TRIAGED", "UNKNOWN"} : Triage(r, class)
         \/ \E d \in Datasets, f \in {"drifted", "moved"} : PoolMoves(d, f)
         \/ RemoveMember
  PROVE  IInv'
<1>1. UNCHANGED <<dataset, members, run, step, lock, crashes>>
  BY DEF StartSelect, Triage, PoolMoves, RemoveMember
<1>2. /\ picking' \subseteq Runs /\ member' \in BOOLEAN
      /\ fresh' \in [Datasets -> {"current", "drifted", "moved"}]
      /\ feedback' \in [Runs -> {"none", "PENDING", "TRIAGED", "UNKNOWN"}]
      /\ \A r \in Runs : feedback'[r] # "none" => run[r].status = "SUCCEEDED_CANDIDATE"
  <2>1. TypeOK /\ FeedbackIsEarned
    BY DEF IInv
  <2>2. ASSUME NEW r \in Runs, StartSelect(r) PROVE <1>2
    BY <2>1, <2>2 DEF StartSelect, TypeOK, FeedbackIsEarned
  <2>3. ASSUME NEW r \in Runs, NEW class \in {"TRIAGED", "UNKNOWN"}, Triage(r, class) PROVE <1>2
    BY <2>1, <2>3 DEF Triage, TypeOK, FeedbackIsEarned
  <2>4. ASSUME NEW d \in Datasets, NEW f \in {"drifted", "moved"}, PoolMoves(d, f) PROVE <1>2
    BY <2>1, <2>4 DEF PoolMoves, TypeOK, FeedbackIsEarned
  <2>5. CASE RemoveMember
    BY <2>1, <2>5 DEF RemoveMember, TypeOK, FeedbackIsEarned
  <2> QED BY <2>2, <2>3, <2>4, <2>5
<1>3. TypeOK'
  BY <1>1, <1>2 DEF IInv, TypeOK
<1> QED
  BY <1>1, <1>2, <1>3, DatasetsKeep DEF RunsInv, IInv, AtMostOne, TrainsItsRun, NoCancelledCandidate,
     AnswersDiffer, StepsFitRows, RowsAreBound, Bound, AnswersExist, FeedbackIsEarned

LEMMA SelectStep ==
  ASSUME IInv, NEW r \in Runs, NEW action \in {"SELECT", "REJECT"}, Select(r, action)
  PROVE  IInv'
<1> DEFINE row == [run[r] EXCEPT !.selection = action]
<1>1. run[r] \in RunRows
  BY DEF IInv, TypeOK, RunRows
<1>2. /\ row \in RunRows /\ row.status = run[r].status /\ row.cancel = run[r].cancel
      /\ row.data = run[r].data /\ row.responds = run[r].responds
  BY <1>1 DEF RunRows
<1>3. /\ run' = [run EXCEPT ![r] = row] /\ run[r].status = "SUCCEEDED_CANDIDATE"
      /\ picking' \subseteq picking
      /\ UNCHANGED <<fresh, dataset, members, step, lock, feedback, member, crashes>>
  BY DEF Select
<1> HIDE DEF row
<1>4. /\ run' \in [Runs -> RunRows] /\ run'[r] = row
      /\ \A s \in Runs \ {r} : run'[s] = run[s]
  BY <1>2, <1>3, ChangedRow DEF IInv
<1>5. TypeOK'
  BY <1>3, <1>4 DEF IInv, TypeOK, RunRows
<1>6. AtMostOne' /\ TrainsItsRun' /\ NoCancelledCandidate' /\ StepsFitRows' /\ FeedbackIsEarned'
  BY <1>2, <1>3, <1>4 DEF IInv, AtMostOne, TrainsItsRun, NoCancelledCandidate, StepsFitRows, FeedbackIsEarned
<1>7. RowsAreBound'
  BY <1>2, <1>3, <1>4 DEF IInv, RowsAreBound, Bound
<1>8. AnswersExist' /\ AnswersDiffer'
  BY <1>2, <1>3, <1>4, DataKeep
<1> QED
  BY <1>3, <1>5, <1>6, <1>7, <1>8, DatasetsKeep DEF RunsInv

LEMMA NextIInv == IInv /\ [Next]_vars => IInv'
<1> SUFFICES ASSUME IInv, [Next]_vars PROVE IInv'
  OBVIOUS
<1>1. CASE UNCHANGED vars
  BY <1>1, DatasetsKeep DEF vars, RunsInv, IInv, TypeOK, AtMostOne, TrainsItsRun, NoCancelledCandidate,
     AnswersDiffer, StepsFitRows, RowsAreBound, Bound, AnswersExist, FeedbackIsEarned
<1>2. ASSUME NEW d \in Datasets, FreezeDataset(d) \/ PublishDataset(d) PROVE IInv'
  BY <1>2, DatasetStep
<1>3. ASSUME NEW r \in Runs, NEW d \in Datasets, NEW responds \in SUBSET (Runs \ {r}),
             StartCreate(r, d, responds)
      PROVE  IInv'
  BY <1>3, StartCreateStep
<1>4. ASSUME NEW r \in Runs, CommitCreate(r) PROVE IInv'
  BY <1>4, CommitCreateStep
<1>5. ASSUME NEW r \in Runs, RefuseCreate(r) \/ Crash(r) PROVE IInv'
  BY <1>5, DropStep
<1>6. ASSUME NEW r \in Runs,
             ThreadLock(r) \/ TooLate(r) \/ VerifyTrained(r) \/ RecoverLock(r) \/ RecoverRefused(r)
      PROVE  IInv'
  BY <1>6, LockStep
<1>7. ASSUME NEW r \in Runs, Begin(r) \/ \E result \in Results : Train(r, result) PROVE IInv'
  BY <1>7, TrainStep
<1>8. ASSUME NEW r \in Runs, Handler(r) \/ \E disagrees \in BOOLEAN : Publish(r, disagrees) PROVE IInv'
  BY <1>8, EndStep
<1>9. ASSUME NEW r \in Runs, Cancel(r) \/ Recover(r) PROVE IInv'
  BY <1>9, ActionStep
<1>10. ASSUME NEW r \in Runs, NEW action \in {"SELECT", "REJECT"}, Select(r, action) PROVE IInv'
  BY <1>10, SelectStep
<1>11. CASE \/ \E r \in Runs : StartSelect(r)
            \/ \E r \in Runs, class \in {"TRIAGED", "UNKNOWN"} : Triage(r, class)
            \/ \E d \in Datasets, f \in {"drifted", "moved"} : PoolMoves(d, f)
            \/ RemoveMember
  BY <1>11, SelectionStep
<1> QED
  BY <1>1, <1>2, <1>3, <1>4, <1>5, <1>6, <1>7, <1>8, <1>9, <1>10, <1>11 DEF Next, ThreadStep

LEMMA Invariance == Spec => []IInv
BY InitIInv, NextIInv, PTL DEF Spec

\* Two runs that are active are the same: there is at most one.
LEMMA CountsOne == AtMostOne => OneActive
<1> SUFFICES ASSUME AtMostOne PROVE OneActive
  OBVIOUS
<1> DEFINE S == {r \in Runs : run[r].status \in Active}
<1>1. CASE S = {}
  BY <1>1, FS_EmptySet DEF OneActive
<1>2. CASE S # {}
  <2>1. PICK r \in S : TRUE
    BY <1>2
  <2>2. S = {r}
    BY <2>1 DEF AtMostOne
  <2>3. Cardinality(S) = 1
    BY <2>2, FS_Singleton
  <2> QED BY <2>3 DEF OneActive
<1> QED BY <1>1, <1>2

-----------------------------------------------------------------------------
\* One run of the project trains at a time, its row says so, no cancelled run
\* becomes a candidate, and datasets and answers are what the registry's checks
\* promise, whatever overlaps or stops (create_training_run, _execute_run,
\* recover_run, publish of a dataset).
THEOREM TrainingExclusive == Spec => []TrainingIsExclusive
<1>1. IInv => TrainingIsExclusive
  BY CountsOne DEF IInv, TrainingIsExclusive
<1> QED BY <1>1, Invariance, PTL

\* No thread, request or recovery brings an ended run back (_execute_run,
\* _run_action).
THEOREM EndedRunsStay == Spec => EndedStaysEnded
<1>1. ASSUME IInv, [Next]_vars PROVE KeepsEnded
  <2> SUFFICES ASSUME NEW r \in Runs, run[r].status \in Ended
               PROVE  \/ run'[r].status = run[r].status
                      \/ run[r].status = "INTERRUPTED_HOLD" /\ run'[r].status = "CANCELLED"
    BY DEF KeepsEnded
  <2>1. run[r].status \notin Active /\ run[r].status # "ABSENT"
    BY DEF Ended, Active
  <2>2. ASSUME NEW s \in Runs, s # r, NEW row, run' = [run EXCEPT ![s] = row]
        PROVE  run'[r] = run[r]
    BY <1>1, <2>2 DEF IInv, TypeOK
  <2>3. CASE Handler(r)
    <3>1. step[r] = "locked" /\ run[r].cancel /\ run[r].status \in {"CANCELLED", "INTERRUPTED_HOLD"}
      BY <1>1, <2>1, <2>3 DEF Handler, HandlerReached, IInv, TrainsItsRun, StepsFitRows, Active
    <3>2. run'[r].status = "CANCELLED"
      BY <1>1, <2>3, <3>1 DEF Handler, IInv, TypeOK
    <3> QED BY <3>1, <3>2
  <2>4. CASE Select(r, "SELECT") \/ Select(r, "REJECT")
    BY <1>1, <2>4 DEF Select, IInv, TypeOK
  <2>5. CASE Crash(r)
    BY <1>1, <2>1, <2>5 DEF Crash, IInv, TypeOK
  <2>6. ~CommitCreate(r) /\ ~RefuseCreate(r) /\ ~Cancel(r) /\ ~Recover(r) /\ ~Begin(r)
        /\ (\A d, responds : ~StartCreate(r, d, responds))
        /\ (\A disagrees : ~Publish(r, disagrees)) /\ (\A result : ~Train(r, result))
    BY <1>1, <2>1 DEF CommitCreate, RefuseCreate, Cancel, Recover, Begin, MayBegin, StartCreate,
       Publish, Train, IInv, StepsFitRows, TrainsItsRun, Active
  <2>7. CASE \E s \in Runs \ {r} :
               \/ CommitCreate(s) \/ RefuseCreate(s) \/ Begin(s) \/ Handler(s) \/ Cancel(s) \/ Recover(s) \/ Crash(s)
               \/ \E result \in Results : Train(s, result)
               \/ \E disagrees \in BOOLEAN : Publish(s, disagrees)
               \/ \E action \in {"SELECT", "REJECT"} : Select(s, action)
               \/ \E d \in Datasets : \E responds \in SUBSET (Runs \ {s}) : StartCreate(s, d, responds)
    <3>1. PICK s \in Runs \ {r} :
            \/ CommitCreate(s) \/ RefuseCreate(s) \/ Begin(s) \/ Handler(s) \/ Cancel(s) \/ Recover(s) \/ Crash(s)
            \/ \E result \in Results : Train(s, result)
            \/ \E disagrees \in BOOLEAN : Publish(s, disagrees)
            \/ \E action \in {"SELECT", "REJECT"} : Select(s, action)
            \/ \E d \in Datasets : \E responds \in SUBSET (Runs \ {s}) : StartCreate(s, d, responds)
      BY <2>7
    <3>2. \E row : run' = [run EXCEPT ![s] = row]
      BY <3>1 DEF CommitCreate, RefuseCreate, Begin, Handler, Cancel, Recover, Crash, Train, Publish, Select, StartCreate
    <3> QED BY <2>2, <3>2
  <2>8. CASE run' = run
    BY <2>8
  <2> QED
    BY <1>1, <2>3, <2>4, <2>5, <2>6, <2>7, <2>8 DEF Next, ThreadStep, vars, FreezeDataset, PublishDataset,
       ThreadLock, TooLate, VerifyTrained, RecoverLock, RecoverRefused, StartSelect, Triage, PoolMoves,
       RemoveMember
<1> QED BY <1>1, Invariance, PTL DEF Spec, EndedStaysEnded

-----------------------------------------------------------------------------
(* The case and the decisions are those of Capa and of IncidentCommands, so  *)
(* that what is proved of them holds here                                    *)

CaseP == INSTANCE CapaProofs WITH
  Cases <- CaseIds, Named <- Keys, Unnamed <- "unnamed", Modes <- Keys, Procs <- Threads,
  MaxCrashes <- CaseCrashes,
  selection <- y1, queue <- y2, approval <- y3, authz <- y4, gate <- y5,
  version <- y6, derived <- y7, granted <- y8, child <- y9, agreed <- y10,
  execution <- y11, closed <- y12, recovery <- y13, assessed <- y14, parent <- y15,
  pc <- y16, on <- y17, mode <- y18, report <- y19, build <- y20, try <- y21,
  saw <- y22, family <- y23, crashes <- y24

CommandsP == INSTANCE IncidentCommandsProofs WITH
  Bindings <- Keys, Procs <- Threads,
  admission <- z1, terminal <- z2, row <- z3, begun <- z4, done <- z5, pc <- z6,
  cmd <- z7, bind <- z8, fresh <- z9, saw <- z10

LEMMA SameCase ==
  /\ Case!Init => CaseP!Init
  /\ [Case!Next]_(Case!vars) => [CaseP!Next]_(CaseP!vars)
  /\ CaseP!CaseIsBound => Case!CaseIsBound
<1>1. Case!Init => CaseP!Init
  BY
  DEF Case!Init, Case!Attempts, Case!NoReport, CaseP!Init, CaseP!Attempts, CaseP!NoReport
<1>2. Case!Next => CaseP!Next
  BY
  DEF Case!Next, Case!Crash, Case!receipts, Case!rows, Case!End, Case!NoReport, Case!Goto, Case!Step,
     Case!SelectQueue, Case!WriteApproval, Case!CheckSource, Case!locals, Case!AuthorizationAdmits,
     Case!WriteAuthorization, Case!WriteGate, Case!Derive, Case!Publish, Case!WriteDerived,
     Case!Register, Case!CreateChild, Case!Ended, Case!MayTryAgain, Case!AgreeChild, Case!RunChild,
     Case!ChildEnds, Case!Recheck, Case!WriteExecution, Case!WriteClosed, Case!WriteRecovery,
     Case!WriteAssessment, Case!Readable, Case!Binds, Case!LineageHolds, Case!Requests, Case!Select,
     Case!BeginApproval, Case!BeginExecution, Case!Operators, Case!Attempts, Case!SourceDrifts,
     Case!RevokeParent, Case!RevokeDerived, Case!CancelChild, Case!RecoverChild, CaseP!Next, CaseP!Crash,
     CaseP!receipts, CaseP!rows, CaseP!End, CaseP!NoReport, CaseP!Goto, CaseP!Step, CaseP!SelectQueue,
     CaseP!WriteApproval, CaseP!CheckSource, CaseP!locals, CaseP!AuthorizationAdmits,
     CaseP!WriteAuthorization, CaseP!WriteGate, CaseP!Derive, CaseP!Publish, CaseP!WriteDerived,
     CaseP!Register, CaseP!CreateChild, CaseP!Ended, CaseP!MayTryAgain, CaseP!AgreeChild, CaseP!RunChild,
     CaseP!ChildEnds, CaseP!Recheck, CaseP!WriteExecution, CaseP!WriteClosed, CaseP!WriteRecovery,
     CaseP!WriteAssessment, CaseP!Readable, CaseP!Binds, CaseP!LineageHolds, CaseP!Requests,
     CaseP!Select, CaseP!BeginApproval, CaseP!BeginExecution, CaseP!Operators, CaseP!Attempts,
     CaseP!SourceDrifts, CaseP!RevokeParent, CaseP!RevokeDerived, CaseP!CancelChild, CaseP!RecoverChild
<1>3. UNCHANGED Case!vars => UNCHANGED CaseP!vars
  BY DEF Case!vars, CaseP!vars, Case!receipts, CaseP!receipts, Case!rows, CaseP!rows, Case!locals, CaseP!locals
<1>4. CaseP!CaseIsBound => Case!CaseIsBound
  BY
  DEF Case!CaseIsBound, Case!TypeOK, Case!Attempts, Case!Statuses, Case!Families, Case!Executions,
     Case!Reports, Case!PCs, Case!VersionsAgree, Case!OneChildCompletes, Case!ReceiptsBind, Case!Binds,
     CaseP!CaseIsBound, CaseP!TypeOK, CaseP!Attempts, CaseP!Statuses, CaseP!Families, CaseP!Executions,
     CaseP!Reports, CaseP!PCs, CaseP!VersionsAgree, CaseP!OneChildCompletes, CaseP!ReceiptsBind,
     CaseP!Binds
<1> QED BY <1>1, <1>2, <1>3, <1>4

LEMMA SameCommands ==
  /\ Commands!Init => CommandsP!Init
  /\ [Commands!Next]_(Commands!vars) => [CommandsP!Next]_(CommandsP!vars)
<1>1. Commands!Init => CommandsP!Init
  BY
  DEF Commands!Init, Commands!Commands, CommandsP!Init, CommandsP!Commands
<1>2. Commands!Next => CommandsP!Next
  BY
  DEF Commands!Next, Commands!Commands, Commands!Request, Commands!files, Commands!CaseReadable,
     Commands!Goto, Commands!CaseLockFree, Commands!HoldsCaseLock, Commands!Crash, Commands!Step,
     Commands!Admit, Commands!mine, Commands!Answer, Commands!ReadTerminal, Commands!Claim,
     Commands!ScopeOccupied, Commands!Occupying, Commands!Scope, Commands!AfterClaim,
     Commands!SealRejected, Commands!SyncRow, Commands!FinishRow, Commands!MarkOrphan,
     Commands!MarkUncertain, Commands!Refuse, Commands!Proceed, Commands!Admissible, Commands!Decided,
     Commands!WriteRejected, Commands!FirstEffect, Commands!LastEffect, Commands!WriteCompleted,
     Commands!CloseRow, Commands!EffectFails, Commands!Effects, Commands!MarkUnsure, Commands!StoreFails,
     CommandsP!Next, CommandsP!Commands, CommandsP!Request, CommandsP!files, CommandsP!CaseReadable,
     CommandsP!Goto, CommandsP!CaseLockFree, CommandsP!HoldsCaseLock, CommandsP!Crash, CommandsP!Step,
     CommandsP!Admit, CommandsP!mine, CommandsP!Answer, CommandsP!ReadTerminal, CommandsP!Claim,
     CommandsP!ScopeOccupied, CommandsP!Occupying, CommandsP!Scope, CommandsP!AfterClaim,
     CommandsP!SealRejected, CommandsP!SyncRow, CommandsP!FinishRow, CommandsP!MarkOrphan,
     CommandsP!MarkUncertain, CommandsP!Refuse, CommandsP!Proceed, CommandsP!Admissible,
     CommandsP!Decided, CommandsP!WriteRejected, CommandsP!FirstEffect, CommandsP!LastEffect,
     CommandsP!WriteCompleted, CommandsP!CloseRow, CommandsP!EffectFails, CommandsP!Effects,
     CommandsP!MarkUnsure, CommandsP!StoreFails
<1>3. UNCHANGED Commands!vars => UNCHANGED CommandsP!vars
  BY DEF Commands!vars, CommandsP!vars, Commands!files, CommandsP!files, Commands!mine, CommandsP!mine
<1> QED BY <1>1, <1>2, <1>3

LEMMA SameScope == CommandsP!ImplementsScope => Commands!ImplementsScope
<1> USE DEF Commands!CurrentDecides, CommandsP!CurrentDecides, Commands!TheOne, CommandsP!TheOne,
        Commands!Occupying, CommandsP!Occupying
<1>1. CommandsP!DecisionScope!Init => Commands!DecisionScope!Init
  BY DEF CommandsP!DecisionScope!Init, Commands!DecisionScope!Init
<1>2. CommandsP!DecisionScope!Next => Commands!DecisionScope!Next
  BY DEF CommandsP!DecisionScope!Next, Commands!DecisionScope!Next,
     CommandsP!DecisionScope!Acquire, Commands!DecisionScope!Acquire,
     CommandsP!DecisionScope!Release, Commands!DecisionScope!Release,
     CommandsP!DecisionScope!Write, Commands!DecisionScope!Write
<1> QED BY <1>1, <1>2, PTL DEF CommandsP!ImplementsScope, Commands!ImplementsScope,
     CommandsP!DecisionScope!Spec, Commands!DecisionScope!Spec

\* A step of the instance is one of the parts, or a stutter of all the others.
LEMMA PartsStep ==
  ASSUME [AllNext]_allVars
  PROVE  [Next]_vars /\ [Case!Next]_(Case!vars) /\ [Commands!Next]_(Commands!vars)
<1>1. UNCHANGED caseVars => UNCHANGED Case!vars
  BY DEF caseVars, Case!vars, Case!receipts, Case!rows, Case!locals
<1>2. UNCHANGED commandVars => UNCHANGED Commands!vars
  BY DEF commandVars, Commands!vars, Commands!files, Commands!mine
<1>3. CASE ContentsStep
  BY <1>1, <1>2, <1>3 DEF ContentsStep
<1>4. CASE SourcesStep
  BY <1>1, <1>2, <1>4 DEF SourcesStep
<1>5. CASE CaseStep
  BY <1>2, <1>5 DEF CaseStep
<1>6. CASE CommandsStep
  BY <1>1, <1>6 DEF CommandsStep
<1>7. CASE UNCHANGED allVars
  BY <1>1, <1>2, <1>7 DEF allVars
<1> QED BY <1>3, <1>4, <1>5, <1>6, <1>7 DEF AllNext

LEMMA PartsRun == AllSpec => Spec /\ CaseP!Spec /\ CommandsP!Spec
<1>1. AllInit => Init /\ CaseP!Init /\ CommandsP!Init
  BY SameCase, SameCommands DEF AllInit
<1>2. [AllNext]_allVars =>
        [Next]_vars /\ [CaseP!Next]_(CaseP!vars) /\ [CommandsP!Next]_(CommandsP!vars)
  BY PartsStep, SameCase, SameCommands
<1> QED BY <1>1, <1>2, PTL DEF AllSpec, Spec, CaseP!Spec, CommandsP!Spec

\* Two rival named requests, a crash and what happens beside them leave one
\* version, one completed child and receipts that bind one another, for any
\* requests, cases and attempts (ProductService's CAPA methods).
THEOREM RivalsBound == AllSpec => []RivalsAreBound
<1>1. /\ "unnamed" \notin Keys /\ Keys \subseteq Keys \cup {"unnamed"}
      /\ None \notin Threads \cup CaseIds \cup Keys \cup {"unnamed"}
      /\ MaxAttempts \in Nat \ {0} /\ CaseCrashes \in Nat
  BY CaseAssumption
<1>2. None \notin CaseP!Executions
  <2>1. Case!Attempts = CaseP!Attempts
    BY DEF Case!Attempts, CaseP!Attempts
  <2>2. Case!Executions = CaseP!Executions
    BY <2>1 DEF Case!Executions, CaseP!Executions, Case!Families, CaseP!Families, Case!Statuses, CaseP!Statuses
  <2> QED BY <2>2, CaseAssumption
<1>3. CaseP!Spec => []CaseP!CaseIsBound
  BY <1>1, <1>2, CaseP!CaseBound
<1>4. CaseP!CaseIsBound => RivalsAreBound
  BY SameCase DEF RivalsAreBound
<1> QED BY <1>3, <1>4, PartsRun, PTL

\* Two decisions, each of them retried with another binding, implement one
\* effect scope, for any commands, bindings, threads and hosts
\* (claim_incident_command and ProductService's decisions).
THEOREM DecisionsShareScope == AllSpec => ImplementsScope
<1>1. /\ Creates \cap Decides = {} /\ Creates \cap Resumes = {} /\ Decides \cap Resumes = {}
      /\ Stale \subseteq Decides \cup Resumes /\ Host \in [Threads -> Hosts]
  BY DecisionsAssumption
<1>2. None \notin CommandsP!Commands \cup Keys
  BY DecisionsAssumption DEF Commands!Commands, CommandsP!Commands
<1>3. CommandsP!Spec => CommandsP!ImplementsScope
  BY <1>1, <1>2, CommandsP!ScopeImplemented
<1> QED BY <1>3, SameScope, PartsRun, PTL DEF ImplementsScope
=============================================================================
