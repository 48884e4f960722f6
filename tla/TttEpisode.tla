----------------------------- MODULE TttEpisode -----------------------------
(***************************************************************************)
(* One episode of test-time adaptation (normality_ttt.py, in an external    *)
(* worker) and the service's own check of what the worker reports           *)
(* (_validated_report in normality_adaptation_service.py).  The worker      *)
(* updates a copy of the student for Budget steps and keeps it for this one *)
(* image only when the objective fell and the guard images are judged no    *)
(* worse; otherwise it answers with the parent.                             *)
(*                                                                          *)
(* Data that is abstracted: a guard matrix is its false positives and false *)
(* negatives, the denominators being fixed by the labels; parameters are    *)
(* the parent's or changed; the objective before the first step is 2 and    *)
(* the final one below, at or above it.  Loss curves, digests of inputs and *)
(* constant fields of the report are left out.                              *)
(***************************************************************************)
EXTENDS Integers

CONSTANTS
  Normals, Anomalies,  \* guard images of each label
  Budget               \* steps asked for

VARIABLES
  pc,       \* where the worker is
  late,     \* the time budget of the episode has run out
  report,
  verdict   \* what the service makes of the report

vars == <<pc, late, report, verdict>>

Matrices == [fp : 0 .. Normals, fn : 0 .. Anomalies]
NoMatrix == [fp |-> -1, fn |-> -1]

NoObjective == 0

\* The reasons the worker's error codes are distinguished by.
Reasons == {"unqualified", "time", "input", "gradient", "parameter", "nonfinite_final",
            "not_improved", "regression", "no_update"}

Qualified(m) == m.fn < Anomalies /\ m.fp < Normals

\* _failure_report
Failure == [status |-> "ROLLED_BACK", reason |-> "not_started", steps |-> 0,
            before |-> NoObjective, after |-> NoObjective,
            parent |-> "none", attempted |-> "none", effective |-> "none",
            guardBefore |-> NoMatrix, guardAfter |-> NoMatrix, guard |-> NoMatrix,
            late |-> FALSE, measured |-> FALSE]

Init == pc = "load" /\ late = FALSE /\ report = Failure /\ verdict = "none"

-----------------------------------------------------------------------------
(* The worker: child_ttt and run_tensor_episode *)

\* An exception inside the episode: the report keeps what was measured, and
\* the parent's answer is used.
RollBack(reason) ==
  /\ report' = [report EXCEPT !.status = "ROLLED_BACK", !.reason = reason, !.effective = report.parent,
                              !.guard = report.guardBefore, !.late = late]
  /\ pc' = "done"
  /\ UNCHANGED <<late, verdict>>

\* The pack or the guard images cannot be read before anything is measured.
LoadFails ==
  /\ pc = "load" /\ RollBack("input")

Load ==
  /\ pc = "load"
  /\ \E m \in Matrices :
       report' = [report EXCEPT !.guardBefore = m, !.guard = m, !.parent = "p", !.attempted = "p",
                                !.effective = "p", !.measured = TRUE]
  /\ pc' = "features"
  /\ UNCHANGED <<late, verdict>>

FeaturesFail ==
  /\ pc = "features" /\ RollBack("input")

Features ==
  /\ pc = "features" /\ pc' = "begin"
  /\ UNCHANGED <<late, report, verdict>>

\* The clock of the episode starts after the features are there.
Begin ==
  /\ pc = "begin"
  /\ IF late THEN RollBack("time")
     ELSE IF ~Qualified(report.guardBefore) THEN RollBack("unqualified")
     ELSE \/ RollBack("input")
          \/ pc' = "step" /\ UNCHANGED <<late, report, verdict>>

OptimizeStep ==
  /\ pc = "step" /\ ~late /\ report.steps < Budget
  /\ \E p \in {"p", "c"} :
       report' = [report EXCEPT !.steps = @ + 1, !.before = 2, !.attempted = p]
  /\ pc' \in {"step", "nonfinite"}
  /\ UNCHANGED <<late, verdict>>

StepFails ==
  \/ pc = "step" /\ late /\ RollBack("time")
  \/ pc = "step" /\ ~late /\ report.steps < Budget /\ RollBack("gradient")
  \/ pc = "nonfinite" /\ RollBack("parameter")

FinalObjective ==
  /\ pc = "step" /\ ~late /\ report.steps = Budget
  /\ \/ RollBack("nonfinite_final")
     \/ /\ \E o \in 1 .. 3 : report' = [report EXCEPT !.after = o]
        /\ pc' = "judge"
        /\ UNCHANGED <<late, verdict>>

JudgeObjective ==
  /\ pc = "judge"
  /\ IF late THEN RollBack("time")
     ELSE IF report.after >= report.before THEN RollBack("not_improved")
     ELSE \/ RollBack("input")
          \/ /\ \E m \in Matrices : report' = [report EXCEPT !.guardAfter = m]
             /\ pc' = "guard"
             /\ UNCHANGED <<late, verdict>>

NoWorse(after, before) == after.fp <= before.fp /\ after.fn <= before.fn /\ Qualified(after)

JudgeGuard ==
  /\ pc = "guard"
  /\ IF late THEN RollBack("time")
     ELSE IF ~NoWorse(report.guardAfter, report.guardBefore) THEN RollBack("regression")
     ELSE IF report.attempted = "p" THEN RollBack("no_update")
     ELSE /\ pc' = "close"
          /\ report' = [report EXCEPT !.status = "ACCEPTED_EPISODIC", !.reason = "none",
                                      !.guard = report.guardAfter]
          /\ UNCHANGED <<late, verdict>>

\* Digests are taken, then the elapsed time; the candidate scores the image.
CloseEpisode ==
  /\ pc = "close"
  /\ \/ /\ report' = [report EXCEPT !.effective = report.attempted, !.late = late]
        /\ pc' = "done" /\ UNCHANGED <<late, verdict>>
     \/ RollBack("input")

\* The clock of the episode: it starts with Begin.
Tick ==
  /\ pc \notin {"load", "features", "done"} /\ ~late
  /\ late' = TRUE
  /\ UNCHANGED <<pc, report, verdict>>

-----------------------------------------------------------------------------
(* The service: _validated_report *)

\* _matrix; the denominators are those of the labels.
MatrixValid(m) == m \in Matrices

\* Mutant of AcceptedValid: the guard in effect is not compared.
AcceptedOnStatus(r) ==
  /\ r.reason = "none" /\ r.steps = Budget /\ r.guardAfter # NoMatrix
  /\ r.attempted # r.parent /\ r.effective = r.attempted
  /\ Qualified(r.guardBefore) /\ NoWorse(r.guardAfter, r.guardBefore)
  /\ ~r.late /\ r.after # NoObjective /\ r.after < r.before

AcceptedValid(r) ==
  /\ r.reason = "none" /\ r.steps = Budget /\ r.guardAfter # NoMatrix
  /\ r.attempted # r.parent /\ r.effective = r.attempted /\ r.guard = r.guardAfter
  /\ Qualified(r.guardBefore) /\ NoWorse(r.guardAfter, r.guardBefore)
  /\ ~r.late /\ r.after # NoObjective /\ r.after < r.before

\* Mutant of RolledBackValid: a rolled back episode made no step.
RolledBackUntouched(r) ==
  /\ r.reason \in Reasons
  /\ r.effective = r.parent /\ r.guard = r.guardBefore
  /\ r.steps = 0

RolledBackValid(r) ==
  /\ r.reason \in Reasons
  /\ r.effective = r.parent /\ r.guard = r.guardBefore
  /\ r.reason = "not_improved" => r.after # NoObjective /\ r.after >= r.before
  /\ r.reason = "nonfinite_final" => r.after = NoObjective
  /\ (r.reason = "unqualified") <=> ~Qualified(r.guardBefore)
  /\ r.reason = "unqualified" => r.steps = 0 /\ r.guardAfter = NoMatrix /\ r.attempted = r.parent

Valid(r) ==
  /\ r.measured /\ r.parent # "none"
  /\ r.steps \in 0 .. Budget
  /\ IF r.steps = 0 THEN r.before = NoObjective /\ r.after = NoObjective
     ELSE r.before # NoObjective /\ (r.after # NoObjective => r.steps = Budget)
  /\ MatrixValid(r.guardBefore) /\ MatrixValid(r.guard)
  /\ r.guardAfter = NoMatrix \/ MatrixValid(r.guardAfter)
  /\ IF r.status = "ACCEPTED_EPISODIC" THEN AcceptedValid(r) ELSE RolledBackValid(r)

Judge ==
  /\ pc = "done" /\ verdict = "none"
  /\ verdict' = IF Valid(report) THEN "valid" ELSE "refused"
  /\ UNCHANGED <<pc, late, report>>

Next ==
  \/ LoadFails \/ Load \/ FeaturesFail \/ Features \/ Begin \/ OptimizeStep \/ StepFails
  \/ FinalObjective \/ JudgeObjective \/ JudgeGuard \/ CloseEpisode
  \/ Tick \/ Judge

Spec == Init /\ [][Next]_vars

\* Whatever an external worker may claim.
AnyReport ==
  [status : {"ACCEPTED_EPISODIC", "ROLLED_BACK"}, reason : {"none", "unqualified", "not_improved"},
   steps : 0 .. Budget, before : {NoObjective, 2}, after : {NoObjective, 1, 2},
   parent : {"p"}, attempted : {"p", "c"}, effective : {"p", "c"},
   guardBefore : Matrices, guardAfter : Matrices \cup {NoMatrix}, guard : Matrices,
   late : BOOLEAN, measured : {TRUE}]

InitAny == pc = "done" /\ late = FALSE /\ report \in AnyReport /\ verdict = "none"

SpecAny == InitAny /\ [][Judge]_vars

-----------------------------------------------------------------------------
(* Properties *)

\* Whatever the worker claims, a report the service keeps never puts a guard
\* result into effect that is worse than the parent's, and parameters other
\* than the parent's only after the whole budget and a lower objective.
EffectiveIsNoWorse ==
  verdict = "valid" =>
    /\ report.guard.fp <= report.guardBefore.fp /\ report.guard.fn <= report.guardBefore.fn
    /\ report.effective # report.parent =>
         report.steps = Budget /\ report.after < report.before /\ Qualified(report.guard)

\* The worker and the service agree: what the worker measures is kept, with two
\* exceptions the service refuses: an accepted episode whose elapsed time was
\* taken after the budget ended, and a parent that misses a whole class when
\* something else ended the episode before that was said.
MeasuredIsKeptButFor ==
  verdict = "refused" /\ report.measured =>
    \/ report.status = "ACCEPTED_EPISODIC" /\ report.late
    \/ ~Qualified(report.guardBefore) /\ report.reason # "unqualified"

\* A failed episode answers with the parent and records what was measured.
MeasuredIsKept == verdict = "refused" => ~report.measured
=============================================================================
