------------------------------ MODULE Learning ------------------------------
(***************************************************************************)
(* The learning service (learning_service.py): cycles of local training     *)
(* rounds, their review and selection by a person, and the one final test.  *)
(*                                                                          *)
(* The numerical work is outside every transaction.  A lock of the operating*)
(* system covers a round or a final test from its first read to its last    *)
(* write; a process that stops loses the lock and leaves the row RUNNING or *)
(* FINALIZING, with a row that names the owner.  Everything else is one     *)
(* transaction that compares the receipt of the cycle the caller has seen.  *)
(*                                                                          *)
(* Data that is abstracted: an input (a gated task with its groups and      *)
(* attestations) is its three splits; model n of a cycle is what round n    *)
(* trained, model 0 the untrained one; metrics are one verdict.  A replayed *)
(* request key returns the stored record and changes nothing; a refusal     *)
(* (no membership, stale receipt, lease not expired) is a step not taken.   *)
(***************************************************************************)
EXTENDS Naturals, Sequences, FiniteSets, SequencesExt

CONSTANTS
  Cycles, Inputs, Samples,
  Split,        \* Split[i] = [train |-> .., val |-> .., test |-> ..]
  MaxRounds,    \* request.max_rounds
  MaxErrors,    \* bound: samples of one validation that need a person
  MaxChanges    \* bound: sources revoked and gate results changed

\* What the constants are: the splits of an input share no sample.
SplitsAreDisjoint ==
  /\ \A i \in Inputs :
       /\ Split[i] \in [train : SUBSET Samples, val : SUBSET Samples, test : SUBSET Samples]
       /\ Split[i].train \cap (Split[i].val \cup Split[i].test) = {}
       /\ Split[i].val \cap Split[i].test = {}
  /\ MaxRounds \in Nat \ {0} /\ MaxErrors \in Nat /\ MaxChanges \in Nat

VARIABLES
  source,    \* the authorization of an input's source is active
  gate,      \* compute_preflight finds nothing else against the input
  cycle,     \* the cycle rows
  runs,      \* the run rows of each cycle, in the order of round_ids
  holdouts,  \* learning_holdouts
  consumed,  \* learning_consumed_tests
  owner,     \* learning_execution_owners
  exec,      \* who holds the execution lock of the cycle, and where it is
  tested     \* history: how often a sample was evaluated in a final test

vars == <<source, gate, cycle, runs, holdouts, consumed, owner, exec, tested>>

NoInput == "no_input"
NoOwner == [op |-> "none", run |-> 0]
Idle == [op |-> "none", step |-> "none", input |-> NoInput, base |-> 0,
         retry |-> FALSE, responds |-> FALSE, stale |-> FALSE]

Closed == {"FINALIZED", "FINALIZING", "HOLD_REQUIRES_NEW_PROTOCOL", "STOPPED"}
Statuses == Closed \cup {"ABSENT", "READY", "RUNNING", "AWAITING_REVIEW", "AWAITING_DATA"}

Round(c) == Len(runs[c])
Current(c) == Last(runs[c])
ModelsOf(c) == {0} \cup {n \in 1 .. Round(c) : runs[c][n].status = "COMPLETED"}
ParentOf(c, n) == IF n = 0 THEN 0 ELSE runs[c][n].base

\* compute_preflight: READY_FOR_OFFLINE_HANDOFF.
Ready(i) == source[i] /\ gate[i]

Members(i) == Split[i].train \cup Split[i].val \cup Split[i].test

Init ==
  /\ source = [i \in Inputs |-> TRUE]
  /\ gate = [i \in Inputs |-> TRUE]
  /\ cycle = [c \in Cycles |-> [status |-> "ABSENT", first |-> NoInput, input |-> NoInput,
                                champion |-> 0, approved |-> {0}, accepted |-> FALSE]]
  /\ runs = [c \in Cycles |-> <<>>]
  /\ holdouts = {}
  /\ consumed = {}
  /\ owner = [c \in Cycles |-> NoOwner]
  /\ exec = [c \in Cycles |-> Idle]
  /\ tested = [s \in Samples |-> 0]

\* _protect_holdouts: what it refuses and what it adds.
HoldoutsAllow(i) == Members(i) \cap consumed = {} /\ Split[i].train \cap holdouts = {}
HoldoutsWith(i) == holdouts \cup Split[i].val \cup Split[i].test

\* _update_cycle: the receipt changes, so whoever has read the row is stale.
Touch(c) == exec' = [exec EXCEPT ![c].stale = exec[c].op # "none"]

Free(c) == exec' = [exec EXCEPT ![c] = Idle]

-----------------------------------------------------------------------------
(* create_cycle *)

StartCreate(c, i) ==
  /\ cycle[c].status = "ABSENT" /\ exec[c] = Idle /\ Ready(i)
  /\ exec' = [exec EXCEPT ![c] = [Idle EXCEPT !.op = "create", !.step = "frozen", !.input = i]]
  /\ UNCHANGED <<source, gate, cycle, runs, holdouts, consumed, owner, tested>>

\* _still_fresh after the copy.
ConfirmCreate(c) ==
  /\ exec[c].op = "create" /\ exec[c].step = "frozen" /\ Ready(exec[c].input)
  /\ exec' = [exec EXCEPT ![c].step = "confirmed"]
  /\ UNCHANGED <<source, gate, cycle, runs, holdouts, consumed, owner, tested>>

CommitCreate(c) ==
  LET i == exec[c].input IN
  /\ exec[c].op = "create" /\ exec[c].step = "confirmed"
  /\ source[i] /\ HoldoutsAllow(i)
  /\ holdouts' = HoldoutsWith(i)
  /\ cycle' = [cycle EXCEPT ![c].status = "READY", ![c].first = i, ![c].input = i]
  /\ Free(c)
  /\ UNCHANGED <<source, gate, runs, consumed, owner, tested>>

-----------------------------------------------------------------------------
(* run_round *)

\* Nothing to train again: the previous run ended without a model and the
\* caller brings the same input.
IsRetry(c, i) ==
  /\ runs[c] # <<>>
  /\ Current(c).status \in {"FAILED", "CANCELLED", "INTERRUPTED"}
  /\ i = cycle[c].input

\* Mutant of InputAllowed: the evaluation splits may move.
InputFree(c, i) ==
  IF runs[c] = <<>> \/ IsRetry(c, i) THEN i = cycle[c].input
  ELSE Split[i].train # Split[cycle[c].input].train

\* The input of the first round or of a retry is the frozen one; any other
\* has new training data and the evaluation splits of the cycle.
InputAllowed(c, i) ==
  IF runs[c] = <<>> \/ IsRetry(c, i) THEN i = cycle[c].input
  ELSE /\ Split[i].val = Split[cycle[c].first].val
       /\ Split[i].test = Split[cycle[c].first].test
       /\ Split[i].train # Split[cycle[c].input].train

\* responds_to_feedback_ids is verified against the previous run, or repeated.
ResponseAllowed(c, i, responds) ==
  IF IsRetry(c, i) THEN responds = Current(c).responds
  ELSE responds => /\ runs[c] # <<>>
                   /\ \E l \in Current(c).linked : l.input = i /\ l.train

StartRound(c, i, responds) ==
  /\ exec[c] = Idle
  /\ cycle[c].status \in {"READY", "AWAITING_DATA"}
  /\ Round(c) < MaxRounds
  /\ Ready(i) /\ InputAllowed(c, i) /\ ResponseAllowed(c, i, responds)
  /\ exec' = [exec EXCEPT ![c] =
                [op |-> "round", step |-> "prepared", input |-> i, base |-> cycle[c].champion,
                 retry |-> IsRetry(c, i), responds |-> responds, stale |-> FALSE]]
  /\ UNCHANGED <<source, gate, cycle, runs, holdouts, consumed, owner, tested>>

Reservable(c) ==
  /\ exec[c].op = "round" /\ exec[c].step = "prepared" /\ ~exec[c].stale
  /\ source[exec[c].input] /\ HoldoutsAllow(exec[c].input)
  /\ cycle[c].status \notin Closed \cup {"RUNNING"}

\* Mutant of OwnerOf: the owner row names the operation only.
OwnerUnnamed(op, n) == [op |-> op, run |-> 0]

\* _record_execution_owner
OwnerOf(op, n) == [op |-> op, run |-> n]

Reserve(c) ==
  LET e == exec[c] IN
  /\ Reservable(c)
  /\ holdouts' = HoldoutsWith(e.input)
  /\ runs' = [runs EXCEPT ![c] = Append(@,
                [status |-> "RUNNING", input |-> e.input, base |-> e.base, responds |-> e.responds,
                 cancel |-> FALSE, eligible |-> FALSE, retained |-> FALSE,
                 pending |-> 0, triaged |-> 0, linked |-> {}, selection |-> "none"])]
  /\ cycle' = [cycle EXCEPT ![c].status = "RUNNING", ![c].input = e.input]
  /\ owner' = [owner EXCEPT ![c] = OwnerOf("train", Round(c) + 1)]
  /\ exec' = [exec EXCEPT ![c].step = "training"]
  /\ UNCHANGED <<source, gate, consumed, tested>>

\* train_model and evaluate_models, then the frozen copy and the source again.
Train(c) ==
  /\ exec[c].op = "round" /\ exec[c].step = "training"
  /\ ~Current(c).cancel /\ Ready(exec[c].input)
  /\ exec' = [exec EXCEPT ![c].step = "trained"]
  /\ UNCHANGED <<source, gate, cycle, runs, holdouts, consumed, owner, tested>>

MayPublish(c) ==
  /\ Current(c).status = "RUNNING" /\ ~Current(c).cancel
  /\ cycle[c].status = "RUNNING" /\ source[exec[c].input]

Publish(c, eligible, errors) ==
  /\ exec[c].op = "round" /\ exec[c].step = "trained" /\ MayPublish(c)
  /\ runs' = [runs EXCEPT ![c][Round(c)].status = "COMPLETED",
                          ![c][Round(c)].eligible = eligible,
                          ![c][Round(c)].pending = errors]
  /\ cycle' = [cycle EXCEPT ![c].status = "AWAITING_REVIEW"]
  /\ Free(c)
  /\ UNCHANGED <<source, gate, holdouts, consumed, owner, tested>>

\* except Exception: whatever was raised after the reservation.
FailRound(c) ==
  /\ exec[c].op = "round" /\ exec[c].step \in {"training", "trained"}
  /\ IF Current(c).status = "RUNNING"
     THEN /\ runs' = [runs EXCEPT ![c][Round(c)].status =
                        IF Current(c).cancel THEN "CANCELLED" ELSE "FAILED"]
          /\ cycle' = [cycle EXCEPT ![c].status = "AWAITING_DATA"]
     ELSE UNCHANGED <<runs, cycle>>
  /\ Free(c)
  /\ UNCHANGED <<source, gate, holdouts, consumed, owner, tested>>

\* An exception before the transaction that reserves: nothing was written.
Abandon(c) ==
  /\ exec[c].step \in {"frozen", "confirmed", "prepared"}
  /\ Free(c)
  /\ UNCHANGED <<source, gate, cycle, runs, holdouts, consumed, owner, tested>>

-----------------------------------------------------------------------------
(* The person's decisions, one transaction each *)

\* review_feedback: LABEL_ERROR and INSUFFICIENT_EVIDENCE close the cycle.
ReviewFeedback(c, protocol) ==
  /\ cycle[c].status = "AWAITING_REVIEW" /\ Current(c).pending > 0
  /\ runs' = [runs EXCEPT ![c][Round(c)].pending = @ - 1, ![c][Round(c)].triaged = @ + 1]
  /\ cycle' = IF protocol THEN [cycle EXCEPT ![c].status = "HOLD_REQUIRES_NEW_PROTOCOL"] ELSE cycle
  /\ Touch(c)
  /\ UNCHANGED <<source, gate, holdouts, consumed, owner, tested>>

\* evaluate_continual_retention: a receipt for a candidate and its parent.
Retain(c, n) ==
  /\ n \in ModelsOf(c) \ {0} /\ ~runs[c][n].retained
  /\ runs' = [runs EXCEPT ![c][n].retained = TRUE]
  /\ UNCHANGED <<source, gate, cycle, holdouts, consumed, owner, exec, tested>>

\* Mutant of Selectable: what is still to be looked at does not hold it up.
SelectableEarly(c) ==
  /\ cycle[c].status = "AWAITING_REVIEW" /\ Current(c).status = "COMPLETED"
  /\ Current(c).base = cycle[c].champion /\ source[Current(c).input]

Selectable(c) ==
  /\ cycle[c].status = "AWAITING_REVIEW" /\ Current(c).status = "COMPLETED"
  /\ Current(c).base = cycle[c].champion
  /\ Current(c).pending = 0
  /\ source[Current(c).input]

\* Mutant of SelectModel: a rejected candidate becomes the champion.
SelectModelUnapproved(c, action) ==
  /\ Selectable(c)
  /\ runs' = [runs EXCEPT ![c][Round(c)].selection = action]
  /\ cycle' = [cycle EXCEPT
                 ![c].status = "AWAITING_DATA",
                 ![c].champion = Round(c),
                 ![c].approved = IF action = "REJECT" THEN @ ELSE @ \cup {Round(c)}]
  /\ Touch(c)
  /\ UNCHANGED <<source, gate, holdouts, consumed, owner, tested>>

\* The gate and the artifacts are read before the transaction and may have
\* changed when it runs, so they are no guard of it; the source row is.
SelectModel(c, action) ==
  /\ Selectable(c)
  /\ action \in {"APPROVE_SANDBOX", "APPROVE_SANDBOX_CONTINUAL"} => Current(c).eligible
  /\ action = "APPROVE_SANDBOX_CONTINUAL" => Current(c).retained
  /\ runs' = [runs EXCEPT ![c][Round(c)].selection = action]
  /\ cycle' = [cycle EXCEPT
                 ![c].status = "AWAITING_DATA",
                 ![c].champion = IF action = "REJECT" THEN @ ELSE Round(c),
                 ![c].approved = IF action = "REJECT" THEN @ ELSE @ \cup {Round(c)}]
  /\ Touch(c)
  /\ UNCHANGED <<source, gate, holdouts, consumed, owner, tested>>

\* link_feedback: also of an earlier run and in a closed cycle, and again; the
\* gate of the new input is read before the transaction.
LinkFeedback(c, n, i, train) ==
  /\ cycle[c].status \notin {"ABSENT", "RUNNING", "FINALIZING"}
  /\ n \in 1 .. Round(c) /\ runs[c][n].triaged > 0
  /\ source[i] /\ i # runs[c][n].input
  /\ runs' = [runs EXCEPT ![c][n].linked = {[input |-> i, train |-> train]}]
  /\ Touch(c)
  /\ UNCHANGED <<source, gate, cycle, holdouts, consumed, owner, tested>>

\* Mutant of MayRollback: also while a candidate waits for its review.
MayRollbackOpen(c) == cycle[c].status \in {"AWAITING_DATA", "AWAITING_REVIEW"}

MayRollback(c) == cycle[c].status = "AWAITING_DATA"

Rollback(c, n) ==
  /\ MayRollback(c) /\ n \in cycle[c].approved
  /\ cycle' = [cycle EXCEPT ![c].champion = n]
  /\ Touch(c)
  /\ UNCHANGED <<source, gate, runs, holdouts, consumed, owner, tested>>

Cancel(c) ==
  /\ cycle[c].status \notin Closed \cup {"ABSENT"}
  /\ IF cycle[c].status = "RUNNING"
     THEN /\ runs' = [runs EXCEPT ![c][Round(c)].cancel = TRUE]
          /\ UNCHANGED cycle
     ELSE /\ cycle' = [cycle EXCEPT ![c].status = "STOPPED"]
          /\ UNCHANGED runs
  /\ Touch(c)
  /\ UNCHANGED <<source, gate, holdouts, consumed, owner, tested>>

-----------------------------------------------------------------------------
(* finalize *)

StartFinalize(c) ==
  /\ exec[c] = Idle /\ cycle[c].status = "AWAITING_DATA" /\ Ready(cycle[c].input)
  /\ exec' = [exec EXCEPT ![c] = [Idle EXCEPT !.op = "finalize", !.step = "prepared",
                                              !.input = cycle[c].input, !.base = cycle[c].champion]]
  /\ UNCHANGED <<source, gate, cycle, runs, holdouts, consumed, owner, tested>>

\* Mutant of MayConsume: the consumed tests are not looked at.
MayConsumeAny(c) ==
  /\ exec[c].op = "finalize" /\ exec[c].step = "prepared" /\ ~exec[c].stale
  /\ source[exec[c].input]

MayConsume(c) ==
  /\ exec[c].op = "finalize" /\ exec[c].step = "prepared" /\ ~exec[c].stale
  /\ source[exec[c].input] /\ HoldoutsAllow(exec[c].input)

ConsumeTest(c) ==
  /\ MayConsume(c)
  /\ holdouts' = HoldoutsWith(exec[c].input)
  /\ consumed' = consumed \cup Split[exec[c].input].test
  /\ owner' = [owner EXCEPT ![c] = OwnerOf("finalize", 0)]
  /\ cycle' = [cycle EXCEPT ![c].status = "FINALIZING"]
  /\ exec' = [exec EXCEPT ![c].step = "testing"]
  /\ UNCHANGED <<source, gate, runs, tested>>

\* evaluate_models on the test split; the sources are read again after it.
EvaluateTest(c) ==
  /\ exec[c].op = "finalize" /\ exec[c].step = "testing"
  /\ tested' = [s \in Samples |-> tested[s] + IF s \in Split[exec[c].input].test THEN 1 ELSE 0]
  /\ exec' = [exec EXCEPT ![c].step = "tested"]
  /\ UNCHANGED <<source, gate, cycle, runs, holdouts, consumed, owner>>

\* Mutant of ChampionAfter: the candidate stays whatever the test says.
ChampionKept(c, eligible) == exec[c].base

\* A candidate the final test refuses gives way to its parent.
ChampionAfter(c, eligible) == IF eligible THEN exec[c].base ELSE ParentOf(c, exec[c].base)

Seal(c, eligible) ==
  /\ exec[c].op = "finalize" /\ exec[c].step = "tested"
  /\ cycle[c].status = "FINALIZING" /\ source[exec[c].input]
  /\ cycle' = [cycle EXCEPT ![c].status = "FINALIZED", ![c].accepted = eligible,
                            ![c].champion = ChampionAfter(c, eligible)]
  /\ Free(c)
  /\ UNCHANGED <<source, gate, runs, holdouts, consumed, owner, tested>>

FailFinalize(c) ==
  /\ exec[c].op = "finalize" /\ exec[c].step \in {"testing", "tested"}
  /\ cycle' = [cycle EXCEPT ![c].status = "STOPPED"]
  /\ Free(c)
  /\ UNCHANGED <<source, gate, runs, holdouts, consumed, owner, tested>>

-----------------------------------------------------------------------------
(* recover *)

\* _require_execution_owner
OwnerMatches(c) ==
  owner[c] = IF cycle[c].status = "RUNNING" THEN [op |-> "train", run |-> Round(c)]
             ELSE [op |-> "finalize", run |-> 0]

\* Mutant of RecoveredStatus: a final test that was cut off may be repeated.
RecoveredOpen(s) == "AWAITING_DATA"

RecoveredStatus(s) == IF s = "FINALIZING" THEN "STOPPED" ELSE "AWAITING_DATA"

\* Mutant of Recover: only a round is recovered.
RecoverRunning(c) ==
  /\ exec[c] = Idle /\ cycle[c].status = "RUNNING" /\ OwnerMatches(c)
  /\ runs' = [runs EXCEPT ![c][Round(c)].status = "INTERRUPTED", ![c][Round(c)].cancel = TRUE]
  /\ cycle' = [cycle EXCEPT ![c].status = RecoveredStatus(@)]
  /\ UNCHANGED <<source, gate, holdouts, consumed, owner, exec, tested>>

Recover(c) ==
  /\ exec[c] = Idle /\ cycle[c].status \in {"RUNNING", "FINALIZING"} /\ OwnerMatches(c)
  /\ runs' = IF cycle[c].status = "FINALIZING" THEN runs
             ELSE [runs EXCEPT ![c][Round(c)].status = "INTERRUPTED", ![c][Round(c)].cancel = TRUE]
  /\ cycle' = [cycle EXCEPT ![c].status = RecoveredStatus(@)]
  /\ UNCHANGED <<source, gate, holdouts, consumed, owner, exec, tested>>

-----------------------------------------------------------------------------
(* Environment: a process stops, a source is revoked, a gate result changes. *)

Crash(c) ==
  /\ exec[c] # Idle
  /\ Free(c)
  /\ UNCHANGED <<source, gate, cycle, runs, holdouts, consumed, owner, tested>>

Changes == Cardinality({i \in Inputs : ~source[i]}) + Cardinality({i \in Inputs : ~gate[i]})

RevokeSource(i) ==
  /\ source[i] /\ Changes < MaxChanges
  /\ source' = [source EXCEPT ![i] = FALSE]
  /\ UNCHANGED <<gate, cycle, runs, holdouts, consumed, owner, exec, tested>>

GateChanges(i) ==
  /\ gate[i] /\ Changes < MaxChanges
  /\ gate' = [gate EXCEPT ![i] = FALSE]
  /\ UNCHANGED <<source, cycle, runs, holdouts, consumed, owner, exec, tested>>

Actions == {"APPROVE_SANDBOX", "APPROVE_SANDBOX_CONTINUAL", "REJECT"}

Execute(c) ==
  \/ ConfirmCreate(c) \/ CommitCreate(c) \/ Reserve(c) \/ Train(c)
  \/ \E e \in BOOLEAN, k \in 0 .. MaxErrors : Publish(c, e, k)
  \/ FailRound(c) \/ Abandon(c)
  \/ ConsumeTest(c) \/ EvaluateTest(c)
  \/ \E e \in BOOLEAN : Seal(c, e)
  \/ FailFinalize(c)

Decide(c) ==
  \/ \E i \in Inputs : StartCreate(c, i)
  \/ \E i \in Inputs, r \in BOOLEAN : StartRound(c, i, r)
  \/ \E p \in BOOLEAN : ReviewFeedback(c, p)
  \/ \E n \in 1 .. MaxRounds : Retain(c, n)
  \/ \E a \in Actions : SelectModel(c, a)
  \/ \E n \in 1 .. MaxRounds, i \in Inputs, t \in BOOLEAN : LinkFeedback(c, n, i, t)
  \/ \E n \in 0 .. MaxRounds : Rollback(c, n)
  \/ Cancel(c)
  \/ StartFinalize(c)

Next ==
  \/ \E c \in Cycles : Execute(c) \/ Decide(c) \/ Recover(c) \/ Crash(c)
  \/ \E i \in Inputs : RevokeSource(i) \/ GateChanges(i)

Spec == Init /\ [][Next]_vars

\* A running executor goes on, and a person calls recover for a cycle that is
\* left behind (recover is the only operation that may touch it).
Fairness == \A c \in Cycles : WF_vars(Execute(c)) /\ WF_vars(Recover(c))

FairSpec == Spec /\ Fairness

-----------------------------------------------------------------------------
(* Properties *)

\* Type correctness of the rows, the lock and the tables.
TypeOK ==
  /\ source \in [Inputs -> BOOLEAN] /\ gate \in [Inputs -> BOOLEAN]
  /\ \A c \in Cycles :
       /\ cycle[c].status \in Statuses
       /\ cycle[c].first \in Inputs \cup {NoInput} /\ cycle[c].input \in Inputs \cup {NoInput}
       /\ cycle[c].approved \subseteq ModelsOf(c) /\ cycle[c].champion \in cycle[c].approved
       /\ Round(c) <= MaxRounds
       /\ owner[c].op \in {"none", "train", "finalize"} /\ owner[c].run \in 0 .. MaxRounds
  /\ holdouts \subseteq Samples /\ consumed \subseteq holdouts

\* _protect_holdouts and the consumed tests: over all cycles of the project,
\* and whatever is cut off and recovered, a sample is used in one final test.
FinalTestOnce == \A s \in Samples : tested[s] <= 1

\* FROZEN_EVALUATION_CHANGED: the candidates of a cycle are compared on one
\* validation set and one test set, and none was trained on either.
ComparableRounds ==
  \A c \in Cycles : \A n \in 1 .. Round(c) :
    LET s == Split[runs[c][n].input] f == Split[cycle[c].first]
    IN /\ s.val = f.val /\ s.test = f.test
       /\ s.train \cap (f.val \cup f.test) = {}

\* select_model: an approved model was evaluated as eligible, nobody had asked
\* to cancel its run, everything its evaluation raised was triaged, and it was
\* trained from a model that was itself approved.  The final test comes later: a
\* model it refuses is replaced as champion and stays approved.
ApprovedIsEarned ==
  \A c \in Cycles : \A n \in cycle[c].approved \ {0} :
    LET r == runs[c][n]
    IN /\ r.status = "COMPLETED" /\ r.eligible /\ ~r.cancel /\ r.pending = 0
       /\ r.base \in cycle[c].approved /\ r.base < n

\* CANDIDATE_BASELINE_CHANGED cannot be met: while a round runs or waits for
\* review, the champion is the model it was trained from.
BaselineIsChampion ==
  \A c \in Cycles : cycle[c].status \in {"RUNNING", "AWAITING_REVIEW"} =>
    Current(c).base = cycle[c].champion

\* _require_execution_owner: work that was left behind always has an owner row
\* that names it, so recover is never refused for an invalid owner.
OwnerNamesWork ==
  \A c \in Cycles : cycle[c].status \in {"RUNNING", "FINALIZING"} => OwnerMatches(c)

\* finalize: a candidate the final test refused is not the champion of the
\* sealed cycle, unless it is the untrained model.
Replaces ==
  \A c \in Cycles :
    cycle[c].status = "FINALIZING" /\ cycle'[c].status = "FINALIZED" =>
      \/ cycle'[c].accepted /\ cycle'[c].champion = cycle[c].champion
      \/ /\ ~cycle'[c].accepted
         /\ cycle'[c].champion < cycle[c].champion \/ cycle[c].champion = 0
RefusedIsReplaced == [][Replaces]_vars

\* CYCLE_CLOSED: a closed cycle starts no round, changes no champion and does
\* not open again; FINALIZING only becomes FINALIZED or STOPPED.
KeepsClosed ==
  \A c \in Cycles : cycle[c].status \in Closed =>
    /\ cycle'[c].status \in Closed /\ Round(c)' = Round(c)
    /\ cycle'[c].status = cycle[c].status \/ cycle[c].status = "FINALIZING"
ClosedStaysClosed == [][KeepsClosed]_vars

\* recover: work that holds a cycle ends, also when its process stops.
WorkEnds ==
  \A c \in Cycles : cycle[c].status \in {"RUNNING", "FINALIZING"} ~>
                    cycle[c].status \notin {"RUNNING", "FINALIZING"}
=============================================================================
