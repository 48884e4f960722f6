----------------------------- MODULE MCProgress -----------------------------
(***************************************************************************)
(* Model checking instance for what is promised to come to an end: a CAPA   *)
(* case (Capa), alone or beside another of its parent, and, over variables  *)
(* of their own, a cycle of Learning, a run of VisionTraining and an intent *)
(* of NormalityFollowup.  A behaviour moves one of them, named by part; the *)
(* others stay where they start, where none of their fair actions is        *)
(* enabled.                                                                 *)
(***************************************************************************)
EXTENDS Capa

VARIABLES
  part, l1, l2, l3, l4, l5, l6, l7, l8, l9, v1, v2, v3, v4, v5, v6, v7, v8, v9, v10,
  f1, f2, f3, f4, f5, f6, f7, f8, f9, f10, f11

cycleVars == <<l1, l2, l3, l4, l5, l6, l7, l8, l9>>
visionVars == <<v1, v2, v3, v4, v5, v6, v7, v8, v9, v10>>
followupVars == <<f1, f2, f3, f4, f5, f6, f7, f8, f9, f10, f11>>
allVars == <<part, vars, cycleVars, visionVars, followupVars>>

(* Learning: one cycle of one round; input "two" adds training data to "one" *)
SplitOf == [one |-> [train |-> {"a"}, val |-> {"v"}, test |-> {"t"}],
            two |-> [train |-> {"a", "b"}, val |-> {"v"}, test |-> {"t"}]]

Cycle == INSTANCE Learning WITH
  Cycles <- {"c"}, Inputs <- {"one", "two"}, Samples <- {"a", "b", "v", "t"}, Split <- SplitOf,
  MaxRounds <- 1, MaxErrors <- 1, MaxChanges <- 1,
  source <- l1, gate <- l2, cycle <- l3, runs <- l4, holdouts <- l5, consumed <- l6, owner <- l7,
  exec <- l8, tested <- l9

(* VisionTraining: a run on a dataset whose sources move once               *)
DatasetOf ==
  [one |-> [samples |-> {[pixel |-> "a", group |-> "ga", split |-> "train"],
                         [pixel |-> "v", group |-> "gv", split |-> "val"],
                         [pixel |-> "t", group |-> "gt", split |-> "test"]},
            content |-> 1, version |-> "p1", task |-> "t1"]]

Vision == INSTANCE VisionTraining WITH
  Runs <- {"r1"}, Datasets <- DOMAIN DatasetOf, Data <- DatasetOf, MaxMoves <- 1, MaxCrashes <- 1,
  fresh <- v1, dataset <- v2, members <- v3, run <- v4, step <- v5, lock <- v6, feedback <- v7,
  picking <- v8, member <- v9, crashes <- v10

(* NormalityFollowup: a process stops between two writes, not inside one    *)
Followup == INSTANCE NormalityFollowup WITH
  MaxNotes <- 1, MaxCrashes <- 1, TornWrites <- FALSE,
  intent <- f1, done <- f2, torn <- f3, record <- f4, call <- f5, reply <- f6, chain <- f7,
  notes <- f8, wanted <- f9, touched <- f10, crashes <- f11

-----------------------------------------------------------------------------
AllInit ==
  /\ Init /\ Cycle!Init /\ Vision!Init /\ Followup!Init
  /\ part \in {"case", "siblings", "cycle", "vision", "followup"}

\* The case that is selected where only one is, and the thread that serves it
\* where each case has one.
Alone == CHOOSE c \in Cases : TRUE
First == CHOOSE p \in Procs : TRUE

\* Bounds: the sources stay, without which there is nothing to hope for.  One
\* case goes through rival requests, failed attempts and a crash, or, with one
\* request at a time and no crash, through plans of children an operator cancels;
\* or two cases of the parent are served side by side, each by a thread of its
\* own: no child fails, and a request dies between its execution receipt and its
\* recovery receipt, if at all.
OneCase ==
  /\ selection' \subseteq {Alone}
  /\ \A c \in Cases, a \in Attempts : child'[c][a] = "CANCELLED" =>
       crashes' = 0 /\ \A p, q \in Procs : p # q => "idle" \in {pc'[p], pc'[q]}

SideBySide ==
  /\ \A p \in Procs : on'[p] # None => (on'[p] = Alone <=> p = First)
  /\ \A p \in Procs : Crash(p) => pc[p] \in {"close", "recovery"}
  /\ \A c \in Cases, a \in Attempts : child'[c][a] \notin Ended

CaseStep ==
  /\ part \in {"case", "siblings"} /\ Next /\ UNCHANGED <<part, parent>>
  /\ \A c \in Cases : granted'[c] # "REVOKED"
  /\ IF part = "case" THEN OneCase ELSE SideBySide
  /\ UNCHANGED <<cycleVars, visionVars, followupVars>>
CycleStep == part = "cycle" /\ Cycle!Next /\ UNCHANGED <<part, vars, visionVars, followupVars>>
VisionStep == part = "vision" /\ Vision!Next /\ UNCHANGED <<part, vars, cycleVars, followupVars>>
FollowupStep == part = "followup" /\ Followup!Next /\ UNCHANGED <<part, vars, cycleVars, visionVars>>

AllNext == CaseStep \/ CycleStep \/ VisionStep \/ FollowupStep

AllSpec ==
  /\ AllInit /\ [][AllNext]_allVars
  /\ Fairness /\ Cycle!Fairness /\ Vision!Fairness /\ Followup!Fairness

-----------------------------------------------------------------------------
(* Properties: those of Capa under their own names, and the others           *)

\* A round or a final test ends (Learning), an active training run ends
\* (VisionTraining), and an intent is resolved by repeating its key
\* (NormalityFollowup).
WorkReachesAnEnd == Cycle!WorkEnds /\ Vision!RunEnds /\ Followup!IntentResolves
=============================================================================
