---------------------------- MODULE MCModelStores ----------------------------
(***************************************************************************)
(* Model checking instance of the stores behind training, inference and     *)
(* agent runs:                                                              *)
(* NormalityPacks and Learning over variables of their own, and             *)
(* NormalityFollowup, ApprovedExperience and AgentRuntime over x1 .. x12,   *)
(* all of them over any constants, which proofs use.                        *)
(* They do not interact here, so a behaviour is one of one of them, named   *)
(* by part.  Cycles of learning are interchangeable.                        *)
(***************************************************************************)
EXTENDS NormalityPacks, TLC

CONSTANTS
  Cycles, Inputs, Samples, Split, MaxRounds, MaxErrors, MaxChanges,   \* of Learning
  MaxNotes, TornWrites,                                               \* of NormalityFollowup
  Times, MaxRecords, MaxLines,                                        \* of ApprovedExperience
  Tools, Retries, MaxCalls, MaxLost                                   \* of AgentRuntime

VARIABLES
  source, gate, cycle, runs, holdouts, consumed, owner, exec, tested,   \* of Learning
  part, x1, x2, x3, x4, x5, x6, x7, x8, x9, x10, x11, x12

slots == <<x1, x2, x3, x4, x5, x6, x7, x8, x9, x10, x11, x12>>
learnVars == <<source, gate, cycle, runs, holdouts, consumed, owner, exec, tested>>
allVars == <<part, vars, learnVars, slots>>

Off == "off"
Symmetry == Permutations(Cycles)

Learn == INSTANCE Learning

ASSUME LearningAssumption == Learn!SplitsAreDisjoint /\ Learn!NoInput \notin Inputs

(* The inputs TLC uses: "two" adds training data to "one"; "four" holds out *)
(* what "one" trains on, with evaluation splits of its own.                 *)
SplitOf == [one  |-> [train |-> {"a"}, val |-> {"v"}, test |-> {"t"}],
            two  |-> [train |-> {"a", "b"}, val |-> {"v"}, test |-> {"t"}],
            four |-> [train |-> {"b"}, val |-> {"a"}, test |-> {"u"}]]

(* NormalityPacks: two packs that share a file, and an asset               *)
Contents == [p1 |-> {"index"}, p2 |-> {"weights", "index"}, a1 |-> {"image"}]

Followup == INSTANCE NormalityFollowup WITH
  intent <- x1, done <- x2, torn <- x3, record <- x4, call <- x5, reply <- x6, chain <- x7,
  notes <- x8, wanted <- x9, touched <- x10, crashes <- x11

(* A store of plain cards, and one of strict envelopes                      *)
Cards == INSTANCE ApprovedExperience WITH Strict <- FALSE, records <- x1, store <- x2, result <- x3
Envelopes == INSTANCE ApprovedExperience WITH Strict <- TRUE, records <- x1, store <- x2, result <- x3

Agent == INSTANCE AgentRuntime WITH
  at <- x1, status <- x2, outputs <- x3, events <- x4, transfers <- x5, selected <- x6, worker <- x7,
  calls <- x8, decision <- x9, stored <- x10, lost <- x11, task <- x12

\* Every step and every tool of a pass is one task.
ASSUME ToolsAssumption == IsFiniteSet(Tools) /\ Tools \cap Agent!Steps = {}
ASSUME BoundsAssumption ==
  TornWrites \in BOOLEAN /\ Times \subseteq Nat \ {0} /\ Retries \in Nat /\ MaxLost \in Nat

-----------------------------------------------------------------------------
SlotsInit ==
  \/ /\ part \in {"approval", "packs", "holdouts", "rounds", "cycle", "changing"}
     /\ x1 = Off /\ x2 = Off /\ x3 = Off /\ x4 = Off /\ x5 = Off /\ x6 = Off
     /\ x7 = Off /\ x8 = Off /\ x9 = Off /\ x10 = Off /\ x11 = Off /\ x12 = Off
  \/ part = "followup" /\ Followup!Init /\ x12 = Off
  \/ /\ \/ part = "cards" /\ Cards!Init
        \/ part = "envelopes" /\ Envelopes!Init
     /\ x4 = Off /\ x5 = Off /\ x6 = Off /\ x7 = Off /\ x8 = Off /\ x9 = Off
     /\ x10 = Off /\ x11 = Off /\ x12 = Off
  \/ part \in {"agent", "sink"} /\ Agent!Init

\* Bound: one pack, registered after the asset, that is decided about three times
\* around an inference, and one stop; or two packs that share a file and the
\* asset, registered in any overlap, with two stops.
PacksStep ==
  /\ part \in {"approval", "packs"} /\ Next /\ UNCHANGED <<part, learnVars, slots>>
  /\ part = "approval" =>
       /\ crashes' <= 1 /\ record'["p2"] = NewRecord
       /\ record'["a1"].status = "FROZEN" \/ record'["p1"] = NewRecord
  /\ part = "packs" => UNCHANGED <<runtime, backend, deciding, job>>

FollowupStep == part = "followup" /\ Followup!Next /\ UNCHANGED <<part, vars, learnVars, x12>>

\* Bounds of a part of Learning: how many cycles it has, which inputs they use,
\* and how many rounds, errors and changes there are.
Within(cycles, inputs, rounds, errors, changes) ==
  /\ changes = 0 => UNCHANGED <<source, gate>>
  /\ Cardinality({c \in Cycles : cycle'[c].status # "ABSENT" \/ exec'[c].op # "none"}) <= cycles
  /\ \A c \in Cycles :
       /\ exec'[c].input \in inputs \cup {"no_input"}
       /\ exec'[c].op = "round" /\ exec'[c].step = "prepared" => Learn!Round(c) < rounds
       /\ \A n \in DOMAIN runs'[c] :
            /\ runs'[c][n].pending + runs'[c][n].triaged <= errors
            /\ \A l \in runs'[c][n].linked : l.input \in inputs
  /\ \A i \in Inputs \ inputs : source'[i] /\ gate'[i]

LearnStep ==
  /\ part \in {"holdouts", "rounds", "cycle", "changing"}
  /\ Learn!Next /\ UNCHANGED <<part, vars, slots>>
  /\ \/ part = "holdouts" /\ Within(2, {"one", "four"}, 1, 0, 0)
     \/ part = "rounds" /\ Within(1, {"one", "four"}, 2, 0, 0)
     \/ part = "cycle" /\ Within(1, {"one", "two"}, 2, 1, 0)
     \/ part = "changing" /\ Within(1, {"one", "two"}, 2, 0, 1)

CardsStep ==
  part = "cards" /\ Cards!Next /\ UNCHANGED <<part, vars, learnVars, x4, x5, x6, x7, x8, x9, x10, x11, x12>>
EnvelopesStep ==
  part = "envelopes" /\ Envelopes!Next
    /\ UNCHANGED <<part, vars, learnVars, x4, x5, x6, x7, x8, x9, x10, x11, x12>>

\* Bound: two tools with a retry each and no lost event; or one that is called
\* once, with an event that the sink loses.  The memory store is damaged in the
\* initial pass at most.
AgentStep ==
  /\ part \in {"agent", "sink"} /\ Agent!Next /\ UNCHANGED <<part, vars, learnVars>>
  /\ x2'[<<"verification", "memory">>] # "WARNING"
  /\ part = "agent" => UNCHANGED x11
  /\ part = "sink" => x6' \subseteq {"quality"} /\ \A k \in Tools : x8'[k] <= 1

AllInit == Init /\ Learn!Init /\ SlotsInit

AllNext ==
  PacksStep \/ FollowupStep \/ LearnStep \/ CardsStep \/ EnvelopesStep \/ AgentStep

AllSpec == AllInit /\ [][AllNext]_allVars

-----------------------------------------------------------------------------
(* Properties: those of NormalityPacks under their own names, and what each *)
(* of the others promises, where it acts                                    *)

\* Learning: no sample is evaluated in two final tests, the rounds of a cycle
\* are evaluated on the same splits, a model was complete, eligible and free of
\* pending errors when a person approved it (the final test comes after that), a
\* round is compared with the champion of its cycle, and an execution owner names
\* work that is under way.
LearningIsFair ==
  /\ Learn!TypeOK
  /\ Learn!FinalTestOnce
  /\ Learn!ComparableRounds
  /\ Learn!ApprovedIsEarned
  /\ Learn!BaselineIsChampion
  /\ Learn!OwnerNamesWork

\* What is recorded is whole.  NormalityFollowup: a record names files that were
\* written as a whole.  ApprovedExperience: a card that is used went through
\* every stage before, and what is promoted can be taken back.  AgentRuntime:
\* the ledger holds each hand-off once, with the status its source ended with,
\* a pass is judged on every required tool, a completed table holds every
\* event, and a run that gets through its delivery and loses none completes.
RecordsAreWhole ==
  /\ part = "followup" => Followup!RecordedIsStored
  /\ part = "cards" => Cards!UsedIsEarned /\ Cards!PromotedCanBeRevoked
  /\ part = "envelopes" => Envelopes!UsedIsEarned
  /\ part \in {"agent", "sink"} =>
       /\ Agent!TypeOK /\ Agent!TransfersAreFinal /\ Agent!JudgedOnAllTools
       /\ Agent!CompletedIsWhole /\ Agent!UnlostCompletes

\* A refused finalist is replaced by the model before it and a closed cycle
\* stays closed (Learning); a POST refused after it has looked for its intent wrote
\* nothing (NormalityFollowup); a
\* revoked card is not used again (ApprovedExperience).
DecisionsStand ==
  [][/\ Learn!Replaces /\ Learn!KeepsClosed
     /\ part = "followup" => Followup!RefusesUnwritten
     /\ part = "cards" => Cards!UsesUnrevoked]_allVars
=============================================================================
