-------------------------- MODULE IncidentCommands --------------------------
(***************************************************************************)
(* The incident command protocol of ProductService (product_service.py)    *)
(* over TaskStore.incident_commands (task_store.py): a command is admitted *)
(* by a write-once file, claimed in SQLite, executed into immutable files, *)
(* and closed by a write-once terminal file and then in SQLite.  Files and *)
(* rows are two stores, updated one after the other by request threads of  *)
(* several processes, any of which can die in between.                     *)
(*                                                                         *)
(* One incident case of one task is modelled.  Its files are immutable, so *)
(* it has one digest; a command either binds that digest or another one    *)
(* (Stale).  A command id is the idempotency key: the binding (actor and   *)
(* request) it is used with is a separate value.                           *)
(***************************************************************************)
EXTENDS FiniteSets

CONSTANTS
  Creates, Decides, Resumes,  \* command ids of the three operations
  Stale,                      \* those that bind a digest the case has not
  Bindings,                   \* actor and request a key is used with
  Procs,                      \* request threads
  Hosts, Host,                \* Python processes, and where each thread runs
  None

Commands == Creates \cup Decides \cup Resumes

ASSUME CommandsAssumption ==
  /\ Creates \cap Decides = {} /\ Creates \cap Resumes = {}
  /\ Decides \cap Resumes = {}
  /\ Stale \subseteq Decides \cup Resumes
  /\ Host \in [Procs -> Hosts]
  /\ None \notin Commands \cup Bindings

VARIABLES
  admission,  \* admission.json of each command: the binding it was used with
  terminal,   \* terminal.json of each command
  row,        \* incident_commands.status
  begun,      \* commands that have written their first business file
  done,       \* commands that have written their last one
  pc,         \* what each thread does next
  cmd, bind,  \* the command and binding it serves
  fresh,      \* admitted_now: this thread created admission.json
  saw         \* the terminal it read before the claim

files == <<admission, terminal, begun, done>>
mine == <<cmd, bind, fresh, saw>>
vars == <<files, row, pc, mine>>

Outcomes == {"COMPLETED", "REJECTED"}
RowStates == {"NONE", "EXECUTING", "UNCERTAIN"} \cup Outcomes
\* The states of a row that occupy its effect scope.
Occupying == {"EXECUTING", "COMPLETED", "UNCERTAIN"}
Effects == {"effect", "effect_last", "complete"}
PCs == {"idle", "admit", "read", "claim", "seal", "sync", "mark", "work",
        "reject", "unsure", "close"} \cup Effects

TypeOK ==
  /\ admission \in [Commands -> Bindings \cup {None}]
  /\ terminal \in [Commands -> {"NONE"} \cup Outcomes]
  /\ row \in [Commands -> RowStates]
  /\ begun \in SUBSET Commands
  /\ done \in SUBSET Commands
  /\ pc \in [Procs -> PCs]
  /\ cmd \in [Procs -> Commands \cup {None}]
  /\ bind \in [Procs -> Bindings \cup {None}]
  /\ fresh \in [Procs -> BOOLEAN]
  /\ saw \in [Procs -> {"NONE"} \cup Outcomes]

Init ==
  /\ admission = [c \in Commands |-> None]
  /\ terminal = [c \in Commands |-> "NONE"]
  /\ row = [c \in Commands |-> "NONE"]
  /\ begun = {} /\ done = {}
  /\ pc = [p \in Procs |-> "idle"]
  /\ cmd = [p \in Procs |-> None]
  /\ bind = [p \in Procs |-> None]
  /\ fresh = [p \in Procs |-> FALSE]
  /\ saw = [p \in Procs |-> "NONE"]

\* get_industrial_incident_case returns the case: every file of its creation
\* is there, the audit anchor last.
CaseReadable == done \cap Creates # {}

\* list_industrial_incident_decisions is not empty.
Decided == done \cap Decides # {}

-----------------------------------------------------------------------------
Goto(p, label) == pc' = [pc EXCEPT ![p] = label]

\* The request ends, with an answer or with an exception.
Answer(p) ==
  /\ Goto(p, "idle")
  /\ cmd' = [cmd EXCEPT ![p] = None]
  /\ bind' = [bind EXCEPT ![p] = None]
  /\ fresh' = [fresh EXCEPT ![p] = FALSE]
  /\ saw' = [saw EXCEPT ![p] = "NONE"]

\* _incident_case_lock: decisions and resumptions of one case take turns within
\* one Python process.
HoldsCaseLock(q) == pc[q] # "idle" /\ cmd[q] \notin Creates
CaseLockFree(p) ==
  \A q \in Procs : Host[q] = Host[p] => ~HoldsCaseLock(q)

\* A request, first or retried, for command c with binding b.  A resumption
\* reads its parent case before it is admitted.
Request(p, c, b) ==
  /\ pc[p] = "idle"
  /\ c \notin Creates => CaseLockFree(p)
  /\ c \in Resumes => CaseReadable
  /\ Goto(p, "admit")
  /\ cmd' = [cmd EXCEPT ![p] = c]
  /\ bind' = [bind EXCEPT ![p] = b]
  /\ UNCHANGED <<files, row, fresh, saw>>

\* _admit_incident_command: the write-once admission file.  A key used with
\* another binding is refused.
Admit(p) ==
  LET c == cmd[p] IN
  /\ pc[p] = "admit"
  /\ \/ /\ admission[c] = None
        /\ admission' = [admission EXCEPT ![c] = bind[p]]
        /\ fresh' = [fresh EXCEPT ![p] = TRUE]
        /\ Goto(p, "read")
        /\ UNCHANGED <<cmd, bind, saw>>
     \/ /\ admission[c] = bind[p]
        /\ Goto(p, "read")
        /\ UNCHANGED <<admission, mine>>
     \/ /\ admission[c] \notin {None, bind[p]}
        /\ Answer(p)
        /\ UNCHANGED admission
  /\ UNCHANGED <<terminal, begun, done, row>>

\* _read_incident_command_terminal
ReadTerminal(p) ==
  /\ pc[p] = "read"
  /\ saw' = [saw EXCEPT ![p] = terminal[cmd[p]]]
  /\ Goto(p, "claim")
  /\ UNCHANGED <<files, row, cmd, bind, fresh>>

\* The effect scope of c: the same operation on the same digest.
Scope(c) ==
  IF c \in Creates THEN {c}
  ELSE {d \in Commands : /\ d \in Decides <=> c \in Decides
                         /\ d \in Resumes <=> c \in Resumes
                         /\ d \in Stale <=> c \in Stale}

\* Mutants of ScopeOccupied: an unknown, or a completed, outcome frees the scope.
UncertainFrees(c) ==
  \E d \in Scope(c) \ {c} : row[d] \in {"EXECUTING", "COMPLETED"}
CompletedFrees(c) ==
  \E d \in Scope(c) \ {c} : row[d] \in {"EXECUTING", "UNCERTAIN"}

ScopeOccupied(c) == \E d \in Scope(c) \ {c} : row[d] \in Occupying

\* Mutant of AfterClaim: a retry takes over what it finds unfinished.
TakesOver(p, claimed) ==
  /\ Goto(p, IF saw[p] # "NONE" THEN "sync" ELSE "work")
  /\ UNCHANGED mine

\* Where the admission goes after the claim.
AfterClaim(p, claimed) ==
  IF saw[p] # "NONE" THEN Goto(p, "sync") /\ UNCHANGED mine
  ELSE IF fresh[p] /\ claimed THEN Goto(p, "work") /\ UNCHANGED mine
  ELSE IF claimed THEN Goto(p, "mark") /\ UNCHANGED mine
  ELSE Answer(p)

\* claim_incident_command, one transaction.
Claim(p) ==
  LET c == cmd[p] IN
  /\ pc[p] = "claim"
  /\ \/ /\ row[c] # "NONE"
        /\ AfterClaim(p, FALSE)
        /\ UNCHANGED row
     \/ /\ row[c] = "NONE" /\ ~ScopeOccupied(c)
        /\ row' = [row EXCEPT ![c] = "EXECUTING"]
        /\ AfterClaim(p, TRUE)
     \/ /\ row[c] = "NONE" /\ ScopeOccupied(c)
        /\ IF fresh[p] /\ saw[p] = "NONE"
           THEN Goto(p, "seal") /\ UNCHANGED mine
           ELSE Answer(p)
        /\ UNCHANGED row
  /\ UNCHANGED files

\* The scope was occupied: a REJECTED receipt without touching SQLite.
SealRejected(p) ==
  /\ pc[p] = "seal"
  /\ terminal' = [terminal EXCEPT ![cmd[p]] = "REJECTED"]
  /\ Answer(p)
  /\ UNCHANGED <<admission, begun, done, row>>

\* finish_incident_command: an executing row takes the outcome; any other row
\* keeps its own (a different outcome raises IncidentCommandStateConflict).
FinishRow(c, outcome) ==
  row' = IF row[c] = "EXECUTING" THEN [row EXCEPT ![c] = outcome] ELSE row

\* Mutant of MarkUncertain: a status the schema does not know.
MarkUnknown(c) == FinishRow(c, "UNKNOWN")

\* mark_incident_command_uncertain
MarkUncertain(c) == FinishRow(c, "UNCERTAIN")

\* A retry that found a terminal receipt brings the row up to date.
SyncRow(p) ==
  /\ pc[p] = "sync"
  /\ FinishRow(cmd[p], saw[p])
  /\ Answer(p)
  /\ UNCHANGED files

\* A retry that claimed a command admitted by somebody else.
MarkOrphan(p) ==
  /\ pc[p] = "mark"
  /\ MarkUncertain(cmd[p])
  /\ Answer(p)
  /\ UNCHANGED files

-----------------------------------------------------------------------------
\* Evaluation before the first write.  It may always refuse (evidence, plan,
\* memory, planner); it must refuse what binds another digest, what has no
\* readable case, and a resumption without a decision.  The branch for a
\* decision recorded by another command is not reachable: NoRival below.
Admissible(c) ==
  /\ c \notin Stale
  /\ c \notin Creates => CaseReadable
  /\ c \in Resumes => Decided

Refuse(p) ==
  /\ pc[p] = "work"
  /\ Goto(p, "reject")
  /\ UNCHANGED <<files, row, mine>>

Proceed(p) ==
  /\ pc[p] = "work"
  /\ Admissible(cmd[p])
  /\ Goto(p, "effect")
  /\ UNCHANGED <<files, row, mine>>

\* _persist_rejected_incident_command: the terminal file, then the row.
WriteRejected(p) ==
  /\ pc[p] = "reject"
  /\ terminal' = [terminal EXCEPT ![cmd[p]] = "REJECTED"]
  /\ Goto(p, "close")
  /\ UNCHANGED <<admission, begun, done, row, mine>>

\* The first business file: case.json, the child's case.json, or the selected
\* CAPA case.
FirstEffect(p) ==
  /\ pc[p] = "effect"
  /\ begun' = begun \cup {cmd[p]}
  /\ Goto(p, "effect_last")
  /\ UNCHANGED <<admission, terminal, done, row, mine>>

\* The last one: the audit anchor, resume_consumption.json, or the decision.
LastEffect(p) ==
  /\ pc[p] = "effect_last"
  /\ done' = done \cup {cmd[p]}
  /\ Goto(p, "complete")
  /\ UNCHANGED <<admission, terminal, begun, row, mine>>

\* _persist_incident_command_terminal, its file.
WriteCompleted(p) ==
  /\ pc[p] = "complete"
  /\ terminal' = [terminal EXCEPT ![cmd[p]] = "COMPLETED"]
  /\ Goto(p, "close")
  /\ UNCHANGED <<admission, begun, done, row, mine>>

\* _persist_incident_command_terminal, its row.
CloseRow(p) ==
  /\ pc[p] = "close"
  /\ FinishRow(cmd[p], terminal[cmd[p]])
  /\ Answer(p)
  /\ UNCHANGED files

\* An exception after the first write began: an immutable artifact differs, a
\* file cannot be written or read back.
EffectFails(p) ==
  /\ pc[p] \in Effects
  /\ Goto(p, "unsure")
  /\ UNCHANGED <<files, row, mine>>

\* Mutants of MarkUnsure: a failed effect is reported, or recorded, as a
\* rejection.
UnsureIsRejected(p) ==
  /\ pc[p] = "unsure"
  /\ terminal' = [terminal EXCEPT ![cmd[p]] = "REJECTED"]
  /\ Answer(p)
  /\ UNCHANGED <<admission, begun, done, row>>
UnsureReleases(p) ==
  /\ pc[p] = "unsure"
  /\ FinishRow(cmd[p], "REJECTED")
  /\ Answer(p)
  /\ UNCHANGED files

\* _mark_incident_command_uncertain.  (A terminal file would stop it, and there
\* is none yet: a failed CloseRow is StoreFails.)
MarkUnsure(p) ==
  /\ pc[p] = "unsure"
  /\ MarkUncertain(cmd[p])
  /\ Answer(p)
  /\ UNCHANGED files

\* The database or a file is not available outside the effect, or an exception
\* that nobody handles leaves the evaluation: the request ends there.
StoreFails(p) ==
  /\ pc[p] \notin {"idle"} \cup Effects
  /\ Answer(p)
  /\ UNCHANGED <<files, row>>

\* A Python process dies with all its threads.
Crash(h) ==
  LET gone == {p \in Procs : Host[p] = h} IN
  /\ \E p \in gone : pc[p] # "idle"
  /\ pc' = [p \in Procs |-> IF p \in gone THEN "idle" ELSE pc[p]]
  /\ cmd' = [p \in Procs |-> IF p \in gone THEN None ELSE cmd[p]]
  /\ bind' = [p \in Procs |-> IF p \in gone THEN None ELSE bind[p]]
  /\ fresh' = [p \in Procs |-> IF p \in gone THEN FALSE ELSE fresh[p]]
  /\ saw' = [p \in Procs |-> IF p \in gone THEN "NONE" ELSE saw[p]]
  /\ UNCHANGED <<files, row>>

Step(p) ==
  \/ Admit(p) \/ ReadTerminal(p) \/ Claim(p) \/ SealRejected(p)
  \/ SyncRow(p) \/ MarkOrphan(p) \/ Refuse(p) \/ Proceed(p)
  \/ WriteRejected(p) \/ FirstEffect(p) \/ LastEffect(p)
  \/ WriteCompleted(p) \/ CloseRow(p) \/ EffectFails(p) \/ MarkUnsure(p)
  \/ StoreFails(p)

Next ==
  \/ \E p \in Procs : Step(p)
  \/ \E p \in Procs, c \in Commands, b \in Bindings : Request(p, c, b)
  \/ \E h \in Hosts : Crash(h)

Spec == Init /\ [][Next]_vars

-----------------------------------------------------------------------------
(***************************************************************************)
(* Properties.                                                             *)
(***************************************************************************)

\* p has passed admission and claim and has not answered.
Serving(p) == pc[p] \in {"work", "reject", "unsure", "close"} \cup Effects

\* One writer: a command whose effect has begun holds its scope for good, so
\* no rival of a decision or of a resumption ever writes; only the thread that
\* created the admission serves it; and a resumption follows a decision.
\* Retries, rivals, crashes and failing stores interleave.
OneWriter ==
  /\ \A c \in begun :
       /\ row[c] \in Occupying
       /\ \A d \in Scope(c) \ {c} : d \notin begun
  /\ \A p, q \in Procs : Serving(p) /\ Serving(q) /\ cmd[p] = cmd[q] => p = q
  /\ done \cap Resumes # {} => Decided

\* While a decision is evaluated no other command has recorded one, and the
\* same for resumptions: the branch that replays another command's decision
\* and the one that meets a different consumption receipt are never taken.
NoRival ==
  \A p \in Procs : pc[p] \in {"work"} \cup Effects =>
    \A d \in Scope(cmd[p]) \ {cmd[p]} : d \notin begun

\* Receipts and rows agree: a completed receipt has all its files and is never
\* contradicted by its row, a row is closed only with its receipt, and a
\* rejected command has written nothing.
ReceiptsAgree ==
  \A c \in Commands :
    /\ terminal[c] = "COMPLETED" => c \in done /\ row[c] \in {"EXECUTING", "COMPLETED"}
    /\ row[c] \in Outcomes => terminal[c] = row[c]
    /\ terminal[c] = "REJECTED" => c \notin begun

\* Effects are written once: no thread starts writing for a command whose
\* first file is already there ("automatic replay is prohibited").
NoReplayedEffect ==
  [][\A p \in Procs : pc[p] # "effect" /\ pc'[p] = "effect"
       => cmd[p] \notin begun]_vars

\* "This command never acquired the transactional effect scope, so it is safe
\* to seal a local REJECTED receipt" (product_service.py:3078): a command with
\* a REJECTED receipt holds no scope as UNCERTAIN.
RejectedHoldsNothing ==
  \A c \in Commands : terminal[c] = "REJECTED" => row[c] # "UNCERTAIN"

-----------------------------------------------------------------------------
\* Refinement: the scope of the decisions that bind the case's digest.
CurrentDecides == Decides \ Stale

TheOne(S) == IF S = {} THEN None ELSE CHOOSE c \in S : TRUE

DecisionScope ==
  INSTANCE EffectScope
    WITH Commands <- CurrentDecides,
         holder <- TheOne({c \in CurrentDecides : row[c] \in Occupying}),
         writer <- TheOne(begun \cap CurrentDecides)

\* The files and rows of all commands together implement one effect scope.
ImplementsScope == DecisionScope!Spec
=============================================================================
