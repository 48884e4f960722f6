----------------------------- MODULE CapaClosure -----------------------------
(***************************************************************************)
(* How execute_remediation_plan closes a CAPA case: the findings of the    *)
(* child run are compared with those of the parent (capa.py), each work    *)
(* order gets a final status, the case a recovery status, and a sealed     *)
(* receipt whose validator recomputes what the service has decided.  The   *)
(* receipt is built after the execution is on disk: a validator that       *)
(* refused it would leave the case without a way on.                       *)
(*                                                                         *)
(* Every finding of the parent has its work order (GatePolicy), so order i *)
(* is the order of finding i.                                              *)
(***************************************************************************)
EXTENDS Naturals, FiniteSets

CONSTANTS
  Orders,   \* work orders of the parent, each of one finding
  Codes,    \* finding codes
  Samples,  \* redacted sample ids
  Aggregate \* the key of a finding without samples

VARIABLES
  parent,      \* the finding of each order: code and samples
  investigate, \* orders whose action is INVESTIGATE
  selected,    \* orders of the approved plan
  unresolved,  \* unresolved_work_order_ids of the derived version
  child,       \* atomic keys of the child's findings
  decision,    \* decision of the child run
  receipt      \* CapaRecoveryReceipt, or the queue and nothing else

inputs == <<parent, investigate, selected, unresolved, child, decision>>
vars == <<inputs, receipt>>

Findings == [code : Codes, samples : SUBSET Samples]
Keys == Codes \X (Samples \cup {Aggregate})
NoReceipt == [status |-> "NONE"]

Init ==
  /\ parent \in [Orders -> Findings]
  /\ investigate \in SUBSET Orders
  /\ selected \in SUBSET Orders
  /\ unresolved \in SUBSET selected
  /\ child \in SUBSET Keys
  /\ decision \in {"PASS", "RECAPTURE", "DEFER"}
  /\ decision = "PASS" => child = {}
  /\ receipt = NoReceipt

-----------------------------------------------------------------------------
\* _atomic_finding_keys
AtomicKeys(f) == IF f.samples = {} THEN {<<f.code, Aggregate>>}
                 ELSE {f.code} \X f.samples

ParentKeys == UNION {AtomicKeys(parent[o]) : o \in Orders}
ParentCodes == {parent[o].code : o \in Orders}
ChildCodes == {k[1] : k \in child}

\* Mutant of FinalStatus: a selected order that was carried out is closed.
ClosedOnceExecuted(o) ==
  CASE o \notin selected -> "DEFERRED_NOT_SELECTED"
    [] o \in selected /\ o \in unresolved -> "BLOCKED_NO_REPLACEMENT"
    [] o \in selected /\ o \notin unresolved -> "VERIFIED_CLOSED"

\* The status of an order in the final responsibility queue.
FinalStatus(o) ==
  CASE o \notin selected -> "DEFERRED_NOT_SELECTED"
    [] o \in unresolved /\ o \in investigate -> "AWAITING_HUMAN_INVESTIGATION"
    [] o \in unresolved \ investigate -> "BLOCKED_NO_REPLACEMENT"
    [] o \in selected \ unresolved /\ parent[o].code \notin ChildCodes
         -> "VERIFIED_CLOSED"
    [] o \in selected \ unresolved /\ parent[o].code \in ChildCodes
         -> "RECHECK_FAILED"

\* open_count and closed_count of build_responsibility_queue: every status
\* that the final queue can hold, except VERIFIED_CLOSED, is open.
Open == {o \in Orders : FinalStatus(o) # "VERIFIED_CLOSED"}
Closed == {o \in selected : FinalStatus(o) = "VERIFIED_CLOSED"}

\* verify_child_run_closure
Regressed == child \ ParentKeys
Disposition ==
  CASE Regressed # {} -> "REGRESSION_DETECTED"
    [] Regressed = {} /\ child \cap ParentKeys # {}
         -> "PERSISTENT_FINDINGS_REMAIN"
    [] child = {} /\ decision = "PASS" -> "ZERO_REGRESSION_VERIFIED"
    [] child = {} /\ decision # "PASS" -> "GATE_NOT_PASS_WITHOUT_ATOMIC_FINDINGS"

\* Mutant of Recovered: what is left open does not matter if the child passes.
RecoveredByGate == decision = "PASS" /\ Regressed = {}

Recovered == decision = "PASS" /\ Open = {} /\ Regressed = {}

RecoveryStatus ==
  CASE Recovered -> "RECOVERED_TO_HUMAN_REVIEW"
    [] ~Recovered /\ (\/ decision = "DEFER"
                      \/ \E o \in Orders :
                           FinalStatus(o) = "AWAITING_HUMAN_INVESTIGATION")
         -> "TRANSFERRED_TO_INVESTIGATION"
    [] OTHER -> "STILL_BLOCKED"

\* Mutant of Receipt: new findings are those whose code the parent had.
ReceiptNewByKey ==
  [status |-> RecoveryStatus, success |-> Recovered,
   decision |-> decision, disposition |-> Disposition,
   resolved |-> ParentCodes \ ChildCodes,
   new |-> {k[1] : k \in child \ ParentKeys},
   regressed |-> Regressed,
   selected |-> Cardinality(selected), closed |-> Cardinality(Closed),
   remaining |-> Cardinality(Open)]

\* The receipt that execute_remediation_plan seals.
Receipt ==
  [status |-> RecoveryStatus, success |-> Recovered,
   decision |-> decision, disposition |-> Disposition,
   resolved |-> ParentCodes \ ChildCodes, new |-> ChildCodes \ ParentCodes,
   regressed |-> Regressed,
   selected |-> Cardinality(selected), closed |-> Cardinality(Closed),
   remaining |-> Cardinality(Open)]

\* validate_child_verification of CapaRecoveryReceipt: what it recomputes.
Valid(r) ==
  /\ r.success <=> r.status = "RECOVERED_TO_HUMAN_REVIEW"
  /\ r.closed <= r.selected
  /\ r.resolved = ParentCodes \ ChildCodes
  /\ r.new = ChildCodes \ ParentCodes
  /\ r.new \subseteq {k[1] : k \in r.regressed}
  /\ r.success <=> /\ r.decision = "PASS" /\ r.remaining = 0
                   /\ r.closed = r.selected /\ r.regressed = {}

Close ==
  /\ receipt = NoReceipt
  /\ receipt' = Receipt
  /\ UNCHANGED inputs

Next == Close

Spec == Init /\ [][Next]_vars

-----------------------------------------------------------------------------
(* Properties *)

\* The validator accepts every receipt the service builds: the two decide
\* success by different conditions (no order open; as many closed as selected)
\* and the new codes by different sets (codes; atomic keys).
ReceiptAccepted == receipt # NoReceipt => Valid(receipt)

\* A case that is handed to human review as recovered has every work order of
\* the parent selected, carried out and closed.
RecoveredIsWhole ==
  receipt.status = "RECOVERED_TO_HUMAN_REVIEW" =>
    /\ selected = Orders /\ unresolved = {}
    /\ \A o \in Orders : FinalStatus(o) = "VERIFIED_CLOSED"

\* An order is never reported closed while the child still shows one of the
\* atomic findings it was written for, and a persistent finding is always some
\* order's open work.
ClosedIsGone ==
  receipt # NoReceipt =>
    /\ \A o \in Closed : AtomicKeys(parent[o]) \cap child = {}
    /\ receipt.disposition = "PERSISTENT_FINDINGS_REMAIN" => Open # {}
=============================================================================
