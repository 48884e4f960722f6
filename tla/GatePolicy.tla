----------------------------- MODULE GatePolicy -----------------------------
(***************************************************************************)
(* The gate decision (policy.py): the findings and tool traces of a run    *)
(* become work orders and a decision, the rule checks of the scenario are  *)
(* evaluated, and a PASS survives only if the runtime invariants           *)
(* (runtime_safety.py) admit it.  Counterfactual checks repeat the         *)
(* decision with one finding or one tool's traces taken away.              *)
(*                                                                         *)
(* Findings are numbered in the order of (code, finding_id), the order in  *)
(* which the counterfactual probes take them.  The inputs of a run are     *)
(* chosen in Init; apply_policy is one step.                               *)
(***************************************************************************)
EXTENDS Naturals, FiniteSets, Sequences, SequencesExt

CONSTANTS
  MaxFindings, \* bound: findings of a run
  MaxTraces,   \* bound: tool traces of a run
  Tools,       \* the tools a scenario may require
  Profiles     \* the scenario rulebook

\* The action of a finding; relabelling, removal, repartition and
\* investigation decide alike.
Actions == {"RECAPTURE", "OTHER"}
\* The evidence of a finding: verified; not verified, yet no reason to defer;
\* unsupported, or inferred although severe.
Evidence == {"VERIFIED", "INFERRED_MINOR", "UNSUPPORTED"}
\* A governance metric: not there, not an integer, within or over the limit.
Metrics == {"ABSENT", "MALFORMED", "WITHIN", "OVER"}
Decisions == {"DEFER", "QUARANTINE", "RECAPTURE", "PASS"}

Findings == [action : Actions, evidence : Evidence]
Traces == [tool : Tools, ok : BOOLEAN, found : SUBSET (1..MaxFindings)]

VARIABLES
  profile,   \* scenario_profile
  finding,   \* the findings, in order
  trace,     \* tool_trace
  enough,    \* metrics["tool_count"] reaches min_tool_count
  missing,   \* governance_missing_cell_count
  unknown,   \* governance_unknown_cell_count
  decision,  \* decision of the GateResult, or "NONE"
  failed     \* rule checks of the GateResult that failed

inputs == <<profile, finding, trace, enough, missing, unknown>>
vars == <<inputs, decision, failed>>

CoreChecks == {"RC-TOOL-COUNT", "RC-SCENARIO-TOOLS", "RC-TRACE-OK",
               "RC-EVIDENCE-QUALITY", "RC-GOVERNANCE-SCOPE"}
Counterfactuals == {"RC-COUNTERFACTUAL-REMOVE-1",
                    "RC-COUNTERFACTUAL-TOOL-REMOVE-1",
                    "RC-COUNTERFACTUAL-RULE-STABILITY-1"}

Init ==
  /\ profile \in Profiles
  /\ finding \in BoundedSeq(Findings, MaxFindings)
  /\ trace \in BoundedSeq(Traces, MaxTraces)
  /\ \A i \in DOMAIN trace : trace[i].found \subseteq DOMAIN finding
  /\ enough \in BOOLEAN
  /\ missing \in Metrics /\ unknown \in Metrics
  /\ decision = "NONE" /\ failed = {}

-----------------------------------------------------------------------------
(* The decision.  F is the set of findings that are looked at.             *)

\* block_release: a tool failed or never ran, or the evidence is unsupported.
BlockRelease(F, ts) ==
  \/ ts = <<>>
  \/ \E i \in DOMAIN ts : ~ts[i].ok
  \/ \E f \in F : finding[f].evidence = "UNSUPPORTED"

\* _finding_work_order: unsupported evidence is investigated.
OrderAction(f) ==
  IF finding[f].evidence = "UNSUPPORTED" THEN "OTHER"
  ELSE finding[f].action

\* Mutant of Decide: capture-quality findings are decided first.
RecaptureFirst(F, ts) ==
  CASE \E f \in F : OrderAction(f) = "RECAPTURE" -> "RECAPTURE"
    [] BlockRelease(F, ts) -> "DEFER"
    [] F # {} -> "QUARANTINE"
    [] OTHER -> "PASS"

\* _derive_gate_decision over the work orders of _build_core_work_orders.
Decide(F, ts) ==
  CASE BlockRelease(F, ts) -> "DEFER"
    [] ~BlockRelease(F, ts) /\ \E f \in F : OrderAction(f) = "RECAPTURE"
         -> "RECAPTURE"
    [] ~BlockRelease(F, ts) /\ F # {}
         /\ ~\E f \in F : OrderAction(f) = "RECAPTURE" -> "QUARANTINE"
    [] OTHER -> "PASS"

\* _decision_order
Rank(d) == CASE d = "DEFER" -> 0 [] d = "QUARANTINE" -> 1
             [] d = "RECAPTURE" -> 2 [] d = "PASS" -> 3

-----------------------------------------------------------------------------
(* The rule checks. *)

\* Mutant of ScopeFails: a metric that is not there is no reason to fail.
ScopeFailsOver == missing = "OVER" \/ unknown = "OVER"

\* RC-GOVERNANCE-SCOPE, for a scenario that requires the metrics and for one
\* that only looks at what it is given.
ScopeFails ==
  LET counts == {"WITHIN", "OVER"}
      bad == \/ "MALFORMED" \in {missing, unknown}
             \/ profile.governed /\ ~({missing, unknown} \subseteq counts)
      shown == missing \in counts \/ unknown \in counts
  IN  /\ shown \/ profile.governed
      /\ \/ bad
         \/ {missing, unknown} \subseteq counts /\ "OVER" \in {missing, unknown}

\* Mutant of CoreFails: one unverified finding is still good quality.
CoreFailsOffByOne(F, ts) ==
  {c \in CoreChecks :
     CASE c = "RC-TOOL-COUNT" -> ~enough
       [] c = "RC-SCENARIO-TOOLS" ->
            ~(profile.tools \subseteq {ts[i].tool : i \in DOMAIN ts})
       [] c = "RC-TRACE-OK" -> \E i \in DOMAIN ts : ~ts[i].ok
       [] c = "RC-EVIDENCE-QUALITY" ->
            Cardinality({f \in F : finding[f].evidence # "VERIFIED"}) > 1
       [] c = "RC-GOVERNANCE-SCOPE" -> ScopeFails}

\* _build_core_rule_checks: the core checks that fail.
CoreFails(F, ts) ==
  {c \in CoreChecks :
     CASE c = "RC-TOOL-COUNT" -> ~enough
       [] c = "RC-SCENARIO-TOOLS" ->
            ~(profile.tools \subseteq {ts[i].tool : i \in DOMAIN ts})
       [] c = "RC-TRACE-OK" -> \E i \in DOMAIN ts : ~ts[i].ok
       [] c = "RC-EVIDENCE-QUALITY" ->
            \E f \in F : finding[f].evidence # "VERIFIED"
       [] c = "RC-GOVERNANCE-SCOPE" -> ScopeFails}

\* The first findings, as many as the budget allows.
Probes(budget) == {f \in DOMAIN finding : f <= budget}

\* The traces of one tool that report one finding.
Touches(t, f, tool) == t.tool = tool /\ f \in t.found

\* The traces at the places I, in their order.
Kept(I) ==
  [k \in 1 .. Cardinality(I) |->
     trace[CHOOSE i \in I : Cardinality({j \in I : j < i}) = k - 1]]

Removed(f, tool) == Kept({i \in DOMAIN trace : ~Touches(trace[i], f, tool)})

\* A trace of this kind that is there already is dropped.
Deduped(f, tool) ==
  Kept({i \in DOMAIN trace :
          Touches(trace[i], f, tool) => \A j \in DOMAIN trace : trace[j] = trace[i] => j >= i})

Reordered(tool) ==
  Kept({i \in DOMAIN trace : trace[i].tool = tool})
    \o Kept({i \in DOMAIN trace : trace[i].tool # tool})

\* _tool_perturbations_for_target: the three ways to perturb the traces of a
\* tool that reports a finding.
Variant(f, tool, n) ==
  CASE n = 1 -> Removed(f, tool)
    [] n = 2 -> Deduped(f, tool)
    [] n = 3 -> Reordered(tool)

\* The order in which tools are taken.
ToolOrder == SetToSeq(Tools)

\* _build_tool_perturbation_candidates: the different trace lists that come
\* from the findings of a set, the first ones when there are more than the
\* budget.
Perturbations(F, budget) ==
  LET tools == ToolOrder
      places == {p \in F \X (DOMAIN tools) \X (1 .. 3) :
                   \E i \in DOMAIN trace : Touches(trace[i], p[1], tools[p[2]])}
      VariantAt(p) == Variant(p[1], tools[p[2]], p[3])
      Before(p, q) == \/ p[1] < q[1]
                      \/ p[1] = q[1] /\ p[2] < q[2]
                      \/ p[1] = q[1] /\ p[2] = q[2] /\ p[3] < q[3]
      lists == {VariantAt(p) : p \in places} \ {trace}
      Earlier(s, t) == \E p \in places : VariantAt(p) = s /\
                         \A q \in places : VariantAt(q) = t => Before(p, q)
  IN  IF Cardinality(lists) <= budget THEN lists
      ELSE {t \in lists : Cardinality({s \in lists : Earlier(s, t)}) < budget}

\* Probes with one finding taken away that loosen decision d.
FindingFlips(d) ==
  {f \in Probes(profile.findingBudget) :
     Rank(Decide(DOMAIN finding \ {f}, trace)) > Rank(d)}

\* Probes with perturbed traces that loosen decision d.
ToolFlips(d) ==
  {ts \in Perturbations(DOMAIN finding, profile.toolBudget) :
     Rank(Decide(DOMAIN finding, ts)) > Rank(d)}

\* Core checks that fail and would pass with a finding, or traces, taken away.
FindingRelaxes ==
  {w \in Probes(profile.findingBudget) \X CoreFails(DOMAIN finding, trace) :
     w[2] \notin CoreFails(DOMAIN finding \ {w[1]}, trace)}

ToolRelaxes ==
  LET probes == Probes(profile.toolBudget) IN
  {w \in Perturbations(probes, Cardinality(probes)) \X CoreFails(DOMAIN finding, trace) :
     w[2] \notin CoreFails(DOMAIN finding, w[1])}

\* Mutant of CounterfactualFails: as many flips as tolerated are too many.
CounterfactualFailsAt(d) ==
  {c \in Counterfactuals :
     CASE c = "RC-COUNTERFACTUAL-REMOVE-1" ->
            Cardinality(FindingFlips(d)) >= profile.findingTolerance
       [] c = "RC-COUNTERFACTUAL-TOOL-REMOVE-1" ->
            Cardinality(ToolFlips(d)) >= profile.toolTolerance
       [] c = "RC-COUNTERFACTUAL-RULE-STABILITY-1" ->
            \/ Cardinality(FindingRelaxes) >= profile.findingTolerance
            \/ Cardinality(ToolRelaxes) >= profile.toolTolerance}

\* The counterfactual checks that fail for the decision d.
CounterfactualFails(d) ==
  {c \in Counterfactuals :
     CASE c = "RC-COUNTERFACTUAL-REMOVE-1" ->
            Cardinality(FindingFlips(d)) > profile.findingTolerance
       [] c = "RC-COUNTERFACTUAL-TOOL-REMOVE-1" ->
            Cardinality(ToolFlips(d)) > profile.toolTolerance
       [] c = "RC-COUNTERFACTUAL-RULE-STABILITY-1" ->
            \/ Cardinality(FindingRelaxes) > profile.findingTolerance
            \/ Cardinality(ToolRelaxes) > profile.toolTolerance}

-----------------------------------------------------------------------------
\* Mutant of RequiredChecks: the industrial contract is not added.
GuardChecksOnly == Counterfactuals \cup {"RC-GOVERNANCE-SCOPE"}

\* required_gate_check_ids
RequiredChecks ==
  Counterfactuals \cup {"RC-GOVERNANCE-SCOPE"}
    \cup (IF profile.industrial THEN CoreChecks ELSE {})

\* apply_policy.  INV-1 fails for a failed required check; the machine-write
\* and release flags of INV-4 and INV-5 are constants here.
ApplyPolicy ==
  LET base == Decide(DOMAIN finding, trace)
      fails == CoreFails(DOMAIN finding, trace) \cup CounterfactualFails(base)
      vetoed == base = "PASS" /\ fails \cap RequiredChecks # {}
  IN  /\ decision = "NONE"
      /\ decision' = IF vetoed THEN "DEFER" ELSE base
      /\ failed' = fails \cup (IF vetoed THEN {"RC-RUNTIME-INVARIANT-GUARD"}
                               ELSE {})
      /\ UNCHANGED inputs

Next == ApplyPolicy

Spec == Init /\ [][Next]_vars

-----------------------------------------------------------------------------
(* Properties *)

\* A PASS is earned: nothing was found, some tool ran and none failed, and in
\* the industrial scenario every required tool is among them and the
\* governance metrics are there and within their limits.  The four conditions
\* are enforced in three different places.
PassIsEarned ==
  decision = "PASS" =>
    /\ finding = <<>>
    /\ trace # <<>> /\ \A i \in DOMAIN trace : trace[i].ok
    /\ profile.governed => missing = "WITHIN" /\ unknown = "WITHIN"
    /\ profile.industrial =>
         profile.tools \subseteq {trace[i].tool : i \in DOMAIN trace}

\* Missing or failed evidence defers the run, whatever else was found: no
\* capture finding turns a run with a dead tool into a routine recapture.
BrokenEvidenceDefers ==
  decision # "NONE" /\ BlockRelease(DOMAIN finding, trace) => decision = "DEFER"

\* The counterfactual checks are among the required ones, yet they never veto
\* a PASS: a run without findings has nothing to probe.  A veto is always due
\* to the tools or the governance scope.
VetoIsNeverCounterfactual ==
  "RC-RUNTIME-INVARIANT-GUARD" \in failed
    => failed \cap Counterfactuals = {} /\ failed \cap RequiredChecks # {}

\* Taking one finding away turns at most one core check from FAIL to PASS in
\* at most one probe, so the stability check fails for findings only in a
\* scenario that tolerates none.
OneFindingRelaxes ==
  decision # "NONE" =>
  /\ Cardinality(FindingRelaxes) <= 1
  /\ (/\ "RC-COUNTERFACTUAL-RULE-STABILITY-1" \in failed
      /\ \A i \in DOMAIN trace : trace[i].ok) => profile.findingTolerance = 0
=============================================================================
