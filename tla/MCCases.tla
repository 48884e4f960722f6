------------------------------- MODULE MCCases -------------------------------
(***************************************************************************)
(* Model checking instance of work that several requests of one project    *)
(* compete for: two training runs (VisionTraining over its own variables); *)
(* a CAPA case (Capa, y1 .. y24) with two rival named requests and two     *)
(* child attempts; and two decisions about an incident (IncidentCommands,  *)
(* z1 .. z10), all of them over any constants, which proofs use.  A        *)
(* behaviour moves one of them, named by part, and leaves the others where *)
(* they start.                                                             *)
(***************************************************************************)
EXTENDS VisionTraining, TLC

CONSTANTS
  Threads, Keys, None,                                  \* of both
  CaseIds, MaxAttempts, CaseCrashes,                    \* of Capa
  Creates, Decides, Resumes, Stale, Hosts, Host,        \* of IncidentCommands
  p1, p2, h1, h2, k1, k2, d1, d2                        \* the values TLC uses

VARIABLES
  part, y1, y2, y3, y4, y5, y6, y7, y8, y9, y10, y11, y12, y13, y14, y15, y16, y17,
  y18, y19, y20, y21, y22, y23, y24,
  z1, z2, z3, z4, z5, z6, z7, z8, z9, z10

caseVars ==
  <<y1, y2, y3, y4, y5, y6, y7, y8, y9, y10, y11, y12, y13, y14, y15, y16, y17, y18,
    y19, y20, y21, y22, y23, y24>>
commandVars == <<z1, z2, z3, z4, z5, z6, z7, z8, z9, z10>>
allVars == <<part, vars, caseVars, commandVars>>

(* VisionTraining: "two" has new images and another gate than "one"; "copy" *)
(* is the content of "one" in another pool version; "leak" trains on a      *)
(* group that "one" validates on; "mixed" splits a group                    *)
Sample(p, g, s) == [pixel |-> p, group |-> g, split |-> s]

Evaluated == {Sample("v", "gv", "val"), Sample("t", "gt", "test")}

Contents(n, more) == [samples |-> more, content |-> n[1], version |-> n[2], task |-> n[3]]

DatasetOf ==
  [one   |-> Contents(<<1, "p1", "t1">>, Evaluated \cup {Sample("a", "ga", "train")}),
   two   |-> Contents(<<2, "p2", "t2">>, Evaluated \cup {Sample("b", "ga", "train")}),
   copy  |-> Contents(<<1, "p3", "t3">>, Evaluated \cup {Sample("a", "ga", "train")}),
   leak  |-> Contents(<<4, "p4", "t4">>, {Sample("v", "gx", "val"), Sample("c", "gv", "train"),
                                          Sample("t", "gt", "test")}),
   mixed |-> Contents(<<6, "p6", "t6">>, Evaluated \cup {Sample("a", "ga", "train"), Sample("b", "ga", "val")})]

(* The threads of the case are processes, its named requests keys          *)
Case == INSTANCE Capa WITH
  Cases <- CaseIds, Named <- Keys, Unnamed <- "unnamed", Modes <- Keys, Procs <- Threads,
  MaxCrashes <- CaseCrashes,
  selection <- y1, queue <- y2, approval <- y3, authz <- y4, gate <- y5,
  version <- y6, derived <- y7, granted <- y8, child <- y9, agreed <- y10,
  execution <- y11, closed <- y12, recovery <- y13, assessed <- y14, parent <- y15,
  pc <- y16, on <- y17, mode <- y18, report <- y19, build <- y20, try <- y21,
  saw <- y22, family <- y23, crashes <- y24

(* The threads of the decisions are on hosts of their own; each decision is *)
(* used with two bindings                                                   *)
HostOf == p1 :> h1 @@ p2 :> h2

Commands == INSTANCE IncidentCommands WITH
  Bindings <- Keys, Procs <- Threads,
  admission <- z1, terminal <- z2, row <- z3, begun <- z4, done <- z5, pc <- z6,
  cmd <- z7, bind <- z8, fresh <- z9, saw <- z10

ASSUME CaseAssumption ==
  /\ "unnamed" \notin Keys /\ None \notin Threads \cup CaseIds \cup Keys \cup {"unnamed"}
  /\ None \notin Case!Executions
  /\ MaxAttempts \in Nat \ {0} /\ CaseCrashes \in Nat

ASSUME DecisionsAssumption ==
  /\ Creates \cap Decides = {} /\ Creates \cap Resumes = {} /\ Decides \cap Resumes = {}
  /\ Stale \subseteq Decides \cup Resumes
  /\ Host \in [Threads -> Hosts] /\ None \notin Commands!Commands \cup Keys

\* Runs (or decisions) and request keys are interchangeable; threads trade
\* places together with their hosts.
Swap == p1 :> p2 @@ p2 :> p1 @@ h1 :> h2 @@ h2 :> h1
Symmetry == {Swap} \cup Permutations({k1, k2}) \cup Permutations({d1, d2})

-----------------------------------------------------------------------------
AllInit ==
  /\ Init /\ Case!Init /\ Commands!Init
  /\ part \in {"contents", "sources", "case", "commands"}

\* Bound: sources and members stay, and no process stops.
ContentsStep ==
  /\ part = "contents" /\ Next /\ UNCHANGED <<part, fresh, member, crashes>>
  /\ UNCHANGED <<caseVars, commandVars>>

\* Bound: two of the datasets.
SourcesStep ==
  /\ part = "sources" /\ Next /\ UNCHANGED <<part, caseVars, commandVars>>
  /\ \A d \in Datasets \ {"one", "mixed"} : dataset'[d] = "absent" /\ fresh'[d] = "current"

CaseStep == part = "case" /\ Case!Next /\ UNCHANGED <<part, vars, commandVars>>
CommandsStep == part = "commands" /\ Commands!Next /\ UNCHANGED <<part, vars, caseVars>>

AllNext == ContentsStep \/ SourcesStep \/ CaseStep \/ CommandsStep

AllSpec == AllInit /\ [][AllNext]_allVars

-----------------------------------------------------------------------------
(* Properties: those of VisionTraining under their own names, and the others *)

\* Capa: two rival requests and a crash leave one version, one completed child
\* and receipts that bind one another.
RivalsAreBound == Case!CaseIsBound

\* IncidentCommands: two decisions, each retried with another binding,
\* implement one effect scope.
ImplementsScope == Commands!ImplementsScope
=============================================================================
