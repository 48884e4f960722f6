-------------------------- MODULE MCDecisionRules --------------------------
(***************************************************************************)
(* Model checking instance of the decision procedures that read their       *)
(* inputs once and answer (GatePolicy, CapaBackfill, CapaClosure,           *)
(* ModelEvaluation, TttEpisode, MemoryRetrieval), and of what decides       *)
(* whether a request goes out or comes in: ProviderProfiles, over its own   *)
(* variables, and LoginThrottle.  They do not interact, so a behaviour is   *)
(* one of one of them, named by part, over the variables x1 .. x8 that      *)
(* stand for its own.  What proofs are about is over any constants.         *)
(***************************************************************************)
EXTENDS ProviderProfiles, Sequences, TLC

CONSTANTS
  MaxFindings, MaxTraces, Tools, Rulebook, MaxLoose,           \* of GatePolicy
  Count, Bucket, Split, PerBucket, Contents, MaxBad, Alike,    \* of CapaBackfill
  Codes, Aggregate,                                            \* of CapaClosure
  Categories, MaxPixels, Policies, MaxScore, Retentions,       \* of ModelEvaluation
  Normals, Anomalies, Budget,                                  \* of TttEpisode
  Library, Size, Queries, Embeddings,                          \* of MemoryRetrieval
  Accounts, Limit, Window, PerSecond, Waits, MaxTime           \* of LoginThrottle

VARIABLES part, x1, x2, x3, x4, x5, x6, x7, x8

slots == <<x1, x2, x3, x4, x5, x6, x7, x8>>
allVars == <<part, vars, slots>>

\* Requests (and the samples of a finding) are interchangeable, and so are
\* profiles (and the work orders of a case).
Symmetry == Permutations(Requests) \cup Permutations(Profiles)

Off == "off"

-----------------------------------------------------------------------------
(* GatePolicy: TLC uses the industrial and a zero-tolerance scenario        *)

GateRulebook ==
  {[industrial |-> TRUE, governed |-> TRUE, tools |-> {"quality", "audit"},
    findingBudget |-> 3, findingTolerance |-> 1,
    toolBudget |-> 3, toolTolerance |-> 1],
   [industrial |-> FALSE, governed |-> TRUE, tools |-> {"quality", "audit"},
    findingBudget |-> 1, findingTolerance |-> 0,
    toolBudget |-> 1, toolTolerance |-> 0]}

Gate == INSTANCE GatePolicy WITH
  Profiles <- Rulebook,
  profile <- x1, finding <- x2, trace <- x3, enough <- x4, missing <- x5, unknown <- x6,
  decision <- x7, failed <- x8

\* Bounds and tolerances are numbers.
ASSUME GateAssumption ==
  /\ MaxFindings \in Nat /\ MaxTraces \in Nat
  /\ \A p \in Rulebook : p.findingTolerance \in Nat /\ p.toolTolerance \in Nat

-----------------------------------------------------------------------------
(* CapaBackfill: TLC uses a training bucket with two selected and two spare *)
(* records, and a test bucket of one; the first two contents look alike     *)

BucketOf == <<"train", "train", "test", "train", "train">>
LooksLike == {<<1, 2>>, <<2, 1>>}

Backfill == INSTANCE CapaBackfill WITH
  Orders <- Profiles,
  good <- x1, content <- x2, scope <- x3, final <- x4, used <- x5, at <- x6, replaced <- x7,
  unresolved <- x8

\* Two contents look alike in either order.
ASSUME BackfillAssumption ==
  Count \in Nat /\ Alike \subseteq Contents \X Contents /\ \A w \in Alike : <<w[2], w[1]>> \in Alike

(* CapaClosure: the orders over codes and samples                           *)

Closure == INSTANCE CapaClosure WITH
  Orders <- Profiles, Samples <- Requests,
  parent <- x1, investigate <- x2, selected <- x3, unresolved <- x4, child <- x5, decision <- x6,
  receipt <- x7

\* A run has finitely many findings.
ASSUME ClosureAssumption == IsFiniteSet(Profiles)

-----------------------------------------------------------------------------
(* ModelEvaluation: TLC uses two categories of up to two pixels of each     *)
(* class with no minimum gain and the strictest and a lenient regression    *)
(* limit, or a strict policy; and a matrix of three stages                  *)

Lenient(r) == [fnr |-> <<1, 1>>, fpr |-> <<1, 1>>, minDice |-> <<0, 1>>, minGain |-> <<0, 1>>, regression |-> r]
StrictPolicy == [fnr |-> <<1, 2>>, fpr |-> <<1, 2>>, minDice |-> <<1, 2>>, minGain |-> <<1, 10>>, regression |-> <<0, 1>>]
PolicySet == {Lenient(<<0, 1>>), Lenient(<<1, 2>>), StrictPolicy}
RetentionSet == [average : 0 .. 1, worst : 0 .. 2, limit : 0 .. 1]

Evaluation == INSTANCE ModelEvaluation WITH
  MaxScore <- 0, Retentions <- {[average |-> 1, worst |-> 1, limit |-> 0]},
  policy <- x1, truth <- x2, first <- x3, champion <- x4, retention <- x5, scores <- x6, verdict <- x7

Retention == INSTANCE ModelEvaluation WITH
  Categories <- {"scratch"}, MaxPixels <- 1, Policies <- {Lenient(<<0, 1>>)},
  policy <- x1, truth <- x2, first <- x3, champion <- x4, retention <- x5, scores <- x6, verdict <- x7

\* A regression limit is a fraction; limits and scores are whole.
ASSUME EvaluationAssumption ==
  /\ IsFiniteSet(Categories)
  /\ MaxPixels \in Nat /\ MaxScore \in Nat
  /\ \A p \in Policies : p.regression \in Nat \X (Nat \ {0})
  /\ \A p \in Retentions : p.worst \in Nat /\ p.limit \in Nat

-----------------------------------------------------------------------------
(* TttEpisode: TLC uses a normal and two anomalous guard images, two steps  *)

Episode == INSTANCE TttEpisode WITH
  pc <- x1, late <- x2, report <- x3, verdict <- x4

ASSUME EpisodeAssumption == Normals \in Nat \ {0} /\ Anomalies \in Nat \ {0} /\ Budget \in Nat \ {0}

-----------------------------------------------------------------------------
(* MemoryRetrieval: TLC uses stores of three cards, some of them refused by *)
(* their site, their line, their validity or a revocation                   *)

Base == [site |-> "A", line |-> "any", from |-> 1, until |-> 0, revoked |-> FALSE,
         words |-> [a |-> 0, b |-> 0], len |-> 6, version |-> 1]

Cards ==
  {[Base EXCEPT !.words = [a |-> 1, b |-> 0]],
   [Base EXCEPT !.words = [a |-> 0, b |-> 2], !.len = 12],
   [Base EXCEPT !.words = [a |-> 2, b |-> 1]],
   [Base EXCEPT !.words = [a |-> 2, b |-> 1], !.len = 12],
   [Base EXCEPT !.words.a = 1, !.line = "L1"],
   [Base EXCEPT !.words.a = 1, !.version = 2],
   [Base EXCEPT !.words.b = 1, !.line = "L2"],
   [Base EXCEPT !.words.b = 2, !.site = "B"],
   [Base EXCEPT !.words.a = 2, !.revoked = TRUE, !.until = 2],
   [Base EXCEPT !.words.b = 1, !.until = 2, !.len = 12],
   [Base EXCEPT !.words.a = 1, !.from = 3]}

QuerySet ==
  {[site |-> "A", line |-> "L1", at |-> 2, words |-> w, limit |-> n] : w \in {{"a"}, {"a", "b"}}, n \in {1, 2}}

EmbeddingSet ==
  {[ok |-> FALSE, score |-> <<>>],
   [ok |-> TRUE, score |-> <<0, 500000, 900000>>], [ok |-> TRUE, score |-> <<700000, 700000, 0>>]}

Retrieval == INSTANCE MemoryRetrieval WITH
  store <- x1, query <- x2, embedding <- x3, selected <- x4

\* BM25 is tabled for up to three cards; versions and limits are numbers, and
\* an embedding is available or not.
ASSUME RetrievalAssumption ==
  /\ Size \in 0 .. 3
  /\ \A c \in Library : c.version \in Nat /\ c.len \in Nat
  /\ \A q \in Queries : DOMAIN q = {"site", "line", "at", "words", "limit"} /\ q.limit \in Nat
  /\ \A e \in Embeddings : e.ok \in BOOLEAN

-----------------------------------------------------------------------------
(* LoginThrottle: TLC uses small limits for the code's 30, 60 and 10 per    *)
(* minute, and two requests over two windows, or over less when they wait   *)
(* for the database lock                                                    *)

Scopes == {"login", "login-total", "login-account"}
LimitOf == [s \in Scopes |-> IF s = "login" THEN 2 ELSE 1]
TimeOf == [w \in Waits |-> IF w = 0 THEN 6 ELSE 4]

Throttle == INSTANCE LoginThrottle WITH
  now <- x1, rows <- x2, req <- x3, granted <- x4, refused <- x5, wait <- x6

\* Every scope lets something pass, and windows and seconds have a length.
ASSUME ThrottleAssumption ==
  /\ Limit \in [Scopes -> Nat \ {0}]
  /\ Window \in Nat \ {0} /\ PerSecond \in Nat \ {0}
  /\ Waits \subseteq Nat /\ MaxTime \in [Waits -> Nat]

-----------------------------------------------------------------------------
\* Bound: a run with more than MaxLoose findings has its tools, no unknown
\* cells, and missing ones within their limit or over it.
GateInit == Gate!Init /\ (Len(x2) > MaxLoose => x4 /\ x5 \in {"WITHIN", "OVER"} /\ x6 = "WITHIN")

SlotsInit ==
  \/ /\ part = "profiles"
     /\ x1 = Off /\ x2 = Off /\ x3 = Off /\ x4 = Off /\ x5 = Off /\ x6 = Off /\ x7 = Off /\ x8 = Off
  \/ part = "gate" /\ GateInit
  \/ part = "backfill" /\ Backfill!Init
  \/ part = "closure" /\ Closure!Init /\ x8 = Off
  \/ part = "evaluation" /\ Evaluation!Init /\ x8 = Off
  \/ part = "retention" /\ Retention!Init /\ x8 = Off
  \/ /\ \/ part = "episode" /\ Episode!Init
        \/ part = "report" /\ Episode!InitAny
     /\ x5 = Off /\ x6 = Off /\ x7 = Off /\ x8 = Off
  \/ part = "throttle" /\ Throttle!Init /\ x7 = Off /\ x8 = Off
  \/ /\ part = "retrieval" /\ Retrieval!Init
     /\ x5 = Off /\ x6 = Off /\ x7 = Off /\ x8 = Off

ProfilesStep == part = "profiles" /\ Next /\ UNCHANGED <<part, slots>>
GateStep == part = "gate" /\ Gate!Next /\ UNCHANGED <<part, vars>>
BackfillStep == part = "backfill" /\ Backfill!Next /\ UNCHANGED <<part, vars>>
ClosureStep == part = "closure" /\ Closure!Next /\ UNCHANGED <<part, vars, x8>>
EvaluationStep == part = "evaluation" /\ Evaluation!Next /\ UNCHANGED <<part, vars, x8>>
RetentionStep == part = "retention" /\ Retention!Next /\ UNCHANGED <<part, vars, x8>>
EpisodeStep == part \in {"episode", "report"} /\ Episode!Next /\ UNCHANGED <<part, vars, x5, x6, x7, x8>>
RetrievalStep == part = "retrieval" /\ Retrieval!Next /\ UNCHANGED <<part, vars, x5, x6, x7, x8>>
ThrottleStep == part = "throttle" /\ Throttle!Next /\ UNCHANGED <<part, vars, x7, x8>>

AllInit == Init /\ SlotsInit

AllNext ==
  \/ ProfilesStep \/ GateStep \/ BackfillStep \/ ClosureStep \/ EvaluationStep \/ RetentionStep
  \/ EpisodeStep \/ RetrievalStep \/ ThrottleStep

AllSpec == AllInit /\ [][AllNext]_allVars

-----------------------------------------------------------------------------
(* Properties: those of ProviderProfiles under their own names, and what    *)
(* each of the other components promises, where it acts                     *)

\* GatePolicy: a PASS is earned, missing or failed evidence defers the run, a
\* counterfactual check never vetoes a PASS, and one finding relaxes at most
\* one core check.
GateIsStrict ==
  part = "gate" =>
    /\ Gate!PassIsEarned
    /\ Gate!BrokenEvidenceDefers
    /\ Gate!VetoIsNeverCounterfactual
    /\ Gate!OneFindingRelaxes

\* CapaBackfill and CapaClosure: a replacement is no duplicate of the final
\* version, an order that is not reported open had every sample replaced, the
\* validator accepts the receipts the service builds, a recovered case has
\* every order selected and closed, and a closed order's findings are gone.
CasesCloseClean ==
  /\ part = "backfill" =>
       /\ Backfill!TypeOK
       /\ Backfill!BackfillsAreClean
       /\ Backfill!ResolvedIsReplaced
  /\ part = "closure" =>
       /\ Closure!ReceiptAccepted
       /\ Closure!RecoveredIsWhole
       /\ Closure!ClosedIsGone

\* ModelEvaluation: nothing is approved on a split that does not measure it, no
\* category is lost over any number of approvals, no earlier peak is forgotten
\* beyond the limit, and a metric and its mirror image get one verdict.
\* TttEpisode: a kept report never puts a worse guard result into effect, and
\* what the worker measures is kept, but for two cases.
ModelsAreJudged ==
  /\ part = "evaluation" => Evaluation!UnmeasuredIsHeld /\ Evaluation!NoCategoryIsTraded
  /\ part = "retention" => Retention!NoPeakIsForgotten /\ Retention!DirectionsAgree
  /\ part \in {"episode", "report"} => Episode!EffectiveIsNoWorse
  /\ part = "episode" => Episode!MeasuredIsKeptButFor

\* ModelEvaluation: champions get strictly better.
ChampionsImprove == [][part = "evaluation" => Evaluation!Improves]_allVars

\* MemoryRetrieval: refused cards leave no trace in what is retrieved, a larger
\* limit only adds cards at the end, and whom every channel puts first comes
\* first.
RetrievalIsStable ==
  part = "retrieval" =>
    /\ Retrieval!RefusedLeaveNoTrace
    /\ Retrieval!LimitOnlyCuts
    /\ Retrieval!UnanimousFirst

\* LoginThrottle: less than two windows' worth is granted in any window (in a
\* shorter span when requests wait with stale clocks), and whoever waits for
\* Retry-After outlives the window that refused.
ThrottleHolds ==
  part = "throttle" =>
    /\ Throttle!TypeOK
    /\ Throttle!SlidingBound
    /\ Throttle!SlidingBoundExact
    /\ Throttle!RetryAfterHolds
=============================================================================
