---------------------------- MODULE CapaBackfill ----------------------------
(***************************************************************************)
(* How build_omni_derived_version (capa.py) derives a data version: the    *)
(* samples of the approved work orders are taken out one after the other   *)
(* and each is replaced by the first record of its category and bucket     *)
(* that is free, annotated, of good quality and no duplicate of the rest.  *)
(*                                                                         *)
(* Records are numbered in the order of their salted path digests.  Both   *)
(* the frozen selection (the first PerBucket of each bucket), the order in *)
(* which samples are treated and the order in which candidates are tried   *)
(* follow that one order, because all three sort by the same digest.  What *)
(* the tools measure (quality, content digests) is chosen once, in Init.   *)
(***************************************************************************)
EXTENDS Naturals, FiniteSets

CONSTANTS
  Count,      \* records of the source
  Bucket,     \* category and bucket of each record
  Split,      \* split of each record
  PerBucket,  \* 2 in the code
  Orders,     \* work orders of the approved plan
  Contents,   \* content digests
  MaxBad,     \* bound: records that cannot be used
  Alike       \* pairs of contents that look the same (near duplicates)

Records == 1..Count

VARIABLES
  good,        \* records that are annotated and pass the quality rules
  content,     \* content digest of each record
  scope,       \* the selected samples each work order is about
  final,       \* final_records: the record in the place of each sample
  used,        \* used_paths
  at,          \* the sample the loop is at
  replaced,    \* samples with an EXECUTED operation
  unresolved   \* unresolved_work_order_ids

vars == <<good, content, scope, final, used, at, replaced, unresolved>>
measured == <<good, content, scope>>

\* _select_records: the first PerBucket records of every bucket.
Selected ==
  {r \in Records :
     Cardinality({q \in 1..(r - 1) : Bucket[q] = Bucket[r]}) < PerBucket}

TypeOK ==
  /\ good \subseteq Records
  /\ content \in [Records -> Contents]
  /\ scope \in [Orders -> SUBSET Selected]
  /\ final \in [Selected -> Records]
  /\ used \subseteq Records
  /\ at \in 1..(Count + 1)
  /\ replaced \subseteq Selected
  /\ unresolved \subseteq Orders

\* An order without a sample of the selection is held for investigation and
\* is unresolved from the beginning.
Init ==
  /\ good \in {g \in SUBSET Records : Cardinality(Records \ g) <= MaxBad}
  /\ content \in [Records -> Contents]
  /\ scope \in [Orders -> SUBSET Selected]
  /\ final = [s \in Selected |-> s]
  /\ used = Selected
  /\ at = 1
  /\ replaced = {} /\ unresolved = {o \in Orders : scope[o] = {}}

-----------------------------------------------------------------------------
\* The work orders about sample s.
Concerned(s) == {o \in Orders : s \in scope[o]}

\* Mutant of DuplicateSafe: only records of the same split are compared.
SameSplitSafe(r, others) ==
  \A q \in others : Split[r] = Split[q] => content[r] # content[q]

\* _duplicate_safe: same content anywhere, or alike content in another split.
DuplicateSafe(r, others) ==
  \A q \in others :
    /\ content[r] # content[q]
    /\ Split[r] # Split[q] => <<content[r], content[q]>> \notin Alike

\* The records in the places of the other samples.
OtherRecords(s) == {final[t] : t \in Selected \ {s}}

\* What may take the place of the record now in the place of s.
Candidates(s) ==
  {r \in Records : /\ Bucket[r] = Bucket[final[s]]
                   /\ r \notin used /\ r \in good
                   /\ DuplicateSafe(r, OtherRecords(s))}

First(S) == CHOOSE r \in S : \A q \in S : r <= q

\* used_paths after record r has taken the place of sample s.
Release(s, r) == (used \ {final[s]}) \cup {r}

\* Mutant of Skip: the loop runs past the last record.
SkipPast ==
  /\ at \notin Selected \/ Concerned(at) = {}
  /\ at' = at + 1
  /\ UNCHANGED <<measured, final, used, replaced, unresolved>>

Skip ==
  /\ at \in Records
  /\ at \notin Selected \/ Concerned(at) = {}
  /\ at' = at + 1
  /\ UNCHANGED <<measured, final, used, replaced, unresolved>>

Backfill ==
  /\ at \in Selected /\ Concerned(at) # {}
  /\ Candidates(at) # {}
  /\ final' = [final EXCEPT ![at] = First(Candidates(at))]
  /\ used' = Release(at, First(Candidates(at)))
  /\ replaced' = replaced \cup {at}
  /\ at' = at + 1
  /\ UNCHANGED <<measured, unresolved>>

\* Mutant of Block: the operation is recorded, its work orders are not.
BlockSilently ==
  /\ at \in Selected /\ Concerned(at) # {}
  /\ Candidates(at) = {}
  /\ at' = at + 1
  /\ UNCHANGED <<measured, final, used, replaced, unresolved>>

Block ==
  /\ at \in Selected /\ Concerned(at) # {}
  /\ Candidates(at) = {}
  /\ unresolved' = unresolved \cup Concerned(at)
  /\ at' = at + 1
  /\ UNCHANGED <<measured, final, used, replaced>>

Next == Skip \/ Backfill \/ Block

Spec == Init /\ [][Next]_vars

-----------------------------------------------------------------------------
(* Properties *)

Done == at = Count + 1

\* A record that was put in is no duplicate of anything else in the version,
\* although each one is compared only with the records of its own moment and
\* others are exchanged later.
BackfillsAreClean ==
  \A s \in replaced : \A t \in Selected \ {s} :
    /\ content[final[s]] # content[final[t]]
    /\ Split[final[s]] # Split[final[t]]
         => <<content[final[s]], content[final[t]]>> \notin Alike

\* Work orders that are not reported unresolved have had every one of their
\* samples replaced by a good record: a sample that could not be replaced
\* keeps each of its orders open.
ResolvedIsReplaced ==
  Done => \A o \in Orders \ unresolved :
            \A s \in scope[o] : s \in replaced /\ final[s] \in good

\* The records quarantined by an executed operation are not in the version.
QuarantinedStaysOut ==
  Done => \A s \in replaced : \A t \in Selected : final[t] # s
=============================================================================
