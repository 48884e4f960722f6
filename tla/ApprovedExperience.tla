------------------------- MODULE ApprovedExperience -------------------------
(***************************************************************************)
(* The promotion of an experience to a memory card (approved_experience.py) *)
(* and the files the cards are read back from.  A record is an immutable    *)
(* sealed value: every operation makes a new one from an old one, which     *)
(* stays as valid as it was.  The time of an operation is an argument of    *)
(* its caller.  Every record that is made is verified first.                *)
(*                                                                          *)
(* Data that is abstracted: one candidate; a receipt is its outcome; a card *)
(* is identified by its approval and so, its content being the candidate's, *)
(* by the events up to it.                                                  *)
(***************************************************************************)
EXTENDS Naturals, Sequences, SequencesExt, FiniteSets

CONSTANTS
  Times,       \* the instants callers may name
  MaxRecords,  \* bound: records made
  MaxLines,    \* bound: lines of a store
  Strict       \* strict_envelope_v1, or the store of plain cards

VARIABLES
  records,  \* the sealed records that were made
  store,    \* the lines of the store, each a card and the record it came with
  result    \* the last retrieval: when, and which cards

vars == <<records, store, result>>

None == 0

Allowed ==
  {<<"none", "CANDIDATE">>, <<"CANDIDATE", "REPLAY_TESTED">>, <<"CANDIDATE", "REJECTED">>,
   <<"REPLAY_TESTED", "HUMAN_APPROVED">>, <<"REPLAY_TESTED", "REJECTED">>,
   <<"HUMAN_APPROVED", "SHADOW">>, <<"HUMAN_APPROVED", "REJECTED">>,
   <<"SHADOW", "PROMOTED">>, <<"SHADOW", "REJECTED">>, <<"SHADOW", "ROLLED_BACK">>,
   <<"PROMOTED", "ROLLED_BACK">>}

State(r) == Last(r.events).to

\* The identity of the approval, and of the card that cites it.
CardId(r) == SubSeq(r.events, 1, 3)

Card(r) == [id |-> CardId(r), from |-> r.memory, until |-> r.revoked,
            status |-> IF r.revoked = None THEN "APPROVED" ELSE "REVOKED"]

-----------------------------------------------------------------------------
(* verify_approved_experience_record *)

ChainValid(r) ==
  /\ \A n \in DOMAIN r.events :
       <<IF n = 1 THEN "none" ELSE r.events[n - 1].to, r.events[n].to>> \in Allowed
  /\ \A n \in 2 .. Len(r.events) : r.events[n - 1].at <= r.events[n].at

ReceiptsValid(r) ==
  /\ r.approval # "none" => r.replay # "none"
  /\ r.shadow # "none" => r.approval # "none"
  /\ State(r) = "REPLAY_TESTED" => r.replay = "PASS"
  /\ State(r) = "HUMAN_APPROVED" => r.replay = "PASS" /\ r.approval = "APPROVE"
  /\ State(r) \in {"SHADOW", "PROMOTED"} =>
       r.replay = "PASS" /\ r.approval = "APPROVE" /\ r.shadow = "PASS"

\* Mutant of MemoryValid: a revoked card is one that was never promoted.
MemoryUnrevoked(r) ==
  /\ r.revoked # None => r.memory = None
  /\ State(r) = "PROMOTED" => r.memory # None

MemoryValid(r) ==
  /\ r.memory # None => r.approval # "none"
  /\ r.revoked # None => r.memory # None /\ r.memory < r.revoked
  /\ State(r) = "PROMOTED" => r.memory # None
  /\ State(r) = "ROLLED_BACK" /\ r.memory # None => r.revoked = Last(r.events).at

Valid(r) == ChainValid(r) /\ ReceiptsValid(r) /\ MemoryValid(r)

-----------------------------------------------------------------------------
(* The operations: each is a record made from r *)

Extend(r, to, t) == [r EXCEPT !.events = Append(@, [to |-> to, at |-> t])]

Candidate(t) ==
  [events |-> <<[to |-> "CANDIDATE", at |-> t]>>, replay |-> "none", approval |-> "none",
   shadow |-> "none", memory |-> None, revoked |-> None]

Replayed(r, t, outcome) ==
  [Extend(r, IF outcome = "PASS" THEN "REPLAY_TESTED" ELSE "REJECTED", t) EXCEPT !.replay = outcome]

Decided(r, t, decision) ==
  [Extend(r, IF decision = "APPROVE" THEN "HUMAN_APPROVED" ELSE "REJECTED", t) EXCEPT !.approval = decision]

Shadowed(r, t, outcome) ==
  [Extend(r, IF outcome = "PASS" THEN "SHADOW" ELSE "REJECTED", t) EXCEPT !.shadow = outcome]

\* Mutant of Promoted: the card is valid since it was approved.
PromotedSinceApproval(r, t) == [Extend(r, "PROMOTED", t) EXCEPT !.memory = r.events[3].at]

Promoted(r, t) == [Extend(r, "PROMOTED", t) EXCEPT !.memory = t]

RolledBack(r, t) ==
  [Extend(r, "ROLLED_BACK", t) EXCEPT !.revoked = IF r.memory = None THEN None ELSE t]

Make(r) ==
  /\ Valid(r) /\ Cardinality(records) < MaxRecords
  /\ records' = records \cup {r}
  /\ UNCHANGED <<store, result>>

InitializeExperience == \E t \in Times : Make(Candidate(t))

RecordReplay ==
  \E r \in records, t \in Times, outcome \in {"PASS", "FAIL"} :
    State(r) = "CANDIDATE" /\ Make(Replayed(r, t, outcome))

DecideApproval ==
  \E r \in records, t \in Times, decision \in {"APPROVE", "REJECT"} :
    State(r) = "REPLAY_TESTED" /\ Make(Decided(r, t, decision))

RecordShadow ==
  \E r \in records, t \in Times, outcome \in {"PASS", "FAIL"} :
    State(r) = "HUMAN_APPROVED" /\ Make(Shadowed(r, t, outcome))

Promote == \E r \in records, t \in Times : State(r) = "SHADOW" /\ Make(Promoted(r, t))

Rollback ==
  \E r \in records, t \in Times : State(r) \in {"SHADOW", "PROMOTED"} /\ Make(RolledBack(r, t))

-----------------------------------------------------------------------------
(* The store *)

\* An envelope is made of a PROMOTED record only; the card of a rolled back
\* one has a line in the store of plain cards.
Admissible(r) == r.memory # None /\ (Strict => State(r) = "PROMOTED")

AddLine ==
  /\ Len(store) < MaxLines
  /\ \E r \in records :
       /\ Admissible(r)
       /\ store' = Append(store, [card |-> Card(r), record |-> r])
  /\ UNCHANGED <<records, result>>

\* Mutant of Loadable: the last line of an identity counts.
LoadableAlways(s) == TRUE

\* load_memory_admission_store, load_approved_memory_store: two lines of one
\* identity refuse the whole store.
Loadable(s) == \A m, n \in DOMAIN s : s[m].card.id = s[n].card.id => m = n

\* _scope_rejection without the scope
Fresh(c, t) ==
  /\ c.status = "APPROVED" /\ c.from <= t
  /\ c.until # None => t < c.until

\* Retrieval at the processing time of a command.
Retrieve ==
  /\ Loadable(store)
  /\ \E t \in Times :
       result' = [at |-> t, cards |-> {n \in DOMAIN store : Fresh(store[n].card, t)}]
  /\ UNCHANGED <<records, store>>

Init == records = {} /\ store = <<>> /\ result = [at |-> None, cards |-> {}]

Next ==
  \/ InitializeExperience \/ RecordReplay \/ DecideApproval \/ RecordShadow \/ Promote \/ Rollback
  \/ AddLine \/ Retrieve

Spec == Init /\ [][Next]_vars

-----------------------------------------------------------------------------
(* Properties *)

\* A card that is used at some time was replayed, approved, observed and
\* promoted before that time, in this order and with every outcome passed.
UsedIsEarned ==
  \A n \in result.cards :
    LET e == store[n].record.events IN
    /\ Len(e) >= 5 /\ [k \in 1 .. 5 |-> e[k].to] =
         <<"CANDIDATE", "REPLAY_TESTED", "HUMAN_APPROVED", "SHADOW", "PROMOTED">>
    /\ \A k \in 1 .. 5 : e[k].at <= result.at

\* Once the revoked card is in the store its promoted form is not used again,
\* whether its line was replaced or is still there.
UsesUnrevoked ==
  \A n \in result'.cards : ~\E m \in DOMAIN store' :
    store'[m].card.status = "REVOKED" /\ store'[m].card.id = store'[n].card.id
      /\ result' # result
RevokedIsNotUsed == [][UsesUnrevoked]_vars

\* Whoever promoted an experience can take it back at any later time.
PromotedCanBeRevoked ==
  \A r \in records : State(r) = "PROMOTED" =>
    \A t \in Times : t > Last(r.events).at => Valid(RolledBack(r, t))
=============================================================================
