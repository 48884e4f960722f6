-------------------------- MODULE NormalityFollowup --------------------------
(***************************************************************************)
(* Turning a model's feedback into human work (normality_followup_service.py*)
(* with the storage half of operator_workspace.py): the image is imported   *)
(* into the operator's workspace, and an order is issued from a box a human *)
(* saved there.  Each operation commits an intent to the database, writes   *)
(* files one after the other, verifies them and commits its record.  POST   *)
(* repeats an operation under its key; GET only reads what is stored and    *)
(* completes the record.  The lock of the key admits one call at a time.    *)
(* Left out: calls refused before they look for their intent (_authorize of *)
(* a lost member, a key in use or with another request); they write nothing,*)
(* and what they answer says nothing of an earlier call.                    *)
(***************************************************************************)
EXTENDS Naturals

CONSTANTS
  MaxNotes,     \* bound: annotation revisions of the imported image
  MaxCrashes,   \* bound: processes that stop
  TornWrites    \* whether a process may stop inside a write

VARIABLES
  intent,   \* the committed intents
  done,     \* how many files of an operation are whole, in the order they are written
  torn,     \* whether the file after them is there in part
  record,   \* the committed records
  call,     \* the call that holds the lock of the key
  reply,    \* the last answer to a POST or GET of the key
  chain,    \* the evidence chain is what the requests name
  notes,    \* the last annotation revision
  wanted,   \* the annotation revision the order's request names
  touched,  \* the order was updated by an operator
  crashes

vars == <<intent, done, torn, record, call, reply, chain, notes, wanted, touched, crashes>>

Ops == {"import", "order"}

\* source, preview, asset.json; crop, rev_000001.json
Pieces(k) == IF k = "import" THEN 3 ELSE 2

Idle == [pc |-> "idle", recover |-> FALSE, started |-> FALSE]

Init ==
  /\ intent = [k \in Ops |-> FALSE] /\ record = [k \in Ops |-> FALSE]
  /\ done = [k \in Ops |-> 0] /\ torn = [k \in Ops |-> FALSE]
  /\ call = [k \in Ops |-> Idle] /\ reply = [k \in Ops |-> "none"]
  /\ chain = TRUE /\ notes = 0 /\ wanted = 0 /\ touched = FALSE /\ crashes = 0

-----------------------------------------------------------------------------
(* Answers *)

\* _write_boundary: once an intent is known of, a failed POST is not a refusal.
Fail(k) ==
  /\ call' = [call EXCEPT ![k] = Idle]
  /\ reply' = [reply EXCEPT ![k] = IF call[k].started /\ ~call[k].recover THEN "unknown" ELSE "hold"]

Answer(k) ==
  /\ call' = [call EXCEPT ![k] = Idle]
  /\ reply' = [reply EXCEPT ![k] = "ok"]

GoTo(k, pc) == call' = [call EXCEPT ![k].pc = pc] /\ UNCHANGED reply

-----------------------------------------------------------------------------
(* import_feedback and create_work_order *)

\* While nothing is recorded under the key the request may still be another.
Post(k) ==
  /\ call[k] = Idle
  /\ call' = [call EXCEPT ![k].pc = "observe"]
  /\ IF k = "order" /\ ~intent[k] THEN wanted' \in 1 .. MaxNotes ELSE UNCHANGED wanted
  /\ UNCHANGED <<intent, done, torn, record, reply, chain, notes, touched, crashes>>

\* get_followup_operation
Get(k) ==
  /\ call[k] = Idle /\ intent[k]
  /\ call' = [call EXCEPT ![k] = [pc |-> "observe", recover |-> TRUE, started |-> FALSE]]
  /\ UNCHANGED <<intent, done, torn, record, reply, chain, notes, wanted, touched, crashes>>

\* Mutant of Observe: only an intent of this call counts.
ObserveOwn(k) ==
  /\ call[k].pc = "observe"
  /\ call' = [call EXCEPT ![k].pc = "check"]
  /\ UNCHANGED <<intent, done, torn, record, reply, chain, notes, wanted, touched, crashes>>

\* _observe_prior_intent
Observe(k) ==
  /\ call[k].pc = "observe"
  /\ call' = [call EXCEPT ![k] = [@ EXCEPT !.pc = "check", !.started = intent[k]]]
  /\ UNCHANGED <<intent, done, torn, record, reply, chain, notes, wanted, touched, crashes>>

Live(k) == done[k] = Pieces(k) /\ ~torn[k] /\ (k = "order" => ~touched)

\* _chain, _read_import, the current manual annotation.
Admissible(k) == chain /\ (k = "order" => record["import"] /\ Live("import") /\ notes = wanted)

Check(k) ==
  /\ call[k].pc = "check"
  /\ IF ~chain \/ (k = "order" /\ ~(record["import"] /\ Live("import"))) THEN Fail(k)
     ELSE IF record[k] THEN IF Live(k) THEN Answer(k) ELSE Fail(k)
     ELSE IF Admissible(k) THEN GoTo(k, "intent") ELSE Fail(k)
  /\ UNCHANGED <<intent, done, torn, record, chain, notes, wanted, touched, crashes>>

\* _intent
Intend(k) ==
  /\ call[k].pc = "intent"
  /\ intent' = [intent EXCEPT ![k] = TRUE]
  /\ call' = [call EXCEPT ![k] = [@ EXCEPT !.started = TRUE,
                                               !.pc = IF call[k].recover THEN "verify" ELSE "enter"]]
  /\ UNCHANGED <<done, torn, record, reply, chain, notes, wanted, touched, crashes>>

\* add_image and create_work_order begin again from what the workspace holds:
\* the annotations are read a second time, an unreadable asset.json stops
\* list_assets, a first revision that is there must still be the order.
Enter(k) ==
  /\ call[k].pc = "enter"
  /\ IF \/ k = "import" /\ done[k] = 2 /\ torn[k]
        \/ k = "order" /\ (notes # wanted \/ (done[k] = Pieces(k) /\ touched))
     THEN Fail(k) ELSE GoTo(k, "write")
  /\ UNCHANGED <<intent, done, torn, record, chain, notes, wanted, touched, crashes>>

\* Mutant of Write: a directory that exists is somebody else's.
WriteFresh(k) ==
  /\ call[k].pc = "write"
  /\ IF torn[k] \/ (done[k] > 0 /\ reply[k] = "unknown") THEN Fail(k) /\ UNCHANGED done
     ELSE IF done[k] = Pieces(k) THEN GoTo(k, "verify") /\ UNCHANGED done
     ELSE done' = [done EXCEPT ![k] = @ + 1] /\ UNCHANGED <<call, reply>>
  /\ UNCHANGED <<intent, torn, record, chain, notes, wanted, touched, crashes>>

\* _followup_write: whole files are kept, other bytes under the name refuse.
Write(k) ==
  /\ call[k].pc = "write"
  /\ IF torn[k] THEN Fail(k) /\ UNCHANGED done
     ELSE IF done[k] = Pieces(k) THEN GoTo(k, "verify") /\ UNCHANGED done
     ELSE done' = [done EXCEPT ![k] = @ + 1] /\ UNCHANGED <<call, reply>>
  /\ UNCHANGED <<intent, torn, record, chain, notes, wanted, touched, crashes>>

\* An I/O error instead of the write (the temporary file fails, or the target).
WriteError(k) ==
  /\ call[k].pc = "write" /\ ~torn[k] /\ done[k] < Pieces(k) /\ crashes < MaxCrashes
  /\ crashes' = crashes + 1
  /\ torn' \in {[torn EXCEPT ![k] = t] : t \in {FALSE, TornWrites}}
  /\ Fail(k)
  /\ UNCHANGED <<intent, done, record, chain, notes, wanted, touched>>

\* Mutant of StoredWhole: what a completed directory contains is not read.
StoredInPart(k) == done[k] > 0

\* _verify_import_live, _verify_order_live; for a GET, after asking whether the
\* last file is there at all.
StoredWhole(k) == Live(k)

Verify(k) ==
  /\ call[k].pc = "verify"
  /\ IF StoredWhole(k) THEN GoTo(k, "finish") ELSE Fail(k)
  /\ UNCHANGED <<intent, done, torn, record, chain, notes, wanted, touched, crashes>>

\* _finish
Finish(k) ==
  /\ call[k].pc = "finish"
  /\ record' = [record EXCEPT ![k] = TRUE]
  /\ Answer(k)
  /\ UNCHANGED <<intent, done, torn, chain, notes, wanted, touched, crashes>>

-----------------------------------------------------------------------------
(* The environment *)

\* The process stops; inside a write it may leave a part of the file.
Crash(k) ==
  /\ call[k] # Idle /\ crashes < MaxCrashes
  /\ crashes' = crashes + 1
  /\ call' = [call EXCEPT ![k] = Idle]
  /\ reply' = [reply EXCEPT ![k] = "unknown"]
  /\ torn' \in {[torn EXCEPT ![k] = t] :
       t \in {torn[k], torn[k] \/ (TornWrites /\ call[k].pc = "write" /\ done[k] < Pieces(k))}}
  /\ UNCHANGED <<intent, done, record, chain, notes, wanted, touched>>

\* save_annotations by the operator, once the image can be read.
SaveNotes ==
  /\ done["import"] = Pieces("import") /\ notes < MaxNotes
  /\ notes' = notes + 1
  /\ UNCHANGED <<intent, done, torn, record, call, reply, chain, wanted, touched, crashes>>

\* update_work_order by the operator.
Touch ==
  /\ done["order"] = Pieces("order") /\ ~touched
  /\ touched' = TRUE
  /\ UNCHANGED <<intent, done, torn, record, call, reply, chain, notes, wanted, crashes>>

\* The stored source or a record of the chain is no longer what it was.
Drift ==
  /\ chain /\ chain' = FALSE
  /\ UNCHANGED <<intent, done, torn, record, call, reply, notes, wanted, touched, crashes>>

Step(k) == Observe(k) \/ Check(k) \/ Intend(k) \/ Enter(k) \/ Write(k) \/ Verify(k) \/ Finish(k)

Next ==
  \/ \E k \in Ops : Post(k) \/ Get(k) \/ Step(k) \/ WriteError(k) \/ Crash(k)
  \/ SaveNotes \/ Touch \/ Drift

Spec == Init /\ [][Next]_vars

\* Calls run on, and a client repeats the key while it has no final answer.
Fairness ==
  \A k \in Ops : WF_vars(Step(k)) /\ SF_vars(intent[k] /\ ~record[k] /\ Post(k))

FairSpec == Spec /\ Fairness

-----------------------------------------------------------------------------
(* Properties *)

\* A record names files that are there as a whole, whichever of POST and GET
\* committed it and whatever stopped before it did.
RecordedIsStored ==
  \A k \in Ops : record[k] => intent[k] /\ done[k] = Pieces(k) /\ ~torn[k]

\* A POST that is refused after it has looked for its intent has written nothing,
\* now or in an earlier call with the same key: whatever may have left files
\* behind is answered as unknown.
RefusesUnwritten ==
  \A k \in Ops :
    call[k] # Idle /\ ~call[k].recover /\ call'[k] = Idle /\ reply'[k] = "hold"
      => ~intent'[k] /\ done'[k] = 0 /\ ~torn'[k]
RefusedWroteNothing == [][RefusesUnwritten]_vars

\* What an intent depends on is still as it was.
Steady(k) == chain /\ (k = "order" => notes = wanted /\ ~touched)

\* An operation whose intent is committed completes by repeating its key, in
\* whatever step it was interrupted, unless what it depends on changes.
IntentResolves ==
  \A k \in Ops : intent[k] ~> (record[k] \/ ~Steady(k))
=============================================================================
