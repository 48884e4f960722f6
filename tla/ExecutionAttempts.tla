------------------------- MODULE ExecutionAttempts -------------------------
(***************************************************************************)
(* What the product promises about the execution of a task, with no locks, *)
(* processes, sources or accounts: a task waits, is attempted at most      *)
(* once, and ends published or closed.  An attempt whose process is gone   *)
(* is an orphan; an orphan can only be closed, and only by naming a fresh  *)
(* task that waits in its place.                                           *)
(***************************************************************************)
CONSTANTS Tasks, None

VARIABLES attempt, heir

Init ==
  /\ attempt = [t \in Tasks |-> "absent"]
  /\ heir = [t \in Tasks |-> None]

Move(t, from, to) ==
  /\ attempt[t] = from
  /\ attempt' = [attempt EXCEPT ![t] = to]
  /\ UNCHANGED heir

Create(t) == Move(t, "absent", "waiting")
Claim(t) == Move(t, "waiting", "live")
Publish(t) == Move(t, "live", "published")
Fail(t) == Move(t, "live", "closed")
Orphan(t) == Move(t, "live", "orphan")

\* Cancellation, and the failing closed of all tasks of a source at once.
Close(S) ==
  /\ S # {} /\ \A t \in S : attempt[t] = "waiting"
  /\ attempt' = [t \in Tasks |-> IF t \in S THEN "closed" ELSE attempt[t]]
  /\ UNCHANGED heir

Replace(t, r) ==
  /\ attempt[t] = "orphan" /\ attempt[r] = "absent"
  /\ attempt' = [attempt EXCEPT ![t] = "closed", ![r] = "waiting"]
  /\ heir' = [heir EXCEPT ![t] = r]

Next ==
  \/ \E t \in Tasks : Create(t) \/ Claim(t) \/ Publish(t) \/ Fail(t) \/ Orphan(t)
  \/ \E S \in SUBSET Tasks : Close(S)
  \/ \E t, r \in Tasks : Replace(t, r)

Spec == Init /\ [][Next]_<<attempt, heir>>
=============================================================================
