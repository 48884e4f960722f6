---------------------------- MODULE AgentRuntime ----------------------------
(***************************************************************************)
(* One run of the agent kernel (agent_runtime.py) inside a product task    *)
(* (_execute_owned_task in product_service.py).  The main thread walks     *)
(* through two gate passes, a repair between them and the delivery; the    *)
(* tools of a pass run in a thread pool, with bounded retries, and finish  *)
(* in any order.  Every event is recorded in memory and handed to a sink   *)
(* that inserts it into the task_events table; the recorder swallows an    *)
(* exception of the sink.  At the end the table is reconciled with the     *)
(* recorded events.                                                        *)
(*                                                                         *)
(* A task of the run is a pair <<phase, name>>.  Digests and references    *)
(* are abstracted to whether a task has any output references at all.      *)
(* Left out: exceptions of the main thread other than those of the repair  *)
(* and of the closing checks, such as a full disk under the artifacts of   *)
(* the delivery.  They end a run as RepairFails does.                      *)
(***************************************************************************)
EXTENDS Naturals, Sequences, FiniteSets, SequencesExt

CONSTANTS
  Tools,      \* required tools of the catalog
  Retries,    \* min(configured_max_retries, contract max_retries)
  MaxCalls,   \* max_tool_calls
  MaxLost     \* bound: events the sink fails to insert

Phases == {"initial", "verification"}
Steps == {"intake", "route", "memory", "plan", "council", "judge"}
Tasks == (Phases \X (Steps \cup Tools))
           \cup {<<"system", "repair">>, <<"system", "delivery">>}
Terminal == {"SUCCESS", "WARNING", "ERROR", "SKIPPED"}

\* build_task_graph, and the edges run_agentic_demo adds to it.
Dependencies(t) ==
  LET ph == t[1] IN
  CASE t = <<"system", "repair">> -> {<<"initial", "judge">>}
    [] t = <<"system", "delivery">> -> {<<"verification", "judge">>}
    [] t = <<"initial", "intake">> -> {}
    [] t = <<"verification", "intake">> -> {<<"system", "repair">>}
    [] ph \in Phases /\ t[2] = "route" -> {<<ph, "intake">>}
    [] ph \in Phases /\ t[2] = "memory" -> {<<ph, "route">>}
    [] ph \in Phases /\ t[2] = "plan" -> {<<ph, "memory">>}
    [] ph \in Phases /\ t[2] \in Tools -> {<<ph, "plan">>}
    [] ph \in Phases /\ t[2] = "council" -> {<<ph, k>> : k \in Tools}
    [] ph \in Phases /\ t[2] = "judge" -> {<<ph, "council">>}

Edges == {e \in Tasks \X Tasks : e[1] \in Dependencies(e[2])}

VARIABLES
  at,        \* the task the main thread is at, or what it does after them
  status,    \* status of each task
  outputs,   \* tasks with output references
  events,    \* recorder.events: the task of each event and its status
  transfers, \* recorder.context_transfers: source, target, statuses, outcome
  selected,  \* tools the planner has selected in this pass
  worker,    \* the future of each selected tool
  calls,     \* how often each tool has been called in this pass
  decision,  \* judge decision of each pass
  stored,    \* sequence numbers in the task_events table
  lost,      \* number of events the sink could not insert
  task       \* execution_status of the product task

recorder == <<events, transfers, stored, lost, task>>
pool == <<selected, worker, calls>>
vars == <<at, status, outputs, recorder, pool, decision>>

Closing == {<<"close", "check">>, <<"close", "reconcile">>, <<"close", "end">>, <<"close", "failed">>}

TypeOK ==
  /\ at \in Tasks \cup (Phases \X {"tools", "opinions"}) \cup Closing
  /\ status \in [Tasks -> {"QUEUED", "RUNNING"} \cup Terminal]
  /\ outputs \subseteq Tasks
  /\ \A i \in DOMAIN events : events[i].task \in Tasks
  /\ \A i \in DOMAIN transfers : <<transfers[i].source, transfers[i].target>> \in Edges
  /\ selected \subseteq Tools
  /\ worker \in [Tools -> {"IDLE", "RUNNING", "OK", "ERROR", "COLLECTED"}]
  /\ calls \in [Tools -> 0..(Retries + 1)]
  /\ decision \in [Phases -> {"NONE", "PASS", "BLOCKED", "INVESTIGATE"}]
  /\ stored \subseteq DOMAIN events
  /\ lost \in 0..MaxLost
  /\ task \in {"RUNNING", "VERIFYING", "COMPLETED", "FAILED"}

Init ==
  /\ at = <<"initial", "intake">>
  /\ status = [t \in Tasks |-> "QUEUED"]
  /\ outputs = {} /\ events = <<>> /\ transfers = <<>>
  /\ selected = {}
  /\ worker = [k \in Tools |-> "IDLE"]
  /\ calls = [k \in Tools |-> 0]
  /\ decision = [ph \in Phases |-> "NONE"]
  /\ stored = {} /\ lost = 0 /\ task = "RUNNING"

-----------------------------------------------------------------------------
(* The recorder. *)

\* _transfer_outcome: hand-offs from or to a task that did not succeed, or
\* without references, are deferred.
TransferOutcome(s, t, stat, outs) ==
  IF /\ stat[s] = "SUCCESS" /\ stat[t] \notin {"ERROR", "SKIPPED"}
     /\ s \in outs
  THEN "accepted" ELSE "deferred"

\* Mutant of Uncaptured: every event of a task captures its hand-offs.
CapturedAgain(t) == Dependencies(t)

\* Dependencies of t that the ledger does not hold yet.
Uncaptured(t) ==
  {s \in Dependencies(t) :
     ~\E i \in DOMAIN transfers : /\ transfers[i].source = s
                                  /\ transfers[i].target = t}

\* Mutant of Captured: only a task that succeeded captures its hand-offs.
CapturedOnSuccess(t, stat, outs) ==
  LET new == SetToSeq(IF stat[t] = "SUCCESS" THEN Uncaptured(t) ELSE {}) IN
  [i \in DOMAIN new |->
     [source |-> new[i], target |-> t, from |-> stat[new[i]],
      outcome |-> TransferOutcome(new[i], t, stat, outs)]]

\* _capture_dependency_transfers, when a task that has ended emits an event.
Captured(t, stat, outs) ==
  IF stat[t] \in Terminal
  THEN LET new == SetToSeq(Uncaptured(t)) IN
       [i \in DOMAIN new |->
          [source |-> new[i], target |-> t, from |-> stat[new[i]],
           outcome |-> TransferOutcome(new[i], t, stat, outs)]]
  ELSE <<>>

\* The sink: append_event, and the first stored event of the verification
\* pass moves the product task.  An event may be lost; nobody notices.
Sink(t, n) ==
  \/ /\ stored' = stored \cup {n}
     /\ task' = IF t[1] = "verification" /\ task = "RUNNING"
                THEN "VERIFYING" ELSE task
     /\ lost' = lost
  \/ /\ lost < MaxLost
     /\ lost' = lost + 1
     /\ UNCHANGED <<stored, task>>

\* _set_task_status and emit for a task that has ended.
Emit(t, st, refs) ==
  LET stat == [status EXCEPT ![t] = st]
      outs == IF refs THEN outputs \cup {t} ELSE outputs \ {t}
  IN  /\ status' = stat /\ outputs' = outs
      /\ events' = Append(events, [task |-> t, status |-> st])
      /\ transfers' = transfers \o Captured(t, stat, outs)
      /\ Sink(t, Len(events) + 1)

-----------------------------------------------------------------------------
(* The main thread: _runtime_gate and run_agentic_demo. *)

Intake(ph) ==
  /\ at = <<ph, "intake">>
  /\ Emit(at, "SUCCESS", TRUE)
  /\ at' = <<ph, "route">>
  /\ UNCHANGED <<pool, decision>>

Route(ph) ==
  /\ at = <<ph, "route">>
  /\ Emit(at, "SUCCESS", TRUE)
  /\ at' = <<ph, "memory">>
  /\ UNCHANGED <<pool, decision>>

\* A damaged memory store is a warning; the knowledge cards are there anyway.
Memory(ph) ==
  /\ at = <<ph, "memory">>
  /\ \E st \in {"SUCCESS", "WARNING"} : Emit(at, st, TRUE)
  /\ at' = <<ph, "plan">>
  /\ UNCHANGED <<pool, decision>>

\* The planner selects allowed tools up to the call budget and submits them.
Plan(ph) ==
  /\ at = <<ph, "plan">>
  /\ \E S \in {S \in SUBSET Tools : Cardinality(S) <= MaxCalls} :
       /\ Emit(at, "SUCCESS", S # {})
       /\ selected' = S
       /\ worker' = [k \in Tools |-> IF k \in S THEN "RUNNING" ELSE "IDLE"]
  /\ calls' = [k \in Tools |-> 0]
  /\ at' = <<ph, "tools">>
  /\ UNCHANGED decision

\* Mutant of MayRetry: integrity failures are retried too.
RetryAnything(k, error) == error \in {"TRANSIENT", "INTEGRITY"}

\* execute_tool_with_bounded_retry repeats a call after a timeout or a lost
\* connection, while its budget lasts.
MayRetry(k, error) == error = "TRANSIENT" /\ calls[k] < Retries

\* A pool thread calls the gateway once.
CallTool(k) ==
  /\ worker[k] = "RUNNING"
  /\ calls' = [calls EXCEPT ![k] = @ + 1]
  /\ \/ worker' = [worker EXCEPT ![k] = "OK"]
     \/ \E error \in {"TRANSIENT", "INTEGRITY"} :
          worker' = [worker EXCEPT ![k] = IF MayRetry(k, error) THEN "RUNNING"
                                          ELSE "ERROR"]
  /\ UNCHANGED <<at, status, outputs, recorder, selected, decision>>

\* as_completed: a finished future is collected.  The references of a failed call
\* are left out: its hand-offs are deferred with and without them.
CollectTool(ph, k) ==
  /\ at = <<ph, "tools">>
  /\ worker[k] \in {"OK", "ERROR"}
  /\ \/ worker[k] = "OK" /\ Emit(<<ph, k>>, "SUCCESS", TRUE)
     \/ worker[k] = "ERROR" /\ Emit(<<ph, k>>, "ERROR", FALSE)
  /\ worker' = [worker EXCEPT ![k] = "COLLECTED"]
  /\ UNCHANGED <<at, selected, calls, decision>>

\* After the pool has been left, the tools that were not selected are skipped.
SkipTool(ph, k) ==
  /\ at = <<ph, "tools">>
  /\ \A j \in selected : worker[j] = "COLLECTED"
  /\ k \in Tools \ selected /\ status[<<ph, k>>] = "QUEUED"
  /\ Emit(<<ph, k>>, "SKIPPED", FALSE)
  /\ UNCHANGED <<at, pool, decision>>

\* Every required tool has its trace.
ToolsDone(ph) == \A k \in Tools : status[<<ph, k>>] \in Terminal

Council(ph) ==
  /\ at = <<ph, "tools">> /\ ToolsDone(ph)
  /\ \E st \in {"SUCCESS", "WARNING"} : Emit(<<ph, "council">>, st, TRUE)
  /\ at' = <<ph, "opinions">>
  /\ UNCHANGED <<pool, decision>>

\* The opinions are published as further events of the council task.
Opinion(ph) ==
  /\ at = <<ph, "opinions">>
  /\ Emit(<<ph, "council">>, status[<<ph, "council">>],
          <<ph, "council">> \in outputs)
  /\ at' = <<ph, "judge">>
  /\ UNCHANGED <<pool, decision>>

\* Mutant of Judge: a tool that was skipped is not missed.
JudgeForgivesSkipped(ph) ==
  /\ at = <<ph, "judge">>
  /\ \E d \in {"PASS", "BLOCKED", "INVESTIGATE"} :
       /\ (d # "INVESTIGATE") => \A k \in selected : status[<<ph, k>>] = "SUCCESS"
       /\ decision' = [decision EXCEPT ![ph] = d]
  /\ Emit(at, "SUCCESS", TRUE)
  /\ at' = IF ph = "initial" THEN <<"system", "repair">>
           ELSE <<"system", "delivery">>
  /\ UNCHANGED pool

\* apply_policy (GatePolicy): a tool without a good trace is an investigation.
Judge(ph) ==
  /\ at = <<ph, "judge">>
  /\ \E d \in {"PASS", "BLOCKED", "INVESTIGATE"} :
       /\ (d # "INVESTIGATE") => \A k \in Tools : status[<<ph, k>>] = "SUCCESS"
       /\ decision' = [decision EXCEPT ![ph] = d]
  /\ Emit(at, "SUCCESS", TRUE)
  /\ at' = IF ph = "initial" THEN <<"system", "repair">>
           ELSE <<"system", "delivery">>
  /\ UNCHANGED pool

\* A batch with something to investigate is not repaired; it is judged again
\* as it is.
Repair ==
  /\ at = <<"system", "repair">>
  /\ Emit(at, IF decision["initial"] = "INVESTIGATE" THEN "WARNING"
              ELSE "SUCCESS", TRUE)
  /\ at' = <<"verification", "intake">>
  /\ UNCHANGED <<pool, decision>>

\* simulate_repair raises RepairError, for a finding without a fitting sample in
\* the reserve for example: run_agentic_demo ends here and the task has failed.
RepairFails ==
  /\ at = <<"system", "repair">> /\ decision["initial"] # "INVESTIGATE"
  /\ at' = <<"close", "failed">>
  /\ task' = "FAILED"
  /\ UNCHANGED <<status, outputs, events, transfers, stored, lost, pool, decision>>

Delivery ==
  /\ at = <<"system", "delivery">>
  /\ Emit(at, "SUCCESS", TRUE)
  /\ at' = <<"close", "check">>
  /\ UNCHANGED <<pool, decision>>

\* _assert_context_transfer_coverage: each edge exactly once.
Covers ==
  /\ Len(transfers) = Cardinality(Edges)
  /\ {<<transfers[i].source, transfers[i].target>> : i \in DOMAIN transfers} = Edges

Check ==
  /\ at = <<"close", "check">>
  /\ at' = IF Covers THEN <<"close", "reconcile">> ELSE <<"close", "end">>
  /\ task' = IF Covers THEN task ELSE "FAILED"
  /\ UNCHANGED <<status, outputs, events, transfers, stored, lost, pool, decision>>

\* The stored events are the first ones.
StoredIsPrefix == stored = 1..Cardinality(stored)

\* Mutant of Reconcile: what is stored is completed without being validated.
ReconcileCount ==
  /\ at = <<"close", "reconcile">>
  /\ stored' = stored \cup (Cardinality(stored) + 1)..Len(events)
  /\ task' = "COMPLETED"
  /\ at' = <<"close", "end">>
  /\ UNCHANGED <<status, outputs, events, transfers, lost, pool, decision>>

\* reconcile_events: a missing suffix is appended; a gap is a conflict, and
\* the run fails.
Reconcile ==
  /\ at = <<"close", "reconcile">>
  /\ \/ /\ StoredIsPrefix
        /\ stored' = DOMAIN events
        /\ task' = "COMPLETED"
     \/ /\ ~StoredIsPrefix
        /\ task' = "FAILED"
        /\ UNCHANGED stored
  /\ at' = <<"close", "end">>
  /\ UNCHANGED <<status, outputs, events, transfers, lost, pool, decision>>

Next ==
  \/ \E ph \in Phases :
       \/ Intake(ph) \/ Route(ph) \/ Memory(ph) \/ Plan(ph)
       \/ \E k \in Tools : CollectTool(ph, k) \/ SkipTool(ph, k)
       \/ Council(ph) \/ Opinion(ph) \/ Judge(ph)
  \/ \E k \in Tools : CallTool(k)
  \/ Repair \/ RepairFails \/ Delivery \/ Check \/ Reconcile

Spec == Init /\ [][Next]_vars

\* The main thread and the pool threads run on; every call of a tool returns.
FairSpec == Spec /\ WF_vars(Next)

-----------------------------------------------------------------------------
(* Properties *)

\* The ledger never holds an edge twice, although a task may emit several
\* events, and what it says of the source is the status the source ended
\* with: no hand-off is captured before its source has ended.
TransfersAreFinal ==
  /\ \A i \in DOMAIN transfers :
       /\ transfers[i].from = status[transfers[i].source]
       /\ transfers[i].from \in Terminal
  /\ Cardinality({<<transfers[i].source, transfers[i].target>> : i \in DOMAIN transfers})
       = Len(transfers)

\* A pass is judged only when each required tool has exactly one event of its
\* own, in whatever order the pool finished, and a PASS has them all succeed.
JudgedOnAllTools ==
  \A ph \in Phases : decision[ph] # "NONE" =>
    \A k \in Tools :
      /\ Cardinality({i \in DOMAIN events : events[i].task = <<ph, k>>}) = 1
      /\ decision[ph] = "PASS" => status[<<ph, k>>] = "SUCCESS"

\* The table of a completed task holds every event of the run.
CompletedIsWhole ==
  task = "COMPLETED" => stored = DOMAIN events /\ Covers

\* A run that gets through its delivery and has lost none of its events
\* completes, whatever its tools answered: the ledger it has built covers every
\* edge.  A run whose repair fails does not get there.
UnlostCompletes == at = <<"close", "end">> /\ lost = 0 => task = "COMPLETED"
=============================================================================
