# VisionData Gate: a TLA+ verification project

VisionData Gate (`src/src/visiondata_gate`) is a local-first quality gate for
industrial vision data. Named people authorize data sources, create and approve
tasks, an agent runtime executes them into immutable evidence, incidents and
corrective actions (CAPA) follow, and every record is sealed by digest. Its
correctness is mostly about *who may do what, when*, under several threads and
processes that share one SQLite file and one directory tree, and under crashes
between any two writes. That is what these modules model.

## 1. Inventory

| Component | Source | State | Operations | What is hard | What makes it correct |
|---|---|---|---|---|---|
| Task store and lifecycle | `task_store.py`, `product_service.py` 1590-2342 | `agent_tasks`, `task_interventions`, owners, recoveries | create, approve, cancel, start, claim, verify, publish, fail | several processes, checks and writes in different transactions, crashes | no run without approval, one attempt per task, one writer per live row, the transition table |
| Source authorization | `task_store.py` 1156-1508, `product_service.py` 942-1258 | hash-chained events per source | grant, revoke, expire (also on every read), profile | revocation and expiry race approval, claim and run | terminal events fail pending tasks closed; no approval outlives its grant |
| Execution recovery | `execution_recovery.py`, `product_service.py` 1956-2089 | OS file lock per task, owner rows | probe, recover | a dead owner is told from a live one by a lock only | a live or completed run is never recovered; a recovery is final |
| Incident commands | `product_service.py` 2956-3279, 3704-4573, `incident_commands.py`, `task_store.py` 1708-2084 | admission and terminal files, command rows, effect scopes | create case, resume, decide | two stores (files and SQLite) updated one after the other, replays, crashes between them | at most one effect per command and per case version; files and rows agree |
| CAPA | `capa.py`, `product_service.py` 4576-6041 | selection, approval, authorization, derived version, execution, child task: write-once files and rows | select, approve, execute, retry, recover the child, close | seven files, one directory and three rows written one after the other without a lock | the receipts of a case name one version and one completed child; an approved case recovers |
| Identity | `identity_service.py` | credentials, sessions, memberships, throttle windows | setup, register, approve, login, disable, role, members | last administrator, slow key derivation between check and write, a clock read before the transaction | an administrator always remains; no session outlives a password change or a disabling |
| Event ledger | `task_store.py` 2635-2739 | `task_events` | append during the run, reconcile after it | an append that fails half-way and is swallowed | a run that gets through its delivery and lost no event completes; a completed run has all of them |
| Outbound network client | `network_resilience.py`, `network_deadline.py` | breaker state and counters, deadlines, DNS queue | request, retry, trip, half-open probe, watchdog | late answers, a stuck resolver, expiry racing a new socket | the breaker's state follows the recorded outcomes; every request ends |
| Gate policy | `policy.py`, `runtime_safety.py` | - | decide, check, probe counterfactuals | a missing tool, one finding more or less | a PASS is earned; one finding less relaxes at most one core check |
| Data pools | `data_pool.py`, `operator_snapshot.py`, `vision_data_pool_bridge.py` | members, reviews, versions, snapshots | create, review, derive, export | reads in transactions of their own, sources revoked in between | no review is lost; a subset holds qualified members only; what is exported was gated again |
| Learning service | `learning_service.py`, `learning_evaluation.py`, `continual_learning.py` | cycles, rounds, final tests, owners | start, train, change, review, select, final test, recover | numerical work outside transactions, dead owners | the holdout is read once; a model is approved only when its evaluation was complete, eligible and without open errors, and a champion the final test refuses is replaced; rounds are comparable |
| Model registries and inference | `local_model_registry.py`, `normality_*` | datasets, training runs, packs, approvals, intents | freeze, train, select, register, approve, infer, adapt, follow up | files shared by registrations, validation in a subprocess between two transactions, two stores | one training at a time; a pack under use is approved, and its files are hashed again; an intent resolves |
| Provider profiles | `provider_profiles.py` | profiles, default, secrets | create, set default, replace the key, revoke, test | the registry and the secret store are written one after the other | one default at most, no key left behind, no request without the key its profile has; a revoked profile stays revoked |
| Approved experience, governed context | `approved_experience.py`, `governed_context.py` | sealed records, cards | approve, use, revoke, promote, retrieve | old records stay valid, ties and limits of a ranking | only experience that was earned is used; refused cards leave no trace |
| Agent runtime | `agent_runtime.py`, `agents.py`, `tools.py` | run state, trace, hand-offs | plan, act, retry, repair, verify, deliver | tools finish in any order, retries | a pass is judged on all its tools; a hand-off is final |
| AgentTeams transport | `agentteams_transport.py` | submissions, receipts | probe, submit | lost answers, duplicates | at most one submission per key |
| Operator workspace | `operator_workspace.py` | images, annotation revisions, work orders | import, save, issue, attest, close | files without a lock, torn writes | revisions are append-only; a closed order was remediated |
| Product backup | `product_backup.py` | archive | back up, restore | interrupted restore | a restore is all or nothing |
| Evidence, packaging, release, proof, audit envelopes | `package.py`, `release*.py`, `proof.py`, `audit_envelope.py`, ... | immutable files | build, verify | pure functions over files | a digest binds content |
| Benchmarks and public evidence | `public_runtime_benchmark.py`, `goal3_*`, ... | reports | measure | none of protocol | - |
| HTTP API, CLI, Web, gateway, desktop shell | `api.py`, `cli.py`, `web/`, `gateway/`, `app.py` | - | translate requests into the calls above | - | - |

The components meet in `ProductService`: API threads, the pool workers of the
process and command-line processes call it concurrently; they share the SQLite
file (every store method is one `BEGIN IMMEDIATE` transaction) and the product
root on disk, and nothing else.

## 2. Modules

| Module | Models | Kind |
|---|---|---|
| `TaskLifecycle` | task store, source authorization, execution, recovery | component |
| `ExecutionAttempts` | what is promised about the execution of a task | abstract specification |
| `IncidentCommands` | incident command admission, claim, effect and receipt | component |
| `EffectScope` | what is promised about one effect scope | abstract specification |
| `Accounts`, `LoginThrottle` | identity, sessions, members; the throttle in front of the login | components |
| `NetworkClient` | circuit breaker, attempt deadline, DNS pool | component |
| `Capa`, `CapaBackfill`, `CapaClosure` | a CAPA case from selection to recovery; the derivation of its version; its closure | component, two algorithms |
| `GatePolicy` | the gate decision, its rule checks and counterfactual probes | algorithm |
| `AgentRuntime` | two gate passes, their tools, the recorder and the event ledger | component |
| `ProviderProfiles` | the profile registry, the secret store and the requests over both | component |
| `DataPool` | pool versions, the derived subset, the bridge to training | component |
| `Learning`, `ModelEvaluation` | cycles, rounds and the final test; the verdicts on a candidate | component, algorithm |
| `VisionTraining` | datasets, training runs, feedback, selection | component |
| `NormalityPacks`, `TttEpisode`, `NormalityFollowup` | packs, approval, inference; one adaptation episode; human follow-up | component, algorithm, component |
| `ApprovedExperience`, `MemoryRetrieval` | promotion of an experience to a card; hybrid retrieval of cards | component, algorithm |
| `OperatorWorkspace` | images, annotation revisions, work orders in files | component |
| `MCTaskLifecycle`, `MCIncidentCommands` | symmetry sets | model checking |
| `MCProgress`, `MCDecisionRules`, `MCStores`, `MCModelStores`, `MCCases` | instances of several components each | model checking |
| `*Proofs` (eight) | inductive invariants, lemmas and theorems | TLAPS |

Definitions next to a comment "Mutant of X" are not part of the model: they are
X with a plausible bug, kept to show that the property aimed at X can fail.
`PROJECT.json` maps every definition to its source lines.

### TaskLifecycle

A *process* is one Python process with one pool worker that does one activity at
a time; more concurrency is more processes, because processes share only SQLite
and the lock files. Each `TaskStore` method is one `BEGIN IMMEDIATE`
transaction and so one step. `pc` runs through the steps of the handlers:

- **create** - `CreateCheck` (source checks), then `CreateInsert`,
  `CreateReplay` or `CreateConflict` in a later transaction; API creations
  `StartTask` a task that needs no approval. CAPA creates its child task with
  `start_approved_task=False` and runs it in place: `RunTaskSync`.
- **approve** - `BeginApproval`, three preflight reads, a second plan preview,
  `RecordApproval`, `StartTask`. Every read of a due source is also a write: it
  appends `EXPIRED` and fails the pending tasks of the source
  (`ExpireSourceIfDue`).
- **execute** - `Dequeue` or `RunTaskSync`, `AcquireLock` (gives up silently when
  held), `RequireActiveActor`, `FailPlanned`, `ExecutionPreflight`, `ClaimTask`,
  `CheckAuthorization`, `CheckProfile`, `VerificationEvent`, `RunReturns`,
  `PostRun`, `EnterVerifying`, `Publish`, or `ExecutionRaises` and
  `FailExecution`, then `ReleaseLock`.
- **probe and recover** - `BeginProbe`/`ProbeRead`,
  `BeginRecovery`/`RecoveryCheck`/`RecoveryCommit`.
- **environment** - `Crash`, `DeadlinePasses`, `SourceDrifts`, `RevokeSource`,
  `ExpireDue`, `SetAccountStatus`.

`offered` and `crashes` are history and bound. The contents of a run, its
events and evidence are left out.

### IncidentCommands

A request thread of some host (Python process) creates `admission.json` once,
reads `terminal.json`, claims the row, evaluates, writes its first and last
business file, writes `terminal.json` and closes the row. Decisions and
resumptions of a case take turns within a host (`CaseLockFree`), not between
hosts. `Refuse` stands for everything an evaluation may object to; `Admissible`
is what it must object to. A case has one digest, since its files are immutable;
`Stale` commands bind another one. A crash takes all threads of its host.

### Accounts

Every method is one transaction, except `login` and `change_password`, which
verify (`Verify`) long before they write (`Login`, `ChangePassword`).
`SessionRows.opened` records which password a session was opened with; the code
does not store it, the property needs it. Profile fields and audit events are
not modelled.

### NetworkClient

Threads share the breaker of one origin and the resolver workers. An attempt is
`PutJob`, `Resolved`, `Bind` (once per address and again for TLS), `Respond`,
`ExitAttempt`, with `DeadlinePasses` and `Watchdog` at any time. `age` is the
clock since `_opened_at`, cut off at the recovery time; `failures` is cut off at
the threshold, above which all values act alike. A name that does not resolve or
a forbidden address leaves `request_json` without being recorded as a failure,
as in the code (`escape`).

### LoginThrottle

A row of `identity_throttle` counts the hits of a scope and key in a window that
opens with the first hit. The clock is read before the transaction opens, so a
request that waited for the database writes with a stale time.

### Capa, CapaBackfill, CapaClosure

`execute_remediation_plan` is one long request without a lock of its own:
`CheckSource`, the authorization, the derived version (built aside, renamed into
place, recorded), the child task (created, run, its end awaited, its gate
agreed on), `execution.json`, the queue, the recovery receipt. Each step is an
action, `pc` names the next one, and what a request remembers of an earlier read
(`build`, `try`, `saw`, `report`) is kept in variables of its own. A receipt
with a time stamp is created or conflicts; one without may be written again.
Requests are `Named` (they carry an authorization) or `Unnamed`. `Crash` drops
every request of a process; a retry goes through what is on disk. The child run
is `TaskLifecycle`'s: here it is claimed, ends, or is left RUNNING until
`RecoverChild`.

`CapaBackfill` is `build_omni_derived_version`: which records replace the
samples of the approved orders. `CapaClosure` compares parent and child findings,
closes orders and case, and evaluates the validator of the sealed receipt.

### GatePolicy, ModelEvaluation, TttEpisode, MemoryRetrieval

Procedures that read their inputs once and answer. Inputs are chosen in `Init`
from all bounded combinations, the answer is one step, and the properties
compare answers for neighbouring inputs (one finding less, a refused card left
out, a larger limit, the champion before) or relate an answer to its inputs.
Rates are pairs of integers; BM25 is computed in integer micros.

### AgentRuntime

The main thread walks through two gate passes with a repair between them; tools
finish in any order, with bounded retries. Every event is recorded in memory and
handed to a sink whose exception is swallowed; `reconcile_events` compares the
table with the record at the end. A repair may raise (`RepairFails`: a finding
without a fitting sample in the reserve), which ends the run FAILED with no event
lost. Other exceptions of the main thread (a full disk under the artifacts) are
left out; they end a run in the same way.

### ProviderProfiles

A create puts the secret, inserts the row and, when that fails, deletes the
secret; a request may die between any two steps. `spent` remembers profiles
whose request died. Probes read row and secret at different times.

### DataPool

Every request reads pool, version and task context in transactions of their own
and writes in one more; sources are revoked and the sealed readiness drifts in
between. A subset is materialized as a snapshot with a source of its own that a
second task gates again before the trainer may have it.

### Learning, VisionTraining

A lock of the operating system covers a round, a final test or a training thread
from its first read to its last write; a process that stops loses the lock and
leaves the row. `Recover` takes the lock to learn that nobody owns the work.
Everything else is one transaction that compares what the caller has seen.
`tested`, `consumed` and `feedback` remember what has been used.

### NormalityPacks, NormalityFollowup

A registration copies its files one by one into a store that other registrations
share, and `_cas_copy` does it without a lock: it looks for the destination
(`LookCopy`), opens it exclusively (`OpenCopy`), writes (`EndCopy`) and hashes what
is there (`VerifyCopy`); any exception but `FileExistsError` in between unlinks the
destination (`FailCopy`), whoever has made it. `copy` says where each registration
is in this; one whose file was unlinked under it goes on writing an `orphan`. An
approval and an inference validate in a subprocess between two transactions, and
hash all files of the pack before. A follow-up commits an intent, writes files,
verifies them and commits its record; `POST` repeats it, `GET` completes it. Calls
that are refused before they look for their intent (lost membership, a key in use
or with another request) are left out: they write nothing, but what they answer
says nothing of what an earlier call has written.

### ApprovedExperience, OperatorWorkspace

Records are immutable sealed values: an operation makes a new one of an old one,
which stays as valid as it was. Workspace files are opened exclusively under
their final name and then written: a process that stops leaves a torn file.

## 3. Plan

Done: every stateful component of the inventory except AgentTeams and the
backup; their safety properties and, where the code is fair, their liveness;
both refinements; proofs for every stateful component.

Left, in this order:

1. A submission of `AgentTeams` with lost answers; archive and restore of
   `ProductBackup`.
2. The worker selection of an incident as an operator checked against a
   reference definition.

## 4. Runs

| Run | Bounds | Shows |
|---|---|---|
| `task_attempts` | 2 tasks (one may replace the other), synthetic source, approval required, 2 processes, 1 crash | `LiveRunIsOwned`, `RecoveryIsFinal`, `OfferedNeverCompletes`; rows and locks implement `ExecutionAttempts` (`ImplementsAttempts`) |
| `task_authorization` | 1 task, 1 snapshot source, with and without approval, a suspendable creator, 2 processes, 1 crash | `NoUnauthorizedRun`, `ApprovedPlanHasLiveGrant`, the transition table (`LifecycleObeyed`) |
| `task_liveness` | 1 task, 2 processes, 1 crash, fair | `ExecutionsEnd`: locks are released, queued executions are taken |
| `incident_resume` | 1 creation, a current and a stale decision, 2 rival resumptions, 2 hosts | `OneWriter`, `NoRival`, `ReceiptsAgree`, `NoReplayedEffect` |
| `network_client` | 2 threads, 1 resolver worker, queue of 1, 1 retry, threshold 2, recovery after 2 ticks, fair | `ClosedWhileHealthy`, `SocketsDie`, `NetworkRecovers` |
| `progress` | a CAPA case with one named request, 2 processes, 2 child attempts, 1 crash, or plans of its children cancelled; two cases of one parent, each with a thread of its own, and a request that dies before its recovery receipt; a learning cycle of one round with one error and one change; a training run with one move and one crash; a follow-up with one note and without torn writes; fair | `ApprovedRecovers`, `WorkReachesAnEnd` |
| `decision_rules` | all bounded inputs of the decision procedures; 2 profiles and 2 requests; small throttle limits | `ProfilesAreKeyed`, `RevokedIsFinal`, `GateIsStrict`, `CasesCloseClean`, `ModelsAreJudged`, `ChampionsImprove`, `RetrievalIsStable`, `ThrottleHolds` |
| `stores` | 2 accounts, 2 sessions, 2 passwords, 2 requests, credential versions up to 2; a pool of 2 members and 2 versions with and without drift; a workspace with 3 revisions and 1 crash | `AdminRemains`, `SessionsAreCurrent`, `NoResurrection`, `ReviewsAreSound`, `RecordsStand` |
| `model_stores` | a pack decided up to 3 times with one upgrade and one crash; two packs that share a file and 2 crashes; learning in four small parts (two cycles of which one holds out what the other trains on; two rounds over such inputs; a cycle of two rounds with one error; one with a source or gate that changes); a follow-up with torn writes; plain and strict cards; an agent run of 2 tools whose repair may fail, and one with a lost event | `PacksAreSound`, `ApprovalsStand`, `LearningIsFair`, `RecordsAreWhole`, `DecisionsStand` |
| `cases` | 2 training runs over 5 datasets with one move and one crash; a CAPA case with two rival named requests and a crash; two decisions on 2 hosts, each retried with another binding | `TrainingIsExclusive`, `EndedStaysEnded`, `RivalsAreBound`, `ImplementsScope` |
| `task_approval_lost` | 1 task, no crash, fair | *violated*: an approved plan is never executed |
| `incident_rejected_scope` | 1 creation, 2 rival decisions | *violated*: a rejected command holds its scope |

`MCProgress`, `MCDecisionRules`, `MCStores`, `MCModelStores` and `MCCases` put
components that do not interact into one run. A behaviour is one of one of them,
named by `part`; the others stay at their initial state, where none of their
fair actions is enabled, so that neither a property nor a fairness condition of
one is affected by another. The constants of the components are constants of
`MCModelStores`, of `MCCases` and of `MCDecisionRules`, with values in the `.cfg`, so that the theorems
about these modules hold for any of them.

**Bounds.** Every race in the models is between two activities on one task,
command scope, case, account, pack or run: two actors are enough to have it, a
second task is needed only as a replacement, a second pack only to share a file.
One crash separates a dead owner from a live one; more crashes repeat that
(packs take two, since a copy can be interrupted twice). Bounds that cut a
behaviour short are `MaxAttempts` (2 child attempts of the code's 3, so that
"all attempts failed" is reached), `MaxVersion` (credential versions),
`MaxRounds`, `MaxErrors`, `MaxChanges` (learning: safety has two rounds with an
error or a change, liveness one of each), `MaxRecords` (6, enough for every
stage of a card and one revocation), `MaxRevisions` (3), `MaxTime` (two windows
of the throttle, less when requests wait) and, in `decision_rules`, a run with two
findings has all its tools, no unknown cells and missing ones within their limit
or over it (`MaxLoose`; one metric that fails is like another there). In `progress` the sources of
the case are not withdrawn, and the two cases of one parent meet only in the
lineage: no child of theirs fails, and rivals for one case, failures and
cancellations have a part of their own. In `model_stores` registrations overlap in
any way in one part, and a pack is decided about after its asset is registered in
the other; the memory store of an agent run is damaged in its first pass at most. The contents part of `cases` has all five datasets
but no crash, move or change of members; the sources part has these and two
datasets. The theorems below hold without the bounds.

Symmetry is used only in runs without liveness, over sets whose members the
model treats alike; in the incident and case runs threads are exchanged together
with their hosts. `CHECK_DEADLOCK FALSE` stands where an instance really stops:
a decision has been made, a bound is used up.

**Fairness.** Weak fairness everywhere stands for "a thread that can take its
next step takes it"; what else is assumed, and why:

- `TaskLifecycle`: strong fairness of `Dequeue`, as the pool worker is a thread
  of its own with a FIFO queue. No client has to ask for anything.
- `NetworkClient`: threads and timers run, time passes, and somebody keeps
  sending requests; nothing is assumed of the resolver or the server.
- `Capa`: strong fairness of `BeginExecution`: the operator repeats the request
  for an approved case, as the API asks for after a failure, and recovers a child
  that a dead process left RUNNING (`RecoverChild`).
- `Learning`, `VisionTraining`: the thread of a round or a run goes on, and the
  operator calls `Recover` for a row whose owner is gone; strong fairness in
  `VisionTraining`, because another request may hold the lock in between.
- `NormalityFollowup`: a call goes on, and an unresolved key is posted again.

### What the violated runs show

- `ApprovedPlanIsExecuted`: the executor takes the lock without waiting and
  gives up when a recovery request or another runner holds it for a moment; the
  approval's only start is then used up, nothing starts the task again, and the
  plan can be neither approved again nor cancelled.
- `RejectedHoldsNothing`: the REJECTED receipt is sealed after the refused
  claim. Meanwhile the rival can be rejected and a retry of the same key can
  claim the row and leave it UNCERTAIN: receipt and row then disagree for good.

### Other disagreements met while modelling

These are statements about the models above that no run checks. Those with a name
are definitions, for which TLC finds a counterexample when it is asked.

- `ReadsFailClosed` (`product_service.py:2183`): the authorization is tested
  once after the claim; revocation stops pending tasks, not the reads of a run in
  progress, although `docs/DATA_SOURCE_AND_COMPLIANCE_SEMIFINAL_RC3.md:101` says
  that future reads fail closed.
- An unnamed execution of a case that is under way beside a named one writes
  `execution.json` without the authorization on record (`product_service.py:5545`,
  `5547`), and `get_capa_case` refuses the case from then on. This is why the
  theorem `CaseBound` asks that requests all name a reviewer or none does.
- An unnamed execution leaves a file that a named retry conflicts on
  (`product_service.py:5578`; `docs/CLAIM_SCOPE.md:32` calls it retryable).
- `CompletedStaysReadable` (`product_service.py:4828`): the lineage digest covers
  the whole family of runs, so a later child of the same parent makes a recovered
  case unreadable, and one that is executed but not yet recovered can no longer be
  recovered: `get_capa_case` refuses every repeated request. `ApprovedRecovers`
  says so in its exception (`Hopeless`), which the part of `progress` with two cases
  needs.
- A registration that finds no destination and then fails before or after its
  exclusive open (`local_model_registry.py:820-826`) unlinks a file that another one
  has made, and perhaps registered, meanwhile. `PacksAreSound` excepts exactly the
  files lost in this way (`unlinked`), until a later registration stores them
  again. Approval and inference hash the files of a pack (`_verify_normality_pack_cas`)
  and refuse such a pack.
- A model that a person has approved may be refused by the final test: `finalize`
  replaces it as champion, and it stays in the approved set.
- A task that needs no approval is checked (`CreateCheck`) and inserted
  (`CreateInsert`) in two transactions and may be claimed under a grant that was
  revoked between them. `NoUnauthorizedRun` is about approval, cancellation and the
  rows a terminal event has failed closed; it does not say that the grant is live
  at the claim. The authorization is read again after it (`CheckAuthorization`).
- `QuarantinedStaysOut` (`capa.py:1546`, `1556`): a record that was taken out can
  come back as the replacement of another.
- A lost event is not harmless (`agent_runtime.py:262`, `task_store.py:2698`): a swallowed
  failure of the sink followed by a success leaves a gap that reconciliation
  refuses; the task of a complete run ends FAILED.
- A process that stops inside a write of the workspace (`operator_workspace.py:498`,
  `777`) leaves an intent of `NormalityFollowup` unresolved for ever.
- `MeasuredIsKept` (`normality_adaptation_service.py:304`,
  `docs/NORMALITY_TTT.md:42`): a rollback that was measured is refused when it
  carries the extraction's code or took longer than its budget.

## 5. Proofs

The theorems hold for arbitrary constants that satisfy the named assumptions,
which give the constants their types (`ConstantsAssumption`,
`CommandsAssumption`, `AccountsAssumption`, `StoresAssumption`,
`ClientAssumption`, `CapaAssumption`, `NoneAssumption`, `ItemsAssumption`,
`BoundAssumption`, `BoundsAssumption`; `CaseAssumption` and
`DecisionsAssumption`, which are `CapaAssumption` and `CommandsAssumption` for the
constants of `MCCases`; `ToolsAssumption`, that there are finitely many tools and
none has the name of a step; `LearningAssumption`, by which the splits of an
input share no sample, as `freeze_dataset` requires: `GROUP_SPLIT_LEAKAGE`,
`PIXEL_SPLIT_LEAKAGE`; and, in `MCDecisionRules`, `BackfillAssumption`, that two
contents look alike in either order, `ClosureAssumption`, that a run has finitely
many findings, `EvaluationAssumption`, that limits and scores are numbers and
categories finitely many, `EpisodeAssumption` and `ThrottleAssumption`, that budgets, limits and windows
are positive numbers, `GateAssumption`, that bounds and tolerances are natural
numbers, `RetrievalAssumption`, that lengths, versions and limits of a query are
natural numbers and a store has up to three cards, for which the logarithms of
BM25 are tabled) and which TLC evaluates in the runs. Each component has one
inductive invariant; it is preserved by each action, in one lemma or one step per
action, and its conjuncts are cited where an action needs them.

- `TaskLifecycleProofs` (`TypeCorrect`, `LiveRunOwned`, `RunsAreAuthorized`,
  `RecoveryFinal`, `OfferedStaysDead`, `ApprovalHasGrant`, `TransitionsObeyed`,
  `AttemptsImplemented`). That a live run has one owner depends on who holds the
  lock (`LockHeld`), that locks are taken for rows that exist (`JobKnown`,
  `QueueKnown`), what the columns say of each status (`RunOwned`, `RowsAgree`),
  that a recovered row is failed with a fresh replacement (`Recovered`), that a
  task offered for recovery has nobody inside (`OfferedOrphaned`), and that an
  approval under way is grounded in a live grant or its row is no longer PLANNED
  (`ApprovalGrounded`). For the refinement of `ExecutionAttempts` every step is
  sorted: it is quiet (the mapped state stutters or waiting rows are closed), or
  it is one creation, claim, publication, failure, orphaning or replacement.
- `IncidentCommandsProofs` (`TypeCorrect`, `WritersAreUnique`,
  `RivalsAreExcluded`, `ReceiptsAndRows`, `EffectsAreNotReplayed`,
  `ScopeImplemented`). Only the thread that created the admission serves the
  command (`Admitted`, `ServedByFresh`), nothing of the command exists before its
  claim (`Untouched`), its row is executing while it serves (`ServedRow`), a
  retry that claimed an orphan excludes a server (`RetryKnows`), two commands of
  a scope never occupy it together (`ScopeHeldOnce`), and files agree with rows
  (`FilesAgree`, `DecidedFirst`). A claim is an acquisition of `EffectScope`, the
  first file its write, a row closed as REJECTED the release; the rest stutters.
- `StoresProofs` is about the run `stores` as a whole. Accounts (`TypeCorrect`,
  `AdministratorRemains`, `OnlyCurrentSessions`, `RevokedStaysRevoked`): a
  session, and a request that has verified a password, is never ahead of its
  account's `credential_version`; while the versions are equal the password is
  the one it was opened with, and a live session's account is active
  (`SessionsTrack`, `WorkTracks`). Pools and the workspace (`ReviewsSound`,
  `RecordsAreKept`): each has an inductive invariant of its own, and a step of
  `MCStores` is one of one component. `PoolInv` says that each version extends the
  one before it (`Linked`) and is logged under one key (`Counted`), what a request
  between two transactions may rely on (`CallFits`), and that a derived subset has
  its snapshot and its source (`SubsetsAreStored`). `WorkspaceInv` says what a
  request that holds no lock still has right (`RequestFits`): the revision it is
  about to open is taken, or follows a whole history by an allowed transition; one
  it has opened is the last and torn, and nobody else has it open (`OpenOnce`); a
  closure points to a revision that stays, since documents only grow (`Grows`,
  `RemediedOn`).
- `NetworkClientProofs` (`TypeCorrect`, `ClosedIffHealthy`, `NoSocketOutlives`).
  The breaker's count equals the history of recorded outcomes and decides the
  state (`CountAgrees`); the watchdog runs only after the deadline
  (`FiredIsLate`).
- `DecisionRulesProofs` is about the run `decision_rules`. Profiles
  (`TypeCorrect`, `KeysAndDefaultsFit`, `RevocationIsFinal`): the id of a create has no row and is in no other request,
  and has a secret only when the create has staged it (`CreatesOwnTheirs`); any
  other request is about a profile with a row, what it read of the key is still
  so, and a key it has deleted is not put back (`UsersKnowTheirs`). Cases
  (`CasesAreClosedClean`): what the loop of the derivation has behind it is settled
  (`Settled`), and a new record is compared with the records of its moment, which
  is enough since likeness is symmetric; of a receipt, counts agree with sets
  (`CountsAgree`) and keys carry the codes of their findings (`KeysCarryCodes`).
  Verdicts (`VerdictsAreSound`): comparisons of rates chain as long as what is
  between is measured (`RatesChain`, `NoWorseChains`), what is forgotten is above
  every drop (`ForgottenIs`) and the same in the mirror (`MirrorForgets`), and at
  each point of the worker the report holds what the service will ask of it
  (`WorkerAt`, `RolledBack`). The throttle (`LoginsAreThrottled`): all that a key
  let pass lately was counted by the open window or by the one before, which was
  full at most and is old when the open one ends (`Slides`); since a request
  never waits longer than the lock's timeout, what is older than both is outside
  of every span that reaches to now (`SlidesBound`), and spans that are over gain
  nothing (`SpansNext`). The gate (`PassesAreEarned`): every perturbed list is
  made of given traces, since what is kept of a list has a place of each rank
  (`RanksAre`, `PerturbationsAre`), so a core check that fails still fails unless
  a failed trace was dropped (`ToolsNeverRelax`); taking a finding away can only
  make the evidence good, and only if it is the one that is not verified
  (`FindingsRelaxOnce`); and a run without findings has nothing to probe
  (`NothingToProbe`), so a veto never comes from a counterfactual check. The
  champion (`ChampionsGetBetter`): the pixels of all categories are counted as one
  set, so that the totals are numbers that only the models decide (`TotalsAre`),
  and an approval under a limit that is met means a greater Dice score
  (`ApprovalsGain`). The retrieval (`RetrievalKeepsOrder`): the fused order is
  strict and total, so every relevant card stands at its rank (`OrderRanks`,
  `InOrderIs`); a better rank is worth more in every channel (`SharesFall`), so a
  card that all prefer has more of the fusion (`PreferredScoresMore`); the limit
  is in no score (`LimitsDoNotOrder`); and when cards that are not eligible are
  taken out, an order-preserving renaming of positions (`Moves`) carries document
  counts, lengths, scores, ranks, fusion and order over (`ScoresMove`, `RanksMove`,
  `FusionMoves`, `OrderMoves`).
- `CapaProofs` (`OneVersionOneChild`, `CaseBound`). What a request relies on is
  written once and stays (`ThreadFits`, with `Grows`); the receipts of a case fit
  one another (`CaseFits`), and builds of different requests differ
  (`OwnersDiffer`). `CaseBound` proves the whole of `CaseIsBound`, which
  `cases` checks as `RivalsAreBound`, when the requests of the cases all name a
  reviewer, or none does, as in the runs; what
  does not need this is proved without it (`OneVersionOneChild`).
- `CasesProofs` is about the run `cases`. Training (`TrainingExclusive`,
  `EndedRunsStay`): at most one row is active (`AtMostOne`), a thread that works holds the lock and its row is
  queued or was cancelled (`StepsFitRows`), runs train on a bound dataset
  (`RowsAreBound`) and answer runs that exist (`AnswersExist`), feedback comes
  from candidates (`FeedbackIsEarned`), and the registry knows the samples of
  each published dataset (`MembersKnown`). The case and the decisions
  (`RivalsBound`, `DecisionsShareScope`): a step of the composition is one of the
  component or leaves its variables (`PartsRun`), and what the instance of `Capa`
  or `IncidentCommands` does is what the instance of their proofs is about
  (`SameCase`, `SameCommands`, `SameScope`), so that `CaseBound` and
  `ScopeImplemented` hold of it.
- `ModelStoresProofs` is about the run `model_stores`, five components. Packs
  (`TypeCorrect`, `PacksSound`, `ApprovalsHold`): a file that is written is partial
  and one registration writes it, since unlinking it makes an orphan of the writer
  (`OneWriter`); the files a registration has passed are whole or were unlinked
  since (`CopiesAreWhole`); a decision or a job is not ahead of its pack, and
  while the pack is as it was read it may be approved, or is approved for the same
  runtime (`DecisionsTrack`, `ApprovedAreValidated`, `JobsTrack`). Learning
  (`LearningFair`, `LearningDecides`, `LearningRuns`): what was tested is consumed,
  what is being tested is consumed too but was not tested before, and no two
  cycles test one sample (`TestsFit`). Each cycle by itself: runs come from
  earlier models and are evaluated as the first (`HistoryFits`), approved models
  are complete, eligible and descend from approved ones (`Earned`), the last run
  and the owner are what the status says (`RowsFit`), and whoever holds the
  execution lock has read the champion and the status that are still there,
  unless its read is stale (`ExecFits`). A step that is not one of a final test
  keeps `TestsFit` whatever it writes (`QuietMoves`), so that most lemmas are
  about one cycle. The theorems have no bound; the parts TLC runs are runs of
  `NormalityPacks` and of `Learning` (`LearningRuns`).
  Follow-up (`FollowupRecorded`): each operation by itself has its pieces on disk
  as far as its call has come, and a record names what it verified
  (`OperationFits`). Experience (`ExperienceGoverned`): the events of a record are
  a prefix of the path to promotion, perhaps with a rejection or revocation at
  its end, in the order of time (`OnPath`), and every line of a store is the card
  of a record that was promoted (`ExperienceInv`). The agent
  (`AgentRunsWhole`): the main thread is a clock and every task has its turn
  (`Turn`, `Clock`), so that what has ended is told from where the thread is
  (`InTurn`); an end appends one event and the hand-offs of all dependencies at
  once (`EventsFit`, `LedgerFits`), a tool that is still in the pool has not
  ended (`PoolFits`), what is stored lacks events only when one was lost, and a
  run whose repair failed is FAILED and has not reached its delivery
  (`SinkFits`, `FateFits`). `RecordsWhole` and `DecisionsHold` put the invariants
  together over the variables that the parts share (`SlotsInv`).

Only model-checked:

- the liveness properties (`ExecutionsEnd`, `NetworkRecovers`,
  `ApprovedRecovers`, `WorkReachesAnEnd`): fairness and ENABLED are outside the
  prover's reach here;
- what the sums over the words of a card and over the objectives of a retention
  come to: the proofs need only that equal inputs give equal sums;
- the violated properties.

## 6. Not modelled

AgentTeams submissions and the backup are planned. Incident analysis computes the
content of a case from its evidence; in `IncidentCommands` it is the choice
between refusing and going on. Image processing, statistics, model training and
inference are numeric and are inputs of the models; sealing, packaging and
release are pure functions of files; benchmarks measure; the API, CLI and desktop
shell translate requests.

Within the modelled parts these are left out: the content of runs and cases,
digests and the fields of receipts, audit events and profile edits; the approval
of a CAPA child outside CAPA (it is `TaskLifecycle`'s); the partial hold of a
derived snapshot and a repeated `create_version` that is stale; the checks of
artifacts before a learning transaction and the latency budget; another body
under a used follow-up key, the busy answer of its lock and its refusal of a lost
member; the legacy keyword
retrieval and the assembly of a context; the skill ledger and the memory store
of the agent runtime; analysis runs, copilot turns and exports of the workspace.
