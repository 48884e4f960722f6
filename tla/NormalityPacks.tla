--------------------------- MODULE NormalityPacks ---------------------------
(***************************************************************************)
(* Normality model packs and inference (local_model_registry.py,            *)
(* normality_adaptation_service.py): content-addressed files, registration, *)
(* approval for the local sandbox, inference and test-time training (TTT).  *)
(*                                                                          *)
(* A registration copies its files one by one into a store that other       *)
(* registrations share, outside any transaction.  An approval validates the *)
(* pack in a subprocess between two transactions, and so does an inference. *)
(* Locks are per actor and request key: requests of two people interleave.  *)
(*                                                                          *)
(* Data that is abstracted: a file is its digest; the receipt of a pack is  *)
(* the number of its revision; the inference backend is the number of its   *)
(* version on disk.  Evidence checks of a registration are Stable.          *)
(***************************************************************************)
EXTENDS Naturals, FiniteSets

CONSTANTS
  Packs, Assets, Runtimes, Files, Jobs,
  FilesOf,       \* the files a pack or an asset consists of
  Stable,        \* the packs with stable v2 evidence
  MaxRevisions,  \* bound: decisions about one pack
  MaxUpgrades,   \* bound: changes of the backend's source
  MaxCrashes     \* bound: processes that stop in a registration or a job

VARIABLES
  cas,        \* the content-addressed files: absent, partial or whole
  copy,       \* the file a registration is at in _cas_copy, and the step it is at
  unlinked,   \* history: whole files that a failing registration unlinked
  todo,       \* files a registration has not stored yet
  record,     \* the row of a pack or an asset
  runtime,    \* the rows of the runtimes
  backend,    \* _normality_backend_sha256()
  deciding,   \* decisions computed from a row that was read and not yet written
  job,        \* inferences and TTT episodes
  validated,  \* history: <<pack, runtime, backend>> that passed the validation
  crashes

vars == <<cas, copy, unlinked, todo, record, runtime, backend, deciding, job, validated, crashes>>

Items == Packs \cup Assets
NoRuntime == "no_runtime"
NewRecord == [status |-> "ABSENT", rt |-> NoRuntime, backend |-> 0, rev |-> 0]
NoJob == [kind |-> "none", step |-> "none", pack |-> "none", asset |-> "none",
          rev |-> 0, rt |-> NoRuntime, backend |-> 0]
NoCopy == [file |-> "none", step |-> "none"]

\* A pack or an asset is a list of files.
ASSUME ItemsAssumption == \A x \in Items : FilesOf[x] \subseteq Files

Registered(x) == record[x].status \notin {"ABSENT", "COPYING"}

Init ==
  /\ cas = [f \in Files |-> "absent"]
  /\ copy = [x \in Items |-> NoCopy]
  /\ unlinked = {}
  /\ todo = [x \in Items |-> {}]
  /\ record = [x \in Items |-> NewRecord]
  /\ runtime = [q \in Runtimes |-> [status |-> "ABSENT", imports |-> FALSE]]
  /\ backend = 0
  /\ deciding = {}
  /\ job = [j \in Jobs |-> NoJob]
  /\ validated = {}
  /\ crashes = 0

-----------------------------------------------------------------------------
(* Registration: _cas_copy for every file, then one transaction *)

StartRegister(x) ==
  /\ record[x].status = "ABSENT"
  /\ record' = [record EXCEPT ![x].status = "COPYING"]
  /\ todo' = [todo EXCEPT ![x] = FilesOf[x]]
  /\ UNCHANGED <<cas, copy, unlinked, runtime, backend, deciding, job, validated, crashes>>

Abort(x) ==
  /\ record' = [record EXCEPT ![x] = NewRecord]
  /\ todo' = [todo EXCEPT ![x] = {}]

At(x, f, step) == copy[x] = [file |-> f, step |-> step]

\* The files are stored one after the other.  destination.exists() decides
\* what is tried, long before it is tried.
LookCopy(x, f) ==
  /\ f \in todo[x] /\ copy[x] = NoCopy
  /\ copy' = [copy EXCEPT ![x] = [file |-> f, step |-> IF cas[f] = "absent" THEN "open" ELSE "verify"]]
  /\ UNCHANGED <<cas, unlinked, todo, record, runtime, backend, deciding, job, validated, crashes>>

\* open("xb") succeeds for one of them; FileExistsError sends the other one to
\* the content.
OpenCopy(x, f) ==
  /\ At(x, f, "open")
  /\ \/ /\ cas[f] = "absent"
        /\ cas' = [cas EXCEPT ![f] = "partial"]
        /\ copy' = [copy EXCEPT ![x].step = "write"]
     \/ /\ cas[f] # "absent"
        /\ copy' = [copy EXCEPT ![x].step = "verify"]
        /\ UNCHANGED cas
  /\ UNCHANGED <<unlinked, todo, record, runtime, backend, deciding, job, validated, crashes>>

\* Written to the end: what has been unlinked meanwhile stays so.
EndCopy(x, f) ==
  /\ \/ /\ At(x, f, "write")
        /\ cas' = [cas EXCEPT ![f] = "whole"]
        /\ unlinked' = unlinked \ {f}
     \/ At(x, f, "orphan") /\ UNCHANGED <<cas, unlinked>>
  /\ copy' = [copy EXCEPT ![x].step = "verify"]
  /\ UNCHANGED <<todo, record, runtime, backend, deciding, job, validated, crashes>>

\* Any other exception of opening the source, opening the destination or
\* copying: the destination is unlinked, whoever made it.  An unlink that fails
\* itself leaves what CrashRegister leaves.
FailCopy(x, f) ==
  /\ copy[x].file = f /\ copy[x].step \in {"open", "write", "orphan"}
  /\ cas' = [cas EXCEPT ![f] = "absent"]
  /\ unlinked' = IF cas[f] = "whole" THEN unlinked \cup {f} ELSE unlinked
  /\ copy' = [y \in Items |-> IF y = x THEN NoCopy
                              ELSE IF At(y, f, "write") THEN [file |-> f, step |-> "orphan"]
                              ELSE copy[y]]
  /\ Abort(x)
  /\ UNCHANGED <<runtime, backend, deciding, job, validated, crashes>>

\* Mutant of Reusable: a file that exists is taken for what its name says.
ReusableByName(f) == cas[f] # "absent"

\* The content is hashed, of a file that was there and of one just copied.
Reusable(f) == cas[f] = "whole"

VerifyCopy(x, f) ==
  /\ At(x, f, "verify") /\ Reusable(f)
  /\ todo' = [todo EXCEPT ![x] = @ \ {f}]
  /\ copy' = [copy EXCEPT ![x] = NoCopy]
  /\ UNCHANGED <<cas, unlinked, record, runtime, backend, deciding, job, validated, crashes>>

\* CAS_CONTENT_MISMATCH of a file another registration is writing, died writing
\* or unlinked, CAS_SOURCE_CHANGED or any other exception outside the copying:
\* nothing is unlinked.
RefuseRegister(x) ==
  /\ record[x].status = "COPYING" /\ copy[x].step \in {"none", "verify"}
  /\ Abort(x)
  /\ copy' = [copy EXCEPT ![x] = NoCopy]
  /\ UNCHANGED <<cas, unlinked, runtime, backend, deciding, job, validated, crashes>>

CommitRegister(x) ==
  /\ record[x].status = "COPYING" /\ todo[x] = {}
  /\ record' = [record EXCEPT ![x].status =
                  IF x \in Assets THEN "FROZEN" ELSE IF x \in Stable THEN "VERIFIED" ELSE "HOLD"]
  /\ UNCHANGED <<cas, copy, unlinked, todo, runtime, backend, deciding, job, validated, crashes>>

\* The process stops in the copy: nothing unlinks the file.
CrashRegister(x) ==
  /\ record[x].status = "COPYING" /\ crashes < MaxCrashes
  /\ crashes' = crashes + 1
  /\ Abort(x)
  /\ copy' = [copy EXCEPT ![x] = NoCopy]
  /\ UNCHANGED <<cas, unlinked, runtime, backend, deciding, job, validated>>

-----------------------------------------------------------------------------
(* Runtimes *)

RegisterRuntime(q, ready) ==
  /\ runtime[q].status = "ABSENT"
  /\ runtime' = [runtime EXCEPT ![q].status = IF ready THEN "METADATA" ELSE "UNAVAILABLE"]
  /\ UNCHANGED <<cas, copy, unlinked, todo, record, backend, deciding, job, validated, crashes>>

\* A probe replaces the whole result of the previous one.
ProbeRuntime(q, ready, imports) ==
  /\ runtime[q].status # "ABSENT"
  /\ imports => ready
  /\ runtime' = [runtime EXCEPT ![q] = [status |-> IF ready THEN "PROBED" ELSE "UNAVAILABLE",
                                        imports |-> imports]]
  /\ UNCHANGED <<cas, copy, unlinked, todo, record, backend, deciding, job, validated, crashes>>

ImportProbed(q) == runtime[q].status = "PROBED" /\ runtime[q].imports

-----------------------------------------------------------------------------
(* approve_normality_model_pack *)

MayApprove(p) == p \in Stable /\ record[p].status \in {"VERIFIED", "APPROVED"}

\* Read, checked with its files and validated in the runtime, with the backend
\* of the moment.
StartApprove(p, q) ==
  /\ MayApprove(p) /\ ImportProbed(q) /\ record[p].rev < MaxRevisions
  /\ \A f \in FilesOf[p] : cas[f] = "whole"
  /\ deciding' = deciding \cup {[pack |-> p, action |-> "APPROVED", rev |-> record[p].rev,
                                 rt |-> q, backend |-> backend]}
  /\ validated' = validated \cup {<<p, q, backend>>}
  /\ UNCHANGED <<cas, copy, unlinked, todo, record, runtime, backend, job, crashes>>

StartReject(p) ==
  /\ p \in Packs /\ Registered(p) /\ record[p].rev < MaxRevisions
  /\ deciding' = deciding \cup {[pack |-> p, action |-> "REJECTED", rev |-> record[p].rev,
                                 rt |-> record[p].rt, backend |-> record[p].backend]}
  /\ UNCHANGED <<cas, copy, unlinked, todo, record, runtime, backend, job, validated, crashes>>

\* Mutant of StillThatPack: the answer of the validation is written as it comes.
AnyPack(d) == TRUE

\* Only the approval reads the row again; a rejection is written over whatever
\* has become of it.
StillThatPack(d) == d.action = "APPROVED" => record[d.pack].rev = d.rev

CommitDecision(d) ==
  /\ d \in deciding /\ StillThatPack(d)
  /\ deciding' = deciding \ {d}
  /\ record' = [record EXCEPT ![d.pack] = [status |-> d.action, rt |-> d.rt, backend |-> d.backend,
                                           rev |-> @.rev + 1]]
  /\ UNCHANGED <<cas, copy, unlinked, todo, runtime, backend, job, validated, crashes>>

RefuseDecision(d) ==
  /\ d \in deciding /\ ~StillThatPack(d)
  /\ deciding' = deciding \ {d}
  /\ UNCHANGED <<cas, copy, unlinked, todo, record, runtime, backend, job, validated, crashes>>

-----------------------------------------------------------------------------
(* run_normality_inference and run_ttt *)

\* Mutant of BoundInputs: the approval is enough.
BoundInputsAnyBackend(p, a) ==
  /\ record[p].status = "APPROVED" /\ record[a].status = "FROZEN"
  /\ ImportProbed(record[p].rt)
  /\ \A f \in FilesOf[p] \cup FilesOf[a] : cas[f] = "whole"

\* _bound_normality_inputs.
BoundInputs(p, a) ==
  /\ record[p].status = "APPROVED" /\ record[a].status = "FROZEN"
  /\ record[p].backend = backend
  /\ ImportProbed(record[p].rt)
  /\ \A f \in FilesOf[p] \cup FilesOf[a] : cas[f] = "whole"

StartJob(j, kind, p, a) ==
  /\ job[j] = NoJob /\ BoundInputs(p, a)
  /\ job' = [job EXCEPT ![j] = [kind |-> kind, step |-> "bound", pack |-> p, asset |-> a,
                                rev |-> record[p].rev, rt |-> record[p].rt, backend |-> backend]]
  /\ UNCHANGED <<cas, copy, unlinked, todo, record, runtime, backend, deciding, validated, crashes>>

\* The worker answers with the backend it ran.
Work(j) ==
  /\ job[j].step = "bound" /\ backend = job[j].backend
  /\ job' = [job EXCEPT ![j].step = "worked"]
  /\ UNCHANGED <<cas, copy, unlinked, todo, record, runtime, backend, deciding, validated, crashes>>

\* run_ttt binds everything again after the worker.
Rebind(j) ==
  /\ job[j].kind = "ttt" /\ job[j].step = "worked"
  /\ BoundInputs(job[j].pack, job[j].asset) /\ record[job[j].pack].rev = job[j].rev
  /\ job' = [job EXCEPT ![j].step = "rebound"]
  /\ UNCHANGED <<cas, copy, unlinked, todo, record, runtime, backend, deciding, validated, crashes>>

\* Mutant of MayPublish: what was bound again needs no third look.
MayPublishRebound(j) == job[j].step = IF job[j].kind = "ttt" THEN "rebound" ELSE "worked"

\* Only run_ttt compares the receipt of the pack inside the transaction.
MayPublish(j) ==
  \/ job[j].kind = "plain" /\ job[j].step = "worked"
  \/ job[j].kind = "ttt" /\ job[j].step = "rebound" /\ record[job[j].pack].rev = job[j].rev

PublishJob(j) ==
  /\ MayPublish(j)
  /\ job' = [job EXCEPT ![j].step = "published"]
  /\ UNCHANGED <<cas, copy, unlinked, todo, record, runtime, backend, deciding, validated, crashes>>

\* A worker that failed or a binding that changed: run_ttt records the failure.
FailJob(j) ==
  /\ job[j].step \in {"bound", "worked", "rebound"}
  /\ job[j].step = "rebound" => ~MayPublish(j)
  /\ job' = [job EXCEPT ![j] = IF @.kind = "ttt" THEN [@ EXCEPT !.step = "failed"] ELSE NoJob]
  /\ UNCHANGED <<cas, copy, unlinked, todo, record, runtime, backend, deciding, validated, crashes>>

CrashJob(j) ==
  /\ job[j].step \in {"bound", "worked", "rebound"} /\ crashes < MaxCrashes
  /\ crashes' = crashes + 1
  /\ job' = [job EXCEPT ![j] = NoJob]
  /\ UNCHANGED <<cas, copy, unlinked, todo, record, runtime, backend, deciding, validated>>

-----------------------------------------------------------------------------
UpgradeBackend ==
  /\ backend < MaxUpgrades
  /\ backend' = backend + 1
  /\ UNCHANGED <<cas, copy, unlinked, todo, record, runtime, deciding, job, validated, crashes>>

Next ==
  \/ \E x \in Items :
       \/ StartRegister(x) \/ CommitRegister(x) \/ RefuseRegister(x) \/ CrashRegister(x)
       \/ \E f \in Files : \/ LookCopy(x, f) \/ OpenCopy(x, f) \/ EndCopy(x, f)
                           \/ FailCopy(x, f) \/ VerifyCopy(x, f)
  \/ \E q \in Runtimes : \E ready \in BOOLEAN :
       \/ RegisterRuntime(q, ready)
       \/ \E imports \in BOOLEAN : ProbeRuntime(q, ready, imports)
  \/ \E p \in Packs : StartReject(p) \/ \E q \in Runtimes : StartApprove(p, q)
  \/ \E d \in deciding : CommitDecision(d) \/ RefuseDecision(d)
  \/ \E j \in Jobs :
       \/ \E kind \in {"plain", "ttt"}, p \in Packs, a \in Assets : StartJob(j, kind, p, a)
       \/ Work(j) \/ Rebind(j) \/ PublishJob(j) \/ FailJob(j) \/ CrashJob(j)
  \/ UpgradeBackend

Spec == Init /\ [][Next]_vars

-----------------------------------------------------------------------------
(* Properties *)

\* What a registered pack or asset is made of is whole under its digest: no
\* interleaving of copies, failures and stops registers a file that is missing
\* or written in part.  The files of `unlinked` are excepted, which _cas_copy
\* does not keep: a registration that found no destination and then fails
\* removes the file another one has made and registered meanwhile, until a
\* later registration stores it again.
RegisteredIsWhole ==
  \A x \in Items : Registered(x) => \A f \in FilesOf[x] \ unlinked : cas[f] = "whole"

\* While a file is written it is partial, and one registration writes it: what
\* is unlinked under a writer is never the writer's again, so that no file is
\* put together from two copies.
OneWriter ==
  \A x \in Items, f \in Files : At(x, f, "write") =>
    cas[f] = "partial" /\ \A y \in Items : At(y, f, "write") => y = x

\* Every published inference ran the backend and the runtime its pack was
\* validated with, however often the pack was decided about and either changed.
RunsWhatWasValidated ==
  \A j \in Jobs : job[j].step = "published" => <<job[j].pack, job[j].rt, job[j].backend>> \in validated

\* What a registry names was stored as a whole, by one writer a file, and what
\* is published ran as validated.
PacksAreSound == RegisteredIsWhole /\ OneWriter /\ RunsWhatWasValidated

\* A rejected pack is never approved: an approval that was being validated
\* when the rejection came does not undo it.
KeepsRejected == \A p \in Packs : record[p].status = "REJECTED" => record'[p].status = "REJECTED"

\* An episode of test-time training is published under the approval it started
\* with, not under one that was withdrawn or replaced while it ran.
PublishesApproved ==
  \A j \in Jobs : (job[j].kind = "ttt" /\ job[j].step # "published" /\ job'[j].step = "published")
    => record[job[j].pack].status = "APPROVED" /\ record[job[j].pack].rt = job[j].rt
       /\ record[job[j].pack].rev = job[j].rev

\* Both hold of every step: a decision about a pack stands against what was
\* computed before it.
ApprovalsStand == [][KeepsRejected /\ PublishesApproved]_vars
=============================================================================
