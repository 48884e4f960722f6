-------------------------- MODULE ModelStoresProofs --------------------------
(***************************************************************************)
(* Proofs about the stores behind models and agent runs (MCModelStores),    *)
(* for any constants: NormalityPacks by itself - what is registered stays   *)
(* whole, what is published ran as validated, and decisions stand -,        *)
(* Learning - final tests are used once, rounds are comparable, and what a  *)
(* person approved was earned -, and over the slots NormalityFollowup,      *)
(* ApprovedExperience and AgentRuntime: what they record is whole.          *)
(***************************************************************************)
EXTENDS MCModelStores, FiniteSetTheorems, SequenceTheorems, TLAPS

Kinds == {"none", "plain", "ttt"}
Steps == {"none", "bound", "worked", "rebound", "published", "failed"}
Statuses == {"ABSENT", "COPYING", "FROZEN", "VERIFIED", "HOLD", "APPROVED", "REJECTED"}
Bindings == Runtimes \cup {NoRuntime}

Records == [status : Statuses, rt : Bindings, backend : Nat, rev : Nat]
Decisions == [pack : Packs, action : {"APPROVED", "REJECTED"}, rev : Nat, rt : Bindings, backend : Nat]
JobRows == [kind : Kinds, step : Steps, pack : Packs \cup {"none"}, asset : Assets \cup {"none"},
            rev : Nat, rt : Bindings, backend : Nat]

Copies == [file : Files \cup {"none"}, step : {"none", "open", "write", "orphan", "verify"}]

TypeOK ==
  /\ cas \in [Files -> {"absent", "partial", "whole"}]
  /\ copy \in [Items -> Copies]
  /\ unlinked \subseteq Files
  /\ todo \in [Items -> SUBSET Files]
  /\ record \in [Items -> Records]
  /\ backend \in Nat
  /\ deciding \subseteq Decisions
  /\ job \in [Jobs -> JobRows]

\* A registration is under way while it has files to store, and it is at one of
\* them; the files it has stored, and those of a registered item, are whole or
\* have been unlinked since.
CopiesAreWhole ==
  \A x \in Items :
    /\ todo[x] # {} => record[x].status = "COPYING"
    /\ copy[x].step # "none" => copy[x].file \in todo[x]
    /\ record[x].status # "ABSENT" =>
         \A f \in FilesOf[x] : f \in todo[x] \/ cas[f] = "whole" \/ f \in unlinked

\* A decision that is not written yet is about a registered pack and not ahead
\* of it.  While the pack is as the approval read it, it may be approved.
DecisionsTrack ==
  \A d \in deciding :
    /\ Registered(d.pack)
    /\ d.rev <= record[d.pack].rev
    /\ d.action = "APPROVED" =>
         /\ <<d.pack, d.rt, d.backend>> \in validated
         /\ d.rev = record[d.pack].rev => record[d.pack].status \in {"VERIFIED", "APPROVED"}

\* An approved pack was validated in the runtime and with the backend it names.
ApprovedAreValidated ==
  \A p \in Items : record[p].status = "APPROVED" => <<p, record[p].rt, record[p].backend>> \in validated

\* A job runs what its pack was validated with.  It is not ahead of the pack;
\* while the pack is as the job read it, it is approved for the same runtime.
JobsTrack ==
  \A j \in Jobs : job[j].step # "none" =>
    LET p == job[j].pack IN
    /\ p \in Packs
    /\ Registered(p)
    /\ <<p, job[j].rt, job[j].backend>> \in validated
    /\ job[j].rev <= record[p].rev
    /\ job[j].rev = record[p].rev => record[p].status = "APPROVED" /\ record[p].rt = job[j].rt

\* The inductive invariant.
IInv ==
  /\ TypeOK /\ OneWriter /\ CopiesAreWhole /\ DecisionsTrack /\ ApprovedAreValidated /\ JobsTrack

deciders == <<deciding, job, validated>>

-----------------------------------------------------------------------------
LEMMA InitIInv == Init => IInv
<1> SUFFICES ASSUME Init PROVE IInv
  OBVIOUS
<1>1. NewRecord \in Records /\ NewRecord.status = "ABSENT" /\ NoJob \in JobRows /\ NoJob.step = "none"
  BY DEF NewRecord, NoJob, Records, JobRows, Statuses, Bindings, Kinds, Steps
<1>2. /\ cas = [f \in Files |-> "absent"] /\ copy = [x \in Items |-> NoCopy] /\ unlinked = {}
      /\ todo = [x \in Items |-> {}] /\ record = [x \in Items |-> NewRecord]
      /\ backend = 0 /\ deciding = {} /\ job = [j \in Jobs |-> NoJob]
  BY DEF Init
<1>3. NoCopy \in Copies /\ NoCopy.step = "none" /\ \A f : NoCopy # [file |-> f, step |-> "write"]
  BY DEF NoCopy, Copies
<1>4. OneWriter
  BY <1>2, <1>3 DEF OneWriter, At
<1> QED
  BY <1>1, <1>2, <1>3, <1>4 DEF IInv, TypeOK, CopiesAreWhole, DecisionsTrack,
     ApprovedAreValidated, JobsTrack

\* Registration: as long as only the rows of items that are not registered
\* change, and to nothing that is decided about, decisions and jobs keep.
LEMMA UnregisteredRows ==
  ASSUME IInv, UNCHANGED deciders, NEW x \in Items, ~Registered(x), NEW row \in Records,
         record' = [record EXCEPT ![x] = row],
         row.status \notin {"APPROVED"}
  PROVE  DecisionsTrack' /\ ApprovedAreValidated' /\ JobsTrack'
<1>1. \A y \in Items \ {x} : record'[y] = record[y]
  BY DEF IInv, TypeOK
<1>2. record'[x] = row
  BY DEF IInv, TypeOK
<1>3. /\ \A d \in deciding : d.pack \in Items /\ d.pack # x
      /\ \A j \in Jobs : job[j].step # "none" => job[j].pack \in Items /\ job[j].pack # x
  BY DEF IInv, TypeOK, DecisionsTrack, JobsTrack, Decisions, Items
<1>4. DecisionsTrack'
  BY <1>1, <1>3 DEF deciders, IInv, DecisionsTrack, Registered
<1>5. ApprovedAreValidated'
  BY <1>1, <1>2 DEF deciders, IInv, ApprovedAreValidated
<1>6. JobsTrack'
  BY <1>1, <1>3 DEF deciders, IInv, JobsTrack, Registered
<1> QED BY <1>4, <1>5, <1>6

\* A change of one status.
LEMMA StatusRow ==
  ASSUME TypeOK, NEW x \in Items, NEW s \in Statuses
  PROVE  /\ [record[x] EXCEPT !.status = s] \in Records
         /\ [record[x] EXCEPT !.status = s].status = s
BY DEF TypeOK, Records

LEMMA StartRegisterStep ==
  ASSUME IInv, NEW x \in Items, StartRegister(x)
  PROVE  IInv'
<1> DEFINE row == [record[x] EXCEPT !.status = "COPYING"]
<1>1. row \in Records /\ row.status = "COPYING"
  BY StatusRow DEF IInv, Statuses
<1>2. record' = [record EXCEPT ![x] = row]
  BY DEF StartRegister
<1> HIDE DEF row
<1>3. /\ record[x].status = "ABSENT" /\ todo' = [todo EXCEPT ![x] = FilesOf[x]]
      /\ UNCHANGED <<cas, copy, unlinked, backend, deciding, job, validated>>
  BY DEF StartRegister
<1>4. FilesOf[x] \in SUBSET Files
  BY ItemsAssumption
<1>5. TypeOK'
  BY <1>1, <1>2, <1>3, <1>4 DEF IInv, TypeOK
<1>6. todo[x] = {}
  BY <1>3 DEF IInv, CopiesAreWhole
<1>7. OneWriter'
  BY <1>3 DEF IInv, OneWriter, At
<1>8. CopiesAreWhole'
  BY <1>1, <1>2, <1>3, <1>4, <1>6 DEF IInv, TypeOK, CopiesAreWhole
<1>9. DecisionsTrack' /\ ApprovedAreValidated' /\ JobsTrack'
  BY <1>1, <1>2, <1>3, UnregisteredRows DEF deciders, Registered
<1> QED BY <1>5, <1>7, <1>8, <1>9 DEF IInv

\* Where a registration is, and where the others are while it moves.
LEMMA CopyMoves ==
  ASSUME TypeOK, NEW x \in Items, NEW f \in Files, NEW from, At(x, f, from),
         NEW to \in {"none", "open", "write", "orphan", "verify"},
         copy' = [copy EXCEPT ![x].step = to]
  PROVE  /\ copy' \in [Items -> Copies] /\ copy'[x] = [file |-> f, step |-> to]
         /\ copy[x].file = f /\ copy[x].step = from /\ \A y \in Items \ {x} : copy'[y] = copy[y]
<1>1. copy[x] = [file |-> f, step |-> from]
  BY DEF At
<1>2. [copy[x] EXCEPT !.step = to] = [file |-> f, step |-> to]
  BY <1>1
<1>3. [file |-> f, step |-> to] \in Copies
  BY DEF Copies
<1> QED BY <1>1, <1>2, <1>3 DEF TypeOK

\* The copies that go on: a file is looked for, opened and written to its end,
\* and its content is verified.
LEMMA CopyStep ==
  ASSUME IInv, NEW x \in Items, NEW f \in Files,
         LookCopy(x, f) \/ OpenCopy(x, f) \/ EndCopy(x, f) \/ VerifyCopy(x, f)
  PROVE  IInv'
<1>1. UNCHANGED <<record, backend, deciding, job, validated>>
  BY DEF LookCopy, OpenCopy, EndCopy, VerifyCopy
<1>2. DecisionsTrack' /\ ApprovedAreValidated' /\ JobsTrack'
  BY <1>1 DEF IInv, DecisionsTrack, ApprovedAreValidated, JobsTrack, Registered
<1>3. CASE LookCopy(x, f)
  <2>1. PICK s \in {"open", "verify"} : copy' = [copy EXCEPT ![x] = [file |-> f, step |-> s]]
    BY <1>3 DEF LookCopy
  <2>2. f \in todo[x] /\ UNCHANGED <<cas, unlinked, todo>>
    BY <1>3 DEF LookCopy
  <2>3. /\ copy' \in [Items -> Copies] /\ copy'[x] = [file |-> f, step |-> s]
        /\ \A y \in Items \ {x} : copy'[y] = copy[y]
    BY <2>1 DEF IInv, TypeOK, Copies
  <2>4. TypeOK' /\ CopiesAreWhole'
    BY <1>1, <2>2, <2>3 DEF IInv, TypeOK, CopiesAreWhole
  <2>5. OneWriter'
    BY <2>2, <2>3 DEF IInv, OneWriter, At
  <2> QED BY <1>2, <2>4, <2>5 DEF IInv
<1>4. CASE OpenCopy(x, f)
  <2>1. PICK s \in {"write", "verify"} :
          /\ copy' = [copy EXCEPT ![x].step = s]
          /\ IF s = "write" THEN cas[f] = "absent" /\ cas' = [cas EXCEPT ![f] = "partial"] ELSE cas' = cas
    BY <1>4 DEF OpenCopy
  <2>2. At(x, f, "open") /\ UNCHANGED <<unlinked, todo>>
    BY <1>4 DEF OpenCopy
  <2>3. /\ copy' \in [Items -> Copies] /\ copy'[x] = [file |-> f, step |-> s]
        /\ copy[x].file = f /\ copy[x].step = "open" /\ \A y \in Items \ {x} : copy'[y] = copy[y]
    <3>1. copy[x] = [file |-> f, step |-> "open"]
      BY <2>2 DEF At
    <3>2. [copy[x] EXCEPT !.step = s] = [file |-> f, step |-> s] /\ [file |-> f, step |-> s] \in Copies
      BY <3>1 DEF Copies
    <3> QED BY <2>1, <3>1, <3>2 DEF IInv, TypeOK
  <2>4. TypeOK'
    BY <1>1, <2>1, <2>2, <2>3 DEF IInv, TypeOK
  <2>5. CopiesAreWhole'
    <3>1. \A g \in Files : cas[g] = "whole" => cas'[g] = "whole"
      BY <2>1 DEF IInv, TypeOK
    <3>2. \A y \in Items : copy'[y].file = copy[y].file /\ (copy'[y].step # "none" => copy[y].step # "none")
      BY <2>3
    <3> QED BY <1>1, <2>2, <3>1, <3>2, ItemsAssumption DEF IInv, CopiesAreWhole
  <2>6. OneWriter'
    BY <2>1, <2>3 DEF IInv, TypeOK, OneWriter, At
  <2> QED BY <1>2, <2>4, <2>5, <2>6 DEF IInv
<1>5. CASE EndCopy(x, f)
  <2>1. PICK s \in {"write", "orphan"} :
          /\ At(x, f, s)
          /\ IF s = "write" THEN cas' = [cas EXCEPT ![f] = "whole"] /\ unlinked' = unlinked \ {f}
             ELSE UNCHANGED <<cas, unlinked>>
    BY <1>5 DEF EndCopy
  <2>2. todo' = todo /\ copy' = [copy EXCEPT ![x].step = "verify"]
    BY <1>5 DEF EndCopy
  <2>3. /\ copy' \in [Items -> Copies] /\ copy'[x] = [file |-> f, step |-> "verify"]
        /\ copy[x].file = f /\ copy[x].step = s /\ \A y \in Items \ {x} : copy'[y] = copy[y]
    BY <2>1, <2>2, CopyMoves DEF IInv
  <2>4. TypeOK'
    BY <1>1, <2>1, <2>2, <2>3 DEF IInv, TypeOK
  <2>5. CopiesAreWhole'
    <3>1. \A g \in Files : cas[g] = "whole" \/ g \in unlinked => cas'[g] = "whole" \/ g \in unlinked'
      BY <2>1 DEF IInv, TypeOK
    <3>2. \A y \in Items : copy'[y].file = copy[y].file /\ (copy'[y].step # "none" => copy[y].step # "none")
      BY <2>1, <2>3
    <3> QED BY <1>1, <2>2, <3>1, <3>2, ItemsAssumption DEF IInv, CopiesAreWhole
  <2>6. OneWriter'
    <3> SUFFICES ASSUME NEW y \in Items, NEW g \in Files, At(y, g, "write")'
                 PROVE  cas'[g] = "partial" /\ \A z \in Items : At(z, g, "write")' => z = y
      BY DEF OneWriter
    <3>1. y # x /\ At(y, g, "write") /\ \A z \in Items : At(z, g, "write")' => At(z, g, "write")
      BY <2>3 DEF At
    <3>2. cas[g] = "partial" /\ \A z \in Items : At(z, g, "write") => z = y
      BY <3>1 DEF IInv, OneWriter
    <3>3. s = "write" => g # f
      BY <2>1, <3>1, <3>2
    <3> QED BY <2>1, <3>1, <3>2, <3>3 DEF IInv, TypeOK
  <2> QED BY <1>2, <2>4, <2>5, <2>6 DEF IInv
<1>6. CASE VerifyCopy(x, f)
  <2>1. /\ cas[f] = "whole" /\ At(x, f, "verify") /\ UNCHANGED <<cas, unlinked>>
        /\ todo' = [todo EXCEPT ![x] = todo[x] \ {f}] /\ copy' = [copy EXCEPT ![x] = NoCopy]
    BY <1>6 DEF VerifyCopy, Reusable
  <2>2. NoCopy \in Copies /\ NoCopy.step = "none"
    BY DEF NoCopy, Copies
  <2>3. copy' \in [Items -> Copies] /\ copy'[x].step = "none" /\ \A y \in Items \ {x} : copy'[y] = copy[y]
    BY <2>1, <2>2 DEF IInv, TypeOK
  <2>4. TypeOK' /\ CopiesAreWhole'
    BY <1>1, <2>1, <2>3 DEF IInv, TypeOK, CopiesAreWhole
  <2>5. OneWriter'
    BY <2>1, <2>3 DEF IInv, OneWriter, At
  <2> QED BY <1>2, <2>4, <2>5 DEF IInv
<1> QED BY <1>3, <1>4, <1>5, <1>6

\* A registration that is under way is not registered.
LEMMA AbortedRow ==
  ASSUME IInv, NEW x \in Items,
         CrashRegister(x) \/ RefuseRegister(x) \/ \E f \in Files : FailCopy(x, f)
  PROVE  /\ record[x].status = "COPYING"
         /\ record' = [record EXCEPT ![x] = NewRecord]
         /\ todo' = [todo EXCEPT ![x] = {}]
         /\ UNCHANGED <<backend, deciding, job, validated>>
BY DEF CrashRegister, RefuseRegister, FailCopy, Abort, IInv, CopiesAreWhole

\* The copies that end: the registration is as if it had not begun.  What it
\* unlinks is absent, and remembered where another one had made it.
LEMMA AbortStep ==
  ASSUME IInv, NEW x \in Items,
         CrashRegister(x) \/ RefuseRegister(x) \/ \E f \in Files : FailCopy(x, f)
  PROVE  IInv'
<1>1. /\ record[x].status = "COPYING"
      /\ record' = [record EXCEPT ![x] = NewRecord]
      /\ todo' = [todo EXCEPT ![x] = {}]
      /\ UNCHANGED <<backend, deciding, job, validated>>
  BY AbortedRow
<1>2. NewRecord \in Records /\ NewRecord.status = "ABSENT" /\ NoCopy \in Copies /\ NoCopy.step = "none"
  BY DEF NewRecord, Records, Statuses, Bindings, NoCopy, Copies
<1> DEFINE Kept ==
             /\ cas' \in [Files -> {"absent", "partial", "whole"}]
             /\ unlinked' \subseteq Files
             /\ copy' \in [Items -> Copies] /\ copy'[x] = NoCopy
             /\ \A y \in Items : copy'[y].step # "none" =>
                  y # x /\ copy[y].step # "none" /\ copy'[y].file = copy[y].file
             /\ \A y \in Items, g \in Files : At(y, g, "write")' => At(y, g, "write") /\ cas'[g] = cas[g]
             /\ \A g \in Files : cas[g] = "whole" \/ g \in unlinked => cas'[g] = "whole" \/ g \in unlinked'
<1>3. Kept
  <2>1. CASE CrashRegister(x) \/ RefuseRegister(x)
    <3>1. copy' = [copy EXCEPT ![x] = NoCopy] /\ UNCHANGED <<cas, unlinked>>
      BY <2>1 DEF CrashRegister, RefuseRegister
    <3>2. copy' \in [Items -> Copies] /\ copy'[x] = NoCopy /\ \A y \in Items \ {x} : copy'[y] = copy[y]
      BY <1>2, <3>1 DEF IInv, TypeOK
    <3> QED BY <1>2, <3>1, <3>2 DEF IInv, TypeOK, At
  <2>2. ASSUME NEW f \in Files, FailCopy(x, f)
        PROVE  Kept
    <3> DEFINE orphan == [file |-> f, step |-> "orphan"]
    <3>1. /\ cas' = [cas EXCEPT ![f] = "absent"]
          /\ unlinked' = IF cas[f] = "whole" THEN unlinked \cup {f} ELSE unlinked
          /\ copy' = [y \in Items |-> IF y = x THEN NoCopy ELSE IF At(y, f, "write") THEN orphan ELSE copy[y]]
      BY <2>2 DEF FailCopy
    <3>2. orphan \in Copies /\ orphan.file = f /\ orphan.step = "orphan"
      BY DEF Copies
    <3>3. \A y \in Items \ {x} : IF At(y, f, "write") THEN copy'[y] = orphan ELSE copy'[y] = copy[y]
      BY <3>1
    <3>4. copy'[x] = NoCopy
      BY <3>1
    <3> HIDE DEF orphan
    <3>5. copy' \in [Items -> Copies]
      BY <1>2, <3>1, <3>2 DEF IInv, TypeOK
    <3>6. \A y \in Items : copy'[y].step # "none" =>
            y # x /\ copy[y].step # "none" /\ copy'[y].file = copy[y].file
      BY <1>2, <3>2, <3>3, <3>4 DEF At
    <3>7. ASSUME NEW y \in Items, NEW g \in Files, At(y, g, "write")'
          PROVE  At(y, g, "write") /\ cas'[g] = cas[g]
      <4>1. copy'[y].step = "write" /\ copy'[y].file = g
        BY <3>7 DEF At
      <4>2. y # x /\ copy'[y] = copy[y] /\ ~At(y, f, "write")
        BY <1>2, <3>2, <3>3, <3>4, <4>1
      <4>3. At(y, g, "write") /\ g # f
        BY <3>7, <4>2 DEF At
      <4> QED BY <3>1, <4>3 DEF IInv, TypeOK
    <3>8. /\ cas' \in [Files -> {"absent", "partial", "whole"}] /\ unlinked' \subseteq Files
          /\ \A g \in Files : cas[g] = "whole" \/ g \in unlinked => cas'[g] = "whole" \/ g \in unlinked'
      BY <3>1 DEF IInv, TypeOK
    <3> QED BY <3>4, <3>5, <3>6, <3>7, <3>8
  <2> QED BY <2>1, <2>2
<1>4. TypeOK'
  BY <1>1, <1>2, <1>3 DEF IInv, TypeOK
<1>5. OneWriter'
  BY <1>3 DEF IInv, OneWriter
<1>6. CopiesAreWhole'
  BY <1>1, <1>2, <1>3, ItemsAssumption DEF IInv, TypeOK, CopiesAreWhole
<1>7. DecisionsTrack' /\ ApprovedAreValidated' /\ JobsTrack'
  BY <1>1, <1>2, UnregisteredRows DEF deciders, Registered
<1> QED BY <1>4, <1>5, <1>6, <1>7 DEF IInv

LEMMA CommitRegisterStep ==
  ASSUME IInv, NEW x \in Items, CommitRegister(x)
  PROVE  IInv'
<1>1. PICK s \in {"FROZEN", "VERIFIED", "HOLD"} : record' = [record EXCEPT ![x].status = s]
  BY DEF CommitRegister
<1> DEFINE row == [record[x] EXCEPT !.status = s]
<1>2. row \in Records /\ row.status = s
  BY StatusRow DEF IInv, Statuses
<1>3. record' = [record EXCEPT ![x] = row]
  BY <1>1
<1> HIDE DEF row
<1>4. /\ record[x].status = "COPYING" /\ todo[x] = {}
      /\ UNCHANGED <<cas, copy, unlinked, todo, backend, deciding, job, validated>>
  BY DEF CommitRegister
<1>5. TypeOK' /\ OneWriter' /\ CopiesAreWhole'
  BY <1>2, <1>3, <1>4 DEF IInv, TypeOK, OneWriter, At, CopiesAreWhole
<1>6. DecisionsTrack' /\ ApprovedAreValidated' /\ JobsTrack'
  BY <1>2, <1>3, <1>4, UnregisteredRows DEF deciders, Registered
<1> QED BY <1>5, <1>6 DEF IInv

-----------------------------------------------------------------------------
(* Decisions *)

LEMMA StartDecisionStep ==
  ASSUME IInv, NEW p \in Packs, StartReject(p) \/ \E q \in Runtimes : StartApprove(p, q)
  PROVE  IInv'
<1>1. UNCHANGED <<cas, copy, unlinked, todo, record, backend, job>> /\ validated \subseteq validated'
  BY DEF StartReject, StartApprove
<1> DEFINE Adds(d) ==
             /\ deciding' = deciding \cup {d} /\ d.pack = p /\ d.rev = record[p].rev /\ Registered(p)
             /\ d.action = "APPROVED" =>
                  <<p, d.rt, d.backend>> \in validated' /\ record[p].status \in {"VERIFIED", "APPROVED"}
<1>2. PICK d \in Decisions : Adds(d)
  <2>0. p \in Items /\ record[p] \in Records
    BY DEF IInv, TypeOK, Items
  <2>1. CASE StartReject(p)
    <3> DEFINE e == [pack |-> p, action |-> "REJECTED", rev |-> record[p].rev,
                     rt |-> record[p].rt, backend |-> record[p].backend]
    <3>1. e \in Decisions /\ e.pack = p /\ e.rev = record[p].rev /\ e.action = "REJECTED"
      BY <2>0 DEF Decisions, Records
    <3>2. deciding' = deciding \cup {e} /\ Registered(p)
      BY <2>1 DEF StartReject
    <3> HIDE DEF e
    <3> QED BY <3>1, <3>2
  <2>2. ASSUME NEW q \in Runtimes, StartApprove(p, q)
        PROVE  \E d \in Decisions : Adds(d)
    <3> DEFINE e == [pack |-> p, action |-> "APPROVED", rev |-> record[p].rev, rt |-> q, backend |-> backend]
    <3>1. e \in Decisions /\ e.pack = p /\ e.rev = record[p].rev /\ e.rt = q /\ e.backend = backend
      BY <2>0 DEF Decisions, Records, Bindings, IInv, TypeOK
    <3>2. /\ deciding' = deciding \cup {e} /\ record[p].status \in {"VERIFIED", "APPROVED"}
          /\ <<p, q, backend>> \in validated'
      BY <2>2 DEF StartApprove, MayApprove
    <3> HIDE DEF e
    <3> QED BY <3>1, <3>2 DEF Registered
  <2> QED BY <2>1, <2>2
<1>3. TypeOK' /\ OneWriter' /\ CopiesAreWhole' /\ ApprovedAreValidated' /\ JobsTrack'
  BY <1>1, <1>2 DEF IInv, TypeOK, OneWriter, At, CopiesAreWhole, ApprovedAreValidated, JobsTrack, Registered
<1>4. DecisionsTrack'
  <2>1. record[p].rev <= record[p].rev
    BY DEF IInv, TypeOK, Records, Items
  <2> QED BY <1>1, <1>2, <2>1 DEF IInv, DecisionsTrack, Registered
<1> QED BY <1>3, <1>4 DEF IInv

\* What a written decision does to the row of its pack.
LEMMA DecidedRow ==
  ASSUME IInv, NEW d \in deciding, CommitDecision(d)
  PROVE  /\ d \in Decisions /\ d.pack \in Items
         /\ record' \in [Items -> Records]
         /\ record'[d.pack].status = d.action
         /\ record'[d.pack].rt = d.rt
         /\ record'[d.pack].backend = d.backend
         /\ record'[d.pack].rev = record[d.pack].rev + 1
         /\ \A x \in Items \ {d.pack} : record'[x] = record[x]
<1> DEFINE row == [status |-> d.action, rt |-> d.rt, backend |-> d.backend, rev |-> record[d.pack].rev + 1]
<1>1. d \in Decisions /\ d.pack \in Items
  BY DEF IInv, TypeOK, Decisions, Items
<1>2. /\ row \in Records /\ row.status = d.action /\ row.rt = d.rt
      /\ row.backend = d.backend /\ row.rev = record[d.pack].rev + 1
  BY <1>1 DEF IInv, TypeOK, Decisions, Records, Statuses
<1>3. record' = [record EXCEPT ![d.pack] = row]
  BY DEF CommitDecision
<1> HIDE DEF row
<1> QED BY <1>1, <1>2, <1>3 DEF IInv, TypeOK

LEMMA CommitDecisionStep ==
  ASSUME IInv, NEW d \in deciding, CommitDecision(d)
  PROVE  IInv'
<1>1. /\ UNCHANGED <<cas, copy, unlinked, todo, backend, job, validated>>
      /\ deciding' = deciding \ {d}
  BY DEF CommitDecision
<1>2. /\ d \in Decisions /\ d.pack \in Items
      /\ record' \in [Items -> Records]
      /\ record'[d.pack].status = d.action
      /\ record'[d.pack].rt = d.rt
      /\ record'[d.pack].backend = d.backend
      /\ record'[d.pack].rev = record[d.pack].rev + 1
      /\ \A x \in Items \ {d.pack} : record'[x] = record[x]
  BY DecidedRow
<1>3. d.action \in {"APPROVED", "REJECTED"} /\ record[d.pack].rev \in Nat
  BY <1>2 DEF Decisions, IInv, TypeOK, Records
<1>4. Registered(d.pack) /\ (d.action = "APPROVED" => <<d.pack, d.rt, d.backend>> \in validated)
  BY DEF IInv, DecisionsTrack
<1>5. TypeOK'
  BY <1>1, <1>2 DEF IInv, TypeOK
<1>6. OneWriter'
  BY <1>1 DEF IInv, OneWriter, At
<1>7. CopiesAreWhole'
  BY <1>1, <1>2, <1>3, <1>4 DEF IInv, CopiesAreWhole, Registered
<1>8. DecisionsTrack'
  <2> SUFFICES ASSUME NEW e \in deciding, e # d
               PROVE  /\ Registered(e.pack)'
                      /\ e.rev <= record'[e.pack].rev
                      /\ e.action = "APPROVED" =>
                           /\ <<e.pack, e.rt, e.backend>> \in validated
                           /\ e.rev = record'[e.pack].rev =>
                                record'[e.pack].status \in {"VERIFIED", "APPROVED"}
    BY <1>1 DEF DecisionsTrack
  <2>1. /\ Registered(e.pack) /\ e.rev <= record[e.pack].rev
        /\ e.action = "APPROVED" =>
             /\ <<e.pack, e.rt, e.backend>> \in validated
             /\ e.rev = record[e.pack].rev => record[e.pack].status \in {"VERIFIED", "APPROVED"}
    BY DEF IInv, DecisionsTrack
  <2>2. e.pack \in Items /\ e.rev \in Nat
    BY DEF IInv, TypeOK, Decisions, Items
  <2>3. CASE e.pack = d.pack
    <3>1. e.rev < record'[e.pack].rev /\ record'[e.pack].rev \in Nat /\ Registered(e.pack)'
      BY <1>2, <1>3, <2>1, <2>2, <2>3 DEF Registered
    <3>2. e.rev # record'[e.pack].rev /\ e.rev <= record'[e.pack].rev
      BY <2>2, <3>1
    <3> QED BY <2>1, <3>1, <3>2
  <2>4. CASE e.pack # d.pack
    BY <1>2, <2>1, <2>2, <2>4 DEF Registered
  <2> QED BY <2>3, <2>4
<1>9. ApprovedAreValidated'
  BY <1>1, <1>2, <1>3, <1>4 DEF IInv, ApprovedAreValidated
<1>10. JobsTrack'
  <2> SUFFICES ASSUME NEW j \in Jobs, job[j].step # "none", NEW p, p = job[j].pack
               PROVE  /\ p \in Packs
                      /\ Registered(p)'
                      /\ <<p, job[j].rt, job[j].backend>> \in validated
                      /\ job[j].rev <= record'[p].rev
                      /\ job[j].rev = record'[p].rev => record'[p].status = "APPROVED" /\ record'[p].rt = job[j].rt
    BY <1>1 DEF JobsTrack
  <2>1. /\ p \in Packs /\ Registered(p) /\ <<p, job[j].rt, job[j].backend>> \in validated
        /\ job[j].rev <= record[p].rev
        /\ job[j].rev = record[p].rev => record[p].status = "APPROVED" /\ record[p].rt = job[j].rt
    BY DEF IInv, JobsTrack
  <2>2. p \in Items /\ job[j].rev \in Nat
    BY <2>1 DEF IInv, TypeOK, JobRows, Items
  <2>3. CASE p = d.pack
    <3>1. job[j].rev < record'[p].rev /\ record'[p].rev \in Nat /\ Registered(p)'
      BY <1>2, <1>3, <2>1, <2>2, <2>3 DEF Registered
    <3>2. job[j].rev # record'[p].rev /\ job[j].rev <= record'[p].rev
      BY <2>2, <3>1
    <3> QED BY <2>1, <3>1, <3>2
  <2>4. CASE p # d.pack
    BY <1>2, <2>1, <2>2, <2>4 DEF Registered
  <2> QED BY <2>3, <2>4
<1> QED BY <1>5, <1>6, <1>7, <1>8, <1>9, <1>10 DEF IInv

-----------------------------------------------------------------------------
(* Jobs *)

LEMMA StartJobStep ==
  ASSUME IInv, NEW j \in Jobs, NEW kind \in {"plain", "ttt"}, NEW p \in Packs, NEW a \in Assets,
         StartJob(j, kind, p, a)
  PROVE  IInv'
<1> DEFINE row == [kind |-> kind, step |-> "bound", pack |-> p, asset |-> a,
                   rev |-> record[p].rev, rt |-> record[p].rt, backend |-> backend]
<1>1. /\ UNCHANGED <<cas, copy, unlinked, todo, record, backend, deciding, validated>>
      /\ job' = [job EXCEPT ![j] = row]
      /\ record[p].status = "APPROVED" /\ record[p].backend = backend
  BY DEF StartJob, BoundInputs
<1>2. p \in Items /\ record[p] \in Records
  BY DEF IInv, TypeOK, Items
<1>3. /\ row \in JobRows /\ row.pack = p /\ row.rev = record[p].rev
      /\ row.rt = record[p].rt /\ row.backend = backend
  BY <1>2 DEF JobRows, Kinds, Steps, Records, IInv, TypeOK
<1> HIDE DEF row
<1>4. <<p, record[p].rt, backend>> \in validated
  BY <1>1, <1>2 DEF IInv, ApprovedAreValidated
<1>5. \A i \in Jobs : job'[i] = IF i = j THEN row ELSE job[i]
  BY <1>1 DEF IInv, TypeOK
<1>6. TypeOK'
  BY <1>1, <1>3 DEF IInv, TypeOK
<1>7. JobsTrack'
  BY <1>1, <1>2, <1>3, <1>4, <1>5 DEF IInv, JobsTrack, Registered, Records
<1> QED
  BY <1>1, <1>6, <1>7 DEF IInv, OneWriter, At, CopiesAreWhole, DecisionsTrack, ApprovedAreValidated, Registered

\* A job goes on to its next step, or ends without a row of its own.
LEMMA JobStep ==
  ASSUME IInv, NEW j \in Jobs, Work(j) \/ Rebind(j) \/ PublishJob(j) \/ FailJob(j) \/ CrashJob(j)
  PROVE  IInv'
<1>1. /\ UNCHANGED <<cas, copy, unlinked, todo, record, backend, deciding, validated>>
      /\ job[j].step # "none"
  BY DEF Work, Rebind, PublishJob, FailJob, CrashJob, MayPublish
<1>2. \/ job' = [job EXCEPT ![j] = NoJob]
      \/ \E s \in Steps : job' = [job EXCEPT ![j] = [job[j] EXCEPT !.step = s]]
  BY DEF Work, Rebind, PublishJob, FailJob, CrashJob, Steps
<1>3. NoJob \in JobRows /\ NoJob.step = "none"
  BY DEF NoJob, JobRows, Kinds, Steps, Bindings
<1>4. PICK row \in JobRows :
        /\ job' = [job EXCEPT ![j] = row]
        /\ \/ row.step = "none"
           \/ /\ row.pack = job[j].pack /\ row.rt = job[j].rt
              /\ row.backend = job[j].backend /\ row.rev = job[j].rev
  <2>1. ASSUME NEW s \in Steps
        PROVE  /\ [job[j] EXCEPT !.step = s] \in JobRows
               /\ [job[j] EXCEPT !.step = s].pack = job[j].pack
               /\ [job[j] EXCEPT !.step = s].rt = job[j].rt
               /\ [job[j] EXCEPT !.step = s].backend = job[j].backend
               /\ [job[j] EXCEPT !.step = s].rev = job[j].rev
    BY DEF IInv, TypeOK, JobRows
  <2> QED BY <1>2, <1>3, <2>1
<1>5. \A i \in Jobs : job'[i] = IF i = j THEN row ELSE job[i]
  BY <1>4 DEF IInv, TypeOK
<1>6. TypeOK'
  BY <1>1, <1>4 DEF IInv, TypeOK
<1>7. JobsTrack'
  BY <1>1, <1>4, <1>5 DEF IInv, JobsTrack, Registered
<1> QED
  BY <1>1, <1>6, <1>7 DEF IInv, OneWriter, At, CopiesAreWhole, DecisionsTrack, ApprovedAreValidated, Registered

\* The steps that change a runtime, the backend or drop a decision.
LEMMA OtherStep ==
  ASSUME IInv, UNCHANGED <<cas, copy, unlinked, todo, record, job, validated>>,
         deciding' \subseteq deciding, backend' \in Nat
  PROVE  IInv'
BY DEF IInv, TypeOK, OneWriter, At, CopiesAreWhole, DecisionsTrack, ApprovedAreValidated, JobsTrack, Registered

LEMMA NextIInv == IInv /\ [Next]_vars => IInv'
<1> SUFFICES ASSUME IInv, [Next]_vars PROVE IInv'
  OBVIOUS
<1>1. CASE UNCHANGED vars
  BY <1>1, OtherStep DEF vars, IInv, TypeOK
<1>2. ASSUME NEW x \in Items, StartRegister(x) PROVE IInv'
  BY <1>2, StartRegisterStep
<1>3. ASSUME NEW x \in Items, CommitRegister(x) PROVE IInv'
  BY <1>3, CommitRegisterStep
<1>4. ASSUME NEW x \in Items,
             CrashRegister(x) \/ RefuseRegister(x) \/ \E f \in Files : FailCopy(x, f)
      PROVE  IInv'
  BY <1>4, AbortStep
<1>5. ASSUME NEW x \in Items, NEW f \in Files,
             LookCopy(x, f) \/ OpenCopy(x, f) \/ EndCopy(x, f) \/ VerifyCopy(x, f)
      PROVE  IInv'
  BY <1>5, CopyStep
<1>6. ASSUME NEW q \in Runtimes, NEW ready \in BOOLEAN,
             RegisterRuntime(q, ready) \/ \E imports \in BOOLEAN : ProbeRuntime(q, ready, imports)
      PROVE  IInv'
  BY <1>6, OtherStep DEF RegisterRuntime, ProbeRuntime, IInv, TypeOK
<1>7. ASSUME NEW p \in Packs, StartReject(p) \/ \E q \in Runtimes : StartApprove(p, q)
      PROVE  IInv'
  BY <1>7, StartDecisionStep
<1>8. ASSUME NEW d \in deciding, CommitDecision(d) PROVE IInv'
  BY <1>8, CommitDecisionStep
<1>9. ASSUME NEW d \in deciding, RefuseDecision(d) PROVE IInv'
  BY <1>9, OtherStep DEF RefuseDecision, IInv, TypeOK
<1>10. ASSUME NEW j \in Jobs, NEW kind \in {"plain", "ttt"}, NEW p \in Packs, NEW a \in Assets,
              StartJob(j, kind, p, a)
       PROVE  IInv'
  BY <1>10, StartJobStep
<1>11. ASSUME NEW j \in Jobs, Work(j) \/ Rebind(j) \/ PublishJob(j) \/ FailJob(j) \/ CrashJob(j)
       PROVE  IInv'
  BY <1>11, JobStep
<1>12. CASE UpgradeBackend
  BY <1>12, OtherStep DEF UpgradeBackend, IInv, TypeOK
<1> QED
  BY <1>1, <1>2, <1>3, <1>4, <1>5, <1>6, <1>7, <1>8, <1>9, <1>10, <1>11, <1>12 DEF Next

LEMMA Invariance == Spec => []IInv
BY InitIInv, NextIInv, PTL DEF Spec

-----------------------------------------------------------------------------
THEOREM TypeCorrect == Spec => []TypeOK
<1>1. IInv => TypeOK
  BY DEF IInv
<1> QED BY <1>1, Invariance, PTL

\* No interleaving of copies that share files, of failures and stops registers a
\* pack or an asset with a file that is missing or written in part, and a file
\* has one writer (_cas_copy); a file goes missing only when a failing
\* registration unlinks what another one made, and it is then in `unlinked`.  No
\* inference is published that ran another backend or runtime than its pack was
\* validated with (_bound_normality_inputs), however often the pack is decided
\* about.
THEOREM PacksSound == Spec => []PacksAreSound
<1>1. IInv => PacksAreSound
  <2> SUFFICES ASSUME IInv PROVE PacksAreSound
    OBVIOUS
  <2>1. RegisteredIsWhole
    BY DEF IInv, CopiesAreWhole, RegisteredIsWhole, Registered
  <2>2. RunsWhatWasValidated
    BY DEF IInv, JobsTrack, RunsWhatWasValidated
  <2> QED BY <2>1, <2>2 DEF PacksAreSound, IInv
<1> QED BY <1>1, Invariance, PTL

\* A rejection is not undone by an approval that was being validated, and an
\* episode of test-time training is published under the approval it began with
\* (approve_normality_model_pack, run_ttt).
THEOREM ApprovalsHold == Spec => ApprovalsStand
<1>1. ASSUME IInv, [Next]_vars PROVE KeepsRejected
  <2> SUFFICES ASSUME NEW p \in Packs, record[p].status = "REJECTED"
               PROVE  record'[p].status = "REJECTED"
    BY DEF KeepsRejected
  <2>1. p \in Items
    BY DEF Items
  <2>2. CASE \E x \in Items : \/ StartRegister(x) \/ CommitRegister(x) \/ CrashRegister(x)
                              \/ RefuseRegister(x) \/ \E f \in Files : FailCopy(x, f)
    <3>1. PICK x \in Items : \/ StartRegister(x) \/ CommitRegister(x) \/ CrashRegister(x)
                             \/ RefuseRegister(x) \/ \E f \in Files : FailCopy(x, f)
      BY <2>2
    <3>2. record[x].status \in {"ABSENT", "COPYING"}
      BY <1>1, <3>1, AbortedRow DEF StartRegister, CommitRegister
    <3>3. \A y \in Items \ {x} : record'[y] = record[y]
      BY <1>1, <3>1, AbortedRow DEF StartRegister, CommitRegister, IInv, TypeOK
    <3> QED BY <2>1, <3>2, <3>3
  <2>3. CASE \E d \in deciding : CommitDecision(d)
    <3>1. PICK d \in deciding : CommitDecision(d)
      BY <2>3
    <3>2. /\ d \in Decisions /\ record'[d.pack].status = d.action
          /\ \A x \in Items \ {d.pack} : record'[x] = record[x]
      BY <1>1, <3>1, DecidedRow
    <3>3. d.action = "APPROVED" => record[d.pack].status \in {"VERIFIED", "APPROVED"}
      BY <1>1, <3>1 DEF CommitDecision, StillThatPack, IInv, DecisionsTrack
    <3> QED BY <2>1, <3>2, <3>3 DEF Decisions
  <2>4. CASE record' = record
    BY <2>4
  <2> QED
    BY <1>1, <2>2, <2>3, <2>4 DEF Next, vars, LookCopy, OpenCopy, EndCopy, VerifyCopy, RegisterRuntime,
       ProbeRuntime, StartReject, StartApprove, RefuseDecision, StartJob, Work, Rebind, PublishJob,
       FailJob, CrashJob, UpgradeBackend
<1>2. ASSUME IInv, [Next]_vars PROVE PublishesApproved
  <2> SUFFICES ASSUME NEW j \in Jobs, job[j].kind = "ttt", job[j].step # "published",
                      job'[j].step = "published"
               PROVE  /\ record[job[j].pack].status = "APPROVED" /\ record[job[j].pack].rt = job[j].rt
                      /\ record[job[j].pack].rev = job[j].rev
    BY DEF PublishesApproved
  <2>1. job[j] \in JobRows
    BY <1>2 DEF IInv, TypeOK
  <2>2. CASE PublishJob(j)
    BY <1>2, <2>2 DEF PublishJob, MayPublish, IInv, JobsTrack
  <2>3. CASE \E i \in Jobs : i # j /\ PublishJob(i)
    BY <1>2, <2>3 DEF PublishJob, IInv, TypeOK
  <2>4. CASE \E i \in Jobs, kind \in {"plain", "ttt"}, p \in Packs, a \in Assets : StartJob(i, kind, p, a)
    BY <1>2, <2>4 DEF StartJob, IInv, TypeOK
  <2>5. CASE \E i \in Jobs : Work(i) \/ Rebind(i) \/ FailJob(i) \/ CrashJob(i)
    <3>1. \E i \in Jobs : \E row : job' = [job EXCEPT ![i] = row] /\ row.step # "published"
      <4>1. PICK i \in Jobs : Work(i) \/ Rebind(i) \/ FailJob(i) \/ CrashJob(i)
        BY <2>5
      <4>2. job[i] \in JobRows /\ NoJob.step = "none"
        BY <1>2 DEF IInv, TypeOK, NoJob
      <4>3. \A s \in {"worked", "rebound", "failed"} : [job[i] EXCEPT !.step = s].step = s
        BY <4>2 DEF JobRows
      <4>4. \/ job' = [job EXCEPT ![i] = NoJob]
            \/ \E s \in {"worked", "rebound", "failed"} : job' = [job EXCEPT ![i] = [job[i] EXCEPT !.step = s]]
        BY <4>1 DEF Work, Rebind, FailJob, CrashJob
      <4> QED BY <4>2, <4>3, <4>4
    <3> QED BY <1>2, <3>1 DEF IInv, TypeOK
  <2>6. CASE job' = job
    BY <2>6
  <2> QED
    BY <1>2, <2>2, <2>3, <2>4, <2>5, <2>6 DEF Next, vars, StartRegister, CommitRegister, CrashRegister,
       RefuseRegister, LookCopy, OpenCopy, EndCopy, FailCopy, VerifyCopy, RegisterRuntime, ProbeRuntime,
       StartReject, StartApprove, CommitDecision, RefuseDecision, UpgradeBackend
<1> QED BY <1>1, <1>2, Invariance, PTL DEF Spec, ApprovalsStand

-----------------------------------------------------------------------------
(* Learning *)

CycleRows == [status : Learn!Statuses, first : Inputs \cup {Learn!NoInput},
              input : Inputs \cup {Learn!NoInput}, champion : Nat, approved : SUBSET Nat,
              accepted : BOOLEAN]
RunRows == [status : {"RUNNING", "COMPLETED", "FAILED", "CANCELLED", "INTERRUPTED"}, input : Inputs,
            base : Nat, responds : BOOLEAN, cancel : BOOLEAN, eligible : BOOLEAN, retained : BOOLEAN,
            pending : Nat, triaged : Nat, linked : SUBSET [input : Inputs, train : BOOLEAN],
            selection : {"none"} \cup Learn!Actions]
Execs == [op : {"none", "create", "round", "finalize"},
          step : {"none", "frozen", "confirmed", "prepared", "training", "trained", "testing", "tested"},
          input : Inputs \cup {Learn!NoInput}, base : Nat,
          retry : BOOLEAN, responds : BOOLEAN, stale : BOOLEAN]
Owners == [op : {"none", "train", "finalize"}, run : 0 .. MaxRounds]

LearnShape ==
  /\ source \in [Inputs -> BOOLEAN] /\ gate \in [Inputs -> BOOLEAN]
  /\ cycle \in [Cycles -> CycleRows] /\ runs \in [Cycles -> Seq(RunRows)]
  /\ exec \in [Cycles -> Execs] /\ owner \in [Cycles -> Owners]
  /\ holdouts \subseteq Samples /\ consumed \subseteq holdouts
  /\ tested \in [Samples -> 0 .. 1]

SameTests(i, j) == Split[i].val = Split[j].val /\ Split[i].test = Split[j].test

\* Every run was trained from an earlier model and is evaluated as the first.
HistoryFits(first, s) ==
  /\ Len(s) <= MaxRounds
  /\ \A n \in DOMAIN s : s[n].base < n /\ SameTests(s[n].input, first)

\* What makes a run an approved one, with the models it descends from.
Earned(approved, s) ==
  /\ 0 \in approved
  /\ \A n \in approved \ {0} :
       /\ n \in DOMAIN s
       /\ s[n].status = "COMPLETED" /\ s[n].eligible /\ ~s[n].cancel /\ s[n].pending = 0
       /\ s[n].base \in approved

\* The rows of a cycle: the last run and the owner say what its status says.
RowsFit(k, s, w) ==
  /\ k.champion \in k.approved
  /\ k.status = "ABSENT" => s = <<>>
  /\ k.status # "ABSENT" => k.first \in Inputs /\ k.input \in Inputs /\ SameTests(k.input, k.first)
  /\ k.status \in {"RUNNING", "AWAITING_REVIEW"} => s # <<>> /\ s[Len(s)].base = k.champion
  /\ k.status = "RUNNING" => s[Len(s)].status = "RUNNING" /\ w = [op |-> "train", run |-> Len(s)]
  /\ k.status = "FINALIZING" => w = [op |-> "finalize", run |-> 0]
  /\ k.status = "AWAITING_REVIEW" => s[Len(s)].status = "COMPLETED" /\ ~s[Len(s)].cancel

\* What whoever holds the execution lock of a cycle goes by.  Before its
\* transaction that is what it has read, unless the row was touched since.
ExecFits(k, s, e) ==
  /\ e.op = "create" => k.status = "ABSENT" /\ e.step \in {"frozen", "confirmed"} /\ e.input \in Inputs
  /\ k.status = "ABSENT" => e.op \in {"none", "create"}
  /\ e.op = "round" =>
       /\ e.step \in {"prepared", "training", "trained"}
       /\ e.input \in Inputs /\ SameTests(e.input, k.first)
       /\ e.step = "prepared" => Len(s) < MaxRounds /\ (~e.stale => e.base = k.champion)
       /\ e.step # "prepared" => k.status = "RUNNING"
  /\ e.op = "finalize" =>
       /\ e.step \in {"prepared", "testing", "tested"}
       /\ e.input \in Inputs
       /\ e.step = "prepared" /\ ~e.stale => e.base = k.champion /\ k.status = "AWAITING_DATA"
       /\ e.step # "prepared" => k.status = "FINALIZING" /\ e.base = k.champion

CycleFits(k, s, e, w) ==
  HistoryFits(k.first, s) /\ Earned(k.approved, s) /\ RowsFit(k, s, w) /\ ExecFits(k, s, e)

Testing(e) == e.op = "finalize" /\ e.step = "testing"
TestOf(e) == Split[e.input].test

\* What was tested is consumed; what is being tested is consumed as well, was
\* not tested before and is being tested by nobody else.
TestsFit ==
  /\ \A x \in Samples : tested[x] = 1 => x \in consumed
  /\ \A c \in Cycles : Testing(exec[c]) =>
       TestOf(exec[c]) \subseteq consumed /\ \A x \in TestOf(exec[c]) : tested[x] = 0
  /\ \A c, d \in Cycles :
       c # d /\ Testing(exec[c]) /\ Testing(exec[d]) => TestOf(exec[c]) \cap TestOf(exec[d]) = {}

\* The inductive invariant of Learning.
LearnInv ==
  /\ LearnShape /\ TestsFit
  /\ \A c \in Cycles : CycleFits(cycle[c], runs[c], exec[c], owner[c])

LEMMA LearnInit == Learn!Init => LearnInv
<1> SUFFICES ASSUME Learn!Init PROVE LearnInv
  OBVIOUS
<1> USE LearningAssumption DEF Learn!SplitsAreDisjoint
<1>1. Learn!Idle \in Execs /\ Learn!NoOwner \in Owners /\ Learn!Idle.op = "none"
  BY DEF Learn!Idle, Learn!NoOwner, Execs, Owners
<1>2. cycle \in [Cycles -> CycleRows] /\ runs \in [Cycles -> Seq(RunRows)]
  BY DEF Learn!Init, CycleRows, Learn!Statuses
<1>3. LearnShape
  <2>1. source \in [Inputs -> BOOLEAN] /\ gate \in [Inputs -> BOOLEAN]
    BY DEF Learn!Init
  <2>2. exec \in [Cycles -> Execs] /\ owner \in [Cycles -> Owners]
    BY <1>1 DEF Learn!Init
  <2>3. holdouts \subseteq Samples /\ consumed \subseteq holdouts
    BY DEF Learn!Init
  <2>4. tested \in [Samples -> 0 .. 1]
    BY DEF Learn!Init
  <2> QED BY <1>2, <2>1, <2>2, <2>3, <2>4 DEF LearnShape
<1>4. TestsFit
  BY <1>1 DEF Learn!Init, TestsFit, Testing
<1>5. ASSUME NEW c \in Cycles PROVE CycleFits(cycle[c], runs[c], exec[c], owner[c])
  BY <1>1 DEF Learn!Init, CycleFits, HistoryFits, Earned, RowsFit, ExecFits
<1> QED BY <1>3, <1>4, <1>5 DEF LearnInv

\* What is known of one cycle.
LEMMA CycleKnown ==
  ASSUME LearnInv, NEW c \in Cycles
  PROVE  /\ cycle[c] \in CycleRows /\ runs[c] \in Seq(RunRows)
         /\ exec[c] \in Execs /\ owner[c] \in Owners
         /\ CycleFits(cycle[c], runs[c], exec[c], owner[c])
BY DEF LearnInv, LearnShape

\* One cycle moves to row k, runs s, execution e and owner w.
MovesTo(c, k, s, e, w) ==
  /\ cycle' = [cycle EXCEPT ![c] = k] /\ runs' = [runs EXCEPT ![c] = s]
  /\ exec' = [exec EXCEPT ![c] = e] /\ owner' = [owner EXCEPT ![c] = w]

\* What a cycle leaves as it is, it sets to what it is.
LEMMA Unmoved ==
  ASSUME LearnInv, NEW c \in Cycles
  PROVE  /\ cycle = [cycle EXCEPT ![c] = cycle[c]] /\ runs = [runs EXCEPT ![c] = runs[c]]
         /\ exec = [exec EXCEPT ![c] = exec[c]] /\ owner = [owner EXCEPT ![c] = owner[c]]
BY DEF LearnInv, LearnShape

LEMMA CycleMoves ==
  ASSUME LearnInv, NEW c \in Cycles,
         NEW k \in CycleRows, NEW s \in Seq(RunRows), NEW e \in Execs, NEW w \in Owners,
         MovesTo(c, k, s, e, w), CycleFits(k, s, e, w),
         UNCHANGED <<source, gate>>, holdouts' \subseteq Samples, consumed' \subseteq holdouts',
         tested' \in [Samples -> 0 .. 1], TestsFit'
  PROVE  LearnInv'
<1>1. LearnShape'
  BY DEF MovesTo, LearnInv, LearnShape
<1>2. ASSUME NEW d \in Cycles PROVE CycleFits(cycle'[d], runs'[d], exec'[d], owner'[d])
  <2>1. CASE d = c
    <3>1. cycle'[d] = k /\ runs'[d] = s /\ exec'[d] = e /\ owner'[d] = w
      BY <2>1 DEF MovesTo, LearnInv, LearnShape
    <3> QED BY <3>1
  <2>2. CASE d # c
    <3>1. cycle'[d] = cycle[d] /\ runs'[d] = runs[d] /\ exec'[d] = exec[d] /\ owner'[d] = owner[d]
      BY <2>2 DEF MovesTo, LearnInv, LearnShape
    <3> QED BY <3>1, CycleKnown
  <2> QED BY <2>1, <2>2
<1> QED BY <1>1, <1>2 DEF LearnInv

\* A step that is not one of a final test.
LEMMA QuietMoves ==
  ASSUME LearnInv, NEW c \in Cycles,
         NEW k \in CycleRows, NEW s \in Seq(RunRows), NEW e \in Execs, NEW w \in Owners,
         MovesTo(c, k, s, e, w), CycleFits(k, s, e, w), ~Testing(e) \/ e = exec[c],
         UNCHANGED <<source, gate, consumed, tested>>, holdouts' \subseteq Samples, holdouts \subseteq holdouts'
  PROVE  LearnInv'
<1>1. \A d \in Cycles : exec'[d] = IF d = c THEN e ELSE exec[d]
  BY DEF MovesTo, LearnInv, LearnShape
<1>2. TestsFit'
  BY <1>1 DEF LearnInv, TestsFit
<1> QED BY <1>2, CycleMoves DEF LearnInv, LearnShape

\* A run row that is replaced under its number.
LEMMA RowChanged ==
  ASSUME NEW s \in Seq(RunRows), NEW n \in DOMAIN s, NEW row \in RunRows,
         row.base = s[n].base, row.input = s[n].input
  PROVE  LET t == [s EXCEPT ![n] = row] IN
         /\ t \in Seq(RunRows) /\ Len(t) = Len(s)
         /\ \A m \in DOMAIN s : t[m] = IF m = n THEN row ELSE s[m]
         /\ \A first : HistoryFits(first, s) => HistoryFits(first, t)
         /\ \A approved :
              /\ Earned(approved, s)
              /\ n \in approved \ {0} => /\ row.status = s[n].status /\ row.eligible = s[n].eligible
                                         /\ row.cancel = s[n].cancel /\ row.pending = s[n].pending
              => Earned(approved, t)
<1> DEFINE t == [s EXCEPT ![n] = row]
<1>1. t \in Seq(RunRows) /\ Len(t) = Len(s) /\ \A m \in DOMAIN s : t[m] = IF m = n THEN row ELSE s[m]
  BY ExceptSeq
<1>2. DOMAIN t = DOMAIN s
  BY <1>1
<1> HIDE DEF t
<1>3. ASSUME NEW first, HistoryFits(first, s) PROVE HistoryFits(first, t)
  BY <1>1, <1>2, <1>3 DEF HistoryFits
<1>4. ASSUME NEW approved, Earned(approved, s),
             n \in approved \ {0} => /\ row.status = s[n].status /\ row.eligible = s[n].eligible
                                     /\ row.cancel = s[n].cancel /\ row.pending = s[n].pending
      PROVE  Earned(approved, t)
  <2>1. ASSUME NEW m \in approved \ {0}
        PROVE  /\ m \in DOMAIN t
               /\ t[m].status = "COMPLETED" /\ t[m].eligible /\ ~t[m].cancel /\ t[m].pending = 0
               /\ t[m].base \in approved
    <3>1. m \in DOMAIN s /\ s[m].status = "COMPLETED" /\ s[m].eligible /\ ~s[m].cancel
          /\ s[m].pending = 0 /\ s[m].base \in approved
      BY <1>4 DEF Earned
    <3> QED BY <1>1, <1>2, <1>4, <3>1
  <2> QED BY <1>4, <2>1 DEF Earned
<1> QED BY <1>1, <1>3, <1>4 DEF t

-----------------------------------------------------------------------------
(* Learning: the steps of one cycle *)

\* A step that only moves the execution of a cycle.
LEMMA ExecMoves ==
  ASSUME LearnInv, NEW c \in Cycles, NEW e \in Execs,
         exec' = [exec EXCEPT ![c] = e], ExecFits(cycle[c], runs[c], e), ~Testing(e),
         UNCHANGED <<source, gate, cycle, runs, holdouts, consumed, owner, tested>>
  PROVE  LearnInv'
<1>1. MovesTo(c, cycle[c], runs[c], e, owner[c])
  BY Unmoved DEF MovesTo
<1>2. CycleFits(cycle[c], runs[c], e, owner[c])
  BY CycleKnown DEF CycleFits
<1>3. holdouts' \subseteq Samples
  BY DEF LearnInv, LearnShape
<1> QED BY <1>1, <1>2, <1>3, CycleKnown, QuietMoves

\* Nobody at work.
LEMMA IdleFits ==
  /\ Learn!Idle \in Execs /\ ~Testing(Learn!Idle)
  /\ \A k, s : ExecFits(k, s, Learn!Idle)
BY DEF Learn!Idle, Execs, ExecFits, Testing

\* Stale work in a cycle that stays open to it.
LEMMA TouchedFits ==
  ASSUME NEW k \in CycleRows, NEW s, NEW e \in Execs, ExecFits(k, s, e), k.status \notin {"ABSENT", "FINALIZING"},
         NEW k2 \in CycleRows, NEW s2, k2.first = k.first, k2.status # "ABSENT", Len(s2) = Len(s),
         k.status = "RUNNING" => k2.status = "RUNNING"
  PROVE  LET f == [e EXCEPT !.stale = e.op # "none"] IN
         f \in Execs /\ ~Testing(f) /\ ExecFits(k2, s2, f)
<1> DEFINE f == [e EXCEPT !.stale = e.op # "none"]
<1>1. f \in Execs /\ f.op = e.op /\ f.step = e.step /\ f.input = e.input /\ (f.op # "none" => f.stale)
  BY DEF Execs
<1> HIDE DEF f
<1>2. ~Testing(f)
  BY <1>1 DEF ExecFits, Testing
<1>3. ExecFits(k2, s2, f)
  BY <1>1 DEF ExecFits
<1> QED BY <1>1, <1>2, <1>3 DEF f

\* A run row that is added.
LEMMA RowAppended ==
  ASSUME NEW s \in Seq(RunRows), NEW row \in RunRows
  PROVE  LET t == Append(s, row) IN
         /\ t \in Seq(RunRows) /\ Len(t) = Len(s) + 1 /\ t[Len(t)] = row /\ t # <<>>
         /\ \A first : /\ HistoryFits(first, s) /\ Len(s) < MaxRounds
                       /\ row.base < Len(s) + 1 /\ SameTests(row.input, first)
                       => HistoryFits(first, t)
         /\ \A approved : Earned(approved, s) => Earned(approved, t)
<1> DEFINE t == Append(s, row)
<1>1. /\ t \in Seq(RunRows) /\ Len(t) = Len(s) + 1 /\ t[Len(t)] = row
      /\ \A m \in DOMAIN s : t[m] = s[m]
      /\ DOMAIN t = DOMAIN s \cup {Len(s) + 1}
  BY AppendProperties
<1>2. t # <<>>
  BY <1>1, EmptySeq
<1> HIDE DEF t
<1>3. ASSUME NEW first, HistoryFits(first, s), Len(s) < MaxRounds,
             row.base < Len(s) + 1, SameTests(row.input, first)
      PROVE  HistoryFits(first, t)
  BY <1>1, <1>3, LearningAssumption DEF HistoryFits, Learn!SplitsAreDisjoint
<1>4. ASSUME NEW approved, Earned(approved, s) PROVE Earned(approved, t)
  BY <1>1, <1>4 DEF Earned
<1> QED BY <1>1, <1>2, <1>3, <1>4 DEF t

\* The number of the last run.
LEMMA LastRun ==
  ASSUME LearnInv, NEW c \in Cycles
  PROVE  /\ Learn!Round(c) = Len(runs[c]) /\ Len(runs[c]) \in Nat /\ DOMAIN runs[c] = 1 .. Len(runs[c])
         /\ Learn!Current(c) = runs[c][Len(runs[c])]
         /\ runs[c] # <<>> => /\ Len(runs[c]) \in DOMAIN runs[c] /\ Len(runs[c]) > 0
                              /\ Learn!Current(c) \in RunRows
         /\ Learn!Round(c)' = Len(runs'[c]) /\ Learn!Current(c)' = runs'[c][Len(runs'[c])]
<1>1. runs[c] \in Seq(RunRows)
  BY CycleKnown
<1>2. runs[c] # <<>> => Len(runs[c]) \in DOMAIN runs[c] /\ Len(runs[c]) > 0
  BY <1>1, EmptySeq
<1> QED BY <1>1, <1>2, ElementOfSeq DEF Learn!Round, Learn!Current, Learn!Last

LEMMA HoldoutsGrow ==
  ASSUME LearnInv, NEW i \in Inputs
  PROVE  /\ Learn!HoldoutsWith(i) \subseteq Samples /\ holdouts \subseteq Learn!HoldoutsWith(i)
         /\ consumed \cup Split[i].test \subseteq Learn!HoldoutsWith(i)
BY LearningAssumption DEF LearnInv, LearnShape, Learn!HoldoutsWith, Learn!SplitsAreDisjoint

LEMMA StartCreateKeeps ==
  ASSUME LearnInv, NEW c \in Cycles, NEW i \in Inputs, Learn!StartCreate(c, i) PROVE LearnInv'
<1>1. PICK e : e = [Learn!Idle EXCEPT !.op = "create", !.step = "frozen", !.input = i]
  OBVIOUS
<1>2. e \in Execs /\ e.op = "create" /\ e.step = "frozen" /\ e.input = i
  BY <1>1 DEF Learn!Idle, Execs
<1>3. cycle[c].status = "ABSENT" /\ exec' = [exec EXCEPT ![c] = e]
  BY <1>1 DEF Learn!StartCreate
<1>4. ExecFits(cycle[c], runs[c], e) /\ ~Testing(e)
  BY <1>2, <1>3 DEF ExecFits, Testing
<1> QED BY <1>2, <1>3, <1>4, ExecMoves DEF Learn!StartCreate

LEMMA ConfirmCreateKeeps ==
  ASSUME LearnInv, NEW c \in Cycles, Learn!ConfirmCreate(c) PROVE LearnInv'
<1>1. PICK e : e = [exec[c] EXCEPT !.step = "confirmed"]
  OBVIOUS
<1>2. e \in Execs /\ e.op = "create" /\ e.step = "confirmed" /\ e.input = exec[c].input
  BY <1>1, CycleKnown DEF Learn!ConfirmCreate, Execs
<1>3. exec' = [exec EXCEPT ![c] = e]
  BY <1>1 DEF Learn!ConfirmCreate
<1>4. ExecFits(cycle[c], runs[c], e) /\ ~Testing(e)
  BY <1>2, CycleKnown DEF ExecFits, Testing, CycleFits, Learn!ConfirmCreate
<1> QED BY <1>2, <1>3, <1>4, ExecMoves DEF Learn!ConfirmCreate

LEMMA CommitCreateKeeps ==
  ASSUME LearnInv, NEW c \in Cycles, Learn!CommitCreate(c) PROVE LearnInv'
<1>1. PICK i : i = exec[c].input
  OBVIOUS
<1>2. i \in Inputs /\ cycle[c].status = "ABSENT" /\ cycle[c] \in CycleRows
  BY <1>1, CycleKnown DEF Learn!CommitCreate, CycleFits, ExecFits
<1>3. PICK k : k = [cycle[c] EXCEPT !.status = "READY", !.first = i, !.input = i]
  OBVIOUS
<1>4. /\ k \in CycleRows /\ k.status = "READY" /\ k.first = i /\ k.input = i
      /\ k.champion = cycle[c].champion /\ k.approved = cycle[c].approved
  BY <1>2, <1>3 DEF CycleRows, Learn!Statuses
<1>5. MovesTo(c, k, runs[c], Learn!Idle, owner[c])
  BY <1>1, <1>3, Unmoved DEF MovesTo, Learn!CommitCreate, Learn!Free
<1>6. CycleFits(k, runs[c], Learn!Idle, owner[c])
  <2>1. runs[c] = <<>> /\ cycle[c].champion \in cycle[c].approved /\ Earned(cycle[c].approved, runs[c])
        /\ HistoryFits(cycle[c].first, runs[c])
    BY <1>2, CycleKnown DEF CycleFits, RowsFit
  <2>2. HistoryFits(i, runs[c])
    BY <2>1 DEF HistoryFits
  <2>3. RowsFit(k, runs[c], owner[c])
    BY <1>2, <1>4, <2>1 DEF RowsFit, SameTests
  <2> QED BY <1>4, <2>1, <2>2, <2>3, IdleFits DEF CycleFits
<1>7. holdouts' = Learn!HoldoutsWith(i) /\ UNCHANGED <<source, gate, consumed, tested>>
  BY <1>1 DEF Learn!CommitCreate
<1> QED BY <1>2, <1>4, <1>5, <1>6, <1>7, HoldoutsGrow, IdleFits, CycleKnown, QuietMoves

LEMMA StartRoundKeeps ==
  ASSUME LearnInv, NEW c \in Cycles, NEW i \in Inputs, NEW r \in BOOLEAN, Learn!StartRound(c, i, r)
  PROVE  LearnInv'
<1>1. Learn!IsRetry(c, i) \in BOOLEAN
  BY DEF Learn!IsRetry
<1>2. PICK e : e = [op |-> "round", step |-> "prepared", input |-> i, base |-> cycle[c].champion,
                    retry |-> Learn!IsRetry(c, i), responds |-> r, stale |-> FALSE]
  OBVIOUS
<1>3. /\ cycle[c] \in CycleRows /\ RowsFit(cycle[c], runs[c], owner[c])
      /\ cycle[c].status \in {"READY", "AWAITING_DATA"}
      /\ Len(runs[c]) < MaxRounds /\ Learn!InputAllowed(c, i)
  BY CycleKnown DEF CycleFits, Learn!StartRound, Learn!Round
<1>4. e \in Execs /\ e.op = "round" /\ e.step = "prepared" /\ e.input = i /\ e.base = cycle[c].champion
  BY <1>1, <1>2, <1>3 DEF Execs, CycleRows
<1>5. SameTests(i, cycle[c].first)
  BY <1>3 DEF Learn!InputAllowed, SameTests, RowsFit
<1>6. ExecFits(cycle[c], runs[c], e) /\ ~Testing(e)
  BY <1>3, <1>4, <1>5 DEF ExecFits, Testing
<1>7. exec' = [exec EXCEPT ![c] = e]
  BY <1>2 DEF Learn!StartRound
<1> QED BY <1>4, <1>6, <1>7, ExecMoves DEF Learn!StartRound

LEMMA ReserveKeeps ==
  ASSUME LearnInv, NEW c \in Cycles, Learn!Reserve(c) PROVE LearnInv'
<1>1. PICK x : x = exec[c]
  OBVIOUS
<1>2. PICK s : s = runs[c]
  OBVIOUS
<1>3. /\ x \in Execs /\ s \in Seq(RunRows) /\ cycle[c] \in CycleRows
      /\ CycleFits(cycle[c], s, x, owner[c])
      /\ x.op = "round" /\ x.step = "prepared" /\ ~x.stale
  BY <1>1, <1>2, CycleKnown DEF Learn!Reserve, Learn!Reservable
<1>4. /\ x.input \in Inputs /\ SameTests(x.input, cycle[c].first) /\ Len(s) < MaxRounds
      /\ x.base = cycle[c].champion /\ cycle[c].champion \in cycle[c].approved
      /\ cycle[c].status # "ABSENT" /\ cycle[c].first \in Inputs
  BY <1>3 DEF CycleFits, ExecFits, RowsFit
<1>5. PICK row : row = [status |-> "RUNNING", input |-> x.input, base |-> x.base, responds |-> x.responds,
                        cancel |-> FALSE, eligible |-> FALSE, retained |-> FALSE,
                        pending |-> 0, triaged |-> 0, linked |-> {}, selection |-> "none"]
  OBVIOUS
<1>6. row \in RunRows /\ row.status = "RUNNING" /\ row.base = x.base /\ row.input = x.input
  BY <1>3, <1>4, <1>5 DEF RunRows, Execs
<1>7. x.base < Len(s) + 1
  <2>1. x.base = 0 \/ x.base \in DOMAIN s
    BY <1>3, <1>4 DEF CycleFits, Earned
  <2>2. Len(s) \in Nat /\ DOMAIN s = 1 .. Len(s)
    BY <1>3
  <2> QED BY <2>1, <2>2
<1>8. PICK t : t = Append(s, row)
  OBVIOUS
<1>9. /\ t \in Seq(RunRows) /\ Len(t) = Len(s) + 1 /\ t[Len(t)] = row /\ t # <<>>
      /\ HistoryFits(cycle[c].first, t) /\ Earned(cycle[c].approved, t)
  BY <1>3, <1>4, <1>6, <1>7, <1>8, RowAppended DEF CycleFits
<1>10. PICK k : k = [cycle[c] EXCEPT !.status = "RUNNING", !.input = x.input]
  OBVIOUS
<1>11. /\ k \in CycleRows /\ k.status = "RUNNING" /\ k.first = cycle[c].first /\ k.input = x.input
       /\ k.champion = cycle[c].champion /\ k.approved = cycle[c].approved
  BY <1>3, <1>4, <1>10 DEF CycleRows, Learn!Statuses
<1>12. PICK e : e = [x EXCEPT !.step = "training"]
  OBVIOUS
<1>13. e \in Execs /\ e.op = "round" /\ e.step = "training" /\ e.input = x.input
  BY <1>3, <1>12 DEF Execs
<1>14. PICK w : w = [op |-> "train", run |-> Len(t)]
  OBVIOUS
<1>15. w \in Owners
  BY <1>3, <1>4, <1>9, <1>14, LearningAssumption DEF Owners, Learn!SplitsAreDisjoint
<1>16. MovesTo(c, k, t, e, w)
  <2>1. runs' = [runs EXCEPT ![c] = t]
    BY <1>1, <1>2, <1>5, <1>8 DEF Learn!Reserve
  <2>2. cycle' = [cycle EXCEPT ![c] = k] /\ exec' = [exec EXCEPT ![c] = e]
    BY <1>1, <1>10, <1>12 DEF Learn!Reserve
  <2>3. owner' = [owner EXCEPT ![c] = w]
    BY <1>2, <1>9, <1>14 DEF Learn!Reserve, Learn!OwnerOf, Learn!Round
  <2> QED BY <2>1, <2>2, <2>3 DEF MovesTo
<1>17. CycleFits(k, t, e, w)
  <2>1. RowsFit(k, t, w)
    BY <1>4, <1>6, <1>9, <1>11, <1>14 DEF RowsFit
  <2>2. ExecFits(k, t, e)
    BY <1>4, <1>11, <1>13 DEF ExecFits
  <2> QED BY <1>9, <1>11, <2>1, <2>2 DEF CycleFits
<1>18. holdouts' = Learn!HoldoutsWith(x.input) /\ UNCHANGED <<source, gate, consumed, tested>>
  BY <1>1 DEF Learn!Reserve
<1>19. ~Testing(e)
  BY <1>13 DEF Testing
<1> QED BY <1>4, <1>9, <1>11, <1>13, <1>15, <1>16, <1>17, <1>18, <1>19, HoldoutsGrow, QuietMoves

LEMMA TrainKeeps ==
  ASSUME LearnInv, NEW c \in Cycles, Learn!Train(c) PROVE LearnInv'
<1>1. PICK e : e = [exec[c] EXCEPT !.step = "trained"]
  OBVIOUS
<1>2. /\ e \in Execs /\ e.op = "round" /\ e.step = "trained" /\ e.input = exec[c].input
      /\ exec[c].op = "round" /\ exec[c].step = "training"
  BY <1>1, CycleKnown DEF Learn!Train, Execs
<1>3. exec' = [exec EXCEPT ![c] = e]
  BY <1>1 DEF Learn!Train
<1>4. ExecFits(cycle[c], runs[c], e) /\ ~Testing(e)
  BY <1>2, CycleKnown DEF ExecFits, Testing, CycleFits
<1> QED BY <1>2, <1>3, <1>4, ExecMoves DEF Learn!Train

LEMMA LetsGoKeeps ==
  ASSUME LearnInv, NEW c \in Cycles, Learn!Abandon(c) \/ Learn!Crash(c) PROVE LearnInv'
<1>1. exec' = [exec EXCEPT ![c] = Learn!Idle]
  BY DEF Learn!Abandon, Learn!Crash, Learn!Free
<1>2. UNCHANGED <<source, gate, cycle, runs, holdouts, consumed, owner, tested>>
  BY DEF Learn!Abandon, Learn!Crash
<1> QED BY <1>1, <1>2, IdleFits, ExecMoves

\* A step that writes the last run of a cycle and its row, with no final test.
WritesLast(c, row, k, e) ==
  /\ runs' = [runs EXCEPT ![c] = [@ EXCEPT ![Len(@)] = row]]
  /\ cycle' = [cycle EXCEPT ![c] = k] /\ exec' = [exec EXCEPT ![c] = e]
  /\ UNCHANGED <<source, gate, holdouts, consumed, owner, tested>>

\* The last run keeps what it was made from, and does not change where it counts.
StaysLast(s, row, k) ==
  /\ s # <<>> /\ row.base = s[Len(s)].base /\ row.input = s[Len(s)].input
  /\ Len(s) \in k.approved =>
       /\ row.status = "COMPLETED" /\ row.eligible /\ ~row.cancel /\ row.pending = 0
       /\ row.base \in k.approved

LEMMA LastMoves ==
  ASSUME LearnInv, NEW c \in Cycles, NEW row \in RunRows, NEW k \in CycleRows, NEW e \in Execs,
         WritesLast(c, row, k, e), StaysLast(runs[c], row, k),
         k.first = cycle[c].first, k.input = cycle[c].input, k.approved \ {Len(runs[c])} \subseteq cycle[c].approved,
         cycle[c].approved \subseteq k.approved, k.champion \in k.approved,
         cycle[c].status # "ABSENT", k.status \notin {"ABSENT", "FINALIZING"},
         k.status \in {"RUNNING", "AWAITING_REVIEW"} =>
           row.base = k.champion /\ k.champion = cycle[c].champion,
         k.status = "RUNNING" => cycle[c].status = "RUNNING" /\ row.status = "RUNNING",
         k.status = "AWAITING_REVIEW" => row.status = "COMPLETED" /\ ~row.cancel,
         \A s : Len(s) = Len(runs[c]) => ExecFits(k, s, e), ~Testing(e)
  PROVE  LearnInv'
<1>1. PICK s : s = runs[c]
  OBVIOUS
<1>2. PICK t : t = [s EXCEPT ![Len(s)] = row]
  OBVIOUS
<1>3. s \in Seq(RunRows) /\ Len(s) \in DOMAIN s /\ Len(s) \in Nat /\ CycleFits(cycle[c], s, exec[c], owner[c])
  BY <1>1, CycleKnown, LastRun DEF StaysLast
<1>4. row.base = s[Len(s)].base /\ row.input = s[Len(s)].input
  BY <1>1 DEF StaysLast
<1>5. /\ t \in Seq(RunRows) /\ Len(t) = Len(s)
      /\ \A m \in DOMAIN s : t[m] = IF m = Len(s) THEN row ELSE s[m]
      /\ HistoryFits(k.first, t)
  BY <1>2, <1>3, <1>4, RowChanged DEF CycleFits
<1>6. DOMAIN t = DOMAIN s /\ t # <<>> /\ t[Len(t)] = row
  BY <1>3, <1>5, EmptySeq
<1>7. Earned(k.approved, t)
  <2>1. 0 \in k.approved
    BY <1>3 DEF CycleFits, Earned
  <2>2. ASSUME NEW n \in k.approved \ {0}
        PROVE  /\ n \in DOMAIN t
               /\ t[n].status = "COMPLETED" /\ t[n].eligible /\ ~t[n].cancel /\ t[n].pending = 0
               /\ t[n].base \in k.approved
    <3>1. CASE n = Len(s)
      BY <1>1, <1>3, <1>5, <1>6, <3>1 DEF StaysLast
    <3>2. CASE n # Len(s)
      <4>1. n \in cycle[c].approved \ {0}
        BY <1>1, <3>2
      <4> QED BY <1>3, <1>5, <1>6, <3>2, <4>1 DEF CycleFits, Earned
    <3> QED BY <3>1, <3>2
  <2> QED BY <2>1, <2>2 DEF Earned
<1>8. RowsFit(k, t, owner[c])
  BY <1>3, <1>5, <1>6 DEF CycleFits, RowsFit
<1>9. ExecFits(k, t, e)
  BY <1>1, <1>5
<1>10. MovesTo(c, k, t, e, owner[c])
  <2>1. runs' = [runs EXCEPT ![c] = t]
    BY <1>1, <1>2, Unmoved DEF WritesLast, LearnInv, LearnShape
  <2> QED BY <2>1, Unmoved DEF MovesTo, WritesLast
<1>11. CycleFits(k, t, e, owner[c])
  BY <1>5, <1>7, <1>8, <1>9 DEF CycleFits
<1>12. UNCHANGED <<source, gate, holdouts, consumed, tested>> /\ holdouts \subseteq Samples
  BY DEF WritesLast, LearnInv, LearnShape
<1> QED BY <1>5, <1>10, <1>11, <1>12, CycleKnown, QuietMoves

LEMMA PublishKeeps ==
  ASSUME LearnInv, NEW c \in Cycles, NEW b \in BOOLEAN, NEW m \in 0 .. MaxErrors, Learn!Publish(c, b, m)
  PROVE  LearnInv'
<1>1. PICK s : s = runs[c]
  OBVIOUS
<1>2. /\ s \in Seq(RunRows) /\ cycle[c] \in CycleRows /\ CycleFits(cycle[c], s, exec[c], owner[c])
      /\ cycle[c].status = "RUNNING" /\ s # <<>> /\ s[Len(s)] \in RunRows /\ Len(s) \in DOMAIN s /\ Len(s) > 0
      /\ s[Len(s)].status = "RUNNING" /\ ~s[Len(s)].cancel /\ s[Len(s)].base = cycle[c].champion
  BY <1>1, CycleKnown, LastRun DEF Learn!Publish, Learn!MayPublish, CycleFits, RowsFit
<1>3. PICK row : row = [s[Len(s)] EXCEPT !.status = "COMPLETED", !.eligible = b, !.pending = m]
  OBVIOUS
<1>4. /\ row \in RunRows /\ row.base = s[Len(s)].base /\ row.input = s[Len(s)].input
      /\ row.status = "COMPLETED" /\ row.cancel = s[Len(s)].cancel
  <2>1. m \in Nat
    BY LearningAssumption DEF Learn!SplitsAreDisjoint
  <2>2. PICK r : r = s[Len(s)]
    OBVIOUS
  <2>3. r \in RunRows /\ row = [r EXCEPT !.status = "COMPLETED", !.eligible = b, !.pending = m]
    BY <1>2, <1>3, <2>2
  <2> QED BY <2>1, <2>2, <2>3 DEF RunRows
<1>5. PICK k : k = [cycle[c] EXCEPT !.status = "AWAITING_REVIEW"]
  OBVIOUS
<1>6. /\ k \in CycleRows /\ k.status = "AWAITING_REVIEW" /\ k.first = cycle[c].first /\ k.input = cycle[c].input
      /\ k.champion = cycle[c].champion /\ k.approved = cycle[c].approved
  BY <1>2, <1>5 DEF CycleRows, Learn!Statuses
<1>7. Len(s) \notin cycle[c].approved
  BY <1>2 DEF CycleFits, Earned
<1>8. WritesLast(c, row, k, Learn!Idle)
  <2>1. runs' = [runs EXCEPT ![c] = [@ EXCEPT ![Len(@)] = row]]
    BY <1>1, <1>2, <1>3 DEF Learn!Publish, Learn!Round, LearnInv, LearnShape
  <2> QED BY <1>5, <2>1 DEF WritesLast, Learn!Publish, Learn!Free
<1>9. StaysLast(runs[c], row, k)
  BY <1>1, <1>2, <1>4, <1>6, <1>7 DEF StaysLast
<1>10. k.champion \in k.approved
  BY <1>2, <1>6 DEF CycleFits, RowsFit
<1> QED BY <1>1, <1>2, <1>4, <1>6, <1>8, <1>9, <1>10, IdleFits, LastMoves

LEMMA FailRoundKeeps ==
  ASSUME LearnInv, NEW c \in Cycles, Learn!FailRound(c) PROVE LearnInv'
<1>1. PICK s : s = runs[c]
  OBVIOUS
<1>2. /\ s \in Seq(RunRows) /\ cycle[c] \in CycleRows /\ CycleFits(cycle[c], s, exec[c], owner[c])
      /\ cycle[c].status = "RUNNING" /\ s # <<>> /\ s[Len(s)] \in RunRows /\ Len(s) \in DOMAIN s /\ Len(s) > 0
      /\ s[Len(s)].status = "RUNNING" /\ Learn!Current(c) = s[Len(s)]
  BY <1>1, CycleKnown, LastRun DEF Learn!FailRound, CycleFits, ExecFits, RowsFit
<1>3. PICK row : row = [s[Len(s)] EXCEPT !.status = IF s[Len(s)].cancel THEN "CANCELLED" ELSE "FAILED"]
  OBVIOUS
<1>4. row \in RunRows /\ row.base = s[Len(s)].base /\ row.input = s[Len(s)].input
  BY <1>2, <1>3 DEF RunRows
<1>5. PICK k : k = [cycle[c] EXCEPT !.status = "AWAITING_DATA"]
  OBVIOUS
<1>6. /\ k \in CycleRows /\ k.status = "AWAITING_DATA" /\ k.first = cycle[c].first /\ k.input = cycle[c].input
      /\ k.champion = cycle[c].champion /\ k.approved = cycle[c].approved
  BY <1>2, <1>5 DEF CycleRows, Learn!Statuses
<1>7. Len(s) \notin cycle[c].approved
  BY <1>2 DEF CycleFits, Earned
<1>8. WritesLast(c, row, k, Learn!Idle)
  <2>1. runs' = [runs EXCEPT ![c] = [@ EXCEPT ![Len(@)] = row]]
    BY <1>1, <1>2, <1>3 DEF Learn!FailRound, Learn!Round, LearnInv, LearnShape
  <2> QED BY <1>2, <1>5, <2>1 DEF WritesLast, Learn!FailRound, Learn!Free
<1>9. StaysLast(runs[c], row, k)
  BY <1>1, <1>2, <1>4, <1>6, <1>7 DEF StaysLast
<1>10. k.champion \in k.approved
  BY <1>2, <1>6 DEF CycleFits, RowsFit
<1> QED BY <1>1, <1>2, <1>4, <1>6, <1>8, <1>9, <1>10, IdleFits, LastMoves

LEMMA ReviewKeeps ==
  ASSUME LearnInv, NEW c \in Cycles, NEW p \in BOOLEAN, Learn!ReviewFeedback(c, p) PROVE LearnInv'
<1>1. PICK s : s = runs[c]
  OBVIOUS
<1>2. /\ s \in Seq(RunRows) /\ cycle[c] \in CycleRows /\ CycleFits(cycle[c], s, exec[c], owner[c])
      /\ exec[c] \in Execs /\ cycle[c].status = "AWAITING_REVIEW"
      /\ s # <<>> /\ s[Len(s)] \in RunRows /\ Len(s) \in DOMAIN s /\ Len(s) > 0
      /\ s[Len(s)].status = "COMPLETED" /\ ~s[Len(s)].cancel /\ s[Len(s)].base = cycle[c].champion
      /\ s[Len(s)].pending > 0
  BY <1>1, CycleKnown, LastRun DEF Learn!ReviewFeedback, CycleFits, RowsFit
<1>3. PICK row : row = [s[Len(s)] EXCEPT !.pending = @ - 1, !.triaged = @ + 1]
  OBVIOUS
<1>4. /\ row \in RunRows /\ row.base = s[Len(s)].base /\ row.input = s[Len(s)].input
      /\ row.status = s[Len(s)].status /\ row.cancel = s[Len(s)].cancel
  <2>1. PICK r : r = s[Len(s)]
    OBVIOUS
  <2>2. r \in RunRows /\ r.pending > 0
    BY <1>2, <2>1
  <2>3. r.pending - 1 \in Nat /\ r.triaged + 1 \in Nat
    BY <2>2 DEF RunRows
  <2>4. row = [r EXCEPT !.pending = r.pending - 1, !.triaged = r.triaged + 1]
    BY <1>3, <2>1, <2>2 DEF RunRows
  <2> QED BY <2>1, <2>2, <2>3, <2>4 DEF RunRows
<1>5. PICK k : k = IF p THEN [cycle[c] EXCEPT !.status = "HOLD_REQUIRES_NEW_PROTOCOL"] ELSE cycle[c]
  OBVIOUS
<1>6. /\ k \in CycleRows /\ k.first = cycle[c].first /\ k.input = cycle[c].input
      /\ k.status \in {"AWAITING_REVIEW", "HOLD_REQUIRES_NEW_PROTOCOL"}
      /\ k.champion = cycle[c].champion /\ k.approved = cycle[c].approved
  BY <1>2, <1>5 DEF CycleRows, Learn!Statuses, Learn!Closed
<1>7. Len(s) \notin cycle[c].approved
  BY <1>2 DEF CycleFits, Earned
<1>8. PICK e : e = [exec[c] EXCEPT !.stale = exec[c].op # "none"]
  OBVIOUS
<1>9. e \in Execs /\ ~Testing(e) /\ \A t : Len(t) = Len(s) => ExecFits(k, t, e)
  BY <1>2, <1>6, <1>8, TouchedFits DEF CycleFits
<1>10. WritesLast(c, row, k, e)
  <2>1. runs' = [runs EXCEPT ![c] = [@ EXCEPT ![Len(@)] = row]]
    BY <1>1, <1>2, <1>3 DEF Learn!ReviewFeedback, Learn!Round, LearnInv, LearnShape
  <2>2. cycle' = [cycle EXCEPT ![c] = k]
    BY <1>5, Unmoved DEF Learn!ReviewFeedback
  <2> QED BY <1>8, <2>1, <2>2 DEF WritesLast, Learn!ReviewFeedback, Learn!Touch
<1>11. StaysLast(runs[c], row, k)
  BY <1>1, <1>2, <1>4, <1>6, <1>7 DEF StaysLast
<1>12. k.champion \in k.approved
  BY <1>2, <1>6 DEF CycleFits, RowsFit
<1> QED BY <1>1, <1>2, <1>4, <1>6, <1>9, <1>10, <1>11, <1>12, LastMoves

LEMMA SelectKeeps ==
  ASSUME LearnInv, NEW c \in Cycles, NEW a \in Learn!Actions, Learn!SelectModel(c, a) PROVE LearnInv'
<1>1. PICK s : s = runs[c]
  OBVIOUS
<1>2. /\ s \in Seq(RunRows) /\ cycle[c] \in CycleRows /\ CycleFits(cycle[c], s, exec[c], owner[c])
      /\ exec[c] \in Execs /\ cycle[c].status = "AWAITING_REVIEW"
      /\ s # <<>> /\ s[Len(s)] \in RunRows /\ Len(s) \in DOMAIN s /\ Len(s) > 0
      /\ s[Len(s)].status = "COMPLETED" /\ ~s[Len(s)].cancel /\ s[Len(s)].base = cycle[c].champion
      /\ s[Len(s)].pending = 0 /\ cycle[c].champion \in cycle[c].approved
      /\ a # "REJECT" => s[Len(s)].eligible
  BY <1>1, CycleKnown, LastRun DEF Learn!SelectModel, Learn!Selectable, Learn!Actions, CycleFits, RowsFit
<1>3. PICK row : row = [s[Len(s)] EXCEPT !.selection = a]
  OBVIOUS
<1>4. /\ row \in RunRows /\ row.base = s[Len(s)].base /\ row.input = s[Len(s)].input
      /\ row.status = s[Len(s)].status /\ row.cancel = s[Len(s)].cancel
      /\ row.eligible = s[Len(s)].eligible /\ row.pending = s[Len(s)].pending
  BY <1>2, <1>3 DEF RunRows
<1>5. PICK k : k = [cycle[c] EXCEPT !.status = "AWAITING_DATA",
                      !.champion = IF a = "REJECT" THEN @ ELSE Len(s),
                      !.approved = IF a = "REJECT" THEN @ ELSE @ \cup {Len(s)}]
  OBVIOUS
<1>6. /\ k \in CycleRows /\ k.first = cycle[c].first /\ k.input = cycle[c].input /\ k.status = "AWAITING_DATA"
      /\ k.champion = IF a = "REJECT" THEN cycle[c].champion ELSE Len(s)
      /\ k.approved = IF a = "REJECT" THEN cycle[c].approved ELSE cycle[c].approved \cup {Len(s)}
  <2>1. PICK h : h = IF a = "REJECT" THEN cycle[c].champion ELSE Len(s)
    OBVIOUS
  <2>2. PICK g : g = IF a = "REJECT" THEN cycle[c].approved ELSE cycle[c].approved \cup {Len(s)}
    OBVIOUS
  <2>3. h \in Nat /\ g \in SUBSET Nat
    BY <1>2, <2>1, <2>2 DEF CycleRows
  <2>4. k = [cycle[c] EXCEPT !.status = "AWAITING_DATA", !.champion = h, !.approved = g]
    BY <1>2, <1>5, <2>1, <2>2 DEF CycleRows
  <2>5. k \in CycleRows /\ k.first = cycle[c].first /\ k.input = cycle[c].input /\ k.status = "AWAITING_DATA"
        /\ k.champion = h /\ k.approved = g
    BY <1>2, <2>3, <2>4 DEF CycleRows, Learn!Statuses
  <2> QED BY <2>1, <2>2, <2>5
<1>7. StaysLast(s, row, k)
  <2>1. CASE Len(s) \in cycle[c].approved
    BY <1>2, <1>4, <1>6, <2>1 DEF StaysLast, CycleFits, Earned
  <2>2. CASE Len(s) \notin cycle[c].approved
    BY <1>2, <1>4, <1>6, <2>2 DEF StaysLast
  <2> QED BY <2>1, <2>2
<1>8. PICK e : e = [exec[c] EXCEPT !.stale = exec[c].op # "none"]
  OBVIOUS
<1>9. e \in Execs /\ ~Testing(e) /\ \A t : Len(t) = Len(s) => ExecFits(k, t, e)
  BY <1>2, <1>6, <1>8, TouchedFits DEF CycleFits
<1>10. WritesLast(c, row, k, e)
  <2>1. runs' = [runs EXCEPT ![c] = [@ EXCEPT ![Len(@)] = row]]
    BY <1>1, <1>2, <1>3 DEF Learn!SelectModel, Learn!Round, LearnInv, LearnShape
  <2>2. cycle' = [cycle EXCEPT ![c] = k]
    BY <1>1, <1>2, <1>5 DEF Learn!SelectModel, Learn!Round, LearnInv, LearnShape
  <2> QED BY <1>8, <2>1, <2>2 DEF WritesLast, Learn!SelectModel, Learn!Touch
<1>11. /\ k.approved \ {Len(s)} \subseteq cycle[c].approved /\ cycle[c].approved \subseteq k.approved
       /\ k.champion \in k.approved
  BY <1>2, <1>6
<1> QED BY <1>1, <1>2, <1>4, <1>6, <1>7, <1>9, <1>10, <1>11, LastMoves

\* A step that writes one run, and touches the cycle or leaves it alone.
LEMMA RunMoves ==
  ASSUME LearnInv, NEW c \in Cycles, NEW n \in DOMAIN runs[c], NEW row \in RunRows, NEW e \in Execs,
         runs' = [runs EXCEPT ![c] = [@ EXCEPT ![n] = row]], exec' = [exec EXCEPT ![c] = e],
         row.base = runs[c][n].base, row.input = runs[c][n].input, row.status = runs[c][n].status,
         row.eligible = runs[c][n].eligible, row.cancel = runs[c][n].cancel, row.pending = runs[c][n].pending,
         \A s : Len(s) = Len(runs[c]) => ExecFits(cycle[c], s, e), ~Testing(e) \/ e = exec[c],
         UNCHANGED <<source, gate, cycle, holdouts, consumed, owner, tested>>
  PROVE  LearnInv'
<1>1. PICK s : s = runs[c]
  OBVIOUS
<1>2. PICK t : t = [s EXCEPT ![n] = row]
  OBVIOUS
<1>3. s \in Seq(RunRows) /\ n \in DOMAIN s /\ CycleFits(cycle[c], s, exec[c], owner[c])
  BY <1>1, CycleKnown
<1>4. /\ t \in Seq(RunRows) /\ Len(t) = Len(s)
      /\ \A m \in DOMAIN s : t[m] = IF m = n THEN row ELSE s[m]
      /\ HistoryFits(cycle[c].first, t) /\ Earned(cycle[c].approved, t)
  BY <1>1, <1>2, <1>3, RowChanged DEF CycleFits
<1>5. RowsFit(cycle[c], t, owner[c])
  <2>1. s # <<>> /\ t # <<>> /\ Len(s) \in DOMAIN s
    BY <1>3, <1>4, EmptySeq
  <2>2. /\ t[Len(t)].status = s[Len(s)].status /\ t[Len(t)].cancel = s[Len(s)].cancel
        /\ t[Len(t)].base = s[Len(s)].base
    BY <1>1, <1>4, <2>1
  <2> QED BY <1>3, <1>4, <2>1, <2>2 DEF CycleFits, RowsFit
<1>6. CycleFits(cycle[c], t, e, owner[c])
  BY <1>1, <1>4, <1>5 DEF CycleFits
<1>7. MovesTo(c, cycle[c], t, e, owner[c])
  <2>1. runs' = [runs EXCEPT ![c] = t]
    BY <1>1, <1>2, Unmoved DEF LearnInv, LearnShape
  <2> QED BY <2>1, Unmoved DEF MovesTo
<1>8. holdouts \subseteq Samples
  BY DEF LearnInv, LearnShape
<1> QED BY <1>4, <1>6, <1>7, <1>8, CycleKnown, QuietMoves

LEMMA RetainKeeps ==
  ASSUME LearnInv, NEW c \in Cycles, NEW n \in 1 .. MaxRounds, Learn!Retain(c, n) PROVE LearnInv'
<1>1. runs[c] \in Seq(RunRows) /\ n \in DOMAIN runs[c]
  BY CycleKnown DEF Learn!Retain, Learn!ModelsOf, Learn!Round
<1>2. PICK r : r = runs[c][n]
  OBVIOUS
<1>3. PICK row : row = [r EXCEPT !.retained = TRUE]
  OBVIOUS
<1>4. r \in RunRows
  BY <1>1, <1>2
<1>5. /\ row \in RunRows /\ row.base = r.base /\ row.input = r.input /\ row.status = r.status
      /\ row.eligible = r.eligible /\ row.cancel = r.cancel /\ row.pending = r.pending
  BY <1>3, <1>4 DEF RunRows
<1>6. runs' = [runs EXCEPT ![c] = [@ EXCEPT ![n] = row]]
  BY <1>1, <1>2, <1>3 DEF Learn!Retain, LearnInv, LearnShape
<1>7. PICK e : e = exec[c]
  OBVIOUS
<1>8. e \in Execs /\ exec' = [exec EXCEPT ![c] = e]
  BY <1>7, CycleKnown, Unmoved DEF Learn!Retain
<1>9. ASSUME NEW s, Len(s) = Len(runs[c]) PROVE ExecFits(cycle[c], s, e)
  BY <1>7, <1>9, CycleKnown DEF CycleFits, ExecFits
<1>10. UNCHANGED <<source, gate, cycle, holdouts, consumed, owner, tested>>
  BY DEF Learn!Retain
<1> QED BY <1>1, <1>2, <1>5, <1>6, <1>7, <1>8, <1>9, <1>10, RunMoves

LEMMA LinkKeeps ==
  ASSUME LearnInv, NEW c \in Cycles, NEW n \in 1 .. MaxRounds, NEW i \in Inputs, NEW b \in BOOLEAN,
         Learn!LinkFeedback(c, n, i, b)
  PROVE  LearnInv'
<1>1. runs[c] \in Seq(RunRows) /\ n \in DOMAIN runs[c]
  BY CycleKnown DEF Learn!LinkFeedback, Learn!Round
<1>2. PICK r : r = runs[c][n]
  OBVIOUS
<1>3. PICK row : row = [r EXCEPT !.linked = {[input |-> i, train |-> b]}]
  OBVIOUS
<1>4. r \in RunRows
  BY <1>1, <1>2
<1>5. /\ row \in RunRows /\ row.base = r.base /\ row.input = r.input /\ row.status = r.status
      /\ row.eligible = r.eligible /\ row.cancel = r.cancel /\ row.pending = r.pending
  BY <1>3, <1>4 DEF RunRows
<1>6. runs' = [runs EXCEPT ![c] = [@ EXCEPT ![n] = row]]
  BY <1>1, <1>2, <1>3 DEF Learn!LinkFeedback, LearnInv, LearnShape
<1>7. PICK e : e = [exec[c] EXCEPT !.stale = exec[c].op # "none"]
  OBVIOUS
<1>8. exec' = [exec EXCEPT ![c] = e]
  BY <1>7 DEF Learn!LinkFeedback, Learn!Touch
<1>9. /\ cycle[c] \in CycleRows /\ exec[c] \in Execs /\ ExecFits(cycle[c], runs[c], exec[c])
      /\ cycle[c].status \notin {"ABSENT", "FINALIZING"}
  BY CycleKnown DEF Learn!LinkFeedback, CycleFits
<1>10. e \in Execs /\ ~Testing(e) /\ \A s : Len(s) = Len(runs[c]) => ExecFits(cycle[c], s, e)
  BY <1>7, <1>9, TouchedFits
<1> QED BY <1>1, <1>2, <1>5, <1>6, <1>8, <1>10, RunMoves DEF Learn!LinkFeedback

\* A step that writes the row of a cycle and not its runs, with no final test.
LEMMA CycleRowMoves ==
  ASSUME LearnInv, NEW c \in Cycles, NEW k \in CycleRows, NEW e \in Execs,
         cycle' = [cycle EXCEPT ![c] = k], exec' = [exec EXCEPT ![c] = e],
         UNCHANGED <<source, gate, runs, holdouts, consumed, owner, tested>>,
         k.first = cycle[c].first, k.input = cycle[c].input, k.approved = cycle[c].approved,
         k.champion \in k.approved, cycle[c].status # "ABSENT",
         k.status \notin {"ABSENT", "RUNNING", "AWAITING_REVIEW", "FINALIZING"},
         ExecFits(k, runs[c], e), ~Testing(e)
  PROVE  LearnInv'
<1>1. CycleFits(k, runs[c], e, owner[c])
  BY CycleKnown DEF CycleFits, RowsFit
<1>2. MovesTo(c, k, runs[c], e, owner[c])
  BY Unmoved DEF MovesTo
<1>3. holdouts \subseteq Samples
  BY DEF LearnInv, LearnShape
<1> QED BY <1>1, <1>2, <1>3, CycleKnown, QuietMoves

LEMMA RollbackKeeps ==
  ASSUME LearnInv, NEW c \in Cycles, NEW n \in 0 .. MaxRounds, Learn!Rollback(c, n) PROVE LearnInv'
<1>1. /\ cycle[c] \in CycleRows /\ exec[c] \in Execs /\ ExecFits(cycle[c], runs[c], exec[c])
      /\ cycle[c].status = "AWAITING_DATA" /\ n \in cycle[c].approved
  BY CycleKnown DEF Learn!Rollback, Learn!MayRollback, CycleFits
<1>2. PICK k : k = [cycle[c] EXCEPT !.champion = n]
  OBVIOUS
<1>3. /\ k \in CycleRows /\ k.first = cycle[c].first /\ k.input = cycle[c].input
      /\ k.approved = cycle[c].approved /\ k.champion = n /\ k.status = "AWAITING_DATA"
  BY <1>1, <1>2 DEF CycleRows
<1>4. PICK e : e = [exec[c] EXCEPT !.stale = exec[c].op # "none"]
  OBVIOUS
<1>5. e \in Execs /\ ~Testing(e) /\ ExecFits(k, runs[c], e)
  BY <1>1, <1>3, <1>4, TouchedFits
<1>6. cycle' = [cycle EXCEPT ![c] = k] /\ exec' = [exec EXCEPT ![c] = e]
  BY <1>2, <1>4 DEF Learn!Rollback, Learn!Touch
<1>7. UNCHANGED <<source, gate, runs, holdouts, consumed, owner, tested>>
  BY DEF Learn!Rollback
<1> QED BY <1>1, <1>3, <1>5, <1>6, <1>7, CycleRowMoves

LEMMA CancelKeeps ==
  ASSUME LearnInv, NEW c \in Cycles, Learn!Cancel(c) PROVE LearnInv'
<1>1. PICK s : s = runs[c]
  OBVIOUS
<1>2. /\ s \in Seq(RunRows) /\ cycle[c] \in CycleRows /\ CycleFits(cycle[c], s, exec[c], owner[c])
      /\ exec[c] \in Execs /\ cycle[c].status \notin {"ABSENT", "FINALIZING"}
      /\ cycle[c].champion \in cycle[c].approved
  BY <1>1, CycleKnown DEF Learn!Cancel, Learn!Closed, CycleFits, RowsFit
<1>3. PICK e : e = [exec[c] EXCEPT !.stale = exec[c].op # "none"]
  OBVIOUS
<1>4. exec' = [exec EXCEPT ![c] = e]
  BY <1>3 DEF Learn!Cancel, Learn!Touch
<1>5. CASE cycle[c].status = "RUNNING"
  <2>1. /\ s # <<>> /\ s[Len(s)] \in RunRows /\ Len(s) \in DOMAIN s /\ Len(s) > 0
        /\ s[Len(s)].status = "RUNNING" /\ s[Len(s)].base = cycle[c].champion
    BY <1>1, <1>2, <1>5, LastRun DEF CycleFits, RowsFit
  <2>2. PICK row : row = [s[Len(s)] EXCEPT !.cancel = TRUE]
    OBVIOUS
  <2>3. /\ row \in RunRows /\ row.base = s[Len(s)].base /\ row.input = s[Len(s)].input
        /\ row.status = "RUNNING"
    BY <2>1, <2>2 DEF RunRows
  <2>4. Len(s) \notin cycle[c].approved
    BY <1>2, <2>1 DEF CycleFits, Earned
  <2>5. StaysLast(s, row, cycle[c])
    BY <2>1, <2>3, <2>4 DEF StaysLast
  <2>6. WritesLast(c, row, cycle[c], e)
    <3>1. runs' = [runs EXCEPT ![c] = [@ EXCEPT ![Len(@)] = row]]
      BY <1>1, <1>2, <1>5, <2>1, <2>2 DEF Learn!Cancel, Learn!Round, LearnInv, LearnShape
    <3> QED BY <1>4, <1>5, <3>1, Unmoved DEF WritesLast, Learn!Cancel
  <2>7. e \in Execs /\ ~Testing(e) /\ \A t : Len(t) = Len(s) => ExecFits(cycle[c], t, e)
    BY <1>2, <1>3, TouchedFits DEF CycleFits
  <2> QED BY <1>1, <1>2, <1>5, <2>1, <2>3, <2>5, <2>6, <2>7, LastMoves
<1>6. CASE cycle[c].status # "RUNNING"
  <2>1. PICK k : k = [cycle[c] EXCEPT !.status = "STOPPED"]
    OBVIOUS
  <2>2. /\ k \in CycleRows /\ k.first = cycle[c].first /\ k.input = cycle[c].input
        /\ k.approved = cycle[c].approved /\ k.champion = cycle[c].champion /\ k.status = "STOPPED"
    BY <1>2, <2>1 DEF CycleRows, Learn!Statuses, Learn!Closed
  <2>3. e \in Execs /\ ~Testing(e) /\ ExecFits(k, runs[c], e)
    BY <1>1, <1>2, <1>3, <1>6, <2>2, TouchedFits DEF CycleFits
  <2>4. cycle' = [cycle EXCEPT ![c] = k]
    BY <1>6, <2>1 DEF Learn!Cancel
  <2>5. UNCHANGED <<source, gate, runs, holdouts, consumed, owner, tested>>
    BY <1>6 DEF Learn!Cancel
  <2> QED BY <1>2, <1>4, <2>2, <2>3, <2>4, <2>5, CycleRowMoves
<1> QED BY <1>5, <1>6

-----------------------------------------------------------------------------
(* Learning: the final test, recovery and the environment *)

LEMMA StartFinalizeKeeps ==
  ASSUME LearnInv, NEW c \in Cycles, Learn!StartFinalize(c) PROVE LearnInv'
<1>1. PICK i : i = cycle[c].input
  OBVIOUS
<1>2. PICK b : b = cycle[c].champion
  OBVIOUS
<1>3. cycle[c].status = "AWAITING_DATA" /\ i \in Inputs /\ b \in Nat
  BY <1>1, <1>2, CycleKnown DEF Learn!StartFinalize, CycleFits, RowsFit, CycleRows
<1>4. PICK e : e = [Learn!Idle EXCEPT !.op = "finalize", !.step = "prepared", !.input = i, !.base = b]
  OBVIOUS
<1>5. e \in Execs /\ e.op = "finalize" /\ e.step = "prepared" /\ e.input = i /\ e.base = b
  BY <1>3, <1>4 DEF Learn!Idle, Execs
<1>6. exec' = [exec EXCEPT ![c] = e]
  BY <1>1, <1>2, <1>4 DEF Learn!StartFinalize
<1>7. ExecFits(cycle[c], runs[c], e) /\ ~Testing(e)
  BY <1>2, <1>3, <1>5 DEF ExecFits, Testing
<1> QED BY <1>5, <1>6, <1>7, ExecMoves DEF Learn!StartFinalize

LEMMA ConsumeKeeps ==
  ASSUME LearnInv, NEW c \in Cycles, Learn!ConsumeTest(c) PROVE LearnInv'
<1>1. PICK x : x = exec[c]
  OBVIOUS
<1>2. PICK i : i = x.input
  OBVIOUS
<1>3. /\ x \in Execs /\ cycle[c] \in CycleRows /\ runs[c] \in Seq(RunRows)
      /\ CycleFits(cycle[c], runs[c], x, owner[c])
      /\ x.op = "finalize" /\ x.step = "prepared" /\ ~x.stale /\ Learn!HoldoutsAllow(i)
  BY <1>1, <1>2, CycleKnown DEF Learn!ConsumeTest, Learn!MayConsume
<1>4. i \in Inputs /\ x.base = cycle[c].champion /\ cycle[c].status # "ABSENT"
  BY <1>2, <1>3 DEF CycleFits, ExecFits
<1>5. PICK k : k = [cycle[c] EXCEPT !.status = "FINALIZING"]
  OBVIOUS
<1>6. /\ k \in CycleRows /\ k.first = cycle[c].first /\ k.input = cycle[c].input
      /\ k.approved = cycle[c].approved /\ k.champion = cycle[c].champion /\ k.status = "FINALIZING"
  BY <1>3, <1>5 DEF CycleRows, Learn!Statuses, Learn!Closed
<1>7. PICK e : e = [x EXCEPT !.step = "testing"]
  OBVIOUS
<1>8. e \in Execs /\ e.op = "finalize" /\ e.step = "testing" /\ e.input = i /\ e.base = x.base
  BY <1>2, <1>3, <1>7 DEF Execs
<1>9. PICK w : w = [op |-> "finalize", run |-> 0]
  OBVIOUS
<1>10. w \in Owners
  BY <1>9, LearningAssumption DEF Owners, Learn!SplitsAreDisjoint
<1>11. MovesTo(c, k, runs[c], e, w)
  BY <1>1, <1>5, <1>7, <1>9, Unmoved DEF MovesTo, Learn!ConsumeTest, Learn!OwnerOf
<1>12. CycleFits(k, runs[c], e, w)
  BY <1>3, <1>4, <1>6, <1>8, <1>9 DEF CycleFits, RowsFit, ExecFits
<1>13. /\ consumed' = consumed \cup Split[i].test /\ holdouts' = Learn!HoldoutsWith(i)
       /\ UNCHANGED <<source, gate, tested>>
  BY <1>1, <1>2 DEF Learn!ConsumeTest
<1>14. \A d \in Cycles : exec'[d] = IF d = c THEN e ELSE exec[d]
  BY <1>11 DEF MovesTo, LearnInv, LearnShape
<1>15. Split[i].test \cap consumed = {} /\ Split[i].test \subseteq Samples
  BY <1>3, <1>4, LearningAssumption DEF Learn!HoldoutsAllow, Learn!Members, Learn!SplitsAreDisjoint
<1>16. TestOf(e) = Split[i].test /\ Testing(e)
  BY <1>8 DEF TestOf, Testing
<1>17. TestsFit'
  <2>1. \A y \in Samples : tested'[y] = 1 => y \in consumed'
    BY <1>13 DEF LearnInv, TestsFit
  <2>2. ASSUME NEW d \in Cycles, Testing(exec'[d])
        PROVE  TestOf(exec'[d]) \subseteq consumed' /\ \A y \in TestOf(exec'[d]) : tested'[y] = 0
    <3>1. CASE d = c
      <4>1. exec'[d] = e
        BY <1>14, <3>1
      <4>2. ASSUME NEW y \in Split[i].test PROVE tested[y] = 0
        BY <1>15 DEF LearnInv, LearnShape, TestsFit
      <4> QED BY <1>13, <1>16, <4>1, <4>2
    <3>2. CASE d # c
      BY <1>13, <1>14, <2>2, <3>2 DEF LearnInv, TestsFit
    <3> QED BY <3>1, <3>2
  <2>3. ASSUME NEW d \in Cycles, d # c, Testing(exec'[d])
        PROVE  TestOf(exec'[d]) \cap TestOf(exec'[c]) = {}
    <3>1. exec'[d] = exec[d] /\ exec'[c] = e
      BY <1>14, <2>3
    <3>2. TestOf(exec[d]) \subseteq consumed
      BY <2>3, <3>1 DEF LearnInv, TestsFit
    <3> QED BY <1>15, <1>16, <3>1, <3>2
  <2>4. ASSUME NEW d \in Cycles, NEW g \in Cycles, d # g, Testing(exec'[d]), Testing(exec'[g])
        PROVE  TestOf(exec'[d]) \cap TestOf(exec'[g]) = {}
    <3>1. CASE d = c \/ g = c
      BY <2>3, <2>4, <3>1
    <3>2. CASE d # c /\ g # c
      BY <1>14, <2>4, <3>2 DEF LearnInv, TestsFit
    <3> QED BY <3>1, <3>2
  <2> QED BY <2>1, <2>2, <2>4 DEF TestsFit
<1>18. holdouts' \subseteq Samples /\ consumed' \subseteq holdouts' /\ tested' \in [Samples -> 0 .. 1]
  BY <1>4, <1>13, HoldoutsGrow DEF LearnInv, LearnShape
<1> QED BY <1>3, <1>6, <1>8, <1>10, <1>11, <1>12, <1>13, <1>17, <1>18, CycleMoves

LEMMA EvaluateKeeps ==
  ASSUME LearnInv, NEW c \in Cycles, Learn!EvaluateTest(c) PROVE LearnInv'
<1>1. PICK x : x = exec[c]
  OBVIOUS
<1>2. PICK i : i = x.input
  OBVIOUS
<1>3. /\ x \in Execs /\ CycleFits(cycle[c], runs[c], x, owner[c])
      /\ x.op = "finalize" /\ x.step = "testing"
  BY <1>1, <1>2, CycleKnown DEF Learn!EvaluateTest
<1>4. PICK e : e = [x EXCEPT !.step = "tested"]
  OBVIOUS
<1>5. e \in Execs /\ e.op = "finalize" /\ e.step = "tested" /\ e.input = i /\ e.base = x.base
  BY <1>2, <1>3, <1>4 DEF Execs
<1>6. MovesTo(c, cycle[c], runs[c], e, owner[c])
  BY <1>1, <1>4, Unmoved DEF MovesTo, Learn!EvaluateTest
<1>7. CycleFits(cycle[c], runs[c], e, owner[c])
  BY <1>2, <1>3, <1>5 DEF CycleFits, ExecFits
<1>8. /\ UNCHANGED <<source, gate, holdouts, consumed>>
      /\ tested' = [y \in Samples |-> tested[y] + IF y \in Split[i].test THEN 1 ELSE 0]
  BY <1>1, <1>2 DEF Learn!EvaluateTest
<1>9. Testing(x) /\ TestOf(x) = Split[i].test /\ ~Testing(e)
  BY <1>2, <1>3, <1>5 DEF Testing, TestOf
<1>10. Split[i].test \subseteq consumed /\ \A y \in Split[i].test : tested[y] = 0
  BY <1>1, <1>9 DEF LearnInv, TestsFit
<1>11. \A d \in Cycles : exec'[d] = IF d = c THEN e ELSE exec[d]
  BY <1>6 DEF MovesTo, LearnInv, LearnShape
<1>12. \A y \in Samples : tested'[y] = IF y \in Split[i].test THEN 1 ELSE tested[y]
  BY <1>8, <1>10 DEF LearnInv, LearnShape
<1>13. tested' \in [Samples -> 0 .. 1]
  <2>1. tested' = [y \in Samples |-> tested'[y]]
    BY <1>8
  <2>2. \A y \in Samples : tested'[y] \in 0 .. 1
    BY <1>12 DEF LearnInv, LearnShape
  <2> QED BY <2>1, <2>2
<1>14. TestsFit'
  <2>1. \A y \in Samples : tested'[y] = 1 => y \in consumed'
    BY <1>8, <1>10, <1>12 DEF LearnInv, TestsFit
  <2>2. \A d \in Cycles : Testing(exec'[d]) => d # c /\ exec'[d] = exec[d] /\ Testing(exec[d])
    BY <1>9, <1>11
  <2>3. ASSUME NEW d \in Cycles, Testing(exec'[d])
        PROVE  TestOf(exec'[d]) \subseteq consumed' /\ \A y \in TestOf(exec'[d]) : tested'[y] = 0
    <3>1. d # c /\ exec'[d] = exec[d] /\ Testing(exec[d])
      BY <2>2, <2>3
    <3>2. /\ TestOf(exec[d]) \subseteq consumed /\ \A y \in TestOf(exec[d]) : tested[y] = 0
          /\ TestOf(exec[d]) \cap Split[i].test = {}
      BY <1>1, <1>9, <3>1 DEF LearnInv, TestsFit
    <3>3. consumed \subseteq Samples
      BY DEF LearnInv, LearnShape
    <3> QED BY <1>8, <1>12, <3>1, <3>2, <3>3
  <2>4. \A d, g \in Cycles : d # g /\ Testing(exec'[d]) /\ Testing(exec'[g])
                             => TestOf(exec'[d]) \cap TestOf(exec'[g]) = {}
    BY <2>2 DEF LearnInv, TestsFit
  <2> QED BY <2>1, <2>3, <2>4 DEF TestsFit
<1>15. holdouts' \subseteq Samples /\ consumed' \subseteq holdouts'
  BY <1>8 DEF LearnInv, LearnShape
<1> QED BY <1>5, <1>6, <1>7, <1>8, <1>13, <1>14, <1>15, CycleKnown, CycleMoves

\* What the holder of the lock knows while a final test is under way.
LEMMA FinalTest ==
  ASSUME LearnInv, NEW c \in Cycles, exec[c].op = "finalize", exec[c].step \in {"testing", "tested"}
  PROVE  /\ cycle[c] \in CycleRows /\ cycle[c].status = "FINALIZING"
         /\ exec[c].base = cycle[c].champion
         /\ cycle[c].champion \in cycle[c].approved /\ Earned(cycle[c].approved, runs[c])
         /\ HistoryFits(cycle[c].first, runs[c])
BY CycleKnown DEF CycleFits, ExecFits, RowsFit

\* A refused candidate gives way to an earlier approved model.
LEMMA ChampionFollows ==
  ASSUME LearnInv, NEW c \in Cycles, NEW b \in BOOLEAN,
         exec[c].op = "finalize", exec[c].step \in {"testing", "tested"}
  PROVE  LET h == Learn!ChampionAfter(c, b) n == cycle[c].champion IN
         /\ h \in cycle[c].approved /\ h \in Nat
         /\ b => h = n
         /\ ~b => h < n \/ n = 0
<1>1. PICK n : n = cycle[c].champion
  OBVIOUS
<1>2. /\ n \in cycle[c].approved /\ exec[c].base = n /\ n \in Nat /\ cycle[c].approved \subseteq Nat
      /\ 0 \in cycle[c].approved /\ runs[c] \in Seq(RunRows)
  BY <1>1, FinalTest, CycleKnown DEF CycleRows, Earned
<1>3. CASE b
  BY <1>1, <1>2, <1>3 DEF Learn!ChampionAfter
<1>4. CASE ~b /\ n = 0
  BY <1>1, <1>2, <1>4 DEF Learn!ChampionAfter, Learn!ParentOf
<1>5. CASE ~b /\ n # 0
  <2>1. Learn!ChampionAfter(c, b) = runs[c][n].base
    BY <1>2, <1>5 DEF Learn!ChampionAfter, Learn!ParentOf
  <2>2. n \in DOMAIN runs[c] /\ runs[c][n].base \in cycle[c].approved
    BY <1>2, <1>5, FinalTest DEF Earned
  <2>3. runs[c][n].base < n
    BY <2>2, FinalTest DEF HistoryFits
  <2> QED BY <1>1, <1>2, <1>5, <2>1, <2>2, <2>3
<1> QED BY <1>3, <1>4, <1>5

LEMMA SealKeeps ==
  ASSUME LearnInv, NEW c \in Cycles, NEW b \in BOOLEAN, Learn!Seal(c, b) PROVE LearnInv'
<1>1. PICK h : h = Learn!ChampionAfter(c, b)
  OBVIOUS
<1>2. exec[c].op = "finalize" /\ exec[c].step \in {"testing", "tested"}
  BY DEF Learn!Seal
<1>3. h \in cycle[c].approved /\ h \in Nat
  BY <1>1, <1>2, ChampionFollows
<1>4. cycle[c] \in CycleRows /\ cycle[c].status = "FINALIZING"
  BY <1>2, FinalTest
<1>5. PICK k : k = [cycle[c] EXCEPT !.status = "FINALIZED", !.accepted = b, !.champion = h]
  OBVIOUS
<1>6. /\ k \in CycleRows /\ k.first = cycle[c].first /\ k.input = cycle[c].input
      /\ k.approved = cycle[c].approved /\ k.champion = h /\ k.status = "FINALIZED"
  BY <1>3, <1>4, <1>5 DEF CycleRows, Learn!Statuses, Learn!Closed
<1>7. cycle' = [cycle EXCEPT ![c] = k] /\ exec' = [exec EXCEPT ![c] = Learn!Idle]
  <2>1. cycle' = [cycle EXCEPT ![c].status = "FINALIZED", ![c].accepted = b, ![c].champion = h]
    BY <1>1 DEF Learn!Seal
  <2> QED BY <1>5, <2>1 DEF Learn!Seal, Learn!Free, LearnInv, LearnShape
<1>8. UNCHANGED <<source, gate, runs, holdouts, consumed, owner, tested>>
  BY DEF Learn!Seal
<1> QED BY <1>3, <1>4, <1>6, <1>7, <1>8, IdleFits, CycleRowMoves

LEMMA FailFinalizeKeeps ==
  ASSUME LearnInv, NEW c \in Cycles, Learn!FailFinalize(c) PROVE LearnInv'
<1>1. /\ cycle[c] \in CycleRows /\ cycle[c].status = "FINALIZING"
      /\ cycle[c].champion \in cycle[c].approved
  BY FinalTest DEF Learn!FailFinalize
<1>2. PICK k : k = [cycle[c] EXCEPT !.status = "STOPPED"]
  OBVIOUS
<1>3. /\ k \in CycleRows /\ k.first = cycle[c].first /\ k.input = cycle[c].input
      /\ k.approved = cycle[c].approved /\ k.champion = cycle[c].champion /\ k.status = "STOPPED"
  BY <1>1, <1>2 DEF CycleRows, Learn!Statuses, Learn!Closed
<1>4. cycle' = [cycle EXCEPT ![c] = k] /\ exec' = [exec EXCEPT ![c] = Learn!Idle]
  BY <1>2 DEF Learn!FailFinalize, Learn!Free
<1>5. UNCHANGED <<source, gate, runs, holdouts, consumed, owner, tested>>
  BY DEF Learn!FailFinalize
<1> QED BY <1>1, <1>3, <1>4, <1>5, IdleFits, CycleRowMoves

LEMMA RecoverKeeps ==
  ASSUME LearnInv, NEW c \in Cycles, Learn!Recover(c) PROVE LearnInv'
<1>1. PICK s : s = runs[c]
  OBVIOUS
<1>2. /\ s \in Seq(RunRows) /\ cycle[c] \in CycleRows /\ CycleFits(cycle[c], s, exec[c], owner[c])
      /\ cycle[c].champion \in cycle[c].approved
      /\ exec' = [exec EXCEPT ![c] = Learn!Idle]
  BY <1>1, CycleKnown, Unmoved DEF Learn!Recover, CycleFits, RowsFit
<1>3. CASE cycle[c].status = "RUNNING"
  <2>1. /\ s # <<>> /\ s[Len(s)] \in RunRows /\ Len(s) \in DOMAIN s /\ Len(s) > 0
        /\ s[Len(s)].status = "RUNNING"
    BY <1>1, <1>2, <1>3, LastRun DEF CycleFits, RowsFit
  <2>2. PICK row : row = [s[Len(s)] EXCEPT !.status = "INTERRUPTED", !.cancel = TRUE]
    OBVIOUS
  <2>3. row \in RunRows /\ row.base = s[Len(s)].base /\ row.input = s[Len(s)].input
    BY <2>1, <2>2 DEF RunRows
  <2>4. PICK k : k = [cycle[c] EXCEPT !.status = "AWAITING_DATA"]
    OBVIOUS
  <2>5. /\ k \in CycleRows /\ k.status = "AWAITING_DATA" /\ k.first = cycle[c].first /\ k.input = cycle[c].input
        /\ k.champion = cycle[c].champion /\ k.approved = cycle[c].approved
    BY <1>2, <2>4 DEF CycleRows, Learn!Statuses
  <2>6. Len(s) \notin cycle[c].approved
    BY <1>2, <2>1 DEF CycleFits, Earned
  <2>7. StaysLast(s, row, k)
    BY <2>1, <2>3, <2>5, <2>6 DEF StaysLast
  <2>8. WritesLast(c, row, k, Learn!Idle)
    <3>1. runs' = [runs EXCEPT ![c] = [@ EXCEPT ![Len(@)] = row]]
      BY <1>1, <1>3, <2>1, <2>2 DEF Learn!Recover, Learn!Round, LearnInv, LearnShape
    <3>2. cycle' = [cycle EXCEPT ![c] = k]
      BY <1>3, <2>4 DEF Learn!Recover, Learn!RecoveredStatus
    <3> QED BY <1>2, <3>1, <3>2 DEF WritesLast, Learn!Recover
  <2> QED BY <1>1, <1>2, <1>3, <2>3, <2>5, <2>7, <2>8, IdleFits, LastMoves
<1>4. CASE cycle[c].status = "FINALIZING"
  <2>1. PICK k : k = [cycle[c] EXCEPT !.status = "STOPPED"]
    OBVIOUS
  <2>2. /\ k \in CycleRows /\ k.first = cycle[c].first /\ k.input = cycle[c].input
        /\ k.approved = cycle[c].approved /\ k.champion = cycle[c].champion /\ k.status = "STOPPED"
    BY <1>2, <2>1 DEF CycleRows, Learn!Statuses, Learn!Closed
  <2>3. cycle' = [cycle EXCEPT ![c] = k]
    BY <1>4, <2>1 DEF Learn!Recover, Learn!RecoveredStatus
  <2>4. UNCHANGED <<source, gate, runs, holdouts, consumed, owner, tested>>
    BY <1>4 DEF Learn!Recover
  <2> QED BY <1>2, <1>4, <2>2, <2>3, <2>4, IdleFits, CycleRowMoves
<1> QED BY <1>3, <1>4 DEF Learn!Recover

LEMMA SourcesKeep ==
  ASSUME LearnInv, NEW i \in Inputs, Learn!RevokeSource(i) \/ Learn!GateChanges(i) PROVE LearnInv'
<1>1. UNCHANGED <<cycle, runs, holdouts, consumed, owner, exec, tested>>
  BY DEF Learn!RevokeSource, Learn!GateChanges
<1>2. source' \in [Inputs -> BOOLEAN] /\ gate' \in [Inputs -> BOOLEAN]
  BY DEF LearnInv, LearnShape, Learn!RevokeSource, Learn!GateChanges
<1>3. LearnShape'
  BY <1>1, <1>2 DEF LearnInv, LearnShape
<1>4. TestsFit'
  BY <1>1 DEF LearnInv, TestsFit
<1>5. \A c \in Cycles : CycleFits(cycle'[c], runs'[c], exec'[c], owner'[c])
  BY <1>1 DEF LearnInv
<1> QED BY <1>3, <1>4, <1>5 DEF LearnInv

LEMMA LearnStutters == LearnInv /\ UNCHANGED Learn!vars => LearnInv'
BY DEF Learn!vars, LearnInv, LearnShape, TestsFit

LEMMA LearnNext == LearnInv /\ [Learn!Next]_(Learn!vars) => LearnInv'
<1> SUFFICES ASSUME LearnInv, [Learn!Next]_(Learn!vars) PROVE LearnInv'
  OBVIOUS
<1>1. CASE UNCHANGED Learn!vars
  BY <1>1, LearnStutters
<1>2. ASSUME NEW i \in Inputs, Learn!RevokeSource(i) \/ Learn!GateChanges(i) PROVE LearnInv'
  BY <1>2, SourcesKeep
<1>3. ASSUME NEW c \in Cycles, Learn!Execute(c) PROVE LearnInv'
  <2>1. ASSUME NEW b \in BOOLEAN, NEW m \in 0 .. MaxErrors, Learn!Publish(c, b, m) PROVE LearnInv'
    BY <2>1, PublishKeeps
  <2>2. ASSUME NEW b \in BOOLEAN, Learn!Seal(c, b) PROVE LearnInv'
    BY <2>2, SealKeeps
  <2>3. Learn!ConfirmCreate(c) \/ Learn!CommitCreate(c) => LearnInv'
    BY ConfirmCreateKeeps, CommitCreateKeeps
  <2>4. Learn!Reserve(c) \/ Learn!Train(c) \/ Learn!FailRound(c) \/ Learn!Abandon(c) => LearnInv'
    BY ReserveKeeps, TrainKeeps, FailRoundKeeps, LetsGoKeeps
  <2>5. Learn!ConsumeTest(c) \/ Learn!EvaluateTest(c) \/ Learn!FailFinalize(c) => LearnInv'
    BY ConsumeKeeps, EvaluateKeeps, FailFinalizeKeeps
  <2> QED BY <1>3, <2>1, <2>2, <2>3, <2>4, <2>5 DEF Learn!Execute
<1>4. ASSUME NEW c \in Cycles, Learn!Decide(c) PROVE LearnInv'
  <2>1. ASSUME NEW i \in Inputs, Learn!StartCreate(c, i) PROVE LearnInv'
    BY <2>1, StartCreateKeeps
  <2>2. ASSUME NEW i \in Inputs, NEW r \in BOOLEAN, Learn!StartRound(c, i, r) PROVE LearnInv'
    BY <2>2, StartRoundKeeps
  <2>3. ASSUME NEW p \in BOOLEAN, Learn!ReviewFeedback(c, p) PROVE LearnInv'
    BY <2>3, ReviewKeeps
  <2>4. ASSUME NEW n \in 1 .. MaxRounds, Learn!Retain(c, n) PROVE LearnInv'
    BY <2>4, RetainKeeps
  <2>5. ASSUME NEW a \in Learn!Actions, Learn!SelectModel(c, a) PROVE LearnInv'
    BY <2>5, SelectKeeps
  <2>6. ASSUME NEW n \in 1 .. MaxRounds, NEW i \in Inputs, NEW t \in BOOLEAN, Learn!LinkFeedback(c, n, i, t)
        PROVE  LearnInv'
    BY <2>6, LinkKeeps
  <2>7. ASSUME NEW n \in 0 .. MaxRounds, Learn!Rollback(c, n) PROVE LearnInv'
    BY <2>7, RollbackKeeps
  <2>8. Learn!Cancel(c) \/ Learn!StartFinalize(c) => LearnInv'
    BY CancelKeeps, StartFinalizeKeeps
  <2> QED BY <1>4, <2>1, <2>2, <2>3, <2>4, <2>5, <2>6, <2>7, <2>8 DEF Learn!Decide
<1>5. ASSUME NEW c \in Cycles, Learn!Recover(c) \/ Learn!Crash(c) PROVE LearnInv'
  BY <1>5, RecoverKeeps, LetsGoKeeps
<1> QED BY <1>1, <1>2, <1>3, <1>4, <1>5 DEF Learn!Next

-----------------------------------------------------------------------------
(* Learning: what the invariant promises *)

LEMMA LearnPromises == LearnInv => LearningIsFair
<1> SUFFICES ASSUME LearnInv PROVE LearningIsFair
  OBVIOUS
<1>1. Learn!TypeOK
  <2>1. ASSUME NEW c \in Cycles
        PROVE  /\ cycle[c].status \in Learn!Statuses
               /\ cycle[c].first \in Inputs \cup {Learn!NoInput} /\ cycle[c].input \in Inputs \cup {Learn!NoInput}
               /\ cycle[c].approved \subseteq Learn!ModelsOf(c) /\ cycle[c].champion \in cycle[c].approved
               /\ Learn!Round(c) <= MaxRounds
               /\ owner[c].op \in {"none", "train", "finalize"} /\ owner[c].run \in 0 .. MaxRounds
    <3>1. /\ cycle[c] \in CycleRows /\ owner[c] \in Owners /\ Earned(cycle[c].approved, runs[c])
          /\ HistoryFits(cycle[c].first, runs[c]) /\ cycle[c].champion \in cycle[c].approved
      BY CycleKnown DEF CycleFits, RowsFit
    <3>2. cycle[c].approved \subseteq Learn!ModelsOf(c)
      BY <3>1, LastRun DEF Earned, Learn!ModelsOf
    <3>3. Learn!Round(c) <= MaxRounds
      BY <3>1 DEF HistoryFits, Learn!Round
    <3> QED BY <3>1, <3>2, <3>3 DEF CycleRows, Owners
  <2> QED BY <2>1, LearningAssumption DEF LearnInv, LearnShape, Learn!TypeOK
<1>2. Learn!FinalTestOnce
  BY DEF LearnInv, LearnShape, Learn!FinalTestOnce
<1>3. Learn!ComparableRounds
  <2> SUFFICES ASSUME NEW c \in Cycles, NEW n \in 1 .. Learn!Round(c)
               PROVE  LET s == Split[runs[c][n].input] f == Split[cycle[c].first]
                      IN /\ s.val = f.val /\ s.test = f.test
                         /\ s.train \cap (f.val \cup f.test) = {}
    BY DEF Learn!ComparableRounds
  <2>1. runs[c] \in Seq(RunRows) /\ n \in DOMAIN runs[c] /\ HistoryFits(cycle[c].first, runs[c])
    BY CycleKnown DEF CycleFits, Learn!Round
  <2>2. runs[c][n] \in RunRows
    BY <2>1, ElementOfSeq
  <2>3. runs[c][n].input \in Inputs /\ SameTests(runs[c][n].input, cycle[c].first)
    BY <2>1, <2>2 DEF HistoryFits, RunRows
  <2> QED BY <2>3, LearningAssumption DEF SameTests, Learn!SplitsAreDisjoint
<1>4. Learn!ApprovedIsEarned
  <2> SUFFICES ASSUME NEW c \in Cycles, NEW n \in cycle[c].approved \ {0}
               PROVE  LET r == runs[c][n]
                      IN /\ r.status = "COMPLETED" /\ r.eligible /\ ~r.cancel /\ r.pending = 0
                         /\ r.base \in cycle[c].approved /\ r.base < n
    BY DEF Learn!ApprovedIsEarned
  <2>1. Earned(cycle[c].approved, runs[c]) /\ HistoryFits(cycle[c].first, runs[c])
    BY CycleKnown DEF CycleFits
  <2> QED BY <2>1 DEF Earned, HistoryFits
<1>5. Learn!BaselineIsChampion
  BY CycleKnown, LastRun DEF CycleFits, RowsFit, Learn!BaselineIsChampion
<1>6. Learn!OwnerNamesWork
  BY CycleKnown, LastRun DEF CycleFits, RowsFit, Learn!OwnerNamesWork, Learn!OwnerMatches
<1> QED BY <1>1, <1>2, <1>3, <1>4, <1>5, <1>6 DEF LearningIsFair

\* A person's decisions and the steps of a run leave other cycles alone.
LEMMA OthersStay ==
  ASSUME LearnInv, NEW c \in Cycles, NEW d \in Cycles, c # d,
         Learn!Execute(d) \/ Learn!Decide(d) \/ Learn!Recover(d) \/ Learn!Crash(d)
  PROVE  cycle'[c] = cycle[c] /\ runs'[c] = runs[c]
<1> USE DEF LearnInv, LearnShape
<1>1. ASSUME Learn!Execute(d) PROVE cycle'[c] = cycle[c] /\ runs'[c] = runs[c]
  BY <1>1 DEF Learn!Execute, Learn!ConfirmCreate, Learn!CommitCreate, Learn!Reserve, Learn!Train,
     Learn!Publish, Learn!FailRound, Learn!Abandon, Learn!ConsumeTest, Learn!EvaluateTest, Learn!Seal,
     Learn!FailFinalize
<1>2. ASSUME Learn!Decide(d) PROVE cycle'[c] = cycle[c] /\ runs'[c] = runs[c]
  BY <1>2 DEF Learn!Decide, Learn!StartCreate, Learn!StartRound, Learn!ReviewFeedback, Learn!Retain,
     Learn!SelectModel, Learn!LinkFeedback, Learn!Rollback, Learn!Cancel, Learn!StartFinalize
<1>3. ASSUME Learn!Recover(d) \/ Learn!Crash(d) PROVE cycle'[c] = cycle[c] /\ runs'[c] = runs[c]
  BY <1>3 DEF Learn!Recover, Learn!Crash
<1> QED BY <1>1, <1>2, <1>3

\* What a step may do to a closed cycle.
Kept(c) ==
  /\ cycle'[c].status \in Learn!Closed /\ Len(runs'[c]) = Len(runs[c])
  /\ cycle'[c].status = cycle[c].status \/ cycle[c].status = "FINALIZING"
  /\ cycle[c].status = "FINALIZING" /\ cycle'[c].status = "FINALIZED" =>
       \/ cycle'[c].accepted /\ cycle'[c].champion = cycle[c].champion
       \/ /\ ~cycle'[c].accepted
          /\ cycle'[c].champion < cycle[c].champion \/ cycle[c].champion = 0

LEMMA KeptWhenUnchanged ==
  ASSUME NEW c \in Cycles, cycle[c].status \in Learn!Closed, cycle'[c] = cycle[c], Len(runs'[c]) = Len(runs[c])
  PROVE  Kept(c)
BY DEF Kept

LEMMA ClosedIsKept ==
  ASSUME LearnInv, NEW c \in Cycles, cycle[c].status \in Learn!Closed,
         Learn!Execute(c) \/ Learn!Decide(c) \/ Learn!Recover(c) \/ Learn!Crash(c)
  PROVE  Kept(c)
<1>1. /\ cycle[c] \in CycleRows /\ runs[c] \in Seq(RunRows) /\ exec[c] \in Execs
      /\ ExecFits(cycle[c], runs[c], exec[c])
  BY CycleKnown DEF CycleFits
<1>2. cycle[c].status \notin {"ABSENT", "READY", "RUNNING", "AWAITING_REVIEW", "AWAITING_DATA"}
  BY DEF Learn!Closed
<1>3. CASE UNCHANGED <<cycle, runs>>
  BY <1>3, KeptWhenUnchanged
<1>4. ASSUME NEW n, NEW row, runs' = [runs EXCEPT ![c][n] = row], UNCHANGED cycle PROVE Kept(c)
  <2>1. runs'[c] = [runs[c] EXCEPT ![n] = row]
    BY <1>4 DEF LearnInv, LearnShape
  <2>2. Len(runs'[c]) = Len(runs[c])
    BY <1>1, <2>1
  <2> QED BY <1>4, <2>2, KeptWhenUnchanged
<1>5. ASSUME NEW b \in BOOLEAN, Learn!Seal(c, b) PROVE Kept(c)
  <2>1. PICK h : h = Learn!ChampionAfter(c, b)
    OBVIOUS
  <2>2. cycle[c].status = "FINALIZING" /\ UNCHANGED runs
        /\ cycle' = [cycle EXCEPT ![c].status = "FINALIZED", ![c].accepted = b, ![c].champion = h]
    BY <1>5, <2>1 DEF Learn!Seal
  <2>3. cycle'[c].status = "FINALIZED" /\ cycle'[c].accepted = b /\ cycle'[c].champion = h
    BY <1>1, <2>2 DEF LearnInv, LearnShape, CycleRows
  <2>4. (b => h = cycle[c].champion) /\ (~b => h < cycle[c].champion \/ cycle[c].champion = 0)
    BY <1>5, <2>1, ChampionFollows DEF Learn!Seal
  <2> QED BY <2>2, <2>3, <2>4 DEF Kept, Learn!Closed
<1>6. ASSUME Learn!FailFinalize(c) \/ Learn!Recover(c) PROVE Kept(c)
  <2>1. cycle[c].status = "FINALIZING"
    BY <1>2, <1>6, FinalTest DEF Learn!FailFinalize, Learn!Recover
  <2>2. cycle' = [cycle EXCEPT ![c].status = "STOPPED"] /\ UNCHANGED runs
    BY <1>6, <2>1 DEF Learn!FailFinalize, Learn!Recover, Learn!RecoveredStatus, LearnInv, LearnShape
  <2>3. cycle'[c].status = "STOPPED"
    BY <1>1, <2>2 DEF LearnInv, LearnShape, CycleRows
  <2> QED BY <2>1, <2>2, <2>3 DEF Kept, Learn!Closed
<1>7. ASSUME Learn!Execute(c) PROVE Kept(c)
  <2>1. \/ Learn!ConfirmCreate(c) \/ Learn!Train(c) \/ Learn!Abandon(c) \/ Learn!EvaluateTest(c)
        \/ \E b \in BOOLEAN : Learn!Seal(c, b)
        \/ Learn!FailFinalize(c)
    <3>1. ~Learn!CommitCreate(c) /\ ~Learn!Reserve(c) /\ ~Learn!FailRound(c) /\ ~Learn!ConsumeTest(c)
      BY <1>1, <1>2 DEF ExecFits, Learn!CommitCreate, Learn!Reserve, Learn!Reservable, Learn!FailRound,
         Learn!ConsumeTest, Learn!MayConsume
    <3>2. \A b \in BOOLEAN, m \in 0 .. MaxErrors : ~Learn!Publish(c, b, m)
      BY <1>2 DEF Learn!Publish, Learn!MayPublish
    <3> QED BY <1>7, <3>1, <3>2 DEF Learn!Execute
  <2>2. Learn!ConfirmCreate(c) \/ Learn!Train(c) \/ Learn!Abandon(c) \/ Learn!EvaluateTest(c)
        => UNCHANGED <<cycle, runs>>
    BY DEF Learn!ConfirmCreate, Learn!Train, Learn!Abandon, Learn!EvaluateTest
  <2> QED BY <1>3, <1>5, <1>6, <2>1, <2>2
<1>8. ASSUME Learn!Decide(c) PROVE Kept(c)
  <2>1. CASE \E n \in 1 .. MaxRounds : Learn!Retain(c, n)
    <3>1. PICK n \in 1 .. MaxRounds : Learn!Retain(c, n)
      BY <2>1
    <3>2. \E row : runs' = [runs EXCEPT ![c][n] = row]
      BY <3>1 DEF Learn!Retain
    <3> QED BY <1>4, <3>1, <3>2 DEF Learn!Retain
  <2>2. CASE \E n \in 1 .. MaxRounds, i \in Inputs, t \in BOOLEAN : Learn!LinkFeedback(c, n, i, t)
    <3>1. PICK n \in 1 .. MaxRounds, i \in Inputs, t \in BOOLEAN : Learn!LinkFeedback(c, n, i, t)
      BY <2>2
    <3>2. \E row : runs' = [runs EXCEPT ![c][n] = row]
      BY <3>1 DEF Learn!LinkFeedback
    <3> QED BY <1>4, <3>1, <3>2 DEF Learn!LinkFeedback
  <2>3. CASE \E i \in Inputs : Learn!StartCreate(c, i) \/ \E r \in BOOLEAN : Learn!StartRound(c, i, r)
    BY <1>3, <2>3 DEF Learn!StartCreate, Learn!StartRound
  <2>4. CASE Learn!StartFinalize(c)
    BY <1>3, <2>4 DEF Learn!StartFinalize
  <2>5. /\ \A p \in BOOLEAN : ~Learn!ReviewFeedback(c, p)
        /\ \A a \in Learn!Actions : ~Learn!SelectModel(c, a)
        /\ \A n \in 0 .. MaxRounds : ~Learn!Rollback(c, n)
        /\ ~Learn!Cancel(c)
    BY <1>2 DEF Learn!ReviewFeedback, Learn!SelectModel, Learn!Selectable, Learn!Rollback,
       Learn!MayRollback, Learn!Cancel
  <2> QED BY <1>8, <2>1, <2>2, <2>3, <2>4, <2>5 DEF Learn!Decide
<1>9. ASSUME Learn!Crash(c) PROVE Kept(c)
  BY <1>3, <1>9 DEF Learn!Crash
<1> QED BY <1>6, <1>7, <1>8, <1>9

LEMMA LearnKeeps == LearnInv /\ [Learn!Next]_(Learn!vars) => Learn!Replaces /\ Learn!KeepsClosed
<1> SUFFICES ASSUME LearnInv, [Learn!Next]_(Learn!vars) PROVE Learn!Replaces /\ Learn!KeepsClosed
  OBVIOUS
<1>1. ASSUME NEW c \in Cycles, cycle[c].status \in Learn!Closed PROVE Kept(c)
  <2>1. CASE UNCHANGED <<cycle, runs>>
    BY <1>1, <2>1, KeptWhenUnchanged
  <2>2. CASE \E d \in Cycles : Learn!Execute(d) \/ Learn!Decide(d) \/ Learn!Recover(d) \/ Learn!Crash(d)
    <3>1. PICK d \in Cycles : Learn!Execute(d) \/ Learn!Decide(d) \/ Learn!Recover(d) \/ Learn!Crash(d)
      BY <2>2
    <3>2. CASE d = c
      BY <1>1, <3>1, <3>2, ClosedIsKept
    <3>3. CASE d # c
      BY <1>1, <3>1, <3>3, OthersStay, KeptWhenUnchanged
    <3> QED BY <3>2, <3>3
  <2> QED BY <2>1, <2>2 DEF Learn!Next, Learn!vars, Learn!RevokeSource, Learn!GateChanges
<1>2. Learn!Replaces
  BY <1>1 DEF Kept, Learn!Replaces, Learn!Closed
<1>3. Learn!KeepsClosed
  BY <1>1, LastRun DEF Kept, Learn!KeepsClosed, Learn!Closed
<1> QED BY <1>2, <1>3

-----------------------------------------------------------------------------
(* What the parts that TLC runs, each within bounds of its own, are: runs of *)
(* NormalityPacks and of Learning, and over the slots one of the others.     *)

\* The parts that TLC runs are runs of NormalityPacks and of Learning.
THEOREM LearningRuns == AllSpec => Spec /\ Learn!Spec
<1>1. AllInit => Init /\ Learn!Init
  BY DEF AllInit
<1>2. [AllNext]_allVars => [Next]_vars /\ [Learn!Next]_(Learn!vars)
  BY DEF AllNext, allVars, learnVars, Learn!vars, PacksStep, FollowupStep, LearnStep,
     CardsStep, EnvelopesStep, AgentStep
<1> QED BY <1>1, <1>2, PTL DEF AllSpec, Spec, Learn!Spec

\* The learning service, for any cycles, inputs, splits that share no sample,
\* and limits: over all cycles of a project and whatever is cut off, failed and
\* recovered, a sample is used in one final test (_protect_holdouts), the rounds
\* of a cycle are evaluated on the same splits and trained on neither
\* (FROZEN_EVALUATION_CHANGED), an approved model was earned from an approved
\* one (select_model), the champion is what a round under way started from
\* (CANDIDATE_BASELINE_CHANGED), and work left behind names its owner
\* (_require_execution_owner).
THEOREM LearningFair == Learn!Spec => []LearningIsFair
BY LearnInit, LearnNext, LearnPromises, PTL DEF Learn!Spec

\* A finalist that the final test refuses gives way to an earlier model, and a
\* closed cycle stays closed (finalize, CYCLE_CLOSED).
THEOREM LearningDecides == Learn!Spec => Learn!RefusedIsReplaced /\ Learn!ClosedStaysClosed
<1>1. Learn!Spec => []LearnInv
  BY LearnInit, LearnNext, PTL DEF Learn!Spec
<1> QED BY <1>1, LearnKeeps, PTL DEF Learn!Spec, Learn!RefusedIsReplaced, Learn!ClosedStaysClosed

-----------------------------------------------------------------------------
(* NormalityFollowup: over the slots, x1 .. x6 are intent, done, torn,      *)
(* record, call and reply                                                   *)

Storing == {"enter", "write", "verify", "finish"}
CallRows == [pc : {"idle", "observe", "check", "intent"} \cup Storing,
             recover : BOOLEAN, started : BOOLEAN]

\* Files are only there under an intent.  A call that has looked at the intent
\* knows whether there is one, because only the call itself makes it; what has
\* been verified can not be torn any more, because no file is left to write.
OperationFits(k, intent, done, torn, recorded, call) ==
  /\ done <= Followup!Pieces(k)
  /\ ~intent => done = 0 /\ ~torn /\ ~recorded
  /\ recorded => done = Followup!Pieces(k) /\ ~torn
  /\ call.pc = "idle" => call = Followup!Idle
  /\ call.pc \notin {"idle", "observe"} => call.started = intent
  /\ call.pc \in Storing => intent
  /\ call.pc = "finish" => done = Followup!Pieces(k) /\ ~torn

FollowTypes ==
  /\ x1 \in [Followup!Ops -> BOOLEAN] /\ x3 \in [Followup!Ops -> BOOLEAN] /\ x4 \in [Followup!Ops -> BOOLEAN]
  /\ x2 \in [Followup!Ops -> Nat]
  /\ x5 \in [Followup!Ops -> CallRows]
  /\ x6 \in [Followup!Ops -> {"none", "ok", "hold", "unknown"}]

FollowInv ==
  /\ FollowTypes
  /\ \A k \in Followup!Ops : OperationFits(k, x1[k], x2[k], x3[k], x4[k], x5[k])

LEMMA FollowInit == Followup!Init => FollowInv
<1> SUFFICES ASSUME Followup!Init PROVE FollowInv
  OBVIOUS
<1>1. Followup!Idle \in CallRows /\ Followup!Idle.pc = "idle"
  BY DEF Followup!Idle, CallRows
<1>2. FollowTypes
  BY <1>1 DEF Followup!Init, FollowTypes
<1>3. ASSUME NEW k \in Followup!Ops PROVE OperationFits(k, FALSE, 0, FALSE, FALSE, Followup!Idle)
  BY <1>1 DEF OperationFits, Followup!Pieces, Storing
<1> QED BY <1>2, <1>3 DEF Followup!Init, FollowInv

\* A step of one operation leaves the other as it is.
FollowMoves(k) ==
  /\ FollowTypes'
  /\ \A j \in Followup!Ops \ {k} :
       x1'[j] = x1[j] /\ x2'[j] = x2[j] /\ x3'[j] = x3[j] /\ x4'[j] = x4[j] /\ x5'[j] = x5[j]
  /\ OperationFits(k, x1'[k], x2'[k], x3'[k], x4'[k], x5'[k])

LEMMA FollowMoved ==
  ASSUME FollowInv, NEW k \in Followup!Ops, FollowMoves(k)
  PROVE  FollowInv'
<1>1. FollowTypes'
  BY DEF FollowMoves
<1>2. ASSUME NEW j \in Followup!Ops PROVE OperationFits(j, x1'[j], x2'[j], x3'[j], x4'[j], x5'[j])
  BY DEF FollowInv, FollowMoves
<1> QED BY <1>1, <1>2 DEF FollowInv

LEMMA Answering ==
  ASSUME FollowInv, NEW k \in Followup!Ops
  PROVE  /\ x5[k] \in CallRows /\ x1[k] \in BOOLEAN /\ x2[k] \in Nat /\ x3[k] \in BOOLEAN /\ x4[k] \in BOOLEAN
         /\ OperationFits(k, x1[k], x2[k], x3[k], x4[k], x5[k])
         /\ Followup!Idle \in CallRows
         /\ Followup!Pieces(k) \in Nat /\ Followup!Pieces(k) > 0
BY DEF FollowInv, FollowTypes, Followup!Idle, CallRows, Followup!Pieces

\* What an answer makes of the call, and the other steps of a call.
LEMMA CallMoves ==
  ASSUME FollowInv, NEW k \in Followup!Ops, NEW c \in CallRows, x5' = [x5 EXCEPT ![k] = c]
  PROVE  x5' \in [Followup!Ops -> CallRows] /\ x5'[k] = c /\ \A j \in Followup!Ops \ {k} : x5'[j] = x5[j]
BY DEF FollowInv, FollowTypes

LEMMA FollowAnswers ==
  ASSUME FollowInv, NEW k \in Followup!Ops, Followup!Fail(k) \/ Followup!Answer(k)
  PROVE  /\ x5' = [x5 EXCEPT ![k] = Followup!Idle]
         /\ x6' \in [Followup!Ops -> {"none", "ok", "hold", "unknown"}]
BY Answering DEF FollowInv, FollowTypes, Followup!Fail, Followup!Answer

LEMMA FollowGoes ==
  ASSUME FollowInv, NEW k \in Followup!Ops, NEW pc \in {"check", "intent"} \cup Storing, Followup!GoTo(k, pc)
  PROVE  /\ x5' = [x5 EXCEPT ![k] = [x5[k] EXCEPT !.pc = pc]] /\ x6' = x6
         /\ [x5[k] EXCEPT !.pc = pc] \in CallRows
BY Answering DEF FollowInv, FollowTypes, Followup!GoTo, CallRows

LEMMA PostKeeps ==
  ASSUME FollowInv, NEW k \in Followup!Ops, Followup!Post(k) \/ Followup!Get(k) \/ Followup!Observe(k)
  PROVE  FollowMoves(k)
<1>1. PICK c \in CallRows : /\ x5' = [x5 EXCEPT ![k] = c] /\ UNCHANGED <<x1, x2, x3, x4, x6>>
                            /\ \/ c.pc = "observe"
                               \/ c.pc = "check" /\ c.started = x1[k]
  <2>1. CASE Followup!Post(k)
    <3>1. [x5[k] EXCEPT !.pc = "observe"] \in CallRows
      BY Answering DEF CallRows
    <3>2. [x5[k] EXCEPT !.pc = "observe"].pc = "observe"
      BY Answering DEF CallRows
    <3>3. x5' = [x5 EXCEPT ![k] = [x5[k] EXCEPT !.pc = "observe"]] /\ UNCHANGED <<x1, x2, x3, x4, x6>>
      BY <2>1 DEF Followup!Post
    <3> QED BY <3>1, <3>2, <3>3
  <2>2. CASE Followup!Get(k)
    <3>1. [pc |-> "observe", recover |-> TRUE, started |-> FALSE] \in CallRows
      BY DEF CallRows
    <3>2. x5' = [x5 EXCEPT ![k] = [pc |-> "observe", recover |-> TRUE, started |-> FALSE]]
          /\ UNCHANGED <<x1, x2, x3, x4, x6>>
      BY <2>2 DEF Followup!Get
    <3> QED BY <3>1, <3>2
  <2>3. CASE Followup!Observe(k)
    <3>1. [x5[k] EXCEPT !.pc = "check", !.started = x1[k]] \in CallRows
      BY Answering DEF CallRows
    <3>2. [x5[k] EXCEPT !.pc = "check", !.started = x1[k]].pc = "check"
          /\ [x5[k] EXCEPT !.pc = "check", !.started = x1[k]].started = x1[k]
      BY Answering DEF CallRows
    <3>3. x5' = [x5 EXCEPT ![k] = [x5[k] EXCEPT !.pc = "check", !.started = x1[k]]]
          /\ UNCHANGED <<x1, x2, x3, x4, x6>>
      BY <2>3 DEF Followup!Observe
    <3> QED BY <3>1, <3>2, <3>3
  <2> QED BY <2>1, <2>2, <2>3
<1>2. x5'[k] = c /\ x5' \in [Followup!Ops -> CallRows] /\ \A j \in Followup!Ops \ {k} : x5'[j] = x5[j]
  BY <1>1, CallMoves
<1>3. OperationFits(k, x1[k], x2[k], x3[k], x4[k], c)
  BY <1>1, Answering DEF OperationFits, Storing
<1> QED BY <1>1, <1>2, <1>3 DEF FollowMoves, FollowInv, FollowTypes

\* Steps that only move the call, forward or back to idle.
LEMMA StepKeeps ==
  ASSUME FollowInv, NEW k \in Followup!Ops, UNCHANGED <<x1, x2, x3, x4>>,
         \/ Followup!Fail(k) \/ Followup!Answer(k)
         \/ \E pc \in {"intent"} \cup Storing :
              /\ Followup!GoTo(k, pc) /\ x5[k].pc \notin {"idle", "observe"}
              /\ pc \in Storing => x1[k]
              /\ pc = "finish" => x2[k] = Followup!Pieces(k) /\ ~x3[k]
  PROVE  FollowMoves(k)
<1>1. CASE Followup!Fail(k) \/ Followup!Answer(k)
  <2>1. x5'[k] = Followup!Idle /\ x5' \in [Followup!Ops -> CallRows]
        /\ \A j \in Followup!Ops \ {k} : x5'[j] = x5[j]
    BY <1>1, FollowAnswers, CallMoves, Answering
  <2>2. OperationFits(k, x1[k], x2[k], x3[k], x4[k], Followup!Idle)
    BY Answering DEF OperationFits, Followup!Idle, Storing
  <2> QED BY <1>1, <2>1, <2>2, FollowAnswers DEF FollowMoves, FollowInv, FollowTypes
<1>2. ASSUME NEW pc \in {"intent"} \cup Storing, Followup!GoTo(k, pc), x5[k].pc \notin {"idle", "observe"},
             pc \in Storing => x1[k], pc = "finish" => x2[k] = Followup!Pieces(k) /\ ~x3[k]
      PROVE  FollowMoves(k)
  <2>1. PICK c \in CallRows : c = [x5[k] EXCEPT !.pc = pc]
    BY <1>2, FollowGoes
  <2>2. x5' = [x5 EXCEPT ![k] = c] /\ x6' = x6
    BY <1>2, <2>1, FollowGoes
  <2>3. x5'[k] = c /\ x5' \in [Followup!Ops -> CallRows] /\ \A j \in Followup!Ops \ {k} : x5'[j] = x5[j]
    BY <2>2, CallMoves
  <2>4. c.pc = pc /\ c.started = x5[k].started
    BY <2>1, Answering DEF CallRows
  <2>5. OperationFits(k, x1[k], x2[k], x3[k], x4[k], c)
    BY <1>2, <2>4, Answering DEF OperationFits, Storing
  <2> QED BY <2>2, <2>3, <2>5 DEF FollowMoves, FollowInv, FollowTypes
<1> QED BY <1>1, <1>2

LEMMA CheckKeeps ==
  ASSUME FollowInv, NEW k \in Followup!Ops, Followup!Check(k) \/ Followup!Enter(k) \/ Followup!Verify(k)
  PROVE  FollowMoves(k)
<1>1. UNCHANGED <<x1, x2, x3, x4>>
  BY DEF Followup!Check, Followup!Enter, Followup!Verify
<1>2. CASE Followup!Check(k)
  <2>1. Followup!Fail(k) \/ Followup!Answer(k) \/ Followup!GoTo(k, "intent")
    BY <1>2 DEF Followup!Check
  <2> QED BY <1>1, <1>2, <2>1, StepKeeps DEF Followup!Check, Storing
<1>3. CASE Followup!Enter(k)
  <2>1. (Followup!Fail(k) \/ Followup!GoTo(k, "write")) /\ x5[k].pc = "enter" /\ x1[k]
    BY <1>3, Answering DEF Followup!Enter, OperationFits, Storing
  <2> QED BY <1>1, <2>1, StepKeeps DEF Storing
<1>4. CASE Followup!Verify(k)
  <2>1. (Followup!Fail(k) \/ (Followup!GoTo(k, "finish") /\ x2[k] = Followup!Pieces(k) /\ ~x3[k]))
        /\ x5[k].pc = "verify" /\ x1[k]
    BY <1>4, Answering DEF Followup!Verify, Followup!StoredWhole, Followup!Live, OperationFits, Storing
  <2> QED BY <1>1, <2>1, StepKeeps DEF Storing
<1> QED BY <1>2, <1>3, <1>4

LEMMA IntendKeeps ==
  ASSUME FollowInv, NEW k \in Followup!Ops, Followup!Intend(k)
  PROVE  FollowMoves(k)
<1>1. PICK c : c = [x5[k] EXCEPT !.started = TRUE, !.pc = IF x5[k].recover THEN "verify" ELSE "enter"]
  OBVIOUS
<1>2. x5' = [x5 EXCEPT ![k] = c] /\ x1' = [x1 EXCEPT ![k] = TRUE] /\ UNCHANGED <<x2, x3, x4, x6>>
  BY <1>1 DEF Followup!Intend
<1>3. c \in CallRows /\ c.started = TRUE /\ c.pc \in {"verify", "enter"}
  BY <1>1, Answering DEF CallRows, Storing
<1>4. x5'[k] = c /\ x5' \in [Followup!Ops -> CallRows] /\ \A j \in Followup!Ops \ {k} : x5'[j] = x5[j]
  BY <1>2, <1>3, CallMoves
<1>5. x1'[k] = TRUE /\ x1' \in [Followup!Ops -> BOOLEAN] /\ \A j \in Followup!Ops \ {k} : x1'[j] = x1[j]
  BY <1>2 DEF FollowInv, FollowTypes
<1>6. OperationFits(k, TRUE, x2[k], x3[k], x4[k], c)
  BY <1>3, Answering DEF OperationFits, Storing
<1> QED BY <1>2, <1>4, <1>5, <1>6 DEF FollowMoves, FollowInv, FollowTypes

LEMMA WriteKeeps ==
  ASSUME FollowInv, NEW k \in Followup!Ops, Followup!Write(k)
  PROVE  FollowMoves(k)
<1>1. x5[k].pc = "write" /\ x1[k] /\ UNCHANGED <<x1, x3, x4>>
  BY Answering DEF Followup!Write, OperationFits, Storing
<1>2. CASE x2' = x2
  <2>1. Followup!Fail(k) \/ Followup!GoTo(k, "verify")
    BY <1>2, Answering DEF Followup!Write, FollowInv, FollowTypes
  <2> QED BY <1>1, <1>2, <2>1, StepKeeps DEF Storing
<1>3. CASE x2[k] # Followup!Pieces(k) /\ x2' = [x2 EXCEPT ![k] = x2[k] + 1] /\ UNCHANGED <<x5, x6>>
  <2>1. x2'[k] = x2[k] + 1 /\ x2' \in [Followup!Ops -> Nat] /\ \A j \in Followup!Ops \ {k} : x2'[j] = x2[j]
    BY <1>3 DEF FollowInv, FollowTypes
  <2>2. OperationFits(k, x1[k], x2[k] + 1, x3[k], x4[k], x5[k])
    <3>1. x2[k] + 1 <= Followup!Pieces(k)
      BY <1>3, Answering DEF OperationFits
    <3>2. ~x4[k]
      BY <1>3, Answering DEF OperationFits
    <3> QED BY <1>1, <3>1, <3>2, Answering DEF OperationFits
  <2> QED BY <1>1, <1>3, <2>1, <2>2 DEF FollowMoves, FollowInv, FollowTypes
<1> QED BY <1>2, <1>3 DEF Followup!Write

\* Whatever a stop leaves of a file is left by a call that was still writing.
LEMMA StopKeeps ==
  ASSUME FollowInv, NEW k \in Followup!Ops, Followup!WriteError(k) \/ Followup!Crash(k)
  PROVE  FollowMoves(k)
<1>1. PICK t \in BOOLEAN : /\ x3' = [x3 EXCEPT ![k] = t]
                           /\ t => x3[k] \/ (x2[k] < Followup!Pieces(k) /\ x5[k].pc = "write")
  <2>1. CASE Followup!WriteError(k)
    <3>1. PICK u \in {FALSE, TornWrites} : x3' = [x3 EXCEPT ![k] = u]
      BY <2>1 DEF Followup!WriteError
    <3> QED BY <2>1, <3>1, BoundsAssumption DEF Followup!WriteError
  <2>2. CASE Followup!Crash(k)
    <3>1. PICK u \in {x3[k], x3[k] \/ (TornWrites /\ x5[k].pc = "write" /\ x2[k] < Followup!Pieces(k))} :
            x3' = [x3 EXCEPT ![k] = u]
      BY <2>2 DEF Followup!Crash
    <3> QED BY <3>1, Answering, BoundsAssumption
  <2> QED BY <2>1, <2>2
<1>2. x5' = [x5 EXCEPT ![k] = Followup!Idle] /\ x6' \in [Followup!Ops -> {"none", "ok", "hold", "unknown"}]
      /\ UNCHANGED <<x1, x2, x4>>
  <2>1. CASE Followup!WriteError(k)
    BY <2>1, FollowAnswers DEF Followup!WriteError
  <2>2. CASE Followup!Crash(k)
    BY <2>2 DEF Followup!Crash, FollowInv, FollowTypes
  <2> QED BY <2>1, <2>2
<1>3. x5'[k] = Followup!Idle /\ x5' \in [Followup!Ops -> CallRows] /\ \A j \in Followup!Ops \ {k} : x5'[j] = x5[j]
  BY <1>2, CallMoves, Answering
<1>4. x3'[k] = t /\ x3' \in [Followup!Ops -> BOOLEAN] /\ \A j \in Followup!Ops \ {k} : x3'[j] = x3[j]
  BY <1>1 DEF FollowInv, FollowTypes
<1>5. OperationFits(k, x1[k], x2[k], t, x4[k], Followup!Idle)
  BY <1>1, Answering DEF OperationFits, Followup!Idle, Storing
<1> QED BY <1>2, <1>3, <1>4, <1>5 DEF FollowMoves, FollowInv, FollowTypes

LEMMA FinishKeeps ==
  ASSUME FollowInv, NEW k \in Followup!Ops, Followup!Finish(k)
  PROVE  FollowMoves(k)
<1>1. x4' = [x4 EXCEPT ![k] = TRUE] /\ UNCHANGED <<x1, x2, x3>> /\ x5[k].pc = "finish" /\ Followup!Answer(k)
  BY DEF Followup!Finish
<1>2. x5'[k] = Followup!Idle /\ x5' \in [Followup!Ops -> CallRows] /\ \A j \in Followup!Ops \ {k} : x5'[j] = x5[j]
  BY <1>1, FollowAnswers, CallMoves, Answering
<1>3. x4'[k] = TRUE /\ x4' \in [Followup!Ops -> BOOLEAN] /\ \A j \in Followup!Ops \ {k} : x4'[j] = x4[j]
  BY <1>1 DEF FollowInv, FollowTypes
<1>4. OperationFits(k, x1[k], x2[k], x3[k], TRUE, Followup!Idle)
  BY <1>1, Answering DEF OperationFits, Followup!Idle, Storing
<1> QED BY <1>1, <1>2, <1>3, <1>4, FollowAnswers DEF FollowMoves, FollowInv, FollowTypes

LEMMA FollowStays == FollowInv /\ UNCHANGED <<x1, x2, x3, x4, x5, x6>> => FollowInv'
BY DEF FollowInv, FollowTypes

LEMMA FollowNext == FollowInv /\ [Followup!Next]_(Followup!vars) => FollowInv'
<1> SUFFICES ASSUME FollowInv, [Followup!Next]_(Followup!vars) PROVE FollowInv'
  OBVIOUS
<1>1. ASSUME NEW k \in Followup!Ops,
             Followup!Post(k) \/ Followup!Get(k) \/ Followup!Step(k) \/ Followup!WriteError(k) \/ Followup!Crash(k)
      PROVE  FollowInv'
  BY <1>1, PostKeeps, CheckKeeps, IntendKeeps, WriteKeeps, StopKeeps, FinishKeeps, FollowMoved DEF Followup!Step
<1>2. CASE Followup!SaveNotes \/ Followup!Touch \/ Followup!Drift \/ UNCHANGED Followup!vars
  BY <1>2, FollowStays DEF Followup!SaveNotes, Followup!Touch, Followup!Drift, Followup!vars
<1> QED BY <1>1, <1>2 DEF Followup!Next

LEMMA FollowPromise == FollowInv => Followup!RecordedIsStored
BY DEF FollowInv, FollowTypes, OperationFits, Followup!RecordedIsStored

\* A POST that is refused had seen that there was no intent.
LEMMA FollowRefuses == FollowInv /\ [Followup!Next]_(Followup!vars) => Followup!RefusesUnwritten
<1> SUFFICES ASSUME FollowInv, [Followup!Next]_(Followup!vars), NEW k \in Followup!Ops,
                    x5[k] # Followup!Idle, ~x5[k].recover, x5'[k] = Followup!Idle, x6'[k] = "hold"
             PROVE  ~x1'[k] /\ x2'[k] = 0 /\ ~x3'[k]
  BY DEF Followup!RefusesUnwritten
<1>1. FollowInv' /\ OperationFits(k, x1'[k], x2'[k], x3'[k], x4'[k], x5'[k])
  BY FollowNext DEF FollowInv
<1>2. ASSUME Followup!Fail(k), x1'[k] = x1[k], x5[k].pc \notin {"idle", "observe"} PROVE ~x1'[k]
  BY <1>2, Answering DEF Followup!Fail, OperationFits, FollowInv, FollowTypes, CallRows
<1>3. ASSUME NEW j \in Followup!Ops, j # k,
             Followup!Post(j) \/ Followup!Get(j) \/ Followup!Step(j) \/ Followup!WriteError(j) \/ Followup!Crash(j)
      PROVE  x5'[k] = x5[k]
  BY <1>3, PostKeeps, CheckKeeps, IntendKeeps, WriteKeeps, StopKeeps, FinishKeeps DEF Followup!Step, FollowMoves
<1>4. CASE Followup!Check(k) \/ Followup!Enter(k) \/ Followup!Write(k) \/ Followup!WriteError(k) \/ Followup!Verify(k)
  <2>1. Followup!Fail(k) /\ x1'[k] = x1[k] /\ x5[k].pc \notin {"idle", "observe"}
    BY <1>4, Answering DEF Followup!Check, Followup!Enter, Followup!Write, Followup!WriteError, Followup!Verify,
       Followup!Answer, Followup!GoTo, Followup!Idle, FollowInv, FollowTypes, CallRows
  <2> QED BY <1>1, <1>2, <2>1 DEF OperationFits
<1>5. CASE Followup!Post(k) \/ Followup!Get(k) \/ Followup!Observe(k) \/ Followup!Intend(k)
  <2>1. PICK c : x5' = [x5 EXCEPT ![k] = c] /\ c.pc # "idle"
    <3>1. x5[k] \in CallRows /\ x5 \in [Followup!Ops -> CallRows]
      BY Answering DEF FollowInv, FollowTypes
    <3>2. CASE Followup!Post(k)
      <4>1. [x5[k] EXCEPT !.pc = "observe"].pc # "idle"
        BY <3>1 DEF CallRows
      <4> QED BY <3>2, <4>1 DEF Followup!Post
    <3>3. CASE Followup!Get(k)
      BY <3>3 DEF Followup!Get
    <3>4. CASE Followup!Observe(k)
      <4>1. [x5[k] EXCEPT !.pc = "check", !.started = x1[k]].pc # "idle"
        BY <3>1 DEF CallRows
      <4> QED BY <3>4, <4>1 DEF Followup!Observe
    <3>5. CASE Followup!Intend(k)
      <4>1. PICK c : c = [x5[k] EXCEPT !.started = TRUE, !.pc = IF x5[k].recover THEN "verify" ELSE "enter"]
        OBVIOUS
      <4>2. c.pc # "idle" /\ x5' = [x5 EXCEPT ![k] = c]
        BY <3>1, <3>5, <4>1 DEF CallRows, Followup!Intend
      <4> QED BY <4>2
    <3> QED BY <1>5, <3>2, <3>3, <3>4, <3>5
  <2>2. x5'[k].pc # "idle"
    BY <2>1 DEF FollowInv, FollowTypes
  <2> QED BY <2>2 DEF Followup!Idle
<1>6. CASE Followup!Finish(k) \/ Followup!Crash(k)
  BY <1>6, Answering DEF Followup!Finish, Followup!Answer, Followup!Crash, FollowInv, FollowTypes
<1>7. CASE Followup!SaveNotes \/ Followup!Touch \/ Followup!Drift \/ UNCHANGED Followup!vars
  BY <1>7 DEF Followup!SaveNotes, Followup!Touch, Followup!Drift, Followup!vars
<1> QED BY <1>3, <1>4, <1>5, <1>6, <1>7 DEF Followup!Next, Followup!Step

-----------------------------------------------------------------------------
(* ApprovedExperience: x1 .. x3 are records, store and result.  The store of *)
(* envelopes refuses more lines than the store of plain cards, and so what   *)
(* holds of the latter holds of both.                                        *)

Path == <<"CANDIDATE", "REPLAY_TESTED", "HUMAN_APPROVED", "SHADOW", "PROMOTED">>
Stages == {"CANDIDATE", "REPLAY_TESTED", "HUMAN_APPROVED", "SHADOW", "PROMOTED", "REJECTED", "ROLLED_BACK"}
Events == [to : Stages, at : Times]
Experiences == [events : Seq(Events), replay : {"none", "PASS", "FAIL"}, approval : {"none", "APPROVE", "REJECT"},
                shadow : {"none", "PASS", "FAIL"}, memory : Times \cup {0}, revoked : Times \cup {0}]

\* The events of a record follow the path of a candidate up to the last one,
\* which may leave it, and their times do not go back.
OnPath(e) ==
  /\ Len(e) \in 1 .. 6
  /\ \A k \in 1 .. 5 : k < Len(e) => e[k].to = Path[k]
  /\ e[Len(e)].to \in {"REJECTED", "ROLLED_BACK"} \/ (Len(e) <= 5 /\ e[Len(e)].to = Path[Len(e)])
  /\ \A m, k \in 1 .. Len(e) : m <= k => e[m].at <= e[k].at

\* A memory is written with the promotion, at its time, and with all receipts.
ExperienceFits(r) ==
  /\ r \in Experiences /\ OnPath(r.events)
  /\ r.memory # 0 => Len(r.events) >= 5 /\ r.events[5].to = "PROMOTED" /\ r.memory = r.events[5].at
  /\ Cards!State(r) = "PROMOTED" =>
       r.replay = "PASS" /\ r.approval = "APPROVE" /\ r.shadow = "PASS" /\ r.memory # 0

\* A line is the card of a record with a memory; what was retrieved is fresh.
ExperienceInv ==
  /\ \A r \in x1 : ExperienceFits(r)
  /\ x2 \in Seq([card : {Cards!Card(r) : r \in Experiences}, record : Experiences])
  /\ \A n \in DOMAIN x2 : /\ ExperienceFits(x2[n].record) /\ x2[n].record.memory # 0
                          /\ x2[n].card = Cards!Card(x2[n].record)
  /\ x3.at \in Times \cup {0}
  /\ \A n \in x3.cards : n \in DOMAIN x2 /\ Cards!Fresh(x2[n].card, x3.at)

LEMMA PathIs ==
  /\ Path[1] = "CANDIDATE" /\ Path[2] = "REPLAY_TESTED" /\ Path[3] = "HUMAN_APPROVED"
  /\ Path[4] = "SHADOW" /\ Path[5] = "PROMOTED"
BY DEF Path

LEMMA TimesAre ==
  /\ \A t \in Times : t \in Nat /\ t # 0
  /\ \A e \in Events : e.at \in Nat /\ e.at \in Times
<1>1. \A t \in Times : t \in Nat /\ t # 0
  BY BoundsAssumption
<1> QED BY <1>1 DEF Events

\* Where a record is, by its last event.
LEMMA StageIs ==
  ASSUME NEW r, ExperienceFits(r)
  PROVE  /\ r.events \in Seq(Events) /\ Len(r.events) \in 1 .. 6
         /\ Cards!State(r) = r.events[Len(r.events)].to
         /\ Cards!State(r) = "CANDIDATE" => Len(r.events) = 1
         /\ Cards!State(r) = "REPLAY_TESTED" => Len(r.events) = 2
         /\ Cards!State(r) = "HUMAN_APPROVED" => Len(r.events) = 3
         /\ Cards!State(r) = "SHADOW" => Len(r.events) = 4
         /\ Cards!State(r) = "PROMOTED" => Len(r.events) = 5
<1>1. r.events \in Seq(Events) /\ Len(r.events) \in 1 .. 6 /\ Cards!State(r) = r.events[Len(r.events)].to
  BY DEF ExperienceFits, Experiences, OnPath, Cards!State, Cards!Last
<1>2. Len(r.events) \in {1, 2, 3, 4, 5, 6}
  BY <1>1
<1>3. Cards!State(r) \in {"REJECTED", "ROLLED_BACK"}
        \/ (Len(r.events) <= 5 /\ Cards!State(r) = Path[Len(r.events)])
  BY <1>1 DEF ExperienceFits, OnPath
<1>4. ASSUME Len(r.events) <= 5, NEW s, Cards!State(r) = s, s = Path[Len(r.events)]
      PROVE  \/ s = "CANDIDATE" /\ Len(r.events) = 1
             \/ s = "REPLAY_TESTED" /\ Len(r.events) = 2
             \/ s = "HUMAN_APPROVED" /\ Len(r.events) = 3
             \/ s = "SHADOW" /\ Len(r.events) = 4
             \/ s = "PROMOTED" /\ Len(r.events) = 5
  <2>1. CASE Len(r.events) = 1
    BY <1>4, <2>1, PathIs
  <2>2. CASE Len(r.events) = 2
    BY <1>4, <2>2, PathIs
  <2>3. CASE Len(r.events) = 3
    BY <1>4, <2>3, PathIs
  <2>4. CASE Len(r.events) = 4
    BY <1>4, <2>4, PathIs
  <2>5. CASE Len(r.events) = 5
    BY <1>4, <2>5, PathIs
  <2>6. Len(r.events) # 6
    BY <1>4
  <2> QED BY <1>2, <2>1, <2>2, <2>3, <2>4, <2>5, <2>6
<1> QED BY <1>1, <1>3, <1>4

\* The steps of the operations along Allowed.
MayFollow(r, to) ==
  \/ Cards!State(r) = "CANDIDATE" /\ to \in {"REPLAY_TESTED", "REJECTED"}
  \/ Cards!State(r) = "REPLAY_TESTED" /\ to \in {"HUMAN_APPROVED", "REJECTED"}
  \/ Cards!State(r) = "HUMAN_APPROVED" /\ to \in {"SHADOW", "REJECTED"}
  \/ Cards!State(r) = "SHADOW" /\ to \in {"PROMOTED", "ROLLED_BACK"}
  \/ Cards!State(r) = "PROMOTED" /\ to = "ROLLED_BACK"

LEMMA FollowsPath ==
  ASSUME NEW r, ExperienceFits(r), NEW to, MayFollow(r, to)
  PROVE  /\ Len(r.events) \in 1 .. 5 /\ r.events[Len(r.events)].to = Path[Len(r.events)]
         /\ to \in Stages
         /\ \/ to \in {"REJECTED", "ROLLED_BACK"}
            \/ Len(r.events) <= 4 /\ to = Path[Len(r.events) + 1]
<1>1. PICK n : n = Len(r.events)
  OBVIOUS
<1>2. r.events[n].to = Cards!State(r)
  BY <1>1, StageIs
<1>3. CASE Cards!State(r) = "CANDIDATE"
  <2>1. n = 1
    BY <1>1, <1>3, StageIs
  <2>2. n + 1 = 2 /\ n \in 1 .. 5
    BY <2>1
  <2> QED BY <1>1, <1>2, <1>3, <2>1, <2>2, PathIs DEF MayFollow, Stages
<1>4. CASE Cards!State(r) = "REPLAY_TESTED"
  <2>1. n = 2
    BY <1>1, <1>4, StageIs
  <2>2. n + 1 = 3 /\ n \in 1 .. 5
    BY <2>1
  <2> QED BY <1>1, <1>2, <1>4, <2>1, <2>2, PathIs DEF MayFollow, Stages
<1>5. CASE Cards!State(r) = "HUMAN_APPROVED"
  <2>1. n = 3
    BY <1>1, <1>5, StageIs
  <2>2. n + 1 = 4 /\ n \in 1 .. 5
    BY <2>1
  <2> QED BY <1>1, <1>2, <1>5, <2>1, <2>2, PathIs DEF MayFollow, Stages
<1>6. CASE Cards!State(r) = "SHADOW"
  <2>1. n = 4
    BY <1>1, <1>6, StageIs
  <2>2. n + 1 = 5 /\ n \in 1 .. 5
    BY <2>1
  <2> QED BY <1>1, <1>2, <1>6, <2>1, <2>2, PathIs DEF MayFollow, Stages
<1>7. CASE Cards!State(r) = "PROMOTED"
  <2>1. n = 5
    BY <1>1, <1>7, StageIs
  <2>2. n + 1 = 6 /\ n \in 1 .. 5
    BY <2>1
  <2> QED BY <1>1, <1>2, <1>7, <2>1, <2>2, PathIs DEF MayFollow, Stages
<1> QED BY <1>3, <1>4, <1>5, <1>6, <1>7 DEF MayFollow

\* q is r with one more event.
Extends(q, r, to, t) ==
  /\ q \in Experiences
  /\ q.events = Append(r.events, [to |-> to, at |-> t])

LEMMA ExtendIs ==
  ASSUME NEW r, ExperienceFits(r), NEW to \in Stages, NEW t \in Times
  PROVE  /\ Cards!Extend(r, to, t) \in Experiences
         /\ Cards!Extend(r, to, t).events = Append(r.events, [to |-> to, at |-> t])
         /\ Cards!Extend(r, to, t).replay = r.replay /\ Cards!Extend(r, to, t).approval = r.approval
         /\ Cards!Extend(r, to, t).shadow = r.shadow /\ Cards!Extend(r, to, t).memory = r.memory
<1>1. r \in Experiences
  BY DEF ExperienceFits
<1>2. [to |-> to, at |-> t] \in Events
  BY DEF Events
<1>3. Append(r.events, [to |-> to, at |-> t]) \in Seq(Events)
  BY <1>1, <1>2 DEF Experiences
<1>4. PICK e \in Seq(Events) : e = Append(r.events, [to |-> to, at |-> t])
  BY <1>3
<1>5. Cards!Extend(r, to, t) = [r EXCEPT !.events = e]
  BY <1>4 DEF Cards!Extend
<1>6. [r EXCEPT !.events = e] \in Experiences /\ [r EXCEPT !.events = e].events = e
      /\ [r EXCEPT !.events = e].replay = r.replay /\ [r EXCEPT !.events = e].approval = r.approval
      /\ [r EXCEPT !.events = e].shadow = r.shadow /\ [r EXCEPT !.events = e].memory = r.memory
  BY <1>1 DEF Experiences
<1> QED BY <1>4, <1>5, <1>6

Lengthens(q, r, to, t) ==
  /\ OnPath(q.events) /\ Len(q.events) = Len(r.events) + 1
  /\ \A k \in 1 .. Len(r.events) : q.events[k] = r.events[k]
  /\ q.events[Len(r.events) + 1] = [to |-> to, at |-> t]
  /\ Cards!State(q) = to

\* A valid record with one more event is on its path.
LEMMA Extended ==
  ASSUME NEW r, ExperienceFits(r), NEW to, NEW t \in Times, NEW q, Extends(q, r, to, t),
         Cards!Valid(q), MayFollow(r, to)
  PROVE  Lengthens(q, r, to, t)
<1>0. PICK n : n = Len(r.events)
  OBVIOUS
<1>1. /\ r.events \in Seq(Events) /\ n \in 1 .. 5 /\ r.events[n].to = Path[n] /\ OnPath(r.events)
      /\ to \in Stages /\ (to \in {"REJECTED", "ROLLED_BACK"} \/ (n <= 4 /\ to = Path[n + 1]))
  BY <1>0, StageIs, FollowsPath DEF ExperienceFits
<1>2. PICK v : v = [to |-> to, at |-> t]
  OBVIOUS
<1>3. v \in Events /\ v.to = to /\ v.at = t
  BY <1>1, <1>2 DEF Events
<1>4. q.events = Append(r.events, v)
  BY <1>2 DEF Extends
<1>5. Len(q.events) = n + 1 /\ q.events[n + 1] = v /\ \A k \in 1 .. n : q.events[k] = r.events[k]
  BY <1>0, <1>1, <1>3, <1>4
<1>6. Cards!State(q) = to
  BY <1>1, <1>3, <1>5 DEF Cards!State, Cards!Last
<1>7. r.events[n].at <= t
  <2>1. n + 1 \in 2 .. Len(q.events)
    BY <1>1, <1>5
  <2>2. q.events[(n + 1) - 1].at <= q.events[n + 1].at
    BY <2>1 DEF Cards!Valid, Cards!ChainValid
  <2>3. (n + 1) - 1 = n
    BY <1>1
  <2> QED BY <1>1, <1>3, <1>5, <2>2, <2>3
<1>8. ASSUME NEW m \in 1 .. n + 1, NEW k \in 1 .. n + 1, m <= k PROVE q.events[m].at <= q.events[k].at
  <2>1. \A i \in 1 .. n : r.events[i].at \in Nat /\ r.events[i].at <= r.events[n].at
    <3>1. \A i \in 1 .. n : r.events[i] \in Events /\ i <= n /\ i \in 1 .. Len(r.events) /\ n \in 1 .. Len(r.events)
      BY <1>0, <1>1
    <3> QED BY <1>1, <3>1, TimesAre DEF OnPath
  <2>2. t \in Nat
    BY TimesAre
  <2>3. CASE k <= n
    BY <1>0, <1>1, <1>5, <1>8, <2>3 DEF OnPath
  <2>4. CASE k = n + 1 /\ m <= n
    <3>1. q.events[m] = r.events[m] /\ q.events[k].at = t /\ r.events[m].at <= r.events[n].at /\ r.events[m].at \in Nat
      BY <1>3, <1>5, <2>1, <2>4
    <3>2. r.events[n].at \in Nat
      BY <1>1, <2>1
    <3> QED BY <1>7, <2>2, <3>1, <3>2
  <2>5. CASE k = n + 1 /\ m = n + 1
    BY <1>3, <1>5, <2>2, <2>5
  <2> QED BY <1>1, <1>8, <2>3, <2>4, <2>5
<1>9. \A k \in 1 .. 5 : k < Len(q.events) => q.events[k].to = Path[k]
  <2>1. \A k \in 1 .. 5 : k < n => r.events[k].to = Path[k]
    BY <1>0, <1>1 DEF OnPath
  <2> QED BY <1>1, <1>5, <2>1
<1>10. q.events[Len(q.events)].to \in {"REJECTED", "ROLLED_BACK"}
         \/ (Len(q.events) <= 5 /\ q.events[Len(q.events)].to = Path[Len(q.events)])
  BY <1>1, <1>3, <1>5
<1>11. Len(q.events) \in 1 .. 6
  BY <1>1, <1>5
<1>12. OnPath(q.events)
  BY <1>5, <1>8, <1>9, <1>10, <1>11 DEF OnPath
<1> QED BY <1>0, <1>2, <1>5, <1>6, <1>12 DEF Lengthens

\* A step along the path that writes no memory.
LEMMA StepFits ==
  ASSUME NEW r, ExperienceFits(r), NEW to, to # "PROMOTED", NEW t \in Times, NEW q, Extends(q, r, to, t),
         Cards!Valid(q), q.memory = r.memory, MayFollow(r, to)
  PROVE  ExperienceFits(q)
<1>1. OnPath(q.events) /\ Len(q.events) = Len(r.events) + 1 /\ Cards!State(q) = to
      /\ \A k \in 1 .. Len(r.events) : q.events[k] = r.events[k]
  <2>1. Lengthens(q, r, to, t)
    BY Extended
  <2> QED BY <2>1 DEF Lengthens
<1>2. Len(r.events) \in 1 .. 6
  BY StageIs
<1>3. q.memory # 0 => Len(q.events) >= 5 /\ q.events[5].to = "PROMOTED" /\ q.memory = q.events[5].at
  BY <1>1, <1>2 DEF ExperienceFits
<1> QED BY <1>1, <1>3 DEF ExperienceFits, Extends

LEMMA PromotedFits ==
  ASSUME NEW r, ExperienceFits(r), NEW t \in Times, Cards!State(r) = "SHADOW", Cards!Valid(Cards!Promoted(r, t))
  PROVE  ExperienceFits(Cards!Promoted(r, t))
<1>1. PICK q : q = Cards!Promoted(r, t)
  OBVIOUS
<1>2. Extends(q, r, "PROMOTED", t) /\ q.memory = t
  BY <1>1, ExtendIs DEF Cards!Promoted, Extends, Experiences, Stages
<1>3. Len(r.events) = 4
  BY StageIs
<1>4. OnPath(q.events) /\ Len(q.events) = 5 /\ q.events[5] = [to |-> "PROMOTED", at |-> t] /\ Cards!State(q) = "PROMOTED"
  <2>1. MayFollow(r, "PROMOTED") /\ Cards!Valid(q)
    BY <1>1 DEF MayFollow
  <2>2. Lengthens(q, r, "PROMOTED", t)
    BY <1>2, <2>1, Extended
  <2> QED BY <1>3, <2>2 DEF Lengthens
<1>5. q.replay = "PASS" /\ q.approval = "APPROVE" /\ q.shadow = "PASS" /\ q.memory # 0
  BY <1>1, <1>4 DEF Cards!Valid, Cards!ReceiptsValid, Cards!MemoryValid, Cards!None
<1> QED BY <1>1, <1>2, <1>4, <1>5 DEF ExperienceFits, Extends

LEMMA CandidateFits ==
  ASSUME NEW t \in Times
  PROVE  ExperienceFits(Cards!Candidate(t))
<1>1. PICK v : v = [to |-> "CANDIDATE", at |-> t]
  OBVIOUS
<1>2. v \in Events /\ v.to = "CANDIDATE" /\ v.at = t /\ t \in Nat
  BY <1>1, BoundsAssumption DEF Events, Stages
<1>3. PICK q : q = Cards!Candidate(t)
  OBVIOUS
<1>4. q = [events |-> <<v>>, replay |-> "none", approval |-> "none", shadow |-> "none", memory |-> 0, revoked |-> 0]
  BY <1>1, <1>3 DEF Cards!Candidate, Cards!None
<1>5. <<v>> \in Seq(Events) /\ Len(<<v>>) = 1 /\ <<v>>[1] = v
  BY <1>2
<1>6. q \in Experiences /\ q.events = <<v>> /\ q.memory = 0
  BY <1>4, <1>5 DEF Experiences
<1>7. OnPath(q.events)
  BY <1>2, <1>5, <1>6, PathIs DEF OnPath
<1>8. Cards!State(q) = "CANDIDATE"
  BY <1>2, <1>5, <1>6 DEF Cards!State, Cards!Last
<1> QED BY <1>3, <1>6, <1>7, <1>8 DEF ExperienceFits

\* Whatever operation makes a record.
LEMMA MadeFits ==
  ASSUME ExperienceInv, NEW q, Cards!Make(q),
         \/ \E t \in Times : q = Cards!Candidate(t)
         \/ \E r \in x1, t \in Times, o \in {"PASS", "FAIL"} :
              Cards!State(r) = "CANDIDATE" /\ q = Cards!Replayed(r, t, o)
         \/ \E r \in x1, t \in Times, d \in {"APPROVE", "REJECT"} :
              Cards!State(r) = "REPLAY_TESTED" /\ q = Cards!Decided(r, t, d)
         \/ \E r \in x1, t \in Times, o \in {"PASS", "FAIL"} :
              Cards!State(r) = "HUMAN_APPROVED" /\ q = Cards!Shadowed(r, t, o)
         \/ \E r \in x1, t \in Times : Cards!State(r) = "SHADOW" /\ q = Cards!Promoted(r, t)
         \/ \E r \in x1, t \in Times : Cards!State(r) \in {"SHADOW", "PROMOTED"} /\ q = Cards!RolledBack(r, t)
  PROVE  ExperienceFits(q)
<1>1. Cards!Valid(q) /\ \A r \in x1 : ExperienceFits(r)
  BY DEF Cards!Make, ExperienceInv
<1>2. ASSUME NEW r \in x1, NEW t \in Times, NEW o \in {"PASS", "FAIL"},
             Cards!State(r) = "CANDIDATE", q = Cards!Replayed(r, t, o)
      PROVE  ExperienceFits(q)
  <2>1. PICK to \in {"REPLAY_TESTED", "REJECTED"} : to = IF o = "PASS" THEN "REPLAY_TESTED" ELSE "REJECTED"
    OBVIOUS
  <2>2. PICK e : e = Cards!Extend(r, to, t)
    OBVIOUS
  <2>3. e \in Experiences /\ e.events = Append(r.events, [to |-> to, at |-> t]) /\ e.memory = r.memory
    BY <1>1, <2>1, <2>2, ExtendIs DEF Stages
  <2>4. q = [e EXCEPT !.replay = o]
    BY <1>2, <2>1, <2>2 DEF Cards!Replayed
  <2>5. Extends(q, r, to, t) /\ q.memory = r.memory
    BY <2>3, <2>4 DEF Extends, Experiences
  <2>6. MayFollow(r, to)
    BY <1>2, <2>1 DEF MayFollow
  <2> QED BY <1>1, <2>1, <2>5, <2>6, StepFits
<1>3. ASSUME NEW r \in x1, NEW t \in Times, NEW d \in {"APPROVE", "REJECT"},
             Cards!State(r) = "REPLAY_TESTED", q = Cards!Decided(r, t, d)
      PROVE  ExperienceFits(q)
  <2>1. PICK to \in {"HUMAN_APPROVED", "REJECTED"} : to = IF d = "APPROVE" THEN "HUMAN_APPROVED" ELSE "REJECTED"
    OBVIOUS
  <2>2. PICK e : e = Cards!Extend(r, to, t)
    OBVIOUS
  <2>3. e \in Experiences /\ e.events = Append(r.events, [to |-> to, at |-> t]) /\ e.memory = r.memory
    BY <1>1, <2>1, <2>2, ExtendIs DEF Stages
  <2>4. q = [e EXCEPT !.approval = d]
    BY <1>3, <2>1, <2>2 DEF Cards!Decided
  <2>5. Extends(q, r, to, t) /\ q.memory = r.memory
    BY <2>3, <2>4 DEF Extends, Experiences
  <2>6. MayFollow(r, to)
    BY <1>3, <2>1 DEF MayFollow
  <2> QED BY <1>1, <2>1, <2>5, <2>6, StepFits
<1>4. ASSUME NEW r \in x1, NEW t \in Times, NEW o \in {"PASS", "FAIL"},
             Cards!State(r) = "HUMAN_APPROVED", q = Cards!Shadowed(r, t, o)
      PROVE  ExperienceFits(q)
  <2>1. PICK to \in {"SHADOW", "REJECTED"} : to = IF o = "PASS" THEN "SHADOW" ELSE "REJECTED"
    OBVIOUS
  <2>2. PICK e : e = Cards!Extend(r, to, t)
    OBVIOUS
  <2>3. e \in Experiences /\ e.events = Append(r.events, [to |-> to, at |-> t]) /\ e.memory = r.memory
    BY <1>1, <2>1, <2>2, ExtendIs DEF Stages
  <2>4. q = [e EXCEPT !.shadow = o]
    BY <1>4, <2>1, <2>2 DEF Cards!Shadowed
  <2>5. Extends(q, r, to, t) /\ q.memory = r.memory
    BY <2>3, <2>4 DEF Extends, Experiences
  <2>6. MayFollow(r, to)
    BY <1>4, <2>1 DEF MayFollow
  <2> QED BY <1>1, <2>1, <2>5, <2>6, StepFits
<1>5. ASSUME NEW r \in x1, NEW t \in Times, Cards!State(r) \in {"SHADOW", "PROMOTED"}, q = Cards!RolledBack(r, t)
      PROVE  ExperienceFits(q)
  <2>1. PICK e : e = Cards!Extend(r, "ROLLED_BACK", t)
    OBVIOUS
  <2>2. e \in Experiences /\ e.events = Append(r.events, [to |-> "ROLLED_BACK", at |-> t]) /\ e.memory = r.memory
    BY <1>1, <2>1, ExtendIs DEF Stages
  <2>3. PICK w \in Times \cup {0} : q = [e EXCEPT !.revoked = w]
    BY <1>5, <2>1 DEF Cards!RolledBack, Cards!None
  <2>4. Extends(q, r, "ROLLED_BACK", t) /\ q.memory = r.memory
    BY <2>2, <2>3 DEF Extends, Experiences
  <2>5. MayFollow(r, "ROLLED_BACK")
    BY <1>5 DEF MayFollow
  <2> QED BY <1>1, <2>4, <2>5, StepFits
<1> QED BY <1>1, <1>2, <1>3, <1>4, <1>5, CandidateFits, PromotedFits

LEMMA MakeKeeps ==
  ASSUME ExperienceInv, NEW q, Cards!Make(q), ExperienceFits(q)
  PROVE  ExperienceInv'
BY DEF ExperienceInv, Cards!Make

LEMMA AddLineKeeps ==
  ASSUME ExperienceInv, Cards!AddLine
  PROVE  ExperienceInv'
<1>1. PICK r \in x1 : Cards!Admissible(r) /\ x2' = Append(x2, [card |-> Cards!Card(r), record |-> r])
  BY DEF Cards!AddLine
<1>2. UNCHANGED <<x1, x3>> /\ ExperienceFits(r) /\ r.memory # 0 /\ r \in Experiences
  BY <1>1 DEF Cards!AddLine, Cards!Admissible, Cards!None, ExperienceInv, ExperienceFits
<1>3. PICK v : v = [card |-> Cards!Card(r), record |-> r]
  OBVIOUS
<1>4. v \in [card : {Cards!Card(s) : s \in Experiences}, record : Experiences]
      /\ v.card = Cards!Card(r) /\ v.record = r
  BY <1>2, <1>3
<1>5. x2' = Append(x2, v)
  BY <1>1, <1>3
<1>6. /\ x2' \in Seq([card : {Cards!Card(s) : s \in Experiences}, record : Experiences])
      /\ DOMAIN x2' = 1 .. Len(x2) + 1 /\ DOMAIN x2 = 1 .. Len(x2) /\ Len(x2) \in Nat
      /\ x2'[Len(x2) + 1] = v /\ \A n \in 1 .. Len(x2) : x2'[n] = x2[n]
  BY <1>4, <1>5 DEF ExperienceInv
<1>7. ASSUME NEW n \in DOMAIN x2'
      PROVE  /\ ExperienceFits(x2'[n].record) /\ x2'[n].record.memory # 0
             /\ x2'[n].card = Cards!Card(x2'[n].record)
  <2>1. CASE n = Len(x2) + 1
    BY <1>2, <1>4, <1>6, <2>1
  <2>2. CASE n \in 1 .. Len(x2)
    BY <1>6, <2>2 DEF ExperienceInv
  <2> QED BY <1>6, <1>7, <2>1, <2>2
<1>8. \A n \in x3.cards : n \in DOMAIN x2' /\ Cards!Fresh(x2'[n].card, x3.at)
  BY <1>6 DEF ExperienceInv
<1> QED BY <1>2, <1>6, <1>7, <1>8 DEF ExperienceInv

LEMMA RetrieveKeeps ==
  ASSUME ExperienceInv, Cards!Retrieve
  PROVE  ExperienceInv'
<1>1. PICK t \in Times : x3' = [at |-> t, cards |-> {n \in DOMAIN x2 : Cards!Fresh(x2[n].card, t)}]
  BY DEF Cards!Retrieve
<1>2. UNCHANGED <<x1, x2>>
  BY DEF Cards!Retrieve
<1>3. x3'.at = t /\ \A n \in x3'.cards : n \in DOMAIN x2 /\ Cards!Fresh(x2[n].card, t)
  BY <1>1
<1> QED BY <1>2, <1>3 DEF ExperienceInv

LEMMA ExperienceNext == ExperienceInv /\ [Cards!Next]_(Cards!vars) => ExperienceInv'
<1> SUFFICES ASSUME ExperienceInv, [Cards!Next]_(Cards!vars) PROVE ExperienceInv'
  OBVIOUS
<1>1. CASE Cards!InitializeExperience \/ Cards!RecordReplay \/ Cards!DecideApproval \/ Cards!RecordShadow
           \/ Cards!Promote \/ Cards!Rollback
  <2>1. CASE Cards!InitializeExperience
    BY <2>1, MadeFits, MakeKeeps DEF Cards!InitializeExperience
  <2>2. CASE Cards!RecordReplay
    BY <2>2, MadeFits, MakeKeeps DEF Cards!RecordReplay
  <2>3. CASE Cards!DecideApproval
    BY <2>3, MadeFits, MakeKeeps DEF Cards!DecideApproval
  <2>4. CASE Cards!RecordShadow
    BY <2>4, MadeFits, MakeKeeps DEF Cards!RecordShadow
  <2>5. CASE Cards!Promote
    BY <2>5, MadeFits, MakeKeeps DEF Cards!Promote
  <2>6. CASE Cards!Rollback
    BY <2>6, MadeFits, MakeKeeps DEF Cards!Rollback
  <2> QED BY <1>1, <2>1, <2>2, <2>3, <2>4, <2>5, <2>6
<1>2. CASE UNCHANGED Cards!vars
  BY <1>2 DEF ExperienceInv, Cards!vars
<1> QED BY <1>1, <1>2, AddLineKeeps, RetrieveKeeps DEF Cards!Next

LEMMA ExperienceInit == Cards!Init => ExperienceInv
<1> SUFFICES ASSUME Cards!Init PROVE ExperienceInv
  OBVIOUS
<1>1. x1 = {} /\ x2 = <<>> /\ x3.at = 0 /\ x3.cards = {}
  BY DEF Cards!Init, Cards!None
<1> QED BY <1>1 DEF ExperienceInv

LEMMA ExperienceEarned == ExperienceInv => Cards!UsedIsEarned
<1> SUFFICES ASSUME ExperienceInv, NEW n \in x3.cards
             PROVE  /\ Len(x2[n].record.events) >= 5
                    /\ [k \in 1 .. 5 |-> x2[n].record.events[k].to] = Path
                    /\ \A k \in 1 .. 5 : x2[n].record.events[k].at <= x3.at
  BY DEF Cards!UsedIsEarned, Path
<1>1. PICK r : r = x2[n].record
  OBVIOUS
<1>2. ExperienceFits(r) /\ r.memory # 0 /\ Cards!Fresh(Cards!Card(r), x3.at)
  BY <1>1 DEF ExperienceInv
<1>3. r \in Experiences /\ OnPath(r.events) /\ Len(r.events) >= 5 /\ r.events[5].to = "PROMOTED"
      /\ r.memory = r.events[5].at
  BY <1>2 DEF ExperienceFits
<1>4. r.memory <= x3.at
  BY <1>2 DEF Cards!Fresh, Cards!Card
<1>5. r.events \in Seq(Events) /\ Len(r.events) \in 1 .. 6 /\ \A k \in 1 .. Len(r.events) : r.events[k] \in Events
  BY <1>3 DEF Experiences, OnPath
<1>6. \A k \in 1 .. 5 : r.events[k].at \in Nat /\ r.events[k].at <= r.events[5].at
  <2>1. \A k \in 1 .. 5 : k \in 1 .. Len(r.events) /\ r.events[k] \in Events /\ k <= 5
    BY <1>3, <1>5
  <2>2. \A m, k \in 1 .. Len(r.events) : m <= k => r.events[m].at <= r.events[k].at
    BY <1>3 DEF OnPath
  <2>3. 5 \in 1 .. Len(r.events)
    BY <1>3, <1>5
  <2>4. ASSUME NEW k \in 1 .. 5 PROVE r.events[k].at \in Nat /\ r.events[k].at <= r.events[5].at
    <3>1. k \in 1 .. Len(r.events) /\ r.events[k] \in Events /\ k <= 5
      BY <2>1
    <3>2. r.events[k].at \in Nat
      BY <3>1, TimesAre
    <3> QED BY <2>2, <2>3, <3>1, <3>2
  <2> QED BY <2>4
<1>7. x3.at \in Nat
  BY TimesAre DEF ExperienceInv
<1>8. ASSUME NEW k \in 1 .. 5 PROVE r.events[k].at <= x3.at
  <2>1. r.events[k].at \in Nat /\ r.events[5].at \in Nat /\ r.events[k].at <= r.events[5].at
    BY <1>6
  <2> QED BY <1>3, <1>4, <1>7, <2>1
<1>9. \A k \in 1 .. 5 : r.events[k].to = Path[k]
  <2>1. \A k \in 1 .. 5 : k < 5 => r.events[k].to = Path[k]
    BY <1>3, <1>5 DEF OnPath
  <2> QED BY <1>3, <2>1, PathIs
<1>10. [k \in 1 .. 5 |-> r.events[k].to] = Path
  BY <1>9 DEF Path
<1> QED BY <1>1, <1>3, <1>8, <1>10

\* What one more element makes of a sequence.
LEMMA OneAppended ==
  ASSUME NEW S, NEW h \in Seq(S), NEW v \in S
  PROVE  /\ DOMAIN Append(h, v) = 1 .. Len(h) + 1 /\ Append(h, v)[Len(h) + 1] = v
         /\ \A k \in 1 .. Len(h) : Append(h, v)[k] = h[k] /\ h[k] \in S
<1>1. Append(h, v) \in Seq(S) /\ Len(Append(h, v)) = Len(h) + 1
  BY AppendProperties
<1>2. Append(h, v)[Len(h) + 1] = v
  BY AppendProperties
<1>3. DOMAIN Append(h, v) = 1 .. Len(Append(h, v))
  BY <1>1, LenProperties
<1>4. ASSUME NEW k \in 1 .. Len(h) PROVE Append(h, v)[k] = h[k]
  OBVIOUS
<1>5. ASSUME NEW k \in 1 .. Len(h) PROVE h[k] \in S
  OBVIOUS
<1> QED BY <1>1, <1>2, <1>3, <1>4, <1>5

\* What a sixth event makes of five.
LEMMA SixthAppended ==
  ASSUME NEW S, NEW h \in Seq(S), NEW v \in S, Len(h) = 5
  PROVE  /\ Len(Append(h, v)) = 6 /\ Append(h, v)[6] = v /\ DOMAIN Append(h, v) = 1 .. 6
         /\ \A k \in 1 .. 5 : Append(h, v)[k] = h[k] /\ h[k] \in S
<1>1. PICK a : a = Append(h, v)
  OBVIOUS
<1>2. /\ DOMAIN a = 1 .. Len(h) + 1 /\ a[Len(h) + 1] = v
      /\ \A k \in 1 .. Len(h) : a[k] = h[k] /\ h[k] \in S
  BY <1>1, OneAppended
<1>3. Len(a) = Len(h) + 1
  BY <1>1, AppendProperties
<1>4. Len(h) + 1 = 6
  OBVIOUS
<1>5. DOMAIN a = 1 .. 6 /\ a[6] = v /\ Len(a) = 6 /\ \A k \in 1 .. 5 : a[k] = h[k] /\ h[k] \in S
  BY <1>2, <1>3, <1>4
<1> QED BY <1>1, <1>5

LEMMA ExperienceRevocable == ExperienceInv => Cards!PromotedCanBeRevoked
<1> SUFFICES ASSUME ExperienceInv, NEW r \in x1, Cards!State(r) = "PROMOTED",
                    NEW t \in Times, t > Cards!Last(r.events).at
             PROVE  Cards!Valid(Cards!RolledBack(r, t))
  BY DEF Cards!PromotedCanBeRevoked
<1>1. ExperienceFits(r) /\ r \in Experiences /\ t \in Nat \ {0}
  BY TimesAre DEF ExperienceInv, ExperienceFits
<1>2. r.events \in Seq(Events) /\ Len(r.events) = 5 /\ r.replay = "PASS" /\ r.approval = "APPROVE"
      /\ r.shadow = "PASS" /\ r.memory # 0 /\ r.memory = r.events[5].at /\ OnPath(r.events) /\ r.events[5].to = "PROMOTED"
  BY <1>1, StageIs DEF ExperienceFits
<1>3. r.events[5].at < t /\ r.events[5].at \in Nat
  <2>1. r.events[5] \in Events /\ Cards!Last(r.events) = r.events[5]
    BY <1>2 DEF Cards!Last
  <2> QED BY <1>1, <2>1, TimesAre
<1>4. PICK e : e = Cards!Extend(r, "ROLLED_BACK", t)
  OBVIOUS
<1>5. /\ e \in Experiences /\ e.events = Append(r.events, [to |-> "ROLLED_BACK", at |-> t]) /\ e.memory = r.memory
      /\ e.replay = r.replay /\ e.approval = r.approval /\ e.shadow = r.shadow
  BY <1>1, <1>4, ExtendIs DEF Stages
<1>6. PICK q : q = Cards!RolledBack(r, t)
  OBVIOUS
<1>7. q = [e EXCEPT !.revoked = t]
  BY <1>2, <1>4, <1>6 DEF Cards!RolledBack, Cards!None
<1>8. /\ q.events = Append(r.events, [to |-> "ROLLED_BACK", at |-> t]) /\ q.memory = r.memory /\ q.revoked = t
      /\ q.replay = "PASS" /\ q.approval = "APPROVE" /\ q.shadow = "PASS"
  BY <1>2, <1>5, <1>7 DEF Experiences
<1>9. PICK v : v = [to |-> "ROLLED_BACK", at |-> t]
  OBVIOUS
<1>10. v \in Events /\ v.to = "ROLLED_BACK" /\ v.at = t
  BY <1>9 DEF Events, Stages
<1>11. /\ Len(q.events) = 6 /\ q.events[6] = v /\ DOMAIN q.events = 1 .. 6
       /\ \A k \in 1 .. 5 : q.events[k] = r.events[k] /\ r.events[k] \in Events
  <2>1. q.events = Append(r.events, v)
    BY <1>8, <1>9
  <2>2. PICK h : h = r.events
    OBVIOUS
  <2>3. h \in Seq(Events) /\ Len(h) = 5 /\ v \in Events /\ q.events = Append(h, v)
    BY <1>2, <1>10, <2>1, <2>2
  <2>4. /\ Len(Append(h, v)) = 6 /\ Append(h, v)[6] = v /\ DOMAIN Append(h, v) = 1 .. 6
        /\ \A k \in 1 .. 5 : Append(h, v)[k] = h[k] /\ h[k] \in Events
    BY <2>3, SixthAppended
  <2> QED BY <2>2, <2>3, <2>4
<1>12. Cards!State(q) = "ROLLED_BACK" /\ Cards!Last(q.events).at = t
  BY <1>10, <1>11 DEF Cards!State, Cards!Last
<1>13. \A k \in 1 .. 5 : q.events[k].to = Path[k]
  BY <1>2, <1>11, PathIs DEF OnPath
<1>14. ASSUME NEW n \in 1 .. 6
       PROVE  <<IF n = 1 THEN "none" ELSE q.events[n - 1].to, q.events[n].to>> \in Cards!Allowed
  <2>1. n \in {1, 2, 3, 4, 5, 6}
    OBVIOUS
  <2> QED BY <1>10, <1>11, <1>13, <2>1, PathIs DEF Cards!Allowed
<1>15. \A n \in 2 .. 6 : q.events[n - 1].at <= q.events[n].at
  <2>1. \A n \in 2 .. 5 : r.events[n - 1].at <= r.events[n].at
    BY <1>2 DEF OnPath
  <2>2. ASSUME NEW n \in 2 .. 6 PROVE q.events[n - 1].at <= q.events[n].at
    <3>1. CASE n = 6
      <4>1. q.events[5].at = r.events[5].at /\ q.events[6].at = t /\ n - 1 = 5
        BY <1>10, <1>11, <3>1
      <4> QED BY <1>1, <1>3, <3>1, <4>1
    <3>2. CASE n \in 2 .. 5
      BY <1>11, <2>1, <3>2
    <3> QED BY <3>1, <3>2
  <2> QED BY <2>2
<1>16. Cards!ChainValid(q)
  BY <1>11, <1>14, <1>15 DEF Cards!ChainValid
<1>17. Cards!ReceiptsValid(q) /\ Cards!MemoryValid(q)
  BY <1>1, <1>2, <1>3, <1>8, <1>12 DEF Cards!ReceiptsValid, Cards!MemoryValid, Cards!None
<1> QED BY <1>6, <1>16, <1>17 DEF Cards!Valid

\* A store that loads has one line of an identity: the one that is used.
LEMMA ExperienceUnrevoked == [Cards!Next]_(Cards!vars) => Cards!UsesUnrevoked
<1> SUFFICES ASSUME [Cards!Next]_(Cards!vars), NEW n \in x3'.cards, NEW m \in DOMAIN x2',
                    x2'[m].card.status = "REVOKED", x2'[m].card.id = x2'[n].card.id, x3' # x3
             PROVE  FALSE
  BY DEF Cards!UsesUnrevoked
<1>1. Cards!Retrieve
  BY DEF Cards!Next, Cards!vars, Cards!InitializeExperience, Cards!RecordReplay, Cards!DecideApproval,
     Cards!RecordShadow, Cards!Promote, Cards!Rollback, Cards!Make, Cards!AddLine
<1>2. x2' = x2 /\ n \in DOMAIN x2 /\ x2[n].card.status = "APPROVED"
  BY <1>1 DEF Cards!Retrieve, Cards!Fresh
<1>3. m = n
  BY <1>1, <1>2 DEF Cards!Retrieve, Cards!Loadable
<1> QED BY <1>2, <1>3

\* A store of envelopes is a store of cards that refuses more.
LEMMA EnvelopesAreCards ==
  /\ Envelopes!Init => Cards!Init
  /\ Envelopes!Next => Cards!Next
  /\ Cards!UsedIsEarned => Envelopes!UsedIsEarned
<1>1. Envelopes!Init => Cards!Init
  BY DEF Envelopes!Init, Cards!Init, Envelopes!None, Cards!None
<1>2. Cards!UsedIsEarned => Envelopes!UsedIsEarned
  BY DEF Cards!UsedIsEarned, Envelopes!UsedIsEarned
<1>3. Envelopes!AddLine => Cards!AddLine
  BY DEF Envelopes!AddLine, Cards!AddLine, Envelopes!Admissible, Cards!Admissible, Envelopes!Card, Cards!Card,
     Envelopes!CardId, Cards!CardId, Envelopes!State, Cards!State, Envelopes!None, Cards!None
<1>4. Envelopes!Retrieve => Cards!Retrieve
  BY DEF Envelopes!Retrieve, Cards!Retrieve, Envelopes!Loadable, Cards!Loadable, Envelopes!Fresh, Cards!Fresh,
     Envelopes!None, Cards!None
<1>5. ASSUME NEW r, Envelopes!Make(r) PROVE Cards!Make(r)
  <2>1. Envelopes!State(r) = Cards!State(r) /\ Envelopes!Allowed = Cards!Allowed /\ Envelopes!None = Cards!None
        /\ Envelopes!Last(r.events) = Cards!Last(r.events)
    BY DEF Envelopes!State, Cards!State, Envelopes!Allowed, Cards!Allowed, Envelopes!None, Cards!None,
       Envelopes!Last, Cards!Last
  <2>2. Envelopes!ChainValid(r) => Cards!ChainValid(r)
    BY <2>1 DEF Envelopes!ChainValid, Cards!ChainValid
  <2>3. Envelopes!ReceiptsValid(r) => Cards!ReceiptsValid(r)
    BY <2>1 DEF Envelopes!ReceiptsValid, Cards!ReceiptsValid
  <2>4. Envelopes!MemoryValid(r) => Cards!MemoryValid(r)
    BY <2>1 DEF Envelopes!MemoryValid, Cards!MemoryValid
  <2>5. Envelopes!Valid(r) => Cards!Valid(r)
    BY <2>2, <2>3, <2>4 DEF Envelopes!Valid, Cards!Valid
  <2> QED BY <1>5, <2>5 DEF Envelopes!Make, Cards!Make, Envelopes!Cardinality, Cards!Cardinality
<1>6. Envelopes!Next => Cards!Next
  BY <1>3, <1>4, <1>5 DEF Envelopes!Next, Cards!Next,
     Envelopes!InitializeExperience, Cards!InitializeExperience, Envelopes!Candidate, Cards!Candidate,
     Envelopes!RecordReplay, Cards!RecordReplay, Envelopes!Replayed, Cards!Replayed, Envelopes!Extend, Cards!Extend,
     Envelopes!DecideApproval, Cards!DecideApproval, Envelopes!Decided, Cards!Decided,
     Envelopes!RecordShadow, Cards!RecordShadow, Envelopes!Shadowed, Cards!Shadowed,
     Envelopes!Promote, Cards!Promote, Envelopes!Promoted, Cards!Promoted,
     Envelopes!Rollback, Cards!Rollback, Envelopes!RolledBack, Cards!RolledBack,
     Envelopes!State, Cards!State, Envelopes!Last, Cards!Last, Envelopes!None, Cards!None
<1> QED BY <1>1, <1>2, <1>6

-----------------------------------------------------------------------------
(* AgentRuntime: over the slots, x1 is at, x2 status, x3 outputs, x4        *)
(* events, x5 transfers, x6 selected, x7 worker, x8 calls, x9 decision,     *)
(* x10 stored, x11 lost and x12 task.  The main thread follows a clock:     *)
(* every task has its turn, and the tools of a pass share one.  It stands    *)
(* still where the repair fails.                                            *)

System == {<<"system", "repair">>, <<"system", "delivery">>}
Base(ph) == IF ph = "initial" THEN 0 ELSE 9
StepTurn == [intake |-> 1, route |-> 2, memory |-> 3, plan |-> 4, council |-> 6, judge |-> 8]

Turn(t) ==
  IF t[1] = "system" THEN (IF t[2] = "repair" THEN 9 ELSE 18)
  ELSE Base(t[1]) + (IF t[2] \in Agent!Steps THEN StepTurn[t[2]] ELSE 5)

Places == (Agent!Phases \X ((Agent!Steps \ {"council"}) \cup {"tools", "opinions"})) \cup System \cup Agent!Closing

Clock(a) ==
  IF a[1] = "close" THEN (IF a[2] = "failed" THEN 9 ELSE IF a[2] = "check" THEN 19
                          ELSE IF a[2] = "reconcile" THEN 20 ELSE 21)
  ELSE IF a[1] = "system" THEN (IF a[2] = "repair" THEN 9 ELSE 18)
  ELSE Base(a[1]) + (IF a[2] \in Agent!Steps THEN StepTurn[a[2]] ELSE IF a[2] = "tools" THEN 5 ELSE 7)

AgentEvents == [task : Agent!Tasks, status : Agent!Terminal]
HandOffs == [source : Agent!Tasks, target : Agent!Tasks, from : Agent!Terminal,
             outcome : {"accepted", "deferred"}]

RecorderTypes ==
  /\ x2 \in [Agent!Tasks -> {"QUEUED"} \cup Agent!Terminal]
  /\ x3 \subseteq Agent!Tasks
  /\ x4 \in Seq(AgentEvents)
  /\ x5 \in Seq(HandOffs)
  /\ x11 \in 0..MaxLost

RestTypes ==
  /\ x1 \in Places
  /\ x6 \subseteq Tools
  /\ x7 \in [Tools -> {"IDLE", "RUNNING", "OK", "ERROR", "COLLECTED"}]
  /\ x8 \in [Tools -> 0..(Retries + 1)]
  /\ x9 \in [Agent!Phases -> {"NONE", "PASS", "BLOCKED", "INVESTIGATE"}]
  /\ x12 \in {"RUNNING", "VERIFYING", "COMPLETED", "FAILED"}

\* Tasks end in the order of their turns.
InTurn ==
  \A t \in Agent!Tasks :
    /\ Turn(t) < Clock(x1) => x2[t] \in Agent!Terminal
    /\ Turn(t) > Clock(x1) => x2[t] = "QUEUED"
    /\ Turn(t) = Clock(x1) /\ x1[2] # "tools" => x2[t] = "QUEUED"

\* The ledger: a hand-off between two tasks that have ended, each once, and all
\* of those to a task that has ended.
HandsOff(r) ==
  /\ r.source \in Agent!Dependencies(r.target)
  /\ r.from = x2[r.source] /\ x2[r.target] \in Agent!Terminal

LedgerFits ==
  /\ \A i \in 1..Len(x5) : HandsOff(x5[i])
  /\ \A i, j \in 1..Len(x5) : x5[i].source = x5[j].source /\ x5[i].target = x5[j].target => i = j
  /\ \A t \in Agent!Tasks : x2[t] \in Agent!Terminal =>
       \A s \in Agent!Dependencies(t) : \E i \in 1..Len(x5) : x5[i].source = s /\ x5[i].target = t

\* A task that has not ended has no event; a tool that has ended has one.
EventsFit ==
  /\ \A t \in Agent!Tasks : x2[t] = "QUEUED" => \A i \in 1..Len(x4) : x4[i].task # t
  /\ \A t \in Agent!Phases \X Tools : x2[t] \in Agent!Terminal =>
       /\ \E i \in 1..Len(x4) : x4[i].task = t
       /\ \A i, j \in 1..Len(x4) : x4[i].task = t /\ x4[j].task = t => i = j

SinkFits == x10 \subseteq 1..Len(x4) /\ (x11 = 0 => x10 = 1..Len(x4))

\* A tool whose future has not been collected has not ended.
PoolFits ==
  \A k \in Tools :
    /\ x7[k] = "RUNNING" => x8[k] <= Retries
    /\ x7[k] \in {"RUNNING", "OK", "ERROR"} /\ x1[2] = "tools" => k \in x6 /\ x2[<<x1[1], k>>] = "QUEUED"

JudgmentsFit ==
  \A ph \in Agent!Phases : x9[ph] # "NONE" =>
    /\ Clock(x1) > Base(ph) + 8
    /\ x9[ph] = "PASS" => \A k \in Tools : x2[<<ph, k>>] = "SUCCESS"

FateFits ==
  /\ x1 = <<"close", "failed">> => x12 = "FAILED"
  /\ Clock(x1) < 21 /\ x1 # <<"close", "failed">> => x12 \in {"RUNNING", "VERIFYING"}
  /\ x12 = "COMPLETED" => x10 = 1..Len(x4)
  /\ Clock(x1) = 21 /\ x11 = 0 => x12 = "COMPLETED"

RecorderFits == RecorderTypes /\ LedgerFits /\ EventsFit /\ SinkFits
AgentInv == RecorderFits /\ RestTypes /\ InTurn /\ PoolFits /\ JudgmentsFit /\ FateFits

\* A task has one of 16 turns, or it is one of the tools of a pass.
StepOf(t) ==
  \/ t = <<"system", "repair">> /\ Turn(t) = 9
  \/ t = <<"system", "delivery">> /\ Turn(t) = 18
  \/ \E ph \in Agent!Phases :
       \/ t = <<ph, "intake">> /\ Turn(t) = Base(ph) + 1
       \/ t = <<ph, "route">> /\ Turn(t) = Base(ph) + 2
       \/ t = <<ph, "memory">> /\ Turn(t) = Base(ph) + 3
       \/ t = <<ph, "plan">> /\ Turn(t) = Base(ph) + 4
       \/ \E k \in Tools : t = <<ph, k>> /\ Turn(t) = Base(ph) + 5
       \/ t = <<ph, "council">> /\ Turn(t) = Base(ph) + 6
       \/ t = <<ph, "judge">> /\ Turn(t) = Base(ph) + 8

LEMMA Bases == Base("initial") = 0 /\ Base("verification") = 9
BY DEF Base

LEMMA TurnOfStep ==
  ASSUME NEW ph \in Agent!Phases
  PROVE  /\ Turn(<<ph, "intake">>) = Base(ph) + 1 /\ <<ph, "intake">> \in Agent!Tasks
         /\ Turn(<<ph, "route">>) = Base(ph) + 2 /\ <<ph, "route">> \in Agent!Tasks
         /\ Turn(<<ph, "memory">>) = Base(ph) + 3 /\ <<ph, "memory">> \in Agent!Tasks
         /\ Turn(<<ph, "plan">>) = Base(ph) + 4 /\ <<ph, "plan">> \in Agent!Tasks
         /\ Turn(<<ph, "council">>) = Base(ph) + 6 /\ <<ph, "council">> \in Agent!Tasks
         /\ Turn(<<ph, "judge">>) = Base(ph) + 8 /\ <<ph, "judge">> \in Agent!Tasks
<1>1. ph # "system"
  BY DEF Agent!Phases
<1> QED BY <1>1 DEF Turn, StepTurn, Agent!Steps, Agent!Tasks

LEMMA TurnOfTool ==
  ASSUME NEW ph \in Agent!Phases, NEW k \in Tools
  PROVE  Turn(<<ph, k>>) = Base(ph) + 5 /\ <<ph, k>> \in Agent!Tasks
<1>1. ph # "system" /\ k \notin Agent!Steps
  BY ToolsAssumption DEF Agent!Phases
<1> QED BY <1>1 DEF Turn, Agent!Tasks

LEMMA TurnOfSystem ==
  /\ Turn(<<"system", "repair">>) = 9 /\ <<"system", "repair">> \in Agent!Tasks
  /\ Turn(<<"system", "delivery">>) = 18 /\ <<"system", "delivery">> \in Agent!Tasks
BY DEF Turn, Agent!Tasks

LEMMA StepOfTask ==
  ASSUME NEW t \in Agent!Tasks
  PROVE  StepOf(t)
<1>1. CASE t \in {<<"system", "repair">>, <<"system", "delivery">>}
  BY <1>1, TurnOfSystem DEF StepOf
<1>2. ASSUME NEW ph \in Agent!Phases, NEW k \in Tools, t = <<ph, k>> PROVE StepOf(t)
  BY <1>2, TurnOfTool DEF StepOf
<1>3. ASSUME NEW ph \in Agent!Phases, NEW s \in Agent!Steps, t = <<ph, s>> PROVE StepOf(t)
  BY <1>3, TurnOfStep DEF StepOf, Agent!Steps
<1> QED BY <1>1, <1>2, <1>3 DEF Agent!Tasks

\* Only the tools of a pass share a turn.
LEMMA TurnIsOwn ==
  ASSUME NEW t \in Agent!Tasks, NEW u \in Agent!Tasks, Turn(t) = Turn(u), Turn(t) \notin {5, 14}
  PROVE  t = u
<1>1. StepOf(t) /\ StepOf(u)
  BY StepOfTask
<1> QED BY <1>1, Bases DEF StepOf, Agent!Phases

LEMMA TurnRange ==
  ASSUME NEW t \in Agent!Tasks
  PROVE  Turn(t) \in 1..18 /\ Turn(t) \notin {7, 16}
BY StepOfTask, Bases DEF StepOf, Agent!Phases

\* What a task depends on has its turn before it.
DependsEarlier(t) ==
  /\ Agent!Dependencies(t) \subseteq Agent!Tasks /\ IsFiniteSet(Agent!Dependencies(t))
  /\ \A s \in Agent!Dependencies(t) : Turn(s) < Turn(t)

LEMMA FiniteTools ==
  ASSUME NEW ph
  PROVE  IsFiniteSet({<<ph, k>> : k \in Tools})
<1> DEFINE f == [k \in Tools |-> <<ph, k>>]
           S == {<<ph, k>> : k \in Tools}
<1>1. f \in Surjection(Tools, S)
  BY DEF Surjection
<1> QED BY <1>1, FS_Surjection, ToolsAssumption

LEMMA FiniteOne == ASSUME NEW x PROVE IsFiniteSet({}) /\ IsFiniteSet({x})
BY FS_EmptySet, FS_Singleton

LEMMA DependenciesOf ==
  ASSUME NEW ph \in Agent!Phases
  PROVE  /\ Agent!Dependencies(<<ph, "intake">>) =
              IF ph = "initial" THEN {} ELSE {<<"system", "repair">>}
         /\ Agent!Dependencies(<<ph, "route">>) = {<<ph, "intake">>}
         /\ Agent!Dependencies(<<ph, "memory">>) = {<<ph, "route">>}
         /\ Agent!Dependencies(<<ph, "plan">>) = {<<ph, "memory">>}
         /\ \A k \in Tools : Agent!Dependencies(<<ph, k>>) = {<<ph, "plan">>}
         /\ Agent!Dependencies(<<ph, "council">>) = {<<ph, k>> : k \in Tools}
         /\ Agent!Dependencies(<<ph, "judge">>) = {<<ph, "council">>}
         /\ Agent!Dependencies(<<"system", "repair">>) = {<<"initial", "judge">>}
         /\ Agent!Dependencies(<<"system", "delivery">>) = {<<"verification", "judge">>}
<1>1. ph \in {"initial", "verification"} /\ \A k \in Tools : k \notin Agent!Steps
  BY ToolsAssumption DEF Agent!Phases
<1>2. "intake" \notin Tools /\ "route" \notin Tools /\ "memory" \notin Tools
      /\ "plan" \notin Tools /\ "council" \notin Tools /\ "judge" \notin Tools
  BY <1>1 DEF Agent!Steps
<1>3. Agent!Dependencies(<<ph, "intake">>) = IF ph = "initial" THEN {} ELSE {<<"system", "repair">>}
  BY <1>1, <1>2 DEF Agent!Dependencies, Agent!Phases
<1>4. /\ Agent!Dependencies(<<ph, "route">>) = {<<ph, "intake">>}
      /\ Agent!Dependencies(<<ph, "memory">>) = {<<ph, "route">>}
      /\ Agent!Dependencies(<<ph, "plan">>) = {<<ph, "memory">>}
  BY <1>1, <1>2 DEF Agent!Dependencies, Agent!Phases
<1>5. ASSUME NEW k \in Tools PROVE Agent!Dependencies(<<ph, k>>) = {<<ph, "plan">>}
  BY <1>1, <1>2 DEF Agent!Dependencies, Agent!Phases
<1>6. Agent!Dependencies(<<ph, "council">>) = {<<ph, k>> : k \in Tools}
  BY <1>1, <1>2 DEF Agent!Dependencies, Agent!Phases
<1>7. Agent!Dependencies(<<ph, "judge">>) = {<<ph, "council">>}
  BY <1>1, <1>2 DEF Agent!Dependencies, Agent!Phases
<1>8. /\ Agent!Dependencies(<<"system", "repair">>) = {<<"initial", "judge">>}
      /\ Agent!Dependencies(<<"system", "delivery">>) = {<<"verification", "judge">>}
  BY DEF Agent!Dependencies, Agent!Phases
<1> QED BY <1>3, <1>4, <1>5, <1>6, <1>7, <1>8

LEMMA Dependent ==
  ASSUME NEW t \in Agent!Tasks
  PROVE  DependsEarlier(t)
<1>1. ASSUME NEW s \in Agent!Tasks, Agent!Dependencies(t) = {s}, Turn(s) < Turn(t) PROVE DependsEarlier(t)
  BY <1>1, FiniteOne DEF DependsEarlier
<1>2. CASE t = <<"system", "repair">> \/ t = <<"system", "delivery">>
  <2>1. "initial" \in Agent!Phases /\ "verification" \in Agent!Phases
    BY DEF Agent!Phases
  <2>2. /\ Agent!Dependencies(<<"system", "repair">>) = {<<"initial", "judge">>}
        /\ Agent!Dependencies(<<"system", "delivery">>) = {<<"verification", "judge">>}
    BY <2>1, DependenciesOf
  <2>3. /\ <<"initial", "judge">> \in Agent!Tasks /\ Turn(<<"initial", "judge">>) = 8
        /\ <<"verification", "judge">> \in Agent!Tasks /\ Turn(<<"verification", "judge">>) = 17
    <3>1. \A ph \in Agent!Phases : <<ph, "judge">> \in Agent!Tasks /\ Turn(<<ph, "judge">>) = Base(ph) + 8
      BY TurnOfStep
    <3> QED BY <2>1, <3>1, Bases
  <2>4. CASE t = <<"system", "repair">>
    BY <1>1, <2>2, <2>3, <2>4, TurnOfSystem
  <2>5. CASE t = <<"system", "delivery">>
    BY <1>1, <2>2, <2>3, <2>5, TurnOfSystem
  <2> QED BY <1>2, <2>4, <2>5
<1>3. ASSUME NEW ph \in Agent!Phases, t = <<ph, "intake">> PROVE DependsEarlier(t)
  <2>1. Agent!Dependencies(t) = IF ph = "initial" THEN {} ELSE {<<"system", "repair">>}
    BY <1>3, DependenciesOf
  <2>2. CASE ph = "initial"
    BY <2>1, <2>2, FiniteOne DEF DependsEarlier
  <2>3. CASE ph = "verification"
    <3>1. Turn(t) = 10 /\ Turn(<<"system", "repair">>) = 9 /\ <<"system", "repair">> \in Agent!Tasks
      <4>1. \A p \in Agent!Phases : Turn(<<p, "intake">>) = Base(p) + 1
        BY TurnOfStep
      <4> QED BY <1>3, <2>3, <4>1, TurnOfSystem, Bases
    <3> QED BY <1>1, <2>1, <2>3, <3>1
  <2> QED BY <2>2, <2>3 DEF Agent!Phases
<1>4. ASSUME NEW ph \in Agent!Phases, Base(ph) \in Nat,
             t \in {<<ph, "route">>, <<ph, "memory">>, <<ph, "plan">>, <<ph, "judge">>} PROVE DependsEarlier(t)
  <2>1. PICK s \in Agent!Tasks : Agent!Dependencies(t) = {s} /\ Turn(s) < Turn(t)
    <3>1. /\ Turn(<<ph, "intake">>) = Base(ph) + 1 /\ Turn(<<ph, "route">>) = Base(ph) + 2
          /\ Turn(<<ph, "memory">>) = Base(ph) + 3 /\ Turn(<<ph, "plan">>) = Base(ph) + 4
          /\ Turn(<<ph, "council">>) = Base(ph) + 6 /\ Turn(<<ph, "judge">>) = Base(ph) + 8
      BY TurnOfStep
    <3>2. {<<ph, s>> : s \in {"intake", "route", "memory", "council"}} \subseteq Agent!Tasks
      BY TurnOfStep
    <3>3. /\ Agent!Dependencies(<<ph, "route">>) = {<<ph, "intake">>}
          /\ Agent!Dependencies(<<ph, "memory">>) = {<<ph, "route">>}
          /\ Agent!Dependencies(<<ph, "plan">>) = {<<ph, "memory">>}
          /\ Agent!Dependencies(<<ph, "judge">>) = {<<ph, "council">>}
      BY DependenciesOf
    <3> QED BY <1>4, <3>1, <3>2, <3>3
  <2> QED BY <1>1, <2>1
<1>5. ASSUME NEW ph \in Agent!Phases, Base(ph) \in Nat, NEW k \in Tools, t = <<ph, k>> PROVE DependsEarlier(t)
  <2>1. Agent!Dependencies(t) = {<<ph, "plan">>}
    BY <1>5, DependenciesOf
  <2>2. <<ph, "plan">> \in Agent!Tasks /\ Turn(<<ph, "plan">>) = Base(ph) + 4
    BY TurnOfStep
  <2>3. Turn(t) = Base(ph) + 5
    BY <1>5, TurnOfTool
  <2> QED BY <1>1, <1>5, <2>1, <2>2, <2>3
<1>6. ASSUME NEW ph \in Agent!Phases, Base(ph) \in Nat, t = <<ph, "council">> PROVE DependsEarlier(t)
  <2>1. Agent!Dependencies(t) = {<<ph, k>> : k \in Tools} /\ Turn(t) = Base(ph) + 6
    BY <1>6, DependenciesOf, TurnOfStep
  <2>2. \A k \in Tools : <<ph, k>> \in Agent!Tasks /\ Turn(<<ph, k>>) = Base(ph) + 5
    BY TurnOfTool
  <2>3. IsFiniteSet(Agent!Dependencies(t))
    BY <2>1, FiniteTools
  <2> QED BY <1>6, <2>1, <2>2, <2>3 DEF DependsEarlier
<1>7. \A ph \in Agent!Phases : Base(ph) \in Nat
  BY Bases DEF Agent!Phases
<1> QED BY <1>2, <1>3, <1>4, <1>5, <1>6, <1>7, StepOfTask DEF StepOf

LEMMA SameCardinality == \A S : Agent!Cardinality(S) = Cardinality(S)
BY DEF Agent!Cardinality, Cardinality

\* A sequence of a finite set holds each of its elements once.
Enumerates(f, n, S) ==
  /\ n \in Nat /\ f \in [1..n -> S]
  /\ \A i, j \in 1..n : f[i] = f[j] => i = j
  /\ \A s \in S : \E i \in 1..n : f[i] = s

LEMMA Enumerated ==
  ASSUME NEW S, IsFiniteSet(S)
  PROVE  Enumerates(Agent!SetToSeq(S), Cardinality(S), S)
<1> DEFINE n == Cardinality(S)
           f == Agent!SetToSeq(S)
<1>1. n \in Nat /\ \E g \in [1..n -> S] : Agent!IsInjective(g)
  <2>1. n \in Nat /\ ExistsBijection(1..n, S)
    BY FS_CardinalityType
  <2> QED BY <2>1 DEF ExistsBijection, Bijection, Injection, IsInjective, Agent!IsInjective
<1>2. f = CHOOSE g \in [1..n -> S] : Agent!IsInjective(g)
  BY SameCardinality DEF Agent!SetToSeq
<1> HIDE DEF f
<1>3. f \in [1..n -> S] /\ Agent!IsInjective(f)
  BY <1>1, <1>2
<1>4. \A i, j \in 1..n : f[i] = f[j] => i = j
  BY <1>3 DEF Agent!IsInjective
<1>5. f \in Injection(1..n, S)
  BY <1>3, <1>4 DEF Injection, IsInjective
<1>6. Cardinality(1..n) = n
  BY <1>1, FS_Interval
<1>7. f \in Surjection(1..n, S)
  BY <1>5, <1>6, FS_Injection
<1>8. \A s \in S : \E i \in 1..n : f[i] = s
  BY <1>7 DEF Surjection
<1> QED BY <1>1, <1>3, <1>4, <1>8 DEF Enumerates, f

\* When a task may emit: it has not ended, or it repeats its status; and what
\* it depends on has ended.
MayEmit(t, st) ==
  /\ t \in Agent!Tasks /\ st \in Agent!Terminal
  /\ x2[t] = "QUEUED" \/ (x2[t] = st /\ t \notin Agent!Phases \X Tools)
  /\ \A s \in Agent!Dependencies(t) : x2[s] \in Agent!Terminal

StatusMoves(t, st) ==
  /\ x2' \in [Agent!Tasks -> {"QUEUED"} \cup Agent!Terminal]
  /\ x2'[t] = st /\ st \in Agent!Terminal
  /\ \A u \in Agent!Tasks \ {t} : x2'[u] = x2[u]
  /\ \A u \in Agent!Tasks : x2[u] \in Agent!Terminal => x2'[u] = x2[u]

Appends(t, f, n) ==
  /\ Enumerates(f, n, Agent!Uncaptured(t))
  /\ x5' \in Seq(HandOffs) /\ Len(x5') = Len(x5) + n
  /\ \A i \in 1..Len(x5) : x5'[i] = x5[i]
  /\ \A i \in 1..n : /\ x5'[Len(x5) + i].source = f[i] /\ x5'[Len(x5) + i].target = t
                     /\ x5'[Len(x5) + i].from = x2'[f[i]]

LEMMA EmitMoves ==
  ASSUME AgentInv, NEW t, NEW st, NEW refs, MayEmit(t, st), Agent!Emit(t, st, refs)
  PROVE  StatusMoves(t, st) /\ x3' \subseteq Agent!Tasks
<1>1. x2' = [x2 EXCEPT ![t] = st] /\ x3' \in {x3 \cup {t}, x3 \ {t}}
  BY DEF Agent!Emit
<1>2. "QUEUED" \notin Agent!Terminal
  BY DEF Agent!Terminal
<1> QED BY <1>1, <1>2 DEF StatusMoves, MayEmit, AgentInv, RecorderFits, RecorderTypes

LEMMA EmitCaptures ==
  ASSUME AgentInv, NEW t, NEW st, NEW refs, MayEmit(t, st), Agent!Emit(t, st, refs)
  PROVE  \E f, n : Appends(t, f, n)
<1> DEFINE S == Agent!Uncaptured(t)
           f == Agent!SetToSeq(S)
           n == Cardinality(S)
<1>1. StatusMoves(t, st)
  BY EmitMoves
<1>2. DependsEarlier(t) /\ S \subseteq Agent!Dependencies(t) /\ t \in Agent!Tasks
  BY Dependent DEF MayEmit, Agent!Uncaptured
<1>3. IsFiniteSet(S)
  BY <1>2, FS_Subset DEF DependsEarlier
<1>4. Enumerates(f, n, S)
  BY <1>3, Enumerated
<1>5. PICK outs : /\ x5' = x5 \o Agent!Captured(t, [x2 EXCEPT ![t] = st], outs)
                  /\ x2' = [x2 EXCEPT ![t] = st]
  BY DEF Agent!Emit
<1>6. x5' = x5 \o Agent!Captured(t, x2', outs)
  BY <1>5
<1> DEFINE R == Agent!Captured(t, x2', outs)
<1>7. DOMAIN f = 1..n
  BY <1>4 DEF Enumerates
<1>8. R = [i \in 1..n |-> [source |-> f[i], target |-> t, from |-> x2'[f[i]],
                           outcome |-> Agent!TransferOutcome(f[i], t, x2', outs)]]
  BY <1>1, <1>7 DEF Agent!Captured, StatusMoves
<1>r. x5' = x5 \o R
  BY <1>6
<1> HIDE DEF R, f, n
<1>9. ASSUME NEW i \in 1..n
      PROVE  R[i] \in HandOffs /\ R[i].source = f[i] /\ R[i].target = t /\ R[i].from = x2'[f[i]]
  <2>1. R[i] = [source |-> f[i], target |-> t, from |-> x2'[f[i]],
                outcome |-> Agent!TransferOutcome(f[i], t, x2', outs)]
    BY <1>8
  <2>2. f[i] \in Agent!Dependencies(t) /\ f[i] \in Agent!Tasks
    BY <1>2, <1>4 DEF Enumerates, DependsEarlier
  <2>3. x2'[f[i]] \in Agent!Terminal
    BY <1>1, <2>2 DEF StatusMoves, MayEmit
  <2>4. Agent!TransferOutcome(f[i], t, x2', outs) \in {"accepted", "deferred"}
    BY DEF Agent!TransferOutcome
  <2> QED BY <1>2, <2>1, <2>2, <2>3, <2>4 DEF HandOffs
<1>10. R \in Seq(HandOffs) /\ Len(R) = n
  <2>1. n \in Nat /\ R \in [1..n -> HandOffs]
    BY <1>4, <1>8, <1>9 DEF Enumerates
  <2> QED BY <2>1
<1>11. x5 \in Seq(HandOffs) /\ n \in Nat
  BY <1>4 DEF AgentInv, RecorderFits, RecorderTypes, Enumerates
<1>12. /\ x5' \in Seq(HandOffs) /\ Len(x5') = Len(x5) + n
       /\ \A i \in 1..Len(x5) : x5'[i] = x5[i]
       /\ \A i \in 1..n : x5'[Len(x5) + i] = R[i]
  <2>1. /\ x5' \in Seq(HandOffs) /\ Len(x5') = Len(x5) + n
        /\ \A i \in 1..Len(x5) + n : x5'[i] = IF i <= Len(x5) THEN x5[i] ELSE R[i - Len(x5)]
    BY <1>r, <1>10, <1>11, ConcatProperties
  <2>2. Len(x5) \in Nat
    BY <1>11
  <2>3. ASSUME NEW i \in 1..n PROVE x5'[Len(x5) + i] = R[i]
    <3>1. Len(x5) + i \in 1..Len(x5) + n /\ ~(Len(x5) + i <= Len(x5)) /\ (Len(x5) + i) - Len(x5) = i
      BY <1>11, <2>2
    <3> QED BY <2>1, <3>1
  <2> QED BY <1>11, <2>1, <2>2, <2>3
<1>13. Appends(t, f, n)
  BY <1>4, <1>9, <1>12 DEF Appends
<1> QED BY <1>13

LEMMA LedgerKeeps ==
  ASSUME AgentInv, NEW t, NEW st, MayEmit(t, st), StatusMoves(t, st), \E f, n : Appends(t, f, n)
  PROVE  LedgerFits'
<1>1. PICK f, n : Appends(t, f, n)
  OBVIOUS
<1>2. n \in Nat /\ Len(x5) \in Nat /\ Len(x5') = Len(x5) + n /\ x5 \in Seq(HandOffs)
  <2>1. x5 \in Seq(HandOffs)
    BY DEF AgentInv, RecorderFits, RecorderTypes
  <2>2. n \in Nat /\ Len(x5') = Len(x5) + n
    BY <1>1 DEF Appends, Enumerates
  <2> QED BY <2>1, <2>2
<1>3. ASSUME NEW i \in 1..Len(x5')
      PROVE  \/ i \in 1..Len(x5) /\ x5'[i] = x5[i]
             \/ \E k \in 1..n : /\ i = Len(x5) + k /\ x5'[i].source = f[k] /\ x5'[i].target = t
                                /\ x5'[i].from = x2'[f[k]]
  <2>1. CASE i <= Len(x5)
    BY <1>1, <1>2, <2>1 DEF Appends
  <2>2. CASE i > Len(x5)
    <3>1. i - Len(x5) \in 1..n /\ i = Len(x5) + (i - Len(x5))
      BY <1>2, <2>2
    <3> QED BY <1>1, <3>1 DEF Appends
  <2> QED BY <1>2, <2>1, <2>2
<1>4. \A k \in 1..n : f[k] \in Agent!Uncaptured(t)
  BY <1>1 DEF Appends, Enumerates
<1>5. \A s \in Agent!Uncaptured(t) :
        s \in Agent!Dependencies(t) /\ \A i \in 1..Len(x5) : ~(x5[i].source = s /\ x5[i].target = t)
  BY <1>2 DEF Agent!Uncaptured
<1>6. ASSUME NEW i \in 1..Len(x5) PROVE x5[i] \in HandOffs /\ HandsOff(x5[i])
  BY <1>2 DEF AgentInv, RecorderFits, LedgerFits
<1>7. ASSUME NEW i \in 1..Len(x5') PROVE HandsOff(x5[i])'
  <2>1. CASE i \in 1..Len(x5) /\ x5'[i] = x5[i]
    <3>1. PICK r \in HandOffs : r = x5[i] /\ r = x5'[i] /\ HandsOff(r)
      BY <1>6, <2>1
    <3>2. r.from \in Agent!Terminal /\ r.source \in Agent!Tasks /\ r.target \in Agent!Tasks
      BY DEF HandOffs
    <3>3. r.from = x2'[r.source] /\ x2'[r.target] \in Agent!Terminal /\ r.source \in Agent!Dependencies(r.target)
      BY <3>1, <3>2 DEF HandsOff, StatusMoves
    <3> QED BY <3>1, <3>3 DEF HandsOff
  <2>2. ASSUME NEW k \in 1..n, x5'[i].source = f[k], x5'[i].target = t, x5'[i].from = x2'[f[k]]
        PROVE  HandsOff(x5[i])'
    BY <1>4, <1>5, <2>2 DEF HandsOff, StatusMoves
  <2> QED BY <1>3, <2>1, <2>2
<1>8. ASSUME NEW i \in 1..Len(x5'), NEW j \in 1..Len(x5'),
             x5'[i].source = x5'[j].source, x5'[i].target = x5'[j].target
      PROVE  i = j
  <2>1. CASE i \in 1..Len(x5) /\ x5'[i] = x5[i] /\ j \in 1..Len(x5) /\ x5'[j] = x5[j]
    BY <1>8, <2>1 DEF AgentInv, RecorderFits, LedgerFits
  <2>2. ASSUME NEW k \in 1..n, NEW h \in 1..n, i = Len(x5) + k, j = Len(x5) + h,
               x5'[i].source = f[k], x5'[j].source = f[h]
        PROVE  i = j
    BY <1>1, <1>8, <2>2 DEF Appends, Enumerates
  <2>3. ASSUME NEW k \in 1..n, NEW h \in 1..Len(x5), x5[h].source = f[k], x5[h].target = t
        PROVE  FALSE
    BY <1>4, <1>5, <2>3
  <2> QED BY <1>3, <1>8, <2>1, <2>2, <2>3
<1>9. ASSUME NEW u \in Agent!Tasks, x2'[u] \in Agent!Terminal, NEW s \in Agent!Dependencies(u)
      PROVE  \E i \in 1..Len(x5') : x5'[i].source = s /\ x5'[i].target = u
  <2>1. ASSUME NEW i \in 1..Len(x5), x5[i].source = s, x5[i].target = u
        PROVE  \E j \in 1..Len(x5') : x5'[j].source = s /\ x5'[j].target = u
    <3>1. i \in 1..Len(x5') /\ x5'[i] = x5[i]
      BY <1>1, <1>2 DEF Appends
    <3> QED BY <2>1, <3>1
  <2>2. CASE u # t
    <3>1. x2[u] \in Agent!Terminal
      BY <1>9, <2>2 DEF StatusMoves
    <3> QED BY <2>1, <3>1 DEF AgentInv, RecorderFits, LedgerFits
  <2>3. CASE u = t /\ s \notin Agent!Uncaptured(t)
    <3>1. \E i \in 1..Len(x5) : x5[i].source = s /\ x5[i].target = t
      BY <1>2, <1>9, <2>3 DEF Agent!Uncaptured
    <3> QED BY <2>1, <2>3, <3>1
  <2>4. CASE u = t /\ s \in Agent!Uncaptured(t)
    <3>1. PICK k \in 1..n : f[k] = s
      BY <1>1, <2>4 DEF Appends, Enumerates
    <3>2. Len(x5) + k \in 1..Len(x5') /\ x5'[Len(x5) + k].source = s /\ x5'[Len(x5) + k].target = t
      BY <1>1, <1>2, <3>1 DEF Appends
    <3> QED BY <2>4, <3>2
  <2> QED BY <2>2, <2>3, <2>4
<1> QED BY <1>7, <1>8, <1>9 DEF LedgerFits

LEMMA EventsKeep ==
  ASSUME AgentInv, NEW t, NEW st, NEW refs, MayEmit(t, st), Agent!Emit(t, st, refs), StatusMoves(t, st)
  PROVE  x4' \in Seq(AgentEvents) /\ Len(x4') = Len(x4) + 1 /\ EventsFit'
<1>1. PICK e : e = [task |-> t, status |-> st]
  OBVIOUS
<1>2. x4 \in Seq(AgentEvents) /\ e \in AgentEvents /\ e.task = t /\ x4' = Append(x4, e)
  BY <1>1 DEF AgentInv, RecorderFits, RecorderTypes, AgentEvents, MayEmit, Agent!Emit
<1>3. /\ x4' \in Seq(AgentEvents) /\ Len(x4') = Len(x4) + 1 /\ Len(x4) \in Nat
      /\ \A i \in 1..Len(x4) : x4'[i] = x4[i]
      /\ x4'[Len(x4) + 1] = e
  BY <1>2, AppendProperties
<1>4. ASSUME NEW i \in 1..Len(x4') PROVE i \in 1..Len(x4) \/ i = Len(x4) + 1
  BY <1>3
<1>5. ASSUME NEW u \in Agent!Tasks, x2'[u] = "QUEUED", NEW i \in 1..Len(x4') PROVE x4'[i].task # u
  <2>1. u # t /\ x2[u] = "QUEUED"
    BY <1>5 DEF StatusMoves, Agent!Terminal
  <2>2. \A j \in 1..Len(x4) : x4[j].task # u
    BY <2>1 DEF AgentInv, RecorderFits, EventsFit
  <2> QED BY <1>2, <1>3, <1>4, <2>1, <2>2
<1>6. ASSUME NEW u \in Agent!Phases \X Tools, x2'[u] \in Agent!Terminal
      PROVE  /\ \E i \in 1..Len(x4') : x4'[i].task = u
             /\ \A i, j \in 1..Len(x4') : x4'[i].task = u /\ x4'[j].task = u => i = j
  <2>1. u \in Agent!Tasks
    BY DEF Agent!Tasks
  <2>2. CASE u = t
    <3>1. \A j \in 1..Len(x4) : x4[j].task # u
      BY <2>1, <2>2 DEF MayEmit, AgentInv, RecorderFits, EventsFit
    <3>2. Len(x4) + 1 \in 1..Len(x4')
      BY <1>3
    <3> QED BY <1>2, <1>3, <1>4, <2>2, <3>1, <3>2
  <2>3. CASE u # t
    <3>1. x2[u] \in Agent!Terminal
      BY <1>6, <2>1, <2>3 DEF StatusMoves
    <3>2. /\ \E i \in 1..Len(x4) : x4[i].task = u
          /\ \A i, j \in 1..Len(x4) : x4[i].task = u /\ x4[j].task = u => i = j
      BY <3>1 DEF AgentInv, RecorderFits, EventsFit
    <3>3. 1..Len(x4) \subseteq 1..Len(x4')
      BY <1>3
    <3> QED BY <1>2, <1>3, <1>4, <2>3, <3>2, <3>3
  <2> QED BY <2>2, <2>3
<1> QED BY <1>3, <1>5, <1>6 DEF EventsFit

LEMMA EmitKeeps ==
  ASSUME AgentInv, NEW t, NEW st, NEW refs, MayEmit(t, st), Agent!Emit(t, st, refs)
  PROVE  /\ StatusMoves(t, st) /\ RecorderFits'
         /\ x12' = x12 \/ (x12 = "RUNNING" /\ x12' = "VERIFYING")
<1>1. StatusMoves(t, st) /\ x3' \subseteq Agent!Tasks
  BY EmitMoves
<1>2. x4' \in Seq(AgentEvents) /\ Len(x4') = Len(x4) + 1 /\ EventsFit'
  BY <1>1, EventsKeep
<1>3. LedgerFits' /\ x5' \in Seq(HandOffs)
  BY <1>1, EmitCaptures, LedgerKeeps DEF Appends
<1>4. Len(x4) \in Nat /\ x11 \in 0..MaxLost /\ MaxLost \in Nat
  BY BoundsAssumption DEF AgentInv, RecorderFits, RecorderTypes
<1>5. /\ \/ x10' = x10 \cup {Len(x4) + 1} /\ x11' = x11
         \/ x11 < MaxLost /\ x11' = x11 + 1 /\ x10' = x10
      /\ x12' = x12 \/ (x12 = "RUNNING" /\ x12' = "VERIFYING")
  BY DEF Agent!Emit, Agent!Sink
<1>6. x11' \in 0..MaxLost /\ SinkFits'
  <2>1. x10 \subseteq 1..Len(x4) /\ (x11 = 0 => x10 = 1..Len(x4))
    BY DEF AgentInv, RecorderFits, SinkFits
  <2>2. 1..Len(x4') = 1..Len(x4) \cup {Len(x4) + 1}
    BY <1>2, <1>4
  <2>3. CASE x10' = x10 \cup {Len(x4) + 1} /\ x11' = x11
    <3>1. x10' \subseteq 1..Len(x4') /\ (x11' = 0 => x10' = 1..Len(x4'))
      BY <2>1, <2>2, <2>3
    <3> QED BY <1>4, <2>3, <3>1 DEF SinkFits
  <2>4. CASE x11 < MaxLost /\ x11' = x11 + 1 /\ x10' = x10
    <3>1. x10' \subseteq 1..Len(x4')
      BY <2>1, <2>2, <2>4
    <3>2. x11' \in 0..MaxLost /\ x11' # 0
      BY <1>4, <2>4
    <3> QED BY <3>1, <3>2 DEF SinkFits
  <2> QED BY <1>5, <2>3, <2>4
<1> QED BY <1>1, <1>2, <1>3, <1>5, <1>6 DEF RecorderFits, RecorderTypes, StatusMoves

\* Where the main thread goes on to after t: all that had its turn has ended.
MovesOn(t) ==
  /\ x1' \in Places /\ Clock(x1) \in Nat /\ Clock(x1') \in Nat
  /\ <<"close", "failed">> \notin {x1, x1'}
  /\ Clock(x1) < Clock(x1') /\ Clock(x1') < 20 /\ Turn(t) < Clock(x1')
  /\ \A u \in Agent!Tasks \ {t} : Turn(u) < Clock(x1') => x2[u] \in Agent!Terminal

LEMMA MovedOn ==
  ASSUME AgentInv, NEW t, NEW st, MayEmit(t, st), StatusMoves(t, st), MovesOn(t),
         x12' = x12 \/ (x12 = "RUNNING" /\ x12' = "VERIFYING")
  PROVE  InTurn' /\ FateFits' /\ x12' \in {"RUNNING", "VERIFYING"}
<1>1. \A u \in Agent!Tasks : Turn(u) \in Nat
  BY TurnRange
<1>2. ASSUME NEW u \in Agent!Tasks, Turn(u) < Clock(x1') PROVE x2'[u] \in Agent!Terminal
  BY <1>2 DEF StatusMoves, MovesOn
<1>3. ASSUME NEW u \in Agent!Tasks, Turn(u) > Clock(x1') \/ Turn(u) = Clock(x1') PROVE x2'[u] = "QUEUED"
  <2>1. Turn(u) > Clock(x1) /\ u # t
    BY <1>1, <1>3 DEF MovesOn
  <2> QED BY <2>1 DEF StatusMoves, AgentInv, InTurn
<1>4. x12 \in {"RUNNING", "VERIFYING"}
  BY DEF MovesOn, AgentInv, FateFits
<1>5. FateFits'
  BY <1>4 DEF MovesOn, FateFits
<1> QED BY <1>2, <1>3, <1>4, <1>5 DEF InTurn

LEMMA JudgmentsKeep ==
  ASSUME AgentInv, NEW t, NEW st, StatusMoves(t, st), x9' = x9, Clock(x1) <= Clock(x1'),
         Clock(x1) \in Nat, Clock(x1') \in Nat
  PROVE  JudgmentsFit'
<1>1. ASSUME NEW ph \in Agent!Phases, x9[ph] # "NONE" PROVE Clock(x1') > Base(ph) + 8
  <2>1. Clock(x1) > Base(ph) + 8 /\ Base(ph) \in Nat
    BY <1>1, Bases DEF AgentInv, JudgmentsFit, Agent!Phases
  <2> QED BY <2>1
<1>2. ASSUME NEW ph \in Agent!Phases, x9[ph] = "PASS", NEW k \in Tools PROVE x2'[<<ph, k>>] = "SUCCESS"
  <2>1. x2[<<ph, k>>] = "SUCCESS" /\ <<ph, k>> \in Agent!Tasks
    BY <1>2, TurnOfTool DEF AgentInv, JudgmentsFit
  <2> QED BY <2>1 DEF StatusMoves, Agent!Terminal
<1> QED BY <1>1, <1>2 DEF JudgmentsFit

\* A step that only emits: the pool and the judgments stay.
LEMMA Advanced ==
  ASSUME AgentInv, NEW t, NEW st, NEW refs, MayEmit(t, st), Agent!Emit(t, st, refs), MovesOn(t),
         x1'[2] # "tools", UNCHANGED <<x6, x7, x8, x9>>
  PROVE  AgentInv'
<1>1. /\ StatusMoves(t, st) /\ RecorderFits'
      /\ x12' = x12 \/ (x12 = "RUNNING" /\ x12' = "VERIFYING")
  BY EmitKeeps
<1>2. InTurn' /\ FateFits' /\ x12' \in {"RUNNING", "VERIFYING"}
  BY <1>1, MovedOn
<1>3. RestTypes' /\ PoolFits'
  BY <1>2 DEF AgentInv, RestTypes, PoolFits, MovesOn
<1>4. JudgmentsFit'
  BY <1>1, JudgmentsKeep DEF MovesOn
<1> QED BY <1>1, <1>2, <1>3, <1>4 DEF AgentInv

LEMMA ClockOfPlace ==
  /\ \A ph \in Agent!Phases :
       /\ Clock(<<ph, "intake">>) = Base(ph) + 1 /\ Clock(<<ph, "route">>) = Base(ph) + 2
       /\ Clock(<<ph, "memory">>) = Base(ph) + 3 /\ Clock(<<ph, "plan">>) = Base(ph) + 4
       /\ Clock(<<ph, "tools">>) = Base(ph) + 5 /\ Clock(<<ph, "opinions">>) = Base(ph) + 7
       /\ Clock(<<ph, "judge">>) = Base(ph) + 8
       /\ Base(ph) \in Nat /\ Base(ph) <= 9
       /\ {<<ph, s>> : s \in {"intake", "route", "memory", "plan", "tools", "opinions", "judge"}} \subseteq Places
  /\ Clock(<<"system", "repair">>) = 9 /\ Clock(<<"system", "delivery">>) = 18
  /\ Clock(<<"close", "check">>) = 19 /\ Clock(<<"close", "reconcile">>) = 20
  /\ Clock(<<"close", "end">>) = 21 /\ Clock(<<"close", "failed">>) = 9
  /\ System \cup Agent!Closing \subseteq Places
<1>1. ASSUME NEW ph \in Agent!Phases
      PROVE  ph # "close" /\ ph # "system" /\ Base(ph) \in Nat /\ Base(ph) <= 9
  BY Bases DEF Agent!Phases
<1>2. ASSUME NEW ph \in Agent!Phases
      PROVE  /\ Clock(<<ph, "intake">>) = Base(ph) + 1 /\ Clock(<<ph, "route">>) = Base(ph) + 2
             /\ Clock(<<ph, "memory">>) = Base(ph) + 3 /\ Clock(<<ph, "plan">>) = Base(ph) + 4
             /\ Clock(<<ph, "tools">>) = Base(ph) + 5 /\ Clock(<<ph, "opinions">>) = Base(ph) + 7
             /\ Clock(<<ph, "judge">>) = Base(ph) + 8
  BY <1>1 DEF Clock, StepTurn, Agent!Steps
<1>3. ASSUME NEW ph \in Agent!Phases
      PROVE  {<<ph, s>> : s \in {"intake", "route", "memory", "plan", "tools", "opinions", "judge"}} \subseteq Places
  BY DEF Places, Agent!Steps
<1>4. /\ Clock(<<"system", "repair">>) = 9 /\ Clock(<<"system", "delivery">>) = 18
      /\ Clock(<<"close", "check">>) = 19 /\ Clock(<<"close", "reconcile">>) = 20
      /\ Clock(<<"close", "end">>) = 21 /\ Clock(<<"close", "failed">>) = 9
  BY DEF Clock
<1>5. System \cup Agent!Closing \subseteq Places
  BY DEF Places
<1> QED BY <1>1, <1>2, <1>3, <1>4, <1>5

\* A task of the main thread, when its turn has come.
LEMMA TurnCame ==
  ASSUME AgentInv, NEW t \in Agent!Tasks, x1 = t, Clock(t) = Turn(t), t[2] # "tools", NEW st \in Agent!Terminal
  PROVE  MayEmit(t, st)
<1>1. x2[t] = "QUEUED"
  BY DEF AgentInv, InTurn
<1>2. \A s \in Agent!Dependencies(t) : x2[s] \in Agent!Terminal
  BY Dependent DEF DependsEarlier, AgentInv, InTurn
<1> QED BY <1>1, <1>2 DEF MayEmit

LEMMA TurnGone ==
  ASSUME AgentInv, NEW t \in Agent!Tasks, x1 = t, Clock(t) = Turn(t), Turn(t) \notin {5, 14},
         x1' \in Places, x1'[2] # "failed", Clock(x1') = Turn(t) + 1, Turn(t) < 19
  PROVE  MovesOn(t)
<1>1. Turn(t) \in Nat /\ Clock(x1) = Turn(t)
  BY TurnRange
<1>2. ASSUME NEW u \in Agent!Tasks \ {t}, Turn(u) < Clock(x1') PROVE x2[u] \in Agent!Terminal
  <2>1. Turn(u) \in Nat /\ Turn(u) # Turn(t)
    BY <1>2, TurnRange, TurnIsOwn
  <2>2. Turn(u) < Clock(x1)
    BY <1>1, <1>2, <2>1
  <2> QED BY <2>2 DEF AgentInv, InTurn
<1>3. x1 # <<"close", "failed">> /\ x1' # <<"close", "failed">>
  BY DEF Agent!Tasks, Agent!Phases
<1> QED BY <1>1, <1>2, <1>3 DEF MovesOn

LEMMA PhasesAre == \A ph \in Agent!Phases : ph \in {"initial", "verification"} /\ Base(ph) = (IF ph = "initial" THEN 0 ELSE 9)
BY DEF Agent!Phases, Base

\* A task of the main thread that emits and goes on.
LEMMA StepWalks ==
  ASSUME AgentInv, NEW t \in Agent!Tasks, x1 = t, Clock(t) = Turn(t), t[2] # "tools", Turn(t) \notin {5, 14},
         NEW st \in Agent!Terminal, NEW refs, Agent!Emit(t, st, refs),
         x1' \in Places, x1'[2] \notin {"tools", "failed"}, Clock(x1') = Turn(t) + 1, UNCHANGED <<x6, x7, x8, x9>>
  PROVE  AgentInv'
<1>1. MayEmit(t, st)
  BY TurnCame
<1>2. Turn(t) < 19
  BY TurnRange
<1>3. MovesOn(t)
  BY <1>2, TurnGone
<1> QED BY <1>1, <1>3, Advanced

LEMMA IntakeKeeps ==
  ASSUME AgentInv, NEW ph \in Agent!Phases, Agent!Intake(ph) \/ Agent!Route(ph) \/ Agent!Memory(ph)
  PROVE  AgentInv'
<1>1. /\ Turn(<<ph, "intake">>) = Base(ph) + 1 /\ <<ph, "intake">> \in Agent!Tasks
      /\ Turn(<<ph, "route">>) = Base(ph) + 2 /\ <<ph, "route">> \in Agent!Tasks
      /\ Turn(<<ph, "memory">>) = Base(ph) + 3 /\ <<ph, "memory">> \in Agent!Tasks
  BY TurnOfStep
<1>2. /\ Clock(<<ph, "intake">>) = Base(ph) + 1 /\ Clock(<<ph, "route">>) = Base(ph) + 2
      /\ Clock(<<ph, "memory">>) = Base(ph) + 3 /\ Clock(<<ph, "plan">>) = Base(ph) + 4
  BY ClockOfPlace
<1>3. {<<ph, "route">>, <<ph, "memory">>, <<ph, "plan">>} \subseteq Places
  BY ClockOfPlace
<1>4. Base(ph) = 0 \/ Base(ph) = 9
  BY PhasesAre
<1>5. {"SUCCESS", "WARNING"} \subseteq Agent!Terminal
  BY DEF Agent!Terminal
<1>6. CASE Agent!Intake(ph)
  <2> DEFINE t == <<ph, "intake">>
  <2>1. x1 = t /\ x1' = <<ph, "route">> /\ Agent!Emit(x1, "SUCCESS", TRUE) /\ UNCHANGED <<x6, x7, x8, x9>>
    BY <1>6 DEF Agent!Intake, Agent!pool
  <2>2. Clock(t) = Turn(t) /\ Clock(x1') = Turn(t) + 1 /\ Turn(t) \notin {5, 14} /\ t \in Agent!Tasks
    BY <1>1, <1>2, <1>4, <2>1
  <2>3. x1' \in Places /\ x1'[2] \notin {"tools", "failed"} /\ t[2] # "tools"
    BY <1>3, <2>1
  <2> QED BY <1>5, <2>1, <2>2, <2>3, StepWalks
<1>7. CASE Agent!Route(ph)
  <2> DEFINE t == <<ph, "route">>
  <2>1. x1 = t /\ x1' = <<ph, "memory">> /\ Agent!Emit(x1, "SUCCESS", TRUE) /\ UNCHANGED <<x6, x7, x8, x9>>
    BY <1>7 DEF Agent!Route, Agent!pool
  <2>2. Clock(t) = Turn(t) /\ Clock(x1') = Turn(t) + 1 /\ Turn(t) \notin {5, 14} /\ t \in Agent!Tasks
    BY <1>1, <1>2, <1>4, <2>1
  <2>3. x1' \in Places /\ x1'[2] \notin {"tools", "failed"} /\ t[2] # "tools"
    BY <1>3, <2>1
  <2> QED BY <1>5, <2>1, <2>2, <2>3, StepWalks
<1>8. CASE Agent!Memory(ph)
  <2> DEFINE t == <<ph, "memory">>
  <2>1. PICK st \in {"SUCCESS", "WARNING"} : Agent!Emit(x1, st, TRUE)
    BY <1>8 DEF Agent!Memory
  <2>2. x1 = t /\ x1' = <<ph, "plan">> /\ UNCHANGED <<x6, x7, x8, x9>>
    BY <1>8 DEF Agent!Memory, Agent!pool
  <2>3. Clock(t) = Turn(t) /\ Clock(x1') = Turn(t) + 1 /\ Turn(t) \notin {5, 14} /\ t \in Agent!Tasks
    BY <1>1, <1>2, <1>4, <2>2
  <2>4. x1' \in Places /\ x1'[2] \notin {"tools", "failed"} /\ t[2] # "tools" /\ st \in Agent!Terminal
    BY <1>3, <1>5, <2>2
  <2> QED BY <2>1, <2>2, <2>3, <2>4, StepWalks
<1> QED BY <1>6, <1>7, <1>8

LEMMA RepairKeeps ==
  ASSUME AgentInv, Agent!Repair \/ Agent!Delivery
  PROVE  AgentInv'
<1>1. \A ph \in Agent!Phases : Clock(<<ph, "intake">>) = Base(ph) + 1 /\ <<ph, "intake">> \in Places
  BY ClockOfPlace
<1>2. Clock(<<"verification", "intake">>) = 10 /\ <<"verification", "intake">> \in Places
  BY <1>1, PhasesAre DEF Agent!Phases
<1>3. CASE Agent!Repair
  <2> DEFINE t == <<"system", "repair">>
  <2>1. PICK st : st = IF x9["initial"] = "INVESTIGATE" THEN "WARNING" ELSE "SUCCESS"
    OBVIOUS
  <2>2. x1 = t /\ x1' = <<"verification", "intake">> /\ Agent!Emit(t, st, TRUE) /\ UNCHANGED <<x6, x7, x8, x9>>
    BY <1>3, <2>1 DEF Agent!Repair, Agent!pool
  <2>3. Turn(t) = 9 /\ t \in Agent!Tasks /\ Clock(t) = 9 /\ Clock(x1') = 10 /\ x1' \in Places
    BY <1>2, <2>2, TurnOfSystem, ClockOfPlace
  <2>4. x1'[2] \notin {"tools", "failed"} /\ t[2] # "tools" /\ st \in Agent!Terminal
    BY <2>1, <2>2 DEF Agent!Terminal
  <2>5. Clock(t) = Turn(t) /\ Clock(x1') = Turn(t) + 1 /\ Turn(t) \notin {5, 14}
    BY <2>3
  <2> HIDE DEF t
  <2> QED BY <2>2, <2>3, <2>4, <2>5, StepWalks
<1>4. CASE Agent!Delivery
  <2> DEFINE t == <<"system", "delivery">>
  <2>1. x1 = t /\ x1' = <<"close", "check">> /\ Agent!Emit(x1, "SUCCESS", TRUE) /\ UNCHANGED <<x6, x7, x8, x9>>
    BY <1>4 DEF Agent!Delivery, Agent!pool
  <2>2. Turn(t) = 18 /\ t \in Agent!Tasks /\ Clock(t) = 18 /\ Clock(x1') = 19
    BY <2>1, TurnOfSystem, ClockOfPlace
  <2>3. x1' \in Places
    BY <2>1, ClockOfPlace DEF Agent!Closing
  <2>4. x1'[2] \notin {"tools", "failed"} /\ t[2] # "tools" /\ "SUCCESS" \in Agent!Terminal
    BY <2>1 DEF Agent!Terminal
  <2>5. Clock(t) = Turn(t) /\ Clock(x1') = Turn(t) + 1 /\ Turn(t) \notin {5, 14}
    BY <2>2
  <2> HIDE DEF t
  <2> QED BY <2>1, <2>2, <2>3, <2>4, <2>5, StepWalks
<1> QED BY <1>3, <1>4

LEMMA RecorderStays == AgentInv /\ UNCHANGED <<x2, x3, x4, x5, x10, x11>> => RecorderFits'
<1> SUFFICES ASSUME AgentInv, UNCHANGED <<x2, x3, x4, x5, x10, x11>> PROVE RecorderFits'
  OBVIOUS
<1>1. RecorderTypes' /\ SinkFits'
  BY DEF AgentInv, RecorderFits, RecorderTypes, SinkFits
<1>2. LedgerFits'
  BY DEF AgentInv, RecorderFits, LedgerFits, HandsOff
<1>3. EventsFit'
  BY DEF AgentInv, RecorderFits, EventsFit
<1> QED BY <1>1, <1>2, <1>3 DEF RecorderFits

\* Where the repair fails nothing has had its turn that has not ended before.
LEMMA RepairFailsKeeps ==
  ASSUME AgentInv, Agent!RepairFails
  PROVE  AgentInv'
<1>1. /\ x1 = <<"system", "repair">> /\ x1' = <<"close", "failed">> /\ x12' = "FAILED"
      /\ UNCHANGED <<x2, x3, x4, x5, x6, x7, x8, x9, x10, x11>>
  BY DEF Agent!RepairFails, Agent!pool
<1>2. Clock(x1) = 9 /\ Clock(x1') = 9 /\ x1' \in Places /\ x1[2] # "tools" /\ x1'[2] # "tools"
  BY <1>1, ClockOfPlace DEF Agent!Closing
<1>3. RecorderFits'
  BY <1>1, RecorderStays
<1>4. InTurn'
  BY <1>1, <1>2 DEF AgentInv, InTurn
<1>5. RestTypes' /\ PoolFits' /\ FateFits'
  BY <1>1, <1>2 DEF AgentInv, RestTypes, PoolFits, FateFits
<1>6. JudgmentsFit'
  BY <1>1, <1>2 DEF AgentInv, JudgmentsFit
<1> QED BY <1>3, <1>4, <1>5, <1>6 DEF AgentInv

LEMMA CouncilKeeps ==
  ASSUME AgentInv, NEW ph \in Agent!Phases, Agent!Council(ph) \/ Agent!Opinion(ph)
  PROVE  AgentInv'
<1> DEFINE t == <<ph, "council">>
<1>1. /\ Turn(t) = Base(ph) + 6 /\ t \in Agent!Tasks /\ Base(ph) \in Nat
      /\ Clock(<<ph, "tools">>) = Base(ph) + 5 /\ Clock(<<ph, "opinions">>) = Base(ph) + 7
      /\ Clock(<<ph, "judge">>) = Base(ph) + 8
      /\ <<ph, "opinions">> \in Places /\ <<ph, "judge">> \in Places
      /\ Base(ph) = 0 \/ Base(ph) = 9
  BY TurnOfStep, ClockOfPlace, PhasesAre
<1>2. "council" \notin Tools
  BY ToolsAssumption DEF Agent!Steps
<1>3. CASE Agent!Council(ph)
  <2>1. PICK st \in Agent!Terminal : Agent!Emit(t, st, TRUE)
    BY <1>3 DEF Agent!Council, Agent!Terminal
  <2>2. /\ x1 = <<ph, "tools">> /\ x1' = <<ph, "opinions">> /\ UNCHANGED <<x6, x7, x8, x9>>
        /\ \A k \in Tools : x2[<<ph, k>>] \in Agent!Terminal
    BY <1>3 DEF Agent!Council, Agent!ToolsDone, Agent!pool
  <2>3. x2[t] = "QUEUED"
    BY <1>1, <2>2 DEF AgentInv, InTurn
  <2>4. \A s \in Agent!Dependencies(t) : x2[s] \in Agent!Terminal
    <3>1. Agent!Dependencies(t) = {<<ph, k>> : k \in Tools}
      BY DependenciesOf
    <3> QED BY <2>2, <3>1
  <2>5. MayEmit(t, st)
    BY <1>1, <2>3, <2>4 DEF MayEmit
  <2>6. ASSUME NEW u \in Agent!Tasks \ {t}, Turn(u) < Base(ph) + 7 PROVE x2[u] \in Agent!Terminal
    <3>1. Turn(u) \in Nat /\ Turn(u) # Base(ph) + 6
      BY <1>1, TurnIsOwn, TurnRange
    <3>2. CASE Turn(u) < Base(ph) + 5
      BY <1>1, <2>2, <3>2 DEF AgentInv, InTurn
    <3>3. CASE Turn(u) = Base(ph) + 5
      <4>1. StepOf(u)
        BY StepOfTask
      <4>2. \E k \in Tools : u = <<ph, k>>
        <5>1. ASSUME NEW p \in Agent!Phases, NEW n \in {1, 2, 3, 4, 6, 8}, Turn(u) = Base(p) + n PROVE FALSE
          BY <3>3, <5>1, PhasesAre
        <5>2. ASSUME NEW p \in Agent!Phases, NEW k \in Tools, u = <<p, k>>, Turn(u) = Base(p) + 5
              PROVE  p = ph
          BY <3>3, <5>2, PhasesAre
        <5>3. Turn(u) # 9 /\ Turn(u) # 18
          BY <1>1, <3>3
        <5> QED BY <4>1, <5>1, <5>2, <5>3 DEF StepOf
      <4> QED BY <2>2, <4>2
    <3> QED BY <1>1, <2>6, <3>1, <3>2, <3>3
  <2>7. MovesOn(t)
    BY <1>1, <2>2, <2>6, PhasesAre DEF MovesOn
  <2>8. x1'[2] \notin {"tools", "failed"}
    BY <2>2
  <2> QED BY <2>1, <2>2, <2>5, <2>7, <2>8, Advanced
<1>4. CASE Agent!Opinion(ph)
  <2>1. PICK refs : Agent!Emit(t, x2[t], refs)
    BY <1>4 DEF Agent!Opinion
  <2>2. x1 = <<ph, "opinions">> /\ x1' = <<ph, "judge">> /\ UNCHANGED <<x6, x7, x8, x9>>
    BY <1>4 DEF Agent!Opinion, Agent!pool
  <2>3. x2[t] \in Agent!Terminal
    BY <1>1, <2>2 DEF AgentInv, InTurn
  <2>4. \A s \in Agent!Dependencies(t) : x2[s] \in Agent!Terminal
    <3>1. ASSUME NEW s \in Agent!Dependencies(t) PROVE s \in Agent!Tasks /\ Turn(s) \in Nat /\ Turn(s) < Turn(t)
      BY <1>1, Dependent, TurnRange DEF DependsEarlier
    <3>2. ASSUME NEW s \in Agent!Dependencies(t) PROVE Turn(s) < Clock(x1)
      BY <1>1, <2>2, <3>1
    <3> QED BY <3>1, <3>2 DEF AgentInv, InTurn
  <2>5. t \notin Agent!Phases \X Tools
    BY <1>2
  <2>6. MayEmit(t, x2[t])
    BY <1>1, <2>3, <2>4, <2>5 DEF MayEmit
  <2>7. ASSUME NEW u \in Agent!Tasks \ {t}, Turn(u) < Base(ph) + 8 PROVE x2[u] \in Agent!Terminal
    <3>1. Turn(u) \in Nat /\ Turn(u) # Base(ph) + 7
      BY <1>1, TurnRange
    <3>2. Turn(u) < Clock(x1)
      BY <1>1, <2>2, <2>7, <3>1
    <3> QED BY <3>2 DEF AgentInv, InTurn
  <2>8. MovesOn(t)
    BY <1>1, <2>2, <2>7, PhasesAre DEF MovesOn
  <2>9. x1'[2] \notin {"tools", "failed"}
    BY <2>2
  <2> QED BY <2>1, <2>2, <2>6, <2>8, <2>9, Advanced
<1> QED BY <1>3, <1>4

LEMMA PlanKeeps ==
  ASSUME AgentInv, NEW ph \in Agent!Phases, Agent!Plan(ph)
  PROVE  AgentInv'
<1> DEFINE t == <<ph, "plan">>
<1>1. PICK S \in SUBSET Tools :
        /\ Agent!Emit(x1, "SUCCESS", S # {}) /\ x6' = S
        /\ x7' = [k \in Tools |-> IF k \in S THEN "RUNNING" ELSE "IDLE"]
  BY DEF Agent!Plan
<1>2. x1 = t /\ x1' = <<ph, "tools">> /\ x8' = [k \in Tools |-> 0] /\ x9' = x9
  BY DEF Agent!Plan
<1>3. /\ Turn(t) = Base(ph) + 4 /\ t \in Agent!Tasks /\ Clock(t) = Base(ph) + 4
      /\ Clock(<<ph, "tools">>) = Base(ph) + 5 /\ <<ph, "tools">> \in Places
      /\ Base(ph) = 0 \/ Base(ph) = 9
  BY TurnOfStep, ClockOfPlace, PhasesAre
<1>4. MayEmit(t, "SUCCESS")
  <2>1. "SUCCESS" \in Agent!Terminal /\ t[2] # "tools" /\ Clock(t) = Turn(t)
    BY <1>3 DEF Agent!Terminal
  <2> QED BY <1>2, <1>3, <2>1, TurnCame
<1>5. MovesOn(t)
  <2>1. /\ Turn(t) \notin {5, 14} /\ Turn(t) < 19 /\ Clock(x1') = Turn(t) + 1 /\ x1' \in Places /\ Clock(t) = Turn(t)
        /\ x1'[2] # "failed"
    BY <1>2, <1>3
  <2> QED BY <1>2, <1>3, <2>1, TurnGone
<1>6. /\ StatusMoves(t, "SUCCESS") /\ RecorderFits'
      /\ x12' = x12 \/ (x12 = "RUNNING" /\ x12' = "VERIFYING")
  BY <1>1, <1>2, <1>4, EmitKeeps
<1>7. InTurn' /\ FateFits' /\ x12' \in {"RUNNING", "VERIFYING"}
  BY <1>4, <1>5, <1>6, MovedOn
<1>8. JudgmentsFit'
  BY <1>2, <1>5, <1>6, JudgmentsKeep DEF MovesOn
<1>9. ASSUME NEW k \in Tools PROVE x2'[<<ph, k>>] = "QUEUED"
  <2>1. Turn(<<ph, k>>) = Base(ph) + 5 /\ <<ph, k>> \in Agent!Tasks
    BY TurnOfTool
  <2>2. Turn(<<ph, k>>) > Clock(x1) /\ <<ph, k>> # t
    BY <1>2, <1>3, <2>1
  <2> QED BY <1>6, <2>1, <2>2 DEF StatusMoves, AgentInv, InTurn
<1>10. PoolFits'
  BY <1>1, <1>2, <1>9, BoundsAssumption DEF PoolFits
<1>11. RestTypes'
  BY <1>1, <1>2, <1>3, <1>7, BoundsAssumption DEF RestTypes, AgentInv
<1> QED BY <1>6, <1>7, <1>8, <1>10, <1>11 DEF AgentInv

\* A pool thread calls a tool: only the pool changes.
LEMMA CallKeeps ==
  ASSUME AgentInv, NEW k \in Tools, Agent!CallTool(k)
  PROVE  AgentInv'
<1>1. /\ UNCHANGED <<x1, x2, x3, x4, x5, x6, x9, x10, x11, x12>> /\ x7[k] = "RUNNING"
      /\ x8' = [x8 EXCEPT ![k] = x8[k] + 1]
  BY DEF Agent!CallTool, Agent!recorder
<1>2. RecorderFits'
  BY <1>1, RecorderStays
<1>3. InTurn' /\ JudgmentsFit' /\ FateFits'
  BY <1>1 DEF AgentInv, InTurn, JudgmentsFit, FateFits
<1>4. PICK w \in {"OK", "ERROR", "RUNNING"} :
        x7' = [x7 EXCEPT ![k] = w] /\ (w = "RUNNING" => x8[k] < Retries)
  BY DEF Agent!CallTool, Agent!MayRetry
<1>5. /\ x8[k] \in 0..(Retries + 1) /\ x8[k] <= Retries /\ Retries \in Nat
      /\ x8 \in [Tools -> 0..(Retries + 1)]
      /\ x7 \in [Tools -> {"IDLE", "RUNNING", "OK", "ERROR", "COLLECTED"}]
  BY <1>1, BoundsAssumption DEF AgentInv, RestTypes, PoolFits
<1>6. x8'[k] = x8[k] + 1 /\ x8' \in [Tools -> 0..(Retries + 1)] /\ \A j \in Tools \ {k} : x8'[j] = x8[j]
  BY <1>1, <1>5
<1>7. /\ x7'[k] = w /\ x7' \in [Tools -> {"IDLE", "RUNNING", "OK", "ERROR", "COLLECTED"}]
      /\ \A j \in Tools \ {k} : x7'[j] = x7[j]
  BY <1>4, <1>5
<1>8. RestTypes'
  BY <1>1, <1>6, <1>7 DEF AgentInv, RestTypes
<1>9. ASSUME NEW j \in Tools
      PROVE  /\ x7'[j] = "RUNNING" => x8'[j] <= Retries
             /\ x7'[j] \in {"RUNNING", "OK", "ERROR"} /\ x1[2] = "tools" => j \in x6 /\ x2[<<x1[1], j>>] = "QUEUED"
  <2>1. CASE j = k
    BY <1>1, <1>4, <1>5, <1>6, <1>7, <2>1 DEF AgentInv, PoolFits
  <2>2. CASE j # k
    BY <1>6, <1>7, <2>2 DEF AgentInv, PoolFits
  <2> QED BY <2>1, <2>2
<1>10. PoolFits'
  BY <1>1, <1>9 DEF PoolFits
<1> QED BY <1>2, <1>3, <1>8, <1>10 DEF AgentInv

\* A tool ends, in its pass and while its task is queued.
LEMMA ToolEnds ==
  ASSUME AgentInv, NEW ph \in Agent!Phases, NEW k \in Tools, x1 = <<ph, "tools">>, UNCHANGED <<x1, x6, x8, x9>>,
         x2[<<ph, k>>] = "QUEUED", NEW st \in Agent!Terminal, NEW refs, Agent!Emit(<<ph, k>>, st, refs),
         x7' \in [Tools -> {"IDLE", "RUNNING", "OK", "ERROR", "COLLECTED"}],
         x7'[k] \notin {"RUNNING", "OK", "ERROR"}, \A j \in Tools \ {k} : x7'[j] = x7[j]
  PROVE  AgentInv'
<1> DEFINE t == <<ph, k>>
<1>1. Turn(t) = Base(ph) + 5 /\ t \in Agent!Tasks /\ Clock(x1) = Base(ph) + 5 /\ (Base(ph) = 0 \/ Base(ph) = 9)
  BY TurnOfTool, ClockOfPlace, PhasesAre
<1>2. \A s \in Agent!Dependencies(t) : x2[s] \in Agent!Terminal
  <2>1. \A s \in Agent!Dependencies(t) : s \in Agent!Tasks /\ Turn(s) < Clock(x1)
    BY <1>1, Dependent DEF DependsEarlier
  <2> QED BY <2>1 DEF AgentInv, InTurn
<1>3. MayEmit(t, st)
  BY <1>1, <1>2 DEF MayEmit
<1>4. /\ StatusMoves(t, st) /\ RecorderFits'
      /\ x12' = x12 \/ (x12 = "RUNNING" /\ x12' = "VERIFYING")
  BY <1>3, EmitKeeps
<1>5. x12 \in {"RUNNING", "VERIFYING"} /\ x12' \in {"RUNNING", "VERIFYING"}
  BY <1>1, <1>4 DEF AgentInv, FateFits
<1>6. FateFits'
  BY <1>1, <1>5 DEF FateFits
<1>7. ASSUME NEW u \in Agent!Tasks
      PROVE  /\ Turn(u) < Clock(x1) => x2'[u] \in Agent!Terminal
             /\ Turn(u) > Clock(x1) => x2'[u] = "QUEUED"
  <2>1. Turn(u) \in Nat
    BY TurnRange
  <2> QED BY <1>1, <1>4, <2>1 DEF StatusMoves, AgentInv, InTurn
<1>8. InTurn'
  BY <1>7 DEF InTurn
<1>9. JudgmentsFit'
  BY <1>1, <1>4, JudgmentsKeep
<1>10. RestTypes'
  BY <1>5 DEF AgentInv, RestTypes
<1>11. ASSUME NEW j \in Tools
       PROVE  /\ x7'[j] = "RUNNING" => x8[j] <= Retries
              /\ x7'[j] \in {"RUNNING", "OK", "ERROR"} => j \in x6 /\ x2'[<<ph, j>>] = "QUEUED"
  <2>1. CASE j = k
    BY <2>1
  <2>2. CASE j # k
    <3>1. <<ph, j>> \in Agent!Tasks /\ <<ph, j>> # t
      BY <2>2, TurnOfTool
    <3>2. x7'[j] = x7[j] /\ x1[1] = ph /\ x1[2] = "tools"
      BY <2>2
    <3> QED BY <1>4, <3>1, <3>2 DEF StatusMoves, AgentInv, PoolFits
  <2> QED BY <2>1, <2>2
<1>12. PoolFits'
  BY <1>11 DEF PoolFits
<1> QED BY <1>4, <1>6, <1>8, <1>9, <1>10, <1>12 DEF AgentInv

LEMMA CollectKeeps ==
  ASSUME AgentInv, NEW ph \in Agent!Phases, NEW k \in Tools, Agent!CollectTool(ph, k) \/ Agent!SkipTool(ph, k)
  PROVE  AgentInv'
<1>1. x7 \in [Tools -> {"IDLE", "RUNNING", "OK", "ERROR", "COLLECTED"}] /\ {"SUCCESS", "ERROR", "SKIPPED"} \subseteq Agent!Terminal
  BY DEF AgentInv, RestTypes, Agent!Terminal
<1>2. CASE Agent!CollectTool(ph, k)
  <2>1. /\ x1 = <<ph, "tools">> /\ x7[k] \in {"OK", "ERROR"} /\ UNCHANGED <<x1, x6, x8, x9>>
        /\ x7' = [x7 EXCEPT ![k] = "COLLECTED"]
        /\ Agent!Emit(<<ph, k>>, "SUCCESS", TRUE) \/ Agent!Emit(<<ph, k>>, "ERROR", FALSE)
    BY <1>2 DEF Agent!CollectTool
  <2>2. x2[<<ph, k>>] = "QUEUED"
    BY <2>1 DEF AgentInv, PoolFits
  <2>3. /\ x7' \in [Tools -> {"IDLE", "RUNNING", "OK", "ERROR", "COLLECTED"}]
        /\ x7'[k] \notin {"RUNNING", "OK", "ERROR"} /\ \A j \in Tools \ {k} : x7'[j] = x7[j]
    BY <1>1, <2>1
  <2> QED BY <1>1, <2>1, <2>2, <2>3, ToolEnds
<1>3. CASE Agent!SkipTool(ph, k)
  <2>1. /\ x1 = <<ph, "tools">> /\ k \notin x6 /\ UNCHANGED <<x1, x6, x7, x8, x9>>
        /\ x2[<<ph, k>>] = "QUEUED" /\ Agent!Emit(<<ph, k>>, "SKIPPED", FALSE)
    BY <1>3 DEF Agent!SkipTool, Agent!pool
  <2>2. x7[k] \notin {"RUNNING", "OK", "ERROR"}
    BY <2>1 DEF AgentInv, PoolFits
  <2> QED BY <1>1, <2>1, <2>2, ToolEnds
<1> QED BY <1>2, <1>3

LEMMA JudgeKeeps ==
  ASSUME AgentInv, NEW ph \in Agent!Phases, Agent!Judge(ph)
  PROVE  AgentInv'
<1> DEFINE t == <<ph, "judge">>
<1>1. PICK d \in {"PASS", "BLOCKED", "INVESTIGATE"} :
        /\ (d # "INVESTIGATE") => \A k \in Tools : x2[<<ph, k>>] = "SUCCESS"
        /\ x9' = [x9 EXCEPT ![ph] = d]
  BY DEF Agent!Judge
<1>2. /\ x1 = t /\ Agent!Emit(t, "SUCCESS", TRUE) /\ UNCHANGED <<x6, x7, x8>>
      /\ x1' = IF ph = "initial" THEN <<"system", "repair">> ELSE <<"system", "delivery">>
  BY DEF Agent!Judge, Agent!pool
<1>3. /\ Turn(t) = Base(ph) + 8 /\ t \in Agent!Tasks /\ Clock(t) = Base(ph) + 8
      /\ ph \in {"initial", "verification"} /\ Base(ph) = (IF ph = "initial" THEN 0 ELSE 9)
  BY TurnOfStep, ClockOfPlace, PhasesAre
<1>4. Clock(x1') = Base(ph) + 9 /\ x1' \in Places /\ x1'[2] \notin {"tools", "failed"}
  <2>1. Clock(<<"system", "repair">>) = 9 /\ Clock(<<"system", "delivery">>) = 18
    BY ClockOfPlace
  <2> QED BY <1>2, <1>3, <2>1 DEF Places, System
<1>5. MayEmit(t, "SUCCESS")
  <2>1. "SUCCESS" \in Agent!Terminal /\ t[2] # "tools" /\ Clock(t) = Turn(t)
    BY <1>3 DEF Agent!Terminal
  <2> QED BY <1>2, <1>3, <2>1, TurnCame
<1>6. MovesOn(t)
  <2>1. Turn(t) \notin {5, 14} /\ Turn(t) < 19 /\ Clock(x1') = Turn(t) + 1 /\ Clock(t) = Turn(t)
    BY <1>3, <1>4
  <2> QED BY <1>2, <1>3, <1>4, <2>1, TurnGone
<1>7. /\ StatusMoves(t, "SUCCESS") /\ RecorderFits'
      /\ x12' = x12 \/ (x12 = "RUNNING" /\ x12' = "VERIFYING")
  BY <1>2, <1>5, EmitKeeps
<1>8. InTurn' /\ FateFits' /\ x12' \in {"RUNNING", "VERIFYING"}
  BY <1>5, <1>6, <1>7, MovedOn
<1>9. /\ x9'[ph] = d /\ x9' \in [Agent!Phases -> {"NONE", "PASS", "BLOCKED", "INVESTIGATE"}]
      /\ \A p \in Agent!Phases \ {ph} : x9'[p] = x9[p]
  BY <1>1 DEF AgentInv, RestTypes
<1>10. RestTypes' /\ PoolFits'
  BY <1>2, <1>4, <1>8, <1>9 DEF AgentInv, RestTypes, PoolFits
<1>11. ASSUME NEW p \in Agent!Phases, x9'[p] # "NONE"
       PROVE  /\ Clock(x1') > Base(p) + 8
              /\ x9'[p] = "PASS" => \A k \in Tools : x2'[<<p, k>>] = "SUCCESS"
  <2>1. x9'[p] = "PASS" => \A k \in Tools : x2[<<p, k>>] = "SUCCESS"
    BY <1>1, <1>9, <1>11 DEF AgentInv, JudgmentsFit
  <2>2. Clock(x1') > Base(p) + 8
    <3>1. CASE p = ph
      BY <1>3, <1>4, <3>1
    <3>2. CASE p # ph
      <4>1. Clock(x1) > Base(p) + 8 /\ Base(p) \in Nat
        BY <1>9, <1>11, <3>2, ClockOfPlace DEF AgentInv, JudgmentsFit
      <4> QED BY <1>6, <4>1 DEF MovesOn
    <3> QED BY <3>1, <3>2
  <2>3. ASSUME NEW k \in Tools, x2[<<p, k>>] = "SUCCESS" PROVE x2'[<<p, k>>] = "SUCCESS"
    BY <1>7, <2>3, TurnOfTool DEF StatusMoves, Agent!Terminal
  <2> QED BY <2>1, <2>2, <2>3
<1>12. JudgmentsFit'
  BY <1>11 DEF JudgmentsFit
<1> QED BY <1>7, <1>8, <1>10, <1>12 DEF AgentInv

\* Each hand-off of the ledger is another one, so that there are as many pairs
\* as hand-offs; at the end they are all edges.
Pairs == {<<x5[i].source, x5[i].target>> : i \in DOMAIN x5}

LEMMA PairsCounted ==
  ASSUME AgentInv
  PROVE  Cardinality(Pairs) = Len(x5)
<1> DEFINE f == [i \in 1..Len(x5) |-> <<x5[i].source, x5[i].target>>]
<1>1. x5 \in Seq(HandOffs) /\ Len(x5) \in Nat /\ DOMAIN x5 = 1..Len(x5)
  BY DEF AgentInv, RecorderFits, RecorderTypes
<1>2. f \in [1..Len(x5) -> Pairs]
  BY <1>1 DEF Pairs
<1>3. \A i, j \in 1..Len(x5) : f[i] = f[j] => i = j
  BY DEF AgentInv, RecorderFits, LedgerFits
<1>4. \A p \in Pairs : \E i \in 1..Len(x5) : f[i] = p
  BY <1>1 DEF Pairs
<1>5. f \in Bijection(1..Len(x5), Pairs)
  BY <1>2, <1>3, <1>4 DEF Bijection, Injection, Surjection, IsInjective
<1>6. ExistsBijection(1..Len(x5), Pairs)
  BY <1>5 DEF ExistsBijection
<1> QED BY <1>1, <1>6, FS_CountingElements

LEMMA LedgerCovers ==
  ASSUME AgentInv, Clock(x1) >= 19, Clock(x1) \in Nat
  PROVE  Agent!Covers
<1>1. x5 \in Seq(HandOffs) /\ DOMAIN x5 = 1..Len(x5)
  BY DEF AgentInv, RecorderFits, RecorderTypes
<1>2. Pairs \subseteq Agent!Edges
  <2>1. ASSUME NEW i \in 1..Len(x5) PROVE <<x5[i].source, x5[i].target>> \in Agent!Edges
    <3>1. PICK r \in HandOffs : r = x5[i]
      BY <1>1
    <3>2. r.source \in Agent!Dependencies(r.target)
      BY <3>1 DEF AgentInv, RecorderFits, LedgerFits, HandsOff
    <3> QED BY <3>1, <3>2 DEF HandOffs, Agent!Edges
  <2> QED BY <1>1, <2>1 DEF Pairs
<1>3. Agent!Edges \subseteq Pairs
  <2>1. ASSUME NEW e \in Agent!Edges PROVE e \in Pairs
    <3>1. e \in Agent!Tasks \X Agent!Tasks /\ e[1] \in Agent!Dependencies(e[2])
      BY DEF Agent!Edges
    <3>2. x2[e[2]] \in Agent!Terminal
      <4>1. Turn(e[2]) < Clock(x1)
        BY <3>1, TurnRange
      <4> QED BY <3>1, <4>1 DEF AgentInv, InTurn
    <3>3. PICK i \in 1..Len(x5) : x5[i].source = e[1] /\ x5[i].target = e[2]
      BY <3>1, <3>2 DEF AgentInv, RecorderFits, LedgerFits
    <3> QED BY <1>1, <3>1, <3>3 DEF Pairs
  <2> QED BY <2>1
<1>4. Len(x5) = Agent!Cardinality(Agent!Edges)
  <2>1. Pairs = Agent!Edges
    BY <1>2, <1>3
  <2>2. Agent!Cardinality(Agent!Edges) = Cardinality(Agent!Edges)
    BY SameCardinality
  <2> QED BY <2>1, <2>2, PairsCounted
<1> QED BY <1>2, <1>3, <1>4 DEF Agent!Covers, Pairs

LEMMA ClockIsNat == AgentInv => Clock(x1) \in Nat
<1> SUFFICES ASSUME x1 \in Places PROVE Clock(x1) \in Nat
  BY DEF AgentInv, RestTypes
<1>1. CASE x1 \in Agent!Closing \/ x1 \in System
  BY <1>1 DEF Clock, Agent!Closing, System
<1>2. ASSUME NEW ph \in Agent!Phases,
             NEW s \in {"intake", "route", "memory", "plan", "judge", "tools", "opinions"}, x1 = <<ph, s>>
      PROVE  Clock(x1) \in Nat
  <2>1. Base(ph) \in Nat
    BY ClockOfPlace
  <2>2. ph # "close" /\ ph # "system"
    BY DEF Agent!Phases
  <2> QED BY <1>2, <2>1, <2>2 DEF Clock, StepTurn, Agent!Steps
<1> QED BY <1>1, <1>2 DEF Places, Agent!Steps

LEMMA CoverageKeeps ==
  ASSUME AgentInv, Agent!Check
  PROVE  AgentInv'
<1>1. x1 = <<"close", "check">> /\ Clock(x1) = 19 /\ UNCHANGED <<x2, x3, x4, x5, x6, x7, x8, x9, x10, x11>>
  BY ClockOfPlace DEF Agent!Check, Agent!pool
<1>2. Agent!Covers
  BY <1>1, LedgerCovers
<1>3. x1' = <<"close", "reconcile">> /\ x12' = x12
  BY <1>2 DEF Agent!Check
<1>4. Clock(x1') = 20 /\ x1' \in Places /\ x1'[2] # "tools"
  BY <1>3, ClockOfPlace DEF Places, Agent!Closing
<1>5. RecorderFits'
  BY <1>1, RecorderStays
<1>6. ASSUME NEW u \in Agent!Tasks PROVE Turn(u) < Clock(x1) /\ Turn(u) < Clock(x1') /\ Turn(u) \in Nat
  BY <1>1, <1>4, TurnRange
<1>7. InTurn'
  BY <1>1, <1>4, <1>6 DEF AgentInv, InTurn
<1>8. RestTypes' /\ PoolFits' /\ FateFits'
  BY <1>1, <1>3, <1>4 DEF AgentInv, RestTypes, PoolFits, FateFits
<1>9. JudgmentsFit'
  BY <1>1, <1>4, PhasesAre DEF AgentInv, JudgmentsFit
<1> QED BY <1>5, <1>7, <1>8, <1>9 DEF AgentInv

LEMMA ReconcileKeeps ==
  ASSUME AgentInv, Agent!Reconcile
  PROVE  AgentInv'
<1>1. x1 = <<"close", "reconcile">> /\ x1' = <<"close", "end">>
      /\ UNCHANGED <<x2, x3, x4, x5, x6, x7, x8, x9, x11>>
  BY DEF Agent!Reconcile, Agent!pool
<1>2. Clock(x1) = 20 /\ Clock(x1') = 21 /\ x1' \in Places /\ x1'[2] # "tools"
  BY <1>1, ClockOfPlace DEF Places, Agent!Closing
<1>3. x4 \in Seq(AgentEvents) /\ DOMAIN x4 = 1..Len(x4) /\ Len(x4) \in Nat
      /\ x10 \subseteq 1..Len(x4) /\ (x11 = 0 => x10 = 1..Len(x4))
  BY DEF AgentInv, RecorderFits, RecorderTypes, SinkFits
<1>4. x11 = 0 => Agent!StoredIsPrefix
  <2>1. Cardinality(1..Len(x4)) = Len(x4)
    <3>1. PICK n \in Nat : n = Len(x4)
      BY <1>3
    <3>2. Cardinality(1..n) = n
      BY FS_Interval
    <3> QED BY <3>1, <3>2
  <2> QED BY <1>3, <2>1, SameCardinality DEF Agent!StoredIsPrefix
<1>5. \/ x10' = 1..Len(x4) /\ x12' = "COMPLETED"
      \/ x10' = x10 /\ x12' = "FAILED" /\ x11 # 0
  BY <1>3, <1>4 DEF Agent!Reconcile
<1>6. SinkFits'
  BY <1>1, <1>3, <1>5 DEF SinkFits
<1>7. RecorderTypes' /\ LedgerFits' /\ EventsFit'
  <2>1. RecorderTypes'
    BY <1>1 DEF AgentInv, RecorderFits, RecorderTypes
  <2>2. LedgerFits'
    BY <1>1 DEF AgentInv, RecorderFits, LedgerFits, HandsOff
  <2>3. EventsFit'
    BY <1>1 DEF AgentInv, RecorderFits, EventsFit
  <2> QED BY <2>1, <2>2, <2>3
<1>8. ASSUME NEW u \in Agent!Tasks PROVE Turn(u) < Clock(x1) /\ Turn(u) < Clock(x1') /\ Turn(u) \in Nat
  BY <1>2, TurnRange
<1>9. InTurn'
  BY <1>1, <1>2, <1>8 DEF AgentInv, InTurn
<1>10. RestTypes' /\ PoolFits' /\ FateFits'
  BY <1>1, <1>2, <1>5 DEF AgentInv, RestTypes, PoolFits, FateFits
<1>11. JudgmentsFit'
  BY <1>1, <1>2, PhasesAre DEF AgentInv, JudgmentsFit
<1> QED BY <1>6, <1>7, <1>9, <1>10, <1>11 DEF AgentInv, RecorderFits

LEMMA AgentInit == Agent!Init => AgentInv
<1> SUFFICES ASSUME Agent!Init PROVE AgentInv
  OBVIOUS
<1>1. x1 = <<"initial", "intake">> /\ "initial" \in Agent!Phases
  BY DEF Agent!Init, Agent!Phases
<1>2. Clock(x1) = 1 /\ x1 \in Places /\ x1[2] # "tools"
  <2>1. \A ph \in Agent!Phases : Clock(<<ph, "intake">>) = Base(ph) + 1 /\ <<ph, "intake">> \in Places
    BY ClockOfPlace
  <2> QED BY <1>1, <2>1, Bases
<1>3. /\ x2 = [t \in Agent!Tasks |-> "QUEUED"] /\ x3 = {} /\ x4 = <<>> /\ x5 = <<>> /\ x6 = {}
      /\ x7 = [k \in Tools |-> "IDLE"] /\ x8 = [k \in Tools |-> 0]
      /\ x9 = [ph \in Agent!Phases |-> "NONE"]
      /\ x10 = {} /\ x11 = 0 /\ x12 = "RUNNING"
  BY DEF Agent!Init
<1>4. RecorderTypes /\ RestTypes
  BY <1>2, <1>3, BoundsAssumption DEF RecorderTypes, RestTypes
<1>5. LedgerFits /\ EventsFit /\ SinkFits
  BY <1>3 DEF LedgerFits, EventsFit, SinkFits, Agent!Terminal, Agent!Tasks
<1>6. InTurn
  BY <1>2, <1>3, TurnRange DEF InTurn
<1>7. PoolFits /\ JudgmentsFit /\ FateFits
  BY <1>1, <1>2, <1>3 DEF PoolFits, JudgmentsFit, FateFits
<1> QED BY <1>4, <1>5, <1>6, <1>7 DEF AgentInv, RecorderFits

LEMMA AgentNext == AgentInv /\ [Agent!Next]_(Agent!vars) => AgentInv'
<1> SUFFICES ASSUME AgentInv, [Agent!Next]_(Agent!vars) PROVE AgentInv'
  OBVIOUS
<1>1. ASSUME NEW ph \in Agent!Phases,
             \/ Agent!Intake(ph) \/ Agent!Route(ph) \/ Agent!Memory(ph) \/ Agent!Plan(ph)
             \/ \E k \in Tools : Agent!CollectTool(ph, k) \/ Agent!SkipTool(ph, k)
             \/ Agent!Council(ph) \/ Agent!Opinion(ph) \/ Agent!Judge(ph)
      PROVE  AgentInv'
  BY <1>1, IntakeKeeps, PlanKeeps, CollectKeeps, CouncilKeeps, JudgeKeeps
<1>2. CASE UNCHANGED Agent!vars
  <2>1. UNCHANGED <<x1, x2, x3, x4, x5, x6, x7, x8, x9, x10, x11, x12>>
    BY <1>2 DEF Agent!vars, Agent!recorder, Agent!pool
  <2>2. RecorderFits'
    BY <2>1, RecorderStays
  <2> QED BY <2>1, <2>2 DEF AgentInv, RestTypes, InTurn, PoolFits, JudgmentsFit, FateFits
<1> QED BY <1>1, <1>2, CallKeeps, RepairKeeps, RepairFailsKeeps, CoverageKeeps, ReconcileKeeps DEF Agent!Next

LEMMA AgentPromises ==
  AgentInv => /\ Agent!TypeOK /\ Agent!TransfersAreFinal /\ Agent!JudgedOnAllTools
              /\ Agent!CompletedIsWhole /\ Agent!UnlostCompletes
<1> SUFFICES ASSUME AgentInv
             PROVE  /\ Agent!TypeOK /\ Agent!TransfersAreFinal /\ Agent!JudgedOnAllTools
                    /\ Agent!CompletedIsWhole /\ Agent!UnlostCompletes
  OBVIOUS
<1>1. /\ x4 \in Seq(AgentEvents) /\ DOMAIN x4 = 1..Len(x4) /\ x5 \in Seq(HandOffs) /\ DOMAIN x5 = 1..Len(x5)
  BY DEF AgentInv, RecorderFits, RecorderTypes
<1>2. ASSUME NEW i \in 1..Len(x5)
      PROVE  /\ <<x5[i].source, x5[i].target>> \in Agent!Edges
             /\ x5[i].from = x2[x5[i].source] /\ x5[i].from \in Agent!Terminal
  <2>1. PICK r \in HandOffs : r = x5[i]
    BY <1>1
  <2>2. HandsOff(r)
    BY <2>1 DEF AgentInv, RecorderFits, LedgerFits
  <2> QED BY <2>1, <2>2 DEF HandsOff, HandOffs, Agent!Edges
<1>3. Agent!TypeOK
  <2>1. x1 \in Agent!Tasks \cup (Agent!Phases \X {"tools", "opinions"}) \cup Agent!Closing
    BY DEF AgentInv, RestTypes, Places, System, Agent!Tasks
  <2>2. \A i \in DOMAIN x4 : x4[i].task \in Agent!Tasks
    <3>1. \A i \in 1..Len(x4) : x4[i] \in AgentEvents
      BY <1>1
    <3> QED BY <1>1, <3>1 DEF AgentEvents
  <2> QED BY <1>1, <1>2, <2>1, <2>2 DEF AgentInv, RecorderFits, RecorderTypes, RestTypes, SinkFits, Agent!TypeOK
<1>4. Agent!TransfersAreFinal
  BY <1>1, <1>2, PairsCounted, SameCardinality DEF Agent!TransfersAreFinal, Pairs
<1>5. Agent!JudgedOnAllTools
  <2>1. ASSUME NEW ph \in Agent!Phases, x9[ph] # "NONE", NEW k \in Tools
        PROVE  Cardinality({i \in DOMAIN x4 : x4[i].task = <<ph, k>>}) = 1
    <3>1. Turn(<<ph, k>>) = Base(ph) + 5 /\ <<ph, k>> \in Agent!Tasks /\ Base(ph) \in Nat
      BY TurnOfTool, ClockOfPlace
    <3>2. Clock(x1) > Base(ph) + 8
      BY <2>1 DEF AgentInv, JudgmentsFit
    <3>3. Clock(x1) \in Nat
      BY ClockIsNat
    <3>4. x2[<<ph, k>>] \in Agent!Terminal
      BY <3>1, <3>2, <3>3 DEF AgentInv, InTurn
    <3>5. PICK i \in 1..Len(x4) : x4[i].task = <<ph, k>>
      BY <3>4 DEF AgentInv, RecorderFits, EventsFit
    <3>6. \A j \in 1..Len(x4) : x4[j].task = <<ph, k>> => j = i
      BY <3>4, <3>5 DEF AgentInv, RecorderFits, EventsFit
    <3>7. {j \in DOMAIN x4 : x4[j].task = <<ph, k>>} = {i}
      BY <1>1, <3>5, <3>6
    <3> QED BY <3>7, FS_Singleton
  <2>2. \A ph \in Agent!Phases : x9[ph] = "PASS" => \A k \in Tools : x2[<<ph, k>>] = "SUCCESS"
    BY DEF AgentInv, JudgmentsFit
  <2> QED BY <2>1, <2>2, SameCardinality DEF Agent!JudgedOnAllTools
<1>6. Agent!CompletedIsWhole
  <2> SUFFICES ASSUME x12 = "COMPLETED" PROVE x10 = DOMAIN x4 /\ Agent!Covers
    BY DEF Agent!CompletedIsWhole
  <2>1. Clock(x1) \in Nat /\ ~(Clock(x1) < 21)
    BY ClockIsNat DEF AgentInv, FateFits
  <2>2. Agent!Covers
    BY <2>1, LedgerCovers
  <2> QED BY <1>1, <2>2 DEF AgentInv, FateFits
<1>7. Agent!UnlostCompletes
  BY ClockOfPlace DEF AgentInv, FateFits, Agent!UnlostCompletes
<1> QED BY <1>3, <1>4, <1>5, <1>6, <1>7

-----------------------------------------------------------------------------
(* The stores over the slots                                                *)

\* The follow-up store, for any number of notes and whether or not a stop can
\* tear a file: a record names files that were written as a whole (_write_immutable_json,
\* finish), and a POST that is refused after _observe_prior_intent wrote nothing.
THEOREM FollowupRecorded == Followup!Spec => []Followup!RecordedIsStored /\ [][Followup!RefusesUnwritten]_(Followup!vars)
BY FollowInit, FollowNext, FollowPromise, FollowRefuses, PTL DEF Followup!Spec

\* The governed experience, for any times and limits: what a context uses went
\* through replay, approval and shadow in that order (_validate_transition), a
\* revoked card is not used again, and what is promoted can be taken back.
THEOREM ExperienceGoverned ==
  Cards!Spec => /\ [](Cards!UsedIsEarned /\ Cards!PromotedCanBeRevoked)
                /\ [][Cards!UsesUnrevoked]_(Cards!vars)
BY ExperienceInit, ExperienceNext, ExperienceEarned, ExperienceRevocable, ExperienceUnrevoked, PTL DEF Cards!Spec

\* A run of the agent kernel, for any finite set of tools, any retries, calls
\* and lost events, and whatever order the pool finishes in: the ledger holds
\* each hand-off once with the status its source ended with
\* (_capture_dependency_transfers), a pass is judged when every required tool
\* has exactly one event, a completed task has stored every event
\* (reconcile_events), and a run that gets through its delivery and loses none
\* completes; one whose repair fails (RepairError) ends FAILED before it.
THEOREM AgentRunsWhole ==
  Agent!Spec => [](/\ Agent!TypeOK /\ Agent!TransfersAreFinal /\ Agent!JudgedOnAllTools
                   /\ Agent!CompletedIsWhole /\ Agent!UnlostCompletes)
BY AgentInit, AgentNext, AgentPromises, PTL DEF Agent!Spec

\* What holds of the slots, by the part that uses them.
SlotsInv ==
  /\ part = "followup" => FollowInv
  /\ part \in {"cards", "envelopes"} => ExperienceInv
  /\ part \in {"agent", "sink"} => AgentInv

LEMMA SlotsKeep == AllSpec => []SlotsInv
<1>1. AllInit => SlotsInv
  <2> SUFFICES ASSUME AllInit PROVE SlotsInv
    OBVIOUS
  <2>1. CASE part = "followup" /\ Followup!Init
    BY <2>1, FollowInit DEF SlotsInv
  <2>2. CASE (part = "cards" /\ Cards!Init) \/ (part = "envelopes" /\ Envelopes!Init)
    BY <2>2, ExperienceInit, EnvelopesAreCards DEF SlotsInv
  <2>3. CASE part \in {"agent", "sink"} /\ Agent!Init
    BY <2>3, AgentInit DEF SlotsInv
  <2>4. CASE part \in {"approval", "packs", "holdouts", "rounds", "cycle", "changing"}
    BY <2>4 DEF SlotsInv
  <2> QED BY <2>1, <2>2, <2>3, <2>4 DEF AllInit, SlotsInit
<1>2. SlotsInv /\ [AllNext]_allVars => SlotsInv'
  <2> SUFFICES ASSUME SlotsInv, [AllNext]_allVars PROVE SlotsInv'
    OBVIOUS
  <2>1. part' = part
    BY DEF AllNext, allVars, PacksStep, FollowupStep, LearnStep, CardsStep, EnvelopesStep, AgentStep
  <2>2. CASE part = "followup"
    <3>1. [Followup!Next]_(Followup!vars)
      BY <2>2 DEF AllNext, allVars, slots, Followup!vars, PacksStep, FollowupStep, LearnStep, CardsStep,
         EnvelopesStep, AgentStep
    <3> QED BY <2>1, <2>2, <3>1, FollowNext DEF SlotsInv
  <2>3. CASE part \in {"cards", "envelopes"}
    <3>1. [Cards!Next]_(Cards!vars)
      BY <2>3, EnvelopesAreCards DEF AllNext, allVars, slots, Cards!vars, PacksStep, FollowupStep, LearnStep,
         CardsStep, EnvelopesStep, AgentStep
    <3> QED BY <2>1, <2>3, <3>1, ExperienceNext DEF SlotsInv
  <2>4. CASE part \in {"agent", "sink"}
    <3>1. [Agent!Next]_(Agent!vars)
      BY <2>4 DEF AllNext, allVars, slots, Agent!vars, Agent!recorder, Agent!pool, PacksStep, FollowupStep,
         LearnStep, CardsStep, EnvelopesStep, AgentStep
    <3> QED BY <2>1, <2>4, <3>1, AgentNext DEF SlotsInv
  <2> QED BY <2>1, <2>2, <2>3, <2>4 DEF SlotsInv
<1> QED BY <1>1, <1>2, PTL DEF AllSpec

\* What the stores of the runs record is whole, whichever of them acts.
THEOREM RecordsWhole == AllSpec => []RecordsAreWhole
<1>1. SlotsInv => RecordsAreWhole
  BY FollowPromise, ExperienceEarned, ExperienceRevocable, EnvelopesAreCards, AgentPromises
  DEF SlotsInv, RecordsAreWhole
<1> QED BY <1>1, SlotsKeep, PTL

\* What was decided stands: a refused finalist is replaced, a closed cycle stays
\* closed, a POST refused after it looked for its intent wrote nothing and a revoked card is not used again.
THEOREM DecisionsHold == AllSpec => DecisionsStand
<1> DEFINE Stand == /\ Learn!Replaces /\ Learn!KeepsClosed
                    /\ part = "followup" => Followup!RefusesUnwritten
                    /\ part = "cards" => Cards!UsesUnrevoked
<1>1. AllSpec => []LearnInv
  BY LearningRuns, LearnInit, LearnNext, PTL DEF Learn!Spec
<1>2. SlotsInv /\ LearnInv /\ [AllNext]_allVars => Stand
  <2> SUFFICES ASSUME SlotsInv, LearnInv, [AllNext]_allVars PROVE Stand
    OBVIOUS
  <2>1. [Learn!Next]_(Learn!vars)
    BY DEF AllNext, allVars, learnVars, Learn!vars, PacksStep, FollowupStep, LearnStep,
       CardsStep, EnvelopesStep, AgentStep
  <2>2. ASSUME part = "followup" PROVE Followup!RefusesUnwritten
    <3>1. [Followup!Next]_(Followup!vars)
      BY <2>2 DEF AllNext, allVars, slots, Followup!vars, PacksStep, FollowupStep, LearnStep, CardsStep,
         EnvelopesStep, AgentStep
    <3> QED BY <2>2, <3>1, FollowRefuses DEF SlotsInv
  <2>3. ASSUME part = "cards" PROVE Cards!UsesUnrevoked
    <3>1. [Cards!Next]_(Cards!vars)
      BY <2>3 DEF AllNext, allVars, slots, Cards!vars, PacksStep, FollowupStep, LearnStep, CardsStep,
         EnvelopesStep, AgentStep
    <3> QED BY <3>1, ExperienceUnrevoked
  <2> QED BY <2>1, <2>2, <2>3, LearnKeeps
<1> QED BY <1>1, <1>2, SlotsKeep, PTL DEF AllSpec, DecisionsStand
=============================================================================
