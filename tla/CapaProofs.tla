----------------------------- MODULE CapaProofs -----------------------------
(***************************************************************************)
(* Proofs about Capa, for any cases, requests and threads: whatever order  *)
(* execution requests of a case write in and wherever they die, its        *)
(* receipts name one published version and one child that completed, and   *)
(* bind one another.                                                       *)
(***************************************************************************)
EXTENDS Capa, TLAPS

\* How far a request has come.
Executing == PCs \ {"idle", "queue", "approve"}
Authorized == Executing \ {"source", "authorize"}
Built == Authorized \ {"gate", "derive", "publish"}
Receipted == Built \ {"receipt"}
Closing == {"close", "recovery", "assess"}

\* What a request goes by is still so when it writes, although it read the
\* case only once: everything it relies on is written once and stays.
FitsAt(p, at) ==
  /\ at # "idle" => on[p] \in Cases
  /\ at = "idle" => build[p] = None /\ try[p] = 1
  /\ on[p] \in Cases =>
       /\ build[p] \in {None, version[on[p]]}
       /\ \A b \in Attempts : b < try[p] => child[on[p]][b] \in Ended
  /\ at \in Executing =>
       /\ on[p] \in approval /\ mode[p] \in Modes
       /\ report[p].authz \in {None, authz[on[p]]}
       /\ report[p].executed => execution[on[p]] # None /\ try[p] = execution[on[p]].try
  /\ at = "authorize" => mode[p] \in Named
  /\ at \in Authorized /\ mode[p] \in Named => authz[on[p]] = mode[p]
  /\ at \in Built => build[p] # None
  /\ at \in Receipted => derived[on[p]] # None
  /\ at = "child" => ~report[p].executed
  /\ at = "running" => child[on[p]][try[p]] = "RUNNING"
  /\ at = "execution" => child[on[p]][try[p]] = "COMPLETED" /\ family[p] \in Families
  /\ at \in Closing => execution[on[p]] # None
  /\ at \in {"recovery", "assess"} => on[p] \in closed

ThreadFits(p) == FitsAt(p, pc[p])

\* What the receipts and child attempts of a case say of one another.  An
\* attempt is only made after every earlier one has failed or was cancelled.
CaseFits(c) ==
  /\ authz[c] \in Modes \cup {None}
  /\ authz[c] # None => c \in approval
  /\ derived[c] \in {None, version[c]}
  /\ derived[c] # None => c \in approval
  /\ execution[c] # None =>
       /\ c \in approval /\ derived[c] # None
       /\ execution[c].mode \in Modes
       /\ execution[c].mode \in Named => authz[c] = execution[c].mode
       /\ child[c][execution[c].try] = "COMPLETED"
  /\ c \in closed => execution[c] # None
  /\ c \in recovery => c \in closed
  /\ \A a, b \in Attempts : (b < a /\ child[c][a] # "ABSENT") => child[c][b] \in Ended

\* A running child has one request that waits for it.
OwnersDiffer ==
  \A p, q \in Procs :
    (pc[p] = "running" /\ pc[q] = "running" /\ on[p] = on[q] /\ try[p] = try[q]) => p = q

\* The inductive invariant.
IInv ==
  /\ TypeOK
  /\ \A p \in Procs : ThreadFits(p)
  /\ \A c \in Cases : CaseFits(c)
  /\ OwnersDiffer

-----------------------------------------------------------------------------
(* What a step does to the others *)

LocalTypes ==
  /\ pc \in [Procs -> PCs]
  /\ on \in [Procs -> Cases \cup {None}]
  /\ mode \in [Procs -> Named \cup {Unnamed, None}]
  /\ report \in [Procs -> Reports]
  /\ build \in [Procs -> Procs \cup {None}]
  /\ try \in [Procs -> Attempts]
  /\ saw \in [Procs -> Statuses]
  /\ family \in [Procs -> Families \cup {None}]

SharedTypes ==
  /\ selection \subseteq Cases /\ queue \subseteq Cases
  /\ approval \subseteq Cases /\ closed \subseteq Cases
  /\ recovery \subseteq Cases /\ assessed \subseteq Cases
  /\ authz \in [Cases -> Named \cup {None}]
  /\ gate \in [Cases -> Named \cup {Unnamed, None}]
  /\ version \in [Cases -> Procs \cup {None}]
  /\ derived \in [Cases -> Procs \cup {None}]
  /\ granted \in [Cases -> {"NONE", "GRANTED", "REVOKED"}]
  /\ child \in Families
  /\ agreed \in [Cases -> SUBSET Attempts]
  /\ execution \in [Cases -> Executions \cup {None}]
  /\ parent \in {"MATCHED", "CHANGED", "REVOKED"}
  /\ crashes \in 0..MaxCrashes

LEMMA TypesSplit == TypeOK <=> SharedTypes /\ LocalTypes
BY DEF TypeOK, SharedTypes, LocalTypes

\* A step of another request leaves a thread where it is.
Same(q) ==
  /\ pc'[q] = pc[q] /\ on'[q] = on[q] /\ mode'[q] = mode[q] /\ report'[q] = report[q]
  /\ build'[q] = build[q] /\ try'[q] = try[q] /\ saw'[q] = saw[q] /\ family'[q] = family[q]

\* The child that the thread waits for does not move.
ChildKept(q) == pc[q] = "running" => child'[on[q]][try[q]] = child[on[q]][try[q]]

\* Receipts are written once, and a child that has ended stays as it is.
Grows ==
  /\ approval \subseteq approval' /\ closed \subseteq closed'
  /\ \A c \in Cases :
       /\ authz[c] # None => authz'[c] = authz[c]
       /\ version[c] # None => version'[c] = version[c]
       /\ derived[c] # None => derived'[c] = derived[c]
       /\ execution[c] # None => execution'[c] = execution[c]
       /\ \A a \in Attempts :
            child[c][a] \in Ended \cup {"COMPLETED"} => child'[c][a] = child[c][a]

LEMMA OthersFit ==
  ASSUME TypeOK, Grows, NEW q \in Procs, ThreadFits(q), Same(q), ChildKept(q)
  PROVE  ThreadFits(q)'
<1>1. on[q] \in Cases \cup {None} /\ try[q] \in Attempts /\ pc[q] \in PCs
  BY DEF TypeOK
<1>2. pc[q] \in Executing \cup Authorized \cup Built \cup Receipted \cup Closing
        \cup {"authorize", "child", "running", "execution", "recovery", "assess"} => on[q] \in Cases
  BY DEF ThreadFits, FitsAt, Executing, Authorized, Built, Receipted, Closing, PCs
<1>3. on[q] \in Cases =>
        /\ build[q] \in {None, version'[on[q]]}
        /\ \A b \in Attempts : b < try[q] => child'[on[q]][b] \in Ended
  BY DEF ThreadFits, FitsAt, Grows, TypeOK
<1>4. pc[q] \in Executing =>
        /\ on[q] \in approval' /\ report[q].authz \in {None, authz'[on[q]]}
        /\ report[q].executed => execution'[on[q]] # None /\ try[q] = execution'[on[q]].try
  BY <1>2 DEF ThreadFits, FitsAt, Grows
<1>5. /\ pc[q] \in Authorized /\ mode[q] \in Named => authz'[on[q]] = mode[q]
      /\ pc[q] \in Receipted => derived'[on[q]] # None
      /\ pc[q] \in Closing => execution'[on[q]] # None
      /\ pc[q] \in {"recovery", "assess"} => on[q] \in closed'
  BY <1>2, CapaAssumption DEF ThreadFits, FitsAt, Grows
<1>6. /\ pc[q] = "running" => child'[on[q]][try[q]] = "RUNNING"
      /\ pc[q] = "execution" => child'[on[q]][try[q]] = "COMPLETED" /\ family[q] \in Families
  BY <1>1, <1>2 DEF ThreadFits, FitsAt, Grows, ChildKept
<1> QED BY <1>3, <1>4, <1>5, <1>6 DEF ThreadFits, FitsAt, Same

\* One request moves.
LEMMA RequestMoves ==
  ASSUME IInv, NEW p \in Procs, TypeOK', Grows, ThreadFits(p)', \A c \in Cases : CaseFits(c)',
         \A q \in Procs \ {p} : Same(q) /\ ChildKept(q),
         pc'[p] = "running" =>
           \A q \in Procs \ {p} : ~(pc[q] = "running" /\ on[q] = on'[p] /\ try[q] = try'[p])
  PROVE  IInv'
<1>1. \A q \in Procs \ {p} : ThreadFits(q)'
  BY OthersFit DEF IInv
<1>2. OwnersDiffer'
  BY DEF IInv, OwnersDiffer, Same
<1> QED BY <1>1, <1>2 DEF IInv

\* No request moves.
LEMMA NoRequestMoves ==
  ASSUME IInv, UNCHANGED <<pc, locals>>, TypeOK', Grows, \A c \in Cases : CaseFits(c)',
         \A q \in Procs : ChildKept(q)
  PROVE  IInv'
<1>1. \A q \in Procs : Same(q)
  BY DEF Same, locals
<1>2. \A q \in Procs : ThreadFits(q)'
  BY <1>1, OthersFit DEF IInv
<1>3. OwnersDiffer'
  BY DEF IInv, OwnersDiffer, locals
<1> QED BY <1>2, <1>3 DEF IInv

\* What the cases' receipts and attempts are made of is left alone.
LEMMA CasesKept ==
  ASSUME IInv, UNCHANGED <<approval, authz, derived, execution, closed, recovery, version, child>>
  PROVE  Grows /\ (\A c \in Cases : CaseFits(c)') /\ (\A q \in Procs : ChildKept(q))
<1>1. Grows /\ \A q \in Procs : ChildKept(q)
  BY DEF Grows, ChildKept
<1>2. \A c \in Cases : CaseFits(c)'
  BY DEF IInv, CaseFits
<1> QED BY <1>1, <1>2

\* A thread goes on to the next step, or its request ends.
LEMMA GoesOn ==
  ASSUME LocalTypes, NEW p \in Procs, NEW label \in PCs, Goto(p, label), UNCHANGED locals
  PROVE  /\ LocalTypes' /\ pc'[p] = label
         /\ on'[p] = on[p] /\ mode'[p] = mode[p] /\ report'[p] = report[p] /\ build'[p] = build[p]
         /\ try'[p] = try[p] /\ saw'[p] = saw[p] /\ family'[p] = family[p]
         /\ \A q \in Procs \ {p} : Same(q)
BY DEF Goto, LocalTypes, Same, locals

LEMMA Ends ==
  ASSUME LocalTypes, NEW p \in Procs, End(p)
  PROVE  /\ LocalTypes' /\ ThreadFits(p)' /\ pc'[p] = "idle"
         /\ \A q \in Procs \ {p} : Same(q)
<1>1. /\ "idle" \in PCs /\ NoReport \in Reports /\ 1 \in Attempts /\ "ABSENT" \in Statuses
      /\ None \notin Cases
  BY CapaAssumption DEF PCs, NoReport, Reports, Attempts, Statuses
<1>2. LocalTypes'
  BY <1>1 DEF End, Goto, LocalTypes
<1>3. pc'[p] = "idle" /\ on'[p] = None /\ build'[p] = None /\ try'[p] = 1
  BY DEF End, Goto, LocalTypes
<1>4. \A q \in Procs \ {p} : Same(q)
  BY DEF End, Goto, LocalTypes, Same
<1>5. ThreadFits(p)'
  BY <1>1, <1>3 DEF ThreadFits, FitsAt, Executing, Authorized, Built, Receipted, Closing
<1> QED BY <1>2, <1>3, <1>4, <1>5

\* A request ends and nothing but a receipt that is never read for another one
\* has changed.
LEMMA RequestEnds ==
  ASSUME IInv, NEW p \in Procs, End(p), SharedTypes',
         UNCHANGED <<approval, authz, derived, execution, closed, recovery, version, child>>
  PROVE  IInv'
<1>1. LocalTypes' /\ ThreadFits(p)' /\ pc'[p] = "idle" /\ \A q \in Procs \ {p} : Same(q)
  BY TypesSplit, Ends DEF IInv
<1>2. TypeOK'
  BY <1>1, TypesSplit, PTL
<1> QED BY <1>1, <1>2, CasesKept, RequestMoves

-----------------------------------------------------------------------------
LEMMA InitIInv == Init => IInv
<1> SUFFICES ASSUME Init PROVE IInv
  OBVIOUS
<1>1. 1 \in Attempts /\ NoReport \in Reports /\ None \notin Cases
  BY CapaAssumption DEF Attempts, NoReport, Reports
<1>2. SharedTypes
  BY CapaAssumption DEF Init, SharedTypes, Families, Statuses
<1>3. LocalTypes
  BY <1>1 DEF Init, LocalTypes, PCs, Statuses
<1>4. \A p \in Procs : ThreadFits(p)
  BY <1>1 DEF Init, ThreadFits, FitsAt, Executing, Authorized, Built, Receipted, Closing
<1>5. \A c \in Cases : CaseFits(c)
  BY DEF Init, CaseFits
<1>6. OwnersDiffer
  BY DEF Init, OwnersDiffer
<1> QED BY <1>2, <1>3, <1>4, <1>5, <1>6, TypesSplit DEF IInv

-----------------------------------------------------------------------------
(* Selection, approval and the request's reading of the case *)

LEMMA SelectStep ==
  ASSUME IInv, NEW p \in Procs, NEW c \in Cases,
         Select(p, c) \/ BeginApproval(p, c) \/ \E m \in Modes : BeginExecution(p, c, m)
  PROVE  IInv'
<1>1. pc[p] = "idle" /\ UNCHANGED <<approval, authz, derived, execution, closed, recovery, version, child>>
  BY DEF Select, BeginApproval, BeginExecution, receipts, rows
<1>2. Grows /\ (\A d \in Cases : CaseFits(d)') /\ (\A q \in Procs : ChildKept(q))
  BY <1>1, CasesKept
<1>3. SharedTypes /\ LocalTypes /\ None \notin Cases /\ on[p] \in Cases \cup {None} /\ ThreadFits(p)
  BY TypesSplit, CapaAssumption DEF IInv, LocalTypes
<1>4. SharedTypes'
  BY <1>3 DEF Select, BeginApproval, BeginExecution, SharedTypes, receipts, rows
<1>5. ASSUME NEW label \in {"queue", "approve"}, Goto(p, label), on' = [on EXCEPT ![p] = c],
             UNCHANGED <<mode, report, build, try, saw, family>>, build[p] = None, try[p] = 1
      PROVE  IInv'
  <2>1. LocalTypes' /\ pc'[p] = label /\ on'[p] = c /\ build'[p] = None /\ try'[p] = 1
        /\ \A q \in Procs \ {p} : Same(q)
    BY <1>3, <1>5 DEF LocalTypes, Goto, Same, PCs
  <2>2. ThreadFits(p)'
    BY <2>1 DEF ThreadFits, FitsAt, Executing, Authorized, Built, Receipted, Closing, Attempts
  <2>3. TypeOK'
    BY <1>4, <2>1, TypesSplit, PTL
  <2> QED BY <1>2, <2>1, <2>2, <2>3, RequestMoves
<1>6. ASSUME Select(p, c) PROVE IInv'
  BY <1>1, <1>3, <1>5, <1>6 DEF Select, ThreadFits, FitsAt
<1>7. ASSUME BeginApproval(p, c) PROVE IInv'
  BY <1>1, <1>3, <1>5, <1>7 DEF BeginApproval, ThreadFits, FitsAt
<1>8. ASSUME NEW m \in Modes, BeginExecution(p, c, m) PROVE IInv'
  <2> DEFINE seen == [authz |-> authz[c], derived |-> derived[c], executed |-> execution[c] # None]
  <2> DEFINE first == IF execution[c] # None THEN execution[c].try ELSE 1
  <2>1. /\ c \in approval /\ CaseFits(c)
        /\ pc' = [pc EXCEPT ![p] = "source"] /\ on' = [on EXCEPT ![p] = c]
        /\ mode' = [mode EXCEPT ![p] = m] /\ report' = [report EXCEPT ![p] = seen]
        /\ try' = [try EXCEPT ![p] = first] /\ UNCHANGED <<build, saw, family>>
    BY <1>8 DEF BeginExecution, Goto, IInv
  <2>2. seen \in Reports /\ seen.authz = authz[c] /\ (seen.executed => execution[c] # None)
    BY <1>3 DEF SharedTypes, Reports
  <2>3. first \in Attempts /\ \A b \in Attempts : b < first => child[c][b] \in Ended
    <3>1. CASE execution[c] # None
      <4>1. execution[c] \in Executions
        BY <1>3, <3>1 DEF SharedTypes
      <4>2. execution[c].try \in Attempts
        BY <4>1 DEF Executions
      <4> QED BY <2>1, <3>1, <4>2 DEF CaseFits
    <3>2. CASE execution[c] = None
      BY <3>2, CapaAssumption DEF Attempts
    <3> QED BY <3>1, <3>2
  <2>4. m \in Named \cup {Unnamed, None}
    BY <1>8, CapaAssumption
  <2> HIDE DEF seen
  <2>5. /\ LocalTypes' /\ \A q \in Procs \ {p} : Same(q)
        /\ pc'[p] = "source" /\ on'[p] = c /\ mode'[p] = m /\ report'[p] = seen
        /\ build'[p] = build[p] /\ try'[p] = first
    BY <1>3, <2>1, <2>2, <2>3, <2>4 DEF LocalTypes, Same, PCs
  <2>6. execution[c] # None => first = execution[c].try
    OBVIOUS
  <2> HIDE DEF first
  <2>7. build[p] = None
    BY <1>1, <1>3 DEF ThreadFits, FitsAt
  <2>8. ThreadFits(p)'
    BY <1>1, <2>1, <2>2, <2>3, <2>5, <2>6, <2>7
       DEF ThreadFits, FitsAt, Executing, Authorized, Built, Receipted, Closing
  <2>9. TypeOK'
    BY <1>4, <2>5, TypesSplit, PTL
  <2> QED BY <1>2, <2>5, <2>8, <2>9, RequestMoves
<1> QED BY <1>6, <1>7, <1>8

LEMMA ApprovalStep ==
  ASSUME IInv, NEW p \in Procs, WriteApproval(p)
  PROVE  IInv'
<1>1. /\ pc[p] = "approve" /\ approval' = approval \cup {on[p]} /\ End(p)
      /\ UNCHANGED <<authz, derived, execution, closed, recovery, version, child>>
  BY DEF WriteApproval, rows
<1>2. SharedTypes /\ LocalTypes /\ on[p] \in Cases
  BY <1>1, TypesSplit DEF IInv, ThreadFits, FitsAt
<1>3. SharedTypes'
  BY <1>2 DEF WriteApproval, SharedTypes, rows
<1>4. LocalTypes' /\ ThreadFits(p)' /\ pc'[p] = "idle" /\ \A q \in Procs \ {p} : Same(q)
  BY <1>1, <1>2, Ends
<1>5. TypeOK'
  BY <1>3, <1>4, TypesSplit, PTL
<1>6. Grows /\ \A q \in Procs : ChildKept(q)
  BY <1>1 DEF Grows, ChildKept
<1>7. \A c \in Cases : CaseFits(c)'
  BY <1>1 DEF IInv, CaseFits
<1> QED BY <1>4, <1>5, <1>6, <1>7, RequestMoves

-----------------------------------------------------------------------------
(* The execution of a request, up to the derived version *)

\* A thread goes on with what it has, and the cases are left as they are.
LEMMA Advances ==
  ASSUME IInv, NEW p \in Procs, NEW label \in PCs, label # "running", FitsAt(p, label),
         Goto(p, label), UNCHANGED locals, SharedTypes',
         UNCHANGED <<approval, authz, derived, execution, closed, recovery, version, child>>
  PROVE  IInv'
<1>1. /\ LocalTypes' /\ pc'[p] = label
      /\ on'[p] = on[p] /\ mode'[p] = mode[p] /\ report'[p] = report[p] /\ build'[p] = build[p]
      /\ try'[p] = try[p] /\ saw'[p] = saw[p] /\ family'[p] = family[p]
      /\ \A q \in Procs \ {p} : Same(q)
  BY TypesSplit, GoesOn DEF IInv
<1>2. ThreadFits(p)'
  BY <1>1 DEF ThreadFits, FitsAt
<1>3. TypeOK'
  BY <1>1, TypesSplit, PTL
<1> QED BY <1>1, <1>2, <1>3, CasesKept, RequestMoves

LEMMA SharedKept ==
  ASSUME IInv, UNCHANGED <<receipts, version, rows, parent, crashes>>
  PROVE  SharedTypes'
BY TypesSplit DEF IInv, SharedTypes, receipts, rows

LEMMA CheckSourceStep ==
  ASSUME IInv, NEW p \in Procs, CheckSource(p)
  PROVE  IInv'
<1>1. /\ pc[p] = "source" /\ FitsAt(p, "source") /\ SharedTypes'
      /\ UNCHANGED <<approval, authz, derived, execution, closed, recovery, version, child>>
  BY SharedKept DEF CheckSource, IInv, ThreadFits, receipts, rows
<1>2. CASE End(p)
  BY <1>1, <1>2, RequestEnds
<1>3. CASE AuthorizationAdmits(p) /\ UNCHANGED locals /\ mode[p] \in Named /\ report[p].authz = None
           /\ Goto(p, "authorize")
  <2>1. FitsAt(p, "authorize")
    BY <1>1, <1>3 DEF FitsAt, Executing, Authorized, Built, Receipted, Closing, PCs
  <2> QED BY <1>1, <1>3, <2>1, Advances DEF PCs
<1>4. CASE AuthorizationAdmits(p) /\ UNCHANGED locals /\ ~(mode[p] \in Named /\ report[p].authz = None)
           /\ Goto(p, "gate")
  <2>1. FitsAt(p, "gate")
    BY <1>1, <1>4 DEF FitsAt, AuthorizationAdmits, Executing, Authorized, Built, Receipted, Closing, PCs
  <2> QED BY <1>1, <1>4, <2>1, Advances DEF PCs
<1> QED BY <1>2, <1>3, <1>4 DEF CheckSource

LEMMA AuthorizationStep ==
  ASSUME IInv, NEW p \in Procs, WriteAuthorization(p)
  PROVE  IInv'
<1>1. /\ pc[p] = "authorize" /\ FitsAt(p, "authorize") /\ SharedTypes /\ LocalTypes
      /\ UNCHANGED <<selection, queue, approval, gate, derived, execution, closed,
                     recovery, assessed, version, rows, parent, crashes>>
  BY TypesSplit DEF WriteAuthorization, IInv, ThreadFits
<1>2. on[p] \in Cases /\ on[p] \in approval /\ mode[p] \in Modes /\ mode[p] \in Named
  BY <1>1 DEF FitsAt, Executing, PCs
<1>3. CASE End(p) /\ UNCHANGED authz
  BY <1>1, <1>3, RequestEnds DEF SharedTypes, rows
<1>4. CASE authz[on[p]] = None /\ authz' = [authz EXCEPT ![on[p]] = mode[p]] /\ Goto(p, "gate") /\ UNCHANGED locals
  <2>1. /\ authz' \in [Cases -> Named \cup {None}]
        /\ \A c \in Cases : authz'[c] = IF c = on[p] THEN mode[p] ELSE authz[c]
    BY <1>1, <1>2, <1>4 DEF SharedTypes
  <2>2. SharedTypes'
    BY <1>1, <2>1 DEF SharedTypes, rows
  <2>3. Grows /\ \A q \in Procs : ChildKept(q)
    BY <1>1, <1>4, <2>1 DEF Grows, ChildKept, rows
  <2>4. \A c \in Cases : CaseFits(c)'
    BY <1>1, <1>2, <1>4, <2>1, CapaAssumption DEF IInv, CaseFits, rows
  <2>5. "gate" \in PCs
    BY DEF PCs
  <2>6. /\ LocalTypes' /\ pc'[p] = "gate"
        /\ on'[p] = on[p] /\ mode'[p] = mode[p] /\ report'[p] = report[p] /\ build'[p] = build[p]
        /\ try'[p] = try[p] /\ saw'[p] = saw[p] /\ family'[p] = family[p]
        /\ \A q \in Procs \ {p} : Same(q)
    BY <1>1, <1>4, <2>5, GoesOn
  <2>7. ThreadFits(p)'
    BY <1>1, <1>2, <1>4, <2>1, <2>6
       DEF ThreadFits, FitsAt, Executing, Authorized, Built, Receipted, Closing, PCs, rows
  <2>8. TypeOK'
    BY <2>2, <2>6, TypesSplit, PTL
  <2> QED BY <2>3, <2>4, <2>6, <2>7, <2>8, RequestMoves
<1> QED BY <1>3, <1>4 DEF WriteAuthorization

LEMMA GateStep ==
  ASSUME IInv, NEW p \in Procs, WriteGate(p)
  PROVE  IInv'
<1>1. /\ pc[p] = "gate" /\ FitsAt(p, "gate") /\ SharedTypes /\ LocalTypes
      /\ UNCHANGED <<selection, queue, approval, authz, derived, execution, closed,
                     recovery, assessed, version, rows, parent, crashes>>
  BY TypesSplit DEF WriteGate, IInv, ThreadFits
<1>2. SharedTypes'
  BY <1>1 DEF WriteGate, SharedTypes, LocalTypes, rows
<1>3. CASE End(p)
  BY <1>1, <1>2, <1>3, RequestEnds DEF rows
<1>4. CASE Goto(p, "derive") /\ UNCHANGED locals
  <2>1. FitsAt(p, "derive")
    BY <1>1 DEF FitsAt, Executing, Authorized, Built, Receipted, Closing, PCs
  <2> QED BY <1>1, <1>2, <1>4, <2>1, Advances DEF PCs, rows
<1> QED BY <1>3, <1>4 DEF WriteGate

LEMMA DeriveStep ==
  ASSUME IInv, NEW p \in Procs, Derive(p)
  PROVE  IInv'
<1>1. /\ pc[p] = "derive" /\ FitsAt(p, "derive") /\ SharedTypes /\ LocalTypes /\ SharedTypes'
      /\ UNCHANGED <<approval, authz, derived, execution, closed, recovery, version, child>>
  BY TypesSplit, SharedKept DEF Derive, IInv, ThreadFits, receipts, rows
<1>2. on[p] \in Cases
  BY <1>1 DEF FitsAt
<1>3. CASE End(p)
  BY <1>1, <1>3, RequestEnds
<1>4. CASE Goto(p, "publish") /\ UNCHANGED locals
  <2>1. FitsAt(p, "publish")
    BY <1>1 DEF FitsAt, Executing, Authorized, Built, Receipted, Closing, PCs
  <2> QED BY <1>1, <1>4, <2>1, Advances DEF PCs
\* A published version is adopted.
<1>5. CASE /\ version[on[p]] # None /\ build' = [build EXCEPT ![p] = version[on[p]]]
           /\ Goto(p, "receipt") /\ UNCHANGED <<on, mode, report, try, saw, family>>
  <2>1. /\ LocalTypes' /\ pc'[p] = "receipt" /\ build'[p] = version[on[p]]
        /\ on'[p] = on[p] /\ mode'[p] = mode[p] /\ report'[p] = report[p]
        /\ try'[p] = try[p] /\ saw'[p] = saw[p] /\ family'[p] = family[p]
        /\ \A q \in Procs \ {p} : Same(q)
    BY <1>1, <1>2, <1>5 DEF SharedTypes, LocalTypes, Goto, Same, PCs
  <2>2. ThreadFits(p)'
    BY <1>1, <1>5, <2>1 DEF ThreadFits, FitsAt, Executing, Authorized, Built, Receipted, Closing, PCs
  <2>3. TypeOK'
    BY <1>1, <2>1, TypesSplit, PTL
  <2> QED BY <1>1, <2>1, <2>2, <2>3, CasesKept, RequestMoves
<1> QED BY <1>3, <1>4, <1>5 DEF Derive

LEMMA PublishStep ==
  ASSUME IInv, NEW p \in Procs, Publish(p)
  PROVE  IInv'
<1>1. /\ pc[p] = "publish" /\ FitsAt(p, "publish") /\ SharedTypes /\ LocalTypes
      /\ UNCHANGED <<receipts, rows, parent, crashes>>
  BY TypesSplit DEF Publish, IInv, ThreadFits
<1>2. on[p] \in Cases
  BY <1>1 DEF FitsAt
<1>3. CASE End(p) /\ UNCHANGED version
  BY <1>1, <1>3, RequestEnds, SharedKept DEF receipts, rows
<1>4. CASE /\ version[on[p]] = None /\ version' = [version EXCEPT ![on[p]] = p]
           /\ build' = [build EXCEPT ![p] = p] /\ Goto(p, "receipt")
           /\ UNCHANGED <<on, mode, report, try, saw, family>>
  <2>1. /\ version' \in [Cases -> Procs \cup {None}]
        /\ \A c \in Cases : version'[c] = IF c = on[p] THEN p ELSE version[c]
    BY <1>1, <1>4 DEF SharedTypes
  <2>2. SharedTypes'
    BY <1>1, <2>1 DEF SharedTypes, receipts, rows
  <2>3. Grows /\ \A q \in Procs : ChildKept(q)
    BY <1>1, <1>4, <2>1 DEF Grows, ChildKept, receipts, rows
  <2>4. \A c \in Cases : CaseFits(c)'
    BY <1>1, <1>4, <2>1 DEF IInv, CaseFits, receipts, rows
  <2>5. /\ LocalTypes' /\ pc'[p] = "receipt" /\ build'[p] = p
        /\ on'[p] = on[p] /\ mode'[p] = mode[p] /\ report'[p] = report[p]
        /\ try'[p] = try[p] /\ saw'[p] = saw[p] /\ family'[p] = family[p]
        /\ \A q \in Procs \ {p} : Same(q)
    BY <1>1, <1>4 DEF LocalTypes, Goto, Same, PCs
  <2>6. ThreadFits(p)'
    BY <1>1, <1>2, <2>1, <2>5, CapaAssumption
       DEF ThreadFits, FitsAt, Executing, Authorized, Built, Receipted, Closing, PCs, receipts, rows
  <2>7. TypeOK'
    BY <2>2, <2>5, TypesSplit, PTL
  <2> QED BY <2>3, <2>4, <2>5, <2>6, <2>7, RequestMoves
<1> QED BY <1>3, <1>4 DEF Publish

LEMMA DerivedStep ==
  ASSUME IInv, NEW p \in Procs, WriteDerived(p)
  PROVE  IInv'
<1>1. /\ pc[p] = "receipt" /\ FitsAt(p, "receipt") /\ SharedTypes /\ LocalTypes
      /\ UNCHANGED <<selection, queue, approval, authz, gate, execution, closed,
                     recovery, assessed, version, rows, parent, crashes>>
  BY TypesSplit DEF WriteDerived, IInv, ThreadFits
<1>2. on[p] \in Cases /\ on[p] \in approval /\ build[p] \in Procs /\ build[p] = version[on[p]] /\ build[p] # None
  BY <1>1 DEF FitsAt, Executing, Authorized, Built, PCs, LocalTypes
<1>3. CASE End(p) /\ UNCHANGED derived
  BY <1>1, <1>3, RequestEnds DEF SharedTypes, rows
<1>4. CASE /\ derived[on[p]] \in {None, build[p]} /\ derived' = [derived EXCEPT ![on[p]] = build[p]]
           /\ Goto(p, "register") /\ UNCHANGED locals
  <2>1. /\ derived' \in [Cases -> Procs \cup {None}]
        /\ \A c \in Cases : derived'[c] = IF c = on[p] THEN build[p] ELSE derived[c]
    BY <1>1, <1>2, <1>4 DEF SharedTypes
  <2>2. SharedTypes'
    BY <1>1, <2>1 DEF SharedTypes, rows
  <2>3. Grows /\ \A q \in Procs : ChildKept(q)
    BY <1>1, <1>4, <2>1 DEF Grows, ChildKept, rows
  <2>4. \A c \in Cases : CaseFits(c)'
    BY <1>1, <1>2, <2>1 DEF IInv, CaseFits, rows
  <2>5. "register" \in PCs
    BY DEF PCs
  <2>6. /\ LocalTypes' /\ pc'[p] = "register"
        /\ on'[p] = on[p] /\ mode'[p] = mode[p] /\ report'[p] = report[p] /\ build'[p] = build[p]
        /\ try'[p] = try[p] /\ saw'[p] = saw[p] /\ family'[p] = family[p]
        /\ \A q \in Procs \ {p} : Same(q)
    BY <1>1, <1>4, <2>5, GoesOn
  <2>7. ThreadFits(p)'
    BY <1>1, <1>2, <2>1, <2>6
       DEF ThreadFits, FitsAt, Executing, Authorized, Built, Receipted, Closing, PCs, rows
  <2>8. TypeOK'
    BY <2>2, <2>6, TypesSplit, PTL
  <2> QED BY <2>3, <2>4, <2>6, <2>7, <2>8, RequestMoves
<1> QED BY <1>3, <1>4 DEF WriteDerived

LEMMA RegisterStep ==
  ASSUME IInv, NEW p \in Procs, Register(p)
  PROVE  IInv'
<1>1. /\ pc[p] = "register" /\ FitsAt(p, "register") /\ SharedTypes /\ LocalTypes
      /\ UNCHANGED <<receipts, version, child, agreed, parent, crashes>>
  BY TypesSplit DEF Register, IInv, ThreadFits
<1>2. on[p] \in Cases /\ try[p] \in Attempts
  BY <1>1 DEF FitsAt, LocalTypes
<1>3. SharedTypes'
  BY <1>1 DEF Register, SharedTypes, receipts
<1>4. CASE End(p)
  BY <1>1, <1>3, <1>4, RequestEnds DEF receipts
<1>5. CASE /\ saw' = [saw EXCEPT ![p] = IF report[p].executed THEN child[on[p]][try[p]] ELSE "ABSENT"]
           /\ Goto(p, IF report[p].executed THEN "agree" ELSE "child")
           /\ UNCHANGED <<on, mode, report, build, try, family>>
  <2>1. (IF report[p].executed THEN child[on[p]][try[p]] ELSE "ABSENT") \in Statuses
    BY <1>1, <1>2 DEF SharedTypes, Families, Statuses
  <2>2. /\ LocalTypes' /\ pc'[p] = (IF report[p].executed THEN "agree" ELSE "child")
        /\ on'[p] = on[p] /\ mode'[p] = mode[p] /\ report'[p] = report[p] /\ build'[p] = build[p]
        /\ try'[p] = try[p] /\ family'[p] = family[p]
        /\ \A q \in Procs \ {p} : Same(q)
    BY <1>1, <1>5, <2>1 DEF LocalTypes, Goto, Same, PCs
  <2>3. ThreadFits(p)'
    BY <1>1, <2>2 DEF ThreadFits, FitsAt, Executing, Authorized, Built, Receipted, Closing, PCs, receipts
  <2>4. TypeOK'
    BY <1>3, <2>2, TypesSplit, PTL
  <2> QED BY <1>1, <2>2, <2>3, <2>4, CasesKept, RequestMoves DEF receipts
<1> QED BY <1>4, <1>5 DEF Register

-----------------------------------------------------------------------------
(* The child attempts *)

\* One attempt of one case that has not ended changes its status.
LEMMA ChildMoves ==
  ASSUME IInv, NEW c \in Cases, NEW a \in Attempts, NEW st \in Statuses,
         child' = [child EXCEPT ![c][a] = st],
         child[c][a] \notin Ended \cup {"COMPLETED"},
         \A b \in Attempts : b < a => child[c][b] \in Ended,
         UNCHANGED <<receipts, version>>
  PROVE  /\ child' \in Families /\ Grows /\ \A d \in Cases : CaseFits(d)'
         /\ child'[c][a] = st
         /\ \A d \in Cases : \A b \in Attempts :
              ~(d = c /\ b = a) => child'[d][b] = child[d][b]
<1>1. child \in Families
  BY TypesSplit DEF IInv, SharedTypes
<1>2. /\ child' \in Families /\ child'[c][a] = st
      /\ \A d \in Cases : \A b \in Attempts : ~(d = c /\ b = a) => child'[d][b] = child[d][b]
  BY <1>1 DEF Families
<1>3. Grows
  BY <1>2 DEF Grows, receipts
<1>4. ASSUME NEW d \in Cases PROVE CaseFits(d)'
  <2>1. CaseFits(d) /\ (execution[d] # None => execution[d].try \in Attempts)
    BY TypesSplit DEF IInv, SharedTypes, Executions
  <2>2. execution[d] # None => child'[d][execution[d].try] = "COMPLETED"
    BY <1>2, <2>1 DEF CaseFits
  <2>3. ASSUME NEW e \in Attempts, NEW b \in Attempts, b < e, child'[d][e] # "ABSENT"
        PROVE  child'[d][b] \in Ended
    <3>1. child[d][b] \in Ended
      BY <1>2, <2>1, <2>3 DEF CaseFits
    <3> QED BY <1>2, <3>1
  <2> QED BY <2>1, <2>2, <2>3 DEF CaseFits, receipts
<1> QED BY <1>2, <1>3, <1>4

LEMMA CreateStep ==
  ASSUME IInv, NEW p \in Procs, CreateChild(p)
  PROVE  IInv'
<1>1. /\ pc[p] = "child" /\ FitsAt(p, "child") /\ SharedTypes /\ LocalTypes
      /\ UNCHANGED <<receipts, version, granted, agreed, parent, crashes>>
  BY TypesSplit DEF CreateChild, IInv, ThreadFits
<1>2. /\ on[p] \in Cases /\ try[p] \in Attempts /\ ~report[p].executed
      /\ \A b \in Attempts : b < try[p] => child[on[p]][b] \in Ended
  BY <1>1 DEF FitsAt, LocalTypes
<1> DEFINE s == child[on[p]][try[p]]
<1>3. CASE End(p) /\ UNCHANGED child
  BY <1>1, <1>3, RequestEnds DEF SharedTypes, receipts
\* The next attempt is looked at.
<1>4. CASE /\ s \in Ended /\ MayTryAgain(try[p]) /\ try' = [try EXCEPT ![p] = try[p] + 1]
           /\ UNCHANGED <<child, pc, on, mode, report, build, saw, family>>
  <2>1. try[p] + 1 \in Attempts
    BY <1>2, <1>4, CapaAssumption DEF MayTryAgain, Attempts
  <2>2. /\ LocalTypes' /\ pc'[p] = "child" /\ try'[p] = try[p] + 1
        /\ on'[p] = on[p] /\ mode'[p] = mode[p] /\ report'[p] = report[p] /\ build'[p] = build[p]
        /\ saw'[p] = saw[p] /\ family'[p] = family[p]
        /\ \A q \in Procs \ {p} : Same(q)
    BY <1>1, <1>4, <2>1 DEF LocalTypes, Same
  <2>3. \A b \in Attempts : b < try[p] + 1 => child[on[p]][b] \in Ended
    BY <1>2, <1>4 DEF Attempts
  <2>4. ThreadFits(p)'
    BY <1>1, <1>2, <1>4, <2>2, <2>3
       DEF ThreadFits, FitsAt, Executing, Authorized, Built, Receipted, Closing, PCs, receipts
  <2>5. SharedTypes'
    BY <1>1, <1>4 DEF SharedTypes, receipts
  <2>6. TypeOK'
    BY <2>2, <2>5, TypesSplit, PTL
  <2> QED BY <1>1, <1>4, <2>2, <2>4, <2>6, CasesKept, RequestMoves DEF receipts
\* The attempt is created, or was by an earlier request.
<1>5. CASE /\ s \in {"ABSENT", "PLANNED", "COMPLETED"}
           /\ child' = [child EXCEPT ![on[p]][try[p]] = IF s = "ABSENT" THEN "PLANNED" ELSE s]
           /\ saw' = [saw EXCEPT ![p] = IF s = "ABSENT" THEN "PLANNED" ELSE s]
           /\ Goto(p, "agree") /\ UNCHANGED <<on, mode, report, build, try, family>>
  <2> DEFINE st == IF s = "ABSENT" THEN "PLANNED" ELSE s
  <2>1. st \in Statuses
    BY <1>5 DEF Statuses
  <2>2. child' \in Families /\ Grows /\ (\A d \in Cases : CaseFits(d)') /\ (\A q \in Procs \ {p} : ChildKept(q))
    <3>1. CASE s = "ABSENT"
      <4>1. /\ child' \in Families /\ Grows /\ \A d \in Cases : CaseFits(d)'
            /\ \A d \in Cases : \A b \in Attempts :
                 ~(d = on[p] /\ b = try[p]) => child'[d][b] = child[d][b]
        BY <1>1, <1>2, <1>5, <2>1, <3>1, ChildMoves DEF Ended
      <4>2. ASSUME NEW q \in Procs, pc[q] = "running"
            PROVE  child'[on[q]][try[q]] = child[on[q]][try[q]]
        <5>1. on[q] \in Cases /\ try[q] \in Attempts /\ child[on[q]][try[q]] = "RUNNING"
          BY <1>1, <4>2 DEF IInv, ThreadFits, FitsAt, LocalTypes
        <5> QED BY <3>1, <4>1, <5>1
      <4> QED BY <4>1, <4>2 DEF ChildKept
    <3>2. CASE s # "ABSENT"
      <4>1. child' = child
        BY <1>1, <1>2, <1>5, <3>2 DEF SharedTypes, Families
      <4> QED BY <1>1, <4>1, CasesKept DEF SharedTypes, receipts
    <3> QED BY <3>1, <3>2
  <2>3. SharedTypes'
    BY <1>1, <2>2 DEF SharedTypes, receipts
  <2>4. /\ LocalTypes' /\ pc'[p] = "agree"
        /\ on'[p] = on[p] /\ mode'[p] = mode[p] /\ report'[p] = report[p] /\ build'[p] = build[p]
        /\ try'[p] = try[p] /\ family'[p] = family[p]
        /\ \A q \in Procs \ {p} : Same(q)
    BY <1>1, <1>5, <2>1 DEF LocalTypes, Goto, Same, PCs
  <2>5. \A b \in Attempts : b < try[p] => child'[on[p]][b] \in Ended
    BY <1>2, <2>2 DEF Grows
  <2>6. ThreadFits(p)'
    BY <1>1, <1>2, <2>4, <2>5
       DEF ThreadFits, FitsAt, Executing, Authorized, Built, Receipted, Closing, PCs, receipts
  <2>7. TypeOK'
    BY <2>3, <2>4, TypesSplit, PTL
  <2> QED BY <2>2, <2>4, <2>6, <2>7, RequestMoves
<1> QED BY <1>3, <1>4, <1>5 DEF CreateChild

LEMMA AgreeStep ==
  ASSUME IInv, NEW p \in Procs, AgreeChild(p)
  PROVE  IInv'
<1>1. /\ pc[p] = "agree" /\ FitsAt(p, "agree") /\ SharedTypes /\ LocalTypes
      /\ UNCHANGED <<receipts, version, granted, child, parent, crashes>>
  BY TypesSplit DEF AgreeChild, IInv, ThreadFits
<1>2. on[p] \in Cases /\ try[p] \in Attempts
  BY <1>1 DEF FitsAt, LocalTypes
<1>3. SharedTypes'
  <2>1. agreed' \in [Cases -> SUBSET Attempts]
    BY <1>1, <1>2 DEF AgreeChild, SharedTypes
  <2> QED BY <1>1, <2>1 DEF SharedTypes, receipts
<1>4. CASE End(p)
  BY <1>1, <1>3, <1>4, RequestEnds DEF receipts
<1>5. ASSUME NEW label \in {"run", "recheck"}, Goto(p, label), UNCHANGED locals
      PROVE  IInv'
  <2>1. FitsAt(p, label)
    BY <1>1, <1>5 DEF FitsAt, Executing, Authorized, Built, Receipted, Closing, PCs
  <2> QED BY <1>1, <1>3, <1>5, <2>1, Advances DEF PCs, receipts
<1> QED BY <1>4, <1>5 DEF AgreeChild

LEMMA RunStep ==
  ASSUME IInv, NEW p \in Procs, RunChild(p)
  PROVE  IInv'
<1>1. /\ pc[p] = "run" /\ FitsAt(p, "run") /\ SharedTypes /\ LocalTypes
      /\ UNCHANGED <<receipts, version, granted, agreed, parent, crashes>>
  BY TypesSplit DEF RunChild, IInv, ThreadFits
<1>2. /\ on[p] \in Cases /\ try[p] \in Attempts
      /\ \A b \in Attempts : b < try[p] => child[on[p]][b] \in Ended
  BY <1>1 DEF FitsAt, LocalTypes
<1>3. CASE End(p) /\ UNCHANGED child
  BY <1>1, <1>3, RequestEnds, SharedKept DEF receipts, rows
<1>4. CASE Goto(p, "recheck") /\ UNCHANGED <<child, locals>>
  <2>1. FitsAt(p, "recheck")
    BY <1>1 DEF FitsAt, Executing, Authorized, Built, Receipted, Closing, PCs
  <2> QED BY <1>1, <1>4, <2>1, Advances, SharedKept DEF PCs, receipts, rows
\* The run is claimed: nobody else waits for a child that is planned.
<1>5. CASE /\ child[on[p]][try[p]] = "PLANNED"
           /\ child' = [child EXCEPT ![on[p]][try[p]] = "RUNNING"]
           /\ Goto(p, "running") /\ UNCHANGED locals
  <2>1. /\ child' \in Families /\ Grows /\ \A d \in Cases : CaseFits(d)'
        /\ child'[on[p]][try[p]] = "RUNNING"
        /\ \A d \in Cases : \A b \in Attempts :
             ~(d = on[p] /\ b = try[p]) => child'[d][b] = child[d][b]
    BY <1>1, <1>2, <1>5, ChildMoves DEF Ended, Statuses
  <2>2. ASSUME NEW q \in Procs, pc[q] = "running"
        PROVE  ~(on[q] = on[p] /\ try[q] = try[p]) /\ child'[on[q]][try[q]] = child[on[q]][try[q]]
    <3>1. on[q] \in Cases /\ try[q] \in Attempts /\ child[on[q]][try[q]] = "RUNNING"
      BY <1>1, <2>2 DEF IInv, ThreadFits, FitsAt, LocalTypes
    <3> QED BY <1>5, <2>1, <3>1
  <2>3. SharedTypes'
    BY <1>1, <2>1 DEF SharedTypes, receipts
  <2>4. "running" \in PCs
    BY DEF PCs
  <2>5. /\ LocalTypes' /\ pc'[p] = "running"
        /\ on'[p] = on[p] /\ mode'[p] = mode[p] /\ report'[p] = report[p] /\ build'[p] = build[p]
        /\ try'[p] = try[p] /\ saw'[p] = saw[p] /\ family'[p] = family[p]
        /\ \A q \in Procs \ {p} : Same(q)
    BY <1>1, <1>5, <2>4, GoesOn
  <2>6. \A b \in Attempts : b < try[p] => child'[on[p]][b] \in Ended
    BY <1>2, <2>1 DEF Grows
  <2>7. ThreadFits(p)'
    BY <1>1, <1>2, <2>1, <2>5, <2>6
       DEF ThreadFits, FitsAt, Executing, Authorized, Built, Receipted, Closing, PCs, receipts
  <2>8. TypeOK'
    BY <2>3, <2>5, TypesSplit, PTL
  <2> QED BY <2>1, <2>2, <2>5, <2>7, <2>8, RequestMoves DEF ChildKept
<1> QED BY <1>3, <1>4, <1>5 DEF RunChild

LEMMA ChildEndsStep ==
  ASSUME IInv, NEW p \in Procs, ChildEnds(p)
  PROVE  IInv'
<1>1. /\ pc[p] = "running" /\ FitsAt(p, "running") /\ SharedTypes /\ LocalTypes
      /\ UNCHANGED <<receipts, version, granted, agreed, parent, crashes>>
  BY TypesSplit DEF ChildEnds, IInv, ThreadFits
<1>2. /\ on[p] \in Cases /\ try[p] \in Attempts /\ child[on[p]][try[p]] = "RUNNING"
      /\ \A b \in Attempts : b < try[p] => child[on[p]][b] \in Ended
  BY <1>1 DEF FitsAt, LocalTypes
<1>3. PICK st \in {"COMPLETED", "FAILED"} :
        /\ child' = [child EXCEPT ![on[p]][try[p]] = st]
        /\ (Goto(p, "recheck") /\ UNCHANGED locals) \/ End(p)
  BY DEF ChildEnds
<1>4. /\ child' \in Families /\ Grows /\ \A d \in Cases : CaseFits(d)'
      /\ \A d \in Cases : \A b \in Attempts :
           ~(d = on[p] /\ b = try[p]) => child'[d][b] = child[d][b]
  BY <1>1, <1>2, <1>3, ChildMoves DEF Ended, Statuses
<1>5. \A q \in Procs \ {p} : ChildKept(q)
  <2> SUFFICES ASSUME NEW q \in Procs, q # p, pc[q] = "running"
               PROVE  child'[on[q]][try[q]] = child[on[q]][try[q]]
    BY DEF ChildKept
  <2>1. on[q] \in Cases /\ try[q] \in Attempts
    BY <1>1 DEF IInv, ThreadFits, FitsAt, LocalTypes
  <2>2. ~(on[q] = on[p] /\ try[q] = try[p])
    BY <1>1 DEF IInv, OwnersDiffer
  <2> QED BY <1>4, <2>1, <2>2
<1>6. SharedTypes'
  BY <1>1, <1>4 DEF SharedTypes, receipts
<1>7. CASE End(p)
  <2>1. LocalTypes' /\ ThreadFits(p)' /\ pc'[p] = "idle" /\ \A q \in Procs \ {p} : Same(q)
    BY <1>1, <1>7, Ends
  <2>2. TypeOK'
    BY <1>6, <2>1, TypesSplit, PTL
  <2> QED BY <1>4, <1>5, <2>1, <2>2, RequestMoves
<1>8. CASE Goto(p, "recheck") /\ UNCHANGED locals
  <2>1. "recheck" \in PCs
    BY DEF PCs
  <2>2. /\ LocalTypes' /\ pc'[p] = "recheck"
        /\ on'[p] = on[p] /\ mode'[p] = mode[p] /\ report'[p] = report[p] /\ build'[p] = build[p]
        /\ try'[p] = try[p] /\ saw'[p] = saw[p] /\ family'[p] = family[p]
        /\ \A q \in Procs \ {p} : Same(q)
    BY <1>1, <1>8, <2>1, GoesOn
  <2>3. \A b \in Attempts : b < try[p] => child'[on[p]][b] \in Ended
    BY <1>2, <1>4 DEF Grows
  <2>4. ThreadFits(p)'
    BY <1>1, <1>2, <2>2, <2>3
       DEF ThreadFits, FitsAt, Executing, Authorized, Built, Receipted, Closing, PCs, receipts
  <2>5. TypeOK'
    BY <1>6, <2>2, TypesSplit, PTL
  <2> QED BY <1>4, <1>5, <2>2, <2>4, <2>5, RequestMoves
<1> QED BY <1>3, <1>7, <1>8

-----------------------------------------------------------------------------
(* The last receipts *)

LEMMA RecheckStep ==
  ASSUME IInv, NEW p \in Procs, Recheck(p)
  PROVE  IInv'
<1>1. /\ pc[p] = "recheck" /\ FitsAt(p, "recheck") /\ SharedTypes /\ LocalTypes /\ SharedTypes'
      /\ UNCHANGED <<approval, authz, derived, execution, closed, recovery, version, child>>
  BY TypesSplit, SharedKept DEF Recheck, IInv, ThreadFits, receipts, rows
<1>2. CASE End(p)
  BY <1>1, <1>2, RequestEnds
<1>3. CASE /\ child[on[p]][try[p]] = "COMPLETED" /\ family' = [family EXCEPT ![p] = child]
           /\ Goto(p, IF report[p].executed THEN "close" ELSE "execution")
           /\ UNCHANGED <<on, mode, report, build, try, saw>>
  <2>1. child \in Families
    BY <1>1 DEF SharedTypes
  <2>2. /\ LocalTypes' /\ pc'[p] = (IF report[p].executed THEN "close" ELSE "execution")
        /\ family'[p] = child
        /\ on'[p] = on[p] /\ mode'[p] = mode[p] /\ report'[p] = report[p] /\ build'[p] = build[p]
        /\ try'[p] = try[p] /\ saw'[p] = saw[p]
        /\ \A q \in Procs \ {p} : Same(q)
    BY <1>1, <1>3, <2>1 DEF LocalTypes, Goto, Same, PCs
  <2>3. ThreadFits(p)'
    BY <1>1, <1>3, <2>1, <2>2
       DEF ThreadFits, FitsAt, Executing, Authorized, Built, Receipted, Closing, PCs
  <2>4. TypeOK'
    BY <1>1, <2>2, TypesSplit, PTL
  <2> QED BY <1>1, <2>2, <2>3, <2>4, CasesKept, RequestMoves
<1> QED BY <1>2, <1>3 DEF Recheck

LEMMA ClosedStep ==
  ASSUME IInv, NEW p \in Procs, WriteClosed(p)
  PROVE  IInv'
<1>1. /\ pc[p] = "close" /\ FitsAt(p, "close") /\ SharedTypes /\ LocalTypes
      /\ closed' = closed \cup {on[p]} /\ Goto(p, "recovery")
      /\ UNCHANGED <<selection, queue, approval, authz, gate, derived, execution,
                     recovery, assessed, version, rows, parent, locals, crashes>>
  BY TypesSplit DEF WriteClosed, IInv, ThreadFits
<1>2. on[p] \in Cases /\ execution[on[p]] # None
  BY <1>1 DEF FitsAt, Closing
<1>3. SharedTypes'
  BY <1>1, <1>2 DEF SharedTypes, rows
<1>4. Grows /\ \A q \in Procs : ChildKept(q)
  BY <1>1 DEF Grows, ChildKept, rows
<1>5. \A c \in Cases : CaseFits(c)'
  BY <1>1, <1>2 DEF IInv, CaseFits, rows
<1>6. "recovery" \in PCs
  BY DEF PCs
<1>7. /\ LocalTypes' /\ pc'[p] = "recovery"
      /\ on'[p] = on[p] /\ mode'[p] = mode[p] /\ report'[p] = report[p] /\ build'[p] = build[p]
      /\ try'[p] = try[p] /\ saw'[p] = saw[p] /\ family'[p] = family[p]
      /\ \A q \in Procs \ {p} : Same(q)
  BY <1>1, <1>6, GoesOn
<1>8. ThreadFits(p)'
  BY <1>1, <1>7 DEF ThreadFits, FitsAt, Executing, Authorized, Built, Receipted, Closing, PCs, rows
<1>9. TypeOK'
  BY <1>3, <1>7, TypesSplit, PTL
<1> QED BY <1>4, <1>5, <1>7, <1>8, <1>9, RequestMoves

LEMMA RecoveryStep ==
  ASSUME IInv, NEW p \in Procs, WriteRecovery(p)
  PROVE  IInv'
<1>1. /\ pc[p] = "recovery" /\ FitsAt(p, "recovery") /\ SharedTypes /\ LocalTypes
      /\ UNCHANGED <<selection, queue, approval, authz, gate, derived, execution,
                     closed, assessed, version, rows, parent, crashes>>
  BY TypesSplit DEF WriteRecovery, IInv, ThreadFits
<1>2. on[p] \in Cases /\ on[p] \in closed
  BY <1>1 DEF FitsAt
<1>3. CASE End(p) /\ UNCHANGED recovery
  BY <1>1, <1>3, RequestEnds DEF SharedTypes, rows
<1>4. CASE recovery' = recovery \cup {on[p]} /\ Goto(p, "assess") /\ UNCHANGED locals
  <2>1. SharedTypes'
    BY <1>1, <1>2, <1>4 DEF SharedTypes, rows
  <2>2. Grows /\ \A q \in Procs : ChildKept(q)
    BY <1>1 DEF Grows, ChildKept, rows
  <2>3. \A c \in Cases : CaseFits(c)'
    BY <1>1, <1>2, <1>4 DEF IInv, CaseFits, rows
  <2>4. "assess" \in PCs
    BY DEF PCs
  <2>5. /\ LocalTypes' /\ pc'[p] = "assess"
        /\ on'[p] = on[p] /\ mode'[p] = mode[p] /\ report'[p] = report[p] /\ build'[p] = build[p]
        /\ try'[p] = try[p] /\ saw'[p] = saw[p] /\ family'[p] = family[p]
        /\ \A q \in Procs \ {p} : Same(q)
    BY <1>1, <1>4, <2>4, GoesOn
  <2>6. ThreadFits(p)'
    BY <1>1, <2>5 DEF ThreadFits, FitsAt, Executing, Authorized, Built, Receipted, Closing, PCs, rows
  <2>7. TypeOK'
    BY <2>1, <2>5, TypesSplit, PTL
  <2> QED BY <2>2, <2>3, <2>5, <2>6, <2>7, RequestMoves
<1> QED BY <1>3, <1>4 DEF WriteRecovery

LEMMA ExecutionStep ==
  ASSUME IInv, NEW p \in Procs, WriteExecution(p)
  PROVE  IInv'
<1>1. /\ pc[p] = "execution" /\ FitsAt(p, "execution") /\ SharedTypes /\ LocalTypes
      /\ UNCHANGED <<selection, queue, approval, authz, gate, derived, closed,
                     recovery, assessed, version, rows, parent, crashes>>
  BY TypesSplit DEF WriteExecution, IInv, ThreadFits
<1>2. /\ on[p] \in Cases /\ on[p] \in approval /\ mode[p] \in Modes /\ derived[on[p]] # None
      /\ mode[p] \in Named => authz[on[p]] = mode[p]
      /\ child[on[p]][try[p]] = "COMPLETED" /\ try[p] \in Attempts
      /\ family[p] \in Families
  BY <1>1 DEF FitsAt, Executing, Authorized, Built, Receipted, PCs, LocalTypes
<1>3. CASE End(p) /\ UNCHANGED execution
  BY <1>1, <1>3, RequestEnds DEF SharedTypes, rows
<1>4. CASE /\ execution[on[p]] = None
           /\ execution' = [execution EXCEPT ![on[p]] =
                [mode |-> mode[p], try |-> try[p], family |-> family[p]]]
           /\ Goto(p, "close") /\ UNCHANGED locals
  <2> DEFINE receipt == [mode |-> mode[p], try |-> try[p], family |-> family[p]]
  <2>1. receipt \in Executions /\ receipt # None /\ receipt.mode = mode[p] /\ receipt.try = try[p]
    <3>1. mode[p] \in Named \cup {Unnamed}
      BY <1>2, CapaAssumption
    <3>2. receipt \in Executions /\ receipt.mode = mode[p] /\ receipt.try = try[p]
      BY <1>2, <3>1 DEF Executions
    <3> QED BY <3>2, NoneAssumption
  <2> HIDE DEF receipt
  <2>2. /\ execution' \in [Cases -> Executions \cup {None}]
        /\ \A c \in Cases : execution'[c] = IF c = on[p] THEN receipt ELSE execution[c]
    <3>1. execution' = [execution EXCEPT ![on[p]] = receipt]
      BY <1>4 DEF receipt
    <3> QED BY <1>1, <1>2, <2>1, <3>1 DEF SharedTypes
  <2>3. SharedTypes'
    BY <1>1, <2>2 DEF SharedTypes, rows
  <2>4. Grows /\ \A q \in Procs : ChildKept(q)
    BY <1>1, <1>4, <2>2 DEF Grows, ChildKept, rows
  <2>5. \A c \in Cases : CaseFits(c)'
    BY <1>1, <1>2, <2>1, <2>2 DEF IInv, CaseFits, rows
  <2>6. "close" \in PCs
    BY DEF PCs
  <2>7. /\ LocalTypes' /\ pc'[p] = "close"
        /\ on'[p] = on[p] /\ mode'[p] = mode[p] /\ report'[p] = report[p] /\ build'[p] = build[p]
        /\ try'[p] = try[p] /\ saw'[p] = saw[p] /\ family'[p] = family[p]
        /\ \A q \in Procs \ {p} : Same(q)
    BY <1>1, <1>4, <2>6, GoesOn
  <2>8. ThreadFits(p)'
    BY <1>1, <1>2, <2>1, <2>2, <2>7
       DEF ThreadFits, FitsAt, Executing, Authorized, Built, Receipted, Closing, PCs, rows
  <2>9. TypeOK'
    BY <2>3, <2>7, TypesSplit, PTL
  <2> QED BY <2>4, <2>5, <2>7, <2>8, <2>9, RequestMoves
<1> QED BY <1>3, <1>4 DEF WriteExecution

\* A request that ends with its step, or dies.
LEMMA LastStep ==
  ASSUME IInv, NEW p \in Procs, SelectQueue(p) \/ WriteAssessment(p) \/ Crash(p)
  PROVE  IInv'
<1>1. pc[p] # "idle" /\ End(p)
      /\ UNCHANGED <<approval, authz, derived, execution, closed, recovery, version, child>>
  BY DEF SelectQueue, WriteAssessment, Crash, receipts, rows
<1>2. SharedTypes /\ on[p] \in Cases /\ MaxCrashes \in Nat
  BY <1>1, TypesSplit, CapaAssumption DEF IInv, ThreadFits, FitsAt
<1>3. SharedTypes'
  BY <1>2 DEF SelectQueue, WriteAssessment, Crash, SharedTypes, receipts, rows
<1> QED BY <1>1, <1>3, RequestEnds

-----------------------------------------------------------------------------
(* Operators *)

LEMMA WorldStep ==
  ASSUME IInv, Operators
  PROVE  IInv'
<1>1. SharedTypes /\ LocalTypes
  BY TypesSplit DEF IInv
<1>2. UNCHANGED <<pc, locals, receipts, version, agreed, crashes>>
  BY DEF Operators, SourceDrifts, RevokeParent, RevokeDerived, CancelChild, RecoverChild, rows
<1>3. LocalTypes'
  BY <1>1, <1>2 DEF LocalTypes, locals
<1>4. CASE SourceDrifts \/ RevokeParent
  <2>1. SharedTypes' /\ UNCHANGED child
    BY <1>1, <1>2, <1>4 DEF SourceDrifts, RevokeParent, SharedTypes, receipts, rows
  <2>2. TypeOK'
    BY <1>3, <2>1, TypesSplit, PTL
  <2> QED BY <1>2, <2>1, <2>2, CasesKept, NoRequestMoves DEF receipts
<1>5. ASSUME NEW c \in Cases, NEW a \in Attempts, CancelChild(c, a) \/ RecoverChild(c, a)
      PROVE  IInv'
  <2>1. PICK st \in {"CANCELLED", "FAILED"} : child' = [child EXCEPT ![c][a] = st]
    BY <1>5 DEF CancelChild, RecoverChild
  <2>2. child[c][a] \in {"PLANNED", "RUNNING"} /\ UNCHANGED <<granted, parent>>
    BY <1>5 DEF CancelChild, RecoverChild
  <2>3. \A b \in Attempts : b < a => child[c][b] \in Ended
    BY <2>2 DEF IInv, CaseFits
  <2>4. /\ child' \in Families /\ Grows /\ \A d \in Cases : CaseFits(d)'
        /\ \A d \in Cases : \A b \in Attempts :
             ~(d = c /\ b = a) => child'[d][b] = child[d][b]
    BY <1>2, <2>1, <2>2, <2>3, ChildMoves DEF Ended, Statuses
  <2>5. ASSUME NEW q \in Procs, pc[q] = "running"
        PROVE  child'[on[q]][try[q]] = child[on[q]][try[q]]
    <3>1. on[q] \in Cases /\ try[q] \in Attempts /\ child[on[q]][try[q]] = "RUNNING"
      BY <1>1, <2>5 DEF IInv, ThreadFits, FitsAt, LocalTypes
    <3>2. ~(on[q] = c /\ try[q] = a)
      BY <1>5, <2>5, <3>1 DEF CancelChild, RecoverChild
    <3> QED BY <2>4, <3>1, <3>2
  <2>6. SharedTypes'
    BY <1>1, <1>2, <2>2, <2>4 DEF SharedTypes, receipts
  <2>7. TypeOK'
    BY <1>3, <2>6, TypesSplit, PTL
  <2> QED BY <1>2, <2>4, <2>5, <2>7, NoRequestMoves DEF ChildKept
<1>6. ASSUME NEW c \in Cases, RevokeDerived(c)
      PROVE  IInv'
  <2>1. /\ granted' = [granted EXCEPT ![c] = "REVOKED"] /\ UNCHANGED parent
        /\ child' = [child EXCEPT ![c] =
             [a \in Attempts |-> IF child[c][a] = "PLANNED" THEN "FAILED" ELSE child[c][a]]]
    BY <1>6 DEF RevokeDerived
  <2>2. /\ child' \in Families
        /\ \A d \in Cases : \A a \in Attempts :
             child'[d][a] = IF d = c /\ child[d][a] = "PLANNED" THEN "FAILED" ELSE child[d][a]
    <3>1. [a \in Attempts |-> IF child[c][a] = "PLANNED" THEN "FAILED" ELSE child[c][a]]
            \in [Attempts -> Statuses]
      BY <1>1 DEF SharedTypes, Families, Statuses
    <3> QED BY <1>1, <2>1, <3>1 DEF SharedTypes, Families
  <2>3. Grows
    BY <1>2, <2>2 DEF Grows, Ended, receipts
  <2>4. ASSUME NEW d \in Cases PROVE CaseFits(d)'
    <3>1. CaseFits(d) /\ (execution[d] # None => execution[d].try \in Attempts)
      BY <1>1 DEF IInv, SharedTypes, Executions
    <3>2. execution[d] # None => child'[d][execution[d].try] = "COMPLETED"
      BY <2>2, <3>1 DEF CaseFits
    <3>3. ASSUME NEW e \in Attempts, NEW b \in Attempts, b < e, child'[d][e] # "ABSENT"
          PROVE  child'[d][b] \in Ended
      <4>1. child[d][b] \in Ended
        BY <2>2, <3>1, <3>3 DEF CaseFits
      <4> QED BY <2>2, <4>1 DEF Ended
    <3> QED BY <1>2, <3>1, <3>2, <3>3 DEF CaseFits, receipts
  <2>5. ASSUME NEW q \in Procs, pc[q] = "running"
        PROVE  child'[on[q]][try[q]] = child[on[q]][try[q]]
    <3>1. on[q] \in Cases /\ try[q] \in Attempts /\ child[on[q]][try[q]] = "RUNNING"
      BY <1>1, <2>5 DEF IInv, ThreadFits, FitsAt, LocalTypes
    <3> QED BY <2>2, <3>1
  <2>6. SharedTypes'
    BY <1>1, <1>2, <2>1, <2>2 DEF SharedTypes, receipts
  <2>7. TypeOK'
    BY <1>3, <2>6, TypesSplit, PTL
  <2> QED BY <1>2, <2>3, <2>4, <2>5, <2>7, NoRequestMoves DEF ChildKept
<1> QED BY <1>4, <1>5, <1>6 DEF Operators

LEMMA NextIInv == IInv /\ [Next]_vars => IInv'
<1> SUFFICES ASSUME IInv, [Next]_vars PROVE IInv'
  OBVIOUS
<1>1. ASSUME NEW p \in Procs, Step(p) PROVE IInv'
  BY <1>1, LastStep, ApprovalStep, CheckSourceStep, AuthorizationStep, GateStep, DeriveStep, PublishStep,
     DerivedStep, RegisterStep, CreateStep, AgreeStep, RunStep, ChildEndsStep, RecheckStep,
     ExecutionStep, ClosedStep, RecoveryStep DEF Step
<1>2. ASSUME NEW p \in Procs, Requests(p) PROVE IInv'
  BY <1>2, SelectStep DEF Requests
<1>3. ASSUME NEW p \in Procs, Crash(p) PROVE IInv'
  BY <1>3, LastStep
<1>4. CASE Operators
  BY <1>4, WorldStep
<1>5. CASE UNCHANGED vars
  <2>1. UNCHANGED <<receipts, version, rows, parent, pc, locals, crashes>>
    BY <1>5 DEF vars
  <2>2. LocalTypes'
    BY <2>1, TypesSplit DEF IInv, LocalTypes, locals
  <2>3. SharedTypes'
    BY <2>1, SharedKept
  <2>4. TypeOK'
    BY <2>2, <2>3, TypesSplit, PTL
  <2> QED BY <2>1, <2>4, CasesKept, NoRequestMoves DEF receipts, rows
<1> QED BY <1>1, <1>2, <1>3, <1>4, <1>5 DEF Next

LEMMA Invariance == Spec => []IInv
BY InitIInv, NextIInv, PTL DEF Spec

-----------------------------------------------------------------------------
\* Whatever requests a case is executed with, and wherever they die: the
\* receipt is that of the published version, and one child at most completes
\* (execute_remediation_plan, _publish_staged_version, create_reverification_task).
THEOREM OneVersionOneChild == Spec => [](TypeOK /\ VersionsAgree /\ OneChildCompletes)
<1>1. ASSUME IInv PROVE VersionsAgree
  BY <1>1 DEF IInv, ThreadFits, FitsAt, CaseFits, VersionsAgree
<1>2. ASSUME IInv PROVE OneChildCompletes
  <2> SUFFICES ASSUME NEW c \in Cases, NEW a \in Attempts, NEW b \in Attempts, a # b,
                      child[c][a] \in {"RUNNING", "COMPLETED"}
               PROVE  child[c][b] \notin {"RUNNING", "COMPLETED"}
    BY DEF OneChildCompletes
  <2>1. a < b \/ b < a
    BY CapaAssumption DEF Attempts
  <2> QED BY <1>2, <2>1 DEF IInv, CaseFits, Ended
<1>3. IInv => TypeOK /\ VersionsAgree /\ OneChildCompletes
  BY <1>1, <1>2 DEF IInv
<1> QED BY <1>3, Invariance, PTL

\* If the requests of the cases all name a reviewer, or none does, the receipts
\* bind one another as well, at every instant (get_capa_case).  A call without a
\* request beside a named one breaks this: its execution is recorded although
\* the authorization on record names somebody.
THEOREM CaseBound ==
  ASSUME Unnamed \notin Modes \/ Modes \subseteq {Unnamed}
  PROVE  Spec => []CaseIsBound
<1>1. ASSUME IInv, NEW c \in Cases PROVE Binds(c)
  <2>1. CaseFits(c) /\ authz[c] \in Named \cup {None} /\ (execution[c] # None => execution[c].mode \in Named \cup {Unnamed})
    BY <1>1, TypesSplit DEF IInv, SharedTypes, Executions
  <2>2. execution[c] # None =>
          authz[c] = IF execution[c].mode = Unnamed THEN None ELSE execution[c].mode
    BY <2>1, CapaAssumption DEF CaseFits
  <2> QED BY <2>1, <2>2 DEF CaseFits, Binds
<1>2. IInv => ReceiptsBind
  BY <1>1 DEF ReceiptsBind
<1>3. IInv /\ (TypeOK /\ VersionsAgree /\ OneChildCompletes) => CaseIsBound
  BY <1>2 DEF CaseIsBound
<1> QED BY <1>3, Invariance, OneVersionOneChild, PTL
=============================================================================
