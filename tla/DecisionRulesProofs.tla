------------------------ MODULE DecisionRulesProofs ------------------------
(***************************************************************************)
(* Proofs about the decision procedures of MCDecisionRules, for any values *)
(* of their constants.  ProviderProfiles, for any profiles, workspaces and  *)
(* number of overlapping requests: defaults and keys fit whatever a request *)
(* leaves half done, and a revocation is final.  CapaBackfill and           *)
(* CapaClosure: replacements are clean and a receipt says what its sets do. *)
(* ModelEvaluation and TttEpisode: nothing is approved unmeasured, traded   *)
(* or forgotten, and no guard result gets worse.  LoginThrottle: no span    *)
(* lets more than two windows' worth of logins pass.  GatePolicy: a PASS is *)
(* earned.  MemoryRetrieval: what is retrieved depends on eligible cards    *)
(* only, and the limit of a query only cuts it.                             *)
(***************************************************************************)
EXTENDS MCDecisionRules, FiniteSetTheorems, WellFoundedInduction, TLAPS

-----------------------------------------------------------------------------
(* ProviderProfiles *)

Names == Workspaces \cup {"none"}

Rows == [status : {"NONE", "ACTIVE", "REVOKED"}, ws : Names, default : BOOLEAN,
         configured : BOOLEAN, test : {"NOT_TESTED"} \cup ProbeResults]

Calls == [op : Ops, p : Profiles \cup {NoProfile}, ws : Names, default : BOOLEAN,
          configured : BOOLEAN]

\* The steps of a create that is under way, and of the requests that found a
\* profile in the registry.
Creating == {"create", "cleanup"}
Using == Ops \ (Creating \cup {"idle"})

\* The variables and the requests have the shape the code gives them.
Shape ==
  /\ row \in [Profiles -> Rows]
  /\ secret \in SUBSET Profiles
  /\ spent \in SUBSET Profiles
  /\ req \in [Requests -> Calls]
  /\ \A r \in Requests : req[r].op # "idle" => req[r].p \in Profiles

\* The id of a create is in no other request under way and has no row, and a secret only
\* if the create has staged it.
CreatesOwnTheirs ==
  \A r \in Requests : req[r].op \in Creating =>
    /\ row[req[r].p].status = "NONE"
    /\ req[r].op = "create" /\ ~req[r].configured => req[r].p \notin secret
    /\ \A s \in Requests \ {r} : req[s].op # "idle" => req[s].p # req[r].p

\* Any other request is about a profile that has a row; what it read of its key
\* is still so, and once it has deleted the key nothing puts it back.
UsersKnowTheirs ==
  \A r \in Requests : req[r].op \in Using =>
    /\ row[req[r].p].status # "NONE"
    /\ req[r].op \in {"endpoint", "secret"} => req[r].configured = row[req[r].p].configured
    /\ req[r].op = "revokeRow" => req[r].p \notin secret

\* The inductive invariant.
IInv == Shape /\ ProfilesAreKeyed /\ CreatesOwnTheirs /\ UsersKnowTheirs

-----------------------------------------------------------------------------
LEMMA InitIInv == Init => IInv
<1> SUFFICES ASSUME Init PROVE IInv
  OBVIOUS
<1>1. /\ NoRow \in Rows /\ NoRow.status = "NONE" /\ NoRow.default = FALSE
      /\ Idle \in Calls /\ Idle.op = "idle"
  BY DEF NoRow, Idle, Rows, Calls, Names, Ops
<1>2. /\ row \in [Profiles -> Rows] /\ \A p \in Profiles : row[p] = NoRow
      /\ req \in [Requests -> Calls] /\ \A r \in Requests : req[r] = Idle
      /\ secret = {} /\ spent = {}
  BY <1>1 DEF Init
<1> QED
  BY <1>1, <1>2 DEF IInv, Shape, ProfilesAreKeyed, OneDefault, NoKeyLeftBehind, KeyedStaysKeyed,
     CreatesOwnTheirs, UsersKnowTheirs, Creating, Using

\* Taking the default from a workspace changes nothing else of its rows, and
\* nothing at all of a row that is no default.
LEMMA UndefaultRows ==
  ASSUME Shape, NEW ws
  PROVE  /\ Undefault(ws) \in [Profiles -> Rows]
         /\ \A q \in Profiles :
              /\ Undefault(ws)[q].status = row[q].status
              /\ Undefault(ws)[q].ws = row[q].ws
              /\ Undefault(ws)[q].configured = row[q].configured
              /\ Undefault(ws)[q].default => row[q].default /\ row[q].ws # ws
              /\ ~row[q].default => Undefault(ws)[q] = row[q]
BY DEF Shape, Undefault, Rows

\* The rows of a create that commits.
LEMMA CreatedRows ==
  ASSUME IInv, NEW r \in Requests, CreateRow(r)
  PROVE  LET q == req[r] IN
         /\ row' \in [Profiles -> Rows]
         /\ q.p \in Profiles
         /\ row[q.p].status = "NONE"
         /\ row'[q.p] = [status |-> "ACTIVE", ws |-> q.ws, default |-> q.default,
                         configured |-> q.configured, test |-> "NOT_TESTED"]
         /\ \A p \in Profiles \ {q.p} :
              /\ row'[p].status = row[p].status
              /\ row'[p].ws = row[p].ws
              /\ row'[p].configured = row[p].configured
              /\ row'[p].default => row[p].default /\ (q.default => row[p].ws # q.ws)
              /\ ~row[p].default => row'[p] = row[p]
<1> DEFINE q == req[r]
           old == IF q.default THEN Undefault(q.ws) ELSE row
           new == [status |-> "ACTIVE", ws |-> q.ws, default |-> q.default,
                   configured |-> q.configured, test |-> "NOT_TESTED"]
<1>1. q \in Calls /\ q.op = "create" /\ q.p \in Profiles /\ row[q.p].status = "NONE"
  BY DEF IInv, Shape, CreateRow, CreatesOwnTheirs, Creating
<1>2. new \in Rows
  BY <1>1 DEF Calls, Rows
<1>3. row' = [old EXCEPT ![q.p] = new]
  BY DEF CreateRow
<1>4. /\ old \in [Profiles -> Rows]
      /\ \A p \in Profiles :
           /\ old[p].status = row[p].status
           /\ old[p].ws = row[p].ws
           /\ old[p].configured = row[p].configured
           /\ old[p].default => row[p].default /\ (q.default => row[p].ws # q.ws)
           /\ ~row[p].default => old[p] = row[p]
  BY UndefaultRows DEF IInv, Shape
<1> HIDE DEF old, new
<1>5. row' \in [Profiles -> Rows] /\ row'[q.p] = new /\ \A p \in Profiles \ {q.p} : row'[p] = old[p]
  BY <1>1, <1>2, <1>3, <1>4
<1> QED
  BY <1>1, <1>4, <1>5 DEF new

\* The rows after a change of the default.
LEMMA DefaultRows ==
  ASSUME IInv, NEW r \in Requests, SetDefault(r)
  PROVE  LET p == req[r].p IN
         /\ row' \in [Profiles -> Rows]
         /\ p \in Profiles
         /\ \A q \in Profiles :
              /\ row'[q].status = row[q].status
              /\ row'[q].ws = row[q].ws
              /\ row'[q].configured = row[q].configured
              /\ row'[q].default => row[q].default \/ (q = p /\ Active(p))
              /\ row'[q].default /\ q # p /\ Active(p) => row[q].ws # row[p].ws
              /\ ~row[q].default /\ ~(q = p /\ Active(p)) => row'[q] = row[q]
<1> DEFINE p == req[r].p
           old == Undefault(row[p].ws)
<1>1. p \in Profiles
  BY DEF IInv, Shape, SetDefault
<1>2. CASE ~Active(p)
  <2>1. row' = row
    BY <1>2 DEF SetDefault
  <2> QED BY <1>1, <1>2, <2>1 DEF IInv, Shape
<1>3. CASE Active(p)
  <2>1. row' = [old EXCEPT ![p].default = TRUE]
    BY <1>3 DEF SetDefault
  <2>2. /\ old \in [Profiles -> Rows]
        /\ \A q \in Profiles :
             /\ old[q].status = row[q].status
             /\ old[q].ws = row[q].ws
             /\ old[q].configured = row[q].configured
             /\ old[q].default => row[q].default /\ row[q].ws # row[p].ws
             /\ ~row[q].default => old[q] = row[q]
    BY UndefaultRows DEF IInv
  <2> HIDE DEF old
  <2>3. /\ row' \in [Profiles -> Rows]
        /\ \A q \in Profiles \ {p} : row'[q] = old[q]
        /\ row'[p].status = old[p].status /\ row'[p].ws = old[p].ws
        /\ row'[p].configured = old[p].configured
    <3>1. old[p] \in Rows
      BY <1>1, <2>2
    <3>2. /\ [old[p] EXCEPT !.default = TRUE] \in Rows
          /\ [old[p] EXCEPT !.default = TRUE].status = old[p].status
          /\ [old[p] EXCEPT !.default = TRUE].ws = old[p].ws
          /\ [old[p] EXCEPT !.default = TRUE].configured = old[p].configured
      BY <3>1 DEF Rows
    <3>3. row' = [old EXCEPT ![p] = [old[p] EXCEPT !.default = TRUE]]
      BY <2>1
    <3> QED BY <1>1, <2>2, <3>2, <3>3
  <2> QED BY <1>1, <1>3, <2>2, <2>3
<1> QED BY <1>2, <1>3

\* What a request is after it is done or goes to its next step.
LEMMA MovedCall ==
  ASSUME Shape, NEW r \in Requests, NEW call \in Calls, req' = [req EXCEPT ![r] = call]
  PROVE  /\ req' \in [Requests -> Calls]
         /\ req'[r] = call
         /\ \A s \in Requests \ {r} : req'[s] = req[s]
BY DEF Shape

LEMMA DoneCall ==
  ASSUME Shape, NEW r \in Requests, Done(r)
  PROVE  /\ req' \in [Requests -> Calls]
         /\ req'[r].op = "idle"
         /\ \A s \in Requests \ {r} : req'[s] = req[s]
<1>1. Idle \in Calls /\ Idle.op = "idle"
  BY DEF Idle, Calls, Ops, Names
<1> QED BY <1>1, MovedCall DEF Done

LEMMA NextCall ==
  ASSUME Shape, NEW r \in Requests, NEW op \in Ops, req' = [req EXCEPT ![r].op = op]
  PROVE  /\ req' \in [Requests -> Calls]
         /\ req'[r].op = op /\ req'[r].p = req[r].p /\ req'[r].configured = req[r].configured
         /\ \A s \in Requests \ {r} : req'[s] = req[s]
<1>1. /\ [req[r] EXCEPT !.op = op] \in Calls
      /\ [req[r] EXCEPT !.op = op].op = op
      /\ [req[r] EXCEPT !.op = op].p = req[r].p
      /\ [req[r] EXCEPT !.op = op].configured = req[r].configured
  BY DEF Shape, Calls
<1>2. req' = [req EXCEPT ![r] = [req[r] EXCEPT !.op = op]]
  OBVIOUS
<1> QED BY <1>1, <1>2, MovedCall

-----------------------------------------------------------------------------
\* Every step keeps the invariant.
LEMMA PutSecretStep ==
  ASSUME IInv, NEW r \in Requests, NEW p \in Profiles, NEW ws \in Workspaces,
         NEW d \in BOOLEAN, NEW key \in BOOLEAN, PutSecret(r, p, ws, d, key)
  PROVE  IInv'
<1> DEFINE call == [op |-> "create", p |-> p, ws |-> ws, default |-> d, configured |-> key]
<1>1. /\ req[r].op = "idle" /\ row[p].status = "NONE" /\ p \notin secret
      /\ \A s \in Requests : req[s].p # p
  BY DEF PutSecret, Fresh, Idle
<1>2. /\ req' = [req EXCEPT ![r] = call]
      /\ row' = row /\ spent' = spent
      /\ secret' = (IF key THEN secret \cup {p} ELSE secret)
  BY DEF PutSecret, Stored
<1>3. call \in Calls
  BY DEF Calls, Names, Ops
<1>4. req' \in [Requests -> Calls] /\ req'[r] = call /\ \A s \in Requests \ {r} : req'[s] = req[s]
  BY <1>2, <1>3 DEF IInv, Shape
<1> HIDE DEF call
<1>5. call.op = "create" /\ call.p = p /\ call.configured = key
  BY DEF call
<1>6. Shape'
  BY <1>2, <1>4, <1>5 DEF IInv, Shape
<1>7. OneDefault'
  BY <1>2 DEF IInv, ProfilesAreKeyed, OneDefault, Active
<1>8. NoKeyLeftBehind'
  BY <1>1, <1>2, <1>4, <1>5 DEF IInv, ProfilesAreKeyed, NoKeyLeftBehind
<1>9. KeyedStaysKeyed'
  BY <1>2, <1>4, <1>5 DEF IInv, ProfilesAreKeyed, KeyedStaysKeyed
<1>10. CreatesOwnTheirs'
  BY <1>1, <1>2, <1>4, <1>5 DEF IInv, CreatesOwnTheirs, Creating
<1>11. UsersKnowTheirs'
  BY <1>1, <1>2, <1>4, <1>5 DEF IInv, UsersKnowTheirs, Using, Creating
<1> QED
  BY <1>6, <1>7, <1>8, <1>9, <1>10, <1>11 DEF IInv, ProfilesAreKeyed

LEMMA CreateRowStep ==
  ASSUME IInv, NEW r \in Requests, CreateRow(r)
  PROVE  IInv'
<1> DEFINE p == req[r].p
<1>1. /\ req[r].op = "create" /\ secret' = secret /\ spent' = spent
      /\ req' = [req EXCEPT ![r] = Idle]
  BY DEF CreateRow, Done
<1>2. req' \in [Requests -> Calls] /\ req'[r] = Idle /\ \A s \in Requests \ {r} : req'[s] = req[s]
  BY <1>1 DEF IInv, Shape, Calls, Idle, Ops, Names
<1>3. Idle.op = "idle"
  BY DEF Idle
<1>4. /\ row' \in [Profiles -> Rows]
      /\ p \in Profiles
      /\ row[p].status = "NONE"
      /\ row'[p].status = "ACTIVE" /\ row'[p].ws = req[r].ws /\ row'[p].default = req[r].default
      /\ \A q \in Profiles \ {p} :
           /\ row'[q].status = row[q].status
           /\ row'[q].ws = row[q].ws
           /\ row'[q].configured = row[q].configured
           /\ row'[q].default => row[q].default /\ (req[r].default => row[q].ws # req[r].ws)
  <2> DEFINE new == [status |-> "ACTIVE", ws |-> req[r].ws, default |-> req[r].default,
                     configured |-> req[r].configured, test |-> "NOT_TESTED"]
  <2>1. new.status = "ACTIVE" /\ new.ws = req[r].ws /\ new.default = req[r].default
    OBVIOUS
  <2>2. row'[p] = new
    BY CreatedRows
  <2> HIDE DEF new
  <2> QED BY <2>1, <2>2, CreatedRows
<1>5. \A s \in Requests \ {r} : req[s].op # "idle" => req[s].p # p
  BY <1>1 DEF IInv, CreatesOwnTheirs, Creating
<1> HIDE DEF p
<1>6. Shape'
  BY <1>1, <1>2, <1>3, <1>4 DEF IInv, Shape
<1>7. OneDefault'
  BY <1>4 DEF IInv, ProfilesAreKeyed, OneDefault, Active
<1>8. NoKeyLeftBehind'
  BY <1>1, <1>2, <1>3, <1>4 DEF IInv, Shape, ProfilesAreKeyed, NoKeyLeftBehind, p
<1>9. KeyedStaysKeyed'
  BY <1>2, <1>3, <1>4, <1>5 DEF IInv, Shape, ProfilesAreKeyed, KeyedStaysKeyed
<1>10. CreatesOwnTheirs'
  BY <1>1, <1>2, <1>3, <1>4, <1>5 DEF IInv, Shape, CreatesOwnTheirs, Creating
<1>11. UsersKnowTheirs'
  BY <1>1, <1>2, <1>3, <1>4, <1>5 DEF IInv, Shape, UsersKnowTheirs, Using, Creating
<1> QED
  BY <1>6, <1>7, <1>8, <1>9, <1>10, <1>11 DEF IInv, ProfilesAreKeyed

LEMMA CleanupStep ==
  ASSUME IInv, NEW r \in Requests, CreateFails(r) \/ Cleanup(r)
  PROVE  IInv'
<1>1. row' = row /\ req[r].op \in Creating /\ req[r].p \in Profiles
  BY DEF CreateFails, Cleanup, Creating, IInv, Shape
<1>2. /\ req' \in [Requests -> Calls]
      /\ \A s \in Requests \ {r} : req'[s] = req[s]
      /\ \/ /\ req'[r].op = "cleanup" /\ req'[r].p = req[r].p
            /\ secret' = secret /\ spent' = spent
         \/ /\ req'[r].op = "idle"
            /\ \/ req[r].p \notin secret /\ secret' = secret /\ spent' = spent
               \/ secret' = secret \ {req[r].p} /\ spent' = spent
               \/ secret' = secret /\ spent' = spent \cup {req[r].p}
  <2>1. CASE CreateFails(r)
    <3>1. CASE req[r].configured
      BY <2>1, <3>1, NextCall DEF CreateFails, Ops, IInv
    <3>2. CASE ~req[r].configured
      BY <2>1, <3>2, DoneCall DEF CreateFails, IInv, CreatesOwnTheirs, Creating
    <3> QED BY <3>1, <3>2
  <2>2. CASE Cleanup(r)
    BY <2>2, DoneCall DEF Cleanup, Deleted, IInv
  <2> QED BY <2>1, <2>2
<1>3. \A q \in secret' : q \in secret
  BY <1>2
<1>4. \A s \in Requests \ {r} : req[s].op # "idle" => req[s].p # req[r].p
  BY <1>1 DEF IInv, CreatesOwnTheirs
<1>5. Shape'
  BY <1>1, <1>2 DEF IInv, Shape
<1>6. OneDefault'
  BY <1>1 DEF IInv, ProfilesAreKeyed, OneDefault, Active
<1>7. NoKeyLeftBehind'
  BY <1>1, <1>2 DEF IInv, Shape, ProfilesAreKeyed, NoKeyLeftBehind, Creating
<1>8. KeyedStaysKeyed'
  BY <1>1, <1>2 DEF IInv, ProfilesAreKeyed, KeyedStaysKeyed
<1>9. CreatesOwnTheirs'
  BY <1>1, <1>2, <1>3, <1>4 DEF IInv, CreatesOwnTheirs, Creating
<1>10. UsersKnowTheirs'
  BY <1>1, <1>2, <1>3 DEF IInv, UsersKnowTheirs, Using, Creating
<1> QED
  BY <1>5, <1>6, <1>7, <1>8, <1>9, <1>10 DEF IInv, ProfilesAreKeyed

\* A request finds its profile in the registry, or the default of a workspace.
LEMMA BeginStep ==
  ASSUME IInv, NEW r \in Requests, NEW p \in Profiles, NEW op \in {"revoke", "default", "endpoint"},
         Begin(r, p, op)
  PROVE  IInv'
<1> DEFINE call == [Idle EXCEPT !.op = op, !.p = p, !.configured = row[p].configured]
<1>1. /\ req[r].op = "idle" /\ row[p].status = "ACTIVE"
      /\ row' = row /\ secret' = secret /\ spent' = spent
      /\ req' = [req EXCEPT ![r] = call]
  BY DEF Begin, Active, Idle
<1>2. call \in Calls /\ call.op = op /\ call.p = p /\ call.configured = row[p].configured
  BY DEF Calls, Idle, Ops, Names, IInv, Shape, Rows
<1> HIDE DEF call
<1>3. req' \in [Requests -> Calls] /\ req'[r] = call /\ \A s \in Requests \ {r} : req'[s] = req[s]
  BY <1>1, <1>2 DEF IInv, Shape
<1>4. Shape'
  BY <1>1, <1>2, <1>3 DEF IInv, Shape
<1>5. OneDefault'
  BY <1>1 DEF IInv, ProfilesAreKeyed, OneDefault, Active
<1>6. NoKeyLeftBehind'
  BY <1>1, <1>3 DEF IInv, ProfilesAreKeyed, NoKeyLeftBehind
<1>7. KeyedStaysKeyed'
  BY <1>1, <1>2, <1>3 DEF IInv, ProfilesAreKeyed, KeyedStaysKeyed
<1>8. CreatesOwnTheirs'
  BY <1>1, <1>2, <1>3 DEF IInv, CreatesOwnTheirs, Creating
<1>9. UsersKnowTheirs'
  BY <1>1, <1>2, <1>3 DEF IInv, UsersKnowTheirs, Using, Creating
<1> QED
  BY <1>4, <1>5, <1>6, <1>7, <1>8, <1>9 DEF IInv, ProfilesAreKeyed

LEMMA BeginDefaultStep ==
  ASSUME IInv, NEW r \in Requests, NEW ws \in Workspaces, BeginDefault(r, ws)
  PROVE  IInv'
<1>1. PICK p \in Profiles : Begin(r, p, "endpoint")
  BY DEF BeginDefault, Begin
<1> QED BY <1>1, BeginStep

\* The steps that look at the profile again and write its row at most.
LEMMA RowStep ==
  ASSUME IInv, NEW r \in Requests,
         \/ SetDefault(r) \/ RevokeRow(r)
         \/ \E result \in ProbeResults : RecordTest(r, result)
  PROVE  IInv'
<1> DEFINE p == req[r].p
<1>1. /\ p \in Profiles /\ req[r].op \in Using
      /\ secret' = secret /\ spent' = spent
      /\ req' = [req EXCEPT ![r] = Idle]
  BY DEF SetDefault, RevokeRow, RecordTest, Done, Using, Ops, Creating, IInv, Shape
<1>2. /\ req' \in [Requests -> Calls] /\ req'[r].op = "idle"
      /\ \A s \in Requests \ {r} : req'[s] = req[s]
  BY <1>1 DEF IInv, Shape, Calls, Idle, Ops, Names
<1>3. /\ row' \in [Profiles -> Rows]
      /\ \A q \in Profiles :
           /\ \/ row'[q].status = row[q].status
              \/ row[q].status = "ACTIVE" /\ row'[q].status = "REVOKED" /\ ~row'[q].default /\ q \notin secret
           /\ row'[q].ws = row[q].ws
           /\ row'[q].configured = row[q].configured
           /\ row'[q].default => row[q].default \/ (q = p /\ Active(p))
           /\ row'[q].default /\ ~row[p].default /\ row'[p].default /\ q # p => row[q].ws # row[p].ws
  <2>1. CASE SetDefault(r)
    BY <2>1, DefaultRows
  <2>2. CASE RevokeRow(r)
    <3>1. p \notin secret
      BY <2>2, <1>1 DEF RevokeRow, IInv, UsersKnowTheirs
    <3>2. row' = row \/ (Active(p) /\ row' = [row EXCEPT ![p].status = "REVOKED", ![p].default = FALSE])
      BY <2>2 DEF RevokeRow
    <3> QED BY <1>1, <3>1, <3>2 DEF IInv, Shape, Rows, Active
  <2>3. CASE \E result \in ProbeResults : RecordTest(r, result)
    BY <2>3, <1>1 DEF RecordTest, IInv, Shape, Rows
  <2> QED BY <2>1, <2>2, <2>3
<1> HIDE DEF p
<1>4. Shape'
  BY <1>1, <1>2, <1>3 DEF IInv, Shape
<1>5. OneDefault'
  <2>1. \A q \in Profiles : row'[q].default => row'[q].status = "ACTIVE"
    BY <1>3 DEF IInv, ProfilesAreKeyed, OneDefault, Active
  <2>2. ASSUME NEW a \in Profiles, NEW b \in Profiles, row'[a].default, row'[b].default, row'[a].ws = row'[b].ws
        PROVE  a = b
    BY <1>1, <1>3, <2>2 DEF IInv, ProfilesAreKeyed, OneDefault
  <2> QED BY <2>1, <2>2 DEF OneDefault, Active
<1>6. NoKeyLeftBehind'
  BY <1>1, <1>2, <1>3 DEF IInv, Shape, ProfilesAreKeyed, NoKeyLeftBehind, Using, Creating
<1>7. KeyedStaysKeyed'
  BY <1>2, <1>3 DEF IInv, Shape, ProfilesAreKeyed, KeyedStaysKeyed
<1>8. CreatesOwnTheirs'
  BY <1>1, <1>2, <1>3 DEF IInv, Shape, CreatesOwnTheirs, Creating
<1>9. UsersKnowTheirs'
  BY <1>1, <1>2, <1>3 DEF IInv, Shape, UsersKnowTheirs, Using, Creating
<1> QED
  BY <1>4, <1>5, <1>6, <1>7, <1>8, <1>9 DEF IInv, ProfilesAreKeyed

\* The steps that change the request and its key only.
LEMMA CallStep ==
  ASSUME IInv, NEW r \in Requests, DeleteSecret(r) \/ ReadEndpoint(r) \/ ReadSecret(r)
  PROVE  IInv'
<1>1. /\ req[r].p \in Profiles /\ req[r].op \in Using
      /\ row' = row /\ spent' = spent
  BY DEF DeleteSecret, ReadEndpoint, ReadSecret, Using, Ops, Creating, IInv, Shape
<1>2. /\ req' \in [Requests -> Calls]
      /\ \A s \in Requests \ {r} : req'[s] = req[s]
      /\ \/ req'[r].op = "idle" /\ secret' = secret
         \/ /\ req'[r].op = "revokeRow" /\ req'[r].p = req[r].p /\ secret' = secret \ {req[r].p}
         \/ /\ req[r].op = "endpoint" /\ req'[r].op = "secret" /\ req'[r].p = req[r].p
            /\ req'[r].configured = req[r].configured /\ secret' = secret
         \/ /\ req[r].op = "secret" /\ req'[r].op = "probe" /\ req'[r].p = req[r].p
            /\ req[r].configured => req'[r].configured
            /\ secret' = secret
  <2>1. CASE DeleteSecret(r)
    BY <2>1, DoneCall, NextCall DEF DeleteSecret, Deleted, IInv, Ops
  <2>2. CASE ReadEndpoint(r)
    BY <2>2, DoneCall, NextCall DEF ReadEndpoint, IInv, Ops
  <2>3. CASE ReadSecret(r)
    <3>1. CASE req[r].configured /\ req[r].p \notin secret
      BY <2>3, <3>1, DoneCall DEF ReadSecret, IInv
    <3>2. CASE ~(req[r].configured /\ req[r].p \notin secret)
      <4> DEFINE key == req[r].p \in secret
                 call == [req[r] EXCEPT !.op = "probe", !.configured = key]
      <4>1. req[r] \in Calls /\ key \in BOOLEAN
        BY DEF IInv, Shape
      <4>2. call \in Calls /\ call.op = "probe" /\ call.p = req[r].p /\ call.configured = key
        BY <4>1 DEF Calls, Ops
      <4>3. /\ req[r].op = "secret" /\ secret' = secret
            /\ req' = [req EXCEPT ![r] = call]
        BY <2>3, <3>2 DEF ReadSecret
      <4> HIDE DEF call
      <4> QED BY <3>2, <4>2, <4>3, MovedCall DEF IInv
    <3> QED BY <3>1, <3>2
  <2> QED BY <2>1, <2>2, <2>3
<1>3. \A q \in secret' : q \in secret
  BY <1>2
<1>4. Shape'
  BY <1>1, <1>2 DEF IInv, Shape
<1>5. OneDefault'
  BY <1>1 DEF IInv, ProfilesAreKeyed, OneDefault, Active
<1>6. NoKeyLeftBehind'
  BY <1>1, <1>2, <1>3 DEF IInv, ProfilesAreKeyed, NoKeyLeftBehind, Using, Creating
<1>7. KeyedStaysKeyed'
  BY <1>1, <1>2 DEF IInv, ProfilesAreKeyed, KeyedStaysKeyed, UsersKnowTheirs
<1>8. CreatesOwnTheirs'
  BY <1>1, <1>2, <1>3 DEF IInv, CreatesOwnTheirs, Using, Creating
<1>9. UsersKnowTheirs'
  BY <1>1, <1>2, <1>3 DEF IInv, UsersKnowTheirs, Using, Creating
<1> QED
  BY <1>4, <1>5, <1>6, <1>7, <1>8, <1>9 DEF IInv, ProfilesAreKeyed

LEMMA DieStep ==
  ASSUME IInv, Die
  PROVE  IInv'
<1>1. /\ row' = row /\ secret' = secret
      /\ req' = [r \in Requests |-> Idle]
      /\ spent \subseteq spent' /\ spent' \subseteq Profiles
      /\ \A r \in Requests : req[r].op \in Creating => req[r].p \in spent'
  BY DEF Die, Creating, IInv, Shape
<1>2. Idle \in Calls /\ Idle.op = "idle"
  BY DEF Calls, Idle, Ops, Names
<1>3. \A r \in Requests : req'[r].op = "idle"
  BY <1>1, <1>2
<1>4. Shape'
  BY <1>1, <1>2, <1>3 DEF IInv, Shape
<1>5. OneDefault'
  BY <1>1 DEF IInv, ProfilesAreKeyed, OneDefault, Active
<1>6. NoKeyLeftBehind'
  BY <1>1 DEF IInv, ProfilesAreKeyed, NoKeyLeftBehind, Creating
<1> QED
  BY <1>3, <1>4, <1>5, <1>6 DEF IInv, ProfilesAreKeyed, KeyedStaysKeyed, CreatesOwnTheirs,
     UsersKnowTheirs, Using, Creating

LEMMA NextIInv == IInv /\ [Next]_vars => IInv'
<1> SUFFICES ASSUME IInv, [Next]_vars PROVE IInv'
  OBVIOUS
<1>1. CASE UNCHANGED vars
  BY <1>1 DEF vars, IInv, Shape, ProfilesAreKeyed, OneDefault, NoKeyLeftBehind, KeyedStaysKeyed,
     CreatesOwnTheirs, UsersKnowTheirs, Active
<1>2. CASE Die
  BY <1>2, DieStep
<1>3. ASSUME NEW r \in Requests, NEW p \in Profiles, NEW ws \in Workspaces, NEW d \in BOOLEAN,
             NEW key \in BOOLEAN, PutSecret(r, p, ws, d, key)
      PROVE  IInv'
  BY <1>3, PutSecretStep
<1>4. ASSUME NEW r \in Requests, CreateRow(r) PROVE IInv'
  BY <1>4, CreateRowStep
<1>5. ASSUME NEW r \in Requests, CreateFails(r) \/ Cleanup(r) PROVE IInv'
  BY <1>5, CleanupStep
<1>6. ASSUME NEW r \in Requests, NEW p \in Profiles, NEW op \in {"revoke", "default", "endpoint"},
             Begin(r, p, op)
      PROVE  IInv'
  BY <1>6, BeginStep
<1>7. ASSUME NEW r \in Requests, NEW ws \in Workspaces, BeginDefault(r, ws) PROVE IInv'
  BY <1>7, BeginDefaultStep
<1>8. ASSUME NEW r \in Requests, \/ SetDefault(r) \/ RevokeRow(r)
                                 \/ \E result \in ProbeResults : RecordTest(r, result)
      PROVE  IInv'
  BY <1>8, RowStep
<1>9. ASSUME NEW r \in Requests, DeleteSecret(r) \/ ReadEndpoint(r) \/ ReadSecret(r) PROVE IInv'
  BY <1>9, CallStep
<1> QED
  BY <1>1, <1>2, <1>3, <1>4, <1>5, <1>6, <1>7, <1>8, <1>9 DEF Next

LEMMA Invariance == Spec => []IInv
BY InitIInv, NextIInv, PTL DEF Spec

-----------------------------------------------------------------------------
\* The type invariant of the module.
THEOREM TypeCorrect == Spec => []TypeOK
<1>1. IInv => TypeOK
  BY DEF IInv, Shape, TypeOK, Rows, Calls, ProbeResults
<1> QED BY <1>1, Invariance, PTL

\* One ACTIVE default per workspace, no key of a revoked profile, no use of a
\* keyed profile without its key, whatever requests interleave, fail or die
\* (the registry and the secret store, written one after the other).
THEOREM KeysAndDefaultsFit == Spec => []ProfilesAreKeyed
<1>1. IInv => ProfilesAreKeyed
  BY DEF IInv
<1> QED BY <1>1, Invariance, PTL

\* No request that began before a revocation, or after it, changes the row
\* (RevokeRow, SetDefault, RecordTest, CreateRow).
THEOREM RevocationIsFinal == Spec => RevokedIsFinal
<1>1. ASSUME IInv, [Next]_vars PROVE KeepsRevoked
  <2> SUFFICES ASSUME NEW p \in Profiles, row[p].status = "REVOKED" PROVE row'[p] = row[p]
    BY DEF KeepsRevoked
  <2>1. ~row[p].default
    BY <1>1 DEF IInv, ProfilesAreKeyed, OneDefault, Active
  <2>2. CASE \E r \in Requests : CreateRow(r)
    <3>1. PICK r \in Requests : CreateRow(r)
      BY <2>2
    <3>2. row[req[r].p].status = "NONE" /\ \A q \in Profiles \ {req[r].p} : ~row[q].default => row'[q] = row[q]
      BY <1>1, <3>1, CreatedRows
    <3> QED BY <2>1, <3>2
  <2>3. CASE \E r \in Requests : SetDefault(r)
    <3>1. PICK r \in Requests : SetDefault(r)
      BY <2>3
    <3>2. ~row[p].default /\ ~(p = req[r].p /\ Active(req[r].p)) => row'[p] = row[p]
      BY <1>1, <3>1, DefaultRows
    <3> QED BY <2>1, <3>2 DEF Active
  <2>4. CASE \E r \in Requests : RevokeRow(r)
    BY <1>1, <2>4 DEF RevokeRow, Active, IInv, Shape
  <2>5. CASE \E r \in Requests, result \in ProbeResults : RecordTest(r, result)
    BY <1>1, <2>5 DEF RecordTest, Active, IInv, Shape
  <2>6. CASE row' = row
    BY <2>6
  <2> QED
    BY <1>1, <2>2, <2>3, <2>4, <2>5, <2>6 DEF Next, vars, PutSecret, CreateFails, Cleanup, Begin,
       DeleteSecret, BeginDefault, ReadEndpoint, ReadSecret, Die
<1> QED BY <1>1, Invariance, PTL DEF Spec, RevokedIsFinal

-----------------------------------------------------------------------------
(* Numbers *)

\* A set of natural numbers has a least one.
LEMMA LeastOf == ASSUME NEW S \in SUBSET Nat, S # {} PROVE \E m \in S : \A n \in S : m <= n
<1> DEFINE R == OpToRel(<, Nat)
<1>1. IsWellFoundedOn(R, Nat)
  BY NatLessThanWellFounded
<1>2. \A x, y \in Nat : <<y, x>> \in R <=> y < x
  BY DEF OpToRel
<1> HIDE DEF R
<1>3. PICK m \in S : \A n \in S : <<n, m>> \notin R
  <2>1. \E m \in S : \A n \in S : ~ (<<n, m>> \in R)
    BY <1>1, WFMin
  <2> QED BY <2>1
<1>4. ASSUME NEW n \in S PROVE m <= n
  <2>1. m \in Nat /\ n \in Nat /\ <<n, m>> \notin R
    BY <1>3
  <2>2. ~ n < m
    BY <1>2, <2>1
  <2> QED BY <2>1, <2>2
<1> QED BY <1>3, <1>4

-----------------------------------------------------------------------------
(* CapaBackfill *)

\* What the loop has behind it is settled: an order about such a sample is
\* unresolved, or the sample has been replaced by a good record.
Settled(s) ==
  s < x6 => \A o \in Backfill!Concerned(s) : o \in x8 \/ (s \in x7 /\ x4[s] \in x1)

BackfillInv ==
  /\ Backfill!TypeOK
  /\ Backfill!BackfillsAreClean
  /\ \A s \in Backfill!Selected : Settled(s)

LEMMA SelectedAre == Backfill!Selected \subseteq Backfill!Records /\ Backfill!Records \subseteq Nat
BY BackfillAssumption DEF Backfill!Selected, Backfill!Records

LEMMA BackfillInit == Backfill!Init => BackfillInv
<1> SUFFICES ASSUME Backfill!Init PROVE BackfillInv
  OBVIOUS
<1>1. Backfill!TypeOK
  <2>1. x4 \in [Backfill!Selected -> Backfill!Records]
    BY SelectedAre DEF Backfill!Init
  <2>2. x6 \in 1..(Count + 1)
    BY BackfillAssumption DEF Backfill!Init
  <2> QED BY <2>1, <2>2, SelectedAre DEF Backfill!Init, Backfill!TypeOK
<1>2. Backfill!BackfillsAreClean
  BY DEF Backfill!Init, Backfill!BackfillsAreClean
<1>3. \A s \in Backfill!Selected : Settled(s)
  <2>1. \A s \in Backfill!Selected : ~ s < 1
    BY SelectedAre DEF Backfill!Records
  <2> QED BY <2>1 DEF Settled, Backfill!Init
<1> QED BY <1>1, <1>2, <1>3 DEF BackfillInv

\* The first candidate is one: records are numbers.
LEMMA FirstIsOne == ASSUME NEW s PROVE Backfill!Candidates(s) # {} => Backfill!First(Backfill!Candidates(s)) \in Backfill!Candidates(s)
<1> SUFFICES ASSUME Backfill!Candidates(s) # {} PROVE Backfill!First(Backfill!Candidates(s)) \in Backfill!Candidates(s)
  OBVIOUS
<1>1. Backfill!Candidates(s) \in SUBSET Nat
  BY SelectedAre DEF Backfill!Candidates
<1> DEFINE C == Backfill!Candidates(s)
<1> HIDE DEF C
<1>2. \E m \in C : \A q \in C : m <= q
  BY <1>1, LeastOf DEF C
<1> QED BY <1>2 DEF Backfill!First, C

LEMMA BackfillSteps == BackfillInv /\ Backfill!Next => BackfillInv'
<1> SUFFICES ASSUME BackfillInv, Backfill!Next PROVE BackfillInv'
  OBVIOUS
<1> USE SelectedAre
<1>1. /\ Backfill!TypeOK /\ x4 \in [Backfill!Selected -> Backfill!Records]
      /\ x6 \in 1..(Count + 1) /\ Count \in Nat /\ x6 \in Nat
  BY BackfillAssumption DEF BackfillInv, Backfill!TypeOK
<1>2. CASE Backfill!Skip
  <2>1. /\ x6 \in Backfill!Records /\ x6' = x6 + 1 /\ (x6 \notin Backfill!Selected \/ Backfill!Concerned(x6) = {})
        /\ x1' = x1 /\ x2' = x2 /\ x3' = x3 /\ x4' = x4 /\ x5' = x5 /\ x7' = x7 /\ x8' = x8
    BY <1>2 DEF Backfill!Skip, Backfill!measured
  <2>2. Backfill!TypeOK'
    BY <1>1, <2>1 DEF Backfill!TypeOK, Backfill!Records
  <2>3. Backfill!BackfillsAreClean'
    BY <2>1 DEF BackfillInv, Backfill!BackfillsAreClean
  <2>4. ASSUME NEW s \in Backfill!Selected PROVE Settled(s)'
    <3>1. s \in Nat /\ (s < x6 + 1 => s < x6 \/ s = x6)
      BY <1>1
    <3> QED BY <2>1, <3>1 DEF BackfillInv, Settled, Backfill!Concerned
  <2> QED BY <2>2, <2>3, <2>4 DEF BackfillInv
<1>3. CASE Backfill!Block
  <2>1. /\ x6 \in Backfill!Selected /\ x6' = x6 + 1 /\ x8' = x8 \cup Backfill!Concerned(x6)
        /\ x1' = x1 /\ x2' = x2 /\ x3' = x3 /\ x4' = x4 /\ x5' = x5 /\ x7' = x7
    BY <1>3 DEF Backfill!Block, Backfill!measured
  <2>2. Backfill!TypeOK'
    BY <1>1, <2>1 DEF Backfill!TypeOK, Backfill!Records, Backfill!Concerned
  <2>3. Backfill!BackfillsAreClean'
    BY <2>1 DEF BackfillInv, Backfill!BackfillsAreClean
  <2>4. ASSUME NEW s \in Backfill!Selected PROVE Settled(s)'
    <3>1. s \in Nat /\ (s < x6 + 1 => s < x6 \/ s = x6)
      BY <1>1
    <3> QED BY <2>1, <3>1 DEF BackfillInv, Settled, Backfill!Concerned
  <2> QED BY <2>2, <2>3, <2>4 DEF BackfillInv
<1>4. CASE Backfill!Backfill
  <2> DEFINE r == Backfill!First(Backfill!Candidates(x6))
  <2>1. /\ x6 \in Backfill!Selected /\ x6' = x6 + 1 /\ x4' = [x4 EXCEPT ![x6] = r] /\ x7' = x7 \cup {x6}
        /\ x5' = Backfill!Release(x6, r) /\ Backfill!Candidates(x6) # {}
        /\ x1' = x1 /\ x2' = x2 /\ x3' = x3 /\ x8' = x8
    BY <1>4 DEF Backfill!Backfill, Backfill!measured
  <2>2. r \in Backfill!Candidates(x6)
    BY <2>1, FirstIsOne
  <2> HIDE DEF r
  <2>3. /\ r \in Backfill!Records /\ r \in x1 /\ x4'[x6] = r
        /\ \A s \in Backfill!Selected \ {x6} : x4'[s] = x4[s]
    BY <1>1, <2>1, <2>2 DEF Backfill!Candidates
  <2>4. Backfill!TypeOK'
    <3>1. x4' \in [Backfill!Selected -> Backfill!Records]
      BY <1>1, <2>1, <2>3
    <3>2. x5' \subseteq Backfill!Records
      BY <1>1, <2>1, <2>3 DEF Backfill!TypeOK, Backfill!Release
    <3> QED BY <1>1, <2>1, <3>1, <3>2 DEF Backfill!TypeOK, Backfill!Records
  <2>5. Backfill!BackfillsAreClean'
    <3>1. \A t \in Backfill!Selected \ {x6} :
            x2[r] # x2[x4[t]] /\ (Split[r] # Split[x4[t]] => <<x2[r], x2[x4[t]]>> \notin Alike)
      BY <2>2 DEF Backfill!Candidates, Backfill!DuplicateSafe, Backfill!OtherRecords
    <3>2. \A a, b : <<a, b>> \in Alike => <<b, a>> \in Alike
      BY BackfillAssumption
    <3>3. ASSUME NEW s \in x7', NEW t \in Backfill!Selected \ {s}
          PROVE  /\ x2[x4'[s]] # x2[x4'[t]]
                 /\ Split[x4'[s]] # Split[x4'[t]] => <<x2[x4'[s]], x2[x4'[t]]>> \notin Alike
      <4>0. s \in Backfill!Selected /\ (s = x6 \/ s \in x7)
        BY <1>1, <2>1 DEF Backfill!TypeOK
      <4>1. CASE s = x6
        BY <4>1, <2>3, <3>1
      <4>2. CASE s # x6 /\ t = x6
        <5>1. x4'[s] = x4[s] /\ x4'[t] = r
          BY <2>3, <4>0, <4>2
        <5>2. x2[r] # x2[x4[s]] /\ (Split[r] # Split[x4[s]] => <<x2[r], x2[x4[s]]>> \notin Alike)
          BY <3>1, <4>0, <4>2
        <5> QED BY <5>1, <5>2, <3>2
      <4>3. CASE s # x6 /\ t # x6
        <5>1. x4'[s] = x4[s] /\ x4'[t] = x4[t] /\ s \in x7
          BY <2>3, <4>0, <4>3
        <5> QED BY <5>1 DEF BackfillInv, Backfill!BackfillsAreClean
      <4> QED BY <4>1, <4>2, <4>3
    <3> QED BY <2>1, <3>3 DEF Backfill!BackfillsAreClean
  <2>6. ASSUME NEW s \in Backfill!Selected PROVE Settled(s)'
    <3>1. s \in Nat /\ (s < x6 + 1 => s < x6 \/ s = x6)
      BY <1>1
    <3>2. CASE s = x6
      BY <2>1, <2>3, <3>2 DEF Settled, Backfill!Concerned
    <3>3. CASE s # x6
      BY <2>1, <2>3, <3>1, <3>3 DEF BackfillInv, Settled, Backfill!Concerned
    <3> QED BY <3>2, <3>3
  <2> QED BY <2>4, <2>5, <2>6 DEF BackfillInv
<1> QED BY <1>2, <1>3, <1>4 DEF Backfill!Next

\* At the end everything is behind the loop.
LEMMA BackfillResolved == BackfillInv => Backfill!ResolvedIsReplaced
<1> SUFFICES ASSUME BackfillInv, x6 = Count + 1, NEW o \in Profiles \ x8, NEW s \in x3[o]
             PROVE  s \in x7 /\ x4[s] \in x1
  BY DEF Backfill!ResolvedIsReplaced, Backfill!Done
<1>1. s \in Backfill!Selected
  BY DEF BackfillInv, Backfill!TypeOK
<1>2. s < x6
  BY <1>1, SelectedAre, BackfillAssumption DEF Backfill!Records
<1> QED BY <1>1, <1>2 DEF BackfillInv, Settled, Backfill!Concerned

-----------------------------------------------------------------------------
(* CapaClosure *)

ClosureInv ==
  /\ x1 \in [Profiles -> Closure!Findings]
  /\ x3 \subseteq Profiles /\ x4 \subseteq x3 /\ x5 \subseteq Closure!Keys
  /\ x7 = Closure!NoReceipt \/ x7 = Closure!Receipt

LEMMA ClosureInit == Closure!Init => ClosureInv
BY DEF Closure!Init, ClosureInv

LEMMA ClosureSteps == ClosureInv /\ Closure!Next => ClosureInv'
<1> SUFFICES ASSUME ClosureInv, Closure!Next PROVE ClosureInv'
  OBVIOUS
<1>1. x7' = Closure!Receipt
      /\ x1' = x1 /\ x2' = x2 /\ x3' = x3 /\ x4' = x4 /\ x5' = x5 /\ x6' = x6
  BY DEF Closure!Next, Closure!Close, Closure!inputs
<1>2. Closure!Receipt' = Closure!Receipt
  BY <1>1 DEF Closure!Receipt, Closure!RecoveryStatus, Closure!Recovered, Closure!Disposition,
     Closure!Regressed, Closure!ParentCodes, Closure!ChildCodes, Closure!ParentKeys, Closure!AtomicKeys,
     Closure!Closed, Closure!Open, Closure!FinalStatus
<1> QED BY <1>1, <1>2 DEF ClosureInv

\* Who is closed, of all orders.
LEMMA ClosedAre ==
  ASSUME NEW o \in Profiles
  PROVE  Closure!FinalStatus(o) = "VERIFIED_CLOSED" <=>
           o \in x3 /\ o \notin x4 /\ x1[o].code \notin Closure!ChildCodes
BY DEF Closure!FinalStatus

\* An atomic key carries the code of its finding.
LEMMA KeysCarryCodes ==
  /\ \A o \in Profiles : \A k \in Closure!AtomicKeys(x1[o]) : k[1] = x1[o].code
  /\ \A k \in Closure!ParentKeys : k[1] \in Closure!ParentCodes
  /\ \A k \in x5 : k[1] \in Closure!ChildCodes
<1>1. ASSUME NEW o \in Profiles, NEW k \in Closure!AtomicKeys(x1[o]) PROVE k[1] = x1[o].code
  BY DEF Closure!AtomicKeys
<1>2. ASSUME NEW k \in Closure!ParentKeys PROVE k[1] \in Closure!ParentCodes
  <2>1. PICK o \in Profiles : k \in Closure!AtomicKeys(x1[o])
    BY DEF Closure!ParentKeys
  <2> QED BY <1>1, <2>1 DEF Closure!ParentCodes
<1> QED BY <1>1, <1>2 DEF Closure!ChildCodes

\* No order is open, and as many are closed as were selected, exactly when the
\* sets say so.
LEMMA CountsAgree ==
  x3 \subseteq Profiles =>
    /\ Cardinality(Closure!Closed) <= Cardinality(x3)
    /\ Cardinality(Closure!Open) = 0 <=> Closure!Open = {}
    /\ Closure!Open = {} => Cardinality(Closure!Closed) = Cardinality(x3)
<1> SUFFICES ASSUME x3 \subseteq Profiles
             PROVE  /\ Cardinality(Closure!Closed) <= Cardinality(x3)
                    /\ Cardinality(Closure!Open) = 0 <=> Closure!Open = {}
                    /\ Closure!Open = {} => Cardinality(Closure!Closed) = Cardinality(x3)
  OBVIOUS
<1>1. IsFiniteSet(Profiles)
  BY ClosureAssumption
<1>2. IsFiniteSet(x3) /\ Closure!Closed \subseteq x3
  BY <1>1, FS_Subset DEF Closure!Closed
<1>3. Closure!Open \subseteq Profiles
  BY DEF Closure!Open
<1>4. IsFiniteSet(Closure!Open)
  BY <1>1, <1>3, FS_Subset
<1>5. Cardinality(Closure!Closed) <= Cardinality(x3)
  BY <1>2, FS_Subset
<1>6. Cardinality(Closure!Open) = 0 <=> Closure!Open = {}
  BY <1>4, FS_EmptySet
<1>7. Closure!Open = {} => Closure!Closed = x3
  BY DEF Closure!Open, Closure!Closed
<1> QED BY <1>5, <1>6, <1>7

LEMMA ClosureHolds == ClosureInv => Closure!ReceiptAccepted /\ Closure!RecoveredIsWhole /\ Closure!ClosedIsGone
<1> SUFFICES ASSUME ClosureInv
             PROVE  Closure!ReceiptAccepted /\ Closure!RecoveredIsWhole /\ Closure!ClosedIsGone
  OBVIOUS
<1>1. x3 \subseteq Profiles /\ x4 \subseteq x3 /\ (x7 = Closure!NoReceipt \/ x7 = Closure!Receipt)
  BY DEF ClosureInv
<1>2. /\ Closure!Receipt.status = Closure!RecoveryStatus
      /\ Closure!Receipt.decision = x6 /\ Closure!Receipt.disposition = Closure!Disposition
      /\ Closure!Receipt.resolved = Closure!ParentCodes \ Closure!ChildCodes
      /\ Closure!Receipt.new = Closure!ChildCodes \ Closure!ParentCodes
      /\ Closure!Receipt.regressed = Closure!Regressed
      /\ Closure!Receipt.selected = Closure!Cardinality(x3)
      /\ Closure!Receipt.closed = Closure!Cardinality(Closure!Closed)
      /\ Closure!Receipt.remaining = Closure!Cardinality(Closure!Open)
  BY DEF Closure!Receipt
<1>8. Closure!Receipt.success <=> Closure!Recovered
  BY DEF Closure!Receipt, Closure!Recovered
<1>9. \A S : Closure!Cardinality(S) = Cardinality(S)
  BY DEF Closure!Cardinality, Cardinality
<1>3. Closure!RecoveryStatus = "RECOVERED_TO_HUMAN_REVIEW" <=> Closure!Recovered
  BY DEF Closure!RecoveryStatus
<1>4. Closure!Recovered <=> x6 = "PASS" /\ Closure!Open = {} /\ Closure!Regressed = {}
  BY DEF Closure!Recovered
<1>5. Closure!ReceiptAccepted
  <2>1. Closure!ChildCodes \ Closure!ParentCodes \subseteq {k[1] : k \in Closure!Regressed}
    <3> SUFFICES ASSUME NEW c \in Closure!ChildCodes \ Closure!ParentCodes
                 PROVE  \E k \in Closure!Regressed : c = k[1]
      OBVIOUS
    <3>1. PICK k \in x5 : c = k[1]
      BY DEF Closure!ChildCodes
    <3>2. k \notin Closure!ParentKeys
      BY <3>1, KeysCarryCodes
    <3> QED BY <3>1, <3>2 DEF Closure!Regressed
  <2>2. Closure!Valid(Closure!Receipt)
    BY <1>1, <1>2, <1>3, <1>4, <1>8, <1>9, <2>1, CountsAgree DEF Closure!Valid
  <2> QED BY <1>1, <2>2 DEF Closure!ReceiptAccepted
<1>6. Closure!RecoveredIsWhole
  <2> SUFFICES ASSUME x7.status = "RECOVERED_TO_HUMAN_REVIEW"
               PROVE  x3 = Profiles /\ x4 = {} /\ \A o \in Profiles : Closure!FinalStatus(o) = "VERIFIED_CLOSED"
    BY DEF Closure!RecoveredIsWhole
  <2>1. x7 = Closure!Receipt
    BY <1>1 DEF Closure!NoReceipt
  <2>2. Closure!Open = {}
    BY <2>1, <1>2, <1>3, <1>4
  <2>3. \A o \in Profiles : Closure!FinalStatus(o) = "VERIFIED_CLOSED"
    BY <2>2 DEF Closure!Open
  <2> QED BY <1>1, <2>3, ClosedAre
<1>7. Closure!ClosedIsGone
  <2> SUFFICES ASSUME x7 # Closure!NoReceipt
               PROVE  /\ \A o \in Closure!Closed : Closure!AtomicKeys(x1[o]) \cap x5 = {}
                      /\ x7.disposition = "PERSISTENT_FINDINGS_REMAIN" => Closure!Open # {}
    BY DEF Closure!ClosedIsGone
  <2>1. ASSUME NEW o \in Closure!Closed PROVE Closure!AtomicKeys(x1[o]) \cap x5 = {}
    <3>1. o \in Profiles /\ x1[o].code \notin Closure!ChildCodes
      BY <1>1, ClosedAre DEF Closure!Closed
    <3> QED BY <3>1, KeysCarryCodes
  <2>2. ASSUME x7.disposition = "PERSISTENT_FINDINGS_REMAIN" PROVE Closure!Open # {}
    <3>1. Closure!Disposition = "PERSISTENT_FINDINGS_REMAIN"
      BY <1>1, <1>2, <2>2
    <3>2. x5 \cap Closure!ParentKeys # {}
      BY <3>1 DEF Closure!Disposition, Closure!Regressed
    <3>3. PICK k \in x5 : k \in Closure!ParentKeys
      BY <3>2
    <3>4. PICK o \in Profiles : k \in Closure!AtomicKeys(x1[o])
      BY <3>3 DEF Closure!ParentKeys
    <3>5. x1[o].code \in Closure!ChildCodes
      BY <3>3, <3>4, KeysCarryCodes
    <3> QED BY <3>4, <3>5, ClosedAre DEF Closure!Open
  <2> QED BY <2>1, <2>2
<1> QED BY <1>5, <1>6, <1>7

-----------------------------------------------------------------------------
(* ModelEvaluation *)

\* Order of rates with denominators that are not zero: no f exceeds g, no g
\* exceeds h, so no f exceeds h.
LEMMA RatesChain ==
  ASSUME NEW a \in Nat, NEW b \in Nat, NEW c \in Nat, NEW d \in Nat \ {0}, NEW e \in Nat, NEW f \in Nat,
         a * d <= c * b, c * f <= e * d
  PROVE  a * f <= e * b
<1>1. (a * d) * f <= (c * b) * f
  OBVIOUS
<1>2. (c * f) * b <= (e * d) * b
  OBVIOUS
<1>3. (a * f) * d <= (e * b) * d
  <2>1. (a * d) * f = (a * f) * d /\ (c * b) * f = (c * f) * b /\ (e * d) * b = (e * b) * d
    OBVIOUS
  <2>2. /\ (a * d) * f \in Nat /\ (c * b) * f \in Nat /\ (e * d) * b \in Nat
    OBVIOUS
  <2> QED BY <1>1, <1>2, <2>1, <2>2
<1>4. a * f \in Nat /\ e * b \in Nat
  OBVIOUS
<1>5. \A m, n \in Nat : m * d <= n * d => m <= n
  OBVIOUS
<1> QED BY <1>3, <1>4, <1>5

Pixels == [pos : 0 .. MaxPixels, neg : 0 .. MaxPixels]
Marked == [tp : 0 .. MaxPixels, fp : 0 .. MaxPixels]

\* A model marks pixels that are there.
Fits(m) == m \in [Categories -> Marked] /\ \A c \in Categories : m[c].tp <= x2[c].pos /\ m[c].fp <= x2[c].neg

\* Category c is measured, and no worse under model m than under model b.
MeasuredBy(m, c) == Evaluation!AllMeasured(Evaluation!Counts(m, c))
NoWorseBy(m, b, c) == ~Evaluation!Exceeds(Evaluation!Dice(Evaluation!Counts(b, c)), Evaluation!Dice(Evaluation!Counts(m, c)))

EvaluationInv ==
  /\ x1 \in Policies /\ x2 \in [Categories -> Pixels] /\ Fits(x3) /\ Fits(x4)
  /\ x4 # x3 => \A c \in Categories :
       MeasuredBy(x3, c) /\ MeasuredBy(x4, c) /\ (x1.regression[1] = 0 => NoWorseBy(x4, x3, c))

\* What the counts of a category are.
LEMMA CountsAre ==
  ASSUME NEW m, NEW c \in Categories, x2 \in [Categories -> Pixels], Fits(m)
  PROVE  \E tp, fp, fn, tn \in Nat :
           /\ Evaluation!Counts(m, c) = [tp |-> tp, fp |-> fp, fn |-> fn, tn |-> tn]
           /\ tp + fn = x2[c].pos /\ fp + tn = x2[c].neg
<1>1. /\ m[c].tp \in Nat /\ m[c].fp \in Nat /\ x2[c].pos \in Nat /\ x2[c].neg \in Nat
      /\ m[c].tp <= x2[c].pos /\ m[c].fp <= x2[c].neg
  BY EvaluationAssumption DEF Fits, Marked, Pixels
<1>2. x2[c].pos - m[c].tp \in Nat /\ x2[c].neg - m[c].fp \in Nat
      /\ m[c].tp + (x2[c].pos - m[c].tp) = x2[c].pos /\ m[c].fp + (x2[c].neg - m[c].fp) = x2[c].neg
  BY <1>1
<1> QED BY <1>1, <1>2 DEF Evaluation!Counts

\* Its rates: the numerator and the denominator of Dice, and what is measured.
LEMMA RatesAre ==
  ASSUME NEW m, NEW c \in Categories, x2 \in [Categories -> Pixels], Fits(m)
  PROVE  \E n, d \in Nat :
           /\ Evaluation!Dice(Evaluation!Counts(m, c)) = <<n, d>>
           /\ MeasuredBy(m, c) => d # 0 /\ x2[c].pos > 0 /\ x2[c].neg > 0
<1>1. PICK tp, fp, fn, tn \in Nat :
        /\ Evaluation!Counts(m, c) = [tp |-> tp, fp |-> fp, fn |-> fn, tn |-> tn]
        /\ tp + fn = x2[c].pos /\ fp + tn = x2[c].neg
  BY CountsAre
<1>2. /\ Evaluation!Dice(Evaluation!Counts(m, c)) = <<2 * tp, 2 * tp + fp + fn>>
      /\ Evaluation!FalseNegativeRate(Evaluation!Counts(m, c)) = <<fn, tp + fn>>
      /\ Evaluation!FalsePositiveRate(Evaluation!Counts(m, c)) = <<fp, fp + tn>>
  BY <1>1 DEF Evaluation!Dice, Evaluation!Rate, Evaluation!FalseNegativeRate, Evaluation!FalsePositiveRate
<1>3. 2 * tp \in Nat /\ 2 * tp + fp + fn \in Nat
  OBVIOUS
<1>4. MeasuredBy(m, c) => 2 * tp + fp + fn # 0 /\ x2[c].pos > 0 /\ x2[c].neg > 0
  <2>1. MeasuredBy(m, c) => 2 * tp + fp + fn # 0 /\ tp + fn # 0 /\ fp + tn # 0
    BY <1>2 DEF MeasuredBy, Evaluation!AllMeasured, Evaluation!Measured
  <2> QED BY <2>1, <1>1
<1> QED BY <1>2, <1>3, <1>4

LEMMA EvaluationInit == Evaluation!Init => EvaluationInv
<1> SUFFICES ASSUME Evaluation!Init PROVE EvaluationInv
  OBVIOUS
<1>1. x1 \in Policies /\ x2 \in [Categories -> Pixels] /\ x3 \in Evaluation!InitialModels /\ x4 = x3
  BY DEF Evaluation!Init, Pixels
<1>2. \A c \in Categories : x2[c].pos \in 0 .. MaxPixels /\ x2[c].neg \in 0 .. MaxPixels
  BY <1>1 DEF Pixels
<1>3. 0 \in 0 .. MaxPixels
  BY EvaluationAssumption
<1>4. \A c \in Categories : x2[c].pos <= x2[c].pos /\ x2[c].neg <= x2[c].neg /\ 0 <= x2[c].pos /\ 0 <= x2[c].neg
  BY <1>2, EvaluationAssumption
<1>6. Fits(x3)
  <2>1. CASE x3 = [c \in Categories |-> [tp |-> x2[c].pos, fp |-> x2[c].neg]]
    <3>1. x3 \in [Categories -> Marked]
      BY <1>2, <2>1 DEF Marked
    <3>2. \A c \in Categories : x3[c].tp = x2[c].pos /\ x3[c].fp = x2[c].neg
      BY <2>1
    <3> QED BY <1>4, <3>1, <3>2 DEF Fits
  <2>2. CASE x3 = [c \in Categories |-> [tp |-> 0, fp |-> 0]]
    <3>1. x3 \in [Categories -> Marked]
      BY <1>3, <2>2 DEF Marked
    <3>2. \A c \in Categories : x3[c].tp = 0 /\ x3[c].fp = 0
      BY <2>2
    <3> QED BY <1>4, <3>1, <3>2 DEF Fits
  <2> QED BY <1>1, <2>1, <2>2 DEF Evaluation!InitialModels
<1> QED BY <1>1, <1>6 DEF EvaluationInv

\* A category that does not regress beyond a limit of zero is no worse.
LEMMA NotRegressed ==
  ASSUME NEW m, NEW b, NEW c \in Categories, x2 \in [Categories -> Pixels], Fits(m), Fits(b), x1 \in Policies,
         x1.regression[1] = 0,
         ~Evaluation!Regresses(Evaluation!Dice(Evaluation!Counts(m, c)), Evaluation!Dice(Evaluation!Counts(b, c)))
  PROVE  NoWorseBy(m, b, c)
<1>1. PICK n, d \in Nat : Evaluation!Dice(Evaluation!Counts(m, c)) = <<n, d>>
  BY RatesAre
<1>2. PICK p, q \in Nat : Evaluation!Dice(Evaluation!Counts(b, c)) = <<p, q>>
  BY RatesAre
<1>3. PICK e \in Nat \ {0} : x1.regression = <<0, e>>
  BY EvaluationAssumption
<1>4. ~ ((p * d - n * q) * e > 0 * (q * d))
  BY <1>1, <1>2, <1>3 DEF Evaluation!Regresses, Evaluation!Exceeds, Evaluation!Minus
<1>5. p * d \in Nat /\ n * q \in Nat /\ q * d \in Nat
  OBVIOUS
<1>6. \A u, v \in Nat : ~ ((u - v) * e > 0) => u <= v
  OBVIOUS
<1>7. 0 * (q * d) = 0
  BY <1>5
<1>8. p * d <= n * q
  BY <1>4, <1>5, <1>6, <1>7
<1> QED BY <1>1, <1>2, <1>5, <1>8 DEF NoWorseBy, Evaluation!Exceeds

\* No worse twice is no worse, if what is between is measured.
LEMMA NoWorseChains ==
  ASSUME NEW m, NEW b, NEW f, NEW c \in Categories, x2 \in [Categories -> Pixels], Fits(m), Fits(b), Fits(f),
         MeasuredBy(b, c), NoWorseBy(m, b, c), NoWorseBy(b, f, c)
  PROVE  NoWorseBy(m, f, c)
<1>1. PICK n, d \in Nat : Evaluation!Dice(Evaluation!Counts(m, c)) = <<n, d>>
  BY RatesAre
<1>2. PICK p, q \in Nat : Evaluation!Dice(Evaluation!Counts(b, c)) = <<p, q>> /\ q # 0
  BY RatesAre
<1>3. PICK s, t \in Nat : Evaluation!Dice(Evaluation!Counts(f, c)) = <<s, t>>
  BY RatesAre
<1>4. /\ p * d \in Nat /\ n * q \in Nat /\ s * q \in Nat /\ p * t \in Nat /\ s * d \in Nat /\ n * t \in Nat
  OBVIOUS
<1>5. p * d <= n * q /\ s * q <= p * t
  BY <1>1, <1>2, <1>3, <1>4 DEF NoWorseBy, Evaluation!Exceeds
<1>6. s * d <= n * t
  BY <1>2, <1>5, RatesChain
<1> QED BY <1>1, <1>3, <1>4, <1>6 DEF NoWorseBy, Evaluation!Exceeds

LEMMA EvaluationSteps == EvaluationInv /\ Evaluation!Next => EvaluationInv'
<1> SUFFICES ASSUME EvaluationInv, Evaluation!Next PROVE EvaluationInv'
  OBVIOUS
<1>1. CASE Evaluation!EvaluateRetention
  <2>1. x1' = x1 /\ x2' = x2 /\ x3' = x3 /\ x4' = x4
    BY <1>1 DEF Evaluation!EvaluateRetention
  <2> QED BY <2>1 DEF EvaluationInv, Fits, MeasuredBy, NoWorseBy, Evaluation!Counts
<1>2. ASSUME NEW m \in Evaluation!Predictions, Evaluation!ApproveRound(m) PROVE EvaluationInv'
  <2>1. x4' = m /\ x1' = x1 /\ x2' = x2 /\ x3' = x3
    BY <1>2 DEF Evaluation!ApproveRound
  <2>2. Fits(m) /\ Fits(x3) /\ Fits(x4) /\ x2 \in [Categories -> Pixels] /\ x1 \in Policies
    BY DEF Evaluation!Predictions, Fits, Marked, EvaluationInv
  <2>3. ASSUME NEW c \in Categories
        PROVE  /\ MeasuredBy(m, c) /\ MeasuredBy(x4, c)
               /\ ~Evaluation!Regresses(Evaluation!Dice(Evaluation!Counts(m, c)), Evaluation!Dice(Evaluation!Counts(x4, c)))
    BY <1>2 DEF Evaluation!ApproveRound, Evaluation!Eligible, MeasuredBy
  <2>4. ASSUME NEW c \in Categories
        PROVE  MeasuredBy(x3, c) /\ MeasuredBy(m, c) /\ (x1.regression[1] = 0 => NoWorseBy(m, x3, c))
    <3>1. x1.regression[1] = 0 => NoWorseBy(m, x4, c)
      BY <2>2, <2>3, NotRegressed
    <3>2. CASE x4 = x3
      BY <2>3, <3>1, <3>2
    <3>3. CASE x4 # x3
      <4>1. MeasuredBy(x3, c) /\ MeasuredBy(x4, c) /\ (x1.regression[1] = 0 => NoWorseBy(x4, x3, c))
        BY <3>3 DEF EvaluationInv
      <4> QED BY <2>2, <2>3, <3>1, <4>1, NoWorseChains
    <3> QED BY <3>2, <3>3
  <2> QED BY <2>1, <2>2, <2>4 DEF EvaluationInv, Fits, MeasuredBy, NoWorseBy, Evaluation!Counts
<1> QED BY <1>1, <1>2 DEF Evaluation!Next

LEMMA EvaluationHolds == EvaluationInv => Evaluation!UnmeasuredIsHeld /\ Evaluation!NoCategoryIsTraded
<1> SUFFICES ASSUME EvaluationInv PROVE Evaluation!UnmeasuredIsHeld /\ Evaluation!NoCategoryIsTraded
  OBVIOUS
<1>1. ASSUME x4 # x3, NEW c \in Categories PROVE x2[c].pos > 0 /\ x2[c].neg > 0
  BY <1>1, RatesAre DEF EvaluationInv
<1>2. Evaluation!NoCategoryIsTraded
  BY DEF EvaluationInv, Evaluation!NoCategoryIsTraded, NoWorseBy
<1> QED BY <1>1, <1>2 DEF Evaluation!UnmeasuredIsHeld

\* Pixels are counted in natural numbers.
LEMMA PixelsAre ==
  ASSUME NEW f
  PROVE  Evaluation!PixelsOf(f) \in Nat
<1> DEFINE S == Categories \X (1 .. MaxPixels)
           T == {p \in S : p[2] <= f[p[1]]}
<1>1. IsFiniteSet(S)
  <2>1. IsFiniteSet(Categories) /\ IsFiniteSet(1 .. MaxPixels)
    BY EvaluationAssumption, FS_Interval
  <2> QED BY <2>1, FS_Product
<1>2. T \in SUBSET S
  OBVIOUS
<1>3. Evaluation!PixelsOf(f) = Cardinality(T)
  BY DEF Evaluation!PixelsOf, Evaluation!Cardinality, Cardinality
<1> HIDE DEF S, T
<1>4. IsFiniteSet(T)
  BY <1>1, <1>2, FS_Subset
<1> QED BY <1>3, <1>4, FS_CardinalityType

\* The Dice of a model is a pair of numbers.
LEMMA TotalsAre ==
  ASSUME NEW m
  PROVE  \E n, d \in Nat : Evaluation!Dice(Evaluation!Total(m)) = <<n, d>>
<1>1. PICK tp, fp, fn, tn \in Nat : Evaluation!Total(m) = [tp |-> tp, fp |-> fp, fn |-> fn, tn |-> tn]
  BY PixelsAre DEF Evaluation!Total
<1>2. Evaluation!Dice(Evaluation!Total(m)) = <<2 * tp, 2 * tp + fp + fn>>
  BY <1>1 DEF Evaluation!Dice, Evaluation!Rate
<1> QED BY <1>2

\* An approval replaces the champion by a better one.
LEMMA ApprovalsGain ==
  ASSUME Evaluation!Next
  PROVE  Evaluation!Improves
<1> SUFFICES ASSUME x4' # x4
             PROVE  Evaluation!Exceeds(Evaluation!Dice(Evaluation!Total(x4')), Evaluation!Dice(Evaluation!Total(x4)))
  BY DEF Evaluation!Improves
<1>1. PICK m : Evaluation!ApproveRound(m)
  BY DEF Evaluation!Next, Evaluation!EvaluateRetention
<1>2. x4' = m /\ Evaluation!Gains(Evaluation!Dice(Evaluation!Total(m)), Evaluation!Dice(Evaluation!Total(x4)))
  BY <1>1 DEF Evaluation!ApproveRound, Evaluation!Eligible
<1>3. PICK n, d \in Nat : Evaluation!Dice(Evaluation!Total(m)) = <<n, d>>
  BY TotalsAre
<1>4. PICK p, q \in Nat : Evaluation!Dice(Evaluation!Total(x4)) = <<p, q>>
  BY TotalsAre
<1>5. n * q - p * d > 0
  BY <1>2, <1>3, <1>4 DEF Evaluation!Gains, Evaluation!Minus
<1>6. n * q \in Nat /\ p * d \in Nat
  OBVIOUS
<1>7. n * q > p * d
  BY <1>5, <1>6
<1> QED BY <1>2, <1>3, <1>4, <1>7 DEF Evaluation!Exceeds

-----------------------------------------------------------------------------
(* ModelEvaluation: evaluate_continual_retention                            *)

Scores == 0 .. MaxScore
Matrices == [1 .. 3 -> [1 .. 3 -> Scores]]

RetentionInv ==
  /\ x5 \in Retentions /\ x6 \in Matrices
  /\ x7 # "NONE" =>
       x7 = IF Retention!RetainedHigher(x6) THEN "ELIGIBLE_FOR_SANDBOX_REVIEW" ELSE "HOLD_CATASTROPHIC_FORGETTING"

LEMMA RetentionInit == Retention!Init => RetentionInv
BY DEF Retention!Init, RetentionInv, Matrices, Scores

LEMMA RetentionSteps == RetentionInv /\ Retention!Next => RetentionInv'
<1> SUFFICES ASSUME RetentionInv, Retention!Next PROVE RetentionInv'
  OBVIOUS
<1>1. CASE Retention!EvaluateRetention
  <2>1. /\ x5' = x5 /\ x6' = x6
        /\ x7' = IF Retention!RetainedHigher(x6) THEN "ELIGIBLE_FOR_SANDBOX_REVIEW" ELSE "HOLD_CATASTROPHIC_FORGETTING"
    BY <1>1 DEF Retention!EvaluateRetention
  <2>2. Retention!RetainedHigher(x6)' <=> Retention!RetainedHigher(x6)
    BY <2>1 DEF Retention!RetainedHigher, Retention!Retained, Retention!Stages, Retention!Forgetting, Retention!History, Retention!Final, Retention!Prior
  <2> QED BY <2>1, <2>2 DEF RetentionInv
<1>2. CASE \E m \in Retention!Predictions : Retention!ApproveRound(m)
  <2>1. x5' = x5 /\ x6' = x6 /\ x7' = x7 /\ x7 = "NONE"
    BY <1>2 DEF Retention!ApproveRound
  <2> QED BY <2>1 DEF RetentionInv
<1> QED BY <1>1, <1>2 DEF Retention!Next

\* The greatest and the least of up to three numbers.
LEMMA ExtremesAre ==
  ASSUME NEW S, NEW a \in Int, NEW b \in Int, NEW c \in Int, S = {a, b, c}
  PROVE  /\ Retention!Max(S) \in S /\ \A y \in S : y <= Retention!Max(S)
         /\ Retention!Min(S) \in S /\ \A y \in S : Retention!Min(S) <= y
<1>1. \E x \in S : \A y \in S : x >= y
  OBVIOUS
<1>2. \E x \in S : \A y \in S : x =< y
  OBVIOUS
<1>3. S \in SUBSET Int /\ Retention!Max(S) \in S /\ \A y \in S : Retention!Max(S) >= y
  BY <1>1 DEF Retention!Max
<1>4. S \in SUBSET Int /\ Retention!Min(S) \in S /\ \A y \in S : Retention!Min(S) =< y
  BY <1>2 DEF Retention!Min
<1>5. \A y \in S : y \in Int
  OBVIOUS
<1> QED BY <1>3, <1>4, <1>5

\* What is scored of an object from its own stage on.
LEMMA HistoryIs ==
  ASSUME NEW m \in Matrices, NEW o \in 1 .. 3, x6 \in Matrices
  PROVE  /\ Len(x6) = 3 /\ Retention!Final(m, o) = m[3][o]
         /\ Retention!Stages = 1 .. 3 /\ Retention!Prior = 1 .. 2
         /\ \A s \in o .. 3 : s \in 1 .. 3 /\ m[s][o] \in Retention!History(m, o) /\ m[s][o] \in Scores
         /\ \E a, b, c \in Scores : Retention!History(m, o) = {a, b, c}
         /\ \A v \in Retention!History(m, o) : \E s \in o .. 3 : v = m[s][o]
<1>1. Len(x6) = 3
  BY DEF Matrices
<1>2. \A s \in 1 .. 3 : m[s][o] \in Scores
  BY DEF Matrices
<1>3. Retention!History(m, o) = {m[s][o] : s \in o .. 3}
  BY <1>1 DEF Retention!History
<1>4. \E a, b, c \in Scores : Retention!History(m, o) = {a, b, c}
  <2>1. CASE o = 1
    <3>1. o .. 3 = {1, 2, 3}
      BY <2>1
    <3>2. Retention!History(m, o) = {m[1][o], m[2][o], m[3][o]}
      BY <1>3, <3>1
    <3> QED BY <1>2, <3>2
  <2>2. CASE o = 2
    <3>1. o .. 3 = {2, 3}
      BY <2>2
    <3>2. Retention!History(m, o) = {m[2][o], m[3][o], m[3][o]}
      BY <1>3, <3>1
    <3> QED BY <1>2, <3>2
  <2>3. CASE o = 3
    <3>1. o .. 3 = {3}
      BY <2>3
    <3>2. Retention!History(m, o) = {m[3][o], m[3][o], m[3][o]}
      BY <1>3, <3>1
    <3> QED BY <1>2, <3>2
  <2> QED BY <2>1, <2>2, <2>3
<1>5. Retention!Final(m, o) = m[3][o] /\ Retention!Stages = 1 .. 3 /\ Retention!Prior = 1 .. 2
  BY <1>1 DEF Retention!Final, Retention!Stages, Retention!Prior
<1>6. \A s \in o .. 3 : s \in 1 .. 3
  OBVIOUS
<1> QED BY <1>1, <1>2, <1>3, <1>4, <1>5, <1>6

\* No score of an object is above what was forgotten of it and its final score.
LEMMA ForgottenIs ==
  ASSUME NEW m \in Matrices, NEW o \in 1 .. 3, x6 \in Matrices
  PROVE  /\ \A s \in o .. 3 : m[s][o] - Retention!Final(m, o) <= Retention!Forgetting(m, o)
         /\ Retention!Forgetting(m, o) \in Int
<1>1. PICK a, b, c \in Scores : Retention!History(m, o) = {a, b, c}
  BY HistoryIs
<1>2. a \in Int /\ b \in Int /\ c \in Int
  BY EvaluationAssumption DEF Scores
<1>3. \A y \in Retention!History(m, o) : y <= Retention!Max(Retention!History(m, o)) /\ y \in Int
  BY <1>1, <1>2, ExtremesAre
<1>4. Retention!Max(Retention!History(m, o)) \in Int
  BY <1>1, <1>2, ExtremesAre
<1>5. Retention!Final(m, o) \in Int
  <2>1. 3 \in o .. 3
    OBVIOUS
  <2> QED BY <1>3, <2>1, HistoryIs
<1> DEFINE top == Retention!Max(Retention!History(m, o))
           last == Retention!Final(m, o)
<1>6. Retention!Forgetting(m, o) = top - last
  BY DEF Retention!Forgetting
<1>7. top \in Int /\ last \in Int
  BY <1>4, <1>5
<1>8. \A s \in o .. 3 : m[s][o] \in Int /\ m[s][o] <= top
  BY <1>3, HistoryIs
<1> HIDE DEF top, last
<1>9. \A s \in o .. 3 : m[s][o] - last <= top - last
  BY <1>7, <1>8
<1> QED BY <1>6, <1>7, <1>9 DEF last

LEMMA PeaksAreKept == RetentionInv => Retention!NoPeakIsForgotten
<1> SUFFICES ASSUME RetentionInv, x7 = "ELIGIBLE_FOR_SANDBOX_REVIEW", NEW o \in Retention!Prior, NEW s \in o .. Len(x6)
             PROVE  x6[s][o] - Retention!Final(x6, o) <= x5.worst
  BY DEF Retention!NoPeakIsForgotten
<1>1. x6 \in Matrices /\ Retention!RetainedHigher(x6) /\ x5 \in Retentions
  BY DEF RetentionInv
<1>2. 1 \in 1 .. 3
  OBVIOUS
<1>3. Len(x6) = 3 /\ Retention!Prior = 1 .. 2 /\ Retention!Stages = 1 .. 3
  BY <1>1, <1>2, HistoryIs
<1>4. o \in 1 .. 3 /\ s \in o .. 3
  BY <1>3
<1>5. [p \in Retention!Stages |-> Retention!Forgetting(x6, p)][o] <= x5.worst
  BY <1>1 DEF Retention!RetainedHigher, Retention!Retained
<1>6. Retention!Forgetting(x6, o) <= x5.worst
  BY <1>3, <1>4, <1>5
<1>7. /\ x6[s][o] - Retention!Final(x6, o) <= Retention!Forgetting(x6, o)
      /\ Retention!Forgetting(x6, o) \in Int /\ x5.worst \in Int
  BY <1>1, <1>4, ForgottenIs, EvaluationAssumption
<1>8. x6[s][o] \in Int /\ Retention!Final(x6, o) \in Int
  <2>1. 3 \in o .. 3
    BY <1>4
  <2> QED BY <1>1, <1>4, <2>1, HistoryIs, EvaluationAssumption DEF Scores
<1> QED BY <1>6, <1>7, <1>8

\* The mirror image of the scores, and what it makes of every object's history.
Mirror == [s \in 1 .. 3 |-> [o \in 1 .. 3 |-> MaxScore - x6[s][o]]]

LEMMA MirrorForgets ==
  ASSUME x6 \in Matrices, NEW o \in 1 .. 3
  PROVE  /\ Mirror \in Matrices
         /\ Retention!ForgettingLower(Mirror, o) = Retention!Forgetting(x6, o)
         /\ Retention!Final(Mirror, o) = MaxScore - Retention!Final(x6, o)
<1>0. \A v \in Scores : v \in Int /\ MaxScore - v \in Scores
  BY EvaluationAssumption DEF Scores
<1>1. Mirror \in Matrices
  <2>1. \A s, p \in 1 .. 3 : x6[s][p] \in Scores
    BY DEF Matrices
  <2> QED BY <1>0, <2>1 DEF Mirror, Matrices
<1>2. \A s \in 1 .. 3 : Mirror[s][o] = MaxScore - x6[s][o] /\ x6[s][o] \in Scores
  BY DEF Mirror, Matrices
<1>3. Retention!Final(Mirror, o) = MaxScore - Retention!Final(x6, o)
  BY <1>1, <1>2, HistoryIs
<1> DEFINE H == Retention!History(x6, o)
           L == Retention!History(Mirror, o)
           last == Retention!Final(x6, o)
<1>4. /\ Retention!Max(H) \in H /\ \A y \in H : y <= Retention!Max(H)
  <2>1. PICK a, b, c \in Scores : H = {a, b, c}
    BY HistoryIs
  <2> QED BY <1>0, <2>1, ExtremesAre
<1>5. /\ Retention!Min(L) \in L /\ \A y \in L : Retention!Min(L) <= y
  <2>1. PICK a, b, c \in Scores : L = {a, b, c}
    BY <1>1, HistoryIs
  <2> QED BY <1>0, <2>1, ExtremesAre
<1>6. \A v \in H : v \in Scores /\ MaxScore - v \in L
  <2> SUFFICES ASSUME NEW v \in H PROVE v \in Scores /\ MaxScore - v \in L
    OBVIOUS
  <2>1. PICK s \in o .. 3 : v = x6[s][o]
    BY HistoryIs
  <2>2. s \in 1 .. 3 /\ Mirror[s][o] \in L
    BY <1>1, <2>1, HistoryIs
  <2> QED BY <1>2, <2>1, <2>2
<1>7. \A v \in L : v \in Scores /\ MaxScore - v \in H
  <2> SUFFICES ASSUME NEW v \in L PROVE v \in Scores /\ MaxScore - v \in H
    OBVIOUS
  <2>1. PICK s \in o .. 3 : v = Mirror[s][o]
    BY <1>1, HistoryIs
  <2>2. s \in 1 .. 3 /\ x6[s][o] \in H /\ v \in Scores
    BY <1>1, <2>1, HistoryIs
  <2>3. MaxScore - (MaxScore - x6[s][o]) = x6[s][o]
    BY <1>2, <2>2, EvaluationAssumption DEF Scores
  <2> QED BY <1>2, <2>1, <2>2, <2>3
<1>8. last \in Scores
  <2>1. 3 \in o .. 3
    OBVIOUS
  <2> QED BY <2>1, HistoryIs
<1> HIDE DEF H, L, last
<1> DEFINE top == Retention!Max(H)
           low == Retention!Min(L)
<1>9. top \in Scores /\ low \in Scores
  BY <1>4, <1>5, <1>6, <1>7
<1>10. low <= MaxScore - top /\ MaxScore - low <= top
  BY <1>4, <1>5, <1>6, <1>7
<1>11. Retention!Forgetting(x6, o) = top - last
  BY DEF Retention!Forgetting, H, last
<1>12. Retention!ForgettingLower(Mirror, o) = (MaxScore - last) - low
  BY <1>3 DEF Retention!ForgettingLower, L, last
<1> HIDE DEF top, low
<1>13. top - last = (MaxScore - last) - low
  BY <1>8, <1>9, <1>10, EvaluationAssumption DEF Scores
<1> QED BY <1>1, <1>3, <1>11, <1>12, <1>13 DEF last

LEMMA DirectionsMeet == RetentionInv => Retention!DirectionsAgree
<1> SUFFICES ASSUME RetentionInv, x7 # "NONE"
             PROVE  x7 = "ELIGIBLE_FOR_SANDBOX_REVIEW"
                      <=> Retention!RetainedLower([s \in Retention!Stages |-> [o \in Retention!Stages |-> MaxScore - x6[s][o]]])
  BY DEF Retention!DirectionsAgree
<1>1. x6 \in Matrices /\ x5 \in Retentions
  BY DEF RetentionInv
<1>2. Retention!Stages = 1 .. 3
  <2>1. 1 \in 1 .. 3
    OBVIOUS
  <2> QED BY <1>1, <2>1, HistoryIs
<1>3. [s \in Retention!Stages |-> [o \in Retention!Stages |-> MaxScore - x6[s][o]]] = Mirror
  BY <1>2 DEF Mirror
<1>4. [o \in Retention!Stages |-> Retention!ForgettingLower(Mirror, o)] = [o \in Retention!Stages |-> Retention!Forgetting(x6, o)]
  BY <1>1, <1>2, MirrorForgets
<1>5. {o \in Retention!Stages : Retention!Final(Mirror, o) > MaxScore - x5.limit}
        = {o \in Retention!Stages : Retention!Final(x6, o) < x5.limit}
  <2>1. ASSUME NEW o \in 1 .. 3
        PROVE  Retention!Final(Mirror, o) > MaxScore - x5.limit <=> Retention!Final(x6, o) < x5.limit
    <3>1. Retention!Final(Mirror, o) = MaxScore - Retention!Final(x6, o)
      BY <1>1, MirrorForgets
    <3>2. Retention!Final(x6, o) \in Int /\ x5.limit \in Int /\ MaxScore \in Int
      <4>1. 3 \in o .. 3
        OBVIOUS
      <4>2. Retention!Final(x6, o) = x6[3][o] /\ x6[3][o] \in Scores
        BY <1>1, <4>1, HistoryIs
      <4>3. x5.limit \in Nat
        BY <1>1, EvaluationAssumption
      <4>4. MaxScore \in Nat /\ \A v \in Scores : v \in Int
        BY EvaluationAssumption DEF Scores
      <4> QED BY <4>2, <4>3, <4>4
    <3> QED BY <3>1, <3>2
  <2> QED BY <1>2, <2>1
<1>6. Retention!RetainedLower(Mirror) <=> Retention!RetainedHigher(x6)
  BY <1>4, <1>5 DEF Retention!RetainedLower, Retention!RetainedHigher
<1> QED BY <1>3, <1>6 DEF RetentionInv

-----------------------------------------------------------------------------
(* TttEpisode *)

Blank == Episode!NoMatrix

Matrix == Episode!Matrices \cup {Blank}

Reports ==
  [status : {"ROLLED_BACK", "ACCEPTED_EPISODIC"}, reason : Episode!Reasons \cup {"none", "not_started"},
   steps : 0 .. Budget, before : {0, 2}, after : 0 .. 3,
   parent : {"none", "p"}, attempted : {"none", "p", "c"}, effective : {"none", "p", "c"},
   guardBefore : Matrix, guardAfter : Matrix, guard : Matrix, late : BOOLEAN, measured : BOOLEAN]

\* What was measured before the first step, and how far the optimizer came.
Measured(r) == r.measured /\ r.parent = "p" /\ r.guardBefore \in Episode!Matrices

Untouched(r) == r.steps = 0 /\ r.before = 0 /\ r.after = 0 /\ r.guardAfter = Blank /\ r.attempted = "p"

Stepped(r) ==
  /\ r.steps > 0 /\ r.before = 2 /\ (r.after # 0 => r.steps = Budget)
  /\ r.attempted # "none" /\ Episode!Qualified(r.guardBefore)

\* What is excused of a report that the service refuses.
Excused(r) ==
  \/ r.status = "ACCEPTED_EPISODIC" /\ r.late
  \/ ~Episode!Qualified(r.guardBefore) /\ r.reason # "unqualified"

Ended(r) == r.measured => Episode!Valid(r) \/ Excused(r)

\* What the report holds at each point of the worker.
WorkerAt(r) ==
  /\ r \in Reports
  /\ x1 = "load" =>
       ~r.measured /\ r.steps = 0 /\ r.before = 0 /\ r.after = 0 /\ r.guardAfter = Blank
  /\ x1 \in {"features", "begin"} => Measured(r) /\ Untouched(r)
  /\ x1 \in {"step", "nonfinite"} =>
       /\ Measured(r) /\ Episode!Qualified(r.guardBefore)
       /\ r.after = 0 /\ r.guardAfter = Blank /\ (Untouched(r) \/ Stepped(r))
  /\ x1 \in {"judge", "guard", "close"} => Measured(r) /\ Stepped(r) /\ r.steps = Budget /\ r.after # 0
  /\ x1 \in {"guard", "close"} => r.after < 2 /\ r.guardAfter \in Episode!Matrices
  /\ x1 = "close" =>
       /\ r.status = "ACCEPTED_EPISODIC" /\ r.reason = "none" /\ r.attempted = "c"
       /\ r.guard = r.guardAfter /\ Episode!NoWorse(r.guardAfter, r.guardBefore)
  /\ x1 = "done" => Ended(r)

Points == {"load", "features", "begin", "step", "nonfinite", "judge", "guard", "close", "done"}

EpisodeInv ==
  /\ x1 \in Points
  /\ x4 \in {"none", "valid", "refused"}
  /\ x4 # "none" => x1 = "done"
  /\ x4 = "valid" => Episode!Valid(x3)
  /\ x4 = "refused" => ~Episode!Valid(x3)
  /\ part = "episode" => x2 \in BOOLEAN /\ WorkerAt(x3)
  /\ part = "report" => x1 = "done"

LEMMA EpisodeStarts ==
  (part = "episode" /\ Episode!Init) \/ (part = "report" /\ Episode!InitAny) => EpisodeInv
<1>1. ASSUME part = "episode", Episode!Init PROVE EpisodeInv
  <2>1. Episode!Failure \in Reports
    <3>1. 0 \in 0 .. Budget /\ Episode!NoObjective = 0 /\ Blank \in Matrix
      BY EpisodeAssumption DEF Episode!NoObjective, Matrix
    <3> QED BY <3>1 DEF Episode!Failure, Reports, Blank
  <2>2. /\ ~Episode!Failure.measured /\ Episode!Failure.steps = 0 /\ Episode!Failure.before = 0
        /\ Episode!Failure.after = 0 /\ Episode!Failure.guardAfter = Blank
    BY DEF Episode!Failure, Episode!NoObjective, Blank
  <2> QED BY <1>1, <2>1, <2>2 DEF Episode!Init, EpisodeInv, WorkerAt, Points
<1>2. ASSUME part = "report", Episode!InitAny PROVE EpisodeInv
  BY <1>2 DEF Episode!InitAny, EpisodeInv, Points
<1> QED BY <1>1, <1>2

\* What an exception inside the episode leaves is kept, or excused.
LEMMA RolledBack ==
  ASSUME NEW reason \in Episode!Reasons, x3 \in Reports, Episode!RollBack(reason), x2 \in BOOLEAN,
         x3.measured =>
           /\ Measured(x3) /\ (Untouched(x3) \/ Stepped(x3))
           /\ reason = "not_improved" => x3.after # 0 /\ x3.after >= x3.before
           /\ reason = "nonfinite_final" => x3.after = 0
           /\ reason = "unqualified" => ~Episode!Qualified(x3.guardBefore) /\ Untouched(x3)
  PROVE  WorkerAt(x3)' /\ x1' = "done" /\ x2' = x2 /\ x4' = x4
<1>1. /\ x3' = [x3 EXCEPT !.status = "ROLLED_BACK", !.reason = reason, !.effective = x3.parent,
                          !.guard = x3.guardBefore, !.late = x2]
      /\ x1' = "done" /\ x2' = x2 /\ x4' = x4
  BY DEF Episode!RollBack
<1>2. /\ x3' \in Reports /\ x3'.status = "ROLLED_BACK" /\ x3'.reason = reason /\ x3'.effective = x3.parent
      /\ x3'.guard = x3.guardBefore /\ x3'.late = x2 /\ x3'.parent = x3.parent
      /\ x3'.measured = x3.measured /\ x3'.steps = x3.steps /\ x3'.before = x3.before /\ x3'.after = x3.after
      /\ x3'.attempted = x3.attempted /\ x3'.guardBefore = x3.guardBefore /\ x3'.guardAfter = x3.guardAfter
  BY <1>1 DEF Reports
<1>3. Ended(x3)'
  <2> SUFFICES ASSUME x3.measured, Episode!Qualified(x3.guardBefore) \/ reason = "unqualified"
               PROVE  Episode!Valid(x3)'
    BY <1>2 DEF Ended, Excused, Episode!Qualified
  <2>1. /\ Measured(x3) /\ (Untouched(x3) \/ Stepped(x3)) /\ x3.steps \in 0 .. Budget
        /\ x3.guardAfter \in Matrix
    BY DEF Reports
  <2>2. Episode!RolledBackValid(x3)'
    BY <1>2, <2>1 DEF Episode!RolledBackValid, Measured, Untouched, Stepped, Episode!Qualified, Episode!NoObjective, Blank
  <2>3. IF x3.steps = 0 THEN x3.before = 0 /\ x3.after = 0 ELSE x3.before # 0 /\ (x3.after # 0 => x3.steps = Budget)
    BY <2>1 DEF Untouched, Stepped
  <2> QED BY <1>2, <2>1, <2>2, <2>3 DEF Episode!Valid, Measured, Matrix, Blank, Episode!NoObjective, Episode!MatrixValid
<1> QED BY <1>1, <1>2, <1>3 DEF WorkerAt

\* A point that the worker reaches without an exception.
LEMMA Reached ==
  ASSUME EpisodeInv, part' = part, part = "episode", x1 # "done", x1' \in Points, x2' \in BOOLEAN, x4' = x4,
         WorkerAt(x3)'
  PROVE  EpisodeInv'
<1>1. x4 = "none"
  BY DEF EpisodeInv
<1> QED BY <1>1 DEF EpisodeInv

LEMMA EpisodeSteps == EpisodeInv /\ part \in {"episode", "report"} /\ part' = part /\ Episode!Next => EpisodeInv'
<1> SUFFICES ASSUME EpisodeInv, part \in {"episode", "report"}, part' = part, Episode!Next PROVE EpisodeInv'
  OBVIOUS
<1>1. CASE Episode!Judge
  <2>1. /\ x1 = "done" /\ x1' = x1 /\ x2' = x2 /\ x3' = x3
        /\ x4' = IF Episode!Valid(x3) THEN "valid" ELSE "refused"
    BY <1>1 DEF Episode!Judge
  <2>2. Episode!Valid(x3)' = Episode!Valid(x3)
    BY <2>1
  <2>3. WorkerAt(x3) => WorkerAt(x3)'
    BY <2>1 DEF WorkerAt
  <2> QED BY <2>1, <2>2, <2>3 DEF EpisodeInv
<1>2. CASE ~Episode!Judge
  <2>1. x1 # "done" /\ part = "episode" /\ WorkerAt(x3) /\ x2 \in BOOLEAN /\ x3 \in Reports
    <3>1. x1 # "done"
      BY <1>2 DEF Episode!Next, Episode!LoadFails, Episode!Load, Episode!FeaturesFail, Episode!Features,
         Episode!Begin, Episode!OptimizeStep, Episode!StepFails, Episode!FinalObjective,
         Episode!JudgeObjective, Episode!JudgeGuard, Episode!CloseEpisode, Episode!Tick
    <3> QED BY <3>1 DEF EpisodeInv, WorkerAt
  <2>2. ASSUME NEW reason \in Episode!Reasons, Episode!RollBack(reason),
               x3.measured =>
                 /\ Measured(x3) /\ (Untouched(x3) \/ Stepped(x3))
                 /\ reason = "not_improved" => x3.after # 0 /\ x3.after >= x3.before
                 /\ reason = "nonfinite_final" => x3.after = 0
                 /\ reason = "unqualified" => ~Episode!Qualified(x3.guardBefore) /\ Untouched(x3)
        PROVE  EpisodeInv'
    <3>1. WorkerAt(x3)' /\ x1' = "done" /\ x2' = x2 /\ x4' = x4
      BY <2>1, <2>2, RolledBack
    <3> QED BY <2>1, <3>1, Reached DEF Points
  <2>3. ASSUME x1' \in Points, x2' \in BOOLEAN, x4' = x4, WorkerAt(x3)' PROVE EpisodeInv'
    BY <2>1, <2>3, Reached
  <2> HIDE DEF EpisodeInv, Points
  <2>4. \A p \in {"features", "begin", "step", "nonfinite", "judge", "guard", "close", "done"} : p \in Points
    BY DEF Points
  <2>5. {"input", "time", "unqualified", "gradient", "parameter", "nonfinite_final", "not_improved",
         "regression", "no_update"} = Episode!Reasons
    BY DEF Episode!Reasons
  <2>6. CASE Episode!LoadFails
    <3>1. Episode!RollBack("input") /\ ~x3.measured
      BY <2>1, <2>6 DEF Episode!LoadFails, WorkerAt
    <3> QED BY <2>2, <2>5, <3>1
  <2>7. CASE Episode!Load
    <3>1. PICK m \in Episode!Matrices :
            /\ x3' = [x3 EXCEPT !.guardBefore = m, !.guard = m, !.parent = "p", !.attempted = "p",
                                !.effective = "p", !.measured = TRUE]
            /\ x1 = "load" /\ x1' = "features" /\ x2' = x2 /\ x4' = x4
      BY <2>7 DEF Episode!Load
    <3>2. x3' \in Reports /\ Measured(x3)' /\ x3'.steps = x3.steps /\ x3'.before = x3.before
          /\ x3'.after = x3.after /\ x3'.guardAfter = x3.guardAfter /\ x3'.attempted = "p"
      BY <2>1, <3>1 DEF Reports, Measured, Matrix
    <3>3. x3.steps = 0 /\ x3.before = 0 /\ x3.after = 0 /\ x3.guardAfter = Blank
      BY <2>1, <3>1 DEF WorkerAt
    <3>4. WorkerAt(x3)'
      BY <3>1, <3>2, <3>3 DEF WorkerAt, Untouched
    <3> QED BY <2>1, <2>3, <2>4, <3>1, <3>4
  <2>8. CASE Episode!FeaturesFail
    <3>1. Episode!RollBack("input") /\ Measured(x3) /\ Untouched(x3)
      BY <2>1, <2>8 DEF Episode!FeaturesFail, WorkerAt
    <3> QED BY <2>2, <2>5, <3>1
  <2>9. CASE Episode!Features
    <3>1. x1 = "features" /\ x1' = "begin" /\ x2' = x2 /\ x3' = x3 /\ x4' = x4
      BY <2>9 DEF Episode!Features
    <3>2. WorkerAt(x3)'
      BY <2>1, <3>1 DEF WorkerAt
    <3> QED BY <2>1, <2>3, <2>4, <3>1, <3>2
  <2>10. CASE Episode!Begin
    <3>1. Measured(x3) /\ Untouched(x3) /\ x1 = "begin"
      BY <2>1, <2>10 DEF Episode!Begin, WorkerAt
    <3>2. \/ Episode!RollBack("time") \/ Episode!RollBack("input")
          \/ Episode!RollBack("unqualified") /\ ~Episode!Qualified(x3.guardBefore)
          \/ Episode!Qualified(x3.guardBefore) /\ x1' = "step" /\ x2' = x2 /\ x3' = x3 /\ x4' = x4
      BY <2>10 DEF Episode!Begin
    <3>3. CASE x1' = "step" /\ Episode!Qualified(x3.guardBefore) /\ x2' = x2 /\ x3' = x3 /\ x4' = x4
      <4>1. WorkerAt(x3)'
        BY <2>1, <3>1, <3>3 DEF WorkerAt, Untouched
      <4> QED BY <2>1, <2>3, <2>4, <3>3, <4>1
    <3> QED BY <2>2, <2>5, <3>1, <3>2, <3>3
  <2>11. CASE Episode!OptimizeStep
    <3>1. PICK p \in {"p", "c"} :
            /\ x3' = [x3 EXCEPT !.steps = @ + 1, !.before = 2, !.attempted = p]
            /\ x1 = "step" /\ x3.steps < Budget /\ x1' \in {"step", "nonfinite"} /\ x2' = x2 /\ x4' = x4
      BY <2>11 DEF Episode!OptimizeStep
    <3>2. x3.steps \in 0 .. Budget /\ Budget \in Nat
      BY <2>1, EpisodeAssumption DEF Reports
    <3>3. x3.steps + 1 \in 0 .. Budget /\ x3.steps + 1 > 0
      BY <3>1, <3>2
    <3>4. x3' \in Reports /\ x3'.steps = x3.steps + 1 /\ x3'.before = 2 /\ x3'.attempted = p
          /\ x3'.after = x3.after /\ x3'.guardAfter = x3.guardAfter /\ x3'.measured = x3.measured
          /\ x3'.parent = x3.parent /\ x3'.guardBefore = x3.guardBefore
      BY <2>1, <3>1, <3>3 DEF Reports
    <3>5. Measured(x3) /\ Episode!Qualified(x3.guardBefore) /\ x3.after = 0 /\ x3.guardAfter = Blank
      BY <2>1, <3>1 DEF WorkerAt
    <3>6. Measured(x3)' /\ Stepped(x3)' /\ Episode!Qualified(x3.guardBefore)'
      BY <3>1, <3>3, <3>4, <3>5 DEF Measured, Stepped, Episode!Qualified
    <3>7. WorkerAt(x3)'
      BY <3>1, <3>4, <3>5, <3>6 DEF WorkerAt
    <3> QED BY <2>1, <2>3, <2>4, <3>1, <3>7
  <2>12. CASE Episode!StepFails
    <3>1. Episode!RollBack("time") \/ Episode!RollBack("gradient") \/ Episode!RollBack("parameter")
      BY <2>12 DEF Episode!StepFails
    <3>2. Measured(x3) /\ (Untouched(x3) \/ Stepped(x3))
      BY <2>1, <2>12 DEF Episode!StepFails, WorkerAt
    <3> QED BY <2>2, <2>5, <3>1, <3>2
  <2>13. CASE Episode!FinalObjective
    <3>1. Measured(x3) /\ Stepped(x3) /\ x3.after = 0 /\ x3.guardAfter = Blank /\ x3.steps = Budget
          /\ Episode!Qualified(x3.guardBefore)
      BY <2>1, <2>13, EpisodeAssumption DEF Episode!FinalObjective, WorkerAt, Untouched
    <3>2. CASE Episode!RollBack("nonfinite_final")
      BY <2>2, <2>5, <3>1, <3>2
    <3>3. CASE \E o \in 1 .. 3 : x3' = [x3 EXCEPT !.after = o] /\ x1' = "judge" /\ x2' = x2 /\ x4' = x4
      <4>1. PICK o \in 1 .. 3 : x3' = [x3 EXCEPT !.after = o] /\ x1' = "judge" /\ x2' = x2 /\ x4' = x4
        BY <3>3
      <4>2. x3' \in Reports /\ x3'.after = o /\ x3'.steps = x3.steps /\ x3'.before = x3.before
            /\ x3'.attempted = x3.attempted /\ x3'.guardAfter = x3.guardAfter /\ x3'.measured = x3.measured
            /\ x3'.parent = x3.parent /\ x3'.guardBefore = x3.guardBefore
        BY <2>1, <4>1 DEF Reports
      <4>3. Measured(x3)' /\ Stepped(x3)' /\ x3'.after # 0
        BY <3>1, <4>1, <4>2 DEF Measured, Stepped, Episode!Qualified
      <4>4. WorkerAt(x3)'
        BY <3>1, <4>1, <4>2, <4>3 DEF WorkerAt
      <4> QED BY <2>1, <2>3, <2>4, <4>1, <4>4
    <3> QED BY <2>13, <3>2, <3>3 DEF Episode!FinalObjective
  <2>14. CASE Episode!JudgeObjective
    <3>1. Measured(x3) /\ Stepped(x3) /\ x3.after # 0 /\ x3.steps = Budget /\ x1 = "judge"
      BY <2>1, <2>14 DEF Episode!JudgeObjective, WorkerAt
    <3>2. \/ Episode!RollBack("time") \/ Episode!RollBack("input")
          \/ Episode!RollBack("not_improved") /\ x3.after >= x3.before
          \/ /\ ~ x3.after >= x3.before
             /\ \E m \in Episode!Matrices :
                  x3' = [x3 EXCEPT !.guardAfter = m] /\ x1' = "guard" /\ x2' = x2 /\ x4' = x4
      BY <2>14 DEF Episode!JudgeObjective
    <3>3. CASE /\ ~ x3.after >= x3.before
               /\ \E m \in Episode!Matrices :
                    x3' = [x3 EXCEPT !.guardAfter = m] /\ x1' = "guard" /\ x2' = x2 /\ x4' = x4
      <4>1. PICK m \in Episode!Matrices :
              x3' = [x3 EXCEPT !.guardAfter = m] /\ x1' = "guard" /\ x2' = x2 /\ x4' = x4
        BY <3>3
      <4>2. x3' \in Reports /\ x3'.guardAfter = m /\ x3'.steps = x3.steps /\ x3'.before = x3.before
            /\ x3'.attempted = x3.attempted /\ x3'.after = x3.after /\ x3'.measured = x3.measured
            /\ x3'.parent = x3.parent /\ x3'.guardBefore = x3.guardBefore
        BY <2>1, <4>1 DEF Reports, Matrix
      <4>3. Measured(x3)' /\ Stepped(x3)'
        BY <3>1, <4>1, <4>2 DEF Measured, Stepped, Episode!Qualified
      <4>4. x3.after < 2
        BY <2>1, <3>1, <3>3 DEF Stepped, Reports
      <4>5. WorkerAt(x3)'
        BY <3>1, <4>1, <4>2, <4>3, <4>4 DEF WorkerAt
      <4> QED BY <2>1, <2>3, <2>4, <4>1, <4>5
    <3> QED BY <2>2, <2>5, <3>1, <3>2, <3>3
  <2>15. CASE Episode!JudgeGuard
    <3>1. Measured(x3) /\ Stepped(x3) /\ x3.after # 0 /\ x3.steps = Budget /\ x1 = "guard"
          /\ x3.after < 2 /\ x3.guardAfter \in Episode!Matrices
      BY <2>1, <2>15 DEF Episode!JudgeGuard, WorkerAt
    <3>2. \/ Episode!RollBack("time") \/ Episode!RollBack("regression") \/ Episode!RollBack("no_update")
          \/ /\ Episode!NoWorse(x3.guardAfter, x3.guardBefore) /\ x3.attempted # "p"
             /\ x1' = "close" /\ x2' = x2 /\ x4' = x4
             /\ x3' = [x3 EXCEPT !.status = "ACCEPTED_EPISODIC", !.reason = "none", !.guard = x3.guardAfter]
      BY <2>15 DEF Episode!JudgeGuard
    <3>3. CASE /\ Episode!NoWorse(x3.guardAfter, x3.guardBefore) /\ x3.attempted # "p"
               /\ x1' = "close" /\ x2' = x2 /\ x4' = x4
               /\ x3' = [x3 EXCEPT !.status = "ACCEPTED_EPISODIC", !.reason = "none", !.guard = x3.guardAfter]
      <4>1. x3' \in Reports /\ x3'.guardAfter = x3.guardAfter /\ x3'.steps = x3.steps /\ x3'.before = x3.before
            /\ x3'.attempted = x3.attempted /\ x3'.after = x3.after /\ x3'.measured = x3.measured
            /\ x3'.parent = x3.parent /\ x3'.guardBefore = x3.guardBefore /\ x3'.guard = x3.guardAfter
            /\ x3'.status = "ACCEPTED_EPISODIC" /\ x3'.reason = "none"
        BY <2>1, <3>1, <3>3 DEF Reports, Matrix
      <4>2. Measured(x3)' /\ Stepped(x3)'
        BY <3>1, <4>1 DEF Measured, Stepped, Episode!Qualified
      <4>3. x3.attempted = "c"
        BY <2>1, <3>1, <3>3 DEF Stepped, Reports
      <4>4. Episode!NoWorse(x3.guardAfter, x3.guardBefore)'
        BY <3>3, <4>1 DEF Episode!NoWorse, Episode!Qualified
      <4>5. WorkerAt(x3)'
        BY <3>1, <3>3, <4>1, <4>2, <4>3, <4>4 DEF WorkerAt
      <4> QED BY <2>1, <2>3, <2>4, <3>3, <4>5
    <3> QED BY <2>2, <2>5, <3>1, <3>2, <3>3
  <2>16. CASE Episode!CloseEpisode
    <3>1. Measured(x3) /\ Stepped(x3) /\ x3.after # 0 /\ x3.steps = Budget /\ x1 = "close"
          /\ x3.after < 2 /\ x3.guardAfter \in Episode!Matrices
          /\ x3.status = "ACCEPTED_EPISODIC" /\ x3.reason = "none" /\ x3.attempted = "c"
          /\ x3.guard = x3.guardAfter /\ Episode!NoWorse(x3.guardAfter, x3.guardBefore)
      BY <2>1, <2>16 DEF Episode!CloseEpisode, WorkerAt
    <3>2. CASE Episode!RollBack("input")
      BY <2>2, <2>5, <3>1, <3>2
    <3>3. CASE x3' = [x3 EXCEPT !.effective = x3.attempted, !.late = x2] /\ x1' = "done" /\ x2' = x2 /\ x4' = x4
      <4>1. x3' \in Reports /\ x3'.guardAfter = x3.guardAfter /\ x3'.steps = x3.steps /\ x3'.before = x3.before
            /\ x3'.attempted = x3.attempted /\ x3'.after = x3.after /\ x3'.measured = x3.measured
            /\ x3'.parent = x3.parent /\ x3'.guardBefore = x3.guardBefore /\ x3'.guard = x3.guard
            /\ x3'.status = x3.status /\ x3'.reason = x3.reason /\ x3'.effective = x3.attempted /\ x3'.late = x2
        BY <2>1, <3>1, <3>3 DEF Reports
      <4>2. x2 \/ Episode!AcceptedValid(x3)'
        BY <3>1, <4>1 DEF Episode!AcceptedValid, Episode!NoObjective, Episode!NoWorse, Episode!Qualified,
           Measured, Stepped, Episode!Matrices, Episode!NoMatrix
      <4>3. x2 \/ Episode!Valid(x3)'
        BY <2>1, <3>1, <4>1, <4>2, EpisodeAssumption
           DEF Episode!Valid, Measured, Stepped, Reports, Episode!NoObjective, Episode!MatrixValid
      <4>4. Ended(x3)'
        BY <3>1, <4>1, <4>3 DEF Ended, Excused
      <4>5. WorkerAt(x3)'
        BY <3>3, <4>1, <4>4 DEF WorkerAt
      <4> QED BY <2>1, <2>3, <3>3, <4>5, <2>4
    <3> QED BY <2>16, <3>2, <3>3 DEF Episode!CloseEpisode
  <2>17. CASE Episode!Tick
    <3>1. x1' = x1 /\ x2' = TRUE /\ x3' = x3 /\ x4' = x4 /\ x1 \in Points
      BY <2>17 DEF Episode!Tick, EpisodeInv
    <3>2. WorkerAt(x3)'
      BY <2>1, <3>1 DEF WorkerAt
    <3> QED BY <2>3, <3>1, <3>2
  <2> QED BY <1>2, <2>6, <2>7, <2>8, <2>9, <2>10, <2>11, <2>12, <2>13, <2>14, <2>15, <2>16, <2>17 DEF Episode!Next
<1> QED BY <1>1, <1>2

\* What the service keeps is valid, and so no worse.
LEMMA EpisodeHolds ==
  /\ EpisodeInv => Episode!EffectiveIsNoWorse
  /\ EpisodeInv /\ part = "episode" => Episode!MeasuredIsKeptButFor
<1>1. ASSUME EpisodeInv, x4 = "valid"
      PROVE  /\ x3.guard.fp <= x3.guardBefore.fp /\ x3.guard.fn <= x3.guardBefore.fn
             /\ x3.effective # x3.parent => x3.steps = Budget /\ x3.after < x3.before /\ Episode!Qualified(x3.guard)
  <2>1. Episode!Valid(x3)
    BY <1>1 DEF EpisodeInv
  <2>2. x3.guardBefore \in Episode!Matrices
    BY <2>1 DEF Episode!Valid, Episode!MatrixValid
  <2>3. x3.guardBefore.fp \in Int /\ x3.guardBefore.fn \in Int
    BY <2>2 DEF Episode!Matrices
  <2> QED BY <2>1, <2>3 DEF Episode!Valid, Episode!AcceptedValid, Episode!RolledBackValid, Episode!NoWorse
<1>2. ASSUME EpisodeInv, part = "episode", x4 = "refused", x3.measured
      PROVE  \/ x3.status = "ACCEPTED_EPISODIC" /\ x3.late
             \/ ~Episode!Qualified(x3.guardBefore) /\ x3.reason # "unqualified"
  BY <1>2 DEF EpisodeInv, WorkerAt, Ended, Excused
<1> QED BY <1>1, <1>2 DEF Episode!EffectiveIsNoWorse, Episode!MeasuredIsKeptButFor

-----------------------------------------------------------------------------
(* LoginThrottle: the throttles of a login, for any limits, windows and     *)
(* longest waits for the database lock.                                     *)

\* Those of them that passed at a tick.
PassedAt(G, t) == {g \in G : g.time = t}

\* What a key has let pass within the last window; those of now are told apart.
Recent(G, t) ==
  /\ IsFiniteSet(G)
  /\ \A g \in G : g.time \in 0..t /\ g.time + Window > t
  /\ \A g \in PassedAt(G, t) : g.nth \in 0..(Cardinality(PassedAt(G, t)) - 1)

\* How many of them in a span of a window less the wait.
PassedIn(G, t0, w) == Cardinality({g \in G : g.time \in t0..(t0 + (Window - w) - 1)})

\* What is left of them a tick later.
Later(G, t) == {g \in G : g.time + Window > t + 1}

\* All that a key has let pass was counted by the open window (in C) or by the
\* one before (in P), but for what is older than a window less the wait.  A
\* window before was full at most, and what it counted is old when the open one
\* ends.  Without a wait the first hit of a window is over when the window is.
Slides(G, entry, n, t, w) ==
  \E C, P \in SUBSET G :
    /\ Cardinality(C) <= entry.hits
    /\ Cardinality(P) <= IF w = 0 THEN n - 1 ELSE n
    /\ \A g \in G \ (C \cup P) : g.time + Window <= t + w
    /\ entry.hits > 0 => \A g \in P : g.time + Window <= entry.expires + w
    /\ entry.hits > 0 /\ w = 0 =>
         Cardinality({g \in C : g.time + Window > entry.expires}) < entry.hits

\* A window that has ended becomes the one before.
LEMMA PurgeSlides ==
  ASSUME NEW t \in Nat, NEW w \in Nat, NEW n \in Nat \ {0}, NEW c \in Nat, c <= t,
         NEW G, Recent(G, t), NEW entry \in [hits : Nat, expires : Nat],
         entry.hits <= n, entry.expires <= c, Slides(G, entry, n, t, w)
  PROVE  Slides(G, Throttle!NoRow, n, t, w)
<1>1. Throttle!NoRow.hits = 0 /\ Cardinality({}) = 0
  BY FS_EmptySet DEF Throttle!NoRow
<1>2. PICK C, P \in SUBSET G :
        /\ Cardinality(C) <= entry.hits
        /\ Cardinality(P) <= IF w = 0 THEN n - 1 ELSE n
        /\ \A g \in G \ (C \cup P) : g.time + Window <= t + w
        /\ entry.hits > 0 => \A g \in P : g.time + Window <= entry.expires + w
        /\ entry.hits > 0 /\ w = 0 => Cardinality({g \in C : g.time + Window > entry.expires}) < entry.hits
  BY DEF Slides
<1>3. \A g \in G : g.time \in Nat /\ g.time + Window > t
  BY DEF Recent
<1>4. CASE entry.hits = 0
  BY <1>1, <1>2, <1>4 DEF Slides
<1>5. CASE entry.hits > 0
  <2> DEFINE Z == {}
             none == Throttle!NoRow
  <2>1. \A g \in G \ (Z \cup C) : g.time + Window <= t + w
    BY <1>2, <1>3, <1>5, ThrottleAssumption
  <2>2. w = 0 => C = {g \in C : g.time + Window > entry.expires}
    BY <1>3, ThrottleAssumption
  <2>3. IsFiniteSet(C) /\ Cardinality(C) \in Nat
    BY FS_Subset, FS_CardinalityType DEF Recent
  <2>4. Cardinality(C) <= IF w = 0 THEN n - 1 ELSE n
    <3>1. w = 0 => Cardinality(C) < entry.hits
      BY <1>2, <1>5, <2>2, Zenon
    <3> QED BY <1>2, <2>3, <3>1
  <2>5. Z \in SUBSET G /\ Cardinality(Z) <= none.hits /\ ~(none.hits > 0)
    BY <1>1
  <2> HIDE DEF Z, none
  <2>6. Slides(G, none, n, t, w)
    BY <2>1, <2>4, <2>5 DEF Slides
  <2> QED BY <2>6 DEF none
<1> QED BY <1>4, <1>5

\* A hit is counted by the open window, or opens one.
LEMMA CountSlides ==
  ASSUME NEW t \in Nat, NEW w \in Nat, NEW n \in Nat \ {0}, NEW c \in Nat, c <= t, t <= c + w,
         NEW G, Recent(G, t), NEW entry \in [hits : Nat, expires : Nat],
         entry.hits < n, NEW x, x.time = t, Slides(G, entry, n, t, w)
  PROVE  Slides(G \cup {x}, Throttle!Counted(entry, c), n, t, w)
<1>1. PICK C, P \in SUBSET G :
        /\ Cardinality(C) <= entry.hits
        /\ Cardinality(P) <= IF w = 0 THEN n - 1 ELSE n
        /\ \A g \in G \ (C \cup P) : g.time + Window <= t + w
        /\ entry.hits > 0 => \A g \in P : g.time + Window <= entry.expires + w
        /\ entry.hits > 0 /\ w = 0 => Cardinality({g \in C : g.time + Window > entry.expires}) < entry.hits
  BY DEF Slides
<1> DEFINE D == C \cup {x}
           new == Throttle!Counted(entry, c)
<1>2. D \in SUBSET (G \cup {x}) /\ P \in SUBSET (G \cup {x})
      /\ \A g \in (G \cup {x}) \ (D \cup P) : g.time + Window <= t + w
  BY <1>1
<1>3. /\ IsFiniteSet(C) /\ Cardinality(C) \in Nat
      /\ IsFiniteSet(D) /\ Cardinality(D) \in Nat /\ Cardinality(D) <= Cardinality(C) + 1
  <2>1. IsFiniteSet(C)
    BY FS_Subset DEF Recent
  <2>2. IsFiniteSet(D) /\ (Cardinality(D) = Cardinality(C) \/ Cardinality(D) = Cardinality(C) + 1)
    BY <2>1, FS_AddElement
  <2> QED BY <2>1, <2>2, FS_CardinalityType
<1>4. \A g \in G : g.time \in Nat /\ g.time <= t
  BY DEF Recent
<1>5. CASE entry.hits = 0
  <2>1. new.hits = 1 /\ new.expires = c + Window
    BY <1>5 DEF Throttle!Counted
  <2>2. C = {}
    BY <1>1, <1>3, <1>5, FS_EmptySet
  <2>3. \A g \in P : g.time + Window <= new.expires + w
    BY <1>4, <2>1, ThrottleAssumption
  <2>4. w = 0 => {g \in D : g.time + Window > new.expires} = {}
    BY <2>1, <2>2, ThrottleAssumption
  <2>5. w = 0 => Cardinality({g \in D : g.time + Window > new.expires}) < new.hits
    <3> DEFINE F == {g \in D : g.time + Window > new.expires}
    <3>1. w = 0 => F = {}
      BY <2>4
    <3> HIDE DEF F, new
    <3>2. w = 0 => Cardinality(F) = 0
      BY <3>1, FS_EmptySet, Zenon
    <3>3. w = 0 => Cardinality(F) < new.hits
      BY <2>1, <3>2
    <3> QED BY <3>3 DEF F
  <2>6. Cardinality(D) <= new.hits
    BY <1>1, <1>3, <1>5, <2>1
  <2> QED BY <1>1, <1>2, <2>3, <2>5, <2>6 DEF Slides
<1>6. CASE entry.hits > 0
  <2>1. new.hits = entry.hits + 1 /\ new.expires = entry.expires
    BY <1>6 DEF Throttle!Counted
  <2>2. Cardinality(D) <= new.hits
    BY <1>1, <1>3, <2>1
  <2>3. ASSUME w = 0 PROVE Cardinality({g \in D : g.time + Window > new.expires}) < new.hits
    <3> DEFINE E == {g \in C : g.time + Window > entry.expires}
               F == {g \in D : g.time + Window > new.expires}
    <3>1. F \subseteq E \cup {x} /\ E \subseteq C
      BY <2>1
    <3>2. IsFiniteSet(E) /\ Cardinality(E) \in Nat
      BY <1>3, <3>1, FS_Subset, FS_CardinalityType
    <3>3. IsFiniteSet(E \cup {x}) /\ (Cardinality(E \cup {x}) = Cardinality(E) \/ Cardinality(E \cup {x}) = Cardinality(E) + 1)
      BY <3>2, FS_AddElement
    <3>4. Cardinality(F) <= Cardinality(E \cup {x}) /\ IsFiniteSet(F) /\ Cardinality(F) \in Nat
      BY <3>1, <3>3, FS_Subset, FS_CardinalityType
    <3>5. Cardinality(E) < entry.hits
      BY <1>1, <1>6, <2>3
    <3> HIDE DEF E, F, new
    <3>6. Cardinality(F) < new.hits
      BY <2>1, <3>2, <3>3, <3>4, <3>5
    <3> QED BY <3>6 DEF F
  <2> QED BY <1>1, <1>2, <1>6, <2>1, <2>2, <2>3 DEF Slides
<1> QED BY <1>5, <1>6

\* The nth that passes is told from those before.
LEMMA PassIsTold ==
  ASSUME NEW t \in Nat, NEW G, Recent(G, t), NEW x, x.time = t, x.nth = Cardinality(PassedAt(G, t))
  PROVE  x \notin G /\ Recent(G \cup {x}, t)
<1> DEFINE A == PassedAt(G, t)
           H == G \cup {x}
<1>1. IsFiniteSet(A) /\ Cardinality(A) \in Nat
  BY FS_Subset, FS_CardinalityType DEF Recent, PassedAt
<1>2. x \notin A
  BY <1>1 DEF Recent
<1>3. x \notin G
  BY <1>2 DEF PassedAt
<1>4. PassedAt(H, t) = A \cup {x}
  BY DEF PassedAt
<1>5. Cardinality(PassedAt(H, t)) = Cardinality(A) + 1
  BY <1>1, <1>2, <1>4, FS_AddElement
<1>6. IsFiniteSet(H)
  BY FS_AddElement DEF Recent
<1>7. \A g \in H : g.time \in 0..t /\ g.time + Window > t
  BY ThrottleAssumption DEF Recent
<1>8. \A g \in PassedAt(H, t) : g.nth \in 0..(Cardinality(PassedAt(H, t)) - 1)
  <2> DEFINE B == PassedAt(H, t)
  <2>1. (\A g \in A : g.nth \in 0..(Cardinality(A) - 1)) /\ B = A \cup {x}
        /\ Cardinality(B) = Cardinality(A) + 1 /\ x.nth = Cardinality(A)
    BY <1>4, <1>5 DEF Recent
  <2> HIDE DEF A, B
  <2>2. \A g \in B : g.nth \in 0..(Cardinality(B) - 1)
    BY <1>1, <2>1
  <2> QED BY <2>2 DEF B
<1> HIDE DEF H
<1>9. Recent(H, t)
  BY <1>6, <1>7, <1>8 DEF Recent
<1> QED BY <1>3, <1>9 DEF H

\* Time passes.
LEMMA PruneSlides ==
  ASSUME NEW t \in Nat, NEW w \in Nat, NEW n \in Nat \ {0},
         NEW G, Recent(G, t), NEW entry \in [hits : Nat, expires : Nat], Slides(G, entry, n, t, w)
  PROVE  Recent(Later(G, t), t + 1) /\ Slides(Later(G, t), entry, n, t + 1, w)
<1> DEFINE H == {g \in G : g.time + Window > t + 1}
<1>1. PICK C, P \in SUBSET G :
        /\ Cardinality(C) <= entry.hits
        /\ Cardinality(P) <= IF w = 0 THEN n - 1 ELSE n
        /\ \A g \in G \ (C \cup P) : g.time + Window <= t + w
        /\ entry.hits > 0 => \A g \in P : g.time + Window <= entry.expires + w
        /\ entry.hits > 0 /\ w = 0 => Cardinality({g \in C : g.time + Window > entry.expires}) < entry.hits
  BY DEF Slides
<1> DEFINE E == {g \in C : g.time + Window > entry.expires}
           F == {g \in C \cap H : g.time + Window > entry.expires}
<1>2. IsFiniteSet(C) /\ IsFiniteSet(P) /\ IsFiniteSet(E) /\ IsFiniteSet(H)
  BY FS_Subset DEF Recent
<1>3. /\ Cardinality(C \cap H) <= Cardinality(C) /\ Cardinality(P \cap H) <= Cardinality(P)
      /\ Cardinality(F) <= Cardinality(E)
      /\ Cardinality(C \cap H) \in Nat /\ Cardinality(P \cap H) \in Nat /\ Cardinality(F) \in Nat
      /\ Cardinality(C) \in Nat /\ Cardinality(P) \in Nat /\ Cardinality(E) \in Nat
  <2>1. C \cap H \subseteq C /\ P \cap H \subseteq P /\ F \subseteq E
    OBVIOUS
  <2> HIDE DEF H, E, F
  <2> QED BY <1>2, <2>1, FS_Subset, FS_CardinalityType
<1>4. \A g \in G : g.time \in 0..t
  BY DEF Recent
<1>5. Recent(H, t + 1)
  <2>1. PassedAt(H, t + 1) = {}
    BY <1>4 DEF PassedAt
  <2> QED BY <1>2, <1>4, <2>1 DEF Recent
<1>6. \A g \in H \ ((C \cap H) \cup (P \cap H)) : g.time + Window <= t + 1 + w
  BY <1>1, <1>4, ThrottleAssumption
<1>7. C \cap H \in SUBSET H /\ P \cap H \in SUBSET H
  OBVIOUS
<1>8. Cardinality(C \cap H) <= entry.hits /\ Cardinality(P \cap H) <= IF w = 0 THEN n - 1 ELSE n
  BY <1>1, <1>3
<1>9. entry.hits > 0 => \A g \in P \cap H : g.time + Window <= entry.expires + w
  BY <1>1
<1>10. entry.hits > 0 /\ w = 0 => Cardinality({g \in C \cap H : g.time + Window > entry.expires}) < entry.hits
  BY <1>1, <1>3
<1> HIDE DEF H
<1>11. Slides(H, entry, n, t + 1, w)
  BY <1>6, <1>7, <1>8, <1>9, <1>10 DEF Slides
<1> QED BY <1>5, <1>11 DEF H, Later

\* What two windows count bounds a span that reaches to now.
LEMMA SlidesBound ==
  ASSUME NEW t \in Nat, NEW w \in Nat, NEW n \in Nat \ {0},
         NEW G, Recent(G, t), NEW entry \in [hits : Nat, expires : Nat], entry.hits <= n,
         Slides(G, entry, n, t, w)
  PROVE  /\ \A t0 \in Nat : t0 + Window - w > t =>
              PassedIn(G, t0, w) <= 2 * n
         /\ w = 0 => Cardinality(G) <= 2 * n - 1
<1>1. PICK C, P \in SUBSET G :
        /\ Cardinality(C) <= entry.hits
        /\ Cardinality(P) <= IF w = 0 THEN n - 1 ELSE n
        /\ \A g \in G \ (C \cup P) : g.time + Window <= t + w
  BY DEF Slides
<1>2. \A g \in G : g.time \in Nat /\ g.time + Window > t
  BY DEF Recent
<1>3. IsFiniteSet(C) /\ IsFiniteSet(P)
  BY FS_Subset DEF Recent
<1>4. /\ IsFiniteSet(C \cup P) /\ Cardinality(C \cup P) <= Cardinality(C) + Cardinality(P)
      /\ Cardinality(C) \in Nat /\ Cardinality(P) \in Nat /\ Cardinality(C \cup P) \in Nat
  <2>1. IsFiniteSet(C \cup P) /\ Cardinality(C \cup P) = Cardinality(C) + Cardinality(P) - Cardinality(C \cap P)
    BY <1>3, FS_Union
  <2>2. Cardinality(C \cap P) \in Nat
    BY <1>3, FS_Intersection, FS_CardinalityType
  <2> QED BY <1>3, <2>1, <2>2, FS_CardinalityType
<1>5. ASSUME NEW t0 \in Nat, t0 + Window - w > t
      PROVE  PassedIn(G, t0, w) <= 2 * n
  <2> DEFINE S == {g \in G : g.time \in t0..(t0 + (Window - w) - 1)}
  <2>1. S \subseteq C \cup P
    BY <1>1, <1>2, <1>5, ThrottleAssumption
  <2> HIDE DEF S
  <2>2. Cardinality(S) \in Nat /\ Cardinality(S) <= Cardinality(C \cup P)
    BY <1>4, <2>1, FS_Subset, FS_CardinalityType
  <2>3. Cardinality(P) <= n
    BY <1>1, <1>4
  <2>4. Cardinality(S) <= 2 * n
    BY <1>1, <1>4, <2>2, <2>3
  <2> QED BY <2>4 DEF S, PassedIn
<1>6. ASSUME w = 0 PROVE Cardinality(G) <= 2 * n - 1
  <2>1. G = C \cup P
    BY <1>1, <1>2, <1>6, ThrottleAssumption
  <2> QED BY <1>1, <1>4, <1>6, <2>1
<1> QED BY <1>5, <1>6

\* Spans that are over gain nothing.
LEMMA SpansNext ==
  ASSUME NEW t \in Nat, NEW w \in Nat, NEW n \in Nat \ {0},
         NEW G, IsFiniteSet(G), NEW H, Recent(H, t), \A g \in H : g.time < t => g \in G,
         NEW entry \in [hits : Nat, expires : Nat], entry.hits <= n, Slides(H, entry, n, t, w),
         \A t0 \in Nat : PassedIn(G, t0, w) <= 2 * n
  PROVE  \A t0 \in Nat : PassedIn(H, t0, w) <= 2 * n
<1> SUFFICES ASSUME NEW t0 \in Nat
             PROVE  PassedIn(H, t0, w) <= 2 * n
  OBVIOUS
<1>1. CASE t0 + Window - w > t
  BY <1>1, SlidesBound
<1>2. CASE ~(t0 + Window - w > t)
  <2> DEFINE S == {g \in H : g.time \in t0..(t0 + (Window - w) - 1)}
             R == {g \in G : g.time \in t0..(t0 + (Window - w) - 1)}
  <2>1. \A g \in H : g.time \in Nat
    BY DEF Recent
  <2>2. S \subseteq R
    BY <1>2, <2>1, ThrottleAssumption
  <2>3. IsFiniteSet(R) /\ Cardinality(R) <= 2 * n
    BY FS_Subset DEF PassedIn
  <2> HIDE DEF R, S
  <2>4. Cardinality(S) <= 2 * n
    BY <2>2, <2>3, FS_Subset, FS_CardinalityType
  <2> QED BY <2>4 DEF S, PassedIn
<1> QED BY <1>1, <1>2

\* Keys have limits, and a request's throttles have keys.
LEMMA KeysLimit ==
  /\ \A k \in Throttle!Keys : Limit[k[1]] \in Nat \ {0}
  /\ \A a \in Accounts, i \in 1..3 : Throttle!Chain(a)[i] \in Throttle!Keys
<1>1. \A k \in Throttle!Keys : k[1] \in Scopes
  BY DEF Throttle!Keys, Scopes
<1>2. \A k \in Throttle!Keys : Limit[k[1]] \in Nat \ {0}
  BY <1>1, ThrottleAssumption
<1>3. ASSUME NEW a \in Accounts, NEW i \in 1..3 PROVE Throttle!Chain(a)[i] \in Throttle!Keys
  <2>1. i = 1 \/ i = 2 \/ i = 3
    OBVIOUS
  <2>2. /\ Throttle!Chain(a)[1] = <<"login", "peer">>
        /\ Throttle!Chain(a)[2] = <<"login-total", "local">>
        /\ Throttle!Chain(a)[3] = <<"login-account", a>>
    BY DEF Throttle!Chain
  <2> QED BY <2>1, <2>2 DEF Throttle!Keys
<1> QED BY <1>2, <1>3

\* Seconds are rounded up.
LEMMA RetryIsLate ==
  ASSUME NEW e \in Nat, NEW c \in Nat
  PROVE  Throttle!RetryAfter(e, c) \in Nat \ {0} /\ PerSecond * Throttle!RetryAfter(e, c) >= e - c
<1> DEFINE d == e - c + PerSecond - 1
           q == d \div PerSecond
<1>1. PerSecond \in Nat \ {0} /\ d \in Int
  BY ThrottleAssumption
<1>2. q \in Int /\ PerSecond * q <= d /\ d < PerSecond * q + PerSecond
  BY <1>1
<1>3. Throttle!RetryAfter(e, c) = IF q < 1 THEN 1 ELSE q
  BY DEF Throttle!RetryAfter
<1>4. CASE q < 1
  <2>1. PerSecond * q <= 0
    BY <1>1, <1>2, <1>4
  <2>2. e - c <= PerSecond
    BY <1>1, <1>2, <2>1
  <2> QED BY <1>1, <1>3, <1>4, <2>2
<1>5. CASE ~(q < 1)
  <2>1. PerSecond * q >= e - c
    BY <1>1, <1>2
  <2> HIDE DEF q
  <2> QED BY <1>2, <1>3, <1>5, <2>1
<1> QED BY <1>4, <1>5

\* The variables have the shape the code gives them.
Typed ==
  /\ x1 \in 0..MaxTime[x6]
  /\ x2 \in [Throttle!Keys -> [hits : Nat, expires : 0..(x1 + Window)]]
  /\ \A k \in Throttle!Keys : x2[k].hits <= Limit[k[1]]
  /\ x3 \in [Requests -> [account : Accounts \cup {"none"}, at : 0..3, clock : -1..x1]]

\* The throttle's state: a request holds the lock soon after it read the clock,
\* what its key let pass is that of two windows, and no span has too much of it.
ThrottleInv ==
  /\ Typed
  /\ x6 \in Waits
  /\ x4 = [k \in Throttle!Keys |-> x4[k]]
  /\ x5 \in [Throttle!Keys -> [expires : Nat, until : Nat]]
  /\ \A k \in Throttle!Keys : x5[k].until > 0 => x5[k].expires <= x5[k].until
  /\ \A r \in Requests :
       /\ x3[r].at > 0 => x3[r].account \in Accounts
       /\ x3[r].clock >= 0 => x1 <= x3[r].clock + x6
  /\ \A k \in Throttle!Keys :
       /\ Recent(x4[k], x1)
       /\ Slides(x4[k], x2[k], Limit[k[1]], x1, x6)
       /\ \A t0 \in Nat :
            PassedIn(x4[k], t0, x6) <= 2 * Limit[k[1]]

\* At first nothing has passed.
LEMMA ThrottleInit == Throttle!Init => ThrottleInv
<1> SUFFICES ASSUME Throttle!Init PROVE ThrottleInv
  OBVIOUS
<1>1. /\ x1 = 0 /\ x6 \in Waits /\ x6 \in Nat
      /\ x2 = [k \in Throttle!Keys |-> [hits |-> 0, expires |-> 0]]
      /\ x3 = [r \in Requests |-> [account |-> "none", at |-> 0, clock |-> -1]]
      /\ x4 = [k \in Throttle!Keys |-> {}]
      /\ x5 = [k \in Throttle!Keys |-> [expires |-> 0, until |-> 0]]
  BY ThrottleAssumption DEF Throttle!Init, Throttle!NoRow, Throttle!Idle
<1>2. Typed
  BY <1>1, KeysLimit, ThrottleAssumption DEF Typed
<1>3. ASSUME NEW k \in Throttle!Keys
      PROVE  /\ Recent(x4[k], x1)
             /\ Slides(x4[k], x2[k], Limit[k[1]], x1, x6)
             /\ \A t0 \in Nat :
                  PassedIn(x4[k], t0, x6) <= 2 * Limit[k[1]]
  <2>1. x4[k] = {} /\ x2[k].hits = 0 /\ Cardinality({}) = 0 /\ IsFiniteSet({}) /\ Limit[k[1]] \in Nat \ {0}
    BY <1>1, KeysLimit, FS_EmptySet
  <2>2. Recent(x4[k], x1)
    BY <2>1 DEF Recent, PassedAt
  <2>3. Slides(x4[k], x2[k], Limit[k[1]], x1, x6)
    BY <1>1, <2>1 DEF Slides
  <2>4. \A t0 \in Nat : PassedIn(x4[k], t0, x6) = 0
    BY <2>1 DEF PassedIn
  <2> QED BY <2>1, <2>2, <2>3, <2>4
<1> QED BY <1>1, <1>2, <1>3 DEF ThrottleInv

\* What a step has to show of every key.
LEMMA KeysNext ==
  ASSUME ThrottleInv, x6' = x6, x1' \in Nat,
         NEW k \in Throttle!Keys, x2[k]' \in [hits : Nat, expires : Nat], x2[k]'.hits <= Limit[k[1]],
         Recent(x4[k]', x1'), Slides(x4[k]', x2[k]', Limit[k[1]], x1', x6),
         \A g \in x4[k]' : g.time < x1' => g \in x4[k]
  PROVE  /\ Recent(x4[k], x1)'
         /\ Slides(x4[k], x2[k], Limit[k[1]], x1, x6)'
         /\ (\A t0 \in Nat :
                PassedIn(x4[k], t0, x6) <= 2 * Limit[k[1]])'
<1> DEFINE n == Limit[k[1]]
           G == x4[k]
           H == x4'[k]
           entry == x2'[k]
           t == x1'
<1>1. n \in Nat \ {0} /\ x6 \in Nat /\ t \in Nat /\ entry \in [hits : Nat, expires : Nat] /\ entry.hits <= n
  BY KeysLimit, ThrottleAssumption DEF ThrottleInv
<1>2. /\ IsFiniteSet(G)
      /\ \A t0 \in Nat : PassedIn(G, t0, x6) <= 2 * n
  BY DEF ThrottleInv, Recent
<1>3. Recent(H, t) /\ Slides(H, entry, n, t, x6) /\ \A g \in H : g.time < t => g \in G
  OBVIOUS
<1> HIDE DEF n, G, H, entry, t
<1>4. \A t0 \in Nat : PassedIn(H, t0, x6) <= 2 * n
  BY <1>1, <1>2, <1>3, SpansNext
<1> QED BY <1>3, <1>4 DEF n, H, entry, t

\* Time passes only while requests that wait for the lock may wait.
LEMMA ThrottleTick == ThrottleInv /\ Throttle!Tick => ThrottleInv'
<1> SUFFICES ASSUME ThrottleInv, Throttle!Tick PROVE ThrottleInv'
  OBVIOUS
<1>1. /\ x1 < MaxTime[x6] /\ x1' = x1 + 1 /\ x2' = x2 /\ x3' = x3 /\ x5' = x5 /\ x6' = x6
      /\ \A r \in Requests : x3[r].clock >= 0 => x1 + 1 - x3[r].clock <= x6
      /\ x4' = [k \in Throttle!Keys |-> {g \in x4[k] : g.time + Window > x1 + 1}]
  BY DEF Throttle!Tick
<1>2. /\ x1 \in 0..MaxTime[x6] /\ x6 \in Waits /\ x6 \in Nat /\ MaxTime[x6] \in Nat
      /\ x2 \in [Throttle!Keys -> [hits : Nat, expires : 0..(x1 + Window)]]
      /\ \A k \in Throttle!Keys : x2[k].hits <= Limit[k[1]]
      /\ x3 \in [Requests -> [account : Accounts \cup {"none"}, at : 0..3, clock : -1..x1]]
  BY ThrottleAssumption DEF ThrottleInv, Typed
<1>3. Typed'
  BY <1>1, <1>2, ThrottleAssumption DEF Typed
<1>4. \A r \in Requests : x3'[r].clock >= 0 => x1' <= x3'[r].clock + x6'
  BY <1>1, <1>2
<1>5. ASSUME NEW k \in Throttle!Keys
      PROVE  /\ Recent(x4[k], x1)'
             /\ Slides(x4[k], x2[k], Limit[k[1]], x1, x6)'
             /\ (\A t0 \in Nat :
                    PassedIn(x4[k], t0, x6) <= 2 * Limit[k[1]])'
  <2>1. x2[k] \in [hits : Nat, expires : Nat] /\ Limit[k[1]] \in Nat \ {0} /\ x1 \in Nat
    BY <1>2, KeysLimit, ThrottleAssumption
  <2>2. Recent(x4[k], x1) /\ Slides(x4[k], x2[k], Limit[k[1]], x1, x6)
    BY DEF ThrottleInv
  <2>3. x4'[k] = Later(x4[k], x1)
    BY <1>1 DEF Later
  <2>4. Recent(x4'[k], x1 + 1) /\ Slides(x4'[k], x2[k], Limit[k[1]], x1 + 1, x6)
    BY <1>2, <2>1, <2>2, <2>3, PruneSlides
  <2>5. \A g \in x4'[k] : g \in x4[k]
    BY <2>3 DEF Later
  <2>6. x1' \in Nat /\ x2[k]' = x2[k] /\ x2[k].hits <= Limit[k[1]]
    BY <1>1, <1>2, <2>1
  <2> QED BY <1>1, <2>1, <2>4, <2>5, <2>6, KeysNext
<1>6. x4' = [k \in Throttle!Keys |-> x4'[k]]
  BY <1>1
<1> QED BY <1>1, <1>3, <1>4, <1>5, <1>6 DEF ThrottleInv

\* A request moves and no key counts.
LEMMA ThrottleMoves ==
  ASSUME ThrottleInv, x1' = x1, x2' = x2, x4' = x4, x5' = x5, x6' = x6,
         NEW r \in Requests, NEW call \in [account : Accounts \cup {"none"}, at : 0..3, clock : -1..x1],
         call.at > 0 => call.account \in Accounts, call.clock >= 0 => x1 <= call.clock + x6,
         x3' = [x3 EXCEPT ![r] = call]
  PROVE  ThrottleInv'
<1>1. Typed'
  BY DEF ThrottleInv, Typed
<1>2. \A s \in Requests : x3'[s] = IF s = r THEN call ELSE x3[s]
  BY DEF ThrottleInv, Typed
<1>3. \A s \in Requests : /\ x3'[s].at > 0 => x3'[s].account \in Accounts
                         /\ x3'[s].clock >= 0 => x1' <= x3'[s].clock + x6'
  BY <1>2 DEF ThrottleInv
<1> QED BY <1>1, <1>3 DEF ThrottleInv

\* A login starts, and reads the clock before each throttle.
LEMMA ThrottleStarts ==
  ASSUME ThrottleInv, NEW r \in Requests, NEW a \in Accounts, Throttle!Start(r, a)
  PROVE  ThrottleInv'
<1> DEFINE call == [account |-> a, at |-> 1, clock |-> -1]
<1>1. x3' = [x3 EXCEPT ![r] = call] /\ x1' = x1 /\ x2' = x2 /\ x4' = x4 /\ x5' = x5 /\ x6' = x6
  BY DEF Throttle!Start
<1>2. x1 \in Nat
  BY ThrottleAssumption DEF ThrottleInv, Typed
<1>3. /\ call \in [account : Accounts \cup {"none"}, at : 0..3, clock : -1..x1]
      /\ call.account \in Accounts /\ ~(call.clock >= 0)
  BY <1>2
<1> HIDE DEF call
<1> QED BY <1>1, <1>3, ThrottleMoves

LEMMA ThrottleReads ==
  ASSUME ThrottleInv, NEW r \in Requests, Throttle!ReadClock(r)
  PROVE  ThrottleInv'
<1> DEFINE call == [x3[r] EXCEPT !.clock = x1]
<1>1. x3' = [x3 EXCEPT ![r].clock = x1] /\ x1' = x1 /\ x2' = x2 /\ x4' = x4 /\ x5' = x5 /\ x6' = x6
      /\ x3[r].at > 0
  BY DEF Throttle!ReadClock
<1>2. /\ x1 \in Nat /\ x6 \in Nat
      /\ x3[r] \in [account : Accounts \cup {"none"}, at : 0..3, clock : -1..x1]
      /\ x3[r].account \in Accounts
  BY <1>1, ThrottleAssumption DEF ThrottleInv, Typed
<1>3. /\ call \in [account : Accounts \cup {"none"}, at : 0..3, clock : -1..x1]
      /\ call.account \in Accounts /\ x1 <= call.clock + x6
  BY <1>2
<1>4. x3' = [x3 EXCEPT ![r] = call]
  BY <1>1 DEF ThrottleInv, Typed
<1> HIDE DEF call
<1> QED BY <1>1, <1>3, <1>4, ThrottleMoves

\* The rows that have ended go, whatever their key.
LEMMA PurgedSlides ==
  ASSUME ThrottleInv, NEW c \in 0..x1
  PROVE  /\ Throttle!Purged(c) \in [Throttle!Keys -> [hits : Nat, expires : 0..(x1 + Window)]]
         /\ \A k \in Throttle!Keys :
              /\ Throttle!Purged(c)[k].hits <= Limit[k[1]]
              /\ Slides(x4[k], Throttle!Purged(c)[k], Limit[k[1]], x1, x6)
<1>1. /\ x1 \in Nat /\ x6 \in Nat
      /\ x2 \in [Throttle!Keys -> [hits : Nat, expires : 0..(x1 + Window)]]
      /\ \A k \in Throttle!Keys : x2[k].hits <= Limit[k[1]]
  BY ThrottleAssumption DEF ThrottleInv, Typed
<1>2. \A k \in Throttle!Keys :
        Throttle!Purged(c)[k] = IF x2[k].expires <= c THEN Throttle!NoRow ELSE x2[k]
  BY DEF Throttle!Purged
<1>3. Throttle!NoRow \in [hits : Nat, expires : 0..(x1 + Window)] /\ Throttle!NoRow.hits = 0
  BY <1>1, ThrottleAssumption DEF Throttle!NoRow
<1>4. Throttle!Purged(c) \in [Throttle!Keys -> [hits : Nat, expires : 0..(x1 + Window)]]
  BY <1>1, <1>3 DEF Throttle!Purged
<1>5. ASSUME NEW k \in Throttle!Keys
      PROVE  /\ Throttle!Purged(c)[k].hits <= Limit[k[1]]
             /\ Slides(x4[k], Throttle!Purged(c)[k], Limit[k[1]], x1, x6)
  <2>1. /\ x2[k] \in [hits : Nat, expires : Nat] /\ x2[k].hits <= Limit[k[1]]
        /\ Limit[k[1]] \in Nat \ {0} /\ c \in Nat /\ c <= x1
    BY <1>1, KeysLimit, ThrottleAssumption
  <2>2. Recent(x4[k], x1) /\ Slides(x4[k], x2[k], Limit[k[1]], x1, x6)
    BY DEF ThrottleInv
  <2>3. CASE x2[k].expires <= c
    <3>1. Slides(x4[k], Throttle!NoRow, Limit[k[1]], x1, x6)
      BY <1>1, <2>1, <2>2, <2>3, PurgeSlides
    <3> QED BY <1>2, <1>3, <2>1, <2>3, <3>1
  <2>4. CASE ~(x2[k].expires <= c)
    BY <1>2, <2>1, <2>2, <2>4
  <2> QED BY <2>3, <2>4
<1> QED BY <1>4, <1>5

\* The transaction of a throttle: what it has to leave.
LEMMA ThrottleNext ==
  ASSUME ThrottleInv, x1' = x1, x6' = x6,
         x2' \in [Throttle!Keys -> [hits : Nat, expires : 0..(x1 + Window)]],
         NEW r \in Requests, NEW call \in [account : Accounts \cup {"none"}, at : 0..3, clock : {-1}],
         call.at > 0 => call.account \in Accounts, x3' = [x3 EXCEPT ![r] = call],
         x4' = [k \in Throttle!Keys |-> x4'[k]],
         x5' \in [Throttle!Keys -> [expires : Nat, until : Nat]],
         \A k \in Throttle!Keys : x5'[k].until > 0 => x5'[k].expires <= x5'[k].until,
         \A k \in Throttle!Keys :
           /\ x2'[k].hits <= Limit[k[1]]
           /\ Recent(x4'[k], x1) /\ Slides(x4'[k], x2'[k], Limit[k[1]], x1, x6)
           /\ \A g \in x4'[k] : g.time < x1 => g \in x4[k]
  PROVE  ThrottleInv'
<1>1. /\ x1 \in Nat /\ x6 \in Waits /\ x1 \in 0..MaxTime[x6]
      /\ x3 \in [Requests -> [account : Accounts \cup {"none"}, at : 0..3, clock : -1..x1]]
  BY ThrottleAssumption DEF ThrottleInv, Typed
<1>2. x3' \in [Requests -> [account : Accounts \cup {"none"}, at : 0..3, clock : -1..x1]]
  BY <1>1
<1>3. Typed'
  BY <1>1, <1>2 DEF Typed
<1>4. \A s \in Requests : x3'[s] = IF s = r THEN call ELSE x3[s]
  BY <1>1
<1>5. \A s \in Requests : /\ x3'[s].at > 0 => x3'[s].account \in Accounts
                         /\ x3'[s].clock >= 0 => x1' <= x3'[s].clock + x6'
  BY <1>4 DEF ThrottleInv
<1>6. ASSUME NEW k \in Throttle!Keys
      PROVE  /\ Recent(x4[k], x1)'
             /\ Slides(x4[k], x2[k], Limit[k[1]], x1, x6)'
             /\ (\A t0 \in Nat : PassedIn(x4[k], t0, x6) <= 2 * Limit[k[1]])'
  <2>1. x2'[k] \in [hits : Nat, expires : Nat] /\ x1' \in Nat
    BY <1>1, ThrottleAssumption
  <2> QED BY <2>1, KeysNext
<1> QED BY <1>1, <1>3, <1>5, <1>6 DEF ThrottleInv

\* A full key refuses until its window has ended; another counts the hit.
LEMMA ThrottleDecides ==
  ASSUME ThrottleInv, NEW r \in Requests, Throttle!Throttle(r)
  PROVE  ThrottleInv'
<1> DEFINE k == Throttle!Chain(x3[r].account)[x3[r].at]
           c == x3[r].clock
           purged == Throttle!Purged(c)
           entry == purged[k]
<1>1. /\ x1 \in Nat /\ x6 \in Nat /\ x1' = x1 /\ x6' = x6
      /\ x3 \in [Requests -> [account : Accounts \cup {"none"}, at : 0..3, clock : -1..x1]]
      /\ c \in 0..x1 /\ x1 <= c + x6 /\ x3[r].at \in 1..3 /\ x3[r].account \in Accounts
  BY ThrottleAssumption DEF ThrottleInv, Typed, Throttle!Throttle
<1>2. k \in Throttle!Keys /\ Limit[k[1]] \in Nat \ {0}
  BY <1>1, KeysLimit
<1>3. /\ purged \in [Throttle!Keys -> [hits : Nat, expires : 0..(x1 + Window)]]
      /\ \A j \in Throttle!Keys : /\ purged[j].hits <= Limit[j[1]]
                                 /\ Slides(x4[j], purged[j], Limit[j[1]], x1, x6)
  BY <1>1, PurgedSlides
<1>4. /\ x4 = [j \in Throttle!Keys |-> x4[j]]
      /\ x5 \in [Throttle!Keys -> [expires : Nat, until : Nat]]
      /\ \A j \in Throttle!Keys : x5[j].until > 0 => x5[j].expires <= x5[j].until
      /\ \A j \in Throttle!Keys : Recent(x4[j], x1)
  BY DEF ThrottleInv
<1>5. \/ /\ Throttle!Full(entry, k)
         /\ x2' = purged
         /\ x5' = [x5 EXCEPT ![k] =
              [expires |-> entry.expires, until |-> x1 + PerSecond * Throttle!RetryAfter(entry.expires, c)]]
         /\ x3' = [x3 EXCEPT ![r] = Throttle!Idle]
         /\ x4' = x4
      \/ /\ ~Throttle!Full(entry, k)
         /\ x2' = [purged EXCEPT ![k] = Throttle!Counted(entry, c)]
         /\ x4' = [x4 EXCEPT ![k] = @ \cup {Throttle!Pass(k)}]
         /\ x3' = [x3 EXCEPT ![r] =
              IF x3[r].at = 3 THEN Throttle!Idle ELSE [account |-> x3[r].account, at |-> x3[r].at + 1, clock |-> -1]]
         /\ x5' = x5
  BY DEF Throttle!Throttle
<1>6. /\ entry \in [hits : Nat, expires : Nat] /\ entry.expires <= x1 + Window
      /\ entry.hits <= Limit[k[1]] /\ c \in Nat /\ c <= x1
  BY <1>1, <1>2, <1>3, ThrottleAssumption
<1>7. /\ Throttle!Idle \in [account : Accounts \cup {"none"}, at : 0..3, clock : {-1}]
      /\ Throttle!Idle.at = 0
  BY DEF Throttle!Idle
<1> HIDE DEF k, c, purged, entry
<1>8. CASE x4' = x4 /\ x2' = purged
           /\ x5' = [x5 EXCEPT ![k] =
                [expires |-> entry.expires, until |-> x1 + PerSecond * Throttle!RetryAfter(entry.expires, c)]]
           /\ x3' = [x3 EXCEPT ![r] = Throttle!Idle]
  <2> DEFINE until == x1 + PerSecond * Throttle!RetryAfter(entry.expires, c)
  <2>1. until \in Nat /\ until >= entry.expires
    <3> DEFINE s == PerSecond * Throttle!RetryAfter(entry.expires, c)
    <3>1. s \in Nat /\ s >= entry.expires - c
      <4> DEFINE q == Throttle!RetryAfter(entry.expires, c)
      <4>1. q \in Nat \ {0} /\ PerSecond * q >= entry.expires - c /\ PerSecond \in Nat
        BY <1>6, RetryIsLate, ThrottleAssumption
      <4> HIDE DEF q
      <4> QED BY <4>1 DEF q
    <3> HIDE DEF s
    <3>2. x1 + s \in Nat /\ x1 + s >= entry.expires
      BY <1>1, <1>6, <3>1
    <3> QED BY <3>2 DEF s
  <2> HIDE DEF until
  <2>2. x5' = [x5 EXCEPT ![k] = [expires |-> entry.expires, until |-> until]]
    BY <1>8 DEF until
  <2>3. /\ x5' \in [Throttle!Keys -> [expires : Nat, until : Nat]]
        /\ \A j \in Throttle!Keys : x5'[j].until > 0 => x5'[j].expires <= x5'[j].until
    BY <1>2, <1>4, <1>6, <2>1, <2>2
  <2>4. /\ x2' \in [Throttle!Keys -> [hits : Nat, expires : 0..(x1 + Window)]]
        /\ x4' = [j \in Throttle!Keys |-> x4'[j]]
    BY <1>3, <1>4, <1>8
  <2>5. \A j \in Throttle!Keys :
          /\ x2'[j].hits <= Limit[j[1]]
          /\ Recent(x4'[j], x1) /\ Slides(x4'[j], x2'[j], Limit[j[1]], x1, x6)
          /\ \A g \in x4'[j] : g.time < x1 => g \in x4[j]
    BY <1>3, <1>4, <1>8
  <2> DEFINE call == Throttle!Idle
  <2>6. /\ call \in [account : Accounts \cup {"none"}, at : 0..3, clock : {-1}]
        /\ call.at > 0 => call.account \in Accounts
        /\ x3' = [x3 EXCEPT ![r] = call]
    BY <1>7, <1>8
  <2> HIDE DEF call
  <2> QED BY <1>1, <2>3, <2>4, <2>5, <2>6, ThrottleNext
<1>9. CASE /\ ~Throttle!Full(entry, k)
           /\ x2' = [purged EXCEPT ![k] = Throttle!Counted(entry, c)]
           /\ x4' = [x4 EXCEPT ![k] = @ \cup {Throttle!Pass(k)}]
           /\ x3' = [x3 EXCEPT ![r] =
                IF x3[r].at = 3 THEN Throttle!Idle ELSE [account |-> x3[r].account, at |-> x3[r].at + 1, clock |-> -1]]
           /\ x5' = x5
  <2> DEFINE call == IF x3[r].at = 3 THEN Throttle!Idle ELSE [account |-> x3[r].account, at |-> x3[r].at + 1, clock |-> -1]
             new == Throttle!Counted(entry, c)
             G == x4[k] \cup {Throttle!Pass(k)}
  <2>1. /\ call \in [account : Accounts \cup {"none"}, at : 0..3, clock : {-1}]
        /\ call.at > 0 => call.account \in Accounts
        /\ x3' = [x3 EXCEPT ![r] = call]
    <3>1. CASE x3[r].at = 3
      BY <1>1, <1>7, <1>9, <3>1
    <3>2. CASE x3[r].at \in 1..2
      <4>1. call = [account |-> x3[r].account, at |-> x3[r].at + 1, clock |-> -1]
        BY <3>2
      <4>2. call \in [account : Accounts \cup {"none"}, at : 0..3, clock : {-1}] /\ call.account \in Accounts
        BY <1>1, <3>2, <4>1
      <4> QED BY <1>1, <1>9, <4>1, <4>2, <3>2
    <3> QED BY <1>1, <3>1, <3>2
  <2>2. entry.hits < Limit[k[1]]
    BY <1>2, <1>6, <1>9 DEF Throttle!Full
  <2>3. new \in [hits : Nat, expires : 0..(x1 + Window)] /\ new.hits <= Limit[k[1]]
    BY <1>1, <1>2, <1>6, <2>2, ThrottleAssumption DEF Throttle!Counted
  <2>4. Throttle!Pass(k).time = x1
    BY DEF Throttle!Pass
  <2>5. Slides(G, new, Limit[k[1]], x1, x6)
    BY <1>1, <1>2, <1>3, <1>4, <1>6, <2>2, <2>4, CountSlides DEF entry
  <2>6. Recent(G, x1) /\ \A g \in G : g.time < x1 => g \in x4[k]
    <3>1. Throttle!Pass(k).nth = Cardinality(PassedAt(x4[k], x1))
      BY DEF Throttle!Pass, PassedAt, Throttle!Cardinality, Cardinality
    <3>2. Recent(G, x1)
      BY <1>1, <1>2, <1>4, <2>4, <3>1, PassIsTold
    <3> QED BY <1>1, <2>4, <3>2
  <2> HIDE DEF call, new, G
  <2>7. /\ x2' = [purged EXCEPT ![k] = new]
        /\ x4' = [x4 EXCEPT ![k] = G]
    BY <1>9 DEF new, G
  <2>8. /\ x2' \in [Throttle!Keys -> [hits : Nat, expires : 0..(x1 + Window)]]
        /\ x4' = [j \in Throttle!Keys |-> x4'[j]]
        /\ \A j \in Throttle!Keys : /\ x2'[j] = IF j = k THEN new ELSE purged[j]
                                   /\ x4'[j] = IF j = k THEN G ELSE x4[j]
    BY <1>2, <1>3, <1>4, <2>3, <2>7
  <2>9. \A j \in Throttle!Keys :
          /\ x2'[j].hits <= Limit[j[1]]
          /\ Recent(x4'[j], x1) /\ Slides(x4'[j], x2'[j], Limit[j[1]], x1, x6)
          /\ \A g \in x4'[j] : g.time < x1 => g \in x4[j]
    BY <1>3, <1>4, <2>3, <2>5, <2>6, <2>8
  <2> QED BY <1>1, <1>4, <1>9, <2>1, <2>8, <2>9, ThrottleNext
<1> QED BY <1>5, <1>8, <1>9

\* The inductive step of the throttle.
LEMMA ThrottleSteps == ThrottleInv /\ Throttle!Next => ThrottleInv'
<1> SUFFICES ASSUME ThrottleInv, Throttle!Next PROVE ThrottleInv'
  OBVIOUS
<1>1. CASE Throttle!Tick
  BY <1>1, ThrottleTick
<1>2. ASSUME NEW r \in Requests, Throttle!ReadClock(r) PROVE ThrottleInv'
  BY <1>2, ThrottleReads
<1>3. ASSUME NEW r \in Requests, Throttle!Throttle(r) PROVE ThrottleInv'
  BY <1>3, ThrottleDecides
<1>4. ASSUME NEW r \in Requests, NEW a \in Accounts, Throttle!Start(r, a) PROVE ThrottleInv'
  BY <1>4, ThrottleStarts
<1> QED BY <1>1, <1>2, <1>3, <1>4 DEF Throttle!Next

\* A window's worth is exact without a wait: what is kept is one window's.
LEMMA ThrottleKeeps ==
  ThrottleInv =>
    /\ Throttle!TypeOK
    /\ Throttle!SlidingBound
    /\ Throttle!SlidingBoundExact
    /\ Throttle!RetryAfterHolds
<1> SUFFICES ASSUME ThrottleInv
             PROVE  /\ Throttle!TypeOK /\ Throttle!SlidingBound
                    /\ Throttle!SlidingBoundExact /\ Throttle!RetryAfterHolds
  OBVIOUS
<1>1. /\ x1 \in Nat /\ x6 \in Nat
      /\ x2 \in [Throttle!Keys -> [hits : Nat, expires : 0..(x1 + Window)]]
      /\ \A k \in Throttle!Keys : x2[k].hits <= Limit[k[1]]
  BY ThrottleAssumption DEF ThrottleInv, Typed
<1>2. ASSUME NEW k \in Throttle!Keys, NEW t \in 0..x1
      PROVE  Throttle!Within(k, t, Window - x6) <= 2 * Limit[k[1]]
  <2>1. PassedIn(x4[k], t, x6) <= 2 * Limit[k[1]]
    BY <1>2 DEF ThrottleInv
  <2> QED BY <2>1 DEF PassedIn, Throttle!Within, Throttle!Cardinality, Cardinality
<1>3. ASSUME x6 = 0, NEW k \in Throttle!Keys, NEW t \in 0..x1
      PROVE  Throttle!Within(k, t, Window) <= 2 * Limit[k[1]] - 1
  <2>1. /\ x2[k] \in [hits : Nat, expires : Nat] /\ x2[k].hits <= Limit[k[1]]
        /\ Limit[k[1]] \in Nat \ {0}
    BY <1>1, KeysLimit, ThrottleAssumption
  <2>2. Recent(x4[k], x1) /\ Slides(x4[k], x2[k], Limit[k[1]], x1, x6)
    BY DEF ThrottleInv
  <2>3. Cardinality(x4[k]) <= 2 * Limit[k[1]] - 1
    BY <1>1, <1>3, <2>1, <2>2, SlidesBound
  <2> DEFINE S == {g \in x4[k] : g.time \in t..(t + Window - 1)}
  <2>4. S \subseteq x4[k] /\ IsFiniteSet(x4[k])
    BY <2>2 DEF Recent
  <2>5. Throttle!Within(k, t, Window) = Cardinality(S)
    BY DEF Throttle!Within, Throttle!Cardinality, Cardinality
  <2> HIDE DEF S
  <2>6. Cardinality(S) <= Cardinality(x4[k]) /\ Cardinality(S) \in Nat /\ Cardinality(x4[k]) \in Nat
    BY <2>4, FS_Subset, FS_CardinalityType
  <2> QED BY <2>1, <2>3, <2>5, <2>6
<1>4. Throttle!RetryAfterHolds
  BY <1>1 DEF ThrottleInv, Throttle!RetryAfterHolds
<1>5. \A k \in Throttle!Keys : Throttle!Pass(k) \notin x4[k]
  <2> SUFFICES ASSUME NEW k \in Throttle!Keys PROVE Throttle!Pass(k) \notin x4[k]
    OBVIOUS
  <2>1. Throttle!Pass(k).time = x1 /\ Throttle!Pass(k).nth = Cardinality(PassedAt(x4[k], x1))
    BY DEF Throttle!Pass, PassedAt, Throttle!Cardinality, Cardinality
  <2>2. Recent(x4[k], x1)
    BY DEF ThrottleInv
  <2> QED BY <1>1, <2>1, <2>2, PassIsTold
<1>6. Throttle!TypeOK
  BY <1>5 DEF ThrottleInv, Typed, Throttle!TypeOK
<1> QED BY <1>2, <1>3, <1>4, <1>6 DEF Throttle!SlidingBound, Throttle!SlidingBoundExact

-----------------------------------------------------------------------------
(* GatePolicy: the decision of a run, for any scenarios, findings and traces *)

\* The traces there are.
Given == {x3[i] : i \in DOMAIN x3}

\* The inputs of a run are finite lists.
GateInputs ==
  /\ x1 \in Rulebook
  /\ \E n \in Nat : x2 \in [1 .. n -> Gate!Findings]
  /\ \E n \in Nat : x3 \in [1 .. n -> Gate!Traces]

\* In a strict total order of a finite set every member has its rank: how many
\* are below it.
LEMMA OrderRanks ==
  ASSUME NEW I, IsFiniteSet(I), NEW B,
         \A i, j \in I : i # j => <<i, j>> \in B \/ <<j, i>> \in B,
         \A i \in I : <<i, i>> \notin B,
         \A h, i, j \in I : <<h, i>> \in B /\ <<i, j>> \in B => <<h, j>> \in B
  PROVE  /\ Cardinality(I) \in Nat
         /\ \A i \in I : Cardinality({j \in I : <<j, i>> \in B}) \in 0 .. (Cardinality(I) - 1)
         /\ \A h, i \in I : <<h, i>> \in B =>
              Cardinality({j \in I : <<j, h>> \in B}) < Cardinality({j \in I : <<j, i>> \in B})
         /\ \A k \in 1 .. Cardinality(I) : \E i \in I : Cardinality({j \in I : <<j, i>> \in B}) = k - 1
<1> DEFINE Below(i) == {j \in I : <<j, i>> \in B}
           N == Cardinality(I)
           V == 0 .. (N - 1)
<1>1. N \in Nat
  BY FS_CardinalityType
<1>2. ASSUME NEW i \in I PROVE IsFiniteSet(Below(i)) /\ Cardinality(Below(i)) \in V
  <2> DEFINE A == Below(i)
  <2>1. A \in SUBSET I /\ A # I
    OBVIOUS
  <2> HIDE DEF A
  <2>2. IsFiniteSet(A) /\ Cardinality(A) <= Cardinality(I) /\ (Cardinality(I) = Cardinality(A) => I = A)
    BY <2>1, FS_Subset
  <2>3. Cardinality(A) \in Nat
    BY <2>2, FS_CardinalityType
  <2>4. IsFiniteSet(A) /\ Cardinality(A) \in V
    BY <1>1, <2>1, <2>2, <2>3
  <2> QED BY <2>4 DEF A
<1>3. ASSUME NEW h \in I, NEW i \in I, <<h, i>> \in B PROVE Cardinality(Below(h)) < Cardinality(Below(i))
  <2> DEFINE A == Below(h)
             C == Below(i)
  <2>1. A \in SUBSET C /\ A # C
    BY <1>3
  <2>2. IsFiniteSet(A) /\ IsFiniteSet(C)
    BY <1>2
  <2> HIDE DEF A, C
  <2>3. Cardinality(A) <= Cardinality(C) /\ Cardinality(A) # Cardinality(C)
    BY <2>1, <2>2, FS_Subset
  <2>4. Cardinality(A) \in Nat /\ Cardinality(C) \in Nat
    BY <2>2, FS_CardinalityType
  <2>5. Cardinality(A) < Cardinality(C)
    BY <2>3, <2>4
  <2> QED BY <2>5 DEF A, C
<1>4. ASSUME NEW k \in 1 .. N, \A i \in I : Cardinality(Below(i)) # k - 1 PROVE FALSE
  <2> DEFINE W == V \ {k - 1}
             f == [i \in I |-> Cardinality(Below(i))]
  <2>1. f \in [I -> W]
    <3>1. \A i \in I : Cardinality(Below(i)) \in W
      BY <1>2, <1>4
    <3> HIDE DEF W, Below
    <3> QED BY <3>1
  <2>2. IsFiniteSet(W) /\ Cardinality(W) = N - 1
    <3>1. IsFiniteSet(V) /\ Cardinality(V) = N
      <4> HIDE DEF N
      <4>1. N - 1 \in Int
        BY <1>1
      <4>2. IsFiniteSet(V) /\ Cardinality(V) = IF 0 > N - 1 THEN 0 ELSE (N - 1) - 0 + 1
        BY <4>1, FS_Interval
      <4> QED BY <1>1, <4>2
    <3>2. k - 1 \in V
      BY <1>1
    <3> HIDE DEF V
    <3> QED BY <3>1, <3>2, FS_RemoveElement
  <2>3. PICK i \in I, h \in I : i # h /\ f[i] = f[h]
    <3> HIDE DEF W, f, N
    <3>1. N - 1 < N
      BY <1>1
    <3> QED BY <2>1, <2>2, <3>1, FS_PigeonHole DEF N
  <2>4. Cardinality(Below(i)) = Cardinality(Below(h)) /\ (<<i, h>> \in B \/ <<h, i>> \in B)
    BY <2>3
  <2>5. Cardinality(Below(i)) \in V /\ Cardinality(Below(h)) \in V
    BY <1>2
  <2> HIDE DEF Below
  <2> QED BY <1>1, <1>3, <2>4, <2>5
<1> QED BY <1>1, <1>2, <1>3, <1>4

\* Every place of a set has its rank.
LEMMA RanksAre ==
  ASSUME NEW n \in Nat, NEW I \in SUBSET (1 .. n), NEW k \in 1 .. Cardinality(I)
  PROVE  \E i \in I : Cardinality({j \in I : j < i}) = k - 1
<1> DEFINE B == {p \in I \X I : p[1] < p[2]}
<1>1. IsFiniteSet(I)
  <2>1. IsFiniteSet(1 .. n)
    BY FS_Interval
  <2> QED BY <2>1, FS_Subset
<1>2. \A i, j \in I : <<i, j>> \in B <=> i < j
  OBVIOUS
<1>3. /\ \A i, j \in I : i # j => <<i, j>> \in B \/ <<j, i>> \in B
      /\ \A i \in I : <<i, i>> \notin B
      /\ \A h, i, j \in I : <<h, i>> \in B /\ <<i, j>> \in B => <<h, j>> \in B
  <2>1. I \subseteq Nat
    OBVIOUS
  <2> HIDE DEF B
  <2> QED BY <1>2, <2>1
<1>4. \A m \in 1 .. Cardinality(I) : \E i \in I : Cardinality({j \in I : <<j, i>> \in B}) = m - 1
  <2> HIDE DEF B
  <2> QED BY <1>1, <1>3, OrderRanks
<1>5. PICK i \in I : Cardinality({j \in I : <<j, i>> \in B}) = k - 1
  BY <1>4
<1>6. {j \in I : <<j, i>> \in B} = {j \in I : j < i}
  BY <1>2
<1> QED BY <1>5, <1>6

\* What is kept was given.
LEMMA KeptAre ==
  ASSUME NEW n \in Nat, x3 \in [1 .. n -> Gate!Traces], NEW I \in SUBSET DOMAIN x3
  PROVE  Gate!Kept(I) \in Seq(Given)
<1>1. I \in SUBSET (1 .. n) /\ Cardinality(I) \in Nat
  <2>1. I \in SUBSET (1 .. n) /\ IsFiniteSet(1 .. n)
    BY FS_Interval
  <2> QED BY <2>1, FS_Subset, FS_CardinalityType
<1>2. ASSUME NEW k \in 1 .. Cardinality(I)
      PROVE  x3[CHOOSE i \in I : Cardinality({j \in I : j < i}) = k - 1] \in Given
  <2>1. \E i \in I : Cardinality({j \in I : j < i}) = k - 1
    BY <1>1, RanksAre
  <2>2. (CHOOSE i \in I : Cardinality({j \in I : j < i}) = k - 1) \in I
    BY <2>1
  <2> QED BY <2>2 DEF Given
<1>3. Gate!Kept(I) = [k \in 1 .. Cardinality(I) |-> x3[CHOOSE i \in I : Cardinality({j \in I : j < i}) = k - 1]]
  BY DEF Gate!Kept, Gate!Cardinality, Cardinality
<1>4. Gate!Kept(I) \in [1 .. Cardinality(I) -> Given]
  BY <1>2, <1>3
<1> QED BY <1>1, <1>4

\* Perturbed traces are made of given ones, and without findings there are none.
LEMMA PerturbationsAre ==
  ASSUME GateInputs, NEW F, NEW budget
  PROVE  /\ Gate!Perturbations(F, budget) \subseteq Seq(Given)
         /\ F = {} => Gate!Perturbations(F, budget) = {}
<1>1. PICK n \in Nat : x3 \in [1 .. n -> Gate!Traces]
  BY DEF GateInputs
<1>2. ASSUME NEW f, NEW tool, NEW v \in 1 .. 3 PROVE Gate!Variant(f, tool, v) \in Seq(Given)
  <2>1. Gate!Removed(f, tool) \in Seq(Given)
    BY <1>1, KeptAre DEF Gate!Removed
  <2>2. Gate!Deduped(f, tool) \in Seq(Given)
    BY <1>1, KeptAre DEF Gate!Deduped
  <2>3. Gate!Reordered(tool) \in Seq(Given)
    <3> DEFINE A == {i \in DOMAIN x3 : x3[i].tool = tool}
               B == {i \in DOMAIN x3 : x3[i].tool # tool}
    <3>1. Gate!Kept(A) \in Seq(Given)
      BY <1>1, KeptAre
    <3>2. Gate!Kept(B) \in Seq(Given)
      BY <1>1, KeptAre
    <3>3. Gate!Reordered(tool) = Gate!Kept(A) \o Gate!Kept(B)
      BY DEF Gate!Reordered
    <3> HIDE DEF A, B
    <3> QED BY <3>1, <3>2, <3>3
  <2> QED BY <2>1, <2>2, <2>3 DEF Gate!Variant
<1> QED BY <1>2 DEF Gate!Perturbations

\* A core check that fails, by its name.
LEMMA CoreFailsAre ==
  ASSUME NEW F, NEW ts, NEW c
  PROVE  c \in Gate!CoreFails(F, ts) <=>
           \/ c = "RC-TOOL-COUNT" /\ ~x4
           \/ c = "RC-SCENARIO-TOOLS" /\ ~(x1.tools \subseteq {ts[i].tool : i \in DOMAIN ts})
           \/ c = "RC-TRACE-OK" /\ \E i \in DOMAIN ts : ~ts[i].ok
           \/ c = "RC-EVIDENCE-QUALITY" /\ \E f \in F : x2[f].evidence # "VERIFIED"
           \/ c = "RC-GOVERNANCE-SCOPE" /\ Gate!ScopeFails
BY DEF Gate!CoreFails, Gate!CoreChecks

\* No perturbation makes a failed core check pass, but for a failed trace.
LEMMA ToolsNeverRelax ==
  ASSUME GateInputs, \A i \in DOMAIN x3 : x3[i].ok
  PROVE  Gate!ToolRelaxes = {}
<1> DEFINE P == Gate!Perturbations(Gate!Probes(x1.toolBudget), Gate!Cardinality(Gate!Probes(x1.toolBudget)))
<1>1. P \subseteq Seq(Given)
  BY PerturbationsAre
<1>2. Gate!ToolRelaxes = {w \in P \X Gate!CoreFails(DOMAIN x2, x3) : w[2] \notin Gate!CoreFails(DOMAIN x2, w[1])}
  BY DEF Gate!ToolRelaxes
<1>3. ASSUME NEW ts \in Seq(Given), NEW c \in Gate!CoreFails(DOMAIN x2, x3)
      PROVE  c \in Gate!CoreFails(DOMAIN x2, ts)
  <2>1. \A i \in DOMAIN ts : ts[i] \in Given
    OBVIOUS
  <2>2. {ts[i].tool : i \in DOMAIN ts} \subseteq {x3[i].tool : i \in DOMAIN x3}
    BY <2>1 DEF Given
  <2>3. \/ c = "RC-TOOL-COUNT" /\ ~x4
        \/ c = "RC-SCENARIO-TOOLS" /\ ~(x1.tools \subseteq {x3[i].tool : i \in DOMAIN x3})
        \/ c = "RC-TRACE-OK" /\ \E i \in DOMAIN x3 : ~x3[i].ok
        \/ c = "RC-EVIDENCE-QUALITY" /\ \E f \in DOMAIN x2 : x2[f].evidence # "VERIFIED"
        \/ c = "RC-GOVERNANCE-SCOPE" /\ Gate!ScopeFails
    BY CoreFailsAre
  <2>4. ~(x1.tools \subseteq {x3[i].tool : i \in DOMAIN x3}) => ~(x1.tools \subseteq {ts[i].tool : i \in DOMAIN ts})
    BY <2>2
  <2> QED BY <2>3, <2>4, CoreFailsAre
<1> HIDE DEF P
<1> QED BY <1>1, <1>2, <1>3

\* Only the one unverified finding makes the evidence good by its removal.
LEMMA FindingsRelaxOnce ==
  ASSUME GateInputs
  PROVE  Gate!Cardinality(Gate!FindingRelaxes) \in 0 .. 1
<1> DEFINE R == Gate!FindingRelaxes
<1>1. ASSUME NEW w \in R
      PROVE  /\ w = <<w[1], "RC-EVIDENCE-QUALITY">> /\ w[1] \in DOMAIN x2
             /\ x2[w[1]].evidence # "VERIFIED"
             /\ \A f \in DOMAIN x2 : f # w[1] => x2[f].evidence = "VERIFIED"
  <2>1. /\ w \in Gate!Probes(x1.findingBudget) \X Gate!CoreFails(DOMAIN x2, x3)
        /\ w[2] \in Gate!CoreFails(DOMAIN x2, x3) /\ w[2] \notin Gate!CoreFails(DOMAIN x2 \ {w[1]}, x3)
    BY DEF Gate!FindingRelaxes
  <2>2. w = <<w[1], w[2]>> /\ w[1] \in DOMAIN x2
    BY <2>1 DEF Gate!Probes
  <2>3. /\ w[2] = "RC-EVIDENCE-QUALITY"
        /\ \E f \in DOMAIN x2 : x2[f].evidence # "VERIFIED"
        /\ ~\E f \in DOMAIN x2 \ {w[1]} : x2[f].evidence # "VERIFIED"
    BY <2>1, CoreFailsAre
  <2> QED BY <2>2, <2>3
<1>2. \A v, w \in R : v = w
  <2> SUFFICES ASSUME NEW v \in R, NEW w \in R PROVE v = w
    OBVIOUS
  <2>1. v[1] = w[1]
    BY <1>1
  <2> QED BY <1>1, <2>1
<1>3. R = {} \/ \E w : R = {w}
  BY <1>2
<1> HIDE DEF R
<1>4. Cardinality(R) = 0 \/ Cardinality(R) = 1
  BY <1>3, FS_EmptySet, FS_Singleton
<1>5. Cardinality(R) \in 0 .. 1
  BY <1>4
<1> QED BY <1>5 DEF R, Gate!Cardinality, Cardinality

\* A counterfactual check that fails, by its name.
LEMMA CounterfactualFailsAre ==
  ASSUME NEW d, NEW c
  PROVE  c \in Gate!CounterfactualFails(d) <=>
           \/ /\ c = "RC-COUNTERFACTUAL-REMOVE-1"
              /\ Gate!Cardinality(Gate!FindingFlips(d)) > x1.findingTolerance
           \/ /\ c = "RC-COUNTERFACTUAL-TOOL-REMOVE-1"
              /\ Gate!Cardinality(Gate!ToolFlips(d)) > x1.toolTolerance
           \/ /\ c = "RC-COUNTERFACTUAL-RULE-STABILITY-1"
              /\ \/ Gate!Cardinality(Gate!FindingRelaxes) > x1.findingTolerance
                 \/ Gate!Cardinality(Gate!ToolRelaxes) > x1.toolTolerance
BY DEF Gate!CounterfactualFails, Gate!Counterfactuals

\* Without findings nothing is probed.
LEMMA NothingToProbe ==
  ASSUME GateInputs, DOMAIN x2 = {}, NEW d
  PROVE  Gate!CounterfactualFails(d) = {}
<1>1. \A n : Gate!Probes(n) = {}
  BY DEF Gate!Probes
<1>2. Gate!FindingFlips(d) = {} /\ Gate!FindingRelaxes = {}
  BY <1>1 DEF Gate!FindingFlips, Gate!FindingRelaxes
<1>3. Gate!ToolFlips(d) = {}
  <2>1. Gate!Perturbations(DOMAIN x2, x1.toolBudget) = {}
    BY PerturbationsAre
  <2> QED BY <2>1 DEF Gate!ToolFlips
<1>4. Gate!ToolRelaxes = {}
  <2>1. Gate!Perturbations(Gate!Probes(x1.toolBudget), Gate!Cardinality(Gate!Probes(x1.toolBudget))) = {}
    BY <1>1, PerturbationsAre
  <2> QED BY <2>1 DEF Gate!ToolRelaxes
<1>5. Gate!Cardinality({}) = 0
  BY FS_EmptySet DEF Gate!Cardinality, Cardinality
<1>6. ~(0 > x1.findingTolerance) /\ ~(0 > x1.toolTolerance)
  <2>1. x1.findingTolerance \in Nat /\ x1.toolTolerance \in Nat
    BY GateAssumption DEF GateInputs
  <2> QED BY <2>1
<1>7. ASSUME NEW c \in Gate!CounterfactualFails(d) PROVE FALSE
  BY <1>2, <1>3, <1>4, <1>5, <1>6, CounterfactualFailsAre
<1> QED BY <1>7

\* Whatever apply_policy starts from, its inputs are lists and it has not
\* decided; what it decides is strict.
GateInv ==
  /\ GateInputs
  /\ x7 = "NONE" => x8 = {}
  /\ Gate!PassIsEarned
  /\ Gate!BrokenEvidenceDefers
  /\ Gate!VetoIsNeverCounterfactual
  /\ "RC-COUNTERFACTUAL-RULE-STABILITY-1" \in x8 /\ (\A i \in DOMAIN x3 : x3[i].ok) => x1.findingTolerance = 0

\* A decision to pass was taken on good evidence, over nothing.
LEMMA PassesAre ==
  ASSUME GateInputs, Gate!Decide(DOMAIN x2, x3) = "PASS"
  PROVE  ~Gate!BlockRelease(DOMAIN x2, x3) /\ DOMAIN x2 = {} /\ x2 = <<>>
<1>1. ~Gate!BlockRelease(DOMAIN x2, x3)
  BY DEF Gate!Decide
<1>2. ~\E f \in DOMAIN x2 : Gate!OrderAction(f) = "RECAPTURE"
  BY <1>1 DEF Gate!Decide
<1>3. DOMAIN x2 = {}
  BY <1>1, <1>2 DEF Gate!Decide
<1>4. PICK n \in Nat : x2 \in [1 .. n -> Gate!Findings]
  BY DEF GateInputs
<1>5. n = 0
  BY <1>3, <1>4
<1> QED BY <1>1, <1>3, <1>4, <1>5

\* A governed scenario whose scope does not fail has both metrics within.
LEMMA ScopesHold ==
  ASSUME x1.governed, ~Gate!ScopeFails
  PROVE  x5 = "WITHIN" /\ x6 = "WITHIN"
<1>1. {x5, x6} \subseteq {"WITHIN", "OVER"}
  BY DEF Gate!ScopeFails
<1>2. "OVER" \notin {x5, x6}
  BY <1>1 DEF Gate!ScopeFails
<1> QED BY <1>1, <1>2

\* The core checks that fail are core checks, and so on for the others.
LEMMA ChecksAreNamed ==
  ASSUME NEW d
  PROVE  /\ Gate!CoreFails(DOMAIN x2, x3) \subseteq Gate!CoreChecks
         /\ Gate!CounterfactualFails(d) \subseteq Gate!Counterfactuals
         /\ Gate!CoreChecks \cap Gate!Counterfactuals = {}
         /\ "RC-RUNTIME-INVARIANT-GUARD" \notin Gate!CoreChecks \cup Gate!Counterfactuals
<1>1. Gate!CoreFails(DOMAIN x2, x3) \subseteq Gate!CoreChecks
  BY DEF Gate!CoreFails
<1>2. Gate!CounterfactualFails(d) \subseteq Gate!Counterfactuals
  BY DEF Gate!CounterfactualFails
<1> QED BY <1>1, <1>2 DEF Gate!CoreChecks, Gate!Counterfactuals

\* A finding makes the rules unstable only where none is tolerated.
LEMMA InstabilityIsStrict ==
  ASSUME GateInputs, NEW d, "RC-COUNTERFACTUAL-RULE-STABILITY-1" \in Gate!CounterfactualFails(d),
         \A i \in DOMAIN x3 : x3[i].ok
  PROVE  x1.findingTolerance = 0
<1>1. \/ Gate!Cardinality(Gate!FindingRelaxes) > x1.findingTolerance
      \/ Gate!Cardinality(Gate!ToolRelaxes) > x1.toolTolerance
  BY CounterfactualFailsAre
<1>2. x1.findingTolerance \in Nat /\ x1.toolTolerance \in Nat
  BY GateAssumption DEF GateInputs
<1>3. Gate!Cardinality(Gate!ToolRelaxes) = 0
  <2>1. Gate!ToolRelaxes = {}
    BY ToolsNeverRelax
  <2>2. Gate!Cardinality({}) = 0
    BY FS_EmptySet DEF Gate!Cardinality, Cardinality
  <2> QED BY <2>1, <2>2
<1>4. Gate!Cardinality(Gate!FindingRelaxes) \in 0 .. 1
  BY FindingsRelaxOnce
<1> QED BY <1>1, <1>2, <1>3, <1>4

\* apply_policy keeps what the gate promises.
LEMMA GateSteps ==
  ASSUME GateInv, Gate!Next
  PROVE  GateInv'
<1> DEFINE base == Gate!Decide(DOMAIN x2, x3)
           core == Gate!CoreFails(DOMAIN x2, x3)
           cf == Gate!CounterfactualFails(base)
           required == Gate!RequiredChecks
           vetoed == base = "PASS" /\ (core \cup cf) \cap required # {}
           guard == "RC-RUNTIME-INVARIANT-GUARD"
           broken == Gate!BlockRelease(DOMAIN x2, x3)
<1>0. GateInputs
  BY DEF GateInv
<1>1. /\ x7' = IF vetoed THEN "DEFER" ELSE base
      /\ x8' = core \cup cf \cup (IF vetoed THEN {guard} ELSE {})
      /\ x1' = x1 /\ x2' = x2 /\ x3' = x3 /\ x4' = x4 /\ x5' = x5 /\ x6' = x6
  BY DEF Gate!Next, Gate!ApplyPolicy, Gate!inputs
<1>2. GateInputs'
  <2>1. x1' \in Rulebook
    BY <1>0, <1>1 DEF GateInputs
  <2>2. \E n \in Nat : x2' \in [1 .. n -> Gate!Findings]
    BY <1>0, <1>1 DEF GateInputs
  <2>3. \E n \in Nat : x3' \in [1 .. n -> Gate!Traces]
    BY <1>0, <1>1 DEF GateInputs
  <2> QED BY <2>1, <2>2, <2>3 DEF GateInputs, Gate!Findings, Gate!Traces, Gate!Actions, Gate!Evidence
<1>3. base \in {"DEFER", "QUARANTINE", "RECAPTURE", "PASS"} /\ (broken => base = "DEFER")
  BY DEF Gate!Decide
<1>4. (x7 = "NONE" => x8 = {})'
  <2> HIDE DEF vetoed, base
  <2> QED BY <1>1, <1>3
<1>5. Gate!PassIsEarned'
  <2> SUFFICES ASSUME x7' = "PASS"
               PROVE  /\ x2 = <<>>
                      /\ x3 # <<>> /\ \A i \in DOMAIN x3 : x3[i].ok
                      /\ x1.governed => x5 = "WITHIN" /\ x6 = "WITHIN"
                      /\ x1.industrial => x1.tools \subseteq {x3[i].tool : i \in DOMAIN x3}
    BY <1>1 DEF Gate!PassIsEarned
  <2>1. base = "PASS" /\ ~vetoed
    <3> HIDE DEF vetoed, base
    <3> QED BY <1>1
  <2>2. ~broken /\ x2 = <<>>
    BY <1>0, <2>1, PassesAre
  <2>3. x3 # <<>> /\ \A i \in DOMAIN x3 : x3[i].ok
    BY <2>2 DEF Gate!BlockRelease
  <2>4. core \cap required = {}
    BY <2>1
  <2>5. x1.governed => ~Gate!ScopeFails
    <3>1. "RC-GOVERNANCE-SCOPE" \in required
      BY DEF Gate!RequiredChecks
    <3>2. "RC-GOVERNANCE-SCOPE" \notin core
      BY <2>4, <3>1
    <3> QED BY <3>2, CoreFailsAre
  <2>6. x1.industrial => x1.tools \subseteq {x3[i].tool : i \in DOMAIN x3}
    <3> SUFFICES ASSUME x1.industrial PROVE x1.tools \subseteq {x3[i].tool : i \in DOMAIN x3}
      OBVIOUS
    <3>1. "RC-SCENARIO-TOOLS" \in required
      BY DEF Gate!RequiredChecks, Gate!CoreChecks
    <3>2. "RC-SCENARIO-TOOLS" \notin core
      BY <2>4, <3>1
    <3> QED BY <3>2, CoreFailsAre
  <2>7. x1.governed => x5 = "WITHIN" /\ x6 = "WITHIN"
    BY <2>5, ScopesHold
  <2> QED BY <2>2, <2>3, <2>6, <2>7
<1>6. Gate!BrokenEvidenceDefers'
  <2>1. broken => x7' = "DEFER"
    <3> HIDE DEF base, broken, core, cf, required
    <3> QED BY <1>1, <1>3
  <2>2. Gate!BlockRelease(DOMAIN x2, x3)' <=> broken
    BY <1>1 DEF Gate!BlockRelease
  <2> QED BY <2>1, <2>2 DEF Gate!BrokenEvidenceDefers
<1>7. Gate!VetoIsNeverCounterfactual'
  <2> SUFFICES ASSUME guard \in x8'
               PROVE  x8' \cap Gate!Counterfactuals = {} /\ x8' \cap required # {}
    BY <1>1 DEF Gate!VetoIsNeverCounterfactual, Gate!RequiredChecks
  <2>1. /\ core \subseteq Gate!CoreChecks /\ cf \subseteq Gate!Counterfactuals
        /\ Gate!CoreChecks \cap Gate!Counterfactuals = {}
        /\ guard \notin Gate!CoreChecks \cup Gate!Counterfactuals
    BY ChecksAreNamed
  <2>2. vetoed
    <3> HIDE DEF vetoed, core, cf
    <3> QED BY <1>1, <2>1
  <2>3. cf = {}
    <3>1. DOMAIN x2 = {}
      BY <1>0, <2>2, PassesAre
    <3> HIDE DEF base
    <3> QED BY <1>0, <3>1, NothingToProbe
  <2>4. guard \notin Gate!Counterfactuals
    BY <2>1
  <2>5. x8' = core \cup {guard} /\ core \cap required # {}
    <3>1. (core \cup cf) \cap required # {}
      BY <2>2
    <3>2. x8' = core \cup cf \cup {guard}
      <4> HIDE DEF vetoed, core, cf
      <4> QED BY <1>1, <2>2
    <3> HIDE DEF core, cf, required
    <3> QED BY <2>3, <3>1, <3>2
  <2> HIDE DEF core, cf, required, guard
  <2> QED BY <2>1, <2>4, <2>5
<1>8. ("RC-COUNTERFACTUAL-RULE-STABILITY-1" \in x8 /\ (\A i \in DOMAIN x3 : x3[i].ok) => x1.findingTolerance = 0)'
  <2> SUFFICES ASSUME "RC-COUNTERFACTUAL-RULE-STABILITY-1" \in x8', \A i \in DOMAIN x3 : x3[i].ok
               PROVE  x1.findingTolerance = 0
    BY <1>1
  <2>1. "RC-COUNTERFACTUAL-RULE-STABILITY-1" \notin Gate!CoreChecks \cup {guard}
    BY DEF Gate!CoreChecks
  <2>2. core \subseteq Gate!CoreChecks
    BY ChecksAreNamed
  <2>3. "RC-COUNTERFACTUAL-RULE-STABILITY-1" \in cf
    <3> HIDE DEF core, cf, vetoed, guard
    <3> QED BY <1>1, <2>1, <2>2
  <2> HIDE DEF base
  <2> QED BY <1>0, <2>3, InstabilityIsStrict
<1> QED BY <1>2, <1>4, <1>5, <1>6, <1>7, <1>8 DEF GateInv

\* It holds at the start.
LEMMA GateStarts ==
  ASSUME GateInit
  PROVE  GateInv
<1>1. ASSUME NEW S, NEW m \in Nat, NEW s \in Gate!BoundedSeq(S, m)
      PROVE  \E n \in Nat : s \in [1 .. n -> S]
  BY DEF Gate!BoundedSeq, Gate!SeqOf
<1>2. /\ x1 \in Rulebook /\ x2 \in Gate!BoundedSeq(Gate!Findings, MaxFindings)
      /\ x3 \in Gate!BoundedSeq(Gate!Traces, MaxTraces) /\ x7 = "NONE" /\ x8 = {}
  BY DEF GateInit, Gate!Init
<1>3. GateInputs
  BY <1>1, <1>2, GateAssumption DEF GateInputs
<1> QED BY <1>2, <1>3 DEF GateInv, Gate!PassIsEarned, Gate!BrokenEvidenceDefers, Gate!VetoIsNeverCounterfactual

\* What is kept is what the gate promises.
LEMMA GateHolds ==
  ASSUME GateInv
  PROVE  /\ Gate!PassIsEarned /\ Gate!BrokenEvidenceDefers
         /\ Gate!VetoIsNeverCounterfactual /\ Gate!OneFindingRelaxes
<1>1. Gate!Cardinality(Gate!FindingRelaxes) <= 1
  BY FindingsRelaxOnce DEF GateInv
<1> QED BY <1>1 DEF GateInv, Gate!OneFindingRelaxes

-----------------------------------------------------------------------------
(* MemoryRetrieval *)

\* Sets of which one is the other, renamed, are equally large.
LEMMA RenamedSize ==
  ASSUME NEW A, NEW B, NEW f, IsFiniteSet(A), A \subseteq DOMAIN f,
         \A a \in A : f[a] \in B,
         \A a, c \in A : f[a] = f[c] => a = c,
         \A b \in B : \E a \in A : f[a] = b
  PROVE  Cardinality(A) = Cardinality(B) /\ IsFiniteSet(B)
<1> DEFINE g == [a \in A |-> f[a]]
<1>1. g \in [A -> B]
  OBVIOUS
<1>2. g \in Bijection(A, B)
  BY <1>1 DEF Bijection, Injection, Surjection, IsInjective
<1>3. ExistsBijection(A, B)
  BY <1>2 DEF ExistsBijection
<1> QED BY <1>3, FS_Bijection

-----------------------------------------------------------------------------
AllChannels == {"keyword", "bm25", "ngram", "embedding"}

\* A better rank is worth more, and any rank is worth something.
LEMMA SharesFall ==
  ASSUME NEW ch \in AllChannels
  PROVE  /\ Retrieval!Share(ch, 0) = 0
         /\ \A r \in 1 .. 4 : Retrieval!Share(ch, r) \in Nat \ {0}
         /\ \A r, t \in 1 .. 4 : r < t => Retrieval!Share(ch, r) > Retrieval!Share(ch, t)
<1>1. \A w \in {2, 3, 4} :
        /\ w * 61 * 62 * 63 = w * 238266
        /\ (w * 238266) \div 61 = w * 3906 /\ (w * 238266) \div 62 = w * 3843 /\ (w * 238266) \div 63 = w * 3782
        /\ (w * 238266) \div 64 \in 1 .. (w * 3782 - 1)
  OBVIOUS
<1>2. PICK w \in {2, 3, 4} : Retrieval!Weight[ch] = w
  BY DEF AllChannels, Retrieval!Weight
<1>3. \A r \in 1 .. 4 : Retrieval!Share(ch, r) = (w * 61 * 62 * 63) \div (60 + r)
  BY <1>2 DEF Retrieval!Share
<1>4. /\ Retrieval!Share(ch, 1) = w * 3906 /\ Retrieval!Share(ch, 2) = w * 3843
      /\ Retrieval!Share(ch, 3) = w * 3782 /\ Retrieval!Share(ch, 4) \in 1 .. (w * 3782 - 1)
  BY <1>1, <1>3
<1>5. Retrieval!Share(ch, 0) = 0
  BY DEF Retrieval!Share
<1>6. \A r \in 1 .. 4 : r = 1 \/ r = 2 \/ r = 3 \/ r = 4
  OBVIOUS
<1> QED BY <1>4, <1>5, <1>6

\* A store of up to three cards.
IsStore(s) == \E k \in 0 .. 3 : s \in [1 .. k -> Library]

\* The ranks of a store.
LEMMA RanksIn ==
  ASSUME NEW s, IsStore(s), NEW q, NEW e, NEW ch, NEW n
  PROVE  /\ Retrieval!EligibleOf(s, q) \subseteq DOMAIN s
         /\ IsFiniteSet(Retrieval!EligibleOf(s, q))
         /\ Retrieval!Rank(s, q, e, ch, n) \in 0 .. 4
<1> DEFINE E == Retrieval!EligibleOf(s, q)
           score == Retrieval!ScoresOf(s, q, e, ch)
           A == {m \in E : Retrieval!Precedes(s, score, m, n)}
<1>1. E \subseteq DOMAIN s /\ DOMAIN s \subseteq 1 .. 3
  BY DEF Retrieval!EligibleOf, IsStore
<1>2. IsFiniteSet(1 .. 3) /\ Cardinality(1 .. 3) = 3
  <2>1. \A a, b \in Int : IsFiniteSet(a .. b) /\ Cardinality(a .. b) = IF a > b THEN 0 ELSE b - a + 1
    BY FS_Interval
  <2>2. 1 \in Int /\ 3 \in Int /\ ~(1 > 3) /\ 3 - 1 + 1 = 3
    OBVIOUS
  <2> QED BY <2>1, <2>2
<1>3. A \in SUBSET (1 .. 3) /\ E \in SUBSET (1 .. 3)
  BY <1>1
<1>4. Retrieval!Rank(s, q, e, ch, n) = IF score[n] = 0 THEN 0 ELSE 1 + Cardinality(A)
  <2>1. DOMAIN score = E
    BY DEF Retrieval!ScoresOf
  <2>2. Retrieval!Rank(s, q, e, ch, n) = Retrieval!RankIn(s, score, n)
    BY DEF Retrieval!Rank
  <2>3. A = {m \in DOMAIN score : Retrieval!Precedes(s, score, m, n)}
    BY <2>1
  <2> HIDE DEF score, E, A
  <2> QED BY <2>2, <2>3 DEF Retrieval!RankIn, Retrieval!Cardinality, Cardinality
<1> HIDE DEF E, score, A
<1>5. IsFiniteSet(A) /\ Cardinality(A) <= 3 /\ IsFiniteSet(E)
  <2> DEFINE T == 1 .. 3
  <2>1. IsFiniteSet(T) /\ Cardinality(T) = 3 /\ A \in SUBSET T /\ E \in SUBSET T
    BY <1>2, <1>3
  <2> HIDE DEF T
  <2>2. IsFiniteSet(A) /\ Cardinality(A) <= Cardinality(T) /\ IsFiniteSet(E)
    BY <2>1, FS_Subset
  <2> QED BY <2>1, <2>2
<1>6. Cardinality(A) \in 0 .. 3
  BY <1>5, FS_CardinalityType
<1>7. Retrieval!Rank(s, q, e, ch, n) \in 0 .. 4
  BY <1>4, <1>6
<1> QED BY <1>1, <1>5, <1>7 DEF E

\* What the fusion adds for a channel.
Part(s, q, e, ch, n) == Retrieval!Share(ch, Retrieval!Rank(s, q, e, ch, n))

\* The fusion is the sum of the shares, which are numbers.
LEMMA FusionIs ==
  ASSUME NEW s, IsStore(s), NEW q, NEW e, e.ok \in BOOLEAN, NEW n
  PROVE  /\ \A ch \in AllChannels : Part(s, q, e, ch, n) \in Nat
         /\ Retrieval!Fusion(s, q, e, n) =
              Part(s, q, e, "keyword", n) + Part(s, q, e, "bm25", n) + Part(s, q, e, "ngram", n)
                + (IF e.ok THEN Part(s, q, e, "embedding", n) ELSE 0)
         /\ Retrieval!Fusion(s, q, e, n) \in Nat
         /\ Retrieval!Channels(e) = IF e.ok THEN AllChannels ELSE AllChannels \ {"embedding"}
<1>1. \A ch \in AllChannels : Part(s, q, e, ch, n) \in Nat
  <2> SUFFICES ASSUME NEW ch \in AllChannels PROVE Part(s, q, e, ch, n) \in Nat
    OBVIOUS
  <2>1. Retrieval!Rank(s, q, e, ch, n) \in 0 .. 4
    BY RanksIn
  <2>2. Retrieval!Rank(s, q, e, ch, n) = 0 \/ Retrieval!Rank(s, q, e, ch, n) \in 1 .. 4
    BY <2>1
  <2> QED BY <2>2, SharesFall DEF Part
<1>2. Retrieval!Channels(e) = IF e.ok THEN AllChannels ELSE AllChannels \ {"embedding"}
  BY DEF Retrieval!Channels, Retrieval!Lexical, AllChannels
<1>3. Retrieval!Fusion(s, q, e, n) =
        Part(s, q, e, "keyword", n) + Part(s, q, e, "bm25", n) + Part(s, q, e, "ngram", n)
          + (IF e.ok THEN Part(s, q, e, "embedding", n) ELSE 0)
  <2> DEFINE share == [ch \in Retrieval!Channels(e) |-> Part(s, q, e, ch, n)]
  <2>1. Retrieval!Fusion(s, q, e, n) =
          share["keyword"] + share["bm25"] + share["ngram"] + (IF e.ok THEN share["embedding"] ELSE 0)
    BY DEF Retrieval!Fusion, Part
  <2>2. \A ch \in Retrieval!Channels(e) : share[ch] = Part(s, q, e, ch, n)
    OBVIOUS
  <2>3. {"keyword", "bm25", "ngram"} \subseteq Retrieval!Channels(e) /\ (e.ok => "embedding" \in Retrieval!Channels(e))
    BY <1>2 DEF AllChannels
  <2> HIDE DEF share
  <2> QED BY <2>1, <2>2, <2>3
<1>4. Retrieval!Fusion(s, q, e, n) \in Nat
  BY <1>1, <1>3 DEF AllChannels
<1> QED BY <1>1, <1>2, <1>3, <1>4

\* The fused order of a store is strict and total.
LEMMA FusedIsOrder ==
  ASSUME NEW s, IsStore(s), NEW fused, NEW I \in SUBSET DOMAIN s,
         \A i \in I : fused[i] \in Nat
  PROVE  /\ \A i, j \in I : i # j => Retrieval!FusedBefore(s, fused, i, j) \/ Retrieval!FusedBefore(s, fused, j, i)
         /\ \A i \in I : ~Retrieval!FusedBefore(s, fused, i, i)
         /\ \A h, i, j \in I : Retrieval!FusedBefore(s, fused, h, i) /\ Retrieval!FusedBefore(s, fused, i, j)
              => Retrieval!FusedBefore(s, fused, h, j)
<1> DEFINE F(i) == fused[i]
           S(i) == Retrieval!Specificity(s[i])
           V(i) == s[i].version
<1>1. ASSUME NEW i \in I PROVE i \in Nat /\ F(i) \in Nat /\ S(i) \in Nat /\ V(i) \in Nat
  <2>1. s[i].version \in Nat /\ i \in Nat
    BY RetrievalAssumption DEF IsStore
  <2> QED BY <2>1 DEF Retrieval!Specificity
<1>2. ASSUME NEW i, NEW j
      PROVE  Retrieval!FusedBefore(s, fused, i, j) <=>
               \/ F(i) > F(j)
               \/ F(i) = F(j) /\ S(i) > S(j)
               \/ F(i) = F(j) /\ S(i) = S(j) /\ V(i) > V(j)
               \/ F(i) = F(j) /\ S(i) = S(j) /\ V(i) = V(j) /\ i < j
               \/ F(i) = F(j) /\ S(i) = S(j) /\ F(i) > F(j)
  BY DEF Retrieval!FusedBefore, Retrieval!Precedes
<1> HIDE DEF F, S, V
<1>3. ASSUME NEW i \in I, NEW j \in I, i # j
      PROVE  Retrieval!FusedBefore(s, fused, i, j) \/ Retrieval!FusedBefore(s, fused, j, i)
  BY <1>1, <1>2, <1>3
<1>4. ASSUME NEW i \in I PROVE ~Retrieval!FusedBefore(s, fused, i, i)
  BY <1>1, <1>2
<1>5. ASSUME NEW h \in I, NEW i \in I, NEW j \in I,
             Retrieval!FusedBefore(s, fused, h, i), Retrieval!FusedBefore(s, fused, i, j)
      PROVE  Retrieval!FusedBefore(s, fused, h, j)
  BY <1>1, <1>2, <1>5
<1> QED BY <1>3, <1>4, <1>5

\* How many cards of a set come before one of them.
Before(s, fused, I, i) == {j \in I : Retrieval!FusedBefore(s, fused, j, i)}

\* In the fused order every card of the set stands at its rank.
LEMMA InOrderIs ==
  ASSUME NEW s, IsStore(s), NEW fused, NEW I \in SUBSET DOMAIN s,
         \A i \in I : fused[i] \in Nat
  PROVE  /\ IsFiniteSet(I) /\ Cardinality(I) \in Nat
         /\ DOMAIN Retrieval!InOrder(s, fused, I) = 1 .. Cardinality(I)
         /\ Retrieval!InOrder(s, fused, I) \in Seq(I)
         /\ \A i \in I : /\ Cardinality(Before(s, fused, I, i)) \in 0 .. (Cardinality(I) - 1)
                         /\ Retrieval!InOrder(s, fused, I)[Cardinality(Before(s, fused, I, i)) + 1] = i
         /\ \A n \in 1 .. Cardinality(I) :
              /\ Retrieval!InOrder(s, fused, I)[n] \in I
              /\ Cardinality(Before(s, fused, I, Retrieval!InOrder(s, fused, I)[n])) = n - 1
         /\ \A h, i \in I : Retrieval!FusedBefore(s, fused, h, i)
              => Cardinality(Before(s, fused, I, h)) < Cardinality(Before(s, fused, I, i))
<1> DEFINE B == {p \in I \X I : Retrieval!FusedBefore(s, fused, p[1], p[2])}
           R(i) == Cardinality(Before(s, fused, I, i))
           N == Cardinality(I)
           O == Retrieval!InOrder(s, fused, I)
<1>1. IsFiniteSet(I)
  <2>1. IsFiniteSet(DOMAIN s)
    BY FS_Interval DEF IsStore
  <2> QED BY <2>1, FS_Subset
<1>2. \A i, j \in I : <<i, j>> \in B <=> Retrieval!FusedBefore(s, fused, i, j)
  OBVIOUS
<1>3. /\ \A i, j \in I : i # j => <<i, j>> \in B \/ <<j, i>> \in B
      /\ \A i \in I : <<i, i>> \notin B
      /\ \A h, i, j \in I : <<h, i>> \in B /\ <<i, j>> \in B => <<h, j>> \in B
  <2> HIDE DEF B
  <2> QED BY <1>2, FusedIsOrder
<1>4. \A i \in I : {j \in I : <<j, i>> \in B} = Before(s, fused, I, i)
  BY <1>2 DEF Before
<1>5. /\ N \in Nat
      /\ \A i \in I : R(i) \in 0 .. (N - 1)
      /\ \A h, i \in I : <<h, i>> \in B => R(h) < R(i)
      /\ \A n \in 1 .. N : \E i \in I : R(i) = n - 1
  <2>1. /\ N \in Nat
        /\ \A i \in I : Cardinality({j \in I : <<j, i>> \in B}) \in 0 .. (N - 1)
        /\ \A h, i \in I : <<h, i>> \in B =>
             Cardinality({j \in I : <<j, h>> \in B}) < Cardinality({j \in I : <<j, i>> \in B})
        /\ \A n \in 1 .. N : \E i \in I : Cardinality({j \in I : <<j, i>> \in B}) = n - 1
    <3> HIDE DEF B
    <3> QED BY <1>1, <1>3, OrderRanks
  <2> HIDE DEF B
  <2> QED BY <2>1, <1>4
<1>6. ASSUME NEW h \in I, NEW i \in I, R(h) = R(i) PROVE h = i
  <2> HIDE DEF B, R, N
  <2>1. R(h) \in Int /\ R(i) \in Int
    BY <1>5
  <2>2. h # i => <<h, i>> \in B \/ <<i, h>> \in B
    BY <1>3
  <2>3. (<<h, i>> \in B => R(h) < R(i)) /\ (<<i, h>> \in B => R(i) < R(h))
    BY <1>5
  <2> QED BY <1>6, <2>1, <2>2, <2>3
<1>7. O = [n \in 1 .. N |-> CHOOSE i \in I : R(i) = n - 1]
  BY DEF Retrieval!InOrder, Before, Retrieval!Cardinality, Cardinality
<1>8. ASSUME NEW n \in 1 .. N PROVE O[n] \in I /\ R(O[n]) = n - 1
  <2>1. \E i \in I : R(i) = n - 1
    BY <1>5
  <2>2. O[n] = CHOOSE i \in I : R(i) = n - 1
    BY <1>7
  <2> HIDE DEF R, N, O
  <2> QED BY <2>1, <2>2
<1>9. ASSUME NEW i \in I PROVE O[R(i) + 1] = i
  <2>1. R(i) \in 0 .. (N - 1)
    BY <1>5
  <2>2. R(i) + 1 \in 1 .. N /\ (R(i) + 1) - 1 = R(i)
    BY <1>5, <2>1
  <2>3. O[R(i) + 1] \in I /\ R(O[R(i) + 1]) = R(i)
    BY <1>8, <2>2
  <2> HIDE DEF R, N, O
  <2> QED BY <1>6, <2>3
<1>10. O \in [1 .. N -> I]
  <2> HIDE DEF R
  <2>1. \A n \in 1 .. N : O[n] \in I
    BY <1>8
  <2> QED BY <1>7, <2>1
<1>11. O \in Seq(I) /\ DOMAIN O = 1 .. N
  <2> HIDE DEF O, N
  <2> QED BY <1>5, <1>10
<1> HIDE DEF B, R, N, O
<1> QED BY <1>1, <1>2, <1>5, <1>8, <1>9, <1>11 DEF R, N, O

\* The scores of the fusion, the cards that have one and their order.
Fused(s, q, e) == [n \in Retrieval!EligibleOf(s, q) |-> Retrieval!Fusion(s, q, e, n)]
Relevant(s, q, e) == {n \in Retrieval!EligibleOf(s, q) : Retrieval!Fusion(s, q, e, n) > 0}
Ordered(s, q, e) == Retrieval!InOrder(s, Fused(s, q, e), Relevant(s, q, e))
Taken(s, q, e) ==
  IF q.limit < Cardinality(Relevant(s, q, e)) THEN q.limit ELSE Cardinality(Relevant(s, q, e))

\* What InOrderIs asks for.
LEMMA RelevantAre ==
  ASSUME NEW s, IsStore(s), NEW q, NEW e, e.ok \in BOOLEAN
  PROVE  /\ Relevant(s, q, e) \in SUBSET DOMAIN s
         /\ Relevant(s, q, e) \subseteq Retrieval!EligibleOf(s, q)
         /\ \A i \in Relevant(s, q, e) : Fused(s, q, e)[i] \in Nat /\ Fused(s, q, e)[i] = Retrieval!Fusion(s, q, e, i)
<1>1. Retrieval!EligibleOf(s, q) \subseteq DOMAIN s
  BY RanksIn
<1>2. \A n \in Retrieval!EligibleOf(s, q) : Fused(s, q, e)[n] = Retrieval!Fusion(s, q, e, n)
  BY DEF Fused
<1>3. \A n : Retrieval!Fusion(s, q, e, n) \in Nat
  BY FusionIs
<1> QED BY <1>1, <1>2, <1>3 DEF Relevant

\* What is retrieved are the first of them.
LEMMA RetrievedIs ==
  ASSUME NEW s, IsStore(s), NEW q, q.limit \in Nat, NEW e, e.ok \in BOOLEAN
  PROVE  /\ Taken(s, q, e) \in 0 .. Cardinality(Relevant(s, q, e)) /\ Cardinality(Relevant(s, q, e)) \in Nat
         /\ Ordered(s, q, e) \in Seq(Relevant(s, q, e)) /\ Len(Ordered(s, q, e)) = Cardinality(Relevant(s, q, e))
         /\ Retrieval!Retrieved(s, q, e) = [j \in 1 .. Taken(s, q, e) |-> Ordered(s, q, e)[j]]
<1> DEFINE O == Ordered(s, q, e)
           I == Relevant(s, q, e)
           N == Cardinality(I)
           M == Taken(s, q, e)
<1>1. /\ I \in SUBSET DOMAIN s /\ \A i \in I : Fused(s, q, e)[i] \in Nat
  BY RelevantAre
<1>2. N \in Nat /\ O \in Seq(I) /\ DOMAIN O = 1 .. N
  <2> DEFINE fused == Fused(s, q, e)
  <2>1. /\ Cardinality(I) \in Nat
        /\ DOMAIN Retrieval!InOrder(s, fused, I) = 1 .. Cardinality(I)
        /\ Retrieval!InOrder(s, fused, I) \in Seq(I)
    <3> HIDE DEF I, fused
    <3> QED BY <1>1, InOrderIs DEF fused
  <2> QED BY <2>1 DEF Ordered
<1>3. M \in 0 .. N
  <2>1. M = IF q.limit < N THEN q.limit ELSE N
    BY DEF Taken
  <2> HIDE DEF N, M
  <2> QED BY <1>2, <2>1
<1>4. Len(O) = N
  <2> HIDE DEF O, N, I
  <2> QED BY <1>2
<1>5. Retrieval!Retrieved(s, q, e) = SubSeq(O, 1, M)
  <2>1. {n \in DOMAIN Fused(s, q, e) : Fused(s, q, e)[n] > 0} = I
    BY DEF Fused, Relevant
  <2>2. Retrieval!FusedOrder(s, Fused(s, q, e)) = O
    BY <2>1 DEF Retrieval!FusedOrder, Ordered
  <2>3. Retrieval!Retrieved(s, q, e) = Retrieval!FirstOf(O, q.limit)
    BY <2>2 DEF Retrieval!Retrieved, Fused
  <2>4. M = IF q.limit < Len(O) THEN q.limit ELSE Len(O)
    BY <1>4 DEF Taken
  <2> HIDE DEF O, M
  <2> QED BY <2>3, <2>4 DEF Retrieval!FirstOf
<1>6. SubSeq(O, 1, M) = [j \in 1 .. M |-> O[j]]
  <2> HIDE DEF O, M, N, I
  <2>1. M - 1 + 1 = M /\ 1 \in 1 .. N + 1
    BY <1>2, <1>3
  <2> QED BY <1>2, <1>3, <1>4, <2>1
<1> QED BY <1>2, <1>3, <1>4, <1>5, <1>6

RetrievalInv ==
  /\ x1 \in [1 .. Size -> Library] /\ x2 \in Queries /\ x3 \in Embeddings
  /\ x4 # Retrieval!NotYet => x4 = Retrieval!Retrieved(x1, x2, x3)

LEMMA RetrievalStarts == Retrieval!Init => RetrievalInv
BY DEF Retrieval!Init, RetrievalInv

LEMMA RetrievalSteps == RetrievalInv /\ Retrieval!Next => RetrievalInv'
<1> SUFFICES ASSUME RetrievalInv, Retrieval!Next PROVE RetrievalInv'
  OBVIOUS
<1>1. x4' = Retrieval!Retrieved(x1, x2, x3) /\ x1' = x1 /\ x2' = x2 /\ x3' = x3
  BY DEF Retrieval!Next, Retrieval!Retrieve
<1> QED BY <1>1 DEF RetrievalInv, Retrieval!NotYet

\* The facts about what was retrieved.
LEMMA RetrievalIs ==
  ASSUME RetrievalInv
  PROVE  /\ IsStore(x1)
         /\ DOMAIN x2 = {"site", "line", "at", "words", "limit"} /\ x2.limit \in Nat /\ x3.ok \in BOOLEAN
         /\ Retrieval!Done => x4 = Retrieval!Retrieved(x1, x2, x3)
BY RetrievalAssumption DEF RetrievalInv, Retrieval!Done, IsStore

\* A card that every channel prefers has more of the fusion.
LEMMA PreferredScoresMore ==
  ASSUME NEW s, IsStore(s), NEW q, NEW e, e.ok \in BOOLEAN, NEW n, NEW y,
         \A ch \in Retrieval!Channels(e) :
           /\ Retrieval!Rank(s, q, e, ch, n) > 0
           /\ \/ Retrieval!Rank(s, q, e, ch, y) = 0
              \/ Retrieval!Rank(s, q, e, ch, n) < Retrieval!Rank(s, q, e, ch, y)
  PROVE  Retrieval!Fusion(s, q, e, n) > Retrieval!Fusion(s, q, e, y)
<1>1. ASSUME NEW ch \in Retrieval!Channels(e), ch \in AllChannels
      PROVE  Part(s, q, e, ch, n) > Part(s, q, e, ch, y)
  <2> DEFINE a == Retrieval!Rank(s, q, e, ch, n)
             b == Retrieval!Rank(s, q, e, ch, y)
  <2>1. a \in 1 .. 4 /\ (b = 0 \/ (b \in 1 .. 4 /\ a < b))
    <3>1. a \in 0 .. 4 /\ b \in 0 .. 4 /\ a > 0 /\ (b = 0 \/ a < b)
      BY RanksIn
    <3> HIDE DEF a, b
    <3> QED BY <3>1
  <2>2. Retrieval!Share(ch, a) > Retrieval!Share(ch, b)
    <3> HIDE DEF a, b
    <3> QED BY <1>1, <2>1, SharesFall
  <2> QED BY <2>2 DEF Part
<1>2. /\ \A ch \in AllChannels : Part(s, q, e, ch, n) \in Nat /\ Part(s, q, e, ch, y) \in Nat
      /\ Retrieval!Fusion(s, q, e, n) =
           Part(s, q, e, "keyword", n) + Part(s, q, e, "bm25", n) + Part(s, q, e, "ngram", n)
             + (IF e.ok THEN Part(s, q, e, "embedding", n) ELSE 0)
      /\ Retrieval!Fusion(s, q, e, y) =
           Part(s, q, e, "keyword", y) + Part(s, q, e, "bm25", y) + Part(s, q, e, "ngram", y)
             + (IF e.ok THEN Part(s, q, e, "embedding", y) ELSE 0)
      /\ Retrieval!Channels(e) = IF e.ok THEN AllChannels ELSE AllChannels \ {"embedding"}
  BY FusionIs
<1>3. /\ Part(s, q, e, "keyword", n) > Part(s, q, e, "keyword", y)
      /\ Part(s, q, e, "bm25", n) > Part(s, q, e, "bm25", y)
      /\ Part(s, q, e, "ngram", n) > Part(s, q, e, "ngram", y)
      /\ e.ok => Part(s, q, e, "embedding", n) > Part(s, q, e, "embedding", y)
  BY <1>1, <1>2 DEF AllChannels
<1> QED BY <1>2, <1>3 DEF AllChannels

LEMMA UnanimousIsFirst ==
  ASSUME RetrievalInv
  PROVE  Retrieval!UnanimousFirst
<1> DEFINE E == Retrieval!EligibleOf(x1, x2)
           I == Relevant(x1, x2, x3)
           O == Ordered(x1, x2, x3)
           fused == Fused(x1, x2, x3)
           M == Taken(x1, x2, x3)
           R(ch, m) == Retrieval!Rank(x1, x2, x3, ch, m)
<1> SUFFICES ASSUME Retrieval!Done, NEW k \in DOMAIN x4, NEW n \in E
             PROVE  /\ (\A ch \in Retrieval!Channels(x3) : R(ch, n) > 0 /\ (R(ch, x4[k]) = 0 \/ R(ch, n) < R(ch, x4[k])))
                         => \E j \in 1 .. k - 1 : x4[j] = n
                    /\ \E ch \in Retrieval!Channels(x3) : R(ch, x4[k]) > 0
  BY DEF Retrieval!UnanimousFirst
<1>1. IsStore(x1) /\ x2.limit \in Nat /\ x3.ok \in BOOLEAN
  BY RetrievalIs
<1>2. M \in 0 .. Cardinality(I) /\ Cardinality(I) \in Nat /\ x4 = [j \in 1 .. M |-> O[j]]
  BY <1>1, RetrievalIs, RetrievedIs
<1>3. /\ I \in SUBSET DOMAIN x1 /\ I \subseteq E
      /\ \A i \in I : fused[i] \in Nat /\ fused[i] = Retrieval!Fusion(x1, x2, x3, i)
  BY <1>1, RelevantAre
<1>4. /\ \A i \in I : /\ Cardinality(Before(x1, fused, I, i)) \in 0 .. (Cardinality(I) - 1)
                      /\ O[Cardinality(Before(x1, fused, I, i)) + 1] = i
      /\ \A m \in 1 .. Cardinality(I) : O[m] \in I /\ Cardinality(Before(x1, fused, I, O[m])) = m - 1
      /\ \A h, i \in I : Retrieval!FusedBefore(x1, fused, h, i)
           => Cardinality(Before(x1, fused, I, h)) < Cardinality(Before(x1, fused, I, i))
  <2>1. O = Retrieval!InOrder(x1, fused, I)
    BY DEF Ordered
  <2> HIDE DEF I, fused, O
  <2> QED BY <1>1, <1>3, <2>1, InOrderIs
<1>5. k \in 1 .. M /\ k \in 1 .. Cardinality(I) /\ x4[k] = O[k] /\ x4[k] \in I
  <2> HIDE DEF I, O, M
  <2> QED BY <1>2, <1>4
<1>6. \E ch \in Retrieval!Channels(x3) : R(ch, x4[k]) > 0
  <2> SUFFICES ASSUME \A ch \in Retrieval!Channels(x3) : ~(R(ch, x4[k]) > 0) PROVE FALSE
    OBVIOUS
  <2>1. Retrieval!Fusion(x1, x2, x3, x4[k]) > 0
    BY <1>5 DEF Relevant
  <2>2. \A ch \in Retrieval!Channels(x3) : R(ch, x4[k]) = 0
    <3>1. \A ch : R(ch, x4[k]) \in 0 .. 4
      BY <1>1, RanksIn
    <3> HIDE DEF R
    <3> QED BY <3>1
  <2>3. Retrieval!Channels(x3) = IF x3.ok THEN AllChannels ELSE AllChannels \ {"embedding"}
    BY <1>1, FusionIs
  <2>4. \A ch \in Retrieval!Channels(x3) : Part(x1, x2, x3, ch, x4[k]) = 0
    BY <2>2, <2>3, SharesFall DEF Part
  <2>5. /\ Part(x1, x2, x3, "keyword", x4[k]) = 0 /\ Part(x1, x2, x3, "bm25", x4[k]) = 0
        /\ Part(x1, x2, x3, "ngram", x4[k]) = 0
        /\ x3.ok => Part(x1, x2, x3, "embedding", x4[k]) = 0
    BY <2>3, <2>4 DEF AllChannels
  <2>6. Retrieval!Fusion(x1, x2, x3, x4[k]) =
          Part(x1, x2, x3, "keyword", x4[k]) + Part(x1, x2, x3, "bm25", x4[k]) + Part(x1, x2, x3, "ngram", x4[k])
            + (IF x3.ok THEN Part(x1, x2, x3, "embedding", x4[k]) ELSE 0)
    BY <1>1, FusionIs
  <2> QED BY <2>1, <2>5, <2>6
<1>7. ASSUME \A ch \in Retrieval!Channels(x3) : R(ch, n) > 0 /\ (R(ch, x4[k]) = 0 \/ R(ch, n) < R(ch, x4[k]))
      PROVE  \E j \in 1 .. k - 1 : x4[j] = n
  <2>1. Retrieval!Fusion(x1, x2, x3, n) > Retrieval!Fusion(x1, x2, x3, x4[k])
    BY <1>1, <1>7, PreferredScoresMore
  <2>2. Retrieval!Fusion(x1, x2, x3, x4[k]) \in Nat /\ Retrieval!Fusion(x1, x2, x3, n) \in Nat
    BY <1>1, FusionIs
  <2>3. n \in I
    BY <2>1, <2>2 DEF Relevant
  <2>4. Retrieval!FusedBefore(x1, fused, n, x4[k])
    <3>1. fused[n] > fused[x4[k]]
      BY <1>3, <1>5, <2>1, <2>3
    <3> QED BY <3>1 DEF Retrieval!FusedBefore
  <2> DEFINE r == Cardinality(Before(x1, fused, I, n))
  <2>5. r \in Nat /\ r < k - 1 /\ O[r + 1] = n
    <3>1. Cardinality(Before(x1, fused, I, x4[k])) = k - 1
      BY <1>4, <1>5
    <3>2. r < Cardinality(Before(x1, fused, I, x4[k])) /\ r \in Nat /\ O[r + 1] = n
      <4> HIDE DEF I, fused, O
      <4> QED BY <1>2, <1>4, <1>5, <2>3, <2>4
    <3> QED BY <3>1, <3>2
  <2> HIDE DEF r, O, M, I
  <2>6. r + 1 \in 1 .. k - 1 /\ r + 1 \in 1 .. M
    BY <1>2, <1>5, <2>5
  <2>7. x4[r + 1] = n
    BY <1>2, <2>5, <2>6
  <2> QED BY <2>6, <2>7
<1> QED BY <1>6, <1>7

\* The limit of a query does not matter to the order of its cards.
LEMMA LimitsDoNotOrder ==
  ASSUME NEW s, NEW e, NEW q, NEW p,
         p.site = q.site, p.line = q.line, p.at = q.at, p.words = q.words
  PROVE  Relevant(s, p, e) = Relevant(s, q, e) /\ Ordered(s, p, e) = Ordered(s, q, e)
<1>1. Retrieval!EligibleOf(s, p) = Retrieval!EligibleOf(s, q)
  BY DEF Retrieval!EligibleOf, Retrieval!Eligible
<1>2. ASSUME NEW m, NEW ch PROVE Retrieval!Score(ch, s, p, e, m) = Retrieval!Score(ch, s, q, e, m)
  <2>1. Retrieval!KeywordScore(s, p, m) = Retrieval!KeywordScore(s, q, m)
    BY DEF Retrieval!KeywordScore
  <2>2. Retrieval!Bm25Score(s, p, m) = Retrieval!Bm25Score(s, q, m)
    BY <1>1 DEF Retrieval!Bm25Score, Retrieval!Bm25Corpus
  <2>3. Retrieval!NgramScore(s, p, m) = Retrieval!NgramScore(s, q, m)
    BY DEF Retrieval!NgramScore
  <2> QED BY <2>1, <2>2, <2>3 DEF Retrieval!Score
<1>3. ASSUME NEW n, NEW ch PROVE Retrieval!Rank(s, p, e, ch, n) = Retrieval!Rank(s, q, e, ch, n)
  <2>1. Retrieval!ScoresOf(s, p, e, ch) = Retrieval!ScoresOf(s, q, e, ch)
    BY <1>1, <1>2 DEF Retrieval!ScoresOf
  <2> QED BY <2>1 DEF Retrieval!Rank
<1>4. ASSUME NEW n PROVE Retrieval!Fusion(s, p, e, n) = Retrieval!Fusion(s, q, e, n)
  BY <1>3 DEF Retrieval!Fusion
<1>5. Fused(s, p, e) = Fused(s, q, e) /\ Relevant(s, p, e) = Relevant(s, q, e)
  BY <1>1, <1>4 DEF Fused, Relevant
<1> QED BY <1>5 DEF Ordered

LEMMA LimitsOnlyCut ==
  ASSUME RetrievalInv
  PROVE  Retrieval!LimitOnlyCuts
<1> DEFINE p == [x2 EXCEPT !.limit = @ + 1]
           more == Retrieval!Retrieved(x1, p, x3)
           O == Ordered(x1, x2, x3)
           I == Relevant(x1, x2, x3)
           N == Cardinality(I)
           M == Taken(x1, x2, x3)
           P == Taken(x1, p, x3)
<1> SUFFICES ASSUME Retrieval!Done PROVE Len(x4) <= Len(more) /\ x4 = SubSeq(more, 1, Len(x4))
  BY DEF Retrieval!LimitOnlyCuts
<1>1. IsStore(x1) /\ x2.limit \in Nat /\ x3.ok \in BOOLEAN /\ x4 = Retrieval!Retrieved(x1, x2, x3)
  BY RetrievalIs
<1>2. p.site = x2.site /\ p.line = x2.line /\ p.at = x2.at /\ p.words = x2.words /\ p.limit = x2.limit + 1
  BY RetrievalIs
<1>3. Relevant(x1, p, x3) = I /\ Ordered(x1, p, x3) = O
  <2> HIDE DEF p
  <2> QED BY <1>2, LimitsDoNotOrder
<1>4. N \in Nat /\ x4 = [j \in 1 .. M |-> O[j]] /\ O \in Seq(I) /\ Len(O) = N
  BY <1>1, RetrievedIs
<1>5. more = [j \in 1 .. P |-> O[j]]
  <2>1. p.limit \in Nat
    BY <1>1, <1>2
  <2> HIDE DEF p
  <2>2. Retrieval!Retrieved(x1, p, x3) = [j \in 1 .. Taken(x1, p, x3) |-> Ordered(x1, p, x3)[j]]
    BY <1>1, <2>1, RetrievedIs
  <2> QED BY <1>3, <2>2
<1>6. M \in Nat /\ P \in Nat /\ M <= P /\ P <= N
  <2>1. M = IF x2.limit < N THEN x2.limit ELSE N
    BY DEF Taken
  <2>2. P = IF x2.limit + 1 < N THEN x2.limit + 1 ELSE N
    BY <1>2, <1>3 DEF Taken
  <2> HIDE DEF M, P, N
  <2> QED BY <1>1, <1>4, <2>1, <2>2
<1>7. \A j \in 1 .. N : O[j] \in I
  <2> HIDE DEF O, I, N
  <2> QED BY <1>4
<1> HIDE DEF p, more, O, I, N, M, P
<1>8. x4 \in Seq(I) /\ Len(x4) = M /\ more \in Seq(I) /\ Len(more) = P
  <2>1. x4 \in [1 .. M -> I]
    BY <1>4, <1>6, <1>7
  <2>2. more \in [1 .. P -> I]
    <3>1. \A j \in 1 .. P : O[j] \in I
      BY <1>4, <1>6, <1>7
    <3> QED BY <1>5, <3>1
  <2> QED BY <1>6, <2>1, <2>2
<1>9. SubSeq(more, 1, M) = [j \in 1 .. M |-> more[j]]
  <2>1. M - 1 + 1 = M
    BY <1>6
  <2> QED BY <1>6, <1>8, <2>1
<1>10. \A j \in 1 .. M : more[j] = O[j]
  BY <1>5, <1>6
<1> QED BY <1>4, <1>6, <1>8, <1>9, <1>10

\* Store t is store s without cards that are not eligible: what is at m in t
\* was at mv[m] in s, in the same order, and has the same embedding.
Moves(s, e, t, d, mv, q) ==
  /\ IsStore(s) /\ IsStore(t) /\ e.ok \in BOOLEAN /\ d.ok = e.ok
  /\ DOMAIN mv = DOMAIN t
  /\ \A m \in DOMAIN t : mv[m] \in DOMAIN s /\ t[m] = s[mv[m]]
  /\ \A m, l \in DOMAIN t : m < l <=> mv[m] < mv[l]
  /\ \A n \in Retrieval!EligibleOf(s, q) : \E m \in DOMAIN t : mv[m] = n
  /\ e.ok => \A m \in DOMAIN t : d.score[m] = e.score[mv[m]]

LEMMA EligiblesMove ==
  ASSUME NEW s, NEW e, NEW t, NEW d, NEW mv, NEW q, Moves(s, e, t, d, mv, q)
  PROVE  /\ \A m \in DOMAIN t : m \in Retrieval!EligibleOf(t, q) <=> mv[m] \in Retrieval!EligibleOf(s, q)
         /\ \A m, l \in DOMAIN t : mv[m] = mv[l] => m = l
         /\ \A m \in DOMAIN t : t[m] = s[mv[m]] /\ t[m].len \in Nat
         /\ \A n \in Retrieval!EligibleOf(s, q) : \E m \in Retrieval!EligibleOf(t, q) : mv[m] = n
         /\ Retrieval!EligibleOf(t, q) \subseteq DOMAIN t /\ Retrieval!EligibleOf(s, q) \subseteq DOMAIN s
         /\ IsFiniteSet(Retrieval!EligibleOf(t, q)) /\ IsFiniteSet(Retrieval!EligibleOf(s, q))
         /\ DOMAIN t \subseteq Nat /\ DOMAIN s \subseteq Nat /\ DOMAIN mv = DOMAIN t
<1>1. DOMAIN t \subseteq Nat /\ DOMAIN s \subseteq Nat /\ DOMAIN mv = DOMAIN t
  BY DEF Moves, IsStore
<1>2. \A m \in DOMAIN t : m \in Retrieval!EligibleOf(t, q) <=> mv[m] \in Retrieval!EligibleOf(s, q)
  BY DEF Moves, Retrieval!EligibleOf
<1>3. ASSUME NEW m \in DOMAIN t, NEW l \in DOMAIN t, mv[m] = mv[l] PROVE m = l
  <2>1. m \in Nat /\ l \in Nat /\ mv[m] \in Nat
    BY <1>1 DEF Moves
  <2>2. ~(m < l) /\ ~(l < m)
    BY <1>3, <2>1 DEF Moves
  <2> QED BY <2>1, <2>2
<1>4. IsFiniteSet(Retrieval!EligibleOf(t, q)) /\ IsFiniteSet(Retrieval!EligibleOf(s, q))
  BY RanksIn DEF Moves
<1>5. Retrieval!EligibleOf(t, q) \subseteq DOMAIN t /\ Retrieval!EligibleOf(s, q) \subseteq DOMAIN s
  BY DEF Retrieval!EligibleOf
<1>6. ASSUME NEW m \in DOMAIN t PROVE t[m] = s[mv[m]] /\ t[m].len \in Nat
  <2>1. t[m] \in Library
    BY DEF Moves, IsStore
  <2> QED BY <2>1, RetrievalAssumption DEF Moves
<1>7. ASSUME NEW n \in Retrieval!EligibleOf(s, q) PROVE \E m \in Retrieval!EligibleOf(t, q) : mv[m] = n
  <2>1. PICK m \in DOMAIN t : mv[m] = n
    BY DEF Moves
  <2> QED BY <1>2, <2>1
<1> QED BY <1>1, <1>2, <1>3, <1>4, <1>5, <1>6, <1>7

\* Sets of eligible cards that are the same are equally large.
LEMMA SetsMove ==
  ASSUME NEW s, NEW e, NEW t, NEW d, NEW mv, NEW q, Moves(s, e, t, d, mv, q),
         NEW A \in SUBSET Retrieval!EligibleOf(t, q), NEW B \in SUBSET Retrieval!EligibleOf(s, q),
         \A m \in Retrieval!EligibleOf(t, q) : m \in A <=> mv[m] \in B
  PROVE  Cardinality(A) = Cardinality(B)
<1>1. IsFiniteSet(A)
  BY EligiblesMove, FS_Subset
<1>2. A \subseteq DOMAIN mv
  BY EligiblesMove
<1>3. \A a \in A : mv[a] \in B
  OBVIOUS
<1>4. \A a, c \in A : mv[a] = mv[c] => a = c
  BY EligiblesMove
<1>5. \A b \in B : \E a \in A : mv[a] = b
  BY EligiblesMove
<1> QED BY <1>1, <1>2, <1>3, <1>4, <1>5, RenamedSize

\* The eligible cards are as long together.
LEMMA CharactersMove ==
  ASSUME NEW s, NEW e, NEW t, NEW d, NEW mv, NEW q, Moves(s, e, t, d, mv, q)
  PROVE  Retrieval!Characters(t, Retrieval!EligibleOf(t, q)) = Retrieval!Characters(s, Retrieval!EligibleOf(s, q))
<1> DEFINE E == Retrieval!EligibleOf(t, q)
           F == Retrieval!EligibleOf(s, q)
           T(m) == {m} \X (1 .. t[m].len)
           A == UNION {{m} \X (1 .. t[m].len) : m \in E}
           B == UNION {{m} \X (1 .. s[m].len) : m \in F}
           f == [p \in A |-> <<mv[p[1]], p[2]>>]
<1>1. IsFiniteSet(A)
  <2> DEFINE S == {{m} \X (1 .. t[m].len) : m \in E}
             g == [m \in E |-> T(m)]
  <2>1. IsFiniteSet(E)
    BY EligiblesMove
  <2>2. g \in Surjection(E, S)
    BY DEF Surjection
  <2>3. IsFiniteSet(S)
    <3> HIDE DEF E, S, g
    <3> QED BY <2>1, <2>2, FS_Surjection
  <2>4. ASSUME NEW m \in E PROVE IsFiniteSet(T(m))
    <3>1. t[m].len \in Nat
      BY EligiblesMove
    <3>2. \A a, b \in Int : IsFiniteSet(a .. b)
      BY FS_Interval
    <3>3. IsFiniteSet({m}) /\ IsFiniteSet(1 .. t[m].len)
      <4> DEFINE k == t[m].len
      <4>1. k \in Int /\ 1 \in Int
        BY <3>1
      <4> HIDE DEF k
      <4>2. IsFiniteSet(1 .. k)
        BY <3>2, <4>1
      <4> QED BY <4>2, FS_Singleton DEF k
    <3> QED BY <3>3, FS_Product
  <2>5. \A X \in S : IsFiniteSet(X)
    BY <2>4
  <2>6. IsFiniteSet(UNION S)
    <3> HIDE DEF S
    <3> QED BY <2>3, <2>5, FS_UNION
  <2> QED BY <2>6
<1>2. \A p : p \in A <=> p = <<p[1], p[2]>> /\ p[1] \in E /\ p[2] \in 1 .. t[p[1]].len
  OBVIOUS
<1>3. \A p : p \in B <=> p = <<p[1], p[2]>> /\ p[1] \in F /\ p[2] \in 1 .. s[p[1]].len
  OBVIOUS
<1>4. /\ \A m \in E : mv[m] \in F /\ t[m] = s[mv[m]]
      /\ \A m, l \in E : mv[m] = mv[l] => m = l
      /\ \A n \in F : \E m \in E : mv[m] = n
  BY EligiblesMove
<1> HIDE DEF A, B, E, F
<1>5. ASSUME NEW p \in A PROVE f[p] \in B
  <2>1. f[p] = <<mv[p[1]], p[2]>> /\ p[1] \in E /\ p[2] \in 1 .. t[p[1]].len
    BY <1>2
  <2>2. mv[p[1]] \in F /\ p[2] \in 1 .. s[mv[p[1]]].len
    BY <1>4, <2>1
  <2>3. f[p][1] = mv[p[1]] /\ f[p][2] = p[2] /\ f[p] = <<f[p][1], f[p][2]>>
    BY <2>1
  <2> HIDE DEF f
  <2> QED BY <1>3, <2>2, <2>3
<1>6. ASSUME NEW p \in A, NEW r \in A, f[p] = f[r] PROVE p = r
  <2>1. mv[p[1]] = mv[r[1]] /\ p[2] = r[2]
    BY <1>6
  <2>2. p[1] \in E /\ r[1] \in E /\ p = <<p[1], p[2]>> /\ r = <<r[1], r[2]>>
    BY <1>2
  <2>3. p[1] = r[1]
    BY <1>4, <2>1, <2>2
  <2> QED BY <2>1, <2>2, <2>3
<1>7. ASSUME NEW b \in B PROVE \E p \in A : f[p] = b
  <2>1. b = <<b[1], b[2]>> /\ b[1] \in F /\ b[2] \in 1 .. s[b[1]].len
    BY <1>3
  <2>2. PICK m \in E : mv[m] = b[1]
    BY <1>4, <2>1
  <2> DEFINE p == <<m, b[2]>>
  <2>3. p[1] = m /\ p[2] = b[2]
    OBVIOUS
  <2>4. p \in A
    BY <1>2, <1>4, <2>1, <2>2
  <2>5. f[p] = b
    BY <2>1, <2>2, <2>3, <2>4
  <2> QED BY <2>4, <2>5
<1>8. DOMAIN f = A
  OBVIOUS
<1>9. Cardinality(A) = Cardinality(B)
  <2> HIDE DEF f
  <2> QED BY <1>1, <1>5, <1>6, <1>7, <1>8, RenamedSize
<1> QED BY <1>9 DEF Retrieval!Characters, Retrieval!Cardinality, Cardinality, A, B, E, F

\* Every channel scores a card as before.
LEMMA ScoresMove ==
  ASSUME NEW s, NEW e, NEW t, NEW d, NEW mv, NEW q, Moves(s, e, t, d, mv, q),
         NEW m \in Retrieval!EligibleOf(t, q), NEW ch \in Retrieval!Channels(e)
  PROVE  Retrieval!Score(ch, t, q, d, m) = Retrieval!Score(ch, s, q, e, mv[m])
<1> DEFINE E == Retrieval!EligibleOf(t, q)
           F == Retrieval!EligibleOf(s, q)
           W == q.words \cap Retrieval!Words(t[m])
           A(w) == {x \in E : w \in Retrieval!Words(t[x])}
           B(w) == {y \in F : w \in Retrieval!Words(s[y])}
           f == [w \in W |-> Cardinality(A(w))]
           g == [w \in W |-> Cardinality(B(w))]
           G(c, count, total, h) == Retrieval!SumOver([w \in W |-> Retrieval!Bm25Term(c, w, count, total, h[w])], W)
<1>1. t[m] = s[mv[m]]
  BY EligiblesMove
<1>2. Retrieval!KeywordScore(t, q, m) = Retrieval!KeywordScore(s, q, mv[m])
  BY <1>1 DEF Retrieval!KeywordScore
<1>3. Retrieval!NgramScore(t, q, m) = Retrieval!NgramScore(s, q, mv[m])
  BY <1>1 DEF Retrieval!NgramScore
<1>4. Cardinality(E) = Cardinality(F)
  BY EligiblesMove, SetsMove
<1>5. Retrieval!Characters(t, E) = Retrieval!Characters(s, F)
  BY CharactersMove
<1>6. f = g
  <2>1. ASSUME NEW w PROVE Cardinality(A(w)) = Cardinality(B(w))
    <3>1. \A x \in E : t[x] = s[mv[x]] /\ mv[x] \in F
      BY EligiblesMove
    <3>2. A(w) \in SUBSET E /\ B(w) \in SUBSET F /\ \A x \in E : x \in A(w) <=> mv[x] \in B(w)
      BY <3>1
    <3> HIDE DEF A, B
    <3> QED BY <3>2, SetsMove
  <2> QED BY <2>1
<1>7. Retrieval!Bm25Score(t, q, m) = G(t[m], Cardinality(E), Retrieval!Characters(t, E), f)
  BY DEF Retrieval!Bm25Score, Retrieval!Bm25Corpus, Retrieval!Cardinality, Cardinality
<1>8. Retrieval!Bm25Score(s, q, mv[m]) = G(s[mv[m]], Cardinality(F), Retrieval!Characters(s, F), g)
  BY <1>1 DEF Retrieval!Bm25Score, Retrieval!Bm25Corpus, Retrieval!Cardinality, Cardinality
<1>9. Retrieval!Bm25Score(t, q, m) = Retrieval!Bm25Score(s, q, mv[m])
  <2> HIDE DEF E, F, f, g, G
  <2> QED BY <1>1, <1>4, <1>5, <1>6, <1>7, <1>8
<1>10. ch = "embedding" => d.score[m] = e.score[mv[m]]
  <2>1. m \in DOMAIN t
    BY EligiblesMove
  <2>2. ch = "embedding" => e.ok
    BY DEF Retrieval!Channels, Retrieval!Lexical
  <2> QED BY <2>1, <2>2 DEF Moves
<1>11. ch \in AllChannels
  BY DEF Retrieval!Channels, Retrieval!Lexical, AllChannels
<1> QED BY <1>2, <1>3, <1>9, <1>10, <1>11 DEF Retrieval!Score, AllChannels

\* The cards keep their ranks,
LEMMA RanksMove ==
  ASSUME NEW s, NEW e, NEW t, NEW d, NEW mv, NEW q, Moves(s, e, t, d, mv, q),
         NEW m \in Retrieval!EligibleOf(t, q), NEW ch \in Retrieval!Channels(e)
  PROVE  Retrieval!Rank(t, q, d, ch, m) = Retrieval!Rank(s, q, e, ch, mv[m])
<1> DEFINE E == Retrieval!EligibleOf(t, q)
           F == Retrieval!EligibleOf(s, q)
           u == Retrieval!ScoresOf(t, q, d, ch)
           v == Retrieval!ScoresOf(s, q, e, ch)
           A == {x \in E : Retrieval!Precedes(t, u, x, m)}
           B == {y \in F : Retrieval!Precedes(s, v, y, mv[m])}
<1>1. \A x \in E : x \in DOMAIN t /\ mv[x] \in F /\ t[x] = s[mv[x]]
  BY EligiblesMove
<1>2. DOMAIN u = E /\ DOMAIN v = F
  BY DEF Retrieval!ScoresOf
<1>3. \A x \in E : u[x] = v[mv[x]]
  <2> SUFFICES ASSUME NEW x \in E PROVE u[x] = v[mv[x]]
    OBVIOUS
  <2>1. u[x] = Retrieval!Score(ch, t, q, d, x) /\ v[mv[x]] = Retrieval!Score(ch, s, q, e, mv[x])
    BY <1>1 DEF Retrieval!ScoresOf
  <2> QED BY <2>1, ScoresMove
<1>4. \A x, y \in DOMAIN t : x < y <=> mv[x] < mv[y]
  BY DEF Moves
<1> HIDE DEF u, v
<1>5. \A x \in E : Retrieval!Precedes(t, u, x, m) <=> Retrieval!Precedes(s, v, mv[x], mv[m])
  <2> HIDE DEF E, F
  <2>1. m \in E
    BY DEF E
  <2> QED BY <2>1, <1>1, <1>3, <1>4 DEF Retrieval!Precedes
<1>6. Cardinality(A) = Cardinality(B)
  <2>1. A \in SUBSET E /\ B \in SUBSET F /\ \A x \in E : x \in A <=> mv[x] \in B
    BY <1>1, <1>5
  <2> HIDE DEF A, B
  <2> QED BY <2>1, SetsMove
<1>7. Retrieval!RankIn(t, u, m) = IF u[m] = 0 THEN 0 ELSE 1 + Cardinality(A)
  <2>1. A = {x \in DOMAIN u : Retrieval!Precedes(t, u, x, m)}
    BY <1>2
  <2> HIDE DEF A
  <2> QED BY <2>1 DEF Retrieval!RankIn, Retrieval!Cardinality, Cardinality
<1>8. Retrieval!RankIn(s, v, mv[m]) = IF v[mv[m]] = 0 THEN 0 ELSE 1 + Cardinality(B)
  <2>1. B = {y \in DOMAIN v : Retrieval!Precedes(s, v, y, mv[m])}
    BY <1>2
  <2> HIDE DEF B
  <2> QED BY <2>1 DEF Retrieval!RankIn, Retrieval!Cardinality, Cardinality
<1>9. u[m] = v[mv[m]]
  BY <1>3
<1>10. Retrieval!RankIn(t, u, m) = Retrieval!RankIn(s, v, mv[m])
  <2> HIDE DEF A, B
  <2> QED BY <1>6, <1>7, <1>8, <1>9
<1> QED BY <1>10 DEF Retrieval!Rank, u, v

\* and their fusion.
LEMMA FusionMoves ==
  ASSUME NEW s, NEW e, NEW t, NEW d, NEW mv, NEW q, Moves(s, e, t, d, mv, q),
         NEW m \in Retrieval!EligibleOf(t, q)
  PROVE  Retrieval!Fusion(t, q, d, m) = Retrieval!Fusion(s, q, e, mv[m])
<1>1. IsStore(s) /\ IsStore(t) /\ e.ok \in BOOLEAN /\ d.ok = e.ok
  BY DEF Moves
<1>2. Retrieval!Channels(e) = IF e.ok THEN AllChannels ELSE AllChannels \ {"embedding"}
  BY <1>1, FusionIs
<1>3. \A ch \in Retrieval!Channels(e) : Part(t, q, d, ch, m) = Part(s, q, e, ch, mv[m])
  BY RanksMove DEF Part
<1>4. /\ Part(t, q, d, "keyword", m) = Part(s, q, e, "keyword", mv[m])
      /\ Part(t, q, d, "bm25", m) = Part(s, q, e, "bm25", mv[m])
      /\ Part(t, q, d, "ngram", m) = Part(s, q, e, "ngram", mv[m])
      /\ e.ok => Part(t, q, d, "embedding", m) = Part(s, q, e, "embedding", mv[m])
  BY <1>2, <1>3 DEF AllChannels
<1>5. Retrieval!Fusion(t, q, d, m) =
        Part(t, q, d, "keyword", m) + Part(t, q, d, "bm25", m) + Part(t, q, d, "ngram", m)
          + (IF d.ok THEN Part(t, q, d, "embedding", m) ELSE 0)
  BY <1>1, FusionIs
<1>6. Retrieval!Fusion(s, q, e, mv[m]) =
        Part(s, q, e, "keyword", mv[m]) + Part(s, q, e, "bm25", mv[m]) + Part(s, q, e, "ngram", mv[m])
          + (IF e.ok THEN Part(s, q, e, "embedding", mv[m]) ELSE 0)
  BY <1>1, FusionIs
<1> QED BY <1>1, <1>4, <1>5, <1>6

\* So the relevant cards come in the same order.
LEMMA OrderMoves ==
  ASSUME NEW s, NEW e, NEW t, NEW d, NEW mv, NEW q, Moves(s, e, t, d, mv, q)
  PROVE  /\ Cardinality(Relevant(t, q, d)) = Cardinality(Relevant(s, q, e))
         /\ \A j \in 1 .. Cardinality(Relevant(t, q, d)) : Ordered(s, q, e)[j] = mv[Ordered(t, q, d)[j]]
<1> DEFINE E == Retrieval!EligibleOf(t, q)
           F == Retrieval!EligibleOf(s, q)
           I == Relevant(t, q, d)
           J == Relevant(s, q, e)
           u == Fused(t, q, d)
           v == Fused(s, q, e)
           N == Cardinality(I)
           O == Ordered(t, q, d)
           P == Ordered(s, q, e)
<1>1. IsStore(s) /\ IsStore(t) /\ e.ok \in BOOLEAN /\ d.ok \in BOOLEAN
  BY DEF Moves
<1>2. \A m \in E : m \in DOMAIN t /\ mv[m] \in F /\ t[m] = s[mv[m]] /\ u[m] = v[mv[m]]
  <2>1. \A m \in E : m \in DOMAIN t /\ mv[m] \in F /\ t[m] = s[mv[m]]
    BY EligiblesMove
  <2>2. \A m \in E : u[m] = Retrieval!Fusion(t, q, d, m)
    BY DEF Fused
  <2>3. \A m \in E : v[mv[m]] = Retrieval!Fusion(s, q, e, mv[m])
    BY <2>1 DEF Fused
  <2> QED BY <2>1, <2>2, <2>3, FusionMoves
<1>3. /\ I \in SUBSET E /\ J \in SUBSET F
      /\ \A m \in E : m \in I <=> mv[m] \in J
  BY <1>2, FusionMoves DEF Relevant
<1>4. N = Cardinality(J)
  <2> HIDE DEF I, J
  <2> QED BY <1>3, SetsMove
<1>5. \A x, y \in DOMAIN t : x < y <=> mv[x] < mv[y]
  BY DEF Moves
<1>6. \A x, y \in E : Retrieval!FusedBefore(t, u, x, y) <=> Retrieval!FusedBefore(s, v, mv[x], mv[y])
  <2> HIDE DEF E, F, u, v
  <2> QED BY <1>2, <1>5 DEF Retrieval!FusedBefore, Retrieval!Precedes
<1>7. ASSUME NEW m \in I PROVE Cardinality(Before(t, u, I, m)) = Cardinality(Before(s, v, J, mv[m]))
  <2> DEFINE A == Before(t, u, I, m)
             B == Before(s, v, J, mv[m])
  <2>1. A \in SUBSET E /\ B \in SUBSET F
    BY <1>3 DEF Before
  <2>2. \A x \in E : x \in A <=> mv[x] \in B
    <3> HIDE DEF I, J, u, v, E, F
    <3>1. m \in E
      BY <1>3
    <3>2. \A x : x \in A <=> x \in I /\ Retrieval!FusedBefore(t, u, x, m)
      BY DEF Before
    <3>3. \A y : y \in B <=> y \in J /\ Retrieval!FusedBefore(s, v, y, mv[m])
      BY DEF Before
    <3> HIDE DEF A, B
    <3> QED BY <1>3, <1>6, <3>1, <3>2, <3>3
  <2>3. Cardinality(A) = Cardinality(B)
    <3> HIDE DEF A, B
    <3> QED BY <2>1, <2>2, SetsMove
  <2> QED BY <2>3
<1>8. \A j \in 1 .. N : O[j] \in I /\ Cardinality(Before(t, u, I, O[j])) = j - 1
  <2>1. I \in SUBSET DOMAIN t /\ \A i \in I : u[i] \in Nat
    BY <1>1, RelevantAre
  <2>2. O = Retrieval!InOrder(t, u, I)
    BY DEF Ordered
  <2> HIDE DEF O, I, u
  <2> QED BY <1>1, <2>1, <2>2, InOrderIs
<1>9. \A i \in J : Cardinality(Before(s, v, J, i)) \in Nat /\ P[Cardinality(Before(s, v, J, i)) + 1] = i
  <2>1. J \in SUBSET DOMAIN s /\ \A i \in J : v[i] \in Nat
    BY <1>1, RelevantAre
  <2>2. P = Retrieval!InOrder(s, v, J)
    BY DEF Ordered
  <2>3. \A i \in J : Cardinality(Before(s, v, J, i)) \in 0 .. (Cardinality(J) - 1) /\ P[Cardinality(Before(s, v, J, i)) + 1] = i
    <3> HIDE DEF P, J, v
    <3> QED BY <1>1, <2>1, <2>2, InOrderIs
  <2> HIDE DEF P, J, v
  <2> QED BY <2>3
<1>10. ASSUME NEW j \in 1 .. N PROVE P[j] = mv[O[j]]
  <2> DEFINE m == O[j]
  <2>1. m \in I /\ mv[m] \in J /\ Cardinality(Before(s, v, J, mv[m])) = j - 1
    <3> HIDE DEF I, J, u, v, E, F, O, N
    <3> QED BY <1>3, <1>7, <1>8
  <2>2. P[(j - 1) + 1] = mv[m]
    <3> HIDE DEF I, J, v, P, m
    <3> QED BY <1>9, <2>1
  <2>3. (j - 1) + 1 = j
    OBVIOUS
  <2> QED BY <2>2, <2>3
<1> QED BY <1>4, <1>10

LEMMA RefusedLeavesNoTrace ==
  ASSUME RetrievalInv
  PROVE  Retrieval!RefusedLeaveNoTrace
<1> SUFFICES ASSUME Retrieval!Done, NEW n \in DOMAIN x1, ~Retrieval!Eligible(x1[n], x2)
             PROVE  LET without == [m \in 1 .. Size - 1 |-> IF m < n THEN x1[m] ELSE x1[m + 1]]
                        moved == [m \in 1 .. Size - 1 |-> IF m < n THEN m ELSE m + 1]
                        scores == IF x3.ok
                                  THEN [ok |-> TRUE, score |-> [m \in 1 .. Size - 1 |-> x3.score[moved[m]]]]
                                  ELSE x3
                        answer == Retrieval!Retrieved(without, x2, scores)
                    IN  x4 = [k \in DOMAIN answer |-> moved[answer[k]]]
  BY DEF Retrieval!RefusedLeaveNoTrace
<1> DEFINE without == [m \in 1 .. Size - 1 |-> IF m < n THEN x1[m] ELSE x1[m + 1]]
           moved == [m \in 1 .. Size - 1 |-> IF m < n THEN m ELSE m + 1]
           scores == IF x3.ok
                     THEN [ok |-> TRUE, score |-> [m \in 1 .. Size - 1 |-> x3.score[moved[m]]]]
                     ELSE x3
           answer == Retrieval!Retrieved(without, x2, scores)
           O == Ordered(without, x2, scores)
           P == Ordered(x1, x2, x3)
           M == Taken(x1, x2, x3)
           N == Cardinality(Relevant(x1, x2, x3))
<1>1. /\ IsStore(x1) /\ x1 \in [1 .. Size -> Library] /\ Size \in 0 .. 3
      /\ x2.limit \in Nat /\ x3.ok \in BOOLEAN /\ x4 = Retrieval!Retrieved(x1, x2, x3)
  BY RetrievalIs, RetrievalAssumption DEF RetrievalInv
<1>2. n \in 1 .. Size
  BY <1>1
<1>3. \A m \in 1 .. Size - 1 : /\ moved[m] \in 1 .. Size /\ moved[m] = (IF m < n THEN m ELSE m + 1)
                               /\ without[m] = x1[moved[m]]
  BY <1>1, <1>2
<1>4. Moves(x1, x3, without, scores, moved, x2)
  <2>1. IsStore(without) /\ DOMAIN without = 1 .. Size - 1
    <3>1. \A m \in 1 .. Size - 1 : without[m] \in Library
      BY <1>1, <1>3
    <3>2. without \in [1 .. Size - 1 -> Library]
      BY <3>1
    <3>3. Size - 1 \in 0 .. 3
      BY <1>1, <1>2
    <3> HIDE DEF without
    <3> QED BY <3>2, <3>3 DEF IsStore
  <2>2. scores.ok = x3.ok
    BY <1>1
  <2>3. x3.ok => \A m \in 1 .. Size - 1 : scores.score[m] = x3.score[moved[m]]
    OBVIOUS
  <2>4. \A m, l \in 1 .. Size - 1 : m < l <=> moved[m] < moved[l]
    <3> HIDE DEF moved, without
    <3> QED BY <1>1, <1>2, <1>3
  <2>5. \A i \in Retrieval!EligibleOf(x1, x2) : \E m \in 1 .. Size - 1 : moved[m] = i
    <3> SUFFICES ASSUME NEW i \in Retrieval!EligibleOf(x1, x2) PROVE \E m \in 1 .. Size - 1 : moved[m] = i
      OBVIOUS
    <3>1. i \in 1 .. Size /\ i # n
      BY <1>1 DEF Retrieval!EligibleOf
    <3>2. CASE i < n
      BY <1>1, <1>2, <3>1, <3>2
    <3>3. CASE n < i
      <4>1. i - 1 \in 1 .. Size - 1 /\ ~(i - 1 < n) /\ (i - 1) + 1 = i
        BY <1>1, <1>2, <3>1, <3>3
      <4> QED BY <4>1
    <3> QED BY <1>1, <1>2, <3>1, <3>2, <3>3
  <2>6. DOMAIN moved = 1 .. Size - 1 /\ DOMAIN x1 = 1 .. Size
    BY <1>1
  <2> HIDE DEF without, moved, scores
  <2> QED BY <1>1, <1>3, <2>1, <2>2, <2>3, <2>4, <2>5, <2>6 DEF Moves
<1>5. IsStore(without) /\ scores.ok \in BOOLEAN
  <2> HIDE DEF without, moved, scores
  <2> QED BY <1>4 DEF Moves
<1> HIDE DEF without, moved, scores
<1>6. /\ Cardinality(Relevant(without, x2, scores)) = N
      /\ \A j \in 1 .. N : P[j] = moved[O[j]]
  BY <1>4, OrderMoves
<1>7. M \in 0 .. N /\ N \in Nat /\ x4 = [j \in 1 .. M |-> P[j]]
  BY <1>1, RetrievedIs
<1>8. answer = [j \in 1 .. M |-> O[j]]
  <2>1. Retrieval!Retrieved(without, x2, scores) = [j \in 1 .. Taken(without, x2, scores) |-> Ordered(without, x2, scores)[j]]
    BY <1>1, <1>5, RetrievedIs
  <2>2. Taken(without, x2, scores) = M
    BY <1>6 DEF Taken
  <2> QED BY <2>1, <2>2
<1> HIDE DEF answer, O, P, M, N
<1>9. \A j \in 1 .. M : x4[j] = moved[answer[j]]
  BY <1>6, <1>7, <1>8
<1>10. x4 = [k \in DOMAIN answer |-> moved[answer[k]]]
  BY <1>7, <1>8, <1>9
<1> QED BY <1>10 DEF without, moved, scores, answer

-----------------------------------------------------------------------------
(* The slots: what is proved of every part, where it acts                   *)

SlotsInv ==
  /\ part = "gate" => GateInv
  /\ part = "backfill" => BackfillInv
  /\ part = "closure" => ClosureInv
  /\ part = "evaluation" => EvaluationInv
  /\ part = "retention" => RetentionInv
  /\ part \in {"episode", "report"} => EpisodeInv
  /\ part = "throttle" => ThrottleInv
  /\ part = "retrieval" => RetrievalInv

LEMMA SlotsStart == AllInit => SlotsInv
<1> SUFFICES ASSUME AllInit PROVE SlotsInv
  OBVIOUS
<1>1. SlotsInit
  BY DEF AllInit
<1>2. part = "backfill" => BackfillInv
  BY <1>1, BackfillInit DEF SlotsInit
<1>3. part = "closure" => ClosureInv
  BY <1>1, ClosureInit DEF SlotsInit
<1>4. part = "evaluation" => EvaluationInv
  BY <1>1, EvaluationInit DEF SlotsInit
<1>5. part = "retention" => RetentionInv
  BY <1>1, RetentionInit DEF SlotsInit
<1>6. part \in {"episode", "report"} => EpisodeInv
  BY <1>1, EpisodeStarts DEF SlotsInit
<1>7. part = "throttle" => ThrottleInv
  BY <1>1, ThrottleInit DEF SlotsInit
<1>8. part = "gate" => GateInv
  BY <1>1, GateStarts DEF SlotsInit
<1>9. part = "retrieval" => RetrievalInv
  BY <1>1, RetrievalStarts DEF SlotsInit
<1> QED BY <1>2, <1>3, <1>4, <1>5, <1>6, <1>7, <1>8, <1>9 DEF SlotsInv

\* Another part's step, or none, leaves what the slots hold.
LEMMA SlotsStutter == SlotsInv /\ UNCHANGED <<part, slots>> => SlotsInv'
<1> SUFFICES ASSUME SlotsInv, UNCHANGED <<part, slots>> PROVE SlotsInv'
  OBVIOUS
<1>1. /\ part' = part /\ x1' = x1 /\ x2' = x2 /\ x3' = x3 /\ x4' = x4
      /\ x5' = x5 /\ x6' = x6 /\ x7' = x7 /\ x8' = x8
  BY DEF slots
<1>2. BackfillInv => BackfillInv'
  BY <1>1 DEF BackfillInv, Backfill!TypeOK, Backfill!BackfillsAreClean, Settled, Backfill!Concerned
<1>3. ClosureInv => ClosureInv'
  <2>1. Closure!Receipt' = Closure!Receipt
    BY <1>1 DEF Closure!Receipt, Closure!RecoveryStatus, Closure!Recovered, Closure!Disposition,
       Closure!Regressed, Closure!ParentCodes, Closure!ChildCodes, Closure!ParentKeys, Closure!AtomicKeys,
       Closure!Closed, Closure!Open, Closure!FinalStatus
  <2> QED BY <1>1, <2>1 DEF ClosureInv
<1>4. EvaluationInv => EvaluationInv'
  BY <1>1 DEF EvaluationInv, Fits, MeasuredBy, NoWorseBy, Evaluation!Counts
<1>5. RetentionInv => RetentionInv'
  <2>1. Retention!RetainedHigher(x6)' <=> Retention!RetainedHigher(x6)
    BY <1>1 DEF Retention!RetainedHigher, Retention!Retained, Retention!Stages, Retention!Forgetting,
       Retention!History, Retention!Final, Retention!Prior
  <2> QED BY <1>1, <2>1 DEF RetentionInv
<1>6. EpisodeInv => EpisodeInv'
  BY <1>1 DEF EpisodeInv, WorkerAt
<1>7. ThrottleInv => ThrottleInv'
  BY <1>1 DEF ThrottleInv, Typed
<1>8. GateInv => GateInv'
  <2>1. Gate!PassIsEarned' <=> Gate!PassIsEarned
    BY <1>1 DEF Gate!PassIsEarned
  <2>2. Gate!BrokenEvidenceDefers' <=> Gate!BrokenEvidenceDefers
    BY <1>1 DEF Gate!BrokenEvidenceDefers, Gate!BlockRelease
  <2>3. Gate!VetoIsNeverCounterfactual' <=> Gate!VetoIsNeverCounterfactual
    BY <1>1 DEF Gate!VetoIsNeverCounterfactual, Gate!RequiredChecks
  <2>4. GateInputs' <=> GateInputs
    BY <1>1 DEF GateInputs, Gate!Findings, Gate!Traces, Gate!Actions, Gate!Evidence
  <2> QED BY <1>1, <2>1, <2>2, <2>3, <2>4 DEF GateInv
<1>9. RetrievalInv => RetrievalInv'
  BY <1>1 DEF RetrievalInv, Retrieval!NotYet
<1> QED BY <1>1, <1>2, <1>3, <1>4, <1>5, <1>6, <1>7, <1>8, <1>9 DEF SlotsInv

LEMMA SlotsStep == SlotsInv /\ [AllNext]_allVars => SlotsInv'
<1> SUFFICES ASSUME SlotsInv, [AllNext]_allVars PROVE SlotsInv'
  OBVIOUS
<1>1. CASE UNCHANGED allVars
  BY <1>1, SlotsStutter DEF allVars
<1>2. CASE ProfilesStep
  BY <1>2, SlotsStutter DEF ProfilesStep
<1>3. CASE BackfillStep
  <2>1. part = "backfill" /\ part' = part /\ Backfill!Next
    BY <1>3 DEF BackfillStep
  <2> QED BY <2>1, BackfillSteps DEF SlotsInv
<1>4. CASE ClosureStep
  <2>1. part = "closure" /\ part' = part /\ Closure!Next
    BY <1>4 DEF ClosureStep
  <2> QED BY <2>1, ClosureSteps DEF SlotsInv
<1>5. CASE EvaluationStep
  <2>1. part = "evaluation" /\ part' = part /\ Evaluation!Next
    BY <1>5 DEF EvaluationStep
  <2> QED BY <2>1, EvaluationSteps DEF SlotsInv
<1>6. CASE RetentionStep
  <2>1. part = "retention" /\ part' = part /\ Retention!Next
    BY <1>6 DEF RetentionStep
  <2> QED BY <2>1, RetentionSteps DEF SlotsInv
<1>7. CASE EpisodeStep
  <2>1. part \in {"episode", "report"} /\ part' = part /\ Episode!Next
    BY <1>7 DEF EpisodeStep
  <2> QED BY <2>1, EpisodeSteps DEF SlotsInv
<1>8. CASE ThrottleStep
  <2>1. part = "throttle" /\ part' = part /\ Throttle!Next
    BY <1>8 DEF ThrottleStep
  <2> QED BY <2>1, ThrottleSteps DEF SlotsInv
<1>9. CASE RetrievalStep
  <2>1. part = "retrieval" /\ part' = part /\ Retrieval!Next
    BY <1>9 DEF RetrievalStep
  <2> QED BY <2>1, RetrievalSteps DEF SlotsInv
<1>10. CASE GateStep
  <2>1. part = "gate" /\ part' = part /\ Gate!Next
    BY <1>10 DEF GateStep
  <2> QED BY <2>1, GateSteps DEF SlotsInv
<1> QED BY <1>1, <1>2, <1>3, <1>4, <1>5, <1>6, <1>7, <1>8, <1>9, <1>10 DEF AllNext

LEMMA SlotsHold == AllSpec => []SlotsInv
BY SlotsStart, SlotsStep, PTL DEF AllSpec

\* A derived version and the receipt of a case: replacements are no duplicates
\* of anything in the version, an order that is not reported open had all its
\* samples replaced, the validator accepts every receipt the service builds,
\* and only a case whose orders are all closed is recovered
\* (build_omni_derived_version, execute_remediation_plan).
THEOREM CasesAreClosedClean == AllSpec => []CasesCloseClean
<1>1. SlotsInv => CasesCloseClean
  <2> SUFFICES ASSUME SlotsInv PROVE CasesCloseClean
    OBVIOUS
  <2>1. part = "backfill" => Backfill!TypeOK /\ Backfill!BackfillsAreClean /\ Backfill!ResolvedIsReplaced
    BY BackfillResolved DEF SlotsInv, BackfillInv
  <2>2. part = "closure" => Closure!ReceiptAccepted /\ Closure!RecoveredIsWhole /\ Closure!ClosedIsGone
    BY ClosureHolds DEF SlotsInv
  <2> QED BY <2>1, <2>2 DEF CasesCloseClean
<1> QED BY <1>1, SlotsHold, PTL

\* The verdicts on models: no candidate is approved on a split that does not
\* measure it, no category is lost over any number of approvals, no earlier
\* peak is forgotten beyond the limit, the two directions of a metric agree,
\* and a report that is kept puts no worse guard result into effect
\* (evaluate_models, evaluate_continual_retention, _validated_report).
THEOREM VerdictsAreSound == AllSpec => []ModelsAreJudged
<1>1. SlotsInv => ModelsAreJudged
  <2> SUFFICES ASSUME SlotsInv PROVE ModelsAreJudged
    OBVIOUS
  <2>1. part = "evaluation" => Evaluation!UnmeasuredIsHeld /\ Evaluation!NoCategoryIsTraded
    BY EvaluationHolds DEF SlotsInv
  <2>2. part = "retention" => Retention!NoPeakIsForgotten /\ Retention!DirectionsAgree
    BY PeaksAreKept, DirectionsMeet DEF SlotsInv
  <2>3. part \in {"episode", "report"} => Episode!EffectiveIsNoWorse
    BY EpisodeHolds DEF SlotsInv
  <2>4. part = "episode" => Episode!MeasuredIsKeptButFor
    BY EpisodeHolds DEF SlotsInv
  <2> QED BY <2>1, <2>2, <2>3, <2>4 DEF ModelsAreJudged
<1> QED BY <1>1, SlotsHold, PTL

\* The throttle of the identity routes: less than two windows' worth of hits of
\* a scope and key pass in any window, or two windows' worth in a span shorter
\* by the longest wait for the database lock when requests come with a clock
\* read before, and whoever waits for Retry-After finds the window that
\* refused ended (IdentityService.throttle).
THEOREM LoginsAreThrottled == AllSpec => []ThrottleHolds
<1>1. SlotsInv => ThrottleHolds
  BY ThrottleKeeps DEF SlotsInv, ThrottleHolds
<1> QED BY <1>1, SlotsHold, PTL

\* The gate: a run passes only with nothing found, tools that ran and did not
\* fail and, where its scenario asks for them, every tool and both governance
\* metrics within their limits; missing or failed evidence defers it whatever
\* was found; no counterfactual check ever vetoes a PASS; and taking a finding
\* away relaxes at most one core check, so that check fails for findings only
\* where none is tolerated (apply_policy).
THEOREM PassesAreEarned == AllSpec => []GateIsStrict
<1>1. SlotsInv => GateIsStrict
  BY GateHolds DEF SlotsInv, GateIsStrict
<1> QED BY <1>1, SlotsHold, PTL

\* The champions of a cycle get strictly better on the frozen validation split
\* with every approval, over any categories and any number of pixels
\* (evaluate_models, select_model).
THEOREM ChampionsGetBetter == AllSpec => ChampionsImprove
<1>1. ASSUME [AllNext]_allVars PROVE [part = "evaluation" => Evaluation!Improves]_allVars
  <2> SUFFICES ASSUME AllNext, part = "evaluation" PROVE Evaluation!Improves
    BY <1>1
  <2>1. Evaluation!Next
    BY DEF AllNext, ProfilesStep, GateStep, BackfillStep, ClosureStep, EvaluationStep, RetentionStep,
       EpisodeStep, RetrievalStep, ThrottleStep
  <2> QED BY <2>1, ApprovalsGain
<1> QED BY <1>1, PTL DEF AllSpec, ChampionsImprove

\* The retrieval of governed memory: without a card that the gates of scope and
\* time refuse the same cards come in the same order, a larger limit only adds
\* cards at the end, a card that every channel ranks before another comes
\* before it, and one that no channel knows does not come
\* (_retrieve_approved_memories_hybrid).
THEOREM RetrievalKeepsOrder == AllSpec => []RetrievalIsStable
<1>1. SlotsInv => RetrievalIsStable
  BY RefusedLeavesNoTrace, LimitsOnlyCut, UnanimousIsFirst DEF SlotsInv, RetrievalIsStable
<1> QED BY <1>1, SlotsHold, PTL
=============================================================================
