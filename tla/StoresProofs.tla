---------------------------- MODULE StoresProofs ----------------------------
(***************************************************************************)
(* Proofs about the stores that requests share (MCStores), for any number  *)
(* of accounts, sessions, requests, members and documents and any bounds:  *)
(* Accounts by itself, then the data pool, the operator workspace, and     *)
(* their composition.                                                      *)
(***************************************************************************)
EXTENDS MCStores, FiniteSetTheorems, SequenceTheorems, TLAPS


\* A session belongs to an account that exists.  Its version is never ahead of
\* the account's, and while the two are equal the password is the one it was
\* opened with and a live session's account is active.
SessionsTrack ==
  \A s \in Sessions : session[s] # NoSession =>
    LET u == session[s].user IN
    /\ status[u] # "ABSENT"
    /\ session[s].version <= version[u]
    /\ session[s].version = version[u] =>
         /\ session[s].opened = password[u]
         /\ session[s].state = "LIVE" => Active(u)

\* The same for a request that has verified a password and not yet written.
WorkTracks ==
  \A t \in Threads : work[t] # NoWork =>
    LET u == work[t].user IN
    /\ status[u] # "ABSENT"
    /\ work[t].version <= version[u]
    /\ work[t].version = version[u] => work[t].proof = password[u]

\* The inductive invariant.
IInv == TypeOK /\ AdminRemains /\ SessionsTrack /\ WorkTracks

-----------------------------------------------------------------------------
\* No row is both a session and the absence of one.
LEMMA SessionShape ==
  ASSUME TypeOK, NEW s \in Sessions, session[s] # NoSession
  PROVE  session[s] \in SessionRows
BY DEF TypeOK

LEMMA WorkShape ==
  ASSUME TypeOK, NEW t \in Threads, work[t] # NoWork
  PROVE  work[t] \in Work
BY DEF TypeOK

\* What _issue_session writes is a row of the table.
LEMMA IssuedRow ==
  ASSUME TypeOK, NEW s \in Sessions, NEW u \in Users, NEW pw \in Passwords,
         IssueSession(s, u, pw)
  PROVE  session' \in [Sessions -> SessionRows \cup {NoSession}]
BY DEF TypeOK, IssueSession, SessionRows

\* Revoking all the sessions of an account keeps them rows of the table.
LEMMA RevokedRows ==
  ASSUME TypeOK, NEW u \in Users, RevokeSessionsOf(u)
  PROVE  /\ session' \in [Sessions -> SessionRows \cup {NoSession}]
         /\ \A s \in Sessions : session[s] = NoSession => session'[s] = NoSession
         /\ \A s \in Sessions : session[s] # NoSession =>
              /\ session'[s] # NoSession
              /\ session'[s].user = session[s].user
              /\ session'[s].version = session[s].version
              /\ session'[s].opened = session[s].opened
              /\ session'[s].state =
                   IF session[s].user = u THEN "REVOKED" ELSE session[s].state
<1>1. ASSUME NEW s \in Sessions, session[s] = NoSession
      PROVE  session'[s] = NoSession
  BY <1>1 DEF TypeOK, RevokeSessionsOf, Revoked, NoSession
<1>2. ASSUME NEW s \in Sessions, session[s] # NoSession
      PROVE  /\ session'[s] \in SessionRows
             /\ session'[s] # NoSession
             /\ session'[s].user = session[s].user
             /\ session'[s].version = session[s].version
             /\ session'[s].opened = session[s].opened
             /\ session'[s].state =
                  IF session[s].user = u THEN "REVOKED" ELSE session[s].state
  BY <1>2, SessionShape
     DEF RevokeSessionsOf, Revoked, SessionRows, NoSession
<1>3. session' = [s \in Sessions |-> session'[s]]
  BY DEF RevokeSessionsOf
<1> QED BY <1>1, <1>2, <1>3

-----------------------------------------------------------------------------
\* The initial states satisfy the invariant: nothing exists yet.
LEMMA InitIInv == Init => IInv
BY AccountsAssumption
   DEF Init, IInv, TypeOK, AdminRemains, Enabled, SessionsTrack, WorkTracks,
       Statuses

\* The accounts a creation leaves behind.
LEMMA NewAccountEffect ==
  ASSUME TypeOK, NEW u \in Users, NEW r \in {"ADMIN", "USER"},
         NEW st \in {"PENDING", "ACTIVE"}, NEW pw \in Passwords,
         NewAccount(u, r, st, pw)
  PROVE  /\ status' \in [Users -> Statuses] /\ role' \in [Users -> {"ADMIN", "USER"}]
         /\ version' \in [Users -> 1..MaxVersion]
         /\ password' \in [Users -> Passwords \cup {None}]
         /\ status[u] = "ABSENT" /\ status'[u] = st /\ role'[u] = r
         /\ version' = version
         /\ \A x \in Users \ {u} : /\ status'[x] = status[x] /\ role'[x] = role[x]
                                   /\ password'[x] = password[x]
BY DEF TypeOK, NewAccount, Statuses

\* Every step keeps the types.
LEMMA TypeStep == TypeOK /\ WorkTracks /\ [Next]_vars => TypeOK'
<1> SUFFICES ASSUME TypeOK, WorkTracks, [Next]_vars PROVE TypeOK'
  OBVIOUS
<1> USE AccountsAssumption DEF accounts
<1>1. ASSUME NEW s \in Sessions, NEW pw \in Passwords, Setup(s, pw) PROVE TypeOK'
  BY <1>1, NewAccountEffect, IssuedRow DEF TypeOK, Setup
<1>2. ASSUME NEW u \in Users, NEW pw \in Passwords, Register(u, pw) PROVE TypeOK'
  BY <1>2, NewAccountEffect DEF TypeOK, Register
<1>3. ASSUME NEW a \in Users, NEW u \in Users, Approve(a, u) PROVE TypeOK'
  BY <1>3 DEF TypeOK, Approve, Statuses
<1>4. ASSUME NEW a \in Users, NEW u \in Users, Disable(a, u) PROVE TypeOK'
  BY <1>4, RevokedRows DEF TypeOK, Disable, Statuses
<1>5. ASSUME NEW a \in Users, NEW u \in Users, Enable(a, u) PROVE TypeOK'
  BY <1>5 DEF TypeOK, Enable, Statuses
<1>6. ASSUME NEW a \in Users, NEW u \in Users,
             AddMember(a, u) \/ RemoveMember(a, u) PROVE TypeOK'
  BY <1>6 DEF TypeOK, AddMember, RemoveMember
<1>7. ASSUME NEW a \in Users, NEW u \in Users, NEW r \in {"ADMIN", "USER"},
             SetRole(a, u, r) PROVE TypeOK'
  BY <1>7 DEF TypeOK, SetRole
<1>8. ASSUME NEW a \in Users, NEW s \in Sessions, RevokeSession(a, s) PROVE TypeOK'
  <2>1. session[s] # NoSession
    BY <1>8 DEF RevokeSession, NoSession
  <2>2. Revoked(session[s]) \in SessionRows
    BY <2>1, SessionShape DEF Revoked, SessionRows
  <2> QED BY <1>8, <2>2 DEF TypeOK, RevokeSession
<1>9. ASSUME NEW s \in Sessions, SessionExpires(s) PROVE TypeOK'
  <2>1. session[s] \in SessionRows
    BY <1>9, SessionShape DEF SessionExpires, NoSession
  <2>2. [session[s] EXCEPT !.state = "EXPIRED"] \in SessionRows
    BY <2>1 DEF SessionRows
  <2> QED BY <1>9, <2>2 DEF TypeOK, SessionExpires
<1>10. ASSUME NEW t \in Threads, NEW k \in {"login", "change"}, NEW u \in Users,
              NEW pw \in Passwords, NEW new \in Passwords, Verify(t, k, u, pw, new)
       PROVE  TypeOK'
  BY <1>10 DEF TypeOK, Verify, Work
<1>11. ASSUME NEW t \in Threads, NEW s \in Sessions, Login(t, s) PROVE TypeOK'
  <2>1. work[t] \in Work
    BY <1>11, WorkShape DEF Login, NoWork
  <2> QED BY <1>11, <2>1, IssuedRow DEF TypeOK, Login, Done, Work
<1>12. ASSUME NEW t \in Threads, ChangePassword(t) PROVE TypeOK'
  <2>1. work[t] \in Work
    BY <1>12, WorkShape DEF ChangePassword, NoWork
  <2> QED BY <1>12, <2>1, RevokedRows DEF TypeOK, ChangePassword, Done, Work
<1>13. ASSUME NEW t \in Threads, Abandon(t) PROVE TypeOK'
  BY <1>13 DEF TypeOK, Abandon, Done
<1>14. CASE UNCHANGED vars
  BY <1>14 DEF TypeOK, vars
<1> QED BY <1>1, <1>2, <1>3, <1>4, <1>5, <1>6, <1>7, <1>8, <1>9, <1>10, <1>11,
           <1>12, <1>13, <1>14 DEF Next

\* An administrator remains: the two operations that take one away are the
\* guarded ones.
LEMMA AdminStep == TypeOK /\ AdminRemains /\ [Next]_vars => AdminRemains'
<1> SUFFICES ASSUME TypeOK, AdminRemains, [Next]_vars PROVE AdminRemains'
  OBVIOUS
<1> USE AccountsAssumption DEF accounts, TypeOK, AdminRemains, Enabled, Admin, Active
<1>1. ASSUME NEW s \in Sessions, NEW pw \in Passwords, Setup(s, pw)
      PROVE  AdminRemains'
  BY <1>1 DEF Setup, NewAccount
<1>2. ASSUME NEW u \in Users, NEW pw \in Passwords, Register(u, pw)
      PROVE  AdminRemains'
  BY <1>2 DEF Register, NewAccount
<1>3. ASSUME NEW a \in Users, NEW u \in Users, Approve(a, u) PROVE AdminRemains'
  BY <1>3 DEF Approve
<1>4. ASSUME NEW a \in Users, NEW u \in Users, Disable(a, u) PROVE AdminRemains'
  BY <1>4 DEF Disable, ProtectLastAdmin
<1>5. ASSUME NEW a \in Users, NEW u \in Users, Enable(a, u) PROVE AdminRemains'
  BY <1>5 DEF Enable
<1>6. ASSUME NEW a \in Users, NEW u \in Users, NEW r \in {"ADMIN", "USER"},
             SetRole(a, u, r) PROVE AdminRemains'
  BY <1>6 DEF SetRole, ProtectLastAdmin
<1>7. ASSUME NEW t \in Threads, ChangePassword(t) PROVE AdminRemains'
  BY <1>7 DEF ChangePassword
<1>8. CASE UNCHANGED <<status, role>>
  BY <1>8
<1> QED BY <1>1, <1>2, <1>3, <1>4, <1>5, <1>6, <1>7, <1>8
        DEF Next, vars, AddMember, RemoveMember, RevokeSession, SessionExpires,
            Verify, Login, Abandon

-----------------------------------------------------------------------------
\* Whatever changes a password or disables an account moves the version on, and
\* what issues a session has just compared it.
LEMMA SessionsStep ==
  TypeOK /\ SessionsTrack /\ WorkTracks /\ TypeOK' /\ [Next]_vars => SessionsTrack'
<1> SUFFICES ASSUME TypeOK, SessionsTrack, WorkTracks, TypeOK', [Next]_vars
             PROVE  SessionsTrack'
  OBVIOUS
<1> USE AccountsAssumption DEF accounts
<1>1. ASSUME NEW u \in Users, NEW r \in {"ADMIN", "USER"},
             NEW st \in {"PENDING", "ACTIVE"}, NEW pw \in Passwords,
             NewAccount(u, r, st, pw), NEW x \in Sessions, session[x] # NoSession
      PROVE  /\ session[x].user \in Users \ {u} /\ version' = version
             /\ status'[session[x].user] = status[session[x].user]
             /\ password'[session[x].user] = password[session[x].user]
  BY <1>1, NewAccountEffect, SessionShape DEF SessionsTrack, SessionRows
<1>2. ASSUME NEW s \in Sessions, NEW u \in Users, NEW pw \in Passwords,
             IssueSession(s, u, pw)
      PROVE  /\ session'[s] = [user |-> u, version |-> version[u], opened |-> pw,
                               state |-> "LIVE"]
             /\ \A x \in Sessions \ {s} : session'[x] = session[x]
  BY <1>2 DEF IssueSession, TypeOK
<1>3. ASSUME NEW s \in Sessions, NEW pw \in Passwords, Setup(s, pw)
      PROVE  SessionsTrack'
  <2>1. /\ status'[Bootstrap] = "ACTIVE" /\ password'[Bootstrap] = pw
        /\ version' = version
    BY <1>3 DEF Setup, NewAccount, TypeOK
  <2> SUFFICES ASSUME NEW x \in Sessions, session'[x] # NoSession
               PROVE  LET u == session'[x].user IN
                      /\ status'[u] # "ABSENT"
                      /\ session'[x].version <= version'[u]
                      /\ session'[x].version = version'[u] =>
                           /\ session'[x].opened = password'[u]
                           /\ session'[x].state = "LIVE" => status'[u] = "ACTIVE"
    BY DEF SessionsTrack, Active
  <2>2. CASE x = s
    BY <1>3, <1>2, <2>1, <2>2 DEF Setup, TypeOK
  <2>3. CASE x # s
    <3>1. session'[x] = session[x] /\ session[x] # NoSession
      BY <1>3, <1>2, <2>3 DEF Setup
    <3>2. NewAccount(Bootstrap, "ADMIN", "ACTIVE", pw)
      BY <1>3 DEF Setup
    <3> QED BY <1>1, <3>1, <3>2 DEF SessionsTrack, Active
  <2> QED BY <2>2, <2>3
<1>4. ASSUME NEW u \in Users, NEW pw \in Passwords, Register(u, pw)
      PROVE  SessionsTrack'
  BY <1>4, <1>1 DEF Register, SessionsTrack, Active
<1>5. ASSUME NEW a \in Users, NEW u \in Users, Approve(a, u) \/ Enable(a, u)
      PROVE  SessionsTrack'
  BY <1>5, SessionShape
     DEF Approve, Enable, SessionsTrack, SessionRows, Active, TypeOK
<1>6. ASSUME NEW a \in Users, NEW u \in Users, Disable(a, u)
      PROVE  SessionsTrack'
  <2> SUFFICES ASSUME NEW x \in Sessions, session[x] # NoSession
               PROVE  LET v == session[x].user IN
                      /\ status'[v] # "ABSENT"
                      /\ session[x].version <= version'[v]
                      /\ session[x].version = version'[v] =>
                           /\ session[x].opened = password'[v]
                           /\ session'[x].state = "LIVE" => status'[v] = "ACTIVE"
    BY <1>6, RevokedRows DEF Disable, SessionsTrack, Active
  <2>1. session[x].user \in Users /\ session[x].version \in 1..MaxVersion
    BY SessionShape DEF SessionRows
  <2>2. CASE session[x].user = u
    BY <1>6, <2>1, <2>2 DEF Disable, SessionsTrack, TypeOK
  <2>3. CASE session[x].user # u
    BY <1>6, <2>1, <2>3, RevokedRows DEF Disable, SessionsTrack, TypeOK, Active
  <2> QED BY <2>2, <2>3
<1>7. ASSUME NEW a \in Users, NEW s \in Sessions, RevokeSession(a, s)
      PROVE  SessionsTrack'
  <2>1. session[s] # NoSession
    BY <1>7 DEF RevokeSession, NoSession
  <2>2. session[s] \in SessionRows
    BY <2>1, SessionShape
  <2>3. session'[s] = [session[s] EXCEPT !.state = "REVOKED"]
    BY <1>7, <2>2 DEF RevokeSession, Revoked, SessionRows, TypeOK
  <2> QED BY <1>7, <2>1, <2>2, <2>3
          DEF RevokeSession, SessionsTrack, SessionRows, Active, TypeOK
<1>8. ASSUME NEW s \in Sessions, SessionExpires(s) PROVE SessionsTrack'
  <2>1. session[s] # NoSession
    BY <1>8 DEF SessionExpires, NoSession
  <2>2. session[s] \in SessionRows
    BY <2>1, SessionShape
  <2> QED BY <1>8, <2>1, <2>2
          DEF SessionExpires, SessionsTrack, SessionRows, Active, TypeOK
<1>9. ASSUME NEW t \in Threads, NEW s \in Sessions, Login(t, s)
      PROVE  SessionsTrack'
  <2>1. work[t] # NoWork /\ work[t] \in Work
    BY <1>9, WorkShape DEF Login, NoWork
  <2>2. work[t].user \in Users /\ work[t].proof \in Passwords
    BY <2>1 DEF Work
  <2>3. work[t].proof = password[work[t].user] /\ Active(work[t].user)
    BY <1>9, <2>1 DEF Login, StillCurrent, WorkTracks
  <2>4. /\ session'[s] = [user |-> work[t].user, version |-> version[work[t].user],
                          opened |-> work[t].proof, state |-> "LIVE"]
        /\ \A x \in Sessions \ {s} : session'[x] = session[x]
    BY <1>9, <1>2, <2>2 DEF Login
  <2> QED BY <1>9, <2>2, <2>3, <2>4 DEF Login, SessionsTrack, Active, TypeOK
<1>10. ASSUME NEW t \in Threads, ChangePassword(t) PROVE SessionsTrack'
  <2>1. work[t] # NoWork /\ work[t].user \in Users
    BY <1>10, WorkShape DEF ChangePassword, NoWork, Work
  <2> DEFINE u == work[t].user
  <2> SUFFICES ASSUME NEW x \in Sessions, session[x] # NoSession
               PROVE  LET v == session[x].user IN
                      /\ status'[v] # "ABSENT"
                      /\ session[x].version <= version'[v]
                      /\ session[x].version = version'[v] =>
                           /\ session[x].opened = password'[v]
                           /\ session'[x].state = "LIVE" => status'[v] = "ACTIVE"
    BY <1>10, <2>1, RevokedRows DEF ChangePassword, SessionsTrack, Active
  <2>2. session[x].user \in Users /\ session[x].version \in 1..MaxVersion
    BY SessionShape DEF SessionRows
  <2>3. CASE session[x].user = u
    BY <1>10, <2>1, <2>2, <2>3 DEF ChangePassword, SessionsTrack, TypeOK
  <2>4. CASE session[x].user # u
    BY <1>10, <2>1, <2>2, <2>4, RevokedRows
       DEF ChangePassword, SessionsTrack, TypeOK, Active
  <2> QED BY <2>3, <2>4
<1>11. CASE UNCHANGED <<status, version, password, session>>
  BY <1>11 DEF SessionsTrack, Active
<1> QED BY <1>3, <1>4, <1>5, <1>6, <1>7, <1>8, <1>9, <1>10, <1>11
        DEF Next, vars, AddMember, RemoveMember, SetRole, Verify, Abandon

\* What a request has verified stays true of the version it read.
LEMMA WorkStep ==
  TypeOK /\ WorkTracks /\ TypeOK' /\ [Next]_vars => WorkTracks'
<1> SUFFICES ASSUME TypeOK, WorkTracks, TypeOK', [Next]_vars PROVE WorkTracks'
  OBVIOUS
<1> USE AccountsAssumption DEF accounts
<1>1. ASSUME NEW u \in Users, NEW r \in {"ADMIN", "USER"},
             NEW st \in {"PENDING", "ACTIVE"}, NEW pw \in Passwords,
             NewAccount(u, r, st, pw), UNCHANGED work
      PROVE  WorkTracks'
  BY <1>1, NewAccountEffect, WorkShape DEF WorkTracks, Work
<1>2. ASSUME NEW a \in Users, NEW u \in Users,
             Approve(a, u) \/ Enable(a, u) \/ Disable(a, u)
      PROVE  WorkTracks'
  BY <1>2, WorkShape DEF Approve, Enable, Disable, WorkTracks, Work, TypeOK
<1>3. ASSUME NEW t \in Threads, NEW k \in {"login", "change"}, NEW u \in Users,
             NEW pw \in Passwords, NEW new \in Passwords, Verify(t, k, u, pw, new)
      PROVE  WorkTracks'
  <2>1. /\ work'[t] = [kind |-> k, user |-> u, proof |-> pw,
                       version |-> version[u], new |-> new]
        /\ \A x \in Threads \ {t} : work'[x] = work[x]
    BY <1>3 DEF Verify, TypeOK
  <2> QED BY <1>3, <2>1 DEF Verify, WorkTracks, TypeOK
<1>4. ASSUME NEW t \in Threads, Done(t), UNCHANGED <<status, version, password>>
      PROVE  WorkTracks'
  BY <1>4 DEF Done, WorkTracks, TypeOK
<1>5. ASSUME NEW t \in Threads, ChangePassword(t) PROVE WorkTracks'
  <2>1. work[t] # NoWork /\ work[t].user \in Users
    BY <1>5, WorkShape DEF ChangePassword, NoWork, Work
  <2>2. /\ work'[t] = NoWork
        /\ \A x \in Threads \ {t} : work'[x] = work[x]
    BY <1>5 DEF ChangePassword, Done, TypeOK
  <2>3. ASSUME NEW x \in Threads, work'[x] # NoWork
        PROVE  x # t /\ work[x] # NoWork /\ work'[x] = work[x]
               /\ work[x].user \in Users /\ work[x].version \in 1..MaxVersion
    BY <2>2, <2>3, WorkShape DEF Work
  <2> QED BY <1>5, <2>1, <2>3 DEF ChangePassword, WorkTracks, TypeOK
<1>6. CASE UNCHANGED <<status, version, password, work>>
  BY <1>6 DEF WorkTracks
<1> QED BY <1>1, <1>2, <1>3, <1>4, <1>5, <1>6
        DEF Next, vars, Setup, Register, AddMember, RemoveMember, SetRole,
            RevokeSession, SessionExpires, Login, Abandon

-----------------------------------------------------------------------------
\* The inductive invariant holds in every reachable state.
THEOREM Invariance == Spec => []IInv
<1>1. IInv /\ [Next]_vars => IInv'
  BY TypeStep, AdminStep, SessionsStep, WorkStep DEF IInv
<1> QED BY InitIInv, <1>1, PTL DEF Spec

\* Every column of the three tables keeps its type.
THEOREM TypeCorrect == Spec => []TypeOK
BY Invariance, PTL DEF IInv

\* Once identity is set up an active administrator exists in every state, for
\* any number of administrators that disable and demote one another.
THEOREM AdministratorRemains == Spec => []AdminRemains
BY Invariance, PTL DEF IInv

\* A session that authenticates was opened with the present password, however
\* logins, password changes and disablings overlap.
THEOREM OnlyCurrentSessions == Spec => []SessionsAreCurrent
<1>1. IInv => SessionsAreCurrent
  BY DEF IInv, SessionsAreCurrent, SessionsTrack, Usable, NoSession
<1> QED BY Invariance, <1>1, PTL

\* A session that has stopped authenticating stays so: its state, its version
\* and its account's version only move forward, and a live session of the
\* present version has an active account, so that enabling revives nothing.
THEOREM RevokedStaysRevoked == Spec => NoResurrection
<1>1. ASSUME IInv, IInv', [Next]_vars, NEW s \in Sessions,
             session[s] # NoSession, ~Usable(s), Usable(s)'
      PROVE  FALSE
  <2> USE AccountsAssumption DEF accounts
  <2>1. session[s] \in SessionRows /\ TypeOK /\ TypeOK'
    BY <1>1, SessionShape DEF IInv
  <2>2. /\ session'[s] # NoSession
        /\ session'[s].user = session[s].user
        /\ session'[s].version = session[s].version
        /\ session'[s].state = "LIVE" => session[s].state = "LIVE"
    <3>1. ASSUME NEW u \in Users, RevokeSessionsOf(u) PROVE <2>2!:
      BY <1>1, <2>1, <3>1, RevokedRows
    <3>2. ASSUME NEW x \in Sessions, NEW u \in Users, NEW pw \in Passwords,
                 IssueSession(x, u, pw)
          PROVE  <2>2!:
      BY <1>1, <2>1, <3>2 DEF IssueSession, TypeOK
    <3>3. ASSUME NEW a \in Users, NEW x \in Sessions, RevokeSession(a, x)
          PROVE  <2>2!:
      BY <1>1, <2>1, <3>3 DEF RevokeSession, Revoked, SessionRows, TypeOK, NoSession
    <3>4. ASSUME NEW x \in Sessions, SessionExpires(x) PROVE <2>2!:
      BY <1>1, <2>1, <3>4 DEF SessionExpires, SessionRows, TypeOK, NoSession
    <3>5. CASE UNCHANGED session
      BY <1>1, <3>5
    <3>6. ASSUME NEW t \in Threads, ChangePassword(t) PROVE <2>2!:
      <4>1. work[t].user \in Users
        BY <2>1, <3>6, WorkShape DEF ChangePassword, NoWork, Work
      <4> QED BY <3>1, <3>6, <4>1 DEF ChangePassword
    <3>7. ASSUME NEW t \in Threads, NEW x \in Sessions, Login(t, x) PROVE <2>2!:
      <4>1. work[t].user \in Users /\ work[t].proof \in Passwords
        BY <2>1, <3>7, WorkShape DEF Login, NoWork, Work
      <4> QED BY <3>2, <3>7, <4>1 DEF Login
    <3> QED BY <1>1, <3>1, <3>2, <3>3, <3>4, <3>5, <3>6, <3>7
            DEF Next, vars, Setup, Register, Approve, Disable, Enable, AddMember,
                RemoveMember, SetRole, Verify, Abandon
  <2>3. version[session[s].user] <= version'[session[s].user]
    <3>1. session[s].user \in Users
      BY <2>1 DEF SessionRows
    <3>2. ASSUME NEW x \in Users, version[x] < MaxVersion,
                 version' = [version EXCEPT ![x] = @ + 1]
          PROVE  <2>3!:
      BY <2>1, <3>1, <3>2 DEF TypeOK
    <3>3. CASE version' = version
      BY <2>1, <3>1, <3>3 DEF TypeOK
    <3>4. ASSUME NEW t \in Threads, ChangePassword(t) PROVE <2>3!:
      <4>1. work[t].user \in Users
        BY <2>1, <3>4, WorkShape DEF ChangePassword, NoWork, Work
      <4> QED BY <3>2, <3>4, <4>1 DEF ChangePassword
    <3> QED BY <1>1, <3>2, <3>3, <3>4
            DEF Next, vars, Setup, Register, Approve, Disable, Enable, AddMember,
                RemoveMember, SetRole, Verify, Abandon, NewAccount, Login,
                RevokeSession, SessionExpires
  <2>4. /\ session[s].state = "LIVE"
        /\ version'[session[s].user] = session[s].version
    BY <1>1, <2>2 DEF Usable
  <2>5. session[s].version <= version[session[s].user]
    BY <1>1 DEF IInv, SessionsTrack
  <2>6. version[session[s].user] = session[s].version
    BY <2>1, <2>3, <2>4, <2>5 DEF TypeOK, SessionRows
  <2>7. Active(session[s].user)
    BY <1>1, <2>4, <2>6 DEF IInv, SessionsTrack
  <2> QED BY <1>1, <2>4, <2>6, <2>7 DEF Usable
<1>2. IInv /\ IInv' /\ [Next]_vars =>
        [\A s \in Sessions :
           session[s] # NoSession /\ ~Usable(s) => ~Usable(s)']_vars
  BY <1>1
<1> QED BY Invariance, <1>2, PTL DEF Spec, NoResurrection

-----------------------------------------------------------------------------
(* The data pool *)

\* A version of the pool holds the decisions of a review of its task.
Versions ==
  {v \in [task : Pool!Tasks, rd : Nat, parent : Nat,
          decided : UNION {Pool!Reviews(t) : t \in Pool!Tasks}] : v.decided \in Pool!Reviews(v.task)}

Deriving == {"context", "FULL", "subset", "copying", "authorize", "SUBSET"}
Exporting == {"input", "binding"}

Reviewing == [op : {"create", "version"}, key : Passwords, seen : Seq(Versions), version : Versions]
Derivations == [op : Deriving, key : Passwords, seen : Seq(Versions)]
Exports == [op : Exporting, seen : Seq(Versions)]
PoolCalls == {Pool!Idle} \cup Reviewing \cup Derivations \cup Exports

PoolShape ==
  /\ source \in [Pool!Tasks -> {"none", "active", "revoked"}]
  /\ rd \in [Pool!Tasks -> Nat]
  /\ pool \in Seq(Versions) /\ Len(pool) <= MaxVersions
  /\ derived \in [1 .. MaxVersions -> {"none", "FULL", "SUBSET"}]
  /\ snap \in {"none", "partial", "whole"}
  /\ req \in [Threads -> PoolCalls]

\* What a request goes by: it reviewed the pool it has seen, derives from and
\* exports a version; its snapshot is whole and has a source before it is
\* referred to; what it binds passed a gate of its own.
CallFits(q, snapshot, sources) ==
  /\ q.op \in {"create", "version"} => q.version.parent = Len(q.seen)
  /\ q.op \in Deriving \cup Exporting => q.seen # <<>>
  /\ q.op \in {"authorize", "SUBSET"} => snapshot = "whole"
  /\ q.op = "SUBSET" => sources["regate"] # "none"
  /\ q.op = "binding" =>
       /\ Pool!Last(q.seen).task = "regate"
       /\ Pool!Qualified(Pool!Last(q.seen)) = Pool!MembersOf("regate")

\* Every version but the first extends the one before it, and each was logged
\* under its request key.
Linked == \A i \in DOMAIN pool : pool[i].parent = i - 1

Writes(operations) == {o \in operations : o.op \in {"create", "version"}}
Counted == IsFiniteSet(ops) /\ Cardinality(Writes(ops)) = Len(pool)

SubsetsAreStored ==
  \A n \in 1 .. MaxVersions : derived[n] = "SUBSET" => snap = "whole" /\ source["regate"] # "none"

\* The inductive invariant of the pool.
PoolInv ==
  /\ PoolShape
  /\ \A r \in Threads : CallFits(req[r], snap, source)
  /\ Linked /\ Counted /\ SubsetsAreStored /\ Pool!ExportedIsRegated

LEMMA PoolInit == Pool!Init => PoolInv
<1> SUFFICES ASSUME Pool!Init PROVE PoolInv
  OBVIOUS
<1>1. PoolShape
  BY StoresAssumption DEF Pool!Init, PoolShape, Pool!Tasks, PoolCalls
<1>2. \A r \in Threads : CallFits(req[r], snap, source)
  BY DEF Pool!Init, CallFits, Pool!Idle, Deriving, Exporting
<1>3. Counted
  <2>1. Writes(ops) = {}
    BY DEF Pool!Init, Writes
  <2> QED BY <2>1, FS_EmptySet DEF Counted, Pool!Init
<1>4. Linked /\ SubsetsAreStored /\ Pool!ExportedIsRegated
  BY DEF Pool!Init, Linked, SubsetsAreStored, Pool!ExportedIsRegated
<1> QED BY <1>1, <1>2, <1>3, <1>4 DEF PoolInv

\* What a request relies on stays: a snapshot that is whole, a source once
\* it has been authorized.
Kept ==
  /\ snap = "whole" => snap' = "whole"
  /\ source["regate"] # "none" => source'["regate"] # "none"

LEMMA CallFitsOn ==
  ASSUME NEW q, CallFits(q, snap, source), Kept
  PROVE  CallFits(q, snap', source')
BY DEF CallFits, Kept

\* A step that changes the state of a request, and the snapshot or a source.
LEMMA CallMoves ==
  ASSUME PoolInv, NEW r \in Threads, NEW q \in PoolCalls, CallFits(q, snap', source'),
         req' = [req EXCEPT ![r] = q], UNCHANGED <<rd, pool, derived, ops, exported>>,
         source' \in [Pool!Tasks -> {"none", "active", "revoked"}],
         snap' \in {"none", "partial", "whole"}, Kept
  PROVE  PoolInv'
<1>1. PoolShape'
  BY DEF PoolInv, PoolShape
<1>2. ASSUME NEW s \in Threads PROVE CallFits(req'[s], snap', source')
  <2>1. CASE s = r
    BY <2>1 DEF PoolInv, PoolShape
  <2>2. CASE s # r
    <3>1. req'[s] = req[s] /\ CallFits(req[s], snap, source)
      BY <2>2 DEF PoolInv, PoolShape
    <3> QED BY <3>1, CallFitsOn
  <2> QED BY <2>1, <2>2
<1>3. Linked' /\ Counted' /\ SubsetsAreStored' /\ Pool!ExportedIsRegated'
  BY DEF PoolInv, Linked, Counted, Writes, SubsetsAreStored, Pool!ExportedIsRegated,
         Pool!Qualified, Pool!MembersOf, Kept
<1> QED BY <1>1, <1>2, <1>3 DEF PoolInv

\* The same for a step that changes nothing else.
LEMMA OnlyCallMoves ==
  ASSUME PoolInv, NEW r \in Threads, NEW q \in PoolCalls, CallFits(q, snap, source),
         req' = [req EXCEPT ![r] = q],
         UNCHANGED <<source, rd, pool, derived, ops, snap, exported>>
  PROVE  PoolInv'
BY CallMoves DEF Kept, PoolInv, PoolShape

LEMMA IdleFits == Pool!Idle \in PoolCalls /\ \A sn, src : CallFits(Pool!Idle, sn, src)
BY DEF PoolCalls, CallFits, Pool!Idle, Deriving, Exporting

\* The kinds of requests are told apart by their op.
LEMMA CallKinds ==
  ASSUME PoolInv, NEW r \in Threads
  PROVE  /\ req[r].op \in {"create", "version"} => req[r] \in Reviewing
         /\ req[r].op \in Deriving => req[r] \in Derivations
         /\ req[r].op \in Exporting => req[r] \in Exports
         /\ CallFits(req[r], snap, source)
<1>1. req[r] \in PoolCalls /\ CallFits(req[r], snap, source)
  BY DEF PoolInv, PoolShape
<1> QED BY <1>1 DEF PoolCalls, Pool!Idle, Reviewing, Derivations, Exports, Deriving, Exporting

\* create_pool, create_version: what a reviewer sends is a version on top of
\* the pool that was read.
LEMMA ReadForVersionStep ==
  ASSUME PoolInv, NEW r \in Threads, NEW t \in Pool!Tasks, NEW key \in Passwords,
         NEW decided \in Pool!Reviews(t), Pool!ReadForVersion(r, t, key, decided)
  PROVE  PoolInv'
<1> DEFINE v == [task |-> t, rd |-> rd[t], decided |-> decided, parent |-> Len(pool)]
           q == [op |-> IF pool = <<>> THEN "create" ELSE "version", key |-> key, seen |-> pool, version |-> v]
<1>1. v \in Versions
  BY DEF PoolInv, PoolShape, Versions
<1>2. q \in PoolCalls
  BY <1>1 DEF PoolCalls, Reviewing, PoolInv, PoolShape
<1>3. CallFits(q, snap, source)
  BY DEF CallFits, Deriving, Exporting
<1>4. req' = [req EXCEPT ![r] = q] /\ UNCHANGED <<source, rd, pool, derived, ops, snap, exported>>
  BY DEF Pool!ReadForVersion
<1> HIDE DEF q
<1> QED BY <1>2, <1>3, <1>4, OnlyCallMoves

\* The transaction that writes a version extends the pool its request has seen.
LEMMA WriteVersionStep ==
  ASSUME PoolInv, NEW r \in Threads, Pool!WriteVersion(r)
  PROVE  PoolInv'
<1> DEFINE q == req[r]
           o == [op |-> q.op, target |-> 0, key |-> q.key]
<1>1. q \in Reviewing /\ q.version.parent = Len(q.seen)
  BY CallKinds DEF Pool!WriteVersion, CallFits
<1>2. CASE UNCHANGED <<pool, ops>>
  BY <1>2, IdleFits, OnlyCallMoves DEF Pool!WriteVersion, Pool!Done
<1>3. CASE /\ Pool!Replay(q.op, 0, q.key) = {} /\ q.seen = pool
           /\ Len(pool) < MaxVersions /\ pool' = Append(pool, q.version)
           /\ ops' = ops \cup {o}
  <2>1. pool' \in Seq(Versions) /\ Len(pool') = Len(pool) + 1
    BY <1>1, <1>3 DEF PoolInv, PoolShape, Reviewing
  <2>2. PoolShape'
    BY <1>3, <2>1, IdleFits, StoresAssumption DEF PoolInv, PoolShape, Pool!WriteVersion, Pool!Done
  <2>3. Linked'
    BY <1>1, <1>3 DEF PoolInv, PoolShape, Linked, Reviewing
  <2>4. Counted'
    <3>1. o \notin ops /\ Writes(ops') = Writes(ops) \cup {o}
      BY <1>1, <1>3 DEF Pool!Replay, Writes, Reviewing
    <3>2. IsFiniteSet(Writes(ops))
      BY FS_Subset DEF PoolInv, Counted, Writes
    <3>3. o \notin Writes(ops)
      BY <3>1 DEF Writes
    <3>4. Cardinality(Writes(ops')) = Cardinality(Writes(ops)) + 1
      BY <3>1, <3>2, <3>3, FS_AddElement
    <3>5. IsFiniteSet(ops')
      BY <1>3, FS_AddElement DEF PoolInv, Counted
    <3> QED BY <2>1, <3>4, <3>5 DEF PoolInv, Counted
  <2>5. \A s \in Threads : CallFits(req'[s], snap', source')
    BY IdleFits DEF PoolInv, PoolShape, Pool!WriteVersion, Pool!Done
  <2>6. SubsetsAreStored' /\ Pool!ExportedIsRegated'
    BY DEF PoolInv, SubsetsAreStored, Pool!ExportedIsRegated, Pool!Qualified, Pool!MembersOf, Pool!WriteVersion
  <2> QED BY <2>2, <2>3, <2>4, <2>5, <2>6 DEF PoolInv
<1> QED BY <1>2, <1>3 DEF Pool!WriteVersion, Pool!Extend, Pool!Logged

LEMMA SeenVersion ==
  ASSUME NEW s \in Seq(Versions), s # <<>>
  PROVE  /\ Pool!Last(s) \in Versions /\ Len(s) \in 1 .. Len(s)
         /\ Pool!Qualified(Pool!Last(s)) \cap Pool!FindingsOf(Pool!Last(s).task) = {}
<1>1. Pool!Last(s) \in Versions /\ Len(s) \in 1 .. Len(s)
  BY DEF Pool!Last
<1>2. ASSUME NEW v \in Versions PROVE Pool!Qualified(v) \cap Pool!FindingsOf(v.task) = {}
  BY DEF Versions, Pool!Qualified, Pool!Reviews, Pool!Reviewable, Pool!QualifiedByEvidence
<1> QED BY <1>1, <1>2

\* The next step of a derivation keeps its key and the pool it has seen.
LEMMA NextDerivation ==
  ASSUME PoolInv, NEW r \in Threads, req[r].op \in Deriving, NEW op \in {"copying", "authorize", "SUBSET"},
         NEW sn, NEW src,
         op # "copying" => sn = "whole",
         op = "SUBSET" => src["regate"] # "none"
  PROVE  /\ [req[r] EXCEPT !.op = op] \in PoolCalls
         /\ CallFits([req[r] EXCEPT !.op = op], sn, src)
<1> DEFINE q == [req[r] EXCEPT !.op = op]
<1>1. req[r] \in Derivations /\ req[r].seen # <<>>
  BY CallKinds DEF CallFits
<1>2. q \in Derivations /\ q.seen = req[r].seen /\ q.op = op
  BY <1>1 DEF Derivations, Deriving
<1> HIDE DEF q
<1>3. q \in PoolCalls /\ CallFits(q, sn, src)
  BY <1>1, <1>2 DEF PoolCalls, CallFits, Deriving, Exporting
<1> QED BY <1>3 DEF q

\* derive_version up to its transaction: the steps of a request that lead to a
\* record of the whole version, or to a snapshot of its qualified members that
\* is whole and has a source.
LEMMA DerivingStep ==
  ASSUME PoolInv, NEW r \in Threads,
         \/ \E key \in Passwords : Pool!ReadForDerive(r, key)
         \/ Pool!DeriveContext(r) \/ Pool!MakeDirectory(r) \/ Pool!FinishDirectory(r)
         \/ Pool!RecoverDirectory(r) \/ Pool!Authorize(r)
  PROVE  PoolInv'
<1>1. ASSUME NEW key \in Passwords, Pool!ReadForDerive(r, key) PROVE PoolInv'
  <2> DEFINE q == [op |-> "context", key |-> key, seen |-> pool]
  <2>1. q \in PoolCalls
    BY DEF PoolCalls, Derivations, Deriving, PoolInv, PoolShape
  <2>2. CallFits(q, snap, source)
    BY <1>1 DEF CallFits, Pool!ReadForDerive
  <2>3. req' = [req EXCEPT ![r] = q] /\ UNCHANGED <<source, rd, pool, derived, ops, snap, exported>>
    BY <1>1 DEF Pool!ReadForDerive
  <2> HIDE DEF q
  <2> QED BY <2>1, <2>2, <2>3, OnlyCallMoves
<1>2. CASE Pool!DeriveContext(r)
  <2>1. req[r] \in Derivations /\ CallFits(req[r], snap, source) /\ req[r].op = "context"
    BY <1>2, CallKinds DEF Pool!DeriveContext, Deriving
  <2>2. CASE Pool!Done(r)
    BY <1>2, <2>2, IdleFits, OnlyCallMoves DEF Pool!DeriveContext, Pool!Done
  <2>3. ASSUME NEW op \in {"FULL", "subset"},
               req' = [req EXCEPT ![r] = [op |-> op, key |-> req[r].key, seen |-> req[r].seen]]
        PROVE  PoolInv'
    <3> DEFINE q == [op |-> op, key |-> req[r].key, seen |-> req[r].seen]
    <3>1. q \in PoolCalls
      BY <2>1 DEF PoolCalls, Derivations, Deriving
    <3>2. CallFits(q, snap, source)
      BY <2>1 DEF CallFits, Deriving, Exporting
    <3>3. req' = [req EXCEPT ![r] = q]
      BY <2>3
    <3> HIDE DEF q
    <3> QED BY <1>2, <3>1, <3>2, <3>3, OnlyCallMoves DEF Pool!DeriveContext
  <2> QED BY <1>2, <2>2, <2>3 DEF Pool!DeriveContext
<1>3. CASE Pool!MakeDirectory(r)
  <2> DEFINE q == [req[r] EXCEPT !.op = "copying"]
  <2>1. req[r] \in Derivations /\ req[r].op = "subset"
    BY <1>3, CallKinds DEF Pool!MakeDirectory, Deriving
  <2>3. q \in PoolCalls /\ CallFits(q, snap', source')
    BY <2>1, NextDerivation DEF Deriving
  <2>4. req' = [req EXCEPT ![r] = q]
    BY <1>3 DEF Pool!MakeDirectory
  <2> HIDE DEF q
  <2> QED BY <1>3, <2>3, <2>4, CallMoves DEF Pool!MakeDirectory, Kept, PoolInv, PoolShape
<1>4. CASE Pool!FinishDirectory(r)
  <2> DEFINE q == [req[r] EXCEPT !.op = "authorize"]
  <2>1. req[r] \in Derivations /\ req[r].op = "copying"
    BY <1>4, CallKinds DEF Pool!FinishDirectory, Deriving
  <2>2. snap' = "whole"
    BY <1>4 DEF Pool!FinishDirectory
  <2>3. q \in PoolCalls /\ CallFits(q, snap', source')
    BY <2>1, <2>2, NextDerivation DEF Deriving
  <2>4. req' = [req EXCEPT ![r] = q]
    BY <1>4 DEF Pool!FinishDirectory
  <2> HIDE DEF q
  <2> QED BY <1>4, <2>3, <2>4, CallMoves DEF Pool!FinishDirectory, Kept, PoolInv, PoolShape
<1>5. CASE Pool!RecoverDirectory(r)
  <2>1. CASE Pool!Done(r)
    BY <1>5, <2>1, IdleFits, OnlyCallMoves DEF Pool!RecoverDirectory, Pool!Done
  <2>2. CASE ~Pool!Done(r)
    <3> DEFINE q == [req[r] EXCEPT !.op = "authorize"]
    <3>1. req[r] \in Derivations /\ req[r].op = "subset"
      BY <1>5, CallKinds DEF Pool!RecoverDirectory, Deriving
    <3>3. snap = "whole" /\ req' = [req EXCEPT ![r] = q]
      BY <1>5, <2>2 DEF Pool!RecoverDirectory, Pool!Recover
    <3>4. q \in PoolCalls /\ CallFits(q, snap, source)
      BY <3>1, <3>3, NextDerivation DEF Deriving
    <3> HIDE DEF q
    <3> QED BY <1>5, <3>3, <3>4, OnlyCallMoves DEF Pool!RecoverDirectory
  <2> QED BY <2>1, <2>2
<1>6. CASE Pool!Authorize(r)
  <2> DEFINE q == [req[r] EXCEPT !.op = "SUBSET"]
  <2>1. req[r] \in Derivations /\ req[r].op = "authorize" /\ CallFits(req[r], snap, source)
    BY <1>6, CallKinds DEF Pool!Authorize, Deriving
  <2>3. /\ source' \in [Pool!Tasks -> {"none", "active", "revoked"}] /\ source'["regate"] # "none"
        /\ snap' = snap /\ snap = "whole"
    BY <1>6, <2>1 DEF Pool!Authorize, PoolInv, PoolShape, Pool!Tasks, CallFits
  <2>4. q \in PoolCalls /\ CallFits(q, snap', source')
    BY <2>1, <2>3, NextDerivation DEF Deriving
  <2>5. req' = [req EXCEPT ![r] = q]
    BY <1>6 DEF Pool!Authorize
  <2> HIDE DEF q
  <2> QED BY <1>6, <2>3, <2>4, <2>5, CallMoves DEF Pool!Authorize, Kept, PoolInv, PoolShape
<1> QED BY <1>1, <1>2, <1>3, <1>4, <1>5, <1>6

\* The transaction that records a derivation.
LEMMA WriteDerivationStep ==
  ASSUME PoolInv, NEW r \in Threads, Pool!WriteDerivation(r)
  PROVE  PoolInv'
<1> DEFINE q == req[r]
           n == Len(q.seen)
           o == [op |-> "derive", target |-> n, key |-> q.key]
<1>1. q \in Derivations /\ q.seen # <<>> /\ CallFits(q, snap, source) /\ q.op \in {"FULL", "SUBSET"}
  BY CallKinds DEF Pool!WriteDerivation, Deriving, CallFits
<1>2. CASE UNCHANGED <<derived, ops>>
  BY <1>2, IdleFits, OnlyCallMoves DEF Pool!WriteDerivation, Pool!Done
<1>3. CASE derived' = [derived EXCEPT ![n] = q.op] /\ ops' = ops \cup {o}
  <2>1. PoolShape'
    BY <1>1, <1>3, IdleFits DEF PoolInv, PoolShape, Pool!WriteDerivation, Pool!Done
  <2>2. Counted'
    <3>1. Writes(ops') = Writes(ops)
      BY <1>3 DEF Writes
    <3>2. IsFiniteSet(ops')
      BY <1>3, FS_AddElement DEF PoolInv, Counted
    <3> QED BY <3>1, <3>2 DEF PoolInv, Counted, Pool!WriteDerivation
  <2>3. SubsetsAreStored'
    BY <1>1, <1>3 DEF PoolInv, PoolShape, SubsetsAreStored, CallFits, Pool!WriteDerivation
  <2>4. \A s \in Threads : CallFits(req'[s], snap', source')
    BY IdleFits DEF PoolInv, PoolShape, Pool!WriteDerivation, Pool!Done
  <2>5. Linked' /\ Pool!ExportedIsRegated'
    BY DEF PoolInv, Linked, Pool!ExportedIsRegated, Pool!Qualified, Pool!MembersOf, Pool!WriteDerivation
  <2> QED BY <2>1, <2>2, <2>3, <2>4, <2>5 DEF PoolInv
<1> QED BY <1>2, <1>3 DEF Pool!WriteDerivation, Pool!Logged

\* The bridge: what a request binds passed a gate of its own, and is the head
\* of the pool when it is published.
LEMMA BridgeStep ==
  ASSUME PoolInv, NEW r \in Threads, Pool!ReadInput(r) \/ Pool!ConfirmInput(r) \/ Pool!Publish(r)
  PROVE  PoolInv'
<1>1. CASE Pool!ReadInput(r)
  <2> DEFINE q == [op |-> "input", seen |-> pool]
  <2>1. q \in PoolCalls
    BY DEF PoolCalls, Exports, Exporting, PoolInv, PoolShape
  <2>2. CallFits(q, snap, source)
    BY <1>1 DEF CallFits, Pool!ReadInput
  <2>3. req' = [req EXCEPT ![r] = q]
    BY <1>1 DEF Pool!ReadInput
  <2> HIDE DEF q
  <2> QED BY <1>1, <2>1, <2>2, <2>3, OnlyCallMoves DEF Pool!ReadInput
<1>2. CASE Pool!ConfirmInput(r)
  <2>1. req[r] \in Exports /\ CallFits(req[r], snap, source) /\ req[r].op = "input"
    BY <1>2, CallKinds DEF Pool!ConfirmInput, Exporting
  <2>2. CASE Pool!Done(r)
    BY <1>2, <2>2, IdleFits, OnlyCallMoves DEF Pool!ConfirmInput, Pool!Done
  <2>3. CASE ~Pool!Done(r)
    <3> DEFINE q == [req[r] EXCEPT !.op = "binding"]
    <3>1. pool = req[r].seen /\ Pool!Trainable(Pool!Last(pool)) /\ req' = [req EXCEPT ![r] = q]
      BY <1>2, <2>3 DEF Pool!ConfirmInput
    <3>2. q \in Exports /\ q.op = "binding" /\ q.seen = pool /\ pool # <<>>
      BY <2>1, <3>1 DEF Exports, Exporting, CallFits
    <3>3. /\ Pool!Last(pool).task = "regate"
          /\ Pool!Qualified(Pool!Last(pool)) = Pool!MembersOf("regate")
      BY <3>1 DEF Pool!Trainable, Pool!GatePassed
    <3> HIDE DEF q
    <3>4. q \in PoolCalls /\ CallFits(q, snap, source)
      BY <3>2, <3>3 DEF PoolCalls, CallFits, Deriving, Exporting
    <3> QED BY <1>2, <3>1, <3>4, OnlyCallMoves DEF Pool!ConfirmInput
  <2> QED BY <2>2, <2>3
<1>3. CASE Pool!Publish(r)
  <2> DEFINE seen == req[r].seen
             e == [version |-> Pool!Last(seen), head |-> Len(pool)]
  <2>1. req[r] \in Exports /\ CallFits(req[r], snap, source) /\ req[r].op = "binding"
    BY <1>3, CallKinds DEF Pool!Publish, Exporting
  <2>2. CASE exported' = exported
    BY <1>3, <2>2, IdleFits, OnlyCallMoves DEF Pool!Publish, Pool!Done
  <2>3. CASE pool = seen /\ exported' = exported \cup {e}
    <3>1. /\ e.version.parent + 1 = e.head /\ e.version.task = "regate"
          /\ Pool!Qualified(e.version) = Pool!MembersOf(e.version.task)
      <4>1. seen # <<>> /\ Len(pool) \in 1 .. Len(pool)
        BY <2>1, <2>3, SeenVersion DEF CallFits, Exporting, PoolInv, PoolShape
      <4>2. pool[Len(pool)] \in Versions /\ pool[Len(pool)].parent = Len(pool) - 1
        BY <4>1 DEF PoolInv, PoolShape, Linked
      <4> QED BY <2>1, <2>3, <4>1, <4>2 DEF CallFits, Pool!Last, PoolInv, PoolShape
    <3>2. Pool!ExportedIsRegated'
      BY <2>3, <3>1 DEF PoolInv, Pool!ExportedIsRegated, Pool!Qualified, Pool!MembersOf
    <3>3. PoolShape' /\ \A s \in Threads : CallFits(req'[s], snap', source')
      BY <1>3, IdleFits DEF PoolInv, PoolShape, Pool!Publish, Pool!Done
    <3>4. Linked' /\ Counted' /\ SubsetsAreStored'
      BY <1>3 DEF PoolInv, Linked, Counted, Writes, SubsetsAreStored, Pool!Publish
    <3> QED BY <3>2, <3>3, <3>4 DEF PoolInv
  <2> QED BY <1>3, <2>2, <2>3 DEF Pool!Publish, Pool!HeadUnchanged
<1> QED BY <1>1, <1>2, <1>3

\* Sources are revoked, the readiness drifts, the process stops.
LEMMA PoolWorldStep ==
  ASSUME PoolInv, (\E t \in Pool!Tasks : Pool!RevokeSource(t) \/ Pool!Drift(t)) \/ Pool!Stop
  PROVE  PoolInv'
<1>1. PoolShape'
  <2>1. req' \in [Threads -> PoolCalls]
    BY IdleFits DEF PoolInv, PoolShape, Pool!RevokeSource, Pool!Drift, Pool!Stop
  <2>2. /\ source' \in [Pool!Tasks -> {"none", "active", "revoked"}]
        /\ rd' \in [Pool!Tasks -> Nat]
    <3>1. ASSUME NEW t \in Pool!Tasks, Pool!RevokeSource(t)
          PROVE  source' \in [Pool!Tasks -> {"none", "active", "revoked"}] /\ rd' = rd
      BY <3>1 DEF PoolInv, PoolShape, Pool!RevokeSource
    <3>2. ASSUME NEW t \in Pool!Tasks, Pool!Drift(t)
          PROVE  rd' \in [Pool!Tasks -> Nat] /\ source' = source
      BY <3>2 DEF PoolInv, PoolShape, Pool!Drift
    <3> QED BY <3>1, <3>2 DEF PoolInv, PoolShape, Pool!Stop
  <2> QED BY <2>1, <2>2 DEF PoolInv, PoolShape, Pool!RevokeSource, Pool!Drift, Pool!Stop
<1>2. Kept
  BY DEF Kept, PoolInv, PoolShape, Pool!RevokeSource, Pool!Drift, Pool!Stop, Pool!Tasks
<1>3. ASSUME NEW s \in Threads PROVE CallFits(req'[s], snap', source')
  <2>1. req'[s] \in {req[s], Pool!Idle}
    BY DEF Pool!RevokeSource, Pool!Drift, Pool!Stop
  <2>2. CallFits(req[s], snap', source')
    BY <1>2, CallFitsOn DEF PoolInv
  <2> QED BY <2>1, <2>2, IdleFits
<1>4. Linked' /\ Counted' /\ SubsetsAreStored' /\ Pool!ExportedIsRegated'
  BY <1>2 DEF PoolInv, Linked, Counted, Writes, SubsetsAreStored, Pool!ExportedIsRegated, Kept,
         Pool!Qualified, Pool!MembersOf, Pool!RevokeSource, Pool!Drift, Pool!Stop
<1> QED BY <1>1, <1>3, <1>4 DEF PoolInv

LEMMA PoolStepInv == PoolInv /\ [Pool!Next]_poolVars => PoolInv'
<1> SUFFICES ASSUME PoolInv, [Pool!Next]_poolVars PROVE PoolInv'
  OBVIOUS
<1>1. CASE UNCHANGED poolVars
  BY <1>1 DEF poolVars, PoolInv, PoolShape, CallFits, Linked, Counted, Writes, SubsetsAreStored,
              Pool!ExportedIsRegated, Pool!Qualified, Pool!MembersOf, Pool!Last
<1>2. CASE Pool!Next
  BY <1>2, ReadForVersionStep, WriteVersionStep, DerivingStep, WriteDerivationStep, BridgeStep,
     PoolWorldStep DEF Pool!Next
<1> QED BY <1>1, <1>2

\* What the pool promises follows from the invariant.
LEMMA PoolPromises == PoolInv => Pool!NoReviewLost /\ Pool!SubsetIsWholeAndClean /\ Pool!ExportedIsRegated
<1> SUFFICES ASSUME PoolInv PROVE Pool!NoReviewLost /\ Pool!SubsetIsWholeAndClean
  BY DEF PoolInv
<1>1. Pool!NoReviewLost
  <2>1. \A S : Pool!Cardinality(S) = Cardinality(S)
    BY DEF Pool!Cardinality, Cardinality
  <2> QED BY <2>1 DEF PoolInv, Linked, Counted, Writes, Pool!NoReviewLost
<1>2. Pool!SubsetIsWholeAndClean
  <2>1. ASSUME NEW n \in DOMAIN pool PROVE Pool!Qualified(pool[n]) \cap Pool!FindingsOf(pool[n].task) = {}
    <3>1. pool[n] \in Versions
      BY <2>1 DEF PoolInv, PoolShape
    <3> QED BY <3>1 DEF Versions, Pool!Qualified, Pool!Reviews, Pool!Reviewable, Pool!QualifiedByEvidence
  <2>2. DOMAIN pool \subseteq 1 .. MaxVersions
    BY StoresAssumption DEF PoolInv, PoolShape
  <2> QED BY <2>1, <2>2 DEF PoolInv, SubsetsAreStored, Pool!SubsetIsWholeAndClean
<1> QED BY <1>1, <1>2

-----------------------------------------------------------------------------
(* The operator workspace *)

OrderStatuses == DOMAIN Workspace!Transitions
Notes == [box : Boxes, whole : BOOLEAN]
Revisions == [status : OrderStatuses, verified : 0 .. MaxRevisions, whole : BOOLEAN]
OrderRows == [dir : BOOLEAN, asset : Assets \cup {"none"}, base : Nat, box : Boxes \cup {NoBox},
              revs : Seq(Revisions)]

Uploads == [op : {"upload"}, asset : Assets, step : {"read", "open"}]
Saves == [op : {"save"}, asset : Assets, rev : 1 .. MaxRevisions, box : Boxes, step : {"read", "open"}]
Drafts == [op : {"order"}, order : Orders, asset : Assets, rev : Nat, box : Boxes \cup {NoBox},
           step : {"read"}]
Updates == [op : {"update"}, order : Orders, rev : Nat \ {0}, status : OrderStatuses,
            verified : 0 .. MaxRevisions, step : {"read", "open"}]
WorkspaceCalls == {Workspace!Idle} \cup Uploads \cup Saves \cup Drafts \cup Updates

WorkspaceShape ==
  /\ image \in [Assets -> {"none", "torn", "whole"}]
  /\ notes \in [Assets -> Seq(Notes)]
  /\ order \in [Orders -> OrderRows]
  /\ request \in [Threads -> WorkspaceCalls]
  /\ crashes \in 0 .. MaxCrashes

Whole(s) == \A n \in DOMAIN s : s[n].whole
OnlyLastTorn(s) == \A n \in DOMAIN s : s[n].whole \/ n = Len(s)

\* Revision v of the image of an order row shows another box than the order's.
Remedied(row, v, docs) ==
  v > row.base /\ v <= Len(docs[row.asset]) /\ docs[row.asset][v].box # row.box

\* What a request goes by, although nothing locks the documents: a revision
\* that is still free follows a whole chain, by an allowed transition; one that
\* it has opened is the last and is torn; an order it is about to make has no
\* directory yet, and an order it closes is remediated.
RequestFits(q, docs, orders) ==
  /\ q.op = "save" =>
       LET s == docs[q.asset] IN
       /\ q.step = "read" => q.rev <= Len(s) + 1 /\ (q.rev = Len(s) + 1 => Whole(s))
       /\ q.step = "open" => q.rev = Len(s) /\ ~s[q.rev].whole /\ s[q.rev].box = q.box
  /\ q.op = "order" => ~orders[q.order].dir
  /\ q.op = "update" =>
       LET s == orders[q.order].revs IN
       /\ orders[q.order].dir
       /\ q.step = "read" =>
            /\ q.rev <= Len(s) + 1
            /\ q.rev = Len(s) + 1 =>
                 Whole(s) /\ (s # <<>> => q.status \in Workspace!Transitions[s[Len(s)].status])
       /\ q.step = "open" =>
            /\ q.rev = Len(s) /\ ~s[q.rev].whole
            /\ s[q.rev].status = q.status /\ s[q.rev].verified = q.verified
       /\ q.status = "CLOSED" => Remedied(orders[q.order], q.verified, docs)

\* Two requests that have opened a document, or are to make an order, are one.
OpenOnce(requests) ==
  \A r, s \in Threads :
    LET p == requests[r]
        q == requests[s] IN
    \/ r = s
    \/ /\ ~(p.op = "save" /\ q.op = "save" /\ p.asset = q.asset /\ p.step = "open" /\ q.step = "open")
       /\ ~(p.op = "update" /\ q.op = "update" /\ p.order = q.order /\ p.step = "open" /\ q.step = "open")
       /\ ~(p.op = "order" /\ q.op = "order" /\ p.order = q.order)

DocumentFits(s) == Len(s) <= MaxRevisions /\ OnlyLastTorn(s)

OrderFits(row, docs) ==
  /\ row.dir => row.asset \in Assets
  /\ ~row.dir => row.revs = <<>>
  /\ OnlyLastTorn(row.revs)
  /\ \A n \in DOMAIN row.revs :
       /\ row.revs[n].status = "CLOSED" => Remedied(row, row.revs[n].verified, docs)
       /\ n > 1 => row.revs[n].status \in Workspace!Transitions[row.revs[n - 1].status]

\* The inductive invariant of the workspace.
WorkspaceInv ==
  /\ WorkspaceShape
  /\ \A r \in Threads : RequestFits(request[r], notes, order)
  /\ OpenOnce(request)
  /\ \A a \in Assets : DocumentFits(notes[a])
  /\ \A o \in Orders : OrderFits(order[o], notes)

LEMMA WorkspaceInit == Workspace!Init => WorkspaceInv
<1> SUFFICES ASSUME Workspace!Init PROVE WorkspaceInv
  OBVIOUS
<1>1. WorkspaceShape
  BY StoresAssumption DEF Workspace!Init, WorkspaceShape, WorkspaceCalls, OrderRows
<1>2. /\ \A r \in Threads : RequestFits(request[r], notes, order)
      /\ OpenOnce(request)
  BY DEF Workspace!Init, RequestFits, OpenOnce, Workspace!Idle
<1>3. /\ \A a \in Assets : DocumentFits(notes[a])
      /\ \A o \in Orders : OrderFits(order[o], notes)
  BY StoresAssumption DEF Workspace!Init, DocumentFits, OnlyLastTorn, OrderFits
<1> QED BY <1>1, <1>2, <1>3 DEF WorkspaceInv

\* The kinds of requests are told apart by their op.
LEMMA RequestKinds ==
  ASSUME WorkspaceInv, NEW r \in Threads
  PROVE  /\ request[r].op = "upload" => request[r] \in Uploads
         /\ request[r].op = "save" => request[r] \in Saves
         /\ request[r].op = "order" => request[r] \in Drafts
         /\ request[r].op = "update" => request[r] \in Updates
         /\ request[r] \in WorkspaceCalls
         /\ RequestFits(request[r], notes, order)
<1>1. request[r] \in WorkspaceCalls /\ RequestFits(request[r], notes, order)
  BY DEF WorkspaceInv, WorkspaceShape
<1> QED BY <1>1 DEF WorkspaceCalls, Workspace!Idle, Uploads, Saves, Drafts, Updates

\* A request that begins or ends, or goes on without touching a document.
LEMMA RequestTurns ==
  ASSUME WorkspaceInv, NEW r \in Threads, NEW q \in WorkspaceCalls, RequestFits(q, notes, order),
         request' = [request EXCEPT ![r] = q], UNCHANGED <<notes, order>>,
         image' \in [Assets -> {"none", "torn", "whole"}], crashes' \in 0 .. MaxCrashes,
         q.op \in {"save", "update"} => q.step = "read",
         q.op = "order" => \A s \in Threads : request[s].op = "order" => request[s].order # q.order
  PROVE  WorkspaceInv'
<1>1. WorkspaceShape'
  BY DEF WorkspaceInv, WorkspaceShape
<1>2. \A s \in Threads : request'[s] = IF s = r THEN q ELSE request[s]
  BY DEF WorkspaceInv, WorkspaceShape
<1>3. \A s \in Threads : RequestFits(request'[s], notes', order')
  BY <1>2 DEF WorkspaceInv
<1>4. OpenOnce(request')
  BY <1>2 DEF WorkspaceInv, OpenOnce
<1> QED BY <1>1, <1>3, <1>4 DEF WorkspaceInv

LEMMA IdleTurns ==
  ASSUME WorkspaceInv, NEW r \in Threads, request' = [request EXCEPT ![r] = Workspace!Idle],
         UNCHANGED <<notes, order>>,
         image' \in [Assets -> {"none", "torn", "whole"}], crashes' \in 0 .. MaxCrashes
  PROVE  WorkspaceInv'
<1>1. Workspace!Idle \in WorkspaceCalls /\ RequestFits(Workspace!Idle, notes, order)
      /\ Workspace!Idle.op \notin {"save", "update", "order"}
  BY DEF WorkspaceCalls, RequestFits, Workspace!Idle
<1> HIDE DEF Workspace!Idle
<1> QED BY <1>1, RequestTurns

\* add_image, and the process that stops.
LEMMA UploadStep ==
  ASSUME WorkspaceInv, NEW r \in Threads,
         \/ \E a \in Assets : Workspace!StartUpload(r, a)
         \/ Workspace!OpenAsset(r) \/ Workspace!EndUpload(r) \/ Workspace!Crash(r)
  PROVE  WorkspaceInv'
<1>1. ASSUME NEW q \in Uploads, request' = [request EXCEPT ![r] = q], UNCHANGED <<notes, order, crashes>>,
             image' \in [Assets -> {"none", "torn", "whole"}]
      PROVE  WorkspaceInv'
  <2>1. q \in WorkspaceCalls /\ RequestFits(q, notes, order) /\ q.op = "upload"
    BY DEF WorkspaceCalls, RequestFits, Uploads
  <2> QED BY <1>1, <2>1, RequestTurns DEF WorkspaceInv, WorkspaceShape
<1>2. ASSUME NEW a \in Assets, Workspace!StartUpload(r, a) PROVE WorkspaceInv'
  <2>1. [op |-> "upload", asset |-> a, step |-> "read"] \in Uploads
    BY DEF Uploads
  <2> QED BY <1>1, <1>2, <2>1 DEF Workspace!StartUpload, WorkspaceInv, WorkspaceShape
<1>3. CASE Workspace!OpenAsset(r)
  <2>1. request[r] \in Uploads
    BY <1>3, RequestKinds DEF Workspace!OpenAsset
  <2>2. [request[r] EXCEPT !.step = "open"] \in Uploads
    BY <2>1 DEF Uploads
  <2>3. image' \in [Assets -> {"none", "torn", "whole"}]
    BY <1>3 DEF Workspace!OpenAsset, WorkspaceInv, WorkspaceShape
  <2> QED BY <1>1, <1>3, <2>2, <2>3 DEF Workspace!OpenAsset
<1>4. CASE Workspace!EndUpload(r)
  BY <1>4, IdleTurns DEF Workspace!EndUpload, WorkspaceInv, WorkspaceShape
<1>5. CASE Workspace!Crash(r)
  <2>1. crashes' \in 0 .. MaxCrashes
    BY <1>5, StoresAssumption DEF Workspace!Crash, WorkspaceInv, WorkspaceShape
  <2> QED BY <1>5, <2>1, IdleTurns DEF Workspace!Crash, WorkspaceInv, WorkspaceShape
<1> QED BY <1>2, <1>3, <1>4, <1>5

\* A document that only grows, and keeps its boxes, leaves what was found in it
\* where it was found.
Grows(docs, more) ==
  \A a \in Assets : /\ Len(docs[a]) <= Len(more[a])
                    /\ \A n \in DOMAIN docs[a] : more[a][n].box = docs[a][n].box

LEMMA RemediedOn ==
  ASSUME NEW docs \in [Assets -> Seq(Notes)], NEW more \in [Assets -> Seq(Notes)], Grows(docs, more),
         NEW row \in OrderRows, row.asset \in Assets, NEW v \in Nat, Remedied(row, v, docs)
  PROVE  Remedied(row, v, more)
<1>1. v \in DOMAIN docs[row.asset]
  BY DEF Remedied, OrderRows
<1> QED BY <1>1 DEF Remedied, Grows, OrderRows

LEMMA OrderFitsOn ==
  ASSUME NEW docs \in [Assets -> Seq(Notes)], NEW more \in [Assets -> Seq(Notes)], Grows(docs, more),
         NEW row \in OrderRows, OrderFits(row, docs)
  PROVE  OrderFits(row, more)
<1>1. ASSUME NEW n \in DOMAIN row.revs, row.revs[n].status = "CLOSED"
      PROVE  Remedied(row, row.revs[n].verified, more)
  <2>1. row.dir /\ row.asset \in Assets
    BY <1>1 DEF OrderFits, OrderRows
  <2>2. row.revs[n].verified \in Nat
    <3>1. row.revs[n] \in Revisions
      BY <1>1, ElementOfSeq DEF OrderRows
    <3> QED BY <3>1, StoresAssumption DEF Revisions
  <2> QED BY <1>1, <2>1, <2>2, RemediedOn DEF OrderFits
<1> QED BY <1>1 DEF OrderFits

\* A request that is not a save does not notice that a document grows.
LEMMA OrdersFitOn ==
  ASSUME WorkspaceInv, NEW t \in Threads, request[t].op # "save",
         notes' \in [Assets -> Seq(Notes)], Grows(notes, notes')
  PROVE  RequestFits(request[t], notes', order)
<1>1. RequestFits(request[t], notes, order) /\ notes \in [Assets -> Seq(Notes)]
  BY RequestKinds DEF WorkspaceInv, WorkspaceShape
<1>2. CASE request[t].op = "update"
  <2>1. request[t] \in Updates /\ order[request[t].order] \in OrderRows
    BY <1>2, RequestKinds DEF Updates, WorkspaceInv, WorkspaceShape
  <2>2. order[request[t].order].dir /\ order[request[t].order].asset \in Assets
    BY <1>1, <1>2, <2>1 DEF RequestFits, WorkspaceInv, OrderFits, Updates
  <2>3. request[t].verified \in Nat
    BY <2>1, StoresAssumption DEF Updates
  <2> QED BY <1>1, <1>2, <2>1, <2>2, <2>3, RemediedOn DEF RequestFits
<1>3. CASE request[t].op # "update"
  BY <1>1, <1>3 DEF RequestFits
<1> QED BY <1>2, <1>3

\* save_annotations: a revision is opened where the chain that was read ends,
\* or its name is taken; nobody else opens one before it is written.
LEMMA StartSaveStep ==
  ASSUME WorkspaceInv, NEW r \in Threads, NEW a \in Assets, NEW box \in Boxes,
         Workspace!StartSave(r, a, box)
  PROVE  WorkspaceInv'
<1> DEFINE q == [op |-> "save", asset |-> a, rev |-> Len(notes[a]) + 1, box |-> box, step |-> "read"]
<1>1. q \in WorkspaceCalls
  BY StoresAssumption DEF WorkspaceCalls, Saves, Workspace!StartSave, WorkspaceInv, WorkspaceShape
<1>2. RequestFits(q, notes, order)
  BY DEF RequestFits, Workspace!StartSave, Workspace!NotesReadable, Whole
<1>3. q.op = "save" /\ q.step = "read" /\ request' = [request EXCEPT ![r] = q]
  BY DEF Workspace!StartSave
<1> HIDE DEF q
<1> QED BY <1>1, <1>2, <1>3, RequestTurns DEF Workspace!StartSave, WorkspaceInv, WorkspaceShape

LEMMA OpenNotesStep ==
  ASSUME WorkspaceInv, NEW r \in Threads, Workspace!OpenNotes(r)
  PROVE  WorkspaceInv'
<1> DEFINE q == request[r]
           a == q.asset
           e == [box |-> q.box, whole |-> FALSE]
<1>1. q \in Saves /\ q.step = "read" /\ RequestFits(q, notes, order) /\ a \in Assets
  BY RequestKinds DEF Workspace!OpenNotes, Saves
<1>2. notes[a] \in Seq(Notes) /\ e \in Notes /\ notes \in [Assets -> Seq(Notes)]
  BY <1>1 DEF WorkspaceInv, WorkspaceShape, Saves, Notes
<1>3. CASE q.rev # Len(notes[a]) + 1
  <2>1. notes' = notes
    BY <1>1, <1>2, <1>3 DEF Workspace!OpenNotes, Workspace!PutRevision
  <2> QED BY <2>1, IdleTurns DEF Workspace!OpenNotes, WorkspaceInv, WorkspaceShape
<1>4. CASE q.rev = Len(notes[a]) + 1
  <2> DEFINE s == Append(notes[a], e)
  <2>1. s \in Seq(Notes) /\ Len(s) = Len(notes[a]) + 1 /\ s[Len(s)] = e
        /\ \A n \in DOMAIN notes[a] : s[n] = notes[a][n]
    BY <1>2, AppendProperties
  <2>2. notes' = [notes EXCEPT ![a] = s] /\ s # notes[a]
    BY <1>1, <1>4, <2>1 DEF Workspace!OpenNotes, Workspace!PutRevision
  <2>3. request' = [request EXCEPT ![r] = [q EXCEPT !.step = "open"]] /\ order' = order
    BY <1>1, <1>2, <2>2 DEF Workspace!OpenNotes
  <2>4. [q EXCEPT !.step = "open"] \in Saves
    BY <1>1 DEF Saves
  <2> HIDE DEF s
  <2>5. notes' \in [Assets -> Seq(Notes)] /\ Grows(notes, notes')
    <3>1. notes' \in [Assets -> Seq(Notes)]
      BY <1>2, <2>1, <2>2
    <3>2. ASSUME NEW b \in Assets
          PROVE  /\ Len(notes[b]) <= Len(notes'[b])
                 /\ \A n \in DOMAIN notes[b] : notes'[b][n].box = notes[b][n].box
      <4>1. CASE b = a
        BY <1>1, <1>2, <2>1, <2>2, <4>1
      <4>2. CASE b # a
        <5>1. notes'[b] = notes[b]
          BY <1>2, <2>2, <4>2
        <5> QED BY <1>2, <5>1
      <4> QED BY <4>1, <4>2
    <3> QED BY <3>1, <3>2 DEF Grows
  <2>6. WorkspaceShape'
    BY <2>3, <2>4, <2>5 DEF WorkspaceInv, WorkspaceShape, Workspace!OpenNotes, WorkspaceCalls
  <2>7. Whole(notes[a])
    BY <1>1, <1>4 DEF RequestFits, Saves
  <2>8. \A b \in Assets : DocumentFits(notes'[b])
    BY <1>1, <1>2, <1>4, <2>1, <2>2, <2>7 DEF WorkspaceInv, DocumentFits, OnlyLastTorn, Whole, Saves
  <2>9. \A o \in Orders : OrderFits(order'[o], notes')
    BY <1>2, <2>3, <2>5, OrderFitsOn DEF WorkspaceInv, WorkspaceShape
  <2>10. ASSUME NEW t \in Threads, t # r, request[t].op = "save", request[t].asset = a
         PROVE  request[t].step = "read" /\ request[t].rev <= Len(notes[a]) + 1
    <3>1. request[t] \in Saves /\ RequestFits(request[t], notes, order)
      BY <2>10, RequestKinds
    <3>2. request[t].step # "open"
      BY <1>2, <2>7, <2>10, <3>1 DEF RequestFits, Saves, Whole
    <3> QED BY <2>10, <3>1, <3>2 DEF RequestFits, Saves
  <2>11. \A t \in Threads : request'[t] = IF t = r THEN [q EXCEPT !.step = "open"] ELSE request[t]
    BY <2>3 DEF WorkspaceInv, WorkspaceShape
  <2>12. ASSUME NEW t \in Threads PROVE RequestFits(request'[t], notes', order')
    <3>1. CASE t = r
      BY <1>1, <1>4, <2>1, <2>2, <2>4, <2>11, <3>1, <1>2 DEF RequestFits, Saves
    <3>2. CASE t # r
      <4>1. request'[t] = request[t] /\ RequestFits(request[t], notes, order)
        BY <2>11, <3>2, RequestKinds
      <4>2. CASE request[t].op = "save"
        BY <1>2, <2>1, <2>2, <2>10, <3>2, <4>1, <4>2, RequestKinds DEF RequestFits, Saves
      <4>3. CASE request[t].op # "save"
        BY <2>3, <2>5, <4>1, <4>3, OrdersFitOn
      <4> QED BY <4>2, <4>3
    <3> QED BY <3>1, <3>2
  <2>13. OpenOnce(request')
    BY <1>1, <2>4, <2>10, <2>11 DEF WorkspaceInv, OpenOnce, Saves
  <2> QED BY <2>6, <2>8, <2>9, <2>12, <2>13 DEF WorkspaceInv
<1> QED BY <1>3, <1>4

LEMMA EndNotesStep ==
  ASSUME WorkspaceInv, NEW r \in Threads, Workspace!EndNotes(r)
  PROVE  WorkspaceInv'
<1> DEFINE q == request[r]
           a == q.asset
           e == [box |-> q.box, whole |-> TRUE]
           s == [notes[a] EXCEPT ![q.rev] = e]
<1>1. q \in Saves /\ q.step = "open" /\ RequestFits(q, notes, order) /\ a \in Assets
  BY RequestKinds DEF Workspace!EndNotes, Saves
<1>2. notes[a] \in Seq(Notes) /\ e \in Notes /\ notes \in [Assets -> Seq(Notes)]
  BY <1>1 DEF WorkspaceInv, WorkspaceShape, Saves, Notes
<1>3. q.rev = Len(notes[a]) /\ q.rev \in DOMAIN notes[a] /\ ~notes[a][q.rev].whole
      /\ notes[a][q.rev].box = q.box
  BY <1>1, <1>2 DEF RequestFits, Saves
<1>4. s \in Seq(Notes) /\ Len(s) = Len(notes[a])
      /\ \A n \in DOMAIN notes[a] : s[n] = IF n = q.rev THEN e ELSE notes[a][n]
  BY <1>2, <1>3, ExceptSeq
<1>5. notes' = [notes EXCEPT ![a] = s] /\ order' = order
      /\ request' = [request EXCEPT ![r] = Workspace!Idle]
  BY <1>2, <1>3 DEF Workspace!EndNotes
<1> HIDE DEF s
<1>6. notes' \in [Assets -> Seq(Notes)] /\ Grows(notes, notes')
  <2>1. notes' \in [Assets -> Seq(Notes)]
    BY <1>2, <1>4, <1>5
  <2>2. ASSUME NEW b \in Assets
        PROVE  /\ Len(notes[b]) <= Len(notes'[b])
               /\ \A n \in DOMAIN notes[b] : notes'[b][n].box = notes[b][n].box
    <3>1. CASE b = a
      <4>1. notes'[b] = s /\ notes[b] \in Seq(Notes)
        BY <1>2, <1>5, <3>1
      <4>2. ASSUME NEW n \in DOMAIN notes[b] PROVE s[n].box = notes[b][n].box
        <5>1. s[n] = IF n = q.rev THEN e ELSE notes[b][n]
          BY <1>4, <3>1
        <5> QED BY <1>3, <3>1, <5>1
      <4> QED BY <1>2, <1>4, <3>1, <4>1, <4>2
    <3>2. CASE b # a
      <4>1. notes'[b] = notes[b]
        BY <1>2, <1>5, <3>2
      <4> QED BY <1>2, <4>1
    <3> QED BY <3>1, <3>2
  <2> QED BY <2>1, <2>2 DEF Grows
<1>7. WorkspaceShape'
  BY <1>5, <1>6 DEF WorkspaceInv, WorkspaceShape, WorkspaceCalls, Workspace!EndNotes
<1>8. \A b \in Assets : DocumentFits(notes'[b])
  BY <1>1, <1>2, <1>3, <1>4, <1>5 DEF WorkspaceInv, DocumentFits, OnlyLastTorn
<1>9. \A o \in Orders : OrderFits(order'[o], notes')
  BY <1>2, <1>5, <1>6, OrderFitsOn DEF WorkspaceInv, WorkspaceShape
<1>10. \A t \in Threads : request'[t] = IF t = r THEN Workspace!Idle ELSE request[t]
  BY <1>5 DEF WorkspaceInv, WorkspaceShape
<1>11. ASSUME NEW t \in Threads PROVE RequestFits(request'[t], notes', order')
  <2>1. CASE t = r
    BY <1>10, <2>1 DEF RequestFits, Workspace!Idle
  <2>2. CASE t # r /\ request[t].op # "save"
    BY <1>5, <1>6, <1>10, <2>2, OrdersFitOn
  <2>3. CASE t # r /\ request[t].op = "save" /\ request[t].asset # a
    <3>1. request[t] \in Saves /\ RequestFits(request[t], notes, order)
      BY <2>3, RequestKinds
    <3>2. notes'[request[t].asset] = notes[request[t].asset]
      BY <1>2, <1>5, <2>3, <3>1 DEF Saves
    <3> QED BY <1>10, <2>3, <3>1, <3>2 DEF RequestFits, Saves
  <2>4. CASE t # r /\ request[t].op = "save" /\ request[t].asset = a
    <3>1. request[t] \in Saves /\ RequestFits(request[t], notes, order)
      BY <2>4, RequestKinds
    <3>2. request[t].step = "read"
      BY <1>1, <2>4, <3>1 DEF WorkspaceInv, OpenOnce, Saves
    <3>3. request[t].rev <= Len(notes[a]) + 1 /\ request[t].rev # Len(notes[a]) + 1
      BY <1>2, <1>3, <2>4, <3>1, <3>2 DEF RequestFits, Whole
    <3>4. Len(notes'[a]) = Len(notes[a])
      BY <1>1, <1>2, <1>4, <1>5
    <3> QED BY <1>10, <2>4, <3>1, <3>2, <3>3, <3>4 DEF RequestFits, Saves
  <2> QED BY <2>1, <2>2, <2>3, <2>4
<1>12. OpenOnce(request')
  BY <1>10 DEF WorkspaceInv, OpenOnce, Workspace!Idle
<1> QED BY <1>7, <1>8, <1>9, <1>11, <1>12 DEF WorkspaceInv

\* create_work_order: the directory is made once, by the request that chose its
\* name, and only that request writes its first revision.
LEMMA StartOrderStep ==
  ASSUME WorkspaceInv, NEW r \in Threads, NEW o \in Orders, NEW a \in Assets,
         Workspace!StartOrder(r, o, a)
  PROVE  WorkspaceInv'
<1> DEFINE q == [op |-> "order", order |-> o, asset |-> a, rev |-> Len(notes[a]),
                 box |-> Workspace!Last(notes[a]).box, step |-> "read"]
<1>1. notes[a] \in Seq(Notes) /\ notes[a] # <<>>
  BY DEF WorkspaceInv, WorkspaceShape, Workspace!StartOrder
<1>2. Workspace!Last(notes[a]) \in Notes
  BY <1>1 DEF Workspace!Last
<1>3. q \in WorkspaceCalls
  BY <1>1, <1>2 DEF WorkspaceCalls, Drafts, Notes
<1>4. RequestFits(q, notes, order)
  BY DEF RequestFits, Workspace!StartOrder
<1>5. q.op = "order" /\ q.order = o /\ request' = [request EXCEPT ![r] = q]
  BY DEF Workspace!StartOrder
<1> HIDE DEF q
<1> QED BY <1>3, <1>4, <1>5, RequestTurns DEF Workspace!StartOrder, WorkspaceInv, WorkspaceShape

LEMMA MakeOrderStep ==
  ASSUME WorkspaceInv, NEW r \in Threads, Workspace!MakeOrder(r)
  PROVE  WorkspaceInv'
<1> DEFINE q == request[r]
           o == q.order
           row == [dir |-> TRUE, asset |-> q.asset, base |-> q.rev, box |-> q.box, revs |-> <<>>]
           u == [op |-> "update", order |-> o, rev |-> 1, status |-> "OPEN", verified |-> 0, step |-> "read"]
<1>1. q \in Drafts /\ q.op = "order" /\ o \in Orders /\ ~order[o].dir
  BY RequestKinds DEF Workspace!MakeOrder, Drafts, RequestFits
<1>2. row \in OrderRows /\ u \in Updates
  BY <1>1, StoresAssumption DEF Drafts, OrderRows, Updates, OrderStatuses, Workspace!Transitions
<1>3. order' = [order EXCEPT ![o] = row] /\ request' = [request EXCEPT ![r] = u]
      /\ UNCHANGED <<image, notes, crashes>>
  BY DEF Workspace!MakeOrder
<1>4. WorkspaceShape'
  BY <1>1, <1>2, <1>3 DEF WorkspaceInv, WorkspaceShape, WorkspaceCalls
<1>5. OrderFits(row, notes)
  BY <1>1 DEF OrderFits, OnlyLastTorn, Drafts
<1>6. RequestFits(u, notes, [order EXCEPT ![o] = row])
  BY <1>1 DEF RequestFits, Whole, WorkspaceInv, WorkspaceShape
<1>7. \A t \in Threads : request'[t] = IF t = r THEN u ELSE request[t]
  BY <1>3 DEF WorkspaceInv, WorkspaceShape
<1>8. ASSUME NEW t \in Threads PROVE RequestFits(request'[t], notes, order')
  <2>1. CASE t = r
    BY <1>3, <1>6, <1>7, <2>1
  <2>2. CASE t # r /\ request[t].op \in {"update", "order"}
    <3>1. request[t] \in Updates \cup Drafts /\ RequestFits(request[t], notes, order)
      BY <2>2, RequestKinds
    <3>2. request[t].order \in Orders /\ request[t].order # o
      <4>1. CASE request[t].op = "update"
        BY <1>1, <3>1, <4>1, RequestKinds DEF RequestFits, Updates
      <4>2. CASE request[t].op = "order"
        BY <1>1, <2>2, <3>1, <4>2, RequestKinds DEF WorkspaceInv, OpenOnce, Drafts
      <4> QED BY <2>2, <4>1, <4>2
    <3>3. order'[request[t].order] = order[request[t].order]
      BY <1>3, <3>2 DEF WorkspaceInv, WorkspaceShape
    <3> QED BY <1>7, <2>2, <3>1, <3>3 DEF RequestFits
  <2>3. CASE t # r /\ request[t].op \notin {"update", "order"}
    BY <1>7, <2>3, RequestKinds DEF RequestFits
  <2> QED BY <2>1, <2>2, <2>3
<1>9. \A p \in Orders : OrderFits(order'[p], notes)
  BY <1>3, <1>5 DEF WorkspaceInv, WorkspaceShape
<1>10. OpenOnce(request')
  BY <1>7 DEF WorkspaceInv, OpenOnce
<1> QED BY <1>3, <1>4, <1>8, <1>9, <1>10 DEF WorkspaceInv

\* update_work_order: an allowed status on top of a history that was read whole,
\* and a closure of an order whose box has changed.
LEMMA StartUpdateStep ==
  ASSUME WorkspaceInv, NEW r \in Threads, NEW o \in Orders, NEW next \in OrderStatuses,
         Workspace!StartUpdate(r, o, next)
  PROVE  WorkspaceInv'
<1> DEFINE s == order[o].revs
           q == [op |-> "update", order |-> o, rev |-> Len(s) + 1, status |-> next,
                 verified |-> IF next = "CLOSED" THEN Len(notes[order[o].asset]) ELSE 0, step |-> "read"]
<1>1. order[o] \in OrderRows /\ s \in Seq(Revisions) /\ s # <<>>
  BY DEF WorkspaceInv, WorkspaceShape, OrderRows, Workspace!StartUpdate, Workspace!OrderReadable
<1>2. order[o].dir /\ order[o].asset \in Assets
  BY <1>1 DEF WorkspaceInv, OrderFits, OrderRows
<1>3. notes[order[o].asset] \in Seq(Notes) /\ Len(notes[order[o].asset]) \in 0 .. MaxRevisions
  BY <1>2, StoresAssumption DEF WorkspaceInv, WorkspaceShape, DocumentFits
<1>4. q \in Updates
  BY <1>1, <1>3, StoresAssumption DEF Updates
<1>5. Whole(s)
  BY <1>1 DEF Whole, WorkspaceInv, OrderFits, OnlyLastTorn, Workspace!StartUpdate, Workspace!OrderReadable,
              Workspace!Last
<1>6. next \in Workspace!Transitions[s[Len(s)].status]
  BY DEF Workspace!StartUpdate, Workspace!MayBecome, Workspace!Last
<1>7. next = "CLOSED" => Remedied(order[o], Len(notes[order[o].asset]), notes)
  BY <1>1, <1>3 DEF Workspace!StartUpdate, Workspace!Remediated, Workspace!Last, Remedied, OrderRows
<1>8. RequestFits(q, notes, order)
  BY <1>1, <1>2, <1>5, <1>6, <1>7 DEF RequestFits
<1>9. q.op = "update" /\ q.step = "read" /\ request' = [request EXCEPT ![r] = q]
  BY DEF Workspace!StartUpdate
<1>10. q \in WorkspaceCalls
  BY <1>4 DEF WorkspaceCalls
<1> HIDE DEF q
<1> QED BY <1>8, <1>9, <1>10, RequestTurns DEF Workspace!StartUpdate, WorkspaceInv, WorkspaceShape

\* Another request does not notice that revisions are written to an order that
\* it does not update.
LEMMA OthersFitOn ==
  ASSUME WorkspaceInv, NEW t \in Threads, NEW o \in Orders, NEW revs,
         request[t].op = "update" => request[t].order # o
  PROVE  RequestFits(request[t], notes, [order EXCEPT ![o].revs = revs])
<1>1. RequestFits(request[t], notes, order) /\ order \in [Orders -> OrderRows]
  BY RequestKinds DEF WorkspaceInv, WorkspaceShape
<1>2. CASE request[t].op = "update"
  <2>1. request[t].order \in Orders /\ request[t].order # o
    BY <1>2, RequestKinds DEF Updates
  <2>2. [order EXCEPT ![o].revs = revs][request[t].order] = order[request[t].order]
    BY <1>1, <2>1
  <2> QED BY <1>1, <1>2, <2>2 DEF RequestFits
<1>3. CASE request[t].op = "order"
  <2>1. request[t].order \in Orders
    BY <1>3, RequestKinds DEF Drafts
  <2>2. [order EXCEPT ![o].revs = revs][request[t].order].dir = order[request[t].order].dir
    BY <1>1, <2>1 DEF OrderRows
  <2> QED BY <1>1, <1>3, <2>2 DEF RequestFits
<1>4. CASE request[t].op \notin {"update", "order"}
  BY <1>1, <1>4 DEF RequestFits
<1> QED BY <1>2, <1>3, <1>4

\* What writing the revisions of an order changes: the revisions of that order.
LEMMA RowWritten ==
  ASSUME WorkspaceInv, NEW o \in Orders, NEW more \in Seq(Revisions),
         order' = [order EXCEPT ![o].revs = more]
  PROVE  /\ order' \in [Orders -> OrderRows]
         /\ order'[o].revs = more /\ order'[o].dir = order[o].dir /\ order'[o].asset = order[o].asset
         /\ order'[o].base = order[o].base /\ order'[o].box = order[o].box
         /\ \A p \in Orders : p # o => order'[p] = order[p]
<1>1. order \in [Orders -> OrderRows] /\ order[o] \in OrderRows
  BY DEF WorkspaceInv, WorkspaceShape
<1> DEFINE row == [order[o] EXCEPT !.revs = more]
<1>2. row \in OrderRows /\ row.revs = more /\ row.dir = order[o].dir /\ row.asset = order[o].asset
      /\ row.base = order[o].base /\ row.box = order[o].box
  BY <1>1 DEF OrderRows
<1>3. order' = [order EXCEPT ![o] = row]
  OBVIOUS
<1> HIDE DEF row
<1> QED BY <1>1, <1>2, <1>3

\* Request r, which goes on as u, has written the revisions of order o: the
\* order, the request and its rivals fit.
WrittenBy(r, o, more, u) ==
  /\ order' = [order EXCEPT ![o].revs = more]
  /\ request' = [request EXCEPT ![r] = u]
  /\ UNCHANGED <<image, notes, crashes>>
  /\ RequestFits(u, notes, order') /\ OrderFits(order'[o], notes) /\ OpenOnce(request')
  /\ \A t \in Threads : t # r /\ request[t].op = "update" /\ request[t].order = o =>
       RequestFits(request[t], notes, order')

LEMMA OrderWritten ==
  ASSUME WorkspaceInv, NEW r \in Threads, NEW o \in Orders, NEW more \in Seq(Revisions),
         NEW u \in WorkspaceCalls, WrittenBy(r, o, more, u)
  PROVE  WorkspaceInv'
<1> USE DEF WrittenBy
<1>1. order' \in [Orders -> OrderRows] /\ \A p \in Orders : p # o => order'[p] = order[p]
  BY RowWritten
<1>2. WorkspaceShape'
  BY <1>1 DEF WorkspaceInv, WorkspaceShape
<1>3. \A t \in Threads : request'[t] = IF t = r THEN u ELSE request[t]
  BY DEF WorkspaceInv, WorkspaceShape
<1>4. ASSUME NEW t \in Threads PROVE RequestFits(request'[t], notes, order')
  <2>1. CASE t = r
    BY <1>3, <2>1
  <2>2. CASE t # r /\ request[t].op = "update" /\ request[t].order = o
    BY <1>3, <2>2
  <2>3. CASE t # r /\ (request[t].op = "update" => request[t].order # o)
    <3>1. RequestFits(request[t], notes, [order EXCEPT ![o].revs = more])
      BY <2>3, OthersFitOn
    <3>2. RequestFits(request[t], notes, order')
      BY <3>1
    <3> QED BY <1>3, <2>3, <3>2
  <2> QED BY <2>1, <2>2, <2>3
<1>5. \A p \in Orders : OrderFits(order'[p], notes)
  BY <1>1 DEF WorkspaceInv
<1> QED BY <1>2, <1>4, <1>5 DEF WorkspaceInv

\* A revision added to a whole history.
LEMMA RowExtended ==
  ASSUME NEW s \in Seq(Revisions), NEW e \in Revisions
  PROVE  /\ Append(s, e) \in Seq(Revisions)
         /\ Append(s, e) # s
         /\ Len(Append(s, e)) = Len(s) + 1
         /\ Append(s, e)[Len(s) + 1] = e
         /\ \A n \in DOMAIN s : Append(s, e)[n] = s[n]
<1>1. /\ Append(s, e) \in Seq(Revisions)
      /\ Len(Append(s, e)) = Len(s) + 1
      /\ Append(s, e)[Len(s) + 1] = e
      /\ \A n \in DOMAIN s : Append(s, e)[n] = s[n]
  BY AppendProperties
<1> QED BY <1>1

LEMMA OpenOrderStep ==
  ASSUME WorkspaceInv, NEW r \in Threads, Workspace!OpenOrder(r)
  PROVE  WorkspaceInv'
<1>1. PICK q, o, s, e :
        /\ q = request[r] /\ o = q.order /\ s = order[o].revs
        /\ e = [status |-> q.status, verified |-> q.verified, whole |-> FALSE]
  OBVIOUS
<1>2. q \in Updates /\ q.step = "read" /\ RequestFits(q, notes, order) /\ o \in Orders
  BY <1>1, RequestKinds DEF Workspace!OpenOrder, Updates
<1>3. order[o] \in OrderRows /\ order \in [Orders -> OrderRows]
  BY <1>2 DEF WorkspaceInv, WorkspaceShape
<1>4. s \in Seq(Revisions) /\ e \in Revisions
  BY <1>1, <1>2, <1>3 DEF Updates, Revisions, OrderRows
<1>5. CASE q.rev # Len(s) + 1
  <2>1. order' = [order EXCEPT ![o].revs = s]
    BY <1>1, <1>5 DEF Workspace!OpenOrder, Workspace!PutRevision
  <2>2. [order EXCEPT ![o].revs = s] = order
    BY <1>1, <1>2, <1>3 DEF OrderRows
  <2>3. order' = order
    BY <2>1, <2>2
  <2> QED BY <1>1, <2>3, IdleTurns DEF Workspace!OpenOrder, WorkspaceInv, WorkspaceShape
<1>6. CASE q.rev = Len(s) + 1
  <2>1. PICK more : more = Append(s, e)
    OBVIOUS
  <2>2. more \in Seq(Revisions) /\ more # s /\ Len(more) = Len(s) + 1 /\ more[Len(s) + 1] = e
        /\ \A n \in DOMAIN s : more[n] = s[n]
    BY <1>4, <2>1, RowExtended
  <2>3. order' = [order EXCEPT ![o].revs = more]
    BY <1>1, <1>6, <2>1 DEF Workspace!OpenOrder, Workspace!PutRevision
  <2>4. /\ order' \in [Orders -> OrderRows]
        /\ order'[o].revs = more /\ order'[o].dir = order[o].dir /\ order'[o].asset = order[o].asset
        /\ order'[o].base = order[o].base /\ order'[o].box = order[o].box
    BY <1>2, <2>2, <2>3, RowWritten
  <2>5. PICK u : u = [q EXCEPT !.step = "open"]
    OBVIOUS
  <2>6. request' = [request EXCEPT ![r] = u] /\ UNCHANGED <<image, notes, crashes>>
    BY <1>1, <2>2, <2>4, <2>5 DEF Workspace!OpenOrder
  <2>7. u \in Updates /\ u.op = "update" /\ u.order = o /\ u.step = "open" /\ u.rev = q.rev
        /\ u.status = q.status /\ u.verified = q.verified
    BY <1>1, <1>2, <2>5 DEF Updates
  <2>8. /\ Whole(s) /\ order[o].dir
        /\ s # <<>> => q.status \in Workspace!Transitions[s[Len(s)].status]
        /\ q.status = "CLOSED" => Remedied(order[o], q.verified, notes)
    BY <1>1, <1>2, <1>6 DEF RequestFits, Updates
  <2>9. OrderFits(order'[o], notes)
    <3>1. OnlyLastTorn(more)
      BY <1>4, <2>2, <2>8 DEF OnlyLastTorn, Whole
    <3>2. ASSUME NEW n \in DOMAIN more
          PROVE  /\ more[n].status = "CLOSED" => Remedied(order'[o], more[n].verified, notes)
                 /\ n > 1 => more[n].status \in Workspace!Transitions[more[n - 1].status]
      <4>1. CASE n \in DOMAIN s
        <5>1. OrderFits(order[o], notes)
          BY <1>2 DEF WorkspaceInv
        <5>2. more[n] = s[n] /\ (n > 1 => more[n - 1] = s[n - 1])
          BY <1>4, <2>2, <4>1
        <5> QED BY <1>1, <2>4, <4>1, <5>1, <5>2 DEF OrderFits, Remedied
      <4>2. CASE n = Len(s) + 1
        <5>1. more[n] = e /\ e.status = q.status /\ e.verified = q.verified
          BY <1>1, <2>2, <4>2
        <5>2. n > 1 => s # <<>> /\ more[n - 1] = s[Len(s)]
          BY <1>4, <2>2, <4>2
        <5>3. q.status = "CLOSED" => Remedied(order'[o], q.verified, notes)
          BY <2>4, <2>8 DEF Remedied
        <5> QED BY <2>8, <5>1, <5>2, <5>3
      <4>3. n \in DOMAIN s \/ n = Len(s) + 1
        BY <1>4, <2>2
      <4> QED BY <4>1, <4>2, <4>3
    <3>3. order'[o].dir /\ (order'[o].dir => order'[o].asset \in Assets)
      BY <1>2, <2>4, <2>8 DEF WorkspaceInv, OrderFits
    <3> QED BY <2>4, <3>1, <3>2, <3>3 DEF OrderFits
  <2>10. RequestFits(u, notes, order')
    <3>1. more[q.rev].status = q.status /\ more[q.rev].verified = q.verified /\ ~more[q.rev].whole
      BY <1>1, <1>6, <2>2
    <3>2. q.status = "CLOSED" => Remedied(order'[o], q.verified, notes)
      BY <2>4, <2>8 DEF Remedied
    <3> QED BY <1>6, <2>2, <2>4, <2>7, <2>8, <3>1, <3>2 DEF RequestFits
  <2>11. ASSUME NEW t \in Threads, t # r, request[t].op = "update", request[t].order = o
         PROVE  request[t].step = "read" /\ RequestFits(request[t], notes, order')
    <3>1. request[t] \in Updates /\ RequestFits(request[t], notes, order)
      BY <2>11, RequestKinds
    <3>2. request[t].step = "read" /\ request[t].rev <= Len(s) + 1
      <4>1. request[t].step # "open"
        BY <1>1, <1>4, <2>8, <2>11, <3>1 DEF RequestFits, Updates, Whole
      <4> QED BY <1>1, <2>11, <3>1, <4>1 DEF RequestFits, Updates
    <3>3. request[t].status = "CLOSED" => Remedied(order'[o], request[t].verified, notes)
      BY <2>4, <2>11, <3>1 DEF RequestFits, Remedied
    <3>4. request[t].rev <= Len(more) + 1 /\ request[t].rev # Len(more) + 1
      BY <1>4, <2>2, <3>1, <3>2 DEF Updates
    <3> QED BY <2>4, <2>8, <2>11, <3>1, <3>2, <3>3, <3>4 DEF RequestFits
  <2>12. OpenOnce(request')
    <3>1. \A t \in Threads : request'[t] = IF t = r THEN u ELSE request[t]
      BY <2>6 DEF WorkspaceInv, WorkspaceShape
    <3> QED BY <2>7, <2>11, <3>1 DEF WorkspaceInv, OpenOnce
  <2>13. u \in WorkspaceCalls
    BY <2>7 DEF WorkspaceCalls
  <2>14. \A t \in Threads : t # r /\ request[t].op = "update" /\ request[t].order = o =>
            RequestFits(request[t], notes, order')
    BY <2>11
  <2>15. o \in Orders /\ more \in Seq(Revisions)
    BY <1>2, <2>2
  <2>16. WrittenBy(r, o, more, u)
    BY <2>3, <2>6, <2>9, <2>10, <2>12, <2>14 DEF WrittenBy
  <2> QED BY <2>13, <2>15, <2>16, OrderWritten
<1> QED BY <1>5, <1>6

LEMMA EndOrderStep ==
  ASSUME WorkspaceInv, NEW r \in Threads, Workspace!EndOrder(r)
  PROVE  WorkspaceInv'
<1>1. PICK q, o, s, e :
        /\ q = request[r] /\ o = q.order /\ s = order[o].revs
        /\ e = [status |-> q.status, verified |-> q.verified, whole |-> TRUE]
  OBVIOUS
<1>2. q \in Updates /\ q.step = "open" /\ RequestFits(q, notes, order) /\ o \in Orders
  BY <1>1, RequestKinds DEF Workspace!EndOrder, Updates
<1>3. order[o] \in OrderRows /\ order \in [Orders -> OrderRows]
  BY <1>2 DEF WorkspaceInv, WorkspaceShape
<1>4. s \in Seq(Revisions) /\ e \in Revisions
  BY <1>1, <1>2, <1>3 DEF Updates, Revisions, OrderRows
<1>5. /\ order[o].dir /\ q.rev = Len(s) /\ q.rev \in DOMAIN s /\ ~s[q.rev].whole
      /\ s[q.rev].status = q.status /\ s[q.rev].verified = q.verified
  BY <1>1, <1>2, <1>4 DEF RequestFits, Updates
<1>6. PICK more : more = [s EXCEPT ![q.rev] = e]
  OBVIOUS
<1>7. more \in Seq(Revisions) /\ Len(more) = Len(s)
      /\ \A n \in DOMAIN s : more[n] = IF n = q.rev THEN e ELSE s[n]
  BY <1>4, <1>5, <1>6, ExceptSeq
<1>8. order' = [order EXCEPT ![o].revs = more] /\ request' = [request EXCEPT ![r] = Workspace!Idle]
      /\ UNCHANGED <<image, notes, crashes>>
  BY <1>1, <1>3, <1>6 DEF Workspace!EndOrder, OrderRows
<1>9. /\ order'[o].revs = more /\ order'[o].dir = order[o].dir /\ order'[o].asset = order[o].asset
      /\ order'[o].base = order[o].base /\ order'[o].box = order[o].box
  BY <1>2, <1>7, <1>8, RowWritten
<1>10. OrderFits(order'[o], notes)
  <2>1. OrderFits(order[o], notes)
    BY <1>2 DEF WorkspaceInv
  <2>2. DOMAIN more = DOMAIN s
    BY <1>4, <1>7
  <2>3. \A n \in DOMAIN more : /\ more[n].status = s[n].status /\ more[n].verified = s[n].verified
                               /\ s[n].whole => more[n].whole
    BY <1>1, <1>5, <1>7, <2>2
  <2>4. OnlyLastTorn(more)
    BY <1>1, <1>7, <2>1, <2>2, <2>3 DEF OrderFits, OnlyLastTorn
  <2>5. ASSUME NEW n \in DOMAIN more
        PROVE  /\ more[n].status = "CLOSED" => Remedied(order'[o], more[n].verified, notes)
               /\ n > 1 => more[n].status \in Workspace!Transitions[more[n - 1].status]
    <3>1. n > 1 => n - 1 \in DOMAIN more
      BY <1>4, <2>2
    <3>2. n \in DOMAIN s /\ n \in DOMAIN order[o].revs
      BY <1>1, <2>2
    <3>3. more[n].status = "CLOSED" => Remedied(order'[o], more[n].verified, notes)
      <4>1. s[n].status = "CLOSED" => Remedied(order[o], s[n].verified, notes)
        BY <1>1, <2>1, <3>2 DEF OrderFits
      <4> QED BY <1>9, <2>3, <4>1 DEF Remedied
    <3>4. n > 1 => more[n].status \in Workspace!Transitions[more[n - 1].status]
      <4>1. n > 1 => s[n].status \in Workspace!Transitions[s[n - 1].status]
        BY <1>1, <2>1, <3>2 DEF OrderFits
      <4>2. n > 1 => more[n - 1].status = s[n - 1].status
        BY <2>3, <3>1
      <4> QED BY <2>3, <4>1, <4>2
    <3> QED BY <3>3, <3>4
  <2>6. order'[o].dir /\ order'[o].asset \in Assets
    BY <1>5, <1>9, <2>1 DEF OrderFits
  <2> QED BY <1>9, <2>4, <2>5, <2>6 DEF OrderFits
<1>11. ASSUME NEW t \in Threads, t # r, request[t].op = "update", request[t].order = o
       PROVE  RequestFits(request[t], notes, order')
  <2>1. request[t] \in Updates /\ RequestFits(request[t], notes, order)
    BY <1>11, RequestKinds
  <2>2. request[t].step = "read"
    BY <1>1, <1>2, <1>11, <2>1 DEF WorkspaceInv, OpenOnce, Updates
  <2>3. request[t].rev <= Len(s) + 1 /\ request[t].rev # Len(s) + 1
    BY <1>1, <1>4, <1>5, <1>11, <2>1, <2>2 DEF RequestFits, Whole
  <2>4. request[t].status = "CLOSED" => Remedied(order'[o], request[t].verified, notes)
    BY <1>9, <1>11, <2>1 DEF RequestFits, Remedied
  <2> QED BY <1>5, <1>7, <1>9, <1>11, <2>2, <2>3, <2>4 DEF RequestFits
<1>12. OpenOnce(request')
  <2>1. \A t \in Threads : request'[t] = IF t = r THEN Workspace!Idle ELSE request[t]
    BY <1>8 DEF WorkspaceInv, WorkspaceShape
  <2> QED BY <2>1 DEF WorkspaceInv, OpenOnce, Workspace!Idle
<1>13. Workspace!Idle \in WorkspaceCalls /\ RequestFits(Workspace!Idle, notes, order')
  BY DEF WorkspaceCalls, RequestFits, Workspace!Idle
<1>14. \A t \in Threads : t # r /\ request[t].op = "update" /\ request[t].order = o =>
          RequestFits(request[t], notes, order')
  BY <1>11
<1>15. o \in Orders /\ more \in Seq(Revisions)
  BY <1>2, <1>7
<1> HIDE DEF Workspace!Idle
<1>16. WrittenBy(r, o, more, Workspace!Idle)
  BY <1>8, <1>10, <1>12, <1>13, <1>14 DEF WrittenBy
<1> QED BY <1>13, <1>15, <1>16, OrderWritten

LEMMA WorkspaceStepInv == WorkspaceInv /\ [Workspace!Next]_workspaceVars => WorkspaceInv'
<1> SUFFICES ASSUME WorkspaceInv, [Workspace!Next]_workspaceVars PROVE WorkspaceInv'
  OBVIOUS
<1>1. CASE UNCHANGED workspaceVars
  <2>1. WorkspaceShape' /\ request' = request /\ notes' = notes /\ order' = order
    BY <1>1 DEF workspaceVars, WorkspaceInv, WorkspaceShape
  <2> QED BY <2>1 DEF WorkspaceInv
<1>2. CASE Workspace!Next
  <2>1. ASSUME NEW r \in Threads,
               \/ \E a \in Assets : \/ Workspace!StartUpload(r, a)
                                    \/ \E box \in Boxes : Workspace!StartSave(r, a, box)
               \/ Workspace!OpenAsset(r) \/ Workspace!EndUpload(r)
               \/ Workspace!OpenNotes(r) \/ Workspace!EndNotes(r)
               \/ \E o \in Orders :
                    \/ \E a \in Assets : Workspace!StartOrder(r, o, a)
                    \/ \E next \in OrderStatuses : Workspace!StartUpdate(r, o, next)
               \/ Workspace!MakeOrder(r) \/ Workspace!OpenOrder(r) \/ Workspace!EndOrder(r)
               \/ Workspace!Crash(r)
        PROVE  WorkspaceInv'
    BY <2>1, UploadStep, StartSaveStep, OpenNotesStep, EndNotesStep, StartOrderStep, StartUpdateStep,
       MakeOrderStep, OpenOrderStep, EndOrderStep
  <2> QED BY <1>2, <2>1 DEF Workspace!Next, OrderStatuses
<1> QED BY <1>1, <1>2

\* What the invariant says of the documents.
LEMMA WorkspacePromises ==
  WorkspaceInv => /\ Workspace!TypeOK /\ Workspace!LegalHistory
                  /\ Workspace!ClosedIsRemediated /\ Workspace!TornIsLast
<1> SUFFICES ASSUME WorkspaceInv
             PROVE  /\ Workspace!TypeOK /\ Workspace!LegalHistory
                    /\ Workspace!ClosedIsRemediated /\ Workspace!TornIsLast
  OBVIOUS
<1>1. \A o \in Orders : order[o] \in OrderRows /\ order[o].revs \in Seq(Revisions) /\ OrderFits(order[o], notes)
  BY DEF WorkspaceInv, WorkspaceShape, OrderRows
<1>2. Workspace!TypeOK
  BY <1>1 DEF WorkspaceInv, WorkspaceShape, Notes, Revisions, OrderStatuses, Workspace!TypeOK
<1>3. ASSUME NEW o \in Orders, NEW n \in 2 .. Len(order[o].revs)
      PROVE  order[o].revs[n].status \in Workspace!Transitions[order[o].revs[n - 1].status]
  BY <1>1 DEF OrderFits
<1>4. ASSUME NEW o \in Orders, NEW n \in DOMAIN order[o].revs, order[o].revs[n].status = "CLOSED"
      PROVE  LET v == order[o].revs[n].verified IN
             /\ v > order[o].base /\ v <= Len(notes[order[o].asset])
             /\ Workspace!BoxOf(order[o].asset, v) # order[o].box
  <2>1. Remedied(order[o], order[o].revs[n].verified, notes)
    BY <1>1, <1>4 DEF OrderFits
  <2>2. order[o].base \in Nat /\ order[o].revs[n].verified # 0
    <3>1. order[o].revs[n] \in Revisions /\ order[o].base \in Nat
      BY <1>1, <1>4, ElementOfSeq DEF OrderRows
    <3> QED BY <2>1, <3>1, StoresAssumption DEF Remedied, Revisions
  <2> QED BY <2>1, <2>2 DEF Remedied, Workspace!BoxOf
<1>5. Workspace!TornIsLast
  BY <1>1 DEF WorkspaceInv, DocumentFits, OrderFits, OnlyLastTorn, Workspace!TornIsLast
<1> QED BY <1>2, <1>3, <1>4, <1>5 DEF Workspace!LegalHistory, Workspace!ClosedIsRemediated

\* Nothing that was written is replaced.
LEMMA WorkspaceAppends == WorkspaceInv /\ [Workspace!Next]_workspaceVars => Workspace!Appends
<1> SUFFICES ASSUME WorkspaceInv, [Workspace!Next]_workspaceVars PROVE Workspace!Appends
  OBVIOUS
<1>1. CASE notes' = notes /\ order' = order
  BY <1>1 DEF Workspace!Appends
<1>2. ASSUME NEW r \in Threads, Workspace!OpenNotes(r) \/ Workspace!EndNotes(r) PROVE Workspace!Appends
  <2>1. PICK q, a : q = request[r] /\ a = q.asset
    OBVIOUS
  <2>2. q \in Saves /\ RequestFits(q, notes, order) /\ a \in Assets
    BY <1>2, <2>1, RequestKinds DEF Workspace!OpenNotes, Workspace!EndNotes, Saves
  <2>3. notes \in [Assets -> Seq(Notes)] /\ order' = order /\ notes[a] \in Seq(Notes)
    BY <1>2, <2>2 DEF WorkspaceInv, WorkspaceShape, Workspace!OpenNotes, Workspace!EndNotes
  <2>4. PICK s : notes' = [notes EXCEPT ![a] = s]
                 /\ \A n \in DOMAIN notes[a] : n \in DOMAIN s /\ s[n].box = notes[a][n].box
    <3>1. CASE Workspace!OpenNotes(r)
      <4>1. PICK e : e = [box |-> q.box, whole |-> FALSE]
        OBVIOUS
      <4>2. PICK s : s = Workspace!PutRevision(notes[a], q.rev, e)
        OBVIOUS
      <4>3. notes' = [notes EXCEPT ![a] = s]
        BY <2>1, <3>1, <4>1, <4>2 DEF Workspace!OpenNotes
      <4>4. \A n \in DOMAIN notes[a] : n \in DOMAIN s /\ s[n].box = notes[a][n].box
        <5>1. e \in Notes
          BY <2>2, <4>1 DEF Notes, Saves
        <5>2. CASE s = notes[a]
          BY <5>2
        <5>3. CASE s = Append(notes[a], e)
          <6>1. \A n \in DOMAIN notes[a] : n \in DOMAIN s /\ s[n] = notes[a][n]
            BY <2>3, <5>1, <5>3, AppendProperties
          <6> QED BY <6>1
        <5> QED BY <4>2, <5>2, <5>3 DEF Workspace!PutRevision
      <4> QED BY <4>3, <4>4
    <3>2. CASE Workspace!EndNotes(r)
      <4>1. PICK e, s : e = [box |-> q.box, whole |-> TRUE] /\ s = [notes[a] EXCEPT ![q.rev] = e]
        OBVIOUS
      <4>2. notes' = [notes EXCEPT ![a] = s]
        BY <2>1, <2>3, <3>2, <4>1 DEF Workspace!EndNotes
      <4>3. notes[a][q.rev].box = q.box /\ q.step = "open"
        BY <2>1, <2>2, <3>2 DEF Workspace!EndNotes, RequestFits
      <4>4. \A n \in DOMAIN notes[a] : n \in DOMAIN s /\ s[n].box = notes[a][n].box
        BY <2>3, <4>1, <4>3
      <4> QED BY <4>2, <4>4
    <3> QED BY <1>2, <3>1, <3>2
  <2>5. ASSUME NEW b \in Assets, NEW n \in DOMAIN notes[b]
        PROVE  n \in DOMAIN notes'[b] /\ notes'[b][n].box = notes[b][n].box
    <3>1. CASE b = a
      BY <2>2, <2>3, <2>4, <3>1
    <3>2. CASE b # a
      BY <2>3, <2>4, <3>2
    <3> QED BY <3>1, <3>2
  <2> QED BY <2>3, <2>5 DEF Workspace!Appends
<1>3. ASSUME NEW r \in Threads, Workspace!MakeOrder(r) PROVE Workspace!Appends
  <2>1. notes' = notes /\ request[r].order \in Orders /\ ~order[request[r].order].dir
    BY <1>3, RequestKinds DEF Workspace!MakeOrder, Drafts, RequestFits
  <2>2. \A o \in Orders : order[o].dir => order'[o] = order[o]
    BY <1>3, <2>1 DEF Workspace!MakeOrder, WorkspaceInv, WorkspaceShape
  <2> QED BY <2>1, <2>2 DEF Workspace!Appends
<1>4. ASSUME NEW r \in Threads, Workspace!OpenOrder(r) \/ Workspace!EndOrder(r) PROVE Workspace!Appends
  <2>1. PICK q, o, s : q = request[r] /\ o = q.order /\ s = order[o].revs
    OBVIOUS
  <2>2. q \in Updates /\ RequestFits(q, notes, order) /\ o \in Orders
    BY <1>4, <2>1, RequestKinds DEF Workspace!OpenOrder, Workspace!EndOrder, Updates
  <2>3. notes' = notes /\ order \in [Orders -> OrderRows] /\ order[o] \in OrderRows
    BY <1>4, <2>2 DEF WorkspaceInv, WorkspaceShape, Workspace!OpenOrder, Workspace!EndOrder
  <2>4. s \in Seq(Revisions)
    BY <2>1, <2>3 DEF OrderRows
  <2>5. PICK more : order' = [order EXCEPT ![o].revs = more]
                    /\ \A n \in DOMAIN s : n \in DOMAIN more /\ more[n].status = s[n].status
    <3>1. CASE Workspace!OpenOrder(r)
      <4>1. PICK e, more : /\ e = [status |-> q.status, verified |-> q.verified, whole |-> FALSE]
                           /\ more = Workspace!PutRevision(s, q.rev, e)
        OBVIOUS
      <4>2. e \in Revisions
        BY <2>2, <4>1 DEF Updates, Revisions
      <4>3. order' = [order EXCEPT ![o].revs = more]
        BY <2>1, <3>1, <4>1 DEF Workspace!OpenOrder
      <4>4. CASE more = s
        BY <4>3, <4>4
      <4>5. CASE more = Append(s, e)
        <5>1. \A n \in DOMAIN s : n \in DOMAIN more /\ more[n] = s[n]
          BY <2>4, <4>2, <4>5, RowExtended
        <5>2. \A n \in DOMAIN s : n \in DOMAIN more /\ more[n].status = s[n].status
          BY <5>1
        <5> QED BY <4>3, <5>2
      <4> QED BY <4>1, <4>4, <4>5 DEF Workspace!PutRevision
    <3>2. CASE Workspace!EndOrder(r)
      <4>1. PICK e, more : /\ e = [status |-> q.status, verified |-> q.verified, whole |-> TRUE]
                           /\ more = [s EXCEPT ![q.rev] = e]
        OBVIOUS
      <4>2. order' = [order EXCEPT ![o].revs = more]
        BY <2>1, <2>3, <3>2, <4>1 DEF Workspace!EndOrder, OrderRows
      <4>3. s[q.rev].status = q.status
        BY <2>1, <2>2, <3>2 DEF Workspace!EndOrder, RequestFits
      <4>4. \A n \in DOMAIN s : n \in DOMAIN more /\ more[n].status = s[n].status
        BY <2>4, <4>1, <4>3
      <4> QED BY <4>2, <4>4
    <3> QED BY <1>4, <3>1, <3>2
  <2>6. ASSUME NEW p \in Orders, NEW n \in DOMAIN order[p].revs
        PROVE  n \in DOMAIN order'[p].revs /\ order'[p].revs[n].status = order[p].revs[n].status
    <3>1. CASE p = o
      <4>1. order'[p].revs = more
        BY <2>2, <2>3, <2>5, <3>1 DEF OrderRows
      <4> QED BY <2>1, <2>5, <3>1, <4>1
    <3>2. CASE p # o
      <4>1. order'[p] = order[p]
        BY <2>3, <2>5, <3>2
      <4> QED BY <4>1
    <3> QED BY <3>1, <3>2
  <2> QED BY <2>3, <2>6 DEF Workspace!Appends
<1> QED BY <1>1, <1>2, <1>3, <1>4 DEF Workspace!Next, workspaceVars, Workspace!StartUpload, Workspace!StartSave,
          Workspace!OpenAsset, Workspace!EndUpload, Workspace!StartOrder, Workspace!StartUpdate,
          Workspace!Crash

\* A version is derived by the request that has just seen it at the head of the
\* pool, from a source that is active, and once.
LEMMA PoolDerives == PoolInv /\ [Pool!Next]_poolVars => Pool!DerivesCurrent
<1> SUFFICES ASSUME PoolInv, [Pool!Next]_poolVars,
                    NEW n \in 1 .. MaxVersions, derived'[n] # derived[n]
             PROVE  n = Len(pool) /\ derived[n] = "none" /\ source[pool[n].task] = "active"
  BY DEF Pool!DerivesCurrent
<1>1. PICK r \in Threads : Pool!WriteDerivation(r)
  BY DEF Pool!Next, poolVars, Pool!ReadForVersion, Pool!WriteVersion, Pool!ReadForDerive,
         Pool!DeriveContext, Pool!MakeDirectory, Pool!FinishDirectory, Pool!RecoverDirectory,
         Pool!Authorize, Pool!ReadInput, Pool!ConfirmInput, Pool!Publish, Pool!RevokeSource,
         Pool!Drift, Pool!Stop
<1> QED BY <1>1 DEF Pool!WriteDerivation, Pool!Last, PoolInv, PoolShape

-----------------------------------------------------------------------------
(* The composition: a step is one of one component *)

LEMMA StoresInvariant == AllSpec => [](PoolInv /\ WorkspaceInv)
<1>1. AllInit => PoolInv /\ WorkspaceInv
  BY PoolInit, WorkspaceInit DEF AllInit
<1>2. [AllNext]_allVars => [Pool!Next]_poolVars /\ [Workspace!Next]_workspaceVars
  BY DEF AllNext, allVars, AccountsStep, PoolStep, DriftingStep, WorkspaceStep
<1>3. PoolInv /\ WorkspaceInv /\ [AllNext]_allVars => (PoolInv /\ WorkspaceInv)'
  BY <1>2, PoolStepInv, WorkspaceStepInv
<1> QED BY <1>1, <1>3, PTL DEF AllSpec

\* However the requests of a pool and of a workspace interleave, and wherever
\* one of them stops: no review is lost, a subset is derived from a whole
\* snapshot without findings, only a version gated anew is exported, the history
\* of a work order is legal, a closed order is remediated, and a torn revision
\* is never continued over.
THEOREM ReviewsSound == AllSpec => []ReviewsAreSound
<1>1. PoolInv /\ WorkspaceInv => ReviewsAreSound
  BY PoolPromises, WorkspacePromises DEF ReviewsAreSound
<1> QED BY StoresInvariant, <1>1, PTL

\* A version is derived at most once and while it is the current one, and what
\* was saved in a workspace is neither replaced nor lost to another request.
THEOREM RecordsAreKept == AllSpec => RecordsStand
<1>1. PoolInv /\ WorkspaceInv /\ [AllNext]_allVars => Pool!DerivesCurrent /\ Workspace!Appends
  <2>1. [AllNext]_allVars => [Pool!Next]_poolVars /\ [Workspace!Next]_workspaceVars
    BY DEF AllNext, allVars, AccountsStep, PoolStep, DriftingStep, WorkspaceStep
  <2> QED BY <2>1, PoolDerives, WorkspaceAppends
<1>2. PoolInv /\ WorkspaceInv /\ [AllNext]_allVars
        => [Pool!DerivesCurrent /\ Workspace!Appends]_allVars
  BY <1>1
<1> QED BY StoresInvariant, <1>2, PTL DEF AllSpec, RecordsStand
=============================================================================
