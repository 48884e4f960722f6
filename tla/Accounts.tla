------------------------------ MODULE Accounts ------------------------------
(***************************************************************************)
(* IdentityService (identity_service.py): local accounts, their roles,     *)
(* opaque sessions and the members of a workspace.  Every method ends in   *)
(* one BEGIN IMMEDIATE transaction, but login and change_password first    *)
(* read the credential, derive a key slowly outside any transaction, and   *)
(* only then write: other threads and processes act in between.            *)
(*                                                                         *)
(* An operation names its actor.  The API authenticated that actor in an   *)
(* earlier transaction, so any account may appear as the actor here and    *)
(* the operation checks it again, as the code does.                        *)
(***************************************************************************)
EXTENDS Naturals, FiniteSets

CONSTANTS
  Users,       \* accounts, registered and to come
  Bootstrap,   \* the actor that sets identity up, owner of the workspace
  Sessions,    \* identifiers of sessions, issued and to come
  Passwords,
  Threads,     \* requests that are between their read and their write
  MaxVersion,  \* bound: credential_version stops here
  None

ASSUME AccountsAssumption ==
  /\ Bootstrap \in Users
  /\ MaxVersion \in Nat \ {0}
  /\ None \notin Users \cup Passwords

VARIABLES
  status,     \* identity_credentials.status
  role,       \* identity_credentials.platform_role
  version,    \* identity_credentials.credential_version
  password,   \* what password_salt and password_hash were derived from
  session,    \* identity_sessions
  work,       \* a login or password change past its slow key derivation
  members     \* workspace_members of the workspace that Bootstrap owns

accounts == <<status, role, version, password>>
vars == <<accounts, session, work, members>>

Statuses == {"ABSENT", "PENDING", "ACTIVE", "DISABLED"}
\* opened: the password the session was obtained with (not stored by the code).
SessionRows == [user : Users, version : 1..MaxVersion, opened : Passwords,
                state : {"LIVE", "REVOKED", "EXPIRED"}]
NoSession == [user |-> None, version |-> 0, opened |-> None, state |-> "NONE"]
Work == [kind : {"login", "change"}, user : Users, version : 1..MaxVersion,
         proof : Passwords, new : Passwords]
NoWork == [kind |-> "none", user |-> None, version |-> 0, proof |-> None,
           new |-> None]

TypeOK ==
  /\ status \in [Users -> Statuses]
  /\ role \in [Users -> {"ADMIN", "USER"}]
  /\ version \in [Users -> 1..MaxVersion]
  /\ password \in [Users -> Passwords \cup {None}]
  /\ session \in [Sessions -> SessionRows \cup {NoSession}]
  /\ work \in [Threads -> Work \cup {NoWork}]
  /\ members \in SUBSET Users

\* Before setup there are no accounts; the workspace and its owner exist.
Init ==
  /\ status = [u \in Users |-> "ABSENT"]
  /\ role = [u \in Users |-> "USER"]
  /\ version = [u \in Users |-> 1]
  /\ password = [u \in Users |-> None]
  /\ session = [s \in Sessions |-> NoSession]
  /\ work = [t \in Threads |-> NoWork]
  /\ members = {Bootstrap}

\* identity_enabled_in_connection: setup inserted the singleton row together
\* with the credential of the bootstrap actor.
Enabled == status[Bootstrap] # "ABSENT"

Active(u) == status[u] = "ACTIVE"
Admin(u) == Active(u) /\ role[u] = "ADMIN"

-----------------------------------------------------------------------------
(***************************************************************************)
(* Sessions.                                                               *)
(***************************************************************************)

\* _issue_session for the account row of u.
IssueSession(s, u, pw) ==
  /\ session[s] = NoSession
  /\ session' = [session EXCEPT ![s] =
       [user |-> u, version |-> version[u], opened |-> pw, state |-> "LIVE"]]

\* UPDATE identity_sessions SET revoked_at = COALESCE(revoked_at, now).
Revoked(row) == IF row.state = "NONE" THEN row ELSE [row EXCEPT !.state = "REVOKED"]

RevokeSessionsOf(u) ==
  session' = [s \in Sessions |->
                IF session[s].user = u THEN Revoked(session[s]) ELSE session[s]]

\* authenticate accepts the token of session s.
Usable(s) ==
  /\ session[s].state = "LIVE"
  /\ Active(session[s].user)
  /\ version[session[s].user] = session[s].version

\* revoke_session: of one's own sessions, by an active account.
RevokeSession(actor, s) ==
  /\ Active(actor)
  /\ session[s].user = actor
  /\ session' = [session EXCEPT ![s] = Revoked(@)]
  /\ UNCHANGED <<accounts, work, members>>

\* expires_at passes.
SessionExpires(s) ==
  /\ session[s].state = "LIVE"
  /\ session' = [session EXCEPT ![s].state = "EXPIRED"]
  /\ UNCHANGED <<accounts, work, members>>

-----------------------------------------------------------------------------
(***************************************************************************)
(* Accounts.                                                               *)
(***************************************************************************)
NewAccount(u, r, st, pw) ==
  /\ status[u] = "ABSENT"
  /\ status' = [status EXCEPT ![u] = st]
  /\ role' = [role EXCEPT ![u] = r]
  /\ password' = [password EXCEPT ![u] = pw]
  /\ UNCHANGED version

\* setup: once, the bootstrap actor becomes the first administrator.
Setup(s, pw) ==
  /\ ~Enabled
  /\ NewAccount(Bootstrap, "ADMIN", "ACTIVE", pw)
  /\ IssueSession(s, Bootstrap, pw)
  /\ UNCHANGED <<work, members>>

\* Mutant of Register: the role is written in the case of the API's field.
RegisterLower(u, pw) ==
  /\ Enabled
  /\ NewAccount(u, "user", "PENDING", pw)
  /\ UNCHANGED <<session, work, members>>

\* register: an account that an administrator has to approve.
Register(u, pw) ==
  /\ Enabled
  /\ NewAccount(u, "USER", "PENDING", pw)
  /\ UNCHANGED <<session, work, members>>

Approve(actor, u) ==
  /\ Admin(actor)
  /\ status[u] = "PENDING"
  /\ status' = [status EXCEPT ![u] = "ACTIVE"]
  /\ UNCHANGED <<role, version, password, session, work, members>>

\* Mutant of ProtectLastAdmin: disabled administrators count.
CountsDisabled(u) ==
  Admin(u) => \E x \in Users \ {u} : role[x] = "ADMIN" /\ status[x] # "ABSENT"

\* _protect_last_admin: refused when u is the only active administrator.
ProtectLastAdmin(u) == Admin(u) => \E x \in Users \ {u} : Admin(x)

\* Mutant of Disable: the sessions stay as they are, and the version too.
DisableOnly(actor, u) ==
  /\ Admin(actor)
  /\ status[u] \notin {"ABSENT", "PENDING"}
  /\ ProtectLastAdmin(u)
  /\ status' = [status EXCEPT ![u] = "DISABLED"]
  /\ UNCHANGED <<role, version, password, session, work, members>>

\* set_status(u, DISABLED): the version moves and every session is revoked.
Disable(actor, u) ==
  /\ Admin(actor)
  /\ status[u] \notin {"ABSENT", "PENDING"}
  /\ ProtectLastAdmin(u)
  /\ version[u] < MaxVersion
  /\ status' = [status EXCEPT ![u] = "DISABLED"]
  /\ version' = [version EXCEPT ![u] = @ + 1]
  /\ RevokeSessionsOf(u)
  /\ UNCHANGED <<role, password, work, members>>

\* set_status(u, ACTIVE)
Enable(actor, u) ==
  /\ Admin(actor)
  /\ status[u] \notin {"ABSENT", "PENDING"}
  /\ status' = [status EXCEPT ![u] = "ACTIVE"]
  /\ UNCHANGED <<role, version, password, session, work, members>>

SetRole(actor, u, r) ==
  /\ Admin(actor)
  /\ Active(u)
  /\ r = "USER" => ProtectLastAdmin(u)
  /\ role' = [role EXCEPT ![u] = r]
  /\ UNCHANGED <<status, version, password, session, work, members>>

-----------------------------------------------------------------------------
(***************************************************************************)
(* Login and password change: read and verify, then write.                 *)
(***************************************************************************)

\* The credential is read, the key derived and compared: a wrong password, an
\* unknown account, a full key-derivation pool or a throttle ends here.
\* login reads an account of any status; change_password an active one.
Verify(t, kind, u, pw, new) ==
  /\ work[t] = NoWork
  /\ status[u] # "ABSENT" /\ password[u] = pw
  /\ kind = "change" => Active(u)
  /\ work' = [work EXCEPT ![t] = [kind |-> kind, user |-> u, proof |-> pw,
                                  version |-> version[u], new |-> new]]
  /\ UNCHANGED <<accounts, session, members>>

\* Mutant of StillCurrent: the version is not compared again.
OnlyActive(t) == Active(work[t].user)

\* The recheck inside the writing transaction.
StillCurrent(t) ==
  /\ Active(work[t].user)
  /\ version[work[t].user] = work[t].version

Done(t) == work' = [work EXCEPT ![t] = NoWork]

Login(t, s) ==
  /\ work[t].kind = "login"
  /\ StillCurrent(t)
  /\ IssueSession(s, work[t].user, work[t].proof)
  /\ Done(t)
  /\ UNCHANGED <<accounts, members>>

\* Mutant of ChangePassword: the open sessions are kept and the version too.
KeepsSessions(t) ==
  /\ work[t].kind = "change"
  /\ StillCurrent(t)
  /\ password' = [password EXCEPT ![work[t].user] = work[t].new]
  /\ Done(t)
  /\ UNCHANGED <<status, role, version, session, members>>

ChangePassword(t) ==
  LET u == work[t].user IN
  /\ work[t].kind = "change"
  /\ StillCurrent(t)
  /\ version[u] < MaxVersion
  /\ password' = [password EXCEPT ![u] = work[t].new]
  /\ version' = [version EXCEPT ![u] = @ + 1]
  /\ RevokeSessionsOf(u)
  /\ Done(t)
  /\ UNCHANGED <<status, role, members>>

\* The recheck fails, the client hangs up or the process dies.
Abandon(t) ==
  /\ work[t] # NoWork
  /\ Done(t)
  /\ UNCHANGED <<accounts, session, members>>

-----------------------------------------------------------------------------
(***************************************************************************)
(* Workspace members.  The owner manages them.                             *)
(***************************************************************************)
OwnsWorkspace(actor) == Active(actor) /\ actor = Bootstrap /\ actor \in members

AddMember(actor, u) ==
  /\ OwnsWorkspace(actor) /\ u # actor
  /\ Active(u)
  /\ members' = members \cup {u}
  /\ UNCHANGED <<accounts, session, work>>

RemoveMember(actor, u) ==
  /\ OwnsWorkspace(actor) /\ u # actor
  /\ members' = members \ {u}
  /\ UNCHANGED <<accounts, session, work>>

-----------------------------------------------------------------------------
Next ==
  \/ \E s \in Sessions, pw \in Passwords : Setup(s, pw)
  \/ \E u \in Users, pw \in Passwords : Register(u, pw)
  \/ \E a, u \in Users : Approve(a, u) \/ Disable(a, u) \/ Enable(a, u)
                          \/ AddMember(a, u) \/ RemoveMember(a, u)
  \/ \E a, u \in Users, r \in {"ADMIN", "USER"} : SetRole(a, u, r)
  \/ \E a \in Users, s \in Sessions : RevokeSession(a, s)
  \/ \E s \in Sessions : SessionExpires(s)
  \/ \E t \in Threads, k \in {"login", "change"}, u \in Users,
        pw, new \in Passwords : Verify(t, k, u, pw, new)
  \/ \E t \in Threads, s \in Sessions : Login(t, s)
  \/ \E t \in Threads : ChangePassword(t) \/ Abandon(t)

Spec == Init /\ [][Next]_vars

-----------------------------------------------------------------------------
(***************************************************************************)
(* Properties.                                                             *)
(***************************************************************************)

\* Once identity is set up somebody can always administer it, whatever order
\* administrators disable, demote, re-enable and promote each other in.
AdminRemains == Enabled => \E u \in Users : Admin(u)

\* A session that authenticates was opened with the password its account has
\* now: a login or a session that overlaps a password change, a disabling or a
\* re-enabling does not outlive it.
SessionsAreCurrent ==
  \A s \in Sessions : Usable(s) => session[s].opened = password[session[s].user]

\* A session that has stopped authenticating never does again: not by enabling
\* the account, changing its role or its password.
NoResurrection ==
  [][\A s \in Sessions : session[s] # NoSession /\ ~Usable(s) => ~Usable(s)']_vars
=============================================================================
