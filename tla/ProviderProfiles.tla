-------------------------- MODULE ProviderProfiles --------------------------
(***************************************************************************)
(* BYOK provider profiles: the registry in provider_profiles.sqlite3, the  *)
(* secret store beside it (one protected file per profile), and the        *)
(* requests of product_service.py that need both.  The two are written one *)
(* after the other, without a common transaction; a request may die between *)
(* two steps, or the later step may fail.  One owner; endpoints, models and *)
(* budgets are left out, a secret is there or not.                         *)
(***************************************************************************)
EXTENDS Naturals, FiniteSets

CONSTANTS
  Profiles,    \* profile ids, fresh for every create
  Workspaces,
  Requests,    \* concurrent requests
  NoProfile

VARIABLES
  row,     \* registry: status, workspace, is_default, secret_configured, last test
  secret,  \* profiles with a file in the secret store
  req,     \* each request: what it does, at which step, for which profile
  spent    \* history: ids whose create died or failed to clean up half way

vars == <<row, secret, req, spent>>

NoRow == [status |-> "NONE", ws |-> "none", default |-> FALSE,
          configured |-> FALSE, test |-> "NOT_TESTED"]
Idle == [op |-> "idle", p |-> NoProfile, ws |-> "none", default |-> FALSE,
         configured |-> FALSE]

Ops == {"idle", "create", "cleanup", "revoke", "revokeRow", "default",
        "endpoint", "secret", "probe"}

TypeOK ==
  /\ \A p \in Profiles :
       /\ row[p].status \in {"NONE", "ACTIVE", "REVOKED"}
       /\ row[p].test \in {"NOT_TESTED", "CONNECTED", "FAILED", "BLOCKED"}
  /\ secret \subseteq Profiles /\ spent \subseteq Profiles
  /\ \A r \in Requests : /\ req[r].op \in Ops
                         /\ req[r].op # "idle" => req[r].p \in Profiles

Init ==
  /\ row = [p \in Profiles |-> NoRow]
  /\ secret = {} /\ spent = {}
  /\ req = [r \in Requests |-> Idle]

Active(p) == row[p].status = "ACTIVE"

\* new_provider_profile_id: an id nobody has used.
Fresh(p) == /\ row[p].status = "NONE" /\ p \notin secret \cup spent
            /\ \A r \in Requests : req[r].p # p

\* The secret store writes a file under another name and renames it; to
\* delete a file that is not there is no error.
Stored(p) == secret \cup {p}
Deleted(p) == secret \ {p}

Done(r) == req' = [req EXCEPT ![r] = Idle]

-----------------------------------------------------------------------------
(* create_provider_profile *)

\* A remote provider has a key, a local one has none; the key is stored first.
PutSecret(r, p, ws, default, key) ==
  /\ req[r] = Idle /\ Fresh(p)
  /\ req' = [req EXCEPT ![r] = [op |-> "create", p |-> p, ws |-> ws,
                                default |-> default, configured |-> key]]
  /\ secret' = IF key THEN Stored(p) ELSE secret
  /\ UNCHANGED <<row, spent>>

\* UPDATE ... SET is_default = 0 for the workspace, revoked rows included.
Undefault(ws) ==
  [q \in Profiles |-> IF row[q].ws = ws THEN [row[q] EXCEPT !.default = FALSE]
                      ELSE row[q]]

\* registry.create, in one transaction.
CreateRow(r) ==
  LET q == req[r] IN
  /\ q.op = "create"
  /\ row' = [(IF q.default THEN Undefault(q.ws) ELSE row) EXCEPT ![q.p] =
               [status |-> "ACTIVE", ws |-> q.ws, default |-> q.default,
                configured |-> q.configured, test |-> "NOT_TESTED"]]
  /\ Done(r)
  /\ UNCHANGED <<secret, spent>>

\* The registry fails: the staged secret is to be removed.
CreateFails(r) ==
  /\ req[r].op = "create"
  /\ IF req[r].configured THEN req' = [req EXCEPT ![r].op = "cleanup"] ELSE Done(r)
  /\ UNCHANGED <<row, secret, spent>>

Cleanup(r) ==
  /\ req[r].op = "cleanup"
  /\ \/ secret' = Deleted(req[r].p) /\ spent' = spent
     \/ secret' = secret /\ spent' = spent \cup {req[r].p}
  /\ Done(r)
  /\ UNCHANGED row

-----------------------------------------------------------------------------
(* set_default_provider_profile and revoke_provider_profile *)

\* _provider_profile_for_actor, the first step of each.
Begin(r, p, op) ==
  /\ req[r] = Idle /\ Active(p)
  /\ req' = [req EXCEPT ![r] = [Idle EXCEPT !.op = op, !.p = p,
                                            !.configured = row[p].configured]]
  /\ UNCHANGED <<row, secret, spent>>

\* Mutant of RecordTest: the row is written whatever its status.
RecordTestAnyway(r, result) ==
  /\ req[r].op = "probe"
  /\ row' = [row EXCEPT ![req[r].p].test = result]
  /\ Done(r)
  /\ UNCHANGED <<secret, spent>>

\* Mutant of SetDefault: the target is not looked up again.
SetDefaultUnread(r) ==
  LET p == req[r].p IN
  /\ req[r].op = "default"
  /\ row' = [Undefault(row[p].ws) EXCEPT ![p].default = TRUE]
  /\ Done(r)
  /\ UNCHANGED <<secret, spent>>

\* registry.set_default looks the profile up again.
SetDefault(r) ==
  LET p == req[r].p IN
  /\ req[r].op = "default"
  /\ row' = IF Active(p) THEN [Undefault(row[p].ws) EXCEPT ![p].default = TRUE]
            ELSE row
  /\ Done(r)
  /\ UNCHANGED <<secret, spent>>

\* Mutant of DeleteSecret: a file that cannot be deleted is passed over.
DeleteSecretLeniently(r) ==
  LET p == req[r].p IN
  /\ req[r].op = "revoke"
  /\ req' = [req EXCEPT ![r].op = "revokeRow"]
  /\ secret' \in {secret, Deleted(p)}
  /\ UNCHANGED <<row, spent>>

\* The file goes first; when it cannot be deleted the profile stays ACTIVE.
DeleteSecret(r) ==
  LET p == req[r].p IN
  /\ req[r].op = "revoke"
  /\ \/ /\ secret' = Deleted(p)
        /\ req' = [req EXCEPT ![r].op = "revokeRow"]
     \/ secret' = secret /\ Done(r)
  /\ UNCHANGED <<row, spent>>

RevokeRow(r) ==
  LET p == req[r].p IN
  /\ req[r].op = "revokeRow"
  /\ row' = IF Active(p)
            THEN [row EXCEPT ![p].status = "REVOKED", ![p].default = FALSE]
            ELSE row
  /\ Done(r)
  /\ UNCHANGED <<secret, spent>>

-----------------------------------------------------------------------------
(* test_saved_provider_connection and _workspace_provider_planner *)

\* Mutant of BeginDefault: a workspace without a default is not refused.
BeginDefaultOrNone(r, ws) ==
  /\ req[r] = Idle
  /\ \A p \in Profiles : ~(Active(p) /\ row[p].ws = ws /\ row[p].default)
  /\ req' = [req EXCEPT ![r] = [Idle EXCEPT !.op = "endpoint"]]
  /\ UNCHANGED <<row, secret, spent>>

\* The planner starts from the default of its workspace.
BeginDefault(r, ws) ==
  /\ req[r] = Idle
  /\ \E p \in Profiles :
       /\ Active(p) /\ row[p].ws = ws /\ row[p].default
       /\ req' = [req EXCEPT ![r] = [Idle EXCEPT !.op = "endpoint", !.p = p,
                                                 !.configured = row[p].configured]]
  /\ UNCHANGED <<row, secret, spent>>

\* endpoint_for_profile
ReadEndpoint(r) ==
  /\ req[r].op = "endpoint"
  /\ IF Active(req[r].p) THEN req' = [req EXCEPT ![r].op = "secret"] ELSE Done(r)
  /\ UNCHANGED <<row, secret, spent>>

\* Mutant of ReadSecret: a missing key is sent as no key.
ReadSecretOrNone(r) ==
  /\ req[r].op = "secret"
  /\ req' = [req EXCEPT ![r].op = "probe", ![r].configured = req[r].p \in secret]
  /\ UNCHANGED <<row, secret, spent>>

\* A profile that has a key configured is not used without it.
ReadSecret(r) ==
  LET p == req[r].p IN
  /\ req[r].op = "secret"
  /\ IF req[r].configured /\ p \notin secret
     THEN Done(r)
     ELSE req' = [req EXCEPT ![r].op = "probe", ![r].configured = p \in secret]
  /\ UNCHANGED <<row, secret, spent>>

\* probe_provider_connection: an answer with choices, an answer without or a
\* failed exchange, a destination the client's policy refuses.
ProbeResults == {"CONNECTED", "FAILED", "BLOCKED"}

\* The probe ends and record_test stores its result, on an ACTIVE row only.
RecordTest(r, result) ==
  LET p == req[r].p IN
  /\ req[r].op = "probe"
  /\ row' = IF Active(p) THEN [row EXCEPT ![p].test = result] ELSE row
  /\ Done(r)
  /\ UNCHANGED <<secret, spent>>

-----------------------------------------------------------------------------

\* The process dies.
Die ==
  /\ \E r \in Requests : req[r] # Idle
  /\ spent' = spent \cup {req[r].p : r \in {s \in Requests : req[s].op \in {"create", "cleanup"}}}
  /\ req' = [r \in Requests |-> Idle]
  /\ UNCHANGED <<row, secret>>

Next ==
  \/ \E r \in Requests :
       \/ \E p \in Profiles, ws \in Workspaces, d, key \in BOOLEAN : PutSecret(r, p, ws, d, key)
       \/ CreateRow(r) \/ CreateFails(r) \/ Cleanup(r)
       \/ \E p \in Profiles, op \in {"revoke", "default", "endpoint"} : Begin(r, p, op)
       \/ SetDefault(r) \/ DeleteSecret(r) \/ RevokeRow(r)
       \/ \E ws \in Workspaces : BeginDefault(r, ws)
       \/ ReadEndpoint(r) \/ ReadSecret(r)
       \/ \E result \in ProbeResults : RecordTest(r, result)
  \/ Die

Spec == Init /\ [][Next]_vars

-----------------------------------------------------------------------------
(* Properties *)

\* A workspace has at most one default, and it is ACTIVE: whatever requests
\* interleave, the unique index is never what stops them.
OneDefault ==
  \A p, q \in Profiles :
    /\ row[p].default => Active(p)
    /\ (row[p].default /\ row[q].default /\ row[p].ws = row[q].ws) => p = q

\* The key of a revoked profile is gone for good, and a key without a
\* profile belongs to a create that is under way or that was cut short.
NoKeyLeftBehind ==
  \A p \in secret :
    /\ row[p].status # "REVOKED"
    /\ row[p].status = "NONE" =>
         p \in spent \/ \E r \in Requests : req[r].p = p /\ req[r].op \in {"create", "cleanup"}

\* A profile with a key is never probed, or planned with, without one: a
\* revocation that is half done stops it.
KeyedStaysKeyed ==
  \A r \in Requests : req[r].op = "probe" /\ row[req[r].p].configured => req[r].configured

\* The three: whatever a request leaves half done, defaults and keys fit.
ProfilesAreKeyed == OneDefault /\ NoKeyLeftBehind /\ KeyedStaysKeyed

\* No step makes a revoked profile active again or changes what it was.
KeepsRevoked == \A p \in Profiles : row[p].status = "REVOKED" => row'[p] = row[p]

\* Throughout every run.
RevokedIsFinal == [][KeepsRevoked]_vars
=============================================================================
