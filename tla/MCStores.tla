------------------------------ MODULE MCStores ------------------------------
(***************************************************************************)
(* The stores that requests share: Accounts, DataPool and                   *)
(* OperatorWorkspace.  They do not interact here, so a behaviour is one of  *)
(* one of them, named by part, and leaves the variables of the others where *)
(* they start.  The threads of Accounts are the requests of the others, its *)
(* passwords the request keys of the pool.                                  *)
(***************************************************************************)
EXTENDS Accounts, TLC

CONSTANTS
  Members, Found, MaxVersions, MaxDrift,                    \* of DataPool
  Assets, Orders, Boxes, NoBox, MaxRevisions, MaxCrashes    \* of OperatorWorkspace

ASSUME StoresAssumption ==
  MaxVersions \in Nat /\ MaxRevisions \in Nat /\ MaxCrashes \in Nat

VARIABLES
  part,
  source, rd, pool, derived, ops, snap, req, exported,      \* of DataPool
  image, notes, order, request, crashes                     \* of OperatorWorkspace

poolVars == <<source, rd, pool, derived, ops, snap, req, exported>>
workspaceVars == <<image, notes, order, request, crashes>>
allVars == <<part, vars, poolVars, workspaceVars>>

Pool == INSTANCE DataPool WITH Requests <- Threads, Keys <- Passwords
Workspace == INSTANCE OperatorWorkspace WITH Requests <- Threads

\* Whatever one thread, session, password or later account may do, so may another.
Symmetry == Permutations(Sessions) \cup Permutations(Threads) \cup Permutations(Passwords)
            \cup Permutations(Users \ {Bootstrap})

-----------------------------------------------------------------------------
AllInit ==
  /\ Init /\ Pool!Init /\ Workspace!Init
  /\ part \in {"accounts", "pool", "drift", "workspace"}

\* The request keys in use.
KeysOf(operations, requests) ==
  {o.key : o \in operations} \cup {requests[r].key : r \in {t \in Threads : "key" \in DOMAIN requests[t]}}

AccountsStep == part = "accounts" /\ Next /\ UNCHANGED <<part, poolVars, workspaceVars>>

\* Bound: rival requests with keys of their own, without drift ...
PoolStep == part = "pool" /\ Pool!Next /\ rd' = rd /\ UNCHANGED <<part, vars, workspaceVars>>

\* ... and requests of one key while the readiness changes.
DriftingStep ==
  /\ part = "drift" /\ Pool!Next /\ UNCHANGED <<part, vars, workspaceVars>>
  /\ \A k, l \in KeysOf(ops', req') : k = l

WorkspaceStep == part = "workspace" /\ Workspace!Next /\ UNCHANGED <<part, vars, poolVars>>

AllNext == AccountsStep \/ PoolStep \/ DriftingStep \/ WorkspaceStep

AllSpec == AllInit /\ [][AllNext]_allVars

-----------------------------------------------------------------------------
(* Properties: those of Accounts under their own names, and what each of    *)
(* the other components promises                                            *)

\* DataPool: every version was reviewed on the pool that it extends, a subset
\* is derived from a whole snapshot and has no findings, and only a head that
\* was gated anew reaches the trainer.  OperatorWorkspace: the revisions of an
\* order follow allowed transitions, a closed order names a revision that
\* changed its box, and only the last revision of a document can be torn.
ReviewsAreSound ==
  /\ Pool!NoReviewLost
  /\ Pool!SubsetIsWholeAndClean
  /\ Pool!ExportedIsRegated
  /\ Workspace!TypeOK
  /\ Workspace!LegalHistory
  /\ Workspace!ClosedIsRemediated
  /\ Workspace!TornIsLast

\* A version is derived while it is the current one (DataPool), and no revision
\* is replaced or lost (OperatorWorkspace).
RecordsStand == [][Pool!DerivesCurrent /\ Workspace!Appends]_allVars
=============================================================================
