-------------------------- MODULE OperatorWorkspace --------------------------
(***************************************************************************)
(* The operator's image workspace (operator_workspace.py): images, their    *)
(* annotation revisions and the work orders issued from them, kept in files *)
(* without a database or a lock.  Requests run in parallel threads.         *)
(*                                                                          *)
(* _atomic_write(replace=False) opens the final name exclusively and then   *)
(* writes it: whoever opens first owns a revision, and a process that stops *)
(* leaves a torn file under the final name.  A reader that meets a torn file*)
(* refuses, and so does every operation that begins with such a read.       *)
(*                                                                          *)
(* Data that is abstracted: an annotation document is the value of the one  *)
(* box that work orders are issued from; images are their asset.            *)
(***************************************************************************)
EXTENDS Naturals, Sequences, FiniteSets, SequencesExt

CONSTANTS
  Assets, Orders, Requests,
  Boxes,         \* the values the annotated box may take; NoBox when it is removed
  NoBox,
  MaxRevisions,  \* bound: revisions of one document
  MaxCrashes     \* bound: requests that stop while they write

VARIABLES
  image,    \* the files of an asset: none, torn or whole asset.json
  notes,    \* the annotation revisions of an asset, in the order of their names
  order,    \* the directory of a work order and its revisions
  request,  \* requests between their reads and the end of their write
  crashes

vars == <<image, notes, order, request, crashes>>

Idle == [op |-> "none"]

Init ==
  /\ image = [a \in Assets |-> "none"]
  /\ notes = [a \in Assets |-> <<>>]
  /\ order = [o \in Orders |-> [dir |-> FALSE, asset |-> "none", base |-> 0, box |-> NoBox, revs |-> <<>>]]
  /\ request = [r \in Requests |-> Idle]
  /\ crashes = 0

-----------------------------------------------------------------------------
(* Reads *)

\* Mutant of NotesReadable: the chain is counted, not read.
NotesCounted(a) == image[a] = "whole"

\* get_annotations walks the whole chain.
NotesReadable(a) == image[a] = "whole" /\ \A n \in DOMAIN notes[a] : notes[a][n].whole

BoxOf(a, n) == IF n = 0 THEN NoBox ELSE notes[a][n].box

\* list_assets reads every asset of the workspace; add_image begins with it.
AssetsListable == \A a \in Assets : image[a] # "none" => NotesReadable(a)

\* get_work_order reads the last revision only.
OrderReadable(o) == order[o].revs # <<>> /\ Last(order[o].revs).whole

-----------------------------------------------------------------------------
(* add_image *)

StartUpload(r, a) ==
  /\ request[r] = Idle /\ image[a] = "none" /\ AssetsListable
  /\ \A s \in Requests : request[s].op = "upload" => request[s].asset # a
  /\ request' = [request EXCEPT ![r] = [op |-> "upload", asset |-> a, step |-> "read"]]
  /\ UNCHANGED <<image, notes, order, crashes>>

\* Source and preview are written, asset.json is opened.
OpenAsset(r) ==
  /\ request[r].op = "upload" /\ request[r].step = "read"
  /\ image' = [image EXCEPT ![request[r].asset] = "torn"]
  /\ request' = [request EXCEPT ![r].step = "open"]
  /\ UNCHANGED <<notes, order, crashes>>

EndUpload(r) ==
  /\ request[r].op = "upload" /\ request[r].step = "open"
  /\ image' = [image EXCEPT ![request[r].asset] = "whole"]
  /\ request' = [request EXCEPT ![r] = Idle]
  /\ UNCHANGED <<notes, order, crashes>>

-----------------------------------------------------------------------------
(* save_annotations *)

StartSave(r, a, box) ==
  /\ request[r] = Idle /\ NotesReadable(a) /\ Len(notes[a]) < MaxRevisions
  /\ request' = [request EXCEPT ![r] = [op |-> "save", asset |-> a, rev |-> Len(notes[a]) + 1,
                                        box |-> box, step |-> "read"]]
  /\ UNCHANGED <<image, notes, order, crashes>>

\* Mutant of PutRevision: os.replace, as for files that may change.
PutRevisionReplacing(s, n, v) == IF n <= Len(s) THEN [s EXCEPT ![n] = v] ELSE Append(s, v)

\* open("xb"): the name of a revision is taken once, and a taken one is kept.
PutRevision(s, n, v) == IF n = Len(s) + 1 THEN Append(s, v) ELSE s

OpenNotes(r) ==
  LET q == request[r] IN
  /\ q.op = "save" /\ q.step = "read"
  /\ notes' = [notes EXCEPT ![q.asset] = PutRevision(@, q.rev, [box |-> q.box, whole |-> FALSE])]
  /\ request' = [request EXCEPT ![r] = IF notes'[q.asset] = notes[q.asset] THEN Idle
                                       ELSE [q EXCEPT !.step = "open"]]
  /\ UNCHANGED <<image, order, crashes>>

EndNotes(r) ==
  LET q == request[r] IN
  /\ q.op = "save" /\ q.step = "open"
  /\ notes' = [notes EXCEPT ![q.asset][q.rev] = [box |-> q.box, whole |-> TRUE]]
  /\ request' = [request EXCEPT ![r] = Idle]
  /\ UNCHANGED <<image, order, crashes>>

-----------------------------------------------------------------------------
(* create_work_order, update_work_order *)

StartOrder(r, o, a) ==
  /\ request[r] = Idle /\ ~order[o].dir /\ NotesReadable(a)
  /\ \A s \in Requests : request[s].op = "order" => request[s].order # o
  /\ notes[a] # <<>> /\ Last(notes[a]).box # NoBox
  /\ request' = [request EXCEPT ![r] = [op |-> "order", order |-> o, asset |-> a, rev |-> Len(notes[a]),
                                        box |-> Last(notes[a]).box, step |-> "read"]]
  /\ UNCHANGED <<image, notes, order, crashes>>

\* Mutant of MakeOrder: the status of the request's form, not of a revision.
MakeOrderIssued(r) ==
  LET q == request[r] IN
  /\ q.op = "order" /\ q.step = "read"
  /\ order' = [order EXCEPT ![q.order] = [dir |-> TRUE, asset |-> q.asset, base |-> q.rev,
                                          box |-> q.box, revs |-> <<>>]]
  /\ request' = [request EXCEPT ![r] = [op |-> "update", order |-> q.order, rev |-> 1,
                                        status |-> "ISSUED", verified |-> 0, step |-> "read"]]
  /\ UNCHANGED <<image, notes, crashes>>

\* mkdir and the crop; until the revision follows the order cannot be read.
MakeOrder(r) ==
  LET q == request[r] IN
  /\ q.op = "order" /\ q.step = "read"
  /\ order' = [order EXCEPT ![q.order] = [dir |-> TRUE, asset |-> q.asset, base |-> q.rev,
                                          box |-> q.box, revs |-> <<>>]]
  /\ request' = [request EXCEPT ![r] = [op |-> "update", order |-> q.order, rev |-> 1,
                                        status |-> "OPEN", verified |-> 0, step |-> "read"]]
  /\ UNCHANGED <<image, notes, crashes>>

Transitions ==
  [OPEN |-> {"ACKNOWLEDGED", "IN_CAPA", "REJECTED"},
   ACKNOWLEDGED |-> {"ACKNOWLEDGED", "IN_CAPA", "REJECTED"},
   IN_CAPA |-> {"IN_CAPA", "CLOSED", "REJECTED"},
   REJECTED |-> {}, CLOSED |-> {}]

\* Mutant of MayBecome: only a closed order is final.
MayBecomeUnlessClosed(o, status) == Last(order[o].revs).status # "CLOSED" /\ status # "OPEN"

MayBecome(o, status) == status \in Transitions[Last(order[o].revs).status]

\* Mutant of Remediated: a newer revision is enough.
RemediatedByRevision(o) ==
  LET a == order[o].asset IN NotesReadable(a) /\ Len(notes[a]) > order[o].base

\* The evidence of a closure is the current revision, newer than the order's,
\* and the box of the order is no longer what it was.
Remediated(o) ==
  LET a == order[o].asset IN
  /\ NotesReadable(a) /\ Len(notes[a]) > order[o].base
  /\ Last(notes[a]).box # order[o].box

StartUpdate(r, o, status) ==
  /\ request[r] = Idle /\ OrderReadable(o) /\ Len(order[o].revs) < MaxRevisions
  /\ MayBecome(o, status)
  /\ status = "CLOSED" => Remediated(o)
  /\ request' = [request EXCEPT ![r] =
       [op |-> "update", order |-> o, rev |-> Len(order[o].revs) + 1, status |-> status,
        verified |-> IF status = "CLOSED" THEN Len(notes[order[o].asset]) ELSE 0, step |-> "read"]]
  /\ UNCHANGED <<image, notes, order, crashes>>

OpenOrder(r) ==
  LET q == request[r] IN
  /\ q.op = "update" /\ q.step = "read"
  /\ order' = [order EXCEPT ![q.order].revs =
                 PutRevision(@, q.rev, [status |-> q.status, verified |-> q.verified, whole |-> FALSE])]
  /\ request' = [request EXCEPT ![r] = IF order'[q.order] = order[q.order] THEN Idle
                                       ELSE [q EXCEPT !.step = "open"]]
  /\ UNCHANGED <<image, notes, crashes>>

EndOrder(r) ==
  LET q == request[r] IN
  /\ q.op = "update" /\ q.step = "open"
  /\ order' = [order EXCEPT ![q.order].revs[q.rev] =
                 [status |-> q.status, verified |-> q.verified, whole |-> TRUE]]
  /\ request' = [request EXCEPT ![r] = Idle]
  /\ UNCHANGED <<image, notes, crashes>>

-----------------------------------------------------------------------------
\* The process stops: what is on disk stays as it is.
Crash(r) ==
  /\ request[r] # Idle /\ crashes < MaxCrashes
  /\ crashes' = crashes + 1
  /\ request' = [request EXCEPT ![r] = Idle]
  /\ UNCHANGED <<image, notes, order>>

Next ==
  \E r \in Requests :
    \/ \E a \in Assets : StartUpload(r, a) \/ \E box \in Boxes : StartSave(r, a, box)
    \/ OpenAsset(r) \/ EndUpload(r) \/ OpenNotes(r) \/ EndNotes(r)
    \/ \E o \in Orders : \/ \E a \in Assets : StartOrder(r, o, a)
                         \/ \E status \in DOMAIN Transitions : StartUpdate(r, o, status)
    \/ MakeOrder(r) \/ OpenOrder(r) \/ EndOrder(r)
    \/ Crash(r)

Spec == Init /\ [][Next]_vars

-----------------------------------------------------------------------------
(* Properties *)

TypeOK ==
  /\ image \in [Assets -> {"none", "torn", "whole"}]
  /\ \A a \in Assets : notes[a] \in Seq([box : Boxes, whole : BOOLEAN])
  /\ \A o \in Orders : order[o].revs \in Seq([status : DOMAIN Transitions, verified : 0 .. MaxRevisions,
                                              whole : BOOLEAN])
  /\ crashes \in 0 .. MaxCrashes

\* The history of a work order is legal, although nothing locks it: every
\* revision follows the one before it by an allowed transition, so a rejected
\* or closed order is never taken up again by a request that read it earlier.
LegalHistory ==
  \A o \in Orders : \A n \in 2 .. Len(order[o].revs) :
    order[o].revs[n].status \in Transitions[order[o].revs[n - 1].status]

\* Annotations are append-only for everybody: a revision once written is never
\* replaced, and no save that was answered is lost to another one.
Appends ==
  /\ \A a \in Assets : \A n \in DOMAIN notes[a] :
       n \in DOMAIN notes'[a] /\ notes'[a][n].box = notes[a][n].box
  /\ \A o \in Orders : order[o].dir => \A n \in DOMAIN order[o].revs :
       n \in DOMAIN order'[o].revs /\ order'[o].revs[n].status = order[o].revs[n].status
AppendOnly == [][Appends]_vars

\* A closed order names a later revision of its image in which the box it was
\* issued for has changed, whatever was saved while it was being closed.
ClosedIsRemediated ==
  \A o \in Orders : \A n \in DOMAIN order[o].revs : order[o].revs[n].status = "CLOSED" =>
    LET v == order[o].revs[n].verified IN
    v > order[o].base /\ v <= Len(notes[order[o].asset]) /\ BoxOf(order[o].asset, v) # order[o].box

\* What stopped in the middle of a write is refused by later requests and
\* never continued over: only the last revision of a document can be torn.
TornIsLast ==
  /\ \A a \in Assets : \A n \in DOMAIN notes[a] : notes[a][n].whole \/ n = Len(notes[a])
  /\ \A o \in Orders : \A n \in DOMAIN order[o].revs : order[o].revs[n].whole \/ n = Len(order[o].revs)
=============================================================================
