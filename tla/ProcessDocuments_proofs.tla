----------------------- MODULE ProcessDocuments_proofs -----------------------
(***************************************************************************)
(* For any sets of shipments, drafts, folders, documents and requests: a   *)
(* document that is listed has its object, an object without a document    *)
(* is explained, and a save takes what is in its draft.  Own says what a   *)
(* request may rely on, Pair what two requests may not do to each other,   *)
(* RowsInv what the rows keep.  Nothing is said of the tree of folders.    *)
(***************************************************************************)
EXTENDS ProcessDocuments, TLAPS

USE NoneAssumption, ScopesAssumption

-----------------------------------------------------------------------------
(* The inductive invariant *)
Uploads(x) == x.op = "upload" /\ x.pc # "clean"
Inserts(x) == x.op \in {"create", "upload"} /\ x.pc # "clean"

\* The documents an upload has in hand, not yet committed.
Held(x) == IF Uploads(x) THEN (x.todo \cup x.keys \cup x.rows) ELSE {}

\* The definitions of the specification, for the record of a request.
Destroys(x) == IF x.op = "destroy" /\ x.pc \in {"list", "commit"} THEN {x.scope} ELSE {}
Refers(x) == IF Inserts(x) /\ (x.folders # {} \/ x.rows # {}) THEN {x.scope} ELSE {}
Writes(x) ==
    (IF (x.op \in {"save", "deleteFolder"} /\ x.pc = "commit") \/ (x.op = "save" /\ x.pc = "documents")
     THEN x.folders ELSE {})
    \cup (IF (x.op \in {"save", "deleteFolder"} /\ x.pc = "commit") \/ (x.op = "deleteFolder" /\ x.pc = "folder")
          THEN x.rows ELSE {})
Hands(x) == IF x.op = "upload" \/ x.pc = "clean" THEN x.keys ELSE {}

\* Which steps a request goes through, and what an upload has done so far.
Shape(x) ==
    /\ x.op = "idle" => x = Idle
    /\ x.op = "create" => /\ x.pc \in {"folder", "commit"} /\ x.new \in Folders /\ x.scope \in Scopes
                          /\ x.rows = {} /\ x.folders \subseteq {x.new}
    /\ Uploads(x) => /\ x.pc \in {"folder", "store", "insert", "commit"} /\ x.scope \in Scopes
                     /\ x.todo \subseteq Docs /\ x.rows \subseteq x.keys /\ x.keys \subseteq x.rows \cup x.todo
                     /\ x.pc # "insert" => x.keys = x.rows
                     /\ x.pc = "folder" => x.new # None
                     /\ x.folders = IF x.pc = "folder" \/ x.new = None THEN {} ELSE {x.new}
    /\ x.op = "save" => x.pc \in {"folder", "documents", "commit"} /\ x.scope \in Shipments /\ x.draft \in Drafts
    /\ x.op = "destroy" => x.pc \in {"list", "commit", "clean"} /\ (x.pc # "clean" => x.scope \in Shipments)
    /\ x.op = "deleteFile" => x.pc \in {"commit", "clean"}
    /\ x.op = "deleteFolder" => /\ x.pc \in {"children", "list", "documents", "folder", "commit", "clean"}
                                /\ x.pc # "clean" => x.scope \in Scopes
    /\ x.op = "update" => x.pc \in {"folder", "commit"}

\* An insertion: identifiers of its own, an open scope once it has inserted.
OwnInserts(x) ==
    Inserts(x) =>
        /\ x.scope \in Shipments => x.scope \in used
        /\ Refers(x) \subseteq Drafts \cup shipments
        /\ x.new # None => x.new \in used /\ ~Exists(x.new)
        /\ \A d \in Held(x) : d \in used /\ ~Saved(d) /\ stored[d] \in {None, x.scope}
        /\ x.op = "upload" /\ x.scope \in Drafts \cup shipments => \A d \in x.keys : stored[d] = x.scope

\* A save: its shipment is not there yet, what it has found is in its draft.
OwnSave(x) ==
    x.op = "save" =>
        /\ x.scope \in used \ shipments
        /\ x.pc \in {"documents", "commit"} => \A f \in x.folders : folder[f].scope = x.draft
        /\ x.pc = "commit" => \A d \in x.rows : doc[d].scope = x.draft

\* The deletion of a shipment: it lists the objects of all its documents.
OwnDestroy(x) ==
    x.op = "destroy" /\ x.pc \in {"list", "commit"} =>
        /\ x.scope \in shipments
        /\ x.pc = "commit" =>
            /\ \A d \in x.keys : d \in used /\ (Saved(d) => doc[d].scope = x.scope)
            /\ \A d \in Docs : Saved(d) /\ stored[d] = x.scope => d \in x.keys

\* Other deletions, and what is deleted from the storage.
OwnDelete(x) ==
    /\ x.op \in {"deleteFile", "deleteFolder"} /\ x.pc # "clean" => x.rows \subseteq used
    /\ x.pc = "clean" => \A d \in x.keys : d \in used /\ ~Saved(d)

Own(x) == Shape(x) /\ OwnInserts(x) /\ OwnSave(x) /\ OwnDestroy(x) /\ OwnDelete(x)

\* What x does is no matter of y.
Pair(x, y) ==
    /\ Held(x) \cap Held(y) = {}
    /\ Destroys(x) \cap (Refers(y) \cup Destroys(y)) = {}
    /\ Writes(x) \cap Writes(y) = {}
    /\ x.op = "save" /\ y.op = "save" => x.scope # y.scope
    /\ x.op = "save" /\ Inserts(y) => x.scope # y.scope
    /\ Inserts(x) /\ Inserts(y) /\ x.new # None => x.new # y.new
    /\ x.op \in {"deleteFile", "deleteFolder"} /\ x.pc # "clean" => x.rows \cap Held(y) = {}
    /\ x.op = "destroy" /\ x.pc = "commit" => \A d \in x.keys \cap Held(y) : y.scope = x.scope
    /\ x.pc = "clean" /\ x.keys \cap Held(y) # {} => y.scope \notin Drafts \cup shipments

RowsInv ==
    /\ shipments \subseteq used
    /\ \A f \in Folders : Exists(f) => f \in used
    /\ \A d \in Docs : stored[d] # None => d \in used
    /\ \A d \in Docs : Saved(d) =>
        /\ d \in used /\ stored[d] # None
        /\ stored[d] \in Shipments => doc[d].scope = stored[d]

IInv ==
    /\ TypeOK /\ RowsInv /\ NoStrayUnderShipment
    /\ \A r \in Requests : Own(request[r])
    /\ \A r, q \in Requests : r # q => Pair(request[r], request[q])
-----------------------------------------------------------------------------
(* The definitions of the specification are those of the records. *)
LEMMA SameRecords ==
  ASSUME NEW r \in Requests
  PROVE  /\ Deleting(r) = Destroys(request[r]) /\ Referring(r) = Refers(request[r])
         /\ Writing(r) = Writes(request[r]) /\ InHands(r) = Hands(request[r])
  <1>1. Deleting(r) = Destroys(request[r])
    BY DEF Deleting, Destroys
  <1>2. Referring(r) = Refers(request[r])
    BY DEF Referring, Refers, Inserts
  <1>3. Writing(r) = Writes(request[r])
    BY DEF Writing, Writes, At
  <1>4. InHands(r) = Hands(request[r])
    BY DEF InHands, Hands
  <1>5. QED
    BY <1>1, <1>2, <1>3, <1>4

\* The same in terms of all requests: what is not explained by a request is left.
LEMMA StrayInHands ==
  NoStrayUnderShipment <=>
    \A d \in Docs : stored[d] \in Shipments /\ ~Saved(d) => d \in left \/ \E r \in Requests : d \in Hands(request[r])
  BY DEF NoStrayUnderShipment, Explained, InHands, Hands

\* Nobody has anything to do with a request that does nothing.
LEMMA IdleAlone ==
  /\ Idle \in Request
  /\ Own(Idle)
  /\ \A x \in Request : Pair(Idle, x) /\ Pair(x, Idle)
  <1>1. Idle \in Request
    BY DEF Idle, Request, Ops, Steps, NoFolder, FolderRow
  <1>2. /\ Held(Idle) = {} /\ Destroys(Idle) = {} /\ Refers(Idle) = {} /\ Writes(Idle) = {}
        /\ ~Inserts(Idle) /\ ~Uploads(Idle) /\ Idle.op = "idle" /\ Idle.pc = "idle"
    BY DEF Idle, Held, Destroys, Refers, Writes, Inserts, Uploads
  <1>3. Own(Idle)
    BY <1>2 DEF Own, Shape, OwnInserts, OwnSave, OwnDestroy, OwnDelete
  <1>4. \A x \in Request : Pair(Idle, x) /\ Pair(x, Idle)
    BY <1>2 DEF Pair
  <1>5. QED
    BY <1>1, <1>3, <1>4

-----------------------------------------------------------------------------
(* Steps of one request *)

\* TypeOK but for the requests.
RowsTyped ==
    /\ shipments \subseteq Shipments
    /\ folder \in [Folders -> FolderRow] /\ doc \in [Docs -> DocRow]
    /\ stored \in [Docs -> Scopes \cup {None}]
    /\ left \subseteq Docs /\ used \subseteq Shipments \cup Folders \cup Docs
    /\ faults \in 0..MaxFaults

\* The requests that are worked on beside r.
Others(r) == {request[q] : q \in Requests \ {r}}

\* What is known before a step of r.
LEMMA Before ==
  ASSUME IInv, NEW r \in Requests
  PROVE  /\ request[r] \in Request /\ Own(request[r]) /\ TypeOK /\ RowsInv
         /\ \A x \in Others(r) : x \in Request /\ Own(x) /\ Pair(request[r], x) /\ Pair(x, request[r])
  BY DEF IInv, TypeOK, Others

\* What the guards of a step of r say of the other requests.
LEMMA Guards ==
  ASSUME NEW r \in Requests, NEW x \in Others(r)
  PROVE  /\ \A X : Unlocked(r, X) => X \cap Writes(x) = {}
         /\ CanRefer(r) => request[r].scope \notin Destroys(x)
  BY SameRecords DEF Others, Unlocked, CanRefer

\* r goes on to y: what has to be shown of its step.
LEMMA FrameStep ==
  ASSUME IInv, NEW r \in Requests, NEW y \in Request, request' = [request EXCEPT ![r] = y],
         RowsTyped', RowsInv', Own(y)',
         \A x \in Others(r) : Own(x)' /\ Pair(y, x)' /\ Pair(x, y)',
         \A x, z \in Request : Own(x) /\ Own(z) /\ Pair(x, z) /\ Pair(request[r], x) /\ Pair(request[r], z)
                                => Pair(x, z)',
         left \subseteq left',
         \A d \in Docs : stored'[d] \in Shipments /\ ~Saved(d)' =>
            \/ d \in Hands(y) \cup left'
            \/ stored[d] \in Shipments /\ ~Saved(d) /\ d \notin Hands(request[r])
  PROVE  IInv'
  <1>1. request \in [Requests -> Request]
    BY DEF IInv, TypeOK
  <1>2. request'[r] = y /\ \A q \in Requests : q # r => request'[q] = request[q]
    BY <1>1
  <1>3. TypeOK'
    BY <1>1 DEF RowsTyped, TypeOK
  <1>4. NoStrayUnderShipment'
    <2>1. \A d \in Docs : stored[d] \in Shipments /\ ~Saved(d) => d \in left \/ \E q \in Requests : d \in Hands(request[q])
      BY StrayInHands DEF IInv
    <2>2. ASSUME NEW d \in Docs, stored'[d] \in Shipments, ~Saved(d)'
          PROVE  d \in left' \/ \E q \in Requests : d \in Hands(request'[q])
      BY <2>1, <2>2, <1>2
    <2>3. QED
      BY <2>2 DEF NoStrayUnderShipment, Explained, InHands, Hands
  <1>5. ASSUME NEW q \in Requests, q # r
        PROVE  Own(request[q])' /\ Pair(y, request[q])' /\ Pair(request[q], y)'
    <2>2. PICK x \in Others(r) : x = request[q]
      BY <1>5 DEF Others
    <2>3. Own(x)' /\ Pair(y, x)' /\ Pair(x, y)'
      BY <2>2
    <2>4. x = request'[q]
      BY <2>2, <1>2, <1>5
    <2>5. QED
      BY <2>3, <2>4
  <1>6. ASSUME NEW q \in Requests PROVE Own(request[q])'
    BY <1>5, <1>2
  <1>7. ASSUME NEW a \in Requests, NEW b \in Requests, a # b PROVE Pair(request[a], request[b])'
    <2>1. CASE a = r
      BY <2>1, <1>7, <1>5, <1>2
    <2>2. CASE b = r
      BY <2>2, <1>7, <1>5, <1>2
    <2>3. CASE a # r /\ b # r
      <3>1. PICK x \in Request : x = request[a]
        BY <1>1
      <3>2. PICK z \in Request : z = request[b]
        BY <1>1
      <3>3. Own(x) /\ Own(z) /\ Pair(x, z) /\ Pair(request[r], x) /\ Pair(request[r], z)
        BY <3>1, <3>2, <2>3, <1>7 DEF IInv
      <3>4. Pair(x, z)'
        BY <3>3
      <3>5. x = request'[a] /\ z = request'[b]
        BY <3>1, <3>2, <2>3, <1>2
      <3>6. QED
        BY <3>4, <3>5
    <2>4. QED
      BY <2>1, <2>2, <2>3
  <1>8. QED
    BY <1>3, <1>4, <1>6, <1>7 DEF IInv

-----------------------------------------------------------------------------
(* Steps that write neither rows nor objects *)

\* Identifiers that are given out and objects that are left disturb nobody.
LEMMA QuietOwn ==
  ASSUME UNCHANGED <<shipments, folder, doc, stored>>, used \subseteq used'
  PROVE  \A x \in Request : Own(x) => Own(x)'
  <1> SUFFICES ASSUME NEW x \in Request, Own(x) PROVE Own(x)'
    OBVIOUS
  <1>1. Shape(x)'
    BY DEF Own, Shape, Uploads, Idle
  <1>2. OwnInserts(x)'
    BY DEF Own, OwnInserts, Inserts, Refers, Held, Uploads, Exists, Saved
  <1>3. OwnSave(x)'
    BY DEF Own, OwnSave
  <1>4. OwnDestroy(x)'
    BY DEF Own, OwnDestroy, Saved
  <1>5. OwnDelete(x)'
    BY DEF Own, OwnDelete, Saved
  <1>6. QED
    BY <1>1, <1>2, <1>3, <1>4, <1>5 DEF Own

\* Only the last part of Pair speaks of the state.
LEMMA QuietPair ==
  ASSUME shipments' \subseteq shipments
  PROVE  \A x, y \in Request : Pair(x, y) => Pair(x, y)'
  BY DEF Pair, Held, Destroys, Refers, Writes, Inserts, Uploads

\* r goes on to y: the invariant is kept if y keeps its part of it.
LEMMA QuietStep ==
  ASSUME IInv, NEW r \in Requests, NEW y \in Request, request' = [request EXCEPT ![r] = y],
         UNCHANGED <<shipments, folder, doc, stored>>,
         used \subseteq used', used' \subseteq Shipments \cup Folders \cup Docs,
         left \subseteq left', left' \subseteq Docs, faults' \in 0..MaxFaults,
         Own(y)',
         \A x \in Others(r) : Pair(y, x)' /\ Pair(x, y)',
         \A d \in Hands(request[r]) : d \in Hands(y) \cup left' \/ Saved(d) \/ stored[d] \notin Shipments
  PROVE  IInv'
  <1>1. RowsTyped'
    BY DEF IInv, TypeOK, RowsTyped
  <1>2. RowsInv'
    BY DEF IInv, RowsInv, Exists, Saved
  <1>4. \A x \in Others(r) : Own(x)'
    BY QuietOwn, Before
  <1>5. \A x, z \in Request : Pair(x, z) => Pair(x, z)'
    BY QuietPair
  <1>6. \A d \in Docs : stored'[d] \in Shipments /\ ~Saved(d)' =>
            \/ d \in Hands(y) \cup left'
            \/ stored[d] \in Shipments /\ ~Saved(d) /\ d \notin Hands(request[r])
    BY DEF Saved
  <1>7. QED
    BY <1>1, <1>2, <1>4, <1>5, <1>6, FrameStep

-----------------------------------------------------------------------------
(* Requests that are over but for the objects they delete *)

Cleaning(op, keys) == IF keys = {} THEN Idle ELSE [Idle EXCEPT !.op = op, !.pc = "clean", !.keys = keys]

LEMMA CleaningFields ==
  ASSUME NEW op \in {"upload", "deleteFile", "deleteFolder", "destroy"}, NEW keys \in SUBSET Docs,
         NEW y, y = Cleaning(op, keys)
  PROVE  /\ y \in Request /\ Hands(y) = keys /\ y.keys = keys
         /\ Held(y) = {} /\ Destroys(y) = {} /\ Refers(y) = {} /\ Writes(y) = {} /\ ~Inserts(y) /\ ~Uploads(y)
         /\ y = Idle \/ (y.op = op /\ y.pc = "clean")
  <1>1. CASE keys = {}
    <2>1. y = Idle
      BY <1>1 DEF Cleaning
    <2>2. Idle.keys = {} /\ Idle.op = "idle" /\ Idle.pc = "idle"
      BY DEF Idle
    <2>3. Hands(Idle) = {} /\ ~Inserts(Idle) /\ ~Uploads(Idle)
      BY <2>2 DEF Hands, Inserts, Uploads
    <2>4. Held(Idle) = {} /\ Refers(Idle) = {}
      BY <2>3 DEF Held, Refers
    <2>5. Destroys(Idle) = {} /\ Writes(Idle) = {}
      BY <2>2 DEF Destroys, Writes
    <2>6. QED
      BY <1>1, <2>1, <2>2, <2>3, <2>4, <2>5, IdleAlone
  <1>2. CASE keys # {}
    <2>1. y = [op |-> op, pc |-> "clean", scope |-> None, into |-> None, new |-> None, draft |-> None,
               todo |-> {}, folders |-> {}, rows |-> {}, keys |-> keys,
               loaded |-> NoFolder, model |-> NoFolder]
      BY <1>2 DEF Cleaning, Idle
    <2>2. y \in Request
      BY <2>1 DEF Request, Ops, Steps, NoFolder, FolderRow
    <2>3. QED
      BY <2>1, <2>2 DEF Hands, Held, Destroys, Refers, Writes, Inserts, Uploads
  <1>3. QED
    BY <1>1, <1>2

\* They may delete what nobody saves any more.
LEMMA CleaningOwn ==
  ASSUME NEW op \in {"upload", "deleteFile", "deleteFolder", "destroy"}, NEW keys \in SUBSET Docs,
         NEW y \in Request, y = Cleaning(op, keys),
         \A d \in keys : d \in used' /\ ~Saved(d)'
  PROVE  Own(y)'
  <1>1. /\ Hands(y) = keys /\ y.keys = keys /\ Held(y) = {} /\ ~Inserts(y) /\ ~Uploads(y)
        /\ y = Idle \/ (y.op = op /\ y.pc = "clean")
    BY CleaningFields
  <1>2. Shape(y)'
    BY <1>1 DEF Shape, Uploads, Idle
  <1>3. OwnInserts(y)'
    BY <1>1 DEF OwnInserts, Inserts
  <1>4. OwnSave(y)' /\ OwnDestroy(y)'
    BY <1>1 DEF OwnSave, OwnDestroy, Idle
  <1>5. OwnDelete(y)'
    BY <1>1 DEF OwnDelete, Idle
  <1>6. QED
    BY <1>2, <1>3, <1>4, <1>5 DEF Own

LEMMA CleaningPair ==
  ASSUME NEW op \in {"upload", "deleteFile", "deleteFolder", "destroy"}, NEW keys \in SUBSET Docs,
         NEW y \in Request, y = Cleaning(op, keys), NEW x \in Request,
         keys \cap Held(x) # {} => x.scope \notin Drafts \cup shipments'
  PROVE  Pair(y, x)' /\ Pair(x, y)'
  <1>1. /\ y.keys = keys
        /\ Held(y) = {} /\ Destroys(y) = {} /\ Refers(y) = {} /\ Writes(y) = {} /\ ~Inserts(y) /\ ~Uploads(y)
        /\ y = Idle \/ (y.op = op /\ y.pc = "clean")
    BY CleaningFields
  <1>2. Pair(y, x)'
    BY <1>1 DEF Pair, Held, Destroys, Refers, Writes, Inserts, Uploads, Idle
  <1>3. Pair(x, y)'
    BY <1>1 DEF Pair, Held, Destroys, Refers, Writes, Inserts, Uploads, Idle
  <1>4. QED
    BY <1>2, <1>3

\* The request of r after Ends.
LEMMA Ended ==
  ASSUME NEW r \in Requests, NEW keys, Ends(r, keys)
  PROVE  request' = [request EXCEPT ![r] = Cleaning(request[r].op, keys)]
  BY DEF Ends, Goes, Cleaning

\* Who cleans was one of four.
LEMMA WhoCleans ==
  ASSUME NEW x \in Request, Shape(x), x.pc = "clean"
  PROVE  x.op \in {"upload", "deleteFile", "deleteFolder", "destroy"}
  BY DEF Shape, Request, Ops, Idle

-----------------------------------------------------------------------------
(* Failures *)

LEMMA RollsBackInv ==
  ASSUME IInv, NEW r \in Requests, Fail(r)
  PROVE  IInv'
  <1>1. PICK x \in Request : x = request[r]
    BY Before
  <1>2. Own(x) /\ TypeOK /\ RowsInv /\ \A z \in Others(r) : z \in Request /\ Own(z) /\ Pair(x, z) /\ Pair(z, x)
    BY <1>1, Before
  <1>3. x.pc # "clean" /\ UNCHANGED <<shipments, folder, doc, stored, left, used, faults>>
    BY <1>1 DEF Fail, RollsBack, rows
  <1>4. CASE x.op = "upload"
    <2> DEFINE y == Cleaning("upload", x.keys)
    <2>1. x.keys \in SUBSET Docs
      BY DEF Request
    <2>2. request' = [request EXCEPT ![r] = y]
      BY <1>1, <1>4, Ended DEF Fail, RollsBack
    <2>3. y \in Request /\ Hands(y) = x.keys
      BY <2>1, CleaningFields
    <2>4. x.keys \subseteq Held(x)
      BY <1>3, <1>4 DEF Held, Uploads
    <2>5. \A d \in x.keys : d \in used' /\ ~Saved(d)'
      BY <2>4, <1>2, <1>3, <1>4 DEF Own, OwnInserts, Inserts, Saved
    <2>6. \A z \in Request : Pair(x, z) => x.keys \cap Held(z) = {}
      BY <2>4 DEF Pair
    <2> HIDE DEF y
    <2>7. Own(y)'
      BY <2>1, <2>3, <2>5, CleaningOwn DEF y
    <2>8. \A z \in Others(r) : Pair(y, z)' /\ Pair(z, y)'
      BY <2>1, <2>3, <2>6, <1>2, CleaningPair DEF y
    <2>9. Hands(x) = x.keys
      BY <1>4 DEF Hands
    <2>10. QED
      BY <2>2, <2>3, <2>7, <2>8, <2>9, <1>1, <1>2, <1>3, QuietStep DEF TypeOK
  <1>5. CASE x.op # "upload"
    <2>1. request' = [request EXCEPT ![r] = Idle]
      BY <1>1, <1>5, Ended DEF Fail, RollsBack, Cleaning
    <2>2. Hands(x) = {}
      BY <1>3, <1>5 DEF Hands
    <2>3. Own(Idle)'
      BY <1>3, IdleAlone, QuietOwn
    <2>4. \A z \in Others(r) : Pair(Idle, z)' /\ Pair(z, Idle)'
      BY <1>2, <1>3, IdleAlone, QuietPair
    <2>5. QED
      BY <2>1, <2>2, <2>3, <2>4, <1>1, <1>2, <1>3, IdleAlone, QuietStep DEF TypeOK
  <1>6. QED
    BY <1>4, <1>5

-----------------------------------------------------------------------------
(* Requests that begin *)

LEMMA BeginStep ==
  ASSUME IInv, NEW r \in Requests, NEW y \in Request, Begin(r, y),
         used \subseteq used', used' \subseteq Shipments \cup Folders \cup Docs,
         Own(y)', \A x \in Others(r) : Pair(y, x)' /\ Pair(x, y)'
  PROVE  IInv'
  <1>1. /\ request' = [request EXCEPT ![r] = y] /\ request[r] = Idle
        /\ UNCHANGED <<shipments, folder, doc, stored, left, faults>>
    BY DEF Begin, Goes, rows
  <1>2. Hands(request[r]) = {}
    BY <1>1 DEF Hands, Idle
  <1>3. QED
    BY <1>1, <1>2, Before, QuietStep DEF TypeOK

LEMMA BeginCreateInv ==
  ASSUME IInv, NEW r \in Requests, NEW s \in Scopes, NEW f \in Folders \cup {None}, NEW n \in Folders,
         BeginCreate(r, s, f, n)
  PROVE  IInv'
  <1> DEFINE y == [Idle EXCEPT !.op = "create", !.pc = "folder", !.scope = s, !.into = f, !.new = n]
  <1>1. /\ TypeOK /\ RowsInv
        /\ \A x \in Others(r) : x \in Request /\ Own(x)
    BY Before
  <1>2. Begin(r, y) /\ IsOpen(s) /\ n \notin used /\ used' = used \cup {n}
    BY DEF BeginCreate
  <1>3. UNCHANGED <<shipments, folder, doc, stored>>
    BY <1>2 DEF Begin, rows
  <1>4. /\ y.op = "create" /\ y.pc = "folder" /\ y.scope = s /\ y.into = f /\ y.new = n
        /\ y.todo = {} /\ y.folders = {} /\ y.rows = {} /\ y.keys = {}
    BY DEF Idle
  <1>5. y \in Request
    BY DEF Idle, Request, Ops, Steps, NoFolder, FolderRow
  <1> HIDE DEF y
  <1>6. Inserts(y) /\ ~Uploads(y) /\ Held(y) = {} /\ Refers(y) = {} /\ Destroys(y) = {} /\ Writes(y) = {}
    BY <1>4 DEF Inserts, Uploads, Held, Refers, Destroys, Writes
  <1>7. Own(y)'
    <2>1. Shape(y)'
      BY <1>4, <1>6 DEF Shape, Uploads
    <2>2. OwnInserts(y)'
      <3>1. s \in Shipments => s \in used
        BY <1>1, <1>2 DEF IsOpen, RowsInv
      <3>2. ~Exists(n)
        BY <1>1, <1>2 DEF RowsInv
      <3>3. QED
        BY <3>1, <3>2, <1>2, <1>3, <1>4, <1>6 DEF OwnInserts, Inserts, Refers, Held, Uploads, Exists, Saved
    <2>3. (OwnSave(y) /\ OwnDestroy(y) /\ OwnDelete(y))'
      BY <1>4 DEF OwnSave, OwnDestroy, OwnDelete
    <2>4. QED
      BY <2>1, <2>2, <2>3 DEF Own
  <1>8. ASSUME NEW x \in Others(r) PROVE Pair(y, x)' /\ Pair(x, y)'
    <2>1. x \in Request /\ OwnInserts(x) /\ OwnSave(x)
      BY <1>1 DEF Own
    <2>2. Inserts(x) /\ x.new # None => x.new # n
      BY <2>1, <1>2 DEF OwnInserts
    <2>4. x.op = "save" => x.scope # s
      <3>1. x.op = "save" => x.scope \in used \ shipments
        BY <2>1 DEF OwnSave
      <3>2. s \in Drafts \cup shipments
        BY <1>2 DEF IsOpen
      <3>3. Shape(x) /\ (x.op = "save" => x.scope \in Shipments)
        BY <1>1 DEF Own, Shape
      <3>4. QED
        BY <3>1, <3>2, <3>3, ScopesAssumption
    <2>5. Pair(y, x)'
      BY <2>2, <1>3, <1>4, <1>6 DEF Pair, Held, Destroys, Refers, Writes, Inserts, Uploads
    <2>6. Pair(x, y)'
      BY <2>2, <2>4, <1>3, <1>4, <1>6 DEF Pair, Held, Destroys, Refers, Writes, Inserts, Uploads
    <2>7. QED
      BY <2>5, <2>6
  <1>9. used \subseteq used' /\ used' \subseteq Shipments \cup Folders \cup Docs
    BY <1>1, <1>2 DEF TypeOK
  <1>10. QED
    BY <1>2, <1>5, <1>7, <1>8, <1>9, BeginStep

LEMMA BeginUploadInv ==
  ASSUME IInv, NEW r \in Requests, NEW s \in Scopes, NEW f \in Folders \cup {None}, NEW n \in Folders \cup {None},
         NEW D \in SUBSET Docs, BeginUpload(r, s, f, D, n)
  PROVE  IInv'
  <1> DEFINE y == [Idle EXCEPT !.op = "upload", !.pc = IF n = None THEN "store" ELSE "folder",
                               !.scope = s, !.into = f, !.new = n, !.todo = D]
  <1>1. /\ TypeOK /\ RowsInv
        /\ \A x \in Others(r) : x \in Request /\ Own(x)
    BY Before
  <1>2. /\ Begin(r, y) /\ IsOpen(s) /\ D \cap used = {}
        /\ n # None => n \notin used
        /\ used' = used \cup D \cup ({n} \ {None})
    BY DEF BeginUpload
  <1>3. UNCHANGED <<shipments, folder, doc, stored>>
    BY <1>2 DEF Begin, rows
  <1>4. /\ y.op = "upload" /\ y.pc = IF n = None THEN "store" ELSE "folder"
        /\ y.scope = s /\ y.into = f /\ y.new = n /\ y.todo = D /\ y.folders = {} /\ y.rows = {} /\ y.keys = {}
    BY DEF Idle
  <1>5. y \in Request
    BY DEF Idle, Request, Ops, Steps, NoFolder, FolderRow
  <1> HIDE DEF y
  <1>6. Inserts(y) /\ Uploads(y) /\ Held(y) = D /\ Refers(y) = {} /\ Destroys(y) = {} /\ Writes(y) = {}
    BY <1>4 DEF Inserts, Uploads, Held, Refers, Destroys, Writes
  <1>7. s \in Drafts \cup shipments
    BY <1>2 DEF IsOpen
  <1>9. Own(y)'
    <2>1. Shape(y)'
      BY <1>4, <1>6 DEF Shape, Uploads
    <2>2. OwnInserts(y)'
      <3>1. s \in Shipments => s \in used
        BY <1>1, <1>7 DEF RowsInv
      <3>2. n # None => ~Exists(n)
        BY <1>1, <1>2 DEF RowsInv
      <3>3. \A d \in D : ~Saved(d) /\ stored[d] = None
        BY <1>1, <1>2 DEF RowsInv
      <3>4. (y.scope \in Shipments => y.scope \in used)' /\ (Refers(y) \subseteq Drafts \cup shipments)'
        BY <3>1, <1>2, <1>4, <1>6
      <3>5. (y.new # None => y.new \in used /\ ~Exists(y.new))'
        BY <3>2, <1>2, <1>3, <1>4 DEF Exists, Saved
      <3>6. (\A d \in Held(y) : d \in used /\ ~Saved(d) /\ stored[d] \in {None, y.scope})'
        <4>1. Held(y)' = D
          BY <1>6 DEF Held, Uploads
        <4>2. QED
          BY <4>1, <3>3, <1>2, <1>3 DEF Saved
      <3>7. (\A d \in y.keys : stored[d] = y.scope)'
        BY <1>4
      <3>8. QED
        BY <3>4, <3>5, <3>6, <3>7 DEF OwnInserts
    <2>3. (OwnSave(y) /\ OwnDestroy(y) /\ OwnDelete(y))'
      BY <1>4 DEF OwnSave, OwnDestroy, OwnDelete
    <2>4. QED
      BY <2>1, <2>2, <2>3 DEF Own
  <1>10. ASSUME NEW x \in Others(r) PROVE Pair(y, x)' /\ Pair(x, y)'
    <2>1. x \in Request /\ Shape(x) /\ OwnInserts(x) /\ OwnSave(x) /\ OwnDestroy(x) /\ OwnDelete(x)
      BY <1>1 DEF Own
    <2>2. Inserts(x) /\ n # None => x.new # n
      BY <2>1, <1>2 DEF OwnInserts
    <2>5. x.op = "save" => x.scope # s
      <3>1. x.op = "save" => x.scope \in used \ shipments
        BY <2>1 DEF OwnSave
      <3>2. x.op = "save" => x.scope \in Shipments
        BY <2>1 DEF Shape
      <3>3. QED
        BY <3>1, <3>2, <1>7, ScopesAssumption
    <2>6. Held(x) \cap D = {}
      <3>1. Held(x) \subseteq used
        BY <2>1 DEF OwnInserts, Held, Inserts, Uploads
      <3>2. QED
        BY <3>1, <1>2
    <2>7. x.op \in {"deleteFile", "deleteFolder"} /\ x.pc # "clean" => x.rows \cap D = {}
      BY <2>1, <1>2 DEF OwnDelete
    <2>8. x.op = "destroy" /\ x.pc = "commit" => x.keys \cap D = {}
      BY <2>1, <1>2 DEF OwnDestroy
    <2>9. x.pc = "clean" => x.keys \cap D = {}
      BY <2>1, <1>2 DEF OwnDelete
    <2>10. Pair(y, x)'
      BY <2>2, <2>6, <1>4, <1>6 DEF Pair, Held, Destroys, Refers, Writes, Inserts, Uploads
    <2>11. Pair(x, y)'
      BY <2>2, <2>5, <2>6, <2>7, <2>8, <2>9, <1>4, <1>6 DEF Pair, Held, Destroys, Refers, Writes, Inserts, Uploads
    <2>12. QED
      BY <2>10, <2>11
  <1>11. used \subseteq used' /\ used' \subseteq Shipments \cup Folders \cup Docs
    BY <1>1, <1>2 DEF TypeOK
  <1>12. QED
    BY <1>2, <1>5, <1>9, <1>10, <1>11, BeginStep

LEMMA BeginDeleteFileInv ==
  ASSUME IInv, NEW r \in Requests, NEW d \in Docs,
         BeginDeleteFile(r, d)
  PROVE  IInv'
  <1> DEFINE y == [Idle EXCEPT !.op = "deleteFile", !.pc = "commit", !.rows = {d}]
  <1>1. /\ TypeOK /\ RowsInv
        /\ \A x \in Others(r) : x \in Request /\ Own(x)
    BY Before
  <1>2. Begin(r, y) /\ Saved(d) /\ used' = used
    BY DEF BeginDeleteFile
  <1>3. UNCHANGED <<shipments, folder, doc, stored>>
    BY <1>2 DEF Begin, rows
  <1>4. y.op = "deleteFile" /\ y.pc = "commit" /\ y.rows = {d} /\ y.folders = {}
    BY DEF Idle
  <1>5. y \in Request
    BY DEF Idle, Request, Ops, Steps, NoFolder, FolderRow
  <1> HIDE DEF y
  <1>6. ~Inserts(y) /\ ~Uploads(y) /\ Held(y) = {} /\ Refers(y) = {} /\ Destroys(y) = {} /\ Writes(y) = {}
    BY <1>4 DEF Inserts, Uploads, Held, Refers, Destroys, Writes
  <1>7. Own(y)'
    <2>1. Shape(y)' /\ OwnInserts(y)'
      BY <1>4, <1>6 DEF Shape, OwnInserts, Inserts, Uploads
    <2>2. OwnSave(y)' /\ OwnDestroy(y)' /\ OwnDelete(y)'
      BY <1>1, <1>2, <1>3, <1>4 DEF OwnSave, OwnDestroy, OwnDelete, RowsInv
    <2>3. QED
      BY <2>1, <2>2 DEF Own
  <1>8. ASSUME NEW x \in Others(r) PROVE Pair(y, x)' /\ Pair(x, y)'
    <2>1. x \in Request /\ d \notin Held(x)
      BY <1>1, <1>2, <1>8 DEF Own, OwnInserts, Held, Inserts, Uploads
    <2>2. Pair(y, x)'
      BY <2>1, <1>3, <1>4, <1>6 DEF Pair, Held, Destroys, Refers, Writes, Inserts, Uploads
    <2>3. Pair(x, y)'
      BY <2>1, <1>3, <1>4, <1>6 DEF Pair, Held, Destroys, Refers, Writes, Inserts, Uploads
    <2>4. QED
      BY <2>2, <2>3
  <1>9. used \subseteq used' /\ used' \subseteq Shipments \cup Folders \cup Docs
    BY <1>1, <1>2 DEF TypeOK
  <1>10. QED
    BY <1>2, <1>5, <1>7, <1>8, <1>9, BeginStep

LEMMA BeginDeleteFolderInv ==
  ASSUME IInv, NEW r \in Requests, NEW f \in Folders,
         BeginDeleteFolder(r, f)
  PROVE  IInv'
  <1>0. PICK s \in Scopes : s = folder[f].scope
    BY DEF BeginDeleteFolder
  <1> DEFINE y == [Idle EXCEPT !.op = "deleteFolder", !.pc = "children", !.scope = s,
                               !.todo = {f}, !.folders = {f}]
  <1>1. /\ TypeOK /\ RowsInv
        /\ \A x \in Others(r) : x \in Request /\ Own(x)
    BY Before
  <1>2. Begin(r, y) /\ used' = used
    BY <1>0 DEF BeginDeleteFolder
  <1>3. UNCHANGED <<shipments, folder, doc, stored>>
    BY <1>2 DEF Begin, rows
  <1>4. y.op = "deleteFolder" /\ y.pc = "children" /\ y.rows = {} /\ y.scope = s
    BY DEF Idle
  <1>5. y \in Request
    BY DEF Idle, Request, Ops, Steps, NoFolder, FolderRow
  <1> HIDE DEF y
  <1>6. ~Inserts(y) /\ ~Uploads(y) /\ Held(y) = {} /\ Refers(y) = {} /\ Destroys(y) = {} /\ Writes(y) = {}
    BY <1>4 DEF Inserts, Uploads, Held, Refers, Destroys, Writes
  <1>7. Own(y)'
    <2>1. Shape(y)' /\ OwnInserts(y)'
      BY <1>0, <1>4, <1>6 DEF Shape, OwnInserts, Inserts, Uploads
    <2>2. OwnSave(y)' /\ OwnDestroy(y)' /\ OwnDelete(y)'
      BY <1>1, <1>2, <1>3, <1>4 DEF OwnSave, OwnDestroy, OwnDelete
    <2>3. QED
      BY <2>1, <2>2 DEF Own
  <1>8. ASSUME NEW x \in Others(r) PROVE Pair(y, x)' /\ Pair(x, y)'
    BY <1>1, <1>3, <1>4, <1>6, <1>8 DEF Pair, Held, Destroys, Refers, Writes, Inserts, Uploads
  <1>9. used \subseteq used' /\ used' \subseteq Shipments \cup Folders \cup Docs
    BY <1>1, <1>2 DEF TypeOK
  <1>10. QED
    BY <1>2, <1>5, <1>7, <1>8, <1>9, BeginStep

LEMMA BeginUpdateInv ==
  ASSUME IInv, NEW r \in Requests, NEW f \in Folders, NEW row \in FolderRow,
         BeginUpdate(r, f, row)
  PROVE  IInv'
  <1>0. PICK old \in FolderRow : old = folder[f]
    BY Before DEF TypeOK
  <1> DEFINE y == [Idle EXCEPT !.op = "update", !.pc = "folder", !.folders = {f}, !.loaded = old, !.model = row]
  <1>1. /\ TypeOK /\ RowsInv
        /\ \A x \in Others(r) : x \in Request /\ Own(x)
    BY Before
  <1>2. Begin(r, y) /\ used' = used
    BY <1>0 DEF BeginUpdate
  <1>3. UNCHANGED <<shipments, folder, doc, stored>>
    BY <1>2 DEF Begin, rows
  <1>4. y.op = "update" /\ y.pc = "folder"
    BY DEF Idle
  <1>5. y \in Request
    BY DEF Idle, Request, Ops, Steps, NoFolder, FolderRow
  <1> HIDE DEF y
  <1>6. ~Inserts(y) /\ ~Uploads(y) /\ Held(y) = {} /\ Refers(y) = {} /\ Destroys(y) = {} /\ Writes(y) = {}
    BY <1>4 DEF Inserts, Uploads, Held, Refers, Destroys, Writes
  <1>7. Own(y)'
    <2>1. Shape(y)' /\ OwnInserts(y)'
      BY <1>4, <1>6 DEF Shape, OwnInserts, Inserts, Uploads
    <2>2. OwnSave(y)' /\ OwnDestroy(y)' /\ OwnDelete(y)'
      BY <1>1, <1>2, <1>3, <1>4 DEF OwnSave, OwnDestroy, OwnDelete
    <2>3. QED
      BY <2>1, <2>2 DEF Own
  <1>8. ASSUME NEW x \in Others(r) PROVE Pair(y, x)' /\ Pair(x, y)'
    BY <1>1, <1>3, <1>4, <1>6, <1>8 DEF Pair, Held, Destroys, Refers, Writes, Inserts, Uploads
  <1>9. used \subseteq used' /\ used' \subseteq Shipments \cup Folders \cup Docs
    BY <1>1, <1>2 DEF TypeOK
  <1>10. QED
    BY <1>2, <1>5, <1>7, <1>8, <1>9, BeginStep

LEMMA BeginSaveInv ==
  ASSUME IInv, NEW r \in Requests, NEW s \in Shipments, NEW d \in Drafts,
         BeginSave(r, s, d)
  PROVE  IInv'
  <1> DEFINE y == [Idle EXCEPT !.op = "save", !.pc = "folder", !.scope = s, !.draft = d]
  <1>1. /\ TypeOK /\ RowsInv
        /\ \A x \in Others(r) : x \in Request /\ Own(x)
    BY Before
  <1>2. Begin(r, y) /\ s \notin used /\ used' = used \cup {s}
    BY DEF BeginSave
  <1>3. UNCHANGED <<shipments, folder, doc, stored>>
    BY <1>2 DEF Begin, rows
  <1>4. y.op = "save" /\ y.pc = "folder" /\ y.scope = s /\ y.draft = d
    BY DEF Idle
  <1>5. y \in Request
    BY DEF Idle, Request, Ops, Steps, NoFolder, FolderRow, Scopes
  <1> HIDE DEF y
  <1>6. ~Inserts(y) /\ ~Uploads(y) /\ Held(y) = {} /\ Refers(y) = {} /\ Destroys(y) = {} /\ Writes(y) = {}
    BY <1>4 DEF Inserts, Uploads, Held, Refers, Destroys, Writes
  <1>7. Own(y)'
    <2>1. Shape(y)' /\ OwnInserts(y)'
      BY <1>4, <1>6 DEF Shape, OwnInserts, Inserts, Uploads
    <2>2. OwnSave(y)' /\ OwnDestroy(y)' /\ OwnDelete(y)'
      BY <1>1, <1>2, <1>3, <1>4 DEF OwnSave, OwnDestroy, OwnDelete, RowsInv
    <2>3. QED
      BY <2>1, <2>2 DEF Own
  <1>8. ASSUME NEW x \in Others(r) PROVE Pair(y, x)' /\ Pair(x, y)'
    <2>1. x \in Request /\ OwnInserts(x) /\ OwnSave(x)
      BY <1>1, <1>8 DEF Own
    <2>2. x.op = "save" \/ Inserts(x) => x.scope # s
      BY <2>1, <1>2 DEF OwnInserts, OwnSave
    <2>3. Pair(y, x)'
      BY <2>1, <2>2, <1>3, <1>4, <1>6 DEF Pair, Held, Destroys, Refers, Writes, Inserts, Uploads
    <2>4. Pair(x, y)'
      BY <2>1, <2>2, <1>3, <1>4, <1>6 DEF Pair, Held, Destroys, Refers, Writes, Inserts, Uploads
    <2>5. QED
      BY <2>3, <2>4
  <1>9. used \subseteq used' /\ used' \subseteq Shipments \cup Folders \cup Docs
    BY <1>1, <1>2 DEF TypeOK
  <1>10. QED
    BY <1>2, <1>5, <1>7, <1>8, <1>9, BeginStep

LEMMA BeginDestroyInv ==
  ASSUME IInv, NEW r \in Requests, NEW s \in Shipments,
         BeginDestroy(r, s)
  PROVE  IInv'
  <1> DEFINE y == [Idle EXCEPT !.op = "destroy", !.pc = "list", !.scope = s]
  <1>1. /\ TypeOK /\ RowsInv
        /\ \A x \in Others(r) : x \in Request /\ Own(x)
    BY Before
  <1>2. Begin(r, y) /\ used' = used /\ s \in shipments /\ \A q \in Requests : s \notin Deleting(q) \cup Referring(q)
    BY DEF BeginDestroy
  <1>3. UNCHANGED <<shipments, folder, doc, stored>>
    BY <1>2 DEF Begin, rows
  <1>4. y.op = "destroy" /\ y.pc = "list" /\ y.scope = s
    BY DEF Idle
  <1>5. y \in Request
    BY DEF Idle, Request, Ops, Steps, NoFolder, FolderRow, Scopes
  <1> HIDE DEF y
  <1>6. ~Inserts(y) /\ ~Uploads(y) /\ Held(y) = {} /\ Refers(y) = {} /\ Destroys(y) = {s} /\ Writes(y) = {}
    BY <1>4 DEF Inserts, Uploads, Held, Refers, Destroys, Writes
  <1>7. Own(y)'
    <2>1. Shape(y)' /\ OwnInserts(y)'
      BY <1>4, <1>6 DEF Shape, OwnInserts, Inserts, Uploads
    <2>2. OwnSave(y)' /\ OwnDestroy(y)' /\ OwnDelete(y)'
      BY <1>1, <1>2, <1>3, <1>4 DEF OwnSave, OwnDestroy, OwnDelete
    <2>3. QED
      BY <2>1, <2>2 DEF Own
  <1>8. ASSUME NEW x \in Others(r) PROVE Pair(y, x)' /\ Pair(x, y)'
    <2>1. x \in Request /\ s \notin Destroys(x) \cup Refers(x)
      BY <1>1, <1>2, <1>8, SameRecords DEF Others
    <2>2. Pair(y, x)'
      BY <2>1, <1>3, <1>4, <1>6 DEF Pair, Held, Destroys, Refers, Writes, Inserts, Uploads
    <2>3. Pair(x, y)'
      BY <2>1, <1>3, <1>4, <1>6 DEF Pair, Held, Destroys, Refers, Writes, Inserts, Uploads
    <2>4. QED
      BY <2>2, <2>3
  <1>9. used \subseteq used' /\ used' \subseteq Shipments \cup Folders \cup Docs
    BY <1>1, <1>2 DEF TypeOK
  <1>10. QED
    BY <1>2, <1>5, <1>7, <1>8, <1>9, BeginStep

-----------------------------------------------------------------------------
(* Steps that only read rows or wait for the commit *)

LEMMA ReadStep ==
  ASSUME IInv, NEW r \in Requests, NEW y \in Request, Reads(r, y),
         Own(y), \A x \in Others(r) : Pair(y, x) /\ Pair(x, y),
         Hands(request[r]) \subseteq Hands(y)
  PROVE  IInv'
  <1>1. /\ request' = [request EXCEPT ![r] = y]
        /\ UNCHANGED <<shipments, folder, doc, stored, used, left, faults>>
    BY DEF Reads, Goes, rows
  <1>2. Own(y)'
    BY <1>1, QuietOwn
  <1>3. \A x \in Others(r) : Pair(y, x)' /\ Pair(x, y)'
    BY <1>1, Before, QuietPair
  <1>4. QED
    BY <1>1, <1>2, <1>3, Before, QuietStep DEF TypeOK

\* collectDescendants: nothing is promised of the folders it has found.
LEMMA CollectChildrenInv ==
  ASSUME IInv, NEW r \in Requests, CollectChildren(r)
  PROVE  IInv'
  <1>1. PICK x \in Request : x = request[r]
    BY Before
  <1>2. Own(x) /\ \A z \in Others(r) : z \in Request /\ Pair(x, z) /\ Pair(z, x)
    BY <1>1, Before
  <1>3. x.op = "deleteFolder" /\ x.pc = "children"
    BY <1>1 DEF CollectChildren, At
  <1>4. PICK new \in SUBSET Folders, todo \in SUBSET (Docs \cup Folders) :
          Reads(r, [x EXCEPT !.todo = todo, !.folders = @ \cup new, !.pc = IF todo = {} THEN "list" ELSE @])
    <2>1. PICK f \in x.todo :
            LET new == Children(f, x.scope) \ x.folders
                todo == (x.todo \ {f}) \cup new
            IN  Reads(r, [x EXCEPT !.todo = todo, !.folders = @ \cup new, !.pc = IF todo = {} THEN "list" ELSE @])
      BY <1>1 DEF CollectChildren
    <2>2. Children(f, x.scope) \ x.folders \in SUBSET Folders
      BY DEF Children, FoldersOf
    <2>3. (x.todo \ {f}) \cup (Children(f, x.scope) \ x.folders) \in SUBSET (Docs \cup Folders)
      BY <2>2 DEF Request
    <2>4. QED
      BY <2>1, <2>2, <2>3
  <1> DEFINE y == [x EXCEPT !.todo = todo, !.folders = @ \cup new, !.pc = IF todo = {} THEN "list" ELSE @]
  <1>5. y \in Request
    BY DEF Request, Steps
  <1>6. y.op = "deleteFolder" /\ y.pc \in {"children", "list"} /\ y.rows = x.rows /\ y.scope = x.scope
    BY <1>3 DEF Request
  <1>7. Reads(r, y)
    BY <1>4
  <1> HIDE DEF y
  <1>8. Own(y)
    BY <1>2, <1>3, <1>6 DEF Own, Shape, OwnInserts, OwnSave, OwnDestroy, OwnDelete, Inserts, Uploads
  <1>9. \A z \in Others(r) : Pair(y, z) /\ Pair(z, y)
    <2> SUFFICES ASSUME NEW z \in Others(r) PROVE Pair(y, z) /\ Pair(z, y)
      OBVIOUS
    <2>1. Pair(x, z) /\ Pair(z, x)
      BY <1>2
    <2>2. /\ ~Inserts(y) /\ ~Uploads(y) /\ Held(y) = {} /\ Refers(y) = {} /\ Destroys(y) = {} /\ Writes(y) = {}
      BY <1>6 DEF Inserts, Uploads, Held, Refers, Destroys, Writes
    <2>3. QED
      BY <2>1, <2>2, <1>3, <1>6 DEF Pair
  <1>10. Hands(x) = {}
    BY <1>3 DEF Hands
  <1>11. QED
    BY <1>1, <1>5, <1>7, <1>8, <1>9, <1>10, ReadStep

LEMMA ListDocumentsInv ==
  ASSUME IInv, NEW r \in Requests, ListDocuments(r)
  PROVE  IInv'
  <1>1. PICK x \in Request : x = request[r]
    BY Before
  <1>2. Own(x) /\ RowsInv /\ \A z \in Others(r) : z \in Request /\ Own(z) /\ Pair(x, z) /\ Pair(z, x)
    BY <1>1, Before
  <1>3. PICK D \in SUBSET Docs : D = DocsIn(x.folders, x.scope)
    BY DEF DocsIn, DocsOf
  <1> DEFINE y == [x EXCEPT !.pc = "documents", !.rows = D]
  <1>4. x.op = "deleteFolder" /\ x.pc = "list" /\ Reads(r, y)
    BY <1>1, <1>3 DEF ListDocuments, At
  <1>5. y \in Request
    BY DEF Request, Steps
  <1>6. y.op = "deleteFolder" /\ y.pc = "documents" /\ y.rows = D /\ y.scope = x.scope
    BY <1>4 DEF Request
  <1> HIDE DEF y
  <1>7. \A d \in D : Saved(d) /\ d \in used
    BY <1>2, <1>3, <1>4 DEF DocsIn, DocsOf, Saved, RowsInv, Own, Shape
  <1>8. Own(y)
    BY <1>2, <1>4, <1>6, <1>7 DEF Own, Shape, OwnInserts, OwnSave, OwnDestroy, OwnDelete, Inserts, Uploads
  <1>9. \A z \in Others(r) : Pair(y, z) /\ Pair(z, y)
    <2> SUFFICES ASSUME NEW z \in Others(r) PROVE Pair(y, z) /\ Pair(z, y)
      OBVIOUS
    <2>1. Pair(x, z) /\ Pair(z, x) /\ OwnInserts(z)
      BY <1>2, <1>4 DEF Own
    <2>2. /\ ~Inserts(y) /\ ~Uploads(y) /\ Held(y) = {} /\ Refers(y) = {} /\ Destroys(y) = {} /\ Writes(y) = {}
      BY <1>6 DEF Inserts, Uploads, Held, Refers, Destroys, Writes
    <2>3. D \cap Held(z) = {}
      BY <2>1, <1>7 DEF OwnInserts, Held, Inserts, Uploads
    <2>4. QED
      BY <2>1, <2>2, <2>3, <1>6 DEF Pair
  <1>10. Hands(x) = {}
    BY <1>4 DEF Hands
  <1>11. QED
    BY <1>1, <1>4, <1>5, <1>8, <1>9, <1>10, ReadStep

LEMMA DeleteDocumentsInv ==
  ASSUME IInv, NEW r \in Requests, DeleteDocuments(r)
  PROVE  IInv'
  <1>1. PICK x \in Request : x = request[r]
    BY Before
  <1>2. Own(x) /\ \A z \in Others(r) : z \in Request /\ Pair(x, z) /\ Pair(z, x)
    BY <1>1, Before
  <1> DEFINE y == [x EXCEPT !.pc = "folder"]
  <1>4. x.op = "deleteFolder" /\ x.pc = "documents" /\ Reads(r, y) /\ Unlocked(r, x.rows)
    BY <1>1 DEF DeleteDocuments, At
  <1>5. y \in Request
    BY DEF Request, Steps
  <1>6. y.op = "deleteFolder" /\ y.pc = "folder" /\ y.rows = x.rows /\ y.folders = x.folders /\ y.scope = x.scope
    BY <1>4 DEF Request
  <1> HIDE DEF y
  <1>8. Own(y)
    BY <1>2, <1>4, <1>6 DEF Own, Shape, OwnInserts, OwnSave, OwnDestroy, OwnDelete, Inserts, Uploads
  <1>9. \A z \in Others(r) : Pair(y, z) /\ Pair(z, y)
    <2> SUFFICES ASSUME NEW z \in Others(r) PROVE Pair(y, z) /\ Pair(z, y)
      OBVIOUS
    <2>1. Pair(x, z) /\ Pair(z, x) /\ x.rows \cap Writes(z) = {}
      BY <1>2, <1>4, Guards
    <2>2. /\ ~Inserts(y) /\ ~Uploads(y) /\ Held(y) = {} /\ Refers(y) = {} /\ Destroys(y) = {} /\ Writes(y) = x.rows
      BY <1>6 DEF Inserts, Uploads, Held, Refers, Destroys, Writes
    <2>3. QED
      BY <2>1, <2>2, <1>4, <1>6 DEF Pair
  <1>10. Hands(x) = {}
    BY <1>4 DEF Hands
  <1>11. QED
    BY <1>1, <1>4, <1>5, <1>8, <1>9, <1>10, ReadStep

LEMMA DeleteFoldersInv ==
  ASSUME IInv, NEW r \in Requests, DeleteFolders(r)
  PROVE  IInv'
  <1>1. PICK x \in Request : x = request[r]
    BY Before
  <1>2. /\ Own(x) /\ TypeOK /\ RowsInv
        /\ \A z \in Others(r) : z \in Request /\ Own(z) /\ Pair(x, z) /\ Pair(z, x)
    BY <1>1, Before
  <1> DEFINE y == [x EXCEPT !.pc = "commit"]
  <1>4. x.op = "deleteFolder" /\ x.pc = "folder" /\ Reads(r, y) /\ Unlocked(r, x.folders)
    BY <1>1 DEF DeleteFolders, At
  <1>5. y \in Request
    BY DEF Request, Steps
  <1>6. y.op = "deleteFolder" /\ y.pc = "commit" /\ y.rows = x.rows /\ y.folders = x.folders /\ y.scope = x.scope
    BY <1>4 DEF Request
  <1> HIDE DEF y
  <1>8. Own(y)
    BY <1>2, <1>4, <1>6 DEF Own, Shape, OwnInserts, OwnSave, OwnDestroy, OwnDelete, Inserts, Uploads
  <1>9. \A z \in Others(r) : Pair(y, z) /\ Pair(z, y)
    <2> SUFFICES ASSUME NEW z \in Others(r) PROVE Pair(y, z) /\ Pair(z, y)
      OBVIOUS
    <2>1. Pair(x, z) /\ Pair(z, x) /\ OwnInserts(z) /\ x.folders \cap Writes(z) = {}
      BY <1>2, <1>4, Guards DEF Own
    <2>2. /\ ~Inserts(y) /\ ~Uploads(y) /\ Held(y) = {} /\ Refers(y) = {} /\ Destroys(y) = {} /\ Writes(y) = x.folders \cup x.rows
      BY <1>6 DEF Inserts, Uploads, Held, Refers, Destroys, Writes
    <2>3. Destroys(x) = {} /\ Writes(x) = x.rows
      BY <1>4 DEF Destroys, Writes
    <2>5. QED
      BY <2>1, <2>2, <2>3, <1>4, <1>6 DEF Pair
  <1>10. Hands(x) = {}
    BY <1>4 DEF Hands
  <1>11. QED
    BY <1>1, <1>4, <1>5, <1>8, <1>9, <1>10, ReadStep

LEMMA AttachFoldersInv ==
  ASSUME IInv, NEW r \in Requests, AttachFolders(r)
  PROVE  IInv'
  <1>1. PICK x \in Request : x = request[r]
    BY Before
  <1>2. /\ Own(x) /\ TypeOK /\ RowsInv
        /\ \A z \in Others(r) : z \in Request /\ Own(z) /\ Pair(x, z) /\ Pair(z, x)
    BY <1>1, Before
  <1>3. PICK F \in SUBSET Folders : F = FoldersOf(x.draft)
    BY DEF FoldersOf
  <1> DEFINE y == [x EXCEPT !.pc = "documents", !.folders = F]
  <1>4. x.op = "save" /\ x.pc = "folder" /\ Reads(r, y) /\ Unlocked(r, F)
    BY <1>1, <1>3 DEF AttachFolders, At
  <1>5. y \in Request
    BY DEF Request, Steps
  <1>6. y.op = "save" /\ y.pc = "documents" /\ y.folders = F /\ y.scope = x.scope /\ y.draft = x.draft
    BY <1>4 DEF Request
  <1> HIDE DEF y
  <1>8. Own(y)
    BY <1>2, <1>4, <1>6, <1>3 DEF Own, Shape, OwnInserts, OwnSave, OwnDestroy, OwnDelete, Inserts, Uploads, FoldersOf
  <1>9. \A z \in Others(r) : Pair(y, z) /\ Pair(z, y)
    <2> SUFFICES ASSUME NEW z \in Others(r) PROVE Pair(y, z) /\ Pair(z, y)
      OBVIOUS
    <2>1. Pair(x, z) /\ Pair(z, x) /\ OwnInserts(z) /\ F \cap Writes(z) = {}
      BY <1>2, <1>4, Guards DEF Own
    <2>2. /\ ~Inserts(y) /\ ~Uploads(y) /\ Held(y) = {} /\ Refers(y) = {} /\ Destroys(y) = {} /\ Writes(y) = F
      BY <1>6 DEF Inserts, Uploads, Held, Refers, Destroys, Writes
    <2>3. Destroys(x) = {} /\ Writes(x) = {}
      BY <1>4 DEF Destroys, Writes
    <2>5. QED
      BY <2>1, <2>2, <2>3, <1>4, <1>6 DEF Pair
  <1>10. Hands(x) = {}
    BY <1>4 DEF Hands
  <1>11. QED
    BY <1>1, <1>4, <1>5, <1>8, <1>9, <1>10, ReadStep

LEMMA AttachDocumentsInv ==
  ASSUME IInv, NEW r \in Requests, AttachDocuments(r)
  PROVE  IInv'
  <1>1. PICK x \in Request : x = request[r]
    BY Before
  <1>2. /\ Own(x) /\ TypeOK /\ RowsInv
        /\ \A z \in Others(r) : z \in Request /\ Own(z) /\ Pair(x, z) /\ Pair(z, x)
    BY <1>1, Before
  <1>3. PICK D \in SUBSET Docs : D = DocsOf(x.draft)
    BY DEF DocsOf
  <1> DEFINE y == [x EXCEPT !.pc = "commit", !.rows = D]
  <1>4. x.op = "save" /\ x.pc = "documents" /\ Reads(r, y) /\ Unlocked(r, D)
    BY <1>1, <1>3 DEF AttachDocuments, At
  <1>5. y \in Request
    BY DEF Request, Steps
  <1>6. y.op = "save" /\ y.pc = "commit" /\ y.folders = x.folders /\ y.rows = D /\ y.scope = x.scope /\ y.draft = x.draft
    BY <1>4 DEF Request
  <1> HIDE DEF y
  <1>8. Own(y)
    BY <1>2, <1>4, <1>6, <1>3 DEF Own, Shape, OwnInserts, OwnSave, OwnDestroy, OwnDelete, Inserts, Uploads, DocsOf
  <1>9. \A z \in Others(r) : Pair(y, z) /\ Pair(z, y)
    <2> SUFFICES ASSUME NEW z \in Others(r) PROVE Pair(y, z) /\ Pair(z, y)
      OBVIOUS
    <2>1. Pair(x, z) /\ Pair(z, x) /\ OwnInserts(z) /\ D \cap Writes(z) = {}
      BY <1>2, <1>4, Guards DEF Own
    <2>2. /\ ~Inserts(y) /\ ~Uploads(y) /\ Held(y) = {} /\ Refers(y) = {} /\ Destroys(y) = {} /\ Writes(y) = x.folders \cup D
      BY <1>6 DEF Inserts, Uploads, Held, Refers, Destroys, Writes
    <2>3. Destroys(x) = {} /\ Writes(x) = x.folders
      BY <1>4 DEF Destroys, Writes
    <2>5. QED
      BY <2>1, <2>2, <2>3, <1>4, <1>6 DEF Pair
  <1>10. Hands(x) = {}
    BY <1>4 DEF Hands
  <1>11. QED
    BY <1>1, <1>4, <1>5, <1>8, <1>9, <1>10, ReadStep

LEMMA ListKeysInv ==
  ASSUME IInv, NEW r \in Requests, ListKeys(r)
  PROVE  IInv'
  <1>1. PICK x \in Request : x = request[r]
    BY Before
  <1>2. /\ Own(x) /\ TypeOK /\ RowsInv
        /\ \A z \in Others(r) : z \in Request /\ Own(z) /\ Pair(x, z) /\ Pair(z, x)
    BY <1>1, Before
  <1>3. PICK D \in SUBSET Docs : D = Prefixed(x.scope)
    BY DEF Prefixed
  <1> DEFINE y == [x EXCEPT !.pc = "commit", !.keys = D]
  <1>4. x.op = "destroy" /\ x.pc = "list" /\ Reads(r, y)
    BY <1>1, <1>3 DEF ListKeys, At
  <1>5. y \in Request
    BY DEF Request, Steps
  <1>6. y.op = "destroy" /\ y.pc = "commit" /\ y.keys = D /\ y.scope = x.scope
    BY <1>4 DEF Request
  <1> HIDE DEF y
  <1>7. /\ x.scope \in Shipments
        /\ \A d \in D : d \in used /\ stored[d] = x.scope /\ (Saved(d) => doc[d].scope = x.scope)
    <2>1. x.scope \in Shipments
      BY <1>2, <1>4 DEF Own, Shape
    <2>2. QED
      BY <2>1, <1>2, <1>3 DEF Prefixed, RowsInv, Scopes
  <1>8. Own(y)
    BY <1>2, <1>4, <1>6, <1>3, <1>7 DEF Own, Shape, OwnInserts, OwnSave, OwnDestroy, OwnDelete, Inserts, Uploads, Prefixed
  <1>9. \A z \in Others(r) : Pair(y, z) /\ Pair(z, y)
    <2> SUFFICES ASSUME NEW z \in Others(r) PROVE Pair(y, z) /\ Pair(z, y)
      OBVIOUS
    <2>1. Pair(x, z) /\ Pair(z, x) /\ OwnInserts(z)
      BY <1>2, <1>4 DEF Own
    <2>2. /\ ~Inserts(y) /\ ~Uploads(y) /\ Held(y) = {} /\ Refers(y) = {} /\ Destroys(y) = {x.scope} /\ Writes(y) = {}
      BY <1>6 DEF Inserts, Uploads, Held, Refers, Destroys, Writes
    <2>3. Destroys(x) = {x.scope} /\ Writes(x) = {}
      BY <1>4 DEF Destroys, Writes
    <2>4. \A d \in D \cap Held(z) : z.scope = x.scope
      BY <2>1, <1>7 DEF OwnInserts, Held, Inserts, Uploads, Scopes
    <2>5. QED
      BY <2>1, <2>2, <2>3, <1>4, <1>6, <2>4 DEF Pair
  <1>10. Hands(x) = {}
    BY <1>4 DEF Hands
  <1>11. QED
    BY <1>1, <1>4, <1>5, <1>8, <1>9, <1>10, ReadStep

LEMMA CheckUpdateInv ==
  ASSUME IInv, NEW r \in Requests, CheckUpdate(r)
  PROVE  IInv'
  <1>1. PICK x \in Request : x = request[r]
    BY Before
  <1>2. /\ Own(x) /\ TypeOK /\ RowsInv
        /\ \A z \in Others(r) : z \in Request /\ Own(z) /\ Pair(x, z) /\ Pair(z, x)
    BY <1>1, Before
  <1> DEFINE y == [x EXCEPT !.pc = "commit"]
  <1>4. x.op = "update" /\ x.pc = "folder" /\ Reads(r, y)
    BY <1>1 DEF CheckUpdate, At
  <1>5. y \in Request
    BY DEF Request, Steps
  <1>6. y.op = "update" /\ y.pc = "commit"
    BY <1>4 DEF Request
  <1> HIDE DEF y
  <1>8. Own(y)
    BY <1>2, <1>4, <1>6 DEF Own, Shape, OwnInserts, OwnSave, OwnDestroy, OwnDelete, Inserts, Uploads
  <1>9. \A z \in Others(r) : Pair(y, z) /\ Pair(z, y)
    <2> SUFFICES ASSUME NEW z \in Others(r) PROVE Pair(y, z) /\ Pair(z, y)
      OBVIOUS
    <2>1. Pair(x, z) /\ Pair(z, x) /\ OwnInserts(z)
      BY <1>2, <1>4 DEF Own
    <2>2. /\ ~Inserts(y) /\ ~Uploads(y) /\ Held(y) = {} /\ Refers(y) = {} /\ Destroys(y) = {} /\ Writes(y) = {}
      BY <1>6 DEF Inserts, Uploads, Held, Refers, Destroys, Writes
    <2>3. Destroys(x) = {} /\ Writes(x) = {}
      BY <1>4 DEF Destroys, Writes
    <2>5. QED
      BY <2>1, <2>2, <2>3, <1>4, <1>6 DEF Pair
  <1>10. Hands(x) = {}
    BY <1>4 DEF Hands
  <1>11. QED
    BY <1>1, <1>4, <1>5, <1>8, <1>9, <1>10, ReadStep

-----------------------------------------------------------------------------
(* Insertions *)

LEMMA InsertFolderInv ==
  ASSUME IInv, NEW r \in Requests, InsertFolder(r)
  PROVE  IInv'
  <1>1. PICK x \in Request : x = request[r]
    BY Before
  <1>2. Own(x) /\ \A z \in Others(r) : z \in Request /\ Pair(x, z) /\ Pair(z, x)
    BY <1>1, Before
  <1> DEFINE y == [x EXCEPT !.pc = IF x.op = "create" THEN "commit" ELSE "store", !.folders = {x.new}]
  <1>3. x.op \in {"create", "upload"} /\ x.pc = "folder" /\ CanRefer(r) /\ Reads(r, y)
    BY <1>1 DEF InsertFolder
  <1>4. x.new \in Folders
    BY <1>2, <1>3 DEF Own, Shape, Uploads, Request
  <1>5. y \in Request
    BY <1>4 DEF Request, Steps
  <1>6. /\ y.op = x.op /\ y.pc = (IF x.op = "create" THEN "commit" ELSE "store") /\ y.folders = {x.new}
        /\ y.scope = x.scope /\ y.into = x.into /\ y.new = x.new /\ y.todo = x.todo /\ y.rows = x.rows /\ y.keys = x.keys
    BY DEF Request
  <1> HIDE DEF y
  <1>7. /\ Inserts(x) /\ Inserts(y) /\ (Uploads(y) <=> Uploads(x)) /\ Held(y) = Held(x) /\ Refers(y) = {x.scope}
        /\ Destroys(y) = {} /\ Writes(y) = {} /\ Hands(y) = Hands(x)
    BY <1>3, <1>6 DEF Inserts, Uploads, Held, Refers, Destroys, Writes, Hands
  <1>8. Own(y)
    <2>1. Shape(y)
      BY <1>2, <1>3, <1>4, <1>6, <1>7 DEF Own, Shape, Uploads
    <2>2. OwnInserts(y)
      BY <1>1, <1>2, <1>3, <1>6, <1>7 DEF Own, OwnInserts, CanRefer, IsOpen
    <2>3. OwnSave(y) /\ OwnDestroy(y) /\ OwnDelete(y)
      BY <1>3, <1>6 DEF OwnSave, OwnDestroy, OwnDelete
    <2>4. QED
      BY <2>1, <2>2, <2>3 DEF Own
  <1>9. \A z \in Others(r) : Pair(y, z) /\ Pair(z, y)
    <2> SUFFICES ASSUME NEW z \in Others(r) PROVE Pair(y, z) /\ Pair(z, y)
      OBVIOUS
    <2>1. Pair(x, z) /\ Pair(z, x) /\ x.scope \notin Destroys(z)
      BY <1>1, <1>2, <1>3, Guards
    <2>2. QED
      BY <2>1, <1>3, <1>6, <1>7 DEF Pair
  <1>10. QED
    BY <1>1, <1>3, <1>5, <1>7, <1>8, <1>9, ReadStep

LEMMA InsertDocumentInv ==
  ASSUME IInv, NEW r \in Requests, InsertDocument(r)
  PROVE  IInv'
  <1>1. PICK x \in Request : x = request[r]
    BY Before
  <1>2. Own(x) /\ \A z \in Others(r) : z \in Request /\ Pair(x, z) /\ Pair(z, x)
    BY <1>1, Before
  <1> DEFINE d == x.todo \cap x.keys
             y == [x EXCEPT !.pc = IF x.todo = d THEN "commit" ELSE "store", !.todo = @ \ d, !.rows = @ \cup d]
  <1>3. x.op = "upload" /\ x.pc = "insert" /\ CanRefer(r) /\ Reads(r, y)
    BY <1>1 DEF InsertDocument, At
  <1>4. y \in Request
    BY DEF Request, Steps
  <1>5. /\ y.op = "upload" /\ y.pc \in {"commit", "store"} /\ y.folders = x.folders /\ y.todo = x.todo \ x.keys
        /\ y.rows = x.rows \cup (x.todo \cap x.keys)
        /\ y.scope = x.scope /\ y.into = x.into /\ y.new = x.new /\ y.keys = x.keys
    BY <1>3 DEF Request
  <1> HIDE DEF y
  <1>6. Shape(x) /\ Uploads(x) /\ Inserts(x) /\ Uploads(y) /\ Inserts(y)
    BY <1>2, <1>3, <1>5 DEF Own, Uploads, Inserts
  <1>7. y.rows = x.keys /\ Held(y) = Held(x)
    BY <1>5, <1>6 DEF Shape, Held
  <1>8. /\ Refers(y) \subseteq {x.scope} /\ Destroys(y) = {} /\ Writes(y) = {} /\ Hands(y) = Hands(x)
    BY <1>3, <1>5 DEF Refers, Destroys, Writes, Hands
  <1>9. x.scope \in Drafts \cup shipments
    BY <1>1, <1>3 DEF CanRefer, IsOpen
  <1>10. Own(y)
    <2>1. Shape(y)
      BY <1>3, <1>5, <1>6, <1>7 DEF Shape, Uploads
    <2>2. OwnInserts(y)
      BY <1>2, <1>3, <1>5, <1>6, <1>7, <1>8, <1>9 DEF Own, OwnInserts
    <2>3. OwnSave(y) /\ OwnDestroy(y) /\ OwnDelete(y)
      BY <1>5 DEF OwnSave, OwnDestroy, OwnDelete
    <2>4. QED
      BY <2>1, <2>2, <2>3 DEF Own
  <1>11. \A z \in Others(r) : Pair(y, z) /\ Pair(z, y)
    <2> SUFFICES ASSUME NEW z \in Others(r) PROVE Pair(y, z) /\ Pair(z, y)
      OBVIOUS
    <2>1. Pair(x, z) /\ Pair(z, x) /\ x.scope \notin Destroys(z)
      BY <1>1, <1>2, <1>3, Guards
    <2>2. QED
      BY <2>1, <1>3, <1>5, <1>6, <1>7, <1>8 DEF Pair
  <1>12. QED
    BY <1>1, <1>3, <1>4, <1>8, <1>10, <1>11, ReadStep

-----------------------------------------------------------------------------
(* Objects that are stored or deleted *)

\* No row tells of the object, and no request that could still insert one.
LEMMA StoredOthers ==
  ASSUME TypeOK, NEW d \in Docs, NEW v, stored' = [stored EXCEPT ![d] = v], ~Saved(d),
         UNCHANGED <<shipments, folder, doc, used>>
  PROVE  \A z \in Request : /\ Own(z)
                            /\ d \in Held(z) => v = None /\ z.scope \notin Drafts \cup shipments
                            => Own(z)'
  <1> SUFFICES ASSUME NEW z \in Request, Own(z), d \in Held(z) => v = None /\ z.scope \notin Drafts \cup shipments
               PROVE  Own(z)'
    OBVIOUS
  <1>1. stored'[d] = v /\ \A e \in Docs : e # d => stored'[e] = stored[e]
    BY DEF TypeOK
  <1>2. Shape(z)'
    BY DEF Own, Shape, Uploads, Idle
  <1>3. OwnInserts(z)'
    <2> SUFFICES ASSUME Inserts(z) PROVE OwnInserts(z)'
      BY DEF OwnInserts, Inserts
    <2>1. OwnInserts(z) /\ Shape(z)
      BY DEF Own
    <2>2. Held(z) \subseteq Docs
      BY DEF Held, Request, Uploads, Own, Shape
    <2>3. z.op = "upload" => z.keys \subseteq Held(z)
      BY DEF Inserts, Held, Uploads
    <2>4. \A e \in Held(z) : e \in used' /\ ~Saved(e)' /\ stored'[e] \in {None, z.scope}
      BY <1>1, <2>1, <2>2 DEF OwnInserts, Saved
    <2>5. z.op = "upload" /\ z.scope \in Drafts \cup shipments => \A e \in z.keys : stored'[e] = z.scope
      BY <1>1, <2>1, <2>2, <2>3 DEF OwnInserts
    <2>6. Held(z)' = Held(z) /\ Refers(z)' = Refers(z)
      BY DEF Held, Uploads, Refers, Inserts
    <2>7. QED
      BY <2>1, <2>4, <2>5, <2>6 DEF OwnInserts, Exists, Saved
  <1>4. OwnSave(z)'
    BY DEF Own, OwnSave
  <1>5. OwnDestroy(z)'
    BY <1>1 DEF Own, OwnDestroy, Saved
  <1>6. OwnDelete(z)'
    BY DEF Own, OwnDelete, Saved
  <1>7. QED
    BY <1>2, <1>3, <1>4, <1>5, <1>6 DEF Own

LEMMA StoredRows ==
  ASSUME TypeOK, RowsInv, NEW d \in Docs, NEW v \in Scopes \cup {None},
         stored' = [stored EXCEPT ![d] = v], ~Saved(d), d \in used,
         UNCHANGED <<shipments, folder, doc, used>>, left' \subseteq Docs, faults' \in 0..MaxFaults
  PROVE  RowsTyped' /\ RowsInv'
  <1>1. stored'[d] = v /\ (\A e \in Docs : e # d => stored'[e] = stored[e]) /\ stored' \in [Docs -> Scopes \cup {None}]
    BY DEF TypeOK
  <1>2. RowsTyped'
    BY <1>1 DEF RowsTyped, TypeOK
  <1>3. RowsInv'
    BY <1>1 DEF RowsInv, Exists, Saved
  <1>4. QED
    BY <1>2, <1>3

LEMMA StoreObjectInv ==
  ASSUME IInv, NEW r \in Requests, StoreObject(r)
  PROVE  IInv'
  <1>1. PICK x \in Request : x = request[r]
    BY Before
  <1>2. /\ Own(x) /\ TypeOK /\ RowsInv
        /\ \A z \in Others(r) : z \in Request /\ Own(z) /\ Pair(x, z) /\ Pair(z, x)
    BY <1>1, Before
  <1>3. PICK d \in x.todo :
          /\ stored' = [stored EXCEPT ![d] = x.scope]
          /\ Goes(r, [x EXCEPT !.pc = "insert", !.keys = @ \cup {d}])
    BY <1>1 DEF StoreObject
  <1>4. /\ x.op = "upload" /\ x.pc = "store"
        /\ UNCHANGED <<shipments, folder, doc, left, used, faults>>
    BY <1>1 DEF StoreObject, At, rows
  <1> DEFINE y == [x EXCEPT !.pc = "insert", !.keys = @ \cup {d}]
  <1>5. Uploads(x) /\ Inserts(x) /\ Shape(x) /\ OwnInserts(x)
    BY <1>2, <1>4 DEF Uploads, Inserts, Own
  <1>6. d \in Docs /\ d \in Held(x) /\ ~Saved(d) /\ d \in used /\ x.scope \in Scopes
    BY <1>5 DEF Shape, OwnInserts, Held
  <1>7. y \in Request
    BY <1>6 DEF Request, Steps
  <1>8. /\ y.op = "upload" /\ y.pc = "insert" /\ y.folders = x.folders /\ y.todo = x.todo /\ y.rows = x.rows
        /\ y.scope = x.scope /\ y.into = x.into /\ y.new = x.new /\ y.keys = x.keys \cup {d}
    BY <1>4 DEF Request
  <1>9. request' = [request EXCEPT ![r] = y]
    BY <1>3 DEF Goes
  <1> HIDE DEF y
  <1>10. /\ Uploads(y) /\ Inserts(y) /\ Held(y) = Held(x) /\ Refers(y) = Refers(x)
         /\ Destroys(y) = {} /\ Writes(y) = {} /\ Hands(y) = x.keys \cup {d} /\ Hands(x) = x.keys
    BY <1>4, <1>5, <1>6, <1>8 DEF Uploads, Inserts, Held, Refers, Destroys, Writes, Hands
  <1>11. stored'[d] = x.scope /\ \A e \in Docs : e # d => stored'[e] = stored[e]
    BY <1>2, <1>3, <1>6 DEF TypeOK
  <1>12. RowsTyped' /\ RowsInv'
    <2>1. x.scope \in Scopes \cup {None} /\ left' \subseteq Docs /\ faults' \in 0..MaxFaults
      BY <1>2, <1>4, <1>6 DEF TypeOK
    <2>2. QED
      BY <2>1, <1>2, <1>3, <1>4, <1>6, StoredRows
  <1>13. Own(y)'
    <2>1. Shape(y)'
      BY <1>4, <1>5, <1>8, <1>10 DEF Shape, Uploads
    <2>2. OwnInserts(y)'
      <3>1. Held(y)' = Held(x) /\ Refers(y)' = Refers(x)
        BY <1>10 DEF Held, Uploads, Refers, Inserts
      <3>2. Held(x) \subseteq Docs /\ x.keys \subseteq Held(x)
        BY <1>5 DEF Held, Shape, Request
      <3>3. \A e \in Held(x) : e \in used' /\ ~Saved(e)' /\ stored'[e] \in {None, x.scope}
        BY <1>4, <1>5, <1>11, <3>2 DEF OwnInserts, Saved
      <3>4. x.scope \in Drafts \cup shipments => \A e \in y.keys : stored'[e] = x.scope
        BY <1>4, <1>5, <1>8, <1>11, <3>2 DEF OwnInserts
      <3>5. QED
        BY <3>1, <3>3, <3>4, <1>4, <1>5, <1>8, <1>10 DEF OwnInserts, Exists, Saved
    <2>3. OwnSave(y)' /\ OwnDestroy(y)' /\ OwnDelete(y)'
      BY <1>8 DEF OwnSave, OwnDestroy, OwnDelete
    <2>4. QED
      BY <2>1, <2>2, <2>3 DEF Own
  <1>14. \A z \in Others(r) : Own(z)' /\ Pair(y, z)' /\ Pair(z, y)'
    <2> SUFFICES ASSUME NEW z \in Others(r) PROVE Own(z)' /\ Pair(y, z)' /\ Pair(z, y)'
      OBVIOUS
    <2>1. z \in Request /\ Own(z) /\ Pair(x, z) /\ Pair(z, x)
      BY <1>2
    <2>2. d \notin Held(z)
      BY <1>6, <2>1 DEF Pair
    <2>3. Own(z)'
      BY <2>1, <2>2, <1>2, <1>3, <1>4, <1>6, StoredOthers
    <2>4. Pair(y, z) /\ Pair(z, y)
      BY <2>1, <1>4, <1>5, <1>8, <1>10 DEF Pair
    <2>5. QED
      BY <2>1, <2>3, <2>4, <1>4, <1>7, QuietPair
  <1>15. \A a, b \in Request : Pair(a, b) => Pair(a, b)'
    BY <1>4, QuietPair
  <1>16. \A e \in Docs : stored'[e] \in Shipments /\ ~Saved(e)' =>
            \/ e \in Hands(y) \cup left'
            \/ stored[e] \in Shipments /\ ~Saved(e) /\ e \notin Hands(request[r])
    BY <1>1, <1>4, <1>10, <1>11 DEF Saved
  <1>17. QED
    BY <1>4, <1>7, <1>9, <1>12, <1>13, <1>14, <1>15, <1>16, FrameStep

\* The object of d, that no row and no insertion tells of, is stored or deleted.
LEMMA StoredStep ==
  ASSUME IInv, NEW r \in Requests, NEW y \in Request, request' = [request EXCEPT ![r] = y],
         UNCHANGED <<shipments, folder, doc, used>>,
         left \subseteq left', left' \subseteq Docs, faults' \in 0..MaxFaults,
         NEW d \in Docs, NEW v \in Scopes \cup {None}, stored' = [stored EXCEPT ![d] = v], ~Saved(d), d \in used,
         Own(y)', \A z \in Others(r) : Pair(y, z)' /\ Pair(z, y)',
         \A z \in Others(r) : d \in Held(z) => v = None /\ z.scope \notin Drafts \cup shipments,
         \A e \in Hands(request[r]) : e \in Hands(y) \cup left' \/ (e = d /\ v = None),
         v = None \/ d \in Hands(y) \cup left'
  PROVE  IInv'
  <1>1. TypeOK /\ RowsInv /\ \A z \in Others(r) : z \in Request /\ Own(z)
    BY Before
  <1>2. RowsTyped' /\ RowsInv'
    BY <1>1, StoredRows
  <1>3. \A z \in Others(r) : Own(z)'
    BY <1>1, StoredOthers
  <1>4. \A a, b \in Request : Pair(a, b) => Pair(a, b)'
    BY QuietPair
  <1>5. \A e \in Docs : stored'[e] \in Shipments /\ ~Saved(e)' =>
            \/ e \in Hands(y) \cup left'
            \/ stored[e] \in Shipments /\ ~Saved(e) /\ e \notin Hands(request[r])
    <2> SUFFICES ASSUME NEW e \in Docs, stored'[e] \in Shipments, ~Saved(e)', e \notin Hands(y) \cup left'
                 PROVE  stored[e] \in Shipments /\ ~Saved(e) /\ e \notin Hands(request[r])
      OBVIOUS
    <2>1. stored'[d] = v /\ (e # d => stored'[e] = stored[e])
      BY <1>1 DEF TypeOK
    <2>2. e # d
      BY <2>1, NoneAssumption DEF Scopes
    <2>3. QED
      BY <2>1, <2>2 DEF Saved
  <1>6. QED
    BY <1>2, <1>3, <1>4, <1>5, FrameStep

\* What a request that deletes objects from now on has to fulfil.
LEMMA CleaningAlone ==
  ASSUME NEW op \in {"upload", "deleteFile", "deleteFolder", "destroy"}, NEW K \in SUBSET Docs,
         NEW y, y = Cleaning(op, K), NEW r \in Requests, IInv,
         \A e \in K : e \in used' /\ ~Saved(e)',
         \A z \in Others(r) : K \cap Held(z) # {} => z.scope \notin Drafts \cup shipments'
  PROVE  y \in Request /\ Hands(y) = K /\ Own(y)' /\ \A z \in Others(r) : Pair(y, z)' /\ Pair(z, y)'
  <1>1. y \in Request /\ Hands(y) = K
    BY CleaningFields
  <1>2. Own(y)'
    BY <1>1, CleaningOwn
  <1>3. \A z \in Others(r) : z \in Request
    BY Before
  <1>4. \A z \in Others(r) : Pair(y, z)' /\ Pair(z, y)'
    BY <1>1, <1>3, CleaningPair
  <1>5. QED
    BY <1>1, <1>2, <1>4

LEMMA CleanObjectInv ==
  ASSUME IInv, NEW r \in Requests, CleanObject(r)
  PROVE  IInv'
  <1>1. PICK x \in Request : x = request[r]
    BY Before
  <1>2. Own(x) /\ Shape(x) /\ TypeOK /\ RowsInv
    BY <1>1, Before DEF Own
  <1>3. PICK d \in x.keys :
          /\ Ends(r, x.keys \ {d})
          /\ \/ stored' = [stored EXCEPT ![d] = None] /\ UNCHANGED <<left, faults>>
             \/ faults < MaxFaults /\ faults' = faults + 1 /\ left' = left \cup {d} /\ UNCHANGED stored
    BY <1>1 DEF CleanObject
  <1>4. x.pc = "clean" /\ UNCHANGED <<shipments, folder, doc, used>>
    BY <1>1 DEF CleanObject, rows
  <1>5. x.keys \subseteq Docs /\ Hands(x) = x.keys /\ x.op \in {"upload", "deleteFile", "deleteFolder", "destroy"}
    BY <1>2, <1>4, WhoCleans DEF Hands, Request
  <1>6. \A e \in x.keys : e \in used /\ ~Saved(e)
    BY <1>2, <1>4 DEF Own, OwnDelete
  <1>7. \A z \in Request : Pair(x, z) => (x.keys \cap Held(z) # {} => z.scope \notin Drafts \cup shipments)
    BY <1>4 DEF Pair
  <1>8. PICK K \in SUBSET Docs : K = x.keys \ {d}
    BY <1>5
  <1>9. PICK y \in Request : y = Cleaning(x.op, K)
    BY <1>5, CleaningFields
  <1>10. request' = [request EXCEPT ![r] = y]
    BY <1>1, <1>3, <1>8, <1>9, Ended
  <1>11. Hands(y) = K /\ Own(y)' /\ \A z \in Others(r) : Pair(y, z)' /\ Pair(z, y)'
    <2>1. \A e \in K : e \in used' /\ ~Saved(e)'
      BY <1>4, <1>6, <1>8 DEF Saved
    <2>2. \A z \in Others(r) : K \cap Held(z) # {} => z.scope \notin Drafts \cup shipments'
      BY <1>1, <1>4, <1>7, <1>8, Before
    <2>3. QED
      BY <2>1, <2>2, <1>5, <1>9, CleaningAlone
  <1>12. d \in Docs /\ d \in used /\ ~Saved(d)
    BY <1>3, <1>5, <1>6
  <1>13. CASE stored' = [stored EXCEPT ![d] = None] /\ UNCHANGED <<left, faults>>
    <2>1. \A z \in Others(r) : d \in Held(z) => z.scope \notin Drafts \cup shipments
      BY <1>1, <1>3, <1>7, Before
    <2>2. left \subseteq left' /\ left' \subseteq Docs /\ faults' \in 0..MaxFaults
      BY <1>2, <1>13 DEF TypeOK
    <2>3. \A e \in Hands(request[r]) : e \in Hands(y) \/ e = d
      BY <1>1, <1>5, <1>8, <1>11
    <2>4. QED
      BY <2>1, <2>2, <2>3, <1>4, <1>10, <1>11, <1>12, <1>13, StoredStep
  <1>14. CASE faults < MaxFaults /\ faults' = faults + 1 /\ left' = left \cup {d} /\ UNCHANGED stored
    <2>1. left \subseteq left' /\ left' \subseteq Docs /\ faults' \in 0..MaxFaults
      BY <1>2, <1>12, <1>14, MaxFaultsAssumption DEF TypeOK
    <2>2. /\ UNCHANGED <<shipments, folder, doc, stored>> /\ used \subseteq used'
          /\ used' \subseteq Shipments \cup Folders \cup Docs
      BY <1>2, <1>4, <1>14 DEF TypeOK
    <2>3. \A e \in Hands(request[r]) : e \in Hands(y) \cup left'
      BY <1>1, <1>5, <1>8, <1>11, <1>14
    <2>4. QED
      BY <2>1, <2>2, <2>3, <1>10, <1>11, QuietStep
  <1>15. QED
    BY <1>3, <1>13, <1>14

LEMMA StoreFailsInv ==
  ASSUME IInv, NEW r \in Requests, StoreFails(r)
  PROVE  IInv'
  <1>1. PICK x \in Request : x = request[r]
    BY Before
  <1>2. /\ Own(x) /\ TypeOK /\ RowsInv
        /\ \A z \in Others(r) : z \in Request /\ Own(z) /\ Pair(x, z) /\ Pair(z, x)
    BY <1>1, Before
  <1>3. PICK d \in x.todo :
          \/ stored' = [stored EXCEPT ![d] = x.scope] /\ left' = left \cup {d}
          \/ UNCHANGED <<stored, left>>
    BY <1>1 DEF StoreFails
  <1>4. /\ x.op = "upload" /\ x.pc = "store" /\ Ends(r, x.keys)
        /\ UNCHANGED <<shipments, folder, doc, used>> /\ faults < MaxFaults /\ faults' = faults + 1
    BY <1>1 DEF StoreFails, At, rows
  <1>5. x.keys \in SUBSET Docs /\ Hands(x) = x.keys
    BY <1>4 DEF Hands, Request
  <1>6. /\ d \in Docs /\ d \in Held(x) /\ x.keys \subseteq Held(x) /\ x.scope \in Scopes
        /\ \A e \in Held(x) : e \in used /\ ~Saved(e)
    BY <1>2, <1>4 DEF Own, Shape, OwnInserts, Held, Uploads, Inserts
  <1>7. \A z \in Others(r) : Held(x) \cap Held(z) = {}
    BY <1>2 DEF Pair
  <1>8. PICK y \in Request : y = Cleaning("upload", x.keys)
    BY <1>5, CleaningFields
  <1>9. request' = [request EXCEPT ![r] = y]
    BY <1>1, <1>4, <1>8, Ended
  <1>10. Hands(y) = x.keys /\ Own(y)' /\ \A z \in Others(r) : Pair(y, z)' /\ Pair(z, y)'
    <2>1. \A e \in x.keys : e \in used' /\ ~Saved(e)'
      BY <1>4, <1>6 DEF Saved
    <2>2. \A z \in Others(r) : x.keys \cap Held(z) # {} => z.scope \notin Drafts \cup shipments'
      BY <1>6, <1>7
    <2>3. QED
      BY <2>1, <2>2, <1>5, <1>8, CleaningAlone
  <1>11. faults' \in 0..MaxFaults
    BY <1>2, <1>4, MaxFaultsAssumption DEF TypeOK
  <1>12. CASE stored' = [stored EXCEPT ![d] = x.scope] /\ left' = left \cup {d}
    <2>1. left \subseteq left' /\ left' \subseteq Docs /\ d \in used /\ ~Saved(d)
      BY <1>2, <1>6, <1>12 DEF TypeOK
    <2>2. \A z \in Others(r) : d \notin Held(z)
      BY <1>6, <1>7
    <2>3. (\A e \in Hands(request[r]) : e \in Hands(y)) /\ d \in left'
      BY <1>1, <1>5, <1>10, <1>12
    <2>4. QED
      BY <2>1, <2>2, <2>3, <1>4, <1>6, <1>9, <1>10, <1>11, <1>12, StoredStep
  <1>13. CASE UNCHANGED <<stored, left>>
    <2>1. /\ left \subseteq left' /\ left' \subseteq Docs /\ used \subseteq used'
          /\ used' \subseteq Shipments \cup Folders \cup Docs
          /\ UNCHANGED <<shipments, folder, doc, stored>>
      BY <1>2, <1>4, <1>13 DEF TypeOK
    <2>2. \A e \in Hands(request[r]) : e \in Hands(y)
      BY <1>1, <1>5, <1>10
    <2>3. QED
      BY <2>1, <2>2, <1>9, <1>10, <1>11, QuietStep
  <1>14. QED
    BY <1>3, <1>12, <1>13

-----------------------------------------------------------------------------
(* Commits *)

\* r is done: what has to be shown of the rows it has written.
LEMMA CommitStep ==
  ASSUME IInv, NEW r \in Requests, request' = [request EXCEPT ![r] = Idle],
         RowsTyped', RowsInv', left \subseteq left',
         \A x \in Others(r) : Own(x)',
         \A x, z \in Request : Own(x) /\ Own(z) /\ Pair(x, z) /\ Pair(request[r], x) /\ Pair(request[r], z)
                                => Pair(x, z)',
         \A d \in Docs : stored'[d] \in Shipments /\ ~Saved(d)' =>
            stored[d] \in Shipments /\ ~Saved(d) /\ d \notin Hands(request[r])
  PROVE  IInv'
  <1>1. /\ Held(Idle) = {} /\ Destroys(Idle) = {} /\ Refers(Idle) = {} /\ Writes(Idle) = {}
        /\ ~Inserts(Idle) /\ ~Uploads(Idle) /\ Idle.op = "idle" /\ Idle.pc = "idle"
    BY DEF Idle, Held, Destroys, Refers, Writes, Inserts, Uploads
  <1>2. PICK y \in Request : y = Idle
    BY IdleAlone
  <1>3. Own(y)'
    <2>1. Shape(y)'
      BY <1>1, <1>2 DEF Shape, Uploads
    <2>2. OwnInserts(y)' /\ OwnSave(y)' /\ OwnDestroy(y)' /\ OwnDelete(y)'
      BY <1>1, <1>2 DEF OwnInserts, Inserts, OwnSave, OwnDestroy, OwnDelete
    <2>3. QED
      BY <2>1, <2>2 DEF Own
  <1>4. \A x \in Others(r) : Pair(y, x)' /\ Pair(x, y)'
    BY <1>1, <1>2, Before DEF Pair, Held, Destroys, Refers, Writes, Inserts, Uploads
  <1>5. QED
    BY <1>2, <1>3, <1>4, FrameStep

LEMMA CommitInsertedInv ==
  ASSUME IInv, NEW r \in Requests, CommitInserted(r)
  PROVE  IInv'
  <1>1. PICK x \in Request : x = request[r]
    BY Before
  <1>2. /\ Own(x) /\ TypeOK /\ RowsInv
        /\ \A z \in Others(r) : z \in Request /\ Own(z) /\ Pair(x, z) /\ Pair(z, x)
    BY <1>1, Before
  <1>3. /\ x.op \in {"create", "upload"} /\ x.pc = "commit" /\ Inserted(x)
        /\ request' = [request EXCEPT ![r] = Idle]
        /\ UNCHANGED <<shipments, stored, left, used, faults>>
    BY <1>1 DEF CommitInserted, Goes
  <1>4. Inserts(x) /\ Shape(x) /\ OwnInserts(x) /\ (Uploads(x) <=> x.op = "upload")
    BY <1>2, <1>3 DEF Inserts, Uploads, Own
  <1>5. x.rows \subseteq Docs /\ x.scope \in Scopes /\ x.into \in Folders \cup {None} /\ x.new \in Folders \cup {None}
    BY <1>3, <1>4 DEF Request, Shape
  <1>6. /\ \A f \in x.folders : f = x.new /\ f \in Folders /\ f \in used /\ ~Exists(f)
        /\ x.op = "upload" /\ x.new # None => x.folders = {x.new}
        /\ x.op = "upload" /\ x.new = None => x.folders = {}
    BY <1>3, <1>4, <1>5, NoneAssumption DEF Shape, OwnInserts, Request
  <1>7. /\ x.op = "create" => x.rows = {}
        /\ x.op = "upload" => x.rows = x.keys /\ x.rows \subseteq Held(x)
    BY <1>3, <1>4 DEF Shape, Held
  <1>8. x.rows # {} => Refers(x) = {x.scope} /\ x.op = "upload"
    BY <1>4, <1>7, <1>3 DEF Refers
  <1>9. x.rows # {} => x.scope \in Drafts \cup shipments
    BY <1>4, <1>8 DEF OwnInserts
  <1>10. \A d \in x.rows : d \in used /\ ~Saved(d) /\ stored[d] = x.scope
    BY <1>3, <1>4, <1>7, <1>8, <1>9 DEF OwnInserts
  <1>11. /\ folder' = [f \in Folders |-> IF f \in x.folders THEN [scope |-> x.scope, parent |-> x.into] ELSE folder[f]]
         /\ doc' = [d \in Docs |-> IF d \in x.rows THEN [scope |-> x.scope, folder |-> IF x.new = None THEN x.into ELSE x.new]
                                   ELSE doc[d]]
    BY <1>3 DEF Inserted
  <1>12. /\ \A f \in Folders : f \in x.folders => folder'[f].scope = x.scope
         /\ \A f \in Folders : f \notin x.folders => folder'[f] = folder[f]
         /\ \A d \in Docs : d \in x.rows => doc'[d].scope = x.scope
         /\ \A d \in Docs : d \notin x.rows => doc'[d] = doc[d]
    BY <1>11
  <1>13. /\ \A d \in Docs : Saved(d)' <=> Saved(d) \/ d \in x.rows
         /\ \A f \in Folders : Exists(f)' <=> Exists(f) \/ f \in x.folders
    BY <1>5, <1>12, NoneAssumption DEF Saved, Exists
  <1>15. RowsTyped'
    <2>1. folder' \in [Folders -> FolderRow]
      BY <1>2, <1>5, <1>11 DEF TypeOK, FolderRow
    <2>2. doc' \in [Docs -> DocRow]
      BY <1>2, <1>5, <1>11 DEF TypeOK, DocRow
    <2>3. QED
      BY <2>1, <2>2, <1>2, <1>3 DEF TypeOK, RowsTyped
  <1>16. RowsInv'
    <2>1. \A f \in Folders : Exists(f)' => f \in used'
      BY <1>2, <1>3, <1>6, <1>13 DEF RowsInv
    <2>2. ASSUME NEW d \in Docs, Saved(d)'
          PROVE  /\ d \in used' /\ stored'[d] # None
                 /\ stored'[d] \in Shipments => doc'[d].scope = stored'[d]
      <3>1. CASE d \in x.rows
        BY <3>1, <1>3, <1>5, <1>10, <1>12, NoneAssumption
      <3>2. CASE d \notin x.rows
        BY <3>2, <2>2, <1>2, <1>3, <1>12, <1>13 DEF RowsInv
      <3>3. QED
        BY <3>1, <3>2
    <2>3. QED
      BY <2>1, <2>2, <1>2, <1>3 DEF RowsInv
  <1>18. ASSUME NEW z \in Others(r) PROVE Own(z)'
    <2>1. z \in Request /\ Own(z) /\ Pair(x, z) /\ Pair(z, x)
      BY <1>2
    <2>2. /\ Shape(z) /\ OwnInserts(z) /\ OwnSave(z) /\ OwnDestroy(z) /\ OwnDelete(z)
      BY <2>1 DEF Own
    <2>3. Shape(z)'
      BY <2>2 DEF Shape, Uploads, Idle
    <2>4. OwnInserts(z)'
      <3> SUFFICES ASSUME Inserts(z) PROVE OwnInserts(z)'
        BY DEF OwnInserts, Inserts
      <3>1. z.new # None => z.new \notin x.folders
        BY <2>1, <1>4, <1>6 DEF Pair
      <3>3. Held(z) \cap x.rows = {} /\ Held(z) \subseteq Docs
        <4>1. Held(z) \subseteq Docs
          BY <2>1, <2>2 DEF Held, Request, Uploads, Shape
        <4>2. x.rows \subseteq Held(x)
          BY <1>3, <1>7
        <4>3. Held(x) \cap Held(z) = {}
          BY <2>1 DEF Pair
        <4>4. QED
          BY <4>1, <4>2, <4>3
      <3>4. z.new # None => z.new \in used' /\ ~Exists(z.new)'
        <4>1. z.new # None => z.new \in Folders
          BY <2>1 DEF Request
        <4>2. QED
          BY <4>1, <3>1, <2>2, <1>3, <1>12, <1>13 DEF OwnInserts
      <3>5. \A d \in Held(z) : d \in used' /\ ~Saved(d)' /\ stored'[d] \in {None, z.scope}
        BY <3>3, <2>2, <1>3, <1>13 DEF OwnInserts
      <3>6. z.op = "upload" /\ z.scope \in Drafts \cup shipments' => \A d \in z.keys : stored'[d] = z.scope
        BY <2>2, <1>3 DEF OwnInserts
      <3>7. Held(z)' = Held(z) /\ Refers(z)' = Refers(z)
        BY DEF Held, Uploads, Refers, Inserts
      <3>8. QED
        BY <3>4, <3>5, <3>6, <3>7, <2>2, <1>3 DEF OwnInserts, Exists, Saved
    <2>5. OwnSave(z)'
      <3> SUFFICES ASSUME z.op = "save" PROVE OwnSave(z)'
        BY DEF OwnSave
      <3>1. z.draft # None /\ z.folders \subseteq Folders /\ z.rows \subseteq Docs
        BY <2>1, <2>2, NoneAssumption DEF Shape, Scopes, Request
      <3>2. z.pc \in {"documents", "commit"} => \A f \in z.folders : f \notin x.folders
        BY <3>1, <2>2, <1>6 DEF OwnSave, Exists
      <3>3. z.pc = "commit" => \A d \in z.rows : d \notin x.rows
        BY <3>1, <2>2, <1>10 DEF OwnSave, Saved
      <3>4. QED
        BY <3>1, <3>2, <3>3, <2>2, <1>3, <1>12 DEF OwnSave
    <2>6. OwnDestroy(z)'
      <3> SUFFICES ASSUME z.op = "destroy", z.pc \in {"list", "commit"} PROVE OwnDestroy(z)'
        BY DEF OwnDestroy
      <3>1. x.rows # {} => x.scope # z.scope
        BY <2>1, <1>8 DEF Pair, Destroys
      <3>2. z.pc = "commit" => z.keys \cap x.rows = {} /\ z.keys \subseteq Docs
        BY <3>1, <2>1, <1>7, <1>8 DEF Pair, Request
      <3>3. QED
        BY <3>1, <3>2, <2>2, <1>3, <1>10, <1>12, <1>13 DEF OwnDestroy
    <2>7. OwnDelete(z)'
      <3>1. z.pc = "clean" => z.keys \cap x.rows = {} /\ z.keys \subseteq Docs
        BY <2>1, <1>7, <1>8, <1>9 DEF Pair, Request
      <3>2. QED
        BY <3>1, <2>2, <1>3, <1>13 DEF OwnDelete
    <2>8. QED
      BY <2>3, <2>4, <2>5, <2>6, <2>7 DEF Own
  <1>19. \A a, b \in Request : Pair(a, b) => Pair(a, b)'
    BY <1>3, QuietPair
  <1>20. \A d \in Docs : stored'[d] \in Shipments /\ ~Saved(d)' =>
            stored[d] \in Shipments /\ ~Saved(d) /\ d \notin Hands(request[r])
    BY <1>1, <1>3, <1>7, <1>13 DEF Hands
  <1>21. QED
    BY <1>3, <1>15, <1>16, <1>18, <1>19, <1>20, CommitStep

\* The documents D and the folders F are gone: what the others rely on.
LEMMA RemovedOthers ==
  ASSUME TypeOK, NEW D \in SUBSET Docs, NEW F \in SUBSET Folders,
         folder' = [f \in Folders |-> IF f \in F THEN NoFolder ELSE folder[f]],
         doc' = [d \in Docs |-> IF d \in D THEN NoDoc ELSE doc[d]],
         shipments' \subseteq shipments, UNCHANGED <<stored, used>>
  PROVE  \A z \in Request : /\ Own(z)
                            /\ z.op = "save" /\ z.pc \in {"documents", "commit"} => z.folders \cap F = {}
                            /\ z.op = "save" /\ z.pc = "commit" => z.rows \cap D = {}
                            /\ (Destroys(z) \cup Refers(z)) \cap (shipments \ shipments') = {}
                            => Own(z)'
  <1> SUFFICES ASSUME NEW z \in Request, Own(z),
                      z.op = "save" /\ z.pc \in {"documents", "commit"} => z.folders \cap F = {},
                      z.op = "save" /\ z.pc = "commit" => z.rows \cap D = {},
                      (Destroys(z) \cup Refers(z)) \cap (shipments \ shipments') = {}
               PROVE  Own(z)'
    OBVIOUS
  <1>1. /\ \A f \in Folders : folder'[f] = IF f \in F THEN NoFolder ELSE folder[f]
        /\ \A d \in Docs : doc'[d] = IF d \in D THEN NoDoc ELSE doc[d]
    OBVIOUS
  <1>2. NoFolder.scope = None /\ NoDoc.scope = None
    BY DEF NoFolder, NoDoc
  <1>3. /\ \A d \in Docs : Saved(d)' => Saved(d) /\ d \notin D
        /\ \A f \in Folders : Exists(f)' => Exists(f)
    BY <1>1, <1>2 DEF Saved, Exists
  <1>4. Shape(z) /\ OwnInserts(z) /\ OwnSave(z) /\ OwnDestroy(z) /\ OwnDelete(z)
    BY DEF Own
  <1>5. Shape(z)'
    BY <1>4 DEF Shape, Uploads, Idle
  <1>6. OwnInserts(z)'
    <2> SUFFICES ASSUME Inserts(z) PROVE OwnInserts(z)'
      BY DEF OwnInserts, Inserts
    <2>1. Held(z)' = Held(z) /\ Refers(z)' = Refers(z) /\ Held(z) \subseteq Docs
      BY <1>4 DEF Held, Uploads, Refers, Inserts, Request, Shape
    <2>2. Refers(z) \subseteq Drafts \cup shipments'
      BY <1>4 DEF OwnInserts
    <2>3. z.new # None => z.new \in used' /\ ~Exists(z.new)'
      <3>1. z.new # None => z.new \in Folders
        BY DEF Request
      <3>2. QED
        BY <3>1, <1>1, <1>3, <1>4 DEF OwnInserts
    <2>4. \A d \in Held(z) : d \in used' /\ ~Saved(d)' /\ stored'[d] \in {None, z.scope}
      BY <2>1, <1>3, <1>4 DEF OwnInserts
    <2>5. z.op = "upload" /\ z.scope \in Drafts \cup shipments' => \A d \in z.keys : stored'[d] = z.scope
      BY <1>4 DEF OwnInserts
    <2>6. QED
      BY <2>1, <2>2, <2>3, <2>4, <2>5, <1>4 DEF OwnInserts, Exists, Saved
  <1>7. OwnSave(z)'
    <2>1. z.folders \subseteq Folders /\ z.rows \subseteq Docs
      BY DEF Request
    <2>2. QED
      BY <2>1, <1>1, <1>4 DEF OwnSave
  <1>8. OwnDestroy(z)'
    <2> SUFFICES ASSUME z.op = "destroy", z.pc \in {"list", "commit"} PROVE OwnDestroy(z)'
      BY DEF OwnDestroy
    <2>1. z.scope \in shipments'
      BY <1>4 DEF OwnDestroy, Destroys
    <2>2. z.keys \subseteq Docs
      BY DEF Request
    <2>3. QED
      BY <2>1, <2>2, <1>1, <1>3, <1>4 DEF OwnDestroy
  <1>9. OwnDelete(z)'
    <2>1. z.keys \subseteq Docs
      BY DEF Request
    <2>2. QED
      BY <2>1, <1>3, <1>4 DEF OwnDelete
  <1>10. QED
    BY <1>5, <1>6, <1>7, <1>8, <1>9 DEF Own

LEMMA RemovedRows ==
  ASSUME TypeOK, RowsInv, NEW D \in SUBSET Docs, NEW F \in SUBSET Folders,
         folder' = [f \in Folders |-> IF f \in F THEN NoFolder ELSE folder[f]],
         doc' = [d \in Docs |-> IF d \in D THEN NoDoc ELSE doc[d]],
         shipments' \subseteq shipments, UNCHANGED <<stored, left, used, faults>>
  PROVE  /\ RowsTyped' /\ RowsInv'
         /\ \A d \in Docs : Saved(d)' <=> Saved(d) /\ d \notin D
  <1>1. /\ \A f \in Folders : folder'[f] = IF f \in F THEN NoFolder ELSE folder[f]
        /\ \A d \in Docs : doc'[d] = IF d \in D THEN NoDoc ELSE doc[d]
    OBVIOUS
  <1>2. NoFolder.scope = None /\ NoDoc.scope = None /\ NoFolder \in FolderRow /\ NoDoc \in DocRow
    BY DEF NoFolder, NoDoc, FolderRow, DocRow
  <1>3. /\ \A d \in Docs : Saved(d)' <=> Saved(d) /\ d \notin D
        /\ \A f \in Folders : Exists(f)' => Exists(f)
    BY <1>1, <1>2 DEF Saved, Exists
  <1>4. RowsTyped'
    <2>1. folder' \in [Folders -> FolderRow] /\ doc' \in [Docs -> DocRow]
      BY <1>2 DEF TypeOK
    <2>2. QED
      BY <2>1 DEF TypeOK, RowsTyped
  <1>5. RowsInv'
    <2>1. \A d \in Docs : Saved(d)' => /\ d \in used' /\ stored'[d] # None
                                                             /\ stored'[d] \in Shipments => doc'[d].scope = stored'[d]
      BY <1>1, <1>3 DEF RowsInv
    <2>2. QED
      BY <2>1, <1>3 DEF RowsInv
  <1>6. QED
    BY <1>3, <1>4, <1>5

\* r commits the deletion and goes on to y, that takes care of the objects.
LEMMA RemovedStep ==
  ASSUME IInv, NEW r \in Requests, NEW y \in Request, request' = [request EXCEPT ![r] = y],
         NEW D \in SUBSET Docs, NEW F \in SUBSET Folders,
         folder' = [f \in Folders |-> IF f \in F THEN NoFolder ELSE folder[f]],
         doc' = [d \in Docs |-> IF d \in D THEN NoDoc ELSE doc[d]],
         shipments' \subseteq shipments, UNCHANGED <<stored, left, used, faults>>,
         Own(y)', \A z \in Others(r) : Pair(y, z)' /\ Pair(z, y)',
         \A z \in Others(r) : /\ z.op = "save" /\ z.pc \in {"documents", "commit"} => z.folders \cap F = {}
                              /\ z.op = "save" /\ z.pc = "commit" => z.rows \cap D = {}
                              /\ (Destroys(z) \cup Refers(z)) \cap (shipments \ shipments') = {},
         Hands(request[r]) = {}, \A d \in D : Saved(d) /\ stored[d] \in Shipments => d \in Hands(y)
  PROVE  IInv'
  <1>1. TypeOK /\ RowsInv /\ \A z \in Others(r) : z \in Request /\ Own(z)
    BY Before
  <1>2. /\ RowsTyped' /\ RowsInv'
        /\ \A d \in Docs : Saved(d)' <=> Saved(d) /\ d \notin D
    BY <1>1, RemovedRows
  <1>3. \A z \in Others(r) : Own(z)'
    BY <1>1, RemovedOthers
  <1>4. \A a, b \in Request : Pair(a, b) => Pair(a, b)'
    BY QuietPair
  <1>5. \A d \in Docs : stored'[d] \in Shipments /\ ~Saved(d)' =>
            \/ d \in Hands(y) \cup left'
            \/ stored[d] \in Shipments /\ ~Saved(d) /\ d \notin Hands(request[r])
    BY <1>2
  <1>6. QED
    BY <1>2, <1>3, <1>4, <1>5, FrameStep

LEMMA DeleteFileInv ==
  ASSUME IInv, NEW r \in Requests, DeleteFile(r)
  PROVE  IInv'
  <1>1. PICK x \in Request : x = request[r]
    BY Before
  <1>2. /\ Own(x) /\ TypeOK /\ RowsInv
        /\ \A z \in Others(r) : z \in Request /\ Pair(x, z)
    BY <1>1, Before
  <1>3. /\ x.op = "deleteFile" /\ x.pc = "commit" /\ Unlocked(r, x.rows) /\ Ends(r, x.rows)
        /\ doc' = [d \in Docs |-> IF d \in x.rows THEN NoDoc ELSE doc[d]]
        /\ UNCHANGED <<shipments, folder, stored, left, used, faults>>
    BY <1>1 DEF DeleteFile, At
  <1>4. x.rows \in SUBSET Docs /\ Hands(x) = {} /\ x.rows \subseteq used
    BY <1>2, <1>3 DEF Request, Hands, Own, OwnDelete
  <1>5. folder' = [f \in Folders |-> IF f \in {} THEN NoFolder ELSE folder[f]]
    BY <1>2, <1>3 DEF TypeOK
  <1>6. \A d \in Docs : Saved(d)' <=> Saved(d) /\ d \notin x.rows
    BY <1>2, <1>3, <1>4, <1>5, RemovedRows
  <1>7. PICK y \in Request : y = Cleaning("deleteFile", x.rows)
    BY <1>4, CleaningFields
  <1>8. request' = [request EXCEPT ![r] = y]
    BY <1>1, <1>3, <1>7, Ended
  <1>9. Hands(y) = x.rows /\ Own(y)' /\ \A z \in Others(r) : Pair(y, z)' /\ Pair(z, y)'
    <2>1. \A e \in x.rows : e \in used' /\ ~Saved(e)'
      BY <1>3, <1>4, <1>6
    <2>2. \A z \in Others(r) : x.rows \cap Held(z) = {}
      BY <1>2, <1>3 DEF Pair
    <2>3. QED
      BY <2>1, <2>2, <1>4, <1>7, CleaningAlone
  <1>10. \A z \in Others(r) : /\ z.op = "save" /\ z.pc \in {"documents", "commit"} => z.folders \cap {} = {}
                              /\ z.op = "save" /\ z.pc = "commit" => z.rows \cap x.rows = {}
                              /\ (Destroys(z) \cup Refers(z)) \cap (shipments \ shipments') = {}
    BY <1>3, Guards DEF Writes
  <1>11. PICK D \in SUBSET Docs, F \in SUBSET Folders : D = x.rows /\ F = {}
    BY <1>4
  <1>12. /\ folder' = [f \in Folders |-> IF f \in F THEN NoFolder ELSE folder[f]]
         /\ doc' = [d \in Docs |-> IF d \in D THEN NoDoc ELSE doc[d]]
    BY <1>3, <1>5, <1>11
  <1>13. \A z \in Others(r) : /\ z.op = "save" /\ z.pc \in {"documents", "commit"} => z.folders \cap F = {}
                              /\ z.op = "save" /\ z.pc = "commit" => z.rows \cap D = {}
                              /\ (Destroys(z) \cup Refers(z)) \cap (shipments \ shipments') = {}
    BY <1>10, <1>11
  <1>14. Hands(request[r]) = {} /\ \A d \in D : d \in Hands(y)
    BY <1>1, <1>4, <1>9, <1>11
  <1>15. QED
    BY <1>3, <1>8, <1>9, <1>12, <1>13, <1>14, RemovedStep

LEMMA CommitDeletedFolderInv ==
  ASSUME IInv, NEW r \in Requests, CommitDeletedFolder(r)
  PROVE  IInv'
  <1>1. PICK x \in Request : x = request[r]
    BY Before
  <1>2. /\ Own(x) /\ TypeOK /\ RowsInv
        /\ \A z \in Others(r) : z \in Request /\ Pair(x, z)
    BY <1>1, Before
  <1>3. /\ x.op = "deleteFolder" /\ x.pc = "commit" /\ Ends(r, x.rows)
        /\ folder' = [f \in Folders |-> IF f \in x.folders THEN NoFolder ELSE folder[f]]
        /\ doc' = [d \in Docs |-> IF d \in x.rows THEN NoDoc ELSE doc[d]]
        /\ UNCHANGED <<shipments, stored, left, used, faults>>
    BY <1>1 DEF CommitDeletedFolder, At
  <1>4. x.rows \in SUBSET Docs /\ x.folders \in SUBSET Folders /\ Hands(x) = {} /\ x.rows \subseteq used
    BY <1>2, <1>3 DEF Request, Hands, Own, OwnDelete
  <1>5. \A d \in Docs : Saved(d)' <=> Saved(d) /\ d \notin x.rows
    BY <1>2, <1>3, <1>4, RemovedRows
  <1>6. PICK y \in Request : y = Cleaning("deleteFolder", x.rows)
    BY <1>4, CleaningFields
  <1>7. request' = [request EXCEPT ![r] = y]
    BY <1>1, <1>3, <1>6, Ended
  <1>8. Hands(y) = x.rows /\ Own(y)' /\ \A z \in Others(r) : Pair(y, z)' /\ Pair(z, y)'
    <2>1. \A e \in x.rows : e \in used' /\ ~Saved(e)'
      BY <1>3, <1>4, <1>5
    <2>2. \A z \in Others(r) : x.rows \cap Held(z) = {}
      BY <1>2, <1>3 DEF Pair
    <2>3. QED
      BY <2>1, <2>2, <1>4, <1>6, CleaningAlone
  <1>9. \A z \in Others(r) : /\ z.op = "save" /\ z.pc \in {"documents", "commit"} => z.folders \cap x.folders = {}
                             /\ z.op = "save" /\ z.pc = "commit" => z.rows \cap x.rows = {}
                             /\ (Destroys(z) \cup Refers(z)) \cap (shipments \ shipments') = {}
    <2>1. Writes(x) = x.folders \cup x.rows
      BY <1>3 DEF Writes
    <2>2. QED
      BY <2>1, <1>2, <1>3 DEF Pair, Writes
  <1>10. PICK D \in SUBSET Docs, F \in SUBSET Folders : D = x.rows /\ F = x.folders
    BY <1>4
  <1>11. /\ folder' = [f \in Folders |-> IF f \in F THEN NoFolder ELSE folder[f]]
         /\ doc' = [d \in Docs |-> IF d \in D THEN NoDoc ELSE doc[d]]
    BY <1>3, <1>10
  <1>12. \A z \in Others(r) : /\ z.op = "save" /\ z.pc \in {"documents", "commit"} => z.folders \cap F = {}
                              /\ z.op = "save" /\ z.pc = "commit" => z.rows \cap D = {}
                              /\ (Destroys(z) \cup Refers(z)) \cap (shipments \ shipments') = {}
    BY <1>9, <1>10
  <1>13. Hands(request[r]) = {} /\ \A d \in D : d \in Hands(y)
    BY <1>1, <1>4, <1>8, <1>10
  <1>14. QED
    BY <1>3, <1>7, <1>8, <1>11, <1>12, <1>13, RemovedStep

\* The prefix of the shipment holds the objects of all documents that go with it,
\* but for those of a draft, which have their objects elsewhere.
LEMMA CommitDestroyedInv ==
  ASSUME IInv, NEW r \in Requests, CommitDestroyed(r)
  PROVE  IInv'
  <1>1. PICK x \in Request : x = request[r]
    BY Before
  <1>2. /\ Own(x) /\ TypeOK /\ RowsInv
        /\ \A z \in Others(r) : z \in Request /\ Own(z) /\ Pair(x, z)
    BY <1>1, Before
  <1>3. PICK D \in SUBSET Docs : D = DocsOf(x.scope)
    BY DEF DocsOf
  <1>4. PICK F \in SUBSET Folders : F = FoldersOf(x.scope)
    BY DEF FoldersOf
  <1>5. /\ x.op = "destroy" /\ x.pc = "commit" /\ Ends(r, x.keys)
        /\ shipments' = shipments \ {x.scope}
        /\ folder' = [f \in Folders |-> IF f \in F THEN NoFolder ELSE folder[f]]
        /\ doc' = [d \in Docs |-> IF d \in D THEN NoDoc ELSE doc[d]]
        /\ UNCHANGED <<stored, left, used, faults>>
    BY <1>1, <1>3, <1>4 DEF CommitDestroyed, At
  <1>6. /\ x.keys \in SUBSET Docs /\ Hands(x) = {} /\ x.scope \in Shipments /\ Destroys(x) = {x.scope}
        /\ \A d \in x.keys : d \in used /\ (Saved(d) => doc[d].scope = x.scope)
        /\ \A d \in Docs : Saved(d) /\ stored[d] = x.scope => d \in x.keys
    BY <1>2, <1>5 DEF Request, Hands, Own, Shape, OwnDestroy, Destroys
  <1>7. \A d \in Docs : Saved(d)' <=> Saved(d) /\ d \notin D
    BY <1>2, <1>5, RemovedRows
  <1>8. PICK y \in Request : y = Cleaning("destroy", x.keys)
    BY <1>6, CleaningFields
  <1>9. request' = [request EXCEPT ![r] = y]
    BY <1>1, <1>5, <1>8, Ended
  <1>10. Hands(y) = x.keys /\ Own(y)' /\ \A z \in Others(r) : Pair(y, z)' /\ Pair(z, y)'
    <2>1. \A e \in x.keys : e \in used' /\ ~Saved(e)'
      BY <1>3, <1>5, <1>6, <1>7 DEF DocsOf
    <2>2. \A z \in Others(r) : x.keys \cap Held(z) # {} => z.scope \notin Drafts \cup shipments'
      BY <1>2, <1>5, <1>6, ScopesAssumption DEF Pair
    <2>3. QED
      BY <2>1, <2>2, <1>6, <1>8, CleaningAlone
  <1>11. \A z \in Others(r) : /\ z.op = "save" /\ z.pc \in {"documents", "commit"} => z.folders \cap F = {}
                              /\ z.op = "save" /\ z.pc = "commit" => z.rows \cap D = {}
                              /\ (Destroys(z) \cup Refers(z)) \cap (shipments \ shipments') = {}
    <2> SUFFICES ASSUME NEW z \in Others(r)
                 PROVE  /\ z.op = "save" /\ z.pc \in {"documents", "commit"} => z.folders \cap F = {}
                        /\ z.op = "save" /\ z.pc = "commit" => z.rows \cap D = {}
                        /\ (Destroys(z) \cup Refers(z)) \cap (shipments \ shipments') = {}
      OBVIOUS
    <2>1. Shape(z) /\ OwnSave(z) /\ Pair(x, z)
      BY <1>2 DEF Own
    <2>2. z.op = "save" => z.draft # x.scope
      BY <2>1, <1>6, ScopesAssumption DEF Shape
    <2>3. z.op = "save" /\ z.pc \in {"documents", "commit"} => z.folders \cap F = {}
      BY <2>1, <2>2, <1>4 DEF OwnSave, FoldersOf
    <2>4. z.op = "save" /\ z.pc = "commit" => z.rows \cap D = {}
      BY <2>1, <2>2, <1>3 DEF OwnSave, DocsOf
    <2>5. (Destroys(z) \cup Refers(z)) \cap (shipments \ shipments') = {}
      BY <2>1, <1>5, <1>6 DEF Pair
    <2>6. QED
      BY <2>3, <2>4, <2>5
  <1>12. \A d \in D : Saved(d) /\ stored[d] \in Shipments => d \in Hands(y)
    BY <1>2, <1>3, <1>6, <1>10 DEF RowsInv, DocsOf
  <1>13. QED
    BY <1>1, <1>5, <1>6, <1>9, <1>10, <1>11, <1>12, RemovedStep

\* The draft becomes the shipment: nobody else has written its rows, and no
\* object with the prefix of a shipment belongs to a document of a draft.
LEMMA CommitSavedInv ==
  ASSUME IInv, NEW r \in Requests, CommitSaved(r)
  PROVE  IInv'
  <1>1. PICK x \in Request : x = request[r]
    BY Before
  <1>2. /\ Own(x) /\ TypeOK /\ RowsInv
        /\ \A z \in Others(r) : z \in Request /\ Own(z) /\ Pair(x, z) /\ Pair(z, x)
    BY <1>1, Before
  <1>3. /\ x.op = "save" /\ x.pc = "commit" /\ request' = [request EXCEPT ![r] = Idle]
        /\ shipments' = shipments \cup {x.scope}
        /\ folder' = [f \in Folders |-> IF f \in x.folders THEN [folder[f] EXCEPT !.scope = x.scope] ELSE folder[f]]
        /\ doc' = [d \in Docs |-> IF d \in x.rows THEN [doc[d] EXCEPT !.scope = x.scope] ELSE doc[d]]
        /\ UNCHANGED <<stored, left, used, faults>>
    BY <1>1 DEF CommitSaved, At, Goes
  <1>4. /\ x.scope \in Shipments /\ x.scope \in used \ shipments /\ x.draft \in Drafts
        /\ \A f \in x.folders : folder[f].scope = x.draft
        /\ \A d \in x.rows : doc[d].scope = x.draft
    BY <1>2, <1>3 DEF Own, Shape, OwnSave
  <1>5. /\ x.scope # None /\ x.draft # None /\ x.draft \notin Shipments
        /\ x.folders \subseteq Folders /\ x.rows \subseteq Docs
        /\ Hands(x) = {} /\ Writes(x) = x.folders \cup x.rows
    BY <1>3, <1>4, NoneAssumption, ScopesAssumption DEF Scopes, Request, Hands, Writes
  <1>6. /\ \A f \in Folders : folder[f] \in FolderRow
        /\ \A d \in Docs : doc[d] \in DocRow
    BY <1>2 DEF TypeOK
  <1>7. /\ \A f \in Folders : /\ f \in x.folders => folder'[f].scope = x.scope
                              /\ f \notin x.folders => folder'[f].scope = folder[f].scope
        /\ \A d \in Docs : /\ d \in x.rows => doc'[d].scope = x.scope
                           /\ d \notin x.rows => doc'[d].scope = doc[d].scope
                           /\ doc'[d].folder = doc[d].folder
    BY <1>3, <1>6 DEF FolderRow, DocRow
  <1>8. /\ \A d \in Docs : Saved(d)' <=> Saved(d)
        /\ \A f \in Folders : Exists(f)' <=> Exists(f)
    BY <1>4, <1>5, <1>7 DEF Saved, Exists
  <1>9. RowsTyped'
    <2>1. folder' \in [Folders -> FolderRow]
      BY <1>3, <1>4, <1>6 DEF FolderRow, Scopes
    <2>2. doc' \in [Docs -> DocRow]
      BY <1>3, <1>4, <1>6 DEF DocRow, Scopes
    <2>3. QED
      BY <2>1, <2>2, <1>2, <1>3, <1>4 DEF TypeOK, RowsTyped
  <1>10. \A d \in Docs : Saved(d) /\ stored[d] \in Shipments => d \notin x.rows
    BY <1>2, <1>4, <1>5 DEF RowsInv
  <1>11. RowsInv'
    <2>1. \A d \in Docs : Saved(d)' => /\ d \in used' /\ stored'[d] # None
                                                             /\ stored'[d] \in Shipments => doc'[d].scope = stored'[d]
      BY <1>2, <1>3, <1>7, <1>8, <1>10 DEF RowsInv
    <2>2. QED
      BY <2>1, <1>2, <1>3, <1>4, <1>8 DEF RowsInv
  <1>13. ASSUME NEW z \in Others(r) PROVE Own(z)'
    <2>1. z \in Request /\ Own(z) /\ Pair(x, z) /\ Pair(z, x)
      BY <1>2
    <2>2. Shape(z) /\ OwnInserts(z) /\ OwnSave(z) /\ OwnDestroy(z) /\ OwnDelete(z)
      BY <2>1 DEF Own
    <2>3. Shape(z)'
      BY <2>2 DEF Shape, Uploads, Idle
    <2>4. OwnInserts(z)'
      <3> SUFFICES ASSUME Inserts(z) PROVE OwnInserts(z)'
        BY DEF OwnInserts, Inserts
      <3>1. z.scope # x.scope
        BY <2>1, <1>3 DEF Pair
      <3>2. Held(z)' = Held(z) /\ Refers(z)' = Refers(z) /\ Held(z) \subseteq Docs
        BY <2>1, <2>2 DEF Held, Uploads, Refers, Inserts, Request, Shape
      <3>3. z.new # None => z.new \in used' /\ ~Exists(z.new)'
        <4>1. z.new # None => z.new \in Folders
          BY <2>1 DEF Request
        <4>2. QED
          BY <4>1, <2>2, <1>3, <1>7, <1>8 DEF OwnInserts
      <3>4. \A d \in Held(z) : d \in used' /\ ~Saved(d)' /\ stored'[d] \in {None, z.scope}
        BY <3>2, <2>2, <1>3, <1>8 DEF OwnInserts
      <3>5. z.op = "upload" => (z.scope \in Drafts \cup shipments' => \A d \in z.keys : stored'[d] = z.scope)
        BY <3>1, <2>2, <1>3 DEF OwnInserts
      <3>7. QED
        BY <3>2, <3>3, <3>4, <3>5, <2>2, <1>3 DEF OwnInserts, Exists, Saved
    <2>5. OwnSave(z)'
      <3> SUFFICES ASSUME z.op = "save" PROVE OwnSave(z)'
        BY DEF OwnSave
      <3>1. z.scope # x.scope /\ z.folders \subseteq Folders /\ z.rows \subseteq Docs
        BY <2>1, <1>3 DEF Pair, Request
      <3>2. /\ z.pc \in {"documents", "commit"} => z.folders \cap x.folders = {}
            /\ z.pc = "commit" => z.rows \cap x.rows = {}
        BY <2>1, <1>5 DEF Pair, Writes
      <3>3. QED
        BY <3>1, <3>2, <2>2, <1>3, <1>7 DEF OwnSave
    <2>6. OwnDestroy(z)'
      <3> SUFFICES ASSUME z.op = "destroy", z.pc \in {"list", "commit"} PROVE OwnDestroy(z)'
        BY DEF OwnDestroy
      <3>1. z.scope \in shipments /\ z.scope \in Shipments /\ z.keys \subseteq Docs
        BY <2>1, <2>2, <1>2 DEF OwnDestroy, TypeOK, Request
      <3>2. z.pc = "commit" => \A d \in z.keys : Saved(d) => d \notin x.rows
        BY <3>1, <2>2, <1>4, <1>5 DEF OwnDestroy
      <3>3. QED
        BY <3>1, <3>2, <2>2, <1>3, <1>7, <1>8 DEF OwnDestroy
    <2>7. OwnDelete(z)'
      <3>1. z.keys \subseteq Docs
        BY <2>1 DEF Request
      <3>2. QED
        BY <3>1, <2>2, <1>3, <1>8 DEF OwnDelete
    <2>8. QED
      BY <2>3, <2>4, <2>5, <2>6, <2>7 DEF Own
  <1>14. \A a, b \in Request : Pair(a, b) /\ Pair(x, b) => Pair(a, b)'
    <2> SUFFICES ASSUME NEW a \in Request, NEW b \in Request, Pair(a, b), Pair(x, b) PROVE Pair(a, b)'
      OBVIOUS
    <2>1. Held(b) # {} => b.scope # x.scope
      BY <1>3 DEF Pair, Held, Uploads, Inserts
    <2>2. a.pc = "clean" /\ a.keys \cap Held(b) # {} => b.scope \notin Drafts \cup shipments'
      BY <2>1, <1>3 DEF Pair
    <2>3. QED
      BY <2>2 DEF Pair, Held, Destroys, Refers, Writes, Inserts, Uploads
  <1>15. \A d \in Docs : stored'[d] \in Shipments /\ ~Saved(d)' =>
            stored[d] \in Shipments /\ ~Saved(d) /\ d \notin Hands(request[r])
    BY <1>1, <1>3, <1>5, <1>8
  <1>16. QED
    BY <1>1, <1>3, <1>9, <1>11, <1>13, <1>14, <1>15, CommitStep

\* An update gives a folder another scope, but none that a save has found: it
\* waits for that save.  No other request relies on the scope of a folder.
LEMMA CommitUpdateInv ==
  ASSUME IInv, NEW r \in Requests, CommitUpdate(r)
  PROVE  IInv'
  <1>1. PICK x \in Request : x = request[r]
    BY Before
  <1>2. /\ Own(x) /\ TypeOK /\ RowsInv
        /\ \A z \in Others(r) : z \in Request /\ Own(z)
    BY <1>1, Before
  <1>3. /\ x.op = "update" /\ x.pc = "commit" /\ request' = [request EXCEPT ![r] = Idle] /\ Unlocked(r, x.folders)
        /\ folder' = [f \in Folders |-> IF f \in x.folders /\ Exists(f) THEN Updates(x, folder[f]) ELSE folder[f]]
        /\ UNCHANGED <<shipments, doc, stored, left, used, faults>>
    BY <1>1 DEF CommitUpdate, At, Goes
  <1>4. /\ \A f \in Folders : folder[f] \in FolderRow /\ Updates(x, folder[f]) \in FolderRow
        /\ \A f \in Folders \ x.folders : folder'[f] = folder[f]
    BY <1>2, <1>3 DEF TypeOK, Updates, Request, FolderRow
  <1>5. folder' \in [Folders -> FolderRow]
    BY <1>3, <1>4
  <1>6. /\ \A f \in Folders : Exists(f)' => Exists(f)
        /\ \A d \in Docs : Saved(d)' <=> Saved(d)
    BY <1>3 DEF Exists, Saved
  <1>7. RowsTyped'
    BY <1>2, <1>3, <1>5 DEF TypeOK, RowsTyped
  <1>8. RowsInv'
    BY <1>2, <1>3, <1>6 DEF RowsInv
  <1>9. ASSUME NEW z \in Others(r) PROVE Own(z)'
    <2>1. z \in Request /\ Shape(z) /\ OwnInserts(z) /\ OwnSave(z) /\ OwnDestroy(z) /\ OwnDelete(z)
      BY <1>2 DEF Own
    <2>2. Shape(z)'
      BY <2>1 DEF Shape, Uploads, Idle
    <2>3. z.new \in Folders \cup {None} /\ z.folders \subseteq Folders
      BY <2>1 DEF Request
    <2>4. OwnInserts(z)'
      <3>1. z.new # None /\ ~Exists(z.new) => ~Exists(z.new)'
        BY <2>3, <1>6
      <3>2. QED
        BY <3>1, <2>1, <1>3 DEF OwnInserts, Inserts, Refers, Held, Uploads, Saved
    <2>5. OwnSave(z)'
      <3>1. z.op = "save" /\ z.pc \in {"documents", "commit"} => z.folders \cap x.folders = {}
        BY <1>3, Guards DEF Writes
      <3>2. QED
        BY <3>1, <2>1, <2>3, <1>3, <1>4 DEF OwnSave
    <2>6. OwnDestroy(z)' /\ OwnDelete(z)'
      BY <2>1, <1>3 DEF OwnDestroy, OwnDelete, Saved
    <2>7. QED
      BY <2>2, <2>4, <2>5, <2>6 DEF Own
  <1>10. \A a, b \in Request : Pair(a, b) => Pair(a, b)'
    BY <1>3, QuietPair
  <1>11. \A d \in Docs : stored'[d] \in Shipments /\ ~Saved(d)' =>
            stored[d] \in Shipments /\ ~Saved(d) /\ d \notin Hands(request[r])
    BY <1>1, <1>3, <1>6 DEF Hands
  <1>12. QED
    BY <1>3, <1>7, <1>8, <1>9, <1>10, <1>11, CommitStep

-----------------------------------------------------------------------------
(* The server restarts *)
LEMMA CrashInv ==
  ASSUME IInv, Crash
  PROVE  IInv'
  <1>1. /\ faults < MaxFaults /\ faults' = faults + 1
        /\ request' = [r \in Requests |-> Idle]
        /\ left' = left \cup UNION {InHands(r) : r \in Requests}
        /\ UNCHANGED <<shipments, folder, doc, stored, used>>
    BY DEF Crash, rows
  <1>2. TypeOK /\ RowsInv /\ NoStrayUnderShipment
    BY DEF IInv
  <1>3. \A r \in Requests : InHands(r) \subseteq Docs
    BY <1>2 DEF TypeOK, Request, InHands
  <1>4. TypeOK'
    <2>1. request' \in [Requests -> Request]
      BY <1>1, IdleAlone
    <2>2. left' \subseteq Docs
      BY <1>1, <1>2, <1>3 DEF TypeOK
    <2>3. faults' \in 0..MaxFaults
      BY <1>1, <1>2, MaxFaultsAssumption DEF TypeOK
    <2>4. QED
      BY <2>1, <2>2, <2>3, <1>1, <1>2 DEF TypeOK
  <1>5. RowsInv'
    BY <1>1, <1>2 DEF RowsInv, Exists, Saved
  <1>6. NoStrayUnderShipment'
    <2>1. \A d \in Docs : stored[d] \in Shipments /\ ~Saved(d) => d \in left \/ \E r \in Requests : d \in InHands(r)
      BY <1>2 DEF NoStrayUnderShipment, Explained
    <2>2. \A d \in Docs : stored'[d] \in Shipments /\ ~Saved(d)' => d \in left'
      BY <2>1, <1>1 DEF Saved
    <2>3. QED
      BY <2>2 DEF NoStrayUnderShipment, Explained
  <1>8. PICK y \in Request : y = Idle
    BY IdleAlone
  <1>9. Own(y)'
    BY <1>1, <1>8, IdleAlone, QuietOwn
  <1>10. Pair(y, y)'
    BY <1>1, <1>8, IdleAlone, QuietPair
  <1>11. \A r \in Requests : request'[r] = y
    BY <1>1, <1>8
  <1>12. QED
    BY <1>4, <1>5, <1>6, <1>9, <1>10, <1>11 DEF IInv

-----------------------------------------------------------------------------
LEMMA InitInv == Init => IInv
  <1> SUFFICES ASSUME Init PROVE IInv
    OBVIOUS
  <1>1. /\ shipments = {} /\ used = {} /\ left = {} /\ faults = 0
        /\ folder = [f \in Folders |-> NoFolder] /\ doc = [d \in Docs |-> NoDoc]
        /\ stored = [d \in Docs |-> None] /\ request = [r \in Requests |-> Idle]
    BY DEF Init
  <1>2. NoFolder \in FolderRow /\ NoDoc \in DocRow /\ NoFolder.scope = None /\ NoDoc.scope = None
    BY DEF NoFolder, NoDoc, FolderRow, DocRow
  <1>3. TypeOK
    BY <1>1, <1>2, IdleAlone, MaxFaultsAssumption DEF TypeOK
  <1>4. (\A d \in Docs : ~Saved(d) /\ stored[d] = None) /\ \A f \in Folders : ~Exists(f)
    BY <1>1, <1>2 DEF Saved, Exists
  <1>5. RowsInv
    BY <1>1, <1>4 DEF RowsInv
  <1>6. NoStrayUnderShipment
    BY <1>4, NoneAssumption DEF NoStrayUnderShipment, Scopes
  <1>7. \A r \in Requests : request[r] = Idle
    BY <1>1
  <1>8. QED
    BY <1>3, <1>5, <1>6, <1>7, IdleAlone DEF IInv

LEMMA NextInv == IInv /\ [Next]_vars => IInv'
  <1> SUFFICES ASSUME IInv, [Next]_vars PROVE IInv'
    OBVIOUS
  <1>1. ASSUME NEW r \in Requests, Arrive(r) PROVE IInv'
    <2>1. CASE \E s \in Scopes, f \in Folders \cup {None}, n \in Folders : InScope(f, s) /\ BeginCreate(r, s, f, n)
      BY <2>1, BeginCreateInv
    <2>2. CASE \E s \in Scopes, f, n \in Folders \cup {None}, D \in SUBSET Docs : BeginUpload(r, s, f, D, n)
      BY <2>2, BeginUploadInv
    <2>3. CASE \E d \in Docs : BeginDeleteFile(r, d)
      BY <2>3, BeginDeleteFileInv
    <2>4. CASE \E f \in Folders : BeginDeleteFolder(r, f)
      BY <2>4, BeginDeleteFolderInv
    <2>5. CASE \E s \in Shipments, d \in Drafts : BeginSave(r, s, d)
      BY <2>5, BeginSaveInv
    <2>6. CASE \E s \in Shipments : BeginDestroy(r, s)
      BY <2>6, BeginDestroyInv
    <2>7. CASE \E f \in Folders, row \in FolderRow : BeginUpdate(r, f, row)
      BY <2>7, BeginUpdateInv
    <2>8. QED
      BY <1>1, <2>1, <2>2, <2>3, <2>4, <2>5, <2>6, <2>7 DEF Arrive
  <1>2. ASSUME NEW r \in Requests, Step(r) PROVE IInv'
    <2>1. CASE InsertFolder(r) \/ StoreObject(r) \/ InsertDocument(r) \/ CommitInserted(r)
      BY <2>1, InsertFolderInv, StoreObjectInv, InsertDocumentInv, CommitInsertedInv
    <2>2. CASE \/ DeleteFile(r) \/ CollectChildren(r) \/ ListDocuments(r) \/ DeleteDocuments(r)
               \/ DeleteFolders(r) \/ CommitDeletedFolder(r)
      BY <2>2, DeleteFileInv, CollectChildrenInv, ListDocumentsInv, DeleteDocumentsInv, DeleteFoldersInv, CommitDeletedFolderInv
    <2>3. CASE AttachFolders(r) \/ AttachDocuments(r) \/ CommitSaved(r)
      BY <2>3, AttachFoldersInv, AttachDocumentsInv, CommitSavedInv
    <2>4. CASE ListKeys(r) \/ CommitDestroyed(r) \/ CheckUpdate(r) \/ CommitUpdate(r)
      BY <2>4, ListKeysInv, CommitDestroyedInv, CheckUpdateInv, CommitUpdateInv
    <2>5. CASE CleanObject(r) \/ Fail(r) \/ StoreFails(r)
      BY <2>5, CleanObjectInv, RollsBackInv, StoreFailsInv
    <2>6. QED
      BY <1>2, <2>1, <2>2, <2>3, <2>4, <2>5 DEF Step
  <1>3. CASE Crash
    BY <1>3, CrashInv
  <1>4. CASE UNCHANGED vars
    <2>1. UNCHANGED <<shipments, folder, doc, stored, request, left, used, faults>>
      BY <1>4 DEF vars
    <2>2. TypeOK' /\ RowsInv' /\ NoStrayUnderShipment'
      BY <2>1 DEF IInv, TypeOK, RowsInv, NoStrayUnderShipment, Explained, InHands, Exists, Saved
    <2>3. (\A x \in Request : Own(x) => Own(x)') /\ (\A x, y \in Request : Pair(x, y) => Pair(x, y)')
      BY <2>1, QuietOwn, QuietPair
    <2>4. ASSUME NEW r \in Requests PROVE Own(request[r])'
      <3>1. PICK x \in Request : x = request[r]
        BY Before
      <3>2. Own(x)'
        BY <3>1, <2>3, Before
      <3>3. QED
        BY <3>1, <3>2, <2>1
    <2>5. ASSUME NEW r \in Requests, NEW q \in Requests, r # q PROVE Pair(request[r], request[q])'
      <3>1. PICK x \in Request, y \in Request : x = request[r] /\ y = request[q]
        BY Before
      <3>2. Pair(x, y)'
        BY <3>1, <2>3, <2>5 DEF IInv
      <3>3. x = request'[r] /\ y = request'[q]
        BY <3>1, <2>1
      <3>4. QED
        BY <3>2, <3>3
    <2>6. QED
      BY <2>2, <2>4, <2>5 DEF IInv
  <1>5. QED
    BY <1>1, <1>2, <1>3, <1>4 DEF Next

LEMMA Inductive == Spec => []IInv
  <1>1. QED
    BY InitInv, NextInv, PTL DEF Spec

-----------------------------------------------------------------------------
\* Types, for the rows, the objects and the requests of the file service.
THEOREM TypeCorrect == Spec => []TypeOK
  <1>1. IInv => TypeOK
    BY DEF IInv
  <1>2. QED
    BY <1>1, Inductive, PTL

\* A document that is listed has its object: uploads store it first, and no
\* rollback, deletion of a shipment or restart deletes it before the row.
THEOREM RowsHaveObjects == Spec => []RowHasObject
  <1>1. IInv => RowHasObject
    BY DEF IInv, RowsInv, RowHasObject
  <1>2. QED
    BY <1>1, Inductive, PTL

\* An object with the prefix of a shipment and no row is in the hands of a
\* request, or was left by a failed call of the storage or a restart.
THEOREM StrayObjectsExplained == Spec => []NoStrayUnderShipment
  <1>1. IInv => NoStrayUnderShipment
    BY DEF IInv
  <1>2. QED
    BY <1>1, Inductive, PTL

\* What a save takes with it is in its draft when it commits: neither another
\* save nor the update of a folder has taken it elsewhere since it was found.
THEOREM SavesTakeTheirDraft == Spec => SaveTakesItsDraft
  <1>1. ASSUME IInv, NEW r \in Requests, CommitSaved(r)
        PROVE  /\ \A f \in Folders : folder'[f].scope # folder[f].scope => folder[f].scope = request[r].draft
               /\ \A d \in Docs : doc'[d].scope # doc[d].scope => doc[d].scope = request[r].draft
    <2>1. PICK x \in Request : x = request[r]
      BY Before, <1>1
    <2>2. /\ x.op = "save" /\ x.pc = "commit"
          /\ folder' = [f \in Folders |-> IF f \in x.folders THEN [folder[f] EXCEPT !.scope = x.scope] ELSE folder[f]]
          /\ doc' = [d \in Docs |-> IF d \in x.rows THEN [doc[d] EXCEPT !.scope = x.scope] ELSE doc[d]]
      BY <2>1, <1>1 DEF CommitSaved, At
    <2>3. Own(x)
      BY <2>1, <1>1, Before
    <2>4. (\A f \in x.folders : folder[f].scope = x.draft) /\ \A d \in x.rows : doc[d].scope = x.draft
      BY <2>2, <2>3 DEF Own, OwnSave
    <2>5. QED
      BY <2>1, <2>2, <2>4
  <1>2. IInv => [\A r \in Requests : CommitSaved(r) =>
                    /\ \A f \in Folders : folder'[f].scope # folder[f].scope => folder[f].scope = request[r].draft
                    /\ \A d \in Docs : doc'[d].scope # doc[d].scope => doc[d].scope = request[r].draft]_vars
    BY <1>1
  <1>3. QED
    BY <1>2, Inductive, PTL DEF SaveTakesItsDraft
=============================================================================
