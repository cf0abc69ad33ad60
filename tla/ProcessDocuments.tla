-------------------------- MODULE ProcessDocuments --------------------------
(***************************************************************************)
(* Documents and folders of shipments: rows in PostgreSQL, objects in the  *)
(* storage.  The rows are written by transactions at READ COMMITTED that   *)
(* take no locks but those of the rows they write and of the foreign key   *)
(* on the shipment; an object is stored before its row is committed and    *)
(* deleted after the row is gone.  Until a shipment is saved its documents *)
(* belong to a draft.                                                      *)
(***************************************************************************)
EXTENDS Naturals, FiniteSets

CONSTANTS
    Shipments, Drafts, Folders, Docs,
    Requests,     \* requests that are worked on at the same time
    Updated,      \* bound: the folders whose rows are updated
    MaxFaults,    \* bound: restarts and failed calls of the storage
    Nowhere,      \* neither shipment_id nor draft_token
    None

Scopes == Shipments \cup Drafts

ASSUME NoneAssumption == None \notin Scopes /\ None \notin Folders
ASSUME ScopesAssumption == Shipments \cap Drafts = {}
ASSUME NowhereAssumption == Nowhere \notin Scopes \cup {None}
ASSUME UpdatedAssumption == Updated \subseteq Folders
ASSUME MaxFaultsAssumption == MaxFaults \in Nat

VARIABLES
    shipments,    \* the shipments that exist
    folder,       \* process_document_folders: scope None is no row
    doc,          \* process_documents
    stored,       \* the scope in the storage key of the object of a document, None: no object
    request,
    left,         \* history: objects whose deletion failed or was interrupted
    used,         \* history: identifiers that were given to rows
    faults        \* bounded counter

vars == <<shipments, folder, doc, stored, request, left, used, faults>>

\* The scope of a row is its shipment_id or, without one, its draft_token.
FolderRow == [scope : Scopes \cup {Nowhere, None}, parent : Folders \cup {None}]
DocRow == [scope : Scopes \cup {None}, folder : Folders \cup {None}]
NoFolder == [scope |-> None, parent |-> None]
NoDoc == [scope |-> None, folder |-> None]

Ops == {"idle", "create", "upload", "deleteFile", "deleteFolder", "save", "destroy", "update"}
Steps == {"idle", "folder", "store", "insert", "commit", "children", "list", "documents", "clean"}

\* rows and folders are written or found by the transaction, keys are the
\* objects it has stored or is going to delete, todo is what it has not reached;
\* loaded and model are the row of an update as it was read and as it is set.
Request == [op : Ops, pc : Steps, scope : Scopes \cup {None}, into : Folders \cup {None},
            new : Folders \cup {None}, draft : Drafts \cup {None}, todo : SUBSET (Docs \cup Folders),
            folders : SUBSET Folders, rows : SUBSET Docs, keys : SUBSET Docs,
            loaded : FolderRow, model : FolderRow]
Idle == [op |-> "idle", pc |-> "idle", scope |-> None, into |-> None, new |-> None, draft |-> None,
         todo |-> {}, folders |-> {}, rows |-> {}, keys |-> {}, loaded |-> NoFolder, model |-> NoFolder]

TypeOK ==
    /\ shipments \subseteq Shipments
    /\ folder \in [Folders -> FolderRow] /\ doc \in [Docs -> DocRow]
    /\ stored \in [Docs -> Scopes \cup {None}]
    /\ request \in [Requests -> Request]
    /\ left \subseteq Docs /\ used \subseteq Shipments \cup Folders \cup Docs
    /\ faults \in 0..MaxFaults

Init ==
    /\ shipments = {} /\ used = {}
    /\ folder = [f \in Folders |-> NoFolder] /\ doc = [d \in Docs |-> NoDoc]
    /\ stored = [d \in Docs |-> None]
    /\ request = [r \in Requests |-> Idle]
    /\ left = {} /\ faults = 0

-----------------------------------------------------------------------------
Exists(f) == folder[f].scope # None
Saved(d) == doc[d].scope # None
FoldersOf(s) == {f \in Folders : folder[f].scope = s}
DocsOf(s) == {d \in Docs : doc[d].scope = s}

InScope(f, s) == f \in FoldersOf(s) \cup {None}                   \* requireFolder

Children(f, s) == {g \in FoldersOf(s) : folder[g].parent = f}

At(r, op, pc) == request[r].op = op /\ request[r].pc = pc

\* A draft is there as soon as the form of a new shipment is open.
IsOpen(s) == s \in Drafts \cup shipments

\* The shipments whose row a transaction has deleted, before its commit.
Deleting(r) == IF request[r].op = "destroy" /\ request[r].pc \in {"list", "commit"} THEN {request[r].scope} ELSE {}

\* The scopes a transaction has inserted rows for: the foreign key locks the shipment.
Referring(r) ==
    IF request[r].op \in {"create", "upload"} /\ request[r].pc # "clean"
       /\ (request[r].folders # {} \/ request[r].rows # {})
    THEN {request[r].scope} ELSE {}

(* (fault) the foreign key does not wait *)
CanReferAtOnce(r) == IsOpen(request[r].scope)

\* The foreign key of a row that is inserted waits for who deletes the shipment.
CanRefer(r) == IsOpen(request[r].scope) /\ \A q \in Requests : request[r].scope \notin Deleting(q)

(* (fault) a save reads the rows of its draft first and updates them at its end *)
WritingDeleted(r) ==
    IF At(r, "deleteFolder", "commit") THEN request[r].folders \cup request[r].rows
    ELSE IF At(r, "deleteFolder", "folder") THEN request[r].rows ELSE {}

\* Rows a transaction has updated or deleted, before its commit.
Writing(r) ==
    LET q == request[r]
        all == q.op \in {"save", "deleteFolder"} /\ q.pc = "commit"
    IN  (IF all \/ At(r, "save", "documents") THEN q.folders ELSE {})
        \cup (IF all \/ At(r, "deleteFolder", "folder") THEN q.rows ELSE {})
Unlocked(r, X) == \A q \in Requests \ {r} : X \cap Writing(q) = {}

rows == <<shipments, folder, doc>>
Goes(r, next) == request' = [request EXCEPT ![r] = next]
Begin(r, next) == request[r] = Idle /\ Goes(r, next) /\ UNCHANGED <<rows, stored, left, faults>>
Reads(r, next) == Goes(r, next) /\ UNCHANGED <<rows, stored, left, used, faults>>

\* The rows are written; objects that are to be deleted follow.
Ends(r, keys) == Goes(r, IF keys = {} THEN Idle ELSE [Idle EXCEPT !.op = request[r].op, !.pc = "clean", !.keys = keys])

-----------------------------------------------------------------------------
(* Requests: the scope and the folder are checked before the transaction *)
BeginCreate(r, s, f, n) ==
    /\ IsOpen(s) /\ n \in Folders \ used /\ used' = used \cup {n}
    /\ Begin(r, [Idle EXCEPT !.op = "create", !.pc = "folder", !.scope = s, !.into = f, !.new = n])

\* The files may bring a folder of their own (webkitRelativePath).
BeginUpload(r, s, f, D, n) ==
    /\ IsOpen(s) /\ InScope(f, s)
    /\ D # {} /\ D \cap used = {} /\ n \in (Folders \ used) \cup {None}
    /\ used' = used \cup D \cup ({n} \ {None})
    /\ Begin(r, [Idle EXCEPT !.op = "upload", !.pc = IF n = None THEN "store" ELSE "folder",
                             !.scope = s, !.into = f, !.new = n, !.todo = D])

BeginDeleteFile(r, d) ==
    /\ Saved(d) /\ UNCHANGED used
    /\ Begin(r, [Idle EXCEPT !.op = "deleteFile", !.pc = "commit", !.rows = {d}])

BeginDeleteFolder(r, f) ==
    /\ folder[f].scope \in Scopes /\ UNCHANGED used
    /\ Begin(r, [Idle EXCEPT !.op = "deleteFolder", !.pc = "children", !.scope = folder[f].scope,
                             !.todo = {f}, !.folders = {f}])

\* A new shipment is saved; its hook attaches the draft.
BeginSave(r, s, d) ==
    /\ s \notin used /\ used' = used \cup {s}
    /\ Begin(r, [Idle EXCEPT !.op = "save", !.pc = "folder", !.scope = s, !.draft = d])

\* A folder is updated through the collection: another parent, shipment or draft.
BeginUpdate(r, f, row) ==
    /\ Exists(f) /\ f \in Updated /\ row # folder[f] /\ row.scope # None /\ UNCHANGED used
    /\ Begin(r, [Idle EXCEPT !.op = "update", !.pc = "folder", !.folders = {f}, !.loaded = folder[f], !.model = row])

-----------------------------------------------------------------------------
(* createFolder, uploadFiles *)

\* DocumentFolderService.create checks the parent again and inserts.
InsertFolder(r) ==
    LET q == request[r]
    IN  /\ q.op \in {"create", "upload"} /\ q.pc = "folder"
        /\ InScope(q.into, q.scope) /\ CanRefer(r)
        /\ Reads(r, [q EXCEPT !.pc = IF q.op = "create" THEN "commit" ELSE "store", !.folders = {q.new}])

StoreObject(r) ==
    /\ At(r, "upload", "store")
    /\ \E d \in request[r].todo :
        /\ stored' = [stored EXCEPT ![d] = request[r].scope]
        /\ Goes(r, [request[r] EXCEPT !.pc = "insert", !.keys = @ \cup {d}])
    /\ UNCHANGED <<rows, left, used, faults>>

InsertDocument(r) ==
    LET q == request[r]
        d == q.todo \cap q.keys
    IN  /\ At(r, "upload", "insert") /\ CanRefer(r)
        /\ Reads(r, [q EXCEPT !.pc = IF q.todo = d THEN "commit" ELSE "store", !.todo = @ \ d, !.rows = @ \cup d])

(* (fault) the columns of the scope and of the folder are exchanged *)
InsertedSwapped(q) ==
    /\ folder' = [f \in Folders |-> IF f \in q.folders THEN [scope |-> q.scope, parent |-> q.into] ELSE folder[f]]
    /\ doc' = [d \in Docs |-> IF d \in q.rows
                              THEN [scope |-> IF q.new = None THEN q.into ELSE q.new, folder |-> q.scope] ELSE doc[d]]

\* What the transaction has inserted: the documents are in the new folder, if there is one.
Inserted(q) ==
    /\ folder' = [f \in Folders |-> IF f \in q.folders THEN [scope |-> q.scope, parent |-> q.into] ELSE folder[f]]
    /\ doc' = [d \in Docs |-> IF d \in q.rows
                              THEN [scope |-> q.scope, folder |-> IF q.new = None THEN q.into ELSE q.new] ELSE doc[d]]

CommitInserted(r) ==
    /\ request[r].op \in {"create", "upload"} /\ request[r].pc = "commit"
    /\ Inserted(request[r]) /\ Goes(r, Idle)
    /\ UNCHANGED <<shipments, stored, left, used, faults>>

-----------------------------------------------------------------------------
(* deleteFile, deleteFolder *)
DeleteFile(r) ==
    LET X == request[r].rows
    IN  /\ At(r, "deleteFile", "commit") /\ Unlocked(r, X)
        /\ doc' = [d \in Docs |-> IF d \in X THEN NoDoc ELSE doc[d]]
        /\ Ends(r, X)
        /\ UNCHANGED <<shipments, folder, stored, left, used, faults>>

\* collectDescendants, one folder at a time.
CollectChildren(r) ==
    LET q == request[r]
    IN  /\ At(r, "deleteFolder", "children")
        /\ \E f \in q.todo :
            LET new == Children(f, q.scope) \ q.folders
                todo == (q.todo \ {f}) \cup new
            IN  Reads(r, [q EXCEPT !.todo = todo, !.folders = @ \cup new, !.pc = IF todo = {} THEN "list" ELSE @])

DocsIn(F, s) == {d \in DocsOf(s) : doc[d].folder \in F}
ListDocuments(r) ==
    LET q == request[r]
    IN  /\ At(r, "deleteFolder", "list")
        /\ Reads(r, [q EXCEPT !.pc = "documents", !.rows = DocsIn(q.folders, q.scope)])

\* By their identifiers, wherever they belong by now.
DeleteDocuments(r) ==
    /\ At(r, "deleteFolder", "documents") /\ Unlocked(r, request[r].rows)
    /\ Reads(r, [request[r] EXCEPT !.pc = "folder"])
DeleteFolders(r) ==
    /\ At(r, "deleteFolder", "folder") /\ Unlocked(r, request[r].folders)
    /\ Reads(r, [request[r] EXCEPT !.pc = "commit"])
CommitDeletedFolder(r) ==
    LET q == request[r]
    IN  /\ At(r, "deleteFolder", "commit")
        /\ folder' = [f \in Folders |-> IF f \in q.folders THEN NoFolder ELSE folder[f]]
        /\ doc' = [d \in Docs |-> IF d \in q.rows THEN NoDoc ELSE doc[d]]
        /\ Ends(r, q.rows)
        /\ UNCHANGED <<shipments, stored, left, used, faults>>

-----------------------------------------------------------------------------
(* shipments:create with a draft, shipments:destroy *)
AttachFolders(r) ==
    LET F == FoldersOf(request[r].draft)
    IN  /\ At(r, "save", "folder") /\ Unlocked(r, F)
        /\ Reads(r, [request[r] EXCEPT !.pc = "documents", !.folders = F])
AttachDocuments(r) ==
    LET D == DocsOf(request[r].draft)
    IN  /\ At(r, "save", "documents") /\ Unlocked(r, D)
        /\ Reads(r, [request[r] EXCEPT !.pc = "commit", !.rows = D])
CommitSaved(r) ==
    LET q == request[r]
    IN  /\ At(r, "save", "commit")
        /\ shipments' = shipments \cup {q.scope}
        /\ folder' = [f \in Folders |-> IF f \in q.folders THEN [folder[f] EXCEPT !.scope = q.scope] ELSE folder[f]]
        /\ doc' = [d \in Docs |-> IF d \in q.rows THEN [doc[d] EXCEPT !.scope = q.scope] ELSE doc[d]]
        /\ Goes(r, Idle)
        /\ UNCHANGED <<stored, left, used, faults>>

\* DELETE of the shipment; the foreign keys take its documents and folders with it.
BeginDestroy(r, s) ==
    /\ s \in shipments /\ \A q \in Requests : s \notin Deleting(q) \cup Referring(q)
    /\ Unlocked(r, FoldersOf(s) \cup DocsOf(s))
    /\ UNCHANGED used
    /\ Begin(r, [Idle EXCEPT !.op = "destroy", !.pc = "list", !.scope = s])

\* The hook runs after the DELETE, when listDocumentsByShipmentId finds nothing
\* any more: only the objects with the prefix of the shipment are listed.
Prefixed(s) == {d \in Docs : stored[d] = s}
ListKeys(r) ==
    LET q == request[r]
    IN  /\ At(r, "destroy", "list")
        /\ Reads(r, [q EXCEPT !.pc = "commit", !.keys = Prefixed(q.scope)])
CommitDestroyed(r) ==
    LET q == request[r]
    IN  /\ At(r, "destroy", "commit")
        /\ shipments' = shipments \ {q.scope}
        /\ folder' = [f \in Folders |-> IF f \in FoldersOf(q.scope) THEN NoFolder ELSE folder[f]]
        /\ doc' = [d \in Docs |-> IF d \in DocsOf(q.scope) THEN NoDoc ELSE doc[d]]
        /\ Ends(r, q.keys)
        /\ UNCHANGED <<stored, left, used, faults>>

-----------------------------------------------------------------------------
(* Updates of folders, checked by their hook *)
Above(f) ==
    {g \in Folders : \A S \in SUBSET Folders :
        (f \in S /\ \A x \in S : folder[x].parent \in S \cup {None}) => g \in S}

\* The row as it is set, or else as the hook finds it (scopeFromModel, previousFolder).
CheckedScope(set, previous) ==
    IF set \in Shipments \/ (set \in Drafts /\ previous \notin Shipments) THEN set ELSE previous
CheckedParent(set, previous) == IF set # None THEN set ELSE previous

\* The chain of parents ends, in one scope, without the folder itself.  What
\* is inside the folder is not looked at.
MayBelong(f, parent, s) ==
    /\ s \in Scopes
    /\ parent # None =>
        /\ \A g \in Above(parent) : g # f /\ InScope(g, s) /\ InScope(folder[g].parent, s)
        /\ \E g \in Above(parent) : folder[g].parent = None
CheckUpdate(r) ==
    LET set == request[r].model
    IN  /\ At(r, "update", "folder")
        /\ \E f \in request[r].folders :
            MayBelong(f, CheckedParent(set.parent, folder[f].parent), CheckedScope(set.scope, folder[f].scope))
        /\ Reads(r, [request[r] EXCEPT !.pc = "commit"])

\* The columns that were changed are written; a draft_token does not show
\* when the draft has been attached meanwhile.
Updates(q, row) ==
    [scope |-> IF q.model.scope = q.loaded.scope
                  \/ (row.scope \in Shipments /\ {q.loaded.scope, q.model.scope} \cap Shipments = {})
               THEN row.scope ELSE q.model.scope,
     parent |-> IF q.model.parent = q.loaded.parent THEN row.parent ELSE q.model.parent]

\* The folder goes with a shipment that is being deleted, and cannot come to one.
CanUpdate(q, f, others) ==
    /\ folder[f].scope \notin others
    /\ q.model.scope \in Shipments /\ q.model.scope # q.loaded.scope => q.model.scope \in shipments \ others
CommitUpdate(r) ==
    LET q == request[r]
    IN  /\ At(r, "update", "commit") /\ Unlocked(r, q.folders)
        /\ \A f \in q.folders : CanUpdate(q, f, UNION {Deleting(x) : x \in Requests})
        /\ folder' = [f \in Folders |-> IF f \in q.folders /\ Exists(f) THEN Updates(q, folder[f]) ELSE folder[f]]
        /\ Goes(r, Idle)
        /\ UNCHANGED <<shipments, doc, stored, left, used, faults>>

-----------------------------------------------------------------------------
(* Objects that are deleted after the rows, or after an upload that failed *)
CleanObject(r) ==
    /\ request[r].pc = "clean"
    /\ \E d \in request[r].keys :
        /\ Ends(r, request[r].keys \ {d})
        /\ \/ stored' = [stored EXCEPT ![d] = None] /\ UNCHANGED <<left, faults>>
           \/ faults < MaxFaults /\ faults' = faults + 1 /\ left' = left \cup {d} /\ UNCHANGED stored
    /\ UNCHANGED <<rows, used>>

-----------------------------------------------------------------------------
(* Failures *)

(* (fault) an object is remembered when its row is inserted *)
RollsBackInserted(r) ==
    /\ Ends(r, IF request[r].op = "upload" THEN request[r].rows ELSE {})
    /\ UNCHANGED <<rows, stored, left, used, faults>>

\* The transaction is rolled back; an upload deletes what it has stored.
RollsBack(r) ==
    /\ Ends(r, IF request[r].op = "upload" THEN request[r].keys ELSE {})
    /\ UNCHANGED <<rows, stored, left, used, faults>>

\* A check or a foreign key refuses the request, a statement or the listing of
\* the keys fails, PostgreSQL breaks a deadlock.
Fail(r) == request[r].pc \notin {"idle", "clean"} /\ RollsBack(r)

\* The storage reports an error; the object may be there.
StoreFails(r) ==
    /\ At(r, "upload", "store") /\ faults < MaxFaults /\ faults' = faults + 1
    /\ \E d \in request[r].todo :
        \/ stored' = [stored EXCEPT ![d] = request[r].scope] /\ left' = left \cup {d}
        \/ UNCHANGED <<stored, left>>
    /\ Ends(r, request[r].keys)
    /\ UNCHANGED <<rows, used>>

\* The objects a request would still have deleted.
InHands(r) == IF request[r].op = "upload" \/ request[r].pc = "clean" THEN request[r].keys ELSE {}
Crash ==
    /\ faults < MaxFaults /\ faults' = faults + 1
    /\ request' = [r \in Requests |-> Idle]
    /\ left' = left \cup UNION {InHands(r) : r \in Requests}
    /\ UNCHANGED <<rows, stored, used>>

-----------------------------------------------------------------------------
Arrive(r) ==
    \/ \E s \in Scopes, f \in Folders \cup {None}, n \in Folders : InScope(f, s) /\ BeginCreate(r, s, f, n)
    \/ \E s \in Scopes, f, n \in Folders \cup {None}, D \in SUBSET Docs : BeginUpload(r, s, f, D, n)
    \/ \E d \in Docs : BeginDeleteFile(r, d)
    \/ \E f \in Folders : BeginDeleteFolder(r, f)
    \/ \E s \in Shipments, d \in Drafts : BeginSave(r, s, d)
    \/ \E s \in Shipments : BeginDestroy(r, s)
    \/ \E f \in Folders, row \in FolderRow : BeginUpdate(r, f, row)

Step(r) ==
    \/ InsertFolder(r) \/ StoreObject(r) \/ InsertDocument(r) \/ CommitInserted(r)
    \/ DeleteFile(r) \/ CollectChildren(r) \/ ListDocuments(r) \/ DeleteDocuments(r) \/ DeleteFolders(r)
    \/ CommitDeletedFolder(r)
    \/ AttachFolders(r) \/ AttachDocuments(r) \/ CommitSaved(r)
    \/ ListKeys(r) \/ CommitDestroyed(r)
    \/ CheckUpdate(r) \/ CommitUpdate(r)
    \/ CleanObject(r) \/ Fail(r) \/ StoreFails(r)

Next == (\E r \in Requests : Arrive(r) \/ Step(r)) \/ Crash

Spec == Init /\ [][Next]_vars

-----------------------------------------------------------------------------
(* Properties *)

\* Every document that is listed can be downloaded: its object was stored
\* before its row is seen, and no compensation, deletion of a shipment or
\* listing of a prefix takes it away while the row is there.
RowHasObject == \A d \in Docs : Saved(d) => stored[d] # None

\* An object without a row is still in the hands of a request, or one failed
\* call or a restart has left it behind.
Explained(d) == d \in left \/ \E r \in Requests : d \in InHands(r)
NoStrayUnderShipment == \A d \in Docs : stored[d] \in Shipments /\ ~Saved(d) => Explained(d)

\* A save takes with it what is in its draft at that moment, and nothing that
\* another save, or the update of a folder, has taken elsewhere since it was found.
SaveTakesItsDraft ==
    [][\A r \in Requests : CommitSaved(r) =>
        /\ \A f \in Folders : folder'[f].scope # folder[f].scope => folder[f].scope = request[r].draft
        /\ \A d \in Docs : doc'[d].scope # doc[d].scope => doc[d].scope = request[r].draft]_vars

\* The objects of a shipment's documents are deleted with it, those with a draft
\* key too, as DeleteProcessDocumentsForProcess.test.ts:62-90 expects.  They are
\* not: the rows are gone when the hook lists them.  No run has this property.
ObjectsGoWithShipment ==
    [][\A r \in Requests : CommitDestroyed(r) => DocsOf(request[r].scope) \subseteq request[r].keys]_vars

\* "The server checks that the folder, the file and the parent belong to one
\* shipment or one draft, and forbids folders that are their own parents and cycles."
TreeSound ==
    /\ \A d \in Docs : Saved(d) => InScope(doc[d].folder, doc[d].scope)
    /\ \A f \in Folders : Exists(f) => /\ InScope(folder[f].parent, folder[f].scope)
                                       /\ \E g \in Above(f) : folder[g].parent = None
=============================================================================
