------------------------------ MODULE SearchIndex ------------------------------
(***************************************************************************)
(* The search index of one collection (plugin-collection-search).          *)
(*                                                                         *)
(* The index holds one document per record: the record's own values and    *)
(* the title of the related record.  The first search after a start, a     *)
(* failure or a change of the schema rebuilds it; everybody who searches   *)
(* meanwhile waits for that rebuild.  Between rebuilds the hooks of every  *)
(* write keep it: inside the writing transaction they wait for a running   *)
(* rebuild, do nothing while the index is not in use, and else write the   *)
(* document again from what their transaction sees.  Changes of a related  *)
(* record rewrite the documents of the records that refer to it, without   *)
(* waiting and also while the index is not in use.                         *)
(*                                                                         *)
(* PostgreSQL at READ COMMITTED: own, title and docs are committed; what a *)
(* transaction has written is in tx and locked until it ends.  Writes by   *)
(* plain SQL, which run no hooks, are not modelled.                        *)
(***************************************************************************)
EXTENDS Naturals

CONSTANTS
    Records,   \* keys of the records of the collection
    Values,    \* values of a record, and titles of the related record
    Txs,       \* transactions that may be open at the same time
    MaxWrites, \* (bound) rows written by one transaction
    Related,   \* whether the records refer to a related record
    None,      \* no such row
    Same       \* a row that a transaction has not written

ASSUME NullAssumption ==
    /\ None \notin Records /\ None # Same
    /\ \A x \in {None, Same} : x \notin Values /\ x \notin [own: Values, title: Values]
ASSUME MaxWritesAssumption == MaxWrites \in Nat \ {0}
ASSUME RelatedAssumption == Related \in BOOLEAN

VARIABLES
    own,        \* committed records
    title,      \* committed title of the related record
    docs,       \* committed lc_collection_search_documents
    status,     \* lc_collection_search_states, "outdated": ready, of another signature
    enabled,    \* the collection is in indexedCollections
    registered, \* the collection is in registrations
    build,      \* the rebuild in synchronization
    tx,         \* open transactions
    missed      \* (history) records written by who found the index not in use

vars == <<own, title, docs, status, enabled, registered, build, tx, missed>>

Document(value, titleNow) == [own |-> value, title |-> titleNow]
Documents == [own: Values, title: Values]
NoDocument == None

(* A rebuild: the keys it has yet to delete or to read, the record it has  *)
(* read and not inserted, and whether the schema it describes is current.  *)
Build(pc, todo, key, doc, current) ==
    [pc |-> pc, todo |-> todo, key |-> key, doc |-> doc, current |-> current]

NoBuild == Build("idle", {}, None, NoDocument, TRUE)

(* A transaction: the rows it has written, the record its hook is about    *)
(* (None: the related record), and the documents the hook is to write.     *)
Transaction(pc, key, todo, doc) ==
    [pc |-> pc, key |-> key, todo |-> todo, doc |-> doc,
     own |-> [r \in Records |-> Same], title |-> Same,
     docs |-> [r \in Records |-> Same], skipped |-> {}, writes |-> 0]

Idle == Transaction("idle", None, {}, NoDocument)

Builds ==
    [pc: {"idle", "verifying", "started", "deleting", "reading", "read"},
     todo: SUBSET Records, key: Records \cup {None},
     doc: Documents \cup {NoDocument}, current: BOOLEAN]
Transactions ==
    [pc: {"idle", "hook", "waiting", "indexing", "loaded", "open"},
     key: Records \cup {None}, todo: SUBSET Records, doc: Documents \cup {NoDocument},
     own: [Records -> Values \cup {None, Same}], title: Values \cup {Same},
     docs: [Records -> Documents \cup {NoDocument, Same}],
     skipped: SUBSET Records, writes: 0..MaxWrites]

TypeOK ==
    /\ own \in [Records -> Values \cup {None}]
    /\ title \in Values
    /\ docs \in [Records -> Documents \cup {NoDocument}]
    /\ status \in {"none", "building", "ready", "outdated", "failed"}
    /\ enabled \in BOOLEAN
    /\ registered \in BOOLEAN
    /\ build \in Builds
    /\ tx \in [Txs -> Transactions]
    /\ missed \subseteq Records

Init ==
    /\ own = [r \in Records |-> None]
    /\ title \in Values
    /\ docs = [r \in Records |-> NoDocument]
    /\ status = "none"
    /\ enabled = FALSE
    /\ registered = FALSE
    /\ build = NoBuild
    /\ tx = [t \in Txs |-> Idle]
    /\ missed = {}

-----------------------------------------------------------------------------
(* What a transaction sees of a record and of the title. *)
OwnSeen(t, r) == IF tx[t].own[r] # Same THEN tx[t].own[r] ELSE own[r]
TitleSeen(t) == IF tx[t].title # Same THEN tx[t].title ELSE title

(* The row lock of a document is held by the transaction that wrote it. *)
DocumentLocked(r) == \E t \in Txs : tx[t].docs[r] # Same

(* The hook of a source record after the wait for the rebuild. *)
Checked(x, inUse) ==
    IF inUse THEN [x EXCEPT !.pc = "indexing", !.todo = {x.key}]
    ELSE [x EXCEPT !.pc = "open", !.skipped = @ \cup {x.key}]

(* The promise of the rebuild is fulfilled: the writers that wait go on.   *)
Finish ==
    /\ build' = NoBuild
    /\ enabled' = TRUE
    /\ tx' = [t \in Txs |-> IF tx[t].pc = "waiting" THEN Checked(tx[t], TRUE) ELSE tx[t]]

(* The promise is rejected: the error reaches the writers that wait, and   *)
(* their transactions are rolled back.                                     *)
Reject ==
    /\ build' = NoBuild
    /\ tx' = [t \in Txs |-> IF tx[t].pc = "waiting" THEN Idle ELSE tx[t]]

(* synchronize, catch; the state may be left "building" when the database  *)
(* refuses that write too.                                                 *)
Fail ==
    /\ Reject
    /\ enabled' = FALSE
    /\ status' \in {"failed", "building"}

-----------------------------------------------------------------------------
(* ensureSynchronized, when no rebuild runs: the state row decides whether *)
(* there is anything to do.                                                *)
Search ==
    /\ build.pc = "idle"
    /\ registered' = TRUE
    /\ build' = Build(IF status = "ready" THEN "verifying" ELSE "started",
                      {}, None, NoDocument, TRUE)
    /\ UNCHANGED <<own, title, docs, status, enabled, tx, missed>>

(* The index is ready already. *)
Verified ==
    /\ build.pc = "verifying"
    /\ Finish
    /\ UNCHANGED <<own, title, docs, status, registered, missed>>

(* Reading or writing the state row failed. *)
NotVerified ==
    /\ build.pc \in {"verifying", "started"}
    /\ Reject
    /\ UNCHANGED <<own, title, docs, status, enabled, registered, missed>>

(* writeState(building); the DELETE begins: it will delete the documents   *)
(* committed by now, and must wait for the transactions that wrote them.   *)
BeginDelete ==
    /\ build.pc = "started"
    /\ status' = "building"
    /\ build' = [build EXCEPT !.pc = "deleting",
                              !.todo = {r \in Records : docs[r] # NoDocument}]
    /\ UNCHANGED <<own, title, docs, enabled, registered, tx, missed>>

DeleteDocuments ==
    /\ build.pc = "deleting"
    /\ \A r \in build.todo : ~DocumentLocked(r)
    /\ docs' = [r \in Records |-> IF r \in build.todo THEN NoDocument ELSE docs[r]]
    /\ build' = [build EXCEPT !.pc = "reading", !.todo = Records]
    /\ UNCHANGED <<own, title, status, enabled, registered, tx, missed>>

(* chunkWithCursor reads the next record, as it is committed. *)
ReadRecord ==
    /\ build.pc = "reading"
    /\ \E r \in build.todo :
        /\ build' = IF own[r] = None THEN [build EXCEPT !.todo = @ \ {r}]
                    ELSE [build EXCEPT !.pc = "read", !.todo = @ \ {r}, !.key = r,
                                       !.doc = Document(own[r], title)]
        /\ missed' = missed \ {r}
    /\ UNCHANGED <<own, title, docs, status, enabled, registered, tx>>

(* (fault) the insert is tried again until the document is gone *)
InsertOrWait ==
    /\ build.pc = "read"
    /\ ~DocumentLocked(build.key)
    /\ docs[build.key] = NoDocument
    /\ docs' = [docs EXCEPT ![build.key] = build.doc]
    /\ build' = [build EXCEPT !.pc = "reading", !.key = None, !.doc = NoDocument]
    /\ UNCHANGED <<own, title, status, enabled, registered, tx, missed>>

(* bulkCreate waits for who is writing the same document, and fails when   *)
(* the document is there.                                                  *)
InsertDocument ==
    /\ build.pc = "read"
    /\ ~DocumentLocked(build.key)
    /\ IF docs[build.key] = NoDocument
       THEN /\ docs' = [docs EXCEPT ![build.key] = build.doc]
            /\ build' = [build EXCEPT !.pc = "reading", !.key = None, !.doc = NoDocument]
            /\ UNCHANGED <<status, enabled, tx>>
       ELSE Fail /\ UNCHANGED docs
    /\ UNCHANGED <<own, title, registered, missed>>

BuildReady ==
    /\ build.pc = "reading"
    /\ build.todo = {}
    /\ status' = IF build.current THEN "ready" ELSE "outdated"
    /\ Finish
    /\ UNCHANGED <<own, title, docs, registered, missed>>

(* Any statement of the rebuild may fail. *)
BuildFails ==
    /\ build.pc \in {"deleting", "reading", "read"}
    /\ Fail
    /\ UNCHANGED <<own, title, docs, registered, missed>>

(* A field is added or removed: the signature of the state row, and the    *)
(* descriptor of a running rebuild, are not the current ones any more.     *)
SchemaChanges ==
    /\ status' = IF status = "ready" THEN "outdated" ELSE status
    /\ build' = IF build.pc = "idle" THEN build ELSE [build EXCEPT !.current = FALSE]
    /\ UNCHANGED <<own, title, docs, enabled, registered, tx, missed>>

-----------------------------------------------------------------------------
(* A transaction creates, updates or deletes a record; the row stays       *)
(* locked, and the hook of the write comes next.                           *)
Write(t) ==
    /\ tx[t].pc \in {"idle", "open"}
    /\ tx[t].writes < MaxWrites
    /\ \E r \in Records, v \in Values \cup {None} :
        /\ v # OwnSeen(t, r)
        /\ \A u \in Txs \ {t} : tx[u].own[r] = Same
        /\ tx' = [tx EXCEPT ![t].pc = "hook", ![t].key = r, ![t].own[r] = v,
                            ![t].writes = @ + 1]
    /\ UNCHANGED <<own, title, docs, status, enabled, registered, build, missed>>

(* The same for the title of the related record. *)
Retitle(t) ==
    /\ Related
    /\ tx[t].pc \in {"idle", "open"}
    /\ tx[t].writes < MaxWrites
    /\ \E v \in Values \ {TitleSeen(t)} :
        /\ \A u \in Txs \ {t} : tx[u].title = Same
        /\ tx' = [tx EXCEPT ![t].pc = "hook", ![t].key = None, ![t].title = v,
                            ![t].writes = @ + 1]
    /\ UNCHANGED <<own, title, docs, status, enabled, registered, build, missed>>

(* (fault) the hook of a record does not wait for the rebuild *)
SourceHookWithoutWaiting(t) ==
    /\ tx[t].pc = "hook"
    /\ tx[t].key # None
    /\ tx' = [tx EXCEPT ![t] = IF build.pc = "idle" \/ enabled THEN Checked(@, enabled)
                               ELSE [@ EXCEPT !.pc = "open"]]
    /\ UNCHANGED <<own, title, docs, status, enabled, registered, build, missed>>

(* upsertSourceModel, removeSourceModel: wait for a running rebuild. *)
SourceHook(t) ==
    /\ tx[t].pc = "hook"
    /\ tx[t].key # None
    /\ tx' = [tx EXCEPT ![t] = IF build.pc = "idle" THEN Checked(@, enabled)
                               ELSE [@ EXCEPT !.pc = "waiting"]]
    /\ UNCHANGED <<own, title, docs, status, enabled, registered, build, missed>>

(* (fault) related records are looked after only while the index is in use *)
CollectWhenEnabled(t) ==
    LET dependents == {r \in Records : OwnSeen(t, r) # None}
    IN  /\ tx[t].pc = "hook"
        /\ tx[t].key = None
        /\ tx' = IF enabled
                 THEN [tx EXCEPT ![t].pc = "indexing", ![t].todo = dependents]
                 ELSE [tx EXCEPT ![t].pc = "open"]
        /\ UNCHANGED <<own, title, docs, status, enabled, registered, build, missed>>

(* collectDependentSourceRecords: the records that refer to the changed    *)
(* one; an index nobody has asked for since the start is not known.        *)
CollectDependents(t) ==
    LET dependents == {r \in Records : OwnSeen(t, r) # None}
    IN  /\ tx[t].pc = "hook"
        /\ tx[t].key = None
        /\ tx' = IF registered
                 THEN [tx EXCEPT ![t].pc = "indexing", ![t].todo = dependents]
                 ELSE [tx EXCEPT ![t].pc = "open", ![t].skipped = @ \cup dependents]
        /\ UNCHANGED <<own, title, docs, status, enabled, registered, build, missed>>

(* (fault) a record that has gone is made a document of *)
LoadWithoutCheck(t) ==
    /\ tx[t].pc = "indexing"
    /\ \E r \in tx[t].todo :
        tx' = [tx EXCEPT ![t].pc = "loaded", ![t].todo = @ \ {r}, ![t].key = r,
                         ![t].doc = Document(OwnSeen(t, r), TitleSeen(t))]
    /\ UNCHANGED <<own, title, docs, status, enabled, registered, build, missed>>

(* findOne: the next document is made of what the transaction sees now; a  *)
(* dependent record that has gone is passed over.                          *)
LoadRecord(t) ==
    /\ tx[t].pc = "indexing"
    /\ \E r \in tx[t].todo :
        tx' = IF OwnSeen(t, r) # None
              THEN [tx EXCEPT ![t].pc = "loaded", ![t].todo = @ \ {r}, ![t].key = r,
                              ![t].doc = Document(OwnSeen(t, r), TitleSeen(t))]
              ELSE IF r = tx[t].key
              THEN [tx EXCEPT ![t].pc = "loaded", ![t].todo = @ \ {r}]
              ELSE [tx EXCEPT ![t].todo = @ \ {r}]
    /\ UNCHANGED <<own, title, docs, status, enabled, registered, build, missed>>

(* The upsert of the document, or its DELETE, which finds nothing to lock  *)
(* when no document is committed.                                          *)
StoreDocument(t) ==
    LET r == tx[t].key
        nothing == /\ tx[t].doc = NoDocument
                   /\ docs[r] = NoDocument /\ tx[t].docs[r] = Same
    IN  /\ tx[t].pc = "loaded"
        /\ nothing \/ \A u \in Txs \ {t} : tx[u].docs[r] = Same
        /\ tx' = [tx EXCEPT ![t].pc = "indexing", ![t].doc = NoDocument, ![t].key = None,
                            ![t].docs[r] = IF nothing THEN Same ELSE tx[t].doc,
                            ![t].skipped = @ \ {r}]
        /\ UNCHANGED <<own, title, docs, status, enabled, registered, build, missed>>

(* The hooks are through; the transaction may write more, or end. *)
HooksDone(t) ==
    /\ tx[t].pc = "indexing"
    /\ tx[t].todo = {}
    /\ tx' = [tx EXCEPT ![t].pc = "open", ![t].key = None]
    /\ UNCHANGED <<own, title, docs, status, enabled, registered, build, missed>>

Commit(t) ==
    LET x == tx[t]
        written == {r \in Records : x.docs[r] # Same}
    IN  /\ x.pc = "open"
        /\ own' = [r \in Records |-> OwnSeen(t, r)]
        /\ title' = TitleSeen(t)
        /\ docs' = [r \in Records |-> IF r \in written THEN x.docs[r] ELSE docs[r]]
        /\ missed' = (missed \ written) \cup x.skipped
        /\ tx' = [tx EXCEPT ![t] = Idle]
        /\ UNCHANGED <<status, enabled, registered, build>>

(* A statement fails, a deadlock is found by PostgreSQL, the request ends. *)
(* Who waits for the rebuild is in no statement, and waits on.             *)
Rollback(t) ==
    /\ tx[t].pc \notin {"idle", "waiting"}
    /\ tx' = [tx EXCEPT ![t] = Idle]
    /\ UNCHANGED <<own, title, docs, status, enabled, registered, build, missed>>

(* (fault) the collections of ready indexes are not loaded at start *)
RestartWithoutLoading ==
    /\ enabled' = FALSE
    /\ registered' = FALSE
    /\ build' = NoBuild
    /\ tx' = [t \in Txs |-> Idle]
    /\ UNCHANGED <<own, title, docs, status, missed>>

(* The server stops and starts again; loadReadyStates runs before the      *)
(* first request.                                                          *)
Restart ==
    /\ enabled' = (status \in {"ready", "outdated"})
    /\ registered' = (status \in {"ready", "outdated"})
    /\ build' = NoBuild
    /\ tx' = [t \in Txs |-> Idle]
    /\ UNCHANGED <<own, title, docs, status, missed>>

-----------------------------------------------------------------------------
BuildStep ==
    \/ Verified \/ BeginDelete \/ DeleteDocuments
    \/ ReadRecord \/ InsertDocument \/ BuildReady

HookStep(t) ==
    \/ SourceHook(t) \/ CollectDependents(t)
    \/ LoadRecord(t) \/ StoreDocument(t) \/ HooksDone(t)

Next ==
    \/ Search \/ BuildStep \/ NotVerified \/ BuildFails \/ SchemaChanges
    \/ \E t \in Txs : Write(t) \/ Retitle(t) \/ HookStep(t) \/ Commit(t) \/ Rollback(t)
    \/ Restart

Spec == Init /\ [][Next]_vars

(* The statements of a rebuild that are not blocked are executed, and so   *)
(* are those of a transaction, which ends at last; PostgreSQL queues who   *)
(* waits for a lock, and ends by force who waits in a cycle of locks.      *)
FairSpec ==
    /\ Spec
    /\ WF_vars(BuildStep)
    /\ SF_vars(DeleteDocuments) /\ SF_vars(InsertDocument)
    /\ \A t \in Txs : WF_vars(HookStep(t)) /\ WF_vars(Commit(t) \/ Rollback(t))

-----------------------------------------------------------------------------
(* A ready index has, for every record, the document of what is committed: *)
(* no interleaving of a rebuild, its failure, a restart and of the hooks   *)
(* leaves an old document or none.  Excepted are the records of            *)
(* transactions that had found the index not in use before.                *)
IndexUpToDate ==
    status = "ready" /\ build.pc \in {"idle", "verifying"} =>
        \A r \in Records \ missed :
            own[r] # None => docs[r] = Document(own[r], title)

(* A ready index is kept: whatever failed or stopped since, the hooks know *)
(* of it.                                                                  *)
ReadyIsKept == status = "ready" /\ build.pc = "idle" => enabled /\ registered

(* A rebuild ends, so that the searches and writes that wait for it go on. *)
(* COLLECTION_SEARCH_PLUGIN.md:115-117: a change of the signature makes    *)
(* the collections rebuild their documents safely at the next search.      *)
EveryBuildEnds == build.pc # "idle" ~> build.pc = "idle"

-----------------------------------------------------------------------------
(* Not kept by the code: the README names an instance with a counterexample. *)

(* COLLECTION_SEARCH_PLUGIN.md:71-72: the subscriber updates the document  *)
(* after a record is created, changed or deleted.                          *)
EveryChangeIndexed ==
    status = "ready" /\ build.pc = "idle" =>
        \A r \in Records : own[r] # None => docs[r] = Document(own[r], title)
=============================================================================
