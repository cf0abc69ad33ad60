------------------------- MODULE SearchIndex_proofs -------------------------
(***************************************************************************)
(* Proofs about SearchIndex, for any sets of records, values and           *)
(* transactions and any number of writes of a transaction.                 *)
(***************************************************************************)
EXTENDS SearchIndex, TLAPS

(* Only the hook of a record waits for the rebuild. *)
WaitersInv == \A t \in Txs : tx[t].pc = "waiting" => tx[t].key # None

TypeInv == TypeOK /\ WaitersInv

(* The shapes of the records the actions make, and what a transaction      *)
(* sees.                                                                   *)
LEMMA Shapes ==
    /\ NoBuild \in Builds
    /\ Idle \in Transactions
    /\ Idle.pc = "idle"
    /\ NoBuild.pc = "idle"
  <1>1. NoBuild \in Builds /\ NoBuild.pc = "idle"
    BY DEF NoBuild, Build, Builds
  <1>2. Idle \in Transactions /\ Idle.pc = "idle"
    BY MaxWritesAssumption DEF Idle, Transaction, Transactions
  <1>3. QED BY <1>1, <1>2

LEMMA Seen ==
    ASSUME TypeOK, NEW t \in Txs, NEW r \in Records
    PROVE  /\ OwnSeen(t, r) \in Values \cup {None}
           /\ TitleSeen(t) \in Values
  BY DEF TypeOK, Transactions, OwnSeen, TitleSeen

LEMMA CheckedType ==
    ASSUME NEW x \in Transactions, x.key # None, NEW inUse \in BOOLEAN
    PROVE  Checked(x, inUse) \in Transactions /\ Checked(x, inUse).pc # "waiting"
  BY DEF Checked, Transactions

LEMMA FinishType ==
    ASSUME TypeInv, Finish
    PROVE  /\ build' \in Builds /\ enabled' \in BOOLEAN
           /\ tx' \in [Txs -> Transactions] /\ WaitersInv'
  <1>1. build' \in Builds /\ enabled' \in BOOLEAN
    BY Shapes DEF Finish
  <1>2. ASSUME NEW t \in Txs
        PROVE  tx'[t] \in Transactions /\ tx'[t].pc # "waiting"
    <2>1. CASE tx[t].pc = "waiting"
      BY <2>1, CheckedType DEF Finish, TypeInv, TypeOK, WaitersInv
    <2>2. CASE tx[t].pc # "waiting"
      BY <2>2 DEF Finish, TypeInv, TypeOK
    <2>3. QED BY <2>1, <2>2
  <1>3. tx' = [t \in Txs |-> tx'[t]]
    BY DEF Finish
  <1>4. QED BY <1>1, <1>2, <1>3 DEF WaitersInv

LEMMA RejectType ==
    ASSUME TypeInv, Reject
    PROVE  build' \in Builds /\ tx' \in [Txs -> Transactions] /\ WaitersInv'
  BY Shapes DEF Reject, TypeInv, TypeOK, WaitersInv

LEMMA TypeStep == ASSUME TypeInv, [Next]_vars PROVE TypeInv'
  <1> USE DEF TypeInv
  <1>1. CASE UNCHANGED vars
    BY <1>1 DEF TypeOK, WaitersInv, vars
  <1>2. CASE Search
    BY <1>2 DEF Search, Build, Builds, TypeOK, WaitersInv
  <1>3. CASE Verified
    BY <1>3, FinishType DEF Verified, TypeOK
  <1>4. CASE NotVerified
    BY <1>4, RejectType DEF NotVerified, TypeOK
  <1>5. CASE BeginDelete
    BY <1>5 DEF BeginDelete, Builds, TypeOK, WaitersInv
  <1>6. CASE DeleteDocuments
    BY <1>6 DEF DeleteDocuments, Builds, TypeOK, WaitersInv
  <1>7. CASE ReadRecord
    <2>1. PICK r \in build.todo :
            build' = IF own[r] = None THEN [build EXCEPT !.todo = @ \ {r}]
                     ELSE [build EXCEPT !.pc = "read", !.todo = @ \ {r}, !.key = r,
                                        !.doc = Document(own[r], title)]
      BY <1>7 DEF ReadRecord
    <2>2. own[r] # None => Document(own[r], title) \in Documents
      BY DEF TypeOK, Builds, Document, Documents
    <2>3. build' \in Builds
      BY <2>1, <2>2 DEF TypeOK, Builds
    <2>4. QED BY <1>7, <2>3 DEF ReadRecord, TypeOK, WaitersInv
  <1>8. CASE InsertDocument
    <2>1. CASE docs[build.key] = NoDocument
      <3>1. docs' \in [Records -> Documents \cup {NoDocument}]
        BY <1>8, <2>1 DEF InsertDocument, Builds, TypeOK
      <3>2. build' \in Builds
        <4>1. build' = [build EXCEPT !.pc = "reading", !.key = None, !.doc = NoDocument]
          BY <1>8, <2>1 DEF InsertDocument
        <4>2. build \in Builds
          BY DEF TypeOK
        <4>3. QED BY <4>1, <4>2 DEF Builds
      <3>3. QED BY <1>8, <2>1, <3>1, <3>2 DEF InsertDocument, TypeOK, WaitersInv
    <2>2. CASE docs[build.key] # NoDocument
      BY <1>8, <2>2, RejectType DEF InsertDocument, Fail, TypeOK
    <2>3. QED BY <2>1, <2>2
  <1>9. CASE BuildReady
    BY <1>9, FinishType DEF BuildReady, TypeOK
  <1>10. CASE BuildFails
    BY <1>10, RejectType DEF BuildFails, Fail, TypeOK
  <1>11. CASE SchemaChanges
    BY <1>11 DEF SchemaChanges, Builds, TypeOK, WaitersInv
  <1>12. ASSUME NEW t \in Txs, Write(t) PROVE TypeInv'
    BY <1>12, MaxWritesAssumption DEF Write, Transactions, TypeOK, WaitersInv
  <1>13. ASSUME NEW t \in Txs, Retitle(t) PROVE TypeInv'
    BY <1>13, MaxWritesAssumption DEF Retitle, Transactions, TypeOK, WaitersInv
  <1>14. ASSUME NEW t \in Txs, SourceHook(t) PROVE TypeInv'
    <2>1. Checked(tx[t], enabled) \in Transactions /\ Checked(tx[t], enabled).pc # "waiting"
      BY <1>14, CheckedType DEF SourceHook, TypeOK
    <2>2. [tx[t] EXCEPT !.pc = "waiting"] \in Transactions
          /\ [tx[t] EXCEPT !.pc = "waiting"].key = tx[t].key
      BY DEF Transactions, TypeOK
    <2>3. QED BY <1>14, <2>1, <2>2 DEF SourceHook, TypeOK, WaitersInv
  <1>15. ASSUME NEW t \in Txs, CollectDependents(t) PROVE TypeInv'
    <2> DEFINE dependents == {r \in Records : OwnSeen(t, r) # None}
    <2>1. dependents \subseteq Records
      OBVIOUS
    <2>2. [tx[t] EXCEPT !.pc = "indexing", !.todo = dependents] \in Transactions
      BY <2>1 DEF TypeOK, Transactions
    <2>3. [tx[t] EXCEPT !.pc = "open", !.skipped = tx[t].skipped \cup dependents] \in Transactions
      BY <2>1 DEF TypeOK, Transactions
    <2>4. tx' = [tx EXCEPT ![t] = IF registered
                    THEN [tx[t] EXCEPT !.pc = "indexing", !.todo = dependents]
                    ELSE [tx[t] EXCEPT !.pc = "open", !.skipped = tx[t].skipped \cup dependents]]
      BY <1>15 DEF CollectDependents
    <2> HIDE DEF dependents
    <2>5. QED
      <3>1. tx \in [Txs -> Transactions]
        BY DEF TypeOK
      <3>2. tx' \in [Txs -> Transactions]
        BY <2>2, <2>3, <2>4, <3>1
      <3>3. tx'[t].pc # "waiting"
        BY <2>4, <3>1 DEF Transactions
      <3>4. WaitersInv'
        BY <2>4, <3>1, <3>3 DEF WaitersInv
      <3>5. QED BY <1>15, <3>2, <3>4 DEF CollectDependents, TypeOK
  <1>16. ASSUME NEW t \in Txs, LoadRecord(t) PROVE TypeInv'
    <2>1. PICK r \in tx[t].todo :
            tx' = IF OwnSeen(t, r) # None
                  THEN [tx EXCEPT ![t].pc = "loaded", ![t].todo = @ \ {r}, ![t].key = r,
                                  ![t].doc = Document(OwnSeen(t, r), TitleSeen(t))]
                  ELSE IF r = tx[t].key
                  THEN [tx EXCEPT ![t].pc = "loaded", ![t].todo = @ \ {r}]
                  ELSE [tx EXCEPT ![t].todo = @ \ {r}]
      BY <1>16 DEF LoadRecord
    <2>2. r \in Records
      BY DEF TypeOK, Transactions
    <2>3. OwnSeen(t, r) # None => Document(OwnSeen(t, r), TitleSeen(t)) \in Documents
      BY <2>2, Seen DEF Document, Documents
    <2>4. tx[t].pc = "indexing" BY <1>16 DEF LoadRecord
    <2>5. tx' \in [Txs -> Transactions] /\ WaitersInv'
      <3>1. tx[t] \in Transactions /\ tx \in [Txs -> Transactions]
        BY DEF TypeOK
      <3>2. CASE OwnSeen(t, r) # None
        <4> DEFINE doc == Document(OwnSeen(t, r), TitleSeen(t))
        <4>1. tx' = [tx EXCEPT ![t].pc = "loaded", ![t].todo = @ \ {r}, ![t].key = r,
                               ![t].doc = doc] /\ doc \in Documents
          BY <2>1, <2>3, <3>2
        <4> HIDE DEF doc
        <4>2. QED BY <4>1, <2>2, <3>1 DEF Transactions, WaitersInv
      <3>3. CASE OwnSeen(t, r) = None /\ r = tx[t].key
        BY <2>1, <2>2, <3>1, <3>3 DEF Transactions, WaitersInv
      <3>4. CASE OwnSeen(t, r) = None /\ r # tx[t].key
        BY <2>1, <2>2, <2>4, <3>1, <3>4 DEF Transactions, WaitersInv
      <3>5. QED BY <3>2, <3>3, <3>4
    <2>6. QED BY <1>16, <2>5 DEF LoadRecord, TypeOK
  <1>17. ASSUME NEW t \in Txs, StoreDocument(t) PROVE TypeInv'
    <2> DEFINE r == tx[t].key
               nothing == /\ tx[t].doc = NoDocument
                          /\ docs[r] = NoDocument /\ tx[t].docs[r] = Same
               stored == IF nothing THEN Same ELSE tx[t].doc
    <2>1. tx[t] \in Transactions /\ tx \in [Txs -> Transactions]
      BY DEF TypeOK
    <2>2. stored \in Documents \cup {NoDocument, Same}
      BY <2>1 DEF Transactions
    <2>3. tx' = [tx EXCEPT ![t].pc = "indexing", ![t].doc = NoDocument, ![t].key = None,
                           ![t].docs[r] = stored, ![t].skipped = tx[t].skipped \ {r}]
      BY <1>17 DEF StoreDocument
    <2>4. tx' \in [Txs -> Transactions]
      BY <2>1, <2>2, <2>3 DEF Transactions, NoDocument
    <2>5. WaitersInv'
      <3>1. \A u \in Txs \ {t} : tx'[u] = tx[u]
        BY <2>1, <2>3
      <3>2. tx'[t].pc = "indexing"
        BY <2>1, <2>3 DEF Transactions
      <3>3. QED BY <3>1, <3>2 DEF WaitersInv
    <2>6. UNCHANGED <<own, title, docs, status, enabled, registered, build, missed>>
      BY <1>17 DEF StoreDocument
    <2>7. QED BY <2>4, <2>5, <2>6 DEF TypeOK
  <1>18. ASSUME NEW t \in Txs, HooksDone(t) PROVE TypeInv'
    <2>1. tx' \in [Txs -> Transactions]
      <3>1. tx \in [Txs -> Transactions] /\ tx' = [tx EXCEPT ![t].pc = "open", ![t].key = None]
        BY <1>18 DEF HooksDone, TypeOK
      <3>2. tx[t] \in Transactions
        BY <3>1
      <3>3. [tx[t] EXCEPT !.pc = "open", !.key = None] \in Transactions
        BY <3>2 DEF Transactions
      <3>4. tx' = [tx EXCEPT ![t] = [tx[t] EXCEPT !.pc = "open", !.key = None]]
        BY <3>1
      <3>5. QED BY <3>1, <3>3, <3>4
    <2>2. WaitersInv'
      BY <1>18 DEF HooksDone, TypeOK, WaitersInv
    <2>3. QED BY <1>18, <2>1, <2>2 DEF HooksDone, TypeOK
  <1>19. ASSUME NEW t \in Txs, Commit(t) PROVE TypeInv'
    <2>1. own' \in [Records -> Values \cup {None}] /\ title' \in Values
      <3>1. \A r \in Records : OwnSeen(t, r) \in Values \cup {None}
        BY Seen
      <3>2. TitleSeen(t) \in Values
        BY DEF TitleSeen, TypeOK, Transactions
      <3>3. own' = [r \in Records |-> OwnSeen(t, r)] /\ title' = TitleSeen(t)
        BY <1>19 DEF Commit
      <3>4. QED BY <3>1, <3>2, <3>3
    <2>2. docs' \in [Records -> Documents \cup {NoDocument}]
      BY <1>19 DEF Commit, TypeOK, Transactions
    <2>3. missed' \subseteq Records
      BY <1>19 DEF Commit, TypeOK, Transactions
    <2>4. tx' \in [Txs -> Transactions] /\ WaitersInv'
      BY <1>19, Shapes DEF Commit, TypeOK, WaitersInv
    <2>5. QED BY <1>19, <2>1, <2>2, <2>3, <2>4 DEF Commit, TypeOK
  <1>20. ASSUME NEW t \in Txs, Rollback(t) PROVE TypeInv'
    BY <1>20, Shapes DEF Rollback, TypeOK, WaitersInv
  <1>21. CASE Restart
    BY <1>21, Shapes DEF Restart, TypeOK, WaitersInv
  <1>22. QED
    BY <1>1, <1>2, <1>3, <1>4, <1>5, <1>6, <1>7, <1>8, <1>9, <1>10, <1>11, <1>12, <1>13,
       <1>14, <1>15, <1>16, <1>17, <1>18, <1>19, <1>20, <1>21
    DEF Next, BuildStep, HookStep

(* The state of a rebuild, of every transaction and of both tables keeps   *)
(* its type (NocoBaseSearchIndexRepository, the hooks of the subscriber).  *)
THEOREM TypeCorrect == Spec => []TypeOK
  <1>1. Init => TypeInv
    BY Shapes DEF Init, TypeInv, TypeOK, WaitersInv
  <1>2. QED BY <1>1, TypeStep, PTL DEF Spec, TypeInv

-----------------------------------------------------------------------------
(* Only a rebuild that ends well makes the index ready, and it lets the    *)
(* hooks know before it ends.                                              *)
ReadyInv ==
    /\ status = "ready" => enabled /\ registered /\ build.pc \in {"idle", "verifying"}
    /\ build.pc # "idle" => registered

LEMMA ReadyStep == ASSUME TypeOK, ReadyInv, [Next]_vars PROVE ReadyInv'
  <1> USE DEF ReadyInv
  <1>1. CASE UNCHANGED vars
    BY <1>1 DEF vars
  <1>2. CASE Search
    BY <1>2 DEF Search, Build
  <1>3. CASE Verified
    BY <1>3, Shapes DEF Verified, Finish
  <1>4. CASE NotVerified
    BY <1>4, Shapes DEF NotVerified, Reject
  <1>5. CASE BeginDelete
    BY <1>5 DEF BeginDelete, TypeOK, Builds
  <1>6. CASE DeleteDocuments
    BY <1>6 DEF DeleteDocuments, TypeOK, Builds
  <1>7. CASE ReadRecord
    <2>1. build'.pc \in {"reading", "read"}
      BY <1>7 DEF ReadRecord, TypeOK, Builds
    <2>2. QED BY <1>7, <2>1 DEF ReadRecord
  <1>8. CASE InsertDocument
    <2>1. CASE docs[build.key] = NoDocument
      <3>1. build' = [build EXCEPT !.pc = "reading", !.key = None, !.doc = NoDocument]
            /\ UNCHANGED <<status, enabled, registered>>
        BY <1>8, <2>1 DEF InsertDocument
      <3>2. build'.pc = "reading"
        BY <3>1 DEF TypeOK, Builds
      <3>3. QED BY <1>8, <3>1, <3>2 DEF InsertDocument
    <2>2. CASE docs[build.key] # NoDocument
      BY <1>8, <2>2, Shapes DEF InsertDocument, Fail, Reject
    <2>3. QED BY <2>1, <2>2
  <1>9. CASE BuildReady
    BY <1>9, Shapes DEF BuildReady, Finish
  <1>10. CASE BuildFails
    BY <1>10, Shapes DEF BuildFails, Fail, Reject
  <1>11. CASE SchemaChanges
    BY <1>11 DEF SchemaChanges, TypeOK, Builds
  <1>12. ASSUME NEW t \in Txs,
                Write(t) \/ Retitle(t) \/ HookStep(t) \/ Commit(t) \/ Rollback(t)
         PROVE  ReadyInv'
    BY <1>12 DEF Write, Retitle, HookStep, SourceHook, CollectDependents, LoadRecord,
       StoreDocument, HooksDone, Commit, Rollback
  <1>13. CASE Restart
    BY <1>13, Shapes DEF Restart
  <1>14. QED
    BY <1>1, <1>2, <1>3, <1>4, <1>5, <1>6, <1>7, <1>8, <1>9, <1>10, <1>11, <1>12, <1>13
    DEF Next, BuildStep

(* After any failures, restarts and changes of the schema, the hooks of    *)
(* writes keep an index whose state row says ready (indexedCollections,    *)
(* registrations).                                                         *)
THEOREM ReadyAlwaysKept == Spec => []ReadyIsKept
  <1>1. Init => TypeInv /\ ReadyInv
    BY Shapes DEF Init, TypeInv, TypeOK, WaitersInv, ReadyInv
  <1>2. TypeInv /\ ReadyInv /\ [Next]_vars => TypeInv' /\ ReadyInv'
    BY TypeStep, ReadyStep DEF TypeInv
  <1>3. ReadyInv => ReadyIsKept
    BY DEF ReadyInv, ReadyIsKept
  <1>4. QED BY <1>1, <1>2, <1>3, PTL DEF Spec

-----------------------------------------------------------------------------
(* What a transaction x sees of a record and of the title, when o and now  *)
(* are committed; the records whose document its writes make old; and      *)
(* those of them that a hook has yet to deal with.                         *)
SeenOf(x, o, r) == IF x.own[r] # Same THEN x.own[r] ELSE o[r]
TitleOf(x, now) == IF x.title # Same THEN x.title ELSE now

Touched(x, r) == x.own[r] # Same \/ x.title # Same

InHand(x, r) ==
    \/ x.pc \in {"hook", "waiting"} /\ x.key \in {None, r}
    \/ x.pc \in {"indexing", "loaded"} /\ r \in x.todo
    \/ x.pc = "loaded" /\ x.key = r

(* What a hook is about has been written by its transaction. *)
HookFits(x) ==
    /\ x.pc \in {"hook", "waiting"} =>
          IF x.key = None THEN x.title # Same ELSE x.own[x.key] # Same
    /\ x.pc \in {"indexing", "loaded"} => \A r \in x.todo : Touched(x, r)
    /\ x.pc = "loaded" => x.key \in Records /\ Touched(x, x.key)

(* The document a hook is to write tells of what its transaction sees.     *)
LoadedFits(x, o, now) ==
    x.pc = "loaded" /\ SeenOf(x, o, x.key) # None =>
        x.doc = Document(SeenOf(x, o, x.key), TitleOf(x, now))

(* Whatever a transaction has made old is in the hand of a hook, is known  *)
(* as skipped, or has the document of what the transaction sees.           *)
WrittenFits(x, o, now) ==
    \A r \in Records \ x.skipped :
        Touched(x, r) /\ SeenOf(x, o, r) # None =>
            InHand(x, r) \/ x.docs[r] = Document(SeenOf(x, o, r), TitleOf(x, now))

TxFits(x, o, now) ==
    /\ ~Related => x.title = Same
    /\ \A r \in Records : x.docs[r] # Same => Touched(x, r)
    /\ HookFits(x)
    /\ LoadedFits(x, o, now)
    /\ WrittenFits(x, o, now)

TxInv == \A t \in Txs : TxFits(tx[t], own, title)

(* The document of r tells of the record that is committed. *)
Fresh(r) == own[r] # None => docs[r] = Document(own[r], title)

(* A ready index is fresh, and a rebuild is behind its cursor, up to the   *)
(* record it holds.                                                        *)
IndexInv ==
    \A r \in Records \ missed :
        /\ status = "ready" => Fresh(r)
        /\ build.pc \in {"reading", "read"} /\ r \notin build.todo =>
              \/ Fresh(r)
              \/ /\ build.pc = "read" /\ r = build.key
                 /\ build.doc = Document(own[r], title)

IInv == TypeInv /\ ReadyInv /\ TxInv /\ IndexInv

LEMMA NoDocumentIsNone ==
    ASSUME NEW v \in Values, NEW w \in Values
    PROVE  Document(v, w) # NoDocument /\ Document(v, w) # Same
  BY NullAssumption DEF Document, NoDocument

LEMMA SeenOfType ==
    ASSUME NEW o \in [Records -> Values \cup {None}], NEW now \in Values,
           NEW x \in Transactions, NEW r \in Records
    PROVE  /\ SeenOf(x, o, r) \in Values \cup {None}
           /\ TitleOf(x, now) \in Values
           /\ SeenOf(x, o, r) # None =>
                 /\ Document(SeenOf(x, o, r), TitleOf(x, now)) # NoDocument
                 /\ Document(SeenOf(x, o, r), TitleOf(x, now)) # Same
  <1>1. SeenOf(x, o, r) \in Values \cup {None} /\ TitleOf(x, now) \in Values
    BY DEF SeenOf, TitleOf, Transactions
  <1>2. QED BY <1>1, NoDocumentIsNone

LEMMA IdleFits == ASSUME NEW o, NEW now PROVE TxFits(Idle, o, now)
  BY DEF TxFits, HookFits, LoadedFits, WrittenFits, Touched, Idle, Transaction

LEMMA CheckedFits ==
    ASSUME NEW o, NEW now, NEW x \in Transactions, TxFits(x, o, now),
           x.pc \in {"hook", "waiting"}, x.key # None, NEW inUse \in BOOLEAN
    PROVE  TxFits(Checked(x, inUse), o, now)
  <1>0. x.key \in Records /\ x.own[x.key] # Same
    BY DEF Transactions, TxFits, HookFits
  <1>1. CASE inUse
    <2> DEFINE y == [x EXCEPT !.pc = "indexing", !.todo = {x.key}]
    <2>1. /\ y.pc = "indexing" /\ y.todo = {x.key} /\ y.title = x.title
          /\ y.own = x.own /\ y.docs = x.docs /\ y.skipped = x.skipped
      BY DEF Transactions
    <2>2. Checked(x, inUse) = y BY <1>1 DEF Checked
    <2> HIDE DEF y
    <2>3. QED
      BY <1>0, <2>1, <2>2
      DEF TxFits, HookFits, LoadedFits, WrittenFits, InHand, Touched, SeenOf, TitleOf
  <1>2. CASE ~inUse
    <2> DEFINE y == [x EXCEPT !.pc = "open", !.skipped = x.skipped \cup {x.key}]
    <2>1. /\ y.pc = "open" /\ y.title = x.title
          /\ y.own = x.own /\ y.docs = x.docs /\ y.skipped = x.skipped \cup {x.key}
      BY DEF Transactions
    <2>2. Checked(x, inUse) = y BY <1>2 DEF Checked
    <2> HIDE DEF y
    <2>3. QED
      BY <1>0, <2>1, <2>2
      DEF TxFits, HookFits, LoadedFits, WrittenFits, InHand, Touched, SeenOf, TitleOf
  <1>3. QED BY <1>1, <1>2

LEMMA WaitingFits ==
    ASSUME NEW o, NEW now, NEW x \in Transactions, TxFits(x, o, now), x.pc = "hook"
    PROVE  TxFits([x EXCEPT !.pc = "waiting"], o, now)
  <1> DEFINE y == [x EXCEPT !.pc = "waiting"]
  <1>1. /\ y.pc = "waiting" /\ y.key = x.key /\ y.title = x.title /\ y.own = x.own
        /\ y.docs = x.docs /\ y.skipped = x.skipped
    BY DEF Transactions
  <1> HIDE DEF y
  <1>2. TxFits(y, o, now)
    BY <1>1 DEF TxFits, HookFits, LoadedFits, WrittenFits, InHand, Touched, SeenOf, TitleOf
  <1>3. QED BY <1>2 DEF y

LEMMA WriteFits ==
    ASSUME NEW o, NEW now, NEW x \in Transactions, TxFits(x, o, now),
           x.pc \in {"idle", "open"}, NEW r \in Records, NEW v \in Values \cup {None}, NEW n
    PROVE  TxFits([x EXCEPT !.pc = "hook", !.key = r, !.own[r] = v, !.writes = n], o, now)
  <1> DEFINE y == [x EXCEPT !.pc = "hook", !.key = r, !.own[r] = v, !.writes = n]
  <1>1. /\ y.pc = "hook" /\ y.key = r /\ y.title = x.title
        /\ y.own = [x.own EXCEPT ![r] = v] /\ y.docs = x.docs /\ y.skipped = x.skipped
    BY DEF Transactions
  <1>2. x.own \in [Records -> Values \cup {None, Same}]
    BY DEF Transactions
  <1>3. v # Same /\ r # None
    BY NullAssumption
  <1>4. y.own[r] = v /\ \A s \in Records \ {r} : y.own[s] = x.own[s]
    BY <1>1, <1>2
  <1> HIDE DEF y
  <1>5. \A s \in Records : Touched(x, s) => Touched(y, s)
    BY <1>1, <1>3, <1>4 DEF Touched
  <1>6. \A s \in Records \ {r} : /\ SeenOf(y, o, s) = SeenOf(x, o, s)
                                 /\ Touched(y, s) <=> Touched(x, s)
                                 /\ ~InHand(x, s)
    BY <1>1, <1>4 DEF SeenOf, Touched, InHand
  <1>7. WrittenFits(y, o, now)
    BY <1>1, <1>6 DEF WrittenFits, InHand, TitleOf, TxFits
  <1>8. HookFits(y) /\ LoadedFits(y, o, now)
    BY <1>1, <1>3, <1>4 DEF HookFits, LoadedFits
  <1>9. TxFits(y, o, now)
    BY <1>1, <1>5, <1>7, <1>8 DEF TxFits
  <1>10. QED BY <1>9 DEF y

LEMMA RetitleFits ==
    ASSUME Related, NEW o, NEW now, NEW x \in Transactions, TxFits(x, o, now),
           NEW v \in Values, NEW n
    PROVE  TxFits([x EXCEPT !.pc = "hook", !.key = None, !.title = v, !.writes = n], o, now)
  <1> DEFINE y == [x EXCEPT !.pc = "hook", !.key = None, !.title = v, !.writes = n]
  <1>1. y.pc = "hook" /\ y.key = None /\ y.title = v /\ v # Same
    BY NullAssumption DEF Transactions
  <1> HIDE DEF y
  <1>2. TxFits(y, o, now)
    BY <1>1 DEF TxFits, HookFits, LoadedFits, WrittenFits, InHand, Touched
  <1>3. QED BY <1>2 DEF y

(* The hook of a related record takes every record it finds in hand, or    *)
(* skips every one.                                                        *)
LEMMA CollectFits ==
    ASSUME NEW o, NEW now, NEW x \in Transactions, TxFits(x, o, now), x.title # Same,
           NEW found, \A r \in Records : r \in found <=> SeenOf(x, o, r) # None,
           found \subseteq Records,
           NEW y, y.title = x.title, y.own = x.own, y.docs = x.docs,
           \/ y.pc = "indexing" /\ y.todo = found /\ y.skipped = x.skipped
           \/ y.pc = "open" /\ y.skipped = x.skipped \cup found
    PROVE  TxFits(y, o, now)
  <1>1. \A r \in Records : Touched(y, r) /\ SeenOf(y, o, r) = SeenOf(x, o, r)
    BY DEF Touched, SeenOf
  <1>2. WrittenFits(y, o, now)
    BY <1>1 DEF WrittenFits, InHand
  <1>3. HookFits(y) /\ LoadedFits(y, o, now)
    BY <1>1 DEF HookFits, LoadedFits
  <1>4. QED BY <1>1, <1>2, <1>3 DEF TxFits

(* A record found is loaded; one that has gone needs no document any more, *)
(* and is loaded only to have it deleted.                                  *)
LEMMA LoadFits ==
    ASSUME NEW o, NEW now, NEW x \in Transactions, TxFits(x, o, now), x.pc = "indexing",
           NEW r \in x.todo,
           NEW y, y.todo = x.todo \ {r}, y.title = x.title, y.own = x.own,
           y.docs = x.docs, y.skipped = x.skipped,
           \/ /\ y.pc = "loaded" /\ y.key = r
              /\ SeenOf(x, o, r) # None =>
                    y.doc = Document(SeenOf(x, o, r), TitleOf(x, now))
           \/ y.pc = "indexing" /\ SeenOf(x, o, r) = None
    PROVE  TxFits(y, o, now)
  <1>1. r \in Records
    BY DEF Transactions
  <1>2. \A s \in Records : /\ SeenOf(y, o, s) = SeenOf(x, o, s)
                           /\ Touched(y, s) <=> Touched(x, s)
    BY DEF SeenOf, Touched
  <1>3. TitleOf(y, now) = TitleOf(x, now)
    BY DEF TitleOf
  <1>4. \A s \in x.todo : Touched(x, s) /\ s \in Records
    BY DEF TxFits, HookFits, Transactions
  <1>5. HookFits(y)
    BY <1>1, <1>2, <1>4 DEF HookFits
  <1>6. LoadedFits(y, o, now)
    BY <1>1, <1>2, <1>3 DEF LoadedFits
  <1>7. WrittenFits(y, o, now)
    <2>1. \A s \in Records \ {r} : InHand(x, s) => InHand(y, s)
      BY DEF InHand
    <2>2. y.pc = "loaded" => InHand(y, r)
      BY DEF InHand
    <2>3. y.pc # "loaded" => SeenOf(y, o, r) = None
      BY <1>1, <1>2
    <2>4. QED BY <1>2, <1>3, <2>1, <2>2, <2>3 DEF WrittenFits, TxFits
  <1>8. QED BY <1>2, <1>5, <1>6, <1>7 DEF TxFits

LEMMA StoreFits ==
    ASSUME NEW o \in [Records -> Values \cup {None}], NEW now \in Values,
           NEW x \in Transactions, TxFits(x, o, now), x.pc = "loaded",
           NEW stored, x.doc # NoDocument => stored = x.doc,
           NEW y, y.pc = "indexing", y.todo = x.todo, y.title = x.title, y.own = x.own,
           y.docs = [x.docs EXCEPT ![x.key] = stored], y.skipped = x.skipped \ {x.key}
    PROVE  TxFits(y, o, now)
  <1>1. PICK k \in Records : k = x.key /\ Touched(x, k)
    BY DEF TxFits, HookFits
  <1>2. x.docs \in [Records -> Documents \cup {NoDocument, Same}]
    BY DEF Transactions
  <1>3. y.docs[k] = stored /\ \A s \in Records \ {k} : y.docs[s] = x.docs[s]
    BY <1>1, <1>2
  <1>4. \A s \in Records : /\ SeenOf(y, o, s) = SeenOf(x, o, s)
                           /\ Touched(y, s) <=> Touched(x, s)
    BY DEF SeenOf, Touched
  <1>5. TitleOf(y, now) = TitleOf(x, now)
    BY DEF TitleOf
  <1>6. SeenOf(x, o, k) # None => stored = Document(SeenOf(x, o, k), TitleOf(x, now))
    BY <1>1, SeenOfType DEF TxFits, LoadedFits
  <1>7. HookFits(y) /\ LoadedFits(y, o, now)
    <2>1. \A s \in x.todo : Touched(x, s) /\ s \in Records
      BY DEF TxFits, HookFits, Transactions
    <2>2. QED BY <1>4, <2>1 DEF HookFits, LoadedFits
  <1>8. WrittenFits(y, o, now)
    <2>1. \A s \in Records \ {k} : InHand(x, s) => InHand(y, s)
      BY <1>1 DEF InHand
    <2>2. QED BY <1>1, <1>3, <1>4, <1>5, <1>6, <2>1 DEF WrittenFits, TxFits
  <1>9. \A s \in Records : y.docs[s] # Same => Touched(y, s)
    BY <1>1, <1>3, <1>4 DEF TxFits
  <1>10. QED BY <1>7, <1>8, <1>9 DEF TxFits

LEMMA DoneFits ==
    ASSUME NEW o, NEW now, NEW x \in Transactions, TxFits(x, o, now),
           x.pc = "indexing", x.todo = {}
    PROVE  TxFits([x EXCEPT !.pc = "open", !.key = None], o, now)
  <1> DEFINE y == [x EXCEPT !.pc = "open", !.key = None]
  <1>1. /\ y.pc = "open" /\ y.title = x.title /\ y.own = x.own
        /\ y.docs = x.docs /\ y.skipped = x.skipped
    BY DEF Transactions
  <1> HIDE DEF y
  <1>2. TxFits(y, o, now)
    BY <1>1 DEF TxFits, HookFits, LoadedFits, WrittenFits, InHand, Touched, SeenOf, TitleOf
  <1>3. QED BY <1>2 DEF y

(* Who has not written the title sees, of the records it has written, what *)
(* it wrote, whatever others commit.                                       *)
LEMMA OthersFit ==
    ASSUME NEW o, NEW p, NEW now, NEW x, TxFits(x, o, now), x.title = Same
    PROVE  TxFits(x, p, now)
  <1>1. \A r : Touched(x, r) => SeenOf(x, p, r) = SeenOf(x, o, r)
    BY DEF Touched, SeenOf
  <1>2. LoadedFits(x, p, now)
    BY <1>1 DEF LoadedFits, TxFits, HookFits
  <1>3. WrittenFits(x, p, now)
    BY <1>1 DEF WrittenFits, TxFits
  <1>4. QED BY <1>2, <1>3 DEF TxFits

LEMMA FinishFits ==
    ASSUME TypeInv, TxInv, UNCHANGED <<own, title>>, Finish
    PROVE  TxInv'
  <1>1. ASSUME NEW t \in Txs PROVE TxFits(tx'[t], own, title)
    <2>1. CASE tx[t].pc = "waiting"
      BY <2>1, CheckedFits DEF Finish, TypeInv, TypeOK, WaitersInv, TxInv
    <2>2. CASE tx[t].pc # "waiting"
      BY <2>2 DEF Finish, TxInv
    <2>3. QED BY <2>1, <2>2
  <1>2. QED BY <1>1 DEF TxInv

LEMMA RejectFits ==
    ASSUME TypeInv, TxInv, UNCHANGED <<own, title>>, Reject
    PROVE  TxInv'
  BY IdleFits DEF Reject, TxInv

(* One transaction takes a step, the others do not. *)
LEMMA OneFits ==
    ASSUME TypeInv, TxInv, UNCHANGED <<own, title>>, NEW t \in Txs, NEW y,
           tx' = [tx EXCEPT ![t] = y], TxFits(y, own, title)
    PROVE  TxInv'
  BY DEF TxInv, TypeInv, TypeOK

(* Where records refer to a related one, nobody else is in a transaction;  *)
(* where they do not, nobody has written a title.                          *)
LEMMA CommitFits ==
    ASSUME Related => \A t, u \in Txs : t = u, TypeInv, TxInv, NEW t \in Txs, Commit(t)
    PROVE  TxInv'
  <1>1. tx' = [tx EXCEPT ![t] = Idle] /\ tx \in [Txs -> Transactions]
    BY DEF Commit, TypeInv, TypeOK
  <1>2. ASSUME NEW u \in Txs PROVE TxFits(tx'[u], own', title')
    <2>1. CASE u = t
      BY <1>1, <2>1, IdleFits
    <2>2. CASE u # t
      <3>1. tx[t].title = Same /\ tx[u].title = Same
        BY <2>2 DEF TxInv, TxFits
      <3>2. title' = title
        BY <3>1 DEF Commit, TitleSeen
      <3>3. TxFits(tx[u], own, title)
        BY DEF TxInv
      <3>4. TxFits(tx[u], own', title)
        BY <3>1, <3>3, OthersFit
      <3>5. QED BY <1>1, <2>2, <3>2, <3>4
    <2>3. QED BY <2>1, <2>2
  <1>3. QED BY <1>2 DEF TxInv

(* Only who commits changes what is committed. *)
LEMMA CommittedKept ==
    ASSUME [Next]_vars, \A t \in Txs : ~Commit(t)
    PROVE  UNCHANGED <<own, title>>
  BY DEF Next, BuildStep, HookStep, Search, Verified, BeginDelete, DeleteDocuments,
     ReadRecord, InsertDocument, BuildReady, NotVerified, BuildFails, SchemaChanges,
     Write, Retitle, SourceHook, CollectDependents, LoadRecord, StoreDocument, HooksDone,
     Rollback, Restart, vars

LEMMA TxHookStep ==
    ASSUME TypeInv, TxInv, UNCHANGED <<own, title>>, NEW t \in Txs, HookStep(t)
    PROVE  TxInv'
  <1> DEFINE x == tx[t]
  <1>1. x \in Transactions /\ TxFits(x, own, title) /\ tx \in [Txs -> Transactions]
    BY DEF TypeInv, TypeOK, TxInv
  <1>2. /\ own \in [Records -> Values \cup {None}] /\ title \in Values
        /\ enabled \in BOOLEAN /\ registered \in BOOLEAN
    BY DEF TypeInv, TypeOK
  <1>3. CASE SourceHook(t)
    <2> DEFINE w == [x EXCEPT !.pc = "waiting"]
    <2>1. x.pc = "hook" /\ x.key # None
      BY <1>3 DEF SourceHook
    <2>2. TxFits(w, own, title) /\ TxFits(Checked(x, enabled), own, title)
      BY <1>1, <1>2, <2>1, WaitingFits, CheckedFits
    <2>3. tx' = [tx EXCEPT ![t] = IF build.pc = "idle" THEN Checked(x, enabled) ELSE w]
      BY <1>3 DEF SourceHook
    <2> HIDE DEF w, x
    <2>4. CASE build.pc = "idle"
      BY <2>2, <2>3, <2>4, OneFits
    <2>5. CASE build.pc # "idle"
      BY <2>2, <2>3, <2>5, OneFits
    <2>6. QED BY <2>4, <2>5
  <1>4. CASE CollectDependents(t)
    <2> DEFINE found == {r \in Records : OwnSeen(t, r) # None}
               taken == [x EXCEPT !.pc = "indexing", !.todo = found]
               skip == [x EXCEPT !.pc = "open", !.skipped = x.skipped \cup found]
    <2>1. x.pc = "hook" /\ x.title # Same
      BY <1>1, <1>4 DEF CollectDependents, TxFits, HookFits
    <2>2. tx' = [tx EXCEPT ![t] = IF registered THEN taken ELSE skip]
      BY <1>1, <1>4 DEF CollectDependents
    <2>3. /\ found \subseteq Records
          /\ \A r \in Records : r \in found <=> SeenOf(x, own, r) # None
      BY DEF OwnSeen, SeenOf
    <2>4. /\ taken.title = x.title /\ taken.own = x.own /\ taken.docs = x.docs
          /\ taken.pc = "indexing" /\ taken.todo = found /\ taken.skipped = x.skipped
      BY <1>1 DEF Transactions
    <2>5. /\ skip.title = x.title /\ skip.own = x.own /\ skip.docs = x.docs
          /\ skip.pc = "open" /\ skip.skipped = x.skipped \cup found
      BY <1>1 DEF Transactions
    <2> HIDE DEF found, taken, skip, x
    <2>6. TxFits(taken, own, title)
      BY <1>1, <2>1, <2>3, <2>4, CollectFits
    <2>7. TxFits(skip, own, title)
      BY <1>1, <2>1, <2>3, <2>5, CollectFits
    <2>8. CASE registered
      BY <2>2, <2>6, <2>8, OneFits DEF x
    <2>9. CASE ~registered
      BY <2>2, <2>7, <2>9, OneFits DEF x
    <2>10. QED BY <2>8, <2>9
  <1>5. CASE LoadRecord(t)
    <2>1. PICK r \in x.todo :
            tx' = IF OwnSeen(t, r) # None
                  THEN [tx EXCEPT ![t].pc = "loaded", ![t].todo = @ \ {r}, ![t].key = r,
                                  ![t].doc = Document(OwnSeen(t, r), TitleSeen(t))]
                  ELSE IF r = tx[t].key
                  THEN [tx EXCEPT ![t].pc = "loaded", ![t].todo = @ \ {r}]
                  ELSE [tx EXCEPT ![t].todo = @ \ {r}]
      BY <1>5 DEF LoadRecord
    <2>2. x.pc = "indexing" /\ OwnSeen(t, r) = SeenOf(x, own, r)
          /\ TitleSeen(t) = TitleOf(x, title)
      BY <1>5 DEF LoadRecord, OwnSeen, SeenOf, TitleSeen, TitleOf
    <2> DEFINE seen == SeenOf(x, own, r)
               doc == Document(seen, TitleOf(x, title))
               y == IF seen # None
                    THEN [x EXCEPT !.pc = "loaded", !.todo = x.todo \ {r}, !.key = r,
                                   !.doc = doc]
                    ELSE IF r = x.key
                    THEN [x EXCEPT !.pc = "loaded", !.todo = x.todo \ {r}]
                    ELSE [x EXCEPT !.todo = x.todo \ {r}]
    <2>3. tx' = [tx EXCEPT ![t] = y]
      BY <1>1, <2>1, <2>2
    <2> HIDE DEF doc, seen
    <2>4. /\ y.todo = x.todo \ {r} /\ y.title = x.title
          /\ y.own = x.own /\ y.docs = x.docs /\ y.skipped = x.skipped
      BY <1>1 DEF Transactions
    <2>5. \/ y.pc = "loaded" /\ y.key = r /\ (seen # None => y.doc = doc)
          \/ y.pc = "indexing" /\ seen = None
      BY <1>1, <2>2 DEF Transactions
    <2> HIDE DEF y, x
    <2>6. TxFits(y, own, title)
      BY <1>1, <2>2, <2>4, <2>5, LoadFits DEF seen, doc
    <2>7. QED BY <2>3, <2>6, OneFits DEF x
  <1>6. CASE StoreDocument(t)
    <2> DEFINE nothing == /\ x.doc = NoDocument
                          /\ docs[x.key] = NoDocument /\ x.docs[x.key] = Same
               stored == IF nothing THEN Same ELSE x.doc
               y == [x EXCEPT !.pc = "indexing", !.doc = NoDocument, !.key = None,
                              !.docs = [x.docs EXCEPT ![x.key] = stored],
                              !.skipped = x.skipped \ {x.key}]
    <2>1. tx' = [tx EXCEPT ![t] = y]
      <3>1. tx' = [tx EXCEPT ![t].pc = "indexing", ![t].doc = NoDocument, ![t].key = None,
                             ![t].docs[x.key] = stored,
                             ![t].skipped = tx[t].skipped \ {x.key}]
        BY <1>6 DEF StoreDocument
      <3> HIDE DEF stored
      <3>2. QED BY <1>1, <3>1
    <2>2. x.pc = "loaded" /\ (x.doc # NoDocument => stored = x.doc)
      BY <1>6 DEF StoreDocument
    <2>3. /\ y.pc = "indexing" /\ y.todo = x.todo /\ y.title = x.title /\ y.own = x.own
          /\ y.docs = [x.docs EXCEPT ![x.key] = stored]
          /\ y.skipped = x.skipped \ {x.key}
      BY <1>1 DEF Transactions
    <2> HIDE DEF y, stored, x
    <2>4. TxFits(y, own, title)
      BY <1>1, <1>2, <2>2, <2>3, StoreFits
    <2>5. QED BY <2>1, <2>4, OneFits DEF x
  <1>7. CASE HooksDone(t)
    <2>1. tx' = [tx EXCEPT ![t] = [x EXCEPT !.pc = "open", !.key = None]]
          /\ x.pc = "indexing" /\ x.todo = {}
      BY <1>1, <1>7 DEF HooksDone
    <2>2. TxFits([x EXCEPT !.pc = "open", !.key = None], own, title)
      BY <1>1, <2>1, DoneFits
    <2>3. QED BY <2>1, <2>2, OneFits
  <1>8. QED BY <1>3, <1>4, <1>5, <1>6, <1>7 DEF HookStep

LEMMA TxStep ==
    ASSUME Related => \A t, u \in Txs : t = u, TypeInv, TxInv, [Next]_vars
    PROVE  TxInv'
  <1>1. ASSUME NEW t \in Txs, Commit(t) PROVE TxInv'
    BY <1>1, CommitFits
  <1>2. CASE \A t \in Txs : ~Commit(t)
    <2>0. UNCHANGED <<own, title>>
      BY <1>2, CommittedKept
    <2>1. CASE UNCHANGED tx
      BY <2>0, <2>1 DEF TxInv
    <2>2. CASE Finish
      BY <2>0, <2>2, FinishFits
    <2>3. CASE Reject
      BY <2>0, <2>3, RejectFits
    <2>4. CASE Restart
      BY <2>0, <2>4, IdleFits DEF Restart, TxInv
    <2>5. ASSUME NEW t \in Txs, Write(t) PROVE TxInv'
      <3> DEFINE x == tx[t]
      <3>1. x \in Transactions /\ TxFits(x, own, title) /\ tx \in [Txs -> Transactions]
            /\ x.pc \in {"idle", "open"}
        BY <2>5 DEF TypeInv, TypeOK, TxInv, Write
      <3>2. PICK r \in Records, v \in Values \cup {None} :
              tx' = [tx EXCEPT ![t].pc = "hook", ![t].key = r, ![t].own[r] = v,
                               ![t].writes = @ + 1]
        BY <2>5 DEF Write
      <3> DEFINE y == [x EXCEPT !.pc = "hook", !.key = r, !.own[r] = v,
                                !.writes = x.writes + 1]
      <3>3. tx' = [tx EXCEPT ![t] = y]
        BY <3>1, <3>2
      <3>4. TxFits(y, own, title)
        BY <3>1, WriteFits
      <3> HIDE DEF y
      <3>5. QED BY <2>0, <3>3, <3>4, OneFits
    <2>6. ASSUME NEW t \in Txs, Retitle(t) PROVE TxInv'
      <3> DEFINE x == tx[t]
      <3>1. x \in Transactions /\ TxFits(x, own, title) /\ tx \in [Txs -> Transactions]
            /\ Related
        BY <2>6 DEF TypeInv, TypeOK, TxInv, Retitle
      <3>2. PICK v \in Values :
              tx' = [tx EXCEPT ![t].pc = "hook", ![t].key = None, ![t].title = v,
                               ![t].writes = @ + 1]
        BY <2>6 DEF Retitle
      <3> DEFINE y == [x EXCEPT !.pc = "hook", !.key = None, !.title = v,
                                !.writes = x.writes + 1]
      <3>3. tx' = [tx EXCEPT ![t] = y]
        BY <3>1, <3>2
      <3>4. TxFits(y, own, title)
        BY <3>1, RetitleFits
      <3> HIDE DEF y
      <3>5. QED BY <2>0, <3>3, <3>4, OneFits
    <2>7. ASSUME NEW t \in Txs, HookStep(t) PROVE TxInv'
      BY <2>0, <2>7, TxHookStep
    <2>8. ASSUME NEW t \in Txs, Rollback(t) PROVE TxInv'
      BY <2>0, <2>8, IdleFits, OneFits DEF Rollback
    <2>9. QED
      BY <1>2, <2>1, <2>2, <2>3, <2>4, <2>5, <2>6, <2>7, <2>8
      DEF Next, BuildStep, Search, Verified, BeginDelete, DeleteDocuments, ReadRecord,
          InsertDocument, BuildReady, NotVerified, BuildFails, Fail, SchemaChanges, vars
  <1>3. QED BY <1>1, <1>2

-----------------------------------------------------------------------------
LEMMA IndexCommit ==
    ASSUME IInv, NEW t \in Txs, Commit(t)
    PROVE  IndexInv'
  <1> DEFINE x == tx[t]
             written == {r \in Records : x.docs[r] # Same}
  <1>1. /\ x \in Transactions /\ TxFits(x, own, title) /\ x.pc = "open" /\ title \in Values
        /\ own \in [Records -> Values \cup {None}]
        /\ docs \in [Records -> Documents \cup {NoDocument}]
    BY DEF Commit, IInv, TypeInv, TypeOK, TxInv
  <1>2. /\ own' = [r \in Records |-> SeenOf(x, own, r)] /\ title' = TitleOf(x, title)
        /\ docs' = [r \in Records |-> IF r \in written THEN x.docs[r] ELSE docs[r]]
        /\ missed' = (missed \ written) \cup x.skipped
        /\ UNCHANGED <<status, build>>
    BY DEF Commit, OwnSeen, SeenOf, TitleSeen, TitleOf
  <1>3. SUFFICES ASSUME NEW r \in Records \ missed'
        PROVE  \/ Fresh(r)'
               \/ /\ r \notin missed /\ own'[r] = own[r] /\ docs'[r] = docs[r]
                  /\ title' = title
    BY <1>2 DEF IInv, IndexInv, Fresh
  <1>4. CASE ~Touched(x, r)
    <2>1. r \notin written
      BY <1>1, <1>4 DEF TxFits
    <2>2. QED BY <1>2, <1>3, <1>4, <2>1 DEF Touched, SeenOf, TitleOf
  <1>5. CASE SeenOf(x, own, r) = None
    BY <1>2, <1>5 DEF Fresh
  <1>6. CASE Touched(x, r) /\ SeenOf(x, own, r) # None
    <2>1. r \notin x.skipped /\ ~InHand(x, r)
      BY <1>1, <1>2, <1>3 DEF InHand
    <2>2. x.docs[r] = Document(SeenOf(x, own, r), TitleOf(x, title))
      BY <1>1, <1>6, <2>1 DEF TxFits, WrittenFits
    <2>3. r \in written
      BY <1>1, <1>6, <2>2, SeenOfType
    <2>4. QED BY <1>2, <2>2, <2>3 DEF Fresh
  <1>7. QED BY <1>4, <1>5, <1>6

LEMMA IndexKept ==
    ASSUME IInv, [Next]_vars, UNCHANGED <<own, title>>, \A t \in Txs : ~Commit(t)
    PROVE  IndexInv'
  <1> USE DEF IndexInv, Fresh
  <1>0. /\ IndexInv /\ ReadyInv /\ TypeOK /\ build \in Builds
        /\ own \in [Records -> Values \cup {None}] /\ title \in Values
        /\ docs \in [Records -> Documents \cup {NoDocument}]
    BY DEF IInv, TypeInv, TypeOK
  <1>1. CASE UNCHANGED vars
    BY <1>0, <1>1 DEF vars
  <1>2. CASE Search
    BY <1>0, <1>2 DEF Search, Build
  <1>3. CASE Verified \/ NotVerified
    BY <1>0, <1>3, Shapes DEF Verified, NotVerified, Finish, Reject
  <1>4. CASE BeginDelete
    BY <1>0, <1>4 DEF BeginDelete, Builds
  <1>5. CASE DeleteDocuments
    <2>1. build'.todo = Records /\ build'.pc = "reading" /\ status' # "ready"
      BY <1>0, <1>5 DEF DeleteDocuments, Builds, ReadyInv
    <2>2. QED BY <2>1
  <1>6. CASE ReadRecord
    <2>1. PICK r \in build.todo :
            /\ build' = IF own[r] = None THEN [build EXCEPT !.todo = @ \ {r}]
                        ELSE [build EXCEPT !.pc = "read", !.todo = @ \ {r}, !.key = r,
                                           !.doc = Document(own[r], title)]
            /\ missed' = missed \ {r}
      BY <1>6 DEF ReadRecord
    <2>2. /\ build.pc = "reading" /\ status # "ready"
          /\ UNCHANGED <<own, title, docs, status>>
      BY <1>0, <1>6 DEF ReadRecord, ReadyInv
    <2>3. /\ build'.todo = build.todo \ {r} /\ build'.pc \in {"reading", "read"}
          /\ own[r] # None => build'.pc = "read" /\ build'.key = r
                                /\ build'.doc = Document(own[r], title)
      BY <1>0, <2>1, <2>2 DEF Builds
    <2>4. ASSUME NEW s \in Records \ missed', s \notin build'.todo
          PROVE  \/ Fresh(s)'
                 \/ build'.pc = "read" /\ s = build'.key /\ build'.doc = Document(own[s], title)'
      <3>1. CASE s = r
        BY <2>2, <2>3, <3>1
      <3>2. CASE s # r
        <4>1. Fresh(s)
          BY <1>0, <2>1, <2>2, <2>3, <2>4, <3>2
        <4>2. QED BY <2>2, <4>1
      <3>3. QED BY <3>1, <3>2
    <2>5. QED BY <2>2, <2>4
  <1>7. CASE InsertDocument
    <2>1. build.pc = "read" /\ status # "ready" /\ UNCHANGED <<own, title, missed>>
      BY <1>0, <1>7 DEF InsertDocument, ReadyInv
    <2>2. CASE docs[build.key] = NoDocument
      <3>1. /\ docs' = [docs EXCEPT ![build.key] = build.doc] /\ status' = status
            /\ build'.pc = "reading" /\ build'.todo = build.todo
        BY <1>0, <1>7, <2>2 DEF InsertDocument, Builds
      <3>2. ASSUME NEW s \in Records \ missed, s \notin build.todo
            PROVE  Fresh(s)'
        <4>1. CASE s = build.key
          <5>1. docs'[s] = build.doc
            BY <1>0, <3>1, <4>1
          <5>2. own[s] = None \/ build.doc = Document(own[s], title)
            BY <1>0, <2>1, <2>2, <3>2, <4>1, NoDocumentIsNone
          <5>3. QED BY <2>1, <5>1, <5>2
        <4>2. CASE s # build.key
          BY <1>0, <2>1, <3>1, <3>2, <4>2
        <4>3. QED BY <4>1, <4>2
      <3>3. QED BY <2>1, <3>1, <3>2
    <2>3. CASE docs[build.key] # NoDocument
      BY <1>7, <2>1, <2>3, Shapes DEF InsertDocument, Fail, Reject
    <2>4. QED BY <2>2, <2>3
  <1>8. CASE BuildReady
    <2>1. build'.pc = "idle" /\ UNCHANGED <<own, docs, missed>>
      BY <1>8, Shapes DEF BuildReady, Finish
    <2>2. \A r \in Records \ missed : Fresh(r)
      BY <1>0, <1>8 DEF BuildReady
    <2>3. QED BY <2>1, <2>2
  <1>9. CASE BuildFails
    BY <1>0, <1>9, Shapes DEF BuildFails, Fail, Reject
  <1>10. CASE SchemaChanges
    <2>1. /\ build'.pc = build.pc /\ build'.todo = build.todo /\ build'.key = build.key
          /\ build'.doc = build.doc /\ (status' = "ready" => status = "ready")
          /\ UNCHANGED <<own, docs, missed>>
      BY <1>0, <1>10 DEF SchemaChanges, Builds
    <2>2. QED BY <1>0, <2>1
  <1>11. ASSUME NEW t \in Txs, Write(t) \/ Retitle(t) \/ HookStep(t) \/ Rollback(t)
         PROVE  IndexInv'
    <2>1. UNCHANGED <<own, docs, status, build, missed>>
      BY <1>11 DEF Write, Retitle, HookStep, SourceHook, CollectDependents, LoadRecord,
         StoreDocument, HooksDone, Rollback
    <2>2. QED BY <1>0, <2>1
  <1>12. ASSUME NEW t \in Txs, Commit(t) PROVE FALSE
    BY <1>12
  <1>13. CASE Restart
    BY <1>0, <1>13, Shapes DEF Restart
  <1>14. QED
    BY <1>1, <1>2, <1>3, <1>4, <1>5, <1>6, <1>7, <1>8, <1>9, <1>10, <1>11, <1>12, <1>13
    DEF Next, BuildStep

LEMMA IndexStep == ASSUME IInv, [Next]_vars PROVE IndexInv'
  <1>1. CASE \A t \in Txs : ~Commit(t)
    BY <1>1, CommittedKept, IndexKept
  <1>2. ASSUME NEW t \in Txs, Commit(t) PROVE IndexInv'
    BY <1>2, IndexCommit
  <1>3. QED BY <1>1, <1>2

(* A ready index has the document of every record that was not written by  *)
(* who found the index not in use, beside rebuilds, failures and restarts: *)
(* for any number of transactions when records refer to no related record, *)
(* and for one at a time when they do (upsertSourceModel,                  *)
(* removeSourceModel, collectDependentSourceRecords, synchronize).         *)
THEOREM IndexAlwaysUpToDate ==
    ASSUME Related => \A t, u \in Txs : t = u
    PROVE  Spec => []IndexUpToDate
  <1>1. Init => IInv
    <2>1. ASSUME Init PROVE TypeInv /\ ReadyInv
      BY <2>1, Shapes DEF Init, TypeInv, TypeOK, WaitersInv, ReadyInv
    <2>2. ASSUME Init PROVE TxInv
      BY <2>2, IdleFits DEF Init, TxInv
    <2>3. ASSUME Init PROVE IndexInv
      BY <2>3, Shapes DEF Init, IndexInv
    <2>4. QED BY <2>1, <2>2, <2>3 DEF IInv
  <1>2. IInv /\ [Next]_vars => IInv'
    BY TypeStep, ReadyStep, TxStep, IndexStep DEF IInv, TypeInv
  <1>3. IInv => IndexUpToDate
    BY DEF IInv, IndexInv, Fresh, IndexUpToDate
  <1>4. QED BY <1>1, <1>2, <1>3, PTL DEF Spec

-----------------------------------------------------------------------------
(* Who waits for the rebuild and holds the document of a record, for which *)
(* the rebuild may be waiting, has written more than one row: the hook of  *)
(* the first row waits before it writes a document.                        *)
WaitsFirst(x) ==
    x.pc = "waiting" /\ (\E r \in Records : x.docs[r] # Same) => x.writes > 1

WaitersWaitFirst == \A t \in Txs : WaitsFirst(tx[t])

(* The writes and the documents of a transaction until its first hook is   *)
(* through.                                                                *)
FirstHook(x) ==
    /\ x.writes = 0 <=> x.pc = "idle"
    /\ x.pc \in {"idle", "hook", "waiting"} /\ x.writes <= 1 =>
          \A r \in Records : x.docs[r] = Same

FirstHookInv == \A t \in Txs : FirstHook(tx[t])

LEMMA IdleFirst == FirstHook(Idle)
  BY DEF FirstHook, Idle, Transaction

(* The steps of a hook leave it behind, or wait. *)
LEMMA HookFirst ==
    ASSUME NEW x \in Transactions, FirstHook(x), x.pc # "idle", NEW y,
           y.writes = x.writes, y.docs = x.docs,
           \/ y.pc \in {"indexing", "loaded", "open"}
           \/ y.pc \in {"hook", "waiting"} /\ x.pc \in {"hook", "waiting"}
    PROVE  FirstHook(y)
  BY DEF FirstHook, Transactions

LEMMA CheckedFirst ==
    ASSUME NEW x \in Transactions, FirstHook(x), x.pc # "idle", NEW inUse
    PROVE  FirstHook(Checked(x, inUse))
  <1>1. /\ Checked(x, inUse).writes = x.writes /\ Checked(x, inUse).docs = x.docs
        /\ Checked(x, inUse).pc \in {"indexing", "open"}
    BY DEF Checked, Transactions
  <1>2. QED BY <1>1, HookFirst

LEMMA WriteFirst ==
    ASSUME NEW x \in Transactions, FirstHook(x), x.pc \in {"idle", "open"},
           NEW y, y.pc = "hook", y.writes = x.writes + 1, y.docs = x.docs
    PROVE  FirstHook(y)
  <1>1. x.writes \in Nat
    BY MaxWritesAssumption DEF Transactions
  <1>2. CASE x.pc = "idle"
    BY <1>1, <1>2 DEF FirstHook
  <1>3. CASE x.pc = "open"
    BY <1>1, <1>3 DEF FirstHook
  <1>4. QED BY <1>2, <1>3

LEMMA OneFirst ==
    ASSUME TypeOK, FirstHookInv, NEW t \in Txs, NEW y, tx' = [tx EXCEPT ![t] = y],
           FirstHook(y)
    PROVE  FirstHookInv'
  BY DEF FirstHookInv, TypeOK

LEMMA FirstHookStep == ASSUME TypeOK, FirstHookInv, [Next]_vars PROVE FirstHookInv'
  <1>0. \A t \in Txs : tx[t] \in Transactions /\ FirstHook(tx[t])
    BY DEF TypeOK, FirstHookInv
  <1>1. CASE UNCHANGED tx
    BY <1>1 DEF FirstHookInv
  <1>2. CASE Finish
    <2>1. ASSUME NEW t \in Txs PROVE FirstHook(tx'[t])
      <3>1. CASE tx[t].pc = "waiting"
        BY <1>0, <1>2, <3>1, CheckedFirst DEF Finish
      <3>2. CASE tx[t].pc # "waiting"
        BY <1>0, <1>2, <3>2 DEF Finish
      <3>3. QED BY <3>1, <3>2
    <2>2. QED BY <2>1 DEF FirstHookInv
  <1>3. CASE Reject
    BY <1>0, <1>3, IdleFirst DEF Reject, FirstHookInv
  <1>4. CASE Restart
    BY <1>4, IdleFirst DEF Restart, FirstHookInv
  <1>5. ASSUME NEW t \in Txs, Write(t) PROVE FirstHookInv'
    <2>1. PICK r \in Records, v \in Values \cup {None} :
            tx' = [tx EXCEPT ![t].pc = "hook", ![t].key = r, ![t].own[r] = v,
                             ![t].writes = @ + 1]
      BY <1>5 DEF Write
    <2> DEFINE y == [tx[t] EXCEPT !.pc = "hook", !.key = r, !.own[r] = v,
                                  !.writes = tx[t].writes + 1]
    <2>2. tx' = [tx EXCEPT ![t] = y]
      BY <2>1 DEF TypeOK
    <2>3. /\ y.pc = "hook" /\ y.writes = tx[t].writes + 1 /\ y.docs = tx[t].docs
          /\ tx[t].pc \in {"idle", "open"}
      BY <1>0, <1>5 DEF Transactions, Write
    <2> HIDE DEF y
    <2>4. QED BY <1>0, <2>2, <2>3, WriteFirst, OneFirst
  <1>6. ASSUME NEW t \in Txs, Retitle(t) PROVE FirstHookInv'
    <2>1. PICK v \in Values :
            tx' = [tx EXCEPT ![t].pc = "hook", ![t].key = None, ![t].title = v,
                             ![t].writes = @ + 1]
      BY <1>6 DEF Retitle
    <2> DEFINE y == [tx[t] EXCEPT !.pc = "hook", !.key = None, !.title = v,
                                  !.writes = tx[t].writes + 1]
    <2>2. tx' = [tx EXCEPT ![t] = y]
      BY <2>1 DEF TypeOK
    <2>3. /\ y.pc = "hook" /\ y.writes = tx[t].writes + 1 /\ y.docs = tx[t].docs
          /\ tx[t].pc \in {"idle", "open"}
      BY <1>0, <1>6 DEF Transactions, Retitle
    <2> HIDE DEF y
    <2>4. QED BY <1>0, <2>2, <2>3, WriteFirst, OneFirst
  <1>7. ASSUME NEW t \in Txs, SourceHook(t) PROVE FirstHookInv'
    <2> DEFINE w == [tx[t] EXCEPT !.pc = "waiting"]
    <2>1. tx' = [tx EXCEPT ![t] = IF build.pc = "idle" THEN Checked(tx[t], enabled) ELSE w]
          /\ tx[t].pc = "hook"
      BY <1>7 DEF SourceHook
    <2>2. w.pc = "waiting" /\ w.writes = tx[t].writes /\ w.docs = tx[t].docs
      BY <1>0 DEF Transactions
    <2> HIDE DEF w
    <2>3. FirstHook(w) /\ FirstHook(Checked(tx[t], enabled))
      BY <1>0, <2>1, <2>2, HookFirst, CheckedFirst
    <2>4. QED BY <2>1, <2>3, OneFirst
  <1>8. ASSUME NEW t \in Txs, CollectDependents(t) PROVE FirstHookInv'
    <2> DEFINE found == {r \in Records : OwnSeen(t, r) # None}
               taken == [tx[t] EXCEPT !.pc = "indexing", !.todo = found]
               skip == [tx[t] EXCEPT !.pc = "open", !.skipped = tx[t].skipped \cup found]
    <2>1. tx' = [tx EXCEPT ![t] = IF registered THEN taken ELSE skip] /\ tx[t].pc = "hook"
      BY <1>8 DEF CollectDependents, TypeOK
    <2>2. /\ taken.writes = tx[t].writes /\ taken.docs = tx[t].docs /\ taken.pc = "indexing"
          /\ skip.writes = tx[t].writes /\ skip.docs = tx[t].docs /\ skip.pc = "open"
      BY <1>0 DEF Transactions
    <2> HIDE DEF taken, skip
    <2>3. FirstHook(taken) /\ FirstHook(skip)
      BY <1>0, <2>1, <2>2, HookFirst
    <2>4. QED BY <2>1, <2>3, OneFirst
  <1>9. ASSUME NEW t \in Txs, LoadRecord(t) \/ StoreDocument(t) \/ HooksDone(t)
        PROVE  FirstHookInv'
    <2>1. tx[t].pc \in {"indexing", "loaded"}
      BY <1>9 DEF LoadRecord, StoreDocument, HooksDone
    <2>2. /\ tx'[t].writes = tx[t].writes /\ tx'[t].pc \in {"indexing", "loaded", "open"}
          /\ \A u \in Txs \ {t} : tx'[u] = tx[u]
      <3>1. CASE LoadRecord(t)
        BY <1>0, <2>1, <3>1 DEF LoadRecord, TypeOK, Transactions
      <3>2. CASE StoreDocument(t)
        <4>1. PICK stored :
                tx' = [tx EXCEPT ![t].pc = "indexing", ![t].doc = NoDocument, ![t].key = None,
                                 ![t].docs[tx[t].key] = stored,
                                 ![t].skipped = @ \ {tx[t].key}]
          BY <3>2 DEF StoreDocument
        <4>2. QED BY <1>0, <4>1 DEF TypeOK, Transactions
      <3>3. CASE HooksDone(t)
        BY <1>0, <3>3 DEF HooksDone, TypeOK, Transactions
      <3>4. QED BY <1>9, <3>1, <3>2, <3>3
    <2>3. FirstHook(tx'[t])
      BY <1>0, <2>1, <2>2 DEF FirstHook
    <2>4. QED BY <1>0, <2>2, <2>3 DEF FirstHookInv
  <1>10. ASSUME NEW t \in Txs, Commit(t) \/ Rollback(t) PROVE FirstHookInv'
    BY <1>10, IdleFirst, OneFirst DEF Commit, Rollback
  <1>11. QED
    BY <1>1, <1>2, <1>3, <1>4, <1>5, <1>6, <1>7, <1>8, <1>9, <1>10
    DEF Next, BuildStep, HookStep, Search, Verified, BeginDelete, DeleteDocuments,
        ReadRecord, InsertDocument, BuildReady, NotVerified, BuildFails, Fail,
        SchemaChanges, vars

(* For any number of transactions, and with related records: a rebuild and *)
(* a write can wait for each other, as in the run build_waits_for_writer,  *)
(* only when the transaction has written more than one row; who writes one *)
(* row waits before it locks a document (upsertSourceModel, the safety     *)
(* part of EveryBuildEnds).                                                *)
THEOREM OnlySecondWritesBlock == Spec => []WaitersWaitFirst
  <1>1. Init => FirstHookInv
    BY IdleFirst DEF Init, FirstHookInv
  <1>2. TypeOK /\ FirstHookInv /\ [Next]_vars => FirstHookInv'
    BY FirstHookStep
  <1>3. TypeOK /\ FirstHookInv => WaitersWaitFirst
    <2> SUFFICES ASSUME TypeOK, FirstHookInv, NEW t \in Txs,
                        tx[t].pc = "waiting", NEW r \in Records, tx[t].docs[r] # Same
                 PROVE  tx[t].writes > 1
      BY DEF WaitersWaitFirst, WaitsFirst
    <2>1. tx[t].writes \in Nat
      BY MaxWritesAssumption DEF TypeOK, Transactions
    <2>2. FirstHook(tx[t])
      BY DEF FirstHookInv
    <2>3. QED BY <2>1, <2>2 DEF FirstHook
  <1>4. QED BY <1>1, <1>2, <1>3, TypeCorrect, PTL DEF Spec
=============================================================================
