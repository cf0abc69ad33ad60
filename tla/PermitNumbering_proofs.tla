------------------------ MODULE PermitNumbering_proofs ------------------------
(***************************************************************************)
(* Proofs about PermitNumbering, for any sets of documents and requests.   *)
(***************************************************************************)
EXTENDS PermitNumbering, WellFoundedInduction, TLAPS

(***************************************************************************)
(* The inductive invariant.  The three properties of the rows are only     *)
(* kept because of what the transactions under the lock know (the last     *)
(* conjuncts), and that knowledge is only stable because at most one       *)
(* transaction at a time may be past the lock (LockHolder).                *)
(***************************************************************************)
LockHolder ==
    \A t \in Txs :
        \/ tx[t].pc \in {"locked", "assigned"}
        \/ tx[t].pc = "checked" /\ tx[t].cat = "voluntary"
        => lock = t

(* A create in progress owns its identifier. *)
OwnsId(t) ==
    tx[t].op = "create" =>
        /\ \A d \in tx[t].docs : d \notin live
        /\ \A d, e \in tx[t].docs : d = e
        /\ \A u \in Txs : u # t => tx[t].docs \cap tx[u].docs = {}

Shape(t) ==
    /\ tx[t].pc = "assigned" => tx[t].op = "create" /\ tx[t].rel \notin tx[t].docs
    /\ tx[t].pc = "checked" => tx[t].op = "edit"
    /\ tx[t].pc = "loaded" => tx[t].op = "edit" /\ tx[t].cat # "voluntary"
    /\ tx[t].cat = "voluntary" => tx[t].rel = NoDoc

RowsInv == PairsMutual /\ NumberSharedOnlyByPair /\ VoluntaryUnpaired

TxInv ==
    /\ \A t \in Txs : OwnsId(t) /\ Shape(t)
    /\ LockHolder
    /\ AssignmentStillHolds
    /\ VoluntarySaveStillAllowed

IInv == TypeOK /\ RowsInv /\ TxInv

-----------------------------------------------------------------------------
(* The initial state satisfies the inductive invariant: there is no row and *)
(* no transaction.                                                         *)
LEMMA InitIInv == Init => IInv
  <1> SUFFICES ASSUME Init PROVE IInv
    OBVIOUS
  <1>1. TypeOK
    BY DEF Init, TypeOK, Transaction, Request, Idle, Categories
  <1>2. RowsInv
    BY DEF Init, RowsInv, PairsMutual, NumberSharedOnlyByPair, VoluntaryUnpaired
  <1>3. TxInv
    BY DEF Init, TxInv, OwnsId, Shape, LockHolder, AssignmentStillHolds,
           VoluntarySaveStillAllowed, Request, Idle
  <1>4. QED
    BY <1>1, <1>2, <1>3 DEF IInv

(* Every step keeps the types. *)
LEMMA TypeStep == TypeOK /\ [Next]_vars => TypeOK'
  <1> SUFFICES ASSUME TypeOK, [Next]_vars PROVE TypeOK'
    OBVIOUS
  <1> USE NoDocAssumption DEF TypeOK, Transaction, Request, Categories
  <1>1. CASE UNCHANGED vars
    BY <1>1 DEF vars
  <1>2. ASSUME NEW t \in Txs, BeginCreate(t) PROVE TypeOK'
    BY <1>2 DEF BeginCreate, Idle, rows
  <1>3. ASSUME NEW t \in Txs, BeginEdit(t) PROVE TypeOK'
    BY <1>3 DEF BeginEdit, rows
  <1>4. ASSUME NEW t \in Txs, BeginDelete(t) PROVE TypeOK'
    BY <1>4 DEF BeginDelete, Idle, rows
  <1>5. ASSUME NEW t \in Txs, AcquireLock(t) PROVE TypeOK'
    BY <1>5 DEF AcquireLock, rows
  <1>6. ASSUME NEW t \in Txs, AssignNumber(t) PROVE TypeOK'
    <2>1. Candidates(UsedNumbers) \subseteq Nat
      BY DEF Candidates, UsedNumbers
    <2>2. \A r \in Docs : number[r] \in Nat
      OBVIOUS
    <2>3. tx[t].rel # NoDoc => tx[t].rel \in Docs
      OBVIOUS
    <2>4. \E n \in Nat : tx' = [tx EXCEPT ![t].pc = "assigned", ![t].num = n]
      BY <2>1, <2>2, <2>3, <1>6 DEF AssignNumber
    <2>5. PICK n \in Nat : tx' = [tx EXCEPT ![t].pc = "assigned", ![t].num = n]
      BY <2>4
    <2>6. tx' = [tx EXCEPT ![t] = [tx[t] EXCEPT !.pc = "assigned", !.num = n]]
      BY <2>5
    <2>7. [tx[t] EXCEPT !.pc = "assigned", !.num = n] \in Transaction
      OBVIOUS
    <2>8. tx' \in [Txs -> Transaction]
      BY <2>6, <2>7
    <2>9. UNCHANGED <<live, number, related, category, lock>>
      BY <1>6 DEF AssignNumber, rows
    <2>10. QED
      BY <2>8, <2>9
  <1>7. ASSUME NEW t \in Txs, CommitCreate(t) PROVE TypeOK'
    BY <1>7 DEF CommitCreate, Release, Idle
  <1>8. ASSUME NEW t \in Txs, CheckEdit(t) PROVE TypeOK'
    BY <1>8 DEF CheckEdit, rows
  <1>9. ASSUME NEW t \in Txs, CommitEdit(t) PROVE TypeOK'
    BY <1>9 DEF CommitEdit, Release, Idle
  <1>10. ASSUME NEW t \in Txs, CommitDelete(t) PROVE TypeOK'
    BY <1>10 DEF CommitDelete, Release, Idle
  <1>11. ASSUME NEW t \in Txs, Rollback(t) PROVE TypeOK'
    BY <1>11 DEF Rollback, Release, Idle, rows
  <1>12. QED
    BY <1>1, <1>2, <1>3, <1>4, <1>5, <1>6, <1>7, <1>8, <1>9, <1>10, <1>11 DEF Next

(* The internal numbers, links and categories always have their types, for *)
(* any number of documents and requests.                                   *)
THEOREM TypeCorrect == Spec => []TypeOK
  <1>1. Init => TypeOK
    BY InitIInv DEF IInv
  <1>2. QED
    BY <1>1, TypeStep, PTL DEF Spec

-----------------------------------------------------------------------------
(* The actions that write no row keep what is said of the rows. *)
LEMMA RowsStutter == RowsInv /\ UNCHANGED rows => RowsInv'
  BY DEF RowsInv, PairsMutual, NumberSharedOnlyByPair, VoluntaryUnpaired, rows

(* A commit of a create keeps the rows right: the number is free, or it is *)
(* the number of the one document the new one is linked with.              *)
LEMMA CreateRows ==
  ASSUME IInv, NEW t \in Txs, CommitCreate(t)
  PROVE  RowsInv'
  <1> DEFINE r == tx[t].rel
             n == tx[t].num
  <1> USE NoDocAssumption DEF IInv, TypeOK
  <1>0. /\ tx[t].docs \in SUBSET Docs /\ r \in Docs \cup {NoDoc} /\ n \in Nat
        /\ tx[t].cat \in Categories
    BY DEF Transaction
  <1>1. PICK d \in tx[t].docs :
          /\ live' = live \cup {d}
          /\ number' = [number EXCEPT ![d] = n]
          /\ category' = [category EXCEPT ![d] = tx[t].cat]
          /\ related' = [x \in Docs |-> IF x = d THEN r
                                        ELSE IF x = r THEN d ELSE related[x]]
    BY DEF CommitCreate
  <1>2. d \in Docs /\ d \notin live /\ d # r
    BY <1>0 DEF CommitCreate, TxInv, OwnsId, Shape
  <1>3. r # NoDoc => r \in live /\ related[r] = NoDoc /\ category[r] # "voluntary"
                     /\ number[r] = n
    BY DEF CommitCreate, TxInv, AssignmentStillHolds
  <1>4. r = NoDoc => \A e \in live : number[e] # n
    BY DEF CommitCreate, TxInv, AssignmentStillHolds, IsNextFree, Candidates, UsedNumbers
  <1>5. tx[t].cat = "voluntary" => r = NoDoc
    BY DEF TxInv, Shape
  <1>6. \A e \in live : related[e] # d
    BY <1>2 DEF RowsInv, PairsMutual
  <1>7. r # NoDoc => \A e \in live : number[e] = n => e = r
    BY <1>3 DEF RowsInv, NumberSharedOnlyByPair
  <1>a. \A x \in Docs : related'[x] = IF x = d THEN r
                                      ELSE IF x = r THEN d ELSE related[x]
    BY <1>1
  <1>b. \A x \in Docs : number'[x] = IF x = d THEN n ELSE number[x]
    BY <1>1
  <1>8. PairsMutual'
    <2> SUFFICES ASSUME NEW x \in live', related'[x] # NoDoc
                 PROVE  /\ related'[x] \in live' /\ related'[x] # x
                        /\ related'[related'[x]] = x
                        /\ number'[related'[x]] = number'[x]
      BY DEF PairsMutual
    <2>1. CASE x = d
      BY <2>1, <1>0, <1>1, <1>2, <1>3, <1>a, <1>b
    <2>2. CASE x # d /\ x = r
      BY <2>2, <1>0, <1>1, <1>2, <1>3, <1>a, <1>b
    <2>3. CASE x # d /\ x # r
      <3>1. x \in live /\ related'[x] = related[x] /\ number'[x] = number[x]
        BY <2>3, <1>1, <1>a, <1>b
      <3>2. /\ related[x] \in live /\ related[x] # x /\ related[related[x]] = x
            /\ number[related[x]] = number[x]
        BY <3>1 DEF RowsInv, PairsMutual
      <3>3. related[x] # d /\ related[x] # r
        BY <3>1, <3>2, <1>2, <1>3
      <3>4. QED
        BY <3>1, <3>2, <3>3, <1>1, <1>a, <1>b
    <2>4. QED
      BY <2>1, <2>2, <2>3
  <1>9. NumberSharedOnlyByPair'
    <2> SUFFICES ASSUME NEW x \in live', NEW y \in live', x # y, number'[x] = number'[y]
                 PROVE  related'[x] = y /\ related'[y] = x
      BY DEF NumberSharedOnlyByPair
    <2>1. CASE x # d /\ y # d
      <3>1. x \in live /\ y \in live /\ number[x] = number[y]
        BY <2>1, <1>1, <1>b
      <3>2. related[x] = y /\ related[y] = x
        BY <3>1 DEF RowsInv, NumberSharedOnlyByPair
      <3>3. x # r /\ y # r
        BY <3>1, <3>2, <1>3
      <3>4. QED
        BY <2>1, <3>1, <3>2, <3>3, <1>a
    <2>2. CASE x = d
      <3>1. y \in live /\ number[y] = n
        BY <2>2, <1>1, <1>2, <1>b
      <3>2. y = r
        BY <3>1, <1>4, <1>7
      <3>3. QED
        BY <2>2, <3>1, <3>2, <1>2, <1>a
    <2>3. CASE y = d
      <3>1. x \in live /\ number[x] = n
        BY <2>3, <1>1, <1>2, <1>b
      <3>2. x = r
        BY <3>1, <1>4, <1>7
      <3>3. QED
        BY <2>3, <3>1, <3>2, <1>2, <1>a
    <2>4. QED
      BY <2>1, <2>2, <2>3
  <1>10. VoluntaryUnpaired'
    BY <1>0, <1>1, <1>2, <1>3, <1>5, <1>a DEF RowsInv, VoluntaryUnpaired
  <1>11. QED
    BY <1>8, <1>9, <1>10 DEF RowsInv

(* A save keeps the rows right: it changes categories only. *)
LEMMA EditRows ==
  ASSUME IInv, NEW t \in Txs, CommitEdit(t)
  PROVE  RowsInv'
  BY DEF IInv, RowsInv, CommitEdit, PairsMutual, NumberSharedOnlyByPair, VoluntaryUnpaired

(* A delete keeps the rows right: the partners left behind are unpaired. *)
LEMMA DeleteRows ==
  ASSUME IInv, NEW t \in Txs, CommitDelete(t)
  PROVE  RowsInv'
  <1> DEFINE S == tx[t].docs
  <1> USE NoDocAssumption DEF IInv, TypeOK
  <1>1. /\ live' = live \ S
        /\ \A x \in live' : /\ number'[x] = number[x]
                            /\ category'[x] = category[x]
                            /\ related'[x] = IF related[x] \in S THEN NoDoc
                                             ELSE related[x]
    BY DEF CommitDelete
  <1>2. PairsMutual'
    <2> SUFFICES ASSUME NEW x \in live', related'[x] # NoDoc
                 PROVE  /\ related'[x] \in live' /\ related'[x] # x
                        /\ related'[related'[x]] = x
                        /\ number'[related'[x]] = number'[x]
      BY DEF PairsMutual
    <2>1. x \in live /\ x \notin S /\ related'[x] = related[x] /\ related[x] \notin S
      BY <1>1
    <2>2. /\ related[x] \in live /\ related[x] # x /\ related[related[x]] = x
          /\ number[related[x]] = number[x]
      BY <2>1 DEF RowsInv, PairsMutual
    <2>3. QED
      BY <2>1, <2>2, <1>1
  <1>3. NumberSharedOnlyByPair'
    BY <1>1 DEF RowsInv, NumberSharedOnlyByPair
  <1>4. VoluntaryUnpaired'
    BY <1>1 DEF RowsInv, VoluntaryUnpaired
  <1>5. QED
    BY <1>2, <1>3, <1>4 DEF RowsInv

-----------------------------------------------------------------------------
(* A transaction that ends, leaving the rows of the others' assignments and *)
(* checks as they are, keeps what is said of the transactions.             *)
LEMMA ReleaseTx ==
  ASSUME IInv, NEW t \in Txs, Release(t), live' \subseteq live \cup tx[t].docs,
         tx[t].op = "create" \/ live' \subseteq live,
         AssignmentStillHolds', VoluntarySaveStillAllowed'
  PROVE  TxInv'
  <1> USE NoTxAssumption DEF IInv, TypeOK, TxInv
  <1>1. tx'[t] = Idle /\ \A u \in Txs : u # t => tx'[u] = tx[u]
    BY DEF Release
  <1>2. \A u \in Txs : Shape(u)'
    BY <1>1 DEF Shape, Idle, Request
  <1>3. \A u \in Txs : OwnsId(u)'
    BY <1>1 DEF OwnsId, Idle, Request
  <1>4. LockHolder'
    BY <1>1 DEF LockHolder, Release, Idle, Request
  <1>5. QED
    BY <1>2, <1>3, <1>4

(* While one transaction is past the lock no other one is. *)
LEMMA OnlyHolder ==
  ASSUME IInv, NEW t \in Txs, NEW u \in Txs, u # t,
         \/ tx[t].pc \in {"locked", "assigned"}
         \/ tx[t].pc = "checked" /\ tx[t].cat = "voluntary"
  PROVE  /\ tx[u].pc \notin {"locked", "assigned"}
         /\ ~(tx[u].pc = "checked" /\ tx[u].cat = "voluntary")
  BY DEF IInv, TxInv, LockHolder

LEMMA BeginTx ==
  ASSUME IInv, NEW t \in Txs, BeginCreate(t) \/ BeginEdit(t) \/ BeginDelete(t)
  PROVE  TxInv'
  <1> USE DEF IInv, TypeOK, TxInv
  <1>1. /\ \A u \in Txs : u # t => tx'[u] = tx[u]
        /\ tx[t].pc = "idle" /\ UNCHANGED <<live, number, related, category, lock>>
    BY DEF BeginCreate, BeginEdit, BeginDelete, rows
  <1>2. /\ tx'[t].pc \in {"waiting", "loaded"}
        /\ tx'[t].pc = "loaded" => tx'[t].op = "edit" /\ tx'[t].cat # "voluntary"
        /\ tx'[t].cat = "voluntary" => tx'[t].rel = NoDoc
    BY DEF BeginCreate, BeginEdit, BeginDelete, Request
  <1>3. \/ /\ tx'[t].op = "create"
           /\ \E d \in Docs : Fresh(d) /\ tx'[t].docs = {d}
        \/ tx'[t].op # "create" /\ tx'[t].docs \subseteq live
    BY DEF BeginCreate, BeginEdit, BeginDelete, Request
  <1>4. \A u \in Txs : Shape(u)'
    BY <1>1, <1>2 DEF Shape
  <1>5. \A u \in Txs : OwnsId(u)'
    BY <1>1, <1>3 DEF OwnsId, Fresh
  <1>6. LockHolder'
    BY <1>1, <1>2 DEF LockHolder
  <1>7. AssignmentStillHolds'
    <2>1. UsedNumbers' = UsedNumbers
      BY <1>1 DEF UsedNumbers
    <2>2. QED
      BY <2>1, <1>1, <1>2 DEF AssignmentStillHolds
  <1>8. VoluntarySaveStillAllowed'
    BY <1>1, <1>2 DEF VoluntarySaveStillAllowed
  <1>9. QED
    BY <1>4, <1>5, <1>6, <1>7, <1>8

LEMMA AcquireTx ==
  ASSUME IInv, NEW t \in Txs, AcquireLock(t)
  PROVE  TxInv'
  <1> USE NoTxAssumption DEF IInv, TypeOK, TxInv
  <1>1. /\ \A u \in Txs : u # t => tx'[u] = tx[u]
        /\ tx'[t] = [tx[t] EXCEPT !.pc = "locked"]
        /\ UNCHANGED <<live, number, related, category>>
        /\ lock = NoTx /\ lock' = t
    BY DEF AcquireLock, rows
  <1>2. /\ tx'[t].pc = "locked" /\ tx'[t].op = tx[t].op /\ tx'[t].docs = tx[t].docs
        /\ tx'[t].rel = tx[t].rel /\ tx'[t].cat = tx[t].cat
    BY <1>1 DEF Transaction
  <1>3. \A u \in Txs : Shape(u)'
    BY <1>1, <1>2 DEF Shape
  <1>4. \A u \in Txs : OwnsId(u)'
    BY <1>1, <1>2 DEF OwnsId
  <1>5. LockHolder'
    BY <1>1, <1>2 DEF LockHolder
  <1>6. AssignmentStillHolds'
    <2>1. UsedNumbers' = UsedNumbers
      BY <1>1 DEF UsedNumbers
    <2>2. QED
      BY <2>1, <1>1, <1>2 DEF AssignmentStillHolds
  <1>7. VoluntarySaveStillAllowed'
    BY <1>1, <1>2 DEF VoluntarySaveStillAllowed
  <1>8. QED
    BY <1>3, <1>4, <1>5, <1>6, <1>7

LEMMA AssignTx ==
  ASSUME IInv, NEW t \in Txs, AssignNumber(t)
  PROVE  TxInv'
  <1> USE DEF IInv, TypeOK, TxInv
  <1>1. /\ \A u \in Txs : u # t => tx'[u] = tx[u]
        /\ tx[t].pc = "locked" /\ tx[t].op = "create"
        /\ UNCHANGED <<live, number, related, category, lock>>
    BY DEF AssignNumber, rows
  <1>2. /\ tx'[t].pc = "assigned" /\ tx'[t].op = tx[t].op /\ tx'[t].docs = tx[t].docs
        /\ tx'[t].rel = tx[t].rel /\ tx'[t].cat = tx[t].cat
    BY DEF AssignNumber, Transaction
  <1>3. \/ tx[t].rel = NoDoc /\ IsNextFree(tx'[t].num, UsedNumbers)
        \/ tx[t].rel # NoDoc /\ CanPair(t) /\ tx'[t].num = number[tx[t].rel]
    BY DEF AssignNumber, Transaction
  <1>4. tx[t].rel \notin tx[t].docs
    BY <1>3, NoDocAssumption DEF CanPair, Transaction
  <1>5. \A u \in Txs : Shape(u)'
    BY <1>1, <1>2, <1>4 DEF Shape
  <1>6. \A u \in Txs : OwnsId(u)'
    BY <1>1, <1>2 DEF OwnsId
  <1>7. LockHolder'
    BY <1>1, <1>2 DEF LockHolder
  <1>8. AssignmentStillHolds'
    <2>1. UsedNumbers' = UsedNumbers
      BY <1>1 DEF UsedNumbers
    <2>2. \A u \in Txs : u # t => tx[u].pc # "assigned"
      BY <1>1, OnlyHolder
    <2>3. CASE tx[t].rel = NoDoc
      BY <2>1, <2>2, <2>3, <1>1, <1>2, <1>3 DEF AssignmentStillHolds
    <2>4. CASE tx[t].rel # NoDoc
      BY <2>2, <2>4, <1>1, <1>2, <1>3 DEF AssignmentStillHolds, CanPair
    <2>5. QED
      BY <2>3, <2>4
  <1>9. VoluntarySaveStillAllowed'
    BY <1>1, <1>2 DEF VoluntarySaveStillAllowed
  <1>10. QED
    BY <1>5, <1>6, <1>7, <1>8, <1>9

LEMMA CheckTx ==
  ASSUME IInv, NEW t \in Txs, CheckEdit(t)
  PROVE  TxInv'
  <1> USE DEF IInv, TypeOK, TxInv
  <1>1. /\ \A u \in Txs : u # t => tx'[u] = tx[u]
        /\ tx[t].pc \in {"loaded", "locked"} /\ tx[t].op = "edit"
        /\ UNCHANGED <<live, number, related, category, lock>>
    BY DEF CheckEdit, rows
  <1>2. /\ tx'[t].pc = "checked" /\ tx'[t].op = tx[t].op /\ tx'[t].docs = tx[t].docs
        /\ tx'[t].rel = tx[t].rel /\ tx'[t].cat = tx[t].cat
    BY DEF CheckEdit, Transaction
  <1>3. \A d \in tx[t].docs \cap live : tx[t].rel = related[d]
    BY DEF CheckEdit
  <1>4. \A u \in Txs : Shape(u)'
    BY <1>1, <1>2 DEF Shape
  <1>5. \A u \in Txs : OwnsId(u)'
    BY <1>1, <1>2 DEF OwnsId
  <1>6. LockHolder'
    BY <1>1, <1>2 DEF LockHolder, Shape
  <1>7. AssignmentStillHolds'
    <2>1. UsedNumbers' = UsedNumbers
      BY <1>1 DEF UsedNumbers
    <2>2. QED
      BY <2>1, <1>1, <1>2 DEF AssignmentStillHolds
  <1>8. VoluntarySaveStillAllowed'
    BY <1>1, <1>2, <1>3 DEF VoluntarySaveStillAllowed, Shape
  <1>9. QED
    BY <1>4, <1>5, <1>6, <1>7, <1>8

LEMMA CommitCreateTx ==
  ASSUME IInv, NEW t \in Txs, CommitCreate(t)
  PROVE  TxInv'
  <1>1. tx[t].pc = "assigned" /\ tx[t].op = "create" /\ Release(t)
    BY DEF CommitCreate, IInv, TxInv, Shape
  <1>2. \A u \in Txs : u # t => /\ tx[u].pc # "assigned"
                               /\ ~(tx[u].pc = "checked" /\ tx[u].cat = "voluntary")
    BY <1>1, OnlyHolder
  <1>3. tx'[t].pc = "idle" /\ \A u \in Txs : u # t => tx'[u] = tx[u]
    BY <1>1 DEF Release, IInv, TypeOK, Idle, Request
  <1>4. AssignmentStillHolds' /\ VoluntarySaveStillAllowed'
    BY <1>2, <1>3 DEF AssignmentStillHolds, VoluntarySaveStillAllowed
  <1>5. live' \subseteq live \cup tx[t].docs
    BY DEF CommitCreate
  <1>6. QED
    BY <1>1, <1>4, <1>5, ReleaseTx

LEMMA CommitDeleteTx ==
  ASSUME IInv, NEW t \in Txs, CommitDelete(t)
  PROVE  TxInv'
  <1>1. tx[t].pc = "locked" /\ Release(t) /\ live' \subseteq live
    BY DEF CommitDelete
  <1>2. \A u \in Txs : u # t => /\ tx[u].pc # "assigned"
                               /\ ~(tx[u].pc = "checked" /\ tx[u].cat = "voluntary")
    BY <1>1, OnlyHolder
  <1>3. tx'[t].pc = "idle" /\ \A u \in Txs : u # t => tx'[u] = tx[u]
    BY <1>1 DEF Release, IInv, TypeOK, Idle, Request
  <1>4. AssignmentStillHolds' /\ VoluntarySaveStillAllowed'
    BY <1>2, <1>3 DEF AssignmentStillHolds, VoluntarySaveStillAllowed
  <1>5. QED
    BY <1>1, <1>4, ReleaseTx

(* A save leaves the others' assignments alone: either it holds the lock,  *)
(* and nobody else has one, or it makes no document voluntary.             *)
LEMMA CommitEditTx ==
  ASSUME IInv, NEW t \in Txs, CommitEdit(t)
  PROVE  TxInv'
  <1> USE DEF IInv, TypeOK
  <1>1. tx[t].pc = "checked" /\ Release(t) /\ UNCHANGED <<live, number, related>>
    BY DEF CommitEdit
  <1>2. tx'[t].pc = "idle" /\ \A u \in Txs : u # t => tx'[u] = tx[u]
    BY <1>1 DEF Release, Idle, Request
  <1>3. VoluntarySaveStillAllowed'
    BY <1>1, <1>2 DEF TxInv, VoluntarySaveStillAllowed
  <1>4. AssignmentStillHolds'
    <2>1. CASE tx[t].cat = "voluntary"
      <3>1. \A u \in Txs : u # t => tx[u].pc # "assigned"
        BY <1>1, <2>1, OnlyHolder
      <3>2. QED
        BY <3>1, <1>2 DEF AssignmentStillHolds
    <2>2. CASE tx[t].cat # "voluntary"
      <3>1. \A d \in Docs : category'[d] = "voluntary" => category[d] = "voluntary"
        BY <2>2 DEF CommitEdit
      <3>2. UsedNumbers' = UsedNumbers
        BY <1>1 DEF UsedNumbers
      <3>3. SUFFICES ASSUME NEW u \in Txs, u # t, tx[u].pc = "assigned"
                     PROVE  IF tx[u].rel = NoDoc
                            THEN IsNextFree(tx[u].num, UsedNumbers)
                            ELSE /\ tx[u].rel \in live /\ related[tx[u].rel] = NoDoc
                                 /\ number[tx[u].rel] = tx[u].num
                                 /\ category'[tx[u].rel] # "voluntary"
        BY <3>2, <1>1, <1>2 DEF AssignmentStillHolds
      <3>4. QED
        BY <3>1, <3>3 DEF TxInv, AssignmentStillHolds
    <2>3. QED
      BY <2>1, <2>2
  <1>5. QED
    BY <1>1, <1>3, <1>4, ReleaseTx

LEMMA RollbackTx ==
  ASSUME IInv, NEW t \in Txs, Rollback(t)
  PROVE  TxInv'
  <1> USE DEF IInv, TypeOK
  <1>1. Release(t) /\ UNCHANGED <<live, number, related, category>>
    BY DEF Rollback, rows
  <1>2. tx'[t].pc = "idle" /\ \A u \in Txs : u # t => tx'[u] = tx[u]
    BY <1>1 DEF Release, Idle, Request
  <1>3. VoluntarySaveStillAllowed'
    BY <1>1, <1>2 DEF TxInv, VoluntarySaveStillAllowed
  <1>4. AssignmentStillHolds'
    <2>1. UsedNumbers' = UsedNumbers
      BY <1>1 DEF UsedNumbers
    <2>2. QED
      BY <2>1, <1>1, <1>2 DEF TxInv, AssignmentStillHolds
  <1>5. QED
    BY <1>1, <1>3, <1>4, ReleaseTx

-----------------------------------------------------------------------------
(* Every step keeps the inductive invariant. *)
LEMMA IInvStep == IInv /\ [Next]_vars => IInv'
  <1> SUFFICES ASSUME IInv, [Next]_vars PROVE IInv'
    OBVIOUS
  <1>1. TypeOK'
    BY TypeStep DEF IInv
  <1>2. CASE UNCHANGED vars
    BY <1>1, <1>2 DEF vars, IInv, RowsInv, TxInv, PairsMutual, NumberSharedOnlyByPair,
       VoluntaryUnpaired, OwnsId, Shape, LockHolder, AssignmentStillHolds,
       UsedNumbers, VoluntarySaveStillAllowed
  <1>3. ASSUME NEW t \in Txs, BeginCreate(t) \/ BeginEdit(t) \/ BeginDelete(t)
        PROVE  RowsInv' /\ TxInv'
    BY <1>3, BeginTx, RowsStutter DEF IInv, BeginCreate, BeginEdit, BeginDelete
  <1>4. ASSUME NEW t \in Txs, AcquireLock(t) PROVE RowsInv' /\ TxInv'
    BY <1>4, AcquireTx, RowsStutter DEF IInv, AcquireLock
  <1>5. ASSUME NEW t \in Txs, AssignNumber(t) PROVE RowsInv' /\ TxInv'
    BY <1>5, AssignTx, RowsStutter DEF IInv, AssignNumber
  <1>6. ASSUME NEW t \in Txs, CommitCreate(t) PROVE RowsInv' /\ TxInv'
    BY <1>6, CreateRows, CommitCreateTx
  <1>7. ASSUME NEW t \in Txs, CheckEdit(t) PROVE RowsInv' /\ TxInv'
    BY <1>7, CheckTx, RowsStutter DEF IInv, CheckEdit
  <1>8. ASSUME NEW t \in Txs, CommitEdit(t) PROVE RowsInv' /\ TxInv'
    BY <1>8, EditRows, CommitEditTx
  <1>9. ASSUME NEW t \in Txs, CommitDelete(t) PROVE RowsInv' /\ TxInv'
    BY <1>9, DeleteRows, CommitDeleteTx
  <1>10. ASSUME NEW t \in Txs, Rollback(t) PROVE RowsInv' /\ TxInv'
    BY <1>10, RollbackTx, RowsStutter DEF IInv, Rollback
  <1>11. QED
    BY <1>1, <1>2, <1>3, <1>4, <1>5, <1>6, <1>7, <1>8, <1>9, <1>10 DEF Next, IInv

LEMMA Invariance == Spec => []IInv
  BY InitIInv, IInvStep, PTL DEF Spec

(* Links are mutual, whatever requests run at the same time. *)
THEOREM PairsAlwaysMutual == Spec => []PairsMutual
  <1>1. IInv => PairsMutual
    BY DEF IInv, RowsInv
  <1>2. QED
    BY <1>1, Invariance, PTL

(* No number is shared except by the two sides of a pair. *)
THEOREM NumbersAlwaysDistinct == Spec => []NumberSharedOnlyByPair
  <1>1. IInv => NumberSharedOnlyByPair
    BY DEF IInv, RowsInv
  <1>2. QED
    BY <1>1, Invariance, PTL

(* No voluntary document is ever paired. *)
THEOREM VoluntaryNeverPaired == Spec => []VoluntaryUnpaired
  <1>1. IInv => VoluntaryUnpaired
    BY DEF IInv, RowsInv
  <1>2. QED
    BY <1>1, Invariance, PTL

(* What was established under the lock is still true at the commit. *)
THEOREM AssignmentsStable == Spec => []AssignmentStillHolds
  <1>1. IInv => AssignmentStillHolds
    BY DEF IInv, TxInv
  <1>2. QED
    BY <1>1, Invariance, PTL

(* A save as voluntary that its check has allowed is still allowed when it  *)
(* is committed, although pairs are formed in between.                      *)
THEOREM VoluntarySavesStillAllowed == Spec => []VoluntarySaveStillAllowed
  <1>1. IInv => VoluntarySaveStillAllowed
    BY DEF IInv, TxInv
  <1>2. QED
    BY <1>1, Invariance, PTL

(* A document created without a link takes the least free number. *)
THEOREM CreatesTakeLeastFree == Spec => CreateTakesLeastFree
  <1> DEFINE LeastFree == \A d \in live' \ live : related'[d] = NoDoc => IsNextFree(number'[d], UsedNumbers)
  <1>1. IInv /\ [Next]_vars => [LeastFree]_vars
    <2> SUFFICES ASSUME IInv, Next PROVE LeastFree
      BY DEF vars
    <2>1. ASSUME NEW t \in Txs, CommitCreate(t) PROVE LeastFree
      <3>1. PICK d \in tx[t].docs :
              /\ live' = live \cup {d}
              /\ number' = [number EXCEPT ![d] = tx[t].num]
              /\ related' = [x \in Docs |-> IF x = d THEN tx[t].rel
                                            ELSE IF x = tx[t].rel THEN d ELSE related[x]]
        BY <2>1 DEF CommitCreate
      <3>2. d \in Docs /\ number'[d] = tx[t].num /\ related'[d] = tx[t].rel
        BY <3>1 DEF IInv, TypeOK, Transaction
      <3>3. tx[t].rel = NoDoc => IsNextFree(tx[t].num, UsedNumbers)
        BY <2>1 DEF CommitCreate, IInv, TxInv, AssignmentStillHolds
      <3>4. QED
        BY <3>1, <3>2, <3>3
    <2>2. ASSUME NEW t \in Txs, ~CommitCreate(t),
                 \/ BeginCreate(t) \/ BeginEdit(t) \/ BeginDelete(t)
                 \/ AcquireLock(t) \/ AssignNumber(t) \/ CheckEdit(t)
                 \/ CommitEdit(t) \/ CommitDelete(t) \/ Rollback(t)
          PROVE  LeastFree
      <3>1. live' \subseteq live
        BY <2>2 DEF BeginCreate, BeginEdit, BeginDelete, AcquireLock, AssignNumber,
           CheckEdit, CommitEdit, CommitDelete, Rollback, rows
      <3>2. QED
        BY <3>1
    <2>3. QED
      BY <2>1, <2>2 DEF Next
  <1>2. QED
    BY <1>1, Invariance, PTL DEF Spec, CreateTakesLeastFree

-----------------------------------------------------------------------------
(* The register of one clerk *)

LEMMA LeastOf ==
  ASSUME NEW T \in SUBSET Nat, T # {}
  PROVE  \E x \in T : \A y \in T : x <= y
  <1>1. PICK x \in T : \A y \in T : ~ (<<y, x>> \in OpToRel(<, Nat))
    BY NatLessThanWellFounded, WFMin
  <1>2. ASSUME NEW y \in T PROVE x <= y
    <2>1. x \in Nat /\ y \in Nat
      OBVIOUS
    <2>2. <<y, x>> \in Nat \X Nat
      BY <2>1
    <2>3. ~(y < x)
      BY <1>1, <2>2 DEF OpToRel
    <2>4. QED
      BY <2>1, <2>3
  <1>3. QED
    BY <1>2

(* What the SQL of nextFreeNumber finds among its candidates is the least  *)
(* positive number that is not in use: below it every number has an unused *)
(* predecessor or is 1, and so would be a candidate itself.                *)
LEMMA NextFreeIsLeastUnused ==
  ASSUME NEW used \in SUBSET Nat, NEW n, IsNextFree(n, used)
  PROVE  n \in Nat \ {0} /\ n \notin used /\ \A k \in 1..(n - 1) : k \in used
  <1>1. n \in Nat \ {0} /\ n \notin used
    BY DEF IsNextFree, Candidates
  <1>2. ASSUME NEW k \in 1..(n - 1), k \notin used PROVE FALSE
    <2> DEFINE T == {j \in 1..(n - 1) : j \notin used}
    <2>1. T \in SUBSET Nat /\ k \in T
      BY <1>1, <1>2
    <2>2. PICK x \in T : \A y \in T : x <= y
      BY <2>1, LeastOf
    <2>3. x \in 1..(n - 1) /\ x \notin used
      OBVIOUS
    <2>4. x \in Candidates(used)
      <3>1. CASE x = 1
        BY <3>1 DEF Candidates
      <3>2. CASE x # 1
        <4>1. x - 1 \in 1..(n - 1) /\ ~(x <= x - 1)
          BY <1>1, <2>3, <3>2
        <4>2. x - 1 \in used
          BY <2>2, <4>1
        <4>3. (x - 1) + 1 = x
          BY <2>3
        <4>4. QED
          BY <4>2, <4>3 DEF Candidates
      <3>3. QED
        BY <3>1, <3>2
    <2>5. n <= x
      BY <2>3, <2>4 DEF IsNextFree
    <2>6. QED
      BY <1>1, <2>3, <2>5
  <1>3. QED
    BY <1>1, <1>2

(* The register that belongs to the committed rows. *)
RegisterNow ==
  [d \in live |-> [number |-> number[d], partner |-> related[d], voluntary |-> category[d] = "voluntary"]]

LEMMA UsedInRegister == IInv => Register!Used = UsedNumbers /\ UsedNumbers \subseteq Nat
  <1> SUFFICES ASSUME IInv PROVE Register!Used = UsedNumbers /\ UsedNumbers \subseteq Nat
    OBVIOUS
  <1>1. \A d \in live : number[d] \in Nat
    BY DEF IInv, TypeOK
  <1>2. QED
    BY <1>1 DEF Register!Used, Register!Entered, UsedNumbers

(* Each kind of entry is a step of the register. *)
LEMMA EnterIsNext == ASSUME NEW d \in Docs, NEW v \in BOOLEAN, Register!Enter(d, v) PROVE Register!Next
  BY DEF Register!Next

LEMMA EnterBesideIsNext == ASSUME NEW d \in Docs, NEW r \in Docs, Register!EnterBeside(d, r) PROVE Register!Next
  BY DEF Register!Next

LEMMA StrikeIsNext == ASSUME NEW S \in SUBSET Docs, Register!Strike(S) PROVE Register!Next
  BY DEF Register!Next

(* A create is entered at its commit. *)
LEMMA CreateRegistered ==
  ASSUME IInv, NEW t \in Txs, CommitCreate(t)
  PROVE  Register!Next
  <1>0. PICK r : r = tx[t].rel
    OBVIOUS
  <1>a. PICK d \in tx[t].docs :
          /\ live' = live \cup {d}
          /\ number' = [number EXCEPT ![d] = tx[t].num]
          /\ category' = [category EXCEPT ![d] = tx[t].cat]
          /\ related' = [x \in Docs |-> IF x = d THEN tx[t].rel
                                        ELSE IF x = tx[t].rel THEN d ELSE related[x]]
    BY DEF CommitCreate
  <1>1. /\ live' = live \cup {d}
        /\ number' = [number EXCEPT ![d] = tx[t].num]
        /\ category' = [category EXCEPT ![d] = tx[t].cat]
        /\ related' = [x \in Docs |-> IF x = d THEN r ELSE IF x = r THEN d ELSE related[x]]
    BY <1>0, <1>a
  <1>2. tx[t].pc = "assigned"
    BY DEF CommitCreate
  <1>3. d \in Docs /\ d \notin live /\ d # r
    BY <1>0, <1>2 DEF IInv, TypeOK, Transaction, TxInv, OwnsId, Shape
  <1>4. /\ live \subseteq Docs /\ number \in [Docs -> Nat]
        /\ related \in [Docs -> Docs \cup {NoDoc}] /\ category \in [Docs -> Categories]
        /\ r \in Docs \cup {NoDoc}
    BY <1>0 DEF IInv, TypeOK, Transaction
  <1>5. /\ number'[d] = tx[t].num /\ category'[d] = tx[t].cat /\ related'[d] = r
        /\ \A x \in live : number'[x] = number[x] /\ category'[x] = category[x]
        /\ \A x \in live : related'[x] = IF x = r THEN d ELSE related[x]
    BY <1>1, <1>3, <1>4
  <1>6. CASE r = NoDoc
    <2>0. PICK v \in BOOLEAN : v = (tx[t].cat = "voluntary")
      OBVIOUS
    <2>1. IsNextFree(tx[t].num, UsedNumbers)
      BY <1>0, <1>2, <1>6 DEF IInv, TxInv, AssignmentStillHolds
    <2>2. Register!IsLeastUnused(tx[t].num)
      BY <2>1, UsedInRegister, NextFreeIsLeastUnused DEF Register!IsLeastUnused
    <2>3. \A x \in live : related'[x] = related[x]
      BY <1>4, <1>5, <1>6, NoDocAssumption
    <2>4. RegisterNow' = [x \in live \cup {d} |-> IF x = d THEN Register!Entry(tx[t].num, NoDoc, v) ELSE RegisterNow[x]]
      BY <1>1, <1>3, <1>5, <1>6, <2>0, <2>3 DEF RegisterNow, Register!Entry
    <2>5. Register!Enter(d, v)
      BY <1>1, <1>3, <1>5, <2>2, <2>4 DEF Register!Enter, Register!Entered, Register!Written, Register!Entry, RegisterNow
    <2>6. QED
      BY <1>3, <2>5, EnterIsNext
  <1>7. CASE r # NoDoc
    <2>1. /\ r \in live /\ related[r] = NoDoc
          /\ category[r] # "voluntary" /\ tx[t].cat # "voluntary"
      BY <1>0, <1>7 DEF CommitCreate
    <2>2. number[r] = tx[t].num
      BY <1>0, <1>2, <1>7 DEF IInv, TxInv, AssignmentStillHolds
    <2>3. RegisterNow' = [x \in live \cup {d} |->
                            IF x = d THEN Register!Entry(RegisterNow[r].number, r, FALSE)
                            ELSE IF x = r THEN [RegisterNow[r] EXCEPT !.partner = d]
                            ELSE RegisterNow[x]]
      <3>1. /\ live' = live \cup {d} /\ r # d
            /\ number'[d] = number[r] /\ category'[d] # "voluntary" /\ related'[d] = r
            /\ number'[r] = number[r] /\ category'[r] = category[r] /\ related'[r] = d
        BY <1>1, <1>3, <1>5, <2>1, <2>2
      <3>2. \A x \in live : x # r => /\ number'[x] = number[x] /\ category'[x] = category[x]
                                     /\ related'[x] = related[x]
        BY <1>5
      <3>3. RegisterNow'[d] = Register!Entry(RegisterNow[r].number, r, FALSE)
        BY <2>1, <3>1 DEF RegisterNow, Register!Entry
      <3>4. RegisterNow'[r] = [RegisterNow[r] EXCEPT !.partner = d]
        BY <2>1, <3>1 DEF RegisterNow
      <3>5. \A x \in live : x # r => RegisterNow'[x] = RegisterNow[x]
        BY <3>1, <3>2 DEF RegisterNow
      <3>6. DOMAIN RegisterNow' = live \cup {d} /\ RegisterNow' = [x \in live \cup {d} |-> RegisterNow'[x]]
        BY <3>1 DEF RegisterNow
      <3>7. QED
        BY <1>3, <2>1, <3>1, <3>3, <3>4, <3>5, <3>6
    <2>4. Register!EnterBeside(d, r)
      BY <1>1, <1>3, <2>1, <2>3 DEF Register!EnterBeside, Register!Entered, Register!Entry, RegisterNow
    <2>5. d \in Docs /\ r \in Docs
      BY <1>3, <1>4, <1>7
    <2>6. QED
      BY <2>4, <2>5, EnterBesideIsNext
  <1>8. QED
    BY <1>6, <1>7

(* An edit is about one document. *)
OneEdited == \A t \in Txs : tx[t].op = "edit" => \A d, e \in tx[t].docs : d = e

LEMMA OneEditedStep == TypeOK /\ OneEdited /\ [Next]_vars => OneEdited'
  <1> SUFFICES ASSUME TypeOK, OneEdited, [Next]_vars PROVE OneEdited'
    OBVIOUS
  <1>1. ASSUME NEW t \in Txs, Release(t) PROVE OneEdited'
    BY <1>1 DEF Release, Idle, Request, OneEdited, TypeOK
  <1>2. ASSUME NEW t \in Txs, BeginCreate(t) \/ BeginEdit(t) \/ BeginDelete(t) PROVE OneEdited'
    BY <1>2 DEF BeginCreate, BeginEdit, BeginDelete, Request, OneEdited, TypeOK
  <1>3. ASSUME NEW t \in Txs, AcquireLock(t) \/ AssignNumber(t) \/ CheckEdit(t) PROVE OneEdited'
    <2>1. ASSUME NEW u \in Txs PROVE tx'[u].op = tx[u].op /\ tx'[u].docs = tx[u].docs
      <3>1. CASE AcquireLock(t)
        BY <3>1 DEF AcquireLock, TypeOK, Transaction
      <3>2. CASE CheckEdit(t)
        BY <3>2 DEF CheckEdit, TypeOK, Transaction
      <3>3. CASE AssignNumber(t)
        <4>1. PICK n : tx' = [tx EXCEPT ![t].pc = "assigned", ![t].num = n]
          BY <3>3 DEF AssignNumber
        <4>2. QED
          BY <4>1 DEF TypeOK, Transaction
      <3>4. QED
        BY <1>3, <3>1, <3>2, <3>3
    <2>2. QED
      BY <2>1 DEF OneEdited
  <1>4. ASSUME NEW t \in Txs, CommitCreate(t) \/ CommitEdit(t) \/ CommitDelete(t) \/ Rollback(t) PROVE Release(t)
    BY <1>4 DEF CommitCreate, CommitEdit, CommitDelete, Rollback
  <1>5. CASE UNCHANGED vars
    BY <1>5 DEF vars, OneEdited
  <1>6. QED
    BY <1>1, <1>2, <1>3, <1>4, <1>5 DEF Next

(* An edit amends the category, or nothing. *)
LEMMA EditRegistered ==
  ASSUME IInv, OneEdited, NEW t \in Txs, CommitEdit(t)
  PROVE  Register!Next \/ RegisterNow' = RegisterNow
  <1> DEFINE v == tx[t].cat = "voluntary"
  <1>1. /\ live' = live /\ number' = number /\ related' = related
        /\ category' = [d \in Docs |-> IF d \in tx[t].docs \cap live /\ tx[t].cat # tx[t].was
                                       THEN tx[t].cat ELSE category[d]]
        /\ \A d \in live : category'[d] = "voluntary" => related[d] = NoDoc
    BY DEF CommitEdit
  <1>2. /\ live \subseteq Docs /\ category \in [Docs -> Categories]
    BY DEF IInv, TypeOK
  <1>3. tx[t].pc = "checked"
    BY DEF CommitEdit
  <1>4. tx[t].op = "edit"
    BY <1>3 DEF IInv, TxInv, Shape
  <1>5. CASE \A d \in live : category'[d] = category[d]
    BY <1>1, <1>5 DEF RegisterNow
  <1>6. ASSUME NEW d \in live, category'[d] # category[d] PROVE Register!Next
    <2>1. d \in tx[t].docs /\ category'[d] = tx[t].cat /\ d \in Docs
      BY <1>1, <1>2, <1>6
    <2>2. \A x \in live : x # d => category'[x] = category[x]
      BY <1>1, <1>2, <1>4, <2>1 DEF OneEdited
    <2>3. v => related[d] = NoDoc
      BY <1>1, <2>1
    <2>4. RegisterNow' = [x \in live \cup {d} |-> IF x = d THEN [RegisterNow[d] EXCEPT !.voluntary = v] ELSE RegisterNow[x]]
      BY <1>1, <2>1, <2>2 DEF RegisterNow
    <2>5. Register!Amend(d, v)
      BY <2>3, <2>4 DEF Register!Amend, Register!Written, Register!Entered, RegisterNow
    <2>6. QED
      BY <2>1, <2>5 DEF Register!Next
  <1>7. QED
    BY <1>5, <1>6

(* A deletion strikes the documents that are still there. *)
LEMMA DeleteRegistered ==
  ASSUME IInv, NEW t \in Txs, CommitDelete(t)
  PROVE  Register!Next
  <1>0. PICK S : S = tx[t].docs \cap live
    OBVIOUS
  <1>1. /\ live' = live \ tx[t].docs
        /\ number' = [d \in Docs |-> IF d \in tx[t].docs THEN 0 ELSE number[d]]
        /\ category' = [d \in Docs |-> IF d \in tx[t].docs THEN "ordinary" ELSE category[d]]
        /\ related' = [d \in Docs |-> IF d \in tx[t].docs \/ related[d] \in tx[t].docs
                                      THEN NoDoc ELSE related[d]]
    BY DEF CommitDelete
  <1>2. live \subseteq Docs /\ tx[t].docs \subseteq Docs
    BY DEF IInv, TypeOK, Transaction
  <1>3. \A d \in live : related[d] \in tx[t].docs <=> related[d] \in S
    BY <1>0, <1>2, NoDocAssumption DEF IInv, RowsInv, PairsMutual
  <1>4. /\ live' = live \ S
        /\ \A d \in live' : number'[d] = number[d] /\ category'[d] = category[d]
        /\ \A d \in live' : related'[d] = IF related[d] \in S THEN NoDoc ELSE related[d]
    BY <1>0, <1>1, <1>2, <1>3
  <1>5. RegisterNow' = [x \in live \ S |-> IF RegisterNow[x].partner \in S
                                           THEN [RegisterNow[x] EXCEPT !.partner = NoDoc]
                                           ELSE RegisterNow[x]]
    BY <1>4 DEF RegisterNow
  <1>6. S \subseteq live /\ S \in SUBSET Docs
    BY <1>0, <1>2
  <1>7. Register!Strike(S)
    BY <1>5, <1>6 DEF Register!Strike, Register!Entered, RegisterNow
  <1>8. QED
    BY <1>6, <1>7, StrikeIsNext

(* Whatever requests look up and wait for in between, the committed rows   *)
(* change as the register of one clerk does: PermitNumbering implements    *)
(* PermitRegister, for any documents and any requests.                     *)
THEOREM RegisterKept == Spec => KeepsTheRegister
  <1>1. Init => Register!Init /\ OneEdited
    BY DEF Init, Idle, Request, OneEdited, Register!Init
  <1>2. IInv /\ OneEdited /\ [Next]_vars => [Register!Next]_RegisterNow
    <2> SUFFICES ASSUME IInv, OneEdited, [Next]_vars PROVE Register!Next \/ RegisterNow' = RegisterNow
      OBVIOUS
    <2>1. ASSUME NEW t \in Txs, CommitCreate(t) PROVE Register!Next
      BY <2>1, CreateRegistered
    <2>2. ASSUME NEW t \in Txs, CommitEdit(t) PROVE Register!Next \/ RegisterNow' = RegisterNow
      BY <2>2, EditRegistered
    <2>3. ASSUME NEW t \in Txs, CommitDelete(t) PROVE Register!Next
      BY <2>3, DeleteRegistered
    <2>4. ASSUME NEW t \in Txs,
                 \/ BeginCreate(t) \/ BeginEdit(t) \/ BeginDelete(t) \/ AcquireLock(t)
                 \/ AssignNumber(t) \/ CheckEdit(t) \/ Rollback(t)
          PROVE  UNCHANGED rows
      BY <2>4 DEF BeginCreate, BeginEdit, BeginDelete, AcquireLock, AssignNumber, CheckEdit, Rollback
    <2>5. CASE UNCHANGED vars
      BY <2>5 DEF vars, RegisterNow
    <2>6. UNCHANGED rows => RegisterNow' = RegisterNow
      BY DEF rows, RegisterNow
    <2>7. QED
      BY <2>1, <2>2, <2>3, <2>4, <2>5, <2>6 DEF Next
  <1>3. IInv => TypeOK
    BY DEF IInv
  <1>4. QED
    BY <1>1, <1>2, <1>3, OneEditedStep, Invariance, PTL DEF Spec, KeepsTheRegister, Register!Spec, RegisterNow
=============================================================================
