--------------------------- MODULE PermitNumbering ---------------------------
(***************************************************************************)
(* Internal numbers and pairs of permit documents (plugin-permit-documents).*)
(*                                                                         *)
(* Several requests create, edit and delete permit documents at the same   *)
(* time, each in a PostgreSQL transaction at READ COMMITTED.  A new         *)
(* document takes the least free internal number, or the number of the one *)
(* document it is paired with; a pair is a link in both directions.        *)
(* Creation, deletion and every save of a voluntary document take one      *)
(* transaction-scoped advisory lock first; the other edits take no lock    *)
(* and work on the row as they loaded it.                                  *)
(*                                                                         *)
(* live, number, related and category are the committed rows.  What a      *)
(* transaction writes becomes visible when it commits, so the writes of    *)
(* a handler are one action, its Commit.                                   *)
(***************************************************************************)
EXTENDS Naturals, FiniteSets

CONSTANTS
    Docs,   \* document identifiers
    Txs,    \* requests that may be in progress at the same time
    NoDoc,  \* SQL null in related_document_id
    NoTx    \* the advisory lock is free

ASSUME NoDocAssumption == NoDoc \notin Docs
ASSUME NoTxAssumption == NoTx \notin Txs

VARIABLES
    live,      \* ids of the rows of permit_documents
    number,    \* internal_number of each row
    related,   \* related_document_id of each row
    category,  \* category of each row
    lock,      \* holder of the advisory lock log-company.permit-document-numbers
    tx         \* the transactions in progress

vars == <<live, number, related, category, lock, tx>>

(* "rented" behaves as "ordinary" everywhere in this component. *)
Categories == {"ordinary", "voluntary"}

(***************************************************************************)
(* A transaction: its operation, the documents it is about, and for a      *)
(* create or an edit the link, the number and the category it works with   *)
(* (an edit: as loaded, "was" being the loaded category).                  *)
(***************************************************************************)
Request(pc, op, docs, rel, num, cat, was) ==
    [pc |-> pc, op |-> op, docs |-> docs, rel |-> rel,
     num |-> num, cat |-> cat, was |-> was]

Idle == Request("idle", "none", {}, NoDoc, 0, "ordinary", "ordinary")

Transaction ==
    [pc: {"idle", "waiting", "loaded", "locked", "assigned", "checked"},
     op: {"none", "create", "edit", "delete"},
     docs: SUBSET Docs,
     rel: Docs \cup {NoDoc},
     num: Nat,
     cat: Categories,
     was: Categories]

TypeOK ==
    /\ live \subseteq Docs
    /\ number \in [Docs -> Nat]
    /\ related \in [Docs -> Docs \cup {NoDoc}]
    /\ category \in [Docs -> Categories]
    /\ lock \in Txs \cup {NoTx}
    /\ tx \in [Txs -> Transaction]

Init ==
    /\ live = {}
    /\ number = [d \in Docs |-> 0]
    /\ related = [d \in Docs |-> NoDoc]
    /\ category = [d \in Docs |-> "ordinary"]
    /\ lock = NoTx
    /\ tx = [t \in Txs |-> Idle]

rows == <<live, number, related, category>>

-----------------------------------------------------------------------------
UsedNumbers == {number[d] : d \in live}

(* The SQL of nextFreeNumber: the candidates are 1 and the successors of   *)
(* the numbers in use, and the least unused candidate is taken.            *)
PredecessorCandidates(used) == {1} \cup {k - 1 : k \in used}

Candidates(used) == {1} \cup {k + 1 : k \in used}

IsNextFree(n, used) ==
    /\ n \in Candidates(used) \ used
    /\ \A k \in Candidates(used) \ used : n <= k

(* An identifier nobody holds: ids are never reused by the program, and a  *)
(* name that no row and no transaction mentions is as good as a new one.   *)
Fresh(d) ==
    /\ d \notin live
    /\ \A t \in Txs : d \notin tx[t].docs /\ tx[t].rel # d

(* The checks before a new document is paired: not voluntary, not with     *)
(* itself, with an existing, unpaired and not voluntary document.          *)
CanPair(t) ==
    LET r == tx[t].rel
    IN  /\ tx[t].cat # "voluntary"
        /\ r \notin tx[t].docs
        /\ r \in live
        /\ category[r] # "voluntary"
        /\ related[r] = NoDoc

(* (fault) a session lock: the end of the transaction does not release it *)
ReleaseWithoutUnlock(t) ==
    /\ lock' = lock
    /\ tx' = [tx EXCEPT ![t] = Idle]

Release(t) ==
    /\ lock' = IF lock = t THEN NoTx ELSE lock
    /\ tx' = [tx EXCEPT ![t] = Idle]

-----------------------------------------------------------------------------
(* A create request: the category hook refuses a voluntary document with a *)
(* link before the lock is asked for.  The link may name any id.           *)
BeginCreate(t) ==
    /\ tx[t].pc = "idle"
    /\ \E d \in Docs, r \in Docs \cup {NoDoc}, c \in Categories :
        /\ Fresh(d)
        /\ c = "voluntary" => r = NoDoc
        /\ tx' = [tx EXCEPT ![t] =
                    Request("waiting", "create", {d}, r, 0, c, c)]
    /\ UNCHANGED <<rows, lock>>

(* (fault) a save as voluntary does not take the lock *)
BeginEditWithoutLock(t) ==
    /\ tx[t].pc = "idle"
    /\ \E d \in live, c \in Categories :
        /\ c = "voluntary" => related[d] = NoDoc
        /\ tx' = [tx EXCEPT ![t] =
                    Request("loaded", "edit", {d}, related[d], number[d], c, category[d])]
    /\ UNCHANGED <<rows, lock>>

(* An edit loads the row; the category hook looks at the loaded link; only *)
(* a save as voluntary asks for the lock.                                  *)
BeginEdit(t) ==
    /\ tx[t].pc = "idle"
    /\ \E d \in live, c \in Categories :
        /\ c = "voluntary" => related[d] = NoDoc
        /\ tx' = [tx EXCEPT ![t] =
                    Request(IF c = "voluntary" THEN "waiting" ELSE "loaded",
                            "edit", {d}, related[d], number[d], c, category[d])]
    /\ UNCHANGED <<rows, lock>>

(* (fault) a delete does not take the lock *)
BeginDeleteWithoutLock(t) ==
    /\ tx[t].pc = "idle"
    /\ \E S \in SUBSET live :
        /\ S # {}
        /\ tx' = [tx EXCEPT ![t] =
                    Request("locked", "delete", S, NoDoc, 0, "ordinary", "ordinary")]
    /\ UNCHANGED <<rows, lock>>

(* A delete request names one or more rows; the bulk hook takes the lock   *)
(* before the rows are looked up.                                          *)
BeginDelete(t) ==
    /\ tx[t].pc = "idle"
    /\ \E S \in SUBSET live :
        /\ S # {}
        /\ tx' = [tx EXCEPT ![t] =
                    Request("waiting", "delete", S, NoDoc, 0, "ordinary", "ordinary")]
    /\ UNCHANGED <<rows, lock>>

(* (fault) the lock is taken without waiting for its holder *)
AcquireLockWithoutWaiting(t) ==
    /\ tx[t].pc = "waiting"
    /\ lock' = t
    /\ tx' = [tx EXCEPT ![t].pc = "locked"]
    /\ UNCHANGED rows

(* pg_advisory_xact_lock returns: the transaction holds the lock to its end. *)
AcquireLock(t) ==
    /\ tx[t].pc = "waiting"
    /\ lock = NoTx
    /\ lock' = t
    /\ tx' = [tx EXCEPT ![t].pc = "locked"]
    /\ UNCHANGED rows

(* AssignPermitDocumentNumber.execute after the lock. *)
AssignNumber(t) ==
    /\ tx[t].pc = "locked"
    /\ tx[t].op = "create"
    /\ \/ /\ tx[t].rel = NoDoc
          /\ \E n \in Candidates(UsedNumbers) :
                /\ IsNextFree(n, UsedNumbers)
                /\ tx' = [tx EXCEPT ![t].pc = "assigned", ![t].num = n]
       \/ /\ tx[t].rel # NoDoc
          /\ CanPair(t)
          /\ tx' = [tx EXCEPT ![t].pc = "assigned", ![t].num = number[tx[t].rel]]
    /\ UNCHANGED <<rows, lock>>

(* INSERT, completePair (it updates the partner only while the partner is  *)
(* unpaired) and COMMIT; the check constraint refuses a link of a voluntary *)
(* document on either side.                                                *)
CommitCreate(t) ==
    LET r == tx[t].rel
    IN  /\ tx[t].pc = "assigned"
        /\ r # NoDoc => /\ r \in live /\ related[r] = NoDoc
                        /\ category[r] # "voluntary" /\ tx[t].cat # "voluntary"
        /\ \E d \in tx[t].docs :
            /\ live' = live \cup {d}
            /\ number' = [number EXCEPT ![d] = tx[t].num]
            /\ category' = [category EXCEPT ![d] = tx[t].cat]
            /\ related' = [x \in Docs |-> IF x = d THEN r
                                          ELSE IF x = r THEN d ELSE related[x]]
        /\ Release(t)

(* (fault) only the number is compared *)
CheckEditNumberOnly(t) ==
    /\ tx[t].op = "edit"
    /\ tx[t].pc \in {"loaded", "locked"}
    /\ \A d \in tx[t].docs \cap live : tx[t].num = number[d]
    /\ tx' = [tx EXCEPT ![t].pc = "checked"]
    /\ UNCHANGED <<rows, lock>>

(* The numbering hook of an edit: the loaded number and link must still be *)
(* those of the row; a row that is gone is not checked.                    *)
CheckEdit(t) ==
    /\ tx[t].op = "edit"
    /\ tx[t].pc \in {"loaded", "locked"}
    /\ \A d \in tx[t].docs \cap live :
        tx[t].num = number[d] /\ tx[t].rel = related[d]
    /\ tx' = [tx EXCEPT ![t].pc = "checked"]
    /\ UNCHANGED <<rows, lock>>

(* UPDATE writes the category only when the request changed it; the check  *)
(* constraint permit_documents_category_check refuses a voluntary document *)
(* with a link.                                                            *)
CommitEdit(t) ==
    /\ tx[t].pc = "checked"
    /\ category' = [d \in Docs |->
                      IF d \in tx[t].docs \cap live /\ tx[t].cat # tx[t].was
                      THEN tx[t].cat ELSE category[d]]
    /\ \A d \in live : category'[d] = "voluntary" => related[d] = NoDoc
    /\ Release(t)
    /\ UNCHANGED <<live, number, related>>

(* (fault) the foreign key has no ON DELETE SET NULL *)
CommitDeleteKeepingLinks(t) ==
    LET S == tx[t].docs
    IN  /\ tx[t].pc = "locked"
        /\ tx[t].op = "delete"
        /\ live' = live \ S
        /\ number' = [d \in Docs |-> IF d \in S THEN 0 ELSE number[d]]
        /\ category' = [d \in Docs |-> IF d \in S THEN "ordinary" ELSE category[d]]
        /\ related' = [d \in Docs |-> IF d \in S THEN NoDoc ELSE related[d]]
        /\ Release(t)

(* DELETE and COMMIT; the foreign key sets the links to a deleted row to   *)
(* null.  The columns of a deleted row return to their initial values.     *)
CommitDelete(t) ==
    LET S == tx[t].docs
    IN  /\ tx[t].pc = "locked"
        /\ tx[t].op = "delete"
        /\ live' = live \ S
        /\ number' = [d \in Docs |-> IF d \in S THEN 0 ELSE number[d]]
        /\ category' = [d \in Docs |-> IF d \in S THEN "ordinary" ELSE category[d]]
        /\ related' = [d \in Docs |-> IF d \in S \/ related[d] \in S
                                      THEN NoDoc ELSE related[d]]
        /\ Release(t)

(* A refused check, a violated constraint, a lost connection or a crash of *)
(* the server: the transaction leaves no trace and its lock is released.   *)
Rollback(t) ==
    /\ tx[t].pc # "idle"
    /\ Release(t)
    /\ UNCHANGED rows

Next ==
    \E t \in Txs :
        \/ BeginCreate(t) \/ BeginEdit(t) \/ BeginDelete(t)
        \/ AcquireLock(t)
        \/ AssignNumber(t) \/ CommitCreate(t)
        \/ CheckEdit(t) \/ CommitEdit(t)
        \/ CommitDelete(t)
        \/ Rollback(t)

Spec == Init /\ [][Next]_vars

(***************************************************************************)
(* A transaction that can go on or must fail does so; PostgreSQL queues    *)
(* the waiters of an advisory lock, so a waiter is not overtaken for ever. *)
(***************************************************************************)
Progress(t) ==
    \/ AssignNumber(t) \/ CommitCreate(t)
    \/ CheckEdit(t) \/ CommitEdit(t)
    \/ CommitDelete(t)
    \/ tx[t].pc # "waiting" /\ Rollback(t)

FairSpec ==
    /\ Spec
    /\ \A t \in Txs : WF_vars(Progress(t)) /\ SF_vars(AcquireLock(t))

-----------------------------------------------------------------------------
(* A link is mutual: the document a row points to exists, is another one,  *)
(* points back and has the same number (PERMIT_DOCUMENTS_PLUGIN.md:138-140). *)
PairsMutual ==
    \A d \in live : related[d] # NoDoc =>
        LET e == related[d]
        IN  e \in live /\ e # d /\ related[e] = d /\ number[e] = number[d]

(* Two documents have the same internal number only when they are the two  *)
(* sides of one pair; so a number is shared by at most two.                *)
NumberSharedOnlyByPair ==
    \A d, e \in live :
        d # e /\ number[d] = number[e] => related[d] = e /\ related[e] = d

(* A voluntary document has no partner. *)
VoluntaryUnpaired ==
    \A d \in live : category[d] = "voluntary" => related[d] = NoDoc

(* What a transaction established under the lock is still true until it    *)
(* commits, whatever the transactions without the lock do meanwhile: its   *)
(* number is still the least free one, or its partner is still there,      *)
(* unpaired, not voluntary and of that number.                             *)
AssignmentStillHolds ==
    \A t \in Txs : tx[t].pc = "assigned" =>
        LET r == tx[t].rel
        IN  IF r = NoDoc THEN IsNextFree(tx[t].num, UsedNumbers)
            ELSE r \in live /\ related[r] = NoDoc
                 /\ number[r] = tx[t].num /\ category[r] # "voluntary"

(* A save as voluntary that passed its check is not refused by the check   *)
(* constraint: no pairing slips in between the check and the commit.       *)
VoluntarySaveStillAllowed ==
    \A t \in Txs : tx[t].pc = "checked" /\ tx[t].cat = "voluntary" =>
        \A d \in tx[t].docs \cap live : related[d] = NoDoc

(* Requests that look up, wait, assign and check in steps of their own do  *)
(* to the rows what one clerk would do with one request after the other:   *)
(* numbers are the least unused ones, partners are free, what is deleted   *)
(* leaves its partner the number.                                          *)
Register == INSTANCE PermitRegister WITH
    None <- NoDoc,
    register <- [d \in live |-> [number |-> number[d], partner |-> related[d],
                                 voluntary |-> category[d] = "voluntary"]]
KeepsTheRegister == Register!Spec

(* A document created without a link gets the least number no committed    *)
(* document has at the moment it is committed.                             *)
CreateTakesLeastFree ==
    [][\A d \in live' \ live : related'[d] = NoDoc => IsNextFree(number'[d], UsedNumbers)]_vars

(* Every request ends: the advisory lock cannot leave a request waiting    *)
(* for ever.                                                               *)
EveryRequestEnds == \A t \in Txs : tx[t].pc # "idle" ~> tx[t].pc = "idle"
=============================================================================
