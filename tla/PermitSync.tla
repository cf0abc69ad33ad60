----------------------------- MODULE PermitSync -----------------------------
(***************************************************************************)
(* Synchronisation of permit documents with the state registries           *)
(* (plugin-permit-documents).                                              *)
(*                                                                         *)
(* A row carries what the user typed (its title, here together with the    *)
(* document type, and its category) and what a registry answered for it.   *)
(* Requests create, edit, delete and check documents; after a change of    *)
(* the title the request runs a full synchronisation and waits for it.     *)
(* There is at most one full synchronisation of a document at a time: a    *)
(* second caller joins the running one.  The daily status check runs       *)
(* beside it.  Both read the row without a lock, ask the registry for      *)
(* seconds, and write only if the row, locked, is still the one they read. *)
(* An edit also loads the row without a lock, and writes only the columns  *)
(* that differ from what it loaded.                                        *)
(*                                                                         *)
(* Registry data are modelled by the title of the registry record they     *)
(* come from, so "the data of another document" is a value.  The registry  *)
(* is external: its answers are arbitrary.                                 *)
(***************************************************************************)
EXTENDS Naturals

CONSTANTS
    Docs,        \* document identifiers
    Titles,      \* titles with their document type
    Categories,  \* categories given to documents
    Voluntary,   \* the category that no registry knows
    Requests,    \* HTTP requests that may be in progress at the same time
    None,        \* SQL null
    Own          \* data typed by the user or computed from it

ASSUME NullAssumption ==
    /\ None \notin Titles
    /\ Own \notin Titles
    /\ None # Own
    /\ None \notin Docs

VARIABLES
    live,   \* ids of the rows of permit_documents
    row,    \* the rows
    full,   \* SynchronizePermitDocument.activeSynchronizations
    check,  \* CheckPermitDocumentStatus.activeChecks
    due,    \* documents with a STATUS_ONLY message in the queue
    req,    \* the requests in progress
    torn    \* (history) rows of which an edit left registry data it meant to reset

vars == <<live, row, full, check, due, req, torn>>

-----------------------------------------------------------------------------
SyncStatuses == {"PENDING", "SUCCESS", "NOT_FOUND", "ERROR", "NOT_REQUIRED"}
Results == {"SUCCESS", "NOT_FOUND", "ERROR", "STALE", "MISSING", "NOT_REQUIRED", "FAILED"}

(* ext stands for external_id and the fields of the registry card, which   *)
(* are always written together; regs for the linked technical regulations. *)
Row(title, category, sync, ext, status, regs) ==
    [title |-> title, category |-> category, sync |-> sync,
     ext |-> ext, status |-> status, regs |-> regs]

(* A running synchronisation or check, with what it read of the row. *)
Job(pc, title, category, ext) ==
    [pc |-> pc, title |-> title, category |-> category, ext |-> ext]

(* A request on a document.  was: title and category, of the row before    *)
(* the edit, then (from "waiting" on) of the row the request has saved.    *)
Request(pc, doc, was, loaded, result) ==
    [pc |-> pc, doc |-> doc, was |-> was, loaded |-> loaded, result |-> result]

Identity(r) == [title |-> r.title, category |-> r.category]

NoRow == Row(None, Voluntary, "NOT_REQUIRED", None, Own, Own)
NoIdentity == Identity(NoRow)
NoJob == Job("idle", None, Voluntary, None)
Idle == Request("idle", None, NoIdentity, NoRow, "MISSING")

Sources == Titles \cup {None, Own}
AnyCategory == Categories \cup {Voluntary}
Rows == [title: Titles \cup {None}, category: AnyCategory, sync: SyncStatuses,
         ext: Titles \cup {None}, status: Sources, regs: Sources]
Jobs == [pc: {"idle", "started", "asking", "found", "absent", "failed"},
         title: Titles \cup {None}, category: AnyCategory, ext: Titles \cup {None}]
Identities == [title: Titles \cup {None}, category: AnyCategory]
RequestStates ==
    [pc: {"idle", "before", "loaded", "saved", "waiting", "told"},
     doc: Docs \cup {None}, was: Identities, loaded: Rows, result: Results]

TypeOK ==
    /\ live \subseteq Docs
    /\ row \in [Docs -> Rows]
    /\ full \in [Docs -> Jobs]
    /\ check \in [Docs -> Jobs]
    /\ due \subseteq Docs
    /\ req \in [Requests -> RequestStates]
    /\ torn \subseteq Docs

Init ==
    /\ live = {}
    /\ row = [d \in Docs |-> NoRow]
    /\ full = [d \in Docs |-> NoJob]
    /\ check = [d \in Docs |-> NoJob]
    /\ due = {}
    /\ req = [r \in Requests |-> Idle]
    /\ torn = {}

-----------------------------------------------------------------------------
(* Two unique indexes and two check constraints, on the category and on    *)
(* the data of a SUCCESS: what the database accepts as the new row d.      *)
Accepted(d, w) ==
    /\ \A e \in live \ {d} : row[e].title # w.title
    /\ w.ext # None => \A e \in live \ {d} : row[e].ext # w.ext
    /\ (w.category = Voluntary) <=> (w.sync = "NOT_REQUIRED")
    /\ w.sync = "SUCCESS" => w.ext # None /\ w.status # None

(* lockIdentity: the row, locked, against what the job read of it. *)
LockIdentityOfAnyTitle(d, job) ==
    IF d \notin live THEN "MISSING"
    ELSE IF row[d].category # Voluntary /\ row[d].category = job.category
         THEN "UPDATED" ELSE "STALE"

LockIdentity(d, job) ==
    IF d \notin live THEN "MISSING"
    ELSE IF /\ row[d].category # Voluntary
            /\ row[d].category = job.category
            /\ row[d].title = job.title
         THEN "UPDATED" ELSE "STALE"

(* (fault) the requests that joined the synchronisation are not answered *)
FinishForOneCaller(d, result) ==
    /\ full' = [full EXCEPT ![d] = NoJob]
    /\ req' = req

(* The promise of a synchronisation settles: it leaves the map of active   *)
(* ones and everybody who awaits it gets its result.                       *)
Finish(d, result) ==
    /\ full' = [full EXCEPT ![d] = NoJob]
    /\ req' = [r \in Requests |->
                 IF req[r].pc = "waiting" /\ req[r].doc = d
                 THEN Request("told", d, req[r].was, NoRow, result)
                 ELSE req[r]]

(* SynchronizePermitDocument.execute, called by request r: start, or join. *)
Execute(r, d, was) ==
    /\ full' = IF full[d].pc = "idle"
               THEN [full EXCEPT ![d] = Job("started", None, Voluntary, None)]
               ELSE full
    /\ req' = [req EXCEPT ![r] = Request("waiting", d, was, NoRow, "MISSING")]

-----------------------------------------------------------------------------
(* (fault) every managed field is reset to null, sync_status too *)
PendingWithoutStatus(t, c) == Row(t, c, None, None, None, None)

Pending(t, c) == Row(t, c, "PENDING", None, None, None)

(* (fault) a document that becomes voluntary keeps its external id *)
OwnDataWithExternalId(loaded, t, c) == Row(t, c, "NOT_REQUIRED", loaded.ext, Own, Own)

OwnData(loaded, t, c) == Row(t, c, "NOT_REQUIRED", None, Own, Own)

(* What the validation hook makes of an edit to title t and category c of  *)
(* the row it loaded: a voluntary row has no registry data; a new title,   *)
(* or a row that was voluntary, starts as PENDING; else nothing changes.   *)
Target(loaded, t, c) ==
    IF c = Voluntary THEN OwnData(loaded, t, c)
    ELSE IF t # loaded.title \/ loaded.category = Voluntary THEN Pending(t, c)
    ELSE [loaded EXCEPT !.category = c]

Resets(loaded, t, c) ==
    c = Voluntary \/ t # loaded.title \/ loaded.category = Voluntary

(* The links of an edited row: a voluntary row must have some, those of    *)
(* the form or those it has; a reset deletes them; else they stay.         *)
Links(c, resets, now) ==
    IF c = Voluntary THEN {Own, now} \ {None}
    ELSE IF resets THEN {None} ELSE {now}

(* The row after UPDATE: a column is written only when the new value       *)
(* differs from the loaded one.                                            *)
Written(loaded, target, now, regs) ==
    LET Column(new, old, current) == IF new # old THEN new ELSE current
    IN  Row(Column(target.title, loaded.title, now.title),
            Column(target.category, loaded.category, now.category),
            Column(target.sync, loaded.sync, now.sync),
            Column(target.ext, loaded.ext, now.ext),
            Column(target.status, loaded.status, now.status),
            regs)

-----------------------------------------------------------------------------
(* A create request: the row is inserted as PENDING or as voluntary, the   *)
(* transaction commits, and the middleware synchronises the new document.  *)
Create(r) ==
    /\ req[r].pc = "idle"
    /\ \E d \in Docs \ live, t \in Titles, c \in Categories :
        /\ full[d].pc = "idle" /\ check[d].pc = "idle"
        /\ \A q \in Requests : req[q].doc # d
        /\ d \notin due
        /\ Accepted(d, Target(NoRow, t, c))
        /\ live' = live \cup {d}
        /\ row' = [row EXCEPT ![d] = Target(NoRow, t, c)]
        /\ torn' = torn \ {d}
        /\ Execute(r, d, Identity(Target(NoRow, t, c)))
    /\ UNCHANGED <<check, due>>

(* An update request: the middleware remembers the identity of the row. *)
BeginEdit(r) ==
    /\ req[r].pc = "idle"
    /\ \E d \in live :
        req' = [req EXCEPT ![r] =
                  Request("before", d, Identity(row[d]), NoRow, "MISSING")]
    /\ UNCHANGED <<live, row, full, check, due, torn>>

(* Repository.update finds the row, without a lock, and the hooks run on it. *)
LoadForEdit(r) ==
    LET d == req[r].doc
    IN  /\ req[r].pc = "before"
        /\ d \in live
        /\ req' = [req EXCEPT ![r] =
                     Request("loaded", d, req[r].was, row[d], "MISSING")]
        /\ UNCHANGED <<live, row, full, check, due, torn>>

(* UPDATE and COMMIT; nothing happens to a row that is gone. *)
SaveEdit(r) ==
    LET d == req[r].doc
        loaded == req[r].loaded
    IN  /\ req[r].pc = "loaded"
        /\ \E t \in Titles, c \in Categories :
            LET target == Target(loaded, t, c)
                resets == Resets(loaded, t, c)
            IN  IF d \in live
                THEN \E regs \in Links(c, resets, row[d].regs) :
                        LET new == Written(loaded, target, row[d], regs)
                        IN  /\ Accepted(d, new)
                            /\ row' = [row EXCEPT ![d] = new]
                            /\ torn' = IF ~resets THEN torn
                                       ELSE IF /\ new.sync = target.sync
                                               /\ new.ext = target.ext
                                               /\ new.status = target.status
                                       THEN torn \ {d} ELSE torn \cup {d}
                ELSE UNCHANGED <<row, torn>>
        /\ req' = [req EXCEPT ![r] = Request("saved", d, req[r].was, NoRow, "MISSING")]
        /\ UNCHANGED <<live, full, check, due>>

(* The middleware reads the row again and synchronises it when the title   *)
(* changed or the row is no longer voluntary.                              *)
AfterEdit(r) ==
    LET d == req[r].doc
        was == req[r].was
    IN  /\ req[r].pc = "saved"
        /\ IF /\ d \in live
              /\ \/ row[d].title # was.title
                 \/ was.category = Voluntary /\ row[d].category # Voluntary
           THEN Execute(r, d, Identity(row[d]))
           ELSE req' = [req EXCEPT ![r] = Idle] /\ UNCHANGED full
        /\ UNCHANGED <<live, row, check, due, torn>>

(* "Check now": PermitDocumentSyncController.sync. *)
CheckNow(r) ==
    /\ req[r].pc = "idle"
    /\ \E d \in live : Execute(r, d, NoIdentity)
    /\ UNCHANGED <<live, row, check, due, torn>>

(* The response is sent, or a request that has not saved yet is refused:   *)
(* no such row, a failed validation, a violated constraint.                *)
Respond(r) ==
    /\ req[r].pc \in {"told", "before", "loaded"}
    /\ req' = [req EXCEPT ![r] = Idle]
    /\ UNCHANGED <<live, row, full, check, due, torn>>

Delete(d) ==
    /\ d \in live
    /\ live' = live \ {d}
    /\ row' = [row EXCEPT ![d] = NoRow]
    /\ torn' = torn \ {d}
    /\ UNCHANGED <<full, check, due, req>>

-----------------------------------------------------------------------------
(* The queue or the recovery at start calls the full synchronisation. *)
StartFull(d) ==
    /\ full[d].pc = "idle"
    /\ d \in live
    /\ full' = [full EXCEPT ![d] = Job("started", None, Voluntary, None)]
    /\ UNCHANGED <<live, row, check, due, req, torn>>

(* findById: the snapshot, and the returns that need no registry. *)
ReadFull(d) ==
    /\ full[d].pc = "started"
    /\ \/ d \notin live /\ Finish(d, "MISSING")
       \/ /\ d \in live
          /\ row[d].category = Voluntary
          /\ Finish(d, "NOT_REQUIRED")
       \/ /\ d \in live
          /\ row[d].category # Voluntary
          /\ full' = [full EXCEPT ![d] =
                        Job("asking", row[d].title, row[d].category, row[d].ext)]
          /\ UNCHANGED req
    /\ UNCHANGED <<live, row, check, due, torn>>

(* (fault) the card found by its external id is not compared with the title *)
AnswerFullUnchecked(d) ==
    /\ full[d].pc = "asking"
    /\ \E answer \in {"found", "absent", "failed"} :
        full' = [full EXCEPT ![d].pc = answer]
    /\ UNCHANGED <<live, row, check, due, req, torn>>

(* The registry answers, by external id when the snapshot has one, else by *)
(* title; a card of another title is refused like any failed request.      *)
AnswerFull(d) ==
    /\ full[d].pc = "asking"
    /\ \E answer \in {"found", "absent", "failed"} :
        /\ answer = "found" => full[d].ext \in {None, full[d].title}
        /\ full' = [full EXCEPT ![d].pc = answer]
    /\ UNCHANGED <<live, row, check, due, req, torn>>

(* applySuccess.  The card written is the one that was asked for. *)
SaveFound(d) ==
    LET job == full[d]
        card == IF job.ext = None THEN job.title ELSE job.ext
        new == Row(row[d].title, row[d].category, "SUCCESS", card, card, card)
        locked == LockIdentity(d, job)
    IN  /\ job.pc = "found"
        /\ IF locked = "UPDATED"
           THEN /\ Accepted(d, new)
                /\ row' = [row EXCEPT ![d] = new]
                /\ torn' = torn \ {d}
                /\ Finish(d, "SUCCESS")
           ELSE Finish(d, locked) /\ UNCHANGED <<row, torn>>
        /\ UNCHANGED <<live, check, due>>

(* (fault) a record that has gone is taken for one that never was *)
SaveAbsentOfAny(d) ==
    LET job == full[d]
        locked == LockIdentity(d, job)
    IN  /\ job.pc = "absent"
        /\ IF locked = "UPDATED"
           THEN /\ row' = [row EXCEPT ![d] =
                             Row(row[d].title, row[d].category, "NOT_FOUND", None, None, None)]
                /\ torn' = torn \ {d}
                /\ Finish(d, "NOT_FOUND")
           ELSE Finish(d, locked) /\ UNCHANGED <<row, torn>>
        /\ UNCHANGED <<live, check, due>>

(* markNotFound *)
SaveAbsent(d) ==
    LET job == full[d]
        locked == LockIdentity(d, job)
    IN  /\ job.pc = "absent"
        /\ job.ext = None
        /\ IF locked = "UPDATED"
           THEN /\ row' = [row EXCEPT ![d] =
                             Row(row[d].title, row[d].category, "NOT_FOUND", None, None, None)]
                /\ torn' = torn \ {d}
                /\ Finish(d, "NOT_FOUND")
           ELSE Finish(d, locked) /\ UNCHANGED <<row, torn>>
        /\ UNCHANGED <<live, check, due>>

(* markError for a record the registry no longer has: whatever markError   *)
(* returns, the result is ERROR.                                           *)
SaveLost(d) ==
    LET job == full[d]
    IN  /\ job.pc = "absent"
        /\ job.ext # None
        /\ row' = IF LockIdentity(d, job) = "UPDATED"
                  THEN [row EXCEPT ![d].sync = "ERROR"] ELSE row
        /\ Finish(d, "ERROR")
        /\ UNCHANGED <<live, check, due, torn>>

(* markError in the catch branch *)
SaveFailed(d) ==
    LET locked == LockIdentity(d, full[d])
    IN  /\ full[d].pc = "failed"
        /\ IF locked = "UPDATED"
           THEN row' = [row EXCEPT ![d].sync = "ERROR"] /\ Finish(d, "ERROR")
           ELSE Finish(d, locked) /\ UNCHANGED row
        /\ UNCHANGED <<live, check, due, torn>>

(* A save fails: a unique index refuses the external id, two regulations   *)
(* conflict, the database is away.  The catch branch marks the error; if   *)
(* that fails too the callers get the exception.                           *)
SaveFullFails(d) ==
    /\ full[d].pc \in {"found", "absent", "failed"}
    /\ IF full[d].pc = "failed"
       THEN Finish(d, "FAILED")
       ELSE full' = [full EXCEPT ![d].pc = "failed"] /\ UNCHANGED req
    /\ UNCHANGED <<live, row, check, due, torn>>

-----------------------------------------------------------------------------
(* The daily schedule queues a status check of a row with an external id   *)
(* that is not PENDING; the message may be read much later.                *)
ListCheck(d) ==
    /\ d \in live
    /\ row[d].category # Voluntary
    /\ row[d].ext # None
    /\ row[d].sync \in {"SUCCESS", "ERROR"}
    /\ due' = due \cup {d}
    /\ UNCHANGED <<live, row, full, check, req, torn>>

(* The queue calls CheckPermitDocumentStatus.execute, which joins a running *)
(* check, leaves a row that is gone or voluntary alone, and takes a row    *)
(* without an external id for an error.                                    *)
StartCheck(d) ==
    /\ d \in due
    /\ due' = due \ {d}
    /\ check' = IF check[d].pc = "idle" /\ d \in live /\ row[d].category # Voluntary
                THEN [check EXCEPT ![d] =
                        Job(IF row[d].ext = None THEN "failed" ELSE "asking",
                            row[d].title, row[d].category, row[d].ext)]
                ELSE check
    /\ UNCHANGED <<live, row, full, req, torn>>

(* The search by title answers; a record with another external id, and no  *)
(* record, are errors.                                                     *)
AnswerCheck(d) ==
    /\ check[d].pc = "asking"
    /\ \E answer \in {"found", "failed"} :
        /\ answer = "found" => check[d].ext = check[d].title
        /\ check' = [check EXCEPT ![d].pc = answer]
    /\ UNCHANGED <<live, row, full, due, req, torn>>

(* applyStatusCheck *)
SaveCheck(d) ==
    LET job == check[d]
        new == [row[d] EXCEPT !.status = job.title, !.sync = "SUCCESS"]
    IN  /\ job.pc = "found"
        /\ IF LockIdentity(d, job) = "UPDATED" /\ row[d].ext = job.ext
           THEN Accepted(d, new) /\ row' = [row EXCEPT ![d] = new]
           ELSE UNCHANGED row
        /\ check' = [check EXCEPT ![d] = NoJob]
        /\ UNCHANGED <<live, full, due, req, torn>>

(* (fault) a failed check asks for a full synchronisation *)
SaveCheckAsPending(d) ==
    /\ check[d].pc = "failed"
    /\ row' = IF LockIdentity(d, check[d]) = "UPDATED"
              THEN [row EXCEPT ![d].sync = "PENDING"] ELSE row
    /\ check' = [check EXCEPT ![d] = NoJob]
    /\ UNCHANGED <<live, full, due, req, torn>>

(* markError of a status check *)
SaveCheckFailed(d) ==
    /\ check[d].pc = "failed"
    /\ row' = IF LockIdentity(d, check[d]) = "UPDATED"
              THEN [row EXCEPT ![d].sync = "ERROR"] ELSE row
    /\ check' = [check EXCEPT ![d] = NoJob]
    /\ UNCHANGED <<live, full, due, req, torn>>

(* A save of a status check fails: it is marked as an error, or given up. *)
SaveCheckFails(d) ==
    /\ check[d].pc \in {"found", "failed"}
    /\ check' = IF check[d].pc = "found"
                THEN [check EXCEPT ![d].pc = "failed"]
                ELSE [check EXCEPT ![d] = NoJob]
    /\ UNCHANGED <<live, row, full, due, req, torn>>

(* The server stops: what is in memory is lost, the rows stay; a graceful  *)
(* stop saves the queue for the next start.                                *)
Crash ==
    /\ full' = [d \in Docs |-> NoJob]
    /\ check' = [d \in Docs |-> NoJob]
    /\ req' = [r \in Requests |-> Idle]
    /\ due' \in {due, {}}
    /\ UNCHANGED <<live, row, torn>>

-----------------------------------------------------------------------------
RequestStep(r) ==
    \/ Create(r) \/ BeginEdit(r) \/ LoadForEdit(r) \/ SaveEdit(r) \/ AfterEdit(r)
    \/ CheckNow(r) \/ Respond(r)

FullStep(d) ==
    \/ ReadFull(d) \/ AnswerFull(d)
    \/ SaveFound(d) \/ SaveAbsent(d) \/ SaveLost(d) \/ SaveFailed(d)
    \/ SaveFullFails(d)

CheckStep(d) ==
    \/ ListCheck(d) \/ StartCheck(d) \/ AnswerCheck(d)
    \/ SaveCheck(d) \/ SaveCheckFailed(d) \/ SaveCheckFails(d)

Next ==
    \/ \E r \in Requests : RequestStep(r)
    \/ \E d \in Docs : Delete(d) \/ StartFull(d) \/ FullStep(d) \/ CheckStep(d)
    \/ Crash

Spec == Init /\ [][Next]_vars

(* A running synchronisation goes on: the registry requests time out, the  *)
(* database answers or refuses.                                            *)
FairSpec == Spec /\ \A d \in Docs : WF_vars(FullStep(d))

-----------------------------------------------------------------------------
(***************************************************************************)
(* Registry data belong to the title they stand beside, whatever edits,    *)
(* synchronisations and status checks overlap: the card, the status and    *)
(* the technical regulations of a row all come from the record of the      *)
(* current title or are all empty; a voluntary row has no card, a status   *)
(* of its own and some regulations.                                        *)
(* Excepted are the rows of which an edit kept what it meant to reset.     *)
(***************************************************************************)
RegistryDataFit ==
    \A d \in live \ torn :
        LET w == row[d]
        IN  IF w.category = Voluntary
            THEN w.ext = None /\ w.status = Own /\ w.regs # None
            ELSE w.ext \in {None, w.title} /\ w.status = w.ext /\ w.regs = w.ext

(* No row falls between the two daily lists: a PENDING row has no status   *)
(* left (the full list skips terminated documents), and a row that claims  *)
(* SUCCESS has the external id that the status list asks for.              *)
NoRowIsForgotten ==
    \A d \in live \ torn :
        /\ row[d].sync = "PENDING" => row[d].status = None
        /\ row[d].sync = "SUCCESS" => row[d].ext # None

(* Who is told SUCCESS, also one who joined a running synchronisation      *)
(* after an edit, finds the registry data of the current title in the row; *)
(* and NOT_FOUND is told of the current title only.                        *)
ToldIsStored ==
    [][\A r \in Requests :
        req[r].pc = "waiting" /\ req'[r].pc = "told" =>
            LET w == row'[req[r].doc]
            IN  /\ req'[r].result = "SUCCESS" =>
                     w.sync = "SUCCESS" /\ w.ext = w.title
                /\ req'[r].result = "NOT_FOUND" =>
                     w.sync = "NOT_FOUND" /\ w.ext = None]_vars

(* What a row shows of the registry, its sync status included; "mixed"     *)
(* would be data of different records, which no page has.                  *)
Shown(w) ==
    IF w.category = Voluntary /\ w.ext = None /\ w.status = Own /\ w.regs # None THEN "own"
    ELSE IF w.category # Voluntary /\ {w.ext, w.status, w.regs} = {None} THEN "none"
    ELSE IF w.category # Voluntary /\ {w.ext, w.status, w.regs} = {w.title} THEN "title"
    ELSE "mixed"

PageOf(d) ==
    LET Page(title, sync, data) == [title |-> title, sync |-> sync, data |-> data]
    IN  IF d \notin live THEN Page(None, "NOT_REQUIRED", "gone")
        ELSE IF d \in torn THEN Page(row[d].title, "any", "torn")
        ELSE Page(row[d].title, row[d].sync, Shown(row[d]))

Mirror == INSTANCE RegistryMirror WITH page <- [d \in Docs |-> PageOf(d)]

(* Whatever jobs, joined callers and edits on stale rows do between their  *)
(* steps, a reader sees what RegistryMirror allows: a title changes only   *)
(* with its data, answers of the registry arrive for the title they were   *)
(* asked for and nothing else, never in a voluntary row, and none of them  *)
(* drops a record that was found or makes a document PENDING again.        *)
MirrorsRegistry == Mirror!Spec

(* Every request that waits for a synchronisation is answered. *)
EveryCallerAnswered ==
    \A r \in Requests : req[r].pc = "waiting" ~> req[r].pc # "waiting"

-----------------------------------------------------------------------------
(***************************************************************************)
(* What the documentation says and the code does not keep: the README      *)
(* names an instance with a counterexample for each.                       *)
(***************************************************************************)
(* PERMIT_DOCUMENTS_PLUGIN.md:166-167: when the title is changed the old   *)
(* registry fields are cleared.                                            *)
EditClearsRegistryData ==
    [][\A d \in live : d \in live' /\ row'[d].title # row[d].title
          /\ row'[d].category # Voluntary => row'[d].ext = None]_vars

(* PERMIT_DOCUMENTS_PLUGIN.md:166-168: a submit that changed the title     *)
(* answers after the synchronisation, with the final registry data: the    *)
(* title it saved, if nobody changed it since, is not PENDING any more.    *)
SubmitEndsSettled ==
    [][\A r \in Requests :
        /\ req[r].pc = "waiting" /\ req'[r].pc = "told"
        /\ req[r].was # NoIdentity
        /\ req[r].doc \in live' /\ Identity(row'[req[r].doc]) = req[r].was
        /\ req'[r].result # "FAILED"
        => row'[req[r].doc].sync # "PENDING"]_vars
=============================================================================
