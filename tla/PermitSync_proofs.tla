-------------------------- MODULE PermitSync_proofs --------------------------
(***************************************************************************)
(* Proofs about PermitSync, for any sets of documents, titles, categories  *)
(* and requests.  The inductive invariant IInv adds to the properties what *)
(* the database guarantees of every row and what the jobs know of the      *)
(* record they carry.                                                      *)
(***************************************************************************)
EXTENDS PermitSync, TLAPS

(* A row no edit has torn: what RegistryDataFit and NoRowIsForgotten say of it. *)
RowFits(w) ==
    /\ w.category = Voluntary =>
          w.ext = None /\ w.status = Own /\ w.regs # None
    /\ w.category # Voluntary =>
          w.ext \in {None, w.title} /\ w.status = w.ext /\ w.regs = w.ext
    /\ w.sync = "PENDING" => w.status = None
    /\ w.sync = "SUCCESS" => w.ext # None

(* The check constraint on the category, which holds of torn rows too. *)
CategoryFits(w) == (w.category = Voluntary) <=> (w.sync = "NOT_REQUIRED")

RowsInv ==
    \A d \in live : CategoryFits(row[d]) /\ (d \notin torn => RowFits(row[d]))

(* A record found is the record of the title the job has read. *)
JobsInv ==
    \A d \in Docs :
        /\ full[d].pc = "found" => full[d].ext \in {None, full[d].title}
        /\ check[d].pc = "found" => check[d].ext = check[d].title

IInv == TypeOK /\ RowsInv /\ JobsInv

-----------------------------------------------------------------------------
(* The constructors yield values of their types. *)
LEMMA RowType ==
    ASSUME NEW t \in Titles \cup {None}, NEW c \in AnyCategory, NEW s \in SyncStatuses,
           NEW e \in Titles \cup {None}, NEW st \in Sources, NEW g \in Sources
    PROVE  Row(t, c, s, e, st, g) \in Rows
BY DEF Row, Rows

LEMMA JobType ==
    ASSUME NEW t \in Titles \cup {None}, NEW c \in AnyCategory, NEW e \in Titles \cup {None},
           NEW p \in {"idle", "started", "asking", "found", "absent", "failed"}
    PROVE  Job(p, t, c, e) \in Jobs
BY DEF Job, Jobs

LEMMA RequestType ==
    ASSUME NEW p \in {"idle", "before", "loaded", "saved", "waiting", "told"},
           NEW d \in Docs \cup {None}, NEW w \in Identities, NEW l \in Rows,
           NEW s \in Results
    PROVE  Request(p, d, w, l, s) \in RequestStates
BY DEF Request, RequestStates

LEMMA IdentityType ==
    ASSUME NEW w \in Rows
    PROVE  Identity(w) \in Identities
BY DEF Identity, Identities, Rows

LEMMA NullTypes ==
    NoRow \in Rows /\ NoJob \in Jobs /\ NoIdentity \in Identities /\ Idle \in RequestStates
<1>1. NoRow \in Rows
    BY RowType DEF NoRow, AnyCategory, SyncStatuses, Sources
<1>2. NoJob \in Jobs
    BY JobType DEF NoJob, AnyCategory
<1>3. NoIdentity \in Identities
    BY <1>1, IdentityType DEF NoIdentity
<1>4. Idle \in RequestStates
    BY <1>1, <1>3, RequestType DEF Idle, Results
<1> QED BY <1>1, <1>2, <1>3, <1>4

(* What an edit aims at is a row. *)
LEMMA TargetType ==
    ASSUME NEW loaded \in Rows, NEW t \in Titles, NEW c \in Categories
    PROVE  Target(loaded, t, c) \in Rows
<1>1. CASE c = Voluntary
    <2>1. OwnData(loaded, t, c) \in Rows
        BY RowType DEF OwnData, AnyCategory, SyncStatuses, Sources
    <2> QED BY <1>1, <2>1 DEF Target
<1>2. CASE c # Voluntary /\ (t # loaded.title \/ loaded.category = Voluntary)
    <2>1. Pending(t, c) \in Rows
        BY RowType DEF Pending, AnyCategory, SyncStatuses, Sources
    <2> QED BY <1>2, <2>1 DEF Target
<1>3. CASE c # Voluntary /\ ~(t # loaded.title \/ loaded.category = Voluntary)
    <2>1. [loaded EXCEPT !.category = c] \in Rows
        BY DEF Rows, AnyCategory
    <2> QED BY <1>3, <2>1 DEF Target
<1> QED BY <1>1, <1>2, <1>3

LEMMA WrittenType ==
    ASSUME NEW loaded \in Rows, NEW target \in Rows, NEW now \in Rows,
           NEW regs \in Sources
    PROVE  Written(loaded, target, now, regs) \in Rows
<1> DEFINE Column(new, old, current) == IF new # old THEN new ELSE current
<1>1. /\ Column(target.title, loaded.title, now.title) \in Titles \cup {None}
      /\ Column(target.category, loaded.category, now.category) \in AnyCategory
      /\ Column(target.sync, loaded.sync, now.sync) \in SyncStatuses
      /\ Column(target.ext, loaded.ext, now.ext) \in Titles \cup {None}
      /\ Column(target.status, loaded.status, now.status) \in Sources
    BY DEF Rows
<1> QED BY <1>1, RowType DEF Written

(* Finish and Execute preserve the types of what they change. *)
LEMMA FinishType ==
    ASSUME TypeOK, NEW d \in Docs, NEW s \in Results, Finish(d, s)
    PROVE  full' \in [Docs -> Jobs] /\ req' \in [Requests -> RequestStates]
<1>1. full' \in [Docs -> Jobs]
    BY NullTypes DEF TypeOK, Finish
<1>2. ASSUME NEW r \in Requests
      PROVE  Request("told", d, req[r].was, NoRow, s) \in RequestStates
    <2>1. req[r].was \in Identities
        BY DEF TypeOK, RequestStates
    <2> QED BY <2>1, NullTypes, RequestType
<1>3. req' \in [Requests -> RequestStates]
    BY <1>2 DEF TypeOK, Finish
<1> QED BY <1>1, <1>3

LEMMA ExecuteType ==
    ASSUME TypeOK, NEW r \in Requests, NEW d \in Docs, NEW w \in Identities,
           Execute(r, d, w)
    PROVE  full' \in [Docs -> Jobs] /\ req' \in [Requests -> RequestStates]
<1>1. Job("started", None, Voluntary, None) \in Jobs
    BY JobType DEF AnyCategory
<1>2. Request("waiting", d, w, NoRow, "MISSING") \in RequestStates
    BY NullTypes, RequestType DEF Results
<1> QED BY <1>1, <1>2 DEF TypeOK, Execute

LEMMA LockIdentityValue ==
    ASSUME NEW d \in Docs, NEW job
    PROVE  /\ LockIdentity(d, job) \in {"MISSING", "STALE", "UPDATED"}
           /\ LockIdentity(d, job) = "UPDATED" =>
                d \in live /\ row[d].category # Voluntary
                /\ row[d].title = job.title
BY DEF LockIdentity

-----------------------------------------------------------------------------
(* Every step preserves the types. *)
LEMMA RequestStepType ==
    ASSUME TypeOK, NEW r \in Requests, RequestStep(r)
    PROVE  TypeOK'
<1> USE DEF TypeOK
<1>1. CASE Create(r)
    <2>1. PICK d \in Docs \ live, t \in Titles, c \in Categories :
            /\ live' = live \cup {d}
            /\ row' = [row EXCEPT ![d] = Target(NoRow, t, c)]
            /\ torn' = torn \ {d}
            /\ Execute(r, d, Identity(Target(NoRow, t, c)))
        BY <1>1 DEF Create
    <2>2. Target(NoRow, t, c) \in Rows
        BY NullTypes, TargetType
    <2>3. Identity(Target(NoRow, t, c)) \in Identities
        BY <2>2, IdentityType
    <2>4. full' \in [Docs -> Jobs] /\ req' \in [Requests -> RequestStates]
        BY <2>1, <2>3, ExecuteType
    <2>5. check' = check /\ due' = due
        BY <1>1 DEF Create
    <2> QED BY <2>1, <2>2, <2>4, <2>5
<1>2. CASE BeginEdit(r)
    <2>1. PICK d \in live :
            req' = [req EXCEPT ![r] =
                      Request("before", d, Identity(row[d]), NoRow, "MISSING")]
        BY <1>2 DEF BeginEdit
    <2>2. Request("before", d, Identity(row[d]), NoRow, "MISSING") \in RequestStates
        BY IdentityType, NullTypes, RequestType DEF Results
    <2> QED BY <1>2, <2>1, <2>2 DEF BeginEdit
<1>3. CASE LoadForEdit(r)
    <2>1. req[r].was \in Identities /\ req[r].doc \in Docs
        BY <1>3 DEF LoadForEdit, RequestStates
    <2>2. Request("loaded", req[r].doc, req[r].was, row[req[r].doc], "MISSING") \in RequestStates
        BY <2>1, RequestType DEF Results
    <2> QED BY <1>3, <2>2 DEF LoadForEdit
<1>4. CASE SaveEdit(r)
    <2> DEFINE d == req[r].doc
               loaded == req[r].loaded
    <2>1. req[r].was \in Identities /\ d \in Docs \cup {None} /\ loaded \in Rows
        BY DEF RequestStates
    <2>2. Request("saved", d, req[r].was, NoRow, "MISSING") \in RequestStates
        BY <2>1, NullTypes, RequestType DEF Results
    <2>3. req' \in [Requests -> RequestStates]
        BY <1>4, <2>2 DEF SaveEdit
    <2>4. PICK t \in Titles, c \in Categories :
            IF d \in live
            THEN \E regs \in Links(c, Resets(loaded, t, c), row[d].regs) :
                    /\ row' = [row EXCEPT ![d] =
                                  Written(loaded, Target(loaded, t, c), row[d], regs)]
                    /\ torn' \in {torn, torn \ {d}, torn \cup {d}}
            ELSE UNCHANGED <<row, torn>>
        BY <1>4 DEF SaveEdit
    <2>5. Target(loaded, t, c) \in Rows
        BY <2>1, TargetType
    <2>6. ASSUME d \in live, NEW regs \in Links(c, Resets(loaded, t, c), row[d].regs)
          PROVE  Written(loaded, Target(loaded, t, c), row[d], regs) \in Rows
        <3>1. row[d] \in Rows
            BY <2>6
        <3>2. regs \in Sources
            BY <2>6, <3>1 DEF Links, Rows, Sources
        <3> QED BY <2>1, <2>5, <3>1, <3>2, WrittenType
    <2>7. row' \in [Docs -> Rows] /\ torn' \subseteq Docs
        BY <2>4, <2>6
    <2> QED BY <1>4, <2>3, <2>7 DEF SaveEdit
<1>5. CASE AfterEdit(r)
    <2>1. CASE Execute(r, req[r].doc, Identity(row[req[r].doc])) /\ req[r].doc \in live
        <3>1. Identity(row[req[r].doc]) \in Identities
            BY <2>1, IdentityType
        <3> QED BY <1>5, <2>1, <3>1, ExecuteType DEF AfterEdit
    <2>2. CASE req' = [req EXCEPT ![r] = Idle] /\ full' = full
        BY <1>5, <2>2, NullTypes DEF AfterEdit
    <2> QED BY <1>5, <2>1, <2>2 DEF AfterEdit
<1>6. CASE CheckNow(r)
    <2>1. PICK d \in live : Execute(r, d, NoIdentity)
        BY <1>6 DEF CheckNow
    <2> QED BY <1>6, <2>1, NullTypes, ExecuteType DEF CheckNow
<1>7. CASE Respond(r)
    BY <1>7, NullTypes DEF Respond
<1> QED BY <1>1, <1>2, <1>3, <1>4, <1>5, <1>6, <1>7 DEF RequestStep

(* A row that only its sync status or its status changes stays a row. *)
LEMMA FullStepType ==
    ASSUME TypeOK, NEW d \in Docs, FullStep(d)
    PROVE  TypeOK'
<1> DEFINE job == full[d]
<1>0. job \in Jobs /\ row[d] \in Rows
    BY DEF TypeOK
<1>1. CASE ReadFull(d)
    <2>1. CASE Finish(d, "MISSING") \/ Finish(d, "NOT_REQUIRED")
        BY <1>1, <2>1, FinishType DEF TypeOK, ReadFull, Results
    <2>2. CASE /\ full' = [full EXCEPT ![d] =
                             Job("asking", row[d].title, row[d].category, row[d].ext)]
               /\ req' = req
        <3>1. Job("asking", row[d].title, row[d].category, row[d].ext) \in Jobs
            BY <1>0, JobType DEF Rows
        <3> QED BY <1>1, <2>2, <3>1 DEF TypeOK, ReadFull
    <2> QED BY <1>1, <2>1, <2>2 DEF ReadFull
<1>2. CASE AnswerFull(d)
    <2>1. PICK a \in {"found", "absent", "failed"} : full' = [full EXCEPT ![d].pc = a]
        BY <1>2 DEF AnswerFull
    <2>2. [job EXCEPT !.pc = a] \in Jobs
        BY <1>0 DEF Jobs
    <2> QED BY <1>2, <2>1, <2>2 DEF TypeOK, AnswerFull
<1>3. CASE SaveFound(d)
    <2> DEFINE card == IF job.ext = None THEN job.title ELSE job.ext
               new == Row(row[d].title, row[d].category, "SUCCESS", card, card, card)
    <2>1. new \in Rows
        BY <1>0, RowType DEF Rows, Jobs, SyncStatuses, Sources
    <2>2. full' \in [Docs -> Jobs] /\ req' \in [Requests -> RequestStates]
        BY <1>3, LockIdentityValue, FinishType DEF SaveFound, Results
    <2>3. row' \in [Docs -> Rows] /\ torn' \subseteq Docs
        BY <1>3, <2>1 DEF SaveFound, TypeOK
    <2> QED BY <1>3, <2>2, <2>3 DEF TypeOK, SaveFound
<1>4. CASE SaveAbsent(d)
    <2> DEFINE new == Row(row[d].title, row[d].category, "NOT_FOUND", None, None, None)
    <2>1. new \in Rows
        BY <1>0, RowType DEF Rows, SyncStatuses, Sources
    <2>2. full' \in [Docs -> Jobs] /\ req' \in [Requests -> RequestStates]
        BY <1>4, LockIdentityValue, FinishType DEF SaveAbsent, Results
    <2>3. row' \in [Docs -> Rows] /\ torn' \subseteq Docs
        BY <1>4, <2>1 DEF SaveAbsent, TypeOK
    <2> QED BY <1>4, <2>2, <2>3 DEF TypeOK, SaveAbsent
<1>5. [row[d] EXCEPT !.sync = "ERROR"] \in Rows
    BY <1>0 DEF Rows, SyncStatuses
<1>6. CASE SaveLost(d)
    <2>1. full' \in [Docs -> Jobs] /\ req' \in [Requests -> RequestStates]
        BY <1>6, FinishType DEF SaveLost, Results
    <2> QED BY <1>5, <1>6, <2>1 DEF TypeOK, SaveLost
<1>7. CASE SaveFailed(d)
    <2>1. full' \in [Docs -> Jobs] /\ req' \in [Requests -> RequestStates]
        BY <1>7, LockIdentityValue, FinishType DEF SaveFailed, Results
    <2> QED BY <1>5, <1>7, <2>1 DEF TypeOK, SaveFailed
<1>8. CASE SaveFullFails(d)
    <2>1. [job EXCEPT !.pc = "failed"] \in Jobs
        BY <1>0 DEF Jobs
    <2>2. full' \in [Docs -> Jobs] /\ req' \in [Requests -> RequestStates]
        BY <1>8, <2>1, FinishType DEF TypeOK, SaveFullFails, Results
    <2> QED BY <1>8, <2>2 DEF TypeOK, SaveFullFails
<1> QED BY <1>1, <1>2, <1>3, <1>4, <1>6, <1>7, <1>8 DEF FullStep

LEMMA CheckStepType ==
    ASSUME TypeOK, NEW d \in Docs, CheckStep(d)
    PROVE  TypeOK'
<1>0. check[d] \in Jobs /\ row[d] \in Rows
    BY DEF TypeOK
<1>1. CASE ListCheck(d)
    BY <1>1 DEF TypeOK, ListCheck
<1>2. CASE StartCheck(d)
    <2> DEFINE job == Job(IF row[d].ext = None THEN "failed" ELSE "asking",
                          row[d].title, row[d].category, row[d].ext)
    <2>1. job \in Jobs
        BY <1>0, JobType DEF Rows
    <2>2. check' \in [Docs -> Jobs]
        BY <1>2, <2>1 DEF TypeOK, StartCheck
    <2> QED BY <1>2, <2>2 DEF TypeOK, StartCheck
<1>3. CASE AnswerCheck(d)
    <2>1. PICK a \in {"found", "failed"} : check' = [check EXCEPT ![d].pc = a]
        BY <1>3 DEF AnswerCheck
    <2>2. [check[d] EXCEPT !.pc = a] \in Jobs
        BY <1>0 DEF Jobs
    <2> QED BY <1>3, <2>1, <2>2 DEF TypeOK, AnswerCheck
<1>4. CASE SaveCheck(d)
    <2>1. [row[d] EXCEPT !.status = check[d].title, !.sync = "SUCCESS"] \in Rows
        BY <1>0 DEF Rows, Jobs, SyncStatuses, Sources
    <2> QED BY <1>4, <2>1, NullTypes DEF TypeOK, SaveCheck
<1>5. CASE SaveCheckFailed(d)
    <2>1. [row[d] EXCEPT !.sync = "ERROR"] \in Rows
        BY <1>0 DEF Rows, SyncStatuses
    <2> QED BY <1>5, <2>1, NullTypes DEF TypeOK, SaveCheckFailed
<1>6. CASE SaveCheckFails(d)
    <2>1. [check[d] EXCEPT !.pc = "failed"] \in Jobs
        BY <1>0 DEF Jobs
    <2> QED BY <1>6, <2>1, NullTypes DEF TypeOK, SaveCheckFails
<1> QED BY <1>1, <1>2, <1>3, <1>4, <1>5, <1>6 DEF CheckStep

LEMMA TypeStep ==
    ASSUME TypeOK, [Next]_vars
    PROVE  TypeOK'
<1>1. ASSUME NEW d \in Docs, Delete(d) PROVE TypeOK'
    BY <1>1, NullTypes DEF TypeOK, Delete
<1>2. ASSUME NEW d \in Docs, StartFull(d) PROVE TypeOK'
    <2>1. Job("started", None, Voluntary, None) \in Jobs
        BY JobType DEF AnyCategory
    <2> QED BY <1>2, <2>1 DEF TypeOK, StartFull
<1>3. CASE Crash
    BY <1>3, NullTypes DEF TypeOK, Crash
<1>4. CASE UNCHANGED vars
    BY <1>4 DEF vars, TypeOK
<1> QED BY <1>1, <1>2, <1>3, <1>4, RequestStepType, FullStepType, CheckStepType DEF Next

-----------------------------------------------------------------------------
(* Only row d changes, and it is as it should be afterwards. *)
LEMMA OneRow ==
    ASSUME TypeOK, RowsInv, NEW d \in Docs,
           live' \subseteq live \cup {d}, torn \ {d} \subseteq torn',
           \A e \in Docs \ {d} : row'[e] = row[e],
           d \in live' => CategoryFits(row'[d]) /\ (d \notin torn' => RowFits(row'[d]))
    PROVE  RowsInv'
<1> SUFFICES ASSUME NEW e \in live'
             PROVE  CategoryFits(row'[e]) /\ (e \notin torn' => RowFits(row'[e]))
    BY DEF RowsInv, CategoryFits, RowFits
<1>1. CASE e = d
    BY <1>1
<1>2. CASE e # d
    <2>1. e \in live /\ row'[e] = row[e] /\ (e \notin torn' => e \notin torn)
        BY <1>2 DEF TypeOK
    <2> QED BY <2>1 DEF RowsInv
<1> QED BY <1>1, <1>2

(* A row whose reset took effect fits. *)
LEMMA ResetFits ==
    ASSUME NEW loaded \in Rows, NEW t \in Titles, NEW c \in Categories, NEW w \in Rows,
           Resets(loaded, t, c), CategoryFits(w),
           w.sync = Target(loaded, t, c).sync, w.ext = Target(loaded, t, c).ext,
           w.status = Target(loaded, t, c).status,
           NEW now, w.regs \in Links(c, TRUE, now)
    PROVE  RowFits(w)
<1>1. CASE c = Voluntary
    BY <1>1 DEF Target, OwnData, Row, Links, RowFits, CategoryFits
<1>2. CASE c # Voluntary
    <2>1. t # loaded.title \/ loaded.category = Voluntary
        BY <1>2 DEF Resets
    <2> QED BY <1>2, <2>1 DEF Target, Pending, Row, Links, RowFits, CategoryFits
<1> QED BY <1>1, <1>2

(* An edit that resets nothing leaves the columns of the registry alone. *)
LEMMA OtherEditKeeps ==
    ASSUME NEW loaded \in Rows, NEW t \in Titles, NEW c \in Categories, NEW now \in Rows,
           ~Resets(loaded, t, c), CategoryFits(now),
           CategoryFits(Written(loaded, Target(loaded, t, c), now, now.regs))
    PROVE  RowFits(now) => RowFits(Written(loaded, Target(loaded, t, c), now, now.regs))
<1> DEFINE w == Written(loaded, Target(loaded, t, c), now, now.regs)
<1>1. Target(loaded, t, c) = [loaded EXCEPT !.category = c]
    BY DEF Resets, Target
<1>2. /\ w.title = now.title /\ w.sync = now.sync /\ w.ext = now.ext
      /\ w.status = now.status /\ w.regs = now.regs
    BY <1>1 DEF Written, Row, Resets, Rows
<1>3. (w.category = Voluntary) <=> (now.category = Voluntary)
    BY <1>2 DEF CategoryFits
<1> QED BY <1>2, <1>3 DEF RowFits

LEMMA RequestStepRows ==
    ASSUME IInv, NEW r \in Requests, RequestStep(r)
    PROVE  RowsInv'
<1>1. CASE Create(r)
    <2>1. PICK d \in Docs \ live, t \in Titles, c \in Categories :
            /\ Accepted(d, Target(NoRow, t, c))
            /\ live' = live \cup {d}
            /\ row' = [row EXCEPT ![d] = Target(NoRow, t, c)]
            /\ torn' = torn \ {d}
        BY <1>1 DEF Create
    <2>2. CategoryFits(Target(NoRow, t, c))
        BY <2>1 DEF Accepted, CategoryFits
    <2>3. Resets(NoRow, t, c) /\ Target(NoRow, t, c) \in Rows
        BY NullTypes, TargetType DEF Resets, NoRow, Row
    <2>4. RowFits(Target(NoRow, t, c))
        <3>1. Target(NoRow, t, c).regs \in Links(c, TRUE, Own)
            BY <2>3, NullAssumption DEF Target, Resets, OwnData, Pending, Row, Links
        <3> QED BY <2>2, <2>3, <3>1, NullTypes, ResetFits
    <2>5. row'[d] = Target(NoRow, t, c) /\ \A e \in Docs \ {d} : row'[e] = row[e]
        BY <2>1 DEF IInv, TypeOK
    <2> QED BY <2>1, <2>2, <2>4, <2>5, OneRow DEF IInv
<1>2. CASE SaveEdit(r)
    <2> DEFINE d == req[r].doc
               loaded == req[r].loaded
    <2>1. loaded \in Rows
        BY DEF IInv, TypeOK, RequestStates
    <2>2. PICK t \in Titles, c \in Categories :
            LET target == Target(loaded, t, c)
                resets == Resets(loaded, t, c)
            IN  IF d \in live
                THEN \E regs \in Links(c, resets, row[d].regs) :
                        LET new == Written(loaded, target, row[d], regs)
                        IN  /\ Accepted(d, new)
                            /\ row' = [row EXCEPT ![d] = new]
                            /\ torn' = IF ~resets THEN torn
                                       ELSE IF /\ new.sync = target.sync
                                               /\ new.ext = target.ext
                                               /\ new.status = target.status
                                       THEN torn \ {d} ELSE torn \cup {d}
                ELSE UNCHANGED <<row, torn>>
        BY <1>2 DEF SaveEdit
    <2> DEFINE target == Target(loaded, t, c)
               resets == Resets(loaded, t, c)
    <2>3. CASE d \in live
        <3>0. PICK regs \in Links(c, resets, row[d].regs) :
                LET new == Written(loaded, target, row[d], regs)
                IN  /\ Accepted(d, new)
                    /\ row' = [row EXCEPT ![d] = new]
                    /\ torn' = IF ~resets THEN torn
                               ELSE IF /\ new.sync = target.sync
                                       /\ new.ext = target.ext
                                       /\ new.status = target.status
                               THEN torn \ {d} ELSE torn \cup {d}
            BY <2>2, <2>3
        <3> DEFINE new == Written(loaded, target, row[d], regs)
        <3>1. d \in Docs /\ row[d] \in Rows /\ target \in Rows /\ live' = live
            BY <1>2, <2>1, <2>3, TargetType DEF SaveEdit, IInv, TypeOK
        <3>2. new \in Rows /\ CategoryFits(new) /\ CategoryFits(row[d])
            <4>1. regs \in Sources
                BY <3>0, <3>1 DEF Links, Rows, Sources
            <4> QED BY <2>1, <2>3, <3>0, <3>1, <4>1, WrittenType
                    DEF Accepted, CategoryFits, IInv, RowsInv
        <3>3. row'[d] = new /\ \A e \in Docs \ {d} : row'[e] = row[e]
            BY <3>0, <3>1 DEF IInv, TypeOK
        <3>4. CASE ~resets
            <4>1. regs = row[d].regs /\ torn' = torn
                BY <3>0, <3>4 DEF Links, Resets
            <4>2. RowFits(row[d]) => RowFits(new)
                BY <2>1, <3>1, <3>2, <3>4, <4>1, OtherEditKeeps
            <4> QED BY <2>3, <3>1, <3>2, <3>3, <4>1, <4>2, OneRow DEF IInv, RowsInv
        <3>5. CASE resets
            <4>1. torn \ {d} \subseteq torn'
                BY <3>0, <3>5
            <4>2. d \notin torn' =>
                    new.sync = target.sync /\ new.ext = target.ext /\ new.status = target.status
                BY <3>0, <3>5
            <4>3. new.regs \in Links(c, TRUE, row[d].regs)
                BY <3>0, <3>5 DEF Written, Row, Links
            <4>4. d \notin torn' => RowFits(new)
                BY <2>1, <3>2, <3>5, <4>2, <4>3, ResetFits
            <4> QED BY <3>1, <3>2, <3>3, <4>1, <4>4, OneRow DEF IInv
        <3> QED BY <3>4, <3>5
    <2>4. CASE d \notin live
        BY <1>2, <2>2, <2>4 DEF SaveEdit, IInv, RowsInv, CategoryFits, RowFits
    <2> QED BY <2>3, <2>4
<1>3. CASE BeginEdit(r) \/ LoadForEdit(r) \/ AfterEdit(r) \/ CheckNow(r) \/ Respond(r)
    <2>1. UNCHANGED <<live, row, torn>>
        BY <1>3 DEF BeginEdit, LoadForEdit, AfterEdit, CheckNow, Respond
    <2> QED BY <2>1 DEF IInv, RowsInv, CategoryFits, RowFits
<1> QED BY <1>1, <1>2, <1>3 DEF RequestStep

(* An error that is stored leaves the registry data as they are. *)
LEMMA ErrorFits ==
    ASSUME IInv, NEW d \in live, row[d].category # Voluntary,
           row' = [row EXCEPT ![d].sync = "ERROR"], UNCHANGED <<live, torn>>
    PROVE  RowsInv'
<1>1. d \in Docs /\ row[d] \in Rows
    BY DEF IInv, TypeOK
<1>2. /\ row'[d] = [row[d] EXCEPT !.sync = "ERROR"]
      /\ \A e \in Docs \ {d} : row'[e] = row[e]
    BY <1>1 DEF IInv, TypeOK
<1>3. /\ row'[d].sync = "ERROR" /\ row'[d].category = row[d].category
      /\ row'[d].title = row[d].title /\ row'[d].ext = row[d].ext
      /\ row'[d].status = row[d].status /\ row'[d].regs = row[d].regs
    BY <1>1, <1>2 DEF Rows
<1>4. CategoryFits(row'[d])
    BY <1>3 DEF CategoryFits
<1>5. d \notin torn => RowFits(row'[d])
    BY <1>3 DEF RowFits, IInv, RowsInv
<1> QED BY <1>1, <1>2, <1>4, <1>5, OneRow DEF IInv

LEMMA SameRows ==
    ASSUME IInv, UNCHANGED <<live, row, torn>>
    PROVE  RowsInv'
BY DEF IInv, RowsInv, CategoryFits, RowFits

(* The card that SaveFound writes is the record of the title of the row. *)
LEMMA FoundCard ==
    ASSUME IInv, NEW d \in Docs, full[d].pc = "found",
           LockIdentity(d, full[d]) = "UPDATED"
    PROVE  (IF full[d].ext = None THEN full[d].title ELSE full[d].ext) = row[d].title
BY LockIdentityValue DEF IInv, JobsInv

LEMMA FullStepRows ==
    ASSUME IInv, NEW d \in Docs, FullStep(d)
    PROVE  RowsInv'
<1>1. CASE SaveFound(d)
    <2> DEFINE new == Row(row[d].title, row[d].category, "SUCCESS",
                          row[d].title, row[d].title, row[d].title)
    <2>1. CASE LockIdentity(d, full[d]) = "UPDATED"
        <3>1. d \in live /\ row[d].category # Voluntary
            BY <2>1, LockIdentityValue
        <3>2. /\ Accepted(d, new) /\ row' = [row EXCEPT ![d] = new]
              /\ torn' = torn \ {d} /\ live' = live
            BY <1>1, <2>1, FoundCard DEF SaveFound
        <3>3. CategoryFits(new) /\ RowFits(new)
            BY <3>1, <3>2 DEF Accepted, Row, CategoryFits, RowFits
        <3>4. row'[d] = new /\ \A e \in Docs \ {d} : row'[e] = row[e]
            BY <3>2 DEF IInv, TypeOK
        <3> QED BY <3>2, <3>3, <3>4, OneRow DEF IInv
    <2>2. CASE LockIdentity(d, full[d]) # "UPDATED"
        BY <1>1, <2>2, SameRows DEF SaveFound
    <2> QED BY <2>1, <2>2
<1>2. CASE SaveAbsent(d)
    <2> DEFINE new == Row(row[d].title, row[d].category, "NOT_FOUND", None, None, None)
    <2>1. CASE LockIdentity(d, full[d]) = "UPDATED"
        <3>1. d \in live /\ row[d].category # Voluntary
            BY <2>1, LockIdentityValue
        <3>2. row' = [row EXCEPT ![d] = new] /\ torn' = torn \ {d} /\ live' = live
            BY <1>2, <2>1 DEF SaveAbsent
        <3>3. CategoryFits(new) /\ RowFits(new)
            BY <3>1 DEF Row, CategoryFits, RowFits
        <3>4. row'[d] = new /\ \A e \in Docs \ {d} : row'[e] = row[e]
            BY <3>2 DEF IInv, TypeOK
        <3> QED BY <3>2, <3>3, <3>4, OneRow DEF IInv
    <2>2. CASE LockIdentity(d, full[d]) # "UPDATED"
        BY <1>2, <2>2, SameRows DEF SaveAbsent
    <2> QED BY <2>1, <2>2
<1>3. CASE SaveLost(d) \/ SaveFailed(d)
    <2>1. /\ LockIdentity(d, full[d]) = "UPDATED" => row' = [row EXCEPT ![d].sync = "ERROR"]
          /\ LockIdentity(d, full[d]) # "UPDATED" => row' = row
          /\ UNCHANGED <<live, torn>>
        BY <1>3 DEF SaveLost, SaveFailed
    <2> QED BY <2>1, LockIdentityValue, ErrorFits, SameRows
<1>4. CASE ReadFull(d) \/ AnswerFull(d) \/ SaveFullFails(d)
    BY <1>4, SameRows DEF ReadFull, AnswerFull, SaveFullFails
<1> QED BY <1>1, <1>2, <1>3, <1>4 DEF FullStep

LEMMA CheckStepRows ==
    ASSUME IInv, NEW d \in Docs, CheckStep(d)
    PROVE  RowsInv'
<1>1. CASE SaveCheck(d)
    <2> DEFINE new == [row[d] EXCEPT !.status = check[d].title, !.sync = "SUCCESS"]
    <2>1. CASE LockIdentity(d, check[d]) = "UPDATED" /\ row[d].ext = check[d].ext
        <3>1. d \in live /\ row[d].category # Voluntary /\ row[d].ext = row[d].title
              /\ check[d].title = row[d].title
            BY <1>1, <2>1, LockIdentityValue DEF SaveCheck, IInv, JobsInv
        <3>2. Accepted(d, new) /\ row' = [row EXCEPT ![d] = new] /\ UNCHANGED <<live, torn>>
            BY <1>1, <2>1 DEF SaveCheck
        <3>3. row[d] \in Rows
            BY DEF IInv, TypeOK
        <3>4. /\ new.sync = "SUCCESS" /\ new.status = row[d].title
              /\ new.category = row[d].category /\ new.title = row[d].title
              /\ new.ext = row[d].ext /\ new.regs = row[d].regs
            BY <3>1, <3>3 DEF Rows
        <3>5. CategoryFits(new)
            BY <3>1, <3>4 DEF CategoryFits
        <3>6. d \notin torn => RowFits(new)
            BY <3>1, <3>2, <3>4 DEF Accepted, RowFits, IInv, RowsInv
        <3>7. row'[d] = new /\ \A e \in Docs \ {d} : row'[e] = row[e]
            BY <3>2 DEF IInv, TypeOK
        <3> QED BY <3>2, <3>5, <3>6, <3>7, OneRow DEF IInv
    <2>2. CASE ~(LockIdentity(d, check[d]) = "UPDATED" /\ row[d].ext = check[d].ext)
        BY <1>1, <2>2, SameRows DEF SaveCheck
    <2> QED BY <2>1, <2>2
<1>2. CASE SaveCheckFailed(d)
    <2>1. /\ LockIdentity(d, check[d]) = "UPDATED" => row' = [row EXCEPT ![d].sync = "ERROR"]
          /\ LockIdentity(d, check[d]) # "UPDATED" => row' = row
          /\ UNCHANGED <<live, torn>>
        BY <1>2 DEF SaveCheckFailed
    <2> QED BY <2>1, LockIdentityValue, ErrorFits, SameRows
<1>3. CASE ListCheck(d) \/ StartCheck(d) \/ AnswerCheck(d) \/ SaveCheckFails(d)
    BY <1>3, SameRows DEF ListCheck, StartCheck, AnswerCheck, SaveCheckFails
<1> QED BY <1>1, <1>2, <1>3 DEF CheckStep

-----------------------------------------------------------------------------
(* JobsInv survives when only the job of d changes and the new one complies. *)
LEMMA FullJob ==
    ASSUME JobsInv, NEW d \in Docs, check' = check,
           \A e \in Docs \ {d} : full'[e] = full[e],
           full'[d].pc = "found" => full'[d].ext \in {None, full'[d].title}
    PROVE  JobsInv'
BY DEF JobsInv

LEMMA CheckJob ==
    ASSUME JobsInv, NEW d \in Docs, full' = full,
           \A e \in Docs \ {d} : check'[e] = check[e],
           check'[d].pc = "found" => check'[d].ext = check'[d].title
    PROVE  JobsInv'
BY DEF JobsInv

(* What Finish and Execute do to the jobs. *)
LEMMA FinishJob ==
    ASSUME TypeOK, NEW d \in Docs, NEW s, Finish(d, s)
    PROVE  full'[d].pc = "idle" /\ \A e \in Docs \ {d} : full'[e] = full[e]
BY DEF TypeOK, Finish, NoJob, Job

LEMMA ExecuteJob ==
    ASSUME TypeOK, JobsInv, NEW r \in Requests, NEW d \in Docs, NEW w,
           Execute(r, d, w), check' = check
    PROVE  JobsInv'
<1>1. CASE full[d].pc = "idle"
    <2>1. full'[d].pc = "started" /\ \A e \in Docs \ {d} : full'[e] = full[e]
        BY <1>1 DEF TypeOK, Execute, Job
    <2> QED BY <2>1, FullJob
<1>2. CASE full[d].pc # "idle"
    BY <1>2 DEF Execute, JobsInv
<1> QED BY <1>1, <1>2

LEMMA RequestStepJobs ==
    ASSUME IInv, NEW r \in Requests, RequestStep(r)
    PROVE  JobsInv'
<1> USE DEF IInv
<1>1. CASE Create(r)
    <2>1. PICK d \in Docs \ live, t \in Titles, c \in Categories :
            Execute(r, d, Identity(Target(NoRow, t, c)))
        BY <1>1 DEF Create
    <2> QED BY <1>1, <2>1, ExecuteJob DEF Create
<1>2. CASE AfterEdit(r)
    <2> DEFINE d == req[r].doc
    <2>1. CASE d \in live /\ Execute(r, d, Identity(row[d]))
        <3>1. d \in Docs
            BY <2>1 DEF TypeOK
        <3> QED BY <1>2, <2>1, <3>1, ExecuteJob DEF AfterEdit
    <2>2. CASE full' = full
        BY <1>2, <2>2 DEF AfterEdit, JobsInv
    <2> QED BY <1>2, <2>1, <2>2 DEF AfterEdit
<1>3. CASE CheckNow(r)
    <2>1. PICK d \in live : Execute(r, d, NoIdentity)
        BY <1>3 DEF CheckNow
    <2>2. d \in Docs
        BY <2>1 DEF TypeOK
    <2> QED BY <1>3, <2>1, <2>2, ExecuteJob DEF CheckNow
<1>4. CASE BeginEdit(r) \/ LoadForEdit(r) \/ SaveEdit(r) \/ Respond(r)
    <2>1. UNCHANGED <<full, check>>
        BY <1>4 DEF BeginEdit, LoadForEdit, SaveEdit, Respond
    <2> QED BY <2>1 DEF JobsInv
<1> QED BY <1>1, <1>2, <1>3, <1>4 DEF RequestStep

LEMMA FullStepJobs ==
    ASSUME IInv, NEW d \in Docs, FullStep(d)
    PROVE  JobsInv'
<1> USE DEF IInv
<1>1. check' = check
    BY DEF FullStep, ReadFull, AnswerFull, SaveFound, SaveAbsent, SaveLost, SaveFailed,
       SaveFullFails
<1>2. CASE \E s : Finish(d, s)
    BY <1>1, <1>2, FinishJob, FullJob
<1>3. CASE full' = [full EXCEPT ![d] =
                      Job("asking", row[d].title, row[d].category, row[d].ext)]
    <2>1. full'[d].pc = "asking" /\ \A e \in Docs \ {d} : full'[e] = full[e]
        BY <1>3 DEF TypeOK, Job
    <2> QED BY <1>1, <2>1, FullJob
<1>4. CASE AnswerFull(d)
    <2>1. PICK a \in {"found", "absent", "failed"} :
            /\ a = "found" => full[d].ext \in {None, full[d].title}
            /\ full' = [full EXCEPT ![d].pc = a]
        BY <1>4 DEF AnswerFull
    <2>2. /\ full'[d].pc = a /\ full'[d].ext = full[d].ext /\ full'[d].title = full[d].title
          /\ \A e \in Docs \ {d} : full'[e] = full[e]
        BY <2>1 DEF TypeOK, Jobs
    <2> QED BY <1>1, <2>1, <2>2, FullJob
<1>5. CASE full' = [full EXCEPT ![d].pc = "failed"]
    <2>1. full'[d].pc = "failed" /\ \A e \in Docs \ {d} : full'[e] = full[e]
        BY <1>5 DEF TypeOK, Jobs
    <2> QED BY <1>1, <2>1, FullJob
<1> QED BY <1>2, <1>3, <1>4, <1>5 DEF FullStep, ReadFull, SaveFound, SaveAbsent, SaveLost,
       SaveFailed, SaveFullFails

LEMMA CheckStepJobs ==
    ASSUME IInv, NEW d \in Docs, CheckStep(d)
    PROVE  JobsInv'
<1> USE DEF IInv
<1>1. full' = full
    BY DEF CheckStep, ListCheck, StartCheck, AnswerCheck, SaveCheck, SaveCheckFailed,
       SaveCheckFails
<1>2. CASE StartCheck(d)
    <2>1. check'[d].pc # "found" \/ check'[d] = check[d]
        BY <1>2 DEF StartCheck, TypeOK, Job
    <2>2. \A e \in Docs \ {d} : check'[e] = check[e]
        BY <1>2 DEF StartCheck, TypeOK
    <2> QED BY <1>1, <2>1, <2>2, CheckJob DEF JobsInv
<1>3. CASE AnswerCheck(d)
    <2>1. PICK a \in {"found", "failed"} :
            /\ a = "found" => check[d].ext = check[d].title
            /\ check' = [check EXCEPT ![d].pc = a]
        BY <1>3 DEF AnswerCheck
    <2>2. /\ check'[d].pc = a /\ check'[d].ext = check[d].ext /\ check'[d].title = check[d].title
          /\ \A e \in Docs \ {d} : check'[e] = check[e]
        BY <2>1 DEF TypeOK, Jobs
    <2> QED BY <1>1, <2>1, <2>2, CheckJob
<1>4. CASE check' = [check EXCEPT ![d] = NoJob]
    <2>1. check'[d].pc = "idle" /\ \A e \in Docs \ {d} : check'[e] = check[e]
        BY <1>4 DEF TypeOK, NoJob, Job
    <2> QED BY <1>1, <2>1, CheckJob
<1>5. CASE check' = [check EXCEPT ![d].pc = "failed"]
    <2>1. check'[d].pc = "failed" /\ \A e \in Docs \ {d} : check'[e] = check[e]
        BY <1>5 DEF TypeOK, Jobs
    <2> QED BY <1>1, <2>1, CheckJob
<1>6. CASE ListCheck(d)
    BY <1>1, <1>6 DEF ListCheck, JobsInv
<1> QED BY <1>2, <1>3, <1>4, <1>5, <1>6 DEF CheckStep, SaveCheck, SaveCheckFailed, SaveCheckFails

-----------------------------------------------------------------------------
(* The invariant is inductive. *)
LEMMA InitIInv == Init => IInv
<1> SUFFICES ASSUME Init PROVE IInv
    OBVIOUS
<1>1. TypeOK
    BY NullTypes DEF Init, TypeOK
<1>2. RowsInv /\ JobsInv
    BY DEF Init, RowsInv, JobsInv, NoJob, Job
<1> QED BY <1>1, <1>2 DEF IInv

LEMMA IInvStep == IInv /\ [Next]_vars => IInv'
<1> SUFFICES ASSUME IInv, [Next]_vars PROVE IInv'
    OBVIOUS
<1>1. TypeOK'
    BY TypeStep DEF IInv
<1>2. ASSUME NEW r \in Requests, RequestStep(r) PROVE RowsInv' /\ JobsInv'
    BY <1>2, RequestStepRows, RequestStepJobs
<1>3. ASSUME NEW d \in Docs, FullStep(d) PROVE RowsInv' /\ JobsInv'
    BY <1>3, FullStepRows, FullStepJobs
<1>4. ASSUME NEW d \in Docs, CheckStep(d) PROVE RowsInv' /\ JobsInv'
    BY <1>4, CheckStepRows, CheckStepJobs
<1>5. ASSUME NEW d \in Docs, Delete(d) PROVE RowsInv' /\ JobsInv'
    <2>1. JobsInv'
        BY <1>5 DEF Delete, IInv, JobsInv
    <2>2. /\ live' = live \ {d} /\ torn' = torn \ {d}
          /\ \A e \in Docs \ {d} : row'[e] = row[e]
        BY <1>5 DEF Delete, IInv, TypeOK
    <2> QED BY <2>1, <2>2, OneRow DEF IInv
<1>6. ASSUME NEW d \in Docs, StartFull(d) PROVE RowsInv' /\ JobsInv'
    <2>1. /\ full'[d].pc = "started" /\ \A e \in Docs \ {d} : full'[e] = full[e]
          /\ check' = check
        BY <1>6 DEF StartFull, IInv, TypeOK, Job
    <2>2. JobsInv'
        BY <2>1, FullJob DEF IInv
    <2> QED BY <1>6, <2>2, SameRows DEF StartFull
<1>7. CASE Crash
    <2>1. JobsInv'
        BY <1>7 DEF Crash, JobsInv, NoJob, Job
    <2>2. RowsInv'
        BY <1>7, SameRows DEF Crash
    <2> QED BY <1>1, <2>1, <2>2 DEF IInv
<1>8. CASE UNCHANGED vars
    <2>1. JobsInv'
        BY <1>8 DEF vars, IInv, JobsInv
    <2>2. RowsInv'
        BY <1>8, SameRows DEF vars
    <2> QED BY <1>1, <2>1, <2>2 DEF IInv
<1> QED BY <1>1, <1>2, <1>3, <1>4, <1>5, <1>6, <1>7, <1>8 DEF Next, IInv

LEMMA Invariance == Spec => []IInv
BY InitIInv, IInvStep, PTL DEF Spec

(* Every variable keeps its type, so the hook's resets and the stores of   *)
(* synchronisations and checks never leave a value the table cannot hold.  *)
THEOREM TypeCorrect == Spec => []TypeOK
<1>1. IInv => TypeOK
    BY DEF IInv
<1> QED BY <1>1, Invariance, PTL

(* For any number of documents, titles, categories and requests: a row     *)
(* that no edit has torn has registry data of its own title, or none.      *)
THEOREM RegistryDataAlwaysFit == Spec => []RegistryDataFit
<1>1. IInv => RegistryDataFit
    BY DEF IInv, RowsInv, RowFits, RegistryDataFit
<1> QED BY <1>1, Invariance, PTL

(* For any number of documents and requests: in a row that no edit has     *)
(* torn a PENDING leaves no status that would hide it from the full list,  *)
(* and a SUCCESS has the external id that the status list asks for.        *)
THEOREM NoRowForgotten == Spec => []NoRowIsForgotten
<1>1. IInv => NoRowIsForgotten
    BY DEF IInv, RowsInv, RowFits, NoRowIsForgotten
<1> QED BY <1>1, Invariance, PTL

-----------------------------------------------------------------------------
(* Only requests that wait for the synchronisation of d are told its result. *)
LEMMA FinishTells ==
    ASSUME TypeOK, NEW d \in Docs, NEW s, Finish(d, s), NEW r \in Requests,
           req[r].pc = "waiting", req'[r].pc = "told"
    PROVE  req[r].doc = d /\ req'[r].result = s
BY DEF TypeOK, Finish, Request

(* What the requests do tells nobody anything. *)
LEMMA RequestStepTellsNothing ==
    ASSUME TypeOK, NEW q \in Requests, RequestStep(q), NEW r \in Requests,
           req[r].pc = "waiting"
    PROVE  req'[r].pc # "told"
<1>1. ASSUME NEW d, NEW w, Execute(q, d, w) PROVE req'[r].pc = "waiting"
    BY <1>1 DEF Execute, Request, TypeOK
<1>2. CASE Create(q)
    <2>1. PICK d \in Docs \ live, t \in Titles, c \in Categories :
            Execute(q, d, Identity(Target(NoRow, t, c)))
        BY <1>2 DEF Create
    <2> QED BY <1>1, <2>1
<1>3. CASE AfterEdit(q)
    <2>1. q # r
        BY <1>3 DEF AfterEdit
    <2>2. CASE Execute(q, req[q].doc, Identity(row[req[q].doc]))
        BY <1>1, <2>2
    <2>3. CASE req' = [req EXCEPT ![q] = Idle]
        BY <2>1, <2>3 DEF TypeOK
    <2> QED BY <1>3, <2>2, <2>3 DEF AfterEdit
<1>4. CASE CheckNow(q)
    BY <1>1, <1>4 DEF CheckNow
<1>5. CASE BeginEdit(q) \/ LoadForEdit(q) \/ SaveEdit(q) \/ Respond(q)
    <2>1. q # r
        BY <1>5 DEF BeginEdit, LoadForEdit, SaveEdit, Respond
    <2>2. \E w : req' = [req EXCEPT ![q] = w]
        BY <1>5 DEF BeginEdit, LoadForEdit, SaveEdit, Respond
    <2> QED BY <2>1, <2>2 DEF TypeOK
<1> QED BY <1>2, <1>3, <1>4, <1>5 DEF RequestStep

(* A synchronisation tells SUCCESS or NOT_FOUND only as it stores it. *)
LEMMA FullStepTells ==
    ASSUME IInv, NEW d \in Docs, FullStep(d), NEW r \in Requests,
           req[r].pc = "waiting", req'[r].pc = "told"
    PROVE  LET w == row'[req[r].doc]
           IN  /\ req'[r].result = "SUCCESS" => w.sync = "SUCCESS" /\ w.ext = w.title
               /\ req'[r].result = "NOT_FOUND" => w.sync = "NOT_FOUND" /\ w.ext = None
<1>1. TypeOK
    BY DEF IInv
<1>2. CASE SaveFound(d)
    <2>1. CASE LockIdentity(d, full[d]) = "UPDATED"
        <3>1. /\ Finish(d, "SUCCESS")
              /\ row' = [row EXCEPT ![d] = Row(row[d].title, row[d].category, "SUCCESS",
                                               row[d].title, row[d].title, row[d].title)]
            BY <1>2, <2>1, FoundCard DEF SaveFound
        <3>2. row'[d].sync = "SUCCESS" /\ row'[d].ext = row'[d].title
            BY <1>1, <3>1 DEF TypeOK, Row
        <3>3. req[r].doc = d /\ req'[r].result = "SUCCESS"
            BY <1>1, <3>1, FinishTells
        <3> QED BY <3>2, <3>3
    <2>2. CASE LockIdentity(d, full[d]) # "UPDATED"
        <3>1. req'[r].result \in {"MISSING", "STALE"}
            BY <1>1, <1>2, <2>2, LockIdentityValue, FinishTells DEF SaveFound
        <3> QED BY <3>1
    <2> QED BY <2>1, <2>2
<1>3. CASE SaveAbsent(d)
    <2>1. CASE LockIdentity(d, full[d]) = "UPDATED"
        <3>1. /\ Finish(d, "NOT_FOUND")
              /\ row' = [row EXCEPT ![d] = Row(row[d].title, row[d].category, "NOT_FOUND",
                                               None, None, None)]
            BY <1>3, <2>1 DEF SaveAbsent
        <3>2. row'[d].sync = "NOT_FOUND" /\ row'[d].ext = None
            BY <1>1, <3>1 DEF TypeOK, Row
        <3>3. req[r].doc = d /\ req'[r].result = "NOT_FOUND"
            BY <1>1, <3>1, FinishTells
        <3> QED BY <3>2, <3>3
    <2>2. CASE LockIdentity(d, full[d]) # "UPDATED"
        <3>1. req'[r].result \in {"MISSING", "STALE"}
            BY <1>1, <1>3, <2>2, LockIdentityValue, FinishTells DEF SaveAbsent
        <3> QED BY <3>1
    <2> QED BY <2>1, <2>2
<1>4. CASE req' = req
    BY <1>4
<1>5. CASE \E s \in {"MISSING", "STALE", "NOT_REQUIRED", "ERROR", "FAILED"} : Finish(d, s)
    <2>1. req'[r].result \in {"MISSING", "STALE", "NOT_REQUIRED", "ERROR", "FAILED"}
        BY <1>1, <1>5, FinishTells
    <2> QED BY <2>1
<1>6. CASE ReadFull(d) \/ AnswerFull(d) \/ SaveLost(d) \/ SaveFailed(d) \/ SaveFullFails(d)
    BY <1>4, <1>5, <1>6, LockIdentityValue
       DEF ReadFull, AnswerFull, SaveLost, SaveFailed, SaveFullFails
<1> QED BY <1>2, <1>3, <1>6 DEF FullStep

(* For any number of documents and requests: whoever is told SUCCESS or    *)
(* NOT_FOUND, the callers that joined a running synchronisation included,  *)
(* is told what the row says of its current title at that moment.          *)
THEOREM ToldAlwaysStored == Spec => ToldIsStored
<1> DEFINE Told ==
        \A r \in Requests :
            req[r].pc = "waiting" /\ req'[r].pc = "told" =>
                LET w == row'[req[r].doc]
                IN  /\ req'[r].result = "SUCCESS" =>
                         w.sync = "SUCCESS" /\ w.ext = w.title
                    /\ req'[r].result = "NOT_FOUND" =>
                         w.sync = "NOT_FOUND" /\ w.ext = None
<1>1. IInv /\ [Next]_vars => [Told]_vars
    <2> SUFFICES ASSUME IInv, Next, NEW r \in Requests,
                        req[r].pc = "waiting", req'[r].pc = "told"
                 PROVE  LET w == row'[req[r].doc]
                        IN  /\ req'[r].result = "SUCCESS" =>
                                 w.sync = "SUCCESS" /\ w.ext = w.title
                            /\ req'[r].result = "NOT_FOUND" =>
                                 w.sync = "NOT_FOUND" /\ w.ext = None
        BY DEF vars
    <2>1. ASSUME NEW q \in Requests, RequestStep(q) PROVE FALSE
        BY <2>1, RequestStepTellsNothing DEF IInv
    <2>2. ASSUME NEW d \in Docs, Delete(d) \/ StartFull(d) \/ CheckStep(d) PROVE FALSE
        <3>1. req' = req
            BY <2>2 DEF Delete, StartFull, CheckStep, ListCheck, StartCheck, AnswerCheck,
               SaveCheck, SaveCheckFailed, SaveCheckFails
        <3> QED BY <3>1
    <2>3. ASSUME Crash PROVE FALSE
        BY <2>3 DEF Crash, Idle, Request
    <2> QED BY <2>1, <2>2, <2>3, FullStepTells DEF Next
<1> QED BY <1>1, Invariance, PTL DEF Spec, ToldIsStored

-----------------------------------------------------------------------------
(* PermitSync implements RegistryMirror.  A job that asks without an       *)
(* external id will find none in the row: only its own SaveFound gives one. *)
TitlesInv == \A d \in live : row[d].title \in Titles

AskedWithoutId(d) == full[d].pc \in {"asking", "absent"} /\ full[d].ext = None

AbsenceInv == \A d \in live : AskedWithoutId(d) => row[d].ext = None

(* A row that is rewritten keeps a title, and gets no external id unless   *)
(* the job that writes it ends.                                            *)
LEMMA OneRowAsked ==
    ASSUME TitlesInv, AbsenceInv, NEW d \in Docs, live' \subseteq live \cup {d},
           \A e \in Docs \ {d} : row'[e] = row[e] /\ full'[e] = full[e],
           live \subseteq Docs,
           d \in live' => row'[d].title \in Titles,
           d \in live' => (AskedWithoutId(d)' => row'[d].ext = None)
    PROVE  TitlesInv' /\ AbsenceInv'
<1> SUFFICES ASSUME NEW e \in live'
             PROVE  row'[e].title \in Titles /\ (AskedWithoutId(e)' => row'[e].ext = None)
    BY DEF TitlesInv, AbsenceInv, AskedWithoutId
<1>1. CASE e = d
    BY <1>1
<1>2. CASE e # d
    <2>1. e \in live /\ e \in Docs \ {d}
        BY <1>2
    <2>2. row'[e] = row[e] /\ full'[e] = full[e]
        BY <2>1
    <2> QED BY <2>1, <2>2 DEF TitlesInv, AbsenceInv, AskedWithoutId
<1> QED BY <1>1, <1>2

(* An edit keeps the external id or drops it, and writes a title. *)
LEMMA WrittenColumns ==
    ASSUME NEW loaded \in Rows, NEW t \in Titles, NEW c \in Categories, NEW now \in Rows,
           NEW regs
    PROVE  LET new == Written(loaded, Target(loaded, t, c), now, regs)
           IN  /\ new.ext \in {None, now.ext}
               /\ new.title \in {t, now.title}
               /\ ~Resets(loaded, t, c) => /\ new.title = now.title /\ new.sync = now.sync
                                           /\ new.ext = now.ext /\ new.status = now.status
               /\ new.regs = regs
<1> DEFINE target == Target(loaded, t, c)
           new == Written(loaded, target, now, regs)
<1>1. CASE Resets(loaded, t, c)
    <2>1. target.ext = None /\ target.title = t
        BY <1>1 DEF Target, Resets, OwnData, Pending, Row
    <2> QED BY <1>1, <2>1 DEF Written, Row
<1>2. CASE ~Resets(loaded, t, c)
    <2>1. target = [loaded EXCEPT !.category = c]
        BY <1>2 DEF Target, Resets
    <2>2. /\ target.title = loaded.title /\ target.sync = loaded.sync
          /\ target.ext = loaded.ext /\ target.status = loaded.status
        BY <2>1 DEF Rows
    <2> QED BY <1>2, <2>2 DEF Written, Row
<1> QED BY <1>1, <1>2

(* What SaveEdit does to a row that is still there. *)
LEMMA EditOfRow ==
    ASSUME IInv, NEW r \in Requests, SaveEdit(r), req[r].doc \in live
    PROVE  \E loaded \in Rows, t \in Titles, c \in Categories, regs \in Sources :
             LET d == req[r].doc
                 target == Target(loaded, t, c)
                 new == Written(loaded, target, row[d], regs)
             IN  /\ d \in Docs /\ live' = live /\ full' = full
                 /\ new \in Rows /\ CategoryFits(new)
                 /\ row' = [row EXCEPT ![d] = new]
                 /\ regs \in Links(c, Resets(loaded, t, c), row[d].regs)
                 /\ torn' = IF ~Resets(loaded, t, c) THEN torn
                            ELSE IF /\ new.sync = target.sync
                                    /\ new.ext = target.ext
                                    /\ new.status = target.status
                            THEN torn \ {d} ELSE torn \cup {d}
<1> DEFINE d == req[r].doc
           loaded == req[r].loaded
<1>1. loaded \in Rows /\ d \in Docs /\ row[d] \in Rows
    BY DEF IInv, TypeOK, RequestStates
<1>2. PICK t \in Titles, c \in Categories :
        \E regs \in Links(c, Resets(loaded, t, c), row[d].regs) :
            LET target == Target(loaded, t, c)
                new == Written(loaded, target, row[d], regs)
            IN  /\ Accepted(d, new)
                /\ row' = [row EXCEPT ![d] = new]
                /\ torn' = IF ~Resets(loaded, t, c) THEN torn
                           ELSE IF /\ new.sync = target.sync
                                   /\ new.ext = target.ext
                                   /\ new.status = target.status
                           THEN torn \ {d} ELSE torn \cup {d}
    BY DEF SaveEdit
<1>3. PICK regs \in Links(c, Resets(loaded, t, c), row[d].regs) :
        LET target == Target(loaded, t, c)
            new == Written(loaded, target, row[d], regs)
        IN  /\ Accepted(d, new)
            /\ row' = [row EXCEPT ![d] = new]
            /\ torn' = IF ~Resets(loaded, t, c) THEN torn
                       ELSE IF /\ new.sync = target.sync
                               /\ new.ext = target.ext
                               /\ new.status = target.status
                       THEN torn \ {d} ELSE torn \cup {d}
    BY <1>2
<1>4. regs \in Sources
    BY <1>1, <1>3 DEF Links, Rows, Sources
<1>5. Written(loaded, Target(loaded, t, c), row[d], regs) \in Rows
    BY <1>1, <1>4, TargetType, WrittenType
<1>6. CategoryFits(Written(loaded, Target(loaded, t, c), row[d], regs))
    BY <1>3 DEF Accepted, CategoryFits
<1>7. live' = live /\ full' = full
    BY DEF SaveEdit
<1> USE <1>1, <1>4
<1> WITNESS loaded \in Rows, t \in Titles, c \in Categories, regs \in Sources
<1> QED BY <1>1, <1>3, <1>5, <1>6, <1>7

LEMMA RequestStepAsked ==
    ASSUME IInv, TitlesInv, AbsenceInv, NEW r \in Requests, RequestStep(r)
    PROVE  TitlesInv' /\ AbsenceInv'
<1>0. TypeOK
    BY DEF IInv
<1>1. CASE Create(r)
    <2>1. PICK d \in Docs \ live, t \in Titles, c \in Categories :
            /\ full[d].pc = "idle"
            /\ live' = live \cup {d}
            /\ row' = [row EXCEPT ![d] = Target(NoRow, t, c)]
            /\ Execute(r, d, Identity(Target(NoRow, t, c)))
        BY <1>1 DEF Create
    <2>2. row'[d].title = t
        BY <1>0, <2>1 DEF TypeOK, Target, NoRow, OwnData, Pending, Row
    <2>3. full'[d].pc = "started"
        BY <1>0, <2>1 DEF TypeOK, Execute, Job
    <2>4. \A e \in Docs \ {d} : row'[e] = row[e] /\ full'[e] = full[e]
        BY <1>0, <2>1 DEF TypeOK, Execute
    <2> QED BY <1>0, <2>1, <2>2, <2>3, <2>4, OneRowAsked DEF TypeOK, AskedWithoutId
<1>2. CASE SaveEdit(r) /\ req[r].doc \in live
    <2>0. PICK d \in live : d = req[r].doc
        BY <1>2
    <2>1. PICK loaded \in Rows, t \in Titles, c \in Categories, regs \in Sources :
            /\ d \in Docs /\ live' = live /\ full' = full
            /\ row' = [row EXCEPT ![d] = Written(loaded, Target(loaded, t, c), row[d], regs)]
        BY <1>2, <2>0, EditOfRow
    <2>2. /\ row'[d] = Written(loaded, Target(loaded, t, c), row[d], regs)
          /\ row[d] \in Rows
          /\ \A e \in Docs \ {d} : row'[e] = row[e]
        BY <1>0, <2>1 DEF TypeOK
    <2>3. row'[d].ext \in {None, row[d].ext} /\ row'[d].title \in {t, row[d].title}
        BY <2>2, WrittenColumns
    <2>4. row[d].title \in Titles /\ (AskedWithoutId(d)' => row'[d].ext = None)
        BY <2>1, <2>3 DEF TitlesInv, AbsenceInv, AskedWithoutId
    <2>5. row'[d].title \in Titles
        BY <2>3, <2>4
    <2> QED BY <1>0, <2>1, <2>2, <2>4, <2>5, OneRowAsked DEF TypeOK
<1>3. CASE SaveEdit(r) /\ req[r].doc \notin live
    <2>1. UNCHANGED <<live, row, full>>
        BY <1>3 DEF SaveEdit
    <2> QED BY <2>1 DEF TitlesInv, AbsenceInv, AskedWithoutId
<1>4. ASSUME UNCHANGED <<live, row>>,
             \A e \in Docs : full'[e] = full[e] \/ full'[e].pc = "started"
      PROVE  TitlesInv' /\ AbsenceInv'
    BY <1>0, <1>4 DEF TypeOK, TitlesInv, AbsenceInv, AskedWithoutId
<1>5. ASSUME NEW d, NEW w, Execute(r, d, w)
      PROVE  \A e \in Docs : full'[e] = full[e] \/ full'[e].pc = "started"
    BY <1>0, <1>5 DEF TypeOK, Execute, Job
<1>6. CASE AfterEdit(r)
    BY <1>4, <1>5, <1>6 DEF AfterEdit
<1>7. CASE CheckNow(r)
    BY <1>4, <1>5, <1>7 DEF CheckNow
<1>8. CASE BeginEdit(r) \/ LoadForEdit(r) \/ Respond(r)
    BY <1>4, <1>8 DEF BeginEdit, LoadForEdit, Respond
<1> QED BY <1>1, <1>2, <1>3, <1>6, <1>7, <1>8 DEF RequestStep

LEMMA FullStepAsked ==
    ASSUME IInv, TitlesInv, AbsenceInv, NEW d \in Docs, FullStep(d)
    PROVE  TitlesInv' /\ AbsenceInv'
<1>0. TypeOK /\ live' = live /\ live \subseteq Docs
    BY DEF IInv, TypeOK, FullStep, ReadFull, AnswerFull, SaveFound, SaveAbsent, SaveLost,
       SaveFailed, SaveFullFails
<1>1. \A e \in Docs \ {d} : row'[e] = row[e] /\ full'[e] = full[e]
    <2>1. \A e \in Docs \ {d} : full'[e] = full[e]
        BY <1>0 DEF TypeOK, FullStep, ReadFull, AnswerFull, SaveFound, SaveAbsent, SaveLost,
           SaveFailed, SaveFullFails, Finish
    <2>2. \A e \in Docs \ {d} : row'[e] = row[e]
        BY <1>0 DEF TypeOK, FullStep, ReadFull, AnswerFull, SaveFound, SaveAbsent, SaveLost,
           SaveFailed, SaveFullFails
    <2> QED BY <2>1, <2>2
<1>2. row'[d].title = row[d].title
    <2>1. row[d] \in Rows
        BY <1>0 DEF TypeOK
    <2> QED BY <1>0, <2>1 DEF TypeOK, Rows, FullStep, ReadFull, AnswerFull, SaveFound, SaveAbsent,
              SaveLost, SaveFailed, SaveFullFails, Row
<1>3. ASSUME d \in live, AskedWithoutId(d)' PROVE row'[d].ext = None
    <2>1. ASSUME NEW s, Finish(d, s) PROVE FALSE
        BY <1>0, <1>3, <2>1, FinishJob DEF AskedWithoutId
    <2>2. row' = row
        BY <2>1 DEF FullStep, ReadFull, AnswerFull, SaveFound, SaveAbsent, SaveLost, SaveFailed,
           SaveFullFails
    <2>3. CASE ReadFull(d)
        <3>1. full'[d] = Job("asking", row[d].title, row[d].category, row[d].ext)
            BY <1>0, <2>1, <2>3 DEF ReadFull, TypeOK
        <3> QED BY <1>3, <2>2, <3>1 DEF Job, AskedWithoutId
    <2>4. CASE AnswerFull(d)
        <3>1. full[d].pc = "asking" /\ full'[d].ext = full[d].ext
            BY <1>0, <2>4 DEF AnswerFull, TypeOK, Jobs
        <3> QED BY <1>3, <2>2, <3>1 DEF AbsenceInv, AskedWithoutId
    <2>5. CASE SaveFullFails(d)
        <3>1. full'[d].pc = "failed"
            BY <1>0, <2>1, <2>5 DEF SaveFullFails, TypeOK, Jobs
        <3> QED BY <1>3, <3>1 DEF AskedWithoutId
    <2> QED BY <2>1, <2>3, <2>4, <2>5 DEF FullStep, SaveFound, SaveAbsent, SaveLost, SaveFailed
<1>4. d \in live' => row'[d].title \in Titles
    BY <1>0, <1>2 DEF TitlesInv
<1> QED BY <1>0, <1>1, <1>3, <1>4, OneRowAsked

LEMMA CheckStepAsked ==
    ASSUME IInv, TitlesInv, AbsenceInv, NEW d \in Docs, CheckStep(d)
    PROVE  TitlesInv' /\ AbsenceInv'
<1>0. TypeOK /\ live' = live /\ live \subseteq Docs /\ full' = full
    BY DEF IInv, TypeOK, CheckStep, ListCheck, StartCheck, AnswerCheck, SaveCheck,
       SaveCheckFailed, SaveCheckFails
<1>1. \A e \in Docs \ {d} : row'[e] = row[e] /\ full'[e] = full[e]
    BY <1>0 DEF TypeOK, CheckStep, ListCheck, StartCheck, AnswerCheck, SaveCheck,
       SaveCheckFailed, SaveCheckFails
<1>2. row'[d].title = row[d].title /\ row'[d].ext = row[d].ext
    <2>1. row[d] \in Rows
        BY <1>0 DEF TypeOK
    <2>2. CASE SaveCheck(d)
        <3>1. \/ row' = row
              \/ row' = [row EXCEPT ![d] =
                           [row[d] EXCEPT !.status = check[d].title, !.sync = "SUCCESS"]]
            BY <2>2 DEF SaveCheck
        <3> QED BY <1>0, <2>1, <3>1 DEF TypeOK, Rows
    <2>3. CASE row' = row \/ row' = [row EXCEPT ![d].sync = "ERROR"]
        BY <1>0, <2>1, <2>3 DEF TypeOK, Rows
    <2> QED BY <2>2, <2>3 DEF CheckStep, ListCheck, StartCheck, AnswerCheck, SaveCheckFailed,
              SaveCheckFails
<1>3. d \in live' => row'[d].title \in Titles
    BY <1>0, <1>2 DEF TitlesInv
<1>4. d \in live' => (AskedWithoutId(d)' => row'[d].ext = None)
    BY <1>0, <1>2 DEF AbsenceInv, AskedWithoutId
<1> QED BY <1>0, <1>1, <1>3, <1>4, OneRowAsked

MirrorInv == IInv /\ TitlesInv /\ AbsenceInv

LEMMA MirrorInvStep == MirrorInv /\ [Next]_vars => MirrorInv'
<1> SUFFICES ASSUME MirrorInv, [Next]_vars PROVE MirrorInv'
    OBVIOUS
<1> USE DEF MirrorInv
<1>0. IInv'
    BY IInvStep
<1>1. ASSUME NEW d \in Docs, Delete(d) PROVE TitlesInv' /\ AbsenceInv'
    <2>1. /\ live' = live \ {d} /\ full' = full
          /\ \A e \in Docs \ {d} : row'[e] = row[e]
          /\ live \subseteq Docs
        BY <1>1 DEF Delete, IInv, TypeOK
    <2> QED BY <2>1, OneRowAsked
<1>2. ASSUME UNCHANGED <<live, row>>,
             \A e \in Docs : full'[e] = full[e] \/ full'[e].pc \in {"started", "idle"}
      PROVE  TitlesInv' /\ AbsenceInv'
    BY <1>2 DEF IInv, TypeOK, TitlesInv, AbsenceInv, AskedWithoutId
<1>3. ASSUME NEW d \in Docs, StartFull(d) PROVE TitlesInv' /\ AbsenceInv'
    BY <1>2, <1>3 DEF StartFull, IInv, TypeOK, Job
<1>4. CASE Crash
    <2>1. \A e \in Docs : full'[e].pc = "idle"
        BY <1>4 DEF Crash, NoJob, Job
    <2>2. UNCHANGED <<live, row>>
        BY <1>4 DEF Crash
    <2> QED BY <1>0, <1>2, <2>1, <2>2
<1>5. CASE UNCHANGED vars
    <2>1. UNCHANGED <<live, row, full>>
        BY <1>5 DEF vars
    <2> QED BY <1>0, <1>2, <2>1
<1> QED BY <1>0, <1>1, <1>3, <1>4, <1>5, RequestStepAsked, FullStepAsked, CheckStepAsked DEF Next

LEMMA MirrorInvariance == Spec => []MirrorInv
<1>1. Init => TitlesInv /\ AbsenceInv
    BY DEF Init, TitlesInv, AbsenceInv
<1> QED BY <1>1, InitIInv, MirrorInvStep, PTL DEF Spec, MirrorInv

-----------------------------------------------------------------------------
(* What is shown of a row that fits. *)
LEMMA ShownOfRow ==
    ASSUME NEW w, RowFits(w), w.title # None
    PROVE  Shown(w) = IF w.category = Voluntary THEN "own"
                      ELSE IF w.ext = None THEN "none" ELSE "title"
<1>1. CASE w.category = Voluntary
    BY <1>1 DEF RowFits, Shown
<1>2. CASE w.category # Voluntary /\ w.ext = None
    BY <1>2 DEF RowFits, Shown
<1>3. CASE w.category # Voluntary /\ w.ext = w.title
    BY <1>3 DEF RowFits, Shown
<1> QED BY <1>1, <1>2, <1>3 DEF RowFits

Pages == [d \in Docs |-> PageOf(d)]

APage(t, sync, data) == [title |-> t, sync |-> sync, data |-> data]

(* The page of a document with a row, by the row. *)
LEMMA PageOfRow ==
    ASSUME MirrorInv, NEW d \in live
    PROVE  /\ d \in torn => Pages[d] = APage(row[d].title, "any", "torn")
           /\ d \notin torn /\ row[d].category = Voluntary =>
                Pages[d] = APage(row[d].title, "NOT_REQUIRED", "own")
           /\ d \notin torn /\ row[d].category # Voluntary /\ row[d].ext = None =>
                Pages[d] = APage(row[d].title, row[d].sync, "none")
           /\ d \notin torn /\ row[d].category # Voluntary /\ row[d].ext # None =>
                Pages[d] = APage(row[d].title, row[d].sync, "title")
<1>1. d \in Docs /\ CategoryFits(row[d]) /\ (d \notin torn => RowFits(row[d]))
    BY DEF MirrorInv, IInv, TypeOK, RowsInv
<1>2. row[d].title # None
    BY NullAssumption DEF MirrorInv, TitlesInv
<1>3. Pages[d] = IF d \in torn THEN APage(row[d].title, "any", "torn")
                 ELSE APage(row[d].title, row[d].sync, Shown(row[d]))
    BY <1>1 DEF Pages, PageOf, APage
<1> QED BY <1>1, <1>2, <1>3, ShownOfRow DEF CategoryFits

(* Its parts. *)
LEMMA PageParts ==
    ASSUME MirrorInv, NEW d \in live
    PROVE  /\ Pages[d].title = row[d].title
           /\ Pages[d].data = IF d \in torn THEN "torn"
                              ELSE IF row[d].category = Voluntary THEN "own"
                              ELSE IF row[d].ext = None THEN "none" ELSE "title"
<1>1. ASSUME NEW t, NEW s, NEW x, Pages[d] = APage(t, s, x)
      PROVE  Pages[d].title = t /\ Pages[d].data = x
    BY <1>1 DEF APage
<1>2. CASE d \in torn
    BY <1>1, <1>2, PageOfRow
<1>3. CASE d \notin torn /\ row[d].category = Voluntary
    BY <1>1, <1>3, PageOfRow
<1>4. CASE d \notin torn /\ row[d].category # Voluntary /\ row[d].ext = None
    BY <1>1, <1>4, PageOfRow
<1>5. CASE d \notin torn /\ row[d].category # Voluntary /\ row[d].ext # None
    BY <1>1, <1>5, PageOfRow
<1> QED BY <1>2, <1>3, <1>4, <1>5

LEMMA PageOfNoRow ==
    ASSUME NEW d \in Docs, d \notin live
    PROVE  Pages[d] = APage(None, "NOT_REQUIRED", "gone")
BY DEF Pages, PageOf, APage

(* A step on one document changes one page. *)
LEMMA OnePage ==
    ASSUME NEW d \in Docs,
           \A e \in Docs \ {d} : /\ row'[e] = row[e]
                                 /\ e \in live' <=> e \in live
                                 /\ e \in torn' <=> e \in torn
    PROVE  Pages' = [Pages EXCEPT ![d] = Pages'[d]]
<1>1. ASSUME NEW e \in Docs \ {d} PROVE PageOf(e)' = PageOf(e)
    <2>1. row'[e] = row[e] /\ (e \in live' <=> e \in live) /\ (e \in torn' <=> e \in torn)
        BY <1>1
    <2> QED BY <2>1 DEF PageOf, Shown
<1>2. Pages' = [e \in Docs |-> PageOf(e)']
    BY DEF Pages
<1>3. Pages' = [e \in Docs |-> IF e = d THEN Pages'[d] ELSE PageOf(e)]
    BY <1>1, <1>2
<1> QED BY <1>3 DEF Pages

LEMMA SamePages ==
    ASSUME UNCHANGED <<live, row, torn>>
    PROVE  Pages' = Pages
BY DEF Pages, PageOf, Shown

(* Steps of RegistryMirror, stated of Pages. *)
LEMMA MirrorPage == Mirror!NoPage = APage(None, "NOT_REQUIRED", "gone")
BY DEF Mirror!NoPage, Mirror!Page, APage

LEMMA MirrorEnter ==
    ASSUME NEW d \in Docs, NEW t \in Titles, Pages[d].data = "gone",
           NEW p, p = APage(t, "NOT_REQUIRED", "own") \/ p = APage(t, "PENDING", "none"),
           Pages' = [Pages EXCEPT ![d] = p]
    PROVE  Mirror!Next
BY DEF Mirror!Next, Mirror!Enter, Mirror!Typed, Mirror!Unasked, Mirror!Page, Pages, APage

LEMMA MirrorEdit ==
    ASSUME NEW d \in Docs, NEW t \in Titles, Pages[d].data # "gone",
           NEW p, \/ p = APage(t, "NOT_REQUIRED", "own") \/ p = APage(t, "PENDING", "none")
                  \/ p = APage(t, "any", "torn"),
           Pages' = [Pages EXCEPT ![d] = p]
    PROVE  Mirror!Next
BY DEF Mirror!Next, Mirror!Edit, Mirror!Typed, Mirror!Unasked, Mirror!Torn, Mirror!Page, Pages,
   APage

LEMMA MirrorRemove ==
    ASSUME NEW d \in Docs, Pages[d].data # "gone",
           Pages' = [Pages EXCEPT ![d] = APage(None, "NOT_REQUIRED", "gone")]
    PROVE  Mirror!Next
BY MirrorPage DEF Mirror!Next, Mirror!Remove, Pages

LEMMA MirrorFound ==
    ASSUME NEW d \in Docs, Pages[d].data \in {"none", "title", "torn"},
           Pages' = [Pages EXCEPT ![d] = APage(Pages[d].title, "SUCCESS", "title")]
    PROVE  Mirror!Next
BY DEF Mirror!Next, Mirror!Found, Mirror!Heard, Mirror!Page, Pages, APage

LEMMA MirrorAbsent ==
    ASSUME NEW d \in Docs, Pages[d].data \in {"none", "torn"},
           Pages' = [Pages EXCEPT ![d] = APage(Pages[d].title, "NOT_FOUND", "none")]
    PROVE  Mirror!Next
BY DEF Mirror!Next, Mirror!Absent, Mirror!Heard, Mirror!Page, Pages, APage

LEMMA MirrorFailed ==
    ASSUME NEW d \in Docs, Pages[d].data \in {"none", "title"},
           Pages' = [Pages EXCEPT ![d] = APage(Pages[d].title, "ERROR", Pages[d].data)]
    PROVE  Mirror!Next
BY DEF Mirror!Next, Mirror!Failed, Mirror!Heard, Mirror!Page, Pages, APage

(* PageOfRow, of the page after a step. *)
LEMMA NextPageOfRow ==
    ASSUME MirrorInv', NEW d \in live'
    PROVE  /\ d \in torn' => Pages'[d] = APage(row'[d].title, "any", "torn")
           /\ d \notin torn' /\ row'[d].category = Voluntary =>
                Pages'[d] = APage(row'[d].title, "NOT_REQUIRED", "own")
           /\ d \notin torn' /\ row'[d].category # Voluntary /\ row'[d].ext = None =>
                Pages'[d] = APage(row'[d].title, row'[d].sync, "none")
           /\ d \notin torn' /\ row'[d].category # Voluntary /\ row'[d].ext # None =>
                Pages'[d] = APage(row'[d].title, row'[d].sync, "title")
<1>1. d \in Docs /\ CategoryFits(row'[d]) /\ (d \notin torn' => RowFits(row'[d]))
    BY DEF MirrorInv, IInv, TypeOK, RowsInv, CategoryFits, RowFits
<1>2. row'[d].title # None
    BY NullAssumption DEF MirrorInv, TitlesInv
<1>3. Pages'[d] = IF d \in torn' THEN APage(row'[d].title, "any", "torn")
                  ELSE APage(row'[d].title, row'[d].sync, Shown(row'[d]))
    BY <1>1 DEF Pages, PageOf, APage, Shown
<1> QED BY <1>1, <1>2, <1>3, ShownOfRow DEF CategoryFits

LEMMA RequestStepMirrored ==
    ASSUME MirrorInv, MirrorInv', NEW r \in Requests, RequestStep(r)
    PROVE  Mirror!Next \/ Pages' = Pages
<1>0. TypeOK
    BY DEF MirrorInv, IInv
<1>1. CASE Create(r)
    <2>1. PICK d \in Docs \ live, t \in Titles, c \in Categories :
            /\ live' = live \cup {d}
            /\ row' = [row EXCEPT ![d] = Target(NoRow, t, c)]
            /\ torn' = torn \ {d}
        BY <1>1 DEF Create
    <2>2. row'[d] = Target(NoRow, t, c)
        BY <1>0, <2>1 DEF TypeOK
    <2>3. /\ row'[d].title = t
          /\ row'[d].ext = None
          /\ row'[d].category # Voluntary => row'[d].sync = "PENDING"
        BY <2>2 DEF Target, NoRow, OwnData, Pending, Row
    <2>4. /\ d \in live' /\ d \notin torn'
          /\ \A e \in Docs \ {d} : /\ row'[e] = row[e]
                                   /\ e \in live' <=> e \in live
                                   /\ e \in torn' <=> e \in torn
        BY <1>0, <2>1 DEF TypeOK
    <2>5. \/ Pages'[d] = APage(t, "NOT_REQUIRED", "own")
          \/ Pages'[d] = APage(t, "PENDING", "none")
        BY <2>3, <2>4, NextPageOfRow
    <2>6. Pages' = [Pages EXCEPT ![d] = Pages'[d]]
        BY <2>4, OnePage
    <2>7. Pages[d].data = "gone"
        BY PageOfNoRow DEF APage
    <2> QED BY <2>5, <2>6, <2>7, MirrorEnter
<1>2. CASE SaveEdit(r) /\ req[r].doc \in live
    <2>0. PICK d \in live : d = req[r].doc
        BY <1>2
    <2>1. PICK loaded \in Rows, t \in Titles, c \in Categories, regs \in Sources :
            LET target == Target(loaded, t, c)
                new == Written(loaded, target, row[d], regs)
            IN  /\ d \in Docs /\ live' = live
                /\ new \in Rows /\ CategoryFits(new)
                /\ row' = [row EXCEPT ![d] = new]
                /\ regs \in Links(c, Resets(loaded, t, c), row[d].regs)
                /\ torn' = IF ~Resets(loaded, t, c) THEN torn
                           ELSE IF /\ new.sync = target.sync
                                   /\ new.ext = target.ext
                                   /\ new.status = target.status
                           THEN torn \ {d} ELSE torn \cup {d}
        BY <1>2, <2>0, EditOfRow DEF MirrorInv
    <2> DEFINE target == Target(loaded, t, c)
               new == Written(loaded, target, row[d], regs)
    <2>2. /\ row'[d] = new /\ row[d] \in Rows
          /\ \A e \in Docs \ {d} : /\ row'[e] = row[e]
                                   /\ e \in live' <=> e \in live
                                   /\ e \in torn' <=> e \in torn
        BY <1>0, <2>1 DEF TypeOK
    <2>3. Pages' = [Pages EXCEPT ![d] = Pages'[d]]
        BY <2>1, <2>2, OnePage
    <2>4. CASE ~Resets(loaded, t, c)
        <3>1. /\ row'[d].title = row[d].title /\ row'[d].sync = row[d].sync
              /\ row'[d].ext = row[d].ext
            BY <2>2, <2>4, WrittenColumns
        <3>2. CategoryFits(row[d]) /\ CategoryFits(row'[d])
            BY <2>1, <2>2 DEF MirrorInv, IInv, RowsInv
        <3>3. (row'[d].category = Voluntary) <=> (row[d].category = Voluntary)
            BY <3>1, <3>2 DEF CategoryFits
        <3>4. (d \in torn' <=> d \in torn) /\ d \in live'
            BY <2>1, <2>4
        <3>5. Pages'[d] = Pages[d]
            BY <3>1, <3>3, <3>4, PageOfRow, NextPageOfRow
        <3> QED BY <2>3, <3>5 DEF Pages
    <2>5. CASE Resets(loaded, t, c)
        <3>1. new.title \in Titles /\ d \in live'
            BY <2>1, <2>2, MirrorInv' DEF MirrorInv, TitlesInv
        <3>2. Pages[d].data # "gone"
            BY PageParts
        <3>3. CASE d \in torn'
            <4>1. Pages'[d] = APage(new.title, "any", "torn")
                BY <2>2, <3>1, <3>3, NextPageOfRow
            <4> HIDE DEF new
            <4> QED BY <2>1, <2>3, <3>1, <3>2, <4>1, MirrorEdit
        <3>4. CASE d \notin torn'
            <4>1. new.sync = target.sync /\ new.ext = target.ext
                BY <2>1, <2>5, <3>4
            <4>2. target.ext = None /\ (c # Voluntary => target.sync = "PENDING")
                BY <2>5 DEF Target, Resets, OwnData, Pending, Row
            <4>3. c = Voluntary => target.sync = "NOT_REQUIRED"
                BY DEF Target, OwnData, Row
            <4>4. CategoryFits(new)
                BY <2>1
            <4> HIDE DEF new, target
            <4>5. new.ext = None /\ (new.category # Voluntary => new.sync = "PENDING")
                BY <4>1, <4>2, <4>3, <4>4 DEF CategoryFits
            <4>6. \/ Pages'[d] = APage(new.title, "NOT_REQUIRED", "own")
                  \/ Pages'[d] = APage(new.title, "PENDING", "none")
                BY <2>2, <3>1, <3>4, <4>5, NextPageOfRow
            <4> QED BY <2>1, <2>3, <3>1, <3>2, <4>6, MirrorEdit
        <3> QED BY <3>3, <3>4
    <2> QED BY <2>4, <2>5
<1>3. CASE SaveEdit(r) /\ req[r].doc \notin live
    <2>1. UNCHANGED <<live, row, torn>>
        BY <1>3 DEF SaveEdit
    <2> QED BY <2>1, SamePages
<1>4. CASE BeginEdit(r) \/ LoadForEdit(r) \/ AfterEdit(r) \/ CheckNow(r) \/ Respond(r)
    <2>1. UNCHANGED <<live, row, torn>>
        BY <1>4 DEF BeginEdit, LoadForEdit, AfterEdit, CheckNow, Respond
    <2> QED BY <2>1, SamePages
<1> QED BY <1>1, <1>2, <1>3, <1>4 DEF RequestStep

(* An error that is stored changes the sync status of the page, or nothing *)
(* in a torn row.                                                          *)
LEMMA ErrorMirrored ==
    ASSUME MirrorInv, MirrorInv', NEW d \in live, row[d].category # Voluntary,
           row' = [row EXCEPT ![d].sync = "ERROR"], UNCHANGED <<live, torn>>
    PROVE  Mirror!Next \/ Pages' = Pages
<1>1. d \in Docs /\ d \in live' /\ row[d] \in Rows /\ (d \in torn' <=> d \in torn)
    BY DEF MirrorInv, IInv, TypeOK
<1>2. /\ row'[d] = [row[d] EXCEPT !.sync = "ERROR"]
      /\ \A e \in Docs \ {d} : /\ row'[e] = row[e]
                               /\ e \in live' <=> e \in live
                               /\ e \in torn' <=> e \in torn
    BY <1>1 DEF MirrorInv, IInv, TypeOK
<1>3. /\ row'[d].sync = "ERROR" /\ row'[d].category = row[d].category
      /\ row'[d].title = row[d].title /\ row'[d].ext = row[d].ext
    BY <1>1, <1>2 DEF Rows
<1>4. Pages' = [Pages EXCEPT ![d] = Pages'[d]]
    BY <1>1, <1>2, OnePage
<1>5. CASE d \in torn
    <2>1. Pages'[d] = Pages[d]
        BY <1>1, <1>3, <1>5, PageOfRow, NextPageOfRow
    <2> QED BY <1>4, <2>1 DEF Pages
<1>6. CASE d \notin torn
    <2>1. Pages[d].data \in {"none", "title"} /\ Pages[d].title = row[d].title
        BY <1>6, PageParts
    <2>2. Pages'[d] = APage(Pages[d].title, "ERROR", Pages[d].data)
        BY <1>1, <1>3, <1>6, NextPageOfRow, PageParts
    <2> QED BY <1>1, <1>4, <2>1, <2>2, MirrorFailed
<1> QED BY <1>5, <1>6

(* A row that is rewritten with the record of its title. *)
LEMMA FoundMirrored ==
    ASSUME MirrorInv, MirrorInv', NEW d \in live, row[d].category # Voluntary,
           UNCHANGED live, d \notin torn',
           \A e \in Docs \ {d} : row'[e] = row[e] /\ (e \in torn' <=> e \in torn),
           row'[d].title = row[d].title, row'[d].category # Voluntary,
           row'[d].sync = "SUCCESS", row'[d].ext # None
    PROVE  Mirror!Next
<1>1. d \in Docs /\ d \in live'
    BY DEF MirrorInv, IInv, TypeOK
<1>2. Pages' = [Pages EXCEPT ![d] = Pages'[d]]
    BY <1>1, OnePage
<1>3. Pages[d].data \in {"none", "title", "torn"} /\ Pages[d].title = row[d].title
    BY PageParts
<1>4. Pages'[d] = APage(Pages[d].title, "SUCCESS", "title")
    BY <1>1, <1>3, NextPageOfRow
<1> QED BY <1>1, <1>2, <1>3, <1>4, MirrorFound

LEMMA FullStepMirrored ==
    ASSUME MirrorInv, MirrorInv', NEW d \in Docs, FullStep(d)
    PROVE  Mirror!Next \/ Pages' = Pages
<1>0. IInv /\ TypeOK
    BY DEF MirrorInv, IInv
<1>1. CASE SaveFound(d) /\ LockIdentity(d, full[d]) = "UPDATED"
    <2> DEFINE new == Row(row[d].title, row[d].category, "SUCCESS",
                          row[d].title, row[d].title, row[d].title)
    <2>1. d \in live /\ row[d].category # Voluntary
        BY <1>1, LockIdentityValue
    <2>2. row' = [row EXCEPT ![d] = new] /\ torn' = torn \ {d} /\ live' = live
        BY <1>0, <1>1, FoundCard DEF SaveFound
    <2>3. row'[d] = new /\ \A e \in Docs \ {d} : row'[e] = row[e]
        BY <1>0, <2>2 DEF TypeOK
    <2>4. row[d].title # None
        BY <2>1, NullAssumption DEF MirrorInv, TitlesInv
    <2>5. /\ row'[d].title = row[d].title /\ row'[d].category # Voluntary
          /\ row'[d].sync = "SUCCESS" /\ row'[d].ext # None
        BY <2>1, <2>3, <2>4 DEF Row
    <2>6. d \notin torn' /\ \A e \in Docs \ {d} : e \in torn' <=> e \in torn
        BY <2>2
    <2> QED BY <2>1, <2>2, <2>3, <2>5, <2>6, FoundMirrored
<1>2. CASE SaveAbsent(d) /\ LockIdentity(d, full[d]) = "UPDATED"
    <2> DEFINE new == Row(row[d].title, row[d].category, "NOT_FOUND", None, None, None)
    <2>1. d \in live /\ row[d].category # Voluntary /\ row[d].ext = None
        BY <1>2, LockIdentityValue DEF SaveAbsent, MirrorInv, AbsenceInv, AskedWithoutId
    <2>2. row' = [row EXCEPT ![d] = new] /\ torn' = torn \ {d} /\ live' = live
        BY <1>2 DEF SaveAbsent
    <2>3. /\ row'[d] = new /\ d \in live' /\ d \notin torn'
          /\ \A e \in Docs \ {d} : /\ row'[e] = row[e]
                                   /\ e \in live' <=> e \in live
                                   /\ e \in torn' <=> e \in torn
        BY <1>0, <2>1, <2>2 DEF TypeOK
    <2>4. /\ row'[d].title = row[d].title /\ row'[d].category # Voluntary
          /\ row'[d].sync = "NOT_FOUND" /\ row'[d].ext = None
        BY <2>1, <2>3 DEF Row
    <2>5. Pages' = [Pages EXCEPT ![d] = Pages'[d]]
        BY <2>3, OnePage
    <2>6. Pages[d].data \in {"none", "torn"} /\ Pages[d].title = row[d].title
        BY <2>1, PageParts
    <2>7. Pages'[d] = APage(Pages[d].title, "NOT_FOUND", "none")
        BY <2>3, <2>4, <2>6, NextPageOfRow
    <2> QED BY <2>5, <2>6, <2>7, MirrorAbsent
<1>3. CASE (SaveFound(d) \/ SaveAbsent(d)) /\ LockIdentity(d, full[d]) # "UPDATED"
    <2>1. UNCHANGED <<live, row, torn>>
        BY <1>3 DEF SaveFound, SaveAbsent
    <2> QED BY <2>1, SamePages
<1>4. CASE SaveLost(d) \/ SaveFailed(d)
    <2>1. /\ LockIdentity(d, full[d]) = "UPDATED" => row' = [row EXCEPT ![d].sync = "ERROR"]
          /\ LockIdentity(d, full[d]) # "UPDATED" => row' = row
          /\ UNCHANGED <<live, torn>>
        BY <1>4 DEF SaveLost, SaveFailed
    <2> QED BY <2>1, LockIdentityValue, ErrorMirrored, SamePages
<1>5. CASE ReadFull(d) \/ AnswerFull(d) \/ SaveFullFails(d)
    <2>1. UNCHANGED <<live, row, torn>>
        BY <1>5 DEF ReadFull, AnswerFull, SaveFullFails
    <2> QED BY <2>1, SamePages
<1> QED BY <1>1, <1>2, <1>3, <1>4, <1>5 DEF FullStep

LEMMA CheckStepMirrored ==
    ASSUME MirrorInv, MirrorInv', NEW d \in Docs, CheckStep(d)
    PROVE  Mirror!Next \/ Pages' = Pages
<1>0. IInv /\ TypeOK
    BY DEF MirrorInv, IInv
<1>1. CASE SaveCheck(d) /\ LockIdentity(d, check[d]) = "UPDATED" /\ row[d].ext = check[d].ext
    <2> DEFINE new == [row[d] EXCEPT !.status = check[d].title, !.sync = "SUCCESS"]
    <2>1. /\ d \in live /\ row[d].category # Voluntary /\ row[d].ext = row[d].title
          /\ row[d] \in Rows
        BY <1>0, <1>1, LockIdentityValue DEF SaveCheck, IInv, JobsInv, TypeOK
    <2>2. row' = [row EXCEPT ![d] = new] /\ UNCHANGED <<live, torn>>
        BY <1>1 DEF SaveCheck
    <2>3. row'[d] = new /\ \A e \in Docs \ {d} : row'[e] = row[e]
        BY <1>0, <2>2 DEF TypeOK
    <2>4. row[d].title # None
        BY <2>1, NullAssumption DEF MirrorInv, TitlesInv
    <2>5. /\ row'[d].title = row[d].title /\ row'[d].category # Voluntary
          /\ row'[d].sync = "SUCCESS" /\ row'[d].ext # None
        BY <2>1, <2>3, <2>4 DEF Rows
    <2>6. CASE d \notin torn
        BY <2>1, <2>2, <2>3, <2>5, <2>6, FoundMirrored
    <2>7. CASE d \in torn
        <3>1. d \in live' /\ d \in torn' /\ \A e \in Docs \ {d} :
                 /\ row'[e] = row[e]
                 /\ e \in live' <=> e \in live
                 /\ e \in torn' <=> e \in torn
            BY <2>1, <2>2, <2>3, <2>7
        <3>2. Pages'[d] = Pages[d]
            BY <2>1, <2>5, <2>7, <3>1, PageOfRow, NextPageOfRow
        <3>3. Pages' = [Pages EXCEPT ![d] = Pages'[d]]
            BY <3>1, OnePage
        <3> QED BY <3>2, <3>3 DEF Pages
    <2> QED BY <2>6, <2>7
<1>2. CASE SaveCheck(d) /\ ~(LockIdentity(d, check[d]) = "UPDATED" /\ row[d].ext = check[d].ext)
    <2>1. UNCHANGED <<live, row, torn>>
        BY <1>2 DEF SaveCheck
    <2> QED BY <2>1, SamePages
<1>3. CASE SaveCheckFailed(d)
    <2>1. /\ LockIdentity(d, check[d]) = "UPDATED" => row' = [row EXCEPT ![d].sync = "ERROR"]
          /\ LockIdentity(d, check[d]) # "UPDATED" => row' = row
          /\ UNCHANGED <<live, torn>>
        BY <1>3 DEF SaveCheckFailed
    <2> QED BY <2>1, LockIdentityValue, ErrorMirrored, SamePages
<1>4. CASE ListCheck(d) \/ StartCheck(d) \/ AnswerCheck(d) \/ SaveCheckFails(d)
    <2>1. UNCHANGED <<live, row, torn>>
        BY <1>4 DEF ListCheck, StartCheck, AnswerCheck, SaveCheckFails
    <2> QED BY <2>1, SamePages
<1> QED BY <1>1, <1>2, <1>3, <1>4 DEF CheckStep

(* For any number of documents, titles, categories and requests: jobs that *)
(* read, ask and store in separate steps, callers that join them and edits *)
(* of stale rows show a reader only what RegistryMirror allows.            *)
THEOREM RegistryMirrored == Spec => MirrorsRegistry
<1>1. Init => Mirror!Init
    <2> SUFFICES ASSUME Init PROVE Pages = [d \in Docs |-> Mirror!NoPage]
        BY DEF Mirror!Init, Pages
    <2>1. \A d \in Docs : Pages[d] = Mirror!NoPage
        BY PageOfNoRow, MirrorPage DEF Init
    <2> QED BY <2>1 DEF Pages
<1>2. MirrorInv /\ MirrorInv' /\ [Next]_vars => [Mirror!Next]_(Pages)
    <2> SUFFICES ASSUME MirrorInv, MirrorInv', [Next]_vars
                 PROVE  Mirror!Next \/ Pages' = Pages
        OBVIOUS
    <2>1. ASSUME NEW d \in Docs, Delete(d) PROVE Mirror!Next
        <3>1. /\ d \in live /\ d \notin live'
              /\ \A e \in Docs \ {d} : /\ row'[e] = row[e]
                                       /\ e \in live' <=> e \in live
                                       /\ e \in torn' <=> e \in torn
            BY <2>1 DEF Delete, MirrorInv, IInv, TypeOK
        <3>2. Pages' = [Pages EXCEPT ![d] = Pages'[d]]
            BY <3>1, OnePage
        <3>3. Pages'[d] = APage(None, "NOT_REQUIRED", "gone")
            BY <3>1 DEF Pages, PageOf, APage
        <3>4. Pages[d].data # "gone"
            BY <3>1, PageParts
        <3> QED BY <3>2, <3>3, <3>4, MirrorRemove
    <2>2. CASE (\E d \in Docs : StartFull(d)) \/ Crash \/ UNCHANGED vars
        <3>1. UNCHANGED <<live, row, torn>>
            BY <2>2 DEF StartFull, Crash, vars
        <3> QED BY <3>1, SamePages
    <2> QED BY <2>1, <2>2, RequestStepMirrored, FullStepMirrored, CheckStepMirrored DEF Next
<1> QED BY <1>1, <1>2, MirrorInvariance, PTL
       DEF Spec, MirrorsRegistry, Mirror!Spec, Pages

-----------------------------------------------------------------------------
(* Whoever waits has something to wait for: its promise is that of a       *)
(* running synchronisation of its document.                                *)
WaiterHasJob(r) ==
    req[r].pc = "waiting" => req[r].doc \in Docs /\ full[req[r].doc].pc # "idle"

WaitersHaveJobs == \A r \in Requests : WaiterHasJob(r)

(* A synchronisation that ends answers all that wait for it, and none that *)
(* waits for another one loses it.                                         *)
LEMMA FinishLeavesNobody ==
    ASSUME TypeOK, WaitersHaveJobs, NEW d \in Docs, NEW s, Finish(d, s)
    PROVE  WaitersHaveJobs'
<1> SUFFICES ASSUME NEW r \in Requests, req'[r].pc = "waiting"
             PROVE  req'[r].doc \in Docs /\ full'[req'[r].doc].pc # "idle"
    BY DEF WaitersHaveJobs, WaiterHasJob
<1>1. req'[r] = req[r] /\ req[r].pc = "waiting" /\ req[r].doc # d
    BY DEF TypeOK, Finish, Request
<1>2. PICK e \in Docs : e = req[r].doc /\ full[e].pc # "idle"
    BY <1>1 DEF WaitersHaveJobs, WaiterHasJob
<1>3. full'[e] = full[e]
    BY <1>1, <1>2 DEF TypeOK, Finish
<1> QED BY <1>1, <1>2, <1>3

(* Who calls the synchronisation starts one or finds one running. *)
LEMMA ExecuteFindsJob ==
    ASSUME TypeOK, WaitersHaveJobs, NEW q \in Requests, NEW d \in Docs, NEW w,
           Execute(q, d, w)
    PROVE  WaitersHaveJobs'
<1>1. full'[d].pc # "idle" /\ \A e \in Docs : full[e].pc # "idle" => full'[e].pc # "idle"
    BY DEF TypeOK, Execute, Job
<1>2. /\ req'[q].pc = "waiting" /\ req'[q].doc = d
      /\ \A r \in Requests \ {q} : req'[r] = req[r]
    BY DEF TypeOK, Execute, Request
<1> QED BY <1>1, <1>2 DEF WaitersHaveJobs, WaiterHasJob

(* A request that does not begin to wait, beside jobs that go on. *)
LEMMA OthersKeepJob ==
    ASSUME TypeOK, WaitersHaveJobs,
           \A d \in Docs : full[d].pc # "idle" => full'[d].pc # "idle",
           \A r \in Requests : req'[r] = req[r] \/ req'[r].pc # "waiting"
    PROVE  WaitersHaveJobs'
BY DEF WaitersHaveJobs, WaiterHasJob

LEMMA WaitersHaveJobsStep ==
    ASSUME TypeOK, WaitersHaveJobs, [Next]_vars
    PROVE  WaitersHaveJobs'
<1>1. ASSUME NEW q \in Requests, RequestStep(q) PROVE WaitersHaveJobs'
    <2>1. CASE Create(q)
        <3>1. PICK d \in Docs \ live, t \in Titles, c \in Categories :
                Execute(q, d, Identity(Target(NoRow, t, c)))
            BY <2>1 DEF Create
        <3> QED BY <3>1, ExecuteFindsJob
    <2>2. CASE AfterEdit(q)
        <3>1. CASE req[q].doc \in live /\ Execute(q, req[q].doc, Identity(row[req[q].doc]))
            BY <3>1, ExecuteFindsJob DEF TypeOK
        <3>2. CASE req' = [req EXCEPT ![q] = Idle] /\ full' = full
            BY <3>2, OthersKeepJob DEF TypeOK, Idle, Request
        <3> QED BY <2>2, <3>1, <3>2 DEF AfterEdit
    <2>3. CASE CheckNow(q)
        BY <2>3, ExecuteFindsJob DEF CheckNow, TypeOK
    <2>4. CASE BeginEdit(q) \/ LoadForEdit(q) \/ SaveEdit(q) \/ Respond(q)
        <3>1. full' = full
            BY <2>4 DEF BeginEdit, LoadForEdit, SaveEdit, Respond
        <3>2. PICK w : w.pc # "waiting" /\ req' = [req EXCEPT ![q] = w]
            BY <2>4 DEF BeginEdit, LoadForEdit, SaveEdit, Respond, Idle, Request
        <3> QED BY <3>1, <3>2, OthersKeepJob DEF TypeOK
    <2> QED BY <1>1, <2>1, <2>2, <2>3, <2>4 DEF RequestStep
<1>2. ASSUME NEW d \in Docs, FullStep(d) PROVE WaitersHaveJobs'
    <2>1. CASE \E s : Finish(d, s)
        BY <2>1, FinishLeavesNobody
    <2>2. CASE /\ req' = req
               /\ \E j : j.pc # "idle" /\ full' = [full EXCEPT ![d] = j]
        BY <2>2, OthersKeepJob DEF TypeOK
    <2>3. CASE ReadFull(d)
        BY <2>1, <2>2, <2>3 DEF ReadFull, Job
    <2>4. CASE AnswerFull(d) \/ SaveFullFails(d)
        <3>1. ASSUME NEW a \in {"found", "absent", "failed"}, full' = [full EXCEPT ![d].pc = a]
              PROVE  \E j : j.pc # "idle" /\ full' = [full EXCEPT ![d] = j]
            <4>1. [full[d] EXCEPT !.pc = a].pc = a
                BY DEF TypeOK, Jobs
            <4> QED BY <3>1, <4>1
        <3> QED BY <2>1, <2>2, <2>4, <3>1 DEF AnswerFull, SaveFullFails
    <2>5. CASE SaveFound(d) \/ SaveAbsent(d) \/ SaveLost(d) \/ SaveFailed(d)
        BY <2>1, <2>5 DEF SaveFound, SaveAbsent, SaveLost, SaveFailed
    <2> QED BY <1>2, <2>3, <2>4, <2>5 DEF FullStep
<1>3. ASSUME NEW d \in Docs, Delete(d) \/ StartFull(d) \/ CheckStep(d)
      PROVE  WaitersHaveJobs'
    <2>1. req' = req
        BY <1>3 DEF Delete, StartFull, CheckStep, ListCheck, StartCheck, AnswerCheck,
           SaveCheck, SaveCheckFailed, SaveCheckFails
    <2>2. full' = full \/ full' = [full EXCEPT ![d] = Job("started", None, Voluntary, None)]
        BY <1>3 DEF Delete, StartFull, CheckStep, ListCheck, StartCheck, AnswerCheck,
           SaveCheck, SaveCheckFailed, SaveCheckFails
    <2> QED BY <2>1, <2>2, OthersKeepJob DEF TypeOK, Job
<1>4. CASE Crash
    BY <1>4 DEF Crash, WaitersHaveJobs, WaiterHasJob, Idle, Request
<1>5. CASE UNCHANGED vars
    BY <1>5 DEF vars, WaitersHaveJobs, WaiterHasJob
<1> QED BY <1>1, <1>2, <1>3, <1>4, <1>5 DEF Next

(* For any number of documents and requests: a request that started or     *)
(* joined a synchronisation never waits for one that is no longer running, *)
(* so that an end of every synchronisation is an answer to every request   *)
(* (SynchronizePermitDocument.execute; the safety part of                  *)
(* EveryCallerAnswered).                                                   *)
THEOREM NobodyWaitsInVain == Spec => []WaitersHaveJobs
<1>1. Init => WaitersHaveJobs
    BY DEF Init, WaitersHaveJobs, WaiterHasJob, Idle, Request
<1>2. TypeOK /\ WaitersHaveJobs /\ [Next]_vars => WaitersHaveJobs'
    BY WaitersHaveJobsStep
<1> QED BY <1>1, <1>2, TypeCorrect, PTL DEF Spec
=============================================================================
