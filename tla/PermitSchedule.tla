--------------------------- MODULE PermitSchedule ---------------------------
(***************************************************************************)
(* The daily run of the permit documents, the queue it fills and the       *)
(* workers that empty it, beside requests that synchronise a document at   *)
(* once.  The queue is in memory; a stop of the server writes it to a file *)
(* and a start reads it back, a crash loses it.                            *)
(***************************************************************************)
EXTENDS Integers, FiniteSets, SequencesExt

CONSTANTS
    Docs,           \* identifiers: the lists are ordered by them
    Workers,        \* concurrency of the subscription
    Callers,        \* HTTP requests
    Limit,          \* MAXIMUM_SCHEDULED_DOCUMENTS
    MaxRequests,    \* bound: HTTP requests
    MaxFaults,      \* bound: stops, crashes and failures of the database
    MaxQueue,       \* bound: a daily run starts when fewer messages are left
    None

Slots == Workers \cup Callers

ASSUME DocsAssumption == Docs \subseteq Nat /\ IsFiniteSet(Docs)
ASSUME NoneAssumption == None \notin Docs \cup Slots
ASSUME SlotsAssumption == Slots \cap Docs = {} /\ Workers \cap Callers = {}
ASSUME LimitAssumption == Limit \in Nat \ {0}
ASSUME BoundsAssumption == MaxRequests \in Nat /\ MaxFaults \in Nat

VARIABLES
    row,        \* permit_documents
    asked,      \* rows in the order of last_checked_at, and the running synchronisations in the order they began
    queue,      \* the messages of the channel in MemoryEventQueueAdapter.queues
    file,       \* event-queue.json
    job,        \* the synchronisations of workers and requests
    daily,      \* the daily run between its two lists
    phase,      \* of the server
    requests, faults

vars == <<row, asked, queue, file, job, daily, phase, requests, faults>>

\* ext: external_id is set, ended: the status is terminated.  NOT_REQUIRED also
\* stands for a document that has been deleted.
Row == [sync : {"PENDING", "SUCCESS", "NOT_FOUND", "ERROR", "NOT_REQUIRED"}, ext : BOOLEAN, ended : BOOLEAN]

(* (fault) sync_status is cleared with the other registry fields *)
ResetWithStatus(status) == [sync |-> "NULL", ext |-> FALSE, ended |-> FALSE]

Reset(status) == [sync |-> status, ext |-> FALSE, ended |-> FALSE]
Message == [doc : Docs, mode : {"FULL", "STATUS_ONLY"}]

\* fresh: the title and type it has read are still those of the row; ext is the
\* external_id it has read; joined is the synchronisation whose result it waits for.
Job == [doc : Docs \cup {None}, mode : {"FULL", "STATUS_ONLY"}, fresh : BOOLEAN, ext : BOOLEAN, joined : Slots \cup {None}]
Free == [doc |-> None, mode |-> "FULL", fresh |-> FALSE, ext |-> FALSE, joined |-> None]
NoRun == [read |-> FALSE, ids |-> <<>>]

TypeOK ==
    /\ row \in [Docs -> Row]
    /\ asked \in Seq(Docs \cup Slots)
    /\ queue \in Seq(Message) /\ file \in Seq(Message)
    /\ job \in [Slots -> Job]
    /\ daily \in [read : BOOLEAN, ids : Seq(Docs)]
    /\ phase \in {"up", "recovering", "stopping", "down"}
    /\ requests \in 0..MaxRequests /\ faults \in 0..MaxFaults

Init ==
    /\ row = [d \in Docs |-> Reset("PENDING")]
    /\ asked = <<>> /\ queue = <<>> /\ file = <<>>
    /\ job = [s \in Slots |-> Free]
    /\ daily = NoRun /\ phase = "up"
    /\ requests = 0 /\ faults = 0

-----------------------------------------------------------------------------
(* The lists *)
(* (fault) what has failed is not listed *)
FullDueUnlessFailed(d) == ~row[d].ended /\ row[d].sync = "PENDING"

FullDue(d) == ~row[d].ended /\ (row[d].sync = "PENDING" \/ (row[d].sync = "ERROR" /\ ~row[d].ext))

StatusDue(d) == ~row[d].ended /\ row[d].ext /\ row[d].sync \in {"SUCCESS", "ERROR"}

(* The members of a finite set of numbers, in their order; a sequence is   *)
(* filtered by the places that stay.  (SelectSeq and SetToSortSeq would do *)
(* for TLC, but the prover has no definition of what they rest on.)        *)
InOrder(I) == [k \in 1..Cardinality(I) |-> CHOOSE i \in I : Cardinality({j \in I : j <= i}) = k]

Only(q, S) == LET places == {i \in DOMAIN q : q[i] \in S}
              IN  [k \in 1..Cardinality(places) |-> q[InOrder(places)[k]]]

\* An element that comes once, taken out.
Without(q, x) ==
    IF x \in ToSet(q) THEN RemoveAt(q, CHOOSE i \in DOMAIN q : q[i] = x) ELSE q

(* (fault) order by id *)
OrderedById(S) == InOrder(S)

\* order by last_checked_at asc nulls first, id asc
Ordered(S) == InOrder(S \ ToSet(asked)) \o Only(asked, S)

AtMost(n, k) == IF k < n THEN k ELSE n
First(n, q) == SubSeq(q, 1, AtMost(n, Len(q)))
Listed(S, n) == First(n, Ordered(S))
Messages(ids, mode) == [i \in DOMAIN ids |-> [doc |-> ids[i], mode |-> mode]]

-----------------------------------------------------------------------------
(* Synchronisations *)
Serving == phase \in {"up", "recovering"}

\* A synchronisation of the same kind that already runs is joined, else a new
\* one reads the row.
Runs(s, d, mode) == job[s].doc = d /\ job[s].mode = mode /\ job[s].joined = None

(* (fault) the one that runs is not joined *)
SynchronisesAlone(s, d, mode, ext, jobs, times) ==
    /\ asked' = Append(times, s)
    /\ job' = [jobs EXCEPT ![s] = [Free EXCEPT !.doc = d, !.mode = mode, !.fresh = TRUE, !.ext = ext]]

Synchronises(s, d, mode, ext, jobs, times) ==
    \/ \E x \in Slots :
        /\ Runs(x, d, mode) /\ asked' = times
        /\ job' = [jobs EXCEPT ![s] = [Free EXCEPT !.doc = d, !.mode = mode, !.joined = x]]
    \/ /\ \A x \in Slots : ~Runs(x, d, mode)
       /\ asked' = Append(times, s)
       /\ job' = [jobs EXCEPT ![s] = [Free EXCEPT !.doc = d, !.mode = mode, !.fresh = TRUE, !.ext = ext]]

\* A worker takes a message; a voluntary or deleted document needs nothing.
Take(w) ==
    LET m == Head(queue)
    IN  /\ Serving /\ job[w] = Free /\ queue # <<>>
        /\ IF row[m.doc].sync = "NOT_REQUIRED" THEN UNCHANGED <<job, asked>>
           ELSE Synchronises(w, m.doc, m.mode, row[m.doc].ext, job, asked)
        /\ queue' = Tail(queue)
        /\ UNCHANGED <<row, file, daily, phase, requests, faults>>

Arrives(c) == Serving /\ job[c] = Free /\ requests < MaxRequests /\ requests' = requests + 1

\* "Check now"
CheckNow(c, d) ==
    /\ Arrives(c) /\ row[d].sync # "NOT_REQUIRED"
    /\ Synchronises(c, d, "FULL", row[d].ext, job, asked)
    /\ UNCHANGED <<row, queue, file, daily, phase, faults>>

\* The title or the category changes: what is being asked is not about the row
\* any more, its time is cleared, and the request synchronises it.
Submit(c, d, status) ==
    LET jobs == [s \in Slots |-> IF job[s].doc = d THEN [job[s] EXCEPT !.fresh = FALSE] ELSE job[s]]
        times == Without(asked, d)
    IN  /\ Arrives(c)
        /\ row' = [row EXCEPT ![d] = Reset(status)]
        /\ IF status = "NOT_REQUIRED" THEN job' = jobs /\ asked' = times
           ELSE Synchronises(c, d, "FULL", FALSE, jobs, times)
        /\ UNCHANGED <<queue, file, daily, phase, faults>>

-----------------------------------------------------------------------------
(* The registry has answered *)
Answers(s) ==
    LET j == job[s]
        r == row[j.doc]
    IN  {[r EXCEPT !.sync = "ERROR"]}
        \cup {a \in [sync : {"SUCCESS"}, ext : {TRUE}, ended : BOOLEAN] : j.mode = "FULL" \/ (j.ext /\ r.ext)}
        \cup {a \in {Reset("NOT_FOUND")} : j.mode = "FULL" /\ ~j.ext}

(* (fault) the time is not stored *)
StampedNever(s) == Without(asked, s)

\* last_checked_at becomes the time at which the synchronisation began.
Stamped(s) ==
    LET q == Without(asked, job[s].doc)
    IN  [i \in DOMAIN q |-> IF q[i] = s THEN job[s].doc ELSE q[i]]

\* Everybody who joined gets the result.
Ends(s) == job' = [x \in Slots |-> IF s \in {x, job[x].joined} THEN Free ELSE job[x]]

Running(s) == job[s].doc # None /\ job[s].joined = None /\ phase # "down"

Save(s) ==
    /\ Running(s) /\ job[s].fresh
    /\ \E a \in Answers(s) : row' = [row EXCEPT ![job[s].doc] = a] /\ asked' = Stamped(s)
    /\ Ends(s)
    /\ UNCHANGED <<queue, file, daily, phase, requests, faults>>

\* The row has changed, or the database fails: nothing is stored.
Discard(s) ==
    /\ Running(s)
    /\ \/ ~job[s].fresh /\ UNCHANGED faults
       \/ job[s].fresh /\ faults < MaxFaults /\ faults' = faults + 1
    /\ asked' = Without(asked, s)
    /\ Ends(s)
    /\ UNCHANGED <<row, queue, file, daily, phase, requests>>

-----------------------------------------------------------------------------
(* The daily run: enqueueDailyDue *)
DailyFull ==
    /\ Serving /\ ~daily.read /\ Len(queue) < MaxQueue
    /\ daily' = [read |-> TRUE, ids |-> Listed({d \in Docs : FullDue(d)}, Limit)]
    /\ UNCHANGED <<row, asked, queue, file, job, phase, requests, faults>>

\* Nothing comes between the second list and the last message.
DailyEnqueue ==
    /\ Serving /\ daily.read
    /\ queue' = queue \o Messages(daily.ids, "FULL")
                      \o Messages(Listed({d \in Docs : StatusDue(d)}, Limit - Len(daily.ids)), "STATUS_ONLY")
    /\ daily' = NoRun
    /\ UNCHANGED <<row, asked, file, job, phase, requests, faults>>

DailyFails ==
    /\ daily.read /\ faults < MaxFaults /\ faults' = faults + 1
    /\ daily' = NoRun
    /\ UNCHANGED <<row, asked, queue, file, job, phase, requests>>

-----------------------------------------------------------------------------
(* The server *)

\* What is in memory, and the times of synchronisations that never end.
Forget ==
    /\ queue' = <<>> /\ job' = [s \in Slots |-> Free] /\ daily' = NoRun
    /\ asked' = Only(asked, Docs)

\* The channel is unsubscribed; then the database is closed, and the queue is
\* written to the file without waiting for the workers.
Stop ==
    /\ Serving /\ faults < MaxFaults /\ faults' = faults + 1
    /\ phase' = "stopping"
    /\ UNCHANGED <<row, asked, queue, file, job, daily, requests>>
Close ==
    /\ phase = "stopping" /\ phase' = "down"
    /\ file' = queue /\ Forget
    /\ UNCHANGED <<row, requests, faults>>
Crash ==
    /\ phase # "down" /\ faults < MaxFaults /\ faults' = faults + 1
    /\ phase' = "down" /\ Forget
    /\ UNCHANGED <<row, file, requests>>

\* The file is read and removed, the channel is subscribed, ...
Start ==
    /\ phase = "down" /\ phase' = "recovering"
    /\ queue' = file /\ file' = <<>>
    /\ UNCHANGED <<row, asked, job, daily, requests, faults>>

\* ... and PENDING rows are queued, the least recently updated first; which
\* these are is left open.
Recover ==
    LET pending == {d \in Docs : row[d].sync = "PENDING"}
    IN  /\ phase = "recovering" /\ phase' = "up"
        /\ \/ \E S \in SUBSET pending :
                /\ Cardinality(S) = AtMost(Limit, Cardinality(pending))
                /\ queue' = queue \o Messages(InOrder(S), "FULL")
              /\ UNCHANGED faults
           \/ faults < MaxFaults /\ faults' = faults + 1 /\ UNCHANGED queue
        /\ UNCHANGED <<row, asked, file, job, daily, requests>>

Next ==
    \/ \E w \in Workers : Take(w)
    \/ \E c \in Callers, d \in Docs : CheckNow(c, d) \/ Submit(c, d, "PENDING") \/ Submit(c, d, "NOT_REQUIRED")
    \/ \E s \in Slots : Save(s) \/ Discard(s)
    \/ DailyFull \/ DailyEnqueue \/ DailyFails
    \/ Stop \/ Close \/ Crash \/ Start \/ Recover

\* Midnight comes again and again, workers go on, every call of the registry
\* ends (it has a timeout), and a server that is down is started again.
Fairness ==
    /\ WF_vars(\E w \in Workers : Take(w))
    /\ \A s \in Slots : WF_vars(Save(s) \/ Discard(s))
    /\ WF_vars(DailyFull) /\ WF_vars(DailyEnqueue)
    /\ WF_vars(Close) /\ WF_vars(Start) /\ WF_vars(Recover)

Spec == Init /\ [][Next]_vars
FairSpec == Spec /\ Fairness

-----------------------------------------------------------------------------
(* Properties *)

\* A document whose external id is known is not marked as absent from the registry:
\* of two searches that overlap one joins the other, and a later one knows the id.
FoundIsKept == [][\A d \in Docs : row[d].ext => row'[d].sync # "NOT_FOUND"]_vars

\* A row that is PENDING does not stay so, whatever the queue has lost and
\* however many rows are due: the registry answers for it, or it is changed.
EveryPendingIsTried == \A d \in Docs : row[d].sync = "PENDING" ~> row[d].sync # "PENDING"

\* A document in ERROR without an external id is synchronised again, a day on
\* which others fill the limit notwithstanding.
Asked(d, mode) == \E s \in Slots : Runs(s, d, mode)
Failed(d) == row[d].sync = "ERROR" /\ ~row[d].ext
EveryErrorIsRetried == \A d \in Docs : Failed(d) ~> (Asked(d, "FULL") \/ ~Failed(d))

\* When there is room in the limit at last, every document with an external id
\* is checked.
RoomIsLeft == Cardinality({d \in Docs : FullDue(d)}) < Limit
EveryStatusIsChecked ==
    <>[]RoomIsLeft => \A d \in Docs : StatusDue(d) ~> (Asked(d, "STATUS_ONLY") \/ ~StatusDue(d))
=============================================================================
