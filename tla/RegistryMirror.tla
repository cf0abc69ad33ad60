--------------------------- MODULE RegistryMirror ---------------------------
(***************************************************************************)
(* What permit documents promise their reader: beside the title there is   *)
(* what the registry says of it, or nothing, or what the user typed.  No   *)
(* job, no request, no order of their steps: PermitSync implements it.     *)
(***************************************************************************)
CONSTANTS Docs, Titles, None

VARIABLE page   \* what is shown of every document

Page(title, sync, data) == [title |-> title, sync |-> sync, data |-> data]

NoPage == Page(None, "NOT_REQUIRED", "gone")
Typed(t) == Page(t, "NOT_REQUIRED", "own")
Unasked(t) == Page(t, "PENDING", "none")
Torn(t) == Page(t, "any", "torn")   \* an edit left data it meant to reset

Init == page = [d \in Docs |-> NoPage]

-----------------------------------------------------------------------------
Enter(d, t) ==
    /\ page[d].data = "gone"
    /\ \E p \in {Typed(t), Unasked(t)} : page' = [page EXCEPT ![d] = p]

\* Who edits a title forgets what the registry said of it, or tears the row.
Edit(d, t) ==
    /\ page[d].data # "gone"
    /\ \E p \in {Typed(t), Unasked(t), Torn(t)} : page' = [page EXCEPT ![d] = p]

Remove(d) ==
    /\ page[d].data # "gone"
    /\ page' = [page EXCEPT ![d] = NoPage]

\* The registry is heard of documents that are not the user's own, and never
\* changes a title.
Heard(d, sync, data) == page' = [page EXCEPT ![d] = Page(page[d].title, sync, data)]

Found(d) == page[d].data \in {"none", "title", "torn"} /\ Heard(d, "SUCCESS", "title")

\* That there is no record is said only where none was known.
Absent(d) == page[d].data \in {"none", "torn"} /\ Heard(d, "NOT_FOUND", "none")

Failed(d) == page[d].data \in {"none", "title"} /\ Heard(d, "ERROR", page[d].data)

Next ==
    \E d \in Docs :
        \/ \E t \in Titles : Enter(d, t) \/ Edit(d, t)
        \/ Remove(d) \/ Found(d) \/ Absent(d) \/ Failed(d)

Spec == Init /\ [][Next]_page
=============================================================================
