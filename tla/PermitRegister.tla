--------------------------- MODULE PermitRegister ---------------------------
(***************************************************************************)
(* The register of permit documents as one clerk would keep it, a request  *)
(* after the other: no transactions, no lock, nothing that was looked up   *)
(* earlier.  PermitNumbering implements it.                                *)
(***************************************************************************)
EXTENDS Naturals

CONSTANTS Docs, None

VARIABLE register   \* the entries, of the documents there are

Entered == DOMAIN register
Entry(number, partner, voluntary) == [number |-> number, partner |-> partner, voluntary |-> voluntary]

Used == {register[d].number : d \in Entered}
IsLeastUnused(n) == n \in Nat \ {0} /\ n \notin Used /\ \A k \in 1..(n - 1) : k \in Used

Init == register = [d \in {} |-> Entry(0, None, FALSE)]

-----------------------------------------------------------------------------
Written(d, entry) == register' = [x \in Entered \cup {d} |-> IF x = d THEN entry ELSE register[x]]

\* A document of its own gets the least number that no document has.
Enter(d, voluntary) ==
    /\ d \notin Entered /\ d \in DOMAIN register'
    /\ LET n == register'[d].number
       IN  IsLeastUnused(n) /\ Written(d, Entry(n, None, voluntary))

\* One that is entered beside a document without a partner shares its number.
EnterBeside(d, r) ==
    /\ d \notin Entered /\ r \in Entered
    /\ register[r].partner = None /\ ~register[r].voluntary
    /\ register' = [x \in Entered \cup {d} |->
                        IF x = d THEN Entry(register[r].number, r, FALSE)
                        ELSE IF x = r THEN [register[r] EXCEPT !.partner = d]
                        ELSE register[x]]

Amend(d, voluntary) ==
    /\ d \in Entered /\ (voluntary => register[d].partner = None)
    /\ Written(d, [register[d] EXCEPT !.voluntary = voluntary])

\* Who loses the partner keeps the number.
Strike(S) ==
    /\ S \subseteq Entered
    /\ register' = [x \in Entered \ S |->
                        IF register[x].partner \in S THEN [register[x] EXCEPT !.partner = None]
                        ELSE register[x]]

Next ==
    \/ \E d \in Docs, voluntary \in BOOLEAN : Enter(d, voluntary) \/ Amend(d, voluntary)
    \/ \E d, r \in Docs : EnterBeside(d, r)
    \/ \E S \in SUBSET Docs : Strike(S)

Spec == Init /\ [][Next]_register
=============================================================================
