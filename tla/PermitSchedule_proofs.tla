------------------------ MODULE PermitSchedule_proofs ------------------------
(***************************************************************************)
(* Proofs about the schedule, the queue and the workers: every type, that  *)
(* one document is synchronised once at a time, what a synchronisation     *)
(* that did not find a document may do, and the limit of a daily run, for  *)
(* any documents, workers, requests and limit.                             *)
(***************************************************************************)
EXTENDS PermitSchedule, FiniteSetTheorems, TLAPS

-----------------------------------------------------------------------------
(* Sets in their order, sequences and what is taken out of them *)

\* The place of a member of a finite set of numbers: how many are not above it.
UpTo(I, i) == {j \in I : j <= i}
Place(I) == [i \in I |-> Cardinality(UpTo(I, i))]

LEMMA PlaceIsInjective ==
    ASSUME NEW I, I \subseteq Nat, IsFiniteSet(I)
    PROVE  Place(I) \in Injection(I, 1..Cardinality(I))
PROOF
<1>1. ASSUME NEW i \in I PROVE Place(I)[i] \in 1..Cardinality(I)
    <2>1. UpTo(I, i) \subseteq I /\ i \in UpTo(I, i) BY DEF UpTo
    <2>2. IsFiniteSet(UpTo(I, i)) /\ Cardinality(UpTo(I, i)) <= Cardinality(I) BY <2>1, FS_Subset
    <2>3. Cardinality(UpTo(I, i)) \in Nat /\ Cardinality(I) \in Nat BY <2>2, FS_CardinalityType
    <2>4. Cardinality(UpTo(I, i)) # 0 BY <2>1, <2>2, FS_EmptySet
    <2>5. QED BY <2>2, <2>3, <2>4 DEF Place
<1>2. ASSUME NEW i \in I, NEW j \in I, i < j PROVE Place(I)[i] # Place(I)[j]
    <2>1. UpTo(I, i) \subseteq UpTo(I, j)
        <3>1. ASSUME NEW h \in I, h <= i PROVE h <= j
            <4>1. h \in Nat /\ i \in Nat /\ j \in Nat OBVIOUS
            <4>2. QED BY <1>2, <3>1, <4>1
        <3>2. QED BY <3>1 DEF UpTo
    <2>2. j \in UpTo(I, j) /\ j \notin UpTo(I, i) BY <1>2 DEF UpTo
    <2>3. UpTo(I, j) \subseteq I BY DEF UpTo
    <2>4. IsFiniteSet(UpTo(I, j)) BY <2>3, FS_Subset
    <2>5. Cardinality(UpTo(I, i)) # Cardinality(UpTo(I, j)) BY <2>1, <2>2, <2>4, FS_Subset
    <2>6. QED BY <2>5 DEF Place
<1>3. ASSUME NEW i \in I, NEW j \in I, Place(I)[i] = Place(I)[j] PROVE i = j
    <2>1. i \in Nat /\ j \in Nat OBVIOUS
    <2>2. CASE i < j BY <1>2, <1>3, <2>2
    <2>3. CASE j < i BY <1>2, <1>3, <2>3
    <2>4. QED BY <2>1, <2>2, <2>3
<1>4. Place(I) \in [I -> 1..Cardinality(I)] BY <1>1 DEF Place
<1>5. QED BY <1>3, <1>4 DEF Injection, IsInjective

\* A finite set of numbers in its order is a sequence of its members, each once.
LEMMA InOrderLists ==
    ASSUME NEW I, I \subseteq Nat, IsFiniteSet(I)
    PROVE  /\ Cardinality(I) \in Nat
           /\ InOrder(I) \in [1..Cardinality(I) -> I]
           /\ \A k, l \in 1..Cardinality(I) : InOrder(I)[k] = InOrder(I)[l] => k = l
           /\ \A i \in I : \E k \in 1..Cardinality(I) : InOrder(I)[k] = i
PROOF
<1>1. Cardinality(I) \in Nat BY FS_CardinalityType
<1>2. IsFiniteSet(1..Cardinality(I)) /\ Cardinality(1..Cardinality(I)) = Cardinality(I)
    BY <1>1, FS_Interval
<1>3. Place(I) \in Surjection(I, 1..Cardinality(I))
    BY <1>2, PlaceIsInjective, FS_Injection
<1>4. ASSUME NEW k \in 1..Cardinality(I)
      PROVE  InOrder(I)[k] \in I /\ Place(I)[InOrder(I)[k]] = k
    <2>1. PICK i \in I : Place(I)[i] = k BY <1>3 DEF Surjection
    <2>2. \E j \in I : Cardinality({h \in I : h <= j}) = k BY <2>1 DEF Place, UpTo
    <2>3. QED BY <2>2 DEF InOrder, Place, UpTo
<1>5. InOrder(I) \in [1..Cardinality(I) -> I] BY <1>4 DEF InOrder
<1>6. \A k, l \in 1..Cardinality(I) : InOrder(I)[k] = InOrder(I)[l] => k = l BY <1>4
<1>7. Place(I) \in [I -> 1..Cardinality(I)] /\ \A i, j \in I : Place(I)[i] = Place(I)[j] => i = j
    BY PlaceIsInjective DEF Injection, IsInjective
<1>8. ASSUME NEW i \in I PROVE \E k \in 1..Cardinality(I) : InOrder(I)[k] = i
    <2>1. PICK k \in 1..Cardinality(I) : Place(I)[i] = k BY <1>7
    <2>2. InOrder(I)[k] \in I /\ Place(I)[InOrder(I)[k]] = Place(I)[i] BY <1>4, <2>1
    <2>3. InOrder(I)[k] = i BY <1>7, <2>2
    <2>4. QED BY <2>3
<1>9. QED BY <1>1, <1>5, <1>6, <1>8

LEMMA IsSequence ==
    ASSUME NEW T, NEW n \in Nat, NEW f \in [1..n -> T]
    PROVE  f \in Seq(T) /\ Len(f) = n /\ DOMAIN f = 1..n
OBVIOUS

LEMMA ElementsOf ==
    ASSUME NEW T, NEW q \in Seq(T)
    PROVE  /\ \A x : x \in ToSet(q) <=> \E i \in 1..Len(q) : q[i] = x
           /\ ToSet(q) \subseteq T
BY DEF ToSet

\* The places of a sequence where a member of S is.
Places(q, S) == {i \in DOMAIN q : q[i] \in S}

LEMMA OnlyKeeps ==
    ASSUME NEW T, NEW q \in Seq(T), NEW S
    PROVE  /\ Only(q, S) \in Seq(T \cap S)
           /\ ToSet(Only(q, S)) = ToSet(q) \cap S
           /\ IsInjective(q) => IsInjective(Only(q, S))
PROOF
<1> DEFINE P == Places(q, S)
           f == InOrder(P)
<1>1. P \subseteq Nat /\ IsFiniteSet(P)
    <2>1. P \subseteq 1..Len(q) BY DEF Places
    <2>2. IsFiniteSet(1..Len(q)) BY FS_Interval
    <2>3. QED BY <2>1, <2>2, FS_Subset
<1>2. /\ Cardinality(P) \in Nat
      /\ f \in [1..Cardinality(P) -> P]
      /\ \A k, l \in 1..Cardinality(P) : f[k] = f[l] => k = l
      /\ \A i \in P : \E k \in 1..Cardinality(P) : f[k] = i
    BY <1>1, InOrderLists
<1>3. Only(q, S) = [k \in 1..Cardinality(P) |-> q[f[k]]] BY DEF Only, Places
<1>4. \A i : i \in P <=> i \in 1..Len(q) /\ q[i] \in S BY DEF Places
<1> HIDE DEF P, f
<1>5. ASSUME NEW k \in 1..Cardinality(P)
      PROVE  f[k] \in 1..Len(q) /\ q[f[k]] \in S /\ q[f[k]] \in T
    <2>1. f[k] \in P BY <1>2
    <2>2. QED BY <2>1, <1>4
<1>6. Only(q, S) \in [1..Cardinality(P) -> T \cap S] BY <1>3, <1>5
<1>7. Only(q, S) \in Seq(T \cap S) /\ Len(Only(q, S)) = Cardinality(P) /\ DOMAIN Only(q, S) = 1..Cardinality(P)
    BY <1>2, <1>6, IsSequence
<1>8. ASSUME NEW x PROVE x \in ToSet(Only(q, S)) <=> x \in ToSet(q) /\ x \in S
    <2>1. x \in ToSet(Only(q, S)) <=> \E k \in 1..Cardinality(P) : Only(q, S)[k] = x BY <1>7, ElementsOf
    <2>2. x \in ToSet(q) <=> \E i \in 1..Len(q) : q[i] = x BY ElementsOf
    <2>3. ASSUME NEW k \in 1..Cardinality(P), Only(q, S)[k] = x PROVE x \in ToSet(q) /\ x \in S
        BY <1>3, <1>5, <2>2, <2>3
    <2>4. ASSUME NEW i \in 1..Len(q), q[i] = x, x \in S PROVE \E k \in 1..Cardinality(P) : Only(q, S)[k] = x
        <3>1. i \in P BY <1>4, <2>4
        <3>2. PICK k \in 1..Cardinality(P) : f[k] = i BY <1>2, <3>1
        <3>3. Only(q, S)[k] = x BY <1>3, <2>4, <3>2
        <3>4. QED BY <3>3
    <2>5. QED BY <2>1, <2>2, <2>3, <2>4
<1>9. ASSUME IsInjective(q) PROVE IsInjective(Only(q, S))
    <2>1. ASSUME NEW k \in 1..Cardinality(P), NEW l \in 1..Cardinality(P), Only(q, S)[k] = Only(q, S)[l]
          PROVE  k = l
        <3>1. q[f[k]] = q[f[l]] BY <1>3, <2>1
        <3>2. f[k] = f[l] BY <1>5, <1>9, <3>1 DEF IsInjective
        <3>3. QED BY <1>2, <3>2
    <2>2. QED BY <1>7, <2>1 DEF IsInjective
<1>10. QED BY <1>7, <1>8, <1>9

LEMMA JoinedElements ==
    ASSUME NEW T, NEW a \in Seq(T), NEW b \in Seq(T)
    PROVE  /\ a \o b \in Seq(T) /\ Len(a \o b) = Len(a) + Len(b)
           /\ \A k \in 1..(Len(a) + Len(b)) : (a \o b)[k] = IF k <= Len(a) THEN a[k] ELSE b[k - Len(a)]
OBVIOUS

LEMMA WithoutKeeps ==
    ASSUME NEW T, NEW q \in Seq(T), NEW x
    PROVE  /\ Without(q, x) \in Seq(T)
           /\ IsInjective(q) => IsInjective(Without(q, x))
           /\ IsInjective(q) => ToSet(Without(q, x)) = ToSet(q) \ {x}
PROOF
<1>1. CASE x \notin ToSet(q) BY <1>1 DEF Without
<1>2. CASE x \in ToSet(q)
    <2> DEFINE i == CHOOSE j \in DOMAIN q : q[j] = x
               p == RemoveAt(q, i)
    <2>0. Without(q, x) = p BY <1>2 DEF Without
    <2>1. i \in 1..Len(q) /\ q[i] = x
        <3>1. \E j \in DOMAIN q : q[j] = x BY <1>2, ElementsOf
        <3>2. i \in DOMAIN q /\ q[i] = x BY <3>1
        <3>3. QED BY <3>2
    <2> HIDE DEF i
    <2>2. Len(q) \in Nat /\ Len(q) > 0 BY <2>1
    <2>3. /\ p \in Seq(T) /\ Len(p) = Len(q) - 1
          /\ \A k \in 1..Len(p) : p[k] = IF k < i THEN q[k] ELSE q[k + 1]
        <3>1. p = SubSeq(q, 1, i - 1) \o SubSeq(q, i + 1, Len(q)) BY DEF RemoveAt
        <3>2. SubSeq(q, 1, i - 1) \in Seq(T) /\ Len(SubSeq(q, 1, i - 1)) = i - 1 BY <2>1
        <3>3. SubSeq(q, i + 1, Len(q)) \in Seq(T) /\ Len(SubSeq(q, i + 1, Len(q))) = Len(q) - i BY <2>1
        <3>4. \A k \in 1..(i - 1) : SubSeq(q, 1, i - 1)[k] = q[k] BY <2>1
        <3>5. \A k \in 1..(Len(q) - i) : SubSeq(q, i + 1, Len(q))[k] = q[i + k] BY <2>1
        <3> DEFINE a == SubSeq(q, 1, i - 1)
                   b == SubSeq(q, i + 1, Len(q))
        <3> HIDE DEF a, b
        <3>6. p = a \o b BY <3>1 DEF a, b
        <3> HIDE DEF p
        <3>7. p \in Seq(T) /\ Len(p) = Len(a) + Len(b)
            BY <3>2, <3>3, <3>6, JoinedElements DEF a, b
        <3>9. \A k \in 1..Len(p) : p[k] = IF k <= Len(a) THEN a[k] ELSE b[k - Len(a)]
            BY <3>2, <3>3, <3>6, <3>7, JoinedElements DEF a, b
        <3>8. Len(a) = i - 1 /\ Len(b) = Len(q) - i BY <3>2, <3>3 DEF a, b
        <3>10. Len(p) = Len(q) - 1 BY <2>1, <2>2, <3>7, <3>8
        <3>11. ASSUME NEW k \in 1..Len(p) PROVE p[k] = IF k < i THEN q[k] ELSE q[k + 1]
            <4>1. p[k] = IF k <= i - 1 THEN a[k] ELSE b[k - (i - 1)] BY <3>8, <3>9
            <4>2. CASE k < i BY <2>1, <3>4, <4>1, <4>2 DEF a
            <4>3. CASE ~(k < i)
                <5>1. k - (i - 1) \in 1..(Len(q) - i) /\ i + (k - (i - 1)) = k + 1 BY <2>1, <2>2, <3>10, <4>3
                <5>2. b[k - (i - 1)] = q[k + 1] BY <3>5, <5>1 DEF b
                <5>3. ~(k <= i - 1) BY <2>1, <4>3
                <5>4. QED BY <4>1, <4>3, <5>2, <5>3
            <4>4. QED BY <4>2, <4>3
        <3>12. QED BY <3>7, <3>10, <3>11
    <2> HIDE DEF p
    <2>4. ASSUME IsInjective(q) PROVE IsInjective(p)
        <3>1. \A n \in 1..Len(p) : p[n] = q[IF n < i THEN n ELSE n + 1] /\ (IF n < i THEN n ELSE n + 1) \in 1..Len(q)
            BY <2>1, <2>2, <2>3
        <3>2. ASSUME NEW k \in 1..Len(p), NEW l \in 1..Len(p), p[k] = p[l] PROVE k = l
            <4>1. (IF k < i THEN k ELSE k + 1) = (IF l < i THEN l ELSE l + 1)
                BY <2>4, <3>1, <3>2 DEF IsInjective
            <4>2. QED BY <2>1, <2>3, <4>1
        <3>3. QED BY <2>3, <3>2 DEF IsInjective
    <2>5. ASSUME IsInjective(q), NEW y PROVE y \in ToSet(p) <=> y \in ToSet(q) /\ y # x
        <3>1. ASSUME NEW k \in 1..Len(p), p[k] = y PROVE y \in ToSet(q) /\ y # x
            <4>1. PICK l \in 1..Len(q) : q[l] = y /\ l # i BY <2>2, <2>3, <3>1
            <4>2. QED BY <2>1, <2>5, <4>1, ElementsOf DEF IsInjective
        <3>2. ASSUME NEW l \in 1..Len(q), q[l] = y, y # x PROVE \E k \in 1..Len(p) : p[k] = y
            <4>1. l # i BY <2>1, <3>2
            <4>2. CASE l < i BY <2>1, <2>2, <2>3, <3>2, <4>2
            <4>3. CASE l > i
                <5>1. l - 1 \in 1..Len(p) /\ ~(l - 1 < i) /\ (l - 1) + 1 = l BY <2>1, <2>2, <2>3, <4>3
                <5>2. p[l - 1] = y BY <2>3, <3>2, <5>1
                <5>3. QED BY <5>1, <5>2
            <4>4. QED BY <2>1, <4>1, <4>2, <4>3
        <3>3. QED BY <2>3, <3>1, <3>2, ElementsOf
    <2>6. QED BY <2>0, <2>3, <2>4, <2>5
<1>3. QED BY <1>1, <1>2

LEMMA FirstKeeps ==
    ASSUME NEW T, NEW q \in Seq(T), NEW n \in Nat
    PROVE  /\ First(n, q) \in Seq(T)
           /\ Len(First(n, q)) = AtMost(n, Len(q))
           /\ \A k \in 1..Len(First(n, q)) : First(n, q)[k] = q[k]
PROOF
<1>1. AtMost(n, Len(q)) \in 0..Len(q) BY DEF AtMost
<1>2. QED BY <1>1 DEF First

\* A list has every row once, if the order of the checks has.
LEMMA OrderedLists ==
    ASSUME asked \in Seq(Docs \cup Slots), NEW S \in SUBSET Docs
    PROVE  /\ Ordered(S) \in Seq(S)
           /\ ToSet(Ordered(S)) = S
           /\ IsInjective(asked) => IsInjective(Ordered(S))
PROOF
<1> DEFINE I == S \ ToSet(asked)
           a == InOrder(I)
           b == Only(asked, S)
<1>1. I \subseteq Nat /\ IsFiniteSet(I)
    <2>1. I \subseteq Docs OBVIOUS
    <2>2. QED BY <2>1, DocsAssumption, FS_Subset
<1>2. /\ Cardinality(I) \in Nat
      /\ a \in [1..Cardinality(I) -> I]
      /\ \A k, l \in 1..Cardinality(I) : a[k] = a[l] => k = l
      /\ \A i \in I : \E k \in 1..Cardinality(I) : a[k] = i
    BY <1>1, InOrderLists
<1>3. a \in Seq(I) /\ Len(a) = Cardinality(I) /\ DOMAIN a = 1..Len(a) BY <1>2, IsSequence
<1>4. /\ b \in Seq((Docs \cup Slots) \cap S)
      /\ ToSet(b) = ToSet(asked) \cap S
      /\ IsInjective(asked) => IsInjective(b)
    BY OnlyKeeps
<1>5. \A i : i \in I <=> i \in S /\ i \notin ToSet(asked) OBVIOUS
<1>6. Ordered(S) = a \o b BY DEF Ordered
<1> HIDE DEF I, a, b
<1>7. a \in Seq(S) /\ b \in Seq(S)
    <2>1. I \subseteq S /\ (Docs \cup Slots) \cap S \subseteq S BY <1>5
    <2>2. QED BY <1>3, <1>4, <2>1
<1>8. /\ Ordered(S) \in Seq(S) /\ Len(Ordered(S)) = Len(a) + Len(b)
      /\ \A k \in 1..(Len(a) + Len(b)) : Ordered(S)[k] = IF k <= Len(a) THEN a[k] ELSE b[k - Len(a)]
    BY <1>6, <1>7, JoinedElements
<1>9. \A x : x \in ToSet(b) <=> \E i \in 1..Len(b) : b[i] = x BY <1>7, ElementsOf
<1>10. Len(a) \in Nat /\ Len(b) \in Nat BY <1>7
<1>11. ASSUME NEW x \in S PROVE \E k \in 1..Len(Ordered(S)) : Ordered(S)[k] = x
    <2>1. CASE x \in I
        <3>1. PICK k \in 1..Len(a) : a[k] = x BY <1>2, <1>3, <2>1
        <3>2. k \in 1..Len(Ordered(S)) /\ k \in 1..(Len(a) + Len(b)) /\ k <= Len(a) BY <1>8, <1>10
        <3>3. QED BY <1>8, <3>1, <3>2
    <2>2. CASE x \notin I
        <3>1. x \in ToSet(b) BY <1>4, <1>5, <2>2
        <3>2. PICK k \in 1..Len(b) : b[k] = x BY <1>9, <3>1
        <3>3. Len(a) + k \in 1..(Len(a) + Len(b)) /\ ~(Len(a) + k <= Len(a)) /\ (Len(a) + k) - Len(a) = k BY <1>10
        <3>4. Ordered(S)[Len(a) + k] = x BY <1>8, <3>2, <3>3
        <3>5. QED BY <1>8, <3>3, <3>4
    <2>3. QED BY <2>1, <2>2
<1>12. ToSet(Ordered(S)) = S
    <2>1. ToSet(Ordered(S)) \subseteq S BY <1>8, ElementsOf
    <2>2. \A x \in S : x \in ToSet(Ordered(S)) BY <1>8, <1>11, ElementsOf
    <2>3. QED BY <2>1, <2>2
<1>13. ASSUME IsInjective(asked) PROVE IsInjective(Ordered(S))
    <2>1. IsInjective(b) /\ DOMAIN b = 1..Len(b) BY <1>4, <1>7, <1>13
    <2>2. ASSUME NEW k \in 1..Len(a), NEW l \in 1..Len(b) PROVE a[k] # b[l]
        <3>1. a[k] \notin ToSet(asked) BY <1>3, <1>5
        <3>2. b[l] \in ToSet(asked) BY <1>4, <1>9
        <3>3. QED BY <3>1, <3>2
    <2>3. ASSUME NEW k \in 1..Len(Ordered(S)), NEW l \in 1..Len(Ordered(S)), Ordered(S)[k] = Ordered(S)[l]
          PROVE  k = l
        <3>1. CASE k <= Len(a) /\ l <= Len(a)
            <4>1. k \in 1..Cardinality(I) /\ l \in 1..Cardinality(I) BY <1>3, <1>10, <3>1
            <4>2. a[k] = a[l] BY <1>8, <2>3, <3>1
            <4>3. QED BY <1>2, <4>1, <4>2
        <3>2. CASE k <= Len(a) /\ ~(l <= Len(a))
            <4>1. k \in 1..Len(a) /\ l - Len(a) \in 1..Len(b) BY <1>8, <1>10, <3>2
            <4>2. a[k] = b[l - Len(a)] BY <1>8, <2>3, <3>2
            <4>3. QED BY <2>2, <4>1, <4>2
        <3>3. CASE ~(k <= Len(a)) /\ l <= Len(a)
            <4>1. l \in 1..Len(a) /\ k - Len(a) \in 1..Len(b) BY <1>8, <1>10, <3>3
            <4>2. a[l] = b[k - Len(a)] BY <1>8, <2>3, <3>3
            <4>3. QED BY <2>2, <4>1, <4>2
        <3>4. CASE ~(k <= Len(a)) /\ ~(l <= Len(a))
            <4>1. l - Len(a) \in 1..Len(b) /\ k - Len(a) \in 1..Len(b) BY <1>8, <1>10, <3>4
            <4>2. b[l - Len(a)] = b[k - Len(a)] BY <1>8, <2>3, <3>4
            <4>3. l - Len(a) = k - Len(a) BY <2>1, <4>1, <4>2 DEF IsInjective
            <4>4. QED BY <1>8, <1>10, <4>3
        <3>5. QED BY <3>1, <3>2, <3>3, <3>4
    <2>4. QED BY <1>8, <2>3 DEF IsInjective
<1>14. QED BY <1>8, <1>12, <1>13

\* What a daily run takes from a list: nothing twice, no more than it may, and
\* everything when it may take as much as there is.
LEMMA ListedTakes ==
    ASSUME asked \in Seq(Docs \cup Slots), IsInjective(asked), NEW S \in SUBSET Docs, NEW n \in Nat
    PROVE  /\ Listed(S, n) \in Seq(S)
           /\ Len(Listed(S, n)) = AtMost(n, Cardinality(S))
           /\ IsInjective(Listed(S, n))
           /\ Cardinality(S) <= n => ToSet(Listed(S, n)) = S
PROOF
<1> DEFINE q == Ordered(S)
           p == Listed(S, n)
<1>1. q \in Seq(S) /\ ToSet(q) = S /\ IsInjective(q) BY OrderedLists
<1>2. p = First(n, q) BY DEF Listed
<1> HIDE DEF q, p
<1>3. p \in Seq(S) /\ Len(p) = AtMost(n, Len(q)) /\ \A k \in 1..Len(p) : p[k] = q[k]
    BY <1>1, <1>2, FirstKeeps
<1>4. Len(q) \in Nat /\ DOMAIN q = 1..Len(q) /\ q \in [1..Len(q) -> S] BY <1>1
<1>5. Cardinality(S) = Len(q)
    <2>1. \A x \in S : \E k \in 1..Len(q) : q[k] = x BY <1>1, ElementsOf
    <2>2. q \in Surjection(1..Len(q), S) BY <1>4, <2>1 DEF Surjection
    <2>3. q \in Injection(1..Len(q), S) BY <1>1, <1>4 DEF Injection
    <2>4. q \in Bijection(1..Len(q), S) BY <2>2, <2>3 DEF Bijection
    <2>5. QED BY <1>4, <2>4, FS_CountingElements DEF ExistsBijection
<1>6. DOMAIN p = 1..Len(p) /\ Len(p) <= Len(q) BY <1>3, <1>4 DEF AtMost
<1>7. IsInjective(p) BY <1>1, <1>3, <1>4, <1>6 DEF IsInjective
<1>8. ASSUME Cardinality(S) <= n PROVE ToSet(p) = S
    <2>1. Len(q) <= n BY <1>5, <1>8
    <2>2. Len(p) = Len(q)
        <3>1. CASE Len(q) < n BY <1>3, <3>1 DEF AtMost
        <3>2. CASE ~(Len(q) < n)
            <4>1. n \in Int /\ Len(q) \in Int BY <1>4
            <4>2. n = Len(q) BY <2>1, <3>2, <4>1
            <4>3. QED BY <1>3, <3>2, <4>2 DEF AtMost
        <3>3. QED BY <3>1, <3>2
    <2>3. \A x : x \in ToSet(p) <=> \E k \in 1..Len(p) : p[k] = x BY <1>3, ElementsOf
    <2>4. \A x : x \in ToSet(q) <=> \E k \in 1..Len(q) : q[k] = x BY <1>1, ElementsOf
    <2>5. \A x : x \in ToSet(p) <=> x \in ToSet(q) BY <1>3, <2>2, <2>3, <2>4
    <2>6. QED BY <1>1, <2>5
<1>9. QED BY <1>3, <1>5, <1>7, <1>8 DEF p

-----------------------------------------------------------------------------
(* The invariant *)
Modes == {"FULL", "STATUS_ONLY"}
Busy(s) == job[s].doc # None /\ job[s].joined = None

\* The order of the checks has every row and every synchronisation once, and of
\* the synchronisations those that run.
OrderSound == IsInjective(asked) /\ \A s \in Slots : s \in ToSet(asked) <=> Busy(s)

\* The first list of a daily run is within the limit.
DailyFits == Len(daily.ids) <= Limit

\* Only one synchronisation of a kind runs for a document.
OneEach == \A s, x \in Slots : Busy(s) /\ Runs(x, job[s].doc, job[s].mode) => s = x

\* Who has joined a synchronisation waits for one that runs.
JoinedRun == \A s \in Slots :
    job[s].joined # None => job[s].doc # None /\ Runs(job[s].joined, job[s].doc, job[s].mode)

\* A search by name and type that still is about its row was begun with the
\* external id the row has.
SearchFits == \A s \in Slots : job[s].fresh /\ job[s].mode = "FULL" /\ Busy(s) => job[s].ext = row[job[s].doc].ext

\* What has joined or is over does not store anything.
FreshRuns == \A s \in Slots : job[s].fresh => Busy(s)

IInv == TypeOK /\ OrderSound /\ DailyFits /\ OneEach /\ JoinedRun /\ SearchFits /\ FreshRuns

LEMMA FreeIsAJob == Free \in Job /\ Free.doc = None /\ ~Free.fresh /\ Free.joined = None
BY DEF Free, Job

LEMMA StampedKeeps ==
    ASSUME asked \in Seq(Docs \cup Slots), IsInjective(asked), NEW s \in Slots, job[s].doc \in Docs
    PROVE  /\ Stamped(s) \in Seq(Docs \cup Slots)
           /\ IsInjective(Stamped(s))
           /\ \A x \in Slots : x \in ToSet(Stamped(s)) <=> x \in ToSet(asked) /\ x # s
PROOF
<1> DEFINE d == job[s].doc
           q == Without(asked, d)
           p == Stamped(s)
<1>1. /\ q \in Seq(Docs \cup Slots) /\ IsInjective(q) /\ ToSet(q) = ToSet(asked) \ {d}
    BY WithoutKeeps
<1>2. p = [i \in DOMAIN q |-> IF q[i] = s THEN d ELSE q[i]] BY DEF Stamped
<1>3. d \in Docs /\ d \notin Slots /\ d # s BY SlotsAssumption
<1> HIDE DEF d, q, p
<1>4. Len(q) \in Nat /\ DOMAIN q = 1..Len(q) BY <1>1
<1>5. p \in [1..Len(q) -> Docs \cup Slots] BY <1>1, <1>2, <1>3, <1>4
<1>6. p \in Seq(Docs \cup Slots) /\ Len(p) = Len(q) /\ DOMAIN p = 1..Len(q) BY <1>4, <1>5, IsSequence
<1>7. \A x : x \in ToSet(q) <=> \E i \in 1..Len(q) : q[i] = x BY <1>1, ElementsOf
<1>8. \A x : x \in ToSet(p) <=> \E i \in 1..Len(q) : p[i] = x BY <1>6, ElementsOf
<1>9. \A i \in 1..Len(q) : q[i] # d BY <1>1, <1>7
<1>10. IsInjective(p)
    <2>1. ASSUME NEW i \in 1..Len(q), NEW j \in 1..Len(q), p[i] = p[j] PROVE q[i] = q[j]
        BY <1>2, <1>4, <1>9, <2>1
    <2>2. QED BY <1>1, <1>4, <1>6, <2>1 DEF IsInjective
<1>11. ASSUME NEW x \in Slots PROVE x \in ToSet(p) <=> x \in ToSet(asked) /\ x # s
    <2>1. \A i \in 1..Len(q) : p[i] = x <=> q[i] = x /\ x # s BY <1>2, <1>3, <1>4
    <2>2. x \in ToSet(p) <=> x \in ToSet(q) /\ x # s BY <1>7, <1>8, <2>1
    <2>3. QED BY <1>1, <1>3, <2>2
<1>12. QED BY <1>6, <1>10, <1>11 DEF p

LEMMA AppendKeeps ==
    ASSUME NEW T, NEW q \in Seq(T), NEW s \in T
    PROVE  /\ Append(q, s) \in Seq(T)
           /\ \A x : x \in ToSet(Append(q, s)) <=> x \in ToSet(q) \/ x = s
           /\ IsInjective(q) /\ s \notin ToSet(q) => IsInjective(Append(q, s))
PROOF
<1> DEFINE p == Append(q, s)
<1>1. /\ p \in Seq(T) /\ Len(p) = Len(q) + 1 /\ Len(q) \in Nat
      /\ \A i \in 1..Len(q) : p[i] = q[i]
      /\ p[Len(q) + 1] = s
      /\ DOMAIN p = 1..(Len(q) + 1) /\ DOMAIN q = 1..Len(q)
    OBVIOUS
<1> HIDE DEF p
<1>2. \A x : x \in ToSet(q) <=> \E i \in 1..Len(q) : q[i] = x BY ElementsOf
<1>3. \A x : x \in ToSet(p) <=> \E i \in 1..Len(p) : p[i] = x BY <1>1, ElementsOf
<1>4. \A x : x \in ToSet(p) <=> x \in ToSet(q) \/ x = s
    <2>1. \A i : i \in 1..Len(p) <=> i \in 1..Len(q) \/ i = Len(q) + 1 BY <1>1
    <2>2. QED BY <1>1, <1>2, <1>3, <2>1
<1>5. ASSUME IsInjective(q), s \notin ToSet(q) PROVE IsInjective(p)
    <2>1. \A i \in 1..Len(q) : q[i] # s BY <1>2, <1>5
    <2>2. ASSUME NEW i \in DOMAIN p, NEW j \in DOMAIN p, p[i] = p[j] PROVE i = j
        BY <1>1, <1>5, <2>1, <2>2 DEF IsInjective
    <2>3. QED BY <2>2 DEF IsInjective
<1>6. QED BY <1>1, <1>4, <1>5 DEF p

\* Joining or beginning a synchronisation.  "jobs" and "times" are what it is
\* joined to: the present ones, or these with a change of the row applied.
LEMMA SynchronisesTypes ==
    ASSUME NEW s \in Slots, NEW d \in Docs, NEW mode \in Modes, NEW ext \in BOOLEAN,
           NEW jobs \in [Slots -> Job], NEW times \in Seq(Docs \cup Slots),
           Synchronises(s, d, mode, ext, jobs, times)
    PROVE  job' \in [Slots -> Job] /\ asked' \in Seq(Docs \cup Slots)
PROOF
<1>1. CASE \E x \in Slots :
              /\ Runs(x, d, mode) /\ asked' = times
              /\ job' = [jobs EXCEPT ![s] = [Free EXCEPT !.doc = d, !.mode = mode, !.joined = x]]
    <2>1. PICK x \in Slots :
              /\ asked' = times
              /\ job' = [jobs EXCEPT ![s] = [Free EXCEPT !.doc = d, !.mode = mode, !.joined = x]]
        BY <1>1
    <2>2. [Free EXCEPT !.doc = d, !.mode = mode, !.joined = x] \in Job BY DEF Free, Job, Modes
    <2>3. QED BY <2>1, <2>2
<1>2. CASE /\ asked' = Append(times, s)
           /\ job' = [jobs EXCEPT ![s] = [Free EXCEPT !.doc = d, !.mode = mode, !.fresh = TRUE, !.ext = ext]]
    <2>1. [Free EXCEPT !.doc = d, !.mode = mode, !.fresh = TRUE, !.ext = ext] \in Job BY DEF Free, Job, Modes
    <2>2. QED BY <1>2, <2>1
<1>3. QED BY <1>1, <1>2 DEF Synchronises

Flights == OrderSound /\ OneEach /\ JoinedRun /\ SearchFits /\ FreshRuns

\* The same synchronisations, of which some may not be about their row any more.
SameFlights(jobs) ==
    \A x \in Slots : /\ jobs[x].doc = job[x].doc /\ jobs[x].mode = job[x].mode
                     /\ jobs[x].joined = job[x].joined /\ jobs[x].ext = job[x].ext
                     /\ jobs[x].fresh => job[x].fresh

\* Among "jobs", y is a synchronisation that runs and is the one x waits for.
RunsFor(jobs, y, x) ==
    /\ jobs[x].doc # None
    /\ jobs[y].doc = jobs[x].doc /\ jobs[y].mode = jobs[x].mode /\ jobs[y].joined = None

\* The order of the checks has the same synchronisations, each once.
SameRunning(times) ==
    /\ times \in Seq(Docs \cup Slots) /\ IsInjective(times)
    /\ \A x \in Slots : x \in ToSet(times) <=> x \in ToSet(asked)

LEMMA SameFlightsFit ==
    ASSUME IInv, SameFlights(job'), SameRunning(asked'),
           \A x \in Slots : job'[x].fresh => row'[job[x].doc].ext = row[job[x].doc].ext
    PROVE  Flights'
PROOF
<1>1. \A x \in Slots : Busy(x)' <=> Busy(x) BY DEF Busy, SameFlights
<1>2. OrderSound' BY <1>1 DEF IInv, OrderSound, SameRunning
<1>3. OneEach' BY <1>1 DEF IInv, OneEach, SameFlights, Runs
<1>4. JoinedRun'
    <2>1. ASSUME NEW x \in Slots, job'[x].joined # None
          PROVE  RunsFor(job', job'[x].joined, x)
        <3>1. RunsFor(job, job[x].joined, x) BY <2>1 DEF IInv, JoinedRun, SameFlights, Runs, RunsFor
        <3>2. job[x].joined \in Slots BY <2>1 DEF IInv, TypeOK, Job, SameFlights
        <3>3. QED BY <3>1, <3>2 DEF RunsFor, SameFlights
    <2>2. QED BY <2>1 DEF JoinedRun, Runs, RunsFor
<1>5. SearchFits' BY <1>1 DEF IInv, SearchFits, SameFlights
<1>6. FreshRuns' BY <1>1 DEF IInv, FreshRuns, SameFlights
<1>7. QED BY <1>2, <1>3, <1>4, <1>5, <1>6 DEF Flights

LEMMA SynchronisesFits ==
    ASSUME IInv, NEW s \in Slots, NEW d \in Docs, NEW mode \in Modes, NEW ext \in BOOLEAN,
           NEW jobs \in [Slots -> Job], NEW times,
           SameFlights(jobs), SameRunning(times), job[s] = Free,
           Synchronises(s, d, mode, ext, jobs, times),
           \A x \in Slots : jobs[x].fresh => row'[job[x].doc].ext = row[job[x].doc].ext,
           ext = row'[d].ext
    PROVE  Flights'
PROOF
<1>1. d # None /\ s # None /\ None \notin Slots BY NoneAssumption
<1>2. job[s].doc = None /\ job[s].joined = None /\ ~Busy(s) /\ s \notin ToSet(times)
    BY FreeIsAJob DEF IInv, OrderSound, SameRunning, Busy
<1>3. \A x \in Slots : job[x].joined # s
    BY <1>1, <1>2 DEF IInv, JoinedRun, Runs, TypeOK, Job
<1>4. ASSUME NEW x \in Slots, x # s, job'[x].joined # None,
             \A z \in Slots : z # s => job'[z] = jobs[z]
      PROVE  RunsFor(job', job'[x].joined, x)
    <2>1. job[x].joined # None /\ job'[x].joined = job[x].joined
        /\ job'[x].doc = job[x].doc /\ job'[x].mode = job[x].mode
        BY <1>4 DEF SameFlights
    <2>2. RunsFor(job, job[x].joined, x) BY <2>1 DEF IInv, JoinedRun, Runs, RunsFor
    <2>3. job[x].joined \in Slots /\ job[x].joined # s BY <1>3, <2>1 DEF IInv, TypeOK, Job
    <2>4. QED BY <1>4, <2>1, <2>2, <2>3 DEF RunsFor, SameFlights
<1>5. CASE \E x \in Slots :
              /\ Runs(x, d, mode) /\ asked' = times
              /\ job' = [jobs EXCEPT ![s] = [Free EXCEPT !.doc = d, !.mode = mode, !.joined = x]]
    <2>1. PICK y \in Slots :
              /\ Runs(y, d, mode) /\ asked' = times
              /\ job' = [jobs EXCEPT ![s] = [Free EXCEPT !.doc = d, !.mode = mode, !.joined = y]]
        BY <1>5
    <2>2. y # s BY <1>1, <1>2, <2>1 DEF Runs
    <2>3. \A x \in Slots : x # s => job'[x] = jobs[x] BY <2>1
    <2>4. job'[s].doc = d /\ job'[s].mode = mode /\ job'[s].joined = y /\ ~job'[s].fresh
        BY <2>1 DEF Free
    <2>5. \A x \in Slots : Busy(x)' <=> Busy(x) BY <1>1, <1>2, <2>3, <2>4 DEF Busy, SameFlights
    <2>6. OrderSound' BY <2>1, <2>5 DEF IInv, OrderSound, SameRunning
    <2>7. OneEach' BY <1>1, <2>3, <2>4, <2>5 DEF IInv, OneEach, SameFlights, Runs, Busy
    <2>8. ASSUME NEW x \in Slots, job'[x].joined # None
          PROVE  RunsFor(job', job'[x].joined, x)
        <3>1. CASE x = s BY <1>1, <2>1, <2>2, <2>3, <2>4, <3>1 DEF Runs, RunsFor, SameFlights
        <3>2. CASE x # s BY <1>4, <2>3, <2>8, <3>2
        <3>3. QED BY <3>1, <3>2
    <2>9. JoinedRun' BY <2>8 DEF JoinedRun, Runs, RunsFor
    <2>10. SearchFits' BY <2>3, <2>4, <2>5 DEF IInv, SearchFits, SameFlights
    <2>11. FreshRuns' BY <2>3, <2>4, <2>5 DEF IInv, FreshRuns, SameFlights
    <2>12. QED BY <2>6, <2>7, <2>9, <2>10, <2>11 DEF Flights
<1>6. CASE /\ \A x \in Slots : ~Runs(x, d, mode)
           /\ asked' = Append(times, s)
           /\ job' = [jobs EXCEPT ![s] = [Free EXCEPT !.doc = d, !.mode = mode, !.fresh = TRUE, !.ext = ext]]
    <2>3. \A x \in Slots : x # s => job'[x] = jobs[x] BY <1>6
    <2>4. /\ job'[s].doc = d /\ job'[s].mode = mode /\ job'[s].joined = None
          /\ job'[s].ext = ext
        BY <1>6 DEF Free
    <2>5. \A x \in Slots : Busy(x)' <=> Busy(x) \/ x = s BY <1>1, <1>2, <2>3, <2>4 DEF Busy, SameFlights
    <2>6. OrderSound'
        <3>1. /\ \A x : x \in ToSet(asked') <=> x \in ToSet(times) \/ x = s
              /\ IsInjective(asked')
            BY <1>2, <1>6, AppendKeeps DEF SameRunning
        <3>2. QED BY <2>5, <3>1 DEF IInv, OrderSound, SameRunning
    <2>7. OneEach'
        <3>1. \A x \in Slots : x # s => ~(job'[x].doc = d /\ job'[x].mode = mode /\ job'[x].joined = None)
            BY <1>6, <2>3 DEF SameFlights, Runs
        <3>2. QED BY <2>3, <2>4, <2>5, <3>1 DEF IInv, OneEach, SameFlights, Runs, Busy
    <2>8. ASSUME NEW x \in Slots, job'[x].joined # None
          PROVE  RunsFor(job', job'[x].joined, x)
        BY <1>4, <2>3, <2>4, <2>8
    <2>9. JoinedRun' BY <2>8 DEF JoinedRun, Runs, RunsFor
    <2>10. SearchFits' BY <2>3, <2>4, <2>5 DEF IInv, SearchFits, SameFlights
    <2>11. FreshRuns' BY <2>3, <2>4, <2>5 DEF IInv, FreshRuns, SameFlights
    <2>12. QED BY <2>6, <2>7, <2>9, <2>10, <2>11 DEF Flights
<1>7. QED BY <1>5, <1>6 DEF Synchronises

\* The end of a synchronisation, with whatever it has stored.
LEMMA EndsFits ==
    ASSUME IInv, NEW s \in Slots, Busy(s), Ends(s),
           IsInjective(asked'), \A x \in Slots : x \in ToSet(asked') <=> x \in ToSet(asked) /\ x # s,
           \A x \in Slots : x # s /\ Busy(x) /\ job[x].fresh /\ job[x].mode = "FULL"
                            => row'[job[x].doc].ext = row[job[x].doc].ext
    PROVE  Flights'
PROOF
<1>1. None \notin Slots /\ s # None BY NoneAssumption
<1>2. \A x \in Slots : job'[x] = IF x = s \/ job[x].joined = s THEN Free ELSE job[x]
    BY DEF Ends
<1>3. \A x \in Slots : Busy(x)' <=> Busy(x) /\ x # s BY <1>1, <1>2, FreeIsAJob DEF Busy
<1>4. \A x \in Slots : Busy(x)' => job'[x] = job[x] BY <1>1, <1>2, <1>3 DEF Busy
<1>5. OrderSound' BY <1>3 DEF IInv, OrderSound
<1>6. OneEach'
    <2>1. ASSUME NEW x \in Slots, NEW y \in Slots, Busy(x)', Runs(y, job[x].doc, job[x].mode)'
          PROVE  x = y
        <3>1. job'[x].doc # None BY <2>1 DEF Busy
        <3>2. Busy(y)' BY <2>1, <3>1 DEF Busy, Runs
        <3>3. job'[x] = job[x] /\ job'[y] = job[y] /\ Busy(x) BY <1>3, <1>4, <2>1, <3>2
        <3>4. Runs(y, job[x].doc, job[x].mode) BY <2>1, <3>3 DEF Runs
        <3>5. QED BY <3>3, <3>4 DEF IInv, OneEach
    <2>2. QED BY <2>1 DEF OneEach
<1>7. JoinedRun'
    <2>1. ASSUME NEW x \in Slots, job'[x].joined # None PROVE RunsFor(job', job'[x].joined, x)
        <3>1. job'[x] = job[x] /\ job[x].joined # s /\ job[x].joined # None BY <1>2, <2>1, FreeIsAJob
        <3>2. RunsFor(job, job[x].joined, x) BY <3>1 DEF IInv, JoinedRun, Runs, RunsFor
        <3>3. job[x].joined \in Slots BY <3>1 DEF IInv, TypeOK, Job
        <3>4. job'[job[x].joined] = job[job[x].joined] BY <1>1, <1>2, <3>1, <3>2, <3>3 DEF RunsFor
        <3>5. QED BY <3>1, <3>2, <3>4 DEF RunsFor
    <2>2. QED BY <2>1 DEF JoinedRun, Runs, RunsFor
<1>8. SearchFits' BY <1>3, <1>4 DEF IInv, SearchFits
<1>9. FreshRuns' BY <1>1, <1>2, FreeIsAJob DEF IInv, FreshRuns, Busy
<1>10. QED BY <1>5, <1>6, <1>7, <1>8, <1>9 DEF Flights

\* Nothing runs any more.
LEMMA ForgetFits ==
    ASSUME IInv, Forget
    PROVE  Flights' /\ asked' \in Seq(Docs \cup Slots)
PROOF
<1>1. \A x \in Slots : job'[x] = Free BY DEF Forget
<1>2. /\ asked' \in Seq((Docs \cup Slots) \cap Docs) /\ IsInjective(asked')
      /\ ToSet(asked') = ToSet(asked) \cap Docs
    BY OnlyKeeps DEF Forget, IInv, TypeOK, OrderSound
<1>3. \A x \in Slots : ~Busy(x)' BY <1>1, FreeIsAJob DEF Busy
<1>4. \A x \in Slots : x \notin ToSet(asked') BY <1>2, SlotsAssumption
<1>5. OrderSound' BY <1>2, <1>3, <1>4 DEF OrderSound
<1>6. OneEach' /\ SearchFits' BY <1>3 DEF OneEach, SearchFits
<1>7. JoinedRun' /\ FreshRuns' BY <1>1, FreeIsAJob DEF JoinedRun, FreshRuns
<1>8. asked' \in Seq(Docs \cup Slots)
    <2>1. (Docs \cup Slots) \cap Docs \subseteq Docs \cup Slots OBVIOUS
    <2>2. QED BY <1>2, <2>1
<1>9. QED BY <1>5, <1>6, <1>7, <1>8 DEF Flights

-----------------------------------------------------------------------------
(* The steps *)
LEMMA InitFits == Init => IInv
PROOF
<1> SUFFICES ASSUME Init PROVE IInv OBVIOUS
<1>1. TypeOK
    <2>1. \A d \in Docs : row[d] \in Row BY DEF Init, Reset, Row
    <2>2. row \in [Docs -> Row] BY <2>1 DEF Init
    <2>3. job \in [Slots -> Job] BY FreeIsAJob DEF Init
    <2>4. daily \in [read : BOOLEAN, ids : Seq(Docs)] BY DEF Init, NoRun
    <2>5. QED BY <2>2, <2>3, <2>4, BoundsAssumption DEF Init, TypeOK
<1>2. OrderSound
    <2>1. IsInjective(asked) /\ \A x : x \notin ToSet(asked) BY DEF Init, IsInjective, ToSet
    <2>2. QED BY <2>1, FreeIsAJob DEF Init, OrderSound, Busy
<1>3. DailyFits BY LimitAssumption DEF Init, DailyFits, NoRun
<1>4. OneEach /\ JoinedRun /\ SearchFits /\ FreshRuns
    BY FreeIsAJob DEF Init, OneEach, JoinedRun, SearchFits, FreshRuns, Busy
<1>5. QED BY <1>1, <1>2, <1>3, <1>4 DEF IInv

LEMMA PresentFits ==
    ASSUME IInv
    PROVE  SameFlights(job) /\ SameRunning(asked)
BY DEF IInv, TypeOK, OrderSound, SameFlights, SameRunning

\* The invariant is what a step has to keep of the flights, the types and the limit.
LEMMA Assembled ==
    ASSUME TypeOK', Flights', DailyFits'
    PROVE  IInv'
BY DEF IInv, Flights

LEMMA MessagesType ==
    ASSUME NEW ids \in Seq(Docs), NEW mode \in Modes
    PROVE  Messages(ids, mode) \in Seq(Message) /\ Len(Messages(ids, mode)) = Len(ids)
PROOF
<1>1. \A i \in 1..Len(ids) : [doc |-> ids[i], mode |-> mode] \in Message BY DEF Message, Modes
<1>2. Messages(ids, mode) \in [1..Len(ids) -> Message] BY <1>1 DEF Messages
<1>3. Len(ids) \in Nat OBVIOUS
<1>4. QED BY <1>2, <1>3, IsSequence

LEMMA TakeFits ==
    ASSUME IInv, NEW w \in Workers, Take(w)
    PROVE  IInv'
PROOF
<1> DEFINE m == Head(queue)
<1>1. w \in Slots BY DEF Slots
<1>2. m \in Message /\ Tail(queue) \in Seq(Message)
    BY DEF Take, IInv, TypeOK
<1>3. /\ job[w] = Free /\ queue' = Tail(queue)
      /\ UNCHANGED <<row, file, daily, phase, requests, faults>>
      /\ IF row[m.doc].sync = "NOT_REQUIRED" THEN UNCHANGED <<job, asked>>
         ELSE Synchronises(w, m.doc, m.mode, row[m.doc].ext, job, asked)
    BY DEF Take
<1> HIDE DEF m
<1>4. m.doc \in Docs /\ m.mode \in Modes BY <1>2 DEF Message, Modes
<1>5. row[m.doc].ext \in BOOLEAN BY <1>4 DEF IInv, TypeOK, Row
<1>6. CASE UNCHANGED <<job, asked>>
    <2>1. Flights' BY <1>3, <1>6 DEF IInv, Flights, OrderSound, OneEach, JoinedRun, SearchFits, FreshRuns, Busy, Runs
    <2>2. TypeOK' BY <1>2, <1>3, <1>6 DEF IInv, TypeOK
    <2>3. DailyFits' BY <1>3 DEF IInv, DailyFits
    <2>4. QED BY <2>1, <2>2, <2>3, Assembled
<1>7. CASE Synchronises(w, m.doc, m.mode, row[m.doc].ext, job, asked)
    <2>1. job \in [Slots -> Job] /\ asked \in Seq(Docs \cup Slots) BY DEF IInv, TypeOK
    <2>2. job' \in [Slots -> Job] /\ asked' \in Seq(Docs \cup Slots)
        BY <1>1, <1>4, <1>5, <1>7, <2>1, SynchronisesTypes
    <2>3. Flights' BY <1>1, <1>3, <1>4, <1>5, <1>7, <2>1, PresentFits, SynchronisesFits
    <2>4. TypeOK' BY <1>2, <1>3, <2>2 DEF IInv, TypeOK
    <2>5. DailyFits' BY <1>3 DEF IInv, DailyFits
    <2>6. QED BY <2>3, <2>4, <2>5, Assembled
<1>8. QED BY <1>3, <1>6, <1>7

LEMMA ArrivesTypes ==
    ASSUME IInv, NEW c \in Callers, Arrives(c)
    PROVE  c \in Slots /\ job[c] = Free /\ requests' \in 0..MaxRequests
BY BoundsAssumption DEF Arrives, IInv, TypeOK, Slots

LEMMA CheckNowFits ==
    ASSUME IInv, NEW c \in Callers, NEW d \in Docs, CheckNow(c, d)
    PROVE  IInv'
PROOF
<1>1. c \in Slots /\ job[c] = Free /\ requests' \in 0..MaxRequests BY ArrivesTypes DEF CheckNow
<1>2. row[d].ext \in BOOLEAN /\ "FULL" \in Modes BY DEF IInv, TypeOK, Row, Modes
<1>3. job \in [Slots -> Job] /\ asked \in Seq(Docs \cup Slots) BY DEF IInv, TypeOK
<1>4. Synchronises(c, d, "FULL", row[d].ext, job, asked) BY DEF CheckNow
<1>5. UNCHANGED <<row, queue, file, daily, phase, faults>> BY DEF CheckNow
<1>6. job' \in [Slots -> Job] /\ asked' \in Seq(Docs \cup Slots)
    BY <1>1, <1>2, <1>3, <1>4, SynchronisesTypes
<1>7. Flights' BY <1>1, <1>2, <1>3, <1>4, <1>5, PresentFits, SynchronisesFits
<1>8. TypeOK' BY <1>1, <1>5, <1>6 DEF IInv, TypeOK
<1>9. DailyFits' BY <1>5 DEF IInv, DailyFits
<1>10. QED BY <1>7, <1>8, <1>9, Assembled

LEMMA SubmitFits ==
    ASSUME IInv, NEW c \in Callers, NEW d \in Docs, NEW status \in {"PENDING", "NOT_REQUIRED"},
           Submit(c, d, status)
    PROVE  IInv'
PROOF
<1> DEFINE jobs == [s \in Slots |-> IF job[s].doc = d THEN [job[s] EXCEPT !.fresh = FALSE] ELSE job[s]]
           times == Without(asked, d)
<1>1. c \in Slots /\ job[c] = Free /\ requests' \in 0..MaxRequests BY ArrivesTypes DEF Submit
<1>2. /\ row' = [row EXCEPT ![d] = Reset(status)]
      /\ IF status = "NOT_REQUIRED" THEN job' = jobs /\ asked' = times
         ELSE Synchronises(c, d, "FULL", FALSE, jobs, times)
      /\ UNCHANGED <<queue, file, daily, phase, faults>>
    BY DEF Submit
<1>3. jobs \in [Slots -> Job]
    <2>1. ASSUME NEW s \in Slots PROVE job[s] \in Job /\ [job[s] EXCEPT !.fresh = FALSE] \in Job
        BY DEF IInv, TypeOK, Job
    <2>2. QED BY <2>1
<1>4. SameFlights(jobs)
    <2>1. ASSUME NEW s \in Slots PROVE job[s] \in Job BY DEF IInv, TypeOK
    <2>2. QED BY <2>1 DEF SameFlights, Job
<1>5. SameRunning(times)
    <2>1. asked \in Seq(Docs \cup Slots) /\ IsInjective(asked) BY DEF IInv, TypeOK, OrderSound
    <2>2. times \in Seq(Docs \cup Slots) /\ IsInjective(times) /\ ToSet(times) = ToSet(asked) \ {d}
        BY <2>1, WithoutKeeps
    <2>3. d \notin Slots BY SlotsAssumption
    <2>4. QED BY <2>2, <2>3 DEF SameRunning
<1>6. \A x \in Slots : jobs[x].fresh => row'[job[x].doc].ext = row[job[x].doc].ext
    <2>1. ASSUME NEW x \in Slots, jobs[x].fresh PROVE job[x].doc # d
        <3>1. job[x] \in Job BY DEF IInv, TypeOK
        <3>2. QED BY <2>1, <3>1 DEF Job
    <2>2. QED BY <1>2, <2>1 DEF IInv, TypeOK
<1>7. row' \in [Docs -> Row] /\ row'[d].ext = FALSE
    BY <1>2 DEF IInv, TypeOK, Reset, Row
<1>8. times \in Seq(Docs \cup Slots) BY <1>5 DEF SameRunning
<1> HIDE DEF jobs, times
<1>9. DailyFits' BY <1>2 DEF IInv, DailyFits
<1>10. CASE job' = jobs /\ asked' = times
    <2>1. SameFlights(job') /\ SameRunning(asked') BY <1>4, <1>5, <1>10
    <2>2. Flights' BY <1>6, <1>10, <2>1, SameFlightsFit
    <2>3. TypeOK' BY <1>1, <1>2, <1>3, <1>7, <1>8, <1>10 DEF IInv, TypeOK
    <2>4. QED BY <1>9, <2>2, <2>3, Assembled
<1>11. CASE Synchronises(c, d, "FULL", FALSE, jobs, times)
    <2>1. "FULL" \in Modes /\ FALSE \in BOOLEAN BY DEF Modes
    <2>2. job' \in [Slots -> Job] /\ asked' \in Seq(Docs \cup Slots)
        BY <1>1, <1>3, <1>8, <1>11, <2>1, SynchronisesTypes
    <2>3. Flights' BY <1>1, <1>3, <1>4, <1>5, <1>6, <1>7, <1>11, <2>1, SynchronisesFits
    <2>4. TypeOK' BY <1>1, <1>2, <1>7, <2>2 DEF IInv, TypeOK
    <2>5. QED BY <1>9, <2>3, <2>4, Assembled
<1>12. QED BY <1>2, <1>10, <1>11

LEMMA RunningIsBusy ==
    ASSUME IInv, NEW s \in Slots, Running(s)
    PROVE  Busy(s) /\ job[s].doc \in Docs /\ job[s] \in Job
BY DEF Running, Busy, IInv, TypeOK, Job

\* What an answer makes of a row.
LEMMA AnswersFit ==
    ASSUME IInv, NEW s \in Slots, job[s].doc \in Docs, NEW a \in Answers(s)
    PROVE  /\ a \in Row
           /\ job[s].mode = "STATUS_ONLY" => a.ext = row[job[s].doc].ext
           /\ a.sync = "NOT_FOUND" => job[s].mode = "FULL" /\ ~job[s].ext /\ ~a.ext
PROOF
<1>1. row[job[s].doc] \in Row /\ job[s] \in Job BY DEF IInv, TypeOK
<1>2. CASE a = [row[job[s].doc] EXCEPT !.sync = "ERROR"]
    BY <1>1, <1>2 DEF Row
<1>3. CASE /\ a \in [sync : {"SUCCESS"}, ext : {TRUE}, ended : BOOLEAN]
           /\ job[s].mode = "FULL" \/ (job[s].ext /\ row[job[s].doc].ext)
    BY <1>1, <1>3 DEF Row, Job
<1>4. CASE a = Reset("NOT_FOUND") /\ job[s].mode = "FULL" /\ ~job[s].ext
    BY <1>4 DEF Row, Reset
<1>5. QED BY <1>2, <1>3, <1>4 DEF Answers

LEMMA EndsTypes ==
    ASSUME IInv, NEW s \in Slots, Ends(s)
    PROVE  job' \in [Slots -> Job]
BY FreeIsAJob DEF Ends, IInv, TypeOK

LEMMA SaveFits ==
    ASSUME IInv, NEW s \in Slots, Save(s)
    PROVE  IInv'
PROOF
<1> DEFINE d == job[s].doc
<1>1. Busy(s) /\ d \in Docs /\ job[s] \in Job /\ job[s].fresh BY RunningIsBusy DEF Save
<1>2. PICK a \in Answers(s) : row' = [row EXCEPT ![d] = a] /\ asked' = Stamped(s) BY DEF Save
<1>3. Ends(s) /\ UNCHANGED <<queue, file, daily, phase, requests, faults>> BY DEF Save
<1>4. a \in Row /\ (job[s].mode = "STATUS_ONLY" => a.ext = row[d].ext) BY <1>1, AnswersFit
<1>5. /\ asked' \in Seq(Docs \cup Slots) /\ IsInjective(asked')
      /\ \A x \in Slots : x \in ToSet(asked') <=> x \in ToSet(asked) /\ x # s
    BY <1>1, <1>2, StampedKeeps DEF IInv, TypeOK, OrderSound
<1>6. ASSUME NEW x \in Slots, x # s, Busy(x), job[x].fresh, job[x].mode = "FULL"
      PROVE  row'[job[x].doc].ext = row[job[x].doc].ext
    <2>1. CASE job[x].doc # d BY <1>2, <2>1
    <2>2. CASE job[x].doc = d
        <3>1. job[s].mode # "FULL" BY <1>1, <1>6, <2>2 DEF IInv, OneEach, Runs, Busy
        <3>2. job[s].mode = "STATUS_ONLY" BY <1>1, <3>1 DEF Job
        <3>3. row'[d].ext = row[d].ext BY <1>1, <1>2, <1>4, <3>2 DEF IInv, TypeOK
        <3>4. QED BY <2>2, <3>3
    <2>3. QED BY <2>1, <2>2
<1>7. Flights' BY <1>1, <1>3, <1>5, <1>6, EndsFits
<1>8. job' \in [Slots -> Job] BY <1>3, EndsTypes
<1>9. row' \in [Docs -> Row] BY <1>1, <1>2, <1>4 DEF IInv, TypeOK
<1>10. TypeOK' BY <1>3, <1>5, <1>8, <1>9 DEF IInv, TypeOK
<1>11. DailyFits' BY <1>3 DEF IInv, DailyFits
<1>12. QED BY <1>7, <1>10, <1>11, Assembled

LEMMA DiscardFits ==
    ASSUME IInv, NEW s \in Slots, Discard(s)
    PROVE  IInv'
PROOF
<1>1. Busy(s) /\ s \notin Docs BY RunningIsBusy, SlotsAssumption DEF Discard
<1>2. asked' = Without(asked, s) /\ Ends(s) /\ UNCHANGED <<row, queue, file, daily, phase, requests>>
    BY DEF Discard
<1>3. faults' \in 0..MaxFaults BY BoundsAssumption DEF Discard, IInv, TypeOK
<1>4. /\ asked' \in Seq(Docs \cup Slots) /\ IsInjective(asked')
      /\ ToSet(asked') = ToSet(asked) \ {s}
    BY <1>2, WithoutKeeps DEF IInv, TypeOK, OrderSound
<1>5. \A x \in Slots : x \in ToSet(asked') <=> x \in ToSet(asked) /\ x # s BY <1>4
<1>6. Flights' BY <1>1, <1>2, <1>4, <1>5, EndsFits
<1>7. job' \in [Slots -> Job] BY <1>2, EndsTypes
<1>8. TypeOK' BY <1>2, <1>3, <1>4, <1>7 DEF IInv, TypeOK
<1>9. DailyFits' BY <1>2 DEF IInv, DailyFits
<1>10. QED BY <1>6, <1>8, <1>9, Assembled

\* A step that leaves documents and synchronisations alone.
LEMMA FlightsKept ==
    ASSUME IInv, UNCHANGED <<row, asked, job>>
    PROVE  Flights'
BY DEF IInv, Flights, OrderSound, OneEach, JoinedRun, SearchFits, FreshRuns, Busy, Runs

LEMMA FullIsListed ==
    ASSUME IInv, NEW S \in SUBSET Docs, NEW n \in Nat
    PROVE  Listed(S, n) \in Seq(Docs) /\ Len(Listed(S, n)) <= n
PROOF
<1>1. /\ Listed(S, n) \in Seq(S)
      /\ Len(Listed(S, n)) = AtMost(n, Cardinality(S))
    BY ListedTakes DEF IInv, TypeOK, OrderSound
<1>2. IsFiniteSet(S) BY DocsAssumption, FS_Subset
<1>3. Cardinality(S) \in Nat BY <1>2, FS_CardinalityType
<1>4. AtMost(n, Cardinality(S)) <= n BY <1>3 DEF AtMost
<1>5. QED BY <1>1, <1>4

LEMMA DailyFullFits ==
    ASSUME IInv, DailyFull
    PROVE  IInv'
PROOF
<1> DEFINE S == {d \in Docs : FullDue(d)}
           p == Listed(S, Limit)
<1>1. p \in Seq(Docs) /\ Len(p) <= Limit BY FullIsListed, LimitAssumption
<1>2. daily' = [read |-> TRUE, ids |-> p] /\ UNCHANGED <<row, asked, queue, file, job, phase, requests, faults>>
    BY DEF DailyFull
<1> HIDE DEF p
<1>3. TypeOK' BY <1>1, <1>2 DEF IInv, TypeOK
<1>4. DailyFits' BY <1>1, <1>2 DEF DailyFits
<1>5. Flights' BY <1>2, FlightsKept
<1>6. QED BY <1>3, <1>4, <1>5, Assembled

LEMMA DailyEnqueueFits ==
    ASSUME IInv, DailyEnqueue
    PROVE  IInv' /\ Len(queue') <= Len(queue) + Limit
PROOF
<1> DEFINE S == {d \in Docs : StatusDue(d)}
           p == Listed(S, Limit - Len(daily.ids))
           a == Messages(daily.ids, "FULL")
           b == Messages(p, "STATUS_ONLY")
<1>1. daily.ids \in Seq(Docs) /\ Len(daily.ids) \in Nat /\ Limit \in Nat /\ Len(daily.ids) <= Limit
    BY LimitAssumption DEF IInv, TypeOK, DailyFits
<1>2. Limit - Len(daily.ids) \in Nat BY <1>1
<1>3. p \in Seq(Docs) /\ Len(p) <= Limit - Len(daily.ids) BY <1>2, FullIsListed
<1>4. daily' = NoRun /\ queue' = (queue \o a) \o b
      /\ UNCHANGED <<row, asked, file, job, phase, requests, faults>>
    BY DEF DailyEnqueue
<1> HIDE DEF p
<1>5. a \in Seq(Message) /\ Len(a) = Len(daily.ids) BY <1>1, MessagesType DEF Modes
<1>6. b \in Seq(Message) /\ Len(b) = Len(p) BY <1>3, MessagesType DEF Modes
<1> HIDE DEF a, b
<1>7. queue \o a \in Seq(Message) /\ Len(queue \o a) = Len(queue) + Len(a) /\ Len(queue) \in Nat
    <2>1. queue \in Seq(Message) BY DEF IInv, TypeOK
    <2>2. QED BY <1>5, <2>1, JoinedElements
<1>8. queue' \in Seq(Message) /\ Len(queue') = Len(queue) + Len(a) + Len(b)
    BY <1>4, <1>6, <1>7, JoinedElements
<1>9. Len(queue') <= Len(queue) + Limit
    <2>1. Len(p) \in Nat BY <1>3
    <2>2. QED BY <1>1, <1>3, <1>5, <1>6, <1>7, <1>8, <2>1
<1>10. daily' \in [read : BOOLEAN, ids : Seq(Docs)] BY <1>4 DEF NoRun
<1>11. TypeOK' BY <1>4, <1>8, <1>10 DEF IInv, TypeOK
<1>12. DailyFits' BY <1>4, LimitAssumption DEF DailyFits, NoRun
<1>13. Flights' BY <1>4, FlightsKept
<1>14. QED BY <1>9, <1>11, <1>12, <1>13, Assembled

LEMMA ServerFits ==
    ASSUME IInv, DailyFails \/ Stop \/ Start
    PROVE  IInv'
PROOF
<1>1. UNCHANGED <<row, asked, job>> BY DEF DailyFails, Stop, Start
<1>2. Flights' BY <1>1, FlightsKept
<1>3. faults' \in 0..MaxFaults BY BoundsAssumption DEF DailyFails, Stop, Start, IInv, TypeOK
<1>4. /\ daily' \in [read : BOOLEAN, ids : Seq(Docs)] /\ DailyFits'
      /\ queue' \in Seq(Message) /\ file' \in Seq(Message)
      /\ phase' \in {"up", "recovering", "stopping", "down"} /\ requests' = requests
    <2>1. CASE DailyFails BY <2>1, LimitAssumption DEF DailyFails, IInv, TypeOK, DailyFits, NoRun
    <2>2. CASE Stop BY <2>2 DEF Stop, IInv, TypeOK, DailyFits
    <2>3. CASE Start BY <2>3 DEF Start, IInv, TypeOK, DailyFits
    <2>4. QED BY <2>1, <2>2, <2>3
<1>5. TypeOK' BY <1>1, <1>3, <1>4 DEF IInv, TypeOK
<1>6. QED BY <1>2, <1>4, <1>5, Assembled

LEMMA DownFits ==
    ASSUME IInv, Close \/ Crash
    PROVE  IInv'
PROOF
<1>1. Forget /\ UNCHANGED <<row, requests>> BY DEF Close, Crash
<1>2. Flights' /\ asked' \in Seq(Docs \cup Slots) BY <1>1, ForgetFits
<1>3. job' \in [Slots -> Job] BY <1>1, FreeIsAJob DEF Forget
<1>4. daily' \in [read : BOOLEAN, ids : Seq(Docs)] /\ DailyFits'
    BY <1>1, LimitAssumption DEF Forget, DailyFits, NoRun
<1>5. queue' \in Seq(Message) BY <1>1 DEF Forget
<1>6. file' \in Seq(Message) /\ faults' \in 0..MaxFaults /\ phase' \in {"up", "recovering", "stopping", "down"}
    BY BoundsAssumption DEF Close, Crash, IInv, TypeOK
<1>7. TypeOK' BY <1>1, <1>2, <1>3, <1>4, <1>5, <1>6 DEF IInv, TypeOK
<1>8. QED BY <1>2, <1>4, <1>7, Assembled

LEMMA RecoverFits ==
    ASSUME IInv, Recover
    PROVE  IInv'
PROOF
<1> DEFINE pending == {d \in Docs : row[d].sync = "PENDING"}
<1>1. UNCHANGED <<row, asked, file, job, daily, requests>> /\ phase' = "up" BY DEF Recover
<1>2. queue' \in Seq(Message) /\ faults' \in 0..MaxFaults
    <2>1. CASE faults < MaxFaults /\ faults' = faults + 1 /\ UNCHANGED queue
        BY <2>1, BoundsAssumption DEF IInv, TypeOK
    <2>2. CASE UNCHANGED faults /\ \E S \in SUBSET pending : queue' = queue \o Messages(InOrder(S), "FULL")
        <3>1. PICK S \in SUBSET pending : queue' = queue \o Messages(InOrder(S), "FULL") BY <2>2
        <3>2. S \subseteq Docs OBVIOUS
        <3>3. S \subseteq Nat /\ IsFiniteSet(S) BY <3>2, DocsAssumption, FS_Subset
        <3>4. Cardinality(S) \in Nat /\ InOrder(S) \in [1..Cardinality(S) -> S] BY <3>3, InOrderLists
        <3> DEFINE q == InOrder(S)
        <3>5. q \in Seq(S) BY <3>4, IsSequence
        <3>6. q \in Seq(Docs) BY <3>2, <3>5
        <3> HIDE DEF q
        <3>7. Messages(q, "FULL") \in Seq(Message) BY <3>6, MessagesType DEF Modes
        <3>8. queue' \in Seq(Message) BY <3>1, <3>7, JoinedElements DEF q, IInv, TypeOK
        <3>9. QED BY <2>2, <3>8 DEF IInv, TypeOK
    <2>3. QED BY <2>1, <2>2 DEF Recover
<1>3. Flights' BY <1>1, FlightsKept
<1>4. TypeOK' BY <1>1, <1>2 DEF IInv, TypeOK
<1>5. DailyFits' BY <1>1 DEF IInv, DailyFits
<1>6. QED BY <1>3, <1>4, <1>5, Assembled

LEMMA StepFits == IInv /\ [Next]_vars => IInv'
PROOF
<1> SUFFICES ASSUME IInv, [Next]_vars PROVE IInv' OBVIOUS
<1>1. ASSUME NEW w \in Workers, Take(w) PROVE IInv' BY <1>1, TakeFits
<1>2. ASSUME NEW c \in Callers, NEW d \in Docs, CheckNow(c, d) PROVE IInv' BY <1>2, CheckNowFits
<1>3. ASSUME NEW c \in Callers, NEW d \in Docs, Submit(c, d, "PENDING") \/ Submit(c, d, "NOT_REQUIRED") PROVE IInv'
    BY <1>3, SubmitFits
<1>4. ASSUME NEW s \in Slots, Save(s) PROVE IInv' BY <1>4, SaveFits
<1>5. ASSUME NEW s \in Slots, Discard(s) PROVE IInv' BY <1>5, DiscardFits
<1>6. CASE DailyFull BY <1>6, DailyFullFits
<1>7. CASE DailyEnqueue BY <1>7, DailyEnqueueFits
<1>8. CASE DailyFails \/ Stop \/ Start BY <1>8, ServerFits
<1>9. CASE Close \/ Crash BY <1>9, DownFits
<1>10. CASE Recover BY <1>10, RecoverFits
<1>11. CASE UNCHANGED vars
    <2>1. Flights' BY <1>11, FlightsKept DEF vars
    <2>2. TypeOK' /\ DailyFits' BY <1>11 DEF vars, IInv, TypeOK, DailyFits
    <2>3. QED BY <2>1, <2>2, Assembled
<1>12. QED BY <1>1, <1>2, <1>3, <1>4, <1>5, <1>6, <1>7, <1>8, <1>9, <1>10, <1>11 DEF Next

LEMMA InvariantHolds == Spec => []IInv
BY InitFits, StepFits, PTL DEF Spec

-----------------------------------------------------------------------------
(* The results *)

\* Rows, the order of the checks, the queue, the file, what workers and requests
\* do and the daily run keep their types.
THEOREM TypeCorrect == Spec => []TypeOK
PROOF
<1>1. IInv => TypeOK BY DEF IInv
<1>2. QED BY <1>1, InvariantHolds, PTL

\* A worker and a request, or two workers, never ask the registry the same about
\* the same document at the same time, and who has joined a synchronisation waits
\* for one that runs.
THEOREM OneSynchronisationAtATime == Spec => [](OneEach /\ JoinedRun)
PROOF
<1>1. IInv => OneEach /\ JoinedRun BY DEF IInv
<1>2. QED BY <1>1, InvariantHolds, PTL

\* The order of the checks has a document once, whoever asks for it and however
\* it ends, and a synchronisation only while it runs.
THEOREM OrderOfChecksSound == Spec => []OrderSound
PROOF
<1>1. IInv => OrderSound BY DEF IInv
<1>2. QED BY <1>1, InvariantHolds, PTL

\* What a step does to a row: nothing, a change by a request, or an answer.
LEMMA RowStep ==
    ASSUME IInv, [Next]_vars, NEW d \in Docs
    PROVE  \/ row'[d] = row[d]
           \/ row'[d] \in {Reset("PENDING"), Reset("NOT_REQUIRED")}
           \/ \E s \in Slots : Save(s) /\ job[s].doc = d /\ row'[d] \in Answers(s)
PROOF
<1>1. row \in [Docs -> Row] BY DEF IInv, TypeOK
<1>2. ASSUME NEW c \in Callers, NEW e \in Docs, NEW status \in {"PENDING", "NOT_REQUIRED"}, Submit(c, e, status)
      PROVE  row'[d] = row[d] \/ row'[d] \in {Reset("PENDING"), Reset("NOT_REQUIRED")}
    <2>1. row' = [row EXCEPT ![e] = Reset(status)] BY <1>2 DEF Submit
    <2>2. QED BY <1>1, <2>1
<1>3. ASSUME NEW s \in Slots, Save(s)
      PROVE  row'[d] = row[d] \/ (job[s].doc = d /\ row'[d] \in Answers(s))
    <2>1. PICK a \in Answers(s) : row' = [row EXCEPT ![job[s].doc] = a] BY <1>3 DEF Save
    <2>2. QED BY <1>1, <2>1
<1>4. ASSUME NEW w \in Workers, Take(w) PROVE row' = row BY <1>4 DEF Take
<1>5. ASSUME NEW c \in Callers, NEW e \in Docs, CheckNow(c, e) PROVE row' = row BY <1>5 DEF CheckNow
<1>6. ASSUME NEW s \in Slots, Discard(s) PROVE row' = row BY <1>6 DEF Discard
<1>7. CASE DailyFull \/ DailyEnqueue \/ DailyFails
    BY <1>7 DEF DailyFull, DailyEnqueue, DailyFails
<1>8. CASE Stop \/ Close \/ Crash \/ Start \/ Recover
    BY <1>8 DEF Stop, Close, Crash, Start, Recover
<1>9. CASE UNCHANGED vars BY <1>9 DEF vars
<1>10. QED BY <1>2, <1>3, <1>4, <1>5, <1>6, <1>7, <1>8, <1>9 DEF Next

\* A document that was not found has no external id.
AbsentHasNoId == \A d \in Docs : row[d].sync = "NOT_FOUND" => ~row[d].ext

LEMMA AbsentStep == IInv /\ AbsentHasNoId /\ [Next]_vars => AbsentHasNoId'
PROOF
<1> SUFFICES ASSUME IInv, AbsentHasNoId, [Next]_vars, NEW d \in Docs, row'[d].sync = "NOT_FOUND"
             PROVE  ~row'[d].ext
    BY DEF AbsentHasNoId
<1>1. CASE row'[d] = row[d] BY <1>1 DEF AbsentHasNoId
<1>2. CASE row'[d] \in {Reset("PENDING"), Reset("NOT_REQUIRED")} BY <1>2 DEF Reset
<1>3. CASE \E s \in Slots : Save(s) /\ job[s].doc = d /\ row'[d] \in Answers(s)
    <2>1. PICK s \in Slots : job[s].doc = d /\ row'[d] \in Answers(s) BY <1>3
    <2>2. QED BY <2>1, AnswersFit
<1>4. QED BY <1>1, <1>2, <1>3, RowStep

LEMMA FoundStep ==
    ASSUME IInv, AbsentHasNoId, [Next]_vars, NEW d \in Docs, row[d].ext
    PROVE  row'[d].sync # "NOT_FOUND"
PROOF
<1>1. CASE row'[d] = row[d] BY <1>1 DEF AbsentHasNoId
<1>2. CASE row'[d] \in {Reset("PENDING"), Reset("NOT_REQUIRED")} BY <1>2 DEF Reset
<1>3. CASE \E s \in Slots : Save(s) /\ job[s].doc = d /\ row'[d] \in Answers(s)
    <2>1. PICK s \in Slots : Save(s) /\ job[s].doc = d /\ row'[d] \in Answers(s) BY <1>3
    <2>2. job[s].fresh /\ Busy(s) BY <2>1, RunningIsBusy DEF Save
    <2>3. job[s].mode = "FULL" => job[s].ext BY <2>1, <2>2 DEF IInv, SearchFits
    <2>4. QED BY <2>1, <2>3, AnswersFit
<1>4. QED BY <1>1, <1>2, <1>3, RowStep

\* A document that has been found is not shown as absent, however the searches
\* of workers and requests, the changes of its row and the stops of the server
\* come together: only one search runs for it, and it knows the external id.
THEOREM FoundStaysFound == Spec => FoundIsKept
PROOF
<1>1. Init => AbsentHasNoId BY DEF Init, Reset, AbsentHasNoId
<1>2. IInv /\ AbsentHasNoId /\ [Next]_vars => [\A d \in Docs : row[d].ext => row'[d].sync # "NOT_FOUND"]_vars
    BY FoundStep
<1>3. QED BY <1>1, <1>2, AbsentStep, InvariantHolds, PTL DEF Spec, FoundIsKept

-----------------------------------------------------------------------------
(* A daily run *)

\* The first list of a daily run has no document twice and only documents that are
\* due, and leaves one out only when it is as long as a run may be.
FullListed(due) ==
    /\ IsInjective(daily'.ids) /\ ToSet(daily'.ids) \subseteq due
    /\ Len(daily'.ids) < Limit => ToSet(daily'.ids) = due
NothingDueForgotten == [][~daily.read /\ daily'.read => FullListed({d \in Docs : FullDue(d)})]_vars

\* A daily run adds no more messages than the limit, although its second list
\* is read when the first is known and the rows have changed.
WithinLimit == [][daily.read /\ ~daily'.read => Len(queue') <= Len(queue) + Limit]_vars

LEMMA DailyStep ==
    ASSUME IInv, [Next]_vars, daily'.read # daily.read
    PROVE  (DailyFull /\ ~daily.read) \/ (DailyEnqueue /\ ~daily'.read) \/ (~daily'.read /\ (queue' = queue \/ queue' = <<>>))
PROOF
<1>1. ASSUME NEW w \in Workers, Take(w) PROVE FALSE BY <1>1 DEF Take
<1>2. ASSUME NEW c \in Callers, NEW d \in Docs, CheckNow(c, d) PROVE FALSE BY <1>2 DEF CheckNow
<1>3. ASSUME NEW c \in Callers, NEW d \in Docs, NEW status \in {"PENDING", "NOT_REQUIRED"}, Submit(c, d, status)
      PROVE  FALSE
    BY <1>3 DEF Submit
<1>4. ASSUME NEW s \in Slots, Save(s) \/ Discard(s) PROVE FALSE BY <1>4 DEF Save, Discard
<1>5. CASE DailyFull BY <1>5 DEF DailyFull
<1>6. CASE DailyEnqueue BY <1>6 DEF DailyEnqueue, NoRun
<1>7. CASE DailyFails \/ Close \/ Crash BY <1>7 DEF DailyFails, Close, Crash, Forget, NoRun
<1>8. CASE Stop \/ Start \/ Recover BY <1>8 DEF Stop, Start, Recover
<1>9. CASE UNCHANGED vars BY <1>9 DEF vars
<1>10. QED BY <1>1, <1>2, <1>3, <1>4, <1>5, <1>6, <1>7, <1>8, <1>9 DEF Next

LEMMA FullListStep ==
    ASSUME IInv, DailyFull
    PROVE  FullListed({d \in Docs : FullDue(d)})
PROOF
<1> DEFINE S == {d \in Docs : FullDue(d)}
           p == Listed(S, Limit)
<1>1. S \in SUBSET Docs /\ Limit \in Nat BY LimitAssumption
<1>2. daily'.ids = p BY DEF DailyFull
<1> HIDE DEF S
<1>3. /\ p \in Seq(S) /\ Len(p) = AtMost(Limit, Cardinality(S)) /\ IsInjective(p)
      /\ Cardinality(S) <= Limit => ToSet(p) = S
    BY <1>1, ListedTakes DEF IInv, TypeOK, OrderSound
<1> HIDE DEF p
<1>4. ToSet(p) \subseteq S BY <1>3, ElementsOf
<1>5. IsFiniteSet(S) BY <1>1, DocsAssumption, FS_Subset
<1>6. Cardinality(S) \in Nat BY <1>5, FS_CardinalityType
<1>7. ASSUME Len(p) < Limit PROVE ToSet(p) = S
    <2>1. Cardinality(S) <= Limit BY <1>1, <1>3, <1>6, <1>7 DEF AtMost
    <2>2. QED BY <1>3, <2>1
<1>8. QED BY <1>2, <1>3, <1>4, <1>7 DEF FullListed, S

\* A daily run takes every document that is due as long as there is room for it,
\* none twice, and stays within its limit.
THEOREM DailyRunSound == Spec => NothingDueForgotten /\ WithinLimit
PROOF
<1>1. ASSUME IInv, [Next]_vars, ~daily.read, daily'.read PROVE FullListed({d \in Docs : FullDue(d)})
    <2>1. DailyFull BY <1>1, DailyStep
    <2>2. QED BY <1>1, <2>1, FullListStep
<1>2. IInv /\ [Next]_vars => [~daily.read /\ daily'.read => FullListed({d \in Docs : FullDue(d)})]_vars
    BY <1>1
<1>3. ASSUME IInv, [Next]_vars, daily.read, ~daily'.read PROVE Len(queue') <= Len(queue) + Limit
    <2>1. Len(queue) \in Nat /\ Limit \in Nat BY <1>3, LimitAssumption DEF IInv, TypeOK
    <2>2. CASE DailyEnqueue BY <1>3, <2>2, DailyEnqueueFits
    <2>3. CASE queue' = queue \/ queue' = <<>> BY <2>1, <2>3
    <2>4. QED BY <1>3, <2>2, <2>3, DailyStep
<1>4. IInv /\ [Next]_vars => [daily.read /\ ~daily'.read => Len(queue') <= Len(queue) + Limit]_vars
    BY <1>3
<1>5. QED BY <1>2, <1>4, InvariantHolds, PTL DEF Spec, NothingDueForgotten, WithinLimit

=============================================================================
