---------------------------- MODULE RequestProofs ----------------------------
(***************************************************************************)
(* Proofs about the parts of the control plane that are functions of their *)
(* inputs, for any input of the kind each part names: which hardware a     *)
(* request may get, what a create goes through, what each provider can be  *)
(* asked for, the router's front door, the bill of a rental, whether a     *)
(* model fits the cards it would be given, and the tokens counted of a     *)
(* response.                                                               *)
(***************************************************************************)
EXTENDS Metering, Front, Offers, ModelStore, SequenceTheorems, FiniteSetTheorems, TLAPS

-----------------------------------------------------------------------------
(***************************************************************************)
(* Lists.  A finite set in a strict order is a list of its members, by     *)
(* counting what comes before each: no induction is needed.                *)
(***************************************************************************)

\* R orders S, strictly and totally.
StrictOrder(S, R) ==
    /\ \A x \in S : <<x, x>> \notin R
    /\ \A x, y, z \in S : <<x, y>> \in R /\ <<y, z>> \in R => <<x, z>> \in R
    /\ \A x, y \in S : x # y => <<x, y>> \in R \/ <<y, x>> \in R

\* What comes before x.
Below(S, R, x) == {y \in S : <<y, x>> \in R}

\* How many come before a member of a finite set.
LEMMA RankRange ==
    ASSUME NEW S, NEW R, IsFiniteSet(S), StrictOrder(S, R), NEW x \in S
    PROVE  Cardinality(Below(S, R, x)) \in 0..(Cardinality(S) - 1)
<1>1. Below(S, R, x) \in SUBSET (S \ {x})
  BY DEF Below, StrictOrder
<1>2. IsFiniteSet(S \ {x}) /\ Cardinality(S \ {x}) = Cardinality(S) - 1
  BY FS_RemoveElement
<1>3. /\ IsFiniteSet(Below(S, R, x))
      /\ Cardinality(Below(S, R, x)) <= Cardinality(S) - 1
  BY <1>1, <1>2, FS_Subset
<1>4. Cardinality(Below(S, R, x)) \in Nat /\ Cardinality(S) \in Nat
  BY <1>3, FS_CardinalityType
<1> QED
  BY <1>3, <1>4

\* More come before the later of two members.
LEMMA RankGrows ==
    ASSUME NEW S, NEW R, IsFiniteSet(S), StrictOrder(S, R), NEW x \in S, NEW y \in S, <<x, y>> \in R
    PROVE  Cardinality(Below(S, R, x)) < Cardinality(Below(S, R, y))
<1>1. Below(S, R, x) \cup {x} \in SUBSET Below(S, R, y)
  BY DEF Below, StrictOrder
<1>2. x \notin Below(S, R, x)
  BY DEF Below, StrictOrder
<1>3. Below(S, R, x) \in SUBSET S /\ Below(S, R, y) \in SUBSET S
  BY DEF Below
<1>4. IsFiniteSet(Below(S, R, x)) /\ IsFiniteSet(Below(S, R, y))
  BY <1>3, FS_Subset
<1>5. Cardinality(Below(S, R, x) \cup {x}) = Cardinality(Below(S, R, x)) + 1
  BY <1>2, <1>4, FS_AddElement
<1>6. Cardinality(Below(S, R, x) \cup {x}) <= Cardinality(Below(S, R, y))
  BY <1>1, <1>4, FS_Subset
<1>7. Cardinality(Below(S, R, x)) \in Nat /\ Cardinality(Below(S, R, y)) \in Nat
  BY <1>4, FS_CardinalityType
<1> QED
  BY <1>5, <1>6, <1>7

\* Every rank is some member's: the ranks are as many as the members.
LEMMA RankOnto ==
    ASSUME NEW S, NEW R, IsFiniteSet(S), StrictOrder(S, R), NEW k \in 0..(Cardinality(S) - 1)
    PROVE  \E x \in S : Cardinality(Below(S, R, x)) = k
<1> DEFINE f == [x \in S |-> Cardinality(Below(S, R, x))]
           T == 0..(Cardinality(S) - 1)
<1>1. Cardinality(S) \in Nat
  BY FS_CardinalityType
<1>2. f \in [S -> T]
  BY RankRange
<1>3. \A x, y \in S : f[x] = f[y] => x = y
  <2> SUFFICES ASSUME NEW x \in S, NEW y \in S, f[x] = f[y], x # y PROVE FALSE
    OBVIOUS
  <2>1. <<x, y>> \in R \/ <<y, x>> \in R
    BY DEF StrictOrder
  <2>2. f[x] < f[y] \/ f[y] < f[x]
    BY <2>1, RankGrows
  <2>3. f[x] \in Int /\ f[y] \in Int
    BY <1>1, <1>2
  <2> QED
    BY <2>2, <2>3
<1>4. f \in Injection(S, T)
  BY <1>2, <1>3 DEF Injection, IsInjective
<1>5. IsFiniteSet(T) /\ Cardinality(T) = Cardinality(S)
  <2>1. 0 \in Int /\ Cardinality(S) - 1 \in Int
    BY <1>1
  <2>2. IsFiniteSet(T) /\ Cardinality(T) = IF 0 > Cardinality(S) - 1 THEN 0 ELSE Cardinality(S) - 1 - 0 + 1
    BY <2>1, FS_Interval
  <2> QED
    BY <1>1, <2>2
<1>6. f \in Surjection(S, T)
  BY <1>4, <1>5, FS_Injection
<1>7. \E x \in S : f[x] = k
  BY <1>6 DEF Surjection
<1> QED
  BY <1>7

\* A finite set in an order is a list of all its members in that order.
LEMMA ListedOK ==
    ASSUME NEW S, NEW R, IsFiniteSet(S), StrictOrder(S, R)
    PROVE  /\ Cardinality(S) \in Nat
           /\ Listed(S, R) \in [1..Cardinality(S) -> S]
           /\ \A x \in S : \E k \in 1..Cardinality(S) : Listed(S, R)[k] = x
           /\ \A j, k \in 1..Cardinality(S) : j < k => <<Listed(S, R)[j], Listed(S, R)[k]>> \in R
<1> DEFINE L == Listed(S, R)
           n == Cardinality(S)
<1>1. n \in Nat
  BY FS_CardinalityType
<1>2. \A k \in 1..n : L[k] \in S /\ Cardinality(Below(S, R, L[k])) = k - 1
  <2> TAKE k \in 1..n
  <2>1. k - 1 \in 0..(n - 1)
    BY <1>1
  <2>2. \E x \in S : Cardinality(Below(S, R, x)) = k - 1
    BY <2>1, RankOnto
  <2>3. L[k] = CHOOSE x \in S : Cardinality(Below(S, R, x)) = k - 1
    BY DEF Listed, Below
  <2> QED
    BY <2>2, <2>3
<1>3. L \in [1..n -> S]
  <2>1. L = [k \in 1..n |-> CHOOSE x \in S : Cardinality(Below(S, R, x)) = k - 1]
    BY DEF Listed, Below
  <2>2. \A k \in 1..n : (CHOOSE x \in S : Cardinality(Below(S, R, x)) = k - 1) \in S
    BY <1>2, <2>1
  <2> QED
    BY <2>1, <2>2
<1>4. \A j, k \in 1..n : j < k => <<L[j], L[k]>> \in R
  <2> SUFFICES ASSUME NEW j \in 1..n, NEW k \in 1..n, j < k, <<L[j], L[k]>> \notin R PROVE FALSE
    OBVIOUS
  <2>1. L[j] = L[k] \/ <<L[k], L[j]>> \in R
    BY <1>2 DEF StrictOrder
  <2>2. L[j] = L[k] \/ Cardinality(Below(S, R, L[k])) < Cardinality(Below(S, R, L[j]))
    BY <1>2, <2>1, RankGrows
  <2>3. k - 1 = j - 1 \/ k - 1 < j - 1
    BY <1>2, <2>2
  <2> QED
    BY <1>1, <2>3
<1>5. \A x \in S : \E k \in 1..n : L[k] = x
  <2> SUFFICES ASSUME NEW x \in S PROVE \E k \in 1..n : L[k] = x
    OBVIOUS
  <2>1. PICK r \in 0..(n - 1) : r = Cardinality(Below(S, R, x))
    BY RankRange
  <2>2. r + 1 \in 1..n
    BY <1>1
  <2>3. L[r + 1] \in S /\ Cardinality(Below(S, R, L[r + 1])) = r
    BY <1>1, <1>2, <2>2
  <2>4. L[r + 1] = x
    <3> SUFFICES ASSUME L[r + 1] # x PROVE FALSE
      OBVIOUS
    <3>1. <<L[r + 1], x>> \in R \/ <<x, L[r + 1]>> \in R
      BY <2>3 DEF StrictOrder
    <3>2. r < r
      BY <3>1, <2>1, <2>3, RankGrows
    <3> QED
      BY <3>2, <1>1
  <2> QED
    BY <2>2, <2>4
<1> QED
  BY <1>1, <1>3, <1>4, <1>5

\* A function on an initial segment is a sequence.
LEMMA SeqIs ==
    ASSUME NEW E, NEW n \in Nat, NEW f \in [1..n -> E]
    PROVE  f \in Seq(E) /\ Len(f) = n /\ DOMAIN f = 1..n
OBVIOUS

\* The places of a sequence.
LEMMA SeqDomain ==
    ASSUME NEW E, NEW s \in Seq(E)
    PROVE  /\ Len(s) \in Nat
           /\ DOMAIN s = 1..Len(s)
           /\ IsFiniteSet(DOMAIN s)
           /\ Cardinality(DOMAIN s) = Len(s)
<1>1. Len(s) \in Nat /\ DOMAIN s = 1..Len(s)
  OBVIOUS
<1>2. PICK n \in Nat : n = Len(s)
  BY <1>1
<1>3. IsFiniteSet(1..n) /\ Cardinality(1..n) = (IF 1 > n THEN 0 ELSE n - 1 + 1)
  <2>1. 1 \in Int /\ n \in Int
    OBVIOUS
  <2> QED
    BY <2>1, FS_Interval
<1> QED
  BY <1>1, <1>2, <1>3

\* The elements at a set of places, listed, are the elements at those places.
LEMMA ListedPlaces ==
    ASSUME NEW E, NEW s \in Seq(E), NEW P \in SUBSET (DOMAIN s), NEW R, StrictOrder(P, R)
    PROVE  /\ At(s, Listed(P, R)) \in Seq(E)
           /\ Len(At(s, Listed(P, R))) = Cardinality(P)
           /\ DOMAIN At(s, Listed(P, R)) = DOMAIN Listed(P, R)
           /\ ToSet(At(s, Listed(P, R))) = {s[i] : i \in P}
<1>1. Len(s) \in Nat /\ DOMAIN s = 1..Len(s)
  OBVIOUS
<1>2. IsFiniteSet(P)
  BY SeqDomain, FS_Subset
<1> DEFINE n == Cardinality(P)
           L == Listed(P, R)
           t == At(s, L)
<1>3. /\ n \in Nat
      /\ L \in [1..n -> P]
      /\ \A x \in P : \E k \in 1..n : L[k] = x
  BY <1>2, ListedOK
<1>4. t = [k \in DOMAIN L |-> s[L[k]]]
  BY DEF At
<1> HIDE DEF n, L, t
<1>5. DOMAIN L = 1..n
  BY <1>3
<1>6. \A k \in 1..n : s[L[k]] \in E
  BY <1>1, <1>3
<1>7. t \in [1..n -> E]
  BY <1>4, <1>5, <1>6
<1>8. t \in Seq(E) /\ Len(t) = n /\ DOMAIN t = 1..n
  BY <1>3, <1>7, SeqIs
<1>9. ToSet(t) = {s[i] : i \in P}
  <2>1. ToSet(t) = {t[k] : k \in 1..n}
    BY <1>8 DEF ToSet
  <2>2. \A k \in 1..n : L[k] \in P /\ t[k] = s[L[k]]
    BY <1>3, <1>4, <1>5
  <2>3. ASSUME NEW i \in P PROVE s[i] \in ToSet(t)
    <3>1. PICK k \in 1..n : L[k] = i
      BY <1>3
    <3>2. t[k] = s[i]
      BY <2>2, <3>1
    <3> QED
      BY <2>1, <3>2
  <2>4. ASSUME NEW x \in ToSet(t) PROVE x \in {s[i] : i \in P}
    <3>1. PICK k \in 1..n : x = t[k]
      BY <2>1
    <3>2. L[k] \in P /\ x = s[L[k]]
      BY <2>2, <3>1
    <3> QED
      BY <3>2
  <2> QED
    BY <2>3, <2>4
<1> QED
  BY <1>5, <1>8, <1>9 DEF n, L, t

\* Numbers are ordered.
LEMMA AscendingOrder ==
    ASSUME NEW P \in SUBSET Int
    PROVE  StrictOrder(P, Ascending(P))
<1>1. \A x, y \in P : <<x, y>> \in Ascending(P) <=> x < y
  BY DEF Ascending
<1>2. \A x \in P : x \in Int
  OBVIOUS
<1> QED
  BY <1>1, <1>2 DEF StrictOrder

\* The elements picked, as many as the places.
LEMMA PickedIs ==
    ASSUME NEW E, NEW s \in Seq(E), NEW P \in SUBSET (DOMAIN s)
    PROVE  /\ Picked(s, P) \in Seq(E)
           /\ Len(Picked(s, P)) = Cardinality(P)
           /\ ToSet(Picked(s, P)) = {s[i] : i \in P}
<1>1. StrictOrder(P, Ascending(P))
  BY AscendingOrder
<1>2. Picked(s, P) = At(s, Listed(P, Ascending(P)))
  BY DEF Picked
<1> QED
  BY <1>1, <1>2, ListedPlaces

\* The order CheapestFirst lists the places in.
Cheaper(s) == {p \in (DOMAIN s) \X (DOMAIN s) : \/ s[p[1]].price < s[p[2]].price
                                                \/ s[p[1]].price = s[p[2]].price /\ p[1] < p[2]}

\* It is an order: equal prices keep their places.
LEMMA CheaperOrder ==
    ASSUME NEW E, NEW s \in Seq(E), \A e \in E : e.price \in Int
    PROVE  StrictOrder(DOMAIN s, Cheaper(s))
<1>1. \A x, y \in DOMAIN s : <<x, y>> \in Cheaper(s) <=> s[x].price < s[y].price \/ (s[x].price = s[y].price /\ x < y)
  BY DEF Cheaper
<1>2. \A x \in DOMAIN s : x \in Int /\ s[x].price \in Int
  OBVIOUS
<1> QED
  BY <1>1, <1>2, SMTT(40) DEF StrictOrder

\* CheapestFirst lists the same elements, no price before a lower one.
LEMMA CheapestIs ==
    ASSUME NEW E, NEW s \in Seq(E), \A e \in E : e.price \in Int
    PROVE  /\ CheapestFirst(s) \in Seq(E)
           /\ Len(CheapestFirst(s)) = Len(s)
           /\ ToSet(CheapestFirst(s)) = ToSet(s)
           /\ \A j, k \in DOMAIN CheapestFirst(s) : j < k => CheapestFirst(s)[j].price <= CheapestFirst(s)[k].price
<1> DEFINE P == DOMAIN s
           L == Listed(P, Cheaper(s))
           t == CheapestFirst(s)
<1>1. StrictOrder(P, Cheaper(s))
  BY CheaperOrder
<1>2. t = At(s, L)
  BY DEF CheapestFirst, Cheaper
<1>3. /\ t \in Seq(E)
      /\ Len(t) = Cardinality(P)
      /\ DOMAIN t = DOMAIN L
      /\ ToSet(t) = {s[i] : i \in P}
  <2>1. P \in SUBSET (DOMAIN s)
    OBVIOUS
  <2> DEFINE R == Cheaper(s)
  <2>2. StrictOrder(P, R) /\ t = At(s, Listed(P, R))
    BY <1>1, <1>2, Zenon
  <2> HIDE DEF P, t, R
  <2>3. /\ At(s, Listed(P, R)) \in Seq(E)
        /\ Len(At(s, Listed(P, R))) = Cardinality(P)
        /\ DOMAIN At(s, Listed(P, R)) = DOMAIN Listed(P, R)
        /\ ToSet(At(s, Listed(P, R))) = {s[i] : i \in P}
    BY <2>1, <2>2, ListedPlaces
  <2> QED
    BY <2>2, <2>3, Zenon DEF R
<1>4. P = 1..Len(s) /\ Len(s) \in Nat
  BY SeqDomain
<1>5. Cardinality(P) = Len(s) /\ IsFiniteSet(P)
  BY SeqDomain
<1>6. L \in [1..Cardinality(P) -> P] /\ \A j, k \in 1..Cardinality(P) : j < k => <<L[j], L[k]>> \in Cheaper(s)
  BY <1>1, <1>5, ListedOK
<1>7. ASSUME NEW j \in DOMAIN t, NEW k \in DOMAIN t, j < k PROVE t[j].price <= t[k].price
  <2>1. <<L[j], L[k]>> \in Cheaper(s) /\ t[j] = s[L[j]] /\ t[k] = s[L[k]] /\ L[j] \in P /\ L[k] \in P
    BY <1>2, <1>3, <1>6, <1>7 DEF At
  <2>2. s[L[j]].price < s[L[k]].price \/ s[L[j]].price = s[L[k]].price
    BY <2>1 DEF Cheaper
  <2>3. s[L[j]].price \in Int /\ s[L[k]].price \in Int
    BY <2>1
  <2> QED
    BY <2>1, <2>2, <2>3
<1>8. ToSet(s) = {s[i] : i \in P}
  BY DEF ToSet
<1> QED
  BY <1>3, <1>5, <1>7, <1>8

\* AtMost keeps the first elements.
LEMMA AtMostIs ==
    ASSUME NEW E, NEW s \in Seq(E), NEW n \in Nat
    PROVE  /\ AtMost(n, s) \in Seq(E)
           /\ Len(AtMost(n, s)) = (IF Len(s) < n THEN Len(s) ELSE n)
           /\ \A k \in DOMAIN AtMost(n, s) : k \in DOMAIN s /\ AtMost(n, s)[k] = s[k]
<1> DEFINE m == IF Len(s) < n THEN Len(s) ELSE n
<1>1. m \in 0..Len(s)
  OBVIOUS
<1>2. AtMost(n, s) = SubSeq(s, 1, m)
  BY DEF AtMost
<1> HIDE DEF m
<1>3. SubSeq(s, 1, m) = [k \in 1..m |-> s[k]]
  BY <1>1
<1>4. [k \in 1..m |-> s[k]] \in [1..m -> E]
  BY <1>1
<1> QED
  BY <1>1, <1>2, <1>3, <1>4, SeqIs DEF m

\* Finitely many lists have finitely many places.
LEMMA PlacesFinite ==
    ASSUME NEW E, NEW ss \in Seq(Seq(E))
    PROVE  IsFiniteSet(Places(ss))
<1> DEFINE T == {{i} \X (DOMAIN ss[i]) : i \in DOMAIN ss}
           f == [i \in DOMAIN ss |-> {i} \X (DOMAIN ss[i])]
<1>2. IsFiniteSet(DOMAIN ss)
  BY SeqDomain
<1>3. f \in Surjection(DOMAIN ss, T)
  BY DEF Surjection
<1>4. IsFiniteSet(T)
  BY <1>2, <1>3, FS_Surjection
<1>5. ASSUME NEW t \in T PROVE IsFiniteSet(t)
  <2>1. PICK i \in DOMAIN ss : t = {i} \X (DOMAIN ss[i])
    OBVIOUS
  <2>2. ss[i] \in Seq(E)
    OBVIOUS
  <2>4. IsFiniteSet(DOMAIN ss[i])
    BY <2>2, SeqDomain
  <2>5. IsFiniteSet({i})
    BY FS_Singleton
  <2> QED
    BY <2>1, <2>4, <2>5, FS_Product
<1> QED
  BY <1>4, <1>5, FS_UNION DEF Places

\* The order Joined lists the places in.
PlaceBefore(ss) == {p \in Places(ss) \X Places(ss) : \/ p[1][1] < p[2][1]
                                                     \/ p[1][1] = p[2][1] /\ p[1][2] < p[2][2]}

\* A place is a list and a place in it.
LEMMA PlaceIs ==
    ASSUME NEW E, NEW ss \in Seq(Seq(E)), NEW p \in Places(ss)
    PROVE  /\ p[1] \in DOMAIN ss /\ p[2] \in DOMAIN ss[p[1]]
           /\ p = <<p[1], p[2]>>
           /\ p[1] \in Nat /\ p[2] \in Nat
           /\ ss[p[1]] \in Seq(E)
           /\ ss[p[1]][p[2]] \in E
<1>1. PICK i \in DOMAIN ss : p \in {i} \X (DOMAIN ss[i])
  BY DEF Places
<1>2. ss[i] \in Seq(E) /\ i \in Nat
  OBVIOUS
<1>3. PICK k \in DOMAIN ss[i] : p = <<i, k>>
  BY <1>1
<1>4. k \in Nat /\ ss[i][k] \in E
  BY <1>2
<1> QED
  BY <1>2, <1>3, <1>4

\* Places are ordered by the list, then within it.
LEMMA PlaceOrder ==
    ASSUME NEW E, NEW ss \in Seq(Seq(E))
    PROVE  StrictOrder(Places(ss), PlaceBefore(ss))
<1>1. ASSUME NEW x \in Places(ss), NEW y \in Places(ss)
      PROVE  <<x, y>> \in PlaceBefore(ss) <=> x[1] < y[1] \/ (x[1] = y[1] /\ x[2] < y[2])
  <2>1. PICK p : p = <<x, y>>
    OBVIOUS
  <2>2. p \in Places(ss) \X Places(ss) /\ p[1] = x /\ p[2] = y
    BY <2>1
  <2>3. p \in PlaceBefore(ss) <=> p[1][1] < p[2][1] \/ (p[1][1] = p[2][1] /\ p[1][2] < p[2][2])
    BY <2>2 DEF PlaceBefore
  <2> QED
    BY <2>1, <2>2, <2>3
<1>2. \A x \in Places(ss) : x[1] \in Nat /\ x[2] \in Nat /\ x = <<x[1], x[2]>>
  BY PlaceIs
<1>3. \A x \in Places(ss) : <<x, x>> \notin PlaceBefore(ss)
  BY <1>1, <1>2
<1>4. \A x, y, z \in Places(ss) : <<x, y>> \in PlaceBefore(ss) /\ <<y, z>> \in PlaceBefore(ss) => <<x, z>> \in PlaceBefore(ss)
  BY <1>1, <1>2
<1>5. ASSUME NEW x \in Places(ss), NEW y \in Places(ss), x # y
      PROVE  <<x, y>> \in PlaceBefore(ss) \/ <<y, x>> \in PlaceBefore(ss)
  <2>1. x[1] # y[1] \/ x[2] # y[2]
    BY <1>2, <1>5
  <2> QED
    BY <1>1, <1>2, <2>1
<1> QED
  BY <1>3, <1>4, <1>5 DEF StrictOrder

\* Lists joined have the elements of each, and no other.
LEMMA JoinedIs ==
    ASSUME NEW E, NEW ss \in Seq(Seq(E))
    PROVE  /\ Joined(ss) \in Seq(E)
           /\ \A i \in DOMAIN ss : ToSet(ss[i]) \subseteq ToSet(Joined(ss))
           /\ \A x \in ToSet(Joined(ss)) : \E i \in DOMAIN ss : x \in ToSet(ss[i])
<1> DEFINE P == Places(ss)
           n == Cardinality(P)
           L == Listed(P, PlaceBefore(ss))
           t == Joined(ss)
<1>1. t = [k \in DOMAIN L |-> ss[L[k][1]][L[k][2]]]
  BY DEF Joined, PlaceBefore
<1>2. /\ n \in Nat
      /\ L \in [1..n -> P]
      /\ \A x \in P : \E k \in 1..n : L[k] = x
  BY PlacesFinite, PlaceOrder, ListedOK
<1>3. \A x \in P : x[1] \in DOMAIN ss /\ x[2] \in DOMAIN ss[x[1]] /\ ss[x[1]][x[2]] \in E
  BY PlaceIs
<1>4. \A i \in DOMAIN ss : \A k \in DOMAIN ss[i] : <<i, k>> \in P
  BY DEF Places
<1> HIDE DEF n, L, t, P
<1>5. \A k \in 1..n : ss[L[k][1]][L[k][2]] \in E
  BY <1>2, <1>3
<1>6. t \in [1..n -> E]
  BY <1>1, <1>2, <1>5
<1>7. t \in Seq(E) /\ DOMAIN t = 1..n
  BY <1>2, <1>6, SeqIs
<1>8. \A k \in 1..n : t[k] = ss[L[k][1]][L[k][2]] /\ L[k] \in P
  BY <1>1, <1>2
<1>9. ASSUME NEW i \in DOMAIN ss, NEW x \in ToSet(ss[i]) PROVE x \in ToSet(t)
  <2>1. PICK j \in DOMAIN ss[i] : x = ss[i][j]
    BY DEF ToSet
  <2>2. PICK k \in 1..n : L[k] = <<i, j>>
    BY <1>2, <1>4
  <2>3. L[k][1] = i /\ L[k][2] = j
    BY <2>2
  <2>4. t[k] = x
    BY <1>8, <2>1, <2>3
  <2> QED
    BY <1>7, <2>4 DEF ToSet
<1>10. ASSUME NEW x \in ToSet(t) PROVE \E i \in DOMAIN ss : x \in ToSet(ss[i])
  <2>1. PICK k \in 1..n : x = t[k]
    BY <1>7 DEF ToSet
  <2>2. PICK i, j : i = L[k][1] /\ j = L[k][2]
    OBVIOUS
  <2>3. i \in DOMAIN ss /\ j \in DOMAIN ss[i] /\ x = ss[i][j]
    BY <1>3, <1>8, <2>1, <2>2
  <2> QED
    BY <2>3 DEF ToSet
<1> QED
  BY <1>7, <1>9, <1>10 DEF t

-----------------------------------------------------------------------------
(***************************************************************************)
(* Which hardware a request may get.                                       *)
(***************************************************************************)

\* No family is skipped of which a measured offer would do.
LEMMA PrefilterKeeps == CapacityInput => PrefilterLosesNothing
<1> SUFFICES ASSUME part = "fabric", input \in [family : STRING, reading : Int, scope : STRING, minGbps : Int],
                    input.family = "l40s" => input.reading <= 0,
                    Satisfies(Resolve(input.family, input.reading), input.scope, input.minGbps)
             PROVE  CouldSatisfy(input.family, input.scope)
  BY DEF CapacityInput, PrefilterLosesNothing
<1> DEFINE f == input.family
           r == input.reading
           sc == input.scope
<1>1. r \in Int
  OBVIOUS
<1>2. CASE sc = "any"
  BY <1>2 DEF CouldSatisfy
<1>3. CASE sc # "any"
  <2>1. Resolve(f, r).source # "unknown" /\ Resolve(f, r).scope = sc
    BY <1>3 DEF Satisfies
  <2>2. f \in {"sxm", "pcie", "l40s"}
    BY <2>1 DEF Resolve, UnknownFabric, FabricCatalog
  <2>3. FabricCatalog["sxm"].cap = "always" /\ FabricCatalog["pcie"].cap = "optional" /\ FabricCatalog["l40s"].cap = "none"
    BY DEF FabricCatalog
  <2>4. DOMAIN FabricCatalog = {"sxm", "pcie", "l40s"}
    BY DEF FabricCatalog
  <2>5. CASE f = "l40s"
    <3>1. ~(r > 0)
      BY <1>1, <2>5
    <3>2. Resolve(f, r).scope = "none"
      BY <2>3, <2>4, <2>5, <3>1 DEF Resolve
    <3> QED
      BY <1>3, <2>1, <2>3, <2>4, <2>5, <3>2 DEF CouldSatisfy
  <2>6. CASE f \in {"sxm", "pcie"}
    <3>1. Resolve(f, r).scope = "intra"
      BY <2>1, <2>3, <2>4, <2>6 DEF Resolve, UnknownFabric
    <3> QED
      BY <1>3, <2>1, <2>3, <2>4, <2>6, <3>1 DEF CouldSatisfy
  <2> QED
    BY <2>2, <2>5, <2>6
<1> QED
  BY <1>2, <1>3

\* Hardware that meets a request, as MatchCheapest says it.
Able(e, reqs) ==
    /\ e.vram >= reqs.minVram
    /\ e.ram * Cards(reqs.gpus) >= reqs.minRam
    /\ e.gpus = 0 \/ e.gpus >= reqs.gpus
    /\ e.arch = reqs.arch \/ "" \in {e.arch, reqs.arch}
    /\ reqs.scope = "any"

\* Hardware that meets a request is not excluded by its row.
LEMMA AbleFits ==
    ASSUME NEW e, NEW reqs, NEW mode, Able(e, reqs)
    PROVE  RowFits(e, reqs, mode)
<1>1. reqs.arch = "" \/ e.arch \in {"", reqs.arch}
  BY Zenon DEF Able
<1>2. satisfiesFabric(e.family, reqs, mode)
  BY Zenon DEF Able, satisfiesFabric, CouldSatisfy, Satisfies
<1> QED
  BY <1>1, <1>2, Zenon DEF Able, RowFits

\* A row that would do is returned, or passed over for cheaper ones.
LEMMA MatchFinds == CapacityInput => MatchCheapest
<1> SUFFICES ASSUME part = "match", input \in [rows : Seq(SkuRow), reqs : SkuQuery, mode : {"declared", "prefilter"}]
             PROVE  MatchCheapest
  BY DEF CapacityInput, MatchCheapest
<1> DEFINE rows == input.rows
           reqs == input.reqs
           mode == input.mode
           P    == {i \in DOMAIN rows : RowFits(rows[i], reqs, mode)}
           kept == Picked(rows, P)
           all  == CheapestFirst(kept)
           got  == AtMost(5, all)
<1>1. Match(rows, reqs, mode) = got
  BY DEF Match, Keep, MaxResults
<1>2. rows \in Seq(SkuRow) /\ \A e \in SkuRow : e.price \in Int
  BY DEF SkuRow
<1>3. kept \in Seq(SkuRow) /\ ToSet(kept) = {rows[i] : i \in P}
  BY <1>2, PickedIs
<1>4. /\ all \in Seq(SkuRow)
      /\ ToSet(all) = {rows[i] : i \in P}
      /\ \A j, k \in DOMAIN all : j < k => all[j].price <= all[k].price
  <2> HIDE DEF kept
  <2> QED
    BY <1>2, <1>3, CheapestIs
<1>5. /\ got \in Seq(SkuRow)
      /\ Len(got) = (IF Len(all) < 5 THEN Len(all) ELSE 5)
      /\ \A k \in DOMAIN got : k \in DOMAIN all /\ got[k] = all[k]
  <2> HIDE DEF all
  <2>1. PICK m \in Nat : m = 5
    OBVIOUS
  <2>2. /\ AtMost(m, all) \in Seq(SkuRow)
        /\ Len(AtMost(m, all)) = (IF Len(all) < m THEN Len(all) ELSE m)
        /\ \A k \in DOMAIN AtMost(m, all) : k \in DOMAIN all /\ AtMost(m, all)[k] = all[k]
    BY <1>4, AtMostIs
  <2> QED
    BY <2>1, <2>2
<1>6. ASSUME NEW e \in ToSet(rows), Able(e, reqs)
      PROVE  \/ e \in ToSet(got)
             \/ /\ Len(got) = MaxResults
                /\ \A k \in DOMAIN got : got[k].price <= e.price
  <2>1. RowFits(e, reqs, mode)
    BY <1>6, AbleFits
  <2>2. e \in ToSet(all)
    BY <1>4, <2>1 DEF ToSet
  <2> HIDE DEF all, got
  <2>3. PICK i \in DOMAIN all : e = all[i]
    BY <2>2 DEF ToSet
  <2>4. i \in Nat /\ DOMAIN all = 1..Len(all) /\ DOMAIN got = 1..Len(got) /\ Len(all) \in Nat
    <3>1. DOMAIN all = 1..Len(all) /\ Len(all) \in Nat
      BY <1>4, SeqDomain
    <3>2. DOMAIN got = 1..Len(got)
      BY <1>5, SeqDomain
    <3> QED
      BY <2>3, <3>1, <3>2
  <2>5. CASE i \in DOMAIN got
    BY <1>5, <2>3, <2>5 DEF ToSet
  <2>6. CASE i \notin DOMAIN got
    <3>1. Len(got) = 5 /\ i > 5
      BY <1>5, <2>3, <2>4, <2>6
    <3>2. ASSUME NEW k \in DOMAIN got PROVE got[k].price <= e.price
      BY <1>4, <1>5, <2>3, <2>4, <3>1, SMTT(40)
    <3> QED
      BY <3>1, <3>2 DEF MaxResults
  <2> QED
    BY <2>5, <2>6
<1> HIDE DEF got
<1> QED
  BY <1>1, <1>6 DEF MatchCheapest, Able

\* The architectures a placement takes.
Admits(arch, c) == arch = "" \/ c.arch \in {"", arch}

\* A provider's answer has the candidates of its offer that are admitted.
LEMMA AnswerIs ==
    ASSUME NEW name, NEW o \in ProviderOffer, NEW arch \in STRING
    PROVE  /\ answerFor(name, o, arch).cands \in Seq(CandidateRow)
           /\ ToSet(answerFor(name, o, arch).cands) = {c \in ToSet(o.cands) : o.says = "ok" /\ Admits(arch, c)}
           /\ answerFor(name, o, arch).outcome \in {"answered", "no_capacity"} <=> o.says = "ok"
<1> DEFINE cands == answerFor(name, o, arch).cands
           P     == {i \in DOMAIN o.cands : o.cands[i].arch \in {"", arch}}
           kept  == Picked(o.cands, P)
<1>1. PICK e : e = ""
  OBVIOUS
<1>2. \A c : Admits(arch, c) <=> arch = e \/ c.arch \in {e, arch}
  BY <1>1, Zenon DEF Admits
<1>3. cands = IF o.says # "ok" THEN <<>> ELSE IF arch = e THEN o.cands ELSE kept
  BY <1>1, Zenon DEF answerFor, Keep
<1>4. P = {i \in DOMAIN o.cands : o.cands[i].arch \in {e, arch}}
  BY <1>1, Zenon
<1> HIDE DEF P, kept, cands
<1>5. o.cands \in Seq(CandidateRow) /\ o.says \in {"cannot", "failed", "ok"}
  BY DEF ProviderOffer
<1>6. P \in SUBSET (DOMAIN o.cands)
  BY <1>4
<1>7. kept \in Seq(CandidateRow) /\ ToSet(kept) = {o.cands[i] : i \in P}
  BY <1>5, <1>6, PickedIs DEF kept
<1>8. cands \in Seq(CandidateRow)
  BY <1>3, <1>5, <1>7
<1>9. ToSet(cands) = {c \in ToSet(o.cands) : o.says = "ok" /\ Admits(arch, c)}
  <2>1. CASE o.says # "ok"
    <3>1. cands = <<>>
      BY <1>3, <2>1
    <3>2. ToSet(cands) = {}
      BY <3>1 DEF ToSet
    <3> QED
      BY <2>1, <3>2
  <2>2. CASE o.says = "ok" /\ arch = e
    BY <1>2, <1>3, <2>2
  <2>3. CASE o.says = "ok" /\ arch # e
    <3>1. ToSet(cands) = {o.cands[i] : i \in P}
      BY <1>3, <1>7, <2>3
    <3>2. ToSet(o.cands) = {o.cands[i] : i \in DOMAIN o.cands}
      BY DEF ToSet
    <3>3. \A i \in DOMAIN o.cands : i \in P <=> Admits(arch, o.cands[i])
      BY <1>2, <1>4, <2>3
    <3> QED
      BY <1>6, <2>3, <3>1, <3>2, <3>3
  <2> QED
    BY <2>1, <2>2, <2>3
<1>10. answerFor(name, o, arch).outcome \in {"answered", "no_capacity"} <=> o.says = "ok"
  <2>1. o.says # "ok" => answerFor(name, o, arch).outcome = o.says
    BY Zenon DEF answerFor
  <2>2. o.says = "ok" => answerFor(name, o, arch).outcome \in {"answered", "no_capacity"}
    BY Zenon DEF answerFor
  <2> QED
    BY <1>5, <2>1, <2>2
<1> QED
  BY <1>8, <1>9, <1>10 DEF cands

\* The placement is the cheapest of all that was offered and fits.
LEMMA PlacementFinds == CapacityInput => PlacementCheapest
<1> SUFFICES ASSUME part = "placement", input \in [offers : Seq(ProviderOffer), arch : STRING]
             PROVE  PlacementCheapest
  BY DEF CapacityInput, PlacementCheapest
<1> DEFINE offers  == input.offers
           arch    == input.arch
           answers == ListCandidatesAcross(offers, arch)
           lists   == [i \in DOMAIN answers |-> answers[i].cands]
           joined  == Joined(lists)
           ranked  == CheapestFirst(joined)
           got     == SelectCheapest(offers, arch)
           fits    == {c \in UNION {ToSet(o.cands) : o \in {x \in ToSet(offers) : x.says = "ok"}} : Admits(arch, c)}
<1>1. offers \in Seq(ProviderOffer) /\ arch \in STRING
  OBVIOUS
<1>2. DOMAIN answers = DOMAIN offers /\ \A i \in DOMAIN offers : answers[i] = answerFor(i, offers[i], arch)
  BY DEF ListCandidatesAcross
<1>3. \A i \in DOMAIN offers : offers[i] \in ProviderOffer
  BY <1>1
<1> HIDE DEF offers, arch, answers
<1>4. \A i \in DOMAIN offers :
          /\ answers[i].cands \in Seq(CandidateRow)
          /\ ToSet(answers[i].cands) = {c \in ToSet(offers[i].cands) : offers[i].says = "ok" /\ Admits(arch, c)}
          /\ answers[i].outcome \in {"answered", "no_capacity"} <=> offers[i].says = "ok"
  <2> SUFFICES ASSUME NEW i \in DOMAIN offers
               PROVE  /\ answers[i].cands \in Seq(CandidateRow)
                      /\ ToSet(answers[i].cands) = {c \in ToSet(offers[i].cands) : offers[i].says = "ok" /\ Admits(arch, c)}
                      /\ answers[i].outcome \in {"answered", "no_capacity"} <=> offers[i].says = "ok"
    BY Zenon
  <2>1. PICK o \in ProviderOffer : o = offers[i]
    BY <1>3
  <2>2. answers[i] = answerFor(i, o, arch)
    BY <1>2, <2>1
  <2>3. /\ answerFor(i, o, arch).cands \in Seq(CandidateRow)
        /\ ToSet(answerFor(i, o, arch).cands) = {c \in ToSet(o.cands) : o.says = "ok" /\ Admits(arch, c)}
        /\ answerFor(i, o, arch).outcome \in {"answered", "no_capacity"} <=> o.says = "ok"
    BY <1>1, AnswerIs
  <2> QED
    BY <2>1, <2>2, <2>3, Zenon
<1>5. lists \in Seq(Seq(CandidateRow)) /\ DOMAIN lists = DOMAIN offers
  <2>1. PICK n \in Nat : n = Len(offers) /\ DOMAIN offers = 1..n
    BY <1>1, SeqDomain
  <2>2. lists \in [1..n -> Seq(CandidateRow)]
    BY <1>2, <1>4, <2>1
  <2> QED
    BY <2>1, <2>2, SeqIs
<1>6. \A i \in DOMAIN offers : lists[i] = answers[i].cands
  BY <1>2
<1> HIDE DEF lists
<1>7. /\ joined \in Seq(CandidateRow)
      /\ \A i \in DOMAIN lists : ToSet(lists[i]) \subseteq ToSet(joined)
      /\ \A x \in ToSet(joined) : \E i \in DOMAIN lists : x \in ToSet(lists[i])
  BY <1>5, JoinedIs
<1> HIDE DEF joined
<1>8. \A e \in CandidateRow : e.price \in Int
  BY DEF CandidateRow
<1>9. /\ ranked \in Seq(CandidateRow)
      /\ ToSet(ranked) = ToSet(joined)
      /\ \A j, k \in DOMAIN ranked : j < k => ranked[j].price <= ranked[k].price
  BY <1>7, <1>8, CheapestIs
<1>10. ToSet(ranked) = fits
  <2>1. ASSUME NEW c \in ToSet(joined) PROVE c \in fits
    <3>1. PICK i \in DOMAIN lists : c \in ToSet(lists[i])
      BY <1>7
    <3>2. c \in ToSet(offers[i].cands) /\ offers[i].says = "ok" /\ Admits(arch, c)
      BY <1>4, <1>5, <1>6, <3>1
    <3>3. offers[i] \in ToSet(offers)
      BY <1>5, <3>1 DEF ToSet
    <3> QED
      BY <3>2, <3>3
  <2>2. ASSUME NEW c \in fits PROVE c \in ToSet(joined)
    <3>1. PICK o \in ToSet(offers) : o.says = "ok" /\ c \in ToSet(o.cands) /\ Admits(arch, c)
      OBVIOUS
    <3>2. PICK i \in DOMAIN offers : o = offers[i]
      BY DEF ToSet
    <3>3. c \in ToSet(lists[i])
      BY <1>4, <1>6, <3>1, <3>2
    <3> QED
      BY <1>5, <1>7, <3>3
  <2> QED
    BY <1>9, <2>1, <2>2
<1>11. /\ ranked # <<>> => got.err = "" /\ got.ranked = AtMost(1 + maxRunners, ranked)
       /\ ranked = <<>> => got.err = noPlacementError(answers)
  BY Zenon DEF SelectCheapest, MergeCandidates, answers, lists, joined
<1> HIDE DEF ranked, got, fits
<1>12. fits # {} <=> ranked # <<>>
  <2>1. DOMAIN ranked = 1..Len(ranked) /\ Len(ranked) \in Nat
    BY <1>9, SeqDomain
  <2>2. ranked = <<>> => ToSet(ranked) = {}
    BY DEF ToSet
  <2>3. ranked # <<>> => 1 \in DOMAIN ranked
    BY <1>9, <2>1
  <2>4. ranked # <<>> => ToSet(ranked) # {}
    BY <2>3 DEF ToSet
  <2> QED
    BY <1>10, <2>2, <2>4
<1>13. ASSUME fits # {}
       PROVE  /\ got.err = ""
              /\ got.ranked[1] \in fits
              /\ \A c \in fits : got.ranked[1].price <= c.price
  <2>1. got.err = "" /\ got.ranked = AtMost(1 + maxRunners, ranked)
    BY <1>11, <1>12, <1>13, Zenon
  <2>2. PICK m \in Nat : m = 1 + maxRunners /\ m = 4
    BY DEF maxRunners
  <2>3. /\ AtMost(m, ranked) \in Seq(CandidateRow)
        /\ Len(AtMost(m, ranked)) = (IF Len(ranked) < m THEN Len(ranked) ELSE m)
        /\ \A k \in DOMAIN AtMost(m, ranked) : k \in DOMAIN ranked /\ AtMost(m, ranked)[k] = ranked[k]
    BY <1>9, AtMostIs
  <2>4. Len(ranked) \in Nat /\ Len(ranked) > 0 /\ DOMAIN ranked = 1..Len(ranked)
    BY <1>9, <1>12, <1>13, SeqDomain
  <2>5. DOMAIN AtMost(m, ranked) = 1..Len(AtMost(m, ranked))
    BY <2>3, SeqDomain
  <2>6. 1 \in DOMAIN AtMost(m, ranked)
    BY <2>2, <2>3, <2>4, <2>5
  <2>7. PICK first : first = AtMost(m, ranked)[1]
    OBVIOUS
  <2>8. first = ranked[1] /\ 1 \in DOMAIN ranked
    BY <2>3, <2>6, <2>7
  <2>9. first \in fits
    BY <1>10, <2>8 DEF ToSet
  <2>10. ASSUME NEW c \in fits PROVE first.price <= c.price
    <3>1. PICK k \in DOMAIN ranked : c = ranked[k]
      BY <1>10 DEF ToSet
    <3>2. k = 1 \/ 1 < k
      BY <2>4
    <3>3. ranked[1].price \in Int
      BY <1>8, <1>9, <2>8
    <3> QED
      BY <1>9, <2>8, <3>1, <3>2, <3>3
  <2>11. got.ranked[1] = first
    BY <2>1, <2>2, <2>7, Zenon
  <2>12. got.err = ""
    BY <2>1, Zenon
  <2> QED
    BY <2>9, <2>10, <2>11, <2>12, Zenon
<1>14. ASSUME fits = {} PROVE got.err = "exhausted" <=> \E o \in ToSet(offers) : o.says = "ok"
  <2>1. got.err = noPlacementError(answers)
    BY <1>11, <1>12, <1>14, Zenon
  <2>2. noPlacementError(answers) = "exhausted" <=>
            \E i \in DOMAIN answers : answers[i].outcome \in {"answered", "no_capacity"}
    BY DEF noPlacementError
  <2>3. (\E i \in DOMAIN answers : answers[i].outcome \in {"answered", "no_capacity"})
            <=> \E i \in DOMAIN offers : offers[i].says = "ok"
    BY <1>2, <1>4
  <2>4. (\E i \in DOMAIN offers : offers[i].says = "ok") <=> \E o \in ToSet(offers) : o.says = "ok"
    BY DEF ToSet
  <2> QED
    BY <2>1, <2>2, <2>3, <2>4, Zenon
<1> QED
  BY <1>13, <1>14, Zenon DEF PlacementCheapest, Admits, offers, arch, got, fits

\* Division without a remainder.
LEMMA DivExact ==
    ASSUME NEW a \in Nat, NEW b \in Nat \ {0}, a % b = 0
    PROVE  a \div b \in Nat /\ b * (a \div b) = a
OBVIOUS

\* The width a flag gives, or one when it is left unsaid.
Said(args, d) == IF d \in DOMAIN args THEN args[d] ELSE 1

\* The flags give back the widths they were made from.
LEMMA ArgsAre ==
    ASSUME NEW tp \in Nat \ {0}, NEW pp \in Nat \ {0}, NEW dp \in Nat \ {0}, NEW ep \in Nat
    PROVE  /\ Said(parallelismArgs(tp, pp, dp, ep), "tp") = tp
           /\ Said(parallelismArgs(tp, pp, dp, ep), "pp") = pp
           /\ Said(parallelismArgs(tp, pp, dp, ep), "dp") = dp
<1>1. PICK flags : flags = [tp |-> tp, pp |-> pp, dp |-> dp, experts |-> 1]
  OBVIOUS
<1>2. PICK named : named = {d \in {"tp", "pp", "dp"} : flags[d] > 1} \cup (IF ep > 1 THEN {"tp", "experts"} ELSE {})
  OBVIOUS
<1>3. parallelismArgs(tp, pp, dp, ep) = [d \in named |-> flags[d]]
  BY <1>1, <1>2, Zenon DEF parallelismArgs, Restrict
<1>4. flags["tp"] = tp /\ flags["pp"] = pp /\ flags["dp"] = dp
  BY <1>1
<1>5. ("tp" \notin named => tp = 1) /\ ("pp" \notin named => pp = 1) /\ ("dp" \notin named => dp = 1)
  BY <1>2, <1>4
<1> QED
  BY <1>3, <1>4, <1>5 DEF Said

\* A list that is not empty has a first element.
LEMMA FirstIs ==
    ASSUME NEW E, NEW s \in Seq(E), s # <<>>
    PROVE  1 \in DOMAIN s /\ s[1] \in E
OBVIOUS

\* The data-parallel width is the expert degree over the tensor width.
LEMMA WidthIs ==
    ASSUME NEW tp \in Nat \ {0}, NEW ep \in Nat, dataParallelWidth(tp, ep) # 0
    PROVE  dataParallelWidth(tp, ep) \in Nat \ {0} /\ (ep > 1 => tp * dataParallelWidth(tp, ep) = ep)
<1>1. CASE ep <= 1
  BY <1>1 DEF dataParallelWidth
<1>2. CASE ep > 1 /\ ep % tp = 0
  BY <1>2, DivExact DEF dataParallelWidth
<1>3. CASE ep > 1 /\ ep % tp # 0
  BY <1>3 DEF dataParallelWidth
<1> QED
  BY <1>1, <1>2, <1>3

\* The first spec that says how many cards it has is the one counted.
LEMMA CountFirst ==
    ASSUME NEW specs \in Seq([endpoint : BOOLEAN, gpus : Int]), specs # <<>>,
           ~specs[1].endpoint, specs[1].gpus # NoReading
    PROVE  deploymentGPUCount(specs) = [cards |-> specs[1].gpus, known |-> TRUE]
<1> DEFINE T(k) == /\ specs[k].endpoint \/ specs[k].gpus # NoReading
                   /\ \A j \in 1..(k - 1) : ~specs[j].endpoint /\ specs[j].gpus = NoReading
<1>1. DOMAIN specs = 1..Len(specs) /\ Len(specs) \in Nat
  BY SeqDomain
<1>2. 1 \in DOMAIN specs
  BY <1>1
<1>3. T(1)
  OBVIOUS
<1>4. ASSUME NEW k \in DOMAIN specs, T(k) PROVE k = 1
  <2>1. k \in Nat /\ k >= 1
    BY <1>1
  <2>2. k > 1 => 1 \in 1..(k - 1)
    BY <2>1
  <2> QED
    BY <1>4, <2>1, <2>2
<1>5. (CHOOSE k \in DOMAIN specs : T(k)) = 1
  <2> HIDE DEF T
  <2> QED
    BY <1>2, <1>3, <1>4
<1>6. deploymentGPUCount(specs) =
        IF specs[CHOOSE k \in DOMAIN specs : T(k)].endpoint THEN [cards |-> 0, known |-> FALSE]
        ELSE [cards |-> specs[CHOOSE k \in DOMAIN specs : T(k)].gpus, known |-> TRUE]
  BY <1>2, Zenon DEF deploymentGPUCount
<1> QED
  BY <1>5, <1>6, Zenon

\* A split that is accepted fits the cards, and its flags say it whole.
LEMMA SplitHolds == CapacityInput => SplitFits
<1> SUFFICES ASSUME part = "split",
                    input \in [split : [tp : Int, pp : Int, ep : Int], specs : Seq([endpoint : BOOLEAN, gpus : Int])]
             PROVE  SplitFits
  BY DEF CapacityInput, SplitFits
<1> DEFINE p     == input.split
           specs == input.specs
           count == deploymentGPUCount(specs)
           tp    == Cards(p.tp)
           pp    == Cards(p.pp)
           dp    == dataParallelWidth(tp, p.ep)
           got   == ValidateParallelism(p, count)
           arg(d) == IF d \in DOMAIN got.args THEN got.args[d] ELSE 1
<1>1. p.tp \in Int /\ p.pp \in Int /\ p.ep \in Int /\ specs \in Seq([endpoint : BOOLEAN, gpus : Int])
  OBVIOUS
<1>2. tp \in Nat \ {0} /\ pp \in Nat \ {0}
  BY <1>1 DEF Cards
<1>3. CASE {p.tp, p.pp, p.ep} = {0}
  <2>1. got = [err |-> FALSE, args |-> <<>>]
    BY <1>3 DEF ValidateParallelism
  <2>2. arg("tp") = 1 /\ arg("pp") = 1 /\ arg("dp") = 1
    BY <2>1
  <2>3. p.ep = 0
    BY <1>3
  <2>4. specs # <<>> => Cards(specs[1].gpus) >= 1
    <3>1. specs # <<>> => specs[1].gpus \in Int
      <4>1. specs # <<>> => specs[1] \in [endpoint : BOOLEAN, gpus : Int]
        BY <1>1, FirstIs
      <4> QED
        BY <4>1
    <3> QED
      BY <3>1 DEF Cards
  <2> QED
    BY <2>2, <2>3, <2>4 DEF SplitFits
<1>4. CASE {p.tp, p.pp, p.ep} # {0} /\ ~got.err
  <2>1. /\ p.tp >= 0 /\ p.pp >= 0 /\ p.ep >= 0 /\ dp # 0
        /\ ~(count.known /\ CardsOf(tp, pp, dp) > Cards(count.cards))
        /\ got.args = parallelismArgs(tp, pp, dp, p.ep)
    BY <1>1, <1>4 DEF ValidateParallelism
  <2>2. dp \in Nat \ {0} /\ (p.ep > 1 => tp * dp = p.ep)
    <3>1. p.ep \in Nat
      BY <1>1, <2>1
    <3> HIDE DEF tp, p
    <3> QED
      BY <1>2, <2>1, <3>1, WidthIs
  <2>3. arg("tp") = tp /\ arg("pp") = pp /\ arg("dp") = dp
    <3>1. p.ep \in Nat
      BY <1>1, <2>1
    <3> HIDE DEF tp, pp, dp, p, got
    <3>2. Said(got.args, "tp") = tp /\ Said(got.args, "pp") = pp /\ Said(got.args, "dp") = dp
      BY <1>2, <2>1, <2>2, <3>1, ArgsAre
    <3> QED
      BY <3>2 DEF Said
  <2>4. ASSUME specs # <<>>, ~specs[1].endpoint, specs[1].gpus # NoReading
        PROVE  tp * pp * dp <= Cards(specs[1].gpus)
    <3>1. count = [cards |-> specs[1].gpus, known |-> TRUE]
      BY <1>1, <2>4, CountFirst
    <3>2. specs[1].gpus \in Int
      <4>1. specs[1] \in [endpoint : BOOLEAN, gpus : Int]
        BY <1>1, <2>4, FirstIs
      <4> QED
        BY <4>1
    <3>3. Cards(specs[1].gpus) \in Int
      BY <3>2 DEF Cards
    <3>4. tp * pp * dp \in Int
      BY <1>2, <2>2
    <3>5. ~(tp * pp * dp > Cards(specs[1].gpus))
      BY <2>1, <3>1 DEF CardsOf
    <3> QED
      BY <3>3, <3>4, <3>5
  <2> QED
    BY <2>2, <2>3, <2>4 DEF SplitFits
<1> QED
  BY <1>3, <1>4 DEF SplitFits


\* Whatever the providers answered, the hardware chosen is hardware the request
\* may get, and the cheapest of it; a split fits the cards it is given.
THEOREM CapacityCorrect == CapacityInput => CapacitySound
BY PrefilterKeeps, MatchFinds, PlacementFinds, SplitHolds DEF CapacitySound

-----------------------------------------------------------------------------
(***************************************************************************)
(* What a create request goes through.                                     *)
(***************************************************************************)

\* The requirements that are refused.
NeedsRefused(r) ==
    \/ r.sku /\ r.class # ""
    \/ ~r.sku /\ r.class = "" /\ r.vram = 0
    \/ r.scope \notin {"any", "none"} /\ r.gpus < 2
    \/ r.minGbps > 0 /\ r.scope = "any"
    \/ r.scope = "inter"
    \/ r.class # "" /\ r.class \notin DOMAIN classDefaults

\* The requirements with their class's floors.
Expanded(r) ==
    [r EXCEPT !.vram = raised(r.vram, classDefaults[r.class].vram),
              !.disk = raised(r.disk, classDefaults[r.class].disk),
              !.ram = raised(r.ram, classDefaults[r.class].ram)]

\* ValidateAndExpandRequirements, as refusal and expansion.
LEMMA ExpandIs ==
    ASSUME NEW r
    PROVE  ValidateAndExpandRequirements(r) =
               IF NeedsRefused(r) THEN <<>> ELSE IF r.class = "" THEN <<r>> ELSE <<Expanded(r)>>
BY Zenon DEF ValidateAndExpandRequirements, NeedsRefused, Expanded

\* The floors of the four classes.
LEMMA ClassFloors ==
    /\ DOMAIN classDefaults = {"small", "medium", "large", "xlarge"}
    /\ classDefaults["small"] = [vram |-> 24, disk |-> 20, ram |-> 16]
    /\ classDefaults["medium"] = [vram |-> 40, disk |-> 40, ram |-> 32]
    /\ classDefaults["large"] = [vram |-> 80, disk |-> 60, ram |-> 64]
    /\ classDefaults["xlarge"] = [vram |-> 96, disk |-> 100, ram |-> 128]
BY DEF classDefaults

\* Raising to the same floor twice is raising once.
LEMMA RaisedTwice ==
    ASSUME NEW a \in Int, NEW b \in Int
    PROVE  raised(a, b) \in Int /\ raised(raised(a, b), b) = raised(a, b)
BY DEF raised

\* So is expanding.
LEMMA ExpandedTwice ==
    ASSUME NEW r \in ReplicaNeeds, r.class \in DOMAIN classDefaults
    PROVE  /\ Expanded(r).class = r.class /\ Expanded(r).sku = r.sku /\ Expanded(r).gpus = r.gpus
           /\ Expanded(r).scope = r.scope /\ Expanded(r).minGbps = r.minGbps
           /\ Expanded(Expanded(r)) = Expanded(r)
<1>1. PICK d : d = classDefaults[r.class]
  OBVIOUS
<1>2. d.vram \in Int /\ d.disk \in Int /\ d.ram \in Int
  BY <1>1, ClassFloors
<1>3. PICK x : x = Expanded(r)
  OBVIOUS
<1>4. x = [r EXCEPT !.vram = raised(r.vram, d.vram), !.disk = raised(r.disk, d.disk), !.ram = raised(r.ram, d.ram)]
  BY <1>1, <1>3 DEF Expanded
<1>5. /\ x.class = r.class /\ x.sku = r.sku /\ x.gpus = r.gpus /\ x.scope = r.scope /\ x.minGbps = r.minGbps
      /\ x.vram = raised(r.vram, d.vram) /\ x.disk = raised(r.disk, d.disk) /\ x.ram = raised(r.ram, d.ram)
  BY <1>4 DEF ReplicaNeeds
<1>6. raised(x.vram, d.vram) = x.vram /\ raised(x.disk, d.disk) = x.disk /\ raised(x.ram, d.ram) = x.ram
  <2>1. r.vram \in Int /\ r.disk \in Int /\ r.ram \in Int
    BY DEF ReplicaNeeds
  <2>2. raised(raised(r.vram, d.vram), d.vram) = raised(r.vram, d.vram)
    BY <1>2, <2>1, RaisedTwice
  <2>3. raised(raised(r.disk, d.disk), d.disk) = raised(r.disk, d.disk)
    BY <1>2, <2>1, RaisedTwice
  <2>4. raised(raised(r.ram, d.ram), d.ram) = raised(r.ram, d.ram)
    BY <1>2, <2>1, RaisedTwice
  <2> QED
    BY <1>5, <2>2, <2>3, <2>4
<1>7. x \in ReplicaNeeds
  <2>1. r.vram \in Int /\ r.disk \in Int /\ r.ram \in Int
    BY DEF ReplicaNeeds
  <2>2. raised(r.vram, d.vram) \in Int /\ raised(r.disk, d.disk) \in Int /\ raised(r.ram, d.ram) \in Int
    BY <1>2, <2>1, RaisedTwice
  <2> QED
    BY <1>4, <2>2 DEF ReplicaNeeds
<1>8. Expanded(x) = [x EXCEPT !.vram = x.vram, !.disk = x.disk, !.ram = x.ram]
  BY <1>1, <1>5, <1>6 DEF Expanded
<1>9. [x EXCEPT !.vram = x.vram, !.disk = x.disk, !.ram = x.ram] = x
  BY <1>7 DEF ReplicaNeeds
<1> QED
  BY <1>3, <1>5, <1>8, <1>9

\* Requirements that passed are a fixed point.
LEMMA NeedsSettle == AdmissionInput => ExpansionSettles
<1> SUFFICES ASSUME NEW r \in ReplicaNeeds, ValidateAndExpandRequirements(r) # <<>>
             PROVE  ValidateAndExpandRequirements(ValidateAndExpandRequirements(r)[1]) = ValidateAndExpandRequirements(r)
  <2> SUFFICES ASSUME part = "requirements", input \in [reqs : ReplicaNeeds, card : Int] PROVE ExpansionSettles
    BY Zenon DEF AdmissionInput, ExpansionSettles
  <2>1. input.reqs \in ReplicaNeeds
    OBVIOUS
  <2> QED
    BY <2>1, Zenon DEF ExpansionSettles
<1>1. PICK none : none = ""
  OBVIOUS
<1>2. ~NeedsRefused(r) /\ ValidateAndExpandRequirements(r) = IF r.class = none THEN <<r>> ELSE <<Expanded(r)>>
  BY <1>1, ExpandIs, Zenon
<1>3. CASE r.class = none
  BY <1>2, <1>3
<1>4. CASE r.class # none
  <2>1. r.class \in DOMAIN classDefaults
    BY <1>1, <1>2, <1>4, Zenon DEF NeedsRefused
  <2>2. PICK x : x = Expanded(r)
    OBVIOUS
  <2>3. /\ x.class = r.class /\ x.sku = r.sku /\ x.gpus = r.gpus
        /\ x.scope = r.scope /\ x.minGbps = r.minGbps /\ Expanded(x) = x
    BY <2>1, <2>2, ExpandedTwice
  <2>4. ~NeedsRefused(x)
    BY <1>1, <1>2, <1>4, <2>3, Zenon DEF NeedsRefused
  <2>5. ValidateAndExpandRequirements(r) = <<x>>
    BY <1>2, <1>4, <2>2
  <2>6. ValidateAndExpandRequirements(x) = <<x>>
    <3>1. ValidateAndExpandRequirements(x) = IF NeedsRefused(x) THEN <<>> ELSE IF x.class = none THEN <<x>> ELSE <<Expanded(x)>>
      BY <1>1, ExpandIs, Zenon
    <3> QED
      BY <1>4, <2>3, <2>4, <3>1
  <2>7. <<x>>[1] = x
    OBVIOUS
  <2> QED
    BY <2>5, <2>6, <2>7
<1> QED
  BY <1>3, <1>4

\* A class's place among the four.
RankOf(c) == CHOOSE k \in 1..4 : <<"small", "medium", "large", "xlarge">>[k] = c

\* Their places.
LEMMA Ranks == RankOf("small") = 1 /\ RankOf("medium") = 2 /\ RankOf("large") = 3 /\ RankOf("xlarge") = 4
<1>1. PICK s : s = <<"small", "medium", "large", "xlarge">>
  OBVIOUS
<1>2. s[1] = "small" /\ s[2] = "medium" /\ s[3] = "large" /\ s[4] = "xlarge"
  BY <1>1
<1>3. \A k \in 1..4 : k = 1 \/ k = 2 \/ k = 3 \/ k = 4
  OBVIOUS
<1>4. \A c : RankOf(c) = CHOOSE k \in 1..4 : s[k] = c
  BY <1>1 DEF RankOf
<1>5. \A k \in 1..4 : s[k] = "small" => k = 1
  BY <1>2, <1>3
<1>6. \A k \in 1..4 : s[k] = "medium" => k = 2
  BY <1>2, <1>3
<1>7. \A k \in 1..4 : s[k] = "large" => k = 3
  BY <1>2, <1>3
<1>8. \A k \in 1..4 : s[k] = "xlarge" => k = 4
  BY <1>2, <1>3
<1> QED
  BY <1>2, <1>4, <1>5, <1>6, <1>7, <1>8

\* The class of a card by its memory.
LEMMA Bands ==
    ASSUME NEW card \in Int
    PROVE  /\ card >= 96 => ClassifyByVRAM(card) = "xlarge"
           /\ card >= 80 /\ card < 96 => ClassifyByVRAM(card) = "large"
           /\ card >= 40 /\ card < 80 => ClassifyByVRAM(card) = "medium"
           /\ card > 0 /\ card < 40 => ClassifyByVRAM(card) = "small"
<1>0. PICK none : none = ""
  OBVIOUS
<1>1. ClassifyByVRAM(card) = IF card <= 0 THEN none
           ELSE IF card >= 96 THEN "xlarge" ELSE IF card >= 80 THEN "large" ELSE IF card >= 40 THEN "medium" ELSE "small"
  BY <1>0, Zenon DEF ClassifyByVRAM
<1> QED
  BY <1>1

\* The bands of the cards and the floors of the classes agree.
LEMMA ClassesMatch == AdmissionInput => ClassesAgree
<1> SUFFICES ASSUME part = "requirements", input \in [reqs : ReplicaNeeds, card : Int] PROVE ClassesAgree
  BY Zenon DEF AdmissionInput, ClassesAgree
<1>1. PICK none : none = ""
  OBVIOUS
<1>2. PICK r : r = [input.reqs EXCEPT !.vram = 0]
  OBVIOUS
<1>3. PICK card \in Int : card = input.card
  OBVIOUS
<1>4. r \in ReplicaNeeds /\ r.vram = 0 /\ r.class = input.reqs.class
  BY <1>2 DEF ReplicaNeeds
<1>5. ASSUME ValidateAndExpandRequirements(r) # <<>>, r.class # none
      PROVE  card >= ValidateAndExpandRequirements(r)[1].vram <=> card >= 24 /\ RankOf(ClassifyByVRAM(card)) >= RankOf(r.class)
  <2>1. ~NeedsRefused(r) /\ ValidateAndExpandRequirements(r) = <<Expanded(r)>>
    BY <1>1, <1>5, ExpandIs, Zenon
  <2>2. r.class \in DOMAIN classDefaults
    BY <1>1, <1>5, <2>1, Zenon DEF NeedsRefused
  <2>3. Expanded(r).vram = raised(0, classDefaults[r.class].vram)
    BY <1>4 DEF Expanded, ReplicaNeeds
  <2>4. ValidateAndExpandRequirements(r)[1].vram = raised(0, classDefaults[r.class].vram)
    BY <2>1, <2>3
  <2>5. CASE r.class = "small"
    <3>1. raised(0, classDefaults[r.class].vram) = 24
      BY <2>5, ClassFloors DEF raised
    <3> QED
      BY <2>4, <2>5, <3>1, Ranks, Bands
  <2>6. CASE r.class = "medium"
    <3>1. raised(0, classDefaults[r.class].vram) = 40
      BY <2>6, ClassFloors DEF raised
    <3> QED
      BY <2>4, <2>6, <3>1, Ranks, Bands
  <2>7. CASE r.class = "large"
    <3>1. raised(0, classDefaults[r.class].vram) = 80
      BY <2>7, ClassFloors DEF raised
    <3> QED
      BY <2>4, <2>7, <3>1, Ranks, Bands
  <2>8. CASE r.class = "xlarge"
    <3>1. raised(0, classDefaults[r.class].vram) = 96
      BY <2>8, ClassFloors DEF raised
    <3> QED
      BY <2>4, <2>8, <3>1, Ranks, Bands
  <2> QED
    BY <2>2, <2>5, <2>6, <2>7, <2>8, ClassFloors
<1> QED
  BY <1>1, <1>2, <1>3, <1>4, <1>5, Zenon DEF ClassesAgree, RankOf

\* The record a create leaves is the one there was, where LiveRecordKept says so.
RecordKept(c, got) ==
    /\ got.answer = "refused" /\ got.why # "key" => got.record = c.old
    /\ (c.old # <<>> /\ c.old[1].state \in Live /\ c.old[1].image = c.dep.image /\ c.old[1].model = c.dep.model)
           => got.record = c.old

\* An accepted create whose mounts passed both checks for these placements.
MountsChecked(got, placements) ==
    got.answer = "accepted" =>
        /\ checkMountProviders(got.record[1].mounts, placements)
        /\ checkMountsAttachable(got.record[1].mounts, placements)

\* The four ends of claimed.
LEMMA ClaimedIs ==
    ASSUME NEW c, NEW mounts, NEW placements, NEW pinned, NEW none, none = ""
    PROVE  \/ claimed(c, mounts, placements, pinned) = [answer |-> "refused", why |-> "mounts", record |-> c.old]
           \/ claimed(c, mounts, placements, pinned) = [answer |-> "refused", why |-> "claim", record |-> c.old]
           \/ claimed(c, mounts, placements, pinned) = [answer |-> "existed", why |-> none, record |-> c.old]
           \/ /\ claimed(c, mounts, placements, pinned) =
                     [answer |-> "accepted", why |-> none, record |-> <<newDeploymentRecord(c.dep, mounts)>>]
              /\ checkMountProviders(mounts, placements) /\ checkMountsAttachable(mounts, placements)
              /\ claim(c.old, c.dep, pinned) \notin {"refused", "existed"}
BY Zenon DEF claimed, Refused

\* A live deployment of the same image and model is never claimed anew.
LEMMA SameIsNotClaimed ==
    ASSUME NEW old, NEW dep, NEW pinned, old # <<>>, old[1].state \in Live,
           old[1].image = dep.image, old[1].model = dep.model
    PROVE  claim(old, dep, pinned) \in {"refused", "existed"}
BY Zenon DEF claim

\* claimed keeps the record it must keep, and accepts checked mounts only.
LEMMA ClaimedKeeps ==
    ASSUME NEW c, NEW mounts, NEW placements, NEW pinned
    PROVE  /\ RecordKept(c, claimed(c, mounts, placements, pinned))
           /\ MountsChecked(claimed(c, mounts, placements, pinned), placements)
<1>1. PICK none : none = ""
  OBVIOUS
<1>2. PICK g : g = claimed(c, mounts, placements, pinned)
  OBVIOUS
<1>3. CASE g = [answer |-> "refused", why |-> "mounts", record |-> c.old]
  BY <1>2, <1>3 DEF RecordKept, MountsChecked
<1>4. CASE g = [answer |-> "refused", why |-> "claim", record |-> c.old]
  BY <1>2, <1>4 DEF RecordKept, MountsChecked
<1>5. CASE g = [answer |-> "existed", why |-> none, record |-> c.old]
  BY <1>2, <1>5 DEF RecordKept, MountsChecked
<1>6. CASE /\ g = [answer |-> "accepted", why |-> none, record |-> <<newDeploymentRecord(c.dep, mounts)>>]
           /\ checkMountProviders(mounts, placements) /\ checkMountsAttachable(mounts, placements)
           /\ claim(c.old, c.dep, pinned) \notin {"refused", "existed"}
  <2>1. g.answer = "accepted" /\ g.record[1].mounts = mounts
    BY <1>6 DEF newDeploymentRecord
  <2>2. ~(c.old # <<>> /\ c.old[1].state \in Live /\ c.old[1].image = c.dep.image /\ c.old[1].model = c.dep.model)
    BY <1>6, SameIsNotClaimed, Zenon
  <2>3. RecordKept(c, g)
    BY <2>1, <2>2 DEF RecordKept
  <2>4. MountsChecked(g, placements)
    BY <1>6, <2>1 DEF MountsChecked
  <2> QED
    BY <1>2, <2>3, <2>4
<1> QED
  BY <1>1, <1>2, <1>3, <1>4, <1>5, <1>6, ClaimedIs, Zenon

\* A refusal keeps the record and accepts nothing.
LEMMA RefusedKeeps ==
    ASSUME NEW c, NEW why, NEW placements
    PROVE  RecordKept(c, Refused(c, why)) /\ MountsChecked(Refused(c, why), placements)
<1>1. PICK g : g = Refused(c, why)
  OBVIOUS
<1>2. g.answer = "refused" /\ g.record = c.old
  BY <1>1 DEF Refused
<1> QED
  BY <1>1, <1>2 DEF RecordKept, MountsChecked

\* The pinned path keeps the record, the key that failed after the claim too.
LEMMA PinnedKeeps ==
    ASSUME NEW c, NEW mounts
    PROVE  /\ RecordKept(c, createPinned(c, mounts))
           /\ MountsChecked(createPinned(c, mounts), <<c.instances[c.dep.instance].provider>>)
<1>1. PICK places : places = <<c.instances[c.dep.instance].provider>>
  OBVIOUS
<1>2. PICK g : g = claimed(c, mounts, places, TRUE)
  OBVIOUS
<1>3. RecordKept(c, g) /\ MountsChecked(g, places)
  BY <1>2, ClaimedKeeps
<1>4. PICK h : h = [g EXCEPT !.answer = "refused", !.why = "key"]
  OBVIOUS
<1>5. \/ createPinned(c, mounts) = g
      \/ createPinned(c, mounts) = Refused(c, "placement")
      \/ createPinned(c, mounts) = h
  BY <1>1, <1>2, <1>4, Zenon DEF createPinned
<1>6. RecordKept(c, h) /\ MountsChecked(h, places)
  <2>1. PICK none : none = ""
    OBVIOUS
  <2>2. \/ g = [answer |-> "refused", why |-> "mounts", record |-> c.old]
        \/ g = [answer |-> "refused", why |-> "claim", record |-> c.old]
        \/ g = [answer |-> "existed", why |-> none, record |-> c.old]
        \/ g = [answer |-> "accepted", why |-> none, record |-> <<newDeploymentRecord(c.dep, mounts)>>]
    BY <1>2, <2>1, ClaimedIs, Zenon
  <2>3. h.answer = "refused" /\ h.why = "key" /\ h.record = g.record
    BY <1>4, <2>2
  <2> QED
    BY <1>3, <2>3 DEF RecordKept, MountsChecked
<1> QED
  BY <1>1, <1>3, <1>5, <1>6, RefusedKeeps, Zenon

\* The providers of the machines a create places, in order.
PlacesOf(c) ==
    IF c.groups = <<>> THEN <<c.instances[c.dep.instance].provider>>
    ELSE [i \in DOMAIN resolveCreateReplicaSpecs(c.groups) |-> resolveCreateReplicaSpecs(c.groups)[i].provider]

\* The three ways a create goes.
LEMMA CreateIs ==
    ASSUME NEW c
    PROVE  \/ \E why : CreateDeployment(c) = Refused(c, why)
           \/ c.groups = <<>> /\ \E mounts : CreateDeployment(c) = createPinned(c, mounts)
           \/ c.groups # <<>> /\ \E mounts : CreateDeployment(c) = createMultiReplicaDeployment(c, resolveCreateReplicaSpecs(c.groups), mounts)
BY Zenon DEF CreateDeployment

\* CreateDeployment keeps the record, and accepts mounts checked on every machine.
LEMMA CreateKeeps ==
    ASSUME NEW c
    PROVE  RecordKept(c, CreateDeployment(c)) /\ MountsChecked(CreateDeployment(c), PlacesOf(c))
<1>1. \/ \E why : CreateDeployment(c) = Refused(c, why)
      \/ c.groups = <<>> /\ \E mounts : CreateDeployment(c) = createPinned(c, mounts)
      \/ c.groups # <<>> /\ \E mounts : CreateDeployment(c) = createMultiReplicaDeployment(c, resolveCreateReplicaSpecs(c.groups), mounts)
  BY CreateIs
<1>2. CASE \E why : CreateDeployment(c) = Refused(c, why)
  BY <1>2, RefusedKeeps, Zenon
<1>3. CASE c.groups = <<>> /\ \E mounts : CreateDeployment(c) = createPinned(c, mounts)
  BY <1>3, PinnedKeeps, Zenon DEF PlacesOf
<1>4. CASE c.groups # <<>> /\ \E mounts : CreateDeployment(c) = createMultiReplicaDeployment(c, resolveCreateReplicaSpecs(c.groups), mounts)
  <2>1. PICK mounts : CreateDeployment(c) = createMultiReplicaDeployment(c, resolveCreateReplicaSpecs(c.groups), mounts)
    BY <1>4
  <2>2. CreateDeployment(c) = claimed(c, mounts, PlacesOf(c), FALSE)
    BY <1>4, <2>1, Zenon DEF createMultiReplicaDeployment, PlacesOf
  <2> QED
    BY <2>2, ClaimedKeeps, Zenon
<1> QED
  BY <1>1, <1>2, <1>3, <1>4

\* A create never takes a live deployment's record away.
LEMMA RecordsKept == LiveRecordKept
BY CreateKeeps, Zenon DEF LiveRecordKept, RecordKept

\* A pinned create that is accepted names an instance there is.
LEMMA PinnedExists ==
    ASSUME NEW c, c.groups = <<>>, CreateDeployment(c).answer = "accepted"
    PROVE  c.dep.instance \in DOMAIN c.instances
<1> SUFFICES ASSUME c.dep.instance \notin DOMAIN c.instances PROVE FALSE
  OBVIOUS
<1>1. \A mounts : createPinned(c, mounts) = Refused(c, "placement")
  BY Zenon DEF createPinned, placeDeployment
<1>2. \E why : CreateDeployment(c) = Refused(c, why)
  BY <1>1, CreateIs
<1>3. \A why : Refused(c, why).answer = "refused"
  BY DEF Refused
<1> QED
  BY <1>2, <1>3

\* A group names its provider, and how many replicas it has.
LEMMA GroupIs ==
    ASSUME NEW groups \in Seq(ReplicaGroup), NEW i \in DOMAIN groups
    PROVE  groups[i] \in ReplicaGroup /\ groups[i].replicas \in Int /\ groups[i].provider # ""
<1>1. groups[i] \in ReplicaGroup
  OBVIOUS
<1>0. PICK none : none = ""
  OBVIOUS
<1>2. ReplicaGroup = [provider : STRING \ {none}, region : STRING, replicas : Int]
  BY <1>0, Zenon DEF ReplicaGroup
<1>3. groups[i].replicas \in Int /\ groups[i].provider \in STRING \ {none}
  BY <1>1, <1>2
<1> QED
  BY <1>0, <1>1, <1>3, Zenon

\* Mounts that passed the checks reach a machine of each provider placed on.
LEMMA MountsReach ==
    ASSUME NEW mounts, NEW places, NEW p \in ToSet(places), NEW none, none = "", p # none, p # "external",
           checkMountProviders(mounts, places), checkMountsAttachable(mounts, places), mounts # <<>>
    PROVE  p # "vast" /\ volumesForProvider(mounts, p) = Keep(mounts, LAMBDA m : m.volume # "")
<1>1. deployPathAttachesMounts(p)
  BY Zenon DEF checkMountsAttachable
<1>2. p # "vast"
  BY <1>1 DEF deployPathAttachesMounts, configured, imageNative, MountAttachers
<1>3. \A m \in ToSet(mounts) : m.provider \in {none, p}
  BY Zenon DEF checkMountProviders
<1>4. \A i \in DOMAIN mounts : mounts[i] \in ToSet(mounts)
  BY DEF ToSet
<1>5. {i \in DOMAIN mounts : mounts[i].volume # none /\ mounts[i].provider \in {none, p}}
        = {i \in DOMAIN mounts : mounts[i].volume # none}
  BY <1>3, <1>4
<1>6. volumesForProvider(mounts, p)
        = Picked(mounts, {i \in DOMAIN mounts : mounts[i].volume # none /\ mounts[i].provider \in {none, p}})
  BY Zenon DEF volumesForProvider, Keep
<1>7. Keep(mounts, LAMBDA m : m.volume # "") = Picked(mounts, {i \in DOMAIN mounts : mounts[i].volume # none})
  BY Zenon DEF Keep
<1> QED
  BY <1>2, <1>5, <1>6, <1>7

\* Every group of a request has a machine.
LEMMA GroupsPlaced ==
    ASSUME NEW groups \in Seq(ReplicaGroup), NEW g \in ToSet(groups)
    PROVE  \E i \in DOMAIN resolveCreateReplicaSpecs(groups) : resolveCreateReplicaSpecs(groups)[i] = g
<1>1. PICK ss : ss = [i \in DOMAIN groups |-> [k \in 1..Cards(groups[i].replicas) |-> groups[i]]]
  OBVIOUS
<1>2. \A i \in DOMAIN groups : groups[i] \in ReplicaGroup /\ groups[i].replicas \in Int
  BY GroupIs, Zenon
<1>3. \A i \in DOMAIN groups : Cards(groups[i].replicas) \in Nat /\ Cards(groups[i].replicas) >= 1
  BY <1>2 DEF Cards
<1>4. \A i \in DOMAIN groups : ss[i] \in Seq(ReplicaGroup) /\ 1 \in DOMAIN ss[i] /\ ss[i][1] = groups[i]
  <2> SUFFICES ASSUME NEW i \in DOMAIN groups
               PROVE  ss[i] \in Seq(ReplicaGroup) /\ 1 \in DOMAIN ss[i] /\ ss[i][1] = groups[i]
    OBVIOUS
  <2>1. PICK n \in Nat : n = Cards(groups[i].replicas)
    BY <1>3
  <2>2. n >= 1
    BY <1>3, <2>1
  <2>3. ss[i] = [k \in 1..n |-> groups[i]]
    BY <1>1, <2>1
  <2>4. ss[i] \in [1..n -> ReplicaGroup]
    BY <1>2, <2>3
  <2> QED
    BY <2>2, <2>3, <2>4, SeqIs
<1>5. ss \in Seq(Seq(ReplicaGroup)) /\ DOMAIN ss = DOMAIN groups
  <2>1. DOMAIN groups = 1..Len(groups) /\ Len(groups) \in Nat
    OBVIOUS
  <2>2. ss \in [1..Len(groups) -> Seq(ReplicaGroup)]
    BY <1>1, <1>4, <2>1
  <2> QED
    BY <2>1, <2>2, SeqIs
<1>6. PICK i \in DOMAIN groups : g = groups[i]
  BY DEF ToSet
<1>7. g \in ToSet(ss[i])
  BY <1>4, <1>6 DEF ToSet
<1>8. g \in ToSet(Joined(ss))
  BY <1>5, <1>7, JoinedIs
<1>9. resolveCreateReplicaSpecs(groups) = Joined(ss)
  BY <1>1, Zenon DEF resolveCreateReplicaSpecs
<1> QED
  BY <1>8, <1>9 DEF ToSet

\* The providers WarmIsWarm speaks of are those of the machines placed.
LEMMA ProvidersPlaced ==
    ASSUME NEW c, c.groups \in Seq(ReplicaGroup),
           NEW p \in IF c.groups = <<>> THEN {c.instances[c.dep.instance].provider} ELSE {g.provider : g \in ToSet(c.groups)}
    PROVE  p \in ToSet(PlacesOf(c))
<1>1. CASE c.groups = <<>>
  <2>1. p = c.instances[c.dep.instance].provider
    BY <1>1
  <2>2. PlacesOf(c) = <<p>>
    BY <1>1, <2>1 DEF PlacesOf
  <2>3. DOMAIN <<p>> = {1} /\ <<p>>[1] = p
    OBVIOUS
  <2> QED
    BY <2>2, <2>3 DEF ToSet
<1>2. CASE c.groups # <<>>
  <2>1. PICK g \in ToSet(c.groups) : p = g.provider
    BY <1>2
  <2>2. PICK specs : specs = resolveCreateReplicaSpecs(c.groups)
    OBVIOUS
  <2>3. PICK i \in DOMAIN specs : specs[i] = g
    BY <2>2, GroupsPlaced
  <2>4. PlacesOf(c) = [k \in DOMAIN specs |-> specs[k].provider]
    BY <1>2, <2>2 DEF PlacesOf
  <2>5. i \in DOMAIN PlacesOf(c) /\ PlacesOf(c)[i] = p
    BY <2>1, <2>3, <2>4
  <2> QED
    BY <2>5 DEF ToSet
<1> QED
  BY <1>1, <1>2

\* A deploy that is reported warm is warm.
LEMMA WarmHolds == AdmissionInput => WarmIsWarm
<1> SUFFICES ASSUME part = "admission", input.groups \in Seq(ReplicaGroup),
                    \A i \in DOMAIN input.instances : input.instances[i].provider # "",
                    CreateDeployment(input).answer = "accepted",
                    NEW p \in (IF input.groups = <<>> THEN {input.instances[input.dep.instance].provider}
                               ELSE {g.provider : g \in ToSet(input.groups)}) \ {"external"},
                    CreateDeployment(input).record[1].mounts # <<>>
             PROVE  /\ p # "vast"
                    /\ volumesForProvider(CreateDeployment(input).record[1].mounts, p)
                           = Keep(CreateDeployment(input).record[1].mounts, LAMBDA m : m.volume # "")
  BY Zenon DEF AdmissionInput, WarmIsWarm
<1>1. PICK none : none = ""
  OBVIOUS
<1>2. p # none
  <2>1. CASE input.groups = <<>>
    <3>1. input.dep.instance \in DOMAIN input.instances
      BY <2>1, PinnedExists
    <3> QED
      BY <1>1, <2>1, <3>1, Zenon
  <2>2. CASE input.groups # <<>>
    <3>1. PICK g \in ToSet(input.groups) : p = g.provider
      BY <2>2
    <3>2. PICK i \in DOMAIN input.groups : g = input.groups[i]
      BY DEF ToSet
    <3>3. g.provider # none
      BY <1>1, <3>2, GroupIs, Zenon
    <3> QED
      BY <3>1, <3>3
  <2> QED
    BY <2>1, <2>2
<1>3. p \in ToSet(PlacesOf(input)) /\ p # "external"
  BY ProvidersPlaced
<1>4. MountsChecked(CreateDeployment(input), PlacesOf(input))
  BY CreateKeeps
<1>5. /\ checkMountProviders(CreateDeployment(input).record[1].mounts, PlacesOf(input))
      /\ checkMountsAttachable(CreateDeployment(input).record[1].mounts, PlacesOf(input))
  BY <1>4, Zenon DEF MountsChecked
<1> QED
  BY <1>1, <1>2, <1>3, <1>5, MountsReach, Zenon

\* What is read of an image is finite when its index is.
LEMMA ReadFinite ==
    ASSUME NEW registry, IsFiniteSet(registry.index)
    PROVE  IsFiniteSet(readImage(registry))
<1>1. PICK T : T = {q \in registry.index : q.os \in {"", "linux"} /\ q.arch \notin {"", "unknown"}}
  OBVIOUS
<1>2. IsFiniteSet(T)
  <2>1. T \subseteq registry.index
    BY <1>1, Zenon
  <2> QED
    BY <2>1, FS_Subset
<1>3. IsFiniteSet({p.arch : p \in T})
  <2>1. PICK f : f = [p \in T |-> p.arch]
    OBVIOUS
  <2>2. f \in Surjection(T, {p.arch : p \in T})
    BY <2>1 DEF Surjection
  <2> QED
    BY <1>2, <2>2, FS_Surjection
<1>4. PICK U : U = {registry.arch} \ {""}
  OBVIOUS
<1>5. IsFiniteSet(U)
  <2>1. U \subseteq {registry.arch}
    BY <1>4, Zenon
  <2> QED
    BY <2>1, FS_Subset, FS_Singleton
<1>6. readImage(registry) = {} \/ readImage(registry) = {p.arch : p \in T} \/ readImage(registry) = U
  BY <1>1, <1>4, Zenon DEF readImage
<1> QED
  BY <1>3, <1>5, <1>6, FS_EmptySet

\* The second deploy acts on what the registry says now, unless the first had
\* learned something else.
LEMMA SecondReads ==
    ASSUME NEW before, NEW now, NEW R, R = readImage(now), R # {},
           Architectures(<<>>, before).got \in {{}, R}
    PROVE  Architectures(Architectures(<<>>, before).cache, now).got = R
<1>1. PICK first : first = Architectures(<<>>, before)
  OBVIOUS
<1>2. first.got = readImage(before) /\ first.cache = IF readImage(before) = {} THEN <<>> ELSE <<readImage(before)>>
  BY <1>1 DEF Architectures
<1>3. \A cache : Architectures(cache, now).got = IF cache # <<>> THEN cache[1] ELSE R
  BY DEF Architectures
<1>4. CASE readImage(before) = {}
  BY <1>1, <1>2, <1>3, <1>4
<1>5. CASE readImage(before) # {}
  <2>1. first.cache = <<R>>
    BY <1>1, <1>2, <1>5
  <2>2. <<R>> # <<>> /\ <<R>>[1] = R
    OBVIOUS
  <2> QED
    BY <1>1, <1>3, <2>1, <2>2
<1> QED
  BY <1>4, <1>5

\* The one architecture of a set of one.
LEMMA OneArch ==
    ASSUME NEW R, IsFiniteSet(R), Cardinality(R) = 1
    PROVE  NormalizeArch(CHOOSE a \in R : TRUE) = CHOOSE a \in {NormalizeArch(b) : b \in R} : TRUE
<1>1. PICK x : R = {x}
  BY FS_Singleton
<1>2. (CHOOSE a \in R : TRUE) = x
  BY <1>1
<1>3. {NormalizeArch(b) : b \in R} = {NormalizeArch(x)}
  BY <1>1, Zenon
<1>4. PICK y : y = NormalizeArch(x)
  OBVIOUS
<1>5. (CHOOSE a \in {y} : TRUE) = y
  OBVIOUS
<1> QED
  BY <1>2, <1>3, <1>4, <1>5, Zenon

\* What a replica that states arm64, and one that states nothing, are given.
LEMMA InferredIs ==
    ASSUME NEW G, NEW none, none = ""
    PROVE  /\ inferImageArchitecture(<<none, "arm64">>, G)[2] = "arm64"
           /\ inferImageArchitecture(<<none, "arm64">>, G)[1] =
                  IF Cardinality(G) = 1 THEN NormalizeArch(CHOOSE a \in G : TRUE) ELSE none
<1>1. "arm64" # none
  BY Zenon
<1>2. PICK s : s = <<none, "arm64">>
  OBVIOUS
<1>3. 1 \in DOMAIN s /\ 2 \in DOMAIN s /\ s[1] = none /\ s[2] = "arm64"
  BY ONLY <1>2
<1>4. \A i \in DOMAIN s : inferImageArchitecture(s, G)[i] =
          IF s[i] = "" /\ Cardinality(G) = 1 THEN NormalizeArch(CHOOSE a \in G : TRUE) ELSE s[i]
  BY Zenon DEF inferImageArchitecture
<1> QED
  BY <1>1, <1>2, <1>3, <1>4, Zenon

\* An image is kept on the machines it runs on.
LEMMA ImagesFit == AdmissionInput => ImageFitsMachine
<1> SUFFICES ASSUME part = "image", IsFiniteSet(input.now.index) PROVE ImageFitsMachine
  BY Zenon DEF AdmissionInput, ImageFitsMachine
<1>1. PICK none : none = ""
  OBVIOUS
<1>2. PICK R : R = readImage(input.now)
  OBVIOUS
<1>3. PICK G : G = Architectures(Architectures(<<>>, input.before).cache, input.now).got
  OBVIOUS
<1>4. /\ inferImageArchitecture(<<none, "arm64">>, G)[2] = "arm64"
      /\ inferImageArchitecture(<<none, "arm64">>, G)[1] =
             IF Cardinality(G) = 1 THEN NormalizeArch(CHOOSE a \in G : TRUE) ELSE none
  BY <1>1, InferredIs, Zenon
<1>5. IsFiniteSet(R)
  BY <1>2, ReadFinite
<1>6. ASSUME R # {}, Architectures(<<>>, input.before).got \in {{}, R}
      PROVE  inferImageArchitecture(<<none, "arm64">>, G)[1]
                 = IF Cardinality(R) = 1 THEN CHOOSE a \in {NormalizeArch(b) : b \in R} : TRUE ELSE none
  <2>1. G = R
    BY <1>2, <1>3, <1>6, SecondReads, Zenon
  <2>2. CASE Cardinality(R) = 1
    BY <1>4, <1>5, <2>1, <2>2, OneArch, Zenon
  <2>3. CASE Cardinality(R) # 1
    BY <1>4, <2>1, <2>3, Zenon
  <2> QED
    BY <2>2, <2>3, Zenon
<1> QED
  BY <1>1, <1>2, <1>3, <1>4, <1>6, Zenon DEF ImageFitsMachine

\* What each machine is stamped with.
LEMMA StampIs ==
    ASSUME NEW dep, NEW slot
    PROVE  /\ "engine" \in DOMAIN agentStamp(dep, slot) /\ agentStamp(dep, slot)["engine"] = slot.id
           /\ "node" \in DOMAIN agentStamp(dep, slot) /\ agentStamp(dep, slot)["node"] = slot.node
<1>1. PICK f : f = [engine |-> slot.id, node |-> slot.node, url |-> dep.url, health |-> dep.port]
  OBVIOUS
<1>2. PICK S : S = {"engine", "node"} \cup (IF dep.url = "" THEN {} ELSE {"url"}) \cup (IF dep.port = 0 THEN {} ELSE {"health"})
  OBVIOUS
<1>3. agentStamp(dep, slot) = [x \in S |-> f[x]]
  BY <1>1, <1>2, Zenon DEF agentStamp, Restrict
<1>4. "engine" \in S /\ "node" \in S
  BY <1>2, Zenon
<1>5. f["engine"] = slot.id /\ f["node"] = slot.node
  BY <1>1
<1> HIDE <1>2
<1> QED
  BY <1>3, <1>4, <1>5

\* Every machine of a fan-out registers as itself.
LEMMA RegistersAsItself == AdmissionInput => EachRegistersAsItself
<1> SUFFICES ASSUME "node" \notin DOMAIN input.dep.env, NEW i \in DOMAIN input.slots
             PROVE  /\ \A k \in DOMAIN input.dep.env : withAgentEnv(input.dep, input.slots)[i][k] = input.dep.env[k]
                    /\ "engine" \notin DOMAIN input.dep.env => withAgentEnv(input.dep, input.slots)[i]["engine"] = input.slots[i].id
                    /\ withAgentEnv(input.dep, input.slots)[i]["node"] = input.slots[i].node
  BY Zenon DEF AdmissionInput, EachRegistersAsItself
<1>1. PICK stamp : stamp = agentStamp(input.dep, input.slots[i])
  OBVIOUS
<1>2. PICK own : own = input.dep.env
  OBVIOUS
<1>3. withAgentEnv(input.dep, input.slots)[i] = [k \in DOMAIN own \cup DOMAIN stamp |-> IF k \in DOMAIN own THEN own[k] ELSE stamp[k]]
  BY <1>1, <1>2 DEF withAgentEnv
<1>4. /\ "engine" \in DOMAIN stamp /\ stamp["engine"] = input.slots[i].id
      /\ "node" \in DOMAIN stamp /\ stamp["node"] = input.slots[i].node
  BY <1>1, StampIs, Zenon
<1> QED
  BY <1>2, <1>3, <1>4

\* What a create admits is what runs.
THEOREM AdmissionCorrect == AdmissionInput => AdmissionSound
BY NeedsSettle, ClassesMatch, WarmHolds, RecordsKept, ImagesFit, RegistersAsItself DEF AdmissionSound

-----------------------------------------------------------------------------
(***************************************************************************)
(* What each provider can be asked for.                                    *)
(***************************************************************************)

\* The least of a set of places.
LEMMA LeastExists ==
    ASSUME NEW n \in Nat, NEW W \in SUBSET (1..n), W # {}
    PROVE  (CHOOSE i \in W : \A j \in W : i <= j) \in W
<1>1. IsFiniteSet(1..n)
  <2>1. 1 \in Int /\ n \in Int
    OBVIOUS
  <2> QED
    BY <2>1, FS_Interval
<1>2. IsFiniteSet(W)
  BY <1>1, FS_Subset
<1>3. PICK m : m = Cardinality(W)
  OBVIOUS
<1>4. PICK L : L = Listed(W, Ascending(W))
  OBVIOUS
<1>5. W \in SUBSET Int
  OBVIOUS
<1>6. /\ m \in Nat
      /\ L \in [1..m -> W]
      /\ \A x \in W : \E k \in 1..m : L[k] = x
      /\ \A j, k \in 1..m : j < k => <<L[j], L[k]>> \in Ascending(W)
  BY <1>2, <1>3, <1>4, <1>5, AscendingOrder, ListedOK
<1>7. \A j, k \in 1..m : j < k => L[j] < L[k]
  BY <1>6 DEF Ascending
<1>8. 1 \in 1..m
  <2>1. PICK x \in W : TRUE
    OBVIOUS
  <2>2. PICK k \in 1..m : L[k] = x
    BY <1>6
  <2> QED
    BY <1>6, <2>2
<1>9. \A x \in W : L[1] <= x
  <2> SUFFICES ASSUME NEW x \in W PROVE L[1] <= x
    OBVIOUS
  <2>1. PICK k \in 1..m : L[k] = x
    BY <1>6
  <2>2. k = 1 \/ 1 < k
    BY <1>6
  <2>3. L[1] \in Int /\ x \in Int
    BY <1>5, <1>6, <1>8
  <2> QED
    BY <1>7, <1>8, <2>1, <2>2, <2>3
<1>10. L[1] \in W
  BY <1>6, <1>8
<1> QED
  BY <1>9, <1>10

\* Several lists of rows, merged and ranked: the rows listed are those of the
\* lists.
LEMMA MergedIs ==
    ASSUME NEW E, NEW ss \in Seq(Seq(E)), \A e \in E : e.price \in Int
    PROVE  /\ CheapestFirst(Joined(ss)) \in Seq(E)
           /\ \A i \in DOMAIN ss : \A k \in DOMAIN ss[i] : ss[i][k] \in ToSet(CheapestFirst(Joined(ss)))
           /\ \A x \in ToSet(CheapestFirst(Joined(ss))) : \E i \in DOMAIN ss : \E k \in DOMAIN ss[i] : x = ss[i][k]
<1>1. PICK t : t = Joined(ss)
  OBVIOUS
<1>2. /\ t \in Seq(E)
      /\ \A i \in DOMAIN ss : ToSet(ss[i]) \subseteq ToSet(t)
      /\ \A x \in ToSet(t) : \E i \in DOMAIN ss : x \in ToSet(ss[i])
  BY <1>1, JoinedIs
<1>3. CheapestFirst(t) \in Seq(E) /\ ToSet(CheapestFirst(t)) = ToSet(t)
  BY <1>2, CheapestIs
<1>4. \A i \in DOMAIN ss : \A k \in DOMAIN ss[i] : ss[i][k] \in ToSet(ss[i])
  BY DEF ToSet
<1>5. \A i \in DOMAIN ss : \A x \in ToSet(ss[i]) : \E k \in DOMAIN ss[i] : x = ss[i][k]
  BY DEF ToSet
<1> QED
  BY <1>1, <1>2, <1>3, <1>4, <1>5

\* A resolution is a list of rows of the catalog.
LEMMA MatchIs ==
    ASSUME NEW E, NEW skus \in Seq(E), \A e \in E : e.price \in Int, NEW reqs, NEW mode
    PROVE  Match(skus, reqs, mode) \in Seq(E)
<1>1. PICK P : P = {i \in DOMAIN skus : RowFits(skus[i], reqs, mode)}
  OBVIOUS
<1>2. PICK kept : kept = Picked(skus, P)
  OBVIOUS
<1>3. kept \in Seq(E)
  BY <1>1, <1>2, PickedIs
<1>4. PICK all : all = CheapestFirst(kept)
  OBVIOUS
<1>5. all \in Seq(E)
  BY <1>3, <1>4, CheapestIs
<1>6. PICK m \in Nat : m = MaxResults
  BY DEF MaxResults
<1>7. Match(skus, reqs, mode) = AtMost(m, all)
  BY <1>1, <1>2, <1>4, <1>6 DEF Match, Keep
<1> QED
  BY <1>5, <1>7, AtMostIs

\* The SKUs searched are a list, and whether a discount is asked for does not
\* change them.
LEMMA SkusIs ==
    ASSUME NEW E, NEW skus \in Seq(E), \A e \in E : e.price \in Int, NEW reqs, NEW mode
    PROVE  \E n \in Nat : DOMAIN candidateSKUs(skus, reqs, mode) = 1..n
<1>1. PICK m : m = Match(skus, reqs, mode)
  OBVIOUS
<1>2. m \in Seq(E)
  BY <1>1, MatchIs
<1>3. DOMAIN Tokens(m) = DOMAIN m
  BY DEF Tokens
<1>4. DOMAIN <<reqs.sku>> = 1..1
  OBVIOUS
<1>5. DOMAIN m = 1..Len(m) /\ Len(m) \in Nat
  BY <1>2
<1>6. candidateSKUs(skus, reqs, mode) = <<reqs.sku>> \/ candidateSKUs(skus, reqs, mode) = Tokens(m)
  BY <1>1, Zenon DEF candidateSKUs
<1> QED
  BY <1>3, <1>4, <1>5, <1>6

\* Two requests that differ in the tier at most.
SameButTier(q, r) ==
    /\ q.sku = r.sku /\ q.minVram = r.minVram /\ q.minRam = r.minRam /\ q.gpus = r.gpus
    /\ q.arch = r.arch /\ q.scope = r.scope /\ q.minGbps = r.minGbps /\ q.disk = r.disk

\* The tier asked for does not change the SKUs searched.
LEMMA TierSkus ==
    ASSUME NEW skus, NEW q, NEW r, NEW mode, SameButTier(q, r)
    PROVE  candidateSKUs(skus, q, mode) = candidateSKUs(skus, r, mode)
<1>1. \A e : RowFits(e, q, mode) <=> RowFits(e, r, mode)
  BY Zenon DEF SameButTier, RowFits, satisfiesFabric
<1>2. {i \in DOMAIN skus : RowFits(skus[i], q, mode)} = {i \in DOMAIN skus : RowFits(skus[i], r, mode)}
  BY <1>1
<1>3. Match(skus, q, mode) = Match(skus, r, mode)
  <2>1. \A x : Match(skus, x, mode) = AtMost(MaxResults, CheapestFirst(Picked(skus, {i \in DOMAIN skus : RowFits(skus[i], x, mode)})))
    BY DEF Match, Keep
  <2> QED
    BY <1>2, <2>1
<1>4. q.sku = r.sku
  BY DEF SameButTier
<1> QED
  BY <1>3, <1>4, Zenon DEF candidateSKUs

\* What a host must meet to be an answer of the query.
HostMeets(o, token, reqs) ==
    /\ o.name = gpuNameForVast(token)
    /\ o.gpus = Cards(reqs.gpus)
    /\ o.disk >= (IF reqs.disk <= 0 THEN defaultDiskGB ELSE reqs.disk)
    /\ reqs.minRam > 0 => o.ram >= reqs.minRam * 1000
    /\ o.vram >= offerVRAMFloorMB(token, reqs)
    /\ offerVRAMCeilingMB(token) > 0 => o.vram <= offerVRAMCeilingMB(token)
    /\ fabricFilter(o, reqs)
    /\ o.good

\* Every answer of the query, cheapest first.
Hosts(market, token, reqs) ==
    CheapestFirst(Picked(market, {i \in DOMAIN market : HostMeets(market[i], token, reqs)}))

\* searchOffers is a page of them.
LEMMA SearchIsHosts ==
    ASSUME NEW market, NEW token, NEW reqs, NEW n
    PROVE  searchOffers(market, token, reqs, n) = AtMost(n, Hosts(market, token, reqs))
BY DEF searchOffers, Keep, Hosts, HostMeets

\* Nor the hosts found.
LEMMA TierHosts ==
    ASSUME NEW market, NEW token, NEW q, NEW r, SameButTier(q, r)
    PROVE  Hosts(market, token, q) = Hosts(market, token, r)
<1>1. \A o : HostMeets(o, token, q) <=> HostMeets(o, token, r)
  <2>1. \A o : fabricFilter(o, q) <=> fabricFilter(o, r)
    BY DEF SameButTier, fabricFilter
  <2>2. offerVRAMFloorMB(token, q) = offerVRAMFloorMB(token, r)
    BY DEF SameButTier, offerVRAMFloorMB
  <2>3. q.gpus = r.gpus /\ q.disk = r.disk /\ q.minRam = r.minRam
    BY DEF SameButTier
  <2>4. Cards(q.gpus) = Cards(r.gpus)
    BY <2>3, Zenon
  <2>5. (IF q.disk <= 0 THEN defaultDiskGB ELSE q.disk) = (IF r.disk <= 0 THEN defaultDiskGB ELSE r.disk)
    BY <2>3
  <2>6. \A o : (q.minRam > 0 => o.ram >= q.minRam * 1000) <=> (r.minRam > 0 => o.ram >= r.minRam * 1000)
    BY <2>3
  <2> QED
    BY <2>1, <2>2, <2>4, <2>5, <2>6 DEF HostMeets
<1>2. {i \in DOMAIN market : HostMeets(market[i], token, q)} = {i \in DOMAIN market : HostMeets(market[i], token, r)}
  BY <1>1
<1> QED
  BY <1>2 DEF Hosts

\* Every host found meets the query.
LEMMA HostsIs ==
    ASSUME NEW market \in Seq(VastHost), NEW token, NEW reqs
    PROVE  /\ Hosts(market, token, reqs) \in Seq(VastHost)
           /\ \A k \in DOMAIN Hosts(market, token, reqs) : HostMeets(Hosts(market, token, reqs)[k], token, reqs)
<1>1. PICK P : P = {i \in DOMAIN market : HostMeets(market[i], token, reqs)}
  OBVIOUS
<1>2. PICK kept : kept = Picked(market, P)
  OBVIOUS
<1>3. kept \in Seq(VastHost) /\ ToSet(kept) = {market[i] : i \in P}
  BY <1>1, <1>2, PickedIs
<1>4. \A e \in VastHost : e.price \in Int
  BY DEF VastHost
<1>5. PICK all : all = CheapestFirst(kept)
  OBVIOUS
<1>6. all \in Seq(VastHost) /\ ToSet(all) = ToSet(kept)
  BY <1>3, <1>4, <1>5, CheapestIs
<1>7. \A x \in ToSet(all) : HostMeets(x, token, reqs)
  BY <1>1, <1>3, <1>6
<1>8. \A k \in DOMAIN all : all[k] \in ToSet(all)
  BY DEF ToSet
<1>9. Hosts(market, token, reqs) = all
  BY <1>1, <1>2, <1>5 DEF Hosts
<1> QED
  BY <1>6, <1>7, <1>8, <1>9

\* A page of the query: hosts that meet it, the cheapest of all first, and one
\* at least when there is one.
LEMMA SearchIs ==
    ASSUME NEW market \in Seq(VastHost), NEW token, NEW reqs, NEW n \in Nat, n >= 1
    PROVE  /\ searchOffers(market, token, reqs, n) \in Seq(VastHost)
           /\ \A k \in DOMAIN searchOffers(market, token, reqs, n) : HostMeets(searchOffers(market, token, reqs, n)[k], token, reqs)
           /\ searchOffers(market, token, reqs, n) # <<>> <=> Hosts(market, token, reqs) # <<>>
           /\ Hosts(market, token, reqs) # <<>> =>
                  /\ 1 \in DOMAIN searchOffers(market, token, reqs, n)
                  /\ searchOffers(market, token, reqs, n)[1] = Hosts(market, token, reqs)[1]
<1>1. PICK h : h = Hosts(market, token, reqs)
  OBVIOUS
<1>2. h \in Seq(VastHost) /\ \A k \in DOMAIN h : HostMeets(h[k], token, reqs)
  BY <1>1, HostsIs
<1>3. PICK s : s = searchOffers(market, token, reqs, n)
  OBVIOUS
<1>4. s = AtMost(n, h)
  BY <1>1, <1>3, SearchIsHosts
<1>5. /\ s \in Seq(VastHost)
      /\ Len(s) = (IF Len(h) < n THEN Len(h) ELSE n)
      /\ \A k \in DOMAIN s : k \in DOMAIN h /\ s[k] = h[k]
  BY <1>2, <1>4, AtMostIs
<1>6. DOMAIN s = 1..Len(s) /\ Len(s) \in Nat /\ Len(h) \in Nat
  BY <1>2, <1>5
<1>7. (s # <<>> <=> Len(s) > 0) /\ (h # <<>> <=> Len(h) > 0)
  BY <1>2, <1>5
<1>8. \A k \in DOMAIN s : HostMeets(s[k], token, reqs)
  BY <1>2, <1>5
<1>9. s # <<>> <=> h # <<>>
  BY <1>5, <1>6, <1>7
<1>10. h # <<>> => 1 \in DOMAIN s /\ s[1] = h[1]
  BY <1>5, <1>6, <1>7
<1> QED
  BY <1>1, <1>3, <1>5, <1>8, <1>9, <1>10

\* The fields of a row.
LEMMA SkuIs ==
    ASSUME NEW t, NEW w, NEW v, NEW m, NEW f, NEW p
    PROVE  /\ sku(t, w, v, m, f, p).token = t /\ sku(t, w, v, m, f, p).wire = w /\ sku(t, w, v, m, f, p).vram = v
           /\ sku(t, w, v, m, f, p).max = m /\ sku(t, w, v, m, f, p).family = f /\ sku(t, w, v, m, f, p).price = p
<1>1. PICK none : none = ""
  OBVIOUS
<1>2. sku(t, w, v, m, f, p) = [token |-> t, wire |-> w, vram |-> v, max |-> m, family |-> f, price |-> p,
                               ram |-> 0, gpus |-> 0, arch |-> none]
  BY <1>1, Zenon DEF sku
<1> QED
  BY <1>2

\* A row of a catalog is found by its token.
LEMMA LookupIs ==
    ASSUME NEW E, NEW skus \in Seq(E), NEW k \in DOMAIN skus,
           \A j \in DOMAIN skus : skus[j].token = skus[k].token => j = k
    PROVE  LookupSKU(skus, skus[k].token) = skus[k]
<1>1. PICK P : P = {i \in DOMAIN skus : skus[i].token = skus[k].token}
  OBVIOUS
<1>2. P = {k}
  BY <1>1
<1>3. PICK found : found = Picked(skus, P)
  OBVIOUS
<1>4. found \in Seq(E) /\ Len(found) = Cardinality(P) /\ ToSet(found) = {skus[i] : i \in P}
  BY <1>1, <1>3, PickedIs
<1>5. Cardinality(P) = 1
  BY <1>2, FS_Singleton
<1>6. 1 \in DOMAIN found
  BY <1>4, <1>5
<1>7. found[1] \in ToSet(found)
  BY <1>6 DEF ToSet
<1>8. found[1] = skus[k]
  BY <1>2, <1>4, <1>7
<1>9. found # <<>>
  BY <1>6
<1>10. LookupSKU(skus, skus[k].token) = IF found = <<>> THEN sku(skus[k].token, "", 0, 0, "unlisted", 0) ELSE found[1]
  BY <1>1, <1>3, Zenon DEF LookupSKU, Keep
<1> QED
  BY <1>8, <1>9, <1>10, Zenon

\* The rows of Vast's catalog.
LEMMA VastRows ==
    /\ DOMAIN vastSkus = 1..4
    /\ vastSkus \in Seq({vastSkus[k] : k \in 1..4})
    /\ vastSkus[1].token = "a100-40" /\ vastSkus[1].wire = "a100" /\ vastSkus[1].vram = 40 /\ vastSkus[1].max = 40
    /\ vastSkus[2].token = "l40s" /\ vastSkus[2].wire = "l40s" /\ vastSkus[2].vram = 48 /\ vastSkus[2].max = 0
    /\ vastSkus[3].token = "a100" /\ vastSkus[3].wire = "a100" /\ vastSkus[3].vram = 80 /\ vastSkus[3].max = 0
    /\ vastSkus[4].token = "b300" /\ vastSkus[4].wire = "b300" /\ vastSkus[4].vram = 288 /\ vastSkus[4].max = 0
    /\ \A k \in 1..4 : vastSkus[k].price \in Int
<1>1. PICK a : a = sku("a100-40", "a100", 40, 40, "pcie", 1)
  OBVIOUS
<1>2. PICK b : b = sku("l40s", "l40s", 48, 0, "l40s", 2)
  OBVIOUS
<1>3. PICK c : c = sku("a100", "a100", 80, 0, "pcie", 3)
  OBVIOUS
<1>4. PICK d : d = sku("b300", "b300", 288, 0, "sxm", 5)
  OBVIOUS
<1>5. vastSkus = <<a, b, c, d>>
  BY <1>1, <1>2, <1>3, <1>4 DEF vastSkus
<1>6. /\ DOMAIN vastSkus = 1..4
      /\ vastSkus[1] = a /\ vastSkus[2] = b /\ vastSkus[3] = c /\ vastSkus[4] = d
  BY <1>5
<1>7. vastSkus \in Seq({vastSkus[k] : k \in 1..4})
  <2>1. PICK E : E = {vastSkus[k] : k \in 1..4}
    OBVIOUS
  <2>2. a \in E /\ b \in E /\ c \in E /\ d \in E
    BY <1>6, <2>1
  <2> QED
    BY <1>5, <2>1, <2>2
<1>8. a.token = "a100-40" /\ a.wire = "a100" /\ a.vram = 40 /\ a.max = 40 /\ a.price = 1
  BY <1>1, SkuIs
<1>9. b.token = "l40s" /\ b.wire = "l40s" /\ b.vram = 48 /\ b.max = 0 /\ b.price = 2
  BY <1>2, SkuIs
<1>10. c.token = "a100" /\ c.wire = "a100" /\ c.vram = 80 /\ c.max = 0 /\ c.price = 3
  BY <1>3, SkuIs
<1>11. d.token = "b300" /\ d.wire = "b300" /\ d.vram = 288 /\ d.max = 0 /\ d.price = 5
  BY <1>4, SkuIs
<1>12. \A k \in 1..4 : vastSkus[k] \in {a, b, c, d}
  BY <1>6
<1>13. \A k \in 1..4 : vastSkus[k].price \in Int
  BY <1>8, <1>9, <1>10, <1>11, <1>12
<1> QED
  BY <1>6, <1>7, <1>8, <1>9, <1>10, <1>11, <1>13

\* Each row is found by its token.
LEMMA VastLookup ==
    ASSUME NEW k \in 1..4
    PROVE  LookupSKU(vastSkus, vastSkus[k].token) = vastSkus[k]
<1>1. \A j \in DOMAIN vastSkus : vastSkus[j].token = vastSkus[k].token => j = k
  <2>1. \A j \in 1..4 : j = 1 \/ j = 2 \/ j = 3 \/ j = 4
    OBVIOUS
  <2> QED
    BY <2>1, VastRows
<1>2. PICK E : E = {vastSkus[j] : j \in 1..4}
  OBVIOUS
<1>3. vastSkus \in Seq(E) /\ k \in DOMAIN vastSkus
  BY <1>2, VastRows
<1> QED
  BY <1>1, <1>3, LookupIs

\* The SKUs Vast is searched for.
VastSearched(reqs) == candidateSKUs(vastSkus, reqs, "prefilter")

\* The page of the listing, and the candidates it gives.
VastPage(market, token, reqs) == searchOffers(market, token, reqs, candidateOfferLimit)

\* What Vast lists are the candidates of the pages searched.
LEMMA VastListed ==
    ASSUME NEW market \in Seq(VastHost), NEW reqs
    PROVE  /\ \E n \in Nat : DOMAIN VastSearched(reqs) = 1..n
           /\ \A i \in DOMAIN VastSearched(reqs) : \A k \in DOMAIN VastPage(market, VastSearched(reqs)[i], reqs) :
                  offerToCandidate(VastSearched(reqs)[i], VastPage(market, VastSearched(reqs)[i], reqs)[k], reqs)
                      \in ToSet(vastCandidates(market, reqs))
           /\ \A c \in ToSet(vastCandidates(market, reqs)) :
                  \E i \in DOMAIN VastSearched(reqs) : \E k \in DOMAIN VastPage(market, VastSearched(reqs)[i], reqs) :
                      c = offerToCandidate(VastSearched(reqs)[i], VastPage(market, VastSearched(reqs)[i], reqs)[k], reqs)
<1>1. PICK skus : skus = VastSearched(reqs)
  OBVIOUS
<1>2. PICK n \in Nat : DOMAIN skus = 1..n
  <2>1. PICK E : E = {vastSkus[k] : k \in 1..4}
    OBVIOUS
  <2>2. vastSkus \in Seq(E) /\ \A e \in E : e.price \in Int
    BY <2>1, VastRows
  <2> QED
    BY <1>1, <2>2, SkusIs DEF VastSearched
<1>3. PICK page : page = [i \in 1..n |-> VastPage(market, skus[i], reqs)]
  OBVIOUS
<1>4. \A i \in 1..n : page[i] \in Seq(VastHost)
  <2>1. PICK m \in Nat : m = candidateOfferLimit /\ m >= 1
    BY DEF candidateOfferLimit
  <2> SUFFICES ASSUME NEW i \in 1..n PROVE page[i] \in Seq(VastHost)
    OBVIOUS
  <2>2. searchOffers(market, skus[i], reqs, m) \in Seq(VastHost)
    BY <2>1, SearchIs
  <2> QED
    BY <1>3, <2>1, <2>2 DEF VastPage
<1>5. PICK E : E = {offerToCandidate(skus[p[1]], p[2], reqs) : p \in (1..n) \X VastHost}
  OBVIOUS
<1>6. \A e \in E : e.price \in Int
  <2>1. \A t : \A o \in VastHost : offerToCandidate(t, o, reqs).price \in Int
    BY DEF offerToCandidate, VastHost
  <2> QED
    BY <1>5, <2>1
<1>7. PICK ss : ss = [i \in 1..n |-> [k \in DOMAIN page[i] |-> offerToCandidate(skus[i], page[i][k], reqs)]]
  OBVIOUS
<1>8. \A i \in 1..n : ss[i] \in Seq(E)
  <2> SUFFICES ASSUME NEW i \in 1..n PROVE ss[i] \in Seq(E)
    OBVIOUS
  <2>1. PICK m \in Nat : DOMAIN page[i] = 1..m
    BY <1>4
  <2>2. \A k \in 1..m : page[i][k] \in VastHost
    BY <1>4, <2>1
  <2>3. \A k \in 1..m : offerToCandidate(skus[i], page[i][k], reqs) \in E
    <3> SUFFICES ASSUME NEW k \in 1..m PROVE offerToCandidate(skus[i], page[i][k], reqs) \in E
      OBVIOUS
    <3>1. PICK p : p = <<i, page[i][k]>>
      OBVIOUS
    <3>2. p \in (1..n) \X VastHost /\ p[1] = i /\ p[2] = page[i][k]
      BY <2>2, <3>1
    <3> QED
      BY <1>5, <3>2
  <2>4. ss[i] \in [1..m -> E]
    BY <1>7, <2>1, <2>3
  <2> QED
    BY <2>4, SeqIs
<1>9. ss \in Seq(Seq(E)) /\ DOMAIN ss = 1..n
  <2>1. ss \in [1..n -> Seq(E)]
    BY <1>7, <1>8
  <2> QED
    BY <1>2, <2>1, SeqIs
<1>10. PICK t : t = CheapestFirst(Joined(ss))
  OBVIOUS
<1>11. /\ \A i \in 1..n : \A k \in DOMAIN ss[i] : ss[i][k] \in ToSet(t)
       /\ \A x \in ToSet(t) : \E i \in 1..n : \E k \in DOMAIN ss[i] : x = ss[i][k]
  <2>1. /\ \A i \in DOMAIN ss : \A k \in DOMAIN ss[i] : ss[i][k] \in ToSet(CheapestFirst(Joined(ss)))
        /\ \A x \in ToSet(CheapestFirst(Joined(ss))) : \E i \in DOMAIN ss : \E k \in DOMAIN ss[i] : x = ss[i][k]
    BY <1>6, <1>9, MergedIs
  <2> QED
    BY <1>9, <1>10, <2>1
<1>12. \A i \in 1..n : DOMAIN ss[i] = DOMAIN page[i]
                       /\ \A k \in DOMAIN page[i] : ss[i][k] = offerToCandidate(skus[i], page[i][k], reqs)
  BY <1>7
<1>13. vastCandidates(market, reqs) = t
  <2>1. ss = [i \in DOMAIN skus |->
                 [k \in DOMAIN VastPage(market, skus[i], reqs) |-> offerToCandidate(skus[i], VastPage(market, skus[i], reqs)[k], reqs)]]
    <3>1. \A i \in 1..n : page[i] = VastPage(market, skus[i], reqs)
      BY <1>3
    <3> QED
      BY <1>2, <1>7, <3>1
  <2> QED
    BY <1>1, <1>10, <2>1 DEF vastCandidates, VastPage, VastSearched
<1>14. \A i \in 1..n : page[i] = VastPage(market, skus[i], reqs)
  BY <1>3
<1>15. \A i \in 1..n : \A k \in DOMAIN VastPage(market, skus[i], reqs) :
          offerToCandidate(skus[i], VastPage(market, skus[i], reqs)[k], reqs) \in ToSet(t)
  BY <1>11, <1>12, <1>14
<1>16. \A x \in ToSet(t) : \E i \in 1..n : \E k \in DOMAIN VastPage(market, skus[i], reqs) :
          x = offerToCandidate(skus[i], VastPage(market, skus[i], reqs)[k], reqs)
  <2> SUFFICES ASSUME NEW x \in ToSet(t)
               PROVE  \E i \in 1..n : \E k \in DOMAIN VastPage(market, skus[i], reqs) :
                          x = offerToCandidate(skus[i], VastPage(market, skus[i], reqs)[k], reqs)
    OBVIOUS
  <2>1. PICK i \in 1..n : \E k \in DOMAIN ss[i] : x = ss[i][k]
    BY <1>11
  <2>2. PICK k \in DOMAIN ss[i] : x = ss[i][k]
    BY <2>1
  <2>3. k \in DOMAIN page[i] /\ x = offerToCandidate(skus[i], page[i][k], reqs) /\ page[i] = VastPage(market, skus[i], reqs)
    BY <1>12, <1>14, <2>2
  <2> QED
    BY <2>3
<1> QED
  BY <1>1, <1>2, <1>13, <1>15, <1>16, ZenonT(40)

\* The places of the search that have an answer.
Answering(market, reqs) == {i \in DOMAIN VastSearched(reqs) : Hosts(market, VastSearched(reqs)[i], reqs) # <<>>}

\* What Spawn rents is of the least of them.
LEMMA PickedOffer ==
    ASSUME NEW market \in Seq(VastHost), NEW reqs
    PROVE  /\ Answering(market, reqs) = {} => findAnyOffer(market, reqs) = <<>>
           /\ Answering(market, reqs) # {} =>
                  \E w \in Answering(market, reqs) : findAnyOffer(market, reqs) = <<Hosts(market, VastSearched(reqs)[w], reqs)[1]>>
<1>0. PICK skus : skus = VastSearched(reqs)
  OBVIOUS
<1>a. PICK W : W = Answering(market, reqs)
  OBVIOUS
<1>b. W = {i \in DOMAIN skus : Hosts(market, skus[i], reqs) # <<>>}
  BY <1>0, <1>a DEF Answering
<1>1. PICK m \in Nat : m = spawnOfferLimit /\ m >= 1
  BY DEF spawnOfferLimit
<1>2. PICK found : found = [i \in DOMAIN skus |-> searchOffers(market, skus[i], reqs, spawnOfferLimit)]
  OBVIOUS
<1>3. \A i \in DOMAIN skus :
          /\ searchOffers(market, skus[i], reqs, m) \in Seq(VastHost)
          /\ searchOffers(market, skus[i], reqs, m) # <<>> <=> Hosts(market, skus[i], reqs) # <<>>
          /\ Hosts(market, skus[i], reqs) # <<>> => searchOffers(market, skus[i], reqs, m)[1] = Hosts(market, skus[i], reqs)[1]
  BY <1>1, SearchIs
<1>4. \A i \in DOMAIN skus : found[i] = searchOffers(market, skus[i], reqs, m)
  BY <1>1, <1>2
<1>5. {i \in DOMAIN skus : found[i] # <<>>} = W
  BY <1>b, <1>3, <1>4
<1>6. PICK least : least = CHOOSE i \in W : \A j \in W : i <= j
  OBVIOUS
<1>7. findAnyOffer(market, reqs) = IF W = {} THEN <<>> ELSE <<Head(found[least])>>
  <2>1. findAnyOffer(market, reqs) =
            IF {i \in DOMAIN skus : found[i] # <<>>} = {} THEN <<>>
            ELSE <<Head(found[CHOOSE i \in {i \in DOMAIN skus : found[i] # <<>>} :
                                 \A j \in {k \in DOMAIN skus : found[k] # <<>>} : i <= j])>>
    BY <1>0, <1>2 DEF findAnyOffer, VastSearched
  <2> QED
    BY <1>5, <1>6, <2>1
<1>8. ASSUME W # {} PROVE \E w \in W : <<Head(found[least])>> = <<Hosts(market, skus[w], reqs)[1]>>
  <2>1. PICK n \in Nat : DOMAIN skus = 1..n
    BY <1>0, VastListed
  <2>2. W \in SUBSET (1..n)
    BY <1>b, <2>1
  <2>3. (CHOOSE i \in W : \A j \in W : i <= j) \in W
    BY <1>8, <2>1, <2>2, LeastExists
  <2>4. least \in W /\ least \in DOMAIN skus /\ Hosts(market, skus[least], reqs) # <<>>
    BY <1>b, <1>6, <2>3
  <2>5. PICK s : s = found[least]
    OBVIOUS
  <2>6. s \in Seq(VastHost) /\ s[1] = Hosts(market, skus[least], reqs)[1]
    BY <1>3, <1>4, <2>4, <2>5
  <2>7. Head(s) = s[1]
    BY <2>6
  <2> QED
    BY <2>4, <2>5, <2>6, <2>7
<1> QED
  BY <1>0, <1>a, <1>7, <1>8, Zenon

\* The listing and the rental ask the same question.
LEMMA SpawnListed == OffersInput => SpawnedIsListed
<1>0. SUFFICES ASSUME part = "vast offers", input \in [market : Seq(VastHost), reqs : OfferQuery]
             PROVE  SpawnedIsListed
  BY DEF OffersInput, SpawnedIsListed
<1>1. PICK market \in Seq(VastHost) : market = input.market
  BY <1>0
<1>2. PICK reqs \in OfferQuery : reqs = input.reqs
  BY <1>0
<1>3. PICK q : q = [reqs EXCEPT !.reclaim = FALSE]
  OBVIOUS
<1>4. SameButTier(q, reqs) /\ q.reclaim = FALSE
  BY <1>3 DEF SameButTier, OfferQuery
<1>5. PICK skus : skus = VastSearched(reqs)
  OBVIOUS
<1>6. VastSearched(q) = skus
  BY <1>4, <1>5, TierSkus DEF VastSearched
<1>a. PICK W : W = Answering(market, reqs)
  OBVIOUS
<1>7. W = {i \in DOMAIN skus : Hosts(market, skus[i], reqs) # <<>>}
  BY <1>5, <1>a DEF Answering
<1>8. /\ W = {} => findAnyOffer(market, reqs) = <<>>
      /\ W # {} => \E w \in W : findAnyOffer(market, reqs) = <<Hosts(market, skus[w], reqs)[1]>>
  BY <1>1, <1>5, <1>a, PickedOffer, Zenon
<1>9. PICK m \in Nat : m = candidateOfferLimit /\ m >= 1
  BY DEF candidateOfferLimit
<1>10. PICK listed : listed = ToSet(vastCandidates(market, q))
  OBVIOUS
<1>11. \A i \in DOMAIN skus : Hosts(market, skus[i], q) = Hosts(market, skus[i], reqs)
  BY <1>4, TierHosts
<1>12. \A i \in DOMAIN skus :
          /\ VastPage(market, skus[i], q) \in Seq(VastHost)
          /\ VastPage(market, skus[i], q) # <<>> <=> i \in W
          /\ i \in W => /\ 1 \in DOMAIN VastPage(market, skus[i], q)
                        /\ VastPage(market, skus[i], q)[1] = Hosts(market, skus[i], reqs)[1]
  <2>1. \A token : VastPage(market, token, q) = searchOffers(market, token, q, m)
    BY <1>9 DEF VastPage
  <2>2. \A token :
          /\ searchOffers(market, token, q, m) \in Seq(VastHost)
          /\ searchOffers(market, token, q, m) # <<>> <=> Hosts(market, token, q) # <<>>
          /\ Hosts(market, token, q) # <<>> =>
                 /\ 1 \in DOMAIN searchOffers(market, token, q, m)
                 /\ searchOffers(market, token, q, m)[1] = Hosts(market, token, q)[1]
    BY <1>9, SearchIs
  <2> QED
    BY <1>7, <1>11, <2>1, <2>2
<1>13. \A i \in DOMAIN skus : \A k \in DOMAIN VastPage(market, skus[i], q) :
          offerToCandidate(skus[i], VastPage(market, skus[i], q)[k], q) \in listed
  BY <1>6, <1>10, VastListed
<1>14. \A c \in listed : \E i \in DOMAIN skus : \E k \in DOMAIN VastPage(market, skus[i], q) :
          c = offerToCandidate(skus[i], VastPage(market, skus[i], q)[k], q)
  BY <1>6, <1>10, VastListed
<1>15. ASSUME NEW w \in W
       PROVE  \E c \in listed : c.offer = Hosts(market, skus[w], reqs)[1].id /\ c.price = Hosts(market, skus[w], reqs)[1].price
  <2>1. w \in DOMAIN skus
    BY <1>7
  <2>2. PICK o : o = Hosts(market, skus[w], reqs)[1]
    OBVIOUS
  <2>3. offerToCandidate(skus[w], o, q) \in listed
    BY <1>12, <1>13, <2>1, <2>2
  <2>4. offerToCandidate(skus[w], o, q).offer = o.id /\ offerToCandidate(skus[w], o, q).price = o.price
    BY <1>4 DEF offerToCandidate
  <2> QED
    BY <2>2, <2>3, <2>4
<1>16. W = {} => listed = {}
  <2> SUFFICES ASSUME W = {}, NEW c \in listed PROVE FALSE
    OBVIOUS
  <2>1. PICK i \in DOMAIN skus : \E k \in DOMAIN VastPage(market, skus[i], q) :
            c = offerToCandidate(skus[i], VastPage(market, skus[i], q)[k], q)
    BY <1>14
  <2>2. VastPage(market, skus[i], q) = <<>>
    BY <1>12, <2>1
  <2>3. DOMAIN <<>> = {}
    OBVIOUS
  <2> QED
    BY <2>1, <2>2, <2>3
<1>17. PICK got : got = findAnyOffer(market, reqs)
  OBVIOUS
<1>18. got = <<>> <=> listed = {}
  <2>1. CASE W = {}
    BY <1>8, <1>16, <1>17, <2>1
  <2>2. CASE W # {}
    <3>1. PICK w \in W : got = <<Hosts(market, skus[w], reqs)[1]>>
      BY <1>8, <1>17, <2>2
    <3>2. listed # {}
      BY <1>15
    <3> QED
      BY <3>1, <3>2
  <2> QED
    BY <2>1, <2>2
<1>19. ASSUME got # <<>> PROVE \E c \in listed : c.offer = got[1].id /\ c.price = got[1].price
  <2>1. PICK w \in W : got = <<Hosts(market, skus[w], reqs)[1]>>
    BY <1>8, <1>17, <1>19
  <2>2. got[1] = Hosts(market, skus[w], reqs)[1]
    BY <2>1
  <2> QED
    BY <1>15, <2>1, <2>2, Zenon
<1> QED
  BY <1>1, <1>2, <1>3, <1>10, <1>17, <1>18, <1>19, Zenon DEF SpawnedIsListed

\* What a verdict on the fabric says of the reading it was made from.
LEMMA ResolvedIs ==
    ASSUME NEW f, NEW r \in Int
    PROVE  /\ r <= 0 => Resolve(f, r).scope # "intra" \/ Resolve(f, r).source # "measured"
           /\ r > 0 /\ Resolve(f, r).source # "unknown" => Resolve(f, r).gbps = r
BY DEF Resolve, UnknownFabric, NoReading

\* What is listed for a fabric has it.
LEMMA FabricListed == OffersInput => ListedFabricIsMeant
<1>0. SUFFICES ASSUME part = "vast offers", input \in [market : Seq(VastHost), reqs : OfferQuery],
                    NEW c \in ToSet(vastCandidates(input.market, input.reqs))
             PROVE  /\ input.reqs.scope = "none" => c.fabric.scope # "intra" \/ c.fabric.source # "measured"
                    /\ input.reqs.scope = "intra" =>
                           (c.fabric.source # "unknown" => c.fabric.gbps >= 8 /\ c.fabric.gbps > input.reqs.minGbps - 8)
  BY DEF OffersInput, ListedFabricIsMeant
<1>1. PICK market \in Seq(VastHost) : market = input.market
  BY <1>0
<1>2. PICK reqs \in OfferQuery : reqs = input.reqs
  BY <1>0
<1>3. PICK skus : skus = VastSearched(reqs)
  OBVIOUS
<1>4. PICK i \in DOMAIN skus : \E k \in DOMAIN VastPage(market, skus[i], reqs) :
          c = offerToCandidate(skus[i], VastPage(market, skus[i], reqs)[k], reqs)
  <2>1. c \in ToSet(vastCandidates(market, reqs))
    BY <1>0, <1>1, <1>2
  <2> QED
    BY <1>3, <2>1, VastListed
<1>5. PICK k \in DOMAIN VastPage(market, skus[i], reqs) : c = offerToCandidate(skus[i], VastPage(market, skus[i], reqs)[k], reqs)
  BY <1>4
<1>6. PICK o : o = VastPage(market, skus[i], reqs)[k]
  OBVIOUS
<1>7. o \in VastHost /\ HostMeets(o, skus[i], reqs)
  <2>1. PICK m \in Nat : m = candidateOfferLimit /\ m >= 1
    BY DEF candidateOfferLimit
  <2>2. PICK page : page = searchOffers(market, skus[i], reqs, m)
    OBVIOUS
  <2>3. page \in Seq(VastHost) /\ \A j \in DOMAIN page : HostMeets(page[j], skus[i], reqs)
    BY <2>1, <2>2, SearchIs
  <2>4. page = VastPage(market, skus[i], reqs)
    BY <2>1, <2>2 DEF VastPage
  <2>5. k \in DOMAIN page /\ o = page[k]
    BY <1>5, <1>6, <2>4
  <2> QED
    BY <2>3, <2>5
<1>8. fabricFilter(o, reqs)
  BY <1>7 DEF HostMeets
<1>9. PICK f : f = LookupSKU(vastSkus, skus[i]).family
  OBVIOUS
<1>10. PICK link \in Int : link = o.nvlink
  BY <1>7 DEF VastHost
<1>11. PICK r \in Int : r = 8 * link
  BY <1>10
<1>12. c.fabric = Resolve(f, r)
  BY <1>5, <1>6, <1>9, <1>10, <1>11 DEF offerToCandidate, vastFabric
<1>13. PICK least \in Int : least = reqs.minGbps
  BY DEF OfferQuery
<1>14. ASSUME reqs.scope = "none" PROVE c.fabric.scope # "intra" \/ c.fabric.source # "measured"
  <2>1. link <= 0
    BY <1>8, <1>10, <1>14 DEF fabricFilter
  <2>2. r <= 0
    BY <1>11, <2>1
  <2> QED
    BY <1>11, <1>12, <2>2, ResolvedIs
<1>15. ASSUME reqs.scope = "intra", c.fabric.source # "unknown"
       PROVE  c.fabric.gbps >= 8 /\ c.fabric.gbps > least - 8
  <2>1. link >= IF least \div 8 < 1 THEN 1 ELSE least \div 8
    BY <1>8, <1>10, <1>13, <1>15 DEF fabricFilter
  <2>2. r >= 8 /\ r > least - 8
    BY <1>10, <1>11, <1>13, <2>1
  <2>3. c.fabric.gbps = r
    BY <1>11, <1>12, <1>15, <2>2, ResolvedIs
  <2> QED
    BY <2>2, <2>3
<1> QED
  BY <1>2, <1>13, <1>14, <1>15

\* The memory band of the query for a card of the catalog.
LEMMA BandOf ==
    ASSUME NEW k \in 1..4, NEW q, q.minVram = 0
    PROVE  /\ gpuNameForVast(vastSkus[k].token) = vastSkus[k].wire
           /\ offerVRAMFloorMB(vastSkus[k].token, q) = (vastSkus[k].vram * 953 * 97) \div 100
           /\ offerVRAMCeilingMB(vastSkus[k].token) = vastSkus[k].max * 1100
<1>1. PICK row : row = vastSkus[k]
  OBVIOUS
<1>2. LookupSKU(vastSkus, row.token) = row
  BY <1>1, VastLookup
<1>3. row.vram \in Nat /\ row.wire \in {"a100", "l40s", "b300"}
  <2>1. k = 1 \/ k = 2 \/ k = 3 \/ k = 4
    OBVIOUS
  <2> QED
    BY <1>1, <2>1, VastRows
<1>4. row.wire # ""
  BY <1>3, Zenon
<1>5. gpuNameForVast(row.token) = row.wire
  BY <1>2, <1>4, Zenon DEF gpuNameForVast
<1>6. Larger(q.minVram, row.vram) = row.vram
  BY <1>3 DEF Larger
<1>7. offerVRAMFloorMB(row.token, q) = (row.vram * 953 * 97) \div 100
  BY <1>2, <1>6 DEF offerVRAMFloorMB
<1>8. offerVRAMCeilingMB(row.token) = row.max * 1100
  BY <1>2 DEF offerVRAMCeilingMB
<1> QED
  BY <1>1, <1>5, <1>7, <1>8

\* The name and the memory band a host is searched by.
InBand(o, token, q) ==
    /\ o.name = gpuNameForVast(token) /\ o.vram >= offerVRAMFloorMB(token, q)
    /\ offerVRAMCeilingMB(token) > 0 => o.vram <= offerVRAMCeilingMB(token)

\* A host of one card meets the band of that card, and of no other.
LEMMA BandMeansCard ==
    ASSUME NEW o, o.vram \in Int, ReportsItsCard(o), NEW k \in 1..4, NEW q, q.minVram = 0
    PROVE  InBand(o, vastSkus[k].token, q) <=> o.card = vastSkus[k].token
<1>1. PICK h \in DOMAIN vastSkus : /\ o.card = vastSkus[h].token /\ o.name = vastSkus[h].wire
                                  /\ o.vram >= vastSkus[h].vram * 930 /\ o.vram <= vastSkus[h].vram * 1100
  BY DEF ReportsItsCard
<1>2. InBand(o, vastSkus[k].token, q) <=>
          /\ o.name = vastSkus[k].wire
          /\ o.vram >= (vastSkus[k].vram * 953 * 97) \div 100
          /\ vastSkus[k].max * 1100 > 0 => o.vram <= vastSkus[k].max * 1100
  BY BandOf DEF InBand
<1>3. (k = 1 \/ k = 2 \/ k = 3 \/ k = 4) /\ (h = 1 \/ h = 2 \/ h = 3 \/ h = 4)
  <2>1. h \in 1..4
    BY <1>1, VastRows
  <2> QED
    BY <2>1
<1>4. PICK vram \in Int : vram = o.vram
  OBVIOUS
<1>5. PICK name : name = o.name
  OBVIOUS
<1>6. /\ h = 1 => o.card = "a100-40" /\ name = "a100" /\ vram >= 37200 /\ vram <= 44000
      /\ h = 2 => o.card = "l40s" /\ name = "l40s" /\ vram >= 44640 /\ vram <= 52800
      /\ h = 3 => o.card = "a100" /\ name = "a100" /\ vram >= 74400 /\ vram <= 88000
      /\ h = 4 => o.card = "b300" /\ name = "b300" /\ vram >= 267840 /\ vram <= 316800
  BY <1>1, <1>4, <1>5, VastRows, SMTT(40)
<1>8. CASE k = 1
  <2>1. InBand(o, vastSkus[k].token, q) <=> name = "a100" /\ vram >= 36976 /\ vram <= 44000
    BY <1>2, <1>4, <1>5, <1>8, VastRows
  <2> QED
    BY <1>3, <1>6, <1>8, <2>1, VastRows
<1>9. CASE k = 2
  <2>1. InBand(o, vastSkus[k].token, q) <=> name = "l40s" /\ vram >= 44371
    BY <1>2, <1>4, <1>5, <1>9, VastRows
  <2> QED
    BY <1>3, <1>6, <1>9, <2>1, VastRows
<1>10. CASE k = 3
  <2>1. InBand(o, vastSkus[k].token, q) <=> name = "a100" /\ vram >= 73952
    BY <1>2, <1>4, <1>5, <1>10, VastRows
  <2> QED
    BY <1>3, <1>6, <1>10, <2>1, VastRows
<1>11. CASE k = 4
  <2>1. InBand(o, vastSkus[k].token, q) <=> name = "b300" /\ vram >= 266230
    BY <1>2, <1>4, <1>5, <1>11, VastRows
  <2> QED
    BY <1>3, <1>6, <1>11, <2>1, VastRows
<1> QED
  BY <1>3, <1>8, <1>9, <1>10, <1>11

\* Naming a card gets that card.
LEMMA CardsMeant == OffersInput => NamedCardIsMeant
<1>0. SUFFICES ASSUME part = "vast offers", input \in [market : Seq(VastHost), reqs : OfferQuery],
                    \A o \in ToSet(input.market) : ReportsItsCard(o),
                    NEW token \in ToSet(Tokens(vastSkus)), NEW o \in ToSet(input.market)
             PROVE  InBand(o, token, [input.reqs EXCEPT !.minVram = 0]) <=> o.card = token
  BY Zenon DEF OffersInput, NamedCardIsMeant, InBand
<1>1. PICK q : q = [input.reqs EXCEPT !.minVram = 0]
  OBVIOUS
<1>2. q.minVram = 0
  BY <1>0, <1>1 DEF OfferQuery
<1>3. PICK k \in 1..4 : token = vastSkus[k].token
  <2>1. PICK k \in DOMAIN Tokens(vastSkus) : token = Tokens(vastSkus)[k]
    BY <1>0 DEF ToSet
  <2>2. k \in DOMAIN vastSkus /\ token = vastSkus[k].token
    BY <2>1 DEF Tokens
  <2> QED
    BY <2>2, VastRows
<1>a. PICK market \in Seq(VastHost) : market = input.market
  BY <1>0
<1>4. o \in VastHost
  <2>1. o \in ToSet(market)
    BY <1>0, <1>a
  <2>2. PICK j \in DOMAIN market : o = market[j]
    BY <2>1 DEF ToSet
  <2> QED
    BY <2>2
<1>5. o.vram \in Int /\ ReportsItsCard(o)
  BY <1>0, <1>4 DEF VastHost
<1>6. InBand(o, vastSkus[k].token, q) <=> o.card = vastSkus[k].token
  BY <1>2, <1>5, BandMeansCard
<1> QED
  BY <1>1, <1>3, <1>6, Zenon

\* A row of RunPod's listing: a type at a place.
RunPodRow(t, reqs, dc) ==
    [sku |-> t.id, region |-> dc.id, price |-> runpodPrice(t, reqs)[1], reclaimable |-> reqs.reclaim,
     stock |-> IF dc.stock # "" THEN dc.stock ELSE t.stock, arch |-> "", fabric |-> runpodFabric(t.id)]

\* A type that cannot be had at this width, or not at this tier.
Unavailable(t, reqs) == t.stock = "" \/ t.price = 0 \/ runpodPrice(t, reqs) = <<>>

\* The rows of a type, one for each place.
LEMMA RunPodRowsAre ==
    ASSUME NEW t, NEW reqs
    PROVE  runpodRows(t, reqs) = IF Unavailable(t, reqs) THEN <<>>
                                 ELSE [i \in DOMAIN runpodPlaces(t) |-> RunPodRow(t, reqs, runpodPlaces(t)[i])]
BY Zenon DEF runpodRows, Unavailable, RunPodRow

\* The fields of a row.
LEMMA RunPodRowIs ==
    ASSUME NEW t, NEW reqs, NEW dc
    PROVE  /\ RunPodRow(t, reqs, dc).sku = t.id
           /\ RunPodRow(t, reqs, dc).region = dc.id
           /\ RunPodRow(t, reqs, dc).price = runpodPrice(t, reqs)[1]
           /\ RunPodRow(t, reqs, dc).reclaimable = reqs.reclaim
BY Zenon DEF RunPodRow

\* The price of the tier asked for.
LEMMA RunPodPriceIs ==
    ASSUME NEW t \in RunPodType, NEW reqs, runpodPrice(t, reqs) # <<>>
    PROVE  /\ runpodPrice(t, reqs)[1] \in Int
           /\ reqs.reclaim => runpodPrice(t, reqs)[1] < t.price
<1>1. t.price \in Int /\ t.bid \in Int
  BY DEF RunPodType
<1>2. CASE ~reqs.reclaim
  <2>1. runpodPrice(t, reqs) = <<t.price>>
    BY <1>2, Zenon DEF runpodPrice
  <2>2. runpodPrice(t, reqs)[1] = t.price
    BY <2>1
  <2> QED
    BY <1>1, <1>2, <2>2
<1>3. CASE reqs.reclaim
  <2>1. runpodPrice(t, reqs) = IF t.bid = 0 \/ t.bid >= t.price THEN <<>> ELSE <<t.bid>>
    BY <1>3, Zenon DEF runpodPrice
  <2>2. ~(t.bid >= t.price) /\ runpodPrice(t, reqs) = <<t.bid>>
    BY <2>1, Zenon
  <2>3. runpodPrice(t, reqs)[1] = t.bid
    BY <2>2
  <2> QED
    BY <1>1, <2>2, <2>3
<1> QED
  BY <1>2, <1>3

\* The places that have a type.
Having(t) == {dc \in ToSet(t.places) : dc.available}

\* The places of a type: those that have it, or one without a name.
LEMMA RunPodPlacesAre ==
    ASSUME NEW t \in RunPodType
    PROVE  /\ \E n \in Nat : n >= 1 /\ DOMAIN runpodPlaces(t) = 1..n
           /\ Having(t) # {} => {runpodPlaces(t)[i] : i \in DOMAIN runpodPlaces(t)} = Having(t)
<1>1. PICK D : D = [id : STRING, stock : STRING, available : BOOLEAN]
  OBVIOUS
<1>2. t.places \in Seq(D)
  BY <1>1 DEF RunPodType
<1>3. PICK s \in Seq(D) : s = t.places
  BY <1>2
<1>4. PICK P : P = {i \in DOMAIN s : s[i].available}
  OBVIOUS
<1>5. PICK kept : kept = Picked(s, P)
  OBVIOUS
<1>6. kept \in Seq(D) /\ ToSet(kept) = {s[i] : i \in P}
  <2>1. P \in SUBSET (DOMAIN s)
    BY <1>4, Zenon
  <2> QED
    BY <1>5, <2>1, PickedIs
<1>7. datacentersByType(t) = kept
  BY <1>3, <1>4, <1>5, Zenon DEF datacentersByType, Keep
<1>8. {s[i] : i \in P} = Having(t)
  BY <1>3, <1>4, Zenon DEF Having, ToSet
<1>9. PICK nowhere : nowhere = [id |-> "", stock |-> "", available |-> TRUE]
  OBVIOUS
<1>10. runpodPlaces(t) = IF kept = <<>> THEN <<nowhere>> ELSE kept
  BY <1>7, <1>9, Zenon DEF runpodPlaces
<1>11. DOMAIN kept = 1..Len(kept) /\ Len(kept) \in Nat /\ (kept # <<>> => Len(kept) >= 1)
  BY <1>6
<1>12. DOMAIN <<nowhere>> = 1..1
  OBVIOUS
<1>13. \E n \in Nat : n >= 1 /\ DOMAIN runpodPlaces(t) = 1..n
  <2>1. CASE kept = <<>>
    <3>1. DOMAIN runpodPlaces(t) = 1..1
      BY <1>10, <1>12, <2>1
    <3> QED
      BY <3>1
  <2>2. CASE kept # <<>>
    <3>1. DOMAIN runpodPlaces(t) = 1..Len(kept)
      BY <1>10, <1>11, <2>2
    <3> QED
      BY <1>11, <2>2, <3>1
  <2> QED
    BY <2>1, <2>2
<1>14. ASSUME Having(t) # {} PROVE {runpodPlaces(t)[i] : i \in DOMAIN runpodPlaces(t)} = Having(t)
  <2>1. ToSet(kept) # {}
    BY <1>6, <1>8, <1>14
  <2>2. kept # <<>>
    <3>1. ToSet(<<>>) = {}
      BY DEF ToSet
    <3> QED
      BY <2>1, <3>1
  <2>3. runpodPlaces(t) = kept
    BY <1>10, <2>2
  <2>4. ToSet(kept) = {kept[i] : i \in DOMAIN kept}
    BY DEF ToSet
  <2> QED
    BY <1>6, <1>8, <2>3, <2>4
<1> QED
  BY <1>13, <1>14

\* What RunPod lists are the rows of the types eligible.
LEMMA RunPodListed ==
    ASSUME NEW types \in Seq(RunPodType), NEW reqs
    PROVE  /\ \A t \in ToSet(types) : t.id \in runpodEligible(reqs) =>
                  \A k \in DOMAIN runpodRows(t, reqs) : runpodRows(t, reqs)[k] \in ToSet(runpodCandidates(types, reqs))
           /\ \A c \in ToSet(runpodCandidates(types, reqs)) :
                  \E t \in ToSet(types) : t.id \in runpodEligible(reqs) /\ \E k \in DOMAIN runpodRows(t, reqs) : c = runpodRows(t, reqs)[k]
<1>1. PICK P : P = {i \in DOMAIN types : types[i].id \in runpodEligible(reqs)}
  OBVIOUS
<1>2. PICK offered : offered = Picked(types, P)
  OBVIOUS
<1>3. offered \in Seq(RunPodType) /\ ToSet(offered) = {types[i] : i \in P}
  BY <1>1, <1>2, PickedIs
<1>4. PICK E : E = UNION {{runpodRows(t, reqs)[k] : k \in DOMAIN runpodRows(t, reqs)} : t \in RunPodType}
  OBVIOUS
<1>5. ASSUME NEW t \in RunPodType PROVE runpodRows(t, reqs) \in Seq(E)
  <2>1. PICK rows : rows = runpodRows(t, reqs)
    OBVIOUS
  <2>2. PICK n \in Nat : DOMAIN runpodPlaces(t) = 1..n
    BY <1>5, RunPodPlacesAre
  <2>3. rows = IF Unavailable(t, reqs) THEN <<>> ELSE [i \in DOMAIN runpodPlaces(t) |-> RunPodRow(t, reqs, runpodPlaces(t)[i])]
    BY <2>1, RunPodRowsAre
  <2>4. \A k \in DOMAIN rows : rows[k] \in E
    <3>1. PICK T : T = {runpodRows(t, reqs)[k] : k \in DOMAIN runpodRows(t, reqs)}
      OBVIOUS
    <3>2. \A k \in DOMAIN rows : rows[k] \in T
      BY <2>1, <3>1
    <3>3. T \in {{runpodRows(u, reqs)[k] : k \in DOMAIN runpodRows(u, reqs)} : u \in RunPodType}
      BY <1>5, <3>1, Zenon
    <3> QED
      BY <1>4, <3>2, <3>3, Zenon
  <2>5. CASE Unavailable(t, reqs)
    BY <2>1, <2>3, <2>5
  <2>6. CASE ~Unavailable(t, reqs)
    <3>1. rows = [i \in 1..n |-> RunPodRow(t, reqs, runpodPlaces(t)[i])]
      BY <2>2, <2>3, <2>6
    <3>2. rows \in [1..n -> E]
      BY <2>4, <3>1
    <3> QED
      BY <2>1, <2>2, <3>2, SeqIs
  <2> QED
    BY <2>5, <2>6
<1>6. \A e \in E : e.price \in Int
  <2> SUFFICES ASSUME NEW e \in E PROVE e.price \in Int
    OBVIOUS
  <2>1. PICK t \in RunPodType : e \in {runpodRows(t, reqs)[k] : k \in DOMAIN runpodRows(t, reqs)}
    BY <1>4, Zenon
  <2>2. PICK k \in DOMAIN runpodRows(t, reqs) : e = runpodRows(t, reqs)[k]
    BY <2>1
  <2>3. ~Unavailable(t, reqs)
    <3> SUFFICES ASSUME Unavailable(t, reqs) PROVE FALSE
      OBVIOUS
    <3>1. runpodRows(t, reqs) = <<>>
      BY RunPodRowsAre, Zenon
    <3> QED
      BY <2>2, <3>1
  <2>4. runpodRows(t, reqs) = [i \in DOMAIN runpodPlaces(t) |-> RunPodRow(t, reqs, runpodPlaces(t)[i])]
    BY <2>3, RunPodRowsAre
  <2>5. e = RunPodRow(t, reqs, runpodPlaces(t)[k])
    BY <2>2, <2>4
  <2>6. runpodPrice(t, reqs) # <<>>
    BY <2>3 DEF Unavailable
  <2>7. e.price = runpodPrice(t, reqs)[1]
    BY <2>5, RunPodRowIs
  <2> QED
    BY <2>1, <2>6, <2>7, RunPodPriceIs
<1>7. PICK ss : ss = [i \in DOMAIN offered |-> runpodRows(offered[i], reqs)]
  OBVIOUS
<1>8. ss \in Seq(Seq(E)) /\ DOMAIN ss = DOMAIN offered
  <2>1. PICK n \in Nat : n = Len(offered) /\ DOMAIN offered = 1..n
    BY <1>3
  <2>2. \A i \in 1..n : offered[i] \in RunPodType
    BY <1>3, <2>1
  <2>3. ss \in [1..n -> Seq(E)]
    BY <1>5, <1>7, <2>1, <2>2
  <2> QED
    BY <2>1, <2>3, SeqIs
<1>9. PICK listed : listed = ToSet(CheapestFirst(Joined(ss)))
  OBVIOUS
<1>10. /\ \A i \in DOMAIN ss : \A k \in DOMAIN ss[i] : ss[i][k] \in listed
       /\ \A x \in listed : \E i \in DOMAIN ss : \E k \in DOMAIN ss[i] : x = ss[i][k]
  BY <1>6, <1>8, <1>9, MergedIs
<1>11. ToSet(runpodCandidates(types, reqs)) = listed
  BY <1>1, <1>2, <1>7, <1>9, Zenon DEF runpodCandidates, Keep
<1>12. ASSUME NEW t \in ToSet(types), t.id \in runpodEligible(reqs)
       PROVE  \A k \in DOMAIN runpodRows(t, reqs) : runpodRows(t, reqs)[k] \in listed
  <2>1. t \in {types[i] : i \in P}
    BY <1>1, <1>12 DEF ToSet
  <2>2. PICK i \in DOMAIN offered : t = offered[i]
    BY <1>3, <2>1 DEF ToSet
  <2>3. ss[i] = runpodRows(t, reqs)
    BY <1>7, <2>2
  <2> QED
    BY <1>8, <1>10, <2>2, <2>3
<1>13. ASSUME NEW c \in listed
       PROVE  \E t \in ToSet(types) : t.id \in runpodEligible(reqs) /\ \E k \in DOMAIN runpodRows(t, reqs) : c = runpodRows(t, reqs)[k]
  <2>1. PICK i \in DOMAIN ss : \E k \in DOMAIN ss[i] : c = ss[i][k]
    BY <1>10
  <2>2. PICK t : t = offered[i]
    OBVIOUS
  <2>3. ss[i] = runpodRows(t, reqs)
    BY <1>7, <1>8, <2>1, <2>2
  <2>4. t \in ToSet(offered)
    BY <1>8, <2>1, <2>2 DEF ToSet
  <2>5. t \in ToSet(types) /\ t.id \in runpodEligible(reqs)
    BY <1>1, <1>3, <2>4 DEF ToSet
  <2> QED
    BY <2>1, <2>3, <2>5
<1> QED
  BY <1>11, <1>12, <1>13

\* A row listed for a type is a row of that type at one of its places.
LEMMA RunPodRowOf ==
    ASSUME NEW t, NEW reqs, NEW k \in DOMAIN runpodRows(t, reqs)
    PROVE  /\ ~Unavailable(t, reqs)
           /\ k \in DOMAIN runpodPlaces(t)
           /\ runpodRows(t, reqs)[k] = RunPodRow(t, reqs, runpodPlaces(t)[k])
<1>1. ~Unavailable(t, reqs)
  <2> SUFFICES ASSUME Unavailable(t, reqs) PROVE FALSE
    OBVIOUS
  <2>1. runpodRows(t, reqs) = <<>>
    BY RunPodRowsAre, Zenon
  <2> QED
    BY <2>1
<1>2. runpodRows(t, reqs) = [i \in DOMAIN runpodPlaces(t) |-> RunPodRow(t, reqs, runpodPlaces(t)[i])]
  BY <1>1, RunPodRowsAre
<1> QED
  BY <1>1, <1>2

\* A reclaimable rental is a discount.
LEMMA Discounted == OffersInput => ReclaimIsADiscount
<1>0. SUFFICES ASSUME part = "runpod offers", input.reqs.reclaim, input.types \in Seq(RunPodType),
                      \A t, u \in ToSet(input.types) : t.id = u.id => t = u
               PROVE  ReclaimIsADiscount
  BY Zenon DEF OffersInput, ReclaimIsADiscount
<1>1. PICK types \in Seq(RunPodType) : types = input.types
  BY <1>0
<1>2. PICK reqs : reqs = input.reqs
  OBVIOUS
<1>3. reqs.reclaim
  BY <1>0, <1>2, Zenon
<1>4. \A t, u \in ToSet(types) : t.id = u.id => t = u
  BY <1>0, <1>1, Zenon
<1>5. ASSUME NEW c \in ToSet(runpodCandidates(types, reqs)), NEW t \in ToSet(types), t.id = c.sku
      PROVE  c.reclaimable /\ c.price < t.price
  <2>1. PICK u \in ToSet(types) : \E k \in DOMAIN runpodRows(u, reqs) : c = runpodRows(u, reqs)[k]
    BY <1>5, RunPodListed
  <2>2. PICK k \in DOMAIN runpodRows(u, reqs) : c = runpodRows(u, reqs)[k]
    BY <2>1
  <2>3. ~Unavailable(u, reqs) /\ c = RunPodRow(u, reqs, runpodPlaces(u)[k])
    BY <2>2, RunPodRowOf
  <2>4. c.sku = u.id /\ c.price = runpodPrice(u, reqs)[1] /\ c.reclaimable = reqs.reclaim
    BY <2>3, RunPodRowIs
  <2>5. u = t
    BY <1>4, <1>5, <2>1, <2>4, Zenon
  <2>6. PICK j \in DOMAIN types : u = types[j]
    BY <2>1 DEF ToSet
  <2>7. u \in RunPodType
    BY <2>6
  <2>8. runpodPrice(u, reqs) # <<>>
    BY <2>3, Zenon DEF Unavailable
  <2>9. runpodPrice(u, reqs)[1] < u.price
    BY <1>3, <2>7, <2>8, RunPodPriceIs, Zenon
  <2> QED
    BY <1>3, <2>4, <2>5, <2>9, Zenon
<1>6. lambdaCandidates(input.shapes, reqs) = <<>>
  BY <1>3, Zenon DEF lambdaCandidates
<1> QED
  BY <1>1, <1>2, <1>5, <1>6, Zenon DEF ReclaimIsADiscount

\* A type RunPod can provide is listed at each place that has it.
LEMMA TypesListed == OffersInput => EveryTypeIsListed
<1>0. SUFFICES ASSUME part = "runpod offers", ~input.reqs.reclaim, input.types \in Seq(RunPodType),
                      \A t, u \in ToSet(input.types) : t.id = u.id => t = u
               PROVE  EveryTypeIsListed
  BY Zenon DEF OffersInput, EveryTypeIsListed
<1>1. PICK types \in Seq(RunPodType) : types = input.types
  BY <1>0
<1>2. PICK reqs : reqs = input.reqs
  OBVIOUS
<1>3. ~reqs.reclaim
  BY <1>0, <1>2, Zenon
<1>4. \A t, u \in ToSet(types) : t.id = u.id => t = u
  BY <1>0, <1>1, Zenon
<1>5. PICK listed : listed = ToSet(runpodCandidates(types, reqs))
  OBVIOUS
<1>6. ASSUME NEW t \in ToSet(types), t.id \in runpodEligible(reqs), t.stock # "", t.price > 0
      PROVE  /\ {c.region : c \in {d \in listed : d.sku = t.id}} # {}
             /\ Having(t) # {} => {c.region : c \in {d \in listed : d.sku = t.id}} = {dc.id : dc \in Having(t)}
  <2>1. PICK j \in DOMAIN types : t = types[j]
    BY DEF ToSet
  <2>2. t \in RunPodType
    BY <2>1
  <2>3. PICK price \in Int : price = t.price /\ price # 0
    <3>1. t.price \in Int
      BY <2>2 DEF RunPodType
    <3>2. t.price > 0
      BY <1>6, Zenon
    <3> QED
      BY <3>1, <3>2
  <2>4. runpodPrice(t, reqs) # <<>>
    <3>1. runpodPrice(t, reqs) = <<t.price>>
      BY <1>3, Zenon DEF runpodPrice
    <3> QED
      BY <3>1
  <2>5. ~Unavailable(t, reqs)
    BY <1>6, <2>3, <2>4, Zenon DEF Unavailable
  <2>6. PICK places : places = runpodPlaces(t)
    OBVIOUS
  <2>7. runpodRows(t, reqs) = [i \in DOMAIN places |-> RunPodRow(t, reqs, places[i])]
    BY <2>5, <2>6, RunPodRowsAre, Zenon
  <2>8. \A i \in DOMAIN places : RunPodRow(t, reqs, places[i]) \in listed
    <3>1. \A k \in DOMAIN runpodRows(t, reqs) : runpodRows(t, reqs)[k] \in listed
      BY <1>5, <1>6, RunPodListed, Zenon
    <3> QED
      BY <2>7, <3>1
  <2>9. \A i \in DOMAIN places : RunPodRow(t, reqs, places[i]).sku = t.id /\ RunPodRow(t, reqs, places[i]).region = places[i].id
    BY RunPodRowIs
  <2>10. ASSUME NEW c \in listed, c.sku = t.id PROVE \E i \in DOMAIN places : c.region = places[i].id
    <3>1. PICK u \in ToSet(types) : \E k \in DOMAIN runpodRows(u, reqs) : c = runpodRows(u, reqs)[k]
      BY <1>5, <2>10, RunPodListed, Zenon
    <3>2. PICK k \in DOMAIN runpodRows(u, reqs) : c = runpodRows(u, reqs)[k]
      BY <3>1
    <3>3. k \in DOMAIN runpodPlaces(u) /\ c = RunPodRow(u, reqs, runpodPlaces(u)[k])
      BY <3>2, RunPodRowOf
    <3>4. c.sku = u.id /\ c.region = runpodPlaces(u)[k].id
      BY <3>3, RunPodRowIs
    <3>5. u = t
      BY <1>4, <1>6, <2>10, <3>1, <3>4, Zenon
    <3> QED
      BY <2>6, <3>3, <3>4, <3>5, Zenon
  <2>11. PICK at : at = {c.region : c \in {d \in listed : d.sku = t.id}}
    OBVIOUS
  <2>12. at = {places[i].id : i \in DOMAIN places}
    BY <2>8, <2>9, <2>10, <2>11
  <2>13. 1 \in DOMAIN places
    <3>1. PICK n \in Nat : n >= 1 /\ DOMAIN places = 1..n
      BY <2>2, <2>6, RunPodPlacesAre, Zenon
    <3> QED
      BY <3>1
  <2>14. at # {}
    BY <2>12, <2>13
  <2>15. ASSUME Having(t) # {} PROVE at = {dc.id : dc \in Having(t)}
    <3>1. {places[i] : i \in DOMAIN places} = Having(t)
      BY <2>2, <2>6, <2>15, RunPodPlacesAre, Zenon
    <3> QED
      BY <2>12, <3>1
  <2> QED
    BY <2>11, <2>14, <2>15, Zenon
<1> QED
  BY <1>1, <1>2, <1>5, <1>6, Zenon DEF EveryTypeIsListed, Having

\* The offers listed are the offers rented.
THEOREM OffersCorrect == OffersInput => OffersSound
BY SpawnListed, CardsMeant, FabricListed, Discounted, TypesListed DEF OffersSound

-----------------------------------------------------------------------------
(***************************************************************************)
(* The router's front door.                                                *)
(***************************************************************************)

\* A finite set of deployments has a newest one.
LEMMA NewestExists ==
    ASSUME NEW D, IsFiniteSet(D), D # {}, \A d \in D : d.created \in Int
    PROVE  \E d \in D : \A e \in D : e.created <= d.created
<1> DEFINE T == {d.created : d \in D}
           f == [d \in D |-> d.created]
           n == Cardinality(T)
           L == Listed(T, Ascending(T))
<1>1. f \in Surjection(D, T)
  BY DEF Surjection
<1>2. IsFiniteSet(T)
  BY <1>1, FS_Surjection
<1>3. T \in SUBSET Int /\ T # {}
  OBVIOUS
<1> HIDE DEF T
<1>4. /\ n \in Nat
      /\ L \in [1..n -> T]
      /\ \A x \in T : \E k \in 1..n : L[k] = x
      /\ \A j, k \in 1..n : j < k => <<L[j], L[k]>> \in Ascending(T)
  BY <1>2, <1>3, AscendingOrder, ListedOK
<1> HIDE DEF n, L
<1>5. \A j, k \in 1..n : j < k => L[j] < L[k]
  BY <1>4 DEF Ascending
<1>6. n \in 1..n
  <2>1. PICK x \in T : TRUE
    BY <1>3
  <2>2. PICK k \in 1..n : L[k] = x
    BY <1>4
  <2> QED
    BY <1>4, <2>2
<1>7. \A x \in T : x <= L[n]
  <2> SUFFICES ASSUME NEW x \in T PROVE x <= L[n]
    OBVIOUS
  <2>1. PICK k \in 1..n : L[k] = x
    BY <1>4
  <2>2. k = n \/ k < n
    BY <1>4
  <2>3. L[n] \in Int /\ x \in Int
    BY <1>3, <1>4, <1>6
  <2> QED
    BY <1>5, <1>6, <2>1, <2>2, <2>3
<1>8. L[n] \in T
  BY <1>4, <1>6
<1>9. PICK d \in D : d.created = L[n]
  BY <1>8 DEF T
<1>10. \A e \in D : e.created \in T
  BY DEF T
<1> QED
  BY <1>7, <1>9, <1>10

\* The newest of a set of deployments.
Newest(D) == CHOOSE d \in D : \A e \in D : e.created <= d.created

\* It is one of them.
LEMMA NewestIn ==
    ASSUME NEW D, IsFiniteSet(D), D # {}, \A d \in D : d.created \in Int
    PROVE  Newest(D) \in D
BY NewestExists DEF Newest

\* The deployments of a model.
ModelOf(deps, m) == {d \in deps : d.model = m}

\* Those of them that run.
RunningOf(deps, m) == {d \in ModelOf(deps, m) : d.state = "RUNNING"}

\* The deployment picked is the newest that runs, or the newest.
LEMMA PickIs ==
    ASSUME NEW deps, NEW m
    PROVE  pickDeploymentForModel(deps, m) =
               IF ModelOf(deps, m) = {} THEN <<>>
               ELSE IF RunningOf(deps, m) # {} THEN <<Newest(RunningOf(deps, m))>> ELSE <<Newest(ModelOf(deps, m))>>
BY Zenon DEF pickDeploymentForModel, ModelOf, RunningOf, Newest

\* What ModelIsServed says of one request and one set of deployments.
ServedFor(req, deps) ==
    LET flat   == serveFlat(req, deps)
        serves == {d \in deps : d.model = req.model /\ statusOf(d) = 200}
        all    == {d \in deps : d.model = req.model /\ d.state = "RUNNING"}
    IN  /\ req.size <= FlatMaxBody /\ req.daemon = "ok" /\ serves # {} /\ serves = all
               => flat.status = 200
        /\ flat.to # "" => serveDeployID([req EXCEPT !.id = flat.to], deps) = flat

\* ModelIsServed holds of each request.
LEMMA ServesFor ==
    ASSUME NEW req \in [size : Int, model : STRING, daemon : STRING, id : STRING], NEW deps,
           IsFiniteSet(deps), \A d \in deps : d \in DeploymentRow, \A d, e \in deps : d.id = e.id => d = e
    PROVE  ServedFor(req, deps)
<1>1. PICK none : none = ""
  OBVIOUS
<1>4. \A d \in deps : d.created \in Int /\ d.model # none /\ d.id # none
  <2>1. ASSUME NEW d \in deps PROVE d.created \in Int /\ d.model \notin {none} /\ d.id \notin {none}
    <3>1. d \in [id : STRING \ {none}, model : STRING \ {none}, created : Int, endpoint : BOOLEAN, state : STRING]
      BY <1>1, Zenon DEF DeploymentRow
    <3> QED
      BY <3>1
  <2> QED
    BY <2>1
<1>5. PICK flat : flat = serveFlat(req, deps)
  OBVIOUS
<1>6. PICK dep : dep = pickDeploymentForModel(deps, req.model)
  OBVIOUS
<1>7. flat = IF req.size > FlatMaxBody THEN [status |-> 413, to |-> none]
             ELSE IF req.model = none THEN [status |-> 400, to |-> none]
             ELSE IF req.daemon # "ok" THEN [status |-> 502, to |-> none]
             ELSE IF dep = <<>> THEN [status |-> 404, to |-> none]
             ELSE [status |-> statusOf(dep[1]), to |-> dep[1].id]
  BY <1>1, <1>5, <1>6, ZenonT(40) DEF serveFlat
<1>8. /\ IsFiniteSet(ModelOf(deps, req.model)) /\ IsFiniteSet(RunningOf(deps, req.model))
      /\ \A d \in ModelOf(deps, req.model) : d.created \in Int
      /\ RunningOf(deps, req.model) \subseteq ModelOf(deps, req.model)
      /\ ModelOf(deps, req.model) \subseteq deps
  <2>1. ModelOf(deps, req.model) \in SUBSET deps /\ RunningOf(deps, req.model) \in SUBSET deps
    BY DEF ModelOf, RunningOf
  <2>3. IsFiniteSet(ModelOf(deps, req.model)) /\ IsFiniteSet(RunningOf(deps, req.model))
    BY <2>1, FS_Subset
  <2> QED
    BY <1>4, <2>1, <2>3 DEF RunningOf
<1>9. /\ ModelOf(deps, req.model) = {} => dep = <<>>
      /\ RunningOf(deps, req.model) # {} => \E d \in RunningOf(deps, req.model) : dep = <<d>>
      /\ ModelOf(deps, req.model) # {} => \E d \in ModelOf(deps, req.model) : dep = <<d>>
  <2>1. RunningOf(deps, req.model) # {} => Newest(RunningOf(deps, req.model)) \in RunningOf(deps, req.model)
    BY <1>8, NewestIn
  <2>2. ModelOf(deps, req.model) # {} => Newest(ModelOf(deps, req.model)) \in ModelOf(deps, req.model)
    BY <1>8, NewestIn
  <2>3. dep = IF ModelOf(deps, req.model) = {} THEN <<>>
              ELSE IF RunningOf(deps, req.model) # {} THEN <<Newest(RunningOf(deps, req.model))>> ELSE <<Newest(ModelOf(deps, req.model))>>
    BY <1>6, PickIs
  <2> QED
    BY <1>8, <2>1, <2>2, <2>3
<1>10. ASSUME NEW serves, serves = {d \in deps : d.model = req.model /\ statusOf(d) = 200},
              req.size <= FlatMaxBody, req.daemon = "ok", serves # {},
              serves = {d \in deps : d.model = req.model /\ d.state = "RUNNING"}
       PROVE  flat.status = 200
  <2>1. serves = RunningOf(deps, req.model)
    BY <1>10 DEF RunningOf, ModelOf
  <2>2. PICK d \in RunningOf(deps, req.model) : dep = <<d>>
    BY <1>9, <1>10, <2>1
  <2>3. statusOf(d) = 200 /\ d \in deps /\ d.model = req.model
    BY <1>10, <2>1
  <2>4. req.model # none
    BY <1>4, <2>3
  <2>5. ~(req.size > FlatMaxBody)
    BY <1>10 DEF FlatMaxBody
  <2>6. dep # <<>> /\ dep[1] = d
    BY <2>2
  <2>7. flat = [status |-> statusOf(dep[1]), to |-> dep[1].id]
    BY <1>7, <1>10, <2>4, <2>5, <2>6, Zenon
  <2> QED
    BY <2>3, <2>6, <2>7
<1>11. ASSUME flat.to # none PROVE serveDeployID([req EXCEPT !.id = flat.to], deps) = flat
  <2>1. req.daemon = "ok" /\ dep # <<>> /\ flat = [status |-> statusOf(dep[1]), to |-> dep[1].id]
    BY <1>7, <1>11
  <2>2. PICK d \in ModelOf(deps, req.model) : dep = <<d>>
    BY <1>9, <2>1
  <2>3. d \in deps /\ dep[1] = d /\ flat = [status |-> statusOf(d), to |-> d.id]
    BY <1>8, <2>1, <2>2
  <2>4. PICK r : r = [req EXCEPT !.id = flat.to]
    OBVIOUS
  <2>5. r.daemon = "ok" /\ r.id = d.id
    <3>2. flat.to = d.id
      BY <2>3
    <3>3. r.daemon = req.daemon /\ r.id = flat.to
      BY <2>4
    <3> QED
      BY <2>1, <3>2, <3>3
  <2>6. {x \in deps : x.id = r.id} = {d}
    BY <2>3, <2>5
  <2>7. (CHOOSE x \in {d} : TRUE) = d
    OBVIOUS
  <2>8. serveDeployID(r, deps) = [status |-> statusOf(CHOOSE x \in {d} : TRUE), to |-> r.id]
    BY <2>5, <2>6, Zenon DEF serveDeployID
  <2> QED
    BY <2>3, <2>4, <2>5, <2>7, <2>8
<1>12. flat.to # "" => serveDeployID([req EXCEPT !.id = flat.to], deps) = flat
  BY <1>1, <1>11, Zenon
<1>13. flat = serveFlat(req, deps)
  BY <1>5
<1>14. LET serves == {d \in deps : d.model = req.model /\ statusOf(d) = 200}
           all    == {d \in deps : d.model = req.model /\ d.state = "RUNNING"}
       IN  req.size <= FlatMaxBody /\ req.daemon = "ok" /\ serves # {} /\ serves = all => flat.status = 200
  BY <1>10, Zenon
<1> QED
  BY <1>12, <1>13, <1>14, Zenon DEF ServedFor

\* A model that is served is reached by its name.
LEMMA FrontServes == FrontInput => ModelIsServed
<1> SUFFICES ASSUME part = "front",
                    input.req \in [size : Int, model : STRING, daemon : STRING, id : STRING],
                    IsFiniteSet(input.deps), \A d \in input.deps : d \in DeploymentRow,
                    \A d, e \in input.deps : d.id = e.id => d = e
             PROVE  ModelIsServed
  BY Zenon DEF FrontInput, ModelIsServed
<1>1. ServedFor(input.req, input.deps)
  BY ServesFor, Zenon
<1> QED
  BY <1>1, Zenon DEF ModelIsServed, ServedFor

\* A caller cannot set the credential of an upstream.
LEMMA FrontSigns == FrontInput => CallerCannotSign
<1> SUFFICES ASSUME part = "upstream",
                    input.auth \in [header : STRING, valueEnv : STRING, prefix : STRING],
                    input.auth.header \notin RouterHeaders
             PROVE  CallerCannotSign
  BY Zenon DEF FrontInput, CallerCannotSign
<1> DEFINE auth == ValidateUpstreamAuth(input.auth, input.envThen)
           own  == {h \in input.headers : h.name \notin {"X-IPlane-Tenant", "X-IPlane-Priority"}}
           sent == proxyTo(input.headers, auth, input.envNow)
<1>1. auth # <<>> => \E a : auth = <<a>> /\ a.header \notin RouterHeaders
  <2>1. PICK none : none = ""
    OBVIOUS
  <2>2. "Authorization" \notin RouterHeaders /\ input.auth.header \notin RouterHeaders
    BY DEF RouterHeaders
  <2>3. auth # <<>> => auth = LET header == IF input.auth.header = none THEN "Authorization" ELSE input.auth.header
                              IN  <<[header |-> header, valueEnv |-> input.auth.valueEnv,
                                     prefix |-> IF input.auth.prefix = none /\ header = "Authorization" THEN "Bearer"
                                                ELSE input.auth.prefix]>>
    BY <2>1, Zenon DEF ValidateUpstreamAuth
  <2> HIDE DEF auth
  <2> QED
    BY <2>2, <2>3
<1>2. sent = IF auth = <<>> \/ auth[1].valueEnv \notin input.envNow THEN own
             ELSE {h \in own : h.name # auth[1].header}
                  \cup {[name |-> auth[1].header, value |-> <<auth[1].prefix, auth[1].valueEnv>>]}
  BY Zenon DEF proxyTo, applyUpstreamAuth
<1> HIDE DEF auth, sent
<1>3. ASSUME auth # <<>>, auth[1].valueEnv \in input.envNow
      PROVE  {h.value : h \in {x \in sent : x.name = auth[1].header}} = {<<auth[1].prefix, auth[1].valueEnv>>}
  <2>1. PICK a : a = auth[1]
    OBVIOUS
  <2>2. PICK ours : ours = [name |-> a.header, value |-> <<a.prefix, a.valueEnv>>]
    OBVIOUS
  <2>3. sent = {h \in own : h.name # a.header} \cup {ours}
    BY <1>2, <1>3, <2>1, <2>2
  <2>4. ours.name = a.header /\ ours.value = <<a.prefix, a.valueEnv>>
    BY <2>2
  <2>5. {x \in sent : x.name = a.header} = {ours}
    BY <2>3, <2>4
  <2> QED
    BY <2>1, <2>4, <2>5
<1>4. \A h \in sent : h.name \notin {"X-IPlane-Tenant", "X-IPlane-Priority"}
  <2>1. CASE auth = <<>> \/ auth[1].valueEnv \notin input.envNow
    BY <1>2, <2>1
  <2>2. CASE auth # <<>> /\ auth[1].valueEnv \in input.envNow
    <3>1. PICK a : auth = <<a>> /\ a.header \notin RouterHeaders
      BY <1>1, <2>2
    <3>2. auth[1] = a
      BY <3>1
    <3> QED
      BY <1>2, <2>2, <3>1, <3>2 DEF RouterHeaders
  <2> QED
    BY <2>1, <2>2
<1>5. \A p \in {<<"v1", "chat">>, <<"v1", "models">>} : openAITail(<<"v1", input.auth.valueEnv>> \o p) = p
  <2> SUFFICES ASSUME NEW p \in {<<"v1", "chat">>, <<"v1", "models">>}
               PROVE  openAITail(<<"v1", input.auth.valueEnv>> \o p) = p
    OBVIOUS
  <2>1. PICK x, y : p = <<x, y>>
    OBVIOUS
  <2>2. PICK v : v = input.auth.valueEnv
    OBVIOUS
  <2>3. PICK s : s = <<"v1", v>> \o <<x, y>>
    OBVIOUS
  <2>4. DEFINE E == {"v1", v, x, y}
  <2>5. <<"v1", v>> \in Seq(E) /\ <<x, y>> \in Seq(E)
    OBVIOUS
  <2>6. s \in Seq(E) /\ Len(s) = 4 /\ s[1] = "v1" /\ s[3] = x /\ s[4] = y
    <3>1. Len(<<"v1", v>>) = 2 /\ Len(<<x, y>>) = 2
      OBVIOUS
    <3>2. s \in Seq(E) /\ Len(s) = 4
      BY <2>3, <2>5, <3>1, ConcatProperties
    <3>3. \A i \in 1..Len(s) : s[i] = IF i <= 2 THEN <<"v1", v>>[i] ELSE <<x, y>>[i - 2]
      BY <2>3, <2>5, <3>1, ConcatProperties
    <3>4. 1 \in 1..Len(s) /\ 3 \in 1..Len(s) /\ 4 \in 1..Len(s)
      BY <3>2
    <3>5. s[1] = <<"v1", v>>[1] /\ s[3] = <<x, y>>[1] /\ s[4] = <<x, y>>[2]
      BY <3>3, <3>4
    <3> QED
      BY <3>2, <3>5
  <2>7. openAITail(s) = SubSeq(s, 3, 4)
    BY <2>6 DEF openAITail
  <2>8. SubSeq(s, 3, 4) = [i \in 1..2 |-> s[i + 2]]
    BY <2>6
  <2>9. [i \in 1..2 |-> s[i + 2]] = <<x, y>>
    BY <2>6
  <2> QED
    BY <2>1, <2>2, <2>3, <2>7, <2>8, <2>9
<1> QED
  BY <1>3, <1>4, <1>5, Zenon DEF CallerCannotSign, auth, sent

\* A request reaches the deployment that serves its model, or an upstream that
\* only the router signs for.
THEOREM FrontCorrect == FrontInput => FrontSound
BY FrontServes, FrontSigns DEF FrontSound

-----------------------------------------------------------------------------
(***************************************************************************)
(* What a rental is said to cost.                                          *)
(***************************************************************************)

\* The seconds a scrape shows of a rental.
Shown(r, t) == billedSeconds([id |-> "i", rate |-> r.rate, since |-> r.created,
                              until |-> IF r.terminated # NoTime /\ r.terminated <= t THEN r.terminated ELSE NoTime], t)

\* A rental whose stamps are in order.
Ordered(r) ==
    /\ r \in Rental /\ r.created <= r.rented
    /\ r.terminated # NoTime => /\ r.released # NoTime
                                /\ r.rented <= r.released /\ r.released <= r.terminated

\* A scrape has one series of the rental, its seconds since it was claimed.
LEMMA SeriesIs ==
    ASSUME NEW r \in Rental, NEW t \in Nat
    PROVE  /\ observeUptime({RecordAt(r, t)}, t) = {[id |-> "i", value |-> Shown(r, t)]}
           /\ observeInstanceCost({RecordAt(r, t)}, t)
                = IF r.rate > 0 THEN {[id |-> "i", value |-> Shown(r, t) * r.rate]} ELSE {}
<1> DEFINE rec == RecordAt(r, t)
           b == [id |-> "i", rate |-> r.rate, since |-> r.created,
                 until |-> IF r.terminated # NoTime /\ r.terminated <= t THEN r.terminated ELSE NoTime]
<1>1. r.created \in Nat /\ r.created # NoTime
  BY DEF Rental, NoTime
<1>2. /\ rec.id = "i" /\ rec.rate = r.rate /\ rec.created = r.created
      /\ rec.terminated = IF r.terminated # NoTime /\ r.terminated <= t THEN r.terminated ELSE NoTime
  BY DEF RecordAt
<1>3. billingStart(rec) = r.created
  BY <1>1, <1>2 DEF billingStart
<1>4. BillingInstances({rec}) = {b}
  <2> HIDE DEF rec
  <2> QED
    BY <1>1, <1>2, <1>3 DEF BillingInstances
<1>5. b.id = "i" /\ b.rate = r.rate /\ Shown(r, t) = billedSeconds(b, t)
  BY DEF Shown
<1> HIDE DEF b, rec
<1>6. observeUptime({rec}, t) = {[id |-> b.id, value |-> billedSeconds(b, t)]}
  BY <1>4 DEF observeUptime
<1>7. observeInstanceCost({rec}, t) = IF b.rate > 0 THEN {[id |-> b.id, value |-> billedSeconds(b, t) * b.rate]} ELSE {}
  BY <1>4 DEF observeInstanceCost
<1> QED
  BY <1>5, <1>6, <1>7 DEF rec

\* Those seconds: none before the claim, no more after the end.
LEMMA ShownIs ==
    ASSUME NEW r, Ordered(r), NEW t \in Nat
    PROVE  /\ Shown(r, t) \in Nat
           /\ ~(r.terminated # NoTime /\ r.terminated <= t)
                  => Shown(r, t) = IF t < r.created THEN 0 ELSE t - r.created
           /\ r.terminated # NoTime /\ r.terminated <= t => Shown(r, t) = r.terminated - r.created
<1>1. r.created \in Nat /\ r.terminated \in Nat \cup {NoTime} /\ r.released \in Nat \cup {NoTime} /\ r.rented \in Nat
  BY DEF Ordered, Rental
<1>2. r.terminated # NoTime => r.created <= r.terminated
  BY <1>1 DEF Ordered, NoTime
<1> QED
  BY <1>1, <1>2 DEF Shown, billedSeconds, NoTime

\* A product with a rate grows with its factor.
LEMMA Dearer ==
    ASSUME NEW a \in Nat, NEW b \in Nat, NEW c \in Nat, a <= b
    PROVE  a * c <= b * c
OBVIOUS

\* The bill covers the rental.
LEMMA BillCovers == BillingInput => BillCoversTheRental
<1> SUFFICES ASSUME BillingInput, part = "billing", input.rental.rented <= input.second
             PROVE  LET r == input.rental
                        now == input.second
                        meter == (IF r.released # NoTime /\ r.released <= now THEN r.released ELSE now) - r.rented
                    IN  \E o \in observeUptime({RecordAt(r, now)}, now) :
                            /\ o.value >= meter
                            /\ r.terminated # NoTime /\ r.terminated <= now => o.value <= r.terminated - r.created
  BY DEF BillCoversTheRental
<1> DEFINE r == input.rental
           now == input.second
<1>1. Ordered(r) /\ now \in Nat
  BY DEF BillingInput, Ordered
<1>2. observeUptime({RecordAt(r, now)}, now) = {[id |-> "i", value |-> Shown(r, now)]}
  BY <1>1, SeriesIs DEF Ordered
<1>3. /\ r.created \in Nat /\ r.terminated \in Nat \cup {NoTime} /\ r.released \in Nat \cup {NoTime} /\ r.rented \in Nat
      /\ r.created <= r.rented /\ r.rented <= now
  BY <1>1 DEF Ordered, Rental
<1>4. CASE r.terminated # NoTime /\ r.terminated <= now
  <2>1. Shown(r, now) = r.terminated - r.created
    BY <1>1, <1>4, ShownIs
  <2>2. r.released \in Nat /\ r.released <= r.terminated
    BY <1>1, <1>3, <1>4 DEF Ordered
  <2>3. Shown(r, now) >= (IF r.released # NoTime /\ r.released <= now THEN r.released ELSE now) - r.rented
    <3>1. r.released # NoTime /\ r.released <= now
      BY <1>1, <1>3, <1>4, <2>2 DEF NoTime
    <3> QED
      BY <1>1, <1>3, <1>4, <2>1, <2>2, <3>1
  <2>4. Shown(r, now) <= r.terminated - r.created
    BY <1>3, <1>4, <2>1, <2>2 DEF NoTime
  <2> QED
    <3> DEFINE o == [id |-> "i", value |-> Shown(r, now)]
    <3>1. o \in observeUptime({RecordAt(r, now)}, now)
      BY <1>2
    <3>2. o.value = Shown(r, now)
      OBVIOUS
    <3> QED
      BY <2>3, <2>4, <3>1, <3>2, Zenon
<1>5. CASE ~(r.terminated # NoTime /\ r.terminated <= now)
  <2>1. Shown(r, now) = now - r.created
    BY <1>1, <1>3, <1>5, ShownIs
  <2>2. (IF r.released # NoTime /\ r.released <= now THEN r.released ELSE now) \in Int
    BY <1>1, <1>3 DEF NoTime
  <2>3. (IF r.released # NoTime /\ r.released <= now THEN r.released ELSE now) <= now
    BY <1>1
  <2>4. \A m \in Int : m <= now => m - r.rented <= now - r.created
    BY <1>1, <1>3
  <2>5. Shown(r, now) >= (IF r.released # NoTime /\ r.released <= now THEN r.released ELSE now) - r.rented
    <3> DEFINE m == IF r.released # NoTime /\ r.released <= now THEN r.released ELSE now
    <3> HIDE DEF m
    <3>1. m - r.rented <= now - r.created
      BY <2>2, <2>3, <2>4 DEF m
    <3>2. now - r.created \in Int /\ m - r.rented \in Int
      BY <1>1, <1>3, <2>2 DEF m
    <3>3. Shown(r, now) >= m - r.rented
      BY <2>1, <3>1, <3>2
    <3> QED
      BY <3>3 DEF m
  <2> QED
    BY <1>2, <1>5, <2>5, Zenon
<1> QED
  BY <1>4, <1>5

\* Neither counter runs back.
LEMMA CountersClimb == BillingInput => CountersNeverRunBack
<1> SUFFICES ASSUME BillingInput, part = "billing"
             PROVE  LET r == input.rental
                        at(t, Observe(_, _)) == Observe({RecordAt(r, t)}, t)
                        climbs(Observe(_, _)) ==
                            \A a \in at(input.first, Observe), b \in at(input.second, Observe) :
                                /\ a.value <= b.value
                                /\ r.terminated # NoTime /\ r.terminated <= input.first => a.value = b.value
                    IN  climbs(observeUptime) /\ climbs(observeInstanceCost)
  BY DEF CountersNeverRunBack
<1> DEFINE r == input.rental
           s == input.first
           t == input.second
           ended == r.terminated # NoTime /\ r.terminated <= s
<1>1. Ordered(r) /\ s \in Nat /\ t \in Nat /\ s <= t
  BY DEF BillingInput, Ordered
<1>2. r.created \in Nat /\ r.terminated \in Nat \cup {NoTime} /\ r.rate \in Nat /\ r \in Rental
  BY <1>1 DEF Ordered, Rental
<1>3. r.terminated # NoTime => r.created <= r.terminated
  BY <1>1 DEF Ordered, Rental, NoTime
<1>4. Shown(r, s) \in Nat /\ Shown(r, t) \in Nat
  BY <1>1, ShownIs
<1>5. ended => Shown(r, s) = Shown(r, t)
  <2> SUFFICES ASSUME ended PROVE Shown(r, s) = Shown(r, t)
    OBVIOUS
  <2>1. r.terminated <= t /\ r.terminated # NoTime
    BY <1>1, <1>2
  <2> QED
    BY <1>1, <2>1, ShownIs
<1>6. Shown(r, s) <= Shown(r, t)
  <2>1. CASE ended
    BY <1>4, <1>5, <2>1
  <2>2. CASE ~ended
    <3>1. Shown(r, s) = IF s < r.created THEN 0 ELSE s - r.created
      BY <1>1, <2>2, ShownIs
    <3>2. CASE r.terminated # NoTime /\ r.terminated <= t
      <4>1. Shown(r, t) = r.terminated - r.created /\ s < r.terminated
        BY <1>1, <1>2, <2>2, <3>2, ShownIs
      <4> QED
        BY <1>1, <1>2, <1>3, <3>1, <3>2, <4>1
    <3>3. CASE ~(r.terminated # NoTime /\ r.terminated <= t)
      <4>1. Shown(r, t) = IF t < r.created THEN 0 ELSE t - r.created
        BY <1>1, <3>3, ShownIs
      <4> QED
        BY <1>1, <1>2, <3>1, <4>1
    <3> QED
      BY <3>2, <3>3
  <2> QED
    BY <2>1, <2>2
<1>7. Shown(r, s) * r.rate <= Shown(r, t) * r.rate
  BY <1>2, <1>4, <1>6, Dearer
<1>8. /\ observeUptime({RecordAt(r, s)}, s) = {[id |-> "i", value |-> Shown(r, s)]}
      /\ observeUptime({RecordAt(r, t)}, t) = {[id |-> "i", value |-> Shown(r, t)]}
  BY <1>1, <1>2, SeriesIs
<1>9. /\ observeInstanceCost({RecordAt(r, s)}, s) \subseteq {[id |-> "i", value |-> Shown(r, s) * r.rate]}
      /\ observeInstanceCost({RecordAt(r, t)}, t) \subseteq {[id |-> "i", value |-> Shown(r, t) * r.rate]}
  BY <1>1, <1>2, SeriesIs
<1>10. \A a \in observeUptime({RecordAt(r, s)}, s), b \in observeUptime({RecordAt(r, t)}, t) :
           a.value <= b.value /\ (ended => a.value = b.value)
  BY <1>5, <1>6, <1>8
<1>11. \A a \in observeInstanceCost({RecordAt(r, s)}, s), b \in observeInstanceCost({RecordAt(r, t)}, t) :
           a.value <= b.value /\ (ended => a.value = b.value)
  BY <1>5, <1>7, <1>9
<1> QED
  BY <1>10, <1>11, Zenon

\* For any rental whose stamps are in the order things happen, and any two
\* scrapes of it: the bill covers it, and neither counter runs back.
THEOREM BillingCorrect == BillingInput => BillingSound
BY BillCovers, CountersClimb DEF BillingSound

-----------------------------------------------------------------------------
(***************************************************************************)
(* Whether a model fits the cards it would be given.                       *)
(***************************************************************************)

\* Whole division.
LEMMA DivBounds ==
    ASSUME NEW x \in Int, NEW y \in Nat \ {0}
    PROVE  /\ x \div y \in Int
           /\ y * (x \div y) <= x
           /\ x < y * (x \div y) + y
OBVIOUS

\* A factor in common is no part of a comparison.
LEMMA Cancel ==
    ASSUME NEW a \in Int, NEW b \in Int, NEW k \in Nat \ {0}
    PROVE  (k * a < k * b => a < b) /\ (k * a <= k * b => a <= b)
OBVIOUS

\* A product of a sum.
LEMMA Spread ==
    ASSUME NEW a \in Int, NEW b \in Int, NEW c \in Int
    PROVE  a * (b + c) = a * b + a * c /\ a * (b - c) = a * b - a * c
OBVIOUS

\* The order of factors does not matter.
LEMMA Regroup ==
    ASSUME NEW a \in Int, NEW b \in Int, NEW c \in Int
    PROVE  (a * b) * c = a * (b * c) /\ a * b = b * a /\ a * b \in Int
OBVIOUS

\* Counts multiply to a count.
LEMMA Product ==
    ASSUME NEW a \in Nat, NEW b \in Nat
    PROVE  /\ a * b \in Nat
           /\ a > 0 /\ b > 0 => a * b > 0
OBVIOUS

\* A product grows with its factor.
LEMMA Grows ==
    ASSUME NEW a \in Int, NEW b \in Int, NEW k \in Nat
    PROVE  /\ a <= b => a * k <= b * k
           /\ a < b /\ k > 0 => a * k < b * k
OBVIOUS

\* The experts of a model.
LEMMA ExpertsAre ==
    ASSUME NEW a \in ModelArch
    PROVE  /\ moeLayers(a) \in Nat /\ expertParams(a) \in Nat
           /\ RoutedExpertParams(a) \in Nat
           /\ a.experts > 0 => RoutedExpertParams(a) = moeLayers(a) * a.experts * expertParams(a)
           /\ a.experts = 0 => RoutedExpertParams(a) = 0
<1>1. a.experts \in Nat /\ a.expertHidden \in Nat /\ a.hidden \in Nat /\ a.moeInter \in Nat
      /\ a.layers \in Nat /\ a.dense \in Nat /\ a.mtp \in Nat
  BY DEF ModelArch
<1>2. moeLayers(a) \in Nat
  BY <1>1 DEF moeLayers
<1>3. expertParams(a) \in Nat
  <2>1. (IF a.expertHidden > 0 THEN a.expertHidden ELSE a.hidden) \in Nat
    BY <1>1
  <2>2. \A x, y \in Nat : 3 * x * y \in Nat
    OBVIOUS
  <2> QED
    BY <1>1, <2>1, <2>2 DEF expertParams
<1>4. moeLayers(a) * a.experts * expertParams(a) \in Nat
  BY <1>1, <1>2, <1>3, Product
<1> QED
  BY <1>1, <1>2, <1>3, <1>4 DEF RoutedExpertParams

\* A token passes through no more than the cards hold, and through less when
\* some experts are not chosen.
LEMMA Sparse == BudgetInput => ActiveIsSparse
<1> SUFFICES ASSUME BudgetInput, part = "budget", ValidateArch(input.arch), RoutedExpertParams(input.arch) < input.arch.params
             PROVE  LET a == input.arch IN
                    /\ ActiveParams(a) <= a.params
                    /\ (a.experts > a.perTok /\ RoutedExpertParams(a) > 0) => ActiveParams(a) < a.params
  BY DEF ActiveIsSparse
<1> DEFINE a == input.arch
           m == moeLayers(a)
           e == expertParams(a)
           R == RoutedExpertParams(a)
<1>1. a \in ModelArch
  BY DEF BudgetInput
<1>2. a.experts \in Nat /\ a.perTok \in Nat /\ a.params \in Nat
  BY <1>1 DEF ModelArch
<1>3. m \in Nat /\ e \in Nat /\ R \in Nat /\ (a.experts > 0 => R = m * a.experts * e) /\ (a.experts = 0 => R = 0)
  BY <1>1, ExpertsAre
<1>4. a.params > 0 /\ R < a.params
  BY DEF ValidateArch
<1> HIDE DEF a, m, e, R
<1>5. CASE a.experts = 0
  BY <1>2, <1>3, <1>4, <1>5 DEF ActiveParams, a, R
<1>6. CASE a.experts > 0 /\ (R <= 0 \/ a.perTok <= 0 \/ a.perTok > a.experts)
  <2>1. ActiveParams(a) = 0
    BY <1>2, <1>6 DEF ActiveParams, R
  <2> QED
    BY <1>2, <1>4, <2>1 DEF a
<1>7. CASE a.experts > 0 /\ R > 0 /\ a.perTok > 0 /\ a.perTok <= a.experts
  <2>1. ActiveParams(a) = a.params - R + m * a.perTok * e
    BY <1>2, <1>3, <1>4, <1>7 DEF ActiveParams, R, m, e
  <2>2. m * e \in Nat
    BY <1>3, Product
  <2>3. R = a.experts * (m * e) /\ m * a.perTok * e = a.perTok * (m * e)
    <3>1. m * a.experts * e = a.experts * (m * e)
      BY <1>2, <1>3
    <3>2. m * a.perTok * e = a.perTok * (m * e)
      BY <1>2, <1>3
    <3> QED
      BY <1>3, <1>7, <3>1, <3>2
  <2>4. m * e > 0
    BY <1>2, <1>7, <2>2, <2>3
  <2>5. a.perTok * (m * e) <= R
    BY <1>2, <1>7, <2>2, <2>3, Grows
  <2>6. a.experts > a.perTok => a.perTok * (m * e) < R
    BY <1>2, <2>2, <2>3, <2>4, Grows
  <2>7. a.perTok * (m * e) \in Int
    BY <1>2, <2>2
  <2> QED
    BY <1>2, <1>3, <2>1, <2>3, <2>5, <2>6, <2>7 DEF a, R
<1> QED
  BY <1>2, <1>3, <1>5, <1>6, <1>7

\* What one card holds of the weights, as the bounds a division gives.
LEMMA WeightsAre ==
    ASSUME NEW a \in ModelArch, NEW p, p.weights \in Precisions, TensorWidth(p) \in Nat \ {0}, expertCards(p) \in Nat \ {0}
    PROVE  LET R == RoutedExpertParams(a)
               T == TensorWidth(p)
               E == expertCards(p)
               B == BytesPerParam[p.weights]
               w == weightBytesPerCard(a, p)
           IN  /\ w \in Int /\ B \in Nat
               /\ ((a.params - R) * E + R * T) * B < (100 * T * E) * (w + 1)
               /\ (100 * T * E) * w <= ((a.params - R) * E + R * T) * B
<1> DEFINE R == RoutedExpertParams(a)
           T == TensorWidth(p)
           E == expertCards(p)
           B == BytesPerParam[p.weights]
           x == ((a.params - R) * E + R * T) * B
           y == 100 * T * E
<1>1. a.params \in Nat /\ R \in Nat
  BY ExpertsAre DEF ModelArch
<1>2. B \in Nat
  BY DEF Precisions, BytesPerParam
<1>3. y \in Nat \ {0}
  <2> HIDE DEF T, E
  <2>1. T \in Nat \ {0} /\ E \in Nat \ {0}
    BY DEF T, E
  <2> QED
    BY <2>1
<1>4. x \in Int
  <2> HIDE DEF T, E, B, R
  <2>1. T \in Nat \ {0} /\ E \in Nat \ {0}
    BY DEF T, E
  <2>2. (a.params - R) * E \in Int /\ R * T \in Int
    BY <1>1, <2>1
  <2> QED
    BY <1>2, <2>2, Regroup
<1>5. weightBytesPerCard(a, p) = x \div y
  BY DEF weightBytesPerCard
<1> HIDE DEF x, y
<1>6. x \div y \in Int /\ y * (x \div y) <= x /\ x < y * (x \div y) + y
  BY <1>3, <1>4, DivBounds
<1>7. y * (x \div y) + y = y * (x \div y + 1)
  BY <1>3, <1>6, Spread
<1>8. x < y * (x \div y + 1)
  BY <1>6, <1>7
<1> QED
  BY <1>2, <1>5, <1>6, <1>8 DEF x, y

\* The plan of a row: one tensor width, and as many expert cards as the row.
LEMMA RowPlan ==
    ASSUME NEW o \in BudgetQuestion, NEW n \in Nat \ {0}
    PROVE  LET p == planAtCards(o, n) IN
           /\ p.weights = o.plan.weights /\ p.kv = o.plan.kv /\ p.weights \in Precisions
           /\ TensorWidth(p) \in Nat \ {0} /\ expertCards(p) = n
           /\ TensorWidth(p) = IF ~o.expertParallel THEN n ELSE IF o.tp < 1 THEN 1 ELSE o.tp
<1>1. o.plan \in [weights : Precisions, kv : STRING, len : Int, batch : Int, tp : Int, ep : {0}]
  BY DEF BudgetQuestion, BudgetPlan
<1>0. o.tp \in Int
  BY DEF BudgetQuestion
<1> DEFINE p == planAtCards(o, n)
<1>2. /\ p.weights = o.plan.weights /\ p.kv = o.plan.kv
      /\ p.tp = IF o.expertParallel THEN o.tp ELSE n
      /\ p.ep = IF o.expertParallel THEN n ELSE 0
  <2>1. CASE o.expertParallel
    <3>1. p = [[o.plan EXCEPT !.tp = o.tp] EXCEPT !.ep = n]
      BY <2>1 DEF planAtCards, planFromFlags
    <3> QED
      BY <1>1, <2>1, <3>1
  <2>2. CASE ~o.expertParallel
    <3>1. p = [[o.plan EXCEPT !.tp = 0] EXCEPT !.tp = n]
      BY <2>2 DEF planAtCards, planFromFlags
    <3> QED
      BY <1>1, <2>2, <3>1
  <2> QED
    BY <2>1, <2>2
<1> HIDE DEF p
<1>3. p.weights \in Precisions
  BY <1>1, <1>2
<1>4. TensorWidth(p) = IF ~o.expertParallel THEN n ELSE IF o.tp < 1 THEN 1 ELSE o.tp
  <2>1. CASE o.expertParallel
    <3>1. p.tp = o.tp
      BY <1>2, <2>1
    <3> QED
      BY <2>1, <3>1 DEF TensorWidth
  <2>2. CASE ~o.expertParallel
    <3>1. p.tp = n /\ ~(n < 1)
      BY <1>2, <2>2
    <3> QED
      BY <2>2, <3>1 DEF TensorWidth
  <2> QED
    BY <2>1, <2>2
<1>5. TensorWidth(p) \in Nat \ {0}
  <2>1. (IF o.tp < 1 THEN 1 ELSE o.tp) \in Nat \ {0}
    BY <1>0
  <2> QED
    BY <1>4, <2>1
<1>6. expertCards(p) = n
  <2>1. CASE o.expertParallel
    <3>1. p.ep = n /\ ~(n < 1)
      BY <1>2, <2>1
    <3> QED
      BY <3>1 DEF expertCards
  <2>2. CASE ~o.expertParallel
    <3>1. p.ep = 0 /\ 0 < 1
      BY <1>2, <2>2
    <3> QED
      BY <1>4, <2>2, <3>1 DEF expertCards
  <2> QED
    BY <2>1, <2>2
<1> QED
  BY <1>2, <1>3, <1>4, <1>5, <1>6 DEF p

\* The cards of a row hold the whole model between them.
LEMMA AllHeld == BudgetInput => WeightsAllHeld
<1> SUFFICES ASSUME BudgetInput, part = "budget", NEW n \in {1, 2, 4},
                    ~skipped(input.arch, n, TensorWidth(planAtCards(input.opts, n)),
                             IF input.opts.expertParallel THEN "expert" ELSE "tensor")
             PROVE  100 * n * (weightBytesPerCard(input.arch, planAtCards(input.opts, n)) + 1)
                      > (input.arch.params * BytesPerParam[input.opts.plan.weights]
                            - RoutedExpertParams(input.arch) * BytesPerParam[input.opts.plan.weights])
                          * (n \div TensorWidth(planAtCards(input.opts, n)))
                        + RoutedExpertParams(input.arch) * BytesPerParam[input.opts.plan.weights]
  BY DEF WeightsAllHeld
<1> DEFINE a == input.arch
           o == input.opts
           p == planAtCards(o, n)
           T == TensorWidth(p)
           R == RoutedExpertParams(a)
           B == BytesPerParam[o.plan.weights]
           w == weightBytesPerCard(a, p)
           k == n \div T
<1>1. a \in ModelArch /\ o \in BudgetQuestion
  BY DEF BudgetInput
<1>2. a.params \in Nat /\ R \in Nat /\ o.expertParallel \in BOOLEAN
  BY <1>1, ExpertsAre DEF ModelArch, BudgetQuestion
<1>3. /\ p.weights = o.plan.weights /\ p.weights \in Precisions
      /\ T \in Nat \ {0} /\ expertCards(p) = n
      /\ ~o.expertParallel => T = n
  BY <1>1, RowPlan
<1>4. n % T = 0
  <2>1. CASE o.expertParallel
    BY <2>1 DEF skipped
  <2>2. CASE ~o.expertParallel
    <3>1. T = n
      BY <1>3, <2>2
    <3> QED
      BY <3>1
  <2> QED
    BY <1>2, <2>1, <2>2
<1>5. /\ w \in Int /\ B \in Nat
      /\ ((a.params - R) * n + R * T) * B < (100 * T * n) * (w + 1)
  BY <1>1, <1>3, WeightsAre
<1> HIDE DEF T, R, B, w, a
<1>6. k \in Nat /\ T * k = n
  BY <1>3, <1>4
<1> HIDE DEF k
<1>7. (100 * T * n) * (w + 1) = T * ((100 * n) * (w + 1))
  <2>1. 100 * T * n = T * (100 * n)
    BY <1>3
  <2>2. 100 * n \in Int /\ w + 1 \in Int /\ T \in Int
    BY <1>3, <1>5
  <2> QED
    BY <2>1, <2>2, Regroup
<1>8. ((a.params - R) * n + R * T) * B = T * (((a.params - R) * k + R) * B)
  <2>1. a.params - R \in Int
    BY <1>2
  <2>2. (a.params - R) * n = T * ((a.params - R) * k)
    BY <1>3, <1>6, <2>1
  <2>3. (a.params - R) * k \in Int
    BY <1>6, <2>1
  <2>4. (a.params - R) * n + R * T = T * ((a.params - R) * k + R)
    BY <1>2, <1>3, <2>2, <2>3, Spread, Regroup
  <2>5. (a.params - R) * k + R \in Int
    BY <1>2, <2>3
  <2> QED
    BY <1>3, <1>5, <2>4, <2>5, Regroup
<1>9. ((a.params - R) * k + R) * B < (100 * n) * (w + 1)
  <2>1. ((a.params - R) * k + R) * B \in Int /\ (100 * n) * (w + 1) \in Int
    <3>1. a.params - R \in Int
      BY <1>2
    <3>2. (a.params - R) * k \in Int
      BY <1>6, <3>1
    <3> QED
      BY <1>2, <1>5, <3>2, Regroup
  <2>2. T * (((a.params - R) * k + R) * B) < T * ((100 * n) * (w + 1))
    BY <1>5, <1>7, <1>8
  <2> QED
    BY <1>3, <2>1, <2>2, Cancel
<1>10. ((a.params - R) * k + R) * B = (a.params * B - R * B) * k + R * B
  BY <1>2, <1>5, <1>6
<1>11. (a.params * B - R * B) * k + R * B \in Int /\ 100 * n * (w + 1) \in Int
  BY <1>2, <1>5, <1>6
<1>12. 100 * n * (w + 1) > (a.params * B - R * B) * k + R * B
  BY <1>9, <1>10, <1>11
<1> QED
  BY <1>12 DEF a, R, B, w, k, T

\* What a token leaves in the cache.
LEMMA CacheIs ==
    ASSUME NEW a \in ModelArch, ValidateArch(a), NEW p
    PROVE  KVBytesPerToken(a, p) \in Nat \ {0}
<1>1. /\ a.layers \in Nat \ {0} /\ a.fullAttn \in Nat /\ a.lora \in Nat /\ a.rope \in Nat
      /\ a.kvHeads \in Nat /\ a.headDim \in Nat
      /\ a.lora > 0 \/ (a.kvHeads > 0 /\ a.headDim > 0)
  BY DEF ModelArch, ValidateArch
<1>2. CachingLayers(a) \in Nat \ {0}
  BY <1>1 DEF CachingLayers
<1>3. BytesPerCacheElement(cacheDtype(p)) \in Nat \ {0}
  BY DEF BytesPerCacheElement
<1>4. (IF LatentCache(a) THEN a.lora + a.rope ELSE 2 * a.kvHeads * a.headDim) \in Nat \ {0}
  <2>1. CASE LatentCache(a)
    <3>1. a.lora + a.rope \in Nat \ {0}
      BY <1>1, <2>1 DEF LatentCache
    <3> QED
      BY <2>1, <3>1
  <2>2. CASE ~LatentCache(a)
    <3>1. a.kvHeads \in Nat \ {0} /\ a.headDim \in Nat \ {0}
      BY <1>1, <2>2 DEF LatentCache
    <3>2. \A x, y \in Nat \ {0} : 2 * x * y \in Nat \ {0}
      OBVIOUS
    <3>3. 2 * a.kvHeads * a.headDim \in Nat \ {0}
      BY <3>1, <3>2
    <3> QED
      BY <2>2, <3>3
  <2> QED
    BY <2>1, <2>2
<1>5. \A x, y, z \in Nat \ {0} : x * y * z \in Nat \ {0}
  <2> SUFFICES ASSUME NEW x \in Nat \ {0}, NEW y \in Nat \ {0}, NEW z \in Nat \ {0}
               PROVE  x * y * z \in Nat \ {0}
    OBVIOUS
  <2>1. x * y \in Nat \ {0}
    BY Product
  <2> QED
    BY <2>1, Product
<1> QED
  BY <1>2, <1>3, <1>4, <1>5 DEF KVBytesPerToken

\* A batch of as many sessions as the room divides into is within the card.
LEMMA RoomHolds ==
    ASSUME NEW usable \in Int, NEW w \in Int, NEW T \in Nat \ {0}, NEW cost \in Nat \ {0},
           NEW k \in Int, NEW kv \in Int, NEW ac \in Int,
           T * kv + T * ac <= k * cost,
           115 * cost * k <= (100 * usable - 115 * w) * T
    PROVE  LET ws == w + kv + ac IN ws + (ws * 15) \div 100 <= usable
<1> DEFINE ws == w + kv + ac
           room == 100 * usable - 115 * w
<1>1. T * (115 * (kv + ac)) <= T * room
  <2>1. T * (115 * (kv + ac)) = 115 * (T * kv + T * ac)
    OBVIOUS
  <2>2. T * kv \in Int /\ T * ac \in Int /\ k * cost \in Int
    BY Regroup
  <2>3. 115 * (T * kv + T * ac) <= 115 * (k * cost)
    BY <2>2
  <2>4. 115 * (k * cost) = 115 * cost * k
    OBVIOUS
  <2>5. (100 * usable - 115 * w) * T = T * room
    OBVIOUS
  <2>6. 115 * cost * k \in Int /\ T * room \in Int /\ T * (115 * (kv + ac)) \in Int
    OBVIOUS
  <2> QED
    BY <2>1, <2>3, <2>4, <2>5, <2>6
<1>2. 115 * (kv + ac) <= room
  BY <1>1, Cancel
<1>3. ws \in Int /\ 115 * ws <= 100 * usable
  BY <1>2
<1> HIDE DEF ws
<1>4. 100 * ((ws * 15) \div 100) <= ws * 15 /\ (ws * 15) \div 100 \in Int
  BY <1>3
<1> QED
  BY <1>3, <1>4 DEF ws

\* One session more is not, but for the few bytes that truncation drops.
LEMMA RoomEnds ==
    ASSUME NEW usable \in Int, NEW w \in Int, NEW T \in Nat \ {0}, NEW cost \in Nat \ {0},
           NEW k \in Int, NEW kv \in Int, NEW ac \in Int,
           k * cost < T * kv + T * ac + 2 * T,
           (100 * usable - 115 * w) * T < 115 * cost * k
    PROVE  LET ws == w + kv + ac IN ws + (ws * 15) \div 100 + 4 > usable
<1> DEFINE ws == w + kv + ac
           room == 100 * usable - 115 * w
<1>1. T * room < T * (115 * (kv + ac + 2))
  <2>1. T * (115 * (kv + ac + 2)) = 115 * (T * kv + T * ac + 2 * T)
    OBVIOUS
  <2>2. T * kv \in Int /\ T * ac \in Int /\ k * cost \in Int
    BY Regroup
  <2>3. 115 * (k * cost) < 115 * (T * kv + T * ac + 2 * T)
    BY <2>2
  <2>4. 115 * (k * cost) = 115 * cost * k
    OBVIOUS
  <2>5. (100 * usable - 115 * w) * T = T * room
    OBVIOUS
  <2>6. 115 * cost * k \in Int /\ T * room \in Int /\ T * (115 * (kv + ac + 2)) \in Int
    OBVIOUS
  <2> QED
    BY <2>1, <2>3, <2>4, <2>5, <2>6
<1>2. room < 115 * (kv + ac + 2)
  BY <1>1, Cancel
<1>3. ws \in Int /\ 100 * usable < 115 * ws + 230
  BY <1>2
<1> HIDE DEF ws
<1>4. ws * 15 < 100 * ((ws * 15) \div 100) + 100 /\ (ws * 15) \div 100 \in Int
  BY <1>3
<1> QED
  BY <1>3, <1>4 DEF ws

\* The plan of a row is a plan.
PlanRow == [weights : Precisions, kv : STRING, len : Int, batch : Int, tp : Int, ep : Int]

\* A row's plan is one, whichever axis it is spread along.
LEMMA RowIsPlan ==
    ASSUME NEW o \in BudgetQuestion, NEW n \in Int
    PROVE  planAtCards(o, n) \in PlanRow
<1>1. o.plan \in PlanRow
  <2>1. o.plan \in [weights : Precisions, kv : STRING, len : Int, batch : Int, tp : Int, ep : {0}]
    BY DEF BudgetQuestion, BudgetPlan
  <2>2. \A x \in [weights : Precisions, kv : STRING, len : Int, batch : Int, tp : Int, ep : {0}] :
            x \in PlanRow
    BY DEF PlanRow
  <2> QED
    BY <2>1, <2>2
<1>2. o.tp \in Int
  BY DEF BudgetQuestion
<1>3. CASE o.expertParallel
  <2>1. planAtCards(o, n) = [[o.plan EXCEPT !.tp = o.tp] EXCEPT !.ep = n]
    BY <1>3 DEF planAtCards, planFromFlags
  <2> QED
    BY <1>1, <1>2, <2>1 DEF PlanRow
<1>4. CASE ~o.expertParallel
  <2>1. planAtCards(o, n) = [[o.plan EXCEPT !.tp = 0] EXCEPT !.tp = n]
    BY <1>4 DEF planAtCards, planFromFlags
  <2> QED
    BY <1>1, <2>1 DEF PlanRow
<1> QED
  BY <1>3, <1>4

\* What depends on a plan's widths and precisions only.
LEMMA SameSpread ==
    ASSUME NEW a, NEW p, NEW q, q.weights = p.weights, q.kv = p.kv, q.tp = p.tp, q.ep = p.ep
    PROVE  /\ TensorWidth(q) = TensorWidth(p) /\ expertCards(q) = expertCards(p)
           /\ KVBytesPerToken(a, q) = KVBytesPerToken(a, p)
           /\ weightBytesPerCard(a, q) = weightBytesPerCard(a, p)
<1>1. TensorWidth(q) = TensorWidth(p)
  BY DEF TensorWidth
<1>2. expertCards(q) = expertCards(p)
  BY <1>1 DEF expertCards
<1>3. KVBytesPerToken(a, q) = KVBytesPerToken(a, p)
  BY DEF KVBytesPerToken, cacheDtype
<1>4. weightBytesPerCard(a, q) = weightBytesPerCard(a, p)
  BY <1>1, <1>2 DEF weightBytesPerCard
<1> QED
  BY <1>1, <1>2, <1>3, <1>4

\* What a session costs, in shares of the tensor width.
LEMMA CostIs ==
    ASSUME NEW a \in ModelArch, ValidateArch(a), NEW p \in PlanRow, p.len > 0
    PROVE  LET T == TensorWidth(p)
               share == IF LatentCache(a) THEN T ELSE 1
           IN  /\ T \in Nat \ {0}
               /\ SessionCost(a, p) \in Nat \ {0}
               /\ SessionCost(a, p) = (KVBytesPerToken(a, p) * p.len) * share + (p.len * a.hidden) * 3
<1> DEFINE T == TensorWidth(p)
           share == IF LatentCache(a) THEN T ELSE 1
           KV == KVBytesPerToken(a, p)
<1>1. p.tp \in Int /\ p.len \in Nat \ {0}
  BY DEF PlanRow
<1>2. T \in Nat \ {0}
  BY <1>1 DEF TensorWidth
<1> HIDE DEF T
<1>3. share \in Nat \ {0}
  BY <1>2
<1>4. KV \in Nat \ {0} /\ a.hidden \in Nat
  BY CacheIs DEF ModelArch
<1>5. SessionCost(a, p) = (KV * p.len) * share + (p.len * a.hidden) * 3
  BY DEF SessionCost, ActivationBytes, T
<1> HIDE DEF share, KV
<1>6. KV * p.len \in Nat \ {0} /\ p.len * a.hidden \in Nat
  BY <1>1, <1>4, Product
<1>7. (KV * p.len) * share \in Nat \ {0}
  BY <1>3, <1>6, Product
<1>8. (KV * p.len) * share + (p.len * a.hidden) * 3 \in Nat \ {0}
  BY <1>6, <1>7
<1> QED
  BY <1>2, <1>5, <1>8 DEF T, share, KV

\* The claims of k sessions on one card, as bounds.
LEMMA ClaimsAre ==
    ASSUME NEW a \in ModelArch, ValidateArch(a), NEW p \in PlanRow, p.len > 0, NEW k \in Int,
           weightBytesPerCard(a, p) \in Int
    PROVE  LET T == TensorWidth(p)
               cost == SessionCost(a, p)
               w == weightBytesPerCard(a, p)
           IN  \E kv, ac \in Int :
                   /\ Compute(a, [p EXCEPT !.batch = k]).total = w + kv + ac + ((w + kv + ac) * 15) \div 100
                   /\ T * kv + T * ac <= k * cost
                   /\ k * cost < T * kv + T * ac + 2 * T
<1> DEFINE q == [p EXCEPT !.batch = k]
           T == TensorWidth(p)
           KV == KVBytesPerToken(a, p)
           C == KV * p.len
           H == p.len * a.hidden
           share == IF LatentCache(a) THEN T ELSE 1
           by == IF LatentCache(a) THEN 1 ELSE T
           w == weightBytesPerCard(a, p)
           kv == (C * k) \div by
           ac == (k * (H * 3)) \div T
<1>0. p.len \in Nat \ {0}
  BY DEF PlanRow
<1>1. /\ q.weights = p.weights /\ q.kv = p.kv /\ q.tp = p.tp /\ q.ep = p.ep /\ q.len = p.len /\ q.batch = k
  BY DEF PlanRow
<1> HIDE DEF q
<1>2. TensorWidth(q) = T /\ KVBytesPerToken(a, q) = KV /\ weightBytesPerCard(a, q) = w
  BY <1>1, SameSpread
<1>3. T \in Nat \ {0} /\ SessionCost(a, p) = C * share + H * 3
  BY CostIs
<1>4. KV \in Nat \ {0} /\ a.hidden \in Nat /\ w \in Int
  BY CacheIs DEF ModelArch
<1>5. Compute(a, q).total = (w + (KV * p.len * k) \div by + (k * p.len * a.hidden * 3) \div T)
                            + ((w + (KV * p.len * k) \div by + (k * p.len * a.hidden * 3) \div T) * 15) \div 100
  BY <1>1, <1>2 DEF Compute, ActivationBytes, OverheadFraction
<1> HIDE DEF T, KV, w
<1>6. /\ C \in Nat \ {0} /\ H \in Nat
      /\ KV * p.len * k = C * k /\ k * p.len * a.hidden * 3 = k * (H * 3)
      /\ C * k \in Int /\ k * (H * 3) \in Int
  <2>1. C \in Nat \ {0} /\ H \in Nat
    BY <1>0, <1>4, Product
  <2>2. k * p.len * a.hidden = k * H
    BY <1>0, <1>4, Regroup
  <2>3. (k * H) * 3 = k * (H * 3)
    BY <2>1, Regroup
  <2> HIDE DEF H
  <2>4. C * k \in Int /\ k * (H * 3) \in Int
    BY <2>1, Regroup
  <2> QED
    BY <2>1, <2>2, <2>3, <2>4
<1> HIDE DEF C, H
<1>7. Compute(a, q).total = w + kv + ac + ((w + kv + ac) * 15) \div 100
  BY <1>5, <1>6
<1>8. kv \in Int /\ T * kv <= k * (C * share) /\ k * (C * share) < T * kv + T
  <2>1. CASE LatentCache(a)
    <3>1. kv = C * k
      <4>1. by = 1
        BY <2>1
      <4>2. \A x \in Int : x \div 1 = x
        OBVIOUS
      <4> QED
        BY <1>6, <4>1, <4>2
    <3>2. T * kv = k * (C * T)
      <4>1. T * (C * k) = (T * C) * k
        BY <1>3, <1>6, Regroup
      <4>2. (T * C) * k = k * (T * C) /\ T * C = C * T
        BY <1>3, <1>6, Regroup
      <4> QED
        BY <3>1, <4>1, <4>2
    <3>3. share = T
      BY <2>1
    <3>4. kv \in Int /\ T * kv \in Int
      BY <1>3, <1>6, <3>1, Regroup
    <3> QED
      BY <1>3, <3>2, <3>3, <3>4
  <2>2. CASE ~LatentCache(a)
    <3>1. kv = (C * k) \div T /\ share = 1
      BY <2>2
    <3>2. kv \in Int /\ T * kv <= C * k /\ C * k < T * kv + T
      BY <1>3, <1>6, <3>1, DivBounds
    <3>3. k * (C * share) = C * k
      BY <1>6, <3>1
    <3> QED
      BY <3>2, <3>3
  <2> QED
    BY <2>1, <2>2
<1>9. ac \in Int /\ T * ac <= k * (H * 3) /\ k * (H * 3) < T * ac + T
  BY <1>3, <1>6, DivBounds
<1> HIDE DEF kv, ac, by
<1>10. share \in Int
  BY <1>3
<1>11. k * SessionCost(a, p) = k * (C * share) + k * (H * 3)
  <2>1. C * share \in Int /\ H * 3 \in Int
    BY <1>6, <1>10, Regroup
  <2> QED
    BY <1>3, <2>1, Spread
<1>12. k * (C * share) \in Int /\ T * kv \in Int /\ T * ac \in Int
  <2>1. C * share \in Int
    BY <1>6, <1>10, Regroup
  <2> QED
    BY <1>3, <1>8, <1>9, <2>1, Regroup
<1> HIDE DEF share
<1>13. T * kv + T * ac <= k * SessionCost(a, p) /\ k * SessionCost(a, p) < T * kv + T * ac + 2 * T
  BY <1>3, <1>6, <1>8, <1>9, <1>11, <1>12
<1> QED
  BY <1>7, <1>8, <1>9, <1>13 DEF q, T, w

\* MaxSessions is the largest batch that is a fit.
LEMMA Sessions == BudgetInput => SessionsAgree
<1> SUFFICES ASSUME BudgetInput, part = "budget", ValidateArch(input.arch), NEW cards \in {1, 2, 4}
             PROVE  LET a == input.arch
                        o == input.opts
                        usable == UsableBytes(o.card, o.util)
                        p == [planAtCards(o, cards) EXCEPT !.len = 1]
                        n == MaxSessions(a, p, o.card, o.util)
                        at(k) == Compute(a, [p EXCEPT !.batch = k])
                    IN  /\ n > 0 => Against(at(n), usable) = "fits"
                        /\ at(n + 1).total + 4 > usable
  BY DEF SessionsAgree
<1> DEFINE a == input.arch
           o == input.opts
           row == planAtCards(o, cards)
           usable == UsableBytes(o.card, o.util)
           p == [row EXCEPT !.len = 1]
           n == MaxSessions(a, p, o.card, o.util)
           T == TensorWidth(p)
           cost == SessionCost(a, p)
           w == weightBytesPerCard(a, p)
           room == 100 * usable - 115 * w
<1>1. a \in ModelArch /\ o \in BudgetQuestion /\ ValidateArch(a)
  BY DEF BudgetInput
<1>2. usable \in Int
  <2>1. o.card \in Int /\ o.util \in Int
    BY <1>1 DEF BudgetQuestion
  <2>2. (IF o.util <= 0 \/ o.util > 100 THEN DefaultUtilization ELSE o.util) \in Int
    BY <2>1 DEF DefaultUtilization
  <2>3. o.card * (IF o.util <= 0 \/ o.util > 100 THEN DefaultUtilization ELSE o.util) \in Int
    BY <2>1, <2>2, Regroup
  <2> QED
    BY <2>3, DivBounds DEF UsableBytes
<1>3. row \in PlanRow
  BY <1>1, RowIsPlan
<1>4. p \in PlanRow /\ p.len = 1 /\ p.weights = row.weights /\ p.kv = row.kv /\ p.tp = row.tp /\ p.ep = row.ep
  <2>1. \A r \in PlanRow : LET s == [r EXCEPT !.len = 1] IN
            s \in PlanRow /\ s.len = 1 /\ s.weights = r.weights /\ s.kv = r.kv /\ s.tp = r.tp /\ s.ep = r.ep
    BY DEF PlanRow
  <2> HIDE DEF row
  <2> QED
    BY <1>3, <2>1
<1>5. T \in Nat \ {0} /\ cost \in Nat \ {0}
  <2> HIDE DEF p
  <2>1. p.len > 0
    BY <1>4
  <2> QED
    BY <1>1, <1>4, <2>1, CostIs
<1>6. w \in Int
  <2>1. row.weights \in Precisions /\ TensorWidth(row) \in Nat \ {0} /\ expertCards(row) \in Nat \ {0}
    BY <1>1, RowPlan
  <2>2. weightBytesPerCard(a, row) \in Int
    BY <1>1, <2>1, WeightsAre
  <2> QED
    BY <1>4, <2>2, SameSpread
<1>7. n = IF room <= 0 THEN 0 ELSE (room * T) \div (115 * cost)
  BY DEF MaxSessions, OverheadFraction
<1> HIDE DEF usable, row, p, T, cost, w, n, a, o
<1>8. room \in Int /\ room * T \in Int /\ 115 * cost \in Nat \ {0}
  BY <1>2, <1>5, <1>6, Regroup
<1> HIDE DEF room
<1>9. /\ n \in Int
      /\ n > 0 => 115 * cost * n <= room * T
      /\ room * T < 115 * cost * (n + 1)
  <2>1. CASE room <= 0
    <3>1. n = 0
      BY <1>7, <2>1
    <3>2. room * T <= 0
      BY <1>5, <1>8, <2>1
    <3> QED
      BY <1>5, <1>8, <3>1, <3>2
  <2>2. CASE room > 0
    <3> DEFINE y == 115 * cost
               x == room * T
    <3> HIDE DEF x, y
    <3>1. n = x \div y
      BY <1>7, <1>8, <2>2 DEF x, y
    <3>2. x \in Int /\ y \in Nat \ {0}
      BY <1>8 DEF x, y
    <3>3. n \in Int /\ y * n <= x /\ x < y * n + y
      BY <3>1, <3>2, DivBounds
    <3>4. y * (n + 1) = y * n + y
      BY <3>2, <3>3
    <3> QED
      BY <3>3, <3>4 DEF x, y
  <2> QED
    BY <1>8, <2>1, <2>2
<1>10. ASSUME NEW k \in Int
       PROVE  \E kv, ac \in Int :
                   /\ Compute(a, [p EXCEPT !.batch = k]).total = w + kv + ac + ((w + kv + ac) * 15) \div 100
                   /\ T * kv + T * ac <= k * cost
                   /\ k * cost < T * kv + T * ac + 2 * T
  BY <1>1, <1>4, <1>6, ClaimsAre DEF T, cost, w
<1>11. ASSUME n > 0
       PROVE  Against(Compute(a, [p EXCEPT !.batch = n]), usable) = "fits"
  <2>1. PICK kv \in Int, ac \in Int :
            /\ Compute(a, [p EXCEPT !.batch = n]).total = w + kv + ac + ((w + kv + ac) * 15) \div 100
            /\ T * kv + T * ac <= n * cost
    BY <1>9, <1>10
  <2>2. 115 * cost * n <= (100 * usable - 115 * w) * T
    BY <1>9, <1>11 DEF room
  <2>3. Compute(a, [p EXCEPT !.batch = n]).total <= usable
    BY <1>2, <1>5, <1>6, <1>9, <2>1, <2>2, RoomHolds
  <2> QED
    BY <2>3 DEF Against
<1>12. Compute(a, [p EXCEPT !.batch = n + 1]).total + 4 > usable
  <2>0. n + 1 \in Int
    BY <1>9
  <2>1. PICK kv \in Int, ac \in Int :
            /\ Compute(a, [p EXCEPT !.batch = n + 1]).total = w + kv + ac + ((w + kv + ac) * 15) \div 100
            /\ (n + 1) * cost < T * kv + T * ac + 2 * T
    BY <1>10, <2>0
  <2>2. (100 * usable - 115 * w) * T < 115 * cost * (n + 1)
    BY <1>9 DEF room
  <2> QED
    BY <1>2, <1>5, <1>6, <2>0, <2>1, <2>2, RoomEnds
<1> QED
  BY <1>11, <1>12 DEF a, o, p, row, usable, n

\* A finite set of numbers that is not empty has a greatest.
LEMMA GreatestIs ==
    ASSUME NEW S \in SUBSET Int, IsFiniteSet(S), S # {}
    PROVE  Max(S) \in S /\ \A x \in S : x <= Max(S)
<1> DEFINE L == Listed(S, Ascending(S))
           n == Cardinality(S)
<1>1. StrictOrder(S, Ascending(S))
  BY AscendingOrder
<1>2. /\ n \in Nat
      /\ L \in [1..n -> S]
      /\ \A x \in S : \E k \in 1..n : L[k] = x
      /\ \A j, k \in 1..n : j < k => <<L[j], L[k]>> \in Ascending(S)
  BY <1>1, ListedOK
<1>3. PICK x \in S : TRUE
  OBVIOUS
<1> HIDE DEF L, n
<1>4. n \in 1..n
  BY <1>2, <1>3
<1>5. L[n] \in S
  BY <1>2, <1>4
<1>6. \A y \in S : y <= L[n]
  <2> SUFFICES ASSUME NEW y \in S PROVE y <= L[n]
    OBVIOUS
  <2>1. PICK k \in 1..n : L[k] = y
    BY <1>2
  <2>2. CASE k = n
    <3>1. y = L[n] /\ y \in Int
      BY <2>1, <2>2
    <3> QED
      BY <3>1
  <2>3. CASE k < n
    <3>1. <<L[k], L[n]>> \in Ascending(S)
      BY <1>2, <1>4, <2>3
    <3>2. L[k] < L[n]
      BY <3>1 DEF Ascending
    <3>3. y \in Int /\ L[n] \in Int /\ y < L[n]
      BY <1>5, <2>1, <3>2
    <3> QED
      BY <3>3
  <2> QED
    BY <1>2, <2>2, <2>3
<1>7. \E m \in S : \A y \in S : m >= y
  BY <1>5, <1>6
<1> QED
  BY <1>7 DEF Max

\* What holds at the end of a stretch and one place before wherever it holds
\* holds at its beginning: the last place where it does not cannot be.
LEMMA Backwards ==
    ASSUME NEW n \in Nat, NEW Held, n + 1 \in Held,
           \A i \in 1..n : i + 1 \in Held => i \in Held
    PROVE  \A i \in 1..(n + 1) : i \in Held
<1> DEFINE bad == {i \in 1..n : i \notin Held}
<1> SUFFICES ASSUME bad # {} PROVE FALSE
  OBVIOUS
<1>1. IsFiniteSet(1..n)
  BY FS_Interval
<1>2. IsFiniteSet(bad)
  BY <1>1, FS_Subset
<1>3. bad \in SUBSET Int
  OBVIOUS
<1>4. Max(bad) \in bad /\ \A i \in bad : i <= Max(bad)
  BY <1>2, <1>3, GreatestIs
<1> QED
  BY <1>4

\* What the loop of EnginePlan reads from a place on.
From(args, read, i) ==
    IF i > Len(args) THEN <<>>
    ELSE IF args[i].eq THEN <<args[i]>> \o read[i + 1]
    ELSE IF i < Len(args) /\ args[i + 1].flag = ""
    THEN <<[args[i] EXCEPT !.num = args[i + 1].num, !.name = args[i + 1].name]>> \o read[i + 2]
    ELSE read[i + 1]

\* There is a reading of the arguments, from each place on.
LEMMA ReadIs ==
    ASSUME NEW args \in Seq(EngineArg)
    PROVE  \E read : /\ settings(args) = read[1]
                     /\ \A i \in 1..(Len(args) + 2) : read[i] = From(args, read, i)
<1> DEFINE n == Len(args)
           D == 1..(n + 2)
           Body(f) == [i \in D |-> From(args, f, i)]
           read == CHOOSE f : f = Body(f)
           Right(m, f) == DOMAIN f = D /\ f = [i \in D |-> f[i]] /\ \A i \in D : i >= m => f[i] = From(args, f, i)
           Held == {m \in 1..(n + 1) : \E f : Right(m, f)}
<1>1. n \in Nat
  OBVIOUS
<1>2. n + 1 \in Held
  <2> DEFINE f == [i \in D |-> <<>>]
  <2>1. \A i \in D : i >= n + 1 => f[i] = From(args, f, i)
    <3> SUFFICES ASSUME NEW i \in D, i >= n + 1 PROVE f[i] = From(args, f, i)
      OBVIOUS
    <3>1. i > Len(args)
      BY <1>1
    <3>2. f[i] = <<>>
      OBVIOUS
    <3> QED
      BY <3>1, <3>2 DEF From
  <2>2. Right(n + 1, f)
    BY <2>1
  <2> HIDE DEF f, Right
  <2> QED
    BY <1>1, <2>2
<1>3. ASSUME NEW m \in 1..n, m + 1 \in Held
      PROVE  m \in Held
  <2>1. PICK f : Right(m + 1, f)
    BY <1>3
  <2> DEFINE g == [i \in D |-> IF i = m THEN From(args, f, m) ELSE f[i]]
  <2>2. \A i \in D : i >= m => From(args, g, i) = From(args, f, i)
    <3> SUFFICES ASSUME NEW i \in D, i >= m PROVE From(args, g, i) = From(args, f, i)
      OBVIOUS
    <3>1. CASE i > Len(args)
      BY <3>1 DEF From
    <3>2. CASE i <= Len(args)
      <4>1. g[i + 1] = f[i + 1] /\ g[i + 2] = f[i + 2]
        BY <1>1, <3>2
      <4> HIDE DEF g
      <4> QED
        BY <4>1 DEF From
    <3> QED
      BY <1>1, <3>1, <3>2
  <2>3. Right(m, g)
    <3>1. \A i \in D : i >= m => g[i] = From(args, f, i)
      BY <1>1, <2>1
    <3> HIDE DEF From
    <3>2. \A i \in D : i >= m => g[i] = From(args, g, i)
      BY <2>2, <3>1
    <3> QED
      BY <3>2
  <2> HIDE DEF g, Right
  <2> QED
    BY <1>1, <2>3
<1>4. 1 \in Held
  <2> HIDE DEF Held
  <2>1. \A i \in 1..(n + 1) : i \in Held
    BY <1>1, <1>2, <1>3, Backwards
  <2> QED
    BY <1>1, <2>1
<1>5. \E f : f = Body(f)
  <2>1. PICK f : Right(1, f)
    BY <1>4
  <2>2. \A i \in D : f[i] = From(args, f, i)
    BY <1>1, <2>1
  <2>3. f = [i \in D |-> f[i]]
    BY <2>1
  <2>4. f = Body(f)
    BY <2>2, <2>3
  <2> QED
    BY <2>4
<1>6. read = Body(read)
  <2> HIDE DEF Body
  <2> QED
    BY <1>5
<1>7. \A i \in D : read[i] = From(args, read, i)
  <2> HIDE DEF read
  <2> QED
    BY <1>6
<1>8. settings(args) = read[1]
  BY DEF settings, From
<1> HIDE DEF read
<1> QED
  BY <1>7, <1>8

\* The settings read are settings.
LEMMA SettingsAre ==
    ASSUME NEW args \in Seq(EngineArg)
    PROVE  settings(args) \in Seq(EngineArg)
<1> DEFINE n == Len(args)
<1>1. n \in Nat /\ \A i \in 1..n : args[i] \in EngineArg
  OBVIOUS
<1>2. PICK read : /\ settings(args) = read[1]
                  /\ \A i \in 1..(n + 2) : read[i] = From(args, read, i)
  BY ReadIs
<1> DEFINE Held == {i \in 1..(n + 1) : read[i] \in Seq(EngineArg) /\ read[i + 1] \in Seq(EngineArg)}
<1>3. n + 1 \in Held
  <2>1. /\ n + 1 \in 1..(n + 2) /\ n + 2 \in 1..(n + 2)
        /\ n + 1 > Len(args) /\ n + 2 > Len(args)
        /\ (n + 1) + 1 = n + 2 /\ n + 1 \in 1..(n + 1)
    BY <1>1
  <2>2. read[n + 1] = <<>> /\ read[n + 2] = <<>>
    BY <1>2, <2>1 DEF From
  <2>3. read[n + 1] \in Seq(EngineArg) /\ read[(n + 1) + 1] \in Seq(EngineArg)
    <3>1. <<>> \in Seq(EngineArg)
      OBVIOUS
    <3>2. read[(n + 1) + 1] = read[n + 2]
      BY <2>1
    <3> QED
      BY <2>2, <3>1, <3>2, Zenon
  <2> QED
    BY <2>1, <2>3
<1>4. ASSUME NEW i \in 1..n, i + 1 \in Held
      PROVE  i \in Held
  <2>1. read[i + 1] \in Seq(EngineArg) /\ read[i + 2] \in Seq(EngineArg)
    <3>1. (i + 1) + 1 = i + 2
      OBVIOUS
    <3> QED
      BY <1>4, <3>1
  <2>2. args[i] \in EngineArg /\ i \in 1..(n + 2) /\ ~(i > n) /\ i \in 1..(n + 1)
    BY <1>1
  <2> SUFFICES read[i] \in Seq(EngineArg)
    BY <2>1, <2>2
  <2> DEFINE valued == i < n /\ args[i + 1].flag = ""
  <2>3. CASE args[i].eq
    <3>1. read[i] = <<args[i]>> \o read[i + 1]
      BY <1>2, <2>2, <2>3, Zenon DEF From
    <3> QED
      BY <2>1, <2>2, <3>1
  <2>4. CASE ~args[i].eq /\ valued
    <3>1. read[i] = <<[args[i] EXCEPT !.num = args[i + 1].num, !.name = args[i + 1].name]>> \o read[i + 2]
      BY <1>2, <2>2, <2>4, Zenon DEF From
    <3>0. i < n
      BY <2>4
    <3> HIDE DEF valued
    <3>2. args[i + 1] \in EngineArg
      BY <1>1, <3>0
    <3>3. \A p, q \in EngineArg : [p EXCEPT !.num = q.num, !.name = q.name] \in EngineArg
      BY DEF EngineArg
    <3>4. [args[i] EXCEPT !.num = args[i + 1].num, !.name = args[i + 1].name] \in EngineArg
      BY <2>2, <3>2, <3>3
    <3> QED
      BY <2>1, <3>1, <3>4
  <2>5. CASE ~args[i].eq /\ ~valued
    <3>1. read[i] = read[i + 1]
      BY <1>2, <2>2, <2>5, Zenon DEF From
    <3> QED
      BY <2>1, <3>1, Zenon
  <2> QED
    BY <2>3, <2>4, <2>5, Zenon
<1> HIDE DEF Held
<1>5. \A i \in 1..(n + 1) : i \in Held
  BY <1>1, <1>3, <1>4, Backwards
<1> QED
  BY <1>1, <1>2, <1>5 DEF Held

\* The last setting of a flag, if there is one.
LEMMA LastIs ==
    ASSUME NEW all \in Seq(EngineArg), NEW f, NEW d
    PROVE  /\ said(all, f) = {} => lastNum(all, f, d) = d /\ lastName(all, f, d) = d
           /\ said(all, f) # {} => \E k \in said(all, f) :
                  /\ \A j \in said(all, f) : j <= k
                  /\ lastNum(all, f, d) = all[k].num /\ lastName(all, f, d) = all[k].name
                  /\ all[k] \in EngineArg
<1>1. said(all, f) \in SUBSET Int /\ IsFiniteSet(said(all, f))
  <2>1. IsFiniteSet(DOMAIN all) /\ DOMAIN all = 1..Len(all)
    BY SeqDomain
  <2>2. said(all, f) \in SUBSET (DOMAIN all)
    BY DEF said
  <2> QED
    BY <2>1, <2>2, FS_Subset
<1>2. ASSUME said(all, f) # {}
      PROVE  \E k \in said(all, f) :
                  /\ \A j \in said(all, f) : j <= k
                  /\ lastNum(all, f, d) = all[k].num /\ lastName(all, f, d) = all[k].name
                  /\ all[k] \in EngineArg
  <2> DEFINE k == Max(said(all, f))
  <2>1. k \in said(all, f) /\ \A j \in said(all, f) : j <= k
    BY <1>1, <1>2, GreatestIs
  <2>2. all[k] \in EngineArg
    BY <2>1 DEF said
  <2>3. lastNum(all, f, d) = all[k].num /\ lastName(all, f, d) = all[k].name
    BY <1>2 DEF lastNum, lastName
  <2> HIDE DEF k
  <2> QED
    BY <2>1, <2>2, <2>3
<1>3. said(all, f) = {} => lastNum(all, f, d) = d /\ lastName(all, f, d) = d
  BY DEF lastNum, lastName
<1> QED
  BY <1>2, <1>3

\* The plan read is a plan at a known precision.
LEMMA PlanIs ==
    ASSUME NEW args \in Seq(EngineArg), NEW par
    PROVE  LET p == EnginePlan(args, par).plan IN
           /\ p = [weights |-> p.weights, kv |-> p.kv, len |-> p.len, batch |-> p.batch, tp |-> par.tp, ep |-> par.ep]
           /\ p.weights \in Precisions /\ p.len \in Int /\ p.batch \in Int
<1> DEFINE all == settings(args)
           w == lastName(all, "quantization", "fp16")
           len == lastNum(all, "max-model-len", 0)
           batch == lastNum(all, "max-num-seqs", 1)
<1>1. all \in Seq(EngineArg)
  BY SettingsAre
<1>2. \E kv : EnginePlan(args, par).plan =
                   [weights |-> w, kv |-> kv, len |-> len, batch |-> batch, tp |-> par.tp, ep |-> par.ep]
  BY Zenon DEF EnginePlan
<1> HIDE DEF all
<1>3. ASSUME NEW f, NEW d \in Int PROVE lastNum(all, f, d) \in Int
  <2>1. CASE said(all, f) = {}
    BY <1>1, <2>1, LastIs
  <2>2. CASE said(all, f) # {}
    <3>1. PICK k : lastNum(all, f, d) = all[k].num /\ all[k] \in EngineArg
      BY <1>1, <2>2, LastIs
    <3> QED
      BY <3>1 DEF EngineArg
  <2> QED
    BY <2>1, <2>2
<1>4. w \in Precisions
  <2>1. CASE said(all, "quantization") = {}
    <3>1. w = "fp16"
      BY <1>1, <2>1, LastIs
    <3> QED
      BY <3>1 DEF Precisions, BytesPerParam
  <2>2. CASE said(all, "quantization") # {}
    <3>1. PICK k \in said(all, "quantization") : w = all[k].name
      BY <1>1, <2>2, LastIs
    <3>2. legible(all[k]) /\ all[k].flag = "quantization"
      BY <3>1 DEF said
    <3>3. all[k].name \in Precisions
      BY <3>2 DEF legible
    <3> QED
      BY <3>1, <3>3
  <2> QED
    BY <2>1, <2>2
<1>5. len \in Int /\ batch \in Int
  BY <1>3
<1> HIDE DEF w, len, batch
<1>6. PICK kv : EnginePlan(args, par).plan =
                   [weights |-> w, kv |-> kv, len |-> len, batch |-> batch, tp |-> par.tp, ep |-> par.ep]
  BY <1>2
<1> QED
  BY <1>4, <1>5, <1>6

\* The larger of two quotients.
LEMMA DivCompare ==
    ASSUME NEW x \in Int, NEW y \in Nat \ {0}, NEW u \in Int, NEW v \in Nat \ {0}, x * v <= u * y
    PROVE  x \div y <= u \div v
<1> DEFINE q == x \div y
           r == u \div v
<1>1. q \in Int /\ y * q <= x /\ r \in Int /\ u < v * r + v
  BY DivBounds
<1> HIDE DEF q, r
<1>2. v * (y * q) <= v * x
  BY <1>1, Grows, Regroup
<1>3. y * u < y * (v * r + v)
  BY <1>1, Grows, Regroup
<1>4. v * (y * q) = (y * v) * q
  BY <1>1, Regroup
<1>5. y * (v * r + v) = (y * v) * (r + 1)
  BY <1>1, Regroup, Spread
<1>6. v * x = x * v /\ y * u = u * y
  OBVIOUS
<1>7. y * v \in Nat \ {0} /\ x * v \in Int /\ u * y \in Int /\ (y * v) * q \in Int /\ (y * v) * (r + 1) \in Int
  <2>1. y * v \in Nat \ {0} /\ x * v \in Int /\ u * y \in Int
    BY Product
  <2>2. \A m \in Nat \ {0} : m * q \in Int /\ m * (r + 1) \in Int
    BY <1>1
  <2> QED
    BY <2>1, <2>2
<1>8. (y * v) * q < (y * v) * (r + 1)
  BY <1>2, <1>3, <1>4, <1>5, <1>6, <1>7
<1>9. q < r + 1
  <2> DEFINE m == y * v
  <2> HIDE DEF m
  <2>1. m \in Nat \ {0} /\ m * q < m * (r + 1)
    BY <1>7, <1>8 DEF m
  <2> QED
    BY <1>1, <2>1, Cancel
<1> QED
  BY <1>1, <1>9 DEF q, r

\* The model of a deploy, and the plan its arguments state.
LEMMA PreflightIs ==
    ASSUME BudgetInput, part = "preflight", input.arch # <<>>
    PROVE  LET p == EnginePlan(input.args, input.par).plan IN
           /\ input.arch[1] \in ModelArch
           /\ p = [weights |-> p.weights, kv |-> p.kv, len |-> p.len, batch |-> p.batch,
                   tp |-> input.par.tp, ep |-> input.par.ep]
           /\ p.weights \in Precisions /\ p.len \in Int /\ p.batch \in Int
           /\ input.par.tp \in Nat /\ input.par.ep \in Nat
<1>1. input \in Preflight
  BY DEF BudgetInput
<1>2. input.args \in Seq(EngineArg) /\ input.arch \in Seq(ModelArch)
  BY <1>1 DEF Preflight
<1>3. input.par \in [tp : Nat, ep : Nat]
  BY <1>1 DEF Preflight
<1>4. input.arch[1] \in ModelArch
  BY <1>2, FirstIs
<1> QED
  BY <1>2, <1>3, <1>4, PlanIs

\* No card holds more experts than the budget counts for one.
LEMMA Fullest == BudgetInput => FullestCardBudgeted
<1> SUFFICES ASSUME BudgetInput, part = "preflight", input.arch # <<>>, input.par.ep > 1,
                    input.arch[1].experts > 0, expertShapeCheck(input)
             PROVE  LET a == input.arch[1]
                        ep == input.par.ep
                        plan == EnginePlan(input.args, input.par).plan
                        most == (a.experts + ep - 1) \div ep
                        rest == a.params - RoutedExpertParams(a)
                        held == (rest * BytesPerParam[plan.weights]) \div (100 * TensorWidth(plan))
                                    + (most * (RoutedExpertParams(a) \div a.experts) * BytesPerParam[plan.weights]) \div 100
                    IN  held <= weightBytesPerCard(a, plan) + 1
  BY DEF FullestCardBudgeted
<1> DEFINE a == input.arch[1]
           E == input.par.ep
           p == EnginePlan(input.args, input.par).plan
           T == TensorWidth(p)
           R == RoutedExpertParams(a)
           B == BytesPerParam[p.weights]
           w == weightBytesPerCard(a, p)
           most == (a.experts + E - 1) \div E
           rest == a.params - R
           m == moeLayers(a) * expertParams(a)
           h1 == (rest * B) \div (100 * T)
           h2 == (most * (R \div a.experts) * B) \div 100
<1>1. /\ a \in ModelArch
      /\ p = [weights |-> p.weights, kv |-> p.kv, len |-> p.len, batch |-> p.batch, tp |-> input.par.tp, ep |-> E]
      /\ p.weights \in Precisions /\ input.par.tp \in Nat /\ E \in Nat
  BY PreflightIs
<1>2. E > 1 /\ a.experts > 0
  OBVIOUS
<1>a. E <= 1 \/ a.experts <= 0 \/ a.experts % E = 0
  BY Zenon DEF expertShapeCheck, ValidateExpertShape
<1> HIDE DEF p, a, E
<1>3. a.experts \in Nat \ {0} /\ a.params \in Nat
  BY <1>1, <1>2 DEF ModelArch
<1>4. a.experts % E = 0
  BY <1>1, <1>2, <1>3, <1>a
<1>5. T \in Nat \ {0} /\ expertCards(p) = E
  <2>1. p.tp \in Nat /\ p.ep = E
    BY <1>1
  <2> QED
    BY <1>1, <1>2, <2>1 DEF TensorWidth, expertCards
<1>6. m \in Nat /\ R \in Nat /\ R = a.experts * m
  <2>1. moeLayers(a) \in Nat /\ expertParams(a) \in Nat /\ R \in Nat
        /\ R = moeLayers(a) * a.experts * expertParams(a)
    BY <1>1, <1>3, ExpertsAre
  <2>2. \A x, y, z \in Nat : x * y * z = y * (x * z) /\ x * z \in Nat
    OBVIOUS
  <2> QED
    BY <1>3, <2>1, <2>2
<1>7. w \in Int /\ B \in Nat /\ (rest * E + R * T) * B < (100 * T * E) * (w + 1)
  <2>1. E \in Nat \ {0}
    BY <1>1, <1>2
  <2> QED
    BY <1>1, <1>5, <2>1, WeightsAre
<1> HIDE DEF m, R, T, B, w
<1>8. most \in Nat /\ E * most = a.experts
  <2>1. \A x \in Nat \ {0}, y \in Nat \ {0} : x % y = 0 => (x + y - 1) \div y \in Nat /\ y * ((x + y - 1) \div y) = x
    <3> SUFFICES ASSUME NEW x \in Nat \ {0}, NEW y \in Nat \ {0}, x % y = 0
                 PROVE  (x + y - 1) \div y \in Nat /\ y * ((x + y - 1) \div y) = x
      OBVIOUS
    <3> DEFINE k == x \div y
               c == (x + y - 1) \div y
    <3>1. k \in Nat /\ y * k = x
      BY DivExact
    <3>2. c \in Int /\ y * c <= x + y - 1 /\ x + y - 1 < y * c + y
      BY DivBounds
    <3> HIDE DEF k, c
    <3>3. y * c < y * (k + 1) /\ y * (k - 1) < y * c
      BY <3>1, <3>2, Spread
    <3>4. c < k + 1 /\ k - 1 < c
      BY <3>1, <3>2, <3>3, Cancel
    <3>5. c = k
      BY <3>1, <3>2, <3>4
    <3> QED
      BY <3>1, <3>5 DEF c
  <2>2. E \in Nat \ {0}
    BY <1>1, <1>2
  <2> QED
    BY <1>3, <1>4, <2>1, <2>2
<1>9. R \div a.experts = m
  <2>1. \A x \in Nat \ {0}, y \in Nat : (x * y) \div x = y
    <3> SUFFICES ASSUME NEW x \in Nat \ {0}, NEW y \in Nat PROVE (x * y) \div x = y
      OBVIOUS
    <3> DEFINE q == (x * y) \div x
    <3>1. x * y \in Int
      OBVIOUS
    <3>2. q \in Int /\ x * q <= x * y /\ x * y < x * q + x
      BY <3>1, DivBounds
    <3> HIDE DEF q
    <3>3. q <= y /\ y < q + 1
      <4>1. x * y < x * (q + 1)
        BY <3>2, Spread
      <4> QED
        BY <3>2, <4>1, Cancel
    <3> QED
      BY <3>2, <3>3 DEF q
  <2> QED
    BY <1>3, <1>6, <2>1
<1>10. h1 \in Int /\ (100 * T) * h1 <= rest * B
  <2>1. rest \in Int
    BY <1>3, <1>6
  <2>2. rest * B \in Int /\ 100 * T \in Nat \ {0}
    BY <1>5, <1>7, <2>1, Regroup
  <2> HIDE DEF rest
  <2> QED
    BY <2>2, DivBounds
<1>11. h2 \in Int /\ 100 * h2 <= (most * m) * B
  <2>1. most * m \in Nat
    BY <1>6, <1>8, Product
  <2>2. (most * m) * B \in Int
    BY <1>7, <2>1, Product
  <2> HIDE DEF most
  <2>3. h2 = ((most * m) * B) \div 100
    BY <1>9
  <2> QED
    BY <2>2, <2>3, DivBounds
<1>12. rest \in Int
  BY <1>3, <1>6
<1> HIDE DEF h1, h2, most, rest
<1>13. (100 * T * E) * h1 <= (rest * E) * B
  <2>1. ((100 * T) * h1) * E <= (rest * B) * E
    <3>1. (100 * T) * h1 \in Int /\ rest * B \in Int
      <4>1. 100 * T \in Int
        BY <1>5
      <4> QED
        BY <1>7, <1>10, <1>12, <4>1, Regroup
    <3> QED
      BY <1>1, <1>10, <3>1, Grows
  <2>2. \A t, e, h, r, b \in Int : ((100 * t) * h) * e = (100 * t * e) * h /\ (r * b) * e = (r * e) * b
    OBVIOUS
  <2> QED
    BY <1>1, <1>5, <1>7, <1>10, <1>12, <2>1, <2>2
<1>14. (100 * T * E) * h2 <= (R * T) * B
  <2>1. T * E \in Nat
    BY <1>1, <1>5, Product
  <2>2. (100 * h2) * (T * E) <= ((most * m) * B) * (T * E)
    <3>1. 100 * h2 \in Int /\ (most * m) * B \in Int
      <4>1. most * m \in Int
        BY <1>6, <1>8, Regroup
      <4> QED
        BY <1>7, <1>11, <4>1, Regroup
    <3> QED
      BY <1>11, <2>1, <3>1, Grows
  <2>3. (100 * h2) * (T * E) = (100 * T * E) * h2
    <3>1. \A t, e, h \in Int : (100 * h) * (t * e) = (100 * t * e) * h
      OBVIOUS
    <3> QED
      BY <1>1, <1>5, <1>11, <3>1
  <2>4. ((most * m) * B) * (T * E) = (R * T) * B
    <3>1. \A t, e, x, y, b \in Int : ((x * y) * b) * (t * e) = (((e * x) * y) * t) * b
      OBVIOUS
    <3>2. ((most * m) * B) * (T * E) = (((E * most) * m) * T) * B
      BY <1>1, <1>5, <1>6, <1>7, <1>8, <3>1
    <3> QED
      BY <1>6, <1>8, <3>2
  <2> QED
    BY <2>2, <2>3, <2>4
<1>15. (100 * T * E) * (h1 + h2) < (100 * T * E) * (w + 1)
  <2> DEFINE k == 100 * T * E
             X == (rest * E) * B
             Y == (R * T) * B
  <2>1. k \in Int
    BY <1>1, <1>5
  <2>2. (rest * E + R * T) * B = X + Y /\ X \in Int /\ Y \in Int
    <3>0. \A x, y \in Int : x * y \in Int
      OBVIOUS
    <3>1. rest * E \in Int /\ R * T \in Int
      BY <1>1, <1>5, <1>6, <1>12, <3>0
    <3>2. \A x, y, b \in Int : (x + y) * b = x * b + y * b /\ x * b \in Int /\ y * b \in Int
      OBVIOUS
    <3> QED
      BY <1>7, <3>1, <3>2
  <2>3. k * h1 <= X /\ k * h2 <= Y /\ X + Y < k * (w + 1)
    BY <1>7, <1>13, <1>14, <2>2
  <2> HIDE DEF k, X, Y
  <2>4. k * (h1 + h2) = k * h1 + k * h2 /\ k * h1 \in Int /\ k * h2 \in Int /\ k * (w + 1) \in Int
    <3>1. w + 1 \in Int
      BY <1>7
    <3> QED
      BY <1>10, <1>11, <2>1, <3>1, Spread, Regroup
  <2>5. k * (h1 + h2) < k * (w + 1)
    BY <2>2, <2>3, <2>4
  <2> QED
    BY <2>5 DEF k
<1>16. h1 + h2 < w + 1
  <2>1. \A k \in Nat \ {0}, x, y \in Int : k * x < k * y => x < y
    BY Cancel
  <2>2. 100 * T * E \in Nat \ {0}
    <3>1. T * E \in Nat \ {0}
      BY <1>1, <1>2, <1>5, Product
    <3>2. 100 * T * E = 100 * (T * E)
      BY <1>1, <1>5
    <3> QED
      BY <3>1, <3>2
  <2>3. h1 + h2 \in Int /\ w + 1 \in Int
    BY <1>7, <1>10, <1>11
  <2> HIDE DEF T
  <2> QED
    BY <1>15, <2>1, <2>2, <2>3
<1>17. h1 + h2 <= w + 1
  BY <1>7, <1>10, <1>11, <1>16
<1> QED
  BY <1>17 DEF h1, h2, w, most, rest, R, T, B, p, a, E

\* The same amount over fewer cards is more on each.
LEMMA FewerCards ==
    ASSUME NEW x \in Nat, NEW s \in Nat \ {0}, NEW t \in Nat \ {0}, s <= t
    PROVE  x \div t <= x \div s
<1>1. x * s <= x * t
  <2>1. s * x <= t * x
    BY Grows
  <2> QED
    BY <2>1
<1>2. x \in Int
  OBVIOUS
<1> QED
  BY <1>1, <1>2, DivCompare, Zenon

\* What one card holds of the weights grows as the plan narrows, unless the
\* experts have cards of their own.
LEMMA NarrowWeights ==
    ASSUME NEW a \in ModelArch, NEW p, NEW q, p.weights \in Precisions, q.weights = p.weights, q.ep = p.ep,
           p.ep \in Nat, p.ep <= 1, p.ep = 1 => RoutedExpertParams(a) <= a.params,
           TensorWidth(p) \in Nat \ {0}, TensorWidth(q) \in Nat \ {0}, TensorWidth(p) <= TensorWidth(q)
    PROVE  weightBytesPerCard(a, q) <= weightBytesPerCard(a, p)
<1> DEFINE R == RoutedExpertParams(a)
           B == BytesPerParam[p.weights]
           s == TensorWidth(p)
           t == TensorWidth(q)
           A == a.params - R
<1>1. R \in Nat /\ a.params \in Nat
  BY ExpertsAre DEF ModelArch
<1>2. B \in Nat
  BY DEF Precisions, BytesPerParam
<1>3. s \in Nat \ {0} /\ t \in Nat \ {0} /\ s <= t
  OBVIOUS
<1>4. A \in Int
  BY <1>1
<1>5. CASE p.ep < 1
  <2>1. expertCards(p) = s /\ expertCards(q) = t
    BY <1>5 DEF expertCards
  <2>2. /\ weightBytesPerCard(a, p) = ((A * s + R * s) * B) \div (100 * s * s)
        /\ weightBytesPerCard(a, q) = ((A * t + R * t) * B) \div (100 * t * t)
    BY <2>1 DEF weightBytesPerCard
  <2>3. A + R = a.params
    BY <1>1
  <2>4. ASSUME NEW x \in Nat \ {0} PROVE (A * x + R * x) * B = (a.params * B) * x /\ 100 * x * x \in Nat \ {0}
    <3>0. A * x + R * x = (A + R) * x
      BY <1>1, <1>4
    <3>1. (A * x + R * x) * B = (a.params * x) * B
      BY <2>3, <3>0
    <3>2. (a.params * x) * B = (a.params * B) * x
      BY <1>1, <1>2
    <3>3. x * x \in Nat \ {0}
      BY Product
    <3>4. 100 * x * x = 100 * (x * x)
      BY Regroup
    <3> QED
      BY <3>1, <3>2, <3>3, <3>4
  <2> DEFINE X == a.params * B
  <2>5. X \in Nat
    BY <1>1, <1>2, Product
  <2> HIDE DEF X, s, t, A, R, B
  <2>6. X * s \in Int /\ X * t \in Int /\ 100 * s * s \in Nat \ {0} /\ 100 * t * t \in Nat \ {0}
    BY <1>3, <2>4, <2>5, Regroup
  <2>7. (X * t) * (100 * s * s) <= (X * s) * (100 * t * t)
    <3> DEFINE m == 100 * X * (s * t)
    <3>1. m \in Nat
      <4>1. s * t \in Nat
        BY <1>3, Product
      <4>2. X * (s * t) \in Nat
        BY <2>5, <4>1, Product
      <4>3. m = 100 * (X * (s * t))
        BY <2>5, <4>1, Regroup
      <4> QED
        BY <4>2, <4>3
    <3>2. (X * t) * (100 * s * s) = m * s /\ (X * s) * (100 * t * t) = m * t
      <4>1. \A x, i, j \in Int : (x * j) * (100 * i * i) = (100 * x * (i * j)) * i
                                  /\ (x * i) * (100 * j * j) = (100 * x * (i * j)) * j
        OBVIOUS
      <4> QED
        BY <1>3, <2>5, <4>1
    <3> HIDE DEF m
    <3>3. s * m <= t * m
      BY <1>3, <3>1, Grows
    <3> QED
      BY <1>3, <3>1, <3>2, <3>3
  <2>8. (X * t) \div (100 * t * t) <= (X * s) \div (100 * s * s)
    BY <2>6, <2>7, DivCompare
  <2>9. (A * s + R * s) * B = X * s /\ (A * t + R * t) * B = X * t
    BY <1>3, <2>4 DEF X
  <2> QED
    BY <2>2, <2>8, <2>9
<1>6. CASE p.ep = 1
  <2>1. expertCards(p) = 1 /\ expertCards(q) = 1
    BY <1>6 DEF expertCards
  <2>2. /\ weightBytesPerCard(a, p) = ((A * 1 + R * s) * B) \div (100 * s * 1)
        /\ weightBytesPerCard(a, q) = ((A * 1 + R * t) * B) \div (100 * t * 1)
    BY <2>1 DEF weightBytesPerCard
  <2>3. A \in Nat
    BY <1>1, <1>6
  <2> HIDE DEF s, t, A, R, B
  <2>4. /\ A * 1 = A /\ 100 * s * 1 = 100 * s /\ 100 * t * 1 = 100 * t
        /\ 100 * s \in Nat \ {0} /\ 100 * t \in Nat \ {0}
    BY <1>3, <2>3
  <2>5. (A + R * s) * B \in Int /\ (A + R * t) * B \in Int
    <3>1. R * s \in Int /\ R * t \in Int
      BY <1>1, <1>3, Regroup
    <3> QED
      BY <1>2, <2>3, <3>1, Regroup
  <2>6. ((A + R * t) * B) * (100 * s) <= ((A + R * s) * B) * (100 * t)
    <3> DEFINE c == 100 * (A * B)
               d == (100 * (R * B)) * (s * t)
    <3>1. c \in Nat /\ d \in Int
      <4>1. A * B \in Nat /\ R * B \in Nat /\ s * t \in Nat
        BY <1>1, <1>2, <1>3, <2>3, Product
      <4>2. 100 * (R * B) \in Int
        BY <4>1
      <4> QED
        BY <4>1, <4>2, Regroup
    <3>2. ((A + R * t) * B) * (100 * s) = s * c + d /\ ((A + R * s) * B) * (100 * t) = t * c + d
      <4>1. \A x, r, b, i, j \in Int :
                ((x + r * j) * b) * (100 * i) = i * (100 * (x * b)) + (100 * (r * b)) * (i * j)
                /\ ((x + r * i) * b) * (100 * j) = j * (100 * (x * b)) + (100 * (r * b)) * (i * j)
        OBVIOUS
      <4> QED
        BY <1>1, <1>2, <1>3, <2>3, <4>1
    <3> HIDE DEF c, d
    <3>3. s * c <= t * c /\ s * c \in Int /\ t * c \in Int
      BY <1>3, <3>1, Grows, Regroup
    <3> QED
      BY <3>1, <3>2, <3>3
  <2>7. ((A + R * t) * B) \div (100 * t) <= ((A + R * s) * B) \div (100 * s)
    BY <2>4, <2>5, <2>6, DivCompare
  <2> QED
    BY <2>2, <2>4, <2>7
<1> QED
  BY <1>5, <1>6

\* A machine a capacity is known of.
LEMMA CapacityIs ==
    ASSUME BudgetInput, part = "preflight"
    PROVE  deployCardCapacity(input) \in Machine
<1>1. input.pinned \in Seq(Machine) /\ input.specs \in Seq(Machine)
  BY DEF BudgetInput, Preflight
<1> DEFINE sized == Keep(input.specs, LAMBDA r : r.card > 0)
           P == {i \in DOMAIN input.specs : input.specs[i].card > 0}
<1>2. sized = Picked(input.specs, P)
  BY DEF Keep
<1>3. sized \in Seq(Machine)
  BY <1>1, <1>2, PickedIs
<1>4. deployCardCapacity(input) =
        IF input.pinned # <<>> THEN Head(input.pinned)
        ELSE IF sized = <<>> THEN [card |-> 0, cards |-> 0] ELSE Head(sized)
  BY DEF deployCardCapacity
<1> HIDE DEF sized
<1>5. [card |-> 0, cards |-> 0] \in Machine
  BY DEF Machine
<1>6. ASSUME NEW s \in Seq(Machine), s # <<>> PROVE Head(s) \in Machine
  BY <1>6
<1> QED
  BY <1>1, <1>3, <1>4, <1>5, <1>6

\* A refused deploy, taken apart.
LEMMA RefusedIs ==
    ASSUME NEW req, budgetCheck(req) = "overcommitted"
    PROVE  LET got == EnginePlan(req.args, req.par)
               cap == deployCardCapacity(req)
               plan == IF cap.cards > 0 /\ req.par.ep <= 1 THEN [got.plan EXCEPT !.tp = cap.cards] ELSE got.plan
           IN  /\ req.arch # <<>>
               /\ ~(req.arch[1].quant # "")
               /\ ValidateArch(req.arch[1]) /\ ValidatePlan(plan)
               /\ Against(Compute(req.arch[1], plan), UsableBytes(cap.card, DefaultUtilization)) = "overcommitted"
<1> DEFINE got == EnginePlan(req.args, req.par)
           cap == deployCardCapacity(req)
           plan == IF cap.cards > 0 /\ req.par.ep <= 1 THEN [got.plan EXCEPT !.tp = cap.cards] ELSE got.plan
           seen == Against(Compute(req.arch[1], plan), UsableBytes(cap.card, DefaultUtilization))
           passed == req.external \/ ~got.usable \/ cap.card <= 0 \/ req.arch = <<>>
           unfit == req.arch[1].quant # "" \/ ~ValidateArch(req.arch[1]) \/ ~ValidatePlan(plan)
<1>1. budgetCheck(req) = IF passed THEN "skipped" ELSE IF unfit THEN "skipped" ELSE seen
  BY Zenon DEF budgetCheck
<1>2. ~passed /\ ~unfit /\ seen = "overcommitted"
  <2> HIDE DEF passed, unfit, seen
  <2>1. "skipped" # "overcommitted"
    OBVIOUS
  <2> QED
    BY <1>1, <2>1, Zenon
<1> QED
  BY <1>2, Zenon

\* A refused deploy does not fit the width it is really given.
LEMMA RefusedRightly == BudgetInput => RefusalIsCertain
<1> SUFFICES ASSUME BudgetInput, part = "preflight", budgetCheck(input) = "overcommitted",
                    input.par.tp <= deployCardCapacity(input).cards
             PROVE  LET cap == deployCardCapacity(input)
                        got == EnginePlan(input.args, input.par)
                        packed == [got.plan EXCEPT !.weights = "mxfp4"]
                        plan == IF input.arch[1].quant # "" THEN packed ELSE got.plan
                    IN  Compute(input.arch[1], plan).working > UsableBytes(cap.card, DefaultUtilization)
  BY DEF RefusalIsCertain
<1> DEFINE cap == deployCardCapacity(input)
           p == EnginePlan(input.args, input.par).plan
           a == input.arch[1]
           usable == UsableBytes(cap.card, DefaultUtilization)
           q == IF cap.cards > 0 /\ input.par.ep <= 1 THEN [p EXCEPT !.tp = cap.cards] ELSE p
           plan == IF a.quant # "" THEN [p EXCEPT !.weights = "mxfp4"] ELSE p
<1>1. /\ input.arch # <<>> /\ plan = p
      /\ ValidateArch(a) /\ ValidatePlan(q)
      /\ Against(Compute(a, q), usable) = "overcommitted"
  <2>1. /\ input.arch # <<>> /\ ~(a.quant # "")
        /\ ValidateArch(a) /\ ValidatePlan(q)
        /\ Against(Compute(a, q), usable) = "overcommitted"
    BY RefusedIs, Zenon
  <2>2. plan = p
    BY <2>1, Zenon
  <2> QED
    BY <2>1, <2>2, Zenon
<1> HIDE DEF plan
<1>2. /\ a \in ModelArch
      /\ p = [weights |-> p.weights, kv |-> p.kv, len |-> p.len, batch |-> p.batch, tp |-> input.par.tp, ep |-> input.par.ep]
      /\ p.weights \in Precisions /\ p.len \in Int /\ p.batch \in Int
      /\ input.par.tp \in Nat /\ input.par.ep \in Nat
  BY <1>1, PreflightIs, Zenon
<1>3. cap.card \in Int /\ cap.cards \in Nat
  BY CapacityIs DEF Machine
<1>4. usable \in Int
  <2>1. usable = (cap.card * 90) \div 100
    BY DEF UsableBytes, DefaultUtilization
  <2> QED
    BY <1>3, <2>1
<1>5. input.par.ep = 1 => RoutedExpertParams(a) <= a.params
  BY <1>1 DEF BudgetInput, SplitOfOneIsShaped
<1>6. input.par.tp <= cap.cards
  OBVIOUS
<1> HIDE DEF cap, p, a, usable
<1>7. /\ q.weights = p.weights /\ q.kv = p.kv /\ q.len = p.len /\ q.batch = p.batch /\ q.ep = p.ep
      /\ p.tp = input.par.tp /\ p.ep = input.par.ep
      /\ q.tp = IF cap.cards > 0 /\ input.par.ep <= 1 THEN cap.cards ELSE input.par.tp
  BY <1>2
<1>8. p.len > 0 /\ p.batch > 0
  <2>1. q.len > 0 /\ q.batch > 0
    BY <1>1, Zenon DEF ValidatePlan
  <2> QED
    BY <1>7, <2>1
<1> HIDE DEF q
<1> DEFINE s == TensorWidth(p)
           t == TensorWidth(q)
<1>9. s \in Nat \ {0} /\ t \in Nat \ {0} /\ s <= t
  BY <1>2, <1>3, <1>6, <1>7 DEF TensorWidth
<1>10. KVBytesPerToken(a, q) = KVBytesPerToken(a, p) /\ KVBytesPerToken(a, p) \in Nat
  BY <1>1, <1>2, <1>7, CacheIs DEF KVBytesPerToken, cacheDtype
<1>11. weightBytesPerCard(a, q) <= weightBytesPerCard(a, p)
       /\ weightBytesPerCard(a, p) \in Int /\ weightBytesPerCard(a, q) \in Int
  <2>1. expertCards(p) \in Nat \ {0} /\ expertCards(q) \in Nat \ {0}
    BY <1>2, <1>7, <1>9 DEF expertCards
  <2>2. weightBytesPerCard(a, p) \in Int /\ weightBytesPerCard(a, q) \in Int
    BY <1>2, <1>7, <1>9, <2>1, WeightsAre
  <2>3. CASE p.ep <= 1
    <3>1. p.ep \in Nat /\ (p.ep = 1 => RoutedExpertParams(a) <= a.params)
      BY <1>2, <1>5, <1>7
    <3>2. weightBytesPerCard(a, q) <= weightBytesPerCard(a, p)
      BY <1>2, <1>7, <1>9, <2>3, <3>1, NarrowWeights
    <3> QED
      BY <2>2, <3>2
  <2>4. CASE p.ep > 1
    <3>1. q.tp = p.tp
      BY <1>2, <1>7, <2>4
    <3>2. weightBytesPerCard(a, q) = weightBytesPerCard(a, p)
      BY <1>7, <3>1, SameSpread
    <3> QED
      BY <2>2, <3>2
  <2> QED
    BY <1>2, <1>7, <2>3, <2>4
<1> DEFINE N == KVBytesPerToken(a, p) * p.len * p.batch
           M == p.batch * p.len * a.hidden * 3
<1>12. N \in Nat /\ M \in Nat
  <2>1. \A x, y, z \in Nat : x * y * z \in Nat
    OBVIOUS
  <2>2. a.hidden \in Nat /\ p.len \in Nat /\ p.batch \in Nat
    BY <1>2, <1>8 DEF ModelArch
  <2>3. p.batch * p.len * a.hidden \in Nat
    BY <2>1, <2>2
  <2> QED
    BY <1>10, <2>1, <2>2, <2>3
<1>13. /\ Compute(a, p).working = weightBytesPerCard(a, p) + N \div (IF LatentCache(a) THEN 1 ELSE s) + M \div s
       /\ Compute(a, q).working = weightBytesPerCard(a, q) + N \div (IF LatentCache(a) THEN 1 ELSE t) + M \div t
  BY <1>7, <1>10 DEF Compute, ActivationBytes
<1> HIDE DEF N, M, s, t
<1>a. \A x \in Nat, y \in Nat \ {0} : x \div y \in Int
  OBVIOUS
<1>14. N \div (IF LatentCache(a) THEN 1 ELSE t) <= N \div (IF LatentCache(a) THEN 1 ELSE s)
       /\ N \div (IF LatentCache(a) THEN 1 ELSE t) \in Int /\ N \div (IF LatentCache(a) THEN 1 ELSE s) \in Int
  <2>1. CASE LatentCache(a)
    BY <1>12, <2>1
  <2>2. CASE ~LatentCache(a)
    <3>1. N \div t <= N \div s /\ N \div t \in Int /\ N \div s \in Int
      BY <1>9, <1>12, <1>a, FewerCards
    <3> QED
      BY <2>2, <3>1
  <2> QED
    BY <2>1, <2>2
<1>15. M \div t <= M \div s /\ M \div t \in Int /\ M \div s \in Int
  BY <1>9, <1>12, <1>a, FewerCards
<1>16. Compute(a, q).working > usable
  <2>1. ~(Compute(a, q).working <= usable)
    BY <1>1 DEF Against
  <2>2. Compute(a, q).working \in Int
    BY <1>11, <1>13, <1>14, <1>15
  <2> QED
    BY <1>4, <2>1, <2>2
<1>17. Compute(a, p).working > usable
  BY <1>4, <1>11, <1>13, <1>14, <1>15, <1>16
<1> QED
  BY <1>1, <1>17 DEF plan, cap, p, a, usable

\* A setting that states a context length, and what a list of settings tells
\* of it: nothing, or what the last of them states.
Takes(q) == q.flag = "max-model-len" /\ q.num > 0

Tells(s, v) ==
    \/ v = 0 /\ \A k \in DOMAIN s : ~Takes(s[k])
    \/ v > 0 /\ \E k \in DOMAIN s : /\ Takes(s[k]) /\ s[k].num = v
                                    /\ \A m \in DOMAIN s : m > k => ~Takes(s[m])

\* The same of the arguments from a place on.
ArgStates(args, i) ==
    /\ args[i].flag = "max-model-len"
    /\ IF args[i].eq THEN args[i].num > 0
       ELSE i < Len(args) /\ args[i + 1].flag = "" /\ args[i + 1].num > 0

ArgValue(args, i) == IF args[i].eq THEN args[i].num ELSE args[i + 1].num

ArgsTell(args, i, v) ==
    \/ v = 0 /\ \A j \in i..Len(args) : ~ArgStates(args, j)
    \/ v > 0 /\ \E j \in i..Len(args) : /\ ArgStates(args, j) /\ ArgValue(args, j) = v
                                        /\ \A m \in i..Len(args) : m > j => ~ArgStates(args, m)

\* One more setting in front counts only if nothing behind it does.
LEMMA TellsMore ==
    ASSUME NEW q, NEW t \in Seq(EngineArg), NEW v \in Nat, Tells(t, v)
    PROVE  Tells(<<q>> \o t, IF v = 0 /\ Takes(q) THEN q.num ELSE v)
<1> DEFINE n == Len(t)
           s == <<q>> \o t
<1>1. n \in Nat /\ DOMAIN t = 1..n
  OBVIOUS
<1>2. DOMAIN s = 1..(n + 1) /\ s[1] = q /\ \A k \in 1..n : s[k + 1] = t[k]
  OBVIOUS
<1>3. \A m \in DOMAIN s : m # 1 => m - 1 \in DOMAIN t /\ s[m] = t[m - 1]
  <2> SUFFICES ASSUME NEW m \in 1..(n + 1), m # 1 PROVE m - 1 \in 1..n /\ s[m] = t[m - 1]
    BY <1>1, <1>2
  <2> HIDE DEF s, n
  <2>1. m - 1 \in 1..n /\ (m - 1) + 1 = m
    BY <1>1
  <2> QED
    BY <1>2, <2>1
<1> HIDE DEF s, n
<1>a. v = 0 => \A k \in DOMAIN t : ~Takes(t[k])
  BY DEF Tells
<1>4. CASE v = 0 /\ Takes(q)
  <2>1. 1 \in DOMAIN s /\ Takes(s[1]) /\ s[1].num = q.num
    BY <1>1, <1>2, <1>4
  <2>2. \A m \in DOMAIN s : m > 1 => ~Takes(s[m])
    BY <1>1, <1>2, <1>3, <1>4, <1>a
  <2>3. Tells(s, q.num)
    BY <1>4, <2>1, <2>2 DEF Tells, Takes
  <2> QED
    BY <1>4, <2>3 DEF s
<1>5. CASE v = 0 /\ ~Takes(q)
  <2>1. \A m \in DOMAIN s : ~Takes(s[m])
    BY <1>2, <1>3, <1>5, <1>a
  <2>2. Tells(s, v)
    BY <1>5, <2>1 DEF Tells
  <2> QED
    BY <1>5, <2>2 DEF s
<1>6. CASE v # 0
  <2>1. PICK k \in DOMAIN t : /\ Takes(t[k]) /\ t[k].num = v
                              /\ \A m \in DOMAIN t : m > k => ~Takes(t[m])
    BY <1>6 DEF Tells
  <2>2. k + 1 \in DOMAIN s /\ s[k + 1] = t[k]
    BY <1>1, <1>2
  <2>3. \A m \in DOMAIN s : m > k + 1 => ~Takes(s[m])
    <3> SUFFICES ASSUME NEW m \in DOMAIN s, m > k + 1 PROVE ~Takes(s[m])
      OBVIOUS
    <3>1. m # 1 /\ m - 1 > k
      BY <1>1, <1>2
    <3> QED
      BY <1>3, <2>1, <3>1
  <2>4. Tells(s, v)
    BY <1>6, <2>1, <2>2, <2>3 DEF Tells
  <2> QED
    BY <1>6, <2>4 DEF s
<1> QED
  BY <1>4, <1>5, <1>6

\* One more argument in front, the same.
LEMMA ArgsTellMore ==
    ASSUME NEW args, Len(args) \in Nat, NEW i \in 1..Len(args), NEW v \in Nat, ArgsTell(args, i + 1, v)
    PROVE  ArgsTell(args, i, IF v = 0 /\ ArgStates(args, i) THEN ArgValue(args, i) ELSE v)
<1> DEFINE n == Len(args)
<1>1. \A m \in i..n : m = i \/ m \in (i + 1)..n
  OBVIOUS
<1>2. i \in i..n /\ \A m \in (i + 1)..n : m \in i..n /\ m > i /\ m \in Int
  OBVIOUS
<1> HIDE DEF n
<1>a. v = 0 => \A j \in (i + 1)..n : ~ArgStates(args, j)
  <2>1. v = 0 => ~(v > 0)
    OBVIOUS
  <2> QED
    BY <2>1, Zenon DEF ArgsTell, n
<1>b. v # 0 => v > 0
  OBVIOUS
<1>3. CASE v = 0 /\ ArgStates(args, i)
  <2>1. \A m \in i..n : m > i => ~ArgStates(args, m)
    <3> SUFFICES ASSUME NEW m \in i..n, m > i PROVE ~ArgStates(args, m)
      OBVIOUS
    <3>1. m \in (i + 1)..n
      BY <1>1
    <3> QED
      BY <1>3, <1>a, <3>1
  <2>2. ArgsTell(args, i, ArgValue(args, i))
    <3>1. ArgValue(args, i) > 0
      BY <1>3, Zenon DEF ArgStates, ArgValue
    <3> QED
      BY <1>2, <1>3, <2>1, <3>1, Zenon DEF ArgsTell, n
  <2> QED
    BY <1>3, <2>2
<1>4. CASE v = 0 /\ ~ArgStates(args, i)
  <2>1. \A m \in i..n : ~ArgStates(args, m)
    BY <1>1, <1>4, <1>a, Zenon
  <2>2. ArgsTell(args, i, v)
    BY <1>4, <2>1, Zenon DEF ArgsTell, n
  <2> QED
    BY <1>4, <2>2
<1>5. CASE v # 0
  <2>1. PICK j \in (i + 1)..n : /\ ArgStates(args, j) /\ ArgValue(args, j) = v
                                /\ \A m \in (i + 1)..n : m > j => ~ArgStates(args, m)
    BY <1>5, Zenon DEF ArgsTell, n
  <2>2. \A m \in i..n : m > j => ~ArgStates(args, m)
    <3> SUFFICES ASSUME NEW m \in i..n, m > j PROVE ~ArgStates(args, m)
      OBVIOUS
    <3>1. m # i
      BY <1>2, <2>1
    <3> QED
      BY <1>1, <2>1, <3>1
  <2>3. ArgsTell(args, i, v)
    BY <1>2, <1>5, <1>b, <2>1, <2>2, Zenon DEF ArgsTell, n
  <2> QED
    BY <1>5, <2>3
<1> QED
  BY <1>3, <1>4, <1>5

\* The settings tell what the arguments do.
LEMMA SettingsTell ==
    ASSUME NEW args \in Seq(EngineArg)
    PROVE  \E v \in Nat : Tells(settings(args), v) /\ ArgsTell(args, 1, v)
<1> DEFINE n == Len(args)
<1>1. n \in Nat /\ \A i \in 1..n : args[i] \in EngineArg
  OBVIOUS
<1>2. PICK read : /\ settings(args) = read[1]
                  /\ \A i \in 1..(n + 2) : read[i] = From(args, read, i)
  BY ReadIs
<1> DEFINE Same(i) == \E v \in Nat : Tells(read[i], v) /\ ArgsTell(args, i, v)
           Held == {i \in 1..(n + 1) : /\ read[i] \in Seq(EngineArg) /\ read[i + 1] \in Seq(EngineArg)
                                       /\ Same(i) /\ Same(i + 1)}
<1>a. ASSUME NEW i \in Int, i > n, i \in 1..(n + 2)
      PROVE  read[i] \in Seq(EngineArg) /\ Same(i)
  <2>1. read[i] = <<>>
    BY <1>2, <1>a DEF From
  <2>2. DOMAIN read[i] = {}
    BY <2>1
  <2>3. Tells(read[i], 0)
    BY <2>2 DEF Tells
  <2>4. i..n = {}
    BY <1>1, <1>a
  <2>5. ArgsTell(args, i, 0)
    BY <2>4 DEF ArgsTell
  <2>6. <<>> \in Seq(EngineArg)
    OBVIOUS
  <2> QED
    BY <2>1, <2>3, <2>5, <2>6
<1> HIDE DEF Same
<1>3. n + 1 \in Held
  <2>1. /\ n + 1 \in 1..(n + 2) /\ n + 2 \in 1..(n + 2) /\ n + 1 \in Int /\ n + 2 \in Int
        /\ n + 1 > n /\ n + 2 > n /\ (n + 1) + 1 = n + 2 /\ n + 1 \in 1..(n + 1)
    BY <1>1
  <2>2. read[n + 2] \in Seq(EngineArg) /\ Same(n + 2) /\ read[n + 1] \in Seq(EngineArg) /\ Same(n + 1)
    BY <1>a, <2>1
  <2> QED
    BY <2>1, <2>2
<1>4. ASSUME NEW i \in 1..n, i + 1 \in Held
      PROVE  i \in Held
  <2>1. /\ read[i + 1] \in Seq(EngineArg) /\ read[i + 2] \in Seq(EngineArg)
        /\ Same(i + 1) /\ Same(i + 2)
    <3>1. (i + 1) + 1 = i + 2
      OBVIOUS
    <3> QED
      BY <1>4, <3>1
  <2>2. args[i] \in EngineArg /\ i \in 1..(n + 2) /\ ~(i > n) /\ i \in 1..(n + 1) /\ i \in 1..Len(args) /\ Len(args) \in Nat
    BY <1>1
  <2> SUFFICES read[i] \in Seq(EngineArg) /\ Same(i)
    BY <2>1, <2>2
  <2>a. ASSUME NEW q \in EngineArg, NEW t \in Seq(EngineArg), NEW v \in Nat, Tells(t, v), ArgsTell(args, i + 1, v),
               read[i] = <<q>> \o t, Takes(q) <=> ArgStates(args, i), q.num = ArgValue(args, i)
        PROVE  read[i] \in Seq(EngineArg) /\ Same(i)
    <3> DEFINE u == IF v = 0 /\ Takes(q) THEN q.num ELSE v
    <3>1. Tells(read[i], u)
      BY <2>a, TellsMore
    <3>2. ArgsTell(args, i, IF v = 0 /\ ArgStates(args, i) THEN ArgValue(args, i) ELSE v)
      BY <2>2, <2>a, ArgsTellMore
    <3>3. ArgsTell(args, i, u)
      BY <2>a, <3>2
    <3>4. u \in Nat
      BY <2>a DEF EngineArg, Takes
    <3>5. read[i] \in Seq(EngineArg)
      BY <2>a
    <3> HIDE DEF u
    <3> QED
      BY <3>1, <3>3, <3>4, <3>5 DEF Same
  <2>b. PICK v \in Nat : Tells(read[i + 1], v) /\ ArgsTell(args, i + 1, v)
    BY <2>1 DEF Same
  <2> DEFINE valued == i < n /\ args[i + 1].flag = ""
  <2>3. CASE args[i].eq
    <3>1. read[i] = <<args[i]>> \o read[i + 1]
      BY <1>2, <2>2, <2>3, Zenon DEF From
    <3>2. Takes(args[i]) <=> ArgStates(args, i)
      BY <2>3, Zenon DEF Takes, ArgStates
    <3>3. args[i].num = ArgValue(args, i)
      BY <2>3, Zenon DEF ArgValue
    <3> QED
      BY <2>1, <2>2, <2>a, <2>b, <3>1, <3>2, <3>3
  <2>4. CASE ~args[i].eq /\ valued
    <3> DEFINE q == [args[i] EXCEPT !.num = args[i + 1].num, !.name = args[i + 1].name]
    <3>0. i < n
      BY <2>4
    <3>1. read[i] = <<q>> \o read[i + 2]
      BY <1>2, <2>2, <2>4, Zenon DEF From
    <3>2. ~ArgStates(args, i + 1)
      <4>1. "" # "max-model-len"
        BY Zenon
      <4>2. args[i + 1].flag = ""
        BY <2>4, Zenon
      <4> QED
        BY <4>1, <4>2, Zenon DEF ArgStates
    <3>a. q.flag = args[i].flag /\ q.num = args[i + 1].num
      <4>1. \A x \in EngineArg : \A y, z : LET r == [x EXCEPT !.num = y, !.name = z] IN r.flag = x.flag /\ r.num = y
        BY DEF EngineArg
      <4> HIDE DEF valued
      <4> QED
        BY <2>2, <4>1
    <3>4. Takes(q) <=> ArgStates(args, i)
      <4> HIDE DEF q
      <4> QED
        BY <2>4, <3>a, Zenon DEF Takes, ArgStates
    <3>5. q.num = ArgValue(args, i)
      <4> HIDE DEF q
      <4> QED
        BY <2>4, <3>a, Zenon DEF ArgValue
    <3>b. ~args[i].eq
      BY <2>4
    <3> HIDE DEF valued
    <3>3. args[i + 1] \in EngineArg
      BY <1>1, <3>0
    <3>6. q \in EngineArg
      <4>1. \A x, y \in EngineArg : [x EXCEPT !.num = y.num, !.name = y.name] \in EngineArg
        BY DEF EngineArg
      <4> QED
        BY <2>2, <3>3, <4>1
    <3> HIDE DEF q
    <3>7. PICK u \in Nat : Tells(read[i + 2], u) /\ ArgsTell(args, i + 2, u)
      BY <2>1 DEF Same
    <3>8. ArgsTell(args, i + 1, u)
      <4>1. i + 1 \in 1..Len(args) /\ (i + 1) + 1 = i + 2
        BY <3>0
      <4>2. ArgsTell(args, i + 1, IF u = 0 /\ ArgStates(args, i + 1) THEN ArgValue(args, i + 1) ELSE u)
        BY <2>2, <3>7, <4>1, ArgsTellMore
      <4> QED
        BY <3>2, <4>2
    <3> QED
      BY <2>1, <2>a, <3>1, <3>4, <3>5, <3>6, <3>7, <3>8
  <2>5. CASE ~args[i].eq /\ ~valued
    <3>1. read[i] = read[i + 1]
      BY <1>2, <2>2, <2>5, Zenon DEF From
    <3>2. ~ArgStates(args, i)
      BY <2>5, Zenon DEF ArgStates
    <3> HIDE DEF valued
    <3>3. ArgsTell(args, i, IF v = 0 /\ ArgStates(args, i) THEN ArgValue(args, i) ELSE v)
      BY <2>2, <2>b, ArgsTellMore
    <3>4. ArgsTell(args, i, v)
      BY <3>2, <3>3
    <3>5. Same(i)
      BY <2>b, <3>1, <3>4 DEF Same
    <3> QED
      BY <2>1, <3>1, <3>5, Zenon
  <2> QED
    BY <2>3, <2>4, <2>5, Zenon
<1> HIDE DEF Held
<1>5. \A i \in 1..(n + 1) : i \in Held
  BY <1>1, <1>3, <1>4, Backwards
<1>6. Same(1)
  BY <1>1, <1>5 DEF Held
<1> QED
  BY <1>2, <1>6 DEF Same

\* The plan has the last context length its arguments state.
LEMMA ReadsEvery == BudgetInput => PlanReadsEveryFlag
<1> SUFFICES ASSUME BudgetInput, part = "flags"
             PROVE  LET args == input.args
                        stated == {i \in DOMAIN args : args[i].flag = "max-model-len" /\
                                      IF args[i].eq THEN args[i].num > 0
                                      ELSE i < Len(args) /\ args[i + 1].flag = "" /\ args[i + 1].num > 0}
                        last == CHOOSE i \in stated : \A j \in stated : j <= i
                        got == EnginePlan(args, [tp |-> 0, ep |-> 0])
                    IN  /\ got.usable <=> stated # {}
                        /\ stated # {} => got.plan.len = (IF args[last].eq THEN args[last].num ELSE args[last + 1].num)
  BY DEF PlanReadsEveryFlag
<1> DEFINE args == input.args
           all == settings(args)
           f == "max-model-len"
           stated == {i \in DOMAIN args : args[i].flag = "max-model-len" /\
                         IF args[i].eq THEN args[i].num > 0
                         ELSE i < Len(args) /\ args[i + 1].flag = "" /\ args[i + 1].num > 0}
           mine == {i \in DOMAIN args : ArgStates(args, i)}
           last == CHOOSE i \in stated : \A j \in stated : j <= i
           got == EnginePlan(args, [tp |-> 0, ep |-> 0])
<1> SUFFICES /\ got.usable <=> stated # {}
             /\ stated # {} => got.plan.len = (IF args[last].eq THEN args[last].num ELSE args[last + 1].num)
  BY Zenon
<1>1. args \in Seq(EngineArg)
  BY DEF BudgetInput
<1>2. stated = mine
  BY Zenon DEF ArgStates
<1>3. got.usable <=> said(all, f) # {}
  BY Zenon DEF EnginePlan
<1>4. got.plan.len = lastNum(all, f, 0)
  BY Zenon DEF EnginePlan
<1>5. all \in Seq(EngineArg)
  BY <1>1, SettingsAre
<1>6. PICK v \in Nat : Tells(all, v) /\ ArgsTell(args, 1, v)
  BY <1>1, SettingsTell
<1>7. \A i : (IF args[i].eq THEN args[i].num ELSE args[i + 1].num) = ArgValue(args, i)
  BY Zenon DEF ArgValue
<1>8. DOMAIN args = 1..Len(args) /\ Len(args) \in Nat
  BY <1>1
<1> HIDE DEF args, all, stated, got
<1>9. said(all, f) = {k \in DOMAIN all : Takes(all[k])}
  <2>1. \A q : q.flag = f /\ legible(q) <=> Takes(q)
    BY DEF legible, Takes
  <2> HIDE DEF f
  <2> QED
    BY <2>1 DEF said
<1> HIDE DEF f
<1>10. CASE v = 0
  <2>1. said(all, f) = {}
    BY <1>6, <1>9, <1>10 DEF Tells
  <2>2. mine = {}
    BY <1>8, <1>6, <1>10 DEF ArgsTell
  <2> QED
    BY <1>2, <1>3, <2>1, <2>2, Zenon
<1>11. CASE v > 0
  <2>1. PICK k \in DOMAIN all : /\ Takes(all[k]) /\ all[k].num = v
                                /\ \A m \in DOMAIN all : m > k => ~Takes(all[m])
    BY <1>6, <1>11 DEF Tells
  <2>2. PICK j \in 1..Len(args) : /\ ArgStates(args, j) /\ ArgValue(args, j) = v
                                  /\ \A m \in 1..Len(args) : m > j => ~ArgStates(args, m)
    BY <1>6, <1>11 DEF ArgsTell
  <2>3. PICK i \in said(all, f) : (\A m \in said(all, f) : m <= i) /\ lastNum(all, f, 0) = all[i].num
    <3>1. said(all, f) # {}
      BY <1>9, <2>1
    <3> QED
      BY <1>5, <3>1, LastIs
  <2>4. i = k
    <3>1. i \in DOMAIN all /\ k \in said(all, f) /\ Takes(all[i])
      BY <1>9, <2>1, <2>3
    <3>2. DOMAIN all = 1..Len(all) /\ Len(all) \in Nat
      BY <1>5
    <3>3. i \in Int /\ k \in Int
      BY <3>1, <3>2
    <3>4. ~(i > k) /\ k <= i
      BY <2>1, <2>3, <3>1
    <3> QED
      BY <3>3, <3>4
  <2>5. j \in stated /\ \A m \in stated : m <= j
    <3>1. j \in mine
      BY <1>8, <2>2
    <3>2. \A m \in mine : m <= j
      BY <1>8, <2>2
    <3> QED
      BY <1>2, <3>1, <3>2
  <2>6. last = j
    <3>1. stated \subseteq Int
      BY <1>2, <1>8
    <3>2. last \in stated /\ \A m \in stated : m <= last
      BY <2>5
    <3> HIDE DEF last
    <3>3. last \in Int /\ j \in Int /\ last <= j /\ j <= last
      BY <2>5, <3>1, <3>2
    <3> QED
      BY <3>3
  <2> HIDE DEF last
  <2>7. got.plan.len = v
    BY <1>4, <2>1, <2>3, <2>4
  <2>8. (IF args[last].eq THEN args[last].num ELSE args[last + 1].num) = v
    BY <1>7, <2>2, <2>6
  <2>9. got.usable /\ stated # {}
    <3>1. said(all, f) # {}
      BY <1>9, <2>1
    <3> QED
      BY <1>3, <2>5, <3>1
  <2> QED
    BY <2>7, <2>8, <2>9
<1>12. v = 0 \/ v > 0
  BY <1>6
<1> QED
  BY <1>10, <1>11, <1>12, Zenon

\* What more of a card is worth four usable bytes.
AFewBytes(util) == 400 \div util + 1

\* It is.
LEMMA FourMore ==
    \A card \in Int : \A util \in 1..100 :
        /\ UsableBytes(card, util) \in Int
        /\ UsableBytes(card + AFewBytes(util), util) \in Int
        /\ UsableBytes(card + AFewBytes(util), util) >= UsableBytes(card, util) + 4
<1> SUFFICES ASSUME NEW card \in Int, NEW util \in 1..100
             PROVE  /\ UsableBytes(card, util) \in Int
                    /\ UsableBytes(card + AFewBytes(util), util) \in Int
                    /\ UsableBytes(card + AFewBytes(util), util) >= UsableBytes(card, util) + 4
  OBVIOUS
<1> DEFINE more == AFewBytes(util)
           x == card * util
           y == (card + more) * util
<1>1. UsableBytes(card, util) = x \div 100 /\ UsableBytes(card + more, util) = y \div 100
  <2>1. ~(util <= 0 \/ util > 100)
    OBVIOUS
  <2> QED
    BY <2>1 DEF UsableBytes
<1>2. more \in Int /\ util * more > 400
  <2>1. 400 \div util \in Int /\ 400 < util * (400 \div util) + util
    BY DivBounds
  <2>2. util * more = util * (400 \div util) + util
    BY <2>1, Spread DEF AFewBytes
  <2> QED
    BY <2>1, <2>2 DEF AFewBytes
<1> HIDE DEF more
<1>3. x \in Int /\ y \in Int /\ y >= x + 400
  <2>1. y = card * util + util * more
    BY <1>2
  <2>2. card * util \in Int /\ util * more \in Int
    BY <1>2, Regroup
  <2> QED
    BY <1>2, <2>1, <2>2
<1> HIDE DEF x, y
<1>4. x \div 100 \in Int /\ y \div 100 \in Int /\ y \div 100 >= x \div 100 + 4
  BY <1>3
<1> QED
  BY <1>1, <1>4 DEF more

\* A plan that fits a card leaves room for a session on one of a few bytes more.
LEMMA FitHolds ==
    ASSUME NEW a \in ModelArch, ValidateArch(a), NEW p \in PlanRow, p.len > 0, p.batch > 0,
           weightBytesPerCard(a, p) \in Int, NEW card \in Int, NEW util \in 1..100,
           Compute(a, p).total <= UsableBytes(card, util)
    PROVE  MaxSessions(a, p, card + AFewBytes(util), util) > 0
<1> DEFINE T == TensorWidth(p)
           cost == SessionCost(a, p)
           w == weightBytesPerCard(a, p)
           b == p.batch
           usable == UsableBytes(card, util)
           more == UsableBytes(card + AFewBytes(util), util)
           room == 100 * more - 115 * w
<1>1. usable \in Int /\ more \in Int /\ more >= usable + 4
  BY FourMore, Zenon
<1>2. T \in Nat \ {0} /\ cost \in Nat \ {0}
  BY CostIs
<1>3. b \in Nat \ {0}
  BY DEF PlanRow
<1>4. [p EXCEPT !.batch = b] = p
  BY DEF PlanRow
<1>5. PICK kv \in Int, ac \in Int :
            /\ Compute(a, [p EXCEPT !.batch = b]).total = w + kv + ac + ((w + kv + ac) * 15) \div 100
            /\ b * cost < T * kv + T * ac + 2 * T
  <2> HIDE DEF b
  <2>1. b \in Int
    BY <1>3
  <2> QED
    BY <2>1, ClaimsAre DEF T, cost, w
<1>6. MaxSessions(a, p, card + AFewBytes(util), util)
        = IF room <= 0 THEN 0 ELSE (room * T) \div (115 * cost)
  BY DEF MaxSessions, OverheadFraction
<1>7. w \in Int
  OBVIOUS
<1>8. Compute(a, p).total <= usable
  OBVIOUS
<1> HIDE DEF T, cost, w, b, usable, more
<1> DEFINE ws == w + kv + ac
<1>9. ws + (ws * 15) \div 100 <= usable
  BY <1>4, <1>5, <1>8
<1>10. 115 * ws < 100 * usable + 100
  <2>1. ws \in Int
    BY <1>5, <1>7
  <2> HIDE DEF ws
  <2>2. ws * 15 < 100 * ((ws * 15) \div 100) + 100 /\ (ws * 15) \div 100 \in Int
    BY <2>1
  <2> QED
    BY <1>1, <1>9, <2>1, <2>2
<1>11. 115 * (kv + ac + 2) < room
  BY <1>1, <1>5, <1>7, <1>10
<1>12. cost <= b * cost
  <2>1. 1 * cost <= b * cost
    BY <1>2, <1>3, Grows
  <2> QED
    BY <1>2, <2>1
<1>13. 115 * cost < T * room
  <2>1. T * (kv + ac + 2) = T * kv + T * ac + 2 * T /\ T * kv \in Int /\ T * ac \in Int /\ b * cost \in Int
    BY <1>2, <1>3, <1>5
  <2>2. cost < T * (kv + ac + 2)
    BY <1>2, <1>5, <1>12, <2>1
  <2> DEFINE s == kv + ac + 2
  <2>3. s \in Int /\ room \in Int
    BY <1>1, <1>5, <1>7
  <2>4. 115 * s < room /\ cost < T * s
    BY <1>11, <2>2
  <2> HIDE DEF s, room
  <2>5. T * (115 * s) < T * room
    <3>1. (115 * s) * T < room * T
      BY <1>2, <2>3, <2>4, Grows
    <3>2. (115 * s) * T = T * (115 * s) /\ room * T = T * room
      BY <1>2, <2>3
    <3> QED
      BY <3>1, <3>2
  <2>6. T * (115 * s) = 115 * (T * s) /\ T * s \in Int /\ T * room \in Int
    BY <1>2, <2>3
  <2> QED
    BY <1>2, <2>4, <2>5, <2>6
<1>14. room > 0
  <2>1. 115 * (kv + ac + 2) \in Int /\ room \in Int
    BY <1>1, <1>5, <1>7
  <2> SUFFICES ASSUME room <= 0 PROVE FALSE
    BY <2>1
  <2> HIDE DEF room
  <2>2. T * room <= 0
    BY <1>2, <2>1
  <2> QED
    BY <1>2, <1>13, <2>1, <2>2
<1>15. (room * T) \div (115 * cost) > 0
  <2> DEFINE x == room * T
             y == 115 * cost
  <2>1. x \in Int /\ y \in Nat \ {0} /\ y < x
    <3>1. room \in Int
      BY <1>1, <1>7
    <3> HIDE DEF room
    <3>2. x = T * room /\ x \in Int
      BY <1>2, <3>1
    <3> QED
      BY <1>2, <1>13, <3>2
  <2> HIDE DEF x, y
  <2>2. x \div y \in Int /\ x < y * (x \div y) + y
    BY <2>1, DivBounds
  <2>3. y * 0 < y * (x \div y)
    BY <2>1, <2>2
  <2>4. 0 < x \div y
    BY <2>1, <2>2, <2>3, Cancel
  <2> QED
    BY <2>4 DEF x, y
<1>16. ~(room <= 0)
  <2>1. room \in Int
    BY <1>1, <1>7
  <2> HIDE DEF room
  <2> QED
    BY <1>14, <2>1
<1> HIDE DEF room
<1> QED
  BY <1>6, <1>15, <1>16

\* Some elements of a list are none only if none of its places is chosen.
LEMMA PickedSome ==
    ASSUME NEW E, NEW s \in Seq(E), NEW P \in SUBSET (DOMAIN s)
    PROVE  Picked(s, P) # <<>> <=> P # {}
<1>1. Picked(s, P) \in Seq(E) /\ Len(Picked(s, P)) = Cardinality(P)
  BY PickedIs
<1>2. IsFiniteSet(P)
  BY SeqDomain, FS_Subset
<1>3. Cardinality(P) = 0 <=> P = {}
  BY <1>2, FS_EmptySet
<1>4. Picked(s, P) = <<>> <=> Len(Picked(s, P)) = 0
  BY <1>1
<1> QED
  BY <1>1, <1>3, <1>4

\* The card counts tried are counts.
LEMMA PowersAre ==
    ASSUME NEW maxCards
    PROVE  powers(maxCards) \in Seq({1, 2, 4, 8})
<1> DEFINE s == <<1, 2, 4, 8>>
           P == {i \in DOMAIN s : s[i] <= (IF maxCards < 1 THEN 8 ELSE maxCards)}
<1>1. s \in Seq({1, 2, 4, 8})
  OBVIOUS
<1>2. P \in SUBSET (DOMAIN s)
  OBVIOUS
<1>3. powers(maxCards) = Picked(s, P)
  BY DEF powers, Keep
<1> HIDE DEF s, P
<1> QED
  BY <1>1, <1>2, <1>3, PickedIs

\* The plan of a row, spelled out.
LEMMA RowSpelled ==
    ASSUME NEW o \in BudgetQuestion, NEW n
    PROVE  planAtCards(o, n) =
               [weights |-> o.plan.weights, kv |-> o.plan.kv, len |-> o.plan.len, batch |-> o.plan.batch,
                tp |-> IF o.expertParallel THEN o.tp ELSE n, ep |-> IF o.expertParallel THEN n ELSE 0]
<1>1. o.plan \in BudgetPlan
  BY DEF BudgetQuestion
<1>2. \A r \in BudgetPlan : \A x, y :
          /\ [r EXCEPT !.tp = x] =
                 [weights |-> r.weights, kv |-> r.kv, len |-> r.len, batch |-> r.batch, tp |-> x, ep |-> 0]
          /\ [[r EXCEPT !.tp = x] EXCEPT !.tp = y] =
                 [weights |-> r.weights, kv |-> r.kv, len |-> r.len, batch |-> r.batch, tp |-> y, ep |-> 0]
          /\ [[r EXCEPT !.tp = x] EXCEPT !.ep = y] =
                 [weights |-> r.weights, kv |-> r.kv, len |-> r.len, batch |-> r.batch, tp |-> x, ep |-> y]
  <2> SUFFICES ASSUME NEW r \in BudgetPlan, NEW x, NEW y
               PROVE  /\ [r EXCEPT !.tp = x] =
                             [weights |-> r.weights, kv |-> r.kv, len |-> r.len, batch |-> r.batch, tp |-> x, ep |-> 0]
                      /\ [[r EXCEPT !.tp = x] EXCEPT !.tp = y] =
                             [weights |-> r.weights, kv |-> r.kv, len |-> r.len, batch |-> r.batch, tp |-> y, ep |-> 0]
                      /\ [[r EXCEPT !.tp = x] EXCEPT !.ep = y] =
                             [weights |-> r.weights, kv |-> r.kv, len |-> r.len, batch |-> r.batch, tp |-> x, ep |-> y]
    OBVIOUS
  <2>1. r = [weights |-> r.weights, kv |-> r.kv, len |-> r.len, batch |-> r.batch, tp |-> r.tp, ep |-> 0]
    BY DEF BudgetPlan
  <2> DEFINE one == [r EXCEPT !.tp = x]
  <2>2. one = [weights |-> r.weights, kv |-> r.kv, len |-> r.len, batch |-> r.batch, tp |-> x, ep |-> 0]
    BY <2>1
  <2> HIDE DEF one
  <2>3. [one EXCEPT !.tp = y] = [weights |-> r.weights, kv |-> r.kv, len |-> r.len, batch |-> r.batch, tp |-> y, ep |-> 0]
    BY <2>2
  <2>4. [one EXCEPT !.ep = y] = [weights |-> r.weights, kv |-> r.kv, len |-> r.len, batch |-> r.batch, tp |-> x, ep |-> y]
    BY <2>2
  <2> QED
    BY <2>2, <2>3, <2>4 DEF one
<1>3. CASE o.expertParallel
  <2>1. planAtCards(o, n) = [[o.plan EXCEPT !.tp = o.tp] EXCEPT !.ep = n]
    BY <1>3 DEF planAtCards, planFromFlags
  <2> QED
    BY <1>1, <1>2, <1>3, <2>1
<1>4. CASE ~o.expertParallel
  <2>1. planAtCards(o, n) = [[o.plan EXCEPT !.tp = 0] EXCEPT !.tp = n]
    BY <1>4 DEF planAtCards, planFromFlags
  <2> QED
    BY <1>1, <1>2, <1>4, <2>1, ZenonT(40)
<1> QED
  BY <1>3, <1>4

\* A row that is no skip is a plan compared with a card.
LEMMA SweepIs ==
    ASSUME NEW a, NEW p, NEW card, NEW util, NEW maxCards, NEW axis, ~sweep(a, p, card, util, maxCards, axis).err
    PROVE  LET rows == sweep(a, p, card, util, maxCards, axis).rows
               tried == powers(maxCards)
           IN  /\ DOMAIN rows = DOMAIN tried
               /\ rows = [k \in DOMAIN tried |-> rows[k]]
               /\ \A k \in DOMAIN tried :
                      LET n == tried[k]
                          at == IF axis = "expert" THEN [p EXCEPT !.ep = n] ELSE [p EXCEPT !.tp = n]
                      IN  /\ rows[k].cards = n
                          /\ ~rows[k].skip => /\ ~skipped(a, n, TensorWidth(p), axis)
                                              /\ rows[k].verdict = Against(Compute(a, at), UsableBytes(card, util))
<1> DEFINE at(n) == IF axis = "expert" THEN [p EXCEPT !.ep = n] ELSE [p EXCEPT !.tp = n]
           row(n) == IF skipped(a, n, TensorWidth(p), axis) THEN [cards |-> n, skip |-> TRUE]
                     ELSE LET b == Compute(a, at(n))
                          IN  [cards |-> n, skip |-> FALSE, budget |-> b, verdict |-> Against(b, UsableBytes(card, util))]
           tried == powers(maxCards)
           rows == [k \in DOMAIN tried |-> row(tried[k])]
           unusable == ~ValidateArch(a) \/ card <= 0
                       \/ (axis = "expert" /\ TensorWidth(p) > 1 /\ ~LatentCache(a) /\ a.kvHeads % TensorWidth(p) # 0)
<1>1. sweep(a, p, card, util, maxCards, axis) =
        IF unusable THEN [err |-> TRUE, rows |-> <<>>] ELSE [err |-> FALSE, rows |-> rows]
  BY Zenon DEF sweep
<1>2. sweep(a, p, card, util, maxCards, axis).rows = rows
  <2> HIDE DEF unusable, rows
  <2> QED
    BY <1>1
<1>3. ASSUME NEW n
      PROVE  /\ row(n).cards = n
             /\ ~row(n).skip => /\ ~skipped(a, n, TensorWidth(p), axis)
                                /\ row(n).verdict = Against(Compute(a, at(n)), UsableBytes(card, util))
  <2> HIDE DEF at
  <2>1. CASE skipped(a, n, TensorWidth(p), axis)
    BY <2>1
  <2>2. CASE ~skipped(a, n, TensorWidth(p), axis)
    BY <2>2
  <2> QED
    BY <2>1, <2>2
<1>4. \A k \in DOMAIN tried : rows[k] = row(tried[k])
  <2> HIDE DEF row, tried
  <2> QED
    OBVIOUS
<1>5. DOMAIN rows = DOMAIN tried /\ rows = [k \in DOMAIN tried |-> rows[k]]
  <2> HIDE DEF row, tried
  <2> QED
    OBVIOUS
<1> HIDE DEF row, rows
<1>6. \A k \in DOMAIN tried :
          /\ rows[k].cards = tried[k]
          /\ ~rows[k].skip => /\ ~skipped(a, tried[k], TensorWidth(p), axis)
                              /\ rows[k].verdict = Against(Compute(a, at(tried[k])), UsableBytes(card, util))
  <2> HIDE DEF at, tried
  <2> QED
    BY <1>3, <1>4
<1> QED
  BY <1>2, <1>5, <1>6, Zenon

\* The question with a context length of its own, or the model's.
AtContext(a, o) == IF o.plan.len = 0 THEN [o EXCEPT !.plan.len = a.maxPos] ELSE o

\* Nothing else of the question changes.
LEMMA ContextIs ==
    ASSUME NEW a \in ModelArch, NEW o \in BudgetQuestion
    PROVE  LET q == AtContext(a, o) IN
           /\ q \in BudgetQuestion
           /\ q.plan = [weights |-> o.plan.weights, kv |-> o.plan.kv,
                        len |-> IF o.plan.len = 0 THEN a.maxPos ELSE o.plan.len,
                        batch |-> o.plan.batch, tp |-> o.plan.tp, ep |-> 0]
           /\ q.card = o.card /\ q.util = o.util /\ q.maxCards = o.maxCards /\ q.tp = o.tp
           /\ q.expertParallel = o.expertParallel
<1>1. o.plan \in BudgetPlan /\ a.maxPos \in Int
  BY DEF BudgetQuestion, ModelArch
<1>2. o.plan = [weights |-> o.plan.weights, kv |-> o.plan.kv, len |-> o.plan.len,
                batch |-> o.plan.batch, tp |-> o.plan.tp, ep |-> 0]
  BY <1>1 DEF BudgetPlan
<1>3. CASE o.plan.len = 0
  <2> DEFINE r == [o.plan EXCEPT !.len = a.maxPos]
  <2>1. r = [weights |-> o.plan.weights, kv |-> o.plan.kv, len |-> a.maxPos,
             batch |-> o.plan.batch, tp |-> o.plan.tp, ep |-> 0]
    BY <1>2
  <2>2. r \in BudgetPlan
    BY <1>1 DEF BudgetPlan
  <2>3. AtContext(a, o) = [o EXCEPT !.plan = r]
    BY <1>3 DEF AtContext
  <2> HIDE DEF r
  <2>4. \A x \in BudgetPlan : LET q == [o EXCEPT !.plan = x] IN
            /\ q \in BudgetQuestion /\ q.plan = x
            /\ q.card = o.card /\ q.util = o.util /\ q.maxCards = o.maxCards /\ q.tp = o.tp
            /\ q.expertParallel = o.expertParallel
    BY DEF BudgetQuestion
  <2> QED
    BY <1>3, <2>1, <2>2, <2>3, <2>4
<1>4. CASE o.plan.len # 0
  <2>1. AtContext(a, o) = o
    BY <1>4 DEF AtContext
  <2> QED
    BY <1>2, <1>4, <2>1
<1> QED
  BY <1>3, <1>4

\* A budget report that says a plan fits has a row that does.
LEMMA RowsFit ==
    ASSUME NEW a \in ModelArch, NEW o \in BudgetQuestion, ~modelBudgetCmd(a, o).err, modelBudgetCmd(a, o).fits
    PROVE  LET q == AtContext(a, o)
               axis == IF o.expertParallel THEN "expert" ELSE "tensor"
           IN  /\ ~flagsRefused(o) /\ ~(a.quant # "") /\ ValidateArch(a) /\ q.plan.len > 0
               /\ \E k \in DOMAIN powers(o.maxCards) :
                      LET n == powers(o.maxCards)[k] IN
                      /\ ~skipped(a, n, TensorWidth(planFromFlags(q)), axis)
                      /\ Against(Compute(a, planAtCards(q, n)), UsableBytes(o.card, o.util)) = "fits"
                      /\ o.tp = 0 \/ o.expertParallel \/ n = o.tp
<1> DEFINE q == AtContext(a, o)
           axis == IF o.expertParallel THEN "expert" ELSE "tensor"
           got == budgetCandidates(a, q)
           fitting == Keep(got.rows, LAMBDA r : ~r.skip /\ r.verdict = "fits")
           answer == [err |-> FALSE, fits |-> fitting # <<>>, rows |-> got.rows,
                      fewest |-> IF fitting = <<>> THEN 0 ELSE Head(fitting).cards]
           all == sweep(a, planFromFlags(q), o.card, o.util, o.maxCards, axis)
           refused == flagsRefused(o) \/ a.quant # ""
           empty == q.plan.len <= 0 \/ got.err
<1>1. q \in BudgetQuestion /\ q.card = o.card /\ q.util = o.util /\ q.maxCards = o.maxCards /\ q.tp = o.tp
      /\ q.expertParallel = o.expertParallel /\ q.plan.len \in Int
  <2>1. \A x \in BudgetQuestion : x.plan.len \in Int
    BY DEF BudgetQuestion, BudgetPlan
  <2> QED
    BY <2>1, ContextIs
<1>2. o.sessionsAt = <<>> /\ o.expertParallel \in BOOLEAN
  BY DEF BudgetQuestion
<1>3. modelBudgetCmd(a, o) =
          IF refused THEN [err |-> TRUE]
          ELSE IF ~ValidateArch(a) THEN [err |-> TRUE]
          ELSE IF empty THEN [err |-> TRUE] ELSE answer
  BY <1>2, Zenon DEF modelBudgetCmd, renderModelBudget, AtContext
<1>4. ~refused /\ ValidateArch(a) /\ ~empty /\ answer.fits
  <2> HIDE DEF refused, empty, answer
  <2>1. \A r : r = [err |-> TRUE] => r.err
    OBVIOUS
  <2> QED
    BY <1>3, <2>1, Zenon
<1>5. fitting # <<>>
  <2> HIDE DEF fitting, got
  <2> QED
    BY <1>4
<1>a. q.plan.len > 0
  <2> HIDE DEF q, got, answer, refused
  <2> QED
    BY <1>1, <1>4
<1>6. got = IF all.err \/ q.tp = 0 \/ q.expertParallel THEN all
            ELSE [err |-> Keep(all.rows, LAMBDA r : r.cards = q.tp) = <<>>, rows |-> Keep(all.rows, LAMBDA r : r.cards = q.tp)]
  <2> DEFINE mine == sweep(a, planFromFlags(q), q.card, q.util, q.maxCards, IF q.expertParallel THEN "expert" ELSE "tensor")
  <2>1. got = IF mine.err \/ q.tp = 0 \/ q.expertParallel THEN mine
              ELSE [err |-> Keep(mine.rows, LAMBDA r : r.cards = q.tp) = <<>>, rows |-> Keep(mine.rows, LAMBDA r : r.cards = q.tp)]
    BY Zenon DEF budgetCandidates
  <2>2. mine = all
    BY <1>1
  <2> QED
    BY <2>1, <2>2
<1> DEFINE one == {i \in DOMAIN all.rows : all.rows[i].cards = q.tp}
           some == {i \in DOMAIN got.rows : ~got.rows[i].skip /\ got.rows[i].verdict = "fits"}
<1>7. fitting = Picked(got.rows, some) /\ Keep(all.rows, LAMBDA r : r.cards = q.tp) = Picked(all.rows, one)
  BY Zenon DEF Keep
<1> DEFINE tried == powers(o.maxCards)
           Row == {all.rows[k] : k \in DOMAIN tried}
           at(n) == IF axis = "expert" THEN [planFromFlags(q) EXCEPT !.ep = n] ELSE [planFromFlags(q) EXCEPT !.tp = n]
<1>8. tried \in Seq({1, 2, 4, 8})
  BY PowersAre
<1>9. ~all.err =>
          /\ all.rows \in Seq(Row)
          /\ DOMAIN all.rows = DOMAIN tried
          /\ \A k \in DOMAIN tried :
                  /\ all.rows[k].cards = tried[k]
                  /\ ~all.rows[k].skip => /\ ~skipped(a, tried[k], TensorWidth(planFromFlags(q)), axis)
                                          /\ all.rows[k].verdict = Against(Compute(a, at(tried[k])), UsableBytes(o.card, o.util))
  <2> SUFFICES ASSUME ~all.err
               PROVE  /\ all.rows \in Seq(Row)
                      /\ DOMAIN all.rows = DOMAIN tried
                      /\ \A k \in DOMAIN tried :
                              /\ all.rows[k].cards = tried[k]
                              /\ ~all.rows[k].skip => /\ ~skipped(a, tried[k], TensorWidth(planFromFlags(q)), axis)
                                                      /\ all.rows[k].verdict = Against(Compute(a, at(tried[k])), UsableBytes(o.card, o.util))
    OBVIOUS
  <2>1. /\ DOMAIN all.rows = DOMAIN tried
        /\ all.rows = [k \in DOMAIN tried |-> all.rows[k]]
        /\ \A k \in DOMAIN tried :
                  /\ all.rows[k].cards = tried[k]
                  /\ ~all.rows[k].skip => /\ ~skipped(a, tried[k], TensorWidth(planFromFlags(q)), axis)
                                          /\ all.rows[k].verdict = Against(Compute(a, at(tried[k])), UsableBytes(o.card, o.util))
    <3> HIDE DEF q, axis, got, fitting, answer, refused, empty
    <3> QED
      BY SweepIs
  <2>2. all.rows \in Seq(Row)
    <3>1. Len(tried) \in Nat /\ DOMAIN tried = 1..Len(tried)
      BY <1>8
    <3> HIDE DEF tried, all
    <3>2. all.rows \in [1..Len(tried) -> Row]
      BY <2>1, <3>1
    <3> QED
      BY <3>1, <3>2, SeqIs
  <2> QED
    BY <2>1, <2>2, Zenon
<1>10. \A n : at(n) = planAtCards(q, n)
  <2>1. axis = "expert" <=> o.expertParallel
    <3>1. "tensor" # "expert"
      BY Zenon
    <3> QED
      BY <3>1, Zenon
  <2> HIDE DEF axis
  <2> QED
    BY <1>1, <2>1, Zenon DEF planAtCards
<1> HIDE DEF at
<1>11. ASSUME NEW k \in DOMAIN tried, ~all.err, ~all.rows[k].skip, all.rows[k].verdict = "fits",
              o.tp = 0 \/ o.expertParallel \/ all.rows[k].cards = o.tp
       PROVE  \E i \in DOMAIN tried :
                      LET n == tried[i] IN
                      /\ ~skipped(a, n, TensorWidth(planFromFlags(q)), axis)
                      /\ Against(Compute(a, planAtCards(q, n)), UsableBytes(o.card, o.util)) = "fits"
                      /\ o.tp = 0 \/ o.expertParallel \/ n = o.tp
  <2> HIDE DEF all, tried, axis, q
  <2>1. /\ all.rows[k].cards = tried[k]
        /\ ~skipped(a, tried[k], TensorWidth(planFromFlags(q)), axis)
        /\ all.rows[k].verdict = Against(Compute(a, planAtCards(q, tried[k])), UsableBytes(o.card, o.util))
    BY <1>9, <1>10, <1>11
  <2> QED
    BY <1>11, <2>1
<1>12. CASE all.err \/ q.tp = 0 \/ q.expertParallel
  <2>1. got = all /\ ~all.err
    <3>1. got = all
      BY <1>6, <1>12, Zenon
    <3> QED
      BY <1>4, <3>1
  <2> HIDE DEF all, got, tried, axis, fitting
  <2>2. some # {}
    <3>1. got.rows \in Seq(Row)
      BY <1>9, <2>1
    <3>2. some \in SUBSET (DOMAIN got.rows)
      OBVIOUS
    <3> HIDE DEF some
    <3> QED
      BY <1>5, <1>7, <3>1, <3>2, PickedSome
  <2>3. PICK k \in DOMAIN tried : ~all.rows[k].skip /\ all.rows[k].verdict = "fits"
    BY <1>9, <2>1, <2>2
  <2>4. o.tp = 0 \/ o.expertParallel
    BY <1>1, <1>12, <2>1
  <2>5. \E i \in DOMAIN tried :
                      LET n == tried[i] IN
                      /\ ~skipped(a, n, TensorWidth(planFromFlags(q)), axis)
                      /\ Against(Compute(a, planAtCards(q, n)), UsableBytes(o.card, o.util)) = "fits"
                      /\ o.tp = 0 \/ o.expertParallel \/ n = o.tp
    BY <1>11, <2>1, <2>3, <2>4
  <2> QED
    BY <1>4, <1>a, <2>5, Zenon DEF tried, axis
<1>13. CASE ~(all.err \/ q.tp = 0 \/ q.expertParallel)
  <2>1. got.rows = Picked(all.rows, one) /\ ~all.err
    <3>1. got = [err |-> Picked(all.rows, one) = <<>>, rows |-> Picked(all.rows, one)]
      BY <1>6, <1>7, <1>13, Zenon
    <3> HIDE DEF got, all, one
    <3> QED
      BY <1>13, <3>1
  <2> HIDE DEF all, got, tried, axis, fitting
  <2>2. all.rows \in Seq(Row) /\ DOMAIN all.rows = DOMAIN tried
    BY <1>9, <2>1
  <2>3. one \in SUBSET (DOMAIN all.rows)
    OBVIOUS
  <2>4. got.rows \in Seq(Row) /\ ToSet(got.rows) = {all.rows[i] : i \in one}
    <3> HIDE DEF one, Row
    <3> QED
      BY <2>1, <2>2, <2>3, PickedIs
  <2>5. some # {}
    <3>1. some \in SUBSET (DOMAIN got.rows)
      OBVIOUS
    <3> HIDE DEF some
    <3> QED
      BY <1>5, <1>7, <2>4, <3>1, PickedSome
  <2>6. PICK i \in DOMAIN got.rows : ~got.rows[i].skip /\ got.rows[i].verdict = "fits"
    BY <2>5
  <2>7. got.rows[i] \in ToSet(got.rows)
    BY DEF ToSet
  <2>8. PICK k \in one : all.rows[k] = got.rows[i]
    BY <2>4, <2>7
  <2>9. k \in DOMAIN tried /\ all.rows[k].cards = o.tp
    BY <1>1, <2>2
  <2>10. \E j \in DOMAIN tried :
                      LET n == tried[j] IN
                      /\ ~skipped(a, n, TensorWidth(planFromFlags(q)), axis)
                      /\ Against(Compute(a, planAtCards(q, n)), UsableBytes(o.card, o.util)) = "fits"
                      /\ o.tp = 0 \/ o.expertParallel \/ n = o.tp
    BY <1>11, <2>1, <2>6, <2>8, <2>9
  <2> QED
    BY <1>4, <1>a, <2>10, Zenon DEF tried, axis
<1> QED
  BY <1>12, <1>13

\* A plan said to fit is said to hold a session.
LEMMA Reports == BudgetInput => ReportsAgree
<1> SUFFICES ASSUME BudgetInput, part = "budget",
                    ~modelBudgetCmd(input.arch, input.opts).err, modelBudgetCmd(input.arch, input.opts).fits
             PROVE  LET a == input.arch
                        o == input.opts
                        ctx == IF o.plan.len = 0 THEN a.maxPos ELSE o.plan.len
                        room == 400 \div o.util + 1
                        held == modelBudgetCmd(a, [o EXCEPT !.sessionsAt = <<ctx>>, !.card = o.card + room])
                    IN  ~held.err /\ held.fits
  BY DEF ReportsAgree
<1> DEFINE a == input.arch
           o == input.opts
           ctx == IF o.plan.len = 0 THEN a.maxPos ELSE o.plan.len
           room == 400 \div o.util + 1
           ask == [o EXCEPT !.sessionsAt = <<ctx>>, !.card = o.card + room]
           q == AtContext(a, o)
           tried == powers(o.maxCards)
           axis == IF o.expertParallel THEN "expert" ELSE "tensor"
           width == TensorWidth(planFromFlags(q))
<1>1. a \in ModelArch /\ o \in BudgetQuestion
  BY DEF BudgetInput
<1>2. ~modelBudgetCmd(a, o).err /\ modelBudgetCmd(a, o).fits
  OBVIOUS
<1> SUFFICES ~modelBudgetCmd(a, ask).err /\ modelBudgetCmd(a, ask).fits
  OBVIOUS
<1> HIDE DEF a, o
<1>3. /\ ~flagsRefused(o) /\ ~(a.quant # "") /\ ValidateArch(a) /\ q.plan.len > 0
      /\ \E k \in DOMAIN tried :
             /\ ~skipped(a, tried[k], width, axis)
             /\ Against(Compute(a, planAtCards(q, tried[k])), UsableBytes(o.card, o.util)) = "fits"
             /\ o.tp = 0 \/ o.expertParallel \/ tried[k] = o.tp
  BY <1>1, <1>2, RowsFit, Zenon
<1>4. PICK k \in DOMAIN tried :
             /\ ~skipped(a, tried[k], width, axis)
             /\ Against(Compute(a, planAtCards(q, tried[k])), UsableBytes(o.card, o.util)) = "fits"
             /\ o.tp = 0 \/ o.expertParallel \/ tried[k] = o.tp
  BY <1>3, Zenon
<1> DEFINE n == tried[k]
           p == planAtCards(q, n)
<1>5. tried \in Seq({1, 2, 4, 8})
  BY PowersAre
<1>6. n \in {1, 2, 4, 8}
  BY <1>4, <1>5
<1>7. /\ q \in BudgetQuestion
      /\ q.plan = [weights |-> o.plan.weights, kv |-> o.plan.kv, len |-> ctx,
                   batch |-> o.plan.batch, tp |-> o.plan.tp, ep |-> 0]
      /\ q.tp = o.tp /\ q.expertParallel = o.expertParallel
  BY <1>1, ContextIs
<1>8. /\ o.card > 0 /\ ~(o.util <= 0 \/ o.util > 100) /\ ~(o.maxCards < 1) /\ ~(o.plan.batch < 1) /\ ~(o.plan.len < 0)
      /\ ~(o.tp < 0) /\ ~(o.tp > 0 /\ o.maxCards < o.tp) /\ ~(o.expertParallel /\ ~powerOfTwo(o.tp))
  <2>1. ~(o.card <= 0)
    BY <1>3, Zenon DEF flagsRefused
  <2>2. o.card \in Int
    BY <1>1 DEF BudgetQuestion
  <2>3. o.card > 0
    BY <2>1, <2>2
  <2> QED
    BY <1>3, <2>3, Zenon DEF flagsRefused
<1>9. /\ o.card \in Int /\ o.util \in 1..100 /\ o.tp \in Int /\ o.expertParallel \in BOOLEAN
      /\ o.plan.batch \in Int /\ o.plan.batch > 0
  <2>1. o.card \in Int /\ o.util \in Int /\ o.tp \in Int
    BY <1>1 DEF BudgetQuestion
  <2>2. o.plan \in BudgetPlan /\ o.expertParallel \in BOOLEAN
    BY <1>1 DEF BudgetQuestion
  <2>3. o.plan.batch \in Int
    BY <2>2 DEF BudgetPlan
  <2> QED
    BY <1>8, <2>1, <2>2, <2>3
<1>10. room \in Nat \ {0}
  BY <1>9
<1>11. ctx > 0 /\ ctx \in Int
  <2>1. a.maxPos \in Int /\ o.plan \in BudgetPlan
    BY <1>1 DEF ModelArch, BudgetQuestion
  <2>2. q.plan.len = ctx
    BY <1>7
  <2> QED
    BY <1>3, <2>1, <2>2 DEF BudgetPlan
<1> HIDE DEF ctx, room, q, tried
<1>12. /\ ask.plan = o.plan /\ ask.card = o.card + room /\ ask.util = o.util /\ ask.maxCards = o.maxCards
       /\ ask.tp = o.tp /\ ask.expertParallel = o.expertParallel /\ ask.sessionsAt = <<ctx>>
  BY <1>1 DEF BudgetQuestion
<1> HIDE DEF ask
<1>13. ~flagsRefused(ask)
  <2>1. ~(ask.card <= 0)
    BY <1>8, <1>9, <1>10, <1>12
  <2>2. \A x \in ToSet(ask.sessionsAt) : ~(x <= 0)
    BY <1>11, <1>12 DEF ToSet
  <2>3. /\ ~(ask.util <= 0 \/ ask.util > 100) /\ ~(ask.maxCards < 1) /\ ~(ask.plan.batch < 1) /\ ~(ask.plan.len < 0)
        /\ ~(ask.tp < 0) /\ ~(ask.tp > 0 /\ ask.maxCards < ask.tp) /\ ~(ask.expertParallel /\ ~powerOfTwo(ask.tp))
    BY <1>8, <1>12
  <2> QED
    BY <2>1, <2>2, <2>3, Zenon DEF flagsRefused
<1> DEFINE report == sessionsReport(a, ask)
<1>14. modelBudgetCmd(a, ask) = report
  <2>1. ask.sessionsAt # <<>>
    BY <1>12
  <2> QED
    BY <1>3, <1>13, <2>1, Zenon DEF modelBudgetCmd, renderModelBudget
\* The column of the row that fits.
<1> DEFINE cols == sessionCardLadder(ask)
<1>15. cols \in Seq(Int) /\ \E c \in DOMAIN cols : cols[c] = n
  <2>1. CASE o.tp > 0 /\ ~o.expertParallel
    <3>1. cols = <<o.tp>>
      BY <1>12, <2>1 DEF sessionCardLadder
    <3>2. n = o.tp
      BY <1>4, <1>9, <2>1
    <3> HIDE DEF cols, n
    <3>3. 1 \in DOMAIN cols /\ cols[1] = n /\ cols \in Seq(Int)
      BY <1>9, <3>1, <3>2
    <3> QED
      BY <3>3
  <2>2. CASE ~(o.tp > 0 /\ ~o.expertParallel)
    <3> DEFINE P == {i \in DOMAIN tried : ask.expertParallel => tried[i] % TensorWidth(planFromFlags(ask)) = 0}
    <3>1. cols = Picked(tried, P)
      <4>1. cols = Keep(tried, LAMBDA m : ask.expertParallel => m % TensorWidth(planFromFlags(ask)) = 0)
        BY <1>12, <2>2 DEF sessionCardLadder, tried
      <4> QED
        BY <4>1, Zenon DEF Keep
    <3>2. P \in SUBSET (DOMAIN tried)
      OBVIOUS
    <3>3. k \in P
      <4>1. CASE ~o.expertParallel
        BY <1>4, <1>12, <4>1
      <4>2. CASE o.expertParallel
        <5>1. TensorWidth(planFromFlags(ask)) = width
          <6>1. \A r \in BudgetPlan : \A x : [r EXCEPT !.tp = x].tp = x
            BY DEF BudgetPlan
          <6>2. ask.plan \in BudgetPlan /\ q.plan \in BudgetPlan
            BY <1>1, <1>7, <1>12 DEF BudgetQuestion
          <6>3. planFromFlags(ask).tp = o.tp /\ planFromFlags(q).tp = o.tp
            BY <1>7, <1>12, <4>2, <6>1, <6>2 DEF planFromFlags
          <6> QED
            BY <6>3 DEF TensorWidth
        <5>2. n % width = 0
          <6>1. axis = "expert"
            BY <4>2
          <6> HIDE DEF axis, width, n
          <6> QED
            BY <1>4, <6>1 DEF skipped, n
        <5> HIDE DEF width
        <5> QED
          BY <1>4, <5>1, <5>2
      <4> QED
        BY <1>9, <4>1, <4>2
    <3> HIDE DEF P, cols
    <3>4. cols \in Seq({1, 2, 4, 8}) /\ ToSet(cols) = {tried[i] : i \in P}
      BY <1>5, <3>1, <3>2, PickedIs
    <3>5. n \in ToSet(cols)
      BY <3>3, <3>4
    <3>6. \E c \in DOMAIN cols : cols[c] = n
      BY <3>5 DEF ToSet
    <3>7. cols \in Seq(Int)
      BY <3>4
    <3> QED
      BY <3>6, <3>7
  <2> QED
    BY <2>1, <2>2, Zenon
<1>16. PICK c \in DOMAIN cols : cols[c] = n
  BY <1>15
<1> HIDE DEF cols
<1>17. cols # <<>>
  BY <1>16
<1> DEFINE cell(x, m) == MaxSessions(a, [planAtCards(ask, m) EXCEPT !.len = x], ask.card, ask.util)
           table == [i \in DOMAIN ask.sessionsAt |-> [j \in DOMAIN cols |-> cell(ask.sessionsAt[i], cols[j])]]
<1>18. report = [err |-> cols = <<>>, table |-> table,
                 fits |-> \E i \in DOMAIN table : \E j \in DOMAIN cols : table[i][j] > 0]
  BY Zenon DEF sessionsReport, cols
<1>19. 1 \in DOMAIN table /\ table[1][c] = cell(ctx, n)
  <2> HIDE DEF cell
  <2>1. DOMAIN ask.sessionsAt = {1} /\ ask.sessionsAt[1] = ctx
    BY <1>12
  <2> QED
    BY <1>16, <2>1
\* Its cell is a session or more.
<1>20. [planAtCards(ask, n) EXCEPT !.len = ctx] = p
  <2>1. p = [weights |-> o.plan.weights, kv |-> o.plan.kv, len |-> ctx, batch |-> o.plan.batch,
             tp |-> IF o.expertParallel THEN o.tp ELSE n, ep |-> IF o.expertParallel THEN n ELSE 0]
    <3>1. p = [weights |-> q.plan.weights, kv |-> q.plan.kv, len |-> q.plan.len, batch |-> q.plan.batch,
               tp |-> IF q.expertParallel THEN q.tp ELSE n, ep |-> IF q.expertParallel THEN n ELSE 0]
      BY <1>7, RowSpelled
    <3> QED
      BY <1>7, <3>1
  <2>2. planAtCards(ask, n) = planAtCards(o, n)
    BY <1>12 DEF planAtCards, planFromFlags
  <2>3. planAtCards(o, n) =
            [weights |-> o.plan.weights, kv |-> o.plan.kv, len |-> o.plan.len, batch |-> o.plan.batch,
             tp |-> IF o.expertParallel THEN o.tp ELSE n, ep |-> IF o.expertParallel THEN n ELSE 0]
    BY <1>1, RowSpelled
  <2> HIDE DEF p, n
  <2> QED
    BY <2>1, <2>2, <2>3
<1>21. p \in PlanRow /\ p.len > 0 /\ p.batch > 0
  <2>1. p \in PlanRow
    BY <1>6, <1>7, RowIsPlan
  <2>2. p.len = q.plan.len /\ p.batch = q.plan.batch
    <3>1. p = [weights |-> q.plan.weights, kv |-> q.plan.kv, len |-> q.plan.len, batch |-> q.plan.batch,
               tp |-> IF q.expertParallel THEN q.tp ELSE n, ep |-> IF q.expertParallel THEN n ELSE 0]
      BY <1>7, RowSpelled
    <3> HIDE DEF p, n
    <3> QED
      BY <3>1
  <2>3. q.plan.batch = o.plan.batch
    BY <1>7
  <2> QED
    BY <1>3, <1>9, <2>1, <2>2, <2>3
<1>22. weightBytesPerCard(a, p) \in Int
  <2>1. n \in Nat \ {0}
    BY <1>6
  <2>2. p.weights \in Precisions /\ TensorWidth(p) \in Nat \ {0} /\ expertCards(p) = n
    BY <1>7, <2>1, RowPlan
  <2> HIDE DEF p, n
  <2> QED
    BY <1>1, <2>1, <2>2, WeightsAre
<1>23. Compute(a, p).total <= UsableBytes(o.card, o.util)
  BY <1>4 DEF Against
<1>24. cell(ctx, n) > 0
  <2>1. MaxSessions(a, p, o.card + AFewBytes(o.util), o.util) > 0
    <3>1. ValidateArch(a)
      BY <1>3, Zenon
    <3>2. o.card \in Int /\ o.util \in Int
      BY <1>1 DEF BudgetQuestion
    <3>3. o.util \in 1..100 /\ p \in PlanRow /\ p.len > 0 /\ p.batch > 0
      BY <1>9, <1>21, Zenon
    <3>4. a \in ModelArch
      BY <1>1
    <3> HIDE DEF p
    <3> QED
      BY <3>1, <3>2, <3>3, <3>4, <1>22, <1>23, FitHolds, Zenon
  <2>2. cell(ctx, n) = MaxSessions(a, p, o.card + room, o.util)
    BY <1>12, <1>20, Zenon
  <2> QED
    BY <2>1, <2>2, Zenon DEF room, AFewBytes
<1> HIDE DEF cell
<1>25. \E i \in DOMAIN table : \E j \in DOMAIN cols : table[i][j] > 0
  <2> HIDE DEF table
  <2> QED
    BY <1>16, <1>19, <1>24
<1> HIDE DEF table, report
<1>26. ~report.err /\ report.fits
  BY <1>17, <1>18, <1>25
<1> QED
  BY <1>14, <1>26

\* The first number of three that is not zero, where two are.
LEMMA OneSpelling ==
    \A n \in Nat : firstNonZero(<<n, 0, 0>>) = n /\ firstNonZero(<<0, n, 0>>) = n /\ firstNonZero(<<0, 0, n>>) = n
<1> SUFFICES ASSUME NEW n \in Nat
             PROVE  firstNonZero(<<n, 0, 0>>) = n /\ firstNonZero(<<0, n, 0>>) = n /\ firstNonZero(<<0, 0, n>>) = n
  OBVIOUS
<1>1. \A k \in 1..3 : Min({k}) = k
  BY DEF Min
<1>2. ASSUME NEW s \in Seq(Nat), NEW k \in 1..3, Len(s) = 3, s[k] = n, \A j \in 1..3 : j # k => s[j] = 0
      PROVE  firstNonZero(s) = n
  <2>1. DOMAIN s = 1..3
    BY <1>2
  <2>2. CASE n = 0
    <3>1. {j \in DOMAIN s : s[j] > 0} = {}
      BY <1>2, <2>1, <2>2
    <3> QED
      BY <2>2, <3>1, Zenon DEF firstNonZero
  <2>3. CASE n > 0
    <3>1. {j \in DOMAIN s : s[j] > 0} = {k}
      BY <1>2, <2>1, <2>3
    <3>2. {k} # {} /\ Min({k}) = k
      BY <1>1, <1>2
    <3>3. firstNonZero(s) = s[k]
      BY <3>1, <3>2, Zenon DEF firstNonZero
    <3> QED
      BY <1>2, <3>3
  <2> QED
    BY <2>2, <2>3
<1>3. firstNonZero(<<n, 0, 0>>) = n
  <2> DEFINE s == <<n, 0, 0>>
  <2>1. s \in Seq(Nat) /\ Len(s) = 3 /\ s[1] = n /\ \A j \in 1..3 : j # 1 => s[j] = 0
    OBVIOUS
  <2> HIDE DEF s
  <2>2. firstNonZero(s) = n
    BY <1>2, <2>1
  <2> QED
    BY <2>2 DEF s
<1>4. firstNonZero(<<0, n, 0>>) = n
  <2> DEFINE s == <<0, n, 0>>
  <2>1. s \in Seq(Nat) /\ Len(s) = 3 /\ s[2] = n /\ \A j \in 1..3 : j # 2 => s[j] = 0
    OBVIOUS
  <2> HIDE DEF s
  <2>2. firstNonZero(s) = n
    BY <1>2, <2>1
  <2> QED
    BY <2>2 DEF s
<1>5. firstNonZero(<<0, 0, n>>) = n
  <2> DEFINE s == <<0, 0, n>>
  <2>1. s \in Seq(Nat) /\ Len(s) = 3 /\ s[3] = n /\ \A j \in 1..3 : j # 3 => s[j] = 0
    OBVIOUS
  <2> HIDE DEF s
  <2>2. firstNonZero(s) = n
    BY <1>2, <2>1
  <2> QED
    BY <2>2 DEF s
<1> QED
  BY <1>3, <1>4, <1>5

\* Two configs that say the same of everything but where the number of experts
\* is written.
SaysAlike(c, d) ==
    /\ expertsIn(c) = expertsIn(d)
    /\ \A f \in {"num_hidden_layers", "num_attention_heads", "num_key_value_heads", "hidden_size", "head_dim",
                 "num_experts_per_tok", "num_experts_per_token", "experts_per_token", "max_position_embeddings",
                 "moe_intermediate_size", "intermediate_size", "first_k_dense_replace", "num_nextn_predict_layers",
                 "routed_expert_hidden_size", "kv_lora_rank", "qk_rope_head_dim", "full_attn_layers",
                 "quant_algo", "quant_method"} : c[f] = d[f]

\* The shape of a model is read from nothing else.
LEMMA ShapeOfWhatIsSaid ==
    ASSUME NEW total, NEW x, NEW y, SaysAlike(languageModel(x), languageModel(y))
    PROVE  shapeOf(total, x) = shapeOf(total, y)
<1> DEFINE c == languageModel(x)
           d == languageModel(y)
<1>1. /\ c.num_hidden_layers = d.num_hidden_layers /\ c.num_attention_heads = d.num_attention_heads
      /\ c.num_key_value_heads = d.num_key_value_heads /\ c.hidden_size = d.hidden_size /\ c.head_dim = d.head_dim
      /\ c.num_experts_per_tok = d.num_experts_per_tok /\ c.num_experts_per_token = d.num_experts_per_token
      /\ c.experts_per_token = d.experts_per_token /\ c.max_position_embeddings = d.max_position_embeddings
      /\ c.moe_intermediate_size = d.moe_intermediate_size /\ c.intermediate_size = d.intermediate_size
      /\ c.first_k_dense_replace = d.first_k_dense_replace /\ c.num_nextn_predict_layers = d.num_nextn_predict_layers
      /\ c.routed_expert_hidden_size = d.routed_expert_hidden_size /\ c.kv_lora_rank = d.kv_lora_rank
      /\ c.qk_rope_head_dim = d.qk_rope_head_dim /\ c.full_attn_layers = d.full_attn_layers
      /\ c.quant_algo = d.quant_algo /\ c.quant_method = d.quant_method /\ expertsIn(c) = expertsIn(d)
  BY Zenon DEF SaysAlike
<1> HIDE DEF c, d
<1>2. resolveExperts(c) = resolveExperts(d)
  BY <1>1, Zenon DEF resolveExperts
<1>3. resolveAttention(c) = resolveAttention(d)
  BY <1>1, Zenon DEF resolveAttention
<1>4. scheme(c) = scheme(d)
  BY <1>1, Zenon DEF scheme
<1> QED
  BY <1>1, <1>2, <1>3, <1>4, Zenon DEF shapeOf, c, d

\* What is answered of a model follows from the card, whether the config could
\* be had and its shape; a shape the budget could not use is refused whatever
\* else it says.
LEMMA ToldAlike ==
    ASSUME NEW spec, NEW g, NEW h, g.info = h.info, g.config.says = h.config.says,
           \/ shapeOf(g.info.total, g.config.body) = shapeOf(h.info.total, h.config.body)
           \/ /\ ~ValidateArch(shapeOf(g.info.total, g.config.body))
              /\ ~ValidateArch(shapeOf(h.info.total, h.config.body))
    PROVE  Architecture(spec, g) = Architecture(spec, h)
<1>1. ResolveModel(spec, g) = ResolveModel(spec, h)
  BY Zenon DEF ResolveModel
<1>2. CASE shapeOf(g.info.total, g.config.body) = shapeOf(h.info.total, h.config.body)
  BY <1>1, <1>2, Zenon DEF Architecture
<1>3. CASE /\ ~ValidateArch(shapeOf(g.info.total, g.config.body))
           /\ ~ValidateArch(shapeOf(h.info.total, h.config.body))
  BY <1>1, <1>3, Zenon DEF Architecture
<1> QED
  BY <1>2, <1>3, Zenon

\* A model without layers is not described.
LEMMA NoLayers ==
    ASSUME NEW total, NEW c, languageModel(c).num_hidden_layers = 0
    PROVE  ~ValidateArch(shapeOf(total, c))
<1>1. shapeOf(total, c).layers = languageModel(c).num_hidden_layers
  BY Zenon DEF shapeOf
<1>2. ~(shapeOf(total, c).layers > 0)
  BY <1>1
<1> QED
  BY <1>2, Zenon DEF ValidateArch

\* A language model nests no other that is used, and a config that carries
\* one with layers is read through it.
LEMMA Nesting ==
    ASSUME NEW body \in HubConfig
    PROVE  LET own == languageModel(body) IN
           /\ own \in HubConfig
           /\ own.text_config = <<>> \/ ~(own.text_config[1].num_hidden_layers > 0)
           /\ own.num_hidden_layers = 0 => own = body
<1>1. CASE ~(body.text_config # <<>> /\ body.text_config[1].num_hidden_layers > 0)
  <2>1. languageModel(body) = body
    BY <1>1, Zenon DEF languageModel
  <2> QED
    BY <1>1, <2>1, Zenon
<1>2. CASE body.text_config # <<>> /\ body.text_config[1].num_hidden_layers > 0
  <2>1. languageModel(body) = body.text_config[1]
    BY <1>2, Zenon DEF languageModel
  <2>2. body.text_config \in Seq(Inner)
    BY DEF HubConfig, ConfigOf
  <2>3. body.text_config[1] \in Inner
    BY <1>2, <2>2
  <2>4. <<>> \in Seq(Inner)
    OBVIOUS
  <2>5. \A x \in Inner : x \in HubConfig /\ x.text_config = <<>>
    <3> SUFFICES ASSUME NEW x \in Inner PROVE x \in HubConfig /\ x.text_config = <<>>
      OBVIOUS
    <3> HIDE DEF Inner
    <3> DEFINE Nested == Seq(Inner)
    <3>1. {<<>>} \subseteq Nested
      BY <2>4
    <3>2. x \in ConfigOf({<<>>})
      BY DEF Inner
    <3> HIDE DEF Nested
    <3>3. x \in ConfigOf(Nested)
      BY <3>1, <3>2 DEF ConfigOf
    <3>4. x.text_config = <<>>
      BY <3>2 DEF ConfigOf
    <3> QED
      BY <3>3, <3>4 DEF HubConfig, Nested
  <2>6. ~(0 > 0)
    OBVIOUS
  <2> QED
    BY <1>2, <2>1, <2>3, <2>5, <2>6, Zenon
<1> QED
  BY <1>1, <1>2

\* A config written in another family's key says the same.
LEMMA Respelt ==
    ASSUME NEW own \in HubConfig
    PROVE  LET n == own.n_routed_experts
               respelt == [own EXCEPT !.n_routed_experts = 0, !.num_experts = n]
               again == [own EXCEPT !.n_routed_experts = 0, !.num_local_experts = n]
           IN  \A c \in {own, respelt, again} :
                   /\ SaysAlike(c, own)
                   /\ c.text_config = own.text_config /\ c.num_hidden_layers = own.num_hidden_layers
<1> DEFINE n == own.n_routed_experts
           respelt == [own EXCEPT !.n_routed_experts = 0, !.num_experts = n]
           again == [own EXCEPT !.n_routed_experts = 0, !.num_local_experts = n]
           keys == {"num_hidden_layers", "num_attention_heads", "num_key_value_heads", "hidden_size", "head_dim",
                    "num_experts_per_tok", "num_experts_per_token", "experts_per_token", "max_position_embeddings",
                    "moe_intermediate_size", "intermediate_size", "first_k_dense_replace", "num_nextn_predict_layers",
                    "routed_expert_hidden_size", "kv_lora_rank", "qk_rope_head_dim", "full_attn_layers",
                    "quant_algo", "quant_method"}
<1>1. /\ own.n_routed_experts \in Nat /\ own.num_experts = 0 /\ own.num_local_experts = 0
      /\ {"n_routed_experts", "num_experts", "num_local_experts", "text_config"} \cup keys = DOMAIN own
      /\ own = [f \in DOMAIN own |-> own[f]]
  BY DEF HubConfig, ConfigOf
<1>2. /\ respelt.n_routed_experts = 0 /\ respelt.num_experts = n /\ respelt.num_local_experts = 0
      /\ \A f \in keys \cup {"text_config"} : respelt[f] = own[f]
  BY <1>1
<1>3. /\ again.n_routed_experts = 0 /\ again.num_experts = 0 /\ again.num_local_experts = n
      /\ \A f \in keys \cup {"text_config"} : again[f] = own[f]
  BY <1>1
<1> HIDE DEF respelt, again
<1>4. expertsIn(own) = n /\ expertsIn(respelt) = n /\ expertsIn(again) = n
  <2>1. n \in Nat
    BY <1>1
  <2> QED
    BY <1>1, <1>2, <1>3, <2>1, OneSpelling DEF expertsIn
<1>5. \A c \in {own, respelt, again} : SaysAlike(c, own)
  <2> SUFFICES ASSUME NEW c \in {own, respelt, again} PROVE SaysAlike(c, own)
    OBVIOUS
  <2>1. expertsIn(c) = expertsIn(own)
    BY <1>4
  <2>2. \A f \in keys : c[f] = own[f]
    BY <1>2, <1>3
  <2> QED
    BY <2>1, <2>2, Zenon DEF SaysAlike
<1>6. \A c \in {own, respelt, again} : c.text_config = own.text_config /\ c.num_hidden_layers = own.num_hidden_layers
  BY <1>2, <1>3
<1> QED
  BY <1>5, <1>6, Zenon DEF respelt, again

\* A model is described alike however its config is written.
LEMMA Spellings == ModelInput => SpellingsAgree
<1> SUFFICES ASSUME ModelInput, part = "describe"
             PROVE  LET body == input.hub.config.body
                        own == languageModel(body)
                        n == own.n_routed_experts
                        respelt == [own EXCEPT !.n_routed_experts = 0, !.num_experts = n]
                        again == [own EXCEPT !.n_routed_experts = 0, !.num_local_experts = n]
                        told(c) == Architecture(input.spec, [input.hub EXCEPT !.config.body = c])
                    IN  \A c \in {own, respelt, again} :
                            told(c) = told([body EXCEPT !.text_config = <<c>>]) /\ told(c) = told(body)
  BY DEF SpellingsAgree
<1> DEFINE hub == input.hub
           body == hub.config.body
           own == languageModel(body)
           n == own.n_routed_experts
           respelt == [own EXCEPT !.n_routed_experts = 0, !.num_experts = n]
           again == [own EXCEPT !.n_routed_experts = 0, !.num_local_experts = n]
           at(c) == [hub EXCEPT !.config.body = c]
           told(c) == Architecture(input.spec, at(c))
<1> SUFFICES ASSUME NEW c \in {own, respelt, again}
             PROVE  told(c) = told([body EXCEPT !.text_config = <<c>>]) /\ told(c) = told(body)
  BY Zenon
<1> DEFINE nest == [body EXCEPT !.text_config = <<c>>]
<1>1. hub \in Hub
  BY DEF ModelInput
<1>2. body \in HubConfig
  BY <1>1 DEF Hub
<1>3. /\ own \in HubConfig
      /\ own.text_config = <<>> \/ ~(own.text_config[1].num_hidden_layers > 0)
      /\ own.num_hidden_layers = 0 => own = body
  BY <1>2, Nesting, Zenon
<1>4. SaysAlike(c, own) /\ c.text_config = own.text_config /\ c.num_hidden_layers = own.num_hidden_layers
  BY <1>3, Respelt, Zenon
<1>5. \A x : at(x).info = hub.info /\ at(x).config.says = hub.config.says /\ at(x).config.body = x
  BY <1>1 DEF Hub
<1>6. languageModel(c) = c
  BY <1>3, <1>4, Zenon DEF languageModel
<1>7. nest.text_config = <<c>> /\ nest.num_hidden_layers = body.num_hidden_layers
  BY <1>2 DEF HubConfig, ConfigOf
<1>8. <<c>> # <<>> /\ <<c>>[1] = c
  OBVIOUS
<1> HIDE DEF nest, at, own, body, hub, n, respelt, again
<1>9. shapeOf(hub.info.total, c) = shapeOf(hub.info.total, body)
  BY <1>4, <1>6, ShapeOfWhatIsSaid, Zenon DEF own
<1> HIDE DEF told
<1>13. ASSUME NEW x, NEW y,
             \/ shapeOf(hub.info.total, x) = shapeOf(hub.info.total, y)
             \/ ~ValidateArch(shapeOf(hub.info.total, x)) /\ ~ValidateArch(shapeOf(hub.info.total, y))
       PROVE  told(x) = told(y)
  <2> DEFINE g == at(x)
             h == at(y)
  <2>1. /\ g.info = hub.info /\ h.info = hub.info /\ g.config.says = hub.config.says /\ h.config.says = hub.config.says
        /\ g.config.body = x /\ h.config.body = y
    BY <1>5, Zenon
  <2> HIDE DEF g, h
  <2>2. g.info = h.info /\ g.config.says = h.config.says
    BY <2>1, Zenon
  <2>3. \/ shapeOf(g.info.total, g.config.body) = shapeOf(h.info.total, h.config.body)
        \/ /\ ~ValidateArch(shapeOf(g.info.total, g.config.body))
           /\ ~ValidateArch(shapeOf(h.info.total, h.config.body))
    BY <1>13, <2>1, Zenon
  <2>4. Architecture(input.spec, g) = Architecture(input.spec, h)
    BY <2>2, <2>3, ToldAlike, Zenon
  <2> QED
    BY <2>4, Zenon DEF told, g, h
<1>10. told(c) = told(body)
  BY <1>9, <1>13, Zenon
<1>11. CASE c.num_hidden_layers > 0
  <2>1. languageModel(nest) = c
    BY <1>7, <1>8, <1>11, Zenon DEF languageModel
  <2>2. SaysAlike(languageModel(c), languageModel(nest))
    BY <1>6, <2>1, Zenon DEF SaysAlike
  <2>3. shapeOf(hub.info.total, c) = shapeOf(hub.info.total, nest)
    BY <2>2, ShapeOfWhatIsSaid, Zenon
  <2>4. told(c) = told(nest)
    BY <1>13, <2>3, Zenon
  <2> QED
    BY <1>10, <2>4, Zenon DEF nest
<1>12. CASE ~(c.num_hidden_layers > 0)
  <2>1. own.num_hidden_layers \in Nat
    BY <1>3 DEF HubConfig, ConfigOf
  <2>2. c.num_hidden_layers = 0
    BY <1>4, <1>12, <2>1
  <2>3. own = body
    BY <1>3, <1>4, <2>2, Zenon
  <2>4. languageModel(nest) = nest
    BY <1>7, <1>8, <1>12, Zenon DEF languageModel
  <2>5. languageModel(nest).num_hidden_layers = 0 /\ languageModel(c).num_hidden_layers = 0
    BY <1>4, <1>6, <1>7, <2>2, <2>3, <2>4, Zenon
  <2>6. /\ ~ValidateArch(shapeOf(hub.info.total, c))
        /\ ~ValidateArch(shapeOf(hub.info.total, nest))
    BY <2>5, NoLayers, Zenon
  <2>7. told(c) = told(nest)
    BY <1>13, <2>6, Zenon
  <2> QED
    BY <1>10, <2>7, Zenon DEF nest
<1> QED
  BY <1>11, <1>12, Zenon

\* A download size is that of the weight files of the whole listing.
LEMMA Downloads == ModelInput => DownloadIsWhole
<1> DEFINE pages == input.hub.pages
           read == SubSeq(pages, 1, IF Len(pages) < maxTreePages THEN Len(pages) ELSE maxTreePages)
           whole == FlattenSeq([k \in DOMAIN pages |-> pages[k].entries])
           got == DescribeModel(input.spec, input.hub)
<1> SUFFICES ASSUME ModelInput, part = "describe", got.code = "OK", ~got.checkpoint.err, Len(pages) <= maxTreePages
             PROVE  got.checkpoint.bytes
                        = FoldSeq(LAMBDA e, n : n + (IF e.safetensors THEN entrySize(e) ELSE 0), 0, whole)
  BY Zenon DEF DownloadIsWhole
<1>1. pages \in Seq([ok : BOOLEAN, entries : Seq([safetensors : BOOLEAN, size : Nat, lfs : Nat])])
  BY DEF ModelInput, Hub
<1>2. read = pages
  BY <1>1 DEF maxTreePages
<1>3. got.checkpoint = Checkpoint(input.spec, input.hub)
  BY Zenon DEF DescribeModel
<1>4. ~fetchTree(pages).err /\ ~specRefused(input.spec)
  <2>1. CASE specRefused(input.spec) \/ fetchTree(pages).err
    <3>1. got.checkpoint = [err |-> TRUE]
      BY <1>3, <2>1, Zenon DEF Checkpoint
    <3>2. got.checkpoint.err
      BY <3>1
    <3>3. ~got.checkpoint.err
      OBVIOUS
    <3> HIDE DEF got
    <3> QED
      BY <3>2, <3>3
  <2> QED
    BY <2>1
<1>5. fetchTree(pages).entries = whole
  BY <1>2, <1>4, Zenon DEF fetchTree
<1>6. got.checkpoint.bytes
          = FoldSeq(LAMBDA e, n : n + (IF e.safetensors THEN entrySize(e) ELSE 0), 0, fetchTree(pages).entries)
  <2> DEFINE entries == fetchTree(pages).entries
             files == Cardinality({k \in DOMAIN entries : entries[k].safetensors})
             bytes == FoldSeq(LAMBDA e, n : n + (IF e.safetensors THEN entrySize(e) ELSE 0), 0, entries)
  <2>1. got.checkpoint = [err |-> FALSE, files |-> files, bytes |-> bytes]
    BY <1>3, <1>4 DEF Checkpoint
  <2> HIDE DEF files, bytes, got
  <2>2. got.checkpoint.bytes = bytes
    BY <2>1
  <2> QED
    BY <2>2, Zenon DEF bytes, entries
<1> HIDE DEF whole, read, got, pages
<1> QED
  BY <1>5, <1>6

\* The budget of every model, plan, deploy and hub that can be asked about.
THEOREM SizingCorrect == BudgetInput /\ ModelInput => SizingSound
<1> SUFFICES ASSUME BudgetInput, ModelInput PROVE SizingSound
  OBVIOUS
<1>1. ActiveIsSparse /\ WeightsAllHeld /\ SessionsAgree
  BY Sparse, AllHeld, Sessions, Zenon
<1>2. ReportsAgree /\ PlanReadsEveryFlag /\ RefusalIsCertain /\ FullestCardBudgeted
  BY Reports, ReadsEvery, RefusedRightly, Fullest, Zenon
<1>3. SpellingsAgree /\ DownloadIsWhole
  BY Spellings, Downloads, Zenon
<1> QED
  BY <1>1, <1>2, <1>3, Zenon DEF SizingSound

-----------------------------------------------------------------------------
(***************************************************************************)
(* Tokens.  A stream lays its events out one after the other, and each     *)
(* ends where the router looks for an end and nowhere else.  So what the   *)
(* writer has read when it has been sent the first m symbols is what the   *)
(* events that end within them report, wherever the cuts were.  Both loops *)
(* are runs through sets of states (RunOf): no induction is needed.        *)
(***************************************************************************)

\* What holds of the first of some numbers and of the next of each for which it
\* holds, holds of all.
LEMMA Forwards ==
    ASSUME NEW n \in Nat, NEW Held, 0 \in Held,
           \A i \in 0..n : i < n /\ i \in Held => i + 1 \in Held
    PROVE  \A i \in 0..n : i \in Held
<1> DEFINE Back == {i \in 1..(n + 1) : (n + 1) - i \in Held}
<1>1. n + 1 \in Back
  BY (n + 1) - (n + 1) = 0
<1>2. \A i \in 1..n : i + 1 \in Back => i \in Back
  <2> SUFFICES ASSUME NEW i \in 1..n, i + 1 \in Back PROVE i \in Back
    OBVIOUS
  <2>1. (n + 1) - (i + 1) \in Held
    OBVIOUS
  <2>2. (n + 1) - (i + 1) \in 0..n /\ (n + 1) - (i + 1) < n /\ ((n + 1) - (i + 1)) + 1 = (n + 1) - i
    OBVIOUS
  <2>3. (n + 1) - i \in Held
    BY <2>1, <2>2
  <2> QED
    BY <2>3
<1> HIDE DEF Back
<1>3. \A i \in 1..(n + 1) : i \in Back
  BY <1>1, <1>2, Backwards
<1> SUFFICES ASSUME NEW j \in 0..n PROVE j \in Held
  OBVIOUS
<1>4. (n + 1) - j \in 1..(n + 1) /\ (n + 1) - ((n + 1) - j) = j
  OBVIOUS
<1>5. (n + 1) - j \in Back
  BY <1>3, <1>4
<1> QED
  BY <1>4, <1>5 DEF Back

\* A loop of n rounds, given by what each makes of the state before it and by
\* where the states are after each; and a run of it.
Loops(F, n, S) == \A k \in 1..n : \A y \in S[k - 1] : F[<<k, y>>] \in S[k]
RunOf(F, n, S, x, r) ==
    /\ r = [k \in 0..n |-> r[k]] /\ r[0] = x
    /\ \A k \in 0..n : r[k] \in S[k]
    /\ \A k \in 1..n : r[k] = F[<<k, r[k - 1]>>]

\* There is one.
LEMMA Stepwise ==
    ASSUME NEW n \in Nat, NEW S, NEW x \in S[0], NEW F, Loops(F, n, S)
    PROVE  \E r : RunOf(F, n, S, x, r)
<1> USE DEF Loops
<1> DEFINE Held == {m \in 0..n : \E r : RunOf(F, m, S, x, r)}
<1>1. 0 \in Held
  <2> DEFINE r == [k \in 0..0 |-> x]
  <2>1. RunOf(F, 0, S, x, r)
    BY DEF RunOf
  <2> HIDE DEF r
  <2> QED
    BY <2>1
<1>2. ASSUME NEW m \in 0..n, m < n, m \in Held
      PROVE  m + 1 \in Held
  <2>1. PICK r : RunOf(F, m, S, x, r)
    BY <1>2
  <2> DEFINE q == [k \in 0..(m + 1) |-> IF k = m + 1 THEN F[<<m + 1, r[m]>>] ELSE r[k]]
  <2>2. F[<<m + 1, r[m]>>] \in S[m + 1]
    <3>1. m + 1 \in 1..n /\ (m + 1) - 1 = m /\ m \in 0..m
      BY <1>2
    <3>2. r[m] \in S[m]
      BY <2>1, <3>1 DEF RunOf
    <3> QED
      BY <3>1, <3>2
  <2>3. \A k \in 0..(m + 1) : q[k] \in S[k]
    <3> SUFFICES ASSUME NEW k \in 0..(m + 1) PROVE q[k] \in S[k]
      OBVIOUS
    <3>1. CASE k = m + 1
      BY <2>2, <3>1
    <3>2. CASE k # m + 1
      <4>1. k \in 0..m /\ q[k] = r[k]
        BY <3>2
      <4> QED
        BY <2>1, <4>1 DEF RunOf
    <3> QED
      BY <3>1, <3>2
  <2>4. q[0] = x
    BY <2>1 DEF RunOf
  <2>5. ASSUME NEW k \in 1..(m + 1)
        PROVE  q[k] = F[<<k, q[k - 1]>>]
    <3>1. q[k - 1] = r[k - 1]
      OBVIOUS
    <3>2. CASE k = m + 1
      <4>1. q[k] = F[<<m + 1, r[m]>>] /\ k - 1 = m
        BY <3>2
      <4> HIDE DEF q
      <4> QED
        BY <3>1, <3>2, <4>1
    <3>3. CASE k # m + 1
      <4>1. k \in 1..m /\ q[k] = r[k]
        BY <3>3
      <4>2. r[k] = F[<<k, r[k - 1]>>]
        BY <2>1, <4>1 DEF RunOf
      <4> HIDE DEF q
      <4> QED
        BY <3>1, <4>1, <4>2
    <3> QED
      BY <3>2, <3>3
  <2>a. q = [k \in 0..(m + 1) |-> q[k]]
    OBVIOUS
  <2>6. RunOf(F, m + 1, S, x, q)
    <3> HIDE DEF q
    <3> QED
      BY <2>3, <2>4, <2>5, <2>a DEF RunOf
  <2> HIDE DEF q
  <2>7. m + 1 \in 0..n
    BY <1>2
  <2> QED
    BY <2>6, <2>7
<1> HIDE DEF Held
<1>3. \A m \in 0..n : m \in Held
  BY <1>1, <1>2, Forwards
<1>4. n \in Held
  BY <1>3
<1> QED
  BY <1>4 DEF Held

\* The lists of a list, one after the other by the library's recursion, are
\* where adding one at a time leads.
LEMMA Flattened ==
    ASSUME NEW T, NEW ss \in Seq(Seq(T)), NEW S, <<>> \in S[0],
           \A k \in 0..Len(ss) : S[k] \in SUBSET Seq(T),
           \A k \in 1..Len(ss) : \A y \in S[k - 1] : y \o ss[k] \in S[k]
    PROVE  FlattenSeq(ss) \in S[Len(ss)]
<1> DEFINE n == Len(ss)
           F == [p \in (1..n) \X Seq(T) |-> p[2] \o ss[p[1]]]
           Body(f) == [i \in 1..n |-> IF i = 1 THEN ss[i] ELSE f[i - 1] \o ss[i]]
           flat == CHOOSE f : f = Body(f)
<1>1. n \in Nat /\ \A i \in 1..n : ss[i] \in Seq(T)
  OBVIOUS
<1>2. CASE n = 0
  <2>1. ss = <<>> /\ FlattenSeq(ss) = ss
    BY <1>2, Zenon, EmptySeq DEF FlattenSeq
  <2> QED
    BY <1>2, <2>1
<1>3. CASE n # 0
  <2>1. \A k \in 1..n : \A y \in S[k - 1] : y \in Seq(T) /\ F[<<k, y>>] = y \o ss[k]
    <3> SUFFICES ASSUME NEW k \in 1..n, NEW y \in S[k - 1] PROVE y \in Seq(T) /\ F[<<k, y>>] = y \o ss[k]
      OBVIOUS
    <3>1. y \in Seq(T)
      <4>1. k - 1 \in 0..n
        OBVIOUS
      <4> QED
        BY <4>1
    <3> QED
      BY <3>1
  <2>a. Loops(F, n, S)
    <3> HIDE DEF F
    <3> QED
      BY <2>1, Zenon DEF Loops
  <2>4. PICK r : RunOf(F, n, S, <<>>, r)
    BY <1>1, <2>a, Stepwise
  <2>5. ASSUME NEW k \in 1..n
        PROVE  r[k] \in S[k] /\ r[k] = IF k = 1 THEN ss[k] ELSE r[k - 1] \o ss[k]
    <3>1. k - 1 \in 0..n /\ k \in 0..n
      OBVIOUS
    <3>2. r[k - 1] \in S[k - 1] /\ r[k] \in S[k] /\ r[k] = F[<<k, r[k - 1]>>]
      BY <2>4, <3>1 DEF RunOf
    <3>3. r[k] = r[k - 1] \o ss[k]
      BY <2>1, <3>2
    <3>4. k = 1 => r[k - 1] = <<>>
      BY <2>4 DEF RunOf
    <3>5. k = 1 => r[k] = ss[k]
      <4>1. <<>> \o ss[k] = ss[k]
        BY <1>1
      <4> QED
        BY <3>3, <3>4, <4>1, Zenon
    <3> QED
      BY <3>2, <3>3, <3>5
  <2> DEFINE g == [k \in 1..n |-> r[k]]
  <2>6. g = Body(g)
    <3>1. ASSUME NEW k \in 1..n PROVE g[k] = IF k = 1 THEN ss[k] ELSE g[k - 1] \o ss[k]
      <4>1. CASE k = 1
        BY <2>5, <4>1
      <4>2. CASE k # 1
        <5>1. g[k - 1] = r[k - 1] /\ g[k] = r[k]
          BY <4>2
        <5> HIDE DEF g
        <5> QED
          BY <2>5, <4>2, <5>1
      <4> QED
        BY <4>1, <4>2
    <3>2. Body(g) = [k \in 1..n |-> g[k]]
      <4> HIDE DEF g
      <4> QED
        BY <3>1
    <3> QED
      BY <3>2
  <2>7. flat = Body(flat)
    <3> HIDE DEF Body, g
    <3> QED
      BY <2>6
  <2>8. FlattenSeq(ss) = flat[n]
    BY <1>3, Zenon DEF FlattenSeq
  <2> HIDE DEF flat, F, g
  <2>9. \A k \in 1..n : flat[k] = IF k = 1 THEN ss[k] ELSE flat[k - 1] \o ss[k]
    BY <2>7
  <2>10. \A i \in 0..n : i >= 1 => flat[i] = r[i]
    <3> DEFINE Held == {i \in 0..n : i >= 1 => flat[i] = r[i]}
    <3>1. 0 \in Held
      BY <1>1
    <3>2. ASSUME NEW i \in 0..n, i < n, i \in Held PROVE i + 1 \in Held
      <4>1. i + 1 \in 1..n /\ (i + 1) - 1 = i
        BY <3>2
      <4>2. flat[i + 1] = IF i + 1 = 1 THEN ss[i + 1] ELSE flat[i] \o ss[i + 1]
        BY <2>9, <4>1
      <4>3. r[i + 1] = IF i + 1 = 1 THEN ss[i + 1] ELSE r[i] \o ss[i + 1]
        BY <2>5, <4>1
      <4>4. flat[i + 1] = r[i + 1]
        BY <3>2, <4>2, <4>3
      <4> QED
        BY <4>1, <4>4
    <3> HIDE DEF Held
    <3>3. \A i \in 0..n : i \in Held
      BY <1>1, <3>1, <3>2, Forwards
    <3> QED
      BY <3>3 DEF Held
  <2>11. n \in 0..n /\ n >= 1 /\ n \in 1..n
    BY <1>1, <1>3
  <2> QED
    BY <2>5, <2>8, <2>10, <2>11
<1> QED
  BY <1>2, <1>3

\* What a stream consists of.
Symbols == STRING \cup {"r", "n", "data:"}

\* Where the events of a buffer may end.
Ends(buf) ==
    {i \in DOMAIN buf : \/ i < Len(buf) /\ SubSeq(buf, i, i + 1) = <<"n", "n">>
                        \/ i + 3 <= Len(buf) /\ SubSeq(buf, i, i + 3) = <<"r", "n", "r", "n">>}

\* The two terminators, symbol by symbol.
EndsLF(buf, i) == i \in Int /\ i >= 1 /\ i + 1 <= Len(buf) /\ buf[i] = "n" /\ buf[i + 1] = "n"
EndsCRLF(buf, i) ==
    /\ i \in Int /\ i >= 1 /\ i + 3 <= Len(buf)
    /\ buf[i] = "r" /\ buf[i + 1] = "n" /\ buf[i + 2] = "r" /\ buf[i + 3] = "n"

\* They are found where they are.
LEMMA EndsAre ==
    ASSUME NEW buf \in Seq(Symbols), NEW i
    PROVE  i \in Ends(buf) <=> EndsLF(buf, i) \/ EndsCRLF(buf, i)
<1>1. ASSUME i \in Int, i >= 1, i + 1 <= Len(buf)
      PROVE  SubSeq(buf, i, i + 1) = <<"n", "n">> <=> buf[i] = "n" /\ buf[i + 1] = "n"
  <2> DEFINE s == SubSeq(buf, i, i + 1)
  <2>1. Len(s) = 2 /\ s[1] = buf[i] /\ s[2] = buf[i + 1] /\ s \in Seq(Symbols)
    <3>1. i \in 1..(Len(buf) + 1) /\ i + 1 \in 0..Len(buf) /\ (i + 1) - i + 1 = 2 /\ i + 2 - 1 = i + 1 /\ i + 1 - 1 = i
      BY <1>1
    <3>2. s \in Seq(Symbols) /\ Len(s) = 2
      BY <1>1, <3>1
    <3>3. s[1] = buf[i]
      BY <1>1
    <3>4. s[2] = buf[i + 1]
      BY <1>1
    <3> QED
      BY <3>2, <3>3, <3>4
  <2>2. s = <<"n", "n">> => s[1] = "n" /\ s[2] = "n"
    <3>1. \A t : t = <<"n", "n">> => t[1] = "n" /\ t[2] = "n"
      OBVIOUS
    <3> QED
      BY <3>1, Zenon
  <2>3. ASSUME s[1] = "n", s[2] = "n" PROVE s = <<"n", "n">>
    <3> HIDE DEF s
    <3> QED
      BY <2>1, <2>3
  <2> HIDE DEF s
  <2>4. s = <<"n", "n">> <=> s[1] = "n" /\ s[2] = "n"
    BY <2>2, <2>3
  <2>5. s = <<"n", "n">> <=> buf[i] = "n" /\ buf[i + 1] = "n"
    BY <2>1, <2>4
  <2> QED
    BY <2>5 DEF s
<1>2. ASSUME i \in Int, i >= 1, i + 3 <= Len(buf)
      PROVE  SubSeq(buf, i, i + 3) = <<"r", "n", "r", "n">>
                 <=> buf[i] = "r" /\ buf[i + 1] = "n" /\ buf[i + 2] = "r" /\ buf[i + 3] = "n"
  <2> DEFINE s == SubSeq(buf, i, i + 3)
  <2>1. /\ Len(s) = 4 /\ s \in Seq(Symbols)
        /\ s[1] = buf[i] /\ s[2] = buf[i + 1] /\ s[3] = buf[i + 2] /\ s[4] = buf[i + 3]
    <3>1. s \in Seq(Symbols) /\ Len(s) = 4
      BY <1>2
    <3>2. s[1] = buf[i]
      BY <1>2
    <3>3. s[2] = buf[i + 1]
      BY <1>2
    <3>4. s[3] = buf[i + 2]
      BY <1>2
    <3>5. s[4] = buf[i + 3]
      BY <1>2
    <3> QED
      BY <3>1, <3>2, <3>3, <3>4, <3>5
  <2>2. s = <<"r", "n", "r", "n">> => s[1] = "r" /\ s[2] = "n" /\ s[3] = "r" /\ s[4] = "n"
    <3>1. \A t : t = <<"r", "n", "r", "n">> => t[1] = "r" /\ t[2] = "n" /\ t[3] = "r" /\ t[4] = "n"
      OBVIOUS
    <3> QED
      BY <3>1, Zenon
  <2>3. ASSUME s[1] = "r", s[2] = "n", s[3] = "r", s[4] = "n" PROVE s = <<"r", "n", "r", "n">>
    <3> HIDE DEF s
    <3> QED
      BY <2>1, <2>3
  <2> HIDE DEF s
  <2>4. s = <<"r", "n", "r", "n">> <=> s[1] = "r" /\ s[2] = "n" /\ s[3] = "r" /\ s[4] = "n"
    BY <2>2, <2>3
  <2>5. s = <<"r", "n", "r", "n">> <=> buf[i] = "r" /\ buf[i + 1] = "n" /\ buf[i + 2] = "r" /\ buf[i + 3] = "n"
    BY <2>1, <2>4
  <2> QED
    BY <2>5 DEF s
<1>3. DOMAIN buf = 1..Len(buf) /\ Len(buf) \in Nat
  OBVIOUS
<1>4. i \in Ends(buf) => EndsLF(buf, i) \/ EndsCRLF(buf, i)
  <2> SUFFICES ASSUME i \in Ends(buf) PROVE EndsLF(buf, i) \/ EndsCRLF(buf, i)
    OBVIOUS
  <2>1. i \in 1..Len(buf)
    BY <1>3 DEF Ends
  <2>2. CASE i < Len(buf) /\ SubSeq(buf, i, i + 1) = <<"n", "n">>
    BY <1>1, <1>3, <2>1, <2>2 DEF EndsLF
  <2>3. CASE i + 3 <= Len(buf) /\ SubSeq(buf, i, i + 3) = <<"r", "n", "r", "n">>
    BY <1>2, <1>3, <2>1, <2>3 DEF EndsCRLF
  <2> QED
    BY <2>2, <2>3, Zenon DEF Ends
<1>5. EndsLF(buf, i) => i \in Ends(buf)
  <2> SUFFICES ASSUME EndsLF(buf, i) PROVE i \in Ends(buf)
    OBVIOUS
  <2>1. i \in DOMAIN buf /\ i < Len(buf)
    BY <1>3 DEF EndsLF
  <2>2. SubSeq(buf, i, i + 1) = <<"n", "n">>
    BY <1>1 DEF EndsLF
  <2> QED
    BY <2>1, <2>2, Zenon DEF Ends
<1>6. EndsCRLF(buf, i) => i \in Ends(buf)
  <2> SUFFICES ASSUME EndsCRLF(buf, i) PROVE i \in Ends(buf)
    OBVIOUS
  <2>1. i \in DOMAIN buf /\ i + 3 <= Len(buf)
    BY <1>3 DEF EndsCRLF
  <2>2. SubSeq(buf, i, i + 3) = <<"r", "n", "r", "n">>
    BY <1>2 DEF EndsCRLF
  <2> QED
    BY <2>1, <2>2, Zenon DEF Ends
<1> QED
  BY <1>4, <1>5, <1>6

\* Numbers of which there are finitely many, not none, have a least.
LEMMA LeastIs ==
    ASSUME NEW S \in SUBSET Int, IsFiniteSet(S), S # {}
    PROVE  \E m \in S : \A x \in S : m <= x
<1> DEFINE L == Listed(S, Ascending(S))
           n == Cardinality(S)
<1>1. StrictOrder(S, Ascending(S))
  BY AscendingOrder
<1>2. /\ n \in Nat
      /\ L \in [1..n -> S]
      /\ \A x \in S : \E k \in 1..n : L[k] = x
      /\ \A j, k \in 1..n : j < k => <<L[j], L[k]>> \in Ascending(S)
  BY <1>1, ListedOK
<1>3. PICK x \in S : TRUE
  OBVIOUS
<1> HIDE DEF L, n
<1>4. 1 \in 1..n
  BY <1>2, <1>3
<1>5. L[1] \in S
  BY <1>2, <1>4
<1>6. \A y \in S : L[1] <= y
  <2> SUFFICES ASSUME NEW y \in S PROVE L[1] <= y
    OBVIOUS
  <2>1. PICK k \in 1..n : L[k] = y
    BY <1>2
  <2>2. CASE k = 1
    <3>1. y = L[1] /\ y \in Int
      BY <2>1, <2>2
    <3> QED
      BY <3>1
  <2>3. CASE k > 1
    <3>1. <<L[1], L[k]>> \in Ascending(S)
      BY <1>2, <1>4, <2>3
    <3>2. L[1] < L[k]
      BY <3>1 DEF Ascending
    <3>3. y \in Int /\ L[1] \in Int /\ L[1] < y
      BY <1>5, <2>1, <3>2
    <3> QED
      BY <3>3
  <2> QED
    BY <1>2, <2>2, <2>3
<1> QED
  BY <1>5, <1>6

\* The first of them is taken, if there is one.
LEMMA FindIs ==
    ASSUME NEW buf \in Seq(Symbols)
    PROVE  LET i == findEventTerminator(buf) IN
           /\ Ends(buf) = {} => i = 0
           /\ Ends(buf) # {} => i \in Ends(buf) /\ i \in 1..Len(buf) /\ \A j \in Ends(buf) : i <= j
<1>1. findEventTerminator(buf) = IF Ends(buf) = {} THEN 0 ELSE CHOOSE i \in Ends(buf) : \A j \in Ends(buf) : i <= j
  BY Zenon DEF findEventTerminator, Ends
<1>2. Ends(buf) \in SUBSET (1..Len(buf)) /\ Len(buf) \in Nat
  BY DEF Ends
<1>3. IsFiniteSet(1..Len(buf))
  BY <1>2, FS_Interval
<1>4. IsFiniteSet(Ends(buf)) /\ Ends(buf) \in SUBSET Int
  BY <1>2, <1>3, FS_Subset
<1>5. ASSUME Ends(buf) # {} PROVE \E i \in Ends(buf) : \A j \in Ends(buf) : i <= j
  BY <1>4, <1>5, LeastIs
<1>6. ASSUME Ends(buf) # {}
      PROVE  LET i == findEventTerminator(buf) IN i \in Ends(buf) /\ \A j \in Ends(buf) : i <= j
  BY <1>1, <1>5, <1>6, Zenon
<1>7. Ends(buf) = {} => findEventTerminator(buf) = 0
  BY <1>1, Zenon
<1> QED
  BY <1>2, <1>6, <1>7, Zenon

\* A piece of a list, symbol by symbol.
LEMMA PieceIs ==
    ASSUME NEW T, NEW bytes \in Seq(T), NEW a \in Nat, NEW m \in Nat, a <= m, m <= Len(bytes)
    PROVE  LET s == SubSeq(bytes, a + 1, m) IN
           s \in Seq(T) /\ Len(s) = m - a /\ \A x \in 1..(m - a) : s[x] = bytes[a + x]
<1> DEFINE s == SubSeq(bytes, a + 1, m)
<1>1. s \in Seq(T) /\ Len(s) = m - a
  <2>1. a + 1 \in 1..(Len(bytes) + 1) /\ m \in 0..Len(bytes) /\ m - (a + 1) + 1 = m - a
    OBVIOUS
  <2> QED
    BY <2>1
<1>2. \A x \in 1..(m - a) : s[x] = bytes[a + x]
  <2> SUFFICES ASSUME NEW x \in 1..(m - a) PROVE s[x] = bytes[a + x]
    OBVIOUS
  <2>1. s[x] = bytes[(a + 1) + x - 1]
    OBVIOUS
  <2>2. (a + 1) + x - 1 = a + x
    OBVIOUS
  <2> QED
    BY <2>1, <2>2
<1> QED
  BY <1>1, <1>2

\* The ends in a piece of a list are the ends in the list that fit in it.
LEMMA EndsIn ==
    ASSUME NEW bytes \in Seq(Symbols), NEW a \in Nat, NEW m \in Nat, a <= m, m <= Len(bytes), NEW j \in Int
    PROVE  LET s == SubSeq(bytes, a + 1, m) IN
           /\ EndsLF(s, j) <=> j >= 1 /\ a + j + 1 <= m /\ EndsLF(bytes, a + j)
           /\ EndsCRLF(s, j) <=> j >= 1 /\ a + j + 3 <= m /\ EndsCRLF(bytes, a + j)
<1> DEFINE s == SubSeq(bytes, a + 1, m)
<1>1. s \in Seq(Symbols) /\ Len(s) = m - a /\ \A x \in 1..(m - a) : s[x] = bytes[a + x]
  BY PieceIs
<1> HIDE DEF s
<1>2. EndsLF(s, j) <=> j >= 1 /\ a + j + 1 <= m /\ EndsLF(bytes, a + j)
  <2>1. CASE j >= 1 /\ a + j + 1 <= m
    <3>1. s[j] = bytes[a + j] /\ s[j + 1] = bytes[a + j + 1]
      <4>1. j \in 1..(m - a) /\ j + 1 \in 1..(m - a) /\ a + (j + 1) = a + j + 1
        BY <2>1
      <4> QED
        BY <1>1, <4>1
    <3> QED
      BY <1>1, <2>1, <3>1 DEF EndsLF
  <2>2. CASE ~(j >= 1 /\ a + j + 1 <= m)
    BY <1>1, <2>2 DEF EndsLF
  <2> QED
    BY <2>1, <2>2
<1>3. EndsCRLF(s, j) <=> j >= 1 /\ a + j + 3 <= m /\ EndsCRLF(bytes, a + j)
  <2>1. CASE j >= 1 /\ a + j + 3 <= m
    <3>1. /\ s[j] = bytes[a + j] /\ s[j + 1] = bytes[a + j + 1]
          /\ s[j + 2] = bytes[a + j + 2] /\ s[j + 3] = bytes[a + j + 3]
      <4>1. /\ j \in 1..(m - a) /\ j + 1 \in 1..(m - a) /\ a + (j + 1) = a + j + 1
            /\ j + 2 \in 1..(m - a) /\ a + (j + 2) = a + j + 2
            /\ j + 3 \in 1..(m - a) /\ a + (j + 3) = a + j + 3
        BY <2>1
      <4>2. s[j] = bytes[a + j]
        BY <1>1, <4>1
      <4>3. s[j + 1] = bytes[a + (j + 1)] /\ s[j + 2] = bytes[a + (j + 2)] /\ s[j + 3] = bytes[a + (j + 3)]
        BY <1>1, <4>1, Zenon
      <4> QED
        BY <4>1, <4>2, <4>3
    <3> QED
      BY <1>1, <2>1, <3>1, SMTT(40) DEF EndsCRLF
  <2>2. CASE ~(j >= 1 /\ a + j + 3 <= m)
    BY <1>1, <2>2 DEF EndsCRLF
  <2> QED
    BY <2>1, <2>2
<1> QED
  BY <1>2, <1>3 DEF s

\* Bytes of some whole events: the places each begins after and its terminator
\* starts at, with no other end before it, and none after the last.
Framed(bytes, n, B, E) ==
    /\ n \in Nat /\ B \in [0..n -> 0..Len(bytes)] /\ E \in [1..n -> Int] /\ B[0] = 0
    /\ \A k \in 1..n : /\ B[k - 1] < E[k]
                       /\ \/ EndsLF(bytes, E[k]) /\ B[k] = E[k] + 1
                          \/ EndsCRLF(bytes, E[k]) /\ B[k] = E[k] + 3
                       /\ \A x \in Int : (EndsLF(bytes, x) \/ EndsCRLF(bytes, x)) /\ x > B[k - 1] => x >= E[k]
    /\ \A x \in Int : EndsLF(bytes, x) \/ EndsCRLF(bytes, x) => x <= B[n]

\* What is found after a whole event: the next one, once its end is there.
FindsNext(bytes, n, B, E, k, m) ==
    LET s == SubSeq(bytes, B[k] + 1, m)
        i == findEventTerminator(s)
    IN  /\ k < n /\ B[k + 1] <= m => /\ i = E[k + 1] - B[k] /\ i \in 1..Len(s)
                                     /\ i + eventTerminatorLen(s, i) = B[k + 1] - B[k] + 1
        /\ ~(k < n /\ B[k + 1] <= m) => i = 0

\* What the search finds in what is held: the end of the next event, once it has come.
LEMMA FindNext ==
    ASSUME NEW bytes \in Seq(Symbols), NEW n, NEW B, NEW E, Framed(bytes, n, B, E),
           NEW k \in 0..n, NEW m \in Nat, B[k] <= m, m <= Len(bytes)
    PROVE  FindsNext(bytes, n, B, E, k, m)
<1> DEFINE s == SubSeq(bytes, B[k] + 1, m)
           i == findEventTerminator(s)
<1>0. n \in Nat /\ Len(bytes) \in Nat /\ B[k] \in Nat /\ B[k] <= Len(bytes)
  BY DEF Framed
<1>1. s \in Seq(Symbols) /\ Len(s) = m - B[k] /\ \A x \in 1..(m - B[k]) : s[x] = bytes[B[k] + x]
  BY <1>0, PieceIs, SMTT(40)
<1>2. \A j \in Int : /\ EndsLF(s, j) <=> j >= 1 /\ B[k] + j + 1 <= m /\ EndsLF(bytes, B[k] + j)
                     /\ EndsCRLF(s, j) <=> j >= 1 /\ B[k] + j + 3 <= m /\ EndsCRLF(bytes, B[k] + j)
  BY <1>0, EndsIn
<1> HIDE DEF s
<1>3. \A j : j \in Ends(s) <=> EndsLF(s, j) \/ EndsCRLF(s, j)
  BY <1>1, EndsAre
<1>4. /\ Ends(s) = {} => i = 0
      /\ Ends(s) # {} => i \in Ends(s) /\ i \in 1..Len(s) /\ \A j \in Ends(s) : i <= j
  BY <1>1, FindIs, Zenon
<1> HIDE DEF i
<1>5. ASSUME k < n, B[k + 1] <= m
      PROVE  /\ i = E[k + 1] - B[k] /\ i \in 1..Len(s)
             /\ i + eventTerminatorLen(s, i) = B[k + 1] - B[k] + 1
  <2> DEFINE e == E[k + 1]
             b == B[k + 1]
  <2>1. k + 1 \in 1..n /\ (k + 1) - 1 = k
    BY <1>0, <1>5
  <2>2. /\ B[k] < e /\ e \in Int /\ b \in Int
        /\ (EndsLF(bytes, e) /\ b = e + 1) \/ (EndsCRLF(bytes, e) /\ b = e + 3)
        /\ \A x \in Int : (EndsLF(bytes, x) \/ EndsCRLF(bytes, x)) /\ x > B[k] => x >= e
    BY <2>1 DEF Framed
  <2>a. b <= m
    BY <1>5
  <2> HIDE DEF e, b
  <2>3. e - B[k] \in Int /\ e - B[k] >= 1 /\ B[k] + (e - B[k]) = e
    BY <1>0, <2>2
  <2>4. e - B[k] \in Ends(s)
    <3>1. CASE EndsLF(bytes, e) /\ b = e + 1
      <4>1. EndsLF(s, e - B[k])
        BY <1>2, <2>3, <2>a, <3>1
      <4> QED
        BY <1>3, <4>1
    <3>2. CASE EndsCRLF(bytes, e) /\ b = e + 3
      <4>1. EndsCRLF(s, e - B[k])
        BY <1>2, <2>3, <2>a, <3>2
      <4> QED
        BY <1>3, <4>1
    <3> QED
      BY <2>2, <3>1, <3>2
  <2>5. i \in Ends(s) /\ i \in 1..Len(s) /\ i <= e - B[k]
    BY <1>4, <2>4
  <2>6. i \in Int /\ i >= 1 /\ (EndsLF(bytes, B[k] + i) \/ EndsCRLF(bytes, B[k] + i))
    BY <1>2, <1>3, <2>5
  <2>7. B[k] + i >= e
    <3>1. B[k] + i \in Int /\ B[k] + i > B[k]
      BY <1>0, <2>6
    <3> QED
      BY <2>2, <2>6, <3>1
  <2>8. i = e - B[k]
    BY <1>0, <2>2, <2>5, <2>6, <2>7
  <2>9. s[i] = bytes[e]
    BY <1>1, <2>3, <2>5, <2>8
  <2>10. i + eventTerminatorLen(s, i) = b - B[k] + 1
    <3>1. CASE EndsLF(bytes, e) /\ b = e + 1
      <4>1. s[i] # "r"
        BY <2>9, <3>1 DEF EndsLF
      <4> QED
        BY <1>0, <2>2, <2>8, <3>1, <4>1 DEF eventTerminatorLen
    <3>2. CASE EndsCRLF(bytes, e) /\ b = e + 3
      <4>1. s[i] = "r"
        BY <2>9, <3>2 DEF EndsCRLF
      <4> QED
        BY <1>0, <2>2, <2>8, <3>2, <4>1 DEF eventTerminatorLen
    <3> QED
      BY <2>2, <3>1, <3>2
  <2> QED
    BY <2>5, <2>8, <2>10 DEF e, b
<1>6. ASSUME ~(k < n /\ B[k + 1] <= m)
      PROVE  i = 0
  <2> SUFFICES ASSUME NEW j \in Ends(s) PROVE FALSE
    BY <1>4
  <2>1. j \in Int /\ j >= 1 /\ (EndsLF(s, j) \/ EndsCRLF(s, j))
    BY <1>3 DEF EndsLF, EndsCRLF
  <2> DEFINE x == B[k] + j
  <2>2. x \in Int /\ x > B[k]
    BY <1>0, <2>1
  <2>3. \/ x + 1 <= m /\ EndsLF(bytes, x)
        \/ x + 3 <= m /\ EndsCRLF(bytes, x)
    BY <1>2, <2>1
  <2> HIDE DEF x
  <2>4. CASE k = n
    <3>1. x <= B[n]
      BY <2>2, <2>3 DEF Framed
    <3> QED
      BY <1>0, <2>2, <2>4, <3>1
  <2>5. CASE k < n /\ B[k + 1] > m
    <3> DEFINE e == E[k + 1]
               b == B[k + 1]
    <3>1. k + 1 \in 1..n /\ (k + 1) - 1 = k
      BY <1>0, <2>5
    <3>2. /\ B[k] < e /\ e \in Int /\ b \in Int
          /\ (EndsLF(bytes, e) /\ b = e + 1) \/ (EndsCRLF(bytes, e) /\ b = e + 3)
          /\ \A y \in Int : (EndsLF(bytes, y) \/ EndsCRLF(bytes, y)) /\ y > B[k] => y >= e
      BY <3>1 DEF Framed
    <3>3. b > m
      BY <2>5
    <3> HIDE DEF e, b
    <3>4. x >= e
      BY <2>2, <2>3, <3>2
    <3>5. CASE EndsLF(bytes, e) /\ b = e + 1
      BY <2>2, <2>3, <3>2, <3>3, <3>4, <3>5
    <3>6. CASE EndsCRLF(bytes, e) /\ b = e + 3
      <4>1. x + 1 <= m /\ EndsLF(bytes, x)
        BY <2>2, <2>3, <3>2, <3>3, <3>4, <3>6
      <4>2. x = e \/ x = e + 1
        BY <2>2, <3>2, <3>3, <3>4, <3>6, <4>1
      <4>3. bytes[x] = "n" /\ bytes[x + 1] = "n" /\ bytes[e] = "r" /\ bytes[e + 2] = "r"
        BY <3>6, <4>1 DEF EndsLF, EndsCRLF
      <4>4. x = e
        <5>1. x = e + 1 => x + 1 = e + 2
          BY <3>2
        <5> QED
          BY <4>2, <4>3, <5>1
      <4> QED
        BY <4>3, <4>4
    <3> QED
      BY <3>2, <3>5, <3>6
  <2>6. k < n => B[k + 1] \in Int
    <3>1. k < n => k + 1 \in 0..n
      BY <1>0
    <3> QED
      BY <1>0, <3>1 DEF Framed
  <2> QED
    BY <1>0, <1>6, <2>4, <2>5, <2>6
<1> QED
  BY <1>5, <1>6 DEF i, s, FindsNext

\* The last count above zero of the first k, zero if there is none.
LastOf(f, k) == LET ks == {j \in 1..k : f[j] > 0} IN IF ks = {} THEN 0 ELSE f[Max(ks)]

\* The greatest of finitely many numbers.
LEMMA MaxOf ==
    ASSUME NEW k \in Nat, NEW S \in SUBSET (1..k), S # {}
    PROVE  Max(S) \in S /\ \A j \in S : Max(S) >= j
<1> DEFINE N == {k + 1 - j : j \in S}
<1>1. N \in SUBSET (1..k) /\ N # {}
  <2>1. \A j \in S : j \in 1..k /\ k + 1 - j \in 1..k
    OBVIOUS
  <2> QED
    BY <2>1
<1>2. IsFiniteSet(N) /\ N \in SUBSET Int
  <2>1. IsFiniteSet(1..k)
    BY FS_Interval
  <2> HIDE DEF N
  <2>2. IsFiniteSet(N)
    BY <1>1, <2>1, FS_Subset
  <2> QED
    BY <1>1, <2>2
<1>3. PICK m \in N : \A x \in N : m <= x
  BY <1>1, <1>2, LeastIs
<1>4. PICK j \in S : m = k + 1 - j
  BY <1>3
<1>5. \A y \in S : j >= y
  <2> SUFFICES ASSUME NEW y \in S PROVE j >= y
    OBVIOUS
  <2>1. m <= k + 1 - y
    BY <1>3
  <2> QED
    BY <1>4, <2>1
<1>6. \E x \in S : \A y \in S : x >= y
  BY <1>5
<1> QED
  BY <1>6, Zenon DEF Max

\* One more of them.
LEMMA LastStep ==
    ASSUME NEW n \in Nat, NEW f \in [1..n -> Nat], NEW k \in 0..n, k < n
    PROVE  LastOf(f, k + 1) = IF f[k + 1] > 0 THEN f[k + 1] ELSE LastOf(f, k)
<1> DEFINE ks == {j \in 1..k : f[j] > 0}
           more == {j \in 1..(k + 1) : f[j] > 0}
<1>1. k + 1 \in 1..n /\ f[k + 1] \in Nat
  OBVIOUS
<1>2. CASE f[k + 1] > 0
  <2>1. k + 1 \in more /\ more \in SUBSET (1..(k + 1))
    BY <1>2
  <2>2. Max(more) \in more /\ \A j \in more : Max(more) >= j
    <3>1. k + 1 \in Nat /\ more # {}
      BY <2>1
    <3> DEFINE q == k + 1
    <3>2. q \in Nat /\ more \in SUBSET (1..q)
      BY <2>1, <3>1
    <3> HIDE DEF q, more
    <3> QED
      BY <3>1, <3>2, MaxOf
  <2>3. Max(more) = k + 1
    BY <2>1, <2>2
  <2> QED
    BY <1>2, <2>1, <2>3 DEF LastOf
<1>3. CASE ~(f[k + 1] > 0)
  <2>1. more = ks
    BY <1>3
  <2> QED
    BY <1>3, <2>1, Zenon DEF LastOf
<1> QED
  BY <1>2, <1>3

\* Before the first event nothing was reported.
LEMMA LastNone == ASSUME NEW f PROVE LastOf(f, 0) = 0
<1>1. {j \in 1..0 : f[j] > 0} = {}
  OBVIOUS
<1> QED
  BY <1>1, Zenon DEF LastOf

\* The last count reported is a number.
LEMMA LastNat ==
    ASSUME NEW n \in Nat, NEW f \in [1..n -> Nat]
    PROVE  LastOf(f, n) \in Nat
<1> DEFINE ks == {j \in 1..n : f[j] > 0}
<1>1. CASE ks = {}
  BY <1>1, Zenon DEF LastOf
<1>2. CASE ks # {}
  <2>1. Max(ks) \in ks
    BY <1>2, MaxOf
  <2> QED
    BY <1>2, <2>1 DEF LastOf
<1> QED
  BY <1>1, <1>2

\* The counts of an event are numbers.
LEMMA UsageIs ==
    ASSUME NEW data
    PROVE  extractUsage(data) \in [prompt : Nat, completion : Nat]
<1>1. \A x \in DOMAIN usageBlocks : usageBlocks[x] \in [prompt : Nat, completion : Nat]
  BY DEF usageBlocks
<1>2. "rest" \in DOMAIN usageBlocks /\ usageBlocks.rest \in [prompt : Nat, completion : Nat]
  BY DEF usageBlocks
<1>3. noUsage \in [prompt : Nat, completion : Nat]
  BY DEF noUsage
<1> QED
  BY <1>1, <1>2, <1>3, Zenon DEF extractUsage

\* The events of framed bytes, and what was read of the first k of them.
EventOf(bytes, B, E, k) == SubSeq(bytes, B[k - 1] + 1, E[k] - 1)
Reported(bytes, n, B, E) == [k \in 1..n |-> extractUsage(dataLines(EventOf(bytes, B, E, k)))]
Completions(bytes, n, B, E) == [k \in 1..n |-> Reported(bytes, n, B, E)[k].completion]
Prompts(bytes, n, B, E) == [k \in 1..n |-> Reported(bytes, n, B, E)[k].prompt]

\* What the events report are numbers.
LEMMA CountsAre ==
    ASSUME NEW bytes, NEW n, NEW B, NEW E
    PROVE  /\ Completions(bytes, n, B, E) \in [1..n -> Nat]
           /\ Prompts(bytes, n, B, E) \in [1..n -> Nat]
<1>1. \A k \in 1..n : Reported(bytes, n, B, E)[k] \in [prompt : Nat, completion : Nat]
  BY UsageIs DEF Reported
<1> QED
  BY <1>1 DEF Completions, Prompts

\* The writer once the first k events were read and m symbols have come.
Reading(bytes, n, B, E, k, m) ==
    [mode |-> "stream", buf |-> SubSeq(bytes, B[k] + 1, m),
     tokens |-> LastOf(Completions(bytes, n, B, E), k), promptTokens |-> LastOf(Prompts(bytes, n, B, E), k)]

\* No event is left in what has come.
Settled(n, B, k, m) == ~(k < n /\ B[k + 1] <= m)

\* One round of the loop reads the next whole event, if there is one.
LEMMA ReadsNext ==
    ASSUME NEW bytes \in Seq(Symbols), NEW n, NEW B, NEW E, Framed(bytes, n, B, E),
           NEW k \in 0..n, NEW m \in Nat, B[k] <= m, m <= Len(bytes)
    PROVE  nextEvent(Reading(bytes, n, B, E, k, m)) = IF Settled(n, B, k, m) THEN Reading(bytes, n, B, E, k, m)
                                                     ELSE Reading(bytes, n, B, E, k + 1, m)
<1> DEFINE w == Reading(bytes, n, B, E, k, m)
           s == SubSeq(bytes, B[k] + 1, m)
           i == findEventTerminator(s)
           c == Completions(bytes, n, B, E)
           p == Prompts(bytes, n, B, E)
<1>0. n \in Nat /\ Len(bytes) \in Nat /\ B[k] \in Nat
  BY DEF Framed
<1>1. FindsNext(bytes, n, B, E, k, m)
  BY FindNext, Zenon
<1>a. /\ k < n /\ B[k + 1] <= m => /\ i = E[k + 1] - B[k] /\ i \in 1..Len(s)
                                   /\ i + eventTerminatorLen(s, i) = B[k + 1] - B[k] + 1
      /\ ~(k < n /\ B[k + 1] <= m) => i = 0
  BY <1>1, Zenon DEF FindsNext
<1>2. w = [mode |-> "stream", buf |-> s, tokens |-> LastOf(c, k), promptTokens |-> LastOf(p, k)]
  BY Zenon DEF Reading
<1>b. i = findEventTerminator(s)
  OBVIOUS
<1>c. s \in Seq(Symbols) /\ Len(s) = m - B[k] /\ \A x \in 1..(m - B[k]) : s[x] = bytes[B[k] + x]
  BY <1>0, PieceIs, SMTT(40)
<1> HIDE DEF w, s, i, c, p
<1>3. w.buf = s /\ w.tokens = LastOf(c, k) /\ w.promptTokens = LastOf(p, k)
  BY <1>2
<1>4. CASE Settled(n, B, k, m)
  <2>1. i = 0
    BY <1>a, <1>4, Zenon DEF Settled
  <2>2. nextEvent(w) = w
    BY <1>3, <1>b, <2>1, Zenon DEF nextEvent
  <2> QED
    BY <1>4, <2>2, Zenon DEF w
<1>5. CASE ~Settled(n, B, k, m)
  <2> DEFINE event == SubSeq(s, 1, i - 1)
             got == extractUsage(dataLines(event))
             rest == SubSeq(s, i + eventTerminatorLen(s, i), Len(s))
  <2>1. /\ k < n /\ B[k + 1] <= m
        /\ i = E[k + 1] - B[k] /\ i \in 1..Len(s) /\ i + eventTerminatorLen(s, i) = B[k + 1] - B[k] + 1
    BY <1>a, <1>5, Zenon DEF Settled
  <2>2. k + 1 \in 1..n /\ (k + 1) - 1 = k /\ B[k + 1] \in Nat /\ E[k + 1] \in Int /\ B[k] < E[k + 1] /\ B[k] <= B[k + 1]
    <3>1. k + 1 \in 1..n /\ (k + 1) - 1 = k
      BY <1>0, <2>1
    <3>2. /\ B[k + 1] \in Nat /\ E[k + 1] \in Int /\ B[k] < E[k + 1]
          /\ (B[k + 1] = E[k + 1] + 1 \/ B[k + 1] = E[k + 1] + 3)
      BY <1>0, <3>1 DEF Framed
    <3> QED
      BY <1>0, <3>1, <3>2
  <2>3. s \in Seq(Symbols) /\ Len(s) = m - B[k] /\ \A x \in 1..(m - B[k]) : s[x] = bytes[B[k] + x]
    BY <1>c
  <2>a. Len(s) = m - B[k] /\ Len(s) \in Nat
    BY <2>3
  <2> DEFINE e == E[k + 1]
             b == B[k + 1]
             a == B[k]
             l == Len(s)
             tl == eventTerminatorLen(s, i)
  <2>b. /\ a \in Nat /\ b \in Nat /\ e \in Int /\ a < e /\ a <= b /\ b <= m
        /\ i = e - a /\ i \in 1..l /\ i + tl = b - a + 1 /\ l = m - a /\ l \in Nat
    BY <1>0, <2>1, <2>2, <2>a
  <2>c. Len(bytes) \in Nat
    BY <1>0
  <2> HIDE DEF e, b, a, l, tl
  <2>d. e - 1 \in Nat /\ a <= e - 1 /\ e - 1 <= Len(bytes) /\ e - 1 <= m /\ i - 1 = (e - 1) - a /\ i - 1 \in Nat /\ i - 1 <= l
    BY <2>b, <2>c
  <2>4. event = EventOf(bytes, B, E, k + 1)
    <3> DEFINE ev == SubSeq(bytes, B[k] + 1, E[k + 1] - 1)
    <3>1. e - 1 \in Nat /\ B[k] <= e - 1 /\ e - 1 <= Len(bytes) /\ e - 1 <= m
      BY <2>d DEF a, e
    <3>2. ev \in Seq(Symbols) /\ Len(ev) = (e - 1) - B[k] /\ \A x \in 1..((e - 1) - B[k]) : ev[x] = bytes[B[k] + x]
      <4> DEFINE q == e - 1
      <4>1. q \in Nat /\ a \in Nat /\ a <= q /\ q <= Len(bytes)
        BY <2>b, <2>d
      <4> HIDE DEF q
      <4>2. LET t == SubSeq(bytes, a + 1, q) IN t \in Seq(Symbols) /\ Len(t) = q - a /\ \A x \in 1..(q - a) : t[x] = bytes[a + x]
        BY <4>1, PieceIs
      <4> QED
        BY <4>2 DEF q, a, e
    <3>3. i - 1 \in Nat /\ i - 1 <= Len(s) /\ i - 1 = (e - 1) - B[k]
      BY <2>d DEF l, a, e
    <3>4. event \in Seq(Symbols) /\ Len(event) = i - 1 /\ \A x \in 1..(i - 1) : event[x] = s[x]
      <4> HIDE DEF s, i
      <4>1. /\ SubSeq(s, 0 + 1, i - 1) \in Seq(Symbols) /\ Len(SubSeq(s, 0 + 1, i - 1)) = (i - 1) - 0
            /\ \A x \in 1..((i - 1) - 0) : SubSeq(s, 0 + 1, i - 1)[x] = s[0 + x]
        BY <2>3, <3>3, PieceIs, 0 \in Nat, 0 <= i - 1
      <4>2. 0 + 1 = 1 /\ (i - 1) - 0 = i - 1 /\ \A x \in 1..(i - 1) : 0 + x = x
        BY <3>3
      <4> QED
        BY <4>1, <4>2
    <3> HIDE DEF ev, event
    <3>5. ev = event
      <4>1. \A x \in 1..(i - 1) : ev[x] = event[x]
        <5> SUFFICES ASSUME NEW x \in 1..(i - 1) PROVE ev[x] = event[x]
          OBVIOUS
        <5>1. x \in 1..l /\ x \in 1..((e - 1) - a) /\ x \in 1..(m - a)
          BY <2>b, <2>d
        <5>2. s[x] = bytes[B[k] + x]
          BY <2>3, <5>1 DEF a
        <5>3. ev[x] = bytes[B[k] + x]
          BY <3>2, <5>1 DEF a
        <5> QED
          BY <3>4, <5>2, <5>3
      <4>2. Len(ev) = Len(event)
        BY <3>2, <3>3, <3>4
      <4> QED
        BY <3>2, <3>3, <3>4, <4>1, <4>2
    <3> QED
      BY <2>2, <3>5, Zenon DEF EventOf, ev
  <2>5. rest = SubSeq(bytes, B[k + 1] + 1, m)
    <3> DEFINE to == SubSeq(bytes, b + 1, m)
               d == b - a
    <3>2. to \in Seq(Symbols) /\ Len(to) = m - b /\ \A x \in 1..(m - b) : to[x] = bytes[b + x]
      BY <2>b, PieceIs
    <3>3. d \in Nat /\ d <= l /\ i + tl = d + 1 /\ l - d = m - b
      BY <2>b
    <3>a. rest = SubSeq(s, d + 1, l)
      BY <3>3, Zenon DEF l, tl
    <3> HIDE DEF rest, to, d
    <3>4. rest \in Seq(Symbols) /\ Len(rest) = l - d /\ \A x \in 1..(l - d) : rest[x] = s[d + x]
      <4>1. l \in Nat /\ l <= l /\ l <= Len(s)
        BY <2>b DEF l
      <4> QED
        BY <2>3, <3>3, <3>a, <4>1, PieceIs
    <3>5. ASSUME NEW x \in 1..(m - b) PROVE rest[x] = to[x]
      <4>1. d + x \in 1..(m - a) /\ a + (d + x) = b + x /\ x \in 1..(l - d)
        BY <2>b, <3>3 DEF d
      <4>2. s[d + x] = bytes[a + (d + x)]
        BY <2>3, <4>1 DEF a
      <4> QED
        BY <3>2, <3>4, <4>1, <4>2
    <3>6. Len(rest) = m - b
      BY <3>3, <3>4
    <3>7. rest = to
      BY <3>2, <3>4, <3>5, <3>6
    <3> QED
      BY <3>7 DEF to, b
  <2>6. got = Reported(bytes, n, B, E)[k + 1] /\ got.completion = c[k + 1] /\ got.prompt = p[k + 1]
    <3> HIDE DEF event
    <3> QED
      BY <2>2, <2>4 DEF Reported, Completions, Prompts, c, p
  <2>7. c \in [1..n -> Nat] /\ p \in [1..n -> Nat]
    BY CountsAre DEF c, p
  <2>8. nextEvent(w) = [[w EXCEPT !.tokens = IF got.completion > 0 THEN got.completion ELSE w.tokens,
                                  !.promptTokens = IF got.prompt > 0 THEN got.prompt ELSE w.promptTokens]
                            EXCEPT !.buf = rest]
    <3>1. i \in Int /\ i # 0
      BY <2>1, <2>3
    <3> HIDE DEF w, s
    <3> QED
      BY <1>3, <1>b, <3>1, Zenon DEF nextEvent, extractFromEvent
  <2> HIDE DEF got, rest, event, i, s, c, p
  <2>9. nextEvent(w) = [mode |-> "stream", buf |-> rest,
                        tokens |-> IF got.completion > 0 THEN got.completion ELSE LastOf(c, k),
                        promptTokens |-> IF got.prompt > 0 THEN got.prompt ELSE LastOf(p, k)]
    <3> DEFINE t == IF got.completion > 0 THEN got.completion ELSE w.tokens
               q == IF got.prompt > 0 THEN got.prompt ELSE w.promptTokens
    <3> HIDE DEF t, q
    <3>1. [[w EXCEPT !.tokens = t, !.promptTokens = q] EXCEPT !.buf = rest]
              = [mode |-> "stream", buf |-> rest, tokens |-> t, promptTokens |-> q]
      <4> DEFINE v == [w EXCEPT !.tokens = t, !.promptTokens = q]
      <4>1. v = [mode |-> "stream", buf |-> s, tokens |-> t, promptTokens |-> q]
        <5>3. v = [[w EXCEPT !.tokens = t] EXCEPT !.promptTokens = q]
          OBVIOUS
        <5> DEFINE u == [w EXCEPT !.tokens = t]
        <5>4. u = [mode |-> "stream", buf |-> s, tokens |-> t, promptTokens |-> LastOf(p, k)]
          BY <1>2
        <5>5. v = [u EXCEPT !.promptTokens = q]
          BY <5>3
        <5> HIDE DEF u, v
        <5>6. [u EXCEPT !.promptTokens = q] = [mode |-> "stream", buf |-> s, tokens |-> t, promptTokens |-> q]
          BY <5>4
        <5> QED
          BY <5>5, <5>6
      <4> HIDE DEF v
      <4>2. [v EXCEPT !.buf = rest] = [mode |-> "stream", buf |-> rest, tokens |-> t, promptTokens |-> q]
        BY <4>1
      <4> QED
        BY <4>2 DEF v
    <3> HIDE DEF w
    <3> QED
      BY <1>3, <2>8, <3>1, Zenon DEF t, q
  <2>10. /\ LastOf(c, k + 1) = IF got.completion > 0 THEN got.completion ELSE LastOf(c, k)
         /\ LastOf(p, k + 1) = IF got.prompt > 0 THEN got.prompt ELSE LastOf(p, k)
    BY <1>0, <2>1, <2>6, <2>7, LastStep DEF c, p
  <2> HIDE DEF w
  <2> QED
    BY <1>5, <2>5, <2>9, <2>10, Zenon DEF Reading, c, p, w
<1> QED
  BY <1>4, <1>5

\* The rounds of the loop, when each leads from one set of states into the next.
RoundsOf(w, S) ==
    /\ rounds(w)[0] = w
    /\ \A k \in 0..Len(w.buf) : rounds(w)[k] \in S[k]

\* The rounds stay in the sets of states, by what one round does.
LEMMA RoundsAre ==
    ASSUME NEW w, Len(w.buf) \in Nat, NEW S, w \in S[0],
           \A k \in 1..Len(w.buf) : \A y \in S[k - 1] : nextEvent(y) \in S[k]
    PROVE  RoundsOf(w, S)
<1> DEFINE n == Len(w.buf)
           U == UNION {S[k] : k \in 0..n}
           F == [p \in (1..n) \X U |-> nextEvent(p[2])]
           Body(f) == [k \in 0..n |-> IF k = 0 THEN w ELSE nextEvent(f[k - 1])]
           after == CHOOSE f : f = Body(f)
<1>1. n \in Nat
  OBVIOUS
<1>2. \A k \in 1..n : \A y \in S[k - 1] : F[<<k, y>>] = nextEvent(y)
  <2> SUFFICES ASSUME NEW k \in 1..n, NEW y \in S[k - 1] PROVE F[<<k, y>>] = nextEvent(y)
    OBVIOUS
  <2>1. k - 1 \in 0..n
    OBVIOUS
  <2>2. y \in U
    BY <2>1
  <2> HIDE DEF U
  <2> QED
    BY <2>2
<1>3. Loops(F, n, S)
  <2> HIDE DEF F
  <2> QED
    BY <1>2, Zenon DEF Loops
<1>4. PICK r : RunOf(F, n, S, w, r)
  BY <1>1, <1>3, Stepwise
<1>5. r = Body(r)
  <2>1. ASSUME NEW k \in 0..n PROVE r[k] = IF k = 0 THEN w ELSE nextEvent(r[k - 1])
    <3>1. CASE k = 0
      BY <1>4, <3>1 DEF RunOf
    <3>2. CASE k # 0
      <4>1. k \in 1..n /\ k - 1 \in 0..n
        BY <3>2
      <4>2. r[k - 1] \in S[k - 1] /\ r[k] = F[<<k, r[k - 1]>>]
        BY <1>4, <4>1 DEF RunOf
      <4>3. r[k] = nextEvent(r[k - 1])
        BY <1>2, <4>1, <4>2
      <4> QED
        BY <3>2, <4>3
    <3> QED
      BY <3>1, <3>2
  <2>2. Body(r) = [k \in 0..n |-> r[k]]
    BY <2>1
  <2>3. r = [k \in 0..n |-> r[k]]
    BY <1>4 DEF RunOf
  <2> HIDE DEF Body
  <2> QED
    BY <2>2, <2>3
<1>6. after = Body(after)
  <2> HIDE DEF Body
  <2> QED
    BY <1>5
<1>7. rounds(w) = after
  BY Zenon DEF rounds
<1> HIDE DEF after, F
<1>8. \A k \in 0..n : after[k] = IF k = 0 THEN w ELSE nextEvent(after[k - 1])
  BY <1>6
<1>9. \A k \in 0..n : r[k] = IF k = 0 THEN w ELSE nextEvent(r[k - 1])
  BY <1>5
<1>10. \A i \in 0..n : after[i] = r[i]
  <2> DEFINE Held == {i \in 0..n : after[i] = r[i]}
  <2>1. 0 \in Held
    BY <1>1, <1>8, <1>9
  <2>2. ASSUME NEW i \in 0..n, i < n, i \in Held PROVE i + 1 \in Held
    <3>1. i + 1 \in 0..n /\ i + 1 # 0 /\ (i + 1) - 1 = i
      BY <2>2
    <3>2. after[i + 1] = nextEvent(after[i])
      BY <1>8, <3>1
    <3>3. r[i + 1] = nextEvent(r[i])
      BY <1>9, <3>1
    <3> QED
      BY <2>2, <3>1, <3>2, <3>3
  <2> HIDE DEF Held
  <2>3. \A i \in 0..n : i \in Held
    BY <1>1, <2>1, <2>2, Forwards
  <2> QED
    BY <2>3 DEF Held
<1>11. \A k \in 0..n : after[k] \in S[k]
  BY <1>4, <1>10 DEF RunOf
<1>12. after[0] = w
  BY <1>1, <1>8
<1> QED
  BY <1>7, <1>11, <1>12, Zenon DEF RoundsOf

\* What has come is read up to the last event that is whole.
LEMMA ParseReads ==
    ASSUME NEW bytes \in Seq(Symbols), NEW n, NEW B, NEW E, Framed(bytes, n, B, E),
           NEW k \in 0..n, NEW m \in Nat, B[k] <= m, m <= Len(bytes)
    PROVE  \E j \in 0..n : /\ B[j] <= m /\ Settled(n, B, j, m)
                           /\ parseSSEBuffer(Reading(bytes, n, B, E, k, m)) = Reading(bytes, n, B, E, j, m)
<1> DEFINE W(j) == Reading(bytes, n, B, E, j, m)
           l == m - B[k]
           S == [i \in 0..l |-> {x \in {W(j) : j \in 0..n} :
                                    \E j \in 0..n : x = W(j) /\ B[j] <= m /\ (B[j] - B[k] >= i \/ Settled(n, B, j, m))}]
<1>0. /\ n \in Nat /\ Len(bytes) \in Nat /\ l \in Nat
      /\ \A j \in 0..n : B[j] \in Nat /\ (j < n => B[j] < B[j + 1])
  <2>1. n \in Nat /\ Len(bytes) \in Nat /\ \A j \in 0..n : B[j] \in Nat
    BY DEF Framed
  <2>2. ASSUME NEW j \in 0..n, j < n PROVE B[j] < B[j + 1]
    <3>1. j + 1 \in 1..n /\ (j + 1) - 1 = j
      BY <2>1, <2>2
    <3>2. E[j + 1] \in Int /\ B[j] < E[j + 1] /\ (B[j + 1] = E[j + 1] + 1 \/ B[j + 1] = E[j + 1] + 3)
      BY <3>1 DEF Framed
    <3> QED
      BY <2>1, <3>2
  <2>3. l \in Nat
    BY <2>1
  <2> HIDE DEF l
  <2> QED
    BY <2>1, <2>2, <2>3
<1>1. ASSUME NEW i \in 0..l
      PROVE  \A x : x \in S[i] <=> \E j \in 0..n : x = W(j) /\ B[j] <= m /\ (B[j] - B[k] >= i \/ Settled(n, B, j, m))
  BY Zenon
<1>2. Len(W(k).buf) = l
  <2>1. W(k).buf = SubSeq(bytes, B[k] + 1, m)
    BY DEF Reading
  <2>2. Len(SubSeq(bytes, B[k] + 1, m)) = m - B[k]
    BY <1>0, PieceIs
  <2> QED
    BY <2>1, <2>2
<1> HIDE DEF W, l, S
<1>3. W(k) \in S[0]
  <2>1. 0 \in 0..l /\ B[k] - B[k] >= 0
    BY <1>0
  <2> QED
    BY <1>1, <2>1
<1>4. ASSUME NEW i \in 1..l, NEW y \in S[i - 1]
      PROVE  nextEvent(y) \in S[i]
  <2>1. i - 1 \in 0..l /\ i \in 0..l
    BY <1>0
  <2>2. PICK j \in 0..n : y = W(j) /\ B[j] <= m /\ (B[j] - B[k] >= i - 1 \/ Settled(n, B, j, m))
    BY <1>1, <2>1
  <2>3. nextEvent(W(j)) = IF Settled(n, B, j, m) THEN W(j) ELSE W(j + 1)
    BY <2>2, ReadsNext DEF W
  <2>4. CASE Settled(n, B, j, m)
    <3>1. nextEvent(y) = W(j)
      BY <2>2, <2>3, <2>4
    <3> QED
      BY <1>1, <2>1, <2>2, <2>4, <3>1
  <2>5. CASE ~Settled(n, B, j, m)
    <3>1. j < n /\ B[j + 1] <= m
      BY <2>5 DEF Settled
    <3>2. j + 1 \in 0..n /\ B[j] < B[j + 1] /\ B[j + 1] \in Nat /\ B[j] \in Nat /\ B[k] \in Nat
      BY <1>0, <3>1
    <3>3. B[j + 1] - B[k] >= i
      BY <2>2, <2>5, <3>2
    <3>4. nextEvent(y) = W(j + 1)
      BY <2>2, <2>3, <2>5
    <3> QED
      BY <1>1, <2>1, <3>1, <3>2, <3>3, <3>4
  <2> QED
    BY <2>4, <2>5
<1>5. RoundsOf(W(k), S)
  BY <1>0, <1>2, <1>3, <1>4, RoundsAre
<1>6. parseSSEBuffer(W(k)) \in S[l]
  <2>1. l \in 0..l
    BY <1>0
  <2> QED
    BY <1>2, <1>5, <2>1 DEF RoundsOf, parseSSEBuffer
<1>7. PICK j \in 0..n : parseSSEBuffer(W(k)) = W(j) /\ B[j] <= m /\ (B[j] - B[k] >= l \/ Settled(n, B, j, m))
  <2>1. l \in 0..l
    BY <1>0
  <2> QED
    BY <1>1, <1>6, <2>1
<1>8. Settled(n, B, j, m)
  <2> SUFFICES ASSUME B[j] - B[k] >= l, j < n, B[j + 1] <= m PROVE FALSE
    BY <1>7 DEF Settled
  <2>1. B[j] < B[j + 1] /\ B[j] \in Nat /\ B[j + 1] \in Nat /\ B[k] \in Nat
    <3>1. j + 1 \in 0..n
      BY <1>0
    <3> QED
      BY <1>0, <3>1
  <2> QED
    BY <2>1 DEF l
<1> QED
  BY <1>7, <1>8 DEF W

\* Where a response is cut, and how far each chunk of it reaches.
CutsOf(resp, bytes) == Keep(resp.cuts, LAMBDA c : c < Len(bytes))
CutAt(resp, bytes, i) ==
    LET cuts == CutsOf(resp, bytes) IN IF i = 0 THEN 0 ELSE IF i > Len(cuts) THEN Len(bytes) ELSE cuts[i]
ChunkOf(resp, bytes, i) == SubSeq(bytes, CutAt(resp, bytes, i - 1) + 1, CutAt(resp, bytes, i))

\* Each reaches no less far than the one before it, the last to the end.
LEMMA CutsReach ==
    ASSUME NEW T, NEW bytes \in Seq(T), NEW resp, resp.cuts \in Cuts
    PROVE  LET n == Len(CutsOf(resp, bytes)) + 1 IN
           /\ n \in Nat \ {0} /\ CutAt(resp, bytes, 0) = 0 /\ CutAt(resp, bytes, n) = Len(bytes)
           /\ \A k \in 0..n : CutAt(resp, bytes, k) \in 0..Len(bytes)
           /\ \A k \in 1..n : CutAt(resp, bytes, k - 1) <= CutAt(resp, bytes, k)
<1> DEFINE cs == resp.cuts
           P == {i \in DOMAIN cs : cs[i] < Len(bytes)}
           c == CutsOf(resp, bytes)
           L == Listed(P, Ascending(P))
           l == Len(bytes)
<1>1. cs \in Seq(Nat) /\ (\A i, j \in DOMAIN cs : i < j => cs[i] <= cs[j]) /\ l \in Nat
  BY DEF Cuts
<1>2. c = Picked(cs, P)
  BY Zenon DEF CutsOf, Keep
<1>3. P \in SUBSET (DOMAIN cs) /\ P \in SUBSET Int /\ \A i \in P : i \in DOMAIN cs /\ cs[i] < l /\ cs[i] \in Nat
  <2>1. DOMAIN cs = 1..Len(cs) /\ Len(cs) \in Nat
    BY <1>1
  <2>2. \A i \in P : i \in DOMAIN cs /\ cs[i] < l
    OBVIOUS
  <2> HIDE DEF P
  <2> QED
    BY <1>1, <2>1, <2>2
<1>4. IsFiniteSet(P)
  <2>1. IsFiniteSet(DOMAIN cs)
    BY <1>1, SeqDomain
  <2> QED
    BY <1>3, <2>1, FS_Subset
<1>5. StrictOrder(P, Ascending(P))
  BY <1>3, AscendingOrder
<1>6. /\ Cardinality(P) \in Nat /\ L \in [1..Cardinality(P) -> P]
      /\ \A j, k \in 1..Cardinality(P) : j < k => <<L[j], L[k]>> \in Ascending(P)
  BY <1>4, <1>5, ListedOK
<1>7. c \in Seq(Nat) /\ Len(c) = Cardinality(P)
  <2> HIDE DEF P
  <2> QED
    BY <1>1, <1>2, <1>3, PickedIs
<1>8. c = [k \in DOMAIN L |-> cs[L[k]]]
  BY <1>2, Zenon DEF Picked, At
<1> HIDE DEF c, L, P, cs, l
<1>9. \A k \in 1..Len(c) : c[k] = cs[L[k]] /\ L[k] \in P
  BY <1>6, <1>7, <1>8
<1>10. \A k \in 1..Len(c) : c[k] \in Nat /\ c[k] < l
  BY <1>3, <1>9
<1>11. ASSUME NEW j \in 1..Len(c), NEW k \in 1..Len(c), j < k PROVE c[j] <= c[k]
  <2>1. <<L[j], L[k]>> \in Ascending(P)
    BY <1>6, <1>7, <1>11
  <2>2. L[j] < L[k]
    BY <2>1 DEF Ascending
  <2> QED
    BY <1>1, <1>3, <1>9, <2>2
<1> DEFINE n == Len(c) + 1
<1>12. n \in Nat \ {0} /\ Len(c) \in Nat
  BY <1>7
<1> DEFINE A(k) == CutAt(resp, bytes, k)
<1>13. A(0) = 0
  BY DEF CutAt
<1>14. A(n) = l
  <2>1. n # 0 /\ n > Len(c)
    BY <1>12
  <2> QED
    BY <2>1, Zenon DEF CutAt, c, l
<1>15. ASSUME NEW k \in 1..Len(c) PROVE A(k) = c[k]
  <2>1. k # 0 /\ ~(k > Len(c))
    BY <1>12
  <2> QED
    BY <2>1, Zenon DEF CutAt, c
<1> HIDE DEF A
<1>16. ASSUME NEW k \in 0..n PROVE A(k) \in 0..l
  <2>1. k = 0 \/ k = n \/ k \in 1..Len(c)
    BY <1>12
  <2> QED
    BY <1>1, <1>10, <1>13, <1>14, <1>15, <2>1
<1>17. ASSUME NEW k \in 1..n PROVE A(k - 1) <= A(k)
  <2>0. k - 1 \in 0..n /\ k \in 0..n
    BY <1>12
  <2>1. A(k - 1) \in 0..l /\ A(k) \in 0..l
    BY <1>16, <2>0
  <2>2. CASE k = n
    BY <1>1, <1>14, <2>1, <2>2
  <2>3. CASE k - 1 = 0
    BY <1>1, <1>13, <2>1, <2>3
  <2>4. CASE k # n /\ k - 1 # 0
    <3>1. k \in 1..Len(c) /\ k - 1 \in 1..Len(c) /\ k - 1 < k
      BY <1>12, <2>4
    <3> QED
      BY <1>11, <1>15, <3>1
  <2> QED
    BY <2>2, <2>3, <2>4
<1> QED
  BY <1>12, <1>13, <1>14, <1>16, <1>17 DEF c, A, l

\* Where writing one chunk after the other leads.
LEMMA ProxiedIs ==
    ASSUME NEW T, NEW bytes \in Seq(T), NEW resp, resp.cuts \in Cuts,
           NEW S, WriteHeader(resp) \in S[0],
           \A k \in 1..(Len(CutsOf(resp, bytes)) + 1) : \A y \in S[k - 1] : WriteChunk(y, ChunkOf(resp, bytes, k)) \in S[k]
    PROVE  Proxied(resp, bytes) \in S[Len(CutsOf(resp, bytes)) + 1]
<1> DEFINE n == Len(CutsOf(resp, bytes)) + 1
           U == UNION {S[k] : k \in 0..n}
           F == [p \in (1..n) \X U |-> WriteChunk(p[2], ChunkOf(resp, bytes, p[1]))]
           Body(f) == [i \in 0..n |-> IF i = 0 THEN WriteHeader(resp) ELSE WriteChunk(f[i - 1], ChunkOf(resp, bytes, i))]
           sent == CHOOSE f : f = Body(f)
<1>1. n \in Nat \ {0}
  BY CutsReach
<1>7. Proxied(resp, bytes) = sent[n]
  BY Zenon DEF Proxied, ChunkOf, CutAt, CutsOf
<1>a. \A k \in 1..n : \A y \in S[k - 1] : WriteChunk(y, ChunkOf(resp, bytes, k)) \in S[k]
  OBVIOUS
<1> HIDE DEF n
<1>2. \A k \in 1..n : \A y \in S[k - 1] : F[<<k, y>>] = WriteChunk(y, ChunkOf(resp, bytes, k))
  <2> SUFFICES ASSUME NEW k \in 1..n, NEW y \in S[k - 1] PROVE F[<<k, y>>] = WriteChunk(y, ChunkOf(resp, bytes, k))
    OBVIOUS
  <2>1. k - 1 \in 0..n
    BY <1>1
  <2>2. y \in U
    BY <2>1
  <2> HIDE DEF U
  <2> QED
    BY <2>2
<1>3. Loops(F, n, S)
  <2> HIDE DEF F
  <2> QED
    BY <1>a, <1>2, Zenon DEF Loops
<1>4. PICK r : RunOf(F, n, S, WriteHeader(resp), r)
  BY <1>1, <1>3, Stepwise
<1>5. r = Body(r)
  <2>1. ASSUME NEW k \in 0..n PROVE r[k] = IF k = 0 THEN WriteHeader(resp) ELSE WriteChunk(r[k - 1], ChunkOf(resp, bytes, k))
    <3>1. CASE k = 0
      BY <1>4, <3>1 DEF RunOf
    <3>2. CASE k # 0
      <4>1. k \in 1..n /\ k - 1 \in 0..n
        BY <1>1, <3>2
      <4>2. r[k - 1] \in S[k - 1] /\ r[k] = F[<<k, r[k - 1]>>]
        BY <1>4, <4>1 DEF RunOf
      <4>3. r[k] = WriteChunk(r[k - 1], ChunkOf(resp, bytes, k))
        BY <1>2, <4>1, <4>2
      <4> QED
        BY <3>2, <4>3
    <3> QED
      BY <3>1, <3>2
  <2>2. Body(r) = [k \in 0..n |-> r[k]]
    BY <2>1
  <2>3. r = [k \in 0..n |-> r[k]]
    BY <1>4 DEF RunOf
  <2> HIDE DEF Body
  <2> QED
    BY <2>2, <2>3
<1>6. sent = Body(sent)
  <2> HIDE DEF Body
  <2> QED
    BY <1>5
<1> HIDE DEF sent, F
<1>8. \A k \in 0..n : sent[k] = IF k = 0 THEN WriteHeader(resp) ELSE WriteChunk(sent[k - 1], ChunkOf(resp, bytes, k))
  BY <1>6
<1>9. \A k \in 0..n : r[k] = IF k = 0 THEN WriteHeader(resp) ELSE WriteChunk(r[k - 1], ChunkOf(resp, bytes, k))
  BY <1>5
<1>10. \A i \in 0..n : sent[i] = r[i]
  <2> DEFINE Held == {i \in 0..n : sent[i] = r[i]}
  <2>1. 0 \in Held
    BY <1>1, <1>8, <1>9
  <2>2. ASSUME NEW i \in 0..n, i < n, i \in Held PROVE i + 1 \in Held
    <3>1. i + 1 \in 0..n /\ i + 1 # 0 /\ (i + 1) - 1 = i
      BY <1>1, <2>2
    <3>2. sent[i + 1] = WriteChunk(sent[i], ChunkOf(resp, bytes, i + 1))
      BY <1>8, <3>1
    <3>3. r[i + 1] = WriteChunk(r[i], ChunkOf(resp, bytes, i + 1))
      BY <1>9, <3>1
    <3> QED
      BY <2>2, <3>1, <3>2, <3>3
  <2> HIDE DEF Held
  <2>3. \A i \in 0..n : i \in Held
    BY <1>1, <2>1, <2>2, Forwards
  <2> QED
    BY <2>3 DEF Held
<1>11. n \in 0..n
  BY <1>1
<1>12. sent[n] \in S[n]
  BY <1>4, <1>10, <1>11 DEF RunOf
<1> QED
  BY <1>7, <1>12 DEF n

\* However a stream is cut, in the end every whole event was read, in order.
LEMMA StreamRead ==
    ASSUME NEW bytes \in Seq(Symbols), NEW n, NEW B, NEW E, Framed(bytes, n, B, E), NEW cs \in Cuts
    PROVE  Proxied([status |-> 200, type |-> "stream", cuts |-> cs], bytes) = Reading(bytes, n, B, E, n, Len(bytes))
<1> DEFINE resp == [status |-> 200, type |-> "stream", cuts |-> cs]
           l == Len(bytes)
           q == Len(CutsOf(resp, bytes)) + 1
           A(k) == CutAt(resp, bytes, k)
           W(j, m) == Reading(bytes, n, B, E, j, m)
           S == [i \in 0..q |-> {W(j, A(i)) : j \in {x \in 0..n : B[x] <= A(i) /\ Settled(n, B, x, A(i))}}]
<1>0. resp.cuts = cs /\ resp.status = 200 /\ resp.type = "stream" /\ n \in Nat /\ l \in Nat /\ B[0] = 0 /\ \A j \in 0..n : B[j] \in 0..l
  BY DEF Framed
<1>1. /\ q \in Nat \ {0} /\ A(0) = 0 /\ A(q) = l
      /\ \A k \in 0..q : A(k) \in 0..l
      /\ \A k \in 1..q : A(k - 1) <= A(k)
  BY <1>0, CutsReach
<1>2. WriteHeader(resp) = [mode |-> "stream", buf |-> <<>>, tokens |-> 0, promptTokens |-> 0]
  BY <1>0 DEF WriteHeader
<1>p. \A k \in 1..q : ChunkOf(resp, bytes, k) = SubSeq(bytes, A(k - 1) + 1, A(k))
  BY Zenon DEF ChunkOf
<1>s. \A i \in 0..q : S[i] = {W(j, A(i)) : j \in {x \in 0..n : B[x] <= A(i) /\ Settled(n, B, x, A(i))}}
  BY Zenon
<1> HIDE DEF resp, A, q, S, l
<1>3. WriteHeader(resp) \in S[0]
  <2>1. W(0, 0) = [mode |-> "stream", buf |-> <<>>, tokens |-> 0, promptTokens |-> 0]
    <3>1. SubSeq(bytes, 0 + 1, 0) = <<>>
      OBVIOUS
    <3> QED
      BY <1>0, <3>1, LastNone DEF Reading
  <2>2. 0 \in 0..q /\ 0 \in 0..n /\ B[0] <= A(0)
    BY <1>0, <1>1
  <2>3. Settled(n, B, 0, A(0))
    <3> SUFFICES ASSUME 0 < n, B[0 + 1] <= 0 PROVE FALSE
      BY <1>1 DEF Settled
    <3>1. 1 \in 1..n /\ 1 - 1 = 0 /\ 0 + 1 = 1
      BY <1>0
    <3>2. E[1] \in Int /\ B[0] < E[1] /\ (B[1] = E[1] + 1 \/ B[1] = E[1] + 3)
      BY <3>1 DEF Framed
    <3> QED
      BY <1>0, <3>1, <3>2
  <2>4. W(0, A(0)) \in S[0]
    BY <1>s, <2>2, <2>3
  <2> QED
    BY <1>1, <1>2, <2>1, <2>4
<1>4. ASSUME NEW k \in 1..q, NEW y \in S[k - 1]
      PROVE  WriteChunk(y, ChunkOf(resp, bytes, k)) \in S[k]
  <2> DEFINE a == A(k - 1)
             m == A(k)
  <2>1. k - 1 \in 0..q /\ k \in 0..q /\ a \in 0..l /\ m \in 0..l /\ a <= m
    <3>1. k - 1 \in 0..q /\ k \in 0..q
      BY <1>1
    <3> QED
      BY <1>1, <3>1
  <2>2. PICK j \in 0..n : y = W(j, a) /\ B[j] <= a
    BY <1>s, <2>1
  <2>s. S[k] = {W(x, m) : x \in {x \in 0..n : B[x] <= m /\ Settled(n, B, x, m)}}
    BY <1>s, <2>1
  <2>p. ChunkOf(resp, bytes, k) = SubSeq(bytes, a + 1, m)
    BY <1>p
  <2> HIDE DEF a, m
  <2>3. y = [mode |-> "stream", buf |-> SubSeq(bytes, B[j] + 1, a),
             tokens |-> LastOf(Completions(bytes, n, B, E), j), promptTokens |-> LastOf(Prompts(bytes, n, B, E), j)]
    BY <2>2 DEF Reading
  <2>4. SubSeq(bytes, B[j] + 1, a) \o SubSeq(bytes, a + 1, m) = SubSeq(bytes, B[j] + 1, m)
    <3> DEFINE b == B[j]
               u == SubSeq(bytes, b + 1, a)
               v == SubSeq(bytes, a + 1, m)
               t == SubSeq(bytes, b + 1, m)
    <3>1. b \in Nat /\ a \in Nat /\ m \in Nat /\ b <= a /\ a <= m /\ m <= Len(bytes) /\ b <= m /\ a <= Len(bytes)
      BY <1>0, <2>1, <2>2 DEF l
    <3> HIDE DEF b
    <3>2. u \in Seq(Symbols) /\ Len(u) = a - b /\ \A x \in 1..(a - b) : u[x] = bytes[b + x]
      BY <3>1, PieceIs
    <3>3. v \in Seq(Symbols) /\ Len(v) = m - a /\ \A x \in 1..(m - a) : v[x] = bytes[a + x]
      BY <3>1, PieceIs
    <3>4. t \in Seq(Symbols) /\ Len(t) = m - b /\ \A x \in 1..(m - b) : t[x] = bytes[b + x]
      BY <3>1, PieceIs
    <3> HIDE DEF u, v, t
    <3>5. u \o v \in Seq(Symbols) /\ Len(u \o v) = m - b
      <4>1. u \o v \in Seq(Symbols) /\ Len(u \o v) = Len(u) + Len(v)
        BY <3>2, <3>3, ConcatProperties, Zenon
      <4> QED
        BY <3>1, <3>2, <3>3, <4>1
    <3>a. u \in Seq(Symbols) /\ v \in Seq(Symbols)
      BY <3>2, <3>3
    <3>b. \A x \in 1..(Len(u) + Len(v)) : (u \o v)[x] = IF x <= Len(u) THEN u[x] ELSE v[x - Len(u)]
      BY <3>a
    <3>6. ASSUME NEW x \in 1..(m - b) PROVE (u \o v)[x] = t[x]
      <4>1. CASE x <= a - b
        <5>0. x \in 1..(Len(u) + Len(v)) /\ x <= Len(u) /\ x \in 1..(a - b)
          BY <3>1, <3>2, <3>3, <4>1
        <5>1. (u \o v)[x] = u[x] /\ x \in 1..(a - b)
          BY <3>b, <5>0
        <5> QED
          BY <3>2, <3>4, <5>1
      <4>2. CASE x > a - b
        <5>1. (u \o v)[x] = v[x - (a - b)] /\ x - (a - b) \in 1..(m - a) /\ a + (x - (a - b)) = b + x
          <6>1. x \in 1..(Len(u) + Len(v)) /\ ~(x <= Len(u)) /\ x - Len(u) = x - (a - b)
            BY <3>1, <3>2, <3>3, <4>2
          <6>2. (u \o v)[x] = v[x - (a - b)]
            BY <3>b, <6>1
          <6>3. x - (a - b) \in 1..(m - a) /\ a + (x - (a - b)) = b + x
            BY <3>1, <4>2
          <6> QED
            BY <6>2, <6>3
        <5>2. v[x - (a - b)] = bytes[a + (x - (a - b))]
          BY <3>3, <5>1, Zenon
        <5>3. t[x] = bytes[b + x]
          BY <3>4
        <5> QED
          BY <5>1, <5>2, <5>3
      <4>3. x <= a - b \/ x > a - b
        BY <3>1
      <4> QED
        BY <4>1, <4>2, <4>3, Zenon
    <3>7. u \o v = t
      BY <3>4, <3>5, <3>6
    <3> QED
      BY <3>7 DEF u, v, t, b
  <2>5. WriteChunk(y, ChunkOf(resp, bytes, k)) = parseSSEBuffer(W(j, m))
    <3>1. y.mode = "stream" /\ y.buf = SubSeq(bytes, B[j] + 1, a)
      BY <2>3
    <3>2. [y EXCEPT !.buf = SubSeq(bytes, B[j] + 1, m)] = W(j, m)
      <4> DEFINE t == SubSeq(bytes, B[j] + 1, m)
                 u == SubSeq(bytes, B[j] + 1, a)
                 c == LastOf(Completions(bytes, n, B, E), j)
                 p == LastOf(Prompts(bytes, n, B, E), j)
      <4>1. y = [mode |-> "stream", buf |-> u, tokens |-> c, promptTokens |-> p]
        BY <2>3
      <4>2. W(j, m) = [mode |-> "stream", buf |-> t, tokens |-> c, promptTokens |-> p]
        BY Zenon DEF Reading
      <4> HIDE DEF t, u, c, p, W
      <4>3. [y EXCEPT !.buf = t] = [mode |-> "stream", buf |-> t, tokens |-> c, promptTokens |-> p]
        BY <4>1
      <4> QED
        BY <4>2, <4>3, Zenon DEF t
    <3>3. WriteChunk(y, ChunkOf(resp, bytes, k)) = parseSSEBuffer([y EXCEPT !.buf = y.buf \o ChunkOf(resp, bytes, k)])
      BY <3>1, Zenon DEF WriteChunk
    <3>4. y.buf \o ChunkOf(resp, bytes, k) = SubSeq(bytes, B[j] + 1, m)
      BY <2>4, <2>p, <3>1
    <3> QED
      BY <3>2, <3>3, <3>4, Zenon
  <2>6. m \in Nat /\ m <= Len(bytes) /\ B[j] <= m
    BY <1>0, <2>1, <2>2 DEF l
  <2>7. PICK i \in 0..n : B[i] <= m /\ Settled(n, B, i, m) /\ parseSSEBuffer(W(j, m)) = W(i, m)
    BY <2>6, ParseReads
  <2> HIDE DEF W
  <2> QED
    BY <2>s, <2>5, <2>7
<1>5. Proxied(resp, bytes) \in S[q]
  BY <1>0, <1>3, <1>4, ProxiedIs DEF q
<1>6. PICK j \in 0..n : B[j] <= l /\ Settled(n, B, j, l) /\ Proxied(resp, bytes) = W(j, l)
  <2>1. q \in 0..q
    BY <1>1
  <2> HIDE DEF W
  <2> QED
    BY <1>1, <1>5, <1>s, <2>1
<1>7. j = n
  <2>1. j < n => j + 1 \in 0..n
    BY <1>0
  <2>2. j < n => B[j + 1] <= l
    BY <1>0, <2>1
  <2> QED
    BY <1>0, <1>6, <2>2 DEF Settled
<1> QED
  BY <1>6, <1>7 DEF resp, l

\* Each list of a list is somewhere in all of them put one after the other.
Starts(ss, at) ==
    /\ at \in [0..Len(ss) -> Nat] /\ at[0] = 0
    /\ \A k \in 1..Len(ss) : at[k] = at[k - 1] + Len(ss[k])

LaidOut(ss, at, flat) ==
    /\ Starts(ss, at) /\ Len(flat) = at[Len(ss)]
    /\ \A k \in 1..Len(ss) : at[k] <= at[Len(ss)]
    /\ \A k \in 1..Len(ss) : \A x \in 1..Len(ss[k]) : flat[at[k - 1] + x] = ss[k][x]

\* A list of lists is laid out that way.
LEMMA Laid ==
    ASSUME NEW T, NEW ss \in Seq(Seq(T))
    PROVE  FlattenSeq(ss) \in Seq(T) /\ \E at : LaidOut(ss, at, FlattenSeq(ss))
<1> DEFINE n == Len(ss)
           N == [k \in 0..n |-> Nat]
           F == [p \in (1..n) \X Nat |-> p[2] + Len(ss[p[1]])]
<1>1. n \in Nat /\ \A i \in 1..n : ss[i] \in Seq(T) /\ Len(ss[i]) \in Nat
  OBVIOUS
<1>2. \A k \in 1..n : \A y \in Nat : F[<<k, y>>] = y + Len(ss[k]) /\ F[<<k, y>>] \in Nat
  <2> SUFFICES ASSUME NEW k \in 1..n, NEW y \in Nat PROVE F[<<k, y>>] = y + Len(ss[k]) /\ F[<<k, y>>] \in Nat
    OBVIOUS
  <2>1. F[<<k, y>>] = y + Len(ss[k])
    OBVIOUS
  <2> HIDE DEF F
  <2> QED
    BY <1>1, <2>1
<1> HIDE DEF F
<1>3. Loops(F, n, N)
  <2> SUFFICES ASSUME NEW k \in 1..n, NEW y \in N[k - 1] PROVE F[<<k, y>>] \in N[k]
    BY DEF Loops
  <2>1. k - 1 \in 0..n /\ k \in 0..n
    BY <1>1
  <2>2. N[k - 1] = Nat /\ N[k] = Nat
    BY <2>1
  <2> HIDE DEF N
  <2> QED
    BY <1>2, <2>2
<1>4. 0 \in N[0]
  BY <1>1
<1>5. PICK at : RunOf(F, n, N, 0, at)
  BY <1>1, <1>3, <1>4, Stepwise
<1>6. \A k \in 0..n : at[k] \in Nat
  BY <1>5 DEF RunOf
<1>7. at[0] = 0 /\ at \in [0..n -> Nat]
  BY <1>5, <1>6 DEF RunOf
<1>8. ASSUME NEW k \in 1..n PROVE at[k] = at[k - 1] + Len(ss[k])
  <2>1. k - 1 \in 0..n
    BY <1>1
  <2>2. at[k] = F[<<k, at[k - 1]>>]
    BY <1>5 DEF RunOf
  <2> QED
    BY <1>2, <1>6, <2>1, <2>2
<1>9. Starts(ss, at)
  BY <1>7, <1>8, Zenon DEF Starts
<1> DEFINE Laying(k, y) == /\ Len(y) = at[k]
                           /\ \A j \in 1..k : at[j] <= at[k]
                           /\ \A j \in 1..k : \A x \in 1..Len(ss[j]) : y[at[j - 1] + x] = ss[j][x]
           S == [k \in 0..n |-> {y \in Seq(T) : Laying(k, y)}]
<1> HIDE DEF n
<1>10. \A k \in 0..n : S[k] = {y \in Seq(T) : Laying(k, y)}
  BY Zenon
<1> HIDE DEF S, Laying
<1>11. <<>> \in S[0]
  <2>1. Laying(0, <<>>)
    BY <1>7 DEF Laying
  <2>2. <<>> \in Seq(T) /\ 0 \in 0..n
    BY <1>1
  <2> QED
    BY <1>10, <2>1, <2>2
<1>12. \A k \in 0..n : S[k] \in SUBSET Seq(T)
  BY <1>10
<1>13. ASSUME NEW k \in 1..n, NEW y \in S[k - 1] PROVE y \o ss[k] \in S[k]
  <2>1. k - 1 \in 0..n /\ k \in 0..n /\ k \in Int
    BY <1>1
  <2>2. y \in Seq(T) /\ Laying(k - 1, y)
    BY <1>10, <2>1
  <2>3. y \o ss[k] \in Seq(T) /\ Len(y \o ss[k]) = Len(y) + Len(ss[k])
    BY <1>1, <2>2, ConcatProperties, Zenon
  <2>4. \A x \in 1..(Len(y) + Len(ss[k])) : (y \o ss[k])[x] = IF x <= Len(y) THEN y[x] ELSE ss[k][x - Len(y)]
    BY <1>1, <2>2, ConcatProperties, Zenon
  <2>5. Len(y) = at[k - 1] /\ at[k - 1] \in Nat /\ at[k] = at[k - 1] + Len(ss[k]) /\ Len(ss[k]) \in Nat
    BY <1>1, <1>6, <1>8, <2>1, <2>2 DEF Laying
  <2>6. ASSUME NEW j \in 1..k PROVE at[j] <= at[k]
    <3>1. CASE j = k
      BY <1>6, <2>1, <3>1
    <3>2. CASE j # k
      <4>0. k \in 1..n /\ n \in Nat
        BY <1>1
      <4>1. j \in 1..(k - 1) /\ j \in 0..n
        BY <3>2, <4>0
      <4>2. at[j] <= at[k - 1] /\ at[j] \in Nat
        BY <1>6, <2>2, <4>1 DEF Laying
      <4> QED
        BY <2>5, <4>2
    <3> QED
      BY <3>1, <3>2
  <2>7. ASSUME NEW j \in 1..k, NEW x \in 1..Len(ss[j]) PROVE (y \o ss[k])[at[j - 1] + x] = ss[j][x]
    <3>0. j - 1 \in 0..n /\ j \in 0..n /\ j \in 1..n
      BY <1>1
    <3>a. at[j - 1] \in Nat /\ at[j] = at[j - 1] + Len(ss[j]) /\ Len(ss[j]) \in Nat
      BY <1>1, <1>6, <1>8, <3>0
    <3> DEFINE z == at[j - 1] + x
    <3>1. CASE j = k
      <4>1. z \in 1..(Len(y) + Len(ss[k])) /\ ~(z <= Len(y)) /\ z - Len(y) = x
        BY <2>5, <3>1, <3>a
      <4> HIDE DEF z
      <4>2. (y \o ss[k])[z] = ss[k][z - Len(y)]
        BY <2>4, <4>1, Zenon
      <4> QED
        BY <3>1, <4>1, <4>2 DEF z
    <3>2. CASE j # k
      <4>1. j \in 1..(k - 1)
        BY <2>1, <3>2
      <4>2. at[j] <= at[k - 1] /\ y[z] = ss[j][x]
        BY <2>2, <4>1 DEF Laying
      <4>3. z \in 1..(Len(y) + Len(ss[k])) /\ z <= Len(y)
        <5>1. at[j] <= at[k - 1] /\ at[j] \in Nat
          BY <1>6, <3>0, <4>2
        <5> DEFINE p == at[j - 1]
                   q == at[j]
                   r == at[k - 1]
                   u == Len(ss[j])
                   v == Len(ss[k])
        <5>2. /\ p \in Nat /\ q = p + u /\ q <= r /\ q \in Nat /\ u \in Nat /\ v \in Nat /\ Len(y) = r /\ r \in Nat
              /\ x \in 1..u
          BY <2>5, <3>a, <5>1, Zenon
        <5> HIDE DEF p, q, r, u, v
        <5>3. p + x \in 1..(Len(y) + v) /\ p + x <= Len(y)
          BY <5>2
        <5> QED
          BY <5>3 DEF p, v
      <4> HIDE DEF z
      <4>4. (y \o ss[k])[z] = y[z]
        BY <2>4, <4>3, Zenon
      <4> QED
        BY <4>2, <4>4 DEF z
    <3> QED
      BY <3>1, <3>2
  <2>8. Laying(k, y \o ss[k])
    <3>1. Len(y \o ss[k]) = at[k]
      BY <2>3, <2>5
    <3> QED
      BY <2>6, <2>7, <3>1 DEF Laying
  <2> QED
    BY <1>10, <2>1, <2>3, <2>8
<1>14. FlattenSeq(ss) \in S[n]
  BY <1>11, <1>12, <1>13, Flattened DEF n
<1>15. n \in 0..n
  BY <1>1
<1>16. FlattenSeq(ss) \in Seq(T) /\ Laying(n, FlattenSeq(ss))
  BY <1>10, <1>14, <1>15
<1> QED
  BY <1>9, <1>16 DEF Laying, LaidOut, n

\* Numbers given in ascending order are listed as they are given.
LEMMA GivenInOrder ==
    ASSUME NEW n \in Nat, NEW h \in [1..n -> Int], \A j, k \in 1..n : j < k => h[j] < h[k]
    PROVE  LET P == {h[k] : k \in 1..n} IN Listed(P, Ascending(P)) = h
<1> DEFINE P == {h[k] : k \in 1..n}
           L == Listed(P, Ascending(P))
<1>1. P \in SUBSET Int /\ \A k \in 1..n : h[k] \in P
  OBVIOUS
<1>2. \A j, k \in 1..n : h[j] = h[k] => j = k
  <2> SUFFICES ASSUME NEW j \in 1..n, NEW k \in 1..n, h[j] = h[k], j # k PROVE FALSE
    OBVIOUS
  <2>1. j < k \/ k < j
    OBVIOUS
  <2>2. h[j] \in Int /\ h[k] \in Int
    OBVIOUS
  <2> QED
    BY <2>1, <2>2
<1>3. ASSUME NEW m \in 0..n
      PROVE  IsFiniteSet({h[k] : k \in 1..m}) /\ Cardinality({h[k] : k \in 1..m}) = m
  <2> DEFINE H == {h[k] : k \in 1..m}
             g == [k \in 1..m |-> h[k]]
  <2>1. g \in Bijection(1..m, H)
    <3>1. g \in [1..m -> H]
      OBVIOUS
    <3>2. \A j, k \in 1..m : g[j] = g[k] => j = k
      BY <1>2
    <3>3. \A y \in H : \E k \in 1..m : g[k] = y
      OBVIOUS
    <3> QED
      BY <3>1, <3>2, <3>3 DEF Bijection, Injection, Surjection, IsInjective
  <2>2. IsFiniteSet(1..m) /\ Cardinality(1..m) = m
    <3>1. IsFiniteSet(1..m) /\ Cardinality(1..m) = IF 1 > m THEN 0 ELSE m - 1 + 1
      BY FS_Interval
    <3> QED
      BY <3>1
  <2> HIDE DEF H, g
  <2>3. ExistsBijection(1..m, H)
    BY <2>1 DEF ExistsBijection
  <2>4. IsFiniteSet(H) /\ Cardinality(H) = m
    BY <2>2, <2>3, FS_Bijection
  <2> QED
    BY <2>4 DEF H
<1>4. Cardinality(P) = n
  <2>1. n \in 0..n
    OBVIOUS
  <2> QED
    BY <1>3, <2>1
<1>5. ASSUME NEW k \in 1..n
      PROVE  Cardinality({y \in P : <<y, h[k]>> \in Ascending(P)}) = k - 1
  <2>1. {y \in P : <<y, h[k]>> \in Ascending(P)} = {h[j] : j \in 1..(k - 1)}
    <3>1. ASSUME NEW y \in P, <<y, h[k]>> \in Ascending(P) PROVE y \in {h[j] : j \in 1..(k - 1)}
      <4>1. PICK j \in 1..n : y = h[j]
        OBVIOUS
      <4>2. h[j] < h[k]
        BY <3>1, <4>1 DEF Ascending
      <4>3. j < k
        <5>1. h[j] \in Int /\ h[k] \in Int
          OBVIOUS
        <5>2. ~(k < j) /\ ~(j = k)
          BY <4>2, <5>1
        <5> QED
          BY <5>2
      <4>4. j \in 1..(k - 1)
        BY <4>3
      <4> QED
        BY <4>1, <4>4
    <3>2. ASSUME NEW j \in 1..(k - 1) PROVE h[j] \in P /\ <<h[j], h[k]>> \in Ascending(P)
      <4>1. j \in 1..n /\ j < k
        OBVIOUS
      <4>2. h[j] < h[k] /\ h[j] \in P /\ h[k] \in P
        BY <4>1
      <4> QED
        BY <4>2 DEF Ascending
    <3> HIDE DEF P
    <3> QED
      BY <3>1, <3>2
  <2>2. k - 1 \in 0..n
    OBVIOUS
  <2> QED
    BY <1>3, <2>1, <2>2
<1>6. ASSUME NEW k \in 1..n
      PROVE  L[k] = h[k]
  <2>1. L[k] = CHOOSE x \in P : Cardinality({y \in P : <<y, x>> \in Ascending(P)}) = k - 1
    BY <1>4 DEF Listed
  <2>2. h[k] \in P /\ Cardinality({y \in P : <<y, h[k]>> \in Ascending(P)}) = k - 1
    BY <1>1, <1>5
  <2>3. L[k] \in P /\ Cardinality({y \in P : <<y, L[k]>> \in Ascending(P)}) = k - 1
    <3> HIDE DEF L, P
    <3> QED
      BY <2>1, <2>2, Zenon
  <2>4. PICK j \in 1..n : L[k] = h[j]
    <3> HIDE DEF L
    <3> QED
      BY <2>3
  <2> HIDE DEF L, P
  <2>5. j - 1 = k - 1
    BY <1>5, <2>3, <2>4
  <2>6. j = k
    BY <2>5
  <2> QED
    BY <2>4, <2>6
<1>7. L = [k \in 1..n |-> L[k]]
  <2>1. L = [k \in 1..Cardinality(P) |-> CHOOSE x \in P : Cardinality({y \in P : <<y, x>> \in Ascending(P)}) = k - 1]
    BY DEF Listed
  <2> DEFINE C(k) == CHOOSE x \in P : Cardinality({y \in P : <<y, x>> \in Ascending(P)}) = k - 1
  <2>2. L = [k \in 1..Cardinality(P) |-> C(k)]
    BY <2>1, Zenon
  <2> HIDE DEF L, P, C
  <2>3. L = [k \in 1..n |-> C(k)]
    BY <1>4, <2>2, Zenon
  <2> QED
    BY <2>3
<1> HIDE DEF L
<1>8. L = h
  BY <1>6, <1>7
<1> QED
  BY <1>8 DEF L

\* The lines of an event as they are sent, and the blank line that ends it.
NewLine(crlf) == IF crlf THEN <<"r", "n">> ELSE <<"n">>
LineOf(crlf, l) == <<"data:", l>> \o NewLine(crlf)
LinesOf(crlf, f) == FlattenSeq([i \in DOMAIN f |-> LineOf(crlf, f[i])])

\* The symbols before a line, and the lines of an event after the first b symbols.
Before(crlf, i) == IF crlf THEN 4 * (i - 1) ELSE 3 * (i - 1)
LineAt(bytes, p, l, crlf) ==
    /\ bytes[p + 1] = "data:" /\ bytes[p + 2] = l
    /\ crlf => bytes[p + 3] = "r" /\ bytes[p + 4] = "n"
    /\ ~crlf => bytes[p + 3] = "n"
LinesAt(bytes, b, f, crlf) ==
    /\ b + Before(crlf, Len(f) + 1) <= Len(bytes)
    /\ \A i \in 1..Len(f) : LineAt(bytes, b + Before(crlf, i), f[i], crlf)
BlankAt(bytes, p, crlf) ==
    /\ crlf => p + 2 <= Len(bytes) /\ bytes[p + 1] = "r" /\ bytes[p + 2] = "n"
    /\ ~crlf => p + 1 <= Len(bytes) /\ bytes[p + 1] = "n"
BlankLen(crlf) == IF crlf THEN 2 ELSE 1

\* The end of a line, symbol by symbol.
LEMMA NewLineIs ==
    ASSUME NEW crlf \in BOOLEAN
    PROVE  /\ NewLine(crlf) \in Seq(Symbols) /\ Len(NewLine(crlf)) = BlankLen(crlf)
           /\ crlf => NewLine(crlf)[1] = "r" /\ NewLine(crlf)[2] = "n"
           /\ ~crlf => NewLine(crlf)[1] = "n"
<1>1. CASE crlf
  <2>1. NewLine(crlf) = <<"r", "n">> /\ BlankLen(crlf) = 2
    BY <1>1 DEF NewLine, BlankLen
  <2>2. \A t : t = <<"r", "n">> => Len(t) = 2 /\ t[1] = "r" /\ t[2] = "n"
    OBVIOUS
  <2>3. "r" \in Symbols /\ "n" \in Symbols
    BY Zenon DEF Symbols
  <2>4. \A x, y \in Symbols : <<x, y>> \in Seq(Symbols)
    OBVIOUS
  <2> QED
    BY <1>1, <2>1, <2>2, <2>3, <2>4, Zenon
<1>2. CASE ~crlf
  <2>1. NewLine(crlf) = <<"n">> /\ BlankLen(crlf) = 1
    BY <1>2 DEF NewLine, BlankLen
  <2>2. \A t : t = <<"n">> => Len(t) = 1 /\ t[1] = "n"
    OBVIOUS
  <2>3. "n" \in Symbols
    BY Zenon DEF Symbols
  <2>4. \A x \in Symbols : <<x>> \in Seq(Symbols)
    OBVIOUS
  <2> QED
    BY <1>2, <2>1, <2>2, <2>3, <2>4, Zenon
<1> QED
  BY <1>1, <1>2

\* One data line, symbol by symbol.
LEMMA LineIs ==
    ASSUME NEW crlf \in BOOLEAN, NEW l \in Symbols
    PROVE  /\ LineOf(crlf, l) \in Seq(Symbols) /\ Len(LineOf(crlf, l)) = 2 + BlankLen(crlf)
           /\ LineAt(LineOf(crlf, l), 0, l, crlf)
<1> DEFINE d == <<"data:", l>>
           e == NewLine(crlf)
           t == LineOf(crlf, l)
<1>1. d \in Seq(Symbols) /\ Len(d) = 2 /\ d[1] = "data:" /\ d[2] = l
  <2>a. "data:" \in Symbols
    BY Zenon DEF Symbols
  <2>b. \A x, y \in Symbols : <<x, y>> \in Seq(Symbols)
    OBVIOUS
  <2>1. d \in Seq(Symbols) /\ Len(d) = 2
    BY <2>a, <2>b
  <2>2. d[1] = "data:"
    OBVIOUS
  <2>3. d[2] = l
    OBVIOUS
  <2> QED
    BY <2>1, <2>2, <2>3
<1>b. Len(d) = 2
  BY <1>1
<1>2. /\ e \in Seq(Symbols) /\ Len(e) = BlankLen(crlf)
      /\ crlf => e[1] = "r" /\ e[2] = "n"
      /\ ~crlf => e[1] = "n"
  BY NewLineIs
<1>3. t = d \o e
  BY Zenon DEF LineOf
<1> HIDE DEF d, e, t
<1>4. t \in Seq(Symbols) /\ Len(t) = Len(d) + Len(e)
  BY <1>1, <1>2, <1>3, ConcatProperties, Zenon
<1>5. \A x \in 1..(Len(d) + Len(e)) : t[x] = IF x <= Len(d) THEN d[x] ELSE e[x - Len(d)]
  BY <1>1, <1>2, <1>3, ConcatProperties, Zenon
<1>6. crlf => Len(e) = 2
  BY <1>2 DEF BlankLen
<1>7. ~crlf => Len(e) = 1
  BY <1>2 DEF BlankLen
<1>8. t[1] = "data:" /\ t[2] = l
  <2>1. Len(e) \in Nat
    BY <1>2
  <2>2. 1 \in 1..(Len(d) + Len(e)) /\ 2 \in 1..(Len(d) + Len(e)) /\ 1 <= Len(d) /\ 2 <= Len(d)
    BY <1>1, <2>1
  <2> QED
    BY <1>1, <1>5, <2>2
<1>9. ASSUME crlf PROVE t[3] = "r" /\ t[4] = "n"
  <2>1. 3 \in 1..(Len(d) + Len(e)) /\ 4 \in 1..(Len(d) + Len(e)) /\ ~(3 <= Len(d)) /\ ~(4 <= Len(d)) /\ 3 - Len(d) = 1 /\ 4 - Len(d) = 2
    BY <1>b, <1>6, <1>9
  <2> QED
    BY <1>2, <1>5, <1>9, <2>1
<1>10. ASSUME ~crlf PROVE t[3] = "n"
  <2>1. 3 \in 1..(Len(d) + Len(e)) /\ ~(3 <= Len(d)) /\ 3 - Len(d) = 1
    BY <1>b, <1>7, <1>10
  <2> QED
    BY <1>2, <1>5, <1>10, <2>1
<1>11. LineAt(t, 0, l, crlf)
  <2>1. 0 + 1 = 1 /\ 0 + 2 = 2 /\ 0 + 3 = 3 /\ 0 + 4 = 4
    OBVIOUS
  <2> QED
    BY <1>8, <1>9, <1>10, <2>1, Zenon DEF LineAt
<1> QED
  BY <1>1, <1>2, <1>4, <1>11 DEF t

\* The data lines of an event, one after the other.
LEMMA LinesAre ==
    ASSUME NEW crlf \in BOOLEAN, NEW f \in Seq(Text)
    PROVE  /\ LinesOf(crlf, f) \in Seq(Symbols) /\ Len(LinesOf(crlf, f)) = Before(crlf, Len(f) + 1)
           /\ LinesAt(LinesOf(crlf, f), 0, f, crlf)
<1> DEFINE ss == [i \in DOMAIN f |-> LineOf(crlf, f[i])]
           n == Len(f)
           w == 2 + BlankLen(crlf)
           t == LinesOf(crlf, f)
<1>1. n \in Nat /\ DOMAIN f = 1..n /\ \A i \in 1..n : f[i] \in Symbols
  BY DEF Text, Symbols
<1>2. \A i \in 1..n : ss[i] \in Seq(Symbols) /\ Len(ss[i]) = w /\ LineAt(ss[i], 0, f[i], crlf)
  BY <1>1, LineIs
<1>3. ss \in Seq(Seq(Symbols)) /\ Len(ss) = n
  <2>1. ss \in [1..n -> Seq(Symbols)]
    BY <1>1, <1>2
  <2> HIDE DEF ss, n
  <2> QED
    BY <1>1, <2>1, SeqIs
<1>4. t = FlattenSeq(ss)
  BY Zenon DEF LinesOf
<1> HIDE DEF ss, n, t
<1>a. PICK at : LaidOut(ss, at, FlattenSeq(ss))
  BY <1>3, Laid
<1>5. /\ Starts(ss, at) /\ FlattenSeq(ss) \in Seq(Symbols) /\ Len(FlattenSeq(ss)) = at[Len(ss)]
      /\ \A k \in 1..Len(ss) : \A x \in 1..Len(ss[k]) : FlattenSeq(ss)[at[k - 1] + x] = ss[k][x]
  BY <1>3, <1>a, Laid, Zenon DEF LaidOut
<1>6. /\ at \in [0..n -> Nat] /\ at[0] = 0
      /\ \A k \in 1..n : at[k] = at[k - 1] + Len(ss[k])
  BY <1>3, <1>5 DEF Starts
<1>w. (crlf => w = 4) /\ (~crlf => w = 3)
  BY DEF BlankLen
<1> HIDE DEF w
<1>7. \A k \in 0..n : at[k] = Before(crlf, k + 1)
  <2> DEFINE Held == {k \in 0..n : at[k] = Before(crlf, k + 1)}
  <2>1. 0 \in Held
    BY <1>1, <1>6 DEF Before
  <2>2. ASSUME NEW k \in 0..n, k < n, k \in Held PROVE k + 1 \in Held
    <3>1. k + 1 \in 1..n /\ k + 1 \in 0..n /\ (k + 1) - 1 = k
      BY <1>1, <2>2
    <3>2. at[k + 1] = at[k] + w /\ at[k] = Before(crlf, k + 1)
      <4>1. at[k + 1] = at[(k + 1) - 1] + Len(ss[k + 1])
        BY <1>6, <3>1, Zenon
      <4> QED
        BY <1>2, <2>2, <3>1, <4>1
    <3>3. at[k + 1] = Before(crlf, (k + 1) + 1)
      BY <1>w, <3>2 DEF Before
    <3> QED
      BY <3>1, <3>3
  <2> HIDE DEF Held
  <2>3. \A k \in 0..n : k \in Held
    BY <1>1, <2>1, <2>2, Forwards
  <2> QED
    BY <2>3 DEF Held
<1>8. t \in Seq(Symbols) /\ Len(t) = Before(crlf, n + 1)
  <2>1. n \in 0..n
    BY <1>1
  <2> QED
    BY <1>3, <1>4, <1>5, <1>7, <2>1
<1>9. ASSUME NEW i \in 1..n PROVE LineAt(t, 0 + Before(crlf, i), f[i], crlf)
  <2> DEFINE p == Before(crlf, i)
  <2>0. i - 1 \in 0..n /\ (i - 1) + 1 = i
    BY <1>1
  <2>1. at[i - 1] = p /\ p \in Nat
    <3>1. at[i - 1] = Before(crlf, (i - 1) + 1)
      BY <1>7, <2>0, Zenon
    <3> QED
      BY <1>6, <2>0, <3>1
  <2> HIDE DEF p
  <2>2. \A x \in 1..w : t[p + x] = ss[i][x]
    BY <1>2, <1>3, <1>4, <1>5, <2>1
  <2>3. LineAt(ss[i], 0, f[i], crlf)
    BY <1>2
  <2>4. 0 + 1 = 1 /\ 0 + 2 = 2 /\ 0 + 3 = 3 /\ 0 + 4 = 4 /\ 0 + p = p
    BY <2>1
  <2>5. /\ ss[i][1] = "data:" /\ ss[i][2] = f[i]
        /\ crlf => ss[i][3] = "r" /\ ss[i][4] = "n"
        /\ ~crlf => ss[i][3] = "n"
    BY <2>3, <2>4, Zenon DEF LineAt
  <2>6. 1 \in 1..w /\ 2 \in 1..w /\ 3 \in 1..w /\ (crlf => 4 \in 1..w)
    BY <1>w
  <2>7. LineAt(t, p, f[i], crlf)
    BY <2>2, <2>5, <2>6, Zenon DEF LineAt
  <2> QED
    BY <2>4, <2>7 DEF p
<1>10. 0 + Before(crlf, n + 1) <= Len(t)
  BY <1>1, <1>8 DEF Before
<1> QED
  BY <1>8, <1>9, <1>10 DEF LinesAt, n, t

\* What ends an event that is whole.
Ended(blank, crlf) == IF blank THEN NewLine(crlf) ELSE <<>>

\* An event as it is sent: its lines and, if it is whole, the blank one.
LEMMA TextIs ==
    ASSUME NEW crlf \in BOOLEAN, NEW blank \in BOOLEAN, NEW f \in Seq(Text)
    PROVE  LET t == LinesOf(crlf, f) \o Ended(blank, crlf)
               p == Before(crlf, Len(f) + 1)
           IN  /\ t \in Seq(Symbols) /\ Len(t) = p + (IF blank THEN BlankLen(crlf) ELSE 0)
               /\ LinesAt(t, 0, f, crlf)
               /\ blank => BlankAt(t, p, crlf)
<1> DEFINE u == LinesOf(crlf, f)
           e == Ended(blank, crlf)
           t == u \o e
           p == Before(crlf, Len(f) + 1)
<1>1. u \in Seq(Symbols) /\ Len(u) = p /\ LinesAt(u, 0, f, crlf)
  BY LinesAre, Zenon
<1>2. /\ e \in Seq(Symbols) /\ Len(e) = IF blank THEN BlankLen(crlf) ELSE 0
      /\ blank => e = NewLine(crlf)
  <2>1. CASE blank
    <3>1. e = NewLine(crlf)
      BY <2>1, Zenon DEF Ended
    <3>2. NewLine(crlf) \in Seq(Symbols) /\ Len(NewLine(crlf)) = BlankLen(crlf)
      BY NewLineIs
    <3> HIDE DEF e
    <3> QED
      BY <2>1, <3>1, <3>2, Zenon
  <2>2. CASE ~blank
    <3>0. e = <<>>
      BY <2>2, Zenon DEF Ended
    <3> HIDE DEF e
    <3>1. e \in Seq(Symbols) /\ Len(e) = 0
      BY <3>0
    <3> QED
      BY <2>2, <3>1, Zenon
  <2> QED
    BY <2>1, <2>2
<1>0. p \in Nat /\ Len(f) \in Nat
  BY DEF Before
<1>a. \A i \in 1..Len(f) : Before(crlf, i) \in Nat /\ Before(crlf, i) + (IF crlf THEN 4 ELSE 3) <= p
  BY <1>0 DEF Before
<1> HIDE DEF u, e, t, p
<1>3. t \in Seq(Symbols) /\ Len(t) = Len(u) + Len(e)
  BY <1>1, <1>2, ConcatProperties, Zenon DEF t
<1>4. \A x \in 1..(Len(u) + Len(e)) : t[x] = IF x <= Len(u) THEN u[x] ELSE e[x - Len(u)]
  BY <1>1, <1>2, ConcatProperties, Zenon DEF t
<1>b. Len(e) \in Nat
  BY <1>2
<1>5. \A x \in 1..p : t[x] = u[x]
  <2> SUFFICES ASSUME NEW x \in 1..p PROVE t[x] = u[x]
    OBVIOUS
  <2>1. x \in 1..(Len(u) + Len(e)) /\ x <= Len(u)
    BY <1>0, <1>1, <1>b
  <2> QED
    BY <1>4, <2>1
<1>6. LinesAt(t, 0, f, crlf)
  <2>1. 0 + p <= Len(t)
    BY <1>0, <1>1, <1>3, <1>b
  <2>2. ASSUME NEW i \in 1..Len(f) PROVE LineAt(t, 0 + Before(crlf, i), f[i], crlf)
    <3> DEFINE q == 0 + Before(crlf, i)
    <3>1. LineAt(u, q, f[i], crlf)
      BY <1>1 DEF LinesAt
    <3>2. q + 1 \in 1..p /\ q + 2 \in 1..p /\ q + 3 \in 1..p /\ (crlf => q + 4 \in 1..p)
      BY <1>0, <1>a, SMTT(40)
    <3> HIDE DEF q
    <3>3. LineAt(t, q, f[i], crlf)
      BY <1>5, <3>1, <3>2, Zenon DEF LineAt
    <3> QED
      BY <3>3 DEF q
  <2> QED
    BY <2>1, <2>2 DEF LinesAt, p
<1>7. ASSUME blank PROVE BlankAt(t, p, crlf)
  <2>1. /\ Len(e) = BlankLen(crlf)
        /\ crlf => e[1] = "r" /\ e[2] = "n"
        /\ ~crlf => e[1] = "n"
    BY <1>2, <1>7, NewLineIs
  <2>2. CASE crlf
    <3>1. Len(e) = 2
      BY <2>1, <2>2 DEF BlankLen
    <3>2. /\ p + 1 \in 1..(Len(u) + Len(e)) /\ ~(p + 1 <= Len(u)) /\ (p + 1) - Len(u) = 1
          /\ p + 2 \in 1..(Len(u) + Len(e)) /\ ~(p + 2 <= Len(u)) /\ (p + 2) - Len(u) = 2
          /\ p + 2 <= Len(t)
      BY <1>0, <1>1, <1>3, <3>1
    <3>3. t[p + 1] = e[1]
      BY <1>4, <3>2
    <3>4. t[p + 2] = e[2]
      BY <1>4, <3>2
    <3> QED
      BY <2>1, <2>2, <3>2, <3>3, <3>4, Zenon DEF BlankAt
  <2>3. CASE ~crlf
    <3>1. Len(e) = 1
      BY <2>1, <2>3 DEF BlankLen
    <3>2. p + 1 \in 1..(Len(u) + Len(e)) /\ ~(p + 1 <= Len(u)) /\ (p + 1) - Len(u) = 1 /\ p + 1 <= Len(t)
      BY <1>0, <1>1, <1>3, <3>1
    <3>3. t[p + 1] = e[1]
      BY <1>4, <3>2
    <3> QED
      BY <2>1, <2>3, <3>2, <3>3, Zenon DEF BlankAt
  <2> QED
    BY <2>2, <2>3
<1> QED
  BY <1>1, <1>2, <1>3, <1>6, <1>7 DEF t, p, u, e

\* The same where the text is in a longer one.
LEMMA LinesShift ==
    ASSUME NEW crlf \in BOOLEAN, NEW f \in Seq(Text), NEW u, NEW l \in Nat, Len(u) = l, NEW bytes, NEW b \in Nat,
           b + l <= Len(bytes), Len(bytes) \in Nat, \A x \in 1..l : bytes[b + x] = u[x]
    PROVE  /\ LinesAt(u, 0, f, crlf) => LinesAt(bytes, b, f, crlf)
           /\ \A p \in Nat : BlankAt(u, p, crlf) => BlankAt(bytes, b + p, crlf)
<1>1. ASSUME LinesAt(u, 0, f, crlf) PROVE LinesAt(bytes, b, f, crlf)
  <2> DEFINE p == Before(crlf, Len(f) + 1)
  <2>1. p \in Nat /\ Len(f) \in Nat /\ p <= l
    <3>1. p \in Nat /\ Len(f) \in Nat
      BY DEF Before
    <3>2. 0 + p <= l
      BY <1>1 DEF LinesAt
    <3> HIDE DEF p
    <3> QED
      BY <3>1, <3>2
  <2>a. \A i \in 1..Len(f) : Before(crlf, i) \in Nat /\ Before(crlf, i) + (IF crlf THEN 4 ELSE 3) <= p
    BY <2>1 DEF Before
  <2> HIDE DEF p
  <2>2. b + p <= Len(bytes)
    BY <2>1
  <2>3. ASSUME NEW i \in 1..Len(f) PROVE LineAt(bytes, b + Before(crlf, i), f[i], crlf)
    <3> DEFINE q == Before(crlf, i)
    <3>1. LineAt(u, 0 + q, f[i], crlf)
      BY <1>1 DEF LinesAt
    <3>2. q \in Nat /\ q + 1 \in 1..l /\ q + 2 \in 1..l /\ q + 3 \in 1..l /\ (crlf => q + 4 \in 1..l)
      <4>1. q \in Nat /\ q + (IF crlf THEN 4 ELSE 3) <= p
        BY <2>a
      <4> HIDE DEF q
      <4>2. CASE crlf
        BY <2>1, <4>1, <4>2
      <4>3. CASE ~crlf
        BY <2>1, <4>1, <4>3
      <4> QED
        BY <4>2, <4>3
    <3> HIDE DEF q
    <3>3. 0 + q = q
      BY <3>2
    <3>4. /\ u[q + 1] = "data:" /\ u[q + 2] = f[i]
          /\ crlf => u[q + 3] = "r" /\ u[q + 4] = "n"
          /\ ~crlf => u[q + 3] = "n"
      BY <3>1, <3>3, Zenon DEF LineAt
    <3>5. /\ (b + q) + 1 = b + (q + 1) /\ (b + q) + 2 = b + (q + 2)
          /\ (b + q) + 3 = b + (q + 3) /\ (b + q) + 4 = b + (q + 4)
      BY <3>2
    <3>6. /\ bytes[b + (q + 1)] = u[q + 1] /\ bytes[b + (q + 2)] = u[q + 2] /\ bytes[b + (q + 3)] = u[q + 3]
          /\ crlf => bytes[b + (q + 4)] = u[q + 4]
      BY <3>2, Zenon
    <3>7. LineAt(bytes, b + q, f[i], crlf)
      <4> DEFINE z1 == b + (q + 1)
                 z2 == b + (q + 2)
                 z3 == b + (q + 3)
                 z4 == b + (q + 4)
      <4>1. (b + q) + 1 = z1 /\ (b + q) + 2 = z2 /\ (b + q) + 3 = z3 /\ (b + q) + 4 = z4
        BY <3>5
      <4>2. /\ bytes[z1] = u[q + 1] /\ bytes[z2] = u[q + 2] /\ bytes[z3] = u[q + 3]
            /\ crlf => bytes[z4] = u[q + 4]
        BY <3>6
      <4> HIDE DEF z1, z2, z3, z4
      <4> QED
        BY <3>4, <4>1, <4>2, Zenon DEF LineAt
    <3> QED
      BY <3>7 DEF q
  <2> QED
    BY <2>2, <2>3 DEF LinesAt, p
<1>2. ASSUME NEW p \in Nat, BlankAt(u, p, crlf) PROVE BlankAt(bytes, b + p, crlf)
  <2>1. CASE crlf
    <3>1. p + 2 <= l /\ u[p + 1] = "r" /\ u[p + 2] = "n"
      BY <1>2, <2>1 DEF BlankAt
    <3>2. p + 1 \in 1..l /\ p + 2 \in 1..l /\ (b + p) + 1 = b + (p + 1) /\ (b + p) + 2 = b + (p + 2) /\ (b + p) + 2 <= Len(bytes)
      BY <3>1
    <3>3. bytes[b + (p + 1)] = "r" /\ bytes[b + (p + 2)] = "n"
      BY <3>1, <3>2
    <3> QED
      BY <2>1, <3>2, <3>3 DEF BlankAt
  <2>2. CASE ~crlf
    <3>1. p + 1 <= l /\ u[p + 1] = "n"
      BY <1>2, <2>2 DEF BlankAt
    <3>2. p + 1 \in 1..l /\ (b + p) + 1 = b + (p + 1) /\ (b + p) + 1 <= Len(bytes)
      BY <3>1
    <3>3. bytes[b + (p + 1)] = "n"
      BY <3>1, <3>2
    <3> QED
      BY <2>2, <3>2, <3>3 DEF BlankAt
  <2> QED
    BY <2>1, <2>2
<1> QED
  BY <1>1, <1>2

\* Every symbol of the lines of an event is one of some line.
LEMMA InSomeLine ==
    ASSUME NEW crlf \in BOOLEAN, NEW n \in Nat, NEW d \in 1..Before(crlf, n + 1)
    PROVE  \E i \in 1..n : \E c \in 1..(IF crlf THEN 4 ELSE 3) : d = Before(crlf, i) + c
<1>1. CASE crlf
  <2> DEFINE i == ((d - 1) \div 4) + 1
  <2>1. d \in 1..(4 * n)
    BY <1>1 DEF Before
  <2>2. i \in 1..n /\ d - 4 * (i - 1) \in 1..4
    BY <2>1
  <2> HIDE DEF i
  <2>3. d = Before(crlf, i) + (d - 4 * (i - 1))
    BY <1>1, <2>1, <2>2 DEF Before
  <2> QED
    BY <1>1, <2>2, <2>3
<1>2. CASE ~crlf
  <2> DEFINE i == ((d - 1) \div 3) + 1
  <2>1. d \in 1..(3 * n)
    BY <1>2 DEF Before
  <2>2. i \in 1..n /\ d - 3 * (i - 1) \in 1..3
    BY <2>1
  <2> HIDE DEF i
  <2>3. d = Before(crlf, i) + (d - 3 * (i - 1))
    BY <1>2, <2>1, <2>2 DEF Before
  <2> QED
    BY <1>2, <2>2, <2>3
<1> QED
  BY <1>1, <1>2

\* No event ends inside the lines of one.
LEMMA NoEndInside ==
    ASSUME NEW crlf \in BOOLEAN, NEW f \in Seq(Text), NEW bytes, NEW b \in Nat, LinesAt(bytes, b, f, crlf),
           NEW x \in Int, b < x, x < b + Before(crlf, Len(f) + 1) - (IF crlf THEN 1 ELSE 0)
    PROVE  ~EndsLF(bytes, x) /\ ~EndsCRLF(bytes, x)
<1> DEFINE n == Len(f)
           d == x - b
           l == Before(crlf, n + 1)
<1>0. n \in Nat /\ l \in Nat /\ \A i \in 1..n : f[i] \in Text
  BY DEF Before
<1>1. d \in 1..l /\ d < l - (IF crlf THEN 1 ELSE 0)
  <2> DEFINE o == IF crlf THEN 1 ELSE 0
  <2>0. b < x /\ x < b + l - o /\ o \in Nat
    OBVIOUS
  <2> HIDE DEF l, o
  <2>3. d \in 1..l /\ d < l - o
    BY <1>0, <2>0
  <2> QED
    BY <2>3 DEF o
<1>a. \A i \in 1..n : LineAt(bytes, b + Before(crlf, i), f[i], crlf)
  BY DEF LinesAt
<1>2. PICK i \in 1..n : \E c \in 1..(IF crlf THEN 4 ELSE 3) : d = Before(crlf, i) + c
  BY <1>0, <1>1, InSomeLine
<1>3. PICK c \in 1..(IF crlf THEN 4 ELSE 3) : d = Before(crlf, i) + c
  BY <1>2
<1> DEFINE p == b + Before(crlf, i)
<1>4. x = p + c /\ p \in Nat
  BY <1>0, <1>3 DEF Before
<1>5. LineAt(bytes, p, f[i], crlf) /\ f[i] \in Text
  BY <1>0, <1>a
<1>6. f[i] # "r" /\ f[i] # "n" /\ f[i] # "data:"
  BY <1>5, Zenon DEF Text
<1>7. ASSUME i < n PROVE bytes[p + 1 + (IF crlf THEN 4 ELSE 3)] = "data:"
  <2>1. i + 1 \in 1..n
    BY <1>0, <1>7
  <2>2. LineAt(bytes, b + Before(crlf, i + 1), f[i + 1], crlf)
    BY <1>a, <2>1
  <2>3. (b + Before(crlf, i + 1)) + 1 = p + 1 + (IF crlf THEN 4 ELSE 3)
    BY <1>0 DEF Before
  <2> HIDE DEF p
  <2> QED
    BY <2>2, <2>3, Zenon DEF LineAt
<1>8. CASE crlf
  <2>1. d < l - 1 /\ l = 4 * n /\ d = 4 * (i - 1) + c /\ c \in 1..4
    BY <1>0, <1>1, <1>3, <1>8 DEF Before
  <2> HIDE DEF d, p, l
  <2>2. bytes[p + 1] = "data:" /\ bytes[p + 2] = f[i] /\ bytes[p + 3] = "r" /\ bytes[p + 4] = "n"
    BY <1>5, <1>8, Zenon DEF LineAt
  <2>3. c = 3 \/ c = 4 => i < n
    BY <1>0, <2>1
  <2>4. i < n => bytes[p + 5] = "data:"
    <3>1. p + 1 + 4 = p + 5
      BY <1>4
    <3> QED
      BY <1>7, <1>8, <3>1
  <2>5. EndsLF(bytes, x) => bytes[x] = "n" /\ bytes[x + 1] = "n"
    BY DEF EndsLF
  <2>6. EndsCRLF(bytes, x) => bytes[x] = "r" /\ bytes[x + 2] = "r"
    BY DEF EndsCRLF
  <2>7. CASE c = 1
    BY <1>4, <2>2, <2>5, <2>6, <2>7
  <2>8. CASE c = 2
    BY <1>4, <1>6, <2>2, <2>5, <2>6, <2>8
  <2>9. CASE c = 3
    <3>1. x = p + 3 /\ x + 2 = p + 5
      BY <1>4, <2>9
    <3> QED
      BY <2>2, <2>3, <2>4, <2>5, <2>6, <2>9, <3>1
  <2>10. CASE c = 4
    <3>1. x = p + 4 /\ x + 1 = p + 5
      BY <1>4, <2>10
    <3> QED
      BY <2>2, <2>3, <2>4, <2>5, <2>6, <2>10, <3>1
  <2> QED
    BY <2>1, <2>7, <2>8, <2>9, <2>10
<1>9. CASE ~crlf
  <2>1. d < l /\ l = 3 * n /\ d = 3 * (i - 1) + c /\ c \in 1..3
    BY <1>0, <1>1, <1>3, <1>9 DEF Before
  <2> HIDE DEF d, p, l
  <2>2. bytes[p + 1] = "data:" /\ bytes[p + 2] = f[i] /\ bytes[p + 3] = "n"
    BY <1>5, <1>9, Zenon DEF LineAt
  <2>3. c = 3 => i < n
    BY <1>0, <2>1
  <2>4. i < n => bytes[p + 4] = "data:"
    <3>1. p + 1 + 3 = p + 4
      BY <1>4
    <3> QED
      BY <1>7, <1>9, <3>1
  <2>5. EndsLF(bytes, x) => bytes[x] = "n" /\ bytes[x + 1] = "n"
    BY DEF EndsLF
  <2>6. EndsCRLF(bytes, x) => bytes[x] = "r"
    BY DEF EndsCRLF
  <2>7. CASE c = 1
    BY <1>4, <2>2, <2>5, <2>6, <2>7
  <2>8. CASE c = 2
    BY <1>4, <1>6, <2>2, <2>5, <2>6, <2>8
  <2>9. CASE c = 3
    <3>1. x = p + 3 /\ x + 1 = p + 4
      BY <1>4, <2>9
    <3> QED
      BY <2>2, <2>3, <2>4, <2>5, <2>6, <2>9, <3>1
  <2> QED
    BY <2>1, <2>7, <2>8, <2>9
<1> QED
  BY <1>8, <1>9

\* What a stream is: the texts of its events one after the other, whole up to
\* the last, which is too if the stream has ended.
Whole(s) == IF s.ended THEN Len(s.frames) ELSE Len(s.frames) - 1
TextOf(s, k) == LinesOf(s.crlf, s.frames[k]) \o Ended(k <= Whole(s), s.crlf)
Streams == [frames : Seq(Seq(Text) \ {<<>>}), crlf : BOOLEAN, ended : BOOLEAN, cuts : Cuts]

\* Where each event of it is.
StreamAt(s, bytes, at) ==
    /\ bytes \in Seq(Symbols) /\ at \in [0..Len(s.frames) -> Nat] /\ at[0] = 0 /\ Len(bytes) = at[Len(s.frames)]
    /\ \A k \in 1..Len(s.frames) :
           /\ at[k] = at[k - 1] + Before(s.crlf, Len(s.frames[k]) + 1) + (IF k <= Whole(s) THEN BlankLen(s.crlf) ELSE 0)
           /\ at[k] <= Len(bytes)
           /\ LinesAt(bytes, at[k - 1], s.frames[k], s.crlf)
           /\ k <= Whole(s) => BlankAt(bytes, at[k - 1] + Before(s.crlf, Len(s.frames[k]) + 1), s.crlf)

\* A stream is its events, one after the other.
LEMMA StreamIs ==
    ASSUME NEW s \in Streams
    PROVE  \E at : StreamAt(s, StreamedBytes(s), at)
<1> DEFINE n == Len(s.frames)
           ss == [k \in DOMAIN s.frames |-> TextOf(s, k)]
           bytes == StreamedBytes(s)
<1>1. /\ s.crlf \in BOOLEAN /\ n \in Nat /\ DOMAIN s.frames = 1..n
      /\ \A k \in 1..n : s.frames[k] \in Seq(Text) /\ (k <= Whole(s)) \in BOOLEAN
  BY DEF Streams
<1>2. bytes = FlattenSeq(ss)
  BY Zenon DEF StreamedBytes, TextOf, LinesOf, LineOf, NewLine, Ended, Whole
<1>3. ASSUME NEW k \in 1..n
      PROVE  LET p == Before(s.crlf, Len(s.frames[k]) + 1) IN
             /\ ss[k] \in Seq(Symbols) /\ Len(ss[k]) = p + (IF k <= Whole(s) THEN BlankLen(s.crlf) ELSE 0)
             /\ LinesAt(ss[k], 0, s.frames[k], s.crlf)
             /\ k <= Whole(s) => BlankAt(ss[k], p, s.crlf)
  <2>1. ss[k] = LinesOf(s.crlf, s.frames[k]) \o Ended(k <= Whole(s), s.crlf)
    BY <1>1 DEF TextOf
  <2> DEFINE blank == k <= Whole(s)
             f == s.frames[k]
  <2>2. f \in Seq(Text) /\ s.crlf \in BOOLEAN /\ blank \in BOOLEAN
    BY <1>1
  <2>3. ss[k] = LinesOf(s.crlf, f) \o Ended(blank, s.crlf)
    BY <2>1, Zenon
  <2> HIDE DEF ss, n, f, blank
  <2>4. LET t == LinesOf(s.crlf, f) \o Ended(blank, s.crlf)
            p == Before(s.crlf, Len(f) + 1)
        IN  /\ t \in Seq(Symbols) /\ Len(t) = p + (IF blank THEN BlankLen(s.crlf) ELSE 0)
            /\ LinesAt(t, 0, f, s.crlf)
            /\ blank => BlankAt(t, p, s.crlf)
    BY <2>2, TextIs
  <2>5. LET p == Before(s.crlf, Len(f) + 1) IN
        /\ ss[k] \in Seq(Symbols) /\ Len(ss[k]) = p + (IF blank THEN BlankLen(s.crlf) ELSE 0)
        /\ LinesAt(ss[k], 0, f, s.crlf)
        /\ blank => BlankAt(ss[k], p, s.crlf)
    BY <2>3, <2>4, Zenon
  <2> QED
    BY <2>5 DEF f, blank
<1>4. ss \in Seq(Seq(Symbols)) /\ Len(ss) = n
  <2>1. ss \in [1..n -> Seq(Symbols)]
    BY <1>1, <1>3
  <2> HIDE DEF ss, n
  <2> QED
    BY <1>1, <2>1, SeqIs
<1> HIDE DEF ss, bytes, n
<1>5. PICK at : LaidOut(ss, at, bytes)
  BY <1>2, <1>4, Laid
<1>6. /\ at \in [0..n -> Nat] /\ at[0] = 0 /\ Len(bytes) = at[n]
      /\ \A k \in 1..n : at[k] = at[k - 1] + Len(ss[k]) /\ at[k] <= at[n]
      /\ \A k \in 1..n : \A x \in 1..Len(ss[k]) : bytes[at[k - 1] + x] = ss[k][x]
  BY <1>4, <1>5, Zenon DEF LaidOut, Starts
<1>7. bytes \in Seq(Symbols)
  BY <1>2, <1>4, Laid
<1>8. ASSUME NEW k \in 1..n
      PROVE  /\ at[k] = at[k - 1] + Before(s.crlf, Len(s.frames[k]) + 1) + (IF k <= Whole(s) THEN BlankLen(s.crlf) ELSE 0)
             /\ at[k] <= Len(bytes)
             /\ LinesAt(bytes, at[k - 1], s.frames[k], s.crlf)
             /\ k <= Whole(s) => BlankAt(bytes, at[k - 1] + Before(s.crlf, Len(s.frames[k]) + 1), s.crlf)
  <2> DEFINE b == at[k - 1]
             u == ss[k]
             l == Len(u)
             p == Before(s.crlf, Len(s.frames[k]) + 1)
             e == IF k <= Whole(s) THEN BlankLen(s.crlf) ELSE 0
  <2>0. k - 1 \in 0..n /\ k \in 0..n
    BY <1>1
  <2>1. b \in Nat /\ l \in Nat /\ p \in Nat /\ e \in Nat /\ l = p + e /\ at[k] = b + l /\ at[k] <= Len(bytes) /\ Len(bytes) \in Nat
    <3>1. p \in Nat
      <4>1. Len(s.frames[k]) \in Nat
        BY <1>1
      <4> QED
        BY <4>1 DEF Before
    <3>2. e \in Nat
      BY DEF BlankLen
    <3>3. u \in Seq(Symbols) /\ l = p + e
      BY <1>3, Zenon
    <3>4. b \in Nat /\ at[k] = b + l /\ at[k] <= Len(bytes) /\ Len(bytes) \in Nat
      BY <1>6, <1>7, <2>0
    <3> HIDE DEF p, e, b
    <3> QED
      BY <3>1, <3>2, <3>3, <3>4
  <2>2. \A x \in 1..l : bytes[b + x] = u[x]
    BY <1>6
  <2>3. LinesAt(u, 0, s.frames[k], s.crlf) /\ (k <= Whole(s) => BlankAt(u, p, s.crlf))
    BY <1>3, Zenon
  <2>4. s.frames[k] \in Seq(Text) /\ s.crlf \in BOOLEAN
    BY <1>1
  <2> HIDE DEF b, u, p, e
  <2>5. b + l <= Len(bytes)
    BY <2>1
  <2>6. /\ LinesAt(u, 0, s.frames[k], s.crlf) => LinesAt(bytes, b, s.frames[k], s.crlf)
        /\ \A q \in Nat : BlankAt(u, q, s.crlf) => BlankAt(bytes, b + q, s.crlf)
    BY <2>1, <2>2, <2>4, <2>5, LinesShift
  <2>7. at[k] = b + p + e
    BY <2>1
  <2> QED
    BY <2>1, <2>3, <2>6, <2>7, Zenon DEF b, p, e
<1>9. StreamAt(s, bytes, at)
  BY <1>6, <1>7, <1>8, Zenon DEF StreamAt, n
<1> QED
  BY <1>9 DEF bytes

\* Where the whole events of a stream begin after, and where each stops.
StartsOf(s, at) == [k \in 0..Whole(s) |-> at[k]]
StopsOf(s, at) == [k \in 1..Whole(s) |-> at[k] - (IF s.crlf THEN 3 ELSE 1)]

\* All events of a stream are whole but perhaps the last.
LEMMA WholeIs ==
    ASSUME NEW s \in Streams, s.frames # <<>>
    PROVE  /\ s.crlf \in BOOLEAN /\ Len(s.frames) \in Nat \ {0} /\ Whole(s) \in Nat
           /\ Whole(s) = Len(s.frames) \/ Whole(s) = Len(s.frames) - 1
           /\ \A k \in 1..Len(s.frames) : s.frames[k] \in Seq(Text) /\ Len(s.frames[k]) \in Nat \ {0}
<1>1. s.frames \in Seq(Seq(Text) \ {<<>>}) /\ s.crlf \in BOOLEAN /\ s.ended \in BOOLEAN
  BY DEF Streams
<1>2. Len(s.frames) \in Nat \ {0}
  BY <1>1
<1>3. Whole(s) = Len(s.frames) \/ Whole(s) = Len(s.frames) - 1
  BY Zenon DEF Whole
<1>4. \A k \in 1..Len(s.frames) : s.frames[k] \in Seq(Text) /\ Len(s.frames[k]) \in Nat \ {0}
  <2> SUFFICES ASSUME NEW k \in 1..Len(s.frames) PROVE s.frames[k] \in Seq(Text) /\ Len(s.frames[k]) \in Nat \ {0}
    OBVIOUS
  <2>1. s.frames[k] \in Seq(Text) \ {<<>>}
    BY <1>1
  <2> QED
    BY <2>1
<1> QED
  BY <1>1, <1>2, <1>3, <1>4

\* One event of a stream: where its lines and its end are.
EventAt(s, bytes, at, k) ==
    LET f == s.frames[k]
        a == at[k - 1]
        o == IF s.crlf THEN 1 ELSE 0
        e == a + Before(s.crlf, Len(f) + 1) - o
    IN  /\ a \in Nat /\ e \in Nat /\ a < e /\ at[k] \in Nat /\ at[k] <= Len(bytes)
        /\ LinesAt(bytes, a, f, s.crlf)
        /\ k <= Whole(s) => /\ at[k] = e + (IF s.crlf THEN 3 ELSE 1)
                            /\ ~s.crlf => EndsLF(bytes, e)
                            /\ s.crlf => EndsCRLF(bytes, e)
        /\ ~(k <= Whole(s)) => at[k] = e + o
        /\ \A x \in Int : EndsLF(bytes, x) \/ EndsCRLF(bytes, x) => ~(a < x /\ x < e)

\* Every event of a stream lies in it so, and ends nowhere else.
LEMMA EventIs ==
    ASSUME NEW s \in Streams, s.frames # <<>>, NEW bytes, NEW at, StreamAt(s, bytes, at), NEW k \in 1..Len(s.frames)
    PROVE  EventAt(s, bytes, at, k)
<1> DEFINE f == s.frames[k]
           a == at[k - 1]
           o == IF s.crlf THEN 1 ELSE 0
           l == Before(s.crlf, Len(f) + 1)
           e == a + l - o
           n == Len(f)
<1>1. s.crlf \in BOOLEAN /\ Len(s.frames) \in Nat \ {0} /\ Whole(s) \in Nat /\ f \in Seq(Text) /\ n \in Nat \ {0}
  BY WholeIs
<1>2. /\ bytes \in Seq(Symbols) /\ at \in [0..Len(s.frames) -> Nat]
      /\ at[k] = a + l + (IF k <= Whole(s) THEN BlankLen(s.crlf) ELSE 0)
      /\ at[k] <= Len(bytes)
      /\ LinesAt(bytes, a, f, s.crlf)
      /\ k <= Whole(s) => BlankAt(bytes, a + l, s.crlf)
  BY Zenon DEF StreamAt
<1>3. a \in Nat /\ at[k] \in Nat /\ Len(bytes) \in Nat
  <2>1. k - 1 \in 0..Len(s.frames) /\ k \in 0..Len(s.frames)
    BY <1>1
  <2> QED
    BY <1>2, <2>1
<1>4. (s.crlf => l = 4 * n /\ o = 1) /\ (~s.crlf => l = 3 * n /\ o = 0)
  BY <1>1 DEF Before
<1>5. LineAt(bytes, a + Before(s.crlf, n), f[n], s.crlf)
  <2>1. n \in 1..Len(f)
    BY <1>1
  <2> QED
    BY <1>2, <2>1, Zenon DEF LinesAt
<1>6. (s.crlf => a + Before(s.crlf, n) = a + l - 4) /\ (~s.crlf => a + Before(s.crlf, n) = a + l - 3)
  BY <1>1, <1>3 DEF Before
<1>a. a + Before(s.crlf, Len(f) + 1) - (IF s.crlf THEN 1 ELSE 0) = e
  OBVIOUS
<1> HIDE DEF f, a, o, l, n
<1>7. e \in Nat /\ a < e
  BY <1>1, <1>3, <1>4
<1>8. ASSUME k <= Whole(s)
      PROVE  /\ at[k] = e + (IF s.crlf THEN 3 ELSE 1)
             /\ ~s.crlf => EndsLF(bytes, e)
             /\ s.crlf => EndsCRLF(bytes, e)
  <2>1. at[k] = a + l + BlankLen(s.crlf) /\ BlankAt(bytes, a + l, s.crlf)
    BY <1>2, <1>8, Zenon
  <2>2. CASE s.crlf
    <3>1. BlankLen(s.crlf) = 2 /\ o = 1 /\ l \in Nat
      BY <1>1, <1>4, <2>2 DEF BlankLen
    <3>2. at[k] = e + 3
      BY <1>3, <2>1, <3>1
    <3>3. bytes[a + l + 1] = "r" /\ bytes[a + l + 2] = "n" /\ a + l + 2 <= Len(bytes)
      BY <2>1, <2>2, Zenon DEF BlankAt
    <3>4. bytes[a + l - 4 + 3] = "r" /\ bytes[a + l - 4 + 4] = "n"
      BY <1>5, <1>6, <2>2, Zenon DEF LineAt
    <3>5. a + l - 4 + 3 = e /\ a + l - 4 + 4 = e + 1 /\ a + l + 1 = e + 2 /\ a + l + 2 = e + 3
      BY <1>3, <3>1, SMTT(40)
    <3>6. EndsCRLF(bytes, e)
      <4> DEFINE ee == e
      <4>1. ee \in Nat /\ ee >= 1 /\ ee + 3 <= Len(bytes)
        BY <1>3, <1>7, <3>3, <3>5
      <4>2. bytes[ee] = "r" /\ bytes[ee + 1] = "n" /\ bytes[ee + 2] = "r" /\ bytes[ee + 3] = "n"
        <5> HIDE DEF e
        <5> QED
          BY <3>3, <3>4, <3>5
      <4> HIDE DEF ee
      <4>3. EndsCRLF(bytes, ee)
        BY <4>1, <4>2 DEF EndsCRLF
      <4> QED
        BY <4>3 DEF ee
    <3> QED
      BY <2>2, <3>2, <3>6
  <2>3. CASE ~s.crlf
    <3>1. BlankLen(s.crlf) = 1 /\ o = 0 /\ l \in Nat
      BY <1>1, <1>4, <2>3 DEF BlankLen
    <3>2. at[k] = e + 1
      BY <1>3, <2>1, <3>1
    <3>3. bytes[a + l + 1] = "n" /\ a + l + 1 <= Len(bytes)
      BY <2>1, <2>3, Zenon DEF BlankAt
    <3>4. bytes[a + l - 3 + 3] = "n"
      BY <1>5, <1>6, <2>3, Zenon DEF LineAt
    <3>5. a + l - 3 + 3 = e /\ a + l + 1 = e + 1
      BY <1>3, <3>1
    <3>6. EndsLF(bytes, e)
      <4> DEFINE ee == e
      <4>1. ee \in Nat /\ ee >= 1 /\ ee + 1 <= Len(bytes)
        BY <1>3, <1>7, <3>3, <3>5
      <4>2. bytes[ee] = "n" /\ bytes[ee + 1] = "n"
        <5> HIDE DEF e
        <5> QED
          BY <3>3, <3>4, <3>5
      <4> HIDE DEF ee
      <4>3. EndsLF(bytes, ee)
        BY <4>1, <4>2 DEF EndsLF
      <4> QED
        BY <4>3 DEF ee
    <3> QED
      BY <2>3, <3>2, <3>6
  <2> QED
    BY <2>2, <2>3
<1>9. ASSUME ~(k <= Whole(s)) PROVE at[k] = e + o
  <2>1. at[k] = a + l + 0
    BY <1>2, <1>9, Zenon
  <2>2. l \in Nat /\ o \in Nat
    BY <1>1, <1>4
  <2> QED
    BY <1>3, <2>1, <2>2
<1> HIDE DEF e
<1>10. ASSUME NEW x \in Int, a < x, x < e PROVE ~EndsLF(bytes, x) /\ ~EndsCRLF(bytes, x)
  <2>1. x < a + Before(s.crlf, Len(f) + 1) - (IF s.crlf THEN 1 ELSE 0)
    BY <1>a, <1>10
  <2> QED
    BY <1>1, <1>2, <1>3, <1>10, <2>1, NoEndInside
<1>11. \A x \in Int : EndsLF(bytes, x) \/ EndsCRLF(bytes, x) => ~(a < x /\ x < e)
  BY <1>10
<1> QED
  BY <1>2, <1>3, <1>7, <1>8, <1>9, <1>11, Zenon DEF EventAt, f, a, o, l, e

\* So the events of a stream are where the router looks for them.
LEMMA StreamFramed ==
    ASSUME NEW s \in Streams, s.frames # <<>>, NEW bytes, NEW at, StreamAt(s, bytes, at)
    PROVE  Framed(bytes, Whole(s), StartsOf(s, at), StopsOf(s, at))
<1> DEFINE n == Whole(s)
           B == StartsOf(s, at)
           E == StopsOf(s, at)
           K == Len(s.frames)
           w == IF s.crlf THEN 3 ELSE 1
<1>0. s.crlf \in BOOLEAN /\ K \in Nat \ {0} /\ n \in Nat /\ (n = K \/ n = K - 1)
  BY WholeIs
<1>1. bytes \in Seq(Symbols) /\ at \in [0..K -> Nat] /\ at[0] = 0 /\ Len(bytes) = at[K] /\ \A k \in 1..K : at[k] <= Len(bytes)
  BY Zenon DEF StreamAt
<1>a. Len(bytes) \in Nat
  BY <1>1
<1>2. \A k \in 0..n : B[k] = at[k] /\ at[k] \in 0..Len(bytes)
  <2> SUFFICES ASSUME NEW k \in 0..n PROVE B[k] = at[k] /\ at[k] \in 0..Len(bytes)
    OBVIOUS
  <2>1. k \in 0..K /\ (k = 0 \/ k \in 1..K)
    BY <1>0
  <2>2. at[k] \in Nat /\ at[k] <= Len(bytes)
    BY <1>1, <1>a, <2>1
  <2> QED
    BY <1>a, <2>2 DEF StartsOf
<1>3. B \in [0..n -> 0..Len(bytes)] /\ B[0] = 0
  <2>1. 0 \in 0..n
    BY <1>0
  <2> QED
    BY <1>1, <1>2, <2>1 DEF StartsOf
<1>w. w \in Nat
  OBVIOUS
<1>4. \A k \in 1..n : E[k] = at[k] - w /\ E[k] \in Int
  <2> SUFFICES ASSUME NEW k \in 1..n PROVE E[k] = at[k] - w /\ E[k] \in Int
    OBVIOUS
  <2>1. E[k] = at[k] - w
    BY DEF StopsOf
  <2>2. k \in 0..n
    BY <1>0
  <2>3. at[k] \in Nat
    BY <1>2, <2>2
  <2> HIDE DEF E, w
  <2> QED
    BY <1>w, <2>1, <2>3
<1>5. E \in [1..n -> Int]
  BY <1>4 DEF StopsOf
<1> HIDE DEF B, E, n, K
<1>6. ASSUME NEW k \in 1..n
      PROVE  /\ B[k - 1] < E[k]
             /\ \/ EndsLF(bytes, E[k]) /\ B[k] = E[k] + 1
                \/ EndsCRLF(bytes, E[k]) /\ B[k] = E[k] + 3
             /\ \A x \in Int : (EndsLF(bytes, x) \/ EndsCRLF(bytes, x)) /\ x > B[k - 1] => x >= E[k]
  <2> DEFINE a == at[k - 1]
             e == a + Before(s.crlf, Len(s.frames[k]) + 1) - (IF s.crlf THEN 1 ELSE 0)
  <2>0. k \in 1..K /\ k - 1 \in 0..n /\ k \in 0..n /\ k <= n
    BY <1>0
  <2>1. /\ a \in Nat /\ e \in Nat /\ a < e /\ at[k] \in Nat
        /\ k <= Whole(s) => /\ at[k] = e + w
                            /\ ~s.crlf => EndsLF(bytes, e)
                            /\ s.crlf => EndsCRLF(bytes, e)
        /\ \A x \in Int : EndsLF(bytes, x) \/ EndsCRLF(bytes, x) => ~(a < x /\ x < e)
    <3>1. k \in 1..Len(s.frames)
      BY <2>0 DEF K
    <3>a. EventAt(s, bytes, at, k)
      BY <3>1, EventIs, Zenon
    <3> QED
      BY <3>1, <3>a, Zenon DEF EventAt
  <2> HIDE DEF e
  <2>2. at[k] = e + w
    BY <2>0, <2>1 DEF n
  <2>3. B[k - 1] = a /\ B[k] = at[k] /\ E[k] = at[k] - w
    BY <1>2, <1>4, <2>0
  <2> HIDE DEF a
  <2>4. E[k] = e
    <3> HIDE DEF w
    <3> QED
      BY <1>w, <2>1, <2>2, <2>3
  <2>5. \A x \in Int : (EndsLF(bytes, x) \/ EndsCRLF(bytes, x)) /\ x > a => x >= e
    BY <2>1
  <2>6. CASE s.crlf
    <3>1. EndsCRLF(bytes, E[k]) /\ B[k] = E[k] + 3
      BY <2>0, <2>1, <2>2, <2>3, <2>4, <2>6 DEF n
    <3> QED
      BY <2>1, <2>3, <2>4, <2>5, <3>1
  <2>7. CASE ~s.crlf
    <3>1. EndsLF(bytes, E[k]) /\ B[k] = E[k] + 1
      BY <2>0, <2>1, <2>2, <2>3, <2>4, <2>7 DEF n
    <3> QED
      BY <2>1, <2>3, <2>4, <2>5, <3>1
  <2> QED
    BY <2>6, <2>7
<1>7. ASSUME NEW x \in Int, EndsLF(bytes, x) \/ EndsCRLF(bytes, x) PROVE x <= B[n]
  <2>0. B[n] = at[n] /\ at[n] \in Nat
    <3>1. n \in 0..n
      BY <1>0
    <3> QED
      BY <1>2, <3>1
  <2>1. x + 1 <= Len(bytes) /\ (EndsCRLF(bytes, x) => x + 3 <= Len(bytes))
    BY <1>7, <1>a DEF EndsLF, EndsCRLF
  <2>2. CASE n = K
    BY <1>1, <1>a, <2>0, <2>1, <2>2
  <2>3. CASE n = K - 1
    <3> DEFINE a == at[K - 1]
               o == IF s.crlf THEN 1 ELSE 0
               e == a + Before(s.crlf, Len(s.frames[K]) + 1) - o
    <3>1. K \in 1..Len(s.frames) /\ ~(K <= Whole(s))
      BY <1>0, <2>3 DEF n, K
    <3>a. EventAt(s, bytes, at, K)
      BY <3>1, EventIs, Zenon
    <3>2. /\ a \in Nat /\ e \in Nat /\ at[K] = e + o /\ LinesAt(bytes, a, s.frames[K], s.crlf)
          /\ \A y \in Int : EndsLF(bytes, y) \/ EndsCRLF(bytes, y) => ~(a < y /\ y < e)
      BY <3>1, <3>a, Zenon DEF EventAt
    <3>3. ~(a < x /\ x < e)
      BY <1>7, <3>2
    <3>4. Len(bytes) = e + o
      BY <1>1, <3>2
    <3>5. s.crlf => bytes[e] = "r"
      <4> SUFFICES ASSUME s.crlf PROVE bytes[e] = "r"
        OBVIOUS
      <4> DEFINE f == s.frames[K]
                 m == Len(f)
      <4>1. m \in Nat \ {0}
        BY <3>1, WholeIs
      <4>2. m \in 1..Len(f)
        BY <4>1
      <4>3. LineAt(bytes, a + Before(s.crlf, m), f[m], s.crlf)
        BY <3>2, <4>2, Zenon DEF LinesAt
      <4>4. bytes[a + Before(s.crlf, m) + 3] = "r"
        BY <4>3, Zenon DEF LineAt
      <4>5. a + Before(s.crlf, m) + 3 = e
        <5>1. Before(s.crlf, m) = 4 * m - 4 /\ Before(s.crlf, m + 1) = 4 * m /\ o = 1
          BY <4>1 DEF Before
        <5>2. a \in Nat
          BY <3>2
        <5> DEFINE p == Before(s.crlf, m)
                   q == Before(s.crlf, m + 1)
        <5>a. p = 4 * m - 4 /\ q = 4 * m /\ o = 1 /\ m \in Nat
          BY <4>1, <5>1, Zenon
        <5> HIDE DEF a, m, o, p, q
        <5>3. a + p + 3 = a + q - o
          BY <5>a, <5>2
        <5> QED
          BY <5>3, Zenon DEF m, p, q
      <4> QED
        BY <4>4, <4>5, Zenon
    <3>6. (s.crlf => o = 1) /\ (~s.crlf => o = 0)
      OBVIOUS
    <3>7. a = at[n]
      BY <2>3
    <3>8. e \in Nat /\ a \in Nat
      BY <3>2
    <3> HIDE DEF e, a, o
    <3>9. x < e
      <4>1. CASE s.crlf
        <5>1. x + 1 <= e + 1 /\ (EndsCRLF(bytes, x) => x + 3 <= e + 1)
          BY <2>1, <3>4, <3>6, <4>1
        <5>2. EndsLF(bytes, x) => bytes[x] = "n"
          BY DEF EndsLF
        <5>3. x # e
          BY <1>7, <3>5, <3>8, <4>1, <5>1, <5>2
        <5> QED
          BY <3>8, <5>1, <5>3
      <4>2. CASE ~s.crlf
        BY <2>1, <3>4, <3>6, <3>8, <4>2
      <4> QED
        BY <4>1, <4>2
    <3> QED
      BY <2>0, <3>3, <3>7, <3>8, <3>9
  <2> QED
    BY <1>0, <2>2, <2>3
<1> QED
  BY <1>0, <1>3, <1>5, <1>6, <1>7 DEF Framed, n, B, E

\* The data of an event is what its lines say.
LEMMA DataIs ==
    ASSUME NEW crlf \in BOOLEAN, NEW f \in Seq(Text), Len(f) # 0, NEW bytes \in Seq(Symbols), NEW a \in Nat,
           LinesAt(bytes, a, f, crlf), NEW m \in Nat, m <= Len(bytes),
           m = a + Before(crlf, Len(f) + 1) - (IF crlf THEN 2 ELSE 1)
    PROVE  dataLines(SubSeq(bytes, a + 1, m)) = f
<1> DEFINE n == Len(f)
           ev == SubSeq(bytes, a + 1, m)
           o == IF crlf THEN 2 ELSE 1
           l == Before(crlf, n + 1)
           w == IF crlf THEN 4 ELSE 3
           P == {i \in DOMAIN ev : i > 1 /\ ev[i - 1] = "data:"}
           h == [i \in 1..n |-> Before(crlf, i) + 2]
<1>0. n \in Nat \ {0} /\ f = [i \in 1..n |-> f[i]] /\ \A i \in 1..n : f[i] \in Text
  <2>1. n \in Nat /\ n # 0
    OBVIOUS
  <2>2. f = [i \in 1..n |-> f[i]] /\ \A i \in 1..n : f[i] \in Text
    OBVIOUS
  <2> QED
    BY <2>1, <2>2
<1>1. (crlf => l = 4 * n /\ o = 2 /\ w = 4) /\ (~crlf => l = 3 * n /\ o = 1 /\ w = 3) /\ m = a + l - o
  BY <1>0 DEF Before
<1>2. \A i \in 1..n : (crlf => Before(crlf, i) = 4 * (i - 1)) /\ (~crlf => Before(crlf, i) = 3 * (i - 1))
  BY DEF Before
<1>3. \A i \in 1..n : LineAt(bytes, a + Before(crlf, i), f[i], crlf)
  BY DEF LinesAt
<1>4. \A d \in 1..l : \E i \in 1..n : \E c \in 1..w : d = Before(crlf, i) + c
  BY <1>0, InSomeLine
<1> HIDE DEF n, o, l, w
<1>5. a <= m /\ m - a = l - o /\ l - o \in Nat
  <2>1. l - o \in Nat /\ l \in Nat /\ o \in Nat
    <3>1. CASE crlf
      <4>1. l = 4 * n /\ o = 2
        BY <1>1, <3>1
      <4> QED
        BY <1>0, <4>1
    <3>2. CASE ~crlf
      <4>1. l = 3 * n /\ o = 1
        BY <1>1, <3>2
      <4> QED
        BY <1>0, <4>1
    <3> QED
      BY <3>1, <3>2
  <2>2. m = a + l - o
    BY <1>1
  <2> QED
    BY <2>1, <2>2
<1>6. ev \in Seq(Symbols) /\ Len(ev) = l - o /\ \A x \in 1..(l - o) : ev[x] = bytes[a + x]
  <2>1. LET s == SubSeq(bytes, a + 1, m) IN
        s \in Seq(Symbols) /\ Len(s) = m - a /\ \A x \in 1..(m - a) : s[x] = bytes[a + x]
    BY <1>5, PieceIs, SMTT(40)
  <2> QED
    BY <1>5, <2>1
<1> HIDE DEF ev
<1>7. DOMAIN ev = 1..(l - o)
  BY <1>6
<1>8. \A i \in 1..n : Before(crlf, i) \in Nat /\ Before(crlf, i) + 2 \in 1..(l - o)
  <2> SUFFICES ASSUME NEW i \in 1..n PROVE Before(crlf, i) \in Nat /\ Before(crlf, i) + 2 \in 1..(l - o)
    OBVIOUS
  <2> DEFINE q == Before(crlf, i)
  <2>1. CASE crlf
    <3>1. l = 4 * n /\ o = 2 /\ q = 4 * (i - 1)
      BY <1>1, <1>2, <2>1
    <3> HIDE DEF q
    <3>2. q \in Nat /\ q + 2 \in 1..(l - o)
      BY <1>0, <3>1
    <3> QED
      BY <3>2 DEF q
  <2>2. CASE ~crlf
    <3>1. l = 3 * n /\ o = 1 /\ q = 3 * (i - 1)
      BY <1>1, <1>2, <2>2
    <3> HIDE DEF q
    <3>2. q \in Nat /\ q + 2 \in 1..(l - o)
      BY <1>0, <3>1, SMTT(40)
    <3> QED
      BY <3>2 DEF q
  <2> QED
    BY <2>1, <2>2
<1>9. ASSUME NEW i \in 1..n
      PROVE  LET q == Before(crlf, i) IN
             ev[q + 1] = "data:" /\ ev[q + 2] = f[i]
  <2> DEFINE q == Before(crlf, i)
  <2>1. q \in Nat /\ q + 1 \in 1..(l - o) /\ q + 2 \in 1..(l - o)
    BY <1>5, <1>8
  <2>2. LineAt(bytes, a + q, f[i], crlf)
    BY <1>3
  <2> HIDE DEF q
  <2>3. bytes[(a + q) + 1] = "data:" /\ bytes[(a + q) + 2] = f[i]
    BY <2>2, Zenon DEF LineAt
  <2>4. (a + q) + 1 = a + (q + 1) /\ (a + q) + 2 = a + (q + 2)
    BY <2>1
  <2>5. ev[q + 1] = "data:" /\ ev[q + 2] = f[i]
    BY <1>6, <2>1, <2>3, <2>4
  <2> QED
    BY <2>5 DEF q
<1>10. \A i \in 1..n : h[i] = Before(crlf, i) + 2 /\ h[i] \in P /\ h[i] \in Int
  <2> SUFFICES ASSUME NEW i \in 1..n PROVE h[i] = Before(crlf, i) + 2 /\ h[i] \in P /\ h[i] \in Int
    OBVIOUS
  <2> DEFINE q == Before(crlf, i)
  <2>1. h[i] = q + 2
    OBVIOUS
  <2>2. q \in Nat /\ q + 2 \in 1..(l - o)
    BY <1>8
  <2>3. ev[q + 1] = "data:"
    BY <1>9
  <2> HIDE DEF q, h
  <2>4. (q + 2) - 1 = q + 1 /\ q + 2 > 1
    BY <2>2
  <2>5. q + 2 \in P
    BY <1>7, <2>2, <2>3, <2>4
  <2> HIDE DEF P
  <2> QED
    BY <2>1, <2>2, <2>5 DEF q
<1>11. ASSUME NEW x \in P PROVE \E i \in 1..n : x = h[i]
  <2>1. x \in 1..(l - o) /\ x > 1 /\ ev[x - 1] = "data:"
    BY <1>7
  <2> DEFINE d == x - 1
  <2>2. d \in 1..(l - o) /\ d \in 1..l /\ d + 1 = x /\ d <= l - o
    <3>1. o \in Nat /\ l \in Nat
      BY <1>0, <1>1, SMTT(40)
    <3> QED
      BY <1>5, <2>1, <3>1
  <2>3. ev[d] = bytes[a + d]
    BY <1>6, <2>2
  <2>4. bytes[a + d] = "data:"
    BY <2>1, <2>3
  <2> HIDE DEF d
  <2>5. PICK i \in 1..n : \E c \in 1..w : d = Before(crlf, i) + c
    BY <1>4, <2>2
  <2>6. PICK c \in 1..w : d = Before(crlf, i) + c
    BY <2>5
  <2> DEFINE q == Before(crlf, i)
  <2>7. q \in Nat /\ c \in 1..4 /\ (~crlf => c \in 1..3)
    <3>1. q \in Nat
      BY <1>8
    <3> QED
      BY <1>1, <3>1
  <2>8. LineAt(bytes, a + q, f[i], crlf) /\ f[i] \in Text
    BY <1>0, <1>3
  <2> HIDE DEF q
  <2>9. f[i] # "data:"
    BY <2>8, Zenon DEF Text
  <2>10. a + d = (a + q) + c
    BY <2>2, <2>6, <2>7 DEF q
  <2> DEFINE z == a + q
  <2>11. /\ bytes[z + 2] # "data:" /\ bytes[z + 3] # "data:"
         /\ crlf => bytes[z + 4] # "data:"
    <3>1. /\ bytes[z + 2] = f[i]
          /\ crlf => bytes[z + 3] = "r" /\ bytes[z + 4] = "n"
          /\ ~crlf => bytes[z + 3] = "n"
      BY <2>8, Zenon DEF LineAt
    <3> HIDE DEF z
    <3> QED
      BY <2>9, <3>1
  <2> HIDE DEF z
  <2>12. bytes[z + c] = "data:"
    BY <2>4, <2>10 DEF z
  <2>13. c = 1
    BY <2>7, <2>11, <2>12
  <2>14. x = q + 2
    BY <2>2, <2>6, <2>7, <2>13 DEF q
  <2>15. h[i] = q + 2
    BY <1>10 DEF q
  <2> QED
    BY <2>14, <2>15
<1>12. \A j, k \in 1..n : j < k => h[j] < h[k]
  <2> SUFFICES ASSUME NEW j \in 1..n, NEW k \in 1..n, j < k PROVE h[j] < h[k]
    OBVIOUS
  <2>1. CASE crlf
    <3>1. h[j] = 4 * (j - 1) + 2 /\ h[k] = 4 * (k - 1) + 2
      BY <1>2, <1>10, <2>1
    <3> HIDE DEF h
    <3> QED
      BY <1>0, <3>1
  <2>2. CASE ~crlf
    <3>1. h[j] = 3 * (j - 1) + 2 /\ h[k] = 3 * (k - 1) + 2
      BY <1>2, <1>10, <2>2
    <3> HIDE DEF h
    <3> QED
      BY <1>0, <3>1
  <2> QED
    BY <2>1, <2>2
<1>13. P = {h[k] : k \in 1..n}
  <2> HIDE DEF P, h
  <2> QED
    BY <1>10, <1>11
<1>14. h \in [1..n -> Int]
  BY <1>10
<1>15. Listed(P, Ascending(P)) = h
  <2> DEFINE H == {h[k] : k \in 1..n}
  <2>1. Listed(H, Ascending(H)) = h
    <3> HIDE DEF h
    <3> QED
      BY <1>0, <1>12, <1>14, GivenInOrder
  <2> HIDE DEF P, h
  <2> QED
    BY <1>13, <2>1
<1>16. dataLines(ev) = At(ev, h)
  BY <1>15, Zenon DEF dataLines, Picked
<1>17. At(ev, h) = f
  <2>1. DOMAIN h = 1..n
    OBVIOUS
  <2>2. \A k \in 1..n : ev[h[k]] = f[k]
    BY <1>9, <1>10
  <2> HIDE DEF h
  <2>3. At(ev, h) = [k \in 1..n |-> ev[h[k]]]
    BY <2>1 DEF At
  <2> QED
    BY <1>0, <2>2, <2>3
<1> QED
  BY <1>16, <1>17 DEF ev

\* So what is reported is what the events of the stream say.
LEMMA ReportedIs ==
    ASSUME NEW s \in Streams, s.frames # <<>>, NEW bytes, NEW at, StreamAt(s, bytes, at)
    PROVE  Reported(bytes, Whole(s), StartsOf(s, at), StopsOf(s, at)) = [k \in 1..Whole(s) |-> extractUsage(s.frames[k])]
<1> SUFFICES ASSUME NEW k \in 1..Whole(s)
             PROVE  dataLines(EventOf(bytes, StartsOf(s, at), StopsOf(s, at), k)) = s.frames[k]
  BY DEF Reported
<1> DEFINE f == s.frames[k]
           a == at[k - 1]
           e == a + Before(s.crlf, Len(f) + 1) - (IF s.crlf THEN 1 ELSE 0)
           w == IF s.crlf THEN 3 ELSE 1
<1>1. /\ s.crlf \in BOOLEAN /\ Len(s.frames) \in Nat /\ Whole(s) \in Nat /\ k \in 1..Len(s.frames) /\ k <= Whole(s)
      /\ f \in Seq(Text) /\ Len(f) # 0
  <2>1. /\ s.crlf \in BOOLEAN /\ Len(s.frames) \in Nat \ {0} /\ Whole(s) \in Nat
        /\ Whole(s) = Len(s.frames) \/ Whole(s) = Len(s.frames) - 1
    BY WholeIs
  <2>2. k \in 1..Len(s.frames) /\ k <= Whole(s)
    BY <2>1
  <2>3. f \in Seq(Text) /\ Len(f) \in Nat \ {0}
    BY <2>2, WholeIs
  <2> HIDE DEF f
  <2> QED
    BY <2>1, <2>2, <2>3
<1>2. EventAt(s, bytes, at, k)
  BY <1>1, EventIs
<1>3. /\ a \in Nat /\ e \in Nat /\ a < e /\ at[k] \in Nat /\ at[k] <= Len(bytes) /\ LinesAt(bytes, a, f, s.crlf)
      /\ at[k] = e + w
  BY <1>1, <1>2, Zenon DEF EventAt
<1>4. bytes \in Seq(Symbols) /\ Len(bytes) \in Nat
  BY DEF StreamAt
<1>5. StartsOf(s, at)[k - 1] = a /\ StopsOf(s, at)[k] = at[k] - w
  <2>1. k - 1 \in 0..Whole(s)
    BY <1>1
  <2> QED
    BY <2>1 DEF StartsOf, StopsOf
<1> DEFINE m == e - 1
<1>6. m \in Nat /\ m <= Len(bytes) /\ (at[k] - w) - 1 = m
  <2>1. w \in Nat
    OBVIOUS
  <2> HIDE DEF e, a, w
  <2> QED
    BY <1>3, <1>4, <2>1
<1>7. m = a + Before(s.crlf, Len(f) + 1) - (IF s.crlf THEN 2 ELSE 1)
  <2> DEFINE l == Before(s.crlf, Len(f) + 1)
             v == IF s.crlf THEN 1 ELSE 0
             u == IF s.crlf THEN 2 ELSE 1
  <2>1. l \in Nat
    <3>1. Len(f) \in Nat
      BY <1>1
    <3> QED
      BY <3>1 DEF Before
  <2>2. a \in Nat
    BY <1>3
  <2>3. v \in Nat /\ u = v + 1
    OBVIOUS
  <2>4. m = (a + (l - v)) - 1
    BY Zenon
  <2> HIDE DEF l, a, u, v, m
  <2>5. m = a + l - u
    BY <2>1, <2>2, <2>3, <2>4
  <2> QED
    BY <2>5, Zenon DEF l, u
<1> HIDE DEF m
<1>8. dataLines(SubSeq(bytes, a + 1, m)) = f
  <2> HIDE DEF a, f
  <2> QED
    BY <1>1, <1>3, <1>4, <1>6, <1>7, DataIs, SMTT(40)
<1>9. EventOf(bytes, StartsOf(s, at), StopsOf(s, at), k) = SubSeq(bytes, a + 1, m)
  <2> HIDE DEF a, w, e
  <2> QED
    BY <1>5, <1>6, Zenon DEF EventOf
<1> QED
  BY <1>8, <1>9

\* Theorem step: what is counted of a stream, however it was cut.
LEMMA ChunkingIgnored == MeteringInput => CountIgnoresChunking
<1> SUFFICES ASSUME MeteringInput, part = "stream" PROVE CountIgnoresChunking
  BY Zenon DEF CountIgnoresChunking
<1> DEFINE s == input
           bytes == StreamedBytes(s)
           resp == [status |-> 200, type |-> "stream", cuts |-> s.cuts]
           n == Whole(s)
           seen == [k \in 1..n |-> extractUsage(s.frames[k])]
           P == [k \in 1..n |-> seen[k].prompt]
           C == [k \in 1..n |-> seen[k].completion]
           last(f) == LET ks == {k \in DOMAIN f : f[k] > 0} IN IF ks = {} THEN 0 ELSE f[Max(ks)]
<1>1. s \in Streams /\ s.frames # <<>>
  BY Zenon DEF MeteringInput, Streams
<1>2. PICK at : StreamAt(s, bytes, at)
  BY <1>1, StreamIs
<1> DEFINE B == StartsOf(s, at)
           E == StopsOf(s, at)
<1>3. Framed(bytes, n, B, E) /\ bytes \in Seq(Symbols)
  <2>1. bytes \in Seq(Symbols)
    BY <1>2, Zenon DEF StreamAt
  <2> HIDE DEF s, bytes
  <2> QED
    BY <1>1, <1>2, <2>1, StreamFramed
<1>4. Reported(bytes, n, B, E) = seen
  <2> HIDE DEF s, bytes
  <2> QED
    BY <1>1, <1>2, ReportedIs
<1>5. s.cuts \in Cuts
  BY <1>1 DEF Streams
<1>6. Proxied(resp, bytes) = Reading(bytes, n, B, E, n, Len(bytes))
  <2> HIDE DEF s, bytes, n, B, E
  <2> QED
    BY <1>3, <1>5, StreamRead
<1>7. Completions(bytes, n, B, E) = C /\ Prompts(bytes, n, B, E) = P
  <2> HIDE DEF s, bytes, n, B, E, seen
  <2> QED
    BY <1>4, Zenon DEF Completions, Prompts
<1>8. last(P) = LastOf(P, n) /\ last(C) = LastOf(C, n)
  <2>1. DOMAIN P = 1..n /\ DOMAIN C = 1..n
    OBVIOUS
  <2> HIDE DEF P, C, n
  <2> QED
    BY <2>1, Zenon DEF LastOf
<1>9. Proxied(resp, bytes) = [mode |-> "stream", buf |-> SubSeq(bytes, B[n] + 1, Len(bytes)),
                              tokens |-> LastOf(C, n), promptTokens |-> LastOf(P, n)]
  <2> HIDE DEF s, bytes, n, B, E, seen, P, C
  <2> QED
    BY <1>6, <1>7, Zenon DEF Reading
<1>10. usageOf(Proxied(resp, bytes)) = [prompt |-> LastOf(P, n), completion |-> LastOf(C, n)]
  <2> DEFINE w == Proxied(resp, bytes)
             x == SubSeq(bytes, B[n] + 1, Len(bytes))
             c == LastOf(C, n)
             p == LastOf(P, n)
  <2>1. w = [mode |-> "stream", buf |-> x, tokens |-> c, promptTokens |-> p]
    BY <1>9, Zenon
  <2> HIDE DEF w, x, c, p
  <2>2. w.mode # "json" /\ w.tokens = c /\ w.promptTokens = p
    BY <2>1
  <2>3. usageOf(w) = [prompt |-> p, completion |-> c]
    BY <2>2, Zenon DEF usageOf
  <2> QED
    BY <2>3 DEF w, p, c
<1>11. usageOf(Proxied(resp, bytes)) = [prompt |-> last(P), completion |-> last(C)]
  <2> HIDE DEF s, bytes, n, B, E, seen, P, C, resp, last
  <2> QED
    BY <1>8, <1>10, Zenon
<1> QED
  BY <1>11, Zenon DEF CountIgnoresChunking, Whole

\* Text without the ends of lines has no event in it.
LEMMA NoEvents ==
    ASSUME NEW buf \in Seq(Text)
    PROVE  findEventTerminator(buf) = 0
<1>1. buf \in Seq(Symbols)
  <2>1. Text \in SUBSET Symbols
    BY DEF Text, Symbols
  <2> QED
    BY <2>1
<1>2. \A j : ~EndsLF(buf, j) /\ ~EndsCRLF(buf, j)
  <2> SUFFICES ASSUME NEW j, EndsLF(buf, j) \/ EndsCRLF(buf, j) PROVE FALSE
    OBVIOUS
  <2>1. j \in Int /\ j >= 1 /\ j <= Len(buf) /\ (buf[j] = "n" \/ buf[j] = "r")
    BY DEF EndsLF, EndsCRLF
  <2>2. buf[j] \in Text
    BY <2>1
  <2> QED
    BY <2>1, <2>2, Zenon DEF Text
<1>3. Ends(buf) = {}
  BY <1>1, <1>2, EndsAre
<1> QED
  BY <1>1, <1>3, FindIs

\* The writer of a body keeps some of the symbols of the body, in order or not,
\* and counts nothing on the way.
Holding(mode, T) == {w \in [mode : {mode}, buf : Seq(T), tokens : {0}, promptTokens : {0}] : TRUE}

LEMMA HeldIs ==
    ASSUME NEW mode, NEW T, NEW w
    PROVE  w \in Holding(mode, T) <=> \E buf \in Seq(T) : w = [mode |-> mode, buf |-> buf, tokens |-> 0, promptTokens |-> 0]
<1>1. ASSUME w \in Holding(mode, T) PROVE \E buf \in Seq(T) : w = [mode |-> mode, buf |-> buf, tokens |-> 0, promptTokens |-> 0]
  <2>1. w.buf \in Seq(T) /\ w.mode = mode /\ w.tokens = 0 /\ w.promptTokens = 0
    BY <1>1 DEF Holding
  <2>2. w = [mode |-> w.mode, buf |-> w.buf, tokens |-> w.tokens, promptTokens |-> w.promptTokens]
    BY <1>1 DEF Holding
  <2> QED
    BY <2>1, <2>2, Zenon
<1>2. ASSUME NEW buf \in Seq(T), w = [mode |-> mode, buf |-> buf, tokens |-> 0, promptTokens |-> 0] PROVE w \in Holding(mode, T)
  BY <1>2 DEF Holding
<1> QED
  BY <1>1, <1>2

LEMMA BodyHeld ==
    ASSUME NEW T \in SUBSET Text, NEW body \in Seq(T), NEW resp, resp.cuts \in Cuts
    PROVE  Proxied(resp, body) \in Holding(IF resp.status >= 400 THEN "none" ELSE resp.type, T)
<1> DEFINE mode == IF resp.status >= 400 THEN "none" ELSE resp.type
           q == Len(CutsOf(resp, body)) + 1
           H == Holding(mode, T)
           S == [k \in 0..q |-> H]
<1>1. /\ q \in Nat \ {0}
      /\ \A k \in 0..q : CutAt(resp, body, k) \in 0..Len(body)
      /\ \A k \in 1..q : CutAt(resp, body, k - 1) <= CutAt(resp, body, k)
  BY CutsReach
<1> HIDE DEF mode, H, q
<1>2. WriteHeader(resp) \in H
  <2>1. WriteHeader(resp) = [mode |-> mode, buf |-> <<>>, tokens |-> 0, promptTokens |-> 0]
    BY Zenon DEF WriteHeader, mode
  <2>2. <<>> \in Seq(T)
    OBVIOUS
  <2> QED
    BY <2>1, <2>2, HeldIs, Zenon DEF H
<1>3. ASSUME NEW w \in H, NEW p \in Seq(T) PROVE WriteChunk(w, p) \in H
  <2>1. PICK buf \in Seq(T) : w = [mode |-> mode, buf |-> buf, tokens |-> 0, promptTokens |-> 0]
    BY HeldIs DEF H
  <2> DEFINE more == buf \o p
             v == [w EXCEPT !.buf = more]
  <2>2. more \in Seq(T) /\ w.buf = buf /\ w.mode = mode
    <3>1. more \in Seq(T)
      BY ConcatProperties, Zenon
    <3> HIDE DEF more
    <3> QED
      BY <2>1, <3>1
  <2>3. v = [mode |-> mode, buf |-> more, tokens |-> 0, promptTokens |-> 0]
    <3> HIDE DEF more
    <3> QED
      BY <2>1
  <2>4. v \in H /\ v.buf = more
    <3> HIDE DEF v, more
    <3>1. v.buf = more
      BY <2>3
    <3>2. v \in H
      BY <2>2, <2>3, HeldIs, Zenon DEF H
    <3> QED
      BY <3>1, <3>2
  <2>5. parseSSEBuffer(v) = v
    <3>1. v.buf \in Seq(Text)
      <4> HIDE DEF v, more
      <4>1. more \in Seq(Text)
        BY <2>2
      <4> QED
        BY <2>4, <4>1
    <3> HIDE DEF v
    <3>2. nextEvent(v) = v
      <4>1. findEventTerminator(v.buf) = 0
        BY <3>1, NoEvents
      <4> QED
        BY <4>1, Zenon DEF nextEvent
    <3> DEFINE l == Len(v.buf)
               R == [k \in 0..l |-> {v}]
    <3>3. l \in Nat
      BY <3>1
    <3> HIDE DEF l
    <3>4. \A k \in 0..l : R[k] = {v}
      OBVIOUS
    <3>5. v \in R[0]
      BY <3>3
    <3>6. \A k \in 1..l : \A y \in R[k - 1] : nextEvent(y) \in R[k]
      <4> SUFFICES ASSUME NEW k \in 1..l, NEW y \in R[k - 1] PROVE nextEvent(y) \in R[k]
        OBVIOUS
      <4>1. k - 1 \in 0..l /\ k \in 0..l
        BY <3>3
      <4> HIDE DEF R
      <4> QED
        BY <3>2, <3>4, <4>1
    <3> HIDE DEF R
    <3>7. RoundsOf(v, R)
      BY <3>3, <3>5, <3>6, RoundsAre DEF l
    <3>8. l \in 0..l
      BY <3>3
    <3>9. rounds(v)[l] \in R[l]
      BY <3>7, <3>8 DEF RoundsOf, l
    <3>10. rounds(v)[l] = v
      BY <3>4, <3>8, <3>9
    <3> QED
      BY <3>10 DEF parseSSEBuffer, l
  <2>6. WriteChunk(w, p) = parseSSEBuffer(v) \/ WriteChunk(w, p) = v \/ WriteChunk(w, p) = w
    BY <2>2, Zenon DEF WriteChunk
  <2> QED
    BY <2>4, <2>5, <2>6, Zenon
<1>4. ASSUME NEW k \in 1..q PROVE ChunkOf(resp, body, k) \in Seq(T)
  <2> DEFINE a == CutAt(resp, body, k - 1)
             m == CutAt(resp, body, k)
  <2>1. a \in Nat /\ m \in Nat /\ a <= m /\ m <= Len(body)
    <3>1. k - 1 \in 0..q /\ k \in 0..q
      BY <1>1
    <3> QED
      BY <1>1, <3>1
  <2> HIDE DEF a, m
  <2>2. SubSeq(body, a + 1, m) \in Seq(T)
    BY <2>1, PieceIs
  <2> QED
    BY <2>2, Zenon DEF ChunkOf, a, m
<1>5. \A k \in 0..q : S[k] = H
  OBVIOUS
<1> HIDE DEF S
<1>6. \A k \in 1..q : \A y \in S[k - 1] : WriteChunk(y, ChunkOf(resp, body, k)) \in S[k]
  <2> SUFFICES ASSUME NEW k \in 1..q, NEW y \in S[k - 1] PROVE WriteChunk(y, ChunkOf(resp, body, k)) \in S[k]
    OBVIOUS
  <2>1. k - 1 \in 0..q /\ k \in 0..q
    BY <1>1
  <2>2. y \in H /\ S[k] = H
    BY <1>5, <2>1
  <2> QED
    BY <1>3, <1>4, <2>2
<1>7. WriteHeader(resp) \in S[0]
  <2>1. 0 \in 0..q
    BY <1>1
  <2> QED
    BY <1>2, <1>5, <2>1
<1>8. Proxied(resp, body) \in S[q]
  BY <1>6, <1>7, ProxiedIs DEF q
<1>9. q \in 0..q
  BY <1>1
<1>10. Proxied(resp, body) \in H
  BY <1>5, <1>8, <1>9
<1> QED
  BY <1>10 DEF H, mode

\* What a list of symbols reports: nothing, or what one of its symbols does.
LEMMA UsageOfBody ==
    ASSUME NEW T, NEW buf \in Seq(T)
    PROVE  \/ extractUsage(buf) = noUsage
           \/ \E p \in T : p \in DOMAIN usageBlocks /\ extractUsage(buf) = usageBlocks[p]
<1> DEFINE text == Keep(buf, LAMBDA c : c # "space")
<1>1. text \in Seq(T)
  <2> DEFINE places == {i \in DOMAIN buf : buf[i] # "space"}
  <2>1. text = Picked(buf, places)
    BY Zenon DEF Keep
  <2>2. places \in SUBSET (DOMAIN buf)
    OBVIOUS
  <2> HIDE DEF text, places
  <2> QED
    BY <2>1, <2>2, PickedIs, Zenon
<1>2. CASE text = <<"half", "rest">>
  <2>1. "rest" \in T
    <3> HIDE DEF text
    <3>1. text[2] = "rest" /\ 2 \in 1..Len(text)
      BY <1>2
    <3> QED
      BY <1>1, <3>1
  <2>2. extractUsage(buf) = usageBlocks.rest
    BY <1>2, Zenon DEF extractUsage
  <2>3. "rest" \in DOMAIN usageBlocks /\ usageBlocks.rest = usageBlocks["rest"]
    BY DEF usageBlocks
  <2> QED
    BY <2>1, <2>2, <2>3, Zenon
<1>3. CASE text # <<"half", "rest">> /\ Len(text) = 1 /\ text[1] \in DOMAIN usageBlocks \ {"rest"}
  <2>1. text[1] \in T
    <3>1. text \in Seq(T) /\ Len(text) = 1
      BY <1>1, <1>3, Zenon
    <3> HIDE DEF text
    <3> QED
      BY <3>1
  <2>2. extractUsage(buf) = usageBlocks[text[1]]
    BY <1>3, Zenon DEF extractUsage
  <2> QED
    BY <2>1, <2>2, <1>3, Zenon
<1>4. CASE text # <<"half", "rest">> /\ ~(Len(text) = 1 /\ text[1] \in DOMAIN usageBlocks \ {"rest"})
  BY <1>4, Zenon DEF extractUsage
<1> QED
  BY <1>2, <1>3, <1>4, Zenon

\* A length is counted as short when one was reported and it is.
LEMMA BandIs ==
    ASSUME NEW x \in Nat
    PROVE  contextBucket(x) = "512" <=> x \in 1..512
<1>1. "unknown" # "512" /\ "2k" # "512"
  OBVIOUS
<1>2. CASE x <= 0
  <2>1. x \notin 1..512
    BY <1>2
  <2> QED
    BY <1>1, <1>2, <2>1, Zenon DEF contextBucket
<1>3. CASE ~(x <= 0) /\ x <= 512
  <2>1. x \in 1..512
    BY <1>3
  <2> QED
    BY <1>3, <2>1, Zenon DEF contextBucket
<1>4. CASE ~(x <= 0) /\ ~(x <= 512)
  <2>1. x \notin 1..512
    BY <1>4
  <2> QED
    BY <1>1, <1>4, <2>1, Zenon DEF contextBucket
<1> QED
  BY <1>2, <1>3, <1>4, Zenon

\* Theorem step: what is recorded of a body is what a symbol of it reports.
LEMMA RecordingHonest == MeteringInput => RecordedIsReported
<1> DEFINE resp == [status |-> input.status, type |-> input.type, cuts |-> input.cuts]
           body == input.body
           T == {body[i] : i \in DOMAIN body}
           w == Proxied(resp, body)
           mode == IF resp.status >= 400 THEN "none" ELSE resp.type
           got == RecordRouterTokens(w)
<1> SUFFICES ASSUME MeteringInput, part = "body", got # <<>>
             PROVE  /\ input.status < 400
                    /\ \E i \in DOMAIN body : /\ body[i] \in DOMAIN usageBlocks
                                              /\ got[1] = usageBlocks[body[i]].completion
                                              /\ (got[2] = "512") <=> (usageBlocks[body[i]].prompt \in 1..512)
  BY Zenon DEF RecordedIsReported
<1>1. /\ input.status \in Nat /\ input.cuts \in Cuts /\ body \in Seq(Text)
      /\ resp.status = input.status /\ resp.type = input.type /\ resp.cuts = input.cuts
  BY DEF MeteringInput
<1>2. T \in SUBSET Text /\ body \in Seq(T)
  <2> HIDE DEF body
  <2> QED
    BY <1>1
<1>3. w \in Holding(mode, T)
  <2>1. resp.cuts \in Cuts
    BY <1>1
  <2> HIDE DEF resp, body, T
  <2> QED
    BY <1>2, <2>1, BodyHeld, Zenon
<1> HIDE DEF w, mode, T
<1>4. PICK buf \in Seq(T) : w = [mode |-> mode, buf |-> buf, tokens |-> 0, promptTokens |-> 0]
  BY <1>3, HeldIs, Zenon
<1> DEFINE u == usageOf(w)
<1>5. w.mode = mode /\ w.buf = buf /\ w.tokens = 0 /\ w.promptTokens = 0
  BY <1>4
<1>6. u.completion > 0 /\ got = <<u.completion, contextBucket(u.prompt)>>
  <2>1. got = IF u.completion > 0 THEN <<u.completion, contextBucket(u.prompt)>> ELSE <<>>
    BY Zenon DEF RecordRouterTokens
  <2> HIDE DEF got, u
  <2> QED
    BY <2>1, Zenon
<1>7. mode = "json" /\ u = extractUsage(buf)
  <2>1. CASE mode = "json"
    BY <1>5, <2>1, Zenon DEF usageOf
  <2>2. CASE mode # "json"
    <3>1. u = [prompt |-> 0, completion |-> 0]
      BY <1>5, <2>2, Zenon DEF usageOf
    <3> HIDE DEF u
    <3>2. u.completion = 0
      BY <3>1
    <3> QED
      BY <1>6, <3>2
  <2> QED
    BY <2>1, <2>2, Zenon
<1>8. input.status < 400
  BY <1>1, <1>7 DEF mode
<1> HIDE DEF u, got, body
<1>9. PICK p \in T : p \in DOMAIN usageBlocks /\ u = usageBlocks[p]
  <2>1. u # noUsage
    BY <1>6 DEF noUsage
  <2> QED
    BY <1>7, <2>1, UsageOfBody, Zenon
<1>10. u.prompt \in Nat
  BY <1>9 DEF usageBlocks
<1>11. got[1] = u.completion /\ got[2] = contextBucket(u.prompt)
  BY <1>6
<1>12. (got[2] = "512") <=> (u.prompt \in 1..512)
  BY <1>10, <1>11, BandIs, ZenonT(40)
<1>13. PICK i \in DOMAIN body : p = body[i]
  BY <1>9, Zenon DEF T
<1> QED
  BY <1>8, <1>9, <1>11, <1>12, <1>13, Zenon

\* What is counted is what happened (TokenCountingWriter, the cost collector
\* and the bill): the tokens of a response do not depend on how it was cut, the
\* counters never run back, and the bill covers the rental.
THEOREM MeteringCorrect == BillingInput /\ MeteringInput => MeteringSound
<1> SUFFICES ASSUME BillingInput, MeteringInput PROVE MeteringSound
  OBVIOUS
<1>1. CountIgnoresChunking
  BY ChunkingIgnored
<1>2. RecordedIsReported
  BY RecordingHonest
<1>3. BillingSound
  BY BillingCorrect
<1> QED
  BY <1>1, <1>2, <1>3, Zenon DEF MeteringSound

=============================================================================
