------------------------------- MODULE Lists --------------------------------
(***************************************************************************)
(* Lists as the program builds them: some elements of a list, a list in    *)
(* another order, several lists one after the other.  Each is given by the *)
(* set of its places and the order they come in, without recursion, so     *)
(* that the theorems about the parts that search and sort can use it.      *)
(***************************************************************************)
EXTENDS Integers, Sequences, FiniteSets

\* The members of a finite set in the order R, a strict total order on it.
Listed(S, R) ==
    [k \in 1..Cardinality(S) |-> CHOOSE x \in S : Cardinality({y \in S : <<y, x>> \in R}) = k - 1]

\* The pairs of numbers in order.
Ascending(S) == {p \in S \X S : p[1] < p[2]}

\* The elements of s at the places of a list of places.
At(s, places) == [k \in DOMAIN places |-> s[places[k]]]

\* The elements of s at a set of places, in the order of s.
Picked(s, P) == At(s, Listed(P, Ascending(P)))

\* The elements of s that pass the test.
Keep(s, Test(_)) == Picked(s, {i \in DOMAIN s : Test(s[i])})

\* The places of several lists: a list and a place in it.
Places(ss) == UNION {{i} \X (DOMAIN ss[i]) : i \in DOMAIN ss}

\* The lists of ss, one after the other.
Joined(ss) ==
    LET before == {p \in Places(ss) \X Places(ss) : \/ p[1][1] < p[2][1]
                                                    \/ p[1][1] = p[2][1] /\ p[1][2] < p[2][2]}
        at == Listed(Places(ss), before)
    IN  [k \in DOMAIN at |-> ss[at[k][1]][at[k][2]]]

=============================================================================
