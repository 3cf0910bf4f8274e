------------------------------ MODULE Backlog ------------------------------
(***************************************************************************)
(* What a bounded work queue promises its submitters: an accepted item     *)
(* waits in the line of its class, a line has room for so many items and   *)
(* is served oldest first, and an accepted item is taken up exactly once.  *)
(* The scheduler (one line per lane and tenant) and the worker pool (one   *)
(* line) are shown to implement it.                                        *)
(***************************************************************************)
EXTENDS Naturals, Sequences

CONSTANTS
    Items,
    Classes,
    ClassOf,    \* item -> the class whose line it joins
    Room        \* class -> how many may wait

VARIABLES
    line,       \* class -> waiting items, oldest first
    serving     \* items taken up and not finished

vars == <<line, serving>>

IsWaiting(i) ==
    LET q == line[ClassOf[i]] IN \E k \in 1 .. Len(q) : q[k] = i

Init ==
    /\ line = [c \in Classes |-> <<>>]
    /\ serving = {}

Accept(i) ==
    LET c == ClassOf[i] IN
    /\ ~IsWaiting(i)
    /\ i \notin serving
    /\ Len(line[c]) < Room[c]
    /\ line' = [line EXCEPT ![c] = Append(@, i)]
    /\ UNCHANGED serving

TakeUp(c) ==
    /\ line[c] # <<>>
    /\ line' = [line EXCEPT ![c] = Tail(@)]
    /\ serving' = serving \cup {Head(line[c])}

Finish(i) ==
    /\ i \in serving
    /\ serving' = serving \ {i}
    /\ UNCHANGED line

Next ==
    \/ \E i \in Items : Accept(i) \/ Finish(i)
    \/ \E c \in Classes : TakeUp(c)

Spec == Init /\ [][Next]_vars

=============================================================================
