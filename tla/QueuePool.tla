----------------------------- MODULE QueuePool -----------------------------
(***************************************************************************)
(* The worker pool of internal/stores/queue/pool.go over the in-memory     *)
(* bounded queue of inmem/inmem.go: servicers that block in Pop on a       *)
(* condition variable, a Signal per Push, a Broadcast on Close, and a      *)
(* watcher goroutine per Pop that broadcasts when the context ends.        *)
(*                                                                         *)
(* A step is what happens under the queue's mutex.  Wait joins the sleepers *)
(* before it releases the mutex; a woken servicer has to get the mutex     *)
(* again and finds the queue as it is then.                                *)
(***************************************************************************)
EXTENDS Naturals, Sequences, FiniteSets

CONSTANTS
    Items,      \* work items: each is submitted anew once it was handled
    Servicers,  \* pool goroutines
    Capacity    \* queue capacity

\* NewPool refuses a pool of no servicers.
ASSUME QueuePoolAssumption ==
    /\ Capacity \in Nat \ {0}
    /\ IsFiniteSet(Servicers)
    /\ Servicers # {}

VARIABLES
    items,      \* the queued items, oldest first
    closed,     \* Queue.closed
    cancelled,  \* the pool's root context is cancelled
    servicer,   \* where each servicer is
    watching,   \* servicers whose Pop has a watcher goroutine
    handling,   \* servicer -> the item its handler has, as a set of at most one
    started,    \* Start was called
    stop        \* progress of Stop: "no", "closed", "waiting", "stopped"

vars == <<items, closed, cancelled, servicer, watching, handling, started, stop>>

\* "off": not spawned.  "lock": in Pop, about to take the mutex and look.
\* "asleep": in Wait.  "handle": in the handler.
ServicerPc == {"off", "enter", "lock", "asleep", "handle", "exited"}

Asleep == {s \in Servicers : servicer[s] = "asleep"}

Busy == UNION {handling[s] : s \in Servicers}

Queued == {items[k] : k \in 1 .. Len(items)}

Init ==
    /\ items = <<>>
    /\ closed = FALSE
    /\ cancelled = FALSE
    /\ servicer = [s \in Servicers |-> "off"]
    /\ watching = {}
    /\ handling = [s \in Servicers |-> {}]
    /\ started = FALSE
    /\ stop = "no"

Start ==
    /\ ~started
    /\ started' = TRUE
    /\ servicer' = [s \in Servicers |-> "enter"]
    /\ UNCHANGED <<items, closed, cancelled, watching, handling, stop>>

\* Signal wakes one sleeper, Broadcast all of them.
WakeOne ==
    IF Asleep = {} THEN UNCHANGED servicer
    ELSE \E s \in Asleep : servicer' = [servicer EXCEPT ![s] = "lock"]

WakeAll ==
    servicer' = [s \in Servicers |-> IF s \in Asleep THEN "lock" ELSE servicer[s]]

\* Mutant: Push wakes nobody.
Push_Silent(i) ==
    /\ i \notin Queued \cup Busy
    /\ ~closed
    /\ Len(items) < Capacity
    /\ items' = Append(items, i)
    /\ UNCHANGED <<closed, cancelled, servicer, watching, handling, started, stop>>

\* Submit: refused (without effect) when the queue is closed or full.
Push(i) ==
    /\ i \notin Queued \cup Busy
    /\ ~closed
    /\ Len(items) < Capacity
    /\ items' = Append(items, i)
    /\ WakeOne
    /\ UNCHANGED <<closed, cancelled, watching, handling, started, stop>>

\* servicerLoop calls Pop, which spawns its watcher.
PopEnter(s) ==
    /\ servicer[s] = "enter"
    /\ servicer' = [servicer EXCEPT ![s] = "lock"]
    /\ watching' = watching \cup {s}
    /\ UNCHANGED <<items, closed, cancelled, handling, started, stop>>

\* Pop returns: its watcher ends too, unless the context is over and the
\* watcher picks that branch of its select.
EndWatch(s) ==
    \/ watching' = watching \ {s}
    \/ cancelled /\ UNCHANGED watching

\* Mutant: Pop takes the newest item.
PopItem_Newest(s) ==
    /\ servicer[s] = "lock"
    /\ items # <<>>
    /\ items' = SubSeq(items, 1, Len(items) - 1)
    /\ handling' = [handling EXCEPT ![s] = {items[Len(items)]}]
    /\ servicer' = [servicer EXCEPT ![s] = "handle"]
    /\ EndWatch(s)
    /\ UNCHANGED <<closed, cancelled, started, stop>>

\* Pop finds an item.
PopItem(s) ==
    /\ servicer[s] = "lock"
    /\ items # <<>>
    /\ items' = Tail(items)
    /\ handling' = [handling EXCEPT ![s] = {Head(items)}]
    /\ servicer' = [servicer EXCEPT ![s] = "handle"]
    /\ EndWatch(s)
    /\ UNCHANGED <<closed, cancelled, started, stop>>

\* Mutant: Pop looks at the context first.
PopEnd_ContextFirst(s) ==
    /\ servicer[s] = "lock"
    /\ cancelled \/ (items = <<>> /\ closed)
    /\ servicer' = [servicer EXCEPT ![s] = "exited"]
    /\ EndWatch(s)
    /\ UNCHANGED <<items, closed, cancelled, handling, started, stop>>

\* Pop finds the queue drained and closed, or the context over.
PopEnd(s) ==
    /\ servicer[s] = "lock"
    /\ items = <<>>
    /\ closed \/ cancelled
    /\ servicer' = [servicer EXCEPT ![s] = "exited"]
    /\ EndWatch(s)
    /\ UNCHANGED <<items, closed, cancelled, handling, started, stop>>

\* Pop has to wait.
PopWait(s) ==
    /\ servicer[s] = "lock"
    /\ items = <<>>
    /\ ~closed
    /\ ~cancelled
    /\ servicer' = [servicer EXCEPT ![s] = "asleep"]
    /\ UNCHANGED <<items, closed, cancelled, watching, handling, started, stop>>

\* The handler returns.
Handled(s) ==
    /\ servicer[s] = "handle"
    /\ handling' = [handling EXCEPT ![s] = {}]
    /\ servicer' = [servicer EXCEPT ![s] = "enter"]
    /\ UNCHANGED <<items, closed, cancelled, watching, started, stop>>

\* The watcher of a Pop sees the context end.
WatcherWakes(s) ==
    /\ s \in watching
    /\ cancelled
    /\ watching' = watching \ {s}
    /\ WakeAll
    /\ UNCHANGED <<items, closed, cancelled, handling, started, stop>>

\* Stop: close the queue, cancel the context, wait for the servicers.  Before
\* Start it does nothing.
Close ==
    /\ started
    /\ stop = "no"
    /\ closed' = TRUE
    /\ WakeAll
    /\ stop' = "closed"
    /\ UNCHANGED <<items, cancelled, watching, handling, started>>

rootCancel ==
    /\ stop = "closed"
    /\ cancelled' = TRUE
    /\ stop' = "waiting"
    /\ UNCHANGED <<items, closed, servicer, watching, handling, started>>

StopReturn ==
    /\ stop = "waiting"
    /\ \A s \in Servicers : servicer[s] = "exited"
    /\ stop' = "stopped"
    /\ UNCHANGED <<items, closed, cancelled, servicer, watching, handling, started>>

ServicerStep(s) ==
    \/ PopEnter(s)
    \/ PopItem(s)
    \/ PopEnd(s)
    \/ PopWait(s)
    \/ Handled(s)
    \/ WatcherWakes(s)

Next ==
    \/ Start
    \/ \E i \in Items : Push(i)
    \/ \E s \in Servicers : ServicerStep(s)
    \/ Close
    \/ rootCancel
    \/ StopReturn

Spec == Init /\ [][Next]_vars

\* The pool is started, goroutines run and handlers return.
FairSpec ==
    /\ Spec
    /\ WF_vars(Start)
    /\ \A s \in Servicers : WF_vars(ServicerStep(s))
    /\ WF_vars(rootCancel)
    /\ WF_vars(StopReturn)

-----------------------------------------------------------------------------
(* Properties *)

\* Type correctness.
TypeOK ==
    /\ items \in Seq(Items)
    /\ closed \in BOOLEAN
    /\ cancelled \in BOOLEAN
    /\ servicer \in [Servicers -> ServicerPc]
    /\ watching \in SUBSET Servicers
    /\ handling \in [Servicers -> SUBSET Items]
    /\ started \in BOOLEAN
    /\ stop \in {"no", "closed", "waiting", "stopped"}

\* No lost wake-up: as long as a servicer sleeps, every queued item has an
\* awake servicer of its own on the way to the queue, so no item waits for the
\* next Push to be noticed.
NoLostWakeup ==
    Asleep # {} =>
        /\ Len(items) <= Cardinality({s \in Servicers : servicer[s] = "lock"})
        /\ ~closed

\* Stop drains: when it returns, nothing that was accepted is left behind.
StopDrains == stop = "stopped" => items = <<>> /\ Busy = {}

\* The pool with its one Signal per Push leaves no item beside a sleeping
\* servicer, and none behind a Stop that returned.
PoolSafe == TypeOK /\ NoLostWakeup /\ StopDrains

\* An accepted item is handled, through a shutdown too.
EveryItemHandled ==
    \A i \in Items : i \in Queued ~> i \in Busy

\* One line of the abstract backlog.
B == INSTANCE Backlog WITH
        Classes <- {"pool"},
        ClassOf <- [i \in Items |-> "pool"],
        Room    <- [c \in {"pool"} |-> Capacity],
        line    <- [c \in {"pool"} |-> items],
        serving <- Busy

\* The pool with its condition variable implements a bounded backlog: items
\* are taken up oldest first and once.
ImplementsBacklog == B!Spec

=============================================================================
