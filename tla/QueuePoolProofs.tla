-------------------------- MODULE QueuePoolProofs --------------------------
(***************************************************************************)
(* Proofs about QueuePool, for any number of items and servicers and any   *)
(* capacity: no lost wake-up, a Stop that drains, and the refinement of    *)
(* the abstract backlog.                                                   *)
(***************************************************************************)
EXTENDS QueuePool, FiniteSetTheorems, TLAPS

Looking == {s \in Servicers : servicer[s] = "lock"}

\* Where servicers can be as the pool starts and stops.
Shutdown ==
    /\ ~started => servicer = [s \in Servicers |-> "off"]
    /\ stop # "no" => started /\ closed
    /\ cancelled => closed
    /\ \A s \in Servicers : servicer[s] = "exited" => closed /\ items = <<>>
    /\ stop = "stopped" => \A s \in Servicers : servicer[s] = "exited"

\* Every item is in one place: one position of the queue or one handler.
OnePlace ==
    /\ \A s \in Servicers :
          IF servicer[s] = "handle" THEN \E i \in Items : handling[s] = {i}
          ELSE handling[s] = {}
    /\ \A s, t \in Servicers : \A i \in handling[s] \cap handling[t] : s = t
    /\ \A j, k \in 1 .. Len(items) : items[j] = items[k] => j = k
    /\ \A k \in 1 .. Len(items) : \A s \in Servicers : items[k] \notin handling[s]

PoolInv == TypeOK /\ NoLostWakeup /\ Shutdown /\ OnePlace

-----------------------------------------------------------------------------
(* Type correctness *)

\* Signal and Broadcast leave every servicer at some point of its loop.
LEMMA WakeTyped ==
    ASSUME TypeOK, WakeOne \/ WakeAll
    PROVE  servicer' \in [Servicers -> ServicerPc]
  BY DEF TypeOK, WakeOne, WakeAll, ServicerPc, Asleep

\* Every step of the pool keeps the types.
LEMMA TypeStep ==
    ASSUME TypeOK, [Next]_vars
    PROVE  TypeOK'
<1> USE DEF TypeOK, ServicerPc
<1>1. CASE Start
  BY <1>1 DEF Start
<1>2. ASSUME NEW i \in Items, Push(i)
      PROVE  TypeOK'
  BY <1>2, WakeTyped DEF Push
<1>3. ASSUME NEW s \in Servicers, PopEnter(s)
      PROVE  TypeOK'
  BY <1>3 DEF PopEnter
<1>4. ASSUME NEW s \in Servicers, PopItem(s)
      PROVE  TypeOK'
  BY <1>4 DEF PopItem, EndWatch
<1>5. ASSUME NEW s \in Servicers, PopEnd(s)
      PROVE  TypeOK'
  BY <1>5 DEF PopEnd, EndWatch
<1>6. ASSUME NEW s \in Servicers, PopWait(s)
      PROVE  TypeOK'
  BY <1>6 DEF PopWait
<1>7. ASSUME NEW s \in Servicers, Handled(s)
      PROVE  TypeOK'
  BY <1>7 DEF Handled
<1>8. ASSUME NEW s \in Servicers, WatcherWakes(s)
      PROVE  TypeOK'
  BY <1>8, WakeTyped DEF WatcherWakes
<1>9. CASE Close
  BY <1>9, WakeTyped DEF Close
<1>10. CASE rootCancel
  BY <1>10 DEF rootCancel
<1>11. CASE StopReturn
  BY <1>11 DEF StopReturn
<1>12. CASE UNCHANGED vars
  BY <1>12 DEF vars
<1>13. QED
  BY <1>1, <1>2, <1>3, <1>4, <1>5, <1>6, <1>7, <1>8, <1>9, <1>10, <1>11, <1>12
     DEF Next, ServicerStep

-----------------------------------------------------------------------------
(* No lost wake-up *)

\* Looking is a finite set, so its cardinality is a number.
LEMMA LookingFinite ==
    /\ IsFiniteSet(Looking)
    /\ Cardinality(Looking) \in Nat
<1>1. Looking \in SUBSET Servicers
  BY DEF Looking
<1>2. QED
  BY <1>1, QueuePoolAssumption, FS_Subset, FS_CardinalityType

\* One servicer more at the queue, one fewer, and none fewer.
LEMMA LookingCounts ==
    /\ \A s \in Servicers \ Looking :
          Cardinality(Looking \cup {s}) = Cardinality(Looking) + 1
    /\ \A s \in Looking : Cardinality(Looking \ {s}) = Cardinality(Looking) - 1
  BY LookingFinite, FS_AddElement, FS_RemoveElement

\* Every step keeps an awake servicer for every queued item while one sleeps.
LEMMA WakeupStep ==
    ASSUME TypeOK, NoLostWakeup, Shutdown, [Next]_vars
    PROVE  NoLostWakeup'
<1> DEFINE Good == Asleep' # {} =>
                /\ Len(items') <= Cardinality(Looking')
                /\ ~closed'
<1>0. /\ NoLostWakeup' <=> Good
      /\ Asleep # {} => Len(items) <= Cardinality(Looking) /\ ~closed
      /\ Cardinality(Looking) \in Nat
      /\ Len(items) \in Nat
  BY LookingFinite DEF NoLostWakeup, Looking, TypeOK
<1> SUFFICES Good
  BY <1>0
<1>1. ASSUME WakeAll
      PROVE  Asleep' = {}
  BY <1>1 DEF WakeAll, Asleep, TypeOK
<1>2. ASSUME UNCHANGED <<items, closed, servicer>>
      PROVE  Good
  BY <1>2, <1>0 DEF Asleep, Looking
<1>3. ASSUME NEW i \in Items, Push(i)
      PROVE  Good
  <2>1. CASE Asleep = {}
    BY <2>1, <1>3 DEF Push, WakeOne, Asleep
  <2>2. CASE Asleep # {}
    <3>1. PICK s \in Asleep : servicer' = [servicer EXCEPT ![s] = "lock"]
      BY <2>2, <1>3 DEF Push, WakeOne
    <3>2. s \in Servicers \ Looking /\ Looking' = Looking \cup {s}
      BY <3>1 DEF Asleep, Looking, TypeOK
    <3>3. Len(items') = Len(items) + 1 /\ ~closed'
      BY <1>3 DEF Push, TypeOK
    <3>4. QED
      BY <3>2, <3>3, <2>2, <1>0, LookingCounts
  <2>3. QED
    BY <2>1, <2>2
<1>4. ASSUME NEW s \in Servicers, PopEnter(s)
      PROVE  Good
  <2>1. s \in Servicers \ Looking /\ Looking' = Looking \cup {s} /\ Asleep' = Asleep
    BY <1>4 DEF PopEnter, Looking, Asleep, TypeOK
  <2>2. QED
    BY <2>1, <1>4, <1>0, LookingCounts DEF PopEnter
<1>5. ASSUME NEW s \in Servicers, PopItem(s)
      PROVE  Good
  <2>1. s \in Looking /\ Looking' = Looking \ {s} /\ Asleep' = Asleep
    BY <1>5 DEF PopItem, Looking, Asleep, TypeOK
  <2>2. Len(items') = Len(items) - 1 /\ closed' = closed
    BY <1>5 DEF PopItem, TypeOK
  <2>3. QED
    BY <2>1, <2>2, <1>0, LookingCounts
<1>6. ASSUME NEW s \in Servicers, PopEnd(s)
      PROVE  Good
  <2>1. s \in Looking /\ Looking' = Looking \ {s} /\ Asleep' = Asleep
    BY <1>6 DEF PopEnd, Looking, Asleep, TypeOK
  <2>2. items' = <<>> /\ closed' /\ closed
    BY <1>6 DEF PopEnd, Shutdown
  <2>3. QED
    BY <2>1, <2>2, <1>0
<1>7. ASSUME NEW s \in Servicers, PopWait(s)
      PROVE  Good
  <2>1. s \in Looking /\ Looking' = Looking \ {s}
    BY <1>7 DEF PopWait, Looking, TypeOK
  <2>2. Cardinality(Looking') \in Nat
    BY <2>1, LookingFinite, FS_RemoveElement, FS_CardinalityType
  <2>3. Len(items') = 0 /\ ~closed'
    BY <1>7 DEF PopWait
  <2>4. QED
    BY <2>2, <2>3
<1>8. ASSUME NEW s \in Servicers, Handled(s)
      PROVE  Good
  <2>1. Looking' = Looking /\ Asleep' = Asleep
    BY <1>8 DEF Handled, Looking, Asleep, TypeOK
  <2>2. QED
    BY <2>1, <1>8, <1>0 DEF Handled
<1>9. ASSUME NEW s \in Servicers, WatcherWakes(s)
      PROVE  Good
  BY <1>9, <1>1 DEF WatcherWakes
<1>10. CASE Close
  BY <1>10, <1>1 DEF Close
<1>11. CASE Start
  <2>1. Asleep' = {}
    BY <1>11 DEF Start, Asleep
  <2>2. QED
    BY <2>1
<1>12. CASE rootCancel
  BY <1>12, <1>2 DEF rootCancel
<1>13. CASE StopReturn
  BY <1>13, <1>2 DEF StopReturn
<1>14. CASE UNCHANGED vars
  BY <1>14, <1>2 DEF vars
<1> HIDE DEF Good
<1>15. QED
  BY <1>3, <1>4, <1>5, <1>6, <1>7, <1>8, <1>9, <1>10, <1>11, <1>12, <1>13, <1>14
     DEF Next, ServicerStep

-----------------------------------------------------------------------------
(* Stop drains *)

\* Signal and Broadcast move sleepers only.
LEMMA WakeMovesSleepers ==
    ASSUME TypeOK, WakeOne \/ WakeAll, NEW s \in Servicers
    PROVE  \/ servicer'[s] = servicer[s]
           \/ servicer[s] = "asleep" /\ servicer'[s] = "lock"
  BY DEF TypeOK, WakeOne, WakeAll, Asleep

\* Every step keeps the order in which the pool shuts down.
LEMMA ShutdownStep ==
    ASSUME TypeOK, NoLostWakeup, Shutdown, [Next]_vars
    PROVE  Shutdown'
<1> USE DEF TypeOK, Shutdown, ServicerPc
<1>1. CASE Start
  BY <1>1 DEF Start
<1>2. ASSUME NEW i \in Items, Push(i)
      PROVE  Shutdown'
  <2>1. ~started => Asleep = {}
    BY DEF Asleep
  <2>2. ~started => UNCHANGED servicer
    BY <1>2, <2>1 DEF Push, WakeOne
  <2>3. \A s \in Servicers : servicer'[s] = "exited" <=> servicer[s] = "exited"
    BY <1>2, WakeMovesSleepers DEF Push
  <2>4. QED
    BY <1>2, <2>2, <2>3, QueuePoolAssumption DEF Push
<1>3. ASSUME NEW s \in Servicers, PopEnter(s)
      PROVE  Shutdown'
  BY <1>3 DEF PopEnter
<1>4. ASSUME NEW s \in Servicers, PopItem(s)
      PROVE  Shutdown'
  BY <1>4 DEF PopItem, EndWatch
<1>5. ASSUME NEW s \in Servicers, PopEnd(s)
      PROVE  Shutdown'
  BY <1>5 DEF PopEnd, EndWatch
<1>6. ASSUME NEW s \in Servicers, PopWait(s)
      PROVE  Shutdown'
  BY <1>6 DEF PopWait
<1>7. ASSUME NEW s \in Servicers, Handled(s)
      PROVE  Shutdown'
  BY <1>7 DEF Handled
<1>8. ASSUME NEW s \in Servicers, WatcherWakes(s)
      PROVE  Shutdown'
  <2>1. \A x \in Servicers : servicer'[x] = "exited" <=> servicer[x] = "exited"
    BY <1>8, WakeMovesSleepers DEF WatcherWakes
  <2>2. ~started => servicer' = [x \in Servicers |-> "off"]
    BY <1>8 DEF WatcherWakes, WakeAll, Asleep
  <2>3. QED
    BY <1>8, <2>1, <2>2 DEF WatcherWakes
<1>9. CASE Close
  <2>1. \A x \in Servicers : servicer'[x] = "exited" <=> servicer[x] = "exited"
    BY <1>9, WakeMovesSleepers DEF Close
  <2>2. QED
    BY <1>9, <2>1 DEF Close
<1>10. CASE rootCancel
  BY <1>10 DEF rootCancel
<1>11. CASE StopReturn
  BY <1>11 DEF StopReturn
<1>12. CASE UNCHANGED vars
  BY <1>12 DEF vars
<1>13. QED
  BY <1>1, <1>2, <1>3, <1>4, <1>5, <1>6, <1>7, <1>8, <1>9, <1>10, <1>11, <1>12
     DEF Next, ServicerStep

-----------------------------------------------------------------------------
(* Every item is in one place *)

\* Every step keeps each item in one place.
LEMMA OnePlaceStep ==
    ASSUME TypeOK, Shutdown, OnePlace, [Next]_vars
    PROVE  OnePlace'
<1>1. ASSUME UNCHANGED <<items, handling>>,
             \A s \in Servicers : servicer'[s] = "handle" <=> servicer[s] = "handle"
      PROVE  OnePlace'
  BY <1>1 DEF OnePlace
<1>2. ASSUME NEW i \in Items, Push(i)
      PROVE  OnePlace'
  <2>1. \A s \in Servicers : servicer'[s] = "handle" <=> servicer[s] = "handle"
    BY <1>2, WakeMovesSleepers DEF Push
  <2>2. /\ items \in Seq(Items)
        /\ Len(items') = Len(items) + 1
        /\ items'[Len(items) + 1] = i
        /\ \A k \in 1 .. Len(items) : items'[k] = items[k] /\ items[k] # i
        /\ \A s \in Servicers : i \notin handling[s]
        /\ handling' = handling
    BY <1>2 DEF Push, TypeOK, Queued, Busy
  <2>3. \A k \in 1 .. Len(items') : k = Len(items) + 1 \/ k \in 1 .. Len(items)
    BY <2>2
  <2>4. \A j, k \in 1 .. Len(items') : items'[j] = items'[k] => j = k
    BY <2>2, <2>3 DEF OnePlace
  <2>5. \A k \in 1 .. Len(items') : \A s \in Servicers : items'[k] \notin handling'[s]
    BY <2>2, <2>3 DEF OnePlace
  <2>6. QED
    BY <2>1, <2>2, <2>4, <2>5 DEF OnePlace
<1>3. ASSUME NEW s \in Servicers, PopItem(s)
      PROVE  OnePlace'
  <2>1. /\ items \in Seq(Items)
        /\ Len(items') = Len(items) - 1
        /\ Len(items) \in Nat \ {0}
        /\ \A k \in 1 .. Len(items') : k + 1 \in 1 .. Len(items) /\ items'[k] = items[k + 1]
        /\ items[1] \in Items
        /\ handling' = [handling EXCEPT ![s] = {items[1]}]
        /\ servicer' = [servicer EXCEPT ![s] = "handle"]
    BY <1>3 DEF PopItem, TypeOK
  <2>2. \A t \in Servicers :
            IF servicer'[t] = "handle" THEN \E i \in Items : handling'[t] = {i}
            ELSE handling'[t] = {}
    BY <2>1 DEF OnePlace, TypeOK
  <2>3. \A t, u \in Servicers : \A i \in handling'[t] \cap handling'[u] : t = u
    BY <2>1 DEF OnePlace, TypeOK
  <2>4. \A j, k \in 1 .. Len(items') : items'[j] = items'[k] => j = k
    BY <2>1 DEF OnePlace
  <2>5. \A k \in 1 .. Len(items') : \A t \in Servicers : items'[k] \notin handling'[t]
    BY <2>1 DEF OnePlace, TypeOK
  <2>6. QED
    BY <2>2, <2>3, <2>4, <2>5 DEF OnePlace
<1>4. ASSUME NEW s \in Servicers, Handled(s)
      PROVE  OnePlace'
  BY <1>4 DEF Handled, OnePlace, TypeOK
<1>5. ASSUME NEW s \in Servicers, PopEnter(s) \/ PopEnd(s) \/ PopWait(s)
      PROVE  OnePlace'
  BY <1>5, <1>1 DEF PopEnter, PopEnd, PopWait, TypeOK
<1>6. ASSUME NEW s \in Servicers, WatcherWakes(s)
      PROVE  OnePlace'
  <2>1. \A x \in Servicers : servicer'[x] = "handle" <=> servicer[x] = "handle"
    BY <1>6, WakeMovesSleepers DEF WatcherWakes
  <2>2. QED
    BY <2>1, <1>1, <1>6 DEF WatcherWakes
<1>7. CASE Close
  <2>1. \A x \in Servicers : servicer'[x] = "handle" <=> servicer[x] = "handle"
    BY <1>7, WakeMovesSleepers DEF Close
  <2>2. QED
    BY <2>1, <1>1, <1>7 DEF Close
<1>8. CASE Start
  BY <1>8, <1>1 DEF Start, Shutdown
<1>9. CASE rootCancel \/ StopReturn \/ UNCHANGED vars
  BY <1>9, <1>1 DEF rootCancel, StopReturn, vars
<1>10. QED
  BY <1>2, <1>3, <1>4, <1>5, <1>6, <1>7, <1>8, <1>9 DEF Next, ServicerStep

-----------------------------------------------------------------------------
(* The theorems *)

\* The inductive invariant holds in every reachable state.
LEMMA Inductive == Spec => []PoolInv
<1>1. Init => PoolInv
  <2> SUFFICES ASSUME Init
               PROVE  PoolInv
    OBVIOUS
  <2>1. TypeOK
    <3>1. handling \in [Servicers -> SUBSET Items] /\ watching \in SUBSET Servicers
      BY DEF Init
    <3>2. servicer \in [Servicers -> ServicerPc] /\ items \in Seq(Items)
      BY DEF Init, ServicerPc
    <3>3. QED
      BY <3>1, <3>2 DEF Init, TypeOK
  <2>2. NoLostWakeup
    BY DEF Init, NoLostWakeup, Asleep
  <2>3. Shutdown /\ OnePlace
    BY DEF Init, Shutdown, OnePlace
  <2>4. QED
    BY <2>1, <2>2, <2>3 DEF PoolInv
<1>2. PoolInv /\ [Next]_vars => PoolInv'
  BY TypeStep, WakeupStep, ShutdownStep, OnePlaceStep DEF PoolInv
<1>3. QED
  BY <1>1, <1>2, PTL DEF Spec

\* With any number of servicers and any capacity, the pool's one Signal per
\* Push loses no wake-up (internal/stores/queue/inmem) and its Stop returns
\* only when every accepted item has been handled (pool.go).
THEOREM PoolCorrect == Spec => []PoolSafe
<1>1. PoolInv => StopDrains
  <2> SUFFICES ASSUME PoolInv, stop = "stopped"
               PROVE  items = <<>> /\ Busy = {}
    BY DEF StopDrains
  <2>1. \A s \in Servicers : servicer[s] = "exited"
    BY DEF PoolInv, Shutdown
  <2>2. items = <<>>
    BY <2>1, QueuePoolAssumption DEF PoolInv, Shutdown
  <2>3. \A s \in Servicers : handling[s] = {}
    BY <2>1 DEF PoolInv, OnePlace
  <2>4. QED
    BY <2>2, <2>3 DEF Busy
<1>2. PoolInv => PoolSafe
  BY <1>1 DEF PoolInv, PoolSafe
<1>3. QED
  BY <1>2, Inductive, PTL

-----------------------------------------------------------------------------
(* The pool implements the abstract backlog *)

\* A step that leaves the queue and the handlers alone is no step of the
\* backlog.
LEMMA BacklogStutters ==
    ASSUME UNCHANGED <<items, handling>>
    PROVE  UNCHANGED B!vars
  BY DEF B!vars, Busy

\* Push, Pop and the end of a handler are the backlog's three steps, and every
\* other step of the pool leaves the backlog alone.
LEMMA BacklogStep ==
    ASSUME PoolInv, [Next]_vars
    PROVE  [B!Next]_(B!vars)
<1> USE DEF PoolInv
<1>1. ASSUME NEW i \in Items, Push(i)
      PROVE  B!Accept(i)
  BY <1>1 DEF B!Accept, B!IsWaiting, Push, Queued, Busy, TypeOK
<1>2. ASSUME NEW s \in Servicers, PopItem(s)
      PROVE  B!TakeUp("pool")
  <2>1. Busy' = Busy \cup {Head(items)}
    BY <1>2 DEF PopItem, Busy, OnePlace, TypeOK
  <2>2. QED
    BY <2>1, <1>2 DEF B!TakeUp, PopItem
<1>3. ASSUME NEW s \in Servicers, Handled(s)
      PROVE  \E i \in Items : B!Finish(i)
  <2>1. PICK i \in Items : handling[s] = {i}
    BY <1>3 DEF Handled, OnePlace
  <2>2. i \in Busy /\ Busy' = Busy \ {i}
    BY <2>1, <1>3 DEF Handled, Busy, OnePlace, TypeOK
  <2>3. QED
    BY <2>1, <2>2, <1>3 DEF B!Finish, Handled
<1>4. ASSUME NEW s \in Servicers,
             PopEnter(s) \/ PopEnd(s) \/ PopWait(s) \/ WatcherWakes(s)
      PROVE  UNCHANGED B!vars
  BY <1>4, BacklogStutters DEF PopEnter, PopEnd, PopWait, WatcherWakes
<1>5. CASE Start \/ Close \/ rootCancel \/ StopReturn \/ UNCHANGED vars
  BY <1>5, BacklogStutters DEF Start, Close, rootCancel, StopReturn, vars
<1>6. QED
  BY <1>1, <1>2, <1>3, <1>4, <1>5 DEF Next, ServicerStep, B!Next

\* The pool of pool.go over the queue of inmem.go is a bounded queue served
\* oldest first, that hands every accepted item to one handler.
THEOREM PoolRefines == Spec => ImplementsBacklog
<1>1. Init => B!Init
  BY DEF Init, B!Init, Busy
<1>2. QED
  BY <1>1, BacklogStep, Inductive, PTL DEF Spec, ImplementsBacklog, B!Spec

=============================================================================
