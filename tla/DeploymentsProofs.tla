------------------------- MODULE DeploymentsProofs -------------------------
(***************************************************************************)
(* Proofs about Deployments: whatever fan-outs, scale-ups, destroys and    *)
(* crashes overlap, a replica's teardown never ends another's machine;     *)
(* creates that are run again rent nothing twice on a VM-style provider;   *)
(* the state of a deployment moves forward, and a create leaves none in    *)
(* flight; RUNNING is earned by every slot, and a deployment that is       *)
(* created once is released when it is TERMINATED.  For any number of      *)
(* slots, callers, machines and scenarios.                                 *)
(***************************************************************************)
EXTENDS Deployments, FiniteSetTheorems, TLAPS

-----------------------------------------------------------------------------
(* The inductive invariant *)

Releasing == {"stop", "emit", "release", "mark", "write"}

\* The ids that slot k may carry: its own, or the bare id of an only slot.
SlotIds(k) == {None, k} \cup (IF k = 1 THEN {0} ELSE {})

\* A slot of the record carries its own id, and the anchor is the first one's.
SlotsNamed ==
    /\ \A k \in DOMAIN dep.reps : dep.reps[k].id \in SlotIds(k)
    /\ dep.anchor \in SlotIds(1)

\* The instance id call k uses for slot s.
IdIn(k, s) == replicaInstanceID(s, k.from + k.n)

\* A fan-out works on the slots it planned, of which there are not too many; a
\* destroy is at an instance while it calls the provider, and has a record to
\* write back only then; every operation keeps to its own steps.
Shaped(k) ==
    /\ k.from + k.n <= MaxSlots
    /\ \A s \in Slots : k.work[s].pc # "none"
                           => s \in (k.from + 1)..(k.from + k.n) /\ k.op \in {"create", "scale"}
    /\ k.pc \in Releasing => k.cur \in Ids
    /\ k.pc # "write" => k.rec = NoRecord
    /\ k.op = "none" => k = Idle
    /\ k.op = "create" => k.pc \in {"place", "launch"}
    /\ k.op = "scale" => k.pc \in {"normalise", "plan", "place", "launch"}
    /\ k.op = "destroy" => k.pc \in {"read", "next"} \cup Releasing

CallsShaped == \A c \in Callers : Shaped(call[c])

\* Nobody runs an operation that no caller asks for.
Asked(k) ==
    /\ k.op = "create" => Ops \cap {"create", "replace"} # {}
    /\ k.op = "scale" => "scale" \in Ops
    /\ k.op = "destroy" => "destroy" \in Ops

CallsAsked == \A c \in Callers : Asked(call[c])

\* Where callers only ever create, one create is in flight at a time, and the
\* deployment's state says so.
OneCreate ==
    Ops = {"create"} =>
        \A c \in Callers : call[c] # Idle =>
            /\ dep.st \in InFlight
            /\ \A d \in Callers : call[d] # Idle => c = d

\* Where they create on a VM-style provider, a machine that is rented has a
\* record, and a slot about to rent has no machine.
RentOnce ==
    ~Native /\ Ops = {"create"} =>
        /\ \A m \in Machines : Rented(m) => cloud[m].for \in Ids /\ inst[cloud[m].for].st # "NONE"
        /\ \A c \in Callers, s \in Slots, m \in Machines :
              call[c].work[s].pc \in {"patch", "spawn"} /\ Rented(m) => cloud[m].for # IdOf(c, s)
        /\ \A c \in Callers, s \in Slots :
              call[c].work[s].pc = "spawn" => inst[IdOf(c, s)].st # "NONE"

\* Where nobody scales and the daemon lives, an in-flight state has its create.
HasCreate ==
    Ops \subseteq {"create", "destroy"} /\ "crash" \notin Faults /\ dep.st \in InFlight
        => \E c \in Callers : call[c].op = "create"

DeploymentsInv ==
    /\ TypeOK /\ SlotsNamed /\ CallsShaped /\ Binding /\ CallsAsked
    /\ OneCreate /\ RentOnce /\ SlotRentedOnce /\ HasCreate

-----------------------------------------------------------------------------
(* Constants, slots and ids *)

\* The bounds are numbers and None is none of the ids or machines.
LEMMA Bounds ==
    /\ MaxSlots \in Nat /\ MaxSlots >= 1 /\ MaxCreates \in Nat
    /\ None \notin Machines /\ None \notin Nat /\ None \notin Ids
    /\ Ids \subseteq Nat /\ Slots \subseteq Ids
BY ConstantsAssumption DEF Ids, Slots

\* A scenario asks for no more slots and creates than the bounds allow.
LEMMA ScenarioTyped ==
    ASSUME scenario \in Scenarios
    PROVE  /\ scenario.slots \in 1..MaxSlots /\ scenario.creates \in 0..MaxCreates
BY ConstantsAssumption DEF Scenario

\* The instance of a slot is the slot's own.
LEMMA IdOfSlot ==
    ASSUME NEW k \in Call, NEW s \in Slots, s <= k.from + k.n
    PROVE  IdIn(k, s) \in Ids /\ IdIn(k, s) \in SlotIds(s) /\ IdIn(k, s) # None
  <1>1. k.from \in 0..MaxSlots /\ k.n \in 0..MaxSlots
    BY DEF Call
  <1>2. PICK f \in Nat, n \in Nat : f = k.from /\ n = k.n
    BY <1>1, Bounds
  <1>3. s <= f + n /\ IdIn(k, s) = (IF f + n = 1 THEN 0 ELSE s)
    BY <1>2 DEF IdIn, replicaInstanceID
  <1>4. s \in Nat /\ s \in 1..MaxSlots
    BY Bounds DEF Slots
  <1>5. CASE f + n = 1
    BY <1>2, <1>3, <1>4, <1>5, Bounds DEF SlotIds, Ids
  <1>6. CASE f + n # 1
    BY <1>2, <1>3, <1>4, <1>6, Bounds DEF SlotIds, Ids
  <1> QED
    BY <1>2, <1>5, <1>6

\* Two slots of one fan-out have two instances.
LEMMA IdsDiffer ==
    ASSUME NEW k \in Call, NEW s \in Slots, NEW t \in Slots,
           s <= k.from + k.n, t <= k.from + k.n, IdIn(k, s) = IdIn(k, t)
    PROVE  s = t
  <1>1. k.from \in 0..MaxSlots /\ k.n \in 0..MaxSlots
    BY DEF Call
  <1>2. PICK f \in Nat, n \in Nat : f = k.from /\ n = k.n
    BY <1>1, Bounds
  <1>3. /\ s <= f + n /\ IdIn(k, s) = (IF f + n = 1 THEN 0 ELSE s)
        /\ t <= f + n /\ IdIn(k, t) = (IF f + n = 1 THEN 0 ELSE t)
    BY <1>2 DEF IdIn, replicaInstanceID
  <1>4. s \in Nat /\ t \in Nat /\ s >= 1 /\ t >= 1
    BY Bounds DEF Slots
  <1>5. CASE f + n = 1
    BY <1>2, <1>3, <1>4, <1>5
  <1>6. CASE f + n # 1
    BY <1>3, <1>6
  <1> QED
    BY <1>5, <1>6

\* Slots that carry their own ids carry different ones.
LEMMA NamesDiffer ==
    ASSUME NEW k \in Nat, NEW l \in Nat, NEW i, i # None,
           i \in SlotIds(k), i \in SlotIds(l), k >= 1, l >= 1
    PROVE  k = l
BY Bounds DEF SlotIds

-----------------------------------------------------------------------------
(* The account and the instance records *)

\* One provider call: nothing, a machine rented for an instance, or one ended.
CloudStep ==
    \/ cloud' = cloud
    \/ \E i \in Ids, m \in Machines : Rent(i, m)
    \/ \E m \in Machines \cup {None} : Terminate(m)

\* A machine once rented for an instance stays its own.
LEMMA OwnedStays ==
    ASSUME TypeOK, CloudStep
    PROVE  /\ cloud' \in [Machines -> Machine]
           /\ \A m \in Machines : \A i : Owned(m, i) => Owned(m, i)'
  <1>0. cloud \in [Machines -> Machine]
    BY DEF TypeOK
  <1>1. CASE cloud' = cloud
    BY <1>0, <1>1 DEF Owned
  <1>2. ASSUME NEW i \in Ids, NEW m \in Machines, Rent(i, m)
        PROVE  /\ cloud' \in [Machines -> Machine]
               /\ \A n \in Machines : \A j : Owned(n, j) => Owned(n, j)'
    <2>1. PICK r \in Machine : r = [status |-> "rented", for |-> i]
      BY DEF Machine
    <2>2. cloud' = [cloud EXCEPT ![m] = r] /\ cloud[m].status = "free"
      BY <1>2, <2>1 DEF Rent
    <2>3. cloud' \in [Machines -> Machine]
      BY <2>2, <1>0
    <2>4. \A n \in Machines : n # m => cloud'[n] = cloud[n]
      BY <2>2, <1>0
    <2> QED
      BY <2>2, <2>3, <2>4 DEF Owned
  <1>3. ASSUME NEW m \in Machines \cup {None}, Terminate(m)
        PROVE  /\ cloud' \in [Machines -> Machine]
               /\ \A n \in Machines : \A j : Owned(n, j) => Owned(n, j)'
    <2>1. CASE m \in Machines
      <3>0. PICK q \in Machine : q = cloud[m]
        BY <2>1, <1>0
      <3>1. PICK r : r = [q EXCEPT !.status = "gone"]
        OBVIOUS
      <3>a. r \in Machine /\ r.status = "gone" /\ r.for = q.for
        BY <3>1 DEF Machine
      <3>2. cloud' = [cloud EXCEPT ![m] = r]
        BY <1>3, <3>0, <3>1 DEF Terminate
      <3>3. cloud' \in [Machines -> Machine]
        BY <3>2, <3>a, <2>1, <1>0
      <3>4. \A n \in Machines : cloud'[n] = IF n = m THEN r ELSE cloud[n]
        BY <3>2, <1>0
      <3> QED
        BY <3>0, <3>a, <3>3, <3>4 DEF Owned
    <2>2. CASE m \notin Machines
      <3>1. cloud' = cloud
        BY <2>2, <1>0, <1>3 DEF Terminate
      <3> QED
        BY <3>1, <1>0 DEF Owned
    <2> QED
      BY <2>1, <2>2
  <1> QED
    BY <1>1, <1>2, <1>3 DEF CloudStep

\* A record of instance i names a machine rented for i, if it names one.
Bound(r, i) == r.pid # None => Owned(r.pid, i)

\* One write to the instance records.
InstStep ==
    \/ inst' = inst
    \/ \E i \in Ids, r \in Record : inst' = [inst EXCEPT ![i] = r] /\ Bound(r, i)

\* Machines on record stay bound.
LEMMA BoundStays ==
    ASSUME TypeOK, CloudStep, NEW r, r.pid \in Machines \cup {None}, NEW i, Bound(r, i)
    PROVE  Bound(r, i)'
BY OwnedStays DEF Bound

\* The records stay typed and bound.
LEMMA InstKept ==
    ASSUME TypeOK, Binding, InstStep, CloudStep
    PROVE  /\ inst' \in [Ids -> Record]
           /\ (\A i \in Ids : Bound(inst[i], i))'
  <1>0. inst \in [Ids -> Record] /\ \A i \in Ids : Bound(inst[i], i)
    BY DEF TypeOK, Binding, Bound
  <1>1. CASE inst' = inst
    <2>1. ASSUME NEW i \in Ids PROVE Bound(inst[i], i)'
      <3>2. PICK r \in Record : r = inst[i]
        BY <1>0
      <3>3. Bound(r, i)'
        BY <3>2, <1>0, BoundStays DEF Record
      <3> QED
        BY <1>1, <3>2, <3>3 DEF Bound
    <2> QED
      BY <1>0, <1>1, <2>1
  <1>2. ASSUME NEW j \in Ids, NEW r \in Record, inst' = [inst EXCEPT ![j] = r], Bound(r, j)
        PROVE  /\ inst' \in [Ids -> Record]
               /\ (\A i \in Ids : Bound(inst[i], i))'
    <2>1. inst' \in [Ids -> Record]
      BY <1>0, <1>2
    <2>2. ASSUME NEW i \in Ids PROVE Bound(inst[i], i)'
      <3>1. PICK q \in Record : q = inst'[i]
        BY <2>1
      <3>2. Bound(q, i)
        BY <3>1, <1>0, <1>2
      <3>3. Bound(q, i)'
        BY <3>2, BoundStays DEF Record
      <3> QED
        BY <3>1, <3>3 DEF Bound
    <2> QED
      BY <2>1, <2>2
  <1> QED
    BY <1>1, <1>2 DEF InstStep

-----------------------------------------------------------------------------
(* The calls in flight *)

\* The machines a call holds were rented for the instances it holds them for.
CallBound(k) ==
    /\ \A s \in Slots : Bound(k.work[s], IdIn(k, s))
    /\ \A i \in Ids : Bound(k.snap[i], i)
    /\ Bound(k.rec, k.cur)

\* One caller's step: it gets on with its call.
CallStep ==
    \E c \in Callers, k \in Call :
        call' = [call EXCEPT ![c] = k] /\ Shaped(k) /\ Asked(k) /\ CallBound(k)'

\* The fields of a call.
LEMMA CallTyped ==
    ASSUME NEW k \in Call
    PROVE  /\ k.op \in CallOp /\ k.pc \in CallPc
           /\ k.from \in 0..MaxSlots /\ k.n \in 0..MaxSlots
           /\ k.work \in [Slots -> Work] /\ k.todo \in (SUBSET Ids)
           /\ k.cur \in Ids \cup {None} /\ k.snap \in [Ids -> Record]
           /\ k.rec \in Record
BY DEF Call

\* What a call remembers of its failures is a Boolean (Zenon decides it).
LEMMA CallFailed ==
    ASSUME NEW k \in Call
    PROVE  k.failed \in BOOLEAN
BY Zenon DEF Call

\* A call is what its fields are.
LEMMA CallMade ==
    ASSUME NEW op \in CallOp, NEW pc \in CallPc, NEW from \in 0..MaxSlots, NEW n \in 0..MaxSlots,
           NEW work \in [Slots -> Work], NEW todo \in (SUBSET Ids), NEW cur \in Ids \cup {None},
           NEW snap \in [Ids -> Record], NEW rec \in Record, NEW failed \in BOOLEAN
    PROVE  [op |-> op, pc |-> pc, from |-> from, n |-> n, work |-> work, todo |-> todo,
            cur |-> cur, snap |-> snap, rec |-> rec, failed |-> failed] \in Call
BY Zenon DEF Call

\* The empty records.
LEMMA NothingTyped ==
    /\ NoRecord \in Record /\ NoRecord.pid = None /\ NoRecord.st = "NONE"
    /\ NoWork \in Work /\ NoWork.pid = None /\ NoWork.pc = "none"
BY DEF NoRecord, Record, InstanceState, NoWork, Work, WorkPc

\* An idle call is a call.
LEMMA IdleTyped ==
    /\ Idle \in Call
    /\ Idle.op = "none" /\ Idle.pc = "idle" /\ Idle.from = 0 /\ Idle.n = 0
    /\ Idle.work = [s \in Slots |-> NoWork] /\ Idle.todo = {} /\ Idle.cur = None
    /\ Idle.snap = [i \in Ids |-> NoRecord] /\ Idle.rec = NoRecord /\ Idle.failed = FALSE
  <1>1. /\ "none" \in CallOp /\ "idle" \in CallPc /\ 0 \in 0..MaxSlots
        /\ [s \in Slots |-> NoWork] \in [Slots -> Work] /\ {} \in (SUBSET Ids)
        /\ None \in Ids \cup {None} /\ [i \in Ids |-> NoRecord] \in [Ids -> Record]
        /\ NoRecord \in Record /\ FALSE \in BOOLEAN
    BY NothingTyped, Bounds DEF CallOp, CallPc
  <1>2. Idle \in Call
    BY <1>1, CallMade, Zenon DEF Idle
  <1> QED
    BY <1>2 DEF Idle

\* It holds nothing, before a step and after it.
LEMMA IdleGood == Shaped(Idle) /\ Asked(Idle) /\ CallBound(Idle) /\ CallBound(Idle)'
  <1>1. Shaped(Idle)
    <2>1. \A s \in Slots : Idle.work[s].pc = "none"
      BY IdleTyped, NothingTyped
    <2> QED
      BY <2>1, IdleTyped, Bounds DEF Shaped, Releasing
  <1>2. CallBound(Idle) /\ CallBound(Idle)'
    <2>1. \A s \in Slots : Idle.work[s].pid = None
      BY IdleTyped, NothingTyped
    <2>2. \A i \in Ids : Idle.snap[i].pid = None
      BY IdleTyped, NothingTyped
    <2>3. Idle.rec.pid = None
      BY IdleTyped, NothingTyped
    <2> QED
      BY <2>1, <2>2, <2>3 DEF CallBound, Bound
  <1>3. Asked(Idle)
    BY IdleTyped DEF Asked
  <1> QED
    BY <1>1, <1>2, <1>3

\* What the invariant says of one call.
LEMMA CallOf ==
    ASSUME TypeOK, CallsShaped, CallsAsked, Binding, NEW c \in Callers
    PROVE  call[c] \in Call /\ Shaped(call[c]) /\ Asked(call[c]) /\ CallBound(call[c])
  <1>1. call[c] \in Call /\ Shaped(call[c]) /\ Asked(call[c])
    BY DEF TypeOK, CallsShaped, CallsAsked
  <1> QED
    BY <1>1 DEF Binding, CallBound, Bound, IdIn, IdOf, Cur

\* What a call holds stays bound.
LEMMA HeldStays ==
    ASSUME TypeOK, CloudStep, NEW k \in Call, CallBound(k)
    PROVE  CallBound(k)'
  <1>1. \A s \in Slots : k.work[s].pid \in Machines \cup {None}
    BY CallTyped DEF Work
  <1>2. \A i \in Ids : k.snap[i].pid \in Machines \cup {None}
    BY CallTyped DEF Record
  <1>3. k.rec.pid \in Machines \cup {None}
    BY CallTyped DEF Record
  <1>4. \A s \in Slots : Bound(k.work[s], IdIn(k, s))'
    BY <1>1, BoundStays DEF CallBound, IdIn
  <1>5. \A i \in Ids : Bound(k.snap[i], i)'
    BY <1>2, BoundStays DEF CallBound
  <1>6. Bound(k.rec, k.cur)'
    BY <1>3, BoundStays DEF CallBound
  <1> QED
    BY <1>4, <1>5, <1>6 DEF CallBound

\* The calls stay as the invariant has them.
LEMMA CallsKept ==
    ASSUME TypeOK, CallsShaped, CallsAsked, Binding, CallStep, CloudStep, scenario' = scenario
    PROVE  /\ call' \in [Callers -> Call] /\ CallsShaped' /\ CallsAsked'
           /\ (\A c \in Callers : CallBound(call[c]))'
  <1>1. PICK c \in Callers, k \in Call :
           call' = [call EXCEPT ![c] = k] /\ Shaped(k) /\ Asked(k) /\ CallBound(k)'
    BY DEF CallStep
  <1>2. call \in [Callers -> Call]
    BY DEF TypeOK
  <1>3. call' \in [Callers -> Call]
    BY <1>1, <1>2
  <1>4. ASSUME NEW d \in Callers
        PROVE  Shaped(call'[d]) /\ Asked(call'[d]) /\ CallBound(call[d])'
    <2>1. CASE d = c
      <3>1. call'[d] = k
        BY <2>1, <1>1, <1>2
      <3> QED
        BY <3>1, <1>1
    <2>2. CASE d # c
      <3>1. PICK q \in Call : q = call[d]
        BY <1>2
      <3>2. call'[d] = q
        BY <2>2, <1>1, <1>2, <3>1
      <3>3. Shaped(q) /\ Asked(q) /\ CallBound(q)
        BY <3>1, CallOf
      <3>4. CallBound(q)'
        BY <3>3, HeldStays
      <3> QED
        BY <3>2, <3>3, <3>4
    <2> QED
      BY <2>1, <2>2
  <1>5. CallsShaped' /\ (\A d \in Callers : CallBound(call[d]))'
    BY <1>4 DEF CallsShaped, Shaped, CallBound
  <1>6. CallsAsked'
    BY <1>4 DEF CallsAsked, Asked, Ops
  <1> QED
    BY <1>3, <1>5, <1>6

-----------------------------------------------------------------------------
(* What becomes of a call *)

\* A slot's goroutine moves on.
LEMMA WorkCall ==
    ASSUME NEW k \in Call, Shaped(k), Asked(k), CallBound(k)',
           NEW s \in Slots, NEW w \in Work, k.work[s].pc # "none", Bound(w, IdIn(k, s))',
           NEW after, after = [k EXCEPT !.work[s] = w]
    PROVE  /\ after \in Call /\ Shaped(after) /\ Asked(after) /\ CallBound(after)'
           /\ after.op = k.op /\ after.pc = k.pc /\ after.from = k.from /\ after.n = k.n
           /\ after.work = [k.work EXCEPT ![s] = w]
  <1>0. PICK v : v = [k.work EXCEPT ![s] = w]
    OBVIOUS
  <1>1. v \in [Slots -> Work] /\ \A t \in Slots : v[t] = IF t = s THEN w ELSE k.work[t]
    BY <1>0, CallTyped
  <1>2. after = [k EXCEPT !.work = v]
    BY <1>0
  <1>3. /\ after \in Call /\ after.op = k.op /\ after.pc = k.pc /\ after.from = k.from
        /\ after.n = k.n /\ after.work = v /\ after.cur = k.cur /\ after.snap = k.snap
        /\ after.rec = k.rec
    BY <1>1, <1>2 DEF Call
  <1>4. k.op \in {"create", "scale"} /\ s \in (k.from + 1)..(k.from + k.n)
    BY DEF Shaped
  <1>5. Shaped(after)
    <2>1. \A t \in Slots : after.work[t].pc # "none" => t \in (k.from + 1)..(k.from + k.n)
      BY <1>1, <1>3, <1>4 DEF Shaped
    <2> QED
      BY <1>3, <1>4, <2>1 DEF Shaped
  <1>6. Asked(after)
    BY <1>3 DEF Asked
  <1>7. CallBound(after)'
    <2>1. \A t \in Slots : Bound(after.work[t], IdIn(after, t))'
      BY <1>1, <1>3 DEF CallBound, IdIn
    <2> QED
      BY <1>3, <2>1 DEF CallBound
  <1> QED
    BY <1>0, <1>3, <1>5, <1>6, <1>7

\* A destroy moves on.
LEMMA DestroyCall ==
    ASSUME NEW k \in Call, Shaped(k), Asked(k), CallBound(k)', k.op = "destroy",
           NEW after \in Call, after.op = k.op, after.from = k.from, after.n = k.n,
           after.work = k.work, after.snap = k.snap,
           after.pc \in {"read", "next"} \cup Releasing,
           after.pc \in Releasing => after.cur \in Ids,
           after.pc # "write" => after.rec = NoRecord,
           Bound(after.rec, after.cur)'
    PROVE  Shaped(after) /\ Asked(after) /\ CallBound(after)'
  <1>1. Shaped(after)
    BY DEF Shaped
  <1>2. Asked(after)
    BY DEF Asked
  <1>3. CallBound(after)'
    BY DEF CallBound, IdIn
  <1> QED
    BY <1>1, <1>2, <1>3

\* Only a destroy is at one of a destroy's steps.
LEMMA DestroyOp ==
    ASSUME NEW k \in Call, Shaped(k)
    PROVE  /\ k.pc \in {"read", "next"} \cup Releasing => k.op = "destroy"
           /\ k.pc \in {"normalise", "plan"} => k.op = "scale"
           /\ k.pc \in {"place", "launch"} => k.op \in {"create", "scale"}
BY CallTyped, IdleTyped DEF Shaped, CallOp, Releasing

\* An instance is done with.
LEMMA NextCall ==
    ASSUME NEW k \in Call, Shaped(k), Asked(k), CallBound(k)', k.op = "destroy",
           NEW i, NEW bad \in BOOLEAN, NEW after,
           after = [k EXCEPT !.pc = "next", !.todo = @ \ {i}, !.cur = None,
                             !.rec = NoRecord, !.failed = @ \/ bad]
    PROVE  after \in Call /\ Shaped(after) /\ Asked(after) /\ CallBound(after)' /\ after.op = "destroy"
  <1>1. (k.failed \/ bad) \in BOOLEAN
    BY CallFailed
  <1>2. PICK f \in BOOLEAN : f = (k.failed \/ bad)
    BY <1>1
  <1>3. k.todo \ {i} \in (SUBSET Ids)
    BY CallTyped
  <1>4. PICK t \in (SUBSET Ids) : t = k.todo \ {i}
    BY <1>3
  <1>5. after = [k EXCEPT !.pc = "next", !.todo = t, !.cur = None, !.rec = NoRecord, !.failed = f]
    BY <1>2, <1>4
  <1>6. "next" \in CallPc
    BY DEF CallPc
  <1>7. /\ after \in Call /\ after.op = k.op /\ after.from = k.from /\ after.n = k.n
        /\ after.work = k.work /\ after.snap = k.snap /\ after.pc = "next"
        /\ after.cur = None /\ after.rec = NoRecord
    BY <1>5, <1>6, NothingTyped DEF Call
  <1>8. Bound(after.rec, after.cur)'
    BY <1>7, NothingTyped DEF Bound
  <1> QED
    BY <1>7, <1>8, DestroyCall DEF Releasing

\* The call a fan-out starts as.
Started(op, from, n) ==
    [Idle EXCEPT
       !.op = op, !.pc = "place", !.from = from, !.n = n,
       !.work = [s \in Slots |->
                   IF s \in (from + 1)..(from + n)
                   THEN [NoWork EXCEPT !.pc = "read"] ELSE NoWork]]

\* It plans its slots and holds nothing.
LEMMA StartCall ==
    ASSUME NEW op \in {"create", "scale"}, NEW from \in Nat, NEW n \in Nat, from + n <= MaxSlots
    PROVE  /\ Started(op, from, n) \in Call /\ Shaped(Started(op, from, n))
           /\ CallBound(Started(op, from, n))' /\ Started(op, from, n).op = op
           /\ \A s \in Slots : Started(op, from, n).work[s].pc \in {"none", "read"}
  <1>1. PICK r : r = [NoWork EXCEPT !.pc = "read"]
    OBVIOUS
  <1>2. r \in Work /\ r.pid = None /\ r.pc = "read"
    BY <1>1, NothingTyped DEF Work, WorkPc
  <1>3. PICK v : v = [s \in Slots |-> IF s \in (from + 1)..(from + n) THEN r ELSE NoWork]
    OBVIOUS
  <1>4. v \in [Slots -> Work]
    BY <1>2, <1>3, NothingTyped
  <1>5. \A s \in Slots : /\ v[s].pid = None /\ v[s].pc \in {"none", "read"}
                         /\ v[s].pc # "none" => s \in (from + 1)..(from + n)
    BY <1>2, <1>3, NothingTyped
  <1>6. PICK after : after = Started(op, from, n)
    OBVIOUS
  <1>a. after = [Idle EXCEPT !.op = op, !.pc = "place", !.from = from, !.n = n, !.work = v]
    BY <1>1, <1>3, <1>6 DEF Started
  <1>7. op \in CallOp /\ "place" \in CallPc /\ from \in 0..MaxSlots /\ n \in 0..MaxSlots
    BY Bounds DEF CallOp, CallPc
  <1>8. /\ after \in Call /\ after.op = op /\ after.pc = "place" /\ after.from = from
        /\ after.n = n /\ after.work = v /\ after.cur = Idle.cur /\ after.snap = Idle.snap
        /\ after.rec = Idle.rec
    BY <1>4, <1>a, <1>7, IdleTyped DEF Call
  <1>9. Shaped(after)
    BY <1>5, <1>8, IdleTyped DEF Shaped, Releasing
  <1>10. CallBound(after)'
    <2>1. \A s \in Slots : Bound(after.work[s], IdIn(after, s))'
      BY <1>5, <1>8 DEF Bound
    <2> QED
      BY <1>8, <2>1, IdleGood DEF CallBound
  <1>11. CallBound(Started(op, from, n))'
    BY <1>6, <1>10 DEF CallBound, Started, Idle
  <1> QED
    BY <1>5, <1>6, <1>8, <1>9, <1>11

-----------------------------------------------------------------------------
(* The deployment record *)

\* The record stays well typed, its slots carrying their own ids.
DepStep == dep' \in Deployment /\ Len(dep'.reps) <= MaxSlots /\ SlotsNamed'

\* A function on an initial segment is a sequence.
LEMMA SeqMade ==
    ASSUME NEW S, NEW n \in Nat, NEW f \in [1..n -> S]
    PROVE  f \in Seq(S) /\ Len(f) = n /\ DOMAIN f = 1..n
OBVIOUS

\* The record is left alone.
LEMMA DepSame ==
    ASSUME TypeOK, SlotsNamed, dep' = dep
    PROVE  DepStep
BY DEF DepStep, TypeOK, SlotsNamed

\* The fields of the record.
LEMMA DepTyped ==
    ASSUME TypeOK
    PROVE  /\ dep.st \in DeploymentState /\ dep.anchor \in Ids \cup {None}
           /\ dep.reps \in Seq(ReplicaBacking) /\ Len(dep.reps) \in 0..MaxSlots
           /\ DOMAIN dep.reps = 1..Len(dep.reps)
           /\ \A k \in 1..Len(dep.reps) : dep.reps[k] \in ReplicaBacking
BY Bounds DEF TypeOK, Deployment

\* A new state, a new slot table, a new anchor.
LEMMA DepMade ==
    ASSUME TypeOK, NEW st \in DeploymentState, NEW n \in 0..MaxSlots,
           NEW reps \in [1..n -> ReplicaBacking], NEW anchor \in Ids \cup {None},
           \A k \in 1..n : reps[k].id \in SlotIds(k),
           anchor \in SlotIds(1),
           \/ dep' = [dep EXCEPT !.st = st, !.reps = reps, !.anchor = anchor]
           \/ dep' = [st |-> st, reps |-> reps, anchor |-> anchor]
    PROVE  DepStep /\ dep'.st = st
  <1>1. n \in Nat
    BY Bounds
  <1>2. reps \in Seq(ReplicaBacking) /\ Len(reps) = n /\ DOMAIN reps = 1..n
    BY <1>1, SeqMade
  <1>3. dep \in Deployment
    BY DEF TypeOK
  <1>4. dep'.st = st /\ dep'.reps = reps /\ dep'.anchor = anchor /\ dep' \in Deployment
    <2>1. CASE dep' = [dep EXCEPT !.st = st, !.reps = reps, !.anchor = anchor]
      BY <2>1, <1>2, <1>3 DEF Deployment
    <2>2. CASE dep' = [st |-> st, reps |-> reps, anchor |-> anchor]
      BY <2>2, <1>2 DEF Deployment
    <2> QED
      BY <2>1, <2>2
  <1> QED
    BY <1>2, <1>4 DEF DepStep, SlotsNamed, SlotIds

\* The state alone changes.
LEMMA DepState ==
    ASSUME TypeOK, SlotsNamed, NEW st \in DeploymentState, dep' = [dep EXCEPT !.st = st]
    PROVE  DepStep /\ dep'.st = st
  <1>1. dep' \in Deployment /\ dep'.st = st /\ dep'.reps = dep.reps /\ dep'.anchor = dep.anchor
    BY DEF TypeOK, Deployment
  <1> QED
    BY <1>1 DEF DepStep, TypeOK, SlotsNamed

\* A slot's update advances the state, and names the machine once.
LEMMA Patched ==
    ASSUME TypeOK, SlotsNamed, NEW i \in Ids, NEW st \in DeploymentState, NEW ep \in BOOLEAN,
           NEW pid \in Machines \cup {None}, pid # None => Owned(pid, i),
           patchDeploymentSlot(i, st, ep, pid)
    PROVE  /\ DepStep /\ InstStep
           /\ dep'.st = dep.st \/ dep'.st = provisioningAdvance(dep.st, st)
           /\ \A j \in Ids : inst'[j].st = inst[j].st
  <1>0. PICK slot : slot = MemberOf(dep, i)
    OBVIOUS
  <1>1. DepStep /\ (dep'.st = dep.st \/ dep'.st = provisioningAdvance(dep.st, st))
    <2>1. CASE slot = {}
      <3>1. dep' = dep
        BY <1>0, <2>1 DEF patchDeploymentSlot
      <3> QED
        BY <3>1, DepSame
    <2>2. CASE slot # {}
      <3>1. PICK q : q = dep.reps
        OBVIOUS
      <3>2. PICK n \in 0..MaxSlots : n = Len(dep.reps) /\ DOMAIN q = 1..n
        BY <3>1, DepTyped
      <3>3. PICK reps : reps = [k \in DOMAIN dep.reps |->
                                  [id |-> dep.reps[k].id,
                                   ep |-> dep.reps[k].ep \/ (ep /\ k \in MemberOf(dep, i))]]
        OBVIOUS
      <3>4. ASSUME NEW k \in 1..n PROVE reps[k] \in ReplicaBacking /\ reps[k].id \in SlotIds(k)
        <4>1. PICK b \in ReplicaBacking : b = q[k]
          BY <3>1, <3>2, DepTyped
        <4>2. b.id \in SlotIds(k)
          BY <4>1, <3>1, <3>2 DEF SlotsNamed
        <4>3. b.ep \in BOOLEAN
          BY Zenon DEF ReplicaBacking
        <4>4. (b.ep \/ (ep /\ k \in MemberOf(dep, i))) \in BOOLEAN
          BY <4>3
        <4>5. PICK e \in BOOLEAN : e = (b.ep \/ (ep /\ k \in MemberOf(dep, i)))
          BY <4>4
        <4>6. [id |-> b.id, ep |-> e] \in ReplicaBacking
          BY DEF ReplicaBacking
        <4>7. reps[k] = [id |-> b.id, ep |-> e]
          BY <3>1, <3>2, <3>3, <4>1, <4>5
        <4> QED
          BY <4>2, <4>6, <4>7
      <3>5. reps \in [1..n -> ReplicaBacking]
        BY <3>1, <3>2, <3>3, <3>4
      <3>6. PICK new : new = provisioningAdvance(dep.st, st)
        OBVIOUS
      <3>7. new \in DeploymentState
        BY <3>6, DepTyped DEF provisioningAdvance
      <3>8. dep' = [dep EXCEPT !.st = new, !.reps = reps, !.anchor = dep.anchor]
        <4>1. MemberOf(dep, i) # {}
          BY <1>0, <2>2
        <4>2. dep' = [dep EXCEPT
                        !.st = provisioningAdvance(@, st),
                        !.reps = [k \in DOMAIN @ |->
                                    [id |-> @[k].id,
                                     ep |-> @[k].ep \/ (ep /\ k \in MemberOf(dep, i))]]]
          BY <4>1, Zenon DEF patchDeploymentSlot
        <4>3. dep' = [dep EXCEPT !.st = new, !.reps = reps]
          BY <4>2, <3>3, <3>6
        <4> QED
          BY <4>3 DEF TypeOK, Deployment
      <3>9. dep.anchor \in Ids \cup {None} /\ dep.anchor \in SlotIds(1)
        BY DepTyped DEF SlotsNamed
      <3>10. PICK a \in Ids \cup {None} : a = dep.anchor
        BY <3>9
      <3>11. DepStep /\ dep'.st = new
        BY <3>4, <3>5, <3>7, <3>8, <3>9, <3>10, DepMade
      <3> QED
        BY <3>6, <3>11
    <2> QED
      BY <2>1, <2>2
  <1>2. InstStep /\ \A j \in Ids : inst'[j].st = inst[j].st
    <2>0. inst \in [Ids -> Record]
      BY DEF TypeOK
    <2>1. CASE inst' = inst
      BY <2>1 DEF InstStep
    <2>2. CASE inst' = [inst EXCEPT ![i].pid = pid]
      <3>1. PICK q \in Record : q = inst[i]
        BY <2>0
      <3>2. PICK r : r = [q EXCEPT !.pid = pid]
        OBVIOUS
      <3>3. r \in Record /\ r.pid = pid /\ r.st = q.st
        BY <3>2 DEF Record
      <3>4. inst' = [inst EXCEPT ![i] = r]
        BY <2>2, <3>1, <3>2
      <3> QED
        BY <2>0, <3>1, <3>3, <3>4 DEF InstStep, Bound
    <2> QED
      BY <2>1, <2>2 DEF patchDeploymentSlot
  <1> QED
    BY <1>1, <1>2

-----------------------------------------------------------------------------
(* Every step keeps the slots to their own machines *)

\* The part of the invariant that no step can break, whatever callers ask for.
Core == TypeOK /\ SlotsNamed /\ CallsShaped /\ CallsAsked /\ Binding

Kept ==
    /\ CallStep /\ InstStep /\ CloudStep /\ DepStep
    /\ creates' \in 0..MaxCreates /\ scenario' = scenario

\* A step of this form keeps it.
LEMMA CoreKept ==
    ASSUME Core, Kept
    PROVE  Core'
  <1>1. /\ call' \in [Callers -> Call] /\ CallsShaped' /\ CallsAsked'
        /\ (\A c \in Callers : CallBound(call[c]))'
    BY CallsKept DEF Core, Kept
  <1>2. inst' \in [Ids -> Record] /\ (\A i \in Ids : Bound(inst[i], i))'
    BY InstKept DEF Core, Kept
  <1>3. cloud' \in [Machines -> Machine]
    BY OwnedStays DEF Core, Kept
  <1>4. dep' \in Deployment /\ Len(dep'.reps) <= MaxSlots /\ SlotsNamed'
    BY DEF Kept, DepStep
  <1>5. TypeOK'
    BY <1>1, <1>2, <1>3, <1>4 DEF TypeOK, Core, Kept
  <1>6. Binding'
    <2>1. (\A c \in Callers, s \in Slots :
              call[c].work[s].pid # None => Owned(call[c].work[s].pid, IdOf(c, s)))'
      BY <1>1 DEF CallBound, Bound, IdIn, IdOf
    <2>2. (\A c \in Callers, i \in Ids :
              call[c].snap[i].pid # None => Owned(call[c].snap[i].pid, i))'
      BY <1>1 DEF CallBound, Bound
    <2>3. (\A c \in Callers : call[c].rec.pid # None => Owned(call[c].rec.pid, Cur(c)))'
      BY <1>1 DEF CallBound, Bound, Cur
    <2>4. (\A i \in Ids : inst[i].pid # None => Owned(inst[i].pid, i))'
      BY <1>2 DEF Bound
    <2>5. (\A k, l \in DOMAIN dep.reps :
              dep.reps[k].id # None /\ dep.reps[k].id = dep.reps[l].id => k = l)'
      <3>1. dep'.reps \in Seq(ReplicaBacking)
        BY <1>4 DEF Deployment
      <3>2. \A k \in DOMAIN dep'.reps : k \in Nat /\ k >= 1
        BY <3>1
      <3>3. \A k \in DOMAIN dep'.reps : dep'.reps[k].id \in SlotIds(k)
        BY <1>4 DEF SlotsNamed, SlotIds
      <3> QED
        BY <3>2, <3>3, NamesDiffer
    <2> QED
      BY <2>1, <2>2, <2>3, <2>4, <2>5 DEF Binding
  <1> QED
    BY <1>1, <1>4, <1>5, <1>6 DEF Core

\* The slot of a goroutine that is at work, and its machine.
LEMMA AtWork ==
    ASSUME Core, NEW c \in Callers, NEW s \in Slots, call[c].work[s].pc # "none"
    PROVE  /\ IdOf(c, s) \in Ids /\ IdOf(c, s) = IdIn(call[c], s)
           /\ s <= call[c].from + call[c].n
           /\ call[c].work[s].pid \in Machines \cup {None}
           /\ call[c].work[s].pid # None => Owned(call[c].work[s].pid, IdOf(c, s))
           /\ call[c].op \in {"create", "scale"}
  <1>1. PICK k \in Call : k = call[c]
    BY DEF Core, TypeOK
  <1>2. s \in (k.from + 1)..(k.from + k.n) /\ k.op \in {"create", "scale"}
    BY <1>1 DEF Core, CallsShaped, Shaped
  <1>3. k.from \in Nat /\ k.n \in Nat /\ k.work[s] \in Work
    BY CallTyped, Bounds
  <1>4. s <= k.from + k.n
    BY <1>2, <1>3
  <1>5. k.work[s].pid \in Machines \cup {None}
    BY <1>3 DEF Work
  <1>6. IdIn(k, s) \in Ids
    BY <1>4, IdOfSlot
  <1>7. IdOf(c, s) = IdIn(k, s)
    BY <1>1 DEF IdOf, IdIn
  <1> QED
    BY <1>1, <1>2, <1>4, <1>5, <1>6, <1>7 DEF Core, Binding

\* A goroutine moves on, holding a machine of its slot or none.
LEMMA WorkGoes ==
    ASSUME Core, NEW c \in Callers, NEW s \in Slots, call[c].work[s].pc # "none",
           NEW p \in WorkPc, NEW m \in Machines \cup {None}, SetWork(c, s, p, m),
           NEW i, i = IdOf(c, s), m # None => Owned(m, i)', CloudStep
    PROVE  CallStep
  <1>1. PICK k \in Call : k = call[c]
    BY DEF Core, TypeOK
  <1>2. Shaped(k) /\ Asked(k) /\ CallBound(k)
    BY <1>1, CallOf DEF Core
  <1>3. CallBound(k)'
    BY <1>2, HeldStays DEF Core
  <1>4. PICK w : w = [pc |-> p, pid |-> m]
    OBVIOUS
  <1>5. w \in Work /\ w.pid = m
    BY <1>4 DEF Work
  <1>6. i = IdIn(k, s)
    BY <1>1 DEF IdOf, IdIn
  <1>7. Bound(w, IdIn(k, s))'
    BY <1>5, <1>6 DEF Bound, IdIn
  <1>8. PICK after : after = [k EXCEPT !.work[s] = w]
    OBVIOUS
  <1>9. after \in Call /\ Shaped(after) /\ Asked(after) /\ CallBound(after)'
    BY <1>1, <1>2, <1>3, <1>5, <1>7, <1>8, WorkCall
  <1>10. call' = [call EXCEPT ![c] = after]
    BY <1>1, <1>4, <1>8 DEF SetWork
  <1> QED
    BY <1>9, <1>10 DEF CallStep

\* What others see of it.
LEMMA WorkSeen ==
    ASSUME TypeOK, NEW c \in Callers, NEW s \in Slots, NEW p, NEW m, SetWork(c, s, p, m)
    PROVE  \A d \in Callers :
              /\ d # c => call'[d] = call[d]
              /\ call'[d].op = call[d].op /\ call'[d].pc = call[d].pc
              /\ \A t \in Slots :
                    /\ IdOf(d, t)' = IdOf(d, t)
                    /\ call'[d].work[t].pc = IF d = c /\ t = s THEN p ELSE call[d].work[t].pc
  <1>0. call \in [Callers -> Call]
    BY DEF TypeOK
  <1>1. PICK k \in Call : k = call[c]
    BY <1>0
  <1>2. PICK w : w = [pc |-> p, pid |-> m]
    OBVIOUS
  <1>3. PICK v : v = [k.work EXCEPT ![s] = w]
    OBVIOUS
  <1>4. PICK after : after = [k EXCEPT !.work = v]
    OBVIOUS
  <1>5. /\ after.op = k.op /\ after.pc = k.pc /\ after.from = k.from /\ after.n = k.n
        /\ after.work = v
    BY <1>4 DEF Call
  <1>6. \A t \in Slots : v[t].pc = IF t = s THEN p ELSE k.work[t].pc
    BY <1>2, <1>3, CallTyped
  <1>7. call' = [call EXCEPT ![c] = after]
    BY <1>1, <1>2, <1>3, <1>4 DEF SetWork
  <1>8. call'[c] = after /\ \A d \in Callers : d # c => call'[d] = call[d]
    BY <1>0, <1>7
  <1>9. ASSUME NEW d \in Callers
        PROVE  /\ call'[d].op = call[d].op /\ call'[d].pc = call[d].pc
               /\ call'[d].from = call[d].from /\ call'[d].n = call[d].n
    BY <1>1, <1>5, <1>8
  <1>10. ASSUME NEW d \in Callers, NEW t \in Slots
         PROVE  call'[d].work[t].pc = IF d = c /\ t = s THEN p ELSE call[d].work[t].pc
    BY <1>1, <1>5, <1>6, <1>8
  <1> QED
    BY <1>8, <1>9, <1>10 DEF IdOf

\* Ordinary steps of the account.
LEMMA CloudSame ==
    ASSUME cloud' = cloud
    PROVE  CloudStep /\ \A m, i : Owned(m, i) => Owned(m, i)'
BY DEF CloudStep, Owned

\* A record is written for a slot.
LEMMA InstWrite ==
    ASSUME NEW i \in Ids, NEW st \in InstanceState, NEW pid \in Machines \cup {None},
           pid # None => Owned(pid, i), inst' = [inst EXCEPT ![i] = [st |-> st, pid |-> pid]]
    PROVE  InstStep
  <1>1. PICK r : r = [st |-> st, pid |-> pid]
    OBVIOUS
  <1>2. r \in Record /\ r.pid = pid
    BY <1>1 DEF Record
  <1> QED
    BY <1>1, <1>2 DEF InstStep, Bound

\* A slot's goroutine keeps to its own machine.
LEMMA WorkKept ==
    ASSUME Core, NEW c \in Callers, NEW s \in Slots, WorkStep(c, s)
    PROVE  Kept
  <1> PICK i, m : i = IdOf(c, s) /\ m = call[c].work[s].pid
    OBVIOUS
  <1>0. creates \in 0..MaxCreates /\ TypeOK /\ SlotsNamed
    BY DEF Core, TypeOK
  <1>1. CASE placeReplicaInstance(c, s)
    <2>1. call[c].work[s].pc # "none" /\ cloud' = cloud /\ inst' = inst /\ dep' = dep
      BY <1>1 DEF placeReplicaInstance
    <2>2. i \in Ids
      BY <2>1, AtWork
    <2>3. PICK old \in Record : old = inst[i]
      BY <2>2, <1>0 DEF TypeOK
    <2>4. old.pid \in Machines \cup {None} /\ (old.pid # None => Owned(old.pid, i))
      BY <2>2, <2>3 DEF Record, Core, Binding
    <2>5. SetWork(c, s, "placed", old.pid) \/ SetWork(c, s, "patch", None)
      BY <1>1, <2>3 DEF placeReplicaInstance
    <2>6. CallStep
      BY <2>1, <2>4, <2>5, CloudSame, WorkGoes DEF WorkPc
    <2> QED
      BY <1>0, <1>1, <2>1, <2>6, CloudSame, DepSame DEF Kept, InstStep, placeReplicaInstance
  <1>2. CASE PlaceFails(c, s)
    <2>1. call[c].work[s].pc # "none" /\ cloud' = cloud /\ inst' = inst /\ dep' = dep
      BY <1>2 DEF PlaceFails
    <2>2. CallStep
      BY <1>2, <2>1, CloudSame, WorkGoes DEF WorkPc, PlaceFails
    <2> QED
      BY <1>0, <1>2, <2>1, <2>2, CloudSame, DepSame DEF Kept, InstStep, PlaceFails
  <1>3. CASE PlacePatch(c, s)
    <2>1. call[c].work[s].pc # "none" /\ cloud' = cloud /\ dep' = dep
      BY <1>3 DEF PlacePatch
    <2>2. i \in Ids
      BY <2>1, AtWork
    <2>3. SetWork(c, s, "placed", None) \/ SetWork(c, s, "spawn", None)
      BY <1>3 DEF PlacePatch
    <2>4. CallStep
      BY <2>1, <2>3, CloudSame, WorkGoes DEF WorkPc
    <2>5. InstStep
      BY <1>3, <2>2, InstWrite DEF PlacePatch, newPendingInstance, InstanceState
    <2> QED
      BY <1>0, <1>3, <2>1, <2>4, <2>5, CloudSame, DepSame DEF Kept, PlacePatch
  <1>4. CASE SpawnStamp(c, s)
    <2>1. call[c].work[s].pc # "none" /\ cloud' = cloud /\ dep' = dep
      BY <1>4 DEF SpawnStamp
    <2>2. i \in Ids /\ m \in Machines \cup {None} /\ (m # None => Owned(m, i))
      BY <2>1, AtWork
    <2>3. CallStep
      BY <1>4, <2>1, <2>2, CloudSame, WorkGoes DEF WorkPc, SpawnStamp
    <2>4. InstStep
      BY <1>4, <2>2, InstWrite DEF SpawnStamp, InstanceState
    <2> QED
      BY <1>0, <1>4, <2>1, <2>3, <2>4, CloudSame, DepSame DEF Kept, SpawnStamp
  <1>5. CASE SshReady(c, s)
    <2>1. call[c].work[s].pc # "none" /\ cloud' = cloud /\ dep' = dep
      BY <1>5 DEF SshReady
    <2>2. i \in Ids /\ m \in Machines \cup {None} /\ (m # None => Owned(m, i))
      BY <2>1, AtWork
    <2>3. CallStep
      BY <1>5, <2>1, <2>2, CloudSame, WorkGoes DEF WorkPc, SshReady
    <2>4. InstStep
      <3>1. CASE inst' = inst
        BY <3>1 DEF InstStep
      <3>2. CASE inst' = [inst EXCEPT ![i] = [st |-> "ACTIVE", pid |-> m]]
        BY <3>2, <2>2, InstWrite DEF InstanceState
      <3> QED
        BY <1>5, <3>1, <3>2 DEF SshReady
    <2> QED
      BY <1>0, <1>5, <2>1, <2>3, <2>4, CloudSame, DepSame DEF Kept, SshReady
  <1>6. CASE SpawnFails(c, s)
    <2>1. call[c].work[s].pc # "none" /\ cloud' = cloud /\ dep' = dep
      BY <1>6 DEF SpawnFails
    <2>2. i \in Ids
      BY <2>1, AtWork
    <2>3. CallStep
      BY <1>6, <2>1, CloudSame, WorkGoes DEF WorkPc, SpawnFails
    <2>4. InstStep
      <3>1. CASE inst' = inst
        BY <3>1 DEF InstStep
      <3>2. CASE inst' = [inst EXCEPT ![i] = [st |-> "FAILED", pid |-> None]]
        BY <3>2, <2>2, InstWrite DEF InstanceState
      <3> QED
        BY <1>6, <3>1, <3>2 DEF SpawnFails
    <2> QED
      BY <1>0, <1>6, <2>1, <2>3, <2>4, CloudSame, DepSame DEF Kept, SpawnFails
  <1>7. CASE KeyFails(c, s) \/ Connect(c, s) \/ DeployFails(c, s) \/ EngineFails(c, s)
    <2>1. /\ call[c].work[s].pc # "none" /\ cloud' = cloud /\ inst' = inst /\ dep' = dep
          /\ creates' = creates /\ scenario' = scenario
          /\ SetWork(c, s, "failed", m) \/ SetWork(c, s, "report", m)
      BY <1>7 DEF KeyFails, Connect, DeployFails, EngineFails
    <2>2. i \in Ids /\ m \in Machines \cup {None} /\ (m # None => Owned(m, i))
      BY <2>1, AtWork
    <2>3. CallStep
      BY <2>1, <2>2, CloudSame, WorkGoes DEF WorkPc
    <2> QED
      BY <1>0, <2>1, <2>3, CloudSame, DepSame DEF Kept, InstStep
  <1>8. CASE DeployStarting(c, s) \/ DeployConfiguring(c, s) \/ DeployRunning(c, s)
    <2>1. /\ call[c].work[s].pc # "none" /\ cloud' = cloud
          /\ creates' = creates /\ scenario' = scenario
          /\ SetWork(c, s, "rent", m) \/ SetWork(c, s, "boot", m) \/ SetWork(c, s, "final", m)
      BY <1>8 DEF DeployStarting, DeployConfiguring, DeployRunning
    <2>2. i \in Ids /\ m \in Machines \cup {None} /\ (m # None => Owned(m, i))
      BY <2>1, AtWork
    <2>3. CallStep
      BY <2>1, <2>2, CloudSame, WorkGoes DEF WorkPc
    <2>4. \/ patchDeploymentSlot(i, "STARTING", FALSE, None)
          \/ patchDeploymentSlot(i, "CONFIGURING", FALSE, m)
          \/ patchDeploymentSlot(i, "RUNNING", TRUE, m)
      BY <1>8 DEF DeployStarting, DeployConfiguring, DeployRunning
    <2>5. {"STARTING", "CONFIGURING", "RUNNING"} \subseteq DeploymentState
      BY DEF DeploymentState, InFlight
    <2>6. DepStep /\ InstStep
      BY <1>0, <2>2, <2>4, <2>5, Patched
    <2> QED
      BY <1>0, <2>1, <2>3, <2>6, CloudSame DEF Kept
  <1>9. CASE FinalizeRead(c, s)
    <2>1. call[c].work[s].pc # "none" /\ cloud' = cloud /\ inst' = inst /\ dep' = dep
      BY <1>9 DEF FinalizeRead
    <2>2. i \in Ids
      BY <2>1, AtWork
    <2>3. PICK old \in Record : old = inst[i]
      BY <2>2, <1>0 DEF TypeOK
    <2>4. old.pid \in Machines \cup {None} /\ (old.pid # None => Owned(old.pid, i))
      BY <2>2, <2>3 DEF Record, Core, Binding
    <2>5. SetWork(c, s, "ok", None) \/ SetWork(c, s, "write", old.pid)
      BY <1>9, <2>3 DEF FinalizeRead
    <2>6. CallStep
      BY <2>1, <2>4, <2>5, CloudSame, WorkGoes DEF WorkPc
    <2> QED
      BY <1>0, <1>9, <2>1, <2>6, CloudSame, DepSame DEF Kept, InstStep, FinalizeRead
  <1>10. CASE FinalizeWrite(c, s)
    <2>1. call[c].work[s].pc # "none" /\ cloud' = cloud /\ dep' = dep
      BY <1>10 DEF FinalizeWrite
    <2>2. i \in Ids /\ m \in Machines \cup {None} /\ (m # None => Owned(m, i))
      BY <2>1, AtWork
    <2>3. CallStep
      BY <1>10, <2>1, CloudSame, WorkGoes DEF WorkPc, FinalizeWrite
    <2>4. InstStep
      BY <1>10, <2>2, InstWrite DEF FinalizeWrite, InstanceState
    <2> QED
      BY <1>0, <1>10, <2>1, <2>3, <2>4, CloudSame, DepSame DEF Kept, FinalizeWrite
  <1>11. ASSUME NEW n \in Machines, Spawn(c, s, n) \/ CreatePod(c, s, n)
         PROVE  Kept
    <2>1. /\ call[c].work[s].pc # "none" /\ Rent(i, n) /\ inst' = inst /\ dep' = dep
          /\ creates' = creates /\ scenario' = scenario
          /\ SetWork(c, s, "stamp", n) \/ SetWork(c, s, "report", n)
      BY <1>11 DEF Spawn, CreatePod
    <2>2. i \in Ids
      BY <2>1, AtWork
    <2>3. CloudStep
      BY <2>1, <2>2 DEF CloudStep
    <2>4. Owned(n, i)'
      BY <1>0, <2>1 DEF Rent, Owned, TypeOK
    <2>5. CallStep
      BY <2>1, <2>3, <2>4, WorkGoes DEF WorkPc
    <2> QED
      BY <1>0, <2>1, <2>3, <2>5, DepSame DEF Kept, InstStep
  <1> QED
    BY <1>1, <1>2, <1>3, <1>4, <1>5, <1>6, <1>7, <1>8, <1>9, <1>10, <1>11 DEF WorkStep

\* A call is over.
LEMMA IdleGoes ==
    ASSUME NEW c \in Callers, call' = [call EXCEPT ![c] = Idle]
    PROVE  CallStep
BY IdleTyped, IdleGood DEF CallStep

\* What the claims start with.
LEMMA Claimed ==
    ASSUME NEW c \in Callers, NEW op, NEW pc, NEW from, NEW todo, NEW after,
           after = [Idle EXCEPT !.op = op, !.pc = pc, !.from = from, !.todo = todo],
           from \in 0..MaxSlots, todo \in (SUBSET Ids),
           \/ op = "scale" /\ pc \in {"normalise", "plan"} /\ "scale" \in Ops
           \/ op = "destroy" /\ pc = "read" /\ "destroy" \in Ops,
           call' = [call EXCEPT ![c] = after]
    PROVE  CallStep
  <1>1. op \in CallOp /\ pc \in CallPc
    BY DEF CallOp, CallPc
  <1>2. /\ after \in Call /\ after.op = op /\ after.pc = pc /\ after.from = from
        /\ after.n = 0 /\ after.work = Idle.work /\ after.snap = Idle.snap
        /\ after.rec = Idle.rec /\ after.cur = Idle.cur
    BY <1>1, IdleTyped DEF Call
  <1>3. from + 0 <= MaxSlots
    BY Bounds
  <1>4. \A s \in Slots : after.work[s].pc = "none" /\ after.work[s].pid = None
    BY <1>2, IdleTyped, NothingTyped
  <1>5. Shaped(after)
    BY <1>2, <1>3, <1>4, IdleTyped DEF Shaped, Releasing
  <1>6. Asked(after)
    BY <1>2 DEF Asked
  <1>7. CallBound(after)'
    BY <1>2, <1>4, IdleGood DEF CallBound, Bound
  <1> QED
    BY <1>2, <1>5, <1>6, <1>7 DEF CallStep

\* The instances behind a deployment are instances.
LEMMA EffectiveTyped ==
    ASSUME TypeOK
    PROVE  EffectiveInstanceIDs(dep) \in (SUBSET Ids)
  <1>1. \A k \in DOMAIN dep.reps : dep.reps[k].id \in Ids \cup {None}
    BY DepTyped DEF ReplicaBacking
  <1> QED
    BY <1>1, DepTyped DEF EffectiveInstanceIDs

\* The claims keep it.
LEMMA ClaimKept ==
    ASSUME Core, NEW c \in Callers,
           (\E n \in Slots : CreateClaim(c, n)) \/ ScaleRead(c) \/ DestroyClaim(c)
    PROVE  Kept
  <1>0. creates \in 0..MaxCreates /\ TypeOK /\ SlotsNamed
    BY DEF Core, TypeOK
  <1>1. ASSUME NEW n \in Slots, CreateClaim(c, n)
        PROVE  Kept
    <2>1. PICK after : after = Started("create", 0, n)
      OBVIOUS
    <2>2. call' = [call EXCEPT ![c] = after]
      BY <1>1, <2>1 DEF CreateClaim, StartFanOut, Started
    <2>3. n \in Nat /\ 0 + n <= MaxSlots
      BY Bounds DEF Slots
    <2>4. after \in Call /\ Shaped(after) /\ CallBound(after)' /\ after.op = "create"
      BY <2>1, <2>3, StartCall
    <2>5. Ops \cap {"create", "replace"} # {}
      BY <1>1 DEF CreateClaim
    <2>6. CallStep
      BY <2>2, <2>4, <2>5 DEF CallStep, Asked
    <2>7. DepStep
      <3>0. PICK z \in Nat : z = 0
        OBVIOUS
      <3>1. PICK reps : reps = <<>>
        OBVIOUS
      <3>2. reps \in [1..z -> ReplicaBacking] /\ z \in 0..MaxSlots /\ 1..z = {}
        BY <3>0, <3>1, Bounds
      <3>3. dep' = [st |-> "PENDING", reps |-> reps, anchor |-> None]
        BY <1>1, <3>1 DEF CreateClaim
      <3>4. "PENDING" \in DeploymentState /\ 0 \in 0..MaxSlots /\ None \in Ids \cup {None} /\ None \in SlotIds(1)
        BY Bounds DEF DeploymentState, InFlight, SlotIds
      <3> QED
        BY <3>2, <3>3, <3>4, <1>0, DepMade
    <2>8. creates' \in 0..MaxCreates
      BY <1>0, <1>1, ScenarioTyped, Bounds DEF CreateClaim, TypeOK
    <2> QED
      BY <1>1, <2>6, <2>7, <2>8, CloudSame DEF Kept, InstStep, CreateClaim
  <1>2. CASE ScaleRead(c)
    <2>1. PICK pc, from :
             /\ pc = IF dep.reps = <<>> THEN "normalise" ELSE "plan"
             /\ from = IF dep.reps # <<>> THEN Len(dep.reps)
                       ELSE IF dep.anchor # None THEN 1 ELSE 0
      OBVIOUS
    <2>2. from \in 0..MaxSlots
      BY <1>0, <2>1, DepTyped, Bounds
    <2>3. PICK after : after = [Idle EXCEPT !.op = "scale", !.pc = pc, !.from = from, !.todo = {}]
      OBVIOUS
    <2>4. after = [Idle EXCEPT !.op = "scale", !.pc = pc, !.from = from]
      BY <2>3, IdleTyped DEF Call
    <2>5. call' = [call EXCEPT ![c] = after]
      BY <1>2, <2>1, <2>4 DEF ScaleRead
    <2>6. "scale" \in Ops /\ {} \in (SUBSET Ids) /\ pc \in {"normalise", "plan"}
      BY <1>2, <2>1 DEF ScaleRead
    <2>7. CallStep
      BY <2>2, <2>3, <2>5, <2>6, Claimed
    <2> QED
      BY <1>0, <1>2, <2>7, CloudSame, DepSame DEF Kept, InstStep, ScaleRead
  <1>3. CASE DestroyClaim(c)
    <2>1. PICK todo \in (SUBSET Ids) : todo = EffectiveInstanceIDs(dep)
      BY <1>0, EffectiveTyped
    <2>2. PICK after : after = [Idle EXCEPT !.op = "destroy", !.pc = "read", !.from = 0, !.todo = todo]
      OBVIOUS
    <2>3. after = [Idle EXCEPT !.op = "destroy", !.pc = "read", !.todo = todo]
      BY <2>2, IdleTyped DEF Call
    <2>4. call' = [call EXCEPT ![c] = after] /\ "destroy" \in Ops
      BY <1>3, <2>1, <2>3 DEF DestroyClaim
    <2>5. 0 \in 0..MaxSlots
      BY Bounds
    <2>6. CallStep
      BY <2>2, <2>4, <2>5, Claimed
    <2>7. "TERMINATING" \in DeploymentState
      BY DEF DeploymentState
    <2>8. DepStep
      BY <1>0, <1>3, <2>7, DepState DEF DestroyClaim
    <2> QED
      BY <1>0, <1>3, <2>6, <2>8, CloudSame DEF Kept, InstStep, DestroyClaim
  <1> QED
    BY <1>1, <1>2, <1>3

\* The replica backing of a slot carries the slot's id.
LEMMA BackingTyped ==
    ASSUME TypeOK, NEW c \in Callers, NEW s \in Slots, s <= call[c].from + call[c].n
    PROVE  Backing(c, s) \in Ids \cup {None} /\ Backing(c, s) \in SlotIds(s)
  <1>1. PICK k \in Call : k = call[c]
    BY DEF TypeOK
  <1>2. IdOf(c, s) = IdIn(k, s)
    BY <1>1 DEF IdOf, IdIn
  <1> QED
    BY <1>1, <1>2, IdOfSlot DEF Backing, SlotIds

\* The slot table of a create, and of a scale-up.
LEMMA RecordedSlots ==
    ASSUME Core, NEW c \in Callers, recordCreateSlots(c) \/ recordAppendedSlots(c)
    PROVE  DepStep /\ dep'.st = dep.st
  <1>0. TypeOK /\ SlotsNamed
    BY DEF Core
  <1>1. PICK k \in Call : k = call[c]
    BY <1>0 DEF TypeOK
  <1>2. k.from \in Nat /\ k.n \in Nat /\ k.from + k.n <= MaxSlots
    BY <1>1, CallTyped, Bounds DEF Core, CallsShaped, Shaped
  <1>3. PICK f \in Nat, n \in Nat : f = k.from /\ n = k.n /\ f + n <= MaxSlots
    BY <1>2
  <1>4. \A s \in 1..(f + n) : Backing(c, s) \in Ids \cup {None} /\ Backing(c, s) \in SlotIds(s)
    BY <1>0, <1>1, <1>3, BackingTyped, Bounds DEF Slots
  <1>5. dep.anchor \in Ids \cup {None} /\ dep.anchor \in SlotIds(1) /\ dep.st \in DeploymentState
    BY <1>0, DepTyped DEF SlotsNamed
  <1>6. PICK st \in DeploymentState : st = dep.st
    BY <1>5
  <1>7. CASE recordCreateSlots(c)
    <2>1. PICK reps : reps = [s \in 1..n |-> [id |-> Backing(c, s), ep |-> FALSE]]
      OBVIOUS
    <2>2. ASSUME NEW s \in 1..n PROVE reps[s] \in ReplicaBacking /\ reps[s].id \in SlotIds(s)
      <3>1. reps[s] = [id |-> Backing(c, s), ep |-> FALSE]
        BY <2>1
      <3>2. s \in 1..(f + n)
        BY <1>3
      <3> QED
        BY <3>1, <3>2, <1>4 DEF ReplicaBacking
    <2>3. reps \in [1..n -> ReplicaBacking]
      BY <2>1, <2>2
    <2>4. PICK a : a = IF n = 1 /\ Backing(c, 1) # None THEN Backing(c, 1) ELSE dep.anchor
      OBVIOUS
    <2>5. a \in Ids \cup {None} /\ a \in SlotIds(1)
      BY <1>3, <1>4, <1>5, <2>4
    <2>6. dep' = [dep EXCEPT !.reps = reps, !.anchor = a]
      BY <1>1, <1>3, <1>7, <2>1, <2>4 DEF recordCreateSlots
    <2>7. dep' = [dep EXCEPT !.st = st, !.reps = reps, !.anchor = a]
      BY <2>6, <1>0, <1>6 DEF TypeOK, Deployment
    <2>8. n \in 0..MaxSlots
      BY <1>3, Bounds
    <2> QED
      BY <1>0, <1>6, <2>2, <2>3, <2>5, <2>7, <2>8, DepMade
  <1>8. CASE recordAppendedSlots(c)
    <2>1. PICK q : q = dep.reps
      OBVIOUS
    <2>2. PICK l \in 0..MaxSlots : l = Len(q) /\ DOMAIN q = 1..l
      BY <1>0, <2>1, DepTyped
    <2>3. PICK len \in 0..MaxSlots : len = IF l > f + n THEN l ELSE f + n
      BY <1>3, <2>2, Bounds
    <2>4. PICK old : old = [s \in 1..len |-> IF s <= l THEN q[s] ELSE [id |-> None, ep |-> FALSE]]
      OBVIOUS
    <2>5. ASSUME NEW s \in 1..len PROVE old[s] \in ReplicaBacking /\ old[s].id \in SlotIds(s)
      <3>1. CASE s <= l
        <4>1. old[s] = q[s] /\ s \in 1..l
          BY <2>2, <2>4, <3>1
        <4> QED
          BY <4>1, <1>0, <2>1, <2>2, DepTyped DEF SlotsNamed
      <3>2. CASE ~(s <= l)
        <4>1. old[s] = [id |-> None, ep |-> FALSE]
          BY <2>4, <3>2
        <4> QED
          BY <4>1 DEF ReplicaBacking, SlotIds
      <3> QED
        BY <3>1, <3>2
    <2>6. PICK reps : reps = [s \in 1..len |-> IF s \in (f + 1)..(f + n) THEN [old[s] EXCEPT !.id = Backing(c, s)]
                                               ELSE old[s]]
      OBVIOUS
    <2>7. ASSUME NEW s \in 1..len PROVE reps[s] \in ReplicaBacking /\ reps[s].id \in SlotIds(s)
      <3>1. CASE s \in (f + 1)..(f + n)
        <4>1. s \in 1..(f + n)
          BY <1>3, <3>1
        <4>2. PICK b \in ReplicaBacking : b = old[s]
          BY <2>5
        <4>3. PICK i \in Ids \cup {None} : i = Backing(c, s) /\ i \in SlotIds(s)
          BY <4>1, <1>4
        <4>4. reps[s] = [b EXCEPT !.id = i]
          BY <2>6, <3>1, <4>2, <4>3
        <4> QED
          BY <4>3, <4>4 DEF ReplicaBacking
      <3>2. CASE s \notin (f + 1)..(f + n)
        BY <2>5, <2>6, <3>2
      <3> QED
        BY <3>1, <3>2
    <2>8. reps \in [1..len -> ReplicaBacking]
      BY <2>6, <2>7
    <2>9. dep' = [dep EXCEPT !.reps = reps]
      <3>1. dep' = [dep EXCEPT !.reps =
              [s \in 1..len |-> IF s \in (f + 1)..(f + n)
                                THEN [(IF s <= l THEN q[s] ELSE [id |-> None, ep |-> FALSE]) EXCEPT !.id = Backing(c, s)]
                                ELSE IF s <= l THEN q[s] ELSE [id |-> None, ep |-> FALSE]]]
        BY <1>1, <1>3, <1>8, <2>1, <2>2, <2>3 DEF recordAppendedSlots, Planned
      <3>2. reps = [s \in 1..len |-> IF s \in (f + 1)..(f + n)
                                THEN [(IF s <= l THEN q[s] ELSE [id |-> None, ep |-> FALSE]) EXCEPT !.id = Backing(c, s)]
                                ELSE IF s <= l THEN q[s] ELSE [id |-> None, ep |-> FALSE]]
        BY <2>4, <2>6
      <3> QED
        BY <3>1, <3>2
    <2>10. PICK a : a = dep.anchor
      OBVIOUS
    <2>11. dep' = [dep EXCEPT !.st = st, !.reps = reps, !.anchor = a]
      BY <2>9, <2>10, <1>0, <1>6 DEF TypeOK, Deployment
    <2> QED
      BY <1>0, <1>5, <1>6, <2>7, <2>8, <2>10, <2>11, DepMade
  <1> QED
    BY <1>7, <1>8

\* A launch hands every slot its result or its deployer.
LEMMA LaunchCall ==
    ASSUME NEW k \in Call, Shaped(k), Asked(k), CallBound(k)', k.op \in {"create", "scale"},
           NEW v \in [Slots -> Work],
           \A s \in Slots : /\ v[s].pid = k.work[s].pid
                            /\ v[s].pc # "none" => s \in (k.from + 1)..(k.from + k.n),
           NEW after, after = [k EXCEPT !.pc = "launch", !.work = v]
    PROVE  /\ after \in Call /\ Shaped(after) /\ Asked(after) /\ CallBound(after)'
           /\ after.op = k.op
  <1>3. "launch" \in CallPc
    BY DEF CallPc
  <1>4. /\ after \in Call /\ after.op = k.op /\ after.pc = "launch" /\ after.from = k.from
        /\ after.n = k.n /\ after.work = v /\ after.cur = k.cur /\ after.snap = k.snap
        /\ after.rec = k.rec
    BY <1>3 DEF Call
  <1>5. k.rec = NoRecord
    BY DEF Shaped, Releasing
  <1>6. Shaped(after)
    BY <1>4, <1>5 DEF Shaped, Releasing
  <1>7. Asked(after)
    BY <1>4 DEF Asked
  <1>8. CallBound(after)'
    <2>1. \A s \in Slots : Bound(after.work[s], IdIn(after, s))'
      BY <1>4 DEF CallBound, IdIn, Bound
    <2> QED
      BY <1>4, <2>1 DEF CallBound
  <1> QED
    BY <1>4, <1>6, <1>7, <1>8

\* The steps of a fan-out keep it.
LEMMA FanOutKept ==
    ASSUME Core, NEW c \in Callers, FanOutStep(c)
    PROVE  Kept
  <1>0. creates \in 0..MaxCreates /\ TypeOK /\ SlotsNamed
    BY DEF Core, TypeOK
  <1>k. PICK k \in Call : k = call[c]
    BY <1>0 DEF TypeOK
  <1>g. Shaped(k) /\ Asked(k) /\ CallBound(k)
    BY <1>k, CallOf DEF Core
  <1>1. CASE ScaleNormalise(c)
    <2>0. cloud' = cloud /\ inst' = inst
      BY <1>1 DEF ScaleNormalise
    <2>1. k.op = "scale" /\ CallBound(k)'
      BY <1>k, <1>g, <1>0, <1>1, <2>0, DestroyOp, HeldStays, CloudSame DEF ScaleNormalise
    <2>2. PICK after : after = [k EXCEPT !.pc = "plan"]
      OBVIOUS
    <2>3. /\ after \in Call /\ after.op = k.op /\ after.pc = "plan" /\ after.from = k.from
          /\ after.n = k.n /\ after.work = k.work /\ after.cur = k.cur /\ after.snap = k.snap
          /\ after.rec = k.rec
      BY <2>2 DEF Call, CallPc
    <2>4. Shaped(after)
      BY <2>1, <2>3, <1>g, <1>k, <1>1 DEF Shaped, Releasing, ScaleNormalise
    <2>5. Asked(after) /\ CallBound(after)'
      BY <2>1, <2>3, <1>g DEF Asked, CallBound, IdIn
    <2>6. CallStep
      BY <1>1, <1>k, <2>2, <2>3, <2>4, <2>5 DEF CallStep, ScaleNormalise
    <2>7. DepStep
      <3>1. CASE dep' = dep
        BY <3>1, <1>0, DepSame
      <3>2. CASE dep' # dep
        <4>1. dep' = [dep EXCEPT !.reps = <<[id |-> dep.anchor, ep |-> TRUE]>>]
          BY <3>2, <1>1 DEF ScaleNormalise
        <4>2. PICK a \in Ids \cup {None}, st \in DeploymentState :
                 a = dep.anchor /\ st = dep.st /\ a \in SlotIds(1)
          BY <1>0, DepTyped DEF SlotsNamed
        <4>a. [id |-> a, ep |-> TRUE] \in ReplicaBacking
          BY <4>2 DEF ReplicaBacking
        <4>3. PICK b \in ReplicaBacking : b = [id |-> a, ep |-> TRUE]
          BY <4>a
        <4>b. b.id = a
          BY <4>3
        <4>4. PICK reps : reps = <<b>>
          OBVIOUS
        <4>5. PICK z \in 0..MaxSlots : z = 1
          BY Bounds
        <4>6. reps \in [1..z -> ReplicaBacking] /\ \A s \in 1..z : reps[s].id \in SlotIds(s)
          <5>1. 1..z = {1} /\ DOMAIN reps = 1..1 /\ reps[1] = b
            BY <4>4, <4>5
          <5>2. reps = [s \in 1..1 |-> b]
            BY <4>4
          <5> QED
            BY <4>2, <4>b, <4>5, <5>1, <5>2
        <4>7. dep' = [dep EXCEPT !.reps = reps]
          BY <4>1, <4>2, <4>3, <4>4
        <4>8. dep' = [dep EXCEPT !.st = st, !.reps = reps, !.anchor = a]
          BY <4>2, <4>7, <1>0 DEF TypeOK, Deployment
        <4> QED
          BY <4>2, <4>5, <4>6, <4>8, <1>0, DepMade
      <3> QED
        BY <3>1, <3>2
    <2> QED
      BY <1>0, <1>1, <2>0, <2>6, <2>7, CloudSame DEF Kept, InstStep, ScaleNormalise
  <1>2. ASSUME NEW n \in Slots, ScalePlan(c, n)
        PROVE  Kept
    <2>1. k.op = "scale" /\ "scale" \in Ops
      BY <1>k, <1>g, <1>2, DestroyOp DEF ScalePlan, Asked
    <2>2. k.from \in Nat /\ n \in Nat /\ k.from + n <= MaxSlots
      BY <1>0, <1>k, <1>2, CallTyped, ScenarioTyped, Bounds DEF ScalePlan, TypeOK
    <2>3. PICK f \in Nat : f = k.from /\ f + n <= MaxSlots
      BY <2>2
    <2>4. PICK after : after = Started("scale", f, n)
      OBVIOUS
    <2>5. call' = [call EXCEPT ![c] = after]
      BY <1>2, <1>k, <2>3, <2>4 DEF ScalePlan, StartFanOut, Started
    <2>6. after \in Call /\ Shaped(after) /\ CallBound(after)' /\ after.op = "scale"
      BY <2>2, <2>3, <2>4, StartCall
    <2>7. CallStep
      BY <2>1, <2>5, <2>6 DEF CallStep, Asked
    <2> QED
      BY <1>0, <1>2, <2>7, CloudSame, DepSame DEF Kept, InstStep, ScalePlan
  <1>3. CASE ScaleNoDelta(c)
    <2>1. CallStep
      BY <1>3, IdleGoes DEF ScaleNoDelta
    <2> QED
      BY <1>0, <1>3, <2>1, CloudSame, DepSame DEF Kept, InstStep, ScaleNoDelta
  <1>4. CASE Launch(c)
    <2>0. cloud' = cloud /\ inst' = inst
      BY <1>4 DEF Launch
    <2>1. k.op \in {"create", "scale"} /\ CallBound(k)'
      BY <1>k, <1>g, <1>0, <1>4, <2>0, DestroyOp, HeldStays, CloudSame DEF Launch
    <2>a. \A s \in Slots : LaunchPc(c, s) \in WorkPc \ {"none"}
      BY DEF LaunchPc, WorkPc
    <2>2. PICK v : v = [s \in Slots |->
                          IF s \in (k.from + 1)..(k.from + k.n)
                          THEN [k.work[s] EXCEPT !.pc = LaunchPc(c, s)] ELSE k.work[s]]
      OBVIOUS
    <2>5. ASSUME NEW s \in Slots
          PROVE  /\ v[s] \in Work /\ v[s].pid = k.work[s].pid
                 /\ v[s].pc # "none" => s \in (k.from + 1)..(k.from + k.n)
      <3>1. PICK w \in Work : w = k.work[s]
        BY <1>k, CallTyped
      <3>2. PICK p \in WorkPc : p = LaunchPc(c, s)
        BY <2>a
      <3>3. CASE s \in (k.from + 1)..(k.from + k.n)
        <4>1. v[s] = [w EXCEPT !.pc = p]
          BY <2>2, <3>1, <3>2, <3>3
        <4> QED
          BY <3>1, <3>3, <4>1 DEF Work
      <3>4. CASE s \notin (k.from + 1)..(k.from + k.n)
        <4>1. v[s] = w
          BY <2>2, <3>1, <3>4
        <4> QED
          BY <3>1, <4>1, <1>g DEF Shaped
      <3> QED
        BY <3>3, <3>4
    <2>c. v \in [Slots -> Work]
      BY <2>2, <2>5
    <2>3. PICK after : after = [k EXCEPT !.pc = "launch", !.work = v]
      OBVIOUS
    <2>4. call' = [call EXCEPT ![c] = after]
      BY <1>4, <1>k, <2>2, <2>3 DEF Launch, Planned
    <2>6. /\ after \in Call /\ Shaped(after) /\ Asked(after) /\ CallBound(after)'
      BY <1>k, <1>g, <2>1, <2>3, <2>5, <2>c, LaunchCall
    <2>7. CallStep
      BY <2>4, <2>6 DEF CallStep
    <2>8. DepStep
      BY <1>4, RecordedSlots DEF Launch
    <2> QED
      BY <1>0, <1>4, <2>0, <2>7, <2>8, CloudSame DEF Kept, InstStep, Launch
  <1>5. CASE Aggregate(c)
    <2>1. CallStep
      BY <1>5, IdleGoes DEF Aggregate
    <2>2. PICK st : st = IF call[c].op = "create" THEN applyAggregateState(c)
                         ELSE applyScaleAggregate(c)
      OBVIOUS
    <2>3. st \in DeploymentState
      BY <1>0, <2>2, DepTyped DEF applyAggregateState, applyScaleAggregate, DeploymentState
    <2>4. DepStep
      BY <1>0, <1>5, <2>2, <2>3, DepState DEF Aggregate
    <2> QED
      BY <1>0, <1>5, <2>1, <2>4, CloudSame DEF Kept, InstStep, Aggregate
  <1> QED
    BY <1>1, <1>2, <1>3, <1>4, <1>5 DEF FanOutStep

\* A destroy's steps: it gets on with the instance it is at ...
LEMMA DestroyGoes ==
    ASSUME Core, NEW c \in Callers, CloudStep,
           call[c].pc \in Releasing \cup {"next"},
           NEW pc \in Releasing \ {"write"}, NEW cur \in Ids,
           \/ call' = [call EXCEPT ![c].pc = pc, ![c].cur = cur] /\ call[c].pc # "write"
           \/ call' = [call EXCEPT ![c].pc = pc] /\ call[c].pc \in Releasing \ {"write"}
    PROVE  CallStep
  <1>1. PICK k \in Call : k = call[c]
    BY DEF Core, TypeOK
  <1>2. Shaped(k) /\ Asked(k) /\ CallBound(k)
    BY <1>1, CallOf DEF Core
  <1>3. CallBound(k)' /\ k.op = "destroy"
    BY <1>1, <1>2, HeldStays, DestroyOp DEF Core
  <1>4. pc \in CallPc
    BY DEF CallPc, Releasing
  <1>5. k.rec = NoRecord /\ NoRecord.pid = None
    BY <1>1, <1>2, NothingTyped DEF Shaped
  <1>6. PICK u \in Ids :
           call' = [call EXCEPT ![c].pc = pc, ![c].cur = u] \/ (call' = [call EXCEPT ![c].pc = pc] /\ u = k.cur)
    BY <1>1, <1>2 DEF Shaped
  <1>7. PICK after : after = [k EXCEPT !.pc = pc, !.cur = u]
    OBVIOUS
  <1>8. call' = [call EXCEPT ![c] = after]
    <2>1. CASE call' = [call EXCEPT ![c].pc = pc, ![c].cur = u]
      BY <1>1, <1>7, <2>1
    <2>2. CASE call' = [call EXCEPT ![c].pc = pc] /\ u = k.cur
      <3>1. after = [k EXCEPT !.pc = pc]
        BY <1>7, <2>2 DEF Call
      <3> QED
        BY <1>1, <2>2, <3>1
    <2> QED
      BY <1>6, <2>1, <2>2
  <1>9. /\ after \in Call /\ after.op = k.op /\ after.from = k.from /\ after.n = k.n
        /\ after.work = k.work /\ after.snap = k.snap /\ after.pc = pc
        /\ after.cur = u /\ after.rec = k.rec
    BY <1>4, <1>7 DEF Call
  <1>10. Bound(after.rec, after.cur)'
    BY <1>5, <1>9 DEF Bound
  <1>11. Shaped(after) /\ Asked(after) /\ CallBound(after)'
    BY <1>2, <1>3, <1>5, <1>9, <1>10, DestroyCall
  <1> QED
    BY <1>8, <1>9, <1>11 DEF CallStep

\* ... or is done with it.
LEMMA NextGoes ==
    ASSUME Core, NEW c \in Callers, CloudStep, call[c].pc \in Releasing \cup {"next"},
           NEW i, NEW bad \in BOOLEAN, NextInstance(c, i, bad)
    PROVE  CallStep
  <1>1. PICK k \in Call : k = call[c]
    BY DEF Core, TypeOK
  <1>2. Shaped(k) /\ Asked(k) /\ CallBound(k)
    BY <1>1, CallOf DEF Core
  <1>3. CallBound(k)' /\ k.op = "destroy"
    BY <1>1, <1>2, HeldStays, DestroyOp DEF Core
  <1>4. PICK after : after = [k EXCEPT !.pc = "next", !.todo = @ \ {i}, !.cur = None,
                                       !.rec = NoRecord, !.failed = @ \/ bad]
    OBVIOUS
  <1>5. call' = [call EXCEPT ![c] = after]
    BY <1>1, <1>4, Zenon DEF NextInstance
  <1>6. after \in Call /\ Shaped(after) /\ Asked(after) /\ CallBound(after)'
    BY <1>2, <1>3, <1>4, NextCall
  <1> QED
    BY <1>5, <1>6 DEF CallStep

\* The steps of a destroy keep it.
LEMMA DestroyKept ==
    ASSUME Core, NEW c \in Callers, DestroyStep(c)
    PROVE  Kept
  <1>0. creates \in 0..MaxCreates /\ TypeOK /\ SlotsNamed
    BY DEF Core, TypeOK
  <1>k. PICK k \in Call : k = call[c]
    BY <1>0 DEF TypeOK
  <1>g. Shaped(k) /\ Asked(k) /\ CallBound(k)
    BY <1>k, CallOf DEF Core
  <1>d. {"TERMINATING", "TERMINATED", "FAILED"} \subseteq DeploymentState
    BY DEF DeploymentState
  <1>c. k.pc \in Releasing => /\ Cur(c) \in Ids /\ k.cur = Cur(c) /\ k.snap[Cur(c)] \in Record
                              /\ k.snap[Cur(c)].pid \in Machines \cup {None}
    BY <1>k, <1>g, CallTyped DEF Shaped, Cur, Record
  <1>1. CASE DestroyRead(c)
    <2>0. cloud' = cloud /\ inst' = inst
      BY <1>1 DEF DestroyRead
    <2>1. k.op = "destroy" /\ CallBound(k)'
      BY <1>k, <1>g, <1>0, <1>1, <2>0, DestroyOp, HeldStays, CloudSame DEF DestroyRead
    <2>2. PICK snap \in [Ids -> Record] : snap = inst
      BY <1>0 DEF TypeOK
    <2>3. PICK after : after = [k EXCEPT !.pc = "next", !.snap = snap]
      OBVIOUS
    <2>4. call' = [call EXCEPT ![c] = after]
      BY <1>1, <1>k, <2>2, <2>3 DEF DestroyRead
    <2>5. /\ after \in Call /\ after.op = k.op /\ after.pc = "next" /\ after.from = k.from
          /\ after.n = k.n /\ after.work = k.work /\ after.cur = k.cur /\ after.snap = snap
          /\ after.rec = k.rec
      BY <2>2, <2>3 DEF Call, CallPc
    <2>6. Shaped(after) /\ Asked(after)
      BY <2>1, <2>5, <1>g, <1>k, <1>1 DEF Shaped, Releasing, DestroyRead, Asked
    <2>7. \A i \in Ids : Bound(snap[i], i)'
      BY <2>0, <2>2, CloudSame DEF Core, Binding, Bound
    <2>8. CallBound(after)'
      BY <2>1, <2>5, <2>7 DEF CallBound, IdIn
    <2>9. CallStep
      BY <2>4, <2>5, <2>6, <2>8 DEF CallStep
    <2> QED
      BY <1>0, <1>1, <2>0, <2>9, CloudSame, DepSame DEF Kept, InstStep, DestroyRead
  <1>2. CASE DestroySkip(c)
    <2>1. cloud' = cloud /\ inst' = inst /\ dep' = dep
      BY <1>2 DEF DestroySkip
    <2>2. PICK i : NextInstance(c, i, FALSE) \/ NextInstance(c, i, TRUE)
      BY <1>2 DEF DestroySkip
    <2>3. CallStep
      BY <1>2, <2>1, <2>2, CloudSame, NextGoes DEF DestroySkip
    <2> QED
      BY <1>0, <1>2, <2>1, <2>3, CloudSame, DepSame DEF Kept, InstStep, DestroySkip
  <1>3. CASE DestroyBegin(c)
    <2>1. cloud' = cloud /\ inst' = inst
      BY <1>3 DEF DestroyBegin
    <2>2. PICK i \in Upcoming(c), st \in {"TERMINATED", "TERMINATING"}, pc \in {"release", "stop"} :
             /\ dep' = [dep EXCEPT !.st = st]
             /\ call' = [call EXCEPT ![c].pc = pc, ![c].cur = i]
      BY <1>3 DEF DestroyBegin
    <2>3. i \in Ids
      BY <2>2, <1>k, CallTyped DEF Upcoming
    <2>4. pc \in Releasing \ {"write"} /\ call[c].pc = "next"
      BY <1>3, <2>2 DEF Releasing, DestroyBegin
    <2>5. CallStep
      BY <2>1, <2>2, <2>3, <2>4, CloudSame, DestroyGoes
    <2>6. DepStep
      BY <1>0, <1>d, <2>2, DepState
    <2> QED
      BY <1>0, <1>3, <2>1, <2>5, <2>6, CloudSame DEF Kept, InstStep, DestroyBegin
  <1>4. CASE DestroyStop(c) \/ releaseRental(c)
    <2>1. /\ dep' = dep /\ inst' = inst /\ creates' = creates /\ scenario' = scenario
          /\ call[c].pc \in {"stop", "release"}
      BY <1>4 DEF DestroyStop, releaseRental
    <2>2. PICK m \in Machines \cup {None} : m = k.snap[Cur(c)].pid
      BY <1>c, <1>k, <2>1 DEF Releasing
    <2>3. Terminate(m) \/ cloud' = cloud
      BY <1>4, <1>k, <2>2 DEF DestroyStop, releaseRental
    <2>4. CloudStep
      BY <2>3 DEF CloudStep
    <2>5. PICK pc \in {"emit", "mark"} : call' = [call EXCEPT ![c].pc = pc]
      BY <1>4 DEF DestroyStop, releaseRental
    <2>6. pc \in Releasing \ {"write"} /\ call[c].pc \in Releasing \ {"write"} /\ Cur(c) \in Ids
      BY <2>1, <2>5, <1>c, <1>k DEF Releasing
    <2>7. CallStep
      BY <2>4, <2>5, <2>6, DestroyGoes
    <2> QED
      BY <1>0, <2>1, <2>4, <2>7, DepSame DEF Kept, InstStep
  <1>5. CASE DestroyStopFails(c) \/ DestroyUnreachable(c) \/ ReleaseFails(c)
    <2>1. /\ cloud' = cloud /\ inst' = inst /\ creates' = creates /\ scenario' = scenario
          /\ call[c].pc \in {"stop", "release"} /\ NextInstance(c, Cur(c), TRUE)
      BY <1>5 DEF DestroyStopFails, DestroyUnreachable, ReleaseFails
    <2>2. CallStep
      BY <2>1, CloudSame, NextGoes DEF Releasing
    <2>3. dep' = dep \/ \E st \in {"TERMINATING", "FAILED"} : dep' = [dep EXCEPT !.st = st]
      BY <1>5 DEF DestroyStopFails, DestroyUnreachable, ReleaseFails
    <2>4. DepStep
      BY <1>0, <1>d, <2>3, DepState, DepSame
    <2> QED
      BY <1>0, <2>1, <2>2, <2>4, CloudSame DEF Kept, InstStep
  <1>6. CASE DestroyEmit(c)
    <2>1. /\ cloud' = cloud /\ inst' = inst /\ call[c].pc \in Releasing \ {"write"}
          /\ call' = [call EXCEPT ![c].pc = "release"] /\ "release" \in Releasing \ {"write"}
      BY <1>6 DEF DestroyEmit, Releasing
    <2>2. CallStep
      BY <1>c, <1>k, <2>1, CloudSame, DestroyGoes
    <2>3. DepStep
      BY <1>0, <1>d, <1>6, DepState DEF DestroyEmit
    <2> QED
      BY <1>0, <1>6, <2>1, <2>2, <2>3, CloudSame DEF Kept, InstStep, DestroyEmit
  <1>7. CASE MarkRead(c)
    <2>1. cloud' = cloud /\ inst' = inst /\ dep' = dep /\ call[c].pc = "mark"
      BY <1>7 DEF MarkRead
    <2>2. CASE NextInstance(c, Cur(c), FALSE)
      <3>1. CallStep
        BY <2>1, <2>2, CloudSame, NextGoes DEF Releasing
      <3> QED
        BY <1>0, <1>7, <2>1, <3>1, CloudSame, DepSame DEF Kept, InstStep, MarkRead
    <2>3. CASE ~NextInstance(c, Cur(c), FALSE)
      <3>1. Cur(c) \in Ids /\ k.op = "destroy" /\ CallBound(k)'
        BY <1>0, <1>c, <1>g, <1>k, <2>1, DestroyOp, HeldStays, CloudSame DEF Releasing
      <3>2. PICK old \in Record : old = inst[Cur(c)]
        BY <1>0, <3>1 DEF TypeOK
      <3>3. PICK rec : rec = [old EXCEPT !.st = "TERMINATED"]
        OBVIOUS
      <3>4. rec \in Record /\ rec.pid = old.pid
        BY <3>2, <3>3 DEF Record, InstanceState
      <3>5. Bound(rec, k.cur)'
        BY <1>k, <2>1, <3>1, <3>2, <3>4, CloudSame DEF Bound, Core, Binding, Cur
      <3>6. PICK after : after = [k EXCEPT !.pc = "write", !.rec = rec]
        OBVIOUS
      <3>7. call' = [call EXCEPT ![c] = after]
        BY <1>7, <1>k, <2>3, <3>2, <3>3, <3>6 DEF MarkRead
      <3>8. /\ after \in Call /\ after.op = k.op /\ after.from = k.from /\ after.n = k.n
            /\ after.work = k.work /\ after.snap = k.snap /\ after.pc = "write"
            /\ after.cur = k.cur /\ after.rec = rec
        BY <3>4, <3>6 DEF Call, CallPc
      <3>9. after.cur \in Ids
        BY <3>8, <3>1, <1>k DEF Cur
      <3>10. Shaped(after) /\ Asked(after) /\ CallBound(after)'
        BY <1>g, <3>1, <3>5, <3>8, <3>9, DestroyCall DEF Releasing
      <3>11. CallStep
        BY <3>7, <3>8, <3>10 DEF CallStep
      <3> QED
        BY <1>0, <1>7, <2>1, <3>11, CloudSame, DepSame DEF Kept, InstStep, MarkRead
    <2> QED
      BY <2>2, <2>3
  <1>8. CASE MarkWrite(c)
    <2>1. cloud' = cloud /\ dep' = dep /\ call[c].pc = "write" /\ NextInstance(c, Cur(c), FALSE)
      BY <1>8 DEF MarkWrite
    <2>2. CallStep
      BY <2>1, CloudSame, NextGoes DEF Releasing
    <2>3. Cur(c) \in Ids /\ k.rec \in Record /\ Bound(k.rec, Cur(c))
      BY <1>c, <1>g, <1>k, <2>1, CallTyped DEF Releasing, CallBound, Cur
    <2>4. InstStep
      BY <1>8, <1>k, <2>3 DEF InstStep, MarkWrite
    <2> QED
      BY <1>0, <1>8, <2>1, <2>2, <2>4, CloudSame, DepSame DEF Kept, MarkWrite
  <1>9. CASE DestroyFinish(c)
    <2>1. CallStep
      BY <1>9, IdleGoes DEF DestroyFinish
    <2>2. PICK st \in {"TERMINATING", "TERMINATED"} : dep' = [dep EXCEPT !.st = st]
      BY <1>9 DEF DestroyFinish, DestroyState
    <2>3. DepStep
      BY <1>0, <1>d, <2>2, DepState
    <2> QED
      BY <1>0, <1>9, <2>1, <2>3, CloudSame DEF Kept, InstStep, DestroyFinish
  <1> QED
    BY <1>1, <1>2, <1>3, <1>4, <1>5, <1>6, <1>7, <1>8, <1>9 DEF DestroyStep

\* The daemon dies.
LEMMA CrashKept ==
    ASSUME Core, Crash
    PROVE  Core'
  <1>1. /\ dep' = dep /\ inst' = inst /\ cloud' = cloud /\ creates' = creates /\ scenario' = scenario
        /\ call' = [c \in Callers |-> Idle]
    BY DEF Crash
  <1>2. call' \in [Callers -> Call]
    BY <1>1, IdleTyped
  <1>3. \A c \in Callers : call'[c] = Idle
    BY <1>1
  <1>4. TypeOK' /\ SlotsNamed'
    BY <1>1, <1>2 DEF Core, TypeOK, SlotsNamed
  <1>5. CallsShaped'
    BY <1>3, IdleGood DEF CallsShaped, Shaped
  <1>6. CallsAsked'
    BY <1>1, <1>3, IdleTyped DEF CallsAsked, Asked
  <1>7. Binding'
    <2>1. (\A c \in Callers, s \in Slots :
              call[c].work[s].pid # None => Owned(call[c].work[s].pid, IdOf(c, s)))'
      BY <1>3, IdleTyped, NothingTyped
    <2>2. (\A c \in Callers, i \in Ids :
              call[c].snap[i].pid # None => Owned(call[c].snap[i].pid, i))'
      BY <1>3, IdleTyped, NothingTyped
    <2>3. (\A c \in Callers : call[c].rec.pid # None => Owned(call[c].rec.pid, Cur(c)))'
      BY <1>3, IdleTyped, NothingTyped
    <2>4. (\A i \in Ids : inst[i].pid # None => Owned(inst[i].pid, i))'
      BY <1>1 DEF Core, Binding, Owned
    <2>5. (\A k, l \in DOMAIN dep.reps :
              dep.reps[k].id # None /\ dep.reps[k].id = dep.reps[l].id => k = l)'
      BY <1>1 DEF Core, Binding
    <2> QED
      BY <2>1, <2>2, <2>3, <2>4, <2>5 DEF Binding
  <1> QED
    BY <1>4, <1>5, <1>6, <1>7 DEF Core

\* Every step keeps it.
LEMMA CoreNext ==
    ASSUME Core, [Next]_vars
    PROVE  Core'
  <1>1. CASE UNCHANGED vars
    <2>1. /\ dep' = dep /\ inst' = inst /\ cloud' = cloud /\ call' = call
          /\ creates' = creates /\ scenario' = scenario
      BY <1>1 DEF vars
    <2>2. TypeOK' /\ SlotsNamed'
      BY <2>1 DEF Core, TypeOK, SlotsNamed
    <2>3. CallsShaped' /\ CallsAsked'
      BY <2>1 DEF Core, CallsShaped, Shaped, CallsAsked, Asked, Ops
    <2>4. Binding'
      BY <2>1 DEF Core, Binding, Owned, IdOf, Cur
    <2> QED
      BY <2>2, <2>3, <2>4 DEF Core
  <1>2. CASE Crash
    BY <1>2, CrashKept
  <1>3. ASSUME NEW c \in Callers,
               \/ (\E n \in Slots : CreateClaim(c, n)) \/ ScaleRead(c) \/ DestroyClaim(c)
               \/ FanOutStep(c) \/ DestroyStep(c) \/ \E s \in Slots : WorkStep(c, s)
        PROVE  Core'
    <2>1. Kept
      BY <1>3, ClaimKept, FanOutKept, DestroyKept, WorkKept
    <2> QED
      BY <2>1, CoreKept
  <1> QED
    BY <1>1, <1>2, <1>3 DEF Next

-----------------------------------------------------------------------------
(* Where the file starts *)

\* The account, the records and the deployment of a file that is not empty.
LEMMA StartLive ==
    ASSUME NEW live \in (SUBSET Ids), NEW pod \in [live -> Machines],
           \A i, j \in live : pod[i] = pod[j] => i = j,
           inst = [i \in Ids |-> IF i \in live THEN [st |-> "ACTIVE", pid |-> pod[i]] ELSE NoRecord],
           cloud = [m \in Machines |->
                      IF \E i \in live : pod[i] = m
                      THEN [status |-> "rented", for |-> CHOOSE i \in live : pod[i] = m]
                      ELSE [status |-> "free", for |-> None]]
    PROVE  /\ inst \in [Ids -> Record] /\ cloud \in [Machines -> Machine]
           /\ \A i \in Ids : inst[i].pid # None => Owned(inst[i].pid, i)
           /\ \A m \in Machines : Rented(m) =>
                 cloud[m].for \in live /\ pod[cloud[m].for] = m /\ inst[cloud[m].for].st = "ACTIVE"
  <1>1. \A i \in Ids : inst[i] \in Record
    <2>1. \A i \in live : [st |-> "ACTIVE", pid |-> pod[i]] \in Record
      BY DEF Record, InstanceState
    <2> QED
      BY <2>1, NothingTyped
  <1>2. ASSUME NEW i \in live
        PROVE  /\ pod[i] \in Machines /\ cloud[pod[i]] = [status |-> "rented", for |-> i]
    <2>1. pod[i] \in Machines /\ \E j \in live : pod[j] = pod[i]
      OBVIOUS
    <2>2. (CHOOSE j \in live : pod[j] = pod[i]) = i
      BY <2>1
    <2> QED
      BY <2>1, <2>2
  <1>3. \A m \in Machines : (\A i \in live : pod[i] # m) => cloud[m] = [status |-> "free", for |-> None]
    OBVIOUS
  <1>4. \A m \in Machines : cloud[m] \in Machine
    BY <1>2, <1>3 DEF Machine
  <1>5. cloud \in [Machines -> Machine] /\ inst \in [Ids -> Record]
    BY <1>1, <1>4
  <1>6. \A i \in live : inst[i] = [st |-> "ACTIVE", pid |-> pod[i]]
    OBVIOUS
  <1>7. \A i \in Ids : inst[i].pid # None => Owned(inst[i].pid, i)
    BY <1>2, <1>6, NothingTyped DEF Owned
  <1>8. \A m \in Machines : Rented(m) =>
           cloud[m].for \in live /\ pod[cloud[m].for] = m /\ inst[cloud[m].for].st = "ACTIVE"
    BY <1>2, <1>3, <1>6 DEF Rented
  <1> QED
    BY <1>5, <1>7, <1>8

\* The invariant holds there.
LEMMA StartHolds ==
    ASSUME Init
    PROVE  DeploymentsInv
  <1>1. /\ scenario \in Scenarios /\ creates = 0 /\ call = [c \in Callers |-> Idle]
    BY DEF Init
  <1>2. \A c \in Callers : call[c] = Idle
    BY <1>1
  <1>3. call \in [Callers -> Call] /\ creates \in 0..MaxCreates
    BY <1>1, IdleTyped, Bounds
  <1>4. CallsShaped /\ CallsAsked
    BY <1>2, IdleGood DEF CallsShaped, CallsAsked
  <1>5. \A c \in Callers : CallBound(call[c])
    BY <1>2, IdleGood
  <1>6. OneCreate
    BY <1>2 DEF OneCreate
  <1>7. /\ inst \in [Ids -> Record] /\ cloud \in [Machines -> Machine]
        /\ \A i \in Ids : inst[i].pid # None => Owned(inst[i].pid, i)
        /\ \A m \in Machines : Rented(m) => cloud[m].for \in Ids /\ inst[cloud[m].for].st # "NONE"
        /\ \A m, n \in Machines : Rented(m) /\ Rented(n) /\ cloud[m].for = cloud[n].for => m = n
    <2>1. CASE /\ inst = [i \in Ids |-> NoRecord]
               /\ cloud = [m \in Machines |-> [status |-> "free", for |-> None]]
      <3>1. [status |-> "free", for |-> None] \in Machine
        BY DEF Machine
      <3> QED
        BY <2>1, <3>1, NothingTyped DEF Rented
    <2>2. ASSUME NEW live \in (SUBSET Ids), NEW pod \in [live -> Machines],
                 \A i, j \in live : pod[i] = pod[j] => i = j,
                 inst = [i \in Ids |-> IF i \in live THEN [st |-> "ACTIVE", pid |-> pod[i]] ELSE NoRecord],
                 cloud = [m \in Machines |->
                            IF \E i \in live : pod[i] = m
                            THEN [status |-> "rented", for |-> CHOOSE i \in live : pod[i] = m]
                            ELSE [status |-> "free", for |-> None]]
          PROVE  /\ inst \in [Ids -> Record] /\ cloud \in [Machines -> Machine]
                 /\ \A i \in Ids : inst[i].pid # None => Owned(inst[i].pid, i)
                 /\ \A m \in Machines : Rented(m) => cloud[m].for \in Ids /\ inst[cloud[m].for].st # "NONE"
                 /\ \A m, n \in Machines : Rented(m) /\ Rented(n) /\ cloud[m].for = cloud[n].for => m = n
      <3>1. /\ inst \in [Ids -> Record] /\ cloud \in [Machines -> Machine]
            /\ \A i \in Ids : inst[i].pid # None => Owned(inst[i].pid, i)
            /\ \A m \in Machines : Rented(m) =>
                 cloud[m].for \in live /\ pod[cloud[m].for] = m /\ inst[cloud[m].for].st = "ACTIVE"
        BY <2>2, StartLive
      <3> QED
        BY <3>1
    <2> QED
      BY <2>1, <2>2, Zenon DEF Init
  <1>8. /\ dep \in Deployment /\ Len(dep.reps) <= MaxSlots /\ SlotsNamed /\ dep.st \in {"NONE", "RUNNING"}
    <2>1. CASE dep = [st |-> "NONE", reps |-> <<>>, anchor |-> None]
      BY <2>1, Bounds DEF Deployment, DeploymentState, SlotsNamed, SlotIds
    <2>2. CASE dep = [st |-> "RUNNING", reps |-> <<>>, anchor |-> 0]
      BY <2>2, Bounds DEF Deployment, DeploymentState, SlotsNamed, SlotIds, Ids
    <2>3. CASE dep = [st |-> "RUNNING", reps |-> [s \in 1..scenario.slots |-> [id |-> s, ep |-> TRUE]],
                      anchor |-> None]
      <3>1. PICK n \in Nat : n = scenario.slots /\ n <= MaxSlots
        BY <1>1, ScenarioTyped, Bounds
      <3>2. PICK reps : reps = [s \in 1..n |-> [id |-> s, ep |-> TRUE]]
        OBVIOUS
      <3>3. \A s \in 1..n : s \in Ids
        BY <3>1, Bounds DEF Ids
      <3>4. \A s \in 1..n : [id |-> s, ep |-> TRUE] \in ReplicaBacking
        BY <3>3 DEF ReplicaBacking
      <3>5. reps \in [1..n -> ReplicaBacking]
        BY <3>2, <3>4
      <3>6. reps \in Seq(ReplicaBacking) /\ Len(reps) = n /\ DOMAIN reps = 1..n
        BY <3>5, SeqMade
      <3>7. \A s \in 1..n : reps[s].id = s
        BY <3>2
      <3>8. dep = [st |-> "RUNNING", reps |-> reps, anchor |-> None]
        BY <2>3, <3>1, <3>2
      <3> QED
        BY <3>1, <3>6, <3>7, <3>8 DEF Deployment, DeploymentState, SlotsNamed, SlotIds
    <2> QED
      BY <2>1, <2>2, <2>3, Zenon DEF Init
  <1>9. TypeOK
    BY <1>1, <1>3, <1>7, <1>8 DEF TypeOK
  <1>10. Binding
    <2>1. \A k, l \in DOMAIN dep.reps :
             dep.reps[k].id # None /\ dep.reps[k].id = dep.reps[l].id => k = l
      <3>1. \A k \in DOMAIN dep.reps : k \in Nat /\ k >= 1
        BY <1>9, DepTyped
      <3> QED
        BY <1>8, <3>1, NamesDiffer DEF SlotsNamed
    <2> QED
      BY <1>5, <1>7, <2>1 DEF Binding, CallBound, Bound, IdIn, IdOf, Cur
  <1>11. RentOnce
    <2>1. \A c \in Callers, s \in Slots : call[c].work[s].pc = "none"
      BY <1>2, IdleTyped, NothingTyped
    <2> QED
      BY <1>7, <2>1 DEF RentOnce
  <1>12. SlotRentedOnce /\ HasCreate
    BY <1>7, <1>8 DEF SlotRentedOnce, HasCreate, InFlight
  <1> QED
    BY <1>4, <1>6, <1>8, <1>9, <1>10, <1>11, <1>12 DEF DeploymentsInv

-----------------------------------------------------------------------------
(* What a slot's goroutine does to the rest *)

\* It advances the deployment's state at most; no record disappears; it rents
\* only for its own slot, on a VM-style provider right after the record that
\* was missing is written.
LEMMA WorkEffect ==
    ASSUME Core, NEW c \in Callers, NEW s \in Slots, WorkStep(c, s)
    PROVE  /\ call[c].work[s].pc # "none"
           /\ \E p, m : /\ SetWork(c, s, p, m)
                        /\ p = "patch" => /\ inst[IdOf(c, s)].st = "NONE" /\ cloud' = cloud
                        /\ p = "spawn" => /\ call[c].work[s].pc = "patch" /\ cloud' = cloud
                                          /\ inst'[IdOf(c, s)].st # "NONE"
           /\ \/ dep'.st = dep.st
              \/ \E x \in {"STARTING", "CONFIGURING", "RUNNING"} :
                    dep'.st = provisioningAdvance(dep.st, x)
           /\ \A j \in Ids : inst[j].st # "NONE" => inst'[j].st # "NONE"
           /\ \/ cloud' = cloud
              \/ \E n \in Machines : Rent(IdOf(c, s), n) /\ (call[c].work[s].pc = "spawn" \/ Native)
           /\ creates' = creates /\ scenario' = scenario
  <1> PICK i, m : i = IdOf(c, s) /\ m = call[c].work[s].pid
    OBVIOUS
  <1>a. call[c].work[s].pc # "none"
    BY DEF WorkStep, placeReplicaInstance, PlaceFails, PlacePatch, SpawnStamp, SshReady, SpawnFails,
           KeyFails, DeployStarting, Connect, DeployFails, DeployConfiguring, DeployRunning,
           EngineFails, FinalizeRead, FinalizeWrite, Spawn, CreatePod
  <1>b. i \in Ids /\ m \in Machines \cup {None} /\ (m # None => Owned(m, i))
    BY <1>a, AtWork
  <1>c. TypeOK /\ SlotsNamed /\ inst \in [Ids -> Record]
    BY DEF Core, TypeOK
  <1>d. ASSUME NEW st \in InstanceState \ {"NONE"}, NEW pid, inst' = [inst EXCEPT ![i] = [st |-> st, pid |-> pid]]
        PROVE  inst'[i].st # "NONE" /\ \A j \in Ids : inst[j].st # "NONE" => inst'[j].st # "NONE"
    BY <1>b, <1>c, <1>d
  <1>1. CASE placeReplicaInstance(c, s)
    BY <1>a, <1>1 DEF placeReplicaInstance
  <1>2. CASE PlaceFails(c, s)
    BY <1>a, <1>2 DEF PlaceFails
  <1>3. CASE PlacePatch(c, s)
    <2>1. inst' = [inst EXCEPT ![i] = [st |-> "PENDING", pid |-> None]] /\ "PENDING" \in InstanceState \ {"NONE"}
      BY <1>3 DEF PlacePatch, newPendingInstance, InstanceState
    <2>2. inst'[i].st # "NONE" /\ \A j \in Ids : inst[j].st # "NONE" => inst'[j].st # "NONE"
      BY <1>d, <2>1
    <2> QED
      BY <1>a, <1>3, <2>2 DEF PlacePatch
  <1>4. CASE SpawnStamp(c, s) \/ FinalizeWrite(c, s)
    <2>1. inst' = [inst EXCEPT ![i] = [st |-> "ACTIVE", pid |-> m]] /\ "ACTIVE" \in InstanceState \ {"NONE"}
      BY <1>4 DEF SpawnStamp, FinalizeWrite, InstanceState
    <2>2. \A j \in Ids : inst[j].st # "NONE" => inst'[j].st # "NONE"
      BY <1>d, <2>1
    <2> QED
      BY <1>a, <1>4, <2>2 DEF SpawnStamp, FinalizeWrite
  <1>5. CASE SshReady(c, s)
    <2>1. "ACTIVE" \in InstanceState \ {"NONE"}
      BY DEF InstanceState
    <2>2. \A j \in Ids : inst[j].st # "NONE" => inst'[j].st # "NONE"
      BY <1>d, <1>5, <2>1 DEF SshReady
    <2> QED
      BY <1>a, <1>5, <2>2 DEF SshReady
  <1>6. CASE SpawnFails(c, s)
    <2>1. "FAILED" \in InstanceState \ {"NONE"}
      BY DEF InstanceState
    <2>2. \A j \in Ids : inst[j].st # "NONE" => inst'[j].st # "NONE"
      BY <1>d, <1>6, <2>1 DEF SpawnFails
    <2> QED
      BY <1>a, <1>6, <2>2 DEF SpawnFails
  <1>7. CASE KeyFails(c, s) \/ Connect(c, s) \/ DeployFails(c, s) \/ EngineFails(c, s)
    <2>1. /\ cloud' = cloud /\ inst' = inst /\ dep' = dep
          /\ creates' = creates /\ scenario' = scenario
          /\ SetWork(c, s, "failed", m) \/ SetWork(c, s, "report", m)
      BY <1>7 DEF KeyFails, Connect, DeployFails, EngineFails
    <2> QED
      BY <1>a, <2>1
  <1>8. CASE DeployStarting(c, s) \/ DeployConfiguring(c, s) \/ DeployRunning(c, s)
    <2>1. /\ cloud' = cloud /\ creates' = creates /\ scenario' = scenario
          /\ SetWork(c, s, "rent", m) \/ SetWork(c, s, "boot", m) \/ SetWork(c, s, "final", m)
      BY <1>8 DEF DeployStarting, DeployConfiguring, DeployRunning
    <2>2. \/ patchDeploymentSlot(i, "STARTING", FALSE, None)
          \/ patchDeploymentSlot(i, "CONFIGURING", FALSE, m)
          \/ patchDeploymentSlot(i, "RUNNING", TRUE, m)
      BY <1>8 DEF DeployStarting, DeployConfiguring, DeployRunning
    <2>3. {"STARTING", "CONFIGURING", "RUNNING"} \subseteq DeploymentState
      BY DEF DeploymentState, InFlight
    <2>4. /\ \A j \in Ids : inst'[j].st = inst[j].st
          /\ \/ dep'.st = dep.st
             \/ \E x \in {"STARTING", "CONFIGURING", "RUNNING"} :
                   dep'.st = provisioningAdvance(dep.st, x)
      BY <1>b, <1>c, <2>2, <2>3, Patched
    <2> QED
      BY <1>a, <2>1, <2>4
  <1>9. CASE FinalizeRead(c, s)
    BY <1>a, <1>9 DEF FinalizeRead
  <1>10. ASSUME NEW n \in Machines, Spawn(c, s, n) \/ CreatePod(c, s, n)
         PROVE  /\ inst' = inst /\ dep' = dep /\ creates' = creates /\ scenario' = scenario
                /\ Rent(i, n) /\ (call[c].work[s].pc = "spawn" \/ Native)
                /\ SetWork(c, s, "stamp", n) \/ SetWork(c, s, "report", n)
    BY <1>10 DEF Spawn, CreatePod
  <1> QED
    BY <1>a, <1>1, <1>2, <1>3, <1>4, <1>5, <1>6, <1>7, <1>8, <1>9, <1>10 DEF WorkStep

\* An in-flight state stays in flight, and never goes back.
LEMMA Advances ==
    ASSUME NEW st \in InFlight, NEW x \in {"STARTING", "CONFIGURING", "RUNNING"}
    PROVE  /\ provisioningAdvance(st, x) \in InFlight
           /\ Stage(st) <= Stage(provisioningAdvance(st, x))
BY DEF InFlight, provisioningAdvance, rank, Stage

\* Where callers only create, there are only creates.
LEMMA OnlyCreates ==
    ASSUME Core, Ops = {"create"}, NEW c \in Callers
    PROVE  /\ call[c].op \in {"none", "create"}
           /\ call[c].op = "none" => call[c] = Idle
           /\ call[c].pc \in {"idle", "place", "launch"}
           /\ call[c] = Idle => \A s \in Slots : call[c].work[s].pc = "none"
  <1>1. PICK k \in Call : k = call[c]
    BY DEF Core, TypeOK
  <1>2. Shaped(k) /\ Asked(k)
    BY <1>1, CallOf DEF Core
  <1>3. k.op \in CallOp
    BY CallTyped
  <1> QED
    BY <1>1, <1>2, <1>3, IdleTyped, NothingTyped DEF Shaped, Asked, CallOp

\* ... and only their steps.
LEMMA CreateSteps ==
    ASSUME Core, Ops = {"create"}, Next
    PROVE  \/ Crash
           \/ \E c \in Callers :
                 \/ \E n \in Slots : CreateClaim(c, n)
                 \/ Launch(c)
                 \/ Aggregate(c)
                 \/ \E s \in Slots : WorkStep(c, s)
  <1>1. \A c \in Callers : call[c].pc \in {"idle", "place", "launch"}
    BY OnlyCreates
  <1>2. ASSUME NEW c \in Callers, ScaleRead(c) \/ DestroyClaim(c) PROVE FALSE
    BY <1>2 DEF ScaleRead, DestroyClaim
  <1>3. ASSUME NEW c \in Callers, FanOutStep(c) PROVE Launch(c) \/ Aggregate(c)
    BY <1>1, <1>3 DEF FanOutStep, ScaleNormalise, ScalePlan, ScaleNoDelta
  <1>4. ASSUME NEW c \in Callers, DestroyStep(c) PROVE FALSE
    BY <1>1, <1>4 DEF DestroyStep, DestroyRead, DestroySkip, DestroyBegin, DestroyStop,
          DestroyStopFails, DestroyUnreachable, DestroyEmit, releaseRental, ReleaseFails,
          MarkRead, MarkWrite, DestroyFinish
  <1> QED
    BY <1>2, <1>3, <1>4 DEF Next

\* A create claims the record.
LEMMA ClaimEffect ==
    ASSUME Core, NEW c \in Callers, NEW n \in Slots, CreateClaim(c, n)
    PROVE  /\ dep'.st = "PENDING" /\ call'[c].op = "create" /\ call[c] = Idle
           /\ \A s \in Slots : call'[c].work[s].pc \in {"none", "read"}
           /\ \A d \in Callers : d # c => call'[d] = call[d]
           /\ cloud' = cloud /\ inst' = inst /\ creates' # creates /\ scenario' = scenario
  <1>0. call \in [Callers -> Call] /\ creates \in Nat
    BY Bounds DEF Core, TypeOK
  <1>1. PICK after : after = Started("create", 0, n)
    OBVIOUS
  <1>2. call' = [call EXCEPT ![c] = after]
    BY <1>1 DEF CreateClaim, StartFanOut, Started
  <1>3. n \in Nat /\ 0 + n <= MaxSlots
    BY Bounds DEF Slots
  <1>4. after.op = "create" /\ \A s \in Slots : after.work[s].pc \in {"none", "read"}
    BY <1>1, <1>3, StartCall
  <1>5. call'[c] = after /\ \A d \in Callers : d # c => call'[d] = call[d]
    BY <1>0, <1>2
  <1> QED
    BY <1>0, <1>4, <1>5 DEF CreateClaim, CanBegin

\* The slots are launched: none of them is about to rent a machine.
LEMMA LaunchEffect ==
    ASSUME Core, NEW c \in Callers, Launch(c)
    PROVE  /\ dep'.st = dep.st /\ call'[c].op = call[c].op /\ call[c] # Idle
           /\ \A s \in Slots : call'[c].work[s].pc \notin {"patch", "spawn"}
           /\ \A d \in Callers : d # c => call'[d] = call[d]
           /\ cloud' = cloud /\ inst' = inst /\ creates' = creates /\ scenario' = scenario
  <1>0. call \in [Callers -> Call]
    BY DEF Core, TypeOK
  <1>1. PICK k \in Call : k = call[c]
    BY <1>0
  <1>2. PICK v : v = [s \in Slots |->
                        IF s \in (k.from + 1)..(k.from + k.n)
                        THEN [k.work[s] EXCEPT !.pc = LaunchPc(c, s)] ELSE k.work[s]]
    OBVIOUS
  <1>3. PICK after : after = [k EXCEPT !.pc = "launch", !.work = v]
    OBVIOUS
  <1>4. call' = [call EXCEPT ![c] = after]
    BY <1>1, <1>2, <1>3 DEF Launch, Planned
  <1>5. after.op = k.op /\ after.work = v
    BY <1>1, <1>3 DEF Call
  <1>6. ASSUME NEW s \in Slots PROVE v[s].pc \notin {"patch", "spawn"}
    <2>1. PICK w \in Work : w = k.work[s]
      BY <1>1, CallTyped
    <2>2. CASE s \in (k.from + 1)..(k.from + k.n)
      <3>1. v[s] = [w EXCEPT !.pc = LaunchPc(c, s)]
        BY <1>2, <2>1, <2>2
      <3> QED
        BY <2>1, <3>1 DEF LaunchPc, Work
    <2>3. CASE s \notin (k.from + 1)..(k.from + k.n)
      <3>1. v[s] = w /\ w.pc = "none"
        BY <1>1, <1>2, <2>1, <2>3 DEF Core, CallsShaped, Shaped
      <3> QED
        BY <3>1
    <2> QED
      BY <2>2, <2>3
  <1>7. call'[c] = after /\ \A d \in Callers : d # c => call'[d] = call[d]
    BY <1>0, <1>4
  <1>8. dep'.st = dep.st
    BY RecordedSlots DEF Launch
  <1>9. call[c] # Idle
    BY IdleTyped DEF Launch
  <1> QED
    BY <1>1, <1>5, <1>6, <1>7, <1>8, <1>9 DEF Launch

\* A create is over, in a settled state.
LEMMA AggregateEffect ==
    ASSUME Core, NEW c \in Callers, Aggregate(c)
    PROVE  /\ call[c].op = "create" => dep'.st \in {"RUNNING", "FAILED", "DEGRADED"}
           /\ call'[c] = Idle /\ call[c] # Idle
           /\ \A d \in Callers : d # c => call'[d] = call[d]
           /\ cloud' = cloud /\ inst' = inst /\ creates' = creates /\ scenario' = scenario
  <1>0. call \in [Callers -> Call] /\ TypeOK /\ SlotsNamed
    BY DEF Core, TypeOK
  <1>1. call'[c] = Idle /\ \A d \in Callers : d # c => call'[d] = call[d]
    BY <1>0 DEF Aggregate
  <1>2. call[c] # Idle
    BY IdleTyped DEF Aggregate
  <1>3. ASSUME call[c].op = "create" PROVE dep'.st \in {"RUNNING", "FAILED", "DEGRADED"}
    <2>1. PICK st \in {"RUNNING", "FAILED", "DEGRADED"} : st = applyAggregateState(c)
      BY DEF applyAggregateState
    <2>2. st \in DeploymentState /\ dep' = [dep EXCEPT !.st = st]
      BY <1>3, <2>1 DEF Aggregate, DeploymentState
    <2> QED
      BY <1>0, <2>2, DepState
  <1> QED
    BY <1>1, <1>2, <1>3 DEF Aggregate

-----------------------------------------------------------------------------
(* Where callers only create *)

\* One create at a time, in an in-flight state.
LEMMA OneCreateKept ==
    ASSUME Core, OneCreate, Next, Ops = {"create"}
    PROVE  OneCreate'
  <1>1. CASE Crash
    <2>1. \A c \in Callers : call'[c] = Idle
      BY <1>1 DEF Crash
    <2> QED
      BY <2>1 DEF OneCreate
  <1>2. ASSUME NEW c \in Callers, NEW n \in Slots, CreateClaim(c, n)
        PROVE  OneCreate'
    <2>1. dep.st \in {"NONE", "TERMINATED", "FAILED"}
      BY <1>2 DEF CreateClaim
    <2>2. \A d \in Callers : call[d] = Idle
      BY <2>1 DEF OneCreate, InFlight
    <2> QED
      BY <1>2, <2>2, ClaimEffect DEF OneCreate, InFlight
  <1>3. ASSUME NEW c \in Callers, Launch(c)
        PROVE  OneCreate'
    BY <1>3, LaunchEffect DEF OneCreate
  <1>4. ASSUME NEW c \in Callers, Aggregate(c)
        PROVE  OneCreate'
    BY <1>4, AggregateEffect DEF OneCreate
  <1>5. ASSUME NEW c \in Callers, NEW s \in Slots, WorkStep(c, s)
        PROVE  OneCreate'
    <2>1. call[c].work[s].pc # "none"
      BY <1>5, WorkEffect
    <2>2. call[c] # Idle
      BY <2>1, OnlyCreates
    <2>3. dep.st \in InFlight
      BY <2>2 DEF OneCreate
    <2>4. dep'.st \in InFlight
      BY <1>5, <2>3, WorkEffect, Advances
    <2>5. \A d \in Callers : d # c => call'[d] = call[d]
      BY <1>5, WorkEffect, WorkSeen DEF Core
    <2> QED
      BY <2>2, <2>4, <2>5 DEF OneCreate
  <1> QED
    BY <1>1, <1>2, <1>3, <1>4, <1>5, CreateSteps

\* Nothing is rented without a record, or twice for a slot.
LEMMA RentOnceKept ==
    ASSUME Core, OneCreate, RentOnce, SlotRentedOnce, Next, Ops = {"create"}, ~Native
    PROVE  RentOnce' /\ SlotRentedOnce'
  <1>0. cloud \in [Machines -> Machine] /\ inst \in [Ids -> Record] /\ TypeOK
    BY DEF Core, TypeOK
  <1>a. ASSUME cloud' = cloud, inst' = inst, NEW c \in Callers,
               \A s \in Slots : call'[c].work[s].pc \notin {"patch", "spawn"},
               \A d \in Callers : d # c => call'[d] = call[d]
        PROVE  RentOnce' /\ SlotRentedOnce'
    <2>1. \A m \in Machines : Rented(m)' <=> Rented(m)
      BY <1>a DEF Rented
    <2>2. \A d \in Callers, s \in Slots : d # c => IdOf(d, s)' = IdOf(d, s)
      BY <1>a DEF IdOf
    <2>3. (\A d \in Callers, s \in Slots, m \in Machines :
              call[d].work[s].pc \in {"patch", "spawn"} /\ Rented(m) => cloud[m].for # IdOf(d, s))'
      BY <1>a, <2>1, <2>2 DEF RentOnce
    <2>4. (\A d \in Callers, s \in Slots :
              call[d].work[s].pc = "spawn" => inst[IdOf(d, s)].st # "NONE")'
      BY <1>a, <2>2 DEF RentOnce
    <2>5. (\A m \in Machines : Rented(m) => cloud[m].for \in Ids /\ inst[cloud[m].for].st # "NONE")'
      BY <1>a, <2>1 DEF RentOnce
    <2>6. (\A m, n \in Machines : Rented(m) /\ Rented(n) /\ cloud[m].for = cloud[n].for => m = n)'
      BY <1>a, <2>1 DEF SlotRentedOnce
    <2> QED
      BY <2>3, <2>4, <2>5, <2>6 DEF RentOnce, SlotRentedOnce
  <1>1. CASE Crash
    <2>1. cloud' = cloud /\ inst' = inst /\ call' = [c \in Callers |-> Idle]
      BY <1>1 DEF Crash
    <2>2. \A c \in Callers, s \in Slots : call'[c].work[s].pc = "none"
      BY <2>1, IdleTyped, NothingTyped
    <2>3. \A m \in Machines : Rented(m)' <=> Rented(m)
      BY <2>1 DEF Rented
    <2>4. (\A m \in Machines : Rented(m) => cloud[m].for \in Ids /\ inst[cloud[m].for].st # "NONE")'
      BY <2>1, <2>3 DEF RentOnce
    <2>5. (\A m, n \in Machines : Rented(m) /\ Rented(n) /\ cloud[m].for = cloud[n].for => m = n)'
      BY <2>1, <2>3 DEF SlotRentedOnce
    <2> QED
      BY <2>2, <2>4, <2>5 DEF RentOnce, SlotRentedOnce
  <1>2. ASSUME NEW c \in Callers, NEW n \in Slots, CreateClaim(c, n)
        PROVE  RentOnce' /\ SlotRentedOnce'
    BY <1>2, <1>a, ClaimEffect
  <1>3. ASSUME NEW c \in Callers, Launch(c)
        PROVE  RentOnce' /\ SlotRentedOnce'
    BY <1>3, <1>a, LaunchEffect
  <1>4. ASSUME NEW c \in Callers, Aggregate(c)
        PROVE  RentOnce' /\ SlotRentedOnce'
    BY <1>4, <1>a, AggregateEffect, IdleTyped, NothingTyped
  <1>5. ASSUME NEW c \in Callers, NEW s \in Slots, WorkStep(c, s)
        PROVE  RentOnce' /\ SlotRentedOnce'
    <2>1. call[c].work[s].pc # "none" /\ call[c] # Idle
      BY <1>5, WorkEffect, OnlyCreates
    <2>2. PICK i \in Ids : i = IdOf(c, s)
      BY <2>1, AtWork
    <2>3. PICK p, q : /\ SetWork(c, s, p, q)
                      /\ p = "patch" => /\ inst[i].st = "NONE" /\ cloud' = cloud
                      /\ p = "spawn" => /\ call[c].work[s].pc = "patch" /\ cloud' = cloud
                                        /\ inst'[i].st # "NONE"
      BY <1>5, <2>2, WorkEffect
    <2>4. \A j \in Ids : inst[j].st # "NONE" => inst'[j].st # "NONE"
      BY <1>5, WorkEffect
    <2>5. \/ cloud' = cloud
          \/ \E n \in Machines : Rent(i, n) /\ call[c].work[s].pc = "spawn"
      BY <1>5, <2>2, WorkEffect
    <2>6. \A d \in Callers, t \in Slots :
             /\ IdOf(d, t)' = IdOf(d, t)
             /\ call'[d].work[t].pc = IF d = c /\ t = s THEN p ELSE call[d].work[t].pc
      BY <1>0, <2>3, WorkSeen
    <2>7. \A d \in Callers, t \in Slots :
             call[d].work[t].pc # "none" /\ IdOf(d, t) = i => d = c /\ t = s
      <3>1. TAKE d \in Callers, t \in Slots
      <3>2. HAVE call[d].work[t].pc # "none" /\ IdOf(d, t) = i
      <3>3. d = c
        BY <2>1, <3>2, OnlyCreates DEF OneCreate
      <3>4. PICK k \in Call : k = call[c]
        BY <1>0 DEF TypeOK
      <3>5. s <= k.from + k.n /\ t <= k.from + k.n /\ IdIn(k, s) = IdIn(k, t)
        BY <2>1, <2>2, <3>2, <3>3, <3>4, AtWork
      <3> QED
        BY <3>3, <3>4, <3>5, IdsDiffer
    <2>8. CASE cloud' = cloud
      <3>1. \A m \in Machines : Rented(m)' <=> Rented(m)
        BY <2>8 DEF Rented
      <3>2. (\A d \in Callers, t \in Slots, m \in Machines :
                call[d].work[t].pc \in {"patch", "spawn"} /\ Rented(m) => cloud[m].for # IdOf(d, t))'
        BY <2>2, <2>3, <2>6, <2>8, <3>1 DEF RentOnce
      <3>3. (\A d \in Callers, t \in Slots :
                call[d].work[t].pc = "spawn" => inst[IdOf(d, t)].st # "NONE")'
        <4>1. \A d \in Callers, t \in Slots : call[d].work[t].pc = "spawn" => IdOf(d, t) \in Ids
          BY AtWork
        <4> QED
          BY <2>2, <2>3, <2>4, <2>6, <4>1 DEF RentOnce
      <3>4. (\A m \in Machines : Rented(m) => cloud[m].for \in Ids /\ inst[cloud[m].for].st # "NONE")'
        BY <2>4, <2>8, <3>1 DEF RentOnce
      <3>5. (\A m, n \in Machines : Rented(m) /\ Rented(n) /\ cloud[m].for = cloud[n].for => m = n)'
        BY <2>8, <3>1 DEF SlotRentedOnce
      <3> QED
        BY <3>2, <3>3, <3>4, <3>5 DEF RentOnce, SlotRentedOnce
    <2>9. ASSUME NEW n \in Machines, Rent(i, n), call[c].work[s].pc = "spawn"
          PROVE  RentOnce' /\ SlotRentedOnce'
      <3>0. cloud' # cloud
        BY <1>0, <2>9 DEF Rent, Machine
      <3>1. /\ cloud'[n].status = "rented" /\ cloud'[n].for = i
            /\ \A m \in Machines : m # n => cloud'[m] = cloud[m]
        BY <1>0, <2>9 DEF Rent
      <3>2. \A m \in Machines : m # n /\ Rented(m)' => Rented(m) /\ cloud[m].for # i /\ cloud'[m].for = cloud[m].for
        BY <2>2, <2>9, <3>1 DEF Rented, RentOnce
      <3>3. p \notin {"patch", "spawn"}
        BY <2>3, <3>0
      <3>4. (\A d \in Callers, t \in Slots, m \in Machines :
                call[d].work[t].pc \in {"patch", "spawn"} /\ Rented(m) => cloud[m].for # IdOf(d, t))'
        <4>1. ASSUME NEW d \in Callers, NEW t \in Slots, NEW m \in Machines,
                     call'[d].work[t].pc \in {"patch", "spawn"}, Rented(m)'
              PROVE  cloud'[m].for # IdOf(d, t)
          <5>1. call[d].work[t].pc \in {"patch", "spawn"} /\ ~(d = c /\ t = s)
            BY <4>1, <2>6, <3>3
          <5>2. CASE m = n
            BY <5>1, <5>2, <2>7, <3>1
          <5>3. CASE m # n
            BY <4>1, <5>1, <5>3, <3>2 DEF RentOnce
          <5> QED
            BY <5>2, <5>3
        <4> QED
          BY <4>1, <2>6
      <3>5. (\A d \in Callers, t \in Slots :
                call[d].work[t].pc = "spawn" => inst[IdOf(d, t)].st # "NONE")'
        <4>1. \A d \in Callers, t \in Slots : call[d].work[t].pc = "spawn" => IdOf(d, t) \in Ids
          BY AtWork
        <4> QED
          BY <2>4, <2>6, <3>3, <4>1 DEF RentOnce
      <3>6. (\A m \in Machines : Rented(m) => cloud[m].for \in Ids /\ inst[cloud[m].for].st # "NONE")'
        <4>1. inst'[i].st # "NONE"
          BY <2>2, <2>4, <2>9 DEF RentOnce
        <4> QED
          BY <2>2, <2>4, <3>1, <3>2, <4>1 DEF RentOnce
      <3>7. (\A m, l \in Machines : Rented(m) /\ Rented(l) /\ cloud[m].for = cloud[l].for => m = l)'
        BY <3>1, <3>2 DEF SlotRentedOnce
      <3> QED
        BY <3>4, <3>5, <3>6, <3>7 DEF RentOnce, SlotRentedOnce
    <2> QED
      BY <2>5, <2>8, <2>9
  <1> QED
    BY <1>1, <1>2, <1>3, <1>4, <1>5, CreateSteps

-----------------------------------------------------------------------------
(* Where callers create and destroy *)

\* A step of a destroy leaves the other calls alone, and no in-flight state.
LEMMA DestroyEffect ==
    ASSUME Core, NEW c \in Callers, DestroyStep(c)
    PROVE  /\ call[c].op = "destroy"
           /\ \A d \in Callers : d # c => call'[d] = call[d]
           /\ dep' = dep \/ dep'.st \in {"TERMINATING", "TERMINATED", "FAILED"}
  <1>0. call \in [Callers -> Call] /\ TypeOK /\ SlotsNamed
    BY DEF Core, TypeOK
  <1>1. call[c].pc \in {"read", "next"} \cup Releasing
    BY DEF DestroyStep, DestroyRead, DestroySkip, DestroyBegin, DestroyStop, Releasing,
          DestroyStopFails, DestroyUnreachable, DestroyEmit, releaseRental, ReleaseFails,
          MarkRead, MarkWrite, DestroyFinish
  <1>2. call[c].op = "destroy"
    BY <1>0, <1>1, CallOf, DestroyOp DEF Core
  <1>3. \A d \in Callers : d # c => call'[d] = call[d]
    BY <1>0 DEF DestroyStep, DestroyRead, DestroySkip, DestroyBegin, DestroyStop, NextInstance,
          DestroyStopFails, DestroyUnreachable, DestroyEmit, releaseRental, ReleaseFails,
          MarkRead, MarkWrite, DestroyFinish
  <1>4. dep' = dep \/ \E st \in {"TERMINATING", "TERMINATED", "FAILED"} : dep' = [dep EXCEPT !.st = st]
    BY DEF DestroyStep, DestroyRead, DestroySkip, DestroyBegin, DestroyStop, DestroyState,
          DestroyStopFails, DestroyUnreachable, DestroyEmit, releaseRental, ReleaseFails,
          MarkRead, MarkWrite, DestroyFinish
  <1>5. {"TERMINATING", "TERMINATED", "FAILED"} \subseteq DeploymentState
    BY DEF DeploymentState
  <1> QED
    BY <1>0, <1>2, <1>3, <1>4, <1>5, DepState

\* An in-flight state has its create.
LEMMA HasCreateKept ==
    ASSUME Core, HasCreate, Next
    PROVE  HasCreate'
  <1>0. scenario' = scenario /\ TypeOK /\ SlotsNamed /\ call \in [Callers -> Call]
    <2>1. ASSUME NEW c \in Callers,
               \/ (\E n \in Slots : CreateClaim(c, n)) \/ ScaleRead(c) \/ DestroyClaim(c)
               \/ FanOutStep(c) \/ DestroyStep(c) \/ \E s \in Slots : WorkStep(c, s)
          PROVE  scenario' = scenario
      BY <2>1, ClaimKept, FanOutKept, DestroyKept, WorkKept DEF Kept
    <2>2. scenario' = scenario
      BY <2>1 DEF Next, Crash
    <2> QED
      BY <2>2 DEF Core, TypeOK
  <1> SUFFICES ASSUME Ops \subseteq {"create", "destroy"}, "crash" \notin Faults, dep'.st \in InFlight
               PROVE  \E c \in Callers : call'[c].op = "create"
    BY <1>0 DEF HasCreate, Ops, Faults
  <1>1. \A c \in Callers : call[c].op \in {"none", "create", "destroy"}
    <2>1. TAKE c \in Callers
    <2>2. call[c].op \in CallOp /\ Asked(call[c])
      BY <1>0, CallTyped, CallOf DEF Core
    <2> QED
      BY <2>2 DEF Asked, CallOp
  <1>2. ASSUME NEW c \in Callers, NEW n \in Slots, CreateClaim(c, n)
        PROVE  \E d \in Callers : call'[d].op = "create"
    BY <1>2, ClaimEffect
  <1>3. ASSUME NEW c \in Callers, ScaleRead(c)
        PROVE  FALSE
    BY <1>3 DEF ScaleRead
  <1>4. ASSUME NEW c \in Callers, DestroyClaim(c)
        PROVE  FALSE
    <2>1. "TERMINATING" \in DeploymentState
      BY DEF DeploymentState
    <2>2. dep'.st = "TERMINATING"
      BY <1>0, <1>4, <2>1, DepState DEF DestroyClaim
    <2> QED
      BY <2>2 DEF InFlight
  <1>5. ASSUME NEW c \in Callers, FanOutStep(c)
        PROVE  \E d \in Callers : call'[d].op = "create"
    <2>1. call[c].pc \in {"normalise", "plan", "place", "launch"}
      BY <1>5 DEF FanOutStep, ScaleNormalise, ScalePlan, ScaleNoDelta, Launch, Aggregate
    <2>2. call[c].op = "create" /\ call[c].pc \in {"place", "launch"}
      BY <1>0, <1>1, <2>1, CallOf, DestroyOp DEF Core
    <2>3. Launch(c) \/ Aggregate(c)
      BY <1>5, <2>2 DEF FanOutStep, ScaleNormalise, ScalePlan, ScaleNoDelta
    <2>4. CASE Launch(c)
      BY <2>2, <2>4, LaunchEffect
    <2>5. CASE Aggregate(c)
      BY <2>2, <2>5, AggregateEffect DEF InFlight
    <2> QED
      BY <2>3, <2>4, <2>5
  <1>6. ASSUME NEW c \in Callers, DestroyStep(c)
        PROVE  \E d \in Callers : call'[d].op = "create"
    <2>1. dep' = dep
      BY <1>6, DestroyEffect DEF InFlight
    <2>2. PICK d \in Callers : call[d].op = "create"
      BY <2>1 DEF HasCreate
    <2> QED
      BY <1>6, <2>2, DestroyEffect
  <1>7. ASSUME NEW c \in Callers, NEW s \in Slots, WorkStep(c, s)
        PROVE  \E d \in Callers : call'[d].op = "create"
    <2>1. call[c].op = "create"
      BY <1>1, <1>7, WorkEffect, AtWork
    <2>2. call'[c].op = call[c].op
      BY <1>0, <1>7, WorkEffect, WorkSeen
    <2> QED
      BY <2>1, <2>2
  <1>8. ~Crash
    BY DEF Crash
  <1> QED
    BY <1>2, <1>3, <1>4, <1>5, <1>6, <1>7, <1>8 DEF Next

-----------------------------------------------------------------------------
(* The theorems *)

\* The invariant is inductive.
LEMMA StepHolds ==
    ASSUME DeploymentsInv, [Next]_vars
    PROVE  DeploymentsInv'
  <1>0. Core
    BY DEF DeploymentsInv, Core
  <1>1. Core'
    BY <1>0, CoreNext
  <1>2. CASE UNCHANGED vars
    <2>1. /\ dep' = dep /\ inst' = inst /\ cloud' = cloud /\ call' = call /\ scenario' = scenario
      BY <1>2 DEF vars
    <2>2. OneCreate' /\ HasCreate'
      BY <2>1 DEF DeploymentsInv, OneCreate, HasCreate, Ops, Faults
    <2>3. RentOnce' /\ SlotRentedOnce'
      BY <2>1 DEF DeploymentsInv, RentOnce, SlotRentedOnce, Rented, IdOf, Ops, Native
    <2> QED
      BY <1>1, <2>2, <2>3 DEF DeploymentsInv, Core
  <1>3. CASE Next
    <2>1. scenario' = scenario
      <3>1. ASSUME NEW c \in Callers,
                   \/ (\E n \in Slots : CreateClaim(c, n)) \/ ScaleRead(c) \/ DestroyClaim(c)
                   \/ FanOutStep(c) \/ DestroyStep(c) \/ \E s \in Slots : WorkStep(c, s)
            PROVE  scenario' = scenario
        BY <1>0, <3>1, ClaimKept, FanOutKept, DestroyKept, WorkKept DEF Kept
      <3> QED
        BY <1>3, <3>1 DEF Next, Crash
    <2>2. OneCreate'
      <3>1. CASE Ops = {"create"}
        BY <1>0, <1>3, <3>1, OneCreateKept DEF DeploymentsInv
      <3>2. CASE Ops # {"create"}
        BY <2>1, <3>2 DEF OneCreate, Ops
      <3> QED
        BY <3>1, <3>2
    <2>3. RentOnce' /\ SlotRentedOnce'
      <3>1. CASE Ops = {"create"} /\ ~Native
        BY <1>0, <1>3, <3>1, RentOnceKept DEF DeploymentsInv
      <3>2. CASE ~(Ops = {"create"} /\ ~Native)
        BY <2>1, <3>2 DEF RentOnce, SlotRentedOnce, Ops, Native
      <3> QED
        BY <3>1, <3>2
    <2>4. HasCreate'
      BY <1>0, <1>3, HasCreateKept DEF DeploymentsInv
    <2> QED
      BY <1>1, <2>2, <2>3, <2>4 DEF DeploymentsInv, Core
  <1> QED
    BY <1>2, <1>3

\* Whatever calls overlap, fail or are cut short by a crash, the records, the
\* goroutines and the destroys only ever hold machines rented for the instance
\* they hold them for, and creates that are run again rent none twice.
THEOREM DeploymentCorrect == Spec => []DeploymentSafe
  <1>1. Init => DeploymentsInv
    BY StartHolds
  <1>2. DeploymentsInv /\ [Next]_vars => DeploymentsInv'
    BY StepHolds
  <1>3. DeploymentsInv => DeploymentSafe
    BY DEF DeploymentsInv, DeploymentSafe
  <1> QED
    BY <1>1, <1>2, <1>3, PTL DEF Spec

\* A create, and a destroy started at any point of it, leaves no deployment in
\* an in-flight state once every call is over (applyAggregateState, and the
\* reports of patchDeploymentSlot).
THEOREM CreatesSettle == Spec => []CreateSettles
  <1>1. Init => DeploymentsInv
    BY StartHolds
  <1>2. DeploymentsInv /\ [Next]_vars => DeploymentsInv'
    BY StepHolds
  <1>3. DeploymentsInv => CreateSettles
    BY IdleTyped DEF DeploymentsInv, CreateSettles, Settled, NoCalls, HasCreate
  <1> QED
    BY <1>1, <1>2, <1>3, PTL DEF Spec

\* provisioningAdvance: until a create claims the record again, the state of a
\* deployment that is only ever created moves forward.
THEOREM StateMovesForward == Spec => ForwardOnly
  <1>1. Init => DeploymentsInv
    BY StartHolds
  <1>2. DeploymentsInv /\ [Next]_vars => DeploymentsInv'
    BY StepHolds
  <1>3. DeploymentsInv /\ [Next]_vars
        => [Ops = {"create"} /\ creates' = creates /\ dep.st # "NONE" =>
              Stage(dep.st) <= Stage(dep'.st)]_vars
    <2> SUFFICES ASSUME DeploymentsInv, Next, Ops = {"create"}, creates' = creates
                 PROVE  Stage(dep.st) <= Stage(dep'.st)
      OBVIOUS
    <2>0. Core /\ OneCreate
      BY DEF DeploymentsInv, Core
    <2>1. \A st : Stage(st) \in 0..4 /\ Stage(st) <= Stage(st)
      BY DEF Stage, rank
    <2>2. CASE Crash
      BY <2>1, <2>2 DEF Crash
    <2>3. ASSUME NEW c \in Callers, NEW n \in Slots, CreateClaim(c, n)
          PROVE  FALSE
      BY <2>0, <2>3, ClaimEffect
    <2>4. ASSUME NEW c \in Callers, Launch(c)
          PROVE  Stage(dep.st) <= Stage(dep'.st)
      BY <2>0, <2>1, <2>4, LaunchEffect
    <2>5. ASSUME NEW c \in Callers, Aggregate(c)
          PROVE  Stage(dep.st) <= Stage(dep'.st)
      <3>1. call[c].op = "create"
        BY <2>0, <2>5, OnlyCreates, AggregateEffect
      <3>2. dep'.st \in {"RUNNING", "FAILED", "DEGRADED"}
        BY <2>0, <2>5, <3>1, AggregateEffect
      <3>3. Stage(dep'.st) = 4
        BY <3>2 DEF Stage, InFlight
      <3> QED
        BY <2>1, <3>3
    <2>6. ASSUME NEW c \in Callers, NEW s \in Slots, WorkStep(c, s)
          PROVE  Stage(dep.st) <= Stage(dep'.st)
      <3>1. call[c] # Idle
        BY <2>0, <2>6, WorkEffect, OnlyCreates
      <3>2. dep.st \in InFlight
        BY <2>0, <3>1 DEF OneCreate
      <3> QED
        BY <2>0, <2>1, <2>6, <3>2, WorkEffect, Advances
    <2> QED
      BY <2>0, <2>2, <2>3, <2>4, <2>5, <2>6, CreateSteps
  <1> QED
    BY <1>1, <1>2, <1>3, PTL DEF Spec, ForwardOnly

-----------------------------------------------------------------------------
(* The steps of a slot's goroutine, by what they change *)

Placing == {"none", "read", "patch", "spawn", "stamp", "ssh", "placed", "unplaced"}

Launching == {"none", "start", "rent", "report", "boot", "final", "write", "ok", "failed"}

\* Nothing but where it is and what it holds.
Looks(c, s, p, m) ==
    /\ dep' = dep /\ inst' = inst /\ cloud' = cloud
    /\ \/ call[c].work[s].pc = "read" /\ p = "placed" /\ inst[IdOf(c, s)].st # "NONE" /\ m = inst[IdOf(c, s)].pid
       \/ call[c].work[s].pc = "read" /\ p = "patch" /\ inst[IdOf(c, s)].st = "NONE" /\ m = None
       \/ call[c].work[s].pc \in {"read", "spawn"} /\ p = "unplaced" /\ m = None
       \/ call[c].work[s].pc = "ssh" /\ p = "placed" /\ m = call[c].work[s].pid
       \/ call[c].work[s].pc \in {"start", "rent", "boot"} /\ p = "failed" /\ m = call[c].work[s].pid
       \/ call[c].work[s].pc = "rent" /\ p = "report" /\ m = call[c].work[s].pid /\ ~Native
       \/ call[c].work[s].pc = "final" /\ p = "ok" /\ m = None
       \/ call[c].work[s].pc = "final" /\ p = "write" /\ m = inst[IdOf(c, s)].pid /\ m # None

\* It rents a machine for its slot.
Rents(c, s, p, m) ==
    /\ dep' = dep /\ inst' = inst /\ m \in Machines /\ Rent(IdOf(c, s), m)
    /\ \/ call[c].work[s].pc = "spawn" /\ p = "stamp"
       \/ call[c].work[s].pc = "rent" /\ p = "report" /\ Native

\* It writes the record of its slot.
Writes(c, s, p, m) ==
    /\ dep' = dep /\ cloud' = cloud
    /\ \E r \in Record :
          /\ inst' = [inst EXCEPT ![IdOf(c, s)] = r] /\ r.st # "NONE"
          /\ \/ call[c].work[s].pc = "patch" /\ p = "placed" /\ r.pid = None /\ m = None /\ Native
             \/ call[c].work[s].pc = "patch" /\ p = "spawn" /\ r.pid = None /\ m = None /\ ~Native
             \/ call[c].work[s].pc = "stamp" /\ p = "ssh" /\ r.pid = call[c].work[s].pid /\ m = call[c].work[s].pid
             \/ call[c].work[s].pc = "ssh" /\ p = "placed" /\ r.pid = call[c].work[s].pid /\ m = call[c].work[s].pid
             \/ call[c].work[s].pc = "spawn" /\ p = "unplaced" /\ r.pid = None /\ m = None
             \/ call[c].work[s].pc = "write" /\ p = "ok" /\ r.pid = call[c].work[s].pid /\ m = None

\* It reports to the deployment's record.
Reports(c, s, p, m) ==
    /\ cloud' = cloud /\ m = call[c].work[s].pid
    /\ \/ call[c].work[s].pc = "start" /\ p = "rent" /\ patchDeploymentSlot(IdOf(c, s), "STARTING", FALSE, None)
       \/ call[c].work[s].pc = "report" /\ p = "boot" /\ patchDeploymentSlot(IdOf(c, s), "CONFIGURING", FALSE, m)
       \/ /\ call[c].work[s].pc = "boot" /\ p = "final" /\ Rented(m)
          /\ patchDeploymentSlot(IdOf(c, s), "RUNNING", TRUE, m)

\* Those are all its steps.
LEMMA WorkTurns ==
    ASSUME Core, NEW c \in Callers, NEW s \in Slots, WorkStep(c, s)
    PROVE  /\ call[c].work[s].pc # "none" /\ creates' = creates /\ scenario' = scenario
           /\ \E p, m : /\ SetWork(c, s, p, m)
                        /\ Looks(c, s, p, m) \/ Rents(c, s, p, m) \/ Writes(c, s, p, m) \/ Reports(c, s, p, m)
  <1>0. PICK q : q = call[c].work[s].pid
    OBVIOUS
  <1>a. call[c].work[s].pc # "none" /\ creates' = creates /\ scenario' = scenario
    BY WorkEffect
  <1>b. q \in Machines \cup {None} /\ IdOf(c, s) \in Ids /\ inst[IdOf(c, s)] \in Record
    BY <1>0, <1>a, AtWork DEF Core, TypeOK
  <1>1. CASE placeReplicaInstance(c, s)
    <2>1. CASE inst[IdOf(c, s)].st # "NONE"
      <3>1. SetWork(c, s, "placed", inst[IdOf(c, s)].pid) /\ Looks(c, s, "placed", inst[IdOf(c, s)].pid)
        BY <1>1, <2>1 DEF placeReplicaInstance, Looks
      <3> QED
        BY <1>a, <3>1
    <2>2. CASE inst[IdOf(c, s)].st = "NONE"
      <3>1. SetWork(c, s, "patch", None) /\ Looks(c, s, "patch", None)
        BY <1>1, <2>2 DEF placeReplicaInstance, Looks
      <3> QED
        BY <1>a, <3>1
    <2> QED
      BY <2>1, <2>2
  <1>2. CASE PlaceFails(c, s)
    <2>1. SetWork(c, s, "unplaced", None) /\ Looks(c, s, "unplaced", None)
      BY <1>2 DEF PlaceFails, Looks
    <2> QED
      BY <1>a, <2>1
  <1>w. ASSUME NEW st \in InstanceState \ {"NONE"}, NEW pid \in Machines \cup {None},
               inst' = [inst EXCEPT ![IdOf(c, s)] = [st |-> st, pid |-> pid]]
        PROVE  \E r \in Record : inst' = [inst EXCEPT ![IdOf(c, s)] = r] /\ r.st # "NONE" /\ r.pid = pid
    <2>1. PICK r : r = [st |-> st, pid |-> pid]
      OBVIOUS
    <2>2. r \in Record /\ r.st # "NONE" /\ r.pid = pid
      BY <2>1 DEF Record
    <2> QED
      BY <1>w, <2>1, <2>2
  <1>s. {"PENDING", "ACTIVE", "FAILED"} \subseteq InstanceState \ {"NONE"}
    BY DEF InstanceState
  <1>3. CASE PlacePatch(c, s)
    <2>1. PICK r \in Record : inst' = [inst EXCEPT ![IdOf(c, s)] = r] /\ r.st # "NONE" /\ r.pid = None
      BY <1>3, <1>s, <1>w DEF PlacePatch, newPendingInstance
    <2>2. CASE Native
      <3>1. SetWork(c, s, "placed", None) /\ Writes(c, s, "placed", None)
        BY <1>3, <2>1, <2>2 DEF PlacePatch, Writes
      <3> QED
        BY <1>a, <3>1
    <2>3. CASE ~Native
      <3>1. SetWork(c, s, "spawn", None) /\ Writes(c, s, "spawn", None)
        BY <1>3, <2>1, <2>3 DEF PlacePatch, Writes
      <3> QED
        BY <1>a, <3>1
    <2> QED
      BY <2>2, <2>3
  <1>4. CASE SpawnStamp(c, s)
    <2>1. PICK r \in Record : inst' = [inst EXCEPT ![IdOf(c, s)] = r] /\ r.st # "NONE" /\ r.pid = q
      BY <1>0, <1>4, <1>b, <1>s, <1>w DEF SpawnStamp
    <2>2. SetWork(c, s, "ssh", q) /\ Writes(c, s, "ssh", q)
      BY <1>0, <1>4, <2>1 DEF SpawnStamp, Writes
    <2> QED
      BY <1>a, <2>2
  <1>5. CASE SshReady(c, s)
    <2>1. SetWork(c, s, "placed", q)
      BY <1>0, <1>5 DEF SshReady
    <2>2. CASE inst' = inst
      <3>1. Looks(c, s, "placed", q)
        BY <1>0, <1>5, <2>2 DEF SshReady, Looks
      <3> QED
        BY <1>a, <2>1, <3>1
    <2>3. CASE inst' = [inst EXCEPT ![IdOf(c, s)] = [st |-> "ACTIVE", pid |-> q]]
      <3>1. PICK r \in Record : inst' = [inst EXCEPT ![IdOf(c, s)] = r] /\ r.st # "NONE" /\ r.pid = q
        BY <2>3, <1>b, <1>s, <1>w
      <3>2. Writes(c, s, "placed", q)
        BY <1>0, <1>5, <3>1 DEF SshReady, Writes
      <3> QED
        BY <1>a, <2>1, <3>2
    <2> QED
      BY <1>0, <1>5, <2>2, <2>3 DEF SshReady
  <1>6. CASE SpawnFails(c, s)
    <2>1. SetWork(c, s, "unplaced", None)
      BY <1>6 DEF SpawnFails
    <2>2. CASE inst' = inst
      <3>1. Looks(c, s, "unplaced", None)
        BY <1>6, <2>2 DEF SpawnFails, Looks
      <3> QED
        BY <1>a, <2>1, <3>1
    <2>3. CASE inst' = [inst EXCEPT ![IdOf(c, s)] = [st |-> "FAILED", pid |-> None]]
      <3>1. PICK r \in Record : inst' = [inst EXCEPT ![IdOf(c, s)] = r] /\ r.st # "NONE" /\ r.pid = None
        BY <2>3, <1>s, <1>w
      <3>2. Writes(c, s, "unplaced", None)
        BY <1>6, <3>1 DEF SpawnFails, Writes
      <3> QED
        BY <1>a, <2>1, <3>2
    <2> QED
      BY <1>6, <2>2, <2>3 DEF SpawnFails
  <1>7. CASE KeyFails(c, s) \/ DeployFails(c, s) \/ EngineFails(c, s)
    <2>1. SetWork(c, s, "failed", q) /\ Looks(c, s, "failed", q)
      BY <1>0, <1>7 DEF KeyFails, DeployFails, EngineFails, Looks
    <2> QED
      BY <1>a, <2>1
  <1>8. CASE Connect(c, s)
    <2>1. SetWork(c, s, "report", q) /\ Looks(c, s, "report", q)
      BY <1>0, <1>8 DEF Connect, Looks
    <2> QED
      BY <1>a, <2>1
  <1>9. CASE DeployStarting(c, s)
    <2>1. SetWork(c, s, "rent", q) /\ Reports(c, s, "rent", q)
      BY <1>0, <1>9 DEF DeployStarting, Reports
    <2> QED
      BY <1>a, <2>1
  <1>10. CASE DeployConfiguring(c, s)
    <2>1. SetWork(c, s, "boot", q) /\ Reports(c, s, "boot", q)
      BY <1>0, <1>10 DEF DeployConfiguring, Reports
    <2> QED
      BY <1>a, <2>1
  <1>11. CASE DeployRunning(c, s)
    <2>1. SetWork(c, s, "final", q) /\ Reports(c, s, "final", q)
      BY <1>0, <1>11 DEF DeployRunning, Reports
    <2> QED
      BY <1>a, <2>1
  <1>12. CASE FinalizeRead(c, s)
    <2>1. CASE inst[IdOf(c, s)].st \in {"NONE", "ACTIVE"} \/ inst[IdOf(c, s)].pid = None
      <3>1. SetWork(c, s, "ok", None) /\ Looks(c, s, "ok", None)
        BY <1>12, <2>1 DEF FinalizeRead, Looks
      <3> QED
        BY <1>a, <3>1
    <2>2. CASE ~(inst[IdOf(c, s)].st \in {"NONE", "ACTIVE"} \/ inst[IdOf(c, s)].pid = None)
      <3>1. SetWork(c, s, "write", inst[IdOf(c, s)].pid) /\ Looks(c, s, "write", inst[IdOf(c, s)].pid)
        BY <1>12, <2>2 DEF FinalizeRead, Looks
      <3> QED
        BY <1>a, <3>1
    <2> QED
      BY <2>1, <2>2
  <1>13. CASE FinalizeWrite(c, s)
    <2>1. PICK r \in Record : inst' = [inst EXCEPT ![IdOf(c, s)] = r] /\ r.st # "NONE" /\ r.pid = q
      BY <1>0, <1>13, <1>b, <1>s, <1>w DEF FinalizeWrite
    <2>2. SetWork(c, s, "ok", None) /\ Writes(c, s, "ok", None)
      BY <1>0, <1>13, <2>1 DEF FinalizeWrite, Writes
    <2> QED
      BY <1>a, <2>2
  <1>14. ASSUME NEW m \in Machines, Spawn(c, s, m) \/ CreatePod(c, s, m)
         PROVE  \E p : SetWork(c, s, p, m) /\ Rents(c, s, p, m)
    <2>1. CASE Spawn(c, s, m)
      <3>1. SetWork(c, s, "stamp", m) /\ Rents(c, s, "stamp", m)
        BY <2>1 DEF Spawn, Rents
      <3> QED
        BY <3>1
    <2>2. CASE CreatePod(c, s, m)
      <3>1. SetWork(c, s, "report", m) /\ Rents(c, s, "report", m)
        BY <2>2 DEF CreatePod, Rents
      <3> QED
        BY <3>1
    <2> QED
      BY <1>14, <2>1, <2>2
  <1> QED
    BY <1>a, <1>1, <1>2, <1>3, <1>4, <1>5, <1>6, <1>7, <1>8, <1>9, <1>10, <1>11, <1>12, <1>13, <1>14 DEF WorkStep

\* What a goroutine's move leaves of the calls.
LEMMA WorkHeld ==
    ASSUME TypeOK, NEW c \in Callers, NEW s \in Slots, NEW p, NEW m, SetWork(c, s, p, m)
    PROVE  \A d \in Callers :
              /\ call'[d].op = call[d].op /\ call'[d].pc = call[d].pc
              /\ call'[d].from = call[d].from /\ call'[d].n = call[d].n
              /\ call'[d].todo = call[d].todo /\ call'[d].failed = call[d].failed
              /\ call'[d].cur = call[d].cur /\ call'[d].snap = call[d].snap /\ call'[d].rec = call[d].rec
              /\ \A t \in Slots :
                    /\ IdOf(d, t)' = IdOf(d, t)
                    /\ d = c /\ t = s => call'[d].work[t].pc = p /\ call'[d].work[t].pid = m
                    /\ ~(d = c /\ t = s) => call'[d].work[t] = call[d].work[t]
  <1>0. call \in [Callers -> Call]
    BY DEF TypeOK
  <1>1. PICK k \in Call : k = call[c]
    BY <1>0
  <1>2. PICK w : w = [pc |-> p, pid |-> m]
    OBVIOUS
  <1>3. PICK v : v = [k.work EXCEPT ![s] = w]
    OBVIOUS
  <1>4. PICK after : after = [k EXCEPT !.work = v]
    OBVIOUS
  <1>5. /\ after.op = k.op /\ after.pc = k.pc /\ after.from = k.from /\ after.n = k.n
        /\ after.todo = k.todo /\ after.cur = k.cur /\ after.snap = k.snap /\ after.rec = k.rec
        /\ after.work = v
    BY <1>4 DEF Call
  <1>f. after.failed = k.failed
    BY <1>4, Zenon DEF Call
  <1>6. v[s] = w /\ \A t \in Slots : t # s => v[t] = k.work[t]
    BY <1>3, CallTyped
  <1>7. call' = [call EXCEPT ![c] = after]
    BY <1>1, <1>2, <1>3, <1>4 DEF SetWork
  <1>8. call'[c] = after /\ \A d \in Callers : d # c => call'[d] = call[d]
    BY <1>0, <1>7
  <1>9. ASSUME NEW d \in Callers
        PROVE  /\ call'[d].op = call[d].op /\ call'[d].pc = call[d].pc
               /\ call'[d].from = call[d].from /\ call'[d].n = call[d].n
               /\ call'[d].todo = call[d].todo /\ call'[d].cur = call[d].cur
               /\ call'[d].snap = call[d].snap /\ call'[d].rec = call[d].rec
    BY <1>1, <1>5, <1>8
  <1>10. ASSUME NEW d \in Callers PROVE call'[d].failed = call[d].failed
    BY <1>1, <1>f, <1>8
  <1>11. ASSUME NEW d \in Callers, NEW t \in Slots
         PROVE  /\ d = c /\ t = s => call'[d].work[t].pc = p /\ call'[d].work[t].pid = m
                /\ ~(d = c /\ t = s) => call'[d].work[t] = call[d].work[t]
    BY <1>1, <1>2, <1>5, <1>6, <1>8
  <1> QED
    BY <1>9, <1>10, <1>11 DEF IdOf

\* What a report leaves of the records: the slots keep their ids and their
\* endpoints, and the instance its machine.
PatchLeaves(i, st, ep, pid) ==
    /\ Len(dep'.reps) = Len(dep.reps) /\ dep'.anchor = dep.anchor
    /\ \A k \in 1..Len(dep.reps) : /\ dep'.reps[k].id = dep.reps[k].id
                                   /\ dep.reps[k].ep => dep'.reps[k].ep
                                   /\ ep /\ dep.reps[k].id = i => dep'.reps[k].ep
    /\ (\A k \in 1..Len(dep.reps) : dep.reps[k].id # i) => dep' = dep /\ inst' = inst
    /\ (\E k \in 1..Len(dep.reps) : dep.reps[k].id = i) =>
          /\ dep'.st = provisioningAdvance(dep.st, st)
          /\ inst[i].st # "NONE" /\ inst[i].pid = None => inst'[i].pid = pid
    /\ \A j \in Ids : /\ inst'[j].st = inst[j].st
                      /\ j # i \/ inst[j].pid # None \/ inst[j].st = "NONE" => inst'[j] = inst[j]
                      /\ inst'[j].pid = inst[j].pid \/ (j = i /\ inst'[j].pid = pid)

\* That is what it does.
LEMMA PatchDoes ==
    ASSUME TypeOK, NEW i \in Ids, NEW st, NEW ep, NEW pid, patchDeploymentSlot(i, st, ep, pid)
    PROVE  PatchLeaves(i, st, ep, pid)
  <1>0. inst \in [Ids -> Record] /\ dep \in Deployment
    BY DEF TypeOK
  <1>1. PICK slot : slot = MemberOf(dep, i)
    OBVIOUS
  <1>2. DOMAIN dep.reps = 1..Len(dep.reps) /\ Len(dep.reps) \in Nat
    BY DepTyped, Bounds
  <1>3. slot = {k \in 1..Len(dep.reps) : dep.reps[k].id = i}
    BY <1>1, <1>2 DEF MemberOf
  <1>4. CASE slot = {}
    <2>1. dep' = dep /\ inst' = inst
      BY <1>1, <1>4 DEF patchDeploymentSlot
    <2>2. \A k \in 1..Len(dep.reps) : dep.reps[k].id # i
      BY <1>3, <1>4
    <2> QED
      BY <2>1, <2>2 DEF PatchLeaves
  <1>5. CASE slot # {}
    <2>1. PICK reps : reps = [k \in DOMAIN dep.reps |->
                                [id |-> dep.reps[k].id,
                                 ep |-> dep.reps[k].ep \/ (ep /\ k \in MemberOf(dep, i))]]
      OBVIOUS
    <2>2. PICK new : new = provisioningAdvance(dep.st, st)
      OBVIOUS
    <2>3. dep' = [dep EXCEPT !.st = new, !.reps = reps]
      <3>1. MemberOf(dep, i) # {}
        BY <1>1, <1>5
      <3>2. dep' = [dep EXCEPT
                      !.st = provisioningAdvance(@, st),
                      !.reps = [k \in DOMAIN @ |->
                                  [id |-> @[k].id,
                                   ep |-> @[k].ep \/ (ep /\ k \in MemberOf(dep, i))]]]
        BY <3>1, Zenon DEF patchDeploymentSlot
      <3> QED
        BY <2>1, <2>2, <3>2
    <2>4. dep'.st = new /\ dep'.reps = reps /\ dep'.anchor = dep.anchor
      BY <1>0, <2>3 DEF Deployment
    <2>5. Len(reps) = Len(dep.reps)
      <3>1. DOMAIN reps = 1..Len(dep.reps)
        BY <1>2, <2>1
      <3>2. reps = [k \in 1..Len(dep.reps) |-> reps[k]]
        BY <2>1, <3>1
      <3> QED
        BY <1>2, <3>1, <3>2
    <2>6. \A k \in 1..Len(dep.reps) :
             reps[k] = [id |-> dep.reps[k].id, ep |-> dep.reps[k].ep \/ (ep /\ k \in MemberOf(dep, i))]
      BY <1>2, <2>1
    <2>8. ASSUME NEW k \in 1..Len(dep.reps)
          PROVE  /\ reps[k].id = dep.reps[k].id
                 /\ (dep.reps[k].ep => reps[k].ep) /\ (ep /\ dep.reps[k].id = i => reps[k].ep)
      <3>1. k \in MemberOf(dep, i) <=> dep.reps[k].id = i
        BY <1>2 DEF MemberOf
      <3>2. PICK b \in ReplicaBacking : b = dep.reps[k]
        BY DepTyped
      <3>3. b.ep \in BOOLEAN
        BY Zenon DEF ReplicaBacking
      <3>4. (b.ep \/ (ep /\ k \in MemberOf(dep, i))) \in BOOLEAN
        BY <3>3
      <3>5. PICK e \in BOOLEAN : e = (b.ep \/ (ep /\ k \in MemberOf(dep, i)))
        BY <3>4
      <3>6. reps[k] = [id |-> b.id, ep |-> e]
        BY <2>6, <3>2, <3>5
      <3>7. reps[k].id = b.id /\ reps[k].ep = e
        BY <3>6
      <3> QED
        BY <3>1, <3>2, <3>5, <3>7, Zenon
    <2>7. \A k \in 1..Len(dep.reps) : reps[k].id = dep.reps[k].id
      BY <2>8
    <2>9. CASE inst[i].st # "NONE" /\ inst[i].pid = None
      <3>1. inst' = [inst EXCEPT ![i].pid = pid]
        BY <1>1, <1>5, <2>9 DEF patchDeploymentSlot
      <3>2. /\ \A j \in Ids : j # i => inst'[j] = inst[j]
            /\ inst'[i].pid = pid /\ inst'[i].st = inst[i].st
        BY <1>0, <3>1 DEF Record
      <3>3. \A j \in Ids : /\ inst'[j].st = inst[j].st
                           /\ j # i \/ inst[j].pid # None \/ inst[j].st = "NONE" => inst'[j] = inst[j]
                           /\ inst'[j].pid = inst[j].pid \/ (j = i /\ inst'[j].pid = pid)
        BY <2>9, <3>2
      <3> QED
        BY <1>3, <1>5, <2>2, <2>4, <2>5, <2>7, <2>8, <3>2, <3>3, Zenon DEF PatchLeaves
    <2>10. CASE ~(inst[i].st # "NONE" /\ inst[i].pid = None)
      <3>1. inst' = inst
        BY <1>1, <1>5, <2>10 DEF patchDeploymentSlot
      <3> QED
        BY <1>3, <1>5, <2>2, <2>4, <2>5, <2>7, <2>8, <2>10, <3>1, Zenon DEF PatchLeaves
    <2> QED
      BY <2>9, <2>10
  <1> QED
    BY <1>4, <1>5
-----------------------------------------------------------------------------
(* RUNNING means serving: where callers create and scale *)

\* The circumstances in which RunningMeansServing speaks.
OnlyGrows == Ops \subseteq {"create", "scale"} /\ "crash" \notin Faults

\* The goroutines of a fan-out are all in the half that it is in.
InPhase(k) ==
    /\ k.pc = "place" => \A s \in Slots : k.work[s].pc \in Placing
    /\ k.pc = "launch" => \A s \in Slots : k.work[s].pc \in Launching
    /\ k.pc \notin {"place", "launch"} => \A s \in Slots : k.work[s].pc = "none"
    /\ k.pc \in {"place", "launch"} => k.n >= 1
    /\ k.op = "create" => k.from = 0

CallsInPhase == \A c \in Callers : InPhase(call[c])

\* A slot that is past its placement has an instance record.
Recorded ==
    \A c \in Callers, s \in Slots :
        call[c].work[s].pc \notin {"none", "read", "patch", "unplaced", "failed"}
            => inst[IdOf(c, s)].st # "NONE"

\* A create has the record to itself.
CreatesAlone ==
    \A c \in Callers : call[c].op = "create" =>
        dep.st \in InFlight /\ \A d \in Callers : call[d] # Idle => d = c

\* There is a first slot to scale from, or the machine of an older record.
HasFirst == Len(dep.reps) >= 1 \/ (dep.anchor = 0 /\ inst[0].pid # None)

\* A scale-up plans its slots behind slots that are there.
ScalesBehind ==
    /\ dep.st \in {"RUNNING", "DEGRADED"} => HasFirst
    /\ \A c \in Callers : call[c].op = "scale" =>
          /\ dep.st \in {"RUNNING", "DEGRADED", "STARTING", "CONFIGURING"}
          /\ HasFirst /\ call[c].from >= 1
          /\ call[c].pc = "normalise" => call[c].from = 1
          /\ call[c].pc # "normalise" => call[c].from <= Len(dep.reps)

\* What a create that has launched its slots knows of them.
Launched ==
    \A c \in Callers : call[c].op = "create" /\ call[c].pc = "launch" =>
        /\ Len(dep.reps) = call[c].n
        /\ \A s \in 1..call[c].n :
              /\ call[c].work[s].pc # "failed" => dep.reps[s].id = IdOf(c, s)
              /\ call[c].work[s].pc \in {"final", "write", "ok"} =>
                    dep.reps[s].ep /\ inst[IdOf(c, s)].pid # None
              /\ call[c].work[s].pc = "write" => call[c].work[s].pid # None

\* A slot that serves.
Serves(k) == dep.reps[k].id # None /\ dep.reps[k].ep /\ inst[dep.reps[k].id].pid # None

\* A slot no scale-up under way will touch.
Behind(k) == \A c \in Callers : call[c].op = "scale" => k <= call[c].from

\* A slot whose scale-up will move the deployment out of RUNNING: by the report
\* of its deployer, or as a slot that failed.
Leaving(k) ==
    \E c \in Callers :
        /\ call[c].op = "scale" /\ call[c].pc = "launch" /\ k \in Planned(c)
        /\ \/ \E s \in Planned(c) : call[c].work[s].pc = "failed"
           \/ call[c].work[k].pc = "start" /\ dep.reps[k].id = IdOf(c, k)

RunningServes ==
    dep.st = "RUNNING" => \A k \in 1..Len(dep.reps) : (Serves(k) /\ Behind(k)) \/ Leaving(k)

NoneGone == \A m \in Machines : cloud[m].status # "gone"

Grown ==
    /\ CallsInPhase /\ Recorded /\ CreatesAlone /\ ScalesBehind /\ Launched
    /\ RunningServes /\ NoneGone

\* The calls there are, under those circumstances.
LEMMA GrowOps ==
    ASSUME Core, OnlyGrows, NEW c \in Callers
    PROVE  /\ call[c] \in Call /\ call[c].op \in {"none", "create", "scale"}
           /\ call[c].op = "none" <=> call[c] = Idle
           /\ call[c].op = "create" => call[c].pc \in {"place", "launch"}
           /\ call[c].op = "scale" => call[c].pc \in {"normalise", "plan", "place", "launch"}
           /\ call[c].pc \in {"normalise", "plan"} => call[c].op = "scale"
           /\ call[c].pc \in {"place", "launch"} => call[c].op \in {"create", "scale"}
  <1>1. call[c] \in Call /\ Shaped(call[c]) /\ Asked(call[c])
    BY CallOf DEF Core
  <1>2. call[c].op \in CallOp
    BY <1>1, CallTyped
  <1>3. "destroy" \notin Ops
    BY DEF OnlyGrows
  <1>4. call[c].op \in {"none", "create", "scale"}
    BY <1>1, <1>2, <1>3 DEF Asked, CallOp
  <1>5. call[c].op = "none" <=> call[c] = Idle
    BY <1>1, IdleTyped DEF Shaped
  <1> QED
    BY <1>1, <1>4, <1>5, DestroyOp DEF Shaped

\* The steps there are.
LEMMA GrowSteps ==
    ASSUME Core, OnlyGrows, Next
    PROVE  \E c \in Callers :
              \/ \E n \in Slots : CreateClaim(c, n)
              \/ ScaleRead(c)
              \/ ScaleNormalise(c)
              \/ \E n \in Slots : ScalePlan(c, n)
              \/ ScaleNoDelta(c)
              \/ Launch(c)
              \/ Aggregate(c)
              \/ \E s \in Slots : WorkStep(c, s)
  <1>1. ASSUME NEW c \in Callers, DestroyClaim(c) PROVE FALSE
    BY <1>1 DEF DestroyClaim, OnlyGrows
  <1>2. ASSUME NEW c \in Callers, DestroyStep(c) PROVE FALSE
    BY <1>2, DestroyEffect, GrowOps
  <1>3. ~Crash
    BY DEF Crash, OnlyGrows
  <1> QED
    BY <1>1, <1>2, <1>3 DEF Next, FanOutStep

\* The fields of a fan-out that starts.
LEMMA StartedFields ==
    ASSUME NEW op, NEW from, NEW n
    PROVE  /\ Started(op, from, n).op = op /\ Started(op, from, n).pc = "place"
           /\ Started(op, from, n).from = from /\ Started(op, from, n).n = n
  <1>1. PICK v : v = [s \in Slots |-> IF s \in (from + 1)..(from + n)
                                     THEN [NoWork EXCEPT !.pc = "read"] ELSE NoWork]
    OBVIOUS
  <1>2. PICK k \in Call : k = Idle
    BY IdleTyped
  <1>3. Started(op, from, n) = [k EXCEPT !.op = op, !.pc = "place", !.from = from, !.n = n, !.work = v]
    BY <1>1, <1>2 DEF Started
  <1> QED
    BY <1>3 DEF Call

\* A create claims the record.
LEMMA GrowClaim ==
    ASSUME Core, OnlyGrows, NEW c \in Callers, NEW n \in Slots, CreateClaim(c, n)
    PROVE  /\ dep'.st = "PENDING" /\ dep.st \in {"NONE", "TERMINATED", "FAILED"}
           /\ call'[c].op = "create" /\ call'[c].pc = "place" /\ call'[c].from = 0 /\ call'[c].n = n
           /\ \A s \in Slots : call'[c].work[s].pc \in {"none", "read"}
  <1>0. call \in [Callers -> Call]
    BY DEF Core, TypeOK
  <1>1. call' = [call EXCEPT ![c] = Started("create", 0, n)]
    BY DEF CreateClaim, StartFanOut, Started
  <1>2. call'[c] = Started("create", 0, n)
    BY <1>0, <1>1
  <1>3. dep.st \in {"NONE", "TERMINATED", "FAILED"}
    BY DEF CreateClaim, OnlyGrows
  <1> QED
    BY <1>2, <1>3, ClaimEffect, StartedFields

\* ScaleDeployment reads the record.
LEMMA GrowRead ==
    ASSUME Core, NEW c \in Callers, ScaleRead(c)
    PROVE  /\ dep' = dep /\ inst' = inst /\ cloud' = cloud /\ dep.st \in {"RUNNING", "DEGRADED"}
           /\ call[c] = Idle /\ \A d \in Callers : d # c => call'[d] = call[d]
           /\ call'[c].op = "scale" /\ \A s \in Slots : call'[c].work[s].pc = "none"
           /\ \/ /\ Len(dep.reps) >= 1 /\ call'[c].pc = "plan" /\ call'[c].from = Len(dep.reps)
              \/ /\ Len(dep.reps) = 0 /\ call'[c].pc = "normalise"
                 /\ dep.anchor # None => call'[c].from = 1
  <1>0. call \in [Callers -> Call] /\ dep.reps \in Seq(ReplicaBacking) /\ Len(dep.reps) \in Nat
    BY DepTyped, Bounds DEF Core, TypeOK
  <1>1. PICK p, f : /\ p = IF dep.reps = <<>> THEN "normalise" ELSE "plan"
                    /\ f = IF dep.reps # <<>> THEN Len(dep.reps) ELSE IF dep.anchor # None THEN 1 ELSE 0
    OBVIOUS
  <1>2. PICK after : after = [Idle EXCEPT !.op = "scale", !.pc = p, !.from = f]
    OBVIOUS
  <1>3. call' = [call EXCEPT ![c] = after]
    BY <1>1, <1>2 DEF ScaleRead
  <1>4. after.op = "scale" /\ after.pc = p /\ after.from = f /\ after.work = Idle.work
    BY <1>2, IdleTyped DEF Call
  <1>5. call'[c] = after /\ \A d \in Callers : d # c => call'[d] = call[d]
    BY <1>0, <1>3
  <1>6. \A s \in Slots : Idle.work[s].pc = "none"
    BY IdleTyped, NothingTyped
  <1>7. dep.reps = <<>> <=> Len(dep.reps) = 0
    BY <1>0
  <1> QED
    BY <1>0, <1>1, <1>4, <1>5, <1>6, <1>7 DEF ScaleRead, CanBegin

\* It gives a singular record its slot table.
LEMMA GrowNormalise ==
    ASSUME Core, NEW c \in Callers, ScaleNormalise(c)
    PROVE  /\ inst' = inst /\ cloud' = cloud /\ dep'.st = dep.st /\ dep'.anchor = dep.anchor
           /\ call[c].pc = "normalise" /\ \A d \in Callers : d # c => call'[d] = call[d]
           /\ call'[c].op = call[c].op /\ call'[c].pc = "plan" /\ call'[c].from = call[c].from
           /\ call'[c].work = call[c].work
           /\ \/ dep' = dep /\ (Len(dep.reps) >= 1 \/ dep.anchor = None)
              \/ /\ Len(dep.reps) = 0 /\ dep.anchor # None /\ Len(dep'.reps) = 1
                 /\ dep'.reps[1].id = dep.anchor /\ dep'.reps[1].ep
  <1>0. /\ call \in [Callers -> Call] /\ dep \in Deployment
        /\ dep.reps \in Seq(ReplicaBacking) /\ Len(dep.reps) \in Nat
    BY DepTyped, Bounds DEF Core, TypeOK
  <1>1. PICK k \in Call : k = call[c]
    BY <1>0
  <1>2. PICK after : after = [k EXCEPT !.pc = "plan"]
    OBVIOUS
  <1>3. call' = [call EXCEPT ![c] = after]
    BY <1>1, <1>2 DEF ScaleNormalise
  <1>4. after.op = k.op /\ after.pc = "plan" /\ after.from = k.from /\ after.work = k.work
    BY <1>2 DEF Call
  <1>5. call'[c] = after /\ \A d \in Callers : d # c => call'[d] = call[d]
    BY <1>0, <1>3
  <1>6. dep.reps = <<>> <=> Len(dep.reps) = 0
    BY <1>0
  <1>7. CASE dep.reps # <<>> \/ dep.anchor = None
    <2>1. dep' = dep
      BY <1>7 DEF ScaleNormalise
    <2> QED
      BY <1>0, <1>1, <1>4, <1>5, <1>6, <1>7, <2>1 DEF ScaleNormalise
  <1>8. CASE ~(dep.reps # <<>> \/ dep.anchor = None)
    <2>1. PICK a : a = dep.anchor
      OBVIOUS
    <2>2. PICK b : b = [id |-> a, ep |-> TRUE]
      OBVIOUS
    <2>3. b.id = a /\ b.ep
      BY <2>2
    <2>4. PICK q : q = <<b>>
      OBVIOUS
    <2>5. Len(q) = 1 /\ q[1] = b
      BY <2>4
    <2>6. dep' = [dep EXCEPT !.reps = q]
      BY <1>8, <2>1, <2>2, <2>4 DEF ScaleNormalise
    <2>7. dep'.st = dep.st /\ dep'.anchor = dep.anchor /\ dep'.reps = q
      BY <1>0, <2>6 DEF Deployment
    <2>8. dep'.reps[1].id = dep.anchor /\ dep'.reps[1].ep
      BY <2>1, <2>3, <2>5, <2>7, Zenon
    <2> QED
      BY <1>0, <1>1, <1>4, <1>5, <1>6, <1>8, <2>5, <2>7, <2>8 DEF ScaleNormalise
  <1> QED
    BY <1>7, <1>8

\* It plans n more slots, or none.
LEMMA GrowPlan ==
    ASSUME Core, NEW c \in Callers, NEW n \in Slots, ScalePlan(c, n)
    PROVE  /\ dep' = dep /\ inst' = inst /\ cloud' = cloud
           /\ call[c].pc = "plan" /\ \A d \in Callers : d # c => call'[d] = call[d]
           /\ call'[c].op = "scale" /\ call'[c].pc = "place"
           /\ call'[c].from = call[c].from /\ call'[c].n = n
           /\ \A s \in Slots : call'[c].work[s].pc \in {"none", "read"}
  <1>0. call \in [Callers -> Call] /\ scenario.slots \in 1..MaxSlots
    BY ScenarioTyped DEF Core, TypeOK
  <1>1. PICK f \in Nat : f = call[c].from
    BY <1>0, CallTyped, Bounds
  <1>2. n \in Nat /\ f + n <= MaxSlots
    BY <1>0, <1>1, Bounds DEF ScalePlan, Slots
  <1>3. call' = [call EXCEPT ![c] = Started("scale", f, n)]
    BY <1>1 DEF ScalePlan, StartFanOut, Started
  <1>4. call'[c] = Started("scale", f, n) /\ \A d \in Callers : d # c => call'[d] = call[d]
    BY <1>0, <1>3
  <1> QED
    BY <1>1, <1>2, <1>4, StartedFields, StartCall DEF ScalePlan

\* Every slot has reported: what the results add up to.
LEMMA GrowAggregate ==
    ASSUME Core, NEW c \in Callers, Aggregate(c)
    PROVE  /\ call[c].pc = "launch"
           /\ \A s \in Planned(c) : call[c].work[s].pc \in {"ok", "failed"}
           /\ dep'.reps = dep.reps /\ dep'.anchor = dep.anchor
           /\ call[c].op = "create" => /\ dep'.st \in {"RUNNING", "FAILED", "DEGRADED"}
                                       /\ dep'.st = "RUNNING" => \A s \in Planned(c) : call[c].work[s].pc = "ok"
           /\ call[c].op # "create" => \/ /\ dep'.st = dep.st
                                          /\ \A s \in Planned(c) : call[c].work[s].pc = "ok"
                                       \/ dep'.st = "DEGRADED"
  <1>0. dep \in Deployment
    BY DEF Core, TypeOK
  <1>1. PICK st : st = IF call[c].op = "create" THEN applyAggregateState(c) ELSE applyScaleAggregate(c)
    OBVIOUS
  <1>2. dep' = [dep EXCEPT !.st = st]
    BY <1>1 DEF Aggregate
  <1>3. dep'.st = st /\ dep'.reps = dep.reps /\ dep'.anchor = dep.anchor
    BY <1>0, <1>2 DEF Deployment
  <1>4. Successes(c) = Planned(c) => \A s \in Planned(c) : call[c].work[s].pc = "ok"
    BY DEF Successes
  <1>5. call[c].op = "create" => /\ st \in {"RUNNING", "FAILED", "DEGRADED"}
                                 /\ st = "RUNNING" => Successes(c) = Planned(c)
    BY <1>1 DEF applyAggregateState
  <1>6. call[c].op # "create" => (st = dep.st /\ Successes(c) = Planned(c)) \/ st = "DEGRADED"
    BY <1>1 DEF applyScaleAggregate
  <1> QED
    BY <1>3, <1>4, <1>5, <1>6 DEF Aggregate

\* The slots are launched.
LEMMA GrowLaunch ==
    ASSUME Core, NEW c \in Callers, Launch(c)
    PROVE  /\ call[c].pc = "place" /\ call'[c].pc = "launch" /\ call'[c].op = call[c].op
           /\ call'[c].from = call[c].from /\ call'[c].n = call[c].n
           /\ \A s \in Planned(c) : call[c].work[s].pc \in {"placed", "unplaced"}
           /\ \A s \in Slots :
                 /\ s \notin Planned(c) => call'[c].work[s].pc = "none"
                 /\ s \in Planned(c) => call'[c].work[s].pc = LaunchPc(c, s)
  <1>0. call \in [Callers -> Call]
    BY DEF Core, TypeOK
  <1>1. PICK k \in Call : k = call[c]
    BY <1>0
  <1>2. PICK v : v = [s \in Slots |-> IF s \in Planned(c)
                                     THEN [k.work[s] EXCEPT !.pc = LaunchPc(c, s)] ELSE k.work[s]]
    OBVIOUS
  <1>3. PICK after : after = [k EXCEPT !.pc = "launch", !.work = v]
    OBVIOUS
  <1>4. call' = [call EXCEPT ![c] = after]
    BY <1>1, <1>2, <1>3 DEF Launch
  <1>5. /\ after.op = k.op /\ after.work = v /\ after.pc = "launch"
        /\ after.from = k.from /\ after.n = k.n
    BY <1>1, <1>3 DEF Call
  <1>6. call'[c] = after
    BY <1>0, <1>4
  <1>7. ASSUME NEW s \in Slots
        PROVE  /\ s \notin Planned(c) => v[s].pc = "none"
               /\ s \in Planned(c) => v[s].pc = LaunchPc(c, s)
    <2>1. PICK w \in Work : w = k.work[s]
      BY <1>1, CallTyped
    <2>2. CASE s \in Planned(c)
      <3>1. v[s] = [w EXCEPT !.pc = LaunchPc(c, s)]
        BY <1>2, <2>1, <2>2
      <3> QED
        BY <2>1, <2>2, <3>1 DEF Work
    <2>3. CASE s \notin Planned(c)
      <3>1. v[s] = w /\ w.pc = "none"
        BY <1>1, <1>2, <2>1, <2>3 DEF Core, CallsShaped, Shaped, Planned
      <3> QED
        BY <2>3, <3>1
    <2> QED
      BY <2>2, <2>3
  <1> QED
    BY <1>1, <1>5, <1>6, <1>7 DEF Launch

\* The slot table of a create that launches.
LEMMA CreateTable ==
    ASSUME Core, NEW c \in Callers, Launch(c), call[c].op = "create"
    PROVE  /\ dep'.st = dep.st /\ Len(dep'.reps) = call[c].n
           /\ \A s \in 1..call[c].n : dep'.reps[s].id = Backing(c, s)
  <1>0. dep \in Deployment /\ call[c] \in Call
    BY DEF Core, TypeOK
  <1>1. PICK n \in Nat : n = call[c].n
    BY <1>0, CallTyped, Bounds
  <1>2. PICK reps, a : /\ reps = [s \in 1..n |-> [id |-> Backing(c, s), ep |-> FALSE]]
                       /\ a = IF call[c].n = 1 /\ Backing(c, 1) # None THEN Backing(c, 1) ELSE dep.anchor
    OBVIOUS
  <1>3. dep' = [dep EXCEPT !.reps = reps, !.anchor = a]
    BY <1>1, <1>2 DEF Launch, recordCreateSlots
  <1>4. dep'.st = dep.st /\ dep'.reps = reps
    BY <1>0, <1>3 DEF Deployment
  <1>5. Len(reps) = n
    BY <1>1, <1>2
  <1>6. ASSUME NEW s \in 1..n PROVE reps[s].id = Backing(c, s)
    <2>1. reps[s] = [id |-> Backing(c, s), ep |-> FALSE]
      BY <1>2
    <2> QED
      BY <2>1
  <1> QED
    BY <1>1, <1>4, <1>5, <1>6

\* The slot table of a scale-up that launches.
LEMMA ScaleTable ==
    ASSUME Core, NEW c \in Callers, Launch(c), call[c].op # "create"
    PROVE  /\ dep'.st = dep.st /\ dep'.anchor = dep.anchor
           /\ \/ Len(dep'.reps) = Len(dep.reps) /\ Len(dep.reps) > call[c].from + call[c].n
              \/ Len(dep'.reps) = call[c].from + call[c].n /\ Len(dep.reps) <= call[c].from + call[c].n
           /\ \A s \in 1..Len(dep'.reps) :
                 /\ s \in Planned(c) => dep'.reps[s].id = Backing(c, s)
                 /\ s \notin Planned(c) /\ s <= Len(dep.reps) => dep'.reps[s] = dep.reps[s]
  <1>0. dep \in Deployment /\ call[c] \in Call /\ Len(dep.reps) \in Nat
    BY DepTyped, Bounds DEF Core, TypeOK
  <1>1. PICK need \in Nat : need = call[c].from + call[c].n
    BY <1>0, CallTyped, Bounds
  <1>2. PICK len \in Nat : len = IF Len(dep.reps) > need THEN Len(dep.reps) ELSE need
    BY <1>0
  <1>n. PICK gap \in ReplicaBacking : gap = [id |-> None, ep |-> FALSE]
    BY DEF ReplicaBacking
  <1>3. PICK reps : reps = [s \in 1..len |->
             IF s \in Planned(c)
             THEN [(IF s <= Len(dep.reps) THEN dep.reps[s] ELSE gap) EXCEPT !.id = Backing(c, s)]
             ELSE IF s <= Len(dep.reps) THEN dep.reps[s] ELSE gap]
    OBVIOUS
  <1>4. dep' = [dep EXCEPT !.reps = reps]
    BY <1>1, <1>2, <1>n, <1>3 DEF Launch, recordAppendedSlots
  <1>5. dep'.st = dep.st /\ dep'.reps = reps /\ dep'.anchor = dep.anchor
    BY <1>0, <1>4 DEF Deployment
  <1>6. Len(reps) = len
    BY <1>3
  <1>7. ASSUME NEW s \in 1..len
        PROVE  /\ s \in Planned(c) => reps[s].id = Backing(c, s)
               /\ s \notin Planned(c) /\ s <= Len(dep.reps) => reps[s] = dep.reps[s]
    <2>1. CASE s \in Planned(c)
      <3>1. PICK old \in ReplicaBacking : old = IF s <= Len(dep.reps) THEN dep.reps[s] ELSE gap
        BY DepTyped DEF Core
      <3>2. reps[s] = [old EXCEPT !.id = Backing(c, s)]
        BY <1>3, <2>1, <3>1
      <3> QED
        BY <2>1, <3>2 DEF ReplicaBacking
    <2>2. CASE s \notin Planned(c)
      BY <1>3, <2>2
    <2> QED
      BY <2>1, <2>2
  <1> QED
    BY <1>0, <1>1, <1>2, <1>5, <1>6, <1>7

\* What a step that leaves the records and the other calls alone has to show of
\* its own call.
LEMMA QuietGrows ==
    ASSUME Core, Grown, NEW c \in Callers, inst' = inst, cloud' = cloud,
           \A d \in Callers : d # c => call'[d] = call[d],
           InPhase(call'[c]),
           \A s \in Slots : call'[c].work[s].pc \notin {"none", "read", "patch", "unplaced", "failed"}
                               => inst[IdOf(c, s)'].st # "NONE"
    PROVE  CallsInPhase' /\ Recorded' /\ NoneGone'
  <1>1. CallsInPhase'
    <2>1. \A d \in Callers : InPhase(call'[d])
      BY DEF Grown, CallsInPhase
    <2> QED
      BY <2>1 DEF CallsInPhase, InPhase
  <1>2. Recorded'
    <2>1. ASSUME NEW d \in Callers, NEW s \in Slots,
                 call'[d].work[s].pc \notin {"none", "read", "patch", "unplaced", "failed"}
          PROVE  inst'[IdOf(d, s)'].st # "NONE"
      <3>1. CASE d = c
        BY <2>1, <3>1
      <3>2. CASE d # c
        <4>1. call'[d] = call[d] /\ IdOf(d, s)' = IdOf(d, s)
          BY <3>2 DEF IdOf
        <4> QED
          BY <2>1, <4>1 DEF Grown, Recorded
      <3> QED
        BY <3>1, <3>2
    <2> QED
      BY <2>1 DEF Recorded
  <1>3. NoneGone'
    BY DEF Grown, NoneGone
  <1> QED
    BY <1>1, <1>2, <1>3

\* A create claims the record: it is alone with it.
LEMMA ClaimGrows ==
    ASSUME Core, OnlyGrows, Grown, NEW c \in Callers, NEW n \in Slots, CreateClaim(c, n)
    PROVE  Grown'
  <1>1. /\ dep'.st = "PENDING" /\ dep.st \in {"NONE", "TERMINATED", "FAILED"}
        /\ call'[c].op = "create" /\ call'[c].pc = "place" /\ call'[c].from = 0 /\ call'[c].n = n
        /\ \A s \in Slots : call'[c].work[s].pc \in {"none", "read"}
    BY GrowClaim
  <1>2. /\ inst' = inst /\ cloud' = cloud /\ \A d \in Callers : d # c => call'[d] = call[d]
    BY ClaimEffect
  <1>3. n \in Nat /\ n >= 1
    BY Bounds DEF Slots
  <1>4. \A d \in Callers : d # c => call'[d] = Idle
    <2>1. ASSUME NEW d \in Callers, d # c PROVE call[d] = Idle
      BY <1>1, GrowOps DEF Grown, CreatesAlone, ScalesBehind, InFlight
    <2> QED
      BY <1>2, <2>1
  <1>5. \A d \in Callers : d # c => call'[d].op = "none"
    BY <1>4, IdleTyped
  <1>6. CallsInPhase' /\ Recorded' /\ NoneGone'
    <2>1. InPhase(call'[c])
      BY <1>1, <1>3 DEF InPhase, Placing
    <2> QED
      BY <1>1, <1>2, <2>1, QuietGrows
  <1>7. CreatesAlone'
    BY <1>1, <1>4, <1>5 DEF CreatesAlone, InFlight
  <1>8. ScalesBehind'
    BY <1>1, <1>5 DEF ScalesBehind
  <1>9. Launched'
    BY <1>1, <1>5 DEF Launched
  <1>10. RunningServes'
    BY <1>1 DEF RunningServes
  <1> QED
    BY <1>6, <1>7, <1>8, <1>9, <1>10 DEF Grown

\* While one caller scales, nobody creates.
LEMMA ScalesOnly ==
    ASSUME Core, OnlyGrows, Grown,
           dep.st \in {"RUNNING", "DEGRADED"} \/ \E c \in Callers : call[c].op = "scale"
    PROVE  \A d \in Callers : call[d].op # "create"
BY GrowOps, IdleTyped DEF Grown, CreatesAlone, InFlight

\* A scale-up that has not launched keeps no slot in RUNNING: whatever becomes
\* of its call, the slots that serve are those that served.
LEMMA ServesStays ==
    ASSUME Core, Grown, NEW c \in Callers, dep' = dep, inst' = inst,
           \A d \in Callers : d # c => call'[d] = call[d],
           call[c].pc # "launch",
           call'[c].op = "scale" => \A k \in 1..Len(dep.reps) : Behind(k) => k <= call'[c].from
    PROVE  RunningServes'
  <1> SUFFICES ASSUME dep.st = "RUNNING", NEW k \in 1..Len(dep.reps)
               PROVE  ((Serves(k) /\ Behind(k)) \/ Leaving(k))'
    BY DEF RunningServes
  <1>1. CASE Serves(k) /\ Behind(k)
    <2>1. Serves(k)'
      BY <1>1 DEF Serves
    <2>2. Behind(k)'
      BY <1>1 DEF Behind
    <2> QED
      BY <2>1, <2>2
  <1>2. CASE Leaving(k)
    <2>1. PICK d \in Callers :
            /\ call[d].op = "scale" /\ call[d].pc = "launch" /\ k \in Planned(d)
            /\ \/ \E s \in Planned(d) : call[d].work[s].pc = "failed"
               \/ call[d].work[k].pc = "start" /\ dep.reps[k].id = IdOf(d, k)
      BY <1>2 DEF Leaving
    <2>2. call'[d] = call[d]
      BY <2>1
    <2>3. Planned(d)' = Planned(d) /\ IdOf(d, k)' = IdOf(d, k)
      BY <2>2 DEF Planned, IdOf
    <2>4. Leaving(k)'
      BY <2>1, <2>2, <2>3 DEF Leaving
    <2> QED
      BY <2>4
  <1> QED
    BY <1>1, <1>2 DEF Grown, RunningServes

\* ScaleDeployment reads the record.
LEMMA ReadGrows ==
    ASSUME Core, OnlyGrows, Grown, NEW c \in Callers, ScaleRead(c)
    PROVE  Grown'
  <1>1. /\ dep' = dep /\ inst' = inst /\ cloud' = cloud /\ dep.st \in {"RUNNING", "DEGRADED"}
        /\ call[c] = Idle /\ \A d \in Callers : d # c => call'[d] = call[d]
        /\ call'[c].op = "scale" /\ \A s \in Slots : call'[c].work[s].pc = "none"
        /\ \/ /\ Len(dep.reps) >= 1 /\ call'[c].pc = "plan" /\ call'[c].from = Len(dep.reps)
           \/ /\ Len(dep.reps) = 0 /\ call'[c].pc = "normalise"
              /\ dep.anchor # None => call'[c].from = 1
    BY GrowRead
  <1>2. Len(dep.reps) \in Nat /\ 0 # None
    BY DepTyped, Bounds DEF Core
  <1>3. \A d \in Callers : call'[d].op # "create"
    BY <1>1, ScalesOnly
  <1>4. CallsInPhase' /\ Recorded' /\ NoneGone'
    <2>1. InPhase(call'[c])
      BY <1>1 DEF InPhase
    <2> QED
      BY <1>1, <2>1, QuietGrows
  <1>5. CreatesAlone' /\ Launched'
    BY <1>3 DEF CreatesAlone, Launched
  <1>6. HasFirst /\ HasFirst'
    BY <1>1 DEF Grown, ScalesBehind, HasFirst
  <1>7. ScalesBehind'
    <2>1. /\ call'[c].from >= 1
          /\ call'[c].pc = "normalise" => call'[c].from = 1
          /\ call'[c].pc # "normalise" => call'[c].from <= Len(dep'.reps)
      BY <1>1, <1>2, <1>6 DEF HasFirst
    <2> QED
      BY <1>1, <1>6, <2>1 DEF Grown, ScalesBehind
  <1>8. RunningServes'
    <2>1. \A k \in 1..Len(dep.reps) : k <= call'[c].from
      BY <1>1, <1>2
    <2>2. call[c].pc # "launch"
      BY <1>1, IdleTyped
    <2> QED
      BY <1>1, <2>1, <2>2, ServesStays
  <1> QED
    BY <1>4, <1>5, <1>7, <1>8 DEF Grown

\* It plans n more slots, or none.
LEMMA PlanGrows ==
    ASSUME Core, OnlyGrows, Grown, NEW c \in Callers,
           (\E n \in Slots : ScalePlan(c, n)) \/ ScaleNoDelta(c)
    PROVE  Grown'
  <1>0. call \in [Callers -> Call] /\ Len(dep.reps) \in Nat
    BY DepTyped, Bounds DEF Core, TypeOK
  <1>1. /\ dep' = dep /\ inst' = inst /\ cloud' = cloud
        /\ call[c].pc = "plan" /\ \A d \in Callers : d # c => call'[d] = call[d]
    BY <1>0, GrowPlan DEF ScaleNoDelta
  <1>2. /\ \/ call'[c].op = "scale" /\ call'[c].pc = "place" /\ call'[c].from = call[c].from /\ call'[c].n >= 1
           \/ call'[c] = Idle
        /\ \A s \in Slots : call'[c].work[s].pc \in {"none", "read"}
    <2>1. CASE ScaleNoDelta(c)
      BY <1>0, <2>1, IdleTyped, NothingTyped DEF ScaleNoDelta
    <2>2. ASSUME NEW n \in Slots, ScalePlan(c, n)
          PROVE  /\ call'[c].op = "scale" /\ call'[c].pc = "place" /\ call'[c].from = call[c].from /\ call'[c].n >= 1
                 /\ \A s \in Slots : call'[c].work[s].pc \in {"none", "read"}
      BY <2>2, GrowPlan, Bounds DEF Slots
    <2> QED
      BY <2>1, <2>2
  <1>3. call[c].op = "scale"
    BY <1>1, GrowOps
  <1>4. \A d \in Callers : call'[d].op # "create"
    BY <1>1, <1>2, <1>3, ScalesOnly, IdleTyped
  <1>5. CallsInPhase' /\ Recorded' /\ NoneGone'
    <2>1. InPhase(call'[c])
      <3>1. CASE call'[c] = Idle
        BY <3>1, IdleTyped, NothingTyped DEF InPhase
      <3>2. CASE call'[c] # Idle
        BY <1>2, <3>2 DEF InPhase, Placing
      <3> QED
        BY <3>1, <3>2
    <2> QED
      BY <1>1, <1>2, <2>1, QuietGrows
  <1>6. CreatesAlone' /\ Launched'
    BY <1>4 DEF CreatesAlone, Launched
  <1>7. ScalesBehind'
    <2>1. /\ call[c].from >= 1 /\ call[c].from <= Len(dep.reps)
      BY <1>1, <1>3 DEF Grown, ScalesBehind
    <2>2. HasFirst' <=> HasFirst
      BY <1>1 DEF HasFirst
    <2>3. ASSUME NEW d \in Callers, call'[d].op = "scale"
          PROVE  /\ dep'.st \in {"RUNNING", "DEGRADED", "STARTING", "CONFIGURING"}
                 /\ HasFirst' /\ call'[d].from >= 1
                 /\ call'[d].pc = "normalise" => call'[d].from = 1
                 /\ call'[d].pc # "normalise" => call'[d].from <= Len(dep'.reps)
      <3>1. CASE d = c
        BY <1>1, <1>2, <1>3, <2>1, <2>2, <2>3, <3>1, IdleTyped DEF Grown, ScalesBehind
      <3>2. CASE d # c
        BY <1>1, <2>2, <2>3, <3>2 DEF Grown, ScalesBehind
      <3> QED
        BY <3>1, <3>2
    <2> QED
      BY <1>1, <2>2, <2>3 DEF Grown, ScalesBehind
  <1>8. RunningServes'
    <2>1. call'[c].op = "scale" => \A k \in 1..Len(dep.reps) : Behind(k) => k <= call'[c].from
      BY <1>2, <1>3, IdleTyped DEF Behind
    <2> QED
      BY <1>1, <2>1, ServesStays
  <1> QED
    BY <1>5, <1>6, <1>7, <1>8 DEF Grown

\* It gives a singular record its slot table.
LEMMA NormaliseGrows ==
    ASSUME Core, OnlyGrows, Grown, NEW c \in Callers, ScaleNormalise(c)
    PROVE  Grown'
  <1>1. /\ inst' = inst /\ cloud' = cloud /\ dep'.st = dep.st /\ dep'.anchor = dep.anchor
        /\ call[c].pc = "normalise" /\ \A d \in Callers : d # c => call'[d] = call[d]
        /\ call'[c].op = call[c].op /\ call'[c].pc = "plan" /\ call'[c].from = call[c].from
        /\ call'[c].work = call[c].work
        /\ \/ dep' = dep /\ (Len(dep.reps) >= 1 \/ dep.anchor = None)
           \/ /\ Len(dep.reps) = 0 /\ dep.anchor # None /\ Len(dep'.reps) = 1
              /\ dep'.reps[1].id = dep.anchor /\ dep'.reps[1].ep
    BY GrowNormalise
  <1>2. Len(dep.reps) \in Nat /\ 0 # None
    BY DepTyped, Bounds DEF Core
  <1>3. call[c].op = "scale"
    BY <1>1, GrowOps
  <1>4. \A d \in Callers : call'[d].op # "create"
    BY <1>1, <1>3, ScalesOnly
  <1>5. HasFirst /\ call[c].from = 1 /\ \A d \in Callers : call[d].op = "scale" => call[d].from >= 1
    BY <1>1, <1>3 DEF Grown, ScalesBehind
  <1>6. Len(dep'.reps) \in Nat /\ Len(dep'.reps) >= 1 /\ Len(dep.reps) <= Len(dep'.reps)
    BY <1>1, <1>2, <1>5 DEF HasFirst
  <1>7. CallsInPhase' /\ Recorded' /\ NoneGone'
    <2>1. InPhase(call[c])
      BY DEF Grown, CallsInPhase
    <2>2. \A s \in Slots : call'[c].work[s].pc = "none"
      BY <1>1, <2>1 DEF InPhase
    <2>3. InPhase(call'[c])
      BY <1>1, <1>3, <2>2 DEF InPhase
    <2> QED
      BY <1>1, <2>2, <2>3, QuietGrows
  <1>8. CreatesAlone' /\ Launched'
    BY <1>4 DEF CreatesAlone, Launched
  <1>9. ScalesBehind'
    <2>1. HasFirst'
      BY <1>6 DEF HasFirst
    <2>2. \A d \in Callers : call'[d].op = call[d].op /\ call'[d].from = call[d].from
      BY <1>1
    <2>3. ASSUME NEW d \in Callers, call'[d].op = "scale"
          PROVE  /\ dep'.st \in {"RUNNING", "DEGRADED", "STARTING", "CONFIGURING"}
                 /\ call'[d].from >= 1
                 /\ call'[d].pc = "normalise" => call'[d].from = 1
                 /\ call'[d].pc # "normalise" => call'[d].from <= Len(dep'.reps)
      <3>1. CASE d = c
        BY <1>1, <1>3, <1>5, <1>6, <3>1 DEF Grown, ScalesBehind
      <3>2. CASE d # c
        <4>1. call'[d] = call[d] /\ call[d].from \in Nat
          BY <1>1, <3>2, CallTyped, Bounds DEF Core, TypeOK
        <4> QED
          BY <1>1, <1>2, <1>6, <2>3, <4>1 DEF Grown, ScalesBehind
      <3> QED
        BY <3>1, <3>2
    <2> QED
      BY <2>1, <2>3 DEF ScalesBehind
  <1>10. RunningServes'
    <2>1. CASE dep' = dep
      <3>1. call'[c].op = "scale" => \A k \in 1..Len(dep.reps) : Behind(k) => k <= call'[c].from
        BY <1>1 DEF Behind
      <3> QED
        BY <1>1, <2>1, <3>1, ServesStays
    <2>2. CASE dep' # dep
      <3>1. /\ Len(dep.reps) = 0 /\ Len(dep'.reps) = 1
            /\ dep'.reps[1].id = dep.anchor /\ dep'.reps[1].ep /\ dep.anchor # None
        BY <1>1, <2>2
      <3>2. dep.anchor = 0 /\ inst[0].pid # None
        BY <1>5, <3>1 DEF HasFirst
      <3>3. Serves(1)'
        BY <1>1, <3>1, <3>2 DEF Serves
      <3>4. Behind(1)'
        BY <1>1, <1>5 DEF Behind
      <3>5. \A k \in 1..Len(dep'.reps) : k = 1
        BY <3>1
      <3> QED
        BY <3>3, <3>4, <3>5 DEF RunningServes
    <2> QED
      BY <2>1, <2>2
  <1> QED
    BY <1>7, <1>8, <1>9, <1>10 DEF Grown

\* Every slot has reported.
LEMMA AggregateGrows ==
    ASSUME Core, OnlyGrows, Grown, NEW c \in Callers, Aggregate(c)
    PROVE  Grown'
  <1>1. /\ call'[c] = Idle /\ call[c] # Idle /\ \A d \in Callers : d # c => call'[d] = call[d]
        /\ cloud' = cloud /\ inst' = inst
    BY AggregateEffect
  <1>2. /\ call[c].pc = "launch"
        /\ \A s \in Planned(c) : call[c].work[s].pc \in {"ok", "failed"}
        /\ dep'.reps = dep.reps /\ dep'.anchor = dep.anchor
        /\ call[c].op = "create" => /\ dep'.st \in {"RUNNING", "FAILED", "DEGRADED"}
                                    /\ dep'.st = "RUNNING" => \A s \in Planned(c) : call[c].work[s].pc = "ok"
        /\ call[c].op # "create" => \/ /\ dep'.st = dep.st
                                       /\ \A s \in Planned(c) : call[c].work[s].pc = "ok"
                                    \/ dep'.st = "DEGRADED"
    BY GrowAggregate
  <1>3. call'[c].op = "none" /\ call[c].op \in {"create", "scale"} /\ call[c] \in Call
    BY <1>1, <1>2, GrowOps, IdleTyped
  <1>4. CallsInPhase' /\ Recorded' /\ NoneGone'
    <2>1. InPhase(call'[c])
      BY <1>1, IdleTyped, NothingTyped DEF InPhase
    <2>2. \A s \in Slots : call'[c].work[s].pc = "none"
      BY <1>1, IdleTyped, NothingTyped
    <2> QED
      BY <1>1, <2>1, <2>2, QuietGrows
  <1>5. \A d \in Callers : call'[d].op # "create"
    <2>1. ASSUME NEW d \in Callers, d # c PROVE call[d].op # "create"
      BY <1>1, <2>1 DEF Grown, CreatesAlone
    <2> QED
      BY <1>1, <1>3, <2>1
  <1>6. CreatesAlone' /\ Launched'
    BY <1>5 DEF CreatesAlone, Launched
  <1>7. CASE call[c].op = "create"
    <2>1. \A d \in Callers : call'[d] = Idle /\ call'[d].op = "none"
      BY <1>1, <1>3, <1>7, IdleTyped DEF Grown, CreatesAlone
    <2>2. PICK n \in Nat : n = call[c].n /\ n >= 1 /\ n <= MaxSlots /\ call[c].from = 0
      BY <1>2, <1>3, <1>7, CallTyped, Bounds DEF Grown, CallsInPhase, InPhase
    <2>3. Len(dep.reps) = n /\ Planned(c) = 1..n
      BY <1>2, <1>7, <2>2 DEF Grown, Launched, Planned
    <2>4. ScalesBehind'
      BY <1>2, <2>1, <2>2, <2>3 DEF ScalesBehind, HasFirst
    <2>5. RunningServes'
      <3> SUFFICES ASSUME dep'.st = "RUNNING", NEW k \in 1..n
                   PROVE  Serves(k)' /\ Behind(k)'
        BY <1>2, <2>3 DEF RunningServes
      <3>1. call[c].work[k].pc = "ok"
        BY <1>2, <1>7, <2>3
      <3>2. dep.reps[k].id = IdOf(c, k) /\ dep.reps[k].ep /\ inst[IdOf(c, k)].pid # None
        BY <1>2, <1>7, <2>2, <3>1 DEF Grown, Launched
      <3>3. IdOf(c, k) # None
        <4>1. IdOf(c, k) \in {0, k}
          BY DEF IdOf, replicaInstanceID
        <4> QED
          BY <4>1, Bounds
      <3>4. Serves(k)'
        BY <1>1, <1>2, <3>2, <3>3 DEF Serves
      <3>5. Behind(k)'
        BY <2>1 DEF Behind
      <3> QED
        BY <3>4, <3>5
    <2> QED
      BY <1>4, <1>6, <2>4, <2>5 DEF Grown
  <1>8. CASE call[c].op = "scale"
    <2>1. HasFirst /\ HasFirst' /\ dep.st \in {"RUNNING", "DEGRADED", "STARTING", "CONFIGURING"}
      BY <1>1, <1>2, <1>8 DEF Grown, ScalesBehind, HasFirst
    <2>2. ScalesBehind'
      <3>1. ASSUME NEW d \in Callers, call'[d].op = "scale"
            PROVE  /\ dep'.st \in {"RUNNING", "DEGRADED", "STARTING", "CONFIGURING"}
                   /\ HasFirst' /\ call'[d].from >= 1
                   /\ call'[d].pc = "normalise" => call'[d].from = 1
                   /\ call'[d].pc # "normalise" => call'[d].from <= Len(dep'.reps)
        <4>1. call'[d] = call[d]
          BY <1>1, <1>3, <3>1
        <4> QED
          BY <1>2, <1>8, <2>1, <3>1, <4>1 DEF Grown, ScalesBehind
      <3> QED
        BY <2>1, <3>1 DEF ScalesBehind
    <2>3. RunningServes'
      <3> SUFFICES ASSUME dep'.st = "RUNNING", NEW k \in 1..Len(dep.reps)
                   PROVE  ((Serves(k) /\ Behind(k)) \/ Leaving(k))'
        BY <1>2 DEF RunningServes
      <3>1. dep.st = "RUNNING" /\ \A s \in Planned(c) : call[c].work[s].pc = "ok"
        BY <1>2, <1>8
      <3>2. CASE Serves(k) /\ Behind(k)
        <4>1. Serves(k)'
          BY <1>1, <1>2, <3>2 DEF Serves
        <4>2. Behind(k)'
          BY <1>1, <1>3, <3>2 DEF Behind
        <4> QED
          BY <4>1, <4>2
      <3>3. CASE Leaving(k)
        <4>1. PICK d \in Callers :
                /\ call[d].op = "scale" /\ call[d].pc = "launch" /\ k \in Planned(d)
                /\ \/ \E s \in Planned(d) : call[d].work[s].pc = "failed"
                   \/ call[d].work[k].pc = "start" /\ dep.reps[k].id = IdOf(d, k)
          BY <3>3 DEF Leaving
        <4>2. d # c
          BY <3>1, <4>1
        <4>3. call'[d] = call[d]
          BY <1>1, <4>2
        <4>4. Planned(d)' = Planned(d) /\ IdOf(d, k)' = IdOf(d, k)
          BY <4>3 DEF Planned, IdOf
        <4>5. Leaving(k)'
          BY <1>2, <4>1, <4>3, <4>4 DEF Leaving
        <4> QED
          BY <4>5
      <3> QED
        BY <3>1, <3>2, <3>3 DEF Grown, RunningServes
    <2> QED
      BY <1>4, <1>6, <2>2, <2>3 DEF Grown
  <1> QED
    BY <1>3, <1>7, <1>8

\* The slots are launched.
LEMMA LaunchGrows ==
    ASSUME Core, OnlyGrows, Grown, NEW c \in Callers, Launch(c)
    PROVE  Grown'
  <1>1. /\ dep'.st = dep.st /\ call[c] # Idle /\ \A d \in Callers : d # c => call'[d] = call[d]
        /\ cloud' = cloud /\ inst' = inst
    BY LaunchEffect
  <1>2. /\ call[c].pc = "place" /\ call'[c].pc = "launch" /\ call'[c].op = call[c].op
        /\ call'[c].from = call[c].from /\ call'[c].n = call[c].n
        /\ \A s \in Planned(c) : call[c].work[s].pc \in {"placed", "unplaced"}
        /\ \A s \in Slots :
              /\ s \notin Planned(c) => call'[c].work[s].pc = "none"
              /\ s \in Planned(c) => call'[c].work[s].pc = LaunchPc(c, s)
    BY GrowLaunch
  <1>3. /\ \A d \in Callers, s \in Slots : IdOf(d, s)' = IdOf(d, s)
        /\ \A d \in Callers : Planned(d)' = Planned(d)
        /\ \A d \in Callers : call'[d].op = call[d].op
    BY <1>1, <1>2 DEF IdOf, Planned
  <1>4. call[c].op \in {"create", "scale"}
    BY <1>2, GrowOps
  <1>5. PICK f \in Nat, n \in Nat : f = call[c].from /\ n = call[c].n /\ n >= 1 /\ f + n <= MaxSlots
    <2>1. call[c] \in Call /\ Shaped(call[c]) /\ InPhase(call[c])
      BY CallOf DEF Core, Grown, CallsInPhase
    <2> QED
      BY <1>2, <2>1, CallTyped, Bounds DEF Shaped, InPhase
  <1>6. Planned(c) = (f + 1)..(f + n) /\ \A s \in Planned(c) : s \in Slots
    BY <1>5, Bounds DEF Planned, Slots
  <1>7. CallsInPhase' /\ Recorded' /\ NoneGone'
    <2>1. \A s \in Slots : call'[c].work[s].pc \in {"none", "start", "failed"}
      BY <1>2 DEF LaunchPc
    <2>2. InPhase(call[c])
      BY DEF Grown, CallsInPhase
    <2>3. InPhase(call'[c])
      BY <1>2, <1>5, <2>1, <2>2 DEF InPhase, Launching
    <2>4. \A s \in Slots : call'[c].work[s].pc = "start" => inst[IdOf(c, s)'].st # "NONE"
      BY <1>2, <1>3 DEF LaunchPc, Grown, Recorded
    <2>5. \A s \in Slots : call'[c].work[s].pc \notin {"none", "read", "patch", "unplaced", "failed"}
                             => inst[IdOf(c, s)'].st # "NONE"
      BY <2>1, <2>4
    <2> QED
      BY <1>1, <2>3, <2>5, QuietGrows
  <1>8. CASE call[c].op = "create"
    <2>1. /\ dep'.st \in InFlight
          /\ \A d \in Callers : d # c => call'[d] = Idle /\ call'[d].op = "none"
      BY <1>1, <1>8, IdleTyped DEF Grown, CreatesAlone
    <2>2. f = 0
      BY <1>5, <1>8 DEF Grown, CallsInPhase, InPhase
    <2>3. Len(dep'.reps) = n /\ \A s \in 1..n : dep'.reps[s].id = Backing(c, s)
      BY <1>5, <1>8, CreateTable
    <2>4. CreatesAlone'
      BY <2>1 DEF CreatesAlone
    <2>5. ScalesBehind' /\ RunningServes'
      BY <1>3, <1>8, <2>1 DEF ScalesBehind, RunningServes, InFlight
    <2>6. Launched'
      <3>1. ASSUME NEW s \in 1..n
            PROVE  /\ call'[c].work[s].pc \in {"start", "failed"}
                   /\ call'[c].work[s].pc = "start" => dep'.reps[s].id = IdOf(c, s)'
        <4>1. s \in Planned(c) /\ s \in Slots
          BY <1>6, <2>2
        <4>2. call'[c].work[s].pc = LaunchPc(c, s) /\ IdOf(c, s)' = IdOf(c, s)
          BY <1>2, <1>3, <4>1
        <4> QED
          BY <2>3, <4>2 DEF LaunchPc, Backing
      <3> QED
        BY <1>2, <1>5, <2>1, <2>3, <3>1 DEF Launched
    <2> QED
      BY <1>7, <2>4, <2>5, <2>6 DEF Grown
  <1>9. CASE call[c].op = "scale"
    <2>0. Len(dep.reps) \in Nat /\ f >= 1 /\ f <= Len(dep.reps) /\ HasFirst
          /\ dep.st \in {"RUNNING", "DEGRADED", "STARTING", "CONFIGURING"}
      BY <1>2, <1>5, <1>9, DepTyped, Bounds DEF Core, Grown, ScalesBehind
    <2>1. PICK len \in Nat : /\ len = Len(dep'.reps) /\ len >= Len(dep.reps)
                             /\ len = Len(dep.reps) \/ len = f + n
      BY <1>5, <1>9, <2>0, ScaleTable
    <2>2. /\ dep'.anchor = dep.anchor
          /\ \A s \in 1..len :
                /\ s \in Planned(c) => dep'.reps[s].id = Backing(c, s)
                /\ s \notin Planned(c) /\ s <= Len(dep.reps) => dep'.reps[s] = dep.reps[s]
      BY <1>9, <2>1, ScaleTable
    <2>3. \A d \in Callers : call'[d].op # "create"
      BY <1>3, <1>9, ScalesOnly
    <2>4. CreatesAlone' /\ Launched'
      BY <2>3 DEF CreatesAlone, Launched
    <2>5. ScalesBehind'
      <3>1. HasFirst'
        BY <2>0, <2>1 DEF HasFirst
      <3>2. ASSUME NEW d \in Callers, call'[d].op = "scale"
            PROVE  /\ call'[d].from >= 1
                   /\ call'[d].pc = "normalise" => call'[d].from = 1
                   /\ call'[d].pc # "normalise" => call'[d].from <= Len(dep'.reps)
        <4>1. call[d].from \in Nat
          BY CallTyped, Bounds DEF Core, TypeOK
        <4>2. CASE d = c
          BY <1>2, <1>5, <2>0, <2>1, <4>2
        <4>3. CASE d # c
          BY <1>1, <2>0, <2>1, <3>2, <4>1, <4>3 DEF Grown, ScalesBehind
        <4> QED
          BY <4>2, <4>3
      <3> QED
        BY <1>1, <2>0, <3>1, <3>2 DEF ScalesBehind
    <2>6. RunningServes'
      <3> SUFFICES ASSUME dep.st = "RUNNING", NEW k \in 1..len
                   PROVE  ((Serves(k) /\ Behind(k)) \/ Leaving(k))'
        BY <1>1, <2>1 DEF RunningServes
      <3>1. CASE k \in Planned(c)
        <4>1. k \in Slots /\ k \in Planned(c)'
          BY <1>3, <1>6, <3>1
        <4>2. call'[c].op = "scale" /\ call'[c].pc = "launch" /\ call'[c].work[k].pc = LaunchPc(c, k)
          BY <1>2, <1>9, <3>1, <4>1
        <4>3. CASE call[c].work[k].pc = "placed"
          <5>1. call'[c].work[k].pc = "start" /\ dep'.reps[k].id = IdOf(c, k)'
            BY <1>3, <2>2, <3>1, <4>1, <4>2, <4>3 DEF LaunchPc, Backing
          <5>2. Leaving(k)'
            BY <4>1, <4>2, <5>1 DEF Leaving
          <5> QED
            BY <5>2
        <4>4. CASE call[c].work[k].pc # "placed"
          <5>1. call'[c].work[k].pc = "failed"
            BY <4>2, <4>4 DEF LaunchPc
          <5>2. Leaving(k)'
            BY <4>1, <4>2, <5>1 DEF Leaving
          <5> QED
            BY <5>2
        <4> QED
          BY <4>3, <4>4
      <3>2. CASE k \notin Planned(c)
        <4>1. k \in 1..Len(dep.reps)
          BY <1>6, <2>0, <2>1, <3>2
        <4>2. dep'.reps[k] = dep.reps[k]
          BY <2>2, <3>2, <4>1
        <4>3. CASE Serves(k) /\ Behind(k)
          <5>1. Serves(k)'
            BY <1>1, <4>2, <4>3 DEF Serves
          <5>2. Behind(k)'
            BY <1>1, <1>2, <4>3 DEF Behind
          <5> QED
            BY <5>1, <5>2
        <4>4. CASE Leaving(k)
          <5>1. PICK d \in Callers :
                  /\ call[d].op = "scale" /\ call[d].pc = "launch" /\ k \in Planned(d)
                  /\ \/ \E s \in Planned(d) : call[d].work[s].pc = "failed"
                     \/ call[d].work[k].pc = "start" /\ dep.reps[k].id = IdOf(d, k)
            BY <4>4 DEF Leaving
          <5>2. call'[d] = call[d]
            BY <1>1, <1>2, <5>1
          <5>3. Planned(d)' = Planned(d) /\ IdOf(d, k)' = IdOf(d, k)
            BY <5>2 DEF Planned, IdOf
          <5>4. Leaving(k)'
            BY <4>2, <5>1, <5>2, <5>3 DEF Leaving
          <5> QED
            BY <5>4
        <4> QED
          BY <4>1, <4>3, <4>4 DEF Grown, RunningServes
      <3> QED
        BY <3>1, <3>2
    <2> QED
      BY <1>7, <2>4, <2>5, <2>6 DEF Grown
  <1> QED
    BY <1>4, <1>8, <1>9

\* One of the steps of a slot's goroutine, which goes on to p with machine m.
Turns(c, s, p, m) ==
    /\ SetWork(c, s, p, m)
    /\ Looks(c, s, p, m) \/ Rents(c, s, p, m) \/ Writes(c, s, p, m) \/ Reports(c, s, p, m)

\* A goroutine stays in its half of the fan-out, and one that has failed stays so.
LEMMA TurnPhase ==
    ASSUME NEW c, NEW s, NEW p, NEW m, Turns(c, s, p, m)
    PROVE  /\ \/ call[c].work[s].pc \in {"read", "patch", "spawn", "stamp", "ssh"}
                 /\ p \in {"placed", "patch", "unplaced", "stamp", "ssh", "spawn"}
              \/ call[c].work[s].pc \in {"start", "rent", "report", "boot", "final", "write"}
                 /\ p \in {"failed", "rent", "report", "boot", "final", "write", "ok"}
           /\ p = "final" => Reports(c, s, p, m) /\ call[c].work[s].pc = "boot"
           /\ p = "write" => m = inst[IdOf(c, s)].pid /\ m # None /\ inst' = inst
           /\ p = "ok" => call[c].work[s].pc \in {"final", "write"}
           /\ p \in {"start", "rent"} => Reports(c, s, p, m) /\ p = "rent" /\ call[c].work[s].pc = "start"
           /\ call[c].work[s].pc = "start" => p \in {"rent", "failed"}
           /\ p = "failed" => dep' = dep
BY DEF Turns, Looks, Rents, Writes, Reports

\* It touches no instance but its own.
LEMMA TurnRecords ==
    ASSUME Core, NEW c \in Callers, NEW s \in Slots, NEW p, NEW m, Turns(c, s, p, m),
           call[c].work[s].pc # "none"
    PROVE  /\ \A j \in Ids : j # IdOf(c, s) => inst'[j] = inst[j]
           /\ p \notin {"none", "read", "patch", "unplaced", "failed"} =>
                 \/ inst'[IdOf(c, s)].st # "NONE"
                 \/ /\ inst'[IdOf(c, s)].st = inst[IdOf(c, s)].st
                    /\ call[c].work[s].pc \notin {"none", "read", "patch", "unplaced", "failed"}
           /\ call[c].work[s].pc \in Launching /\ call[c].work[s].pc # "write"
                 => (inst[IdOf(c, s)].pid # None => inst'[IdOf(c, s)].pid # None)
           /\ call[c].work[s].pc = "write" /\ call[c].work[s].pid # None => inst'[IdOf(c, s)].pid # None
  <1>0. PICK i \in Ids : i = IdOf(c, s)
    BY AtWork
  <1>t. inst \in [Ids -> Record] /\ TypeOK
    BY DEF Core, TypeOK
  <1>1. CASE Looks(c, s, p, m) \/ Rents(c, s, p, m)
    <2>1. inst' = inst
      BY <1>1 DEF Looks, Rents
    <2>2. p \notin {"none", "read", "patch", "unplaced", "failed"} =>
             \/ inst[IdOf(c, s)].st # "NONE"
             \/ call[c].work[s].pc \notin {"none", "read", "patch", "unplaced", "failed"}
      BY <1>1 DEF Looks, Rents
    <2>3. call[c].work[s].pc # "write"
      BY <1>1 DEF Looks, Rents
    <2> QED
      BY <2>1, <2>2, <2>3
  <1>2. CASE Writes(c, s, p, m)
    <2>1. PICK r \in Record :
             /\ inst' = [inst EXCEPT ![i] = r] /\ r.st # "NONE"
             /\ call[c].work[s].pc \in Launching => call[c].work[s].pc = "write" /\ r.pid = call[c].work[s].pid
      BY <1>0, <1>2 DEF Writes, Launching
    <2>2. inst'[i] = r /\ \A j \in Ids : j # i => inst'[j] = inst[j]
      BY <1>t, <2>1
    <2>3. "write" \in Launching
      BY DEF Launching
    <2> QED
      BY <1>0, <2>1, <2>2, <2>3
  <1>3. CASE Reports(c, s, p, m)
    <2>1. PICK st, ep, pid : patchDeploymentSlot(i, st, ep, pid) /\ (pid = None \/ pid = m)
      BY <1>0, <1>3 DEF Reports
    <2>2. PatchLeaves(i, st, ep, pid)
      BY <1>t, <2>1, PatchDoes
    <2>3. \A j \in Ids : /\ inst'[j].st = inst[j].st
                         /\ j # i \/ inst[j].pid # None \/ inst[j].st = "NONE" => inst'[j] = inst[j]
      BY <2>2 DEF PatchLeaves
    <2>4. call[c].work[s].pc \notin {"none", "read", "patch", "unplaced", "failed", "write"}
      BY <1>3 DEF Reports
    <2> QED
      BY <1>0, <2>3, <2>4
  <1> QED
    BY <1>1, <1>2, <1>3 DEF Turns

\* It keeps the slot table, but for endpoints it stamps.
LEMMA TurnTable ==
    ASSUME Core, NEW c \in Callers, NEW s \in Slots, NEW p, NEW m, Turns(c, s, p, m),
           call[c].work[s].pc # "none"
    PROVE  /\ Len(dep'.reps) = Len(dep.reps) /\ dep'.anchor = dep.anchor
           /\ \A k \in 1..Len(dep.reps) : /\ dep'.reps[k].id = dep.reps[k].id
                                          /\ dep.reps[k].ep => dep'.reps[k].ep
           /\ dep' = dep \/ \E x \in {"STARTING", "CONFIGURING", "RUNNING"} : dep'.st = provisioningAdvance(dep.st, x)
           /\ p = "rent" /\ (\E k \in 1..Len(dep.reps) : dep.reps[k].id = IdOf(c, s)) =>
                 dep'.st = provisioningAdvance(dep.st, "STARTING")
           /\ p = "final" =>
                 \A k \in 1..Len(dep.reps) : dep.reps[k].id = IdOf(c, s) =>
                    /\ dep'.reps[k].ep
                    /\ inst[IdOf(c, s)].st # "NONE" => inst'[IdOf(c, s)].pid # None
  <1>0. PICK i \in Ids : i = IdOf(c, s)
    BY AtWork
  <1>t. TypeOK /\ None \notin Machines
    BY Bounds DEF Core
  <1>1. CASE ~Reports(c, s, p, m)
    <2>1. dep' = dep
      BY <1>1 DEF Turns, Looks, Rents, Writes
    <2>2. p \notin {"rent", "final"}
      BY <1>1, TurnPhase
    <2> QED
      BY <2>1, <2>2
  <1>2. CASE Reports(c, s, p, m)
    <2>1. PICK x \in {"STARTING", "CONFIGURING", "RUNNING"}, ep \in BOOLEAN, pid \in Machines \cup {None} :
             /\ patchDeploymentSlot(i, x, ep, pid)
             /\ p = "rent" => x = "STARTING"
             /\ p = "final" => ep /\ pid # None
      <3>0. m \in Machines \cup {None}
        BY <1>2, AtWork DEF Reports
      <3>1. CASE p = "rent"
        <4>1. patchDeploymentSlot(i, "STARTING", FALSE, None)
          BY <1>0, <1>2, <3>1 DEF Reports
        <4> QED
          BY <3>0, <3>1, <4>1
      <3>2. CASE p = "boot"
        <4>1. patchDeploymentSlot(i, "CONFIGURING", FALSE, m)
          BY <1>0, <1>2, <3>2 DEF Reports
        <4> QED
          BY <3>0, <3>2, <4>1
      <3>3. CASE p = "final"
        <4>1. patchDeploymentSlot(i, "RUNNING", TRUE, m) /\ m # None
          BY <1>0, <1>t, <1>2, <3>3 DEF Reports, Rented
        <4> QED
          BY <3>0, <3>3, <4>1
      <3> QED
        BY <1>2, <3>1, <3>2, <3>3 DEF Reports
    <2>2. PatchLeaves(i, x, ep, pid)
      BY <1>t, <2>1, PatchDoes
    <2>3. /\ Len(dep'.reps) = Len(dep.reps) /\ dep'.anchor = dep.anchor
          /\ \A k \in 1..Len(dep.reps) : /\ dep'.reps[k].id = dep.reps[k].id
                                         /\ dep.reps[k].ep => dep'.reps[k].ep
      BY <2>2, Zenon DEF PatchLeaves
    <2>4. dep' = dep \/ dep'.st = provisioningAdvance(dep.st, x)
      BY <2>2 DEF PatchLeaves
    <2>5. (\E k \in 1..Len(dep.reps) : dep.reps[k].id = i) => dep'.st = provisioningAdvance(dep.st, x)
      BY <2>2 DEF PatchLeaves
    <2>6. ASSUME p = "final", NEW k \in 1..Len(dep.reps), dep.reps[k].id = i
          PROVE  dep'.reps[k].ep /\ (inst[i].st # "NONE" => inst'[i].pid # None)
      <3>1. dep'.reps[k].ep
        BY <2>1, <2>2, <2>6, Zenon DEF PatchLeaves
      <3>2. inst[i].st # "NONE" /\ inst[i].pid = None => inst'[i].pid = pid
        BY <2>2, <2>6 DEF PatchLeaves
      <3>3. inst[i].pid # None => inst'[i] = inst[i]
        BY <2>2 DEF PatchLeaves
      <3>4. inst[i].st # "NONE" => inst'[i].pid # None
        BY <2>1, <2>6, <3>2, <3>3
      <3> QED
        BY <3>1, <3>4
    <2>7. p = "rent" /\ (\E k \in 1..Len(dep.reps) : dep.reps[k].id = IdOf(c, s)) =>
             dep'.st = provisioningAdvance(dep.st, "STARTING")
      BY <1>0, <2>1, <2>5
    <2>8. p = "final" =>
             \A k \in 1..Len(dep.reps) : dep.reps[k].id = IdOf(c, s) =>
                /\ dep'.reps[k].ep
                /\ inst[IdOf(c, s)].st # "NONE" => inst'[IdOf(c, s)].pid # None
      BY <1>0, <2>6, Zenon
    <2> QED
      BY <2>3, <2>4, <2>7, <2>8, Zenon
  <1> QED
    BY <1>1, <1>2

\* The states a report moves between.
LEMMA AdvanceMoves ==
    ASSUME NEW st, NEW x \in {"STARTING", "CONFIGURING", "RUNNING"}
    PROVE  /\ provisioningAdvance(st, x) \in {st, "STARTING", "CONFIGURING"}
           /\ st = "RUNNING" => provisioningAdvance(st, "STARTING") = "STARTING"
BY DEF provisioningAdvance, rank

\* The slots a scale-up works on carry their own numbers.
LEMMA ScaleIds ==
    ASSUME Core, Grown, NEW c \in Callers, NEW s \in Slots, call[c].work[s].pc # "none",
           call[c].op = "scale"
    PROVE  IdOf(c, s) = s /\ s > call[c].from /\ call[c].from \in Nat /\ call[c].from >= 1
  <1>1. call[c] \in Call /\ Shaped(call[c]) /\ InPhase(call[c])
    BY CallOf DEF Core, Grown, CallsInPhase
  <1>2. PICK f \in Nat, n \in Nat : f = call[c].from /\ n = call[c].n
    BY <1>1, CallTyped, Bounds
  <1>3. n >= 1 /\ s \in (f + 1)..(f + n)
    BY <1>1, <1>2 DEF Shaped, InPhase
  <1>4. f >= 1
    BY <1>2 DEF Grown, ScalesBehind
  <1>5. f + n # 1 /\ s > f
    BY <1>3, <1>4
  <1> QED
    BY <1>2, <1>4, <1>5 DEF IdOf, replicaInstanceID

\* One step of a slot's goroutine.
LEMMA WorkGrows ==
    ASSUME Core, OnlyGrows, Grown, NEW c \in Callers, NEW s \in Slots, WorkStep(c, s)
    PROVE  Grown'
  <1>1. PICK p, m : Turns(c, s, p, m)
    BY WorkTurns DEF Turns
  <1>2. call[c].work[s].pc # "none" /\ TypeOK
    BY WorkTurns DEF Core
  <1>3. /\ IdOf(c, s) \in Ids /\ s <= call[c].from + call[c].n /\ call[c].op \in {"create", "scale"}
    BY <1>2, AtWork
  <1>4. \A d \in Callers :
           /\ call'[d].op = call[d].op /\ call'[d].pc = call[d].pc
           /\ call'[d].from = call[d].from /\ call'[d].n = call[d].n
           /\ \A t \in Slots :
                 /\ IdOf(d, t)' = IdOf(d, t)
                 /\ d = c /\ t = s => call'[d].work[t].pc = p /\ call'[d].work[t].pid = m
                 /\ ~(d = c /\ t = s) => call'[d].work[t] = call[d].work[t]
    BY <1>1, <1>2, WorkHeld DEF Turns
  <1>5. \A d \in Callers : d # c => call'[d] = call[d]
    BY <1>1, <1>2, WorkSeen DEF Turns
  <1>6. \A d \in Callers : Planned(d)' = Planned(d)
    BY <1>4 DEF Planned
  <1>7. /\ Len(dep'.reps) = Len(dep.reps) /\ dep'.anchor = dep.anchor
        /\ \A k \in 1..Len(dep.reps) : /\ dep'.reps[k].id = dep.reps[k].id
                                       /\ dep.reps[k].ep => dep'.reps[k].ep
    BY <1>1, <1>2, TurnTable
  <1>8. dep'.st \in {dep.st, "STARTING", "CONFIGURING"}
    <2>1. dep' = dep \/ \E x \in {"STARTING", "CONFIGURING", "RUNNING"} : dep'.st = provisioningAdvance(dep.st, x)
      BY <1>1, <1>2, TurnTable
    <2> QED
      BY <2>1, AdvanceMoves
  <1>9. \A j \in Ids : j # IdOf(c, s) => inst'[j] = inst[j]
    BY <1>1, <1>2, TurnRecords
  <1>10. CallsInPhase'
    <2>1. ASSUME NEW d \in Callers PROVE InPhase(call'[d])
      <3>1. InPhase(call[d])
        BY DEF Grown, CallsInPhase
      <3>2. CASE d # c
        BY <1>5, <3>1, <3>2
      <3>3. CASE d = c
        <4>1. call[c].work[s].pc \in Placing /\ call[c].pc = "place" => p \in Placing
          BY <1>1, <1>2, TurnPhase DEF Placing
        <4>2. call[c].work[s].pc \in Launching /\ call[c].pc = "launch" => p \in Launching
          BY <1>1, <1>2, TurnPhase DEF Launching
        <4>3. call[c].pc \in {"place", "launch"}
          BY <1>2, <3>1, <3>3 DEF InPhase
        <4>4. call[c].pc = "place" => \A t \in Slots : call'[c].work[t].pc \in Placing
          BY <1>4, <3>1, <3>3, <4>1 DEF InPhase
        <4>5. call[c].pc = "launch" => \A t \in Slots : call'[c].work[t].pc \in Launching
          BY <1>4, <3>1, <3>3, <4>2 DEF InPhase
        <4> QED
          BY <1>4, <3>1, <3>3, <4>3, <4>4, <4>5 DEF InPhase
      <3> QED
        BY <3>2, <3>3
    <2> QED
      BY <2>1 DEF CallsInPhase, InPhase
  <1>11. Recorded'
    <2>1. ASSUME NEW d \in Callers, NEW t \in Slots,
                 call'[d].work[t].pc \notin {"none", "read", "patch", "unplaced", "failed"}
          PROVE  inst'[IdOf(d, t)'].st # "NONE"
      <3>1. IdOf(d, t)' = IdOf(d, t)
        BY <1>4
      <3>2. CASE d = c /\ t = s
        <4>1. p \notin {"none", "read", "patch", "unplaced", "failed"}
          BY <1>4, <2>1, <3>2
        <4>2. \/ inst'[IdOf(c, s)].st # "NONE"
              \/ /\ inst'[IdOf(c, s)].st = inst[IdOf(c, s)].st
                 /\ call[c].work[s].pc \notin {"none", "read", "patch", "unplaced", "failed"}
          BY <1>1, <1>2, <4>1, TurnRecords
        <4> QED
          BY <3>1, <3>2, <4>2 DEF Grown, Recorded
      <3>3. CASE ~(d = c /\ t = s)
        <4>1. call'[d].work[t] = call[d].work[t]
          BY <1>4, <3>3
        <4>2. IdOf(d, t) \in Ids /\ inst[IdOf(d, t)].st # "NONE"
          BY <2>1, <4>1, AtWork DEF Grown, Recorded
        <4>3. inst'[IdOf(d, t)].st # "NONE"
          BY <4>2, WorkEffect
        <4> QED
          BY <3>1, <4>3
      <3> QED
        BY <3>2, <3>3
    <2> QED
      BY <2>1 DEF Recorded
  <1>12. NoneGone'
    <2>1. cloud' = cloud \/ \E n \in Machines : Rent(IdOf(c, s), n)
      BY WorkEffect
    <2>2. CASE cloud' = cloud
      BY <2>2 DEF Grown, NoneGone
    <2>3. ASSUME NEW n \in Machines, Rent(IdOf(c, s), n) PROVE NoneGone'
      <3>1. cloud \in [Machines -> Machine]
        BY <1>2 DEF TypeOK
      <3>2. cloud'[n].status = "rented" /\ \A o \in Machines : o # n => cloud'[o] = cloud[o]
        BY <2>3, <3>1 DEF Rent
      <3> QED
        BY <3>2 DEF Grown, NoneGone
    <2> QED
      BY <2>1, <2>2, <2>3
  <1>13. CreatesAlone'
    <2>1. \A d \in Callers : call[d] = Idle <=> call[d].op = "none"
      BY GrowOps
    <2>2. call[c] # Idle
      BY <1>3, IdleTyped
    <2>3. ASSUME NEW d \in Callers, call[d].op = "create"
          PROVE  dep'.st \in InFlight /\ \A e \in Callers : call'[e] # Idle => e = d
      <3>1. dep.st \in InFlight /\ \A e \in Callers : call[e] # Idle => e = d
        BY <2>3 DEF Grown, CreatesAlone
      <3>2. dep'.st \in InFlight
        BY <1>8, <3>1 DEF InFlight
      <3> QED
        BY <1>5, <2>2, <3>1, <3>2
    <2> QED
      BY <1>4, <2>3 DEF CreatesAlone
  <1>14. CASE call[c].op = "create"
    <2>1. /\ dep.st \in InFlight /\ \A d \in Callers : d # c => call[d] = Idle /\ call[d].op = "none"
      BY <1>14, IdleTyped DEF Grown, CreatesAlone
    <2>2. dep'.st \in InFlight
      BY <1>8, <2>1 DEF InFlight
    <2>3. ScalesBehind' /\ RunningServes'
      BY <1>4, <1>14, <2>1, <2>2 DEF ScalesBehind, RunningServes, InFlight
    <2>4. Launched'
      <3> SUFFICES ASSUME call[c].pc = "launch"
                   PROVE  /\ Len(dep'.reps) = call[c].n
                          /\ \A t \in 1..call[c].n :
                                /\ call'[c].work[t].pc # "failed" => dep'.reps[t].id = IdOf(c, t)'
                                /\ call'[c].work[t].pc \in {"final", "write", "ok"} =>
                                      dep'.reps[t].ep /\ inst'[IdOf(c, t)'].pid # None
                                /\ call'[c].work[t].pc = "write" => call'[c].work[t].pid # None
        BY <1>4, <2>1 DEF Launched
      <3>0. PICK k \in Call : k = call[c]
        BY GrowOps
      <3>1. PICK n \in Nat : n = call[c].n /\ n <= MaxSlots /\ Len(dep.reps) = n /\ call[c].from = 0
        BY <1>14, <3>0, CallTyped, Bounds DEF Grown, Launched, CallsInPhase, InPhase
      <3>2. \A t \in 1..n :
              /\ call[c].work[t].pc # "failed" => dep.reps[t].id = IdOf(c, t)
              /\ call[c].work[t].pc \in {"final", "write", "ok"} =>
                    dep.reps[t].ep /\ inst[IdOf(c, t)].pid # None
              /\ call[c].work[t].pc = "write" => call[c].work[t].pid # None
        BY <1>14, <3>1 DEF Grown, Launched
      <3>3. \A t \in 1..n : t \in Slots
        BY <3>1, Bounds DEF Slots
      <3>4. s \in 1..n
        BY <1>3, <3>1, Bounds DEF Slots
      <3>l. call[c].work[s].pc \in Launching
        BY DEF Grown, CallsInPhase, InPhase
      <3>5. ASSUME NEW t \in 1..n, t # s
            PROVE  /\ call'[c].work[t].pc # "failed" => dep'.reps[t].id = IdOf(c, t)'
                   /\ call'[c].work[t].pc \in {"final", "write", "ok"} =>
                         dep'.reps[t].ep /\ inst'[IdOf(c, t)'].pid # None
                   /\ call'[c].work[t].pc = "write" => call'[c].work[t].pid # None
        <4>1. call'[c].work[t] = call[c].work[t] /\ IdOf(c, t)' = IdOf(c, t)
          BY <1>4, <3>3, <3>5
        <4>2. IdOf(c, t) # IdOf(c, s) /\ IdOf(c, t) \in Ids
          <5>1. t \in Slots /\ t <= k.from + k.n /\ s <= k.from + k.n
            BY <1>3, <3>0, <3>1, <3>3
          <5>2. IdOf(c, t) = IdIn(k, t) /\ IdOf(c, s) = IdIn(k, s)
            BY <3>0 DEF IdOf, IdIn
          <5> QED
            BY <3>5, <5>1, <5>2, IdsDiffer, IdOfSlot
        <4>3. inst'[IdOf(c, t)] = inst[IdOf(c, t)]
          BY <1>9, <4>2
        <4>4. dep'.reps[t].id = dep.reps[t].id /\ (dep.reps[t].ep => dep'.reps[t].ep)
          BY <1>7, <3>1
        <4> QED
          BY <3>2, <4>1, <4>3, <4>4, Zenon
      <3>6. /\ call'[c].work[s].pc # "failed" => dep'.reps[s].id = IdOf(c, s)'
            /\ call'[c].work[s].pc \in {"final", "write", "ok"} =>
                  dep'.reps[s].ep /\ inst'[IdOf(c, s)'].pid # None
            /\ call'[c].work[s].pc = "write" => call'[c].work[s].pid # None
        <4>1. call'[c].work[s].pc = p /\ call'[c].work[s].pid = m /\ IdOf(c, s)' = IdOf(c, s)
          BY <1>4
        <4>2. call[c].work[s].pc # "failed"
          BY <1>1, TurnPhase
        <4>3. dep.reps[s].id = IdOf(c, s) /\ dep'.reps[s].id = IdOf(c, s)
          BY <1>7, <3>1, <3>2, <3>4, <4>2
        <4>4. p = "write" => m # None
          BY <1>1, TurnPhase
        <4>5. CASE p = "final"
          <5>1. call[c].work[s].pc = "boot"
            BY <1>1, <4>5, TurnPhase
          <5>2. inst[IdOf(c, s)].st # "NONE"
            BY <5>1 DEF Grown, Recorded
          <5>3. dep'.reps[s].ep /\ inst'[IdOf(c, s)].pid # None
            BY <1>1, <1>2, <3>1, <3>4, <4>3, <4>5, <5>2, TurnTable
          <5> QED
            BY <4>1, <4>3, <4>5, <5>3, Zenon
        <4>6. CASE p \in {"write", "ok"}
          <5>1. call[c].work[s].pc \in {"final", "write"}
            BY <1>1, <4>6, TurnPhase DEF Turns, Looks, Rents, Writes, Reports
          <5>2. dep.reps[s].ep /\ inst[IdOf(c, s)].pid # None
            BY <3>2, <3>4, <5>1
          <5>3. dep'.reps[s].ep
            BY <1>7, <3>1, <3>4, <5>2
          <5>4. inst'[IdOf(c, s)].pid # None
            BY <1>1, <1>2, <3>2, <3>4, <3>l, <5>1, <5>2, TurnRecords
          <5> QED
            BY <4>1, <4>3, <4>4, <5>3, <5>4, Zenon
        <4>7. CASE p \notin {"final", "write", "ok"}
          BY <4>1, <4>3, <4>7
        <4> QED
          BY <4>5, <4>6, <4>7
      <3>7. ASSUME NEW t \in 1..n
            PROVE  /\ call'[c].work[t].pc # "failed" => dep'.reps[t].id = IdOf(c, t)'
                   /\ call'[c].work[t].pc \in {"final", "write", "ok"} =>
                         dep'.reps[t].ep /\ inst'[IdOf(c, t)'].pid # None
                   /\ call'[c].work[t].pc = "write" => call'[c].work[t].pid # None
        <4>1. CASE t = s
          BY <3>6, <4>1, Zenon
        <4>2. CASE t # s
          BY <3>5, <4>2, Zenon
        <4> QED
          BY <4>1, <4>2
      <3> QED
        BY <1>7, <3>1, <3>7, Zenon
    <2> QED
      BY <1>10, <1>11, <1>12, <1>13, <2>3, <2>4 DEF Grown
  <1>15. CASE call[c].op = "scale"
    <2>1. IdOf(c, s) = s /\ s > call[c].from /\ call[c].from \in Nat /\ call[c].from >= 1 /\ s \in Nat
      BY <1>2, <1>15, ScaleIds, Bounds
    <2>2. \A d \in Callers : call'[d].op # "create"
      BY <1>4, <1>15, ScalesOnly
    <2>3. Launched'
      BY <2>2 DEF Launched
    <2>4. HasFirst /\ dep.st \in {"RUNNING", "DEGRADED", "STARTING", "CONFIGURING"}
      BY <1>15 DEF Grown, ScalesBehind
    <2>5. ScalesBehind'
      <3>1. HasFirst'
        <4>1. 0 \in Ids /\ 0 # IdOf(c, s)
          BY <2>1, Bounds DEF Ids
        <4>2. inst'[0] = inst[0]
          BY <1>9, <4>1
        <4> QED
          BY <1>7, <2>4, <4>2 DEF HasFirst
      <3>2. dep'.st \in {"RUNNING", "DEGRADED", "STARTING", "CONFIGURING"}
        BY <1>8, <2>4
      <3> QED
        BY <1>4, <1>7, <3>1, <3>2 DEF Grown, ScalesBehind
    <2>6. RunningServes'
      <3> SUFFICES ASSUME dep'.st = "RUNNING", NEW k \in 1..Len(dep.reps)
                   PROVE  ((Serves(k) /\ Behind(k)) \/ Leaving(k))'
        BY <1>7 DEF RunningServes
      <3>1. dep.st = "RUNNING" /\ k \in Nat /\ k >= 1
        BY <1>8, DepTyped, Bounds DEF Core
      <3>2. CASE Serves(k) /\ Behind(k)
        <4>1. k <= call[c].from
          BY <1>15, <3>2 DEF Behind
        <4>2. PICK i : i = dep.reps[k].id
          OBVIOUS
        <4>3. i \in {0, k} /\ i \in Ids
          <5>1. dep.reps[k] \in ReplicaBacking /\ k \in DOMAIN dep.reps
            BY <1>2, DepTyped
          <5>2. i \in SlotIds(k) /\ i # None /\ i \in Ids \cup {None}
            BY <3>2, <4>2, <5>1 DEF Core, SlotsNamed, Serves, ReplicaBacking
          <5> QED
            BY <5>2 DEF SlotIds
        <4>4. i # IdOf(c, s)
          BY <2>1, <3>1, <4>1, <4>3
        <4>5. inst'[i] = inst[i]
          BY <1>9, <4>3, <4>4
        <4>6. dep'.reps[k].id = i /\ (dep.reps[k].ep => dep'.reps[k].ep)
          BY <1>7, <4>2
        <4>7. Serves(k)'
          BY <3>2, <4>2, <4>5, <4>6, Zenon DEF Serves
        <4>8. Behind(k)'
          BY <1>4, <3>2 DEF Behind
        <4> QED
          BY <4>7, <4>8
      <3>3. CASE Leaving(k)
        <4>1. PICK d \in Callers :
                /\ call[d].op = "scale" /\ call[d].pc = "launch" /\ k \in Planned(d)
                /\ \/ \E t \in Planned(d) : call[d].work[t].pc = "failed"
                   \/ call[d].work[k].pc = "start" /\ dep.reps[k].id = IdOf(d, k)
          BY <3>3 DEF Leaving
        <4>2. call'[d].op = "scale" /\ call'[d].pc = "launch" /\ k \in Planned(d)' /\ Planned(d)' = Planned(d)
          BY <1>4, <1>6, <4>1
        <4>3. \A t \in Planned(d) : t \in Slots
          <5>1. call[d] \in Call /\ Shaped(call[d])
            BY CallOf DEF Core
          <5> QED
            BY <5>1, CallTyped, Bounds DEF Shaped, Planned, Slots
        <4>4. ASSUME NEW t \in Planned(d), call[d].work[t].pc = "failed" PROVE Leaving(k)'
          <5>1. ~(d = c /\ t = s)
            BY <1>1, <4>4, TurnPhase
          <5>2. call'[d].work[t].pc = "failed"
            BY <1>4, <4>3, <4>4, <5>1
          <5> QED
            BY <4>2, <5>2 DEF Leaving
        <4>5. CASE call[d].work[k].pc = "start" /\ dep.reps[k].id = IdOf(d, k)
          <5>0. k \in Slots /\ dep'.reps[k].id = IdOf(d, k)'
            BY <1>4, <1>7, <4>1, <4>3, <4>5
          <5>1. CASE d = c /\ k = s
            <6>1. p \in {"rent", "failed"}
              BY <1>1, <4>5, <5>1, TurnPhase
            <6>2. p # "rent"
              BY <1>1, <1>2, <3>1, <4>5, <5>1, TurnTable, AdvanceMoves
            <6>3. call'[d].work[k].pc = "failed"
              BY <1>4, <5>1, <6>1, <6>2
            <6> QED
              BY <4>2, <6>3 DEF Leaving
          <5>2. CASE ~(d = c /\ k = s)
            <6>1. call'[d].work[k].pc = "start"
              BY <1>4, <4>5, <5>0, <5>2
            <6> QED
              BY <4>2, <5>0, <6>1 DEF Leaving
          <5> QED
            BY <5>1, <5>2
        <4> QED
          BY <4>1, <4>4, <4>5
      <3> QED
        BY <3>1, <3>2, <3>3 DEF Grown, RunningServes
    <2> QED
      BY <1>10, <1>11, <1>12, <1>13, <2>3, <2>5, <2>6 DEF Grown
  <1> QED
    BY <1>3, <1>14, <1>15

\* The file that the daemon starts with.
LEMMA StartGrown ==
    ASSUME Init
    PROVE  Grown
  <1>0. TypeOK
    BY StartHolds DEF DeploymentsInv
  <1>1. \A c \in Callers : call[c] = Idle
    BY DEF Init
  <1>2. \A c \in Callers : call[c].op = "none" /\ call[c].pc = "idle" /\ \A s \in Slots : call[c].work[s].pc = "none"
    BY <1>1, IdleTyped, NothingTyped
  <1>3. CallsInPhase /\ Recorded /\ CreatesAlone /\ Launched
    BY <1>2 DEF CallsInPhase, InPhase, Recorded, CreatesAlone, Launched
  <1>4. CASE /\ dep = [st |-> "NONE", reps |-> <<>>, anchor |-> None]
             /\ cloud = [m \in Machines |-> [status |-> "free", for |-> None]]
    <2>1. dep.st = "NONE" /\ NoneGone
      BY <1>4 DEF NoneGone
    <2> QED
      BY <1>2, <1>3, <2>1 DEF Grown, ScalesBehind, RunningServes
  <1>5. ASSUME NEW live \in (SUBSET Ids),
               \/ /\ live = {0} /\ dep = [st |-> "RUNNING", reps |-> <<>>, anchor |-> 0]
               \/ /\ live = 1..scenario.slots
                  /\ dep = [st |-> "RUNNING", reps |-> [s \in live |-> [id |-> s, ep |-> TRUE]], anchor |-> None],
               NEW pod \in [live -> Machines],
               inst = [i \in Ids |-> IF i \in live THEN [st |-> "ACTIVE", pid |-> pod[i]] ELSE NoRecord],
               cloud = [m \in Machines |->
                          IF \E i \in live : pod[i] = m
                          THEN [status |-> "rented", for |-> CHOOSE i \in live : pod[i] = m]
                          ELSE [status |-> "free", for |-> None]]
        PROVE  Grown
    <2>1. NoneGone
      BY <1>5 DEF NoneGone
    <2>2. ASSUME NEW i \in live PROVE inst[i].pid # None
      <3>1. inst[i] = [st |-> "ACTIVE", pid |-> pod[i]] /\ pod[i] \in Machines
        BY <1>5
      <3> QED
        BY <3>1, Bounds
    <2>3. CASE /\ live = {0} /\ dep = [st |-> "RUNNING", reps |-> <<>>, anchor |-> 0]
      <3>1. Len(dep.reps) = 0 /\ dep.anchor = 0 /\ inst[0].pid # None
        BY <2>2, <2>3
      <3> QED
        BY <1>2, <1>3, <2>1, <3>1 DEF Grown, ScalesBehind, HasFirst, RunningServes
    <2>4. CASE /\ live = 1..scenario.slots
               /\ dep = [st |-> "RUNNING", reps |-> [s \in live |-> [id |-> s, ep |-> TRUE]], anchor |-> None]
      <3>1. PICK n \in Nat : n = scenario.slots /\ n >= 1
        BY <1>0, ScenarioTyped, Bounds DEF TypeOK
      <3>2. PICK reps : reps = [s \in 1..n |-> [id |-> s, ep |-> TRUE]]
        OBVIOUS
      <3>3. dep.reps = reps /\ dep.st = "RUNNING"
        BY <2>4, <3>1, <3>2
      <3>4. Len(reps) = n
        BY <3>2
      <3>5. ASSUME NEW k \in 1..n PROVE reps[k].id = k /\ reps[k].ep
        <4>1. reps[k] = [id |-> k, ep |-> TRUE]
          BY <3>2
        <4> QED
          BY <4>1
      <3>6. ASSUME NEW k \in 1..n PROVE Serves(k) /\ Behind(k)
        <4>1. Behind(k)
          BY <1>2 DEF Behind
        <4>2. inst[k].pid # None /\ k # None
          BY <2>2, <2>4, <3>1, Bounds
        <4>3. dep.reps[k].id = k /\ dep.reps[k].ep
          BY <3>3, <3>5, Zenon
        <4> QED
          BY <4>1, <4>2, <4>3, Zenon DEF Serves
      <3>7. RunningServes
        BY <3>3, <3>4, <3>6 DEF RunningServes
      <3>8. ScalesBehind
        BY <1>2, <3>1, <3>3, <3>4 DEF ScalesBehind, HasFirst
      <3> QED
        BY <1>3, <2>1, <3>7, <3>8 DEF Grown
    <2> QED
      BY <1>5, <2>3, <2>4
  <1> QED
    BY <1>4, <1>5 DEF Init

\* The scenario never changes.
LEMMA ScenarioStays ==
    ASSUME Core, [Next]_vars
    PROVE  scenario' = scenario
  <1>1. ASSUME NEW c \in Callers,
               \/ (\E n \in Slots : CreateClaim(c, n)) \/ ScaleRead(c) \/ DestroyClaim(c)
               \/ FanOutStep(c) \/ DestroyStep(c) \/ \E s \in Slots : WorkStep(c, s)
        PROVE  scenario' = scenario
    BY <1>1, ClaimKept, FanOutKept, DestroyKept, WorkKept DEF Kept
  <1> QED
    BY <1>1 DEF Next, Crash, vars

\* What a growing deployment keeps is inductive.
LEMMA GrowHolds ==
    ASSUME Core, OnlyGrows => Grown, [Next]_vars
    PROVE  (OnlyGrows => Grown)'
  <1> SUFFICES ASSUME OnlyGrows' PROVE Grown'
    OBVIOUS
  <1>1. OnlyGrows /\ Grown
    BY ScenarioStays DEF OnlyGrows, Ops, Faults
  <1>2. CASE UNCHANGED vars
    <2>1. dep' = dep /\ inst' = inst /\ cloud' = cloud /\ call' = call
      BY <1>2 DEF vars
    <2>2. CallsInPhase' /\ Recorded' /\ CreatesAlone' /\ NoneGone'
      BY <1>1, <2>1 DEF Grown, CallsInPhase, InPhase, Recorded, CreatesAlone, NoneGone, IdOf
    <2>3. ScalesBehind'
      BY <1>1, <2>1 DEF Grown, ScalesBehind, HasFirst
    <2>4. Launched'
      BY <1>1, <2>1 DEF Grown, Launched, IdOf
    <2>5. RunningServes'
      BY <1>1, <2>1 DEF Grown, RunningServes, Serves, Behind, Leaving, Planned, IdOf
    <2> QED
      BY <2>2, <2>3, <2>4, <2>5 DEF Grown
  <1>3. CASE Next
    BY <1>1, <1>3, GrowSteps, ClaimGrows, ReadGrows, NormaliseGrows, PlanGrows, LaunchGrows,
       AggregateGrows, WorkGrows
  <1> QED
    BY <1>2, <1>3

\* applyAggregateState, recordAppendedSlots and provisioningAdvance: where
\* callers create and scale, whatever fails in their slots and however their
\* goroutines interleave, a deployment that is RUNNING once every call is over
\* has an endpoint in each slot, on a machine that is rented and on record.
THEOREM RunningServed == Spec => []RunningMeansServing
  <1>1. Init => DeploymentsInv /\ (OnlyGrows => Grown)
    BY StartHolds, StartGrown
  <1>2. DeploymentsInv /\ (OnlyGrows => Grown) /\ [Next]_vars
        => DeploymentsInv' /\ (OnlyGrows => Grown)'
    BY StepHolds, GrowHolds DEF DeploymentsInv, Core
  <1>3. DeploymentsInv /\ (OnlyGrows => Grown) => RunningMeansServing
    <2> SUFFICES ASSUME DeploymentsInv, Grown, NoCalls, dep.st = "RUNNING", NEW k \in DOMAIN dep.reps
                 PROVE  dep.reps[k].id # None /\ dep.reps[k].ep /\ Rented(inst[dep.reps[k].id].pid)
      BY DEF RunningMeansServing, OnlyGrows
    <2>1. k \in 1..Len(dep.reps) /\ dep.reps[k] \in ReplicaBacking
      BY DepTyped DEF DeploymentsInv
    <2>2. \A c \in Callers : call[c].op = "none"
      BY IdleTyped DEF NoCalls
    <2>3. Serves(k)
      BY <2>1, <2>2 DEF Grown, RunningServes, Leaving
    <2>4. PICK i \in Ids : i = dep.reps[k].id /\ i # None /\ inst[i].pid # None
      BY <2>1, <2>3 DEF Serves, ReplicaBacking
    <2>5. inst[i].pid \in Machines /\ Owned(inst[i].pid, i)
      BY <2>4 DEF DeploymentsInv, TypeOK, Record, Binding
    <2>6. cloud[inst[i].pid] \in Machine /\ cloud[inst[i].pid].status \notin {"free", "gone"}
      BY <2>5 DEF DeploymentsInv, TypeOK, Owned, Grown, NoneGone
    <2>7. Rented(inst[i].pid)
      BY <2>5, <2>6 DEF Rented, Machine
    <2> QED
      BY <2>3, <2>4, <2>7, Zenon DEF Serves
  <1> QED
    BY <1>1, <1>2, <1>3, PTL DEF Spec

-----------------------------------------------------------------------------
(* The steps of a destroy, by what they change *)

\* Some instance could not be destroyed.
Erred(k) == k.failed

\* The calls after one of them became k.
Becomes(c, k) == call' = [call EXCEPT ![c] = k]

\* It reads the instances.
Opens(c) ==
    /\ call[c].pc = "read" /\ call'[c].pc = "next" /\ call'[c].snap = inst
    /\ call'[c].todo = call[c].todo /\ inst' = inst /\ cloud' = cloud

\* It is done with instance i, for good or for bad.
Passes(c, i) ==
    /\ call[c].pc \in {"next"} \cup Releasing /\ call'[c].pc = "next"
    /\ call'[c].todo = call[c].todo \ {i} /\ call'[c].snap = call[c].snap /\ cloud' = cloud
    /\ \/ Erred(call'[c]) /\ inst' = inst
       \/ call[c].pc = "next" /\ call[c].snap[i].st = "NONE" /\ inst' = inst
       \/ call[c].pc = "mark" /\ i = call[c].cur /\ inst' = inst
       \/ call[c].pc = "write" /\ i = call[c].cur /\ inst' = [inst EXCEPT ![i] = call[c].rec]

\* It goes on with an instance, ending its machine perhaps.
Goes(c) ==
    /\ call[c].pc # "read" /\ call'[c].pc \in {"stop", "emit", "release"}
    /\ call'[c].todo = call[c].todo /\ call'[c].snap = call[c].snap /\ inst' = inst
    /\ cloud' = cloud \/ \E m \in Machines \cup {None} : Terminate(m)

\* It gives its machine back.
Frees(c) ==
    /\ call[c].pc = "release" /\ call'[c].pc = "mark" /\ call'[c].cur = call[c].cur
    /\ call'[c].todo = call[c].todo /\ call'[c].snap = call[c].snap /\ inst' = inst
    /\ call[c].snap[call[c].cur].pid = None => cloud' = cloud
    /\ call[c].snap[call[c].cur].pid # None => Terminate(call[c].snap[call[c].cur].pid)

\* It is about to write that instance's record.
Marks(c) ==
    /\ call[c].pc = "mark" /\ call'[c].pc = "write" /\ call'[c].cur = call[c].cur
    /\ call'[c].todo = call[c].todo /\ call'[c].snap = call[c].snap /\ inst' = inst /\ cloud' = cloud
    /\ inst[call[c].cur].st # "NONE"
    /\ call'[c].rec.st # "NONE" /\ call'[c].rec.pid = inst[call[c].cur].pid

\* It is over.
Ends(c) ==
    /\ call[c].pc = "next" /\ call[c].todo = {} /\ call'[c] = Idle
    /\ dep'.st = "TERMINATED" => ~Erred(call[c])
    /\ inst' = inst /\ cloud' = cloud

\* A call that goes on to pc, with one field more that is new.
Went(k, after, pc, snap, cur, rec) ==
    \/ after = [k EXCEPT !.pc = pc, !.snap = snap] /\ cur = k.cur /\ rec = k.rec
    \/ after = [k EXCEPT !.pc = pc, !.cur = cur] /\ snap = k.snap /\ rec = k.rec
    \/ after = [k EXCEPT !.pc = pc, !.rec = rec] /\ snap = k.snap /\ cur = k.cur
    \/ after = [k EXCEPT !.pc = pc] /\ snap = k.snap /\ cur = k.cur /\ rec = k.rec

\* Its fields.
LEMMA WentFields ==
    ASSUME NEW k \in Call, NEW pc, NEW snap, NEW cur, NEW rec, NEW after,
           Went(k, after, pc, snap, cur, rec)
    PROVE  /\ after.op = k.op /\ after.pc = pc /\ after.from = k.from /\ after.n = k.n
           /\ after.work = k.work /\ after.todo = k.todo /\ after.cur = cur /\ after.snap = snap
           /\ after.rec = rec /\ (Erred(k) => Erred(after))
  <1>1. /\ after.op = k.op /\ after.pc = pc /\ after.from = k.from /\ after.n = k.n
        /\ after.work = k.work /\ after.todo = k.todo /\ after.cur = cur /\ after.snap = snap
        /\ after.rec = rec
    BY DEF Call, Went
  <1>2. after.failed = k.failed
    BY Zenon DEF Call, Went
  <1> QED
    BY <1>1, <1>2, Zenon DEF Erred

\* A call that is done with instance i, for good or for bad.
Passed(k, after, i) ==
    \E bad \in BOOLEAN :
        after = [k EXCEPT !.pc = "next", !.todo = @ \ {i}, !.cur = None,
                          !.rec = NoRecord, !.failed = @ \/ bad]

\* Its fields.
LEMMA PassFields ==
    ASSUME NEW k \in Call, NEW i, NEW after, Passed(k, after, i)
    PROVE  /\ after.op = k.op /\ after.pc = "next" /\ after.from = k.from /\ after.n = k.n
           /\ after.work = k.work /\ after.todo = k.todo \ {i} /\ after.snap = k.snap
           /\ (Erred(k) => Erred(after))
  <1>0. k.failed \in BOOLEAN
    BY CallFailed
  <1>b. PICK bad \in BOOLEAN : after = [k EXCEPT !.pc = "next", !.todo = @ \ {i}, !.cur = None,
                                                !.rec = NoRecord, !.failed = @ \/ bad]
    BY DEF Passed
  <1>1. PICK e \in BOOLEAN : e = (k.failed \/ bad)
    BY <1>0
  <1>2. PICK todo : todo = k.todo \ {i}
    OBVIOUS
  <1>3. after = [k EXCEPT !.pc = "next", !.todo = todo, !.cur = None, !.rec = NoRecord, !.failed = e]
    BY <1>b, <1>1, <1>2
  <1>4. /\ after.op = k.op /\ after.pc = "next" /\ after.from = k.from /\ after.n = k.n
        /\ after.work = k.work /\ after.todo = todo /\ after.snap = k.snap
    BY <1>3 DEF Call
  <1>5. after.failed = e
    BY <1>3, Zenon DEF Call
  <1>6. Erred(k) => Erred(after)
    BY <1>1, <1>5, Zenon DEF Erred
  <1> QED
    BY <1>2, <1>4, <1>6

\* What a destroy keeps of its call, unless it is over.
DestroyHeld(c) ==
    /\ call'[c].op = "destroy" /\ call'[c].pc \in {"read", "next"} \cup Releasing
    /\ call'[c].from = call[c].from /\ call'[c].n = call[c].n /\ call'[c].work = call[c].work
    /\ Erred(call[c]) => Erred(call'[c])

\* A destroy that is done with an instance.
LEMMA PassTurn ==
    ASSUME Core, NEW c \in Callers, NEW i, NextInstance(c, i, TRUE) \/ NextInstance(c, i, FALSE),
           call[c].op = "destroy"
    PROVE  /\ DestroyHeld(c) /\ call'[c].pc = "next"
           /\ call'[c].todo = call[c].todo \ {i} /\ call'[c].snap = call[c].snap
           /\ NextInstance(c, i, TRUE) => Erred(call'[c])
  <1>0. call \in [Callers -> Call]
    BY DEF Core, TypeOK
  <1>1. PICK k \in Call : k = call[c]
    BY <1>0
  <1>2. ASSUME NEW bad \in BOOLEAN, NextInstance(c, i, bad)
        PROVE  Passed(k, call'[c], i) /\ (bad => Erred(call'[c]))
    <2>1. PICK after : after = [k EXCEPT !.pc = "next", !.todo = @ \ {i}, !.cur = None,
                                         !.rec = NoRecord, !.failed = @ \/ bad]
      OBVIOUS
    <2>2. call' = [call EXCEPT ![c] = after]
      BY <1>1, <1>2, <2>1 DEF NextInstance
    <2>3. call'[c] = after
      BY <1>0, <2>2
    <2>4. Passed(k, after, i)
      BY <2>1 DEF Passed
    <2>5. after.failed = (k.failed \/ bad)
      BY <2>1, Zenon DEF Call
    <2>6. bad => Erred(after)
      BY <2>5, Zenon DEF Erred
    <2> QED
      BY <2>3, <2>4, <2>6
  <1>3. Passed(k, call'[c], i) /\ (NextInstance(c, i, TRUE) => Erred(call'[c]))
    BY <1>2
  <1>4. PICK after : after = call'[c] /\ Passed(k, after, i)
    BY <1>3
  <1>5. /\ after.op = k.op /\ after.pc = "next" /\ after.from = k.from /\ after.n = k.n
        /\ after.work = k.work /\ after.todo = k.todo \ {i} /\ after.snap = k.snap
        /\ (Erred(k) => Erred(after))
    BY <1>4, PassFields
  <1> QED
    BY <1>1, <1>3, <1>4, <1>5 DEF DestroyHeld

\* A destroy that goes on to pc.
GoesTo(c, pc, snap, cur, rec) ==
    /\ DestroyHeld(c) /\ call'[c].pc = pc /\ call'[c].todo = call[c].todo
    /\ call'[c].snap = snap /\ call'[c].cur = cur /\ call'[c].rec = rec

\* It has the fields it should.
LEMMA GoTurn ==
    ASSUME Core, NEW c \in Callers, call[c].op = "destroy", NEW after, Becomes(c, after),
           NEW pc \in {"read", "next"} \cup Releasing, NEW snap, NEW cur, NEW rec,
           Went(call[c], after, pc, snap, cur, rec)
    PROVE  GoesTo(c, pc, snap, cur, rec)
  <1>0. call \in [Callers -> Call] /\ call[c] \in Call
    BY DEF Core, TypeOK
  <1>1. call'[c] = after
    BY <1>0 DEF Becomes
  <1>2. PICK k \in Call : k = call[c]
    BY <1>0
  <1>3. /\ after.op = k.op /\ after.pc = pc /\ after.from = k.from /\ after.n = k.n
        /\ after.work = k.work /\ after.todo = k.todo /\ after.cur = cur /\ after.snap = snap
        /\ after.rec = rec /\ (Erred(k) => Erred(after))
    BY <1>2, WentFields
  <1> QED
    BY <1>1, <1>2, <1>3 DEF DestroyHeld, GoesTo

\* Those are all its steps.
LEMMA DestroyTurns ==
    ASSUME Core, NEW c \in Callers, DestroyStep(c)
    PROVE  /\ call[c].op = "destroy" /\ \A d \in Callers : d # c => call'[d] = call[d]
           /\ dep'.reps = dep.reps /\ dep'.anchor = dep.anchor
           /\ dep' = dep \/ dep'.st \in {"TERMINATING", "TERMINATED", "FAILED"}
           /\ creates' = creates /\ scenario' = scenario
           /\ \/ Ends(c)
              \/ DestroyHeld(c) /\ (Opens(c) \/ (\E i \in Ids : Passes(c, i)) \/ Goes(c) \/ Frees(c) \/ Marks(c))
  <1>0. /\ call \in [Callers -> Call] /\ call[c] \in Call /\ inst \in [Ids -> Record] /\ dep \in Deployment
        /\ Shaped(call[c])
    BY CallOf DEF Core, TypeOK
  <1>1. /\ call[c].op = "destroy" /\ \A d \in Callers : d # c => call'[d] = call[d]
        /\ dep' = dep \/ dep'.st \in {"TERMINATING", "TERMINATED", "FAILED"}
    BY DestroyEffect
  <1>2. dep'.reps = dep.reps /\ dep'.anchor = dep.anchor
    <2>1. dep' = dep \/ \E st \in {"TERMINATING", "TERMINATED", "FAILED"} : dep' = [dep EXCEPT !.st = st]
      BY DEF DestroyStep, DestroyRead, DestroySkip, DestroyBegin, DestroyStop, DestroyState,
          DestroyStopFails, DestroyUnreachable, DestroyEmit, releaseRental, ReleaseFails,
          MarkRead, MarkWrite, DestroyFinish
    <2> QED
      BY <1>0, <2>1 DEF Deployment
  <1>3. creates' = creates /\ scenario' = scenario
    BY DEF DestroyStep, DestroyRead, DestroySkip, DestroyBegin, DestroyStop,
          DestroyStopFails, DestroyUnreachable, DestroyEmit, releaseRental, ReleaseFails,
          MarkRead, MarkWrite, DestroyFinish
  <1>4. call[c].todo \in SUBSET Ids /\ (call[c].pc \in Releasing => call[c].cur \in Ids)
    BY <1>0, CallTyped DEF Shaped
  <1>5. {"stop", "emit", "release", "mark", "write"} \subseteq {"read", "next"} \cup Releasing
    BY DEF Releasing
  <1> DEFINE Turn == DestroyHeld(c) /\ (Opens(c) \/ (\E i \in Ids : Passes(c, i)) \/ Goes(c) \/ Frees(c) \/ Marks(c))
  <1>6. CASE DestroyRead(c)
    <2>1. DestroyHeld(c) /\ call'[c].pc = "next" /\ call'[c].todo = call[c].todo /\ call'[c].snap = inst
      <3>1. PICK after : after = [call[c] EXCEPT !.pc = "next", !.snap = inst]
        OBVIOUS
      <3>2. Becomes(c, after)
        BY <1>6, <3>1 DEF DestroyRead, Becomes
      <3>3. Went(call[c], after, "next", inst, call[c].cur, call[c].rec)
        BY <3>1 DEF Went
      <3>5. GoesTo(c, "next", inst, call[c].cur, call[c].rec)
        BY <1>1, <3>2, <3>3, GoTurn DEF Releasing
      <3> QED
        BY <3>5 DEF GoesTo
    <2>2. Opens(c)
      BY <1>6, <2>1 DEF DestroyRead, Opens
    <2> QED
      BY <1>1, <1>2, <1>3, <2>1, <2>2
  <1>7. CASE DestroySkip(c)
    <2>1. PICK i \in Upcoming(c) :
             \/ call[c].snap[i].st = "NONE" /\ NextInstance(c, i, FALSE)
             \/ NextInstance(c, i, TRUE)
      BY <1>7 DEF DestroySkip
    <2>2. i \in Ids
      BY <1>4 DEF Upcoming
    <2>3. DestroyHeld(c) /\ Passes(c, i)
      BY <1>1, <1>7, <2>1, PassTurn DEF DestroySkip, Passes
    <2> QED
      BY <1>1, <1>2, <1>3, <2>2, <2>3
  <1>8. CASE DestroyBegin(c)
    <2>1. PICK i \in Upcoming(c), pc \in {"release", "stop"} : call' = [call EXCEPT ![c].pc = pc, ![c].cur = i]
      BY <1>8 DEF DestroyBegin
    <2>2. DestroyHeld(c) /\ call'[c].pc = pc /\ call'[c].todo = call[c].todo /\ call'[c].snap = call[c].snap
      <3>1. PICK after : after = [call[c] EXCEPT !.pc = pc, !.cur = i]
        OBVIOUS
      <3>2. Becomes(c, after)
        BY <2>1, <3>1 DEF Becomes
      <3>3. Went(call[c], after, pc, call[c].snap, i, call[c].rec)
        BY <3>1 DEF Went
      <3>4. pc \in {"read", "next"} \cup Releasing
        BY <1>5
      <3>5. GoesTo(c, pc, call[c].snap, i, call[c].rec)
        BY <1>1, <3>2, <3>3, <3>4, GoTurn
      <3> QED
        BY <3>5 DEF GoesTo
    <2>3. Goes(c)
      BY <1>8, <2>2 DEF DestroyBegin, Goes
    <2> QED
      BY <1>1, <1>2, <1>3, <2>2, <2>3
  <1>9. CASE DestroyStop(c) \/ DestroyEmit(c)
    <2>1. PICK pc \in {"emit", "release"} : call' = [call EXCEPT ![c].pc = pc]
      BY <1>9 DEF DestroyStop, DestroyEmit
    <2>2. DestroyHeld(c) /\ call'[c].pc = pc /\ call'[c].todo = call[c].todo /\ call'[c].snap = call[c].snap
      <3>1. PICK after : after = [call[c] EXCEPT !.pc = pc]
        OBVIOUS
      <3>2. Becomes(c, after)
        BY <2>1, <3>1 DEF Becomes
      <3>3. Went(call[c], after, pc, call[c].snap, call[c].cur, call[c].rec)
        BY <3>1 DEF Went
      <3>4. pc \in {"read", "next"} \cup Releasing
        BY <1>5
      <3>5. GoesTo(c, pc, call[c].snap, call[c].cur, call[c].rec)
        BY <1>1, <3>2, <3>3, <3>4, GoTurn
      <3> QED
        BY <3>5 DEF GoesTo
    <2>3. call[c].pc \in {"stop", "emit"} /\ inst' = inst
      BY <1>9 DEF DestroyStop, DestroyEmit
    <2>4. cloud' = cloud \/ \E m \in Machines \cup {None} : Terminate(m)
      <3>1. call[c].pc = "stop" => call[c].snap[Cur(c)].pid \in Machines \cup {None}
        BY <1>0, <1>4, CallTyped DEF Releasing, Record, Cur
      <3> QED
        BY <1>9, <3>1 DEF DestroyStop, DestroyEmit
    <2>5. Goes(c)
      BY <2>2, <2>3, <2>4 DEF Goes
    <2> QED
      BY <1>1, <1>2, <1>3, <2>2, <2>5
  <1>10. CASE DestroyStopFails(c) \/ DestroyUnreachable(c) \/ ReleaseFails(c)
    <2>1. /\ NextInstance(c, Cur(c), TRUE) /\ inst' = inst /\ cloud' = cloud
          /\ call[c].pc \in {"stop", "release"}
      BY <1>10 DEF DestroyStopFails, DestroyUnreachable, ReleaseFails
    <2>2. PICK i \in Ids : i = Cur(c)
      BY <1>4, <2>1 DEF Releasing, Cur
    <2>3. DestroyHeld(c) /\ Passes(c, i)
      BY <1>1, <2>1, <2>2, PassTurn DEF Passes, Releasing
    <2> QED
      BY <1>1, <1>2, <1>3, <2>3
  <1>11. CASE releaseRental(c)
    <2>1. DestroyHeld(c) /\ call'[c].pc = "mark" /\ call'[c].todo = call[c].todo /\ call'[c].snap = call[c].snap
          /\ call'[c].cur = call[c].cur
      <3>1. PICK after : after = [call[c] EXCEPT !.pc = "mark"]
        OBVIOUS
      <3>2. Becomes(c, after)
        BY <1>11, <3>1 DEF releaseRental, Becomes
      <3>3. Went(call[c], after, "mark", call[c].snap, call[c].cur, call[c].rec)
        BY <3>1 DEF Went
      <3>5. GoesTo(c, "mark", call[c].snap, call[c].cur, call[c].rec)
        BY <1>1, <1>5, <3>2, <3>3, GoTurn DEF Releasing
      <3> QED
        BY <3>5 DEF GoesTo
    <2>2. Frees(c)
      BY <1>11, <2>1 DEF releaseRental, Frees, Cur
    <2> QED
      BY <1>1, <1>2, <1>3, <2>1, <2>2
  <1>12. CASE MarkRead(c)
    <2>1. PICK i \in Ids : i = Cur(c) /\ i = call[c].cur
      BY <1>4, <1>12 DEF MarkRead, Releasing, Cur
    <2>2. CASE inst[i].st \in {"NONE", "TERMINATED"}
      <3>1. NextInstance(c, i, FALSE) /\ call[c].pc = "mark" /\ inst' = inst /\ cloud' = cloud
        BY <1>12, <2>1, <2>2 DEF MarkRead
      <3>2. DestroyHeld(c) /\ Passes(c, i)
        BY <1>1, <2>1, <3>1, PassTurn DEF Passes, Releasing
      <3> QED
        BY <1>1, <1>2, <1>3, <3>2
    <2>3. CASE inst[i].st \notin {"NONE", "TERMINATED"}
      <3>1. PICK r : r = [inst[i] EXCEPT !.st = "TERMINATED"]
        OBVIOUS
      <3>2. r.st # "NONE" /\ r.pid = inst[i].pid
        BY <1>0, <3>1 DEF Record
      <3>3. call' = [call EXCEPT ![c].pc = "write", ![c].rec = r]
        BY <1>12, <2>1, <2>3, <3>1 DEF MarkRead
      <3>4. DestroyHeld(c) /\ call'[c].pc = "write" /\ call'[c].todo = call[c].todo /\ call'[c].snap = call[c].snap
            /\ call'[c].cur = call[c].cur /\ call'[c].rec = r
        <4>1. PICK after : after = [call[c] EXCEPT !.pc = "write", !.rec = r]
          OBVIOUS
        <4>2. Becomes(c, after)
          BY <3>3, <4>1 DEF Becomes
        <4>3. Went(call[c], after, "write", call[c].snap, call[c].cur, r)
          BY <4>1 DEF Went
        <4>5. GoesTo(c, "write", call[c].snap, call[c].cur, r)
          BY <1>1, <1>5, <4>2, <4>3, GoTurn DEF Releasing
        <4> QED
          BY <4>5 DEF GoesTo
      <3>5. Marks(c)
        BY <1>12, <2>1, <2>3, <3>2, <3>4 DEF MarkRead, Marks
      <3> QED
        BY <1>1, <1>2, <1>3, <3>4, <3>5
    <2> QED
      BY <2>2, <2>3
  <1>13. CASE MarkWrite(c)
    <2>1. PICK i \in Ids : i = Cur(c) /\ i = call[c].cur
      BY <1>4, <1>13 DEF MarkWrite, Releasing, Cur
    <2>2. NextInstance(c, i, FALSE) /\ call[c].pc = "write" /\ inst' = [inst EXCEPT ![i] = call[c].rec] /\ cloud' = cloud
      BY <1>13, <2>1 DEF MarkWrite
    <2>3. DestroyHeld(c) /\ Passes(c, i)
      BY <1>1, <2>1, <2>2, PassTurn DEF Passes, Releasing
    <2> QED
      BY <1>1, <1>2, <1>3, <2>3
  <1>14. CASE DestroyFinish(c)
    <2>1. call'[c] = Idle
      BY <1>0, <1>14 DEF DestroyFinish
    <2>2. dep'.st = DestroyState(call[c].failed)
      BY <1>0, <1>14 DEF DestroyFinish, Deployment
    <2>3. dep'.st = "TERMINATED" => ~Erred(call[c])
      BY <2>2 DEF DestroyState, Erred
    <2>4. Ends(c)
      BY <1>14, <2>1, <2>3 DEF DestroyFinish, Ends
    <2> QED
      BY <1>1, <1>2, <1>3, <2>4
  <1> QED
    BY <1>6, <1>7, <1>8, <1>9, <1>10, <1>11, <1>12, <1>13, <1>14 DEF DestroyStep

-----------------------------------------------------------------------------
(* TERMINATED means released: the invariant *)

FanOut(c) == call[c].op \in {"create", "scale"}

\* Calls do not overlap, where they may not.
AtOnce == scenario.calls = 1 => \A c, d \in Callers : call[c] # Idle /\ call[d] # Idle => c = d

\* There is nothing before the create, and no create after it.
Blank ==
    /\ dep.st = "NONE" /\ Len(dep.reps) = 0 /\ dep.anchor = None
    /\ \A i \in Ids : inst[i] = NoRecord
    /\ \A m \in Machines : ~Rented(m)
    /\ \A c \in Callers : call[c] = Idle

OneLife == Blank \/ scenario.creates <= creates

\* A create works on an empty slot table, a scale-up right behind the slots that
\* are there; when the slots are launched they are in the table.
Sized(c) ==
    /\ call[c].op = "create" => call[c].from = 0
    /\ call[c].op = "create" /\ call[c].pc = "place" => Len(dep.reps) = 0 /\ dep.anchor = None
    /\ call[c].pc = "normalise" => Len(dep.reps) = 0 /\ dep.anchor # None /\ call[c].from = 1
    /\ call[c].op = "scale" /\ call[c].pc \in {"plan", "place"} =>
          Len(dep.reps) >= 1 /\ call[c].from = Len(dep.reps)
    /\ call[c].pc \in {"place", "launch"} => call[c].n >= 1
    /\ call[c].pc = "launch" => Len(dep.reps) >= call[c].from + call[c].n
    /\ call[c].pc \in {"normalise", "plan"} => \A s \in Slots : call[c].work[s].pc = "none"

Tabled ==
    /\ dep.st \in {"RUNNING", "DEGRADED"} => Len(dep.reps) >= 1 \/ dep.anchor # None
    /\ \A c \in Callers : FanOut(c) => dep.st # "TERMINATED" /\ Sized(c)

\* A slot that is not in the table, nor being placed, has no instance.
Fresh ==
    \A s \in Slots :
        /\ s > Len(dep.reps)
        /\ \A c \in Callers : call[c].pc = "place" => s \notin Planned(c)
        => inst[s] = NoRecord

\* What the goroutine of a slot knows of its instance: there is none before it
\* writes one, and the machine on record is the one it works on; an image-native
\* slot has none until the pod is reported.
SlotKnown(c, s) ==
    /\ call[c].work[s].pc \in {"read", "patch"} => inst[IdOf(c, s)] = NoRecord
    /\ call[c].work[s].pc \in {"spawn", "stamp"} => inst[IdOf(c, s)].pid = None /\ ~Native
    /\ call[c].work[s].pc = "ssh" => inst[IdOf(c, s)].pid = call[c].work[s].pid /\ ~Native
    /\ call[c].work[s].pc \in {"placed", "start", "rent", "report"} =>
          inst[IdOf(c, s)].pid = IF Native THEN None ELSE call[c].work[s].pid
    /\ call[c].work[s].pc = "write" => inst[IdOf(c, s)].pid = call[c].work[s].pid
    /\ call[c].work[s].pc \notin {"none", "read", "patch", "unplaced", "failed"} =>
          inst[IdOf(c, s)].st # "NONE"
    /\ call[c].work[s].pc \in Launching \ {"none", "failed"} =>
          s \in 1..Len(dep.reps) /\ dep.reps[s].id = IdOf(c, s)

Working == \A c \in Callers, s \in Slots : SlotKnown(c, s)

\* An instance without a record has no machine on record.
NoneUnrecorded == \A i \in Ids : inst[i].st = "NONE" => inst[i].pid = None

\* The instances the deployment's record leads to.
Named(i) == (\E k \in 1..Len(dep.reps) : dep.reps[k].id = i) \/ (Len(dep.reps) = 0 /\ dep.anchor = i)

\* A machine that the record leads to, or that a goroutine is about to name.
OnRecord(m) == inst[cloud[m].for].pid = m /\ Named(cloud[m].for)

InHand(m) ==
    \E c \in Callers, s \in Slots :
        /\ IdOf(c, s) = cloud[m].for /\ call[c].work[s].pid = m
        /\ \/ call[c].work[s].pc \in {"stamp", "report"}
           \/ call[c].work[s].pc \in {"ssh", "placed"} /\ inst[IdOf(c, s)].pid = m

Accounted ==
    \A m \in Machines : Rented(m) => cloud[m].for \in Ids /\ (OnRecord(m) \/ InHand(m))

\* What a destroy knows: the machines on record are the ones it read, and unless
\* it failed on one it has still to visit every machine that is rented.
Visiting(c) ==
    /\ call[c].pc = "read" => \A i \in Ids : Named(i) => i \in call[c].todo
    /\ call[c].pc # "read" =>
          /\ \A i \in Ids : /\ call[c].snap[i].pid = inst[i].pid
                            /\ call[c].snap[i].st = "NONE" => call[c].snap[i].pid = None
          /\ Erred(call[c]) \/ \A m \in Machines : Rented(m) => cloud[m].for \in call[c].todo
    /\ call[c].pc \in {"mark", "write"} => \A m \in Machines : Rented(m) => cloud[m].for # call[c].cur
    /\ call[c].pc = "write" =>
          /\ call[c].rec.st # "NONE" /\ call[c].rec.pid = inst[call[c].cur].pid
          /\ inst[call[c].cur].st # "NONE"

Visits == \A c \in Callers : call[c].op = "destroy" => Visiting(c)

\* A deployment is TERMINATED by a destroy that goes on, or has nothing rented.
TerminatedReleases ==
    dep.st = "TERMINATED" =>
        (\E c \in Callers : call[c].op = "destroy") \/ \A m \in Machines : ~Rented(m)

Once ==
    /\ AtOnce /\ OneLife /\ Tabled /\ Fresh /\ Working /\ NoneUnrecorded
    /\ Accounted /\ Visits /\ TerminatedReleases

-----------------------------------------------------------------------------
(* Who is at work *)

\* Where one call runs at a time, it starts when there is no other.
LEMMA BeginsAlone ==
    ASSUME Core, AtOnce, scenario.calls = 1, NEW c \in Callers, CanBegin(c)
    PROVE  \A d \in Callers : call[d] = Idle
  <1> SUFFICES ASSUME NEW d \in Callers, call[d] # Idle PROVE FALSE
    OBVIOUS
  <1>1. {e \in Callers : call[e] # Idle} = {d}
    BY DEF AtOnce
  <1>2. Cardinality({d}) = 1
    BY FS_Singleton
  <1> QED
    BY <1>1, <1>2 DEF CanBegin

\* The calls there are.
LEMMA OnceCalls ==
    ASSUME Core, NEW c \in Callers
    PROVE  /\ call[c] \in Call /\ Shaped(call[c]) /\ call[c].op \in {"none", "create", "scale", "destroy"}
           /\ call[c].op = "none" <=> call[c] = Idle
           /\ call[c].pc \in {"place", "launch", "normalise", "plan"} <=> FanOut(c)
           /\ call[c].pc \in {"normalise", "plan"} => call[c].op = "scale"
           /\ call[c].op = "create" => call[c].pc \in {"place", "launch"}
           /\ ~FanOut(c) => \A s \in Slots : call[c].work[s].pc = "none"
  <1>1. call[c] \in Call /\ Shaped(call[c])
    BY CallOf DEF Core
  <1>2. call[c].op \in {"none", "create", "scale", "destroy"}
    BY <1>1, CallTyped DEF CallOp
  <1>3. call[c].op = "none" <=> call[c] = Idle
    BY <1>1, IdleTyped DEF Shaped
  <1>4. call[c].pc \in {"place", "launch", "normalise", "plan"} => FanOut(c)
    BY <1>1, DestroyOp DEF FanOut
  <1>5. /\ FanOut(c) => call[c].pc \in {"place", "launch", "normalise", "plan"}
        /\ call[c].op = "create" => call[c].pc \in {"place", "launch"}
        /\ ~FanOut(c) => \A s \in Slots : call[c].work[s].pc = "none"
    BY <1>1 DEF Shaped, FanOut
  <1> QED
    BY <1>1, <1>2, <1>3, <1>4, <1>5, DestroyOp

\* A fan-out has the record to itself.
LEMMA FanOutAlone ==
    ASSUME Core, CreatedOnce, AtOnce, NEW c \in Callers, FanOut(c)
    PROVE  \A d \in Callers : d # c => call[d] = Idle
  <1>1. Asked(call[c]) /\ call[c] # Idle
    BY CallOf, OnceCalls DEF Core, FanOut
  <1>2. Ops # {"destroy"}
    BY <1>1 DEF Asked, FanOut
  <1> QED
    BY <1>1, <1>2 DEF CreatedOnce, AtOnce

\* What follows when the only call is no destroy.
LEMMA OnlyFanOut ==
    ASSUME NEW c \in Callers, \A d \in Callers : d # c => call'[d] = Idle,
           call'[c].op # "destroy", dep'.st # "TERMINATED"
    PROVE  AtOnce' /\ Visits' /\ TerminatedReleases'
  <1>1. \A d \in Callers : call'[d].op # "destroy"
    BY IdleTyped
  <1>2. AtOnce'
    BY DEF AtOnce
  <1>3. Visits' /\ TerminatedReleases'
    BY <1>1 DEF Visits, TerminatedReleases
  <1> QED
    BY <1>2, <1>3

\* What follows when the only call keeps to it.
LEMMA OnlyOne ==
    ASSUME NEW c \in Callers, \A d \in Callers : d # c => call'[d] = Idle,
           dep'.st \in {"RUNNING", "DEGRADED"} => Len(dep'.reps) >= 1 \/ dep'.anchor # None,
           FanOut(c)' => dep'.st # "TERMINATED" /\ Sized(c)',
           \A s \in Slots : SlotKnown(c, s)'
    PROVE  Tabled' /\ Working'
  <1>1. \A d \in Callers : d # c => ~FanOut(d)' /\ \A s \in Slots : call'[d].work[s].pc = "none"
    BY IdleTyped, NothingTyped DEF FanOut
  <1>2. Tabled'
    BY <1>1 DEF Tabled
  <1>3. ASSUME NEW d \in Callers, d # c, NEW s \in Slots PROVE SlotKnown(d, s)'
    <2>1. call'[d].work[s].pc = "none"
      BY <1>1, <1>3
    <2> QED
      BY <2>1 DEF SlotKnown
  <1>4. Working'
    BY <1>3 DEF Working
  <1> QED
    BY <1>2, <1>4

-----------------------------------------------------------------------------
(* The calls that start *)

\* A create that starts.
LEMMA ClaimFields ==
    ASSUME Core, NEW c \in Callers, NEW n \in Slots, CreateClaim(c, n)
    PROVE  /\ call'[c].pc = "place" /\ call'[c].from = 0 /\ call'[c].n = n
           /\ Len(dep'.reps) = 0 /\ dep'.anchor = None
           /\ creates' = creates + 1 /\ creates < scenario.creates
  <1>0. call \in [Callers -> Call]
    BY DEF Core, TypeOK
  <1>1. call' = [call EXCEPT ![c] = Started("create", 0, n)]
    BY DEF CreateClaim, StartFanOut, Started
  <1>2. call'[c] = Started("create", 0, n)
    BY <1>0, <1>1
  <1>3. Len(dep'.reps) = 0 /\ dep'.anchor = None
    <2>1. dep' = [st |-> "PENDING", reps |-> <<>>, anchor |-> None]
      BY DEF CreateClaim
    <2> QED
      BY <2>1
  <1> QED
    BY <1>2, <1>3, StartedFields DEF CreateClaim

\* A create keeps what Once says: there was nothing before it.
LEMMA ClaimOnce ==
    ASSUME Core, CreatedOnce, Once, NEW c \in Callers, NEW n \in Slots, CreateClaim(c, n)
    PROVE  Once'
  <1>0. creates \in Nat /\ scenario.creates \in Nat /\ n \in Nat /\ n >= 1 /\ scenario.creates <= 1
    BY ScenarioTyped, Bounds DEF Core, TypeOK, Slots, CreatedOnce
  <1>1. /\ dep'.st = "PENDING" /\ call'[c].op = "create"
        /\ \A s \in Slots : call'[c].work[s].pc \in {"none", "read"}
        /\ \A d \in Callers : d # c => call'[d] = call[d]
        /\ cloud' = cloud /\ inst' = inst /\ scenario' = scenario
    BY ClaimEffect
  <1>2. /\ call'[c].pc = "place" /\ call'[c].from = 0 /\ call'[c].n = n
        /\ Len(dep'.reps) = 0 /\ dep'.anchor = None
        /\ creates' = creates + 1 /\ creates < scenario.creates
    BY ClaimFields
  <1>3. Blank
    BY <1>0, <1>2 DEF Once, OneLife
  <1>4. \A d \in Callers : d # c => call'[d] = Idle
    BY <1>1, <1>3 DEF Blank
  <1>5. AtOnce' /\ Visits' /\ TerminatedReleases'
    BY <1>1, <1>4, OnlyFanOut
  <1>6. OneLife'
    BY <1>0, <1>1, <1>2 DEF OneLife
  <1>7. \A i \in Ids : inst'[i] = NoRecord
    BY <1>1, <1>3 DEF Blank
  <1>8. Fresh' /\ NoneUnrecorded'
    BY <1>7, NothingTyped, Bounds DEF Fresh, NoneUnrecorded
  <1>9. Accounted'
    BY <1>1, <1>3 DEF Accounted, Blank, Rented
  <1>10. ASSUME NEW s \in Slots PROVE SlotKnown(c, s)'
    <2>1. IdOf(c, s)' \in Ids
      BY <1>2, Bounds DEF IdOf, replicaInstanceID, Ids, Slots
    <2>2. inst'[IdOf(c, s)'] = NoRecord
      BY <1>7, <2>1
    <2>3. CASE call'[c].work[s].pc = "none"
      BY <2>3 DEF SlotKnown
    <2>4. CASE call'[c].work[s].pc = "read"
      BY <2>2, <2>4 DEF SlotKnown, Launching
    <2> QED
      BY <1>1, <2>3, <2>4
  <1>11. Sized(c)'
    BY <1>0, <1>1, <1>2 DEF Sized
  <1>12. Tabled' /\ Working'
    BY <1>1, <1>4, <1>10, <1>11, OnlyOne
  <1> QED
    BY <1>5, <1>6, <1>8, <1>9, <1>12 DEF Once

\* A machine on record stays there as long as the records do.
LEMMA RecordsStay ==
    ASSUME NEW m \in Machines, OnRecord(m), cloud'[m].for = cloud[m].for,
           inst'[cloud[m].for].pid = inst[cloud[m].for].pid,
           dep'.reps = dep.reps, dep'.anchor = dep.anchor
    PROVE  OnRecord(m)'
BY DEF OnRecord, Named

\* With no fan-out under way, every machine is on record.
LEMMA AllOnRecord ==
    ASSUME Core, Accounted, \A d \in Callers : ~FanOut(d), NEW m \in Machines, Rented(m)
    PROVE  cloud[m].for \in Ids /\ OnRecord(m)
  <1>1. \A d \in Callers, s \in Slots : call[d].work[s].pc = "none"
    BY OnceCalls
  <1>2. ~InHand(m)
    BY <1>1 DEF InHand
  <1> QED
    BY <1>2 DEF Accounted

\* A scale-up reads the record.
LEMMA ReadOnce ==
    ASSUME Core, CreatedOnce, Once, NEW c \in Callers, ScaleRead(c)
    PROVE  Once'
  <1>1. /\ dep' = dep /\ inst' = inst /\ cloud' = cloud /\ dep.st \in {"RUNNING", "DEGRADED"}
        /\ call[c] = Idle /\ \A d \in Callers : d # c => call'[d] = call[d]
        /\ call'[c].op = "scale" /\ \A s \in Slots : call'[c].work[s].pc = "none"
        /\ \/ /\ Len(dep.reps) >= 1 /\ call'[c].pc = "plan" /\ call'[c].from = Len(dep.reps)
           \/ /\ Len(dep.reps) = 0 /\ call'[c].pc = "normalise"
              /\ dep.anchor # None => call'[c].from = 1
    BY GrowRead
  <1>2. creates' = creates /\ scenario' = scenario /\ CanBegin(c) /\ "scale" \in Ops
    BY DEF ScaleRead
  <1>3. \A d \in Callers : call[d] = Idle
    BY <1>2, BeginsAlone DEF CreatedOnce, Once
  <1>4. \A d \in Callers : d # c => call'[d] = Idle
    BY <1>1, <1>3
  <1>5. AtOnce' /\ Visits' /\ TerminatedReleases'
    BY <1>1, <1>4, OnlyFanOut
  <1>6. OneLife'
    BY <1>1, <1>2 DEF Once, OneLife, Blank
  <1>7. \A d \in Callers : ~FanOut(d) /\ call[d].pc = "idle"
    BY <1>3, IdleTyped DEF FanOut
  <1>8. Fresh' /\ NoneUnrecorded'
    BY <1>1, <1>7 DEF Once, Fresh, NoneUnrecorded
  <1>9. ASSUME NEW m \in Machines, Rented(m)' PROVE cloud'[m].for \in Ids /\ OnRecord(m)'
    <2>1. Rented(m)
      BY <1>1, <1>9 DEF Rented
    <2>2. cloud[m].for \in Ids /\ OnRecord(m)
      BY <1>7, <2>1, AllOnRecord DEF Once
    <2> QED
      BY <1>1, <2>2, RecordsStay
  <1>10. Accounted'
    BY <1>9 DEF Accounted
  <1>11. \A s \in Slots : SlotKnown(c, s)'
    BY <1>1 DEF SlotKnown
  <1>12. Len(dep.reps) >= 1 \/ dep.anchor # None
    BY <1>1 DEF Once, Tabled
  <1>13. Sized(c)'
    BY <1>1, <1>12 DEF Sized
  <1>14. Tabled' /\ Working'
    BY <1>1, <1>4, <1>11, <1>12, <1>13, OnlyOne
  <1> QED
    BY <1>5, <1>6, <1>8, <1>10, <1>14 DEF Once

-----------------------------------------------------------------------------
(* The destroys *)

\* No fan-out is under way while a destroy starts or goes on.
LEMMA NoFanOut ==
    ASSUME Core, CreatedOnce, AtOnce, NEW c \in Callers,
           ("destroy" \in Ops /\ CanBegin(c)) \/ call[c].op = "destroy"
    PROVE  \A d \in Callers : ~FanOut(d)
  <1> SUFFICES ASSUME NEW d \in Callers, FanOut(d) PROVE FALSE
    OBVIOUS
  <1>1. Asked(call[d]) /\ call[d] # Idle
    BY CallOf, OnceCalls DEF Core, FanOut
  <1>2. scenario.calls = 1
    BY <1>1 DEF Asked, FanOut, CreatedOnce
  <1>3. CASE CanBegin(c)
    BY <1>1, <1>2, <1>3, BeginsAlone
  <1>4. CASE call[c].op = "destroy"
    <2>1. c # d
      BY <1>4 DEF FanOut
    <2> QED
      BY <1>4, <2>1, FanOutAlone, IdleTyped
  <1> QED
    BY <1>3, <1>4

\* The instances that the record leads to are the ones a destroy is to visit.
LEMMA NamedEffective ==
    ASSUME TypeOK, NEW i \in Ids, Named(i)
    PROVE  i \in EffectiveInstanceIDs(dep)
  <1>0. i # None /\ DOMAIN dep.reps = 1..Len(dep.reps)
    BY Bounds, DepTyped
  <1>1. PICK ids : ids = {dep.reps[k].id : k \in DOMAIN dep.reps} \ {None}
    OBVIOUS
  <1>2. EffectiveInstanceIDs(dep) = IF ids # {} THEN ids ELSE {dep.anchor} \ {None}
    BY <1>1 DEF EffectiveInstanceIDs
  <1>3. CASE \E k \in 1..Len(dep.reps) : dep.reps[k].id = i
    BY <1>0, <1>1, <1>2, <1>3
  <1>4. CASE Len(dep.reps) = 0 /\ dep.anchor = i
    <2>1. ids = {}
      BY <1>0, <1>1, <1>4
    <2> QED
      BY <1>0, <1>2, <1>4, <2>1
  <1> QED
    BY <1>3, <1>4 DEF Named

\* Calls that are destroys, if anything.
NoneProvisions ==
    \A d \in Callers : ~FanOut(d) /\ call[d].pc # "place" /\ \A s \in Slots : call[d].work[s].pc = "none"

\* What follows when nobody provisions, and machines only end.
LEMMA OnlyDestroys ==
    ASSUME Core, Once, NoneProvisions, NoneProvisions',
           dep'.reps = dep.reps, dep'.anchor = dep.anchor,
           dep' = dep \/ dep'.st \in {"TERMINATING", "TERMINATED", "FAILED"},
           \A i \in Ids : /\ inst'[i].pid = inst[i].pid /\ (inst'[i].st = "NONE" => inst[i].st = "NONE")
                          /\ inst[i] = NoRecord => inst'[i] = NoRecord,
           \A m \in Machines : Rented(m)' => Rented(m) /\ cloud'[m].for = cloud[m].for
    PROVE  Tabled' /\ Fresh' /\ Working' /\ NoneUnrecorded' /\ Accounted'
  <1>1. Tabled'
    BY DEF Once, Tabled, NoneProvisions
  <1>2. Fresh'
    BY Bounds DEF Once, Fresh, NoneProvisions
  <1>3. Working'
    BY DEF Working, SlotKnown, NoneProvisions
  <1>4. NoneUnrecorded'
    BY DEF Once, NoneUnrecorded
  <1>5. ASSUME NEW m \in Machines, Rented(m)' PROVE cloud'[m].for \in Ids /\ OnRecord(m)'
    <2>1. Rented(m) /\ cloud'[m].for = cloud[m].for
      BY <1>5
    <2>2. cloud[m].for \in Ids /\ OnRecord(m)
      BY <2>1, AllOnRecord DEF Once, NoneProvisions
    <2> QED
      BY <2>1, <2>2, RecordsStay
  <1>6. Accounted'
    BY <1>5 DEF Accounted
  <1> QED
    BY <1>1, <1>2, <1>3, <1>4, <1>6

\* A destroy that starts.
LEMMA DestroyClaimFields ==
    ASSUME Core, NEW c \in Callers, DestroyClaim(c)
    PROVE  /\ dep'.st = "TERMINATING" /\ dep'.reps = dep.reps /\ dep'.anchor = dep.anchor
           /\ call'[c].op = "destroy" /\ call'[c].pc = "read" /\ call'[c].todo = EffectiveInstanceIDs(dep)
           /\ \A s \in Slots : call'[c].work[s].pc = "none"
           /\ \A d \in Callers : d # c => call'[d] = call[d]
  <1>0. call \in [Callers -> Call] /\ dep \in Deployment
    BY DEF Core, TypeOK
  <1>1. PICK todo : todo = EffectiveInstanceIDs(dep)
    OBVIOUS
  <1>2. PICK after : after = [Idle EXCEPT !.op = "destroy", !.pc = "read", !.todo = todo]
    OBVIOUS
  <1>3. call' = [call EXCEPT ![c] = after]
    BY <1>1, <1>2 DEF DestroyClaim
  <1>4. after.op = "destroy" /\ after.pc = "read" /\ after.todo = todo /\ after.work = Idle.work
    BY <1>2, IdleTyped DEF Call
  <1>5. call'[c] = after /\ \A d \in Callers : d # c => call'[d] = call[d]
    BY <1>0, <1>3
  <1>6. \A s \in Slots : Idle.work[s].pc = "none"
    BY IdleTyped, NothingTyped
  <1>7. dep'.st = "TERMINATING" /\ dep'.reps = dep.reps /\ dep'.anchor = dep.anchor
    <2>1. dep' = [dep EXCEPT !.st = "TERMINATING"]
      BY DEF DestroyClaim
    <2> QED
      BY <1>0, <2>1 DEF Deployment
  <1> QED
    BY <1>1, <1>4, <1>5, <1>6, <1>7

\* What one destroy knows is not disturbed by the others.
LEMMA VisitingStays ==
    ASSUME Core, NEW d \in Callers, Visiting(d), call[d].op = "destroy", call'[d] = call[d],
           dep'.reps = dep.reps, dep'.anchor = dep.anchor,
           \A i \in Ids : inst'[i].pid = inst[i].pid /\ (inst'[i].st = "NONE" => inst[i].st = "NONE"),
           \A m \in Machines : Rented(m)' => Rented(m) /\ cloud'[m].for = cloud[m].for
    PROVE  Visiting(d)'
  <1>1. PICK k \in Call : k = call[d] /\ Shaped(k)
    BY OnceCalls
  <1>2. k.pc \in Releasing => k.cur \in Ids
    BY <1>1 DEF Shaped
  <1>3. k.pc = "read" => \A i \in Ids : Named(i)' => i \in k.todo
    BY <1>1 DEF Visiting, Named
  <1>4. k.pc # "read" =>
          /\ \A i \in Ids : k.snap[i].pid = inst'[i].pid /\ (k.snap[i].st = "NONE" => k.snap[i].pid = None)
          /\ Erred(k) \/ \A m \in Machines : Rented(m)' => cloud'[m].for \in k.todo
    BY <1>1 DEF Visiting
  <1>5. k.pc \in {"mark", "write"} => \A m \in Machines : Rented(m)' => cloud'[m].for # k.cur
    BY <1>1 DEF Visiting
  <1>6. k.pc = "write" => k.rec.st # "NONE" /\ k.rec.pid = inst'[k.cur].pid /\ inst'[k.cur].st # "NONE"
    BY <1>1, <1>2 DEF Visiting, Releasing
  <1> QED
    BY <1>1, <1>3, <1>4, <1>5, <1>6 DEF Visiting

\* A destroy that starts keeps it.
LEMMA DestroyClaimOnce ==
    ASSUME Core, CreatedOnce, Once, NEW c \in Callers, DestroyClaim(c)
    PROVE  Once'
  <1>1. /\ dep'.st = "TERMINATING" /\ dep'.reps = dep.reps /\ dep'.anchor = dep.anchor
        /\ call'[c].op = "destroy" /\ call'[c].pc = "read" /\ call'[c].todo = EffectiveInstanceIDs(dep)
        /\ \A s \in Slots : call'[c].work[s].pc = "none"
        /\ \A d \in Callers : d # c => call'[d] = call[d]
    BY DestroyClaimFields
  <1>2. /\ inst' = inst /\ cloud' = cloud /\ creates' = creates /\ scenario' = scenario
        /\ CanBegin(c) /\ dep.st # "NONE" /\ "destroy" \in Ops
    BY DEF DestroyClaim
  <1>3. NoneProvisions
    BY <1>2, NoFanOut, OnceCalls DEF Once, NoneProvisions
  <1>4. NoneProvisions'
    BY <1>1, <1>3 DEF NoneProvisions, FanOut
  <1>5. /\ \A i \in Ids : /\ inst'[i].pid = inst[i].pid /\ (inst'[i].st = "NONE" => inst[i].st = "NONE")
                          /\ inst[i] = NoRecord => inst'[i] = NoRecord
        /\ \A m \in Machines : Rented(m)' => Rented(m) /\ cloud'[m].for = cloud[m].for
    BY <1>2 DEF Rented
  <1>6. Tabled' /\ Fresh' /\ Working' /\ NoneUnrecorded' /\ Accounted'
    BY <1>1, <1>3, <1>4, <1>5, OnlyDestroys
  <1>7. AtOnce'
    <2>1. scenario.calls = 1 => \A d \in Callers : call[d] = Idle
      BY <1>2, BeginsAlone DEF Once
    <2> QED
      BY <1>1, <1>2, <2>1 DEF AtOnce
  <1>8. OneLife'
    BY <1>2 DEF Once, OneLife, Blank
  <1>9. TerminatedReleases'
    BY <1>1 DEF TerminatedReleases
  <1>10. ASSUME NEW d \in Callers, call'[d].op = "destroy" PROVE Visiting(d)'
    <2>1. CASE d = c
      <3>1. \A i \in Ids : Named(i)' => i \in call'[c].todo
        BY <1>1, NamedEffective DEF Core, Named
      <3> QED
        BY <1>1, <2>1, <3>1 DEF Visiting
    <2>2. CASE d # c
      <3>1. call'[d] = call[d] /\ call[d].op = "destroy" /\ Visiting(d)
        BY <1>1, <1>10, <2>2 DEF Once, Visits
      <3> QED
        BY <1>1, <1>5, <3>1, VisitingStays
    <2> QED
      BY <2>1, <2>2
  <1>11. Visits'
    BY <1>10 DEF Visits
  <1> QED
    BY <1>6, <1>7, <1>8, <1>9, <1>11 DEF Once

\* A machine that is ended is rented no more, and the others stay.
LEMMA TerminateEnds ==
    ASSUME TypeOK, NEW m \in Machines \cup {None}, Terminate(m)
    PROVE  \A q \in Machines : Rented(q)' => Rented(q) /\ q # m /\ cloud'[q].for = cloud[q].for
  <1>0. cloud \in [Machines -> Machine] /\ None \notin Machines
    BY Bounds DEF TypeOK
  <1>1. CASE m = None
    <2>1. cloud' = cloud
      BY <1>0, <1>1 DEF Terminate
    <2> QED
      BY <1>0, <1>1, <2>1 DEF Rented
  <1>2. CASE m \in Machines
    <2>1. PICK r : r = [cloud[m] EXCEPT !.status = "gone"]
      OBVIOUS
    <2>2. r.status = "gone"
      BY <1>0, <1>2, <2>1 DEF Machine
    <2>3. cloud' = [cloud EXCEPT ![m] = r]
      BY <2>1 DEF Terminate
    <2>4. cloud'[m] = r /\ \A q \in Machines : q # m => cloud'[q] = cloud[q]
      BY <1>0, <1>2, <2>3
    <2> QED
      BY <2>2, <2>4 DEF Rented
  <1> QED
    BY <1>1, <1>2

\* What a destroy does to the machines and the instances on record: machines
\* end, and records are marked.
LEMMA DestroyTouches ==
    ASSUME Core, Once, NEW c \in Callers, DestroyStep(c)
    PROVE  /\ \A i \in Ids : /\ inst'[i].pid = inst[i].pid /\ (inst'[i].st = "NONE" => inst[i].st = "NONE")
                             /\ inst[i] = NoRecord => inst'[i] = NoRecord
           /\ \A m \in Machines : Rented(m)' => Rented(m) /\ cloud'[m].for = cloud[m].for
  <1>0. TypeOK /\ inst \in [Ids -> Record]
    BY DEF Core, TypeOK
  <1>1. /\ call[c].op = "destroy"
        /\ \/ Ends(c)
           \/ DestroyHeld(c) /\ (Opens(c) \/ (\E i \in Ids : Passes(c, i)) \/ Goes(c) \/ Frees(c) \/ Marks(c))
    BY DestroyTurns
  <1>2. PICK k \in Call : k = call[c] /\ Shaped(k)
    BY OnceCalls
  <1>3. Visiting(c)
    BY <1>1 DEF Once, Visits
  <1>4. \A i \in Ids : /\ inst'[i].pid = inst[i].pid /\ (inst'[i].st = "NONE" => inst[i].st = "NONE")
                       /\ inst[i] = NoRecord => inst'[i] = NoRecord
    <2>1. inst' = inst \/ (k.pc = "write" /\ k.cur \in Ids /\ inst' = [inst EXCEPT ![k.cur] = k.rec])
      <3>1. k.pc = "write" => k.cur \in Ids
        BY <1>2 DEF Shaped, Releasing
      <3> QED
        BY <1>1, <1>2, <3>1 DEF Ends, Opens, Passes, Goes, Frees, Marks
    <2>2. CASE inst' = inst
      BY <2>2
    <2>3. CASE k.pc = "write" /\ k.cur \in Ids /\ inst' = [inst EXCEPT ![k.cur] = k.rec]
      <3>1. inst'[k.cur] = k.rec /\ \A i \in Ids : i # k.cur => inst'[i] = inst[i]
        BY <1>0, <2>3
      <3>2. k.rec.pid = inst[k.cur].pid /\ k.rec.st # "NONE" /\ inst[k.cur].st # "NONE"
        BY <1>2, <1>3, <2>3 DEF Visiting
      <3> QED
        BY <3>1, <3>2, NothingTyped
    <2> QED
      BY <2>1, <2>2, <2>3
  <1>5. \A m \in Machines : Rented(m)' => Rented(m) /\ cloud'[m].for = cloud[m].for
    <2>1. cloud' = cloud \/ \E m \in Machines \cup {None} : Terminate(m)
      <3>1. k.pc = "release" => k.snap[k.cur].pid \in Machines \cup {None}
        <4>1. k.pc = "release" => k.cur \in Ids
          BY <1>2 DEF Shaped, Releasing
        <4> QED
          BY <4>1, CallTyped DEF Record
      <3> QED
        BY <1>1, <1>2, <3>1 DEF Ends, Opens, Passes, Goes, Frees, Marks
    <2>2. CASE cloud' = cloud
      BY <2>2 DEF Rented
    <2>3. CASE \E m \in Machines \cup {None} : Terminate(m)
      BY <1>0, <2>3, TerminateEnds
    <2> QED
      BY <2>1, <2>2, <2>3
  <1> QED
    BY <1>4, <1>5

\* What a destroy knows after its own step.
LEMMA VisitsOn ==
    ASSUME Core, Once, NEW c \in Callers, DestroyStep(c), call'[c].op = "destroy",
           \A d \in Callers : ~FanOut(d)
    PROVE  Visiting(c)'
  <1>0. TypeOK /\ None \notin Machines
    BY Bounds DEF Core
  <1>1. call[c].op = "destroy" /\ dep'.reps = dep.reps /\ dep'.anchor = dep.anchor
    BY DestroyTurns
  <1>2. DestroyHeld(c) /\ (Opens(c) \/ (\E i \in Ids : Passes(c, i)) \/ Goes(c) \/ Frees(c) \/ Marks(c))
    BY DestroyTurns, IdleTyped DEF Ends
  <1>3. PICK k \in Call : k = call[c] /\ Shaped(k)
    BY OnceCalls
  <1>4. PICK after : after = call'[c] /\ (Erred(k) => Erred(after))
    BY <1>2, <1>3 DEF DestroyHeld
  <1>5. Visiting(c)
    BY <1>1 DEF Once, Visits
  <1>6. /\ \A i \in Ids : inst'[i].pid = inst[i].pid /\ (inst'[i].st = "NONE" => inst[i].st = "NONE")
        /\ \A m \in Machines : Rented(m)' => Rented(m) /\ cloud'[m].for = cloud[m].for
    BY DestroyTouches
  <1>7. \A m \in Machines : Rented(m) =>
           cloud[m].for \in Ids /\ inst[cloud[m].for].pid = m /\ Named(cloud[m].for)
    BY AllOnRecord DEF Once, OnRecord
  <1>8. k.pc \in Releasing => k.cur \in Ids
    BY <1>3 DEF Shaped
  <1> DEFINE Seen == \A i \in Ids : /\ after.snap[i].pid = inst'[i].pid
                                    /\ after.snap[i].st = "NONE" => after.snap[i].pid = None
  <1> DEFINE Left == Erred(after) \/ \A m \in Machines : Rented(m)' => cloud'[m].for \in after.todo
  <1>k. k.pc # "read" =>
          /\ \A i \in Ids : k.snap[i].pid = inst[i].pid /\ (k.snap[i].st = "NONE" => k.snap[i].pid = None)
          /\ Erred(k) \/ \A m \in Machines : Rented(m) => cloud[m].for \in k.todo
    BY <1>3, <1>5 DEF Visiting
  <1>l. ASSUME k.pc # "read", after.todo = k.todo, after.snap = k.snap PROVE Seen /\ Left
    <2>1. Seen
      BY <1>6, <1>k, <1>l
    <2>2. Left
      BY <1>4, <1>6, <1>k, <1>l
    <2> QED
      BY <2>1, <2>2
  <1>9. CASE Opens(c)
    <2>1. k.pc = "read" /\ after.pc = "next" /\ after.snap = inst /\ after.todo = k.todo /\ inst' = inst
      BY <1>3, <1>4, <1>9 DEF Opens
    <2>2. Seen
      BY <2>1 DEF Once, NoneUnrecorded
    <2>3. \A m \in Machines : Rented(m)' => cloud'[m].for \in after.todo
      BY <1>3, <1>5, <1>6, <1>7, <2>1 DEF Visiting
    <2> QED
      BY <1>4, <2>1, <2>2, <2>3 DEF Visiting
  <1>10. ASSUME NEW i \in Ids, Passes(c, i) PROVE Visiting(c)'
    <2>1. k.pc # "read" /\ after.pc = "next" /\ after.todo = k.todo \ {i} /\ after.snap = k.snap
      BY <1>3, <1>4, <1>10 DEF Passes, Releasing
    <2>2. Seen
      BY <1>6, <1>k, <2>1
    <2>3. Erred(after) \/ \A m \in Machines : Rented(m) => cloud[m].for # i
      <3>1. CASE Erred(call'[c])
        BY <1>4, <3>1
      <3>2. CASE k.pc = "next" /\ k.snap[i].st = "NONE"
        <4>1. inst[i].pid = None
          BY <1>k, <3>2
        <4> QED
          BY <1>0, <1>7, <4>1
      <3>3. CASE k.pc \in {"mark", "write"} /\ i = k.cur
        BY <1>3, <1>5, <3>3 DEF Visiting
      <3> QED
        BY <1>3, <1>10, <3>1, <3>2, <3>3 DEF Passes
    <2>4. Left
      BY <1>4, <1>6, <1>k, <2>1, <2>3
    <2> QED
      BY <1>4, <2>1, <2>2, <2>4 DEF Visiting
  <1>11. CASE Goes(c)
    <2>1. /\ k.pc # "read" /\ after.pc \in {"stop", "emit", "release"}
          /\ after.todo = k.todo /\ after.snap = k.snap
      BY <1>3, <1>4, <1>11 DEF Goes
    <2> QED
      BY <1>4, <1>l, <2>1 DEF Visiting
  <1>12. CASE Frees(c)
    <2>1. /\ k.pc = "release" /\ after.pc = "mark" /\ after.cur = k.cur /\ k.cur \in Ids
          /\ after.todo = k.todo /\ after.snap = k.snap
      BY <1>3, <1>4, <1>8, <1>12 DEF Frees, Releasing
    <2>2. ASSUME NEW m \in Machines, Rented(m)', cloud'[m].for = k.cur PROVE FALSE
      <3>1. Rented(m) /\ cloud[m].for = k.cur
        BY <1>6, <2>2
      <3>2. k.snap[k.cur].pid = m
        BY <1>7, <1>k, <2>1, <3>1
      <3>3. Terminate(m)
        BY <1>0, <1>3, <1>12, <3>2 DEF Frees
      <3> QED
        BY <1>0, <2>2, <3>3, TerminateEnds
    <2> QED
      BY <1>4, <1>l, <2>1, <2>2 DEF Visiting
  <1>13. CASE Marks(c)
    <2>1. /\ k.pc = "mark" /\ after.pc = "write" /\ after.cur = k.cur /\ k.cur \in Ids
          /\ after.todo = k.todo /\ after.snap = k.snap /\ inst' = inst
          /\ inst[k.cur].st # "NONE" /\ after.rec.st # "NONE" /\ after.rec.pid = inst[k.cur].pid
      BY <1>3, <1>4, <1>8, <1>13 DEF Marks, Releasing
    <2>2. \A m \in Machines : Rented(m)' => cloud'[m].for # k.cur
      BY <1>3, <1>5, <1>6, <2>1 DEF Visiting
    <2> QED
      BY <1>4, <1>l, <2>1, <2>2 DEF Visiting
  <1> QED
    BY <1>2, <1>9, <1>10, <1>11, <1>12, <1>13

\* A destroy that goes on keeps it.
LEMMA DestroyOnce ==
    ASSUME Core, CreatedOnce, Once, NEW c \in Callers, DestroyStep(c)
    PROVE  Once'
  <1>1. /\ call[c].op = "destroy" /\ \A d \in Callers : d # c => call'[d] = call[d]
        /\ dep'.reps = dep.reps /\ dep'.anchor = dep.anchor
        /\ dep' = dep \/ dep'.st \in {"TERMINATING", "TERMINATED", "FAILED"}
        /\ creates' = creates /\ scenario' = scenario
    BY DestroyTurns
  <1>2. Ends(c) \/ DestroyHeld(c)
    BY DestroyTurns
  <1>3. /\ \A i \in Ids : /\ inst'[i].pid = inst[i].pid /\ (inst'[i].st = "NONE" => inst[i].st = "NONE")
                          /\ inst[i] = NoRecord => inst'[i] = NoRecord
        /\ \A m \in Machines : Rented(m)' => Rented(m) /\ cloud'[m].for = cloud[m].for
    BY DestroyTouches
  <1>4. NoneProvisions
    BY <1>1, NoFanOut, OnceCalls DEF Once, NoneProvisions
  <1>5. NoneProvisions'
    <2>1. CASE Ends(c)
      BY <1>1, <1>4, <2>1, IdleTyped, NothingTyped DEF Ends, NoneProvisions, FanOut
    <2>2. CASE DestroyHeld(c)
      BY <1>1, <1>4, <2>2 DEF DestroyHeld, NoneProvisions, FanOut, Releasing
    <2> QED
      BY <1>2, <2>1, <2>2
  <1>6. Tabled' /\ Fresh' /\ Working' /\ NoneUnrecorded' /\ Accounted'
    BY <1>1, <1>3, <1>4, <1>5, OnlyDestroys
  <1>7. call[c] # Idle
    BY <1>1, IdleTyped
  <1>8. AtOnce' /\ OneLife'
    BY <1>1, <1>7 DEF Once, AtOnce, OneLife, Blank
  <1>9. ASSUME NEW d \in Callers, call'[d].op = "destroy" PROVE Visiting(d)'
    <2>1. CASE d = c
      BY <1>4, <1>9, <2>1, VisitsOn DEF NoneProvisions
    <2>2. CASE d # c
      <3>1. call'[d] = call[d] /\ call[d].op = "destroy" /\ Visiting(d)
        BY <1>1, <1>9, <2>2 DEF Once, Visits
      <3> QED
        BY <1>1, <1>3, <3>1, VisitingStays
    <2> QED
      BY <2>1, <2>2
  <1>10. Visits'
    BY <1>9 DEF Visits
  <1>11. TerminatedReleases'
    <2>1. CASE DestroyHeld(c)
      BY <2>1 DEF TerminatedReleases, DestroyHeld
    <2>2. CASE Ends(c)
      <3>1. dep'.st = "TERMINATED" => ~Erred(call[c])
        BY <2>2 DEF Ends
      <3>2. call[c].pc = "next" /\ call[c].todo = {} /\ Visiting(c)
        BY <1>1, <2>2 DEF Ends, Once, Visits
      <3>3. Erred(call[c]) \/ \A m \in Machines : ~Rented(m)
        BY <3>2 DEF Visiting
      <3> QED
        BY <1>3, <3>1, <3>3 DEF TerminatedReleases
    <2> QED
      BY <1>2, <2>1, <2>2
  <1> QED
    BY <1>6, <1>8, <1>10, <1>11 DEF Once

-----------------------------------------------------------------------------
(* The fan-outs *)

\* With no goroutine at work, every machine is on record.
LEMMA NoHands ==
    ASSUME Accounted, NEW m \in Machines, Rented(m),
           \A d \in Callers, s \in Slots : call[d].work[s].pc \in {"none", "ok", "failed"}
    PROVE  cloud[m].for \in Ids /\ OnRecord(m)
BY DEF Accounted, InHand

\* A fan-out at work: there is no other call, nor an empty file.
LEMMA FanOutFacts ==
    ASSUME Core, CreatedOnce, Once, NEW c \in Callers, FanOut(c)
    PROVE  /\ \A d \in Callers : d # c => /\ call[d] = Idle /\ call[d].pc = "idle"
                                          /\ \A s \in Slots : call[d].work[s].pc = "none"
           /\ scenario.creates <= creates /\ dep.st # "TERMINATED" /\ Sized(c)
           /\ call[c].from \in Nat /\ call[c].n \in Nat /\ Len(dep.reps) \in Nat
           /\ \A s \in Slots : call[c].work[s].pc # "none" => s \in Planned(c)
           /\ \A s \in Slots : s > Len(dep.reps) /\ (call[c].pc = "place" => s \notin Planned(c)) => inst[s] = NoRecord
  <1>1. \A d \in Callers : d # c => call[d] = Idle
    BY FanOutAlone DEF Once
  <1>2. \A d \in Callers : d # c => call[d].pc = "idle" /\ \A s \in Slots : call[d].work[s].pc = "none"
    BY <1>1, IdleTyped, NothingTyped
  <1>3. call[c] # Idle
    BY IdleTyped DEF FanOut
  <1>4. scenario.creates <= creates /\ dep.st # "TERMINATED" /\ Sized(c)
    BY <1>3 DEF Once, OneLife, Blank, Tabled
  <1>5. call[c] \in Call /\ Shaped(call[c]) /\ Len(dep.reps) \in Nat
    BY OnceCalls, DepTyped, Bounds DEF Core
  <1>6. call[c].from \in Nat /\ call[c].n \in Nat
    BY <1>5, CallTyped, Bounds
  <1>7. \A s \in Slots : call[c].work[s].pc # "none" => s \in Planned(c)
    BY <1>5 DEF Shaped, Planned
  <1>8. \A s \in Slots : s > Len(dep.reps) /\ (call[c].pc = "place" => s \notin Planned(c)) => inst[s] = NoRecord
    BY <1>2 DEF Once, Fresh
  <1> QED
    BY <1>1, <1>2, <1>4, <1>5, <1>6, <1>7, <1>8

\* A singular record is given its slot table.
LEMMA NormaliseOnce ==
    ASSUME Core, CreatedOnce, Once, NEW c \in Callers, ScaleNormalise(c)
    PROVE  Once'
  <1>1. /\ inst' = inst /\ cloud' = cloud /\ dep'.st = dep.st /\ dep'.anchor = dep.anchor
        /\ call[c].pc = "normalise" /\ \A d \in Callers : d # c => call'[d] = call[d]
        /\ call'[c].op = call[c].op /\ call'[c].pc = "plan" /\ call'[c].from = call[c].from
        /\ call'[c].work = call[c].work
    BY GrowNormalise
  <1>2. creates' = creates /\ scenario' = scenario
    BY DEF ScaleNormalise
  <1>3. FanOut(c) /\ call[c].op = "scale"
    BY <1>1, OnceCalls
  <1>4. /\ \A d \in Callers : d # c => /\ call[d] = Idle /\ call[d].pc = "idle"
                                       /\ \A s \in Slots : call[d].work[s].pc = "none"
        /\ scenario.creates <= creates /\ dep.st # "TERMINATED" /\ Sized(c) /\ Len(dep.reps) \in Nat
        /\ \A s \in Slots : s > Len(dep.reps) => inst[s] = NoRecord
    BY <1>1, <1>3, FanOutFacts
  <1>5. /\ Len(dep.reps) = 0 /\ dep.anchor # None /\ call[c].from = 1
        /\ \A s \in Slots : call[c].work[s].pc = "none"
    BY <1>1, <1>4 DEF Sized
  <1>6. Len(dep'.reps) = 1 /\ dep'.reps[1].id = dep.anchor
    BY <1>5, GrowNormalise
  <1>7. \A d \in Callers : d # c => call'[d] = Idle
    BY <1>1, <1>4
  <1>8. AtOnce' /\ Visits' /\ TerminatedReleases'
    BY <1>1, <1>3, <1>4, <1>7, OnlyFanOut
  <1>9. OneLife'
    BY <1>2, <1>4 DEF OneLife
  <1>10. Fresh' /\ NoneUnrecorded'
    BY <1>1, <1>4, <1>5, <1>6, Bounds DEF Once, Fresh, NoneUnrecorded
  <1>11. ASSUME NEW m \in Machines, Rented(m)' PROVE cloud'[m].for \in Ids /\ OnRecord(m)'
    <2>1. Rented(m)
      BY <1>1, <1>11 DEF Rented
    <2>2. cloud[m].for \in Ids /\ OnRecord(m)
      BY <1>4, <1>5, <2>1, NoHands DEF Once
    <2>3. dep.anchor = cloud[m].for
      BY <1>5, <2>2 DEF OnRecord, Named
    <2>4. Named(cloud[m].for)'
      BY <1>1, <1>6, <2>3 DEF Named
    <2> QED
      BY <1>1, <2>2, <2>4 DEF OnRecord
  <1>12. Accounted'
    BY <1>11 DEF Accounted
  <1>13. \A s \in Slots : SlotKnown(c, s)'
    BY <1>1, <1>5 DEF SlotKnown
  <1>14. Sized(c)'
    BY <1>1, <1>3, <1>5, <1>6 DEF Sized
  <1>15. Tabled' /\ Working'
    BY <1>1, <1>4, <1>6, <1>7, <1>13, <1>14, OnlyOne
  <1> QED
    BY <1>8, <1>9, <1>10, <1>12, <1>15 DEF Once

\* More slots are planned: they have no instances yet.
LEMMA PlanOnce ==
    ASSUME Core, CallsShaped', CreatedOnce, Once, NEW c \in Callers, NEW n \in Slots, ScalePlan(c, n)
    PROVE  Once'
  <1>1. /\ dep' = dep /\ inst' = inst /\ cloud' = cloud
        /\ call[c].pc = "plan" /\ \A d \in Callers : d # c => call'[d] = call[d]
        /\ call'[c].op = "scale" /\ call'[c].pc = "place"
        /\ call'[c].from = call[c].from /\ call'[c].n = n
        /\ \A s \in Slots : call'[c].work[s].pc \in {"none", "read"}
    BY GrowPlan
  <1>2. creates' = creates /\ scenario' = scenario /\ n \in Nat /\ n >= 1
    BY Bounds DEF ScalePlan, Slots
  <1>3. FanOut(c) /\ call[c].op = "scale"
    BY <1>1, OnceCalls
  <1>4. /\ \A d \in Callers : d # c => /\ call[d] = Idle /\ call[d].pc = "idle"
                                       /\ \A s \in Slots : call[d].work[s].pc = "none"
        /\ scenario.creates <= creates /\ dep.st # "TERMINATED" /\ Sized(c)
        /\ Len(dep.reps) \in Nat /\ call[c].from \in Nat
        /\ \A s \in Slots : s > Len(dep.reps) => inst[s] = NoRecord
    BY <1>1, <1>3, FanOutFacts
  <1>5. /\ Len(dep.reps) >= 1 /\ call[c].from = Len(dep.reps)
        /\ \A s \in Slots : call[c].work[s].pc = "none"
    BY <1>1, <1>3, <1>4 DEF Sized
  <1>7. \A d \in Callers : d # c => call'[d] = Idle
    BY <1>1, <1>4
  <1>8. AtOnce' /\ Visits' /\ TerminatedReleases'
    BY <1>1, <1>4, <1>7, OnlyFanOut
  <1>9. OneLife'
    BY <1>2, <1>4 DEF OneLife
  <1>10. Fresh' /\ NoneUnrecorded'
    BY <1>1, <1>4 DEF Once, Fresh, NoneUnrecorded
  <1>11. ASSUME NEW m \in Machines, Rented(m)' PROVE cloud'[m].for \in Ids /\ OnRecord(m)'
    <2>1. Rented(m)
      BY <1>1, <1>11 DEF Rented
    <2>2. cloud[m].for \in Ids /\ OnRecord(m)
      BY <1>4, <1>5, <2>1, NoHands DEF Once
    <2> QED
      BY <1>1, <2>2, RecordsStay
  <1>12. Accounted'
    BY <1>11 DEF Accounted
  <1>13. ASSUME NEW s \in Slots PROVE SlotKnown(c, s)'
    <2>1. CASE call'[c].work[s].pc = "none"
      BY <2>1 DEF SlotKnown
    <2>2. CASE call'[c].work[s].pc = "read"
      <3>1. s \in (call'[c].from + 1)..(call'[c].from + call'[c].n)
        BY <2>2 DEF CallsShaped, Shaped
      <3>2. s > Len(dep.reps)
        BY <1>1, <1>4, <1>5, <3>1
      <3>3. IdOf(c, s)' = s
        BY <1>1, <1>2, <1>4, <1>5 DEF IdOf, replicaInstanceID
      <3>4. inst'[IdOf(c, s)'] = NoRecord
        BY <1>1, <1>4, <3>2, <3>3
      <3> QED
        BY <2>2, <3>4 DEF SlotKnown, Launching
    <2> QED
      BY <1>1, <2>1, <2>2
  <1>14. Sized(c)'
    BY <1>1, <1>2, <1>5 DEF Sized
  <1>15. Tabled' /\ Working'
    BY <1>1, <1>4, <1>5, <1>7, <1>13, <1>14, OnlyOne
  <1> QED
    BY <1>8, <1>9, <1>10, <1>12, <1>15 DEF Once

\* A fan-out that is over leaves no machine behind.
LEMMA OverOnce ==
    ASSUME Core, CreatedOnce, Once, NEW c \in Callers, FanOut(c),
           call[c].pc # "place", \A s \in Slots : call[c].work[s].pc \in {"none", "ok", "failed"},
           call' = [call EXCEPT ![c] = Idle],
           inst' = inst, cloud' = cloud, creates' = creates, scenario' = scenario,
           dep'.reps = dep.reps, dep'.anchor = dep.anchor, dep'.st # "TERMINATED", Len(dep.reps) >= 1
    PROVE  Once'
  <1>0. call \in [Callers -> Call]
    BY DEF Core, TypeOK
  <1>1. /\ \A d \in Callers : d # c => call[d] = Idle /\ \A s \in Slots : call[d].work[s].pc = "none"
        /\ scenario.creates <= creates
        /\ \A s \in Slots : s > Len(dep.reps) => inst[s] = NoRecord
    BY FanOutFacts
  <1>2. \A d \in Callers : call'[d] = Idle
    BY <1>0, <1>1
  <1>3. \A d \in Callers : call'[d].op = "none" /\ call'[d].pc = "idle" /\ \A s \in Slots : call'[d].work[s].pc = "none"
    BY <1>2, IdleTyped, NothingTyped
  <1>4. AtOnce' /\ Visits' /\ TerminatedReleases'
    BY <1>2, <1>3, OnlyFanOut
  <1>5. OneLife' /\ Fresh' /\ NoneUnrecorded'
    BY <1>1 DEF Once, OneLife, Fresh, NoneUnrecorded
  <1>6. ASSUME NEW m \in Machines, Rented(m)' PROVE cloud'[m].for \in Ids /\ OnRecord(m)'
    <2>1. Rented(m)
      BY <1>6 DEF Rented
    <2>2. cloud[m].for \in Ids /\ OnRecord(m)
      BY <1>1, <2>1, NoHands DEF Once
    <2> QED
      BY <2>2, RecordsStay
  <1>7. Accounted'
    BY <1>6 DEF Accounted
  <1>8. \A s \in Slots : SlotKnown(c, s)'
    BY <1>3 DEF SlotKnown
  <1>9. Tabled' /\ Working'
    BY <1>2, <1>3, <1>8, OnlyOne DEF FanOut
  <1> QED
    BY <1>4, <1>5, <1>7, <1>9 DEF Once

\* The fan-outs that end: nothing to provision, or every slot has reported.
LEMMA EndOnce ==
    ASSUME Core, CreatedOnce, Once, NEW c \in Callers, ScaleNoDelta(c) \/ Aggregate(c)
    PROVE  Once'
  <1>1. /\ FanOut(c) /\ call[c].pc \in {"plan", "launch"} /\ (call[c].pc = "plan" => call[c].op = "scale")
        /\ call' = [call EXCEPT ![c] = Idle] /\ inst' = inst /\ cloud' = cloud
        /\ creates' = creates /\ scenario' = scenario
    BY OnceCalls DEF ScaleNoDelta, Aggregate
  <1>2. /\ dep.st # "TERMINATED" /\ Sized(c) /\ Len(dep.reps) \in Nat
        /\ call[c].from \in Nat /\ call[c].n \in Nat
        /\ \A s \in Slots : call[c].work[s].pc # "none" => s \in Planned(c)
    BY <1>1, FanOutFacts
  <1>3. Len(dep.reps) >= 1
    BY <1>1, <1>2 DEF Sized
  <1>4. CASE ScaleNoDelta(c)
    <2>1. dep' = dep /\ call[c].pc = "plan"
      BY <1>4 DEF ScaleNoDelta
    <2>2. \A s \in Slots : call[c].work[s].pc = "none"
      BY <1>2, <2>1 DEF Sized
    <2> QED
      BY <1>1, <1>2, <1>3, <2>1, <2>2, OverOnce
  <1>5. CASE Aggregate(c)
    <2>1. /\ \A s \in Planned(c) : call[c].work[s].pc \in {"ok", "failed"}
          /\ dep'.reps = dep.reps /\ dep'.anchor = dep.anchor /\ dep'.st # "TERMINATED"
      BY <1>2, <1>5, GrowAggregate
    <2>2. \A s \in Slots : call[c].work[s].pc \in {"none", "ok", "failed"}
      BY <1>2, <2>1
    <2> QED
      BY <1>1, <1>3, <2>1, <2>2, OverOnce
  <1> QED
    BY <1>4, <1>5

\* A launched slot keeps the machine it was placed on.
LEMMA LaunchPids ==
    ASSUME Core, NEW c \in Callers, Launch(c)
    PROVE  /\ \A s \in Slots : call'[c].work[s].pid = call[c].work[s].pid
           /\ \A d \in Callers : d # c => call'[d] = call[d]
  <1>0. call \in [Callers -> Call]
    BY DEF Core, TypeOK
  <1>1. PICK k \in Call : k = call[c]
    BY <1>0
  <1>2. PICK v : v = [s \in Slots |-> IF s \in Planned(c)
                                     THEN [k.work[s] EXCEPT !.pc = LaunchPc(c, s)] ELSE k.work[s]]
    OBVIOUS
  <1>3. PICK after : after = [k EXCEPT !.pc = "launch", !.work = v]
    OBVIOUS
  <1>4. call' = [call EXCEPT ![c] = after]
    BY <1>1, <1>2, <1>3 DEF Launch
  <1>5. after.work = v
    BY <1>1, <1>3 DEF Call
  <1>6. call'[c] = after /\ \A d \in Callers : d # c => call'[d] = call[d]
    BY <1>0, <1>4
  <1>7. ASSUME NEW s \in Slots PROVE v[s].pid = k.work[s].pid
    <2>1. PICK w \in Work : w = k.work[s]
      BY <1>1, CallTyped
    <2>2. v[s] = w \/ v[s] = [w EXCEPT !.pc = LaunchPc(c, s)]
      BY <1>2, <2>1
    <2> QED
      BY <2>1, <2>2 DEF Work
  <1> QED
    BY <1>1, <1>5, <1>6, <1>7

\* The slot table after a launch: the planned slots come behind the ones that
\* were there.
LEMMA LaunchTable ==
    ASSUME Core, NEW c \in Callers, Launch(c), Sized(c), FanOut(c),
           call[c].from \in Nat, call[c].n \in Nat, Len(dep.reps) \in Nat
    PROVE  /\ dep'.st = dep.st /\ Len(dep'.reps) = call[c].from + call[c].n
           /\ Len(dep.reps) <= Len(dep'.reps) /\ Len(dep'.reps) >= 1
           /\ \A s \in Planned(c) : s \in 1..Len(dep'.reps) /\ dep'.reps[s].id = Backing(c, s)
           /\ \A i \in Ids : Named(i) => Named(i)'
  <1>0. call[c].pc = "place"
    BY DEF Launch
  <1>1. CASE call[c].op = "create"
    <2>1. call[c].from = 0 /\ Len(dep.reps) = 0 /\ dep.anchor = None /\ call[c].n >= 1
      BY <1>0, <1>1 DEF Sized
    <2>2. /\ dep'.st = dep.st /\ Len(dep'.reps) = call[c].n
          /\ \A s \in 1..call[c].n : dep'.reps[s].id = Backing(c, s)
      BY <1>1, CreateTable
    <2>3. Planned(c) = 1..call[c].n
      BY <2>1 DEF Planned
    <2>4. \A i \in Ids : ~Named(i)
      BY <2>1, Bounds DEF Named
    <2> QED
      BY <2>1, <2>2, <2>3, <2>4
  <1>2. CASE call[c].op = "scale"
    <2>1. Len(dep.reps) >= 1 /\ call[c].from = Len(dep.reps) /\ call[c].n >= 1
      BY <1>0, <1>2 DEF Sized
    <2>2. /\ dep'.st = dep.st /\ Len(dep'.reps) = call[c].from + call[c].n
          /\ \A s \in 1..Len(dep'.reps) :
                /\ s \in Planned(c) => dep'.reps[s].id = Backing(c, s)
                /\ s \notin Planned(c) /\ s <= Len(dep.reps) => dep'.reps[s] = dep.reps[s]
      BY <1>2, <2>1, ScaleTable
    <2>3. \A s \in Planned(c) : s \in 1..Len(dep'.reps)
      BY <2>1, <2>2 DEF Planned
    <2>4. \A s \in 1..Len(dep.reps) : s \in 1..Len(dep'.reps) /\ s \notin Planned(c)
      BY <2>1, <2>2 DEF Planned
    <2>5. \A s \in 1..Len(dep.reps) : dep'.reps[s] = dep.reps[s]
      BY <2>2, <2>4
    <2>6. \A i \in Ids : Named(i) => Named(i)'
      BY <2>1, <2>4, <2>5 DEF Named
    <2> QED
      BY <2>1, <2>2, <2>3, <2>6
  <1> QED
    BY <1>1, <1>2 DEF FanOut

\* The slots are launched: the machines in hand come on record.
LEMMA LaunchOnce ==
    ASSUME Core, CreatedOnce, Once, NEW c \in Callers, Launch(c)
    PROVE  Once'
  <1>1. /\ call[c].pc = "place" /\ call'[c].pc = "launch" /\ call'[c].op = call[c].op
        /\ call'[c].from = call[c].from /\ call'[c].n = call[c].n
        /\ \A s \in Planned(c) : call[c].work[s].pc \in {"placed", "unplaced"}
        /\ \A s \in Slots :
              /\ s \notin Planned(c) => call'[c].work[s].pc = "none"
              /\ s \in Planned(c) => call'[c].work[s].pc = LaunchPc(c, s)
    BY GrowLaunch
  <1>2. inst' = inst /\ cloud' = cloud /\ creates' = creates /\ scenario' = scenario
    BY DEF Launch
  <1>3. FanOut(c)
    BY <1>1, OnceCalls
  <1>4. /\ \A d \in Callers : d # c => /\ call[d] = Idle /\ call[d].pc = "idle"
                                       /\ \A s \in Slots : call[d].work[s].pc = "none"
        /\ scenario.creates <= creates /\ dep.st # "TERMINATED" /\ Sized(c)
        /\ call[c].from \in Nat /\ call[c].n \in Nat /\ Len(dep.reps) \in Nat
        /\ \A s \in Slots : call[c].work[s].pc # "none" => s \in Planned(c)
        /\ \A s \in Slots : s > Len(dep.reps) /\ s \notin Planned(c) => inst[s] = NoRecord
    BY <1>1, <1>3, FanOutFacts
  <1>5. /\ dep'.st = dep.st /\ Len(dep'.reps) = call[c].from + call[c].n
        /\ Len(dep.reps) <= Len(dep'.reps) /\ Len(dep'.reps) >= 1
        /\ \A s \in Planned(c) : s \in 1..Len(dep'.reps) /\ dep'.reps[s].id = Backing(c, s)
        /\ \A i \in Ids : Named(i) => Named(i)'
    BY <1>3, <1>4, LaunchTable
  <1>6. /\ \A s \in Slots : call'[c].work[s].pid = call[c].work[s].pid /\ IdOf(c, s)' = IdOf(c, s)
        /\ \A d \in Callers : d # c => call'[d] = Idle
    BY <1>1, <1>4, LaunchPids DEF IdOf
  <1>7. AtOnce' /\ Visits' /\ TerminatedReleases'
    BY <1>1, <1>3, <1>4, <1>5, <1>6, OnlyFanOut DEF FanOut
  <1>8. OneLife' /\ NoneUnrecorded'
    BY <1>2, <1>4 DEF Once, OneLife, NoneUnrecorded
  <1>9. Fresh'
    <2>1. \A s \in Planned(c) : s <= Len(dep'.reps)
      BY <1>4, <1>5 DEF Planned
    <2>2. \A s \in Slots : s > Len(dep'.reps) => s \notin Planned(c) /\ s > Len(dep.reps)
      <3>0. PICK was \in Nat : was = Len(dep.reps)
        BY <1>4
      <3>l. PICK len \in Nat : len = Len(dep'.reps)
        <4>1. call[c].from + call[c].n \in Nat
          BY <1>4
        <4> QED
          BY <1>5, <4>1
      <3>1. len = Len(dep'.reps) /\ was = Len(dep.reps) /\ was <= len
        BY <1>5, <3>0, <3>l
      <3>2. \A s \in Slots : s > len => s > was /\ ~(s <= len)
        BY <3>1, Bounds
      <3> QED
        BY <2>1, <3>1, <3>2
    <2> QED
      BY <1>2, <1>4, <2>2 DEF Fresh
  <1>10. ASSUME NEW m \in Machines, Rented(m)' PROVE cloud'[m].for \in Ids /\ OnRecord(m)'
    <2>1. Rented(m)
      BY <1>2, <1>10 DEF Rented
    <2>2. cloud[m].for \in Ids /\ (OnRecord(m) \/ InHand(m))
      BY <2>1 DEF Once, Accounted
    <2>3. CASE OnRecord(m)
      BY <1>2, <1>5, <2>2, <2>3 DEF OnRecord
    <2>4. CASE InHand(m)
      <3>1. PICK d \in Callers, s \in Slots :
               /\ IdOf(d, s) = cloud[m].for /\ call[d].work[s].pid = m
               /\ \/ call[d].work[s].pc \in {"stamp", "report"}
                  \/ call[d].work[s].pc \in {"ssh", "placed"} /\ inst[IdOf(d, s)].pid = m
        BY <2>4 DEF InHand
      <3>2. d = c /\ s \in Planned(c)
        BY <1>4, <3>1
      <3>3. call[c].work[s].pc = "placed" /\ inst[IdOf(c, s)].pid = m
        BY <1>1, <3>1, <3>2
      <3>4. s \in 1..Len(dep'.reps) /\ dep'.reps[s].id = cloud[m].for
        BY <1>5, <3>1, <3>2, <3>3 DEF Backing
      <3>5. Named(cloud[m].for)'
        BY <1>2, <3>4 DEF Named
      <3> QED
        BY <1>2, <2>2, <3>1, <3>2, <3>3, <3>5 DEF OnRecord
    <2> QED
      BY <2>2, <2>3, <2>4
  <1>11. Accounted'
    BY <1>10 DEF Accounted
  <1>12. ASSUME NEW s \in Slots PROVE SlotKnown(c, s)'
    <2>1. CASE s \notin Planned(c)
      BY <1>1, <2>1 DEF SlotKnown
    <2>2. CASE s \in Planned(c) /\ call[c].work[s].pc # "placed"
      <3>1. call'[c].work[s].pc = "failed"
        BY <1>1, <2>2 DEF LaunchPc
      <3> QED
        BY <3>1 DEF SlotKnown
    <2>3. CASE s \in Planned(c) /\ call[c].work[s].pc = "placed"
      <3>1. call'[c].work[s].pc = "start"
        BY <1>1, <2>3 DEF LaunchPc
      <3>2. SlotKnown(c, s)
        BY DEF Once, Working
      <3>3. /\ inst[IdOf(c, s)].pid = IF Native THEN None ELSE call[c].work[s].pid
            /\ inst[IdOf(c, s)].st # "NONE"
        BY <2>3, <3>2 DEF SlotKnown
      <3>4. /\ inst'[IdOf(c, s)'].pid = IF Native' THEN None ELSE call'[c].work[s].pid
            /\ inst'[IdOf(c, s)'].st # "NONE"
        BY <1>2, <1>6, <3>3 DEF Native
      <3>5. s \in 1..Len(dep'.reps) /\ dep'.reps[s].id = IdOf(c, s)'
        BY <1>5, <1>6, <2>3 DEF Backing
      <3> QED
        BY <3>1, <3>4, <3>5 DEF SlotKnown
    <2> QED
      BY <2>1, <2>2, <2>3
  <1>13. Sized(c)'
    BY <1>1, <1>4, <1>5 DEF Sized
  <1>14. Tabled' /\ Working'
    BY <1>4, <1>5, <1>6, <1>12, <1>13, OnlyOne
  <1> QED
    BY <1>7, <1>8, <1>9, <1>11, <1>14 DEF Once

-----------------------------------------------------------------------------
(* The goroutines of the slots *)

\* What the goroutine of a slot knows after its step.
KnownAfter(c, s, p, m, i) ==
    /\ p \in {"read", "patch"} => inst'[i] = NoRecord
    /\ p \in {"spawn", "stamp"} => inst'[i].pid = None /\ ~Native
    /\ p = "ssh" => inst'[i].pid = m /\ ~Native
    /\ p \in {"placed", "start", "rent", "report"} => inst'[i].pid = IF Native THEN None ELSE m
    /\ p = "write" => inst'[i].pid = m
    /\ p \notin {"none", "read", "patch", "unplaced", "failed"} => inst'[i].st # "NONE"
    /\ p \in Launching \ {"none", "failed"} => s \in 1..Len(dep.reps) /\ dep.reps[s].id = i

\* The machines on record stay there.
PidsStay ==
    \A j \in Ids : /\ inst[j].pid # None => inst'[j].pid = inst[j].pid
                   /\ inst'[j].st = "NONE" => inst'[j] = inst[j]

\* A step that keeps the records.
LEMMA LooksKnown ==
    ASSUME Core, NEW c \in Callers, NEW s \in Slots, SlotKnown(c, s), NEW p, NEW m,
           Looks(c, s, p, m) \/ Rents(c, s, p, m)
    PROVE  KnownAfter(c, s, p, m, IdOf(c, s)) /\ PidsStay
  <1>0. PICK i : i = IdOf(c, s)
    OBVIOUS
  <1>1. inst' = inst
    BY DEF Looks, Rents
  <1>2. NoRecord.st = "NONE"
    BY NothingTyped
  <1>3. CASE Looks(c, s, p, m)
    BY <1>0, <1>1, <1>2, <1>3 DEF Looks, SlotKnown, KnownAfter, PidsStay, Launching
  <1>4. CASE Rents(c, s, p, m)
    BY <1>0, <1>1, <1>2, <1>4 DEF Rents, SlotKnown, KnownAfter, PidsStay, Launching
  <1> QED
    BY <1>3, <1>4

\* A step that writes the slot's own record.
LEMMA WritesKnown ==
    ASSUME Core, NEW c \in Callers, NEW s \in Slots, SlotKnown(c, s), NEW p, NEW m,
           Writes(c, s, p, m), call[c].work[s].pc # "none"
    PROVE  KnownAfter(c, s, p, m, IdOf(c, s)) /\ PidsStay
  <1>0. PICK i \in Ids : i = IdOf(c, s)
    BY AtWork
  <1>1. inst \in [Ids -> Record] /\ NoRecord.pid = None
    BY NothingTyped DEF Core, TypeOK
  <1>2. PICK r \in Record :
          /\ inst' = [inst EXCEPT ![i] = r] /\ r.st # "NONE"
          /\ \/ call[c].work[s].pc = "patch" /\ p = "placed" /\ r.pid = None /\ m = None /\ Native
             \/ call[c].work[s].pc = "patch" /\ p = "spawn" /\ r.pid = None /\ m = None /\ ~Native
             \/ call[c].work[s].pc = "stamp" /\ p = "ssh" /\ r.pid = call[c].work[s].pid /\ m = call[c].work[s].pid
             \/ call[c].work[s].pc = "ssh" /\ p = "placed" /\ r.pid = call[c].work[s].pid /\ m = call[c].work[s].pid
             \/ call[c].work[s].pc = "spawn" /\ p = "unplaced" /\ r.pid = None /\ m = None
             \/ call[c].work[s].pc = "write" /\ p = "ok" /\ r.pid = call[c].work[s].pid /\ m = None
    BY <1>0 DEF Writes
  <1>3. inst'[i] = r /\ \A j \in Ids : j # i => inst'[j] = inst[j]
    BY <1>1, <1>2
  <1>4. inst[i].pid # None => r.pid = inst[i].pid
    BY <1>0, <1>1, <1>2 DEF SlotKnown
  <1>5. PidsStay
    BY <1>2, <1>3, <1>4 DEF PidsStay
  <1>6. KnownAfter(c, s, p, m, i)
    BY <1>0, <1>2, <1>3 DEF SlotKnown, KnownAfter, Launching
  <1> QED
    BY <1>0, <1>5, <1>6

\* A step that reports; a pod that is reported comes on record.
LEMMA ReportsKnown ==
    ASSUME Core, NEW c \in Callers, NEW s \in Slots, SlotKnown(c, s), NEW p, NEW m,
           Reports(c, s, p, m), call[c].work[s].pc # "none"
    PROVE  /\ KnownAfter(c, s, p, m, IdOf(c, s)) /\ PidsStay
           /\ call[c].work[s].pc = "report" /\ m # None => inst'[IdOf(c, s)].pid = m
  <1>0. PICK i \in Ids : i = IdOf(c, s)
    BY AtWork
  <1>1. TypeOK /\ m = call[c].work[s].pid
    BY DEF Core, Reports
  <1>2. PICK st, ep, pid :
          /\ patchDeploymentSlot(i, st, ep, pid)
          /\ \/ call[c].work[s].pc = "start" /\ p = "rent" /\ pid = None
             \/ call[c].work[s].pc = "report" /\ p = "boot" /\ pid = m
             \/ call[c].work[s].pc = "boot" /\ p = "final" /\ pid = m
    BY <1>0 DEF Reports
  <1>3. PatchLeaves(i, st, ep, pid)
    BY <1>1, <1>2, PatchDoes
  <1>4. /\ (\E k \in 1..Len(dep.reps) : dep.reps[k].id = i) =>
              (inst[i].st # "NONE" /\ inst[i].pid = None => inst'[i].pid = pid)
        /\ \A j \in Ids : /\ inst'[j].st = inst[j].st
                          /\ j # i \/ inst[j].pid # None \/ inst[j].st = "NONE" => inst'[j] = inst[j]
                          /\ inst'[j].pid = inst[j].pid \/ (j = i /\ inst'[j].pid = pid)
    BY <1>3 DEF PatchLeaves
  <1>5. inst[i].st # "NONE" /\ s \in 1..Len(dep.reps) /\ dep.reps[s].id = i
    BY <1>0, <1>2 DEF SlotKnown, Launching
  <1>6. PidsStay
    BY <1>4 DEF PidsStay
  <1>7. KnownAfter(c, s, p, m, i)
    BY <1>0, <1>1, <1>2, <1>4, <1>5 DEF SlotKnown, KnownAfter, Launching
  <1>8. call[c].work[s].pc = "report" /\ m # None => inst'[i].pid = m
    <2> SUFFICES ASSUME call[c].work[s].pc = "report", m # None PROVE inst'[i].pid = m
      OBVIOUS
    <2>1. pid = m /\ (inst[i].pid = None \/ inst[i].pid = m)
      BY <1>0, <1>1, <1>2 DEF SlotKnown
    <2> QED
      BY <1>4, <1>5, <2>1
  <1> QED
    BY <1>0, <1>6, <1>7, <1>8

\* Every step of a slot's goroutine.
LEMMA TurnKnown ==
    ASSUME Core, NEW c \in Callers, NEW s \in Slots, SlotKnown(c, s), NEW p, NEW m,
           Turns(c, s, p, m), call[c].work[s].pc # "none"
    PROVE  KnownAfter(c, s, p, m, IdOf(c, s)) /\ PidsStay
BY LooksKnown, WritesKnown, ReportsKnown DEF Turns

\* A machine that a goroutine has in its hand.
Hand(c, s, q) ==
    /\ IdOf(c, s) = cloud[q].for /\ call[c].work[s].pid = q
    /\ \/ call[c].work[s].pc \in {"stamp", "report"}
       \/ call[c].work[s].pc \in {"ssh", "placed"} /\ inst[IdOf(c, s)].pid = q

\* It keeps it in its hand, or puts it on record.
LEMMA HandTurns ==
    ASSUME Core, NEW c \in Callers, NEW s \in Slots, SlotKnown(c, s), NEW p, NEW m,
           Turns(c, s, p, m), call[c].work[s].pc # "none", NEW q \in Machines, Hand(c, s, q)
    PROVE  /\ cloud' = cloud
           /\ \/ m = q /\ p \in {"ssh", "placed"} /\ inst'[IdOf(c, s)].pid = q
              \/ /\ inst'[IdOf(c, s)].pid = q
                 /\ s \in 1..Len(dep.reps) /\ dep.reps[s].id = IdOf(c, s)
  <1>0. PICK i \in Ids : i = IdOf(c, s)
    BY AtWork
  <1>1. inst \in [Ids -> Record] /\ q # None /\ call[c].work[s].pid = q
    BY Bounds DEF Core, TypeOK, Hand
  <1>2. CASE Looks(c, s, p, m)
    BY <1>0, <1>1, <1>2 DEF Looks, Hand
  <1>3. CASE Rents(c, s, p, m)
    BY <1>3 DEF Rents, Hand
  <1>4. CASE Writes(c, s, p, m)
    <2>1. PICK r \in Record :
            /\ inst' = [inst EXCEPT ![i] = r] /\ cloud' = cloud
            /\ r.pid = q /\ m = q /\ p \in {"ssh", "placed"}
      BY <1>0, <1>1, <1>4 DEF Writes, Hand
    <2>2. inst'[i] = r
      BY <1>1, <2>1
    <2> QED
      BY <1>0, <2>1, <2>2
  <1>5. CASE Reports(c, s, p, m)
    <2>1. call[c].work[s].pc = "report" /\ m = q /\ cloud' = cloud
      BY <1>1, <1>5 DEF Reports, Hand
    <2>2. inst'[i].pid = q
      BY <1>0, <1>1, <1>5, <2>1, ReportsKnown
    <2>3. s \in 1..Len(dep.reps) /\ dep.reps[s].id = i
      BY <1>0, <2>1 DEF SlotKnown, Launching
    <2> QED
      BY <1>0, <2>1, <2>2, <2>3
  <1> QED
    BY <1>2, <1>3, <1>4, <1>5 DEF Turns

\* The machine it rents is in its hand, the others stay.
LEMMA TurnRents ==
    ASSUME Core, NEW c \in Callers, NEW s \in Slots, NEW p, NEW m, Turns(c, s, p, m),
           NEW q \in Machines, Rented(q)'
    PROVE  \/ Rented(q) /\ cloud'[q] = cloud[q]
           \/ q = m /\ cloud'[q].for = IdOf(c, s) /\ p \in {"stamp", "report"}
  <1>0. cloud \in [Machines -> Machine]
    BY DEF Core, TypeOK
  <1>1. CASE cloud' = cloud
    BY <1>1 DEF Rented
  <1>2. CASE Rents(c, s, p, m)
    <2>1. PICK i : i = IdOf(c, s)
      OBVIOUS
    <2>2. PICK r : r = [status |-> "rented", for |-> i]
      OBVIOUS
    <2>3. cloud' = [cloud EXCEPT ![m] = r] /\ m \in Machines /\ p \in {"stamp", "report"}
      BY <1>2, <2>1, <2>2 DEF Rents, Rent
    <2>4. cloud'[m] = r /\ r.for = i /\ (q # m => cloud'[q] = cloud[q])
      BY <1>0, <2>2, <2>3
    <2> QED
      BY <2>1, <2>3, <2>4 DEF Rented
  <1> QED
    BY <1>1, <1>2 DEF Turns, Looks, Writes, Reports

\* Every machine stays accounted for.
LEMMA WorkAccounts ==
    ASSUME Core, CreatedOnce, Once, NEW c \in Callers, NEW s \in Slots, NEW p, NEW m,
           Turns(c, s, p, m), call[c].work[s].pc # "none", NEW q \in Machines, Rented(q)'
    PROVE  cloud'[q].for \in Ids /\ (OnRecord(q)' \/ InHand(q)')
  <1>0. q # None /\ IdOf(c, s) \in Ids /\ FanOut(c) /\ TypeOK
    BY Bounds, AtWork DEF FanOut, Core
  <1>1. SetWork(c, s, p, m)
    BY DEF Turns
  <1>2. \A d \in Callers, t \in Slots :
           /\ IdOf(d, t)' = IdOf(d, t)
           /\ d = c /\ t = s => call'[d].work[t].pc = p /\ call'[d].work[t].pid = m
           /\ ~(d = c /\ t = s) => call'[d].work[t] = call[d].work[t]
    BY <1>0, <1>1, WorkHeld
  <1>3. SlotKnown(c, s)
    BY DEF Once, Working
  <1>4. PidsStay
    BY <1>3, TurnKnown
  <1>5. /\ Len(dep'.reps) = Len(dep.reps) /\ dep'.anchor = dep.anchor
        /\ \A k \in 1..Len(dep.reps) : dep'.reps[k].id = dep.reps[k].id
    BY TurnTable
  <1>6. \A i : Named(i) => Named(i)'
    BY <1>5 DEF Named
  <1>7. CASE q = m /\ cloud'[q].for = IdOf(c, s) /\ p \in {"stamp", "report"}
    <2>1. InHand(q)'
      BY <1>2, <1>7 DEF InHand
    <2> QED
      BY <1>0, <1>7, <2>1
  <1>8. CASE Rented(q) /\ cloud'[q] = cloud[q]
    <2>1. cloud[q].for \in Ids /\ (OnRecord(q) \/ InHand(q))
      BY <1>8 DEF Once, Accounted
    <2>0. PICK f \in Ids : f = cloud[q].for /\ f = cloud'[q].for
      BY <1>8, <2>1
    <2>2. CASE OnRecord(q)
      <3>1. Named(f) /\ inst[f].pid = q
        BY <2>0, <2>2 DEF OnRecord
      <3>2. Named(f)' /\ inst'[f].pid = q
        BY <1>0, <1>4, <1>6, <3>1 DEF PidsStay
      <3>3. OnRecord(q)'
        BY <2>0, <3>2 DEF OnRecord, Named
      <3> QED
        BY <1>8, <2>1, <3>3
    <2>3. CASE InHand(q)
      <3>1. PICK d \in Callers, t \in Slots : Hand(d, t, q)
        BY <2>3 DEF InHand, Hand
      <3>2. CASE d = c /\ t = s
        <4>1. Hand(c, s, q)
          BY <3>1, <3>2
        <4>2. IdOf(c, s) = cloud[q].for
          BY <4>1 DEF Hand
        <4>3. CASE m = q /\ p \in {"ssh", "placed"} /\ inst'[IdOf(c, s)].pid = q
          <5>1. InHand(q)'
            BY <1>2, <1>8, <4>2, <4>3 DEF InHand
          <5> QED
            BY <1>8, <2>1, <5>1
        <4>4. CASE inst'[IdOf(c, s)].pid = q /\ s \in 1..Len(dep.reps) /\ dep.reps[s].id = IdOf(c, s)
          <5>1. Named(f) /\ inst'[f].pid = q
            BY <2>0, <4>2, <4>4 DEF Named
          <5>2. Named(f)'
            BY <1>6, <5>1
          <5>3. OnRecord(q)'
            BY <2>0, <5>1, <5>2 DEF OnRecord, Named
          <5> QED
            BY <1>8, <2>1, <5>3
        <4> QED
          BY <1>3, <4>1, <4>3, <4>4, HandTurns
      <3>3. CASE ~(d = c /\ t = s)
        <4>1. call'[d].work[t] = call[d].work[t] /\ IdOf(d, t)' = IdOf(d, t)
          BY <1>2, <3>3
        <4>2. IdOf(d, t) \in Ids
          BY <2>1, <3>1 DEF Hand
        <4>3. inst[IdOf(d, t)].pid = q => inst'[IdOf(d, t)].pid = q
          BY <1>0, <1>4, <4>2 DEF PidsStay
        <4>4. InHand(q)'
          BY <1>8, <3>1, <4>1, <4>3 DEF Hand, InHand
        <4> QED
          BY <1>8, <2>1, <4>4
      <3> QED
        BY <3>2, <3>3
    <2> QED
      BY <2>1, <2>2, <2>3
  <1> QED
    BY <1>7, <1>8, TurnRents

\* What the goroutines know, the one that made a step and the others.
LEMMA WorkKnows ==
    ASSUME Core, CreatedOnce, Once, NEW c \in Callers, NEW s \in Slots, NEW p, NEW m,
           Turns(c, s, p, m), call[c].work[s].pc # "none", scenario' = scenario, NEW t \in Slots
    PROVE  SlotKnown(c, t)'
  <1>0. TypeOK /\ Native' = Native /\ call[c] \in Call
    BY DEF Core, TypeOK, Native
  <1>1. SetWork(c, s, p, m)
    BY DEF Turns
  <1>2. /\ IdOf(c, t)' = IdOf(c, t)
        /\ t = s => call'[c].work[t].pc = p /\ call'[c].work[t].pid = m
        /\ t # s => call'[c].work[t] = call[c].work[t]
    BY <1>0, <1>1, WorkHeld
  <1>3. SlotKnown(c, s) /\ SlotKnown(c, t)
    BY DEF Once, Working
  <1>4. KnownAfter(c, s, p, m, IdOf(c, s))
    BY <1>3, TurnKnown
  <1>5. Len(dep'.reps) = Len(dep.reps) /\ \A k \in 1..Len(dep.reps) : dep'.reps[k].id = dep.reps[k].id
    BY TurnTable
  <1>6. CASE t = s
    <2>1. PICK i : i = IdOf(c, s)
      OBVIOUS
    <2> QED
      BY <1>0, <1>2, <1>4, <1>5, <1>6, <2>1 DEF KnownAfter, SlotKnown
  <1>7. CASE t # s
    <2>1. CASE call[c].work[t].pc = "none"
      BY <1>2, <1>7, <2>1 DEF SlotKnown
    <2>2. CASE call[c].work[t].pc # "none"
      <3>1. IdOf(c, t) # IdOf(c, s) /\ IdOf(c, t) \in Ids
        BY <1>0, <1>7, <2>2, AtWork, IdsDiffer
      <3>2. inst'[IdOf(c, t)] = inst[IdOf(c, t)]
        BY <3>1, TurnRecords
      <3> QED
        BY <1>0, <1>2, <1>3, <1>5, <1>7, <3>2 DEF SlotKnown
    <2> QED
      BY <2>1, <2>2
  <1> QED
    BY <1>6, <1>7

\* The steps of the goroutines keep it.
LEMMA WorkOnce ==
    ASSUME Core, CreatedOnce, Once, NEW c \in Callers, NEW s \in Slots, WorkStep(c, s)
    PROVE  Once'
  <1>1. call[c].work[s].pc # "none" /\ creates' = creates /\ scenario' = scenario
    BY WorkTurns
  <1>2. PICK p, m : Turns(c, s, p, m)
    BY WorkTurns DEF Turns
  <1>3. SetWork(c, s, p, m) /\ TypeOK
    BY <1>2 DEF Turns, Core
  <1>4. \A d \in Callers :
           /\ call'[d].op = call[d].op /\ call'[d].pc = call[d].pc
           /\ call'[d].from = call[d].from /\ call'[d].n = call[d].n
    BY <1>3, WorkHeld
  <1>5. FanOut(c) /\ IdOf(c, s) \in Ids /\ IdOf(c, s) \in SlotIds(s)
    <2>1. FanOut(c) /\ IdOf(c, s) \in Ids /\ IdOf(c, s) = IdIn(call[c], s) /\ s <= call[c].from + call[c].n
      BY <1>1, AtWork DEF FanOut
    <2>2. call[c] \in Call
      BY DEF Core, TypeOK
    <2> QED
      BY <2>1, <2>2, IdOfSlot
  <1>6. /\ \A d \in Callers : d # c => call[d] = Idle
        /\ scenario.creates <= creates /\ dep.st # "TERMINATED" /\ Sized(c)
        /\ call[c].from \in Nat /\ call[c].n \in Nat /\ Len(dep.reps) \in Nat
        /\ s \in Planned(c)
        /\ \A t \in Slots : t > Len(dep.reps) /\ (call[c].pc = "place" => t \notin Planned(c)) => inst[t] = NoRecord
    BY <1>1, <1>5, FanOutFacts
  <1>7. call[c].pc \in {"place", "launch"}
    BY <1>1, <1>5, <1>6, OnceCalls DEF Sized
  <1>8. \A d \in Callers : d # c => call'[d] = Idle
    <2>1. call' = [call EXCEPT ![c].work[s] = [pc |-> p, pid |-> m]]
      BY <1>3 DEF SetWork
    <2>2. \A d \in Callers : d # c => call'[d] = call[d]
      BY <1>3, <2>1 DEF TypeOK
    <2> QED
      BY <1>6, <2>2
  <1>9. /\ Len(dep'.reps) = Len(dep.reps) /\ dep'.anchor = dep.anchor
        /\ dep' = dep \/ \E x \in {"STARTING", "CONFIGURING", "RUNNING"} : dep'.st = provisioningAdvance(dep.st, x)
    BY <1>1, <1>2, TurnTable
  <1>10. dep'.st \in {dep.st, "STARTING", "CONFIGURING"}
    BY <1>9, AdvanceMoves
  <1>11. AtOnce' /\ Visits' /\ TerminatedReleases'
    BY <1>4, <1>5, <1>6, <1>8, <1>10, OnlyFanOut DEF FanOut
  <1>12. OneLife'
    BY <1>1, <1>6 DEF OneLife
  <1>13. PidsStay
    BY <1>1, <1>2, TurnKnown DEF Once, Working
  <1>14. NoneUnrecorded'
    BY <1>13 DEF Once, NoneUnrecorded, PidsStay
  <1>15. Accounted'
    BY <1>1, <1>2, WorkAccounts DEF Accounted
  <1>16. \A t \in Slots : SlotKnown(c, t)'
    BY <1>1, <1>2, WorkKnows
  <1>17. Sized(c)'
    BY <1>4, <1>6, <1>7, <1>9 DEF Sized
  <1>18. Tabled' /\ Working'
    BY <1>6, <1>8, <1>9, <1>10, <1>16, <1>17, OnlyOne DEF Once, Tabled
  <1>19. Fresh'
    <2> SUFFICES ASSUME NEW t \in Slots, t > Len(dep.reps), call[c].pc = "place" => t \notin Planned(c)
                 PROVE  inst'[t] = NoRecord
      BY <1>4, <1>9 DEF Fresh, Planned
    <2>1. inst[t] = NoRecord /\ t \in Ids
      BY <1>6, Bounds
    <2>2. t # s
      <3>1. call[c].pc = "launch" => Len(dep.reps) >= call[c].from + call[c].n
        BY <1>6 DEF Sized
      <3>2. s <= call[c].from + call[c].n
        BY <1>6 DEF Planned
      <3> QED
        BY <1>6, <1>7, <3>1, <3>2, Bounds
    <2>3. t # IdOf(c, s)
      BY <1>5, <2>1, <2>2, Bounds DEF SlotIds, Slots
    <2> QED
      BY <1>1, <1>2, <2>1, <2>3, TurnRecords
  <1> QED
    BY <1>11, <1>12, <1>14, <1>15, <1>18, <1>19 DEF Once

-----------------------------------------------------------------------------
(* TERMINATED means released: the theorem *)

\* With no call in flight, there is nothing that a call could break.
LEMMA QuietOnce ==
    ASSUME \A c \in Callers : call[c] = Idle
    PROVE  /\ AtOnce /\ Working /\ Visits
           /\ \A c \in Callers : ~FanOut(c) /\ call[c].pc = "idle"
  <1>1. \A c \in Callers : /\ call[c].op = "none" /\ call[c].pc = "idle"
                           /\ \A s \in Slots : call[c].work[s].pc = "none"
    BY IdleTyped, NothingTyped
  <1>2. AtOnce /\ Visits /\ \A c \in Callers : ~FanOut(c)
    BY <1>1 DEF AtOnce, Visits, FanOut
  <1>3. ASSUME NEW c \in Callers, NEW s \in Slots PROVE SlotKnown(c, s)
    <2>1. call[c].work[s].pc = "none"
      BY <1>1
    <2> QED
      BY <2>1 DEF SlotKnown
  <1> QED
    BY <1>1, <1>2, <1>3 DEF Working

\* The file that the daemon starts with.
LEMMA StartOnce ==
    ASSUME Init, CreatedOnce
    PROVE  Once
  <1>0. TypeOK
    BY StartHolds DEF DeploymentsInv
  <1>1. \A c \in Callers : call[c] = Idle
    BY DEF Init
  <1>2. /\ AtOnce /\ Working /\ Visits
        /\ \A c \in Callers : ~FanOut(c) /\ call[c].pc = "idle"
    BY <1>1, QuietOnce
  <1>3. creates = 0 /\ scenario.creates \in Nat
    BY <1>0, ScenarioTyped, Bounds DEF Init, TypeOK
  <1>4. CASE /\ dep = [st |-> "NONE", reps |-> <<>>, anchor |-> None]
             /\ inst = [i \in Ids |-> NoRecord]
             /\ cloud = [m \in Machines |-> [status |-> "free", for |-> None]]
    <2>1. dep.st = "NONE" /\ Len(dep.reps) = 0 /\ dep.anchor = None
      BY <1>4
    <2>2. \A i \in Ids : inst[i] = NoRecord
      BY <1>4
    <2>3. \A m \in Machines : ~Rented(m)
      BY <1>4 DEF Rented
    <2>4. OneLife
      BY <1>1, <2>1, <2>2, <2>3 DEF OneLife, Blank
    <2>5. Tabled /\ TerminatedReleases
      BY <1>2, <2>1 DEF Tabled, TerminatedReleases
    <2>6. Fresh /\ NoneUnrecorded
      BY <2>2, NothingTyped, Bounds DEF Fresh, NoneUnrecorded
    <2>7. Accounted
      BY <2>3 DEF Accounted
    <2> QED
      BY <1>2, <2>4, <2>5, <2>6, <2>7 DEF Once
  <1>5. ASSUME scenario.start # "empty", NEW live \in (SUBSET Ids),
               \/ /\ live = {0} /\ dep = [st |-> "RUNNING", reps |-> <<>>, anchor |-> 0]
               \/ /\ live = 1..scenario.slots
                  /\ dep = [st |-> "RUNNING", reps |-> [s \in live |-> [id |-> s, ep |-> TRUE]], anchor |-> None],
               NEW pod \in [live -> Machines],
               inst = [i \in Ids |-> IF i \in live THEN [st |-> "ACTIVE", pid |-> pod[i]] ELSE NoRecord],
               cloud = [m \in Machines |->
                          IF \E i \in live : pod[i] = m
                          THEN [status |-> "rented", for |-> CHOOSE i \in live : pod[i] = m]
                          ELSE [status |-> "free", for |-> None]]
        PROVE  Once
    <2>1. OneLife
      BY <1>3, <1>5 DEF OneLife, CreatedOnce
    <2>2. /\ dep.st = "RUNNING" /\ \A i \in live : Named(i)
          /\ Len(dep.reps) >= 1 \/ dep.anchor # None
          /\ \A s \in Slots : s > Len(dep.reps) => s \notin live
      <3>1. CASE live = {0} /\ dep = [st |-> "RUNNING", reps |-> <<>>, anchor |-> 0]
        BY <3>1, Bounds DEF Named, Slots
      <3>2. CASE /\ live = 1..scenario.slots
                 /\ dep = [st |-> "RUNNING", reps |-> [s \in live |-> [id |-> s, ep |-> TRUE]], anchor |-> None]
        <4>1. PICK n \in Nat : n = scenario.slots /\ n >= 1
          BY <1>0, ScenarioTyped, Bounds DEF TypeOK
        <4>2. PICK reps : reps = [s \in 1..n |-> [id |-> s, ep |-> TRUE]]
          OBVIOUS
        <4>3. dep.reps = reps /\ dep.st = "RUNNING"
          BY <3>2, <4>1, <4>2
        <4>4. Len(reps) = n
          BY <4>2
        <4>5. ASSUME NEW k \in 1..n PROVE reps[k].id = k
          <5>1. reps[k] = [id |-> k, ep |-> TRUE]
            BY <4>2
          <5> QED
            BY <5>1
        <4>6. \A i \in live : Named(i)
          BY <3>2, <4>1, <4>3, <4>4, <4>5 DEF Named
        <4> QED
          BY <3>2, <4>1, <4>3, <4>4, <4>6
      <3> QED
        BY <1>5, <3>1, <3>2
    <2>3. Tabled /\ TerminatedReleases
      BY <1>2, <2>2 DEF Tabled, TerminatedReleases
    <2>4. \A i \in Ids : i \notin live => inst[i] = NoRecord
      BY <1>5
    <2>5. ASSUME NEW i \in live PROVE inst[i].st = "ACTIVE" /\ inst[i].pid = pod[i]
      <3>1. inst[i] = [st |-> "ACTIVE", pid |-> pod[i]]
        BY <1>5
      <3> QED
        BY <3>1
    <2>6. Fresh
      <3> SUFFICES ASSUME NEW s \in Slots, s > Len(dep.reps) PROVE inst[s] = NoRecord
        BY DEF Fresh
      <3> QED
        BY <2>2, <2>4, Bounds
    <2>7. NoneUnrecorded
      BY <2>4, <2>5, NothingTyped DEF NoneUnrecorded
    <2>8. ASSUME NEW m \in Machines, Rented(m) PROVE cloud[m].for \in Ids /\ OnRecord(m)
      <3>1. (\E i \in live : pod[i] = m) /\ cloud[m].for = CHOOSE i \in live : pod[i] = m
        <4>1. CASE \E i \in live : pod[i] = m
          <5>1. cloud[m] = [status |-> "rented", for |-> CHOOSE i \in live : pod[i] = m]
            BY <1>5, <4>1
          <5> QED
            BY <4>1, <5>1
        <4>2. CASE ~\E i \in live : pod[i] = m
          <5>1. cloud[m] = [status |-> "free", for |-> None]
            BY <1>5, <4>2
          <5> QED
            BY <2>8, <5>1 DEF Rented
        <4> QED
          BY <4>1, <4>2
      <3>2. PICK f \in live : f = cloud[m].for /\ pod[f] = m
        BY <3>1
      <3>3. inst[f].pid = m /\ Named(f) /\ f \in Ids
        BY <2>2, <2>5, <3>2
      <3> QED
        BY <3>2, <3>3 DEF OnRecord
    <2>9. Accounted
      BY <2>8 DEF Accounted
    <2> QED
      BY <1>2, <2>1, <2>3, <2>6, <2>7, <2>9 DEF Once
  <1> QED
    BY <1>4, <1>5 DEF Init

\* A step that changes nothing.
LEMMA StutterOnce ==
    ASSUME Once, UNCHANGED vars
    PROVE  Once'
  <1>1. dep' = dep /\ inst' = inst /\ cloud' = cloud /\ call' = call /\ creates' = creates /\ scenario' = scenario
    BY DEF vars
  <1>2. AtOnce' /\ OneLife' /\ NoneUnrecorded' /\ TerminatedReleases'
    BY <1>1 DEF Once, AtOnce, OneLife, Blank, NoneUnrecorded, TerminatedReleases, Rented
  <1>3. Tabled' /\ Fresh'
    BY <1>1 DEF Once, Tabled, Fresh, Sized, FanOut, Planned
  <1>4. Working'
    BY <1>1 DEF Once, Working, SlotKnown, IdOf, Native
  <1>5. Accounted'
    BY <1>1 DEF Once, Accounted, Rented, OnRecord, InHand, Named, IdOf
  <1>6. Visits'
    BY <1>1 DEF Once, Visits, Visiting, Rented, Named, Erred
  <1> QED
    BY <1>2, <1>3, <1>4, <1>5, <1>6 DEF Once

\* What a deployment that is created once keeps is inductive.
LEMMA OnceHolds ==
    ASSUME Core, Core', CreatedOnce => Once, [Next]_vars
    PROVE  (CreatedOnce => Once)'
  <1> SUFFICES ASSUME CreatedOnce' PROVE Once'
    OBVIOUS
  <1>1. CreatedOnce /\ Once
    BY ScenarioStays DEF CreatedOnce, Ops, Faults
  <1>2. ~Crash
    BY <1>1 DEF Crash, CreatedOnce
  <1>3. ASSUME NEW c \in Callers,
               \/ \E n \in Slots : CreateClaim(c, n)
               \/ ScaleRead(c) \/ DestroyClaim(c) \/ FanOutStep(c) \/ DestroyStep(c)
               \/ \E s \in Slots : WorkStep(c, s)
        PROVE  Once'
    <2>1. ASSUME NEW n \in Slots, CreateClaim(c, n) PROVE Once'
      BY <1>1, <2>1, ClaimOnce
    <2>2. CASE ScaleRead(c)
      BY <1>1, <2>2, ReadOnce
    <2>3. CASE DestroyClaim(c)
      BY <1>1, <2>3, DestroyClaimOnce
    <2>4. CASE FanOutStep(c)
      <3>1. ASSUME NEW n \in Slots, ScalePlan(c, n) PROVE Once'
        BY <1>1, <3>1, PlanOnce DEF Core
      <3>2. CASE ScaleNormalise(c)
        BY <1>1, <3>2, NormaliseOnce
      <3>3. CASE ScaleNoDelta(c) \/ Aggregate(c)
        BY <1>1, <3>3, EndOnce
      <3>4. CASE Launch(c)
        BY <1>1, <3>4, LaunchOnce
      <3> QED
        BY <2>4, <3>1, <3>2, <3>3, <3>4 DEF FanOutStep
    <2>5. CASE DestroyStep(c)
      BY <1>1, <2>5, DestroyOnce
    <2>6. ASSUME NEW s \in Slots, WorkStep(c, s) PROVE Once'
      BY <1>1, <2>6, WorkOnce
    <2> QED
      BY <1>3, <2>1, <2>2, <2>3, <2>4, <2>5, <2>6
  <1>4. CASE UNCHANGED vars
    BY <1>1, <1>4, StutterOnce
  <1> QED
    BY <1>2, <1>3, <1>4 DEF Next

\* DestroyDeployment and the captures it works from: a deployment that is
\* created once, scaled and destroyed as often as callers like, whatever fails on
\* the way, has no machine rented when it is TERMINATED and every call is over.
THEOREM DestroyReleases == Spec => []FirstDestroyReleases
  <1>1. Init => DeploymentsInv /\ (CreatedOnce => Once)
    BY StartHolds, StartOnce
  <1>2. DeploymentsInv /\ (CreatedOnce => Once) /\ [Next]_vars
        => DeploymentsInv' /\ (CreatedOnce => Once)'
    BY StepHolds, OnceHolds DEF DeploymentsInv, Core
  <1>3. DeploymentsInv /\ (CreatedOnce => Once) => FirstDestroyReleases
    <2> SUFFICES ASSUME Once, NoCalls, dep.st = "TERMINATED" PROVE \A m \in Machines : ~Rented(m)
      BY DEF FirstDestroyReleases, Released
    <2>1. \A c \in Callers : call[c].op = "none"
      BY IdleTyped DEF NoCalls
    <2> QED
      BY <2>1 DEF Once, TerminatedReleases
  <1> QED
    BY <1>1, <1>2, <1>3, PTL DEF Spec

\* The record of a deployment is honest when no call is in flight: RUNNING is
\* served by every slot, a create has settled, and TERMINATED means released.
THEOREM RecordCorrect == Spec => []RecordHonest
  <1>1. RunningMeansServing /\ CreateSettles /\ FirstDestroyReleases => RecordHonest
    BY DEF RecordHonest
  <1> QED
    BY <1>1, RunningServed, CreatesSettle, DestroyReleases, PTL

=============================================================================
