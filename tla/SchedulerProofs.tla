-------------------------- MODULE SchedulerProofs --------------------------
(***************************************************************************)
(* Proofs about Scheduler, for any number of requests, tenants,            *)
(* deployments and dispatchers: every accepted request is in one place,    *)
(* the in-flight slots are those of the requests in flight, nothing is     *)
(* accepted behind a Stop that returned, and the lanes implement the       *)
(* abstract backlog.                                                       *)
(***************************************************************************)
EXTENDS Scheduler, FiniteSetTheorems, TLAPS

Waits(r, l, t) == \E k \in 1 .. Len(queue[l][t]) : queue[l][t][k] = r

\* What the sub-queues hold: queued requests of their lane and tenant, each
\* once, and every queued request is there.
InLine ==
    /\ \A l \in Lanes, t \in Tenants : \A k \in 1 .. Len(queue[l][t]) :
          LET r == queue[l][t][k] IN
          request[r] = "queued" /\ LaneOf[r] = l /\ TenantOf[r] = t
    /\ \A l \in Lanes, t \in Tenants : \A j, k \in 1 .. Len(queue[l][t]) :
          queue[l][t][j] = queue[l][t][k] => j = k
    /\ \A r \in Requests : request[r] = "queued" => Waits(r, LaneOf[r], TenantOf[r])

\* What the dispatchers hold: a request that is taken before it has a slot and
\* running with it, no two the same one, and every such request is held.
InHand ==
    /\ \A w \in Workers :
          /\ worker[w].pc = "acquire" =>
                worker[w].req \in Requests /\ request[worker[w].req] = "taken"
          /\ worker[w].pc = "run" =>
                worker[w].req \in Requests /\ request[worker[w].req] = "running"
          /\ worker[w].pc \notin {"acquire", "run"} => worker[w].req = None
    /\ \A v, w \in Workers :
          worker[v].req = worker[w].req /\ worker[v].req # None => v = w
    /\ \A r \in Requests :
          request[r] \in {"taken", "running"} => \E w \in Workers : worker[w].req = r

Running(d) == {r \in Requests : request[r] = "running" /\ DeploymentOf[r] = d}

\* How far a shutdown has come: which sub-queues are still open in a closed
\* lane, and that a push on its way goes to a sub-queue Stop knows of.
Closing ==
    /\ \A r \in Requests : request[r] = "pushing" => TenantOf[r] \in known[LaneOf[r]]
    /\ \A l \in Lanes :
          laneClosed[l] =>
              /\ stop.pc # "no"
              /\ known[l] \subseteq subClosed[l] \cup
                    (IF stop.pc = "closing" /\ stop.lane = l THEN stop.todo ELSE {})
    /\ stop.pc # "no" => laneClosed["interactive"]
    /\ stop.pc # "no" /\ stop.lane = "batch" => laneClosed["batch"]
    /\ stop.pc \in {"waiting", "stopped"} => stop.lane = "batch"
    /\ stop.pc = "stopped" => \A w \in Workers : worker[w].pc = "exited"

SchedulerInv == TypeOK /\ InLine /\ InHand /\ InFlightBound /\ Closing

-----------------------------------------------------------------------------
(* Type correctness *)

\* Become and BeginScan leave a dispatcher's record well-formed and change
\* that dispatcher only.
LEMMA BecomeTyped ==
    ASSUME TypeOK, NEW w \in Workers, NEW p \in WorkerPc, NEW o \in SUBSET Lanes,
           NEW r \in Requests \cup {None}, Become(w, p, o, r)
    PROVE  /\ worker' \in [Workers -> Worker]
           /\ worker'[w].pc = p
           /\ worker'[w].req = r
           /\ \A v \in Workers \ {w} : worker'[v] = worker[v]
<1>1. worker[w] \in Worker
  BY DEF TypeOK
<1>2. [worker[w] EXCEPT !.pc = p, !.open = o, !.req = r,
                        !.todo = {}, !.cands = {}, !.shut = FALSE] \in Worker
  BY <1>1 DEF Worker
<1>3. QED
  BY <1>1, <1>2 DEF TypeOK, Become, Worker

\* The start of a scan keeps what the dispatcher holds.
LEMMA BeginScanTyped ==
    ASSUME TypeOK, NEW w \in Workers, NEW l \in Lanes, BeginScan(w, l)
    PROVE  /\ worker' \in [Workers -> Worker]
           /\ worker'[w].pc = "scan"
           /\ worker'[w].req = worker[w].req
           /\ \A v \in Workers \ {w} : worker'[v] = worker[v]
<1>1. worker[w] \in Worker
  BY DEF TypeOK
<1>2. [worker[w] EXCEPT !.pc = "scan", !.lane = l, !.todo = known[l],
                        !.cands = {}, !.shut = laneClosed[l]] \in Worker
  BY <1>1 DEF Worker, TypeOK, WorkerPc
<1>3. QED
  BY <1>1, <1>2 DEF TypeOK, BeginScan, Worker

\* A dispatcher that gives a lane up goes on empty-handed.
LEMMA GiveUpTyped ==
    ASSUME TypeOK, NEW w \in Workers, NEW l \in Lanes, NEW o \in SUBSET Lanes,
           GiveUp(w, l, o)
    PROVE  /\ worker' \in [Workers -> Worker]
           /\ worker'[w].pc \in {"batch", "exited", "idle"}
           /\ worker'[w].req = None
           /\ \A v \in Workers \ {w} : worker'[v] = worker[v]
<1> DEFINE p == IF l = "interactive" /\ "batch" \in o THEN "batch"
                ELSE IF o = {} THEN "exited" ELSE "idle"
<1>1. p \in WorkerPc /\ p \in {"batch", "exited", "idle"}
  BY DEF WorkerPc
<1>2. Become(w, p, o, None)
  BY DEF GiveUp
<1> HIDE DEF p
<1>3. QED
  BY <1>1, <1>2, BecomeTyped

\* A dispatcher between two requests.
Looks(w) ==
    \/ Top(w)
    \/ TryBatch(w)
    \/ \E t \in Tenants : Scan(w, t) \/ LoseRace(w, t)
    \/ FindNothing(w)
    \/ WakeUp(w)

\* A step between two requests changes the dispatcher only, which stays
\* empty-handed.
LEMMA LooksTyped ==
    ASSUME TypeOK, InHand, NEW w \in Workers, Looks(w)
    PROVE  /\ UNCHANGED <<load, laneState, request, slots, stop>>
           /\ worker' \in [Workers -> Worker]
           /\ worker[w].pc \notin {"acquire", "run", "exited"}
           /\ worker'[w].pc \notin {"acquire", "run"}
           /\ worker[w].req = None
           /\ worker'[w].req = None
           /\ \A v \in Workers \ {w} : worker'[v] = worker[v]
<1> DEFINE Goal ==
        /\ worker' \in [Workers -> Worker]
        /\ worker'[w].pc \notin {"acquire", "run"}
        /\ worker'[w].req = None
        /\ \A v \in Workers \ {w} : worker'[v] = worker[v]
<1>0. /\ UNCHANGED <<load, laneState, request, slots, stop>>
      /\ worker[w].pc \notin {"acquire", "run", "exited"}
  BY DEF Looks, Top, TryBatch, Scan, LoseRace, FindNothing, WakeUp
<1>1. /\ worker[w] \in Worker
      /\ worker[w].req = None
      /\ worker[w].open \in SUBSET Lanes
      /\ worker[w].lane \in Lanes
      /\ "interactive" \in Lanes
      /\ "batch" \in Lanes
      /\ {"exited", "top"} \subseteq WorkerPc
  BY <1>0 DEF TypeOK, InHand, Worker, Lanes, WorkerPc
<1> SUFFICES Goal
  BY <1>0, <1>1
<1>2. CASE Top(w)
  <2>1. CASE Become(w, "exited", worker[w].open, None)
    BY <2>1, <1>1, BecomeTyped
  <2>2. CASE BeginScan(w, "interactive") \/ BeginScan(w, "batch")
    BY <2>2, <1>1, BeginScanTyped
  <2>3. QED
    BY <1>2, <2>1, <2>2 DEF Top
<1>3. CASE TryBatch(w)
  BY <1>3, <1>1, BeginScanTyped DEF TryBatch
<1>4. ASSUME NEW t \in Tenants, Scan(w, t)
      PROVE  Goal
  BY <1>4, <1>1 DEF Scan, TypeOK, Worker
<1>5. ASSUME NEW t \in Tenants, LoseRace(w, t)
      PROVE  Goal
  <2>1. PICK o \in SUBSET Lanes : GiveUp(w, worker[w].lane, o)
    BY <1>5, <1>1 DEF LoseRace
  <2>2. QED
    BY <2>1, <1>1, GiveUpTyped
<1>6. CASE FindNothing(w)
  <2>1. PICK o \in SUBSET Lanes : GiveUp(w, worker[w].lane, o)
    BY <1>6, <1>1 DEF FindNothing
  <2>2. QED
    BY <2>1, <1>1, GiveUpTyped
<1>7. CASE WakeUp(w)
  <2>1. \/ Become(w, "exited", worker[w].open, None)
        \/ Become(w, "top", worker[w].open, None)
    BY <1>7 DEF WakeUp
  <2>2. QED
    BY <2>1, <1>1, BecomeTyped
<1>8. QED
  BY <1>2, <1>3, <1>4, <1>5, <1>6, <1>7 DEF Looks

\* Dispatcher w takes r out of t's sub-queue of lane l.
Takes(w, t, l, r) ==
    /\ worker[w].pc = "scan"
    /\ queue[l][t] \in Seq(Requests)
    /\ queue[l][t] # <<>>
    /\ r = queue[l][t][1]
    /\ queue' = [queue EXCEPT ![l][t] = Tail(@)]
    /\ request' = [request EXCEPT ![r] = "taken"]
    /\ worker' \in [Workers -> Worker]
    /\ worker'[w].pc = "acquire"
    /\ worker'[w].req = r
    /\ \A v \in Workers \ {w} : worker'[v] = worker[v]
    /\ UNCHANGED <<load, known, laneClosed, subClosed, slots, stop>>

\* The pop takes the oldest entry of a sub-queue into the hand of one dispatcher.
LEMMA TakeTyped ==
    ASSUME TypeOK, NEW w \in Workers, NEW t \in Tenants, Take(w, t)
    PROVE  \E l \in Lanes, r \in Requests : Takes(w, t, l, r)
<1> DEFINE l == worker[w].lane
<1> DEFINE r == Head(queue[l][t])
<1>1. worker[w] \in Worker /\ l \in Lanes /\ worker[w].open \in SUBSET Lanes
  BY DEF TypeOK, Worker
<1>2. queue[l][t] \in Seq(Requests) /\ queue[l][t] # <<>>
  BY <1>1 DEF TypeOK, Take
<1>3. r \in Requests /\ r = queue[l][t][1]
  BY <1>2
<1>4. Become(w, "acquire", worker[w].open, r)
  BY DEF Take
<1>5. /\ worker' \in [Workers -> Worker]
      /\ worker'[w].pc = "acquire"
      /\ worker'[w].req = r
      /\ \A v \in Workers \ {w} : worker'[v] = worker[v]
  BY <1>1, <1>3, <1>4, BecomeTyped DEF WorkerPc
<1>6. Takes(w, t, l, r)
  BY <1>2, <1>3, <1>5 DEF Take, Takes
<1>7. QED
  BY <1>1, <1>3, <1>6

\* What the three steps of dispatch do to the request in hand.
LEMMA DispatchTyped ==
    ASSUME TypeOK, InHand, NEW w \in Workers, Acquire(w) \/ AbandonEntry(w) \/ Finish(w)
    PROVE  /\ worker[w].req \in Requests
           /\ worker' \in [Workers -> Worker]
           /\ \A v \in Workers \ {w} : worker'[v] = worker[v]
           /\ UNCHANGED <<load, laneState, stop>>
           /\ Acquire(w) =>
                 /\ worker[w].pc = "acquire"
                 /\ worker'[w].pc = "run"
                 /\ worker'[w].req = worker[w].req
                 /\ request' = [request EXCEPT ![worker[w].req] = "running"]
           /\ AbandonEntry(w) =>
                 /\ worker[w].pc = "acquire"
                 /\ worker'[w].pc = "top"
                 /\ worker'[w].req = None
                 /\ request' = [request EXCEPT ![worker[w].req] = "dropped"]
           /\ Finish(w) =>
                 /\ worker[w].pc = "run"
                 /\ worker'[w].pc = "top"
                 /\ worker'[w].req = None
                 /\ request' = [request EXCEPT ![worker[w].req] = "answered"]
<1>1. /\ worker[w] \in Worker
      /\ worker[w].open \in SUBSET Lanes
      /\ {"top", "run"} \subseteq WorkerPc
  BY DEF TypeOK, Worker, WorkerPc
<1>2. worker[w].pc \in {"acquire", "run"}
  BY DEF Acquire, AbandonEntry, Finish
<1>3. worker[w].req \in Requests
  BY <1>2 DEF InHand
<1>4. CASE Acquire(w)
  BY <1>1, <1>3, <1>4, BecomeTyped DEF Acquire, AbandonEntry, Finish
<1>5. CASE AbandonEntry(w)
  BY <1>1, <1>3, <1>5, BecomeTyped DEF Acquire, AbandonEntry, Finish
<1>6. CASE Finish(w)
  BY <1>1, <1>3, <1>6, BecomeTyped DEF Acquire, AbandonEntry, Finish
<1>7. QED
  BY <1>4, <1>5, <1>6

\* Next by what it does to the requests.
LEMMA NextCases ==
    ASSUME Next
    PROVE  \/ \E r \in Requests : Submit(r) \/ Push(r)
           \/ \E w \in Workers : Looks(w)
           \/ \E w \in Workers, t \in Tenants : Take(w, t)
           \/ \E w \in Workers : Acquire(w) \/ AbandonEntry(w) \/ Finish(w)
           \/ Stopping
  BY DEF Next, WorkerStep, Looks

\* The shutdown leaves queues, requests, dispatchers and slots alone.
LEMMA StoppingLeaves ==
    ASSUME Stopping
    PROVE  UNCHANGED <<load, queue, known, request, worker, slots>>
  BY DEF Stopping, StopBegin, CloseLane, CloseSub, CloseBatch, rootCancel, StopReturn,
         laneState

\* The sub-queue of r takes it.
Joins(r, l, t) ==
    /\ t \notin subClosed[l]
    /\ Len(queue[l][t]) < Capacity[l]
    /\ queue' = [queue EXCEPT ![l][t] = Append(@, r)]
    /\ request' = [request EXCEPT ![r] = "queued"]

\* What a push does, when the sub-queue takes the request and when it does not.
LEMMA PushTyped ==
    ASSUME TypeOK, NEW r \in Requests, Push(r)
    PROVE  /\ LaneOf[r] \in Lanes
           /\ TenantOf[r] \in Tenants
           /\ request[r] = "pushing"
           /\ UNCHANGED <<load, known, laneClosed, subClosed, worker, slots, stop>>
           /\ \/ UNCHANGED queue /\ request' = [request EXCEPT ![r] = "answered"]
              \/ Joins(r, LaneOf[r], TenantOf[r])
<1>1. LaneOf[r] \in Lanes /\ TenantOf[r] \in Tenants
  BY SchedulerAssumption
<1>2. /\ Len(queue[LaneOf[r]][TenantOf[r]]) \in Nat
      /\ Capacity[LaneOf[r]] \in Nat
  BY <1>1, SchedulerAssumption DEF TypeOK
<1>3. QED
  BY <1>1, <1>2 DEF Push, Joins

\* How many requests of a deployment are in flight, with one more and one
\* fewer.
LEMMA RunningCounts ==
    ASSUME NEW d
    PROVE  /\ IsFiniteSet(Running(d))
           /\ Cardinality(Running(d)) \in Nat
           /\ \A r : Cardinality(Running(d) \cup {r}) =
                 IF r \in Running(d) THEN Cardinality(Running(d))
                 ELSE Cardinality(Running(d)) + 1
           /\ \A r \in Running(d) :
                 /\ Cardinality(Running(d) \ {r}) = Cardinality(Running(d)) - 1
                 /\ Cardinality(Running(d)) > 0
<1>1. Running(d) \in SUBSET Requests
  BY DEF Running
<1>2. IsFiniteSet(Running(d))
  BY <1>1, SchedulerAssumption, FS_Subset
<1>3. Cardinality(Running(d)) \in Nat
  BY <1>2, FS_CardinalityType
<1>4. \A r \in Running(d) : Cardinality(Running(d)) # 0
  BY <1>2, FS_EmptySet
<1>5. QED
  BY <1>2, <1>3, <1>4, FS_AddElement, FS_RemoveElement

\* Every step keeps the slots those of the requests in flight, within the cap.
LEMMA InFlightStep ==
    ASSUME TypeOK, InHand, InFlightBound, InLine, [Next]_vars
    PROVE  InFlightBound' /\ slots' \in [Deployments -> Nat]
<1> DEFINE Good(d) == slots[d] = Cardinality(Running(d)) /\ slots[d] <= InFlightCap
<1> DEFINE Goal ==
        /\ InFlightCap > 0 => \A d \in Deployments :
              slots'[d] = Cardinality(Running(d)') /\ slots'[d] <= InFlightCap
        /\ slots' \in [Deployments -> Nat]
<1>0. /\ InFlightBound <=> (InFlightCap > 0 => \A d \in Deployments : Good(d))
      /\ Goal => InFlightBound' /\ slots' \in [Deployments -> Nat]
      /\ slots \in [Deployments -> Nat]
      /\ request \in [Requests -> RequestState]
      /\ InFlightCap \in Nat
  BY SchedulerAssumption DEF InFlightBound, Running, TypeOK
<1> SUFFICES Goal
  BY <1>0
<1>1. ASSUME UNCHANGED slots,
             \A r \in Requests : request'[r] = "running" <=> request[r] = "running"
      PROVE  Goal
  <2>1. \A d : Running(d)' = Running(d)
    BY <1>1 DEF Running
  <2>2. QED
    BY <2>1, <1>0, <1>1
<1>2. ASSUME NEW r \in Requests, Submit(r)
      PROVE  Goal
  BY <1>2, <1>1, <1>0 DEF Submit
<1>3. ASSUME NEW r \in Requests, Push(r)
      PROVE  Goal
  BY <1>3, <1>1, <1>0, PushTyped DEF Joins
<1>4. ASSUME NEW w \in Workers, Looks(w)
      PROVE  Goal
  BY <1>4, <1>1, LooksTyped
<1>5. ASSUME NEW w \in Workers, NEW t \in Tenants, Take(w, t)
      PROVE  Goal
  <2>1. PICK r \in Requests :
            /\ request[r] = "queued"
            /\ request' = [request EXCEPT ![r] = "taken"]
            /\ UNCHANGED slots
    <3>1. PICK l \in Lanes, r \in Requests : Takes(w, t, l, r)
      BY <1>5, TakeTyped
    <3>2. 1 \in 1 .. Len(queue[l][t])
      BY <3>1 DEF Takes
    <3>3. request[queue[l][t][1]] = "queued"
      BY <3>2 DEF InLine
    <3>4. QED
      BY <3>1, <3>3 DEF Takes
  <2>2. QED
    BY <2>1, <1>1, <1>0
<1>6. ASSUME NEW w \in Workers, Acquire(w)
      PROVE  Goal
  <2>0. PICK r \in Requests :
            /\ r = worker[w].req
            /\ request[r] = "taken"
            /\ request' = [request EXCEPT ![r] = "running"]
    BY <1>6, DispatchTyped DEF InHand
  <2>1. PICK e \in Deployments : e = DeploymentOf[r]
    BY SchedulerAssumption
  <2>2. slots' = IF InFlightCap = 0 THEN slots ELSE [slots EXCEPT ![e] = @ + 1]
    BY <1>6, <2>0, <2>1 DEF Acquire
  <2>3. InFlightCap > 0 => slots[e] < InFlightCap
    BY <1>6, <1>0, <2>0, <2>1 DEF Acquire, HasSlot
  <2>4. \A d : Running(d)' = IF d = e THEN Running(d) \cup {r} ELSE Running(d)
    BY <2>0, <2>1, <1>0 DEF Running
  <2>5. r \notin Running(e)
    BY <2>0, <2>1 DEF Running
  <2>6. CASE InFlightCap = 0
    BY <2>6, <2>2, <1>0
  <2>7. CASE InFlightCap > 0
    <3>1. Cardinality(Running(e)') = Cardinality(Running(e)) + 1
      BY <2>4, <2>5, RunningCounts
    <3>2. slots'[e] = slots[e] + 1 /\ \A d \in Deployments \ {e} : slots'[d] = slots[d]
      BY <2>1, <2>2, <2>7, <1>0
    <3>3. slots' \in [Deployments -> Nat]
      BY <2>1, <2>2, <2>7, <1>0
    <3>4. \A d \in Deployments \ {e} : Running(d)' = Running(d)
      BY <2>4
    <3>5. QED
      BY <3>1, <3>2, <3>3, <3>4, <2>1, <2>3, <2>7, <1>0
  <2>8. QED
    BY <2>6, <2>7, <1>0
<1>7. ASSUME NEW w \in Workers, AbandonEntry(w)
      PROVE  Goal
  <2>1. /\ worker[w].req \in Requests
        /\ request[worker[w].req] = "taken"
        /\ request' = [request EXCEPT ![worker[w].req] = "dropped"]
        /\ UNCHANGED slots
    BY <1>7, DispatchTyped DEF InHand, AbandonEntry
  <2>2. QED
    BY <2>1, <1>1, <1>0
<1>8. ASSUME NEW w \in Workers, Finish(w)
      PROVE  Goal
  <2>0. PICK r \in Requests :
            /\ r = worker[w].req
            /\ request[r] = "running"
            /\ request' = [request EXCEPT ![r] = "answered"]
    BY <1>8, DispatchTyped DEF InHand
  <2>1. PICK e \in Deployments : e = DeploymentOf[r]
    BY SchedulerAssumption
  <2>2. slots' = IF InFlightCap = 0 THEN slots ELSE [slots EXCEPT ![e] = @ - 1]
    BY <1>8, <2>0, <2>1 DEF Finish
  <2>4. \A d : Running(d)' = IF d = e THEN Running(d) \ {r} ELSE Running(d)
    BY <2>0, <2>1, <1>0 DEF Running
  <2>5. r \in Running(e)
    BY <2>0, <2>1 DEF Running
  <2>6. CASE InFlightCap = 0
    BY <2>6, <2>2, <1>0
  <2>7. CASE InFlightCap > 0
    <3>1. /\ Cardinality(Running(e)') = Cardinality(Running(e)) - 1
          /\ Cardinality(Running(e)) > 0
      BY <2>4, <2>5, RunningCounts
    <3>2. slots'[e] = slots[e] - 1 /\ \A d \in Deployments \ {e} : slots'[d] = slots[d]
      BY <2>1, <2>2, <2>7, <1>0
    <3>3. slots[e] > 0 /\ slots[e] \in Nat
      BY <3>1, <2>1, <2>7, <1>0
    <3>4. slots' \in [Deployments -> Nat]
      BY <3>3, <2>1, <2>2, <2>7, <1>0
    <3>5. \A d \in Deployments \ {e} : Running(d)' = Running(d)
      BY <2>4
    <3>6. QED
      BY <3>1, <3>2, <3>3, <3>4, <3>5, <2>1, <2>7, <1>0
  <2>8. QED
    BY <2>6, <2>7, <1>0
<1>9. CASE Stopping
  BY <1>9, <1>1, StoppingLeaves
<1>10. CASE UNCHANGED vars
  BY <1>10, <1>1 DEF vars, state
<1> HIDE DEF Goal
<1>11. QED
  BY <1>2, <1>3, <1>4, <1>5, <1>6, <1>7, <1>8, <1>9, <1>10, NextCases

\* Every step keeps the types.
LEMMA TypeStep ==
    ASSUME TypeOK, InHand, InLine, InFlightBound, [Next]_vars
    PROVE  TypeOK'
<1> USE DEF RequestState
<1>0. slots' \in [Deployments -> Nat]
  BY InFlightStep
<1>1. ASSUME NEW r \in Requests, Submit(r)
      PROVE  TypeOK'
  <2>1. PICK l \in Lanes, t \in Tenants : known' = [known EXCEPT ![l] = @ \cup {t}]
    BY <1>1, SchedulerAssumption DEF Submit
  <2>2. known' \in [Lanes -> SUBSET Tenants]
    BY <2>1 DEF TypeOK
  <2>3. request' \in [Requests -> RequestState]
    BY <1>1 DEF TypeOK, Submit
  <2>4. QED
    BY <1>0, <1>1, <2>2, <2>3 DEF TypeOK, Submit
<1>2. ASSUME NEW r \in Requests, Push(r)
      PROVE  TypeOK'
  <2>1. queue' \in [Lanes -> [Tenants -> Seq(Requests)]]
    <3>1. CASE UNCHANGED queue
      BY <3>1 DEF TypeOK
    <3>2. CASE Joins(r, LaneOf[r], TenantOf[r])
      <4>1. PICK l \in Lanes, t \in Tenants : queue' = [queue EXCEPT ![l][t] = Append(@, r)]
        BY <3>2, <1>2, PushTyped DEF Joins
      <4>2. queue[l][t] \in Seq(Requests)
        BY DEF TypeOK
      <4>3. Append(queue[l][t], r) \in Seq(Requests)
        BY <4>2
      <4>4. QED
        BY <4>1, <4>3 DEF TypeOK
    <3>3. QED
      BY <1>2, <3>1, <3>2, PushTyped
  <2>2. request' \in [Requests -> RequestState]
    BY <1>2, PushTyped DEF TypeOK, Joins
  <2>3. QED
    BY <2>1, <2>2, <1>0, <1>2, PushTyped DEF TypeOK
<1>3. ASSUME NEW w \in Workers, Looks(w)
      PROVE  TypeOK'
  BY <1>0, <1>3, LooksTyped DEF TypeOK, laneState
<1>4. ASSUME NEW w \in Workers, NEW t \in Tenants, Take(w, t)
      PROVE  TypeOK'
  <2>1. PICK l \in Lanes, r \in Requests : Takes(w, t, l, r)
    BY <1>4, TakeTyped
  <2>2. queue' \in [Lanes -> [Tenants -> Seq(Requests)]]
    <3>1. Tail(queue[l][t]) \in Seq(Requests)
      BY <2>1 DEF Takes
    <3>2. QED
      BY <3>1, <2>1 DEF TypeOK, Takes
  <2>3. QED
    BY <2>1, <2>2, <1>0 DEF TypeOK, Takes
<1>5. ASSUME NEW w \in Workers, Acquire(w) \/ AbandonEntry(w) \/ Finish(w)
      PROVE  TypeOK'
  BY <1>0, <1>5, DispatchTyped DEF TypeOK, laneState
<1>6. CASE Stopping
  <2>1. UNCHANGED <<load, queue, known, request, worker, slots>>
    BY <1>6, StoppingLeaves
  <2>2. /\ laneClosed' \in [Lanes -> BOOLEAN]
        /\ subClosed' \in [Lanes -> SUBSET Tenants]
        /\ stop' \in Stop
    <3>1. CASE StopBegin \/ CloseBatch
      <4>1. PICK l \in Lanes : CloseLane(l)
        BY <3>1 DEF StopBegin, CloseBatch, Lanes
      <4>2. stop' \in Stop
        BY <4>1 DEF TypeOK, CloseLane, Stop
      <4>3. QED
        BY <4>1, <4>2 DEF TypeOK, CloseLane
    <3>2. ASSUME NEW t \in Tenants, CloseSub(t)
          PROVE  /\ laneClosed' \in [Lanes -> BOOLEAN]
                 /\ subClosed' \in [Lanes -> SUBSET Tenants]
                 /\ stop' \in Stop
      <4>1. stop \in Stop /\ stop.lane \in Lanes
        BY DEF TypeOK, Stop
      <4>2. subClosed' \in [Lanes -> SUBSET Tenants]
        BY <3>2, <4>1 DEF TypeOK, CloseSub
      <4>3. stop' \in Stop
        BY <3>2, <4>1 DEF CloseSub, Stop
      <4>4. QED
        BY <3>2, <4>2, <4>3 DEF TypeOK, CloseSub
    <3>3. CASE rootCancel \/ StopReturn
      BY <3>3 DEF TypeOK, rootCancel, StopReturn, Stop, laneState
    <3>4. QED
      BY <1>6, <3>1, <3>2, <3>3 DEF Stopping
  <2>3. QED
    BY <2>1, <2>2 DEF TypeOK
<1>7. CASE UNCHANGED vars
  BY <1>7 DEF vars, state, laneState, TypeOK
<1>8. QED
  BY <1>1, <1>2, <1>3, <1>4, <1>5, <1>6, <1>7, NextCases

-----------------------------------------------------------------------------
(* Every accepted request is in one place *)

\* Every step keeps the sub-queues and the queued requests the same.
LEMMA InLineStep ==
    ASSUME TypeOK, InLine, InHand, [Next]_vars
    PROVE  InLine'
<1>0. /\ queue \in [Lanes -> [Tenants -> Seq(Requests)]]
      /\ request \in [Requests -> RequestState]
      /\ \A l \in Lanes, t \in Tenants : Len(queue[l][t]) \in Nat
      /\ \A l \in Lanes, t \in Tenants : \A k \in 1 .. Len(queue[l][t]) :
            queue[l][t][k] \in Requests
  BY DEF TypeOK
<1>1. ASSUME UNCHANGED queue,
             \A r \in Requests : request'[r] = "queued" <=> request[r] = "queued"
      PROVE  InLine'
  BY <1>0, <1>1 DEF InLine, Waits
<1>2. ASSUME NEW r \in Requests, Submit(r)
      PROVE  InLine'
  BY <1>0, <1>1, <1>2 DEF Submit
<1>3. ASSUME NEW r \in Requests, Push(r)
      PROVE  InLine'
  <2>1. CASE UNCHANGED queue /\ request' = [request EXCEPT ![r] = "answered"]
    BY <2>1, <1>0, <1>1, <1>3, PushTyped
  <2>2. CASE ~(UNCHANGED queue /\ request' = [request EXCEPT ![r] = "answered"])
    <3>1. PICK l \in Lanes, t \in Tenants :
              /\ l = LaneOf[r]
              /\ t = TenantOf[r]
              /\ request[r] = "pushing"
              /\ queue' = [queue EXCEPT ![l][t] = Append(@, r)]
              /\ request' = [request EXCEPT ![r] = "queued"]
      BY <2>2, <1>3, PushTyped DEF Joins
    <3>2. /\ Len(queue'[l][t]) = Len(queue[l][t]) + 1
          /\ queue'[l][t][Len(queue[l][t]) + 1] = r
          /\ \A k \in 1 .. Len(queue[l][t]) : queue'[l][t][k] = queue[l][t][k]
          /\ \A m \in Lanes, u \in Tenants :
                m # l \/ u # t => queue'[m][u] = queue[m][u]
      BY <3>1, <1>0
    <3>3. \A m \in Lanes, u \in Tenants : \A k \in 1 .. Len(queue'[m][u]) :
              \/ k \in 1 .. Len(queue[m][u]) /\ queue'[m][u][k] = queue[m][u][k]
              \/ m = l /\ u = t /\ k = Len(queue[m][u]) + 1 /\ queue'[m][u][k] = r
      BY <3>2, <1>0
    <3>4. \A m \in Lanes, u \in Tenants : \A k \in 1 .. Len(queue[m][u]) :
              queue[m][u][k] # r
      BY <3>1 DEF InLine
    <3>5. \A m \in Lanes, u \in Tenants : \A k \in 1 .. Len(queue'[m][u]) :
              /\ request'[queue'[m][u][k]] = "queued"
              /\ LaneOf[queue'[m][u][k]] = m
              /\ TenantOf[queue'[m][u][k]] = u
      BY <3>1, <3>3, <1>0 DEF InLine
    <3>6. \A m \in Lanes, u \in Tenants : \A j, k \in 1 .. Len(queue'[m][u]) :
              queue'[m][u][j] = queue'[m][u][k] => j = k
      <4> TAKE m \in Lanes, u \in Tenants
      <4> TAKE j, k \in 1 .. Len(queue'[m][u])
      <4>1. CASE j \in 1 .. Len(queue[m][u]) /\ k \in 1 .. Len(queue[m][u])
        <5>1. queue'[m][u][j] = queue[m][u][j] /\ queue'[m][u][k] = queue[m][u][k]
          BY <4>1, <3>3, <1>0
        <5>2. queue[m][u][j] = queue[m][u][k] => j = k
          BY <4>1 DEF InLine
        <5>3. QED
          BY <5>1, <5>2
      <4>2. CASE j \notin 1 .. Len(queue[m][u]) /\ k \notin 1 .. Len(queue[m][u])
        BY <4>2, <3>3
      <4>3. CASE j \notin 1 .. Len(queue[m][u]) /\ k \in 1 .. Len(queue[m][u])
        <5>1. queue'[m][u][j] = r /\ queue'[m][u][k] = queue[m][u][k]
          BY <4>3, <3>3, <1>0
        <5>2. QED
          BY <4>3, <5>1, <3>4
      <4>4. CASE j \in 1 .. Len(queue[m][u]) /\ k \notin 1 .. Len(queue[m][u])
        <5>1. queue'[m][u][k] = r /\ queue'[m][u][j] = queue[m][u][j]
          BY <4>4, <3>3, <1>0
        <5>2. QED
          BY <4>4, <5>1, <3>4
      <4>5. QED
        BY <4>1, <4>2, <4>3, <4>4
    <3>7. ASSUME NEW q \in Requests, request'[q] = "queued"
          PROVE  \E k \in 1 .. Len(queue'[LaneOf[q]][TenantOf[q]]) :
                    queue'[LaneOf[q]][TenantOf[q]][k] = q
      <4>1. CASE q = r
        <5>1. Len(queue[l][t]) + 1 \in 1 .. Len(queue'[l][t])
          BY <3>2, <1>0
        <5>2. QED
          BY <4>1, <5>1, <3>1, <3>2
      <4>2. CASE q # r
        <5>1. LaneOf[q] \in Lanes /\ TenantOf[q] \in Tenants
          BY SchedulerAssumption
        <5>2. PICK k \in 1 .. Len(queue[LaneOf[q]][TenantOf[q]]) :
                  queue[LaneOf[q]][TenantOf[q]][k] = q
          BY <4>2, <3>1, <3>7, <1>0 DEF InLine, Waits
        <5>3. /\ k \in 1 .. Len(queue'[LaneOf[q]][TenantOf[q]])
              /\ queue'[LaneOf[q]][TenantOf[q]][k] = q
          <6>1. CASE LaneOf[q] = l /\ TenantOf[q] = t
            BY <6>1, <5>2, <3>2, <1>0
          <6>2. CASE LaneOf[q] # l \/ TenantOf[q] # t
            BY <6>2, <5>1, <5>2, <3>2
          <6>3. QED
            BY <6>1, <6>2
        <5>4. QED
          BY <5>3
      <4>3. QED
        BY <4>1, <4>2
    <3>8. QED
      BY <3>5, <3>6, <3>7 DEF InLine, Waits
  <2>3. QED
    BY <2>1, <2>2
<1>4. ASSUME NEW w \in Workers, Looks(w)
      PROVE  InLine'
  BY <1>4, <1>1, LooksTyped DEF laneState
<1>5. ASSUME NEW w \in Workers, NEW t \in Tenants, Take(w, t)
      PROVE  InLine'
  <2>0. PICK l \in Lanes, r \in Requests : Takes(w, t, l, r)
    BY <1>5, TakeTyped
  <2>1. /\ queue[l][t] \in Seq(Requests)
        /\ queue[l][t] # <<>>
        /\ r = queue[l][t][1]
        /\ queue' = [queue EXCEPT ![l][t] = Tail(@)]
        /\ request' = [request EXCEPT ![r] = "taken"]
    BY <2>0 DEF Takes
  <2>2. /\ Len(queue[l][t]) \in Nat \ {0}
        /\ Len(queue'[l][t]) = Len(queue[l][t]) - 1
        /\ \A k \in 1 .. Len(queue'[l][t]) :
              k + 1 \in 1 .. Len(queue[l][t]) /\ queue'[l][t][k] = queue[l][t][k + 1]
        /\ \A m \in Lanes, u \in Tenants :
              m # l \/ u # t => queue'[m][u] = queue[m][u]
        /\ 1 \in 1 .. Len(queue[l][t])
    BY <2>1, <1>0
  <2>3. request[r] = "queued" /\ LaneOf[r] = l /\ TenantOf[r] = t
    BY <2>1, <2>2 DEF InLine
  <2>4. \A m \in Lanes, u \in Tenants : \A k \in 1 .. Len(queue'[m][u]) :
            \E j \in 1 .. Len(queue[m][u]) :
                /\ queue'[m][u][k] = queue[m][u][j]
                /\ queue[m][u][j] # r
                /\ j = IF m = l /\ u = t THEN k + 1 ELSE k
    <3> TAKE m \in Lanes, u \in Tenants
    <3> TAKE k \in 1 .. Len(queue'[m][u])
    <3>1. CASE m = l /\ u = t
      <4>1. k + 1 # 1 /\ k + 1 \in 1 .. Len(queue[l][t]) /\ queue'[l][t][k] = queue[l][t][k + 1]
        BY <3>1, <2>2
      <4>2. queue[l][t][k + 1] # queue[l][t][1]
        BY <4>1, <2>2 DEF InLine
      <4>3. QED
        BY <3>1, <4>1, <4>2, <2>1
    <3>2. CASE m # l \/ u # t
      BY <3>2, <2>2, <2>3 DEF InLine
    <3>3. QED
      BY <3>1, <3>2
  <2>5. \A m \in Lanes, u \in Tenants : \A k \in 1 .. Len(queue'[m][u]) :
            /\ request'[queue'[m][u][k]] = "queued"
            /\ LaneOf[queue'[m][u][k]] = m
            /\ TenantOf[queue'[m][u][k]] = u
    BY <2>1, <2>4, <1>0 DEF InLine
  <2>6. \A m \in Lanes, u \in Tenants : \A j, k \in 1 .. Len(queue'[m][u]) :
            queue'[m][u][j] = queue'[m][u][k] => j = k
    <3> TAKE m \in Lanes, u \in Tenants
    <3> TAKE j, k \in 1 .. Len(queue'[m][u])
    <3>1. CASE m = l /\ u = t
      BY <3>1, <2>2 DEF InLine
    <3>2. CASE m # l \/ u # t
      BY <3>2, <2>2 DEF InLine
    <3>3. QED
      BY <3>1, <3>2
  <2>7. ASSUME NEW q \in Requests, request'[q] = "queued"
        PROVE  \E k \in 1 .. Len(queue'[LaneOf[q]][TenantOf[q]]) :
                  queue'[LaneOf[q]][TenantOf[q]][k] = q
    <3>1. q # r /\ request[q] = "queued" /\ LaneOf[q] \in Lanes /\ TenantOf[q] \in Tenants
      BY <2>1, <2>7, <1>0, SchedulerAssumption
    <3>2. PICK k \in 1 .. Len(queue[LaneOf[q]][TenantOf[q]]) :
              queue[LaneOf[q]][TenantOf[q]][k] = q
      BY <3>1 DEF InLine, Waits
    <3>3. CASE LaneOf[q] = l /\ TenantOf[q] = t
      <4>1. k # 1 /\ k \in 1 .. Len(queue[l][t])
        BY <3>1, <3>2, <3>3, <2>1
      <4>2. k - 1 \in 1 .. Len(queue'[l][t]) /\ (k - 1) + 1 = k
        BY <4>1, <2>2
      <4>3. queue'[l][t][k - 1] = q
        BY <4>2, <3>2, <3>3, <2>2
      <4>4. QED
        BY <4>2, <4>3, <3>3
    <3>4. CASE LaneOf[q] # l \/ TenantOf[q] # t
      BY <3>4, <3>1, <3>2, <2>2
    <3>5. QED
      BY <3>3, <3>4
  <2>8. QED
    BY <2>5, <2>6, <2>7 DEF InLine, Waits
<1>6. ASSUME NEW w \in Workers, Acquire(w) \/ AbandonEntry(w) \/ Finish(w)
      PROVE  InLine'
  <2>1. UNCHANGED queue
    BY <1>6, DispatchTyped DEF laneState
  <2>2. worker[w].req \in Requests /\ request[worker[w].req] # "queued"
    BY <1>6, DispatchTyped DEF InHand
  <2>3. \A r \in Requests : request'[r] = "queued" <=> request[r] = "queued"
    BY <1>6, <2>2, <1>0, DispatchTyped
  <2>4. QED
    BY <2>1, <2>3, <1>1
<1>7. CASE Stopping
  BY <1>7, <1>1, StoppingLeaves
<1>8. CASE UNCHANGED vars
  BY <1>8, <1>1 DEF vars, state, laneState
<1>9. QED
  BY <1>2, <1>3, <1>4, <1>5, <1>6, <1>7, <1>8, NextCases

\* Every step keeps the dispatchers' hands and the requests in hand the same.
LEMMA InHandStep ==
    ASSUME TypeOK, InLine, InHand, [Next]_vars
    PROVE  InHand'
<1>0. /\ request \in [Requests -> RequestState]
      /\ None \notin Requests
  BY SchedulerAssumption DEF TypeOK
<1>1. ASSUME UNCHANGED worker,
             \A r \in Requests :
                request'[r] = request[r] \/ {request[r], request'[r]} \cap {"taken", "running"} = {}
      PROVE  InHand'
  BY <1>0, <1>1 DEF InHand
<1>2. ASSUME NEW r \in Requests, Submit(r)
      PROVE  InHand'
  BY <1>0, <1>1, <1>2 DEF Submit
<1>3. ASSUME NEW r \in Requests, Push(r)
      PROVE  InHand'
  BY <1>0, <1>1, <1>3, PushTyped DEF Joins
<1>4. ASSUME NEW w \in Workers, Looks(w)
      PROVE  InHand'
  BY <1>0, <1>4, LooksTyped DEF InHand
<1>5. ASSUME NEW w \in Workers, NEW t \in Tenants, Take(w, t)
      PROVE  InHand'
  <2>1. PICK l \in Lanes, r \in Requests : Takes(w, t, l, r)
    BY <1>5, TakeTyped
  <2>2. 1 \in 1 .. Len(queue[l][t])
    BY <2>1 DEF Takes
  <2>3. request[r] = "queued"
    BY <2>1, <2>2 DEF InLine, Takes
  <2>4. /\ worker'[w].pc = "acquire"
        /\ worker'[w].req = r
        /\ worker[w].req = None
        /\ \A v \in Workers \ {w} : worker'[v] = worker[v]
        /\ request' = [request EXCEPT ![r] = "taken"]
    BY <2>1 DEF Takes, InHand
  <2>5. \A v \in Workers : worker[v].req # r
    BY <2>3, <1>0 DEF InHand
  <2>6. QED
    BY <2>3, <2>4, <2>5, <1>0 DEF InHand
<1>6. ASSUME NEW w \in Workers, Acquire(w) \/ AbandonEntry(w) \/ Finish(w)
      PROVE  InHand'
  <2> DEFINE r == worker[w].req
  <2>1. /\ r \in Requests
        /\ \A v \in Workers \ {w} : worker'[v] = worker[v] /\ worker[v].req # r
    BY <1>6, <1>0, DispatchTyped DEF InHand
  <2>2. CASE Acquire(w)
    <3>1. /\ worker'[w].pc = "run"
          /\ worker'[w].req = r
          /\ request' = [request EXCEPT ![r] = "running"]
      BY <2>2, DispatchTyped
    <3>2. QED
      BY <3>1, <2>1, <1>0 DEF InHand
  <2>3. CASE AbandonEntry(w) \/ Finish(w)
    <3>1. /\ worker'[w].pc = "top"
          /\ worker'[w].req = None
          /\ \E a \in {"dropped", "answered"} : request' = [request EXCEPT ![r] = a]
      BY <2>3, DispatchTyped
    <3>2. QED
      BY <3>1, <2>1, <1>0 DEF InHand
  <2>4. QED
    BY <1>6, <2>2, <2>3
<1>7. CASE Stopping
  BY <1>7, <1>1, StoppingLeaves
<1>8. CASE UNCHANGED vars
  BY <1>8, <1>1 DEF vars, state
<1>9. QED
  BY <1>2, <1>3, <1>4, <1>5, <1>6, <1>7, <1>8, NextCases

-----------------------------------------------------------------------------
(* The shutdown *)

\* Every step keeps the order of the shutdown.
LEMMA ClosingStep ==
    ASSUME TypeOK, InLine, InHand, Closing, [Next]_vars
    PROVE  Closing'
<1>0. /\ request \in [Requests -> RequestState]
      /\ known \in [Lanes -> SUBSET Tenants]
      /\ subClosed \in [Lanes -> SUBSET Tenants]
      /\ laneClosed \in [Lanes -> BOOLEAN]
      /\ stop \in Stop
      /\ stop.lane \in Lanes
      /\ Lanes = {"interactive", "batch"}
  BY DEF TypeOK, Lanes, Stop
<1>1. ASSUME UNCHANGED <<known, laneClosed, subClosed, stop>>,
             \A r \in Requests : request'[r] = "pushing" => request[r] = "pushing",
             \A w \in Workers : worker[w].pc = "exited" => worker'[w].pc = "exited"
      PROVE  Closing'
  BY <1>0, <1>1 DEF Closing
<1>2. ASSUME NEW r \in Requests, Submit(r)
      PROVE  Closing'
  <2>1. PICK l \in Lanes, t \in Tenants :
            /\ l = LaneOf[r]
            /\ t = TenantOf[r]
            /\ ~laneClosed[l]
            /\ known' = [known EXCEPT ![l] = @ \cup {t}]
            /\ request' = [request EXCEPT ![r] = "pushing"]
            /\ UNCHANGED <<laneClosed, subClosed, worker, stop>>
    BY <1>2, SchedulerAssumption DEF Submit
  <2>2. /\ t \in known'[l]
        /\ \A m \in Lanes : known[m] \subseteq known'[m]
        /\ \A m \in Lanes \ {l} : known'[m] = known[m]
    BY <2>1, <1>0
  <2>3. \A q \in Requests : request'[q] = "pushing" => TenantOf[q] \in known'[LaneOf[q]]
    BY <2>1, <2>2, <1>0, SchedulerAssumption DEF Closing
  <2>4. \A m \in Lanes : laneClosed[m] => known'[m] = known[m]
    BY <2>1, <2>2
  <2>5. QED
    BY <2>1, <2>3, <2>4 DEF Closing
<1>3. ASSUME NEW r \in Requests, Push(r)
      PROVE  Closing'
  BY <1>0, <1>1, <1>3, PushTyped DEF Joins
<1>4. ASSUME NEW w \in Workers, Looks(w)
      PROVE  Closing'
  BY <1>1, <1>4, LooksTyped DEF laneState
<1>5. ASSUME NEW w \in Workers, NEW t \in Tenants, Take(w, t)
      PROVE  Closing'
  <2>1. PICK l \in Lanes, r \in Requests : Takes(w, t, l, r)
    BY <1>5, TakeTyped
  <2>2. QED
    BY <2>1, <1>0, <1>1 DEF Takes
<1>6. ASSUME NEW w \in Workers, Acquire(w) \/ AbandonEntry(w) \/ Finish(w)
      PROVE  Closing'
  BY <1>0, <1>1, <1>6, DispatchTyped DEF laneState
<1>7. CASE StopBegin
  BY <1>7, <1>0 DEF StopBegin, CloseLane, Closing
<1>8. ASSUME NEW t \in Tenants, CloseSub(t)
      PROVE  Closing'
  <2>1. /\ UNCHANGED <<known, laneClosed, request, worker>>
        /\ stop'.pc = "closing"
        /\ stop.pc = "closing"
        /\ stop'.lane = stop.lane
        /\ stop'.todo = stop.todo \ {t}
        /\ subClosed'[stop.lane] = subClosed[stop.lane] \cup {t}
        /\ \A l \in Lanes \ {stop.lane} : subClosed'[l] = subClosed[l]
    BY <1>8, <1>0 DEF CloseSub, Stop
  <2>2. QED
    BY <2>1, <1>0 DEF Closing
<1>9. CASE CloseBatch
  BY <1>9, <1>0 DEF CloseBatch, CloseLane, Closing
<1>10. CASE rootCancel
  <2>1. /\ UNCHANGED <<known, laneClosed, subClosed, request, worker>>
        /\ stop'.pc = "waiting"
        /\ stop'.lane = stop.lane
    BY <1>10, <1>0 DEF rootCancel, laneState, Stop
  <2>2. QED
    BY <2>1, <1>10, <1>0 DEF rootCancel, Closing
<1>11. CASE StopReturn
  <2>1. /\ UNCHANGED <<known, laneClosed, subClosed, request, worker>>
        /\ stop'.pc = "stopped"
        /\ stop'.lane = stop.lane
    BY <1>11, <1>0 DEF StopReturn, laneState, Stop
  <2>2. QED
    BY <2>1, <1>11, <1>0 DEF StopReturn, Closing
<1>12. CASE UNCHANGED vars
  BY <1>12, <1>1 DEF vars, state, laneState
<1>13. QED
  BY <1>2, <1>3, <1>4, <1>5, <1>6, <1>7, <1>8, <1>9, <1>10, <1>11, <1>12, NextCases
     DEF Stopping

-----------------------------------------------------------------------------
(* The theorems *)

\* The inductive invariant holds in every reachable state.
LEMMA Inductive == Spec => []SchedulerInv
<1>1. Init => SchedulerInv
  <2> SUFFICES ASSUME Init
               PROVE  SchedulerInv
    OBVIOUS
  <2>1. TypeOK
    <3>1. queue \in [Lanes -> [Tenants -> Seq(Requests)]] /\ load \in Loads
      BY DEF Init
    <3>2. known \in [Lanes -> SUBSET Tenants] /\ subClosed \in [Lanes -> SUBSET Tenants]
      BY DEF Init
    <3>3. worker \in [Workers -> Worker]
      BY DEF Init, Worker, WorkerPc, Lanes
    <3>4. slots \in [Deployments -> Nat] /\ request \in [Requests -> RequestState]
      BY DEF Init, RequestState
    <3>5. stop \in Stop /\ laneClosed \in [Lanes -> BOOLEAN]
      BY DEF Init, Stop, Lanes
    <3>6. QED
      BY <3>1, <3>2, <3>3, <3>4, <3>5 DEF TypeOK
  <2>2. InLine
    BY SchedulerAssumption DEF Init, InLine
  <2>3. InHand
    BY SchedulerAssumption DEF Init, InHand
  <2>4. InFlightBound
    <3>1. \A d \in Deployments :
              {r \in Requests : request[r] = "running" /\ DeploymentOf[r] = d} = {}
      BY DEF Init
    <3>2. \A d \in Deployments :
              Cardinality({r \in Requests :
                  request[r] = "running" /\ DeploymentOf[r] = d}) = 0
      BY <3>1, FS_EmptySet
    <3>3. InFlightCap \in Nat /\ \A d \in Deployments : slots[d] = 0
      BY SchedulerAssumption DEF Init
    <3>4. QED
      BY <3>2, <3>3 DEF InFlightBound
  <2>5. Closing
    BY DEF Init, Closing, Lanes
  <2>6. QED
    BY <2>1, <2>2, <2>3, <2>4, <2>5 DEF SchedulerInv
<1>2. SchedulerInv /\ [Next]_vars => SchedulerInv'
  BY TypeStep, InLineStep, InHandStep, InFlightStep, ClosingStep DEF SchedulerInv
<1>3. QED
  BY <1>1, <1>2, PTL DEF Spec

\* No sub-queue is longer than there are requests: its entries are distinct.
LEMMA LineFits ==
    ASSUME TypeOK, InLine, NEW l \in Lanes, NEW t \in Tenants
    PROVE  /\ Len(queue[l][t]) \in Nat
           /\ Len(queue[l][t]) <= Cardinality(Requests)
           /\ Cardinality(Requests) \in Nat
<1> DEFINE n == Len(queue[l][t])
<1>1. queue[l][t] \in Seq(Requests) /\ n \in Nat
  BY DEF TypeOK
<1>2. queue[l][t] \in [1 .. n -> Requests]
  BY <1>1
<1>3. \A j, k \in 1 .. n : queue[l][t][j] = queue[l][t][k] => j = k
  BY DEF InLine
<1>4. queue[l][t] \in Injection(1 .. n, Requests)
  BY <1>2, <1>3 DEF Injection, IsInjective
<1>5. Cardinality(1 .. n) <= Cardinality(Requests)
  BY <1>4, SchedulerAssumption, FS_Injection
<1>6. Cardinality(1 .. n) = n
  BY <1>1, FS_Interval
<1>7. QED
  BY <1>1, <1>5, <1>6, SchedulerAssumption, FS_CardinalityType

\* An accepted request is in one position of its own sub-queue or with one
\* dispatcher.
LEMMA OnePlace ==
    ASSUME TypeOK, InLine, InHand
    PROVE  ExactlyOnce
<1> SUFFICES ASSUME NEW r \in Requests
             PROVE  /\ Cardinality(Positions(r)) = (IF request[r] = "queued" THEN 1 ELSE 0)
                    /\ \A p \in Positions(r) : p[1] = LaneOf[r] /\ p[2] = TenantOf[r]
                    /\ Cardinality(Holders(r)) =
                          (IF request[r] \in {"taken", "running"} THEN 1 ELSE 0)
  BY DEF ExactlyOnce
<1>1. /\ LaneOf[r] \in Lanes
      /\ TenantOf[r] \in Tenants
      /\ None \notin Requests
  BY SchedulerAssumption
<1>2. ASSUME NEW p \in Positions(r)
      PROVE  /\ p[1] = LaneOf[r]
             /\ p[2] = TenantOf[r]
             /\ request[r] = "queued"
             /\ p \in Lanes \X Tenants \X Nat
             /\ p[3] \in 1 .. Len(queue[LaneOf[r]][TenantOf[r]])
             /\ queue[LaneOf[r]][TenantOf[r]][p[3]] = r
  <2>1. /\ p[1] \in Lanes
        /\ p[2] \in Tenants
        /\ p[3] \in Nat
        /\ p \in Lanes \X Tenants \X Nat
        /\ p[3] \in 1 .. Len(queue[p[1]][p[2]])
        /\ queue[p[1]][p[2]][p[3]] = r
    BY LineFits DEF Positions
  <2>2. QED
    BY <2>1 DEF InLine
<1>3. CASE request[r] = "queued"
  <2>1. PICK k \in 1 .. Len(queue[LaneOf[r]][TenantOf[r]]) :
            queue[LaneOf[r]][TenantOf[r]][k] = r
    BY <1>3 DEF InLine, Waits
  <2>2. k \in 1 .. Cardinality(Requests)
    BY <1>1, <2>1, LineFits
  <2>3. <<LaneOf[r], TenantOf[r], k>> \in Positions(r)
    BY <1>1, <2>1, <2>2 DEF Positions
  <2>4. \A p \in Positions(r) : p[3] = k
    BY <1>1, <1>2, <2>1 DEF InLine
  <2>5. \A p \in Positions(r) : p = <<LaneOf[r], TenantOf[r], k>>
    BY <1>2, <2>4
  <2>6. Positions(r) = {<<LaneOf[r], TenantOf[r], k>>}
    BY <2>3, <2>5
  <2>7. Cardinality(Positions(r)) = 1
    BY <2>6, FS_Singleton
  <2>8. Holders(r) = {}
    BY <1>3, <1>1 DEF Holders, InHand
  <2>9. QED
    BY <1>2, <1>3, <2>7, <2>8, FS_EmptySet
<1>4. CASE request[r] # "queued"
  <2>1. Positions(r) = {}
    BY <1>2, <1>4
  <2>2. CASE request[r] \in {"taken", "running"}
    <3>1. PICK w \in Workers : worker[w].req = r
      BY <2>2 DEF InHand
    <3>2. Holders(r) = {w}
      BY <3>1, <1>1 DEF Holders, InHand
    <3>3. QED
      BY <3>2, <2>1, <2>2, <1>2, <1>4, FS_EmptySet, FS_Singleton
  <2>3. CASE request[r] \notin {"taken", "running"}
    <3>1. Holders(r) = {}
      BY <2>3, <1>1 DEF Holders, InHand
    <3>2. QED
      BY <3>1, <2>1, <2>3, <1>2, <1>4, FS_EmptySet
  <2>4. QED
    BY <2>2, <2>3
<1>5. QED
  BY <1>3, <1>4

\* Whatever submits, scans, lotteries, pops and shutdowns race
\* (internal/scheduler/interactive_first.go), every accepted request is in
\* exactly one place, and the slots a deployment has taken are those of its
\* requests in flight, within the cap.
THEOREM LanesCorrect == Spec => []LaneSafe
<1>1. SchedulerInv => LaneSafe
  BY OnePlace DEF SchedulerInv, LaneSafe
<1>2. QED
  BY <1>1, Inductive, PTL

\* A submit that found its lane open and is still on its way when Stop returns
\* is refused by its sub-queue, and no handler runs any more.
THEOREM StopIsFinal == Spec => NothingAfterStop
<1> DEFINE After == stop.pc = "stopped" =>
        \A r \in Requests :
            /\ request'[r] = "queued" => request[r] = "queued"
            /\ request[r] # "running"
<1>1. ASSUME SchedulerInv, [Next]_vars
      PROVE  [After]_vars
  <2> SUFFICES ASSUME Next, stop.pc = "stopped", NEW r \in Requests
               PROVE  /\ request'[r] = "queued" => request[r] = "queued"
                      /\ request[r] # "running"
    BY <1>1
  <2> USE <1>1 DEF SchedulerInv
  <2>1. \A w \in Workers : worker[w].pc = "exited" /\ worker[w].req = None
    BY DEF Closing, InHand
  <2>2. request[r] # "running"
    BY <2>1, SchedulerAssumption DEF InHand
  <2>3. \A l \in Lanes : known[l] \subseteq subClosed[l]
    BY DEF Closing, Lanes
  <2>4. request \in [Requests -> RequestState]
    BY DEF TypeOK
  <2>5. ASSUME NEW q \in Requests, Submit(q) \/ Push(q)
        PROVE  request'[r] = "queued" => request[r] = "queued"
    <3>1. CASE Submit(q)
      BY <3>1, <2>4 DEF Submit
    <3>2. CASE Push(q)
      <4>1. TenantOf[q] \in subClosed[LaneOf[q]]
        BY <3>2, <2>3, SchedulerAssumption DEF Push, Closing
      <4>2. QED
        BY <4>1, <3>2, <2>4 DEF Push
    <3>3. QED
      BY <2>5, <3>1, <3>2
  <2>6. ASSUME NEW w \in Workers
        PROVE  ~WorkerStep(w)
    BY <2>1 DEF WorkerStep, Top, TryBatch, Scan, Take, LoseRace, FindNothing, Acquire,
                AbandonEntry, Finish, WakeUp
  <2>7. ASSUME Stopping
        PROVE  request'[r] = "queued" => request[r] = "queued"
    BY <2>7, StoppingLeaves
  <2>8. (\E q \in Requests : Submit(q) \/ Push(q)) \/ Stopping
    BY <2>6 DEF Next
  <2>9. QED
    BY <2>2, <2>5, <2>7, <2>8
<1>2. QED
  BY <1>1, Inductive, PTL DEF Spec, NothingAfterStop

-----------------------------------------------------------------------------
(* The lanes implement the abstract backlog *)

Line == [c \in SubQueues |-> queue[c[1]][c[2]]]

Serving == {r \in Requests : request[r] \in {"taken", "running"}}

\* A step that leaves the sub-queues and the requests in hand alone is no step
\* of the backlog.
LEMMA BacklogStutters ==
    ASSUME UNCHANGED queue, Serving' = Serving
    PROVE  UNCHANGED B!vars
  BY DEF B!vars, Serving

\* The backlog's next-state relation over this module's sub-queues.
LEMMA BacklogNext ==
    /\ \A r \in Requests : B!Accept(r) => B!Next
    /\ \A r \in Requests : B!Finish(r) => B!Next
    /\ \A c \in SubQueues : B!TakeUp(c) => B!Next
  BY DEF B!Next

\* A sub-queue that takes a request is a line that accepts an item; a pop is an
\* item taken up; the end of a handler, and an entry abandoned at a shutdown,
\* an item finished.  Every other step leaves the backlog alone.
LEMMA BacklogStep ==
    ASSUME SchedulerInv, [Next]_vars
    PROVE  [B!Next]_(B!vars)
<1> USE DEF SchedulerInv
<1>0. /\ queue \in [Lanes -> [Tenants -> Seq(Requests)]]
      /\ request \in [Requests -> RequestState]
  BY DEF TypeOK
<1>1. ASSUME NEW r \in Requests, Submit(r)
      PROVE  UNCHANGED B!vars
  <2>1. Serving' = Serving
    BY <1>0, <1>1 DEF Submit, Serving
  <2>2. QED
    BY <1>1, <2>1, BacklogStutters DEF Submit
<1>2. ASSUME NEW r \in Requests, Push(r)
      PROVE  UNCHANGED B!vars \/ B!Accept(r)
  <2>1. Serving' = Serving /\ r \notin Serving
    BY <1>0, <1>2, PushTyped DEF Serving, Joins
  <2>2. CASE UNCHANGED queue
    BY <2>1, <2>2, BacklogStutters
  <2>3. CASE Joins(r, LaneOf[r], TenantOf[r])
    <3>1. PICK l \in Lanes, t \in Tenants :
              /\ l = LaneOf[r]
              /\ t = TenantOf[r]
              /\ request[r] = "pushing"
              /\ Len(queue[l][t]) < Capacity[l]
              /\ queue' = [queue EXCEPT ![l][t] = Append(@, r)]
      BY <1>2, <2>3, PushTyped DEF Joins
    <3>2. /\ SubQueueOf[r] = <<l, t>>
          /\ <<l, t>> \in SubQueues
          /\ Line[<<l, t>>] = queue[l][t]
          /\ SubQueueRoom[<<l, t>>] = Capacity[l]
      BY <3>1 DEF SubQueueOf, SubQueues, Line, SubQueueRoom
    <3>3. \A k \in 1 .. Len(queue[l][t]) : queue[l][t][k] # r
      BY <3>1 DEF InLine
    <3>4. Line' = [Line EXCEPT ![<<l, t>>] = Append(@, r)]
      <4>1. \A c \in SubQueues : c[1] \in Lanes /\ c[2] \in Tenants /\ c = <<c[1], c[2]>>
        BY DEF SubQueues
      <4>2. \A c \in SubQueues : Line'[c] =
                IF c = <<l, t>> THEN Append(queue[l][t], r) ELSE Line[c]
        BY <4>1, <3>1, <3>2, <1>0 DEF Line
      <4>3. QED
        BY <4>2, <3>2 DEF Line
    <3>5. QED
      BY <3>1, <3>2, <3>3, <3>4, <2>1 DEF B!Accept, B!IsWaiting, Line, Serving
  <2>4. QED
    BY <1>2, <2>2, <2>3, PushTyped
<1>3. ASSUME NEW w \in Workers, Looks(w)
      PROVE  UNCHANGED B!vars
  <2>1. UNCHANGED <<queue, request>>
    BY <1>3, LooksTyped DEF laneState
  <2>2. QED
    BY <2>1, BacklogStutters DEF Serving
<1>4. ASSUME NEW w \in Workers, NEW t \in Tenants, Take(w, t)
      PROVE  \E c \in SubQueues : B!TakeUp(c)
  <2>1. PICK l \in Lanes, r \in Requests : Takes(w, t, l, r)
    BY <1>4, TakeTyped
  <2>2. /\ queue[l][t] \in Seq(Requests)
        /\ queue[l][t] # <<>>
        /\ r = Head(queue[l][t])
        /\ queue' = [queue EXCEPT ![l][t] = Tail(@)]
        /\ request' = [request EXCEPT ![r] = "taken"]
    BY <2>1 DEF Takes
  <2>3. Serving' = Serving \cup {r}
    BY <2>2, <1>0 DEF Serving
  <2>4. <<l, t>> \in SubQueues /\ Line[<<l, t>>] = queue[l][t]
    BY DEF SubQueues, Line
  <2>5. Line' = [Line EXCEPT ![<<l, t>>] = Tail(@)]
    <3>1. \A c \in SubQueues : c[1] \in Lanes /\ c[2] \in Tenants /\ c = <<c[1], c[2]>>
      BY DEF SubQueues
    <3>2. \A c \in SubQueues : Line'[c] =
              IF c = <<l, t>> THEN Tail(queue[l][t]) ELSE Line[c]
      BY <3>1, <2>2, <1>0 DEF Line
    <3>3. QED
      BY <3>2, <2>4 DEF Line
  <2>6. B!TakeUp(<<l, t>>)
    BY <2>2, <2>3, <2>4, <2>5 DEF B!TakeUp, Line, Serving
  <2>7. QED
    BY <2>4, <2>6
<1>5. ASSUME NEW w \in Workers, Acquire(w)
      PROVE  UNCHANGED B!vars
  <2>1. Serving' = Serving
    BY <1>0, <1>5, DispatchTyped DEF InHand, Serving
  <2>2. UNCHANGED queue
    BY <1>5, DispatchTyped DEF laneState
  <2>3. QED
    BY <2>1, <2>2, BacklogStutters
<1>6. ASSUME NEW w \in Workers, AbandonEntry(w) \/ Finish(w)
      PROVE  \E r \in Requests : B!Finish(r)
  <2>1. PICK r \in Requests :
            /\ r = worker[w].req
            /\ request[r] \in {"taken", "running"}
    BY <1>6, DispatchTyped DEF InHand
  <2>2. PICK a \in {"dropped", "answered"} : request' = [request EXCEPT ![r] = a]
    BY <1>6, <2>1, DispatchTyped
  <2>3. r \in Serving /\ Serving' = Serving \ {r}
    BY <2>1, <2>2, <1>0 DEF Serving
  <2>4. UNCHANGED queue
    BY <1>6, DispatchTyped DEF laneState
  <2>5. B!Finish(r)
    BY <2>3, <2>4 DEF B!Finish, Serving
  <2>6. QED
    BY <2>5
<1>7. CASE Stopping
  BY <1>7, StoppingLeaves, BacklogStutters DEF Serving
<1>8. CASE UNCHANGED vars
  BY <1>8, BacklogStutters DEF vars, state, laneState, Serving
<1>9. QED
  BY <1>1, <1>2, <1>3, <1>4, <1>5, <1>6, <1>7, <1>8, NextCases, BacklogNext

\* The scheduler with its lanes, per-tenant sub-queues and racing dispatchers
\* is a bounded backlog: every sub-queue is served oldest first, and an
\* accepted request is taken up once.
THEOREM SchedulerRefines == Spec => ImplementsBacklog
<1>1. Init => B!Init
  BY DEF Init, B!Init, SubQueues
<1>2. QED
  BY <1>1, BacklogStep, Inductive, PTL DEF Spec, ImplementsBacklog, B!Spec

\* What a submitter relies on: a bounded backlog that accepts nothing behind a
\* Stop that has returned.
THEOREM QueueContractHolds == Spec => QueueContract
<1>1. QueueContract <=> NothingAfterStop /\ ImplementsBacklog
  BY DEF QueueContract
<1>2. QED
  BY <1>1, StopIsFinal, SchedulerRefines, PTL

=============================================================================
