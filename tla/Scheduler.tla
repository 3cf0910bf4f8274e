----------------------------- MODULE Scheduler -----------------------------
(***************************************************************************)
(* The data path from the router's queue to the engine: the               *)
(* InteractiveFirst scheduler (internal/scheduler), its lanes of           *)
(* per-tenant bounded queues (internal/stores/queue/inmem), the dispatcher *)
(* goroutines, the per-deployment in-flight slots, and the HTTP handlers   *)
(* that submit a request and wait for it (internal/router/queue.go).       *)
(*                                                                         *)
(* A step is what happens under one lock.  A lane's scan reads the         *)
(* sub-queues one by one while other goroutines push and pop, the lottery  *)
(* and the pop come after the lane lock is released, and a push reaches    *)
(* its sub-queue after the lane lock is released.                          *)
(***************************************************************************)
EXTENDS Naturals, Sequences, FiniteSets

CONSTANTS
    Requests,      \* HTTP requests: a client sends the next when one is answered
    Tenants,
    Deployments,
    Workers,       \* dispatcher goroutines
    Loads,         \* what may go on: see load
    None,          \* no request
    LaneOf,        \* request -> lane, by its effective priority
    TenantOf,      \* request -> tenant
    DeploymentOf,  \* request -> deployment
    Capacity,      \* lane -> waiting room of every sub-queue
    InFlightCap    \* slots per deployment, 0 for unlimited

Lanes == {"interactive", "batch"}

ASSUME SchedulerAssumption ==
    /\ IsFiniteSet(Requests)
    /\ None \notin Requests
    /\ Loads \subseteq [sends : SUBSET Requests, stops : BOOLEAN]
    /\ LaneOf \in [Requests -> Lanes]
    /\ TenantOf \in [Requests -> Tenants]
    /\ DeploymentOf \in [Requests -> Deployments]
    /\ Capacity \in [Lanes -> Nat \ {0}]
    /\ InFlightCap \in Nat

VARIABLES
    load,       \* requests that clients send, over and over; Stop may be called
    queue,      \* lane -> tenant -> the waiting entries, oldest first
    known,      \* lane -> tenants whose sub-queue exists
    laneClosed, \* lane -> laneState.closed
    subClosed,  \* lane -> tenants whose sub-queue is closed
    request,    \* where each request is
    worker,     \* what each dispatcher is doing
    slots,      \* deployment -> in-flight slots taken
    stop        \* progress of Stop

\* The two lanes: a sub-queue for every tenant that has sent something.
laneState == <<queue, known, laneClosed, subClosed>>

\* load is chosen in Init and never changes.
state == <<laneState, request, worker, slots, stop>>

vars == <<load, state>>

RequestState == {"answered", "pushing", "queued", "taken", "running", "dropped"}

WorkerPc == {"top", "scan", "batch", "acquire", "run", "idle", "exited"}

Worker ==
    [pc    : WorkerPc,
     lane  : Lanes,
     todo  : SUBSET Tenants,   \* sub-queues the scan has not read yet
     cands : SUBSET Tenants,   \* sub-queues the scan saw entries in
     shut  : BOOLEAN,          \* laneState.closed as the scan read it
     open  : SUBSET Lanes,     \* interactiveOpen, batchOpen
     req   : Requests \cup {None}]

\* interactive.close(), batch.close(), rootCancel(), wg.Wait().
Stop == [pc : {"no", "closing", "waiting", "stopped"},
         lane : Lanes,
         todo : SUBSET Tenants]    \* sub-queues of the lane still to be closed

rootCancelled == stop.pc \in {"waiting", "stopped"}

Init ==
    /\ load \in Loads
    /\ queue = [l \in Lanes |-> [t \in Tenants |-> <<>>]]
    /\ known = [l \in Lanes |-> {}]
    /\ laneClosed = [l \in Lanes |-> FALSE]
    /\ subClosed = [l \in Lanes |-> {}]
    /\ request = [r \in Requests |-> "answered"]
    /\ worker = [w \in Workers |->
                   [pc |-> "top", lane |-> "interactive", todo |-> {}, cands |-> {},
                    shut |-> FALSE, open |-> Lanes, req |-> None]]
    /\ slots = [d \in Deployments |-> 0]
    /\ stop = [pc |-> "no", lane |-> "interactive", todo |-> {}]

-----------------------------------------------------------------------------
(* The HTTP handler: enqueueOrServe, Submit, laneState.push *)

\* Under the lane lock: find or create the tenant's sub-queue.  A closed lane
\* answers 503, and the request is as answered as before.
Submit(r) ==
    LET l == LaneOf[r] IN
    /\ r \in load.sends
    /\ request[r] = "answered"
    /\ ~laneClosed[l]
    /\ known' = [known EXCEPT ![l] = @ \cup {TenantOf[r]}]
    /\ request' = [request EXCEPT ![r] = "pushing"]
    /\ UNCHANGED <<load, queue, laneClosed, subClosed, worker, slots, stop>>

\* Under the sub-queue lock: 503 when it is closed or full.
Push(r) ==
    LET l == LaneOf[r]
        t == TenantOf[r]
    IN
    /\ request[r] = "pushing"
    /\ IF t \in subClosed[l] \/ Len(queue[l][t]) >= Capacity[l]
       THEN /\ request' = [request EXCEPT ![r] = "answered"]
            /\ UNCHANGED queue
       ELSE /\ queue' = [queue EXCEPT ![l][t] = Append(@, r)]
            /\ request' = [request EXCEPT ![r] = "queued"]
    /\ UNCHANGED <<load, known, laneClosed, subClosed, worker, slots, stop>>

-----------------------------------------------------------------------------
(* The dispatcher: workerLoop, laneState.tryPop, dispatch *)

Become(w, p, o, r) ==
    worker' = [worker EXCEPT ![w] =
                 [@ EXCEPT !.pc = p, !.open = o, !.req = r,
                           !.todo = {}, !.cands = {}, !.shut = FALSE]]

BeginScan(w, l) ==
    worker' = [worker EXCEPT ![w] =
                 [@ EXCEPT !.pc = "scan", !.lane = l, !.todo = known[l],
                           !.cands = {}, !.shut = laneClosed[l]]]

\* What follows a lane that gave nothing: the batch lane, the end of the loop
\* when both lanes are done, or the idle backoff.
GiveUp(w, l, o) ==
    Become(w, IF l = "interactive" /\ "batch" \in o THEN "batch"
              ELSE IF o = {} THEN "exited" ELSE "idle", o, None)

\* Mutant: the lanes change places.
Top_BatchFirst(w) ==
    /\ worker[w].pc = "top"
    /\ IF rootCancelled THEN Become(w, "exited", worker[w].open, None)
       ELSE IF "batch" \in worker[w].open THEN BeginScan(w, "batch")
       ELSE BeginScan(w, "interactive")
    /\ UNCHANGED <<load, laneState, request, slots, stop>>

\* Top of the loop: leave on shutdown, otherwise interactive goes first.
Top(w) ==
    /\ worker[w].pc = "top"
    /\ IF rootCancelled THEN Become(w, "exited", worker[w].open, None)
       ELSE IF "interactive" \in worker[w].open THEN BeginScan(w, "interactive")
       ELSE BeginScan(w, "batch")
    /\ UNCHANGED <<load, laneState, request, slots, stop>>

TryBatch(w) ==
    /\ worker[w].pc = "batch"
    /\ BeginScan(w, "batch")
    /\ UNCHANGED <<load, laneState, request, slots, stop>>

\* tryPop reads the length of one sub-queue.
Scan(w, t) ==
    /\ worker[w].pc = "scan"
    /\ t \in worker[w].todo
    /\ worker' = [worker EXCEPT
          ![w].todo = @ \ {t},
          ![w].cands = IF queue[worker[w].lane][t] # <<>> THEN @ \cup {t} ELSE @]
    /\ UNCHANGED <<load, laneState, request, slots, stop>>

\* tryPop saw every sub-queue empty; a closed lane is done with.
FindNothing(w) ==
    LET l == worker[w].lane IN
    /\ worker[w].pc = "scan"
    /\ worker[w].todo = {}
    /\ worker[w].cands = {}
    /\ GiveUp(w, l, IF worker[w].shut THEN worker[w].open \ {l} ELSE worker[w].open)
    /\ UNCHANGED <<load, laneState, request, slots, stop>>

\* Mutant: the entry is read but left in the sub-queue.
Take_Peek(w, t) ==
    LET l == worker[w].lane
        q == queue[l][t]
    IN
    /\ worker[w].pc = "scan"
    /\ worker[w].todo = {}
    /\ t \in worker[w].cands
    /\ q # <<>>
    /\ request' = [request EXCEPT ![Head(q)] = "taken"]
    /\ Become(w, "acquire", worker[w].open, Head(q))
    /\ UNCHANGED <<load, laneState, slots, stop>>

\* Mutant: the newest entry is popped.
Take_Newest(w, t) ==
    LET l == worker[w].lane
        q == queue[l][t]
    IN
    /\ worker[w].pc = "scan"
    /\ worker[w].todo = {}
    /\ t \in worker[w].cands
    /\ q # <<>>
    /\ queue' = [queue EXCEPT ![l][t] = SubSeq(@, 1, Len(@) - 1)]
    /\ request' = [request EXCEPT ![q[Len(q)]] = "taken"]
    /\ Become(w, "acquire", worker[w].open, q[Len(q)])
    /\ UNCHANGED <<load, known, laneClosed, subClosed, slots, stop>>

\* The lottery picked t: pop the head of its sub-queue ...
Take(w, t) ==
    LET l == worker[w].lane
        q == queue[l][t]
    IN
    /\ worker[w].pc = "scan"
    /\ worker[w].todo = {}
    /\ t \in worker[w].cands
    /\ q # <<>>
    /\ queue' = [queue EXCEPT ![l][t] = Tail(@)]
    /\ request' = [request EXCEPT ![Head(q)] = "taken"]
    /\ Become(w, "acquire", worker[w].open, Head(q))
    /\ UNCHANGED <<load, known, laneClosed, subClosed, slots, stop>>

\* ... unless another dispatcher emptied it since the scan; when it is also
\* closed, the dispatcher takes the whole lane for closed.
LoseRace(w, t) ==
    LET l == worker[w].lane IN
    /\ worker[w].pc = "scan"
    /\ worker[w].todo = {}
    /\ t \in worker[w].cands
    /\ queue[l][t] = <<>>
    /\ GiveUp(w, l, IF t \in subClosed[l] THEN worker[w].open \ {l} ELSE worker[w].open)
    /\ UNCHANGED <<load, laneState, request, slots, stop>>

HasSlot(d) == InFlightCap = 0 \/ slots[d] < InFlightCap

\* dispatch: take an in-flight slot and run the handler.
Acquire(w) ==
    LET r == worker[w].req
        d == DeploymentOf[r]
    IN
    /\ worker[w].pc = "acquire"
    /\ HasSlot(d)
    /\ slots' = IF InFlightCap = 0 THEN slots ELSE [slots EXCEPT ![d] = @ + 1]
    /\ request' = [request EXCEPT ![r] = "running"]
    /\ Become(w, "run", worker[w].open, r)
    /\ UNCHANGED <<load, laneState, stop>>

\* dispatch: the shutdown wins, and the handler never runs for this entry.
AbandonEntry(w) ==
    /\ worker[w].pc = "acquire"
    /\ InFlightCap > 0
    /\ rootCancelled
    /\ request' = [request EXCEPT ![worker[w].req] = "dropped"]
    /\ Become(w, "top", worker[w].open, None)
    /\ UNCHANGED <<load, laneState, slots, stop>>

\* dispatchEntry: the handler answered and closed done; the slot is released.
Finish(w) ==
    LET d == DeploymentOf[worker[w].req] IN
    /\ worker[w].pc = "run"
    /\ slots' = IF InFlightCap = 0 THEN slots ELSE [slots EXCEPT ![d] = @ - 1]
    /\ request' = [request EXCEPT ![worker[w].req] = "answered"]
    /\ Become(w, "top", worker[w].open, None)
    /\ UNCHANGED <<load, laneState, stop>>

\* The backoff ends, by the timer or by the shutdown.
WakeUp(w) ==
    /\ worker[w].pc = "idle"
    /\ Become(w, IF rootCancelled THEN "exited" ELSE "top", worker[w].open, None)
    /\ UNCHANGED <<load, laneState, request, slots, stop>>

-----------------------------------------------------------------------------
(* Stop *)

\* laneState.close under the lane lock: no new entries; note the sub-queues.
CloseLane(l) ==
    /\ laneClosed' = [laneClosed EXCEPT ![l] = TRUE]
    /\ stop' = [pc |-> "closing", lane |-> l, todo |-> known[l]]
    /\ UNCHANGED <<load, queue, known, subClosed, request, worker, slots>>

StopBegin ==
    /\ load.stops
    /\ stop.pc = "no"
    /\ CloseLane("interactive")

CloseSub(t) ==
    /\ stop.pc = "closing"
    /\ t \in stop.todo
    /\ subClosed' = [subClosed EXCEPT ![stop.lane] = @ \cup {t}]
    /\ stop' = [stop EXCEPT !.todo = @ \ {t}]
    /\ UNCHANGED <<load, queue, known, laneClosed, request, worker, slots>>

CloseBatch ==
    /\ stop.pc = "closing"
    /\ stop.todo = {}
    /\ stop.lane = "interactive"
    /\ CloseLane("batch")

rootCancel ==
    /\ stop.pc = "closing"
    /\ stop.todo = {}
    /\ stop.lane = "batch"
    /\ stop' = [stop EXCEPT !.pc = "waiting"]
    /\ UNCHANGED <<load, laneState, request, worker, slots>>

StopReturn ==
    /\ stop.pc = "waiting"
    /\ \A w \in Workers : worker[w].pc = "exited"
    /\ stop' = [stop EXCEPT !.pc = "stopped"]
    /\ UNCHANGED <<load, laneState, request, worker, slots>>

-----------------------------------------------------------------------------
Stopping ==
    \/ StopBegin
    \/ \E t \in Tenants : CloseSub(t)
    \/ CloseBatch
    \/ rootCancel
    \/ StopReturn

WorkerStep(w) ==
    \/ Top(w)
    \/ TryBatch(w)
    \/ \E t \in Tenants : Scan(w, t) \/ Take(w, t) \/ LoseRace(w, t)
    \/ FindNothing(w)
    \/ Acquire(w)
    \/ AbandonEntry(w)
    \/ Finish(w)
    \/ WakeUp(w)

Next ==
    \/ \E r \in Requests : Submit(r) \/ Push(r)
    \/ \E w \in Workers : WorkerStep(w)
    \/ Stopping

Spec == Init /\ [][Next]_vars

\* Goroutines are scheduled, engines answer, and a Stop that began goes on.
Progress ==
    /\ \A r \in Requests : WF_state(Push(r))
    /\ \A w \in Workers : WF_state(WorkerStep(w))
    /\ WF_state(Stopping /\ stop.pc # "no")

\* A blocked slot acquisition gets its turn (channel senders queue up), and
\* the lottery picks every tenant that keeps having entries (all weights are
\* positive).
Turns ==
    \A w \in Workers :
        /\ SF_state(Acquire(w))
        /\ \A t \in Tenants : SF_state(worker[w].lane = "interactive" /\ Take(w, t))

FairSpec == Spec /\ Progress /\ Turns

-----------------------------------------------------------------------------
(* Properties *)

\* Type correctness of queues, requests, dispatchers and slots.
TypeOK ==
    /\ load \in Loads
    /\ queue \in [Lanes -> [Tenants -> Seq(Requests)]]
    /\ known \in [Lanes -> SUBSET Tenants]
    /\ laneClosed \in [Lanes -> BOOLEAN]
    /\ subClosed \in [Lanes -> SUBSET Tenants]
    /\ request \in [Requests -> RequestState]
    /\ worker \in [Workers -> Worker]
    /\ slots \in [Deployments -> Nat]
    /\ stop \in Stop

\* The places a request occupies: positions in sub-queues, and dispatchers.
Positions(r) ==
    {p \in Lanes \X Tenants \X (1 .. Cardinality(Requests)) :
        LET q == queue[p[1]][p[2]] IN p[3] <= Len(q) /\ q[p[3]] = r}

Holders(r) == {w \in Workers : worker[w].req = r}

\* An accepted request is in exactly one place: one position of the sub-queue
\* of its own lane and tenant, or one dispatcher; so no dispatcher answers a
\* request twice, or one whose HTTP handler is gone.
ExactlyOnce ==
    \A r \in Requests :
        /\ Cardinality(Positions(r)) = (IF request[r] = "queued" THEN 1 ELSE 0)
        /\ \A p \in Positions(r) : p[1] = LaneOf[r] /\ p[2] = TenantOf[r]
        /\ Cardinality(Holders(r)) =
              (IF request[r] \in {"taken", "running"} THEN 1 ELSE 0)

\* The lines of the abstract backlog: one per lane and tenant.
SubQueues == Lanes \X Tenants

SubQueueOf == [r \in Requests |-> <<LaneOf[r], TenantOf[r]>>]

SubQueueRoom == [c \in SubQueues |-> Capacity[c[1]]]

B == INSTANCE Backlog WITH
        Items   <- Requests,
        Classes <- SubQueues,
        ClassOf <- SubQueueOf,
        Room    <- SubQueueRoom,
        line    <- [c \in SubQueues |-> queue[c[1]][c[2]]],
        serving <- {r \in Requests : request[r] \in {"taken", "running"}}

\* Racing submits, scans, lotteries, pops and shutdowns amount to a bounded
\* backlog: every sub-queue keeps within its capacity and is served oldest
\* first, and an accepted request is taken up once.
ImplementsBacklog == B!Spec

\* A deployment never has more requests in flight than its cap, and the slots
\* taken are exactly those of the requests in flight, across shutdowns and
\* abandoned entries too.
InFlightBound ==
    InFlightCap > 0 =>
        \A d \in Deployments :
            /\ slots[d] = Cardinality({r \in Requests :
                              request[r] = "running" /\ DeploymentOf[r] = d})
            /\ slots[d] <= InFlightCap

\* The lanes account for every request: each accepted one is in exactly one
\* place of the right type, and the deployments' slots are those of the
\* requests in flight, within the cap.
LaneSafe == TypeOK /\ ExactlyOnce /\ InFlightBound

\* Once Stop has returned, no request is queued any more (it would have no
\* dispatcher) and none is running: a submit that found the lane open before
\* the shutdown included.
NothingAfterStop ==
    [][stop.pc = "stopped" =>
          \A r \in Requests :
              /\ request'[r] = "queued" => request[r] = "queued"
              /\ request[r] # "running"]_vars

\* What a submitter relies on: the lanes are a bounded backlog served oldest
\* first, and none accepts a request behind a Stop that has returned.
QueueContract == NothingAfterStop /\ ImplementsBacklog

\* Stop returns, whatever the dispatchers were doing when it was called.
StopReturns == (stop.pc = "closing") ~> (stop.pc = "stopped")

\* Under any load, a queued interactive request is answered as long as the
\* daemon is not shut down: Stop leaves entries behind.
InteractiveServed ==
    \A r \in Requests :
        LaneOf[r] = "interactive" =>
            (request[r] = "queued" ~> request[r] = "answered" \/ stop.pc # "no")

\* The scheduler never stands still: interactive requests are answered under any
\* load, and a shutdown ends.
SchedulerProgress == InteractiveServed /\ StopReturns

=============================================================================
