------------------------------ MODULE Traffic ------------------------------
(***************************************************************************)
(* What happens to a deployment once it serves: the router's dispatch      *)
(* (internal/router), the health checks that quarantine and restore its    *)
(* replicas (internal/healthcheck), the idle reaper and the activity       *)
(* stamps it reads (internal/provisioners/lifecycle, TouchDeployment), and *)
(* the operator's drains and migrations (drain.go, migrate.go), all of     *)
(* them over one deployment record that each reads and writes on its own.  *)
(*                                                                         *)
(* A store Update is one step.  A request holds the record it read until   *)
(* it is dispatched, a probe the flag of the snapshot it was started from, *)
(* a sweep the list it decided on.  Scaling and destroying are taken       *)
(* whole: Deployments models their steps.                                  *)
(***************************************************************************)
EXTENDS Integers, Sequences, FiniteSets, SequencesExt

CONSTANTS
    MaxMembers,         \* bound: the most members a deployment grows to
    Requests,           \* clients, each with one request at a time
    SessionOf,          \* the session each client sends, "" for none
    OverloadThreshold,  \* in-flight requests that make a pinned replica hot
    FailureThreshold,   \* consecutive failed probes that quarantine
    SuccessThreshold,   \* consecutive passed probes that restore
    ActivityWindow,     \* how long a completed request vetoes a quarantine
    IdleTtl,            \* idle_ttl_seconds of the deployment
    Debounce,           \* the least time between two persisted touches
    MaxDestroyRetries,  \* destroys the reaper tries on one id
    Scenarios           \* the circumstances to consider, see Scenario

\* Nodes of each member at the start, the router's policy, what operators do,
\* what may go wrong, whether the health loop and the reaper run, and when the
\* clock stops.
Scenario ==
    [nodes   : Seq(1..2),
     policy  : {"round_robin", "prefix_affinity"},
     ops     : SUBSET {"drain", "scale", "migrate", "touch", "recreate"},
     faults  : SUBSET {"busy", "dead", "destroy", "touch", "grow", "cancel"},
     clients : SUBSET Requests,
     loops   : SUBSET {"health", "reaper"},
     horizon : Nat]

ASSUME TrafficAssumption ==
    /\ MaxMembers \in 1..3
    /\ {FailureThreshold, SuccessThreshold, MaxDestroyRetries} \subseteq Nat \ {0}
    /\ {ActivityWindow, IdleTtl, Debounce, OverloadThreshold} \subseteq Nat
    /\ Scenarios \subseteq Scenario
    /\ \A s \in Scenarios : Len(s.nodes) \in 1..MaxMembers
    /\ IsFiniteSet(Requests)

VARIABLES
    dep,      \* the deployment record
    engine,   \* what the engine of each member really does
    req,      \* each client's request
    route,    \* the router's memory: rotation, pins, in-flight, completions
    health,   \* the health loop's probes under way and its streaks
    reaper,   \* the reaper's sweep and its failed destroys
    op,       \* the operator's call
    grow,     \* slots a scale-up is provisioning
    clock,    \* the time, and what TouchDeployment remembers of it
    scenario  \* the scenario of this behaviour

vars == <<dep, engine, req, route, health, reaper, op, grow, clock, scenario>>

Members == 1..MaxMembers

Never == -1

Sessions == {SessionOf[r] : r \in Requests} \ {""}

\* Node n of member m has instance id 2(m-1)+n: the first one is the primary.
NodeId(m, n) == 2 * (m - 1) + n

Ids == 1..(2 * MaxMembers)

ReplicaBacking == [ids : Seq(Ids), ep : BOOLEAN]

newMember(m, n, ep) == [ids |-> [k \in 1..n |-> NodeId(m, k)], ep |-> ep]

Idle == [at |-> "idle", kind |-> "", ids |-> <<>>, source |-> {}, done |-> {}]

NoRequest == [at |-> "none", saw |-> <<>>, m |-> 0]

NoStreak == [fails |-> 0, passes |-> 0]

NoDep == [st |-> "RUNNING", reps |-> <<>>, bad |-> {}, act |-> 0]

Init ==
    /\ scenario \in Scenarios
    /\ dep = [NoDep EXCEPT !.reps = [m \in DOMAIN scenario.nodes |->
                                       newMember(m, scenario.nodes[m], TRUE)]]
    /\ engine = [m \in Members |-> "up"]
    /\ req = [r \in Requests |-> NoRequest]
    /\ route = [turn |-> 0,
                pins |-> [s \in Sessions |-> 0],
                flight |-> [m \in Members |-> 0],
                done |-> [m \in Members |-> Never]]
    /\ health = [probes |-> {}, streak |-> [i \in Ids |-> NoStreak]]
    /\ reaper = [at |-> "idle", retries |-> 0]
    /\ op = Idle
    /\ grow = {}
    /\ clock = [now |-> 0, seen |-> Never, touched |-> Never]

-----------------------------------------------------------------------------
(* Reading the record *)

memberInstanceIDs(d, m) == IF m \in DOMAIN d.reps THEN d.reps[m].ids ELSE <<>>

\* The machines behind a deployment, flattened over its members, of which
\* there are three at most ...
EffectiveInstanceIDs(d) ==
    memberInstanceIDs(d, 1) \o memberInstanceIDs(d, 2) \o memberInstanceIDs(d, 3)

\* ... and the members with an endpoint to probe or to route to.
EffectiveEndpoints(d) == {m \in DOMAIN d.reps : d.reps[m].ep}

\* Members the router may pick: one quarantined node takes out the member.
eligibleReplicas(d) ==
    {m \in EffectiveEndpoints(d) : ToSet(d.reps[m].ids) \cap d.bad = {}}

\* What the health loop probes: the endpoint at each position with the
\* machine at the same position, and whether that machine is quarantined.
Snapshot(d) ==
    LET ids == EffectiveInstanceIDs(d) IN
    {[m |-> m, id |-> IF m <= Len(ids) THEN ids[m] ELSE 0,
      marked |-> m <= Len(ids) /\ ids[m] \in d.bad] : m \in EffectiveEndpoints(d)}

\* A RUNNING deployment with some endpoint takes requests.
forwardable(d) == d.st = "RUNNING" /\ EffectiveEndpoints(d) # {}

-----------------------------------------------------------------------------
(* The router *)

\* DescribeDeployment, or ListDeployments for the flat URL.  The record
\* travels with the request through the queue.
ServeDescribe(r) ==
    /\ r \in scenario.clients
    /\ req[r].at = "none"
    /\ req' = [req EXCEPT ![r] = [at |-> "queued", saw |-> <<dep>>, m |-> 0]]
    /\ UNCHANGED <<dep, engine, route, health, reaper, op, grow, clock, scenario>>

\* RoundRobin.Pick: the eligible member whose turn it is, in their order.
RoundRobinPick(elig) ==
    {m \in elig : Cardinality({n \in elig : n < m}) = route.turn % Cardinality(elig)}

\* The coolest member, the first one of several.
leastInFlight(elig) ==
    {m \in elig : \A n \in elig : \/ route.flight[m] < route.flight[n]
                                  \/ route.flight[m] = route.flight[n] /\ m <= n}

\* The session's pin holds: its replica is eligible still.
Pinned(s, elig) ==
    scenario.policy = "prefix_affinity" /\ s # "" /\ route.pins[s] \in elig

\* PrefixAffinity.Pick of a pinned session: its replica, unless that is hot,
\* when this turn goes to the coolest one.
PrefixAffinityPick(s, elig) ==
    IF OverloadThreshold > 0 /\ route.flight[route.pins[s]] >= OverloadThreshold
    THEN leastInFlight(elig) ELSE {route.pins[s]}

\* The policy's choice ...
pickReplica(s, elig) ==
    IF Pinned(s, elig) THEN PrefixAffinityPick(s, elig) ELSE RoundRobinPick(elig)

\* ... and the router's memory after it went to m: the pin stays or is made, and
\* the rotation moves on.  Six is a multiple of every number of members, so the
\* count may wrap there.
afterPick(s, elig, m) ==
    IF Pinned(s, elig) THEN route
    ELSE [route EXCEPT !.turn = (@ + 1) % 6,
                       !.pins = IF scenario.policy = "round_robin" \/ s = "" THEN @
                                ELSE [@ EXCEPT ![s] = m]]

\* trackInFlight, and the deferred half of it: whatever the answer was, the
\* request counts as completed.
trackInFlight(rt, m) == [rt EXCEPT !.flight[m] = @ + 1]

trackDone(rt, m) == [rt EXCEPT !.flight[m] = @ - 1, !.done[m] = clock.now]

\* How long ago a replica last finished a request, Never if it has not.
SinceLastCompletion(m) ==
    IF route.done[m] = Never THEN Never ELSE clock.now - route.done[m]

\* handleWithObservability: a replica is picked even for a request that is
\* then refused; one that goes out counts as in flight and owes a touch.
Dispatch(r) ==
    LET d    == req[r].saw[1]
        elig == eligibleReplicas(d)
    IN  /\ req[r].at = "queued"
        /\ \/ /\ elig = {}
              /\ req' = [req EXCEPT ![r] = NoRequest]
              /\ UNCHANGED route
           \/ \E m \in pickReplica(SessionOf[r], elig) :
                LET after == afterPick(SessionOf[r], elig, m) IN
                IF forwardable(d)
                THEN /\ req' = [req EXCEPT ![r] = [at |-> "touch", saw |-> <<>>, m |-> m]]
                     /\ route' = trackInFlight(after, m)
                ELSE /\ req' = [req EXCEPT ![r] = NoRequest]
                     /\ route' = after
        /\ UNCHANGED <<dep, engine, health, reaper, op, grow, clock, scenario>>

\* Mutant: a touch that is skipped still restarts the debounce.
TouchDeployment_Slide ==
    /\ clock' = [clock EXCEPT !.seen = clock.now, !.touched = clock.now]
    /\ dep' = IF clock.seen # Never /\ clock.now - clock.seen < Debounce THEN dep
              ELSE [dep EXCEPT !.act = clock.now]

\* TouchDeployment: the stamp is written unless one was written lately.
TouchDeployment ==
    IF clock.seen # Never /\ clock.now - clock.seen < Debounce
    THEN /\ clock' = [clock EXCEPT !.touched = clock.now]
         /\ UNCHANGED dep
    ELSE /\ dep' = [dep EXCEPT !.act = clock.now]
         /\ clock' = [clock EXCEPT !.seen = clock.now, !.touched = clock.now]

\* touchActivity: the request's own touch, which may be lost.
TouchActivity(r) ==
    /\ req[r].at = "touch"
    /\ req' = [req EXCEPT ![r].at = "proxied"]
    /\ \/ TouchDeployment
       \/ "touch" \in scenario.faults /\ UNCHANGED <<dep, clock>>
    /\ UNCHANGED <<engine, route, health, reaper, op, grow, scenario>>

\* proxyTo returns, with the engine's answer or with an error: either way the
\* request is no longer in flight and counts as completed.
ProxyReturns(r) ==
    /\ req[r].at = "proxied"
    /\ route' = trackDone(route, req[r].m)
    /\ req' = [req EXCEPT ![r] = NoRequest]
    /\ UNCHANGED <<dep, engine, health, reaper, op, grow, clock, scenario>>

-----------------------------------------------------------------------------
(* The health checks *)

\* Service.Quarantine and Service.Restore on the machine i.
Quarantine(i) == dep' = [dep EXCEPT !.bad = IF i = 0 THEN @ ELSE @ \cup {i}]

Restore(i) == dep' = [dep EXCEPT !.bad = @ \ {i}]

\* tick: the next one starts when every probe of the last has returned.
HealthTick ==
    /\ "health" \in scenario.loops
    /\ health.probes = {}
    /\ dep.st = "RUNNING"
    /\ health' = [health EXCEPT !.probes = Snapshot(dep)]
    /\ UNCHANGED <<dep, engine, req, route, reaper, op, grow, clock, scenario>>

\* Consecutive passes or failures of one machine.  The counts stop at the
\* thresholds they are compared with.
streakAfter(s, healthy) ==
    LET cap(n, k) == IF n < k THEN n + 1 ELSE k
    IN  IF healthy THEN [fails |-> 0, passes |-> cap(s.passes, SuccessThreshold)]
        ELSE [fails |-> cap(s.fails, FailureThreshold), passes |-> 0]

\* activityVeto: the router saw the replica finish a request lately.
activityVeto(m) == SinceLastCompletion(m) \in 0..ActivityWindow

\* Mutant: a quarantine is never lifted.
Decide_Never(p, s) ==
    IF ~p.marked /\ s.fails >= FailureThreshold
    THEN IF activityVeto(p.m) THEN UNCHANGED dep ELSE Quarantine(p.id)
    ELSE UNCHANGED dep

\* Mutant: saturated replicas are quarantined too.
Decide_NoVeto(p, s) ==
    IF ~p.marked /\ s.fails >= FailureThreshold THEN Quarantine(p.id)
    ELSE IF p.marked /\ s.passes >= SuccessThreshold THEN Restore(p.id)
    ELSE UNCHANGED dep

\* What a probe does with its streak, on the flag of its snapshot.
Decide(p, s) ==
    IF ~p.marked /\ s.fails >= FailureThreshold
    THEN IF activityVeto(p.m) THEN UNCHANGED dep ELSE Quarantine(p.id)
    ELSE IF p.marked /\ s.passes >= SuccessThreshold THEN Restore(p.id)
    ELSE UNCHANGED dep

\* probe: only an engine that is up answers /health in time.
Probe(p) ==
    /\ p \in health.probes
    /\ LET s == streakAfter(IF p.id = 0 THEN NoStreak ELSE health.streak[p.id],
                            engine[p.m] = "up")
       IN  /\ health' = [probes |-> health.probes \ {p},
                         streak |-> [i \in Ids |-> IF i = p.id THEN s ELSE health.streak[i]]]
           /\ Decide(p, s)
    /\ UNCHANGED <<engine, req, route, reaper, op, grow, clock, scenario>>

-----------------------------------------------------------------------------
(* Destroying, and the reaper *)

\* DestroyDeployment as a whole: a failure leaves it TERMINATING.
DestroyDeployment(ok) ==
    /\ dep' = IF dep.st = "TERMINATED" THEN dep
              ELSE [dep EXCEPT !.st = IF ok THEN "TERMINATED" ELSE "TERMINATING"]
    /\ engine' = IF dep'.st = "TERMINATED" THEN [m \in Members |-> "dead"] ELSE engine

\* Whether DestroyDeployment may report this outcome now.
DestroyOutcome(ok) == ok \/ ("destroy" \in scenario.faults /\ dep.st # "TERMINATED")

\* shouldReap: RUNNING, and idle for longer than its time to live.
shouldReap(d, t) == d.st = "RUNNING" /\ IdleTtl > 0 /\ t - d.act > IdleTtl

\* Mutant: only idle deployments are looked at, not stuck destroys.
shouldRetry_Off(d) == FALSE

\* shouldRetry: an earlier destroy failed.
shouldRetry(d) == d.st = "TERMINATING"

\* RunOnce lists the deployments and decides; an id that failed too often is
\* left alone.
Sweep ==
    /\ "reaper" \in scenario.loops
    /\ reaper.at = "idle"
    /\ shouldReap(dep, clock.now) \/ shouldRetry(dep)
    /\ reaper.retries < MaxDestroyRetries
    /\ reaper' = [reaper EXCEPT !.at = "destroy"]
    /\ UNCHANGED <<dep, engine, req, route, health, op, grow, clock, scenario>>

\* destroy: the call is made whatever happened to the deployment since.
SweepDestroy(ok) ==
    /\ reaper.at = "destroy"
    /\ DestroyOutcome(ok)
    /\ DestroyDeployment(ok)
    /\ reaper' = [at |-> "idle", retries |-> IF ok THEN 0 ELSE reaper.retries + 1]
    /\ UNCHANGED <<req, route, health, op, grow, clock, scenario>>

-----------------------------------------------------------------------------
(* The operator: touch, drain, scale, migrate, and a create of the same id *)

OperatorTouch ==
    /\ "touch" \in scenario.ops
    /\ dep.act < clock.now
    /\ TouchDeployment
    /\ UNCHANGED <<engine, req, route, health, reaper, op, grow, scenario>>

\* DrainAndDestroyDeployment reads the machines ...
DrainRead ==
    /\ "drain" \in scenario.ops
    /\ op = Idle
    /\ dep.st # "TERMINATED"
    /\ op' = [Idle EXCEPT !.at = "mark", !.kind = "drain", !.ids = EffectiveInstanceIDs(dep)]
    /\ UNCHANGED <<dep, engine, req, route, health, reaper, grow, clock, scenario>>

\* ... DrainReplicas quarantines them one by one ...
DrainMark ==
    /\ op.at = "mark"
    /\ op.ids # <<>>
    /\ Quarantine(Head(op.ids))
    /\ op' = [op EXCEPT !.ids = Tail(@), !.done = @ \cup {Head(op.ids)}]
    /\ UNCHANGED <<engine, req, route, health, reaper, grow, clock, scenario>>

\* ... and waits out the grace period, or is forced; the caller may give up,
\* which leaves the replicas as they are.
DrainWait ==
    /\ op.at = "mark"
    /\ op.ids = <<>>
    /\ \/ op' = IF op.kind = "drain" THEN [op EXCEPT !.at = "release"] ELSE Idle
       \/ "cancel" \in scenario.faults /\ op' = Idle
    /\ UNCHANGED <<dep, engine, req, route, health, reaper, grow, clock, scenario>>

DrainRelease(ok) ==
    /\ op.at = "release"
    /\ DestroyOutcome(ok)
    /\ DestroyDeployment(ok)
    /\ op' = Idle
    /\ UNCHANGED <<req, route, health, reaper, grow, clock, scenario>>

\* ScaleDeployment without wait returns the record as it was; the new slot
\* is provisioned by a goroutine of its own.
ScaleDeployment ==
    /\ dep.st \in {"RUNNING", "DEGRADED"}
    /\ Len(dep.reps) < MaxMembers
    /\ grow' = grow \cup {Len(dep.reps) + 1}

OperatorScale ==
    /\ "scale" \in scenario.ops
    /\ ScaleDeployment
    /\ grow' # grow
    /\ UNCHANGED <<dep, engine, req, route, health, reaper, op, clock, scenario>>

\* recordAppendedSlots: the slot has a machine, and no endpoint yet.
GrowPlace(m) ==
    /\ m \in grow
    /\ m = Len(dep.reps) + 1
    /\ dep' = [dep EXCEPT !.reps = Append(@, newMember(m, 1, FALSE))]
    /\ UNCHANGED <<engine, req, route, health, reaper, op, grow, clock, scenario>>

\* The engine of the new slot answers, or the slot fails for good.
GrowEnd(m, ok) ==
    /\ m \in grow
    /\ m <= Len(dep.reps)
    /\ ok \/ "grow" \in scenario.faults
    /\ grow' = grow \ {m}
    /\ dep' = IF ok THEN [dep EXCEPT !.reps[m].ep = TRUE]
              ELSE [dep EXCEPT !.st = "DEGRADED"]
    /\ UNCHANGED <<engine, req, route, health, reaper, op, clock, scenario>>

\* Migrate reads the replicas that are to be moved ...
MigrateRead ==
    /\ "migrate" \in scenario.ops
    /\ op = Idle
    /\ dep.st \in {"RUNNING", "DEGRADED"}
    /\ op' = [Idle EXCEPT !.at = "grow", !.kind = "migrate",
                          !.ids = EffectiveInstanceIDs(dep),
                          !.source = ToSet(EffectiveInstanceIDs(dep))]
    /\ UNCHANGED <<dep, engine, req, route, health, reaper, grow, clock, scenario>>

\* Mutant: whatever the scale-up returned, the source is drained.
Added_Any(d, source) == Ids

\* The machines in the scaled record that were not there before.
Added(d, source) == ToSet(EffectiveInstanceIDs(d)) \ source

\* ... grows the deployment, and drains them if the record that ScaleDeployment
\* returned shows new ones.
MigrateGrow ==
    /\ op.at = "grow"
    /\ \/ /\ ScaleDeployment
          /\ op' = IF Added(dep, op.source) = {} THEN Idle
                   ELSE [op EXCEPT !.at = "mark"]
       \/ /\ dep.st \notin {"RUNNING", "DEGRADED"} \/ Len(dep.reps) = MaxMembers
          /\ op' = Idle
          /\ UNCHANGED grow
    /\ UNCHANGED <<dep, engine, req, route, health, reaper, clock, scenario>>

\* CreateDeployment claims the id again, and its replicas come up.
Recreate ==
    /\ "recreate" \in scenario.ops
    /\ dep.st = "TERMINATED"
    /\ dep' = [NoDep EXCEPT !.reps = [m \in DOMAIN scenario.nodes |->
                                        newMember(m, scenario.nodes[m], TRUE)],
                            !.act = clock.now]
    /\ engine' = [m \in Members |-> "up"]
    /\ clock' = [clock EXCEPT !.touched = Never]
    /\ UNCHANGED <<req, route, health, reaper, op, grow, scenario>>

-----------------------------------------------------------------------------
(* The engines, and time *)

\* An engine is too busy to answer /health, recovers, or dies.
EngineTurns(m, s) ==
    /\ m <= Len(dep.reps)
    /\ s \in scenario.faults \/ s = "up"
    /\ engine[m] # s
    /\ engine[m] # "dead"
    /\ engine' = [engine EXCEPT ![m] = s]
    /\ UNCHANGED <<dep, req, route, health, reaper, op, grow, clock, scenario>>

ClockTicks ==
    /\ clock.now < scenario.horizon
    /\ clock' = [clock EXCEPT !.now = @ + 1]
    /\ UNCHANGED <<dep, engine, req, route, health, reaper, op, grow, scenario>>

RouterStep ==
    \E r \in Requests : ServeDescribe(r) \/ Dispatch(r) \/ TouchActivity(r) \/ ProxyReturns(r)

HealthStep == HealthTick \/ \E p \in health.probes : Probe(p)

ReaperStep == Sweep \/ \E ok \in BOOLEAN : SweepDestroy(ok)

OperatorStep ==
    \/ OperatorTouch \/ DrainRead \/ DrainMark \/ DrainWait
    \/ \E ok \in BOOLEAN : DrainRelease(ok)
    \/ OperatorScale \/ MigrateRead \/ MigrateGrow \/ Recreate
    \/ \E m \in Members : GrowPlace(m) \/ \E ok \in BOOLEAN : GrowEnd(m, ok)

Next ==
    \/ RouterStep
    \/ HealthStep
    \/ ReaperStep
    \/ OperatorStep
    \/ \E m \in Members, s \in {"up", "busy", "dead"} : EngineTurns(m, s)
    \/ ClockTicks

Spec == Init /\ [][Next]_vars

\* The loops tick, their probes and destroys return, and time passes.
FairSpec ==
    /\ Spec
    /\ WF_vars(HealthTick)
    /\ \A m \in Members : WF_vars(\E p \in health.probes : p.m = m /\ Probe(p))
    /\ WF_vars(Sweep)
    /\ WF_vars(\E ok \in BOOLEAN : SweepDestroy(ok))
    /\ WF_vars(ClockTicks)

-----------------------------------------------------------------------------
(* Properties *)

TypeOK ==
    /\ dep \in [st : {"RUNNING", "DEGRADED", "TERMINATING", "TERMINATED"},
                reps : Seq(ReplicaBacking),
                bad : SUBSET Ids, act : 0..scenario.horizon]
    /\ engine \in [Members -> {"up", "busy", "dead"}]
    /\ \A r \in Requests : req[r].at \in {"none", "queued", "touch", "proxied"}
    /\ route.pins \in [Sessions -> 0..MaxMembers]
    /\ route.flight \in [Members -> 0..Cardinality(Requests)]
    /\ reaper \in [at : {"idle", "destroy"}, retries : 0..MaxDestroyRetries]
    /\ op.at \in {"idle", "mark", "release", "grow"}
    /\ grow \subseteq Members

\* Every member has one machine, as the health loop's pairing of endpoints
\* with machines takes for granted.
OneNodeEach == \A m \in DOMAIN dep.reps : Len(dep.reps[m].ids) = 1

\* The reaper takes a deployment for idle only when the last touch it accepted,
\* written or debounced, is older than the time to live less one debounce
\* interval (RunOnce against TouchDeployment's debounce).
ReapOnlyIdle ==
    shouldReap(dep, clock.now) /\ clock.touched # Never
        => clock.now - clock.touched > IdleTtl - Debounce

\* The reaper ends nobody's work: touches that the debounce swallowed still
\* count, in every well-typed state.
ReaperSafe == TypeOK /\ ReapOnlyIdle

\* The health loop never takes a replica out of service that finished a
\* request within the activity window (probe and activityVeto).
SaturatedServes ==
    [][HealthStep /\ OneNodeEach =>
         \A m \in DOMAIN dep.reps :
            dep.reps[m].ids[1] \in dep'.bad \ dep.bad /\ route.done[m] # Never
                => clock.now - route.done[m] > ActivityWindow]_vars

\* A session's pin moves only when the pinned replica is not eligible in the
\* record that a request of the session read (PrefixAffinity.Pick): a replica
\* that is only hot keeps its sessions.
PinsKept ==
    [][\A s \in Sessions :
         route.pins[s] \notin {0, route'.pins[s]}
            => \E r \in Requests :
                  /\ SessionOf[r] = s
                  /\ req[r].at = "queued"
                  /\ route.pins[s] \notin eligibleReplicas(req[r].saw[1])]_vars

\* Load alone moves nothing: neither a busy replica out of the rotation nor a
\* session off a replica that still serves.
RoutedWell == SaturatedServes /\ PinsKept

\* A migration drains its source only while the deployment has some replica
\* that is not part of it (Migrate, "the source is untouched"), unless the id
\* is destroyed and created again under it.
MigrationKeepsAnother ==
    /\ "recreate" \notin scenario.ops
    /\ op.kind = "migrate" /\ op.at = "mark"
    => ~ (ToSet(EffectiveInstanceIDs(dep)) \subseteq op.source)

\* A dead engine does not stay in the rotation for good, unless requests sent
\* to it keep vetoing its quarantine (Run, tick, probe).
DeadLeaves ==
    \A m \in Members :
        ~ <>[](/\ "health" \in scenario.loops
               /\ dep.st = "RUNNING" /\ OneNodeEach
               /\ m \in eligibleReplicas(dep)
               /\ engine[m] = "dead"
               /\ route.done[m] # Never => clock.now - route.done[m] > ActivityWindow)

\* A replica whose engine answers does not stay quarantined for good (probe's
\* restore after SuccessThreshold passes).
HealthyReturns ==
    \A m \in Members :
        ~ <>[](/\ "health" \in scenario.loops
               /\ dep.st = "RUNNING" /\ OneNodeEach
               /\ m \in EffectiveEndpoints(dep) \ eligibleReplicas(dep)
               /\ engine[m] = "up")

\* The rotation converges to the engines that answer: dead ones leave it and
\* recovered ones return.
HealthConverges == DeadLeaves /\ HealthyReturns

\* Neither an idle deployment nor a stuck destroy is left alone before the
\* reaper has used up its retries (RunOnce, shouldReap, shouldRetry).
ExpiredReleased ==
    ~ <>[](/\ "reaper" \in scenario.loops
           /\ (dep.st = "RUNNING" /\ clock.now - dep.act > IdleTtl) \/ dep.st = "TERMINATING"
           /\ reaper.retries < MaxDestroyRetries)

\* Replicas under drain stay quarantined until they are released (DrainReplicas:
\* "no new work lands on them").
DrainHolds == op.at \in {"mark", "release"} => op.done \subseteq dep.bad

=============================================================================
