--------------------------- MODULE TrafficProofs ---------------------------
(***************************************************************************)
(* Proofs about Traffic: the reaper never takes a deployment for idle that *)
(* was touched lately, a migration never drains the last replicas, the     *)
(* health loop spares replicas that complete requests, and a session's pin *)
(* moves only off a replica that is out of the rotation, for any number of *)
(* clients, thresholds and times.                                          *)
(***************************************************************************)
EXTENDS Traffic, FiniteSetTheorems, TLAPS

-----------------------------------------------------------------------------
(* The inductive invariant *)

\* A deployment record, as the store and the requests that read it hold it.
DepRecord ==
    [st : {"RUNNING", "DEGRADED", "TERMINATING", "TERMINATED"},
     reps : {q \in Seq(ReplicaBacking) : Len(q) <= MaxMembers},
     bad : SUBSET Ids, act : Nat]

OpRecord ==
    [at : {"idle", "mark", "release", "grow"}, kind : {"", "drain", "migrate"},
     ids : Seq(Ids), source : SUBSET Ids, done : SUBSET Ids]

ReqRecord ==
    [at : {"none", "queued", "touch", "proxied"}, saw : Seq(DepRecord),
     m : 0..MaxMembers]

ProbeRecord == [m : Members, id : 0..(2 * MaxMembers), marked : BOOLEAN]

RouteRecord ==
    [turn : Nat, pins : [Sessions -> 0..MaxMembers],
     flight : [Members -> Nat], done : [Members -> Int]]

\* The record, the engines and the loops.
PartsTyped ==
    /\ dep \in DepRecord
    /\ engine \in [Members -> {"up", "busy", "dead"}]
    /\ health.probes \subseteq ProbeRecord
    /\ reaper \in [at : {"idle", "destroy"}, retries : 0..MaxDestroyRetries]
    /\ reaper.at = "destroy" => reaper.retries < MaxDestroyRetries
    /\ op \in OpRecord
    /\ grow \subseteq Members
    /\ scenario \in Scenarios

\* The requests: one that is queued carries the record it read.
RequestsTyped ==
    /\ req \in [Requests -> ReqRecord]
    /\ \A r \in Requests : req[r].at = "queued" => req[r].saw # <<>>
    /\ \A r \in Requests : req[r].at \in {"touch", "proxied"} => req[r].m \in Members

\* The requests that member m is serving.
Serving(m) == {r \in Requests : req[r].at \in {"touch", "proxied"} /\ req[r].m = m}

\* The router's memory: a member's in-flight count is the number of requests
\* it serves.
RouteCounted ==
    /\ route \in RouteRecord
    /\ \A m \in Members : route.flight[m] = Cardinality(Serving(m))
    /\ \A m \in Members : route.done[m] \in Never..clock.now

\* Stamps are of the past, the record's is never older than the last one that
\* TouchDeployment wrote, and an accepted touch is ahead of it by less than the
\* debounce.
Stamps ==
    /\ clock \in [now : Nat, seen : Int, touched : Int]
    /\ clock.now <= scenario.horizon
    /\ dep.act <= clock.now
    /\ clock.seen # Never => clock.seen <= dep.act
    /\ clock.touched # Never => clock.touched - dep.act <= Debounce

\* How many machines member m has, for as long as the id lives.
NodesOf(m) == IF m \in DOMAIN scenario.nodes THEN scenario.nodes[m] ELSE 1

\* Members are never taken away, and a member's machines are its own.
Shaped ==
    /\ Len(scenario.nodes) <= Len(dep.reps)
    /\ \A m \in DOMAIN dep.reps :
          dep.reps[m].ids = [k \in 1..NodesOf(m) |-> NodeId(m, k)]

\* Where every member has one machine, a probe blames its own member's.
Paired ==
    (\A m \in DOMAIN scenario.nodes : scenario.nodes[m] = 1)
        => \A p \in health.probes : p.id = NodeId(p.m, 1)

TrafficInv ==
    PartsTyped /\ RequestsTyped /\ RouteCounted /\ Stamps /\ Shaped /\ Paired

-----------------------------------------------------------------------------
(* The constants *)

\* The bounds are numbers, and there are at most three members.
LEMMA Bounds ==
    /\ MaxMembers \in Nat /\ MaxMembers \in {1, 2, 3}
    /\ Members = 1..MaxMembers
    /\ MaxDestroyRetries \in Nat /\ MaxDestroyRetries >= 1
    /\ Debounce \in Nat /\ IdleTtl \in Nat /\ ActivityWindow \in Nat
    /\ IsFiniteSet(Requests)
BY TrafficAssumption DEF Members

\* A scenario's members have one or two nodes, and there are enough slots.
LEMMA ScenarioTyped ==
    ASSUME scenario \in Scenarios
    PROVE  /\ scenario.nodes \in Seq(1..2)
           /\ Len(scenario.nodes) \in 1..MaxMembers
           /\ DOMAIN scenario.nodes = 1..Len(scenario.nodes)
           /\ DOMAIN scenario.nodes \subseteq Members
           /\ scenario.policy \in {"round_robin", "prefix_affinity"}
           /\ scenario.horizon \in Nat
  <1>1. scenario \in Scenario /\ Len(scenario.nodes) \in 1..MaxMembers
    BY TrafficAssumption
  <1>2. /\ scenario.nodes \in Seq(1..2)
        /\ scenario.policy \in {"round_robin", "prefix_affinity"}
        /\ scenario.horizon \in Nat
    BY <1>1 DEF Scenario
  <1>3. DOMAIN scenario.nodes = 1..Len(scenario.nodes)
    BY <1>2
  <1> QED
    BY <1>1, <1>2, <1>3, Bounds

\* A member that is placed has one or two machines of its own.
LEMMA NewMember ==
    ASSUME NEW m \in Members, NEW n \in 1..2, NEW ep \in BOOLEAN
    PROVE  /\ newMember(m, n, ep) \in ReplicaBacking
           /\ newMember(m, n, ep).ids = [k \in 1..n |-> NodeId(m, k)]
           /\ Len(newMember(m, n, ep).ids) = n
  <1>1. \A k \in 1..n : NodeId(m, k) \in Ids
    BY Bounds DEF NodeId, Ids
  <1>2. [k \in 1..n |-> NodeId(m, k)] \in Seq(Ids)
    BY <1>1
  <1>3. Len([k \in 1..n |-> NodeId(m, k)]) = n
    BY <1>2
  <1> QED
    BY <1>2, <1>3 DEF newMember, ReplicaBacking

\* The replicas of a record that was just created.
FreshReps == [m \in DOMAIN scenario.nodes |-> newMember(m, scenario.nodes[m], TRUE)]

\* They are typed, and each has the machines its scenario gives it.
LEMMA FreshTyped ==
    ASSUME scenario \in Scenarios
    PROVE  /\ FreshReps \in Seq(ReplicaBacking)
           /\ Len(FreshReps) = Len(scenario.nodes)
           /\ DOMAIN FreshReps = DOMAIN scenario.nodes
           /\ \A m \in DOMAIN FreshReps :
                 FreshReps[m].ids = [k \in 1..NodesOf(m) |-> NodeId(m, k)]
  <1>1. \A m \in DOMAIN scenario.nodes : m \in Members /\ scenario.nodes[m] \in 1..2
    BY ScenarioTyped
  <1>2. \A m \in DOMAIN scenario.nodes :
            /\ newMember(m, scenario.nodes[m], TRUE) \in ReplicaBacking
            /\ newMember(m, scenario.nodes[m], TRUE).ids
                 = [k \in 1..scenario.nodes[m] |-> NodeId(m, k)]
    BY <1>1, NewMember
  <1>3. /\ DOMAIN FreshReps = 1..Len(scenario.nodes)
        /\ Len(scenario.nodes) \in Nat
    BY ScenarioTyped, Bounds DEF FreshReps
  <1>4. FreshReps \in [1..Len(scenario.nodes) -> ReplicaBacking]
    BY <1>2, ScenarioTyped DEF FreshReps
  <1>5. FreshReps \in Seq(ReplicaBacking) /\ Len(FreshReps) = Len(scenario.nodes)
    BY <1>3, <1>4
  <1>6. DOMAIN FreshReps = DOMAIN scenario.nodes
    BY DEF FreshReps
  <1>7. \A m \in DOMAIN FreshReps :
            FreshReps[m].ids = [k \in 1..NodesOf(m) |-> NodeId(m, k)]
    BY <1>2, <1>6 DEF FreshReps, NodesOf
  <1> QED
    BY <1>5, <1>6, <1>7

-----------------------------------------------------------------------------
(* Reading the record *)

\* The machines of one member.
LEMMA MemberIDs ==
    ASSUME NEW d \in DepRecord, NEW m
    PROVE  /\ memberInstanceIDs(d, m) \in Seq(Ids)
           /\ \A x : x \in ToSet(memberInstanceIDs(d, m))
                        <=> m \in DOMAIN d.reps /\ x \in ToSet(d.reps[m].ids)
  <1>1. d.reps \in Seq(ReplicaBacking)
    BY DEF DepRecord
  <1>2. ASSUME m \in DOMAIN d.reps PROVE d.reps[m].ids \in Seq(Ids)
    <2>1. m \in 1..Len(d.reps)
      BY <1>1, <1>2
    <2>2. d.reps[m] \in ReplicaBacking
      BY <1>1, <2>1
    <2> QED
      BY <2>2 DEF ReplicaBacking
  <1>3. ToSet(<<>>) = {}
    BY DEF ToSet
  <1> QED
    BY <1>2, <1>3 DEF memberInstanceIDs

\* What a concatenation holds.
LEMMA ConcatSet ==
    ASSUME NEW s \in Seq(Ids), NEW t \in Seq(Ids)
    PROVE  /\ s \o t \in Seq(Ids)
           /\ ToSet(s \o t) = ToSet(s) \cup ToSet(t)
  <1>1. /\ s \o t \in Seq(Ids) /\ Len(s \o t) = Len(s) + Len(t)
        /\ Len(s) \in Nat /\ Len(t) \in Nat
    OBVIOUS
  <1>2. ASSUME NEW x \in ToSet(s \o t) PROVE x \in ToSet(s) \cup ToSet(t)
    <2>1. PICK i \in 1..(Len(s) + Len(t)) : x = (s \o t)[i]
      BY <1>1 DEF ToSet
    <2>2. CASE i <= Len(s)
      BY <2>1, <2>2, <1>1 DEF ToSet
    <2>3. CASE i > Len(s)
      <3>1. i - Len(s) \in 1..Len(t) /\ x = t[i - Len(s)]
        BY <2>1, <2>3, <1>1
      <3> QED
        BY <3>1 DEF ToSet
    <2> QED
      BY <2>2, <2>3, <1>1
  <1>3. ASSUME NEW x \in ToSet(s) PROVE x \in ToSet(s \o t)
    <2>1. PICK i \in 1..Len(s) : x = s[i]
      BY DEF ToSet
    <2>2. i \in 1..Len(s \o t) /\ x = (s \o t)[i]
      BY <2>1, <1>1
    <2> QED
      BY <2>2, <1>1 DEF ToSet
  <1>4. ASSUME NEW x \in ToSet(t) PROVE x \in ToSet(s \o t)
    <2>1. PICK i \in 1..Len(t) : x = t[i]
      BY DEF ToSet
    <2>2. i + Len(s) \in 1..Len(s \o t) /\ x = (s \o t)[i + Len(s)]
      BY <2>1, <1>1
    <2> QED
      BY <2>2, <1>1 DEF ToSet
  <1> QED
    BY <1>1, <1>2, <1>3, <1>4

\* EffectiveInstanceIDs lists the machines of every member, and no others.
LEMMA EffectiveIDs ==
    ASSUME NEW d \in DepRecord
    PROVE  /\ EffectiveInstanceIDs(d) \in Seq(Ids)
           /\ \A x : x \in ToSet(EffectiveInstanceIDs(d))
                        <=> \E m \in DOMAIN d.reps : x \in ToSet(d.reps[m].ids)
  <1>1. DOMAIN d.reps \subseteq {1, 2, 3}
    BY Bounds DEF DepRecord
  <1>2. /\ memberInstanceIDs(d, 1) \in Seq(Ids)
        /\ memberInstanceIDs(d, 2) \in Seq(Ids)
        /\ memberInstanceIDs(d, 3) \in Seq(Ids)
    BY MemberIDs
  <1>3. /\ EffectiveInstanceIDs(d) \in Seq(Ids)
        /\ ToSet(EffectiveInstanceIDs(d))
             = (ToSet(memberInstanceIDs(d, 1)) \cup ToSet(memberInstanceIDs(d, 2)))
                 \cup ToSet(memberInstanceIDs(d, 3))
    <2>1. PICK ab \in Seq(Ids) :
            /\ ab = memberInstanceIDs(d, 1) \o memberInstanceIDs(d, 2)
            /\ ToSet(ab) = ToSet(memberInstanceIDs(d, 1)) \cup ToSet(memberInstanceIDs(d, 2))
      BY <1>2, ConcatSet
    <2>2. /\ ab \o memberInstanceIDs(d, 3) \in Seq(Ids)
          /\ ToSet(ab \o memberInstanceIDs(d, 3))
               = ToSet(ab) \cup ToSet(memberInstanceIDs(d, 3))
      BY <1>2, ConcatSet
    <2>3. EffectiveInstanceIDs(d) = ab \o memberInstanceIDs(d, 3)
      BY <2>1 DEF EffectiveInstanceIDs
    <2> QED
      BY <2>1, <2>2, <2>3
  <1>4. \A x : /\ x \in ToSet(memberInstanceIDs(d, 1))
                    <=> 1 \in DOMAIN d.reps /\ x \in ToSet(d.reps[1].ids)
               /\ x \in ToSet(memberInstanceIDs(d, 2))
                    <=> 2 \in DOMAIN d.reps /\ x \in ToSet(d.reps[2].ids)
               /\ x \in ToSet(memberInstanceIDs(d, 3))
                    <=> 3 \in DOMAIN d.reps /\ x \in ToSet(d.reps[3].ids)
    BY MemberIDs
  <1> QED
    BY <1>1, <1>3, <1>4

-----------------------------------------------------------------------------
(* What a step may do to the record *)

\* One field of the record changes, or the id is created again.
DepStep ==
    \/ dep' = dep
    \/ dep' = [dep EXCEPT !.act = clock.now]
    \/ \E b \in (SUBSET Ids) : dep' = [dep EXCEPT !.bad = b]
    \/ \E s \in {"DEGRADED", "TERMINATING", "TERMINATED"} : dep' = [dep EXCEPT !.st = s]
    \/ \E m \in Members : /\ m = Len(dep.reps) + 1
                          /\ dep' = [dep EXCEPT !.reps = Append(@, newMember(m, 1, FALSE))]
    \/ \E m \in Members : /\ m <= Len(dep.reps)
                          /\ dep' = [dep EXCEPT !.reps[m].ep = TRUE]
    \/ /\ "recreate" \in scenario.ops
       /\ dep' = [NoDep EXCEPT !.reps = FreshReps, !.act = clock.now]

\* Quarantine and Restore write machines of this deployment only.
LEMMA FlagsStay ==
    ASSUME PartsTyped, NEW i \in 0..(2 * MaxMembers), Quarantine(i) \/ Restore(i)
    PROVE  DepStep
  <1>1. dep.bad \in (SUBSET Ids) /\ (i # 0 => i \in Ids)
    BY Bounds DEF PartsTyped, DepRecord, Ids
  <1>2. PICK b \in (SUBSET Ids) : dep' = [dep EXCEPT !.bad = b]
    BY <1>1 DEF Quarantine, Restore
  <1> QED
    BY <1>2 DEF DepStep

\* A destroy changes the state only.
LEMMA DestroyStays ==
    ASSUME NEW ok \in BOOLEAN, DestroyDeployment(ok)
    PROVE  DepStep
  <1>1. CASE dep.st = "TERMINATED"
    BY <1>1 DEF DestroyDeployment, DepStep
  <1>2. CASE dep.st # "TERMINATED"
    <2>1. PICK s \in {"DEGRADED", "TERMINATING", "TERMINATED"} : dep' = [dep EXCEPT !.st = s]
      BY <1>2 DEF DestroyDeployment
    <2> QED
      BY <2>1 DEF DepStep
  <1> QED
    BY <1>1, <1>2

\* Every step is one of these to the record.
LEMMA DepSteps ==
    ASSUME TrafficInv, [Next]_vars
    PROVE  DepStep
  <1> USE DEF DepStep
  <1>0. PartsTyped
    BY DEF TrafficInv
  <1>1. CASE UNCHANGED vars
    BY <1>1 DEF vars
  <1>2. CASE RouterStep
    <2>1. PICK r \in Requests : ServeDescribe(r) \/ Dispatch(r) \/ TouchActivity(r) \/ ProxyReturns(r)
      BY <1>2 DEF RouterStep
    <2>2. CASE ServeDescribe(r) \/ Dispatch(r) \/ ProxyReturns(r)
      BY <2>2 DEF ServeDescribe, Dispatch, ProxyReturns
    <2>3. CASE TouchActivity(r)
      BY <2>3 DEF TouchActivity, TouchDeployment
    <2> QED
      BY <2>1, <2>2, <2>3
  <1>3. CASE HealthStep
    <2>1. CASE HealthTick
      BY <2>1 DEF HealthTick
    <2>2. ASSUME NEW p \in health.probes, Probe(p) PROVE DepStep
      <3>1. PICK s : Decide(p, s)
        BY <2>2 DEF Probe
      <3>2. p.id \in 0..(2 * MaxMembers)
        BY <1>0 DEF PartsTyped, ProbeRecord
      <3>3. UNCHANGED dep \/ Quarantine(p.id) \/ Restore(p.id)
        BY <3>1 DEF Decide
      <3>4. CASE UNCHANGED dep
        BY <3>4
      <3>5. CASE Quarantine(p.id) \/ Restore(p.id)
        BY <3>5, <3>2, <1>0, FlagsStay
      <3> QED
        BY <3>3, <3>4, <3>5
    <2> QED
      BY <1>3, <2>1, <2>2 DEF HealthStep
  <1>4. CASE ReaperStep
    <2>1. CASE Sweep
      BY <2>1 DEF Sweep
    <2>2. ASSUME NEW ok \in BOOLEAN, SweepDestroy(ok) PROVE DepStep
      BY <2>2, DestroyStays DEF SweepDestroy
    <2> QED
      BY <1>4, <2>1, <2>2 DEF ReaperStep
  <1>5. CASE OperatorStep
    <2>1. CASE OperatorTouch
      BY <2>1 DEF OperatorTouch, TouchDeployment
    <2>2. CASE DrainRead \/ DrainWait \/ OperatorScale \/ MigrateRead \/ MigrateGrow
      BY <2>2 DEF DrainRead, DrainWait, OperatorScale, MigrateRead, MigrateGrow
    <2>3. CASE DrainMark
      <3>1. op.ids \in Seq(Ids) /\ op.ids # <<>>
        BY <1>0, <2>3 DEF PartsTyped, OpRecord, DrainMark
      <3>2. Head(op.ids) \in Ids
        BY <3>1
      <3>3. Head(op.ids) \in 0..(2 * MaxMembers)
        BY <3>2, Bounds DEF Ids
      <3> QED
        BY <3>3, <2>3, <1>0, FlagsStay DEF DrainMark
    <2>4. ASSUME NEW ok \in BOOLEAN, DrainRelease(ok) PROVE DepStep
      BY <2>4, DestroyStays DEF DrainRelease
    <2>5. CASE Recreate
      BY <2>5 DEF Recreate, FreshReps
    <2>6. ASSUME NEW m \in Members, GrowPlace(m) PROVE DepStep
      BY <2>6 DEF GrowPlace
    <2>7. ASSUME NEW m \in Members, NEW ok \in BOOLEAN, GrowEnd(m, ok) PROVE DepStep
      BY <2>7 DEF GrowEnd
    <2> QED
      BY <1>5, <2>1, <2>2, <2>3, <2>4, <2>5, <2>6, <2>7 DEF OperatorStep
  <1>6. ASSUME NEW m \in Members, NEW s, EngineTurns(m, s) PROVE DepStep
    BY <1>6 DEF EngineTurns
  <1>7. CASE ClockTicks
    BY <1>7 DEF ClockTicks
  <1> QED
    BY <1>1, <1>2, <1>3, <1>4, <1>5, <1>6, <1>7 DEF Next

\* What an append does.
LEMMA Appended ==
    ASSUME NEW s \in Seq(ReplicaBacking), NEW e \in ReplicaBacking
    PROVE  /\ Append(s, e) \in Seq(ReplicaBacking)
           /\ Len(Append(s, e)) = Len(s) + 1
           /\ Append(s, e)[Len(s) + 1] = e
           /\ \A n \in 1..Len(s) : Append(s, e)[n] = s[n]
OBVIOUS

\* An endpoint that appears leaves the machines alone.
LEMMA EndpointOn ==
    ASSUME NEW c \in ReplicaBacking
    PROVE  [c EXCEPT !.ep = TRUE] \in ReplicaBacking /\ [c EXCEPT !.ep = TRUE].ids = c.ids
  <1>1. [c EXCEPT !.ep = TRUE] \in ReplicaBacking
    BY Zenon DEF ReplicaBacking
  <1>2. [c EXCEPT !.ep = TRUE].ids = c.ids
    BY DEF ReplicaBacking
  <1> QED
    BY <1>1, <1>2

\* What it does to the members: nothing, one more, an endpoint, or a fresh start.
RepsStep ==
    \/ dep'.reps = dep.reps
    \/ \E m \in Members : /\ m = Len(dep.reps) + 1
                          /\ dep'.reps = Append(dep.reps, newMember(m, 1, FALSE))
    \/ \E m \in Members : /\ m <= Len(dep.reps)
                          /\ dep'.reps = [dep.reps EXCEPT ![m].ep = TRUE]
    \/ /\ "recreate" \in scenario.ops
       /\ dep'.reps = FreshReps

\* The members after a step are typed, and a member that stays keeps its
\* machines unless the id is created again.
LEMMA RepsSteps ==
    ASSUME TrafficInv, DepStep
    PROVE  /\ RepsStep
           /\ dep'.reps \in Seq(ReplicaBacking)
           /\ Len(dep'.reps) <= MaxMembers
           /\ \/ "recreate" \in scenario.ops /\ dep'.reps = FreshReps
              \/ /\ Len(dep.reps) <= Len(dep'.reps)
                 /\ \A m \in DOMAIN dep.reps : dep'.reps[m].ids = dep.reps[m].ids
                 /\ \A m \in DOMAIN dep'.reps \ DOMAIN dep.reps :
                       dep'.reps[m].ids = [k \in 1..1 |-> NodeId(m, k)]
  <1>0. dep \in DepRecord /\ scenario \in Scenarios
    BY DEF TrafficInv, PartsTyped
  <1>1. dep.reps \in Seq(ReplicaBacking) /\ Len(dep.reps) <= MaxMembers
    BY <1>0 DEF DepRecord
  <1>2. RepsStep
    <2>1. CASE \/ dep' = dep \/ dep' = [dep EXCEPT !.act = clock.now]
               \/ \E b \in (SUBSET Ids) : dep' = [dep EXCEPT !.bad = b]
               \/ \E s \in {"DEGRADED", "TERMINATING", "TERMINATED"} :
                     dep' = [dep EXCEPT !.st = s]
      BY <2>1, <1>0 DEF RepsStep, DepRecord
    <2>2. ASSUME NEW m \in Members, m = Len(dep.reps) + 1,
                 dep' = [dep EXCEPT !.reps = Append(@, newMember(m, 1, FALSE))]
          PROVE  RepsStep
      BY <2>2, <1>0 DEF RepsStep, DepRecord
    <2>3. ASSUME NEW m \in Members, m <= Len(dep.reps),
                 dep' = [dep EXCEPT !.reps[m].ep = TRUE]
          PROVE  RepsStep
      BY <2>3, <1>0 DEF RepsStep, DepRecord
    <2>4. CASE /\ "recreate" \in scenario.ops
               /\ dep' = [NoDep EXCEPT !.reps = FreshReps, !.act = clock.now]
      BY <2>4 DEF RepsStep, NoDep
    <2> QED
      BY <2>1, <2>2, <2>3, <2>4 DEF DepStep
  <1>3. CASE dep'.reps = dep.reps
    BY <1>1, <1>2, <1>3
  <1>4. ASSUME NEW m \in Members, m = Len(dep.reps) + 1,
               dep'.reps = Append(dep.reps, newMember(m, 1, FALSE))
        PROVE  /\ dep'.reps \in Seq(ReplicaBacking)
               /\ Len(dep'.reps) <= MaxMembers
               /\ Len(dep.reps) <= Len(dep'.reps)
               /\ \A n \in DOMAIN dep.reps : dep'.reps[n].ids = dep.reps[n].ids
               /\ \A n \in DOMAIN dep'.reps \ DOMAIN dep.reps :
                       dep'.reps[n].ids = [k \in 1..1 |-> NodeId(n, k)]
    <2>1. 1 \in 1..2 /\ FALSE \in BOOLEAN
      OBVIOUS
    <2>2. /\ newMember(m, 1, FALSE) \in ReplicaBacking
          /\ newMember(m, 1, FALSE).ids = [k \in 1..1 |-> NodeId(m, k)]
      BY <2>1, NewMember
    <2>3. PICK b \in ReplicaBacking : b = newMember(m, 1, FALSE)
      BY <2>2
    <2>4. b.ids = [k \in 1..1 |-> NodeId(m, k)] /\ dep'.reps = Append(dep.reps, b)
      BY <2>2, <2>3, <1>4
    <2>5. PICK q \in Seq(ReplicaBacking) : q = Append(dep.reps, b)
      BY <1>1, Appended
    <2>6. Len(q) = m /\ q[m] = b /\ \A n \in 1..Len(dep.reps) : q[n] = dep.reps[n]
      BY <2>5, <1>1, <1>4, Appended
    <2>7. DOMAIN q = 1..m /\ DOMAIN dep.reps = 1..Len(dep.reps) /\ Len(dep.reps) \in Nat
      BY <2>6, <1>1, <1>4
    <2>8. DOMAIN q \ DOMAIN dep.reps = {m}
      BY <2>7, <1>4
    <2>9. dep'.reps = q /\ m <= MaxMembers
      BY <2>4, <2>5, Bounds
    <2>13. dep'.reps \in Seq(ReplicaBacking) /\ Len(dep'.reps) = m
      BY <2>5, <2>6, <2>9
    <2>14. Len(dep.reps) <= m
      BY <2>7, <1>4
    <2>10. /\ dep'.reps \in Seq(ReplicaBacking) /\ Len(dep'.reps) <= MaxMembers
           /\ Len(dep.reps) <= Len(dep'.reps)
      BY <2>9, <2>13, <2>14
    <2>11. \A n \in DOMAIN dep.reps : dep'.reps[n].ids = dep.reps[n].ids
      BY <2>6, <2>7, <2>9
    <2>12. \A n \in DOMAIN dep'.reps \ DOMAIN dep.reps :
                dep'.reps[n].ids = [k \in 1..1 |-> NodeId(n, k)]
      BY <2>4, <2>6, <2>8, <2>9
    <2> QED
      BY <2>10, <2>11, <2>12
  <1>5. ASSUME NEW m \in Members, m <= Len(dep.reps),
               dep'.reps = [dep.reps EXCEPT ![m].ep = TRUE]
        PROVE  /\ dep'.reps \in Seq(ReplicaBacking)
               /\ Len(dep'.reps) <= MaxMembers
               /\ Len(dep.reps) <= Len(dep'.reps)
               /\ \A n \in DOMAIN dep.reps : dep'.reps[n].ids = dep.reps[n].ids
               /\ DOMAIN dep'.reps \ DOMAIN dep.reps = {}
    <2>1. m \in DOMAIN dep.reps /\ dep.reps[m] \in ReplicaBacking
      BY <1>1, <1>5, Bounds
    <2>2. PICK b \in ReplicaBacking : b = [dep.reps[m] EXCEPT !.ep = TRUE]
                                      /\ b.ids = dep.reps[m].ids
      <3>1. PICK c \in ReplicaBacking : c = dep.reps[m]
        BY <2>1
      <3> QED
        BY <3>1, EndpointOn
    <2>3. dep'.reps = [dep.reps EXCEPT ![m] = b]
      BY <1>5, <2>2
    <2> QED
      BY <2>1, <2>2, <2>3, <1>1
  <1>6. CASE "recreate" \in scenario.ops /\ dep'.reps = FreshReps
    BY <1>6, <1>0, <1>2, FreshTyped, ScenarioTyped, Bounds
  <1> QED
    BY <1>2, <1>3, <1>4, <1>5, <1>6 DEF RepsStep

-----------------------------------------------------------------------------
(* The invariant is inductive: the record, the loops and the operator *)

\* The circumstances never change.
LEMMA ScenarioStays ==
    ASSUME [Next]_vars
    PROVE  scenario' = scenario
BY DEF vars, Next, RouterStep, ServeDescribe, Dispatch, TouchActivity, ProxyReturns,
       HealthStep, HealthTick, Probe, ReaperStep, Sweep, SweepDestroy, OperatorStep,
       OperatorTouch, DrainRead, DrainMark, DrainWait, DrainRelease, OperatorScale,
       MigrateRead, MigrateGrow, Recreate, GrowPlace, GrowEnd, EngineTurns, ClockTicks

\* The record stays typed, and its members keep their machines.
LEMMA RecordKept ==
    ASSUME TrafficInv, [Next]_vars
    PROVE  (dep \in DepRecord)' /\ Shaped'
  <1>0. /\ dep \in DepRecord /\ scenario \in Scenarios /\ clock.now \in Nat /\ Shaped
    BY DEF TrafficInv, PartsTyped, Stamps
  <1>1. DepStep
    BY DepSteps
  <1>2. /\ dep'.reps \in Seq(ReplicaBacking) /\ Len(dep'.reps) <= MaxMembers
    BY <1>1, RepsSteps
  <1>3. scenario' = scenario
    BY ScenarioStays
  <1>4. dep' \in DepRecord
    <2>1. CASE \/ dep' = dep \/ dep' = [dep EXCEPT !.act = clock.now]
               \/ \E b \in (SUBSET Ids) : dep' = [dep EXCEPT !.bad = b]
               \/ \E s \in {"DEGRADED", "TERMINATING", "TERMINATED"} :
                     dep' = [dep EXCEPT !.st = s]
      BY <2>1, <1>0 DEF DepRecord
    <2>2. ASSUME NEW q, dep' = [dep EXCEPT !.reps = q] PROVE dep' \in DepRecord
      <3>1. q = dep'.reps
        BY <2>2, <1>0 DEF DepRecord
      <3>2. q \in {s \in Seq(ReplicaBacking) : Len(s) <= MaxMembers}
        BY <3>1, <1>2
      <3> QED
        BY <3>2, <2>2, <1>0 DEF DepRecord
    <2>3. CASE \E m \in Members : /\ m <= Len(dep.reps)
                                  /\ dep' = [dep EXCEPT !.reps[m].ep = TRUE]
      <3>1. PICK m \in Members : dep' = [dep EXCEPT !.reps = [dep.reps EXCEPT ![m].ep = TRUE]]
        BY <2>3, <1>0 DEF DepRecord
      <3> QED
        BY <3>1, <2>2
    <2>4. CASE \E m \in Members :
                  /\ m = Len(dep.reps) + 1
                  /\ dep' = [dep EXCEPT !.reps = Append(@, newMember(m, 1, FALSE))]
      BY <2>4, <2>2
    <2>5. CASE dep' = [NoDep EXCEPT !.reps = FreshReps, !.act = clock.now]
      <3>1. dep' = [st |-> "RUNNING", reps |-> FreshReps, bad |-> {}, act |-> clock.now]
        BY <2>5 DEF NoDep
      <3>2. FreshReps \in {s \in Seq(ReplicaBacking) : Len(s) <= MaxMembers}
        BY <3>1, <1>2
      <3> QED
        BY <3>1, <3>2, <1>0 DEF DepRecord
    <2> QED
      BY <1>1, <2>1, <2>3, <2>4, <2>5 DEF DepStep
  <1>5. Shaped'
    <2>1. \A m : NodesOf(m)' = NodesOf(m)
      BY <1>3 DEF NodesOf
    <2>2. CASE dep'.reps = FreshReps
      BY <2>1, <2>2, <1>0, <1>3, FreshTyped, ScenarioTyped, Bounds DEF Shaped
    <2>3. CASE /\ Len(dep.reps) <= Len(dep'.reps)
               /\ \A m \in DOMAIN dep.reps : dep'.reps[m].ids = dep.reps[m].ids
               /\ \A m \in DOMAIN dep'.reps \ DOMAIN dep.reps :
                     dep'.reps[m].ids = [k \in 1..1 |-> NodeId(m, k)]
      <3>1. Len(scenario.nodes) <= Len(dep'.reps)
        BY <2>3, <1>0, <1>2, ScenarioTyped, Bounds DEF Shaped, DepRecord
      <3>2. DOMAIN scenario.nodes \subseteq DOMAIN dep.reps
        BY <1>0, ScenarioTyped DEF Shaped, DepRecord
      <3>3. \A m \in DOMAIN dep'.reps :
                dep'.reps[m].ids = [k \in 1..NodesOf(m) |-> NodeId(m, k)]
        <4>1. ASSUME NEW m \in DOMAIN dep'.reps, m \in DOMAIN dep.reps
              PROVE  dep'.reps[m].ids = [k \in 1..NodesOf(m) |-> NodeId(m, k)]
          BY <4>1, <2>3, <1>0 DEF Shaped
        <4>2. ASSUME NEW m \in DOMAIN dep'.reps, m \notin DOMAIN dep.reps
              PROVE  dep'.reps[m].ids = [k \in 1..NodesOf(m) |-> NodeId(m, k)]
          BY <4>2, <2>3, <3>2 DEF NodesOf
        <4> QED
          BY <4>1, <4>2
      <3> QED
        BY <3>1, <3>3, <2>1, <1>3 DEF Shaped
    <2> QED
      BY <2>2, <2>3, <1>1, RepsSteps
  <1> QED
    BY <1>4, <1>5

\* Where the entries of three short sequences come to stand.
LEMMA Joined ==
    ASSUME NEW s \in Seq(Ids), NEW t \in Seq(Ids), NEW u \in Seq(Ids)
    PROVE  /\ Len((s \o t) \o u) = Len(s) + Len(t) + Len(u)
           /\ Len(s) = 1 => ((s \o t) \o u)[1] = s[1]
           /\ Len(s) = 1 /\ Len(t) = 1 => ((s \o t) \o u)[2] = t[1]
           /\ Len(s) = 1 /\ Len(t) = 1 /\ Len(u) = 1 => ((s \o t) \o u)[3] = u[1]
  <1>1. PICK st \in Seq(Ids) : st = s \o t
    BY ConcatSet
  <1>2. /\ Len(st) = Len(s) + Len(t) /\ Len(s) \in Nat /\ Len(t) \in Nat /\ Len(u) \in Nat
        /\ Len(s) = 1 => st[1] = s[1]
        /\ Len(s) = 1 /\ Len(t) = 1 => st[2] = t[1]
    BY <1>1
  <1>3. Len(st \o u) = Len(st) + Len(u)
    BY <1>1
  <1>4. Len(s) = 1 => (st \o u)[1] = st[1]
    BY <1>1, <1>2
  <1>5. Len(s) = 1 /\ Len(t) = 1 => (st \o u)[2] = st[2]
    BY <1>1, <1>2
  <1>6. Len(s) = 1 /\ Len(t) = 1 /\ Len(u) = 1 => (st \o u)[3] = u[1]
    BY <1>1, <1>2
  <1> QED
    BY <1>1, <1>2, <1>3, <1>4, <1>5, <1>6

\* The health loop pairs endpoints with machines of the deployment, and where
\* every member has one machine with its own.
LEMMA SnapshotTyped ==
    ASSUME TrafficInv
    PROVE  /\ Snapshot(dep) \subseteq ProbeRecord
           /\ (\A m \in DOMAIN scenario.nodes : scenario.nodes[m] = 1)
                 => \A p \in Snapshot(dep) : p.id = NodeId(p.m, 1)
  <1>0. /\ dep \in DepRecord /\ scenario \in Scenarios /\ Shaped
    BY DEF TrafficInv, PartsTyped
  <1>1. /\ EffectiveInstanceIDs(dep) \in Seq(Ids)
        /\ DOMAIN dep.reps = 1..Len(dep.reps)
        /\ Len(dep.reps) \in Nat /\ Len(dep.reps) <= MaxMembers
    BY <1>0, EffectiveIDs DEF DepRecord
  <1>2. Snapshot(dep) \subseteq ProbeRecord
    <2>1. ASSUME NEW m \in EffectiveEndpoints(dep)
          PROVE  [m |-> m, id |-> IF m <= Len(EffectiveInstanceIDs(dep))
                                  THEN EffectiveInstanceIDs(dep)[m] ELSE 0,
                  marked |-> m <= Len(EffectiveInstanceIDs(dep))
                               /\ EffectiveInstanceIDs(dep)[m] \in dep.bad] \in ProbeRecord
      <3>1. m \in Members /\ m \in 1..Len(dep.reps)
        BY <1>1, Bounds DEF EffectiveEndpoints
      <3>2. PICK ids \in Seq(Ids) : ids = EffectiveInstanceIDs(dep)
        BY <1>1
      <3>3. (IF m <= Len(ids) THEN ids[m] ELSE 0) \in 0..(2 * MaxMembers)
        <4>1. CASE m <= Len(ids)
          <5>1. m \in 1..Len(ids)
            BY <3>1, <4>1, Bounds
          <5>2. ids[m] \in Ids
            BY <5>1
          <5> QED
            BY <5>2, <4>1, Bounds DEF Ids
        <4>2. CASE ~ (m <= Len(ids))
          BY <4>2, Bounds
        <4> QED
          BY <4>1, <4>2
      <3>4. (m <= Len(ids) /\ ids[m] \in dep.bad) \in BOOLEAN
        OBVIOUS
      <3> QED
        BY <3>1, <3>2, <3>3, <3>4 DEF ProbeRecord
    <2> QED
      BY <2>1 DEF Snapshot
  <1>3. ASSUME \A m \in DOMAIN scenario.nodes : scenario.nodes[m] = 1,
               NEW p \in Snapshot(dep)
        PROVE  p.id = NodeId(p.m, 1)
    <2>1. \A m \in DOMAIN dep.reps : NodesOf(m) = 1
      BY <1>3 DEF NodesOf
    <2>2. \A m \in DOMAIN dep.reps : dep.reps[m].ids = <<NodeId(m, 1)>>
      <3>1. \A m : [k \in 1..1 |-> NodeId(m, k)] = <<NodeId(m, 1)>>
        OBVIOUS
      <3> QED
        BY <2>1, <3>1, <1>0 DEF Shaped
    <2>3. \A m \in {1, 2, 3} :
             /\ memberInstanceIDs(dep, m) \in Seq(Ids)
             /\ m \in 1..Len(dep.reps) => /\ Len(memberInstanceIDs(dep, m)) = 1
                                          /\ memberInstanceIDs(dep, m)[1] = NodeId(m, 1)
      <3>1. \A m : memberInstanceIDs(dep, m) \in Seq(Ids)
        BY <1>0, MemberIDs
      <3>2. \A m \in 1..Len(dep.reps) : memberInstanceIDs(dep, m) = <<NodeId(m, 1)>>
        BY <2>2, <1>1 DEF memberInstanceIDs
      <3>3. \A x : Len(<<x>>) = 1 /\ <<x>>[1] = x
        OBVIOUS
      <3> QED
        BY <3>1, <3>2, <3>3
    <2>4. PICK m \in EffectiveEndpoints(dep) :
             /\ p.m = m
             /\ p.id = IF m <= Len(EffectiveInstanceIDs(dep))
                       THEN EffectiveInstanceIDs(dep)[m] ELSE 0
      BY DEF Snapshot
    <2>5. m \in 1..Len(dep.reps) /\ m \in {1, 2, 3}
      <3>1. m \in DOMAIN dep.reps
        BY DEF EffectiveEndpoints
      <3>2. PICK n \in Nat : n = Len(dep.reps) /\ n <= MaxMembers /\ m \in 1..n
        BY <3>1, <1>1
      <3>3. m \in {1, 2, 3}
        BY <3>2, Bounds
      <3> QED
        BY <3>2, <3>3
    <2>6. PICK s \in Seq(Ids), t \in Seq(Ids), u \in Seq(Ids) :
            /\ s = memberInstanceIDs(dep, 1) /\ t = memberInstanceIDs(dep, 2)
            /\ u = memberInstanceIDs(dep, 3)
      BY <2>3
    <2>7. EffectiveInstanceIDs(dep) = (s \o t) \o u
      BY <2>6 DEF EffectiveInstanceIDs
    <2>8. /\ Len(s) \in Nat /\ Len(t) \in Nat /\ Len(u) \in Nat
          /\ Len((s \o t) \o u) = Len(s) + Len(t) + Len(u)
      BY <2>6, Joined
    <2>9. CASE m = 1
      <3>1. Len(s) = 1 /\ s[1] = NodeId(1, 1)
        BY <2>3, <2>5, <2>6, <2>9
      <3> QED
        BY <3>1, <2>4, <2>7, <2>8, <2>9, Joined
    <2>10. CASE m = 2
      <3>1. /\ 1 \in 1..Len(dep.reps) /\ 2 \in 1..Len(dep.reps)
        BY <2>5, <2>10, <1>1
      <3>2. Len(s) = 1 /\ Len(t) = 1 /\ t[1] = NodeId(2, 1)
        BY <3>1, <2>3, <2>6
      <3> QED
        BY <3>2, <2>4, <2>7, <2>8, <2>10, Joined
    <2>11. CASE m = 3
      <3>1. /\ 1 \in 1..Len(dep.reps) /\ 2 \in 1..Len(dep.reps) /\ 3 \in 1..Len(dep.reps)
        BY <2>5, <2>11, <1>1
      <3>2. Len(s) = 1 /\ Len(t) = 1 /\ Len(u) = 1 /\ u[1] = NodeId(3, 1)
        BY <3>1, <2>3, <2>6
      <3> QED
        BY <3>2, <2>4, <2>7, <2>8, <2>11, Joined
    <2> QED
      BY <2>5, <2>9, <2>10, <2>11
  <1> QED
    BY <1>2, <1>3

\* The engines, the probes, the reaper, the operator's call and the slots under
\* way stay typed, and the reaper never passes its retries.
LEMMA PartsKept ==
    ASSUME TrafficInv, [Next]_vars
    PROVE  PartsTyped' /\ Paired'
  <1>0. PartsTyped /\ Paired /\ Shaped
    BY DEF TrafficInv
  <1>a. dep' \in DepRecord /\ scenario' \in Scenarios
    BY <1>0, RecordKept, ScenarioStays DEF PartsTyped
  <1>b. scenario' = scenario
    BY ScenarioStays
  <1>1. engine' \in [Members -> {"up", "busy", "dead"}]
    <2>0. engine \in [Members -> {"up", "busy", "dead"}]
      BY <1>0 DEF PartsTyped
    <2>1. \/ engine' = engine
          \/ engine' = [m \in Members |-> "dead"]
          \/ engine' = [m \in Members |-> "up"]
          \/ \E m \in Members, s \in {"up", "busy", "dead"} : engine' = [engine EXCEPT ![m] = s]
      BY DEF vars, Next, RouterStep, ServeDescribe, Dispatch, TouchActivity, ProxyReturns,
       HealthStep, HealthTick, Probe, ReaperStep, Sweep, SweepDestroy, OperatorStep,
       OperatorTouch, DrainRead, DrainMark, DrainWait, DrainRelease, OperatorScale,
       MigrateRead, MigrateGrow, Recreate, GrowPlace, GrowEnd, EngineTurns, ClockTicks,
       DestroyDeployment
    <2> QED
      BY <2>0, <2>1
  <1>2. health'.probes \subseteq ProbeRecord /\ Paired'
    <2>1. \/ health'.probes \subseteq health.probes
          \/ health'.probes = Snapshot(dep)
      <3>1. CASE HealthTick
        BY <3>1 DEF HealthTick
      <3>2. ASSUME NEW p \in health.probes, Probe(p) PROVE health'.probes \subseteq health.probes
        BY <3>2 DEF Probe
      <3>3. CASE ~ HealthStep
        <4>1. health' = health
          BY <3>3 DEF vars, Next, RouterStep, ServeDescribe, Dispatch, TouchActivity,
             ProxyReturns, ReaperStep, Sweep, SweepDestroy, OperatorStep,
             OperatorTouch, DrainRead, DrainMark, DrainWait, DrainRelease, OperatorScale,
             MigrateRead, MigrateGrow, Recreate, GrowPlace, GrowEnd, EngineTurns, ClockTicks
        <4> QED
          BY <4>1
      <3> QED
        BY <3>1, <3>2, <3>3 DEF HealthStep
    <2>2. health.probes \subseteq ProbeRecord
      BY <1>0 DEF PartsTyped
    <2>3. health'.probes \subseteq ProbeRecord
      BY <2>1, <2>2, SnapshotTyped
    <2>4. Paired'
      BY <2>1, <1>0, <1>b, SnapshotTyped DEF Paired
    <2> QED
      BY <2>3, <2>4
  <1>3. /\ reaper' \in [at : {"idle", "destroy"}, retries : 0..MaxDestroyRetries]
        /\ reaper'.at = "destroy" => reaper'.retries < MaxDestroyRetries
    <2>0. /\ reaper \in [at : {"idle", "destroy"}, retries : 0..MaxDestroyRetries]
          /\ reaper.at = "destroy" => reaper.retries < MaxDestroyRetries
      BY <1>0 DEF PartsTyped
    <2>1. CASE Sweep
      BY <2>0, <2>1, Bounds DEF Sweep
    <2>2. ASSUME NEW ok \in BOOLEAN, SweepDestroy(ok)
          PROVE  /\ reaper' \in [at : {"idle", "destroy"}, retries : 0..MaxDestroyRetries]
                 /\ reaper'.at = "destroy" => reaper'.retries < MaxDestroyRetries
      <3>1. PICK n : n = (IF ok THEN 0 ELSE reaper.retries + 1)
        OBVIOUS
      <3>2. n \in 0..MaxDestroyRetries
        BY <3>1, <2>0, <2>2, Bounds DEF SweepDestroy
      <3>3. reaper' = [at |-> "idle", retries |-> n]
        BY <3>1, <2>2 DEF SweepDestroy
      <3> QED
        BY <3>2, <3>3
    <2>3. CASE ~ ReaperStep
      <3>1. reaper' = reaper
        BY <2>3 DEF vars, Next, RouterStep, ServeDescribe, Dispatch, TouchActivity,
           ProxyReturns, HealthStep, HealthTick, Probe, OperatorStep,
           OperatorTouch, DrainRead, DrainMark, DrainWait, DrainRelease, OperatorScale,
           MigrateRead, MigrateGrow, Recreate, GrowPlace, GrowEnd, EngineTurns, ClockTicks
      <3> QED
        BY <3>1, <2>0
    <2> QED
      BY <2>1, <2>2, <2>3 DEF ReaperStep
  <1>4. op' \in OpRecord
    <2>0. op \in OpRecord /\ dep \in DepRecord
      BY <1>0 DEF PartsTyped
    <2>1. Idle \in OpRecord
      BY DEF Idle, OpRecord
    <2>2. /\ EffectiveInstanceIDs(dep) \in Seq(Ids)
          /\ ToSet(EffectiveInstanceIDs(dep)) \in (SUBSET Ids)
      BY <2>0, EffectiveIDs DEF ToSet
    <2>3. CASE DrainRead
      BY <2>2, <2>3 DEF DrainRead, Idle, OpRecord
    <2>4. CASE DrainMark
      <3>1. op.ids \in Seq(Ids) /\ op.ids # <<>>
        BY <2>0, <2>4 DEF OpRecord, DrainMark
      <3>2. Head(op.ids) \in Ids /\ Tail(op.ids) \in Seq(Ids)
        BY <3>1
      <3> QED
        BY <3>2, <2>0, <2>4 DEF DrainMark, OpRecord
    <2>5. CASE DrainWait
      BY <2>0, <2>1, <2>5 DEF DrainWait, OpRecord
    <2>6. ASSUME NEW ok \in BOOLEAN, DrainRelease(ok) PROVE op' \in OpRecord
      BY <2>6, <2>1 DEF DrainRelease
    <2>7. CASE MigrateRead
      BY <2>2, <2>7 DEF MigrateRead, Idle, OpRecord
    <2>8. CASE MigrateGrow
      BY <2>0, <2>1, <2>8 DEF MigrateGrow, OpRecord
    <2>9. CASE ~ OperatorStep
      <3>1. op' = op
        BY <2>9 DEF vars, Next, RouterStep, ServeDescribe, Dispatch, TouchActivity,
           ProxyReturns, HealthStep, HealthTick, Probe, ReaperStep, Sweep, SweepDestroy,
           EngineTurns, ClockTicks
      <3> QED
        BY <3>1, <2>0
    <2>10. CASE \/ OperatorTouch \/ OperatorScale \/ Recreate
                \/ \E m \in Members : GrowPlace(m) \/ \E ok \in BOOLEAN : GrowEnd(m, ok)
      <3>1. op' = op
        BY <2>10 DEF OperatorTouch, OperatorScale, Recreate, GrowPlace, GrowEnd
      <3> QED
        BY <3>1, <2>0
    <2> QED
      BY <2>3, <2>4, <2>5, <2>6, <2>7, <2>8, <2>9, <2>10 DEF OperatorStep
  <1>5. grow' \subseteq Members
    <2>0. /\ grow \subseteq Members /\ dep.reps \in Seq(ReplicaBacking)
      BY <1>0 DEF PartsTyped, DepRecord
    <2>1. ASSUME ScaleDeployment PROVE grow' \subseteq Members
      <3>1. Len(dep.reps) + 1 \in Members
        BY <2>0, <2>1, Bounds DEF ScaleDeployment
      <3> QED
        BY <3>1, <2>0, <2>1 DEF ScaleDeployment
    <2>2. \/ grow' = grow \/ ScaleDeployment \/ \E m \in Members : grow' = grow \ {m}
      BY DEF vars, Next, RouterStep, ServeDescribe, Dispatch, TouchActivity, ProxyReturns,
       HealthStep, HealthTick, Probe, ReaperStep, Sweep, SweepDestroy, OperatorStep,
       OperatorTouch, DrainRead, DrainMark, DrainWait, DrainRelease, OperatorScale,
       MigrateRead, MigrateGrow, Recreate, GrowPlace, GrowEnd, EngineTurns, ClockTicks
    <2> QED
      BY <2>0, <2>1, <2>2
  <1> QED
    BY <1>a, <1>1, <1>2, <1>3, <1>4, <1>5 DEF PartsTyped

-----------------------------------------------------------------------------
(* The invariant is inductive: the requests and the clock *)

\* A policy picks an eligible replica.
LEMMA PickEligible ==
    ASSUME NEW s, NEW elig, NEW m \in pickReplica(s, elig)
    PROVE  m \in elig
BY DEF pickReplica, Pinned, PrefixAffinityPick, leastInFlight, RoundRobinPick

\* An eligible replica is a member of the record.
LEMMA EligibleMember ==
    ASSUME NEW d \in DepRecord, NEW m \in eligibleReplicas(d)
    PROVE  m \in Members
  <1>1. m \in DOMAIN d.reps
    BY DEF eligibleReplicas, EffectiveEndpoints
  <1>2. d.reps \in Seq(ReplicaBacking) /\ Len(d.reps) <= MaxMembers
    BY DEF DepRecord
  <1>3. PICK n \in Nat : n = Len(d.reps) /\ m \in 1..n
    BY <1>1, <1>2
  <1> QED
    BY <1>2, <1>3, Bounds

\* What one request's step does, with the rest of the router's state: it is
\* queued, refused, sent to m, touched, or answered.
Queued(r) == /\ req[r].at = "none"
             /\ req' = [req EXCEPT ![r] = [at |-> "queued", saw |-> <<dep>>, m |-> 0]]
             /\ route' = route

Refused(r) == /\ req[r].at = "queued"
              /\ req' = [req EXCEPT ![r] = NoRequest]
              /\ \/ route' = route
                 \/ \E m \in Members : route' = afterPick(SessionOf[r], eligibleReplicas(req[r].saw[1]), m)

Sent(r, m) == /\ req[r].at = "queued"
              /\ req' = [req EXCEPT ![r] = [at |-> "touch", saw |-> <<>>, m |-> m]]
              /\ route' = trackInFlight(afterPick(SessionOf[r], eligibleReplicas(req[r].saw[1]), m), m)

Touched(r) == /\ req[r].at = "touch"
              /\ req' = [req EXCEPT ![r].at = "proxied"]
              /\ route' = route

Answered(r) == /\ req[r].at = "proxied"
               /\ req' = [req EXCEPT ![r] = NoRequest]
               /\ route' = trackDone(route, req[r].m)

\* The record that a queued request carries.
LEMMA SawTyped ==
    ASSUME RequestsTyped, NEW r \in Requests, req[r].at = "queued"
    PROVE  req[r].saw[1] \in DepRecord
  <1>1. req[r] \in ReqRecord /\ req[r].saw # <<>>
    BY DEF RequestsTyped
  <1>2. req[r].saw \in Seq(DepRecord)
    BY <1>1 DEF ReqRecord
  <1> QED
    BY <1>1, <1>2

\* Every step is one of these to some request, or leaves the router alone.
LEMMA RouterSteps ==
    ASSUME TrafficInv, [Next]_vars
    PROVE  \/ UNCHANGED <<req, route>>
           \/ \E r \in Requests :
                 \/ Queued(r) \/ Refused(r) \/ Touched(r) \/ Answered(r)
                 \/ \E m \in Members : Sent(r, m)
  <1>1. CASE RouterStep
    <2>1. PICK r \in Requests : ServeDescribe(r) \/ Dispatch(r) \/ TouchActivity(r) \/ ProxyReturns(r)
      BY <1>1 DEF RouterStep
    <2>2. CASE ServeDescribe(r)
      BY <2>2 DEF ServeDescribe, Queued
    <2>3. CASE Dispatch(r)
      <3>1. req[r].at = "queued"
        BY <2>3 DEF Dispatch
      <3>2. req[r].saw[1] \in DepRecord
        BY <3>1, SawTyped DEF TrafficInv
      <3>3. CASE req' = [req EXCEPT ![r] = NoRequest] /\ route' = route
        BY <3>1, <3>3 DEF Refused
      <3>4. CASE \E m \in pickReplica(SessionOf[r], eligibleReplicas(req[r].saw[1])) :
                   LET after == afterPick(SessionOf[r], eligibleReplicas(req[r].saw[1]), m) IN
                   \/ /\ req' = [req EXCEPT ![r] = [at |-> "touch", saw |-> <<>>, m |-> m]]
                      /\ route' = trackInFlight(after, m)
                   \/ /\ req' = [req EXCEPT ![r] = NoRequest]
                      /\ route' = after
        <4>1. PICK m \in pickReplica(SessionOf[r], eligibleReplicas(req[r].saw[1])) :
                LET after == afterPick(SessionOf[r], eligibleReplicas(req[r].saw[1]), m) IN
                \/ /\ req' = [req EXCEPT ![r] = [at |-> "touch", saw |-> <<>>, m |-> m]]
                   /\ route' = trackInFlight(after, m)
                \/ /\ req' = [req EXCEPT ![r] = NoRequest]
                   /\ route' = after
          BY <3>4
        <4>2. m \in Members
          BY <3>2, PickEligible, EligibleMember
        <4> QED
          BY <4>1, <4>2, <3>1 DEF Refused, Sent
      <3> QED
        BY <2>3, <3>3, <3>4 DEF Dispatch
    <2>4. CASE TouchActivity(r)
      BY <2>4 DEF TouchActivity, Touched
    <2>5. CASE ProxyReturns(r)
      BY <2>5 DEF ProxyReturns, Answered
    <2> QED
      BY <2>1, <2>2, <2>3, <2>4, <2>5
  <1>2. CASE ~ RouterStep
    BY <1>2 DEF vars, Next, HealthStep, HealthTick, Probe, ReaperStep, Sweep, SweepDestroy,
       OperatorStep, OperatorTouch, DrainRead, DrainMark, DrainWait, DrainRelease,
       OperatorScale, MigrateRead, MigrateGrow, Recreate, GrowPlace, GrowEnd, EngineTurns,
       ClockTicks
  <1> QED
    BY <1>1, <1>2

\* Requests stay typed.
LEMMA RequestsKept ==
    ASSUME TrafficInv, [Next]_vars
    PROVE  RequestsTyped'
  <1>0. RequestsTyped /\ dep \in DepRecord
    BY DEF TrafficInv, PartsTyped
  <1>1. NoRequest \in ReqRecord /\ NoRequest.at = "none"
    BY Bounds DEF NoRequest, ReqRecord
  <1>2. CASE UNCHANGED <<req, route>>
    BY <1>2, <1>0 DEF RequestsTyped
  <1>3. ASSUME NEW r \in Requests, NEW c \in ReqRecord, req' = [req EXCEPT ![r] = c],
               c.at = "queued" => c.saw # <<>>,
               c.at \in {"touch", "proxied"} => c.m \in Members
        PROVE  RequestsTyped'
    <2>1. \A s \in Requests : req'[s] = IF s = r THEN c ELSE req[s]
      BY <1>0, <1>3 DEF RequestsTyped
    <2>2. req' \in [Requests -> ReqRecord]
      BY <1>0, <1>3 DEF RequestsTyped
    <2> QED
      BY <2>1, <2>2, <1>0, <1>3 DEF RequestsTyped
  <1>4. ASSUME NEW r \in Requests, Queued(r) PROVE RequestsTyped'
    <2>1. PICK c : c = [at |-> "queued", saw |-> <<dep>>, m |-> 0]
      OBVIOUS
    <2>2. <<dep>> \in Seq(DepRecord) /\ <<dep>> # <<>>
      BY <1>0
    <2>3. c \in ReqRecord /\ c.at = "queued" /\ c.saw # <<>>
      BY <2>1, <2>2, Bounds DEF ReqRecord
    <2>4. req' = [req EXCEPT ![r] = c]
      BY <1>4, <2>1 DEF Queued
    <2> QED
      BY <2>3, <2>4, <1>3
  <1>5. ASSUME NEW r \in Requests, Refused(r) \/ Answered(r) PROVE RequestsTyped'
    BY <1>1, <1>3, <1>5 DEF Refused, Answered
  <1>6. ASSUME NEW r \in Requests, NEW m \in Members, Sent(r, m) PROVE RequestsTyped'
    <2>1. PICK c : c = [at |-> "touch", saw |-> <<>>, m |-> m]
      OBVIOUS
    <2>2. c \in ReqRecord /\ c.at = "touch" /\ c.m \in Members
      BY <2>1, Bounds DEF ReqRecord
    <2>3. req' = [req EXCEPT ![r] = c]
      BY <1>6, <2>1 DEF Sent
    <2> QED
      BY <2>2, <2>3, <1>3
  <1>7. ASSUME NEW r \in Requests, Touched(r) PROVE RequestsTyped'
    <2>1. PICK c : c = [req[r] EXCEPT !.at = "proxied"]
      OBVIOUS
    <2>2. c \in ReqRecord /\ c.at = "proxied" /\ c.m \in Members
      BY <2>1, <1>0, <1>7 DEF ReqRecord, RequestsTyped, Touched
    <2>3. req' = [req EXCEPT ![r] = c]
      BY <1>7, <2>1 DEF Touched
    <2> QED
      BY <2>2, <2>3, <1>3
  <1> QED
    BY <1>2, <1>4, <1>5, <1>6, <1>7, RouterSteps

\* A state of the router's memory that differs in rotation and pins only.
SameCounts(after) ==
    after \in RouteRecord /\ after.flight = route.flight /\ after.done = route.done

\* A pick leaves the counts alone, and moves only the pin of a session whose
\* replica is not eligible.
LEMMA AfterPick ==
    ASSUME TrafficInv, NEW r \in Requests, NEW elig, NEW m \in Members,
           NEW after, after = afterPick(SessionOf[r], elig, m)
    PROVE  /\ SameCounts(after)
           /\ \A s \in Sessions :
                 after.pins[s] # route.pins[s]
                    => SessionOf[r] = s /\ route.pins[s] \notin elig
  <1>0. route \in RouteRecord /\ scenario.policy \in {"round_robin", "prefix_affinity"}
    BY ScenarioTyped DEF TrafficInv, RouteCounted, PartsTyped
  <1>1. CASE Pinned(SessionOf[r], elig)
    BY <1>0, <1>1 DEF afterPick, SameCounts
  <1>2. CASE ~ Pinned(SessionOf[r], elig)
    <2>1. PICK pins : pins = (IF scenario.policy = "round_robin" \/ SessionOf[r] = "" THEN route.pins
                              ELSE [route.pins EXCEPT ![SessionOf[r]] = m])
      OBVIOUS
    <2>2. pins \in [Sessions -> 0..MaxMembers]
      <3>1. route.pins \in [Sessions -> 0..MaxMembers] /\ m \in 0..MaxMembers
        BY <1>0, Bounds DEF RouteRecord
      <3>2. [route.pins EXCEPT ![SessionOf[r]] = m] \in [Sessions -> 0..MaxMembers]
        BY <3>1
      <3> QED
        BY <2>1, <3>1, <3>2
    <2>3. PICK turn : turn = (route.turn + 1) % 6
      OBVIOUS
    <2>4. turn \in Nat
      BY <2>3, <1>0 DEF RouteRecord
    <2>5. after = [route EXCEPT !.turn = turn, !.pins = pins]
      BY <1>2, <2>1, <2>3, <1>0 DEF afterPick, RouteRecord
    <2>6. /\ [route EXCEPT !.turn = turn, !.pins = pins] \in RouteRecord
          /\ [route EXCEPT !.turn = turn, !.pins = pins].flight = route.flight
          /\ [route EXCEPT !.turn = turn, !.pins = pins].done = route.done
          /\ [route EXCEPT !.turn = turn, !.pins = pins].pins = pins
      BY <2>2, <2>4, <1>0 DEF RouteRecord
    <2>7. ASSUME NEW s \in Sessions, pins[s] # route.pins[s]
          PROVE  SessionOf[r] = s /\ route.pins[s] \notin elig
      <3>1. /\ scenario.policy = "prefix_affinity" /\ SessionOf[r] # ""
            /\ pins = [route.pins EXCEPT ![SessionOf[r]] = m]
        BY <2>1, <2>7, <1>0
      <3>2. SessionOf[r] = s
        BY <3>1, <2>7, <1>0 DEF RouteRecord
      <3> QED
        BY <3>1, <3>2, <1>2 DEF Pinned
    <2> QED
      BY <2>5, <2>6, <2>7 DEF SameCounts
  <1> QED
    BY <1>1, <1>2

\* The clock never goes back.
LEMMA ClockSteps ==
    ASSUME TrafficInv, [Next]_vars
    PROVE  clock'.now \in Nat /\ clock'.now >= clock.now
  <1>0. clock \in [now : Nat, seen : Int, touched : Int]
    BY DEF TrafficInv, Stamps
  <1>1. \/ clock' = clock \/ clock' = [clock EXCEPT !.touched = clock.now]
        \/ clock' = [clock EXCEPT !.seen = clock.now, !.touched = clock.now]
        \/ clock' = [clock EXCEPT !.touched = Never]
        \/ clock' = [clock EXCEPT !.now = @ + 1]
    BY DEF vars, Next, RouterStep, ServeDescribe, Dispatch, TouchActivity, ProxyReturns,
       HealthStep, HealthTick, Probe, ReaperStep, Sweep, SweepDestroy, OperatorStep,
       OperatorTouch, DrainRead, DrainMark, DrainWait, DrainRelease, OperatorScale,
       MigrateRead, MigrateGrow, Recreate, GrowPlace, GrowEnd, EngineTurns, ClockTicks,
       TouchDeployment
  <1>2. CASE \/ clock' = clock \/ clock' = [clock EXCEPT !.touched = clock.now]
             \/ clock' = [clock EXCEPT !.seen = clock.now, !.touched = clock.now]
             \/ clock' = [clock EXCEPT !.touched = Never]
    <2>1. clock'.now = clock.now
      BY <1>0, <1>2
    <2> QED
      BY <2>1, <1>0
  <1>3. CASE clock' = [clock EXCEPT !.now = @ + 1]
    <2>1. clock'.now = clock.now + 1
      BY <1>0, <1>3
    <2> QED
      BY <2>1, <1>0
  <1> QED
    BY <1>1, <1>2, <1>3

\* In-flight counts stay right: trackInFlight and its deferred half pair up.
LEMMA RouteKept ==
    ASSUME TrafficInv, [Next]_vars
    PROVE  RouteCounted'
  <1>0. /\ route \in RouteRecord /\ req \in [Requests -> ReqRecord] /\ clock.now \in Nat
        /\ \A m \in Members : route.flight[m] = Cardinality(Serving(m))
        /\ \A m \in Members : route.done[m] \in Never..clock.now
        /\ RequestsTyped
    BY DEF TrafficInv, RouteCounted, RequestsTyped, Stamps
  <1>a. /\ route.pins \in [Sessions -> 0..MaxMembers] /\ route.turn \in Nat
        /\ route.flight \in [Members -> Nat] /\ route.done \in [Members -> Int]
    BY <1>0 DEF RouteRecord
  <1>1. clock'.now \in Nat /\ clock'.now >= clock.now
    BY ClockSteps
  <1>2. \A m \in Members : route.done[m] \in Never..clock'.now
    BY <1>0, <1>1, <1>a DEF Never
  <1>3. \A m : IsFiniteSet(Serving(m)) /\ Cardinality(Serving(m)) \in Nat
    BY Bounds, FS_Subset, FS_CardinalityType DEF Serving
  <1>4. CASE UNCHANGED <<req, route>>
    <2>1. \A m : Serving(m)' = Serving(m)
      BY <1>4 DEF Serving
    <2> QED
      BY <2>1, <1>0, <1>2, <1>4 DEF RouteCounted
  <1>5. ASSUME NEW r \in Requests, NEW c, req' = [req EXCEPT ![r] = c],
               req[r].at \in {"none", "queued"}, c.at \in {"none", "queued"}
        PROVE  \A m : Serving(m)' = Serving(m)
    BY <1>5, <1>0 DEF Serving
  <1>6. ASSUME NEW r \in Requests, Queued(r) PROVE RouteCounted'
    <2>1. \A m : Serving(m)' = Serving(m)
      BY <1>5, <1>6 DEF Queued
    <2> QED
      BY <2>1, <1>0, <1>2, <1>6 DEF RouteCounted, Queued
  <1>7. ASSUME NEW r \in Requests, Refused(r) PROVE RouteCounted'
    <2>1. \A m : Serving(m)' = Serving(m)
      BY <1>5, <1>7 DEF Refused, NoRequest
    <2>2. /\ route' \in RouteRecord /\ route'.flight = route.flight /\ route'.done = route.done
      <3>1. CASE route' = route
        BY <3>1, <1>0
      <3>2. ASSUME NEW m \in Members, NEW e, NEW after, after = afterPick(SessionOf[r], e, m)
            PROVE  SameCounts(after)
        BY <3>2, AfterPick, ZenonT(20)
      <3>3. ASSUME NEW m \in Members,
                   route' = afterPick(SessionOf[r], eligibleReplicas(req[r].saw[1]), m)
            PROVE  route' \in RouteRecord /\ route'.flight = route.flight /\ route'.done = route.done
        <4>1. PICK e, after : e = eligibleReplicas(req[r].saw[1]) /\ after = route'
          OBVIOUS
        <4>2. after = afterPick(SessionOf[r], e, m)
          BY <3>3, <4>1
        <4> QED
          BY <3>2, <4>1, <4>2 DEF SameCounts
      <3> QED
        BY <3>1, <3>3, <1>7 DEF Refused
    <2> QED
      BY <2>1, <2>2, <1>0, <1>2 DEF RouteCounted
  <1>8. ASSUME NEW r \in Requests, NEW m \in Members, Sent(r, m) PROVE RouteCounted'
    <2>1. PICK after \in RouteRecord :
            /\ after = afterPick(SessionOf[r], eligibleReplicas(req[r].saw[1]), m)
            /\ after.flight = route.flight /\ after.done = route.done
      <3>1. ASSUME NEW after, NEW e, after = afterPick(SessionOf[r], e, m)
            PROVE  SameCounts(after)
        BY <3>1, AfterPick, ZenonT(20)
      <3>2. PICK after : after = afterPick(SessionOf[r], eligibleReplicas(req[r].saw[1]), m)
        OBVIOUS
      <3> QED
        BY <3>1, <3>2 DEF SameCounts
    <2>2. route' = [after EXCEPT !.flight = [route.flight EXCEPT ![m] = @ + 1]]
      BY <2>1, <1>8 DEF Sent, trackInFlight, RouteRecord
    <2>3. PICK f \in [Members -> Nat] : f = [route.flight EXCEPT ![m] = @ + 1]
      <3>1. [route.flight EXCEPT ![m] = @ + 1] \in [Members -> Nat]
        BY <1>a
      <3> QED
        BY <3>1
    <2>4. /\ route' \in RouteRecord /\ route'.done = route.done
          /\ route'.flight = f
      BY <2>1, <2>2, <2>3 DEF RouteRecord
    <2>5. req[r].at = "queued" /\ req'[r].at = "touch" /\ req'[r].m = m
      BY <1>8, <1>0 DEF Sent
    <2>6. \A q \in Requests \ {r} : req'[q] = req[q]
      BY <1>8, <1>0 DEF Sent
    <2>7. Serving(m)' = Serving(m) \cup {r} /\ r \notin Serving(m)
      BY <2>5, <2>6 DEF Serving
    <2>8. \A n : n # m => Serving(n)' = Serving(n)
      BY <2>5, <2>6 DEF Serving
    <2>9. Cardinality(Serving(m)') = Cardinality(Serving(m)) + 1
      BY <2>7, <1>3, FS_AddElement
    <2>10. \A n \in Members : f[n] = Cardinality(Serving(n)')
      BY <2>3, <2>8, <2>9, <1>0, <1>a
    <2> QED
      BY <2>4, <2>10, <1>2 DEF RouteCounted
  <1>9. ASSUME NEW r \in Requests, Touched(r) PROVE RouteCounted'
    <2>1. /\ req[r].at = "touch" /\ req'[r].at = "proxied" /\ req'[r].m = req[r].m
          /\ \A q \in Requests \ {r} : req'[q] = req[q]
      BY <1>9, <1>0 DEF Touched, ReqRecord
    <2>2. \A m : Serving(m)' = Serving(m)
      BY <2>1 DEF Serving
    <2> QED
      BY <2>2, <1>0, <1>2, <1>9 DEF RouteCounted, Touched
  <1>10. ASSUME NEW r \in Requests, Answered(r) PROVE RouteCounted'
    <2>1. PICK m \in Members : m = req[r].m
      BY <1>0, <1>10 DEF RequestsTyped, Answered
    <2>2. /\ req[r].at = "proxied" /\ req'[r].at = "none"
          /\ \A q \in Requests \ {r} : req'[q] = req[q]
      BY <1>10, <1>0 DEF Answered, NoRequest
    <2>3. Serving(m)' = Serving(m) \ {r} /\ r \in Serving(m)
      BY <2>1, <2>2 DEF Serving
    <2>4. \A n : n # m => Serving(n)' = Serving(n)
      BY <2>1, <2>2 DEF Serving
    <2>5. Cardinality(Serving(m)') = Cardinality(Serving(m)) - 1
      BY <2>3, <1>3, FS_RemoveElement
    <2>6. Cardinality(Serving(m)') \in Nat
      BY <2>3, <1>3, FS_RemoveElement, FS_CardinalityType
    <2>7. route.flight[m] - 1 \in Nat
      BY <2>5, <2>6, <1>0
    <2>8. PICK f \in [Members -> Nat] : f = [route.flight EXCEPT ![m] = @ - 1]
      BY <2>7, <1>a
    <2>9. PICK d \in [Members -> Int] : d = [route.done EXCEPT ![m] = clock.now]
      <3>1. [route.done EXCEPT ![m] = clock.now] \in [Members -> Int]
        BY <1>0, <1>a
      <3> QED
        BY <3>1
    <2>10. route' = [route EXCEPT !.flight = f, !.done = d]
      BY <2>1, <2>8, <2>9, <1>10, <1>0 DEF Answered, trackDone, RouteRecord
    <2>11. route' \in RouteRecord /\ route'.flight = f /\ route'.done = d
      BY <2>10, <1>0, <2>8, <2>9 DEF RouteRecord
    <2>12. \A n \in Members : f[n] = Cardinality(Serving(n)')
      BY <2>4, <2>5, <2>8, <1>0, <1>a
    <2>13. \A n \in Members : d[n] \in Never..clock'.now
      BY <2>9, <1>0, <1>1, <1>2, <1>a DEF Never
    <2> QED
      BY <2>11, <2>12, <2>13 DEF RouteCounted
  <1> QED
    BY <1>4, <1>6, <1>7, <1>8, <1>9, <1>10, RouterSteps

\* Stamps stay of the past, and no accepted touch is ahead of the record's
\* stamp by more than the debounce.
LEMMA StampsKept ==
    ASSUME TrafficInv, [Next]_vars
    PROVE  Stamps'
  <1>0. /\ clock \in [now : Nat, seen : Int, touched : Int] /\ Stamps
        /\ dep \in DepRecord /\ dep.act \in Nat /\ scenario' = scenario
        /\ scenario.horizon \in Nat
    BY ScenarioStays, ScenarioTyped DEF TrafficInv, Stamps, PartsTyped, DepRecord
  <1>a. /\ clock.now \in Nat /\ clock.seen \in Int /\ clock.touched \in Int
        /\ clock.now <= scenario.horizon /\ dep.act <= clock.now
        /\ clock.seen # Never => clock.seen <= dep.act
        /\ clock.touched # Never => clock.touched - dep.act <= Debounce
    BY <1>0 DEF Stamps
  <1>1. ASSUME NEW now \in Nat, NEW seen \in Int, NEW touched \in Int, NEW act \in Nat,
               clock' = [now |-> now, seen |-> seen, touched |-> touched], dep'.act = act,
               now <= scenario.horizon, act <= now,
               seen # Never => seen <= act,
               touched # Never => touched - act <= Debounce
        PROVE  Stamps'
    BY <1>0, <1>1 DEF Stamps
  <1>2. clock = [now |-> clock.now, seen |-> clock.seen, touched |-> clock.touched]
    BY <1>0
  <1>3. ASSUME clock' = clock, dep'.act = dep.act PROVE Stamps'
    BY <1>0, <1>3 DEF Stamps
  <1>4. ASSUME TouchDeployment PROVE Stamps'
    <2>1. CASE clock.seen # Never /\ clock.now - clock.seen < Debounce
      <3>1. clock' = [now |-> clock.now, seen |-> clock.seen, touched |-> clock.now]
        BY <2>1, <1>0, <1>4 DEF TouchDeployment
      <3>2. dep'.act = dep.act
        BY <2>1, <1>4 DEF TouchDeployment
      <3>3. clock.now - dep.act <= Debounce
        <4>1. clock.seen <= dep.act /\ clock.now - clock.seen < Debounce
          BY <2>1, <1>a
        <4> QED
          BY <4>1, <1>0, <1>a, Bounds
      <3> QED
        BY <3>1, <3>2, <3>3, <1>0, <1>1, <1>a
    <2>2. CASE ~ (clock.seen # Never /\ clock.now - clock.seen < Debounce)
      <3>1. clock' = [now |-> clock.now, seen |-> clock.now, touched |-> clock.now]
        BY <2>2, <1>0, <1>4 DEF TouchDeployment
      <3>2. dep'.act = clock.now
        BY <2>2, <1>0, <1>4 DEF TouchDeployment, DepRecord
      <3>3. clock.now - clock.now <= Debounce
        BY <1>a, Bounds
      <3> QED
        BY <3>1, <3>2, <3>3, <1>0, <1>1, <1>a
    <2> QED
      BY <2>1, <2>2
  <1>5. CASE Recreate
    <2>1. /\ clock' = [now |-> clock.now, seen |-> clock.seen, touched |-> Never]
          /\ dep'.act = clock.now
      BY <1>0, <1>5 DEF Recreate, NoDep
    <2>2. clock.seen # Never => clock.seen <= clock.now
      BY <1>0, <1>a
    <2>3. Never \in Int
      BY DEF Never
    <2> QED
      BY <2>1, <2>2, <2>3, <1>1, <1>a
  <1>6. CASE ClockTicks
    <2>1. /\ clock' = [now |-> clock.now + 1, seen |-> clock.seen, touched |-> clock.touched]
          /\ dep'.act = dep.act /\ clock.now < scenario.horizon
      BY <1>0, <1>6 DEF ClockTicks
    <2>2. clock.now + 1 \in Nat /\ clock.now + 1 <= scenario.horizon /\ dep.act <= clock.now + 1
      BY <2>1, <1>0, <1>a
    <2> QED
      BY <2>1, <2>2, <1>0, <1>1, <1>a
  <1>7. \/ TouchDeployment \/ Recreate \/ ClockTicks \/ clock' = clock
    BY DEF vars, Next, RouterStep, ServeDescribe, Dispatch, TouchActivity, ProxyReturns,
       HealthStep, HealthTick, Probe, ReaperStep, Sweep, SweepDestroy, OperatorStep,
       OperatorTouch, DrainRead, DrainMark, DrainWait, DrainRelease, OperatorScale,
       MigrateRead, MigrateGrow, GrowPlace, GrowEnd, EngineTurns
  <1>8. CASE clock' = clock /\ ~ TouchDeployment /\ ~ Recreate /\ ~ ClockTicks
    <2>1. dep'.act = dep.act
      <3>1. \/ dep' = dep
            \/ \E b : dep' = [dep EXCEPT !.bad = b]
            \/ \E s : dep' = [dep EXCEPT !.st = s]
            \/ \E q : dep' = [dep EXCEPT !.reps = q]
            \/ \E m : dep' = [dep EXCEPT !.reps[m].ep = TRUE]
        <4>1. CASE RouterStep
          BY <1>8, <4>1 DEF RouterStep, ServeDescribe, Dispatch, TouchActivity, ProxyReturns
        <4>2. CASE HealthStep
          <5>1. CASE HealthTick
            BY <5>1 DEF HealthTick
          <5>2. ASSUME NEW p \in health.probes, Probe(p)
                PROVE  dep' = dep \/ \E b : dep' = [dep EXCEPT !.bad = b]
            <6>1. PICK s : Decide(p, s)
              BY <5>2 DEF Probe
            <6> QED
              BY <6>1 DEF Decide, Quarantine, Restore
          <5> QED
            BY <4>2, <5>1, <5>2 DEF HealthStep
        <4>3. CASE ReaperStep
          BY <4>3 DEF ReaperStep, Sweep, SweepDestroy, DestroyDeployment
        <4>4. CASE OperatorStep
          BY <1>8, <4>4 DEF OperatorStep, OperatorTouch, DrainRead, DrainMark, DrainWait,
             DrainRelease, OperatorScale, MigrateRead, MigrateGrow, GrowPlace, GrowEnd,
             Quarantine, DestroyDeployment
        <4>5. CASE \/ \E m \in Members, s \in {"up", "busy", "dead"} : EngineTurns(m, s)
                   \/ UNCHANGED vars
          BY <4>5 DEF EngineTurns, vars
        <4> QED
          BY <1>8, <4>1, <4>2, <4>3, <4>4, <4>5 DEF Next
      <3> QED
        BY <3>1, <1>0 DEF DepRecord
    <2> QED
      BY <2>1, <1>3, <1>8
  <1> QED
    BY <1>4, <1>5, <1>6, <1>7, <1>8

-----------------------------------------------------------------------------
(* The theorems *)

\* Every state satisfies the invariant.
THEOREM TrafficInvariant == Spec => []TrafficInv
  <1>1. Init => TrafficInv
    <2> SUFFICES ASSUME Init PROVE TrafficInv
      OBVIOUS
    <2>0. scenario \in Scenarios
      BY DEF Init
    <2>1. dep = [st |-> "RUNNING", reps |-> FreshReps, bad |-> {}, act |-> 0]
      BY DEF Init, NoDep, FreshReps
    <2>2. FreshReps \in {q \in Seq(ReplicaBacking) : Len(q) <= MaxMembers}
      BY <2>0, FreshTyped, ScenarioTyped, Bounds
    <2>3. PartsTyped
      <3>1. dep \in DepRecord
        BY <2>1, <2>2 DEF DepRecord
      <3>2. op \in OpRecord
        <4>1. Idle \in OpRecord
          BY DEF Idle, OpRecord
        <4> QED
          BY <4>1 DEF Init
      <3>3. reaper \in [at : {"idle", "destroy"}, retries : 0..MaxDestroyRetries]
        BY Bounds DEF Init
      <3> QED
        BY <2>0, <3>1, <3>2, <3>3 DEF Init, PartsTyped
    <2>4. RequestsTyped
      <3>1. NoRequest \in ReqRecord /\ NoRequest.at = "none"
        BY Bounds DEF NoRequest, ReqRecord
      <3> QED
        BY <3>1 DEF Init, RequestsTyped
    <2>5. clock \in [now : Nat, seen : Int, touched : Int] /\ clock.now = 0
      BY DEF Init, Never
    <2>6. Stamps
      BY <2>0, <2>1, <2>5, ScenarioTyped DEF Init, Stamps
    <2>7. RouteCounted
      <3>1. route \in RouteRecord
        BY Bounds DEF Init, RouteRecord, Never
      <3>2. \A m \in Members : Serving(m) = {}
        BY DEF Init, Serving, NoRequest
      <3>3. \A m \in Members : route.flight[m] = Cardinality(Serving(m))
        BY <3>2, FS_EmptySet DEF Init
      <3>4. \A m \in Members : route.done[m] \in Never..clock.now
        BY <2>5 DEF Init, Never
      <3> QED
        BY <3>1, <3>3, <3>4 DEF RouteCounted
    <2>8. Shaped
      BY <2>0, <2>1, FreshTyped, ScenarioTyped, Bounds DEF Shaped
    <2>9. Paired
      BY DEF Init, Paired
    <2> QED
      BY <2>3, <2>4, <2>6, <2>7, <2>8, <2>9 DEF TrafficInv
  <1>2. TrafficInv /\ [Next]_vars => TrafficInv'
    BY RecordKept, PartsKept, RequestsKept, RouteKept, StampsKept DEF TrafficInv
  <1> QED
    BY <1>1, <1>2, PTL DEF Spec

\* The reaper ends nobody's work: for any debounce and time to live, it takes a
\* deployment for idle only when the last touch that TouchDeployment accepted,
\* written or swallowed by the debounce, is old enough (RunOnce, shouldReap).
THEOREM ReaperCorrect == Spec => []ReaperSafe
  <1>1. TrafficInv => ReaperSafe
    <2> SUFFICES ASSUME TrafficInv PROVE ReaperSafe
      OBVIOUS
    <2>0. PartsTyped /\ RequestsTyped /\ RouteCounted /\ Stamps
      BY DEF TrafficInv
    <2>1. TypeOK
      <3>1. dep \in [st : {"RUNNING", "DEGRADED", "TERMINATING", "TERMINATED"},
                     reps : Seq(ReplicaBacking),
                     bad : SUBSET Ids, act : 0..scenario.horizon]
        <4>1. dep \in DepRecord /\ scenario.horizon \in Nat
          BY <2>0, ScenarioTyped DEF PartsTyped
        <4>2. dep.act \in 0..scenario.horizon
          BY <2>0, <4>1 DEF Stamps, DepRecord
        <4> QED
          BY <4>1, <4>2 DEF DepRecord
      <3>2. \A r \in Requests : req[r].at \in {"none", "queued", "touch", "proxied"}
        BY <2>0 DEF RequestsTyped, ReqRecord
      <3>3. route.flight \in [Members -> 0..Cardinality(Requests)]
        <4>1. \A m \in Members : route.flight[m] \in 0..Cardinality(Requests)
          <5>1. TAKE m \in Members
          <5>2. Serving(m) \in (SUBSET Requests)
            BY DEF Serving
          <5>3. /\ Cardinality(Serving(m)) \in Nat /\ Cardinality(Requests) \in Nat
                /\ Cardinality(Serving(m)) <= Cardinality(Requests)
            BY <5>2, Bounds, FS_Subset, FS_CardinalityType
          <5> QED
            BY <5>3, <2>0 DEF RouteCounted
        <4> QED
          BY <4>1, <2>0 DEF RouteCounted, RouteRecord
      <3>4. op.at \in {"idle", "mark", "release", "grow"}
        BY <2>0 DEF PartsTyped, OpRecord
      <3>5. route.pins \in [Sessions -> 0..MaxMembers]
        BY <2>0 DEF RouteCounted, RouteRecord
      <3> QED
        BY <3>1, <3>2, <3>3, <3>4, <3>5, <2>0 DEF TypeOK, PartsTyped
    <2>2. ReapOnlyIdle
      BY <2>0, Bounds DEF Stamps, PartsTyped, DepRecord, ReapOnlyIdle, shouldReap
    <2> QED
      BY <2>1, <2>2 DEF ReaperSafe
  <1> QED
    BY <1>1, TrafficInvariant, PTL

\* No call is under way.
LEMMA IdleFields == Idle.at = "idle" /\ Idle.kind = ""
BY DEF Idle

\* A migration drains its source only while the deployment has some replica
\* that is not part of it, unless the id is created again under it: members
\* are never taken away, so the one that ScaleDeployment returned stays
\* (Migrate, "the source is untouched").
THEOREM MigrationCorrect == Spec => []MigrationKeepsAnother
  <1>1. Init => MigrationKeepsAnother
    BY IdleFields DEF Init, MigrationKeepsAnother
  <1>2. TrafficInv /\ TrafficInv' /\ MigrationKeepsAnother /\ [Next]_vars
          => MigrationKeepsAnother'
    <2> SUFFICES ASSUME TrafficInv, TrafficInv', MigrationKeepsAnother, [Next]_vars,
                        "recreate" \notin scenario'.ops,
                        op'.kind = "migrate", op'.at = "mark"
                 PROVE  ~ (ToSet(EffectiveInstanceIDs(dep')) \subseteq op'.source)
      BY DEF MigrationKeepsAnother
    <2>0. /\ scenario' = scenario /\ dep \in DepRecord /\ dep' \in DepRecord
          /\ op \in OpRecord
      BY ScenarioStays DEF TrafficInv, PartsTyped
    <2>1. ToSet(EffectiveInstanceIDs(dep)) \subseteq ToSet(EffectiveInstanceIDs(dep'))
      <3>1. /\ Len(dep.reps) <= Len(dep'.reps)
            /\ \A m \in DOMAIN dep.reps : dep'.reps[m].ids = dep.reps[m].ids
        BY <2>0, DepSteps, RepsSteps
      <3>2. DOMAIN dep.reps \subseteq DOMAIN dep'.reps
        BY <3>1, <2>0 DEF DepRecord
      <3>3. \A x : (\E m \in DOMAIN dep.reps : x \in ToSet(dep.reps[m].ids))
                      => (\E m \in DOMAIN dep'.reps : x \in ToSet(dep'.reps[m].ids))
        BY <3>1, <3>2
      <3> QED
        BY <3>3, <2>0, EffectiveIDs
    <2>2. CASE MigrateGrow
      <3>1. op' # Idle
        BY IdleFields
      <3>2. Added(dep, op.source) # {} /\ op'.source = op.source
        BY <2>0, <2>2, <3>1 DEF MigrateGrow, OpRecord
      <3> QED
        BY <3>2, <2>1 DEF Added
    <2>3. CASE ~ MigrateGrow
      <3>1. op.kind = "migrate" /\ op.at = "mark" /\ op'.source = op.source
        <4>1. CASE op' = op
          BY <4>1
        <4>2. CASE DrainMark
          BY <4>2, <2>0 DEF DrainMark, OpRecord
        <4>3. CASE DrainRead \/ MigrateRead
          BY <4>3, IdleFields DEF DrainRead, MigrateRead, Idle
        <4>4. CASE DrainWait
          BY <4>4, <2>0, IdleFields DEF DrainWait, OpRecord
        <4>5. CASE \E ok \in BOOLEAN : DrainRelease(ok)
          BY <4>5, IdleFields DEF DrainRelease
        <4> QED
          BY <2>3, <4>1, <4>2, <4>3, <4>4, <4>5
             DEF vars, Next, RouterStep, ServeDescribe, Dispatch, TouchActivity,
             ProxyReturns, HealthStep, HealthTick, Probe, ReaperStep, Sweep, SweepDestroy,
             OperatorStep, OperatorTouch, OperatorScale, Recreate, GrowPlace, GrowEnd,
             EngineTurns, ClockTicks
      <3>2. ~ (ToSet(EffectiveInstanceIDs(dep)) \subseteq op.source)
        BY <3>1, <2>0 DEF MigrationKeepsAnother
      <3> QED
        BY <3>1, <3>2, <2>1
    <2> QED
      BY <2>2, <2>3
  <1> QED
    BY <1>1, <1>2, TrafficInvariant, PTL DEF Spec

\* What SaturatedServes says of one step ...
LEMMA SaturatedStep ==
    ASSUME TrafficInv, HealthStep, OneNodeEach, NEW m \in DOMAIN dep.reps,
           dep.reps[m].ids[1] \in dep'.bad \ dep.bad, route.done[m] # Never
    PROVE  clock.now - route.done[m] > ActivityWindow
  <1>0. /\ dep \in DepRecord /\ scenario \in Scenarios /\ Shaped /\ Paired
        /\ health.probes \subseteq ProbeRecord
        /\ \A n \in Members : route.done[n] \in Never..clock.now
        /\ clock.now \in Nat
    BY DEF TrafficInv, PartsTyped, RouteCounted, Stamps
  <1>1. /\ dep.reps \in Seq(ReplicaBacking) /\ DOMAIN dep.reps = 1..Len(dep.reps)
        /\ Len(dep.reps) \in Nat /\ Len(dep.reps) <= MaxMembers
    BY <1>0 DEF DepRecord
  <1>2. m \in Members
    BY <1>1, Bounds
  <1>3. PICK p \in health.probes : Probe(p)
    BY DEF HealthStep, HealthTick
  <1>4. p.m \in Members
    BY <1>0 DEF ProbeRecord
  <1>5. Quarantine(p.id) /\ ~ activityVeto(p.m)
    <2>1. PICK s : Decide(p, s)
      BY <1>3 DEF Probe
    <2>2. ~ UNCHANGED dep
      OBVIOUS
    <2>3. ~ Restore(p.id)
      BY <1>0 DEF Restore, DepRecord
    <2> QED
      BY <2>1, <2>2, <2>3 DEF Decide
  <1>6. p.id = dep.reps[m].ids[1]
    BY <1>5, <1>0 DEF Quarantine, DepRecord
  <1>7. \A n \in DOMAIN dep.reps :
            /\ NodesOf(n) \in 1..2 /\ dep.reps[n].ids[1] = NodeId(n, 1)
            /\ Len(dep.reps[n].ids) = NodesOf(n)
    <2>1. TAKE n \in DOMAIN dep.reps
    <2>2. NodesOf(n) \in 1..2
      BY <1>0, ScenarioTyped DEF NodesOf
    <2>3. PICK k \in 1..2 : k = NodesOf(n)
      BY <2>2
    <2>4. dep.reps[n].ids = [j \in 1..k |-> NodeId(n, j)]
      BY <2>3, <1>0 DEF Shaped
    <2>5. [j \in 1..k |-> NodeId(n, j)][1] = NodeId(n, 1)
      OBVIOUS
    <2>6. Len([j \in 1..k |-> NodeId(n, j)]) = k
      OBVIOUS
    <2> QED
      BY <2>2, <2>3, <2>4, <2>5, <2>6
  <1>8. \A n \in DOMAIN scenario.nodes : scenario.nodes[n] = 1
    <2>1. DOMAIN scenario.nodes \subseteq DOMAIN dep.reps
      BY <1>0, <1>1, ScenarioTyped DEF Shaped
    <2>2. \A n \in DOMAIN dep.reps : NodesOf(n) = 1
      BY <1>7 DEF OneNodeEach
    <2> QED
      BY <2>1, <2>2 DEF NodesOf
  <1>9. p.id = NodeId(p.m, 1)
    BY <1>0, <1>8 DEF Paired
  <1>10. NodeId(p.m, 1) = NodeId(m, 1)
    BY <1>6, <1>7, <1>9
  <1>11. p.m = m
    <2>1. PICK k \in Members : k = p.m
      BY <1>4
    <2>2. NodeId(k, 1) = NodeId(m, 1) => k = m
      BY <1>2, Bounds DEF NodeId
    <2> QED
      BY <2>1, <2>2, <1>10
  <1>12. SinceLastCompletion(m) = clock.now - route.done[m]
    BY DEF SinceLastCompletion
  <1>13. clock.now - route.done[m] \notin 0..ActivityWindow
    BY <1>5, <1>11, <1>12 DEF activityVeto
  <1>14. route.done[m] \in Never..clock.now
    BY <1>0, <1>2
  <1> QED
    BY <1>13, <1>14, <1>0, Bounds DEF Never

\* ... and what PinsKept says of one.
LEMMA PinsStep ==
    ASSUME TrafficInv, [Next]_vars, NEW s \in Sessions,
           route.pins[s] \notin {0, route'.pins[s]}
    PROVE  \E r \in Requests : /\ SessionOf[r] = s
                               /\ req[r].at = "queued"
                               /\ route.pins[s] \notin eligibleReplicas(req[r].saw[1])
  <1>0. route \in RouteRecord
    BY DEF TrafficInv, RouteCounted
  <1>1. PICK r \in Requests :
            \/ Queued(r) \/ Refused(r) \/ Touched(r) \/ Answered(r)
            \/ \E m \in Members : Sent(r, m)
    BY RouterSteps
  <1>2. CASE Queued(r) \/ Touched(r)
    BY <1>2 DEF Queued, Touched
  <1>3. CASE Answered(r)
    <2>1. route'.pins = route.pins
      BY <1>0, <1>3 DEF Answered, trackDone, RouteRecord
    <2> QED
      BY <2>1
  <1>4. ASSUME NEW m \in Members, NEW after, req[r].at = "queued",
               after = afterPick(SessionOf[r], eligibleReplicas(req[r].saw[1]), m),
               route'.pins = after.pins
        PROVE  /\ SessionOf[r] = s /\ req[r].at = "queued"
               /\ route.pins[s] \notin eligibleReplicas(req[r].saw[1])
    <2>1. after.pins[s] # route.pins[s]
      BY <1>4
    <2>2. PICK e : e = eligibleReplicas(req[r].saw[1])
      OBVIOUS
    <2>3. after = afterPick(SessionOf[r], e, m)
      BY <1>4, <2>2
    <2>4. SessionOf[r] = s /\ route.pins[s] \notin e
      BY <2>1, <2>3, AfterPick
    <2> QED
      BY <2>2, <2>4, <1>4
  <1>5. CASE Refused(r)
    BY <1>4, <1>5 DEF Refused
  <1>6. ASSUME NEW m \in Members, Sent(r, m)
        PROVE  /\ SessionOf[r] = s /\ req[r].at = "queued"
               /\ route.pins[s] \notin eligibleReplicas(req[r].saw[1])
    <2>1. PICK after : after = afterPick(SessionOf[r], eligibleReplicas(req[r].saw[1]), m)
      OBVIOUS
    <2>2. after \in RouteRecord
      <3>1. PICK e : e = eligibleReplicas(req[r].saw[1])
        OBVIOUS
      <3>2. after = afterPick(SessionOf[r], e, m)
        BY <2>1, <3>1
      <3> QED
        BY <3>2, AfterPick, ZenonT(20) DEF SameCounts
    <2>3. route'.pins = after.pins /\ req[r].at = "queued"
      BY <2>1, <2>2, <1>6 DEF Sent, trackInFlight, RouteRecord
    <2> QED
      BY <2>1, <2>3, <1>4
  <1> QED
    BY <1>1, <1>2, <1>3, <1>5, <1>6

\* Load alone moves nothing, for any thresholds and any number of sessions: the
\* health loop never quarantines a replica that finished a request within the
\* activity window (probe, activityVeto), and a session's pin moves only when
\* its replica is out of the rotation that a request of the session read
\* (PrefixAffinity.Pick).
THEOREM RoutingCorrect == Spec => RoutedWell
  <1>1. TrafficInv /\ [Next]_vars =>
          [HealthStep /\ OneNodeEach =>
             \A m \in DOMAIN dep.reps :
                dep.reps[m].ids[1] \in dep'.bad \ dep.bad /\ route.done[m] # Never
                    => clock.now - route.done[m] > ActivityWindow]_vars
    BY SaturatedStep
  <1>2. TrafficInv /\ [Next]_vars =>
          [\A s \in Sessions :
             route.pins[s] \notin {0, route'.pins[s]}
                => \E r \in Requests :
                      /\ SessionOf[r] = s
                      /\ req[r].at = "queued"
                      /\ route.pins[s] \notin eligibleReplicas(req[r].saw[1])]_vars
    BY PinsStep
  <1>3. Spec => SaturatedServes
    BY <1>1, TrafficInvariant, PTL DEF Spec, SaturatedServes
  <1>4. Spec => PinsKept
    BY <1>2, TrafficInvariant, PTL DEF Spec, PinsKept
  <1> QED
    BY <1>3, <1>4 DEF RoutedWell

=============================================================================
