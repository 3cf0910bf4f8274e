---------------------------- MODULE Deployments ----------------------------
(***************************************************************************)
(* One auto-provisioned deployment of the provisioner service              *)
(* (internal/provisioners/service.go, fanout.go): the fan-out of           *)
(* CreateDeployment, ScaleDeployment and DestroyDeployment, run by         *)
(* concurrent callers over one state file, with one goroutine per replica  *)
(* slot and the deployer of an image-native provider (the pod is the       *)
(* rental) or of a VM-style one (a container on a machine rented before).  *)
(*                                                                         *)
(* Members have one node each, so a slot is one instance id.  A store      *)
(* Update is one atomic step and so is a provider call; whatever is read   *)
(* outside an Update may be stale when it is used.                         *)
(***************************************************************************)
EXTENDS Naturals, FiniteSets, Sequences

CONSTANTS
    MaxSlots,    \* bound: the most replica slots a deployment grows to
    MaxCreates,  \* bound: how often CreateDeployment claims the record
    Machines,    \* machines the account can ever rent (bounds rentals)
    Callers,     \* RPC callers, the reaper among them
    None,        \* an empty id
    Scenarios    \* the circumstances to consider, see Scenario

OpNames == {"create", "replace", "scale", "destroy"}

FaultNames == {"spec", "rent", "engine", "terminate", "key", "crash"}

\* Whether the provider is image-native, the state file at the start, how many
\* calls overlap at most, which operations callers invoke, how many slots they
\* ask for and how often they create, and what may go wrong.
Scenario ==
    [native  : BOOLEAN,
     start   : {"empty", "singular", "running"},
     calls   : Nat,
     ops     : SUBSET OpNames,
     slots   : 1..MaxSlots,
     creates : 0..MaxCreates,
     faults  : SUBSET FaultNames]

ASSUME ConstantsAssumption ==
    /\ MaxSlots \in Nat \ {0}
    /\ MaxCreates \in Nat
    /\ None \notin Machines
    /\ None \notin Nat
    /\ Scenarios \subseteq Scenario

VARIABLES
    dep,      \* the deployment record
    inst,     \* the instance records of its slots
    cloud,    \* the provider account
    call,     \* what each caller is doing, with the values it captured
    creates,  \* how many creates have claimed the record
    scenario  \* the scenario of this behaviour

state == <<dep, inst, cloud, call, creates>>

vars == <<dep, inst, cloud, call, creates, scenario>>

Native == scenario.native

Ops == scenario.ops

Faults == scenario.faults

Slots == 1..MaxSlots

\* Instance ids: 0 is the deployment's own id, s the id with suffix -r<s-1>.
Ids == 0..MaxSlots

InFlight == {"PENDING", "STARTING", "CONFIGURING"}

DeploymentState ==
    InFlight \cup
    {"NONE", "RUNNING", "DEGRADED", "FAILED", "TERMINATING", "TERMINATED"}

\* A replica slot: its instance id, and whether its endpoint is stamped.
ReplicaBacking == [id : Ids \cup {None}, ep : BOOLEAN]

Deployment ==
    [st : DeploymentState, reps : Seq(ReplicaBacking), anchor : Ids \cup {None}]

InstanceState == {"NONE", "PENDING", "ACTIVE", "TERMINATED", "FAILED"}

Record == [st : InstanceState, pid : Machines \cup {None}]

NoRecord == [st |-> "NONE", pid |-> None]

newPendingInstance == [st |-> "PENDING", pid |-> None]

\* A machine, and the instance id it was rented for.
Machine == [status : {"free", "rented", "gone"}, for : Ids \cup {None}]

\* The goroutine of one slot: where it is, and the machine it works on.
WorkPc ==
    {"none", "read", "patch", "spawn", "stamp", "ssh", "placed", "unplaced", "start",
     "rent", "report", "boot", "final", "write", "ok", "failed"}

Work == [pc : WorkPc, pid : Machines \cup {None}]

NoWork == [pc |-> "none", pid |-> None]

CallOp == {"none", "create", "scale", "destroy"}

CallPc ==
    {"idle", "normalise", "plan", "place", "launch",
     "read", "next", "stop", "emit", "release", "mark", "write"}

Call ==
    [op     : CallOp,
     pc     : CallPc,
     from   : 0..MaxSlots,              \* slots the fan-out leaves alone
     n      : 0..MaxSlots,              \* slots the fan-out provisions
     work   : [Slots -> Work],
     todo   : SUBSET Ids,               \* instances the destroy has not done with
     cur    : Ids \cup {None},          \* the one it is at
     snap   : [Ids -> Record],          \* the instances as the destroy read them
     rec    : Record,                   \* the record the destroy writes back
     failed : BOOLEAN]                  \* some instance could not be destroyed

Idle ==
    [op |-> "none", pc |-> "idle", from |-> 0, n |-> 0,
     work |-> [s \in Slots |-> NoWork],
     todo |-> {}, cur |-> None, snap |-> [i \in Ids |-> NoRecord], rec |-> NoRecord,
     failed |-> FALSE]

NoCalls == \A c \in Callers : call[c] = Idle

CanBegin(c) ==
    /\ call[c] = Idle
    /\ Cardinality({d \in Callers : call[d] # Idle}) < scenario.calls

Rented(m) == m \in Machines /\ cloud[m].status = "rented"

-----------------------------------------------------------------------------
(* Helpers of the service *)

\* Mutant: the replicas are named by their number, not by their slot.
replicaInstanceID_Total(s, total) == IF total = 1 THEN 0 ELSE total

\* The id of slot s of a deployment with total slots.
replicaInstanceID(s, total) == IF total = 1 THEN 0 ELSE s

\* The instances behind a deployment: those of its slots, or the anchor.
EffectiveInstanceIDs(d) ==
    LET ids == {d.reps[k].id : k \in DOMAIN d.reps} \ {None}
    IN  IF ids # {} THEN ids ELSE {d.anchor} \ {None}

\* The slot an instance backs: a set of at most one.
MemberOf(d, i) == {k \in DOMAIN d.reps : d.reps[k].id = i}

rank(st) ==
    CASE st = "PENDING"     -> 1
      [] st = "STARTING"    -> 2
      [] st = "CONFIGURING" -> 3
      [] OTHER              -> 0

\* Mutant: a slow slot drags the state back.
provisioningAdvance_Blind(st, update) == IF rank(update) = 0 THEN st ELSE update

\* The deployment state after a slot's update: in-flight states only.
provisioningAdvance(st, update) ==
    IF rank(update) > rank(st) THEN update ELSE st

\* One slot's update: its endpoint, its instance's provider_id (set once),
\* and the deployment's state.  Dropped when no slot has the id.
patchDeploymentSlot(i, st, ep, pid) ==
    LET slot == MemberOf(dep, i) IN
    /\ dep' = IF slot = {} THEN dep
              ELSE [dep EXCEPT
                      !.st   = provisioningAdvance(@, st),
                      !.reps = [k \in DOMAIN @ |->
                                  [id |-> @[k].id, ep |-> @[k].ep \/ (ep /\ k \in slot)]]]
    /\ inst' = IF slot # {} /\ inst[i].st # "NONE" /\ inst[i].pid = None
               THEN [inst EXCEPT ![i].pid = pid]
               ELSE inst

-----------------------------------------------------------------------------
\* The file starts empty, with a singular record of an older version, or with
\* every slot provisioned.
Init ==
    /\ scenario \in Scenarios
    /\ creates = 0
    /\ call = [c \in Callers |-> Idle]
    /\ \/ /\ scenario.start = "empty"
          /\ dep = [st |-> "NONE", reps |-> <<>>, anchor |-> None]
          /\ inst = [i \in Ids |-> NoRecord]
          /\ cloud = [m \in Machines |-> [status |-> "free", for |-> None]]
       \/ \E live \in SUBSET Ids :
             /\ \/ /\ scenario.start = "singular"
                   /\ live = {0}
                   /\ dep = [st |-> "RUNNING", reps |-> <<>>, anchor |-> 0]
                \/ /\ scenario.start = "running"
                   /\ live = 1..scenario.slots
                   /\ dep = [st |-> "RUNNING",
                             reps |-> [s \in live |-> [id |-> s, ep |-> TRUE]],
                             anchor |-> None]
             /\ \E pod \in [live -> Machines] :
                   /\ \A i, j \in live : pod[i] = pod[j] => i = j
                   /\ inst = [i \in Ids |->
                                IF i \in live THEN [st |-> "ACTIVE", pid |-> pod[i]]
                                ELSE NoRecord]
                   /\ cloud = [m \in Machines |->
                                 IF \E i \in live : pod[i] = m
                                 THEN [status |-> "rented",
                                       for |-> CHOOSE i \in live : pod[i] = m]
                                 ELSE [status |-> "free", for |-> None]]

-----------------------------------------------------------------------------
(* CreateDeployment and ScaleDeployment: who starts a fan-out *)

\* Slots from+1..from+n are to be provisioned.
StartFanOut(c, o, from, n) ==
    call' = [call EXCEPT ![c] =
               [Idle EXCEPT
                  !.op = o, !.pc = "place", !.from = from, !.n = n,
                  !.work = [s \in Slots |->
                              IF s \in (from + 1)..(from + n)
                              THEN [NoWork EXCEPT !.pc = "read"] ELSE NoWork]]]

\* createMultiReplicaDeployment: a record that is finished is claimed anew; a
\* live one only for another image or model.
CreateClaim(c, n) ==
    /\ CanBegin(c)
    /\ n <= scenario.slots
    /\ creates < scenario.creates
    /\ \/ "create" \in Ops /\ dep.st \in {"NONE", "TERMINATED", "FAILED"}
       \/ "replace" \in Ops /\ dep.st \in InFlight \cup {"RUNNING", "DEGRADED"}
    /\ dep' = [st |-> "PENDING", reps |-> <<>>, anchor |-> None]
    /\ creates' = creates + 1
    /\ StartFanOut(c, "create", 0, n)
    /\ UNCHANGED <<inst, cloud, scenario>>

\* ScaleDeployment reads the record ...
ScaleRead(c) ==
    /\ "scale" \in Ops
    /\ CanBegin(c)
    /\ dep.st \in {"RUNNING", "DEGRADED"}
    /\ call' = [call EXCEPT ![c] =
                  [Idle EXCEPT
                     !.op = "scale",
                     !.pc = IF dep.reps = <<>> THEN "normalise" ELSE "plan",
                     !.from = IF dep.reps # <<>> THEN Len(dep.reps)
                              ELSE IF dep.anchor # None THEN 1 ELSE 0]]
    /\ UNCHANGED <<dep, inst, cloud, creates, scenario>>

\* ... gives a singular record its slot table ...
ScaleNormalise(c) ==
    /\ call[c].pc = "normalise"
    /\ dep' = IF dep.reps # <<>> \/ dep.anchor = None THEN dep
              ELSE [dep EXCEPT !.reps = <<[id |-> dep.anchor, ep |-> TRUE]>>]
    /\ call' = [call EXCEPT ![c].pc = "plan"]
    /\ UNCHANGED <<inst, cloud, creates, scenario>>

\* ... and provisions n more slots behind the count it read.
ScalePlan(c, n) ==
    /\ call[c].pc = "plan"
    /\ call[c].from + n <= scenario.slots
    /\ StartFanOut(c, "scale", call[c].from, n)
    /\ UNCHANGED <<dep, inst, cloud, creates, scenario>>

\* The target is the current count, or below it: the call returns.
ScaleNoDelta(c) ==
    /\ call[c].pc = "plan"
    /\ call' = [call EXCEPT ![c] = Idle]
    /\ UNCHANGED <<dep, inst, cloud, creates, scenario>>

-----------------------------------------------------------------------------
(* provisionSlots, first half: every slot is placed by its own goroutine *)

IdOf(c, s) == replicaInstanceID(s, call[c].from + call[c].n)

SetWork(c, s, p, m) == call' = [call EXCEPT ![c].work[s] = [pc |-> p, pid |-> m]]

\* A record under the slot's id is reused, whatever its state.
placeReplicaInstance(c, s) ==
    LET old == inst[IdOf(c, s)] IN
    /\ call[c].work[s].pc = "read"
    /\ IF old.st # "NONE" THEN SetWork(c, s, "placed", old.pid)
                          ELSE SetWork(c, s, "patch", None)
    /\ UNCHANGED <<dep, inst, cloud, creates, scenario>>

\* The slot's spec is refused.
PlaceFails(c, s) ==
    /\ "spec" \in Faults
    /\ call[c].work[s].pc = "read"
    /\ SetWork(c, s, "unplaced", None)
    /\ UNCHANGED <<dep, inst, cloud, creates, scenario>>

\* Otherwise a PENDING one is written; a VM-style provider then rents.
PlacePatch(c, s) ==
    /\ call[c].work[s].pc = "patch"
    /\ inst' = [inst EXCEPT ![IdOf(c, s)] = newPendingInstance]
    /\ SetWork(c, s, IF Native THEN "placed" ELSE "spawn", None)
    /\ UNCHANGED <<dep, cloud, creates, scenario>>

Rent(i, m) ==
    /\ cloud[m].status = "free"
    /\ cloud' = [cloud EXCEPT ![m] = [status |-> "rented", for |-> i]]

\* registerKeyAndSpawn: the machine is rented, then recorded ...
Spawn(c, s, m) ==
    /\ call[c].work[s].pc = "spawn"
    /\ Rent(IdOf(c, s), m)
    /\ SetWork(c, s, "stamp", m)
    /\ UNCHANGED <<dep, inst, creates, scenario>>

SpawnStamp(c, s) ==
    /\ call[c].work[s].pc = "stamp"
    /\ inst' = [inst EXCEPT ![IdOf(c, s)] =
                  [st |-> "ACTIVE", pid |-> call[c].work[s].pid]]
    /\ SetWork(c, s, "ssh", call[c].work[s].pid)
    /\ UNCHANGED <<dep, cloud, creates, scenario>>

\* ... and recorded once more when sshd answers; a timeout is ignored.
SshReady(c, s) ==
    /\ call[c].work[s].pc = "ssh"
    /\ \/ inst' = [inst EXCEPT ![IdOf(c, s)] =
                     [st |-> "ACTIVE", pid |-> call[c].work[s].pid]]
       \/ UNCHANGED inst
    /\ SetWork(c, s, "placed", call[c].work[s].pid)
    /\ UNCHANGED <<dep, cloud, creates, scenario>>

\* Without a key the record is left alone, without a machine it is marked
\* FAILED; the slot stays unplaced.
SpawnFails(c, s) ==
    /\ call[c].work[s].pc = "spawn"
    /\ \/ "key" \in Faults /\ UNCHANGED inst
       \/ /\ "rent" \in Faults
          /\ inst' = [inst EXCEPT ![IdOf(c, s)] = [st |-> "FAILED", pid |-> None]]
    /\ SetWork(c, s, "unplaced", None)
    /\ UNCHANGED <<dep, cloud, creates, scenario>>

-----------------------------------------------------------------------------
(* provisionSlots, second half: record the slots, launch, collect *)

Planned(c) == (call[c].from + 1)..(call[c].from + call[c].n)

\* The replica backing of a slot after placement.
Backing(c, s) ==
    IF call[c].work[s].pc = "placed" THEN IdOf(c, s) ELSE None

\* The slot table is made from scratch.
recordCreateSlots(c) ==
    /\ dep' = [dep EXCEPT
                 !.reps = [s \in 1..call[c].n |-> [id |-> Backing(c, s), ep |-> FALSE]],
                 !.anchor = IF call[c].n = 1 /\ Backing(c, 1) # None
                            THEN Backing(c, 1) ELSE @]

\* The slot table is extended; an endpoint that is there stays.
recordAppendedSlots(c) ==
    LET need == call[c].from + call[c].n
        len  == IF Len(dep.reps) > need THEN Len(dep.reps) ELSE need
        old(s) == IF s <= Len(dep.reps) THEN dep.reps[s] ELSE [id |-> None, ep |-> FALSE]
    IN  dep' = [dep EXCEPT
                  !.reps = [s \in 1..len |->
                              IF s \in Planned(c) THEN [old(s) EXCEPT !.id = Backing(c, s)]
                              ELSE old(s)]]

\* Mutant: a slot that was not placed reports no result.
LaunchPc_NoResult(c, s) ==
    IF call[c].work[s].pc = "placed" THEN "start" ELSE "unplaced"

\* A placed slot is deployed; any other has its failure as its result.
LaunchPc(c, s) == IF call[c].work[s].pc = "placed" THEN "start" ELSE "failed"

\* All slots are placed or not: they are recorded and the placed ones launched.
Launch(c) ==
    /\ call[c].pc = "place"
    /\ \A s \in Planned(c) : call[c].work[s].pc \in {"placed", "unplaced"}
    /\ IF call[c].op = "create" THEN recordCreateSlots(c) ELSE recordAppendedSlots(c)
    /\ call' = [call EXCEPT
                  ![c].pc = "launch",
                  ![c].work = [s \in Slots |->
                                 IF s \in Planned(c) THEN [@[s] EXCEPT !.pc = LaunchPc(c, s)]
                                 ELSE @[s]]]
    /\ UNCHANGED <<inst, cloud, creates, scenario>>

\* replicaKey failed for a placed slot.
KeyFails(c, s) ==
    /\ "key" \in Faults
    /\ call[c].work[s].pc = "start"
    /\ SetWork(c, s, "failed", call[c].work[s].pid)
    /\ UNCHANGED <<dep, inst, cloud, creates, scenario>>

\* Deploy reports STARTING.
DeployStarting(c, s) ==
    /\ call[c].work[s].pc = "start"
    /\ patchDeploymentSlot(IdOf(c, s), "STARTING", FALSE, None)
    /\ SetWork(c, s, "rent", call[c].work[s].pid)
    /\ UNCHANGED <<cloud, creates, scenario>>

\* An image-native deployer creates the pod.
CreatePod(c, s, m) ==
    /\ Native
    /\ call[c].work[s].pc = "rent"
    /\ Rent(IdOf(c, s), m)
    /\ SetWork(c, s, "report", m)
    /\ UNCHANGED <<dep, inst, creates, scenario>>

\* The sshdocker executor connects to the machine of the slot.
Connect(c, s) ==
    /\ ~Native
    /\ call[c].work[s].pc = "rent"
    /\ Rented(call[c].work[s].pid)
    /\ SetWork(c, s, "report", call[c].work[s].pid)
    /\ UNCHANGED <<dep, inst, cloud, creates, scenario>>

\* No pod, or no connection: Deploy reports FAILED, which moves no state.
DeployFails(c, s) ==
    /\ call[c].work[s].pc = "rent"
    /\ "rent" \in Faults \/ (~Native /\ ~Rented(call[c].work[s].pid))
    /\ SetWork(c, s, "failed", call[c].work[s].pid)
    /\ UNCHANGED <<dep, inst, cloud, creates, scenario>>

\* Deploy reports CONFIGURING, and the pod's id.
DeployConfiguring(c, s) ==
    /\ call[c].work[s].pc = "report"
    /\ patchDeploymentSlot(IdOf(c, s), "CONFIGURING", FALSE, call[c].work[s].pid)
    /\ SetWork(c, s, "boot", call[c].work[s].pid)
    /\ UNCHANGED <<cloud, creates, scenario>>

\* The engine answers: Deploy reports RUNNING and the endpoint.
DeployRunning(c, s) ==
    /\ call[c].work[s].pc = "boot"
    /\ Rented(call[c].work[s].pid)
    /\ patchDeploymentSlot(IdOf(c, s), "RUNNING", TRUE, call[c].work[s].pid)
    /\ SetWork(c, s, "final", call[c].work[s].pid)
    /\ UNCHANGED <<cloud, creates, scenario>>

\* The engine never answers: the pod is left as it is.
EngineFails(c, s) ==
    /\ call[c].work[s].pc = "boot"
    /\ "engine" \in Faults \/ ~Rented(call[c].work[s].pid)
    /\ SetWork(c, s, "failed", call[c].work[s].pid)
    /\ UNCHANGED <<dep, inst, cloud, creates, scenario>>

\* finalizeInstanceAfterDeploy reads the record and asks the provider ...
FinalizeRead(c, s) ==
    LET cur == inst[IdOf(c, s)] IN
    /\ call[c].work[s].pc = "final"
    /\ IF cur.st \in {"NONE", "ACTIVE"} \/ cur.pid = None
       THEN SetWork(c, s, "ok", None)
       ELSE SetWork(c, s, "write", cur.pid)
    /\ UNCHANGED <<dep, inst, cloud, creates, scenario>>

\* ... and writes it back as ACTIVE.
FinalizeWrite(c, s) ==
    /\ call[c].work[s].pc = "write"
    /\ inst' = [inst EXCEPT ![IdOf(c, s)] =
                  [st |-> "ACTIVE", pid |-> call[c].work[s].pid]]
    /\ SetWork(c, s, "ok", None)
    /\ UNCHANGED <<dep, cloud, creates, scenario>>

Successes(c) == {s \in Planned(c) : call[c].work[s].pc = "ok"}

\* Mutant: one success is enough.
applyAggregateState_AnySuccess(c) ==
    IF Successes(c) # {} THEN "RUNNING" ELSE "FAILED"

\* The state a create's results add up to, whatever the state is by now.
applyAggregateState(c) ==
    CASE Successes(c) = Planned(c) -> "RUNNING"
      [] Successes(c) = {}         -> "FAILED"
      [] OTHER                     -> "DEGRADED"

\* A scale-up only ever degrades.
applyScaleAggregate(c) ==
    IF Successes(c) = Planned(c) THEN dep.st ELSE "DEGRADED"

\* Every slot has reported.
Aggregate(c) ==
    /\ call[c].pc = "launch"
    /\ \A s \in Planned(c) : call[c].work[s].pc \in {"ok", "failed"}
    /\ dep' = [dep EXCEPT !.st = IF call[c].op = "create" THEN applyAggregateState(c)
                                 ELSE applyScaleAggregate(c)]
    /\ call' = [call EXCEPT ![c] = Idle]
    /\ UNCHANGED <<inst, cloud, creates, scenario>>

-----------------------------------------------------------------------------
(* DestroyDeployment *)

\* Mutant: a teardown that has begun is left to whoever began it.
DestroyClaim_Once(c) ==
    /\ "destroy" \in Ops
    /\ CanBegin(c)
    /\ dep.st \notin {"NONE", "TERMINATING", "TERMINATED"}
    /\ dep' = [dep EXCEPT !.st = "TERMINATING"]
    /\ call' = [call EXCEPT ![c] =
                  [Idle EXCEPT !.op = "destroy", !.pc = "read",
                               !.todo = EffectiveInstanceIDs(dep)]]
    /\ UNCHANGED <<inst, cloud, creates, scenario>>

\* Mark TERMINATING and capture the slot table.
DestroyClaim(c) ==
    /\ "destroy" \in Ops
    /\ CanBegin(c)
    /\ dep.st \notin {"NONE", "TERMINATED"}
    /\ dep' = [dep EXCEPT !.st = "TERMINATING"]
    /\ call' = [call EXCEPT ![c] =
                  [Idle EXCEPT !.op = "destroy", !.pc = "read",
                               !.todo = EffectiveInstanceIDs(dep)]]
    /\ UNCHANGED <<inst, cloud, creates, scenario>>

\* Read the instances: the snapshot every provider call below is made from.
DestroyRead(c) ==
    /\ call[c].pc = "read"
    /\ call' = [call EXCEPT ![c].pc = "next", ![c].snap = inst]
    /\ UNCHANGED <<dep, inst, cloud, creates, scenario>>

\* The instances are visited in the order of the slots, which is that of their
\* ids: the next one, if there is one.
Upcoming(c) == {i \in call[c].todo : \A j \in call[c].todo : i <= j}

Cur(c) == call[c].cur

\* Instance i is done with; its failure, if any, is remembered.
NextInstance(c, i, bad) ==
    call' = [call EXCEPT ![c].pc = "next", ![c].todo = @ \ {i}, ![c].cur = None,
                         ![c].rec = NoRecord, ![c].failed = @ \/ bad]

\* The snapshot has no such instance, or its key cannot be loaded.
DestroySkip(c) ==
    /\ call[c].pc = "next"
    /\ \E i \in Upcoming(c) :
          \/ call[c].snap[i].st = "NONE" /\ NextInstance(c, i, FALSE)
          \/ "key" \in Faults /\ call[c].snap[i].st # "NONE" /\ NextInstance(c, i, TRUE)
    /\ UNCHANGED <<dep, inst, cloud, creates, scenario>>

\* The deployer's Destroy reports TERMINATING, or TERMINATED at once when an
\* image-native one has no pod to name.
DestroyBegin(c) ==
    /\ call[c].pc = "next"
    /\ \E i \in Upcoming(c) :
          LET none == Native /\ call[c].snap[i].pid = None IN
          /\ call[c].snap[i].st # "NONE"
          /\ dep' = [dep EXCEPT !.st = IF none THEN "TERMINATED" ELSE "TERMINATING"]
          /\ call' = [call EXCEPT ![c].pc = IF none THEN "release" ELSE "stop", ![c].cur = i]
    /\ UNCHANGED <<inst, cloud, creates, scenario>>

\* provider.Terminate, a success on a machine that is gone already.
Terminate(m) == cloud' = [cloud EXCEPT ![m].status = "gone"]

\* The deployer's Destroy ends the pod, or stops the container over SSH.
DestroyStop(c) ==
    LET m == call[c].snap[Cur(c)].pid IN
    /\ call[c].pc = "stop"
    /\ IF Native THEN Terminate(m) ELSE Rented(m) /\ UNCHANGED cloud
    /\ call' = [call EXCEPT ![c].pc = "emit"]
    /\ UNCHANGED <<dep, inst, creates, scenario>>

\* The provider or the machine refuses: a transient error reports TERMINATING,
\* others FAILED.
DestroyStopFails(c) ==
    /\ "terminate" \in Faults
    /\ call[c].pc = "stop"
    /\ Native \/ Rented(call[c].snap[Cur(c)].pid)
    /\ \E st \in {"FAILED"} \cup (IF Native THEN {"TERMINATING"} ELSE {}) :
          dep' = [dep EXCEPT !.st = st]
    /\ NextInstance(c, Cur(c), TRUE)
    /\ UNCHANGED <<inst, cloud, creates, scenario>>

\* The sshdocker executor cannot reach a machine that is gone.
DestroyUnreachable(c) ==
    /\ ~Native
    /\ call[c].pc = "stop"
    /\ ~Rented(call[c].snap[Cur(c)].pid)
    /\ dep' = [dep EXCEPT !.st = "FAILED"]
    /\ NextInstance(c, Cur(c), TRUE)
    /\ UNCHANGED <<inst, cloud, creates, scenario>>

\* It succeeded, and reports TERMINATED.
DestroyEmit(c) ==
    /\ call[c].pc = "emit"
    /\ dep' = [dep EXCEPT !.st = "TERMINATED"]
    /\ call' = [call EXCEPT ![c].pc = "release"]
    /\ UNCHANGED <<inst, cloud, creates, scenario>>

\* The machine goes back to the provider.
releaseRental(c) ==
    LET m == call[c].snap[Cur(c)].pid IN
    /\ call[c].pc = "release"
    /\ IF m = None THEN UNCHANGED cloud ELSE Terminate(m)
    /\ call' = [call EXCEPT ![c].pc = "mark"]
    /\ UNCHANGED <<dep, inst, creates, scenario>>

ReleaseFails(c) ==
    /\ "terminate" \in Faults
    /\ call[c].pc = "release"
    /\ call[c].snap[Cur(c)].pid # None
    /\ NextInstance(c, Cur(c), TRUE)
    /\ UNCHANGED <<dep, inst, cloud, creates, scenario>>

\* markInstanceTerminated reads the record ...
MarkRead(c) ==
    LET cur == inst[Cur(c)] IN
    /\ call[c].pc = "mark"
    /\ IF cur.st \in {"NONE", "TERMINATED"} THEN NextInstance(c, Cur(c), FALSE)
       ELSE call' = [call EXCEPT ![c].pc = "write",
                                 ![c].rec = [cur EXCEPT !.st = "TERMINATED"]]
    /\ UNCHANGED <<dep, inst, cloud, creates, scenario>>

\* ... and writes it back.
MarkWrite(c) ==
    /\ call[c].pc = "write"
    /\ inst' = [inst EXCEPT ![Cur(c)] = call[c].rec]
    /\ NextInstance(c, Cur(c), FALSE)
    /\ UNCHANGED <<dep, cloud, creates, scenario>>

\* TERMINATING is left for a retry when some instance failed.
DestroyState(failed) == IF failed THEN "TERMINATING" ELSE "TERMINATED"

DestroyFinish(c) ==
    /\ call[c].pc = "next"
    /\ call[c].todo = {}
    /\ dep' = [dep EXCEPT !.st = DestroyState(call[c].failed)]
    /\ call' = [call EXCEPT ![c] = Idle]
    /\ UNCHANGED <<inst, cloud, creates, scenario>>

-----------------------------------------------------------------------------
\* The daemon dies, with every goroutine in it.
Crash ==
    /\ "crash" \in Faults
    /\ ~NoCalls
    /\ call' = [c \in Callers |-> Idle]
    /\ UNCHANGED <<dep, inst, cloud, creates, scenario>>

WorkStep(c, s) ==
    \/ placeReplicaInstance(c, s) \/ PlaceFails(c, s) \/ PlacePatch(c, s)
    \/ SpawnStamp(c, s) \/ SshReady(c, s) \/ SpawnFails(c, s)
    \/ KeyFails(c, s) \/ DeployStarting(c, s) \/ Connect(c, s) \/ DeployFails(c, s)
    \/ DeployConfiguring(c, s) \/ DeployRunning(c, s) \/ EngineFails(c, s)
    \/ FinalizeRead(c, s) \/ FinalizeWrite(c, s)
    \/ \E m \in Machines : Spawn(c, s, m) \/ CreatePod(c, s, m)

FanOutStep(c) ==
    \/ ScaleNormalise(c)
    \/ \E n \in Slots : ScalePlan(c, n)
    \/ ScaleNoDelta(c)
    \/ Launch(c)
    \/ Aggregate(c)

DestroyStep(c) ==
    \/ DestroyRead(c) \/ DestroySkip(c) \/ DestroyBegin(c)
    \/ DestroyStop(c) \/ DestroyStopFails(c) \/ DestroyUnreachable(c)
    \/ DestroyEmit(c)
    \/ releaseRental(c) \/ ReleaseFails(c) \/ MarkRead(c) \/ MarkWrite(c)
    \/ DestroyFinish(c)

Next ==
    \/ \E c \in Callers :
          \/ \E n \in Slots : CreateClaim(c, n)
          \/ ScaleRead(c)
          \/ DestroyClaim(c)
          \/ FanOutStep(c)
          \/ DestroyStep(c)
          \/ \E s \in Slots : WorkStep(c, s)
    \/ Crash

Spec == Init /\ [][Next]_vars

\* A call that has begun goes on: every goroutine gets its turn.
Progress ==
    \A c \in Callers :
       /\ WF_state(FanOutStep(c))
       /\ WF_state(DestroyStep(c))
       /\ \A s \in Slots : WF_state(WorkStep(c, s))

FairSpec == Spec /\ Progress

\* The deployment is destroyed again and again, and the errors of the provider
\* and of the key store are over at some point.
Retries ==
    /\ \A c \in Callers : SF_state(DestroyClaim(c))
    /\ <>[][\A c \in Callers :
              ~DestroyStopFails(c) /\ ~ReleaseFails(c) /\ ~DestroySkip(c)]_state

-----------------------------------------------------------------------------
(* Properties *)

\* Type correctness of the state file, the account and the calls in flight.
TypeOK ==
    /\ dep \in Deployment
    /\ Len(dep.reps) <= MaxSlots
    /\ inst \in [Ids -> Record]
    /\ cloud \in [Machines -> Machine]
    /\ call \in [Callers -> Call]
    /\ creates \in 0..MaxCreates
    /\ scenario \in Scenarios

\* Machine m was rented for instance i.
Owned(m, i) == cloud[m].status # "free" /\ cloud[m].for = i

\* Every provider_id on record, or held by a slot's goroutine or a destroy
\* across its provider calls, is a machine rented for that same instance, and
\* no two slots name one instance: stale as they may be, they never make one
\* replica's teardown end another's machine.
Binding ==
    /\ \A i \in Ids : inst[i].pid # None => Owned(inst[i].pid, i)
    /\ \A c \in Callers, s \in Slots :
          call[c].work[s].pid # None => Owned(call[c].work[s].pid, IdOf(c, s))
    /\ \A c \in Callers, i \in Ids :
          call[c].snap[i].pid # None => Owned(call[c].snap[i].pid, i)
    /\ \A c \in Callers : call[c].rec.pid # None => Owned(call[c].rec.pid, Cur(c))
    /\ \A k, l \in DOMAIN dep.reps :
          dep.reps[k].id # None /\ dep.reps[k].id = dep.reps[l].id => k = l

\* RUNNING means that all of it serves: when nobody destroys or replaces the
\* deployment, every slot has an endpoint, on a machine that is rented and that
\* the slot's record names.
RunningMeansServing ==
    /\ Ops \subseteq {"create", "scale"}
    /\ "crash" \notin Faults
    /\ NoCalls
    /\ dep.st = "RUNNING"
    => \A k \in DOMAIN dep.reps :
          /\ dep.reps[k].id # None
          /\ dep.reps[k].ep
          /\ Rented(inst[dep.reps[k].id].pid)

\* The order the states of a deployment that is being provisioned go through.
Stage(st) == IF st \in InFlight THEN rank(st) ELSE 4

\* provisioningAdvance: however the goroutines of a create's slots interleave,
\* the state only moves forward until a new create claims the record.
ForwardOnly ==
    [][Ops = {"create"} /\ creates' = creates /\ dep.st # "NONE" =>
          Stage(dep.st) <= Stage(dep'.st)]_vars

\* No call leaves the deployment in an in-flight state when it is over.
Settled == NoCalls => dep.st \notin InFlight

\* A create ends in a settled state, a destroy started at any point of it
\* included.
CreateSettles ==
    Ops \subseteq {"create", "destroy"} /\ "crash" \notin Faults => Settled

\* TERMINATED means that the meter has stopped: with no call in flight, no
\* machine rented for a TERMINATED deployment is still rented.
Released ==
    NoCalls /\ dep.st = "TERMINATED" => \A m \in Machines : ~Rented(m)

\* A deployment is created at most once, be it before the start; no destroy
\* overlaps a create or a scale-up; and the daemon does not die.
CreatedOnce ==
    /\ scenario.creates <= IF scenario.start = "empty" THEN 1 ELSE 0
    /\ scenario.calls = 1 \/ Ops = {"destroy"}
    /\ "crash" \notin Faults

\* Such a deployment is released, through scale-ups, failures and overlapping
\* destroys.
FirstDestroyReleases == CreatedOnce => Released

\* placeReplicaInstance: on a VM-style provider, running a create again never
\* rents a second machine for a slot that has one.
SlotRentedOnce ==
    /\ ~Native
    /\ Ops = {"create"}
    => \A m, n \in Machines :
          Rented(m) /\ Rented(n) /\ cloud[m].for = cloud[n].for => m = n

\* A deployment's slots keep to their own: well typed, bound to the machines
\* rented for them, and rented for once.
DeploymentSafe == TypeOK /\ Binding /\ SlotRentedOnce

\* The record is honest when no call is in flight: RUNNING is served by every
\* slot, a create has settled, and a TERMINATED deployment that was created once
\* has nothing left rented.
RecordHonest == RunningMeansServing /\ CreateSettles /\ FirstDestroyReleases

\* Every create and scale comes to an end, whatever fails in its slots.
ProvisionEnds ==
    \A c \in Callers : call[c].op \in {"create", "scale"} ~> call[c] = Idle

\* On an image-native provider a destroy that failed on some replica converges
\* when it is retried.
DestroyConverges ==
    Retries =>
        (Native /\ Ops = {"destroy"} /\ dep.st = "TERMINATING"
            ~> NoCalls /\ dep.st = "TERMINATED" /\ Released)

=============================================================================
