----------------------------- MODULE Instances -----------------------------
(***************************************************************************)
(* The instance half of the provisioner service                            *)
(* (internal/provisioners/service.go): CreateInstance, DestroyInstance,    *)
(* DescribeInstance, WaitForInstanceReady and the self-heal of             *)
(* ListInstances, run by concurrent callers over one state file and one    *)
(* provider account.                                                       *)
(*                                                                         *)
(* Every store.Update is one atomic step; every provider call is a step of *)
(* its own, taken outside the file lock, so that whatever a caller read    *)
(* before it may be stale when the caller writes.  A call that returns     *)
(* without writing (already exists, still terminating, not found) is a     *)
(* stuttering step and has no action.                                      *)
(***************************************************************************)
EXTENDS Naturals, FiniteSets

CONSTANTS
    Ids,        \* instance ids the operators use
    Machines,   \* machines the provider account can ever rent (bounds rentals)
    Callers,    \* concurrent RPC or CLI callers
    None,       \* the empty provider_id, and the tag of a hand-rented machine
    Scenarios,  \* the circumstances to consider, see Scenario
    Adoptable   \* machine statuses the adapter's IsActiveProviderState accepts

OpNames == {"create", "destroy", "force", "describe", "wait", "list"}

FaultNames ==
    {"list", "describe", "key", "terminate", "lostreply",
     "crash", "wipe", "vanish", "exit"}

\* Per id, the container_id of a deployment record of an older version, or None.
Legacies ==
    {l \in [Ids -> Machines \cup {None}] :
        \A i, j \in Ids : l[i] = l[j] /\ l[i] # None => i = j}

\* How many calls overlap at most, which operations callers invoke, the ids
\* they create, what the environment may do wrong, and the old records there
\* are.
Scenario ==
    [calls  : Nat,
     ops    : SUBSET OpNames,
     ids    : SUBSET Ids,
     faults : SUBSET FaultNames,
     legacy : Legacies]

ASSUME ConstantsAssumption ==
    /\ None \notin Ids
    /\ None \notin Machines
    /\ Scenarios \subseteq Scenario
    /\ Adoptable \subseteq {"booting", "running"}
    /\ IsFiniteSet(Callers)

VARIABLES
    file,   \* the state file: the instance record under every id
    cloud,  \* the provider account: status and iplane-id tag of every machine
    call,   \* what each caller is doing, with the values it captured
    scenario    \* the scenario of this behaviour

state == <<file, cloud, call>>

vars == <<file, cloud, call, scenario>>

Ops == scenario.ops

Faults == scenario.faults

LegacyPod == scenario.legacy

InstanceState ==
    {"NONE", "PENDING", "ACTIVE", "TERMINATING", "TERMINATED", "FAILED"}

\* An instance record, reduced to its state and its provider_id.
Record == [st : InstanceState, pid : Machines \cup {None}]

NoRecord == [st |-> "NONE", pid |-> None]

\* A machine: not rented yet, rented, stopped but still listed, or gone.
Status == {"free", "booting", "running", "exited", "gone"}

Machine == [status : Status, tag : Ids \cup {None}]

\* Mutant: the state field is left unset.
newPendingInstance_Unset == [st |-> "UNSPECIFIED", pid |-> None]

\* The record CreateInstance writes before it rents.
newPendingInstance == [st |-> "PENDING", pid |-> None]

NoHeal == [i \in Ids |-> "NONE"]

CallOp == {"none", "create", "destroy", "describe", "wait", "list"}

CallPc ==
    {"idle", "lookup", "adopt", "spawn", "terminate", "probe", "await", "heal",
     "patch", "settle"}

Call ==
    [op   : CallOp,
     pc   : CallPc,
     id   : Ids \cup {None},
     rec  : Record,                        \* captured, or about to be written
     heal : [Ids -> InstanceState]]        \* what ListInstances still has to heal

Idle ==
    [op |-> "none", pc |-> "idle", id |-> None, rec |-> NoRecord, heal |-> NoHeal]

-----------------------------------------------------------------------------
(* The provider account, as the adapters show it. *)

\* Rented and able to serve: charges accrue.
Rented(m) == cloud[m].status \in {"booting", "running"}

\* What provider.List returns when the adapter drops the tag filter, which
\* the service must tolerate: the whole account.
Listed == {m \in Machines : cloud[m].status \in {"booting", "running", "exited"}}

\* Mutant: the adapter's answer is trusted.
FilterRefs_Trusting(refs, i) == refs

\* The service's own re-check of the refs against the iplane-id tag.
FilterRefs(refs, i) == {m \in refs : cloud[m].tag = i}

\* The instance state an adapter's Describe reports for a machine it has.
Reported(m) ==
    CASE cloud[m].status = "booting" -> "PENDING"
      [] cloud[m].status = "exited"  -> "TERMINATED"
      [] OTHER                       -> "ACTIVE"

-----------------------------------------------------------------------------
Init ==
    /\ scenario \in Scenarios
    /\ file = [i \in Ids |->
                 IF LegacyPod[i] # None THEN newPendingInstance ELSE NoRecord]
    /\ cloud \in [Machines -> Machine]
    /\ \A m \in Machines :
          \/ \E i \in Ids : /\ LegacyPod[i] = m
                            /\ cloud[m] = [status |-> "running", tag |-> i]
          \/ /\ \A i \in Ids : LegacyPod[i] # m
             /\ \/ cloud[m] = [status |-> "free", tag |-> None]
                \/ cloud[m] = [status |-> "running", tag |-> None]
    /\ call = [c \in Callers |-> Idle]

CanBegin(c) ==
    /\ call[c] = Idle
    /\ Cardinality({d \in Callers : call[d] # Idle}) < scenario.calls

SetCall(c, o, p, i, r, h) ==
    call' = [call EXCEPT ![c] = [op |-> o, pc |-> p, id |-> i, rec |-> r, heal |-> h]]

Begin(c, o, p, i, r) == SetCall(c, o, p, i, r, NoHeal)

Goto(c, p, r) == SetCall(c, call[c].op, p, call[c].id, r, call[c].heal)

\* A call returns; ListInstances first finishes the records it set out to heal.
ReturnWith(c, h) ==
    IF h = NoHeal THEN call' = [call EXCEPT ![c] = Idle]
    ELSE SetCall(c, call[c].op, "heal", None, NoRecord, h)

Return(c) == ReturnWith(c, call[c].heal)

-----------------------------------------------------------------------------
(* CreateInstance *)

\* Mutant: a PENDING record is claimed again.
CreateClaim_Reclaim(c, i) ==
    /\ "create" \in Ops
    /\ i \in scenario.ids
    /\ CanBegin(c)
    /\ file[i].st \in {"NONE", "PENDING", "TERMINATED", "FAILED"}
    /\ file' = [file EXCEPT ![i] = newPendingInstance]
    /\ Begin(c, "create", "lookup", i, newPendingInstance)
    /\ UNCHANGED <<cloud, scenario>>

\* Step 1: claim a PENDING record unless a live one exists.
CreateClaim(c, i) ==
    /\ "create" \in Ops
    /\ i \in scenario.ids
    /\ CanBegin(c)
    /\ file[i].st \in {"NONE", "TERMINATED", "FAILED"}
    /\ file' = [file EXCEPT ![i] = newPendingInstance]
    /\ Begin(c, "create", "lookup", i, newPendingInstance)
    /\ UNCHANGED <<cloud, scenario>>

\* A tagged machine was found: it is described next, to be adopted.
Found(m) == [st |-> "PENDING", pid |-> m]

\* Step 2: find a live machine that already carries the id's tag ...
CreateFound(c, m) ==
    /\ call[c].pc = "lookup"
    /\ m \in FilterRefs(Listed, call[c].id)
    /\ cloud[m].status \in Adoptable
    /\ Goto(c, "adopt", Found(m))
    /\ UNCHANGED <<file, cloud, scenario>>

\* ... or go on to rent when there is none, or when List failed (its error is
\* ignored here).
CreateMiss(c) ==
    /\ call[c].pc = "lookup"
    /\ \/ "list" \in Faults
       \/ \A m \in FilterRefs(Listed, call[c].id) : cloud[m].status \notin Adoptable
    /\ Goto(c, "spawn", newPendingInstance)
    /\ UNCHANGED <<file, cloud, scenario>>

\* The machine is adopted as the provider describes it by now.
Adopt(c) ==
    /\ call[c].pc = "adopt"
    /\ call[c].rec.pid \in Listed
    /\ Goto(c, "patch", [st |-> Reported(call[c].rec.pid), pid |-> call[c].rec.pid])
    /\ UNCHANGED <<file, cloud, scenario>>

\* Describe fails, or the machine is gone since it was listed.
AdoptFails(c) ==
    /\ call[c].pc = "adopt"
    /\ "describe" \in Faults \/ call[c].rec.pid \notin Listed

\* CreateInstance tries the next machine under the tag ...
AdoptNext(c, m) ==
    /\ AdoptFails(c)
    /\ call[c].op = "create"
    /\ m \in FilterRefs(Listed, call[c].id) \ {call[c].rec.pid}
    /\ cloud[m].status \in Adoptable
    /\ Goto(c, "adopt", Found(m))
    /\ UNCHANGED <<file, cloud, scenario>>

\* ... and rents after the last one; ListInstances skips the record.
AdoptError(c) ==
    /\ AdoptFails(c)
    /\ \/ call[c].op = "create" /\ Goto(c, "spawn", newPendingInstance)
       \/ call[c].op = "list" /\ Return(c)
    /\ UNCHANGED <<file, cloud, scenario>>

\* ensureProviderKey failed: the call returns and the record stays PENDING.
CreateKeyError(c) ==
    /\ "key" \in Faults
    /\ call[c].pc = "spawn"
    /\ Return(c)
    /\ UNCHANGED <<file, cloud, scenario>>

\* Step 3: Spawn rented m and answered, PENDING or ACTIVE by adapter.
SpawnOK(c, m) ==
    /\ call[c].pc = "spawn"
    /\ cloud[m].status = "free"
    /\ cloud' = [cloud EXCEPT ![m] = [status |-> "booting", tag |-> call[c].id]]
    /\ \E s \in {"PENDING", "ACTIVE"} : Goto(c, "patch", [st |-> s, pid |-> m])
    /\ UNCHANGED <<file, scenario>>

\* Spawn failed with nothing rented.
SpawnError(c) ==
    /\ call[c].pc = "spawn"
    /\ Goto(c, "patch", [st |-> "FAILED", pid |-> call[c].rec.pid])
    /\ UNCHANGED <<file, cloud, scenario>>

\* Spawn rented m but the answer was lost: the service sees an error.
SpawnLost(c, m) ==
    /\ "lostreply" \in Faults
    /\ call[c].pc = "spawn"
    /\ cloud[m].status = "free"
    /\ cloud' = [cloud EXCEPT ![m] = [status |-> "booting", tag |-> call[c].id]]
    /\ Goto(c, "patch", [st |-> "FAILED", pid |-> call[c].rec.pid])
    /\ UNCHANGED <<file, scenario>>

\* patchRecord: overwrite whatever the file holds under the id by now.
patchRecord(c) ==
    /\ call[c].pc = "patch"
    /\ file' = [file EXCEPT ![call[c].id] = call[c].rec]
    /\ Return(c)
    /\ UNCHANGED <<cloud, scenario>>

-----------------------------------------------------------------------------
(* DestroyInstance *)

\* The provider_id to terminate, backfilled from the deployment record.
Target(i) == IF file[i].pid # None THEN file[i].pid ELSE LegacyPod[i]

\* Step 1: mark TERMINATING and capture the provider_id.  Step 2 is skipped
\* when there is none, or on --force.
DestroyClaim(c, i, force) ==
    /\ (IF force THEN "force" ELSE "destroy") \in Ops
    /\ CanBegin(c)
    /\ file[i].st \notin {"NONE", "TERMINATED"}
    /\ file' = [file EXCEPT ![i] = [st |-> "TERMINATING", pid |-> Target(i)]]
    /\ Begin(c, "destroy", IF force \/ Target(i) = None THEN "settle" ELSE "terminate",
             i, [st |-> "TERMINATED", pid |-> Target(i)])
    /\ UNCHANGED <<cloud, scenario>>

\* Step 2: provider.Terminate, a no-op success on a machine already gone.
Terminate(c) ==
    /\ call[c].pc = "terminate"
    /\ cloud' = [cloud EXCEPT ![call[c].rec.pid].status = "gone"]
    /\ Goto(c, "settle", call[c].rec)
    /\ UNCHANGED <<file, scenario>>

TerminateError(c) ==
    /\ "terminate" \in Faults
    /\ call[c].pc = "terminate"
    /\ Goto(c, "settle", [st |-> "FAILED", pid |-> call[c].rec.pid])
    /\ UNCHANGED <<file, cloud, scenario>>

\* The machine was released but the answer was lost.
TerminateLost(c) ==
    /\ "lostreply" \in Faults
    /\ call[c].pc = "terminate"
    /\ cloud' = [cloud EXCEPT ![call[c].rec.pid].status = "gone"]
    /\ Goto(c, "settle", [st |-> "FAILED", pid |-> call[c].rec.pid])
    /\ UNCHANGED <<file, scenario>>

\* Step 3, and the self-heal of a TERMINATING record: set the state of the
\* record that is there now, keeping its provider_id.
Settle(c) ==
    /\ call[c].pc = "settle"
    /\ file' = IF file[call[c].id].st = "NONE" THEN file
               ELSE [file EXCEPT ![call[c].id].st = call[c].rec.st]
    /\ Return(c)
    /\ UNCHANGED <<cloud, scenario>>

-----------------------------------------------------------------------------
(* DescribeInstance with SOURCE_REMOTE *)

DescribeRead(c, i) ==
    /\ "describe" \in Ops
    /\ CanBegin(c)
    /\ file[i].pid # None
    /\ Begin(c, "describe", "probe", i, file[i])
    /\ UNCHANGED <<file, cloud, scenario>>

\* The provider answers: its state for the machine, or not found, which
\* markVanished records as TERMINATED.
DescribeAnswer(c) ==
    LET m == call[c].rec.pid IN
    /\ call[c].pc = "probe"
    /\ Goto(c, "patch", [st |-> IF m \in Listed THEN Reported(m) ELSE "TERMINATED",
                         pid |-> m])
    /\ UNCHANGED <<file, cloud, scenario>>

\* Any other error leaves the record alone.
DescribeError(c) ==
    /\ "describe" \in Faults
    /\ call[c].pc = "probe"
    /\ Return(c)
    /\ UNCHANGED <<file, cloud, scenario>>

-----------------------------------------------------------------------------
(* WaitForInstanceReady *)

WaitRead(c, i) ==
    /\ "wait" \in Ops
    /\ CanBegin(c)
    /\ file[i].pid # None
    /\ Begin(c, "wait", "await", i, file[i])
    /\ UNCHANGED <<file, cloud, scenario>>

\* sshd answered: the record read before the wait is written back.
WaitReady(c) ==
    /\ call[c].pc = "await"
    /\ cloud[call[c].rec.pid].status = "running"
    /\ Goto(c, "patch", call[c].rec)
    /\ UNCHANGED <<file, cloud, scenario>>

WaitError(c) ==
    /\ call[c].pc = "await"
    /\ Return(c)
    /\ UNCHANGED <<file, cloud, scenario>>

-----------------------------------------------------------------------------
(* ListInstances with SOURCE_LOCAL: self-heal, then answer *)

\* Mutant: only PENDING records are healed.
Healable_PendingOnly == {"PENDING"}

\* The states ListInstances asks the provider about.
Healable == {"PENDING", "TERMINATING"}

ListRead(c) ==
    /\ "list" \in Ops
    /\ CanBegin(c)
    /\ \E i \in Ids : file[i].st \in Healable
    /\ SetCall(c, "list", "heal", None, NoRecord,
               [i \in Ids |-> IF file[i].st \in Healable THEN file[i].st ELSE "NONE"])
    /\ UNCHANGED <<file, cloud, scenario>>

\* Record i is taken up: it is healed by one step of type p that writes r.
Heal(c, i, p, r) ==
    SetCall(c, "list", p, i, r, [call[c].heal EXCEPT ![i] = "NONE"])

\* The provider has nothing under the tag of a TERMINATING record.
HealGone(c, i) ==
    /\ call[c].pc = "heal"
    /\ call[c].heal[i] = "TERMINATING"
    /\ FilterRefs(Listed, i) = {}
    /\ Heal(c, i, "settle", [st |-> "TERMINATED", pid |-> None])
    /\ UNCHANGED <<file, cloud, scenario>>

\* The provider has a machine under the tag of a PENDING record.
HealFound(c, i, m) ==
    /\ call[c].pc = "heal"
    /\ call[c].heal[i] = "PENDING"
    /\ m \in FilterRefs(Listed, i)
    /\ Heal(c, i, "adopt", Found(m))
    /\ UNCHANGED <<file, cloud, scenario>>

\* Nothing to do for record i, or the provider did not answer.
HealSkip(c, i) ==
    /\ call[c].pc = "heal"
    /\ \/ call[c].heal[i] = "PENDING" /\ FilterRefs(Listed, i) = {}
       \/ call[c].heal[i] = "TERMINATING" /\ FilterRefs(Listed, i) # {}
       \/ call[c].heal[i] # "NONE" /\ "list" \in Faults
    /\ ReturnWith(c, [call[c].heal EXCEPT ![i] = "NONE"])
    /\ UNCHANGED <<file, cloud, scenario>>

-----------------------------------------------------------------------------
(* The environment *)

\* A machine finishes booting.
Boot(m) ==
    /\ cloud[m].status = "booting"
    /\ cloud' = [cloud EXCEPT ![m].status = "running"]
    /\ UNCHANGED <<file, call, scenario>>

\* A machine stops but stays on the account, or leaves the account.
Lose(m) ==
    /\ \/ /\ "exit" \in Faults
          /\ cloud[m].status = "running"
          /\ cloud' = [cloud EXCEPT ![m].status = "exited"]
       \/ /\ "vanish" \in Faults
          /\ m \in Listed
          /\ cloud' = [cloud EXCEPT ![m].status = "gone"]
    /\ UNCHANGED <<file, call, scenario>>

\* The process that runs a call dies between two of its steps.
Crash(c) ==
    /\ "crash" \in Faults
    /\ call[c] # Idle
    /\ call' = [call EXCEPT ![c] = Idle]
    /\ UNCHANGED <<file, cloud, scenario>>

\* The state file is deleted while nothing runs.
WipeState ==
    /\ "wipe" \in Faults
    /\ \A c \in Callers : call[c] = Idle
    /\ file' = [i \in Ids |-> NoRecord]
    /\ UNCHANGED <<cloud, call, scenario>>

-----------------------------------------------------------------------------
CreateStep(c) ==
    \/ \E i \in Ids : CreateClaim(c, i)
    \/ \E m \in Machines : CreateFound(c, m) \/ SpawnOK(c, m) \/ SpawnLost(c, m)
    \/ CreateMiss(c)
    \/ CreateKeyError(c)
    \/ SpawnError(c)

DestroyStep(c) ==
    \/ \E i \in Ids, force \in BOOLEAN : DestroyClaim(c, i, force)
    \/ Terminate(c)
    \/ TerminateError(c)
    \/ TerminateLost(c)

ReadStep(c) ==
    \/ \E i \in Ids : DescribeRead(c, i) \/ WaitRead(c, i)
    \/ DescribeAnswer(c)
    \/ DescribeError(c)
    \/ WaitReady(c)
    \/ WaitError(c)

ListStep(c) ==
    \/ ListRead(c)
    \/ \E i \in Ids : HealGone(c, i) \/ HealSkip(c, i)
    \/ \E i \in Ids, m \in Machines : HealFound(c, i, m)

\* Steps that creates and listings share.
AdoptStep(c) ==
    \/ Adopt(c)
    \/ \E m \in Machines : AdoptNext(c, m)
    \/ AdoptError(c)

CallStep(c) ==
    \/ CreateStep(c)
    \/ AdoptStep(c)
    \/ DestroyStep(c)
    \/ ReadStep(c)
    \/ ListStep(c)
    \/ patchRecord(c)
    \/ Settle(c)

Environment ==
    \/ \E m \in Machines : Boot(m) \/ Lose(m)
    \/ \E c \in Callers : Crash(c)
    \/ WipeState

Next ==
    \/ \E c \in Callers : CallStep(c)
    \/ Environment

Spec == Init /\ [][Next]_vars

\* One caller that keeps listing; nothing is assumed of how often others list.
Lister == CHOOSE c \in Callers : TRUE

Healing(i) == call[Lister].op = "list" /\ call[Lister].id = i

\* It lists again and again, and not every listing is cut short by a crash
\* before it comes to record i.
Listing ==
    /\ SF_state(ListRead(Lister))
    /\ \A i \in Ids :
          /\ SF_state(HealGone(Lister, i))
          /\ SF_state(\E m \in Machines : HealFound(Lister, i, m))
          /\ SF_state(Healing(i) /\ Adopt(Lister))
          /\ SF_state(Healing(i) /\ (patchRecord(Lister) \/ Settle(Lister)))

\* A call that nothing kills goes on to its end.
Progress(c) == WF_state(call[c] # Idle /\ CallStep(c))

FairSpec == Spec /\ Listing /\ \A c \in Callers : Progress(c)

-----------------------------------------------------------------------------
(* Properties *)

\* Type correctness of the state file, the account and the calls in flight.
TypeOK ==
    /\ file \in [Ids -> Record]
    /\ cloud \in [Machines -> Machine]
    /\ call \in [Callers -> Call]
    /\ scenario \in Scenarios

\* Machine m was rented for id i, and carries its tag for good.
Owned(m, i) == cloud[m].status # "free" /\ cloud[m].tag = i

\* Whatever provider_id the file holds, a call captured before a provider call,
\* or an old deployment record names is a machine rented for that same id,
\* however stale it is: this is what makes the blind overwrite of patchRecord
\* and the Terminate of a captured id harmless to other instances.
Binding ==
    /\ \A i \in Ids : file[i].pid # None => Owned(file[i].pid, i)
    /\ \A c \in Callers :
          call[c].rec.pid # None => Owned(call[c].rec.pid, call[c].id)
    /\ \A i \in Ids : LegacyPod[i] # None => Owned(LegacyPod[i], i)

\* Two instance ids are never bound to one machine (the failure CreateInstance
\* re-checks the tags for: two ids pointing at one provider id).
NoSharedMachine ==
    \A i, j \in Ids :
        file[i].pid # None /\ file[i].pid = file[j].pid => i = j

\* An id keeps its own machine: what records, calls in flight and leftover
\* deployment records point at was rented for that id, and no two ids share a
\* machine, whatever stale answer of the provider a call still acts on.
OwnMachine == Binding /\ NoSharedMachine

\* A call that releases a machine releases one rented for the id it was asked
\* to destroy: never another id's machine, never one rented by hand.
TerminatesOwn ==
    [][\A c \in Callers, m \in Machines :
          /\ call[c].pc = "terminate"
          /\ call'[c].pc = "settle"
          /\ m \in Listed
          /\ cloud'[m].status = "gone"
          => cloud[m].tag = call[c].id]_vars

\* CreateInstance is idempotent on the id: concurrent and repeated creates,
\* lost Spawn answers, crashes and a lost state file included, never leave two
\* machines rented under one id, as long as nobody destroys or describes it
\* meanwhile and the provider's List answers and its machines keep running.
NoDoubleRent ==
    /\ Ops \subseteq {"create", "list", "wait"}
    /\ Faults \cap {"list", "describe", "exit"} = {}
    =>
      \A m, n \in Machines :
        /\ Rented(m) /\ Rented(n)
        /\ cloud[m].tag = cloud[n].tag
        /\ cloud[m].tag # None
        => m = n

\* TERMINATED means the provider confirmed the machine gone: with no call in
\* flight, nothing rented carries the tag of a TERMINATED record, provided
\* that calls do not overlap, none is forced, interrupted or misinformed.
TerminatedMeansGone ==
    /\ scenario.calls = 1
    /\ "force" \notin Ops
    /\ Faults \subseteq {"key", "terminate", "vanish"}
    /\ \A c \in Callers : call[c] = Idle
    =>
        \A i \in Ids, m \in Machines :
            file[i].st = "TERMINATED" /\ cloud[m].tag = i => ~Rented(m)

\* What the bill depends on: an id never rents twice, and a record that says
\* TERMINATED has nothing rented behind it, each in the circumstances in which
\* CreateInstance and DestroyInstance can promise it.
RentalSafe == NoDoubleRent /\ TerminatedMeansGone

\* A record whose machine a crash left unrecorded: still PENDING without a
\* provider_id although the account has a machine under its tag.
Unrecorded(i) ==
    /\ file[i] = newPendingInstance
    /\ FilterRefs(Listed, i) # {}

\* A record a crash left TERMINATING although its machine is gone.
Unsettled(i) ==
    /\ file[i].st = "TERMINATING"
    /\ FilterRefs(Listed, i) = {}

Heals == "list" \in Ops /\ Faults \cap {"list", "describe"} = {}

\* The self-heal of ListInstances: whatever step a crash interrupted, a rented
\* machine gets recorded and a finished teardown gets settled, as long as
\* somebody lists and the provider answers.
SelfHeal ==
    \A i \in Ids :
        /\ Heals /\ Unrecorded(i) ~> ~Unrecorded(i)
        /\ Heals /\ Unsettled(i) ~> ~Unsettled(i)

=============================================================================
