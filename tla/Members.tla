------------------------------ MODULE Members ------------------------------
(***************************************************************************)
(* A deployment whose members span several machines: how a member is       *)
(* placed, launched and, when one of its machines fails, handed back       *)
(* (fanout.go: placeMember, launchMember, returnMember), and how the       *)
(* deployment is destroyed on providers that rent the machine with the     *)
(* engine and on those that rent it first (service.go: releaseRental).     *)
(*                                                                         *)
(* One deployment of two members, of two machines and of one.  Deployments *)
(* has the races between a fan-out, a destroy and a second create; here a  *)
(* destroy begins when the fan-out has ended.                              *)
(***************************************************************************)
EXTENDS Integers, Sequences, FiniteSets, SequencesExt

CONSTANT MaxPods   \* bound: destroys asked for

VARIABLES account,   \* what is rented, and the instance records
          call,      \* the fan-out, then the destroy
          told       \* the deployment's record

mbVars == <<account, call, told>>

Slots == 1..2

Nodes(s) == IF s = 1 THEN 2 ELSE 1

\* nodeInstanceID over replicaInstanceID: a member of one machine is named by
\* its slot, a machine of a larger one by its rank too.
nodeInstanceID(s, n) == IF Nodes(s) <= 1 THEN <<s>> ELSE <<s, n>>

Machines(s) == [n \in 1..Nodes(s) |-> nodeInstanceID(s, n)]

Ids == UNION {ToSet(Machines(s)) : s \in Slots}

\* ownsInstance: the name must be the slot's and nothing more.
ownsInstance(id) == Len(id) = 1

mbInit ==
    /\ account \in [kind : {"vm", "native"}, rented : {{}}, unreturned : {{}}, inst : {[i \in Ids |-> "none"]}]
    /\ call = [slot |-> [s \in Slots |-> "placing"], node |-> [i \in Ids |-> "todo"], recorded |-> FALSE,
               left |-> <<>>, failed |-> FALSE, destroys |-> 0]
    /\ told = [state |-> "PENDING", members |-> [s \in Slots |-> <<>>], endpoint |-> [s \in Slots |-> <<>>]]

SlotTo(s, st) == call' = [call EXCEPT !.slot[s] = st]

\* returnMember: each machine is destroyed as an instance; one that cannot be
\* is logged and its record stays.
returnMember(ids, acct, kept) ==
    [acct EXCEPT !.rented = (@ \ ids) \cup kept, !.unreturned = @ \cup kept,
                 !.inst = [i \in Ids |-> IF i \in kept THEN "FAILED" ELSE IF i \in ids THEN "TERMINATED" ELSE @[i]]]

\* placeMember, one machine after the other.  A machine is rented here unless
\* its provider rents it with the engine.
placeMember(s) ==
    \E n \in 1..Nodes(s) :
        LET id == nodeInstanceID(s, n) IN
        /\ call.slot[s] = "placing"
        /\ call.node[id] = "todo" /\ \A k \in 1..(n - 1) : call.node[nodeInstanceID(s, k)] = "placed"
        /\ account' = [account EXCEPT !.inst[id] = IF account.kind = "vm" THEN "ACTIVE" ELSE "PENDING",
                                      !.rented = IF account.kind = "vm" THEN @ \cup {id} ELSE @]
        /\ call' = [call EXCEPT !.node[id] = "placed", !.slot[s] = IF n = Nodes(s) THEN "placed" ELSE @]
        /\ UNCHANGED told

\* placeMember, a machine fails: the ones before it go back and the slot stays
\* empty.
placeFails(s) ==
    LET before == {i \in ToSet(Machines(s)) : call.node[i] = "placed"} IN
    /\ call.slot[s] = "placing"
    /\ \E kept \in SUBSET (before \cap account.rented) : account' = returnMember(before, account, kept)
    /\ SlotTo(s, "err")
    /\ call.node[Machines(s)[Nodes(s)]] = "todo"
    /\ UNCHANGED told

\* recordCreateSlots, when every member is placed or failed.
recordCreateSlots ==
    /\ ~call.recorded /\ \A s \in Slots : call.slot[s] # "placing"
    /\ told' = [told EXCEPT !.members = [s \in Slots |-> IF call.slot[s] = "placed" THEN Machines(s) ELSE <<>>]]
    /\ call' = [call EXCEPT !.recorded = TRUE]
    /\ UNCHANGED account

\* replicaKey: without a key the member is not launched; its machines stay.
replicaKey(s, loads) ==
    /\ call.recorded /\ call.slot[s] = "placed"
    /\ SlotTo(s, IF loads THEN "launched" ELSE "err")
    /\ UNCHANGED <<account, told>>

\* Only the first machine of a member names its endpoint.
slotEndpoint(s, id, old) == IF id = nodeInstanceID(s, 1) THEN id ELSE old

\* runReplicaDeploy: a machine's engine comes up and its slot is patched, or
\* the deploy fails or panics, a machine rented on the way or not.
runReplicaDeploy(s, id) ==
    /\ call.slot[s] = "launched" /\ id \in ToSet(Machines(s)) /\ call.node[id] = "placed"
    /\ \/ /\ call' = [call EXCEPT !.node[id] = "up"]
          /\ account' = [account EXCEPT !.inst[id] = "ACTIVE", !.rented = @ \cup {id}]
          /\ told' = [told EXCEPT !.endpoint[s] = slotEndpoint(s, id, @)]
       \/ /\ call' = [call EXCEPT !.node[id] = "failed"]
          /\ \E rent \in {{}, {id}} : account' = [account EXCEPT !.rented = @ \cup rent]
          /\ UNCHANGED told

\* launchMember, once each of its machines answered: one that failed sends
\* all of a larger member back.
launchMember(s) ==
    LET ids == ToSet(Machines(s)) IN
    /\ call.slot[s] = "launched" /\ \A i \in ids : call.node[i] \in {"up", "failed"}
    /\ \/ /\ \A i \in ids : call.node[i] = "up"
          /\ SlotTo(s, "ok") /\ UNCHANGED account
       \/ /\ \E i \in ids : call.node[i] = "failed"
          /\ SlotTo(s, "err")
          /\ IF Nodes(s) = 1 THEN UNCHANGED account
             ELSE \E kept \in SUBSET (ids \cap account.rented) : account' = returnMember(ids, account, kept)
    /\ UNCHANGED told

\* applyAggregateState.
applyAggregateState ==
    LET good == {s \in Slots : call.slot[s] = "ok"} IN
    /\ told.state = "PENDING" /\ call.recorded /\ \A s \in Slots : call.slot[s] \in {"ok", "err"}
    /\ told' = [told EXCEPT !.state = IF good = Slots THEN "RUNNING" ELSE IF good # {} THEN "DEGRADED" ELSE "FAILED"]
    /\ UNCHANGED <<account, call>>

\* DestroyDeployment: every machine on the record, one after the other.
DestroyDeployment ==
    /\ told.state \in {"RUNNING", "DEGRADED", "FAILED"} \/ (told.state = "TERMINATING" /\ call.left = <<>>)
    /\ call.destroys < MaxPods
    /\ call' = [call EXCEPT !.left = told.members[1] \o told.members[2] \o <<<<>>>>, !.failed = FALSE, !.destroys = @ + 1]
    /\ told' = [told EXCEPT !.state = "TERMINATING"]
    /\ UNCHANGED account

\* The deployer's Destroy: it releases the machine where the engine is the
\* rental, idempotently; on a VM it stops the container over SSH and finds no
\* machine to dial when that was returned.
deployerDestroys(id) ==
    IF account.kind = "native" THEN {account.rented \ {id}}
    ELSE IF id \in account.rented THEN {account.rented} ELSE {}

\* Mutant: a destroyed container is taken for a released machine.
releaseRental_Trusts(id, rented) == rented

\* releaseRental: the machine itself, if its name says the deployment owns it.
releaseRental(id, rented) == IF ownsInstance(id) THEN rented \ {id} ELSE rented

\* One machine of a destroy: destroyed and released and its record closed, or
\* a failure that is kept for the end.
DestroyOne ==
    LET id == Head(call.left) IN
    /\ call.left # <<>> /\ id # <<>>
    /\ \/ \E rented \in deployerDestroys(id) :
            /\ account' = [account EXCEPT !.rented = releaseRental(id, rented),
                                          !.inst[id] = IF ownsInstance(id) THEN "TERMINATED" ELSE @]
            /\ call' = [call EXCEPT !.left = Tail(@)]
       \/ call' = [call EXCEPT !.left = Tail(@), !.failed = TRUE] /\ UNCHANGED account
    /\ UNCHANGED told

\* The destroy ends: TERMINATED only when no machine failed.
DestroyEnds ==
    /\ call.left = <<<<>>>>
    /\ told' = [told EXCEPT !.state = IF call.failed THEN "TERMINATING" ELSE "TERMINATED"]
    /\ call' = [call EXCEPT !.left = <<>>]
    /\ UNCHANGED account

mbNext ==
    \/ \E s \in Slots : \/ placeMember(s) \/ placeFails(s)
                        \/ \E loads \in BOOLEAN : replicaKey(s, loads)
                        \/ \E id \in Ids : runReplicaDeploy(s, id)
                        \/ launchMember(s)
    \/ recordCreateSlots \/ applyAggregateState
    \/ DestroyDeployment \/ DestroyOne \/ DestroyEnds

(***************************************************************************)
(* What must hold.                                                         *)
(***************************************************************************)

\* A member that failed holds all of its machines or none: three of four are
\* not an engine and bill like one.  A machine its provider would not take
\* back is the exception, and its record stays.
SpanAllOrNothing ==
    \A s \in Slots : call.slot[s] = "err" =>
        (account.rented \ account.unreturned) \cap ToSet(Machines(s)) \in {{}, ToSet(Machines(s))}

\* A deployment that reports RUNNING has every machine of every member up, and
\* each member is served by its own rank 0.
RunningIsWhole ==
    told.state = "RUNNING" =>
        \A s \in Slots : /\ told.endpoint[s] = Machines(s)[1]
                         /\ \A i \in ToSet(Machines(s)) : i \in account.rented /\ call.node[i] = "up"

\* A deployment that reports TERMINATED pays for no machine whose name says it
\* is its own, nor on any provider that rents the machine with the engine, but
\* for machines that could not be returned when their member failed.
TeardownComplete ==
    told.state = "TERMINATED" =>
        \A i \in account.rented \ account.unreturned : account.kind = "vm" /\ ~ownsInstance(i)
=============================================================================
