--------------------------- MODULE EngineRegistry ---------------------------
(***************************************************************************)
(* Fleet membership by lease: the registry of internal/engines with its    *)
(* sweeper, the agents of internal/engineagent that register and renew     *)
(* beside each engine, and DrainEngine.                                    *)
(*                                                                         *)
(* Time is counted in ticks.  Tick cannot pass a timer that has run out:    *)
(* agents and the sweeper act on the tick their timer fires.  What is not   *)
(* exact is the registration call, which takes up to CallTime ticks, may be *)
(* lost, and may take effect after the agent has given it up.              *)
(***************************************************************************)
EXTENDS Integers

CONSTANTS
    Engines,
    Deployments,
    DeploymentOf,     \* engine -> its deployment, or NoDeployment
    NoDeployment,
    Lease,            \* Registry.lease, in ticks
    RenewDivisor,
    DefaultInterval,  \* the agent's interval until it has an answer
    SweepInterval,
    CallTime,         \* the longest a registration call takes
    Faults            \* which of FaultKinds happen

\* "lost": a call fails on the way.  "late": a call the agent has given up
\* reaches the registry later.  "exit": an agent process ends.  "down": the
\* control plane stops.  "read", "store": reading or writing the state file
\* fails.  "drain": a drain is abandoned or fails.
FaultKinds == {"lost", "late", "exit", "down", "read", "store", "drain"}

\* The agent's interval: what registerOnce makes of the lease it is told.
Interval == Lease \div RenewDivisor

ASSUME RegistryAssumption ==
    /\ Lease \in Nat
    /\ RenewDivisor \in Nat \ {0}
    /\ Interval \in Nat \ {0}
    /\ DefaultInterval \in Nat \ {0}
    /\ SweepInterval \in Nat \ {0}
    /\ CallTime \in Nat
    /\ DeploymentOf \in [Engines -> Deployments \cup {NoDeployment}]
    /\ NoDeployment \notin Deployments
    /\ Faults \subseteq FaultKinds

\* Calls are quick against the lease: one lost call between two that land
\* still fits.  The agent's HTTP client has no time-out of its own, so this is
\* an assumption about the network.
ASSUME CallAssumption == 2 * Interval + 3 * CallTime <= Lease

VARIABLES
    store,    \* engine -> its record: state and ticks left on the lease
    agent,    \* engine -> its agent: pc, timer, interval and the state it reports
    stray,    \* engine -> reports of calls given up but still under way
    drain,    \* engine -> progress of DrainEngine
    released, \* deployments whose hardware has been released
    up,       \* the control plane runs
    sweepIn,  \* ticks to the sweeper's next tick
    missed,   \* history: renewals missed in a row, Unsure without an answer yet
    swept     \* history: the last sweep since the start went through

vars == <<store, agent, stray, drain, released, up, sweepIn, missed, swept>>

Reports == {"ASSEMBLING", "SERVING", "SERVING_DEGRADED"}

States == Reports \cup {"DRAINING", "LOST"}

\* More missed renewals than any property asks about.
Unsure == 3

\* The lease is not followed further below zero than this.
Overdue == -(SweepInterval + 1)

Init ==
    /\ store = [e \in Engines |-> [state |-> "NONE", left |-> Overdue]]
    /\ agent = [e \in Engines |-> [pc |-> "off", timer |-> 0,
                                  every |-> DefaultInterval, report |-> "ASSEMBLING"]]
    /\ stray = [e \in Engines |-> {}]
    /\ drain = [e \in Engines |-> "no"]
    /\ released = {}
    /\ up = TRUE
    /\ sweepIn = SweepInterval
    /\ missed = [e \in Engines |-> Unsure]
    /\ swept = FALSE

On(e) == agent[e].pc # "off"

-----------------------------------------------------------------------------
(* Time *)

Tick ==
    /\ \A e \in Engines : On(e) => agent[e].timer > 0
    /\ up => sweepIn > 0
    /\ store' = [e \in Engines |->
            [store[e] EXCEPT !.left = IF @ > Overdue THEN @ - 1 ELSE @]]
    /\ agent' = [e \in Engines |->
            [agent[e] EXCEPT !.timer = IF @ > 0 THEN @ - 1 ELSE @]]
    /\ sweepIn' = IF up THEN sweepIn - 1 ELSE sweepIn
    /\ UNCHANGED <<stray, drain, released, up, missed, swept>>

-----------------------------------------------------------------------------
(* The registry *)

\* Mutant: the reported state is taken as it is.
Register_Trusting(prior, report) == [state |-> report, left |-> Lease]

\* Mutant: a lost engine is not revived.
Register_NoRevival(prior, report) ==
    [state |-> IF prior.state \in {"DRAINING", "LOST"} THEN prior.state ELSE report,
     left  |-> Lease]

\* Register: the record a registration leaves, given the one before.
Register(prior, report) ==
    [state |-> IF prior.state = "DRAINING" THEN "DRAINING" ELSE report,
     left  |-> Lease]

\* lookupLocked: a read that fails passes for "no record".
Prior(e) ==
    {store[e]} \cup
    (IF "read" \in Faults THEN {[state |-> "NONE", left |-> Overdue]} ELSE {})

RegisterEngine(e, report) ==
    /\ up
    /\ \E prior \in Prior(e) : store' = [store EXCEPT ![e] = Register(prior, report)]

\* Mutant: a lease that has only just run out counts as expired.
IsOverdue_Eager(r) == r.state \notin {"NONE", "LOST"} /\ r.left <= 0

IsOverdue(r) == r.state \notin {"NONE", "LOST"} /\ r.left < 0

\* ExpireOverdue for the engines it gets to write.
Expired(S) ==
    [e \in Engines |-> IF e \in S /\ IsOverdue(store[e])
                       THEN [store[e] EXCEPT !.state = "LOST"]
                       ELSE store[e]]

\* Mutant: after a sweep that found nothing to do the next one is skipped.
Sweep_Lazy ==
    /\ up
    /\ sweepIn = 0
    /\ store' = Expired(Engines)
    /\ sweepIn' = IF store' = store THEN 2 * SweepInterval ELSE SweepInterval
    /\ swept' = TRUE
    /\ UNCHANGED <<agent, stray, drain, released, up, missed>>

Sweep ==
    /\ up
    /\ sweepIn = 0
    /\ store' = Expired(Engines)
    /\ sweepIn' = SweepInterval
    /\ swept' = TRUE
    /\ UNCHANGED <<agent, stray, drain, released, up, missed>>

\* A sweep that cannot read or write the store stops there; the next tick
\* tries again.
SweepFails ==
    /\ up
    /\ sweepIn = 0
    /\ "store" \in Faults
    /\ \E S \in SUBSET Engines : store' = Expired(S)
    /\ sweepIn' = SweepInterval
    /\ swept' = FALSE
    /\ UNCHANGED <<agent, stray, drain, released, up, missed>>

-----------------------------------------------------------------------------
(* The agent *)

\* registerOnce: a fresh snapshot is sent.
Calling(every, report) ==
    [pc |-> "call", timer |-> CallTime, every |-> every, report |-> report]

\* Run: wait for the next turn, after a failure as after a success.
Waiting(a) == [a EXCEPT !.pc = "wait", !.timer = a.every]

\* The agent process starts, again perhaps, and registers at once.
AgentStart(e) ==
    /\ ~On(e)
    /\ DeploymentOf[e] \notin released
    /\ \E report \in Reports :
            agent' = [agent EXCEPT ![e] = Calling(DefaultInterval, report)]
    /\ missed' = [missed EXCEPT ![e] = Unsure]
    /\ UNCHANGED <<store, stray, drain, released, up, sweepIn, swept>>

\* Its interval is over: registerOnce takes a snapshot and calls.
AgentRenew(e) ==
    /\ agent[e].pc = "wait"
    /\ agent[e].timer = 0
    /\ \E report \in Reports : agent' = [agent EXCEPT ![e] = Calling(@.every, report)]
    /\ UNCHANGED <<store, stray, drain, released, up, sweepIn, missed, swept>>

\* The call takes effect in the registry.
Land(e) ==
    /\ agent[e].pc = "call"
    /\ RegisterEngine(e, agent[e].report)
    /\ agent' = [agent EXCEPT ![e].pc = "answer"]
    /\ UNCHANGED <<stray, drain, released, up, sweepIn, missed, swept>>

\* The agent has the answer, takes over the cadence it implies and waits.
Answer(e) ==
    /\ agent[e].pc = "answer"
    /\ agent' = [agent EXCEPT ![e] = Waiting([@ EXCEPT !.every = Interval])]
    /\ missed' = [missed EXCEPT ![e] = 0]
    /\ UNCHANGED <<store, stray, drain, released, up, sweepIn, swept>>

\* One more renewal missed.
Miss(e) == missed' = [missed EXCEPT ![e] = IF @ < Unsure THEN @ + 1 ELSE @]

\* The call fails: lost, refused because nobody listens, failed in the store,
\* or its answer is lost.  The agent waits all the same.
CallFails(e) ==
    /\ agent[e].pc \in {"call", "answer"}
    /\ "lost" \in Faults \/ ~up \/ (agent[e].pc = "call" /\ "store" \in Faults)
    /\ agent' = [agent EXCEPT ![e] = Waiting(agent[e])]
    /\ Miss(e)
    /\ UNCHANGED <<store, stray, drain, released, up, sweepIn, swept>>

\* The agent gives the call up while the request is still on its way.
CallStrays(e) ==
    /\ agent[e].pc = "call"
    /\ "late" \in Faults
    /\ stray[e] = {}
    /\ agent' = [agent EXCEPT ![e] = Waiting(agent[e])]
    /\ stray' = [stray EXCEPT ![e] = {agent[e].report}]
    /\ Miss(e)
    /\ UNCHANGED <<store, drain, released, up, sweepIn, swept>>

\* Such a request arrives after all, or never.
StrayEnds(e) ==
    /\ \E report \in stray[e] : RegisterEngine(e, report) \/ UNCHANGED store
    /\ stray' = [stray EXCEPT ![e] = {}]
    /\ UNCHANGED <<agent, drain, released, up, sweepIn, missed, swept>>

\* The agent ends; a call it has under way goes on without it or not.
AgentExit(e) ==
    /\ On(e)
    /\ "exit" \in Faults
    /\ agent' = [agent EXCEPT ![e].pc = "off", ![e].timer = 0]
    /\ stray' = [stray EXCEPT ![e] =
            IF agent[e].pc = "call" /\ "late" \in Faults THEN {agent[e].report} ELSE @]
    /\ UNCHANGED <<store, drain, released, up, sweepIn, missed, swept>>

-----------------------------------------------------------------------------
(* DrainEngine *)

\* Get, the deployment check and SetState(DRAINING).
DrainMark(e) ==
    /\ up
    /\ drain[e] # "marked"
    /\ store[e].state # "NONE"
    /\ DeploymentOf[e] # NoDeployment
    /\ store' = [store EXCEPT ![e].state = "DRAINING"]
    /\ drain' = [drain EXCEPT ![e] = "marked"]
    /\ UNCHANGED <<agent, stray, released, up, sweepIn, missed, swept>>

\* DrainAndDestroyDeployment: the hardware goes, and with it the agents of
\* every member of the deployment.  The record is left DRAINING.
DrainDone(e) ==
    /\ up
    /\ drain[e] = "marked"
    /\ released' = released \cup {DeploymentOf[e]}
    /\ drain' = [drain EXCEPT ![e] = "done"]
    /\ agent' = [f \in Engines |->
            IF DeploymentOf[f] = DeploymentOf[e]
            THEN [agent[f] EXCEPT !.pc = "off", !.timer = 0] ELSE agent[f]]
    /\ UNCHANGED <<store, stray, up, sweepIn, missed, swept>>

\* The drain fails or its caller goes away; the record is left as it is.
DrainFails(e) ==
    /\ drain[e] = "marked"
    /\ "drain" \in Faults
    /\ drain' = [drain EXCEPT ![e] = "failed"]
    /\ UNCHANGED <<store, agent, stray, released, up, sweepIn, missed, swept>>

-----------------------------------------------------------------------------
(* The control plane *)

\* It stops; the drains it was running end with it.
Down ==
    /\ up
    /\ "down" \in Faults
    /\ up' = FALSE
    /\ drain' = [e \in Engines |-> IF drain[e] = "marked" THEN "failed" ELSE drain[e]]
    /\ swept' = FALSE
    /\ UNCHANGED <<store, agent, stray, released, sweepIn, missed>>

\* It starts on the state file it left; the sweeper's ticker starts afresh.
Restart ==
    /\ ~up
    /\ up' = TRUE
    /\ sweepIn' = SweepInterval
    /\ UNCHANGED <<store, agent, stray, drain, released, missed, swept>>

AgentStep(e) ==
    \/ AgentRenew(e)
    \/ Land(e)
    \/ Answer(e)
    \/ CallFails(e)
    \/ CallStrays(e)

EngineStep(e) ==
    \/ AgentStart(e)
    \/ AgentStep(e)
    \/ StrayEnds(e)
    \/ AgentExit(e)
    \/ DrainMark(e)
    \/ DrainDone(e)
    \/ DrainFails(e)

Next ==
    \/ Tick
    \/ Sweep
    \/ SweepFails
    \/ Down
    \/ Restart
    \/ \E e \in Engines : EngineStep(e)

Spec == Init /\ [][Next]_vars

\* Time passes, agents and the sweeper run, calls that are made again and again
\* land in the end, and so does a sweep; a control plane that stopped is
\* started again.
FairSpec ==
    /\ Spec
    /\ SF_vars(Tick)
    /\ SF_vars(Sweep)
    /\ WF_vars(Restart)
    /\ \A e \in Engines : WF_vars(AgentStep(e)) /\ SF_vars(Land(e)) /\ WF_vars(StrayEnds(e))

-----------------------------------------------------------------------------
(* Properties *)

\* Type correctness.
TypeOK ==
    /\ store \in [Engines -> [state : States \cup {"NONE"}, left : Overdue .. Lease]]
    /\ agent \in [Engines -> [pc     : {"off", "wait", "call", "answer"},
                              timer  : 0 .. (Interval + DefaultInterval + CallTime),
                              every  : {Interval, DefaultInterval},
                              report : Reports]]
    /\ stray \in [Engines -> SUBSET Reports]
    /\ drain \in [Engines -> {"no", "marked", "done", "failed"}]
    /\ \A e \in Engines : DeploymentOf[e] = NoDeployment => drain[e] = "no"
    /\ released \in SUBSET Deployments
    /\ up \in BOOLEAN
    /\ sweepIn \in 0 .. SweepInterval
    /\ missed \in [Engines -> 0 .. Unsure]
    /\ swept \in BOOLEAN

\* A running engine that misses at most one renewal in a row is never taken
\* for lost, however the sweeper's ticks fall against its own: a single
\* dropped request does not evict a healthy engine.
HealthyKept ==
    \A e \in Engines : On(e) /\ missed[e] <= 1 => store[e].state # "LOST"

\* No ghosts: while the control plane is up and sweeping, a member shown as
\* live was heard of within one lease and one sweep interval.
NoGhost ==
    up /\ swept =>
        \A e \in Engines :
            store[e].state \in Reports => store[e].left >= -SweepInterval

\* The lease tells the living from the dead both ways: a running engine that
\* misses one renewal is kept, a silent one is not shown beyond a lease and a
\* sweep.
LeaseSafe == HealthyKept /\ NoGhost

\* A renewal does not un-drain: an engine that is draining and keeps its lease
\* stays DRAINING through its own SERVING reports, late ones included.
DrainKept ==
    [][\A e \in Engines :
        store[e].state = "DRAINING" /\ On(e) /\ missed[e] <= 1
            => store'[e].state = "DRAINING"]_vars

\* A dead engine is lost: once an agent is gone for good its member is
\* declared LOST, a drained one included.
DeadIsLost ==
    \A e \in Engines :
        <>[](up /\ ~On(e) /\ stray[e] = {} /\ drain[e] # "marked")
            => <>[](store[e].state \in {"NONE", "LOST"})

\* The view refills: while the control plane and an agent stay up, the engine
\* keeps coming back as a member, after any outage.
ViewRefills ==
    \A e \in Engines : <>[](up /\ On(e)) => []<>(store[e].state \notin {"NONE", "LOST"})

\* The router's view converges to the engines that run: dead ones leave it and
\* running ones come back, after any outage.
ViewConverges == DeadIsLost /\ ViewRefills

=============================================================================
