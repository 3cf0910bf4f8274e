------------------------ MODULE EngineRegistryProofs ------------------------
(***************************************************************************)
(* Proofs about EngineRegistry: type correctness, the lease a running      *)
(* engine keeps, the sweeper's promise and the drain that renewals keep.    *)
(***************************************************************************)
EXTENDS EngineRegistry, TLAPS

(***************************************************************************)
(* The lease a running agent has left at each point of its round.  A       *)
(* registration that landed up to CallTime before its answer, then one      *)
(* interval of waiting, then a call of up to CallTime, and the same once    *)
(* more for a missed renewal.                                              *)
(***************************************************************************)
Behind(e) == IF missed[e] = 0 THEN 0 ELSE Interval + CallTime

LeaseLeft(e) ==
    /\ agent[e].pc \in {"call", "answer"} => agent[e].timer <= CallTime
    /\ agent[e].pc = "answer" =>
         /\ store[e].left >= Lease - (CallTime - agent[e].timer)
         /\ store[e].state \notin {"NONE", "LOST"}
    /\ On(e) /\ missed[e] <= 1 =>
         /\ agent[e].every = Interval
         /\ store[e].state \notin {"NONE", "LOST"}
         /\ agent[e].pc = "wait" =>
              /\ agent[e].timer <= Interval
              /\ store[e].left >= Lease - CallTime - Behind(e) - (Interval - agent[e].timer)
         /\ agent[e].pc = "call" =>
              store[e].left >=
                   Lease - CallTime - Behind(e) - Interval - (CallTime - agent[e].timer)

LeaseInv == \A e \in Engines : LeaseLeft(e)

(***************************************************************************)
(* How far behind its lease a live member can be between two sweeps.       *)
(***************************************************************************)
SweepInv ==
    /\ ~up => ~swept
    /\ swept => \A e \in Engines :
          store[e].state \in Reports => store[e].left >= sweepIn - SweepInterval

-----------------------------------------------------------------------------
(* Type correctness *)

Records == [state : States \cup {"NONE"}, left : Overdue .. Lease]

Agents == [pc     : {"off", "wait", "call", "answer"},
           timer  : 0 .. (Interval + DefaultInterval + CallTime),
           every  : {Interval, DefaultInterval},
           report : Reports]

\* A record after one tick, and after its lease has expired.
LEMMA RecordSteps ==
    ASSUME NEW r \in Records
    PROVE  /\ [r EXCEPT !.left = IF @ > Overdue THEN @ - 1 ELSE @] \in Records
           /\ [r EXCEPT !.state = "LOST"] \in Records
           /\ [r EXCEPT !.state = "DRAINING"] \in Records
  BY RegistryAssumption DEF Records, States, Overdue

\* What Register leaves is a record.
LEMMA RegisterTyped ==
    ASSUME NEW prior, NEW report \in Reports
    PROVE  Register(prior, report) \in Records
  BY RegistryAssumption DEF Register, Records, States, Overdue

\* An agent after one tick, after it ended and as it waits.
LEMMA AgentSteps ==
    ASSUME NEW a \in Agents
    PROVE  /\ [a EXCEPT !.timer = IF @ > 0 THEN @ - 1 ELSE @] \in Agents
           /\ [a EXCEPT !.pc = "off", !.timer = 0] \in Agents
           /\ [a EXCEPT !.pc = "answer"] \in Agents
           /\ [a EXCEPT !.every = Interval] \in Agents
           /\ Waiting(a) \in Agents
<1>1. [a EXCEPT !.timer = IF @ > 0 THEN @ - 1 ELSE @] \in Agents
  BY RegistryAssumption DEF Agents
<1>0. 0 \in 0 .. (Interval + DefaultInterval + CallTime)
  BY RegistryAssumption
<1>2. [a EXCEPT !.pc = "off", !.timer = 0] \in Agents
  BY <1>0 DEF Agents
<1>3. /\ [a EXCEPT !.pc = "answer"] \in Agents
      /\ [a EXCEPT !.every = Interval] \in Agents
  BY RegistryAssumption DEF Agents
<1>4. /\ a.every \in {Interval, DefaultInterval}
      /\ a.every \in 0 .. (Interval + DefaultInterval + CallTime)
  BY RegistryAssumption DEF Agents
<1>5. Waiting(a) \in Agents
  BY <1>4 DEF Waiting, Agents
<1> QED
  BY <1>1, <1>2, <1>3, <1>5

\* An agent that calls.
LEMMA CallingTyped ==
    ASSUME NEW every \in {Interval, DefaultInterval}, NEW report \in Reports
    PROVE  Calling(every, report) \in Agents
  BY RegistryAssumption DEF Calling, Agents

\* The initial state is well typed.
LEMMA InitTyped == Init => TypeOK
<1> SUFFICES ASSUME Init PROVE TypeOK
  OBVIOUS
<1>1. [state |-> "NONE", left |-> Overdue] \in Records
  BY RegistryAssumption DEF Records, Overdue
<1>2. [pc |-> "off", timer |-> 0, every |-> DefaultInterval, report |-> "ASSEMBLING"] \in Agents
  BY RegistryAssumption DEF Agents, Reports
<1>3. store \in [Engines -> Records]
  BY <1>1 DEF Init
<1>4. agent \in [Engines -> Agents]
  BY <1>2 DEF Init
<1>5. sweepIn \in 0 .. SweepInterval
  BY RegistryAssumption DEF Init
<1>6. missed \in [Engines -> 0 .. Unsure]
  BY DEF Init, Unsure
<1>7. /\ stray \in [Engines -> SUBSET Reports]
      /\ drain \in [Engines -> {"no", "marked", "done", "failed"}]
      /\ \A e \in Engines : DeploymentOf[e] = NoDeployment => drain[e] = "no"
  BY DEF Init
<1> QED
  BY <1>3, <1>4, <1>5, <1>6, <1>7 DEF Init, TypeOK, Records, Agents

\* Every step keeps the variables well typed.
LEMMA NextTyped == TypeOK /\ [Next]_vars => TypeOK'
<1> SUFFICES ASSUME TypeOK, [Next]_vars
             PROVE  TypeOK'
  OBVIOUS
<1>0. /\ store \in [Engines -> Records]
      /\ agent \in [Engines -> Agents]
  BY DEF TypeOK, Records, Agents
<1>a. ASSUME store' \in [Engines -> Records], agent' \in [Engines -> Agents],
             UNCHANGED <<stray, drain, released, up, missed>>,
             sweepIn' \in 0 .. SweepInterval, swept' \in BOOLEAN
      PROVE  TypeOK'
  BY <1>a DEF TypeOK, Records, Agents
<1>1. CASE Tick
  <2>1. store' \in [Engines -> Records]
    BY <1>0, <1>1, RecordSteps DEF Tick
  <2>2. agent' \in [Engines -> Agents]
    BY <1>0, <1>1, AgentSteps DEF Tick
  <2>3. sweepIn' \in 0 .. SweepInterval
    BY <1>1, RegistryAssumption DEF Tick, TypeOK
  <2> QED
    BY <1>1, <1>a, <2>1, <2>2, <2>3 DEF Tick, TypeOK
<1>b. ASSUME NEW S \in SUBSET Engines
      PROVE  Expired(S) \in [Engines -> Records]
  BY <1>0, RecordSteps DEF Expired
<1>2. CASE Sweep
  <2>1. store' \in [Engines -> Records]
    BY <1>2, <1>b DEF Sweep
  <2>2. sweepIn' \in 0 .. SweepInterval
    BY <1>2, RegistryAssumption DEF Sweep
  <2> QED
    BY <1>0, <1>2, <1>a, <2>1, <2>2 DEF Sweep
<1>3. CASE SweepFails
  <2>1. store' \in [Engines -> Records]
    BY <1>3, <1>b DEF SweepFails
  <2>2. sweepIn' \in 0 .. SweepInterval
    BY <1>3, RegistryAssumption DEF SweepFails
  <2> QED
    BY <1>0, <1>3, <1>a, <2>1, <2>2 DEF SweepFails
<1>4. CASE Down
  BY <1>4 DEF Down, TypeOK
<1>5. CASE Restart
  BY <1>5, RegistryAssumption DEF Restart, TypeOK
<1>c. ASSUME agent' \in [Engines -> Agents], store' \in [Engines -> Records],
             stray' \in [Engines -> SUBSET Reports],
             missed' \in [Engines -> 0 .. Unsure],
             UNCHANGED <<drain, released, up, sweepIn, swept>>
      PROVE  TypeOK'
  BY <1>c DEF TypeOK, Records, Agents
<1>d. /\ stray \in [Engines -> SUBSET Reports]
      /\ missed \in [Engines -> 0 .. Unsure]
  BY DEF TypeOK
<1>m. ASSUME NEW e \in Engines, Miss(e)
      PROVE  missed' \in [Engines -> 0 .. Unsure]
  BY <1>d, <1>m DEF Miss, Unsure
<1>6. ASSUME NEW e \in Engines, AgentStart(e)
      PROVE  TypeOK'
  <2>1. agent' \in [Engines -> Agents]
    BY <1>0, <1>6, CallingTyped DEF AgentStart
  <2>2. missed' \in [Engines -> 0 .. Unsure]
    BY <1>d, <1>6 DEF AgentStart, Unsure
  <2> QED
    BY <1>0, <1>6, <1>c, <1>d, <2>1, <2>2 DEF AgentStart
<1>7. ASSUME NEW e \in Engines, AgentRenew(e)
      PROVE  TypeOK'
  <2>1. agent[e].every \in {Interval, DefaultInterval}
    BY <1>0 DEF Agents
  <2>2. agent' \in [Engines -> Agents]
    BY <1>0, <1>7, <2>1, CallingTyped DEF AgentRenew
  <2> QED
    BY <1>0, <1>7, <1>c, <1>d, <2>2 DEF AgentRenew
<1>r. ASSUME NEW e \in Engines, NEW report \in Reports, RegisterEngine(e, report)
      PROVE  store' \in [Engines -> Records]
  BY <1>0, <1>r, RegisterTyped DEF RegisterEngine
<1>8. ASSUME NEW e \in Engines, Land(e)
      PROVE  TypeOK'
  <2>1. agent[e].report \in Reports
    BY <1>0 DEF Agents
  <2>2. store' \in [Engines -> Records]
    BY <1>8, <1>r, <2>1 DEF Land
  <2>3. agent' = [agent EXCEPT ![e] = [agent[e] EXCEPT !.pc = "answer"]]
    BY <1>8 DEF Land
  <2>4. agent' \in [Engines -> Agents]
    BY <1>0, <2>3, AgentSteps
  <2> QED
    BY <1>8, <1>c, <1>d, <2>2, <2>4 DEF Land
<1>9. ASSUME NEW e \in Engines, Answer(e)
      PROVE  TypeOK'
  <2>1. agent' = [agent EXCEPT ![e] = Waiting([agent[e] EXCEPT !.every = Interval])]
    BY <1>9 DEF Answer
  <2>2. Waiting([agent[e] EXCEPT !.every = Interval]) \in Agents
    BY <1>0, AgentSteps
  <2>3. agent' \in [Engines -> Agents]
    BY <1>0, <2>1, <2>2
  <2>4. missed' \in [Engines -> 0 .. Unsure]
    BY <1>d, <1>9 DEF Answer, Unsure
  <2> QED
    BY <1>0, <1>9, <1>c, <1>d, <2>3, <2>4 DEF Answer
<1>10. ASSUME NEW e \in Engines, CallFails(e)
       PROVE  TypeOK'
  <2>1. agent' \in [Engines -> Agents]
    BY <1>0, <1>10, AgentSteps DEF CallFails
  <2> QED
    BY <1>0, <1>10, <1>c, <1>d, <1>m, <2>1 DEF CallFails
<1>11. ASSUME NEW e \in Engines, CallStrays(e)
       PROVE  TypeOK'
  <2>1. agent' \in [Engines -> Agents]
    BY <1>0, <1>11, AgentSteps DEF CallStrays
  <2>2. agent[e].report \in Reports
    BY <1>0 DEF Agents
  <2>3. stray' \in [Engines -> SUBSET Reports]
    BY <1>d, <1>11, <2>2 DEF CallStrays
  <2> QED
    BY <1>0, <1>11, <1>c, <1>d, <1>m, <2>1, <2>3 DEF CallStrays
<1>12. ASSUME NEW e \in Engines, StrayEnds(e)
       PROVE  TypeOK'
  <2>1. PICK report \in stray[e] : RegisterEngine(e, report) \/ UNCHANGED store
    BY <1>12 DEF StrayEnds
  <2>2. report \in Reports
    BY <1>d, <2>1
  <2>3. store' \in [Engines -> Records]
    BY <1>0, <1>r, <2>1, <2>2
  <2>4. stray' \in [Engines -> SUBSET Reports]
    BY <1>d, <1>12 DEF StrayEnds
  <2> QED
    BY <1>0, <1>12, <1>c, <1>d, <2>3, <2>4 DEF StrayEnds
<1>13. ASSUME NEW e \in Engines, AgentExit(e)
       PROVE  TypeOK'
  <2>1. agent' = [agent EXCEPT ![e] = [agent[e] EXCEPT !.pc = "off", !.timer = 0]]
    BY <1>0, <1>13 DEF AgentExit, Agents
  <2>2. agent' \in [Engines -> Agents]
    BY <1>0, <2>1, AgentSteps
  <2>3. agent[e].report \in Reports
    BY <1>0 DEF Agents
  <2>4. stray' \in [Engines -> SUBSET Reports]
    BY <1>d, <1>13, <2>3 DEF AgentExit
  <2> QED
    BY <1>0, <1>13, <1>c, <1>d, <2>2, <2>4 DEF AgentExit
<1>14. ASSUME NEW e \in Engines, DrainMark(e)
       PROVE  TypeOK'
  <2>1. store' = [store EXCEPT ![e] = [store[e] EXCEPT !.state = "DRAINING"]]
    BY <1>0, <1>14 DEF DrainMark, Records
  <2>2. store' \in [Engines -> Records]
    BY <1>0, <2>1, RecordSteps
  <2> QED
    BY <1>14, <2>2 DEF DrainMark, TypeOK, Records
<1>15. ASSUME NEW e \in Engines, DrainDone(e)
       PROVE  TypeOK'
  <2>1. agent' \in [Engines -> Agents]
    BY <1>0, <1>15, AgentSteps DEF DrainDone
  <2>2. released' \in SUBSET Deployments
    <3>1. DeploymentOf[e] \in Deployments
      BY <1>15, RegistryAssumption DEF DrainDone, TypeOK
    <3> QED
      BY <1>15, <3>1 DEF DrainDone, TypeOK
  <2> QED
    BY <1>15, <2>1, <2>2 DEF DrainDone, TypeOK, Agents
<1>16. ASSUME NEW e \in Engines, DrainFails(e)
       PROVE  TypeOK'
  BY <1>16 DEF DrainFails, TypeOK
<1>17. CASE UNCHANGED vars
  BY <1>17 DEF vars, TypeOK
<1> QED
  BY <1>1, <1>2, <1>3, <1>4, <1>5, <1>6, <1>7, <1>8, <1>9, <1>10, <1>11, <1>12,
     <1>13, <1>14, <1>15, <1>16, <1>17 DEF Next, EngineStep, AgentStep

\* Type correctness of the registry, its agents and the drains, for any fleet
\* and any timing.
THEOREM TypeCorrect == Spec => []TypeOK
<1>1. Init => TypeOK
  BY InitTyped
<1>2. TypeOK /\ [Next]_vars => TypeOK'
  BY NextTyped
<1> QED
  BY <1>1, <1>2, PTL DEF Spec

-----------------------------------------------------------------------------
(* The lease a running engine keeps *)

\* Every step keeps the lease left to a running agent above the bound.
LEMMA NextLease == TypeOK /\ LeaseInv /\ [Next]_vars => LeaseInv'
<1> SUFFICES ASSUME TypeOK, LeaseInv, [Next]_vars, NEW f \in Engines
             PROVE  LeaseLeft(f)'
  BY DEF LeaseInv
<1>0. /\ store \in [Engines -> Records]
      /\ agent \in [Engines -> Agents]
      /\ missed \in [Engines -> 0 .. Unsure]
  BY DEF TypeOK, Records, Agents
<1>l. LeaseLeft(f)
  BY DEF LeaseInv
<1>t. /\ agent[f].timer \in Nat
      /\ store[f].left \in Int
      /\ missed[f] \in 0 .. 3
      /\ Lease \in Nat /\ Interval \in Nat /\ CallTime \in Nat /\ SweepInterval \in Nat
  <2>1. agent[f] \in Agents /\ store[f] \in Records
    BY <1>0
  <2> QED
    BY <1>0, <2>1, RegistryAssumption DEF Agents, Records, Overdue, Unsure
<1>u. ASSUME store'[f] = store[f], agent'[f] = agent[f], missed'[f] = missed[f]
      PROVE  LeaseLeft(f)'
  BY <1>u, <1>l DEF LeaseLeft, Behind, On
<1>1. CASE Tick
  <2>1. /\ store'[f] = [store[f] EXCEPT !.left =
                 IF store[f].left > Overdue THEN store[f].left - 1 ELSE store[f].left]
        /\ agent'[f] = [agent[f] EXCEPT !.timer =
                 IF agent[f].timer > 0 THEN agent[f].timer - 1 ELSE agent[f].timer]
        /\ missed'[f] = missed[f]
        /\ On(f) => agent[f].timer > 0
    BY <1>1 DEF Tick
  <2>2. /\ store'[f].state = store[f].state
        /\ store'[f].left >= store[f].left - 1
        /\ store'[f].left \in Int
    BY <1>0, <1>t, <2>1 DEF Records, Overdue
  <2>3. /\ agent'[f].pc = agent[f].pc
        /\ agent'[f].every = agent[f].every
        /\ On(f) => agent'[f].timer = agent[f].timer - 1
    BY <1>0, <1>t, <2>1 DEF Agents
  <2> QED
    BY <1>l, <1>t, <2>1, <2>2, <2>3 DEF LeaseLeft, Behind, On
<1>e. ASSUME NEW S \in SUBSET Engines, store' = Expired(S),
             UNCHANGED <<agent, missed>>
      PROVE  LeaseLeft(f)'
  <2>1. CASE store'[f] = store[f]
    BY <1>e, <1>u, <2>1
  <2>2. CASE store'[f] # store[f]
    <3>1. store[f].left < 0 /\ store'[f].left = store[f].left
      BY <1>0, <1>e, <2>2 DEF Expired, IsOverdue, Records
    <3>2. ~(On(f) /\ missed[f] <= 1) /\ agent[f].pc # "answer"
      BY <1>0, <1>l, <1>t, <3>1, CallAssumption DEF LeaseLeft, Behind, On, Agents
    <3> QED
      BY <1>e, <1>l, <3>2 DEF LeaseLeft, On
  <2> QED
    BY <2>1, <2>2
<1>2. CASE Sweep
  BY <1>2, <1>e DEF Sweep
<1>3. CASE SweepFails
  BY <1>3, <1>e DEF SweepFails
<1>4. CASE Down
  BY <1>4, <1>u DEF Down
<1>5. CASE Restart
  BY <1>5, <1>u DEF Restart
<1>6. ASSUME NEW e \in Engines, AgentStart(e)
      PROVE  LeaseLeft(f)'
  <2>1. CASE e # f
    BY <1>0, <1>6, <1>u, <2>1 DEF AgentStart
  <2>2. CASE e = f
    <3>1. agent'[f].pc = "call" /\ agent'[f].timer = CallTime /\ missed'[f] = 3
      BY <1>0, <1>6, <2>2 DEF AgentStart, Calling, Unsure
    <3> QED
      BY <1>t, <3>1 DEF LeaseLeft
  <2> QED
    BY <2>1, <2>2
<1>7. ASSUME NEW e \in Engines, AgentRenew(e)
      PROVE  LeaseLeft(f)'
  <2>1. CASE e # f
    BY <1>0, <1>7, <1>u, <2>1 DEF AgentRenew
  <2>2. CASE e = f
    <3>1. /\ agent'[f].pc = "call"
          /\ agent'[f].timer = CallTime
          /\ agent'[f].every = agent[f].every
          /\ agent[f].pc = "wait" /\ agent[f].timer = 0
          /\ store'[f] = store[f] /\ missed'[f] = missed[f]
      BY <1>0, <1>7, <2>2 DEF AgentRenew, Calling
    <3> QED
      BY <1>l, <1>t, <3>1 DEF LeaseLeft, Behind, On
  <2> QED
    BY <2>1, <2>2
<1>r. ASSUME NEW e \in Engines, NEW report \in Reports, RegisterEngine(e, report)
      PROVE  /\ e # f => store'[f] = store[f]
             /\ e = f => /\ store'[f].left = Lease
                         /\ store'[f].state \notin {"NONE", "LOST"}
  <2>1. PICK prior \in Prior(e) : store' = [store EXCEPT ![e] = Register(prior, report)]
    BY <1>r DEF RegisterEngine
  <2> QED
    BY <1>0, <2>1 DEF Register, Reports
<1>8. ASSUME NEW e \in Engines, Land(e)
      PROVE  LeaseLeft(f)'
  <2>0. agent[e].report \in Reports
    BY <1>0 DEF Agents
  <2>1. CASE e # f
    BY <1>0, <1>8, <1>r, <1>u, <2>0, <2>1 DEF Land
  <2>2. CASE e = f
    <3>1. /\ agent'[f].pc = "answer"
          /\ agent'[f].timer = agent[f].timer
          /\ agent'[f].every = agent[f].every
          /\ agent[f].pc = "call"
          /\ missed'[f] = missed[f]
      BY <1>0, <1>8, <2>2 DEF Land, Agents
    <3>2. store'[f].left = Lease /\ store'[f].state \notin {"NONE", "LOST"}
      BY <1>8, <1>r, <2>0, <2>2 DEF Land
    <3>3. agent[f].timer <= CallTime
      BY <1>l, <3>1 DEF LeaseLeft
    <3> QED
      BY <1>l, <1>t, <3>1, <3>2, <3>3 DEF LeaseLeft, Behind, On
  <2> QED
    BY <2>1, <2>2
<1>9. ASSUME NEW e \in Engines, Answer(e)
      PROVE  LeaseLeft(f)'
  <2>1. CASE e # f
    BY <1>0, <1>9, <1>u, <2>1 DEF Answer
  <2>2. CASE e = f
    <3>1. /\ agent'[f].pc = "wait"
          /\ agent'[f].timer = Interval
          /\ agent'[f].every = Interval
          /\ agent[f].pc = "answer"
          /\ missed'[f] = 0
          /\ store'[f] = store[f]
      BY <1>0, <1>9, <2>2 DEF Answer, Waiting, Agents
    <3> QED
      BY <1>l, <1>t, <3>1 DEF LeaseLeft, Behind, On
  <2> QED
    BY <2>1, <2>2
<1>g. ASSUME NEW e \in Engines, agent[e].pc \in {"call", "answer"}, Miss(e),
             agent' = [agent EXCEPT ![e] = Waiting(agent[e])], UNCHANGED store
      PROVE  LeaseLeft(f)'
  <2>1. CASE e # f
    BY <1>0, <1>g, <1>u, <2>1 DEF Miss
  <2>2. CASE e = f
    <3>1. /\ agent'[f].pc = "wait"
          /\ agent'[f].timer = agent[f].every
          /\ agent'[f].every = agent[f].every
          /\ agent[f].pc \in {"call", "answer"}
          /\ store'[f] = store[f]
      BY <1>0, <1>g, <2>2 DEF Waiting, Agents
    <3>2. missed'[f] = IF missed[f] < 3 THEN missed[f] + 1 ELSE missed[f]
      BY <1>0, <1>g, <2>2 DEF Miss, Unsure
    <3> QED
      BY <1>l, <1>t, <3>1, <3>2 DEF LeaseLeft, Behind, On
  <2> QED
    BY <2>1, <2>2
<1>10. ASSUME NEW e \in Engines, CallFails(e)
       PROVE  LeaseLeft(f)'
  BY <1>10, <1>g DEF CallFails
<1>11. ASSUME NEW e \in Engines, CallStrays(e)
       PROVE  LeaseLeft(f)'
  BY <1>11, <1>g DEF CallStrays
<1>12. ASSUME NEW e \in Engines, StrayEnds(e)
       PROVE  LeaseLeft(f)'
  <2>1. PICK report \in stray[e] : RegisterEngine(e, report) \/ UNCHANGED store
    BY <1>12 DEF StrayEnds
  <2>2. report \in Reports
    BY <2>1 DEF TypeOK
  <2>3. CASE store'[f] = store[f]
    BY <1>12, <1>u, <2>3 DEF StrayEnds
  <2>4. CASE store'[f].left = Lease /\ store'[f].state \notin {"NONE", "LOST"}
    <3>1. agent'[f] = agent[f] /\ missed'[f] = missed[f]
      BY <1>12 DEF StrayEnds
    <3> QED
      BY <1>0, <1>l, <1>t, <2>4, <3>1 DEF LeaseLeft, Behind, On
  <2> QED
    BY <1>r, <2>1, <2>2, <2>3, <2>4
<1>13. ASSUME NEW e \in Engines, AgentExit(e)
       PROVE  LeaseLeft(f)'
  <2>1. CASE e # f
    BY <1>0, <1>13, <1>u, <2>1 DEF AgentExit
  <2>2. CASE e = f
    <3>1. agent'[f].pc = "off"
      BY <1>0, <1>13, <2>2 DEF AgentExit, Agents
    <3> QED
      BY <3>1 DEF LeaseLeft, On
  <2> QED
    BY <2>1, <2>2
<1>14. ASSUME NEW e \in Engines, DrainMark(e)
       PROVE  LeaseLeft(f)'
  <2>1. CASE e # f
    BY <1>0, <1>14, <1>u, <2>1 DEF DrainMark
  <2>2. CASE e = f
    <3>1. /\ store'[f].state = "DRAINING" /\ store'[f].left = store[f].left
          /\ agent'[f] = agent[f] /\ missed'[f] = missed[f]
      BY <1>0, <1>14, <2>2 DEF DrainMark, Records
    <3> QED
      BY <1>l, <3>1 DEF LeaseLeft, Behind, On
  <2> QED
    BY <2>1, <2>2
<1>15. ASSUME NEW e \in Engines, DrainDone(e)
       PROVE  LeaseLeft(f)'
  <2>1. CASE agent'[f] = agent[f]
    BY <1>15, <1>u, <2>1 DEF DrainDone
  <2>2. CASE agent'[f] # agent[f]
    <3>1. agent'[f].pc = "off"
      BY <1>0, <1>15, <2>2 DEF DrainDone, Agents
    <3> QED
      BY <3>1 DEF LeaseLeft, On
  <2> QED
    BY <2>1, <2>2
<1>16. ASSUME NEW e \in Engines, DrainFails(e)
       PROVE  LeaseLeft(f)'
  BY <1>16, <1>u DEF DrainFails
<1>17. CASE UNCHANGED vars
  BY <1>17, <1>u DEF vars
<1> QED
  BY <1>1, <1>2, <1>3, <1>4, <1>5, <1>6, <1>7, <1>8, <1>9, <1>10, <1>11, <1>12,
     <1>13, <1>14, <1>15, <1>16, <1>17 DEF Next, EngineStep, AgentStep

\* No agent runs in the initial state.
LEMMA InitLease == Init => LeaseInv
<1> SUFFICES ASSUME Init, NEW e \in Engines
             PROVE  LeaseLeft(e)
  BY DEF LeaseInv
<1>1. agent[e].pc = "off"
  BY DEF Init
<1> QED
  BY <1>1 DEF LeaseLeft, On

\* The lease bound is an invariant.
THEOREM LeaseKept == Spec => [](TypeOK /\ LeaseInv)
<1>1. Init => TypeOK /\ LeaseInv
  BY InitTyped, InitLease
<1>2. TypeOK /\ LeaseInv /\ [Next]_vars => (TypeOK /\ LeaseInv)'
  BY NextTyped, NextLease
<1> QED
  BY <1>1, <1>2, PTL DEF Spec

\* A running engine that misses at most one renewal in a row is never declared
\* LOST, for every lease, divisor, sweep interval and call time with
\* 2 * Interval + 3 * CallTime <= Lease.
THEOREM HealthyIsKept == Spec => []HealthyKept
<1>1. LeaseInv => HealthyKept
  BY DEF LeaseInv, LeaseLeft, HealthyKept
<1> QED
  BY <1>1, LeaseKept, PTL

-----------------------------------------------------------------------------
(* The sweeper *)

\* Every step keeps a live member within reach of the last sweep.
LEMMA NextSweep == TypeOK /\ SweepInv /\ [Next]_vars => SweepInv'
<1> SUFFICES ASSUME TypeOK, SweepInv, [Next]_vars
             PROVE  SweepInv'
  OBVIOUS
<1>0. /\ store \in [Engines -> Records]
      /\ sweepIn \in 0 .. SweepInterval
      /\ up \in BOOLEAN /\ swept \in BOOLEAN
  BY DEF TypeOK, Records
<1>n. Lease \in Nat /\ SweepInterval \in Nat
  BY RegistryAssumption
<1>i. \A f \in Engines : store[f].left \in Int
  <2> SUFFICES ASSUME NEW f \in Engines PROVE store[f].left \in Int
    OBVIOUS
  <2>1. store[f] \in Records
    BY <1>0
  <2> QED
    BY <1>n, <2>1 DEF Records, Overdue
<1>s. ASSUME UNCHANGED <<up, sweepIn, swept>>,
             \A f \in Engines : store'[f].state \in Reports =>
                \/ store'[f] = store[f]
                \/ store'[f].left = Lease
      PROVE  SweepInv'
  BY <1>0, <1>n, <1>s DEF SweepInv
<1>1. CASE Tick
  <2> SUFFICES ASSUME swept, NEW f \in Engines, store'[f].state \in Reports
               PROVE  store'[f].left >= sweepIn' - SweepInterval
    BY <1>1 DEF Tick, SweepInv
  <2>1. /\ store'[f] = [store[f] EXCEPT !.left =
                 IF store[f].left > Overdue THEN store[f].left - 1 ELSE store[f].left]
        /\ sweepIn' = sweepIn - 1
    BY <1>1 DEF Tick, SweepInv
  <2>2. /\ store'[f].state = store[f].state
        /\ store'[f].left >= store[f].left - 1
        /\ store'[f].left \in Int
    BY <1>0, <1>i, <1>n, <2>1 DEF Records, Overdue
  <2>3. store[f].left >= sweepIn - SweepInterval
    BY <2>2 DEF SweepInv
  <2> QED
    BY <1>0, <1>i, <1>n, <2>1, <2>2, <2>3
<1>2. CASE Sweep
  <2> SUFFICES ASSUME NEW f \in Engines, store'[f].state \in Reports
               PROVE  store'[f].left >= sweepIn' - SweepInterval
    BY <1>2 DEF Sweep, SweepInv
  <2>1. store'[f] = store[f] /\ ~IsOverdue(store[f])
    BY <1>0, <1>2 DEF Sweep, Expired, Records, Reports
  <2>2. store[f].left >= 0
    BY <1>i, <2>1 DEF IsOverdue, Reports
  <2> QED
    BY <1>2, <1>n, <1>i, <2>1, <2>2 DEF Sweep
<1>3. CASE SweepFails
  BY <1>3 DEF SweepFails, SweepInv
<1>4. CASE Down
  BY <1>4 DEF Down, SweepInv
<1>5. CASE Restart
  BY <1>5 DEF Restart, SweepInv
<1>r. ASSUME NEW e \in Engines, NEW report, RegisterEngine(e, report)
      PROVE  \A f \in Engines : store'[f] = store[f] \/ store'[f].left = Lease
  <2>1. PICK prior \in Prior(e) : store' = [store EXCEPT ![e] = Register(prior, report)]
    BY <1>r DEF RegisterEngine
  <2> QED
    BY <1>0, <2>1 DEF Register
<1>6. ASSUME NEW e \in Engines, Land(e)
      PROVE  SweepInv'
  BY <1>6, <1>r, <1>s DEF Land
<1>7. ASSUME NEW e \in Engines, StrayEnds(e)
      PROVE  SweepInv'
  <2>1. PICK report \in stray[e] : RegisterEngine(e, report) \/ UNCHANGED store
    BY <1>7 DEF StrayEnds
  <2> QED
    BY <1>7, <1>r, <1>s, <2>1 DEF StrayEnds
<1>8. ASSUME NEW e \in Engines, DrainMark(e)
      PROVE  SweepInv'
  <2>1. \A f \in Engines : store'[f].state \in Reports => store'[f] = store[f]
    BY <1>0, <1>8 DEF DrainMark, Records, Reports
  <2> QED
    BY <1>8, <1>s, <2>1 DEF DrainMark
<1>9. CASE UNCHANGED <<store, up, sweepIn, swept>>
  BY <1>9, <1>s
<1>10. ASSUME NEW e \in Engines, EngineStep(e)
       PROVE  SweepInv'
  BY <1>6, <1>7, <1>8, <1>9, <1>10 DEF EngineStep, AgentStep, AgentStart, AgentRenew,
     Answer, CallFails, CallStrays, AgentExit, DrainDone, DrainFails
<1> QED
  BY <1>1, <1>2, <1>3, <1>4, <1>5, <1>9, <1>10 DEF Next, vars

\* While the control plane is up and its last sweep went through, no member is
\* shown as live more than a lease and a sweep interval after it was last heard
\* of, for every lease and sweep interval.
THEOREM NoGhosts == Spec => []NoGhost
<1>1. Init => TypeOK /\ SweepInv
  BY InitTyped DEF Init, SweepInv
<1>2. TypeOK /\ SweepInv /\ [Next]_vars => (TypeOK /\ SweepInv)'
  BY NextTyped, NextSweep
<1>3. TypeOK /\ SweepInv => NoGhost
  <2> SUFFICES ASSUME TypeOK, SweepInv, up, swept, NEW e \in Engines,
                      store[e].state \in Reports
               PROVE  store[e].left >= -SweepInterval
    BY DEF NoGhost
  <2>1. store[e].left >= sweepIn - SweepInterval
    BY DEF SweepInv
  <2>2. store \in [Engines -> Records] /\ sweepIn \in 0 .. SweepInterval
    BY DEF TypeOK, Records
  <2>3. store[e].left \in Int
    BY <2>2, RegistryAssumption DEF Records, Overdue
  <2> QED
    BY <2>1, <2>2, <2>3, RegistryAssumption
<1> QED
  BY <1>1, <1>2, <1>3, PTL DEF Spec

-----------------------------------------------------------------------------
(* Draining *)

\* With a readable state file, a draining engine that keeps its lease stays
\* DRAINING whatever it reports, for any fleet and any timing.
THEOREM DrainIsKept ==
    ASSUME "read" \notin Faults
    PROVE  Spec => DrainKept
<1>1. TypeOK /\ LeaseInv /\ [Next]_vars =>
        \A e \in Engines :
            store[e].state = "DRAINING" /\ On(e) /\ missed[e] <= 1
                => store'[e].state = "DRAINING"
  <2> SUFFICES ASSUME TypeOK, LeaseInv, [Next]_vars, NEW f \in Engines,
                      store[f].state = "DRAINING", On(f), missed[f] <= 1
               PROVE  store'[f].state = "DRAINING"
    OBVIOUS
  <2>0. /\ store \in [Engines -> Records]
        /\ agent \in [Engines -> Agents]
        /\ store[f] \in Records
        /\ agent[f] \in Agents
        /\ missed[f] \in 0 .. 3
    BY DEF TypeOK, Records, Agents, Unsure
  <2>1. store[f].left >= 0
    <3>1. LeaseLeft(f)
      BY DEF LeaseInv
    <3>2. /\ agent[f].timer \in Nat /\ agent[f].pc \in {"wait", "call", "answer"}
          /\ store[f].left \in Int
          /\ Lease \in Nat /\ Interval \in Nat /\ CallTime \in Nat
      BY <2>0, RegistryAssumption DEF Agents, Records, Overdue, On
    <3> QED
      BY <2>0, <3>1, <3>2, CallAssumption DEF LeaseLeft, Behind
  <2>2. CASE Tick
    BY <2>0, <2>2 DEF Tick, Records
  <2>3. ASSUME NEW S \in SUBSET Engines, store' = Expired(S)
        PROVE  store'[f].state = "DRAINING"
    BY <2>0, <2>1, <2>3, RegistryAssumption DEF Expired, IsOverdue, Records, Overdue
  <2>4. CASE Sweep \/ SweepFails
    BY <2>3, <2>4 DEF Sweep, SweepFails
  <2>5. ASSUME NEW e \in Engines, NEW report, RegisterEngine(e, report)
        PROVE  store'[f].state = "DRAINING"
    BY <2>0, <2>5 DEF RegisterEngine, Prior, Register
  <2>6. ASSUME NEW e \in Engines, EngineStep(e)
        PROVE  store'[f].state = "DRAINING"
    <3>1. CASE Land(e)
      BY <2>5, <3>1 DEF Land
    <3>2. CASE StrayEnds(e)
      BY <2>5, <3>2 DEF StrayEnds
    <3>3. CASE DrainMark(e)
      BY <2>0, <3>3 DEF DrainMark, Records
    <3>4. CASE UNCHANGED store
      BY <3>4
    <3> QED
      BY <2>6, <3>1, <3>2, <3>3, <3>4 DEF EngineStep, AgentStep, AgentStart, AgentRenew,
         Answer, CallFails, CallStrays, AgentExit, DrainDone, DrainFails
  <2>7. CASE UNCHANGED store
    BY <2>7
  <2> QED
    BY <2>2, <2>4, <2>6, <2>7 DEF Next, Down, Restart, vars
<1> QED
  BY <1>1, LeaseKept, PTL DEF Spec, DrainKept

\* For every lease, divisor, sweep interval and call time that satisfy the
\* constants' assumptions, the sweeper neither evicts a running engine that
\* missed one renewal nor keeps a silent one beyond a lease and a sweep.
THEOREM LeaseIsSafe == Spec => []LeaseSafe
<1>1. HealthyKept /\ NoGhost <=> LeaseSafe
  BY DEF LeaseSafe
<1>2. QED
  BY <1>1, HealthyIsKept, NoGhosts, PTL

=============================================================================
