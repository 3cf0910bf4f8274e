-------------------------- MODULE InstancesProofs --------------------------
(***************************************************************************)
(* Theorems about Instances, for every set of ids, machines and callers,   *)
(* and in every scenario: any operations, faults and old records.          *)
(***************************************************************************)
EXTENDS Instances, FiniteSetTheorems, TLAPS

-----------------------------------------------------------------------------
(* Type correctness *)

\* The scenario of a behaviour stays as it is, and its old deployment records
\* name a machine per id.
LEMMA ScenarioKept == [Next]_vars => scenario' = scenario
<1> SUFFICES ASSUME [Next]_vars PROVE scenario' = scenario
  OBVIOUS
<1>1. ASSUME NEW c \in Callers, CreateStep(c) \/ AdoptStep(c) PROVE scenario' = scenario
  BY <1>1 DEF CreateStep, CreateClaim, CreateFound, CreateMiss, CreateKeyError,
              SpawnOK, SpawnLost, SpawnError, AdoptStep, Adopt, AdoptNext, AdoptError
<1>2. ASSUME NEW c \in Callers, DestroyStep(c) PROVE scenario' = scenario
  BY <1>2 DEF DestroyStep, DestroyClaim, Terminate, TerminateError, TerminateLost
<1>3. ASSUME NEW c \in Callers, ReadStep(c) \/ ListStep(c) PROVE scenario' = scenario
  BY <1>3 DEF ReadStep, DescribeRead, DescribeAnswer, DescribeError, WaitRead,
              WaitReady, WaitError, ListStep, ListRead, HealGone, HealSkip, HealFound
<1>4. ASSUME NEW c \in Callers, patchRecord(c) \/ Settle(c) PROVE scenario' = scenario
  BY <1>4 DEF patchRecord, Settle
<1>5. ASSUME Environment PROVE scenario' = scenario
  BY <1>5 DEF Environment, Boot, Lose, Crash, WipeState
<1>6. CASE UNCHANGED vars
  BY <1>6 DEF vars
<1>7. QED
  BY <1>1, <1>2, <1>3, <1>4, <1>5, <1>6 DEF Next, CallStep

\* An older deployment record names a machine, and no machine is named twice.
LEMMA LegacyType ==
    ASSUME scenario \in Scenarios
    PROVE  /\ LegacyPod \in [Ids -> Machines \cup {None}]
           /\ \A i, j \in Ids : LegacyPod[i] = LegacyPod[j] /\ LegacyPod[i] # None => i = j
  BY ConstantsAssumption DEF LegacyPod, Scenario, Legacies

\* The idle call and the records that calls start from are well typed.
LEMMA IdleType ==
    /\ Idle \in Call
    /\ NoHeal \in [Ids -> InstanceState]
    /\ NoRecord \in Record
    /\ newPendingInstance \in Record
  BY DEF Idle, Call, CallOp, CallPc, NoHeal, InstanceState, NoRecord, Record,
         newPendingInstance

\* An adapter reports one of the instance states.
LEMMA ReportedType == ASSUME NEW m PROVE Reported(m) \in InstanceState
  BY DEF Reported, InstanceState

\* A step that gives a call well-typed fields keeps the calls well typed.
LEMMA SetCallType ==
    ASSUME TypeOK, NEW c \in Callers, NEW o \in CallOp, NEW p \in CallPc,
           NEW i \in Ids \cup {None}, NEW r \in Record,
           NEW h \in [Ids -> InstanceState], SetCall(c, o, p, i, r, h)
    PROVE  call' \in [Callers -> Call]
  BY DEF TypeOK, SetCall, Call

\* So does a return, whether the call ends or goes on healing.
LEMMA ReturnType ==
    ASSUME TypeOK, NEW c \in Callers, NEW h \in [Ids -> InstanceState],
           ReturnWith(c, h)
    PROVE  call' \in [Callers -> Call]
<1>1. CASE h = NoHeal
  BY <1>1, IdleType DEF ReturnWith, TypeOK
<1>2. CASE h # NoHeal
  BY <1>2, IdleType, SetCallType DEF ReturnWith, TypeOK, Call, CallPc
<1>3. QED
  BY <1>1, <1>2

\* The captured fields of a call.
LEMMA CallFields ==
    ASSUME TypeOK, NEW c \in Callers
    PROVE  /\ call[c].op \in CallOp
           /\ call[c].id \in Ids \cup {None}
           /\ call[c].rec \in Record
           /\ call[c].rec.st \in InstanceState
           /\ call[c].rec.pid \in Machines \cup {None}
           /\ call[c].heal \in [Ids -> InstanceState]
  BY DEF TypeOK, Call, Record

\* A call that moves on with a record of its own stays well typed.
LEMMA GotoType ==
    ASSUME TypeOK, NEW c \in Callers, NEW p \in CallPc,
           NEW s \in InstanceState, NEW m \in Machines \cup {None},
           Goto(c, p, [st |-> s, pid |-> m])
    PROVE  call' \in [Callers -> Call]
  BY CallFields, SetCallType DEF Goto, Record

\* A machine that changes status stays well typed.
LEMMA StatusType ==
    ASSUME TypeOK, NEW m, NEW s \in Status,
           cloud' = [cloud EXCEPT ![m].status = s]
    PROVE  cloud' \in [Machines -> Machine]
  BY DEF TypeOK, Machine

\* Every step keeps the state well typed.
LEMMA TypeStep == TypeOK /\ [Next]_vars => TypeOK'
<1> SUFFICES ASSUME TypeOK, [Next]_vars PROVE TypeOK'
  OBVIOUS
<1>0. scenario' \in Scenarios
  BY ScenarioKept DEF TypeOK
<1> USE <1>0
<1>1. ASSUME NEW c \in Callers, NEW i \in Ids, CreateClaim(c, i) PROVE TypeOK'
  BY <1>1, SetCallType, IdleType DEF CreateClaim, Begin, CallOp, CallPc, TypeOK
<1>2. ASSUME NEW c \in Callers, NEW m \in Machines, CreateFound(c, m) PROVE TypeOK'
  BY <1>2, GotoType DEF CreateFound, Found, CallPc, InstanceState, TypeOK
<1>3. ASSUME NEW c \in Callers, CreateMiss(c) PROVE TypeOK'
  BY <1>3, IdleType, CallFields, SetCallType DEF CreateMiss, Goto, CallPc, TypeOK
<1>4. ASSUME NEW c \in Callers, Adopt(c) PROVE TypeOK'
  <2>1. call' \in [Callers -> Call]
    BY <1>4, CallFields, GotoType, ReportedType DEF Adopt, CallPc
  <2>2. QED
    BY <1>4, <2>1 DEF Adopt, TypeOK
<1>5. ASSUME NEW c \in Callers, NEW m \in Machines, AdoptNext(c, m) PROVE TypeOK'
  BY <1>5, GotoType DEF AdoptNext, Found, CallPc, InstanceState, TypeOK
<1>6. ASSUME NEW c \in Callers, AdoptError(c) PROVE TypeOK'
  <2>1. CASE Goto(c, "spawn", newPendingInstance)
    BY <1>6, <2>1, IdleType, CallFields, SetCallType DEF AdoptError, Goto, CallPc, TypeOK
  <2>2. CASE Return(c)
    BY <1>6, <2>2, CallFields, ReturnType DEF AdoptError, Return, TypeOK
  <2>3. QED
    BY <1>6, <2>1, <2>2 DEF AdoptError
<1>7. ASSUME NEW c \in Callers, CreateKeyError(c) PROVE TypeOK'
  BY <1>7, CallFields, ReturnType DEF CreateKeyError, Return, TypeOK
<1>8. ASSUME NEW c \in Callers, NEW m \in Machines, SpawnOK(c, m) PROVE TypeOK'
  BY <1>8, CallFields, GotoType DEF SpawnOK, CallPc, InstanceState, TypeOK, Machine, Status
<1>9. ASSUME NEW c \in Callers, SpawnError(c) PROVE TypeOK'
  BY <1>9, CallFields, GotoType DEF SpawnError, CallPc, InstanceState, TypeOK
<1>10. ASSUME NEW c \in Callers, NEW m \in Machines, SpawnLost(c, m) PROVE TypeOK'
  BY <1>10, CallFields, GotoType DEF SpawnLost, CallPc, InstanceState, TypeOK, Machine, Status
<1>11. ASSUME NEW c \in Callers, patchRecord(c) PROVE TypeOK'
  BY <1>11, CallFields, ReturnType DEF patchRecord, Return, TypeOK
<1>12. ASSUME NEW c \in Callers, NEW i \in Ids, NEW force \in BOOLEAN, DestroyClaim(c, i, force) PROVE TypeOK'
  BY <1>12, SetCallType, IdleType, LegacyType
     DEF DestroyClaim, TypeOK, Record, Machine, Status, InstanceState, Call, CallOp, CallPc, Begin, Target
<1>13. ASSUME NEW c \in Callers, Terminate(c) PROVE TypeOK'
  BY <1>13, CallFields, SetCallType, StatusType DEF Terminate, Goto, CallPc, Status, TypeOK
<1>14. ASSUME NEW c \in Callers, TerminateError(c) PROVE TypeOK'
  BY <1>14, CallFields, GotoType DEF TerminateError, CallPc, InstanceState, TypeOK
<1>15. ASSUME NEW c \in Callers, TerminateLost(c) PROVE TypeOK'
  BY <1>15, CallFields, GotoType, StatusType
     DEF TerminateLost, CallPc, InstanceState, Status, TypeOK
<1>16. ASSUME NEW c \in Callers, Settle(c) PROVE TypeOK'
  BY <1>16, CallFields, ReturnType DEF Settle, Return, TypeOK, Record
<1>17. ASSUME NEW c \in Callers, NEW i \in Ids, DescribeRead(c, i) PROVE TypeOK'
  BY <1>17, SetCallType, IdleType DEF DescribeRead, Begin, CallOp, CallPc, TypeOK
<1>18. ASSUME NEW c \in Callers, DescribeAnswer(c) PROVE TypeOK'
  <2> DEFINE m == call[c].rec.pid
             s == IF m \in Listed THEN Reported(m) ELSE "TERMINATED"
  <2>1. s \in InstanceState
    <3>1. "TERMINATED" \in InstanceState
      BY DEF InstanceState
    <3>2. QED
      BY <3>1, ReportedType
  <2>2. Goto(c, "patch", [st |-> s, pid |-> m])
    BY <1>18 DEF DescribeAnswer
  <2> HIDE DEF s
  <2>3. call' \in [Callers -> Call]
    BY <2>1, <2>2, CallFields, GotoType DEF CallPc
  <2>4. QED
    BY <1>18, <2>3 DEF DescribeAnswer, TypeOK
<1>19. ASSUME NEW c \in Callers, DescribeError(c) PROVE TypeOK'
  BY <1>19, CallFields, ReturnType DEF DescribeError, Return, TypeOK
<1>20. ASSUME NEW c \in Callers, NEW i \in Ids, WaitRead(c, i) PROVE TypeOK'
  BY <1>20, SetCallType, IdleType DEF WaitRead, Begin, CallOp, CallPc, TypeOK
<1>21. ASSUME NEW c \in Callers, WaitReady(c) PROVE TypeOK'
  BY <1>21, CallFields, SetCallType DEF WaitReady, Goto, CallPc, TypeOK
<1>22. ASSUME NEW c \in Callers, WaitError(c) PROVE TypeOK'
  BY <1>22, CallFields, ReturnType DEF WaitError, Return, TypeOK
<1>23. ASSUME NEW c \in Callers, ListRead(c) PROVE TypeOK'
  BY <1>23, SetCallType, IdleType DEF ListRead, CallOp, CallPc, InstanceState, TypeOK, Record
<1>24. ASSUME NEW c \in Callers, NEW i \in Ids, HealGone(c, i) PROVE TypeOK'
  <2>1. [call[c].heal EXCEPT ![i] = "NONE"] \in [Ids -> InstanceState]
    BY CallFields DEF InstanceState
  <2>2. call' \in [Callers -> Call]
    BY <1>24, <2>1, SetCallType DEF HealGone, Heal, CallOp, CallPc, Record, InstanceState
  <2>3. QED
    BY <1>24, <2>2 DEF HealGone, TypeOK
<1>25. ASSUME NEW c \in Callers, NEW i \in Ids, NEW m \in Machines, HealFound(c, i, m) PROVE TypeOK'
  <2>1. Found(m) \in Record
    BY DEF Found, Record, InstanceState
  <2>2. [call[c].heal EXCEPT ![i] = "NONE"] \in [Ids -> InstanceState]
    BY CallFields DEF InstanceState
  <2>3. call' \in [Callers -> Call]
    BY <1>25, <2>1, <2>2, SetCallType DEF HealFound, Heal, CallOp, CallPc
  <2>4. QED
    BY <1>25, <2>3 DEF HealFound, TypeOK
<1>26. ASSUME NEW c \in Callers, NEW i \in Ids, HealSkip(c, i) PROVE TypeOK'
  BY <1>26, CallFields, ReturnType DEF HealSkip, InstanceState, TypeOK
<1>27. ASSUME NEW m \in Machines, Boot(m) PROVE TypeOK'
  BY <1>27, StatusType DEF Boot, Status, TypeOK
<1>28. ASSUME NEW m \in Machines, Lose(m) PROVE TypeOK'
  BY <1>28, StatusType DEF Lose, Status, TypeOK
<1>29. ASSUME NEW c \in Callers, Crash(c) PROVE TypeOK'
  BY <1>29, IdleType DEF Crash, TypeOK
<1>30. CASE WipeState
  BY <1>30, IdleType DEF WipeState, TypeOK
<1>31. CASE UNCHANGED vars
  BY <1>31 DEF vars, TypeOK
<1>32. QED
  BY <1>1, <1>2, <1>3, <1>4, <1>5, <1>6, <1>7, <1>8, <1>9, <1>10,
     <1>11, <1>12, <1>13, <1>14, <1>15, <1>16, <1>17, <1>18, <1>19, <1>20,
     <1>21, <1>22, <1>23, <1>24, <1>25, <1>26, <1>27, <1>28, <1>29, <1>30,
     <1>31
     DEF Next, CallStep, CreateStep, AdoptStep, DestroyStep, ReadStep, ListStep, Environment

\* The state file, the account and the calls are well typed in every
\* reachable state.
THEOREM TypeCorrect == Spec => []TypeOK
<1>1. Init => TypeOK
  BY IdleType DEF Init, TypeOK
<1>2. QED
  BY <1>1, TypeStep, PTL DEF Spec


-----------------------------------------------------------------------------
(* Which machines the records and the calls point at *)

\* A rented machine keeps its tag, whatever happens to it.
LEMMA OwnedStep ==
    TypeOK /\ [Next]_vars =>
        \A mm \in Machines :
            cloud[mm].status # "free" =>
                cloud'[mm].status # "free" /\ cloud'[mm].tag = cloud[mm].tag
<1> SUFFICES ASSUME TypeOK, [Next]_vars, NEW mm \in Machines, cloud[mm].status # "free"
             PROVE  cloud'[mm].status # "free" /\ cloud'[mm].tag = cloud[mm].tag
  OBVIOUS
<1> DEFINE Kept == cloud'[mm].status # "free" /\ cloud'[mm].tag = cloud[mm].tag
<1>1. ASSUME NEW c \in Callers, NEW i \in Ids, CreateClaim(c, i) PROVE Kept
  BY <1>1 DEF CreateClaim, Owned
<1>2. ASSUME NEW c \in Callers, NEW m \in Machines, CreateFound(c, m) PROVE Kept
  BY <1>2 DEF CreateFound, Owned
<1>3. ASSUME NEW c \in Callers, CreateMiss(c) PROVE Kept
  BY <1>3 DEF CreateMiss, Owned
<1>4. ASSUME NEW c \in Callers, Adopt(c) PROVE Kept
  BY <1>4 DEF Adopt, Owned
<1>5. ASSUME NEW c \in Callers, NEW m \in Machines, AdoptNext(c, m) PROVE Kept
  BY <1>5 DEF AdoptNext, Owned
<1>6. ASSUME NEW c \in Callers, AdoptError(c) PROVE Kept
  BY <1>6 DEF AdoptError, Owned
<1>7. ASSUME NEW c \in Callers, CreateKeyError(c) PROVE Kept
  BY <1>7 DEF CreateKeyError, Owned
<1>8. ASSUME NEW c \in Callers, NEW m \in Machines, SpawnOK(c, m) PROVE Kept
  BY <1>8 DEF SpawnOK, Owned, TypeOK, Machine
<1>9. ASSUME NEW c \in Callers, SpawnError(c) PROVE Kept
  BY <1>9 DEF SpawnError, Owned
<1>10. ASSUME NEW c \in Callers, NEW m \in Machines, SpawnLost(c, m) PROVE Kept
  BY <1>10 DEF SpawnLost, Owned, TypeOK, Machine
<1>11. ASSUME NEW c \in Callers, patchRecord(c) PROVE Kept
  BY <1>11 DEF patchRecord, Owned
<1>12. ASSUME NEW c \in Callers, NEW i \in Ids, NEW force \in BOOLEAN, DestroyClaim(c, i, force) PROVE Kept
  BY <1>12 DEF DestroyClaim, Owned
<1>13. ASSUME NEW c \in Callers, Terminate(c) PROVE Kept
  BY <1>13 DEF Terminate, Owned, TypeOK, Machine
<1>14. ASSUME NEW c \in Callers, TerminateError(c) PROVE Kept
  BY <1>14 DEF TerminateError, Owned
<1>15. ASSUME NEW c \in Callers, TerminateLost(c) PROVE Kept
  BY <1>15 DEF TerminateLost, Owned, TypeOK, Machine
<1>16. ASSUME NEW c \in Callers, Settle(c) PROVE Kept
  BY <1>16 DEF Settle, Owned
<1>17. ASSUME NEW c \in Callers, NEW i \in Ids, DescribeRead(c, i) PROVE Kept
  BY <1>17 DEF DescribeRead, Owned
<1>18. ASSUME NEW c \in Callers, DescribeAnswer(c) PROVE Kept
  BY <1>18 DEF DescribeAnswer, Owned
<1>19. ASSUME NEW c \in Callers, DescribeError(c) PROVE Kept
  BY <1>19 DEF DescribeError, Owned
<1>20. ASSUME NEW c \in Callers, NEW i \in Ids, WaitRead(c, i) PROVE Kept
  BY <1>20 DEF WaitRead, Owned
<1>21. ASSUME NEW c \in Callers, WaitReady(c) PROVE Kept
  BY <1>21 DEF WaitReady, Owned
<1>22. ASSUME NEW c \in Callers, WaitError(c) PROVE Kept
  BY <1>22 DEF WaitError, Owned
<1>23. ASSUME NEW c \in Callers, ListRead(c) PROVE Kept
  BY <1>23 DEF ListRead, Owned
<1>24. ASSUME NEW c \in Callers, NEW i \in Ids, HealGone(c, i) PROVE Kept
  BY <1>24 DEF HealGone, Owned
<1>25. ASSUME NEW c \in Callers, NEW i \in Ids, NEW m \in Machines, HealFound(c, i, m) PROVE Kept
  BY <1>25 DEF HealFound, Owned
<1>26. ASSUME NEW c \in Callers, NEW i \in Ids, HealSkip(c, i) PROVE Kept
  BY <1>26 DEF HealSkip, Owned
<1>27. ASSUME NEW m \in Machines, Boot(m) PROVE Kept
  BY <1>27 DEF Boot, Owned, TypeOK, Machine
<1>28. ASSUME NEW m \in Machines, Lose(m) PROVE Kept
  BY <1>28 DEF Lose, Owned, TypeOK, Machine, Listed
<1>29. ASSUME NEW c \in Callers, Crash(c) PROVE Kept
  BY <1>29 DEF Crash, Owned
<1>30. CASE WipeState
  BY <1>30 DEF WipeState, Owned
<1>31. CASE UNCHANGED vars
  BY <1>31 DEF vars, Owned
<1>32. QED
  BY <1>1, <1>2, <1>3, <1>4, <1>5, <1>6, <1>7, <1>8, <1>9, <1>10,
     <1>11, <1>12, <1>13, <1>14, <1>15, <1>16, <1>17, <1>18, <1>19, <1>20,
     <1>21, <1>22, <1>23, <1>24, <1>25, <1>26, <1>27, <1>28, <1>29, <1>30,
     <1>31
     DEF Next, CallStep, CreateStep, AdoptStep, DestroyStep, ReadStep, ListStep, Environment

\* What the calls captured stays theirs when one of them captures a machine
\* of the id it works on.
LEMMA SetCallBinding ==
    ASSUME TypeOK, Binding, [Next]_vars,
           NEW c \in Callers, NEW o, NEW p, NEW i, NEW r \in Record, NEW h,
           SetCall(c, o, p, i, r, h),
           r.pid # None => cloud'[r.pid].status # "free" /\ cloud'[r.pid].tag = i
    PROVE  \A d \in Callers :
              call'[d].rec.pid # None =>
                  /\ cloud'[call'[d].rec.pid].status # "free"
                  /\ cloud'[call'[d].rec.pid].tag = call'[d].id
<1>1. ASSUME NEW d \in Callers, d # c, call'[d].rec.pid # None
      PROVE  /\ cloud'[call'[d].rec.pid].status # "free"
             /\ cloud'[call'[d].rec.pid].tag = call'[d].id
  <2>1. call'[d] = call[d]
    BY <1>1 DEF SetCall, TypeOK
  <2>2. call[d].rec.pid \in Machines
    BY <1>1, <2>1, CallFields
  <2>3. QED
    BY <1>1, <2>1, <2>2, OwnedStep DEF Binding, Owned
<1>2. call'[c].rec = r /\ call'[c].id = i
  BY DEF SetCall, TypeOK
<1>3. QED
  BY <1>1, <1>2

\* A return captures no machine.
LEMMA ReturnBinding ==
    ASSUME TypeOK, Binding, [Next]_vars,
           NEW c \in Callers, NEW h, ReturnWith(c, h)
    PROVE  \A d \in Callers :
              call'[d].rec.pid # None =>
                  /\ cloud'[call'[d].rec.pid].status # "free"
                  /\ cloud'[call'[d].rec.pid].tag = call'[d].id
<1>1. CASE h = NoHeal
  <2>1. SetCall(c, "none", "idle", None, NoRecord, NoHeal)
    BY <1>1 DEF ReturnWith, SetCall, Idle
  <2>2. QED
    BY <2>1, SetCallBinding, IdleType DEF NoRecord
<1>2. CASE h # NoHeal
  BY <1>2, SetCallBinding, IdleType DEF ReturnWith, NoRecord
<1>3. QED
  BY <1>1, <1>2

\* The file and the calls keep pointing at machines of their own ids.
LEMMA BindingStep == TypeOK /\ Binding /\ [Next]_vars => Binding'
<1> SUFFICES ASSUME TypeOK, Binding, [Next]_vars PROVE Binding'
  OBVIOUS
<1> DEFINE FileBinding ==
             \A i \in Ids : file'[i].pid # None =>
                 cloud'[file'[i].pid].status # "free" /\ cloud'[file'[i].pid].tag = i
           CallBinding ==
             \A d \in Callers : call'[d].rec.pid # None =>
                 /\ cloud'[call'[d].rec.pid].status # "free"
                 /\ cloud'[call'[d].rec.pid].tag = call'[d].id
<1>f. ASSUME \A i \in Ids : file'[i].pid # None => file'[i].pid = file[i].pid
      PROVE  FileBinding
  BY <1>f, OwnedStep DEF Binding, Owned, TypeOK, Record
<1>l. \A i \in Ids : LegacyPod[i] # None =>
          cloud'[LegacyPod[i]].status # "free" /\ cloud'[LegacyPod[i]].tag = i
  BY OwnedStep, LegacyType DEF Binding, Owned, TypeOK
<1>k. LegacyPod' = LegacyPod
  BY ScenarioKept DEF LegacyPod
<1>u. ASSUME UNCHANGED call PROVE CallBinding
  BY <1>u, OwnedStep, CallFields DEF Binding, Owned
<1> SUFFICES FileBinding /\ CallBinding
  BY <1>l, <1>k DEF Binding, Owned
<1> HIDE DEF FileBinding, CallBinding
<1>1. ASSUME NEW c \in Callers, NEW i \in Ids, CreateClaim(c, i) PROVE FileBinding /\ CallBinding
  <2>1. FileBinding
    BY <1>1, <1>f DEF CreateClaim, newPendingInstance, TypeOK
  <2>2. CallBinding
    BY <1>1, SetCallBinding, IdleType
       DEF CreateClaim, Begin, CallBinding, TypeOK, Record, newPendingInstance
  <2>3. QED
    BY <2>1, <2>2
<1>2. ASSUME NEW c \in Callers, NEW m \in Machines, CreateFound(c, m) PROVE FileBinding /\ CallBinding
  <2>1. FileBinding
    BY <1>2, <1>f DEF CreateFound
  <2>2. CallBinding
    BY <1>2, SetCallBinding, CallFields, OwnedStep
       DEF CreateFound, Goto, CallBinding, Binding, Owned, Record, Found, FilterRefs, Listed, InstanceState
  <2>3. QED
    BY <2>1, <2>2
<1>3. ASSUME NEW c \in Callers, CreateMiss(c) PROVE FileBinding /\ CallBinding
  <2>1. FileBinding
    BY <1>3, <1>f DEF CreateMiss
  <2>2. CallBinding
    BY <1>3, SetCallBinding, CallFields, OwnedStep, IdleType
       DEF CreateMiss, Goto, CallBinding, Binding, Owned, Record, newPendingInstance
  <2>3. QED
    BY <2>1, <2>2
<1>4. ASSUME NEW c \in Callers, Adopt(c) PROVE FileBinding /\ CallBinding
  <2>1. FileBinding
    BY <1>4, <1>f DEF Adopt
  <2>2. CallBinding
    BY <1>4, SetCallBinding, CallFields, OwnedStep, ReportedType
       DEF Adopt, Goto, CallBinding, Binding, Owned, Record
  <2>3. QED
    BY <2>1, <2>2
<1>5. ASSUME NEW c \in Callers, NEW m \in Machines, AdoptNext(c, m) PROVE FileBinding /\ CallBinding
  <2>1. FileBinding
    BY <1>5, <1>f DEF AdoptNext
  <2>2. CallBinding
    BY <1>5, SetCallBinding, CallFields, OwnedStep
       DEF AdoptNext, Goto, CallBinding, Binding, Owned, Record, Found, FilterRefs, Listed, InstanceState
  <2>3. QED
    BY <2>1, <2>2
<1>6. ASSUME NEW c \in Callers, AdoptError(c) PROVE FileBinding /\ CallBinding
  <2>1. FileBinding
    BY <1>6, <1>f DEF AdoptError
  <2>2. CallBinding
    <3>1. CASE Goto(c, "spawn", newPendingInstance)
      BY <1>6, <3>1, SetCallBinding, IdleType DEF Goto, newPendingInstance, CallBinding
    <3>2. CASE Return(c)
      BY <1>6, <3>2, ReturnBinding DEF Return, CallBinding
    <3>3. QED
      BY <1>6, <3>1, <3>2 DEF AdoptError
  <2>3. QED
    BY <2>1, <2>2
<1>7. ASSUME NEW c \in Callers, CreateKeyError(c) PROVE FileBinding /\ CallBinding
  <2>1. FileBinding
    BY <1>7, <1>f DEF CreateKeyError
  <2>2. CallBinding
    BY <1>7, ReturnBinding DEF CreateKeyError, Return, CallBinding
  <2>3. QED
    BY <2>1, <2>2
<1>8. ASSUME NEW c \in Callers, NEW m \in Machines, SpawnOK(c, m) PROVE FileBinding /\ CallBinding
  <2>1. FileBinding
    BY <1>8, <1>f DEF SpawnOK
  <2>2. CallBinding
    BY <1>8, SetCallBinding, CallFields, OwnedStep
       DEF SpawnOK, Goto, CallBinding, Binding, Owned, Record, TypeOK, Machine, InstanceState
  <2>3. QED
    BY <2>1, <2>2
<1>9. ASSUME NEW c \in Callers, SpawnError(c) PROVE FileBinding /\ CallBinding
  <2>1. FileBinding
    BY <1>9, <1>f DEF SpawnError
  <2>2. CallBinding
    BY <1>9, SetCallBinding, CallFields, OwnedStep
       DEF SpawnError, Goto, CallBinding, Binding, Owned, Record, InstanceState
  <2>3. QED
    BY <2>1, <2>2
<1>10. ASSUME NEW c \in Callers, NEW m \in Machines, SpawnLost(c, m) PROVE FileBinding /\ CallBinding
  <2>1. FileBinding
    BY <1>10, <1>f DEF SpawnLost
  <2>2. CallBinding
    BY <1>10, SetCallBinding, CallFields, OwnedStep
       DEF SpawnLost, Goto, CallBinding, Binding, Owned, Record, TypeOK, Machine, InstanceState
  <2>3. QED
    BY <2>1, <2>2
<1>11. ASSUME NEW c \in Callers, patchRecord(c) PROVE FileBinding /\ CallBinding
  <2>1. FileBinding
    BY <1>11, OwnedStep, CallFields DEF patchRecord, FileBinding, Binding, Owned, TypeOK, Record
  <2>2. CallBinding
    BY <1>11, ReturnBinding DEF patchRecord, Return, CallBinding
  <2>3. QED
    BY <2>1, <2>2
<1>12. ASSUME NEW c \in Callers, NEW i \in Ids, NEW force \in BOOLEAN, DestroyClaim(c, i, force) PROVE FileBinding /\ CallBinding
  <2>1. FileBinding
    BY <1>12, <1>l, OwnedStep DEF DestroyClaim, Target, FileBinding, Binding, Owned, TypeOK, Record
  <2>2. CallBinding
    BY <1>12, SetCallBinding, LegacyType, OwnedStep, <1>l
       DEF DestroyClaim, Begin, CallBinding, TypeOK, Record, Target, Binding, Owned, InstanceState
  <2>3. QED
    BY <2>1, <2>2
<1>13. ASSUME NEW c \in Callers, Terminate(c) PROVE FileBinding /\ CallBinding
  <2>1. FileBinding
    BY <1>13, <1>f DEF Terminate
  <2>2. CallBinding
    BY <1>13, SetCallBinding, CallFields, OwnedStep
       DEF Terminate, Goto, CallBinding, Binding, Owned, Record
  <2>3. QED
    BY <2>1, <2>2
<1>14. ASSUME NEW c \in Callers, TerminateError(c) PROVE FileBinding /\ CallBinding
  <2>1. FileBinding
    BY <1>14, <1>f DEF TerminateError
  <2>2. CallBinding
    BY <1>14, SetCallBinding, CallFields, OwnedStep
       DEF TerminateError, Goto, CallBinding, Binding, Owned, Record, InstanceState
  <2>3. QED
    BY <2>1, <2>2
<1>15. ASSUME NEW c \in Callers, TerminateLost(c) PROVE FileBinding /\ CallBinding
  <2>1. FileBinding
    BY <1>15, <1>f DEF TerminateLost
  <2>2. CallBinding
    BY <1>15, SetCallBinding, CallFields, OwnedStep
       DEF TerminateLost, Goto, CallBinding, Binding, Owned, Record, InstanceState
  <2>3. QED
    BY <2>1, <2>2
<1>16. ASSUME NEW c \in Callers, Settle(c) PROVE FileBinding /\ CallBinding
  <2>1. FileBinding
    BY <1>16, <1>f DEF Settle, TypeOK, Record
  <2>2. CallBinding
    BY <1>16, ReturnBinding DEF Settle, Return, CallBinding
  <2>3. QED
    BY <2>1, <2>2
<1>17. ASSUME NEW c \in Callers, NEW i \in Ids, DescribeRead(c, i) PROVE FileBinding /\ CallBinding
  <2>1. FileBinding
    BY <1>17, <1>f DEF DescribeRead
  <2>2. CallBinding
    BY <1>17, SetCallBinding, OwnedStep
       DEF DescribeRead, Begin, CallBinding, TypeOK, Record, Binding, Owned
  <2>3. QED
    BY <2>1, <2>2
<1>18. ASSUME NEW c \in Callers, DescribeAnswer(c) PROVE FileBinding /\ CallBinding
  <2>1. FileBinding
    BY <1>18, <1>f DEF DescribeAnswer
  <2>2. CallBinding
    <3>1. \E s \in InstanceState : Goto(c, "patch", [st |-> s, pid |-> call[c].rec.pid])
      <4>1. "TERMINATED" \in InstanceState
        BY DEF InstanceState
      <4>2. QED
        BY <1>18, <4>1, ReportedType DEF DescribeAnswer
    <3>2. QED
      BY <1>18, <3>1, SetCallBinding, CallFields, OwnedStep
         DEF DescribeAnswer, Goto, CallBinding, Binding, Owned, Record
  <2>3. QED
    BY <2>1, <2>2
<1>19. ASSUME NEW c \in Callers, DescribeError(c) PROVE FileBinding /\ CallBinding
  <2>1. FileBinding
    BY <1>19, <1>f DEF DescribeError
  <2>2. CallBinding
    BY <1>19, ReturnBinding DEF DescribeError, Return, CallBinding
  <2>3. QED
    BY <2>1, <2>2
<1>20. ASSUME NEW c \in Callers, NEW i \in Ids, WaitRead(c, i) PROVE FileBinding /\ CallBinding
  <2>1. FileBinding
    BY <1>20, <1>f DEF WaitRead
  <2>2. CallBinding
    BY <1>20, SetCallBinding, OwnedStep
       DEF WaitRead, Begin, CallBinding, TypeOK, Record, Binding, Owned
  <2>3. QED
    BY <2>1, <2>2
<1>21. ASSUME NEW c \in Callers, WaitReady(c) PROVE FileBinding /\ CallBinding
  <2>1. FileBinding
    BY <1>21, <1>f DEF WaitReady
  <2>2. CallBinding
    BY <1>21, SetCallBinding, CallFields, OwnedStep
       DEF WaitReady, Goto, CallBinding, Binding, Owned, Record
  <2>3. QED
    BY <2>1, <2>2
<1>22. ASSUME NEW c \in Callers, WaitError(c) PROVE FileBinding /\ CallBinding
  <2>1. FileBinding
    BY <1>22, <1>f DEF WaitError
  <2>2. CallBinding
    BY <1>22, ReturnBinding DEF WaitError, Return, CallBinding
  <2>3. QED
    BY <2>1, <2>2
<1>23. ASSUME NEW c \in Callers, ListRead(c) PROVE FileBinding /\ CallBinding
  <2>1. FileBinding
    BY <1>23, <1>f DEF ListRead
  <2>2. CallBinding
    BY <1>23, SetCallBinding, IdleType
       DEF ListRead, CallBinding, NoRecord
  <2>3. QED
    BY <2>1, <2>2
<1>24. ASSUME NEW c \in Callers, NEW i \in Ids, HealGone(c, i) PROVE FileBinding /\ CallBinding
  <2>1. FileBinding
    BY <1>24, <1>f DEF HealGone
  <2>2. CallBinding
    BY <1>24, SetCallBinding
       DEF HealGone, Heal, CallBinding, InstanceState, Record
  <2>3. QED
    BY <2>1, <2>2
<1>25. ASSUME NEW c \in Callers, NEW i \in Ids, NEW m \in Machines, HealFound(c, i, m) PROVE FileBinding /\ CallBinding
  <2>1. FileBinding
    BY <1>25, <1>f DEF HealFound
  <2>2. CallBinding
    BY <1>25, SetCallBinding
       DEF HealFound, Heal, CallBinding, Found, FilterRefs, Listed, Record, InstanceState
  <2>3. QED
    BY <2>1, <2>2
<1>26. ASSUME NEW c \in Callers, NEW i \in Ids, HealSkip(c, i) PROVE FileBinding /\ CallBinding
  <2>1. FileBinding
    BY <1>26, <1>f DEF HealSkip
  <2>2. CallBinding
    BY <1>26, ReturnBinding DEF HealSkip, CallBinding
  <2>3. QED
    BY <2>1, <2>2
<1>27. ASSUME NEW m \in Machines, Boot(m) PROVE FileBinding /\ CallBinding
  <2>1. FileBinding
    BY <1>27, <1>f DEF Boot
  <2>2. CallBinding
    BY <1>27, <1>u DEF Boot
  <2>3. QED
    BY <2>1, <2>2
<1>28. ASSUME NEW m \in Machines, Lose(m) PROVE FileBinding /\ CallBinding
  <2>1. FileBinding
    BY <1>28, <1>f DEF Lose
  <2>2. CallBinding
    BY <1>28, <1>u DEF Lose
  <2>3. QED
    BY <2>1, <2>2
<1>29. ASSUME NEW c \in Callers, Crash(c) PROVE FileBinding /\ CallBinding
  <2>1. FileBinding
    BY <1>29, <1>f DEF Crash
  <2>2. CallBinding
    BY <1>29, ReturnBinding DEF Crash, ReturnWith, CallBinding
  <2>3. QED
    BY <2>1, <2>2
<1>30. CASE WipeState
  <2>1. FileBinding
    BY <1>30, <1>f DEF WipeState, NoRecord
  <2>2. CallBinding
    BY <1>30, <1>u DEF WipeState
  <2>3. QED
    BY <2>1, <2>2
<1>31. CASE UNCHANGED vars
  BY <1>31, <1>f, <1>u DEF vars
<1>32. QED
  BY <1>1, <1>2, <1>3, <1>4, <1>5, <1>6, <1>7, <1>8, <1>9, <1>10,
     <1>11, <1>12, <1>13, <1>14, <1>15, <1>16, <1>17, <1>18, <1>19, <1>20,
     <1>21, <1>22, <1>23, <1>24, <1>25, <1>26, <1>27, <1>28, <1>29, <1>30,
     <1>31
     DEF Next, CallStep, CreateStep, AdoptStep, DestroyStep, ReadStep, ListStep, Environment

\* Records, calls in flight and old deployment records only ever point at
\* machines rented for their own id.
THEOREM BindingCorrect == Spec => []Binding
<1>1. Init => Binding
  <2> SUFFICES ASSUME Init PROVE Binding
    OBVIOUS
  <2>1. \A i \in Ids : file[i].pid = None
    BY DEF Init, NoRecord, newPendingInstance
  <2>2. \A c \in Callers : call[c].rec.pid = None
    BY DEF Init, Idle, NoRecord
  <2>3. ASSUME NEW i \in Ids, LegacyPod[i] # None PROVE Owned(LegacyPod[i], i)
    <3>1. LegacyPod[i] \in Machines
      BY <2>3, LegacyType DEF Init
    <3>2. PICK j \in Ids : /\ LegacyPod[j] = LegacyPod[i]
                           /\ cloud[LegacyPod[i]] = [status |-> "running", tag |-> j]
      BY <3>1 DEF Init
    <3>3. QED
      BY <2>3, <3>2, LegacyType DEF Init, Owned
  <2>4. QED
    BY <2>1, <2>2, <2>3 DEF Binding
<1>2. QED
  BY <1>1, BindingStep, TypeCorrect, PTL DEF Spec

\* No two instance ids are ever bound to one machine.
THEOREM SharedMachineFree == Spec => []NoSharedMachine
<1>1. Binding => NoSharedMachine
  BY DEF Binding, Owned, NoSharedMachine
<1>2. QED
  BY <1>1, BindingCorrect, PTL

\* Only a Terminate of the call's own moves it from terminate to settle
\* with a machine of the account gone, and it is the captured machine.
LEMMA TerminateStep ==
    ASSUME TypeOK, Next, NEW cc \in Callers, NEW mm \in Machines,
           call[cc].pc = "terminate", call'[cc].pc = "settle",
           mm \in Listed, cloud'[mm].status = "gone"
    PROVE  mm = call[cc].rec.pid
<1>1. ASSUME NEW c \in Callers, NEW i \in Ids, CreateClaim(c, i) PROVE mm = call[cc].rec.pid
  BY <1>1 DEF CreateClaim, Begin, SetCall, Idle, TypeOK, Machine, Listed
<1>2. ASSUME NEW c \in Callers, NEW m \in Machines, CreateFound(c, m) PROVE mm = call[cc].rec.pid
  BY <1>2 DEF CreateFound, Goto, SetCall, Idle, TypeOK, Machine, Listed
<1>3. ASSUME NEW c \in Callers, CreateMiss(c) PROVE mm = call[cc].rec.pid
  BY <1>3 DEF CreateMiss, Goto, SetCall, Idle, TypeOK, Machine, Listed
<1>4. ASSUME NEW c \in Callers, Adopt(c) PROVE mm = call[cc].rec.pid
  BY <1>4 DEF Adopt, Goto, SetCall, Idle, TypeOK, Machine, Listed
<1>5. ASSUME NEW c \in Callers, NEW m \in Machines, AdoptNext(c, m) PROVE mm = call[cc].rec.pid
  BY <1>5 DEF AdoptNext, Goto, SetCall, AdoptFails, Idle, TypeOK, Machine, Listed
<1>6. ASSUME NEW c \in Callers, AdoptError(c) PROVE mm = call[cc].rec.pid
  BY <1>6 DEF AdoptError, SetCall, AdoptFails, Goto, Return, ReturnWith, Idle, TypeOK, Machine, Listed
<1>7. ASSUME NEW c \in Callers, CreateKeyError(c) PROVE mm = call[cc].rec.pid
  BY <1>7 DEF CreateKeyError, Return, ReturnWith, SetCall, Idle, TypeOK, Machine, Listed
<1>8. ASSUME NEW c \in Callers, NEW m \in Machines, SpawnOK(c, m) PROVE mm = call[cc].rec.pid
  BY <1>8 DEF SpawnOK, Goto, SetCall, Idle, TypeOK, Machine, Listed
<1>9. ASSUME NEW c \in Callers, SpawnError(c) PROVE mm = call[cc].rec.pid
  BY <1>9 DEF SpawnError, Goto, SetCall, Idle, TypeOK, Machine, Listed
<1>10. ASSUME NEW c \in Callers, NEW m \in Machines, SpawnLost(c, m) PROVE mm = call[cc].rec.pid
  BY <1>10 DEF SpawnLost, Goto, SetCall, Idle, TypeOK, Machine, Listed
<1>11. ASSUME NEW c \in Callers, patchRecord(c) PROVE mm = call[cc].rec.pid
  BY <1>11 DEF patchRecord, Return, ReturnWith, SetCall, Idle, TypeOK, Machine, Listed
<1>12. ASSUME NEW c \in Callers, NEW i \in Ids, NEW force \in BOOLEAN, DestroyClaim(c, i, force) PROVE mm = call[cc].rec.pid
  BY <1>12 DEF DestroyClaim, Begin, SetCall, Idle, TypeOK, Machine, Listed
<1>13. ASSUME NEW c \in Callers, Terminate(c) PROVE mm = call[cc].rec.pid
  BY <1>13 DEF Terminate, Goto, SetCall, Idle, TypeOK, Machine, Listed
<1>14. ASSUME NEW c \in Callers, TerminateError(c) PROVE mm = call[cc].rec.pid
  BY <1>14 DEF TerminateError, Goto, SetCall, Idle, TypeOK, Machine, Listed
<1>15. ASSUME NEW c \in Callers, TerminateLost(c) PROVE mm = call[cc].rec.pid
  BY <1>15 DEF TerminateLost, Goto, SetCall, Idle, TypeOK, Machine, Listed
<1>16. ASSUME NEW c \in Callers, Settle(c) PROVE mm = call[cc].rec.pid
  BY <1>16 DEF Settle, Return, ReturnWith, SetCall, Idle, TypeOK, Machine, Listed
<1>17. ASSUME NEW c \in Callers, NEW i \in Ids, DescribeRead(c, i) PROVE mm = call[cc].rec.pid
  BY <1>17 DEF DescribeRead, Begin, SetCall, Idle, TypeOK, Machine, Listed
<1>18. ASSUME NEW c \in Callers, DescribeAnswer(c) PROVE mm = call[cc].rec.pid
  BY <1>18 DEF DescribeAnswer, Goto, SetCall, Idle, TypeOK, Machine, Listed
<1>19. ASSUME NEW c \in Callers, DescribeError(c) PROVE mm = call[cc].rec.pid
  BY <1>19 DEF DescribeError, Return, ReturnWith, SetCall, Idle, TypeOK, Machine, Listed
<1>20. ASSUME NEW c \in Callers, NEW i \in Ids, WaitRead(c, i) PROVE mm = call[cc].rec.pid
  BY <1>20 DEF WaitRead, Begin, SetCall, Idle, TypeOK, Machine, Listed
<1>21. ASSUME NEW c \in Callers, WaitReady(c) PROVE mm = call[cc].rec.pid
  BY <1>21 DEF WaitReady, Goto, SetCall, Idle, TypeOK, Machine, Listed
<1>22. ASSUME NEW c \in Callers, WaitError(c) PROVE mm = call[cc].rec.pid
  BY <1>22 DEF WaitError, Return, ReturnWith, SetCall, Idle, TypeOK, Machine, Listed
<1>23. ASSUME NEW c \in Callers, ListRead(c) PROVE mm = call[cc].rec.pid
  BY <1>23 DEF ListRead, SetCall, Idle, TypeOK, Machine, Listed
<1>24. ASSUME NEW c \in Callers, NEW i \in Ids, HealGone(c, i) PROVE mm = call[cc].rec.pid
  BY <1>24 DEF HealGone, Heal, SetCall, Idle, TypeOK, Machine, Listed
<1>25. ASSUME NEW c \in Callers, NEW i \in Ids, NEW m \in Machines, HealFound(c, i, m) PROVE mm = call[cc].rec.pid
  BY <1>25 DEF HealFound, Heal, SetCall, Idle, TypeOK, Machine, Listed
<1>26. ASSUME NEW c \in Callers, NEW i \in Ids, HealSkip(c, i) PROVE mm = call[cc].rec.pid
  BY <1>26 DEF HealSkip, ReturnWith, SetCall, Idle, TypeOK, Machine, Listed
<1>27. ASSUME NEW m \in Machines, Boot(m) PROVE mm = call[cc].rec.pid
  BY <1>27 DEF Boot
<1>28. ASSUME NEW m \in Machines, Lose(m) PROVE mm = call[cc].rec.pid
  BY <1>28 DEF Lose
<1>29. ASSUME NEW c \in Callers, Crash(c) PROVE mm = call[cc].rec.pid
  BY <1>29 DEF Crash, Idle, TypeOK, Machine, Listed
<1>30. CASE WipeState
  BY <1>30 DEF WipeState
<1>31. CASE UNCHANGED vars
  BY <1>31 DEF vars
<1>32. QED
  BY <1>1, <1>2, <1>3, <1>4, <1>5, <1>6, <1>7, <1>8, <1>9, <1>10,
     <1>11, <1>12, <1>13, <1>14, <1>15, <1>16, <1>17, <1>18, <1>19, <1>20,
     <1>21, <1>22, <1>23, <1>24, <1>25, <1>26, <1>27, <1>28, <1>29, <1>30,
     <1>31
     DEF Next, CallStep, CreateStep, AdoptStep, DestroyStep, ReadStep, ListStep, Environment

\* A destroy never releases a machine that was not rented for its own id.
THEOREM TerminatesOnlyOwn == Spec => TerminatesOwn
<1> DEFINE Own(c, m) == /\ call[c].pc = "terminate"
                        /\ call'[c].pc = "settle"
                        /\ m \in Listed
                        /\ cloud'[m].status = "gone"
                        => cloud[m].tag = call[c].id
<1>1. ASSUME TypeOK, Binding, [Next]_vars
      PROVE  [\A c \in Callers, m \in Machines : Own(c, m)]_vars
  BY <1>1, TerminateStep, ConstantsAssumption DEF Binding, Owned
<1>2. QED
  BY <1>1, TypeCorrect, BindingCorrect, PTL DEF Spec, TerminatesOwn

\* For any ids, machines, callers and faults, an id only ever points at machines
\* that were rented for it, and shares none with another id (FilterRefs'
\* re-check of the tags in CreateInstance, ListInstances and AdoptInstance).
THEOREM OwnMachineCorrect == Spec => []OwnMachine
<1>1. Binding /\ NoSharedMachine <=> OwnMachine
  BY DEF OwnMachine
<1>2. QED
  BY <1>1, BindingCorrect, SharedMachineFree, PTL

-----------------------------------------------------------------------------
(* One machine per id, as long as nothing is destroyed *)

\* The machines that accrue charges under the tag of id i.
RentedFor(i) == {m \in Machines : Rented(m) /\ cloud[m].tag = i}

\* The states of a record that CreateInstance does not claim again.
Live == {"PENDING", "ACTIVE"}

\* The circumstances in which NoDoubleRent speaks.
Quiet ==
    /\ Ops \subseteq {"create", "list", "wait"}
    /\ Faults \cap {"list", "describe", "exit"} = {}

NoneStopped == \A m \in Machines : cloud[m].status # "exited"

QuietFile ==
    \A i \in Ids : /\ file[i].st \in Live \cup {"NONE", "FAILED"}
                   /\ file[i].pid # None => file[i].st \in Live

\* What a create still knows about the account: nothing before it looked; the
\* one machine it found; that there is none when it is about to rent.
QuietCreate(k) ==
    /\ k.op = "create"
    /\ k.heal = NoHeal
    /\ k.id \in Ids
    /\ file[k.id].st \in Live
    /\ \/ k.pc = "lookup"
       \/ k.pc = "adopt" /\ RentedFor(k.id) \subseteq {k.rec.pid}
       \/ k.pc = "spawn" /\ RentedFor(k.id) = {} /\ k.rec.pid = None
       \/ k.pc = "patch" /\ (k.rec.st \in Live \/ (k.rec.st = "FAILED" /\ k.rec.pid = None))

QuietList(k) ==
    /\ k.op = "list"
    /\ \A i \in Ids : k.heal[i] \in {"NONE", "PENDING"}
    /\ \/ k.pc \in {"heal", "adopt"}
       \/ k.pc = "patch" /\ k.rec.st \in Live

QuietWait(k) ==
    /\ k.op = "wait"
    /\ k.heal = NoHeal
    /\ k.pc \in {"await", "patch"}
    /\ k.rec.st \in Live

QuietCall(k) == k = Idle \/ QuietCreate(k) \/ QuietList(k) \/ QuietWait(k)

QuietCalls == \A c \in Callers : QuietCall(call[c])

\* The PENDING record that a create claims keeps every other create of its id
\* away until it returns.
OneCreate ==
    \A c, d \in Callers :
        call[c].op = "create" /\ call[d].op = "create" /\ call[c].id = call[d].id => c = d

AtMostOne(i) == \A m, n \in RentedFor(i) : m = n

OneRental == \A i \in Ids : AtMostOne(i)

QuietState == NoneStopped /\ QuietFile /\ QuietCalls /\ OneCreate /\ OneRental

\* A call that moves on while the file and the account stay as they are, or the
\* account only shrinks, leaves the others as they were.
LEMMA QuietMoves ==
    ASSUME TypeOK, QuietState, UNCHANGED <<file, cloud>>,
           NEW c \in Callers, NEW k,
           call' = [call EXCEPT ![c] = k], QuietCall(k),
           k.op = "create" => call[c].op = "create" /\ call[c].id = k.id
    PROVE  QuietState'
<1>1. \A i : RentedFor(i)' = RentedFor(i)
  BY DEF RentedFor, Rented
<1>2. \A d \in Callers : call'[d] = IF d = c THEN k ELSE call[d]
  BY DEF TypeOK
<1>3. ASSUME NEW d \in Callers PROVE QuietCall(call[d])'
  <2>1. QuietCall(call'[d])
    BY <1>2 DEF QuietState, QuietCalls
  <2>2. QED
    BY <1>1, <2>1 DEF QuietCall, QuietCreate, QuietList, QuietWait
<1>4. QuietCalls'
  BY <1>3 DEF QuietCalls
<1>5. OneCreate'
  BY <1>2 DEF QuietState, OneCreate
<1>6. QED
  BY <1>1, <1>4, <1>5 DEF QuietState, NoneStopped, QuietFile, OneRental, AtMostOne

\* A call that returns is over, or goes on with PENDING records to heal.
LEMMA QuietReturns ==
    ASSUME TypeOK, QuietState, UNCHANGED <<file, cloud>>,
           NEW c \in Callers, NEW h, ReturnWith(c, h),
           \/ h = NoHeal
           \/ call[c].op = "list" /\ \A i \in Ids : h[i] \in {"NONE", "PENDING"}
    PROVE  QuietState'
<1>1. CASE h = NoHeal
  <2>1. call' = [call EXCEPT ![c] = Idle]
    BY <1>1 DEF ReturnWith
  <2>2. QED
    BY <2>1, QuietMoves DEF QuietCall, Idle
<1>2. CASE h # NoHeal
  <2> DEFINE k == [op |-> "list", pc |-> "heal", id |-> None, rec |-> NoRecord, heal |-> h]
  <2>1. call' = [call EXCEPT ![c] = k]
    BY <1>2 DEF ReturnWith, SetCall
  <2>2. QuietCall(k) /\ k.op # "create"
    BY <1>2 DEF QuietCall, QuietList
  <2> HIDE DEF k
  <2>3. QED
    BY <2>1, <2>2, QuietMoves
<1>3. QED
  BY <1>1, <1>2

\* Machines that boot or leave the account take nothing away from what the
\* calls know.
LEMMA QuietShrinks ==
    ASSUME TypeOK, QuietState, UNCHANGED <<file, call>>, NoneStopped',
           \A i : RentedFor(i)' \subseteq RentedFor(i)
    PROVE  QuietState'
<1>1. ASSUME NEW d \in Callers PROVE QuietCall(call[d])'
  BY DEF QuietState, QuietCalls, QuietCall, QuietCreate, QuietList, QuietWait
<1>2. QED
  BY <1>1 DEF QuietState, QuietFile, QuietCalls, OneCreate, OneRental, AtMostOne

\* What the pc of a call says about it.
LEMMA QuietShape ==
    ASSUME QuietState, NEW c \in Callers
    PROVE  /\ call[c].pc \in {"lookup", "spawn"} => QuietCreate(call[c])
           /\ call[c].pc = "adopt" => QuietCreate(call[c]) \/ QuietList(call[c])
           /\ call[c].pc = "heal" => QuietList(call[c])
           /\ call[c].pc = "await" => QuietWait(call[c])
           /\ call[c].pc \notin {"terminate", "settle", "probe"}
  BY DEF QuietState, QuietCalls, QuietCall, QuietCreate, QuietList, QuietWait, Idle

\* The call returns when all it wrote is in the file: a live record of whatever
\* id, or the FAILED one of its own create.
LEMMA QuietPatches ==
    ASSUME TypeOK, QuietState, NEW c \in Callers, patchRecord(c)
    PROVE  QuietState'
<1>1. \A i : RentedFor(i)' = RentedFor(i)
  BY DEF patchRecord, RentedFor, Rented
<1>2. call[c].rec.st \in Live \/ QuietCreate(call[c])
  BY DEF patchRecord, QuietState, QuietCalls, QuietCall, QuietCreate, QuietList, QuietWait, Idle
<1>3. call[c].rec.pid # None => call[c].rec.st \in Live
  BY DEF patchRecord, QuietState, QuietCalls, QuietCall, QuietCreate, QuietList, QuietWait, Idle
<1>4. call[c].rec.st \in Live \cup {"FAILED"}
  BY DEF patchRecord, QuietState, QuietCalls, QuietCall, QuietCreate, QuietList, QuietWait, Idle
<1>5. \A i \in Ids : file'[i] = IF i = call[c].id THEN call[c].rec ELSE file[i]
  BY DEF patchRecord, TypeOK
<1>6. QuietFile'
  BY <1>3, <1>4, <1>5 DEF QuietState, QuietFile
<1>7. call[c].heal = NoHeal \/ QuietList(call[c])
  BY DEF patchRecord, QuietState, QuietCalls, QuietCall, QuietCreate, QuietList, QuietWait, Idle
<1>8. /\ \A d \in Callers \ {c} : call'[d] = call[d]
      /\ \/ call'[c] = Idle
         \/ /\ call[c].op = "list"
            /\ call'[c] = [op |-> "list", pc |-> "heal", id |-> None, rec |-> NoRecord,
                           heal |-> call[c].heal]
  BY <1>7 DEF patchRecord, Return, ReturnWith, SetCall, TypeOK, QuietList
<1>9. QuietCall(call[c])'
  <2>1. CASE call'[c] = Idle
    BY <2>1 DEF QuietCall, Idle
  <2>2. CASE call'[c] # Idle
    BY <2>2, <1>7, <1>8 DEF QuietCall, QuietList, NoHeal
  <2>3. QED
    BY <2>1, <2>2
<1>10. ASSUME NEW d \in Callers \ {c} PROVE QuietCall(call[d])'
  <2>1. QuietCall(call[d]) /\ call'[d] = call[d]
    BY <1>8 DEF QuietState, QuietCalls
  <2>2. CASE QuietCreate(call[d])
    <3>1. file'[call[d].id].st \in Live
      BY <1>2, <1>5, <2>2 DEF QuietCreate, QuietState, OneCreate
    <3>2. QED
      BY <1>1, <2>1, <2>2, <3>1 DEF QuietCall, QuietCreate
  <2>3. CASE ~QuietCreate(call[d])
    BY <2>1, <2>3 DEF QuietCall, QuietList, QuietWait
  <2>4. QED
    BY <2>2, <2>3
<1>11. OneCreate'
  BY <1>8 DEF QuietState, OneCreate, Idle
<1>12. NoneStopped' /\ OneRental'
  BY <1>1 DEF patchRecord, QuietState, NoneStopped, OneRental, AtMostOne
<1>13. QED
  BY <1>6, <1>9, <1>10, <1>11, <1>12 DEF QuietState, QuietCalls

\* A claim is made only where no create is under way.
LEMMA QuietClaims ==
    ASSUME TypeOK, QuietState, NEW c \in Callers, NEW i \in Ids, CreateClaim(c, i)
    PROVE  QuietState'
<1>1. \A j : RentedFor(j)' = RentedFor(j)
  BY DEF CreateClaim, RentedFor, Rented
<1>2. \A d \in Callers : call[d].op = "create" => call[d].id # i
  BY DEF CreateClaim, QuietState, QuietCalls, QuietCall, QuietCreate, QuietList, QuietWait, Idle, Live
<1>3. \A j \in Ids : file'[j] = IF j = i THEN newPendingInstance ELSE file[j]
  BY DEF CreateClaim, TypeOK
<1>4. QuietFile'
  BY <1>3 DEF QuietState, QuietFile, newPendingInstance, Live
<1>5. /\ \A d \in Callers \ {c} : call'[d] = call[d]
      /\ call'[c] = [op |-> "create", pc |-> "lookup", id |-> i, rec |-> newPendingInstance,
                     heal |-> NoHeal]
  BY DEF CreateClaim, Begin, SetCall, TypeOK
<1>6. QuietCall(call[c])'
  BY <1>3, <1>5 DEF QuietCall, QuietCreate, newPendingInstance, Live
<1>7. ASSUME NEW d \in Callers \ {c} PROVE QuietCall(call[d])'
  <2>1. QuietCall(call[d]) /\ call'[d] = call[d]
    BY <1>5 DEF QuietState, QuietCalls
  <2>2. CASE QuietCreate(call[d])
    <3>1. file'[call[d].id].st \in Live
      BY <1>2, <1>3, <2>2 DEF QuietCreate
    <3>2. QED
      BY <1>1, <2>1, <2>2, <3>1 DEF QuietCall, QuietCreate
  <2>3. CASE ~QuietCreate(call[d])
    BY <2>1, <2>3 DEF QuietCall, QuietList, QuietWait
  <2>4. QED
    BY <2>2, <2>3
<1>8. OneCreate'
  BY <1>2, <1>5 DEF QuietState, OneCreate
<1>9. NoneStopped' /\ OneRental'
  BY <1>1 DEF CreateClaim, QuietState, NoneStopped, OneRental, AtMostOne
<1>10. QED
  BY <1>4, <1>6, <1>7, <1>8, <1>9 DEF QuietState, QuietCalls

\* A create rents when its id has no machine, and no other create of the id is
\* under way to rent as well.
LEMMA QuietRents ==
    ASSUME TypeOK, QuietState, NEW c \in Callers, NEW m \in Machines,
           call[c].pc = "spawn", UNCHANGED file,
           cloud' = [cloud EXCEPT ![m] = [status |-> "booting", tag |-> call[c].id]],
           NEW r, r.st \in Live \/ (r.st = "FAILED" /\ r.pid = None),
           Goto(c, "patch", r)
    PROVE  QuietState'
<1>1. QuietCreate(call[c])
  BY QuietShape
<1>2. \A j : RentedFor(j)' \subseteq RentedFor(j) \cup (IF j = call[c].id THEN {m} ELSE {})
  BY DEF RentedFor, Rented, TypeOK, Machine
<1>3. RentedFor(call[c].id) = {}
  BY <1>1 DEF QuietCreate
<1>4. /\ \A d \in Callers \ {c} : call'[d] = call[d]
      /\ call'[c] = [op |-> "create", pc |-> "patch", id |-> call[c].id, rec |-> r,
                     heal |-> NoHeal]
  BY <1>1 DEF Goto, SetCall, TypeOK, QuietCreate
<1>5. QuietCall(call[c])'
  BY <1>1, <1>4 DEF QuietCall, QuietCreate
<1>6. ASSUME NEW d \in Callers \ {c} PROVE QuietCall(call[d])'
  <2>1. QuietCall(call[d]) /\ call'[d] = call[d]
    BY <1>4 DEF QuietState, QuietCalls
  <2>2. CASE QuietCreate(call[d])
    <3>1. call[d].id # call[c].id
      BY <1>1, <2>2 DEF QuietCreate, QuietState, OneCreate
    <3>2. \A j : j = call[d].id => RentedFor(j)' \subseteq RentedFor(j)
      BY <1>2, <3>1
    <3>3. QED
      BY <2>1, <2>2, <3>2 DEF QuietCall, QuietCreate
  <2>3. CASE ~QuietCreate(call[d])
    BY <2>1, <2>3 DEF QuietCall, QuietList, QuietWait
  <2>4. QED
    BY <2>2, <2>3
<1>7. OneCreate'
  BY <1>1, <1>4 DEF QuietState, OneCreate, QuietCreate
<1>8. OneRental'
  <2>1. ASSUME NEW i \in Ids PROVE AtMostOne(i)'
    BY <1>2, <1>3 DEF QuietState, OneRental, AtMostOne
  <2>2. QED
    BY <2>1 DEF OneRental
<1>9. NoneStopped' /\ QuietFile'
  BY DEF QuietState, NoneStopped, QuietFile, TypeOK, Machine
<1>10. QED
  BY <1>5, <1>6, <1>7, <1>8, <1>9 DEF QuietState, QuietCalls

\* Every step leaves the state quiet, when the adapters count booting and
\* running machines as active.
LEMMA QuietStep ==
    ASSUME TypeOK, QuietState, Quiet, [Next]_vars, Adoptable = {"booting", "running"}
    PROVE  QuietState'
<1>0. /\ {"destroy", "force", "describe"} \cap Ops = {}
      /\ "list" \notin Faults /\ "describe" \notin Faults /\ "exit" \notin Faults
  BY DEF Quiet
<1>1. ASSUME NEW c \in Callers, NEW i \in Ids, CreateClaim(c, i) PROVE QuietState'
  BY <1>1, QuietClaims
<1>2. ASSUME NEW c \in Callers, NEW m \in Machines, CreateFound(c, m) PROVE QuietState'
  <2> DEFINE k == [op |-> call[c].op, pc |-> "adopt", id |-> call[c].id, rec |-> Found(m),
                   heal |-> call[c].heal]
  <2>1. call' = [call EXCEPT ![c] = k] /\ QuietCreate(call[c])
    BY <1>2, QuietShape DEF CreateFound, Goto, SetCall
  <2>2. m \in RentedFor(call[c].id)
    BY <1>2 DEF CreateFound, FilterRefs, Listed, RentedFor, Rented
  <2>3. QuietCreate(k)
    BY <2>1, <2>2 DEF QuietCreate, QuietState, OneRental, AtMostOne, Found
  <2>4. k.op = call[c].op /\ k.id = call[c].id
    OBVIOUS
  <2>5. UNCHANGED <<file, cloud>>
    BY <1>2 DEF CreateFound
  <2> HIDE DEF k
  <2>6. QED
    BY <2>1, <2>3, <2>4, <2>5, QuietMoves DEF QuietCall
<1>3. ASSUME NEW c \in Callers, CreateMiss(c) PROVE QuietState'
  <2> DEFINE k == [op |-> call[c].op, pc |-> "spawn", id |-> call[c].id, rec |-> newPendingInstance,
                   heal |-> call[c].heal]
  <2>1. call' = [call EXCEPT ![c] = k] /\ QuietCreate(call[c])
    BY <1>3, QuietShape DEF CreateMiss, Goto, SetCall
  <2>2. RentedFor(call[c].id) = {}
    BY <1>3, <1>0 DEF CreateMiss, FilterRefs, Listed, RentedFor, Rented
  <2>3. QuietCreate(k)
    BY <2>1, <2>2 DEF QuietCreate, newPendingInstance
  <2>4. k.op = call[c].op /\ k.id = call[c].id
    OBVIOUS
  <2>5. UNCHANGED <<file, cloud>>
    BY <1>3 DEF CreateMiss
  <2> HIDE DEF k
  <2>6. QED
    BY <2>1, <2>3, <2>4, <2>5, QuietMoves DEF QuietCall
<1>4. ASSUME NEW c \in Callers, Adopt(c) PROVE QuietState'
  <2> DEFINE r == [st |-> Reported(call[c].rec.pid), pid |-> call[c].rec.pid]
             k == [op |-> call[c].op, pc |-> "patch", id |-> call[c].id, rec |-> r,
                   heal |-> call[c].heal]
  <2>1. call' = [call EXCEPT ![c] = k] /\ (QuietCreate(call[c]) \/ QuietList(call[c]))
    BY <1>4, QuietShape DEF Adopt, Goto, SetCall
  <2>2. Reported(call[c].rec.pid) \in Live
    BY <1>4 DEF Adopt, Listed, Reported, Live, QuietState, NoneStopped
  <2>4. /\ k.op = call[c].op /\ k.id = call[c].id /\ k.heal = call[c].heal
        /\ k.pc = "patch" /\ k.rec.st \in Live
    BY <2>2
  <2>5. UNCHANGED <<file, cloud>>
    BY <1>4 DEF Adopt
  <2> HIDE DEF k
  <2>6. QuietCreate(k) \/ QuietList(k)
    <3>1. CASE QuietCreate(call[c])
      BY <2>4, <3>1 DEF QuietCreate
    <3>2. CASE QuietList(call[c])
      BY <2>4, <3>2 DEF QuietList
    <3>3. QED
      BY <2>1, <3>1, <3>2
  <2>7. QED
    BY <2>1, <2>4, <2>5, <2>6, QuietMoves DEF QuietCall
<1>g. ASSUME NEW c \in Callers, AdoptFails(c), call[c].op = "create"
      PROVE  QuietCreate(call[c]) /\ RentedFor(call[c].id) = {}
  <2>1. QuietCreate(call[c])
    BY <1>g, QuietShape DEF AdoptFails, QuietList
  <2>2. QED
    BY <1>g, <1>0, <2>1 DEF AdoptFails, QuietCreate, RentedFor, Rented, Listed
<1>5. ASSUME NEW c \in Callers, NEW m \in Machines, AdoptNext(c, m) PROVE QuietState'
  BY <1>5, <1>g DEF AdoptNext, FilterRefs, Listed, RentedFor, Rented
<1>6. ASSUME NEW c \in Callers, AdoptError(c) PROVE QuietState'
  <2>1. CASE call[c].op = "create"
    <3> DEFINE k == [op |-> call[c].op, pc |-> "spawn", id |-> call[c].id,
                     rec |-> newPendingInstance, heal |-> call[c].heal]
    <3>1. call' = [call EXCEPT ![c] = k] /\ UNCHANGED <<file, cloud>>
      BY <1>6, <2>1 DEF AdoptError, Goto, SetCall
    <3>2. QuietCreate(k)
      BY <1>6, <1>g, <2>1 DEF AdoptError, QuietCreate, newPendingInstance
    <3>3. k.op = call[c].op /\ k.id = call[c].id
      OBVIOUS
    <3> HIDE DEF k
    <3>4. QED
      BY <3>1, <3>2, <3>3, QuietMoves DEF QuietCall
  <2>2. CASE call[c].op = "list"
    BY <1>6, <2>2, QuietShape, QuietReturns DEF AdoptError, AdoptFails, Return, QuietCreate, QuietList
  <2>3. QED
    BY <1>6, <2>1, <2>2 DEF AdoptError
<1>7. ASSUME NEW c \in Callers, CreateKeyError(c) PROVE QuietState'
  BY <1>7, QuietShape, QuietReturns DEF CreateKeyError, Return, QuietCreate
<1>8. ASSUME NEW c \in Callers, NEW m \in Machines, SpawnOK(c, m) PROVE QuietState'
  <2>1. PICK s \in {"PENDING", "ACTIVE"} : Goto(c, "patch", [st |-> s, pid |-> m])
    BY <1>8 DEF SpawnOK
  <2>2. PICK r : r = [st |-> s, pid |-> m]
    OBVIOUS
  <2>3. r.st \in Live /\ Goto(c, "patch", r)
    BY <2>1, <2>2 DEF Live
  <2>4. /\ call[c].pc = "spawn"
        /\ UNCHANGED file
        /\ cloud' = [cloud EXCEPT ![m] = [status |-> "booting", tag |-> call[c].id]]
    BY <1>8 DEF SpawnOK
  <2>5. QED
    BY <2>3, <2>4, QuietRents
<1>e. ASSUME NEW c \in Callers, call[c].pc = "spawn"
      PROVE  QuietCreate(call[c]) /\ call[c].rec.pid = None
  BY <1>e, QuietShape DEF QuietCreate
<1>9. ASSUME NEW c \in Callers, SpawnError(c) PROVE QuietState'
  <2> DEFINE r == [st |-> "FAILED", pid |-> call[c].rec.pid]
             k == [op |-> call[c].op, pc |-> "patch", id |-> call[c].id, rec |-> r,
                   heal |-> call[c].heal]
  <2>1. call' = [call EXCEPT ![c] = k] /\ UNCHANGED <<file, cloud>>
    BY <1>9 DEF SpawnError, Goto, SetCall
  <2>2. QuietCreate(k)
    BY <1>9, <1>e DEF SpawnError, QuietCreate
  <2>3. k.op = call[c].op /\ k.id = call[c].id
    OBVIOUS
  <2> HIDE DEF k
  <2>4. QED
    BY <1>9, <1>e, <2>1, <2>2, <2>3, QuietMoves DEF QuietCall
<1>10. ASSUME NEW c \in Callers, NEW m \in Machines, SpawnLost(c, m) PROVE QuietState'
  BY <1>10, <1>e, QuietRents DEF SpawnLost
<1>11. ASSUME NEW c \in Callers, patchRecord(c) PROVE QuietState'
  BY <1>11, QuietPatches
<1>12. ASSUME NEW c \in Callers, NEW i \in Ids, NEW force \in BOOLEAN, DestroyClaim(c, i, force) PROVE QuietState'
  BY <1>12, <1>0 DEF DestroyClaim
<1>13. ASSUME NEW c \in Callers,
              \/ Terminate(c) \/ TerminateError(c) \/ TerminateLost(c)
              \/ Settle(c) \/ DescribeAnswer(c) \/ DescribeError(c)
       PROVE QuietState'
  BY <1>13, QuietShape
     DEF Terminate, TerminateError, TerminateLost, Settle, DescribeAnswer, DescribeError
<1>17. ASSUME NEW c \in Callers, NEW i \in Ids, DescribeRead(c, i) PROVE QuietState'
  BY <1>17, <1>0 DEF DescribeRead
<1>20. ASSUME NEW c \in Callers, NEW i \in Ids, WaitRead(c, i) PROVE QuietState'
  <2> DEFINE k == [op |-> "wait", pc |-> "await", id |-> i, rec |-> file[i], heal |-> NoHeal]
  <2>1. call' = [call EXCEPT ![c] = k] /\ UNCHANGED <<file, cloud>>
    BY <1>20 DEF WaitRead, Begin, SetCall
  <2>2. QuietWait(k) /\ k.op # "create"
    BY <1>20 DEF WaitRead, QuietWait, QuietState, QuietFile
  <2> HIDE DEF k
  <2>3. QED
    BY <2>1, <2>2, QuietMoves DEF QuietCall
<1>21. ASSUME NEW c \in Callers, WaitReady(c) PROVE QuietState'
  <2> DEFINE k == [op |-> call[c].op, pc |-> "patch", id |-> call[c].id, rec |-> call[c].rec,
                   heal |-> call[c].heal]
  <2>1. call' = [call EXCEPT ![c] = k] /\ UNCHANGED <<file, cloud>>
    BY <1>21 DEF WaitReady, Goto, SetCall
  <2>2. QuietWait(call[c])
    BY <1>21, QuietShape DEF WaitReady
  <2>3. QuietWait(k) /\ k.op # "create"
    BY <2>2 DEF QuietWait
  <2> HIDE DEF k
  <2>4. QED
    BY <2>1, <2>3, QuietMoves DEF QuietCall
<1>22. ASSUME NEW c \in Callers, WaitError(c) PROVE QuietState'
  BY <1>22, QuietShape, QuietReturns DEF WaitError, Return, QuietWait
<1>23. ASSUME NEW c \in Callers, ListRead(c) PROVE QuietState'
  <2> DEFINE h == [i \in Ids |-> IF file[i].st \in Healable THEN file[i].st ELSE "NONE"]
             k == [op |-> "list", pc |-> "heal", id |-> None, rec |-> NoRecord, heal |-> h]
  <2>1. call' = [call EXCEPT ![c] = k] /\ UNCHANGED <<file, cloud>>
    BY <1>23 DEF ListRead, SetCall
  <2>2. \A i \in Ids : h[i] \in {"NONE", "PENDING"}
    BY DEF QuietState, QuietFile, Healable, Live
  <2> HIDE DEF h
  <2>3. QuietList(k) /\ k.op # "create"
    BY <2>2 DEF QuietList
  <2> HIDE DEF k
  <2>4. QED
    BY <2>1, <2>3, QuietMoves DEF QuietCall
<1>h. ASSUME NEW c \in Callers, NEW i \in Ids, call[c].pc = "heal"
      PROVE  /\ QuietList(call[c])
             /\ \A j \in Ids : [call[c].heal EXCEPT ![i] = "NONE"][j] \in {"NONE", "PENDING"}
  BY <1>h, QuietShape, CallFields DEF QuietList
<1>24. ASSUME NEW c \in Callers, NEW i \in Ids, HealGone(c, i) PROVE QuietState'
  BY <1>24, QuietShape DEF HealGone, QuietList
<1>25. ASSUME NEW c \in Callers, NEW i \in Ids, NEW m \in Machines, HealFound(c, i, m) PROVE QuietState'
  <2> DEFINE k == [op |-> "list", pc |-> "adopt", id |-> i, rec |-> Found(m),
                   heal |-> [call[c].heal EXCEPT ![i] = "NONE"]]
  <2>1. call' = [call EXCEPT ![c] = k] /\ UNCHANGED <<file, cloud>>
    BY <1>25 DEF HealFound, Heal, SetCall
  <2>2. QuietList(k) /\ k.op # "create"
    BY <1>25, <1>h DEF HealFound, QuietList
  <2> HIDE DEF k
  <2>3. QED
    BY <2>1, <2>2, QuietMoves DEF QuietCall
<1>26. ASSUME NEW c \in Callers, NEW i \in Ids, HealSkip(c, i) PROVE QuietState'
  BY <1>26, <1>h, QuietReturns DEF HealSkip, QuietList
<1>27. ASSUME NEW m \in Machines, Boot(m) \/ Lose(m) PROVE QuietState'
  <2>1. NoneStopped' /\ UNCHANGED <<file, call>>
    BY <1>27, <1>0 DEF Boot, Lose, QuietState, NoneStopped, TypeOK, Machine
  <2>2. \A i : RentedFor(i)' \subseteq RentedFor(i)
    BY <1>27, <1>0 DEF Boot, Lose, RentedFor, Rented, TypeOK, Machine
  <2>3. QED
    BY <2>1, <2>2, QuietShrinks
<1>29. ASSUME NEW c \in Callers, Crash(c) PROVE QuietState'
  BY <1>29, QuietMoves DEF Crash, QuietCall, Idle
<1>30. CASE WipeState
  <2>1. QuietFile'
    BY <1>30 DEF WipeState, QuietFile, NoRecord
  <2>2. QuietCalls' /\ OneCreate'
    BY <1>30 DEF WipeState, QuietCalls, QuietCall, OneCreate, Idle
  <2>3. NoneStopped' /\ OneRental'
    BY <1>30 DEF WipeState, QuietState, NoneStopped, OneRental, AtMostOne, RentedFor, Rented
  <2>4. QED
    BY <2>1, <2>2, <2>3 DEF QuietState
<1>31. CASE UNCHANGED vars
  <2>1. NoneStopped' /\ UNCHANGED <<file, call>>
    BY <1>31 DEF vars, QuietState, NoneStopped
  <2>2. \A i : RentedFor(i)' \subseteq RentedFor(i)
    BY <1>31 DEF vars, RentedFor, Rented
  <2>3. QED
    BY <2>1, <2>2, QuietShrinks
<1>32. QED
  BY <1>1, <1>2, <1>3, <1>4, <1>5, <1>6, <1>7, <1>8, <1>9, <1>10,
     <1>11, <1>12, <1>13, <1>17, <1>20, <1>21, <1>22, <1>23, <1>24, <1>25,
     <1>26, <1>27, <1>29, <1>30, <1>31
     DEF Next, CallStep, CreateStep, AdoptStep, DestroyStep, ReadStep, ListStep, Environment

\* At the start an id has at most the machine of its old deployment record.
LEMMA RentedAtFirst ==
    ASSUME Init
    PROVE  /\ NoneStopped
           /\ \A i \in Ids : RentedFor(i) \subseteq {LegacyPod[i]}
<1>1. \A m \in Machines : cloud[m].status # "exited"
  BY DEF Init
<1>2. ASSUME NEW i \in Ids, NEW m \in RentedFor(i) PROVE m = LegacyPod[i]
  BY <1>2, ConstantsAssumption DEF Init, RentedFor, Rented
<1>3. QED
  BY <1>1, <1>2 DEF NoneStopped

\* However often creates of an id are repeated, overlap, crash, lose the answer
\* of Spawn or the state file, the id has one machine at most, when the
\* adapters count booting and running machines as active (all do).
THEOREM NoDoubleRentCorrect ==
    ASSUME Adoptable = {"booting", "running"} PROVE Spec => []NoDoubleRent
<1>1. Init => TypeOK
  BY IdleType DEF Init, TypeOK
<1>2. Init => QuietState
  <2> SUFFICES ASSUME Init PROVE QuietState
    OBVIOUS
  <2>1. NoneStopped /\ OneRental
    BY RentedAtFirst DEF OneRental, AtMostOne
  <2>2. QuietFile
    BY DEF Init, QuietFile, newPendingInstance, NoRecord, Live
  <2>3. QuietCalls /\ OneCreate
    BY DEF Init, QuietCalls, QuietCall, OneCreate, Idle
  <2>4. QED
    BY <2>1, <2>2, <2>3 DEF QuietState
<1>3. ASSUME TypeOK, Quiet => QuietState, [Next]_vars
      PROVE  TypeOK' /\ (Quiet => QuietState)'
  <2>1. Quiet' => Quiet
    BY <1>3, ScenarioKept DEF Quiet, Ops, Faults
  <2>2. QED
    BY <1>3, <2>1, TypeStep, QuietStep
<1>4. ASSUME TypeOK, Quiet => QuietState PROVE NoDoubleRent
  <2>1. CASE Quiet
    <3>1. ASSUME NEW m \in Machines, NEW n \in Machines, Rented(m), Rented(n),
                 cloud[m].tag = cloud[n].tag, cloud[m].tag # None
          PROVE  m = n
      <4>1. cloud[m].tag \in Ids
        BY <1>4, <3>1 DEF TypeOK, Machine
      <4>2. m \in RentedFor(cloud[m].tag) /\ n \in RentedFor(cloud[m].tag)
        BY <3>1 DEF RentedFor
      <4>3. QED
        BY <1>4, <2>1, <4>1, <4>2 DEF QuietState, OneRental, AtMostOne
    <3>2. QED
      BY <3>1 DEF NoDoubleRent
  <2>2. CASE ~Quiet
    BY <2>2 DEF Quiet, NoDoubleRent
  <2>3. QED
    BY <2>1, <2>2
<1>5. QED
  BY <1>1, <1>2, <1>3, <1>4, PTL DEF Spec

-----------------------------------------------------------------------------
(* TERMINATED means gone, when one call runs at a time *)

\* The circumstances in which TerminatedMeansGone speaks.
Alone ==
    /\ scenario.calls = 1
    /\ "force" \notin Ops
    /\ Faults \subseteq {"key", "terminate", "vanish"}

Ended == {"NONE", "TERMINATED"}

\* What the call in flight knows about the machines of its id.
AloneCall(k) ==
    \/ k = Idle
    \/ /\ k.op = "list"
       /\ k.pc = "heal"
    \/ /\ k.id \in Ids
       /\ k.op # "list" => k.heal = NoHeal
       /\ \/ k.op = "create" /\ k.pc = "lookup" /\ AtMostOne(k.id)
          \/ k.op \in {"create", "list"} /\ k.pc = "adopt" /\ RentedFor(k.id) \subseteq {k.rec.pid}
          \/ k.op = "create" /\ k.pc = "spawn" /\ RentedFor(k.id) = {}
          \/ /\ k.op \in {"describe", "wait"}
             /\ k.pc \in {"probe", "await"}
             /\ k.rec = file[k.id] /\ k.rec.pid # None
          \/ k.op = "destroy" /\ k.pc = "terminate" /\ RentedFor(k.id) \subseteq {k.rec.pid}
          \/ /\ k.pc = "patch"
             /\ RentedFor(k.id) \subseteq {k.rec.pid}
             /\ k.rec.st \in Ended => RentedFor(k.id) = {}
          \/ /\ k.op \in {"destroy", "list"}
             /\ k.pc = "settle"
             /\ k.rec.st \in Ended => RentedFor(k.id) = {}

\* What a record says of the machines of its id.
AloneRecord(i) ==
    /\ RentedFor(i) \subseteq {Target(i)}
    /\ file[i].st \in Ended => RentedFor(i) = {}

OneCall == \A c, d \in Callers : call[c] # Idle /\ call[d] # Idle => c = d

AloneCalls == \A c \in Callers : AloneCall(call[c])

\* A record says so, unless the call in flight is a create of the id.
AloneRecords ==
    \A i \in Ids :
        \/ \E c \in Callers : call[c].op = "create" /\ call[c].id = i
        \/ AloneRecord(i)

AloneState == NoneStopped /\ OneCall /\ AloneCalls /\ AloneRecords

\* A call begins when no other is in flight.
LEMMA BeginsAlone ==
    ASSUME Alone, NEW c \in Callers, CanBegin(c)
    PROVE  \A d \in Callers : call[d] = Idle
<1> DEFINE busy == {d \in Callers : call[d] # Idle}
<1>1. IsFiniteSet(busy)
  BY ConstantsAssumption, FS_Subset
<1>2. Cardinality(busy) < 1
  BY DEF CanBegin, Alone
<1>3. busy = {}
  <2>1. Cardinality(busy) \in Nat
    BY <1>1, FS_CardinalityType
  <2>2. Cardinality(busy) = 0
    BY <1>2, <2>1
  <2>3. QED
    BY <1>1, <2>2, FS_EmptySet
<1>4. QED
  BY <1>3

Others(c) == \A d \in Callers \ {c} : call[d] = Idle

\* No call but c's is in flight: c's is, or c begins one.
LEMMA SoleCaller ==
    ASSUME Alone, AloneState, NEW c \in Callers, CanBegin(c) \/ call[c].pc # "idle"
    PROVE  Others(c)
<1>1. CASE CanBegin(c)
  BY <1>1, BeginsAlone DEF Others
<1>2. CASE call[c].pc # "idle"
  BY <1>2 DEF Others, AloneState, OneCall, Idle
<1>3. QED
  BY <1>1, <1>2

\* What is left to show for a step of the only call.
LEMMA AloneMoves ==
    ASSUME TypeOK, NEW c \in Callers, Others(c), NEW k,
           call' = [call EXCEPT ![c] = k], AloneCall(call[c])', NoneStopped',
           \A i \in Ids : (k.op = "create" /\ k.id = i) \/ AloneRecord(i)'
    PROVE  AloneState'
<1>1. call'[c] = k /\ \A d \in Callers \ {c} : call'[d] = Idle
  BY DEF Others, TypeOK
<1>2. OneCall'
  BY <1>1 DEF OneCall
<1>3. AloneCalls'
  <2>1. ASSUME NEW d \in Callers \ {c} PROVE AloneCall(call[d])'
    BY <1>1 DEF AloneCall, Idle
  <2>2. QED
    BY <2>1 DEF AloneCalls
<1>4. AloneRecords'
  BY <1>1 DEF AloneRecords
<1>5. QED
  BY <1>2, <1>3, <1>4 DEF AloneState

\* The same for a step that leaves the file and the account alone.
LEMMA AloneReads ==
    ASSUME TypeOK, AloneState, NEW c \in Callers, Others(c), NEW k,
           UNCHANGED <<file, cloud, scenario>>,
           call' = [call EXCEPT ![c] = k], AloneCall(k),
           call[c].op = "create" =>
               (k.op = "create" /\ k.id = call[c].id) \/ AloneRecord(call[c].id)
    PROVE  AloneState'
<1>1. \A i : RentedFor(i)' = RentedFor(i)
  BY DEF RentedFor, Rented
<1>2. \A i : AloneRecord(i) => AloneRecord(i)'
  BY <1>1 DEF AloneRecord, Target, LegacyPod
<1>3. call'[c] = k
  BY DEF TypeOK
<1>4. AloneCall(call[c])'
  BY <1>1, <1>3 DEF AloneCall, AtMostOne
<1>5. NoneStopped'
  BY DEF AloneState, NoneStopped
<1>6. ASSUME NEW i \in Ids PROVE (k.op = "create" /\ k.id = i) \/ AloneRecord(i)'
  <2>1. CASE call[c].op = "create" /\ call[c].id = i
    BY <1>2, <2>1
  <2>2. CASE ~(call[c].op = "create" /\ call[c].id = i)
    <3>1. AloneRecord(i)
      BY <2>2 DEF AloneState, AloneRecords, Others, Idle
    <3>2. QED
      BY <1>2, <3>1
  <2>3. QED
    BY <2>1, <2>2
<1>7. QED
  BY <1>4, <1>5, <1>6, AloneMoves

\* A call that is not a create leaves every record true to the account.
LEMMA RecordsKnown ==
    ASSUME AloneState, NEW c \in Callers, Others(c), NEW i \in Ids,
           ~(call[c].op = "create" /\ call[c].id = i)
    PROVE  AloneRecord(i)
  BY DEF AloneState, AloneRecords, Others, Idle

\* A return from a call that is over, or from one record of a listing.
LEMMA AloneReturns ==
    ASSUME TypeOK, AloneState, NEW c \in Callers, Others(c), NEW h, ReturnWith(c, h),
           h = NoHeal \/ call[c].op = "list",
           UNCHANGED <<file, cloud, scenario>>,
           call[c].op = "create" => AloneRecord(call[c].id)
    PROVE  AloneState'
<1>1. PICK k : /\ call' = [call EXCEPT ![c] = k]
               /\ k = IF h = NoHeal THEN Idle
                      ELSE [op |-> call[c].op, pc |-> "heal", id |-> None, rec |-> NoRecord,
                            heal |-> h]
  BY DEF ReturnWith, SetCall
<1>2. AloneCall(k)
  BY <1>1 DEF AloneCall, Idle
<1>3. QED
  BY <1>1, <1>2, AloneReads

\* The machines of the account that are not stopped are the rented ones.
LEMMA ListedIsRented ==
    ASSUME NoneStopped, NEW i
    PROVE  FilterRefs(Listed, i) = RentedFor(i) /\ RentedFor(i) \subseteq Listed
  BY DEF NoneStopped, FilterRefs, Listed, RentedFor, Rented

\* An adapter reports PENDING or ACTIVE of a machine that is not stopped.
LEMMA ReportedLive ==
    ASSUME NoneStopped, NEW m \in Listed PROVE Reported(m) \notin Ended
  BY DEF NoneStopped, Listed, Reported, Ended

\* What SetCall makes of a call.
LEMMA SetCallGives ==
    ASSUME NEW c, NEW o, NEW p, NEW i, NEW r, NEW h, SetCall(c, o, p, i, r, h)
    PROVE  \E k : /\ call' = [call EXCEPT ![c] = k]
                  /\ k.op = o /\ k.pc = p /\ k.id = i /\ k.rec = r /\ k.heal = h
<1>1. PICK k : k = [op |-> o, pc |-> p, id |-> i, rec |-> r, heal |-> h]
  OBVIOUS
<1>2. k.op = o /\ k.pc = p /\ k.id = i /\ k.rec = r /\ k.heal = h
  BY <1>1
<1>3. call' = [call EXCEPT ![c] = k]
  BY <1>1 DEF SetCall
<1>4. QED
  BY <1>2, <1>3

\* A call that goes on to p with record r keeps its operation and its id.
LEMMA AloneGoes ==
    ASSUME TypeOK, AloneState, NEW c \in Callers, Others(c), NEW p, NEW r, Goto(c, p, r),
           UNCHANGED <<file, cloud, scenario>>,
           \A k : /\ k.op = call[c].op /\ k.pc = p /\ k.id = call[c].id
                  /\ k.rec = r /\ k.heal = call[c].heal
                  => AloneCall(k)
    PROVE  AloneState'
<1>1. PICK k : /\ call' = [call EXCEPT ![c] = k]
               /\ k.op = call[c].op /\ k.pc = p /\ k.id = call[c].id
               /\ k.rec = r /\ k.heal = call[c].heal
  BY SetCallGives DEF Goto
<1>2. QED
  BY <1>1, AloneReads

\* What the pc of a call says.
LEMMA AloneShape ==
    ASSUME NEW k, AloneCall(k)
    PROVE  /\ k.pc \in {"lookup", "adopt", "spawn", "probe", "await", "terminate", "patch", "settle"}
                => k.id \in Ids /\ (k.op # "list" => k.heal = NoHeal)
           /\ k.pc = "heal" => k.op = "list"
           /\ k.pc = "lookup" => k.op = "create" /\ AtMostOne(k.id)
           /\ k.pc = "adopt" => k.op \in {"create", "list"} /\ RentedFor(k.id) \subseteq {k.rec.pid}
           /\ k.pc = "spawn" => k.op = "create" /\ RentedFor(k.id) = {}
           /\ k.pc \in {"probe", "await"} =>
                k.op \in {"describe", "wait"} /\ k.rec = file[k.id] /\ k.rec.pid # None
           /\ k.pc = "terminate" => k.op = "destroy" /\ RentedFor(k.id) \subseteq {k.rec.pid}
           /\ k.pc = "patch" =>
                RentedFor(k.id) \subseteq {k.rec.pid} /\ (k.rec.st \in Ended => RentedFor(k.id) = {})
           /\ k.pc = "settle" =>
                k.op \in {"destroy", "list"} /\ (k.rec.st \in Ended => RentedFor(k.id) = {})
<1>1. CASE k = Idle
  BY <1>1 DEF Idle
<1>2. CASE k # Idle
  BY <1>2 DEF AloneCall
<1>3. QED
  BY <1>1, <1>2

\* A record is claimed, by a create or a destroy, while it is true to the
\* account.
LEMMA AloneClaims ==
    ASSUME TypeOK, Alone, AloneState, NEW c \in Callers, NEW i \in Ids,
           CreateClaim(c, i) \/ \E force \in BOOLEAN : DestroyClaim(c, i, force)
    PROVE  AloneState'
<1>1. CanBegin(c) /\ UNCHANGED <<cloud, scenario>>
  BY DEF CreateClaim, DestroyClaim
<1>2. Others(c) /\ call[c] = Idle
  BY <1>1, SoleCaller DEF CanBegin
<1>3. \A j \in Ids : AloneRecord(j)
  BY <1>2, RecordsKnown DEF Idle
<1>4. \A j : RentedFor(j)' = RentedFor(j)
  BY <1>1 DEF RentedFor, Rented
<1>5. NoneStopped'
  BY <1>1 DEF AloneState, NoneStopped
<1>6. ASSUME \A j \in Ids \ {i} : file'[j] = file[j]
      PROVE  \A j \in Ids \ {i} : AloneRecord(j)'
  BY <1>1, <1>3, <1>4, <1>6 DEF AloneRecord, Target, LegacyPod
<1>7. CASE CreateClaim(c, i)
  <2>1. PICK k : k = [op |-> "create", pc |-> "lookup", id |-> i, rec |-> newPendingInstance,
                      heal |-> NoHeal]
    OBVIOUS
  <2>2. call' = [call EXCEPT ![c] = k] /\ \A j \in Ids \ {i} : file'[j] = file[j]
    BY <1>7, <2>1 DEF CreateClaim, Begin, SetCall, TypeOK
  <2>3. AtMostOne(i)
    BY <1>3 DEF AloneRecord, AtMostOne
  <2>4. call'[c] = k
    BY <2>2 DEF TypeOK
  <2>5. AloneCall(call[c])'
    BY <1>4, <2>1, <2>3, <2>4 DEF AloneCall, AtMostOne
  <2>6. \A j \in Ids : (k.op = "create" /\ k.id = j) \/ AloneRecord(j)'
    BY <1>6, <2>1, <2>2
  <2>7. QED
    BY <1>2, <1>5, <2>2, <2>5, <2>6, AloneMoves
<1>8. ASSUME NEW force \in BOOLEAN, DestroyClaim(c, i, force) PROVE AloneState'
  <2>1. force = FALSE
    BY <1>8 DEF DestroyClaim, Alone
  <2>2. PICK k : k = [op |-> "destroy", pc |-> IF Target(i) = None THEN "settle" ELSE "terminate",
                      id |-> i, rec |-> [st |-> "TERMINATED", pid |-> Target(i)],
                      heal |-> NoHeal]
    OBVIOUS
  <2>3. /\ call' = [call EXCEPT ![c] = k]
        /\ \A j \in Ids \ {i} : file'[j] = file[j]
        /\ file'[i] = [st |-> "TERMINATING", pid |-> Target(i)]
    BY <1>8, <2>1, <2>2 DEF DestroyClaim, Begin, SetCall, TypeOK
  <2>4. RentedFor(i) \subseteq {Target(i)}
    BY <1>3 DEF AloneRecord
  <2>5. Target(i) = None => RentedFor(i) = {}
    BY <2>4, ConstantsAssumption DEF RentedFor
  <2>6. call'[c] = k
    BY <2>3 DEF TypeOK
  <2>7. AloneCall(call[c])'
    <3>1. CASE Target(i) = None
      BY <1>4, <2>2, <2>5, <2>6, <3>1 DEF AloneCall
    <3>2. CASE Target(i) # None
      BY <1>4, <2>2, <2>4, <2>6, <3>2 DEF AloneCall
    <3>3. QED
      BY <3>1, <3>2
  <2>8. AloneRecord(i)'
    <3>1. \A t : t = Target(i) => Target(i)' = t
      BY <1>1, <2>3 DEF Target, LegacyPod
    <3>2. QED
      BY <1>4, <2>3, <2>4, <3>1 DEF AloneRecord, Ended
  <2>9. QED
    BY <1>2, <1>5, <1>6, <2>3, <2>7, <2>8, AloneMoves
<1>9. QED
  BY <1>7, <1>8

\* The call writes its record back and returns.
LEMMA AloneWrites ==
    ASSUME TypeOK, Alone, AloneState, NEW c \in Callers, patchRecord(c) \/ Settle(c)
    PROVE  AloneState'
<1>1. UNCHANGED <<cloud, scenario>> /\ Return(c) /\ call[c].pc \in {"patch", "settle"}
  BY DEF patchRecord, Settle
<1>2. Others(c) /\ AloneCall(call[c])
  BY <1>1, SoleCaller DEF AloneState, AloneCalls
<1>3. PICK i \in Ids : i = call[c].id
  BY <1>1, <1>2, AloneShape
<1>4. call[c].op # "list" => call[c].heal = NoHeal
  BY <1>1, <1>2, AloneShape
<1>5. \A j : RentedFor(j)' = RentedFor(j)
  BY <1>1 DEF RentedFor, Rented
<1>6. NoneStopped'
  BY <1>1 DEF AloneState, NoneStopped
<1>7. \A j \in Ids \ {i} : file'[j] = file[j]
  BY <1>3 DEF patchRecord, Settle, TypeOK
<1>8. ASSUME NEW j \in Ids \ {i} PROVE AloneRecord(j)'
  <2>1. AloneRecord(j)
    BY <1>2, <1>3, RecordsKnown
  <2>2. QED
    BY <1>1, <1>5, <1>7, <2>1 DEF AloneRecord, Target, LegacyPod
<1>9. AloneRecord(i)'
  <2>1. CASE patchRecord(c)
    <3>1. file'[i] = call[c].rec
      BY <1>3, <2>1 DEF patchRecord, TypeOK
    <3>2. /\ RentedFor(i) \subseteq {call[c].rec.pid}
          /\ call[c].rec.st \in Ended => RentedFor(i) = {}
      BY <1>2, <1>3, <2>1, AloneShape DEF patchRecord
    <3>3. call[c].rec.pid = None => RentedFor(i) = {}
      BY <3>2, ConstantsAssumption DEF RentedFor
    <3>4. QED
      BY <1>1, <1>5, <3>1, <3>2, <3>3 DEF AloneRecord, Target
  <2>2. CASE Settle(c)
    <3>1. call[c].op # "create" /\ (call[c].rec.st \in Ended => RentedFor(i) = {})
      BY <1>2, <1>3, <2>2, AloneShape DEF Settle
    <3>2. AloneRecord(i)
      BY <1>2, <3>1, RecordsKnown
    <3>3. /\ file'[i].pid = file[i].pid
          /\ file'[i].st = file[i].st \/ file'[i].st = call[c].rec.st
      BY <1>3, <2>2 DEF Settle, TypeOK, Record
    <3>4. QED
      BY <1>1, <1>5, <3>1, <3>2, <3>3 DEF AloneRecord, Target, LegacyPod
  <2>3. QED
    BY <2>1, <2>2
<1>10. PICK k : /\ call' = [call EXCEPT ![c] = k]
                /\ k = IF call[c].heal = NoHeal THEN Idle
                       ELSE [op |-> call[c].op, pc |-> "heal", id |-> None, rec |-> NoRecord,
                             heal |-> call[c].heal]
  BY <1>1 DEF Return, ReturnWith, SetCall
<1>11. AloneCall(call[c])'
  <2>1. call'[c] = k
    BY <1>10 DEF TypeOK
  <2>2. QED
    BY <1>4, <1>10, <2>1 DEF AloneCall, Idle
<1>12. QED
  BY <1>2, <1>6, <1>8, <1>9, <1>10, <1>11, AloneMoves

\* An account that shrinks takes nothing away from what the call knows.
LEMMA AloneShrinks ==
    ASSUME TypeOK, AloneState, UNCHANGED <<file, call, scenario>>, NoneStopped',
           \A i : RentedFor(i)' \subseteq RentedFor(i)
    PROVE  AloneState'
<1>1. ASSUME NEW d \in Callers PROVE AloneCall(call[d])'
  BY DEF AloneState, AloneCalls, AloneCall, AtMostOne
<1>2. \A i : AloneRecord(i) => AloneRecord(i)'
  BY DEF AloneRecord, Target, LegacyPod
<1>3. QED
  BY <1>1, <1>2 DEF AloneState, AloneCalls, OneCall, AloneRecords

\* Every step keeps what the records and the call know.
LEMMA AloneStep ==
    ASSUME TypeOK, AloneState, Alone, [Next]_vars, Adoptable = {"booting", "running"}
    PROVE  AloneState'
<1>0. {"list", "describe", "lostreply", "crash", "wipe", "exit"} \cap Faults = {}
  BY DEF Alone
<1>a. NoneStopped /\ \A c \in Callers : AloneCall(call[c])
  BY DEF AloneState, AloneCalls
<1>b. ASSUME NEW c \in Callers, call[c].pc # "idle"
      PROVE  Others(c) /\ AloneCall(call[c])
  BY <1>a, <1>b, SoleCaller
<1>c. ASSUME NEW i, NEW m, m \in FilterRefs(Listed, i) PROVE m \in RentedFor(i)
  BY <1>a, <1>c, ListedIsRented
<1>1. ASSUME NEW c \in Callers, NEW i \in Ids, CreateClaim(c, i) PROVE AloneState'
  BY <1>1, AloneClaims
<1>2. ASSUME NEW c \in Callers, NEW m \in Machines, CreateFound(c, m) PROVE AloneState'
  <2>1. call[c].pc = "lookup" /\ Goto(c, "adopt", Found(m)) /\ UNCHANGED <<file, cloud, scenario>>
    BY <1>2 DEF CreateFound
  <2>2. Others(c) /\ call[c].op = "create" /\ call[c].heal = NoHeal /\ call[c].id \in Ids
    BY <1>b, <2>1, AloneShape
  <2>3. RentedFor(call[c].id) \subseteq {m}
    BY <1>2, <1>b, <1>c, <2>1, AloneShape DEF CreateFound, AtMostOne
  <2>4. Found(m).pid = m
    BY DEF Found
  <2>5. QED
    BY <2>1, <2>2, <2>3, <2>4, AloneGoes DEF AloneCall
<1>3. ASSUME NEW c \in Callers, CreateMiss(c) PROVE AloneState'
  <2>1. /\ call[c].pc = "lookup" /\ Goto(c, "spawn", newPendingInstance)
        /\ UNCHANGED <<file, cloud, scenario>>
    BY <1>3 DEF CreateMiss
  <2>2. Others(c) /\ call[c].op = "create" /\ call[c].heal = NoHeal /\ call[c].id \in Ids
    BY <1>b, <2>1, AloneShape
  <2>3. RentedFor(call[c].id) = {}
    BY <1>3, <1>0 DEF CreateMiss, FilterRefs, Listed, RentedFor, Rented
  <2>4. QED
    BY <2>1, <2>2, <2>3, AloneGoes DEF AloneCall
<1>4. ASSUME NEW c \in Callers, Adopt(c) PROVE AloneState'
  <2>1. PICK r : r = [st |-> Reported(call[c].rec.pid), pid |-> call[c].rec.pid]
    OBVIOUS
  <2>2. call[c].pc = "adopt" /\ Goto(c, "patch", r) /\ UNCHANGED <<file, cloud, scenario>>
    BY <1>4, <2>1 DEF Adopt
  <2>3. /\ Others(c) /\ call[c].id \in Ids /\ (call[c].op # "list" => call[c].heal = NoHeal)
        /\ RentedFor(call[c].id) \subseteq {call[c].rec.pid}
    BY <1>b, <2>2, AloneShape
  <2>4. r.st \notin Ended /\ r.pid = call[c].rec.pid
    BY <1>4, <1>a, <2>1, ReportedLive DEF Adopt
  <2>5. QED
    BY <2>2, <2>3, <2>4, AloneGoes DEF AloneCall
<1>g. ASSUME NEW c \in Callers, AdoptFails(c)
      PROVE  /\ Others(c) /\ call[c].id \in Ids /\ (call[c].op # "list" => call[c].heal = NoHeal)
             /\ RentedFor(call[c].id) = {}
  <2>1. call[c].pc = "adopt" /\ call[c].rec.pid \notin Listed
    BY <1>g, <1>0 DEF AdoptFails
  <2>2. /\ Others(c) /\ call[c].id \in Ids /\ (call[c].op # "list" => call[c].heal = NoHeal)
        /\ RentedFor(call[c].id) \subseteq {call[c].rec.pid}
    BY <1>b, <2>1, AloneShape
  <2>3. RentedFor(call[c].id) \subseteq Listed
    BY <1>a, ListedIsRented
  <2>4. QED
    BY <2>1, <2>2, <2>3
<1>5. ASSUME NEW c \in Callers, NEW m \in Machines, AdoptNext(c, m) PROVE AloneState'
  BY <1>5, <1>g, <1>c DEF AdoptNext
<1>6. ASSUME NEW c \in Callers, AdoptError(c) PROVE AloneState'
  <2>0. AdoptFails(c) /\ UNCHANGED <<file, cloud, scenario>>
    BY <1>6 DEF AdoptError
  <2>1. CASE call[c].op = "create"
    <3>1. Goto(c, "spawn", newPendingInstance)
      BY <1>6, <2>1 DEF AdoptError
    <3>2. QED
      BY <2>0, <2>1, <3>1, <1>g, AloneGoes DEF AloneCall
  <2>2. CASE call[c].op = "list"
    BY <1>6, <1>g, <2>0, <2>2, AloneReturns DEF AdoptError, Return
  <2>3. QED
    BY <1>6, <2>1, <2>2 DEF AdoptError
<1>e. ASSUME NEW c \in Callers, call[c].pc = "spawn"
      PROVE  /\ Others(c) /\ call[c].id \in Ids /\ call[c].heal = NoHeal
             /\ call[c].op = "create" /\ RentedFor(call[c].id) = {}
  BY <1>e, <1>b, AloneShape
<1>7. ASSUME NEW c \in Callers, CreateKeyError(c) PROVE AloneState'
  <2>1. /\ call[c].pc = "spawn" /\ ReturnWith(c, call[c].heal)
        /\ UNCHANGED <<file, cloud, scenario>>
    BY <1>7 DEF CreateKeyError, Return
  <2>2. AloneRecord(call[c].id)
    BY <1>e, <2>1 DEF AloneRecord
  <2>3. QED
    BY <1>e, <2>1, <2>2, AloneReturns
<1>8. ASSUME NEW c \in Callers, NEW m \in Machines, SpawnOK(c, m) PROVE AloneState'
  <2>1. PICK s \in {"PENDING", "ACTIVE"} : Goto(c, "patch", [st |-> s, pid |-> m])
    BY <1>8 DEF SpawnOK
  <2>2. PICK k : k = [op |-> call[c].op, pc |-> "patch", id |-> call[c].id,
                      rec |-> [st |-> s, pid |-> m], heal |-> call[c].heal]
    OBVIOUS
  <2>3. call[c].pc = "spawn" /\ UNCHANGED <<file, scenario>> /\ call' = [call EXCEPT ![c] = k]
    BY <1>8, <2>1, <2>2 DEF SpawnOK, Goto, SetCall
  <2>4. \A j : RentedFor(j)' \subseteq RentedFor(j) \cup (IF j = call[c].id THEN {m} ELSE {})
    BY <1>8 DEF SpawnOK, RentedFor, Rented, TypeOK, Machine
  <2>5. NoneStopped'
    BY <1>8, <1>a DEF SpawnOK, NoneStopped, TypeOK, Machine
  <2>6. ASSUME NEW j \in Ids, j # call[c].id PROVE AloneRecord(j)'
    <3>1. AloneRecord(j)
      BY <1>e, <2>3, <2>6, RecordsKnown
    <3>2. QED
      BY <2>3, <2>4, <2>6, <3>1 DEF AloneRecord, Target, LegacyPod
  <2>7. \A j : j = call[c].id => RentedFor(j)' \subseteq {m}
    BY <1>e, <2>3, <2>4
  <2>8. AloneCall(call[c])'
    <3>1. call'[c] = k
      BY <2>3 DEF TypeOK
    <3>2. /\ k.id = call[c].id /\ k.pc = "patch" /\ k.op = "create" /\ k.heal = NoHeal
          /\ k.rec.pid = m /\ k.rec.st \notin Ended
      BY <1>e, <2>1, <2>2, <2>3 DEF Ended
    <3>3. QED
      BY <1>e, <2>3, <2>7, <3>1, <3>2 DEF AloneCall
  <2>9. \A j \in Ids : (k.op = "create" /\ k.id = j) \/ AloneRecord(j)'
    BY <1>e, <2>2, <2>3, <2>6
  <2>10. QED
    BY <1>e, <2>3, <2>5, <2>8, <2>9, AloneMoves
<1>9. ASSUME NEW c \in Callers, SpawnError(c) PROVE AloneState'
  <2>1. PICK r : r = [st |-> "FAILED", pid |-> call[c].rec.pid]
    OBVIOUS
  <2>2. call[c].pc = "spawn" /\ Goto(c, "patch", r) /\ UNCHANGED <<file, cloud, scenario>>
    BY <1>9, <2>1 DEF SpawnError
  <2>3. QED
    BY <1>e, <2>2, AloneGoes DEF AloneCall
<1>10. ASSUME NEW c \in Callers, NEW m \in Machines, SpawnLost(c, m) PROVE AloneState'
  BY <1>10, <1>0 DEF SpawnLost
<1>11. ASSUME NEW c \in Callers, patchRecord(c) \/ Settle(c) PROVE AloneState'
  BY <1>11, AloneWrites
<1>12. ASSUME NEW c \in Callers, NEW i \in Ids, NEW force \in BOOLEAN, DestroyClaim(c, i, force) PROVE AloneState'
  BY <1>12, AloneClaims
<1>t. ASSUME NEW c \in Callers, call[c].pc = "terminate"
      PROVE  /\ Others(c) /\ call[c].id \in Ids /\ call[c].heal = NoHeal
             /\ call[c].op = "destroy" /\ RentedFor(call[c].id) \subseteq {call[c].rec.pid}
  BY <1>t, <1>b, AloneShape
<1>13. ASSUME NEW c \in Callers, Terminate(c) PROVE AloneState'
  <2>1. PICK k : k = [op |-> call[c].op, pc |-> "settle", id |-> call[c].id,
                      rec |-> call[c].rec, heal |-> call[c].heal]
    OBVIOUS
  <2>2. call[c].pc = "terminate" /\ UNCHANGED <<file, scenario>> /\ call' = [call EXCEPT ![c] = k]
    BY <1>13, <2>1 DEF Terminate, Goto, SetCall
  <2>3. \A j : RentedFor(j)' \subseteq RentedFor(j) \ {call[c].rec.pid}
    BY <1>13 DEF Terminate, RentedFor, Rented, TypeOK, Machine
  <2>4. NoneStopped'
    BY <1>13, <1>a DEF Terminate, NoneStopped, TypeOK, Machine
  <2>5. ASSUME NEW j \in Ids PROVE AloneRecord(j)'
    <3>1. AloneRecord(j)
      BY <1>t, <2>2, RecordsKnown
    <3>2. QED
      BY <2>2, <2>3, <3>1 DEF AloneRecord, Target, LegacyPod
  <2>6. \A j : j = call[c].id => RentedFor(j)' = {}
    BY <1>t, <2>2, <2>3
  <2>7. AloneCall(call[c])'
    <3>1. call'[c] = k
      BY <2>2 DEF TypeOK
    <3>2. k.id = call[c].id /\ k.pc = "settle" /\ k.op = "destroy" /\ k.heal = NoHeal
      BY <1>t, <2>1, <2>2
    <3>3. QED
      BY <1>t, <2>2, <2>6, <3>1, <3>2 DEF AloneCall
  <2>8. QED
    BY <1>t, <2>2, <2>4, <2>5, <2>7, AloneMoves
<1>14. ASSUME NEW c \in Callers, TerminateError(c) PROVE AloneState'
  <2>1. PICK r : r = [st |-> "FAILED", pid |-> call[c].rec.pid]
    OBVIOUS
  <2>2. call[c].pc = "terminate" /\ Goto(c, "settle", r) /\ UNCHANGED <<file, cloud, scenario>>
    BY <1>14, <2>1 DEF TerminateError
  <2>3. r.st \notin Ended
    BY <2>1 DEF Ended
  <2>4. QED
    BY <1>t, <2>2, <2>3, AloneGoes DEF AloneCall
<1>17. ASSUME NEW c \in Callers, NEW i \in Ids, DescribeRead(c, i) \/ WaitRead(c, i) PROVE AloneState'
  <2>1. CanBegin(c) /\ UNCHANGED <<file, cloud, scenario>> /\ file[i].pid # None
    BY <1>17 DEF DescribeRead, WaitRead
  <2>2. Others(c) /\ call[c].op # "create"
    BY <2>1, SoleCaller DEF CanBegin, Idle
  <2>3. PICK k : /\ call' = [call EXCEPT ![c] = k]
                 /\ k.op \in {"describe", "wait"} /\ k.pc \in {"probe", "await"}
                 /\ k.id = i /\ k.rec = file[i] /\ k.heal = NoHeal
    <3>1. \A k : k \in {[op |-> "describe", pc |-> "probe", id |-> i, rec |-> file[i], heal |-> NoHeal],
                        [op |-> "wait", pc |-> "await", id |-> i, rec |-> file[i], heal |-> NoHeal]}
                 => /\ k.op \in {"describe", "wait"} /\ k.pc \in {"probe", "await"}
                    /\ k.id = i /\ k.rec = file[i] /\ k.heal = NoHeal
      OBVIOUS
    <3>2. QED
      BY <1>17, <3>1 DEF DescribeRead, WaitRead, Begin, SetCall
  <2>4. AloneCall(k)
    BY <2>1, <2>3 DEF AloneCall
  <2>5. QED
    BY <2>1, <2>2, <2>3, <2>4, AloneReads
<1>r. ASSUME NEW c \in Callers, call[c].pc \in {"probe", "await"}
      PROVE  /\ Others(c) /\ call[c].id \in Ids /\ call[c].heal = NoHeal
             /\ call[c].op \in {"describe", "wait"} /\ call[c].rec = file[call[c].id]
             /\ RentedFor(call[c].id) \subseteq {call[c].rec.pid}
             /\ call[c].rec.st \in Ended => RentedFor(call[c].id) = {}
  <2>1. /\ Others(c) /\ call[c].id \in Ids /\ call[c].heal = NoHeal
        /\ call[c].op \in {"describe", "wait"} /\ call[c].rec = file[call[c].id]
        /\ call[c].rec.pid # None
    BY <1>r, <1>b, AloneShape
  <2>2. AloneRecord(call[c].id)
    BY <2>1, RecordsKnown
  <2>3. QED
    BY <2>1, <2>2 DEF AloneRecord, Target
<1>18. ASSUME NEW c \in Callers, DescribeAnswer(c) PROVE AloneState'
  <2>1. PICK r : r = [st |-> IF call[c].rec.pid \in Listed THEN Reported(call[c].rec.pid)
                             ELSE "TERMINATED",
                      pid |-> call[c].rec.pid]
    OBVIOUS
  <2>2. call[c].pc = "probe" /\ Goto(c, "patch", r) /\ UNCHANGED <<file, cloud, scenario>>
    BY <1>18, <2>1 DEF DescribeAnswer
  <2>3. RentedFor(call[c].id) \subseteq Listed
    BY <1>a, ListedIsRented
  <2>4. r.pid = call[c].rec.pid /\ (r.st \in Ended => call[c].rec.pid \notin Listed)
    BY <1>a, <2>1, ReportedLive
  <2>5. r.st \in Ended => RentedFor(call[c].id) = {}
    BY <1>r, <2>2, <2>3, <2>4
  <2>6. QED
    BY <1>r, <2>2, <2>4, <2>5, AloneGoes DEF AloneCall
<1>19. ASSUME NEW c \in Callers, DescribeError(c) \/ WaitError(c) PROVE AloneState'
  <2>1. call[c].pc \in {"probe", "await"} /\ ReturnWith(c, call[c].heal)
        /\ UNCHANGED <<file, cloud, scenario>>
    BY <1>19 DEF DescribeError, WaitError, Return
  <2>2. QED
    BY <1>r, <2>1, AloneReturns
<1>21. ASSUME NEW c \in Callers, WaitReady(c) PROVE AloneState'
  <2>1. /\ call[c].pc = "await" /\ Goto(c, "patch", call[c].rec)
        /\ UNCHANGED <<file, cloud, scenario>>
    BY <1>21 DEF WaitReady
  <2>2. QED
    BY <1>r, <2>1, AloneGoes DEF AloneCall
<1>23. ASSUME NEW c \in Callers, ListRead(c) PROVE AloneState'
  <2>1. CanBegin(c) /\ UNCHANGED <<file, cloud, scenario>>
    BY <1>23 DEF ListRead
  <2>2. Others(c) /\ call[c].op # "create"
    BY <2>1, SoleCaller DEF CanBegin, Idle
  <2>3. PICK k : call' = [call EXCEPT ![c] = k] /\ k.op = "list" /\ k.pc = "heal"
    BY <1>23, SetCallGives DEF ListRead
  <2>4. QED
    BY <2>1, <2>2, <2>3, AloneReads DEF AloneCall
<1>h. ASSUME NEW c \in Callers, call[c].pc = "heal"
      PROVE  Others(c) /\ call[c].op = "list"
  BY <1>h, <1>b, AloneShape
<1>24. ASSUME NEW c \in Callers, NEW i \in Ids, HealGone(c, i) PROVE AloneState'
  <2>1. call[c].pc = "heal" /\ UNCHANGED <<file, cloud, scenario>> /\ RentedFor(i) = {}
    BY <1>24, <1>a, ListedIsRented DEF HealGone
  <2>2. PICK k : call' = [call EXCEPT ![c] = k] /\ k.op = "list" /\ k.pc = "settle" /\ k.id = i
    BY <1>24, SetCallGives DEF HealGone, Heal
  <2>3. QED
    BY <1>h, <2>1, <2>2, AloneReads DEF AloneCall
<1>25. ASSUME NEW c \in Callers, NEW i \in Ids, NEW m \in Machines, HealFound(c, i, m) PROVE AloneState'
  <2>1. call[c].pc = "heal" /\ UNCHANGED <<file, cloud, scenario>> /\ m \in RentedFor(i)
    BY <1>25, <1>c DEF HealFound
  <2>2. PICK k : /\ call' = [call EXCEPT ![c] = k]
                 /\ k.op = "list" /\ k.pc = "adopt" /\ k.id = i /\ k.rec.pid = m
    BY <1>25, SetCallGives DEF HealFound, Heal, Found
  <2>3. AloneRecord(i)
    BY <1>h, <2>1, RecordsKnown
  <2>4. RentedFor(i) \subseteq {m}
    BY <2>1, <2>3 DEF AloneRecord
  <2>5. QED
    BY <1>h, <2>1, <2>2, <2>4, AloneReads DEF AloneCall
<1>26. ASSUME NEW c \in Callers, NEW i \in Ids, HealSkip(c, i) PROVE AloneState'
  <2>1. PICK h : ReturnWith(c, h)
    BY <1>26 DEF HealSkip
  <2>2. call[c].pc = "heal" /\ UNCHANGED <<file, cloud, scenario>>
    BY <1>26 DEF HealSkip
  <2>3. QED
    BY <1>h, <2>1, <2>2, AloneReturns
<1>27. ASSUME NEW m \in Machines, Boot(m) \/ Lose(m) PROVE AloneState'
  <2>1. NoneStopped' /\ UNCHANGED <<file, call, scenario>>
    BY <1>27, <1>0, <1>a DEF Boot, Lose, NoneStopped, TypeOK, Machine
  <2>2. \A i : RentedFor(i)' \subseteq RentedFor(i)
    BY <1>27, <1>0 DEF Boot, Lose, RentedFor, Rented, TypeOK, Machine
  <2>3. QED
    BY <2>1, <2>2, AloneShrinks
<1>29. ASSUME (\E c \in Callers : Crash(c)) \/ WipeState PROVE AloneState'
  BY <1>29, <1>0 DEF Crash, WipeState
<1>31. CASE UNCHANGED vars
  <2>1. NoneStopped' /\ UNCHANGED <<file, call, scenario>>
    BY <1>31, <1>a DEF vars, NoneStopped
  <2>2. \A i : RentedFor(i)' \subseteq RentedFor(i)
    BY <1>31 DEF vars, RentedFor, Rented
  <2>3. QED
    BY <2>1, <2>2, AloneShrinks
<1>l. ASSUME NEW c \in Callers, TerminateLost(c) PROVE AloneState'
  BY <1>l, <1>0 DEF TerminateLost
<1>32. QED
  BY <1>1, <1>2, <1>3, <1>4, <1>5, <1>6, <1>7, <1>8, <1>9, <1>10,
     <1>11, <1>12, <1>13, <1>14, <1>17, <1>18, <1>19, <1>21, <1>23, <1>24,
     <1>25, <1>26, <1>27, <1>29, <1>31, <1>l
     DEF Next, CallStep, CreateStep, AdoptStep, DestroyStep, ReadStep, ListStep, Environment

\* With one call at a time, none forced, interrupted or misinformed, a record
\* says TERMINATED only of an id that has no machine left, when the adapters
\* count booting and running machines as active (all do).
THEOREM TerminatedCorrect ==
    ASSUME Adoptable = {"booting", "running"} PROVE Spec => []TerminatedMeansGone
<1>1. Init => TypeOK
  BY IdleType DEF Init, TypeOK
<1>2. Init => AloneState
  <2> SUFFICES ASSUME Init PROVE AloneState
    OBVIOUS
  <2>1. OneCall /\ AloneCalls
    BY DEF Init, OneCall, AloneCalls, AloneCall
  <2>2. ASSUME NEW i \in Ids PROVE AloneRecord(i)
    <3>1. LegacyPod[i] = None => RentedFor(i) = {}
      BY RentedAtFirst, ConstantsAssumption DEF RentedFor
    <3>2. file[i].pid = None /\ (LegacyPod[i] # None => file[i].st = "PENDING")
      BY DEF Init, newPendingInstance, NoRecord
    <3>3. QED
      BY <3>1, <3>2, RentedAtFirst DEF AloneRecord, Target, Ended
  <2>3. QED
    BY <2>1, <2>2, RentedAtFirst DEF AloneState, AloneRecords
<1>3. ASSUME TypeOK, Alone => AloneState, [Next]_vars
      PROVE  TypeOK' /\ (Alone => AloneState)'
  <2>1. Alone' => Alone
    BY <1>3, ScenarioKept DEF Alone, Ops, Faults
  <2>2. QED
    BY <1>3, <2>1, TypeStep, AloneStep
<1>4. ASSUME Alone => AloneState PROVE TerminatedMeansGone
  <2> SUFFICES ASSUME Alone, \A c \in Callers : call[c] = Idle,
                      NEW i \in Ids, NEW m \in Machines,
                      file[i].st = "TERMINATED", cloud[m].tag = i
               PROVE  ~Rented(m)
    BY DEF TerminatedMeansGone, Alone
  <2>1. AloneRecord(i)
    BY <1>4 DEF AloneState, AloneRecords, Idle
  <2>2. QED
    BY <2>1 DEF AloneRecord, Ended, RentedFor
<1>5. QED
  BY <1>1, <1>2, <1>3, <1>4, PTL DEF Spec

\* What the bill depends on, for any ids, machines and callers: an id never
\* rents twice (CreateInstance) and TERMINATED is the truth (DestroyInstance,
\* markVanished and the self-heal), each where the code can promise it, when
\* IsActiveProviderState accepts booting and running machines, as in every
\* adapter.
THEOREM RentalCorrect ==
    ASSUME Adoptable = {"booting", "running"} PROVE Spec => []RentalSafe
<1>1. NoDoubleRent /\ TerminatedMeansGone => RentalSafe
  BY DEF RentalSafe
<1>2. QED
  BY <1>1, NoDoubleRentCorrect, TerminatedCorrect, PTL

=============================================================================
