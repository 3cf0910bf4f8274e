---------------------------- MODULE PlaneProofs ----------------------------
(***************************************************************************)
(* Proofs about the smaller state machines of Plane, for any processes,    *)
(* goroutines, images, models and bounds: the pins, the state file, the    *)
(* engines over SSH, the staging of a cold deploy, multi-node members, and *)
(* the three provider adapters, whatever a provider answers and whether    *)
(* its answers arrive.  The machines run one at a time from one            *)
(* specification, so each invariant is guarded by its machine's part.      *)
(***************************************************************************)
EXTENDS Plane, Sequences, SequenceTheorems, FiniteSetTheorems, TLAPS

-----------------------------------------------------------------------------
(***************************************************************************)
(* Warm volumes and pins.                                                  *)
(***************************************************************************)

PinCalls ==
    [at : {"read", "stage", "record"}, id : PN!Ids, model : Models, force : BOOLEAN]
    \cup [at : {"delete", "drop"}, id : PN!Ids]

PinsVolumes == account \in [made : Nat, alive : SUBSET PN!Ids, staged : [PN!Ids -> SUBSET Models]]

PinsCalled == call = <<>> \/ \E c \in PinCalls : call = <<c>>

PinsRegistry ==
    told \in [volumes : [PN!Ids -> (SUBSET Models) \cup {PN!Untracked}], pinned : SUBSET PN!Ids]

\* An id the provider has not given out is on no list: a new volume starts
\* with a clean record.
FreshIsBlank ==
    /\ \A v \in account.alive \cup told.pinned : v <= account.made
    /\ call # <<>> => call[1].id <= account.made
    /\ \A v \in PN!Ids : v > account.made => told.volumes[v] = PN!Untracked

\* A command about to record has staged what it records, and one about to drop
\* has deleted the volume.
StepsInOrder ==
    call # <<>> =>
        /\ call[1].at = "record" /\ call[1].id \in account.alive => call[1].model \in account.staged[call[1].id]
        /\ call[1].at = "drop" => call[1].id \notin account.alive

PinsTyped == PinsVolumes /\ PinsCalled /\ PinsRegistry

PinsInv == PinsTyped /\ FreshIsBlank /\ StepsInOrder /\ PN!PinnedIsStaged /\ PN!PinnedIsTracked

\* The ids of volumes are numbers.
LEMMA PinIds ==
  ASSUME NEW v \in PN!Ids
  PROVE  v \in Nat
  <1> MaxPods \in Nat
    BY PlaneAssumption
  <1> QED
    BY DEF PN!Ids

\* A set of models is not the mark of a volume without a record.
LEMMA TrackedIsModels ==
  ASSUME NEW S \in SUBSET Models
  PROVE  S # PN!Untracked
  BY PlaneAssumption DEF PN!Untracked

\* Every command of the pin registry starts from a state with its volumes and
\* records apart.
LEMMA PinsStart == PN!pnInit => PinsInv
  <1> SUFFICES ASSUME PN!pnInit PROVE PinsInv
    OBVIOUS
  <1> USE DEF PN!pnInit
  <1>1. PinsTyped
    <2>1. PinsVolumes
      BY DEF PinsVolumes
    <2>2. PinsCalled
      BY DEF PinsCalled
    <2>3. PinsRegistry
      BY DEF PinsRegistry
    <2> QED
      BY <2>1, <2>2, <2>3 DEF PinsTyped
  <1>2. FreshIsBlank /\ StepsInOrder
    BY DEF FreshIsBlank, StepsInOrder
  <1>3. PN!PinnedIsStaged /\ PN!PinnedIsTracked
    BY DEF PN!PinnedIsStaged, PN!PinnedIsTracked
  <1> QED
    BY <1>1, <1>2, <1>3 DEF PinsInv

\* PinModel finds the region's volume or creates one: its id is new or alive.
LEMMA PinEnsure ==
  ASSUME PinsInv, NEW m \in Models, NEW force \in BOOLEAN, PN!EnsureVolume(m, force)
  PROVE  PinsInv'
  <1> PICK id \in PN!Ids :
         /\ id \in account.alive \/ id = account.made + 1
         /\ account' = [account EXCEPT !.made = IF id > @ THEN id ELSE @, !.alive = @ \cup {id}]
         /\ call' = <<[at |-> "read", id |-> id, model |-> m, force |-> force]>>
         /\ told' = told
    BY DEF PN!EnsureVolume, PN!Run
  <1>1. PinsVolumes /\ PinsRegistry /\ FreshIsBlank
    BY DEF PinsInv, PinsTyped
  <1>0. account.made \in Nat /\ id \in Nat
    BY <1>1, PinIds DEF PinsVolumes
  <1>2. id <= account.made \/ (id = account.made + 1 /\ told.volumes[id] = PN!Untracked)
    BY <1>0, <1>1 DEF FreshIsBlank
  <1>3. /\ account'.made = IF id > account.made THEN id ELSE account.made
        /\ account'.alive = account.alive \cup {id}
        /\ account'.staged = account.staged
        /\ PinsVolumes'
    BY <1>0, <1>1 DEF PinsVolumes
  <1>4. PinsTyped'
    BY <1>1, <1>3 DEF PinsTyped, PinsCalled, PinsRegistry, PinCalls
  <1>5. FreshIsBlank'
    <2>1. account'.made \in Nat /\ account'.made >= account.made /\ account'.made >= id
      BY <1>0, <1>3
    <2>2. \A v \in PN!Ids : v \in Nat
      BY PinIds
    <2>3. \A v \in account'.alive \cup told'.pinned : v <= account'.made
      <3> SUFFICES ASSUME NEW v \in account.alive \cup told.pinned \cup {id} PROVE v <= account'.made
        BY <1>3
      <3>1. v \in Nat
        BY <1>0, <1>1, <2>2 DEF PinsVolumes, PinsRegistry
      <3> QED
        BY <3>1, <2>1, <1>0, <1>1 DEF FreshIsBlank
    <2>4. \A v \in PN!Ids : v > account'.made => told'.volumes[v] = PN!Untracked
      BY <2>1, <2>2, <1>0, <1>1 DEF FreshIsBlank
    <2> QED
      BY <2>1, <2>3, <2>4 DEF FreshIsBlank
  <1>6. StepsInOrder'
    BY DEF StepsInOrder
  <1>7. PN!PinnedIsStaged'
    <2> SUFFICES ASSUME NEW v \in account.alive \cup {id}
                 PROVE  told.volumes[v] \ PN!Untracked \subseteq account.staged[v]
      BY <1>3 DEF PN!PinnedIsStaged
    <2>1. CASE v \in account.alive
      BY <2>1 DEF PinsInv, PN!PinnedIsStaged
    <2>2. CASE v = id /\ id \notin account.alive
      BY <2>2, <1>0, <1>1, <1>2 DEF FreshIsBlank
    <2> QED
      BY <2>1, <2>2
  <1>8. PN!PinnedIsTracked'
    <2>1. id \in told.pinned => id \in account.alive
      BY <1>0, <1>1, <1>2 DEF FreshIsBlank
    <2> QED
      BY <2>1, <1>3 DEF PinsInv, PN!PinnedIsTracked
  <1> QED
    BY <1>4, <1>5, <1>6, <1>7, <1>8 DEF PinsInv

\* PinModel stages the model, records it or gives up.
LEMMA PinSteps ==
  ASSUME PinsInv, PN!alreadyStaged \/ PN!StageModel \/ PN!StageFails \/ PN!recordPin
  PROVE  PinsInv'
  <1>1. PinsVolumes /\ PinsCalled /\ PinsRegistry /\ FreshIsBlank /\ StepsInOrder
    BY DEF PinsInv, PinsTyped
  <1>2. PICK c \in PinCalls : call = <<c>>
    BY <1>1 DEF PinsCalled, PN!alreadyStaged, PN!StageModel, PN!StageFails, PN!recordPin
  <1>3. CASE PN!alreadyStaged
    <2>1. c \in [at : {"read", "stage", "record"}, id : PN!Ids, model : Models, force : BOOLEAN]
      BY <1>2, <1>3 DEF PN!alreadyStaged, PinCalls
    <2> PICK at \in {"record", "stage"} :
           /\ at = "record" => c.model \in told.volumes[c.id]
           /\ call' = <<[c EXCEPT !.at = at]>>
      BY <1>2, <1>3 DEF PN!alreadyStaged, PN!Run
    <2>2. account' = account /\ told' = told
      BY <1>3 DEF PN!alreadyStaged
    <2>3. [c EXCEPT !.at = at] \in PinCalls
      BY <2>1 DEF PinCalls
    <2>4. /\ call'[1].at = at /\ call'[1].id = c.id /\ call'[1].model = c.model
          /\ c.id \in PN!Ids /\ c.model \in Models
      BY <2>1
    <2>5. PinsTyped'
      BY <1>1, <2>2, <2>3 DEF PinsTyped, PinsVolumes, PinsCalled, PinsRegistry
    <2>6. FreshIsBlank'
      BY <1>1, <1>2, <2>2, <2>4 DEF FreshIsBlank
    <2>7. StepsInOrder'
      <3>1. c.model \notin PN!Untracked
        BY <2>4, PlaneAssumption DEF PN!Untracked
      <3> QED
        BY <2>2, <2>4, <3>1 DEF PinsInv, PN!PinnedIsStaged, StepsInOrder
    <2> QED
      BY <2>2, <2>5, <2>6, <2>7 DEF PinsInv, PN!PinnedIsStaged, PN!PinnedIsTracked
  <1>4. CASE PN!StageModel
    <2>1. c \in [at : {"read", "stage", "record"}, id : PN!Ids, model : Models, force : BOOLEAN]
      BY <1>2, <1>4 DEF PN!StageModel, PinCalls
    <2>2. /\ account' = [account EXCEPT !.staged[c.id] = @ \cup {c.model}]
          /\ call' = <<[c EXCEPT !.at = "record"]>> /\ told' = told
      BY <1>2, <1>4 DEF PN!StageModel, PN!Run
    <2>3. [c EXCEPT !.at = "record"] \in PinCalls
      BY <2>1 DEF PinCalls
    <2>4. /\ call'[1].at = "record" /\ call'[1].id = c.id /\ call'[1].model = c.model
          /\ c.id \in PN!Ids /\ c.model \in Models
      BY <2>1, <2>2
    <2>5. /\ account'.made = account.made /\ account'.alive = account.alive
          /\ account'.staged = [account.staged EXCEPT ![c.id] = @ \cup {c.model}]
          /\ PinsVolumes'
      BY <1>1, <2>2, <2>4 DEF PinsVolumes
    <2>6. /\ c.model \in account'.staged[c.id]
          /\ \A v \in PN!Ids : account.staged[v] \subseteq account'.staged[v]
      BY <1>1, <2>4, <2>5 DEF PinsVolumes
    <2>7. PinsTyped'
      BY <1>1, <2>2, <2>3, <2>5 DEF PinsTyped, PinsCalled, PinsRegistry
    <2>8. FreshIsBlank'
      BY <1>1, <1>2, <2>2, <2>4, <2>5 DEF FreshIsBlank
    <2>9. StepsInOrder'
      BY <2>4, <2>6 DEF StepsInOrder
    <2>10. PN!PinnedIsStaged'
      BY <1>1, <2>2, <2>5, <2>6 DEF PinsInv, PinsVolumes, PN!PinnedIsStaged
    <2> QED
      BY <2>2, <2>5, <2>7, <2>8, <2>9, <2>10 DEF PinsInv, PN!PinnedIsTracked
  <1>5. CASE PN!StageFails
    BY <1>5, <1>1 DEF PN!StageFails, PN!Done, PinsInv, PinsTyped, PinsVolumes, PinsCalled, PinsRegistry, FreshIsBlank,
                      StepsInOrder, PN!PinnedIsStaged, PN!PinnedIsTracked
  <1>6. CASE PN!recordPin
    <2>1. c \in [at : {"read", "stage", "record"}, id : PN!Ids, model : Models, force : BOOLEAN] /\ c.at = "record"
      BY <1>2, <1>6 DEF PN!recordPin, PinCalls
    <2>2. /\ told' = [told EXCEPT !.volumes[c.id] = (@ \ PN!Untracked) \cup {c.model}, !.pinned = @ \cup {c.id}]
          /\ call' = <<>> /\ account' = account
      BY <1>2, <1>6 DEF PN!recordPin, PN!Done
    <2>3. c.id \in PN!Ids /\ c.model \in Models /\ told.volumes[c.id] \in (SUBSET Models) \cup {PN!Untracked}
      BY <1>1, <2>1 DEF PinsRegistry
    <2>4. /\ told'.volumes = [told.volumes EXCEPT ![c.id] = (@ \ PN!Untracked) \cup {c.model}]
          /\ told'.pinned = told.pinned \cup {c.id}
      BY <1>1, <2>2 DEF PinsRegistry
    <2>5. (told.volumes[c.id] \ PN!Untracked) \cup {c.model} \in SUBSET Models
      BY <2>3
    <2>6. PinsRegistry'
      BY <1>1, <2>2, <2>3, <2>5 DEF PinsRegistry
    <2>7. PinsTyped'
      BY <1>1, <2>2, <2>6 DEF PinsTyped, PinsVolumes, PinsCalled
    <2>8. c.id \in Nat /\ c.id <= account.made /\ account.made \in Nat
      BY <1>1, <1>2, <2>3, PinIds DEF FreshIsBlank, PinsVolumes
    <2>9. FreshIsBlank'
      BY <1>1, <2>2, <2>4, <2>8 DEF FreshIsBlank, PinsRegistry
    <2>10. c.id \in account.alive => c.model \in account.staged[c.id]
      BY <1>1, <1>2, <2>1 DEF StepsInOrder
    <2>11. PN!PinnedIsStaged'
      BY <1>1, <2>2, <2>3, <2>4, <2>10 DEF PinsInv, PinsVolumes, PinsRegistry, PN!PinnedIsStaged
    <2>12. PN!PinnedIsTracked'
      BY <1>1, <2>2, <2>3, <2>4, <2>5, TrackedIsModels DEF PinsInv, PinsVolumes, PinsRegistry, PN!PinnedIsTracked
    <2> QED
      BY <2>2, <2>7, <2>9, <2>11, <2>12 DEF PinsInv, StepsInOrder
  <1> QED
    BY <1>3, <1>4, <1>5, <1>6

\* UnpinModel forgets a model, or destroys the volume and drops its record; a
\* command is killed, and a volume deleted behind the registry's back.
LEMMA UnpinSteps ==
  ASSUME PinsInv,
         \/ \E v \in PN!Ids, m \in Models : PN!UnpinModel(v, m)
         \/ \E v \in PN!Ids : PN!UnpinVolume(v) \/ PN!volumeLost(v)
         \/ PN!DeleteVolume \/ PN!DeleteFails \/ PN!dropRecord \/ PN!commandKilled
  PROVE  PinsInv'
  <1>1. PinsVolumes /\ PinsCalled /\ PinsRegistry /\ FreshIsBlank /\ StepsInOrder
    BY DEF PinsInv, PinsTyped
  <1>2. CASE \E v \in PN!Ids, m \in Models : PN!UnpinModel(v, m)
    <2>1. PICK v \in PN!Ids, m \in Models : PN!UnpinModel(v, m)
      BY <1>2
    <2>2. /\ told' = [told EXCEPT !.volumes[v] = @ \ {m}] /\ account' = account
          /\ call = <<>> /\ call' = <<>> /\ told.volumes[v] # PN!Untracked
      BY <2>1 DEF PN!UnpinModel
    <2>3. told.volumes[v] \in SUBSET Models
      BY <1>1, <2>2 DEF PinsRegistry
    <2>4. /\ told'.volumes = [told.volumes EXCEPT ![v] = @ \ {m}] /\ told'.pinned = told.pinned
          /\ PinsRegistry'
      BY <1>1, <2>2, <2>3 DEF PinsRegistry
    <2>5. PinsTyped'
      BY <1>1, <2>2, <2>4 DEF PinsTyped, PinsVolumes, PinsCalled
    <2>6. FreshIsBlank'
      BY <1>1, <2>2, <2>4, PinIds DEF FreshIsBlank, PinsRegistry
    <2>7. PN!PinnedIsStaged'
      BY <1>1, <2>2, <2>4 DEF PinsInv, PinsVolumes, PinsRegistry, PN!PinnedIsStaged
    <2>8. PN!PinnedIsTracked'
      BY <1>1, <2>2, <2>3, <2>4, TrackedIsModels DEF PinsInv, PinsVolumes, PinsRegistry, PN!PinnedIsTracked
    <2> QED
      BY <2>2, <2>5, <2>6, <2>7, <2>8 DEF PinsInv, StepsInOrder
  <1>3. CASE \E v \in PN!Ids : PN!UnpinVolume(v)
    <2>1. PICK v \in PN!Ids : PN!UnpinVolume(v)
      BY <1>3
    <2>2. /\ account' = account /\ told' = told /\ told.volumes[v] # PN!Untracked
          /\ call' = <<[at |-> "delete", id |-> v]>>
      BY <2>1 DEF PN!UnpinVolume, PN!Run
    <2>3. [at |-> "delete", id |-> v] \in PinCalls
      BY DEF PinCalls
    <2>4. PinsTyped'
      BY <1>1, <2>2, <2>3 DEF PinsTyped, PinsVolumes, PinsCalled, PinsRegistry
    <2>5. FreshIsBlank'
      <3>1. v \in Nat /\ account.made \in Nat
        BY <1>1, PinIds DEF PinsVolumes
      <3> QED
        BY <3>1, <1>1, <2>2 DEF FreshIsBlank
    <2>6. StepsInOrder'
      BY <2>2 DEF StepsInOrder
    <2> QED
      BY <2>2, <2>4, <2>5, <2>6 DEF PinsInv, PN!PinnedIsStaged, PN!PinnedIsTracked
  <1>4. CASE \E v \in PN!Ids : PN!volumeLost(v)
    <2>1. PICK v \in PN!Ids : PN!volumeLost(v)
      BY <1>4
    <2>2. /\ account' = [account EXCEPT !.alive = @ \ {v}] /\ call' = call /\ told' = told
      BY <2>1 DEF PN!volumeLost
    <2>3. /\ account'.made = account.made /\ account'.alive = account.alive \ {v}
          /\ account'.staged = account.staged /\ PinsVolumes'
      BY <1>1, <2>2 DEF PinsVolumes
    <2> QED
      BY <1>1, <2>2, <2>3 DEF PinsInv, PinsTyped, PinsCalled, PinsRegistry, FreshIsBlank, StepsInOrder,
                              PN!PinnedIsStaged, PN!PinnedIsTracked
  <1>5. CASE PN!DeleteVolume
    <2>1. PICK c \in PinCalls : call = <<c>>
      BY <1>1, <1>5 DEF PinsCalled, PN!DeleteVolume
    <2>2. /\ account' = [account EXCEPT !.alive = @ \ {c.id}] /\ told' = told
          /\ call' = <<[c EXCEPT !.at = "drop"]>> /\ c \in [at : {"delete", "drop"}, id : PN!Ids]
      BY <1>5, <2>1 DEF PN!DeleteVolume, PN!Run, PinCalls
    <2>3. /\ account'.made = account.made /\ account'.alive = account.alive \ {c.id}
          /\ account'.staged = account.staged /\ PinsVolumes'
      BY <1>1, <2>2 DEF PinsVolumes
    <2>4. [c EXCEPT !.at = "drop"] \in PinCalls /\ call'[1].at = "drop" /\ call'[1].id = c.id
      BY <2>2 DEF PinCalls
    <2>5. PinsTyped'
      BY <1>1, <2>2, <2>3, <2>4 DEF PinsTyped, PinsCalled, PinsRegistry
    <2>6. FreshIsBlank' /\ StepsInOrder'
      BY <1>1, <2>1, <2>2, <2>3, <2>4 DEF FreshIsBlank, StepsInOrder
    <2> QED
      BY <2>2, <2>3, <2>5, <2>6 DEF PinsInv, PN!PinnedIsStaged, PN!PinnedIsTracked
  <1>6. CASE PN!DeleteFails \/ PN!commandKilled
    BY <1>6, <1>1 DEF PN!DeleteFails, PN!commandKilled, PN!Done, PinsInv, PinsTyped, PinsVolumes, PinsCalled,
                      PinsRegistry, FreshIsBlank, StepsInOrder, PN!PinnedIsStaged, PN!PinnedIsTracked
  <1>7. CASE PN!dropRecord
    <2>1. PICK c \in PinCalls : call = <<c>>
      BY <1>1, <1>7 DEF PinsCalled, PN!dropRecord
    <2>2. /\ told' = [told EXCEPT !.volumes[c.id] = PN!Untracked] /\ account' = account /\ call' = <<>>
          /\ c \in [at : {"delete", "drop"}, id : PN!Ids] /\ c.at = "drop"
      BY <1>7, <2>1 DEF PN!dropRecord, PN!Done, PinCalls
    <2>3. /\ told'.volumes = [told.volumes EXCEPT ![c.id] = PN!Untracked] /\ told'.pinned = told.pinned
          /\ PinsRegistry'
      BY <1>1, <2>2 DEF PinsRegistry
    <2>4. c.id \notin account.alive
      BY <1>1, <2>1, <2>2 DEF StepsInOrder
    <2>5. PinsTyped' /\ StepsInOrder'
      BY <1>1, <2>2, <2>3 DEF PinsTyped, PinsVolumes, PinsCalled, StepsInOrder
    <2>6. FreshIsBlank'
      BY <1>1, <2>2, <2>3 DEF FreshIsBlank, PinsRegistry
    <2> QED
      BY <1>1, <2>2, <2>3, <2>4, <2>5, <2>6 DEF PinsInv, PinsVolumes, PinsRegistry, PN!PinnedIsStaged, PN!PinnedIsTracked
  <1> QED
    BY <1>2, <1>3, <1>4, <1>5, <1>6, <1>7

\* PinsSafe, for any number of volumes and any models: a model the registry
\* lists was staged on its volume, and a volume a pin was reported for stays on
\* the registry while it is paid for (pin.go).
THEOREM PinsCorrect == MachineSpec => []PinsSafe
  <1> DEFINE Inv == part = "pins" => PinsInv
  <1>1. MachineInit => Inv
    BY PinsStart DEF MachineInit
  <1>2. Inv /\ [MachineNext]_vars => Inv'
    <2> SUFFICES ASSUME Inv, [MachineNext]_vars, part' = "pins" PROVE PinsInv'
      OBVIOUS
    <2>1. part = "pins" /\ PinsInv
      BY DEF MachineNext, vars
    <2>2. CASE UNCHANGED vars
      BY <2>1, <2>2 DEF vars, PinsInv, PinsTyped, PinsVolumes, PinsCalled, PinsRegistry, FreshIsBlank, StepsInOrder,
                        PN!PinnedIsStaged, PN!PinnedIsTracked
    <2>3. CASE PN!pnNext
      BY <2>1, <2>3, PinEnsure, PinSteps, UnpinSteps DEF PN!pnNext
    <2> QED
      BY <2>1, <2>2, <2>3 DEF MachineNext
  <1>3. Inv => PinsSafe
    BY DEF PinsSafe, PinsInv
  <1> QED
    BY <1>1, <1>2, <1>3, PTL DEF MachineSpec

-----------------------------------------------------------------------------
(***************************************************************************)
(* The state file.                                                         *)
(***************************************************************************)

StoreDisk ==
    account \in [file : SUBSET Threads, synced : {TRUE}, before : SUBSET Threads, torn : {FALSE},
                 lock : Procs \cup {""}]

StoreCalls ==
    call \in [Threads -> [at : {"idle", "lock", "read", "write", "unlock"}, seen : SUBSET Threads, flock : BOOLEAN]]

StoreMemory ==
    told \in [held : SUBSET Procs, mu : [Procs -> Threads \cup {""}], acked : SUBSET Threads,
              refused : SUBSET Threads, overlap : BOOLEAN]

\* Who holds what: an update runs under its process's mutex; the flock is the
\* one of a process that holds it for its lifetime or of one update.
Locked ==
    /\ \A t \in Threads : call[t].at # "idle" => told.mu[ProcOf[t]] = t
    /\ \A t \in Threads : call[t].flock =>
           call[t].at # "idle" /\ account.lock = ProcOf[t] /\ ProcOf[t] \notin told.held
    /\ \A p \in told.held : account.lock = p

\* Between its read and its unlock.
Works(t) == call[t].at \in {"read", "write", "unlock"}

\* An update works under the flock, on the file as it read it, and what was
\* acknowledged is there.
UnderFlock == \A t \in Threads : Works(t) => call[t].flock \/ ProcOf[t] \in told.held

FileAsRead ==
    \A t \in Threads : /\ call[t].at = "write" => call[t].seen = account.file
                       /\ call[t].at = "unlock" => t \in account.file

AckedIsThere == told.acked \subseteq account.file

\* All that, unless a lifetime lock was released under an update.
Kept == ~told.overlap => UnderFlock /\ FileAsRead /\ AckedIsThere

StoreInv == StoreDisk /\ StoreCalls /\ StoreMemory /\ Locked /\ Kept

\* Every goroutine belongs to a process, and neither has the empty name.
LEMMA StoreUsers ==
  /\ ProcOf \in [Threads -> Procs]
  /\ \A t \in Threads : ProcOf[t] \in Procs /\ t # "" /\ ProcOf[t] # ""
  /\ "" \notin Procs /\ "" \notin Threads
  BY PlaneAssumption

\* The mutex and the flock together exclude: two goroutines at work on the
\* file are one.
LEMMA OneWorks ==
  ASSUME StoreInv, ~told.overlap, NEW t \in Threads, NEW u \in Threads, Works(t), Works(u)
  PROVE  t = u
  <1>1. Locked /\ Kept
    BY DEF StoreInv
  <1>2. account.lock = ProcOf[t] /\ account.lock = ProcOf[u]
    BY <1>1 DEF Locked, Kept, UnderFlock, FileAsRead, AckedIsThere
  <1>3. told.mu[ProcOf[t]] = t /\ told.mu[ProcOf[u]] = u
    BY <1>1 DEF Locked, Works
  <1> QED
    BY <1>2, <1>3

\* The store opens with nothing held, nothing running and nothing written.
LEMMA StoreStart == FS!fsInit => StoreInv
  <1> SUFFICES ASSUME FS!fsInit PROVE StoreInv
    OBVIOUS
  <1> USE DEF FS!fsInit, FS!Idle
  <1>1. StoreDisk
    BY DEF StoreDisk
  <1>2. StoreCalls
    BY DEF StoreCalls
  <1>3. StoreMemory
    BY DEF StoreMemory
  <1>4. Locked /\ Kept
    BY DEF Locked, Kept, UnderFlock, FileAsRead, AckedIsThere, Works
  <1> QED
    BY <1>1, <1>2, <1>3, <1>4 DEF StoreInv

\* A lifetime lock is taken only when no update holds the flock.
LEMMA StoreLifetime ==
  ASSUME StoreInv, NEW p \in Procs, FS!LockForLifetime(p)
  PROVE  StoreInv'
  <1>1. StoreDisk /\ StoreCalls /\ StoreMemory /\ Locked /\ Kept
    BY DEF StoreInv
  <1>2. account.lock = "" /\ call' = call
    BY DEF FS!LockForLifetime
  <1>3. /\ account'.lock = p /\ account'.file = account.file
        /\ StoreDisk'
    BY <1>1 DEF FS!LockForLifetime, StoreDisk
  <1>4. /\ told'.held = told.held \cup {p} /\ told'.mu = told.mu /\ told'.acked = told.acked
        /\ told'.overlap = told.overlap /\ StoreMemory'
    BY <1>1 DEF FS!LockForLifetime, StoreMemory
  <1>5. StoreCalls'
    BY <1>1, <1>2 DEF StoreCalls
  <1>6. \A t \in Threads : ~call[t].flock
    BY <1>1, <1>2, StoreUsers DEF Locked
  <1>7. told.held = {}
    BY <1>1, <1>2, StoreUsers DEF Locked, StoreMemory
  <1>8. Locked'
    BY <1>1, <1>2, <1>3, <1>4, <1>6, <1>7 DEF Locked
  <1>9. Kept'
    BY <1>1, <1>2, <1>3, <1>4 DEF Kept, UnderFlock, FileAsRead, AckedIsThere, Works
  <1> QED
    BY <1>3, <1>4, <1>5, <1>8, <1>9 DEF StoreInv

\* The release of a lifetime lock: an update that relied on it is an overlap.
LEMMA StoreRelease ==
  ASSUME StoreInv, NEW p \in Procs, FS!release(p)
  PROVE  StoreInv'
  <1>1. StoreDisk /\ StoreCalls /\ StoreMemory /\ Locked /\ Kept
    BY DEF StoreInv
  <1>2. call' = call /\ p \in told.held /\ account.lock = p
    BY <1>1 DEF FS!release, Locked
  <1>3. /\ account'.lock = "" /\ account'.file = account.file
        /\ StoreDisk'
    BY <1>1 DEF FS!release, StoreDisk
  <1>4. /\ told'.held = told.held \ {p} /\ told'.mu = told.mu /\ told'.acked = told.acked
        /\ told'.overlap = (told.overlap \/ \E t \in Threads : ProcOf[t] = p /\ call[t].at # "idle" /\ ~call[t].flock)
        /\ StoreMemory'
    BY <1>1 DEF FS!release, StoreMemory
  <1>5. StoreCalls'
    BY <1>1, <1>2 DEF StoreCalls
  <1>6. \A t \in Threads : ~call[t].flock
    BY <1>1, <1>2 DEF Locked
  <1>7. told'.held = {}
    BY <1>1, <1>2, <1>4 DEF Locked
  <1>8. Locked'
    BY <1>1, <1>2, <1>3, <1>4, <1>6, <1>7 DEF Locked
  <1>9. Kept'
    <2> SUFFICES ASSUME ~told'.overlap PROVE Kept'
      BY DEF Kept
    <2>1. ~told.overlap /\ \A t \in Threads : ProcOf[t] = p => call[t].at = "idle"
      BY <1>4, <1>6
    <2>2. \A t \in Threads : ~Works(t)
      <3> SUFFICES ASSUME NEW t \in Threads, Works(t) PROVE FALSE
        OBVIOUS
      <3>1. ProcOf[t] \in told.held
        BY <1>1, <1>6, <2>1 DEF Kept, UnderFlock, FileAsRead, AckedIsThere
      <3>2. ProcOf[t] = p
        BY <1>1, <1>2, <3>1 DEF Locked
      <3> QED
        BY <2>1, <3>2 DEF Works
    <2> QED
      BY <1>1, <1>2, <1>3, <1>4, <2>1, <2>2 DEF Kept, UnderFlock, FileAsRead, AckedIsThere, Works
  <1> QED
    BY <1>3, <1>4, <1>5, <1>8, <1>9 DEF StoreInv

\* Update takes the mutex of its process, then the flock unless the process
\* holds it.
LEMMA StoreLock ==
  ASSUME StoreInv, NEW t \in Threads, FS!Update(t) \/ FS!lock(t)
  PROVE  StoreInv'
  <1>1. StoreDisk /\ StoreCalls /\ StoreMemory /\ Locked /\ Kept
    BY DEF StoreInv
  <1>2. CASE FS!Update(t)
    <2>1. account' = account /\ call[t].at = "idle" /\ told.mu[ProcOf[t]] = ""
      <3>1. account' = account /\ told.mu[ProcOf[t]] = "" /\ call[t] = FS!Idle
        BY <1>2 DEF FS!Update
      <3>2. FS!Idle.at = "idle"
        BY DEF FS!Idle
      <3> QED
        BY <3>1, <3>2
    <2>0. ~call[t].flock
      BY <1>1, <2>1 DEF Locked
    <2>2. PICK at \in {"read", "lock"} :
            /\ at = "read" => ProcOf[t] \in told.held
            /\ call' = [call EXCEPT ![t].at = at]
      BY <1>2 DEF FS!Update
    <2>3. /\ call'[t].at = at /\ call'[t].seen = call[t].seen /\ call'[t].flock = call[t].flock
          /\ \A u \in Threads \ {t} : call'[u] = call[u]
          /\ StoreCalls'
      BY <1>1, <2>2 DEF StoreCalls
    <2>4. /\ told'.held = told.held /\ told'.acked = told.acked /\ told'.overlap = told.overlap
          /\ told'.mu = [told.mu EXCEPT ![ProcOf[t]] = t]
          /\ StoreMemory'
      BY <1>1, <1>2, StoreUsers DEF FS!Update, StoreMemory
    <2>5. \A u \in Threads : call[u].at # "idle" => ProcOf[u] # ProcOf[t]
      BY <1>1, <2>1, StoreUsers DEF Locked
    <2>6. Locked'
      <3>1. \A u \in Threads : call'[u].at # "idle" => told'.mu[ProcOf[u]] = u
        <4> SUFFICES ASSUME NEW u \in Threads, call'[u].at # "idle" PROVE told'.mu[ProcOf[u]] = u
          OBVIOUS
        <4>1. CASE u = t
          BY <4>1, <1>1, <2>4, StoreUsers DEF StoreMemory
        <4>2. CASE u # t
          <5>1. call[u].at # "idle"
            BY <4>2, <2>3
          <5> QED
            BY <5>1, <1>1, <2>4, <2>5, StoreUsers DEF Locked, StoreMemory
        <4> QED
          BY <4>1, <4>2
      <3> QED
        BY <3>1, <1>1, <2>0, <2>1, <2>3, <2>4 DEF Locked
    <2>7. Kept'
      <3> SUFFICES ASSUME ~told.overlap PROVE Kept'
        BY <2>4 DEF Kept
      <3>1. UnderFlock'
        BY <1>1, <2>2, <2>3, <2>4 DEF Kept, UnderFlock, Works
      <3>2. FileAsRead'
        BY <1>1, <2>1, <2>2, <2>3 DEF Kept, FileAsRead
      <3>3. AckedIsThere'
        BY <1>1, <2>1, <2>4 DEF Kept, AckedIsThere
      <3> QED
        BY <3>1, <3>2, <3>3 DEF Kept
    <2> QED
      BY <1>1, <2>1, <2>3, <2>4, <2>6, <2>7 DEF StoreInv, StoreDisk
  <1>3. CASE FS!lock(t)
    <2>1. told' = told /\ call[t].at = "lock" /\ account.lock = ""
      BY <1>3 DEF FS!lock
    <2>2. /\ account'.lock = ProcOf[t] /\ account'.file = account.file
          /\ StoreDisk'
      BY <1>1, <1>3, StoreUsers DEF FS!lock, StoreDisk
    <2>3. /\ call'[t].at = "read" /\ call'[t].flock
          /\ \A u \in Threads \ {t} : call'[u] = call[u]
          /\ StoreCalls'
      BY <1>1, <1>3 DEF FS!lock, StoreCalls
    <2>4. told.held = {} /\ \A u \in Threads : ~call[u].flock
      <3>1. told.held = {}
        BY <1>1, <2>1, StoreUsers DEF Locked, StoreMemory
      <3>2. \A u \in Threads : ~call[u].flock
        BY <1>1, <2>1, StoreUsers DEF Locked
      <3> QED
        BY <3>1, <3>2
    <2>5. Locked'
      BY <1>1, <2>1, <2>2, <2>3, <2>4 DEF Locked
    <2>6. Kept'
      <3> SUFFICES ASSUME ~told.overlap PROVE Kept'
        BY <2>1 DEF Kept
      <3>1. UnderFlock'
        BY <1>1, <2>1, <2>3 DEF Kept, UnderFlock, Works
      <3>2. FileAsRead'
        BY <1>1, <2>2, <2>3 DEF Kept, FileAsRead
      <3>3. AckedIsThere'
        BY <1>1, <2>1, <2>2 DEF Kept, AckedIsThere
      <3> QED
        BY <3>1, <3>2, <3>3 DEF Kept
    <2> QED
      BY <1>1, <2>1, <2>2, <2>3, <2>5, <2>6 DEF StoreInv, StoreMemory
  <1> QED
    BY <1>2, <1>3

\* An update reads the file, then replaces it by what it read and its own.
LEMMA StoreWrite ==
  ASSUME StoreInv, NEW t \in Threads, FS!readFromDisk(t) \/ FS!writeToDisk(t)
  PROVE  StoreInv'
  <1>1. StoreDisk /\ StoreCalls /\ StoreMemory /\ Locked /\ Kept
    BY DEF StoreInv
  <1>2. CASE FS!readFromDisk(t)
    <2>1. told' = told /\ account' = account /\ call[t].at = "read"
      BY <1>2 DEF FS!readFromDisk
    <2>2. /\ call'[t].at = "write" /\ call'[t].flock = call[t].flock /\ call'[t].seen = account.file
          /\ \A u \in Threads \ {t} : call'[u] = call[u]
          /\ StoreCalls'
      BY <1>1, <1>2 DEF FS!readFromDisk, StoreCalls, StoreDisk
    <2>3. Locked' /\ Kept'
      BY <1>1, <2>1, <2>2 DEF Locked, Kept, UnderFlock, FileAsRead, AckedIsThere, Works
    <2> QED
      BY <1>1, <2>1, <2>2, <2>3 DEF StoreInv, StoreDisk, StoreMemory
  <1>3. CASE FS!writeToDisk(t)
    <2>1. told' = told /\ call[t].at = "write"
      BY <1>3 DEF FS!writeToDisk
    <2>2. /\ account'.lock = account.lock /\ account'.file = call[t].seen \cup {t}
          /\ StoreDisk'
      BY <1>1, <1>3 DEF FS!writeToDisk, FS!TempSynced, StoreDisk, StoreCalls
    <2>3. /\ call'[t].at = "unlock" /\ call'[t].flock = call[t].flock
          /\ \A u \in Threads \ {t} : call'[u] = call[u]
          /\ StoreCalls'
      BY <1>1, <1>3 DEF FS!writeToDisk, StoreCalls
    <2>4. Locked'
      BY <1>1, <2>1, <2>2, <2>3 DEF Locked
    <2>5. Kept'
      <3> SUFFICES ASSUME ~told.overlap PROVE Kept'
        BY <2>1 DEF Kept
      <3>1. \A u \in Threads \ {t} : ~Works(u)
        BY <2>1, OneWorks DEF Works
      <3>2. account'.file = account.file \cup {t}
        BY <1>1, <2>1, <2>2 DEF Kept, UnderFlock, FileAsRead, AckedIsThere
      <3> QED
        BY <1>1, <2>1, <2>3, <3>1, <3>2 DEF Kept, UnderFlock, FileAsRead, AckedIsThere, Works
    <2> QED
      BY <1>1, <2>1, <2>2, <2>3, <2>4, <2>5 DEF StoreInv, StoreMemory
  <1> QED
    BY <1>2, <1>3

\* The unlocks: of the mutex, and of the flock if the update took it.
LEMMA StoreUnlock ==
  ASSUME StoreInv, NEW t \in Threads, FS!fnFails(t) \/ FS!unlock(t)
  PROVE  StoreInv'
  <1>1. StoreDisk /\ StoreCalls /\ StoreMemory /\ Locked /\ Kept
    BY DEF StoreInv
  <1>2. call[t].at # "idle" /\ call' = [call EXCEPT ![t] = FS!Idle]
    BY DEF FS!fnFails, FS!unlock
  <1>3. /\ account' = IF call[t].flock THEN [account EXCEPT !.lock = ""] ELSE account
    BY DEF FS!fnFails, FS!unlock, FS!Unlocked
  <1>4. /\ account'.lock = (IF call[t].flock THEN "" ELSE account.lock) /\ account'.file = account.file
        /\ StoreDisk'
    BY <1>1, <1>3 DEF StoreDisk
  <1>5. /\ call'[t].at = "idle" /\ ~call'[t].flock
        /\ \A u \in Threads \ {t} : call'[u] = call[u]
        /\ StoreCalls'
    BY <1>1, <1>2 DEF FS!Idle, StoreCalls
  <1>6. /\ told'.held = told.held /\ told'.overlap = told.overlap
        /\ told'.mu = [told.mu EXCEPT ![ProcOf[t]] = ""]
        /\ told'.acked = told.acked \/ (call[t].at = "unlock" /\ told'.acked = told.acked \cup {t})
        /\ StoreMemory'
    <2>1. CASE FS!fnFails(t)
      BY <1>1, <2>1, StoreUsers DEF FS!fnFails, FS!Freed, StoreMemory
    <2>2. CASE FS!unlock(t)
      BY <1>1, <2>2, StoreUsers DEF FS!unlock, FS!Freed, StoreMemory
    <2> QED
      BY <2>1, <2>2
  <1>7. \A u \in Threads \ {t} : call[u].at # "idle" => ProcOf[u] # ProcOf[t]
    BY <1>1, <1>2 DEF Locked
  <1>8. Locked'
    <2>1. \A u \in Threads : call'[u].at # "idle" => told'.mu[ProcOf[u]] = u
      <3> SUFFICES ASSUME NEW u \in Threads, call'[u].at # "idle" PROVE told'.mu[ProcOf[u]] = u
        OBVIOUS
      <3>1. u # t /\ call[u].at # "idle"
        BY <1>5
      <3>2. ProcOf[u] # ProcOf[t] /\ told.mu[ProcOf[u]] = u
        BY <1>1, <1>7, <3>1 DEF Locked
      <3> QED
        BY <3>2, <1>1, <1>6, StoreUsers DEF StoreMemory
    <2>2. \A u \in Threads : call'[u].flock =>
             call'[u].at # "idle" /\ account'.lock = ProcOf[u] /\ ProcOf[u] \notin told'.held
      <3> SUFFICES ASSUME NEW u \in Threads, call'[u].flock
                   PROVE  call'[u].at # "idle" /\ account'.lock = ProcOf[u] /\ ProcOf[u] \notin told'.held
        OBVIOUS
      <3>1. u # t /\ call'[u] = call[u] /\ call[u].flock
        BY <1>5
      <3>2. call[u].at # "idle" /\ account.lock = ProcOf[u] /\ ProcOf[u] \notin told.held
        BY <1>1, <3>1 DEF Locked
      <3>3. ~call[t].flock
        BY <1>1, <1>7, <3>1, <3>2 DEF Locked
      <3>4. account'.lock = account.lock /\ told'.held = told.held
        BY <1>4, <1>6, <3>3
      <3> QED
        BY <3>1, <3>2, <3>4
    <2>3. \A p \in told'.held : account'.lock = p
      <3> SUFFICES ASSUME NEW p \in told.held PROVE account'.lock = p
        BY <1>6
      <3>1. account.lock = p /\ ~call[t].flock
        BY <1>1 DEF Locked
      <3> QED
        BY <1>4, <3>1
    <2> QED
      BY <2>1, <2>2, <2>3 DEF Locked
  <1>9. Kept'
    <2> SUFFICES ASSUME ~told.overlap PROVE Kept'
      BY <1>6 DEF Kept
    <2>1. UnderFlock'
      BY <1>1, <1>5, <1>6 DEF Kept, UnderFlock, Works
    <2>2. FileAsRead'
      BY <1>1, <1>4, <1>5 DEF Kept, FileAsRead
    <2>3. AckedIsThere'
      BY <1>1, <1>4, <1>6 DEF Kept, FileAsRead, AckedIsThere
    <2> QED
      BY <2>1, <2>2, <2>3 DEF Kept
  <1> QED
    BY <1>4, <1>5, <1>6, <1>8, <1>9 DEF StoreInv

\* The rename reaches the disk; a process is killed and its locks go with it;
\* the machine loses power and the file is the old one or the new.
LEMMA StoreFaults ==
  ASSUME StoreInv, FS!entryFlushed \/ FS!powerLost \/ \E p \in Procs : FS!killed(p)
  PROVE  StoreInv'
  <1>1. StoreDisk /\ StoreCalls /\ StoreMemory /\ Locked /\ Kept
    BY DEF StoreInv
  <1>2. CASE FS!entryFlushed
    <2>1. call' = call /\ told' = told
      BY <1>2 DEF FS!entryFlushed
    <2>2. account'.lock = account.lock /\ account'.file = account.file /\ StoreDisk'
      BY <1>1, <1>2 DEF FS!entryFlushed, StoreDisk
    <2> QED
      BY <1>1, <2>1, <2>2 DEF StoreInv, StoreCalls, StoreMemory, Locked, Kept, UnderFlock, FileAsRead, AckedIsThere, Works
  <1>3. CASE FS!powerLost
    <2>1. StoreDisk'
      BY <1>1, <1>3 DEF FS!powerLost, StoreDisk
    <2>2. call' = [t \in Threads |-> FS!Idle]
      BY <1>3 DEF FS!powerLost
    <2>3. StoreCalls' /\ \A t \in Threads : call'[t].at = "idle" /\ ~call'[t].flock
      BY <2>2 DEF FS!Idle, StoreCalls
    <2>4. /\ told'.held = {} /\ told'.overlap = told.overlap /\ told'.acked = told.acked \cap account'.file
          /\ StoreMemory'
      BY <1>1, <1>3 DEF FS!powerLost, StoreMemory
    <2>5. Locked' /\ Kept'
      BY <2>3, <2>4 DEF Locked, Kept, UnderFlock, FileAsRead, AckedIsThere, Works
    <2> QED
      BY <2>1, <2>3, <2>4, <2>5 DEF StoreInv
  <1>4. CASE \E p \in Procs : FS!killed(p)
    <2>1. PICK p \in Procs : FS!killed(p)
      BY <1>4
    <2>2. /\ account'.file = account.file /\ account'.lock = (IF account.lock = p THEN "" ELSE account.lock)
          /\ StoreDisk'
      BY <1>1, <2>1 DEF FS!killed, StoreDisk
    <2>3. call' = [t \in Threads |-> IF ProcOf[t] = p THEN FS!Idle ELSE call[t]]
      BY <2>1 DEF FS!killed
    <2>4. /\ \A t \in Threads : IF ProcOf[t] = p THEN call'[t].at = "idle" /\ ~call'[t].flock ELSE call'[t] = call[t]
          /\ StoreCalls'
      BY <1>1, <2>3 DEF FS!Idle, StoreCalls
    <2>5. /\ told'.held = told.held \ {p} /\ told'.overlap = told.overlap /\ told'.acked = told.acked
          /\ told'.mu = [told.mu EXCEPT ![p] = ""]
          /\ StoreMemory'
      BY <1>1, <2>1 DEF FS!killed, StoreMemory
    <2>6. Locked'
      <3>1. \A t \in Threads : call'[t].at # "idle" => told'.mu[ProcOf[t]] = t
        <4> SUFFICES ASSUME NEW t \in Threads, call'[t].at # "idle" PROVE told'.mu[ProcOf[t]] = t
          OBVIOUS
        <4>1. ProcOf[t] # p /\ call[t].at # "idle"
          BY <2>4
        <4>2. told.mu[ProcOf[t]] = t /\ ProcOf[t] \in Procs
          BY <1>1, <4>1, StoreUsers DEF Locked
        <4> QED
          BY <1>1, <2>5, <4>1, <4>2 DEF StoreMemory
      <3>2. \A t \in Threads : call'[t].flock =>
               call'[t].at # "idle" /\ account'.lock = ProcOf[t] /\ ProcOf[t] \notin told'.held
        <4> SUFFICES ASSUME NEW t \in Threads, call'[t].flock
                     PROVE  call'[t].at # "idle" /\ account'.lock = ProcOf[t] /\ ProcOf[t] \notin told'.held
          OBVIOUS
        <4>1. ProcOf[t] # p /\ call'[t] = call[t] /\ call[t].flock
          BY <2>4
        <4>2. call[t].at # "idle" /\ account.lock = ProcOf[t] /\ ProcOf[t] \notin told.held
          BY <1>1, <4>1 DEF Locked
        <4> QED
          BY <2>2, <2>5, <4>1, <4>2
      <3>3. \A q \in told'.held : account'.lock = q
        <4> SUFFICES ASSUME NEW q \in told.held, q # p PROVE account'.lock = q
          BY <2>5
        <4>1. account.lock = q
          BY <1>1 DEF Locked
        <4> QED
          BY <2>2, <4>1
      <3> QED
        BY <3>1, <3>2, <3>3 DEF Locked
    <2>7. Kept'
      <3> SUFFICES ASSUME ~told.overlap PROVE Kept'
        BY <2>5 DEF Kept
      <3>1. UnderFlock'
        BY <1>1, <2>4, <2>5 DEF Kept, UnderFlock, Works
      <3>2. FileAsRead'
        BY <1>1, <2>2, <2>4 DEF Kept, FileAsRead
      <3>3. AckedIsThere'
        BY <1>1, <2>2, <2>5 DEF Kept, AckedIsThere
      <3> QED
        BY <3>1, <3>2, <3>3 DEF Kept
    <2> QED
      BY <2>2, <2>4, <2>5, <2>6, <2>7 DEF StoreInv
  <1> QED
    BY <1>2, <1>3, <1>4

\* StoreSafe, for any processes and goroutines: no acknowledged update of the
\* state file is overwritten and the file is never torn, unless a lifetime lock
\* is released under an update that relies on it (stores/file/file.go).
THEOREM StoreCorrect == MachineSpec => []StoreSafe
  <1> DEFINE Inv == part = "store" => StoreInv
  <1>1. MachineInit => Inv
    BY StoreStart DEF MachineInit
  <1>2. Inv /\ [MachineNext]_vars => Inv'
    <2> SUFFICES ASSUME Inv, [MachineNext]_vars, part' = "store" PROVE StoreInv'
      OBVIOUS
    <2>1. part = "store" /\ StoreInv
      BY DEF MachineNext, vars
    <2>2. CASE UNCHANGED vars
      BY <2>1, <2>2 DEF vars, StoreInv, StoreDisk, StoreCalls, StoreMemory, Locked, Kept, UnderFlock, FileAsRead, AckedIsThere, Works
    <2>3. CASE FS!fsNext
      BY <2>1, <2>3, StoreLifetime, StoreRelease, StoreLock, StoreWrite, StoreUnlock, StoreFaults DEF FS!fsNext
    <2> QED
      BY <2>1, <2>2, <2>3 DEF MachineNext
  <1>3. Inv => StoreSafe
    <2> SUFFICES ASSUME StoreInv PROVE FS!NoLostUpdate /\ FS!NeverTorn
      BY DEF StoreSafe
    <2>1. FS!NoLostUpdate
      BY DEF StoreInv, Kept, UnderFlock, FileAsRead, AckedIsThere, FS!NoLostUpdate
    <2>2. FS!NeverTorn
      BY DEF StoreInv, StoreDisk, FS!NeverTorn
    <2> QED
      BY <2>1, <2>2
  <1> QED
    BY <1>1, <1>2, <1>3, PTL DEF MachineSpec

-----------------------------------------------------------------------------
(***************************************************************************)
(* Engines over SSH.                                                       *)
(***************************************************************************)

Containers == {<<>>} \cup {<<c>> : c \in [image : Images, running : BOOLEAN]}

Machine ==
    [user : {"root", "sudo", "plain"}, docker : {"yes", "apt", "no"}, engine : Containers, agent : Containers]

SshSteps ==
    {"idle", "dial", "ensure", "inspect", "stop", "remove", "pull", "run", "agent", "health", "stop agent"}

SshResults ==
    {"", "RUNNING", "TERMINATED", "FAILED", "denied", "lost", "unreachable", "no docker", "no image", "name in use"}

SshCalls ==
    [op : {"deploy"}, at : SshSteps, image : Images] \cup [op : {"", "destroy"}, at : SshSteps, image : {""}]

SshOutcomes == [result : SshResults, image : Images \cup {""}, calls : Nat]

HostTyped == account \in Machine /\ call \in SshCalls /\ told \in SshOutcomes

Serves(image) == account.engine # <<>> /\ account.engine[1].image = image

\* Where the call is says what is on the machine, and only a deploy starts an
\* engine.
CallKnows ==
    /\ call.at \in {"pull", "run"} => account.engine = <<>>
    /\ call.at \in {"pull", "run", "agent", "health", "ensure", "inspect"} => call.op = "deploy"
    /\ call.at \in {"agent", "health"} => Serves(call.image)

\* A result is the last call's, and says what that left.
ResultKnows ==
    /\ call.at # "idle" => told.result = ""
    /\ told.result = "RUNNING" => Serves(told.image)
    /\ told.result = "TERMINATED" => account.engine = <<>>
    /\ told.result = "denied" => account.user = "plain" \/ account.docker # "yes"

HostInv == HostTyped /\ CallKnows /\ ResultKnows

\* What a docker command leaves and answers: refused, lost before or after it
\* ran, or done.
LEMMA DockerAnswers ==
  ASSUME HostTyped, NEW after, NEW out, NEW a \in SH!dockerRun(after, out)
  PROVE  \/ a.host = account /\ a.out = "denied" /\ (account.user = "plain" \/ account.docker # "yes")
         \/ a.host \in {account, after} /\ a.out = "lost"
         \/ a.host = after /\ a.out = out
  <1>1. account.user \in {"root", "sudo", "plain"}
    BY DEF HostTyped, Machine
  <1>2. CASE account.docker # "yes" \/ account.user \notin {"root", "sudo"}
    <2>1. a = [host |-> account, out |-> "denied"]
      BY <1>2 DEF SH!dockerRun, SH!resolveElevation
    <2> QED
      BY <1>1, <1>2, <2>1
  <1>3. CASE account.docker = "yes" /\ account.user \in {"root", "sudo"}
    <2>1. a \in {[host |-> account, out |-> "lost"], [host |-> after, out |-> "lost"], [host |-> after, out |-> out]}
      BY <1>3 DEF SH!dockerRun, SH!resolveElevation
    <2> QED
      BY <2>1
  <1> QED
    BY <1>2, <1>3

\* The machine is handed over without an engine and without a call.
LEMMA HostStart == SH!shInit => HostInv
  <1> SUFFICES ASSUME SH!shInit PROVE HostInv
    OBVIOUS
  <1>1. account \in Machine
    BY DEF SH!shInit, Machine, Containers
  <1>2. call \in SshCalls /\ call.at = "idle"
    BY DEF SH!shInit, SH!Idle, SshCalls, SshSteps
  <1>3. told \in SshOutcomes /\ told.result = ""
    BY DEF SH!shInit, SshOutcomes, SshResults
  <1> QED
    BY <1>1, <1>2, <1>3 DEF HostInv, HostTyped, CallKnows, ResultKnows

\* A call ends with a result that says what it left.
LEMMA HostEnds ==
  ASSUME HostTyped, account' \in Machine, NEW r \in SshResults, SH!Ends(r),
         r = "RUNNING" => account'.engine # <<>> /\ account'.engine[1].image = call.image,
         r = "TERMINATED" => account'.engine = <<>>,
         r = "denied" => account'.user = "plain" \/ account'.docker # "yes"
  PROVE  HostInv'
  <1>1. call' \in SshCalls /\ call'.at = "idle"
    BY DEF SH!Ends, SH!Idle, SshCalls, SshSteps
  <1>2. call.image \in Images \cup {""}
    BY DEF HostTyped, SshCalls
  <1>3. told' \in SshOutcomes /\ told'.result = r /\ told'.image = call.image
    BY <1>2 DEF SH!Ends, HostTyped, SshOutcomes
  <1> QED
    BY <1>1, <1>3 DEF HostInv, HostTyped, CallKnows, ResultKnows, Serves

\* The machine with another engine on it.
LEMMA HostWith ==
  ASSUME HostTyped, NEW e \in Containers
  PROVE  /\ [account EXCEPT !.engine = e].engine = e
         /\ [account EXCEPT !.engine = e].user = account.user
         /\ [account EXCEPT !.engine = e].docker = account.docker
         /\ [account EXCEPT !.engine = e] \in Machine
  BY DEF HostTyped, Machine

\* A container stopped or started is the same container.
LEMMA HostStopped ==
  ASSUME HostTyped, account.engine # <<>>, NEW b \in BOOLEAN
  PROVE  LET e == <<[account.engine[1] EXCEPT !.running = b]>> IN
         e \in Containers /\ e # <<>> /\ e[1].image = account.engine[1].image
  <1>1. account.engine \in Containers
    BY DEF HostTyped, Machine
  <1>2. PICK c \in [image : Images, running : BOOLEAN] : account.engine = <<c>>
    BY <1>1 DEF Containers
  <1>3. /\ [c EXCEPT !.running = b] \in [image : Images, running : BOOLEAN]
        /\ [c EXCEPT !.running = b].image = c.image
    OBVIOUS
  <1> QED
    BY <1>2, <1>3 DEF Containers

\* A call begins: the last result is forgotten.
LEMMA HostCalls ==
  ASSUME HostInv, NEW c \in SshCalls, call' = c, c.at = "dial", account' = account,
         told' = [told EXCEPT !.result = "", !.calls = @ + 1]
  PROVE  HostInv'
  <1>1. HostTyped
    BY DEF HostInv
  <1>2. told'.result = "" /\ told' \in SshOutcomes
    <2>1. told \in SshOutcomes
      BY <1>1 DEF HostTyped
    <2>2. told.calls \in Nat
      BY <2>1 DEF SshOutcomes
    <2>3. told.calls + 1 \in Nat
      BY <2>2
    <2>4. "" \in SshResults
      BY DEF SshResults
    <2> QED
      BY <2>1, <2>3, <2>4 DEF SshOutcomes
  <1>3. HostTyped'
    BY <1>1, <1>2 DEF HostTyped
  <1> QED
    BY <1>2, <1>3 DEF HostInv, CallKnows, ResultKnows

\* The engine exits and docker starts it again.
LEMMA HostEngine ==
  ASSUME HostInv, SH!EngineExits \/ SH!EngineRestarts
  PROVE  HostInv'
  <1>1. HostTyped /\ CallKnows /\ ResultKnows /\ account.engine # <<>> /\ call' = call /\ told' = told
    BY DEF HostInv, SH!EngineExits, SH!EngineRestarts
  <1>2. PICK b \in BOOLEAN : account' = [account EXCEPT !.engine = <<[account.engine[1] EXCEPT !.running = b]>>]
    <2>1. CASE SH!EngineExits
      BY <1>1, <2>1 DEF SH!EngineExits, SH!StoppedEngine
    <2>2. CASE SH!EngineRestarts
      BY <1>1, <2>2 DEF SH!EngineRestarts
    <2> QED
      BY <2>1, <2>2
  <1>3. /\ account'.engine # <<>> /\ account'.engine[1].image = account.engine[1].image
        /\ account'.user = account.user /\ account'.docker = account.docker /\ account' \in Machine
    BY <1>1, <1>2, HostStopped, HostWith
  <1>4. HostTyped'
    BY <1>1, <1>3 DEF HostTyped
  <1> QED
    BY <1>1, <1>3, <1>4 DEF HostInv, CallKnows, ResultKnows, Serves

\* What a step of a call counts on when it begins.
Expects(at, host) ==
    /\ at \in {"pull", "run"} => host.engine = <<>>
    /\ at \in {"pull", "run", "agent", "health", "ensure", "inspect"} => call.op = "deploy"
    /\ at \in {"agent", "health"} => host.engine # <<>> /\ host.engine[1].image = call.image

\* An answer that keeps the invariant: a failure that says what is so, or a
\* success the next step can count on.
Sound(a, next) ==
    /\ a.host \in Machine
    /\ \/ a.out = "ok" /\ Expects(next, a.host)
       \/ a.out \in {"lost", "unreachable", "no docker", "no image", "name in use"}
       \/ a.out = "denied" /\ (a.host.user = "plain" \/ a.host.docker # "yes")

\* A command of a call: it fails with what it answered, or leads on, and what
\* it leaves on the machine is what the next one counts on.
LEMMA HostStep ==
  ASSUME HostInv, NEW at, NEW answers, NEW next \in SshSteps, SH!Step(at, answers, next),
         at # "idle", next # "idle", \A a \in answers : Sound(a, next)
  PROVE  HostInv'
  <1>1. HostTyped /\ call.at = at /\ told.result = ""
    BY DEF HostInv, ResultKnows, SH!Step
  <1>2. PICK a \in answers :
           /\ account' = a.host
           /\ IF a.out = "ok" THEN call' = [call EXCEPT !.at = next] /\ UNCHANGED told ELSE SH!Ends(a.out)
    BY DEF SH!Step
  <1>3. Sound(a, next) /\ account' \in Machine
    BY <1>2 DEF Sound
  <1>4. CASE a.out = "ok"
    <2>1. /\ call'.at = next /\ call'.op = call.op /\ call'.image = call.image /\ call' \in SshCalls
      BY <1>1, <1>2, <1>4 DEF HostTyped, SshCalls
    <2>2. told' = told
      BY <1>2, <1>4
    <2>3. HostTyped'
      BY <1>1, <1>3, <2>1, <2>2 DEF HostTyped
    <2>4. CallKnows'
      <3>1. Expects(next, a.host)
        BY <1>3, <1>4 DEF Sound
      <3> QED
        BY <1>2, <2>1, <3>1 DEF CallKnows, Serves, Expects
    <2>5. ResultKnows'
      BY <1>1, <2>2 DEF ResultKnows
    <2> QED
      BY <2>3, <2>4, <2>5 DEF HostInv
  <1>5. CASE a.out # "ok"
    <2>1. SH!Ends(a.out)
      BY <1>2, <1>5
    <2>2. /\ a.out \in SshResults /\ a.out # "RUNNING" /\ a.out # "TERMINATED"
          /\ a.out = "denied" => account'.user = "plain" \/ account'.docker # "yes"
      BY <1>2, <1>3, <1>5 DEF Sound, SshResults
    <2> QED
      BY <1>1, <1>3, <2>1, <2>2, HostEnds
  <1> QED
    BY <1>4, <1>5

\* A docker command is sound if what it does is what the next step counts on.
LEMMA HostRuns ==
  ASSUME HostTyped, NEW after \in Machine, NEW next, Expects(next, after)
  PROVE  \A a \in SH!dockerRun(after, "ok") : Sound(a, next)
  <1> SUFFICES ASSUME NEW a \in SH!dockerRun(after, "ok") PROVE Sound(a, next)
    OBVIOUS
  <1>1. account \in Machine
    BY DEF HostTyped
  <1>2. \/ a.host = account /\ a.out = "denied" /\ (account.user = "plain" \/ account.docker # "yes")
        \/ a.host \in {account, after} /\ a.out = "lost"
        \/ a.host = after /\ a.out = "ok"
    BY DockerAnswers
  <1> QED
    BY <1>1, <1>2 DEF Sound

\* The commands that touch no engine: dialing, installing docker, looking,
\* pulling the image.
LEMMA HostLooks ==
  ASSUME HostInv, SH!SSHDial \/ SH!EnsureInstalled \/ SH!Inspect \/ SH!Pull
  PROVE  HostInv'
  <1>1. HostTyped /\ CallKnows /\ account \in Machine
    BY DEF HostInv, HostTyped
  <1>2. CASE SH!SSHDial
    <2> DEFINE answers == {[host |-> account, out |-> o] : o \in {"ok", "unreachable"}}
               next == IF call.op = "deploy" THEN "ensure" ELSE "stop agent"
    <2>1. SH!Step("dial", answers, next)
      BY <1>2 DEF SH!SSHDial
    <2>2. next \in SshSteps /\ next # "idle" /\ Expects(next, account)
      BY DEF SshSteps, Expects
    <2>3. ASSUME NEW a \in answers PROVE Sound(a, next)
      <3>1. a.host = account /\ a.out \in {"ok", "unreachable"}
        BY <2>3
      <3> QED
        BY <1>1, <2>2, <3>1 DEF Sound
    <2> HIDE DEF answers, next
    <2> QED
      BY <2>1, <2>2, <2>3, HostStep
  <1>3. CASE SH!EnsureInstalled
    <2> DEFINE answers == IF account.docker = "yes" THEN {[host |-> account, out |-> o] : o \in {"ok", "lost"}}
                          ELSE IF account.docker = "apt" /\ account.user = "root"
                          THEN {[host |-> [account EXCEPT !.docker = "yes"], out |-> o] : o \in {"ok", "lost"}}
                          ELSE {[host |-> account, out |-> "no docker"]}
    <2>1. SH!Step("ensure", answers, "inspect") /\ call.op = "deploy"
      BY <1>1, <1>3 DEF SH!EnsureInstalled, SH!Step, CallKnows
    <2>2. [account EXCEPT !.docker = "yes"] \in Machine
      BY <1>1 DEF Machine
    <2>3. ASSUME NEW a \in answers PROVE Sound(a, "inspect")
      <3>1. PICK host \in {account, [account EXCEPT !.docker = "yes"]}, o \in {"ok", "lost", "no docker"} :
               a = [host |-> host, out |-> o]
        <4>1. CASE account.docker = "yes"
          BY <2>3, <4>1
        <4>2. CASE account.docker # "yes" /\ account.docker = "apt" /\ account.user = "root"
          BY <2>3, <4>2
        <4>3. CASE account.docker # "yes" /\ ~(account.docker = "apt" /\ account.user = "root")
          BY <2>3, <4>3
        <4> QED
          BY <4>1, <4>2, <4>3
      <3>2. a.host \in Machine /\ a.out \in {"ok", "lost", "no docker"}
        BY <1>1, <2>2, <3>1
      <3> QED
        BY <2>1, <3>2 DEF Sound, Expects
    <2>4. "inspect" \in SshSteps
      BY DEF SshSteps
    <2> HIDE DEF answers
    <2> QED
      BY <2>1, <2>3, <2>4, HostStep
  <1>4. CASE SH!Inspect
    <2> DEFINE next == IF SH!Matches(account.engine) THEN "health"
                       ELSE IF SH!Drifted(account.engine) THEN "stop" ELSE "pull"
    <2>1. SH!Step("inspect", SH!dockerRun(account, "ok"), next) /\ call.op = "deploy"
      BY <1>1, <1>4 DEF SH!Inspect, SH!Step, CallKnows
    <2>2. next \in SshSteps /\ next # "idle" /\ Expects(next, account)
      BY <2>1 DEF SH!Matches, SH!Drifted, Expects, SshSteps
    <2> HIDE DEF next
    <2>3. \A a \in SH!dockerRun(account, "ok") : Sound(a, next)
      BY <1>1, <2>2, HostRuns
    <2> QED
      BY <2>1, <2>2, <2>3, HostStep
  <1>5. CASE SH!Pull
    <2> DEFINE answers == SH!dockerRun(account, "ok") \cup {[host |-> account, out |-> "no image"]}
    <2>1. SH!Step("pull", answers, "run") /\ call.op = "deploy" /\ account.engine = <<>>
      BY <1>1, <1>5 DEF SH!Pull, SH!Step, CallKnows
    <2>2. Expects("run", account) /\ "run" \in SshSteps
      BY <2>1 DEF Expects, SshSteps
    <2>3. \A a \in SH!dockerRun(account, "ok") : Sound(a, "run")
      BY <1>1, <2>2, HostRuns
    <2>4. Sound([host |-> account, out |-> "no image"], "run")
      BY <1>1 DEF Sound
    <2>5. \A a \in answers : Sound(a, "run")
      BY <2>3, <2>4
    <2> HIDE DEF answers
    <2> QED
      BY <2>1, <2>2, <2>5, HostStep
  <1> QED
    BY <1>2, <1>3, <1>4, <1>5

\* The commands that stop, remove and start the engine.
LEMMA HostActs ==
  ASSUME HostInv, SH!Stop \/ SH!Remove \/ SH!Run
  PROVE  HostInv'
  <1>1. HostTyped /\ CallKnows /\ account \in Machine
    BY DEF HostInv, HostTyped
  <1>2. CASE SH!Stop
    <2>1. SH!Step("stop", SH!dockerRun(SH!StoppedEngine, "ok"), "remove")
      BY <1>2 DEF SH!Stop
    <2>2. SH!StoppedEngine \in Machine
      <3>1. CASE account.engine = <<>>
        BY <1>1, <3>1 DEF SH!StoppedEngine, Machine
      <3>2. CASE account.engine # <<>>
        <4>1. SH!StoppedEngine = [account EXCEPT !.engine = <<[account.engine[1] EXCEPT !.running = FALSE]>>]
          BY <3>2 DEF SH!StoppedEngine
        <4> QED
          BY <1>1, <3>2, <4>1, HostStopped, HostWith
      <3> QED
        BY <3>1, <3>2
    <2>3. Expects("remove", SH!StoppedEngine) /\ "remove" \in SshSteps
      BY DEF Expects, SshSteps
    <2>4. \A a \in SH!dockerRun(SH!StoppedEngine, "ok") : Sound(a, "remove")
      BY <1>1, <2>2, <2>3, HostRuns
    <2> QED
      BY <2>1, <2>3, <2>4, HostStep
  <1>3. CASE SH!Run
    <2> DEFINE up == <<[image |-> call.image, running |-> TRUE]>>
               host == [account EXCEPT !.engine = up]
    <2>1. account.engine = <<>> /\ call.op = "deploy"
      BY <1>1, <1>3 DEF SH!Run, SH!Step, CallKnows
    <2>2. SH!Step("run", SH!dockerRun(host, "ok"), "agent")
      BY <1>3, <2>1 DEF SH!Run
    <2>3. up \in Containers /\ up # <<>> /\ up[1].image = call.image
      BY <1>1, <2>1 DEF HostTyped, SshCalls, Containers
    <2> HIDE DEF up
    <2>4. host \in Machine /\ host.engine = up
      BY <1>1, <2>3, HostWith
    <2> HIDE DEF host
    <2>5. Expects("agent", host) /\ "agent" \in SshSteps
      BY <2>1, <2>3, <2>4 DEF Expects, SshSteps
    <2>6. \A a \in SH!dockerRun(host, "ok") : Sound(a, "agent")
      BY <1>1, <2>4, <2>5, HostRuns
    <2> QED
      BY <2>2, <2>5, <2>6, HostStep
  <1>4. CASE SH!Remove
    <2> DEFINE bare == [account EXCEPT !.engine = <<>>]
    <2>1. bare \in Machine /\ bare.engine = <<>>
      BY <1>1, HostWith DEF Containers
    <2>2. PICK a \in SH!dockerRun(bare, "ok") :
             /\ account' = a.host
             /\ IF a.out # "ok" THEN SH!Ends(a.out)
                ELSE IF call.op = "deploy" THEN call' = [call EXCEPT !.at = "pull"] /\ UNCHANGED told
                ELSE SH!Ends("TERMINATED")
      BY <1>4 DEF SH!Remove
    <2>3. call.at = "remove" /\ told.result = ""
      BY <1>4 DEF SH!Remove, HostInv, ResultKnows
    <2> HIDE DEF bare
    <2>4. \/ a.host = account /\ a.out = "denied" /\ (account.user = "plain" \/ account.docker # "yes")
          \/ a.host \in {account, bare} /\ a.out = "lost"
          \/ a.host = bare /\ a.out = "ok"
      BY <1>1, DockerAnswers
    <2>5. CASE a.out # "ok"
      <3>1. SH!Ends(a.out)
        BY <2>2, <2>5
      <3>2. a.out \in {"denied", "lost"} /\ a.out \in SshResults /\ account' \in Machine
        BY <1>1, <2>1, <2>2, <2>4, <2>5 DEF SshResults
      <3>3. a.out = "denied" => account'.user = "plain" \/ account'.docker # "yes"
        BY <2>2, <2>4
      <3> QED
        BY <1>1, <3>1, <3>2, <3>3, HostEnds
    <2>6. CASE a.out = "ok" /\ call.op = "deploy"
      <3>1. /\ call'.at = "pull" /\ call'.op = call.op /\ call' \in SshCalls /\ told' = told /\ account' = bare
        BY <1>1, <2>2, <2>4, <2>6 DEF HostTyped, SshCalls, SshSteps
      <3>2. HostTyped'
        BY <1>1, <2>1, <3>1 DEF HostTyped
      <3> QED
        BY <2>1, <2>3, <2>6, <3>1, <3>2 DEF HostInv, CallKnows, ResultKnows
    <2>7. CASE a.out = "ok" /\ call.op # "deploy"
      <3>1. SH!Ends("TERMINATED") /\ account' = bare /\ "TERMINATED" \in SshResults
        BY <2>2, <2>4, <2>7 DEF SshResults
      <3> QED
        BY <1>1, <2>1, <3>1, HostEnds
    <2> QED
      BY <2>5, <2>6, <2>7
  <1> QED
    BY <1>2, <1>3, <1>4

\* The best-effort agent, and the wait for the engine's health.
LEMMA HostWaits ==
  ASSUME HostInv, SH!RunAgent \/ SH!StopAgent \/ SH!pollHealth
  PROVE  HostInv'
  <1>1. HostTyped /\ CallKnows /\ ResultKnows /\ account \in Machine
    BY DEF HostInv, HostTyped
  <1>2. CASE SH!RunAgent \/ SH!StopAgent
    <2>1. PICK next \in {"health", "stop"} :
             /\ next = "health" => call.at = "agent"
             /\ call' = [call EXCEPT !.at = next] /\ told' = told /\ call.at # "idle"
      BY <1>2 DEF SH!RunAgent, SH!StopAgent
    <2>2. /\ account'.engine = account.engine /\ account'.user = account.user /\ account'.docker = account.docker
          /\ account' \in Machine
      <3>1. account.agent \in Containers /\ account.engine \in Containers /\ <<>> \in Containers
        BY <1>1 DEF Machine, Containers
      <3>2. PICK e \in Containers : account' \in {account, [account EXCEPT !.agent = e]}
        BY <1>2, <3>1 DEF SH!RunAgent, SH!StopAgent
      <3> QED
        BY <1>1, <3>2 DEF Machine
    <2>3. call'.at = next /\ call'.op = call.op /\ call'.image = call.image /\ call' \in SshCalls
      BY <1>1, <2>1 DEF HostTyped, SshCalls, SshSteps
    <2>4. HostTyped'
      BY <1>1, <2>1, <2>2, <2>3 DEF HostTyped
    <2> QED
      BY <1>1, <2>1, <2>2, <2>3, <2>4 DEF HostInv, CallKnows, ResultKnows, Serves
  <1>3. CASE SH!pollHealth
    <2>1. account' = account /\ call.at = "health" /\ Serves(call.image) /\ (SH!Ends("RUNNING") \/ SH!Ends("FAILED"))
      BY <1>1, <1>3 DEF SH!pollHealth, CallKnows
    <2> QED
      BY <1>1, <2>1, HostEnds DEF Serves, SshResults
  <1> QED
    BY <1>2, <1>3

\* HostSafe, for any images and any number of calls: RUNNING left the engine
\* asked for, TERMINATED left none, docker run finds its name free, and a
\* machine with docker and sudo refuses nothing (sshdocker).
THEOREM HostCorrect == MachineSpec => []HostSafe
  <1> DEFINE Inv == part = "host" => HostInv
  <1>1. MachineInit => Inv
    BY HostStart DEF MachineInit
  <1>2. Inv /\ [MachineNext]_vars => Inv'
    <2> SUFFICES ASSUME Inv, [MachineNext]_vars, part' = "host" PROVE HostInv'
      OBVIOUS
    <2>1. part = "host" /\ HostInv
      BY DEF MachineNext, vars
    <2>2. CASE UNCHANGED vars
      BY <2>1, <2>2 DEF vars, HostInv, HostTyped, CallKnows, ResultKnows, Serves
    <2>3. CASE SH!shNext
      <3>1. CASE SH!Destroy \/ \E i \in Images : SH!Deploy(i)
        <4>1. CASE SH!Destroy
          <5>1. [op |-> "destroy", at |-> "dial", image |-> ""] \in SshCalls
            BY DEF SshCalls, SshSteps
          <5> QED
            BY <2>1, <4>1, <5>1, HostCalls DEF SH!Destroy
        <4>2. ASSUME NEW i \in Images, SH!Deploy(i) PROVE HostInv'
          <5>1. [op |-> "deploy", at |-> "dial", image |-> i] \in SshCalls
            BY DEF SshCalls, SshSteps
          <5> QED
            BY <2>1, <4>2, <5>1, HostCalls DEF SH!Deploy
        <4> QED
          BY <3>1, <4>1, <4>2
      <3> QED
        BY <2>1, <2>3, <3>1, HostLooks, HostActs, HostWaits, HostEngine DEF SH!shNext
    <2> QED
      BY <2>1, <2>2, <2>3 DEF MachineNext
  <1>3. Inv => HostSafe
    BY DEF HostSafe, HostInv, CallKnows, ResultKnows, Serves, SH!ServesWhatWasAsked, SH!DestroyedIsGone,
           SH!NameIsFree, SH!NeverDenied
  <1> QED
    BY <1>1, <1>2, <1>3, PTL DEF MachineSpec

-----------------------------------------------------------------------------
(***************************************************************************)
(* A cold deploy watching its weights arrive.                              *)
(***************************************************************************)

Readings == [available : BOOLEAN, local : Nat, delta : Nat, interval : Nat]

StageCalls ==
    [polled : BOOLEAN, checkpoint : Nat, hopeless : Nat, reachedLoad : BOOLEAN,
     out : {"wait", "aborted", "ready", "gave up"}]

Phases == {"none", "pull", "engine:init", "engine:download", "engine:load"}

Observers ==
    [cur : Phases, seen : SUBSET Phases, afterLoad : SUBSET Phases, since : Nat, recorded : Nat,
     result : {"none", "running", "timeout", "failed"}]

DiskTyped ==
    /\ account = [disk |-> account.disk, sensor |-> account.sensor, reading |-> account.reading]
    /\ account.disk \in Seq(Nat) /\ Len(account.disk) > 0
    /\ account.reading \in Readings

StageTyped == DiskTyped /\ call \in StageCalls /\ told \in Observers

\* The sensor's baseline is the disk at an earlier time, and a reading with an
\* interval spans two times of it: the rate judged is one that was measured.
Spans(disk, s) ==
    \E a, b \in 1..Len(disk) :
        /\ s.interval = b - a /\ s.local = disk[b]
        /\ s.delta = IF disk[b] > disk[a] THEN disk[b] - disk[a] ELSE 0

SensorSeen == account.sensor = <<>> \/ \E a \in 1..Len(account.disk) : account.sensor = <<a - 1, account.disk[a]>>

ReadingSpans == account.reading.interval > 0 => Spans(account.disk, account.reading)

\* The download does not make the deadline at the rate of the last reading.
Overshoots == ST!overshoots(account.reading, ST!Deadline - ST!Now)

\* While the deploy waits, its count of hopeless readings is below the limit,
\* its latch remembers every load, and the phase it is in has been open since
\* the time recorded so far.
WaitIsOpen ==
    call.out = "wait" =>
        /\ call.hopeless < ST!abortConsecutive
        /\ "engine:load" \in told.seen => call.reachedLoad
        /\ told.cur # "none" /\ told.recorded = told.since /\ told.since <= ST!Now

StagingInv ==
    /\ StageTyped /\ SensorSeen /\ ReadingSpans /\ WaitIsOpen
    /\ ST!AbortIsMeasured /\ ST!LoadingIsSpared /\ ST!DownloadIsOnce /\ ST!PhasesTile

\* The clock counts the states of the disk.
LEMMA StageClock == DiskTyped => ST!Now \in Nat /\ ST!Disk \in Nat /\ ST!Now + 1 = Len(account.disk)
                                 /\ ST!Disk = account.disk[Len(account.disk)]
  BY DEF DiskTyped, ST!Now, ST!Disk

\* What the sensor makes of the disk is a reading.
LEMMA ReadingTyped ==
  ASSUME NEW n \in Nat, NEW d \in Nat, NEW i \in Nat
  PROVE  [available |-> TRUE, local |-> n, delta |-> d, interval |-> i] \in Readings
  BY DEF Readings

\* A deploy starts its wait with a clean count in its first phase.
LEMMA StagingStart == ST!stInit => StagingInv
  <1> SUFFICES ASSUME ST!stInit PROVE StagingInv
    OBVIOUS
  <1>1. PICK there \in 0..1 : account = [disk |-> <<there>>, sensor |-> <<>>, reading |-> ST!NoReading]
    BY DEF ST!stInit
  <1>2. call.hopeless = 0 /\ call.out = "wait" /\ call \in StageCalls
    BY DEF ST!stInit, StageCalls, ST!Checkpoint
  <1>3. /\ told \in Observers /\ told.cur = "pull" /\ told.seen = {"pull"} /\ told.afterLoad = {}
        /\ told.since = 0 /\ told.recorded = 0
    BY DEF ST!stInit, Observers, Phases
  <1>4. ST!NoReading \in Readings /\ ST!NoReading.interval = 0
    BY DEF ST!NoReading, Readings
  <1>5. DiskTyped /\ Len(account.disk) = 1
    <2>1. <<there>> \in Seq(Nat) /\ Len(<<there>>) = 1
      OBVIOUS
    <2> QED
      BY <1>1, <1>4, <2>1 DEF DiskTyped
  <1>6. SensorSeen /\ ReadingSpans
    BY <1>1, <1>4 DEF SensorSeen, ReadingSpans
  <1>7. WaitIsOpen
    BY <1>2, <1>3, <1>5, StageClock DEF WaitIsOpen, ST!abortConsecutive
  <1> QED
    BY <1>2, <1>3, <1>5, <1>6, <1>7
    DEF StagingInv, StageTyped, ST!AbortIsMeasured, ST!LoadingIsSpared, ST!DownloadIsOnce, ST!PhasesTile

\* observe: the phase it is told of is the open one afterwards, and what the
\* closed one took is recorded.
LEMMA StageObserves ==
  ASSUME NEW o \in Observers, o.cur # "none", o.recorded = o.since, o.since <= ST!Now, ST!Now \in Nat,
         NEW phase \in Phases
  PROVE  LET p == ST!observe(o, "STARTING", phase) IN
           /\ p \in Observers /\ p.cur = phase
           /\ p.recorded = p.since /\ p.since <= ST!Now
           /\ p.seen \subseteq o.seen \cup {phase}
           /\ p.afterLoad = o.afterLoad \/ (p.afterLoad = o.afterLoad \cup {phase} /\ "engine:load" \in o.seen)
  <1> DEFINE c == ST!closePhase(o)
             p == ST!observe(o, "STARTING", phase)
  <1>1. CASE phase = o.cur
    <2>1. p = o
      BY <1>1 DEF ST!observe
    <2> QED
      BY <1>1, <2>1
  <1>2. CASE phase # o.cur
    <2>1. p = ST!openPhase(c, phase)
      BY <1>2 DEF ST!observe
    <2>2. c = [o EXCEPT !.cur = "none", !.recorded = o.recorded + (ST!Now - o.since)]
      BY DEF ST!closePhase
    <2>3. o.recorded + (ST!Now - o.since) = ST!Now
      BY DEF Observers
    <2>4. c \in Observers /\ c.seen = o.seen /\ c.afterLoad = o.afterLoad /\ c.recorded = ST!Now
      BY <2>2, <2>3 DEF Observers, Phases
    <2> HIDE DEF c
    <2>5. p = [c EXCEPT !.cur = phase, !.seen = c.seen \cup {phase}, !.since = ST!Now,
                        !.afterLoad = IF "engine:load" \in c.seen THEN c.afterLoad \cup {phase} ELSE c.afterLoad]
      BY <2>1 DEF ST!openPhase
    <2> HIDE DEF p
    <2>6. p \in Observers
      BY <2>4, <2>5 DEF Observers
    <2>7. /\ p.cur = phase /\ p.recorded = p.since /\ p.since <= ST!Now
          /\ p.seen \subseteq o.seen \cup {phase}
          /\ p.afterLoad = o.afterLoad \/ (p.afterLoad = o.afterLoad \cup {phase} /\ "engine:load" \in o.seen)
      BY <2>4, <2>5 DEF Observers
    <2> QED
      BY <2>6, <2>7 DEF p
  <1> QED
    BY <1>1, <1>2

\* finish after a terminal state: no phase is open and the whole time is
\* recorded.
LEMMA StageFinishes ==
  ASSUME NEW o \in Observers, o.cur # "none", o.recorded = o.since, o.since <= ST!Now, ST!Now \in Nat,
         NEW state, state # "STARTING", NEW err
  PROVE  LET p == ST!finish(ST!observe(o, state, "none"), err) IN
           /\ p \in Observers /\ p.cur = "none" /\ p.recorded = ST!Now
           /\ p.seen = o.seen /\ p.afterLoad = o.afterLoad
  <1> DEFINE c == [o EXCEPT !.cur = "none", !.recorded = o.recorded + (ST!Now - o.since)]
  <1>1. ST!observe(o, state, "none") = c
    BY DEF ST!observe, ST!closePhase
  <1>2. o.recorded + (ST!Now - o.since) = ST!Now
    BY DEF Observers
  <1>3. c \in Observers /\ c.cur = "none" /\ c.recorded = ST!Now /\ c.seen = o.seen /\ c.afterLoad = o.afterLoad
    BY <1>2 DEF Observers, Phases
  <1> HIDE DEF c
  <1>4. ST!finish(c, err) = [c EXCEPT !.result = ST!deployResult(err)]
    BY <1>3 DEF ST!finish, ST!closePhase
  <1>5. ST!deployResult(err) \in {"none", "running", "timeout", "failed"}
    BY DEF ST!deployResult
  <1> QED
    BY <1>1, <1>3, <1>4, <1>5 DEF Observers

\* Thirty seconds pass: what was measured stays on the record.
LEMMA StageTime ==
  ASSUME StagingInv, ST!TimePasses
  PROVE  StagingInv'
  <1>1. StageTyped /\ SensorSeen /\ ReadingSpans /\ WaitIsOpen /\ ST!DownloadIsOnce /\ DiskTyped
    BY DEF StagingInv, StageTyped
  <1>2. PICK n \in {0, 1} : account' = [account EXCEPT !.disk = Append(account.disk, ST!Min(ST!Disk + n, 4))]
    BY DEF ST!TimePasses, ST!Landed, ST!Checkpoint
  <1> PICK x : x = ST!Min(ST!Disk + n, 4)
    OBVIOUS
  <1>3. x \in Nat /\ account' = [account EXCEPT !.disk = Append(account.disk, x)]
    BY <1>1, <1>2, StageClock DEF ST!Min
  <1>4. /\ account'.disk = Append(account.disk, x) /\ account'.sensor = account.sensor
        /\ account'.reading = account.reading /\ DiskTyped'
    <2>1. /\ account = [disk |-> account.disk, sensor |-> account.sensor, reading |-> account.reading]
          /\ account.disk \in Seq(Nat) /\ account.reading \in Readings
      BY <1>1 DEF DiskTyped
    <2>2. account' = [disk |-> Append(account.disk, x), sensor |-> account.sensor, reading |-> account.reading]
      BY <1>3, <2>1
    <2>3. Append(account.disk, x) \in Seq(Nat) /\ Len(Append(account.disk, x)) > 0
      BY <1>3, <2>1
    <2> QED
      BY <2>1, <2>2, <2>3 DEF DiskTyped
  <1>5. /\ Len(account'.disk) = Len(account.disk) + 1 /\ Len(account.disk) \in Nat
        /\ \A a \in 1..Len(account.disk) : account'.disk[a] = account.disk[a] /\ a \in 1..Len(account'.disk)
    BY <1>1, <1>4 DEF DiskTyped
  <1>6. call.out = "wait" /\ call' = [call EXCEPT !.polled = FALSE] /\ told' = told
    BY DEF ST!TimePasses
  <1>7. /\ call' \in StageCalls /\ call'.hopeless = call.hopeless /\ call'.out = "wait"
        /\ call'.reachedLoad = call.reachedLoad
    BY <1>1, <1>6 DEF StageTyped, StageCalls
  <1>8. SensorSeen'
    BY <1>1, <1>4, <1>5 DEF SensorSeen
  <1>9. ReadingSpans'
    BY <1>1, <1>4, <1>5 DEF ReadingSpans, Spans
  <1>10. ST!Now \in Nat /\ ST!Now' = ST!Now + 1
    BY <1>1, <1>4, <1>5 DEF DiskTyped, ST!Now
  <1>11. WaitIsOpen'
    BY <1>1, <1>6, <1>7, <1>10 DEF WaitIsOpen, StageTyped, Observers, ST!abortConsecutive
  <1> QED
    BY <1>1, <1>4, <1>6, <1>7, <1>8, <1>9, <1>11
    DEF StagingInv, StageTyped, ST!AbortIsMeasured, ST!LoadingIsSpared, ST!DownloadIsOnce, ST!PhasesTile

\* The agent reads the disk, or finds no cache and claims nothing.
LEMMA StageReads ==
  ASSUME StagingInv, ST!AgentReads
  PROVE  StagingInv'
  <1>1. StageTyped /\ SensorSeen /\ ReadingSpans /\ WaitIsOpen /\ ST!DownloadIsOnce /\ DiskTyped
    BY DEF StagingInv, StageTyped
  <1>2. call.out = "wait" /\ call' = call /\ told' = told
    BY DEF ST!AgentReads
  <1>3. ST!NoReading \in Readings /\ ST!NoReading.interval = 0
    BY DEF ST!NoReading, Readings
  <1>4. account'.disk = account.disk /\ DiskTyped' /\ SensorSeen' /\ ReadingSpans'
    <2>1. CASE account' = [account EXCEPT !.reading = ST!NoReading]
      BY <1>1, <1>3, <2>1 DEF DiskTyped, SensorSeen, ReadingSpans
    <2>2. CASE account' = [account EXCEPT !.reading = ST!Read(account.sensor, ST!Now, ST!Disk),
                                          !.sensor = <<ST!Now, ST!Disk>>]
      <3> PICK r : r = ST!Read(account.sensor, ST!Now, ST!Disk)
        OBVIOUS
      <3>1. /\ account'.disk = account.disk /\ account'.sensor = <<ST!Now, ST!Disk>> /\ account'.reading = r
            /\ account' = [disk |-> account.disk, sensor |-> account'.sensor, reading |-> account'.reading]
        BY <1>1, <2>2 DEF DiskTyped
      <3>2. /\ ST!Now \in Nat /\ ST!Disk \in Nat /\ ST!Now + 1 = Len(account.disk)
            /\ ST!Disk = account.disk[ST!Now + 1] /\ ST!Now + 1 \in 1..Len(account.disk)
        BY <1>1, StageClock
      <3>3. r \in Readings /\ (r.interval > 0 => Spans(account.disk, r))
        <4>1. CASE account.sensor = <<>> \/ ST!Now = account.sensor[1]
          <5>1. r = [ST!NoReading EXCEPT !.available = TRUE, !.local = ST!Disk]
            BY <4>1 DEF ST!Read
          <5>2. r = [available |-> TRUE, local |-> ST!Disk, delta |-> 0, interval |-> 0]
            BY <5>1 DEF ST!NoReading
          <5>3. r \in Readings
            BY <3>2, <5>2, ReadingTyped
          <5> QED
            BY <5>2, <5>3
        <4>2. CASE account.sensor # <<>> /\ ST!Now # account.sensor[1]
          <5>1. PICK a \in 1..Len(account.disk) : account.sensor = <<a - 1, account.disk[a]>>
            BY <1>1, <4>2 DEF SensorSeen
          <5>2. r = [available |-> TRUE, local |-> ST!Disk, interval |-> ST!Now - (a - 1),
                     delta |-> IF ST!Disk > account.disk[a] THEN ST!Disk - account.disk[a] ELSE 0]
            BY <4>2, <5>1 DEF ST!Read
          <5>3. account.disk[a] \in Nat /\ a - 1 <= ST!Now /\ a \in Nat
            BY <1>1, <3>2 DEF DiskTyped
          <5>4. r \in Readings
            <6>1. /\ ST!Now - (a - 1) \in Nat
                  /\ (IF ST!Disk > account.disk[a] THEN ST!Disk - account.disk[a] ELSE 0) \in Nat
              BY <3>2, <5>3
            <6> QED
              BY <3>2, <5>2, <6>1, ReadingTyped
          <5>5. /\ r.interval = (ST!Now + 1) - a /\ r.local = account.disk[ST!Now + 1]
                /\ r.delta = IF account.disk[ST!Now + 1] > account.disk[a]
                             THEN account.disk[ST!Now + 1] - account.disk[a] ELSE 0
            BY <3>2, <5>2, <5>3
          <5> QED
            BY <3>2, <5>4, <5>5 DEF Spans
        <4> QED
          BY <4>1, <4>2
      <3>4. SensorSeen'
        BY <3>1, <3>2 DEF SensorSeen
      <3> QED
        BY <1>1, <3>1, <3>3, <3>4 DEF DiskTyped, ReadingSpans
    <2> QED
      BY <2>1, <2>2 DEF ST!AgentReads
  <1>5. ST!Now' = ST!Now
    BY <1>4 DEF ST!Now
  <1>6. WaitIsOpen'
    BY <1>1, <1>2, <1>5 DEF WaitIsOpen
  <1> QED
    BY <1>1, <1>2, <1>4, <1>6
    DEF StagingInv, StageTyped, ST!AbortIsMeasured, ST!LoadingIsSpared, ST!DownloadIsOnce, ST!PhasesTile

\* A poll: the third hopeless reading in a row is a measured one, judged while
\* weights were still arriving.
LEMMA StagePolls ==
  ASSUME StagingInv, ST!Poll
  PROVE  StagingInv'
  <1>s. PICK s : s = account.reading
    OBVIOUS
  <1>k. PICK speaks \in BOOLEAN : speaks = (s.available /\ s.interval > 0)
    BY <1>s DEF StagingInv, StageTyped, DiskTyped, Readings
  <1>j. PICK judged : judged = IF speaks THEN ST!judge(call, s) ELSE call
    OBVIOUS
  <1>p. PICK phase : phase = IF speaks THEN ST!refinedPhase(judged, s) ELSE "engine:init"
    OBVIOUS
  <1> DEFINE aborts == judged.hopeless >= 3
  <1>o. PICK seen : seen = ST!observe(told, "STARTING", phase)
    OBVIOUS
  <1>1. /\ StageTyped /\ SensorSeen /\ ReadingSpans /\ WaitIsOpen /\ ST!DownloadIsOnce /\ DiskTyped
        /\ call \in StageCalls /\ told \in Observers /\ s \in Readings
    BY <1>s DEF StagingInv, StageTyped, DiskTyped
  <1>2. /\ call.out = "wait" /\ account' = account
        /\ call' = [judged EXCEPT !.polled = TRUE, !.reachedLoad = judged.reachedLoad \/ phase = "engine:load",
                                  !.out = IF aborts THEN "aborted" ELSE judged.out]
        /\ told' = IF aborts THEN ST!finish(ST!observe(seen, "FAILED", "none"), "abandoned") ELSE seen
    BY <1>s, <1>k, <1>j, <1>p, <1>o DEF ST!Poll, ST!abortConsecutive
  <1>3. /\ ST!Now \in Nat /\ call.hopeless < 3 /\ ("engine:load" \in told.seen => call.reachedLoad)
        /\ told.cur # "none" /\ told.recorded = told.since /\ told.since <= ST!Now
    BY <1>1, <1>2, StageClock DEF WaitIsOpen, ST!abortConsecutive
  <1>4. judged \in StageCalls /\ judged.out = "wait" /\ judged.reachedLoad = call.reachedLoad
    <2>1. CASE judged = call
      BY <1>1, <1>2, <2>1
    <2>2. CASE speaks /\ ~(call.checkpoint <= 0 \/ call.reachedLoad)
      <3>1. CASE Overshoots
        <4>1. judged = [call EXCEPT !.hopeless = call.hopeless + 1]
          BY <1>s, <1>j, <2>2, <3>1 DEF ST!judge, Overshoots
        <4>2. call.out = "wait"
          BY <1>2
        <4>0. call.hopeless \in Nat
          BY <1>1 DEF StageCalls
        <4>3. call.hopeless + 1 \in Nat
          BY <4>0
        <4> QED
          BY <1>1, <4>1, <4>2, <4>3 DEF StageCalls
      <3>2. CASE ~Overshoots
        <4>1. judged = [call EXCEPT !.hopeless = 0]
          BY <1>s, <1>j, <2>2, <3>2 DEF ST!judge, Overshoots
        <4> QED
          BY <1>1, <1>2, <4>1 DEF StageCalls
      <3> QED
        BY <3>1, <3>2
    <2> QED
      BY <1>j, <2>1, <2>2 DEF ST!judge
  <1>12. judged.hopeless = call.hopeless \/ judged.hopeless = 0 \/ (speaks /\ ~call.reachedLoad /\ Overshoots)
    <2>1. CASE judged = call
      BY <2>1
    <2>2. CASE speaks /\ ~(call.checkpoint <= 0 \/ call.reachedLoad) /\ ~Overshoots
      <3>1. judged = [call EXCEPT !.hopeless = 0]
        BY <1>s, <1>j, <2>2 DEF ST!judge, Overshoots
      <3> QED
        BY <1>1, <3>1 DEF StageCalls
    <2> QED
      BY <1>j, <2>1, <2>2 DEF ST!judge
  <1>13. judged.hopeless \in Nat /\ call.hopeless \in Nat
    BY <1>1, <1>4 DEF StageCalls
  <1>5. /\ phase \in {"engine:init", "engine:download", "engine:load"}
        /\ phase = "engine:download" => ~call.reachedLoad
        /\ speaks /\ s.delta > 0 => phase # "engine:load"
    BY <1>4, <1>p DEF ST!refinedPhase
  <1>6. /\ seen \in Observers /\ seen.cur = phase
        /\ seen.recorded = seen.since /\ seen.since <= ST!Now
        /\ seen.seen \subseteq told.seen \cup {phase}
        /\ seen.afterLoad = told.afterLoad \/ (seen.afterLoad = told.afterLoad \cup {phase} /\ "engine:load" \in told.seen)
    <2>1. phase \in Phases
      BY <1>5 DEF Phases
    <2> QED
      BY <1>1, <1>3, <1>o, <2>1, StageObserves
  <1>7. "engine:download" \notin seen.afterLoad
    BY <1>1, <1>3, <1>5, <1>6 DEF ST!DownloadIsOnce
  <1>8. /\ call' \in StageCalls /\ call'.hopeless = judged.hopeless
        /\ call'.reachedLoad = (call.reachedLoad \/ phase = "engine:load")
        /\ call'.out = IF aborts THEN "aborted" ELSE "wait"
    BY <1>2, <1>4 DEF StageCalls
  <1>9. ST!Now' = ST!Now /\ DiskTyped' /\ SensorSeen' /\ ReadingSpans'
    BY <1>1, <1>2 DEF ST!Now, DiskTyped, SensorSeen, ReadingSpans
  <1>10. CASE ~aborts
    <2>1. told' = seen
      BY <1>2, <1>10
    <2>2. judged.hopeless < 3
      BY <1>13, <1>10
    <2>3. WaitIsOpen'
      BY <1>3, <1>5, <1>6, <1>8, <1>9, <2>1, <2>2 DEF WaitIsOpen, ST!abortConsecutive
    <2> QED
      BY <1>6, <1>7, <1>8, <1>9, <1>10, <2>1, <2>3
      DEF StagingInv, StageTyped, ST!AbortIsMeasured, ST!LoadingIsSpared, ST!DownloadIsOnce, ST!PhasesTile
  <1>11. CASE aborts
    <2>1. /\ told' \in Observers /\ told'.cur = "none" /\ told'.recorded = ST!Now
          /\ told'.seen = seen.seen /\ told'.afterLoad = seen.afterLoad
      <3>1. told' = ST!finish(ST!observe(seen, "FAILED", "none"), "abandoned")
        BY <1>2, <1>11
      <3>2. seen.cur # "none"
        BY <1>5, <1>6
      <3> QED
        BY <1>3, <1>6, <3>1, <3>2, StageFinishes
    <2>2. speaks /\ ~call.reachedLoad /\ Overshoots
      <3>1. judged.hopeless # call.hopeless /\ judged.hopeless # 0
        BY <1>3, <1>13, <1>11
      <3> QED
        BY <1>12, <3>1
    <2>3. ST!LoadingIsSpared'
      <3>1. s.delta > 0
        BY <1>s, <2>2 DEF Overshoots, ST!overshoots
      <3> QED
        BY <1>3, <1>5, <1>6, <2>1, <2>2, <3>1 DEF ST!LoadingIsSpared
    <2>4. ST!AbortIsMeasured'
      <3>1. PICK a, b \in 1..Len(account.disk) :
              /\ s.interval = b - a /\ s.local = account.disk[b]
              /\ s.delta = IF account.disk[b] > account.disk[a] THEN account.disk[b] - account.disk[a] ELSE 0
        BY <1>1, <1>s, <1>k, <2>2 DEF ReadingSpans, Spans
      <3>2. s.delta > 0 /\ s.interval >= 3 /\ 2 * (4 - s.local) * s.interval > 3 * (5 - ST!Now) * s.delta
        BY <1>s, <2>2 DEF Overshoots, ST!overshoots, ST!abortMinWindow, ST!Checkpoint, ST!Deadline
      <3>3. s.delta = account.disk[b] - account.disk[a]
        BY <3>1, <3>2
      <3>4. /\ b - a >= 3 /\ account.disk[b] - account.disk[a] > 0
            /\ 2 * (4 - account.disk[b]) * (b - a) > 3 * (5 - ST!Now) * (account.disk[b] - account.disk[a])
        BY <3>1, <3>2, <3>3
      <3> QED
        BY <1>2, <1>9, <3>4 DEF ST!AbortIsMeasured, ST!abortMinWindow, ST!Checkpoint, ST!Deadline
    <2> QED
      BY <1>7, <1>8, <1>9, <1>11, <2>1, <2>3, <2>4
      DEF StagingInv, StageTyped, WaitIsOpen, ST!DownloadIsOnce, ST!PhasesTile
  <1> QED
    BY <1>10, <1>11

\* The wait ends well, at its deadline or at the caller's wish.
LEMMA StageEnds ==
  ASSUME StagingInv, ST!Answers \/ ST!GivesUp
  PROVE  StagingInv'
  <1>1. /\ StageTyped /\ SensorSeen /\ ReadingSpans /\ WaitIsOpen /\ ST!DownloadIsOnce /\ DiskTyped
        /\ call \in StageCalls /\ told \in Observers
    BY DEF StagingInv, StageTyped
  <1>2. PICK out \in {"ready", "gave up"}, state \in {"RUNNING", "FAILED"}, err \in {"none", "deadline", "canceled"} :
           /\ call' = [call EXCEPT !.out = out]
           /\ told' = ST!finish(ST!observe(told, state, "none"), err)
    BY DEF ST!Answers, ST!GivesUp
  <1>3. call.out = "wait" /\ account' = account
    BY DEF ST!Answers, ST!GivesUp
  <1>4. call' \in StageCalls /\ call'.out = out
    BY <1>1, <1>2 DEF StageCalls
  <1>5. /\ told' \in Observers /\ told'.cur = "none" /\ told'.recorded = ST!Now
        /\ told'.seen = told.seen /\ told'.afterLoad = told.afterLoad
    <2>1. ST!Now \in Nat /\ told.cur # "none" /\ told.recorded = told.since /\ told.since <= ST!Now
      BY <1>1, <1>3, StageClock DEF WaitIsOpen
    <2> QED
      BY <1>1, <1>2, <2>1, StageFinishes
  <1>6. ST!Now' = ST!Now /\ DiskTyped' /\ SensorSeen' /\ ReadingSpans'
    BY <1>1, <1>3 DEF ST!Now, DiskTyped, SensorSeen, ReadingSpans
  <1> QED
    BY <1>1, <1>4, <1>5, <1>6
    DEF StagingInv, StageTyped, WaitIsOpen, ST!AbortIsMeasured, ST!LoadingIsSpared, ST!DownloadIsOnce, ST!PhasesTile

\* The watch over a cold deploy (provisioners/staging.go and
\* deploy_telemetry.go) keeps its promises, however the agent's readings and
\* the deploy's polls interleave: it abandons a deploy only on a stretch of the
\* download it measured, never once the weights load, opens no download after a
\* load, and its phases add up to the deploy's time.
THEOREM StagingCorrect == MachineSpec => []StagingSafe
  <1> DEFINE Inv == part = "staging" => StagingInv
  <1>1. MachineInit => Inv
    BY StagingStart DEF MachineInit
  <1>2. Inv /\ [MachineNext]_vars => Inv'
    <2> SUFFICES ASSUME Inv, [MachineNext]_vars, part' = "staging" PROVE StagingInv'
      OBVIOUS
    <2>1. CASE UNCHANGED vars
      <3>1. StagingInv /\ account' = account /\ call' = call /\ told' = told
        BY <2>1 DEF vars
      <3> QED
        BY <3>1 DEF StagingInv, StageTyped, DiskTyped, SensorSeen, ReadingSpans, WaitIsOpen, ST!Now,
                    ST!AbortIsMeasured, ST!LoadingIsSpared, ST!DownloadIsOnce, ST!PhasesTile
    <2>2. CASE MachineNext
      <3>1. part = "staging" /\ StagingInv /\ ST!stNext
        BY <2>2 DEF MachineNext
      <3> QED
        BY <3>1, StageTime, StageReads, StagePolls, StageEnds DEF ST!stNext
    <2> QED
      BY <2>1, <2>2
  <1>3. Inv => StagingSafe
    BY DEF StagingInv, StagingSafe
  <1> QED
    BY <1>1, <1>2, <1>3, PTL DEF MachineSpec

-----------------------------------------------------------------------------
(***************************************************************************)
(* Members that span several machines.                                     *)
(***************************************************************************)

\* The machines of a member, the first of them, and what a member is on.
Of(s) == MB!ToSet(MB!Machines(s))

First(s) == MB!nodeInstanceID(s, 1)

MemberAccounts ==
    [kind : {"vm", "native"}, rented : SUBSET MB!Ids, unreturned : SUBSET MB!Ids,
     inst : [MB!Ids -> {"none", "PENDING", "ACTIVE", "FAILED", "TERMINATED"}]]

MemberCalls ==
    [slot : [MB!Slots -> {"placing", "placed", "launched", "ok", "err"}],
     node : [MB!Ids -> {"todo", "placed", "up", "failed"}], recorded : BOOLEAN,
     left : Seq(MB!Ids \cup {<<>>}), failed : BOOLEAN, destroys : Nat]

MemberRecords ==
    [state : {"PENDING", "RUNNING", "DEGRADED", "FAILED", "TERMINATING", "TERMINATED"},
     members : [MB!Slots -> Seq(MB!Ids)], endpoint : [MB!Slots -> MB!Ids \cup {<<>>}]]

MembersTyped == account \in MemberAccounts /\ call \in MemberCalls /\ told \in MemberRecords

\* A machine that is paid for and was not given up on.
Held(i) == i \in account.rented /\ i \notin account.unreturned

\* What holds of a member at each step of its fan-out.
SlotAsPlaced(s) ==
    call.slot[s] \in {"placing", "placed"} =>
        \A i \in Of(s) : /\ i \notin account.unreturned /\ call.node[i] \in {"todo", "placed"}
                         /\ i \in account.rented <=> (call.node[i] = "placed" /\ account.kind = "vm")
                         /\ call.slot[s] = "placed" => call.node[i] = "placed"

SlotAsLaunched(s) ==
    call.slot[s] \in {"launched", "ok"} =>
        \A i \in Of(s) : /\ i \notin account.unreturned /\ call.node[i] # "todo"
                         /\ call.slot[s] = "ok" => call.node[i] = "up"
                         /\ call.node[i] = "up" /\ told.state \notin {"TERMINATING", "TERMINATED"} => i \in account.rented

SlotAsFailed(s) ==
    call.slot[s] = "err" =>
        \/ \A i \in Of(s) : ~Held(i)
        \/ account.kind = "vm" /\ \A i \in Of(s) : Held(i)
        \/ s = 2

SlotRecorded(s) ==
    /\ call.recorded => \/ told.members[s] = MB!Machines(s)
                        \/ told.members[s] = <<>> /\ call.slot[s] = "err" /\ \A i \in Of(s) : ~Held(i)
    /\ call.recorded => call.slot[s] # "placing"
    /\ ~call.recorded => call.slot[s] \in {"placing", "placed", "err"}
    /\ ~call.recorded /\ call.slot[s] = "err" => \A i \in Of(s) : ~Held(i)
    /\ call.node[First(s)] = "up" => told.endpoint[s] = First(s)

SlotInv(s) == SlotAsPlaced(s) /\ SlotAsLaunched(s) /\ SlotAsFailed(s) /\ SlotRecorded(s)

\* A destroy that has not failed still has every machine in hand that it can
\* name and must release.
Listed(i) == \E k \in 1..Len(call.left) : call.left[k] = i

FanOutFirst ==
    /\ told.state # "PENDING" => call.recorded /\ \A s \in MB!Slots : call.slot[s] \in {"ok", "err"}
    /\ told.state = "RUNNING" => \A s \in MB!Slots : call.slot[s] = "ok"
    /\ call.left # <<>> => told.state = "TERMINATING"

StillToRelease ==
    call.left # <<>> /\ ~call.failed =>
        \A i \in MB!Ids : Held(i) => Listed(i) \/ (account.kind = "vm" /\ ~MB!ownsInstance(i))

MembersInv ==
    /\ MembersTyped /\ (\A s \in MB!Slots : SlotInv(s)) /\ FanOutFirst /\ StillToRelease /\ MB!TeardownComplete

\* Three machines, two of one member and one of the other, and only the one
\* that is a member by itself carries a name its deployment owns.
LEMMA MemberNames ==
  /\ Of(1) = {First(1), <<1, 2>>} /\ Of(2) = {First(2)} /\ MB!Ids = Of(1) \cup Of(2)
  /\ First(1) = <<1, 1>> /\ First(2) = <<2>>
  /\ MB!Slots = {1, 2} /\ Of(1) \cap Of(2) = {}
  /\ MB!Machines(1) = <<<<1, 1>>, <<1, 2>>>> /\ MB!Machines(2) = <<<<2>>>>
  /\ MB!ownsInstance(<<2>>) /\ ~MB!ownsInstance(<<1, 1>>) /\ ~MB!ownsInstance(<<1, 2>>)
  /\ \A s \in MB!Slots : First(s) = MB!Machines(s)[1] /\ First(s) \in Of(s)
  /\ <<>> \notin MB!Ids
  <1>1. MB!Slots = {1, 2}
    BY DEF MB!Slots
  <1>2. First(1) = <<1, 1>> /\ First(2) = <<2>> /\ MB!nodeInstanceID(1, 2) = <<1, 2>>
    BY DEF First, MB!nodeInstanceID, MB!Nodes
  <1>3. MB!Machines(1) = <<<<1, 1>>, <<1, 2>>>>
    BY DEF MB!Machines, MB!nodeInstanceID, MB!Nodes
  <1>4. MB!Machines(2) = <<<<2>>>>
    BY DEF MB!Machines, MB!nodeInstanceID, MB!Nodes
  <1>5. Of(1) = {<<1, 1>>, <<1, 2>>}
    BY <1>3 DEF Of, MB!ToSet
  <1>6. Of(2) = {<<2>>}
    BY <1>4 DEF Of, MB!ToSet
  <1>7. MB!Ids = Of(1) \cup Of(2)
    BY <1>1 DEF MB!Ids, Of
  <1>8. MB!ownsInstance(<<2>>) /\ ~MB!ownsInstance(<<1, 1>>) /\ ~MB!ownsInstance(<<1, 2>>)
    BY DEF MB!ownsInstance
  <1>9. Of(1) \cap Of(2) = {}
    BY <1>5, <1>6, <1>8
  <1>10. <<>> \notin MB!Ids
    BY <1>5, <1>6, <1>7
  <1> QED
    BY <1>1, <1>2, <1>3, <1>4, <1>5, <1>6, <1>7, <1>8, <1>9, <1>10

\* A deployment starts with nothing placed and nothing rented.
LEMMA MembersStart == MB!mbInit => MembersInv
  <1> SUFFICES ASSUME MB!mbInit PROVE MembersInv
    OBVIOUS
  <1>1. /\ account \in MemberAccounts /\ account.rented = {} /\ account.unreturned = {}
    BY DEF MB!mbInit, MemberAccounts
  <1>2. /\ call.slot = [s \in MB!Slots |-> "placing"] /\ call.node = [i \in MB!Ids |-> "todo"]
        /\ call.recorded = FALSE /\ call.left = <<>>
    BY DEF MB!mbInit
  <1>3. call \in MemberCalls
    BY DEF MB!mbInit, MemberCalls
  <1>4. told \in MemberRecords /\ told.state = "PENDING"
    BY DEF MB!mbInit, MemberRecords
  <1>5. ASSUME NEW s \in MB!Slots PROVE SlotInv(s)
    <2>1. call.slot[s] = "placing" /\ \A i \in Of(s) : call.node[i] = "todo"
      BY <1>2, MemberNames
    <2>2. call.node[First(s)] = "todo"
      BY <2>1, MemberNames
    <2> QED
      BY <1>1, <1>2, <2>1, <2>2 DEF SlotInv, SlotAsPlaced, SlotAsLaunched, SlotAsFailed, SlotRecorded
  <1>6. FanOutFirst /\ StillToRelease /\ MB!TeardownComplete
    BY <1>2, <1>4 DEF FanOutFirst, StillToRelease, MB!TeardownComplete
  <1> QED
    BY <1>1, <1>3, <1>4, <1>5, <1>6 DEF MembersInv, MembersTyped

\* A step that leaves a member's machines and records alone leaves what holds
\* of it.
LEMMA MemberFrame ==
  ASSUME NEW t \in MB!Slots, SlotInv(t), MembersTyped,
         call'.slot[t] = call.slot[t], told'.state = told.state, call'.recorded = call.recorded,
         told'.members[t] = told.members[t], told'.endpoint[t] = told.endpoint[t], account'.kind = account.kind,
         \A i \in Of(t) : /\ call'.node[i] = call.node[i]
                          /\ i \in account'.rented <=> i \in account.rented
                          /\ i \in account'.unreturned <=> i \in account.unreturned
  PROVE  SlotInv(t)'
  <1>1. call'.node[First(t)] = call.node[First(t)]
    BY MemberNames
  <1>2. \A i \in Of(t) : Held(i)' <=> Held(i)
    BY DEF Held
  <1>3. SlotAsPlaced(t)'
    BY DEF SlotInv, SlotAsPlaced
  <1>4. SlotAsLaunched(t)'
    BY DEF SlotInv, SlotAsLaunched
  <1>5. SlotAsFailed(t)'
    BY <1>2 DEF SlotInv, SlotAsFailed
  <1>6. SlotRecorded(t)'
    BY <1>1, <1>2 DEF SlotInv, SlotRecorded
  <1> QED
    BY <1>3, <1>4, <1>5, <1>6 DEF SlotInv

\* The members share no machine.
LEMMA MembersApart ==
  ASSUME NEW s \in MB!Slots, NEW t \in MB!Slots, s # t, NEW i \in Of(t)
  PROVE  i \notin Of(s) /\ i \in MB!Ids
  BY MemberNames

\* A step of one member's fan-out: the deployment is still PENDING, no destroy
\* has begun, and the other member is untouched.
FanOutOf(s, ids) ==
    /\ told.state = "PENDING" /\ told'.state = "PENDING" /\ told'.members = told.members
    /\ call'.recorded = call.recorded /\ call'.left = call.left /\ account'.kind = account.kind
    /\ \A t \in MB!Slots : t # s => /\ call'.slot[t] = call.slot[t] /\ told'.endpoint[t] = told.endpoint[t]
    /\ \A i \in MB!Ids \ ids : /\ call'.node[i] = call.node[i]
                               /\ i \in account'.rented <=> i \in account.rented
                               /\ i \in account'.unreturned <=> i \in account.unreturned

\* Such a step keeps the invariant if it keeps what holds of its own member.
LEMMA MemberStep ==
  ASSUME MembersInv, NEW s \in MB!Slots, FanOutOf(s, Of(s)), MembersTyped', SlotInv(s)'
  PROVE  MembersInv'
  <1>1. \A t \in MB!Slots : SlotInv(t)'
    <2> SUFFICES ASSUME NEW t \in MB!Slots, t # s PROVE SlotInv(t)'
      OBVIOUS
    <2>1. \A i \in Of(t) : /\ call'.node[i] = call.node[i]
                           /\ i \in account'.rented <=> i \in account.rented
                           /\ i \in account'.unreturned <=> i \in account.unreturned
      BY MembersApart DEF FanOutOf
    <2>2. SlotInv(t) /\ MembersTyped
      BY DEF MembersInv
    <2>3. /\ call'.slot[t] = call.slot[t] /\ told'.state = told.state /\ call'.recorded = call.recorded
          /\ told'.members[t] = told.members[t] /\ told'.endpoint[t] = told.endpoint[t] /\ account'.kind = account.kind
      BY DEF FanOutOf
    <2> QED
      BY <2>1, <2>2, <2>3, MemberFrame
  <1>2. call'.left = <<>>
    BY DEF MembersInv, FanOutFirst, FanOutOf
  <1>3. FanOutFirst' /\ StillToRelease' /\ MB!TeardownComplete'
    BY <1>2 DEF FanOutFirst, StillToRelease, MB!TeardownComplete, FanOutOf
  <1> QED
    BY <1>1, <1>3 DEF MembersInv

\* A member whose slot has not ended is being fanned out.
LEMMA FanOutPending ==
  ASSUME MembersInv, NEW s \in MB!Slots, call.slot[s] \notin {"ok", "err"}
  PROVE  told.state = "PENDING"
  BY DEF MembersInv, FanOutFirst

\* placeMember rents the next machine of a member, or leaves it to the engine.
LEMMA MemberPlaces ==
  ASSUME MembersInv, NEW s \in MB!Slots, MB!placeMember(s)
  PROVE  MembersInv'
  <1>1. PICK n \in 1..MB!Nodes(s) :
          LET id == MB!nodeInstanceID(s, n) IN
          /\ call.slot[s] = "placing"
          /\ call.node[id] = "todo" /\ \A k \in 1..(n - 1) : call.node[MB!nodeInstanceID(s, k)] = "placed"
          /\ account' = [account EXCEPT !.inst[id] = IF account.kind = "vm" THEN "ACTIVE" ELSE "PENDING",
                                        !.rented = IF account.kind = "vm" THEN account.rented \cup {id}
                                                   ELSE account.rented]
          /\ call' = [call EXCEPT !.node[id] = "placed",
                                  !.slot[s] = IF n = MB!Nodes(s) THEN "placed" ELSE call.slot[s]]
          /\ told' = told
    BY DEF MB!placeMember
  <1> PICK id : id = MB!nodeInstanceID(s, n)
    OBVIOUS
  <1>2. /\ MembersTyped /\ SlotInv(s) /\ account \in MemberAccounts /\ call \in MemberCalls
        /\ told.state = "PENDING" /\ call.slot[s] = "placing"
    BY <1>1, FanOutPending DEF MembersInv, MembersTyped
  <1>3. id \in Of(s) /\ id \in MB!Ids
    <2>1. s \in {1, 2}
      BY MemberNames
    <2>2. n \in DOMAIN MB!Machines(s) /\ MB!Machines(s)[n] = id
      BY DEF MB!Machines
    <2> QED
      BY <2>1, <2>2, MemberNames DEF Of, MB!ToSet
  <1>4. n = MB!Nodes(s) => \A i \in Of(s) : i = id \/ call.node[i] = "placed"
    <2> SUFFICES ASSUME n = MB!Nodes(s) PROVE \A i \in Of(s) : i = id \/ call.node[i] = "placed"
      OBVIOUS
    <2>1. CASE s = 1
      <3>1. n = 2 /\ id = <<1, 2>> /\ call.node[First(1)] = "placed"
        BY <1>1, <2>1 DEF MB!Nodes, MB!nodeInstanceID, First
      <3> QED
        BY <2>1, <3>1, MemberNames
    <2>2. CASE s = 2
      <3>1. id = First(2)
        BY <1>1, <2>2 DEF MB!Nodes, MB!nodeInstanceID, First
      <3> QED
        BY <2>2, <3>1, MemberNames
    <2> QED
      BY <2>1, <2>2, MemberNames
  <1>5. /\ account'.kind = account.kind /\ account'.unreturned = account.unreturned
        /\ account'.rented = IF account.kind = "vm" THEN account.rented \cup {id} ELSE account.rented
        /\ account' \in MemberAccounts
    BY <1>1, <1>2, <1>3 DEF MemberAccounts
  <1>6. /\ call'.node = [call.node EXCEPT ![id] = "placed"]
        /\ call'.slot = [call.slot EXCEPT ![s] = IF n = MB!Nodes(s) THEN "placed" ELSE "placing"]
        /\ call'.recorded = call.recorded /\ call'.left = call.left
    BY <1>1, <1>2 DEF MemberCalls
  <1>7. call' \in MemberCalls
    BY <1>1, <1>2, <1>3 DEF MemberCalls
  <1>8. FanOutOf(s, Of(s))
    BY <1>1, <1>2, <1>3, <1>5, <1>6 DEF FanOutOf, MemberCalls
  <1>9. /\ \A i \in Of(s) : i \in MB!Ids /\ call'.node[i] = IF i = id THEN "placed" ELSE call.node[i]
        /\ call'.slot[s] = IF n = MB!Nodes(s) THEN "placed" ELSE "placing"
    BY <1>2, <1>3, <1>6, MemberNames DEF MemberCalls
  <1>10. SlotAsPlaced(s)'
    BY <1>2, <1>4, <1>5, <1>9, <1>1 DEF SlotInv, SlotAsPlaced
  <1>11. SlotRecorded(s)'
    <2>1. call'.node[First(s)] # "up"
      BY <1>2, <1>9, MemberNames DEF SlotInv, SlotAsPlaced
    <2>2. ~call.recorded
      BY <1>2 DEF SlotInv, SlotRecorded
    <2> QED
      BY <1>6, <1>9, <2>1, <2>2 DEF SlotRecorded
  <1>12. SlotInv(s)'
    BY <1>9, <1>10, <1>11 DEF SlotInv, SlotAsLaunched, SlotAsFailed
  <1> QED
    BY <1>1, <1>2, <1>5, <1>7, <1>8, <1>12, MemberStep DEF MembersTyped

\* returnMember: what goes back is no longer rented, and what cannot go back is
\* given up on.
LEMMA MemberReturns ==
  ASSUME MembersTyped, NEW ids \in SUBSET MB!Ids, NEW kept \in SUBSET (ids \cap account.rented),
         account' = MB!returnMember(ids, account, kept)
  PROVE  /\ account' \in MemberAccounts /\ account'.kind = account.kind
         /\ \A i \in MB!Ids \ ids : /\ i \in account'.rented <=> i \in account.rented
                                    /\ i \in account'.unreturned <=> i \in account.unreturned
         /\ \A i \in ids : ~Held(i)'
  <1>1. account \in MemberAccounts
    BY DEF MembersTyped
  <1>2. account' = [account EXCEPT !.rented = (account.rented \ ids) \cup kept,
                                   !.unreturned = account.unreturned \cup kept,
                                   !.inst = [i \in MB!Ids |-> IF i \in kept THEN "FAILED"
                                                              ELSE IF i \in ids THEN "TERMINATED" ELSE account.inst[i]]]
    BY DEF MB!returnMember
  <1>3. /\ account'.kind = account.kind /\ account'.rented = (account.rented \ ids) \cup kept
        /\ account'.unreturned = account.unreturned \cup kept
    BY <1>1, <1>2 DEF MemberAccounts
  <1>4. account' \in MemberAccounts
    <2> DEFINE now == [i \in MB!Ids |-> IF i \in kept THEN "FAILED"
                                        ELSE IF i \in ids THEN "TERMINATED" ELSE account.inst[i]]
    <2>1. now \in [MB!Ids -> {"none", "PENDING", "ACTIVE", "FAILED", "TERMINATED"}]
      BY <1>1 DEF MemberAccounts
    <2>2. (account.rented \ ids) \cup kept \in SUBSET MB!Ids /\ account.unreturned \cup kept \in SUBSET MB!Ids
      BY <1>1 DEF MemberAccounts
    <2> HIDE DEF now
    <2> QED
      BY <1>1, <1>2, <2>1, <2>2 DEF MemberAccounts, now
  <1> QED
    BY <1>3, <1>4 DEF Held

\* placeMember fails: the machines placed before go back.
LEMMA MemberPlaceFails ==
  ASSUME MembersInv, NEW s \in MB!Slots, MB!placeFails(s)
  PROVE  MembersInv'
  <1> PICK before : before = {i \in Of(s) : call.node[i] = "placed"}
    OBVIOUS
  <1>1. PICK kept \in SUBSET (before \cap account.rented) : account' = MB!returnMember(before, account, kept)
    BY DEF MB!placeFails, Of
  <1>2. call.slot[s] = "placing" /\ call' = [call EXCEPT !.slot[s] = "err"] /\ told' = told
    BY DEF MB!placeFails, MB!SlotTo
  <1>3. MembersTyped /\ SlotInv(s) /\ call \in MemberCalls /\ told.state = "PENDING"
    BY <1>2, FanOutPending DEF MembersInv, MembersTyped
  <1>4. before \in SUBSET MB!Ids /\ before \subseteq Of(s)
    BY MemberNames
  <1>5. /\ account' \in MemberAccounts /\ account'.kind = account.kind
        /\ \A i \in MB!Ids \ before : /\ i \in account'.rented <=> i \in account.rented
                                      /\ i \in account'.unreturned <=> i \in account.unreturned
        /\ \A i \in before : ~Held(i)'
    BY <1>1, <1>3, <1>4, MemberReturns
  <1>6. /\ call'.slot = [call.slot EXCEPT ![s] = "err"] /\ call'.node = call.node
        /\ call'.recorded = call.recorded /\ call'.left = call.left /\ call' \in MemberCalls
    BY <1>2, <1>3 DEF MemberCalls
  <1>7. FanOutOf(s, Of(s))
    BY <1>2, <1>3, <1>4, <1>5, <1>6 DEF FanOutOf, MemberCalls
  <1>8. call'.slot[s] = "err" /\ ~call.recorded /\ \A i \in Of(s) : ~Held(i)'
    <2>1. call'.slot[s] = "err" /\ ~call.recorded
      BY <1>2, <1>3, <1>6 DEF MemberCalls, SlotInv, SlotRecorded
    <2>2. ASSUME NEW i \in Of(s), i \notin before PROVE ~Held(i)'
      <3>1. i \notin account.rented /\ i \in MB!Ids
        BY <1>2, <1>3, <2>2, MemberNames DEF SlotInv, SlotAsPlaced
      <3> QED
        BY <1>5, <2>2, <3>1 DEF Held
    <2> QED
      BY <1>5, <2>1, <2>2
  <1>9. SlotInv(s)'
    <2>1. call'.node[First(s)] # "up"
      BY <1>2, <1>3, <1>6, MemberNames DEF SlotInv, SlotAsPlaced
    <2> QED
      BY <1>6, <1>8, <2>1 DEF SlotInv, SlotAsPlaced, SlotAsLaunched, SlotAsFailed, SlotRecorded
  <1> QED
    BY <1>2, <1>3, <1>5, <1>6, <1>7, <1>9, MemberStep DEF MembersTyped

\* recordCreateSlots: a member that was not placed holds nothing.
LEMMA MembersRecorded ==
  ASSUME MembersInv, MB!recordCreateSlots
  PROVE  MembersInv'
  <1>1. /\ ~call.recorded /\ (\A s \in MB!Slots : call.slot[s] # "placing") /\ account' = account
        /\ told' = [told EXCEPT !.members = [s \in MB!Slots |-> IF call.slot[s] = "placed" THEN MB!Machines(s) ELSE <<>>]]
        /\ call' = [call EXCEPT !.recorded = TRUE]
    BY DEF MB!recordCreateSlots
  <1>2. /\ MembersTyped /\ account \in MemberAccounts /\ call \in MemberCalls /\ told \in MemberRecords
        /\ told.state = "PENDING" /\ call.left = <<>>
    BY <1>1 DEF MembersInv, MembersTyped, FanOutFirst
  <1>3. /\ call'.slot = call.slot /\ call'.node = call.node /\ call'.left = call.left /\ call'.recorded = TRUE
        /\ call' \in MemberCalls
    BY <1>1, <1>2 DEF MemberCalls
  <1>4. \A s \in MB!Slots : MB!Machines(s) \in Seq(MB!Ids) /\ <<>> \in Seq(MB!Ids)
    <2>1. <<1, 1>> \in MB!Ids /\ <<1, 2>> \in MB!Ids /\ <<2>> \in MB!Ids
      BY MemberNames
    <2>2. \A a, b \in MB!Ids : <<a, b>> \in Seq(MB!Ids) /\ <<a>> \in Seq(MB!Ids)
      OBVIOUS
    <2>3. MB!Machines(1) \in Seq(MB!Ids) /\ MB!Machines(2) \in Seq(MB!Ids)
      BY <2>1, <2>2, MemberNames
    <2> QED
      BY <2>3, MemberNames
  <1>5. /\ told'.state = told.state /\ told'.endpoint = told.endpoint
        /\ \A s \in MB!Slots : told'.members[s] = IF call.slot[s] = "placed" THEN MB!Machines(s) ELSE <<>>
    BY <1>1, <1>2 DEF MemberRecords
  <1>6. told' \in MemberRecords
    <2> DEFINE recs == [s \in MB!Slots |-> IF call.slot[s] = "placed" THEN MB!Machines(s) ELSE <<>>]
    <2>1. recs \in [MB!Slots -> Seq(MB!Ids)]
      BY <1>4
    <2> HIDE DEF recs
    <2> QED
      BY <1>1, <1>2, <2>1 DEF MemberRecords, recs
  <1>7. ASSUME NEW s \in MB!Slots PROVE SlotInv(s)'
    <2>1. SlotInv(s) /\ call.slot[s] \in {"placed", "err"}
      BY <1>1 DEF MembersInv, SlotInv, SlotRecorded
    <2>2. \A i : Held(i)' <=> Held(i)
      BY <1>1 DEF Held
    <2>3. SlotAsPlaced(s)' /\ SlotAsLaunched(s)'
      BY <1>1, <1>3, <1>5, <2>1 DEF SlotInv, SlotAsPlaced, SlotAsLaunched
    <2>4. SlotAsFailed(s)'
      BY <1>1, <1>3, <2>1, <2>2 DEF SlotInv, SlotAsFailed
    <2>5. SlotRecorded(s)'
      BY <1>1, <1>3, <1>5, <2>1, <2>2 DEF SlotInv, SlotRecorded
    <2> QED
      BY <2>3, <2>4, <2>5 DEF SlotInv
  <1>8. FanOutFirst' /\ StillToRelease' /\ MB!TeardownComplete'
    BY <1>2, <1>3, <1>5 DEF FanOutFirst, StillToRelease, MB!TeardownComplete
  <1> QED
    BY <1>1, <1>2, <1>3, <1>6, <1>7, <1>8 DEF MembersInv, MembersTyped

\* replicaKey: the member is launched, or fails with its machines as placed.
LEMMA MemberKey ==
  ASSUME MembersInv, NEW s \in MB!Slots, NEW loads \in BOOLEAN, MB!replicaKey(s, loads)
  PROVE  MembersInv'
  <1> PICK st \in {"launched", "err"} : st = IF loads THEN "launched" ELSE "err"
    OBVIOUS
  <1>1. /\ call.recorded /\ call.slot[s] = "placed" /\ call' = [call EXCEPT !.slot[s] = st]
        /\ account' = account /\ told' = told
    BY DEF MB!replicaKey, MB!SlotTo
  <1>2. MembersTyped /\ SlotInv(s) /\ account \in MemberAccounts /\ call \in MemberCalls /\ told.state = "PENDING"
    BY <1>1, FanOutPending DEF MembersInv, MembersTyped
  <1>3. /\ call'.slot = [call.slot EXCEPT ![s] = st] /\ call'.node = call.node
        /\ call'.recorded = call.recorded /\ call'.left = call.left /\ call' \in MemberCalls
    BY <1>1, <1>2 DEF MemberCalls
  <1>4. FanOutOf(s, Of(s)) /\ call'.slot[s] = st
    BY <1>1, <1>2, <1>3 DEF FanOutOf, MemberCalls
  <1>5. \A i \in Of(s) : /\ i \notin account.unreturned /\ call.node[i] = "placed"
                         /\ i \in account.rented <=> account.kind = "vm"
    BY <1>1, <1>2 DEF SlotInv, SlotAsPlaced
  <1>6. SlotInv(s)'
    <2>1. SlotAsPlaced(s)' /\ SlotAsLaunched(s)'
      BY <1>1, <1>3, <1>4, <1>5 DEF SlotAsPlaced, SlotAsLaunched
    <2>2. SlotAsFailed(s)'
      BY <1>1, <1>4, <1>5 DEF SlotAsFailed, Held
    <2>3. SlotRecorded(s)'
      BY <1>1, <1>2, <1>3, <1>4, <1>5, MemberNames DEF SlotInv, SlotRecorded
    <2> QED
      BY <2>1, <2>2, <2>3 DEF SlotInv
  <1> QED
    BY <1>1, <1>2, <1>3, <1>4, <1>6, MemberStep DEF MembersTyped

\* runReplicaDeploy: a machine's engine answers, or fails, rented or not.
LEMMA MemberDeploys ==
  ASSUME MembersInv, NEW s \in MB!Slots, NEW id \in MB!Ids, MB!runReplicaDeploy(s, id)
  PROVE  MembersInv'
  <1>1. call.slot[s] = "launched" /\ id \in Of(s) /\ call.node[id] = "placed"
    BY DEF MB!runReplicaDeploy, Of
  <1>2. /\ MembersTyped /\ SlotInv(s) /\ account \in MemberAccounts /\ call \in MemberCalls /\ told \in MemberRecords
        /\ told.state = "PENDING"
    BY <1>1, FanOutPending DEF MembersInv, MembersTyped
  <1>3. CASE /\ call' = [call EXCEPT !.node[id] = "up"]
             /\ account' = [account EXCEPT !.inst[id] = "ACTIVE", !.rented = account.rented \cup {id}]
             /\ told' = [told EXCEPT !.endpoint[s] = MB!slotEndpoint(s, id, told.endpoint[s])]
    <2>1. /\ call'.node = [call.node EXCEPT ![id] = "up"] /\ call'.slot = call.slot
          /\ call'.recorded = call.recorded /\ call'.left = call.left /\ call' \in MemberCalls
      BY <1>2, <1>3 DEF MemberCalls
    <2>2. /\ account'.rented = account.rented \cup {id} /\ account'.unreturned = account.unreturned
          /\ account'.kind = account.kind /\ account' \in MemberAccounts
      BY <1>2, <1>3 DEF MemberAccounts
    <2>3. /\ told'.state = told.state /\ told'.members = told.members
          /\ told'.endpoint = [told.endpoint EXCEPT ![s] = MB!slotEndpoint(s, id, told.endpoint[s])]
          /\ told' \in MemberRecords
      BY <1>2, <1>3 DEF MemberRecords, MB!slotEndpoint
    <2>4. FanOutOf(s, Of(s))
      BY <1>1, <1>2, <2>1, <2>2, <2>3 DEF FanOutOf, MemberCalls, MemberRecords
    <2>5. SlotInv(s)'
      <3>1. call'.slot[s] = "launched"
        BY <1>1, <2>1
      <3>2. \A i \in Of(s) : call'.node[i] = IF i = id THEN "up" ELSE call.node[i]
        BY <1>2, <2>1, MemberNames DEF MemberCalls
      <3>3. SlotAsLaunched(s)'
        BY <1>1, <1>2, <2>2, <2>3, <3>1, <3>2 DEF SlotInv, SlotAsLaunched
      <3>4. told'.endpoint[s] = IF id = First(s) THEN id ELSE told.endpoint[s]
        BY <1>2, <2>3 DEF MemberRecords, MB!slotEndpoint, First
      <3>5. call'.node[First(s)] = "up" => told'.endpoint[s] = First(s)
        BY <1>2, <3>2, <3>4, MemberNames DEF SlotInv, SlotRecorded
      <3>6. SlotRecorded(s)'
        BY <1>1, <1>2, <2>1, <2>3, <3>1, <3>5 DEF SlotInv, SlotRecorded
      <3> QED
        BY <3>1, <3>3, <3>6 DEF SlotInv, SlotAsPlaced, SlotAsFailed
    <2> QED
      BY <2>1, <2>2, <2>3, <2>4, <2>5, MemberStep DEF MembersTyped
  <1>4. ASSUME NEW rent \in {{}, {id}}, call' = [call EXCEPT !.node[id] = "failed"],
               account' = [account EXCEPT !.rented = account.rented \cup rent], told' = told
        PROVE  MembersInv'
    <2>1. /\ call'.node = [call.node EXCEPT ![id] = "failed"] /\ call'.slot = call.slot
          /\ call'.recorded = call.recorded /\ call'.left = call.left /\ call' \in MemberCalls
      BY <1>2, <1>4 DEF MemberCalls
    <2>2. /\ account'.rented = account.rented \cup rent /\ account'.unreturned = account.unreturned
          /\ account'.kind = account.kind /\ account' \in MemberAccounts
      BY <1>2, <1>4 DEF MemberAccounts
    <2>4. FanOutOf(s, Of(s))
      BY <1>1, <1>2, <1>4, <2>1, <2>2 DEF FanOutOf, MemberCalls
    <2>5. SlotInv(s)'
      <3>1. call'.slot[s] = "launched"
        BY <1>1, <2>1
      <3>2. \A i \in Of(s) : call'.node[i] = IF i = id THEN "failed" ELSE call.node[i]
        BY <1>2, <2>1, MemberNames DEF MemberCalls
      <3>3. SlotAsLaunched(s)'
        BY <1>1, <1>2, <1>4, <2>2, <3>1, <3>2 DEF SlotInv, SlotAsLaunched
      <3>6. SlotRecorded(s)'
        BY <1>1, <1>2, <1>4, <2>1, <3>1, <3>2, MemberNames DEF SlotInv, SlotRecorded
      <3> QED
        BY <3>1, <3>3, <3>6 DEF SlotInv, SlotAsPlaced, SlotAsFailed
    <2> QED
      BY <1>2, <1>4, <2>1, <2>2, <2>4, <2>5, MemberStep DEF MembersTyped
  <1> QED
    BY <1>3, <1>4 DEF MB!runReplicaDeploy

\* launchMember: every machine is up, or all of a larger member go back.
LEMMA MemberLaunches ==
  ASSUME MembersInv, NEW s \in MB!Slots, MB!launchMember(s)
  PROVE  MembersInv'
  <1>1. call.slot[s] = "launched" /\ told' = told
    BY DEF MB!launchMember
  <1>2. MembersTyped /\ SlotInv(s) /\ account \in MemberAccounts /\ call \in MemberCalls /\ told.state = "PENDING"
    BY <1>1, FanOutPending DEF MembersInv, MembersTyped
  <1>3. PICK st \in {"ok", "err"} :
           /\ call' = [call EXCEPT !.slot[s] = st]
           /\ st = "ok" => account' = account /\ \A i \in Of(s) : call.node[i] = "up"
           /\ st = "err" => IF MB!Nodes(s) = 1 THEN account' = account
                            ELSE \E kept \in SUBSET (Of(s) \cap account.rented) :
                                     account' = MB!returnMember(Of(s), account, kept)
    BY DEF MB!launchMember, MB!SlotTo, Of
  <1>4. /\ call'.slot = [call.slot EXCEPT ![s] = st] /\ call'.node = call.node
        /\ call'.recorded = call.recorded /\ call'.left = call.left /\ call' \in MemberCalls
        /\ call'.slot[s] = st
    BY <1>2, <1>3 DEF MemberCalls
  <1>5. \/ account' = account /\ (st = "err" => s = 2)
        \/ st = "err" /\ \E kept \in SUBSET (Of(s) \cap account.rented) : account' = MB!returnMember(Of(s), account, kept)
    BY <1>3, MemberNames DEF MB!Nodes
  <1>6. /\ account' \in MemberAccounts /\ account'.kind = account.kind
        /\ \A i \in MB!Ids \ Of(s) : /\ i \in account'.rented <=> i \in account.rented
                                     /\ i \in account'.unreturned <=> i \in account.unreturned
        /\ \/ account' = account /\ (st = "err" => s = 2)
           \/ st = "err" /\ \A i \in Of(s) : ~Held(i)'
    <2>1. CASE account' = account /\ (st = "err" => s = 2)
      BY <1>2, <2>1
    <2>2. ASSUME NEW kept \in SUBSET (Of(s) \cap account.rented), st = "err",
                 account' = MB!returnMember(Of(s), account, kept)
          PROVE  /\ account' \in MemberAccounts /\ account'.kind = account.kind
                 /\ \A i \in MB!Ids \ Of(s) : /\ i \in account'.rented <=> i \in account.rented
                                              /\ i \in account'.unreturned <=> i \in account.unreturned
                 /\ \A i \in Of(s) : ~Held(i)'
      <3>1. Of(s) \in SUBSET MB!Ids
        BY MemberNames
      <3> QED
        BY <1>2, <2>2, <3>1, MemberReturns
    <2> QED
      BY <1>5, <2>1, <2>2
  <1>7. FanOutOf(s, Of(s))
    BY <1>1, <1>2, <1>4, <1>6 DEF FanOutOf, MemberCalls
  <1>8. SlotInv(s)'
    <2>1. SlotAsPlaced(s)'
      BY <1>4 DEF SlotAsPlaced
    <2>2. SlotAsLaunched(s)'
      BY <1>1, <1>2, <1>3, <1>4 DEF SlotInv, SlotAsLaunched
    <2>3. SlotAsFailed(s)'
      BY <1>4, <1>6 DEF SlotAsFailed
    <2>4. call.recorded /\ told.members[s] = MB!Machines(s)
      BY <1>1, <1>2 DEF SlotInv, SlotRecorded
    <2>5. SlotRecorded(s)'
      BY <1>1, <1>2, <1>4, <2>4 DEF SlotInv, SlotRecorded
    <2> QED
      BY <2>1, <2>2, <2>3, <2>5 DEF SlotInv
  <1> QED
    BY <1>1, <1>2, <1>4, <1>6, <1>7, <1>8, MemberStep DEF MembersTyped

\* applyAggregateState: RUNNING only of members that are all whole.
LEMMA MembersAggregate ==
  ASSUME MembersInv, MB!applyAggregateState
  PROVE  MembersInv'
  <1> PICK st \in {"RUNNING", "DEGRADED", "FAILED"} :
         /\ told' = [told EXCEPT !.state = st]
         /\ st = "RUNNING" => \A s \in MB!Slots : call.slot[s] = "ok"
    BY DEF MB!applyAggregateState
  <1>1. /\ told.state = "PENDING" /\ call.recorded /\ (\A s \in MB!Slots : call.slot[s] \in {"ok", "err"})
        /\ account' = account /\ call' = call
    BY DEF MB!applyAggregateState
  <1>2. MembersTyped /\ told \in MemberRecords /\ call.left = <<>>
    BY <1>1 DEF MembersInv, MembersTyped, FanOutFirst
  <1>3. /\ told'.state = st /\ told'.members = told.members /\ told'.endpoint = told.endpoint
        /\ told' \in MemberRecords
    BY <1>2 DEF MemberRecords
  <1>4. ASSUME NEW s \in MB!Slots PROVE SlotInv(s)'
    <2>1. SlotInv(s)
      BY DEF MembersInv
    <2> QED
      BY <1>1, <1>3, <2>1 DEF SlotInv, SlotAsPlaced, SlotAsLaunched, SlotAsFailed, SlotRecorded, Held
  <1>5. FanOutFirst' /\ StillToRelease' /\ MB!TeardownComplete'
    BY <1>1, <1>2, <1>3 DEF FanOutFirst, StillToRelease, MB!TeardownComplete
  <1> QED
    BY <1>1, <1>2, <1>3, <1>4, <1>5 DEF MembersInv, MembersTyped

\* While a deployment is destroyed, a machine is given back or kept, and what
\* holds of its member still does.
LEMMA MemberReleased ==
  ASSUME NEW t \in MB!Slots, SlotInv(t), MembersTyped,
         told.state \in {"TERMINATING", "TERMINATED"} \/ account' = account,
         told'.state \in {"TERMINATING", "TERMINATED"}, call.slot[t] \in {"ok", "err"}, call.recorded,
         call'.slot = call.slot, call'.node = call.node, call'.recorded = call.recorded,
         told'.members = told.members, told'.endpoint = told.endpoint, account'.kind = account.kind,
         account'.unreturned = account.unreturned, account'.rented \subseteq account.rented,
         account.kind = "vm" => \A i \in Of(1) : i \in account.rented => i \in account'.rented
  PROVE  SlotInv(t)'
  <1>1. \A i : Held(i)' => Held(i)
    BY DEF Held
  <1>2. SlotAsPlaced(t)' /\ SlotAsLaunched(t)'
    BY DEF SlotInv, SlotAsPlaced, SlotAsLaunched
  <1>3. SlotAsFailed(t)'
    <2>1. CASE t = 2
      BY <2>1 DEF SlotAsFailed
    <2>2. CASE t = 1 /\ account.kind = "vm" /\ \A i \in Of(1) : Held(i)
      BY <2>2 DEF SlotAsFailed, Held
    <2>3. CASE \A i \in Of(t) : ~Held(i)
      BY <1>1, <2>3 DEF SlotAsFailed
    <2> QED
      BY <2>1, <2>2, <2>3, MemberNames DEF SlotInv, SlotAsFailed
  <1>4. SlotRecorded(t)'
    BY <1>1 DEF SlotInv, SlotRecorded
  <1> QED
    BY <1>2, <1>3, <1>4 DEF SlotInv

\* A sequence of two more than n items has an item n + 1.
LEMMA LastButOne == \A n \in Nat : n + 1 \in 1..(n + 2)
  OBVIOUS

\* A destroy begins with every machine the record names.
LEMMA MembersListed ==
  ASSUME MembersInv, call.recorded, NEW i \in MB!Ids, Held(i),
         NEW left, left = told.members[1] \o told.members[2] \o <<<<>>>>
  PROVE  \E k \in 1..Len(left) : left[k] = i
  <1>1. told.members[1] \in Seq(MB!Ids) /\ told.members[2] \in Seq(MB!Ids) /\ <<<<>>>> \in Seq({<<>>})
    BY MemberNames DEF MembersInv, MembersTyped, MemberRecords
  <1>2. SlotRecorded(1) /\ SlotRecorded(2)
    BY MemberNames DEF MembersInv, SlotInv
  <1>3. CASE i \in Of(1)
    <2>1. told.members[1] = <<<<1, 1>>, <<1, 2>>>> /\ i \in {<<1, 1>>, <<1, 2>>}
      BY <1>2, <1>3, MemberNames DEF SlotRecorded
    <2>2. 1 \in 1..Len(left) /\ 2 \in 1..Len(left) /\ left[1] = <<1, 1>> /\ left[2] = <<1, 2>>
      BY <1>1, <2>1
    <2> QED
      BY <2>1, <2>2
  <1>4. CASE i \in Of(2)
    <2>1. told.members[2] = <<<<2>>>> /\ i = <<2>>
      BY <1>2, <1>4, MemberNames DEF SlotRecorded
    <2> PICK n : n = Len(told.members[1])
      OBVIOUS
    <2>2. n \in Nat /\ Len(left) = n + 2 /\ left[n + 1] = <<2>>
      BY <1>1, <2>1
    <2>4. n \in Nat /\ Len(left) = n + 2
      BY <2>2
    <2>3. n + 1 \in 1..Len(left)
      BY <2>4, LastButOne
    <2> QED
      BY <2>1, <2>2, <2>3
  <1> QED
    BY <1>3, <1>4, MemberNames

\* DestroyDeployment begins.
LEMMA MembersDestroy ==
  ASSUME MembersInv, MB!DestroyDeployment
  PROVE  MembersInv'
  <1> PICK left : left = told.members[1] \o told.members[2] \o <<<<>>>>
    OBVIOUS
  <1>1. /\ told.state # "PENDING" /\ account' = account /\ told' = [told EXCEPT !.state = "TERMINATING"]
        /\ call' = [call EXCEPT !.left = left, !.failed = FALSE, !.destroys = call.destroys + 1]
    BY DEF MB!DestroyDeployment
  <1>2. /\ MembersTyped /\ account \in MemberAccounts /\ call \in MemberCalls /\ told \in MemberRecords
        /\ call.recorded /\ \A s \in MB!Slots : call.slot[s] \in {"ok", "err"}
    BY <1>1 DEF MembersInv, MembersTyped, FanOutFirst
  <1>3. left \in Seq(MB!Ids \cup {<<>>})
    <2>1. told.members[1] \in Seq(MB!Ids \cup {<<>>}) /\ told.members[2] \in Seq(MB!Ids \cup {<<>>})
      <3>1. told.members[1] \in Seq(MB!Ids) /\ told.members[2] \in Seq(MB!Ids)
        BY <1>2, MemberNames DEF MemberRecords
      <3> QED
        BY <3>1
    <2>2. <<<<>>>> \in Seq(MB!Ids \cup {<<>>})
      OBVIOUS
    <2> QED
      BY <2>1, <2>2
  <1>4. /\ call'.left = left /\ call'.slot = call.slot /\ call'.node = call.node /\ call'.recorded = call.recorded
    BY <1>1, <1>2 DEF MemberCalls
  <1>5. call' \in MemberCalls
    <2>1. call.destroys + 1 \in Nat
      BY <1>2 DEF MemberCalls
    <2> QED
      BY <1>1, <1>2, <1>3, <2>1 DEF MemberCalls
  <1>6. /\ told'.state = "TERMINATING" /\ told'.members = told.members /\ told'.endpoint = told.endpoint
        /\ told' \in MemberRecords
    BY <1>1, <1>2 DEF MemberRecords
  <1>7. ASSUME NEW t \in MB!Slots PROVE SlotInv(t)'
    <2>1. SlotInv(t) /\ call.slot[t] \in {"ok", "err"}
      BY <1>2 DEF MembersInv
    <2> QED
      BY <1>1, <1>2, <1>4, <1>6, <2>1, MemberReleased
  <1>8. StillToRelease'
    <2> SUFFICES ASSUME NEW i \in MB!Ids, Held(i)' PROVE Listed(i)'
      BY DEF StillToRelease
    <2>1. Held(i)
      BY <1>1 DEF Held
    <2>2. \E k \in 1..Len(left) : left[k] = i
      BY <1>2, <2>1, MembersListed
    <2> QED
      BY <1>4, <2>2 DEF Listed
  <1>9. FanOutFirst' /\ MB!TeardownComplete'
    BY <1>2, <1>4, <1>6 DEF FanOutFirst, MB!TeardownComplete
  <1> QED
    BY <1>1, <1>2, <1>5, <1>6, <1>7, <1>8, <1>9 DEF MembersInv, MembersTyped

\* One machine of a destroy: it is released, or it is one whose name does not
\* say that the deployment owns it, or the destroy has failed.
LEMMA MemberDestroyed ==
  ASSUME MembersInv, MB!DestroyOne
  PROVE  MembersInv'
  <1> PICK id : id = Head(call.left)
    OBVIOUS
  <1>1. /\ call.left # <<>> /\ id # <<>> /\ told' = told
        /\ \/ \E rented \in MB!deployerDestroys(id) :
                 /\ account' = [account EXCEPT !.rented = MB!releaseRental(id, rented),
                                               !.inst[id] = IF MB!ownsInstance(id) THEN "TERMINATED" ELSE account.inst[id]]
                 /\ call' = [call EXCEPT !.left = Tail(call.left)]
           \/ call' = [call EXCEPT !.left = Tail(call.left), !.failed = TRUE] /\ account' = account
    BY DEF MB!DestroyOne
  <1>2. /\ MembersTyped /\ account \in MemberAccounts /\ call \in MemberCalls /\ told \in MemberRecords
        /\ told.state = "TERMINATING" /\ call.recorded /\ \A s \in MB!Slots : call.slot[s] \in {"ok", "err"}
    BY <1>1 DEF MembersInv, MembersTyped, FanOutFirst
  <1>3. /\ call.left \in Seq(MB!Ids \cup {<<>>}) /\ id \in MB!Ids /\ id = call.left[1]
        /\ Tail(call.left) \in Seq(MB!Ids \cup {<<>>})
        /\ Len(Tail(call.left)) = Len(call.left) - 1 /\ Len(call.left) \in Nat
        /\ \A k \in 1..Len(Tail(call.left)) : Tail(call.left)[k] = call.left[k + 1]
    <2> PICK S : S = MB!Ids \cup {<<>>}
      OBVIOUS
    <2>1. call.left \in Seq(S) /\ call.left # <<>>
      BY <1>1, <1>2 DEF MemberCalls
    <2>2. Head(call.left) = call.left[1] /\ call.left[1] \in S /\ Tail(call.left) \in Seq(S)
      BY <2>1
    <2>3. Len(Tail(call.left)) = Len(call.left) - 1 /\ Len(call.left) \in Nat
      BY <2>1
    <2>4. \A k \in 1..Len(Tail(call.left)) : Tail(call.left)[k] = call.left[k + 1]
      BY <2>1
    <2> QED
      BY <1>1, <2>1, <2>2, <2>3, <2>4
  <1>4. /\ call'.left = Tail(call.left) /\ call'.slot = call.slot /\ call'.node = call.node
        /\ call'.recorded = call.recorded /\ call' \in MemberCalls
    BY <1>1, <1>2, <1>3 DEF MemberCalls
  <1>5. \/ call'.failed /\ account' = account
        \/ /\ call'.failed = call.failed
           /\ account' = [account EXCEPT !.rented = IF account.kind = "native" \/ MB!ownsInstance(id)
                                                    THEN account.rented \ {id} ELSE account.rented,
                                         !.inst[id] = IF MB!ownsInstance(id) THEN "TERMINATED" ELSE account.inst[id]]
    <2>1. CASE call' = [call EXCEPT !.left = Tail(call.left), !.failed = TRUE] /\ account' = account
      BY <1>2, <2>1 DEF MemberCalls
    <2>2. ASSUME NEW rented \in MB!deployerDestroys(id),
                 account' = [account EXCEPT !.rented = MB!releaseRental(id, rented),
                                            !.inst[id] = IF MB!ownsInstance(id) THEN "TERMINATED" ELSE account.inst[id]],
                 call' = [call EXCEPT !.left = Tail(call.left)]
          PROVE  <1>5
      <3>1. call'.failed = call.failed
        BY <1>2, <2>2 DEF MemberCalls
      <3>2. rented = IF account.kind = "native" THEN account.rented \ {id} ELSE account.rented
        BY <2>2 DEF MB!deployerDestroys
      <3>3. MB!releaseRental(id, rented) = IF account.kind = "native" \/ MB!ownsInstance(id)
                                           THEN account.rented \ {id} ELSE account.rented
        BY <3>2 DEF MB!releaseRental
      <3> QED
        BY <2>2, <3>1, <3>3
    <2> QED
      BY <1>1, <2>1, <2>2
  <1>6. /\ account'.kind = account.kind /\ account'.unreturned = account.unreturned
        /\ \/ account' = account /\ call'.failed
           \/ account'.rented = IF account.kind = "native" \/ MB!ownsInstance(id)
                                THEN account.rented \ {id} ELSE account.rented
        /\ account' \in MemberAccounts
    <2>1. CASE account' = account /\ call'.failed
      BY <1>2, <2>1
    <2>2. CASE account' = [account EXCEPT !.rented = IF account.kind = "native" \/ MB!ownsInstance(id)
                                                     THEN account.rented \ {id} ELSE account.rented,
                                          !.inst[id] = IF MB!ownsInstance(id) THEN "TERMINATED" ELSE account.inst[id]]
      <3>1. /\ account'.kind = account.kind /\ account'.unreturned = account.unreturned
            /\ account'.rented = IF account.kind = "native" \/ MB!ownsInstance(id)
                                 THEN account.rented \ {id} ELSE account.rented
        BY <1>2, <2>2 DEF MemberAccounts
      <3>2. account' \in MemberAccounts
        BY <1>2, <1>3, <2>2 DEF MemberAccounts
      <3> QED
        BY <3>1, <3>2
    <2> QED
      BY <1>5, <2>1, <2>2
  <1>7. account'.rented \subseteq account.rented
    BY <1>6
  <1>8. account.kind = "vm" => \A i \in Of(1) : i \in account.rented => i \in account'.rented
    BY <1>6, MemberNames
  <1>9. ASSUME NEW t \in MB!Slots PROVE SlotInv(t)'
    <2>1. SlotInv(t) /\ call.slot[t] \in {"ok", "err"}
      BY <1>2 DEF MembersInv
    <2> QED
      BY <1>1, <1>2, <1>4, <1>6, <1>7, <1>8, <2>1, MemberReleased
  <1>10. StillToRelease'
    <2> SUFFICES ASSUME NEW i \in MB!Ids, Held(i)', ~call'.failed
                 PROVE  Listed(i)' \/ (account'.kind = "vm" /\ ~MB!ownsInstance(i))
      BY DEF StillToRelease
    <2>1. Held(i) /\ ~call.failed /\ (account.kind = "native" \/ MB!ownsInstance(id) => i # id)
      BY <1>5, <1>6, <1>7 DEF Held
    <2>2. Listed(i) \/ (account.kind = "vm" /\ ~MB!ownsInstance(i))
      BY <1>1, <2>1 DEF MembersInv, StillToRelease
    <2>3. CASE Listed(i) /\ i # id
      <3>1. PICK k \in 1..Len(call.left) : call.left[k] = i
        BY <2>3 DEF Listed
      <3>2. k # 1 /\ k - 1 \in 1..Len(Tail(call.left)) /\ Tail(call.left)[k - 1] = i
        BY <1>3, <2>3, <3>1
      <3> QED
        BY <1>4, <3>2 DEF Listed
    <2>4. CASE i = id
      BY <1>2, <1>6, <2>1, <2>4 DEF MemberAccounts
    <2> QED
      BY <1>6, <2>2, <2>3, <2>4
  <1>11. FanOutFirst' /\ MB!TeardownComplete'
    BY <1>1, <1>2, <1>4 DEF FanOutFirst, MB!TeardownComplete
  <1> QED
    BY <1>1, <1>2, <1>4, <1>6, <1>9, <1>10, <1>11 DEF MembersInv, MembersTyped

\* The destroy ends: TERMINATED only if everything it can name went back.
LEMMA MembersGone ==
  ASSUME MembersInv, MB!DestroyEnds
  PROVE  MembersInv'
  <1>1. /\ call.left = <<<<>>>> /\ account' = account /\ call' = [call EXCEPT !.left = <<>>]
        /\ told' = [told EXCEPT !.state = IF call.failed THEN "TERMINATING" ELSE "TERMINATED"]
    BY DEF MB!DestroyEnds
  <1>2. /\ MembersTyped /\ account \in MemberAccounts /\ call \in MemberCalls /\ told \in MemberRecords
        /\ told.state = "TERMINATING" /\ call.recorded /\ \A s \in MB!Slots : call.slot[s] \in {"ok", "err"}
    BY <1>1 DEF MembersInv, MembersTyped, FanOutFirst
  <1>3. /\ call'.left = <<>> /\ call'.slot = call.slot /\ call'.node = call.node /\ call'.recorded = call.recorded
        /\ call' \in MemberCalls
    <2>1. <<>> \in Seq(MB!Ids \cup {<<>>})
      OBVIOUS
    <2> PICK none : none = <<>>
      OBVIOUS
    <2>2. call' = [call EXCEPT !.left = none] /\ none \in Seq(MB!Ids \cup {<<>>})
      BY <1>1, <2>1
    <2>3. /\ call'.left = none /\ call'.slot = call.slot /\ call'.node = call.node
          /\ call'.recorded = call.recorded /\ call' \in MemberCalls
      BY <1>2, <2>2 DEF MemberCalls
    <2> QED
      BY <2>3
  <1>4. /\ told'.state = IF call.failed THEN "TERMINATING" ELSE "TERMINATED"
        /\ told'.members = told.members /\ told'.endpoint = told.endpoint /\ told' \in MemberRecords
    BY <1>1, <1>2 DEF MemberRecords
  <1>5. ASSUME NEW t \in MB!Slots PROVE SlotInv(t)'
    <2>1. SlotInv(t) /\ call.slot[t] \in {"ok", "err"} /\ told'.state \in {"TERMINATING", "TERMINATED"}
      BY <1>2, <1>4 DEF MembersInv
    <2> QED
      BY <1>1, <1>2, <1>3, <1>4, <2>1, MemberReleased
  <1>6. ~call.failed => \A i \in MB!Ids : Held(i) => account.kind = "vm" /\ ~MB!ownsInstance(i)
    <2> SUFFICES ASSUME ~call.failed, NEW i \in MB!Ids, Held(i) PROVE account.kind = "vm" /\ ~MB!ownsInstance(i)
      OBVIOUS
    <2>1. ~Listed(i)
      BY <1>1, MemberNames DEF Listed
    <2> QED
      BY <1>1, <2>1 DEF MembersInv, StillToRelease
  <1>7. MB!TeardownComplete'
    <2> SUFFICES ASSUME told'.state = "TERMINATED", NEW i \in account.rented \ account.unreturned
                 PROVE  account.kind = "vm" /\ ~MB!ownsInstance(i)
      BY <1>1 DEF MB!TeardownComplete
    <2>1. ~call.failed /\ i \in MB!Ids
      BY <1>2, <1>4 DEF MemberAccounts
    <2> QED
      BY <1>6, <2>1 DEF Held
  <1>8. FanOutFirst' /\ StillToRelease'
    BY <1>2, <1>3, <1>4 DEF FanOutFirst, StillToRelease
  <1> QED
    BY <1>1, <1>2, <1>3, <1>4, <1>5, <1>7, <1>8 DEF MembersInv, MembersTyped

\* The fan-out of members over machines (fanout.go) and their destroy
\* (service.go), in any order of their steps and failures: a failed member
\* holds all of its machines or none, RUNNING means every member whole and
\* served by its rank 0, and TERMINATED leaves nothing paid for but machines
\* that could not be returned and VMs whose names the deployment does not own.
THEOREM MembersCorrect == MachineSpec => []MembersSafe
  <1> DEFINE Inv == part = "members" => MembersInv
  <1>1. MachineInit => Inv
    BY MembersStart DEF MachineInit
  <1>2. Inv /\ [MachineNext]_vars => Inv'
    <2> SUFFICES ASSUME Inv, [MachineNext]_vars, part' = "members" PROVE MembersInv'
      OBVIOUS
    <2>1. CASE UNCHANGED vars
      <3>1. MembersInv /\ account' = account /\ call' = call /\ told' = told
        BY <2>1 DEF vars
      <3> QED
        BY <3>1 DEF MembersInv, MembersTyped, SlotInv, SlotAsPlaced, SlotAsLaunched, SlotAsFailed, SlotRecorded,
                    Held, Listed, FanOutFirst, StillToRelease, MB!TeardownComplete
    <2>2. CASE MachineNext
      <3>1. part = "members" /\ MembersInv /\ MB!mbNext
        BY <2>2 DEF MachineNext
      <3> QED
        BY <3>1, MemberPlaces, MemberPlaceFails, MembersRecorded, MemberKey, MemberDeploys, MemberLaunches,
           MembersAggregate, MembersDestroy, MemberDestroyed, MembersGone DEF MB!mbNext
    <2> QED
      BY <2>1, <2>2
  <1>3. MembersInv => MB!SpanAllOrNothing /\ MB!RunningIsWhole /\ MB!TeardownComplete
    <2> SUFFICES ASSUME MembersInv PROVE MB!SpanAllOrNothing /\ MB!RunningIsWhole
      BY DEF MembersInv
    <2>1. MB!SpanAllOrNothing
      <3> SUFFICES ASSUME NEW s \in MB!Slots, call.slot[s] = "err"
                   PROVE  (account.rented \ account.unreturned) \cap Of(s) \in {{}, Of(s)}
        BY DEF MB!SpanAllOrNothing, Of
      <3>1. SlotAsFailed(s)
        BY DEF MembersInv, SlotInv
      <3>2. CASE s = 2
        BY <3>2, MemberNames
      <3>3. CASE s # 2
        BY <3>1, <3>3 DEF SlotAsFailed, Held
      <3> QED
        BY <3>2, <3>3
    <2>2. MB!RunningIsWhole
      <3> SUFFICES ASSUME told.state = "RUNNING", NEW s \in MB!Slots
                   PROVE  /\ told.endpoint[s] = MB!Machines(s)[1]
                          /\ \A i \in Of(s) : i \in account.rented /\ call.node[i] = "up"
        BY DEF MB!RunningIsWhole, Of
      <3>1. SlotInv(s) /\ call.slot[s] = "ok"
        BY DEF MembersInv, FanOutFirst
      <3>2. \A i \in Of(s) : i \in account.rented /\ call.node[i] = "up"
        BY <3>1 DEF SlotInv, SlotAsLaunched
      <3> QED
        BY <3>1, <3>2, MemberNames DEF SlotInv, SlotRecorded
    <2> QED
      BY <2>1, <2>2
  <1>4. Inv => MembersSafe
    BY <1>3 DEF MembersSafe
  <1> QED
    BY <1>1, <1>2, <1>4, PTL DEF MachineSpec

-----------------------------------------------------------------------------
(***************************************************************************)
(* The RunPod adapter.                                                     *)
(***************************************************************************)

PodType ==
    [kind : {"vm", "engine", "stage"}, lost : BOOLEAN, gone : BOOLEAN, host : BOOLEAN, up : BOOLEAN,
     serves : BOOLEAN, ip : BOOLEAN, log : {"none", "done", "fail"}, slip : BOOLEAN]

VolumeType == [name : {"cache", "models"}, region : {"east", "west"}]

\* The fields of the three parts of the state, with the types that matter.
PodAccount(a) == a = [pods |-> a.pods, keys |-> a.keys, vols |-> a.vols, staged |-> a.staged]

PodCall(c) == c = [at |-> c.at, pod |-> c.pod, w |-> c.w, seen |-> c.seen]

PodWait(w) == w = [known |-> w.known, phase |-> w.phase, out |-> w.out]

PodTold(t) ==
    t = [state |-> t.state, phase |-> t.phase, container |-> t.container, provider |-> t.provider,
         shape |-> t.shape, does |-> t.does, ssh |-> t.ssh, result |-> t.result]

PodShape ==
    /\ PodAccount(account) /\ PodCall(call) /\ PodWait(call.w) /\ PodTold(told)
    /\ account.pods \in Seq(PodType) /\ account.vols \in Seq(VolumeType)
    /\ told.does \in {"deploy", "spawn", "stage", "key", "volume"} /\ told.shape \in {"single", "slot"}

\* Each kind of pod is made by one kind of call.
KindFits(kind) ==
    /\ kind = "vm" => told.does = "spawn"
    /\ kind = "engine" => told.does = "deploy"
    /\ kind = "stage" => told.does = "stage"

PodKinds == \A i \in 1..Len(account.pods) : KindFits(account.pods[i].kind)

\* A call goes through the steps of what it is for.
PodSteps ==
    /\ told.does = "deploy" => call.at \in {"idle", "wait"}
    /\ told.does = "spawn" => call.at \in {"idle", "get", "ssh"}
    /\ told.does = "stage" => call.at \in {"idle", "stage", "cleanup"}
    /\ told.does = "key" => call.at \in {"idle", "key"}
    /\ told.does = "volume" => call.at = "idle"
    /\ told.does \notin {"deploy", "spawn"} => told.state # "TERMINATED"

\* An instance has at most one machine running, and knows of it unless its
\* answer was lost: the next request is made only when none is listed.
SpawnHolds ==
    told.does = "spawn" =>
        /\ \A i, j \in 1..Len(account.pods) : account.pods[i].gone \/ account.pods[j].gone \/ i = j
        /\ \A i \in 1..Len(account.pods) :
               \/ account.pods[i].gone \/ account.pods[i].lost
               \/ i = told.provider \/ (call.at = "get" /\ i = call.pod)
        /\ call.at = "get" => /\ \A i \in 1..Len(account.pods) : account.pods[i].gone \/ i = call.pod
                              /\ told.state # "TERMINATED"
        /\ told.state = "TERMINATED" =>
               \A i \in 1..Len(account.pods) : account.pods[i].gone \/ account.pods[i].lost

\* A deployment knows of its pod unless the answer was lost: the request is
\* made once, before anything is recorded.
EngineHolds ==
    told.does = "deploy" =>
        /\ call.at = "wait" => told.state = "CONFIGURING"
        /\ told.state = "PENDING" => told.container = 0 /\ told.provider = 0 /\ told.phase = "none"
        /\ \A i \in 1..Len(account.pods) :
               i = RP!destroyedPod \/ account.pods[i].gone \/ account.pods[i].lost
        /\ told.state = "TERMINATED" =>
               \A i \in 1..Len(account.pods) : account.pods[i].gone \/ account.pods[i].lost

\* A staging pod still running is the one in hand, or one whose creation was
\* lost or whose termination failed.
StageHolds ==
    told.does = "stage" =>
        \A i \in 1..Len(account.pods) :
            \/ account.pods[i].gone \/ account.pods[i].lost \/ account.pods[i].slip
            \/ call.at # "idle" /\ i = call.pod

\* A pod says done only of a model that is on the volume.
LogsHonest ==
    /\ \A i \in 1..Len(account.pods) : account.pods[i].log = "done" => account.staged
    /\ told.result = "staged" => account.staged

BlobKept ==
    told.result = "keyed" =>
        told.does = "key" /\ (call.seen \ {"iplane-old"}) \cup {RP!Own} \subseteq account.keys

VolumesHold ==
    /\ told.result \in {"east", "west"} =>
           \E k \in 1..Len(account.vols) : account.vols[k] = [name |-> "models", region |-> told.result]
    /\ \A j, k \in 1..Len(account.vols) : account.vols[j] = account.vols[k] => j = k

\* What is reported of the phase is what the wait has reached; a wait that has
\* seen nothing yet reports the first rung.
PhaseReported ==
    /\ told.phase \in {"none", "scheduling", "image-pull", "init", "serving"}
    /\ call.w.phase \in {"none", "scheduling", "image-pull", "init"}
    /\ call.at # "wait" => call.w.phase = "none"
    /\ call.at = "wait" => told.phase = IF call.w.phase = "none" THEN "scheduling" ELSE call.w.phase

PodInv ==
    /\ PodShape /\ PodKinds /\ PodSteps /\ SpawnHolds /\ EngineHolds /\ StageHolds
    /\ LogsHonest /\ BlobKept /\ VolumesHold /\ PhaseReported

\* What the account of pods is after a step, as far as every call needs it:
\* only pods of the call's own kind, honest about what they staged.
PodsFit ==
    /\ PodAccount(account') /\ account'.pods \in Seq(PodType) /\ account'.vols = account.vols
    /\ account.keys \subseteq account'.keys /\ (account.staged => account'.staged)
    /\ \A k \in 1..Len(account'.pods) :
           KindFits(account'.pods[k].kind) /\ (account'.pods[k].log = "done" => account'.staged)

\* What RunPod does with its pods between two requests: it revives none, and
\* forgets neither a lost answer nor a failed termination.
PodsAge ==
    /\ PodsFit /\ Len(account'.pods) = Len(account.pods)
    /\ \A k \in 1..Len(account.pods) :
           /\ account'.pods[k].lost <=> account.pods[k].lost
           /\ account.pods[k].gone => account'.pods[k].gone
           /\ account.pods[k].slip => account'.pods[k].slip

\* No call in progress.
LEMMA PodIdle ==
  LET c == RP!NoCall IN
    c.at = "idle" /\ c.pod = 0 /\ c.w.phase = "none" /\ c.seen = {} /\ PodCall(c) /\ PodWait(c.w)
  BY DEF RP!NoCall, RP!Waiting, PodCall, PodWait

\* The account starts with a volume, keys and no pod.
LEMMA PodStart == RP!rpInit => PodInv
  <1> SUFFICES ASSUME RP!rpInit PROVE PodInv
    OBVIOUS
  <1>1. /\ account = [pods |-> <<>>, keys |-> {"theirs", "iplane-old"},
                      vols |-> <<[name |-> "cache", region |-> "east"]>>, staged |-> FALSE]
        /\ call = RP!NoCall
    BY DEF RP!rpInit
  <1>2. PICK does \in {"deploy", "spawn", "stage", "key", "volume"}, sh \in {"single", "slot"} :
           told = [RP!Unrecorded EXCEPT !.does = does, !.shape = sh]
    BY DEF RP!rpInit, RP!Shapes
  <1>3. told = [state |-> "PENDING", phase |-> "none", container |-> 0, provider |-> 0,
                shape |-> sh, does |-> does, ssh |-> FALSE, result |-> "none"]
    BY <1>2 DEF RP!Unrecorded
  <1>4. account.pods = <<>> /\ <<>> \in Seq(PodType) /\ Len(<<>>) = 0
    BY <1>1
  <1> PICK v : v = [name |-> "cache", region |-> "east"]
    OBVIOUS
  <1>5. v \in VolumeType /\ account.vols = <<v>> /\ <<v>> \in Seq(VolumeType) /\ Len(<<v>>) = 1
    BY <1>1 DEF VolumeType
  <1>6. call.at = "idle" /\ call.w.phase = "none" /\ PodCall(call) /\ PodWait(call.w)
    BY <1>1, PodIdle
  <1>7. PodShape
    BY <1>1, <1>3, <1>4, <1>5, <1>6 DEF PodShape, PodAccount, PodTold
  <1>8. PodKinds /\ PodSteps /\ SpawnHolds /\ EngineHolds /\ StageHolds /\ LogsHonest
    BY <1>3, <1>4, <1>6 DEF PodKinds, PodSteps, SpawnHolds, EngineHolds, StageHolds, LogsHonest
  <1>9. BlobKept /\ VolumesHold
    BY <1>3, <1>5 DEF BlobKept, VolumesHold
  <1>10. PhaseReported
    BY <1>3, <1>6 DEF PhaseReported
  <1> QED
    BY <1>7, <1>8, <1>9, <1>10 DEF PodInv

\* A step of any call but those on keys and volumes: what it says of the pods
\* is what is left to show.
LEMMA PodStep ==
  ASSUME PodInv, PodsFit, told'.does = told.does, told'.shape = told.shape, PodTold(told'), PodCall(call'),
         PodWait(call'.w), PodSteps', SpawnHolds', EngineHolds', StageHolds', PhaseReported',
         \/ told'.result = told.result \/ told'.result \in {"none", "error"}
         \/ told'.result = "staged" /\ account'.staged,
         call'.seen = call.seen \/ told.does # "key"
  PROVE  PodInv'
  <1>1. PodShape /\ LogsHonest /\ BlobKept /\ VolumesHold
    BY DEF PodInv
  <1>2. PodShape'
    BY <1>1 DEF PodShape, PodsFit
  <1>3. PodKinds'
    BY DEF PodKinds, PodsFit, KindFits
  <1>4. LogsHonest'
    BY <1>1 DEF LogsHonest, PodsFit
  <1>5. BlobKept'
    <2> SUFFICES ASSUME told'.result = "keyed" PROVE BlobKept'
      BY DEF BlobKept
    <2>1. told.result = "keyed" /\ told.does = "key" /\ call'.seen = call.seen
      BY <1>1 DEF BlobKept
    <2> QED
      BY <1>1, <2>1 DEF BlobKept, PodsFit
  <1>6. VolumesHold'
    BY <1>1 DEF VolumesHold, PodsFit
  <1> QED
    BY <1>2, <1>3, <1>4, <1>5, <1>6 DEF PodInv

\* RunPod's own doing changes its account only.
LEMMA PodMoves ==
  ASSUME PodInv, call' = call, told' = told, PodsAge
  PROVE  PodInv'
  <1>1. PodShape /\ PodSteps /\ SpawnHolds /\ EngineHolds /\ StageHolds /\ PhaseReported
    BY DEF PodInv
  <1>2. PodsFit /\ PodTold(told') /\ PodCall(call') /\ PodWait(call'.w)
    BY <1>1 DEF PodsAge, PodShape
  <1>3. PodSteps' /\ PhaseReported'
    BY <1>1 DEF PodSteps, PhaseReported
  <1>4. SpawnHolds' /\ StageHolds'
    BY <1>1 DEF SpawnHolds, StageHolds, PodsAge
  <1>5. EngineHolds'
    BY <1>1 DEF EngineHolds, RP!destroyedPod, PodsAge
  <1> QED
    BY <1>2, <1>3, <1>4, <1>5, PodStep

\* A call that leaves the account alone lets nothing age.
LEMMA PodStill ==
  ASSUME PodInv, account' = account
  PROVE  PodsAge
  BY DEF PodInv, PodShape, PodKinds, LogsHonest, PodsAge, PodsFit

\* A pod changes: it gets a host, starts, serves, reports, or ends.
LEMMA PodTouches ==
  ASSUME PodInv, NEW i \in 1..Len(account.pods), NEW d \in PodType,
         account'.pods = [account.pods EXCEPT ![i] = d], account'.vols = account.vols, account'.keys = account.keys,
         PodAccount(account'), account.staged => account'.staged, d.log = "done" => account'.staged,
         d.kind = account.pods[i].kind, d.lost <=> account.pods[i].lost, account.pods[i].gone => d.gone,
         account.pods[i].slip => d.slip
  PROVE  PodsAge /\ account'.pods[i] = d
  <1>1. account.pods \in Seq(PodType) /\ Len(account.pods) \in Nat /\ PodKinds /\ LogsHonest
    BY DEF PodInv, PodShape
  <1>2. account'.pods \in Seq(PodType) /\ Len(account'.pods) = Len(account.pods)
    BY <1>1
  <1>3. \A k \in 1..Len(account.pods) : account'.pods[k] = IF k = i THEN d ELSE account.pods[k]
    BY <1>1
  <1>4. PodsFit
    BY <1>1, <1>2, <1>3 DEF PodsFit, PodKinds, LogsHonest
  <1> QED
    BY <1>2, <1>3, <1>4 DEF PodsAge

\* Removed: the pod is gone if the DELETE worked or it was gone already.
LEMMA PodRemoves ==
  ASSUME PodInv, NEW i, NEW ans, account' = RP!Removed(i, ans)
  PROVE  /\ PodsAge
         /\ RP!DeleteErr(i, ans) = "ok" /\ i \in 1..Len(account.pods) => account'.pods[i].gone
         /\ ans \in {"ok", "lost"} /\ i \in 1..Len(account.pods) => account'.pods[i].gone
  <1>1. /\ PodShape /\ LogsHonest /\ account.pods \in Seq(PodType) /\ DOMAIN account.pods = 1..Len(account.pods)
    BY DEF PodInv, PodShape
  <1>2. CASE RP!Alive(i) /\ ans \in {"ok", "lost"}
    <2>0. PICK d : d = [account.pods[i] EXCEPT !.gone = TRUE]
      OBVIOUS
    <2>1. account' = [account EXCEPT !.pods[i] = d] /\ i \in 1..Len(account.pods)
      BY <1>1, <1>2, <2>0 DEF RP!Removed, RP!Alive
    <2>2. account.pods[i] \in PodType
      BY <1>1, <2>1
    <2>3. d \in PodType /\ d.gone
      BY <2>0, <2>2 DEF PodType
    <2>4. /\ d.lost = account.pods[i].lost /\ d.kind = account.pods[i].kind /\ d.slip = account.pods[i].slip
          /\ d.log = account.pods[i].log
      BY <2>0, <2>2 DEF PodType
    <2>5. /\ account'.pods = [account.pods EXCEPT ![i] = d] /\ account'.vols = account.vols
          /\ account'.keys = account.keys /\ account'.staged = account.staged /\ PodAccount(account')
      BY <1>1, <2>1 DEF PodShape, PodAccount
    <2>6. d.log = "done" => account'.staged
      BY <1>1, <2>1, <2>4, <2>5 DEF LogsHonest
    <2>7. PodsAge /\ account'.pods[i] = d
      BY <2>1, <2>3, <2>4, <2>5, <2>6, PodTouches
    <2> QED
      BY <2>3, <2>7
  <1>3. CASE ~(RP!Alive(i) /\ ans \in {"ok", "lost"})
    <2>1. account' = account /\ PodsAge
      BY <1>3, PodStill DEF RP!Removed
    <2>2. RP!DeleteErr(i, ans) = "ok" \/ ans \in {"ok", "lost"} => ~RP!Alive(i)
      BY <1>3 DEF RP!DeleteErr
    <2> QED
      BY <1>1, <2>1, <2>2 DEF RP!Alive
  <1> QED
    BY <1>2, <1>3

\* Created: the pods there were, and one more if RunPod acted.
LEMMA PodCreates ==
  ASSUME PodInv, NEW kind \in {"vm", "engine", "stage"}, KindFits(kind), NEW ans, account' = RP!Created(kind, ans)
  PROVE  /\ PodsFit /\ account'.keys = account.keys /\ account'.staged = account.staged
         /\ Len(account.pods) \in Nat
         /\ \A k \in 1..Len(account'.pods) :
                \/ k \in 1..Len(account.pods) /\ account'.pods[k] = account.pods[k]
                \/ k = Len(account.pods) + 1 /\ (ans = "ok" \/ account'.pods[k].lost)
  <1>1. /\ PodShape /\ PodKinds /\ LogsHonest /\ account.pods \in Seq(PodType) /\ Len(account.pods) \in Nat
    BY DEF PodInv, PodShape
  <1>2. CASE ans \in {"ok", "lost"}
    <2> PICK lost \in BOOLEAN : lost = (ans = "lost")
      OBVIOUS
    <2> PICK p : p = RP!Pod(kind, lost)
      OBVIOUS
    <2>1. account' = [account EXCEPT !.pods = Append(account.pods, p)]
      BY <1>2 DEF RP!Created
    <2>2. p \in PodType /\ p.kind = kind /\ p.lost = lost /\ p.log = "none"
      BY DEF RP!Pod, PodType
    <2>3. /\ account'.pods = Append(account.pods, p) /\ account'.vols = account.vols
          /\ account'.keys = account.keys /\ account'.staged = account.staged /\ PodAccount(account')
      BY <1>1, <2>1 DEF PodShape, PodAccount
    <2>4. /\ account'.pods \in Seq(PodType) /\ Len(account'.pods) = Len(account.pods) + 1
          /\ account'.pods[Len(account.pods) + 1] = p
          /\ \A k \in 1..Len(account.pods) : account'.pods[k] = account.pods[k]
      BY <1>1, <2>2, <2>3
    <2>5. \A k \in 1..Len(account'.pods) : k \in 1..Len(account.pods) \/ k = Len(account.pods) + 1
      BY <1>1, <2>4
    <2>6. PodsFit
      BY <1>1, <2>2, <2>3, <2>4, <2>5 DEF PodsFit, PodKinds, LogsHonest
    <2>7. ans = "ok" \/ p.lost
      BY <1>2, <2>2
    <2> QED
      BY <1>1, <2>3, <2>4, <2>5, <2>6, <2>7
  <1>3. CASE ans \notin {"ok", "lost"}
    <2>1. account' = account
      BY <1>3 DEF RP!Created
    <2> QED
      BY <1>1, <2>1, PodStill DEF PodsAge
  <1> QED
    BY <1>2, <1>3

\* A step of a spawn.
LEMMA PodSpawnStep ==
  ASSUME PodInv, PodsFit, told.does = "spawn", told'.does = "spawn", told'.shape = told.shape,
         told'.phase = told.phase, told'.result = told.result, PodTold(told'), PodCall(call'), PodWait(call'.w),
         call'.w.phase = "none", call'.at \in {"idle", "get", "ssh"}, SpawnHolds'
  PROVE  PodInv'
  <1>1. PodSteps' /\ EngineHolds' /\ StageHolds'
    BY DEF PodSteps, EngineHolds, StageHolds
  <1>2. PhaseReported'
    BY DEF PodInv, PhaseReported
  <1> QED
    BY <1>1, <1>2, PodStep

\* The pods of a spawn are machines.
LEMMA PodVms ==
  ASSUME PodInv, told.does = "spawn"
  PROVE  \A i \in 1..Len(account.pods) : account.pods[i].gone \/ i \in RP!List
  <1>1. account.pods \in Seq(PodType) /\ DOMAIN account.pods = 1..Len(account.pods) /\ PodKinds
    BY DEF PodInv, PodShape
  <1>2. \A i \in 1..Len(account.pods) : account.pods[i].kind = "vm"
    <2> SUFFICES ASSUME NEW i \in 1..Len(account.pods) PROVE account.pods[i].kind = "vm"
      OBVIOUS
    <2>1. account.pods[i] \in PodType
      BY <1>1
    <2>2. account.pods[i].kind \in {"vm", "engine", "stage"}
      BY <2>1 DEF PodType
    <2> QED
      BY <1>1, <2>2 DEF PodKinds, KindFits
  <1> QED
    BY <1>1, <1>2 DEF RP!List, RP!Alive

\* The states of a spawn's call.
LEMMA PodSpawnCall ==
  ASSUME PodInv, told.does = "spawn"
  PROVE  /\ PodShape /\ SpawnHolds /\ call.w.phase = "none" /\ call.at \in {"idle", "get", "ssh"}
         /\ PodTold(told) /\ PodCall(call) /\ PodWait(call.w)
  BY DEF PodInv, PodShape, PodSteps, PhaseReported

\* Adopt: the one machine listed is the instance's from now on.
LEMMA PodAdopts ==
  ASSUME PodInv, RP!Adopt
  PROVE  PodInv'
  <1>1. /\ told.does = "spawn" /\ call.at = "idle" /\ account' = account /\ call' = call
    BY DEF RP!Adopt
  <1>2. PICK i \in RP!List : told' = [told EXCEPT !.state = "ACTIVE", !.provider = i]
    BY ZenonT(60) DEF RP!Adopt
  <1>3. /\ PodShape /\ SpawnHolds /\ call.w.phase = "none" /\ PodTold(told) /\ PodCall(call) /\ PodWait(call.w)
        /\ PodsFit
    BY <1>1, PodSpawnCall, PodStill DEF PodsAge
  <1>4. /\ told'.does = told.does /\ told'.shape = told.shape /\ told'.phase = told.phase
        /\ told'.result = told.result /\ told'.state = "ACTIVE" /\ told'.provider = i /\ PodTold(told')
    BY <1>2, <1>3 DEF PodTold
  <1>5. i \in 1..Len(account.pods) /\ ~account.pods[i].gone
    BY <1>3 DEF RP!List, RP!Alive, PodShape
  <1>6. \A k \in 1..Len(account.pods) : account.pods[k].gone \/ k = i
    BY <1>1, <1>3, <1>5 DEF SpawnHolds
  <1>7. SpawnHolds'
    BY <1>1, <1>4, <1>6 DEF SpawnHolds
  <1> QED
    BY <1>1, <1>3, <1>4, <1>7, PodSpawnStep

\* Spawn: asked for only when no machine is listed.
LEMMA PodSpawns ==
  ASSUME PodInv, NEW ans \in RP!Answers \cup {"empty"}, RP!Spawn(ans)
  PROVE  PodInv'
  <1>1. /\ told.does = "spawn" /\ call.at = "idle" /\ RP!List = {} /\ account' = RP!Created("vm", ans)
        /\ told.state \in {"PENDING", "FAILED"}
    BY DEF RP!Spawn
  <1>2. /\ PodShape /\ SpawnHolds /\ call.w.phase = "none" /\ PodTold(told) /\ PodCall(call) /\ PodWait(call.w)
    BY <1>1, PodSpawnCall
  <1> PICK n : n = Len(account.pods) + 1
    OBVIOUS
  <1>3. KindFits("vm")
    BY <1>1 DEF KindFits
  <1>4. /\ PodsFit
        /\ \A k \in 1..Len(account'.pods) :
                \/ k \in 1..Len(account.pods) /\ account'.pods[k] = account.pods[k]
                \/ k = n /\ (ans = "ok" \/ account'.pods[k].lost)
    BY <1>1, <1>3, PodCreates
  <1>5. \A k \in 1..Len(account.pods) : account.pods[k].gone
    BY <1>1, PodVms
  <1>6. \A k \in 1..Len(account'.pods) : account'.pods[k].gone \/ (k = n /\ (ans = "ok" \/ account'.pods[k].lost))
    BY <1>4, <1>5
  <1>7. CASE ans = "ok"
    <2>1. call' = [call EXCEPT !.at = "get", !.pod = n] /\ told' = told
      BY <1>7 DEF RP!Spawn
    <2>2. call'.at = "get" /\ call'.pod = n /\ call'.w = call.w /\ PodCall(call')
      BY <1>2, <2>1 DEF PodCall
    <2>3. SpawnHolds'
      BY <1>1, <1>6, <2>1, <2>2 DEF SpawnHolds
    <2> QED
      BY <1>1, <1>2, <1>4, <2>1, <2>2, <2>3, PodSpawnStep
  <1>8. CASE ans # "ok"
    <2>1. told' = [told EXCEPT !.state = "FAILED"] /\ call' = call
      BY <1>8 DEF RP!Spawn
    <2>2. /\ told'.does = told.does /\ told'.shape = told.shape /\ told'.phase = told.phase
          /\ told'.result = told.result /\ told'.state = "FAILED" /\ PodTold(told')
      BY <1>2, <2>1 DEF PodTold
    <2>3. SpawnHolds'
      BY <1>1, <1>6, <1>8, <2>1, <2>2 DEF SpawnHolds
    <2> QED
      BY <1>1, <1>2, <1>4, <2>1, <2>2, <2>3, PodSpawnStep
  <1> QED
    BY <1>7, <1>8

\* The machine rented is recorded, whether it could be described or not.
LEMMA PodGets ==
  ASSUME PodInv, NEW ok \in BOOLEAN, RP!SpawnGet(ok)
  PROVE  PodInv'
  <1>1. call.at = "get" /\ account' = account /\ call' = [call EXCEPT !.at = "ssh"]
    BY DEF RP!SpawnGet
  <1>2. PICK s : told' = [told EXCEPT !.state = "ACTIVE", !.provider = call.pod, !.ssh = s]
    BY ZenonT(60) DEF RP!SpawnGet
  <1>3. told.does = "spawn"
    BY <1>1 DEF PodInv, PodShape, PodSteps
  <1>4. /\ PodShape /\ SpawnHolds /\ call.w.phase = "none" /\ PodTold(told) /\ PodCall(call) /\ PodWait(call.w)
        /\ PodsFit
    BY <1>1, <1>3, PodSpawnCall, PodStill DEF PodsAge
  <1>5. /\ told'.does = told.does /\ told'.shape = told.shape /\ told'.phase = told.phase
        /\ told'.result = told.result /\ told'.state = "ACTIVE" /\ told'.provider = call.pod /\ PodTold(told')
    BY <1>2, <1>4 DEF PodTold
  <1>6. call'.at = "ssh" /\ call'.w = call.w /\ PodCall(call')
    BY <1>1, <1>4 DEF PodCall
  <1>7. SpawnHolds'
    BY <1>1, <1>3, <1>4, <1>5, <1>6 DEF SpawnHolds
  <1> QED
    BY <1>1, <1>3, <1>4, <1>5, <1>6, <1>7, PodSpawnStep

\* WaitForSSHReady changes no machine and forgets none.
LEMMA PodSsh ==
  ASSUME PodInv, NEW ans \in {"ok", "busy"}, RP!WaitForSSHReady(ans)
  PROVE  PodInv'
  <1>1. /\ told.does = "spawn" /\ call.at = "ssh" /\ account' = account /\ (call' = call \/ call' = RP!NoCall)
        /\ told' = told \/ told' = [told EXCEPT !.ssh = TRUE]
    BY DEF RP!WaitForSSHReady
  <1>2. /\ PodShape /\ SpawnHolds /\ call.w.phase = "none" /\ PodTold(told) /\ PodCall(call) /\ PodWait(call.w)
        /\ PodsFit
    BY <1>1, PodSpawnCall, PodStill DEF PodsAge
  <1>3. /\ told'.does = told.does /\ told'.shape = told.shape /\ told'.phase = told.phase
        /\ told'.result = told.result /\ told'.state = told.state /\ told'.provider = told.provider /\ PodTold(told')
    BY <1>1, <1>2 DEF PodTold
  <1>4. PodCall(call') /\ PodWait(call'.w) /\ call'.w.phase = "none" /\ call'.at \in {"idle", "ssh"}
    BY <1>1, <1>2, PodIdle
  <1>5. SpawnHolds'
    BY <1>1, <1>2, <1>3, <1>4 DEF SpawnHolds
  <1> QED
    BY <1>1, <1>2, <1>3, <1>4, <1>5, PodSpawnStep

\* Terminate: TERMINATED only when the machine it knew of is gone.
LEMMA PodTerminates ==
  ASSUME PodInv, NEW ans \in RP!Answers, RP!Terminate(ans)
  PROVE  PodInv'
  <1> PICK st : st = IF RP!DeleteErr(told.provider, ans) = "ok" THEN "TERMINATED" ELSE told.state
    OBVIOUS
  <1>1. /\ told.does = "spawn" /\ call.at = "idle" /\ told.state = "ACTIVE" /\ call' = call
        /\ account' = RP!Removed(told.provider, ans) /\ told' = [told EXCEPT !.state = st]
    BY DEF RP!Terminate
  <1>2. /\ PodShape /\ SpawnHolds /\ call.w.phase = "none" /\ PodTold(told) /\ PodCall(call) /\ PodWait(call.w)
    BY <1>1, PodSpawnCall
  <1>3. /\ PodsAge
        /\ RP!DeleteErr(told.provider, ans) = "ok" /\ told.provider \in 1..Len(account.pods)
              => account'.pods[told.provider].gone
    BY <1>1, PodRemoves
  <1>4. /\ told'.does = told.does /\ told'.shape = told.shape /\ told'.phase = told.phase
        /\ told'.result = told.result /\ told'.state = st /\ told'.provider = told.provider /\ PodTold(told')
    BY <1>1, <1>2 DEF PodTold
  <1>5. \A k \in 1..Len(account'.pods) :
           account'.pods[k].gone \/ account'.pods[k].lost \/ k = told.provider
    BY <1>1, <1>2, <1>3 DEF SpawnHolds, PodsAge
  <1>6. st = "TERMINATED" => \A k \in 1..Len(account'.pods) : account'.pods[k].gone \/ account'.pods[k].lost
    BY <1>1, <1>3, <1>5 DEF PodsAge
  <1>7. \A j, k \in 1..Len(account'.pods) : account'.pods[j].gone \/ account'.pods[k].gone \/ j = k
    BY <1>1, <1>2, <1>3 DEF SpawnHolds, PodsAge
  <1>8. SpawnHolds'
    BY <1>1, <1>4, <1>5, <1>6, <1>7 DEF SpawnHolds
  <1>9. PodsFit
    BY <1>3 DEF PodsAge
  <1> QED
    BY <1>1, <1>2, <1>4, <1>8, <1>9, PodSpawnStep

\* A step of a deploy.
LEMMA PodDeployStep ==
  ASSUME PodInv, PodsFit, told.does = "deploy", told'.does = "deploy", told'.shape = told.shape,
         told'.result = told.result, PodTold(told'), PodCall(call'), PodWait(call'.w),
         call'.at \in {"idle", "wait"}, EngineHolds', PhaseReported'
  PROVE  PodInv'
  <1>1. PodSteps' /\ SpawnHolds' /\ StageHolds'
    BY DEF PodSteps, SpawnHolds, StageHolds
  <1> QED
    BY <1>1, PodStep

\* The states of a deploy's call.
LEMMA PodDeployCall ==
  ASSUME PodInv, told.does = "deploy"
  PROVE  /\ PodShape /\ EngineHolds /\ PhaseReported /\ call.at \in {"idle", "wait"}
         /\ PodTold(told) /\ PodCall(call) /\ PodWait(call.w)
  BY DEF PodInv, PodShape, PodSteps

\* Deploy: the pod is named as soon as its creation is answered.
LEMMA PodDeploys ==
  ASSUME PodInv, NEW ans \in RP!Answers \cup {"empty"}, RP!Deploy(ans)
  PROVE  PodInv'
  <1> PICK n : n = Len(account.pods) + 1
    OBVIOUS
  <1>1. /\ told.does = "deploy" /\ call.at = "idle" /\ told.state = "PENDING" /\ account' = RP!Created("engine", ans)
    BY DEF RP!Deploy
  <1>2. /\ PodShape /\ EngineHolds /\ PhaseReported /\ PodTold(told) /\ PodCall(call) /\ PodWait(call.w)
        /\ told.shape \in {"single", "slot"}
    BY <1>1, PodDeployCall DEF PodShape
  <1>3. KindFits("engine")
    BY <1>1 DEF KindFits
  <1>4. /\ PodsFit /\ Len(account.pods) \in Nat
        /\ \A k \in 1..Len(account'.pods) :
                \/ k \in 1..Len(account.pods) /\ account'.pods[k] = account.pods[k]
                \/ k = n /\ (ans = "ok" \/ account'.pods[k].lost)
    BY <1>1, <1>3, PodCreates
  <1>5. told.container = 0 /\ told.provider = 0 /\ told.phase = "none"
    BY <1>1, <1>2 DEF EngineHolds
  <1>6. \A k \in 1..Len(account.pods) : account.pods[k].gone \/ account.pods[k].lost
    BY <1>1, <1>2, <1>5 DEF EngineHolds, RP!destroyedPod
  <1>7. CASE ans = "ok"
    <2>1. /\ told' = [RP!Named(n) EXCEPT !.state = "CONFIGURING", !.phase = "scheduling"]
          /\ call' = [call EXCEPT !.at = "wait", !.pod = n]
      BY <1>7 DEF RP!Deploy
    <2>2. call'.at = "wait" /\ call'.w = call.w /\ PodCall(call')
      BY <1>2, <2>1 DEF PodCall
    <2>3. /\ told'.does = told.does /\ told'.shape = told.shape /\ told'.state = "CONFIGURING"
          /\ told'.phase = "scheduling" /\ told'.result = told.result /\ PodTold(told')
          /\ told'.container = (IF told.shape = "single" THEN n ELSE told.container)
          /\ told'.provider = (IF told.shape = "single" THEN told.provider ELSE n)
      <3>1. CASE told.shape = "single"
        <4>1. told' = [[told EXCEPT !.container = n] EXCEPT !.state = "CONFIGURING", !.phase = "scheduling"]
          BY <2>1, <3>1 DEF RP!Named
        <4> QED
          BY <1>2, <3>1, <4>1 DEF PodTold
      <3>2. CASE told.shape # "single"
        <4>1. told' = [[told EXCEPT !.provider = n] EXCEPT !.state = "CONFIGURING", !.phase = "scheduling"]
          BY <2>1, <3>2 DEF RP!Named
        <4> QED
          BY <1>2, <3>2, <4>1 DEF PodTold
      <3> QED
        BY <3>1, <3>2
    <2>4. RP!destroyedPod' = n
      BY <1>4, <1>5, <2>3 DEF RP!destroyedPod
    <2>5. EngineHolds'
      BY <1>4, <1>6, <2>3, <2>4 DEF EngineHolds
    <2>6. PhaseReported'
      BY <1>1, <1>2, <2>2, <2>3 DEF PhaseReported
    <2> QED
      BY <1>1, <1>2, <1>4, <2>2, <2>3, <2>5, <2>6, PodDeployStep
  <1>8. CASE ans # "ok"
    <2>1. told' = [told EXCEPT !.state = "FAILED"] /\ call' = call
      BY <1>8 DEF RP!Deploy
    <2>2. /\ told'.does = told.does /\ told'.shape = told.shape /\ told'.phase = told.phase
          /\ told'.result = told.result /\ told'.state = "FAILED" /\ PodTold(told')
      BY <1>2, <2>1 DEF PodTold
    <2>3. EngineHolds'
      BY <1>1, <1>4, <1>6, <1>8, <2>1, <2>2 DEF EngineHolds
    <2>4. PhaseReported'
      BY <1>2, <2>1, <2>2 DEF PhaseReported
    <2> QED
      BY <1>1, <1>2, <1>4, <2>1, <2>2, <2>3, <2>4, PodDeployStep
  <1> QED
    BY <1>7, <1>8

\* The ranks of the phases a wait can see.
LEMMA PodOrdinals ==
  /\ RP!enginePhaseOrdinal("none") = 0 /\ RP!enginePhaseOrdinal("scheduling") = 1
  /\ RP!enginePhaseOrdinal("image-pull") = 2 /\ RP!enginePhaseOrdinal("init") = 3
  <1>1. /\ DOMAIN RP!Rungs = 1..3 /\ RP!Rungs[1] = "scheduling" /\ RP!Rungs[2] = "image-pull" /\ RP!Rungs[3] = "init"
    BY DEF RP!Rungs
  <1>2. ~\E k \in DOMAIN RP!Rungs : RP!Rungs[k] = "none"
    BY <1>1
  <1>3. \A k \in DOMAIN RP!Rungs : RP!Rungs[k] = "scheduling" <=> k = 1
    BY <1>1
  <1>4. \A k \in DOMAIN RP!Rungs : RP!Rungs[k] = "image-pull" <=> k = 2
    BY <1>1
  <1>5. \A k \in DOMAIN RP!Rungs : RP!Rungs[k] = "init" <=> k = 3
    BY <1>1
  <1>6. 1 \in DOMAIN RP!Rungs /\ 2 \in DOMAIN RP!Rungs /\ 3 \in DOMAIN RP!Rungs
    BY <1>1
  <1>7. RP!enginePhaseOrdinal("none") = 0
    BY <1>2 DEF RP!enginePhaseOrdinal, RP!Ordinal
  <1>8. RP!enginePhaseOrdinal("scheduling") = 1
    BY <1>3, <1>6 DEF RP!enginePhaseOrdinal, RP!Ordinal
  <1>9. RP!enginePhaseOrdinal("image-pull") = 2
    BY <1>4, <1>6 DEF RP!enginePhaseOrdinal, RP!Ordinal
  <1>10. RP!enginePhaseOrdinal("init") = 3
    BY <1>5, <1>6 DEF RP!enginePhaseOrdinal, RP!Ordinal
  <1> QED
    BY <1>7, <1>8, <1>9, <1>10

PodPhases == {"none", "scheduling", "image-pull", "init"}

\* What is reported for a rung.
Reported(p) == IF p = "none" THEN "scheduling" ELSE p

\* What is reported climbs with the rung.
LEMMA PodRanks ==
  ASSUME NEW p \in PodPhases, NEW q \in PodPhases,
         RP!enginePhaseOrdinal(p) >= RP!enginePhaseOrdinal(q)
  PROVE  /\ p = "none" => q = "none"
         /\ RP!enginePhaseOrdinal(Reported(p)) >= RP!enginePhaseOrdinal(Reported(q))
  <1> PICK n0, n1, n2, n3 : /\ n0 = RP!enginePhaseOrdinal("none") /\ n1 = RP!enginePhaseOrdinal("scheduling")
                            /\ n2 = RP!enginePhaseOrdinal("image-pull") /\ n3 = RP!enginePhaseOrdinal("init")
    OBVIOUS
  <1>1. n0 = 0 /\ n1 = 1 /\ n2 = 2 /\ n3 = 3
    BY PodOrdinals
  <1>2. CASE p = "none"
    <2>1. q = "none"
      <3>1. CASE q = "scheduling"
        BY <1>1, <1>2, <3>1
      <3>2. CASE q = "image-pull"
        BY <1>1, <1>2, <3>2
      <3>3. CASE q = "init"
        BY <1>1, <1>2, <3>3
      <3> QED
        BY <3>1, <3>2, <3>3 DEF PodPhases
    <2>2. Reported(p) = "scheduling" /\ Reported(q) = "scheduling"
      BY <1>2, <2>1 DEF Reported
    <2> QED
      BY <1>1, <2>1, <2>2
  <1>3. CASE p # "none" /\ q # "none"
    <2>1. Reported(p) = p /\ Reported(q) = q
      BY <1>3 DEF Reported
    <2> QED
      BY <1>3, <2>1
  <1>4. CASE p # "none" /\ q = "none"
    <2>1. Reported(p) = p /\ Reported(q) = "scheduling"
      BY <1>4 DEF Reported
    <2>2. CASE p = "scheduling"
      BY <1>1, <2>1, <2>2
    <2>3. CASE p = "image-pull"
      BY <1>1, <2>1, <2>3
    <2>4. CASE p = "init"
      BY <1>1, <2>1, <2>4
    <2> QED
      BY <1>4, <2>2, <2>3, <2>4 DEF PodPhases
  <1> QED
    BY <1>2, <1>3, <1>4

\* The ladder only climbs, from one of the phases to another.
LEMMA PodClamps ==
  ASSUME NEW reached \in PodPhases, NEW seen \in PodPhases, NEW p, p = RP!Clamp(RP!Rungs, reached, seen)
  PROVE  p \in PodPhases /\ RP!enginePhaseOrdinal(p) >= RP!enginePhaseOrdinal(reached)
  <1>1. \/ p = seen /\ RP!enginePhaseOrdinal(seen) >= RP!enginePhaseOrdinal(reached)
        \/ p = reached
    BY DEF RP!Clamp, RP!enginePhaseOrdinal
  <1>2. RP!enginePhaseOrdinal(reached) \in Nat
    <2>1. reached = "none" \/ reached = "scheduling" \/ reached = "image-pull" \/ reached = "init"
      BY DEF PodPhases
    <2> QED
      BY <2>1, PodOrdinals
  <1>3. RP!enginePhaseOrdinal(reached) >= RP!enginePhaseOrdinal(reached)
    BY <1>2
  <1> QED
    BY <1>1, <1>3

\* The fields of where a wait stands.
LEMMA PodWaitFields ==
  ASSUME NEW w, NEW k, NEW p, NEW o, w = [known |-> k, phase |-> p, out |-> o]
  PROVE  PodWait(w) /\ w.phase = p
  BY DEF PodWait

\* A tick that is not the last reaches a rung at least as high, whatever the
\* two status reads said.
LEMMA PodTick ==
  ASSUME PodInv, NEW v1, NEW v2, call.at = "wait", NEW pod, NEW healthy, NEW w,
         w = RP!Tick(call.w, RP!Observation(TRUE, RP!probeEnginePhase(pod, call.w.phase, v1, v2), FALSE),
                     healthy, RP!Rungs)
  PROVE  /\ PodWait(w)
         /\ w.out # "ready" => /\ w.phase \in PodPhases
                               /\ RP!enginePhaseOrdinal(w.phase) >= RP!enginePhaseOrdinal(call.w.phase)
  <1>1. PodWait(call.w) /\ call.w.phase \in PodPhases
    BY DEF PodInv, PodShape, PhaseReported, PodPhases
  <1> PICK seen : seen = RP!probeEnginePhase(pod, call.w.phase, v1, v2)
    OBVIOUS
  <1> PICK obs : obs = RP!Observation(TRUE, seen, FALSE)
    OBVIOUS
  <1>2. seen \in PodPhases
    BY <1>1 DEF RP!probeEnginePhase, RP!classifyEnginePhase, PodPhases
  <1>3. ~obs.fatal /\ obs.phase = seen /\ obs.known
    BY DEF RP!Observation
  <1>4. CASE w = [call.w EXCEPT !.out = "ready"]
    BY <1>1, <1>4 DEF PodWait
  <1>5. CASE \E k, o : w = [known |-> k, phase |-> RP!Clamp(RP!Rungs, call.w.phase, seen), out |-> o]
    <2>1. PICK p : p = RP!Clamp(RP!Rungs, call.w.phase, seen)
      OBVIOUS
    <2>2. PICK k, o : w = [known |-> k, phase |-> p, out |-> o]
      BY <1>5, <2>1
    <2>3. PodWait(w) /\ w.phase = p
      BY <2>2, PodWaitFields
    <2>4. p \in PodPhases /\ RP!enginePhaseOrdinal(p) >= RP!enginePhaseOrdinal(call.w.phase)
      BY <1>1, <1>2, <2>1, PodClamps
    <2> QED
      BY <2>3, <2>4
  <1> QED
    BY <1>3, <1>4, <1>5 DEF RP!Tick

\* waitForEngineReady: the deployment's phase follows the wait's.
LEMMA PodWaits ==
  ASSUME PodInv, NEW v1 \in {"ok", "bare", "error"}, NEW v2 \in BOOLEAN, RP!waitForEngineReady(v1, v2)
  PROVE  PodInv' /\ RP!PhaseClimbs
  <1>1. call.at = "wait" /\ account' = account
    BY DEF RP!waitForEngineReady
  <1>2. told.does = "deploy"
    BY <1>1 DEF PodInv, PodShape, PodSteps
  <1>3. /\ PodShape /\ EngineHolds /\ PhaseReported /\ PodTold(told) /\ PodCall(call) /\ PodWait(call.w) /\ PodsFit
        /\ told.state = "CONFIGURING"
    BY <1>1, <1>2, PodDeployCall, PodStill DEF PodsAge, EngineHolds
  <1> PICK pod : pod = account.pods[call.pod]
    OBVIOUS
  <1> PICK u : u = IF pod.gone THEN "error" ELSE v1
    OBVIOUS
  <1> PICK w : w = RP!Tick(call.w, RP!Observation(TRUE, RP!probeEnginePhase(pod, call.w.phase, u, v2), FALSE),
                           pod.serves /\ ~pod.gone, RP!Rungs)
    OBVIOUS
  <1>4. /\ PodWait(w)
        /\ w.out # "ready" => /\ w.phase \in PodPhases
                              /\ RP!enginePhaseOrdinal(w.phase) >= RP!enginePhaseOrdinal(call.w.phase)
    BY <1>1, PodTick, ZenonT(60)
  <1>5. CASE w.out = "ready"
    <2>1. told' = [told EXCEPT !.state = "RUNNING", !.phase = "serving"] /\ call' = RP!NoCall
      BY <1>5 DEF RP!waitForEngineReady
    <2>2. /\ told'.does = told.does /\ told'.shape = told.shape /\ told'.result = told.result
          /\ told'.container = told.container /\ told'.provider = told.provider /\ told'.state = "RUNNING"
          /\ told'.phase = "serving" /\ PodTold(told')
      BY <1>3, <2>1 DEF PodTold
    <2>3. PodCall(call') /\ PodWait(call'.w) /\ call'.w.phase = "none" /\ call'.at = "idle"
      BY <2>1, PodIdle
    <2>4. EngineHolds'
      BY <1>1, <1>2, <1>3, <2>2, <2>3 DEF EngineHolds, RP!destroyedPod
    <2>5. PhaseReported' /\ RP!PhaseClimbs
      BY <2>2, <2>3, SMTT(60) DEF PhaseReported, RP!PhaseClimbs
    <2> QED
      BY <1>2, <1>3, <2>2, <2>3, <2>4, <2>5, PodDeployStep
  <1>6. CASE w.out # "ready"
    <2> PICK ph : ph = IF w.phase = "none" THEN told.phase ELSE w.phase
      OBVIOUS
    <2>1. told' = [told EXCEPT !.phase = ph] /\ call' = [call EXCEPT !.w = w]
      BY <1>6, ZenonT(60) DEF RP!waitForEngineReady
    <2>2. /\ told'.does = told.does /\ told'.shape = told.shape /\ told'.result = told.result
          /\ told'.container = told.container /\ told'.provider = told.provider /\ told'.state = told.state
          /\ told'.phase = ph /\ PodTold(told')
      BY <1>3, <2>1, ZenonT(60) DEF PodTold
    <2>3. PodCall(call') /\ call'.w = w /\ call'.at = "wait"
      BY <1>1, <1>3, <2>1 DEF PodCall
    <2>4. EngineHolds'
      BY <1>1, <1>2, <1>3, <2>2, <2>3 DEF EngineHolds, RP!destroyedPod
    <2>5. told.phase = Reported(call.w.phase)
      BY <1>1, <1>3 DEF PhaseReported, Reported
    <2>6. call.w.phase \in PodPhases
      BY <1>3, SMTT(60) DEF PhaseReported, PodPhases
    <2>7. w.phase \in PodPhases /\ RP!enginePhaseOrdinal(w.phase) >= RP!enginePhaseOrdinal(call.w.phase)
      BY <1>4, <1>6
    <2>8. /\ w.phase = "none" => call.w.phase = "none"
          /\ RP!enginePhaseOrdinal(Reported(w.phase)) >= RP!enginePhaseOrdinal(Reported(call.w.phase))
      BY <2>6, <2>7, PodRanks
    <2>9. ph = Reported(w.phase)
      BY <2>5, <2>8 DEF Reported
    <2>10. PhaseReported'
      BY <2>2, <2>3, <2>7, <2>9, ZenonT(60) DEF PhaseReported, PodPhases, Reported
    <2>11. RP!enginePhaseOrdinal(ph) >= RP!enginePhaseOrdinal(told.phase)
      BY <2>5, <2>8, <2>9, ZenonT(60)
    <2>12. RP!PhaseClimbs
      BY <2>2, <2>11 DEF RP!PhaseClimbs
    <2> QED
      BY <1>2, <1>3, <1>4, <2>2, <2>3, <2>4, <2>10, <2>12, PodDeployStep, ZenonT(60)
  <1> QED
    BY <1>5, <1>6

\* The wait is given up; the pod is left, and named.
LEMMA PodGivesUp ==
  ASSUME PodInv, RP!waitGivenUp
  PROVE  PodInv'
  <1>1. /\ told.does = "deploy" /\ call.at = "wait" /\ account' = account /\ call' = RP!NoCall
        /\ told' = [told EXCEPT !.state = "FAILED"]
    BY DEF RP!waitGivenUp
  <1>2. /\ PodShape /\ EngineHolds /\ PhaseReported /\ PodTold(told) /\ PodsFit
    BY <1>1, PodDeployCall, PodStill DEF PodsAge
  <1>3. /\ told'.does = told.does /\ told'.shape = told.shape /\ told'.result = told.result
        /\ told'.container = told.container /\ told'.provider = told.provider /\ told'.state = "FAILED"
        /\ told'.phase = told.phase /\ PodTold(told')
    BY <1>1, <1>2 DEF PodTold
  <1>4. PodCall(call') /\ PodWait(call'.w) /\ call'.w.phase = "none" /\ call'.at = "idle"
    BY <1>1, PodIdle
  <1>5. EngineHolds'
    BY <1>1, <1>2, <1>3, <1>4 DEF EngineHolds, RP!destroyedPod
  <1>6. PhaseReported'
    BY <1>2, <1>3, <1>4 DEF PhaseReported
  <1> QED
    BY <1>1, <1>2, <1>3, <1>4, <1>5, <1>6, PodDeployStep

\* Destroy: TERMINATED only when the pod it knew of is gone, or there is none.
LEMMA PodDestroys ==
  ASSUME PodInv, NEW ans \in RP!Answers, RP!Destroy(ans)
  PROVE  PodInv'
  <1> PICK i : i = RP!destroyedPod
    OBVIOUS
  <1>1. /\ told.does = "deploy" /\ call.at = "idle" /\ call' = call /\ account' = RP!Removed(i, ans)
    BY DEF RP!Destroy
  <1>2. PICK st \in {"TERMINATED", "TERMINATING", "FAILED"} :
           /\ told' = [told EXCEPT !.state = st]
           /\ st = "TERMINATED" => i = 0 \/ RP!DeleteErr(i, ans) = "ok"
    BY DEF RP!Destroy
  <1>3. /\ PodShape /\ EngineHolds /\ PhaseReported /\ PodTold(told) /\ PodCall(call) /\ PodWait(call.w)
    BY <1>1, PodDeployCall
  <1>4. /\ PodsAge
        /\ RP!DeleteErr(i, ans) = "ok" /\ i \in 1..Len(account.pods) => account'.pods[i].gone
    BY <1>1, PodRemoves
  <1>5. /\ told'.does = told.does /\ told'.shape = told.shape /\ told'.result = told.result
        /\ told'.container = told.container /\ told'.provider = told.provider /\ told'.state = st
        /\ told'.phase = told.phase /\ PodTold(told')
    BY <1>2, <1>3 DEF PodTold
  <1>6. \A k \in 1..Len(account'.pods) : k = i \/ account'.pods[k].gone \/ account'.pods[k].lost
    BY <1>1, <1>3, <1>4 DEF EngineHolds, PodsAge
  <1>7. st = "TERMINATED" => \A k \in 1..Len(account'.pods) : account'.pods[k].gone \/ account'.pods[k].lost
    BY <1>2, <1>4, <1>6 DEF PodsAge
  <1>8. RP!destroyedPod' = i
    BY <1>5 DEF RP!destroyedPod
  <1>9. EngineHolds'
    BY <1>1, <1>2, <1>5, <1>6, <1>7, <1>8 DEF EngineHolds
  <1>10. PhaseReported' /\ PodsFit
    BY <1>1, <1>3, <1>4, <1>5 DEF PhaseReported, PodsAge
  <1> QED
    BY <1>1, <1>3, <1>5, <1>9, <1>10, PodDeployStep

\* A step of a staging.
LEMMA PodStageStep ==
  ASSUME PodInv, PodsFit, told.does = "stage", told'.does = "stage", told'.shape = told.shape,
         told'.phase = told.phase, told'.state = told.state, PodTold(told'), PodCall(call'), PodWait(call'.w),
         call'.w.phase = "none", call'.at \in {"idle", "stage", "cleanup"}, StageHolds',
         \/ told'.result = told.result \/ told'.result \in {"none", "error"}
         \/ told'.result = "staged" /\ account'.staged
  PROVE  PodInv'
  <1>1. PodSteps' /\ EngineHolds' /\ SpawnHolds'
    BY DEF PodInv, PodSteps, EngineHolds, SpawnHolds
  <1>2. PhaseReported'
    BY DEF PodInv, PhaseReported
  <1> QED
    BY <1>1, <1>2, PodStep

\* The states of a staging's call.
LEMMA PodStageCall ==
  ASSUME PodInv, told.does = "stage"
  PROVE  /\ PodShape /\ StageHolds /\ LogsHonest /\ call.w.phase = "none" /\ call.at \in {"idle", "stage", "cleanup"}
         /\ PodTold(told) /\ PodCall(call) /\ PodWait(call.w)
  BY DEF PodInv, PodShape, PodSteps, PhaseReported

\* StageModel: the pod created is in hand.
LEMMA PodStages ==
  ASSUME PodInv, NEW ans \in RP!Answers \cup {"empty"}, RP!StageModel(ans)
  PROVE  PodInv'
  <1> PICK n : n = Len(account.pods) + 1
    OBVIOUS
  <1>1. /\ told.does = "stage" /\ call.at = "idle" /\ account' = RP!Created("stage", ans)
    BY DEF RP!StageModel
  <1>2. PICK res \in {"none", "error"} : told' = [told EXCEPT !.result = res]
    BY DEF RP!StageModel
  <1>3. PICK p : /\ call' = [call EXCEPT !.at = "stage", !.pod = p] \/ (call' = call /\ ans # "ok")
                 /\ ans = "ok" => p = n
    <2>1. CASE ans \in {"ok", "empty"}
      <3>1. call' = [call EXCEPT !.at = "stage", !.pod = IF ans = "ok" THEN n ELSE 0]
        BY <2>1 DEF RP!StageModel
      <3> QED
        BY <3>1, ZenonT(60)
    <2>2. CASE ans \notin {"ok", "empty"}
      BY <2>2, ZenonT(60) DEF RP!StageModel
    <2> QED
      BY <2>1, <2>2, ZenonT(60)
  <1>4. /\ PodShape /\ StageHolds /\ call.w.phase = "none" /\ PodTold(told) /\ PodCall(call) /\ PodWait(call.w)
    BY <1>1, PodStageCall
  <1>5. KindFits("stage")
    BY <1>1 DEF KindFits
  <1>6. /\ PodsFit
        /\ \A k \in 1..Len(account'.pods) :
                \/ k \in 1..Len(account.pods) /\ account'.pods[k] = account.pods[k]
                \/ k = n /\ (ans = "ok" \/ account'.pods[k].lost)
    BY <1>1, <1>5, PodCreates
  <1>7. /\ told'.does = told.does /\ told'.shape = told.shape /\ told'.phase = told.phase
        /\ told'.state = told.state /\ told'.result = res /\ PodTold(told')
    BY <1>2, <1>4 DEF PodTold
  <1>8. /\ PodCall(call') /\ call'.w = call.w /\ call'.at \in {"idle", "stage"}
        /\ ans = "ok" => call'.at = "stage" /\ call'.pod = n
    BY <1>1, <1>3, <1>4 DEF PodCall
  <1>9. \A k \in 1..Len(account.pods) : account.pods[k].gone \/ account.pods[k].lost \/ account.pods[k].slip
    BY <1>1, <1>4 DEF StageHolds
  <1>10. StageHolds'
    BY <1>6, <1>8, <1>9 DEF StageHolds
  <1> QED
    BY <1>1, <1>4, <1>6, <1>7, <1>8, <1>10, PodStageStep

\* waitForStageComplete: staged only if the pod said so.
LEMMA PodStageWaits ==
  ASSUME PodInv, NEW ok \in BOOLEAN, RP!waitForStageComplete(ok)
  PROVE  PodInv'
  <1>1. call.at = "stage" /\ account' = account /\ call' = [call EXCEPT !.at = "cleanup"]
    BY DEF RP!waitForStageComplete
  <1>2. told.does = "stage"
    BY <1>1 DEF PodInv, PodShape, PodSteps
  <1>3. /\ PodShape /\ StageHolds /\ LogsHonest /\ call.w.phase = "none" /\ PodTold(told) /\ PodCall(call)
        /\ PodWait(call.w) /\ PodsFit /\ DOMAIN account.pods = 1..Len(account.pods)
    BY <1>1, <1>2, PodStageCall, PodStill DEF PodsAge, PodShape
  <1>4. PICK res \in {"none", "error", "staged"} :
           /\ told' = [told EXCEPT !.result = res]
           /\ res = "staged" => RP!Alive(call.pod) /\ account.pods[call.pod].log = "done"
    BY DEF RP!waitForStageComplete, RP!stageSignal
  <1>5. res = "staged" => account'.staged
    BY <1>1, <1>3, <1>4 DEF RP!Alive, LogsHonest
  <1>6. /\ told'.does = told.does /\ told'.shape = told.shape /\ told'.phase = told.phase
        /\ told'.state = told.state /\ told'.result = res /\ PodTold(told')
    BY <1>3, <1>4 DEF PodTold
  <1>7. PodCall(call') /\ call'.w = call.w /\ call'.at = "cleanup" /\ call'.pod = call.pod
    BY <1>1, <1>3 DEF PodCall
  <1>8. StageHolds'
    BY <1>1, <1>2, <1>3, <1>7 DEF StageHolds
  <1> QED
    BY <1>2, <1>3, <1>5, <1>6, <1>7, <1>8, PodStageStep

\* The deferred Terminate: the pod is gone, or its termination failed.
LEMMA PodStageEnds ==
  ASSUME PodInv, NEW ans \in RP!Answers, RP!StageEnds(ans)
  PROVE  PodInv'
  <1>1. call.at = "cleanup" /\ call' = RP!NoCall /\ told' = told
    BY DEF RP!StageEnds
  <1>2. told.does = "stage"
    BY <1>1 DEF PodInv, PodShape, PodSteps
  <1>3. /\ PodShape /\ StageHolds /\ LogsHonest /\ PodTold(told) /\ account.pods \in Seq(PodType)
        /\ DOMAIN account.pods = 1..Len(account.pods)
    BY <1>2, PodStageCall DEF PodShape
  <1>4. /\ PodsAge
        /\ call.pod \in 1..Len(account.pods) => account'.pods[call.pod].gone \/ account'.pods[call.pod].slip
    <2>1. CASE RP!Alive(call.pod) /\ ans \notin {"ok", "lost"}
      <3>0. PICK d : d = [account.pods[call.pod] EXCEPT !.slip = TRUE]
        OBVIOUS
      <3>1. account' = [account EXCEPT !.pods[call.pod] = d] /\ call.pod \in 1..Len(account.pods)
        BY <1>3, <2>1, <3>0 DEF RP!StageEnds, RP!Alive
      <3>2. account.pods[call.pod] \in PodType
        BY <1>3, <3>1
      <3>3. d \in PodType /\ d.slip
        BY <3>0, <3>2 DEF PodType
      <3>4. /\ d.lost = account.pods[call.pod].lost /\ d.kind = account.pods[call.pod].kind
            /\ d.gone = account.pods[call.pod].gone /\ d.log = account.pods[call.pod].log
        BY <3>0, <3>2 DEF PodType
      <3>5. /\ account'.pods = [account.pods EXCEPT ![call.pod] = d] /\ account'.vols = account.vols
            /\ account'.keys = account.keys /\ account'.staged = account.staged /\ PodAccount(account')
        BY <1>3, <3>1 DEF PodShape, PodAccount
      <3>6. d.log = "done" => account'.staged
        BY <1>3, <3>1, <3>4, <3>5 DEF LogsHonest
      <3>7. PodsAge /\ account'.pods[call.pod] = d
        BY <3>1, <3>3, <3>4, <3>5, <3>6, PodTouches
      <3> QED
        BY <3>3, <3>7
    <2>2. CASE ~(RP!Alive(call.pod) /\ ans \notin {"ok", "lost"})
      <3>1. account' = RP!Removed(call.pod, ans)
        BY <2>2 DEF RP!StageEnds
      <3>2. CASE RP!Alive(call.pod)
        BY <2>2, <3>1, <3>2, PodRemoves
      <3>3. CASE ~RP!Alive(call.pod)
        <4>1. RP!DeleteErr(call.pod, ans) = "ok"
          BY <3>3 DEF RP!DeleteErr
        <4> QED
          BY <3>1, <4>1, PodRemoves
      <3> QED
        BY <3>2, <3>3
    <2> QED
      BY <2>1, <2>2
  <1>5. PodCall(call') /\ PodWait(call'.w) /\ call'.w.phase = "none" /\ call'.at = "idle"
    BY <1>1, PodIdle
  <1>6. StageHolds'
    BY <1>1, <1>2, <1>3, <1>4, <1>5 DEF StageHolds, PodsAge
  <1>7. PodsFit
    BY <1>4 DEF PodsAge
  <1> QED
    BY <1>1, <1>2, <1>3, <1>5, <1>6, <1>7, PodStageStep

\* A step of the calls on keys and volumes, which have no pods.
LEMMA PodOtherStep ==
  ASSUME PodInv, told.does \in {"key", "volume"}, told'.does = told.does, told'.shape = told.shape,
         told'.phase = told.phase, told'.state = told.state, PodTold(told'), PodCall(call'),
         call'.w = call.w, PodSteps', call'.at # "wait",
         PodAccount(account'), account'.pods = account.pods, account'.staged = account.staged,
         account'.vols \in Seq(VolumeType), told'.result # "staged", BlobKept', VolumesHold'
  PROVE  PodInv'
  <1>1. PodShape /\ PodKinds /\ LogsHonest /\ PhaseReported /\ call.at # "wait"
    BY DEF PodInv, PodSteps
  <1>2. PodShape'
    BY <1>1 DEF PodShape
  <1>3. PodKinds' /\ LogsHonest'
    BY <1>1 DEF PodKinds, KindFits, LogsHonest
  <1>4. SpawnHolds' /\ EngineHolds' /\ StageHolds'
    BY DEF SpawnHolds, EngineHolds, StageHolds
  <1>5. PhaseReported'
    BY <1>1 DEF PhaseReported
  <1> QED
    BY <1>2, <1>3, <1>4, <1>5 DEF PodInv

\* A step of the key calls: the blob read and the blob there is.
KeyCall(at, seen, keys, res) ==
    /\ call' = [call EXCEPT !.at = at, !.seen = seen] /\ account' = [account EXCEPT !.keys = keys]
    /\ told' = [told EXCEPT !.result = res]
    /\ res = "keyed" => (seen \ {"iplane-old"}) \cup {RP!Own} \subseteq keys

\* Our key is said to be there only with every other that was read.
LEMMA PodKeyStep ==
  ASSUME PodInv, told.does = "key", NEW at \in {"idle", "key"}, NEW seen, NEW keys,
         NEW res \in {"error", "keyed", "none"}, KeyCall(at, seen, keys, res)
  PROVE  PodInv'
  <1>1. /\ PodShape /\ PodSteps /\ VolumesHold /\ PodTold(told) /\ PodCall(call) /\ PodAccount(account)
    BY DEF PodInv, PodShape
  <1>2. /\ told'.does = told.does /\ told'.shape = told.shape /\ told'.phase = told.phase
        /\ told'.state = told.state /\ told'.result = res /\ PodTold(told')
    BY <1>1 DEF KeyCall, PodTold
  <1>3. PodCall(call') /\ call'.w = call.w /\ call'.at = at /\ call'.seen = seen
    BY <1>1 DEF KeyCall, PodCall
  <1>4. /\ PodAccount(account') /\ account'.pods = account.pods /\ account'.staged = account.staged
        /\ account'.vols = account.vols /\ account'.keys = keys
    BY <1>1 DEF KeyCall, PodAccount
  <1>5. BlobKept'
    BY <1>2, <1>3, <1>4 DEF BlobKept, KeyCall
  <1>6. VolumesHold'
    BY <1>1, <1>2, <1>4 DEF VolumesHold
  <1>7. PodSteps'
    BY <1>1, <1>2, <1>3 DEF PodSteps
  <1> QED
    BY <1>1, <1>2, <1>3, <1>4, <1>5, <1>6, <1>7, PodOtherStep DEF PodShape

\* The key blob is read; with our key in it and none of the old ones there is
\* nothing to write.
LEMMA PodReadsKeys ==
  ASSUME PodInv, NEW ok \in BOOLEAN, RP!EnsurePublicKey(ok)
  PROVE  PodInv'
  <1>1. /\ told.does = "key" /\ call.at = "idle" /\ account' = account /\ PodAccount(account) /\ PodCall(call)
    BY DEF RP!EnsurePublicKey, PodInv, PodShape
  <1>2. account' = [account EXCEPT !.keys = account.keys]
    BY <1>1 DEF PodAccount
  <1>3. CASE call' = call /\ told' = [told EXCEPT !.result = "error"]
    <2>1. call' = [call EXCEPT !.at = "idle", !.seen = call.seen]
      BY <1>1, <1>3 DEF PodCall
    <2>2. KeyCall("idle", call.seen, account.keys, "error")
      BY <1>2, <1>3, <2>1 DEF KeyCall
    <2> QED
      BY <1>1, <2>2, PodKeyStep
  <1>4. CASE /\ call' = [call EXCEPT !.seen = account.keys] /\ told' = [told EXCEPT !.result = "keyed"]
             /\ RP!Own \in account.keys
    <2>1. call' = [call EXCEPT !.at = "idle", !.seen = account.keys]
      BY <1>1, <1>4 DEF PodCall
    <2>2. (account.keys \ {"iplane-old"}) \cup {RP!Own} \subseteq account.keys
      BY <1>4
    <2>3. KeyCall("idle", account.keys, account.keys, "keyed")
      BY <1>2, <1>4, <2>1, <2>2 DEF KeyCall
    <2> QED
      BY <1>1, <2>3, PodKeyStep
  <1>5. CASE call' = [call EXCEPT !.at = "key", !.seen = account.keys] /\ told' = [told EXCEPT !.result = "none"]
    <2>1. KeyCall("key", account.keys, account.keys, "none")
      BY <1>2, <1>5 DEF KeyCall
    <2> QED
      BY <1>1, <2>1, PodKeyStep
  <1> QED
    BY <1>3, <1>4, <1>5 DEF RP!EnsurePublicKey

\* The blob is written whole, from what was read.
LEMMA PodWritesKeys ==
  ASSUME PodInv, NEW ans \in RP!Answers, RP!updatePubKeyBlob(ans)
  PROVE  PodInv'
  <1>1. PodAccount(account) /\ PodCall(call) /\ told.does = "key"
    BY DEF RP!updatePubKeyBlob, PodInv, PodShape, PodSteps
  <1> PICK keys : keys = IF ans \in {"ok", "lost"} THEN RP!keptKeys(call.seen) \cup {RP!Own} ELSE account.keys
    OBVIOUS
  <1> PICK res \in {"keyed", "error"} : res = IF ans = "ok" THEN "keyed" ELSE "error"
    OBVIOUS
  <1>2. call' = [call EXCEPT !.at = "idle", !.seen = call.seen]
    BY <1>1 DEF RP!updatePubKeyBlob, PodCall
  <1>3. account' = [account EXCEPT !.keys = keys]
    BY <1>1 DEF RP!updatePubKeyBlob, PodAccount
  <1>4. told' = [told EXCEPT !.result = res]
    BY DEF RP!updatePubKeyBlob
  <1>5. res = "keyed" => (call.seen \ {"iplane-old"}) \cup {RP!Own} \subseteq keys
    BY DEF RP!keptKeys
  <1>6. KeyCall("idle", call.seen, keys, res)
    BY <1>2, <1>3, <1>4, <1>5 DEF KeyCall
  <1> QED
    BY <1>1, <1>6, PodKeyStep

\* EnsureVolume: a volume is made only where the region has none.
LEMMA PodEnsuresVolume ==
  ASSUME PodInv, NEW region \in {"east", "west"}, NEW ans \in RP!Answers, RP!EnsureVolume(region, ans)
  PROVE  PodInv'
  <1>1. told.does = "volume" /\ call.at = "idle" /\ call' = call
    BY DEF RP!EnsureVolume
  <1>2. /\ PodShape /\ PodSteps /\ VolumesHold /\ PodTold(told) /\ PodCall(call) /\ PodAccount(account)
        /\ account.vols \in Seq(VolumeType) /\ DOMAIN account.vols = 1..Len(account.vols) /\ Len(account.vols) \in Nat
    BY DEF PodInv, PodShape
  <1> PICK v : v = [name |-> "models", region |-> region]
    OBVIOUS
  <1> PICK found \in BOOLEAN : found <=> \E k \in DOMAIN account.vols : RP!sameVolume(account.vols[k], region)
    OBVIOUS
  <1>3. v \in VolumeType
    BY DEF VolumeType
  <1>4. \A k \in 1..Len(account.vols) : RP!sameVolume(account.vols[k], region) <=> account.vols[k] = v
    <2> SUFFICES ASSUME NEW k \in 1..Len(account.vols)
                 PROVE  RP!sameVolume(account.vols[k], region) <=> account.vols[k] = v
      OBVIOUS
    <2>1. account.vols[k] \in VolumeType
      BY <1>2
    <2> QED
      BY <2>1 DEF RP!sameVolume, VolumeType
  <1>5. PICK res \in {region, "error"} :
           told' = [told EXCEPT !.result = res] /\ (res = region <=> found \/ ans = "ok")
    <2> PICK r : r = IF found \/ ans = "ok" THEN region ELSE "error"
      OBVIOUS
    <2>1. told' = [told EXCEPT !.result = r]
      BY DEF RP!EnsureVolume
    <2> QED
      BY <2>1
  <1>6. /\ told'.does = told.does /\ told'.shape = told.shape /\ told'.phase = told.phase
        /\ told'.state = told.state /\ told'.result = res /\ PodTold(told')
    BY <1>2, <1>5 DEF PodTold
  <1>7. ASSUME PodAccount(account'), account'.pods = account.pods, account'.staged = account.staged,
               account'.vols \in Seq(VolumeType), VolumesHold'
        PROVE  PodInv'
    <2>1. BlobKept'
      BY <1>5, <1>6 DEF BlobKept
    <2>2. PodSteps'
      BY <1>1, <1>2, <1>6 DEF PodSteps
    <2>3. told'.result # "staged"
      BY <1>5, <1>6
    <2> QED
      BY <1>1, <1>2, <1>6, <1>7, <2>1, <2>2, <2>3, PodOtherStep
  <1>8. CASE account' = account /\ (found \/ ans # "ok")
    <2>1. found => \E k \in 1..Len(account.vols) : account.vols[k] = v
      BY <1>2, <1>4
    <2>2. res \in {"east", "west"} => res = region /\ found
      BY <1>5, <1>8
    <2>3. VolumesHold'
      BY <1>2, <1>6, <1>8, <2>1, <2>2 DEF VolumesHold
    <2> QED
      BY <1>2, <1>7, <1>8, <2>3
  <1>9. CASE ~found /\ account' = [account EXCEPT !.vols = Append(account.vols, v)]
    <2>1. /\ account'.vols = Append(account.vols, v) /\ account'.pods = account.pods
          /\ account'.staged = account.staged /\ PodAccount(account')
      BY <1>2, <1>9 DEF PodAccount
    <2>2. /\ account'.vols \in Seq(VolumeType) /\ Len(account'.vols) = Len(account.vols) + 1
          /\ account'.vols[Len(account.vols) + 1] = v
          /\ \A k \in 1..Len(account.vols) : account'.vols[k] = account.vols[k]
      BY <1>2, <1>3, <2>1
    <2>3. \A k \in 1..Len(account.vols) : account.vols[k] # v
      BY <1>2, <1>4, <1>9
    <2>4. \A k \in 1..Len(account'.vols) : k \in 1..Len(account.vols) \/ k = Len(account.vols) + 1
      BY <1>2, <2>2
    <2>5. \A j, k \in 1..Len(account'.vols) : account'.vols[j] = account'.vols[k] => j = k
      BY <1>2, <2>2, <2>3, <2>4 DEF VolumesHold
    <2>6. Len(account.vols) + 1 \in 1..Len(account'.vols)
      BY <1>2, <2>2
    <2>7. res \in {"east", "west"} => res = region
      BY <1>5
    <2>8. VolumesHold'
      BY <1>6, <2>2, <2>5, <2>6, <2>7 DEF VolumesHold
    <2> QED
      BY <1>7, <2>1, <2>2, <2>8
  <1> QED
    BY <1>8, <1>9 DEF RP!EnsureVolume

\* DeleteVolume: the others stay distinct.
LEMMA PodDeletesVolume ==
  ASSUME PodInv, NEW ok \in BOOLEAN, RP!DeleteVolume(ok)
  PROVE  PodInv'
  <1>1. /\ told.does = "volume" /\ call.at = "idle" /\ call' = call /\ account.vols # <<>>
        /\ account' = [account EXCEPT !.vols = Tail(account.vols)] /\ told' = [told EXCEPT !.result = "none"]
    BY DEF RP!DeleteVolume
  <1>2. /\ PodShape /\ PodSteps /\ VolumesHold /\ PodTold(told) /\ PodCall(call) /\ PodAccount(account)
        /\ account.vols \in Seq(VolumeType)
    BY DEF PodInv, PodShape
  <1>3. /\ told'.does = told.does /\ told'.shape = told.shape /\ told'.phase = told.phase
        /\ told'.state = told.state /\ told'.result = "none" /\ PodTold(told')
    BY <1>1, <1>2 DEF PodTold
  <1>4. /\ account'.vols = Tail(account.vols) /\ account'.pods = account.pods
        /\ account'.staged = account.staged /\ PodAccount(account')
    BY <1>1, <1>2 DEF PodAccount
  <1>5. /\ account'.vols \in Seq(VolumeType) /\ Len(account'.vols) = Len(account.vols) - 1
        /\ Len(account.vols) \in Nat
        /\ \A k \in 1..Len(account'.vols) : account'.vols[k] = account.vols[k + 1]
    BY <1>1, <1>2, <1>4
  <1>6. \A j, k \in 1..Len(account'.vols) : account'.vols[j] = account'.vols[k] => j = k
    <2> SUFFICES ASSUME NEW j \in 1..Len(account'.vols), NEW k \in 1..Len(account'.vols),
                        account'.vols[j] = account'.vols[k]
                 PROVE  j = k
      OBVIOUS
    <2>1. /\ j + 1 \in 1..Len(account.vols) /\ k + 1 \in 1..Len(account.vols)
          /\ account.vols[j + 1] = account.vols[k + 1]
      BY <1>5
    <2>2. j + 1 = k + 1
      BY <1>2, <2>1 DEF VolumesHold
    <2> QED
      BY <2>2
  <1>7. VolumesHold' /\ BlobKept'
    BY <1>3, <1>6 DEF VolumesHold, BlobKept
  <1>8. PodSteps'
    BY <1>1, <1>2, <1>3 DEF PodSteps
  <1> QED
    BY <1>1, <1>2, <1>3, <1>4, <1>5, <1>7, <1>8, PodOtherStep

\* Pods get hosts, start, serve, report and vanish; others edit the key blob.
LEMMA PodWorld ==
  ASSUME PodInv,
         \/ RP!keysEdited
         \/ \E i \in 1..MaxPods : RP!podAdvances(i) \/ RP!podVanishes(i)
                                  \/ \E mark \in {"done", "fail"} : RP!stagePodWorks(i, mark)
  PROVE  PodInv'
  <1>1. /\ PodShape /\ PodKinds /\ LogsHonest /\ account.pods \in Seq(PodType) /\ PodAccount(account)
        /\ DOMAIN account.pods = 1..Len(account.pods)
    BY SMTT(60) DEF PodInv, PodShape
  <1>2. call' = call /\ told' = told
    BY ZenonT(60) DEF RP!keysEdited, RP!podAdvances, RP!podVanishes, RP!stagePodWorks
  <1>3. CASE RP!keysEdited
    <2>1. account' = [account EXCEPT !.keys = account.keys \cup {"added"}]
      BY <1>3 DEF RP!keysEdited
    <2>2. /\ account'.pods = account.pods /\ account'.vols = account.vols /\ account'.staged = account.staged
          /\ account'.keys = account.keys \cup {"added"} /\ PodAccount(account')
      BY <1>1, <2>1 DEF PodAccount
    <2>3. PodsAge
      BY <1>1, <2>2 DEF PodsAge, PodsFit, PodKinds, LogsHonest
    <2> QED
      BY <1>2, <2>3, PodMoves
  <1>4. ASSUME NEW i \in 1..MaxPods,
               RP!podAdvances(i) \/ RP!podVanishes(i) \/ \E mark \in {"done", "fail"} : RP!stagePodWorks(i, mark)
        PROVE  PodInv'
    <2> PICK p : p = account.pods[i]
      BY SMTT(60)
    <2>1. i \in 1..Len(account.pods)
      BY <1>1, <1>4, ZenonT(60) DEF RP!podAdvances, RP!podVanishes, RP!stagePodWorks, RP!Alive
    <2>2. p \in PodType /\ (p.log = "done" => account.staged)
      BY <1>1, <2>1 DEF LogsHonest
    <2>3. ASSUME NEW d \in PodType, account' = [account EXCEPT !.pods[i] = d], d.kind = p.kind, d.lost <=> p.lost,
                 p.gone => d.gone, p.slip => d.slip, d.log = p.log
          PROVE  PodInv'
      <3>1. /\ account'.pods = [account.pods EXCEPT ![i] = d] /\ account'.vols = account.vols
            /\ account'.keys = account.keys /\ account'.staged = account.staged /\ PodAccount(account')
        BY <1>1, <2>3 DEF PodAccount
      <3>2. (account.staged => account'.staged) /\ (d.log = "done" => account'.staged)
        BY <2>2, <2>3, <3>1
      <3>3. PodsAge
        BY <2>1, <2>3, <3>1, <3>2, PodTouches, ZenonT(60)
      <3> QED
        BY <1>2, <3>3, PodMoves
    <2>4. CASE RP!podAdvances(i)
      <3>1. PICK d \in {[p EXCEPT !.host = TRUE], [p EXCEPT !.up = TRUE, !.ip = p.kind = "vm"],
                        [p EXCEPT !.serves = p.kind = "engine"]} : account' = [account EXCEPT !.pods[i] = d]
        BY <2>4, ZenonT(60) DEF RP!podAdvances
      <3>2. /\ d \in PodType /\ d.kind = p.kind /\ d.lost = p.lost /\ d.gone = p.gone /\ d.slip = p.slip
            /\ d.log = p.log
        <4>1. CASE d = [p EXCEPT !.host = TRUE]
          BY <2>2, <4>1 DEF PodType
        <4>2. CASE d = [p EXCEPT !.up = TRUE, !.ip = p.kind = "vm"]
          <5> PICK b \in BOOLEAN : b = (p.kind = "vm")
            OBVIOUS
          <5>1. d = [p EXCEPT !.up = TRUE, !.ip = b]
            BY <4>2
          <5> QED
            BY <2>2, <5>1 DEF PodType
        <4>3. CASE d = [p EXCEPT !.serves = p.kind = "engine"]
          <5> PICK b \in BOOLEAN : b = (p.kind = "engine")
            OBVIOUS
          <5>1. d = [p EXCEPT !.serves = b]
            BY <4>3
          <5> QED
            BY <2>2, <5>1 DEF PodType
        <4> QED
          BY <3>1, <4>1, <4>2, <4>3
      <3> QED
        BY <2>3, <3>1, <3>2
    <2>5. CASE RP!podVanishes(i)
      <3> PICK d : d = [p EXCEPT !.gone = TRUE]
        OBVIOUS
      <3>1. account' = [account EXCEPT !.pods[i] = d]
        BY <2>5 DEF RP!podVanishes
      <3>2. /\ d \in PodType /\ d.kind = p.kind /\ d.lost = p.lost /\ d.gone /\ d.slip = p.slip /\ d.log = p.log
        BY <2>2 DEF PodType
      <3> QED
        BY <2>3, <3>1, <3>2
    <2>6. ASSUME NEW mark \in {"done", "fail"}, RP!stagePodWorks(i, mark) PROVE PodInv'
      <3> PICK d : d = [p EXCEPT !.log = mark]
        OBVIOUS
      <3>7. PICK s : s = (account.staged \/ mark = "done")
        OBVIOUS
      <3>1. account' = [account EXCEPT !.pods[i] = d, !.staged = s]
        BY <2>6, <3>7, ZenonT(60) DEF RP!stagePodWorks
      <3>2. /\ d \in PodType /\ d.kind = p.kind /\ d.lost = p.lost /\ d.gone = p.gone /\ d.slip = p.slip
            /\ d.log = mark
        BY <2>2 DEF PodType
      <3>6. (d.lost <=> p.lost) /\ (p.gone => d.gone) /\ (p.slip => d.slip)
        BY <3>2
      <3>3. /\ account'.pods = [account.pods EXCEPT ![i] = d] /\ account'.vols = account.vols
            /\ account'.keys = account.keys /\ account'.staged = s /\ PodAccount(account')
        BY <1>1, <3>1 DEF PodAccount
      <3>4. (account.staged => account'.staged) /\ (d.log = "done" => account'.staged)
        BY <3>2, <3>3, <3>7
      <3>5. PodsAge
        <4>1. /\ d.kind = account.pods[i].kind /\ (d.lost <=> account.pods[i].lost)
              /\ (account.pods[i].gone => d.gone) /\ (account.pods[i].slip => d.slip) /\ d \in PodType
          BY <3>2, <3>6
        <4> QED
          BY <2>1, <3>3, <3>4, <4>1, PodTouches, ZenonT(60)
      <3> QED
        BY <1>2, <3>5, PodMoves
    <2> QED
      BY <1>4, <2>4, <2>5, <2>6
  <1> QED
    BY <1>3, <1>4

\* Every step of the adapter and of its account keeps the invariant.
LEMMA PodNext ==
  ASSUME PodInv, RP!rpNext
  PROVE  PodInv'
  BY PodSpawns, PodDeploys, PodStages, PodTerminates, PodDestroys, PodStageEnds, PodWritesKeys, PodGets, PodReadsKeys,
     PodStageWaits, PodDeletesVolume, PodWaits, PodSsh, PodEnsuresVolume, PodGivesUp, PodAdopts, PodWorld
  DEF RP!rpNext

\* Only a new deploy and its wait change the phase.
LEMMA PodClimbs ==
  ASSUME PodInv, RP!rpNext \/ told' = told
  PROVE  RP!PhaseClimbs
  <1>1. PodTold(told) /\ told.phase \in PodPhases \cup {"serving"} /\ EngineHolds
    BY DEF PodInv, PodShape, PhaseReported, PodPhases
  <1>2. ASSUME told'.phase = told.phase PROVE RP!PhaseClimbs
    <2> SUFFICES ASSUME told.phase # "serving"
                 PROVE  RP!enginePhaseOrdinal(told.phase) >= RP!enginePhaseOrdinal(told.phase)
      BY <1>2 DEF RP!PhaseClimbs
    <2>1. told.phase = "none" \/ told.phase = "scheduling" \/ told.phase = "image-pull" \/ told.phase = "init"
      BY <1>1 DEF PodPhases
    <2>2. RP!enginePhaseOrdinal(told.phase) \in Nat
      BY <2>1, PodOrdinals
    <2> QED
      BY <2>2
  <1>3. ASSUME NEW ans, RP!Deploy(ans) PROVE RP!PhaseClimbs
    <2>1. CASE ans = "ok"
      <3>1. told.phase = "none"
        BY <1>1, <1>3 DEF EngineHolds, RP!Deploy
      <3>2. told'.phase = "scheduling"
        <4> PICK n : n = Len(account.pods) + 1
          OBVIOUS
        <4>1. told' = [RP!Named(n) EXCEPT !.state = "CONFIGURING", !.phase = "scheduling"]
          BY <1>3, <2>1 DEF RP!Deploy
        <4>2. RP!Named(n) = [told EXCEPT !.container = n] \/ RP!Named(n) = [told EXCEPT !.provider = n]
          BY DEF RP!Named
        <4> QED
          BY <1>1, <4>1, <4>2 DEF PodTold
      <3>3. RP!enginePhaseOrdinal("scheduling") >= RP!enginePhaseOrdinal("none")
        BY PodOrdinals
      <3> QED
        BY <3>1, <3>2, <3>3 DEF RP!PhaseClimbs
    <2>2. CASE ans # "ok"
      <3>1. told' = [told EXCEPT !.state = "FAILED"]
        BY <1>3, <2>2 DEF RP!Deploy
      <3>2. told'.phase = told.phase
        BY <1>1, <3>1 DEF PodTold
      <3> QED
        BY <1>2, <3>2
    <2> QED
      BY <2>1, <2>2
  <1>4. CASE \E st, pr, s, res : \/ told' = [told EXCEPT !.state = st] \/ told' = [told EXCEPT !.state = st, !.provider = pr]
                                 \/ told' = [told EXCEPT !.state = st, !.provider = pr, !.ssh = s]
                                 \/ told' = [told EXCEPT !.ssh = s] \/ told' = [told EXCEPT !.result = res]
                                 \/ told' = told
    <2>1. told'.phase = told.phase
      BY <1>1, <1>4 DEF PodTold
    <2> QED
      BY <1>2, <2>1
  <1>5. CASE told' = told
    BY <1>4, <1>5
  <1>6. ASSUME NEW ans, RP!Spawn(ans) \/ RP!Terminate(ans) \/ RP!Destroy(ans) PROVE RP!PhaseClimbs
    BY <1>4, <1>6, ZenonT(60) DEF RP!Spawn, RP!Terminate, RP!Destroy
  <1>7. ASSUME NEW ans, RP!StageModel(ans) \/ RP!StageEnds(ans) \/ RP!updatePubKeyBlob(ans) PROVE RP!PhaseClimbs
    BY <1>4, <1>7, ZenonT(60) DEF RP!StageModel, RP!StageEnds, RP!updatePubKeyBlob
  <1>8. ASSUME NEW ok, RP!SpawnGet(ok) PROVE RP!PhaseClimbs
    <2>1. PICK s : told' = [told EXCEPT !.state = "ACTIVE", !.provider = call.pod, !.ssh = s]
      BY <1>8, ZenonT(60) DEF RP!SpawnGet
    <2> QED
      BY <1>4, <2>1, ZenonT(60)
  <1>13. ASSUME NEW ok, RP!EnsurePublicKey(ok) PROVE RP!PhaseClimbs
    BY <1>4, <1>13, ZenonT(60) DEF RP!EnsurePublicKey
  <1>9. ASSUME NEW ok, RP!waitForStageComplete(ok) \/ RP!DeleteVolume(ok) \/ RP!WaitForSSHReady(ok) PROVE RP!PhaseClimbs
    BY <1>4, <1>9, ZenonT(60) DEF RP!waitForStageComplete, RP!DeleteVolume, RP!WaitForSSHReady
  <1>10. ASSUME NEW region, NEW ans, RP!EnsureVolume(region, ans) PROVE RP!PhaseClimbs
    BY <1>4, <1>10, ZenonT(60) DEF RP!EnsureVolume
  <1>11. CASE RP!waitGivenUp \/ RP!keysEdited
    BY <1>4, <1>11, ZenonT(60) DEF RP!waitGivenUp, RP!keysEdited
  <1>14. CASE RP!Adopt
    <2>1. PICK i : told' = [told EXCEPT !.state = "ACTIVE", !.provider = i]
      BY <1>14, ZenonT(60) DEF RP!Adopt
    <2> QED
      BY <1>4, <2>1, ZenonT(60)
  <1>12. ASSUME NEW i, NEW mark, RP!podAdvances(i) \/ RP!podVanishes(i) \/ RP!stagePodWorks(i, mark) PROVE RP!PhaseClimbs
    BY <1>5, <1>12 DEF RP!podAdvances, RP!podVanishes, RP!stagePodWorks
  <1> QED
    BY <1>3, <1>5, <1>6, <1>7, <1>8, <1>9, <1>10, <1>11, <1>12, <1>13, <1>14,
       PodWaits DEF RP!rpNext

\* What the invariant says of the properties.
LEMMA PodSays ==
  ASSUME PodInv
  PROVE  /\ RP!RentedIsNamed /\ RP!RentedOnce /\ RP!TerminatedIsReleased
         /\ RP!StagingIsHonest /\ RP!KeysKept /\ RP!VolumeWhereAsked
  <1>1. /\ PodShape /\ PodKinds /\ PodSteps /\ SpawnHolds /\ EngineHolds /\ StageHolds
        /\ LogsHonest /\ BlobKept /\ VolumesHold
        /\ DOMAIN account.pods = 1..Len(account.pods) /\ DOMAIN account.vols = 1..Len(account.vols)
    BY DEF PodInv, PodShape
  <1>2. \A i \in 1..Len(account.pods) : account.pods[i].kind \in {"vm", "engine", "stage"}
    <2> SUFFICES ASSUME NEW i \in 1..Len(account.pods) PROVE account.pods[i].kind \in {"vm", "engine", "stage"}
      OBVIOUS
    <2>1. account.pods[i] \in PodType
      BY <1>1 DEF PodShape
    <2> QED
      BY <2>1 DEF PodType
  <1>3. RP!RentedIsNamed
    <2> SUFFICES ASSUME NEW i \in 1..Len(account.pods), ~account.pods[i].gone, account.pods[i].kind # "stage",
                        ~account.pods[i].lost
                 PROVE  i \in {told.container, told.provider, call.pod}
      BY <1>1 DEF RP!RentedIsNamed, RP!Alive
    <2>1. CASE account.pods[i].kind = "vm"
      BY <1>1, <2>1 DEF PodKinds, KindFits, SpawnHolds
    <2>2. CASE account.pods[i].kind = "engine"
      BY <1>1, <2>2 DEF PodKinds, KindFits, EngineHolds, RP!destroyedPod
    <2> QED
      BY <1>2, <2>1, <2>2
  <1>4. RP!RentedOnce
    BY <1>1 DEF RP!RentedOnce, RP!Alive, PodKinds, KindFits, SpawnHolds
  <1>5. RP!TerminatedIsReleased
    BY <1>1 DEF RP!TerminatedIsReleased, RP!Alive, PodSteps, SpawnHolds, EngineHolds
  <1>6. RP!StagingIsHonest
    BY <1>1 DEF RP!StagingIsHonest, RP!Alive, LogsHonest, StageHolds
  <1>7. RP!KeysKept
    BY <1>1 DEF RP!KeysKept, BlobKept
  <1>8. RP!VolumeWhereAsked
    BY <1>1 DEF RP!VolumeWhereAsked, VolumesHold
  <1> QED
    BY <1>3, <1>4, <1>5, <1>6, <1>7, <1>8

\* The invariant of the machine that runs.
PodPart == part = "runpod" => PodInv

\* It holds in every behaviour.
LEMMA PodAlways == MachineSpec => []PodPart
  <1>1. MachineInit => PodPart
    BY PodStart DEF MachineInit, PodPart
  <1>2. PodPart /\ [MachineNext]_vars => PodPart'
    <2> SUFFICES ASSUME PodPart, [MachineNext]_vars, part' = "runpod" PROVE PodInv'
      BY DEF PodPart
    <2>1. CASE UNCHANGED vars
      <3>1. PodInv /\ account' = account /\ call' = call /\ told' = told
        BY <2>1 DEF vars, PodPart
      <3> QED
        BY <3>1, PodStill, PodMoves
    <2>2. CASE MachineNext
      <3>1. PodInv /\ RP!rpNext
        BY <2>2 DEF MachineNext, PodPart
      <3> QED
        BY <3>1, PodNext
    <2> QED
      BY <2>1, <2>2
  <1> QED
    BY <1>1, <1>2, PTL DEF MachineSpec

\* The RunPod adapter (internal/provisioners/runpod), whichever of its requests
\* are refused, retried or lost: a pod is named on a record while it is rented,
\* an instance is rented once, a TERMINATED record has no pod left that it knew
\* of, and staging, the key blob and the volumes are as they are reported.
THEOREM RunPodCorrect == MachineSpec => []RunPodSafe
  <1>1. PodPart => RunPodSafe
    BY PodSays DEF PodPart, RunPodSafe
  <1> QED
    BY <1>1, PodAlways, PTL

\* The phase reported of a RunPod deploy (waitForEngineReady, with its two
\* status reads, either of which may fail) never goes back.
THEOREM RunPodClimbs == MachineSpec => RunPodPhaseClimbs
  <1>1. PodPart /\ [MachineNext]_vars => [part = "runpod" => RP!PhaseClimbs]_vars
    <2> SUFFICES ASSUME PodPart, MachineNext, part = "runpod" PROVE RP!PhaseClimbs
      OBVIOUS
    <2>1. PodInv /\ RP!rpNext
      BY DEF PodPart, MachineNext
    <2> QED
      BY <2>1, PodClimbs
  <1> QED
    BY <1>1, PodAlways, PTL DEF MachineSpec, RunPodPhaseClimbs

-----------------------------------------------------------------------------
(***************************************************************************)
(* The Vast adapter.                                                       *)
(***************************************************************************)

VastContracts ==
    [kind : {"vm", "engine"}, sku : VA!Skus, lost : BOOLEAN, gone : BOOLEAN,
     status : {"created", "loading", "running"}, msg : SUBSET {"transient", "terminal"},
     addr : BOOLEAN, serves : BOOLEAN, dead : BOOLEAN]

\* The fields of the three parts of the state, with the types that matter.
VastAccount(a) == a = [offers |-> a.offers, contracts |-> a.contracts, keys |-> a.keys]

VastCall(c) ==
    c = [at |-> c.at, sku |-> c.sku, empty |-> c.empty, contract |-> c.contract, w |-> c.w,
         keys |-> c.keys, failed |-> c.failed]

VastWait(w) == w = [known |-> w.known, phase |-> w.phase, out |-> w.out]

VastTold(t) ==
    t = [does |-> t.does, shape |-> t.shape, state |-> t.state, phase |-> t.phase, container |-> t.container,
         provider |-> t.provider, ssh |-> t.ssh, logs |-> t.logs, fatal |-> t.fatal, result |-> t.result]

VastShape ==
    /\ VastAccount(account) /\ VastCall(call) /\ VastWait(call.w) /\ VastTold(told)
    /\ account.contracts \in Seq(VastContracts) /\ account.keys \in Seq({"theirs", VA!Own})
    /\ told.does \in {"deploy", "spawn", "key"} /\ told.shape \in {"single", "slot"}

\* Every cheaper SKU than the one at hand was seen without an offer.
SearchedFirst == call.sku \in VA!Skus /\ \A s \in VA!Skus : s < call.sku => s \in call.empty

\* A message that only speaks of failure comes from a host that is dead.
HostsHonest ==
    \A i \in 1..Len(account.contracts) :
        VA!terminalHostFailure(account.contracts[i].msg) => account.contracts[i].dead

\* A call goes through the steps of what it is for, with a contract in hand.
CallInStep ==
    /\ told.does = "deploy" => call.at \in {"idle", "find", "rent", "wait"}
    /\ told.does = "spawn" => call.at \in {"idle", "find", "rent", "get", "ssh"}
    /\ told.does = "key" => call.at \in {"idle", "key"}
    /\ call.at \in {"get", "ssh", "wait"} => call.contract \in 1..Len(account.contracts)
    /\ call.w.out = "wait"

FatalSeen ==
    told.fatal # 0 =>
        /\ told.fatal \in 1..Len(account.contracts)
        /\ account.contracts[told.fatal].dead \/ account.contracts[told.fatal].gone

\* The contract a destroy is about.
Destroyed == IF told.container # 0 THEN told.container ELSE told.provider

\* A deploy knows of every contract but one whose answer was lost: nothing is
\* rented before the request is answered, and the request is made once.
DeployHolds ==
    told.does = "deploy" =>
        /\ call.at \in {"find", "rent"} => told.state = "PENDING"
        /\ call.at = "wait" => told.state = "CONFIGURING"
        /\ told.state = "PENDING" => /\ told.container = 0 /\ told.provider = 0
                                     /\ \A i \in 1..Len(account.contracts) : account.contracts[i].lost
        /\ \A i \in 1..Len(account.contracts) :
               i = Destroyed \/ account.contracts[i].lost \/ account.contracts[i].gone
        /\ told.state = "TERMINATED" =>
               \A i \in 1..Len(account.contracts) : account.contracts[i].lost \/ account.contracts[i].gone

\* Our key is there at most once, and there when it is said to be.
KeysOnce ==
    /\ \A j, k \in 1..Len(account.keys) : account.keys[j] = VA!Own /\ account.keys[k] = VA!Own => j = k
    /\ told.result = "keyed" => \E k \in 1..Len(account.keys) : account.keys[k] = VA!Own
    /\ told.does = "key" /\ told.result = "error" => call.failed

VastInv ==
    /\ VastShape /\ SearchedFirst /\ HostsHonest /\ CallInStep /\ FatalSeen /\ DeployHolds /\ KeysOnce

\* What Vast does with its contracts between two requests: it forgets none,
\* revives none, and says of none that it is dead unless it is.
Ages ==
    /\ account'.contracts \in Seq(VastContracts) /\ Len(account'.contracts) = Len(account.contracts)
    /\ \A i \in 1..Len(account.contracts) :
           /\ account'.contracts[i].lost <=> account.contracts[i].lost
           /\ account.contracts[i].gone => account'.contracts[i].gone
           /\ account.contracts[i].dead => account'.contracts[i].dead
           /\ VA!terminalHostFailure(account'.contracts[i].msg) => account'.contracts[i].dead

\* No call in progress.
LEMMA VastIdle ==
  LET c == VA!NoCall IN
    /\ c.at = "idle" /\ c.sku = 1 /\ c.empty = {} /\ c.w.out = "wait" /\ c.failed = FALSE
    /\ VastCall(c) /\ VastWait(c.w)
  BY DEF VA!NoCall, VA!Waiting, VastCall, VastWait

\* Nothing is asked of Vast before the first call.
LEMMA VastStart == VA!vaInit => VastInv
  <1> SUFFICES ASSUME VA!vaInit PROVE VastInv
    OBVIOUS
  <1>1. /\ account = [offers |-> [s \in VA!Skus |-> TRUE], contracts |-> <<>>, keys |-> <<"theirs">>]
        /\ call = VA!NoCall
    BY DEF VA!vaInit
  <1>2. PICK d \in {"deploy", "spawn", "key"}, sh \in {"single", "slot"} :
           told = [VA!Unrecorded EXCEPT !.does = d, !.shape = sh]
    BY DEF VA!vaInit
  <1>3. told = [does |-> d, shape |-> sh, state |-> "PENDING", phase |-> "none", container |-> 0,
                provider |-> 0, ssh |-> FALSE, logs |-> FALSE, fatal |-> 0, result |-> "none"]
    BY <1>2 DEF VA!Unrecorded
  <1>4. account.contracts = <<>> /\ account.keys = <<"theirs">> /\ <<>> \in Seq(VastContracts)
    BY <1>1
  <1>5. <<"theirs">> \in Seq({"theirs", VA!Own}) /\ Len(<<"theirs">>) = 1 /\ <<"theirs">>[1] = "theirs"
    OBVIOUS
  <1>6. /\ call.at = "idle" /\ call.sku = 1 /\ call.w.out = "wait"
        /\ VastCall(call) /\ VastWait(call.w)
    BY <1>1, VastIdle
  <1>7. VastShape
    BY <1>1, <1>3, <1>4, <1>5, <1>6 DEF VastShape, VastAccount, VastTold
  <1>8. SearchedFirst
    BY <1>6 DEF SearchedFirst, VA!Skus
  <1>9. HostsHonest /\ CallInStep /\ FatalSeen /\ DeployHolds
    BY <1>3, <1>4, <1>6 DEF HostsHonest, CallInStep, FatalSeen, DeployHolds
  <1>10. KeysOnce
    BY <1>3, <1>4, <1>5 DEF KeysOnce, VA!Own
  <1> QED
    BY <1>7, <1>8, <1>9, <1>10 DEF VastInv

\* A step that leaves the keys alone, while the contracts only age, keeps what
\* was seen of them.
LEMMA VastKeeps ==
  ASSUME VastInv, Ages, account'.keys = account.keys, VastShape', SearchedFirst', CallInStep', DeployHolds',
         told'.does = told.does, told'.fatal = told.fatal,
         \/ told'.result = told.result /\ (call'.failed = call.failed \/ told.does # "key")
         \/ told'.result \notin {"keyed", "error"}
  PROVE  VastInv'
  <1>1. HostsHonest'
    BY DEF HostsHonest, Ages
  <1>2. FatalSeen'
    BY DEF VastInv, FatalSeen, Ages
  <1>3. KeysOnce'
    BY DEF VastInv, KeysOnce
  <1> QED
    BY <1>1, <1>2, <1>3 DEF VastInv

\* A call that leaves the account alone lets nothing age.
LEMMA VastStill ==
  ASSUME VastInv, account' = account
  PROVE  Ages /\ account'.keys = account.keys
  BY DEF VastInv, VastShape, HostsHonest, Ages

\* A call that ends: nothing is in hand and the search starts afresh.
LEMMA VastEnds ==
  ASSUME VastInv, call' = VA!NoCall, told'.does = told.does
  PROVE  /\ VastCall(call') /\ VastWait(call'.w) /\ SearchedFirst' /\ CallInStep'
         /\ call'.at = "idle" /\ call'.failed = FALSE
  <1>1. /\ call'.at = "idle" /\ call'.sku = 1 /\ call'.failed = FALSE /\ VastCall(call') /\ VastWait(call'.w)
        /\ call'.w.out = "wait"
    BY VastIdle
  <1>2. SearchedFirst'
    BY <1>1 DEF SearchedFirst, VA!Skus
  <1>3. CallInStep'
    BY <1>1 DEF CallInStep
  <1> QED
    BY <1>1, <1>2, <1>3

\* Begin: an instance without a machine, or a deployment not asked for yet.
LEMMA VastBegins ==
  ASSUME VastInv, VA!Begin
  PROVE  VastInv'
  <1>1. /\ VastShape /\ SearchedFirst /\ CallInStep /\ DeployHolds /\ account' = account /\ Ages
        /\ account'.keys = account.keys
    BY VastStill DEF VastInv, VA!Begin
  <1>2. /\ call.at = "idle" /\ call' = [call EXCEPT !.at = "find"]
        /\ told' = [told EXCEPT !.state = "PENDING", !.result = "none"]
        /\ told.does = "spawn" \/ (told.does = "deploy" /\ told.state = "PENDING")
    BY DEF VA!Begin
  <1>3. call'.at = "find" /\ call'.sku = call.sku /\ call'.empty = call.empty /\ call'.w = call.w /\ VastCall(call')
    BY <1>1, <1>2 DEF VastShape, VastCall
  <1>4. /\ told'.does = told.does /\ told'.shape = told.shape /\ told'.state = "PENDING" /\ told'.result = "none"
        /\ told'.container = told.container /\ told'.provider = told.provider /\ told'.fatal = told.fatal
        /\ VastTold(told')
    BY <1>1, <1>2 DEF VastShape, VastTold
  <1>5. VastShape'
    BY <1>1, <1>3, <1>4 DEF VastShape
  <1>6. SearchedFirst' /\ CallInStep'
    BY <1>1, <1>2, <1>3, <1>4 DEF SearchedFirst, CallInStep
  <1>7. DeployHolds'
    BY <1>1, <1>2, <1>3, <1>4 DEF DeployHolds, Destroyed
  <1> QED
    BY <1>1, <1>4, <1>5, <1>6, <1>7, VastKeeps

\* A search or a request that fails: the deployment fails without a contract.
LEMMA VastFails ==
  ASSUME VastInv, NEW why \in {"search", "no rentable offer", "rent"}, VA!Fails(why), account' = account,
         call.at \in {"find", "rent"}
  PROVE  VastInv'
  <1>1. /\ VastShape /\ CallInStep /\ DeployHolds /\ Ages /\ account'.keys = account.keys
    BY VastStill, ZenonT(60) DEF VastInv
  <1>2. told' = [told EXCEPT !.state = "FAILED", !.result = why] /\ call' = VA!NoCall
    BY ZenonT(60) DEF VA!Fails
  <1>3. /\ told'.does = told.does /\ told'.shape = told.shape /\ told'.state = "FAILED" /\ told'.result = why
        /\ told'.container = told.container /\ told'.provider = told.provider /\ told'.fatal = told.fatal
        /\ VastTold(told')
    BY <1>1, <1>2, ZenonT(60) DEF VastShape, VastTold
  <1>4. VastCall(call') /\ VastWait(call'.w) /\ SearchedFirst' /\ CallInStep' /\ call'.at = "idle"
    BY <1>2, <1>3, VastEnds, ZenonT(60)
  <1>5. VastShape'
    BY <1>1, <1>3, <1>4, ZenonT(60) DEF VastShape
  <1>6. DeployHolds'
    BY <1>1, <1>3, <1>4, ZenonT(60) DEF DeployHolds, Destroyed
  <1> QED
    BY <1>1, <1>3, <1>4, <1>5, <1>6, VastKeeps, ZenonT(60)

\* findAnyOffer over the SKUs.
LEMMA VastSearches ==
  ASSUME VastInv, NEW ok \in BOOLEAN, VA!findAnyOffer(ok)
  PROVE  VastInv'
  <1>1. /\ VastShape /\ SearchedFirst /\ CallInStep /\ DeployHolds /\ account' = account /\ Ages
        /\ account'.keys = account.keys /\ call.at = "find"
    BY VastStill, ZenonT(60) DEF VastInv, VA!findAnyOffer
  <1>2. CASE VA!Fails("search") \/ VA!Fails("no rentable offer")
    BY <1>1, <1>2, VastFails, ZenonT(60)
  <1>3. ASSUME told' = told, call'.at \in {"find", "rent"}, call'.w = call.w, VastCall(call'), SearchedFirst',
               call'.failed = call.failed
        PROVE  VastInv'
    <2>1. VastShape'
      BY <1>1, <1>3 DEF VastShape
    <2>2. CallInStep' /\ DeployHolds'
      BY <1>1, <1>3 DEF CallInStep, DeployHolds, Destroyed
    <2> QED
      BY <1>1, <1>3, <2>1, <2>2, VastKeeps
  <1>4. CASE call' = [call EXCEPT !.at = "rent"] /\ told' = told
    <2>1. call'.at = "rent" /\ call'.w = call.w /\ VastCall(call') /\ call'.sku = call.sku /\ call'.empty = call.empty
          /\ call'.failed = call.failed
      BY <1>1, <1>4 DEF VastShape, VastCall
    <2>2. SearchedFirst'
      BY <1>1, <2>1 DEF SearchedFirst
    <2> QED
      BY <1>3, <1>4, <2>1, <2>2
  <1>5. CASE /\ call.sku + 1 \in VA!Skus
             /\ call' = [call EXCEPT !.sku = call.sku + 1, !.empty = call.empty \cup {call.sku}] /\ told' = told
    <2>1. /\ call'.at = "find" /\ call'.w = call.w /\ VastCall(call') /\ call'.failed = call.failed
          /\ call'.sku = call.sku + 1 /\ call'.empty = call.empty \cup {call.sku}
      BY <1>1, <1>5 DEF VastShape, VastCall
    <2>2. SearchedFirst'
      BY <1>1, <1>5, <2>1 DEF SearchedFirst, VA!Skus
    <2> QED
      BY <1>3, <1>5, <2>1, <2>2
  <1> QED
    BY <1>2, <1>4, <1>5, ZenonT(60) DEF VA!findAnyOffer

\* A new contract, answered or lost.
LEMMA VastNew ==
  ASSUME NEW kind \in {"vm", "engine"}, NEW sku \in VA!Skus, NEW lost \in BOOLEAN
  PROVE  LET c == VA!apiInstance(kind, sku, lost) IN
           c \in VastContracts /\ (c.lost <=> lost) /\ ~VA!terminalHostFailure(c.msg)
  BY DEF VA!apiInstance, VastContracts, VA!terminalHostFailure

\* A contract is added to the ones there are: what was seen of those stands.
LEMMA VastAdds ==
  ASSUME VastInv, NEW c \in VastContracts, ~VA!terminalHostFailure(c.msg),
         account'.contracts = Append(account.contracts, c), account'.keys = account.keys,
         VastShape', SearchedFirst', CallInStep', DeployHolds', told'.does = told.does, told'.fatal = told.fatal,
         told'.result = told.result \/ told'.result \notin {"keyed", "error"}, told.does # "key"
  PROVE  VastInv'
  <1>1. /\ Len(account'.contracts) = Len(account.contracts) + 1 /\ Len(account.contracts) \in Nat
        /\ account'.contracts[Len(account.contracts) + 1] = c
        /\ \A i \in 1..Len(account.contracts) : account'.contracts[i] = account.contracts[i]
    BY DEF VastInv, VastShape
  <1>2. HostsHonest'
    BY <1>1 DEF VastInv, HostsHonest
  <1>3. FatalSeen'
    BY <1>1 DEF VastInv, FatalSeen
  <1>4. KeysOnce'
    BY DEF VastInv, KeysOnce
  <1> QED
    BY <1>2, <1>3, <1>4 DEF VastInv

\* rentOffer and rentEngine: an answered rental is named at once, one whose
\* answer was lost is not.
LEMMA VastRents ==
  ASSUME VastInv, NEW ans \in {"ok", "lost", "refused"}, VA!rent(ans)
  PROVE  VastInv'
  <1> PICK i : i = Len(account.contracts) + 1
    OBVIOUS
  <1> PICK kind \in {"vm", "engine"} : kind = IF told.does = "spawn" THEN "vm" ELSE "engine"
    OBVIOUS
  <1>1. /\ VastShape /\ SearchedFirst /\ CallInStep /\ DeployHolds /\ call.at = "rent" /\ told.does # "key"
    BY DEF VastInv, VA!rent, CallInStep
  <1>2. CASE account' = account
    <2>1. VA!Fails("rent")
      <3>1. ~(account.offers[call.sku] /\ ans = "ok")
        <4> SUFFICES ASSUME account.offers[call.sku], ans = "ok" PROVE FALSE
          OBVIOUS
        <4> PICK c : c = VA!apiInstance(kind, call.sku, ans = "lost")
          OBVIOUS
        <4>1. account' = [account EXCEPT !.offers[call.sku] = FALSE, !.contracts = Append(account.contracts, c)]
          BY DEF VA!rent
        <4>2. account'.contracts = Append(account.contracts, c)
          BY <1>1, <4>1 DEF VastShape, VastAccount
        <4>4. (ans = "lost") \in BOOLEAN
          OBVIOUS
        <4>5. c \in VastContracts
          BY <1>1, <4>4, VastNew DEF SearchedFirst
        <4>3. Len(Append(account.contracts, c)) # Len(account.contracts)
          BY <1>1, <4>5 DEF VastShape
        <4> QED
          BY <1>2, <4>2, <4>3
      <3> QED
        BY <3>1 DEF VA!rent
    <2> QED
      BY <1>1, <1>2, <2>1, VastFails
  <1>3. CASE account' # account
    <2> PICK lost \in BOOLEAN : lost = (ans = "lost")
      OBVIOUS
    <2> PICK c : c = VA!apiInstance(kind, call.sku, lost)
      OBVIOUS
    <2>1. /\ account' = [account EXCEPT !.offers[call.sku] = FALSE, !.contracts = Append(account.contracts, c)]
          /\ ans \in {"ok", "lost"} /\ account.offers[call.sku]
      BY <1>3 DEF VA!rent
    <2>2. c \in VastContracts /\ (c.lost <=> lost) /\ ~VA!terminalHostFailure(c.msg)
      BY <1>1, VastNew DEF SearchedFirst
    <2>3. account'.contracts = Append(account.contracts, c) /\ account'.keys = account.keys /\ VastAccount(account')
      BY <1>1, <2>1 DEF VastShape, VastAccount
    <2>4. /\ Len(account'.contracts) = i /\ i \in Nat /\ i > 0 /\ i \in 1..Len(account'.contracts)
          /\ account'.contracts[i] = c /\ account'.contracts \in Seq(VastContracts)
          /\ \A k \in 1..Len(account.contracts) : account'.contracts[k] = account.contracts[k]
          /\ \A k \in 1..Len(account'.contracts) : k = i \/ k \in 1..Len(account.contracts)
      BY <1>1, <2>2, <2>3 DEF VastShape
    <2>5. CASE ans = "lost"
      <3>1. told' = [told EXCEPT !.state = "FAILED", !.result = "rent"] /\ call' = VA!NoCall
        BY <2>5 DEF VA!rent, VA!Fails
      <3>2. /\ told'.does = told.does /\ told'.shape = told.shape /\ told'.state = "FAILED" /\ told'.result = "rent"
            /\ told'.container = told.container /\ told'.provider = told.provider /\ told'.fatal = told.fatal
            /\ VastTold(told')
        BY <1>1, <3>1 DEF VastShape, VastTold
      <3>3. VastCall(call') /\ VastWait(call'.w) /\ SearchedFirst' /\ CallInStep' /\ call'.at = "idle"
        BY <3>1, <3>2, VastEnds
      <3>4. VastShape'
        BY <1>1, <2>3, <2>4, <3>2, <3>3 DEF VastShape
      <3>5. c.lost
        BY <2>2, <2>5
      <3>6. DeployHolds'
        BY <1>1, <2>4, <3>2, <3>3, <3>5 DEF DeployHolds, Destroyed
      <3> QED
        BY <1>1, <2>2, <2>3, <3>2, <3>3, <3>4, <3>6, VastAdds
    <2>6. CASE ans = "ok"
      <3>1. /\ call' = [call EXCEPT !.contract = i, !.at = IF told.does = "spawn" THEN "get" ELSE "wait"]
            /\ told' = IF told.does = "spawn" THEN told
                       ELSE [VA!Named(i) EXCEPT !.state = "CONFIGURING", !.phase = "scheduling"]
        BY <2>1, <2>6 DEF VA!rent
      <3>2. /\ call'.contract = i /\ call'.at = (IF told.does = "spawn" THEN "get" ELSE "wait") /\ call'.w = call.w
            /\ call'.sku = call.sku /\ call'.empty = call.empty /\ VastCall(call')
        BY <1>1, <3>1 DEF VastShape, VastCall
      <3>3. SearchedFirst'
        BY <1>1, <3>2 DEF SearchedFirst
      <3>4. CASE told.does = "spawn"
        <4>1. told' = told /\ call'.at = "get"
          BY <3>1, <3>2, <3>4
        <4>2. VastShape'
          BY <1>1, <2>3, <2>4, <3>2, <4>1 DEF VastShape
        <4>3. CallInStep' /\ DeployHolds'
          BY <1>1, <2>4, <3>2, <3>4, <4>1 DEF CallInStep, DeployHolds
        <4> QED
          BY <1>1, <2>2, <2>3, <3>3, <4>1, <4>2, <4>3, VastAdds
      <3>5. CASE told.does = "deploy"
        <4>1. /\ told'.does = told.does /\ told'.shape = told.shape /\ told'.state = "CONFIGURING"
              /\ told'.result = told.result /\ told'.fatal = told.fatal /\ VastTold(told')
              /\ told'.container = (IF told.shape = "single" THEN i ELSE told.container)
              /\ told'.provider = (IF told.shape = "single" THEN told.provider ELSE i)
          <5>1. CASE told.shape = "single"
            <6>1. told' = [[told EXCEPT !.container = i] EXCEPT !.state = "CONFIGURING", !.phase = "scheduling"]
              BY <3>1, <3>5, <5>1 DEF VA!Named
            <6> QED
              BY <1>1, <5>1, <6>1 DEF VastShape, VastTold
          <5>2. CASE told.shape # "single"
            <6>1. told' = [[told EXCEPT !.provider = i] EXCEPT !.state = "CONFIGURING", !.phase = "scheduling"]
              BY <3>1, <3>5, <5>2 DEF VA!Named
            <6> QED
              BY <1>1, <5>2, <6>1 DEF VastShape, VastTold
          <5> QED
            BY <5>1, <5>2
        <4>2. VastShape'
          BY <1>1, <2>3, <2>4, <3>2, <4>1 DEF VastShape
        <4>3. CallInStep'
          BY <1>1, <2>4, <3>2, <3>5, <4>1 DEF CallInStep
        <4>4. told.state = "PENDING" /\ told.container = 0 /\ Destroyed' = i
          BY <1>1, <2>4, <3>5, <4>1 DEF DeployHolds, Destroyed
        <4>5. DeployHolds'
          BY <1>1, <2>4, <3>2, <3>5, <4>1, <4>4 DEF DeployHolds
        <4> QED
          BY <1>1, <2>2, <2>3, <3>3, <4>1, <4>2, <4>3, <4>5, VastAdds
      <3> QED
        BY <1>1, <3>4, <3>5 DEF VastShape
    <2> QED
      BY <2>1, <2>5, <2>6
  <1> QED
    BY <1>2, <1>3

\* A contract changes: it may end, die or make progress.
LEMMA VastTouches ==
  ASSUME VastInv, NEW i \in 1..Len(account.contracts), NEW d \in VastContracts,
         account' = [account EXCEPT !.contracts[i] = d],
         d.lost <=> account.contracts[i].lost, account.contracts[i].gone => d.gone,
         account.contracts[i].dead => d.dead, VA!terminalHostFailure(d.msg) => d.dead
  PROVE  /\ Ages /\ account'.keys = account.keys /\ VastAccount(account')
         /\ account'.contracts[i] = d /\ account'.contracts \in Seq(VastContracts)
  <1>1. VastShape /\ HostsHonest
    BY DEF VastInv
  <1>2. /\ account'.contracts = [account.contracts EXCEPT ![i] = d] /\ account'.keys = account.keys
        /\ VastAccount(account')
    BY <1>1 DEF VastShape, VastAccount
  <1>3. account.contracts \in Seq(VastContracts) /\ Len(account.contracts) \in Nat
    BY <1>1 DEF VastShape
  <1>4. account'.contracts \in Seq(VastContracts) /\ Len(account'.contracts) = Len(account.contracts)
    BY <1>2, <1>3
  <1>5. \A k \in 1..Len(account.contracts) : account'.contracts[k] = IF k = i THEN d ELSE account.contracts[k]
    BY <1>2, <1>3
  <1> QED
    BY <1>1, <1>2, <1>4, <1>5 DEF Ages, HostsHonest

\* Removed: the contract is gone if Vast acted.
LEMMA VastRemoves ==
  ASSUME VastInv, NEW i, NEW ans, account' = VA!Removed(i, ans)
  PROVE  /\ Ages /\ account'.keys = account.keys /\ VastAccount(account') /\ account'.contracts \in Seq(VastContracts)
         /\ ~VA!TerminateErr(i, ans) /\ i \in 1..Len(account.contracts) => account'.contracts[i].gone
  <1>1. VastShape /\ account.contracts \in Seq(VastContracts) /\ DOMAIN account.contracts = 1..Len(account.contracts)
        /\ HostsHonest
    BY DEF VastInv, VastShape
  <1>2. CASE VA!Alive(i) /\ ans \in {"ok", "lost"}
    <2> PICK d : d = [account.contracts[i] EXCEPT !.gone = TRUE]
      OBVIOUS
    <2>1. account' = [account EXCEPT !.contracts[i] = d] /\ i \in 1..Len(account.contracts)
      BY <1>1, <1>2 DEF VA!Removed, VA!Alive
    <2>2. account.contracts[i] \in VastContracts
      BY <1>1, <2>1
    <2>3. d \in VastContracts /\ d.gone
      BY <2>2 DEF VastContracts
    <2>4. d.lost = account.contracts[i].lost /\ d.dead = account.contracts[i].dead /\ d.msg = account.contracts[i].msg
      BY <2>2 DEF VastContracts
    <2>5. VA!terminalHostFailure(d.msg) => d.dead
      BY <1>1, <2>1, <2>4 DEF HostsHonest
    <2> QED
      BY <2>1, <2>3, <2>4, <2>5, VastTouches
  <1>3. CASE ~(VA!Alive(i) /\ ans \in {"ok", "lost"})
    <2>1. account' = account
      BY <1>3 DEF VA!Removed
    <2>2. Ages /\ account'.keys = account.keys /\ VastAccount(account') /\ account'.contracts \in Seq(VastContracts)
      BY <1>1, <2>1, VastStill DEF VastShape
    <2>3. ~VA!TerminateErr(i, ans) => ~VA!Alive(i)
      BY <1>3 DEF VA!TerminateErr
    <2> QED
      BY <1>1, <2>1, <2>2, <2>3 DEF VA!Alive
  <1> QED
    BY <1>2, <1>3

\* The steps of a spawn after its rental, and its end.
LEMMA VastSpawns ==
  ASSUME VastInv, told.does = "spawn", Ages, account'.keys = account.keys, VastAccount(account'),
         account'.contracts \in Seq(VastContracts),
         VastCall(call'), VastWait(call'.w), VastTold(told'), SearchedFirst', CallInStep',
         told'.does = told.does, told'.shape = told.shape, told'.fatal = told.fatal, told'.result = told.result
  PROVE  VastInv'
  <1>1. VastShape'
    BY DEF VastInv, VastShape
  <1>2. DeployHolds'
    BY DEF DeployHolds
  <1> QED
    BY <1>1, <1>2, VastKeeps

\* Adopt, describeContract, WaitForSSHReady and Terminate.
LEMMA VastInstance ==
  ASSUME VastInv,
         \/ VA!Adopt
         \/ \E ok \in BOOLEAN : VA!describeContract(ok) \/ VA!WaitForSSHReady(ok)
         \/ \E ans \in {"ok", "lost", "refused"} : VA!Terminate(ans)
  PROVE  VastInv'
  <1>1. VastShape /\ SearchedFirst /\ CallInStep /\ VastAccount(account) /\ account.contracts \in Seq(VastContracts)
    BY SMTT(60) DEF VastInv, VastShape
  <1>2. told.does = "spawn"
    BY <1>1, ZenonT(60) DEF CallInStep, VastShape, VA!Adopt, VA!describeContract, VA!WaitForSSHReady, VA!Terminate
  <1>3. CASE VA!Adopt
    <2>1. PICK i, st : told' = [told EXCEPT !.provider = i, !.state = st]
      BY <1>3, ZenonT(60) DEF VA!Adopt
    <2>2. account' = account /\ call' = call
      BY <1>3, ZenonT(60) DEF VA!Adopt
    <2>3. /\ told'.does = told.does /\ told'.shape = told.shape /\ told'.fatal = told.fatal
          /\ told'.result = told.result /\ VastTold(told')
      BY <1>1, <2>1 DEF VastShape, VastTold
    <2>4. SearchedFirst' /\ CallInStep'
      BY <1>1, <2>2, <2>3 DEF SearchedFirst, CallInStep
    <2> QED
      BY <1>1, <1>2, <2>2, <2>3, <2>4, VastStill, VastSpawns DEF VastShape
  <1>4. ASSUME NEW ok \in BOOLEAN, VA!describeContract(ok) PROVE VastInv'
    <2>1. PICK i, st : told' = [told EXCEPT !.provider = i, !.state = st]
      BY <1>4, ZenonT(60) DEF VA!describeContract
    <2>2. account' = account /\ call' = [call EXCEPT !.at = "ssh"] /\ call.at = "get"
      BY <1>4, ZenonT(60) DEF VA!describeContract
    <2>3. /\ told'.does = told.does /\ told'.shape = told.shape /\ told'.fatal = told.fatal
          /\ told'.result = told.result /\ VastTold(told')
      BY <1>1, <2>1 DEF VastShape, VastTold
    <2>4. /\ call'.at = "ssh" /\ call'.w = call.w /\ call'.sku = call.sku /\ call'.empty = call.empty
          /\ call'.contract = call.contract /\ VastCall(call')
      BY <1>1, <2>2 DEF VastShape, VastCall
    <2>5. SearchedFirst' /\ CallInStep'
      BY <1>1, <1>2, <2>2, <2>3, <2>4 DEF SearchedFirst, CallInStep
    <2> QED
      BY <1>1, <1>2, <2>2, <2>3, <2>4, <2>5, VastStill, VastSpawns DEF VastShape
  <1>5. ASSUME NEW ok \in BOOLEAN, VA!WaitForSSHReady(ok) PROVE VastInv'
    <2>1. account' = account /\ call' = VA!NoCall /\ (told' = told \/ told' = [told EXCEPT !.ssh = TRUE])
      BY <1>5 DEF VA!WaitForSSHReady
    <2>2. /\ told'.does = told.does /\ told'.shape = told.shape /\ told'.fatal = told.fatal
          /\ told'.result = told.result /\ VastTold(told')
      BY <1>1, <2>1 DEF VastShape, VastTold
    <2>3. VastCall(call') /\ VastWait(call'.w) /\ SearchedFirst' /\ CallInStep'
      BY <2>1, <2>2, VastEnds
    <2> QED
      BY <1>1, <1>2, <2>1, <2>2, <2>3, VastStill, VastSpawns
  <1>6. ASSUME NEW ans \in {"ok", "lost", "refused"}, VA!Terminate(ans) PROVE VastInv'
    <2>1. PICK st : told' = [told EXCEPT !.state = st]
      BY <1>6 DEF VA!Terminate
    <2>2. account' = VA!Removed(told.provider, ans) /\ call' = call /\ call.at = "idle"
      BY <1>6 DEF VA!Terminate
    <2>3. /\ told'.does = told.does /\ told'.shape = told.shape /\ told'.fatal = told.fatal
          /\ told'.result = told.result /\ VastTold(told')
      BY <1>1, <2>1 DEF VastShape, VastTold
    <2>4. Ages /\ account'.keys = account.keys /\ VastAccount(account') /\ account'.contracts \in Seq(VastContracts)
      BY <2>2, VastRemoves
    <2>5. SearchedFirst' /\ CallInStep'
      BY <1>1, <2>2, <2>3, SMTT(60) DEF SearchedFirst, CallInStep
    <2> QED
      BY <1>1, <1>2, <2>2, <2>3, <2>4, <2>5, VastSpawns DEF VastShape
  <1> QED
    BY <1>3, <1>4, <1>5, <1>6

\* A tick of the wait says fatal only of a host that is dead.
LEMMA VastTick ==
  ASSUME VastInv, NEW ok \in BOOLEAN, NEW again \in BOOLEAN, call.at = "wait",
         NEW c, c = account.contracts[call.contract],
         NEW w, w = VA!Tick(call.w, VA!observe(c, ok, again), c.serves /\ ~c.gone, VA!Rungs)
  PROVE  VastWait(w) /\ w.out \in {"ready", "fatal", "wait"} /\ (w.out = "fatal" => c.dead)
  <1>1. VastWait(call.w) /\ call.w.out = "wait" /\ call.contract \in 1..Len(account.contracts) /\ HostsHonest
    BY DEF VastInv, VastShape, CallInStep
  <1> PICK obs : obs = VA!observe(c, ok, again)
    OBVIOUS
  <1>2. obs.fatal => c.dead
    <2> SUFFICES ASSUME obs.fatal PROVE c.dead
      OBVIOUS
    <2>1. ok /\ ~c.gone /\ VA!TerminalFailure(c, again)
      BY SMTT(60) DEF VA!observe, VA!Observation
    <2> QED
      BY <1>1, <2>1 DEF VA!TerminalFailure, HostsHonest
  <1>3. CASE w = [call.w EXCEPT !.out = "ready"]
    BY <1>1, <1>3, SMTT(60) DEF VastWait
  <1>4. CASE w = [call.w EXCEPT !.out = "fatal"] /\ obs.fatal
    BY <1>1, <1>2, <1>4, SMTT(60) DEF VastWait
  <1>5. ASSUME NEW k, NEW p, NEW o \in {"ready", "wait"}, w = [known |-> k, phase |-> p, out |-> o]
        PROVE  VastWait(w) /\ w.out \in {"ready", "wait"}
    BY <1>5 DEF VastWait
  <1> QED
    BY <1>3, <1>4, <1>5 DEF VA!Tick

\* waitForEngineReady, and the end of its patience.
LEMMA VastWaits ==
  ASSUME VastInv,
         VA!waitGivenUp \/ \E ok \in BOOLEAN, again \in BOOLEAN : VA!waitForEngineReady(ok, again)
  PROVE  VastInv'
  <1>1. /\ VastShape /\ SearchedFirst /\ CallInStep /\ FatalSeen /\ DeployHolds /\ KeysOnce
        /\ call.at = "wait" /\ account' = account
    BY ZenonT(60) DEF VastInv, VA!waitGivenUp, VA!waitForEngineReady
  <1>2. told.does = "deploy" /\ told.state = "CONFIGURING" /\ call.contract \in 1..Len(account.contracts)
    BY <1>1 DEF CallInStep, DeployHolds, VastShape
  <1>3. ASSUME told'.does = told.does, told'.shape = told.shape, told'.result = told.result,
               told'.container = told.container, told'.provider = told.provider,
               \/ told'.state \in {"RUNNING", "FAILED"} /\ call'.at = "idle"
               \/ told'.state = "CONFIGURING" /\ call'.at = "wait",
               VastTold(told'), VastCall(call'), VastWait(call'.w), SearchedFirst', CallInStep', FatalSeen'
        PROVE  VastInv'
    <2>1. VastShape'
      BY <1>1, <1>3 DEF VastShape
    <2>2. DeployHolds'
      BY <1>1, <1>2, <1>3 DEF DeployHolds, Destroyed
    <2>3. KeysOnce'
      BY <1>1, <1>2, <1>3 DEF KeysOnce
    <2>4. HostsHonest'
      BY <1>1 DEF VastInv, HostsHonest
    <2> QED
      BY <1>3, <2>1, <2>2, <2>3, <2>4 DEF VastInv
  <1>4. CASE VA!waitGivenUp
    <2>1. PICK l : told' = [told EXCEPT !.state = "FAILED", !.logs = l]
      BY <1>4, ZenonT(60) DEF VA!waitGivenUp
    <2>2. /\ told'.does = told.does /\ told'.shape = told.shape /\ told'.result = told.result
          /\ told'.container = told.container /\ told'.provider = told.provider /\ told'.state = "FAILED"
          /\ told'.fatal = told.fatal /\ VastTold(told')
      BY <1>1, <2>1 DEF VastShape, VastTold
    <2>3. VastCall(call') /\ VastWait(call'.w) /\ SearchedFirst' /\ CallInStep' /\ call'.at = "idle"
      BY <1>4, <2>2, VastEnds DEF VA!waitGivenUp
    <2>4. FatalSeen'
      BY <1>1, <2>2, SMTT(60) DEF FatalSeen
    <2> QED
      BY <1>3, <2>2, <2>3, <2>4
  <1>5. ASSUME NEW ok \in BOOLEAN, NEW again \in BOOLEAN, VA!waitForEngineReady(ok, again) PROVE VastInv'
    <2> PICK c : c = account.contracts[call.contract]
      OBVIOUS
    <2> PICK w : w = VA!Tick(call.w, VA!observe(c, ok, again), c.serves /\ ~c.gone, VA!Rungs)
      OBVIOUS
    <2>1. VastWait(w) /\ w.out \in {"ready", "fatal", "wait"} /\ (w.out = "fatal" => c.dead)
      BY <1>1, VastTick
    <2>2. CASE w.out = "ready"
      <3>1. told' = [told EXCEPT !.state = "RUNNING", !.phase = "serving"] /\ call' = VA!NoCall
        BY <1>5, <2>2, ZenonT(60) DEF VA!waitForEngineReady
      <3>2. /\ told'.does = told.does /\ told'.shape = told.shape /\ told'.result = told.result
            /\ told'.container = told.container /\ told'.provider = told.provider /\ told'.state = "RUNNING"
            /\ told'.fatal = told.fatal /\ VastTold(told')
        BY <1>1, <3>1 DEF VastShape, VastTold
      <3>3. VastCall(call') /\ VastWait(call'.w) /\ SearchedFirst' /\ CallInStep' /\ call'.at = "idle"
        BY <3>1, <3>2, VastEnds
      <3>4. FatalSeen'
        BY <1>1, <3>2 DEF FatalSeen
      <3> QED
        BY <1>3, <3>2, <3>3, <3>4, SMTT(60)
    <2>3. CASE w.out = "fatal"
      <3>1. PICK l : told' = [told EXCEPT !.state = "FAILED", !.fatal = call.contract, !.logs = l]
        BY <1>5, <2>3, ZenonT(60) DEF VA!waitForEngineReady
      <3>5. call' = VA!NoCall
        BY <1>5, <2>3, ZenonT(60) DEF VA!waitForEngineReady
      <3>2. /\ told'.does = told.does /\ told'.shape = told.shape /\ told'.result = told.result
            /\ told'.container = told.container /\ told'.provider = told.provider /\ told'.state = "FAILED"
            /\ told'.fatal = call.contract /\ VastTold(told')
        BY <1>1, <3>1 DEF VastShape, VastTold
      <3>3. VastCall(call') /\ VastWait(call'.w) /\ SearchedFirst' /\ CallInStep' /\ call'.at = "idle"
        BY <3>2, <3>5, VastEnds
      <3>4. FatalSeen'
        BY <1>1, <1>2, <2>1, <2>3, <3>2, SMTT(60) DEF FatalSeen
      <3> QED
        BY <1>3, <3>2, <3>3, <3>4, SMTT(60)
    <2>4. CASE w.out = "wait"
      <3>1. told' = [told EXCEPT !.phase = w.phase] /\ call' = [call EXCEPT !.w = w]
        BY <1>5, <2>4, ZenonT(60) DEF VA!waitForEngineReady
      <3>2. /\ told'.does = told.does /\ told'.shape = told.shape /\ told'.result = told.result
            /\ told'.container = told.container /\ told'.provider = told.provider /\ told'.state = told.state
            /\ told'.fatal = told.fatal /\ VastTold(told')
        BY <1>1, <3>1 DEF VastShape, VastTold
      <3>3. /\ call'.w = w /\ call'.at = call.at /\ call'.sku = call.sku /\ call'.empty = call.empty
            /\ call'.contract = call.contract /\ VastCall(call')
        BY <1>1, <3>1 DEF VastShape, VastCall
      <3>4. SearchedFirst' /\ CallInStep' /\ FatalSeen'
        BY <1>1, <1>2, <2>4, <3>2, <3>3 DEF SearchedFirst, CallInStep, FatalSeen
      <3> QED
        BY <1>1, <1>2, <1>3, <2>1, <3>2, <3>3, <3>4, SMTT(60)
    <2> QED
      BY <2>1, <2>2, <2>3, <2>4
  <1> QED
    BY <1>4, <1>5, SMTT(60)

\* Destroy: TERMINATED only when the contract it knew of is gone.
LEMMA VastDestroys ==
  ASSUME VastInv, NEW ans \in {"ok", "lost", "refused"}, VA!Destroy(ans)
  PROVE  VastInv'
  <1> PICK i : i = Destroyed
    OBVIOUS
  <1> PICK st : st = IF VA!TerminateErr(i, ans) THEN "FAILED" ELSE "TERMINATED"
    OBVIOUS
  <1>1. /\ VastShape /\ SearchedFirst /\ CallInStep /\ DeployHolds /\ told.does = "deploy" /\ call.at = "idle"
        /\ call' = call /\ account' = VA!Removed(i, ans) /\ told' = [told EXCEPT !.state = st]
        /\ told.state \in {"RUNNING", "FAILED"}
    BY DEF VastInv, VA!Destroy, Destroyed
  <1>2. /\ Ages /\ account'.keys = account.keys /\ VastAccount(account') /\ account'.contracts \in Seq(VastContracts)
        /\ ~VA!TerminateErr(i, ans) /\ i \in 1..Len(account.contracts) => account'.contracts[i].gone
    BY <1>1, VastRemoves
  <1>3. /\ told'.does = told.does /\ told'.shape = told.shape /\ told'.result = told.result
        /\ told'.container = told.container /\ told'.provider = told.provider /\ told'.state = st
        /\ told'.fatal = told.fatal /\ VastTold(told')
    BY <1>1 DEF VastShape, VastTold
  <1>4. VastShape' /\ SearchedFirst' /\ CallInStep'
    BY <1>1, <1>2, <1>3 DEF VastShape, SearchedFirst, CallInStep, Ages
  <1>5. \A k \in 1..Len(account'.contracts) :
           k = i \/ account'.contracts[k].lost \/ account'.contracts[k].gone
    BY <1>1, <1>2 DEF DeployHolds, Ages
  <1>6. st \in {"FAILED", "TERMINATED"} /\ (st = "TERMINATED" => ~VA!TerminateErr(i, ans))
    OBVIOUS
  <1>7. st = "TERMINATED" => \A k \in 1..Len(account'.contracts) : account'.contracts[k].lost \/ account'.contracts[k].gone
    BY <1>2, <1>5, <1>6 DEF Ages
  <1>8. Destroyed' = i
    BY <1>3 DEF Destroyed
  <1>9. DeployHolds'
    BY <1>1, <1>3, <1>5, <1>6, <1>7, <1>8 DEF DeployHolds
  <1> QED
    BY <1>1, <1>2, <1>3, <1>4, <1>9, VastKeeps

\* Our key among the account's.
Keyed(keys) == \E k \in 1..Len(keys) : keys[k] = VA!Own

\* It is among them if it is at some place.
LEMMA VastKeyed ==
  ASSUME VastInv
  PROVE  (VA!Own \in {account.keys[k] : k \in DOMAIN account.keys}) <=> Keyed(account.keys)
  <1>1. DOMAIN account.keys = 1..Len(account.keys)
    BY DEF VastInv, VastShape
  <1> QED
    BY <1>1 DEF Keyed

\* A key is registered where there is none: it is there once.
LEMMA VastKeyAdded ==
  ASSUME VastInv, ~Keyed(account.keys), account' = [account EXCEPT !.keys = Append(account.keys, VA!Own)]
  PROVE  /\ VastAccount(account') /\ account'.keys \in Seq({"theirs", VA!Own}) /\ Ages
         /\ account'.contracts = account.contracts /\ Keyed(account'.keys)
         /\ \A j, k \in 1..Len(account'.keys) : account'.keys[j] = VA!Own /\ account'.keys[k] = VA!Own => j = k
  <1>1. VastShape /\ HostsHonest
    BY DEF VastInv
  <1>2. /\ account'.keys = Append(account.keys, VA!Own) /\ account'.contracts = account.contracts
        /\ VastAccount(account')
    BY <1>1 DEF VastShape, VastAccount
  <1>3. /\ account'.keys \in Seq({"theirs", VA!Own}) /\ Len(account'.keys) = Len(account.keys) + 1
        /\ Len(account.keys) \in Nat /\ account'.keys[Len(account.keys) + 1] = VA!Own
        /\ \A k \in 1..Len(account.keys) : account'.keys[k] = account.keys[k]
    BY <1>1, <1>2 DEF VastShape
  <1>4. \A k \in 1..Len(account'.keys) : account'.keys[k] = VA!Own => k = Len(account.keys) + 1
    BY <1>3 DEF Keyed
  <1>5. Keyed(account'.keys)
    BY <1>3 DEF Keyed
  <1>6. Ages
    BY <1>1, <1>2 DEF Ages, VastShape, HostsHonest
  <1> QED
    BY <1>2, <1>3, <1>4, <1>5, <1>6

\* What a step of the key calls must keep.
LEMMA VastKeySteps ==
  ASSUME VastInv, told.does = "key", told'.does = "key", told'.shape = told.shape, told'.fatal = told.fatal, VastTold(told'),
         VastCall(call'), VastWait(call'.w), SearchedFirst', CallInStep',
         VastAccount(account'), account'.keys \in Seq({"theirs", VA!Own}), account'.contracts = account.contracts,
         \A j, k \in 1..Len(account'.keys) : account'.keys[j] = VA!Own /\ account'.keys[k] = VA!Own => j = k,
         told'.result = "keyed" => Keyed(account'.keys), told'.result = "error" => call'.failed
  PROVE  VastInv'
  <1>1. VastShape'
    BY DEF VastInv, VastShape
  <1>2. HostsHonest' /\ FatalSeen'
    BY DEF VastInv, HostsHonest, FatalSeen
  <1>3. DeployHolds' /\ KeysOnce'
    BY DEF DeployHolds, KeysOnce, Keyed
  <1> QED
    BY <1>1, <1>2, <1>3 DEF VastInv

\* The account's keys are listed; without ours one is to be registered.
LEMMA VastLists ==
  ASSUME VastInv, NEW ok \in BOOLEAN, VA!listSSHKeys(ok)
  PROVE  VastInv'
  <1>1. /\ VastShape /\ SearchedFirst /\ CallInStep /\ KeysOnce /\ account' = account /\ told.does = "key" /\ call.at = "idle"
    BY DEF VastInv, VA!listSSHKeys
  <1>2. PICK res \in {"error", "keyed", "none"} :
           /\ told' = [told EXCEPT !.result = res]
           /\ res = "error" => call' = [call EXCEPT !.failed = TRUE]
           /\ res = "keyed" => Keyed(account.keys) /\ call' = VA!NoCall
           /\ res = "none" => call' = [VA!NoCall EXCEPT !.at = "key"]
    BY VastKeyed DEF VA!listSSHKeys
  <1>3. /\ told'.does = told.does /\ told'.shape = told.shape /\ told'.fatal = told.fatal /\ told'.result = res
        /\ VastTold(told')
    BY <1>1, <1>2 DEF VastShape, VastTold
  <1>4. /\ VastCall(call') /\ VastWait(call'.w) /\ SearchedFirst' /\ CallInStep' /\ (res = "error" => call'.failed)
    <2>1. CASE res = "error"
      <3>1. /\ call'.at = call.at /\ call'.sku = call.sku /\ call'.empty = call.empty /\ call'.w = call.w
            /\ call'.contract = call.contract /\ call'.failed /\ VastCall(call')
        BY <1>1, <1>2, <2>1 DEF VastShape, VastCall
      <3> QED
        BY <1>1, <1>3, <3>1 DEF VastShape, SearchedFirst, CallInStep
    <2>2. CASE res = "keyed"
      BY <1>2, <1>3, <2>2, VastEnds
    <2>3. CASE res = "none"
      <3>1. call' = [VA!NoCall EXCEPT !.at = "key"]
        BY <1>2, <2>3
      <3>2. /\ call'.at = "key" /\ call'.sku = 1 /\ call'.w = VA!NoCall.w /\ VastCall(call')
        BY <3>1, VastIdle DEF VastCall
      <3> QED
        BY <1>1, <1>3, <2>3, <3>2, VastIdle DEF SearchedFirst, CallInStep, VA!Skus
    <2> QED
      BY <2>1, <2>2, <2>3
  <1>5. /\ VastAccount(account') /\ account'.keys \in Seq({"theirs", VA!Own}) /\ account'.contracts = account.contracts
        /\ \A j, k \in 1..Len(account'.keys) : account'.keys[j] = VA!Own /\ account'.keys[k] = VA!Own => j = k
        /\ told'.result = "keyed" => Keyed(account'.keys)
    BY <1>1, <1>2, <1>3 DEF VastShape, KeysOnce
  <1> QED
    BY <1>1, <1>3, <1>4, <1>5, VastKeySteps

\* Our key is registered, or another daemon registered it first.
LEMMA VastKeys ==
  ASSUME VastInv, VA!otherDaemon \/ \E ans \in {"ok", "lost", "refused"} : VA!EnsurePublicKey(ans)
  PROVE  VastInv'
  <1>1. VastShape /\ SearchedFirst /\ CallInStep /\ KeysOnce /\ told.does = "key" /\ call.at = "key"
    BY DEF VastInv, VastShape, CallInStep, VA!otherDaemon, VA!EnsurePublicKey
  <1>2. \/ account' = account
        \/ ~Keyed(account.keys) /\ account' = [account EXCEPT !.keys = Append(account.keys, VA!Own)]
    BY VastKeyed DEF VA!otherDaemon, VA!EnsurePublicKey
  <1>3. /\ VastAccount(account') /\ account'.keys \in Seq({"theirs", VA!Own}) /\ account'.contracts = account.contracts
        /\ (Keyed(account.keys) => Keyed(account'.keys))
        /\ \A j, k \in 1..Len(account'.keys) : account'.keys[j] = VA!Own /\ account'.keys[k] = VA!Own => j = k
    <2>1. CASE account' = account
      BY <1>1, <2>1 DEF VastShape, KeysOnce
    <2>2. CASE ~Keyed(account.keys) /\ account' = [account EXCEPT !.keys = Append(account.keys, VA!Own)]
      BY <2>2, VastKeyAdded
    <2> QED
      BY <1>2, <2>1, <2>2
  <1>4. CASE VA!otherDaemon
    <2>1. call' = call /\ told' = told
      BY <1>4 DEF VA!otherDaemon
    <2>2. /\ VastCall(call') /\ VastWait(call'.w) /\ SearchedFirst' /\ CallInStep' /\ VastTold(told')
      BY <1>1, <1>3, <2>1 DEF VastShape, SearchedFirst, CallInStep
    <2>3. /\ told'.result = "keyed" => Keyed(account'.keys)
          /\ told'.result = "error" => call'.failed
      BY <1>1, <1>3, <2>1 DEF KeysOnce, Keyed
    <2> QED
      BY <1>1, <1>3, <2>1, <2>2, <2>3, VastKeySteps
  <1>5. ASSUME NEW ans \in {"ok", "lost", "refused"}, VA!EnsurePublicKey(ans) PROVE VastInv'
    <2> PICK failed \in BOOLEAN : failed = (ans # "ok")
      OBVIOUS
    <2>1. call' = [VA!NoCall EXCEPT !.failed = failed]
      BY <1>5 DEF VA!EnsurePublicKey
    <2>2. PICK res \in {"keyed", "error"} : told' = [told EXCEPT !.result = res] /\ (res = "keyed" <=> ans = "ok")
      BY <1>5 DEF VA!EnsurePublicKey, VA!isDuplicateKeyErr
    <2>3. /\ told'.does = told.does /\ told'.shape = told.shape /\ told'.fatal = told.fatal /\ told'.result = res
          /\ VastTold(told')
      BY <1>1, <2>2 DEF VastShape, VastTold
    <2>4. /\ call'.at = "idle" /\ call'.sku = 1 /\ call'.w = VA!NoCall.w /\ call'.failed = failed /\ VastCall(call')
      BY <2>1, VastIdle DEF VastCall
    <2>5. VastWait(call'.w) /\ SearchedFirst' /\ CallInStep'
      BY <1>1, <2>3, <2>4, VastIdle DEF SearchedFirst, CallInStep, VA!Skus
    <2>6. ans = "ok" => Keyed(account'.keys)
      <3> SUFFICES ASSUME ans = "ok", ~Keyed(account.keys) PROVE Keyed(account'.keys)
        BY <1>3
      <3>1. account' = [account EXCEPT !.keys = Append(account.keys, VA!Own)]
        BY <1>5, VastKeyed DEF VA!EnsurePublicKey
      <3> QED
        BY <3>1, VastKeyAdded
    <2>7. /\ told'.result = "keyed" => Keyed(account'.keys)
          /\ told'.result = "error" => call'.failed
      BY <2>2, <2>3, <2>4, <2>6
    <2> QED
      BY <1>1, <1>3, <2>3, <2>4, <2>5, <2>7, VastKeySteps
  <1> QED
    BY <1>4, <1>5

\* Vast's own doing changes its account only.
LEMMA VastMoves ==
  ASSUME VastInv, call' = call, told' = told, Ages, account'.keys = account.keys, VastAccount(account')
  PROVE  VastInv'
  <1>1. /\ VastShape /\ SearchedFirst /\ CallInStep /\ DeployHolds
    BY DEF VastInv
  <1>2. VastShape' /\ SearchedFirst' /\ CallInStep'
    BY <1>1 DEF VastShape, SearchedFirst, CallInStep, Ages
  <1>3. DeployHolds'
    BY <1>1 DEF DeployHolds, Destroyed, Ages
  <1> QED
    BY <1>2, <1>3, VastKeeps

\* Offers come and go, hosts work and die, and contracts end.
LEMMA VastHosts ==
  ASSUME VastInv,
         \/ \E s \in VA!Skus : VA!marketMoves(s)
         \/ \E i \in 1..MaxPods : VA!hostWorks(i) \/ VA!hostDies(i) \/ VA!contractEnds(i)
  PROVE  VastInv'
  <1>1. /\ VastShape /\ HostsHonest /\ account.contracts \in Seq(VastContracts)
        /\ DOMAIN account.contracts = 1..Len(account.contracts)
    BY SMTT(60) DEF VastInv, VastShape
  <1>2. call' = call /\ told' = told
    BY ZenonT(60) DEF VA!marketMoves, VA!hostWorks, VA!hostDies, VA!contractEnds
  <1>3. ASSUME NEW s \in VA!Skus, VA!marketMoves(s) PROVE VastInv'
    <2>1. PICK o : account' = [account EXCEPT !.offers = o]
      BY <1>3 DEF VA!marketMoves
    <2>2. account'.contracts = account.contracts /\ account'.keys = account.keys /\ VastAccount(account')
      BY <1>1, <2>1 DEF VastShape, VastAccount
    <2>3. Ages
      BY <1>1, <2>2 DEF Ages, HostsHonest
    <2> QED
      BY <1>2, <2>2, <2>3, VastMoves
  <1>4. ASSUME NEW i \in 1..MaxPods, VA!hostWorks(i) \/ VA!hostDies(i) \/ VA!contractEnds(i) PROVE VastInv'
    <2> PICK c : c = account.contracts[i]
      BY SMTT(60)
    <2>1. i \in 1..Len(account.contracts)
      BY <1>1, <1>4, ZenonT(60) DEF VA!hostWorks, VA!hostDies, VA!contractEnds, VA!Alive
    <2>2. c \in VastContracts /\ (VA!terminalHostFailure(c.msg) => c.dead)
      BY <1>1, <2>1 DEF HostsHonest
    <2>3. PICK d : /\ account' = [account EXCEPT !.contracts[i] = d]
                   /\ d \in {[c EXCEPT !.status = "loading", !.msg = {"transient"}],
                             [c EXCEPT !.status = "loading", !.msg = {"transient", "terminal"}],
                             [c EXCEPT !.status = "running", !.msg = {}, !.addr = TRUE],
                             [c EXCEPT !.serves = c.kind = "engine"],
                             [c EXCEPT !.dead = TRUE, !.msg = {"terminal"}],
                             [c EXCEPT !.gone = TRUE]}
      <3>1. CASE VA!hostWorks(i)
        BY <3>1, ZenonT(60) DEF VA!hostWorks
      <3>2. CASE VA!hostDies(i)
        <4>1. account' = [account EXCEPT !.contracts[i] = [c EXCEPT !.dead = TRUE, !.msg = {"terminal"}]]
          BY <1>1, <2>1, <2>2, <3>2, ZenonT(60) DEF VA!hostDies, VastShape, VastAccount, VastContracts
        <4> QED
          BY <4>1
      <3>3. CASE VA!contractEnds(i)
        BY <3>3 DEF VA!contractEnds
      <3> QED
        BY <1>4, <3>1, <3>2, <3>3, SMTT(60)
    <2>4. d \in VastContracts
      <3> PICK e \in BOOLEAN : e = (c.kind = "engine")
        OBVIOUS
      <3>1. CASE d = [c EXCEPT !.serves = e]
        BY <2>2, <3>1 DEF VastContracts
      <3>2. CASE d = [c EXCEPT !.dead = TRUE, !.msg = {"terminal"}]
        BY <2>2, <3>2 DEF VastContracts
      <3>3. CASE d = [c EXCEPT !.gone = TRUE]
        BY <2>2, <3>3 DEF VastContracts
      <3>4. CASE d = [c EXCEPT !.status = "running", !.msg = {}, !.addr = TRUE]
        BY <2>2, <3>4 DEF VastContracts
      <3>5. CASE d = [c EXCEPT !.status = "loading", !.msg = {"transient"}]
        BY <2>2, <3>5 DEF VastContracts
      <3>6. CASE d = [c EXCEPT !.status = "loading", !.msg = {"transient", "terminal"}]
        BY <2>2, <3>6 DEF VastContracts
      <3> QED
        BY <2>3, <3>1, <3>2, <3>3, <3>4, <3>5, <3>6
    <2>5. d.lost = c.lost /\ (d.gone = c.gone \/ d.gone) /\ (d.dead = c.dead \/ d.dead)
      BY <2>2, <2>3 DEF VastContracts
    <2>6. VA!terminalHostFailure(d.msg) => d.dead
      <3>1. \/ d.msg = c.msg /\ d.dead = c.dead
            \/ "transient" \in d.msg \/ "terminal" \notin d.msg
            \/ d.dead
        <4>1. CASE d = [c EXCEPT !.status = "loading", !.msg = {"transient"}]
          BY <2>2, <4>1 DEF VastContracts
        <4>2. CASE d = [c EXCEPT !.status = "loading", !.msg = {"transient", "terminal"}]
          BY <2>2, <4>2 DEF VastContracts
        <4>3. CASE d = [c EXCEPT !.status = "running", !.msg = {}, !.addr = TRUE]
          BY <2>2, <4>3 DEF VastContracts
        <4>4. CASE d = [c EXCEPT !.serves = c.kind = "engine"]
          BY <2>2, <4>4 DEF VastContracts
        <4>5. CASE d = [c EXCEPT !.dead = TRUE, !.msg = {"terminal"}]
          BY <2>2, <4>5 DEF VastContracts
        <4>6. CASE d = [c EXCEPT !.gone = TRUE]
          BY <2>2, <4>6 DEF VastContracts
        <4> QED
          BY <2>3, <4>1, <4>2, <4>3, <4>4, <4>5, <4>6
      <3> QED
        BY <2>2, <3>1 DEF VA!terminalHostFailure
    <2>7. Ages /\ account'.keys = account.keys /\ VastAccount(account')
      BY <2>1, <2>3, <2>4, <2>5, <2>6, VastTouches
    <2> QED
      BY <1>2, <2>7, VastMoves
  <1> QED
    BY <1>3, <1>4

\* The Vast adapter (internal/provisioners/vast), whichever of its calls are
\* refused or lost and however its hosts and offers change between them: a
\* dearer SKU is rented only after the cheaper ones were seen without offers, a
\* deploy is hopeless only on a dead host, a TERMINATED one has no contract
\* left that it knew of, and a key registered by two daemons is there once.
THEOREM VastCorrect == MachineSpec => []VastSafe
  <1> DEFINE Inv == part = "vast" => VastInv
  <1>1. MachineInit => Inv
    BY VastStart DEF MachineInit
  <1>2. Inv /\ [MachineNext]_vars => Inv'
    <2> SUFFICES ASSUME Inv, [MachineNext]_vars, part' = "vast" PROVE VastInv'
      OBVIOUS
    <2>1. CASE UNCHANGED vars
      <3>1. VastInv /\ account' = account /\ call' = call /\ told' = told
        BY <2>1 DEF vars
      <3>2. VastAccount(account') /\ Ages /\ account'.keys = account.keys
        BY <3>1, VastStill DEF VastInv, VastShape
      <3> QED
        BY <3>1, <3>2, VastMoves
    <2>2. CASE MachineNext
      <3>1. part = "vast" /\ VastInv /\ VA!vaNext
        BY <2>2 DEF MachineNext
      <3> QED
        BY <3>1, VastBegins, VastSearches, VastRents, VastInstance, VastWaits, VastDestroys, VastLists, VastKeys,
           VastHosts DEF VA!vaNext
    <2> QED
      BY <2>1, <2>2
  <1>3. VastInv => VA!CheapestAvailable /\ VA!FatalOnlyIfDead /\ VA!TerminatedIsReleased /\ VA!KeyRaceIsWon
    <2> SUFFICES ASSUME VastInv
                 PROVE  VA!CheapestAvailable /\ VA!FatalOnlyIfDead /\ VA!TerminatedIsReleased /\ VA!KeyRaceIsWon
      OBVIOUS
    <2>1. /\ DOMAIN account.contracts = 1..Len(account.contracts) /\ DOMAIN account.keys = 1..Len(account.keys)
      BY DEF VastInv, VastShape
    <2>2. VA!CheapestAvailable
      BY DEF VastInv, SearchedFirst, VA!CheapestAvailable
    <2>3. VA!FatalOnlyIfDead
      BY DEF VastInv, FatalSeen, VA!FatalOnlyIfDead
    <2>4. VA!TerminatedIsReleased
      BY <2>1 DEF VastInv, DeployHolds, VA!TerminatedIsReleased, VA!Alive
    <2>5. told.does = "key" /\ told.result = "error" => call.failed
      BY DEF VastInv, KeysOnce
    <2>6. ASSUME told.result = "keyed"
          PROVE  \E k \in DOMAIN account.keys : {j \in DOMAIN account.keys : account.keys[j] = VA!Own} = {k}
      <3>1. PICK k \in 1..Len(account.keys) : account.keys[k] = VA!Own
        BY <2>6 DEF VastInv, KeysOnce
      <3>2. {j \in DOMAIN account.keys : account.keys[j] = VA!Own} = {k}
        BY <2>1, <3>1 DEF VastInv, KeysOnce
      <3> QED
        BY <2>1, <3>2
    <2>7. VA!KeyRaceIsWon
      BY <2>5, <2>6, Zenon DEF VA!KeyRaceIsWon
    <2> QED
      BY <2>2, <2>3, <2>4, <2>7
  <1>4. Inv => VastSafe
    BY <1>3 DEF VastSafe
  <1> QED
    BY <1>1, <1>2, <1>4, PTL DEF MachineSpec

-----------------------------------------------------------------------------
(***************************************************************************)
(* The Lambda Labs adapter.                                                *)
(***************************************************************************)

KeyOwners == {"operator", "laptop", "ci"}

LambdaKeys == [owner : KeyOwners, iplane : BOOLEAN]

LambdaVms ==
    [by : LA!Daemons, key : KeyOwners, named : BOOLEAN, tagged : BOOLEAN,
     status : {"booting", "active", "preempted", "terminated"}]

\* The fields of the parts of the state.
LambdaAccount(a) ==
    a = [keys |-> a.keys, dropped |-> a.dropped, vms |-> a.vms, fs |-> a.fs, does |-> a.does]

LambdaCall(c) == c = [at |-> c.at, key |-> c.key, vm |-> c.vm]

LambdaTold(t) == t = [memo |-> t.memo, vm |-> t.vm, state |-> t.state, result |-> t.result]

LambdaShape ==
    /\ LambdaAccount(account) /\ account.keys \in Seq(LambdaKeys) /\ account.vms \in Seq(LambdaVms)
    /\ account.fs \in [{"east"} -> {"none", "there", "mounted"}]
    /\ call = [d \in LA!Daemons |-> call[d]] /\ \A d \in LA!Daemons : LambdaCall(call[d])
    /\ told = [d \in LA!Daemons |-> told[d]] /\ \A d \in LA!Daemons : LambdaTold(told[d])

\* A key there was, and its owner: there still, unless deleted at the console.
KeyKnown(d) == LA!Stored(d) \/ d \in account.dropped

\* A daemon that launches has registered its key, and launches with it.
LaunchesOwn ==
    \A d \in LA!Daemons :
        /\ call[d].at \in {"pick", "launch"} => KeyKnown(d) /\ told[d].memo = d
        /\ call[d].at = "launch" => call[d].key = d \/ d \in account.dropped

BootedOwn ==
    \A i \in 1..Len(account.vms) :
        account.vms[i].tagged => account.vms[i].key = account.vms[i].by \/ account.vms[i].by \in account.dropped

\* A VM of a daemon that runs and can be found.
LiveVm(v, d) == v.by = d /\ v.status \in {"booting", "active"} /\ (v.tagged \/ v.named)

\* A daemon has at most one, and none while it is about to launch.
OneLive ==
    \A d \in LA!Daemons :
        /\ \A i, j \in 1..Len(account.vms) : LiveVm(account.vms[i], d) /\ LiveVm(account.vms[j], d) => i = j
        /\ call[d].at \in {"ensure", "add", "pick", "launch"} =>
               \A i \in 1..Len(account.vms) : ~LiveVm(account.vms[i], d)

SaysDeleted == \A d \in LA!Daemons : told[d].result = "deleted" => account.fs["east"] = "none"

LambdaInv == LambdaShape /\ LaunchesOwn /\ BootedOwn /\ OneLive /\ SaysDeleted

\* What a step leaves of the account, as far as the calls need it: no key goes
\* unnoticed, no VM comes to life, and the filesystems are left alone.
LambdaQuiet ==
    /\ LambdaAccount(account') /\ account'.keys \in Seq(LambdaKeys) /\ account'.vms \in Seq(LambdaVms)
    /\ account'.fs = account.fs
    /\ \A e \in LA!Daemons : KeyKnown(e) => KeyKnown(e)'
    /\ account.dropped \subseteq account'.dropped
    /\ BootedOwn'
    /\ \A e \in LA!Daemons, i \in 1..Len(account'.vms) :
           LiveVm(account'.vms[i], e) => i \in 1..Len(account.vms) /\ LiveVm(account.vms[i], e)

\* A step of one daemon's call.
LEMMA LambdaStep ==
  ASSUME LambdaInv, LambdaQuiet, NEW d \in LA!Daemons, NEW c, NEW t,
         call' = [call EXCEPT ![d] = c], told' = [told EXCEPT ![d] = t], LambdaCall(c), LambdaTold(t),
         t.result = told[d].result \/ t.result # "deleted",
         c.at \in {"pick", "launch"} => KeyKnown(d)' /\ t.memo = d,
         c.at = "launch" => c.key = d \/ d \in account'.dropped,
         c.at \in {"ensure", "add", "pick", "launch"} => \A i \in 1..Len(account.vms) : ~LiveVm(account.vms[i], d)
  PROVE  LambdaInv'
  <1>1. LambdaShape /\ LaunchesOwn /\ OneLive /\ SaysDeleted
    BY DEF LambdaInv
  <1>2. /\ call' = [e \in LA!Daemons |-> IF e = d THEN c ELSE call[e]]
        /\ told' = [e \in LA!Daemons |-> IF e = d THEN t ELSE told[e]]
    BY <1>1 DEF LambdaShape
  <1>3. \A e \in LA!Daemons : /\ call'[e] = IF e = d THEN c ELSE call[e]
                              /\ told'[e] = IF e = d THEN t ELSE told[e]
    BY <1>2
  <1>4. LambdaShape'
    <2>1. call' = [e \in LA!Daemons |-> call'[e]] /\ told' = [e \in LA!Daemons |-> told'[e]]
      BY <1>2
    <2>2. \A e \in LA!Daemons : LambdaCall(call'[e]) /\ LambdaTold(told'[e])
      BY <1>1, <1>3 DEF LambdaShape
    <2> QED
      BY <1>1, <2>1, <2>2 DEF LambdaShape, LambdaQuiet
  <1>5. LaunchesOwn'
    <2> SUFFICES ASSUME NEW e \in LA!Daemons
                 PROVE  /\ call'[e].at \in {"pick", "launch"} => KeyKnown(e)' /\ told'[e].memo = e
                        /\ call'[e].at = "launch" => call'[e].key = e \/ e \in account'.dropped
      BY DEF LaunchesOwn
    <2>1. CASE e = d
      BY <1>3, <2>1
    <2>2. CASE e # d
      BY <1>1, <1>3, <2>2 DEF LaunchesOwn, LambdaQuiet
    <2> QED
      BY <2>1, <2>2
  <1>6. OneLive'
    <2> SUFFICES ASSUME NEW e \in LA!Daemons
                 PROVE  /\ \A i, j \in 1..Len(account'.vms) :
                               LiveVm(account'.vms[i], e) /\ LiveVm(account'.vms[j], e) => i = j
                        /\ call'[e].at \in {"ensure", "add", "pick", "launch"} =>
                               \A i \in 1..Len(account'.vms) : ~LiveVm(account'.vms[i], e)
      BY DEF OneLive, LiveVm
    <2>1. CASE e = d
      BY <1>1, <1>3, <2>1 DEF OneLive, LambdaQuiet
    <2>2. CASE e # d
      BY <1>1, <1>3, <2>2 DEF OneLive, LambdaQuiet
    <2> QED
      BY <2>1, <2>2
  <1>7. SaysDeleted'
    BY <1>1, <1>3 DEF SaysDeleted, LambdaQuiet
  <1> QED
    BY <1>4, <1>5, <1>6, <1>7 DEF LambdaInv, LambdaQuiet

\* Lambda's own doing, and the operator's, change the account only.
LEMMA LambdaMoves ==
  ASSUME LambdaInv, LambdaQuiet, call' = call, told' = told
  PROVE  LambdaInv'
  <1>1. LambdaShape /\ LaunchesOwn /\ OneLive /\ SaysDeleted
    BY DEF LambdaInv
  <1>2. LambdaShape'
    BY <1>1 DEF LambdaShape, LambdaQuiet
  <1>3. LaunchesOwn'
    BY <1>1 DEF LaunchesOwn, LambdaQuiet
  <1>4. OneLive'
    <2> SUFFICES ASSUME NEW e \in LA!Daemons
                 PROVE  /\ \A i, j \in 1..Len(account'.vms) :
                               LiveVm(account'.vms[i], e) /\ LiveVm(account'.vms[j], e) => i = j
                        /\ call'[e].at \in {"ensure", "add", "pick", "launch"} =>
                               \A i \in 1..Len(account'.vms) : ~LiveVm(account'.vms[i], e)
      BY DEF OneLive, LiveVm
    <2> QED
      BY <1>1 DEF OneLive, LambdaQuiet
  <1>5. SaysDeleted'
    BY <1>1 DEF SaysDeleted, LambdaQuiet
  <1> QED
    BY <1>2, <1>3, <1>4, <1>5 DEF LambdaInv, LambdaQuiet

\* A call that leaves the account alone.
LEMMA LambdaStill ==
  ASSUME LambdaInv, account' = account
  PROVE  LambdaQuiet
  <1>1. LambdaShape /\ BootedOwn
    BY DEF LambdaInv
  <1>2. BootedOwn'
    BY <1>1 DEF BootedOwn
  <1>3. \A e \in LA!Daemons : KeyKnown(e) => KeyKnown(e)'
    BY DEF KeyKnown, LA!Stored
  <1> QED
    BY <1>1, <1>2, <1>3 DEF LambdaQuiet, LambdaShape

\* A VM changes: it boots, ends or is renamed.
LEMMA LambdaTouches ==
  ASSUME LambdaInv, NEW i \in 1..Len(account.vms), NEW v \in LambdaVms, account' = [account EXCEPT !.vms[i] = v],
         v.by = account.vms[i].by, v.key = account.vms[i].key, v.tagged <=> account.vms[i].tagged,
         \A e \in LA!Daemons : LiveVm(v, e) => LiveVm(account.vms[i], e)
  PROVE  LambdaQuiet
  <1>1. LambdaShape /\ BootedOwn /\ account.vms \in Seq(LambdaVms) /\ Len(account.vms) \in Nat
    BY DEF LambdaInv, LambdaShape
  <1>2. /\ account'.vms = [account.vms EXCEPT ![i] = v] /\ account'.keys = account.keys
        /\ account'.dropped = account.dropped /\ account'.fs = account.fs /\ LambdaAccount(account')
    BY <1>1 DEF LambdaShape, LambdaAccount
  <1>3. account'.vms \in Seq(LambdaVms) /\ Len(account'.vms) = Len(account.vms)
    BY <1>1, <1>2
  <1>4. \A k \in 1..Len(account.vms) : account'.vms[k] = IF k = i THEN v ELSE account.vms[k]
    BY <1>1, <1>2
  <1>5. BootedOwn'
    BY <1>1, <1>2, <1>3, <1>4 DEF BootedOwn
  <1>6. \A e \in LA!Daemons : KeyKnown(e) => KeyKnown(e)'
    BY <1>2 DEF KeyKnown, LA!Stored
  <1>7. \A e \in LA!Daemons, k \in 1..Len(account'.vms) :
           LiveVm(account'.vms[k], e) => k \in 1..Len(account.vms) /\ LiveVm(account.vms[k], e)
    BY <1>3, <1>4
  <1> QED
    BY <1>1, <1>2, <1>3, <1>5, <1>6, <1>7 DEF LambdaQuiet, LambdaShape

\* The VMs that List finds active are the live ones.
LEMMA LambdaListed ==
  ASSUME LambdaInv, NEW d \in LA!Daemons, LA!Listed(d) = {}
  PROVE  \A i \in 1..Len(account.vms) : ~LiveVm(account.vms[i], d)
  <1>1. DOMAIN account.vms = 1..Len(account.vms)
    BY DEF LambdaInv, LambdaShape
  <1> QED
    BY <1>1 DEF LA!Listed, LA!List, LA!isActiveProviderState, LiveVm

\* No call in progress.
LEMMA LambdaIdle == LambdaCall(LA!NoCall) /\ LA!NoCall.at = "idle"
  BY DEF LambdaCall, LA!NoCall

\* Two daemons, one account with the operator's key.
LEMMA LambdaStart == LA!laInit => LambdaInv
  <1> SUFFICES ASSUME LA!laInit PROVE LambdaInv
    OBVIOUS
  <1> PICK k : k = [owner |-> "operator", iplane |-> FALSE]
    OBVIOUS
  <1>0. PICK old : old = [LA!apiInstance("ci", "operator") EXCEPT !.tagged = FALSE]
    OBVIOUS
  <1>1. PICK vms \in {<<>>, <<old>>}, w \in {"rent", "fs"} :
           account = [keys |-> <<k>>, dropped |-> {}, vms |-> vms, fs |-> [r \in {"east"} |-> "none"], does |-> w]
    BY <1>0 DEF LA!laInit
  <1>2. k \in LambdaKeys
    BY DEF LambdaKeys, KeyOwners
  <1>3. old = [by |-> "ci", key |-> "operator", named |-> TRUE, tagged |-> FALSE, status |-> "booting"]
    BY <1>0 DEF LA!apiInstance
  <1>4. old \in LambdaVms /\ ~old.tagged
    BY <1>3 DEF LambdaVms, LA!Daemons, KeyOwners
  <1>5. /\ account.keys = <<k>> /\ account.vms = vms /\ account.fs = [r \in {"east"} |-> "none"]
        /\ LambdaAccount(account)
    BY <1>1 DEF LambdaAccount
  <1>6. /\ vms \in Seq(LambdaVms) /\ Len(vms) \in 0..1 /\ \A i \in 1..Len(vms) : i = 1 /\ vms[i] = old
    <2>1. CASE vms = <<>>
      BY <2>1
    <2>2. CASE vms = <<old>>
      <3>1. <<old>> \in Seq(LambdaVms) /\ Len(<<old>>) = 1 /\ <<old>>[1] = old
        BY <1>4
      <3> QED
        BY <2>2, <3>1
    <2> QED
      BY <2>1, <2>2
  <1>7. <<k>> \in Seq(LambdaKeys)
    BY <1>2
  <1>8. /\ call = [d \in LA!Daemons |-> LA!NoCall]
        /\ told = [d \in LA!Daemons |-> [memo |-> "none", vm |-> 0, state |-> "PENDING", result |-> "none"]]
    BY DEF LA!laInit
  <1>9. \A d \in LA!Daemons : /\ call[d].at = "idle" /\ LambdaCall(call[d])
                              /\ told[d].result = "none" /\ LambdaTold(told[d])
    BY <1>8, LambdaIdle DEF LambdaTold
  <1>10. call = [d \in LA!Daemons |-> call[d]] /\ told = [d \in LA!Daemons |-> told[d]]
    BY <1>8
  <1>11. account.fs \in [{"east"} -> {"none", "there", "mounted"}] /\ account.fs["east"] = "none"
    BY <1>5
  <1>12. LambdaShape
    BY <1>5, <1>6, <1>7, <1>9, <1>10, <1>11 DEF LambdaShape
  <1>13. LaunchesOwn /\ SaysDeleted
    BY <1>9, <1>11 DEF LaunchesOwn, SaysDeleted
  <1>14. BootedOwn
    BY <1>4, <1>5, <1>6 DEF BootedOwn
  <1>15. OneLive
    BY <1>5, <1>6, <1>9 DEF OneLive
  <1> QED
    BY <1>12, <1>13, <1>14, <1>15 DEF LambdaInv

\* Adopt and Create: a daemon looks before it registers and launches.
LEMMA LambdaBegins ==
  ASSUME LambdaInv, NEW d \in LA!Daemons, LA!Adopt(d) \/ LA!Create(d)
  PROVE  LambdaInv'
  <1>1. account' = account /\ LambdaQuiet /\ call[d].at = "idle" /\ LambdaCall(call[d]) /\ LambdaTold(told[d])
        /\ LambdaShape
    BY LambdaStill, ZenonT(60) DEF LA!Adopt, LA!Create, LambdaInv, LambdaShape
  <1>2. CASE LA!Adopt(d)
    <2>1. PICK i, st : told' = [told EXCEPT ![d].vm = i, ![d].state = st]
      BY <1>2 DEF LA!Adopt
    <2> PICK c, t : c = call[d] /\ t = [told[d] EXCEPT !.vm = i, !.state = st]
      OBVIOUS
    <2>2. call' = [call EXCEPT ![d] = c] /\ told' = [told EXCEPT ![d] = t]
      BY <1>1, <1>2, <2>1, ZenonT(60) DEF LA!Adopt, LambdaShape
    <2>3. LambdaCall(c) /\ c.at = "idle" /\ LambdaTold(t) /\ t.result = told[d].result
      BY <1>1 DEF LambdaTold
    <2> QED
      BY <1>1, <2>2, <2>3, LambdaStep
  <1>3. CASE LA!Create(d)
    <2> PICK c, t : c = [call[d] EXCEPT !.at = "ensure"] /\ t = told[d]
      OBVIOUS
    <2>1. call' = [call EXCEPT ![d] = c] /\ told' = [told EXCEPT ![d] = t]
      BY <1>1, <1>3 DEF LA!Create, LambdaShape
    <2>2. LambdaCall(c) /\ c.at = "ensure" /\ LambdaTold(t) /\ t.result = told[d].result
      BY <1>1 DEF LambdaCall
    <2>3. \A i \in 1..Len(account.vms) : ~LiveVm(account.vms[i], d)
      BY <1>3, LambdaListed DEF LA!Create
    <2> QED
      BY <1>1, <2>1, <2>2, <2>3, LambdaStep
  <1> QED
    BY <1>2, <1>3

\* A call that ends where it stands.
LEMMA LambdaEnds ==
  ASSUME LambdaInv, LambdaQuiet, NEW d \in LA!Daemons, call' = [call EXCEPT ![d] = LA!NoCall], told' = told
  PROVE  LambdaInv'
  <1> PICK c, t : c = LA!NoCall /\ t = told[d]
    OBVIOUS
  <1>1. LambdaCall(c) /\ c.at = "idle" /\ LambdaTold(t)
    BY LambdaIdle DEF LambdaInv, LambdaShape
  <1>2. call' = [call EXCEPT ![d] = c] /\ told' = [told EXCEPT ![d] = t]
    BY DEF LambdaInv, LambdaShape
  <1> QED
    BY <1>1, <1>2, LambdaStep

\* The key is looked for among those stored.
LEMMA LambdaLists ==
  ASSUME LambdaInv, NEW d \in LA!Daemons, NEW ok \in BOOLEAN, LA!listSSHKeys(d, ok)
  PROVE  LambdaInv'
  <1>1. /\ account' = account /\ LambdaQuiet /\ call[d].at = "ensure" /\ LambdaCall(call[d]) /\ LambdaTold(told[d])
        /\ LambdaShape /\ \A i \in 1..Len(account.vms) : ~LiveVm(account.vms[i], d)
    BY LambdaStill DEF LA!listSSHKeys, LambdaInv, LambdaShape, OneLive
  <1>2. CASE call' = [call EXCEPT ![d] = LA!NoCall] /\ told' = told
    BY <1>1, <1>2, LambdaEnds
  <1>3. CASE LA!Stored(d) /\ told' = [told EXCEPT ![d].memo = d] /\ call' = [call EXCEPT ![d].at = "pick"]
    <2> PICK c, t : c = [call[d] EXCEPT !.at = "pick"] /\ t = [told[d] EXCEPT !.memo = d]
      OBVIOUS
    <2>1. call' = [call EXCEPT ![d] = c] /\ told' = [told EXCEPT ![d] = t]
      BY <1>3
    <2>2. LambdaCall(c) /\ c.at = "pick" /\ LambdaTold(t) /\ t.result = told[d].result /\ t.memo = d
      BY <1>1 DEF LambdaCall, LambdaTold
    <2>3. KeyKnown(d)'
      BY <1>1, <1>3 DEF KeyKnown, LambdaQuiet
    <2> QED
      BY <1>1, <2>1, <2>2, <2>3, LambdaStep
  <1>4. CASE call' = [call EXCEPT ![d].at = "add"] /\ told' = told
    <2> PICK c, t : c = [call[d] EXCEPT !.at = "add"] /\ t = told[d]
      OBVIOUS
    <2>1. call' = [call EXCEPT ![d] = c] /\ told' = [told EXCEPT ![d] = t]
      BY <1>1, <1>4 DEF LambdaShape
    <2>2. LambdaCall(c) /\ c.at = "add" /\ LambdaTold(t) /\ t.result = told[d].result
      BY <1>1 DEF LambdaCall
    <2> QED
      BY <1>1, <2>1, <2>2, LambdaStep
  <1> QED
    BY <1>2, <1>3, <1>4 DEF LA!listSSHKeys

\* A key is added to those there are.
LEMMA LambdaAddsKey ==
  ASSUME LambdaInv, NEW k \in LambdaKeys, account' = [account EXCEPT !.keys = Append(account.keys, k)]
  PROVE  LambdaQuiet /\ KeyKnown(k.owner)'
  <1>1. LambdaShape /\ BootedOwn /\ account.keys \in Seq(LambdaKeys) /\ Len(account.keys) \in Nat
        /\ DOMAIN account.keys = 1..Len(account.keys)
    BY DEF LambdaInv, LambdaShape
  <1>2. /\ account'.keys = Append(account.keys, k) /\ account'.vms = account.vms
        /\ account'.dropped = account.dropped /\ account'.fs = account.fs /\ LambdaAccount(account')
    BY <1>1 DEF LambdaShape, LambdaAccount
  <1>3. /\ account'.keys \in Seq(LambdaKeys) /\ Len(account'.keys) = Len(account.keys) + 1
        /\ account'.keys[Len(account.keys) + 1] = k /\ DOMAIN account'.keys = 1..Len(account'.keys)
        /\ \A j \in 1..Len(account.keys) : account'.keys[j] = account.keys[j]
    BY <1>1, <1>2
  <1>4. \A e \in LA!Daemons : KeyKnown(e) => KeyKnown(e)'
    <2> SUFFICES ASSUME NEW e \in LA!Daemons, KeyKnown(e) PROVE KeyKnown(e)'
      OBVIOUS
    <2>1. CASE e \in account.dropped
      BY <1>2, <2>1 DEF KeyKnown
    <2>2. CASE LA!Stored(e)
      <3>1. PICK j \in 1..Len(account.keys) : account.keys[j].owner = e
        BY <1>1, <2>2 DEF LA!Stored
      <3>2. j \in DOMAIN account'.keys /\ account'.keys[j].owner = e
        BY <1>1, <1>3, <3>1
      <3> QED
        BY <3>2 DEF KeyKnown, LA!Stored
    <2> QED
      BY <2>1, <2>2 DEF KeyKnown
  <1>5. KeyKnown(k.owner)'
    <2>1. Len(account.keys) + 1 \in DOMAIN account'.keys /\ account'.keys[Len(account.keys) + 1].owner = k.owner
      BY <1>1, <1>3
    <2> QED
      BY <2>1 DEF KeyKnown, LA!Stored
  <1>6. BootedOwn'
    BY <1>1, <1>2 DEF BootedOwn
  <1> QED
    BY <1>1, <1>2, <1>3, <1>4, <1>5, <1>6 DEF LambdaQuiet, LambdaShape

\* EnsurePublicKey: the key goes up, and is the one to launch with.
LEMMA LambdaRegisters ==
  ASSUME LambdaInv, NEW d \in LA!Daemons, NEW ans \in {"ok", "lost", "refused"}, LA!EnsurePublicKey(d, ans)
  PROVE  LambdaInv'
  <1>1. /\ call[d].at = "add" /\ LambdaCall(call[d]) /\ LambdaTold(told[d]) /\ LambdaShape
        /\ \A i \in 1..Len(account.vms) : ~LiveVm(account.vms[i], d)
    BY DEF LA!EnsurePublicKey, LambdaInv, LambdaShape, OneLive
  <1>2. LambdaQuiet /\ (ans = "ok" => KeyKnown(d)')
    <2>1. CASE ans \in {"ok", "lost"} /\ ~LA!Stored(d)
      <3> PICK k : k = [owner |-> d, iplane |-> TRUE]
        OBVIOUS
      <3>1. account' = [account EXCEPT !.keys = Append(account.keys, k)]
        BY <2>1 DEF LA!EnsurePublicKey
      <3>2. k \in LambdaKeys /\ k.owner = d
        BY DEF LambdaKeys, KeyOwners, LA!Daemons
      <3>3. LambdaQuiet /\ KeyKnown(k.owner)'
        BY <3>1, <3>2, LambdaAddsKey
      <3> QED
        BY <3>2, <3>3 DEF KeyKnown, LA!Stored
    <2>2. CASE ~(ans \in {"ok", "lost"} /\ ~LA!Stored(d))
      <3>1. account' = account /\ LambdaQuiet
        BY <2>2, LambdaStill DEF LA!EnsurePublicKey
      <3>2. ans = "ok" => KeyKnown(d)
        BY <2>2 DEF KeyKnown
      <3> QED
        BY <3>1, <3>2 DEF LambdaQuiet
    <2> QED
      BY <2>1, <2>2
  <1>3. CASE ans = "ok"
    <2> PICK c, t : c = [call[d] EXCEPT !.at = "pick"] /\ t = [told[d] EXCEPT !.memo = d]
      OBVIOUS
    <2>1. call' = [call EXCEPT ![d] = c] /\ told' = [told EXCEPT ![d] = t]
      BY <1>3 DEF LA!EnsurePublicKey
    <2>2. LambdaCall(c) /\ c.at = "pick" /\ LambdaTold(t) /\ t.result = told[d].result /\ t.memo = d
      BY <1>1 DEF LambdaCall, LambdaTold
    <2> QED
      BY <1>1, <1>2, <1>3, <2>1, <2>2, LambdaStep
  <1>4. CASE ans # "ok"
    BY <1>2, <1>4, LambdaEnds DEF LA!EnsurePublicKey
  <1> QED
    BY <1>3, <1>4

\* launchSSHKeyName: the daemon's own key, while it is stored.
LEMMA LambdaPicks ==
  ASSUME LambdaInv, NEW d \in LA!Daemons, NEW ok \in BOOLEAN, LA!launchSSHKeyName(d, ok)
  PROVE  LambdaInv'
  <1>1. /\ account' = account /\ LambdaQuiet /\ call[d].at = "pick" /\ LambdaCall(call[d]) /\ LambdaTold(told[d])
        /\ LambdaShape /\ told' = told /\ KeyKnown(d) /\ told[d].memo = d
        /\ \A i \in 1..Len(account.vms) : ~LiveVm(account.vms[i], d)
    BY LambdaStill DEF LA!launchSSHKeyName, LambdaInv, LambdaShape, OneLive, LaunchesOwn
  <1>2. CASE call' = [call EXCEPT ![d] = LA!NoCall]
    BY <1>1, <1>2, LambdaEnds
  <1> PICK key : key = LA!keyFor(account.keys, told[d].memo)
    OBVIOUS
  <1>3. LA!Stored(d) => key = d
    BY <1>1 DEF LA!keyFor, LA!Stored
  <1>4. CASE call' = [call EXCEPT ![d].at = "launch", ![d].key = key]
    <2> PICK c, t : c = [call[d] EXCEPT !.at = "launch", !.key = key] /\ t = told[d]
      OBVIOUS
    <2>1. call' = [call EXCEPT ![d] = c] /\ told' = [told EXCEPT ![d] = t]
      BY <1>1, <1>4 DEF LambdaShape
    <2>2. LambdaCall(c) /\ c.at = "launch" /\ c.key = key /\ LambdaTold(t) /\ t.result = told[d].result /\ t.memo = d
      BY <1>1 DEF LambdaCall
    <2>3. key = d \/ d \in account'.dropped
      BY <1>1, <1>3 DEF KeyKnown
    <2>4. KeyKnown(d)'
      BY <1>1 DEF LambdaQuiet
    <2> QED
      BY <1>1, <2>1, <2>2, <2>3, <2>4, LambdaStep
  <1> QED
    BY <1>2, <1>4 DEF LA!launchSSHKeyName

\* Spawn: with no VM of the daemon's running, the one made is the only one.
LEMMA LambdaSpawns ==
  ASSUME LambdaInv, NEW d \in LA!Daemons, NEW ans \in {"ok", "lost", "refused"}, LA!Spawn(d, ans)
  PROVE  LambdaInv'
  <1>1. /\ call[d].at = "launch" /\ told' = told /\ LambdaShape /\ LaunchesOwn /\ BootedOwn /\ OneLive /\ SaysDeleted
        /\ account.vms \in Seq(LambdaVms) /\ account.keys \in Seq(LambdaKeys) /\ Len(account.vms) \in Nat
        /\ DOMAIN account.keys = 1..Len(account.keys)
    BY DEF LA!Spawn, LambdaInv, LambdaShape
  <1>2. CASE ~(LA!Stored(call[d].key) /\ ans \in {"ok", "lost"})
    <2>1. account' = account /\ call' = [call EXCEPT ![d] = LA!NoCall]
      BY <1>2 DEF LA!Spawn
    <2> QED
      BY <1>1, <2>1, LambdaStill, LambdaEnds
  <1>3. CASE LA!Stored(call[d].key) /\ ans \in {"ok", "lost"}
    <2> PICK n : n = Len(account.vms) + 1
      OBVIOUS
    <2>1. PICK v : v = LA!apiInstance(d, call[d].key)
      OBVIOUS
    <2>2. PICK c : c = IF ans = "ok" THEN [LA!NoCall EXCEPT !.at = "get", !.vm = n] ELSE LA!NoCall
      OBVIOUS
    <2>3. account' = [account EXCEPT !.vms = Append(account.vms, v)]
      BY <1>3, <2>1 DEF LA!Spawn
    <2>4. call' = [call EXCEPT ![d] = c]
      BY <1>3, <2>2 DEF LA!Spawn
    <2>5. LambdaCall(c) /\ c.at \in {"idle", "get"}
      BY <2>2 DEF LA!NoCall, LambdaCall
    <2>6. call[d].key \in KeyOwners
      <3>1. PICK j \in 1..Len(account.keys) : account.keys[j].owner = call[d].key
        BY <1>1, <1>3 DEF LA!Stored
      <3>2. account.keys[j] \in LambdaKeys
        BY <1>1
      <3> QED
        BY <3>1, <3>2 DEF LambdaKeys
    <2>7. v = [by |-> d, key |-> call[d].key, named |-> TRUE, tagged |-> TRUE, status |-> "booting"]
      BY <2>1 DEF LA!apiInstance
    <2>8. v \in LambdaVms /\ v.by = d /\ v.key = call[d].key
      BY <2>6, <2>7 DEF LambdaVms
    <2>9. /\ account'.vms = Append(account.vms, v) /\ account'.keys = account.keys
          /\ account'.dropped = account.dropped /\ account'.fs = account.fs /\ LambdaAccount(account')
      BY <1>1, <2>3 DEF LambdaShape, LambdaAccount
    <2>10. /\ account'.vms \in Seq(LambdaVms) /\ Len(account'.vms) = n /\ account'.vms[n] = v
           /\ \A k \in 1..Len(account.vms) : account'.vms[k] = account.vms[k]
      BY <1>1, <2>8, <2>9
    <2>11. \A k \in 1..Len(account'.vms) : k \in 1..Len(account.vms) \/ k = n
      BY <1>1, <2>10
    <2>12. /\ call' = [e \in LA!Daemons |-> IF e = d THEN c ELSE call[e]]
           /\ \A e \in LA!Daemons : call'[e] = IF e = d THEN c ELSE call[e]
      BY <1>1, <2>4 DEF LambdaShape
    <2>13. LambdaShape'
      <3>1. call' = [e \in LA!Daemons |-> call'[e]] /\ \A e \in LA!Daemons : LambdaCall(call'[e])
        BY <1>1, <2>5, <2>12 DEF LambdaShape
      <3> QED
        BY <1>1, <2>9, <2>10, <3>1 DEF LambdaShape
    <2>14. LaunchesOwn'
      <3>1. \A e \in LA!Daemons : KeyKnown(e) => KeyKnown(e)'
        BY <2>9 DEF KeyKnown, LA!Stored
      <3> QED
        BY <1>1, <2>5, <2>9, <2>12, <3>1 DEF LaunchesOwn
    <2>15. BootedOwn'
      <3>1. v.key = v.by \/ v.by \in account.dropped
        BY <1>1, <2>8 DEF LaunchesOwn
      <3> QED
        BY <1>1, <2>9, <2>10, <2>11, <3>1 DEF BootedOwn
    <2>16. OneLive'
      <3> SUFFICES ASSUME NEW e \in LA!Daemons
                   PROVE  /\ \A i, j \in 1..Len(account'.vms) :
                                 LiveVm(account'.vms[i], e) /\ LiveVm(account'.vms[j], e) => i = j
                          /\ call'[e].at \in {"ensure", "add", "pick", "launch"} =>
                                 \A i \in 1..Len(account'.vms) : ~LiveVm(account'.vms[i], e)
        BY DEF OneLive, LiveVm
      <3>1. CASE e = d
        <4>1. \A k \in 1..Len(account.vms) : ~LiveVm(account.vms[k], d)
          BY <1>1 DEF OneLive
        <4>2. \A k \in 1..Len(account'.vms) : LiveVm(account'.vms[k], d) => k = n
          BY <2>10, <2>11, <4>1
        <4> QED
          BY <2>5, <2>12, <3>1, <4>2
      <3>2. CASE e # d
        <4>1. ~LiveVm(v, e)
          BY <2>8, <3>2 DEF LiveVm
        <4>2. \A k \in 1..Len(account'.vms) :
                LiveVm(account'.vms[k], e) => k \in 1..Len(account.vms) /\ LiveVm(account.vms[k], e)
          BY <2>10, <2>11, <4>1
        <4> QED
          BY <1>1, <2>12, <3>2, <4>2 DEF OneLive
      <3> QED
        BY <3>1, <3>2
    <2>17. SaysDeleted'
      BY <1>1, <2>9 DEF SaysDeleted
    <2> QED
      BY <2>13, <2>14, <2>15, <2>16, <2>17 DEF LambdaInv
  <1> QED
    BY <1>2, <1>3

\* describeOne and WaitForSSHReady: the VM's record, and its address.
LEMMA LambdaDescribes ==
  ASSUME LambdaInv, NEW d \in LA!Daemons, NEW ok \in BOOLEAN, LA!describeOne(d, ok) \/ LA!WaitForSSHReady(d, ok)
  PROVE  LambdaInv'
  <1>1. account' = account /\ LambdaQuiet /\ LambdaCall(call[d]) /\ LambdaTold(told[d])
    BY LambdaStill DEF LA!describeOne, LA!WaitForSSHReady, LambdaInv, LambdaShape
  <1>2. CASE LA!describeOne(d, ok)
    <2>1. PICK st : told' = [told EXCEPT ![d].vm = call[d].vm, ![d].state = st]
      BY <1>2 DEF LA!describeOne
    <2> PICK c, t : c = [call[d] EXCEPT !.at = "ssh"] /\ t = [told[d] EXCEPT !.vm = call[d].vm, !.state = st]
      OBVIOUS
    <2>2. call' = [call EXCEPT ![d] = c] /\ told' = [told EXCEPT ![d] = t]
      BY <1>2, <2>1 DEF LA!describeOne
    <2>3. LambdaCall(c) /\ c.at = "ssh" /\ LambdaTold(t) /\ t.result = told[d].result
      BY <1>1 DEF LambdaCall, LambdaTold
    <2> QED
      BY <1>1, <2>2, <2>3, LambdaStep
  <1>3. CASE LA!WaitForSSHReady(d, ok)
    <2>1. PICK res \in {"none", "error"} : told' = [told EXCEPT ![d].result = res]
      BY <1>3 DEF LA!WaitForSSHReady
    <2> PICK c, t : c = LA!NoCall /\ t = [told[d] EXCEPT !.result = res]
      OBVIOUS
    <2>2. call' = [call EXCEPT ![d] = c] /\ told' = [told EXCEPT ![d] = t]
      BY <1>3, <2>1 DEF LA!WaitForSSHReady
    <2>3. LambdaCall(c) /\ c.at = "idle" /\ LambdaTold(t) /\ t.result # "deleted"
      BY <1>1, LambdaIdle DEF LambdaTold
    <2> QED
      BY <1>1, <2>2, <2>3, LambdaStep
  <1> QED
    BY <1>2, <1>3

\* A VM that ends is no longer live.
LEMMA LambdaVmEnds ==
  ASSUME LambdaInv, NEW i, LA!Rented(i), NEW s \in {"active", "preempted", "terminated"},
         account' = [account EXCEPT !.vms[i].status = s]
  PROVE  LambdaQuiet
  <1>1. account.vms \in Seq(LambdaVms) /\ DOMAIN account.vms = 1..Len(account.vms)
    BY DEF LambdaInv, LambdaShape
  <1>2. i \in 1..Len(account.vms) /\ account.vms[i].status \notin {"terminated", "preempted"}
    BY <1>1 DEF LA!Rented
  <1>3. account.vms[i] \in LambdaVms
    BY <1>1, <1>2
  <1>4. account.vms[i].status \in {"booting", "active"}
    BY <1>2, <1>3 DEF LambdaVms
  <1>5. PICK v : v = [account.vms[i] EXCEPT !.status = s]
    OBVIOUS
  <1>6. account' = [account EXCEPT !.vms[i] = v]
    BY <1>5
  <1>7. /\ v \in LambdaVms /\ v.by = account.vms[i].by /\ v.key = account.vms[i].key
        /\ v.tagged = account.vms[i].tagged /\ v.named = account.vms[i].named
    BY <1>3, <1>5 DEF LambdaVms
  <1>8. \A e \in LA!Daemons : LiveVm(v, e) => LiveVm(account.vms[i], e)
    BY <1>4, <1>7 DEF LiveVm
  <1> QED
    BY <1>2, <1>6, <1>7, <1>8, LambdaTouches

\* Terminate.
LEMMA LambdaTerminates ==
  ASSUME LambdaInv, NEW d \in LA!Daemons, NEW ans \in {"ok", "lost", "refused"}, LA!Terminate(d, ans)
  PROVE  LambdaInv'
  <1>1. /\ call' = call /\ call[d].at = "idle" /\ LambdaCall(call[d]) /\ LambdaTold(told[d]) /\ LambdaShape
    BY DEF LA!Terminate, LambdaInv, LambdaShape
  <1>2. LambdaQuiet
    <2>1. CASE LA!Rented(told[d].vm) /\ ans \in {"ok", "lost"}
      <3> PICK i : i = told[d].vm
        OBVIOUS
      <3>1. account' = [account EXCEPT !.vms[i].status = "terminated"] /\ LA!Rented(i)
        BY <2>1 DEF LA!Terminate
      <3> QED
        BY <3>1, LambdaVmEnds
    <2>2. CASE ~(LA!Rented(told[d].vm) /\ ans \in {"ok", "lost"})
      BY <2>2, LambdaStill DEF LA!Terminate
    <2> QED
      BY <2>1, <2>2
  <1>3. CASE told' = told
    BY <1>1, <1>2, <1>3, LambdaMoves
  <1>4. CASE told' = [told EXCEPT ![d].state = "TERMINATED"]
    <2> PICK c, t : c = call[d] /\ t = [told[d] EXCEPT !.state = "TERMINATED"]
      OBVIOUS
    <2>1. call' = [call EXCEPT ![d] = c] /\ told' = [told EXCEPT ![d] = t]
      BY <1>1, <1>4 DEF LambdaShape
    <2>2. LambdaCall(c) /\ c.at = "idle" /\ LambdaTold(t) /\ t.result = told[d].result
      BY <1>1 DEF LambdaTold
    <2> QED
      BY <1>2, <2>1, <2>2, LambdaStep
  <1> QED
    BY <1>3, <1>4 DEF LA!Terminate

\* A step on a filesystem, which each daemon is told something of.
FsStep(s, r) ==
    /\ account' = [account EXCEPT !.fs["east"] = s]
    /\ call' = call
    /\ told' = [e \in LA!Daemons |-> [told[e] EXCEPT !.result = r[e]]]
    /\ \A e \in LA!Daemons : r[e] = "deleted" => s = "none"

\* Whoever is told that a filesystem is deleted is told so of one that is gone.
LEMMA LambdaFs ==
  ASSUME LambdaInv, NEW s \in {"none", "there", "mounted"}, NEW r, FsStep(s, r)
  PROVE  LambdaInv'
  <1>0. /\ account' = [account EXCEPT !.fs["east"] = s] /\ call' = call
        /\ told' = [e \in LA!Daemons |-> [told[e] EXCEPT !.result = r[e]]]
        /\ \A e \in LA!Daemons : r[e] = "deleted" => s = "none"
    BY DEF FsStep
  <1>1. LambdaShape /\ LaunchesOwn /\ BootedOwn /\ OneLive
    BY DEF LambdaInv
  <1>2. /\ account'.keys = account.keys /\ account'.vms = account.vms /\ account'.dropped = account.dropped
        /\ account'.fs = [account.fs EXCEPT !["east"] = s] /\ LambdaAccount(account')
    BY <1>0, <1>1 DEF LambdaShape, LambdaAccount
  <1>3. account'.fs \in [{"east"} -> {"none", "there", "mounted"}] /\ account'.fs["east"] = s
    BY <1>1, <1>2 DEF LambdaShape
  <1>4. \A e \in LA!Daemons : told'[e] = [told[e] EXCEPT !.result = r[e]]
    BY <1>0
  <1>5. \A e \in LA!Daemons : LambdaTold(told'[e]) /\ told'[e].memo = told[e].memo /\ told'[e].result = r[e]
    BY <1>1, <1>4 DEF LambdaShape, LambdaTold
  <1>6. told' = [e \in LA!Daemons |-> told'[e]]
    BY <1>0
  <1>7. LambdaShape'
    BY <1>0, <1>1, <1>2, <1>3, <1>5, <1>6 DEF LambdaShape
  <1>8. LaunchesOwn'
    BY <1>0, <1>1, <1>2, <1>5 DEF LaunchesOwn, KeyKnown, LA!Stored
  <1>9. BootedOwn' /\ OneLive'
    BY <1>0, <1>1, <1>2 DEF BootedOwn, OneLive, LiveVm
  <1>10. SaysDeleted'
    BY <1>0, <1>3, <1>5 DEF SaysDeleted
  <1> QED
    BY <1>7, <1>8, <1>9, <1>10 DEF LambdaInv

\* EnsureVolume, DeleteVolume, and mounts.
LEMMA LambdaVolumes ==
  ASSUME LambdaInv,
         \/ LA!fsMounted("east")
         \/ \E d \in LA!Daemons, ans \in {"ok", "lost", "refused"} :
               LA!EnsureVolume(d, "east", ans) \/ LA!DeleteVolume(d, "east", ans)
  PROVE  LambdaInv'
  <1>1. LambdaShape /\ LambdaAccount(account) /\ account.fs["east"] \in {"none", "there", "mounted"}
        /\ account = [account EXCEPT !.fs["east"] = account.fs["east"]]
    BY DEF LambdaInv, LambdaShape, LambdaAccount
  <1>2. CASE LA!fsMounted("east")
    <2> PICK s \in {"there", "mounted"} : s = IF account.fs["east"] = "there" THEN "mounted" ELSE "there"
      OBVIOUS
    <2> PICK r : r = [e \in LA!Daemons |-> "none"]
      OBVIOUS
    <2>1. account' = [account EXCEPT !.fs["east"] = s] /\ call' = call
      BY <1>2 DEF LA!fsMounted
    <2>2. told' = [e \in LA!Daemons |-> [told[e] EXCEPT !.result = r[e]]]
      BY <1>2 DEF LA!fsMounted
    <2>3. FsStep(s, r)
      BY <2>1, <2>2 DEF FsStep
    <2> QED
      BY <2>3, LambdaFs
  <1>3. ASSUME NEW d \in LA!Daemons, NEW s \in {"none", "there", "mounted"}, NEW res,
               account' = [account EXCEPT !.fs["east"] = s], call' = call, told' = LA!Says(d, res),
               res = "deleted" => s = "none"
        PROVE  LambdaInv'
    <2> PICK r : r = [e \in LA!Daemons |-> IF e = d THEN res ELSE "none"]
      OBVIOUS
    <2>1. told' = [e \in LA!Daemons |-> [told[e] EXCEPT !.result = r[e]]]
      BY <1>3 DEF LA!Says
    <2>2. \A e \in LA!Daemons : r[e] = "deleted" => s = "none"
      BY <1>3
    <2>3. FsStep(s, r)
      BY <1>3, <2>1, <2>2 DEF FsStep
    <2> QED
      BY <2>3, LambdaFs
  <1>4. ASSUME NEW d \in LA!Daemons, NEW ans \in {"ok", "lost", "refused"}, LA!EnsureVolume(d, "east", ans)
        PROVE  LambdaInv'
    <2>1. PICK res \in {"there", "error"} : told' = LA!Says(d, res)
      BY <1>4 DEF LA!EnsureVolume
    <2>2. CASE account.fs["east"] = "none" /\ ans \in {"ok", "lost"}
      <3>1. account' = [account EXCEPT !.fs["east"] = "there"] /\ call' = call
        BY <1>4, <2>2 DEF LA!EnsureVolume
      <3> QED
        BY <1>3, <2>1, <3>1
    <2>3. CASE ~(account.fs["east"] = "none" /\ ans \in {"ok", "lost"})
      <3>1. account' = [account EXCEPT !.fs["east"] = account.fs["east"]] /\ call' = call
        BY <1>1, <1>4, <2>3 DEF LA!EnsureVolume
      <3> QED
        BY <1>1, <1>3, <2>1, <3>1
    <2> QED
      BY <2>2, <2>3
  <1>5. ASSUME NEW d \in LA!Daemons, NEW ans \in {"ok", "lost", "refused"}, LA!DeleteVolume(d, "east", ans)
        PROVE  LambdaInv'
    <2>1. PICK res \in {"deleted", "error", "wait"} :
             /\ told' = LA!Says(d, res)
             /\ res = "deleted" => account.fs["east"] = "none" \/ (ans = "ok" /\ account.fs["east"] # "mounted")
      BY <1>5 DEF LA!DeleteVolume, LA!isFilesystemInUse
    <2>2. CASE account.fs["east"] = "there" /\ ans \in {"ok", "lost"}
      <3>1. account' = [account EXCEPT !.fs["east"] = "none"] /\ call' = call
        BY <1>5, <2>2 DEF LA!DeleteVolume
      <3> QED
        BY <1>3, <2>1, <3>1
    <2>3. CASE ~(account.fs["east"] = "there" /\ ans \in {"ok", "lost"})
      <3>1. account' = [account EXCEPT !.fs["east"] = account.fs["east"]] /\ call' = call
        BY <1>1, <1>5, <2>3 DEF LA!DeleteVolume
      <3>2. res = "deleted" => account.fs["east"] = "none"
        BY <1>1, <2>1, <2>3
      <3> QED
        BY <1>1, <1>3, <2>1, <3>1, <3>2
    <2> QED
      BY <2>2, <2>3
  <1> QED
    BY <1>2, <1>4, <1>5

\* A key deleted at the console is noted; every other stays.
LEMMA LambdaKeyDeleted ==
  ASSUME LambdaInv, NEW k, LA!keyDeleted(k)
  PROVE  LambdaInv'
  <1>1. /\ LambdaShape /\ BootedOwn /\ account.keys \in Seq(LambdaKeys) /\ Len(account.keys) \in Nat
        /\ DOMAIN account.keys = 1..Len(account.keys)
    BY DEF LambdaInv, LambdaShape
  <1> PICK keys : keys = LA!RemoveAt(account.keys, k)
    OBVIOUS
  <1>2. /\ k \in 1..Len(account.keys) /\ call' = call /\ told' = told
        /\ account' = [account EXCEPT !.dropped = account.dropped \cup {account.keys[k].owner}, !.keys = keys]
    BY <1>1 DEF LA!keyDeleted
  <1>3. /\ account'.keys = keys /\ account'.vms = account.vms /\ account'.fs = account.fs
        /\ account'.dropped = account.dropped \cup {account.keys[k].owner} /\ LambdaAccount(account')
    BY <1>1, <1>2 DEF LambdaShape, LambdaAccount
  <1>4. /\ keys \in Seq(LambdaKeys) /\ Len(keys) = Len(account.keys) - 1
        /\ \A j \in 1..k - 1 : keys[j] = account.keys[j]
        /\ \A j \in k..Len(account.keys) - 1 : keys[j] = account.keys[j + 1]
    <2> PICK n \in Nat : n = Len(account.keys)
      BY <1>1
    <2>1. PICK a : a = SubSeq(account.keys, 1, k - 1)
      OBVIOUS
    <2>2. PICK b : b = SubSeq(account.keys, k + 1, n)
      OBVIOUS
    <2>3. k \in 1..n
      BY <1>2
    <2>4. a \in Seq(LambdaKeys) /\ Len(a) = k - 1 /\ \A j \in 1..k - 1 : a[j] = account.keys[j]
      BY <1>1, <2>1, <2>3
    <2>5. b \in Seq(LambdaKeys) /\ Len(b) = n - k /\ \A j \in 1..n - k : b[j] = account.keys[j + k]
      BY <1>1, <2>2, <2>3
    <2>6. keys = a \o b
      BY <2>1, <2>2 DEF LA!RemoveAt
    <2>7. /\ keys \in Seq(LambdaKeys) /\ Len(keys) = (k - 1) + (n - k)
          /\ \A j \in 1..(k - 1) + (n - k) : keys[j] = IF j <= k - 1 THEN a[j] ELSE b[j - (k - 1)]
      <3>1. /\ keys \in Seq(LambdaKeys) /\ Len(keys) = Len(a) + Len(b)
            /\ \A j \in 1..Len(a) + Len(b) : keys[j] = IF j <= Len(a) THEN a[j] ELSE b[j - Len(a)]
        <4>1. a \in Seq(LambdaKeys) /\ b \in Seq(LambdaKeys)
          BY <2>4, <2>5
        <4>2. /\ a \o b \in Seq(LambdaKeys) /\ Len(a \o b) = Len(a) + Len(b)
              /\ \A j \in 1..Len(a) + Len(b) : (a \o b)[j] = IF j <= Len(a) THEN a[j] ELSE b[j - Len(a)]
          BY ONLY <4>1, ConcatProperties, Zenon
        <4> QED
          BY ONLY <2>6, <4>2, Zenon
      <3> QED
        BY <2>4, <2>5, <3>1
    <2>8. ASSUME NEW j \in k..n - 1 PROVE keys[j] = account.keys[j + 1]
      <3>1. keys[j] = b[j - (k - 1)] /\ j - (k - 1) \in 1..n - k
        BY <2>3, <2>7, SMTT(60)
      <3> QED
        BY <2>3, <2>5, <3>1
    <2>9. ASSUME NEW j \in 1..k - 1 PROVE keys[j] = account.keys[j]
      <3>1. keys[j] = a[j]
        BY <2>3, <2>7
      <3> QED
        BY <2>4, <3>1
    <2> QED
      BY <2>3, <2>7, <2>8, <2>9
  <1>5. DOMAIN keys = 1..Len(account.keys) - 1
    BY <1>4
  <1>6. \A e \in LA!Daemons : KeyKnown(e) => KeyKnown(e)'
    <2> SUFFICES ASSUME NEW e \in LA!Daemons, KeyKnown(e), e \notin account'.dropped PROVE KeyKnown(e)'
      BY DEF KeyKnown
    <2>1. e \notin account.dropped /\ e # account.keys[k].owner
      BY <1>3
    <2>2. PICK j \in 1..Len(account.keys) : account.keys[j].owner = e
      BY <1>1, <2>1 DEF KeyKnown, LA!Stored
    <2>3. j # k
      BY <2>1, <2>2
    <2>4. CASE j < k
      <3>1. j \in DOMAIN keys /\ keys[j] = account.keys[j]
        BY <1>1, <1>2, <1>4, <1>5, <2>4
      <3> QED
        BY <1>3, <2>2, <3>1 DEF KeyKnown, LA!Stored
    <2>5. CASE j > k
      <3>1. j - 1 \in DOMAIN keys /\ keys[j - 1] = account.keys[j]
        BY <1>1, <1>2, <1>4, <1>5, <2>5, SMTT(60)
      <3> QED
        BY <1>3, <2>2, <3>1 DEF KeyKnown, LA!Stored
    <2> QED
      BY <1>1, <1>2, <2>3, <2>4, <2>5
  <1>7. BootedOwn'
    BY <1>1, <1>3 DEF BootedOwn
  <1>8. LambdaQuiet
    BY <1>1, <1>3, <1>4, <1>6, <1>7 DEF LambdaQuiet, LambdaShape
  <1> QED
    BY <1>2, <1>8, LambdaMoves

\* VMs boot, are preempted and are renamed.
LEMMA LambdaVmMoves ==
  ASSUME LambdaInv, NEW i, LA!vmAdvances(i) \/ LA!vmRenamed(i)
  PROVE  LambdaInv'
  <1>1. call' = call /\ told' = told /\ LA!Rented(i)
    BY DEF LA!vmAdvances, LA!vmRenamed
  <1>2. CASE LA!vmAdvances(i)
    <2>1. PICK s \in {"active", "preempted"} : account' = [account EXCEPT !.vms[i].status = s]
      BY <1>2 DEF LA!vmAdvances
    <2> QED
      BY <1>1, <2>1, LambdaVmEnds, LambdaMoves
  <1>3. CASE LA!vmRenamed(i)
    <2>1. account.vms \in Seq(LambdaVms) /\ i \in 1..Len(account.vms)
      BY <1>1 DEF LambdaInv, LambdaShape, LA!Rented
    <2>2. account.vms[i] \in LambdaVms
      BY <2>1
    <2>3. PICK v : v = [account.vms[i] EXCEPT !.named = FALSE]
      OBVIOUS
    <2>4. account' = [account EXCEPT !.vms[i] = v]
      BY <1>3, <2>3 DEF LA!vmRenamed
    <2>5. /\ v \in LambdaVms /\ v.by = account.vms[i].by /\ v.key = account.vms[i].key
          /\ v.tagged = account.vms[i].tagged /\ v.status = account.vms[i].status /\ ~v.named
      BY <2>2, <2>3 DEF LambdaVms
    <2>6. \A e \in LA!Daemons : LiveVm(v, e) => LiveVm(account.vms[i], e)
      BY <2>5 DEF LiveVm
    <2>7. LambdaQuiet
      BY <2>1, <2>4, <2>5, <2>6, LambdaTouches
    <2> QED
      BY <1>1, <2>7, LambdaMoves
  <1> QED
    BY <1>2, <1>3

\* The Lambda Labs adapter (internal/provisioners/lambdalabs), used by two
\* daemons on one account, whichever answers are lost and whatever the operator
\* renames or deletes at the console: a VM boots with the key of the daemon that
\* launched it, a daemon has one VM running for an instance, and a filesystem
\* said to be deleted is gone.
THEOREM LambdaCorrect == MachineSpec => []LambdaSafe
  <1> DEFINE Inv == part = "lambda" => LambdaInv
  <1>1. MachineInit => Inv
    BY LambdaStart DEF MachineInit
  <1>2. Inv /\ [MachineNext]_vars => Inv'
    <2> SUFFICES ASSUME Inv, [MachineNext]_vars, part' = "lambda" PROVE LambdaInv'
      OBVIOUS
    <2>1. CASE UNCHANGED vars
      <3>1. LambdaInv /\ account' = account /\ call' = call /\ told' = told
        BY <2>1 DEF vars
      <3> QED
        BY <3>1, LambdaStill, LambdaMoves
    <2>2. CASE MachineNext
      <3>1. LambdaInv /\ LA!laNext
        BY <2>2 DEF MachineNext
      <3> QED
        BY <3>1, LambdaBegins, LambdaLists, LambdaPicks, LambdaDescribes, LambdaRegisters, LambdaSpawns,
           LambdaTerminates, LambdaVolumes, LambdaVmMoves, LambdaKeyDeleted DEF LA!laNext
    <2> QED
      BY <2>1, <2>2
  <1>3. LambdaInv => LA!BootsWithOurKey /\ LA!RentedOnce /\ LA!DeletedIsGone
    <2> SUFFICES ASSUME LambdaInv PROVE LA!BootsWithOurKey /\ LA!RentedOnce /\ LA!DeletedIsGone
      OBVIOUS
    <2>1. account.vms \in Seq(LambdaVms) /\ DOMAIN account.vms = 1..Len(account.vms)
      BY DEF LambdaInv, LambdaShape
    <2>2. LA!BootsWithOurKey
      BY <2>1 DEF LambdaInv, BootedOwn, LA!BootsWithOurKey
    <2>3. \A i \in 1..Len(account.vms) : LA!Rented(i) => account.vms[i].status \in {"booting", "active"}
      <3> SUFFICES ASSUME NEW i \in 1..Len(account.vms), LA!Rented(i) PROVE account.vms[i].status \in {"booting", "active"}
        OBVIOUS
      <3>1. account.vms[i] \in LambdaVms
        BY <2>1
      <3> QED
        BY <3>1 DEF LambdaVms, LA!Rented
    <2>4. LA!RentedOnce
      BY <2>1, <2>3 DEF LambdaInv, OneLive, LiveVm, LA!RentedOnce
    <2>5. LA!DeletedIsGone
      BY DEF LambdaInv, SaysDeleted, LA!DeletedIsGone
    <2> QED
      BY <2>2, <2>4, <2>5
  <1>4. Inv => LambdaSafe
    BY <1>3 DEF LambdaSafe
  <1> QED
    BY <1>1, <1>2, <1>4, PTL DEF MachineSpec

=============================================================================
