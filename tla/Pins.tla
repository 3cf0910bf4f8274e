-------------------------------- MODULE Pins --------------------------------
(***************************************************************************)
(* The registry of warm caches (internal/provisioners/pin.go): a model is  *)
(* pinned by staging it onto the region's volume and recording it, and     *)
(* unpinned by forgetting it or by destroying the volume.  The commands    *)
(* hold the state directory for their lifetime, so one runs at a time; it  *)
(* may be killed between any two steps, every call to the provider may     *)
(* fail, and a volume may be deleted behind the registry's back.           *)
(***************************************************************************)
EXTENDS Naturals

CONSTANTS
    MaxPods,  \* bound: volumes created in one behaviour
    Models

VARIABLES
    account,  \* the volumes at the provider and what is staged on them
    call,     \* the command that runs, <<>> when none does
    told      \* the registry, and the volumes a pin was reported for

pnVars == <<account, call, told>>

Ids == 1..MaxPods

\* A volume record lists models; untracked is a volume without a record.
Untracked == {"untracked"}

pnInit ==
    /\ account = [made |-> 0, alive |-> {}, staged |-> [v \in Ids |-> {}]]
    /\ call = <<>>
    /\ told = [volumes |-> [v \in Ids |-> Untracked], pinned |-> {}]

Run(c) == call' = <<c>>
Done   == call' = <<>>

\* One volume per region, found or created.
EnsureVolume(m, force) ==
    /\ call = <<>>
    /\ LET id == IF account.alive # {} THEN CHOOSE v \in account.alive : TRUE ELSE account.made + 1 IN
       /\ id \in Ids
       /\ account' = [account EXCEPT !.made = IF id > @ THEN id ELSE @, !.alive = @ \cup {id}]
       /\ Run([at |-> "read", id |-> id, model |-> m, force |-> force])
    /\ UNCHANGED told

\* Whether to stage is the registry's to say.
alreadyStaged ==
    /\ call # <<>> /\ call[1].at = "read"
    /\ LET c == call[1] IN
       Run([c EXCEPT !.at = IF ~c.force /\ c.model \in told.volumes[c.id] THEN "record" ELSE "stage"])
    /\ UNCHANGED <<account, told>>

\* A volume that is gone cannot be mounted to stage onto.
StageModel ==
    /\ call # <<>> /\ call[1].at = "stage" /\ call[1].id \in account.alive
    /\ account' = [account EXCEPT !.staged[call[1].id] = @ \cup {call[1].model}]
    /\ Run([call[1] EXCEPT !.at = "record"])
    /\ UNCHANGED told

StageFails ==
    /\ call # <<>> /\ call[1].at = "stage"
    /\ Done
    /\ UNCHANGED <<account, told>>

\* The upsert of PinModel.
recordPin ==
    /\ call # <<>> /\ call[1].at = "record"
    /\ LET c == call[1] IN
       told' = [told EXCEPT !.volumes[c.id] = (@ \ Untracked) \cup {c.model}, !.pinned = @ \cup {c.id}]
    /\ Done
    /\ UNCHANGED account

\* One model is only forgotten; its files stay.
UnpinModel(v, m) ==
    /\ call = <<>> /\ told.volumes[v] # Untracked
    /\ told' = [told EXCEPT !.volumes[v] = @ \ {m}]
    /\ UNCHANGED <<account, call>>

\* Mutant: the record goes before the volume does.
UnpinVolume_DropFirst(v) ==
    /\ call = <<>> /\ told.volumes[v] # Untracked
    /\ told' = [told EXCEPT !.volumes[v] = Untracked]
    /\ Run([at |-> "delete", id |-> v])
    /\ UNCHANGED account

UnpinVolume(v) ==
    /\ call = <<>> /\ told.volumes[v] # Untracked
    /\ Run([at |-> "delete", id |-> v])
    /\ UNCHANGED <<account, told>>

\* The provider destroys the volume, or had none by this id.
DeleteVolume ==
    /\ call # <<>> /\ call[1].at = "delete"
    /\ account' = [account EXCEPT !.alive = @ \ {call[1].id}]
    /\ Run([call[1] EXCEPT !.at = "drop"])
    /\ UNCHANGED told

\* DeleteVolume failed: the command ends with its error.
DeleteFails ==
    /\ call # <<>> /\ call[1].at = "delete"
    /\ Done
    /\ UNCHANGED <<account, told>>

\* Only then is the record dropped.
dropRecord ==
    /\ call # <<>> /\ call[1].at = "drop"
    /\ told' = [told EXCEPT !.volumes[call[1].id] = Untracked]
    /\ Done
    /\ UNCHANGED account

\* The command is killed.
commandKilled ==
    /\ call # <<>>
    /\ Done
    /\ UNCHANGED <<account, told>>

\* Someone deletes the volume at the provider.
volumeLost(v) ==
    /\ v \in account.alive
    /\ account' = [account EXCEPT !.alive = @ \ {v}]
    /\ UNCHANGED <<call, told>>

pnNext ==
    \/ \E m \in Models, force \in BOOLEAN : EnsureVolume(m, force)
    \/ alreadyStaged \/ StageModel \/ StageFails \/ recordPin
    \/ \E v \in Ids, m \in Models : UnpinModel(v, m)
    \/ \E v \in Ids : UnpinVolume(v) \/ volumeLost(v)
    \/ DeleteVolume \/ DeleteFails \/ dropRecord \/ commandKilled

---------------------------------------------------------------------------

\* What resolveWarmMount will call warm is warm: a model the registry lists on
\* a volume that exists was staged there, whatever failed or was killed on the
\* way and however often it was pinned and unpinned.
PinnedIsStaged ==
    \A v \in account.alive : told.volumes[v] \ Untracked \subseteq account.staged[v]

\* A volume a pin was reported for stays on the registry while it is paid for:
\* a failed or killed unpin never leaves one that no command can name.
PinnedIsTracked ==
    \A v \in told.pinned \cap account.alive : told.volumes[v] # Untracked
=============================================================================
