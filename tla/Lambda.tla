------------------------------- MODULE Lambda -------------------------------
(***************************************************************************)
(* The Lambda Labs adapter (internal/provisioners/lambdalabs), used by two *)
(* daemons with a keystore each on one account: registering a key and      *)
(* launching a VM that holds it, finding a VM again by its tags or its     *)
(* name, waiting for its address, terminating it, and the account's        *)
(* filesystems.                                                            *)
(***************************************************************************)
EXTENDS Naturals, Sequences, SequencesExt

CONSTANT MaxPods   \* bound: VMs launched in one behaviour

VARIABLES
    account,  \* Lambda's side: keys, VMs ever launched, filesystems
    call,     \* of each daemon, its call in progress
    told      \* of each daemon, what it keeps and was told

laVars == <<account, call, told>>

Daemons == {"laptop", "ci"}

NoCall == [at |-> "idle", key |-> "none", vm |-> 0]

\* A VM: whose it is, the key it booted with, and what still identifies it.
apiInstance(d, key) ==
    [by |-> d, key |-> key, named |-> TRUE, tagged |-> TRUE, status |-> "booting"]

laInit ==
    /\ account \in {[keys |-> <<[owner |-> "operator", iplane |-> FALSE]>>, dropped |-> {},
                     vms |-> v, fs |-> [r \in {"east"} |-> "none"], does |-> w] :
                        v \in {<<>>, <<[apiInstance("ci", "operator") EXCEPT !.tagged = FALSE]>>},
                        w \in {"rent", "fs"}}
    /\ call = [d \in Daemons |-> NoCall]
    /\ told = [d \in Daemons |-> [memo |-> "none", vm |-> 0, state |-> "PENDING", result |-> "none"]]

Stored(owner) == \E k \in DOMAIN account.keys : account.keys[k].owner = owner

isActiveProviderState(status) == status \in {"booting", "active", "unhealthy"}

mapLambdaState(status) ==
    CASE status \in {"active", "unhealthy"}       -> "ACTIVE"
      [] status = "terminating"                   -> "TERMINATING"
      [] status \in {"terminated", "preempted"}   -> "TERMINATED"
      [] OTHER                                    -> "PENDING"

Rented(i) == i \in DOMAIN account.vms /\ account.vms[i].status \notin {"terminated", "preempted"}

(***************************************************************************)
(* Keys.                                                                   *)
(***************************************************************************)

\* EnsurePublicKey reads the stored keys; material that matches is enough.
listSSHKeys(d, ok) ==
    /\ call[d].at = "ensure"
    /\ IF ~ok THEN /\ call' = [call EXCEPT ![d] = NoCall]
                   /\ UNCHANGED told
       ELSE IF Stored(d) THEN /\ told' = [told EXCEPT ![d].memo = d]
                              /\ call' = [call EXCEPT ![d].at = "pick"]
       ELSE /\ call' = [call EXCEPT ![d].at = "add"]
            /\ UNCHANGED told
    /\ UNCHANGED account

\* The key goes up under a name that carries its digest: nothing is replaced.
EnsurePublicKey(d, ans) ==
    /\ call[d].at = "add"
    /\ account' = IF ans \in {"ok", "lost"} /\ ~Stored(d)
                  THEN [account EXCEPT !.keys = Append(@, [owner |-> d, iplane |-> TRUE])] ELSE account
    /\ told' = IF ans = "ok" THEN [told EXCEPT ![d].memo = d] ELSE told
    /\ call' = [call EXCEPT ![d] = IF ans = "ok" THEN [@ EXCEPT !.at = "pick"] ELSE NoCall]

\* launchSSHKeyName: the key this daemon registered, else one of iplane's,
\* else the account's first.
keyFor(keys, memo) ==
    LET any == SelectSeq(keys, LAMBDA k : k.iplane) \o keys
    IN  IF \E k \in DOMAIN keys : keys[k].owner = memo THEN memo
        ELSE IF any = <<>> THEN "none" ELSE any[1].owner

launchSSHKeyName(d, ok) ==
    /\ call[d].at = "pick"
    /\ call' = IF ok /\ keyFor(account.keys, told[d].memo) # "none"
               THEN [call EXCEPT ![d].at = "launch", ![d].key = keyFor(account.keys, told[d].memo)]
               ELSE [call EXCEPT ![d] = NoCall]
    /\ UNCHANGED <<account, told>>

(***************************************************************************)
(* VMs.                                                                    *)
(***************************************************************************)

\* Mutant: a VM is known by its name alone.
List_ByName(d) == {i \in DOMAIN account.vms : account.vms[i].by = d /\ account.vms[i].named}

\* List, filtered on the id of a daemon's instance: the tags a VM was launched
\* with, or the id in its name.
List(d) == {i \in DOMAIN account.vms : account.vms[i].by = d /\ (account.vms[i].tagged \/ account.vms[i].named)}

Listed(d) == {i \in List(d) : isActiveProviderState(account.vms[i].status)}

Adopt(d) ==
    /\ call[d].at = "idle" /\ told[d].vm = 0
    /\ \E i \in Listed(d) :
           told' = [told EXCEPT ![d].vm = i, ![d].state = mapLambdaState(account.vms[i].status)]
    /\ UNCHANGED <<account, call>>

\* The Service registers the key, then spawns.
Create(d) ==
    /\ account.does = "rent" /\ call[d].at = "idle" /\ told[d].vm = 0 /\ Listed(d) = {} /\ Len(account.vms) < MaxPods
    /\ call' = [call EXCEPT ![d].at = "ensure"]
    /\ UNCHANGED <<account, told>>

\* Spawn: launched with the key picked, if it is still stored.
Spawn(d, ans) ==
    LET made == Stored(call[d].key) /\ ans \in {"ok", "lost"} IN
    /\ call[d].at = "launch"
    /\ account' = IF made THEN [account EXCEPT !.vms = Append(@, apiInstance(d, call[d].key))]
                  ELSE account
    /\ call' = [call EXCEPT ![d] = IF made /\ ans = "ok"
                                    THEN [NoCall EXCEPT !.at = "get", !.vm = Len(account.vms) + 1] ELSE NoCall]
    /\ UNCHANGED told

\* The record is fetched; without it the id is kept all the same.
describeOne(d, ok) ==
    /\ call[d].at = "get"
    /\ told' = [told EXCEPT ![d].vm = call[d].vm,
                            ![d].state = IF ok THEN mapLambdaState(account.vms[call[d].vm].status) ELSE "PENDING"]
    /\ call' = [call EXCEPT ![d].at = "ssh"]
    /\ UNCHANGED account

\* WaitForSSHReady: a failed read ends the wait, as do the deadline and the
\* caller; an address that answers ends it well.
WaitForSSHReady(d, ok) ==
    /\ call[d].at = "ssh"
    /\ told' = [told EXCEPT ![d].result = IF ok /\ account.vms[call[d].vm].status = "active" THEN "none" ELSE "error"]
    /\ call' = [call EXCEPT ![d] = NoCall]
    /\ UNCHANGED account

\* Terminate: gone already is as good as done, any other failure is told.
Terminate(d, ans) ==
    /\ call[d].at = "idle" /\ told[d].vm # 0 /\ told[d].state # "TERMINATED"
    /\ account' = IF Rented(told[d].vm) /\ ans \in {"ok", "lost"}
                  THEN [account EXCEPT !.vms[told[d].vm].status = "terminated"] ELSE account
    /\ told' = IF ans = "ok" \/ ~Rented(told[d].vm) THEN [told EXCEPT ![d].state = "TERMINATED"] ELSE told
    /\ UNCHANGED call

(***************************************************************************)
(* Filesystems, one per region: absent, there, or mounted.                 *)
(***************************************************************************)

\* The answer to the latest of the volume calls.
Says(d, result) == [e \in Daemons |-> [told[e] EXCEPT !.result = IF e = d THEN result ELSE "none"]]

EnsureVolume(d, r, ans) ==
    /\ account.does = "fs" /\ call[d].at = "idle"
    /\ account' = IF account.fs[r] = "none" /\ ans \in {"ok", "lost"} THEN [account EXCEPT !.fs[r] = "there"] ELSE account
    /\ told' = Says(d, IF account.fs[r] # "none" \/ ans = "ok" THEN "there" ELSE "error")
    /\ UNCHANGED call

isFilesystemInUse(s) == s = "mounted"

\* DeleteVolume: an absent filesystem is deleted, a mounted one is a wait.
DeleteVolume(d, r, ans) ==
    /\ account.does = "fs" /\ call[d].at = "idle"
    /\ account' = IF account.fs[r] = "there" /\ ans \in {"ok", "lost"} THEN [account EXCEPT !.fs[r] = "none"] ELSE account
    /\ told' = Says(d,
           CASE account.fs[r] = "none"                         -> "deleted"
             [] account.fs[r] # "none" /\ ans # "ok"           -> "error"
             [] ans = "ok" /\ isFilesystemInUse(account.fs[r]) -> "wait"
             [] OTHER                                          -> "deleted")
    /\ UNCHANGED call

(***************************************************************************)
(* Lambda's doing, and the operator's at its console.                      *)
(***************************************************************************)
vmAdvances(i) ==
    /\ Rented(i) /\ account.does = "rent"
    /\ \E s \in {"active", "preempted"} :
           account' = [account EXCEPT !.vms[i].status = s]
    /\ UNCHANGED <<call, told>>

vmRenamed(i) ==
    /\ Rented(i) /\ account.does = "rent"
    /\ account' = [account EXCEPT !.vms[i].named = FALSE]
    /\ UNCHANGED <<call, told>>

\* A key no rented VM refers to can be deleted.
keyDeleted(k) ==
    /\ k \in DOMAIN account.keys /\ account.dropped = {} /\ account.does = "rent"
    /\ ~\E i \in DOMAIN account.vms : Rented(i) /\ account.vms[i].key = account.keys[k].owner
    /\ account' = [account EXCEPT !.dropped = @ \cup {account.keys[k].owner}, !.keys = RemoveAt(@, k)]
    /\ UNCHANGED <<call, told>>

fsMounted(r) ==
    /\ account.fs[r] \in {"there", "mounted"}
    /\ account' = [account EXCEPT !.fs[r] = IF @ = "there" THEN "mounted" ELSE "there"]
    /\ told' = [d \in Daemons |-> [told[d] EXCEPT !.result = "none"]]
    /\ UNCHANGED call

laNext ==
    \/ \E d \in Daemons :
          \/ Adopt(d) \/ Create(d)
          \/ \E ok \in BOOLEAN : listSSHKeys(d, ok) \/ launchSSHKeyName(d, ok) \/ describeOne(d, ok) \/ WaitForSSHReady(d, ok)
          \/ \E ans \in {"ok", "lost", "refused"} :
                \/ EnsurePublicKey(d, ans) \/ Spawn(d, ans) \/ Terminate(d, ans)
                \/ \E r \in {"east"} : EnsureVolume(d, r, ans) \/ DeleteVolume(d, r, ans)
    \/ \E i \in 1..MaxPods : vmAdvances(i) \/ vmRenamed(i) \/ keyDeleted(i)
    \/ \E r \in {"east"} : fsMounted(r)

-----------------------------------------------------------------------------
\* A VM boots with the key of the daemon that launched it, however many keys
\* the account holds, unless the operator deleted that key.
BootsWithOurKey ==
    \A i \in DOMAIN account.vms :
        LET v == account.vms[i] IN v.tagged => v.key = v.by \/ v.by \in account.dropped

\* A daemon never has two VMs running for one instance, though answers are
\* lost and VMs are renamed at the console.  (One launched before VMs were
\* tagged, and renamed, is beyond finding.)
RentedOnce ==
    \A d \in Daemons : \A i, j \in DOMAIN account.vms :
        LET live(k) == account.vms[k].by = d /\ Rented(k) /\ (account.vms[k].tagged \/ account.vms[k].named)
        IN  live(i) /\ live(j) => i = j

\* Only a filesystem that is gone is said to be deleted.
DeletedIsGone ==
    \A d \in Daemons : told[d].result = "deleted" => account.fs["east"] = "none"

=============================================================================
