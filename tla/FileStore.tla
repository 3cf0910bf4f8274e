----------------------------- MODULE FileStore ------------------------------
(***************************************************************************)
(* The state file (internal/provisioners/stores/file): read-modify-write   *)
(* under a mutex in the process and a flock between processes, the file    *)
(* replaced by rename; processes are killed and machines lose power        *)
(* between any two steps.  A process holds the flock for each update, or   *)
(* for its lifetime.                                                       *)
(***************************************************************************)
EXTENDS FiniteSets

CONSTANTS
    Procs,    \* the processes that share the file
    Threads,  \* their goroutines; each updates once
    ProcOf    \* of each goroutine, its process

VARIABLES
    account,  \* the disk and the flock
    call,     \* of each goroutine, the Update it runs
    told      \* in the processes' memory, and what was acknowledged

fsVars == <<account, call, told>>

Idle == [at |-> "idle", seen |-> {}, flock |-> FALSE]

\* The file holds the updates made so far; on power loss the last rename may
\* be undone, and a file whose data was never synced is torn.
fsInit ==
    /\ account = [file |-> {}, synced |-> TRUE, before |-> {}, torn |-> FALSE, lock |-> ""]
    /\ call = [t \in Threads |-> Idle]
    /\ told = [held |-> {}, mu |-> [p \in Procs |-> ""], acked |-> {}, refused |-> {}, overlap |-> FALSE]

\* LockForLifetime never waits: a lock that is held is an error at once.
LockForLifetime(p) ==
    /\ p \notin told.held /\ account.lock = ""
    /\ account' = [account EXCEPT !.lock = p]
    /\ told' = [told EXCEPT !.held = @ \cup {p}]
    /\ UNCHANGED call

\* The release does not wait for an update that relies on the lock.
release(p) ==
    /\ p \in told.held
    /\ account' = [account EXCEPT !.lock = ""]
    /\ told' = [told EXCEPT !.held = @ \ {p},
                            !.overlap = @ \/ \E t \in Threads : ProcOf[t] = p /\ call[t].at # "idle" /\ ~call[t].flock]
    /\ UNCHANGED call

\* Mutant: goroutines of a process that holds the flock need no mutex.
Update_NoMutex(t) ==
    /\ call[t] = Idle /\ t \notin told.acked \cup told.refused
    /\ told' = told
    /\ call' = [call EXCEPT ![t].at = IF ProcOf[t] \in told.held THEN "read" ELSE "lock"]
    /\ UNCHANGED account

\* Update takes the mutex, and the flock unless the process holds it.
Update(t) ==
    /\ call[t] = Idle /\ t \notin told.acked \cup told.refused
    /\ told.mu[ProcOf[t]] = ""
    /\ told' = [told EXCEPT !.mu[ProcOf[t]] = t]
    /\ call' = [call EXCEPT ![t].at = IF ProcOf[t] \in told.held THEN "read" ELSE "lock"]
    /\ UNCHANGED account

lock(t) ==
    /\ call[t].at = "lock" /\ account.lock = ""
    /\ account' = [account EXCEPT !.lock = ProcOf[t]]
    /\ call' = [call EXCEPT ![t].at = "read", ![t].flock = TRUE]
    /\ UNCHANGED told

readFromDisk(t) ==
    /\ call[t].at = "read"
    /\ call' = [call EXCEPT ![t].at = "write", ![t].seen = account.file]
    /\ UNCHANGED <<account, told>>

\* The deferred unlocks.
Unlocked(t) == IF call[t].flock THEN [account EXCEPT !.lock = ""] ELSE account

Freed(t) == [told EXCEPT !.mu[ProcOf[t]] = ""]

\* The callback, or a step before the rename, fails: nothing was written.
fnFails(t) ==
    /\ call[t].at = "write"
    /\ account' = Unlocked(t)
    /\ told' = [Freed(t) EXCEPT !.refused = @ \cup {t}]
    /\ call' = [call EXCEPT ![t] = Idle]

\* The temporary file is synced before it is renamed.
TempSynced == TRUE

writeToDisk(t) ==
    /\ call[t].at = "write"
    /\ account' = [account EXCEPT !.before = account.file, !.file = call[t].seen \cup {t}, !.synced = TempSynced]
    /\ call' = [call EXCEPT ![t].at = "unlock"]
    /\ UNCHANGED told

unlock(t) ==
    /\ call[t].at = "unlock"
    /\ account' = Unlocked(t)
    /\ told' = [Freed(t) EXCEPT !.acked = @ \cup {t}]
    /\ call' = [call EXCEPT ![t] = Idle]

\* The directory entry reaches the disk some time after the rename.
entryFlushed ==
    /\ account.before # account.file
    /\ account' = [account EXCEPT !.before = account.file, !.synced = TRUE]
    /\ UNCHANGED <<call, told>>

\* A process is killed: its locks go with it, what it renamed stays.
killed(p) ==
    /\ account' = [account EXCEPT !.lock = IF @ = p THEN "" ELSE @]
    /\ call' = [t \in Threads |-> IF ProcOf[t] = p THEN Idle ELSE call[t]]
    /\ told' = [told EXCEPT !.held = @ \ {p}, !.mu[p] = "",
                    !.refused = @ \cup {t \in Threads : ProcOf[t] = p /\ call[t] # Idle}]

powerLost ==
    /\ account' \in {[account EXCEPT !.file = account.before, !.lock = ""],
                     [account EXCEPT !.torn = ~account.synced, !.before = account.file, !.lock = ""]}
    /\ call' = [t \in Threads |-> Idle]
    /\ told' = [told EXCEPT !.held = {}, !.mu = [p \in Procs |-> ""], !.acked = @ \cap account'.file,
                    !.refused = @ \cup {t \in Threads : call[t] # Idle} \cup (told.acked \ account'.file)]

fsNext ==
    \/ \E p \in Procs : LockForLifetime(p) \/ release(p) \/ killed(p)
    \/ \E t \in Threads : Update(t) \/ lock(t) \/ readFromDisk(t) \/ fnFails(t) \/ writeToDisk(t) \/ unlock(t)
    \/ entryFlushed \/ powerLost

-----------------------------------------------------------------------------
\* No update that was acknowledged is overwritten by another goroutine's or
\* another process's, unless a lifetime lock was released in the middle of an
\* update that relied on it.
NoLostUpdate == told.overlap \/ told.acked \subseteq account.file

\* Whenever the machine loses power the file is whole: the old one or the new.
NeverTorn == ~account.torn

=============================================================================
