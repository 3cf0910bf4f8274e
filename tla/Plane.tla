------------------------------- MODULE Plane -------------------------------
(***************************************************************************)
(* The smaller state machines of the control plane side by side: the       *)
(* provider adapters, the state file, multi-node members, engines over     *)
(* SSH, staging and pins.  A behaviour runs one of them, the one that part *)
(* names; account, call and told are that machine's state.                 *)
(***************************************************************************)
EXTENDS Cases, Naturals

CONSTANTS
    MaxPods,   \* bound: pods, VMs, volumes or calls in one behaviour
    Procs,     \* the processes that share a state file
    Threads,   \* their goroutines
    ProcOf,    \* of each goroutine, its process
    Images,    \* what may be deployed over SSH
    Models     \* what may be pinned

ASSUME PlaneAssumption ==
    /\ MaxPods \in Nat
    /\ ProcOf \in [Threads -> Procs] /\ "" \notin Procs \cup Threads
    /\ "untracked" \notin Models

VARIABLES account, call, told

RP == INSTANCE RunPod
VA == INSTANCE Vast
LA == INSTANCE Lambda
FS == INSTANCE FileStore
MB == INSTANCE Members
SH == INSTANCE SshHost
ST == INSTANCE Staging
PN == INSTANCE Pins

vars == <<part, input, account, call, told>>

MachineInit ==
    /\ input = <<>>
    /\ \/ part = "runpod" /\ RP!rpInit
       \/ part = "vast" /\ VA!vaInit
       \/ part = "lambda" /\ LA!laInit
       \/ part = "store" /\ FS!fsInit
       \/ part = "members" /\ MB!mbInit
       \/ part = "host" /\ SH!shInit
       \/ part = "staging" /\ ST!stInit
       \/ part = "pins" /\ PN!pnInit

MachineNext ==
    /\ UNCHANGED <<part, input>>
    /\ \/ part = "runpod" /\ RP!rpNext
       \/ part = "vast" /\ VA!vaNext
       \/ part = "lambda" /\ LA!laNext
       \/ part = "store" /\ FS!fsNext
       \/ part = "members" /\ MB!mbNext
       \/ part = "host" /\ SH!shNext
       \/ part = "staging" /\ ST!stNext
       \/ part = "pins" /\ PN!pnNext

MachineSpec == MachineInit /\ [][MachineNext]_vars

\* Nothing RunPod rents escapes the records, whichever answer is lost: a pod is
\* named while it is rented, rented once and released with its deployment, and
\* staging, key writes and volumes leave behind what they report.
RunPodSafe ==
    part = "runpod" =>
        /\ RP!RentedIsNamed /\ RP!RentedOnce /\ RP!TerminatedIsReleased
        /\ RP!StagingIsHonest /\ RP!KeysKept /\ RP!VolumeWhereAsked

\* The phase of a RunPod deploy never goes back.
RunPodPhaseClimbs == [][part = "runpod" => RP!PhaseClimbs]_vars

\* Vast's errors are told apart: a dearer SKU is rented only after the cheaper
\* ones were seen without offers, a deploy is hopeless only on a dead host, a
\* destroyed one has no contract left that it knew of, and two daemons that
\* register one key both succeed.
VastSafe ==
    part = "vast" =>
        /\ VA!CheapestAvailable /\ VA!FatalOnlyIfDead
        /\ VA!TerminatedIsReleased /\ VA!KeyRaceIsWon

\* Lambda boots a VM with the key of the daemon that launched it, rents an
\* instance once, through a lost answer and a rename, and never calls a mounted
\* filesystem deleted.
LambdaSafe ==
    part = "lambda" => LA!BootsWithOurKey /\ LA!RentedOnce /\ LA!DeletedIsGone

\* No acknowledged update of the state file is overwritten, and the file is
\* whole whenever the machine loses power.
StoreSafe == part = "store" => FS!NoLostUpdate /\ FS!NeverTorn

\* A multi-node member holds all of its machines or none, a RUNNING deployment
\* has every member whole and served by rank 0, and a TERMINATED one pays for
\* no machine it knows to be its own.
MembersSafe ==
    part = "members" => MB!SpanAllOrNothing /\ MB!RunningIsWhole /\ MB!TeardownComplete

\* Over an SSH connection that may drop inside any command: RUNNING left the
\* engine asked for, TERMINATED left none, docker run finds its name free, and
\* a host with docker and sudo refuses no docker command.
HostSafe ==
    part = "host" =>
        SH!ServesWhatWasAsked /\ SH!DestroyedIsGone /\ SH!NameIsFree /\ SH!NeverDenied

\* A deploy is abandoned only on a measured stretch of slow download and never
\* once it loads; no download follows a load, and the phases recorded add up to
\* the deploy's time.
StagingSafe ==
    part = "staging" =>
        ST!AbortIsMeasured /\ ST!LoadingIsSpared /\ ST!DownloadIsOnce /\ ST!PhasesTile

\* A model the registry lists was staged on its volume, and a volume stays on
\* the registry while it is paid for, wherever a pin or an unpin is interrupted.
PinsSafe == part = "pins" => PN!PinnedIsStaged /\ PN!PinnedIsTracked

=============================================================================
