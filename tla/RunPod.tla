------------------------------- MODULE RunPod -------------------------------
(***************************************************************************)
(* The RunPod adapter (internal/provisioners/runpod) against the account   *)
(* it drives: renting a pod, launching an engine as a pod and waiting for  *)
(* it, terminating, staging a model with a throwaway pod, the account's    *)
(* key blob and its network volumes.                                       *)
(*                                                                         *)
(* Every API call is a step with its answer: ok, lost (RunPod acted and    *)
(* the answer never arrived), busy (a failure worth retrying), refused, or *)
(* empty (accepted without an id: no capacity).                            *)
(***************************************************************************)
EXTENDS EngineWait

CONSTANT MaxPods   \* bound: pods rented in one behaviour

VARIABLES
    account,  \* RunPod's side: pods ever created, keys, volumes
    call,     \* the adapter's call in progress
    told      \* what the control plane was told and recorded

rpVars == <<account, call, told>>

NoCall == [at |-> "idle", pod |-> 0, w |-> Waiting(TRUE), seen |-> {}]

\* A deployment on its own keeps the pod's id as its container; a replica of
\* several keeps it on its instance only.
Shapes == {"single", "slot"}

Unrecorded == [state |-> "PENDING", phase |-> "none", container |-> 0, provider |-> 0,
               shape |-> "single", does |-> "none", ssh |-> FALSE, result |-> "none"]

Pod(kind, lost) ==
    [kind |-> kind, lost |-> lost, gone |-> FALSE, host |-> FALSE, up |-> FALSE,
     serves |-> FALSE, ip |-> FALSE, log |-> "none", slip |-> FALSE]

rpInit ==
    /\ account = [pods |-> <<>>, keys |-> {"theirs", "iplane-old"},
                  vols |-> <<[name |-> "cache", region |-> "east"]>>, staged |-> FALSE]
    /\ call = NoCall
    /\ \E does \in {"deploy", "spawn", "stage", "key", "volume"}, sh \in Shapes :
           /\ does # "deploy" => sh = "single"
           /\ told = [Unrecorded EXCEPT !.does = does, !.shape = sh]

Alive(i) == i \in DOMAIN account.pods /\ ~account.pods[i].gone

\* POST /pods.
Created(kind, ans) ==
    IF ans \in {"ok", "lost"}
    THEN [account EXCEPT !.pods = Append(@, Pod(kind, ans = "lost"))] ELSE account

\* DELETE /pods/{id}: gone already is as good as done.
Removed(i, ans) ==
    IF Alive(i) /\ ans \in {"ok", "lost"} THEN [account EXCEPT !.pods[i].gone = TRUE] ELSE account

DeleteErr(i, ans) == IF ~Alive(i) THEN "ok" ELSE ans

(***************************************************************************)
(* Renting a machine: Spawn, WaitForSSHReady, Terminate.                   *)
(***************************************************************************)

\* Mutant: a filter on a tag that no pod carries.
List_ByOperator == {}

\* List, filtered on an instance's id: its pods are found by their names, the
\* only tag RunPod keeps; engine and staging pods are named after other things.
List == {i \in DOMAIN account.pods : Alive(i) /\ account.pods[i].kind = "vm"}

\* The Service looks before it rents: a machine of this id that RunPod still
\* runs (isActiveProviderState) is described and taken over.
Adopt ==
    /\ told.does = "spawn" /\ call.at = "idle" /\ told.state \in {"PENDING", "FAILED"}
    /\ \E i \in List : told' = [told EXCEPT !.state = "ACTIVE", !.provider = i]
    /\ UNCHANGED <<account, call>>

\* Spawn: POST, then GET for the full record.  The pod is recorded even when
\* the GET fails.
Spawn(ans) ==
    /\ told.does = "spawn" /\ call.at = "idle" /\ told.state \in {"PENDING", "FAILED"}
    /\ List = {} /\ Len(account.pods) < MaxPods
    /\ account' = Created("vm", ans)
    /\ IF ans = "ok" THEN /\ call' = [call EXCEPT !.at = "get", !.pod = Len(account.pods) + 1]
                          /\ UNCHANGED told
       ELSE /\ told' = [told EXCEPT !.state = "FAILED"]
            /\ UNCHANGED call

SpawnGet(ok) ==
    /\ call.at = "get"
    /\ told' = [told EXCEPT !.state = "ACTIVE", !.provider = call.pod,
                            !.ssh = ok /\ account.pods[call.pod].ip]
    /\ call' = [call EXCEPT !.at = "ssh"]
    /\ UNCHANGED account

\* WaitForSSHReady: until the pod has a public address and sshd answers on it;
\* a failed read, the caller's context or the deadline end the wait.
WaitForSSHReady(ans) ==
    /\ call.at = "ssh" /\ told.does = "spawn"
    /\ IF ans = "ok" /\ Alive(call.pod) /\ account.pods[call.pod].ip /\ account.pods[call.pod].up
       THEN told' = [told EXCEPT !.ssh = TRUE] /\ call' = NoCall
       ELSE \/ ans = "ok" /\ Alive(call.pod) /\ UNCHANGED <<told, call>>
            \/ UNCHANGED told /\ call' = NoCall
    /\ UNCHANGED account

Terminate(ans) ==
    /\ told.does = "spawn" /\ call.at = "idle" /\ told.state = "ACTIVE"
    /\ account' = Removed(told.provider, ans)
    /\ told' = [told EXCEPT !.state = IF DeleteErr(told.provider, ans) = "ok" THEN "TERMINATED" ELSE @]
    /\ UNCHANGED call

(***************************************************************************)
(* An engine as a pod: Deploy, its wait, Destroy.                          *)
(***************************************************************************)

\* The phases RunPod lets one tell apart.
Rungs == <<"scheduling", "image-pull", "init">>

enginePhaseOrdinal(p) == Ordinal(Rungs, p)

classifyEnginePhase(host, started) ==
    IF started THEN "init" ELSE IF host THEN "image-pull" ELSE "scheduling"

\* Where the pod's id is recorded.
Named(i) ==
    IF told.shape = "single" THEN [told EXCEPT !.container = i] ELSE [told EXCEPT !.provider = i]

\* Deploy up to the pod: a request that cannot be built, or is refused, fails.
Deploy(ans) ==
    /\ told.does = "deploy" /\ call.at = "idle" /\ told.state = "PENDING"
    /\ Len(account.pods) < MaxPods
    /\ account' = Created("engine", ans)
    /\ IF ans = "ok"
       THEN /\ told' = [Named(Len(account.pods) + 1) EXCEPT !.state = "CONFIGURING", !.phase = "scheduling"]
            /\ call' = [call EXCEPT !.at = "wait", !.pod = Len(account.pods) + 1]
       ELSE /\ told' = [told EXCEPT !.state = "FAILED"]
            /\ UNCHANGED call

\* probeEnginePhase: v1 says whether there is a host, v2 whether the container
\* runs; a v1 read that fails keeps the phase, one that comes back bare shows
\* no host, a v2 read that fails reads as not started.
probeEnginePhase(pod, phase, v1, v2) ==
    IF enginePhaseOrdinal(phase) >= 3 \/ v1 = "error" THEN phase
    ELSE classifyEnginePhase(pod.host /\ v1 = "ok", pod.up /\ v2)

\* waitForEngineReady: the proxy address is known from the start.  The observer
\* of the deploy's phases passes over an empty one.
waitForEngineReady(v1, v2) ==
    LET pod == account.pods[call.pod]
        obs == Observation(TRUE, probeEnginePhase(pod, call.w.phase, IF pod.gone THEN "error" ELSE v1, v2), FALSE)
        w   == Tick(call.w, obs, pod.serves /\ ~pod.gone, Rungs)
    IN  /\ call.at = "wait"
        /\ IF w.out = "ready"
           THEN /\ told' = [told EXCEPT !.state = "RUNNING", !.phase = "serving"]
                /\ call' = NoCall
           ELSE /\ told' = [told EXCEPT !.phase = IF w.phase = "none" THEN @ ELSE w.phase]
                /\ call' = [call EXCEPT !.w = w]
        /\ UNCHANGED account

\* The deadline passes, or the caller goes away.  The pod is left as it is.
waitGivenUp ==
    /\ call.at = "wait" /\ told.does = "deploy"
    /\ told' = [told EXCEPT !.state = "FAILED"]
    /\ call' = NoCall
    /\ UNCHANGED account

\* The pod a destroy is about.
destroyedPod == IF told.container # 0 THEN told.container ELSE told.provider

\* Destroy: a failure worth retrying leaves the deployment TERMINATING.
Destroy(ans) ==
    /\ told.does = "deploy" /\ call.at = "idle"
    /\ told.state \in {"RUNNING", "FAILED", "TERMINATING"}
    /\ account' = Removed(destroyedPod, ans)
    /\ told' = [told EXCEPT !.state =
           CASE destroyedPod = 0 \/ DeleteErr(destroyedPod, ans) = "ok" -> "TERMINATED"
             [] destroyedPod # 0 /\ DeleteErr(destroyedPod, ans) \in {"lost", "busy"} -> "TERMINATING"
             [] OTHER -> "FAILED"]
    /\ UNCHANGED call

(***************************************************************************)
(* Staging a model: a throwaway pod, its log, and its end.                 *)
(***************************************************************************)

StageModel(ans) ==
    /\ told.does = "stage" /\ call.at = "idle" /\ Len(account.pods) < MaxPods
    /\ account' = Created("stage", ans)
    /\ told' = [told EXCEPT !.result = IF ans \in {"ok", "empty"} THEN "none" ELSE "error"]
    /\ call' = IF ans \in {"ok", "empty"}
               THEN [call EXCEPT !.at = "stage", !.pod = IF ans = "ok" THEN Len(account.pods) + 1 ELSE 0]
               ELSE call

\* stageSignal: the pod reports its own outcome.
stageSignal(log) == CASE log = "fail" -> "error" [] log = "done" -> "staged" [] OTHER -> "none"

\* waitForStageComplete: a log that cannot be read is read again, until the
\* deadline or the caller ends the wait.
waitForStageComplete(readable) ==
    LET sig == IF readable /\ Alive(call.pod) THEN stageSignal(account.pods[call.pod].log) ELSE "none"
    IN  /\ call.at = "stage"
        /\ \/ /\ sig # "none" /\ told' = [told EXCEPT !.result = sig]
           \/ /\ sig = "none" /\ told' = [told EXCEPT !.result = "error"]
        /\ call' = [call EXCEPT !.at = "cleanup"]
        /\ UNCHANGED account

\* The deferred Terminate, whose error nobody sees.
StageEnds(ans) ==
    /\ call.at = "cleanup"
    /\ account' = IF Alive(call.pod) /\ ans \notin {"ok", "lost"}
                  THEN [account EXCEPT !.pods[call.pod].slip = TRUE] ELSE Removed(call.pod, ans)
    /\ call' = NoCall
    /\ UNCHANGED told

(***************************************************************************)
(* The account's keys, one blob read and written whole, and its volumes.   *)
(***************************************************************************)

Own == "iplane-own"

\* What survives: every line that is not iplane's, and our own.
keptKeys(blob) == {k \in blob : k \notin {"iplane-old"}}

EnsurePublicKey(ok) ==
    /\ told.does = "key" /\ call.at = "idle"
    /\ IF ~ok THEN told' = [told EXCEPT !.result = "error"] /\ UNCHANGED <<call, account>>
       ELSE IF Own \in account.keys /\ keptKeys(account.keys) = account.keys
       THEN /\ told' = [told EXCEPT !.result = "keyed"]
            /\ call' = [call EXCEPT !.seen = account.keys]
            /\ UNCHANGED account
       ELSE /\ call' = [call EXCEPT !.at = "key", !.seen = account.keys]
            /\ told' = [told EXCEPT !.result = "none"]
            /\ UNCHANGED account

updatePubKeyBlob(ans) ==
    /\ call.at = "key"
    /\ account' = IF ans \in {"ok", "lost"} THEN [account EXCEPT !.keys = keptKeys(call.seen) \cup {Own}]
                  ELSE account
    /\ told' = [told EXCEPT !.result = IF ans = "ok" THEN "keyed" ELSE "error"]
    /\ call' = [call EXCEPT !.at = "idle"]

sameVolume(v, region) == v.name = "models" /\ v.region = region

\* EnsureVolume: found by name and region, or created; a lost answer is found
\* by the next call.
EnsureVolume(region, ans) ==
    LET found == \E k \in DOMAIN account.vols : sameVolume(account.vols[k], region) IN
    /\ told.does = "volume" /\ call.at = "idle" /\ Len(account.vols) < 4
    /\ account' = IF found \/ ans \notin {"ok", "lost"} THEN account
                  ELSE [account EXCEPT !.vols = Append(@, [name |-> "models", region |-> region])]
    /\ told' = [told EXCEPT !.result = IF found \/ ans = "ok" THEN region ELSE "error"]
    /\ UNCHANGED call

DeleteVolume(ok) ==
    /\ told.does = "volume" /\ call.at = "idle" /\ account.vols # <<>> /\ ok
    /\ account' = [account EXCEPT !.vols = Tail(@)]
    /\ told' = [told EXCEPT !.result = "none"]
    /\ UNCHANGED call

(***************************************************************************)
(* RunPod's own doing: a pod gets a host, an address, a container, an      *)
(* engine that serves; it may vanish; someone else edits the key blob.     *)
(***************************************************************************)
podAdvances(i) ==
    LET p == account.pods[i] IN
    /\ Alive(i)
    /\ account' = [account EXCEPT !.pods[i] =
           IF ~p.host THEN [p EXCEPT !.host = TRUE]
           ELSE IF ~p.up THEN [p EXCEPT !.up = TRUE, !.ip = p.kind = "vm"]
           ELSE [p EXCEPT !.serves = p.kind = "engine"]]
    /\ UNCHANGED <<call, told>>

stagePodWorks(i, mark) ==
    /\ Alive(i) /\ account.pods[i].kind = "stage" /\ account.pods[i].up /\ account.pods[i].log = "none"
    /\ account' = [account EXCEPT !.pods[i].log = mark, !.staged = @ \/ mark = "done"]
    /\ UNCHANGED <<call, told>>

podVanishes(i) ==
    /\ Alive(i) /\ told.does # "stage"
    /\ account' = [account EXCEPT !.pods[i].gone = TRUE]
    /\ UNCHANGED <<call, told>>

keysEdited ==
    /\ told.does = "key"
    /\ account' = [account EXCEPT !.keys = @ \cup {"added"}]
    /\ UNCHANGED <<call, told>>

Answers == {"ok", "lost", "busy", "refused"}

rpNext ==
    \/ \E ans \in Answers \cup {"empty"} : Spawn(ans) \/ Deploy(ans) \/ StageModel(ans)
    \/ \E ans \in Answers : Terminate(ans) \/ Destroy(ans) \/ StageEnds(ans) \/ updatePubKeyBlob(ans)
    \/ \E ok \in BOOLEAN : SpawnGet(ok) \/ EnsurePublicKey(ok) \/ waitForStageComplete(ok)
                           \/ DeleteVolume(ok)
                           \/ \E v1 \in {"ok", "bare", "error"} : waitForEngineReady(v1, ok)
    \/ \E ans \in {"ok", "busy"} : WaitForSSHReady(ans)
    \/ \E region \in {"east", "west"}, ans \in Answers : EnsureVolume(region, ans)
    \/ waitGivenUp \/ Adopt
    \/ \E i \in 1..MaxPods : podAdvances(i) \/ podVanishes(i)
                             \/ \E mark \in {"done", "fail"} : stagePodWorks(i, mark)
    \/ keysEdited

-----------------------------------------------------------------------------
(***************************************************************************)
(* Properties.                                                             *)
(***************************************************************************)

\* A pod whose creation was answered is named on a record for as long as it
\* is rented, whatever failed after it.
RentedIsNamed ==
    \A i \in DOMAIN account.pods :
        (Alive(i) /\ account.pods[i].kind # "stage" /\ ~account.pods[i].lost)
            => i \in {told.container, told.provider, call.pod}

\* An instance is never rented twice, even when the answer to the first
\* request was lost and the operator asked again.
RentedOnce ==
    \A i, j \in {k \in DOMAIN account.pods : Alive(k) /\ account.pods[k].kind = "vm"} : i = j

\* A deployment recorded TERMINATED has no pod left that it knew of.
TerminatedIsReleased ==
    told.state = "TERMINATED" =>
        \A i \in DOMAIN account.pods : Alive(i) => account.pods[i].lost

\* The reported phase never goes back, whichever status reads fail.
PhaseClimbs ==
    (told.phase # "serving" /\ told'.phase # "serving") =>
        enginePhaseOrdinal(told'.phase) >= enginePhaseOrdinal(told.phase)

\* StageModel says staged only of a model that is on the volume, and leaves a
\* staging pod running only if its termination failed or its creation was lost.
StagingIsHonest ==
    /\ told.result = "staged" => account.staged
    /\ (told.does = "stage" /\ call.at = "idle") =>
           \A i \in DOMAIN account.pods : Alive(i) => account.pods[i].lost \/ account.pods[i].slip

\* Registering our key keeps every key of somebody else that was read with
\* the blob.  (One added between the read and the write is lost: the account
\* offers no conditional write.)
KeysKept ==
    told.result = "keyed" => (call.seen \ {"iplane-old"}) \cup {Own} \subseteq account.keys

\* A volume handed out is in the region asked for, and no region gets two.
VolumeWhereAsked ==
    /\ told.result \in {"east", "west"} =>
           \E k \in DOMAIN account.vols : account.vols[k] = [name |-> "models", region |-> told.result]
    /\ \A j, k \in DOMAIN account.vols : account.vols[j] = account.vols[k] => j = k

=============================================================================
