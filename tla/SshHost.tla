------------------------------ MODULE SshHost ------------------------------
(***************************************************************************)
(* The deploy path of the providers that rent a bare machine               *)
(* (internal/deployments/sshdocker): the executor dials the machine,       *)
(* inspects the container the deployment is named after and replaces it    *)
(* when it is not the one asked for, with docker commands run over SSH.    *)
(*                                                                         *)
(* The connection can be lost at any command, before the machine ran it or *)
(* after; the engine can stop by itself.  A deploy or destroy that failed  *)
(* is asked for again.                                                     *)
(***************************************************************************)
EXTENDS Integers, FiniteSets

CONSTANTS MaxPods,   \* bound: one more than this many calls
          Images

VARIABLES account,   \* the machine
          call,      \* the running Deploy or Destroy
          told       \* the last outcome, and the calls so far

shVars == <<account, call, told>>

Idle == [op |-> "", at |-> "idle", image |-> ""]

\* user: the SSH user is root, has passwordless sudo, or neither.  docker: it
\* is installed, apt could install it, or neither.  The containers are none or
\* one; an agent belongs to the engine it was started beside.
shInit ==
    /\ account \in [user : {"root", "sudo", "plain"}, docker : {"yes", "apt", "no"}, engine : {<<>>}, agent : {<<>>}]
    /\ call = Idle
    /\ told = [result |-> "", image |-> "", calls |-> 0]

\* resolveElevation, before the first docker command of any call: the daemon
\* answers the user, or answers through sudo, or the command is refused.
resolveElevation(host) == host.user \in {"root", "sudo"}

\* SSHRunner.Run and Docker.run: what a docker command can leave and answer.
dockerRun(after, out) ==
    IF account.docker # "yes" \/ ~resolveElevation(account) THEN {[host |-> account, out |-> "denied"]}
    ELSE {[host |-> account, out |-> "lost"], [host |-> after, out |-> "lost"], [host |-> after, out |-> out]}

\* failed: every error ends the call with the state FAILED.
Ends(result) ==
    /\ call' = Idle
    /\ told' = [told EXCEPT !.result = result, !.image = call.image]

\* A command of the call and where it leads.
Step(at, answers, next) ==
    /\ call.at = at
    /\ \E a \in answers :
          /\ account' = a.host
          /\ IF a.out = "ok" THEN call' = [call EXCEPT !.at = next] /\ UNCHANGED told ELSE Ends(a.out)

Deploy(image) ==
    /\ call = Idle /\ told.calls <= MaxPods
    /\ call' = [op |-> "deploy", at |-> "dial", image |-> image]
    /\ told' = [told EXCEPT !.result = "", !.calls = @ + 1]
    /\ UNCHANGED account

Destroy ==
    /\ call = Idle /\ told.calls <= MaxPods
    /\ call' = [op |-> "destroy", at |-> "dial", image |-> ""]
    /\ told' = [told EXCEPT !.result = "", !.calls = @ + 1]
    /\ UNCHANGED account

\* SSHDial retries the handshake for its window; in the end it connects or not.
SSHDial ==
    Step("dial", {[host |-> account, out |-> o] : o \in {"ok", "unreachable"}},
         IF call.op = "deploy" THEN "ensure" ELSE "stop agent")

\* EnsureInstalled: docker is there, or root installs it.
EnsureInstalled ==
    Step("ensure",
         IF account.docker = "yes" THEN {[host |-> account, out |-> o] : o \in {"ok", "lost"}}
         ELSE IF account.docker = "apt" /\ account.user = "root"
         THEN {[host |-> [account EXCEPT !.docker = "yes"], out |-> o] : o \in {"ok", "lost"}}
         ELSE {[host |-> account, out |-> "no docker"]},
         "inspect")

\* ContainerState.Matches: running, with the image and model asked for.
Matches(c) == c # <<>> /\ c[1].running /\ c[1].image = call.image

Drifted(c) == c # <<>> /\ ~Matches(c)

\* Inspect, then the drift decision.
Inspect ==
    Step("inspect", dockerRun(account, "ok"),
         IF Matches(account.engine) THEN "health" ELSE IF Drifted(account.engine) THEN "stop" ELSE "pull")

\* Stop and Remove take a missing container for done.
StoppedEngine == [account EXCEPT !.engine = IF @ = <<>> THEN @ ELSE <<[@[1] EXCEPT !.running = FALSE]>>]

Stop == Step("stop", dockerRun(StoppedEngine, "ok"), "remove")

\* Mutant: a destroy takes an answer that was lost for done.
Remove_Lost ==
    /\ call.at = "remove"
    /\ \E a \in dockerRun([account EXCEPT !.engine = <<>>], "ok") :
          /\ account' = a.host
          /\ IF call.op = "destroy" THEN Ends("TERMINATED")
             ELSE IF a.out # "ok" THEN Ends(a.out)
             ELSE call' = [call EXCEPT !.at = "pull"] /\ UNCHANGED told

Remove ==
    /\ call.at = "remove"
    /\ \E a \in dockerRun([account EXCEPT !.engine = <<>>], "ok") :
          /\ account' = a.host
          /\ IF a.out # "ok" THEN Ends(a.out)
             ELSE IF call.op = "deploy" THEN call' = [call EXCEPT !.at = "pull"] /\ UNCHANGED told
             ELSE Ends("TERMINATED")

\* Pull fails for an image there is none of, too.
Pull == Step("pull", dockerRun(account, "ok") \cup {[host |-> account, out |-> "no image"]}, "run")

\* Run: a name in use is refused by docker.
Run ==
    Step("run", IF account.engine # <<>> THEN dockerRun(account, "name in use")
                ELSE dockerRun([account EXCEPT !.engine = <<[image |-> call.image, running |-> TRUE]>>], "ok"),
         "agent")

\* RunAgent: best effort; an agent left from before keeps its name.
RunAgent ==
    /\ call.at = "agent"
    /\ \E host \in {account, [account EXCEPT !.agent = IF @ = <<>> THEN account.engine ELSE @]} : account' = host
    /\ call' = [call EXCEPT !.at = "health"]
    /\ UNCHANGED told

\* pollHealth, to the first 2xx or the deadline; an engine that stopped by
\* itself is never healthy.
pollHealth ==
    /\ call.at = "health" /\ UNCHANGED account
    /\ \/ account.engine # <<>> /\ account.engine[1].running /\ Ends("RUNNING")
       \/ Ends("FAILED")

\* StopAgent: its errors are ignored.
StopAgent ==
    /\ call.at = "stop agent"
    /\ \E host \in {account, [account EXCEPT !.agent = <<>>]} : account' = host
    /\ call' = [call EXCEPT !.at = "stop"]
    /\ UNCHANGED told

\* The engine exits; docker restarts it at its own time.
EngineExits ==
    /\ account.engine # <<>> /\ account.engine[1].running
    /\ account' = StoppedEngine
    /\ UNCHANGED <<call, told>>

EngineRestarts ==
    /\ account.engine # <<>> /\ ~account.engine[1].running /\ call = Idle
    /\ account' = [account EXCEPT !.engine = <<[@[1] EXCEPT !.running = TRUE]>>]
    /\ UNCHANGED <<call, told>>

shNext ==
    \/ \E i \in Images : Deploy(i)
    \/ Destroy \/ SSHDial \/ EnsureInstalled \/ Inspect \/ Stop \/ Remove \/ Pull \/ Run \/ RunAgent
    \/ pollHealth \/ StopAgent \/ EngineExits \/ EngineRestarts

(***************************************************************************)
(* What must hold.                                                         *)
(***************************************************************************)

\* A deploy that reported RUNNING left the engine it was asked for on the
\* machine, whatever was there and wherever earlier calls were cut off.
ServesWhatWasAsked ==
    told.result = "RUNNING" => account.engine # <<>> /\ account.engine[1].image = told.image

\* A destroy that reported TERMINATED left no engine on the machine.
DestroyedIsGone == told.result = "TERMINATED" => account.engine = <<>>

\* docker run never meets a container of its own name: what an earlier call
\* left behind, running or not, was found and removed first.
NameIsFree == call.at = "run" => account.engine = <<>>

\* A machine with docker and sudo never refuses a docker command: teardown
\* reaches the daemon the same way the deploy did.
NeverDenied == told.result = "denied" => account.user = "plain" \/ account.docker # "yes"
=============================================================================
