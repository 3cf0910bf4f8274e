-------------------------------- MODULE Vast --------------------------------
(***************************************************************************)
(* The Vast.ai adapter (internal/provisioners/vast) against its            *)
(* marketplace: searching the SKUs in order, renting the offer found,      *)
(* launching an engine as a contract and waiting for it, terminating, and  *)
(* the account's keys.                                                     *)
(*                                                                         *)
(* Every API call is a step with its answer: ok, lost (Vast acted and the  *)
(* answer never arrived), or refused.                                      *)
(***************************************************************************)
EXTENDS EngineWait

CONSTANT MaxPods   \* bound: contracts rented in one behaviour

VARIABLES
    account,  \* Vast's side: what is on offer, contracts ever made, keys
    call,     \* the adapter's call in progress
    told      \* what the control plane was told and recorded

vaVars == <<account, call, told>>

\* The SKUs a request resolved to, cheapest tier first.
Skus == 1..2

NoCall == [at |-> "idle", sku |-> 1, empty |-> {}, contract |-> 0, w |-> Waiting(FALSE),
           keys |-> <<>>, failed |-> FALSE]

Unrecorded == [does |-> "none", shape |-> "single", state |-> "PENDING", phase |-> "none", container |-> 0,
               provider |-> 0, ssh |-> FALSE, logs |-> FALSE, fatal |-> 0, result |-> "none"]

\* A contract as the API shows it.  The host's message is kept as the kinds of
\* phrases it contains; dead is what the host knows and only the message tells.
apiInstance(kind, sku, lost) ==
    [kind |-> kind, sku |-> sku, lost |-> lost, gone |-> FALSE, status |-> "created", msg |-> {},
     addr |-> FALSE, serves |-> FALSE, dead |-> FALSE]

vaInit ==
    /\ account = [offers |-> [s \in Skus |-> TRUE], contracts |-> <<>>, keys |-> <<"theirs">>]
    /\ call = NoCall
    /\ told \in {[Unrecorded EXCEPT !.does = d, !.shape = sh] :
                    d \in {"deploy", "spawn", "key"}, sh \in {"single", "slot"}}
    /\ told.does # "deploy" => told.shape = "single"

Alive(i) == i \in DOMAIN account.contracts /\ ~account.contracts[i].gone

Fails(why) ==
    /\ told' = [told EXCEPT !.state = "FAILED", !.result = why]
    /\ call' = NoCall

(***************************************************************************)
(* Search, then rent.                                                      *)
(***************************************************************************)

\* The statuses a listed contract is taken over in.
isActiveProviderState(status) == status \in {"loading", "running", "scheduling", "created"}

mapVastState(status) ==
    CASE status \in {"running", "stopped"}    -> "ACTIVE"
      [] status \in {"exited", "terminated"}  -> "TERMINATED"
      [] status \in {"offline", "failed"}     -> "FAILED"
      [] OTHER                                -> "PENDING"

\* List, filtered on an instance's id: a contract carries one label, and an
\* engine's is its deployment's.
List == {i \in DOMAIN account.contracts : Alive(i) /\ account.contracts[i].kind = "vm"}

Adopt ==
    /\ told.does = "spawn" /\ call.at = "idle" /\ told.provider = 0
    /\ \E i \in List : /\ isActiveProviderState(account.contracts[i].status)
                       /\ told' = [told EXCEPT !.provider = i, !.state = mapVastState(account.contracts[i].status)]
    /\ UNCHANGED <<account, call>>

\* Spawn, and Deploy of an image that names its entrypoint: the search begins.
Begin ==
    /\ call.at = "idle"
    /\ \/ /\ told.does = "spawn" /\ told.provider = 0
          /\ ~\E i \in List : isActiveProviderState(account.contracts[i].status)
       \/ told.does = "deploy" /\ told.state = "PENDING"
    /\ Len(account.contracts) < MaxPods
    /\ call' = [call EXCEPT !.at = "find"]
    /\ told' = [told EXCEPT !.state = "PENDING", !.result = "none"]
    /\ UNCHANGED account

\* Mutant: a search that failed is one that found nothing.
findAnyOffer_Skips(ok) ==
    /\ call.at = "find"
    /\ IF ok /\ account.offers[call.sku]
       THEN call' = [call EXCEPT !.at = "rent"] /\ UNCHANGED told
       ELSE IF call.sku + 1 \in Skus
       THEN call' = [call EXCEPT !.sku = @ + 1, !.empty = IF ok THEN @ \cup {call.sku} ELSE @] /\ UNCHANGED told
       ELSE Fails("no rentable offer")
    /\ UNCHANGED account

\* findAnyOffer: the first SKU with an offer; a search that fails ends it.
findAnyOffer(ok) ==
    /\ call.at = "find"
    /\ IF ~ok THEN Fails("search")
       ELSE IF account.offers[call.sku]
       THEN call' = [call EXCEPT !.at = "rent"] /\ UNCHANGED told
       ELSE IF call.sku + 1 \in Skus
       THEN call' = [call EXCEPT !.sku = @ + 1, !.empty = @ \cup {call.sku}] /\ UNCHANGED told
       ELSE Fails("no rentable offer")
    /\ UNCHANGED account

\* Where the contract's id is recorded.
Named(i) ==
    IF told.shape = "single" THEN [told EXCEPT !.container = i] ELSE [told EXCEPT !.provider = i]

\* rentOffer and rentEngine: the offer may have been taken since the search.
rent(ans) ==
    LET i    == Len(account.contracts) + 1
        made == account.offers[call.sku] /\ ans \in {"ok", "lost"}
        kind == IF told.does = "spawn" THEN "vm" ELSE "engine"
    IN  /\ call.at = "rent"
        /\ account' = IF made THEN [account EXCEPT !.offers[call.sku] = FALSE,
                                        !.contracts = Append(@, apiInstance(kind, call.sku, ans = "lost"))]
                      ELSE account
        /\ IF made /\ ans = "ok"
           THEN /\ call' = [call EXCEPT !.contract = i, !.at = IF told.does = "spawn" THEN "get" ELSE "wait"]
                /\ told' = IF told.does = "spawn" THEN told
                           ELSE [Named(i) EXCEPT !.state = "CONFIGURING", !.phase = "scheduling"]
           ELSE Fails("rent")

\* The record is fetched after the rent; without it the instance is recorded
\* all the same, as pending.
describeContract(ok) ==
    /\ call.at = "get"
    /\ told' = [told EXCEPT !.provider = call.contract,
           !.state = IF ok /\ Alive(call.contract) THEN mapVastState(account.contracts[call.contract].status)
                     ELSE "PENDING"]
    /\ call' = [call EXCEPT !.at = "ssh"]
    /\ UNCHANGED account

\* WaitForSSHReady: a failed read is no verdict; only the deadline or the
\* caller ends the wait without an address that answers.
WaitForSSHReady(ok) ==
    /\ call.at = "ssh"
    /\ \/ /\ ok /\ Alive(call.contract) /\ account.contracts[call.contract].addr
          /\ told' = [told EXCEPT !.ssh = TRUE]
       \/ UNCHANGED told
    /\ call' = NoCall
    /\ UNCHANGED account

\* Terminate: gone already is as good as done, any other failure is told.
TerminateErr(i, ans) == Alive(i) /\ ans # "ok"

Removed(i, ans) ==
    IF Alive(i) /\ ans \in {"ok", "lost"} THEN [account EXCEPT !.contracts[i].gone = TRUE] ELSE account

Terminate(ans) ==
    /\ told.does = "spawn" /\ call.at = "idle" /\ told.provider # 0 /\ told.state # "TERMINATED"
    /\ account' = Removed(told.provider, ans)
    /\ told' = [told EXCEPT !.state = IF TerminateErr(told.provider, ans) THEN @ ELSE "TERMINATED"]
    /\ UNCHANGED call

(***************************************************************************)
(* The wait for an engine.                                                 *)
(***************************************************************************)
Rungs == <<"scheduling", "image-pull", "init">>

enginePhaseOrdinal(p) == Ordinal(Rungs, p)

classifyEnginePhase(status, endpoint) ==
    CASE endpoint \/ status = "running" -> "init"
      [] ~endpoint /\ status = "loading" -> "image-pull"
      [] OTHER -> "scheduling"

\* terminalHostFailure: a message that speaks of progress is no failure, even
\* when it also quotes an error.
terminalHostFailure(msg) == "transient" \notin msg /\ "terminal" \in msg

\* TerminalFailure asks again; a failed read is no verdict.
TerminalFailure(c, ok) == ok /\ terminalHostFailure(c.msg)

\* endpointFromInstance: the host's address and the mapped port.
endpointFromInstance(c) == c.addr

\* What one tick sees: a record that cannot be read is progress, not a death.
observe(c, ok, again) ==
    IF ~ok \/ c.gone THEN Observation(FALSE, "scheduling", FALSE)
    ELSE IF TerminalFailure(c, again) THEN Observation(FALSE, "none", TRUE)
    ELSE Observation(endpointFromInstance(c), classifyEnginePhase(c.status, c.addr), FALSE)

\* instanceLogs: what the container printed, while there is a container.
instanceLogs(i) == Alive(i)

waitForEngineReady(ok, again) ==
    LET c == account.contracts[call.contract]
        w == Tick(call.w, observe(c, ok, again), c.serves /\ ~c.gone, Rungs)
    IN  /\ call.at = "wait"
        /\ CASE w.out = "ready" ->
                  told' = [told EXCEPT !.state = "RUNNING", !.phase = "serving"] /\ call' = NoCall
             [] w.out = "fatal" ->
                  /\ told' = [told EXCEPT !.state = "FAILED", !.fatal = call.contract,
                                          !.logs = instanceLogs(call.contract)]
                  /\ call' = NoCall
             [] w.out = "wait" ->
                  told' = [told EXCEPT !.phase = w.phase] /\ call' = [call EXCEPT !.w = w]
        /\ UNCHANGED account

\* The deadline or the caller ends the wait.
waitGivenUp ==
    /\ call.at = "wait"
    /\ told' = [told EXCEPT !.state = "FAILED", !.logs = instanceLogs(call.contract)]
    /\ call' = NoCall
    /\ UNCHANGED account

\* Destroy: the contract is on the deployment or, for a slot, on its instance.
\* A termination that fails leaves the deployment FAILED.
Destroy(ans) ==
    LET i == IF told.container # 0 THEN told.container ELSE told.provider IN
    /\ told.does = "deploy" /\ call.at = "idle" /\ told.state \in {"RUNNING", "FAILED"}
    /\ account' = Removed(i, ans)
    /\ told' = [told EXCEPT !.state = IF TerminateErr(i, ans) THEN "FAILED" ELSE "TERMINATED"]
    /\ UNCHANGED call

(***************************************************************************)
(* Keys: listed, then added one at a time.                                 *)
(***************************************************************************)
Own == "iplane"

listSSHKeys(ok) ==
    /\ told.does = "key" /\ call.at = "idle"
    /\ IF ~ok THEN told' = [told EXCEPT !.result = "error"] /\ call' = [call EXCEPT !.failed = TRUE]
       ELSE /\ told' = [told EXCEPT !.result = IF Own \in {account.keys[k] : k \in DOMAIN account.keys}
                                               THEN "keyed" ELSE "none"]
            /\ call' = IF Own \in {account.keys[k] : k \in DOMAIN account.keys} THEN NoCall
                       ELSE [NoCall EXCEPT !.at = "key"]
    /\ UNCHANGED account

\* The POST is refused because another daemon registered the key meanwhile.
isDuplicateKeyErr(present) == present

EnsurePublicKey(ans) ==
    LET present == Own \in {account.keys[k] : k \in DOMAIN account.keys} IN
    /\ call.at = "key"
    /\ account' = IF ~present /\ ans \in {"ok", "lost"} THEN [account EXCEPT !.keys = Append(@, Own)] ELSE account
    /\ told' = [told EXCEPT !.result =
           IF ans = "ok" /\ (present => isDuplicateKeyErr(present)) THEN "keyed" ELSE "error"]
    /\ call' = [NoCall EXCEPT !.failed = ans # "ok"]

(***************************************************************************)
(* Vast's own doing.                                                       *)
(***************************************************************************)
marketMoves(s) ==
    /\ call.at \in {"find", "rent"}
    /\ account' = [account EXCEPT !.offers[s] = ~@]
    /\ UNCHANGED <<call, told>>

\* The host pulls the image, quoting errors it retries, and starts the engine.
hostWorks(i) ==
    LET c == account.contracts[i] IN
    /\ Alive(i) /\ ~c.dead
    /\ \E d \in {[c EXCEPT !.status = "loading", !.msg = {"transient"}],
                 [c EXCEPT !.status = "loading", !.msg = {"transient", "terminal"}],
                 [c EXCEPT !.status = "running", !.msg = {}, !.addr = TRUE],
                 [c EXCEPT !.serves = c.kind = "engine"]} :
           /\ d.serves => d.addr
           /\ c.addr => d.addr /\ d.status = "running"
           /\ account' = [account EXCEPT !.contracts[i] = d]
    /\ UNCHANGED <<call, told>>

hostDies(i) ==
    /\ Alive(i) /\ ~account.contracts[i].addr
    /\ account' = [account EXCEPT !.contracts[i].dead = TRUE, !.contracts[i].msg = {"terminal"}]
    /\ UNCHANGED <<call, told>>

contractEnds(i) ==
    /\ Alive(i)
    /\ account' = [account EXCEPT !.contracts[i].gone = TRUE]
    /\ UNCHANGED <<call, told>>

otherDaemon ==
    /\ call.at = "key" /\ Own \notin {account.keys[k] : k \in DOMAIN account.keys}
    /\ account' = [account EXCEPT !.keys = Append(@, Own)]
    /\ UNCHANGED <<call, told>>

vaNext ==
    \/ \E ok \in BOOLEAN : findAnyOffer(ok) \/ describeContract(ok) \/ WaitForSSHReady(ok) \/ listSSHKeys(ok)
                           \/ \E again \in BOOLEAN : waitForEngineReady(ok, again)
    \/ \E ans \in {"ok", "lost", "refused"} : rent(ans) \/ Terminate(ans) \/ Destroy(ans) \/ EnsurePublicKey(ans)
    \/ Begin \/ Adopt \/ waitGivenUp \/ otherDaemon
    \/ \E s \in Skus : marketMoves(s)
    \/ \E i \in 1..MaxPods : hostWorks(i) \/ hostDies(i) \/ contractEnds(i)

-----------------------------------------------------------------------------
\* A contract is made for a dearer SKU only after every cheaper one was seen
\* without an offer.
CheapestAvailable ==
    call.at \in {"rent", "get", "wait"} => \A s \in Skus : s < call.sku => s \in call.empty

\* A deploy is abandoned as hopeless only on a host that is dead, never on one
\* whose message quotes an error it is retrying.
FatalOnlyIfDead == told.fatal # 0 => account.contracts[told.fatal].dead \/ account.contracts[told.fatal].gone

\* A record TERMINATED leaves no contract running that it knew of, whatever
\* the DELETE answered.
TerminatedIsReleased ==
    told.state = "TERMINATED" /\ told.does = "deploy" =>
        \A i \in DOMAIN account.contracts : Alive(i) => account.contracts[i].lost

\* Two daemons registering the same key both succeed: an error is told only
\* when a call failed, and the key is never there twice.
KeyRaceIsWon ==
    /\ told.does = "key" /\ told.result = "error" => call.failed
    /\ told.result = "keyed" =>
           \E k \in DOMAIN account.keys : {j \in DOMAIN account.keys : account.keys[j] = Own} = {k}

=============================================================================
