------------------------------ MODULE Staging ------------------------------
(***************************************************************************)
(* A cold deploy watching its weights arrive: the sensor next to the       *)
(* engine (engineagent/staging.go), the reading it leaves in the registry, *)
(* the refiner that splits engine:init and abandons a hopeless download    *)
(* (provisioners/staging.go), and the observer that times the phases       *)
(* (deploy_telemetry.go).                                                  *)
(*                                                                         *)
(* The agent reads on its own cadence and the deploy polls on another, so  *)
(* one reading is judged as often as the deploy polls.  A unit of time is  *)
(* thirty seconds, a unit of size a quarter of the checkpoint.             *)
(***************************************************************************)
EXTENDS Integers, Sequences, FiniteSets

VARIABLES account,   \* the node: the clock, the disk over time, the sensor and its last reading
          call,      \* the deploy: the refiner, whether it polled lately, and how the wait ended
          told       \* the observer: the phases it opened, those after a load, and the time recorded

stVars == <<account, call, told>>

Checkpoint == 4
Deadline == 5
abortMinWindow == 3
abortConsecutive == 3
Landed == {0, 1}   \* bound: what arrives in a unit of time

Min(a, b) == IF a < b THEN a ELSE b
Now == Len(account.disk) - 1
Disk == account.disk[Len(account.disk)]

NoReading == [available |-> FALSE, local |-> 0, delta |-> 0, interval |-> 0]

\* checkpointBytes is 0 when the model store cannot say.
stInit ==
    /\ \E there \in 0..1 : account = [disk |-> <<there>>, sensor |-> <<>>, reading |-> NoReading]
    /\ \E bytes \in {0, Checkpoint} :
           call = [polled |-> FALSE, checkpoint |-> bytes, hopeless |-> 0, reachedLoad |-> FALSE, out |-> "wait"]
    /\ told = [cur |-> "pull", seen |-> {"pull"}, afterLoad |-> {}, since |-> 0, recorded |-> 0, result |-> "none"]

\* openPhase and closePhase: the phase's time is recorded when it closes.
closePhase(o) == IF o.cur # "none" THEN [o EXCEPT !.cur = "none", !.recorded = @ + (Now - o.since)] ELSE o

openPhase(o, phase) ==
    [o EXCEPT !.cur = phase, !.seen = @ \cup {phase}, !.since = Now,
              !.afterLoad = IF "engine:load" \in o.seen THEN @ \cup {phase} ELSE @]

\* A phase runs until the next one, or until a terminal state.
observe(o, state, phase) ==
    IF state # "STARTING" THEN closePhase(o)
    ELSE IF phase = o.cur THEN o
    ELSE openPhase(closePhase(o), phase)

\* A deadline error counts as timeout, any other as failed; the wait's own
\* deadline is a plain error.
deployResult(err) == IF err = "none" THEN "running" ELSE IF err = "context deadline" THEN "timeout" ELSE "failed"

finish(o, err) == [closePhase(o) EXCEPT !.result = deployResult(err)]

\* Thirty seconds pass, in which the deploy polled; bytes land until the
\* checkpoint is whole.
TimePasses ==
    /\ call.out = "wait" /\ Now <= Deadline /\ call.polled
    /\ call' = [call EXCEPT !.polled = FALSE]
    /\ \E n \in Landed : account' = [account EXCEPT !.disk = Append(@, Min(Disk + n, Checkpoint))]
    /\ UNCHANGED told

\* Read: what landed since the last reading, over the time since; the first
\* one claims no rate.
Read(seen, at, size) ==
    IF seen = <<>> \/ at = seen[1] THEN [NoReading EXCEPT !.available = TRUE, !.local = size]
    ELSE [available |-> TRUE, local |-> size, interval |-> at - seen[1],
          delta |-> IF size > seen[2] THEN size - seen[2] ELSE 0]

\* The agent's tick: every ten seconds, later when its call to the control
\* plane hangs.  The cache it reads may be missing, and then it claims nothing
\* and keeps its baseline.
AgentReads ==
    /\ call.out = "wait"
    /\ account.sensor # <<>> => Now > account.sensor[1]
    /\ \/ account' = [account EXCEPT !.reading = Read(account.sensor, Now, Disk), !.sensor = <<Now, Disk>>]
       \/ account' = [account EXCEPT !.reading = NoReading]
    /\ UNCHANGED <<call, told>>

\* Mutant: a stalled download projects past every deadline.
overshoots_Stalled(s, left) ==
    /\ s.interval >= abortMinWindow
    /\ s.local < Checkpoint
    /\ left > 0
    /\ 2 * (Checkpoint - s.local) * s.interval > 3 * left * s.delta

\* At a rate measured long enough, and positive, the rest of the checkpoint
\* needs half again the time that is left.
overshoots(s, left) ==
    /\ s.delta > 0
    /\ s.interval >= abortMinWindow
    /\ s.local < Checkpoint
    /\ left > 0
    /\ 2 * (Checkpoint - s.local) * s.interval > 3 * left * s.delta

\* judge: the count of hopeless readings in a row, while weights arrive.
judge(c, s) ==
    IF c.checkpoint <= 0 \/ c.reachedLoad THEN c
    ELSE [c EXCEPT !.hopeless = IF overshoots(s, Deadline - Now) THEN @ + 1 ELSE 0]

\* Growth is a download until loading began; weights that do not grow are
\* loading.
refinedPhase(c, s) ==
    IF s.delta > 0 THEN (IF c.reachedLoad THEN "engine:init" ELSE "engine:download")
    ELSE IF s.local > 0 THEN "engine:load" ELSE "engine:init"

\* The provider's poll, its own rungs behind it: the engine:init it emits goes
\* through refine, then to the observer; a refiner out of patience cancels the
\* wait.
Poll ==
    LET s       == account.reading
        speaks  == s.available /\ s.interval > 0
        judged  == IF speaks THEN judge(call, s) ELSE call
        phase   == IF speaks THEN refinedPhase(judged, s) ELSE "engine:init"
        aborts  == judged.hopeless >= abortConsecutive
        seen    == observe(told, "STARTING", phase)
    IN  /\ call.out = "wait" /\ Now <= Deadline
        /\ call' = [judged EXCEPT !.polled = TRUE, !.reachedLoad = @ \/ phase = "engine:load",
                                  !.out = IF aborts THEN "aborted" ELSE @]
        /\ told' = IF aborts THEN finish(observe(seen, "FAILED", "none"), "abandoned") ELSE seen
        /\ UNCHANGED account

\* The engine answers: it can once its weights are on the disk.
Answers ==
    /\ call.out = "wait" /\ Disk = Checkpoint
    /\ call' = [call EXCEPT !.out = "ready"]
    /\ told' = finish(observe(told, "RUNNING", "none"), "none")
    /\ UNCHANGED account

\* The wait runs past its deadline, or the caller cancels it.
GivesUp ==
    /\ call.out = "wait"
    /\ \E err \in {"deadline", "canceled"} :
        /\ err = "deadline" => Now > Deadline
        /\ told' = finish(observe(told, "FAILED", "none"), err)
    /\ call' = [call EXCEPT !.out = "gave up"]
    /\ UNCHANGED account

stNext == TimePasses \/ AgentReads \/ Poll \/ Answers \/ GivesUp

---------------------------------------------------------------------------

\* judge's promise (staging.go): a deploy is abandoned only on a stretch of
\* the download itself, ninety seconds or longer, in which bytes did arrive,
\* too slowly for what was left; never on a stall or a short burst.
AbortIsMeasured ==
    call.out = "aborted" =>
        \E a, b \in 1..Len(account.disk) :
            LET grown == account.disk[b] - account.disk[a] IN
            /\ b - a >= abortMinWindow /\ grown > 0
            /\ 2 * (Checkpoint - account.disk[b]) * (b - a) > 3 * (Deadline - Now) * grown

\* A deploy whose phase reached engine:load is never abandoned for its
\* download, though the reading it last judged may still be a slow one.
LoadingIsSpared == call.out = "aborted" => "engine:load" \notin told.seen

\* The refiner's latch: no engine:download is opened after an engine:load, so
\* one download is not recorded as two.
DownloadIsOnce == "engine:download" \notin told.afterLoad

\* The observer's phases tile the deploy: at the end the times recorded for
\* them add up to the whole of its time, none lost or counted twice.
PhasesTile == call.out # "wait" => told.cur = "none" /\ told.recorded = Now
=============================================================================
