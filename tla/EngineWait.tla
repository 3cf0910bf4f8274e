----------------------------- MODULE EngineWait -----------------------------
(***************************************************************************)
(* The poll loop of internal/provisioners/enginewait: what one tick makes  *)
(* of a provider's observation and of the engine's /health.  The adapters  *)
(* run it with the rungs they can tell apart.                              *)
(***************************************************************************)
EXTENDS Integers, Sequences

\* Where the loop stands: whether the endpoint is known, the rung reached, and
\* how the tick ended: ready, fatal, or wait for the next one.
Waiting(known) == [known |-> known, phase |-> "none", out |-> "wait"]

\* What a provider saw: an endpoint, a rung, and whether it says the container
\* will never run.
Observation(known, phase, fatal) == [known |-> known, phase |-> phase, fatal |-> fatal]

\* The rank of a rung; what is not a rung of the ladder ranks below all.
Ordinal(ladder, phase) ==
    IF \E k \in DOMAIN ladder : ladder[k] = phase
    THEN CHOOSE k \in DOMAIN ladder : ladder[k] = phase ELSE 0

\* Mutant: the latest reading wins.
Clamp_Latest(ladder, reached, seen) == seen

\* The ladder only climbs.
Clamp(ladder, reached, seen) ==
    IF Ordinal(ladder, seen) >= Ordinal(ladder, reached) THEN seen ELSE reached

\* One tick: an endpoint that is known is probed before the provider is asked,
\* one that this tick discovers is probed at once.
Tick(w, obs, healthy, ladder) ==
    IF w.known /\ healthy THEN [w EXCEPT !.out = "ready"]
    ELSE IF obs.fatal THEN [w EXCEPT !.out = "fatal"]
    ELSE [known |-> w.known \/ obs.known,
          phase |-> Clamp(ladder, w.phase, obs.phase),
          out   |-> IF ~w.known /\ obs.known /\ healthy THEN "ready" ELSE "wait"]

=============================================================================
