---------------------------- MODULE MCScheduler ----------------------------
(***************************************************************************)
(* Constant values for checking Scheduler with TLC.                        *)
(***************************************************************************)
EXTENDS Scheduler, TLC

CONSTANTS i1, i2, i3, b1, b2, b3, t1, t2, d1, d2

\* Interactive requests i1 and i2 of tenant t1 and i3 of t2; b1, b2 and b3 are
\* batch requests of t1.
Lane == [r \in Requests |-> IF r \in {i1, i2, i3} THEN "interactive" ELSE "batch"]

Tenant == [r \in Requests |-> IF r = i3 THEN t2 ELSE t1]

\* t2 has a deployment of its own, or shares t1's.
TwoDeployments == [r \in Requests |-> IF r = i3 THEN d2 ELSE d1]

OneDeployment == [r \in Requests |-> d1]

\* One waiting entry per interactive sub-queue, two per batch sub-queue.
Capacities == [l \in Lanes |-> IF l = "interactive" THEN 1 ELSE 2]

\* Two tenants compete in the interactive lane, and one of them for its single
\* place; or three batch requests compete for two places.
Competing ==
    {[sends |-> {i1, i2, i3, b1}, stops |-> TRUE],
     [sends |-> {b1, b2, b3}, stops |-> TRUE]}

\* Two tenants keep the interactive lane busy, and there is batch work; or the
\* daemon is shut down with both lanes in use.
Busy ==
    {[sends |-> {i1, i3, b1}, stops |-> FALSE],
     [sends |-> {i1, b1}, stops |-> TRUE]}

WorkerSymmetry == Permutations(Workers)

=============================================================================
