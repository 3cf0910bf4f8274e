--------------------------- MODULE MCDeployments ---------------------------
(***************************************************************************)
(* Scenarios for checking Deployments with TLC.                            *)
(***************************************************************************)
EXTENDS Deployments, TLC

\* An image-native provider, an empty file, two callers, two slots, one create.
Plain ==
    [native |-> TRUE, start |-> "empty", calls |-> 2, ops |-> {"create"},
     slots |-> 2, creates |-> 1, faults |-> {}]

\* Everything overlaps, and the daemon may die.
Overlapping ==
    [Plain EXCEPT !.ops = {"create", "scale", "destroy"}, !.faults = {"engine", "crash"}]

\* A create claims a record whose first fan-out is still running.
Replacing ==
    [Plain EXCEPT !.ops = {"create", "replace"}, !.creates = 2, !.faults = {"engine"}]

\* Creates and scale-ups of up to three slots that fail anywhere.
Growing ==
    [Plain EXCEPT !.ops = {"create", "scale"}, !.slots = 3,
                  !.faults = {"spec", "rent", "engine", "key"}]

\* Three slots of one create after another.
Creating ==
    [Plain EXCEPT !.slots = 3, !.creates = 2, !.faults = {"rent", "engine"}]

\* A destroy overlaps a create, and provider calls fail.
Cancelling ==
    [Plain EXCEPT !.ops = {"create", "destroy"}, !.faults = {"rent", "terminate"}]

\* Two destroys of three replicas overlap.
Destroying ==
    [Plain EXCEPT !.start = "running", !.ops = {"destroy"}, !.slots = 3, !.creates = 0,
                  !.faults = {"terminate", "key"}]

\* One call after the other on a VM-style provider.
OnVMs ==
    [Plain EXCEPT !.native = FALSE, !.calls = 1, !.ops = {"create", "scale", "destroy"},
                  !.faults = {"rent", "engine", "terminate", "key"}]

\* A record of an older version grows and is destroyed.
FromSingular ==
    [Plain EXCEPT !.start = "singular", !.calls = 1, !.ops = {"scale", "destroy"},
                  !.slots = 3, !.creates = 0, !.faults = {"rent", "engine", "terminate"}]

\* Creates run again on a VM-style provider.
Rerunning ==
    [Plain EXCEPT !.native = FALSE, !.calls = 1, !.creates = 3,
                  !.faults = {"rent", "engine"}]

Circumstances ==
    {Overlapping, Replacing, Growing, Creating, Cancelling, Destroying, OnVMs,
     FromSingular, Rerunning}

\* For liveness: a create and a destroy on VMs, and destroys that are retried.
Endings ==
    {[OnVMs EXCEPT !.calls = 2, !.ops = {"create", "destroy"}, !.faults = {"rent", "engine"}],
     [Destroying EXCEPT !.calls = 1, !.faults = {"terminate"}]}

\* Create, destroy, create and destroy again, with nothing going wrong.
Recreating ==
    {[Plain EXCEPT !.calls = 1, !.ops = {"create", "destroy"}, !.creates = 2]}

\* Machines are interchangeable, and so are callers.
Symmetry == Permutations(Machines) \cup Permutations(Callers)

=============================================================================
