---------------------------- MODULE MCInstances ----------------------------
(***************************************************************************)
(* Constant values for checking Instances with TLC.                        *)
(***************************************************************************)
EXTENDS Instances, TLC

Anyone == CHOOSE i \in Ids : TRUE

\* No deployment record left over from an older version.
NoLegacy == [i \in Ids |-> None]

\* One id has such a record, whose pod is the first machine.
OneLegacy == [NoLegacy EXCEPT ![Anyone] = CHOOSE m \in Machines : TRUE]

\* Two calls at a time, on two ids, machines that stop, a List that fails.
Overlapping ==
    [calls |-> 2, ops |-> OpNames \ {"force"}, ids |-> Ids,
     faults |-> {"list", "exit", "crash"}, legacy |-> OneLegacy]

\* One call at a time, forced destroys included, with lost answers.
Misinformed ==
    [calls |-> 1, ops |-> OpNames, ids |-> Ids,
     faults |-> {"list", "describe", "terminate", "lostreply", "exit", "crash"},
     legacy |-> OneLegacy]

\* One call at a time, all of whose answers arrive.
Sequential ==
    [calls |-> 1, ops |-> OpNames \ {"force"}, ids |-> Ids,
     faults |-> {"key", "terminate", "vanish"}, legacy |-> OneLegacy]

\* Creates of one id that are repeated, with lost answers and a lost file.
Repeated ==
    [calls |-> 3, ops |-> {"create", "list", "wait"}, ids |-> {Anyone},
     faults |-> {"key", "lostreply", "crash", "wipe", "vanish"}, legacy |-> NoLegacy]

\* Creates and destroys of one id that are interrupted, and callers that list.
Interrupted ==
    [calls |-> 2, ops |-> {"create", "destroy", "list"}, ids |-> {Anyone},
     faults |-> {"terminate", "crash", "vanish"}, legacy |-> NoLegacy]

Circumstances == {Overlapping, Misinformed, Sequential, Repeated}

Interruptions == {Interrupted}

Symmetry == Permutations(Callers)

=============================================================================
