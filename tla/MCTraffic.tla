----------------------------- MODULE MCTraffic -----------------------------
(***************************************************************************)
(* Scenarios for checking Traffic with TLC.                                *)
(***************************************************************************)
EXTENDS Traffic

CONSTANTS c1, c2, c3

\* Two clients of one session, and one without.
OneSession == [r \in Requests |-> IF r = c3 THEN "" ELSE "s"]

\* Two replicas, requests of one session, engines that die.
Routing ==
    [nodes |-> <<1, 1>>, policy |-> "prefix_affinity", ops |-> {}, faults |-> {"dead"},
     clients |-> {c1, c2}, loops |-> {"health"}, horizon |-> 0]

\* One replica that is saturated while its clients' requests complete.
Saturated ==
    [Routing EXCEPT !.nodes = <<1>>, !.policy = "round_robin", !.clients = {c3},
                    !.faults = {"busy", "dead"}, !.horizon = 2]

\* An idle deployment, touched now and then, destroyed and created again.
Idling ==
    [Routing EXCEPT !.nodes = <<1>>, !.ops = {"touch", "recreate"}, !.faults = {"destroy", "touch"},
                    !.clients = {c3}, !.loops = {"reaper"}, !.horizon = 6]

\* Drains that are given up, of replicas that are probed.
Draining ==
    [Routing EXCEPT !.ops = {"drain"}, !.faults = {"cancel", "destroy", "busy"},
                    !.clients = {}, !.loops = {"health", "reaper"}]

\* A migration and a scale-up overlap.
Moving ==
    [Draining EXCEPT !.nodes = <<1>>, !.ops = {"migrate", "scale"}, !.faults = {"grow"}]

\* A member of two nodes.
TwoNodes == [Draining EXCEPT !.nodes = <<2, 1>>, !.faults = {"dead"}]

Circumstances == {Routing, Saturated, Idling, Draining, Moving, TwoNodes}

\* A drain of healthy replicas, with nothing going wrong.
OneDrain == {[Draining EXCEPT !.faults = {}]}

=============================================================================
