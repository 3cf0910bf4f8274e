------------------------------- MODULE Front --------------------------------
(***************************************************************************)
(* The router's front door: which deployment a request is for, by its id   *)
(* in the path or by the model in its body, what it is told when none can  *)
(* serve it, and what the engine gets to see of it.                        *)
(***************************************************************************)
EXTENDS Admission

\* Symbols of a request body that are read.
FlatMaxBody == 2

\* handleDescribeError: only NotFound is the caller's mistake.
handleDescribeError(err) == IF err = "not found" THEN 404 ELSE 502

\* forwardable, by the state of the deployment.
statusOf(d) ==
    CASE d.state = "RUNNING"                                  -> IF d.endpoint THEN 200 ELSE 503
      [] d.state \in {"PENDING", "STARTING", "CONFIGURING"}   -> 503
      [] d.state \in {"TERMINATING", "TERMINATED"}            -> 410
      [] OTHER                                                -> 502

\* Mutant: the newest deployment of the model, whatever its state.
pickDeploymentForModel_Newest(deps, model) ==
    LET matches == {d \in deps : d.model = model} IN
    IF matches = {} THEN <<>> ELSE <<CHOOSE d \in matches : \A e \in matches : e.created <= d.created>>

\* RUNNING ahead of everything else, then the newest.
pickDeploymentForModel(deps, model) ==
    LET matches == {d \in deps : d.model = model}
        running == {d \in matches : d.state = "RUNNING"}
        newest(ds) == CHOOSE d \in ds : \A e \in ds : e.created <= d.created
    IN  IF matches = {} THEN <<>> ELSE IF running # {} THEN <<newest(running)>> ELSE <<newest(matches)>>

\* serveFlat: the body is read whole before anything is decided.
serveFlat(req, deps) ==
    LET none(code) == [status |-> code, to |-> ""]
        dep == pickDeploymentForModel(deps, req.model)
    IN  IF req.size > FlatMaxBody THEN none(413)
        ELSE IF req.model = "" THEN none(400)
        ELSE IF req.daemon # "ok" THEN none(502)
        ELSE IF dep = <<>> THEN none(404)
        ELSE [status |-> statusOf(dep[1]), to |-> dep[1].id]

\* serveDeployID: the deployment that the path names.
serveDeployID(req, deps) ==
    LET dep == {d \in deps : d.id = req.id} IN
    IF req.daemon # "ok" THEN [status |-> handleDescribeError(req.daemon), to |-> ""]
    ELSE IF dep = {} THEN [status |-> handleDescribeError("not found"), to |-> ""]
    ELSE [status |-> statusOf(CHOOSE d \in dep : TRUE), to |-> req.id]

\* openAITail: the path without /v1/<deploy-id>; a path is its segments.
openAITail(path) == IF Len(path) > 1 /\ path[1] = "v1" THEN SubSeq(path, 3, Len(path)) ELSE path

\* The secret is looked up when the request is sent; a variable that has gone
\* is skipped.
applyUpstreamAuth(headers, auth, env) ==
    IF auth = <<>> \/ auth[1].valueEnv \notin env THEN headers
    ELSE {h \in headers : h.name # auth[1].header}
         \cup {[name |-> auth[1].header, value |-> <<auth[1].prefix, auth[1].valueEnv>>]}

\* The rewrite of proxyTo: what is ours is removed, then the request is signed.
proxyTo(headers, auth, env) ==
    applyUpstreamAuth({h \in headers : h.name \notin {"X-IPlane-Tenant", "X-IPlane-Priority"}}, auth, env)

---------------------------------------------------------------------------

DeploymentRow == [id : STRING \ {""}, model : STRING \ {""}, created : Int, endpoint : BOOLEAN, state : STRING]

\* The headers a client speaks to the router in.
RouterHeaders == {"X-IPlane-Tenant", "X-IPlane-Priority"}

\* What the front door is given: a store that holds a deployment once under
\* its id, each with a model (CreateDeployment refuses one without), and a
\* credential that is not carried in one of the router's own headers.
FrontInput ==
    /\ part = "front" =>
           /\ input.req \in [size : Int, model : STRING, daemon : STRING, id : STRING]
           /\ IsFiniteSet(input.deps) /\ \A d \in input.deps : d \in DeploymentRow
           /\ \A d, e \in input.deps : d.id = e.id => d = e
    /\ part = "upstream" =>
           /\ input.auth \in [header : STRING, valueEnv : STRING, prefix : STRING]
           /\ input.auth.header \notin RouterHeaders

\* A model that some deployment serves is served (pickDeploymentForModel): no
\* failed, finished or half-built record of the same model, older or newer,
\* stands in the way (only a RUNNING one without an endpoint yet can), and
\* both URLs agree on the answer.
ModelIsServed ==
    part = "front" =>
        LET flat   == serveFlat(input.req, input.deps)
            serves == {d \in input.deps : d.model = input.req.model /\ statusOf(d) = 200}
            all    == {d \in input.deps : d.model = input.req.model /\ d.state = "RUNNING"}
        IN  /\ input.req.size <= FlatMaxBody /\ input.req.daemon = "ok" /\ serves # {} /\ serves = all
                   => flat.status = 200
            /\ flat.to # "" => serveDeployID([input.req EXCEPT !.id = flat.to], input.deps) = flat

\* Only the daemon signs (proxyTo): where a credential was accepted and is
\* still there, the upstream sees one value of its header and it is ours,
\* whatever the caller sent; the headers meant for the router never leave it.
CallerCannotSign ==
    part = "upstream" =>
        LET auth == ValidateUpstreamAuth(input.auth, input.envThen)
            sent == proxyTo(input.headers, auth, input.envNow)
        IN  /\ auth # <<>> /\ auth[1].valueEnv \in input.envNow =>
                   {h.value : h \in {x \in sent : x.name = auth[1].header}} = {<<auth[1].prefix, auth[1].valueEnv>>}
            /\ \A h \in sent : h.name \notin {"X-IPlane-Tenant", "X-IPlane-Priority"}
            /\ \A p \in {<<"v1", "chat">>, <<"v1", "models">>} : openAITail(<<"v1", input.auth.valueEnv>> \o p) = p

\* A request reaches a deployment that serves its model, signed by the control
\* plane and not by its caller.
FrontSound == ModelIsServed /\ CallerCannotSign

=============================================================================
