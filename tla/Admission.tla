----------------------------- MODULE Admission -----------------------------
(***************************************************************************)
(* What a create request goes through before anything is rented:           *)
(* CreateDeployment (service.go) up to the launch, the requirements of a   *)
(* replica and their class shorthand, the mounts that make a deploy warm   *)
(* (pin.go), the architecture read from the image's registry               *)
(* (imagearchcheck.go, internal/imagearch), and the identity each machine  *)
(* of a fan-out is given (agentenv.go).                                    *)
(*                                                                         *)
(* The checks that are modelled on their own (the model, the split, the    *)
(* expert shape, the budget, the upstream credential) enter as the set of  *)
(* the ones that refuse.                                                   *)
(***************************************************************************)
EXTENDS Capacity, TLC

(***************************************************************************)
(* Requirements and classes.                                               *)
(***************************************************************************)

\* The floors a class stands for.
classDefaults ==
    [small  |-> [vram |-> 24, disk |-> 20,  ram |-> 16],
     medium |-> [vram |-> 40, disk |-> 40,  ram |-> 32],
     large  |-> [vram |-> 80, disk |-> 60,  ram |-> 64],
     xlarge |-> [vram |-> 96, disk |-> 100, ram |-> 128]]

ClassifyByVRAM(vram) ==
    IF vram <= 0 THEN ""
    ELSE IF vram >= 96 THEN "xlarge" ELSE IF vram >= 80 THEN "large" ELSE IF vram >= 40 THEN "medium" ELSE "small"

\* A class is a floor: the larger of it and the operator's own figure stands.
raised(own, floor) == IF own < floor THEN floor ELSE own

\* ValidateAndExpandRequirements: the requirements as the adapter sees them,
\* or none.
ValidateAndExpandRequirements(r) ==
    IF \/ r.sku /\ r.class # ""
       \/ ~r.sku /\ r.class = "" /\ r.vram = 0
       \/ r.scope \notin {"any", "none"} /\ r.gpus < 2
       \/ r.minGbps > 0 /\ r.scope = "any"
       \/ r.scope = "inter"
       \/ r.class # "" /\ r.class \notin DOMAIN classDefaults
    THEN <<>>
    ELSE IF r.class = "" THEN <<r>>
    ELSE LET d == classDefaults[r.class]
         IN  <<[r EXCEPT !.vram = raised(r.vram, d.vram), !.disk = raised(r.disk, d.disk), !.ram = raised(r.ram, d.ram)]>>

(***************************************************************************)
(* Warm mounts.                                                            *)
(***************************************************************************)

\* The providers with a Deployer of their own, and those whose Deployer says
\* that it attaches mounts; the others run through the SSH executor.
imageNative    == {"runpod", "vast", "external"}
MountAttachers == {"runpod"}
configured     == imageNative \cup {"lambdalabs", "local"}

deployPathAttachesMounts(p) == p \in configured /\ p \in imageNative => p \in MountAttachers

\* A volume means something only to the provider that issued it.
checkMountProviders(mounts, placements) ==
    \A m \in ToSet(mounts), p \in ToSet(placements) : m.provider = "" \/ p = "" \/ p = m.provider

checkMountsAttachable(mounts, placements) ==
    mounts = <<>> \/ \A p \in ToSet(placements) \ {"", "external"} : deployPathAttachesMounts(p)

\* volumesForProvider: the handles a replica's machine is rented with.
volumesForProvider(mounts, p) ==
    Keep(mounts, LAMBDA m : m.volume # "" /\ m.provider \in {"", p})

\* resolveWarmMount: a pinned volume of the place that has the model.  There
\* is one volume for a provider and region, by its name.
resolveWarmMount(volumes, model, provider, region) ==
    LET hits == {v \in volumes : v.provider = provider /\ v.region = region /\ model \in v.models} IN
    IF provider = "" \/ region = "" \/ hits = {} THEN <<>>
    ELSE <<[volume |-> (CHOOSE v \in hits : TRUE).id, provider |-> provider]>>

homogeneousPlacement(specs) ==
    specs # <<>> /\ \A s \in ToSet(specs) : s.provider = specs[1].provider /\ s.region = specs[1].region

(***************************************************************************)
(* CreateDeployment.                                                       *)
(***************************************************************************)

isExternalDeploy(groups) == groups # <<>> /\ \A g \in ToSet(groups) : g.provider = "external"

\* One spec for each replica of each group; none stated means one.
resolveCreateReplicaSpecs(groups) ==
    Joined([i \in DOMAIN groups |-> [k \in 1..Cards(groups[i].replicas) |-> groups[i]]])

\* ValidateUpstreamAuth: the description as it is recorded, or none.  env are
\* the variables that are set; a header left out is Authorization, and only
\* that one gets the bearer prefix.
ValidateUpstreamAuth(auth, env) ==
    IF auth.valueEnv \notin env THEN <<>>
    ELSE LET header == IF auth.header = "" THEN "Authorization" ELSE auth.header
         IN  <<[header |-> header, valueEnv |-> auth.valueEnv,
                prefix |-> IF auth.prefix = "" /\ header = "Authorization" THEN "Bearer" ELSE auth.prefix]>>

Live == {"PENDING", "STARTING", "CONFIGURING", "RUNNING", "DEGRADED"}

\* The claim, under the state file's lock: a live deployment of the same image
\* and model is the answer, one that is terminating or (on the pinned path)
\* lives elsewhere is a refusal, anything else is replaced.
claim(old, dep, pinned) ==
    IF old = <<>> \/ old[1].state \notin Live \cup {"TERMINATING"} THEN "claimed"
    ELSE IF old[1].state = "TERMINATING" \/ (pinned /\ old[1].instance # dep.instance) THEN "refused"
    ELSE IF old[1].image = dep.image /\ old[1].model = dep.model THEN "existed"
    ELSE "claimed"

\* newDeploymentRecord: what was asked for, the runtime fields cleared.
newDeploymentRecord(dep, mounts) ==
    [state |-> "PENDING", instance |-> dep.instance, image |-> dep.image, model |-> dep.model, mounts |-> mounts]

Refused(c, why) == [answer |-> "refused", why |-> why, record |-> c.old]

\* Both paths end in the mount checks and the claim.
claimed(c, mounts, placements, pinned) ==
    LET got == claim(c.old, c.dep, pinned) IN
    IF ~checkMountProviders(mounts, placements) \/ ~checkMountsAttachable(mounts, placements) THEN Refused(c, "mounts")
    ELSE IF got = "refused" THEN Refused(c, "claim")
    ELSE IF got = "existed" THEN [answer |-> "existed", why |-> "", record |-> c.old]
    ELSE [answer |-> "accepted", why |-> "", record |-> <<newDeploymentRecord(c.dep, mounts)>>]

\* placeDeployment: the instance a pinned deployment names must exist.
placeDeployment(c) == c.dep.instance \in DOMAIN c.instances

\* The pinned path: the preconditions of the SSH executor, and the key, which
\* is loaded only after the claim.
createPinned(c, mounts) ==
    LET i   == c.instances[c.dep.instance]
        got == claimed(c, mounts, <<i.provider>>, TRUE)
    IN  IF ~placeDeployment(c) THEN Refused(c, "placement")
        ELSE IF got.why = "mounts" THEN got
        ELSE IF i.provider \notin imageNative /\ ~(i.live /\ i.ssh) THEN Refused(c, "placement")
        ELSE IF got.answer = "accepted" /\ ~c.keyLoads THEN [got EXCEPT !.answer = "refused", !.why = "key"]
        ELSE got

createMultiReplicaDeployment(c, specs, mounts) ==
    claimed(c, mounts, [i \in DOMAIN specs |-> specs[i].provider], FALSE)

\* CreateDeployment: its answer and the record it leaves.  A case is the
\* request, the checks that refuse it, the mounts of the model store, the
\* pinned volumes, the instances, the record there was and whether a key loads.
CreateDeployment(c) ==
    LET specs    == resolveCreateReplicaSpecs(c.groups)
        external == isExternalDeploy(c.groups)
        mounts   == IF c.cache # <<>> THEN c.cache
                    ELSE IF homogeneousPlacement(specs)
                    THEN resolveWarmMount(c.volumes, c.dep.model, specs[1].provider, specs[1].region)
                    ELSE <<>>
    IN  IF c.dep.image = "" /\ ~external THEN Refused(c, "image")
        ELSE IF \E g \in ToSet(c.groups) : g.replicas < 0 THEN Refused(c, "replicas")
        ELSE IF c.groups # <<>> /\ c.dep.instance # "" THEN Refused(c, "instance")
        ELSE IF c.refuses \ (IF external THEN {"model"} ELSE {}) # {} THEN Refused(c, "check")
        ELSE IF c.groups = <<>> THEN createPinned(c, mounts)
        ELSE createMultiReplicaDeployment(c, specs, mounts)

(***************************************************************************)
(* The architecture of the engine image.                                   *)
(***************************************************************************)

\* NormalizeArch: two spellings of each.
NormalizeArch(a) ==
    CASE a \in {"amd64", "x86_64"} -> "amd64" [] a \in {"arm64", "aarch64"} -> "arm64" [] OTHER -> ""

\* One registry request: a challenge is answered with a token, once.
registryGet(doc) == doc.served = "ok" \/ (doc.served = "challenge" /\ doc.token)

\* Resolver.read: an index names its platforms, attestations left out; a single
\* manifest names them in its config, a second request.
readImage(registry) ==
    IF ~registryGet(registry.manifest) THEN {}
    ELSE IF registry.index # {} THEN {p.arch : p \in {q \in registry.index : q.os \in {"", "linux"} /\ q.arch \notin {"", "unknown"}}}
    ELSE IF registryGet(registry.config) THEN {registry.arch} \ {""}
    ELSE {}

\* Mutant: an unreadable registry is remembered for the life of the process.
Architectures_Remembers(cache, registry) ==
    LET got == IF cache # <<>> THEN cache[1] ELSE readImage(registry)
    IN  [got |-> got, cache |-> <<got>>]

\* Architectures: what was learned once is kept, what could not be is asked again.
Architectures(cache, registry) ==
    LET got == IF cache # <<>> THEN cache[1] ELSE readImage(registry)
    IN  [got |-> got, cache |-> IF got = {} THEN cache ELSE <<got>>]

\* inferImageArchitecture: one architecture constrains the replicas that state
\* none; several, or none, constrain nothing.
inferImageArchitecture(stated, got) ==
    [i \in DOMAIN stated |->
        IF stated[i] = "" /\ Cardinality(got) = 1 THEN NormalizeArch(CHOOSE a \in got : TRUE) ELSE stated[i]]

(***************************************************************************)
(* The identity of each machine.                                           *)
(***************************************************************************)

\* The agent's environment: its engine id is the machine's, its rank is its
\* place in its own engine.  What the operator set stays.
agentStamp(dep, slot) ==
    Restrict([engine |-> slot.id, node |-> slot.node, url |-> dep.url, health |-> dep.port],
             {"engine", "node"} \cup (IF dep.url = "" THEN {} ELSE {"url"})
                                \cup (IF dep.port = 0 THEN {} ELSE {"health"}))

\* withAgentEnv: every machine of the fan-out gets a copy of its own.
withAgentEnv(dep, slots) ==
    [i \in DOMAIN slots |->
        LET stamp == agentStamp(dep, slots[i]) IN
        [k \in DOMAIN dep.env \cup DOMAIN stamp |-> IF k \in DOMAIN dep.env THEN dep.env[k] ELSE stamp[k]]]

(***************************************************************************)
(* What these parts are given: machines and groups that name their         *)
(* provider, a finite index of an image, and an environment in which the   *)
(* operator did not set an engine's rank.                                  *)
(***************************************************************************)

ReplicaNeeds ==
    [sku : BOOLEAN, class : STRING, vram : Int, disk : Int, ram : Int, gpus : Int, scope : STRING, minGbps : Int]

ReplicaGroup == [provider : STRING \ {""}, region : STRING, replicas : Int]

AdmissionInput ==
    /\ part = "requirements" => input \in [reqs : ReplicaNeeds, card : Int]
    /\ part = "admission" =>
           /\ input.groups \in Seq(ReplicaGroup)
           /\ \A i \in DOMAIN input.instances : input.instances[i].provider # ""
    /\ part = "image" => IsFiniteSet(input.now.index)
    /\ part = "identity" => "node" \notin DOMAIN input.dep.env

(***************************************************************************)
(* What must hold of them.                                                 *)
(***************************************************************************)

\* Requirements that passed are a fixed point: every slot of a group expands
\* the same shared message and a later scale-up expands it again, so a second
\* expansion must accept and change nothing (fanout.go, resolveCreateReplicaSpecs).
ExpansionSettles ==
    part = "requirements" =>
        LET once == ValidateAndExpandRequirements(input.reqs)
        IN  once # <<>> => ValidateAndExpandRequirements(once[1]) = once

\* A card is offered for a class exactly when it is of that class or a larger
\* one: the bands of ClassifyByVRAM and the floors of classDefaults agree.
ClassesAgree ==
    part = "requirements" =>
        LET once == ValidateAndExpandRequirements([input.reqs EXCEPT !.vram = 0])
            rank(c) == CHOOSE k \in 1..4 : <<"small", "medium", "large", "xlarge">>[k] = c
        IN  once # <<>> /\ input.reqs.class # "" =>
                (input.card >= once[1].vram <=> input.card >= 24 /\ rank(ClassifyByVRAM(input.card)) >= rank(input.reqs.class))

\* A deployment recorded with mounts gets them on every machine: each of its
\* placements is with the provider that issued the volume and on a deploy path
\* that attaches it, so a deploy that is reported warm is warm.
WarmIsWarm ==
    part = "admission" =>
        LET got == CreateDeployment(input) IN
        got.answer = "accepted" =>
            \A p \in (IF input.groups = <<>> THEN {input.instances[input.dep.instance].provider}
                      ELSE {g.provider : g \in ToSet(input.groups)}) \ {"external"} :
                got.record[1].mounts # <<>> =>
                    /\ p # "vast"
                    /\ volumesForProvider(got.record[1].mounts, p)
                           = Keep(got.record[1].mounts, LAMBDA m : m.volume # "")

\* A create never takes a live deployment's record away from machines it keeps:
\* a live deployment of the same image and model is answered with what there
\* is, whatever else the request says, and a refusal changes nothing, unless
\* it is the key that failed after the claim.
LiveRecordKept ==
    part = "admission" =>
        LET got == CreateDeployment(input) IN
        /\ got.answer = "refused" /\ got.why # "key" => got.record = input.old
        /\ (input.old # <<>> /\ input.old[1].state \in Live /\ input.old[1].image = input.dep.image
                             /\ input.old[1].model = input.dep.model)
               => got.record = input.old

\* An image is never refused a machine it runs on, and is kept off the ones it
\* does not run on as soon as the registry answers: what is inferred at the
\* second deploy is right even when the registry failed at the first.
ImageFitsMachine ==
    part = "image" =>
        LET first  == Architectures(<<>>, input.before)
            second == Architectures(first.cache, input.now)
            runsOn == {NormalizeArch(a) : a \in readImage(input.now)}
            req    == inferImageArchitecture(<<"", "arm64">>, second.got)
        IN  /\ req[2] = "arm64"
            /\ readImage(input.now) # {} /\ first.got \in {{}, readImage(input.now)}
                   => req[1] = IF Cardinality(readImage(input.now)) = 1 THEN CHOOSE a \in runsOn : TRUE ELSE ""

\* Every machine of a fan-out registers as itself: distinct engine ids, ranks
\* counted within each engine, and the operator's own variables untouched.
EachRegistersAsItself ==
    part = "identity" =>
        LET env == withAgentEnv(input.dep, input.slots) IN
        \A i \in DOMAIN input.slots :
            /\ \A k \in DOMAIN input.dep.env : env[i][k] = input.dep.env[k]
            /\ "engine" \notin DOMAIN input.dep.env => env[i].engine = input.slots[i].id
            /\ env[i].node = input.slots[i].node

\* What a create admits is what runs: requirements expand the same way twice,
\* volumes and images fit the machine they land on, a live record is kept, and
\* no two engines share an identity.
AdmissionSound ==
    /\ ExpansionSettles /\ ClassesAgree
    /\ WarmIsWarm /\ LiveRecordKept
    /\ ImageFitsMachine /\ EachRegistersAsItself

=============================================================================
