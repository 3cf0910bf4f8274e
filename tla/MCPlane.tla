------------------------------ MODULE MCPlane ------------------------------
(***************************************************************************)
(* The parts of the control plane that are functions of their inputs, and  *)
(* its smaller state machines, checked side by side: a behaviour exercises *)
(* one part.                                                               *)
(***************************************************************************)
EXTENDS Front, Metering, ModelStore, Offers, Plane

\* Catalog rows: more of them than a resolution returns, some published
\* without memory, architecture or width.
Rows ==
    LET row(v, r, g, a, f, p) == [vram |-> v, ram |-> r, gpus |-> g, arch |-> a, family |-> f, price |-> p]
    IN  << row(24, 16, 0, "", "pcie", 2), row(24, 24, 0, "", "l40s", 1), row(48, 32, 0, "", "l40s", 2),
           row(48, 32, 0, "", "l40s", 3), row(80, 96, 0, "", "pcie", 4), row(80, 0, 8, "amd64", "sxm", 6),
           row(80, 0, 1, "arm64", "sxm", 3) >>

Requests ==
    [minVram : {0, 24, 48}, minRam : {0, 60, 200}, gpus : {0, 1, 4}, arch : {"", "amd64"},
     scope : {"any", "none", "intra"}, minGbps : {0, 5000}]

Answers ==
    LET cands == [price : 1..2, arch : {"", "amd64", "arm64"}, facts : {{}, {"region"}}]
    IN  {[says |-> s, cands |-> <<>>] : s \in {"cannot", "failed", "ok"}}
        \cup {[says |-> "ok", cands |-> <<c>>] : c \in cands}
        \cup {[says |-> "ok", cands |-> <<c, [c EXCEPT !.price = 1, !.arch = "arm64"]>>] : c \in cands}

\* A dense model, one that caches a latent, one with linear attention, and
\* sparse ones, some described too poorly to tell.
Archs ==
    LET dense == [params |-> 90, layers |-> 2, kvHeads |-> 2, headDim |-> 1, hidden |-> 1, maxPos |-> 3, quant |-> "",
                  experts |-> 0, perTok |-> 0, moeInter |-> 0, expertHidden |-> 0, dense |-> 0, mtp |-> 0,
                  lora |-> 0, rope |-> 0, fullAttn |-> 0]
        sparse == [dense EXCEPT !.experts = 4, !.perTok = 2, !.moeInter = 2, !.dense = 1, !.hidden = 2]
    IN  {dense, sparse, [dense EXCEPT !.quant = "mxfp4"], [dense EXCEPT !.kvHeads = 6], [dense EXCEPT !.headDim = 0],
         [dense EXCEPT !.lora = 2, !.rope = 1, !.headDim = 0, !.maxPos = 0], [dense EXCEPT !.fullAttn = 1],
         [sparse EXCEPT !.experts = 6, !.expertHidden = 1], [sparse EXCEPT !.dense = 0, !.mtp = 1],
         [sparse EXCEPT !.lora = 1, !.perTok = 4], [sparse EXCEPT !.perTok = 0], [sparse EXCEPT !.dense = 3],
         [sparse EXCEPT !.moeInter = 9]}

BudgetOpts ==
    [plan : [weights : {"fp16", "awq"}, kv : {"", "fp8"}, len : {0, 2}, batch : {1}, tp : {0}, ep : {0}],
     card : {0, 40, 120, 260}, util : {90, 101}, maxCards : {1, 4}, tp : 0..3, expertParallel : BOOLEAN,
     sessionsAt : {<<>>}]

EngineArgs ==
    LET arg(f, e, n, w) == [flag |-> f, eq |-> e, num |-> n, name |-> w]
        toks == {arg("max-model-len", TRUE, 4, "x"), arg("max-model-len", FALSE, 0, ""), arg("", FALSE, 7, "fp8"),
                 arg("enforce-eager", FALSE, 0, ""), arg("quantization", TRUE, 0, "awq"), arg("", FALSE, 0, "auto"),
                 arg("max-num-seqs", FALSE, 0, ""), arg("kv-cache-dtype", FALSE, 0, "")}
    IN  UNION {[1..n -> toks] : n \in 0..3}

Preflights ==
    [external : BOOLEAN, par : [tp : 0..2, ep : {0, 2, 4}],
     args : {<<>>} \cup {<<[flag |-> "max-model-len", eq |-> TRUE, num |-> n, name |-> ""]>> : n \in {2, 6}},
     pinned : {<<>>, <<[card |-> 0, cards |-> 0]>>, <<[card |-> 60, cards |-> 4]>>},
     specs : {<<>>, <<[card |-> 0, cards |-> 2], [card |-> 80, cards |-> 2]>>, <<[card |-> 150, cards |-> 1]>>},
     arch : {<<>>} \cup {<<a>> : a \in Archs}]

Hubs ==
    LET flat == [num_hidden_layers |-> 2, num_attention_heads |-> 2, num_key_value_heads |-> 0, hidden_size |-> 4,
                 head_dim |-> 0, n_routed_experts |-> 0, num_experts |-> 0, num_local_experts |-> 0,
                 num_experts_per_tok |-> 0, num_experts_per_token |-> 0, experts_per_token |-> 1,
                 max_position_embeddings |-> 3, moe_intermediate_size |-> 0,
                 intermediate_size |-> 3, first_k_dense_replace |-> 0, num_nextn_predict_layers |-> 1,
                 routed_expert_hidden_size |-> 0, kv_lora_rank |-> 0, qk_rope_head_dim |-> 1,
                 full_attn_layers |-> 0, quant_algo |-> "", quant_method |-> "", text_config |-> <<>>]
        configs == {flat, [flat EXCEPT !.n_routed_experts = 4, !.full_attn_layers = 1], [flat EXCEPT !.kv_lora_rank = 2],
                    [flat EXCEPT !.num_hidden_layers = 0], [flat EXCEPT !.n_routed_experts = 2, !.quant_method = "fp8"]}
        entry(w, l) == [safetensors |-> w, size |-> 1, lfs |-> l]
        page(ok) == [ok |-> ok, entries |-> <<entry(TRUE, 9), entry(FALSE, 0), entry(TRUE, 0)>>]
    IN  [passthrough : BOOLEAN,
         info : [says : {"ok", "gated", "unreachable"}, disabled : BOOLEAN, total : {0, 50}],
         config : [says : {"ok", "not found"}, body : configs],
         pages : {<<>>, <<page(TRUE)>>, <<page(TRUE), page(TRUE)>>, <<page(TRUE), page(FALSE)>>,
                  <<page(TRUE), page(TRUE), page(TRUE)>>}]

Needs ==
    [sku : BOOLEAN, class : {"", "small", "medium", "xlarge", "huge"}, vram : {0, 30, 96}, disk : {0}, ram : {64},
     gpus : 1..2, scope : {"any", "none", "intra", "inter"}, minGbps : {0, 1}]

\* A create request over every provider, with and without a warm cache, onto
\* nothing, a record of the same deployment, and records of others.
Admissions ==
    LET group(p, r, n)   == [provider |-> p, region |-> r, replicas |-> n]
        rec(st, i, img)  == [state |-> st, instance |-> i, image |-> img, model |-> "m", mounts |-> <<>>]
        mount(v, p)      == [volume |-> v, provider |-> p]
        pin(p)           == [id |-> "v", provider |-> p, region |-> "eu", models |-> {"m"}]
        machine(p, l, s) == [provider |-> p, live |-> l, ssh |-> s]
        base == [dep : [instance : {"", "i1", "i2", "i3"}, image : {"", "a"}, model : {"m"}],
                 groups : {<<>>, <<group("runpod", "eu", 2)>>, <<group("runpod", "us", 0)>>, <<group("vast", "eu", 1)>>,
                           <<group("runpod", "eu", 1), group("lambdalabs", "eu", 1)>>, <<group("external", "", 1)>>,
                           <<group("lambdalabs", "eu", 1), group("typo", "", 1)>>, <<group("runpod", "eu", -1)>>},
                 refuses : {{}}, cache : {<<>>, <<mount("c", "runpod")>>, <<mount("", "")>>},
                 volumes : {{}, {pin("runpod"), pin("vast")}},
                 instances : {[i1 |-> machine("runpod", TRUE, FALSE), i2 |-> machine("lambdalabs", TRUE, TRUE),
                               i3 |-> machine("lambdalabs", FALSE, TRUE)]},
                 old : {<<>>} \cup {<<rec(st, i, img)>> : st \in {"PENDING", "TERMINATING", "FAILED"},
                                                         i \in {"", "i2"}, img \in {"a", "b"}},
                 keyLoads : {TRUE}]
    IN  base \cup {[c EXCEPT !.refuses = {"model"}] : c \in {d \in base : d.old = <<>>}}
             \cup {[c EXCEPT !.keyLoads = FALSE] : c \in {d \in base : d.groups = <<>>}}

Registries ==
    LET plat(a, o) == [arch |-> a, os |-> o]
        docs == {[served |-> "ok", token |-> FALSE]} \cup [served : {"challenge"}, token : BOOLEAN]
    IN  [manifest : docs, config : docs, arch : {"", "x86_64"},
         index : {{}, {plat("amd64", "linux"), plat("unknown", "")}, {plat("arm64", ""), plat("amd64", "linux")},
                  {plat("amd64", "windows"), plat("aarch64", "linux")}}]

Identities ==
    [dep : [env : {<<>>, [engine |-> "op"], [hf |-> "t"]}, url : {"", "u"}, port : {0, 8000}],
     slots : {<<[id |-> "d", node |-> 0]>>,
              <<[id |-> "d-r0", node |-> 0], [id |-> "d-r0-n1", node |-> 1], [id |-> "d-r1", node |-> 0]>>}]

\* Hosts of every card under its wire name, one slow, one short of memory,
\* some with a link that was measured.
Market ==
    << offerSummary(1, "a100", "a100-40", 40960, 0, 2, 1, TRUE, 64000),
       offerSummary(2, "a100", "a100", 81251, 300, 3, 0, TRUE, 64000),
       offerSummary(3, "a100", "a100", 81920, 0, 4, 5, TRUE, 16000),
       offerSummary(4, "l40s", "l40s", 46068, 0, 1, 1, FALSE, 64000),
       offerSummary(5, "l40s", "l40s", 49140, 0, 5, 2, TRUE, 64000),
       offerSummary(6, "b300", "b300", 275040, 0, 9, 0, TRUE, 64000) >>

OfferRequests ==
    [sku : {"", "a100", "a100-40", "other"}, minVram : {0, 48, 90}, minRam : {0, 60}, gpus : {0, 2, 8}, arch : {""},
     scope : {"any", "none", "intra"}, minGbps : {0, 300}, disk : {0, 200}, reclaim : BOOLEAN]

PlainRequests == {r \in OfferRequests : /\ r.minRam = 0 /\ r.disk = 0 /\ r.gpus = 2 /\ r.minVram \in {0, 48}
                                        /\ r.sku \in {"", "a100"} /\ r.scope = "any" /\ r.minGbps = 0}

GpuTypes ==
    LET dc(i, st, av) == [id |-> i, stock |-> st, available |-> av]
        places == {<<>>, <<dc("eu", "", TRUE), dc("us", "Low", FALSE)>>, <<dc("eu", "High", TRUE), dc("us", "", TRUE)>>}
        types(i) == {gpuType(i, p, b, st, at) : p \in {0, 2}, b \in 0..2, st \in {"", "Low"}, at \in places}
    IN  {<<t>> : t \in types("l40s")}
        \cup {<<t, u>> : t \in {x \in types("l40s") : x.price = 2 /\ x.stock = "Low"}, u \in types("a100")}

Shapes == {<<[id |-> "gh200", price |-> 2, arch |-> "arm64", regions |-> <<"us">>],
             [id |-> "8xa100", price |-> 4, arch |-> "amd64", regions |-> <<"eu", "us">>]>>}

\* Streams of up to three events, the last perhaps unfinished, cut in up to
\* two places.
Streams ==
    LET events == {<<"prompt">>, <<"partial">>, <<"both">>, <<"half", "rest">>, <<"half">>, <<"done">>}
        some(n) == [1..n -> events]
        cuts == {<<>>} \cup {<<i>> : i \in 1..16} \cup {<<i, j>> : i \in 1..12, j \in 2..13}
    IN  [frames : some(1) \cup some(2), crlf : BOOLEAN, ended : BOOLEAN,
         cuts : {c \in cuts : Len(c) = 2 => c[1] < c[2]}]
        \cup [frames : some(3), crlf : BOOLEAN, ended : BOOLEAN, cuts : {c \in cuts : Len(c) < 2}]

Bodies ==
    [status : {200, 404}, type : {"stream", "json", "text"}, cuts : {<<>>, <<1>>, <<2>>, <<1, 2>>},
     body : {<<"both", "space">>, <<"half", "rest">>, <<"space", "half", "space", "rest">>, <<"partial">>, <<"done">>,
             <<"half", "rest", "space", "space">>, <<"prompt">>}]

\* Rentals in the order things happen: claimed, rented, up, released, stamped.
Rentals ==
    LET time == {NoTime} \cup 0..4
        all  == [rate : {0, 2}, created : {0}, rented : 0..2, activated : time, released : time, terminated : time]
    IN  {r \in all : /\ r.activated # NoTime => r.rented <= r.activated
                     /\ r.terminated # NoTime => r.released # NoTime /\ r.released <= r.terminated
                     /\ r.released # NoTime => r.rented <= r.released
                     /\ r.activated # NoTime /\ r.released # NoTime => r.activated <= r.released}

FrontDoors ==
    LET dep(i, m, c) == [id : {i}, model : m, created : {c}, endpoint : BOOLEAN,
                         state : {"PENDING", "RUNNING", "DEGRADED", "TERMINATED", "FAILED"}]
        fleets == {{a, b} : a \in dep("d1", {"m"}, 1), b \in dep("d2", {"m", "other"}, 2)}
    IN  [req : [size : {1, 3}, model : {"", "m", "none"}, daemon : {"ok", "down"}, id : {"d1"}], deps : fleets]

Upstreams ==
    LET mine(n) == [name |-> n, value |-> <<"caller">>] IN
    [auth : [header : {"", "X-Api-Key"}, valueEnv : {"KEY", "OTHER"}, prefix : {"", "Token"}],
     envThen : {{"KEY"}, {"KEY", "OTHER"}}, envNow : SUBSET {"KEY", "OTHER"},
     headers : SUBSET {mine("Authorization"), mine("X-Api-Key"), mine("X-IPlane-Tenant")}]

\* The inputs of the parts that are functions.
Given ==
    \/ part = "fabric" /\ input \in [family : Families, reading : {NoReading, 0, 300, 5000},
                                     scope : {"any", "none", "intra", "inter"}, minGbps : {0, 300, 4800}]
    \/ part = "match" /\ input \in [rows : {Rows}, reqs : Requests, mode : {"declared", "prefilter"}]
    \/ part = "placement" /\ input \in [offers : {<<o>> : o \in Answers} \cup (Answers \X Answers),
                                        arch : {"", "amd64"}]
    \/ part = "split" /\ input \in [split : [tp : -1..4, pp : 0..2, ep : {-1, 0, 1, 2, 3, 4, 8}],
                                    specs : {<<>>} \cup {<<[endpoint |-> e, gpus |-> g]>> :
                                                             e \in BOOLEAN, g \in {NoReading, 0, 1, 4, 8}}]
    \/ part = "budget" /\ input \in [arch : Archs, opts : BudgetOpts]
    \/ part = "flags" /\ input \in [args : EngineArgs]
    \/ part = "preflight" /\ input \in Preflights
    \/ part = "requirements" /\ input \in [reqs : Needs, card : {16, 24, 40, 79, 96}]
    \/ part = "admission" /\ input \in Admissions
    \/ part = "image" /\ input \in [before : {r \in Registries : r.config.served = "ok"},
                                    now : {r \in Registries : r.manifest.served = "ok"}]
    \/ part = "identity" /\ input \in Identities
    \/ part = "vast offers" /\ input \in [market : {SelectSeq(Market, LAMBDA o : o.id \notin gone) :
                                                        gone \in SUBSET {1, 2, 5}},
                                          reqs : OfferRequests]
    \/ part = "runpod offers" /\ input \in [types : GpuTypes, shapes : Shapes,
                                            reqs : PlainRequests]
    \/ part = "front" /\ input \in FrontDoors
    \/ part = "upstream" /\ input \in Upstreams
    \/ part = "stream" /\ input \in Streams
    \/ part = "body" /\ input \in Bodies
    \/ part = "billing" /\ input \in {x \in [rental : Rentals, first : 0..4, second : 0..4] : x.first <= x.second}
    \/ part = "describe" /\ input \in [spec : {"", "malformed", "org/name"}, hub : Hubs]

\* The state file's users: two goroutines of the daemon and the command's one.
StoreProcOf == [t \in Threads |-> IF t = "command" THEN "cli" ELSE "serve"]

NoMachine == account = <<>> /\ call = <<>> /\ told = <<>>

Init ==
    \/ Given /\ NoMachine
    \/ MachineInit

Spec == Init /\ [][MachineNext]_vars

=============================================================================
