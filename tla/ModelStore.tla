----------------------------- MODULE ModelStore -----------------------------
(***************************************************************************)
(* What is read of a model before it is deployed: the Hugging Face store   *)
(* (internal/modelstores/huggingface) and the DescribeModel call of        *)
(* internal/provisioners that puts its answers together.                   *)
(*                                                                         *)
(* The hub is three documents, each read by a request of its own: the      *)
(* model's card, its config.json and the pages of its file listing.  A     *)
(* document is what it says, or why it could not be had.                   *)
(***************************************************************************)
EXTENDS Budget

\* fetchModelInfo and fetchConfig: the HTTP answers told apart.
Refusals == {"gated", "not found", "unreachable", "unparseable"}

\* splitModelSpec: an empty spec, one that is no hub id, one that is.
specRefused(spec) == spec \in {"", "malformed"}

\* Store.Resolve: the engine's model argument, or the refusal.  The revision
\* is checked nowhere here.
ResolveModel(spec, hub) ==
    IF specRefused(spec) THEN [err |-> spec, arg |-> ""]
    ELSE IF hub.info.says \in Refusals THEN [err |-> hub.info.says, arg |-> ""]
    ELSE IF hub.info.disabled THEN [err |-> "disabled", arg |-> ""]
    ELSE [err |-> "", arg |-> spec]

\* firstNonZero
firstNonZero(s) ==
    LET some == {k \in DOMAIN s : s[k] > 0} IN IF some = {} THEN 0 ELSE s[Min(some)]

\* The spellings of the number of routed experts.
expertsIn(c) == firstNonZero(<<c.n_routed_experts, c.num_experts, c.num_local_experts>>)

\* resolveExperts: a dense model keeps no expert fields.
resolveExperts(c) ==
    IF expertsIn(c) <= 0
    THEN [experts |-> 0, perTok |-> 0, moeInter |-> 0, dense |-> 0, mtp |-> 0, expertHidden |-> 0]
    ELSE [experts |-> expertsIn(c),
          perTok |-> firstNonZero(<<c.num_experts_per_tok, c.num_experts_per_token, c.experts_per_token>>),
          moeInter |-> firstNonZero(<<c.moe_intermediate_size, c.intermediate_size>>),
          dense |-> c.first_k_dense_replace, mtp |-> c.num_nextn_predict_layers,
          expertHidden |-> firstNonZero(<<c.routed_expert_hidden_size, c.hidden_size>>)]

\* resolveAttention: fewer full-attention layers than layers is a hybrid.
resolveAttention(c) ==
    [lora |-> c.kv_lora_rank, rope |-> c.qk_rope_head_dim,
     fullAttn |-> IF c.full_attn_layers > 0 /\ c.full_attn_layers < c.num_hidden_layers
                  THEN c.full_attn_layers ELSE 0]

\* scheme: the format when it is named, else the tool.
scheme(c) == IF c.quant_algo # "" THEN c.quant_algo ELSE c.quant_method

\* The configuration of the language model, one level down in a multimodal one.
languageModel(c) ==
    IF c.text_config # <<>> /\ c.text_config[1].num_hidden_layers > 0 THEN c.text_config[1] ELSE c

\* The shape a config describes.  Heads without a count of their own share
\* none; a head dimension is derived unless the cache is a latent.
shapeOf(total, config) ==
    LET c == languageModel(config)
        sparse == resolveExperts(c)
        cached == resolveAttention(c)
    IN  [params |-> total, layers |-> c.num_hidden_layers, hidden |-> c.hidden_size,
         maxPos |-> c.max_position_embeddings, quant |-> scheme(c),
         kvHeads |-> IF c.num_key_value_heads = 0 THEN c.num_attention_heads ELSE c.num_key_value_heads,
         headDim |-> IF c.head_dim = 0 /\ c.num_attention_heads > 0 /\ c.kv_lora_rank = 0
                     THEN c.hidden_size \div c.num_attention_heads ELSE c.head_dim,
         experts |-> sparse.experts, perTok |-> sparse.perTok, moeInter |-> sparse.moeInter,
         expertHidden |-> sparse.expertHidden, dense |-> sparse.dense, mtp |-> sparse.mtp,
         lora |-> cached.lora, rope |-> cached.rope, fullAttn |-> cached.fullAttn]

\* Store.Architecture: nothing is answered that the budget could not use.
Architecture(spec, hub) ==
    LET resolved == ResolveModel(spec, hub)
        shape == shapeOf(hub.info.total, hub.config.body)
    IN  IF resolved.err # "" THEN [err |-> resolved.err]
        ELSE IF hub.info.total <= 0 THEN [err |-> "no parameter count"]
        ELSE IF hub.config.says \in Refusals THEN [err |-> hub.config.says]
        ELSE IF ~ValidateArch(shape) THEN [err |-> "incomplete config"]
        ELSE [err |-> "", arch |-> shape]

\* treeEntry.size: a file in large-file storage is as large as its object.
entrySize(e) == IF e.lfs > 0 THEN e.lfs ELSE e.size

\* The pages of a listing that are followed: 50 in the code.
maxTreePages == 2

\* fetchTree: the entries of the pages followed; a page that cannot be read
\* fails the listing.
fetchTree(pages) ==
    LET read == SubSeq(pages, 1, IF Len(pages) < maxTreePages THEN Len(pages) ELSE maxTreePages) IN
    IF \E k \in DOMAIN read : ~read[k].ok THEN [err |-> TRUE, entries |-> <<>>]
    ELSE [err |-> FALSE, entries |-> FlattenSeq([k \in DOMAIN read |-> read[k].entries])]

\* Store.Checkpoint: the weight files' bytes.
Checkpoint(spec, hub) ==
    LET got == fetchTree(hub.pages) IN
    IF specRefused(spec) \/ got.err THEN [err |-> TRUE]
    ELSE [err |-> FALSE, files |-> Cardinality({k \in DOMAIN got.entries : got.entries[k].safetensors}),
          bytes |-> FoldSeq(LAMBDA e, n : n + (IF e.safetensors THEN entrySize(e) ELSE 0), 0, got.entries)]

\* Service.DescribeModel: a store that cannot describe is told apart from a
\* model that cannot be described; the download size is left out when it
\* cannot be had.
DescribeModel(spec, hub) ==
    LET arch == Architecture(spec, hub)
        files == Checkpoint(spec, hub)
    IN  IF spec = "" THEN [code |-> "InvalidArgument"]
        ELSE IF hub.passthrough THEN [code |-> "Unimplemented"]
        ELSE IF arch.err # "" THEN [code |-> "InvalidArgument"]
        ELSE [code |-> "OK", arch |-> arch.arch, checkpoint |-> files]

(***************************************************************************)
(* What the hub says.  A config uses the keys of one family for the number *)
(* of its experts; a language model nested in it nests no other.           *)
(***************************************************************************)

ConfigOf(nested) ==
    [num_hidden_layers : Nat, num_attention_heads : Nat, num_key_value_heads : Nat, hidden_size : Nat, head_dim : Nat,
     n_routed_experts : Nat, num_experts : {0}, num_local_experts : {0}, num_experts_per_tok : Nat,
     num_experts_per_token : Nat, experts_per_token : Nat, max_position_embeddings : Nat, moe_intermediate_size : Nat,
     intermediate_size : Nat, first_k_dense_replace : Nat, num_nextn_predict_layers : Nat,
     routed_expert_hidden_size : Nat, kv_lora_rank : Nat, qk_rope_head_dim : Nat, full_attn_layers : Nat,
     quant_algo : STRING, quant_method : STRING, text_config : nested]

Inner == ConfigOf({<<>>})
HubConfig == ConfigOf(Seq(Inner))

Hub ==
    [passthrough : BOOLEAN, info : [says : STRING, disabled : BOOLEAN, total : Int],
     config : [says : STRING, body : HubConfig],
     pages : Seq([ok : BOOLEAN, entries : Seq([safetensors : BOOLEAN, size : Nat, lfs : Nat])])]

ModelInput == part = "describe" => input \in [spec : STRING, hub : Hub]

-----------------------------------------------------------------------------
(***************************************************************************)
(* Properties.                                                             *)
(***************************************************************************)

\* A model is described alike whichever family's keys its config uses and
\* whether or not the language model is nested: nothing the budget reads is
\* lost to a spelling (resolveExperts, Architecture).
SpellingsAgree ==
    part = "describe" =>
        LET body == input.hub.config.body
            own == languageModel(body)
            n == own.n_routed_experts
            respelt == [own EXCEPT !.n_routed_experts = 0, !.num_experts = n]
            again == [own EXCEPT !.n_routed_experts = 0, !.num_local_experts = n]
            told(c) == Architecture(input.spec, [input.hub EXCEPT !.config.body = c])
        IN  \A c \in {own, respelt, again} : told(c) = told([body EXCEPT !.text_config = <<c>>]) /\ told(c) = told(body)

\* A download size, when one is reported, is that of all the weight files of
\* a listing within the page bound (Checkpoint, fetchTree).
DownloadIsWhole ==
    part = "describe" =>
        LET got == DescribeModel(input.spec, input.hub)
            files == FlattenSeq([k \in DOMAIN input.hub.pages |-> input.hub.pages[k].entries])
        IN  (got.code = "OK" /\ ~got.checkpoint.err /\ Len(input.hub.pages) <= maxTreePages) =>
                got.checkpoint.bytes = FoldSeq(LAMBDA e, n : n + (IF e.safetensors THEN entrySize(e) ELSE 0), 0, files)

\* The memory budget is safe to refuse on: nothing of the model is left out of
\* it, its reports agree with each other and with the flags the engine will
\* read, and a model it refuses really does not fit.
SizingSound ==
    /\ ActiveIsSparse /\ WeightsAllHeld /\ SessionsAgree /\ ReportsAgree
    /\ PlanReadsEveryFlag /\ RefusalIsCertain /\ FullestCardBudgeted
    /\ SpellingsAgree /\ DownloadIsWhole

=============================================================================
