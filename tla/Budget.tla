------------------------------- MODULE Budget -------------------------------
(***************************************************************************)
(* Whether a model fits the cards it would be given: the arithmetic of     *)
(* internal/vrambudget, the reports of `iplane model budget`, and the      *)
(* pre-flight that CreateDeployment runs with it (budgetcheck.go,          *)
(* engineplan.go, expertshape.go).                                         *)
(*                                                                         *)
(* A byte is the unit; the fractions of the code are kept as hundredths    *)
(* and every truncation to int64 is a \div, so the model is exact where    *)
(* the code computes in float64.                                           *)
(***************************************************************************)
EXTENDS Cases, Lists, SequencesExt

\* BytesPerParam, in hundredths of a byte.
BytesPerParam ==
    [fp16 |-> 200, bf16 |-> 200, fp8 |-> 100, int8 |-> 100, awq |-> 60, gptq |-> 60, mxfp4 |-> 57]

\* ParsePrecision: the names it knows.
Precisions == DOMAIN BytesPerParam

BytesPerCacheElement(p) == IF p \in {"fp16", "bf16"} THEN 2 ELSE 1

\* OverheadFraction and DefaultUtilization, in hundredths; ActivationFactor
\* times the bytes of an activation.
OverheadFraction == 15
DefaultUtilization == 90
ActivationBytes == 3

ValidateArch(a) ==
    /\ a.params > 0 /\ a.layers > 0
    /\ a.lora > 0 \/ (a.kvHeads > 0 /\ a.headDim > 0)

\* Plan.Validate: the precisions are known, there is a context and a batch.
ValidatePlan(p) ==
    {p.weights, p.kv} \subseteq (Precisions \cup {""}) /\ p.weights # "" /\ p.len > 0 /\ p.batch > 0

cacheDtype(p) == IF p.kv = "" THEN p.weights ELSE p.kv

\* TensorWidth: an unset width is one card.
TensorWidth(p) == IF p.tp < 1 THEN 1 ELSE p.tp

expertCards(p) == IF p.ep < 1 THEN TensorWidth(p) ELSE p.ep

moeLayers(a) == LET n == a.layers - a.dense + a.mtp IN IF n < 0 THEN 0 ELSE n

expertParams(a) == 3 * (IF a.expertHidden > 0 THEN a.expertHidden ELSE a.hidden) * a.moeInter

\* RoutedExpertParams: what the routed experts hold, 0 when the shape does not say.
RoutedExpertParams(a) == IF a.experts <= 0 THEN 0 ELSE moeLayers(a) * a.experts * expertParams(a)

\* ActiveParams: what one token passes through; 0 when the shape is not
\* described well enough to tell.
ActiveParams(a) ==
    LET resident == RoutedExpertParams(a) IN
    IF a.experts <= 0 THEN a.params
    ELSE IF resident <= 0 \/ a.perTok <= 0 \/ a.perTok > a.experts \/ resident >= a.params THEN 0
    ELSE a.params - resident + moeLayers(a) * a.perTok * expertParams(a)

\* CachingLayers: layers with linear attention keep no cache.
CachingLayers(a) == IF a.fullAttn > 0 /\ a.fullAttn < a.layers THEN a.fullAttn ELSE a.layers

LatentCache(a) == a.lora > 0

KVBytesPerToken(a, p) ==
    CachingLayers(a) * BytesPerCacheElement(cacheDtype(p))
        * (IF LatentCache(a) THEN a.lora + a.rope ELSE 2 * a.kvHeads * a.headDim)

\* Mutant: under expert parallelism everything is spread as the experts are.
weightBytesPerCard_Even(a, p) ==
    (a.params * BytesPerParam[p.weights]) \div (100 * expertCards(p))

\* weightBytesPerCard: the experts over their cards, the rest over the tensor width.
weightBytesPerCard(a, p) ==
    LET routed == RoutedExpertParams(a) IN
    (((a.params - routed) * expertCards(p) + routed * TensorWidth(p)) * BytesPerParam[p.weights])
        \div (100 * TensorWidth(p) * expertCards(p))

\* Compute: the claims on one card.  A latent cache is replicated.
Compute(a, p) ==
    LET n  == TensorWidth(p)
        w  == weightBytesPerCard(a, p)
        kv == (KVBytesPerToken(a, p) * p.len * p.batch) \div (IF LatentCache(a) THEN 1 ELSE n)
        ac == (p.batch * p.len * a.hidden * ActivationBytes) \div n
        ws == w + kv + ac
    IN  [weights |-> w, cache |-> kv, activation |-> ac, working |-> ws,
         total |-> ws + (ws * OverheadFraction) \div 100]

\* Against: "tight" needs the overhead margin to fit.
Against(b, usable) ==
    IF b.total <= usable THEN "fits" ELSE IF b.working <= usable THEN "tight" ELSE "overcommitted"

UsableBytes(card, util) ==
    (card * (IF util <= 0 \/ util > 100 THEN DefaultUtilization ELSE util)) \div 100

\* The cost of one session on one card, times the tensor width.
SessionCost(a, p) ==
    KVBytesPerToken(a, p) * p.len * (IF LatentCache(a) THEN TensorWidth(p) ELSE 1)
        + p.len * a.hidden * ActivationBytes

\* MaxSessions: what remains of a card after the weights and the overhead,
\* in sessions.  The batch of the plan is not read.
MaxSessions(a, p, card, util) ==
    LET room == 100 * UsableBytes(card, util) - (100 + OverheadFraction) * weightBytesPerCard(a, p) IN
    IF room <= 0 THEN 0
    ELSE (room * TensorWidth(p)) \div ((100 + OverheadFraction) * SessionCost(a, p))

\* skipReason: a card count an engine would not be started with.
skipped(a, n, tp, axis) ==
    IF axis = "expert" THEN n % tp # 0 \/ (a.experts > 0 /\ a.experts % n # 0)
    ELSE n > 1 /\ ~LatentCache(a) /\ a.kvHeads % n # 0

\* The card counts a sweep tries: the powers of two, eight at most by default.
powers(maxCards) == Keep(<<1, 2, 4, 8>>, LAMBDA n : n <= (IF maxCards < 1 THEN 8 ELSE maxCards))

\* sweep: a row for every card count, along the tensor or the expert axis.
sweep(a, p, card, util, maxCards, axis) ==
    LET tp == TensorWidth(p)
        row(n) == IF skipped(a, n, tp, axis) THEN [cards |-> n, skip |-> TRUE]
                  ELSE LET b == Compute(a, IF axis = "expert" THEN [p EXCEPT !.ep = n] ELSE [p EXCEPT !.tp = n])
                       IN  [cards |-> n, skip |-> FALSE, budget |-> b, verdict |-> Against(b, UsableBytes(card, util))]
        tried == powers(maxCards)
    IN  IF ~ValidateArch(a) \/ card <= 0
           \/ (axis = "expert" /\ tp > 1 /\ ~LatentCache(a) /\ a.kvHeads % tp # 0)
        THEN [err |-> TRUE, rows |-> <<>>]
        ELSE [err |-> FALSE, rows |-> [k \in DOMAIN tried |-> row(tried[k])]]

(***************************************************************************)
(* iplane model budget.                                                    *)
(***************************************************************************)

\* powerOfTwo, of the widths that are tried.
powerOfTwo(n) == n \in {0, 1, 2, 4, 8}

\* budgetOptionsFromFlags: what is refused before the model is looked up.
flagsRefused(o) ==
    \/ o.card <= 0 \/ o.util <= 0 \/ o.util > 100 \/ o.maxCards < 1 \/ o.plan.batch < 1
    \/ o.plan.len < 0 \/ o.tp < 0 \/ (o.tp > 0 /\ o.maxCards < o.tp)
    \/ o.expertParallel /\ ~powerOfTwo(o.tp)
    \/ \E n \in ToSet(o.sessionsAt) : n <= 0

\* The plan the flags state: --tp is the width every row keeps, or the row.
planFromFlags(o) == [o.plan EXCEPT !.tp = IF o.expertParallel THEN o.tp ELSE 0]

planAtCards(o, n) ==
    LET p == planFromFlags(o) IN
    IF o.expertParallel THEN [p EXCEPT !.ep = n] ELSE [p EXCEPT !.tp = n]

\* budgetCandidates: all rows, or the one --tp names.
budgetCandidates(a, o) ==
    LET all == sweep(a, planFromFlags(o), o.card, o.util, o.maxCards,
                     IF o.expertParallel THEN "expert" ELSE "tensor")
        one == Keep(all.rows, LAMBDA r : r.cards = o.tp)
    IN  IF all.err \/ o.tp = 0 \/ o.expertParallel THEN all
        ELSE [err |-> one = <<>>, rows |-> one]

\* sessionCardLadder: the columns of the sessions table.
sessionCardLadder(o) ==
    IF o.tp > 0 /\ ~o.expertParallel THEN <<o.tp>>
    ELSE Keep(powers(o.maxCards),
              LAMBDA n : o.expertParallel => n % TensorWidth(planFromFlags(o)) = 0)

\* writeSessionsTable and writeSessionsJSON: how many sessions each column
\* holds at each context, and whether any holds one.
sessionsReport(a, o) ==
    LET cols == sessionCardLadder(o)
        cell(ctx, n) == MaxSessions(a, [planAtCards(o, n) EXCEPT !.len = ctx], o.card, o.util)
        table == [i \in DOMAIN o.sessionsAt |-> [k \in DOMAIN cols |-> cell(o.sessionsAt[i], cols[k])]]
    IN  [err |-> cols = <<>>, table |-> table,
         fits |-> \E i \in DOMAIN table : \E k \in DOMAIN cols : table[i][k] > 0]

\* largestTerm, and largestBudgetTerm of the pre-flight: the first of weights,
\* cache and activation that none exceeds.
largestTerm(b) ==
    IF b.weights >= b.cache /\ b.weights >= b.activation THEN "weights"
    ELSE IF b.cache >= b.activation THEN "cache" ELSE "activation"

\* renderModelBudget: without a context length the model's own is used; the
\* exit status is 0 when some row fits.
renderModelBudget(a, o) ==
    LET oo == IF o.plan.len = 0 THEN [o EXCEPT !.plan.len = a.maxPos] ELSE o
        got == budgetCandidates(a, oo)
        fitting == Keep(got.rows, LAMBDA r : ~r.skip /\ r.verdict = "fits")
    IN  IF ~ValidateArch(a) THEN [err |-> TRUE]
        ELSE IF o.sessionsAt # <<>> THEN sessionsReport(a, o)
        ELSE IF oo.plan.len <= 0 \/ got.err THEN [err |-> TRUE]
        ELSE [err |-> FALSE, fits |-> fitting # <<>>, rows |-> got.rows,
              fewest |-> IF fitting = <<>> THEN 0 ELSE Head(fitting).cards]

\* modelBudgetCmd: the exit status.  A packed checkpoint is refused.
modelBudgetCmd(a, o) ==
    IF flagsRefused(o) \/ a.quant # "" THEN [err |-> TRUE] ELSE renderModelBudget(a, o)

(***************************************************************************)
(* The pre-flight of a deploy.                                             *)
(***************************************************************************)

\* The settings among the engine's arguments, in order: "--flag=value", or a
\* flag and the argument after it, unless that is a flag too.  An argument
\* that is no flag has flag "".
settings(args) ==
    LET read[i \in 1..(Len(args) + 2)] ==
            IF i > Len(args) THEN <<>>
            ELSE IF args[i].eq THEN <<args[i]>> \o read[i + 1]
            ELSE IF i < Len(args) /\ args[i + 1].flag = ""
            THEN <<[args[i] EXCEPT !.num = args[i + 1].num, !.name = args[i + 1].name]>> \o read[i + 2]
            ELSE read[i + 1]
    IN  read[1]

\* A setting EnginePlan takes; any other is passed over.
legible(q) ==
    CASE q.flag \in {"max-model-len", "max-num-seqs"} -> q.num > 0
      [] q.flag \in {"quantization", "kv-cache-dtype"} -> q.name \in Precisions
      [] OTHER -> FALSE

\* The settings of one flag that are taken: the last of them counts.
said(all, f) == {k \in DOMAIN all : all[k].flag = f /\ legible(all[k])}

lastNum(all, f, d) == IF said(all, f) = {} THEN d ELSE all[Max(said(all, f))].num
lastName(all, f, d) == IF said(all, f) = {} THEN d ELSE all[Max(said(all, f))].name

\* EnginePlan: without a context length there is nothing to budget.
EnginePlan(args, par) ==
    LET all == settings(args) IN
    [usable |-> said(all, "max-model-len") # {},
     plan |-> [weights |-> lastName(all, "quantization", "fp16"), kv |-> lastName(all, "kv-cache-dtype", ""),
               len |-> lastNum(all, "max-model-len", 0), batch |-> lastNum(all, "max-num-seqs", 1),
               tp |-> par.tp, ep |-> par.ep]]

\* deployCardCapacity: of the machine the deploy is pinned to, or of the first
\* replica whose SKU has an exact capacity on record.  0 is not known.
deployCardCapacity(req) ==
    LET sized == Keep(req.specs, LAMBDA r : r.card > 0) IN
    IF req.pinned # <<>> THEN Head(req.pinned)
    ELSE IF sized = <<>> THEN [card |-> 0, cards |-> 0] ELSE Head(sized)

\* budgetCheck: only an overcommitted plan is refused, and only when every
\* input is known; without expert parallelism the cards rented are the width.
budgetCheck(req) ==
    LET got == EnginePlan(req.args, req.par)
        cap == deployCardCapacity(req)
        plan == IF cap.cards > 0 /\ req.par.ep <= 1 THEN [got.plan EXCEPT !.tp = cap.cards] ELSE got.plan
    IN  IF req.external \/ ~got.usable \/ cap.card <= 0 \/ req.arch = <<>> THEN "skipped"
        ELSE IF req.arch[1].quant # "" \/ ~ValidateArch(req.arch[1]) \/ ~ValidatePlan(plan) THEN "skipped"
        ELSE Against(Compute(req.arch[1], plan), UsableBytes(cap.card, DefaultUtilization))

\* ValidateExpertShape and expertShapeCheck: a known number of experts is
\* split evenly or the deploy is refused.
ValidateExpertShape(ep, a) == ep <= 1 \/ a = <<>> \/ a[1].experts <= 0 \/ a[1].experts % ep = 0

\* expertShapeCheck: the shape is only looked up for a deploy that splits experts.
expertShapeCheck(req) == req.par.ep <= 1 \/ ValidateExpertShape(req.par.ep, req.arch)

(***************************************************************************)
(* What a budget is asked about: a model whose counts are counts; a plan   *)
(* of known precisions that is not yet spread over cards; the arguments of *)
(* an engine; a deploy.                                                    *)
(***************************************************************************)

ModelArch ==
    [params : Nat, layers : Nat, kvHeads : Nat, headDim : Nat, hidden : Nat, maxPos : Nat, quant : STRING,
     experts : Nat, perTok : Nat, moeInter : Nat, expertHidden : Nat, dense : Nat, mtp : Nat, lora : Nat,
     rope : Nat, fullAttn : Nat]

BudgetPlan == [weights : Precisions, kv : STRING, len : Int, batch : Int, tp : Int, ep : {0}]

BudgetQuestion ==
    [plan : BudgetPlan, card : Int, util : Int, maxCards : Int, tp : Int, expertParallel : BOOLEAN, sessionsAt : {<<>>}]

EngineArg == [flag : STRING, eq : BOOLEAN, num : Int, name : STRING]

Machine == [card : Int, cards : Nat]

Preflight ==
    [external : BOOLEAN, par : [tp : Nat, ep : Nat], args : Seq(EngineArg),
     pinned : Seq(Machine), specs : Seq(Machine), arch : Seq(ModelArch)]

\* An expert split of one is a split for budgetCheck: its width is only sure
\* to be the larger claim when the routed experts are a part of the model.
SplitOfOneIsShaped(req) ==
    req.par.ep = 1 /\ req.arch # <<>> => RoutedExpertParams(req.arch[1]) <= req.arch[1].params

BudgetInput ==
    /\ part = "budget" => input \in [arch : ModelArch, opts : BudgetQuestion]
    /\ part = "flags" => input \in [args : Seq(EngineArg)]
    /\ part = "preflight" => input \in Preflight /\ SplitOfOneIsShaped(input)

-----------------------------------------------------------------------------
(***************************************************************************)
(* Properties.                                                             *)
(***************************************************************************)

\* A token passes through no more of a model than the cards hold and through
\* strictly less of it when some of its experts are not chosen.
ActiveIsSparse ==
    part = "budget" =>
        LET a == input.arch IN
        ValidateArch(a) /\ RoutedExpertParams(a) < a.params =>
            /\ ActiveParams(a) <= a.params
            /\ (a.experts > a.perTok /\ RoutedExpertParams(a) > 0) => ActiveParams(a) < a.params

\* The cards of a row hold the whole model between them: data-parallel ranks
\* repeat what is not an expert, and nothing is held by no card.
WeightsAllHeld ==
    part = "budget" =>
        LET a == input.arch
            bytes == BytesPerParam[input.opts.plan.weights]
            routed == RoutedExpertParams(a) * bytes
            width(n) == TensorWidth(planAtCards(input.opts, n))
            axis == IF input.opts.expertParallel THEN "expert" ELSE "tensor"
        IN  ValidateArch(a) => \A n \in {1, 2, 4} :
                skipped(a, n, width(n), axis)
                \/ 100 * n * (weightBytesPerCard(a, planAtCards(input.opts, n)) + 1)
                        > (a.params * bytes - routed) * (n \div width(n)) + routed

\* MaxSessions is the largest batch Compute still calls a fit, up to the few
\* bytes the truncations of Compute let through.
SessionsAgree ==
    part = "budget" =>
        LET a == input.arch
            o == input.opts
            usable == UsableBytes(o.card, o.util)
        IN  ValidateArch(a) => \A cards \in {1, 2, 4} :
                LET p == [planAtCards(o, cards) EXCEPT !.len = 1]
                    n == MaxSessions(a, p, o.card, o.util)
                    at(k) == Compute(a, [p EXCEPT !.batch = k])
                IN  /\ n > 0 => Against(at(n), usable) = "fits"
                    /\ at(n + 1).total + 4 > usable

\* The exit status of the budget report and the one of the sessions report
\* agree at one context length, up to the four usable bytes of a card that the
\* truncations let through: a plan said to fit is said to hold a session,
\* unless the report refuses the question.
ReportsAgree ==
    part = "budget" =>
        LET a == input.arch
            o == input.opts
            rows == modelBudgetCmd(a, o)
            ctx == IF o.plan.len = 0 THEN a.maxPos ELSE o.plan.len
            room == 400 \div o.util + 1
            held == modelBudgetCmd(a, [o EXCEPT !.sessionsAt = <<ctx>>, !.card = o.card + room])
        IN  (~rows.err /\ rows.fits) => ~held.err /\ held.fits

\* The plan is read from the arguments as the engine reads them: the last of
\* several settings counts, in either spelling, and a switch before a setting
\* does not hide it.
PlanReadsEveryFlag ==
    part = "flags" =>
        LET args == input.args
            stated == {i \in DOMAIN args : args[i].flag = "max-model-len" /\
                          IF args[i].eq THEN args[i].num > 0
                          ELSE i < Len(args) /\ args[i + 1].flag = "" /\ args[i + 1].num > 0}
            last == CHOOSE i \in stated : \A j \in stated : j <= i
            got == EnginePlan(args, [tp |-> 0, ep |-> 0])
        IN  /\ got.usable <=> stated # {}
            /\ stated # {} => got.plan.len = (IF args[last].eq THEN args[last].num ELSE args[last + 1].num)

\* A deploy is refused over memory only if the engine that would be started,
\* with the width it is really given and the weights as they are published,
\* overcommits a card of the machine.
RefusalIsCertain ==
    part = "preflight" =>
        LET cap == deployCardCapacity(input)
            got == EnginePlan(input.args, input.par)
            packed == [got.plan EXCEPT !.weights = "mxfp4"]
            plan == IF input.arch[1].quant # "" THEN packed ELSE got.plan
        IN  (budgetCheck(input) = "overcommitted" /\ input.par.tp <= cap.cards) =>
                Compute(input.arch[1], plan).working > UsableBytes(cap.card, DefaultUtilization)

\* The card with the most experts holds no more than the budget says, once the
\* shape has been accepted.
FullestCardBudgeted ==
    part = "preflight" =>
        LET a == input.arch[1]
            ep == input.par.ep
            plan == EnginePlan(input.args, input.par).plan
            most == (a.experts + ep - 1) \div ep
            rest == a.params - RoutedExpertParams(a)
            held == (rest * BytesPerParam[plan.weights]) \div (100 * TensorWidth(plan))
                        + (most * (RoutedExpertParams(a) \div a.experts) * BytesPerParam[plan.weights]) \div 100
        IN  (input.arch # <<>> /\ ep > 1 /\ a.experts > 0 /\ expertShapeCheck(input)) =>
                held <= weightBytesPerCard(a, plan) + 1

=============================================================================
