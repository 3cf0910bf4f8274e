------------------------------ MODULE Capacity ------------------------------
(***************************************************************************)
(* Which hardware a request may get: the fabric verdicts                   *)
(* (internal/provisioners/fabric), the shared catalog resolver             *)
(* (internal/provisioners/skucatalog), the search over several providers   *)
(* and the placement it ends in (candidates_across.go, placement.go), and  *)
(* the split of an engine over the cards of one machine (parallelism.go).  *)
(*                                                                         *)
(* All of it is functions of what the providers answered.  A GPU family is *)
(* known by what its board can do, a SKU by its row of the catalog, prices *)
(* are small numbers.                                                      *)
(***************************************************************************)
EXTENDS Cases, Lists, Integers, Sequences, FiniteSets, SequencesExt

\* One family for each capability; a family without an entry is unknown.
FabricCatalog ==
    [sxm  |-> [cap |-> "always",   peak |-> 4800],
     pcie |-> [cap |-> "optional", peak |-> 4800],
     l40s |-> [cap |-> "none",     peak |-> 0]]

Families == DOMAIN FabricCatalog \cup {"unlisted"}

\* A provider that reports no bandwidth.  Zero is a reading.
NoReading == -1

UnknownFabric == [scope |-> "any", source |-> "unknown", gbps |-> 0]

\* Resolve: a positive reading outranks the catalog, a zero is believed only
\* of a card that has no fabric, and a card that may or may not be bridged is
\* unknown without a reading.
Resolve(family, reading) ==
    LET cap == FabricCatalog[family].cap IN
    IF family \notin DOMAIN FabricCatalog THEN UnknownFabric
    ELSE IF reading > 0 THEN [scope |-> "intra", source |-> "measured", gbps |-> reading]
    ELSE IF cap = "none"
    THEN [scope |-> "none", source |-> IF reading = 0 THEN "measured" ELSE "declared", gbps |-> 0]
    ELSE IF cap = "always" /\ reading = NoReading
    THEN [scope |-> "intra", source |-> "declared", gbps |-> FabricCatalog[family].peak]
    ELSE UnknownFabric

\* Satisfies: what cannot be vouched for satisfies no stated requirement.
Satisfies(got, scope, minGbps) ==
    scope # "any" => /\ got.source # "unknown"
                     /\ got.scope = scope
                     /\ minGbps <= 0 \/ got.gbps >= minGbps

\* Mutant: a card that is only sometimes bridged is not searched at all.
CouldSatisfy_Strict(family, scope) ==
    scope # "any" =>
        /\ family \in DOMAIN FabricCatalog
        /\ CASE scope = "none"  -> FabricCatalog[family].cap = "none"
             [] scope = "intra" -> FabricCatalog[family].cap = "always"
             [] OTHER           -> FALSE

\* CouldSatisfy: whether a family is worth searching where offers are measured.
CouldSatisfy(family, scope) ==
    scope # "any" =>
        /\ family \in DOMAIN FabricCatalog
        /\ CASE scope = "none"  -> FabricCatalog[family].cap = "none"
             [] scope = "intra" -> FabricCatalog[family].cap # "none"
             [] OTHER           -> FALSE

satisfiesFabric(family, reqs, mode) ==
    IF mode = "prefilter" THEN CouldSatisfy(family, reqs.scope)
    ELSE Satisfies(Resolve(family, NoReading), reqs.scope, reqs.minGbps)

\* Stable order by price.
CheapestFirst(s) ==
    LET cheaper == {p \in (DOMAIN s) \X (DOMAIN s) : \/ s[p[1]].price < s[p[2]].price
                                                     \/ s[p[1]].price = s[p[2]].price /\ p[1] < p[2]}
    IN  At(s, Listed(DOMAIN s, cheaper))

AtMost(n, s) == SubSeq(s, 1, IF Len(s) < n THEN Len(s) ELSE n)

\* The most SKUs a resolution returns.
MaxResults == 5

\* The cards a request is for: none stated means one.
Cards(n) == IF n <= 0 THEN 1 ELSE n

\* What a row must meet.  A sizing fact the provider does not publish (0, "")
\* does not filter; memory is published per card and asked for per instance.
RowFits(e, reqs, mode) ==
    /\ e.vram >= reqs.minVram
    /\ e.ram = 0 \/ reqs.minRam <= 0 \/ e.ram * Cards(reqs.gpus) >= reqs.minRam
    /\ e.gpus = 0 \/ reqs.gpus <= 0 \/ e.gpus >= reqs.gpus
    /\ reqs.arch = "" \/ e.arch \in {"", reqs.arch}
    /\ satisfiesFabric(e.family, reqs, mode)

\* Match: the rows that fit, cheapest first, the cheapest few of them.
Match(entries, reqs, mode) ==
    AtMost(MaxResults, CheapestFirst(Keep(entries, LAMBDA e : RowFits(e, reqs, mode))))

(***************************************************************************)
(* Several providers are asked at once; each answer stands on its own.     *)
(***************************************************************************)

\* CandidatesFrom and answerFor: a provider that cannot list, one that failed,
\* one that has nothing and one that has something are four answers.  offer is
\* what the provider said: its candidates, or why there are none.
answerFor(name, offer, arch) ==
    LET kept == Keep(offer.cands, LAMBDA c : c.arch \in {"", arch}) IN
    [provider |-> name,
     outcome  |-> IF offer.says # "ok" THEN offer.says
                  ELSE IF (IF arch = "" THEN offer.cands ELSE kept) = <<>> THEN "no_capacity"
                  ELSE "answered",
     cands    |-> IF offer.says # "ok" THEN <<>> ELSE IF arch = "" THEN offer.cands ELSE kept]

\* ListCandidatesAcross, over the providers in the order asked.
ListCandidatesAcross(offers, arch) ==
    [i \in DOMAIN offers |-> answerFor(i, offers[i], arch)]

MergeCandidates(answers) ==
    CheapestFirst(Joined([i \in DOMAIN answers |-> answers[i].cands]))

\* The facts worth comparing, and who reports each, among those who answered.
ReportsFact(answer, fact) == \E c \in ToSet(answer.cands) : fact \in c.facts

AnalyzeComparability(answers) ==
    LET who == {i \in DOMAIN answers : answers[i].outcome = "answered"}
        yes(f) == {i \in who : ReportsFact(answers[i], f)}
        facts  == {"region", "host", "arch", "fabric"}
    IN  IF Cardinality(who) < 2 THEN [compared |-> {}, gaps |-> {}]
        ELSE [compared |-> {f \in facts : yes(f) = who},
              gaps     |-> {f \in facts : yes(f) \notin {{}, who}}]

\* noPlacementError: nothing on the market, nobody reached, nobody can say.
noPlacementError(answers) ==
    LET some(kinds) == \E i \in DOMAIN answers : answers[i].outcome \in kinds IN
    IF some({"answered", "no_capacity"}) THEN "exhausted"
    ELSE IF some({"failed"}) THEN "unavailable" ELSE "unimplemented"

\* The runners-up a placement carries.
maxRunners == 3

SelectCheapest(offers, arch) ==
    LET answers == ListCandidatesAcross(offers, arch)
        ranked  == MergeCandidates(answers)
    IN  IF ranked = <<>> THEN [err |-> noPlacementError(answers), ranked |-> <<>>]
        ELSE [err |-> "", ranked |-> AtMost(1 + maxRunners, ranked),
              considered |-> Len(ranked), comparable |-> AnalyzeComparability(answers)]

(***************************************************************************)
(* Splitting one engine over the cards of one machine.                     *)
(***************************************************************************)

\* The cards a split occupies.
CardsOf(tp, pp, dp) == tp * pp * dp

\* dataParallelWidth: 0 when no whole width gives the expert degree.
dataParallelWidth(tp, ep) ==
    IF ep <= 1 THEN 1 ELSE IF ep % tp # 0 THEN 0 ELSE ep \div tp

\* deploymentGPUCount: an attached engine's cards are not ours to count; no
\* specs at all is a deployment pinned to machines.
deploymentGPUCount(specs) ==
    IF \E k \in DOMAIN specs : specs[k].endpoint \/ specs[k].gpus # NoReading
    THEN LET k == CHOOSE k \in DOMAIN specs :
                     /\ specs[k].endpoint \/ specs[k].gpus # NoReading
                     /\ \A j \in 1..(k - 1) : ~specs[j].endpoint /\ specs[j].gpus = NoReading
         IN  IF specs[k].endpoint THEN [cards |-> 0, known |-> FALSE]
             ELSE [cards |-> specs[k].gpus, known |-> TRUE]
    ELSE [cards |-> 0, known |-> specs # <<>>]

\* parallelismArgs: the flags the engine is started with.  A one-way split is
\* left unsaid, except the tensor split under expert parallelism.
parallelismArgs(tp, pp, dp, ep) ==
    LET flags == [tp |-> tp, pp |-> pp, dp |-> dp, experts |-> 1]
        said  == {d \in {"tp", "pp", "dp"} : flags[d] > 1} \cup (IF ep > 1 THEN {"tp", "experts"} ELSE {})
    IN  Restrict(flags, said)

\* ValidateParallelism: the engine's flags, or a refusal.
ValidateParallelism(p, count) ==
    LET tp == Cards(p.tp)
        pp == Cards(p.pp)
        dp == dataParallelWidth(tp, p.ep)
    IN  IF {p.tp, p.pp, p.ep} = {0} THEN [err |-> FALSE, args |-> <<>>]
        ELSE IF (\E n \in {p.tp, p.pp, p.ep} : n < 0) \/ dp = 0 THEN [err |-> TRUE, args |-> <<>>]
        ELSE IF count.known /\ CardsOf(tp, pp, dp) > Cards(count.cards)
        THEN [err |-> TRUE, args |-> <<>>]
        ELSE [err |-> FALSE, args |-> parallelismArgs(tp, pp, dp, p.ep)]

(***************************************************************************)
(* What these parts are given: rows and candidates with a price, numbers   *)
(* where numbers are asked for, an answer of every provider.               *)
(***************************************************************************)

SkuRow == [vram : Int, ram : Int, gpus : Int, arch : STRING, family : STRING, price : Int]

SkuQuery == [minVram : Int, minRam : Int, gpus : Int, arch : STRING, scope : STRING, minGbps : Int]

CandidateRow == [price : Int, arch : STRING, facts : SUBSET STRING]

ProviderOffer == [says : {"cannot", "failed", "ok"}, cands : Seq(CandidateRow)]

CapacityInput ==
    /\ part = "fabric" => input \in [family : STRING, reading : Int, scope : STRING, minGbps : Int]
    /\ part = "match" => input \in [rows : Seq(SkuRow), reqs : SkuQuery, mode : {"declared", "prefilter"}]
    /\ part = "placement" => input \in [offers : Seq(ProviderOffer), arch : STRING]
    /\ part = "split" => input \in [split : [tp : Int, pp : Int, ep : Int],
                                    specs : Seq([endpoint : BOOLEAN, gpus : Int])]

-----------------------------------------------------------------------------
(***************************************************************************)
(* Properties.                                                             *)
(***************************************************************************)

\* The search of a provider that measures never skips a family of which some
\* offer, once measured, meets the requirement (CouldSatisfy against Resolve
\* and Satisfies).  A card without a fabric has no bandwidth to measure.
PrefilterLosesNothing ==
    (part = "fabric" /\ (input.family = "l40s" => input.reading <= 0)) =>
        (Satisfies(Resolve(input.family, input.reading), input.scope, input.minGbps)
            => CouldSatisfy(input.family, input.scope))

\* Whatever hardware meets the request is either returned by Match or passed
\* over for a full list of rows that cost no more; nothing is excluded over a
\* figure its provider does not publish or publishes in another unit.
MatchCheapest ==
    part = "match" =>
        LET got == Match(input.rows, input.reqs, input.mode)
            able(e) == /\ e.vram >= input.reqs.minVram
                       /\ e.ram * Cards(input.reqs.gpus) >= input.reqs.minRam
                       /\ e.gpus = 0 \/ e.gpus >= input.reqs.gpus
                       /\ e.arch = input.reqs.arch \/ "" \in {e.arch, input.reqs.arch}
                       /\ input.reqs.scope = "any"
        IN  \A e \in ToSet(input.rows) :
                able(e) => \/ e \in ToSet(got)
                           \/ /\ Len(got) = MaxResults
                              /\ \A k \in DOMAIN got : got[k].price <= e.price

\* SelectCheapest picks what no other provider undercuts, of the architecture
\* asked for, and says "exhausted" only when somebody looked and nobody had
\* anything.
PlacementCheapest ==
    part = "placement" =>
        LET got  == SelectCheapest(input.offers, input.arch)
            fits == {c \in UNION {ToSet(o.cands) : o \in {x \in ToSet(input.offers) : x.says = "ok"}} :
                        input.arch = "" \/ c.arch \in {"", input.arch}}
        IN  IF fits # {} THEN /\ got.err = ""
                              /\ got.ranked[1] \in fits
                              /\ \A c \in fits : got.ranked[1].price <= c.price
            ELSE got.err = "exhausted" <=> \E o \in ToSet(input.offers) : o.says = "ok"

\* An engine started with the flags of an accepted split needs no more cards
\* than the machine has, and derives the expert degree that was asked for.
SplitFits ==
    part = "split" =>
        LET got == ValidateParallelism(input.split, deploymentGPUCount(input.specs))
            arg(d) == IF d \in DOMAIN got.args THEN got.args[d] ELSE 1
        IN  (~got.err /\ input.specs # <<>>) =>
               /\ ~input.specs[1].endpoint /\ input.specs[1].gpus # NoReading =>
                      arg("tp") * arg("pp") * arg("dp") <= Cards(input.specs[1].gpus)
               /\ input.split.ep > 1 => arg("tp") * arg("dp") = input.split.ep

\* The search for capacity is exact: the pre-filter drops no machine that would
\* have fitted, matching and placement take the cheapest that does, and a split
\* of the model uses the cards it is given.
CapacitySound == PrefilterLosesNothing /\ MatchCheapest /\ PlacementCheapest /\ SplitFits

=============================================================================
