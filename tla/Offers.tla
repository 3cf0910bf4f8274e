------------------------------- MODULE Offers -------------------------------
(***************************************************************************)
(* What each provider can be asked for right now: the SKU catalogs and the *)
(* candidate listings of RunPod, Vast and Lambda Labs, and Vast's          *)
(* marketplace query, which the listing and the rental share.              *)
(*                                                                         *)
(* Prices are small numbers, memory is what the provider reports: GB on    *)
(* RunPod and Lambda, MiB on Vast.                                         *)
(***************************************************************************)
EXTENDS Capacity

\* One row for each kind of card a catalog tells apart: two parts under one
\* name on the wire, a decimal label, a card without a link.
sku(token, wire, vram, max, family, price) ==
    [token |-> token, wire |-> wire, vram |-> vram, max |-> max, family |-> family, price |-> price,
     ram |-> 0, gpus |-> 0, arch |-> ""]

vastSkus == << sku("a100-40", "a100", 40, 40, "pcie", 1), sku("l40s", "l40s", 48, 0, "l40s", 2),
               sku("a100", "a100", 80, 0, "pcie", 3), sku("b300", "b300", 288, 0, "sxm", 5) >>

runpodSkus == << sku("l40s", "", 48, 0, "l40s", 2), sku("a100", "", 80, 0, "sxm", 3) >>

lambdaSkus == << [sku("gh200", "", 96, 0, "sxm", 2) EXCEPT !.gpus = 1, !.arch = "arm64"],
                 [sku("8xa100", "", 80, 0, "sxm", 4) EXCEPT !.gpus = 8, !.arch = "amd64"] >>

\* LookupSKU; an operator may name a card outside the catalog.
LookupSKU(skus, token) ==
    LET found == Keep(skus, LAMBDA e : e.token = token) IN
    IF found = <<>> THEN sku(token, "", 0, 0, "unlisted", 0) ELSE found[1]

Tokens(entries) == [i \in DOMAIN entries |-> entries[i].token]

\* candidateSKUs: the card the operator named, or every row that fits.
candidateSKUs(skus, reqs, mode) == IF reqs.sku # "" THEN <<reqs.sku>> ELSE Tokens(Match(skus, reqs, mode))

\* What a record says of the fabric (stampFabric): RunPod and Lambda publish no
\* reading, Vast one per host, in gigabytes.
runpodFabric(token)       == Resolve(LookupSKU(runpodSkus, token).family, NoReading)
lambdaFabric(token)       == Resolve(LookupSKU(lambdaSkus, token).family, NoReading)
vastFabric(token, nvlink) == Resolve(LookupSKU(vastSkus, token).family, 8 * nvlink)

\* MatchSKUs of the two providers without a reading, or the card named.
runpodEligible(reqs) == ToSet(candidateSKUs(runpodSkus, reqs, "declared"))
lambdaEligible(reqs) == ToSet(candidateSKUs(lambdaSkus, reqs, "declared"))

(***************************************************************************)
(* Vast: a marketplace of hosts.                                           *)
(***************************************************************************)

\* What Vast says of a host, and which card (of several under the name) it is;
\* good: at or above the floors of bandwidth and reliability.
offerSummary(id, name, card, vram, nvlink, price, bid, good, ram) ==
    [id |-> id, name |-> name, card |-> card, vram |-> vram, nvlink |-> nvlink, price |-> price, bid |-> bid,
     good |-> good, ram |-> ram, gpus |-> 2, disk |-> 100, geo |-> "eu", arch |-> "amd64"]

gpuNameForVast(token) ==
    LET row == LookupSKU(vastSkus, token) IN IF row.wire # "" THEN row.wire ELSE token

Larger(a, b) == IF a > b THEN a ELSE b

\* The larger of what was asked and what the row says, converted as decimal,
\* with three percent of slack.
offerVRAMFloorMB(token, reqs) ==
    (Larger(reqs.minVram, LookupSKU(vastSkus, token).vram) * 953 * 97) \div 100

\* Only a row that shares its name bounds the card from above.
offerVRAMCeilingMB(token) == LookupSKU(vastSkus, token).max * 1100

\* The link, in gigabytes: at least one where a link is asked for, none where
\* none is.
fabricFilter(o, reqs) ==
    /\ reqs.scope = "intra" => o.nvlink >= (IF reqs.minGbps \div 8 < 1 THEN 1 ELSE reqs.minGbps \div 8)
    /\ reqs.scope = "none" => o.nvlink <= 0

\* The disk a rental asks for unless told.
defaultDiskGB == 60

\* searchOffers: the query, cheapest first, a page of it.  A host too slow or
\* too flaky is filtered whoever asks.
searchOffers(market, token, reqs, limit) ==
    LET meets(o) ==
            /\ o.name = gpuNameForVast(token)
            /\ o.gpus = Cards(reqs.gpus)
            /\ o.disk >= (IF reqs.disk <= 0 THEN defaultDiskGB ELSE reqs.disk)
            /\ reqs.minRam > 0 => o.ram >= reqs.minRam * 1000
            /\ o.vram >= offerVRAMFloorMB(token, reqs)
            /\ offerVRAMCeilingMB(token) > 0 => o.vram <= offerVRAMCeilingMB(token)
            /\ fabricFilter(o, reqs)
            /\ o.good
    IN  AtMost(limit, CheapestFirst(Keep(market, meets)))

spawnOfferLimit == 5
candidateOfferLimit == 20

\* Mutant: the rental's own query leaves out the fabric.
findAnyOffer_AnyFabric(market, reqs) ==
    LET skus  == candidateSKUs(vastSkus, reqs, "prefilter")
        found == [i \in DOMAIN skus |-> searchOffers(market, skus[i], [reqs EXCEPT !.scope = "any"], spawnOfferLimit)]
        with  == {i \in DOMAIN skus : found[i] # <<>>}
    IN  IF with = {} THEN <<>> ELSE <<Head(found[CHOOSE i \in with : \A j \in with : i <= j])>>

\* findAnyOffer: the first SKU that has an offer.
findAnyOffer(market, reqs) ==
    LET skus  == candidateSKUs(vastSkus, reqs, "prefilter")
        found == [i \in DOMAIN skus |-> searchOffers(market, skus[i], reqs, spawnOfferLimit)]
        with  == {i \in DOMAIN skus : found[i] # <<>>}
    IN  IF with = {} THEN <<>> ELSE <<Head(found[CHOOSE i \in with : \A j \in with : i <= j])>>

\* offerToCandidate: a bid is quoted where one was asked for and exists.
offerToCandidate(token, o, reqs) ==
    LET bids == reqs.reclaim /\ o.bid > 0 IN
    [sku |-> token, offer |-> o.id, region |-> o.geo, reclaimable |-> bids, price |-> IF bids THEN o.bid ELSE o.price,
     vram |-> o.vram \div 1000, arch |-> o.arch, fabric |-> vastFabric(token, o.nvlink)]

vastCandidates(market, reqs) ==
    LET skus == candidateSKUs(vastSkus, reqs, "prefilter")
        rows(i) == LET page == searchOffers(market, skus[i], reqs, candidateOfferLimit) IN
                   [k \in DOMAIN page |-> offerToCandidate(skus[i], page[k], reqs)]
    IN  CheapestFirst(Joined([i \in DOMAIN skus |-> rows(i)]))

(***************************************************************************)
(* RunPod: types, at a width, in datacenters.                              *)
(***************************************************************************)

\* What RunPod says of a type at the width asked for; 0 and "" are null.
gpuType(id, price, bid, stock, places) ==
    [id |-> id, price |-> price, bid |-> bid, stock |-> stock, places |-> places]

\* datacentersByType: where the type can be had at this width.
datacentersByType(t) == Keep(t.places, LAMBDA dc : dc.available)

\* The price of the tier asked for; a bid that is no discount is not a tier.
runpodPrice(t, reqs) ==
    IF ~reqs.reclaim THEN <<t.price>>
    ELSE IF t.bid = 0 \/ t.bid >= t.price THEN <<>> ELSE <<t.bid>>

\* A type no datacenter mentions is still offered, without a region.
runpodPlaces(t) ==
    IF datacentersByType(t) = <<>> THEN << [id |-> "", stock |-> "", available |-> TRUE] >> ELSE datacentersByType(t)

\* A type without a price or a stock level cannot be had at this width.
runpodRows(t, reqs) ==
    LET price == runpodPrice(t, reqs)
        at    == runpodPlaces(t)
        row(dc) == [sku |-> t.id, region |-> dc.id, price |-> price[1], reclaimable |-> reqs.reclaim,
                    stock |-> IF dc.stock # "" THEN dc.stock ELSE t.stock, arch |-> "",
                    fabric |-> runpodFabric(t.id)]
    IN  IF t.stock = "" \/ t.price = 0 \/ price = <<>> THEN <<>> ELSE [i \in DOMAIN at |-> row(at[i])]

runpodCandidates(types, reqs) ==
    LET offered == Keep(types, LAMBDA t : t.id \in runpodEligible(reqs))
    IN  CheapestFirst(Joined([i \in DOMAIN offered |-> runpodRows(offered[i], reqs)]))

(***************************************************************************)
(* Lambda Labs: shapes, in regions, at one price.                          *)
(***************************************************************************)

typeToCandidate(s, region) ==
    [sku |-> s.id, region |-> region, price |-> s.price, reclaimable |-> FALSE,
     vram |-> LookupSKU(lambdaSkus, s.id).vram, arch |-> s.arch, fabric |-> lambdaFabric(s.id)]

\* There is no tier below on-demand to quote.
lambdaCandidates(shapes, reqs) ==
    LET offered == Keep(shapes, LAMBDA s : s.id \in lambdaEligible(reqs))
        rows(s) == [i \in DOMAIN s.regions |-> typeToCandidate(s, s.regions[i])]
    IN  IF reqs.reclaim THEN <<>> ELSE CheapestFirst(Joined([i \in DOMAIN offered |-> rows(offered[i])]))

(***************************************************************************)
(* What the listings are given: typed requests and answers, Vast hosts     *)
(* that are one of the catalog's cards, RunPod types told apart by id.     *)
(***************************************************************************)

OfferQuery ==
    [sku : STRING, minVram : Int, minRam : Int, gpus : Int, arch : STRING, scope : STRING, minGbps : Int,
     disk : Int, reclaim : BOOLEAN]

VastHost ==
    [id : Int, name : STRING, card : STRING, vram : Int, nvlink : Int, price : Int, bid : Int, good : BOOLEAN,
     ram : Int, gpus : Int, disk : Int, geo : STRING, arch : STRING]

\* A host goes by its card's name on the wire and reports its card's memory:
\* for each nominal GB, what is left of one decimal GB after the driver's
\* share, or at most a binary one and a bit.
ReportsItsCard(o) ==
    \E k \in DOMAIN vastSkus :
        /\ o.card = vastSkus[k].token /\ o.name = vastSkus[k].wire
        /\ o.vram >= vastSkus[k].vram * 930 /\ o.vram <= vastSkus[k].vram * 1100

RunPodType ==
    [id : STRING, price : Int, bid : Int, stock : STRING,
     places : Seq([id : STRING, stock : STRING, available : BOOLEAN])]

OffersInput ==
    /\ part = "vast offers" => /\ input \in [market : Seq(VastHost), reqs : OfferQuery]
                              /\ \A o \in ToSet(input.market) : ReportsItsCard(o)
    /\ part = "runpod offers" => /\ input.types \in Seq(RunPodType)
                                /\ \A t, u \in ToSet(input.types) : t.id = u.id => t = u

---------------------------------------------------------------------------

\* The listing and the rental ask Vast the same question (searchOffers' own
\* reason to exist): what Spawn would rent now is on the list, at the price it
\* would be rented at, and an empty list means a rental finds nothing.
SpawnedIsListed ==
    part = "vast offers" =>
        LET listed == ToSet(vastCandidates(input.market, [input.reqs EXCEPT !.reclaim = FALSE]))
            picked == findAnyOffer(input.market, input.reqs)
        IN  /\ picked = <<>> <=> listed = {}
            /\ picked # <<>> => \E c \in listed : c.offer = picked[1].id /\ c.price = picked[1].price

\* Naming a Vast SKU gets that card (offerVRAMFloorMB, offerVRAMCeilingMB):
\* every host that has it passes the query's memory band, and a host with the
\* other part of the same name never does.
NamedCardIsMeant ==
    part = "vast offers" =>
        \A token \in ToSet(Tokens(vastSkus)), o \in ToSet(input.market) :
            LET none == [input.reqs EXCEPT !.minVram = 0]
                band == /\ o.name = gpuNameForVast(token) /\ o.vram >= offerVRAMFloorMB(token, none)
                        /\ offerVRAMCeilingMB(token) > 0 => o.vram <= offerVRAMCeilingMB(token)
            IN  band <=> o.card = token

\* What is listed for a fabric has it (searchOffers, fabric.go): no host of a
\* control arm has a measured link, and a host listed for a linked request has
\* one as fast as asked, to Vast's whole gigabyte.
ListedFabricIsMeant ==
    part = "vast offers" =>
        \A c \in ToSet(vastCandidates(input.market, input.reqs)) :
            /\ input.reqs.scope = "none" => c.fabric.scope # "intra" \/ c.fabric.source # "measured"
            /\ input.reqs.scope = "intra" =>
                   (c.fabric.source # "unknown" => c.fabric.gbps >= 8 /\ c.fabric.gbps > input.reqs.minGbps - 8)

\* A reclaimable rental is a discount (#288): asked for one, RunPod lists only
\* rows below the on-demand price of the type, and Lambda lists none.
ReclaimIsADiscount ==
    part = "runpod offers" /\ input.reqs.reclaim =>
        /\ \A c \in ToSet(runpodCandidates(input.types, input.reqs)) :
               \A t \in ToSet(input.types) : t.id = c.sku => c.reclaimable /\ c.price < t.price
        /\ lambdaCandidates(input.shapes, input.reqs) = <<>>

\* Where a card can be had is extra: a type RunPod can provide at this width
\* is listed, once for each datacenter that has it, and not in one that does
\* not.
EveryTypeIsListed ==
    part = "runpod offers" /\ ~input.reqs.reclaim =>
        LET listed == ToSet(runpodCandidates(input.types, input.reqs)) IN
        \A t \in ToSet(input.types) :
            LET at == {c.region : c \in {d \in listed : d.sku = t.id}}
                has == {dc.id : dc \in {d \in ToSet(t.places) : d.available}}
            IN  t.id \in runpodEligible(input.reqs) /\ t.stock # "" /\ t.price > 0
                    => at # {} /\ (has # {} => at = has)

\* The offers listed are the offers rented: card, fabric and price mean the same
\* to the listing, to the search behind it and to the request.
OffersSound ==
    /\ SpawnedIsListed /\ NamedCardIsMeant /\ ListedFabricIsMeant
    /\ ReclaimIsADiscount /\ EveryTypeIsListed

=============================================================================
