------------------------------ MODULE Billing -------------------------------
(***************************************************************************)
(* What the metrics say a rented instance cost: its seconds and dollars,   *)
(* from the stamps on its record (billing.go, metrics/cost.go).  Times are *)
(* moments on one clock, NoTime a stamp that was never set.                *)
(***************************************************************************)
EXTENDS Cases, Integers

NoTime == -1

\* The meter starts when the machine was rented.
billingStart(rec) == IF rec.created # NoTime THEN rec.created ELSE rec.activated

\* BillingInstances: a record with neither stamp is none of ours.
BillingInstances(recs) ==
    {[id |-> r.id, rate |-> r.rate, since |-> billingStart(r), until |-> r.terminated] :
        r \in {r \in recs : billingStart(r) # NoTime}}

billedSeconds(b, now) ==
    LET end == IF b.until # NoTime THEN b.until ELSE now IN IF end < b.since THEN 0 ELSE end - b.since

\* The series of one scrape.
observeUptime(recs, now) == {[id |-> b.id, value |-> billedSeconds(b, now)] : b \in BillingInstances(recs)}

\* An instance without a price is in no sum: unknown is not free.
observeInstanceCost(recs, now) ==
    {[id |-> b.id, value |-> billedSeconds(b, now) * b.rate] : b \in {x \in BillingInstances(recs) : x.rate > 0}}

\* The record of a rental as it stood at a moment: created, activated and
\* terminated are when it was stamped, rented and released what the provider
\* charges for.
RecordAt(r, now) ==
    LET stamp(t) == IF t # NoTime /\ t <= now THEN t ELSE NoTime IN
    [id |-> "i", rate |-> r.rate, created |-> r.created, activated |-> stamp(r.activated),
     terminated |-> stamp(r.terminated)]

\* A rental in the order things happen: claimed, rented, up, released, stamped,
\* and two scrapes of it.
Rental ==
    LET time == Nat \cup {NoTime} IN
    [rate : Nat, created : Nat, rented : Nat, activated : time, released : time, terminated : time]

BillingInput ==
    part = "billing" =>
        /\ input \in [rental : Rental, first : Nat, second : Nat]
        /\ input.first <= input.second
        /\ input.rental.created <= input.rental.rented
        /\ input.rental.terminated # NoTime =>
               /\ input.rental.released # NoTime
               /\ input.rental.rented <= input.rental.released
               /\ input.rental.released <= input.rental.terminated

---------------------------------------------------------------------------

\* The bill covers the rental (#335): a scrape never shows less than the
\* provider has charged for, whatever the cold start took, and of a rental
\* that ended no more than the time between its two stamps.
BillCoversTheRental ==
    part = "billing" =>
        LET r     == input.rental
            now   == input.second
            meter == (IF r.released # NoTime /\ r.released <= now THEN r.released ELSE now) - r.rented
        IN  r.rented <= now =>
                \E o \in observeUptime({RecordAt(r, now)}, now) :
                    /\ o.value >= meter
                    /\ r.terminated # NoTime /\ r.terminated <= now => o.value <= r.terminated - r.created

\* Both counters only climb, and a terminated instance holds its last figure
\* (billedSeconds): between two scrapes, whichever stamps were written.
CountersNeverRunBack ==
    part = "billing" =>
        LET r   == input.rental
            at(t, Observe(_, _)) == Observe({RecordAt(r, t)}, t)
            climbs(Observe(_, _)) ==
                \A a \in at(input.first, Observe), b \in at(input.second, Observe) :
                    /\ a.value <= b.value
                    /\ r.terminated # NoTime /\ r.terminated <= input.first => a.value = b.value
        IN  climbs(observeUptime) /\ climbs(observeInstanceCost)

\* What a rental is said to cost is what it costs: the bill covers the rental
\* and the counters do not run back.
BillingSound == CountersNeverRunBack /\ BillCoversTheRental

=============================================================================
