------------------------------ MODULE Estimate ------------------------------
(***************************************************************************)
(* What `sku estimate` makes of the prices a shard has: the estimators of  *)
(* internal/estimate that read prices by tiers.  The others multiply one   *)
(* flat price.                                                             *)
(*                                                                         *)
(* An estimate is asked for by what a row is published as: its name, its   *)
(* region and, of CDN rows, its mode.  Of the rows found the first by      *)
(* sku_id, an id of the provider's, is the one charged.  What is asked for *)
(* is a function from parameters to volumes, a parameter left out not      *)
(* being in its domain.                                                    *)
(***************************************************************************)
EXTENDS AwsSources, GcpSources, AzureSources

CONSTANT MaxVolume     \* the largest volume asked for
ASSUME VolumesBelowUnbounded == MaxVolume \in 0..(Unbounded - 1)

\* The sources whose rows an estimator reads, by estimator.
Sources ==
  [queue |-> {"aws_sqs", "azure_service_bus_queues", "azure_event_hubs", "gcp_pubsub_queues"},
   gateway |-> {"aws_api_gateway", "azure_apim"},
   dns |-> {"aws_route53", "gcp_cloud_dns"},
   cdn |-> {"aws_cloudfront", "azure_front_door", "gcp_cloud_cdn"}]

KindOf == [s \in UNION Range(Sources) |-> CHOOSE k \in DOMAIN Sources : s \in Sources[k]]

Refused     == [given |-> FALSE, usd |-> 0]
Charge(usd) == [given |-> TRUE, usd |-> usd]
-----------------------------------------------------------------------------
\* A tier takes what the tiers before it left, as far as it is wide.
Take(sum, t) ==
  LET used == IF t.to = Unbounded THEN sum.left ELSE Min({sum.left, t.to - t.from})
  IN  [left |-> sum.left - used, usd |-> sum.usd + used * t.usd]

\* Tiers in an order of their labels, as the query returns them.
WalkTiersAsRead(entries, volume) ==
  MapThenFoldSet(LAMBDA t, sum : Take(sum, t), [left |-> volume, usd |-> 0], LAMBDA t : t,
                 LAMBDA ts : CHOOSE t \in ts : \A u \in ts : t.from <= u.from, entries).usd

\* The lowest tier first: the fold takes the tier it chooses after the others.
WalkTiers(entries, volume) ==
  MapThenFoldSet(LAMBDA t, sum : Take(sum, t), [left |-> volume, usd |-> 0], LAMBDA t : t,
                 LAMBDA ts : CHOOSE t \in ts : \A u \in ts : u.from <= t.from, entries).usd

Entries(row, d) == {p \in row.prices : p.dim = d}

FirstIn(dims, S) == dims[Min({k \in DOMAIN dims : dims[k] \in S})]

\* The first of the dimensions that the row prices.
PerUse(row, dims, volume) ==
  LET priced == {d \in Range(dims) : Entries(row, d) # {}}
  IN  IF priced = {} THEN Refused
      ELSE Charge(WalkTiers(Entries(row, FirstIn(dims, priced)), volume))

Flatly(row, d, volume) ==
  LET start == {p \in Entries(row, d) : p.from = 0}
  IN  IF start = {} THEN Refused ELSE Charge(volume * (CHOOSE p \in start : TRUE).usd)

\* Of several parameters the first counts.
HourDims == <<"tu_hour", "ppu_hour", "mu_hour">>
QueueEstimate(row, want) ==
  LET hours == Range(HourDims) \intersect DOMAIN want
  IN  IF "ops" \in DOMAIN want THEN PerUse(row, <<"request", "call", "event">>, want["ops"])
      ELSE IF "tib" \in DOMAIN want THEN Charge(WalkTiers(Entries(row, "throughput"), want["tib"]))
      ELSE IF hours = {} THEN Refused
      ELSE Flatly(row, FirstIn(HourDims, hours), want[FirstIn(HourDims, hours)])

\* A row is priced per hour of a unit or per call; so must the query be.
GatewayEstimate(row, want) ==
  IF Entries(row, "unit_hour") # {}
  THEN IF "requests" \in DOMAIN want THEN Refused
       ELSE Flatly(row, "unit_hour", At(want, "units", 1))
  ELSE IF At(want, "requests", 0) = 0 \/ "units" \in DOMAIN want THEN Refused
  ELSE PerUse(row, <<"request", "call">>, want["requests"])

\* A dimension the row does not price is free.
DnsEstimate(row, want) ==
  LET zones == At(want, "zones", 0)
      queries == At(want, "queries", 0)
  IN  IF zones = 0 /\ queries = 0 THEN Refused
      ELSE Charge(WalkTiers(Entries(row, "hosted_zone"), zones)
                  + WalkTiers(Entries(row, "query"), queries))
-----------------------------------------------------------------------------
(* CDN egress: the first tier only, and the base fee of the same sku. *)

\* Where CloudFront's first tier ends, which its rows do not say.
FirstTierEnd == 1

CdnBound(src, tier) ==
  IF tier.to = Unbounded /\ src = "aws_cloudfront" THEN FirstTierEnd ELSE tier.to

\* The rows of the same sku that are a fee.
BaseFees(rs, row) ==
  {q \in rs : /\ q.region = "global"
              /\ \E sku \in {"standard", "premium"} :
                    /\ row.name = FrontDoorRow(<<sku, "egress">>)
                    /\ q.name = FrontDoorRow(<<sku, "fee">>)}

CdnEstimate(src, rs, row, want) ==
  LET start == {p \in Entries(row, "egress") : p.from = 0}
      tier  == CHOOSE p \in start : TRUE
      fees  == UNION {q.prices : q \in BaseFees(rs, row)}
  IN  IF "gb" \notin DOMAIN want \/ start = {} THEN Refused
      ELSE IF CdnBound(src, tier) < want["gb"] THEN Refused
      ELSE Charge(want["gb"] * tier.usd + SumFunction([p \in fees |-> p.usd]))

\* The estimate from a row.
EstimateOf(src, rs, row, want) ==
  CASE KindOf[src] = "queue"   -> QueueEstimate(row, want)
    [] KindOf[src] = "gateway" -> GatewayEstimate(row, want)
    [] KindOf[src] = "dns"     -> DnsEstimate(row, want)
    [] KindOf[src] = "cdn"     -> CdnEstimate(src, rs, row, want)

\* The region a row is published in.
PublishedIn(how, row) == At(how.filed, row.name, At(how.filed, row.region, row.region))

\* The rows found by what `row` is published as: geographies have one name.
Found(src, rs, row) ==
  LET how == Policy[src]
  IN  {q \in rs : /\ PublishedIn(how, q) = PublishedIn(how, row)
                  /\ q.name = row.name \/ {q.name, row.name} \subseteq DOMAIN how.filed
                  /\ KindOf[src] = "cdn" => Entries(q, "egress") # {}}

\* What may be answered: the estimate from the one of them that comes first.
Answers(src, rs, row, want) == {EstimateOf(src, rs, q, want) : q \in Found(src, rs, row)}
-----------------------------------------------------------------------------
\* The dimensions a parameter is about.
Measures ==
  [ops |-> {"request", "call", "event"}, tib |-> {"throughput"}, tu_hour |-> {"tu_hour"},
   ppu_hour |-> {"ppu_hour"}, mu_hour |-> {"mu_hour"}, requests |-> {"request", "call"},
   units |-> {"unit_hour"}, zones |-> {"hosted_zone"}, queries |-> {"query"},
   gb |-> {"egress"}]

Params ==
  [queue |-> {{"ops"}, {"tib"}, {"tu_hour"}, {"ppu_hour"}, {"mu_hour"}},
   gateway |-> {{"requests"}, {"units"}},
   dns |-> {{"zones"}, {"queries"}, {"zones", "queries"}},
   cdn |-> {{"gb"}}]

\* What one may ask of a row that prices it.
Wants(src, row) ==
  UNION {[ps -> 0..MaxVolume]
           : ps \in {qs \in Params[KindOf[src]] :
                       \A q \in qs : \E d \in Measures[q] : Entries(row, d) # {}}}

(* What the policies of the sources that an estimator reads have in common. *)

Estimated == DOMAIN Policy \intersect DOMAIN KindOf

\* Only rows of CDN egress, and of Pub/Sub's free tier, share a region.
ASSUME RowsAlone ==
  \A s \in Estimated :
    KindOf[s] = "cdn" \/ Policy[s].rate = "top" \/ (Policy[s].own = {} /\ Policy[s].filed = <<>>)

PublishedDims(how, m) == {At(how.shown, d, d) : d \in DimsOf(how, m)}

\* They publish the prices their items list, as they are, where they list them.
ASSUME EstimatedPlain ==
  \A s \in Estimated :
    /\ Policy[s].rate \in {"head", "top", "stated", "chain", "zip", "open"}
    /\ Policy[s].spread = {} /\ Policy[s].default = <<>>
    /\ Policy[s].free = {} /\ Policy[s].summed = {}

\* A row prices what a parameter is about in one dimension, and no calls where
\* it prices units.
ASSUME MeasuredOnce ==
  \A s \in Estimated : \A x \in Priced(Policy[s]) :
    LET dims == PublishedDims(Policy[s], x[1])
    IN  /\ \A q \in DOMAIN Measures : \A d, e \in dims \intersect Measures[q] : d = e
        /\ "unit_hour" \in dims => "request" \notin dims /\ "call" \notin dims

\* There is one price for an hour.
ASSUME HoursFlat ==
  \A s \in Estimated : \A x \in Priced(Policy[s]) :
    At(Policy[s].shown, x[2], x[2]) \in {"tu_hour", "ppu_hour", "mu_hour", "unit_hour"} =>
      Policy[s].rate = "head" /\ x[2] \notin DOMAIN Policy[s].ladder

\* CloudFront reads the tier that starts at 0, or nothing.
ASSUME FirstTierRead ==
  "aws_cloudfront" \in DOMAIN Policy => LET how == Policy["aws_cloudfront"] IN
    /\ how.rate = "head" /\ how.ladder = <<>>
    /\ \A x \in Priced(how) : x[2] \in how.based

\* Where a base fee goes with a row, it has a row of its own, once for all
\* regions, which nothing else makes or drops.
ASSUME FeesApart ==
  \A s \in Estimated : LET how == Policy[s] IN
    \A sku \in {"standard", "premium"} : \A x, y \in Priced(how) :
      x[1] = FrontDoorRow(<<sku, "egress">>) /\ y[1] = FrontDoorRow(<<sku, "fee">>) =>
        /\ KindOf[s] = "cdn"
        /\ y[1] \notin how.costs \union DOMAIN how.needs
        /\ y[2] \notin how.spare \union DOMAIN how.ladder
        /\ \A k \in DOMAIN how.sells : y \in how.sells[k] => k \in how.wide /\ how.sells[k] = {y}

\* The tiers of a dimension as the items the row was made of list them, or,
\* where items make tiers together, as they do.
ListedTiers(row, d) ==
  IF How.ladder # <<>> THEN Entries(row, d)
  ELSE UNION {Range(i.rates) : i \in {j \in feed.doc : \E p \in Entries(row, d) : p.n = j.n}}

\* Every unit of the volume at the price of the tier it falls into.
Bill(row, d, volume) ==
  SumFunction([u \in 0..(volume - 1) |->
                 (CHOOSE t \in ListedTiers(row, d) : t.from <= u /\ u < t.to).usd])

\* An item lists the tiers its source knows of: those it has bounds for; where
\* it reads one rate only, one without an end, or the first as far as CDN egress
\* is estimated.
Foreseen(src, how, i) ==
  LET rates == Range(i.rates)
      end   == IF src = "aws_cloudfront" THEN FirstTierEnd ELSE Unbounded
  IN  /\ Tile(rates)
      /\ \A s \in how.sells[i.kind] :
           IF how.rate = "zip" /\ s[2] \in DOMAIN how.bounds
           THEN {t.from : t \in rates} = Range(how.bounds[s[2]])
           ELSE how.rate \in {"head", "open", "zip"} =>
                  \A t \in rates : t.from = 0 => t.to = end

\* What is asked for in the dimensions a row prices it in.
PartsAsked(row, want) ==
  {x \in (DOMAIN want) \X UNION Range(Measures) : x[2] \in Measures[x[1]] /\ Entries(row, x[2]) # {}}
Charged(row, want) == SumFunction([x \in PartsAsked(row, want) |-> Bill(row, x[2], want[x[1]])])

\* The fees the document lists for the sku of the row.
Fees(row) ==
  {p \in UNION {Fills(How, i) : i \in feed.doc} :
     \E sku \in {"standard", "premium"} :
        /\ row.name = FrontDoorRow(<<sku, "egress">>)
        /\ p.row.name = FrontDoorRow(<<sku, "fee">>)}

\* What the provider would charge for it where the row is sold.
Due(row, want) == Charged(row, want) + SumFunction([p \in Fees(row) |-> p.usd])

\* Egress beyond the first tier listed.
Beyond(row, want) == \E t \in ListedTiers(row, "egress") : t.from = 0 /\ t.to < want["gb"]

\* The estimate is what the provider would charge, unit by unit and with the
\* base fee, in a zone of the region asked for: in that of the region, unless
\* two zones share it, which Zones 2 and 8 of Front Door and two geographies of
\* Cloud CDN do.  It is refused for nothing at all and for egress beyond the
\* first tier.  Pub/Sub, whose free tier is left out of the shard, is not spoken
\* of.
ChargedAsListed ==
  /\ phase = "written" /\ feed.src \in DOMAIN KindOf /\ How.rate # "top"
  /\ Unambiguous(How, feed.doc)
  /\ How.ladder = <<>> => \A i \in feed.doc : Taken(How, i) => Foreseen(feed.src, How, i)
  => \A row \in rows : \A want \in Wants(feed.src, row) :
       \A answer \in Answers(feed.src, rows, row, want) : \E q \in Found(feed.src, rows, row) :
         IF answer.given THEN answer.usd = Due(q, want)
         ELSE \/ \A x \in DOMAIN want : want[x] = 0
              \/ KindOf[feed.src] = "cdn" /\ Beyond(q, want)
=============================================================================
