----------------------------- MODULE Validation -----------------------------
(***************************************************************************)
(* pipeline/validate: a sample of a published shard is looked up at the    *)
(* provider again, price by price.  The provider may change its list       *)
(* before and in between, requests fail, and what a request finds may      *)
(* stand for several things.                                               *)
(*                                                                         *)
(*   sku       the first rate of the item of that id, or of which the      *)
(*             sku_id is a suffixed id and the region is served  (GCP)     *)
(*   title     the first thing sold under that name, wherever  (GKE)       *)
(*   words     the first thing of that name, dimension, region (GKE, EKS)  *)
(*   alike     all items of that name and region, if they agree  (RDS,     *)
(*             ElastiCache)                                                *)
(*   meter     the same, one name for several meters           (Azure)     *)
(*   meterid   all of that id and region, likewise      (App Service)      *)
(*   head      the first item of that name and region   (EC2, OpenSearch)  *)
(*   endpoint  the first endpoint of that sku_id, from an answer kept for  *)
(*             the whole run                                  (OpenRouter) *)
(*   free      nothing is asked, the price is nought       (aks-free)      *)
(*   none      nothing is asked     (OpenSearch Serverless, virtual nodes) *)
(***************************************************************************)
EXTENDS Integers, FiniteSets, FiniteSetsExt, SequencesExt

CONSTANTS Listing,     \* name of a source -> version -> the items listed
          Budget       \* how many prices to look up

VARIABLES upstream,  \* the version the provider publishes
          src,       \* the source: its name, skipped and primary
          shard,     \* the version of each part the released shard is made of
          stage,     \* idle, checking, or the exit of the report
          sampled,   \* the prices sampled, the others included
          left,      \* those still to be looked up
          missing,   \* those without an answer
          drift,     \* those found to differ, with the price found
          asked,     \* upstream when the run began
          kept       \* part -> version of the answer kept for it, None or Failed

checkVars == <<stage, sampled, left, missing, drift, asked, kept>>

None == 0
Failed == -1

Abs(a, b) == IF a > b THEN a - b ELSE b - a

\* Only a price that rose.
DriftsUpwards(listed, found) == found > listed /\ 100 * (found - listed) >= found

\* At least one per cent.
Drifts(listed, found) == 100 * Abs(listed, found) >= found
-----------------------------------------------------------------------------
(* The shard: a price for each dimension of each sku.  A sku is a sequence, *)
(* the id and what ingest appends to it, and empty if no row is made of an  *)
(* item.  `by' is how the row will be looked up, see above.                 *)

Items == UNION {{i \in Listing[src.name][shard.of[p]] : i.part = p}
                  : p \in {q \in DOMAIN shard.of : shard.of[q] # None}}

Total(items, i) == MapThenSumSet(LAMBDA j : j.usd, {j \in items : j.id = i.id})

\* Of several endpoints with one sku_id the cheapest is published.
Cheapest(items) ==
  {i \in items : \A j \in items : j.sku = i.sku =>
     Total(items, i) < Total(items, j) \/ (Total(items, i) = Total(items, j) /\ i.id <= j.id)}

\* Nothing is published of an endpoint's dimension that costs nothing.
Published(items) ==
  {i \in items : i.sku # <<>> /\ (i.by = "endpoint" => i.usd > 0 /\ i \in Cheapest(items))}

Rows(items) ==
  {[sku |-> i.sku, name |-> i.name, region |-> i.region, dim |-> i.dim, tier |-> i.tier,
    usd |-> i.usd, by |-> i.by, part |-> i.part] : i \in Published(items)}
-----------------------------------------------------------------------------
(* The sample. *)

Commonest(values, count, n) ==
  {vs \in kSubset(Min({n, Cardinality(values)}), values) :
     \A v \in vs, w \in values \ vs : count[v] >= count[w]}

\* A share of the budget, one at least.
Share(percent) == Max({1, (Budget * percent) \div 100})

\* Of the tiers of a price one at most is sampled.
Key(r) == <<r.sku, r.dim>>
Keys(rows) == {Key(r) : r \in rows}
Distinct(rows) == \A r, q \in rows : Key(r) = Key(q) => r = q

\* n more prices from the pool, as far as the budget goes.
Pick(chosen, pool, n) ==
  LET new == {r \in pool : Key(r) \notin Keys(chosen)}
      room == Min({n, Budget - Cardinality(chosen), Cardinality(Keys(new))})
  IN  {chosen \union more : more \in {m \in kSubset(room, new) : Distinct(m)}}

\* 70% from the commonest regions, the budget filled up from all.
SamplesOfTop(rows) ==
  LET regions == {r.region : r \in rows}
      inRegion == [v \in regions |-> Cardinality({r \in rows : r.region = v})]
  IN  UNION {UNION {Pick(a, rows, Budget)
               : a \in Pick({}, {r \in rows : r.region \in t}, Share(70))}
               : t \in Commonest(regions, inRegion, 3)}

\* 70% from the commonest regions, 10% from the others, 15% from the commonest
\* families (a name here), the budget filled up from all.
Samples(rows) ==
  LET regions  == {r.region : r \in rows}
      names    == {r.name : r \in rows}
      families == Max({1, (15 * Budget + 100 * Cardinality(names) - 1)
                             \div (100 * Max({1, Cardinality(names)}))})
      inRegion == [v \in regions |-> Cardinality({r \in rows : r.region = v})]
      ofName == [v \in names |-> Cardinality({r \in rows : r.name = v})]
      pools == Commonest(regions, inRegion, 3) \X Commonest(names, ofName, families)
      top(p)  == {r \in rows : r.region \in p[1]}
      tail(p) == {r \in rows : r.region \notin p[1]}
      of(p)   == {r \in rows : r.name \in p[2]}
  IN  UNION {UNION {UNION {UNION {
        Pick(c, rows, Budget)
          : c \in Pick(b, of(p), Share(15))}
          : b \in Pick(a, tail(p), Share(10))}
          : a \in Pick({}, top(p), Share(70))}
          : p \in pools}


\* All that was sampled.
AnyDimension(rows) == rows

PrimaryOnly(rows) == {r \in rows : src.primary # {} => r.dim \in src.primary}
-----------------------------------------------------------------------------
CheckInit ==
  /\ stage = "idle" /\ sampled = {} /\ left = {} /\ missing = {} /\ drift = {}
  /\ asked = None /\ kept = <<>>

Skip ==
  /\ stage = "idle" /\ src.skipped /\ stage' = "skipped"
  /\ UNCHANGED <<sampled, left, missing, drift, asked, kept>>

Sample ==
  /\ stage = "idle" /\ ~src.skipped
  /\ \E s \in Samples(Rows(Items)) : sampled' = s /\ left' = PrimaryOnly(s)
  /\ stage' = "checking" /\ asked' = upstream
  /\ kept' = [p \in DOMAIN shard.of |-> None]
  /\ UNCHANGED <<missing, drift>>

\* The version the answer about a row is of.
Answer(r) == IF r.by = "endpoint" /\ kept[r.part] # None THEN kept[r.part] ELSE upstream

\* The items the request for a row finds.
SameName(r, i) == i.meter = r.name /\ i.region = r.region

Meant(r, i) ==
  CASE r.by = "sku"      -> /\ i.tier = 0 /\ i.usd > 0
                            /\ \/ i.id = r.sku
                               \/ IsStrictPrefix(i.id, r.sku) /\ i.region = r.region
    [] r.by = "title"    -> i.meter = r.name /\ i.usd > 0
    [] r.by = "words"    -> SameName(r, i) /\ i.dim = r.dim /\ i.usd > 0
    [] r.by \in {"alike", "meter"} -> SameName(r, i) /\ i.usd > 0
    [] r.by = "meterid"  -> i.id = r.sku /\ i.region = r.region /\ i.usd > 0
    [] r.by = "head"     -> SameName(r, i)
    [] r.by = "endpoint" -> i.sku = r.sku /\ i.dim = r.dim
    [] OTHER             -> FALSE

Matches(r, version) == {i \in Listing[src.name][version] : Meant(r, i)}

\* What is listed may be the price of a lot.  Of Azure's ingest divides it and
\* the lookup does not, with some of GCP's it is the other way round.
Quoted(i) == i.usd * i.lot

\* The price of whichever comes first.
FirstFound(r, version) == {Quoted(i) : i \in Matches(r, version)}

\* The prices that may be taken for the row's.
Found(r, version) ==
  LET prices == {Quoted(i) : i \in Matches(r, version)}
  IN  IF r.by \in {"alike", "meter", "meterid"} /\ Cardinality(prices) > 1 THEN {} ELSE prices

Keep(r, version) ==
  kept' = IF r.by = "endpoint" THEN [kept EXCEPT ![r.part] = version] ELSE kept

\* No request is made: the row should have the price nought.
TakenAsFree(r) ==
  /\ stage = "checking" /\ r \in left /\ r.by = "free"
  /\ left' = left \ {r}
  /\ drift' = IF r.usd # 0 THEN drift \union {[row |-> r, found |-> 0]} ELSE drift
  /\ UNCHANGED <<stage, sampled, missing, asked, kept>>

\* The request fails, or the one for the answer to keep did.
NoAnswer(r) ==
  /\ stage = "checking" /\ r \in left
  /\ r.by # "free" /\ (r.by = "endpoint" => kept[r.part] \in {None, Failed})
  /\ left' = left \ {r} /\ missing' = missing \union {r}
  /\ Keep(r, Failed)
  /\ UNCHANGED <<stage, sampled, drift, asked>>

\* Nothing is found, or nothing with a price.
NotListed(r) ==
  /\ stage = "checking" /\ r \in left /\ r.by # "free" /\ Answer(r) # Failed
  /\ Found(r, Answer(r)) = {} \/ 0 \in Found(r, Answer(r))
  /\ left' = left \ {r} /\ missing' = missing \union {r}
  /\ Keep(r, Answer(r))
  /\ UNCHANGED <<stage, sampled, drift, asked>>

\* Compared, and left to be compared again.
CompareAndLeave(r) ==
  /\ stage = "checking" /\ r \in left /\ Answer(r) # Failed
  /\ \E found \in Found(r, Answer(r)) \ {0} :
       drift' = IF Drifts(r.usd, found) THEN drift \union {[row |-> r, found |-> found]}
                                        ELSE drift
  /\ Keep(r, Answer(r))
  /\ UNCHANGED <<stage, sampled, left, missing, asked>>

Compare(r) ==
  /\ stage = "checking" /\ r \in left /\ Answer(r) # Failed
  /\ left' = left \ {r}
  /\ \E found \in Found(r, Answer(r)) \ {0} :
       drift' = IF Drifts(r.usd, found) THEN drift \union {[row |-> r, found |-> found]}
                                        ELSE drift
  /\ Keep(r, Answer(r))
  /\ UNCHANGED <<stage, sampled, missing, asked>>

\* Prices that are missing do not count.
Report ==
  /\ stage = "checking" /\ left = {}
  /\ stage' = IF drift = {} THEN "passed" ELSE "failed"
  /\ UNCHANGED <<sampled, left, missing, drift, asked, kept>>

CheckBegins == Skip \/ Sample

CheckStep ==
  \/ Report
  \/ \E r \in left : TakenAsFree(r) \/ NoAnswer(r) \/ NotListed(r) \/ Compare(r)
=============================================================================
