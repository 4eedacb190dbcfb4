------------------------------ MODULE Upstream ------------------------------
(***************************************************************************)
(* A price list that goes on changing while the pipeline reads it twice:   *)
(* to make a shard (PriceFetch) and to check a published one (Validation). *)
(* The two run in different workflows; they share the provider and, from   *)
(* one to the other, the shard released.  The provider is external: how src/ asks   *)
(* it is what is modelled of it.                                           *)
(***************************************************************************)
EXTENDS Naturals, FiniteSets, FiniteSetsExt, SequencesExt

CONSTANTS Sources, Retries, MaxVersion, MaxRuns, Listing, Budget

Versions == 1..MaxVersion

ASSUME BoundsPositive ==
  /\ {MaxVersion, Retries, Budget} \subseteq Nat \ {0}
  /\ MaxRuns \in Nat

Lookups == {"sku", "title", "words", "alike", "meter", "meterid", "head", "endpoint",
            "free", "none"}

ASSUME SourcesShaped ==
  \A s \in Sources : /\ s.shape \in {"offer", "regions", "pages", "models"}
                     /\ {s.twin, s.skipped} \subseteq BOOLEAN
                     /\ s.twin => s.shape = "offer"

\* Items are listed in parts the source has, at natural prices; an item that is
\* taken to be free is.
ASSUME ItemsPriced ==
  \A s \in Sources : \A v \in Versions : \A i \in Listing[s.name][v] :
    /\ i.part \in s.parts /\ {i.usd, i.lot, i.tier} \subseteq Nat /\ i.by \in Lookups
    /\ i.by = "free" => i.usd = 0

\* Lists are finite, and come in finitely many parts.
ASSUME ListsFinite ==
  \A s \in Sources : IsFiniteSet(s.parts) /\ \A v \in Versions : IsFiniteSet(Listing[s.name][v])

\* A sku is sold in one region, each dimension of it under one upstream name.
ASSUME SkusStay ==
  \A s \in Sources : \A v, w \in Versions : \A i \in Listing[s.name][v], j \in Listing[s.name][w] :
    i.sku = j.sku /\ i.sku # <<>> =>
      /\ i.region = j.region
      /\ i.dim = j.dim => i.meter = j.meter

\* Rows are named as the provider names the thing, but for some of Azure's, and
\* App Service's carry its id.
ASSUME NamesKept ==
  \A s \in Sources : \A v \in Versions : \A i \in Listing[s.name][v] :
    i.sku # <<>> =>
      /\ i.by \in {"title", "words", "alike", "head"} => i.meter = i.name
      /\ i.by = "meterid" => i.id = i.sku

\* The tiers of a dimension of a sku have a price each: a key of the shard.
ASSUME TiersPriced ==
  \A s \in Sources : \A v \in Versions : \A i, j \in Listing[s.name][v] :
    i.sku = j.sku /\ i.sku # <<>> /\ i.dim = j.dim /\ i.tier = j.tier /\ i.by # "endpoint"
    => i.usd = j.usd

\* A GCP sku of several dimensions has the id of the primary one's item.
ASSUME OwnId ==
  \A s \in Sources : \A v \in Versions : \A i, j \in Listing[s.name][v] :
    /\ i.by = "sku" /\ (s.primary # {} => i.dim \in s.primary) /\ i.sku = j.sku
    /\ j.id = j.sku \/ IsStrictPrefix(j.id, j.sku)
    => j.dim = i.dim

VARIABLES upstream, src, runs, fresh, began, pc, pin, got, tries, raw, dir, etag,
          seen, reached, shard, released, stage, sampled, left, missing, drift, asked, kept

F == INSTANCE PriceFetch
V == INSTANCE Validation WITH shard <- released

fetching == <<runs, fresh, began, pc, pin, got, tries, raw, dir, etag, seen, reached>>
checking == <<stage, sampled, left, missing, drift, asked, kept>>
variables == <<upstream, src, shard, released, fetching, checking>>

Init == upstream = 1 /\ F!FetchInit /\ V!CheckInit

\* A run begins; one shard is followed, and fetched no more once it is checked.
\* What is checked is put together from the release: baseline and deltas.
Begins ==
  /\ stage = "idle" /\ \E empty \in BOOLEAN : F!Begin(empty)
  /\ UNCHANGED <<upstream, checking>>

FetchGoesOn == F!FetchStep /\ UNCHANGED <<upstream, checking>>
FetchDies == F!Kill /\ UNCHANGED <<upstream, checking>>

Releases == stage = "idle" /\ F!Release /\ UNCHANGED <<upstream, checking>>
TwinFetches == stage = "idle" /\ F!TwinFetches /\ UNCHANGED <<upstream, checking>>

CheckBegins == F!Resting /\ V!CheckBegins /\ UNCHANGED <<upstream, src, shard, released, fetching>>
CheckGoesOn == V!CheckStep /\ UNCHANGED <<upstream, src, shard, released, fetching>>

PricesChange == F!UpstreamChanges /\ UNCHANGED <<src, shard, released, fetching, checking>>

Next ==
  \/ Begins \/ FetchGoesOn \/ FetchDies \/ Releases \/ TwinFetches
  \/ CheckBegins \/ CheckGoesOn \/ PricesChange

Spec == Init /\ [][Next]_variables

\* Requests are answered or time out, and the report is written.
FairSpec == Spec /\ WF_variables(FetchGoesOn) /\ WF_variables(CheckGoesOn)
-----------------------------------------------------------------------------
(* Properties. *)

\* The values the variables take.
TypeOK ==
  /\ upstream \in Versions /\ src \in Sources /\ runs \in 0..MaxRuns /\ fresh \in BOOLEAN
  /\ pc \in {"idle", "head", "index", "getting", "failing", "fetched", "reused", "failed"}
  /\ {pin, etag, seen, asked} \subseteq Versions \union {V!None}
  /\ {got, raw, dir} \subseteq [F!Parts -> Versions \union {F!None}]
  /\ tries \in [F!Parts -> 0..Retries]
  /\ {shard.of, released.of} \subseteq [F!Parts -> Versions \union {F!None}]
  /\ reached \in {"elsewhere", "fetched", "built", "released"}
  /\ stage \in {"idle", "checking", "passed", "failed", "skipped"}
  /\ left \subseteq sampled /\ missing \subseteq sampled
  /\ {d.row : d \in drift} \subseteq sampled \ left

WholeShard(made) ==
  (made.fresh \/ src.shape # "regions") =>
    /\ \A p \in F!Parts : made.of[p] >= made.since
    /\ src.shape = "regions" => \A p, q \in F!Parts : made.of[p] = made.of[q]

\* A shard has every part of the price list, none older than the run that made
\* it, and EC2's regions are all of one version of the offer: a list fetched in
\* part is never published, whatever requests fail and whenever the run before
\* was killed.  (EC2's region files are not fetched again into a directory that
\* has some, so there it takes an empty directory, as CI's runners have.)
ListWhole == WholeShard(shard) /\ WholeShard(released)

\* On a 304 the shard of the last release is taken for today's.  That is right
\* if the list whose ETag is kept was fetched for this source, built and
\* released: then, however fetches failed or were killed since and whatever was
\* released, the release is of the version the provider names.  (It is not if
\* one of the three is missing: an ingest that fails after cache.save(), a
\* shard that its sanity check or the publish job keeps back, and aws_rds and
\* aws_aurora, which share a URL and so an ETag, with one cache.)
ReuseHonest ==
  pc = "reused" /\ reached = "released" => \A p \in F!Parts : released.of[p] = seen

\* A sample is as large as the budget and the shard allow, looks no price up
\* twice, and has one from outside the three commonest regions, where there is
\* one, however the other strata fall.
SampleSpread ==
  stage \in {"checking", "passed", "failed"} =>
    LET rows == V!Rows(V!Items)
        regions == {r.region : r \in rows}
    IN  /\ Cardinality(sampled) = Min({Budget, Cardinality(V!Keys(rows))})
        /\ V!Distinct(sampled)
        /\ Cardinality(regions) > 3 /\ Budget > 1 =>
             \E r \in sampled :
               Cardinality({s \in regions :
                 Cardinality({x \in rows : x.region = s})
                   >= Cardinality({x \in rows : x.region = r.region})}) > 3

\* How the price found for a row may be another than its own:
\*   the row's is nought, and a thing of the same name costs something,
\*   the row is of a later tier, the price that of the first,
\*   the price is that of a lot,
\*   what the row was made of has another name, or no id it is found by, or
\*   several things are found, of which the first is taken.
Inexact(r, version) ==
  LET found == V!Matches(r, version)
  IN  \/ r.usd = 0
      \/ r.by = "sku" /\ r.tier # 0
      \/ \E i \in found : i.lot # 1
      \/ r.by = "sku" /\ ~\E i \in found : i.sku = r.sku
      \/ r.by = "meter" /\ ~\E i \in found : i.sku = r.sku /\ i.dim = r.dim
      \/ /\ r.by \in {"sku", "title", "words", "head", "endpoint"}
         /\ Cardinality({i.usd : i \in found}) > 1

\* A drift record says that the provider changed its prices after the version
\* that the row is of, or the lookup is inexact for that row.  So the engines
\* RDS has under one name make none, nor prices a row takes from another sku,
\* nor answers that are of another version than the next one, nor a release in
\* between: neither does a price that has not changed otherwise.
DriftMeansChange ==
  \A d \in drift : upstream > released.of[d.row.part] \/ Inexact(d.row, upstream)

\* When a run passes, every price it looked up and had an answer for is less
\* than one per cent off one that the provider listed during the run.
NothingOverlooked ==
  stage = "passed" =>
    \A r \in {x \in V!PrimaryOnly(sampled) \ missing : x.by # "free"} :
      \E v \in asked..upstream : \E i \in V!Matches(r, v) :
        LET usd == V!Quoted(i) IN 99 * usd < 100 * r.usd /\ 100 * r.usd < 101 * usd

\* Every run of the script ends, and so does every check: requests are not
\* repeated for ever.
EveryRunEnds ==
  (~F!Resting ~> F!Resting) /\ (stage = "checking" ~> stage \in {"passed", "failed"})
=============================================================================
