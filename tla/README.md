# A verification project for sku

sku is an offline price list for cloud services.  A Python pipeline builds one
SQLite file per price list ("shard"), publishes baselines and deltas as GitHub
releases, and a Go command, `sku`, keeps local copies of the shards up to date
and answers queries from them.  Whether the answer is right depends on a long
chain - discover, fetch, ingest, build, validate, diff, publish, download,
apply, estimate - in which nearly every link can fail, run twice, run late or
overlap with another, and in which nobody looks back: a client that has applied
a delta believes it has the release the manifest names.  These modules model
that chain from the provider's price list to the figure `sku estimate` prints.

## 1. Inventory

Paths are relative to `src/`.

| component | code | state | operations | what is hard | what makes it correct | here |
|---|---|---|---|---|---|---|
| ingest: the sources | `pipeline/ingest/<shard>.py` | rows under construction | read items, fill cells of rows, write complete rows | documents in any order, missing or odd items, several items for one price, tiers | rows follow the document, whatever its order | `Ingest`, `AwsSources`, `GcpSources`, `AzureSources` |
| ingest: fetching | `pipeline/ingest/aws_common.py`, `gcp_common.py`, `azure_common.py`, `http.py`, `_etag_cache.py`, `openrouter.py`, `scripts/ci/ingest_shard.sh` | downloaded files, ETag cache | HEAD, download, strip, page, retry, pool of downloads | requests that fail halfway, prices that change meanwhile, kills, files left behind | no partial list is published, a shard reused on a 304 is current, every run ends | `PriceFetch` in `Upstream` |
| shard builder, sanity check | `pipeline/package/build_shard.py`, `sanity_check.py`, `budgets.py` | a shard under construction | insert all rows or none, compare with the previous baseline | key clashes, thresholds, empty lists | keys unique, a shard that lost its rows or families is kept back | `Ingest` (partly) |
| validate | `pipeline/validate/` | sample, answers kept, drift found | sample by strata, look up, compare, report | answers that stand for several things, prices that change meanwhile | drift means a change or a lookup known to be inexact, a pass means a match | `Validation` in `Upstream` |
| discover driver | `pipeline/discover/` | `state.json`: the indicators last seen | compare fresh indicators with the state, save the union | the state is written before anything is ingested | no changed shard is forgotten | `ReleasePipeline` |
| delta generator | `pipeline/package/build_delta.py`, `schema.sql` | none (two shards in, SQL out) | list DELETEs, upserts, the metadata replay, in apply groups | rows that come, go or change in five tables; foreign-key cascades; being replayed | applied to yesterday's shard the list gives today's; no prefix of it leaves orphans | `ShardDelta` |
| release manifest | `pipeline/package/build_manifest.py` | `manifest.json` | baseline, delta and carry-forward entries | chains over many days | everything pointed to exists and leads to the head | `ReleasePipeline` |
| provider workflows, publish workflow, release scripts | `.github/workflows/data-*.yml`, `scripts/ci/` | artifacts of the day, releases, `data-latest`, the `data` branch | ingest, diff, bundle, assemble, create release, move the floating manifest | jobs that die between two steps, four workflows of one day, reruns, tolerated download failures | see the properties of `ReleasePipeline` | `ReleasePipeline` |
| client updater | `internal/updater/*.go` | `<shard>.db`, `.part`, the rollback journal, `.lock`; what a process read | `Update`, `installBaseline`, `Install`, `Applier.Apply`, manifest fetch with fallback | crashes anywhere, overlapping processes, stale manifests, a chain of downloads inside one transaction | the shard is always one whole release and says which; it gets to the head | `ShardUpdater`, `ReleasedShard` |
| advisory lock | `internal/sqliteutil/flock.go` | flock on `<shard>.db.lock` | try-lock, unlock | released by the kernel at exit, the file stays | at most one transaction; never left behind | `ShardUpdater` |
| update command, auto-fetch | `cmd/sku/update.go`, `aws_helpers.go` | none | decide which shards, call `Update` | two auto-fetches of a missing shard | as the updater | `ShardUpdater` |
| estimate | `internal/estimate/` | none | tier walking, per-kind estimators | boundaries between tiers, several rows for one query | every unit is charged once, at its tier, in a zone of the region asked for | `Estimate` (partly) |
| catalog | `internal/catalog/` | an open read-only shard, switched to WAL | lookups, age, stale gate | WAL left behind when an install renames over the file; ages that do not parse | a query sees one release; too old a shard is refused | - |
| compare | `internal/compare/` | one goroutine per shard | parallel queries, merge, order | partial failure, order of results | the result does not depend on the schedule | - |
| batch | `internal/batch/` | results so far | dispatch each operation, rank exit codes | one code for many outcomes | results in order, the worst code wins | - |
| config | `internal/config/` | the YAML profile file | `Resolve`, `SaveProfile` | read-modify-write without a lock | precedence; no profile lost | - |
| service commands, output, schema, errors | `cmd/sku/`, `internal/output`, `internal/schema`, `internal/errors` | none | flags to lookups, rendering | - | - | - |
| packaging and code generation | `npm/`, `python/`, `tools/` | none | wrappers, generated tables | - | - | - |

How they interact: a provider workflow reads the previous release (its
`state.json` and its baselines), fetches and ingests the price lists that
changed and leaves an artifact; the publish workflow reads the artifacts of the
day and the previous release's manifest and writes a release, `data-latest` and
the `data` branch; the validation workflow reads a published shard and the
provider again; clients read `data-latest` or the CDN copy of the branch, then
assets of several releases.  All of this is shared state without transactions.
On a client, several `sku` processes share a directory.  Inside one process
nothing runs concurrently but `compare` and the pool that downloads EC2's
regions.

The hazards of `PROJECT.json` list, at their lines, what this structure makes
hard to test; each names the properties that cover it, or says why none does.

## 2. The modules

| module | models | proofs |
|---|---|---|
| `Ingest` | the loop every source runs, the shard builder and the sanity check, for any policy | `IngestProofs` |
| `AwsSources`, `GcpSources`, `AzureSources` | the policies of 46 sources | |
| `Estimate` | what the estimators make of the rows `Ingest` writes | `EstimateProofs` |
| `PriceFetch`, `Validation` | getting a price list; checking a shard against it | `UpstreamProofs`, `SampleProofs` |
| `Upstream` | the two composed, with a provider that changes its prices | `UpstreamProofs`, `SampleProofs` |
| `ShardDelta` | the statements of one delta and their execution, statement by statement | `ShardDeltaProofs` |
| `ShardUpdater` | `sku update` of one shard by any number of processes, at the level of files, journal and lock | `ShardUpdaterProofs` (overlapping updates, and daily ones racing from one manifest), `SerialUpdateProofs` (one at a time) |
| `ReleasedShard` | what the updater promises a reader; `ShardUpdater` implements it | `SerialUpdateProofs`, `ShardUpdaterProofs` |
| `ReleasePipeline` | provider runs, publishing, midnight, and a client that updates | `ReleasePipelineProofs` |
| `MC*` | instances for TLC | |

The modules meet in what one leaves to the next.  `Upstream` shows which lists
come to be ingested, `Ingest` which rows are made of a list, `Estimate` what a
client makes of the rows.  `ShardDelta` shows what the statements of one delta
do to a table, also when it runs a second time; `ShardUpdater` uses that result
(`Patched`: the rows that differ between the two releases are set, the rest
stay) and looks at files and processes; `ReleasePipeline` uses it again (a delta
applied to the rows it starts from or leads to gives the rows it leads to,
applied to others it gives `Mixed`) and asks whether the right deltas reach the
client in the right order.

Some operators have a second form before them whose name says how it differs
(`CommitEarly`, `AbsorbRow`, `ModifiedSaved`, `EntryDroppingUntouched`, ...).
They are plausible mistakes; `PROJECT.json` pairs each with the property that
fails when the mistake replaces the definition, which shows that the property
depends on that piece of code.  No specification uses them.

### Ingest and its sources

All sources run the same loop: take an item or skip it, fill cells (a row and a
dimension) with prices, group, drop incomplete rows, write.  What differs from
source to source is data, and a *policy* holds it: which kinds of items price
which cells (`sells`), which of an item's regions count (`where`), how rates
become tiers (`rate`), what a second price for a cell does (`keep`, `append`,
`ladder`), when a row is whole (`needs`, `spare`, `default`, `spread`), and what
its `sku_id` is made of (`minted`, `anchor`, `suffix`).  Each field is explained
at `Plain`; a policy changes the fields its module changes.

| action | code |
|---|---|
| `ReadItem` | one turn of the loop of `ingest()`; an unknown region or unit skips the item or raises, as in that source |
| `WriteRows` | the second half of `ingest()` and `main()`'s exit code |
| `BuildShard` | `build_shard.py`: one transaction, refused by a duplicate primary key |
| `SanityCheck` | `sanity_check.py`: emptiness, drift of the row count, lost families |

Items are read in every order, or in the order of the document where the source
depends on it (`sorted`).  Prices are natural numbers, tiers have bounds from 0
to `Unbounded`.  `Contend` says when two items speak of one thing, a document
where none do is `Unambiguous`; most properties are about those, since of two
prices for one thing some source has to take one.  `TiersTile` speaks of
documents whose items have rates that tile; of an item of SNS, which becomes a
free tier and the last of its rates, only if it has two: of three, the one in
the middle would be missing from the shard.

### Estimate

`EstimateOf` is the figure made of a row: `QueueEstimate`, `GatewayEstimate`,
`DnsEstimate` and `CdnEstimate` stand for the four estimators that read prices
by tiers, `WalkTiers` for the walk, `Flatly` for the price of the first tier.
Which row that is depends on the query.  Rows are published in a region, which
for the CDNs is not the billing zone or geography of the item: Front Door files
Zones 2 and 8 under `asia-ne`, Cloud CDN both "North America" and "Other" under
`us-east1` (the `filed` of their policies, `PublishedIn`).  `Found` is the set
of rows a query has for an answer, and `Answers` the estimate from any of them,
since the one taken is the first by `sku_id`, an id the provider gives
(`cdn.go:93-100`).  Everywhere else one row is found (`RowsAlone`).

`ChargedAsListed` compares each answer, in the states in which `Ingest` has just
written its rows, with what the provider would charge in a zone of the region
asked for (`Due`): every unit at the rate listed for it (`Bill`), and the listed
base fees; so it takes ingest and estimate together.  It does not say that this
is the zone one meant: where zones share a region, the query cannot tell and the
charge may be the other's (TLC refutes the exact form for Front Door).  It
speaks of
documents whose items list the tiers their source knows of (`Foreseen`): Front
Door's tiers by the bounds the source has, a single rate without an end where
only one is read, and CloudFront's first tier ending where the estimator's own
table says.  Pub/Sub is left out, since its ingest leaves its free tier out of
the shard.

### Upstream: PriceFetch and Validation

A price list has versions, and the provider moves on to the next at any moment.

| action | code |
|---|---|
| `Begin` | `ingest_shard.sh`, in an empty or a used directory; `aws_ec2.main` looks for region files |
| `NotModified`, `Modified`, `AskFails` | `fetch_offer`'s HEAD against the ETag cache |
| `TwinFetches` | the script for the other source of the same URL (`aws_rds`, `aws_aurora`), with the same cache |
| `ReadIndex` | the region index, whose version pins the files |
| `GetPart`, `StripPart`, `TryAgain`, `GiveUp`, `PoolEnds` | downloads, the retry loops of `http.py` and the fetchers, the pool |
| `Fetched`, `Publish`, `IngestFails`, `Reuse` | the end of the script: `Fetched` saves the ETag, `Reuse` takes the previous release |
| `Release` | the workflows that follow, when they do: the shard made is released |
| `Kill` | the process dies, files stay, also half-processed ones |
| `Skip`, `Sample`, `TakenAsFree`, `NoAnswer`, `NotListed`, `Compare`, `Report` | `validate/driver.py`, `sampler.py` and the lookups of the providers |

`released` is what the two share: the versions the parts of the last released
shard were made of.  `shard` is the one made by the last run of the script, which
need not have been released.  The ETag is that of a URL; the history variable
`reached` says how far the list came whose ETag was stored last: fetched by the
other source of the URL or on another runner, fetched here, built, released.
`ReuseHonest` is about the last of these; for each of the others there is a
behaviour in which a 304 makes an older release today's shard (section 6).

What a price is looked up by is data (`by`), since the providers differ: an id,
an id that the `sku_id` extends, a name, a name and dimension, a meter, nothing.
`Meant` says which items such a request finds, `Found` which of their prices may
be taken, `Quoted` that it is the price listed, not that of a unit: for what
Azure sells by the hundred or the million, ingest divides and the lookup does
not.  Rows of nought are sampled like the others.  So a difference can come
about in ways other than a change, and `Inexact` names all of them.
`DriftMeansChange` is that there is no further one: not the time that passes
between shard, release and check, not an answer kept for another row, not the
several engines or meters of one name whose prices disagree.

### ShardDelta

A shard is a function from primary keys to payloads.  `Deletes`,
`PriceDeletes`, `Changed`, `Upserts` and `MetaReplay` are the five steps of
`_compute_statements`; `Before` is the order its stable sort leaves, weakened to
what matters (groups, and parent against child inside a group), so that every
order the code could emit is covered.  `Effect` is one statement with SQLite's
semantics: `INSERT OR REPLACE` of an existing `skus` row, and its deletion, take
the children along when `foreign_keys` is on.  `Rollback` is a failed or
interrupted application, `CommitAndReplay` a second one.  The payload of a row
is one value; `build_delta` compares whole rows, and so does the model.

### ShardUpdater and ReleasedShard

`dir` maps the names `<shard>.db` and `.part` to inodes and `disk` maps inodes
to contents, so that renaming over a file another process has open, or two
processes writing one `.part`, mean what they mean on disk.  `journal` is
SQLite's rollback journal, which goes by the file's *name*; `Recover` is what
opening a file with a hot journal does, `Visible` is what a reader gets.

| action | code |
|---|---|
| `ReadLocal`, `ReadLocalFails` | step 1 of `Update`, `readLocalVersion` |
| `ChooseBaseline`, `ChooseNothing`, `ChooseChain` | manifest fetch and steps 3 to 5 of `Update`, `deltaChain` |
| `Fail` | any early error return (requests, missing entry, schema version, checksum) |
| `TakeLock`, `Locked`, `BeginTx`, `ApplyDelta`, `Commit`, `ApplyFails`, `BeginTxFails` | `Applier.Apply` |
| `GetBaseline`, `RemovePart`, `CreatePart`, `WritePart`, `Rename`, `Cleanup`, `WritePartFails`, `RenameFails` | `Install` and `installBaseline` |
| `Crash` | the process is killed: the kernel drops lock and files |
| `PublishBaseline`, `PublishDelta` | a new manifest, in the form `build_manifest.py` gives it |

`BeginTxFails` and `RenameFails` stand for every way these calls fail.  `Lag` is
how far behind a manifest server may be (`FetchManifest` falls back to a CDN
copy).  `before` is a history variable.

`ReleasedShard` has two variables, what is published and what a reader sees, and
three steps: a release is published, the shard goes forward to a newer published
version, or a published baseline is installed again.  That the daily channel
never goes back is a property of its own, `DailyNeverRegresses`.  `ShardUpdater` instantiates it with `Visible`.

### ReleasePipeline

Contents of a shard are numbered by the upstream revision they were built from.
`Run` is what a provider's jobs know, `Artifact` what they upload, `Job` the
publish job with the assets it has assembled.

| action | code |
|---|---|
| `Discover`, `Ingest`, `Bundle`, `RunFails` | a provider workflow: the driver, the ingest matrix, `diff_package_shard.sh`, the bundle job |
| `Assemble` | artifact collection, `merge_discover_state.py`, `build_manifest.py` |
| `DeleteRelease`, `CreateRelease`, `DropLatest`, `CreateLatest`, `PushMirror`, `PublishDies` | the steps of `data-publish.yml`, and dying between two of them |
| `ClientUpdate` | `Update` in one step, against either manifest |
| `NewDay`, `UpstreamChanges` | the environment |

`Merged` is `dict.update` over the artifacts in an order nobody fixes: an
injective ranking of the providers.  `File` and `NewAssets` are the two passes
of `build_manifest`: what an artifact's sidecar says, then the entry, new or
carried forward.  `Chain` is the set of positions of the deltas a client still
lacks, `Walked` what applying them in order makes of its rows.

Three assumptions.  An indicator stands for the revision of the price list: what
`Discover` compares is the revision, while the providers' indicators are taken
from a part of the list only (section 6), and a change elsewhere waits for the
next forced run, which the properties then speak of as if it had come later.  A
publish job ends on the day it began (it takes minutes):
without it TLC shows `ChainSound` false, since `delta_from` is never compared
with the entry it extends, and a job for day D that finishes after day D+1's
discover leaves a gap in the chain.  And the bounds: `MaxDay`, `MaxRevision`,
`MaxReplaced`.

`Rerun` is what `force_baseline` may be when a provider runs again on a day it
already has an artifact for: the runbook says `TRUE`.  With `FALSE` allowed
`ManifestServable` fails: the second run compares with the release being
replaced, and its deltas extend a baseline that the replacement deletes.

`replaced` counts releases deleted to be made anew, `lost` records that a job
died in between.  `ManifestServable` and `NothingForgotten` speak of every
release in every history.  `ChainSound` asks for the continuity of a chain, and
`ClientExact` for anything at all, only while no release was replaced
(`pipeline_republish` shows why); `MirrorAdvances` and `ShardsCarriedForward`
only while none was lost: the next run then starts from an older release.

## 3. The runs

| run | instance | shows |
|---|---|---|
| `ingest` | 46 sources; per source, for each row name alone and for all, a document of at most 8 items that prices it in two regions (Front Door in the two zones of one region, Cloud CDN in the two geographies); that document, with any one item missing, with an odd one of eleven sorts added or in place of the first, or the odd one alone; as first release or after the full one; 343,000 states | `OrderFree`, `PricesAsListed`, `RowsWhereSold`, `PricedAlike`, `ShardBuilds`, `TiersTile`; volumes 0 to 4 of every measure: `ChargedAsListed` |
| `upstream` | 7 sources, at least one of each shape and of each way to look prices up, one with a URL it shares and one that is skipped, 3 versions of their lists, 2 runs, 2 attempts, a budget of 3 prices; 556,000 states | `ListWhole`, `ReuseHonest`, `SampleSpread`, `DriftMeansChange`, `NothingOverlooked`, `EveryRunEnds` |
| `delta_roundtrip` | 2 skus, one 1:1 table, one price key, one metadata key; every orphan-free combination of rows and two payloads for the first sku, beside a second one without, bare or complete; every pair of such shards, both settings of `foreign_keys`, every order of the list | `RoundTrip`, `NeverOrphaned` |
| `updater_serial` | 1 process, 4 releases of 2 rows, `MaxChain` 2, both channels, manifests up to 3 behind, all faults and crashes | a reader sees whole releases only, failures leave the shard alone, results are honest, the daily client never regresses and reaches the head, the abstract specification is implemented |
| `updater_concurrent` | 3 daily processes, 4 releases published as deltas to the first | racing and replaying updates keep the shard whole, never take it back, implement the abstract specification and converge; the lock protocol |
| `pipeline_providers` | 2 providers, 3 days, failed runs and jobs, downloads of state and baselines that fail; 931,000 states | `NothingForgotten`, `MirrorAdvances`, `ClientExact` |
| `pipeline_reruns` | 1 provider, 4 days, one replaced release; 978,000 states | `ManifestServable`, `ChainSound` |
| five runs that end in a violation | see section 6 | |

Why the bounds are enough.  Items of a source interact when they price one cell,
one row or share an id, or through completeness; a row name in two regions with
every dimension it has, an item missing and a second like it that is odd in one
way show each of these once, and row names that differ in nothing but the name
(`Alike`) behave alike.  The tier bounds a source has stand for its tokens by
rank; the volumes go past the last of them.  A fetch has two parts, so that one
can be of an older version than the other or be missing, and two runs, so that
files and ETags of the first meet the second; version 2 of the price lists
changes by less than one per cent, version 3 by more, and prices come to be
nought.  The exceptions of `Inexact` for a price of nought, a tier, a lot, a meter
and for rows looked up by words, by the head of a list or by an endpoint each have
a row that needs them, and rows beside it that do not; those for an id that no
item has of its own, and for one id or title at two prices, are not met in this
instance and are there for the theorem.  A budget of 3 against up to six prices in four regions makes the
strata compete.  The statements of a delta interact through one sku's rows and
through the metadata table; the first sku goes through every case of rows that
come, go or change, the second shows that it is left alone or handled beside it.
Four releases of two rows let a row change and change back (`FourReleases`), so
that a chain applied to the wrong start shows; three are needed for a chain of
two with one release beyond it.  Three processes are a holder of the lock, a
loser and one that arrives late with what it read before.  In the pipeline the
previous release, the one it extends and today's make three days, and a fourth
is needed to update past a replaced one.  A second upstream revision of one
shard against a quiet one tells a touched shard from an untouched one.

Deadlock is checked in the runs of `ShardDelta` and `ShardUpdater`.  An ingest
run ends with its verdict; `upstream` stops when its runs are used up and the
shard is checked, and the pipeline at the last day, where the bounds of the
models end.  Their configurations turn the check off.

Fairness.  `ShardUpdater`: `FairSpec` has `WF_vars(Step(p))` for each process:
users and schedulers run `sku update` again and again, and a process that is not
killed takes its next step.  Faults, releases and stale answers have none.
`ReachesHead` is conditional on the disturbances ending: faults, stale manifests,
the stable channel (which stays at its baseline by design), and chains longer
than `MaxChain`.  The last is a property of the code, not a convenience: a
client at the baseline of a chain that is too long installs that same baseline
on every update and never moves.  `Upstream`: `FairSpec` has weak fairness of
the next step of a fetch and of a check.  Every request has a timeout, so it is
answered or fails; retries are counted.  Nothing is assumed about beginning runs,
about kills or about the provider.  `EveryRunEnds` then says that the retry
loops and the pool come to an end whatever the answers.  No fairness is assumed
in `Ingest` and in the pipeline, whose properties are safety properties.

## 4. What is proved

The proofs hold for all values of the constants that satisfy the named
assumptions, which TLC evaluates in the runs: `ShardDeltaAssumption`,
`InputAssumption`, `UpdaterAssumption`, `ReleasesAssumption`,
`PipelineAssumption`, `NoneIsNoFile`, `FeedsListed`, `BoundsPositive`,
`SourcesShaped`, `ItemsPriced`, `ListsFinite`, `SkusStay`, `NamesKept`,
`TiersPriced`, `OwnId`, `VolumesBelowUnbounded`, `TolerancePercent`; and of the policies `ChoicesMade`,
`OnceUnique`, `NeedsPriced`, `SpreadPlain`, `FreeKept`, `TiersPlain`,
`ShownApart`, `SplitPaired`, `DefaultsShared`, `MintedTell`, `IdsTell`; and, of
those an estimator reads, `RowsAlone`, `EstimatedPlain`, `MeasuredOnce`,
`HoursFlat`, `FirstTierRead`, `FeesApart`.  The assumptions on policies say which
choices of a source go together.  They are how the 46 sources are
written, TLC evaluates them for each, and a source that broke one would be one
for which the theorem has to be looked at again: `IdsTell`, for instance, says
that a source that publishes an item in several regions adds the region to the
item's id.

`IngestProofs`, for any policies that satisfy these and any documents:
`TypeCorrect`; `OrderDoesNotMatter`, that the rows of an unambiguous document are
those of its items in whatever order they are read; and what those rows say,
`PricesAsListedCorrect`, `PricedAlikeCorrect`, `RowsWhereSoldCorrect`,
`ShardBuildsCorrect` and `TiersTileCorrect`.  The invariant says that the prices
kept are exactly those of the items read (`Gathered`), which holds because items
of such a document fill different cells, so that neither `keep` nor `append` ever
replaces one; that where ids may come again every cell filled in is kept,
whatever the document (`Covered`); that ids are remembered of items read only
(`SeenRead`); that the rows are those of the prices kept once all are read
(`RowsMade`); and that a shard is refused for a clash of two rows and nothing
else (`Clashed`).

From there each theorem is about the function from prices kept to rows.
`PricesAsListed`: a price kept is one an item fills in, and a global price stands
for a region only where no cell of the region is kept, so (`Covered`) where the
document lists none.  `PricedAlike`: a row has the dimensions its name needs and
those it has by default.  `RowsWhereSold`: by `Gathered` all prices a row needs
have been kept, and rows are dropped for lack of one only.  `ShardBuilds`: items
that fill one cell add up (`MetAddUp`) and a ladder gives each of its prices a
step of its own (`LexRanks`), so no row has two prices with one key; and two rows
with one `sku_id` would have it from one item (`SameItem`), in one region
(`SameRegion`) and under one label, which names do not share without a dimension
that tells them apart (`NamesGiven`), or it was minted and names the row
(`MintedTold`).  `TiersTile`: tiers that each end where the next begins tile
(`ChainTiles`); every way in which a source makes tiers is of that kind, also
when two dimensions are shown as one (`SplitHalves`, `ShownTiles`).

`EstimateProofs`, on top of these, for any volumes: `ChargedCorrect`, that an
estimate, from whichever of the rows found, is the bill by the provider's list in
a zone of the region.  It needs no invariant of its own, being about what is
made of the rows of one state, and follows the money.

* *The query.*  Outside the CDNs a row is found alone, since names and regions
  are published as they are and tell rows apart (`FoundAlone`); of CDN rows each
  one found prices the volume asked for (`WantsAlike`), so the argument below
  applies to whichever is taken (`Answered`).

* *The walk.*  Over tiers that tile, tiers are taken from the lowest up, and the
  sum after each of them is the bill of the units below its end
  (`WalkCharges`).
* *The rows.*  The tiers a row has of a dimension come from one dimension of the
  source (`OneSource`) and agree with those its items list, bound for bound and
  rate for rate (`EntriesFaithful`), so charging by the row is charging by the list
  (`SamePrices`).  Of CloudFront they agree up to the end of the first tier
  only, which is as far as `CdnEstimate` goes.
* *The estimators.*  What a query asks for is measured in one dimension of the
  row (`MeasuredIn`, from `MeasuredOnce`), which is the one the estimator picks
  (`QueueRight`, `GatewayRight`, `DnsRight`, `CdnRight`); an hour has one price
  (`HourFlat`).
* *The fees.*  The fees found in the rows and those the document lists for the
  sku correspond one to one (`FeesAdd`): a fee has a row of its own, in the
  global region, that nothing drops (`FeesApart`).

Folds and sums over sets are recursive, and the library's induction principles
cannot be used (they take an operator).  What a sum comes to is shown from what
its recursion says of each subset, by a smallest counterexample: if it were
wrong of some subset it would be wrong of one that has no smaller wrong one
(`SmallestOf`), and one element fewer gives a smaller one.  The walk is done in
the same way over the ends of tiers (`LeastOf`).

`UpstreamProofs`, for any sources, price lists, numbers of attempts and runs:
`TypeCorrect`, `ListWholeCorrect`, `ReuseHonestCorrect`,
`NothingOverlookedCorrect`, `DriftMeansChangeCorrect`. The invariant of a fetch
(`FInv`) has what is true at each point of the script: nothing received is older
than the run or newer than the provider (`Times`), what was received is on disk
under one of its two names (`Arrived`), a fetch that is over has every part
(`Ready`), and an ETag whose list was built is of the version the shard was made
of, one whose list was released of that of the release, or else of a version the
provider no longer has (`Cached`); so, until the script ends, is what a 304 found
(`ReuseSound`).  That of a check (`CInv`): the release stays as it is (`Fixed`),
answers kept are of versions listed since the check began (`KeptDuring`), and
each price looked up is missing, drifts or is near one that was listed meanwhile
(`LookedUp`).  `DriftInvariance` adds to both that nothing on disk or released is
of a version still to come (`Past`) and that a price that drifts was found in a
list published since the check began, which was no earlier than the release
(`DriftFound`).  So if the version has not changed in between, both prices are of
one list, and unless the lookup is inexact the item the row was made of is among
those found (`OwnItemFound`; by `NamesKept` or its id) and no other price is.

`SampleProofs`: `SampleSpreadCorrect`.  Each stratum adds what its share,
the budget and the pool leave room for, under keys the sample does not have yet
(`PickFills`); hence the last one fills the budget (`LastFills`), and the one for
the tail of the regions always finds room for a price (`TailReached`).

`ShardDeltaProofs`: `TypeCorrect`, `RoundTripCorrect`, `NeverOrphanedCorrect`.
`RoundTrip` speaks of the end of the list only.  Its invariant `IInv` says of
every point of the list that a row is already right unless a pending statement
will still see to it (`Settled`), that the upserts of a sku are all pending
until its `skus` row has been written (`UpsertsWhole`: a cascade may not take
a row that is not written again), the same of metadata (`MetaWhole`), and that
kept skus keep their parent (`ParentsStay`).  `NeverOrphaned` adds that deletes
go child first and upserts parent first.

`ShardUpdaterProofs`, for any number of processes on any channel: `TypeCorrect`,
`LockCorrect`.  The invariant `Overlap` adds to types and lock
protocol what a process knows where it stands (`Knows`): its entry is a
published one, the chain is made of that entry's deltas, a process in a
transaction has a file open, a process about to begin one has a shard under
the name.

And for any number of daily updates that race from one manifest, with failures,
lost races for the lock and crashes anywhere: `RacesKeepContent`,
`RacesReportTrue`, `RacesNeverRegress`, `RacesRefine`.  The hypothesis is
`OneManifest`, the ordinary overlap: a shard is installed, the newest release is
out, its baseline is not newer than the shard and the chain from there is not
longer than `MaxChain`, every client is on the daily channel and no manifest
server is behind.  `updater_concurrent` is an instance of it.
Without it the claims are false: section 6 shows two updates from different
manifests, or two that install a baseline, that break the shard.  The invariant
`Together` says that a reader always sees one release within reach of the head;
that this is, for each process, the version it read before it had the lock or
the head, since whoever committed in between went all the way; and that in a
transaction every row is that of the release the chain has come to or already
that of the head (`Halfway`).  Such a row stays right: a delta sets the rows in
which its two releases differ and leaves the others alone (`PatchedHalfway`), so
a chain replayed on a shard that somebody else has brought to the head ends at
the head again (`HalfwayThere`).  Since the newest manifest and a chain that is
short enough leave no process with a reason to take a baseline, `Install`'s
steps do not occur (`FetchTogether`).

`SerialUpdateProofs`, under `Alone` (one process; two overlapping ones refute
the theorems, section 6): `ContentCorrect`, `FailureHarmless`, `ResultCorrect`.
The invariant `Settled` adds that a journal belongs to the file that has the
name (`Paired`), that a reader sees nothing or a whole release, that `.part`
and `.db` are different files, and what is true at each program counter
(`Sure`): in the transaction the file holds the release before the first
pending delta.  That is where `PatchedFaithful` is used: a delta turns the rows
of its start into those of its end.

Also under `Alone`: `NeverRegresses` and `Refinement`, that every step of the
updater is an update of the abstract shard or leaves it alone.  To `Settled`
they add where a process is heading (`Aims`): its
entry is a published one, the version it read is still the one a reader sees
until it installs, it installs only when the code wants a baseline or the chain
is too long, and the head of a chain it applies is not older than what is
there.

`ReleasePipelineProofs`, for any providers, shards, days and bounds, under
`AsDocumented`: a provider is run again with `force_baseline` only, as the
runbook says, and the previous manifest can be read (section 6 shows both to be
needed).  `TypeCorrect`, `ServableAlways`, `NeverForgotten`, `ChainsSound`,
`ClientsExact`, `MirrorNeverGoesBack`.  The last is that the mirror loses no
shard and never goes back while every previous manifest could be downloaded and
no job has lost its release; a failed download, which `build_manifest.sh:24-28`
tolerates, is excluded, and `pipeline_lost_manifest` shows the shards it loses.
The invariant `Inv` says of every
release that what its manifest points to is there and leads to the head
(`Supported`), and that every indicator in its state is of a revision it carries
(`StatesBacked`); the same of the assets a publish job holds (`JobSound`), of
the files in artifacts (`FileSound`) and of what a run remembers of the previous
release (`RunSound`).  Releases of past days never change (`Gone`), which is why
a run may refer to one.  It needs to be this strong because each file is made
from another one read earlier: a manifest from yesterday's manifest, a delta
from yesterday's baseline, a state from yesterday's state.  `Once` (while no
release was replaced no delta is listed twice), `ClientInv` (every manifest a
client may be offered is that of a release, and its rows are those of its
version) and `MirrorInv` (what the next push would put up is never behind the
mirror) rest on it.

Every invariant and action property of a passing run, and the refinement of
`ReleasedShard`, is stated by a theorem, and every passing run is an instance
that satisfies the hypothesis (`Alone`, `OneManifest`, `AsDocumented`) of the
theorems about it.  Only model-checked are the two liveness properties,
`ReachesHead` and `EveryRunEnds`: the prover has no fairness and no ENABLED.
Nothing is claimed of overlapping updates that start from different manifests or
take baselines, beyond `TypeCorrect` and `LockCorrect`; the two
updater runs of section 6 show why.

## 5. What is left out

* Of a row: attributes, units and their divisors, terms and hashes.  Prices are
  numbers, names and regions model values.
* OpenRouter's ingest apart from the choice among endpoints that share a
  `sku_id`, which is in `Validation`; the machine-type tables of GCP.
* Schema drift, foreign-key checks and size budgets of the shard builder; the
  validator's cross-check with Vantage and the issue its workflow opens.
* The estimators that multiply one flat price by a quantity; parsing of items
  and quantities.
* SQLite outside rollback-journal mode.  Shards are published in it;
  `catalog.Open` switches a shard to WAL when a query opens it, and an install
  that renames over a shard with a live `-wal` is not modelled: what SQLite
  makes of a `-wal` whose salt does not match is not in this repository.
* Split deltas.  `build_manifest` lists them under `parts`, which the client's
  `Delta` does not have, so the client fails on them (`ApplyFails`).
* `generated_at`, ages and the stale gate; dry runs; CDN purging; what a request
  or an archive contains beyond being right or wrong.
* `catalog`'s lookups, `compare`, `batch`, `config` and the service commands.
  The lookups are SQL; `compare` starts one goroutine per shard that shares
  nothing with the others and sorts the result by price, and `batch` runs its
  operations one after the other, so a model would restate them; `SaveProfile`
  is a read and a write of one file, whose lost update is listed as a hazard
  and claimed to be excluded nowhere.  Packaging has no state.

## 6. What the code does not do as described

Five runs end in a violation; each checks one property that a document or a
comment of the repository states.

* `delta_dropped_child` (`DeltaReproducesToday`): a sku that stays but loses
  its row in a 1:1 table keeps it, on a connection with `foreign_keys` off,
  which is the updater's.  `RoundTrip` is the claim with that case taken out.
* `updater_part_shared` (`InstallAtomic`): `Install` takes no lock and shares
  `.part`, so two installs can leave a torn shard.
* `updater_stale_read` (`ContentMatchesLabel`): the local version is read before
  the lock is taken and not again after; a process with an older manifest pins
  the old version over rows of a later release.
* `pipeline_republish` (`RepublishResetsClient`): a client that already has the
  version that is republished keeps the old rows.
* `pipeline_lost_manifest` (`ShardsCarriedForward`): a failed download of the
  previous manifest is taken for a first release and drops every shard that has
  no artifact today.

Also seen while modelling, in the order of the chain.

Discover and fetch.
* The docstring of `_etag_cache.py` says discover writes the cache; ingest does.
  On CI's runners `etags.json` is neither restored nor uploaded, so a 304 never
  happens there.  With a cache that is kept, a 304 takes the shard of the
  previous release for today's, and that may be older than the list which is
  "unchanged": when an ingest fails after `cache.save()`, when the sanity check
  or the publish job keeps the shard back, and when the ETag was stored by the
  other source of the URL, for `aws_rds` and `aws_aurora` share one and the cache
  is keyed by it (`aws_common.py:154-155`, `213`).  `ReuseHonest` is about the
  remaining case (`reached = "released"`).
* A 304 needs the `.db.zst` of the previous release, which is missing when that
  release was a delta.
* `aws_ec2.main` fetches nothing into a directory that has any file it takes for
  a region's, also a `.raw.json` a killed run left; `fetch_offer_regions`' own
  resumption is out of its reach.  `ListWhole` claims EC2 for empty directories
  only.  Regions missing from the index are passed over in silence
  (`aws_common.py:414`).
* `LiveClient` repeats 4xx answers too.  The indicators of GCP and Azure are
  hashes of the first item only, those of OpenRouter of the model ids.  GCP's
  docstring speaks of a weekly rebuild, the workflow of days 1 and 15.

Ingest.
* `azure_front_door.py` says that `tierMinimumUnits` identifies the tier (17),
  then that prices do (40), and zips tiers with its tokens by position (204): a
  list that lacks a tier in the middle is published with wrong bounds.
* `aws_s3.py:203` promises builds that can be reproduced, but prices of one
  group replace each other in the order of the document; so do `azure_blob`'s
  Data Stored tiers, which share a meter.  `OrderFree` is about unambiguous
  documents for that reason.
* GCP sources that take `serviceRegions[0]` publish an item in the first of its
  regions only.  `aws_opensearch` publishes a serverless row with whatever
  prices there are (199), GCP functions and run without a request price.
* OpenRouter: a model priced in other currencies only still gets its aggregated
  row (197), `ingest_shard.sh` sets `--skip-non-usd` although the docstring
  (154) says real ingests never do, and an endpoint tagged "openrouter" without
  a quantization falls together with the aggregated row.
* The sanity check's tolerance applies only when there were rows before, and it
  compares with an asset that a release made of a delta does not have.

Validate.
* The cross-check with Vantage asks for the dimension "on-demand"
  (`vantage.py:92`), rows have "compute": it never finds a difference.
* A price found may be other than the row's although nothing has changed
  (`Inexact`, which `DriftMeansChange` excepts).  `validate/aws.py` takes the
  first product of several for EC2, OpenSearch and EKS, `validate/openrouter.py`
  the first endpoint of several with one `sku_id`, while ingest publishes the
  cheapest, contrary to its docstring (14); `validate/gcp.py` the first item of
  a description (GKE) or the first whose id the `sku_id` extends, and always its
  first rate, though rows of later tiers are sampled.  Azure's validator compares
  the price of the unit listed, where ingest has divided it; GCP's divides where
  some sources do not.  docs/ops/validation.md:216 speaks of such false positives.
  Rows of nought are sampled (`sampler.py:64-71`), and the AWS and Azure lookups
  find the price of something else under the same name.  Azure's asks for a meter by
  the name of the row, which for the databases is not the meter's
  (`driver.py:42-48`, where three of four are skipped for it; `azure-mysql` is not).
* Several engines or meters under one name are told apart by their prices on the
  first page of the answer only (100 items).
* A run in which every request fails passes.

Publish and update.
* A release made of a delta carries no `.db.zst`, and `diff_package_shard.sh`
  compares with that asset of the previous release, so every second release of a
  shard is a baseline although nothing asked for a rebuild (`Packaged`), and
  chains do not grow beyond one delta.
* After installing a baseline, `Result.To` names the head although the shard is
  at `baseline_version` (`Cleanup`); `DeltaResultHonest` therefore speaks of the
  outcomes "noop" and "delta" only.

Estimate.
* A queue is charged for the first of its parameters only: `:ops` with
  `:tu_hours`, which an Event Hubs namespace pays both, leaves the hours out
  without a word (`QueueEstimate`).  DNS queries on a row that does not price
  them are free (`DnsEstimate`).
* Where two zones or geographies of a CDN share a region, the estimate charges
  the row whose `sku_id` comes first: `cdn.go:93-100`, with
  `gcp_cloud_cdn.py:19-22,44-53` ("Other" and "North America") and
  `azure_front_door.py:57-66` with `normalize/regions.yaml:83-97` (Zones 2 and
  8).  `gcp_cloud_cdn.py` calls it intentional, since the two share a price
  band; nothing checks that they do, and no query can name the zone.
  `ChargedAsListed` says that the charge is right for one of them.
* CloudFront's first tier is published as unbounded (only it is ingested); the
  estimator knows its end from a table of its own (`CdnBound`).  Without it
  `ChargedAsListed` fails.

## 7. The plan, and where it stands

Done, in this order: `ShardDelta`; `ShardUpdater` and its refinement of
`ReleasedShard`; `ReleasePipeline`; `Ingest` with the policies of all shards but
one; `PriceFetch` and `Validation`, composed in `Upstream`; `Estimate` on top of
`Ingest`; the proofs of section 4, which state every safety property checked.

What could come next, in the order of what it would add:

* the shard's WAL: `catalog.Open` of a query against an install that renames
  over the file, as two more steps of `ShardUpdater`;
* `schema_drift` and the size budgets in `Ingest`, and split deltas in
  `ReleasePipeline` once the client knows them;
* the remaining estimators, when they read prices by tiers.
