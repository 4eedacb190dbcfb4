-------------------------- MODULE ReleasePipeline --------------------------
(***************************************************************************)
(* The data pipeline: from upstream price lists to the releases clients    *)
(* update from.                                                            *)
(*                                                                         *)
(* Once a day each provider workflow (data-aws.yml and its siblings) asks  *)
(* the discover driver which of its shards changed, ingests those, turns   *)
(* each into a baseline or a delta (diff_package_shard.sh) and uploads one *)
(* artifact.  data-publish.yml collects the artifacts of the day, merges   *)
(* the discover states, assembles manifest.json (build_manifest.py),       *)
(* creates the release data-<day> and moves the floating manifest.         *)
(* Provider runs, publishing, midnight and clients interleave freely; any  *)
(* job may die between two of its steps.                                   *)
(*                                                                         *)
(* The contents of a shard are the upstream revision they were built from. *)
(* A delta is the pair of contents it leads between; what its statements   *)
(* do to a table is the subject of ShardDelta.  A client update is one     *)
(* step here; ShardUpdater has its parts.                                  *)
(***************************************************************************)
EXTENDS Integers, Sequences, FiniteSets, Functions

CONSTANTS
    Provider, Shard,
    Owner,        \* the provider of each shard
    Watched,      \* the shard the client has
    MaxDay,       \* bound on days, which are also the catalog versions
    MaxRevision,  \* shard -> bound on its upstream revisions
    MaxReplaced,  \* bound on how often a release is replaced
    Rerun,        \* the values force_baseline may have when a provider
                  \* workflow runs again on a day it has an artifact for
    Unreachable,  \* the assets of the previous release whose download may
                  \* fail: "state", "baseline", "manifest"
    None, Mixed   \* no file; rows of no revision

ASSUME PipelineAssumption ==
    /\ Owner \in [Shard -> Provider]
    /\ Watched \in Shard
    /\ MaxRevision \in [Shard -> Nat \ {0}]
    /\ MaxDay \in Nat \ {0} /\ MaxReplaced \in Nat
    /\ Rerun \subseteq BOOLEAN
    /\ Unreachable \subseteq {"state", "baseline", "manifest"}
    /\ None # Mixed
    /\ {None, Mixed} \cap Nat = {}

Day == 1..MaxDay
Revision == UNION {1..MaxRevision[s] : s \in Shard}
Maybe(S) == S \cup {None}
Nothing == [s \in Shard |-> None]

(* The files: a delta leads from one version and its rows to another, an   *)
(* entry of manifest.json has a baseline and the deltas from it on.        *)
Delta == [from : Day, to : Day, old : Revision, new : Revision]
ManifestEntry == [baseline : Day, head : Day, deltas : Seq(Delta)]
Manifest == [Shard -> Maybe(ManifestEntry)]
State == [Shard -> Maybe(Revision)]
Assets == [baseline : [Shard -> Maybe(Revision)], delta : [Shard -> Maybe(Delta)],
           manifest : Manifest, state : State]
Artifact == [state : State,
             files : [Shard -> [baseline : Maybe(Revision), delta : Maybe(Delta)]]]
Run == [previous : 0..MaxDay, rebuild : BOOLEAN, state : State, due : SUBSET Shard,
        built : [Shard -> Maybe(Revision)]]
Job == [step : {"create", "recreate", "drop", "latest", "mirror"}, assets : Assets]

ASSUME NoneIsNoFile ==
    /\ None \notin Delta /\ None \notin ManifestEntry /\ None \notin Manifest
    /\ None \notin Assets /\ None \notin Artifact /\ None \notin Run /\ None \notin Job

VARIABLES
    day,
    upstream,   \* shard -> revision at its provider
    run,        \* provider -> its workflow run, None when idle
    artifact,   \* provider -> the shards-<provider>-<day> of today
    publish,    \* the data-publish job, None when idle
    release,    \* day -> the assets of data-<day>, None without a release
    latest,     \* manifest.json of the data-latest release
    mirror,     \* manifest.json of the data branch behind the CDN
    replaced,   \* how many releases were deleted to be replaced
    lost,       \* a job died between deleting a release and creating it anew
    client      \* a client on the daily channel

vars == <<day, upstream, run, artifact, publish, release, latest, mirror,
          replaced, lost, client>>

Init ==
    /\ day = 1
    /\ upstream = [s \in Shard |-> 1]
    /\ run = [p \in Provider |-> None]
    /\ artifact = [p \in Provider |-> None]
    /\ publish = None
    /\ release = [d \in Day |-> None]
    /\ latest = None
    /\ mirror = None
    /\ replaced = 0
    /\ lost = FALSE
    /\ client = [version |-> 0, rows |-> None, synced |-> FALSE]

-----------------------------------------------------------------------------
(* previous_release_version.sh: the most recent data-<day>, 0 for none.    *)
Released == {d \in Day : release[d] # None}
Newest == IF Released = {} THEN 0 ELSE CHOOSE d \in Released : \A e \in Released : e <= d

(* What a download of an asset of data-<d> brings: Nothing or None when    *)
(* the asset is missing, and when the failure is tolerated.                *)
Fetched(kind, d, nothing) ==
    IF d = 0 \/ release[d] = None THEN {nothing}
    ELSE {release[d][kind]} \cup IF kind \in Unreachable THEN {nothing} ELSE {}

(* Publishing takes minutes and ends on the day it began.  A provider run  *)
(* that is still going at midnight uploads for a day that has passed, and  *)
(* nobody publishes its artifact: the day starts without either.           *)
NewDay ==
    /\ day < MaxDay
    /\ publish = None
    /\ day' = day + 1
    /\ run' = [p \in Provider |-> None]
    /\ artifact' = [p \in Provider |-> None]
    /\ UNCHANGED <<upstream, publish, release, latest, mirror, replaced, lost, client>>

UpstreamChanges(s) ==
    /\ upstream[s] < MaxRevision[s]
    /\ upstream' = [upstream EXCEPT ![s] = @ + 1]
    /\ UNCHANGED <<day, run, artifact, publish, release, latest, mirror,
                   replaced, lost, client>>

-----------------------------------------------------------------------------
(* A provider workflow.                                                    *)

(* The driver compares fresh indicators with the state.json of the newest  *)
(* release and saves the union of both.  An error on the provider's call   *)
(* leaves nothing changed, and a run without changed shards uploads        *)
(* nothing: neither leaves a trace.  An indicator is taken for the         *)
(* revision, though it is made of a part of the list.                      *)
Discover(p, force) ==
    /\ run[p] = None
    /\ artifact[p] # None => force \in Rerun
    /\ \E old \in Fetched("state", Newest, Nothing) :
           LET rebuild == force \/ old = Nothing
               changed == {s \in Shard : /\ Owner[s] = p
                                         /\ rebuild \/ upstream[s] # old[s]}
           IN  /\ changed # {}
               /\ run' = [run EXCEPT ![p] =
                      [previous |-> Newest,
                       rebuild |-> rebuild,
                       state |-> [s \in Shard |->
                                     IF Owner[s] = p THEN upstream[s] ELSE old[s]],
                       due |-> changed,
                       built |-> Nothing]]
    /\ UNCHANGED <<day, upstream, artifact, publish, release, latest, mirror,
                   replaced, lost, client>>

(* The ingest jobs of a run build the shards in any order, each from what  *)
(* upstream has by then.                                                   *)
Ingest(p, s) ==
    /\ run[p] # None
    /\ s \in run[p].due
    /\ run' = [run EXCEPT ![p].due = @ \ {s}, ![p].built[s] = upstream[s]]
    /\ UNCHANGED <<day, upstream, artifact, publish, release, latest, mirror,
                   replaced, lost, client>>

(* diff_package_shard.sh for one shard, given the previous baseline or     *)
(* None: a baseline on a rebuild and when there is nothing to compare      *)
(* with, else a delta.                                                     *)
PackagedUnlessRebuild(r, s, old) ==
    IF r.rebuild
    THEN [baseline |-> r.built[s], delta |-> None]
    ELSE [baseline |-> None,
          delta |-> [from |-> r.previous, to |-> day, old |-> old, new |-> r.built[s]]]

PackagedSinceYesterday(r, s, old) ==
    IF r.rebuild \/ old = None
    THEN [baseline |-> r.built[s], delta |-> None]
    ELSE [baseline |-> None,
          delta |-> [from |-> day - 1, to |-> day, old |-> old, new |-> r.built[s]]]

Packaged(r, s, old) ==
    IF r.rebuild \/ old = None
    THEN [baseline |-> r.built[s], delta |-> None]
    ELSE [baseline |-> None,
          delta |-> [from |-> r.previous, to |-> day, old |-> old, new |-> r.built[s]]]

Untouched == [baseline |-> None, delta |-> None]

(* diff_package and bundle, once every job of the matrix has succeeded.    *)
Bundle(p) ==
    LET r == run[p]
        touched == {s \in Shard : r.built[s] # None}
    IN  /\ r # None
        /\ r.due = {}
        /\ \E old \in [touched -> Maybe(Revision)] :
               /\ \A s \in touched :
                      \E found \in Fetched("baseline", r.previous, Nothing) : old[s] = found[s]
               /\ artifact' = [artifact EXCEPT ![p] =
                      [state |-> r.state,
                       files |-> [s \in Shard |-> IF s \in touched
                                                  THEN Packaged(r, s, old[s])
                                                  ELSE Untouched]]]
        /\ run' = [run EXCEPT ![p] = None]
        /\ UNCHANGED <<day, upstream, publish, release, latest, mirror,
                       replaced, lost, client>>

RunFailsKeepingState(p) ==
    /\ run[p] # None
    /\ artifact' = [artifact EXCEPT ![p] =
           [state |-> run[p].state,
            files |-> [s \in Shard |-> Untouched]]]
    /\ run' = [run EXCEPT ![p] = None]
    /\ UNCHANGED <<day, upstream, publish, release, latest, mirror, replaced,
                   lost, client>>

(* A failed job skips the jobs that need it: no artifact, so the indicators *)
(* the run saw are not published either.                                   *)
RunFails(p) ==
    /\ run[p] # None
    /\ run' = [run EXCEPT ![p] = None]
    /\ UNCHANGED <<day, upstream, artifact, publish, release, latest, mirror,
                   replaced, lost, client>>

-----------------------------------------------------------------------------
(* data-publish.yml.                                                       *)

(* build_manifest.py, for one shard: a baseline starts a chain over, a     *)
(* delta extends the entry it had, an untouched shard is carried over.     *)
EntryMovingBaseline(file, before) ==
    IF file.baseline # None
    THEN [baseline |-> day, head |-> day, deltas |-> <<>>]
    ELSE IF file.delta # None
    THEN [baseline |-> day, head |-> day, deltas |-> Append(before.deltas, file.delta)]
    ELSE before

EntryDroppingUntouched(file, before) ==
    IF file.baseline # None
    THEN [baseline |-> day, head |-> day, deltas |-> <<>>]
    ELSE IF file.delta # None
    THEN [before EXCEPT !.head = day, !.deltas = Append(@, file.delta)]
    ELSE None

Entry(file, before) ==
    IF file.baseline # None
    THEN [baseline |-> day, head |-> day, deltas |-> <<>>]
    ELSE IF file.delta # None
    THEN [before EXCEPT !.head = day, !.deltas = Append(@, file.delta)]
    ELSE before

(* merge_discover_state.py: of the artifacts that know an indicator the    *)
(* one ranked last is believed.                                            *)
Merged(ready, rank, state) ==
    \A s \in Shard :
        LET seen == {p \in ready : artifact[p].state[s] # None}
        IN  IF seen = {} THEN state[s] = None
            ELSE \E p \in seen : /\ \A q \in seen : rank[q] <= rank[p]
                                 /\ state[s] = artifact[p].state[s]

(* What the artifacts of the day have for a shard, and the release made of *)
(* them and of the manifest before.                                        *)
File(s) == IF artifact[Owner[s]] # None THEN artifact[Owner[s]].files[s] ELSE Untouched

NewAssets(before, state) ==
    [baseline |-> [s \in Shard |-> File(s).baseline],
     delta |-> [s \in Shard |-> File(s).delta],
     manifest |-> [s \in Shard |-> Entry(File(s), before[s])],
     state |-> state]

(* Collect the artifacts of the day and assemble the release; states merge *)
(* in the order of their mtime, any order.  A delta for a shard that the   *)
(* previous manifest lacks fails the job.                                  *)
Assemble ==
    LET ready == {p \in Provider : artifact[p] # None}
    IN  /\ publish = None
        /\ ready # {}
        /\ \E before \in Fetched("manifest", Newest, Nothing),
              rank \in Bijection(ready, 1..Cardinality(ready)),
              state \in State :
               /\ \A s \in Shard : File(s).delta # None => before[s] # None
               /\ Merged(ready, rank, state)
               /\ publish' = [step |-> "create", assets |-> NewAssets(before, state)]
        /\ UNCHANGED <<day, upstream, run, artifact, release, latest, mirror,
                       replaced, lost, client>>

(* With replace_existing_release the release of the day goes first;        *)
(* without, an existing one fails the job.                                 *)
DeleteRelease ==
    /\ publish # None /\ publish.step = "create"
    /\ release[day] # None
    /\ replaced < MaxReplaced
    /\ release' = [release EXCEPT ![day] = None]
    /\ replaced' = replaced + 1
    /\ publish' = [publish EXCEPT !.step = "recreate"]
    /\ UNCHANGED <<day, upstream, run, artifact, latest, mirror, lost, client>>

CreateRelease ==
    /\ publish # None /\ publish.step \in {"create", "recreate"}
    /\ release[day] = None
    /\ release' = [release EXCEPT ![day] = publish.assets]
    /\ publish' = [publish EXCEPT !.step = "drop"]
    /\ UNCHANGED <<day, upstream, run, artifact, latest, mirror, replaced, lost, client>>

(* data-latest is deleted, then created anew, then the data branch is      *)
(* overwritten.                                                            *)
DropLatest ==
    /\ publish # None /\ publish.step = "drop"
    /\ latest' = None
    /\ publish' = [publish EXCEPT !.step = "latest"]
    /\ UNCHANGED <<day, upstream, run, artifact, release, mirror, replaced, lost, client>>

CreateLatest ==
    /\ publish # None /\ publish.step = "latest"
    /\ latest' = publish.assets.manifest
    /\ client' = [client EXCEPT !.synced = FALSE]
    /\ publish' = [publish EXCEPT !.step = "mirror"]
    /\ UNCHANGED <<day, upstream, run, artifact, release, mirror, replaced, lost>>

PushMirror ==
    /\ publish # None /\ publish.step = "mirror"
    /\ mirror' = publish.assets.manifest
    /\ publish' = None
    /\ UNCHANGED <<day, upstream, run, artifact, release, latest, replaced, lost, client>>

PublishDies ==
    /\ publish # None
    /\ publish' = None
    /\ lost' = (lost \/ publish.step = "recreate")
    /\ UNCHANGED <<day, upstream, run, artifact, release, latest, mirror,
                   replaced, client>>

-----------------------------------------------------------------------------
(* A client on the daily channel, and the steps.                           *)

Served(d, kind) == IF release[d] = None THEN None ELSE release[d][kind][Watched]

(* A client of version v applies the deltas from v on, in their order.     *)
Chain(entry, v) == {i \in DOMAIN entry.deltas : entry.deltas[i].from >= v}
First(chain) == CHOOSE i \in chain : \A j \in chain : i <= j
Last(chain) == CHOOSE i \in chain : \A j \in chain : j <= i

(* A delta leads to its rows from those it was made for, and leaves them   *)
(* when it meets them already; on other rows it makes a mixture.           *)
Walked(rows, deltas, chain) ==
    LET met(i) == LET done == {j \in chain : j < i}
                  IN  IF done = {} THEN rows ELSE deltas[Last(done)].new
    IN  IF chain = {} THEN rows
        ELSE IF \A i \in chain : met(i) \in {deltas[i].old, deltas[i].new}
        THEN deltas[Last(chain)].new
        ELSE Mixed

InstallAsHead(entry, synced) ==
    /\ Served(entry.baseline, "baseline") # None
    /\ client' = [version |-> entry.head, rows |-> Served(entry.baseline, "baseline"),
                  synced |-> synced]

InstallBaseline(entry, synced) ==
    /\ Served(entry.baseline, "baseline") # None
    /\ client' = [version |-> entry.baseline, rows |-> Served(entry.baseline, "baseline"),
                  synced |-> synced]

(* updater.Update against either manifest; a missing asset, or a delta     *)
(* whose sha256 is not the manifest's, changes nothing.                    *)
UpdateFrom(entry, synced) ==
    LET v == client.version
        chain == Chain(entry, v)
    IN  IF v < entry.baseline THEN InstallBaseline(entry, synced)
        ELSE IF chain = {} THEN client' = [client EXCEPT !.synced = synced]
        ELSE IF entry.deltas[First(chain)].from # v THEN InstallBaseline(entry, synced)
        ELSE /\ \A i \in chain : Served(entry.deltas[i].to, "delta") = entry.deltas[i]
             /\ client' = [version |-> entry.head,
                           rows |-> Walked(client.rows, entry.deltas, chain),
                           synced |-> synced]

ClientUpdate ==
    /\ \E m \in {latest, mirror} \ {None} :
           /\ m[Watched] # None
           /\ UpdateFrom(m[Watched], m = latest)
    /\ UNCHANGED <<day, upstream, run, artifact, publish, release, latest,
                   mirror, replaced, lost>>

Next ==
    \/ NewDay
    \/ \E s \in Shard : UpstreamChanges(s)
    \/ \E p \in Provider :
           \/ \E force \in BOOLEAN : Discover(p, force)
           \/ \E s \in Shard : Ingest(p, s)
           \/ Bundle(p)
           \/ RunFails(p)
    \/ Assemble \/ DeleteRelease \/ CreateRelease
    \/ DropLatest \/ CreateLatest \/ PushMirror \/ PublishDies
    \/ ClientUpdate

Spec == Init /\ [][Next]_vars

-----------------------------------------------------------------------------
(* Every file the pipeline and its clients hold is of its kind; a publish  *)
(* job holds a complete release.                                           *)
TypeOK ==
    /\ day \in Day
    /\ upstream \in [Shard -> Revision]
    /\ run \in [Provider -> Maybe(Run)]
    /\ artifact \in [Provider -> Maybe(Artifact)]
    /\ publish \in Maybe(Job)
    /\ release \in [Day -> Maybe(Assets)]
    /\ latest \in Maybe(Manifest)
    /\ mirror \in Maybe(Manifest)
    /\ replaced \in 0..MaxReplaced
    /\ lost \in BOOLEAN
    /\ client \in [version : 0..MaxDay, rows : Maybe(Revision \cup {Mixed}), synced : BOOLEAN]

(* Every asset that the manifest of a release points to exists in the      *)
(* release it points to, whatever a publish job deleted and wherever one   *)
(* died.                                                                   *)
ManifestServable ==
    \A r \in Released :
        \A s \in Shard : LET e == release[r].manifest[s] IN e # None =>
            /\ release[e.baseline] # None /\ release[e.baseline].baseline[s] # None
            /\ \A i \in DOMAIN e.deltas :
                   LET d == e.deltas[i] IN
                       release[d.to] # None /\ release[d.to].delta[s] = d

(* The rows a shard has in the release that touched it.                    *)
RowsAt(d, s) == IF release[d].baseline[s] # None THEN release[d].baseline[s]
                ELSE release[d].delta[s].new

(* A client that starts from the baseline of a release and walks its       *)
(* deltas, each of which starts at the version the one before it led to,   *)
(* arrives at the rows the pipeline built for head_version.  In a release  *)
(* that replaces another a delta may be listed twice.                      *)
ChainSound ==
    \A r \in Released, s \in Shard :
        LET e == release[r].manifest[s] IN e # None =>
            /\ Walked(RowsAt(e.baseline, s), e.deltas, DOMAIN e.deltas) = RowsAt(e.head, s)
            /\ replaced = 0 =>
                   \A i \in DOMAIN e.deltas :
                       e.deltas[i].from = IF i = 1 THEN e.baseline ELSE e.deltas[i - 1].to

(* An indicator in the state of a release is of a shard the manifest has,  *)
(* at that revision or a later one.  Otherwise discover would take a shard *)
(* that no release carries for unchanged, and no later run would ingest it. *)
NothingForgotten ==
    \A r \in Released, s \in Shard :
        LET seen == release[r].state[s]
            e == release[r].manifest[s]
        IN  seen # None => e # None /\ seen <= RowsAt(e.head, s)

(* A client that has version v has the rows the pipeline built for v,      *)
(* whichever of the two manifests its updates read and whenever the        *)
(* publish job died, as long as no release was replaced.                   *)
ClientExact ==
    client.version # 0 /\ replaced = 0 => client.rows = RowsAt(client.version, Watched)

(* The manifest behind the CDN never loses a shard nor goes back to an     *)
(* older version of one: a failed provider leaves its shards where they    *)
(* were (docs/ops/data-workflows.md).  That is so where the manifest of    *)
(* the previous release is always downloaded: see ShardsCarriedForward.    *)
MirrorAdvances ==
    [][\A s \in Shard : mirror # None /\ mirror[s] # None /\ ~lost =>
           mirror'[s] # None /\ mirror[s].head <= mirror'[s].head]_mirror

(* docs/ops/data-workflows.md: a failed provider leaves its shards at       *)
(* yesterday's versions: a shard of one release is in the next one.        *)
ShardsCarriedForward ==
    \A d \in Released \ {Newest} : \A s \in Shard :
        ~lost /\ release[d].manifest[s] # None => release[Newest].manifest[s] # None

(* docs/ops/data-dispatch-runbook.md: republishing with force_baseline     *)
(* resets every client's delta chain onto today's baseline, so that a      *)
(* client that updates from the manifest just published to its head has    *)
(* the rows of the head.                                                   *)
RepublishResetsClient ==
    (publish # None /\ publish.step = "mirror" /\ client.synced /\ client.version = day) =>
        client.rows = RowsAt(day, Watched)
=============================================================================
