----------------------------- MODULE PriceFetch -----------------------------
(***************************************************************************)
(* Getting a provider's price list: scripts/ci/ingest_shard.sh and the     *)
(* fetchers of pipeline/ingest.  A list comes in parts, by requests that   *)
(* fail, are repeated and cut off, while the provider may change it; a     *)
(* shard is made of what lies in the directory at the end.                 *)
(*                                                                         *)
(*   offer    one file, streamed to disk; its ETag may spare the download, *)
(*            and the shard of the last release is taken for today's       *)
(*   regions  a file per region, of the version an index names, by a pool  *)
(*   pages    pages that follow each other, kept in memory until the last  *)
(*   models   a list of models, then a file for each of them, in order     *)
(***************************************************************************)
EXTENDS Naturals

CONSTANTS Sources,     \* records with fields shape, see above, parts, and twin:
                       \* another source reads the offer at the same URL
          Retries,     \* attempts at a request
          MaxVersion,  \* versions of the price list
          MaxRuns      \* runs of the script

VARIABLES upstream,  \* the version the provider publishes
          src,       \* the source at hand
          runs,      \* how many runs there were
          fresh,     \* whether the last one began in an empty directory
          began,     \* upstream when it began
          pc,        \* where it stands
          pin,       \* the version the region index names, or None
          got,       \* part -> the version received, or None
          tries,     \* part -> failed attempts
          raw,       \* part -> its version downloaded but not stripped, or None
          dir,       \* part -> its version under the final name, or None
          etag,      \* the ETag of that URL in the cache file, or None
          seen,      \* the one HEAD returned, or None
          reached,   \* how far the list has come whose ETag was stored last
          shard,     \* the versions the last shard was made of, and when
          released   \* those of the shard in the last release

run == <<src, runs, fresh, began>>
requests == <<pin, got, tries, seen>>
files == <<raw, dir, etag>>
fetchVars == <<run, pc, requests, files, reached, shard, released>>

None == 0
Parts == src.parts
Nothing == [p \in Parts |-> None]
Resting == pc \in {"idle", "failed"}

\* The process is over: what it had in memory is gone, files stay.
Exit(outcome) ==
  /\ pc' = outcome
  /\ pin' = None /\ got' = Nothing /\ tries' = Nothing /\ seen' = None

\* After a run whose shard has been released.
FetchInit ==
  /\ src \in Sources /\ runs = 0 /\ fresh = TRUE /\ began = upstream /\ pc = "idle"
  /\ pin = None /\ got = Nothing /\ tries = Nothing /\ seen = None
  /\ raw = Nothing /\ dir = Nothing
  /\ etag = (IF src.shape = "offer" THEN upstream ELSE None) /\ reached = "released"
  /\ shard = [of |-> [p \in Parts |-> upstream], since |-> upstream, fresh |-> TRUE]
  /\ released = shard

UpstreamChanges == upstream < MaxVersion /\ upstream' = upstream + 1

\* The workflows that follow release the shard, if it was built today.
Release ==
  /\ released' = shard
  /\ reached' = IF reached = "built" THEN "released" ELSE reached
  /\ UNCHANGED <<run, pc, requests, files, shard>>

\* The script runs for the other source of this URL, with the same cache.
TwinFetches ==
  /\ Resting /\ src.twin /\ etag # upstream
  /\ etag' = upstream /\ reached' = "elsewhere"
  /\ UNCHANGED <<run, pc, requests, raw, dir, shard, released>>
-----------------------------------------------------------------------------
(* A run of the script. *)

\* In the directory of the last run, or in an empty one, as on a new runner.
\* Where there are region files, ingest.aws_ec2 fetches none.
Begin(empty) ==
  /\ Resting /\ runs < MaxRuns
  /\ runs' = runs + 1 /\ fresh' = empty /\ began' = upstream
  /\ IF empty THEN raw' = Nothing /\ dir' = Nothing /\ etag' = None /\ reached' = "elsewhere"
              ELSE UNCHANGED <<files, reached>>
  /\ pc' = CASE src.shape = "offer" -> "head"
             [] src.shape = "regions" ->
                  IF raw' = Nothing /\ dir' = Nothing THEN "index" ELSE "fetched"
             [] OTHER -> "getting"
  /\ UNCHANGED <<src, shard, released, requests>>

\* fetch_offer asks whether there is anything newer than the ETag it knows.
NotModified ==
  /\ pc = "head" /\ etag = upstream
  /\ pc' = "reused" /\ seen' = upstream
  /\ UNCHANGED <<run, pin, got, tries, files, reached, shard, released>>

\* The new ETag saved before the download.
ModifiedSaved ==
  /\ pc = "head" /\ etag # upstream
  /\ pc' = "getting" /\ seen' = upstream /\ etag' = upstream
  /\ UNCHANGED <<run, pin, got, tries, raw, dir, reached, shard, released>>

Modified ==
  /\ pc = "head" /\ etag # upstream
  /\ pc' = "getting" /\ seen' = upstream
  /\ UNCHANGED <<run, pin, got, tries, files, reached, shard, released>>

\* The regions of the index, but of whatever version is current.
ReadIndexUnpinned ==
  /\ pc = "index" /\ pc' = "getting"
  /\ UNCHANGED <<run, requests, files, reached, shard, released>>

ReadIndex ==
  /\ pc = "index"
  /\ pc' = "getting" /\ pin' = upstream
  /\ UNCHANGED <<run, got, tries, seen, files, reached, shard, released>>

\* The HEAD request, or the index after all attempts, fails, or there is no
\* .db.zst to download: a release made of a delta has none.
AskFails ==
  /\ pc \in {"head", "index", "reused"} /\ Exit("failed")
  /\ UNCHANGED <<run, files, reached, shard, released>>

\* The part is being asked for: in order, or by the pool, whose requests go on
\* when one of them has failed.
Asking(p) ==
  /\ pc \in {"getting", "failing"} /\ got[p] = None /\ tries[p] < Retries
  /\ src.shape # "regions" => \A q \in Parts : q < p => got[q] # None

GetPart(p) ==
  /\ Asking(p)
  /\ got' = [got EXCEPT ![p] = IF pin = None THEN upstream ELSE pin]
  /\ raw' = IF src.shape = "regions" THEN [raw EXCEPT ![p] = got'[p]] ELSE raw
  /\ dir' = IF src.shape \in {"offer", "models"} THEN [dir EXCEPT ![p] = got'[p]] ELSE dir
  /\ UNCHANGED <<run, pc, pin, tries, seen, etag, reached, shard, released>>

StripPart(p) ==
  /\ pc \in {"getting", "failing"} /\ raw[p] # None
  /\ dir' = [dir EXCEPT ![p] = raw[p]] /\ raw' = [raw EXCEPT ![p] = None]
  /\ UNCHANGED <<run, pc, requests, etag, reached, shard, released>>

\* The attempts are counted from the last 5xx answer on.
TryAgainAnew(p) ==
  /\ Asking(p)
  /\ tries' = [tries EXCEPT ![p] = (@ + 1) % Retries]
  /\ UNCHANGED <<run, pc, pin, got, seen, files, reached, shard, released>>

\* A 5xx answer, or none: the same request again.
TryAgain(p) ==
  /\ Asking(p) /\ tries[p] + 1 < Retries
  /\ tries' = [tries EXCEPT ![p] = @ + 1]
  /\ UNCHANGED <<run, pc, pin, got, seen, files, reached, shard, released>>

\* The last attempt fails, the answer is one not to ask again for, or the
\* stream breaks off: its .part file is removed, and the run is given up.
GiveUp(p) ==
  /\ Asking(p)
  /\ IF src.shape = "regions"
     THEN /\ pc' = "failing" /\ tries' = [tries EXCEPT ![p] = Retries]
          /\ UNCHANGED <<pin, got, seen>>
     ELSE Exit("failed")
  /\ UNCHANGED <<run, files, reached, shard, released>>

\* What the pool had not begun is cancelled, the rest is over.
PoolEnds ==
  /\ pc = "failing" /\ raw = Nothing /\ Exit("failed")
  /\ UNCHANGED <<run, files, reached, shard, released>>

\* The list without the parts that failed.
FetchedSome ==
  /\ pc \in {"getting", "failing"} /\ raw = Nothing /\ got # Nothing
  /\ pc' = "fetched"
  /\ dir' = IF src.shape = "pages" THEN got ELSE dir
  /\ IF src.shape = "offer" THEN etag' = seen /\ reached' = "fetched"
                            ELSE UNCHANGED <<etag, reached>>
  /\ UNCHANGED <<run, requests, raw, shard, released>>

\* The pages are written as one file now, and the ETag is saved.
Fetched ==
  /\ pc = "getting" /\ raw = Nothing /\ \A p \in Parts : got[p] # None
  /\ pc' = "fetched"
  /\ dir' = IF src.shape = "pages" THEN got ELSE dir
  /\ IF src.shape = "offer" THEN etag' = seen /\ reached' = "fetched"
                            ELSE UNCHANGED <<etag, reached>>
  /\ UNCHANGED <<run, requests, raw, shard, released>>

\* ingest and build_shard read what is there; a file that was not stripped has
\* a name they take for that of a region.
Publish ==
  /\ pc = "fetched" /\ Exit("idle")
  /\ shard' = [of |-> [p \in Parts |-> IF dir[p] = None THEN raw[p] ELSE dir[p]],
               since |-> began, fresh |-> fresh]
  /\ reached' = IF src.shape = "offer" THEN "built" ELSE reached
  /\ UNCHANGED <<run, files, released>>

IngestFails ==
  /\ pc = "fetched" /\ Exit("failed")
  /\ UNCHANGED <<run, files, reached, shard, released>>

\* The shard of the last release once more, in place of one not released.
Reuse ==
  /\ pc = "reused" /\ Exit("idle")
  /\ shard' = released
  /\ reached' = IF reached = "built" THEN "fetched" ELSE reached
  /\ UNCHANGED <<run, files, released>>

\* The process is killed: files, the unstripped ones too, stay.
Kill ==
  /\ ~Resting /\ Exit("failed")
  /\ UNCHANGED <<run, files, reached, shard, released>>

FetchStep ==
  \/ NotModified \/ Modified \/ ReadIndex \/ AskFails \/ PoolEnds \/ Fetched
  \/ Publish \/ IngestFails \/ Reuse
  \/ \E p \in Parts : GetPart(p) \/ StripPart(p) \/ TryAgain(p) \/ GiveUp(p)
=============================================================================
