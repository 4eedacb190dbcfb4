---------------------------- MODULE ReleasedShard ----------------------------
(***************************************************************************)
(* What `sku update` promises about a shard: whoever opens it sees one     *)
(* release, whole.  An update moves it forward to a published release or   *)
(* reinstalls a published baseline, in one step.                           *)
(***************************************************************************)
EXTENDS Integers, Sequences

CONSTANTS MaxVersion, Truth, FirstReleases, FirstLocal, None

VARIABLES published, shard

Release(v) == [version |-> v, rows |-> Truth[v]]

Init ==
    /\ published \in FirstReleases
    /\ shard \in {None} \cup {Release(v) : v \in FirstLocal \ {0}}

Publish ==
    /\ Len(published) < MaxVersion
    /\ \E b \in 1..MaxVersion :
           published' = Append(published, [baseline |-> b, head |-> Len(published) + 1])
    /\ UNCHANGED shard

Forward ==
    /\ \E v \in 1..Len(published) :
           /\ shard = None \/ v > shard.version
           /\ shard' = Release(v)
    /\ UNCHANGED published

Reinstall ==
    /\ \E n \in 1..Len(published) : shard' = Release(published[n].baseline)
    /\ UNCHANGED published

Next == Publish \/ Forward \/ Reinstall

Spec == Init /\ [][Next]_<<published, shard>>

=============================================================================
