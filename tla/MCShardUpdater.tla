--------------------------- MODULE MCShardUpdater ---------------------------
(* Instances of ShardUpdater for TLC. *)
EXTENDS ShardUpdater

CONSTANTS r1, r2

(* Each delta changes one of the two rows; the last one changes r1 back.   *)
FourReleases ==
    <<[r \in Row |-> "a"],
      [r \in Row |-> IF r = r1 THEN "b" ELSE "a"],
      [r \in Row |-> "b"],
      [r \in Row |-> IF r = r1 THEN "a" ELSE "b"]>>

(* Behaviours begin with the first release out,                            *)
OneOut == {<<[baseline |-> 1, head |-> 1]>>}

(* or with every release out, as deltas to the first.                      *)
AllOut == {[n \in Version |-> [baseline |-> 1, head |-> n]]}

=============================================================================
