---------------------------- MODULE MCShardDelta ----------------------------
(* Instance of ShardDelta for TLC. *)
EXTENDS ShardDelta

CONSTANTS s1, s2, v1, v2

(* Every foreign-key clean shard in which only the rows of s1 come with    *)
(* two payloads, and the child rows of s2 only together: s1 goes through   *)
(* every case, s2 is there to show that the statements of one sku never    *)
(* touch another's rows.                                                   *)
AnyShard ==
    {d \in [RowKey -> {v1, v2, NoRow}] :
        /\ FkClean(d)
        /\ \A k \in RowKey : k.id # s1 => d[k] # v2
        /\ \A k, l \in RowKey :
               k.id = s2 /\ l.id = s2 /\ "skus" \notin {k.table, l.table} => d[k] = d[l]}

=============================================================================
