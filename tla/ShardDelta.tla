----------------------------- MODULE ShardDelta -----------------------------
(***************************************************************************)
(* The delta between two releases of a shard, and what applying it does.   *)
(*                                                                         *)
(* pipeline/package/build_delta.py compares yesterday's shard (prev) with  *)
(* today's (curr) and writes an ordered list of SQL statements.  A client  *)
(* runs them one after another inside one transaction.  Nothing verifies   *)
(* the outcome on the client, so the statements have to turn prev into     *)
(* curr whatever rows came, went or changed, in both settings of SQLite's  *)
(* foreign_keys pragma (with it on, INSERT OR REPLACE of a skus row        *)
(* cascades to the children of that row).                                  *)
(*                                                                         *)
(* A shard is a function from primary keys to row payloads; NoRow marks a  *)
(* key with no row.                                                        *)
(***************************************************************************)
EXTENDS Naturals

CONSTANTS
    Sku,        \* sku ids
    Child,      \* the tables that are 1:1 with skus: resource_attrs, terms, health
    PriceKey,   \* (dimension, tier) pairs: the rest of the key of table prices
    MetaKey,    \* keys of the metadata table
    Val,        \* row payloads
    Input,      \* the shards a release may hold
    NoRow,      \* no row under this key
    One,        \* the third key component of every table but prices
    Any         \* "every value" in the WHERE clause of a DELETE

ASSUME ShardDeltaAssumption ==
    /\ NoRow \notin Val
    /\ One \notin PriceKey
    /\ Any \notin Sku \cup MetaKey \cup PriceKey \cup {One}
    /\ Sku \cap MetaKey = {}
    /\ Child \cap {"skus", "prices", "metadata"} = {}

SkuTable == {"skus", "prices"} \cup Child

(* Primary keys; the skus row of a sku is the parent of its other rows. *)
RowKey ==
    [table : {"skus"} \cup Child, id : Sku, sub : {One}]
        \cup [table : {"prices"}, id : Sku, sub : PriceKey]
        \cup [table : {"metadata"}, id : MetaKey, sub : {One}]

Parent(s) == [table |-> "skus", id |-> s, sub |-> One]

Shard == [RowKey -> Val \cup {NoRow}]

SkuIds(d) == {s \in Sku : d[Parent(s)] # NoRow}

(* build_shard inserts with foreign_keys on and sanity_check counts orphan *)
(* prices: no child row without its skus row.                              *)
FkClean(d) ==
    \A k \in RowKey :
        k.table \in SkuTable /\ d[k] # NoRow => k.id \in SkuIds(d)

ASSUME InputAssumption ==
    /\ Input \subseteq Shard
    /\ \A d \in Input : FkClean(d)

(* No sku that stays loses its row in a 1:1 table. *)
ChildrenKept(p, c) ==
    \A k \in RowKey :
        /\ k.table \in Child
        /\ p[k] # NoRow
        /\ k.id \in SkuIds(c)
        => c[k] # NoRow

-----------------------------------------------------------------------------
(* _compute_statements: the statements, tagged with their apply group.     *)

StmtOn(g, k) == [group |-> g, table |-> k.table, id |-> k.id, sub |-> k.sub]

(* Step 1: every row of a removed sku, table by table. *)
Deletes(p, c) ==
    [group : {0}, table : SkuTable, id : SkuIds(p) \ SkuIds(c), sub : {Any}]

(* Step 2: price rows that left a sku that stays. *)
OrphanPricesForgotten(p, c) == {}

OrphanPrices(p, c) ==
    {k \in RowKey :
        /\ k.table = "prices"
        /\ p[k] # NoRow
        /\ c[k] = NoRow
        /\ k.id \in SkuIds(c)}

PriceDeletes(p, c) == {StmtOn(1, k) : k \in OrphanPrices(p, c)}

(* Steps 2 and 3: the skus whose rows are rewritten.  A row that is new or *)
(* differs marks its sku, and so does an orphan row of a 1:1 table.        *)
Changed(p, c) ==
    {s \in Sku : \E k \in RowKey :
        /\ k.id = s
        /\ k.table \in SkuTable
        /\ \/ c[k] # NoRow /\ p[k] # c[k]
           \/ /\ p[k] # NoRow
              /\ c[k] = NoRow
              /\ k.table # "prices"
              /\ s \in SkuIds(c)}

(* Step 4: all rows of a changed sku, not only those that differ. *)
Upserts(p, c) ==
    {StmtOn(2, k) : k \in {x \in RowKey :
        /\ x.table \in SkuTable
        /\ x.id \in Changed(p, c)
        /\ c[x] # NoRow}}

(* Step 5: metadata is cleared, then replayed in full. *)
MetaReplay(c) ==
    {[group |-> 3, table |-> "metadata", id |-> Any, sub |-> Any]}
        \cup {StmtOn(4, k) :
                 k \in {x \in RowKey : x.table = "metadata" /\ c[x] # NoRow}}

Statements(p, c) ==
    Deletes(p, c) \cup PriceDeletes(p, c) \cup Upserts(p, c) \cup MetaReplay(c)

(* The order of the list, as far as it matters: groups in turn (the stable *)
(* sort keeps the metadata rows, 4, behind their DELETE, 3), children of a *)
(* removed sku before its skus row, the skus row of a changed sku before   *)
(* its children.                                                           *)
GroupsOnly(s, t) == s.group < t.group

Before(s, t) ==
    \/ s.group < t.group
    \/ /\ s.group = t.group
       /\ s.id = t.id
       /\ \/ s.group = 0 /\ s.table # "skus" /\ t.table = "skus"
          \/ s.group = 2 /\ s.table = "skus" /\ t.table # "skus"

-----------------------------------------------------------------------------
VARIABLES
    prev, curr,     \* the two shards the delta was computed from
    fk,             \* foreign_keys on the connection that applies it
    base,           \* the shard before the transaction
    db,             \* the shard inside the transaction
    pending         \* statements not executed yet

vars == <<prev, curr, fk, base, db, pending>>
inputs == <<prev, curr, fk>>

(* One statement.  DELETE FROM skus and the REPLACE of an existing skus    *)
(* row take the child rows along when foreign_keys is on.                  *)
Matches(s, k) ==
    /\ s.table = k.table
    /\ s.id \in {k.id, Any}
    /\ s.sub \in {k.sub, Any}

Cascades(s, k) ==
    /\ fk
    /\ s.table = "skus"
    /\ s.id = k.id
    /\ k.table \in SkuTable \ {"skus"}
    /\ db[Parent(s.id)] # NoRow

Effect(s) ==
    [k \in RowKey |->
        IF Matches(s, k)
        THEN IF s.group \in {2, 4} THEN curr[k] ELSE NoRow
        ELSE IF Cascades(s, k) THEN NoRow ELSE db[k]]

Init ==
    /\ prev \in Input
    /\ curr \in Input
    /\ fk \in BOOLEAN
    /\ base = prev
    /\ db = prev
    /\ pending = Statements(prev, curr)

Exec(s) ==
    /\ \A t \in pending : ~Before(t, s)
    /\ db' = Effect(s)
    /\ pending' = pending \ {s}
    /\ UNCHANGED <<inputs, base>>

(* A failed statement or download, or a crash: the transaction is undone   *)
(* and the same delta is tried again.                                      *)
RollbackSwapped ==
    /\ pending # Statements(prev, curr)
    /\ db' = base
    /\ pending' = Statements(curr, prev)
    /\ UNCHANGED <<inputs, base>>

Rollback ==
    /\ pending # Statements(prev, curr)
    /\ db' = base
    /\ pending' = Statements(prev, curr)
    /\ UNCHANGED <<inputs, base>>

(* COMMIT; the delta may be applied once more to the outcome (another      *)
(* updater that had read the old version, or a release rebuilt in place).  *)
CommitAndReplay ==
    /\ pending = {}
    /\ base' = db
    /\ pending' = Statements(prev, curr)
    /\ UNCHANGED <<inputs, db>>

Next == (\E s \in pending : Exec(s)) \/ Rollback \/ CommitAndReplay

Spec == Init /\ [][Next]_vars

-----------------------------------------------------------------------------
(* The variables have their types, and the client only ever holds          *)
(* statements of this delta.                                               *)
TypeOK ==
    /\ prev \in Shard /\ curr \in Shard
    /\ base \in Shard /\ db \in Shard
    /\ fk \in BOOLEAN
    /\ pending \subseteq Statements(prev, curr)

(* build_delta's purpose: once the statements have run, on yesterday's     *)
(* shard or a second time on today's, the shard equals today's, whatever   *)
(* foreign_keys is set to, provided no kept sku lost a 1:1 child row; with *)
(* foreign_keys on even that proviso is not needed.                        *)
RoundTrip ==
    pending = {} /\ (fk \/ ChildrenKept(prev, curr)) => db = curr

(* The docstring's claim (build_delta.py:7-11) without the proviso: the    *)
(* delta applied to the previous shard reproduces today's shard.           *)
DeltaReproducesToday == pending = {} => db = curr

(* No statement leaves a child row without its skus row, so the list also  *)
(* runs on a connection that enforces foreign keys statement by statement. *)
NeverOrphaned == FkClean(db)

=============================================================================
