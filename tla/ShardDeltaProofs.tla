-------------------------- MODULE ShardDeltaProofs --------------------------
(***************************************************************************)
(* Proofs about ShardDelta, for any number of skus, tables and payloads.   *)
(*                                                                         *)
(* The argument: a key whose row is not yet today's is always waiting for  *)
(* a pending statement (Settled), and the order of the statements makes    *)
(* sure that no statement undoes what an earlier one did (UpsertsWhole,    *)
(* MetaWhole).  Once nothing is pending, nothing waits.                    *)
(***************************************************************************)
EXTENDS ShardDelta, TLAPS

(* A row of a 1:1 table that is gone although its sku stays. *)
Dropped(k) ==
    /\ k.table \in Child
    /\ prev[k] # NoRow
    /\ curr[k] = NoRow
    /\ k.id \in SkuIds(curr)

(* Rows of d that are not today's yet are waiting for a statement of S; a  *)
(* dropped row waits for the cascade of its parent's REPLACE.              *)
Settled(S, d) ==
    \A k \in RowKey : (fk \/ ~Dropped(k)) =>
        \/ d[k] = curr[k]
        \/ \E s \in S : Matches(s, k)
        \/ Dropped(k) /\ StmtOn(2, Parent(k.id)) \in S

ParentsStay(d) ==
    \A i \in SkuIds(prev) \cap SkuIds(curr) : d[Parent(i)] # NoRow

UpsertsWhole(S) ==
    \A k \in RowKey :
        /\ k.table \in SkuTable
        /\ StmtOn(2, Parent(k.id)) \in S
        /\ curr[k] # NoRow
        => StmtOn(2, k) \in S

MetaWhole(S) ==
    \A k \in RowKey :
        /\ k.table = "metadata"
        /\ curr[k] # NoRow
        /\ \E s \in S : s.group = 3
        => StmtOn(4, k) \in S

Inputs == prev \in Input /\ curr \in Input /\ fk \in BOOLEAN

IInv ==
    /\ TypeOK
    /\ Inputs
    /\ Settled(pending, db)
    /\ ParentsStay(db)
    /\ UpsertsWhole(pending)
    /\ MetaWhole(pending)
    /\ Settled(Statements(prev, curr), base)
    /\ ParentsStay(base)

-----------------------------------------------------------------------------
(* What a primary key looks like. *)
LEMMA KeyShape ==
    ASSUME NEW k \in RowKey
    PROVE  /\ k.table \in SkuTable \cup {"metadata"}
           /\ k.table \in SkuTable => k.id \in Sku
           /\ k.table = "metadata" => k.id \in MetaKey
           /\ k.table # "prices" => k.sub = One
           /\ k.table = "prices" => k.sub \in PriceKey
           /\ k = [table |-> k.table, id |-> k.id, sub |-> k.sub]
           /\ k.table = "skus" => k = Parent(k.id)
BY ShardDeltaAssumption DEF RowKey, SkuTable, Parent

LEMMA ParentKey ==
    ASSUME NEW i \in Sku
    PROVE  /\ Parent(i) \in RowKey
           /\ Parent(i).table = "skus"
           /\ Parent(i).id = i
           /\ Parent(i).sub = One
BY DEF RowKey, Parent

(* A shard of a release has no row of a sku it does not list. *)
LEMMA InputClean ==
    ASSUME NEW d \in Input, NEW k \in RowKey,
           k.table \in SkuTable, d[k] # NoRow
    PROVE  k.id \in SkuIds(d) /\ d \in Shard
BY InputAssumption DEF FkClean

(* What each statement of the delta is. *)
LEMMA StatementShape ==
    ASSUME Inputs, NEW s \in Statements(prev, curr)
    PROVE  \/ /\ s.group = 0 /\ s.table \in SkuTable /\ s.sub = Any
              /\ s.id \in Sku /\ s.id \in SkuIds(prev) /\ s.id \notin SkuIds(curr)
              /\ s = [group |-> 0, table |-> s.table, id |-> s.id, sub |-> Any]
           \/ /\ s.group = 1
              /\ \E k \in OrphanPrices(prev, curr) : s = StmtOn(1, k)
           \/ /\ s.group = 2
              /\ \E k \in RowKey : /\ s = StmtOn(2, k)
                                   /\ k.table \in SkuTable
                                   /\ k.id \in Changed(prev, curr)
                                   /\ curr[k] # NoRow
           \/ /\ s.group = 3 /\ s.table = "metadata" /\ s.id = Any /\ s.sub = Any
              /\ s = [group |-> 3, table |-> "metadata", id |-> Any, sub |-> Any]
           \/ /\ s.group = 4
              /\ \E k \in RowKey : /\ s = StmtOn(4, k)
                                   /\ k.table = "metadata"
                                   /\ curr[k] # NoRow
<1>1. CASE s \in Deletes(prev, curr)
  BY <1>1 DEF Deletes, SkuIds
<1>2. CASE s \in PriceDeletes(prev, curr)
  BY <1>2 DEF PriceDeletes, StmtOn
<1>3. CASE s \in Upserts(prev, curr)
  BY <1>3 DEF Upserts, StmtOn
<1>4. CASE s \in MetaReplay(curr)
  BY <1>4 DEF MetaReplay, StmtOn
<1>5. QED
  BY <1>1, <1>2, <1>3, <1>4 DEF Statements

-----------------------------------------------------------------------------
(* A delta nothing of which has run yet is whole. *)
LEMMA StartWhole ==
    ASSUME Inputs
    PROVE  UpsertsWhole(Statements(prev, curr)) /\ MetaWhole(Statements(prev, curr))
<1>1. UpsertsWhole(Statements(prev, curr))
  <2> SUFFICES ASSUME NEW k \in RowKey, k.table \in SkuTable,
                      StmtOn(2, Parent(k.id)) \in Statements(prev, curr),
                      curr[k] # NoRow
               PROVE  StmtOn(2, k) \in Statements(prev, curr)
    BY DEF UpsertsWhole
  <2>1. PICK x \in RowKey : /\ StmtOn(2, Parent(k.id)) = StmtOn(2, x)
                            /\ x.id \in Changed(prev, curr)
    BY StatementShape DEF StmtOn
  <2>2. k.id = x.id
    BY <2>1 DEF StmtOn, Parent
  <2> QED
    BY <2>1, <2>2 DEF Statements, Upserts
<1>2. MetaWhole(Statements(prev, curr))
  BY DEF MetaWhole, Statements, MetaReplay
<1> QED
  BY <1>1, <1>2

LEMMA InitIInv == Init => IInv
<1> SUFFICES ASSUME Init PROVE IInv
  OBVIOUS
<1>1. TypeOK /\ Inputs
  BY InputAssumption DEF Init, TypeOK, Inputs
<1>2. ParentsStay(prev)
  BY DEF ParentsStay, SkuIds
<1>3. UpsertsWhole(Statements(prev, curr)) /\ MetaWhole(Statements(prev, curr))
  BY <1>1, StartWhole
<1>4. Settled(Statements(prev, curr), prev)
  <2> SUFFICES ASSUME NEW k \in RowKey, fk \/ ~Dropped(k), prev[k] # curr[k]
               PROVE  \/ \E s \in Statements(prev, curr) : Matches(s, k)
                      \/ /\ Dropped(k)
                         /\ StmtOn(2, Parent(k.id)) \in Statements(prev, curr)
    BY DEF Settled
  <2>1. CASE k.table = "metadata"
    BY <2>1 DEF Statements, MetaReplay, Matches
  <2>2. CASE k.table \in SkuTable /\ curr[k] # NoRow
    <3>1. k.id \in Changed(prev, curr)
      BY <2>2, KeyShape DEF Changed
    <3>2. StmtOn(2, k) \in Statements(prev, curr)
      BY <2>2, <3>1 DEF Statements, Upserts
    <3> QED
      BY <3>2 DEF Matches, StmtOn
  <2>3. CASE k.table \in SkuTable /\ curr[k] = NoRow /\ k.id \notin SkuIds(curr)
    <3>1. k.id \in SkuIds(prev)
      BY <1>1, <2>3, InputClean DEF Inputs
    <3> DEFINE s == [group |-> 0, table |-> k.table, id |-> k.id, sub |-> Any]
    <3>2. s \in Statements(prev, curr)
      BY <2>3, <3>1 DEF Statements, Deletes
    <3> QED
      BY <3>2 DEF Matches
  <2>4. CASE k.table \in SkuTable /\ curr[k] = NoRow /\ k.id \in SkuIds(curr)
    <3>1. prev[k] # NoRow
      BY <2>4
    <3>2. k.table # "skus"
      BY <2>4, KeyShape DEF SkuIds
    <3>3. CASE k.table = "prices"
      <4>1. k \in OrphanPrices(prev, curr)
        BY <2>4, <3>1, <3>3 DEF OrphanPrices
      <4>2. StmtOn(1, k) \in Statements(prev, curr)
        BY <4>1 DEF Statements, PriceDeletes
      <4> QED
        BY <4>2 DEF Matches, StmtOn
    <3>4. CASE k.table \in Child
      <4>1. Dropped(k)
        BY <2>4, <3>1, <3>4 DEF Dropped
      <4>2. k.id \in Changed(prev, curr)
        BY <2>4, <3>1, <3>4, KeyShape, ShardDeltaAssumption DEF Changed
      <4>3. /\ Parent(k.id) \in RowKey /\ curr[Parent(k.id)] # NoRow
            /\ Parent(k.id).table \in SkuTable /\ Parent(k.id).id = k.id
        BY <2>4, ParentKey DEF SkuIds, SkuTable
      <4> QED
        BY <4>1, <4>2, <4>3 DEF Statements, Upserts
    <3> QED
      BY <2>4, <3>2, <3>3, <3>4 DEF SkuTable
  <2> QED
    BY <2>1, <2>2, <2>3, <2>4, KeyShape
<1> QED
  BY <1>1, <1>2, <1>3, <1>4 DEF Init, IInv

(* The heart of the matter: one statement keeps every unfinished row       *)
(* waiting for a later one.                                                *)
LEMMA ExecSettled ==
    ASSUME IInv, NEW s \in pending, Exec(s)
    PROVE  Settled(pending, db)'
<1> SUFFICES ASSUME NEW k \in RowKey, fk \/ ~Dropped(k), db'[k] # curr[k]
             PROVE  \/ \E t \in pending' : Matches(t, k)
                    \/ Dropped(k) /\ StmtOn(2, Parent(k.id)) \in pending'
  BY DEF Exec, inputs, Settled, Dropped, SkuIds
<1> USE DEF Exec, inputs
<1>1. s \in Statements(prev, curr) /\ Inputs
  BY DEF IInv, TypeOK
<1>2. db'[k] = IF Matches(s, k)
               THEN IF s.group \in {2, 4} THEN curr[k] ELSE NoRow
               ELSE IF Cascades(s, k) THEN NoRow ELSE db[k]
  BY DEF Effect
<1>3. CASE Matches(s, k)
  <2>1. s.group \in {0, 1, 3} /\ curr[k] # NoRow
    BY <1>1, <1>2, <1>3, StatementShape
  <2>2. CASE s.group = 0
    <3>1. s.table \in SkuTable /\ s.id \in Sku /\ s.id \notin SkuIds(curr)
      BY <1>1, <2>2, StatementShape
    <3>2. k.id = s.id /\ k.table \in SkuTable
      BY <1>3, <3>1, ShardDeltaAssumption DEF Matches
    <3> QED
      BY <1>1, <2>1, <3>1, <3>2, InputClean DEF Inputs
  <2>3. CASE s.group = 1
    <3>1. PICK x \in OrphanPrices(prev, curr) : s = StmtOn(1, x)
      BY <1>1, <2>3, StatementShape
    <3>2. x \in RowKey /\ x.table = "prices" /\ curr[x] = NoRow
      BY <3>1 DEF OrphanPrices
    <3>3. x.id = k.id /\ x.table = k.table /\ x.sub = k.sub
      BY <1>3, <3>1, <3>2, KeyShape, ShardDeltaAssumption
         DEF Matches, StmtOn, SkuTable
    <3>4. x = k
      BY <3>2, <3>3, KeyShape
    <3> QED
      BY <2>1, <3>2, <3>4
  <2>4. CASE s.group = 3
    <3>1. k.table = "metadata"
      BY <1>1, <1>3, <2>4, StatementShape DEF Matches
    <3>2. StmtOn(4, k) \in pending
      BY <2>1, <2>4, <3>1 DEF IInv, MetaWhole
    <3>3. StmtOn(4, k) \in pending'
      BY <2>4, <3>2 DEF StmtOn
    <3> QED
      BY <3>3 DEF Matches, StmtOn
  <2> QED
    BY <2>1, <2>2, <2>3, <2>4
<1>4. CASE ~Matches(s, k) /\ Cascades(s, k)
  <2>1. s.table = "skus" /\ s.id = k.id /\ k.table \in SkuTable \ {"skus"}
    BY <1>4 DEF Cascades
  <2>2. curr[k] # NoRow
    BY <1>2, <1>4
  <2>3. k.id \in SkuIds(curr)
    BY <1>1, <2>1, <2>2, InputClean DEF Inputs
  <2>4. s.group = 2
    BY <1>1, <2>1, <2>3, StatementShape DEF StmtOn, OrphanPrices
  <2>5. PICK x \in RowKey : s = StmtOn(2, x) /\ x.table \in SkuTable
    BY <1>1, <2>4, StatementShape
  <2>6. s = StmtOn(2, Parent(k.id))
    BY <2>1, <2>5, KeyShape DEF StmtOn, Parent
  <2>7. StmtOn(2, k) \in pending
    BY <2>1, <2>2, <2>6 DEF IInv, UpsertsWhole
  <2>8. StmtOn(2, k) # s
    BY <2>1 DEF StmtOn
  <2> QED
    BY <2>7, <2>8 DEF Matches, StmtOn
<1>5. CASE ~Matches(s, k) /\ ~Cascades(s, k)
  <2>1. db'[k] = db[k]
    BY <1>2, <1>5
  <2>2. CASE \E t \in pending : Matches(t, k)
    BY <1>5, <2>2
  <2>3. CASE Dropped(k) /\ StmtOn(2, Parent(k.id)) \in pending
    <3>1. s # StmtOn(2, Parent(k.id))
      <4> SUFFICES ASSUME s = StmtOn(2, Parent(k.id)) PROVE FALSE
        OBVIOUS
      <4>1. k.id \in SkuIds(prev) \cap SkuIds(curr)
        BY <1>1, <2>3, InputClean DEF Inputs, Dropped, SkuTable
      <4>2. db[Parent(k.id)] # NoRow
        BY <4>1 DEF IInv, ParentsStay
      <4> QED
        BY <1>5, <2>3, <4>2, ShardDeltaAssumption
           DEF Cascades, Dropped, StmtOn, Parent, SkuTable
    <3> QED
      BY <2>3, <3>1
  <2> QED
    BY <2>1, <2>2, <2>3 DEF IInv, Settled
<1> QED
  BY <1>3, <1>4, <1>5

(* The skus row of a changed sku is rewritten before its other rows. *)
LEMMA ExecUpsertsWhole ==
    ASSUME IInv, NEW s \in pending, Exec(s)
    PROVE  UpsertsWhole(pending)'
<1> SUFFICES ASSUME NEW k \in RowKey, k.table \in SkuTable,
                    StmtOn(2, Parent(k.id)) \in pending', curr[k] # NoRow
             PROVE  StmtOn(2, k) \in pending'
  BY DEF Exec, inputs, UpsertsWhole
<1>1. StmtOn(2, Parent(k.id)) \in pending /\ s # StmtOn(2, Parent(k.id))
  BY DEF Exec
<1>2. StmtOn(2, k) \in pending
  BY <1>1 DEF IInv, UpsertsWhole
<1>3. CASE k.table = "skus"
  BY <1>1, <1>2, <1>3, KeyShape DEF Exec
<1>4. CASE k.table # "skus"
  <2>1. Before(StmtOn(2, Parent(k.id)), StmtOn(2, k))
    BY <1>4 DEF Before, StmtOn, Parent
  <2> QED
    BY <1>1, <1>2, <2>1 DEF Exec
<1> QED
  BY <1>3, <1>4

LEMMA ExecMetaWhole ==
    ASSUME IInv, NEW s \in pending, Exec(s)
    PROVE  MetaWhole(pending)'
<1> SUFFICES ASSUME NEW k \in RowKey, k.table = "metadata", curr[k] # NoRow,
                    NEW t \in pending', t.group = 3
             PROVE  StmtOn(4, k) \in pending'
  BY DEF Exec, inputs, MetaWhole
<1>1. t \in pending
  BY DEF Exec
<1>2. StmtOn(4, k) \in pending
  BY <1>1 DEF IInv, MetaWhole
<1>3. Before(t, StmtOn(4, k))
  BY DEF Before, StmtOn
<1> QED
  BY <1>1, <1>2, <1>3 DEF Exec

(* No statement takes the skus row of a sku that stays. *)
LEMMA ExecParentsStay ==
    ASSUME IInv, NEW s \in pending, Exec(s)
    PROVE  ParentsStay(db)'
<1> SUFFICES ASSUME NEW i \in SkuIds(prev) \cap SkuIds(curr)
             PROVE  db'[Parent(i)] # NoRow
  BY DEF Exec, inputs, ParentsStay, SkuIds
<1>1. s \in Statements(prev, curr) /\ Inputs
  BY DEF IInv, TypeOK
<1>2. /\ Parent(i) \in RowKey /\ Parent(i).table = "skus" /\ Parent(i).id = i
      /\ i \in Sku /\ curr[Parent(i)] # NoRow
  BY ParentKey DEF SkuIds
<1>3. db[Parent(i)] # NoRow
  BY DEF IInv, ParentsStay
<1>4. ~Cascades(s, Parent(i))
  BY <1>2 DEF Cascades
<1>5. Matches(s, Parent(i)) => s.group = 2
  <2> SUFFICES ASSUME Matches(s, Parent(i)) PROVE s.group = 2
    OBVIOUS
  <2>1. s.table = "skus" /\ s.id \in {i, Any}
    BY <1>2 DEF Matches
  <2>2. s.group # 0
    BY <1>1, <1>2, <2>1, StatementShape, ShardDeltaAssumption
  <2>3. s.group # 1
    BY <1>1, <2>1, StatementShape DEF StmtOn, OrphanPrices
  <2>4. s.group # 3 /\ s.group # 4
    BY <1>1, <2>1, StatementShape DEF StmtOn
  <2> QED
    BY <1>1, <2>2, <2>3, <2>4, StatementShape
<1> QED
  BY <1>2, <1>3, <1>4, <1>5 DEF Exec, Effect

LEMMA ExecTypeOK ==
    ASSUME IInv, NEW s \in pending, Exec(s)
    PROVE  TypeOK' /\ Inputs'
<1>1. curr \in Shard /\ db \in Shard
  BY DEF IInv, TypeOK
<1>2. Effect(s) \in Shard
  BY <1>1 DEF Effect, Shard
<1> QED
  BY <1>2 DEF IInv, TypeOK, Inputs, Exec, inputs

LEMMA NextIInv == IInv /\ [Next]_vars => IInv'
<1> SUFFICES ASSUME IInv, [Next]_vars PROVE IInv'
  OBVIOUS
<1>1. ASSUME NEW s \in pending, Exec(s)
      PROVE  IInv'
  <2>1. UNCHANGED <<prev, curr, fk, base>>
    BY <1>1 DEF Exec, inputs
  <2>2. Settled(Statements(prev, curr), base)'
    BY <2>1 DEF IInv, Settled, Dropped, SkuIds, Matches, Statements,
                Deletes, PriceDeletes, OrphanPrices, Upserts, Changed, MetaReplay
  <2>3. ParentsStay(base)'
    BY <2>1 DEF IInv, ParentsStay, SkuIds
  <2> QED
    BY <1>1, <2>2, <2>3, ExecTypeOK, ExecSettled, ExecUpsertsWhole, ExecMetaWhole,
       ExecParentsStay DEF IInv
<1>2. CASE Rollback
  <2>1. UpsertsWhole(Statements(prev, curr)) /\ MetaWhole(Statements(prev, curr))
    BY StartWhole DEF IInv
  <2> QED
    BY <1>2, <2>1 DEF Rollback, inputs, IInv, TypeOK, Inputs, Settled, Dropped,
       SkuIds, Matches, ParentsStay, UpsertsWhole, MetaWhole, Statements,
       Deletes, PriceDeletes, OrphanPrices, Upserts, Changed, MetaReplay
<1>3. CASE CommitAndReplay
  <2>1. UpsertsWhole(Statements(prev, curr)) /\ MetaWhole(Statements(prev, curr))
    BY StartWhole DEF IInv
  <2>2. Settled(Statements(prev, curr), db)
    BY <1>3 DEF CommitAndReplay, IInv, Settled
  <2> QED
    BY <1>3, <2>1, <2>2 DEF CommitAndReplay, inputs, IInv, TypeOK, Inputs, Settled,
       Dropped, SkuIds, Matches, ParentsStay, UpsertsWhole, MetaWhole, Statements,
       Deletes, PriceDeletes, OrphanPrices, Upserts, Changed, MetaReplay
<1>4. CASE UNCHANGED vars
  BY <1>4 DEF vars, IInv, TypeOK, Inputs, Settled, Dropped, SkuIds, Matches,
     ParentsStay, UpsertsWhole, MetaWhole, Statements,
     Deletes, PriceDeletes, OrphanPrices, Upserts, Changed, MetaReplay
<1> QED
  BY <1>1, <1>2, <1>3, <1>4 DEF Next

LEMMA IInvRoundTrip == IInv => RoundTrip
<1> SUFFICES ASSUME IInv, pending = {}, fk \/ ChildrenKept(prev, curr)
             PROVE  db = curr
  BY DEF RoundTrip
<1>1. db \in Shard /\ curr \in Shard
  BY DEF IInv, TypeOK
<1>2. ASSUME NEW k \in RowKey PROVE db[k] = curr[k]
  <2>1. fk \/ ~Dropped(k)
    BY DEF ChildrenKept, Dropped
  <2> QED
    BY <2>1 DEF IInv, Settled
<1> QED
  BY <1>1, <1>2 DEF Shard

-----------------------------------------------------------------------------
LEMMA DeleteKeepsClean ==
    ASSUME IInv, FkClean(db), NEW s \in pending, Exec(s), s.group = 0,
           NEW k \in RowKey, k.table \in SkuTable, db'[k] # NoRow
    PROVE  db'[Parent(k.id)] # NoRow
<1>1. s \in Statements(prev, curr) /\ Inputs
  BY DEF IInv, TypeOK
<1>2. /\ s.table \in SkuTable /\ s.sub = Any /\ s.id \in Sku
      /\ s.id \notin SkuIds(curr)
      /\ k.id \in Sku
  BY <1>1, StatementShape, KeyShape
<1>3. /\ Parent(k.id) \in RowKey /\ Parent(k.id).table = "skus"
      /\ Parent(k.id).id = k.id
  BY <1>2, ParentKey
<1>4. ~Matches(s, k) /\ ~Cascades(s, k) /\ db[k] # NoRow
  BY DEF Exec, Effect
<1>5. db[Parent(k.id)] # NoRow
  BY <1>4 DEF FkClean, SkuIds
<1>6. CASE s.table # "skus" \/ s.id # k.id
  <2>1. ~Matches(s, Parent(k.id))
    BY <1>2, <1>3, <1>6, ShardDeltaAssumption DEF Matches
  <2> QED
    BY <1>3, <1>5, <2>1 DEF Exec, Effect, Cascades
<1>7. CASE s.table = "skus" /\ s.id = k.id
  <2>1. k.table # "skus"
    BY <1>2, <1>4, <1>7 DEF Matches
  <2>2. curr[k] = NoRow /\ ~Dropped(k)
    BY <1>1, <1>2, <1>7, InputClean DEF Inputs, Dropped
  <2>3. PICK t \in pending : Matches(t, k)
    BY <1>4, <2>2 DEF IInv, Settled
  <2>4. t.table = k.table /\ t.id \in {k.id, Any} /\ t.table # "metadata"
    BY <1>2, <2>3, ShardDeltaAssumption DEF Matches, SkuTable
  <2>5. t \in Statements(prev, curr)
    BY DEF IInv, TypeOK
  <2>6. t.group = 0 /\ t.id = k.id
    <3>1. t.group # 1
      BY <1>1, <1>2, <1>7, <2>4, <2>5, StatementShape, ShardDeltaAssumption
         DEF StmtOn, OrphanPrices, SkuIds
    <3>2. t.group # 2
      <4> SUFFICES ASSUME t.group = 2 PROVE FALSE
        OBVIOUS
      <4>1. PICK x \in RowKey : /\ t = StmtOn(2, x) /\ x.table \in SkuTable
                                /\ curr[x] # NoRow
        BY <1>1, <2>5, StatementShape
      <4>2. x.id \in SkuIds(curr) /\ x.id \in Sku
        BY <1>1, <4>1, InputClean, KeyShape DEF Inputs
      <4>3. t.id = x.id
        BY <4>1 DEF StmtOn
      <4> QED
        BY <1>2, <1>7, <2>4, <4>2, <4>3, ShardDeltaAssumption
    <3>3. t.group # 3 /\ t.group # 4
      BY <1>1, <2>4, <2>5, StatementShape DEF StmtOn
    <3> QED
      BY <1>1, <2>4, <2>5, <3>1, <3>2, <3>3, StatementShape, ShardDeltaAssumption
  <2>7. Before(t, s)
    BY <1>7, <2>1, <2>4, <2>6 DEF Before
  <2> QED
    BY <2>7 DEF Exec
<1> QED
  BY <1>6, <1>7

LEMMA UpsertKeepsClean ==
    ASSUME IInv, FkClean(db), NEW s \in pending, Exec(s), s.group # 0,
           NEW k \in RowKey, k.table \in SkuTable, db'[k] # NoRow
    PROVE  db'[Parent(k.id)] # NoRow
<1>1. s \in Statements(prev, curr) /\ Inputs
  BY DEF IInv, TypeOK
<1>2. k.id \in Sku
  BY KeyShape
<1>3. /\ Parent(k.id) \in RowKey /\ Parent(k.id).table = "skus"
      /\ Parent(k.id).id = k.id
  BY <1>2, ParentKey
<1>4. ~Cascades(s, Parent(k.id))
  BY <1>3 DEF Cascades
<1>5. Matches(s, Parent(k.id)) => /\ s.group = 2
                                  /\ db'[Parent(k.id)] = curr[Parent(k.id)]
  <2>1. SUFFICES ASSUME Matches(s, Parent(k.id)) PROVE s.group = 2
    BY <1>3 DEF Exec, Effect
  <2>2. s.table = "skus"
    BY <1>3, <2>1 DEF Matches
  <2> QED
    BY <1>1, <2>2, StatementShape DEF StmtOn, OrphanPrices
<1>6. CASE Matches(s, k)
  <2>1. s.group = 2 /\ curr[k] # NoRow
    <3>1. s.table # "metadata"
      BY <1>6, ShardDeltaAssumption DEF Matches, SkuTable
    <3>2. s.group # 3 /\ s.group # 4
      BY <1>1, <3>1, StatementShape DEF StmtOn
    <3>3. s.group \in {1, 2}
      BY <1>1, <3>2, StatementShape
    <3> QED
      BY <1>6, <3>3 DEF Exec, Effect
  <2>2. k.id \in SkuIds(curr) /\ curr[Parent(k.id)] # NoRow
    BY <1>1, <2>1, InputClean DEF Inputs, SkuIds
  <2>3. ~Dropped(Parent(k.id))
    BY <1>3, ShardDeltaAssumption DEF Dropped
  <2>4. CASE db[Parent(k.id)] = curr[Parent(k.id)]
    BY <1>3, <1>4, <1>5, <2>2, <2>4 DEF Exec, Effect
  <2>5. CASE \E t \in pending : Matches(t, Parent(k.id))
    <3>1. PICK t \in pending : Matches(t, Parent(k.id))
      BY <2>5
    <3>2. t \in Statements(prev, curr) /\ t.table = "skus" /\ t.id \in {k.id, Any}
      BY <1>3, <3>1 DEF IInv, TypeOK, Matches
    <3>3. t.group # 0
      BY <1>1, <1>2, <2>2, <3>2, StatementShape, ShardDeltaAssumption
    <3>4. PICK x \in RowKey : t = StmtOn(2, x)
      <4>1. t.group # 1 /\ t.group # 3 /\ t.group # 4
        BY <1>1, <3>2, StatementShape DEF StmtOn, OrphanPrices
      <4> QED
        BY <1>1, <3>2, <3>3, <4>1, StatementShape
    <3>5. t.group = 2 /\ t.id = k.id
      <4>1. t.id = x.id /\ x.table = "skus" /\ x.id \in Sku
        BY <3>2, <3>4, KeyShape DEF StmtOn, SkuTable
      <4> QED
        BY <3>2, <3>4, <4>1, ShardDeltaAssumption DEF StmtOn
    <3>6. CASE k.table = "skus"
      BY <1>6, <2>1, <2>2, <3>6, <1>3, KeyShape DEF Exec, Effect
    <3>7. CASE k.table # "skus"
      <4>1. PICK y \in RowKey : s = StmtOn(2, y) /\ y.table \in SkuTable
        BY <1>1, <2>1, StatementShape
      <4>2. s.id = k.id /\ s.table = k.table
        <5>1. s.id = y.id /\ y.id \in Sku
          BY <4>1, KeyShape DEF StmtOn
        <5> QED
          BY <1>6, <5>1, ShardDeltaAssumption DEF Matches
      <4>3. Before(t, s)
        BY <2>1, <3>2, <3>5, <3>7, <4>2 DEF Before
      <4> QED
        BY <4>3 DEF Exec
    <3> QED
      BY <3>6, <3>7
  <2> QED
    BY <1>3, <2>3, <2>4, <2>5, ShardDeltaAssumption DEF IInv, Settled, Dropped
<1>7. CASE ~Matches(s, k)
  <2>1. db[k] # NoRow /\ ~Cascades(s, k)
    BY <1>7 DEF Exec, Effect
  <2>2. db[Parent(k.id)] # NoRow
    BY <2>1 DEF FkClean, SkuIds
  <2>3. CASE Matches(s, Parent(k.id))
    <3>1. PICK x \in RowKey : s = StmtOn(2, x) /\ curr[x] # NoRow
      BY <1>1, <1>5, <2>3, StatementShape
    <3>2. x = Parent(k.id)
      BY <1>2, <1>3, <2>3, <3>1, KeyShape, ShardDeltaAssumption
         DEF Matches, StmtOn, SkuTable
    <3> QED
      BY <1>5, <2>3, <3>1, <3>2
  <2>4. CASE ~Matches(s, Parent(k.id))
    BY <1>3, <1>4, <2>2, <2>4 DEF Exec, Effect
  <2> QED
    BY <2>3, <2>4
<1> QED
  BY <1>6, <1>7

LEMMA NextClean ==
    IInv /\ FkClean(db) /\ FkClean(base) /\ [Next]_vars
        => FkClean(db)' /\ FkClean(base)'
<1> SUFFICES ASSUME IInv, FkClean(db), FkClean(base), [Next]_vars
             PROVE  FkClean(db)' /\ FkClean(base)'
  OBVIOUS
<1>1. ASSUME NEW s \in pending, Exec(s)
      PROVE  FkClean(db)' /\ FkClean(base)'
  <2>1. ASSUME NEW k \in RowKey, k.table \in SkuTable, db'[k] # NoRow
        PROVE  db'[Parent(k.id)] # NoRow
    BY <1>1, <2>1, DeleteKeepsClean, UpsertKeepsClean
  <2> QED
    BY <1>1, <2>1, KeyShape DEF FkClean, SkuIds, Exec
<1> QED
  BY <1>1 DEF Next, Rollback, CommitAndReplay, vars, FkClean, SkuIds

-----------------------------------------------------------------------------
(* The variables keep their types and the client never runs a statement    *)
(* that is not part of the delta (build_delta.py, _compute_statements).    *)
THEOREM TypeCorrect == Spec => []TypeOK
<1>1. IInv => TypeOK
  BY DEF IInv
<1> QED
  BY <1>1, InitIInv, NextIInv, PTL DEF Spec

(* A delta that has run completely has turned the shard into today's, from *)
(* yesterday's or today's shard, after any number of rollbacks, in both    *)
(* foreign_keys modes, unless foreign_keys is off and a kept sku lost a    *)
(* 1:1 child row (build_delta.py:7-11).                                    *)
THEOREM RoundTripCorrect == Spec => []RoundTrip
BY InitIInv, NextIInv, IInvRoundTrip, PTL DEF Spec

(* No prefix of the statement list leaves a child row without its skus row *)
(* (build_delta.py:101-106 and 158-160).                                   *)
THEOREM NeverOrphanedCorrect == Spec => []NeverOrphaned
<1>1. Init => FkClean(db) /\ FkClean(base)
  BY InputAssumption DEF Init
<1>2. FkClean(db) => NeverOrphaned
  BY DEF NeverOrphaned
<1> QED
  BY <1>1, <1>2, InitIInv, NextIInv, NextClean, PTL DEF Spec

=============================================================================
