---------------------------- MODULE SampleProofs ----------------------------
(***************************************************************************)
(* Proofs about the sample that a check looks up (pipeline/validate,       *)
(* sampler.py), for any price list and budget.                             *)
(*                                                                         *)
(* Each stratum adds as many prices as its share, the budget and the pool  *)
(* leave room for, under keys the sample does not have yet (PickFills).    *)
(* So the last one fills the budget (LastFills), and the second one finds  *)
(* room for a price of another than the three commonest regions            *)
(* (TailReached), for the first one takes less than the budget.            *)
(***************************************************************************)
EXTENDS UpstreamProofs

LEMMA SmallestOfThree ==
  ASSUME NEW a \in Int, NEW b \in Int, NEW c \in Int
  PROVE  /\ Min({a, b, c}) \in {a, b, c}
         /\ Min({a, b, c}) <= a /\ Min({a, b, c}) <= b /\ Min({a, b, c}) <= c
<1>1. \E x \in {a, b, c} : \A y \in {a, b, c} : x <= y
  OBVIOUS
<1> QED
  BY <1>1 DEF Min

LEMMA SmallestOfTwo ==
  ASSUME NEW a \in Int, NEW b \in Int
  PROVE  Min({a, b}) = IF a <= b THEN a ELSE b
<1>1. \E x \in {a, b} : \A y \in {a, b} : x <= y
  OBVIOUS
<1>2. Min({a, b}) \in {a, b} /\ Min({a, b}) <= a /\ Min({a, b}) <= b
  BY <1>1 DEF Min
<1> QED
  BY <1>2

LEMMA FilledUp ==
  ASSUME NEW b \in Nat, NEW c \in Nat, NEW k \in Nat, c <= b
  PROVE  c + Min({b, b - c, k}) = Min({b, c + k})
<1>1. b \in Int /\ k \in Int /\ b - c \in Int /\ c + k \in Int
  OBVIOUS
<1>2. /\ Min({b, b - c, k}) \in {b, b - c, k}
      /\ Min({b, b - c, k}) <= b - c /\ Min({b, b - c, k}) <= k
  BY <1>1, SmallestOfThree, Zenon
<1>3. Min({b, c + k}) = IF b <= c + k THEN b ELSE c + k
  BY <1>1, SmallestOfTwo
<1> QED
  BY <1>2, <1>3

LEMMA LargestOfTwo ==
  ASSUME NEW a \in Int, NEW b \in Int
  PROVE  Max({a, b}) = IF a >= b THEN a ELSE b
<1>1. \E x \in {a, b} : \A y \in {a, b} : x >= y
  OBVIOUS
<1>2. Max({a, b}) \in {a, b} /\ Max({a, b}) >= a /\ Max({a, b}) >= b
  BY <1>1 DEF Max
<1> QED
  BY <1>2

(* As many keys as rows, when no two rows share one.                        *)
LEMMA KeysCounted ==
  ASSUME NEW S, IsFiniteSet(S)
  PROVE  /\ IsFiniteSet(V!Keys(S))
         /\ V!Distinct(S) => Cardinality(V!Keys(S)) = Cardinality(S)
<1> DEFINE f == [r \in S |-> V!Key(r)]
<1>1. f \in Surjection(S, V!Keys(S))
  BY DEF Surjection, V!Keys
<1>2. V!Distinct(S) => f \in Injection(S, V!Keys(S))
  <2> SUFFICES ASSUME V!Distinct(S) PROVE \A r, q \in S : f[r] = f[q] => r = q
    BY <1>1 DEF Injection, IsInjective, Surjection
  <2> QED
    BY DEF V!Distinct
<1> QED
  BY <1>1, <1>2, FS_Surjection

(* The rows of a pool under keys that are not taken yet.                    *)
Fresh(chosen, pool) == {r \in pool : V!Key(r) \notin V!Keys(chosen)}

(* What a stratum adds: pick and _take of sampler.py.                       *)
LEMMA PickFills ==
  ASSUME NEW chosen, IsFiniteSet(chosen), V!Distinct(chosen), Cardinality(chosen) <= Budget,
         NEW pool, IsFiniteSet(pool), NEW n \in Nat,
         NEW s \in V!Pick(chosen, pool, n)
  PROVE  /\ IsFiniteSet(s) /\ V!Distinct(s) /\ chosen \subseteq s
         /\ Cardinality(s) = Cardinality(chosen)
              + Min({n, Budget - Cardinality(chosen), Cardinality(V!Keys(Fresh(chosen, pool)))})
         /\ Cardinality(s) <= Budget
<1> DEFINE new == Fresh(chosen, pool)
           room == Min({n, Budget - Cardinality(chosen), Cardinality(V!Keys(new))})
<1>1. IsFiniteSet(new)
  BY FS_Subset DEF Fresh
<1>2. PICK more \in V!kSubset(room, new) : V!Distinct(more) /\ s = chosen \union more
  BY SameCounts DEF V!Pick, Fresh
<1>3. more \subseteq new /\ Cardinality(more) = room /\ IsFiniteSet(more)
  BY <1>1, <1>2, SameCounts, FS_Subset DEF V!kSubset
<1>4. \A r \in chosen, q \in more : V!Key(r) # V!Key(q)
  BY <1>3 DEF V!Keys, Fresh
<1>5. chosen \intersect more = {}
  BY <1>4
<1>6. IsFiniteSet(s) /\ Cardinality(s) = Cardinality(chosen) + room
  <2>1. Cardinality(chosen) \in Nat /\ Cardinality(more) \in Nat
    BY <1>3, FS_CardinalityType
  <2> HIDE DEF room, new
  <2>2. Cardinality(chosen \intersect more) = 0
    BY <1>5, FS_EmptySet
  <2>3. /\ IsFiniteSet(chosen \union more)
        /\ Cardinality(chosen \union more)
             = Cardinality(chosen) + Cardinality(more) - Cardinality(chosen \intersect more)
    BY <1>3, FS_Union
  <2> QED
    BY <1>2, <1>3, <2>1, <2>2, <2>3
<1>7. room <= Budget - Cardinality(chosen)
  <2>1. Cardinality(chosen) \in Int /\ Cardinality(V!Keys(new)) \in Int /\ Budget \in Int
    BY <1>1, KeysCounted, FS_CardinalityType, BoundsPositive
  <2>2. \A a, b, c \in Int : Min({a, b, c}) <= b
    BY SmallestOfThree
  <2> QED
    BY <2>1, <2>2
<1>8. Cardinality(s) <= Budget
  <2>1. Cardinality(chosen) \in Nat /\ room \in Nat /\ Budget \in Nat
    BY <1>3, FS_CardinalityType, BoundsPositive
  <2> HIDE DEF room
  <2> QED
    BY <1>6, <1>7, <2>1
<1> QED
  BY <1>2, <1>4, <1>6, <1>8 DEF V!Distinct

(* The last stratum fills the budget, as far as there are prices.           *)
LEMMA LastFills ==
  ASSUME NEW rows, IsFiniteSet(rows),
         NEW chosen \in SUBSET rows, V!Distinct(chosen), Cardinality(chosen) <= Budget,
         NEW s \in V!Pick(chosen, rows, Budget)
  PROVE  /\ V!Distinct(s) /\ chosen \subseteq s
         /\ Cardinality(s) = Min({Budget, Cardinality(V!Keys(rows))})
<1> DEFINE new == Fresh(chosen, rows)
<1>1. IsFiniteSet(chosen) /\ IsFiniteSet(new)
  BY FS_Subset DEF Fresh
<1>2. Budget \in Nat
  BY BoundsPositive
<1>3. /\ V!Distinct(s) /\ chosen \subseteq s
      /\ Cardinality(s) = Cardinality(chosen)
           + Min({Budget, Budget - Cardinality(chosen), Cardinality(V!Keys(new))})
  BY <1>1, <1>2, PickFills
<1>4. V!Keys(rows) = V!Keys(chosen) \union V!Keys(new) /\ V!Keys(chosen) \intersect V!Keys(new) = {}
  BY DEF V!Keys, Fresh
<1>5. /\ Cardinality(V!Keys(rows)) = Cardinality(chosen) + Cardinality(V!Keys(new))
      /\ Cardinality(chosen) \in Nat /\ Cardinality(V!Keys(new)) \in Nat
  <2> HIDE DEF new
  <2>1. /\ IsFiniteSet(V!Keys(chosen)) /\ IsFiniteSet(V!Keys(new)) /\ IsFiniteSet(V!Keys(rows))
        /\ Cardinality(V!Keys(chosen)) = Cardinality(chosen)
    BY <1>1, KeysCounted
  <2>2. Cardinality(V!Keys(chosen)) \in Nat /\ Cardinality(V!Keys(new)) \in Nat
        /\ Cardinality(V!Keys(rows)) \in Nat
    BY <2>1, FS_CardinalityType
  <2>3. Cardinality(V!Keys(chosen) \intersect V!Keys(new)) = 0
    BY <1>4, FS_EmptySet
  <2>4. Cardinality(V!Keys(chosen) \union V!Keys(new))
          = Cardinality(V!Keys(chosen)) + Cardinality(V!Keys(new))
              - Cardinality(V!Keys(chosen) \intersect V!Keys(new))
    BY <2>1, FS_Union
  <2> QED
    BY <1>4, <2>1, <2>2, <2>3, <2>4
<1> QED
  <2> HIDE DEF new
  <2>1. \A b, c, k \in Nat : c <= b => c + Min({b, b - c, k}) = Min({b, c + k})
    BY FilledUp
  <2>2. Cardinality(s) = Min({Budget, Cardinality(chosen) + Cardinality(V!Keys(new))})
    BY <1>2, <1>3, <1>5, <2>1, Zenon
  <2> QED
    BY <1>3, <1>5, <2>2

(* The first stratum leaves room for another, unless the budget is one.     *)
LEMMA ShareLeavesRoom ==
  /\ V!Share(70) \in Nat /\ V!Share(10) \in Nat /\ V!Share(15) \in Nat
  /\ V!Share(10) >= 1
  /\ Budget > 1 => V!Share(70) < Budget
<1>1. Budget \in Nat \ {0}
  BY BoundsPositive
<1>2. \A p \in {70, 10, 15} :
        V!Share(p) = IF 1 >= (Budget * p) \div 100 THEN 1 ELSE (Budget * p) \div 100
  <2>1. \A p \in {70, 10, 15} : (Budget * p) \div 100 \in Int
    BY <1>1
  <2> QED
    BY <2>1, LargestOfTwo, SameCounts DEF V!Share
<1> QED
  BY <1>1, <1>2

(* The regions that have as many rows as a given one. *)
Ahead(rows, w) == {v \in RegionsOf(rows) : CountIn(rows, v) >= CountIn(rows, w)}

LEMMA RegionsFinite ==
  ASSUME NEW rows, IsFiniteSet(rows)
  PROVE  IsFiniteSet(RegionsOf(rows))
<1> DEFINE f == [x \in rows |-> x.region]
<1>1. IsFiniteSet({f[x] : x \in rows})
  BY FinitelyMany
<1>2. {f[x] : x \in rows} = RegionsOf(rows)
  BY DEF RegionsOf
<1> QED
  BY <1>1, <1>2

(* Behind the three commonest regions there is room for a price of another. *)
LEMMA TailReached ==
  ASSUME NEW rows, IsFiniteSet(rows), Budget > 1,
         \A r, q \in rows : r.sku = q.sku => r.region = q.region,
         Cardinality(RegionsOf(rows)) > 3,
         NEW t \in V!Commonest(RegionsOf(rows), InRegion(rows), 3),
         NEW a \in V!Pick({}, Within(rows, t), V!Share(70)),
         NEW b \in V!Pick(a, Beyond(rows, t), V!Share(10)),
         V!Distinct(a), Cardinality(a) <= V!Share(70), IsFiniteSet(a)
  PROVE  \E r \in b : r \in rows /\ r.region \notin t
<1> DEFINE tail == Beyond(rows, t)
           new == Fresh(a, tail)
<1>1. IsFiniteSet(tail) /\ IsFiniteSet(new)
  BY FS_Subset DEF Fresh, Beyond
<1>2. Cardinality(a) < Budget /\ Cardinality(a) \in Nat /\ Budget \in Nat
  BY ShareLeavesRoom, FS_CardinalityType, BoundsPositive
<1>3. IsFiniteSet(RegionsOf(rows)) /\ Cardinality(RegionsOf(rows)) \in Nat
  BY RegionsFinite, FS_CardinalityType
<1>4. t \subseteq RegionsOf(rows) /\ Cardinality(t) <= 3
  <2>1. t \subseteq RegionsOf(rows) /\ Cardinality(t) = Min({3, Cardinality(RegionsOf(rows))})
    BY SameCounts DEF V!Commonest, V!kSubset
  <2> QED
    BY <1>3, <2>1, SmallestOfTwo
<1>5. PICK v \in RegionsOf(rows) : v \notin t
  <2>1. t # RegionsOf(rows)
    BY <1>3, <1>4
  <2> QED
    BY <1>4, <2>1
<1>6. PICK r \in rows : r.region = v
  BY <1>5 DEF RegionsOf
<1>7. r \in new
  <2>1. a \subseteq Within(rows, t)
    BY PickedFromPool
  <2>2. \A x \in a : x.sku # r.sku
    BY <1>5, <1>6, <2>1 DEF Within
  <2> QED
    BY <1>5, <1>6, <2>2 DEF V!Keys, V!Key, Fresh, Beyond
<1>8. Cardinality(V!Keys(new)) \in Nat /\ Cardinality(V!Keys(new)) >= 1
  <2> HIDE DEF new
  <2>1. IsFiniteSet(V!Keys(new)) /\ V!Keys(new) # {}
    BY <1>1, <1>7, KeysCounted DEF V!Keys
  <2> QED
    BY <2>1, FS_EmptySet, FS_CardinalityType
<1>9. Cardinality(b) > Cardinality(a) /\ a \subseteq b /\ IsFiniteSet(b)
  <2> HIDE DEF new, tail
  <2>1. /\ IsFiniteSet(b) /\ a \subseteq b
        /\ Cardinality(b) = Cardinality(a)
             + Min({V!Share(10), Budget - Cardinality(a), Cardinality(V!Keys(new))})
    <3> DEFINE n == V!Share(10)
    <3>1. b \in V!Pick(a, tail, n) /\ n \in Nat /\ Cardinality(a) <= Budget
      BY <1>2, ShareLeavesRoom DEF tail
    <3> HIDE DEF n
    <3>2. /\ IsFiniteSet(b) /\ a \subseteq b
          /\ Cardinality(b) = Cardinality(a)
               + Min({n, Budget - Cardinality(a), Cardinality(V!Keys(Fresh(a, tail)))})
      BY <1>1, <3>1, PickFills
    <3> QED
      BY <3>2 DEF n, new
  <2>2. \A x, y, z \in Int : Min({x, y, z}) \in {x, y, z}
    BY SmallestOfThree
  <2>3. V!Share(10) \in Int /\ Budget - Cardinality(a) \in Int /\ Cardinality(V!Keys(new)) \in Int
    BY <1>2, <1>8, ShareLeavesRoom
  <2>4. Min({V!Share(10), Budget - Cardinality(a), Cardinality(V!Keys(new))})
          \in {V!Share(10), Budget - Cardinality(a), Cardinality(V!Keys(new))}
    BY <2>2, <2>3, Zenon
  <2> QED
    BY <1>2, <1>8, <2>1, <2>3, <2>4, ShareLeavesRoom
<1>10. PICK q \in b : q \notin a
  <2>1. a # b
    BY <1>2, <1>9
  <2> QED
    BY <1>9, <2>1
<1> QED
  <2>1. q \in a \union Beyond(rows, t)
    BY PickedFromPool
  <2> QED
    BY <1>10, <2>1 DEF Beyond

(* The three commonest regions and one that is rarer.                       *)
LEMMA RankedBehind ==
  ASSUME NEW rows, IsFiniteSet(rows),
         Cardinality(RegionsOf(rows)) > 3,
         NEW t \in V!Commonest(RegionsOf(rows), InRegion(rows), 3),
         NEW r \in rows, r.region \notin t
  PROVE  Cardinality(Ahead(rows, r.region)) > 3
<1>1. IsFiniteSet(RegionsOf(rows)) /\ Cardinality(RegionsOf(rows)) \in Nat
  BY RegionsFinite, FS_CardinalityType
<1>2. t \subseteq RegionsOf(rows) /\ Cardinality(t) = 3
  <2>1. t \subseteq RegionsOf(rows) /\ Cardinality(t) = Min({3, Cardinality(RegionsOf(rows))})
    BY SameCounts DEF V!Commonest, V!kSubset
  <2> QED
    BY <1>1, <2>1, SmallestOfTwo
<1>3. \A v \in t : CountIn(rows, v) >= CountIn(rows, r.region)
  <2>1. \A v \in t, w \in RegionsOf(rows) \ t : InRegion(rows)[v] >= InRegion(rows)[w]
    BY DEF V!Commonest
  <2>2. \A v \in RegionsOf(rows) : InRegion(rows)[v] = CountIn(rows, v)
    BY DEF InRegion
  <2>3. r.region \in RegionsOf(rows)
    BY DEF RegionsOf
  <2> QED
    BY <1>2, <2>1, <2>2, <2>3
<1>4. CountIn(rows, r.region) \in Nat
  BY FS_Subset, FS_CardinalityType DEF CountIn
<1>5. t \union {r.region} \subseteq Ahead(rows, r.region)
  BY <1>2, <1>3, <1>4 DEF Ahead, RegionsOf
<1>6. Cardinality(t \union {r.region}) = 4
  <2>1. IsFiniteSet(t)
    BY <1>1, <1>2, FS_Subset
  <2>2. Cardinality(t \union {r.region}) = Cardinality(t) + 1
    BY <2>1, FS_AddElement
  <2> QED
    BY <1>2, <2>2
<1>7. IsFiniteSet(Ahead(rows, r.region)) /\ Cardinality(Ahead(rows, r.region)) \in Nat
  BY <1>1, FS_Subset, FS_CardinalityType DEF Ahead
<1>8. Cardinality(t \union {r.region}) <= Cardinality(Ahead(rows, r.region))
  BY <1>5, <1>7, FS_Subset
<1> QED
  BY <1>6, <1>7, <1>8

(* A sample, whatever ties the strata break: sample_rows.                   *)
LEMMA SampleFills ==
  ASSUME NEW rows, IsFiniteSet(rows),
         \A r, q \in rows : r.sku = q.sku => r.region = q.region,
         NEW s \in V!Samples(rows)
  PROVE  /\ Cardinality(s) = Min({Budget, Cardinality(V!Keys(rows))})
         /\ V!Distinct(s)
         /\ Cardinality(RegionsOf(rows)) > 3 /\ Budget > 1 =>
              \E r \in s : Cardinality(Ahead(rows, r.region)) > 3
<1>1. PICK f : \E t \in V!Commonest(RegionsOf(rows), InRegion(rows), 3) :
        \E a \in V!Pick({}, Within(rows, t), V!Share(70)) :
        \E b \in V!Pick(a, Beyond(rows, t), V!Share(10)) :
        \E c \in V!Pick(b, Named(rows, f), V!Share(15)) :
          s \in V!Pick(c, rows, Budget)
  BY Strata, SameCounts DEF InRegion, CountIn
<1>2. PICK t \in V!Commonest(RegionsOf(rows), InRegion(rows), 3) :
        \E a \in V!Pick({}, Within(rows, t), V!Share(70)) :
        \E b \in V!Pick(a, Beyond(rows, t), V!Share(10)) :
        \E c \in V!Pick(b, Named(rows, f), V!Share(15)) :
          s \in V!Pick(c, rows, Budget)
  BY <1>1
<1>3. PICK a \in V!Pick({}, Within(rows, t), V!Share(70)) :
        \E b \in V!Pick(a, Beyond(rows, t), V!Share(10)) :
        \E c \in V!Pick(b, Named(rows, f), V!Share(15)) :
          s \in V!Pick(c, rows, Budget)
  BY <1>2
<1>4. PICK b \in V!Pick(a, Beyond(rows, t), V!Share(10)) :
        \E c \in V!Pick(b, Named(rows, f), V!Share(15)) :
          s \in V!Pick(c, rows, Budget)
  BY <1>3
<1>5. PICK c \in V!Pick(b, Named(rows, f), V!Share(15)) :
        s \in V!Pick(c, rows, Budget)
  BY <1>4
<1>6. /\ IsFiniteSet(Within(rows, t)) /\ IsFiniteSet(Beyond(rows, t))
      /\ IsFiniteSet(Named(rows, f))
  BY FS_Subset DEF Within, Beyond, Named
<1>7. /\ IsFiniteSet(a) /\ V!Distinct(a)
      /\ Cardinality(a) <= Budget /\ Cardinality(a) <= V!Share(70)
  <2> DEFINE new == Fresh({}, Within(rows, t))
  <2>1. /\ IsFiniteSet({}) /\ V!Distinct({}) /\ Cardinality({}) = 0 /\ Cardinality({}) <= Budget
    BY FS_EmptySet, BoundsPositive DEF V!Distinct
  <2>2. /\ IsFiniteSet(a) /\ V!Distinct(a) /\ Cardinality(a) <= Budget
        /\ Cardinality(a) = Cardinality({})
             + Min({V!Share(70), Budget - Cardinality({}), Cardinality(V!Keys(new))})
    BY <1>6, <2>1, PickFills, ShareLeavesRoom
  <2>3. IsFiniteSet(V!Keys(new))
    BY <1>6, KeysCounted, FS_Subset DEF Fresh
  <2> HIDE DEF new
  <2>4. V!Share(70) \in Int /\ Budget - Cardinality({}) \in Int /\ Cardinality(V!Keys(new)) \in Int
    BY <2>1, <2>3, ShareLeavesRoom, BoundsPositive, FS_CardinalityType
  <2>5. \A x, y, z \in Int : Min({x, y, z}) \in {x, y, z} /\ Min({x, y, z}) <= x
    BY SmallestOfThree
  <2>6. /\ Min({V!Share(70), Budget - Cardinality({}), Cardinality(V!Keys(new))}) <= V!Share(70)
        /\ Min({V!Share(70), Budget - Cardinality({}), Cardinality(V!Keys(new))})
             \in {V!Share(70), Budget - Cardinality({}), Cardinality(V!Keys(new))}
    BY <2>4, <2>5, Zenon
  <2> QED
    BY <2>1, <2>2, <2>4, <2>6
<1>8. IsFiniteSet(b) /\ V!Distinct(b) /\ Cardinality(b) <= Budget /\ a \subseteq b
  <2> DEFINE n == V!Share(10)
  <2>1. b \in V!Pick(a, Beyond(rows, t), n) /\ n \in Nat
    BY ShareLeavesRoom
  <2> HIDE DEF n
  <2> QED
    BY <1>6, <1>7, <2>1, PickFills
<1>9. IsFiniteSet(c) /\ V!Distinct(c) /\ Cardinality(c) <= Budget /\ b \subseteq c
  <2> DEFINE n == V!Share(15)
  <2>1. c \in V!Pick(b, Named(rows, f), n) /\ n \in Nat
    BY ShareLeavesRoom
  <2> HIDE DEF n
  <2> QED
    BY <1>6, <1>8, <2>1, PickFills
<1>10. c \subseteq rows
  <2>1. /\ a \subseteq {} \union Within(rows, t)
        /\ b \subseteq a \union Beyond(rows, t)
        /\ c \subseteq b \union Named(rows, f)
    BY PickedFromPool
  <2> QED
    BY <2>1 DEF Within, Beyond, Named
<1>11. /\ Cardinality(s) = Min({Budget, Cardinality(V!Keys(rows))})
       /\ V!Distinct(s) /\ c \subseteq s
  BY <1>5, <1>9, <1>10, LastFills
<1>12. ASSUME Cardinality(RegionsOf(rows)) > 3, Budget > 1
       PROVE  \E r \in s : Cardinality(Ahead(rows, r.region)) > 3
  <2>1. PICK r \in b : r \in rows /\ r.region \notin t
    BY <1>7, <1>12, TailReached
  <2>2. r \in s
    BY <1>9, <1>11
  <2> QED
    BY <1>12, <2>1, <2>2, RankedBehind
<1> QED
  BY <1>11, <1>12
-----------------------------------------------------------------------------
(* The rows of the shard that is checked. *)

LEMMA RowsFinite ==
  ASSUME FInv
  PROVE  IsFiniteSet(V!Rows(V!Items))
<1> DEFINE made == {q \in DOMAIN released.of : released.of[q] # V!None}
           f == [p \in made |-> {i \in Listing[src.name][released.of[p]] : i.part = p}]
<1>1. /\ src \in Sources /\ made \subseteq src.parts
      /\ \A p \in made : released.of[p] \in Versions
  BY DEF FInv, Typed, Absent, V!None, F!None, F!Parts
<1>2. IsFiniteSet(made)
  BY <1>1, ListsFinite, FS_Subset
<1>3. \A p \in made : IsFiniteSet(f[p])
  BY <1>1, ListsFinite, FS_Subset
<1>4. IsFiniteSet({f[p] : p \in made})
  <2>1. f = [p \in made |-> f[p]]
    OBVIOUS
  <2> HIDE DEF f, made
  <2> QED
    BY <1>2, <2>1, FinitelyMany
<1>5. V!Items = UNION {f[p] : p \in made}
  BY DEF V!Items
<1>6. IsFiniteSet(V!Items)
  <2>1. \A T \in {f[p] : p \in made} : IsFiniteSet(T)
    BY <1>3
  <2> HIDE DEF f, made
  <2> QED
    BY <1>4, <1>5, <2>1, FS_UNION
<1> DEFINE listed == V!Published(V!Items)
           g == [i \in listed |-> [sku |-> i.sku, name |-> i.name, region |-> i.region,
                                   dim |-> i.dim, tier |-> i.tier, usd |-> i.usd, by |-> i.by,
                                   part |-> i.part]]
<1>7. IsFiniteSet(listed)
  <2>1. listed \subseteq V!Items
    BY DEF V!Published
  <2> QED
    BY <1>6, <2>1, FS_Subset
<1>8. V!Rows(V!Items) = {g[i] : i \in listed}
  BY DEF V!Rows
<1> QED
  <2>1. g = [i \in listed |-> g[i]]
    OBVIOUS
  <2> HIDE DEF g, listed
  <2> QED
    BY <1>7, <1>8, <2>1, FinitelyMany

LEMMA RowsOfOneRegion ==
  ASSUME FInv, NEW r \in V!Rows(V!Items), NEW q \in V!Rows(V!Items), r.sku = q.sku
  PROVE  r.region = q.region
<1>1. \A x \in V!Rows(V!Items) :
        \E v \in Versions : \E i \in Listing[src.name][v] :
          x.sku = i.sku /\ x.region = i.region /\ i.sku # <<>>
  <2>1. \A i \in V!Items : \E v \in Versions : i \in Listing[src.name][v]
    BY DEF FInv, Typed, Absent, V!Items, V!None, F!None, F!Parts
  <2>2. \A x \in V!Rows(V!Items) : \E i \in V!Items :
         x.sku = i.sku /\ x.region = i.region /\ i.sku # <<>>
    BY DEF V!Rows, V!Published
  <2> QED
    BY <2>1, <2>2
<1>2. src \in Sources
  BY DEF FInv, Typed
<1> QED
  BY <1>1, <1>2, SkusStay

LEMMA SpreadStays ==
  ASSUME SampleSpread, UNCHANGED <<src, released, sampled>>,
         stage' \in {"checking", "passed", "failed"} => stage \in {"checking", "passed", "failed"}
  PROVE  SampleSpread'
<1>1. V!Rows(V!Items)' = V!Rows(V!Items)
  BY ShardFixed
<1> QED
  BY <1>1 DEF SampleSpread, V!Keys, V!Key, V!Distinct

LEMMA SampleSpreads ==
  ASSUME FInv, V!Sample, UNCHANGED <<src, released>>
  PROVE  SampleSpread'
<1>1. PICK s \in V!Samples(V!Rows(V!Items)) : sampled' = s
  BY DEF V!Sample
<1>2. V!Rows(V!Items)' = V!Rows(V!Items)
  BY ShardFixed
<1>3. /\ Cardinality(s) = Min({Budget, Cardinality(V!Keys(V!Rows(V!Items)))})
      /\ V!Distinct(s)
      /\ Cardinality(RegionsOf(V!Rows(V!Items))) > 3 /\ Budget > 1 =>
           \E r \in s : Cardinality(Ahead(V!Rows(V!Items), r.region)) > 3
  <2> DEFINE rows == V!Rows(V!Items)
  <2>1. IsFiniteSet(rows) /\ \A r, q \in rows : r.sku = q.sku => r.region = q.region
    BY RowsFinite, RowsOfOneRegion
  <2> HIDE DEF rows
  <2>2. /\ Cardinality(s) = Min({Budget, Cardinality(V!Keys(rows))})
        /\ V!Distinct(s)
        /\ Cardinality(RegionsOf(rows)) > 3 /\ Budget > 1 =>
             \E r \in s : Cardinality(Ahead(rows, r.region)) > 3
    <3>1. s \in V!Samples(rows)
      BY DEF rows
    <3> QED
      BY <2>1, <3>1, SampleFills
  <2> QED
    BY <2>2 DEF rows
<1> QED
  BY <1>1, <1>2, <1>3
     DEF SampleSpread, RegionsOf, Ahead, CountIn, V!Keys, V!Key, V!Distinct

(* A check looks up as many prices as the budget and the shard allow, none  *)
(* twice, and not only of the three commonest regions, however the strata   *)
(* of sample_rows overlap and its random choices fall.                      *)
THEOREM SampleSpreadCorrect == Spec => []SampleSpread
<1>1. Init => SampleSpread
  BY DEF Init, V!CheckInit, SampleSpread
<1>2. FInv /\ CInv /\ SampleSpread /\ [Next]_variables => SampleSpread'
  <2> SUFFICES ASSUME FInv, CInv, SampleSpread, [Next]_variables PROVE SampleSpread'
    OBVIOUS
  <2>1. ASSUME stage = "idle", UNCHANGED checking
        PROVE  SampleSpread'
    BY <2>1 DEF SampleSpread, checking
  <2>2. CASE Begins
    BY <2>1, <2>2 DEF Begins
  <2>3. CASE FetchGoesOn
    <3>1. pc \notin {"idle", "failed"}
      BY <2>3 DEF FetchGoesOn, F!FetchStep, F!NotModified, F!Modified, F!ReadIndex, F!AskFails,
                  F!PoolEnds, F!Fetched, F!Publish, F!IngestFails, F!Reuse, F!GetPart,
                  F!StripPart, F!TryAgain, F!GiveUp, F!Asking
    <3> QED
      BY <2>1, <2>3, <3>1 DEF CInv, CTyped, Fixed, F!Resting, FetchGoesOn
  <2>4. CASE FetchDies
    BY <2>1, <2>4 DEF CInv, CTyped, Fixed, F!Resting, FetchDies, F!Kill
  <2>5. CASE CheckBegins
    BY <2>5, SampleSpreads DEF CheckBegins, V!CheckBegins, V!Skip, SampleSpread
  <2>6. CASE CheckGoesOn
    <3>1. UNCHANGED <<src, released, sampled>> /\ stage = "checking"
      BY <2>6 DEF CheckGoesOn, V!CheckStep, V!Report, V!TakenAsFree, V!NoAnswer,
                  V!NotListed, V!Compare
    <3> QED
      BY <3>1, SpreadStays
  <2>7. CASE PricesChange \/ UNCHANGED variables
    BY <2>7, SpreadStays DEF PricesChange, variables, checking
  <2>8. CASE Releases \/ TwinFetches
    BY <2>1, <2>8 DEF Releases, TwinFetches
  <2> QED
    BY <2>2, <2>3, <2>4, <2>5, <2>6, <2>7, <2>8 DEF Next
<1> QED
  BY FetchInvariance, CheckInvariance, <1>1, <1>2, PTL DEF Spec
=============================================================================
