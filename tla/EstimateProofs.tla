--------------------------- MODULE EstimateProofs ---------------------------
(***************************************************************************)
(* Proofs about Estimate: ChargedAsListed, for any policies, documents and *)
(* volumes that satisfy the assumptions.                                   *)
(*                                                                         *)
(* The argument follows the money.  Walking tiers that tile charges every  *)
(* unit at the rate of its tier: tiers are taken from the lowest up, so    *)
(* that after each of them the sum is the bill up to its end               *)
(* (WalkCharges).  The tiers a row has of a dimension are, rate by rate,   *)
(* those its items list (EntriesFaithful), so the bill by the row is the   *)
(* bill by the list (SamePrices, BillFlat).  Each estimator then charges   *)
(* exactly the parameters asked for (QueueRight, GatewayRight, DnsRight,   *)
(* CdnRight); the fees it adds are, one for one, those the document lists  *)
(* for the sku (FeesAdd).  The row charged is one the query finds: the row *)
(* itself (FoundAlone), or of a CDN one of those that share its region.    *)
(*                                                                         *)
(* What a fold or a sum over a finite set comes to is shown without an     *)
(* induction principle: if it were wrong of some subset, it would be of    *)
(* one with no smaller wrong one (SmallestOf), and taking one element away *)
(* from that gives a smaller one.                                          *)
(***************************************************************************)
EXTENDS Estimate, IngestProofs

(* Of natural numbers there is a least one. *)
LEMMA LeastOf ==
  ASSUME NEW S \in SUBSET Nat, S # {}
  PROVE  \E x \in S : \A y \in S : x <= y
<1>1. PICK n \in S : TRUE
  OBVIOUS
<1>2. n \in Nat /\ IsFiniteSet(0..n)
  BY FS_Interval
<1> DEFINE U == S \intersect (0..n)
<1>3. U \in SUBSET Nat /\ U # {} /\ IsFiniteSet(U)
  BY <1>1, <1>2, FS_Subset
<1> HIDE DEF U
<1>4. PICK x \in U : \A y \in U : x <= y
  BY <1>3, Extremes
<1> QED
  BY <1>1, <1>2, <1>4 DEF U

(* Of the subsets of a finite set there is one, in any collection of them,   *)
(* that has no smaller one in it: what holds of a set where it holds of all  *)
(* smaller ones holds of every finite set.                                   *)
LEMMA SmallestOf ==
  ASSUME NEW S, IsFiniteSet(S), NEW B \in SUBSET SUBSET S, B # {}
  PROVE  \E b \in B : \A a \in SUBSET b : a # b => a \notin B
<1> DEFINE sizes == {Cardinality(b) : b \in B}
<1>1. \A b \in SUBSET S : IsFiniteSet(b) /\ Cardinality(b) \in Nat
  BY FS_Subset, FS_CardinalityType
<1>2. sizes \in SUBSET Nat /\ sizes # {}
  BY <1>1
<1>3. PICK n \in sizes : \A m \in sizes : n <= m
  BY <1>2, LeastOf
<1>4. PICK b \in B : Cardinality(b) = n
  BY <1>3
<1>5. ASSUME NEW a \in SUBSET b, a # b, a \in B
      PROVE  FALSE
  <2>1. Cardinality(a) < Cardinality(b)
    BY <1>1, <1>5, FS_Subset
  <2> QED
    BY <1>1, <1>3, <1>4, <1>5, <2>1
<1> QED
  BY <1>5

(* c takes an element out of every set; f is defined by recursion over the  *)
(* subsets of D, by a step from what it is without the element taken out.    *)
Takes(c, D) == \A s \in SUBSET D : s # {} => c[s] \in s

Recurs(f, D, base, c, step) ==
  \A s \in SUBSET D : f[s] = IF s = {} THEN base ELSE step[<<c[s], f[s \ {c[s]}]>>]

(* Over a finite set there is such a function. *)
LEMMA Recursion ==
  ASSUME NEW D, IsFiniteSet(D), NEW V, NEW base \in V, NEW c, Takes(c, D),
         NEW step \in [D \X V -> V]
  PROVE  \E f \in [SUBSET D -> V] : Recurs(f, D, base, c, step)
<1>0. \A s \in SUBSET D : s # {} => c[s] \in s
  BY DEF Takes
<1> DEFINE Eq(f, s) == f[s] = IF s = {} THEN base ELSE step[<<c[s], f[s \ {c[s]}]>>]
           Good(n) == \E f \in [SUBSET D -> V] :
                        \A s \in SUBSET D : Cardinality(s) <= n => Eq(f, s)
           bad == {n \in Nat : ~Good(n)}
<1>1. \A s \in SUBSET D : IsFiniteSet(s) /\ Cardinality(s) \in Nat /\ Cardinality(s) <= Cardinality(D)
  BY FS_Subset, FS_CardinalityType
<1>2. Good(0)
  <2> DEFINE f == [s \in SUBSET D |-> base]
  <2>1. f \in [SUBSET D -> V]
    OBVIOUS
  <2>2. \A s \in SUBSET D : Cardinality(s) <= 0 => Eq(f, s)
    BY <1>1, FS_EmptySet
  <2> QED
    BY <2>1, <2>2
<1>3. ASSUME NEW n \in Nat, Good(n)
      PROVE  Good(n + 1)
  <2>1. PICK f \in [SUBSET D -> V] : \A s \in SUBSET D : Cardinality(s) <= n => Eq(f, s)
    BY <1>3
  <2> DEFINE g == [s \in SUBSET D |-> IF Cardinality(s) <= n THEN f[s] ELSE step[<<c[s], f[s \ {c[s]}]>>]]
  <2>2. \A s \in SUBSET D : s # {} =>
          /\ c[s] \in D /\ s \ {c[s]} \in SUBSET D /\ <<c[s], f[s \ {c[s]}]>> \in D \X V
          /\ Cardinality(s \ {c[s]}) = Cardinality(s) - 1
    BY <1>0, <1>1, FS_RemoveElement
  <2>3. \A s \in SUBSET D : ~(Cardinality(s) <= n) => s # {}
    BY <1>1, FS_EmptySet
  <2>4. g \in [SUBSET D -> V]
    BY <2>2, <2>3
  <2>5. ASSUME NEW s \in SUBSET D, Cardinality(s) <= n + 1
        PROVE  Eq(g, s)
    <3>1. CASE s = {}
      BY <3>1, <2>1, <1>1, FS_EmptySet
    <3>2. CASE s # {}
      <4>1. Cardinality(s \ {c[s]}) <= n /\ s \ {c[s]} \in SUBSET D
        <5>1. Cardinality(s) \in Nat /\ Cardinality(s) <= n + 1
          BY <1>1, <2>5
        <5>2. Cardinality(s \ {c[s]}) = Cardinality(s) - 1 /\ s \ {c[s]} \in SUBSET D
          BY <2>2, <3>2
        <5> QED
          BY <5>1, <5>2
      <4>2. g[s \ {c[s]}] = f[s \ {c[s]}]
        BY <4>1
      <4>3. CASE Cardinality(s) <= n
        BY <4>2, <4>3, <2>1, <3>2
      <4>4. CASE ~(Cardinality(s) <= n)
        BY <4>2, <4>4, <3>2
      <4> QED
        BY <4>3, <4>4
    <3> QED
      BY <3>1, <3>2
  <2> HIDE DEF g, Eq
  <2> QED
    BY <2>4, <2>5
<1>4. bad = {}
  <2> SUFFICES ASSUME bad # {} PROVE FALSE
    OBVIOUS
  <2>1. bad \in SUBSET Nat
    OBVIOUS
  <2> HIDE DEF Good
  <2>2. PICK n \in bad : \A m \in bad : n <= m
    BY <2>1, LeastOf
  <2>3. n \in Nat /\ n # 0 /\ n - 1 \in Nat /\ ~(n <= n - 1)
    BY <1>2, <2>2
  <2>4. Good(n - 1)
    BY <2>2, <2>3
  <2>5. Good(n - 1 + 1)
    BY <1>3, <2>3, <2>4
  <2> QED
    BY <2>2, <2>3, <2>5
<1>5. Good(Cardinality(D))
  BY <1>4, FS_CardinalityType
<1> QED
  BY <1>1, <1>5 DEF Recurs
-----------------------------------------------------------------------------
(* Sums. *)
First(s) == CHOOSE x \in s : TRUE

Sums(fun, S) == CHOOSE iter :
  iter = [s \in SUBSET S |-> IF s = {} THEN 0 ELSE fun[First(s)] + iter[s \ {First(s)}]]

(* f is the sum over each subset of S. *)
Adds(f, fun, S) ==
  \A s \in SUBSET S : f[s] = IF s = {} THEN 0 ELSE fun[First(s)] + f[s \ {First(s)}]

(* A sum is defined by recursion over the subsets of what is summed over. *)
LEMMA SumUnfolds ==
  ASSUME NEW S, IsFiniteSet(S), NEW fun, \A x \in S : fun[x] \in Nat
  PROVE  /\ SumFunctionOnSet(fun, S) = Sums(fun, S)[S]
         /\ Sums(fun, S) \in [SUBSET S -> Nat]
         /\ Adds(Sums(fun, S), fun, S)
<1>1. SumFunctionOnSet(fun, S) = Sums(fun, S)[S]
  BY DEF SumFunctionOnSet, FoldFunctionOnSet, MapThenFoldSet, Sums, First
<1> DEFINE c == [s \in SUBSET S |-> First(s)]
           step == [x \in S \X Nat |-> fun[x[1]] + x[2]]
<1>2. \A s \in SUBSET S : c[s] = First(s) /\ (s # {} => First(s) \in s)
  BY DEF First
<1>3. Takes(c, S)
  BY <1>2 DEF Takes
<1>4. step \in [S \X Nat -> Nat] /\ 0 \in Nat
  OBVIOUS
<1>5. \A x \in S : \A n \in Nat : step[<<x, n>>] = fun[x] + n
  OBVIOUS
<1> HIDE DEF c, step
<1>6. PICK f \in [SUBSET S -> Nat] : Recurs(f, S, 0, c, step)
  BY <1>3, <1>4, Recursion
<1>7. \A s \in SUBSET S : f[s] = IF s = {} THEN 0 ELSE fun[First(s)] + f[s \ {First(s)}]
  <2> TAKE s \in SUBSET S
  <2>1. f[s] = IF s = {} THEN 0 ELSE step[<<c[s], f[s \ {c[s]}]>>]
    BY <1>6 DEF Recurs
  <2>2. CASE s # {}
    <3>1. First(s) \in S /\ c[s] = First(s) /\ s \ {First(s)} \in SUBSET S
      BY <1>2, <2>2
    <3>2. f[s \ {First(s)}] \in Nat
      BY <3>1
    <3> QED
      BY <1>5, <2>1, <2>2, <3>1, <3>2
  <2> QED
    BY <2>1, <2>2
<1>8. f = [s \in SUBSET S |-> IF s = {} THEN 0 ELSE fun[First(s)] + f[s \ {First(s)}]]
  BY <1>7
<1>9. Sums(fun, S) = [s \in SUBSET S |->
        IF s = {} THEN 0 ELSE fun[First(s)] + Sums(fun, S)[s \ {First(s)}]]
  BY <1>8 DEF Sums
<1> DEFINE g == Sums(fun, S)
<1>10. \A s \in SUBSET S : g[s] = IF s = {} THEN 0 ELSE fun[First(s)] + g[s \ {First(s)}]
  <2> HIDE DEF g
  <2> QED
    BY <1>9 DEF g
<1>11. \A s \in SUBSET S : g[s] = f[s]
  <2> DEFINE bad == {s \in SUBSET S : g[s] # f[s]}
  <2> SUFFICES ASSUME bad # {} PROVE FALSE
    OBVIOUS
  <2> HIDE DEF g
  <2>1. bad \in SUBSET SUBSET S
    OBVIOUS
  <2> HIDE DEF bad
  <2>2. PICK b \in bad : \A a \in SUBSET b : a # b => a \notin bad
    BY <2>1, SmallestOf
  <2>3. b \in SUBSET S /\ g[b] # f[b]
    BY DEF bad
  <2>4. b # {} /\ First(b) \in b
    BY <1>2, <1>7, <1>10, <2>3
  <2>5. g[b \ {First(b)}] = f[b \ {First(b)}]
    BY <2>2, <2>3, <2>4 DEF bad
  <2> QED
    BY <1>7, <1>10, <2>3, <2>4, <2>5
<1>12. g = f
  <2>1. g = [s \in SUBSET S |-> g[s]]
    BY <1>9
  <2>2. f = [s \in SUBSET S |-> f[s]]
    OBVIOUS
  <2> HIDE DEF g
  <2> QED
    BY <1>11, <2>1, <2>2
<1> QED
  BY <1>1, <1>10, <1>12 DEF Adds

(* What a set sums to does not depend on what else is summed over. *)
LEMMA SumsAgree ==
  ASSUME NEW S, IsFiniteSet(S), NEW fun, \A x \in S : fun[x] \in Nat, NEW T \in SUBSET S
  PROVE  SumFunctionOnSet(fun, T) = Sums(fun, S)[T]
<1> DEFINE f == Sums(fun, S)
           g == Sums(fun, T)
           bad == {r \in SUBSET T : f[r] # g[r]}
<1>0. IsFiniteSet(S) /\ \A x \in S : fun[x] \in Nat
  OBVIOUS
<1>1. IsFiniteSet(T) /\ \A x \in T : fun[x] \in Nat
  BY FS_Subset
<1>2. Adds(f, fun, S)
  BY <1>0, SumUnfolds
<1>3. Adds(g, fun, T)
  BY <1>1, SumUnfolds
<1>4. SumFunctionOnSet(fun, T) = g[T]
  BY <1>1, SumUnfolds
<1> HIDE DEF f, g
<1>5. bad = {}
  <2> SUFFICES ASSUME bad # {} PROVE FALSE
    OBVIOUS
  <2>1. bad \in SUBSET SUBSET T
    OBVIOUS
  <2> HIDE DEF bad
  <2>2. PICK b \in bad : \A a \in SUBSET b : a # b => a \notin bad
    BY <1>1, <2>1, SmallestOf
  <2>3. b \in SUBSET T /\ b \in SUBSET S /\ f[b] # g[b]
    BY DEF bad
  <2>4. b # {} /\ First(b) \in b
    BY <1>2, <1>3, <2>3 DEF First, Adds
  <2>5. f[b \ {First(b)}] = g[b \ {First(b)}]
    BY <2>2, <2>3, <2>4 DEF bad
  <2> QED
    BY <1>2, <1>3, <2>3, <2>4, <2>5 DEF Adds
<1> QED
  BY <1>4, <1>5 DEF f

(* A sum is of naturals, 0 of nothing, and takes its elements in any order. *)
LEMMA SumOf ==
  ASSUME NEW S, IsFiniteSet(S), NEW fun, \A x \in S : fun[x] \in Nat
  PROVE  /\ SumFunctionOnSet(fun, S) \in Nat
         /\ S = {} => SumFunctionOnSet(fun, S) = 0
         /\ \A x \in S : SumFunctionOnSet(fun, S) = fun[x] + SumFunctionOnSet(fun, S \ {x})
<1> DEFINE f == Sums(fun, S)
           bad == {s \in SUBSET S : \E x \in s : f[s] # fun[x] + f[s \ {x}]}
<1>0. IsFiniteSet(S) /\ \A x \in S : fun[x] \in Nat
  OBVIOUS
<1>1. \A s \in SUBSET S : SumFunctionOnSet(fun, s) = f[s]
  BY SumsAgree
<1>2. f \in [SUBSET S -> Nat] /\ Adds(f, fun, S)
  BY <1>0, SumUnfolds
<1> HIDE DEF f
<1>3. bad = {}
  <2> SUFFICES ASSUME bad # {} PROVE FALSE
    OBVIOUS
  <2>1. bad \in SUBSET SUBSET S
    OBVIOUS
  <2> HIDE DEF bad
  <2>2. PICK b \in bad : \A a \in SUBSET b : a # b => a \notin bad
    BY <2>1, SmallestOf
  <2>3. PICK x \in b : b \in SUBSET S /\ f[b] # fun[x] + f[b \ {x}]
    BY DEF bad
  <2> DEFINE y == First(b)
  <2>4. y \in b /\ f[b] = fun[y] + f[b \ {y}]
    BY <1>2, <2>3 DEF First, Adds
  <2> HIDE DEF y
  <2>5. x # y
    BY <2>3, <2>4
  <2>6. b \ {y} \in SUBSET b /\ b \ {y} # b /\ b \ {x} \in SUBSET b /\ b \ {x} # b
    BY <2>3, <2>4
  <2>7. x \in b \ {y} /\ y \in b \ {x}
    BY <2>3, <2>4, <2>5
  <2>8. f[b \ {y}] = fun[x] + f[(b \ {y}) \ {x}] /\ f[b \ {x}] = fun[y] + f[(b \ {x}) \ {y}]
    <3>1. b \ {y} \notin bad /\ b \ {x} \notin bad
      BY <2>2, <2>6
    <3>2. b \ {y} \in SUBSET S /\ b \ {x} \in SUBSET S
      BY <2>3
    <3> QED
      BY <2>7, <3>1, <3>2 DEF bad
  <2>9. (b \ {y}) \ {x} = (b \ {x}) \ {y}
    OBVIOUS
  <2>10. f[(b \ {x}) \ {y}] \in Nat /\ fun[x] \in Nat /\ fun[y] \in Nat
    BY <1>2, <2>3, <2>4
  <2>11. \A r \in SUBSET S : f[r] \in Nat
    BY <1>2
  <2>12. f[b] = fun[y] + (fun[x] + f[(b \ {x}) \ {y}])
    BY <2>4, <2>8, <2>9
  <2>13. f[b] = fun[x] + (fun[y] + f[(b \ {x}) \ {y}])
    BY <2>10, <2>12
  <2> QED
    BY <2>3, <2>8, <2>13
<1>4. ASSUME NEW x \in S
      PROVE  SumFunctionOnSet(fun, S) = fun[x] + SumFunctionOnSet(fun, S \ {x})
  <2>1. S \in SUBSET S /\ S \ {x} \in SUBSET S
    OBVIOUS
  <2>2. f[S] = fun[x] + f[S \ {x}]
    BY <1>3, <2>1
  <2> QED
    BY <1>1, <2>1, <2>2
<1>5. S \in SUBSET S
  OBVIOUS
<1>6. f[S] \in Nat /\ (S = {} => f[S] = 0)
  BY <1>2, <1>5 DEF Adds
<1> HIDE DEF bad
<1> QED
  BY <1>1, <1>4, <1>5, <1>6

(* Sums over sets that correspond, element by element of one price. *)
LEMMA SumMapped ==
  ASSUME NEW S, IsFiniteSet(S), NEW fun, \A x \in S : fun[x] \in Nat, NEW gun, NEW m,
         \A x \in S : gun[m[x]] = fun[x], \A x, y \in S : m[x] = m[y] => x = y
  PROVE  SumFunctionOnSet(gun, {m[x] : x \in S}) = SumFunctionOnSet(fun, S)
<1> DEFINE Im(s) == {m[x] : x \in s}
           bad == {s \in SUBSET S : SumFunctionOnSet(gun, Im(s)) # SumFunctionOnSet(fun, s)}
<1>1. \A s \in SUBSET S : IsFiniteSet(s) /\ IsFiniteSet(Im(s)) /\ \A y \in Im(s) : gun[y] \in Nat
  <2> TAKE s \in SUBSET S
  <2>1. IsFiniteSet(s)
    BY FS_Subset
  <2> DEFINE mm == [x \in s |-> m[x]]
  <2>2. IsFiniteSet({mm[x] : x \in s})
    <3>1. \A x \in s : mm[x] \in Im(s)
      OBVIOUS
    <3>2. mm \in Surjection(s, Im(s))
      BY DEF Surjection
    <3>3. IsFiniteSet(Im(s))
      BY <2>1, <3>2, FS_Surjection
    <3> QED
      BY <3>3
  <2>3. {mm[x] : x \in s} = Im(s)
    OBVIOUS
  <2>4. \A y \in Im(s) : gun[y] \in Nat
    OBVIOUS
  <2> HIDE DEF mm, Im
  <2> QED
    BY <2>1, <2>2, <2>3, <2>4
<1>2. bad = {}
  <2> SUFFICES ASSUME bad # {} PROVE FALSE
    OBVIOUS
  <2>1. bad \in SUBSET SUBSET S
    OBVIOUS
  <2> HIDE DEF bad
  <2>2. PICK b \in bad : \A a \in SUBSET b : a # b => a \notin bad
    BY <2>1, SmallestOf
  <2>3. b \in SUBSET S /\ SumFunctionOnSet(gun, Im(b)) # SumFunctionOnSet(fun, b)
    BY DEF bad
  <2>4. CASE b = {}
    <3>1. Im(b) = {}
      BY <2>4
    <3>2. SumFunctionOnSet(gun, Im(b)) = 0 /\ SumFunctionOnSet(fun, b) = 0
      BY <1>1, <2>3, <2>4, <3>1, SumOf
    <3> QED
      BY <2>3, <3>2
  <2>5. CASE b # {}
    <3>1. PICK x \in b : TRUE
      BY <2>5
    <3>2. Im(b) \ {m[x]} = Im(b \ {x})
      BY <2>3, <3>1
    <3>3. SumFunctionOnSet(fun, b) = fun[x] + SumFunctionOnSet(fun, b \ {x})
      BY <1>1, <2>3, <3>1, SumOf
    <3>4. m[x] \in Im(b) /\ gun[m[x]] = fun[x]
      BY <2>3, <3>1
    <3>5. SumFunctionOnSet(gun, Im(b)) = gun[m[x]] + SumFunctionOnSet(gun, Im(b) \ {m[x]})
      <4> HIDE DEF Im
      <4> QED
        BY <1>1, <2>3, <3>4, SumOf
    <3>6. SumFunctionOnSet(gun, Im(b \ {x})) = SumFunctionOnSet(fun, b \ {x})
      BY <2>2, <2>3, <3>1 DEF bad
    <3> QED
      BY <2>3, <3>2, <3>3, <3>4, <3>5, <3>6
  <2> QED
    BY <2>4, <2>5
<1> QED
  BY <1>2

LEMMA SumSame ==
  ASSUME NEW S, IsFiniteSet(S), NEW fun, \A x \in S : fun[x] \in Nat, NEW gun,
         \A x \in S : gun[x] = fun[x]
  PROVE  SumFunctionOnSet(gun, S) = SumFunctionOnSet(fun, S)
<1> DEFINE m == [x \in S |-> x]
<1>1. /\ {m[x] : x \in S} = S
      /\ \A x \in S : gun[m[x]] = fun[x]
      /\ \A x, y \in S : m[x] = m[y] => x = y
  OBVIOUS
<1>2. IsFiniteSet(S) /\ \A x \in S : fun[x] \in Nat
  OBVIOUS
<1> HIDE DEF m
<1>3. SumFunctionOnSet(gun, {m[x] : x \in S}) = SumFunctionOnSet(fun, S)
  BY <1>1, <1>2, SumMapped
<1> QED
  BY <1>1, <1>3

(* Units of one price add as many times that price. *)
LEMMA SumFlat ==
  ASSUME NEW a \in Nat, NEW b \in Nat, a <= b, NEW c \in Nat, NEW fun,
         \A u \in 0..(b - 1) : fun[u] \in Nat, \A u \in a..(b - 1) : fun[u] = c
  PROVE  SumFunctionOnSet(fun, 0..(b - 1)) = SumFunctionOnSet(fun, 0..(a - 1)) + (b - a) * c
<1> DEFINE S(k) == SumFunctionOnSet(fun, 0..(a + k - 1))
           bad == {k \in 0..(b - a) : S(k) # S(0) + k * c}
<1>1. b - a \in Nat /\ \A k \in 0..(b - a) : k \in Nat
  OBVIOUS
<1>2. \A k \in 0..(b - a) : IsFiniteSet(0..(a + k - 1)) /\ \A u \in 0..(a + k - 1) : fun[u] \in Nat
  <2> TAKE k \in 0..(b - a)
  <2>1. a + k - 1 \in Int /\ 0 \in Int
    OBVIOUS
  <2>2. IsFiniteSet(0..(a + k - 1))
    BY <2>1, FS_Interval
  <2>3. 0..(a + k - 1) \subseteq 0..(b - 1)
    OBVIOUS
  <2> QED
    BY <2>2, <2>3
<1>3. \A k \in 0..(b - a) : S(k) \in Nat
  BY <1>2, SumOf
<1>4. bad = {}
  <2> SUFFICES ASSUME bad # {} PROVE FALSE
    OBVIOUS
  <2>1. bad \in SUBSET Nat
    OBVIOUS
  <2> HIDE DEF bad
  <2>2. PICK k \in bad : \A l \in bad : k <= l
    BY <2>1, LeastOf
  <2>3. k \in 0..(b - a) /\ S(k) # S(0) + k * c
    BY DEF bad
  <2>4. CASE k = 0
    <3>1. S(0) \in Nat /\ S(0) # S(0) + 0 * c
      BY <1>1, <1>3, <2>3, <2>4
    <3> QED
      BY <3>1
  <2>5. CASE k # 0
    <3> DEFINE j == k - 1
    <3>1. j \in 0..(b - a) /\ j \notin bad /\ k = j + 1
      BY <2>1, <2>2, <2>3, <2>5
    <3> HIDE DEF j
    <3>2. S(j) = S(0) + j * c
      BY <3>1 DEF bad
    <3>3. a + j \in 0..(a + k - 1) /\ (0..(a + k - 1)) \ {a + j} = 0..(a + j - 1)
      <4>1. PICK n : n = a + j
        OBVIOUS
      <4>2. n \in Nat /\ a + k - 1 = n /\ a + j - 1 = n - 1
        BY <2>3, <3>1, <4>1
      <4>3. n \in 0..n /\ (0..n) \ {n} = 0..(n - 1)
        BY <4>2
      <4> QED
        BY <4>1, <4>2, <4>3, Zenon
    <3>4. S(k) = fun[a + j] + SumFunctionOnSet(fun, (0..(a + k - 1)) \ {a + j})
      BY <1>2, <2>3, <3>3, SumOf
    <3>5. fun[a + j] = c
      <4>1. a + j \in a..(b - 1)
        BY <2>3, <3>1
      <4> QED
        BY <4>1
    <3>6. (j + 1) * c = j * c + c /\ j * c \in Nat
      <4>1. j \in Nat
        BY <3>1
      <4> QED
        BY <4>1
    <3>7. S(0) \in Nat
      BY <1>1, <1>3
    <3>8. S(k) = c + S(j)
      BY <3>3, <3>4, <3>5
    <3> HIDE DEF S
    <3>9. S(k) = S(0) + (j * c + c)
      BY <3>2, <3>6, <3>7, <3>8
    <3> QED
      BY <2>3, <3>1, <3>6, <3>9
  <2> QED
    BY <2>4, <2>5
<1>5. S(b - a) = S(0) + (b - a) * c
  <2> HIDE DEF S
  <2>1. b - a \in 0..(b - a)
    BY <1>1
  <2>2. \A k \in 0..(b - a) : S(k) = S(0) + k * c
    BY <1>4
  <2> QED
    BY <2>1, <2>2
<1>6. a + (b - a) - 1 = b - 1 /\ a + 0 - 1 = a - 1
  OBVIOUS
<1> QED
  BY <1>5, <1>6
-----------------------------------------------------------------------------
(* Tiers, as rates and as prices have them. *)
Tiered(T) ==
  \A t \in T : t.from \in 0..Unbounded - 1 /\ t.to \in 1..Unbounded /\ t.usd \in Nat

LEMMA TilesFinite ==
  ASSUME NEW T, Tiered(T), Tile(T)
  PROVE  IsFiniteSet(T)
<1> DEFINE f == [t \in T |-> t.from]
<1>1. f \in Injection(T, 0..Unbounded - 1)
  <2>1. f \in [T -> 0..Unbounded - 1]
    BY DEF Tiered
  <2>2. \A t, u \in T : f[t] = f[u] => t = u
    BY DEF Tile
  <2> HIDE DEF f
  <2> QED
    BY <2>1, <2>2 DEF Injection, IsInjective
<1> HIDE DEF f
<1> QED
  BY <1>1, StartsFinite, FS_Injection

(* A tier ends before the next one starts. *)
LEMMA TilesApart ==
  ASSUME NEW T, Tiered(T), Tile(T), NEW t \in T, NEW u \in T, t.from < u.from
  PROVE  t.to <= u.from
<1> DEFINE bad == {y \in 0..Unbounded - 1 :
                     \E v, w \in T : w.from = y /\ v.from < w.from /\ ~(v.to <= w.from)}
<1>1. bad = {}
  <2> SUFFICES ASSUME bad # {} PROVE FALSE
    OBVIOUS
  <2>1. bad \in SUBSET Nat
    BY DEF Unbounded
  <2> HIDE DEF bad
  <2>2. PICK y \in bad : \A z \in bad : y <= z
    BY <2>1, LeastOf
  <2>3. PICK v \in T, w \in T : w.from = y /\ v.from < w.from /\ ~(v.to <= w.from)
    BY <2>2 DEF bad
  <2>4. /\ v.from \in Nat /\ v.to \in Nat /\ w.from \in Nat /\ w.to \in Nat
        /\ v.from \in 0..Unbounded - 1
    BY DEF Tiered, Unbounded
  <2>5. w.from # 0
    BY <2>3, <2>4
  <2>6. PICK x \in T : x.to = w.from
    BY <2>5 DEF Tile
  <2>7. x.from < x.to /\ x.from \in Nat /\ x.to \in Nat /\ x.from \in 0..Unbounded - 1
    BY DEF Tile, Tiered, Unbounded
  <2>8. CASE x.from = v.from
    <3>1. x = v
      BY <2>8 DEF Tile
    <3> QED
      BY <2>3, <2>6, <3>1, <2>4
  <2>9. CASE v.from < x.from
    <3>1. x.from \notin bad
      BY <2>2, <2>3, <2>6, <2>7, <2>4
    <3>2. v.to <= x.from
      BY <2>7, <2>9, <3>1 DEF bad
    <3> QED
      BY <2>3, <2>4, <2>6, <2>7, <3>2
  <2>10. CASE x.from < v.from
    <3>1. v.from \notin bad
      BY <2>2, <2>3, <2>4
    <3>2. x.to <= v.from
      BY <2>4, <2>10, <3>1 DEF bad
    <3> QED
      BY <2>3, <2>4, <2>6, <2>7, <3>2
  <2> QED
    BY <2>4, <2>7, <2>8, <2>9, <2>10
<1> QED
  BY <1>1 DEF Tiered

(* Every unit below the open end is in one tier. *)
LEMMA TilesCover ==
  ASSUME NEW T, Tiered(T), Tile(T), NEW n \in 0..Unbounded - 1
  PROVE  /\ \E t \in T : t.from <= n /\ n < t.to
         /\ \A t, u \in T : t.from <= n /\ n < t.to /\ u.from <= n /\ n < u.to => t = u
<1> DEFINE below == {t.from : t \in {u \in T : u.from <= n}}
<1>1. below \in SUBSET (0..Unbounded - 1)
  BY DEF Tiered
<1>2. below # {}
  <2>1. PICK t \in T : t.from = 0
    BY DEF Tile
  <2>2. 0 <= n
    BY DEF Unbounded
  <2> QED
    BY <2>1, <2>2
<1> HIDE DEF below
<1>3. PICK y \in below : \A z \in below : ~(z > y)
  BY <1>1, <1>2, HighestStart
<1>4. PICK t \in T : t.from = y /\ t.from <= n
  BY <1>3 DEF below
<1>5. n < t.to
  <2> SUFFICES ASSUME ~(n < t.to) PROVE FALSE
    OBVIOUS
  <2>1. t.to \in Nat /\ t.from \in Nat /\ n \in Nat /\ n < Unbounded /\ Unbounded \in Nat
    BY DEF Tiered, Unbounded
  <2>2. t.to # Unbounded /\ t.from < t.to
    BY <2>1 DEF Tile
  <2>3. PICK u \in T : u.from = t.to
    BY <2>2 DEF Tile
  <2>4. u.from \in below
    BY <2>1, <2>3 DEF below
  <2> QED
    BY <1>3, <1>4, <2>1, <2>2, <2>3, <2>4
<1>6. ASSUME NEW v \in T, NEW w \in T, v.from <= n, n < v.to, w.from <= n, n < w.to
      PROVE  v = w
  <2>1. /\ v.from \in Nat /\ v.to \in Nat /\ w.from \in Nat /\ w.to \in Nat /\ n \in Nat
    BY DEF Tiered, Unbounded
  <2>2. ~(v.from < w.from)
    BY <1>6, <2>1, TilesApart
  <2>3. ~(w.from < v.from)
    BY <1>6, <2>1, TilesApart
  <2>4. v.from = w.from
    BY <2>1, <2>2, <2>3
  <2> QED
    BY <2>4 DEF Tile
<1> QED
  BY <1>4, <1>5, <1>6

(* What a unit costs, by tiers T. *)
PriceAt(T, u) == (CHOOSE t \in T : t.from <= u /\ u < t.to).usd
Prices(T, n) == [u \in 0..(n - 1) |-> PriceAt(T, u)]

LEMMA PriceIs ==
  ASSUME NEW T, Tiered(T), Tile(T), NEW t \in T, NEW u \in 0..Unbounded - 1, t.from <= u, u < t.to
  PROVE  PriceAt(T, u) = t.usd
BY TilesCover DEF PriceAt

LEMMA PricesNat ==
  ASSUME NEW T, Tiered(T), Tile(T), NEW n \in 0..Unbounded
  PROVE  \A u \in 0..(n - 1) : Prices(T, n)[u] \in Nat /\ Prices(T, n)[u] = PriceAt(T, u)
<1> TAKE u \in 0..(n - 1)
<1>1. u \in 0..Unbounded - 1
  BY DEF Unbounded
<1>2. PICK t \in T : t.from <= u /\ u < t.to
  BY <1>1, TilesCover
<1> QED
  BY <1>1, <1>2, PriceIs DEF Prices, Tiered
-----------------------------------------------------------------------------
(* The walk. *)
Sum == [left : Nat, usd : Nat]
Top(s) == CHOOSE t \in s : \A u \in s : u.from <= t.from

Walked(T, n) == CHOOSE iter :
  iter = [s \in SUBSET T |-> IF s = {} THEN [left |-> n, usd |-> 0]
                             ELSE Take(iter[s \ {Top(s)}], Top(s))]

(* f is what the walk has come to after the tiers of each subset. *)
Walks(f, T, n) ==
  \A s \in SUBSET T : f[s] = IF s = {} THEN [left |-> n, usd |-> 0]
                             ELSE Take(f[s \ {Top(s)}], Top(s))

LEMMA TopIs ==
  ASSUME NEW T, Tiered(T), NEW s \in SUBSET T, IsFiniteSet(s), s # {}
  PROVE  Top(s) \in s /\ \A u \in s : u.from <= Top(s).from
<1> DEFINE starts == {t.from : t \in s}
<1>1. starts \in SUBSET (0..Unbounded - 1) /\ starts # {}
  BY DEF Tiered
<1> HIDE DEF starts
<1>2. PICK y \in starts : \A z \in starts : ~(z > y)
  BY <1>1, HighestStart
<1>3. \A z \in starts : z <= y
  BY <1>1, <1>2 DEF Unbounded
<1>4. \E t \in s : \A u \in s : u.from <= t.from
  BY <1>3 DEF starts
<1> QED
  BY <1>4 DEF Top

LEMMA LeastOfTwo ==
  ASSUME NEW a \in Nat, NEW b \in Nat
  PROVE  Min({a, b}) = IF a <= b THEN a ELSE b
<1>1. \E x \in {a, b} : \A y \in {a, b} : x <= y
  OBVIOUS
<1>2. Min({a, b}) \in {a, b} /\ \A y \in {a, b} : Min({a, b}) <= y
  BY <1>1 DEF Min
<1> QED
  BY <1>2

(* A tier takes what is left, as far as it reaches. *)
LEMMA Taking ==
  ASSUME NEW sum \in Sum, NEW T, Tiered(T), Tile(T), NEW t \in T, sum.left < Unbounded
  PROVE  \E used \in Nat :
           /\ used <= sum.left
           /\ Take(sum, t) = [left |-> sum.left - used, usd |-> sum.usd + used * t.usd]
           /\ Take(sum, t) \in Sum
           /\ used = IF t.to = Unbounded \/ sum.left <= t.to - t.from THEN sum.left
                     ELSE t.to - t.from
<1> DEFINE used == IF t.to = Unbounded THEN sum.left ELSE Min({sum.left, t.to - t.from})
<1>1. /\ t.from \in Nat /\ t.to \in Nat /\ t.usd \in Nat /\ t.from < t.to
      /\ sum.left \in Nat /\ sum.usd \in Nat
  BY DEF Tiered, Tile, Sum, Unbounded
<1>2. t.to - t.from \in Nat
  BY <1>1
<1>3. /\ used \in Nat /\ used <= sum.left
      /\ used = IF t.to = Unbounded \/ sum.left <= t.to - t.from THEN sum.left
                ELSE t.to - t.from
  BY <1>1, <1>2, LeastOfTwo
<1>4. Take(sum, t) = [left |-> sum.left - used, usd |-> sum.usd + used * t.usd]
  BY DEF Take
<1> HIDE DEF used
<1>5. used * t.usd \in Nat
  BY <1>1, <1>3
<1>6. Take(sum, t) \in Sum
  BY <1>1, <1>3, <1>4, <1>5 DEF Sum
<1> QED
  BY <1>3, <1>4, <1>6

LEMMA WalkUnfolds ==
  ASSUME NEW T, Tiered(T), Tile(T), NEW n \in 0..Unbounded - 1
  PROVE  /\ WalkTiers(T, n) = Walked(T, n)[T].usd
         /\ Walks(Walked(T, n), T, n)
<1>1. WalkTiers(T, n) = Walked(T, n)[T].usd
  BY DEF WalkTiers, MapThenFoldSet, Walked, Top
<1> DEFINE V == {sum \in Sum : sum.left < Unbounded}
           c == [s \in SUBSET T |-> Top(s)]
           step == [x \in T \X V |-> Take(x[2], x[1])]
           base == [left |-> n, usd |-> 0]
<1>2. IsFiniteSet(T) /\ \A s \in SUBSET T : IsFiniteSet(s)
  BY TilesFinite, FS_Subset
<1>3. Takes(c, T) /\ \A s \in SUBSET T : c[s] = Top(s) /\ (s # {} => Top(s) \in s)
  BY <1>2, TopIs DEF Takes
<1>4. \A t \in T : \A sum \in V : Take(sum, t) \in V /\ step[<<t, sum>>] = Take(sum, t)
  <2> TAKE t \in T
  <2> TAKE sum \in V
  <2>1. sum \in Sum /\ sum.left < Unbounded
    OBVIOUS
  <2>2. PICK used \in Nat :
           /\ used <= sum.left
           /\ Take(sum, t) = [left |-> sum.left - used, usd |-> sum.usd + used * t.usd]
           /\ Take(sum, t) \in Sum
    BY <2>1, Taking
  <2>3. Take(sum, t).left < Unbounded
    BY <2>1, <2>2 DEF Sum, Unbounded
  <2> QED
    BY <2>2, <2>3
<1>5. step \in [T \X V -> V]
  BY <1>4
<1>6. base \in V
  BY DEF Sum, Unbounded
<1> HIDE DEF c, step, base, V
<1>7. PICK f \in [SUBSET T -> V] : Recurs(f, T, base, c, step)
  BY <1>2, <1>3, <1>5, <1>6, Recursion
<1>8. Walks(f, T, n)
  <2> SUFFICES ASSUME NEW s \in SUBSET T
               PROVE  f[s] = IF s = {} THEN base ELSE Take(f[s \ {Top(s)}], Top(s))
    BY DEF Walks, base
  <2>1. f[s] = IF s = {} THEN base ELSE step[<<c[s], f[s \ {c[s]}]>>]
    BY <1>7 DEF Recurs
  <2>2. CASE s # {}
    <3>1. Top(s) \in T /\ c[s] = Top(s) /\ s \ {Top(s)} \in SUBSET T
      BY <1>3, <2>2
    <3>2. f[s \ {Top(s)}] \in V
      BY <3>1
    <3> QED
      BY <1>4, <2>1, <2>2, <3>1, <3>2
  <2> QED
    BY <2>1, <2>2
<1>9. f = [s \in SUBSET T |-> IF s = {} THEN [left |-> n, usd |-> 0]
                              ELSE Take(f[s \ {Top(s)}], Top(s))]
  BY <1>8 DEF Walks
<1>10. Walked(T, n) = [s \in SUBSET T |-> IF s = {} THEN [left |-> n, usd |-> 0]
                              ELSE Take(Walked(T, n)[s \ {Top(s)}], Top(s))]
  BY <1>9 DEF Walked
<1> DEFINE g == Walked(T, n)
<1> HIDE DEF g
<1>11. g = [s \in SUBSET T |-> IF s = {} THEN [left |-> n, usd |-> 0]
                               ELSE Take(g[s \ {Top(s)}], Top(s))]
  BY <1>10 DEF g
<1>12. Walks(g, T, n)
  BY <1>11 DEF Walks
<1> QED
  BY <1>1, <1>12 DEF g

(* The tiers that start before b. *)
Under(T, b) == {t \in T : t.from < b}
Least(a, b) == IF a <= b THEN a ELSE b

(* What the walk has come to at the end b of a tier: the units below b are    *)
(* charged, those above are left.                                            *)
ChargedTo(T, n, b) ==
  Walked(T, n)[Under(T, b)] =
    [left |-> n - Least(n, b), usd |-> SumFunctionOnSet(Prices(T, n), 0..(Least(n, b) - 1))]

(* One tier more. *)
LEMMA WalkGoesOn ==
  ASSUME NEW T, Tiered(T), Tile(T), NEW n \in 0..Unbounded - 1, NEW t \in T,
         ChargedTo(T, n, t.from)
  PROVE  ChargedTo(T, n, t.to)
<1> DEFINE a == t.from
           b == t.to
           P == Prices(T, n)
           f == Walked(T, n)
           S(k) == SumFunctionOnSet(P, 0..(k - 1))
<1>1. /\ a \in Nat /\ b \in Nat /\ a < b /\ b <= Unbounded /\ t.usd \in Nat /\ n \in Nat
      /\ n < Unbounded /\ Unbounded \in Nat
  BY DEF Tiered, Tile, Unbounded
<1>2. \A u \in T : u.from \in Nat /\ u.to \in Nat /\ u.from < u.to
  BY DEF Tiered, Tile, Unbounded
<1>3. t \in Under(T, b) /\ Under(T, b) \in SUBSET T
  BY <1>1 DEF Under
<1>4. IsFiniteSet(Under(T, b))
  BY <1>3, TilesFinite, FS_Subset
<1>5. Top(Under(T, b)) = t
  <2> DEFINE u == Top(Under(T, b))
  <2>1. u \in Under(T, b) /\ \A w \in Under(T, b) : w.from <= u.from
    BY <1>3, <1>4, TopIs
  <2> HIDE DEF u
  <2>2. u \in T /\ u.from < b /\ t.from <= u.from
    BY <1>3, <2>1 DEF Under
  <2>3. ~(t.from < u.from)
    BY <1>1, <1>2, <2>2, TilesApart
  <2>4. u.from = t.from
    BY <1>1, <1>2, <2>2, <2>3
  <2>5. u = t
    BY <2>2, <2>4 DEF Tile
  <2> QED
    BY <2>5 DEF u
<1>6. Under(T, b) \ {t} = Under(T, a)
  <2>1. ASSUME NEW u \in T, u.from < b, u # t
        PROVE  u.from < a
    <3>1. ~(t.from < u.from)
      BY <1>1, <1>2, <2>1, TilesApart
    <3>2. u.from # t.from
      BY <2>1 DEF Tile
    <3> QED
      BY <1>1, <1>2, <3>1, <3>2
  <2>2. \A u \in T : u.from < a => u.from < b /\ u # t
    BY <1>1, <1>2
  <2> QED
    BY <2>1, <2>2 DEF Under
<1>7. f[Under(T, b)] = Take(f[Under(T, a)], t)
  <2>1. Walks(f, T, n)
    BY WalkUnfolds
  <2> HIDE DEF f
  <2> QED
    BY <1>3, <1>5, <1>6, <2>1 DEF Walks
<1> DEFINE sum == f[Under(T, a)]
<1>8. sum = [left |-> n - Least(n, a), usd |-> S(Least(n, a))]
  BY DEF ChargedTo
<1>9. \A u \in 0..(n - 1) : P[u] \in Nat /\ P[u] = PriceAt(T, u)
  BY <1>1, PricesNat
<1>10. \A k \in 0..n : S(k) \in Nat
  <2> TAKE k \in 0..n
  <2>1. IsFiniteSet(0..(k - 1)) /\ \A u \in 0..(k - 1) : P[u] \in Nat
    <3>1. k - 1 \in Int /\ 0 \in Int
      OBVIOUS
    <3>2. IsFiniteSet(0..(k - 1))
      BY <3>1, FS_Interval
    <3> QED
      BY <1>9, <3>2
  <2> HIDE DEF P
  <2> QED
    BY <2>1, SumOf
<1>11. \A u \in 0..(n - 1) : a <= u /\ u < b => P[u] = t.usd
  <2> TAKE u \in 0..(n - 1)
  <2>1. u \in 0..Unbounded - 1 /\ P[u] = PriceAt(T, u)
    BY <1>1, <1>9
  <2> QED
    BY <2>1, PriceIs
<1> HIDE DEF a, b, P, f, S, sum
<1>12. Least(n, a) \in 0..n /\ Least(n, b) \in 0..n /\ Least(n, a) <= Least(n, b)
  BY <1>1 DEF Least
<1>13. S(Least(n, b)) = S(Least(n, a)) + (Least(n, b) - Least(n, a)) * t.usd
  <2> DEFINE x == Least(n, a)
             y == Least(n, b)
             c == t.usd
  <2>1. x \in Nat /\ y \in Nat /\ x <= y /\ c \in Nat
    BY <1>1, <1>12
  <2>2. \A u \in 0..(y - 1) : P[u] \in Nat
    BY <1>1, <1>9, <1>12
  <2>3. \A u \in x..(y - 1) : P[u] = c
    BY <1>1, <1>11, <1>12 DEF Least
  <2> HIDE DEF x, y, c
  <2>4. SumFunctionOnSet(P, 0..(y - 1)) = SumFunctionOnSet(P, 0..(x - 1)) + (y - x) * c
    BY <2>1, <2>2, <2>3, SumFlat
  <2> QED
    BY <2>4 DEF S, x, y, c
<1>14. sum \in Sum /\ sum.left < Unbounded
  BY <1>1, <1>8, <1>10, <1>12 DEF Sum
<1>15. PICK used \in Nat :
         /\ used <= sum.left
         /\ Take(sum, t) = [left |-> sum.left - used, usd |-> sum.usd + used * t.usd]
         /\ used = IF b = Unbounded \/ sum.left <= b - a THEN sum.left ELSE b - a
  BY <1>14, Taking DEF a, b
<1>16. used = Least(n, b) - Least(n, a)
  BY <1>1, <1>8, <1>15 DEF Least
<1>17. Take(sum, t) = [left |-> n - Least(n, b), usd |-> S(Least(n, b))]
  <2>1. sum.left = n - Least(n, a) /\ sum.usd = S(Least(n, a))
    BY <1>8
  <2>2. sum.left - used = n - Least(n, b)
    BY <1>1, <1>12, <1>16, <2>1
  <2>3. sum.usd + used * t.usd = S(Least(n, b))
    BY <1>13, <1>16, <2>1
  <2> QED
    BY <1>15, <2>2, <2>3
<1>18. f[Under(T, b)] = [left |-> n - Least(n, b), usd |-> S(Least(n, b))]
  BY <1>7, <1>17 DEF sum
<1> QED
  BY <1>18 DEF ChargedTo, f, S, P, b

(* The walk charges every unit at the price of the tier it falls into. *)
LEMMA WalkCharges ==
  ASSUME NEW T, Tiered(T), Tile(T), NEW n \in 0..Unbounded - 1
  PROVE  WalkTiers(T, n) = SumFunction(Prices(T, n))
<1> DEFINE Ends == {t.to : t \in T} \union {0}
           bad == {b \in Ends : ~ChargedTo(T, n, b)}
<1>1. \A t \in T : t.from \in Nat /\ t.to \in Nat /\ t.from < t.to /\ t.to \in 1..Unbounded
  BY DEF Tiered, Tile, Unbounded
<1>2. ChargedTo(T, n, 0)
  <2>1. Under(T, 0) = {} /\ Least(n, 0) = 0 /\ n \in Nat
    BY <1>1 DEF Under, Least
  <2>2. Walks(Walked(T, n), T, n)
    BY WalkUnfolds
  <2>3. Walked(T, n)[{}] = [left |-> n, usd |-> 0]
    BY <2>2 DEF Walks
  <2>4. SumFunctionOnSet(Prices(T, n), {}) = 0
    <3>1. IsFiniteSet({}) /\ \A x \in {} : Prices(T, n)[x] \in Nat
      BY FS_EmptySet
    <3> QED
      BY <3>1, SumOf
  <2>5. 0..(0 - 1) = {} /\ n - 0 = n
    BY <2>1
  <2> QED
    BY <2>1, <2>3, <2>4, <2>5 DEF ChargedTo
<1>3. bad = {}
  <2> SUFFICES ASSUME bad # {} PROVE FALSE
    OBVIOUS
  <2>1. bad \in SUBSET Nat
    BY <1>1
  <2> HIDE DEF bad
  <2>2. PICK b \in bad : \A c \in bad : b <= c
    BY <2>1, LeastOf
  <2>3. b # 0
    BY <1>2, <2>2 DEF bad
  <2>4. PICK t \in T : t.to = b
    BY <2>2, <2>3 DEF bad
  <2>5. t.from \in Ends
    BY DEF Tile
  <2>6. t.from \notin bad
    BY <1>1, <2>2, <2>4
  <2>7. ChargedTo(T, n, t.from)
    BY <2>5, <2>6 DEF bad
  <2>8. ChargedTo(T, n, t.to)
    BY <2>7, WalkGoesOn
  <2> QED
    BY <2>2, <2>4, <2>8 DEF bad
<1>4. \E t \in T : t.to = Unbounded
  <2>1. Unbounded - 1 \in 0..Unbounded - 1
    BY DEF Unbounded
  <2>2. PICK t \in T : t.from <= Unbounded - 1 /\ Unbounded - 1 < t.to
    BY <2>1, TilesCover
  <2> QED
    BY <1>1, <2>2 DEF Unbounded
<1>5. ChargedTo(T, n, Unbounded)
  BY <1>3, <1>4
<1>6. Under(T, Unbounded) = T /\ Least(n, Unbounded) = n
  BY DEF Under, Least, Tiered, Unbounded
<1>7. WalkTiers(T, n) = SumFunctionOnSet(Prices(T, n), 0..(n - 1))
  <2>1. Walked(T, n)[T].usd = SumFunctionOnSet(Prices(T, n), 0..(n - 1))
    BY <1>5, <1>6 DEF ChargedTo
  <2> QED
    BY <2>1, WalkUnfolds
<1>8. DOMAIN Prices(T, n) = 0..(n - 1)
  BY DEF Prices
<1> QED
  BY <1>7, <1>8 DEF SumFunction

(* Nothing is charged where there are no tiers. *)
LEMMA NothingToWalk ==
  ASSUME NEW n
  PROVE  WalkTiers({}, n) = 0
<1> DEFINE base == [left |-> n, usd |-> 0]
           W(g) == [s \in SUBSET {} |-> IF s = {} THEN base ELSE Take(g[s \ {Top(s)}], Top(s))]
<1>1. WalkTiers({}, n) = Walked({}, n)[{}].usd
  BY DEF WalkTiers, MapThenFoldSet, Walked, Top
<1>2. SUBSET {} = {{}}
  OBVIOUS
<1>3. \A g : W(g) = [s \in {{}} |-> base]
  BY <1>2
<1>4. \E g : g = W(g)
  BY <1>3
<1>5. Walked({}, n) = W(Walked({}, n))
  <2>1. Walked({}, n) = CHOOSE g : g = W(g)
    BY DEF Walked
  <2> HIDE DEF W
  <2> QED
    BY <1>4, <2>1
<1>6. Walked({}, n)[{}] = base
  BY <1>3, <1>5
<1> QED
  BY <1>1, <1>6
-----------------------------------------------------------------------------
LEMMA Kinds ==
  /\ \A s \in DOMAIN KindOf : KindOf[s] \in {"queue", "gateway", "dns", "cdn"}
  /\ "aws_cloudfront" \in DOMAIN KindOf => KindOf["aws_cloudfront"] = "cdn"
<1>1. DOMAIN Sources = {"queue", "gateway", "dns", "cdn"}
  BY DEF Sources
<1>2. \A s \in DOMAIN KindOf : \E k \in DOMAIN Sources : s \in Sources[k]
  BY DEF KindOf, Range
<1>3. \A s \in DOMAIN KindOf : KindOf[s] \in DOMAIN Sources /\ s \in Sources[KindOf[s]]
  BY <1>2 DEF KindOf
<1>4. /\ "aws_cloudfront" \notin Sources["queue"] /\ "aws_cloudfront" \notin Sources["gateway"]
      /\ "aws_cloudfront" \notin Sources["dns"]
  BY DEF Sources
<1> QED
  BY <1>1, <1>3, <1>4
-----------------------------------------------------------------------------
(* A shard that estimates are made from, and its policy. *)
Asked ==
  /\ IInv /\ phase = "written" /\ feed.src \in DOMAIN KindOf /\ How.rate # "top"
  /\ Unambiguous(How, feed.doc)
  /\ How.ladder = <<>> => \A i \in feed.doc : Taken(How, i) => Foreseen(feed.src, How, i)

LEMMA PolicyPlain ==
  ASSUME Asked
  PROVE  /\ AllKept /\ rows = RowsOf(How, acc) /\ ~Malformed(How, acc)
         /\ feed.src \in Estimated
         /\ How.rate \in {"head", "stated", "chain", "zip", "open"}
         /\ How.spread = {} /\ How.default = <<>> /\ How.free = {} /\ How.summed = {}
         /\ How.ladder # <<>> => How.rate \in {"head", "open"}
         /\ BoundsRise(How)
         /\ \A x \in Priced(How) : IsPair(x)
         /\ How.ladder = <<>> => DocTiles
<1>1. rows = RowsOf(How, acc) /\ todo = {} /\ phase # "raised" /\ ~Malformed(How, acc)
  BY DEF Asked, IInv, RowsMade, Written
<1>2. AllKept
  BY <1>1 DEF AllKept, Asked
<1>3. feed.src \in Estimated
  BY DEF Asked, IInv, TypeOK, Estimated
<1>4. /\ How.rate \in {"head", "top", "stated", "chain", "zip", "open"}
      /\ How.spread = {} /\ How.default = <<>> /\ How.free = {} /\ How.summed = {}
  BY <1>3, EstimatedPlain, Zenon DEF How
<1>5. How.rate \in {"head", "stated", "chain", "zip", "open"}
  BY <1>4 DEF Asked
<1>6. feed.src \in DOMAIN Policy
  BY <1>3 DEF Estimated
<1>7. /\ How.ladder # <<>> => How.rate \in {"head", "open"}
      /\ \A d \in DOMAIN How.bounds : LET b == How.bounds[d] IN
           /\ b \in Seq(0..Unbounded - 1) /\ b # <<>> /\ b[1] = 0
           /\ \A k, l \in DOMAIN b : k < l => b[k] < b[l]
  BY <1>6, TiersPlain, Zenon DEF How
<1>8. BoundsRise(How)
  BY <1>7 DEF BoundsRise
<1>9. \A x \in Priced(How) : IsPair(x)
  BY <1>2, PolicyGiven DEF AllKept
<1>10. How.ladder = <<>> => DocTiles
  BY <1>5 DEF Asked, DocTiles, Foreseen
<1> QED
  BY <1>1, <1>2, <1>3, <1>4, <1>5, <1>7, <1>8, <1>9, <1>10

(* A row of it is of the prices its items gave it. *)
LEMMA RowOf ==
  ASSUME Asked, NEW r \in rows
  PROVE  \E row \in Opened(How, acc) :
           /\ r.name = row.name /\ r.region = row.region
           /\ Parts(How, acc, row) = OwnParts(How, acc, row)
           /\ Parts(How, acc, row) # {} /\ \A p \in Parts(How, acc, row) : p.to # 0
           /\ r.prices = {Published(How, p) : p \in Parts(How, acc, row)}
<1>1. /\ rows = RowsOf(How, acc) /\ ~Malformed(How, acc)
      /\ How.spread = {} /\ How.default = <<>> /\ How.summed = {}
  BY PolicyPlain
<1>2. PICK row \in Opened(How, acc) :
           /\ Whole(How, row, Parts(How, acc, row))
           /\ r.name = row.name /\ r.region = row.region
           /\ r.prices = PriceList(How, row, Parts(How, acc, row))
  BY <1>1, RowsAre
<1>3. r.prices = {Published(How, p) : p \in Parts(How, acc, row)}
  BY <1>1, <1>2, PricesAre
<1>4. WideParts(How, acc, row) = {} /\ Lacking(How, acc, row) = {}
  BY <1>1 DEF WideParts, Lacking
<1>5. Parts(How, acc, row) = OwnParts(How, acc, row)
  BY <1>4, PartsAre
<1>6. Parts(How, acc, row) # {} /\ \A p \in Parts(How, acc, row) : p.to # 0
  BY <1>1, <1>2 DEF Malformed, Whole
<1> QED
  BY <1>2, <1>3, <1>5, <1>6
-----------------------------------------------------------------------------
(* The tiers of a row are tiers. *)
LEMMA RungsTyped ==
  ASSUME NEW way, NEW ps, Rungable(ps), ps # {}
  PROVE  Tiered(Rungs(way, ps))
<1> SUFFICES ASSUME NEW p \in Rungs(way, ps)
             PROVE  p.from \in 0..Unbounded - 1 /\ p.to \in 1..Unbounded /\ p.usd \in Nat
  BY DEF Tiered
<1>1. p.usd \in Nat
  <2>1. \A q \in ps : IsPrice(q)
    BY DEF Rungable
  <2>2. PICK q \in ps : Like(p, q)
    BY <2>1, RungsKeep
  <2> QED
    BY <2>2 DEF Like, Rungable
<1>2. p.from < p.to
  <2>1. Tile(Rungs(way, ps))
    BY RungsTile
  <2> QED
    BY <2>1 DEF Tile
<1> DEFINE N == Cardinality(ps)
           rank(q) == Cardinality(Dearer(ps, q))
           place(q) == Cardinality(Earlier(ps, q))
<1>3. N \in Nat /\ (\A q \in ps : rank(q) \in 0..N - 1) /\ (\A q \in ps : place(q) \in 0..N - 1)
  BY DearerRanks, EarlierRanks
<1>4. \A q \in ps : IsPrice(q)
  BY DEF Rungable
<1>5. p.from \in Nat /\ p.to \in Nat /\ p.to <= Unbounded
  <2>1. CASE way = "steps"
    <3> DEFINE all == Min({N, Tokens})
    <3>1. PICK q \in ps :
            /\ place(q) < Tokens
            /\ p = [q EXCEPT !.from = place(q),
                             !.to = IF place(q) + 1 = all THEN Unbounded ELSE place(q) + 1]
      BY <2>1 DEF Rungs, Earlier
    <3> HIDE DEF place, all
    <3>2. p.from = place(q) /\ p.to = IF place(q) + 1 = all THEN Unbounded ELSE place(q) + 1
      BY <1>4, <3>1, Bounded
    <3>3. place(q) \in Nat
      BY <1>3
    <3> QED
      BY <3>1, <3>2, <3>3 DEF Tokens, Unbounded
  <2>2. CASE way = "lowest"
    <3>1. PICK q \in ps : p = [q EXCEPT !.from = 0, !.to = Unbounded]
      BY <2>2 DEF Rungs
    <3>2. p.from = 0 /\ p.to = Unbounded
      BY <1>4, <3>1, Bounded
    <3> QED
      BY <3>2 DEF Unbounded
  <2>3. CASE way \notin {"steps", "lowest"}
    <3>1. ~(way = "falling" /\ Cardinality(ps) # 3)
      BY <2>3 DEF Rungs
    <3> DEFINE paid == {q \in ps : way = "falling" \/ Dearer(ps, q) = {}}
               all == Cardinality(paid)
    <3>2. Rungs(way, ps) =
            {[q EXCEPT !.from = 0, !.to = 1, !.usd = 0] : q \in {x \in ps : Dearer(ps, x) = {}}}
            \union {[q EXCEPT !.from = 1 + rank(q),
                             !.to = IF rank(q) + 1 = all THEN Unbounded ELSE 2 + rank(q)] : q \in paid}
      BY <2>3, <3>1 DEF Rungs, Dearer
    <3>3. \A q \in paid : q \in ps /\ rank(q) \in 0..2
      <4>1. CASE way = "falling"
        BY <1>3, <3>1, <4>1
      <4>2. CASE way # "falling"
        BY <4>2, FS_EmptySet
      <4> QED
        BY <4>1, <4>2
    <3> HIDE DEF rank, all
    <3>4. \/ \E q \in ps : p = [q EXCEPT !.from = 0, !.to = 1, !.usd = 0]
          \/ \E q \in paid : p = [q EXCEPT !.from = 1 + rank(q),
                !.to = IF rank(q) + 1 = all THEN Unbounded ELSE 2 + rank(q)]
      BY <3>2
    <3>5. CASE \E q \in ps : p = [q EXCEPT !.from = 0, !.to = 1, !.usd = 0]
      <4>1. PICK q \in ps : p = [q EXCEPT !.from = 0, !.to = 1, !.usd = 0]
        BY <3>5
      <4>2. p.from = 0 /\ p.to = 1
        BY <1>4, <4>1, Bounded
      <4> QED
        BY <4>2 DEF Unbounded
    <3>6. CASE \E q \in paid : p = [q EXCEPT !.from = 1 + rank(q),
                !.to = IF rank(q) + 1 = all THEN Unbounded ELSE 2 + rank(q)]
      <4>1. PICK q \in paid : p = [q EXCEPT !.from = 1 + rank(q),
                !.to = IF rank(q) + 1 = all THEN Unbounded ELSE 2 + rank(q)]
        BY <3>6
      <4> HIDE DEF paid
      <4>2. p.from = 1 + rank(q) /\ p.to = IF rank(q) + 1 = all THEN Unbounded ELSE 2 + rank(q)
        BY <1>4, <3>3, <4>1, Bounded
      <4> QED
        BY <3>3, <4>2 DEF Unbounded
    <3> QED
      BY <3>4, <3>5, <3>6
  <2> QED
    BY <2>1, <2>2, <2>3
<1> QED
  BY <1>1, <1>2, <1>5 DEF Unbounded
-----------------------------------------------------------------------------
(* The tiers of an item, and the rates it lists. *)
LEMMA RatesTiered ==
  ASSUME NEW i, Item(i)
  PROVE  Tiered(Range(i.rates))
BY RatesAre DEF Tiered, Rate

(* A tier that follows others ends where the next one starts. *)
LEMMA NextStart ==
  ASSUME NEW i, Item(i), Tile(Range(i.rates)), NEW t \in Range(i.rates)
  PROVE  Following(StartsOf(i), t.from) = t.to
<1> DEFINE S == StartsOf(i)
           R == Range(i.rates)
           f == Following(S, t.from)
<1>1. Tiered(R) /\ S \in SUBSET (0..Unbounded - 1)
  BY RatesTiered, StartsAre
<1>2. \A u \in R : /\ u.from \in Nat /\ u.to \in Nat /\ u.from < u.to
                   /\ u.from < Unbounded /\ u.to <= Unbounded
  BY <1>1 DEF Tiered, Tile, Unbounded
<1>3. \/ f = Unbounded /\ \A c \in S : ~(c > t.from)
      \/ f \in S /\ f > t.from /\ \A c \in S : c > t.from => f <= c
  BY <1>1, FollowingIs
<1>4. \A u \in R : u.from \in S
  BY DEF StartsOf
<1>5. CASE t.to = Unbounded
  <2>1. ASSUME f \in S, f > t.from PROVE FALSE
    <3>1. PICK u \in R : u.from = f
      BY <2>1 DEF StartsOf
    <3>2. t.to <= u.from
      <4> HIDE DEF f, R
      <4>1. t \in R
        BY DEF R
      <4> QED
        BY <1>1, <1>2, <2>1, <3>1, <4>1, TilesApart DEF R
    <3> QED
      BY <1>2, <1>5, <3>2 DEF Unbounded
  <2> QED
    BY <1>3, <1>5, <2>1
<1>6. CASE t.to # Unbounded
  <2>1. PICK u \in R : u.from = t.to
    BY <1>6 DEF Tile
  <2>2. u.from \in S /\ u.from > t.from
    BY <1>2, <1>4, <2>1
  <2>3. f \in S /\ f > t.from /\ f <= t.to
    BY <1>3, <2>1, <2>2
  <2>4. PICK v \in R : v.from = f
    BY <2>3 DEF StartsOf
  <2>5. t.to <= v.from
    <3> HIDE DEF f, R
    <3>1. t \in R
      BY DEF R
    <3> QED
      BY <1>1, <1>2, <2>3, <2>4, <3>1, TilesApart DEF R
  <2>6. f \in Nat /\ t.to \in Nat
    BY <1>1, <1>2, <2>3
  <2> QED
    BY <2>3, <2>4, <2>5, <2>6
<1> QED
  BY <1>5, <1>6

(* Bounds that are the starts of the rates stand in their order. *)
LEMMA BoundsRanked ==
  ASSUME NEW b, b \in Seq(0..Unbounded - 1), \A k, l \in DOMAIN b : k < l => b[k] < b[l],
         NEW k \in DOMAIN b
  PROVE  UpTo(Range(b), b[k]) = k
<1> DEFINE S == Range(b)
           g(m) == UpTo(S, b[m])
           bad == {m \in DOMAIN b : g(m) # m}
<1>1. DOMAIN b = 1..Len(b) /\ Len(b) \in Nat
  OBVIOUS
<1>2. \A m \in DOMAIN b : b[m] \in 0..Unbounded - 1 /\ b[m] \in S
  <2>1. \A m \in DOMAIN b : b[m] \in 0..Unbounded - 1
    <3> DEFINE starts == 0..Unbounded - 1
    <3>1. b \in Seq(starts)
      OBVIOUS
    <3> HIDE DEF starts
    <3>2. \A m \in DOMAIN b : b[m] \in starts
      BY <1>1, <3>1
    <3> QED
      BY <3>2 DEF starts
  <2>2. \A m \in DOMAIN b : b[m] \in Range(b)
    BY DEF Range
  <2> QED
    BY <2>1, <2>2
<1>3. S \in SUBSET (0..Unbounded - 1) /\ \A x \in S : \E m \in DOMAIN b : x = b[m]
  BY <1>2 DEF Range
<1>4. S \in SUBSET Nat /\ IsFiniteSet(S)
  BY <1>3, StartsFinite, FS_Subset DEF Unbounded
<1>5. /\ Cardinality(S) \in Nat
      /\ \A x \in S : UpTo(S, x) \in 1..Cardinality(S)
      /\ \A x, y \in S : x < y => UpTo(S, x) < UpTo(S, y)
      /\ \A n \in 1..Cardinality(S) : \E x \in S : UpTo(S, x) = n
  <2> HIDE DEF S
  <2> QED
    BY <1>4, Places1
<1> HIDE DEF S
<1>6. \A m \in DOMAIN b : g(m) \in 1..Cardinality(S)
  BY <1>2, <1>5
<1>7. \A m, n \in DOMAIN b : m < n => g(m) < g(n)
  BY <1>2, <1>5
<1>8. \A n \in 1..Cardinality(S) : \E m \in DOMAIN b : g(m) = n
  BY <1>3, <1>5
<1> HIDE DEF g
<1>9. bad = {}
  <2> SUFFICES ASSUME bad # {} PROVE FALSE
    OBVIOUS
  <2>1. bad \in SUBSET Nat
    BY <1>1
  <2> HIDE DEF bad
  <2>2. PICK m \in bad : \A n \in bad : m <= n
    BY <2>1, LeastOf
  <2>3. m \in DOMAIN b /\ g(m) # m /\ m \in Nat /\ m >= 1 /\ g(m) \in 1..Cardinality(S)
    BY <1>1, <1>6, <2>1 DEF bad
  <2>4. g(m) >= m
    <3>1. CASE m = 1
      BY <2>3, <3>1
    <3>2. CASE m # 1
      <4>1. m - 1 \in DOMAIN b /\ m - 1 < m /\ ~(m <= m - 1)
        BY <1>1, <2>3, <3>2
      <4>2. g(m - 1) = m - 1
        BY <2>2, <4>1 DEF bad
      <4>3. g(m - 1) < g(m)
        BY <1>7, <2>3, <4>1
      <4> QED
        BY <2>3, <4>2, <4>3
    <3> QED
      BY <3>1, <3>2
  <2>5. m < g(m) /\ m \in 1..Cardinality(S)
    BY <1>5, <2>3, <2>4
  <2>6. PICK n \in DOMAIN b : g(n) = m
    BY <1>8, <2>5
  <2>7. n < m
    <3>1. n \in Nat /\ (m < n => g(m) < g(n)) /\ n # m
      BY <1>1, <1>7, <2>3, <2>6
    <3> QED
      BY <2>3, <2>5, <2>6, <3>1
  <2>8. n \notin bad
    BY <1>1, <2>2, <2>3, <2>7
  <2> QED
    BY <1>1, <2>6, <2>7, <2>8 DEF bad
<1> QED
  BY <1>9 DEF g, S

(* Rates that follow each other and of which one has no end are one. *)
LEMMA OneWithoutEnd ==
  ASSUME NEW T, Tiered(T), Tile(T), \A t \in T : t.from = 0 => t.to = Unbounded
  PROVE  \E t \in T : T = {t} /\ t.from = 0 /\ t.to = Unbounded
<1>1. PICK t \in T : t.from = 0 /\ t.to = Unbounded
  BY DEF Tile
<1>2. ASSUME NEW u \in T PROVE u = t
  <2>1. u.from \in Nat /\ u.from < Unbounded
    BY DEF Tiered, Unbounded
  <2>2. ~(t.from < u.from)
    BY <1>1, <2>1, TilesApart DEF Unbounded
  <2>3. u.from = t.from
    BY <1>1, <2>1, <2>2
  <2> QED
    BY <2>3 DEF Tile
<1> QED
  BY <1>1, <1>2
(* The ways an estimated source has of making tiers. *)
LEMMA TiersPlainly ==
  ASSUME NEW how, how.rate \in {"head", "stated", "chain", "zip", "open"},
         NEW i, NEW d, d \notin DOMAIN how.ladder, NEW t \in Tiers(how, i, d), t.to # 0
  PROVE  \/ /\ t \in Flat(Head(i.rates).usd)
            /\ how.rate \in {"head", "open"} \/ (how.rate = "zip" /\ d \notin DOMAIN how.bounds)
         \/ how.rate = "stated" /\ t \in Range(i.rates)
         \/ how.rate = "chain" /\ \E u \in Range(i.rates) : t = Chained(i, u)
         \/ /\ how.rate = "zip" /\ d \in DOMAIN how.bounds /\ Len(i.rates) = Len(how.bounds[d])
            /\ \E u \in Range(i.rates) : t = Zipped(how.bounds[d], i, u)
<1>0. ~(d \in how.based /\ Head(i.rates).from # 0)
  BY DEF Tiers
<1>1. CASE how.rate = "head"
  BY <1>0, <1>1 DEF Tiers
<1>2. CASE how.rate = "stated"
  BY <1>0, <1>2 DEF Tiers
<1>3. CASE how.rate = "chain"
  BY <1>0, <1>3 DEF Tiers, Chained, StartsOf
<1>4. CASE how.rate = "open"
  BY <1>0, <1>4 DEF Tiers
<1>5. CASE how.rate = "zip" /\ d \notin DOMAIN how.bounds
  BY <1>0, <1>5 DEF Tiers
<1>6. CASE how.rate = "zip" /\ d \in DOMAIN how.bounds
  <2>1. Len(i.rates) = Len(how.bounds[d])
    BY <1>0, <1>6 DEF Tiers, Misfit
  <2>2. Tiers(how, i, d) = {Zipped(how.bounds[d], i, u) : u \in Range(i.rates)}
    BY <1>0, <1>6, <2>1 DEF Tiers, Zipped, UpTo, StartsOf
  <2> QED
    BY <1>6, <2>1, <2>2
<1> QED
  BY <1>1, <1>2, <1>3, <1>4, <1>5, <1>6

LEMMA ZippedTyped ==
  ASSUME NEW b, b \in Seq(0..Unbounded - 1), NEW i, Item(i), Len(i.rates) = Len(b),
         NEW u \in Range(i.rates)
  PROVE  /\ Zipped(b, i, u).from \in 0..Unbounded - 1
         /\ Zipped(b, i, u).to \in 1..Unbounded
         /\ Zipped(b, i, u).usd \in Nat
<1> DEFINE starts == 0..Unbounded - 1
           S == StartsOf(i)
           k == UpTo(S, u.from)
<1>1. DOMAIN b = 1..Len(b) /\ Len(b) \in Nat /\ b \in Seq(starts)
  OBVIOUS
<1>2. \A m \in DOMAIN b : b[m] \in starts
  <2> HIDE DEF starts
  <2> QED
    BY <1>1
<1>3. Range(b) \in SUBSET (0..Unbounded - 1)
  BY <1>2 DEF Range
<1>4. S \in SUBSET Nat /\ IsFiniteSet(S) /\ Cardinality(S) = Len(b) /\ u.from \in S
  <2>1. u.from \in S
    BY DEF StartsOf
  <2> QED
    BY <2>1, StartsAre DEF Unbounded
<1>5. k \in DOMAIN b
  <2> HIDE DEF S
  <2> QED
    BY <1>1, <1>4, Places1
<1>6. /\ Zipped(b, i, u).from = b[k] /\ Zipped(b, i, u).to = Following(Range(b), b[k])
      /\ Zipped(b, i, u).usd = u.usd
  BY DEF Zipped
<1>7. b[k] \in 0..Unbounded - 1
  BY <1>2, <1>5
<1>8. u.usd \in Nat
  BY RatesAre DEF Rate
<1> HIDE DEF k, S
<1> DEFINE f == Following(Range(b), b[k])
<1>9. f = Unbounded \/ (f \in Range(b) /\ f > b[k])
  BY <1>3, FollowingIs
<1>10. f \in 1..Unbounded
  <2> HIDE DEF f
  <2> QED
    BY <1>3, <1>7, <1>9 DEF Unbounded
<1> QED
  BY <1>6, <1>7, <1>8, <1>10

LEMMA TiersTyped ==
  ASSUME NEW how, how.rate \in {"head", "stated", "chain", "zip", "open"}, BoundsRise(how),
         NEW i, Item(i), i.rates # <<>>, NEW d, d \notin DOMAIN how.ladder,
         NEW t \in Tiers(how, i, d), t.to # 0
  PROVE  t.from \in 0..Unbounded - 1 /\ t.to \in 1..Unbounded /\ t.usd \in Nat
<1>1. \A u \in Range(i.rates) : u \in Rate
  BY RatesAre
<1>2. CASE t \in Flat(Head(i.rates).usd)
  <2>1. Head(i.rates).usd \in Nat
    BY <1>1, RatesAre DEF Rate
  <2> QED
    BY <1>2, <2>1 DEF Flat, Unbounded
<1>3. CASE t \in Range(i.rates)
  BY <1>1, <1>3 DEF Rate
<1>4. CASE \E u \in Range(i.rates) : t = Chained(i, u)
  <2>1. PICK u \in Range(i.rates) : t = Chained(i, u)
    BY <1>4
  <2> DEFINE f == Following(StartsOf(i), u.from)
  <2>2. u \in Rate
    BY <1>1
  <2>3. t.from = u.from /\ t.to = f /\ t.usd = u.usd
    BY <2>1, <2>2 DEF Chained, Rate
  <2>4. StartsOf(i) \in SUBSET (0..Unbounded - 1)
    BY StartsAre
  <2>5. f = Unbounded \/ (f \in StartsOf(i) /\ f > u.from)
    BY <2>4, FollowingIs
  <2>6. f \in 1..Unbounded
    <3> HIDE DEF f
    <3> QED
      BY <2>2, <2>4, <2>5 DEF Rate, Unbounded
  <2> QED
    BY <2>2, <2>3, <2>6 DEF Rate
<1>5. CASE /\ d \in DOMAIN how.bounds /\ Len(i.rates) = Len(how.bounds[d])
           /\ \E u \in Range(i.rates) : t = Zipped(how.bounds[d], i, u)
  <2>1. how.bounds[d] \in Seq(0..Unbounded - 1)
    BY <1>5 DEF BoundsRise
  <2> QED
    BY <1>5, <2>1, ZippedTyped
<1> QED
  BY <1>2, <1>3, <1>4, <1>5, TiersPlainly

(* An item's tiers are the rates it lists, where the source knows of them. *)
AsListed(T, R) == \A t \in T : \E u \in R : u.from = t.from /\ u.to = t.to /\ u.usd = t.usd

LEMMA TiersFaithful ==
  ASSUME Asked, How.ladder = <<>>, feed.src # "aws_cloudfront",
         NEW i \in feed.doc, Taken(How, i), NEW s \in How.sells[i.kind],
         NEW t \in Tiers(How, i, s[2]), t.to # 0
  PROVE  \E u \in Range(i.rates) : u.from = t.from /\ u.to = t.to /\ u.usd = t.usd
<1> DEFINE R == Range(i.rates)
           d == s[2]
<1>1. /\ Item(i) /\ i.rates # <<>>
      /\ How.rate \in {"head", "stated", "chain", "zip", "open"} /\ BoundsRise(How)
      /\ d \notin DOMAIN How.ladder
  <2>1. Item(i)
    BY PolicyPlain, PolicyGiven DEF AllKept
  <2> QED
    BY <2>1, PolicyPlain DEF Taken
<1>2. Foreseen(feed.src, How, i)
  BY DEF Asked
<1>3. Tile(R) /\ Tiered(R) /\ Head(i.rates) \in R
  BY <1>1, <1>2, RatesTiered, RatesAre DEF Foreseen
<1>4. CASE /\ t \in Flat(Head(i.rates).usd)
           /\ How.rate \in {"head", "open"} \/ (How.rate = "zip" /\ d \notin DOMAIN How.bounds)
  <2>1. \A u \in R : u.from = 0 => u.to = Unbounded
    BY <1>2, <1>4 DEF Foreseen
  <2>2. PICK u \in R : R = {u} /\ u.from = 0 /\ u.to = Unbounded
    <3> HIDE DEF R
    <3> QED
      BY <1>3, <2>1, OneWithoutEnd
  <2>3. Head(i.rates) = u
    BY <1>3, <2>2
  <2>4. t.from = 0 /\ t.to = Unbounded /\ t.usd = u.usd
    BY <1>4, <2>3 DEF Flat
  <2> QED
    BY <2>2, <2>4
<1>5. CASE \E u \in R : t = Chained(i, u)
  <2>1. PICK u \in R : t = Chained(i, u)
    BY <1>5
  <2>2. u \in Rate
    BY <1>1, RatesAre
  <2>3. t.from = u.from /\ t.to = Following(StartsOf(i), u.from) /\ t.usd = u.usd
    BY <2>1, <2>2 DEF Chained, Rate
  <2> QED
    BY <1>1, <1>3, <2>3, NextStart
<1>6. CASE /\ How.rate = "zip" /\ d \in DOMAIN How.bounds
           /\ \E u \in R : t = Zipped(How.bounds[d], i, u)
  <2> DEFINE b == How.bounds[d]
  <2>1. PICK u \in R : t = Zipped(b, i, u)
    BY <1>6
  <2>2. b \in Seq(0..Unbounded - 1) /\ \A k, l \in DOMAIN b : k < l => b[k] < b[l]
    BY <1>1, <1>6 DEF BoundsRise
  <2>3. StartsOf(i) = Range(b)
    BY <1>2, <1>6 DEF Foreseen, StartsOf
  <2> HIDE DEF b
  <2>4. PICK k \in DOMAIN b : u.from = b[k]
    <3>1. u.from \in Range(b)
      BY <2>3 DEF StartsOf
    <3> QED
      BY <3>1 DEF Range
  <2>5. UpTo(Range(b), b[k]) = k
    BY <2>2, BoundsRanked
  <2>6. t.from = u.from /\ t.to = Following(StartsOf(i), u.from) /\ t.usd = u.usd
    BY <2>1, <2>3, <2>4, <2>5 DEF Zipped
  <2> QED
    BY <1>1, <1>3, <2>6, NextStart
<1> QED
  BY <1>1, <1>4, <1>5, <1>6, TiersPlainly

(* Of CloudFront's it is the first one, which has no end. *)
LEMMA FirstTierOnly ==
  ASSUME Asked, feed.src = "aws_cloudfront",
         NEW i \in feed.doc, Taken(How, i), NEW s \in How.sells[i.kind],
         NEW t \in Tiers(How, i, s[2])
  PROVE  /\ How.ladder = <<>>
         /\ t.from = 0 /\ t.to = Unbounded
         /\ Head(i.rates) \in Range(i.rates) /\ Head(i.rates).from = 0
         /\ Head(i.rates).to = FirstTierEnd /\ Head(i.rates).usd = t.usd
<1>1. "aws_cloudfront" \in DOMAIN Policy /\ How = Policy["aws_cloudfront"]
  BY PolicyPlain DEF How, Estimated
<1>2. /\ How.rate = "head" /\ How.ladder = <<>>
      /\ \A x \in Priced(How) : x[2] \in How.based
  BY <1>1, FirstTierRead, Zenon
<1>3. s \in Priced(How)
  BY DEF Priced, Range, Taken
<1>4. Head(i.rates).from = 0 /\ t \in Flat(Head(i.rates).usd)
  BY <1>2, <1>3 DEF Tiers
<1>5. Head(i.rates) \in Range(i.rates)
  <2>1. Item(i)
    BY PolicyPlain, PolicyGiven DEF AllKept
  <2> QED
    BY <2>1, RatesAre DEF Taken
<1>6. Foreseen(feed.src, How, i)
  BY <1>2 DEF Asked
<1>7. Head(i.rates).to = FirstTierEnd
  BY <1>2, <1>4, <1>5, <1>6 DEF Foreseen
<1> QED
  BY <1>2, <1>4, <1>5, <1>7 DEF Flat
-----------------------------------------------------------------------------
(* The prices a row has in one dimension. *)
RowIs(r, row) ==
  /\ row \in Opened(How, acc)
  /\ r.name = row.name /\ r.region = row.region
  /\ Parts(How, acc, row) = OwnParts(How, acc, row)
  /\ Parts(How, acc, row) # {} /\ \A p \in Parts(How, acc, row) : p.to # 0
  /\ r.prices = {Published(How, p) : p \in Parts(How, acc, row)}

PartsIn(row, e) == OfDim(Parts(How, acc, row), e)

(* They are those of one dimension of the source's. *)
LEMMA OneSource ==
  ASSUME Asked, NEW r \in rows, NEW row, RowIs(r, row), NEW d, Entries(r, d) # {}
  PROVE  \E e : /\ Shown(e) = d /\ PartsIn(row, e) # {}
                /\ Entries(r, d) = {Published(How, p) : p \in PartsIn(row, e)}
<1> DEFINE parts == Parts(How, acc, row)
<1>1. \A p \in parts : Published(How, p).dim = Shown(p.dim)
  BY DEF Published, Shown
<1>2. r.prices = {Published(How, p) : p \in parts}
  BY DEF RowIs
<1>3. PICK x \in parts : Shown(x.dim) = d
  BY <1>1, <1>2 DEF Entries
<1>4. ASSUME NEW y \in parts, Shown(y.dim) = d PROVE y.dim = x.dim
  <2> SUFFICES ASSUME y.dim # x.dim PROVE FALSE
    OBVIOUS
  <2>1. AllKept /\ How.rate # "split" /\ row \in Opened(How, acc)
    BY PolicyPlain DEF RowIs
  <2> QED
    BY <1>3, <1>4, <2>1, ShownTwice
<1>5. PartsIn(row, x.dim) = {y \in parts : Shown(y.dim) = d}
  BY <1>3, <1>4 DEF PartsIn, OfDim
<1>6. Entries(r, d) = {Published(How, p) : p \in {y \in parts : Shown(y.dim) = d}}
  <2> HIDE DEF parts
  <2> QED
    BY <1>1, <1>2 DEF Entries
<1>7. x \in PartsIn(row, x.dim)
  BY <1>3, <1>5
<1> QED
  BY <1>3, <1>5, <1>6, <1>7

(* They are tiers that follow each other, where items make them together. *)
LEMMA LadderTiles ==
  ASSUME Asked, NEW r, NEW row, RowIs(r, row), How.ladder # <<>>,
         NEW e, PartsIn(row, e) # {}
  PROVE  Tiered(PartsIn(row, e)) /\ Tile(PartsIn(row, e))
<1> DEFINE kept == KeptOf(How, acc, row)
           ps == OfDim(kept, e)
           own == PartsIn(row, e)
<1>1. AllKept /\ How.rate \in {"head", "open"} /\ row \in Opened(How, acc)
  BY PolicyPlain DEF RowIs
<1>2. \A p \in kept : IsPrice(p) /\ p \in acc
  BY <1>1, AccKept DEF AllKept, KeptOf, IsKept
<1>3. own = IF e \in DOMAIN How.ladder THEN Rungs(How.ladder[e], ps) ELSE ps
  <2>1. own = OfDim(Laddered(How, kept), e)
    BY DEF PartsIn, RowIs, OwnParts
  <2> QED
    BY <1>2, <2>1, LadderedOf
<1>4. CASE e \in DOMAIN How.ladder
  <2>1. Rungable(ps)
    BY <1>1, <1>4, LadderRungable DEF OfDim
  <2> HIDE DEF ps, kept, own
  <2>2. own = Rungs(How.ladder[e], ps) /\ own # {}
    BY <1>3, <1>4 DEF own
  <2>3. ps # {}
    BY <2>1, <2>2, RungsKeep DEF Rungable
  <2> QED
    BY <2>1, <2>2, <2>3, RungsTile, RungsTyped DEF own
<1>5. CASE e \notin DOMAIN How.ladder
  <2>1. ASSUME NEW p \in own
        PROVE  p.from = 0 /\ p.to = Unbounded /\ p.usd \in Nat /\ p \in Parts(How, acc, row)
               /\ p.dim = e
    <3>1. p \in acc /\ p.dim = e /\ p \in Parts(How, acc, row)
      BY <1>2, <1>3, <1>5 DEF PartsIn, OfDim
    <3>2. PICK i \in feed.doc : p \in Fills(How, i)
      BY <1>1, <3>1, KeptFrom
    <3>3. (\A x \in Priced(How) : IsPair(x)) /\ Item(i) /\ How.free = {}
      BY <1>1, PolicyGiven, PolicyPlain DEF AllKept
    <3>4. PICK t \in Tiers(How, i, e) : FillTier(How, i, p, t)
      BY <3>1, <3>2, <3>3, FillSays
    <3>5. Head(i.rates).usd \in Nat
      <4>1. i.rates # <<>>
        BY <3>2, <3>3, FillSays DEF Taken
      <4>2. Head(i.rates) \in Rate
        BY <3>3, <4>1, RatesAre
      <4> QED
        BY <4>2 DEF Rate
    <3>6. t \in Flat(Head(i.rates).usd)
      BY <1>1, <1>5 DEF Tiers
    <3>7. p.usd = t.usd
      BY <3>3, <3>4 DEF FillTier, FillOf
    <3> QED
      BY <3>1, <3>4, <3>5, <3>6, <3>7 DEF Flat, FillTier
  <2>2. PICK p \in own : TRUE
    OBVIOUS
  <2>3. \A q \in own : q = p
    BY <1>1, <2>1, <2>2, PartsApart
  <2>4. own = {p}
    BY <2>2, <2>3
  <2>5. Tile({p}) /\ Tiered({p})
    BY <2>1, <2>2, FlatTiles DEF Tiered, Unbounded
  <2> QED
    BY <2>4, <2>5
<1> QED
  BY <1>4, <1>5

(* Elsewhere they are the tiers of one item. *)
OfItem(i, e, ps) ==
  /\ i \in feed.doc /\ Taken(How, i) /\ \E s \in How.sells[i.kind] : s[2] = e
  /\ \A p \in ps : p.n = i.n
  /\ \A p \in ps : \E t \in Tiers(How, i, e) :
       t.to # 0 /\ p.from = t.from /\ p.to = t.to /\ p.usd = t.usd

LEMMA ItemTiles ==
  ASSUME Asked, NEW r, NEW row, RowIs(r, row), How.ladder = <<>>,
         NEW e, PartsIn(row, e) # {}
  PROVE  /\ Tiered(PartsIn(row, e)) /\ Tile(PartsIn(row, e))
         /\ \E i : OfItem(i, e, PartsIn(row, e))
<1> DEFINE kept == KeptOf(How, acc, row)
           ps == OfDim(kept, e)
<1>1. /\ AllKept /\ How.rate \in {"head", "stated", "chain", "zip", "open"} /\ DocTiles
      /\ BoundsRise(How) /\ How.free = {}
      /\ e \notin DOMAIN How.ladder /\ \A x \in Priced(How) : IsPair(x)
  BY PolicyPlain
<1>2. PartsIn(row, e) = ps
  BY NoLadder DEF PartsIn, RowIs, OwnParts
<1>3. \A p \in ps : p \in acc /\ p.row = row /\ p.dim = e /\ p.to # 0
  <2>1. \A p \in PartsIn(row, e) : p.to # 0
    BY DEF PartsIn, OfDim, RowIs
  <2> QED
    BY <1>2, <2>1 DEF KeptOf, OfDim
<1>4. PICK p \in ps : TRUE
  BY <1>2
<1>5. Tile(ps)
  BY <1>1, <1>3, <1>4, CellTiles
<1>6. PICK i \in feed.doc : p \in Fills(How, i)
  BY <1>1, <1>3, <1>4, KeptFrom
<1>7. ASSUME NEW j \in feed.doc, NEW q \in Fills(How, j), q \in ps
      PROVE  \E x \in Fills(How, j) : x.row = row /\ x.dim = e /\ x.from = 0
  <2>1. q.dim = e /\ q.to # 0 /\ q.row = row
    BY <1>3, <1>7
  <2>2. /\ Tile(Tiers(How, j, e))
        /\ \A t \in Tiers(How, j, e) : \E x \in Fills(How, j) :
             x.row = row /\ x.dim = e /\ x.from = t.from /\ x.to = t.to
    BY <1>1, <1>7, <2>1, CellFills
  <2> QED
    BY <2>2 DEF Tile
<1>8. ASSUME NEW q \in ps PROVE q \in Fills(How, i)
  <2>1. PICK j \in feed.doc : q \in Fills(How, j)
    BY <1>1, <1>3, KeptFrom
  <2>2. PICK x \in Fills(How, i) : x.row = row /\ x.dim = e /\ x.from = 0
    BY <1>4, <1>6, <1>7
  <2>3. PICK y \in Fills(How, j) : y.row = row /\ y.dim = e /\ y.from = 0
    BY <1>8, <2>1, <1>7
  <2>4. ~AddUp(How, x, y)
    BY <1>1, <2>2, <2>3 DEF AddUp, At
  <2>5. i = j
    BY <1>1, <2>2, <2>3, <2>4, MetAddUp DEF Cell
  <2> QED
    BY <2>1, <2>5
<1>9. Taken(How, i) /\ Item(i) /\ \E s \in How.sells[i.kind] : s[2] = e
  <2>1. Item(i)
    BY <1>1, PolicyGiven DEF AllKept
  <2>2. Taken(How, i) /\ <<p.row.name, p.dim>> \in How.sells[i.kind]
    BY <1>1, <1>6, FillSays
  <2>3. <<p.row.name, p.dim>>[2] = e
    BY <1>3, <1>4
  <2> QED
    BY <2>1, <2>2, <2>3
<1>10. ASSUME NEW q \in ps
       PROVE  /\ q.n = i.n
              /\ \E t \in Tiers(How, i, e) :
                   t.to # 0 /\ q.from = t.from /\ q.to = t.to /\ q.usd = t.usd
  <2>1. q.n = i.n
    BY <1>1, <1>8, FillSays
  <2>2. PICK t \in Tiers(How, i, e) : FillTier(How, i, q, t)
    BY <1>1, <1>3, <1>8, FillSays
  <2>3. q.usd = t.usd
    BY <1>1, <2>2 DEF FillTier, FillOf
  <2> QED
    BY <1>3, <2>1, <2>2, <2>3 DEF FillTier
<1>11. Tiered(ps)
  <2> SUFFICES ASSUME NEW q \in ps
               PROVE  q.from \in 0..Unbounded - 1 /\ q.to \in 1..Unbounded /\ q.usd \in Nat
    BY DEF Tiered
  <2>1. PICK t \in Tiers(How, i, e) :
          t.to # 0 /\ q.from = t.from /\ q.to = t.to /\ q.usd = t.usd
    BY <1>10
  <2> QED
    BY <1>1, <1>9, <2>1, TiersTyped DEF Taken
<1>12. OfItem(i, e, ps)
  BY <1>9, <1>10 DEF OfItem
<1> QED
  BY <1>2, <1>5, <1>11, <1>12
-----------------------------------------------------------------------------
(* The prices of a row in a dimension are tiers, those its items list; of    *)
(* CloudFront's the first one, without its end.                             *)
Faithful(E, L) ==
  /\ Tiered(E) /\ Tile(E) /\ Tiered(L) /\ Tile(L)
  /\ feed.src # "aws_cloudfront" => AsListed(E, L)
  /\ feed.src = "aws_cloudfront" =>
       \E t \in E : \E l \in L :
         /\ E = {t} /\ t.from = 0 /\ t.to = Unbounded
         /\ l.from = 0 /\ l.to = FirstTierEnd /\ l.usd = t.usd

LEMMA PublishedTiles ==
  ASSUME NEW how, NEW ps, Tiered(ps), Tile(ps)
  PROVE  Tiered({Published(how, p) : p \in ps}) /\ Tile({Published(how, p) : p \in ps})
<1> DEFINE E == {Published(how, p) : p \in ps}
<1>1. \A p \in ps : /\ Published(how, p).from = p.from /\ Published(how, p).to = p.to
                    /\ Published(how, p).usd = p.usd /\ Published(how, p).n = p.n
  BY DEF Published
<1>2. \A u \in E : \E t \in ps : u = Published(how, t)
  OBVIOUS
<1>3. \A t \in ps : Published(how, t) \in E
  OBVIOUS
<1> HIDE DEF E
<1>4. \A u, v \in E : u # v => u.from # v.from
  BY <1>1, <1>2 DEF Tile
<1>5. \A u \in E : \E t \in ps : u.from = t.from /\ u.to = t.to
  BY <1>1, <1>2
<1>6. \A t \in ps : \E u \in E : u.from = t.from /\ u.to = t.to
  BY <1>1, <1>3
<1>7. Tile(E)
  BY <1>4, <1>5, <1>6, TileCarried
<1>8. Tiered(E)
  BY <1>1, <1>2 DEF Tiered
<1> QED
  BY <1>7, <1>8 DEF E

LEMMA EntriesFaithful ==
  ASSUME Asked, NEW r \in rows, NEW d, Entries(r, d) # {}
  PROVE  Faithful(Entries(r, d), ListedTiers(r, d))
<1> DEFINE E == Entries(r, d)
           L == ListedTiers(r, d)
<1>1. PICK row : RowIs(r, row)
  BY RowOf DEF RowIs
<1>2. PICK e : /\ PartsIn(row, e) # {}
               /\ E = {Published(How, p) : p \in PartsIn(row, e)}
  BY <1>1, OneSource
<1> DEFINE ps == PartsIn(row, e)
<1>3. CASE How.ladder # <<>>
  <2>1. Tiered(ps) /\ Tile(ps)
    BY <1>1, <1>2, <1>3, LadderTiles
  <2>2. Tiered(E) /\ Tile(E)
    BY <1>2, <2>1, PublishedTiles
  <2>3. L = E
    BY <1>3 DEF ListedTiers
  <2>4. feed.src # "aws_cloudfront"
    <3> SUFFICES ASSUME feed.src = "aws_cloudfront" PROVE FALSE
      OBVIOUS
    <3>1. "aws_cloudfront" \in DOMAIN Policy /\ How = Policy["aws_cloudfront"]
      BY PolicyPlain DEF How, Estimated
    <3>2. How.ladder = <<>>
      BY <3>1, FirstTierRead, Zenon
    <3> QED
      BY <1>3, <3>2
  <2>5. AsListed(E, E)
    BY DEF AsListed
  <2> HIDE DEF E, L
  <2> QED
    BY <2>2, <2>3, <2>4, <2>5 DEF Faithful, E, L
<1>4. CASE How.ladder = <<>>
  <2>1. Tiered(ps) /\ Tile(ps)
    BY <1>1, <1>2, <1>4, ItemTiles
  <2>2. PICK i : OfItem(i, e, ps)
    BY <1>1, <1>2, <1>4, ItemTiles
  <2>3. PICK s \in How.sells[i.kind] : s[2] = e
    BY <2>2 DEF OfItem
  <2>4. i \in feed.doc /\ Taken(How, i) /\ i.rates # <<>> /\ \A p \in ps : p.n = i.n
    BY <2>2 DEF OfItem, Taken
  <2>5. Item(i) /\ \A j \in feed.doc : i.n = j.n => i = j
    BY <2>4, PolicyPlain, PolicyGiven DEF AllKept
  <2>6. Tiered(E) /\ Tile(E)
    BY <1>2, <2>1, PublishedTiles
  <2>7. \A x \in E : \E p \in ps : /\ x.n = p.n /\ x.from = p.from /\ x.to = p.to /\ x.usd = p.usd
    BY <1>2 DEF Published
  <2>8. \E x \in E : TRUE
    BY <2>6 DEF Tile
  <2>9. L = Range(i.rates)
    <3>1. \A x \in E : x.n = i.n
      BY <2>4, <2>7
    <3>2. {j \in feed.doc : \E x \in E : x.n = j.n} = {i}
      <4> HIDE DEF E, ps
      <4> QED
        BY <2>4, <2>5, <2>8, <3>1
    <3> QED
      BY <1>4, <3>2 DEF ListedTiers
  <2>10. Tiered(L) /\ Tile(L)
    <3>1. Tile(Range(i.rates))
      BY <1>4, <2>4, PolicyPlain DEF DocTiles
    <3> QED
      BY <2>5, <2>9, <3>1, RatesTiered
  <2>11. \A x \in E : \E t \in Tiers(How, i, e) :
           t.to # 0 /\ x.from = t.from /\ x.to = t.to /\ x.usd = t.usd
    <3> HIDE DEF E, ps
    <3> QED
      BY <2>2, <2>7 DEF OfItem
  <2> HIDE DEF E, L, ps
  <2>12. CASE feed.src # "aws_cloudfront"
    <3>1. AsListed(E, L)
      <4> SUFFICES ASSUME NEW x \in E
                   PROVE  \E u \in L : u.from = x.from /\ u.to = x.to /\ u.usd = x.usd
        BY DEF AsListed
      <4>1. PICK t \in Tiers(How, i, s[2]) :
              t.to # 0 /\ x.from = t.from /\ x.to = t.to /\ x.usd = t.usd
        BY <2>3, <2>11
      <4> QED
        BY <1>4, <2>4, <2>9, <2>12, <4>1, TiersFaithful
    <3> QED
      BY <2>6, <2>10, <2>12, <3>1 DEF Faithful, E, L
  <2>13. CASE feed.src = "aws_cloudfront"
    <3>1. PICK x \in E : TRUE
      BY <2>8
    <3>2. PICK t \in Tiers(How, i, s[2]) : x.from = t.from /\ x.to = t.to /\ x.usd = t.usd
      BY <2>3, <2>11
    <3>3. /\ t.from = 0 /\ t.to = Unbounded
          /\ Head(i.rates) \in L /\ Head(i.rates).from = 0
          /\ Head(i.rates).to = FirstTierEnd /\ Head(i.rates).usd = t.usd
      BY <2>4, <2>9, <2>13, FirstTierOnly
    <3>4. \A y \in E : y.from = 0
      BY <2>3, <2>4, <2>11, <2>13, FirstTierOnly
    <3>5. E = {x}
      BY <2>6, <3>4 DEF Tile
    <3> QED
      BY <2>6, <2>10, <2>13, <3>2, <3>3, <3>5 DEF Faithful, E, L
  <2> QED
    BY <2>12, <2>13
<1> QED
  BY <1>3, <1>4
-----------------------------------------------------------------------------
(* What a volume costs by tiers. *)
LEMMA BillIs ==
  ASSUME NEW r, NEW d, NEW n
  PROVE  Bill(r, d, n) = SumFunction(Prices(ListedTiers(r, d), n))
BY DEF Bill, Prices, PriceAt

LEMMA PricesSum ==
  ASSUME NEW T, Tiered(T), Tile(T), NEW n \in 0..Unbounded
  PROVE  /\ SumFunction(Prices(T, n)) = SumFunctionOnSet(Prices(T, n), 0..(n - 1))
         /\ SumFunction(Prices(T, n)) \in Nat
         /\ n = 0 => SumFunction(Prices(T, n)) = 0
<1> DEFINE P == Prices(T, n)
           S == 0..(n - 1)
<1>1. DOMAIN P = S
  BY DEF Prices
<1>2. SumFunction(P) = SumFunctionOnSet(P, S)
  BY <1>1 DEF SumFunction
<1>3. n \in Nat /\ n - 1 \in Int /\ 0 \in Int
  BY DEF Unbounded
<1>4. IsFiniteSet(S) /\ \A u \in S : P[u] \in Nat
  BY <1>3, PricesNat, FS_Interval
<1>5. n = 0 => S = {}
  OBVIOUS
<1> HIDE DEF P, S
<1>6. SumFunctionOnSet(P, S) \in Nat /\ (S = {} => SumFunctionOnSet(P, S) = 0)
  BY <1>4, SumOf
<1> QED
  BY <1>2, <1>5, <1>6 DEF P, S

(* As much by the tiers of a row as by those listed. *)
LEMMA SamePrices ==
  ASSUME NEW E, NEW L, Tiered(E), Tile(E), Tiered(L), Tile(L), AsListed(E, L),
         NEW n \in 0..Unbounded
  PROVE  Prices(E, n) = Prices(L, n)
<1> SUFFICES ASSUME NEW u \in 0..(n - 1) PROVE PriceAt(E, u) = PriceAt(L, u)
  BY DEF Prices
<1>1. u \in 0..Unbounded - 1
  BY DEF Unbounded
<1>2. PICK t \in E : t.from <= u /\ u < t.to
  BY <1>1, TilesCover
<1>3. PICK l \in L : l.from = t.from /\ l.to = t.to /\ l.usd = t.usd
  BY DEF AsListed
<1>4. PriceAt(E, u) = t.usd
  BY <1>1, <1>2, PriceIs
<1>5. PriceAt(L, u) = l.usd
  BY <1>1, <1>2, <1>3, PriceIs
<1> QED
  BY <1>3, <1>4, <1>5

LEMMA SumAll ==
  ASSUME NEW b \in Nat, NEW c \in Nat, NEW fun,
         \A u \in 0..(b - 1) : fun[u] \in Nat, \A u \in 0..(b - 1) : fun[u] = c
  PROVE  SumFunctionOnSet(fun, 0..(b - 1)) = b * c
<1> DEFINE a == 0
<1>1. a \in Nat /\ a <= b
  OBVIOUS
<1>2. \A u \in 0..(b - 1) : fun[u] \in Nat
  OBVIOUS
<1>3. \A u \in a..(b - 1) : fun[u] = c
  OBVIOUS
<1>4. 0..(a - 1) = {} /\ b - a = b /\ b * c \in Nat
  OBVIOUS
<1> HIDE DEF a
<1>5. SumFunctionOnSet(fun, 0..(b - 1)) = SumFunctionOnSet(fun, 0..(a - 1)) + (b - a) * c
  BY <1>1, <1>2, <1>3, SumFlat
<1>6. SumFunctionOnSet(fun, 0..(a - 1)) = 0
  <2>1. IsFiniteSet({}) /\ \A x \in {} : fun[x] \in Nat
    BY FS_EmptySet
  <2>2. SumFunctionOnSet(fun, {}) = 0
    BY <2>1, SumOf
  <2> QED
    BY <1>4, <2>2
<1> QED
  BY <1>4, <1>5, <1>6

LEMMA BillFlat ==
  ASSUME NEW T, Tiered(T), Tile(T), NEW t \in T, t.from = 0, NEW n \in 0..Unbounded - 1, n <= t.to
  PROVE  SumFunction(Prices(T, n)) = n * t.usd
<1> DEFINE P == Prices(T, n)
           c == t.usd
<1>1. n \in Nat /\ n \in 0..Unbounded /\ c \in Nat /\ 0 \in Nat /\ 0 <= n /\ t.to \in Nat
  BY DEF Tiered, Unbounded
<1>2. \A u \in 0..(n - 1) : P[u] \in Nat /\ P[u] = PriceAt(T, u)
  BY <1>1, PricesNat
<1>3. \A u \in 0..(n - 1) : P[u] = c
  <2> TAKE u \in 0..(n - 1)
  <2>1. u \in 0..Unbounded - 1 /\ t.from <= u /\ u < t.to
    BY <1>1 DEF Unbounded
  <2>2. PriceAt(T, u) = c
    BY <2>1, PriceIs
  <2> QED
    BY <1>2, <2>2
<1>4. SumFunction(P) = SumFunctionOnSet(P, 0..(n - 1))
  BY <1>1, PricesSum
<1> HIDE DEF P, c
<1>5. SumFunctionOnSet(P, 0..(n - 1)) = n * c
  BY <1>1, <1>2, <1>3, SumAll
<1> QED
  BY <1>4, <1>5 DEF P, c

(* A sum of one, and of two. *)
LEMMA SumOne ==
  ASSUME NEW x, NEW f, DOMAIN f = {x}, f[x] \in Nat
  PROVE  SumFunction(f) = f[x]
<1>1. SumFunction(f) = SumFunctionOnSet(f, {x})
  BY DEF SumFunction
<1>2. IsFiniteSet({x}) /\ \A y \in {x} : f[y] \in Nat
  BY FS_Singleton
<1>3. SumFunctionOnSet(f, {x}) = f[x] + SumFunctionOnSet(f, {x} \ {x})
  BY <1>2, SumOf
<1>4. {x} \ {x} = {} /\ IsFiniteSet({}) /\ \A y \in {} : f[y] \in Nat
  BY FS_EmptySet
<1>5. SumFunctionOnSet(f, {}) = 0
  BY <1>4, SumOf
<1> QED
  BY <1>1, <1>3, <1>4, <1>5

LEMMA SumTwo ==
  ASSUME NEW x, NEW y, x # y, NEW f, DOMAIN f = {x, y}, f[x] \in Nat, f[y] \in Nat
  PROVE  SumFunction(f) = f[x] + f[y]
<1>1. SumFunction(f) = SumFunctionOnSet(f, {x, y})
  BY DEF SumFunction
<1>2. IsFiniteSet({x, y}) /\ \A z \in {x, y} : f[z] \in Nat
  <2>1. IsFiniteSet({x}) /\ IsFiniteSet({y})
    BY FS_Singleton
  <2>2. IsFiniteSet({x} \union {y}) /\ {x} \union {y} = {x, y}
    BY <2>1, FS_Union
  <2> QED
    BY <2>2
<1>3. SumFunctionOnSet(f, {x, y}) = f[x] + SumFunctionOnSet(f, {x, y} \ {x})
  <2> DEFINE S == {x, y}
  <2>1. x \in S
    OBVIOUS
  <2>2. IsFiniteSet(S) /\ \A z \in S : f[z] \in Nat
    BY <1>2
  <2> HIDE DEF S
  <2>3. SumFunctionOnSet(f, S) = f[x] + SumFunctionOnSet(f, S \ {x})
    BY <2>1, <2>2, SumOf
  <2> QED
    BY <2>3 DEF S
<1>4. {x, y} \ {x} = {y}
  OBVIOUS
<1>5. SumFunctionOnSet(f, {y}) = f[y] + SumFunctionOnSet(f, {y} \ {y})
  <2>1. IsFiniteSet({y}) /\ \A z \in {y} : f[z] \in Nat
    BY FS_Singleton
  <2> QED
    BY <2>1, SumOf
<1>6. SumFunctionOnSet(f, {}) = 0 /\ {y} \ {y} = {}
  <2>1. IsFiniteSet({}) /\ \A z \in {} : f[z] \in Nat
    BY FS_EmptySet
  <2> QED
    BY <2>1, SumOf
<1>7. f[x] \in Nat /\ f[y] \in Nat
  OBVIOUS
<1>8. SumFunctionOnSet(f, {y}) = f[y]
  <2>1. SumFunctionOnSet(f, {y}) = f[y] + SumFunctionOnSet(f, {})
    BY <1>5, <1>6
  <2> QED
    BY <1>6, <1>7, <2>1
<1>9. SumFunctionOnSet(f, {x, y} \ {x}) = f[y]
  BY <1>4, <1>8
<1> QED
  BY <1>1, <1>3, <1>9
-----------------------------------------------------------------------------
(* What a row prices, and what may be asked of it. *)
LEMMA PartPriced ==
  ASSUME Asked, NEW r, NEW row, RowIs(r, row), NEW p \in Parts(How, acc, row)
  PROVE  <<r.name, p.dim>> \in Priced(How)
         /\ Shown(p.dim) \in PublishedDims(How, r.name)
<1>1. AllKept /\ row \in Opened(How, acc) /\ r.name = row.name
  BY PolicyPlain DEF RowIs
<1>2. <<row.name, p.dim>> \in Priced(How)
  BY <1>1, RowNamed
<1> DEFINE x == <<row.name, p.dim>>
<1>3. x[1] = row.name /\ x[2] = p.dim
  OBVIOUS
<1> HIDE DEF x
<1>4. p.dim \in DimsOf(How, row.name)
  BY <1>2, <1>3 DEF DimsOf, x
<1> QED
  BY <1>1, <1>2, <1>4 DEF PublishedDims, Shown

LEMMA DimPriced ==
  ASSUME Asked, NEW r \in rows, NEW d, Entries(r, d) # {}
  PROVE  \E x \in Priced(How) : x[1] = r.name /\ d = Shown(x[2]) /\ d \in PublishedDims(How, x[1])
<1>1. PICK row : RowIs(r, row)
  BY RowOf DEF RowIs
<1>2. PICK e : Shown(e) = d /\ PartsIn(row, e) # {}
  BY <1>1, OneSource
<1>3. PICK p \in Parts(How, acc, row) : p.dim = e
  BY <1>2 DEF PartsIn, OfDim
<1> DEFINE x == <<r.name, p.dim>>
<1>4. x \in Priced(How) /\ Shown(p.dim) \in PublishedDims(How, r.name)
  BY <1>1, PartPriced
<1>5. x[1] = r.name /\ x[2] = p.dim
  OBVIOUS
<1> HIDE DEF x
<1> QED
  BY <1>2, <1>3, <1>4, <1>5

(* In one of the dimensions a parameter is about. *)
LEMMA MeasuredIn ==
  ASSUME Asked, NEW r \in rows, NEW d, Entries(r, d) # {}
  PROVE  /\ \A q \in DOMAIN Measures : \A e \in Measures[q] :
              d \in Measures[q] /\ Entries(r, e) # {} => e = d
         /\ d = "unit_hour" => Entries(r, "request") = {} /\ Entries(r, "call") = {}
<1>1. PICK x \in Priced(How) : x[1] = r.name /\ d = Shown(x[2]) /\ d \in PublishedDims(How, x[1])
  BY DimPriced
<1>2. \A e : Entries(r, e) # {} => e \in PublishedDims(How, x[1])
  BY <1>1, DimPriced
<1>3. feed.src \in Estimated
  BY PolicyPlain
<1>4. LET dims == PublishedDims(How, x[1])
      IN  /\ \A q \in DOMAIN Measures : \A c, e \in dims \intersect Measures[q] : c = e
          /\ "unit_hour" \in dims => "request" \notin dims /\ "call" \notin dims
  BY <1>3, MeasuredOnce, Zenon DEF How
<1> DEFINE dims == PublishedDims(How, x[1])
<1>5. /\ \A q \in DOMAIN Measures : \A c, e \in dims \intersect Measures[q] : c = e
      /\ "unit_hour" \in dims => "request" \notin dims /\ "call" \notin dims
  BY <1>4
<1> HIDE DEF dims
<1>6. d \in dims /\ \A e : Entries(r, e) # {} => e \in dims
  BY <1>1, <1>2 DEF dims
<1> QED
  BY <1>5, <1>6

(* An hour has one price. *)
HourDim == {"tu_hour", "ppu_hour", "mu_hour", "unit_hour"}

LEMMA HourFlat ==
  ASSUME Asked, NEW r \in rows, NEW d \in HourDim, NEW x \in Entries(r, d)
  PROVE  x.from = 0 /\ x.to = Unbounded
<1>1. PICK row : RowIs(r, row)
  BY RowOf DEF RowIs
<1>2. PICK e : /\ Shown(e) = d /\ PartsIn(row, e) # {}
               /\ Entries(r, d) = {Published(How, p) : p \in PartsIn(row, e)}
  BY <1>1, OneSource
<1>3. PICK p \in PartsIn(row, e) : x = Published(How, p)
  BY <1>2
<1>4. x.from = p.from /\ x.to = p.to
  BY <1>3 DEF Published
<1>5. p \in Parts(How, acc, row) /\ p.dim = e
  BY DEF PartsIn, OfDim
<1> DEFINE s == <<r.name, e>>
<1>6. s \in Priced(How) /\ s[2] = e
  BY <1>1, <1>5, PartPriced
<1> HIDE DEF s
<1>7. How.rate = "head" /\ e \notin DOMAIN How.ladder
  <2>1. feed.src \in Estimated
    BY PolicyPlain
  <2>2. \A y \in Priced(How) : At(How.shown, y[2], y[2]) \in HourDim =>
          How.rate = "head" /\ y[2] \notin DOMAIN How.ladder
    BY <2>1, HoursFlat, Zenon DEF How, HourDim
  <2> QED
    BY <1>2, <1>6, <2>2 DEF Shown
<1>8. AllKept /\ \A y \in Priced(How) : IsPair(y)
  BY PolicyPlain
<1>9. p \in acc
  <2> DEFINE kept == KeptOf(How, acc, row)
  <2>1. \A y \in kept : IsPrice(y) /\ y \in acc
    BY <1>8, AccKept DEF AllKept, KeptOf, IsKept
  <2>2. PartsIn(row, e) = OfDim(Laddered(How, kept), e)
    BY <1>1 DEF PartsIn, RowIs, OwnParts
  <2>3. PartsIn(row, e) = OfDim(kept, e)
    <3> HIDE DEF kept
    <3> QED
      BY <1>7, <2>1, <2>2, LadderedOf
  <2> QED
    BY <2>1, <2>3 DEF OfDim
<1>10. PICK i \in feed.doc : p \in Fills(How, i)
  BY <1>8, <1>9, KeptFrom
<1>11. PICK t \in Tiers(How, i, e) : FillTier(How, i, p, t)
  BY <1>5, <1>8, <1>10, FillSays
<1>12. t \in Flat(Head(i.rates).usd)
  BY <1>7 DEF Tiers
<1> QED
  BY <1>4, <1>11, <1>12 DEF FillTier, Flat

LEMMA WantIs ==
  ASSUME NEW src, NEW r, NEW want \in Wants(src, r)
  PROVE  \E ps \in Params[KindOf[src]] :
           /\ want \in [ps -> 0..MaxVolume]
           /\ \A q \in ps : \E d \in Measures[q] : Entries(r, d) # {}
BY DEF Wants

LEMMA Measured ==
  \A q \in DOMAIN Measures : \A d \in Measures[q] : d \in UNION Range(Measures)
BY DEF Range

LEMMA BillNat ==
  ASSUME Asked, NEW r \in rows, NEW d, Entries(r, d) # {}, NEW n \in 0..MaxVolume
  PROVE  Bill(r, d, n) \in Nat /\ n \in 0..Unbounded - 1 /\ (n = 0 => Bill(r, d, n) = 0)
<1>1. n \in 0..Unbounded - 1 /\ n \in 0..Unbounded
  BY VolumesBelowUnbounded DEF Unbounded
<1>2. Tiered(ListedTiers(r, d)) /\ Tile(ListedTiers(r, d))
  BY EntriesFaithful DEF Faithful
<1> QED
  BY <1>1, <1>2, BillIs, PricesSum

(* One parameter, priced in one dimension. *)
LEMMA ChargedOne ==
  ASSUME Asked, NEW r \in rows, NEW q \in DOMAIN Measures, NEW want \in [{q} -> 0..MaxVolume],
         NEW d \in Measures[q], Entries(r, d) # {}
  PROVE  Charged(r, want) = Bill(r, d, want[q])
<1> DEFINE x == <<q, d>>
           f == [y \in PartsAsked(r, want) |-> Bill(r, y[2], want[y[1]])]
<1>1. x[1] = q /\ x[2] = d /\ want[q] \in 0..MaxVolume /\ DOMAIN want = {q}
  OBVIOUS
<1>2. PartsAsked(r, want) = {x}
  <2>1. ASSUME NEW y \in PartsAsked(r, want) PROVE y = x
    <3>1. y = <<y[1], y[2]>> /\ y[1] = q /\ y[2] \in Measures[q] /\ Entries(r, y[2]) # {}
      BY DEF PartsAsked
    <3>2. y[2] = d
      BY <3>1, MeasuredIn
    <3> QED
      BY <3>1, <3>2
  <2>2. x \in (DOMAIN want) \X UNION Range(Measures)
    BY <1>1, Measured
  <2>3. x \in PartsAsked(r, want)
    <3> HIDE DEF x
    <3> QED
      BY <1>1, <2>2 DEF PartsAsked
  <2> QED
    BY <2>1, <2>3
<1>3. DOMAIN f = {x} /\ f[x] = Bill(r, d, want[q])
  BY <1>2
<1>4. f[x] \in Nat
  BY <1>1, <1>3, BillNat
<1>5. SumFunction(f) = f[x]
  <2> HIDE DEF f, x
  <2> QED
    BY <1>3, <1>4, SumOne
<1> QED
  BY <1>3, <1>5 DEF Charged
-----------------------------------------------------------------------------
(* Estimator by estimator: what is given is what is charged. *)
Right(r, want, answer) ==
  IF answer.given THEN answer.usd = Charged(r, want) /\ answer.usd \in Nat
  ELSE \A q \in DOMAIN want : want[q] = 0

LEMMA WalkIsBill ==
  ASSUME Asked, feed.src # "aws_cloudfront", NEW r \in rows, NEW d, Entries(r, d) # {},
         NEW n \in 0..MaxVolume
  PROVE  WalkTiers(Entries(r, d), n) = Bill(r, d, n)
<1> DEFINE E == Entries(r, d)
           L == ListedTiers(r, d)
<1>1. n \in 0..Unbounded - 1 /\ n \in 0..Unbounded
  BY VolumesBelowUnbounded DEF Unbounded
<1>2. Faithful(E, L)
  BY EntriesFaithful
<1> HIDE DEF E, L
<1>3. WalkTiers(E, n) = SumFunction(Prices(E, n))
  BY <1>1, <1>2, WalkCharges DEF Faithful
<1>4. Prices(E, n) = Prices(L, n)
  BY <1>1, <1>2, SamePrices DEF Faithful
<1> QED
  BY <1>3, <1>4, BillIs DEF E, L

LEMMA WalkNothing ==
  ASSUME Asked, NEW r \in rows, NEW d
  PROVE  WalkTiers(Entries(r, d), 0) = 0
<1>1. CASE Entries(r, d) = {}
  BY <1>1, NothingToWalk
<1>2. CASE Entries(r, d) # {}
  <2> DEFINE E == Entries(r, d)
  <2>1. Tiered(E) /\ Tile(E)
    BY <1>2, EntriesFaithful DEF Faithful
  <2>2. 0 \in 0..Unbounded - 1 /\ 0 \in 0..Unbounded
    BY DEF Unbounded
  <2> HIDE DEF E
  <2>3. WalkTiers(E, 0) = SumFunction(Prices(E, 0)) /\ SumFunction(Prices(E, 0)) = 0
    BY <2>1, <2>2, WalkCharges, PricesSum
  <2> QED
    BY <2>3 DEF E
<1> QED
  BY <1>1, <1>2

LEMMA FlatIsBill ==
  ASSUME Asked, feed.src # "aws_cloudfront", NEW r \in rows, NEW d \in HourDim,
         Entries(r, d) # {}, NEW n \in 0..MaxVolume
  PROVE  Flatly(r, d, n) = Charge(Bill(r, d, n))
<1> DEFINE E == Entries(r, d)
           L == ListedTiers(r, d)
           start == {p \in E : p.from = 0}
           t == CHOOSE p \in start : TRUE
<1>1. n \in 0..Unbounded - 1 /\ n \in 0..Unbounded /\ n <= Unbounded
  BY VolumesBelowUnbounded DEF Unbounded
<1>2. Faithful(E, L)
  BY EntriesFaithful
<1>3. start # {}
  BY HourFlat
<1>4. t \in E /\ t.from = 0 /\ t.to = Unbounded
  BY <1>3, HourFlat
<1>5. Flatly(r, d, n) = Charge(n * t.usd)
  BY <1>3 DEF Flatly
<1> HIDE DEF E, L, start, t
<1>6. SumFunction(Prices(E, n)) = n * t.usd
  BY <1>1, <1>2, <1>4, BillFlat DEF Faithful
<1>7. Prices(E, n) = Prices(L, n)
  BY <1>1, <1>2, SamePrices DEF Faithful
<1> QED
  BY <1>5, <1>6, <1>7, BillIs DEF L

LEMMA FirstInIs ==
  ASSUME NEW dims, DOMAIN dims \in SUBSET Nat, NEW S, S # {}, S \subseteq Range(dims)
  PROVE  FirstIn(dims, S) \in S
<1> DEFINE ks == {k \in DOMAIN dims : dims[k] \in S}
<1>1. ks \in SUBSET Nat
  OBVIOUS
<1>2. ks # {}
  BY DEF Range
<1> HIDE DEF ks
<1>3. \E k \in ks : \A l \in ks : k <= l
  BY <1>1, <1>2, LeastOf
<1>4. Min(ks) \in ks
  BY <1>3 DEF Min
<1> QED
  BY <1>4 DEF FirstIn, ks

LEMMA PerUseIs ==
  ASSUME Asked, feed.src # "aws_cloudfront", NEW r \in rows, NEW q \in DOMAIN Measures,
         NEW dims, DOMAIN dims \in SUBSET Nat, Range(dims) = Measures[q],
         NEW d \in Measures[q], Entries(r, d) # {}, NEW n \in 0..MaxVolume
  PROVE  PerUse(r, dims, n) = Charge(Bill(r, d, n))
<1> DEFINE priced == {e \in Range(dims) : Entries(r, e) # {}}
<1>1. priced = {d}
  BY MeasuredIn
<1>2. FirstIn(dims, priced) = d
  <2>1. {d} # {} /\ {d} \subseteq Range(dims)
    OBVIOUS
  <2>2. FirstIn(dims, {d}) \in {d}
    BY <2>1, FirstInIs
  <2> QED
    BY <1>1, <2>2
<1>3. PerUse(r, dims, n) = Charge(WalkTiers(Entries(r, d), n))
  BY <1>1, <1>2 DEF PerUse
<1> QED
  BY <1>3, WalkIsBill

LEMMA Ranges ==
  /\ \A a, b : DOMAIN <<a, b>> \in SUBSET Nat /\ Range(<<a, b>>) = {a, b}
  /\ \A a, b, c : DOMAIN <<a, b, c>> \in SUBSET Nat /\ Range(<<a, b, c>>) = {a, b, c}
<1>1. \A a, b : DOMAIN <<a, b>> \in SUBSET Nat /\ Range(<<a, b>>) = {a, b}
  <2> TAKE a, b
  <2>1. DOMAIN <<a, b>> = {1, 2}
    OBVIOUS
  <2> QED
    BY <2>1 DEF Range
<1>2. \A a, b, c : DOMAIN <<a, b, c>> \in SUBSET Nat /\ Range(<<a, b, c>>) = {a, b, c}
  <2> TAKE a, b, c
  <2>1. DOMAIN <<a, b, c>> = {1, 2, 3}
    OBVIOUS
  <2> QED
    BY <2>1 DEF Range
<1> QED
  BY <1>1, <1>2

(* Queues and streams: by the call, by volume, or by the hour. *)
LEMMA QueueRight ==
  ASSUME Asked, feed.src # "aws_cloudfront", KindOf[feed.src] = "queue",
         NEW r \in rows, NEW want \in Wants(feed.src, r)
  PROVE  Right(r, want, QueueEstimate(r, want))
<1>1. PICK ps \in Params["queue"] :
        /\ want \in [ps -> 0..MaxVolume]
        /\ \A q \in ps : \E d \in Measures[q] : Entries(r, d) # {}
  BY WantIs
<1>2. ps \in {{"ops"}, {"tib"}, {"tu_hour"}, {"ppu_hour"}, {"mu_hour"}}
  BY <1>1 DEF Params
<1>3. PICK q : ps = {q} /\ q \in {"ops", "tib", "tu_hour", "ppu_hour", "mu_hour"}
  BY <1>2
<1>4. q \in DOMAIN Measures /\ DOMAIN want = {q} /\ want[q] \in 0..MaxVolume
      /\ want \in [{q} -> 0..MaxVolume]
  BY <1>1, <1>3 DEF Measures
<1>5. PICK d \in Measures[q] : Entries(r, d) # {}
  BY <1>1, <1>3
<1>6. Charged(r, want) = Bill(r, d, want[q]) /\ Bill(r, d, want[q]) \in Nat
  BY <1>4, <1>5, ChargedOne, BillNat
<1>7. QueueEstimate(r, want) = Charge(Bill(r, d, want[q]))
  <2>1. CASE q = "ops"
    <3> DEFINE dims == <<"request", "call", "event">>
    <3>1. DOMAIN dims \in SUBSET Nat /\ Range(dims) = {"request", "call", "event"}
      BY Ranges
    <3>2. Range(dims) = Measures[q]
      BY <2>1, <3>1 DEF Measures
    <3>3. QueueEstimate(r, want) = PerUse(r, dims, want[q])
      BY <1>4, <2>1 DEF QueueEstimate
    <3> HIDE DEF dims
    <3> QED
      BY <1>4, <1>5, <3>1, <3>2, <3>3, PerUseIs
  <2>2. CASE q = "tib"
    <3>1. d = "throughput"
      BY <1>5, <2>2 DEF Measures
    <3>2. QueueEstimate(r, want) = Charge(WalkTiers(Entries(r, d), want[q]))
      BY <1>4, <2>2, <3>1 DEF QueueEstimate
    <3> QED
      BY <1>4, <1>5, <3>2, WalkIsBill
  <2>3. CASE q \in {"tu_hour", "ppu_hour", "mu_hour"}
    <3>1. d = q /\ d \in HourDim
      BY <1>5, <2>3 DEF Measures, HourDim
    <3> DEFINE hours == Range(HourDims) \intersect DOMAIN want
    <3>2. DOMAIN HourDims \in SUBSET Nat /\ Range(HourDims) = {"tu_hour", "ppu_hour", "mu_hour"}
      BY Ranges DEF HourDims
    <3>3. hours = {q} /\ hours # {} /\ hours \subseteq Range(HourDims)
      BY <1>4, <2>3, <3>2
    <3>4. QueueEstimate(r, want) = Flatly(r, FirstIn(HourDims, hours), want[FirstIn(HourDims, hours)])
      BY <1>4, <2>3, <3>3 DEF QueueEstimate
    <3> HIDE DEF hours
    <3>5. FirstIn(HourDims, hours) = q
      BY <3>2, <3>3, FirstInIs
    <3> QED
      BY <1>4, <1>5, <3>1, <3>4, <3>5, FlatIsBill
  <2> QED
    BY <1>3, <2>1, <2>2, <2>3
<1> QED
  BY <1>6, <1>7 DEF Right, Charge

(* Gateways: by the hour of a unit, or by the call. *)
LEMMA GatewayRight ==
  ASSUME Asked, feed.src # "aws_cloudfront", KindOf[feed.src] = "gateway",
         NEW r \in rows, NEW want \in Wants(feed.src, r)
  PROVE  Right(r, want, GatewayEstimate(r, want))
<1>1. PICK ps \in Params["gateway"] :
        /\ want \in [ps -> 0..MaxVolume]
        /\ \A q \in ps : \E d \in Measures[q] : Entries(r, d) # {}
  BY WantIs
<1>2. ps \in {{"requests"}, {"units"}}
  BY <1>1 DEF Params
<1>3. PICK q : ps = {q} /\ q \in {"requests", "units"}
  BY <1>2
<1>4. q \in DOMAIN Measures /\ DOMAIN want = {q} /\ want[q] \in 0..MaxVolume
      /\ want \in [{q} -> 0..MaxVolume]
  BY <1>1, <1>3 DEF Measures
<1>5. PICK d \in Measures[q] : Entries(r, d) # {}
  BY <1>1, <1>3
<1>6. Charged(r, want) = Bill(r, d, want[q]) /\ Bill(r, d, want[q]) \in Nat
  BY <1>4, <1>5, ChargedOne, BillNat
<1>7. CASE q = "units"
  <2>1. d = "unit_hour" /\ d \in HourDim
    BY <1>5, <1>7 DEF Measures, HourDim
  <2>2. At(want, "units", 1) = want[q]
    BY <1>4, <1>7 DEF At
  <2>3. GatewayEstimate(r, want) = Flatly(r, d, want[q])
    BY <1>4, <1>5, <1>7, <2>1, <2>2 DEF GatewayEstimate
  <2>4. GatewayEstimate(r, want) = Charge(Bill(r, d, want[q]))
    BY <1>4, <1>5, <2>1, <2>3, FlatIsBill
  <2> QED
    BY <1>6, <2>4 DEF Right, Charge
<1>8. CASE q = "requests"
  <2>1. d \in {"request", "call"}
    BY <1>5, <1>8 DEF Measures
  <2>2. Entries(r, "unit_hour") = {}
    BY <1>5, <2>1, MeasuredIn
  <2>3. At(want, "requests", 0) = want[q] /\ "units" \notin DOMAIN want
    BY <1>4, <1>8 DEF At
  <2>4. CASE want[q] = 0
    <3>1. GatewayEstimate(r, want) = Refused
      BY <2>2, <2>3, <2>4 DEF GatewayEstimate
    <3> QED
      BY <1>4, <2>4, <3>1 DEF Right, Refused
  <2>5. CASE want[q] # 0
    <3> DEFINE dims == <<"request", "call">>
    <3>1. DOMAIN dims \in SUBSET Nat /\ Range(dims) = {"request", "call"}
      BY Ranges
    <3>2. Range(dims) = Measures[q]
      BY <1>8, <3>1 DEF Measures
    <3>3. GatewayEstimate(r, want) = PerUse(r, dims, want[q])
      BY <1>8, <2>2, <2>3, <2>5 DEF GatewayEstimate
    <3> HIDE DEF dims
    <3>4. GatewayEstimate(r, want) = Charge(Bill(r, d, want[q]))
      BY <1>4, <1>5, <3>1, <3>2, <3>3, PerUseIs
    <3> QED
      BY <1>6, <3>4 DEF Right, Charge
  <2> QED
    BY <2>4, <2>5
<1> QED
  BY <1>3, <1>7, <1>8

(* Name servers: zones and queries, each by tiers. *)
LEMMA DnsRight ==
  ASSUME Asked, feed.src # "aws_cloudfront", KindOf[feed.src] = "dns",
         NEW r \in rows, NEW want \in Wants(feed.src, r)
  PROVE  Right(r, want, DnsEstimate(r, want))
<1> DEFINE zones == At(want, "zones", 0)
           queries == At(want, "queries", 0)
           zw == WalkTiers(Entries(r, "hosted_zone"), zones)
           qw == WalkTiers(Entries(r, "query"), queries)
<1>1. PICK ps \in Params["dns"] :
        /\ want \in [ps -> 0..MaxVolume]
        /\ \A q \in ps : \E d \in Measures[q] : Entries(r, d) # {}
  BY WantIs
<1>2. ps \in {{"zones"}, {"queries"}, {"zones", "queries"}}
  BY <1>1 DEF Params
<1>3. DOMAIN want = ps /\ \A q \in ps : want[q] \in 0..MaxVolume
  BY <1>1
<1>4. Measures["zones"] = {"hosted_zone"} /\ Measures["queries"] = {"query"}
      /\ "zones" \in DOMAIN Measures /\ "queries" \in DOMAIN Measures
  BY DEF Measures
<1>5. /\ "zones" \in ps => Entries(r, "hosted_zone") # {}
      /\ "queries" \in ps => Entries(r, "query") # {}
  BY <1>1, <1>4
<1>6. /\ "zones" \in ps => zones = want["zones"]
      /\ "zones" \notin ps => zones = 0
      /\ "queries" \in ps => queries = want["queries"]
      /\ "queries" \notin ps => queries = 0
  BY <1>3 DEF At
<1>7. CASE zones = 0 /\ queries = 0
  <2>1. DnsEstimate(r, want) = Refused
    BY <1>7 DEF DnsEstimate
  <2>2. \A q \in DOMAIN want : want[q] = 0
    BY <1>2, <1>3, <1>6, <1>7
  <2> QED
    BY <2>1, <2>2 DEF Right, Refused
<1>8. CASE ~(zones = 0 /\ queries = 0)
  <2>1. DnsEstimate(r, want) = Charge(zw + qw)
    BY <1>8 DEF DnsEstimate
  <2>2. "zones" \in ps => zw = Bill(r, "hosted_zone", want["zones"]) /\ zw \in Nat
    BY <1>3, <1>5, <1>6, WalkIsBill, BillNat
  <2>3. "queries" \in ps => qw = Bill(r, "query", want["queries"]) /\ qw \in Nat
    BY <1>3, <1>5, <1>6, WalkIsBill, BillNat
  <2>4. ("zones" \notin ps => zw = 0) /\ ("queries" \notin ps => qw = 0)
    BY <1>6, WalkNothing
  <2> HIDE DEF zones, queries, zw, qw
  <2>5. CASE ps = {"zones"}
    <3>1. Charged(r, want) = Bill(r, "hosted_zone", want["zones"])
      BY <1>1, <1>4, <1>5, <2>5, ChargedOne
    <3>2. zw + qw = zw
      BY <2>2, <2>4, <2>5
    <3> QED
      BY <2>1, <2>2, <2>5, <3>1, <3>2 DEF Right, Charge
  <2>6. CASE ps = {"queries"}
    <3>1. Charged(r, want) = Bill(r, "query", want["queries"])
      BY <1>1, <1>4, <1>5, <2>6, ChargedOne
    <3>2. zw + qw = qw
      BY <2>3, <2>4, <2>6
    <3> QED
      BY <2>1, <2>3, <2>6, <3>1, <3>2 DEF Right, Charge
  <2>7. CASE ps = {"zones", "queries"}
    <3> DEFINE x == <<"zones", "hosted_zone">>
               y == <<"queries", "query">>
               f == [z \in PartsAsked(r, want) |-> Bill(r, z[2], want[z[1]])]
    <3>1. x[1] = "zones" /\ x[2] = "hosted_zone" /\ y[1] = "queries" /\ y[2] = "query" /\ x # y
      OBVIOUS
    <3>2. PartsAsked(r, want) = {x, y}
      <4>1. ASSUME NEW z \in PartsAsked(r, want) PROVE z = x \/ z = y
        <5>1. z = <<z[1], z[2]>> /\ z[1] \in ps /\ z[2] \in Measures[z[1]]
          BY <1>3 DEF PartsAsked
        <5> QED
          BY <1>4, <2>7, <5>1
      <4>2. x \in PartsAsked(r, want) /\ y \in PartsAsked(r, want)
        <5>1. x \in (DOMAIN want) \X UNION Range(Measures) /\ y \in (DOMAIN want) \X UNION Range(Measures)
          BY <1>3, <1>4, <2>7, Measured
        <5> HIDE DEF x, y
        <5> QED
          BY <1>4, <1>5, <2>7, <3>1, <5>1 DEF PartsAsked
      <4> QED
        BY <4>1, <4>2
    <3>3. DOMAIN f = {x, y} /\ f[x] = zw /\ f[y] = qw /\ zw \in Nat /\ qw \in Nat
      BY <2>2, <2>3, <2>7, <3>2
    <3>4. SumFunction(f) = zw + qw
      <4> HIDE DEF f, x, y
      <4> QED
        BY <3>1, <3>3, SumTwo
    <3> QED
      BY <2>1, <3>3, <3>4 DEF Right, Charge, Charged
  <2> QED
    BY <1>2, <2>5, <2>6, <2>7
<1> QED
  BY <1>7, <1>8
-----------------------------------------------------------------------------
(* The base fees added for a row: the prices of the rows that are its fees. *)
FeePrices(r) == UNION {q.prices : q \in BaseFees(rows, r)}

(* A price of a row of that name is of one dimension and kind, for all regions. *)
FeeApart(m, d) ==
  /\ KindOf[feed.src] = "cdn"
  /\ m \notin How.costs \union DOMAIN How.needs
  /\ d \notin How.spare \union DOMAIN How.ladder
  /\ \A k \in DOMAIN How.sells : <<m, d>> \in How.sells[k] =>
       k \in How.wide /\ How.sells[k] = {<<m, d>>}

LEMMA FeeDims ==
  ASSUME Asked, NEW r \in rows, NEW sku \in {"standard", "premium"},
         r.name = FrontDoorRow(<<sku, "egress">>),
         NEW m, m = FrontDoorRow(<<sku, "fee">>), NEW d, <<m, d>> \in Priced(How)
  PROVE  FeeApart(m, d)
<1>1. PICK row : RowIs(r, row)
  BY RowOf DEF RowIs
<1>2. PICK p \in Parts(How, acc, row) : TRUE
  BY <1>1 DEF RowIs
<1> DEFINE x == <<r.name, p.dim>>
           y == <<m, d>>
<1>3. x \in Priced(How) /\ y \in Priced(How)
  BY <1>1, PartPriced
<1>4. x[1] = r.name /\ y[1] = m /\ y[2] = d
  OBVIOUS
<1> HIDE DEF x, y
<1>5. feed.src \in Estimated
  BY PolicyPlain
<1>6. \A v, w \in Priced(How) :
        v[1] = FrontDoorRow(<<sku, "egress">>) /\ w[1] = FrontDoorRow(<<sku, "fee">>) =>
        /\ KindOf[feed.src] = "cdn"
        /\ w[1] \notin How.costs \union DOMAIN How.needs
        /\ w[2] \notin How.spare \union DOMAIN How.ladder
        /\ \A k \in DOMAIN How.sells : w \in How.sells[k] => k \in How.wide /\ How.sells[k] = {w}
  BY <1>5, FeesApart, Zenon DEF How
<1>7. /\ KindOf[feed.src] = "cdn"
      /\ y[1] \notin How.costs \union DOMAIN How.needs
      /\ y[2] \notin How.spare \union DOMAIN How.ladder
      /\ \A k \in DOMAIN How.sells : y \in How.sells[k] => k \in How.wide /\ How.sells[k] = {y}
  BY <1>3, <1>4, <1>6
<1> QED
  BY <1>4, <1>7 DEF FeeApart, y

LEMMA FeeSays ==
  ASSUME Asked, NEW r \in rows, NEW p \in Fees(r)
  PROVE  /\ FeeApart(p.row.name, p.dim)
         /\ p \in acc /\ p.row.region = "global" /\ IsPrice(p)
         /\ \E i \in feed.doc : /\ p \in Fills(How, i) /\ p.n = i.n
                                /\ How.sells[i.kind] = {<<p.row.name, p.dim>>}
                                /\ p.row.by = (IF p.row.name \in How.own THEN i.n ELSE Nobody)
<1>1. AllKept /\ \A x \in Priced(How) : IsPair(x)
  BY PolicyPlain
<1>2. PICK i \in feed.doc : p \in Fills(How, i)
  BY DEF Fees
<1>3. p \in acc /\ IsPrice(p)
  <2>1. p \in acc
    BY <1>1, <1>2, KeptFrom
  <2> QED
    BY <1>1, <2>1, AccKept DEF AllKept, IsKept
<1>4. /\ Taken(How, i) /\ <<p.row.name, p.dim>> \in How.sells[i.kind]
      /\ p.row.region \in Places(How, i) /\ p.n = i.n
      /\ p.row.by = (IF p.row.name \in How.own THEN i.n ELSE Nobody)
  BY <1>1, <1>2, FillSays
<1>5. <<p.row.name, p.dim>> \in Priced(How)
  BY <1>4 DEF Priced, Range, Taken
<1>6. PICK sku \in {"standard", "premium"} :
        /\ r.name = FrontDoorRow(<<sku, "egress">>)
        /\ p.row.name = FrontDoorRow(<<sku, "fee">>)
  BY DEF Fees
<1>7. FeeApart(p.row.name, p.dim)
  BY <1>5, <1>6, FeeDims
<1>8. i.kind \in How.wide /\ How.sells[i.kind] = {<<p.row.name, p.dim>>}
  BY <1>4, <1>7 DEF FeeApart, Taken
<1>9. p.row.region = "global"
  BY <1>4, <1>8 DEF Places
<1> QED
  BY <1>2, <1>3, <1>4, <1>7, <1>8, <1>9

(* Nothing else has any. *)
LEMMA NoFees ==
  ASSUME Asked, NEW r \in rows, KindOf[feed.src] # "cdn"
  PROVE  Fees(r) = {}
BY FeeSays DEF FeeApart

(* A fee is told by its item and where it starts. *)
LEMMA FeeTold ==
  ASSUME Asked, NEW r \in rows, NEW p \in Fees(r), NEW q \in Fees(r), p.n = q.n, p.from = q.from
  PROVE  p = q
<1>1. AllKept /\ IInv
  BY PolicyPlain DEF AllKept
<1>2. PICK i \in feed.doc : /\ p \in Fills(How, i) /\ p.n = i.n
                            /\ How.sells[i.kind] = {<<p.row.name, p.dim>>}
                            /\ p.row.by = (IF p.row.name \in How.own THEN i.n ELSE Nobody)
  BY FeeSays
<1>3. PICK j \in feed.doc : /\ q \in Fills(How, j) /\ q.n = j.n
                            /\ How.sells[j.kind] = {<<q.row.name, q.dim>>}
                            /\ q.row.by = (IF q.row.name \in How.own THEN j.n ELSE Nobody)
  BY FeeSays
<1>4. i = j
  BY <1>1, <1>2, <1>3, PolicyGiven
<1>5. p.row.name = q.row.name /\ p.dim = q.dim
  <2>1. {<<p.row.name, p.dim>>} = {<<q.row.name, q.dim>>}
    BY <1>2, <1>3, <1>4, Zenon
  <2>2. <<p.row.name, p.dim>> = <<q.row.name, q.dim>>
    BY <2>1, Zenon
  <2> QED
    BY <2>2
<1>6. IsPrice(p) /\ IsPrice(q) /\ p.row.region = "global" /\ q.row.region = "global"
  BY FeeSays
<1>7. p.row.by = q.row.by
  BY <1>2, <1>3, <1>4, <1>5
<1>8. p.row = q.row
  BY <1>5, <1>6, <1>7 DEF IsPrice
<1>9. Cell(p) = Cell(q)
  BY <1>5, <1>8 DEF Cell
<1> QED
  BY <1>1, <1>2, <1>3, <1>4, <1>9, OneTier

(* The fees are the prices of the rows of that name. *)
LEMMA FeeOut ==
  ASSUME Asked, NEW r \in rows, NEW x \in FeePrices(r)
  PROVE  \E p \in Fees(r) : x = Published(How, p)
<1>1. PICK q \in BaseFees(rows, r) : x \in q.prices
  BY DEF FeePrices
<1>2. PICK sku \in {"standard", "premium"} :
        /\ q \in rows /\ r.name = FrontDoorRow(<<sku, "egress">>)
        /\ q.name = FrontDoorRow(<<sku, "fee">>)
  BY DEF BaseFees
<1>3. PICK row : RowIs(q, row)
  BY <1>2, RowOf DEF RowIs
<1>4. PICK p \in Parts(How, acc, row) : x = Published(How, p)
  BY <1>1, <1>3 DEF RowIs
<1>5. <<q.name, p.dim>> \in Priced(How)
  BY <1>2, <1>3, PartPriced
<1>6. FeeApart(q.name, p.dim)
  BY <1>2, <1>5, FeeDims
<1>7. AllKept /\ p \in OwnParts(How, acc, row) /\ p.dim \notin DOMAIN How.ladder
  BY <1>3, <1>6, PolicyPlain DEF RowIs, FeeApart
<1>8. p \in KeptOf(How, acc, row)
  <2> DEFINE kept == KeptOf(How, acc, row)
  <2>1. \A y \in kept : IsPrice(y)
    BY <1>7, AccKept DEF AllKept, KeptOf, IsKept
  <2>2. p \in OfDim(Laddered(How, kept), p.dim)
    BY <1>7 DEF OwnParts, OfDim
  <2> HIDE DEF kept
  <2>3. p \in OfDim(kept, p.dim)
    BY <1>7, <2>1, <2>2, LadderedOf
  <2> QED
    BY <2>3 DEF OfDim, kept
<1>9. p \in acc /\ p.row = row
  BY <1>8 DEF KeptOf
<1>10. PICK i \in feed.doc : p \in Fills(How, i)
  BY <1>7, <1>9, KeptFrom
<1>11. p.row.name = q.name
  BY <1>3, <1>9 DEF RowIs
<1> QED
  BY <1>2, <1>4, <1>10, <1>11 DEF Fees

LEMMA FeeIn ==
  ASSUME Asked, NEW r \in rows, NEW p \in Fees(r)
  PROVE  Published(How, p) \in FeePrices(r)
<1> DEFINE row == p.row
           parts == Parts(How, acc, row)
<1>1. /\ AllKept /\ rows = RowsOf(How, acc) /\ How.spread = {} /\ How.summed = {}
  BY PolicyPlain
<1>2. FeeApart(row.name, p.dim) /\ p \in acc /\ row.region = "global"
  BY FeeSays
<1>3. row \in Opened(How, acc)
  BY <1>1, <1>2 DEF Opened
<1>4. p \in KeptOf(How, acc, row)
  BY <1>2 DEF KeptOf, FeeApart
<1>5. p \in parts
  <2> DEFINE kept == KeptOf(How, acc, row)
  <2>1. \A y \in kept : IsPrice(y)
    BY <1>1, AccKept DEF AllKept, KeptOf, IsKept
  <2>2. p \in OfDim(kept, p.dim) /\ p.dim \notin DOMAIN How.ladder
    BY <1>2, <1>4 DEF OfDim, FeeApart
  <2> HIDE DEF kept
  <2>3. p \in OfDim(Laddered(How, kept), p.dim)
    BY <2>1, <2>2, LadderedOf
  <2>4. p \in OwnParts(How, acc, row)
    BY <2>3 DEF OfDim, OwnParts, kept
  <2> QED
    BY <2>4, PartsAre
<1>6. Whole(How, row, parts)
  BY <1>2, <1>5 DEF Whole, FeeApart, At
<1> DEFINE q == [sku |-> SkuId(How, acc, row, parts), name |-> row.name, region |-> row.region,
                 prices |-> PriceList(How, row, parts)]
<1>7. q \in rows
  BY <1>1, <1>3, <1>6 DEF RowsOf
<1>8. q.name = row.name /\ q.region = row.region /\ q.prices = PriceList(How, row, parts)
  OBVIOUS
<1>9. Published(How, p) \in q.prices
  BY <1>1, <1>5, <1>8, PricesAre
<1> HIDE DEF q
<1>10. q \in BaseFees(rows, r)
  BY <1>2, <1>7, <1>8 DEF Fees, BaseFees
<1> QED
  BY <1>9, <1>10 DEF FeePrices

LEMMA FeeTyped ==
  ASSUME Asked, NEW r \in rows, NEW p \in Fees(r)
  PROVE  p.usd \in Nat /\ p.from \in 0..Unbounded - 1
<1> DEFINE x == Published(How, p)
<1>1. PICK q \in rows : x \in q.prices
  BY FeeIn DEF FeePrices, BaseFees
<1>2. x \in Entries(q, x.dim)
  BY <1>1 DEF Entries
<1>3. Tiered(Entries(q, x.dim))
  BY <1>2, EntriesFaithful DEF Faithful
<1>4. x.usd \in Nat /\ x.from \in 0..Unbounded - 1
  BY <1>2, <1>3 DEF Tiered
<1> QED
  BY <1>4 DEF Published

LEMMA FeesFinite ==
  ASSUME Asked, NEW r \in rows
  PROVE  IsFiniteSet(Fees(r))
<1> DEFINE ns == {i.n : i \in feed.doc}
           starts == 0..Unbounded - 1
           f == [p \in Fees(r) |-> <<p.n, p.from>>]
<1>1. IsFiniteSet(ns \X starts)
  <2>1. IsFiniteSet(ns)
    BY NumbersFew DEF Asked
  <2> HIDE DEF ns
  <2> QED
    BY <2>1, StartsFinite, FS_Product
<1>2. \A p \in Fees(r) : p.n \in ns /\ p.from \in starts
  BY FeeSays, FeeTyped
<1>3. \A p, q \in Fees(r) : <<p.n, p.from>> = <<q.n, q.from>> => p = q
  BY FeeTold
<1> DEFINE pairs == ns \X starts
<1>4. \A p \in Fees(r) : <<p.n, p.from>> \in pairs
  BY <1>2
<1> HIDE DEF pairs, ns, starts
<1>5. f \in Injection(Fees(r), pairs)
  <2>1. f \in [Fees(r) -> pairs]
    BY <1>4
  <2>2. \A p, q \in Fees(r) : f[p] = f[q] => p = q
    BY <1>3
  <2> HIDE DEF f
  <2> QED
    BY <2>1, <2>2 DEF Injection, IsInjective
<1> HIDE DEF f
<1> QED
  BY <1>1, <1>5, FS_Injection DEF pairs

(* They add up to the same. *)
LEMMA FeesAdd ==
  ASSUME Asked, NEW r \in rows
  PROVE  /\ SumFunction([x \in FeePrices(r) |-> x.usd]) = SumFunction([p \in Fees(r) |-> p.usd])
         /\ SumFunction([p \in Fees(r) |-> p.usd]) \in Nat
         /\ Fees(r) = {} => SumFunction([p \in Fees(r) |-> p.usd]) = 0
<1> DEFINE S == Fees(r)
           X == FeePrices(r)
           fun == [p \in S |-> p.usd]
           gun == [x \in X |-> x.usd]
           m == [p \in S |-> Published(How, p)]
<1>1. IsFiniteSet(S)
  BY FeesFinite
<1>2. \A p \in S : fun[p] \in Nat
  BY FeeTyped
<1>3. \A p \in S : m[p] \in X /\ gun[m[p]] = fun[p]
  <2> TAKE p \in S
  <2>1. m[p] = Published(How, p) /\ Published(How, p) \in X
    BY FeeIn
  <2>2. Published(How, p).usd = p.usd
    BY DEF Published
  <2> HIDE DEF S, X
  <2> QED
    BY <2>1, <2>2
<1>4. \A p, q \in S : m[p] = m[q] => p = q
  <2> SUFFICES ASSUME NEW p \in S, NEW q \in S, m[p] = m[q] PROVE p = q
    OBVIOUS
  <2>1. Published(How, p) = Published(How, q)
    OBVIOUS
  <2>2. p.n = q.n /\ p.from = q.from
    BY <2>1 DEF Published
  <2> QED
    BY <2>2, FeeTold
<1>5. {m[p] : p \in S} = X
  <2>1. \A x \in X : \E p \in S : x = m[p]
    BY FeeOut
  <2> HIDE DEF m, S, X
  <2> QED
    BY <1>3, <2>1
<1>6. DOMAIN fun = S /\ DOMAIN gun = X
  OBVIOUS
<1> HIDE DEF S, X, fun, gun, m
<1>7. SumFunctionOnSet(gun, {m[p] : p \in S}) = SumFunctionOnSet(fun, S)
  <2>1. \A p \in S : gun[m[p]] = fun[p]
    BY <1>3
  <2> QED
    BY <1>1, <1>2, <1>4, <2>1, SumMapped
<1>8. SumFunctionOnSet(fun, S) \in Nat /\ (S = {} => SumFunctionOnSet(fun, S) = 0)
  BY <1>1, <1>2, SumOf
<1>9. SumFunction(gun) = SumFunction(fun) /\ SumFunction(fun) = SumFunctionOnSet(fun, S)
  BY <1>5, <1>6, <1>7 DEF SumFunction
<1> QED
  BY <1>8, <1>9 DEF S, X, fun, gun

(* CDN egress: the first tier, and the fees. *)
LEMMA CdnRight ==
  ASSUME Asked, KindOf[feed.src] = "cdn", NEW r \in rows, NEW want \in Wants(feed.src, r)
  PROVE  LET answer == CdnEstimate(feed.src, rows, r, want)
         IN  IF answer.given
             THEN answer.usd = Charged(r, want) + SumFunction([p \in Fees(r) |-> p.usd])
             ELSE Beyond(r, want)
<1> DEFINE E == Entries(r, "egress")
           L == ListedTiers(r, "egress")
           start == {p \in E : p.from = 0}
           tier == CHOOSE p \in start : TRUE
           v == want["gb"]
           answer == CdnEstimate(feed.src, rows, r, want)
<1>1. PICK ps \in Params["cdn"] :
        /\ want \in [ps -> 0..MaxVolume]
        /\ \A q \in ps : \E d \in Measures[q] : Entries(r, d) # {}
  BY WantIs
<1>2. ps = {"gb"} /\ Measures["gb"] = {"egress"} /\ "gb" \in DOMAIN Measures
  BY <1>1 DEF Params, Measures
<1>3. DOMAIN want = {"gb"} /\ v \in 0..MaxVolume /\ E # {} /\ want \in [{"gb"} -> 0..MaxVolume]
  BY <1>1, <1>2
<1>4. v \in 0..Unbounded - 1 /\ v \in Nat
  BY <1>3, VolumesBelowUnbounded DEF Unbounded
<1>5. Faithful(E, L)
  BY <1>3, EntriesFaithful
<1>6. start # {}
  BY <1>5 DEF Faithful, Tile
<1>7. tier \in E /\ tier.from = 0
  BY <1>6
<1>8. Charged(r, want) = Bill(r, "egress", v) /\ Bill(r, "egress", v) = SumFunction(Prices(L, v))
  BY <1>2, <1>3, ChargedOne, BillIs
<1>9. answer = IF CdnBound(feed.src, tier) < v THEN Refused
               ELSE Charge(v * tier.usd + SumFunction([x \in FeePrices(r) |-> x.usd]))
  BY <1>3, <1>6 DEF CdnEstimate, FeePrices
<1> HIDE DEF E, L, start, tier, answer, v
<1>10. PICK l \in L : l.from = 0 /\ l.to = CdnBound(feed.src, tier) /\ l.usd = tier.usd
  <2>1. CASE feed.src # "aws_cloudfront"
    BY <1>5, <1>7, <2>1 DEF Faithful, AsListed, CdnBound
  <2>2. CASE feed.src = "aws_cloudfront"
    BY <1>5, <1>7, <2>2 DEF Faithful, CdnBound
  <2> QED
    BY <2>1, <2>2
<1>11. CASE l.to < v
  <2>1. answer = Refused
    BY <1>9, <1>10, <1>11
  <2> QED
    BY <1>10, <1>11, <2>1 DEF Beyond, Refused, L, v, answer
<1>12. CASE ~(l.to < v)
  <2>1. l.to \in Nat
    BY <1>5 DEF Faithful, Tiered, Unbounded
  <2>2. v <= l.to
    BY <1>4, <1>12, <2>1
  <2>3. SumFunction(Prices(L, v)) = v * l.usd
    BY <1>4, <1>5, <1>10, <2>2, BillFlat DEF Faithful
  <2>4. SumFunction([x \in FeePrices(r) |-> x.usd]) = SumFunction([p \in Fees(r) |-> p.usd])
    BY FeesAdd
  <2>5. answer = Charge(v * tier.usd + SumFunction([x \in FeePrices(r) |-> x.usd]))
    BY <1>9, <1>10, <1>12
  <2>6. answer.given /\ answer.usd = v * tier.usd + SumFunction([x \in FeePrices(r) |-> x.usd])
    BY <2>5 DEF Charge
  <2> QED
    BY <1>8, <1>10, <2>3, <2>4, <2>6 DEF answer
<1> QED
  BY <1>11, <1>12

(* Rows that share a region are of CDN egress. *)
LEMMA FoundAlone ==
  ASSUME Asked, NEW r \in rows, NEW q \in Found(feed.src, rows, r), KindOf[feed.src] # "cdn"
  PROVE  q = r
<1>1. /\ AllKept /\ rows = RowsOf(How, acc) /\ feed.src \in Estimated
  BY PolicyPlain
<1>2. How.own = {} /\ How.filed = <<>>
  BY <1>1, RowsAlone, Zenon DEF Asked, How
<1>3. DOMAIN How.filed = {}
  BY <1>2
<1>4. q \in rows /\ q.name = r.name /\ q.region = r.region
  BY <1>3 DEF Found, PublishedIn, At, How
<1> DEFINE made(row) ==
      [sku    |-> SkuId(How, acc, row, Parts(How, acc, row)),
       name   |-> row.name,
       region |-> row.region,
       prices |-> PriceList(How, row, Parts(How, acc, row))]
<1>5. PICK a \in Opened(How, acc) : r = made(a)
  BY <1>1 DEF RowsOf
<1>6. PICK b \in Opened(How, acc) : q = made(b)
  BY <1>1, <1>4 DEF RowsOf
<1>7. a.name = b.name /\ a.region = b.region
  BY <1>4, <1>5, <1>6
<1>8. IsRow(a) /\ IsRow(b) /\ a.by = Nobody /\ b.by = Nobody
  BY <1>1, <1>2, RowBy
<1>9. a = b
  BY <1>7, <1>8 DEF IsRow
<1> QED
  BY <1>5, <1>6, <1>9

(* The same may be asked of all rows of CDN egress. *)
LEMMA WantsAlike ==
  ASSUME KindOf[feed.src] = "cdn", NEW r \in rows, NEW q \in Found(feed.src, rows, r),
         NEW want \in Wants(feed.src, r)
  PROVE  q \in rows /\ want \in Wants(feed.src, q)
<1>1. q \in rows /\ Entries(q, "egress") # {}
  BY DEF Found
<1>2. PICK ps \in Params["cdn"] : want \in [ps -> 0..MaxVolume]
  BY WantIs
<1>3. ps = {"gb"} /\ Measures["gb"] = {"egress"}
  BY <1>2 DEF Params, Measures
<1>4. \A x \in ps : \E d \in Measures[x] : Entries(q, d) # {}
  BY <1>1, <1>3
<1> QED
  BY <1>1, <1>2, <1>4 DEF Wants

(* The estimate from a row is what is due where it is sold. *)
Answered(r, want, answer) ==
  IF answer.given THEN answer.usd = Due(r, want)
  ELSE \/ \A x \in DOMAIN want : want[x] = 0
       \/ KindOf[feed.src] = "cdn" /\ Beyond(r, want)

LEMMA EstimateRight ==
  ASSUME Asked, NEW r \in rows, NEW want \in Wants(feed.src, r)
  PROVE  Answered(r, want, EstimateOf(feed.src, rows, r, want))
<1> DEFINE k == KindOf[feed.src]
           answer == EstimateOf(feed.src, rows, r, want)
           fee == SumFunction([p \in Fees(r) |-> p.usd])
<1>1. Due(r, want) = Charged(r, want) + fee
  BY DEF Due
<1>2. k \in {"queue", "gateway", "dns", "cdn"} /\ (feed.src = "aws_cloudfront" => k = "cdn")
  BY Kinds DEF Asked
<1>3. CASE k # "cdn"
  <2>1. Fees(r) = {} /\ fee = 0
    BY <1>3, NoFees, FeesAdd
  <2>2. feed.src # "aws_cloudfront"
    BY <1>2, <1>3
  <2>3. Right(r, want, answer)
    <3>1. CASE k = "queue"
      BY <2>2, <3>1, QueueRight DEF EstimateOf
    <3>2. CASE k = "gateway"
      BY <2>2, <3>2, GatewayRight DEF EstimateOf
    <3>3. CASE k = "dns"
      BY <2>2, <3>3, DnsRight DEF EstimateOf
    <3> QED
      BY <1>2, <1>3, <3>1, <3>2, <3>3
  <2> HIDE DEF answer, fee
  <2>4. answer.given => answer.usd = Charged(r, want) + fee
    BY <2>1, <2>3 DEF Right
  <2>5. Answered(r, want, answer)
    BY <1>1, <2>3, <2>4 DEF Answered, Right
  <2> QED
    BY <2>5 DEF answer
<1>4. CASE k = "cdn"
  <2>1. answer = CdnEstimate(feed.src, rows, r, want)
    BY <1>4 DEF EstimateOf
  <2>2. IF answer.given THEN answer.usd = Charged(r, want) + fee ELSE Beyond(r, want)
    BY <1>4, <2>1, CdnRight
  <2> QED
    BY <1>1, <1>4, <2>2 DEF Answered
<1> QED
  BY <1>3, <1>4

(* What an estimate charges is what the provider would, unit by unit and    *)
(* with the base fee, where one of the rows found is sold: the estimators   *)
(* of internal/estimate over the prices a row was given by its items.       *)
THEOREM ChargedCorrect == Spec => []ChargedAsListed
<1>1. IInv => ChargedAsListed
  <2> SUFFICES ASSUME Asked, NEW r \in rows, NEW want \in Wants(feed.src, r),
                      NEW answer \in Answers(feed.src, rows, r, want)
               PROVE  \E q \in Found(feed.src, rows, r) : Answered(q, want, answer)
    BY DEF ChargedAsListed, Asked, Answered
  <2>1. PICK q \in Found(feed.src, rows, r) : answer = EstimateOf(feed.src, rows, q, want)
    BY DEF Answers
  <2>2. q \in rows /\ want \in Wants(feed.src, q)
    BY FoundAlone, WantsAlike
  <2>3. Answered(q, want, answer)
    BY <2>1, <2>2, EstimateRight
  <2> QED
    BY <2>3
<1> QED
  BY <1>1, Invariance, PTL
=============================================================================
