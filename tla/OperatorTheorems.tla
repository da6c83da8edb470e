-------------------------- MODULE OperatorTheorems --------------------------
(***************************************************************************)
(* Facts about the operators the models are built from, for every input:   *)
(* what Total computes (the sum of the positive amounts, one element at a  *)
(* time), what the scan for conflicting conditions finds, which conditions *)
(* the flattened list of a bundle holds, and what a signature over a       *)
(* payload says about the conditions it was made from.                     *)
(***************************************************************************)
EXTENDS ChannelOps, Payload, FiniteSetTheorems, SequenceTheorems, WellFoundedInduction, TLAPS

(* What one amount contributes.                                            *)
Pos(n) == IF n > 0 THEN n ELSE 0

(* The units of finitely many amounts are finitely many.                   *)
LEMMA UnitsFinite ==
  ASSUME NEW f, NEW S, IsFiniteSet(S)
  PROVE  IsFiniteSet(Units(f, S))
<1>1. 1 \in Int /\ MaxAmount \in Int  BY MaxAmountAssumption
<1>2. IsFiniteSet(1 .. MaxAmount)  BY <1>1, FS_Interval
<1>3. IsFiniteSet(S \X (1 .. MaxAmount))  BY <1>2, FS_Product
<1>4. Units(f, S) \subseteq S \X (1 .. MaxAmount)  BY DEF Units
<1> QED  BY <1>3, <1>4, FS_Subset

LEMMA TotalType ==
  ASSUME NEW f, NEW S, IsFiniteSet(S)
  PROVE  Total(f, S) \in Nat
BY UnitsFinite, FS_CardinalityType DEF Total

LEMMA TotalEmpty ==
  ASSUME NEW f
  PROVE  Total(f, {}) = 0
<1>1. Units(f, {}) = {}  BY DEF Units
<1> QED  BY <1>1, FS_EmptySet DEF Total

(* Only the amounts of the counted elements matter.                        *)
LEMMA TotalAgree ==
  ASSUME NEW f, NEW g, NEW S, \A x \in S : f[x] = g[x]
  PROVE  Total(f, S) = Total(g, S)
<1>1. Units(f, S) = Units(g, S)  BY DEF Units
<1> QED  BY <1>1 DEF Total

(* One amount counts as itself.                                            *)
LEMMA TotalOne ==
  ASSUME NEW f, NEW x, f[x] \in Int, f[x] <= MaxAmount
  PROVE  Total(f, {x}) = Pos(f[x])
<1> DEFINE U == Units(f, {x})
           b == [k \in 1 .. f[x] |-> <<x, k>>]
<1>0. MaxAmount \in Nat  BY MaxAmountAssumption
<1>1. CASE f[x] <= 0
  <2>1. U = {}  BY <1>0, <1>1 DEF Units
  <2> QED  BY <2>1, <1>1, FS_EmptySet DEF Total, Pos
<1>2. CASE f[x] > 0
  <2>1. \A k \in 1 .. f[x] : k \in 1 .. MaxAmount  BY <1>0, <1>2
  <2>2. U = {<<x, k>> : k \in 1 .. f[x]}
    <3>1. ASSUME NEW c \in U  PROVE c \in {<<x, k>> : k \in 1 .. f[x]}
      <4>1. c \in {x} \X (1 .. MaxAmount) /\ c[2] <= f[c[1]]  BY <3>1 DEF Units
      <4>2. c = <<x, c[2]>> /\ c[2] \in 1 .. MaxAmount /\ c[1] = x  BY <4>1
      <4>3. c[2] \in 1 .. f[x]  BY <4>1, <4>2, <1>0, <1>2
      <4> QED  BY <4>2, <4>3
    <3>2. ASSUME NEW k \in 1 .. f[x]  PROVE <<x, k>> \in U
      BY <2>1, <1>0, <1>2 DEF Units
    <3> QED  BY <3>1, <3>2
  <2>3. b \in Bijection(1 .. f[x], U)
    BY <2>2 DEF Bijection, Injection, Surjection, IsInjective
  <2>4. IsFiniteSet(1 .. f[x]) /\ Cardinality(1 .. f[x]) = f[x]
    <3>1. 1 \in Int  OBVIOUS
    <3>2. /\ IsFiniteSet(1 .. f[x])
          /\ Cardinality(1 .. f[x]) = IF 1 > f[x] THEN 0 ELSE f[x] - 1 + 1
      BY <3>1, FS_Interval
    <3> QED  BY <3>2, <1>2
  <2>5. ExistsBijection(1 .. f[x], U)  BY <2>3 DEF ExistsBijection
  <2>6. Cardinality(U) = Cardinality(1 .. f[x])  BY <2>4, <2>5, FS_Bijection
  <2> QED  BY <2>4, <2>6, <1>2 DEF Total, Pos
<1> QED  BY <1>1, <1>2

(* An element more adds its amount.                                        *)
LEMMA TotalAdd ==
  ASSUME NEW f, NEW S, IsFiniteSet(S), NEW x, x \notin S,
         f[x] \in Int, f[x] <= MaxAmount
  PROVE  Total(f, S \cup {x}) = Total(f, S) + Pos(f[x])
<1>1. Units(f, S \cup {x}) = Units(f, S) \cup Units(f, {x})  BY DEF Units
<1>2. Units(f, S) \cap Units(f, {x}) = {}  BY DEF Units
<1>3. IsFiniteSet({x})  BY FS_Singleton
<1>4. IsFiniteSet(Units(f, S)) /\ IsFiniteSet(Units(f, {x}))  BY <1>3, UnitsFinite
<1>5. Cardinality(Units(f, S) \cup Units(f, {x})) =
        Cardinality(Units(f, S)) + Cardinality(Units(f, {x}))
          - Cardinality(Units(f, S) \cap Units(f, {x}))
  BY <1>4, FS_Union
<1>6. Cardinality(Units(f, S)) \in Nat /\ Cardinality(Units(f, {x})) \in Nat
  BY <1>4, FS_CardinalityType
<1>7. Cardinality(Units(f, S) \cap Units(f, {x})) = 0  BY <1>2, FS_EmptySet
<1>8. Cardinality(Units(f, {x})) = Pos(f[x])  BY TotalOne DEF Total
<1>9. Cardinality(Units(f, S \cup {x})) = Cardinality(Units(f, S)) + Pos(f[x])
  <2>1. Cardinality(Units(f, S) \cup Units(f, {x})) =
          Cardinality(Units(f, S)) + Cardinality(Units(f, {x}))
    BY <1>5, <1>6, <1>7
  <2> QED  BY <2>1, <1>1, <1>8
<1> QED  BY <1>9 DEF Total

(* The total of two disjoint families is the sum of theirs.                *)
LEMMA TotalUnion ==
  ASSUME NEW f, NEW S, NEW T, IsFiniteSet(S), IsFiniteSet(T), S \cap T = {}
  PROVE  Total(f, S \cup T) = Total(f, S) + Total(f, T)
<1> DEFINE A == Units(f, S)
           B == Units(f, T)
<1>1. Units(f, S \cup T) = A \cup B  BY DEF Units
<1>2. A \cap B = {}  BY DEF Units
<1>3. IsFiniteSet(A) /\ IsFiniteSet(B)  BY UnitsFinite
<1> HIDE DEF A, B
<1>4. Cardinality(A) \in Nat /\ Cardinality(B) \in Nat  BY <1>3, FS_CardinalityType
<1>5. Cardinality(A \cup B) = Cardinality(A) + Cardinality(B) - Cardinality(A \cap B)
  BY <1>3, FS_Union
<1>6. Cardinality(A \cap B) = 0  BY <1>2, FS_EmptySet
<1>7. Cardinality(A \cup B) = Cardinality(A) + Cardinality(B)  BY <1>4, <1>5, <1>6
<1> QED  BY <1>1, <1>7, Zenon DEF Total, A, B

(* Amounts counted under other names, one by one, have the same total.     *)
LEMMA TotalRenamed ==
  ASSUME NEW S, NEW T, IsFiniteSet(S), NEW b \in Bijection(S, T),
         NEW f, NEW g, \A x \in S : g[b[x]] = f[x]
  PROVE  Total(f, S) = Total(g, T)
<1> DEFINE U == Units(f, S)
           V == Units(g, T)
           h == [c \in U |-> <<b[c[1]], c[2]>>]
<1>1. /\ b \in [S -> T]
      /\ \A x, y \in S : b[x] = b[y] => x = y
      /\ \A t \in T : \E x \in S : b[x] = t
  BY DEF Bijection, Injection, Surjection, IsInjective
<1>2. \A c \in U : /\ c \in S \X (1 .. MaxAmount) /\ c[1] \in S /\ c[2] \in 1 .. MaxAmount
                   /\ c = <<c[1], c[2]>> /\ c[2] <= f[c[1]]
  BY DEF Units
<1>3. h \in [U -> V]
  <2> SUFFICES ASSUME NEW c \in U  PROVE <<b[c[1]], c[2]>> \in V
    OBVIOUS
  <2>1. b[c[1]] \in T /\ g[b[c[1]]] = f[c[1]]  BY <1>1, <1>2
  <2> QED  BY <1>2, <2>1 DEF Units
<1>4. \A c, d \in U : h[c] = h[d] => c = d
  <2> SUFFICES ASSUME NEW c \in U, NEW d \in U, h[c] = h[d]  PROVE c = d
    OBVIOUS
  <2>1. b[c[1]] = b[d[1]] /\ c[2] = d[2]  OBVIOUS
  <2>2. c[1] = d[1]  BY <1>1, <1>2, <2>1
  <2> QED  BY <1>2, <2>1, <2>2
<1>5. \A v \in V : \E c \in U : h[c] = v
  <2> SUFFICES ASSUME NEW v \in V  PROVE \E c \in U : h[c] = v
    OBVIOUS
  <2>1. v[1] \in T /\ v[2] \in 1 .. MaxAmount /\ v = <<v[1], v[2]>> /\ v[2] <= g[v[1]]
    BY DEF Units
  <2>2. PICK x \in S : b[x] = v[1]  BY <1>1, <2>1
  <2>3. <<x, v[2]>> \in U  BY <2>1, <2>2 DEF Units
  <2>4. h[<<x, v[2]>>] = v  BY <2>1, <2>2, <2>3
  <2> QED  BY <2>3, <2>4
<1>6. IsFiniteSet(U)  BY UnitsFinite
<1> HIDE DEF U, V, h
<1>7. h \in Bijection(U, V)
  BY <1>3, <1>4, <1>5 DEF Bijection, Injection, Surjection, IsInjective
<1>8. ExistsBijection(U, V)  BY <1>7 DEF ExistsBijection
<1>9. Cardinality(V) = Cardinality(U)  BY <1>6, <1>8, FS_Bijection
<1> QED  BY <1>9 DEF Total, U, V

(* Fewer elements are worth no more.                                       *)
LEMMA TotalSubset ==
  ASSUME NEW f, NEW S, NEW T, IsFiniteSet(T), S \subseteq T
  PROVE  Total(f, S) <= Total(f, T)
<1>1. IsFiniteSet(S) /\ IsFiniteSet(T \ S)  BY FS_Subset
<1>2. S \cup (T \ S) = T /\ S \cap (T \ S) = {}  OBVIOUS
<1>3. Total(f, S \cup (T \ S)) = Total(f, S) + Total(f, T \ S)  BY <1>1, <1>2, TotalUnion
<1>4. Total(f, S) \in Nat /\ Total(f, T \ S) \in Nat  BY <1>1, TotalType
<1>5. Total(f, T) = Total(f, S) + Total(f, T \ S)  BY <1>2, <1>3, Zenon
<1> QED  BY <1>4, <1>5

(* Spent and absent UTXOs are worth nothing.                               *)
LEMMA TotalNone ==
  ASSUME NEW f, NEW S, \A x \in S : f[x] \in Int /\ f[x] <= 0
  PROVE  Total(f, S) = 0
<1>1. Units(f, S) = {}
  <2>1. ASSUME NEW c \in Units(f, S)  PROVE FALSE
    <3>1. c[1] \in S /\ c[2] \in 1 .. MaxAmount /\ c[2] <= f[c[1]]  BY DEF Units
    <3>2. f[c[1]] \in Int /\ f[c[1]] <= 0  BY <3>1
    <3> QED  BY <3>1, <3>2, MaxAmountAssumption
  <2> QED  BY <2>1
<1> QED  BY <1>1, FS_EmptySet DEF Total

(* Replacing one amount changes the total by the difference.               *)
LEMMA TotalUpdate ==
  ASSUME NEW S, IsFiniteSet(S), NEW x \in S,
         NEW f \in [S -> -1 .. MaxAmount], NEW g \in [S -> -1 .. MaxAmount],
         \A y \in S \ {x} : f[y] = g[y]
  PROVE  Total(g, S) = Total(f, S) - Pos(f[x]) + Pos(g[x])
<1> DEFINE T == S \ {x}
<1>1. IsFiniteSet(T) /\ x \notin T /\ S = T \cup {x}  BY FS_Subset
<1>2. f[x] \in Int /\ f[x] <= MaxAmount /\ g[x] \in Int /\ g[x] <= MaxAmount
  BY MaxAmountAssumption
<1>3. Total(f, T) = Total(g, T)
  <2>1. \A y \in T : f[y] = g[y]  OBVIOUS
  <2> QED  BY <2>1, TotalAgree
<1>4. Total(f, T \cup {x}) = Total(f, T) + Pos(f[x])  BY <1>1, <1>2, TotalAdd
<1>5. Total(g, T \cup {x}) = Total(g, T) + Pos(g[x])  BY <1>1, <1>2, TotalAdd
<1>6. Total(f, T) \in Nat  BY <1>1, TotalType
<1>7. Pos(f[x]) \in Int /\ Pos(g[x]) \in Int  BY <1>2 DEF Pos
<1>8. Total(f, S) = Total(f, T) + Pos(f[x])  BY <1>1, <1>4
<1>9. Total(g, S) = Total(f, T) + Pos(g[x])  BY <1>1, <1>2, <1>3, <1>5
<1> HIDE DEF T
<1> QED  BY <1>6, <1>7, <1>8, <1>9
-----------------------------------------------------------------------------
(* Sums along a vector of tuples: what is left from position k on.         *)
LEMMA SumFromType ==
  ASSUME NEW T, NEW s \in Seq(T), NEW k \in Nat
  PROVE  SumFrom(s, k) \in Nat
<1>1. IsFiniteSet(k .. Len(s))
  <2>1. k \in Int /\ Len(s) \in Int  OBVIOUS
  <2> QED  BY <2>1, FS_Interval, Zenon
<1> QED  BY <1>1, TotalType DEF SumFrom

LEMMA SumFromEnd ==
  ASSUME NEW T, NEW s \in Seq(T), NEW k \in Nat, k > Len(s)
  PROVE  SumFrom(s, k) = 0
<1>1. k .. Len(s) = {}  OBVIOUS
<1> QED  BY <1>1, TotalEmpty DEF SumFrom

LEMMA SumFromStep ==
  ASSUME NEW T, NEW s \in Seq(T), NEW k \in Nat \ {0}, k <= Len(s),
         s[k].amount \in Int, s[k].amount <= MaxAmount
  PROVE  SumFrom(s, k) = Pos(s[k].amount) + SumFrom(s, k + 1)
<1>1. k .. Len(s) = ((k + 1) .. Len(s)) \cup {k}  OBVIOUS
<1>2. k \notin (k + 1) .. Len(s)  OBVIOUS
<1>3. IsFiniteSet((k + 1) .. Len(s))
  <2>1. k + 1 \in Int /\ Len(s) \in Int  OBVIOUS
  <2> QED  BY <2>1, FS_Interval, Zenon
<1>4. Amounts(s)[k] = s[k].amount  BY DEF Amounts
<1>5. Total(Amounts(s), ((k + 1) .. Len(s)) \cup {k}) =
        Total(Amounts(s), (k + 1) .. Len(s)) + Pos(Amounts(s)[k])
  BY <1>2, <1>3, <1>4, TotalAdd
<1>6. SumFrom(s, k) = SumFrom(s, k + 1) + Pos(s[k].amount)
  BY <1>1, <1>4, <1>5, Zenon DEF SumFrom
<1>7. SumFrom(s, k + 1) \in Nat  BY SumFromType
<1>8. Pos(s[k].amount) \in Int  BY DEF Pos
<1> QED  BY <1>6, <1>7, <1>8
-----------------------------------------------------------------------------
(* What the items of a vector of payments come to for one account.         *)
LEMMA AmountForType ==
  ASSUME NEW T, NEW items \in Seq(T), NEW a
  PROVE  AmountFor(items, a) \in Nat /\ AmountFor(items, a) <= SumFrom(items, 1)
<1> DEFINE N == 1 .. Len(items)
           S == {k \in N : items[k].addr = a}
           f == Amounts(items)
<1>1. DOMAIN items = N /\ 1 \in Int /\ Len(items) \in Int  OBVIOUS
<1>2. IsFiniteSet(N)  BY <1>1, FS_Interval, Zenon
<1>3. S \subseteq N  OBVIOUS
<1>4. AmountFor(items, a) = Total(f, S)  BY <1>1, Zenon DEF AmountFor
<1>5. SumFrom(items, 1) = Total(f, N)  BY DEF SumFrom
<1> HIDE DEF N, S, f
<1>6. IsFiniteSet(S)  BY <1>2, <1>3, FS_Subset
<1>7. Total(f, S) \in Nat  BY <1>6, TotalType
<1>8. Total(f, S) <= Total(f, N)  BY <1>2, <1>3, TotalSubset
<1> QED  BY <1>4, <1>5, <1>7, <1>8

LEMMA AmountForNone ==
  ASSUME NEW items, NEW a, \A k \in DOMAIN items : items[k].addr # a
  PROVE  AmountFor(items, a) = 0
<1>1. {k \in DOMAIN items : items[k].addr = a} = {}  OBVIOUS
<1>2. AmountFor(items, a) = Total(Amounts(items), {})  BY <1>1, Zenon DEF AmountFor
<1> QED  BY <1>2, TotalEmpty

(* An account that occurs once is paid its one amount.                     *)
LEMMA AmountForOne ==
  ASSUME NEW items, NoDuplicates(AddressesOf(items)), NEW k \in DOMAIN items,
         items[k].amount \in Int, items[k].amount > 0, items[k].amount <= MaxAmount
  PROVE  AmountFor(items, items[k].addr) = items[k].amount
<1>1. {j \in DOMAIN items : items[j].addr = items[k].addr} = {k}
  BY DEF NoDuplicates, AddressesOf
<1>2. Amounts(items)[k] = items[k].amount  BY DEF Amounts
<1>3. Total(Amounts(items), {k}) = Pos(items[k].amount)  BY <1>2, TotalOne
<1>4. Pos(items[k].amount) = items[k].amount  BY DEF Pos
<1>5. AmountFor(items, items[k].addr) = Total(Amounts(items), {k})  BY <1>1, Zenon DEF AmountFor
<1> QED  BY <1>3, <1>4, <1>5
-----------------------------------------------------------------------------
(* conflicts_with is symmetric, and no condition contradicts itself: the   *)
(* two loops of the ExtIntegration case look both ways.                    *)
THEOREM ConflictsSymmetric ==
  ASSUME NEW c, NEW d
  PROVE  /\ ConflictsWith(c, d) <=> ConflictsWith(d, c)
         /\ ~ ConflictsWith(c, c)
<1>1. ToSet(c.utxos) \cap ToSet(d.utxos) = ToSet(d.utxos) \cap ToSet(c.utxos)  OBVIOUS
<1> QED  BY <1>1 DEF ConflictsWith

(* The scan, which looks back only, accepts exactly the vectors without a  *)
(* conflicting pair.                                                       *)
THEOREM ScanFindsEveryConflict ==
  ASSUME NEW T, NEW conds \in Seq(T)
  PROVE  NoConflicts(conds) <=>
           \A j, k \in DOMAIN conds : ~ ConflictsWith(conds[j], conds[k])
<1>1. ASSUME NoConflicts(conds), NEW j \in DOMAIN conds, NEW k \in DOMAIN conds
      PROVE  ~ ConflictsWith(conds[j], conds[k])
  <2>1. CASE j < k
    <3>1. j \in 1 .. (k - 1)  BY <2>1
    <3> QED  BY <1>1, <3>1 DEF NoConflicts
  <2>2. CASE k < j
    <3>1. k \in 1 .. (j - 1)  BY <2>2
    <3>2. ~ ConflictsWith(conds[k], conds[j])  BY <1>1, <3>1 DEF NoConflicts
    <3> QED  BY <3>2, ConflictsSymmetric
  <2>3. CASE j = k  BY <2>3, ConflictsSymmetric
  <2> QED  BY <2>1, <2>2, <2>3
<1>2. ASSUME \A j, k \in DOMAIN conds : ~ ConflictsWith(conds[j], conds[k])
      PROVE  NoConflicts(conds)
  <2> SUFFICES ASSUME NEW j \in DOMAIN conds, NEW k \in 1 .. (j - 1)
               PROVE  ~ ConflictsWith(conds[k], conds[j])
    BY DEF NoConflicts
  <2>1. k \in DOMAIN conds  OBVIOUS
  <2> QED  BY <1>2, <2>1
<1> QED  BY <1>1, <1>2

(* Two vectors of the same conditions, in any order and with any           *)
(* repetitions, are accepted or refused alike.                             *)
COROLLARY ScanIgnoresOrder ==
  ASSUME NEW T, NEW conds \in Seq(T), NEW other \in Seq(T),
         ToSet(conds) = ToSet(other)
  PROVE  NoConflicts(conds) <=> NoConflicts(other)
<1>1. ASSUME NEW s \in Seq(T)
      PROVE  NoConflicts(s) <=> \A c, d \in ToSet(s) : ~ ConflictsWith(c, d)
  BY ScanFindsEveryConflict DEF ToSet
<1>2. NoConflicts(conds) <=> \A c, d \in ToSet(conds) : ~ ConflictsWith(c, d)  BY <1>1
<1>3. NoConflicts(other) <=> \A c, d \in ToSet(other) : ~ ConflictsWith(c, d)  BY <1>1
<1> QED  BY <1>2, <1>3
-----------------------------------------------------------------------------
(* Induction over the naturals, from the least element of what is left    *)
(* out; stated about a set, which a first-order prover can instantiate.    *)
LEMMA LeastElement ==
  ASSUME NEW T, T \subseteq Nat, T # {}
  PROVE  \E m \in T : \A n \in T : m <= n
<1> DEFINE R == OpToRel(<, Nat)
<1>1. IsWellFoundedOn(R, Nat)  BY NatLessThanWellFounded, Zenon
<1>2. \A x, y \in Nat : x < y => <<x, y>> \in R  BY DEF OpToRel
<1> HIDE DEF R
<1>3. PICK m \in T : \A n \in T : ~ (<<n, m>> \in R)  BY <1>1, WFMin, Zenon
<1>4. ASSUME NEW n \in T  PROVE m <= n
  <2>1. m \in Nat /\ n \in Nat /\ ~ (n < m)  BY <1>2, <1>3
  <2> QED  BY <2>1
<1> QED  BY <1>4

LEMMA Induction ==
  ASSUME NEW G, 0 \in G, \A n \in Nat : n \in G => n + 1 \in G
  PROVE  \A n \in Nat : n \in G
<1> DEFINE T == Nat \ G
<1>1. CASE T = {}  BY <1>1
<1>2. CASE T # {}
  <2>1. T \subseteq Nat  OBVIOUS
  <2>2. PICK m \in T : \A n \in T : m <= n
    <3> HIDE DEF T
    <3> QED  BY <2>1, <1>2, LeastElement
  <2>3. m \in Nat /\ m \notin G /\ m # 0  OBVIOUS
  <2>4. m - 1 \in Nat /\ m - 1 \in G  BY <2>2, <2>3
  <2>5. (m - 1) + 1 \in G  BY <2>4
  <2> QED  BY <2>3, <2>5
<1> QED  BY <1>1, <1>2

(* FlattenSeq is defined by recursion on a prefix: that function exists,   *)
(* and so FlattenSeq is its last value.                                    *)
LEMMA FlattenExists ==
  ASSUME NEW T, NEW ss \in Seq(Seq(T)), Len(ss) # 0
  PROVE  \E f : f = [k \in 1 .. Len(ss) |-> IF k = 1 THEN ss[k] ELSE f[k - 1] \o ss[k]]
<1> DEFINE Upto(n) == {f \in [1 .. n -> Seq(T)] :
                        \A k \in 1 .. n : f[k] = IF k = 1 THEN ss[k] ELSE f[k - 1] \o ss[k]}
           G == {n \in Nat : n <= Len(ss) => Upto(n) # {}}
<1>0. Len(ss) \in Nat /\ \A k \in 1 .. Len(ss) : ss[k] \in Seq(T)  OBVIOUS
<1>1. 0 \in G
  <2>1. [k \in 1 .. 0 |-> <<>>] \in Upto(0)  OBVIOUS
  <2> QED  BY <2>1
<1>2. ASSUME NEW n \in Nat, n \in G  PROVE n + 1 \in G
  <2>1. CASE n + 1 > Len(ss)  BY <1>0, <2>1
  <2>2. CASE n + 1 <= Len(ss)
    <3>1. PICK f \in [1 .. n -> Seq(T)] :
            \A k \in 1 .. n : f[k] = IF k = 1 THEN ss[k] ELSE f[k - 1] \o ss[k]
      BY <1>0, <1>2, <2>2
    <3> DEFINE last == IF n = 0 THEN ss[1] ELSE f[n] \o ss[n + 1]
               g == [k \in 1 .. (n + 1) |-> IF k = n + 1 THEN last ELSE f[k]]
    <3>2. last \in Seq(T)
      <4>1. CASE n = 0  BY <1>0, <2>2, <4>1
      <4>2. CASE n # 0
        <5>1. f[n] \in Seq(T) /\ ss[n + 1] \in Seq(T)  BY <1>0, <2>2, <3>1, <4>2
        <5> QED  BY <5>1, <4>2
      <4> QED  BY <4>1, <4>2
    <3>3. g \in [1 .. (n + 1) -> Seq(T)]
      <4> HIDE DEF last
      <4> QED  BY <3>1, <3>2
    <3>4. ASSUME NEW k \in 1 .. (n + 1)
          PROVE  g[k] = IF k = 1 THEN ss[k] ELSE g[k - 1] \o ss[k]
      <4>1. CASE k = n + 1
        <5>1. g[k] = last  BY <4>1
        <5>2. CASE n = 0  BY <5>1, <5>2, <4>1
        <5>3. CASE n # 0
          <6>1. n \in 1 .. (n + 1) /\ n # n + 1 /\ k # 1 /\ k - 1 = n  BY <5>3, <4>1
          <6>2. g[n] = f[n]  BY <6>1
          <6> HIDE DEF g
          <6> QED  BY <5>1, <5>3, <6>1, <6>2, <4>1
        <5> QED  BY <5>2, <5>3
      <4>2. CASE k # n + 1
        <5>1. k \in 1 .. n /\ g[k] = f[k]  BY <4>2
        <5>2. k # 1 => k - 1 \in 1 .. (n + 1) /\ k - 1 # n + 1  BY <5>1
        <5>3. k # 1 => g[k - 1] = f[k - 1]  BY <5>2
        <5> HIDE DEF g
        <5> QED  BY <5>1, <5>3, <3>1
      <4> QED  BY <4>1, <4>2
    <3>5. g \in Upto(n + 1)  BY <3>3, <3>4
    <3>6. Upto(n + 1) # {}  BY <3>5
    <3> HIDE DEF Upto
    <3> QED  BY <3>6
  <2>3. n + 1 > Len(ss) \/ n + 1 <= Len(ss)  BY <1>0
  <2> QED  BY <2>1, <2>2, <2>3
<1> HIDE DEF G
<1>3. Len(ss) \in G  BY <1>0, <1>1, <1>2, Induction
<1>4. PICK f \in [1 .. Len(ss) -> Seq(T)] :
        \A k \in 1 .. Len(ss) : f[k] = IF k = 1 THEN ss[k] ELSE f[k - 1] \o ss[k]
  <2> HIDE DEF Upto
  <2>1. PICK f : f \in Upto(Len(ss))  BY <1>0, <1>3 DEF G
  <2> QED  BY <2>1, Zenon DEF Upto
<1>5. f = [k \in 1 .. Len(ss) |-> IF k = 1 THEN ss[k] ELSE f[k - 1] \o ss[k]]
  BY <1>4
<1> QED  BY <1>5

LEMMA FlattenIs ==
  ASSUME NEW T, NEW ss \in Seq(Seq(T)), Len(ss) # 0
  PROVE  \E f : /\ f = [k \in 1 .. Len(ss) |-> IF k = 1 THEN ss[k] ELSE f[k - 1] \o ss[k]]
                /\ FlattenSeq(ss) = f[Len(ss)]
<1> DEFINE F == CHOOSE f : f = [k \in 1 .. Len(ss) |-> IF k = 1 THEN ss[k] ELSE f[k - 1] \o ss[k]]
<1>1. F = [k \in 1 .. Len(ss) |-> IF k = 1 THEN ss[k] ELSE F[k - 1] \o ss[k]]
  BY FlattenExists, Zenon
<1>2. FlattenSeq(ss) = F[Len(ss)]
  BY Zenon DEF FlattenSeq
<1> QED  BY <1>1, <1>2, Zenon

(* Concatenating and flattening lose no element and add none.              *)
LEMMA ConcatElements ==
  ASSUME NEW T, NEW s \in Seq(T), NEW t \in Seq(T)
  PROVE  s \o t \in Seq(T) /\ ToSet(s \o t) = ToSet(s) \cup ToSet(t)
<1>1. /\ s \o t \in Seq(T) /\ DOMAIN (s \o t) = 1 .. (Len(s) + Len(t))
      /\ \A k \in 1 .. Len(s) : (s \o t)[k] = s[k]
      /\ \A k \in 1 .. Len(t) : (s \o t)[Len(s) + k] = t[k]
  OBVIOUS
<1>2. ASSUME NEW x \in ToSet(s \o t)  PROVE x \in ToSet(s) \cup ToSet(t)
  <2>1. PICK k \in 1 .. (Len(s) + Len(t)) : x = (s \o t)[k]  BY <1>1, <1>2 DEF ToSet
  <2>2. CASE k <= Len(s)  BY <1>1, <2>1, <2>2 DEF ToSet
  <2>3. CASE k > Len(s)
    <3>1. k - Len(s) \in 1 .. Len(t) /\ Len(s) + (k - Len(s)) = k  BY <2>3
    <3>2. x = t[k - Len(s)]  BY <1>1, <2>1, <3>1
    <3> QED  BY <3>1, <3>2 DEF ToSet
  <2> QED  BY <2>2, <2>3
<1>3. ASSUME NEW x \in ToSet(s)  PROVE x \in ToSet(s \o t)
  <2>1. PICK k \in 1 .. Len(s) : x = s[k]  BY <1>3 DEF ToSet
  <2>2. k \in DOMAIN (s \o t) /\ x = (s \o t)[k]  BY <1>1, <2>1
  <2> QED  BY <2>2 DEF ToSet
<1>4. ASSUME NEW x \in ToSet(t)  PROVE x \in ToSet(s \o t)
  <2>1. PICK k \in 1 .. Len(t) : x = t[k]  BY <1>4 DEF ToSet
  <2>2. Len(s) + k \in DOMAIN (s \o t) /\ x = (s \o t)[Len(s) + k]  BY <1>1, <2>1
  <2> QED  BY <2>2 DEF ToSet
<1> QED  BY <1>1, <1>2, <1>3, <1>4

LEMMA FlattenElements ==
  ASSUME NEW T, NEW ss \in Seq(Seq(T))
  PROVE  /\ FlattenSeq(ss) \in Seq(T)
         /\ ToSet(FlattenSeq(ss)) = UNION {ToSet(ss[k]) : k \in DOMAIN ss}
<1>1. CASE Len(ss) = 0
  <2>1. FlattenSeq(ss) = ss  BY <1>1 DEF FlattenSeq
  <2>2. ss \in Seq(T) /\ DOMAIN ss = {}  BY <1>1
  <2>3. ToSet(ss) = {} /\ {ToSet(ss[k]) : k \in DOMAIN ss} = {}  BY <2>2 DEF ToSet
  <2> QED  BY <2>1, <2>2, <2>3
<1>2. CASE Len(ss) # 0
  <2>1. PICK f : /\ f = [k \in 1 .. Len(ss) |-> IF k = 1 THEN ss[k] ELSE f[k - 1] \o ss[k]]
                 /\ FlattenSeq(ss) = f[Len(ss)]
    BY <1>2, FlattenIs, Zenon
  <2>2. Len(ss) \in Nat /\ \A k \in 1 .. Len(ss) : ss[k] \in Seq(T)  OBVIOUS
  <2>3. \A k \in 1 .. Len(ss) : f[k] = IF k = 1 THEN ss[k] ELSE f[k - 1] \o ss[k]  BY <2>1
  <2> DEFINE Joined(n) == UNION {ToSet(ss[k]) : k \in 1 .. n}
             Good(n) == f[n] \in Seq(T) /\ ToSet(f[n]) = Joined(n)
             G == {n \in Nat : n \in 1 .. Len(ss) => Good(n)}
  <2>4. 0 \in G  OBVIOUS
  <2>5. ASSUME NEW n \in Nat, n \in G  PROVE n + 1 \in G
    <3>1. CASE n + 1 \in 1 .. Len(ss)
      <4>1. Joined(n + 1) = Joined(n) \cup ToSet(ss[n + 1])
        <5>1. 1 .. (n + 1) = (1 .. n) \cup {n + 1}  OBVIOUS
        <5> QED  BY <5>1
      <4>2. CASE n = 0
        <5>1. f[n + 1] = ss[n + 1] /\ ss[n + 1] \in Seq(T)  BY <2>2, <2>3, <3>1, <4>2
        <5>2. Joined(n) = {}  BY <4>2
        <5>3. Good(n + 1)
          <6> HIDE DEF Joined
          <6> QED  BY <4>1, <5>1, <5>2
        <5> HIDE DEF Good
        <5> QED  BY <5>3
      <4>3. CASE n # 0
        <5>1. n \in 1 .. Len(ss) /\ n + 1 # 1 /\ (n + 1) - 1 = n  BY <2>2, <3>1, <4>3
        <5>2. f[n] \in Seq(T) /\ ToSet(f[n]) = Joined(n)  BY <2>5, <5>1
        <5>3. f[n + 1] = f[n] \o ss[n + 1] /\ ss[n + 1] \in Seq(T)
          BY <2>2, <2>3, <3>1, <5>1
        <5>4. Good(n + 1)
          <6>1. /\ f[n] \o ss[n + 1] \in Seq(T)
                /\ ToSet(f[n] \o ss[n + 1]) = ToSet(f[n]) \cup ToSet(ss[n + 1])
            <7> DEFINE a == f[n]
                       b == ss[n + 1]
            <7>1. a \in Seq(T) /\ b \in Seq(T)  BY <5>2, <5>3
            <7> HIDE DEF a, b
            <7>2. a \o b \in Seq(T) /\ ToSet(a \o b) = ToSet(a) \cup ToSet(b)
              BY <7>1, ConcatElements
            <7> QED  BY <7>2 DEF a, b
          <6>2. f[n + 1] \in Seq(T)  BY <5>3, <6>1, Zenon
          <6>3. ToSet(f[n + 1]) = Joined(n + 1)  BY <4>1, <5>2, <5>3, <6>1, Zenon
          <6> HIDE DEF Joined
          <6> QED  BY <6>2, <6>3
        <5> HIDE DEF Good
        <5> QED  BY <5>4
      <4> QED  BY <4>2, <4>3
    <3>2. CASE n + 1 \notin 1 .. Len(ss)
      <4> HIDE DEF Good
      <4> QED  BY <3>2
    <3> QED  BY <3>1, <3>2
  <2> HIDE DEF G
  <2>6. Len(ss) \in G  BY <2>2, <2>4, <2>5, Induction
  <2>7. Good(Len(ss))
    <3> HIDE DEF Good
    <3> QED  BY <1>2, <2>2, <2>6 DEF G
  <2>8. DOMAIN ss = 1 .. Len(ss)  OBVIOUS
  <2> QED  BY <2>1, <2>7, <2>8, Zenon
<1> QED  BY <1>1, <1>2

(* What holds of the empty sequence after no element, and is kept when the *)
(* next one is appended, holds of the flattened sequence after all.        *)
LEMMA FlattenInduction ==
  ASSUME NEW T, NEW ss \in Seq(Seq(T)), NEW P, <<0, <<>>>> \in P,
         \A n \in 0 .. (Len(ss) - 1) : \A s \in Seq(T) :
           <<n, s>> \in P => <<n + 1, s \o ss[n + 1]>> \in P
  PROVE  <<Len(ss), FlattenSeq(ss)>> \in P
<1>1. CASE Len(ss) = 0
  <2>1. FlattenSeq(ss) = ss  BY <1>1 DEF FlattenSeq
  <2>2. ss = <<>>  BY <1>1
  <2> QED  BY <1>1, <2>1, <2>2
<1>2. CASE Len(ss) # 0
  <2>1. PICK f : /\ f = [k \in 1 .. Len(ss) |-> IF k = 1 THEN ss[k] ELSE f[k - 1] \o ss[k]]
                 /\ FlattenSeq(ss) = f[Len(ss)]
    BY <1>2, FlattenIs, Zenon
  <2>2. Len(ss) \in Nat /\ \A k \in 1 .. Len(ss) : ss[k] \in Seq(T)  OBVIOUS
  <2>3. \A k \in 1 .. Len(ss) : f[k] = IF k = 1 THEN ss[k] ELSE f[k - 1] \o ss[k]  BY <2>1
  <2> DEFINE G == {n \in Nat : n \in 1 .. Len(ss) => f[n] \in Seq(T) /\ <<n, f[n]>> \in P}
  <2>4. 0 \in G  OBVIOUS
  <2>5. ASSUME NEW n \in Nat, n \in G  PROVE n + 1 \in G
    <3> SUFFICES ASSUME n + 1 \in 1 .. Len(ss)
                 PROVE  f[n + 1] \in Seq(T) /\ <<n + 1, f[n + 1]>> \in P
      OBVIOUS
    <3>0. n \in 0 .. (Len(ss) - 1) /\ ss[n + 1] \in Seq(T)  BY <2>2
    <3>1. CASE n = 0
      <4>1. 1 \in 1 .. Len(ss) /\ 0 \in 0 .. (Len(ss) - 1) /\ ss[1] \in Seq(T)
        BY <1>2, <2>2
      <4>2. f[1] = ss[1]  BY <2>3, <4>1
      <4>3. <<>> \in Seq(T)  OBVIOUS
      <4>4. <<0 + 1, <<>> \o ss[0 + 1]>> \in P  BY <4>1, <4>3
      <4>5. <<>> \o ss[1] = ss[1] /\ 0 + 1 = 1  BY <4>1
      <4>6. <<1, ss[1]>> \in P  BY <4>4, <4>5
      <4> QED  BY <3>1, <4>1, <4>2, <4>5, <4>6
    <3>2. CASE n # 0
      <4>1. n \in 1 .. Len(ss) /\ n + 1 # 1 /\ (n + 1) - 1 = n  BY <3>0, <3>2
      <4>2. f[n] \in Seq(T) /\ <<n, f[n]>> \in P  BY <2>5, <4>1
      <4>3. f[n + 1] = f[n] \o ss[n + 1]  BY <2>3, <4>1
      <4>4. <<n + 1, f[n] \o ss[n + 1]>> \in P  BY <3>0, <4>2
      <4> QED  BY <3>0, <4>2, <4>3, <4>4
    <3> QED  BY <3>1, <3>2
  <2> HIDE DEF G
  <2>6. Len(ss) \in G  BY <2>2, <2>4, <2>5, Induction
  <2>7. <<Len(ss), f[Len(ss)]>> \in P  BY <1>2, <2>2, <2>6 DEF G
  <2> QED  BY <2>1, <2>7
<1> QED  BY <1>1, <1>2

-----------------------------------------------------------------------------
(* The encoding of conditions.  Amounts end the pieces it is made of: x is *)
(* named with a in s when a piece of s begins with x and ends with a.      *)
Closed(s) == Len(s) = 0 \/ s[Len(s)] \in Int

Named(s, x, a) ==
  \E i \in 1 .. Len(s) : \E j \in i .. Len(s) :
    /\ i = 1 \/ s[i - 1] \in Int
    /\ s[i] = x /\ s[j] = a /\ a \in Int
    /\ \A k \in i .. (j - 1) : s[k] \notin Int

LEMMA ConcatParts ==
  ASSUME NEW T, NEW s \in Seq(T), NEW t \in Seq(T)
  PROVE  /\ s \o t \in Seq(T) /\ Len(s \o t) = Len(s) + Len(t)
         /\ \A k \in 1 .. Len(s) : (s \o t)[k] = s[k]
         /\ \A k \in 1 .. Len(t) : (s \o t)[Len(s) + k] = t[k]
<1>1. s \o t \in Seq(T) /\ Len(s \o t) = Len(s) + Len(t)  OBVIOUS
<1>2. \A k \in 1 .. Len(s) : (s \o t)[k] = s[k]  OBVIOUS
<1>3. \A k \in 1 .. Len(t) : (s \o t)[Len(s) + k] = t[k]  OBVIOUS
<1> QED  BY <1>1, <1>2, <1>3

(* No piece straddles the seam behind a closed sequence.                   *)
LEMMA NamedConcat ==
  ASSUME NEW T, NEW s \in Seq(T), NEW t \in Seq(T), Closed(s), Closed(t)
  PROVE  /\ s \o t \in Seq(T) /\ Closed(s \o t)
         /\ \A x, a : Named(s \o t, x, a) <=> Named(s, x, a) \/ Named(t, x, a)
<1> DEFINE r == s \o t
           m == Len(s)
           n == Len(t)
<1>1. /\ r \in Seq(T) /\ Len(r) = m + n /\ m \in Nat /\ n \in Nat
      /\ \A k \in 1 .. m : r[k] = s[k]
      /\ \A k \in 1 .. n : r[m + k] = t[k]
  <2>1. m \in Nat /\ n \in Nat  OBVIOUS
  <2> QED  BY <2>1, ConcatParts
<1>2. m = 0 \/ s[m] \in Int  BY DEF Closed
<1>3. n = 0 \/ t[n] \in Int  BY DEF Closed
<1> HIDE DEF r, m, n
<1>4. Closed(r)
  <2>1. CASE n = 0
    <3>1. Len(r) = m  BY <1>1, <2>1
    <3>2. m = 0 \/ r[m] \in Int  BY <1>1, <1>2
    <3> QED  BY <3>1, <3>2 DEF Closed
  <2>2. CASE n # 0
    <3>1. r[m + n] \in Int  BY <1>1, <1>3, <2>2
    <3> QED  BY <1>1, <3>1 DEF Closed
  <2> QED  BY <2>1, <2>2
<1>5. ASSUME NEW x, NEW a, Named(s, x, a)  PROVE Named(r, x, a)
  <2>1. PICK i \in 1 .. m : \E j \in i .. m :
          /\ i = 1 \/ s[i - 1] \in Int
          /\ s[i] = x /\ s[j] = a /\ a \in Int
          /\ \A k \in i .. (j - 1) : s[k] \notin Int
    BY <1>5 DEF Named, m
  <2>2. PICK j \in i .. m :
          /\ i = 1 \/ s[i - 1] \in Int
          /\ s[i] = x /\ s[j] = a /\ a \in Int
          /\ \A k \in i .. (j - 1) : s[k] \notin Int
    BY <2>1
  <2>3. i \in 1 .. Len(r) /\ j \in i .. Len(r)  BY <1>1
  <2>4. i = 1 \/ r[i - 1] \in Int
    <3>1. i = 1 \/ i - 1 \in 1 .. m  BY <1>1
    <3> QED  BY <1>1, <2>2, <3>1
  <2>5. r[i] = x /\ r[j] = a  BY <1>1, <2>2
  <2>6. \A k \in i .. (j - 1) : r[k] \notin Int
    <3>1. \A k \in i .. (j - 1) : k \in 1 .. m  BY <1>1
    <3> QED  BY <1>1, <2>2, <3>1
  <2> QED  BY <2>2, <2>3, <2>4, <2>5, <2>6 DEF Named
<1>6. ASSUME NEW x, NEW a, Named(t, x, a)  PROVE Named(r, x, a)
  <2>1. PICK i \in 1 .. n : \E j \in i .. n :
          /\ i = 1 \/ t[i - 1] \in Int
          /\ t[i] = x /\ t[j] = a /\ a \in Int
          /\ \A k \in i .. (j - 1) : t[k] \notin Int
    BY <1>6 DEF Named, n
  <2>2. PICK j \in i .. n :
          /\ i = 1 \/ t[i - 1] \in Int
          /\ t[i] = x /\ t[j] = a /\ a \in Int
          /\ \A k \in i .. (j - 1) : t[k] \notin Int
    BY <2>1
  <2> DEFINE p == m + i
             q == m + j
  <2>3. p \in 1 .. Len(r) /\ q \in p .. Len(r)  BY <1>1
  <2>4. p = 1 \/ r[p - 1] \in Int
    <3>1. CASE i = 1 /\ m = 0  BY <3>1
    <3>2. CASE i = 1 /\ m # 0
      <4>1. p - 1 = m /\ m \in 1 .. m  BY <1>1, <3>2
      <4> QED  BY <1>1, <1>2, <3>2, <4>1
    <3>3. CASE i # 1
      <4>1. i \in Int /\ m \in Int /\ i - 1 \in 1 .. n  BY <1>1, <3>3
      <4>3. p - 1 = m + (i - 1)  BY <4>1
      <4>2. r[m + (i - 1)] = t[i - 1]  BY <1>1, <4>1
      <4> QED  BY <2>2, <3>3, <4>3, <4>2
    <3> QED  BY <3>1, <3>2, <3>3
  <2>5. r[p] = x /\ r[q] = a  BY <1>1, <2>2
  <2>6. ASSUME NEW k \in p .. (q - 1)  PROVE r[k] \notin Int
    <3>1. k - m \in i .. (j - 1) /\ k - m \in 1 .. n /\ m + (k - m) = k  BY <1>1
    <3>2. r[m + (k - m)] = t[k - m]  BY <1>1, <3>1
    <3> QED  BY <2>2, <3>1, <3>2
  <2> HIDE DEF p, q
  <2> QED  BY <2>2, <2>3, <2>4, <2>5, <2>6 DEF Named
<1>7. ASSUME NEW x, NEW a, Named(r, x, a)  PROVE Named(s, x, a) \/ Named(t, x, a)
  <2>1. PICK i \in 1 .. Len(r) : \E j \in i .. Len(r) :
          /\ i = 1 \/ r[i - 1] \in Int
          /\ r[i] = x /\ r[j] = a /\ a \in Int
          /\ \A k \in i .. (j - 1) : r[k] \notin Int
    BY <1>7 DEF Named
  <2>2. PICK j \in i .. Len(r) :
          /\ i = 1 \/ r[i - 1] \in Int
          /\ r[i] = x /\ r[j] = a /\ a \in Int
          /\ \A k \in i .. (j - 1) : r[k] \notin Int
    BY <2>1
  <2>3. CASE j <= m
    <3>1. i \in 1 .. m /\ j \in i .. m /\ j \in 1 .. m  BY <1>1, <2>3
    <3>2. i = 1 \/ s[i - 1] \in Int
      <4>1. i = 1 \/ i - 1 \in 1 .. m  BY <1>1, <3>1
      <4> QED  BY <1>1, <2>2, <4>1
    <3>3. s[i] = x /\ s[j] = a  BY <1>1, <2>2, <3>1
    <3>4. \A k \in i .. (j - 1) : s[k] \notin Int
      <4>1. \A k \in i .. (j - 1) : k \in 1 .. m  BY <1>1, <3>1
      <4> QED  BY <1>1, <2>2, <4>1
    <3>5. Named(s, x, a)  BY <2>2, <3>1, <3>2, <3>3, <3>4 DEF Named, m
    <3> QED  BY <3>5
  <2>4. CASE i <= m /\ j > m
    <3>1. m \in i .. (j - 1) /\ m \in 1 .. m /\ m # 0  BY <1>1, <2>4
    <3>2. r[m] \notin Int  BY <2>2, <3>1
    <3>3. r[m] \in Int  BY <1>1, <1>2, <3>1
    <3> QED  BY <3>2, <3>3
  <2>5. CASE i > m
    <3> DEFINE p == i - m
               q == j - m
    <3>1. p \in 1 .. n /\ q \in p .. n /\ q \in 1 .. n /\ m + p = i /\ m + q = j  BY <1>1, <2>5
    <3>2. p = 1 \/ t[p - 1] \in Int
      <4>1. p = 1 \/ (p - 1 \in 1 .. n /\ m + (p - 1) = i - 1 /\ i # 1)  BY <1>1, <3>1
      <4>2. p - 1 \in 1 .. n => r[m + (p - 1)] = t[p - 1]  BY <1>1
      <4> QED  BY <2>2, <4>1, <4>2
    <3>3. t[p] = x /\ t[q] = a
      <4>1. r[m + p] = t[p] /\ r[m + q] = t[q]  BY <1>1, <3>1
      <4> QED  BY <2>2, <3>1, <4>1
    <3>4. ASSUME NEW k \in p .. (q - 1)  PROVE t[k] \notin Int
      <4>1. m + k \in i .. (j - 1) /\ k \in 1 .. n  BY <1>1, <3>1
      <4>2. r[m + k] = t[k]  BY <1>1, <4>1
      <4> QED  BY <2>2, <4>1, <4>2
    <3> HIDE DEF p, q
    <3>5. Named(t, x, a)  BY <2>2, <3>1, <3>2, <3>3, <3>4 DEF Named, n
    <3> QED  BY <3>5
  <2> QED  BY <1>1, <2>3, <2>4, <2>5
<1>8. r \in Seq(T) /\ Closed(r) /\ \A x, a : Named(r, x, a) <=> Named(s, x, a) \/ Named(t, x, a)
  BY <1>1, <1>4, <1>5, <1>6, <1>7
<1> QED  BY <1>8 DEF r

LEMMA NamedEmpty == Closed(<<>>) /\ \A x, a : ~ Named(<<>>, x, a)
BY DEF Closed, Named

LEMMA PairParts ==
  ASSUME NEW A, NEW B, NEW x \in A, NEW y \in B
  PROVE  <<x, y>> \in A \X B /\ <<x, y>>[1] = x /\ <<x, y>>[2] = y
OBVIOUS

(* Pieces put together name what each of them names.                       *)
LEMMA FlattenNamed ==
  ASSUME NEW T, NEW ss \in Seq(Seq(T)), \A k \in 1 .. Len(ss) : Closed(ss[k])
  PROVE  /\ FlattenSeq(ss) \in Seq(T) /\ Closed(FlattenSeq(ss))
         /\ \A x, a : Named(FlattenSeq(ss), x, a) <=> \E k \in 1 .. Len(ss) : Named(ss[k], x, a)
<1> DEFINE Ok(n, s) == /\ s \in Seq(T) /\ Closed(s)
                       /\ \A x, a : Named(s, x, a) <=> \E k \in 1 .. n : Named(ss[k], x, a)
           P == {p \in Nat \X Seq(T) : Ok(p[1], p[2])}
<1>1. <<0, <<>>>> \in P
  <2> DEFINE p == <<0, <<>>>>
  <2>1. Ok(0, <<>>)  BY NamedEmpty
  <2>2. p \in Nat \X Seq(T) /\ p[1] = 0 /\ p[2] = <<>>
    <3>1. 0 \in Nat /\ <<>> \in Seq(T)  OBVIOUS
    <3> QED  BY <3>1, PairParts, Zenon
  <2> HIDE DEF Ok, p
  <2>3. p \in P  BY <2>1, <2>2, Zenon
  <2> QED  BY <2>3 DEF p
<1>2. ASSUME NEW n \in 0 .. (Len(ss) - 1), NEW s \in Seq(T), <<n, s>> \in P
      PROVE  <<n + 1, s \o ss[n + 1]>> \in P
  <2>1. Ok(n, s)
    <3> HIDE DEF Ok
    <3> QED  BY <1>2
  <2> DEFINE t == ss[n + 1]
  <2>2. n \in Nat /\ n + 1 \in 1 .. Len(ss) /\ t \in Seq(T) /\ Closed(t)  OBVIOUS
  <2>3. \A k : k \in 1 .. (n + 1) <=> k \in 1 .. n \/ k = n + 1  BY <2>2
  <2> HIDE DEF t
  <2>4. /\ s \o t \in Seq(T) /\ Closed(s \o t)
        /\ \A x, a : Named(s \o t, x, a) <=> Named(s, x, a) \/ Named(t, x, a)
    BY <2>1, <2>2, NamedConcat
  <2>5. \A x, a : Named(s \o t, x, a) <=> \E k \in 1 .. (n + 1) : Named(ss[k], x, a)
    BY <2>1, <2>3, <2>4, Zenon DEF t
  <2>6. Ok(n + 1, s \o t)  BY <2>4, <2>5
  <2> DEFINE p == <<n + 1, s \o t>>
  <2>7. p \in Nat \X Seq(T) /\ p[1] = n + 1 /\ p[2] = s \o t
    <3>1. n + 1 \in Nat /\ s \o t \in Seq(T)  BY <2>2, <2>4
    <3> QED  BY <3>1, PairParts, Zenon
  <2> HIDE DEF Ok, p
  <2>8. p \in P  BY <2>6, <2>7, Zenon
  <2> QED  BY <2>8 DEF p, t
<1> HIDE DEF P
<1>3. <<Len(ss), FlattenSeq(ss)>> \in P  BY <1>1, <1>2, FlattenInduction
<1>4. Ok(Len(ss), FlattenSeq(ss))
  <2> HIDE DEF Ok
  <2> QED  BY <1>3 DEF P
<1> QED  BY <1>4

LEMMA PieceNames ==
  ASSUME NEW T, NEW s \in Seq(T), Len(s) # 0, s[Len(s)] \in Int,
         \A k \in 1 .. (Len(s) - 1) : s[k] \notin Int
  PROVE  Closed(s) /\ \A x, a : Named(s, x, a) <=> x = s[1] /\ a = s[Len(s)]
<1> DEFINE n == Len(s)
<1>1. n \in Nat /\ n # 0 /\ s[n] \in Int /\ \A k \in 1 .. (n - 1) : s[k] \notin Int  OBVIOUS
<1>2. Closed(s)  BY DEF Closed
<1>3. Named(s, s[1], s[n])
  <2> HIDE DEF n
  <2>1. 1 \in 1 .. n /\ n \in 1 .. n  BY <1>1
  <2> QED  BY <1>1, <2>1 DEF Named, n
<1>4. ASSUME NEW x, NEW a, Named(s, x, a)  PROVE x = s[1] /\ a = s[n]
  <2>1. PICK i \in 1 .. n : \E j \in i .. n :
          (i = 1 \/ s[i - 1] \in Int) /\ s[i] = x /\ s[j] = a /\ a \in Int
    BY <1>4 DEF Named
  <2>2. PICK j \in i .. n :
          (i = 1 \/ s[i - 1] \in Int) /\ s[i] = x /\ s[j] = a /\ a \in Int
    BY <2>1
  <2> HIDE DEF n
  <2>3. i = 1
    <3>1. i # 1 => i - 1 \in 1 .. (n - 1)  BY <1>1
    <3> QED  BY <1>1, <2>2, <3>1
  <2>4. j = n
    <3>1. j # n => j \in 1 .. (n - 1)  BY <1>1
    <3> QED  BY <1>1, <2>2, <3>1
  <2> QED  BY <2>2, <2>3, <2>4
<1> QED  BY <1>2, <1>3, <1>4

(* A condition names its target and its amount.                            *)
LEMMA TokensNamed ==
  ASSUME NEW K, NEW A, (K \cup A) \cap Int = {}, NEW c \in Condition(K, A, Int)
  PROVE  /\ Tokens(c) \in Seq(K \cup A \cup Int) /\ Closed(Tokens(c))
         /\ \A x, a : Named(Tokens(c), x, a) <=> x = c.target /\ a = c.amount
<1> DEFINE T == K \cup A \cup Int
           s == Tokens(c)
<1>1. /\ c.target \in K \cup A /\ c.amount \in Int
      /\ c.kind = "ExtIntegration" => c.utxos \in Seq(K)
  BY DEF Condition
<1>2. /\ c.target \in T /\ c.target \notin Int /\ c.amount \in T /\ c.amount \in Int
      /\ K \subseteq T /\ \A u \in K : u \notin Int
  BY <1>1
<1>3. /\ s \in Seq(T) /\ Len(s) # 0 /\ s[1] = c.target /\ s[Len(s)] = c.amount
      /\ \A k \in 1 .. (Len(s) - 1) : s[k] \notin Int
  <2>1. CASE c.kind # "ExtIntegration"
    <3> HIDE DEF T
    <3>1. s = <<c.target, c.amount>>  BY <2>1 DEF Tokens
    <3>2. s \in Seq(T) /\ Len(s) = 2 /\ s[1] = c.target /\ s[2] = c.amount  BY <1>2, <3>1
    <3> HIDE DEF s
    <3> QED  BY <1>2, <3>2
  <2>2. CASE c.kind = "ExtIntegration"
    <3> DEFINE us == c.utxos
               h == <<c.target>>
               e == <<c.amount>>
               m == Len(us)
    <3>1. s = (h \o us) \o e  BY <2>2 DEF Tokens
    <3>2. us \in Seq(T) /\ m \in Nat /\ \A k \in 1 .. m : us[k] \notin Int
      <4>1. us \in Seq(K)  BY <1>1, <2>2
      <4> HIDE DEF us, T
      <4> QED  BY <1>2, <4>1
    <3> HIDE DEF T
    <3>3. /\ h \in Seq(T) /\ Len(h) = 1 /\ h[1] = c.target
          /\ e \in Seq(T) /\ Len(e) = 1 /\ e[1] = c.amount
      BY <1>2
    <3> HIDE DEF us, h, e, m, s
    <3>4. /\ h \o us \in Seq(T) /\ Len(h \o us) = m + 1 /\ (h \o us)[1] = c.target
          /\ \A k \in 1 .. m : (h \o us)[k + 1] = us[k]
      <4>1. /\ h \o us \in Seq(T) /\ Len(h \o us) = Len(h) + Len(us)
            /\ \A k \in 1 .. Len(h) : (h \o us)[k] = h[k]
            /\ \A k \in 1 .. Len(us) : (h \o us)[Len(h) + k] = us[k]
        BY <3>2, <3>3, ConcatParts
      <4>2. 1 \in 1 .. Len(h) /\ \A k \in 1 .. m : Len(h) + k = k + 1  BY <3>2, <3>3
      <4> QED  BY <3>2, <3>3, <4>1, <4>2 DEF m
    <3> DEFINE g == h \o us
    <3>5. /\ g \in Seq(T) /\ Len(g) = m + 1 /\ g[1] = c.target
          /\ \A k \in 1 .. m : g[k + 1] = us[k]
          /\ s = g \o e
      BY <3>1, <3>4
    <3> HIDE DEF g
    <3>6. /\ s \in Seq(T) /\ Len(s) = m + 2
          /\ \A k \in 1 .. (m + 1) : s[k] = g[k]
          /\ s[m + 2] = c.amount
      <4>0. g \in Seq(T) /\ e \in Seq(T)  BY <3>3, <3>5
      <4>1. /\ g \o e \in Seq(T) /\ Len(g \o e) = Len(g) + Len(e)
            /\ \A k \in 1 .. Len(g) : (g \o e)[k] = g[k]
            /\ \A k \in 1 .. Len(e) : (g \o e)[Len(g) + k] = e[k]
        BY <4>0, ConcatParts
      <4>2. 1 \in 1 .. Len(e) /\ Len(g) + 1 = m + 2 /\ Len(g) + Len(e) = m + 2
        BY <3>2, <3>3, <3>5
      <4>3. s[m + 2] = e[1]  BY <3>5, <4>1, <4>2
      <4> QED  BY <3>3, <3>5, <4>1, <4>2, <4>3
    <3>7. ASSUME NEW k \in 1 .. (m + 1)  PROVE s[k] \notin Int
      <4>1. CASE k = 1  BY <1>2, <3>2, <3>5, <3>6, <4>1
      <4>2. CASE k # 1
        <5>1. k - 1 \in 1 .. m /\ (k - 1) + 1 = k  BY <3>2, <4>2
        <5>2. g[(k - 1) + 1] = us[k - 1]  BY <3>5, <5>1
        <5> QED  BY <3>2, <3>6, <5>1, <5>2
      <4> QED  BY <4>1, <4>2
    <3>8. s[1] = c.target  BY <3>2, <3>5, <3>6
    <3> QED  BY <3>2, <3>6, <3>7, <3>8
  <2> QED  BY <2>1, <2>2
<1> HIDE DEF s, T
<1>4. s[Len(s)] \in Int  BY <1>1, <1>3
<1>5. Closed(s) /\ \A x, a : Named(s, x, a) <=> x = s[1] /\ a = s[Len(s)]
  BY <1>3, <1>4, PieceNames
<1>6. \A x, a : Named(s, x, a) <=> x = c.target /\ a = c.amount  BY <1>3, <1>5
<1> QED  BY <1>3, <1>5, <1>6 DEF s, T

(* The buffer of a kind names what the conditions of that kind name.       *)
LEMMA GroupNamed ==
  ASSUME NEW K, NEW A, (K \cup A) \cap Int = {}, NEW conds \in Seq(Condition(K, A, Int)), NEW kind
  PROVE  /\ Group(conds, kind) \in Seq(K \cup A \cup Int) /\ Closed(Group(conds, kind))
         /\ \A x, a : Named(Group(conds, kind), x, a) <=>
              \E c \in ToSet(conds) : c.kind = kind /\ c.target = x /\ c.amount = a
<1> DEFINE T == K \cup A \cup Int
           piece(k) == IF conds[k].kind = kind THEN Tokens(conds[k]) ELSE <<>>
           ss == [k \in DOMAIN conds |-> piece(k)]
<1>1. ASSUME NEW k \in DOMAIN conds
      PROVE  /\ piece(k) \in Seq(T) /\ Closed(piece(k))
             /\ \A x, a : Named(piece(k), x, a) <=>
                  conds[k].kind = kind /\ conds[k].target = x /\ conds[k].amount = a
  <2> DEFINE c == conds[k]
  <2>1. c \in Condition(K, A, Int)  OBVIOUS
  <2> HIDE DEF T, c
  <2>2. /\ Tokens(c) \in Seq(T) /\ Closed(Tokens(c))
        /\ \A x, a : Named(Tokens(c), x, a) <=> x = c.target /\ a = c.amount
    BY <2>1, TokensNamed DEF T
  <2>3. CASE c.kind = kind
    <3>1. piece(k) = Tokens(c)  BY <2>3 DEF c
    <3> HIDE DEF piece
    <3> QED  BY <2>2, <2>3, <3>1 DEF c
  <2>4. CASE c.kind # kind
    <3>1. piece(k) = <<>>  BY <2>4 DEF c
    <3>2. <<>> \in Seq(T)  OBVIOUS
    <3> HIDE DEF piece
    <3> QED  BY <2>4, <3>1, <3>2, NamedEmpty DEF c
  <2> QED  BY <2>3, <2>4
<1>2. DOMAIN conds = 1 .. Len(conds) /\ Len(conds) \in Nat  OBVIOUS
<1> HIDE DEF T, piece
<1>3. ss \in Seq(Seq(T)) /\ Len(ss) = Len(conds) /\ \A k \in 1 .. Len(ss) : ss[k] = piece(k)
  <2>1. ss = [k \in 1 .. Len(conds) |-> piece(k)]  BY <1>2
  <2>2. \A k \in 1 .. Len(conds) : piece(k) \in Seq(T)  BY <1>1, <1>2
  <2> HIDE DEF ss
  <2> QED  BY <1>2, <2>1, <2>2
<1>4. Group(conds, kind) = FlattenSeq(ss)  BY DEF Group, piece
<1> HIDE DEF ss
<1>5. ASSUME NEW k \in 1 .. Len(ss)  PROVE Closed(ss[k])
  <2>1. k \in DOMAIN conds /\ ss[k] = piece(k)  BY <1>2, <1>3
  <2> QED  BY <1>1, <2>1, Zenon
<1>6. /\ FlattenSeq(ss) \in Seq(T) /\ Closed(FlattenSeq(ss))
      /\ \A x, a : Named(FlattenSeq(ss), x, a) <=> \E k \in 1 .. Len(ss) : Named(ss[k], x, a)
  BY <1>3, <1>5, FlattenNamed
<1>7. ASSUME NEW x, NEW a
      PROVE  Named(FlattenSeq(ss), x, a) <=>
               \E c \in ToSet(conds) : c.kind = kind /\ c.target = x /\ c.amount = a
  <2>1. Named(FlattenSeq(ss), x, a) <=> \E k \in 1 .. Len(conds) : Named(piece(k), x, a)
    BY <1>3, <1>6
  <2>2. \A k \in 1 .. Len(conds) : Named(piece(k), x, a) <=>
          conds[k].kind = kind /\ conds[k].target = x /\ conds[k].amount = a
    BY <1>1, <1>2
  <2>3. ToSet(conds) = {conds[k] : k \in 1 .. Len(conds)}  BY <1>2 DEF ToSet
  <2> QED  BY <2>1, <2>2, <2>3
<1> DEFINE g == FlattenSeq(ss)
<1>8. Group(conds, kind) = g /\ g \in Seq(T) /\ Closed(g)  BY <1>4, <1>6
<1>9. \A x, a : Named(g, x, a) <=>
        \E c \in ToSet(conds) : c.kind = kind /\ c.target = x /\ c.amount = a
  BY <1>7
<1> HIDE DEF g
<1> QED  BY <1>8, <1>9 DEF T

LEMMA BuffersNamed ==
  ASSUME NEW K, NEW A, (K \cup A) \cap Int = {}, NEW conds \in Seq(Condition(K, A, Int))
  PROVE  /\ Buffers(conds) \in Seq(K \cup A \cup Int)
         /\ \A x, a : Named(Buffers(conds), x, a) <=>
              \E c \in ToSet(conds) : c.target = x /\ c.amount = a
<1> DEFINE T == K \cup A \cup Int
           g1 == Group(conds, "Create")
           g2 == Group(conds, "ExtDeposit")
           g3 == Group(conds, "ExtWithdraw")
           g4 == Group(conds, "ExtIntegration")
           two == g1 \o g2
           three == two \o g3
           four == three \o g4
           Of(kind, x, a) == \E c \in ToSet(conds) : c.kind = kind /\ c.target = x /\ c.amount = a
<1>1. /\ g1 \in Seq(T) /\ Closed(g1)
      /\ \A x, a : Named(g1, x, a) <=> Of("Create", x, a)
  BY GroupNamed
<1>2. /\ g2 \in Seq(T) /\ Closed(g2)
      /\ \A x, a : Named(g2, x, a) <=> Of("ExtDeposit", x, a)
  BY GroupNamed
<1>3. /\ g3 \in Seq(T) /\ Closed(g3)
      /\ \A x, a : Named(g3, x, a) <=> Of("ExtWithdraw", x, a)
  BY GroupNamed
<1>4. /\ g4 \in Seq(T) /\ Closed(g4)
      /\ \A x, a : Named(g4, x, a) <=> Of("ExtIntegration", x, a)
  BY GroupNamed
<1>5. \A c \in ToSet(conds) : c.kind \in {"Create", "ExtDeposit", "ExtWithdraw", "ExtIntegration"}
  <2>1. \A c \in ToSet(conds) : c \in Condition(K, A, Int)  BY DEF ToSet
  <2> QED  BY <2>1 DEF Condition
<1>6. Buffers(conds) = four  BY DEF Buffers
<1> HIDE DEF T, g1, g2, g3, g4, Of
<1>7. /\ two \in Seq(T) /\ Closed(two)
      /\ \A x, a : Named(two, x, a) <=> Named(g1, x, a) \/ Named(g2, x, a)
  BY <1>1, <1>2, NamedConcat
<1> HIDE DEF two
<1>8. /\ three \in Seq(T) /\ Closed(three)
      /\ \A x, a : Named(three, x, a) <=> Named(two, x, a) \/ Named(g3, x, a)
  BY <1>3, <1>7, NamedConcat
<1> HIDE DEF three
<1>9. /\ four \in Seq(T)
      /\ \A x, a : Named(four, x, a) <=> Named(three, x, a) \/ Named(g4, x, a)
  BY <1>4, <1>8, NamedConcat
<1> HIDE DEF four
<1>10. ASSUME NEW x, NEW a
       PROVE  Named(four, x, a) <=> \E c \in ToSet(conds) : c.target = x /\ c.amount = a
  <2>1. Named(four, x, a) <=> \/ Of("Create", x, a) \/ Of("ExtDeposit", x, a)
                              \/ Of("ExtWithdraw", x, a) \/ Of("ExtIntegration", x, a)
    BY <1>1, <1>2, <1>3, <1>4, <1>7, <1>8, <1>9
  <2> QED  BY <1>5, <2>1 DEF Of
<1>11. \A x, a : Named(four, x, a) <=> \E c \in ToSet(conds) : c.target = x /\ c.amount = a
  BY <1>10
<1> QED  BY <1>6, <1>9, <1>11 DEF T

(* The same contract and last ledger, and the same targets named with the  *)
(* same amounts, in whichever kinds of conditions.                         *)
SameTerms(conds, until, contract, signed, expiry, signedFor) ==
  /\ contract = signedFor /\ until = expiry
  /\ \A c \in ToSet(conds) : \E d \in ToSet(signed) :
       d.target = c.target /\ d.amount = c.amount
  /\ \A d \in ToSet(signed) : \E c \in ToSet(conds) :
       c.target = d.target /\ c.amount = d.amount

(* Two lists with fewer than nine conditions that are no creates, and      *)
(* without UTXO keys in integrations, that take the same number of bytes   *)
(* have as many creates, and as many other conditions: the bytes of one    *)
(* are cut into keys, addresses and amounts as the bytes of the other.     *)
THEOREM SizeFixesShape ==
  ASSUME NEW C, NEW conds \in Seq(C), NEW signed \in Seq(C),
         Fixed(conds), Fixed(signed), Size(conds) = Size(signed)
  PROVE  /\ Cardinality(CreatesAt(conds)) = Cardinality(CreatesAt(signed))
         /\ Cardinality(OthersAt(conds)) = Cardinality(OthersAt(signed))
<1>1. ASSUME NEW s \in Seq(C), Fixed(s)
      PROVE  /\ Cardinality(CreatesAt(s)) \in Nat
             /\ Cardinality(OthersAt(s)) \in Nat /\ Cardinality(OthersAt(s)) < 9
             /\ Size(s) = 81 * Cardinality(CreatesAt(s)) + 72 * Cardinality(OthersAt(s))
  <2>1. DOMAIN s = 1 .. Len(s) /\ Len(s) \in Int  OBVIOUS
  <2>2. IsFiniteSet(DOMAIN s)
    <3>1. 1 \in Int  OBVIOUS
    <3> QED  BY <2>1, <3>1, FS_Interval
  <2>3. CreatesAt(s) \subseteq DOMAIN s /\ OthersAt(s) \subseteq DOMAIN s
    BY DEF CreatesAt, OthersAt
  <2>4. Cardinality(CreatesAt(s)) \in Nat /\ Cardinality(OthersAt(s)) \in Nat
    BY <2>2, <2>3, FS_Subset, FS_CardinalityType
  <2>5. Cardinality(KeysAt(s)) = 0 /\ Cardinality(OthersAt(s)) < 9
    BY <1>1, FS_EmptySet DEF Fixed
  <2> QED  BY <2>4, <2>5 DEF Size
<1> DEFINE c == Cardinality(CreatesAt(conds))
           e == Cardinality(OthersAt(conds))
           f == Cardinality(CreatesAt(signed))
           g == Cardinality(OthersAt(signed))
<1>2. /\ c \in Nat /\ e \in Nat /\ f \in Nat /\ g \in Nat /\ e < 9 /\ g < 9
      /\ 81 * c + 72 * e = 81 * f + 72 * g
  BY <1>1
<1> HIDE DEF c, e, f, g
<1>3. c = f /\ e = g  BY <1>2
<1> QED  BY <1>3 DEF c, e, f, g

(* What a signature over a payload binds its maker to, for lists of        *)
(* conditions whose size fixes their shape.  Two payloads whose bytes are  *)
(* the same are for the same contract and the same last ledger, and name   *)
(* the same targets with the same amounts, although hash_payload regroups  *)
(* the conditions and writes no number of them.  It writes no kinds        *)
(* either, and they are not bound: see KindsAreNotSigned.                  *)
THEOREM PayloadBinds ==
  ASSUME NEW K, NEW A, (K \cup A) \cap Int = {},
         NEW conds \in Seq(Condition(K, A, Int)), NEW until, NEW contract,
         NEW signed \in Seq(Condition(K, A, Int)), NEW expiry, NEW signedFor,
         Fixed(conds), Fixed(signed),
         SameBytes(HashPayload(signed, expiry, signedFor), HashPayload(conds, until, contract))
  PROVE  SameTerms(conds, until, contract, signed, expiry, signedFor)
<1> DEFINE T == K \cup A \cup Int
           s == Buffers(conds)
           t == Buffers(signed)
<1>1. /\ s \in Seq(T)
      /\ \A x, a : Named(s, x, a) <=> \E c \in ToSet(conds) : c.target = x /\ c.amount = a
  BY BuffersNamed
<1>2. /\ t \in Seq(T)
      /\ \A x, a : Named(t, x, a) <=> \E c \in ToSet(signed) : c.target = x /\ c.amount = a
  BY BuffersNamed
<1>3. contract = signedFor /\ until = expiry /\ s = t  BY DEF SameBytes, HashPayload
<1> HIDE DEF s, t
<1>4. ASSUME NEW c \in ToSet(conds)
      PROVE  \E d \in ToSet(signed) : d.target = c.target /\ d.amount = c.amount
  <2>1. Named(s, c.target, c.amount)  BY <1>1
  <2>2. Named(t, c.target, c.amount)  BY <1>3, <2>1
  <2> QED  BY <1>2, <2>2
<1>5. ASSUME NEW d \in ToSet(signed)
      PROVE  \E c \in ToSet(conds) : c.target = d.target /\ c.amount = d.amount
  <2>1. Named(t, d.target, d.amount)  BY <1>2
  <2>2. Named(s, d.target, d.amount)  BY <1>3, <2>1
  <2> QED  BY <1>1, <2>2
<1> QED  BY <1>3, <1>4, <1>5 DEF SameTerms

(* One piece flattened is that piece.                                      *)
LEMMA FlattenOne ==
  ASSUME NEW T, NEW s \in Seq(T)
  PROVE  FlattenSeq(<<s>>) = s
<1> DEFINE ss == <<s>>
<1>1. ss \in Seq(Seq(T)) /\ Len(ss) = 1 /\ ss[1] = s  OBVIOUS
<1> HIDE DEF ss
<1>2. PICK f : /\ f = [k \in 1 .. Len(ss) |-> IF k = 1 THEN ss[k] ELSE f[k - 1] \o ss[k]]
               /\ FlattenSeq(ss) = f[Len(ss)]
  <2>1. Len(ss) # 0  BY <1>1
  <2> QED  BY <1>1, <2>1, FlattenIs, Zenon
<1>3. f[1] = ss[1]  BY <1>1, <1>2
<1>4. FlattenSeq(ss) = s  BY <1>1, <1>2, <1>3
<1> QED  BY <1>4 DEF ss

LEMMA GroupOfOne ==
  ASSUME NEW c, c.kind # "ExtIntegration", NEW kind
  PROVE  Group(<<c>>, kind) = IF c.kind = kind THEN <<c.target, c.amount>> ELSE <<>>
<1> DEFINE s == IF c.kind = kind THEN Tokens(c) ELSE <<>>
           T == {c.target, c.amount}
           cs == <<c>>
           ss == [k \in DOMAIN cs |-> IF cs[k].kind = kind THEN Tokens(cs[k]) ELSE <<>>]
<1>1. Tokens(c) = <<c.target, c.amount>>  BY DEF Tokens
<1>2. s \in Seq(T)
  <2>1. <<c.target, c.amount>> \in Seq(T) /\ <<>> \in Seq(T)  OBVIOUS
  <2> HIDE DEF T
  <2> QED  BY <1>1, <2>1
<1>3. DOMAIN cs = {1} /\ cs[1] = c  OBVIOUS
<1> HIDE DEF cs
<1>4. ss = [k \in {1} |-> s]  BY <1>3
<1> HIDE DEF s, T, ss
<1>5. ss = <<s>>
  <2>1. <<s>> = [k \in {1} |-> s]  OBVIOUS
  <2> QED  BY <1>4, <2>1
<1>6. FlattenSeq(<<s>>) = s  BY <1>2, FlattenOne
<1>7. Group(cs, kind) = FlattenSeq(ss)  BY Zenon DEF Group, ss
<1>8. Group(<<c>>, kind) = s  BY <1>5, <1>6, <1>7, Zenon DEF cs
<1> QED  BY <1>1, <1>8 DEF s

(* hash_payload does not tell the kinds of conditions apart: the payload   *)
(* of a withdrawal is, byte for byte, that of a deposit by the same        *)
(* address of the same amount.                                             *)
THEOREM KindsAreNotSigned ==
  ASSUME NEW addr, NEW amount, NEW until, NEW contract
  PROVE  HashPayload(<<ExtWithdraw(addr, amount)>>, until, contract)
           = HashPayload(<<ExtDeposit(addr, amount)>>, until, contract)
<1> DEFINE w == ExtWithdraw(addr, amount)
           d == ExtDeposit(addr, amount)
           t == <<addr, amount>>
<1>1. /\ w.kind = "ExtWithdraw" /\ w.target = addr /\ w.amount = amount
      /\ d.kind = "ExtDeposit" /\ d.target = addr /\ d.amount = amount
  BY DEF ExtWithdraw, ExtDeposit
<1> HIDE DEF w, d
<1>2. /\ Group(<<w>>, "Create") = <<>> /\ Group(<<w>>, "ExtDeposit") = <<>>
      /\ Group(<<w>>, "ExtWithdraw") = t /\ Group(<<w>>, "ExtIntegration") = <<>>
  BY <1>1, GroupOfOne
<1>3. /\ Group(<<d>>, "Create") = <<>> /\ Group(<<d>>, "ExtDeposit") = t
      /\ Group(<<d>>, "ExtWithdraw") = <<>> /\ Group(<<d>>, "ExtIntegration") = <<>>
  BY <1>1, GroupOfOne
<1>4. <<>> \o <<>> = <<>> /\ <<>> \o t = t /\ t \o <<>> = t  OBVIOUS
<1> HIDE DEF t
<1>5. Buffers(<<w>>) = Buffers(<<d>>)
  <2>1. Buffers(<<w>>) = t  BY <1>2, <1>4 DEF Buffers
  <2>2. Buffers(<<d>>) = t  BY <1>3, <1>4 DEF Buffers
  <2> QED  BY <2>1, <2>2
<1>6. CreatesAt(<<w>>) = CreatesAt(<<d>>) /\ KeysAt(<<w>>) = KeysAt(<<d>>)
  <2>1. CreatesAt(<<w>>) = {} /\ CreatesAt(<<d>>) = {}  BY <1>1 DEF CreatesAt
  <2>2. KeysAt(<<w>>) = {} /\ KeysAt(<<d>>) = {}
    <3>1. {j \in DOMAIN <<w>> : <<w>>[j].kind = "ExtIntegration"} = {}  BY <1>1
    <3>2. {j \in DOMAIN <<d>> : <<d>>[j].kind = "ExtIntegration"} = {}  BY <1>1
    <3> QED  BY <3>1, <3>2 DEF KeysAt
  <2> QED  BY <2>1, <2>2
<1>7. OthersAt(<<w>>) = OthersAt(<<d>>)  BY <1>6 DEF OthersAt
<1>8. Size(<<w>>) = Size(<<d>>)  BY <1>6, <1>7, Zenon DEF Size
<1>9. Fixed(<<w>>) = Fixed(<<d>>)  BY <1>6, <1>7, Zenon DEF Fixed
<1> QED  BY <1>5, <1>8, <1>9, Zenon DEF HashPayload, w, d

(* The key of a UTXO is no address: what is named like a create is that    *)
(* create.                                                                 *)
LEMMA CreateDetermined ==
  ASSUME NEW K, NEW A, NEW N, K \cap A = {},
         NEW c \in Condition(K, A, N), NEW d \in Condition(K, A, N),
         c.kind = "Create", d.target = c.target, d.amount = c.amount
  PROVE  d = c
<1>1. c \in [kind : {"Create"}, target : K, amount : N]  BY DEF Condition
<1>2. d \in [kind : {"Create"}, target : K, amount : N]  BY <1>1 DEF Condition
<1> QED  BY <1>1, <1>2
=============================================================================
