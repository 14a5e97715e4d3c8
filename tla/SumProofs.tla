------------------------------ MODULE SumProofs ------------------------------
(***************************************************************************)
(* Sums over finite sets, as FoldLeft, SumFunction and MapThenSumSet make   *)
(* them: by taking one element after the other in some order.  The order    *)
(* does not matter, and what one element adds can be split off.             *)
(***************************************************************************)
EXTENDS Integers, SequencesExt, FiniteSetTheorems, NaturalsInduction, TLAPS

\* h is the sum of f over the subsets of S, whichever element comes first.
IsSum(h, f, S) ==
    /\ h \in [SUBSET S -> Int]
    /\ h[{}] = 0
    /\ \A s \in SUBSET S : \A x \in s : h[s] = f[x] + h[s \ {x}]

SumOf(f, S) == LET sum == CHOOSE h : IsSum(h, f, S) IN sum[S]

\* g adds up f over the subsets of S, in an order of its own.
AddsUp(g, f, S) ==
    /\ g[{}] = 0
    /\ \A s \in SUBSET S : s # {} => \E x \in s : g[s] = f[x] + g[s \ {x}]

\* A sum over S, the same as h on a smaller set.
SumsOn(g, f, S, h, T) == IsSum(g, f, S) /\ \A s \in SUBSET T : g[s] = h[s]

-----------------------------------------------------------------------------
\* A set of naturals that is not empty has a least element.
LEMMA LeastNumber ==
    ASSUME NEW T \in SUBSET Nat, T # {}
    PROVE  \E x \in T : \A y \in T : x <= y
<1>1. PICK x \in T : \A y \in T : ~(<<y, x>> \in OpToRel(<, Nat))
  BY NatLessThanWellFounded, WFMin
<1>2. \A y \in T : y < x => <<y, x>> \in OpToRel(<, Nat)
  BY DEF OpToRel
<1>3. \A y \in T : ~(y < x)
  BY <1>1, <1>2, Zenon
<1> QED
  BY <1>3

\* The step from a set to one with an element more.
LEMMA SumGrows ==
    ASSUME NEW f, NEW S, NEW z, z \notin S, f[z] \in Int, NEW h, IsSum(h, f, S),
           \A x \in S : f[x] \in Int
    PROVE  \E g : SumsOn(g, f, S \cup {z}, h, S)
<1> DEFINE more == S \cup {z}
           g == [s \in SUBSET more |-> IF z \in s THEN f[z] + h[s \ {z}] ELSE h[s]]
<1>1. /\ h \in [SUBSET S -> Int] /\ h[{}] = 0
      /\ \A s \in SUBSET S : \A x \in s : h[s] = f[x] + h[s \ {x}]
  BY DEF IsSum
<1>2. \A s \in SUBSET more : s \ {z} \in SUBSET S /\ (z \notin s => s \in SUBSET S)
  OBVIOUS
<1>3. \A s \in SUBSET more : h[s \ {z}] \in Int /\ (z \notin s => h[s] \in Int)
  BY <1>1, <1>2
<1>4. g \in [SUBSET more -> Int]
  BY <1>3
<1>5. \A s \in SUBSET more : /\ z \in s => g[s] = f[z] + h[s \ {z}]
                             /\ z \notin s => g[s] = h[s]
  OBVIOUS
<1> HIDE DEF g
<1>6. g[{}] = 0
  BY <1>1, <1>5
<1>7. ASSUME NEW s \in SUBSET more, NEW x \in s
      PROVE  g[s] = f[x] + g[s \ {x}]
  <2>1. s \ {x} \in SUBSET more /\ h[s \ {z}] \in Int
    BY <1>3
  <2>2. CASE z \notin s
    <3>1. g[s] = h[s] /\ g[s \ {x}] = h[s \ {x}] /\ s \in SUBSET S
      BY <1>5, <2>1, <2>2
    <3> QED
      BY <1>1, <3>1
  <2>3. CASE x = z
    <3>1. g[s \ {x}] = h[s \ {z}] /\ g[s] = f[z] + h[s \ {z}]
      BY <1>5, <2>1, <2>3
    <3> QED
      BY <2>3, <3>1
  <2>4. CASE z \in s /\ x # z
    <3> PICK t, u : t = s \ {z} /\ u = t \ {x}
      OBVIOUS
    <3>1. t \in SUBSET S /\ x \in t /\ u \in SUBSET S /\ x \in S
      BY <2>4
    <3>2. h[t] = f[x] + h[u]
      BY <1>1, <3>1
    <3>3. (s \ {x}) \ {z} = u /\ z \in s \ {x}
      BY <2>4
    <3>4. g[s] = f[z] + h[t] /\ g[s \ {x}] = f[z] + h[u]
      BY <1>5, <2>1, <2>4, <3>3
    <3>5. h[u] \in Int /\ h[t] \in Int /\ f[x] \in Int
      BY <1>1, <3>1
    <3> QED
      BY <3>2, <3>4, <3>5
  <2> QED
    BY <2>2, <2>3, <2>4
<1>8. IsSum(g, f, more)
  BY <1>4, <1>6, <1>7 DEF IsSum
<1>9. \A s \in SUBSET S : s \in SUBSET more /\ z \notin s
  OBVIOUS
<1>10. SumsOn(g, f, more, h, S)
  BY <1>5, <1>8, <1>9 DEF SumsOn
<1> QED
  BY <1>10

\* Every finite set has a sum.
LEMMA SumExists ==
    ASSUME NEW f, NEW S, IsFiniteSet(S), \A x \in S : f[x] \in Int
    PROVE  \E h : IsSum(h, f, S)
<1> DEFINE Summed(T) == \E h : IsSum(h, f, T)
           Bad == {n \in Nat : \E T : /\ IsFiniteSet(T) /\ Cardinality(T) = n
                                      /\ \A x \in T : f[x] \in Int
                                      /\ ~Summed(T)}
<1>1. SUFFICES ASSUME ~Summed(S) PROVE FALSE
  OBVIOUS
<1>2. Bad \in SUBSET Nat /\ Bad # {}
  <2>1. Cardinality(S) \in Nat
    BY FS_CardinalityType
  <2>2. Cardinality(S) \in Bad
    BY <1>1, <2>1
  <2> QED
    BY <2>2
<1>3. PICK n \in Bad : \A m \in Bad : n <= m
  BY <1>2, LeastNumber
<1>4. PICK T : /\ IsFiniteSet(T) /\ Cardinality(T) = n
               /\ \A x \in T : f[x] \in Int
               /\ ~Summed(T)
  BY <1>3
<1>5. CASE T = {}
  <2> DEFINE h == [s \in SUBSET T |-> 0]
  <2>1. IsSum(h, f, T)
    BY <1>5 DEF IsSum
  <2> QED
    BY <1>4, <2>1
<1>6. CASE T # {}
  <2>1. PICK z \in T : TRUE
    BY <1>6
  <2> PICK U : U = T \ {z}
    OBVIOUS
  <2>2. IsFiniteSet(U) /\ Cardinality(U) = n - 1 /\ n \in Nat /\ n - 1 \in Nat
    <3>1. IsFiniteSet(U) /\ Cardinality(U) = Cardinality(T) - 1
      BY <1>4, <2>1, FS_RemoveElement
    <3>2. Cardinality(U) \in Nat
      BY <3>1, FS_CardinalityType
    <3> QED
      BY <1>3, <1>4, <3>1, <3>2
  <2>3. n - 1 \notin Bad
    BY <1>3, <2>2
  <2>4. \A x \in U : f[x] \in Int
    BY <1>4
  <2>5. Summed(U)
    <3> HIDE DEF Summed
    <3>1. ~Summed(U) => n - 1 \in Bad
      BY <2>2, <2>4
    <3> HIDE DEF Bad
    <3> QED
      BY <2>3, <3>1
  <2> HIDE DEF Bad
  <2>6. PICK h : IsSum(h, f, U)
    BY <2>5
  <2>7. z \notin U /\ U \cup {z} = T /\ f[z] \in Int
    BY <1>4, <2>1
  <2>8. \E g : SumsOn(g, f, U \cup {z}, h, U)
    BY <2>4, <2>6, <2>7, SumGrows
  <2>9. \E g : IsSum(g, f, T)
    BY <2>7, <2>8, Zenon DEF SumsOn
  <2> QED
    BY <1>4, <2>9
<1> QED
  BY <1>5, <1>6

\* No order of adding gives another result.
LEMMA SumUnique ==
    ASSUME NEW f, NEW S, IsFiniteSet(S), NEW h, IsSum(h, f, S), NEW g, AddsUp(g, f, S)
    PROVE  \A s \in SUBSET S : g[s] = h[s]
<1> DEFINE Bad == {n \in Nat : \E s \in SUBSET S : Cardinality(s) = n /\ g[s] # h[s]}
<1>1. \A s \in SUBSET S : IsFiniteSet(s) /\ Cardinality(s) \in Nat
  BY FS_Subset, FS_CardinalityType
<1>2. SUFFICES ASSUME NEW r \in SUBSET S, g[r] # h[r] PROVE FALSE
  OBVIOUS
<1>3. Bad \in SUBSET Nat /\ Bad # {}
  <2>1. Cardinality(r) \in Bad
    BY <1>1, <1>2
  <2> QED
    BY <2>1
<1>4. PICK n \in Bad : \A m \in Bad : n <= m
  BY <1>3, LeastNumber
<1>5. PICK s \in SUBSET S : Cardinality(s) = n /\ g[s] # h[s]
  BY <1>4
<1>6. s # {}
  BY <1>5 DEF AddsUp, IsSum
<1>7. PICK x \in s : g[s] = f[x] + g[s \ {x}]
  BY <1>6 DEF AddsUp
<1> PICK t : t = s \ {x}
  OBVIOUS
<1>8. t \in SUBSET S /\ Cardinality(t) = n - 1 /\ n - 1 \in Nat
  <2>1. Cardinality(t) = Cardinality(s) - 1
    BY <1>1, <1>7, FS_RemoveElement
  <2> QED
    BY <1>1, <1>5, <2>1
<1>9. n - 1 \notin Bad
  BY <1>4, <1>8
<1>10. g[t] = h[t]
  BY <1>8, <1>9
<1>11. h[s] = f[x] + h[t]
  BY <1>7 DEF IsSum
<1> QED
  BY <1>5, <1>7, <1>10, <1>11

LEMMA SumIs ==
    ASSUME NEW f, NEW S, IsFiniteSet(S), \A x \in S : f[x] \in Int
    PROVE  /\ \A h : IsSum(h, f, S) => h[S] = SumOf(f, S)
           /\ \A g : AddsUp(g, f, S) => g[S] = SumOf(f, S)
           /\ SumOf(f, S) \in Int
<1> DEFINE sum == CHOOSE h : IsSum(h, f, S)
<1>1. IsSum(sum, f, S)
  BY SumExists
<1>2. SumOf(f, S) = sum[S]
  BY DEF SumOf
<1> HIDE DEF sum
<1>3. \A g : AddsUp(g, f, S) => g[S] = sum[S]
  BY <1>1, SumUnique
<1>4. \A h : IsSum(h, f, S) => AddsUp(h, f, S)
  BY DEF IsSum, AddsUp
<1>5. sum[S] \in Int
  BY <1>1 DEF IsSum
<1> QED
  BY <1>2, <1>3, <1>4, <1>5

-----------------------------------------------------------------------------
\* What is known of sums.

LEMMA SumEmpty == ASSUME NEW f PROVE SumOf(f, {}) = 0
<1>1. IsFiniteSet({})
  BY FS_EmptySet
<1>2. PICK h : IsSum(h, f, {})
  BY <1>1, SumExists
<1>3. h[{}] = SumOf(f, {})
  BY <1>1, <1>2, SumIs
<1> QED
  BY <1>2, <1>3 DEF IsSum

LEMMA SumSplit ==
    ASSUME NEW f, NEW S, IsFiniteSet(S), \A x \in S : f[x] \in Int, NEW z \in S
    PROVE  /\ SumOf(f, S) = f[z] + SumOf(f, S \ {z})
           /\ SumOf(f, S \ {z}) \in Int
<1> PICK T : T = S \ {z}
  OBVIOUS
<1>1. /\ IsFiniteSet(T) /\ z \notin T /\ T \cup {z} = S /\ f[z] \in Int
      /\ \A x \in T : f[x] \in Int
  BY FS_RemoveElement
<1>2. PICK h : IsSum(h, f, T)
  BY <1>1, SumExists
<1>3. PICK g : SumsOn(g, f, T \cup {z}, h, T)
  BY <1>1, <1>2, SumGrows
<1>4. IsSum(g, f, S) /\ g[T] = h[T]
  BY <1>1, <1>3 DEF SumsOn
<1>5. g[S] = f[z] + g[T]
  BY <1>4 DEF IsSum
<1>6. g[S] = SumOf(f, S) /\ h[T] = SumOf(f, T) /\ SumOf(f, T) \in Int
  BY <1>1, <1>2, <1>4, SumIs
<1> QED
  BY <1>4, <1>5, <1>6

\* The same values add up to the same, wherever they stand.
LEMMA SumMoved ==
    ASSUME NEW f, NEW S, IsFiniteSet(S), NEW g, NEW T, IsFiniteSet(T),
           \A y \in T : g[y] \in Int,
           NEW p, \A x \in S : p[x] \in T /\ f[x] = g[p[x]],
           \A x, y \in S : p[x] = p[y] => x = y,
           \A y \in T : \E x \in S : p[x] = y
    PROVE  SumOf(f, S) = SumOf(g, T)
<1> DEFINE Image(s) == {p[x] : x \in s}
<1>1. PICK h : IsSum(h, g, T)
  BY SumExists
<1> DEFINE k == [s \in SUBSET S |-> h[Image(s)]]
<1>2. \A s \in SUBSET S : k[s] = h[Image(s)] /\ Image(s) \in SUBSET T
  OBVIOUS
<1>3. k[{}] = 0
  <2>1. Image({}) = {}
    OBVIOUS
  <2> QED
    BY <1>1, <1>2, <2>1 DEF IsSum
<1>4. ASSUME NEW s \in SUBSET S, NEW x \in s
      PROVE  k[s] = f[x] + k[s \ {x}]
  <2>1. Image(s \ {x}) = Image(s) \ {p[x]}
    OBVIOUS
  <2>2. p[x] \in Image(s) /\ Image(s) \in SUBSET T /\ f[x] = g[p[x]] /\ s \ {x} \in SUBSET S
    OBVIOUS
  <2> HIDE DEF Image, k
  <2>3. h[Image(s)] = g[p[x]] + h[Image(s) \ {p[x]}]
    BY <1>1, <2>2 DEF IsSum
  <2>4. k[s] = h[Image(s)] /\ k[s \ {x}] = h[Image(s \ {x})]
    BY <1>2, <2>2, Zenon
  <2> QED
    BY <2>1, <2>2, <2>3, <2>4, Zenon
<1> HIDE DEF k
<1>5. AddsUp(k, f, S)
  BY <1>3, <1>4 DEF AddsUp
<1>6. \A x \in S : f[x] \in Int
  OBVIOUS
<1>7. k[S] = SumOf(f, S)
  BY <1>5, <1>6, SumIs
<1>8. Image(S) = T
  OBVIOUS
<1> HIDE DEF Image
<1>9. k[S] = h[T]
  BY <1>2, <1>8
<1> QED
  BY <1>1, <1>7, <1>9, SumIs

LEMMA SumSame ==
    ASSUME NEW f, NEW g, NEW S, IsFiniteSet(S), \A x \in S : f[x] \in Int /\ f[x] = g[x]
    PROVE  SumOf(f, S) = SumOf(g, S)
<1> DEFINE p == [x \in S |-> x]
<1>1. /\ \A x \in S : p[x] \in S /\ f[x] = g[p[x]]
      /\ \A x, y \in S : p[x] = p[y] => x = y
      /\ \A y \in S : \E x \in S : p[x] = y
      /\ \A y \in S : g[y] \in Int
  OBVIOUS
<1> HIDE DEF p
<1> QED
  BY <1>1, SumMoved

\* What an element added, or taken out, adds.
LEMMA SumMore ==
    ASSUME NEW f, NEW g, NEW S, IsFiniteSet(S), \A x \in S : f[x] \in Int,
           NEW z, z \notin S, g[z] \in Int, \A x \in S : g[x] = f[x],
           NEW T, T = S \cup {z}
    PROVE  SumOf(g, T) = SumOf(f, S) + g[z] /\ SumOf(f, S) \in Int
<1>1. IsFiniteSet(T) /\ z \in T /\ T \ {z} = S /\ \A x \in T : g[x] \in Int
  BY FS_AddElement
<1>2. SumOf(g, T) = g[z] + SumOf(g, S)
  BY <1>1, SumSplit
<1>3. SumOf(f, S) = SumOf(g, S) /\ SumOf(f, S) \in Int
  BY SumSame, SumIs
<1> QED
  BY <1>2, <1>3

\* The same with the numbers and the smaller set under names of their own.
IntsOn(f, S) == \A x \in S : f[x] \in Int

LEMMA SumApart ==
    ASSUME NEW f, NEW S, IsFiniteSet(S), IntsOn(f, S), NEW z \in S,
           NEW T, T = S \ {z}
    PROVE  SumOf(f, S) = f[z] + SumOf(f, T) /\ SumOf(f, T) \in Int
<1>1. \A x \in S : f[x] \in Int
  BY DEF IntsOn
<1>2. SumOf(f, S) = f[z] + SumOf(f, S \ {z}) /\ SumOf(f, S \ {z}) \in Int
  BY <1>1, SumSplit, Zenon
<1> QED
  BY <1>2

\* What a change of one value changes.
LEMMA SumChanged ==
    ASSUME NEW f, NEW g, NEW S, IsFiniteSet(S), \A x \in S : f[x] \in Int,
           NEW z \in S, g[z] \in Int, \A x \in S : x # z => g[x] = f[x]
    PROVE  /\ SumOf(g, S) = SumOf(f, S) + (g[z] - f[z])
           /\ SumOf(f, S) \in Int /\ SumOf(g, S) \in Int
<1>1. PICK T : T = S \ {z}
  OBVIOUS
<1>2. IntsOn(f, S) /\ IntsOn(g, S)
  BY DEF IntsOn
<1>3. SumOf(f, S) = f[z] + SumOf(f, T) /\ SumOf(f, T) \in Int
  BY <1>1, <1>2, SumApart
<1>4. SumOf(g, S) = g[z] + SumOf(g, T)
  BY <1>1, <1>2, SumApart
<1>5. SumOf(f, T) = SumOf(g, T)
  <2>1. IsFiniteSet(T)
    BY <1>1, FS_RemoveElement
  <2>2. \A x \in T : f[x] \in Int /\ f[x] = g[x]
    BY <1>1
  <2> QED
    BY <2>1, <2>2, SumSame
<1> QED
  BY <1>3, <1>4, <1>5

LEMMA SumZero ==
    ASSUME NEW f, NEW S, IsFiniteSet(S), \A x \in S : f[x] = 0
    PROVE  SumOf(f, S) = 0
<1> DEFINE h == [s \in SUBSET S |-> 0]
<1>1. IsSum(h, f, S)
  <2>1. h \in [SUBSET S -> Int] /\ \A s \in SUBSET S : h[s] = 0
    OBVIOUS
  <2>2. \A s \in SUBSET S : \A x \in s : s \ {x} \in SUBSET S /\ f[x] = 0
    OBVIOUS
  <2> HIDE DEF h
  <2>3. {} \in SUBSET S
    OBVIOUS
  <2> QED
    BY <2>1, <2>2, <2>3 DEF IsSum
<1>2. h[S] = 0
  OBVIOUS
<1> QED
  BY <1>1, <1>2, SumIs

\* Fewer values that are not negative add up to no more.
LEMMA SumFewer ==
    ASSUME NEW f, NEW S, IsFiniteSet(S), \A x \in S : f[x] \in Nat, NEW T \in SUBSET S
    PROVE  /\ SumOf(f, T) \in Int /\ SumOf(f, S) \in Int
           /\ SumOf(f, T) <= SumOf(f, S)
<1> DEFINE Bad == {n \in Nat : \E s \in SUBSET S : /\ T \in SUBSET s /\ Cardinality(s) = n
                                                /\ ~(SumOf(f, T) <= SumOf(f, s))}
<1>1. \A s \in SUBSET S : /\ IsFiniteSet(s) /\ Cardinality(s) \in Nat
                          /\ \A x \in s : f[x] \in Int
  BY FS_Subset, FS_CardinalityType
<1>2. \A s \in SUBSET S : SumOf(f, s) \in Int
  <2>1. ASSUME NEW s \in SUBSET S PROVE SumOf(f, s) \in Int
    BY <1>1, SumIs
  <2> QED
    BY <2>1
<1>3. SUFFICES ASSUME ~(SumOf(f, T) <= SumOf(f, S)) PROVE FALSE
  BY <1>2
<1>4. Cardinality(S) \in Bad
  BY <1>1, <1>3
<1>5. Bad \in SUBSET Nat /\ Bad # {}
  BY <1>4
<1>6. PICK n \in Bad : \A m \in Bad : n <= m
  BY <1>5, LeastNumber
<1>7. PICK s \in SUBSET S : T \in SUBSET s /\ Cardinality(s) = n /\ ~(SumOf(f, T) <= SumOf(f, s))
  BY <1>6
<1>8. PICK z \in s : z \notin T
  <2>1. s # T
    BY <1>2, <1>7
  <2> QED
    BY <1>7, <2>1
<1> PICK t : t = s \ {z}
  OBVIOUS
<1>9. t \in SUBSET S /\ T \in SUBSET t /\ Cardinality(t) = n - 1 /\ n - 1 \in Nat
  <2>1. Cardinality(t) = Cardinality(s) - 1
    BY <1>1, <1>8, FS_RemoveElement
  <2> QED
    BY <1>1, <1>7, <1>8, <2>1
<1>10. n - 1 \notin Bad /\ n \in Nat
  BY <1>6, <1>9
<1>11. SumOf(f, T) <= SumOf(f, t)
  BY <1>9, <1>10
<1> HIDE DEF Bad
<1>12. SumOf(f, s) = f[z] + SumOf(f, t)
  BY <1>1, <1>8, SumSplit
<1>13. f[z] \in Nat /\ SumOf(f, s) \in Int /\ SumOf(f, t) \in Int /\ SumOf(f, T) \in Int
  BY <1>2, <1>8, <1>9
<1> QED
  BY <1>7, <1>11, <1>12, <1>13

\* Values that are each within half of c of another, and so many times that
\* far their sums.
NearBy(c, a, b, n) == 2 * (c * a - b) <= c * n /\ 2 * (b - c * a) <= c * n
CloseOn(c, f, g, S) == \A x \in S : f[x] \in Int /\ g[x] \in Int /\ NearBy(c, f[x], g[x], 1)

LEMMA NearMore ==
    ASSUME NEW c \in Nat, NEW a \in Int, NEW b \in Int, NEW n \in Int, NearBy(c, a, b, n),
           NEW x \in Int, NEW y \in Int, NearBy(c, x, y, 1)
    PROVE  NearBy(c, x + a, y + b, n + 1)
<1>1. c * (x + a) = c * x + c * a /\ c * (n + 1) = c * n + c /\ c * 1 = c
  OBVIOUS
<1>2. c * x \in Int /\ c * a \in Int /\ c * n \in Int
  OBVIOUS
<1> PICK cx, ca, cn : cx = c * x /\ ca = c * a /\ cn = c * n
  OBVIOUS
<1>3. 2 * (ca - b) <= cn /\ 2 * (b - ca) <= cn /\ 2 * (cx - y) <= c /\ 2 * (y - cx) <= c
  BY <1>1 DEF NearBy
<1>4. /\ 2 * ((cx + ca) - (y + b)) <= cn + c
      /\ 2 * ((y + b) - (cx + ca)) <= cn + c
  BY <1>2, <1>3
<1> QED
  BY <1>1, <1>4 DEF NearBy

LEMMA SumNear ==
    ASSUME NEW c \in Nat, NEW f, NEW g, NEW S, IsFiniteSet(S), CloseOn(c, f, g, S)
    PROVE  NearBy(c, SumOf(f, S), SumOf(g, S), Cardinality(S))
<1> DEFINE Good(s) == NearBy(c, SumOf(f, s), SumOf(g, s), Cardinality(s))
           Bad == {n \in Nat : \E s \in SUBSET S : Cardinality(s) = n /\ ~Good(s)}
<1>1. \A s \in SUBSET S : /\ IsFiniteSet(s) /\ Cardinality(s) \in Nat
                          /\ IntsOn(f, s) /\ IntsOn(g, s)
  BY FS_Subset, FS_CardinalityType DEF CloseOn, IntsOn
<1>2. Good({})
  <2>1. SumOf(f, {}) = 0 /\ SumOf(g, {}) = 0 /\ Cardinality({}) = 0
    BY SumEmpty, FS_EmptySet
  <2>2. NearBy(c, 0, 0, 0)
    BY DEF NearBy
  <2> QED
    BY <2>1, <2>2, Zenon
<1> HIDE DEF Good
<1>3. SUFFICES ASSUME ~Good(S) PROVE FALSE
  BY DEF Good
<1>4. Bad \in SUBSET Nat /\ Cardinality(S) \in Bad
  BY <1>1, <1>3
<1>5. PICK n \in Bad : \A m \in Bad : n <= m
  BY <1>4, LeastNumber
<1>6. PICK s \in SUBSET S : Cardinality(s) = n /\ ~Good(s)
  BY <1>5
<1>7. PICK z \in s : TRUE
  BY <1>2, <1>6
<1> PICK t : t = s \ {z}
  OBVIOUS
<1>8. t \in SUBSET S /\ n \in Nat /\ Cardinality(t) = n - 1 /\ n - 1 \in Nat
  <2>1. Cardinality(t) = Cardinality(s) - 1
    BY <1>1, <1>7, FS_RemoveElement
  <2> QED
    BY <1>1, <1>6, <1>7, <2>1
<1>9. n - 1 \notin Bad
  BY <1>5, <1>8
<1>10. Good(t)
  BY <1>8, <1>9
<1> HIDE DEF Bad
<1>11. /\ SumOf(f, s) = f[z] + SumOf(f, t) /\ SumOf(f, t) \in Int
       /\ SumOf(g, s) = g[z] + SumOf(g, t) /\ SumOf(g, t) \in Int
  BY <1>1, <1>7, SumApart
<1>12. f[z] \in Int /\ g[z] \in Int /\ NearBy(c, f[z], g[z], 1)
  BY <1>7 DEF CloseOn
<1>13. NearBy(c, f[z] + SumOf(f, t), g[z] + SumOf(g, t), (n - 1) + 1)
  <2>1. NearBy(c, SumOf(f, t), SumOf(g, t), n - 1) /\ n - 1 \in Int
    BY <1>8, <1>10 DEF Good
  <2> QED
    BY <1>11, <1>12, <2>1, NearMore, Zenon
<1>14. (n - 1) + 1 = n
  BY <1>8
<1> QED
  BY <1>6, <1>11, <1>13, <1>14, Zenon DEF Good

\* Two sets with nothing in common.
LEMMA SumUnion ==
    ASSUME NEW f, NEW A, IsFiniteSet(A), NEW B, IsFiniteSet(B), A \cap B = {},
           \A x \in A \cup B : f[x] \in Int
    PROVE  /\ IsFiniteSet(A \cup B)
           /\ SumOf(f, A \cup B) = SumOf(f, A) + SumOf(f, B)
           /\ SumOf(f, A) \in Int /\ SumOf(f, B) \in Int
<1> DEFINE k == [s \in SUBSET B |-> SumOf(f, A \cup s) - SumOf(f, A)]
<1>1. /\ IsFiniteSet(A \cup B)
      /\ SumOf(f, A) \in Int /\ SumOf(f, B) \in Int /\ SumOf(f, A \cup B) \in Int
  <2>1. IsFiniteSet(A \cup B)
    BY FS_Union
  <2> QED
    BY <2>1, SumIs
<1>2. \A s \in SUBSET B : k[s] = SumOf(f, A \cup s) - SumOf(f, A)
  OBVIOUS
<1> HIDE DEF k
<1>3. k[{}] = 0
  <2>1. {} \in SUBSET B /\ A \cup {} = A
    OBVIOUS
  <2>2. k[{}] = SumOf(f, A) - SumOf(f, A)
    BY <1>2, <2>1
  <2> QED
    BY <1>1, <2>2
<1>4. ASSUME NEW s \in SUBSET B, NEW x \in s
      PROVE  k[s] = f[x] + k[s \ {x}]
  <2>1. PICK t, u, v : t = A \cup s /\ u = A \cup v /\ v = s \ {x}
    OBVIOUS
  <2>2. IsFiniteSet(t) /\ x \in t /\ t \ {x} = u /\ (\A y \in t : f[y] \in Int) /\ f[x] \in Int
    <3>1. t \subseteq A \cup B
      BY <2>1
    <3>2. IsFiniteSet(t)
      BY <1>1, <3>1, FS_Subset
    <3> QED
      BY <2>1, <3>2
  <2>3. SumOf(f, t) = f[x] + SumOf(f, u) /\ SumOf(f, u) \in Int
    <3>1. IsFiniteSet(t) /\ x \in t /\ u = t \ {x} /\ IntsOn(f, t)
      BY <2>2 DEF IntsOn
    <3> QED
      BY <3>1, SumApart
  <2>4. v \in SUBSET B /\ k[s] = SumOf(f, t) - SumOf(f, A) /\ k[v] = SumOf(f, u) - SumOf(f, A)
    BY <1>2, <2>1
  <2>5. k[s] = f[x] + k[v]
    <3> PICK a, b, c, y : a = SumOf(f, A) /\ b = SumOf(f, t) /\ c = SumOf(f, u) /\ y = f[x]
      OBVIOUS
    <3>1. a \in Int /\ c \in Int /\ y \in Int /\ b = y + c
      BY <1>1, <2>2, <2>3
    <3>2. b - a = y + (c - a)
      BY <3>1
    <3> QED
      BY <2>4, <3>2
  <2> QED
    BY <2>5, <2>1
<1>5. AddsUp(k, f, B)
  BY <1>3, <1>4 DEF AddsUp
<1>6. k[B] = SumOf(f, B)
  BY <1>5, SumIs
<1>7. k[B] = SumOf(f, A \cup B) - SumOf(f, A)
  BY <1>2
<1> QED
  BY <1>1, <1>6, <1>7

\* The elements whose key is among some keys.
Keyed(key, S, ks) == {x \in S : key[x] \in ks}
GroupSums(F, f, key, S, D) == \A d \in D : F[d] = SumOf(f, Keyed(key, S, {d}))

\* What the groups add up to, all of them together do.
LEMMA SumGrouped ==
    ASSUME NEW f, NEW S, IsFiniteSet(S), \A x \in S : f[x] \in Int,
           NEW key, NEW D, IsFiniteSet(D),
           NEW F, GroupSums(F, f, key, S, D)
    PROVE  SumOf(F, D) = SumOf(f, Keyed(key, S, D)) /\ \A d \in D : F[d] \in Int
<1> DEFINE Upto(s) == {x \in S : key[x] \in s}
           k == [s \in SUBSET D |-> SumOf(f, Upto(s))]
<1>1. \A s : IsFiniteSet(Upto(s)) /\ Upto(s) \subseteq S
  BY FS_Subset
<1>2. \A s \in SUBSET D : k[s] = SumOf(f, Upto(s))
  OBVIOUS
<1> HIDE DEF k
<1>3. k[{}] = 0
  <2>1. Upto({}) = {} /\ {} \in SUBSET D
    OBVIOUS
  <2> HIDE DEF Upto
  <2> QED
    BY <1>2, <2>1, SumEmpty
<1>4. ASSUME NEW s \in SUBSET D, NEW d \in s
      PROVE  k[s] = F[d] + k[s \ {d}]
  <2> PICK A, B, v : A = {x \in S : key[x] = d} /\ B = Upto(v) /\ v = s \ {d}
    OBVIOUS
  <2>1. A \cap B = {} /\ A \cup B = Upto(s) /\ A \subseteq S
    OBVIOUS
  <2>2. IsFiniteSet(A) /\ IsFiniteSet(B) /\ B \subseteq S
    BY <1>1, <2>1, FS_Subset
  <2> HIDE DEF Upto
  <2>3. \A x \in A \cup B : f[x] \in Int
    BY <2>1, <2>2
  <2>4. SumOf(f, A \cup B) = SumOf(f, A) + SumOf(f, B)
    BY <2>1, <2>2, <2>3, SumUnion
  <2>5. A = Keyed(key, S, {d})
    BY DEF Keyed
  <2>6. F[d] = SumOf(f, A) /\ k[v] = SumOf(f, B) /\ k[s] = SumOf(f, A \cup B)
    BY <1>2, <2>1, <2>5 DEF GroupSums
  <2> QED
    BY <2>4, <2>6
<1>5. AddsUp(k, F, D)
  BY <1>3, <1>4 DEF AddsUp
<1>6. \A d \in D : F[d] \in Int
  <2>1. ASSUME NEW d \in D PROVE F[d] \in Int
    <3> PICK A : A = Keyed(key, S, {d})
      OBVIOUS
    <3>1. IsFiniteSet(A) /\ \A x \in A : f[x] \in Int
      BY FS_Subset DEF Keyed
    <3>2. SumOf(f, A) \in Int
      BY <3>1, SumIs
    <3>3. F[d] = SumOf(f, A)
      BY DEF GroupSums
    <3> QED
      BY <3>2, <3>3
  <2> QED
    BY <2>1
<1>7. k[D] = SumOf(F, D)
  BY <1>5, <1>6, SumIs
<1>8. Upto(D) = Keyed(key, S, D)
  BY DEF Keyed
<1> HIDE DEF Upto
<1>9. k[D] = SumOf(f, Upto(D))
  BY <1>2
<1> QED
  BY <1>6, <1>7, <1>8, <1>9, Zenon

-----------------------------------------------------------------------------
\* The library's sums are these: a sum that takes whichever element CHOOSE
\* gives next.
Unfolds(g, f, S) ==
    g = [s \in SUBSET S |->
            IF s = {} THEN 0
            ELSE f[CHOOSE x \in s : TRUE] + g[s \ {CHOOSE x \in s : TRUE}]]

LEMMA SumUnfolds ==
    ASSUME NEW f, NEW S, IsFiniteSet(S), \A x \in S : f[x] \in Int
    PROVE  /\ \E g : Unfolds(g, f, S)
           /\ \A g : Unfolds(g, f, S) => g[S] = SumOf(f, S)
<1>1. PICK h : IsSum(h, f, S)
  BY SumExists
<1>2. Unfolds(h, f, S)
  <2> DEFINE r == [s \in SUBSET S |->
                      IF s = {} THEN 0
                      ELSE f[CHOOSE x \in s : TRUE] + h[s \ {CHOOSE x \in s : TRUE}]]
  <2>1. ASSUME NEW s \in SUBSET S, s # {}
        PROVE  h[s] = r[s]
    <3> PICK x : x = (CHOOSE y \in s : TRUE)
      OBVIOUS
    <3>1. x \in s
      BY <2>1
    <3>2. r[s] = f[x] + h[s \ {x}]
      BY <2>1
    <3> HIDE DEF r
    <3> QED
      BY <1>1, <3>1, <3>2 DEF IsSum
  <2>2. h[{}] = r[{}]
    BY <1>1 DEF IsSum
  <2>3. h = [s \in SUBSET S |-> h[s]] /\ r = [s \in SUBSET S |-> r[s]]
    BY <1>1 DEF IsSum
  <2>4. \A s \in SUBSET S : h[s] = r[s]
    BY <2>1, <2>2
  <2> HIDE DEF r
  <2>5. h = r
    BY <2>3, <2>4
  <2> QED
    BY <2>5 DEF r, Unfolds
<1>3. ASSUME NEW g, Unfolds(g, f, S)
      PROVE  g[S] = SumOf(f, S)
  <2>1. g[{}] = 0
    BY <1>3 DEF Unfolds
  <2>2. ASSUME NEW s \in SUBSET S, s # {}
        PROVE  \E x \in s : g[s] = f[x] + g[s \ {x}]
    <3> DEFINE x == CHOOSE x \in s : TRUE
    <3>1. x \in s
      BY <2>2
    <3>2. g[s] = f[x] + g[s \ {x}]
      BY <1>3, <2>2 DEF Unfolds
    <3> QED
      BY <3>1, <3>2
  <2>3. AddsUp(g, f, S)
    BY <2>1, <2>2 DEF AddsUp
  <2> QED
    BY <2>3, SumIs
<1> QED
  BY <1>2, <1>3

LEMMA SumFunctionIs ==
    ASSUME NEW f, IsFiniteSet(DOMAIN f), \A x \in DOMAIN f : f[x] \in Int
    PROVE  SumFunction(f) = SumOf(f, DOMAIN f)
<1> PICK S : S = DOMAIN f
  OBVIOUS
<1> DEFINE sum == CHOOSE g : Unfolds(g, f, S)
<1>1. SumFunction(f) = sum[S]
  BY DEF SumFunction, SumFunctionOnSet, FoldFunctionOnSet, MapThenFoldSet, Unfolds
<1>2. Unfolds(sum, f, S)
  BY SumUnfolds, Zenon
<1> HIDE DEF sum
<1> QED
  BY <1>1, <1>2, SumUnfolds

\* A finite set of naturals that is not empty has a greatest element.
LEMMA GreatestIs ==
    ASSUME NEW n \in Nat, NEW T \in SUBSET (1..n), T # {}
    PROVE  Max(T) \in T /\ \A x \in T : Max(T) >= x
<1> DEFINE Above == {k \in Nat : \A x \in T : x <= k}
<1>1. n \in Above /\ Above \in SUBSET Nat
  OBVIOUS
<1>2. PICK k \in Above : \A j \in Above : k <= j
  BY <1>1, LeastNumber
<1>3. k \in T
  <2> SUFFICES ASSUME k \notin T PROVE FALSE
    OBVIOUS
  <2>1. PICK x \in T : TRUE
    OBVIOUS
  <2>2. x >= 1 /\ x <= k /\ k \in Nat
    BY <1>2, <2>1
  <2>3. k - 1 \in Above
    BY <1>2, <2>2
  <2> QED
    BY <1>2, <2>2, <2>3
<1>4. \A x \in T : k >= x
  BY <1>2
<1> QED
  BY <1>3, <1>4 DEF Max

\* A fold takes the places of a sequence one after the other: whatever the step,
\* there is a function that says what each set of places gives.
Folds(g, step, base, n) ==
    \A s \in SUBSET (1..n) :
       g[s] = IF s = {} THEN base ELSE step[<<g[s \ {Max(s)}], Max(s)>>]

LEMMA FoldExists ==
    ASSUME NEW A, NEW base \in A, NEW n \in Nat, NEW step,
           \A a \in A, i \in 1..n : step[<<a, i>>] \in A
    PROVE  \E g \in [SUBSET (1..n) -> A] : Folds(g, step, base, n)
<1> DEFINE Made(k) == \E g \in [SUBSET (1..k) -> A] : Folds(g, step, base, k)
           Bad == {k \in Nat : k <= n /\ ~Made(k)}
<1>1. SUFFICES ASSUME ~Made(n) PROVE FALSE
  OBVIOUS
<1> HIDE DEF Made
<1>2. n \in Bad /\ Bad \in SUBSET Nat
  BY <1>1
<1>3. PICK k \in Bad : \A m \in Bad : k <= m
  BY <1>2, LeastNumber
<1>4. k \in Nat /\ k <= n /\ ~Made(k)
  BY <1>3
<1>5. CASE k = 0
  <2> DEFINE g == [s \in SUBSET (1..k) |-> base]
  <2>1. \A s \in SUBSET (1..k) : s = {}
    BY <1>5
  <2>2. g \in [SUBSET (1..k) -> A] /\ Folds(g, step, base, k)
    BY <2>1 DEF Folds
  <2> QED
    BY <1>4, <2>2 DEF Made
<1>6. CASE k # 0
  <2> PICK j : j = k - 1
    OBVIOUS
  <2>1. j \in Nat /\ j <= n /\ k = j + 1 /\ k \in 1..n
    BY <1>4, <1>6
  <2>2. j \notin Bad
    BY <1>3, <1>4, <2>1
  <2>3. Made(j)
    BY <2>1, <2>2
  <2> PICK h \in [SUBSET (1..j) -> A] : Folds(h, step, base, j)
    BY <2>3 DEF Made
  <2> DEFINE g == [s \in SUBSET (1..k) |-> IF k \in s THEN step[<<h[s \ {k}], k>>] ELSE h[s]]
  <2>4. \A s \in SUBSET (1..k) : s \ {k} \in SUBSET (1..j) /\ (k \notin s => s \in SUBSET (1..j))
    BY <2>1
  <2>5. g \in [SUBSET (1..k) -> A]
    <3>1. \A s \in SUBSET (1..k) : h[s \ {k}] \in A /\ (k \notin s => h[s] \in A)
      BY <2>4
    <3> QED
      BY <2>1, <3>1
  <2>6. \A s \in SUBSET (1..k) : /\ k \in s => g[s] = step[<<h[s \ {k}], k>>]
                                 /\ k \notin s => g[s] = h[s]
    OBVIOUS
  <2> HIDE DEF g
  <2>7. ASSUME NEW s \in SUBSET (1..k)
        PROVE  g[s] = IF s = {} THEN base ELSE step[<<g[s \ {Max(s)}], Max(s)>>]
    <3>1. CASE k \in s
      <4>1. Max(s) = k
        <5>1. Max(s) \in s /\ \A x \in s : Max(s) >= x
          BY <1>4, <3>1, GreatestIs
        <5>2. Max(s) \in 1..k /\ Max(s) >= k
          BY <3>1, <5>1
        <5> QED
          BY <1>4, <5>2
      <4>2. s \ {k} \in SUBSET (1..k) /\ g[s \ {k}] = h[s \ {k}]
        BY <2>6
      <4> QED
        BY <2>6, <3>1, <4>1, <4>2
    <3>2. CASE k \notin s
      <4>1. s \in SUBSET (1..j) /\ g[s] = h[s]
        BY <2>4, <2>6, <3>2
      <4>2. h[s] = IF s = {} THEN base ELSE step[<<h[s \ {Max(s)}], Max(s)>>]
        BY <4>1 DEF Folds
      <4>3. g[s \ {Max(s)}] = h[s \ {Max(s)}]
        BY <2>6, <3>2
      <4> QED
        BY <4>1, <4>2, <4>3
    <3> QED
      BY <3>1, <3>2
  <2>8. Folds(g, step, base, k)
    BY <2>7 DEF Folds
  <2> QED
    BY <1>4, <2>5, <2>8 DEF Made
<1> QED
  BY <1>5, <1>6

\* The last place of the first k is k, and before it are the first k - 1.
LEMMA FirstPlaces ==
    ASSUME NEW k \in Nat, k # 0
    PROVE  Max(1..k) = k /\ (1..k) \ {k} = 1..(k - 1) /\ 1..k # {}
<1>1. 1..k # {} /\ k \in 1..k
  OBVIOUS
<1>2. Max(1..k) \in 1..k /\ \A x \in 1..k : Max(1..k) >= x
  BY <1>1, GreatestIs
<1>3. Max(1..k) >= k
  BY <1>1, <1>2
<1> QED
  BY <1>1, <1>2, <1>3

\* A sum is a fold.
AddsByMax(g, f, n) ==
    g = [s \in SUBSET (1..n) |-> IF s = {} THEN 0 ELSE g[s \ {Max(s)}] + f[Max(s)]]

LEMMA SumByMax ==
    ASSUME NEW n \in Nat, NEW f, \A x \in 1..n : f[x] \in Int
    PROVE  /\ \E g : AddsByMax(g, f, n)
           /\ \A g : AddsByMax(g, f, n) => g[1..n] = SumOf(f, 1..n)
<1> PICK S : S = 1..n
  OBVIOUS
<1>1. IsFiniteSet(S) /\ \A x \in S : f[x] \in Int
  BY FS_Interval
<1>2. \A s \in SUBSET S : s # {} => Max(s) \in s
  BY GreatestIs
<1>3. PICK h : IsSum(h, f, S)
  BY <1>1, SumExists
<1>4. AddsByMax(h, f, n)
  <2> DEFINE r == [s \in SUBSET S |-> IF s = {} THEN 0 ELSE h[s \ {Max(s)}] + f[Max(s)]]
  <2>1. ASSUME NEW s \in SUBSET S, s # {}
        PROVE  h[s] = r[s]
    <3> PICK x : x = Max(s)
      OBVIOUS
    <3>1. x \in s /\ x \in S
      BY <1>2, <2>1
    <3>2. r[s] = h[s \ {x}] + f[x]
      BY <2>1
    <3> HIDE DEF r
    <3>3. h[s] = f[x] + h[s \ {x}] /\ h[s \ {x}] \in Int /\ f[x] \in Int
      BY <1>1, <1>3, <3>1 DEF IsSum
    <3> QED
      BY <3>2, <3>3
  <2>2. h[{}] = r[{}]
    BY <1>3 DEF IsSum
  <2>3. h = [s \in SUBSET S |-> h[s]] /\ r = [s \in SUBSET S |-> r[s]]
    BY <1>3 DEF IsSum
  <2>4. \A s \in SUBSET S : h[s] = r[s]
    BY <2>1, <2>2
  <2> HIDE DEF r
  <2>5. h = r
    BY <2>3, <2>4
  <2> QED
    BY <2>5 DEF r, AddsByMax
<1>5. ASSUME NEW g, AddsByMax(g, f, n)
      PROVE  g[S] = SumOf(f, S)
  <2>1. /\ g[{}] = 0
        /\ \A s \in SUBSET S : s # {} => g[s] = g[s \ {Max(s)}] + f[Max(s)]
    BY <1>5 DEF AddsByMax
  <2>2. \A s \in SUBSET S : g[s] \in Int
    <3> DEFINE Bad == {m \in Nat : \E s \in SUBSET S : Cardinality(s) = m /\ g[s] \notin Int}
    <3>1. SUFFICES ASSUME NEW r \in SUBSET S, g[r] \notin Int PROVE FALSE
      OBVIOUS
    <3>2. \A s \in SUBSET S : IsFiniteSet(s) /\ Cardinality(s) \in Nat
      BY <1>1, FS_Subset, FS_CardinalityType
    <3>3. Bad \in SUBSET Nat /\ Bad # {}
      BY <3>1, <3>2
    <3>4. PICK m \in Bad : \A l \in Bad : m <= l
      BY <3>3, LeastNumber
    <3>5. PICK s \in SUBSET S : Cardinality(s) = m /\ g[s] \notin Int
      OBVIOUS
    <3>6. s # {}
      <4>1. s = {} => g[s] = 0
        BY <2>1, Zenon
      <4> QED
        BY <3>5, <4>1
    <3> PICK x, rest : x = Max(s) /\ rest = s \ {x}
      OBVIOUS
    <3>7. x \in s /\ x \in S /\ rest \in SUBSET S
      BY <1>2, <3>6
    <3>8. g[s] = g[rest] + f[x]
      BY <2>1, <3>6
    <3>9. Cardinality(rest) = m - 1 /\ m \in Nat /\ Cardinality(rest) \in Nat
      BY <3>2, <3>5, <3>7, FS_RemoveElement
    <3>10. g[rest] \in Int
      <4>1. Cardinality(rest) \notin Bad
        <5> HIDE DEF Bad
        <5> QED
          BY <3>4, <3>9
      <4> QED
        BY <3>7, <3>9, <4>1
    <3> QED
      BY <1>1, <3>5, <3>7, <3>8, <3>10
  <2>3. ASSUME NEW s \in SUBSET S, s # {}
        PROVE  \E x \in s : g[s] = f[x] + g[s \ {x}]
    <3> PICK x, rest : x = Max(s) /\ rest = s \ {x}
      OBVIOUS
    <3>1. x \in s /\ x \in S /\ rest \in SUBSET S
      BY <1>2, <2>3
    <3>2. g[s] = g[rest] + f[x] /\ g[rest] \in Int /\ f[x] \in Int
      BY <1>1, <2>1, <2>2, <2>3, <3>1
    <3>3. g[s] = f[x] + g[rest]
      BY <3>2
    <3> QED
      BY <3>1, <3>3
  <2>4. AddsUp(g, f, S)
    BY <2>1, <2>3 DEF AddsUp
  <2> QED
    BY <1>1, <2>4, SumIs
<1> QED
  BY <1>4, <1>5

\* The same numbers at the first places.
SameFirst(f, g, n) == \A i \in 1..n : f[i] \in Int /\ f[i] = g[i]

LEMMA SumSameFirst ==
    ASSUME NEW f, NEW g, NEW n \in Nat, SameFirst(f, g, n)
    PROVE  SumOf(f, 1..n) = SumOf(g, 1..n)
<1>1. PICK S : S = 1..n
  OBVIOUS
<1>2. IsFiniteSet(S)
  <2>1. IsFiniteSet(1..n)
    BY FS_Interval
  <2> QED
    BY <1>1, <2>1, Zenon
<1>3. \A i \in S : f[i] \in Int /\ f[i] = g[i]
  BY <1>1, Zenon DEF SameFirst
<1>4. SumOf(f, S) = SumOf(g, S)
  BY <1>2, <1>3, SumSame
<1> QED
  BY <1>1, <1>4, Zenon

\* A number more.
LEMMA SumNext ==
    ASSUME NEW f, NEW k \in Nat, k # 0, \A x \in 1..k : f[x] \in Int
    PROVE  SumOf(f, 1..k) = SumOf(f, 1..(k - 1)) + f[k]
<1>1. PICK S : S = 1..k
  OBVIOUS
<1>2. PICK T : T = S \ {k}
  OBVIOUS
<1>3. IsFiniteSet(S) /\ k \in S /\ \A x \in S : f[x] \in Int
  <2>1. IsFiniteSet(1..k)
    BY FS_Interval
  <2>2. k \in 1..k
    OBVIOUS
  <2> QED
    BY <1>1, <2>1, <2>2, Zenon
<1>4. SumOf(f, S) = f[k] + SumOf(f, T) /\ SumOf(f, T) \in Int
  <2>1. ASSUME NEW z \in S, T = S \ {z}
        PROVE  SumOf(f, S) = f[z] + SumOf(f, T) /\ SumOf(f, T) \in Int
    <3>1. IsFiniteSet(S) /\ \A x \in S : f[x] \in Int
      BY <1>3
    <3>2. SumOf(f, S) = f[z] + SumOf(f, S \ {z}) /\ SumOf(f, S \ {z}) \in Int
      BY <3>1, SumSplit, Zenon
    <3> QED
      BY <2>1, <3>2, Zenon
  <2> QED
    BY <1>2, <1>3, <2>1, Zenon
<1>5. T = 1..(k - 1)
  BY <1>1, <1>2
<1>6. SumOf(f, S) = SumOf(f, T) + f[k]
  BY <1>3, <1>4
<1> QED
  BY <1>1, <1>5, <1>6, Zenon

\* What a sequence adds up to.
LEMMA TotalIs ==
    ASSUME NEW q \in Seq(Int)
    PROVE  FoldLeft(+, 0, q) = SumOf(q, 1..Len(q))
<1> PICK n \in Nat : n = Len(q) /\ DOMAIN q = 1..n
  OBVIOUS
<1> DEFINE Eq(g) == g = [s \in SUBSET (1..n) |->
                            IF s = {} THEN 0 ELSE g[s \ {Max(s)}] + q[Max(s)]]
           sum == CHOOSE g : Eq(g)
<1>1. FoldLeft(+, 0, q) = sum[1..n]
  BY DEF FoldLeft, MapThenFoldSet
<1>2. \A x \in 1..n : q[x] \in Int
  OBVIOUS
<1>3. \A g : AddsByMax(g, q, n) <=> Eq(g)
  BY DEF AddsByMax
<1> HIDE DEF Eq
<1>4. AddsByMax(sum, q, n)
  BY <1>2, <1>3, SumByMax, Zenon
<1> HIDE DEF sum
<1>5. sum[1..n] = SumOf(q, 1..n)
  BY <1>2, <1>4, SumByMax
<1>6. SumOf(q, 1..n) = SumOf(q, 1..Len(q))
  OBVIOUS
<1> QED
  BY <1>1, <1>5, <1>6, Zenon

\* A fold g over the first n places, one after the other, and what it gives
\* after each of them.
StepsIn(step, A, n) == \A a \in A : \A i \in 1..n : step[<<a, i>>] \in A
Walks(g, base, step, A, n) ==
    /\ g[{}] = base
    /\ \A k \in 1..n : g[1..(k - 1)] \in A => g[1..k] = step[<<g[1..(k - 1)], k>>]
IsWalk(d, g, base, step, A, n) ==
    /\ d \in [0..n -> A]
    /\ d[0] = base /\ d[n] = g[1..n]
    /\ \A k \in 1..n : d[k] = step[<<d[k - 1], k>>]

LEMMA WalkPlaces ==
    ASSUME NEW A, NEW base \in A, NEW n \in Nat, NEW step, StepsIn(step, A, n),
           NEW g, Walks(g, base, step, A, n)
    PROVE  \E d : IsWalk(d, g, base, step, A, n)
<1> DEFINE d == [k \in 0..n |-> g[1..k]]
<1>1. \A k \in 0..n : d[k] = g[1..k]
  OBVIOUS
<1>2. DOMAIN d = 0..n /\ d = [k \in 0..n |-> d[k]] /\ d[n] = g[1..n]
  OBVIOUS
<1>3. d[0] = base
  <2>1. 1..0 = {}
    OBVIOUS
  <2>2. d[0] = g[1..0]
    OBVIOUS
  <2> QED
    BY <2>1, <2>2, Zenon DEF Walks
<1> HIDE DEF d
<1>4. ASSUME NEW k \in 1..n, d[k - 1] \in A
      PROVE  d[k] = step[<<d[k - 1], k>>] /\ d[k] \in A
  <2>1. k \in 0..n /\ k - 1 \in 0..n
    OBVIOUS
  <2>2. d[k] = g[1..k] /\ d[k - 1] = g[1..(k - 1)]
    BY <1>1, <2>1
  <2>3. g[1..(k - 1)] \in A => g[1..k] = step[<<g[1..(k - 1)], k>>]
    BY DEF Walks
  <2>4. d[k] = step[<<d[k - 1], k>>]
    BY <1>4, <2>2, <2>3, Zenon
  <2>5. k \in 1..n /\ step[<<d[k - 1], k>>] \in A
    BY <1>4 DEF StepsIn
  <2> QED
    BY <2>4, <2>5
<1>5. \A k \in 0..n : d[k] \in A
  <2> DEFINE Bad == {k \in Nat : k <= n /\ d[k] \notin A}
  <2>1. SUFFICES ASSUME NEW k \in 0..n, d[k] \notin A PROVE FALSE
    OBVIOUS
  <2>2. k \in Bad /\ Bad \in SUBSET Nat
    BY <2>1
  <2>3. PICK m \in Bad : \A l \in Bad : m <= l
    BY <2>2, LeastNumber
  <2>4. m \in Nat /\ m <= n /\ d[m] \notin A
    OBVIOUS
  <2>5. m # 0
    BY <1>3, <2>4
  <2>6. m - 1 \notin Bad
    <3> HIDE DEF Bad
    <3> QED
      BY <2>3, <2>4
  <2>7. d[m - 1] \in A /\ m \in 1..n
    BY <2>4, <2>5, <2>6
  <2> QED
    BY <1>4, <2>4, <2>7
<1>6. \A k \in 1..n : d[k] = step[<<d[k - 1], k>>]
  <2> TAKE k \in 1..n
  <2>1. d[k - 1] \in A
    BY <1>5
  <2> QED
    BY <1>4, <2>1
<1>7. d \in [0..n -> A]
  BY <1>2, <1>5
<1> QED
  BY <1>2, <1>3, <1>6, <1>7 DEF IsWalk

\* The greater of two numbers.
LEMMA MaxOfTwo ==
    ASSUME NEW a \in Int, NEW b \in Int
    PROVE  Max({a, b}) = IF a >= b THEN a ELSE b
<1> PICK S : S = {a, b}
  OBVIOUS
<1> PICK m : m = IF a >= b THEN a ELSE b
  OBVIOUS
<1>1. m \in S /\ \A x \in S : m >= x
  OBVIOUS
<1>2. Max(S) \in S /\ \A x \in S : Max(S) >= x
  BY <1>1 DEF Max
<1>3. S \subseteq Int
  OBVIOUS
<1>4. Max(S) >= m /\ m >= Max(S) /\ Max(S) \in Int /\ m \in Int
  BY <1>1, <1>2, <1>3
<1> QED
  BY <1>4
==============================================================================
