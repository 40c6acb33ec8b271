--------------------------- MODULE SequenceLemmas ---------------------------
(***************************************************************************)
(* Facts about sequences that several proofs share: how a set of new rows  *)
(* of an outbox table is numbered, how SELECT ... ORDER BY ... LIMIT puts  *)
(* the rows of a set in their places, and what a row more, or a row that   *)
(* changes, does to a sum.  No theorem of the library does induction over  *)
(* the naturals without an operator parameter, so the facts about sums     *)
(* take the least counterexample instead.                                  *)
(***************************************************************************)
EXTENDS Integers, Sequences, FiniteSets, SequencesExt, Sums, FunctionTheorems, FiniteSetTheorems,
        SequenceTheorems, NaturalsInduction, WellFoundedInduction, TLAPS

\* SetToSeq numbers the elements of a finite set, each of them once.
LEMMA SetToSeqEnumerates ==
  ASSUME NEW S, IsFiniteSet(S)
  PROVE  /\ Cardinality(S) \in Nat
         /\ SetToSeq(S) \in Seq(S)
         /\ Len(SetToSeq(S)) = Cardinality(S)
         /\ \A i, j \in 1..Cardinality(S) : SetToSeq(S)[i] = SetToSeq(S)[j] => i = j
         /\ \A x \in S : \E i \in 1..Cardinality(S) : SetToSeq(S)[i] = x
<1> DEFINE D == 1..Cardinality(S)
<1>1. Cardinality(S) \in Nat /\ ExistsBijection(D, S)
  BY FS_CardinalityType
<1>2. PICK g : g \in Bijection(D, S)
  BY <1>1 DEF ExistsBijection
<1>3. g \in [D -> S] /\ IsInjective(g)
  BY <1>2 DEF Bijection, Injection
<1>4. SetToSeq(S) \in [D -> S] /\ IsInjective(SetToSeq(S))
  BY <1>3 DEF SetToSeq
<1>5. SetToSeq(S) \in Seq(S) /\ Len(SetToSeq(S)) = Cardinality(S)
  BY <1>1, <1>4
<1>6. \A i, j \in D : SetToSeq(S)[i] = SetToSeq(S)[j] => i = j
  BY <1>4 DEF IsInjective
<1>7. SetToSeq(S) \in Injection(D, S)
  BY <1>4 DEF Injection
<1>8. IsFiniteSet(D) /\ Cardinality(D) = Cardinality(S)
  BY <1>1, FS_Interval
<1>9. SetToSeq(S) \in Surjection(D, S)
  BY <1>7, <1>8, FS_Injection
<1>10. \A x \in S : \E i \in D : SetToSeq(S)[i] = x
  BY <1>9 DEF Surjection
<1>11. QED
  BY <1>1, <1>5, <1>6, <1>10

\* Where the elements of a finite set are in a strict order, and below[x] holds x and what
\* comes before it, counting below[x] gives each element a place of its own, from 1 on.
LEMMA PlacesAreOneToOne ==
  ASSUME NEW S, IsFiniteSet(S),
         NEW below \in [S -> SUBSET S],
         \A x \in S : x \in below[x],
         \A x, y \in S : y \in below[x] => below[y] \subseteq below[x],
         \A x, y \in S : x # y => (x \in below[y] <=> y \notin below[x])
  PROVE  /\ Cardinality(S) \in Nat
         /\ \A x \in S : Cardinality(below[x]) \in 1..Cardinality(S)
         /\ \A x, y \in S : Cardinality(below[x]) = Cardinality(below[y]) => x = y
         /\ \A i \in 1..Cardinality(S) : \E x \in S : Cardinality(below[x]) = i
<1> DEFINE D == 1..Cardinality(S)
           place == [x \in S |-> Cardinality(below[x])]
<1>1. Cardinality(S) \in Nat
  BY FS_CardinalityType
<1>2. ASSUME NEW x \in S
      PROVE  /\ IsFiniteSet(below[x])
             /\ Cardinality(below[x]) \in D
  <2>1. IsFiniteSet(below[x]) /\ Cardinality(below[x]) <= Cardinality(S)
    BY FS_Subset
  <2>2. Cardinality(below[x]) \in Nat
    BY <2>1, FS_CardinalityType
  <2>3. Cardinality(below[x]) # 0
    BY <2>1, FS_EmptySet
  <2>4. QED
    BY <1>1, <2>1, <2>2, <2>3
<1>3. ASSUME NEW x \in S, NEW y \in S, y \in below[x], x # y
      PROVE  Cardinality(below[x]) # Cardinality(below[y])
  <2>1. below[y] \in SUBSET below[x] /\ x \notin below[y] /\ x \in below[x]
    BY <1>3
  <2>2. QED
    BY <1>2, <2>1, FS_Subset
<1>4. \A x, y \in S : Cardinality(below[x]) = Cardinality(below[y]) => x = y
  BY <1>3
<1>5. place \in Injection(S, D)
  BY <1>2, <1>4 DEF Injection, IsInjective
<1>6. IsFiniteSet(D) /\ Cardinality(D) = Cardinality(S)
  BY <1>1, FS_Interval
<1>7. place \in Surjection(S, D)
  BY <1>5, <1>6, FS_Injection
<1>8. \A i \in D : \E x \in S : Cardinality(below[x]) = i
  BY <1>7 DEF Surjection
<1>9. QED
  BY <1>1, <1>2, <1>4, <1>8

\* What is left of a sequence that has more than its head.
LEMMA TailShifts ==
  ASSUME NEW S, NEW s \in Seq(S), s # <<>>, Len(s) # 1
  PROVE  /\ Tail(s) \in Seq(S) /\ Tail(s) # <<>>
         /\ DOMAIN Tail(s) = 1..(Len(s) - 1)
         /\ \A i \in DOMAIN Tail(s) : i + 1 \in DOMAIN s /\ Tail(s)[i] = s[i + 1]
<1>1. Len(s) \in Nat /\ DOMAIN s = 1..Len(s) /\ Len(s) # 0
  BY EmptySeq
<1>2. /\ Tail(s) \in Seq(S) /\ Len(Tail(s)) = Len(s) - 1
      /\ \A i \in 1..Len(Tail(s)) : Tail(s)[i] = s[i + 1]
  BY HeadTailProperties
<1>3. DOMAIN Tail(s) = 1..Len(Tail(s))
  BY <1>2
<1>4. Tail(s) # <<>>
  <2>1. Len(Tail(s)) # 0
    BY <1>1, <1>2
  <2>2. QED
    BY <2>1, EmptySeq
<1>5. QED
  BY <1>1, <1>2, <1>3, <1>4

\* The smaller of two lengths.
LEMMA MinOfTwo ==
  ASSUME NEW a \in Nat, NEW b \in Nat
  PROVE  Min({a, b}) \in Nat /\ Min({a, b}) <= a /\ Min({a, b}) <= b /\ Min({a, b}) \in {a, b}
<1>1. \E x \in {a, b} : \A y \in {a, b} : x <= y
  OBVIOUS
<1>2. Min({a, b}) \in {a, b} /\ \A y \in {a, b} : Min({a, b}) <= y
  BY <1>1 DEF Min
<1>3. QED
  BY <1>2

LEMMA MaxOfTwo ==
  ASSUME NEW a \in Nat, NEW b \in Nat
  PROVE  Max({a, b}) \in {a, b} /\ Max({a, b}) >= a /\ Max({a, b}) >= b
<1>1. \E x \in {a, b} : \A y \in {a, b} : x >= y
  OBVIOUS
<1>2. Max({a, b}) \in {a, b} /\ \A y \in {a, b} : Max({a, b}) >= y
  BY <1>1 DEF Max
<1>3. QED
  BY <1>2

-----------------------------------------------------------------------------
\* A set of naturals that is not empty has a least element.
LEMMA LeastOf ==
  ASSUME NEW S \in SUBSET Nat, S # {}
  PROVE  \E x \in S : \A y \in S : x <= y
<1>1. IsWellFoundedOn(OpToRel(<, Nat), Nat)
  BY NatLessThanWellFounded
<1> DEFINE R == OpToRel(<, Nat)
<1>2. \A x, y \in Nat : x < y => <<x, y>> \in R
  BY DEF OpToRel
<1> HIDE DEF R
<1>3. PICK x \in S : \A y \in S : ~(<<y, x>> \in R)
  BY <1>1, WFMin DEF R
<1>4. \A y \in S : x <= y
  <2> SUFFICES ASSUME NEW y \in S PROVE x <= y
    OBVIOUS
  <2>1. x \in Nat /\ y \in Nat
    OBVIOUS
  <2>2. ~(y < x)
    BY <1>2, <1>3, <2>1
  <2>3. QED
    BY <2>1, <2>2
<1>5. QED
  BY <1>4

\* Induction up to a bound, over a set of numbers.
LEMMA BoundedInduction ==
  ASSUME NEW N \in Nat, NEW G \in SUBSET (0..N), 0 \in G, \A n \in 1..N : n - 1 \in G => n \in G
  PROVE  G = 0..N
<1> DEFINE Bad == (0..N) \ G
<1>1. SUFFICES ASSUME Bad # {} PROVE FALSE
  OBVIOUS
<1>2. Bad \in SUBSET Nat
  OBVIOUS
<1> HIDE DEF Bad
<1>3. PICK k \in Bad : \A m \in Bad : k <= m
  BY <1>1, <1>2, LeastOf
<1>4. k \in 1..N /\ k \notin G
  BY <1>3 DEF Bad
<1>5. k - 1 \in 0..N /\ ~(k <= k - 1)
  BY <1>4
<1>6. k - 1 \in G
  BY <1>3, <1>5 DEF Bad
<1>7. QED
  BY <1>4, <1>6

\* What SeqSum's recursive function is chosen to be.
IsSums(f, d) ==
  f = [n \in 0..Len(d) |-> IF n = 0 THEN 0 ELSE f[n - 1] + d[n]]

\* The sums of the first k elements exist.
Upto(d, k) ==
  \E f \in [0..k -> Int] : f[0] = 0 /\ \A n \in 1..k : f[n] = f[n - 1] + d[n]

\* Induction over the length of the prefix: were there a prefix without sums, there would be a
\* shortest one.
LEMMA SumsExist ==
  ASSUME NEW d \in Seq(Int)
  PROVE  \E f : IsSums(f, d)
<1> DEFINE Bad == {k \in 0..Len(d) : ~Upto(d, k)}
<1>0. Len(d) \in Nat /\ \A n \in 1..Len(d) : d[n] \in Int
  OBVIOUS
<1>1. Bad = {}
  <2>1. SUFFICES ASSUME Bad # {} PROVE FALSE
    OBVIOUS
  <2>2. Bad \in SUBSET Nat
    BY <1>0
  <2> HIDE DEF Bad
  <2>3. PICK k \in Bad : \A m \in Bad : k <= m
    BY <2>1, <2>2, LeastOf
  <2>4. k \in 0..Len(d) /\ ~Upto(d, k)
    BY <2>3 DEF Bad
  <2>5. Upto(d, 0)
    <3>1. [n \in 0..0 |-> 0] \in [0..0 -> Int]
      OBVIOUS
    <3>2. [n \in 0..0 |-> 0][0] = 0 /\ 1..0 = {}
      OBVIOUS
    <3>3. QED
      BY <3>1, <3>2 DEF Upto
  <2>6. k # 0 /\ k - 1 \in 0..Len(d) /\ k \in 1..Len(d) /\ k - 1 \in Nat
    BY <2>4, <2>5, <1>0
  <2>7. Upto(d, k - 1)
    BY <2>3, <2>6, <1>0 DEF Bad
  <2>8. PICK f \in [0..(k - 1) -> Int] : f[0] = 0 /\ \A n \in 1..(k - 1) : f[n] = f[n - 1] + d[n]
    BY <2>7 DEF Upto
  <2>9. PICK g : g = [n \in 0..k |-> IF n = k THEN f[k - 1] + d[k] ELSE f[n]]
    OBVIOUS
  <2>10. f[k - 1] \in Int /\ d[k] \in Int
    BY <2>6, <2>8, <1>0
  <2>11. g \in [0..k -> Int] /\ g[0] = 0
    BY <2>6, <2>8, <2>9, <2>10
  <2>12. ASSUME NEW n \in 1..k PROVE g[n] = g[n - 1] + d[n]
    BY <2>6, <2>8, <2>9, <2>12
  <2>13. QED
    BY <2>4, <2>11, <2>12 DEF Upto
<1>2. Upto(d, Len(d))
  BY <1>0, <1>1
<1>3. PICK f \in [0..Len(d) -> Int] : f[0] = 0 /\ \A n \in 1..Len(d) : f[n] = f[n - 1] + d[n]
  BY <1>2 DEF Upto
<1>4. f = [n \in 0..Len(d) |-> IF n = 0 THEN 0 ELSE f[n - 1] + d[n]]
  BY <1>3, <1>0
<1>5. QED
  BY <1>4 DEF IsSums

\* Each sum adds its element to the one before.
LEMMA SumsStep ==
  ASSUME NEW d \in Seq(Int)
  PROVE  /\ Sums(d)[0] = 0
         /\ \A n \in 1..Len(d) : Sums(d)[n] = Sums(d)[n - 1] + d[n]
         /\ Sums(d) \in [0..Len(d) -> Int]
<1>1. Sums(d) = CHOOSE f : IsSums(f, d)
  BY DEF Sums, IsSums
<1>2. IsSums(Sums(d), d)
  BY <1>1, SumsExist
<1>3. PICK f : f = Sums(d)
  OBVIOUS
<1>4. f = [n \in 0..Len(d) |-> IF n = 0 THEN 0 ELSE f[n - 1] + d[n]]
  BY <1>2, <1>3 DEF IsSums
<1>5. /\ f[0] = 0 /\ DOMAIN f = 0..Len(d)
      /\ \A n \in 1..Len(d) : f[n] = f[n - 1] + d[n]
  <2>1. Len(d) \in Nat /\ 0 \in 0..Len(d)
    OBVIOUS
  <2>2. f[0] = 0
    BY <1>4, <2>1
  <2>3. DOMAIN f = 0..Len(d)
    BY <1>4
  <2>4. ASSUME NEW n \in 1..Len(d) PROVE f[n] = f[n - 1] + d[n]
    <3>1. n \in 0..Len(d) /\ n # 0
      BY <2>1
    <3>2. QED
      BY <1>4, <3>1
  <2>5. QED
    BY <2>2, <2>3, <2>4
<1> DEFINE Bad == {n \in 0..Len(d) : f[n] \notin Int}
<1>6. Bad = {}
  <2>1. SUFFICES ASSUME Bad # {} PROVE FALSE
    OBVIOUS
  <2>2. Bad \in SUBSET Nat
    OBVIOUS
  <2> HIDE DEF Bad
  <2>3. PICK k \in Bad : \A m \in Bad : k <= m
    BY <2>1, <2>2, LeastOf
  <2>4. k \in 0..Len(d) /\ f[k] \notin Int
    BY <2>3 DEF Bad
  <2>5. k # 0 /\ k - 1 \in 0..Len(d) /\ k \in 1..Len(d)
    BY <2>4, <1>5
  <2>6. f[k - 1] \in Int
    BY <2>3, <2>5 DEF Bad
  <2>7. QED
    BY <1>5, <2>4, <2>5, <2>6
<1>7. f \in [0..Len(d) -> Int]
  BY <1>4, <1>5, <1>6
<1>8. QED
  BY <1>3, <1>5, <1>7

LEMMA AddedToBoth ==
  \A p, q, x, y, z \in Int : p + y = q + x => p + z + y = q + z + x
OBVIOUS

\* Where two sequences agree their sums grow alike.
LEMMA SumsRunParallel ==
  ASSUME NEW d \in Seq(Int), NEW e \in Seq(Int), NEW a \in Nat, NEW b \in Nat,
         a <= b, b <= Len(d), b <= Len(e),
         \A n \in Nat : a < n /\ n <= b => d[n] = e[n]
  PROVE  Sums(d)[b] + Sums(e)[a] = Sums(e)[b] + Sums(d)[a]
<1>1. PICK f : f = Sums(d)
  OBVIOUS
<1>2. PICK g : g = Sums(e)
  OBVIOUS
<1>3. /\ Len(d) \in Nat /\ Len(e) \in Nat
      /\ f \in [0..Len(d) -> Int] /\ \A n \in 1..Len(d) : f[n] = f[n - 1] + d[n]
      /\ g \in [0..Len(e) -> Int] /\ \A n \in 1..Len(e) : g[n] = g[n - 1] + e[n]
  BY <1>1, <1>2, SumsStep
<1> DEFINE Bad == {n \in a..b : f[n] + g[a] # g[n] + f[a]}
<1>4. Bad = {}
  <2>1. SUFFICES ASSUME Bad # {} PROVE FALSE
    OBVIOUS
  <2>2. Bad \in SUBSET Nat
    OBVIOUS
  <2> HIDE DEF Bad
  <2>3. PICK k \in Bad : \A m \in Bad : k <= m
    BY <2>1, <2>2, LeastOf
  <2>4. k \in a..b /\ f[k] + g[a] # g[k] + f[a]
    BY <2>3 DEF Bad
  <2>a. a \in 0..Len(d) /\ a \in 0..Len(e)
    BY <1>3
  <2>5. f[a] \in Int /\ g[a] \in Int
    BY <1>3, <2>a
  <2>6. k # a
    BY <2>4, <2>5
  <2>7. /\ k - 1 \in a..b /\ k \in Nat /\ a < k /\ k <= b /\ k \in 1..Len(d) /\ k \in 1..Len(e)
        /\ k - 1 \in 0..Len(d) /\ k - 1 \in 0..Len(e)
    BY <2>4, <2>6, <1>3
  <2>8. f[k - 1] + g[a] = g[k - 1] + f[a]
    <3>1. ~(k <= k - 1)
      BY <2>7
    <3>2. k - 1 \notin Bad
      BY <2>3, <3>1
    <3>3. QED
      BY <2>7, <3>2 DEF Bad
  <2>9. f[k] = f[k - 1] + d[k] /\ g[k] = g[k - 1] + e[k] /\ d[k] = e[k] /\ d[k] \in Int
    BY <1>3, <2>7
  <2>10. f[k - 1] \in Int /\ g[k - 1] \in Int
    BY <1>3, <2>7
  <2>11. PICK p \in Int, q \in Int, x \in Int, y \in Int, z \in Int :
           p = f[k - 1] /\ q = g[k - 1] /\ x = f[a] /\ y = g[a] /\ z = d[k]
    BY <2>5, <2>9, <2>10
  <2>12. p + y = q + x /\ p + z + y # q + z + x
    BY <2>4, <2>8, <2>9, <2>11
  <2>13. QED
    BY ONLY <2>12, AddedToBoth, p \in Int, q \in Int, x \in Int, y \in Int, z \in Int
<1>5. b \in a..b
  OBVIOUS
<1>6. f[b] + g[a] = g[b] + f[a]
  BY <1>4, <1>5
<1>7. QED
  BY <1>1, <1>2, <1>6

\* The empty sequence sums to nothing, and a sequence of integers to an integer.
LEMMA SumOfNothing ==
  SeqSum(<<>>) = 0
<1>1. <<>> \in Seq(Int) /\ Len(<<>>) = 0
  OBVIOUS
<1>2. QED
  BY <1>1, SumsStep DEF SeqSum

LEMMA SumIsInteger ==
  ASSUME NEW d \in Seq(Int)
  PROVE  SeqSum(d) \in Int
<1>1. Len(d) \in 0..Len(d)
  OBVIOUS
<1>2. QED
  BY <1>1, SumsStep DEF SeqSum

\* An element more adds itself to the sum.
LEMMA SumOfAppended ==
  ASSUME NEW d \in Seq(Int), NEW x \in Int
  PROVE  SeqSum(Append(d, x)) = SeqSum(d) + x
<1>1. PICK e : e = Append(d, x)
  OBVIOUS
<1>2. /\ e \in Seq(Int) /\ Len(d) \in Nat /\ Len(e) = Len(d) + 1
      /\ e[Len(d) + 1] = x /\ \A n \in Nat : 0 < n /\ n <= Len(d) => d[n] = e[n]
      /\ 0 <= Len(d) /\ Len(d) <= Len(e)
  BY <1>1
<1>3. Sums(d)[Len(d)] + Sums(e)[0] = Sums(e)[Len(d)] + Sums(d)[0]
  <2>1. PICK n : n = Len(d)
    OBVIOUS
  <2>2. /\ e \in Seq(Int) /\ 0 \in Nat /\ n \in Nat /\ 0 <= n /\ n <= Len(d) /\ n <= Len(e)
        /\ \A m \in Nat : 0 < m /\ m <= n => d[m] = e[m]
    BY <1>2, <2>1
  <2>3. Sums(d)[n] + Sums(e)[0] = Sums(e)[n] + Sums(d)[0]
    BY <2>2, SumsRunParallel
  <2>4. QED
    BY <2>1, <2>3
<1>4. /\ Sums(d)[0] = 0 /\ Sums(e)[0] = 0
      /\ Sums(d) \in [0..Len(d) -> Int] /\ Sums(e) \in [0..Len(e) -> Int]
      /\ \A n \in 1..Len(e) : Sums(e)[n] = Sums(e)[n - 1] + e[n]
  BY <1>2, SumsStep
<1>5. Sums(e)[Len(e)] = Sums(e)[Len(d)] + x
  <2>1. Len(e) \in 1..Len(e) /\ Len(e) - 1 = Len(d)
    BY <1>2
  <2>2. QED
    BY <1>2, <1>4, <2>1
<1>6. Sums(d)[Len(d)] \in Int /\ Sums(e)[Len(d)] \in Int
  BY <1>2, <1>4
<1>7. QED
  BY <1>1, <1>3, <1>4, <1>5, <1>6 DEF SeqSum

\* Naturals sum to a natural.
LEMMA SumOfNaturals ==
  ASSUME NEW d \in Seq(Nat)
  PROVE  SeqSum(d) \in Nat
<1>1. d \in Seq(Int) /\ Len(d) \in Nat /\ \A n \in 1..Len(d) : d[n] \in Nat
  OBVIOUS
<1>2. PICK f : f = Sums(d)
  OBVIOUS
<1>3. f[0] = 0 /\ \A n \in 1..Len(d) : f[n] = f[n - 1] + d[n]
  BY <1>1, <1>2, SumsStep
<1> DEFINE Bad == {n \in 0..Len(d) : f[n] \notin Nat}
<1>4. Bad = {}
  <2>1. SUFFICES ASSUME Bad # {} PROVE FALSE
    OBVIOUS
  <2>2. Bad \in SUBSET Nat
    OBVIOUS
  <2> HIDE DEF Bad
  <2>3. PICK k \in Bad : \A m \in Bad : k <= m
    BY <2>1, <2>2, LeastOf
  <2>4. k \in 0..Len(d) /\ f[k] \notin Nat
    BY <2>3 DEF Bad
  <2>5. k # 0 /\ k - 1 \in 0..Len(d) /\ k \in 1..Len(d) /\ k \in Nat /\ ~(k <= k - 1)
    BY <1>3, <2>4
  <2>6. f[k - 1] \in Nat
    BY <2>3, <2>5 DEF Bad
  <2>7. f[k] = f[k - 1] + d[k] /\ d[k] \in Nat
    BY <1>1, <1>3, <2>5
  <2>8. QED
    BY <2>4, <2>6, <2>7
<1>5. Len(d) \in 0..Len(d)
  BY <1>1
<1>6. QED
  BY <1>2, <1>4, <1>5 DEF SeqSum

\* A sequence that goes on with one element and then with nothing sums to that much more.
LEMMA SumOfExtended ==
  ASSUME NEW d \in Seq(Int), NEW e \in Seq(Int), Len(d) < Len(e),
         \A n \in 1..Len(d) : e[n] = d[n],
         \A n \in 1..Len(e) : n > Len(d) + 1 => e[n] = 0
  PROVE  SeqSum(e) = SeqSum(d) + e[Len(d) + 1]
<1>1. PICK a \in Nat : a = Len(d)
  OBVIOUS
<1>2. PICK b \in Nat : b = Len(e)
  OBVIOUS
<1>3. PICK g : g = Sums(e)
  OBVIOUS
<1>4. g[0] = 0 /\ (\A n \in 1..b : g[n] = g[n - 1] + e[n]) /\ g \in [0..b -> Int]
  BY <1>2, <1>3, SumsStep
<1>5. Sums(d)[0] = 0 /\ Sums(d) \in [0..a -> Int]
  BY <1>1, SumsStep
<1>6. Sums(d)[a] + g[0] = g[a] + Sums(d)[0]
  <2>1. 0 <= a /\ a <= Len(d) /\ a <= Len(e) /\ \A n \in Nat : 0 < n /\ n <= a => d[n] = e[n]
    BY <1>1, <1>2
  <2>2. QED
    BY <1>3, <2>1, SumsRunParallel
<1>7. Sums(d)[a] \in Int /\ g[a] \in Int
  BY <1>1, <1>2, <1>4, <1>5
<1>8. g[a] = Sums(d)[a]
  BY <1>4, <1>5, <1>6, <1>7
<1>9. a + 1 \in 1..b /\ (a + 1) - 1 = a /\ \A n \in 1..b : n > a + 1 => e[n] = 0
  BY <1>1, <1>2
<1>10. g[a + 1] = g[a] + e[a + 1]
  BY <1>4, <1>9
<1> DEFINE Bad == {n \in (a + 1)..b : g[n] # g[a + 1]}
<1>11. Bad = {}
  <2>1. SUFFICES ASSUME Bad # {} PROVE FALSE
    OBVIOUS
  <2>2. Bad \in SUBSET Nat
    OBVIOUS
  <2> HIDE DEF Bad
  <2>3. PICK k \in Bad : \A m \in Bad : k <= m
    BY <2>1, <2>2, LeastOf
  <2>4. k \in (a + 1)..b /\ g[k] # g[a + 1]
    BY <2>3 DEF Bad
  <2>5. k # a + 1 /\ k \in 1..b /\ k > a + 1 /\ k - 1 \in (a + 1)..b /\ ~(k <= k - 1) /\ k - 1 \in 0..b
    BY <2>4
  <2>6. g[k - 1] = g[a + 1]
    BY <2>3, <2>5 DEF Bad
  <2>7. g[k] = g[k - 1] + e[k] /\ e[k] = 0 /\ g[k - 1] \in Int
    BY <1>4, <1>9, <2>5
  <2>8. QED
    BY <2>4, <2>6, <2>7
<1>12. b \in (a + 1)..b
  BY <1>1, <1>2
<1>13. g[b] = g[a + 1]
  BY <1>11, <1>12
<1>14. QED
  BY <1>1, <1>2, <1>3, <1>8, <1>10, <1>13 DEF SeqSum

\* An element that changes changes the sum by as much.
LEMMA SumOfChanged ==
  ASSUME NEW d \in Seq(Int), NEW k \in 1..Len(d), NEW x \in Int
  PROVE  SeqSum([d EXCEPT ![k] = x]) = SeqSum(d) - d[k] + x
<1>1. PICK e : e = [d EXCEPT ![k] = x]
  OBVIOUS
<1>2. /\ e \in Seq(Int) /\ Len(d) \in Nat /\ Len(e) = Len(d) /\ e[k] = x /\ d[k] \in Int
      /\ \A n \in 1..Len(d) : n # k => d[n] = e[n]
      /\ k \in Nat /\ k - 1 \in Nat /\ k <= Len(d) /\ k - 1 <= k
  BY <1>1
<1>3. Sums(d)[k - 1] + Sums(e)[0] = Sums(e)[k - 1] + Sums(d)[0]
  <2>1. (\A n \in Nat : 0 < n /\ n <= k - 1 => d[n] = e[n]) /\ 0 <= k - 1 /\ k - 1 <= Len(d)
    BY <1>2
  <2>2. QED
    BY <1>2, <2>1, SumsRunParallel
<1>4. Sums(d)[Len(d)] + Sums(e)[k] = Sums(e)[Len(d)] + Sums(d)[k]
  <2>1. PICK n : n = Len(d)
    OBVIOUS
  <2>2. /\ e \in Seq(Int) /\ n \in Nat /\ k <= n /\ n <= Len(d) /\ n <= Len(e)
        /\ \A m \in Nat : k < m /\ m <= n => d[m] = e[m]
    BY <1>2, <2>1
  <2>3. Sums(d)[n] + Sums(e)[k] = Sums(e)[n] + Sums(d)[k]
    BY <1>2, <2>2, SumsRunParallel
  <2>4. QED
    BY <2>1, <2>3
<1>5. /\ Sums(d)[0] = 0 /\ Sums(d) \in [0..Len(d) -> Int] /\ Sums(d)[k] = Sums(d)[k - 1] + d[k]
      /\ Sums(e)[0] = 0 /\ Sums(e) \in [0..Len(d) -> Int] /\ Sums(e)[k] = Sums(e)[k - 1] + x
  BY <1>2, SumsStep
<1>6. /\ Sums(d)[Len(d)] \in Int /\ Sums(d)[k] \in Int /\ Sums(d)[k - 1] \in Int
      /\ Sums(e)[Len(d)] \in Int /\ Sums(e)[k] \in Int /\ Sums(e)[k - 1] \in Int
  <2>1. Len(d) \in 0..Len(d) /\ k \in 0..Len(d) /\ k - 1 \in 0..Len(d)
    BY <1>2
  <2>2. QED
    BY <1>5, <2>1
<1>7. Sums(e)[Len(d)] = Sums(d)[Len(d)] - d[k] + x
  <2>1. Sums(e)[k - 1] = Sums(d)[k - 1]
    BY <1>3, <1>5, <1>6
  <2>2. Sums(d)[Len(d)] + (Sums(d)[k - 1] + x) = Sums(e)[Len(d)] + (Sums(d)[k - 1] + d[k])
    BY <1>4, <1>5, <2>1
  <2>3. PICK p \in Int, q \in Int, u \in Int, y \in Int :
          p = Sums(d)[Len(d)] /\ q = Sums(e)[Len(d)] /\ u = Sums(d)[k - 1] /\ y = d[k]
    BY <1>2, <1>6
  <2>4. p + (u + x) = q + (u + y)
    BY <2>2, <2>3
  <2>5. q = p - y + x
    BY <2>4
  <2>6. QED
    BY <2>3, <2>5
<1>8. QED
  BY <1>1, <1>2, <1>7 DEF SeqSum

-----------------------------------------------------------------------------
(***************************************************************************)
(* Sums over finite sets, as the library folds them.                       *)
(***************************************************************************)
\* The element that the fold takes first, and what its recursive function is chosen to be.
Pick(T) == CHOOSE x \in T : TRUE

SetSum(f, S) == MapThenSumSet(LAMBDA x : f[x], S)

IsFold(g, f, S) ==
  g = [T \in SUBSET S |-> IF T = {} THEN 0 ELSE f[Pick(T)] + g[T \ {Pick(T)}]]

Small(S, n) == {T \in SUBSET S : Cardinality(T) <= n}

\* The sums of the sets of up to n elements exist.
FoldsUpto(f, S, n) ==
  \E g \in [Small(S, n) -> Int] :
    \A T \in Small(S, n) : g[T] = IF T = {} THEN 0 ELSE f[Pick(T)] + g[T \ {Pick(T)}]

LEMMA PickOne ==
  ASSUME NEW S, IsFiniteSet(S), NEW T \in SUBSET S, T # {}
  PROVE  /\ Pick(T) \in T /\ Pick(T) \in S
         /\ T \ {Pick(T)} \in SUBSET S
         /\ IsFiniteSet(T) /\ Cardinality(T) \in Nat \ {0} /\ Cardinality(T) <= Cardinality(S)
         /\ Cardinality(T \ {Pick(T)}) = Cardinality(T) - 1
<1>1. Pick(T) \in T
  BY DEF Pick
<1>2. IsFiniteSet(T) /\ Cardinality(T) <= Cardinality(S)
  BY FS_Subset
<1>3. Cardinality(T \ {Pick(T)}) = Cardinality(T) - 1
  BY <1>1, <1>2, FS_RemoveElement
<1>4. Cardinality(T) \in Nat /\ Cardinality(T) # 0
  BY <1>2, FS_CardinalityType, FS_EmptySet
<1>5. QED
  BY <1>1, <1>2, <1>3, <1>4

LEMMA FoldsExist ==
  ASSUME NEW S, IsFiniteSet(S), NEW f, \A x \in S : f[x] \in Int
  PROVE  \E g : IsFold(g, f, S)
<1> DEFINE Bad == {n \in Nat : ~FoldsUpto(f, S, n)}
<1>0. Cardinality(S) \in Nat /\ \A T \in SUBSET S : IsFiniteSet(T) /\ Cardinality(T) \in Nat /\ Cardinality(T) <= Cardinality(S)
  BY FS_CardinalityType, FS_Subset
<1>1. Bad = {}
  <2>1. SUFFICES ASSUME Bad # {} PROVE FALSE
    OBVIOUS
  <2>2. Bad \in SUBSET Nat
    OBVIOUS
  <2> HIDE DEF Bad
  <2>3. PICK n \in Bad : \A m \in Bad : n <= m
    BY <2>1, <2>2, LeastOf
  <2>4. n \in Nat /\ ~FoldsUpto(f, S, n)
    BY <2>3 DEF Bad
  <2>5. FoldsUpto(f, S, 0)
    <3>1. \A T \in Small(S, 0) : T = {}
      <4> SUFFICES ASSUME NEW T \in Small(S, 0) PROVE T = {}
        OBVIOUS
      <4>1. IsFiniteSet(T) /\ Cardinality(T) = 0
        BY <1>0 DEF Small
      <4>2. QED
        BY <4>1, FS_EmptySet
    <3>2. PICK g : g = [T \in Small(S, 0) |-> 0]
      OBVIOUS
    <3>3. g \in [Small(S, 0) -> Int] /\ \A T \in Small(S, 0) : g[T] = 0
      BY <3>2
    <3>4. QED
      BY <3>1, <3>3 DEF FoldsUpto
  <2>6. n # 0 /\ n \in Nat /\ n - 1 \in Nat
    BY <2>4, <2>5
  <2>7. FoldsUpto(f, S, n - 1)
    <3>1. ~(n <= n - 1)
      BY <2>6
    <3>2. n - 1 \notin Bad
      BY <2>3, <3>1
    <3>3. QED
      BY <2>6, <3>2 DEF Bad
  <2>8. PICK g \in [Small(S, n - 1) -> Int] :
          \A T \in Small(S, n - 1) : g[T] = IF T = {} THEN 0 ELSE f[Pick(T)] + g[T \ {Pick(T)}]
    BY <2>7 DEF FoldsUpto
  <2>9. PICK h : h = [T \in Small(S, n) |-> IF Cardinality(T) = n THEN f[Pick(T)] + g[T \ {Pick(T)}] ELSE g[T]]
    OBVIOUS
  <2>10. ASSUME NEW T \in Small(S, n), Cardinality(T) # n
         PROVE  T \in Small(S, n - 1)
    BY <1>0, <2>4, <2>6, <2>10 DEF Small
  <2>11. ASSUME NEW T \in Small(S, n), T # {}
         PROVE  /\ T \ {Pick(T)} \in Small(S, n - 1) /\ T \ {Pick(T)} \in Small(S, n)
                /\ Cardinality(T \ {Pick(T)}) # n /\ f[Pick(T)] \in Int
    <3>1. T \in SUBSET S /\ Cardinality(T) <= n
      BY DEF Small
    <3>2. /\ Pick(T) \in S /\ T \ {Pick(T)} \in SUBSET S /\ Cardinality(T) \in Nat
          /\ Cardinality(T \ {Pick(T)}) = Cardinality(T) - 1
      BY <2>11, <3>1, PickOne
    <3>3. QED
      BY <2>4, <2>6, <3>1, <3>2 DEF Small
  <2>12. ASSUME NEW T \in Small(S, n)
         PROVE  /\ h[T] \in Int
                /\ h[T] = IF T = {} THEN 0 ELSE f[Pick(T)] + h[T \ {Pick(T)}]
    <3>1. CASE T = {}
      <4>1. Cardinality(T) = 0
        BY <3>1, FS_EmptySet
      <4>2. T \in Small(S, n - 1) /\ Cardinality(T) # n
        BY <2>6, <2>10, <4>1
      <4>3. g[T] = 0
        BY <2>8, <3>1, <4>2
      <4>4. QED
        BY <2>9, <3>1, <4>2, <4>3
    <3>2. CASE T # {}
      <4>1. h[T \ {Pick(T)}] = g[T \ {Pick(T)}] /\ g[T \ {Pick(T)}] \in Int /\ f[Pick(T)] \in Int
        BY <2>8, <2>9, <2>11, <3>2
      <4>2. h[T] = f[Pick(T)] + g[T \ {Pick(T)}]
        <5>1. CASE Cardinality(T) = n
          BY <2>9, <5>1
        <5>2. CASE Cardinality(T) # n
          <6>1. g[T] = f[Pick(T)] + g[T \ {Pick(T)}]
            BY <2>8, <2>10, <3>2, <5>2
          <6>2. QED
            BY <2>9, <5>2, <6>1
        <5>3. QED
          BY <5>1, <5>2
      <4>3. QED
        BY <3>2, <4>1, <4>2
    <3>3. QED
      BY <3>1, <3>2
  <2>13. h \in [Small(S, n) -> Int]
    BY <2>9, <2>12
  <2>14. FoldsUpto(f, S, n)
    BY <2>12, <2>13 DEF FoldsUpto
  <2>15. QED
    BY <2>4, <2>14
<1>2. FoldsUpto(f, S, Cardinality(S))
  BY <1>0, <1>1
<1>3. Small(S, Cardinality(S)) = SUBSET S
  BY <1>0 DEF Small
<1>4. PICK g \in [SUBSET S -> Int] :
        \A T \in SUBSET S : g[T] = IF T = {} THEN 0 ELSE f[Pick(T)] + g[T \ {Pick(T)}]
  BY <1>2, <1>3 DEF FoldsUpto
<1>5. g = [T \in SUBSET S |-> IF T = {} THEN 0 ELSE f[Pick(T)] + g[T \ {Pick(T)}]]
  BY <1>4
<1>6. QED
  BY <1>5 DEF IsFold

\* A fold of the sum.
Folding(g, f, S) ==
  /\ SetSum(f, S) = g[S]
  /\ \A T \in SUBSET S : g[T] = IF T = {} THEN 0 ELSE f[Pick(T)] + g[T \ {Pick(T)}]

LEMMA SumFolds ==
  ASSUME NEW S, IsFiniteSet(S), NEW f, \A x \in S : f[x] \in Int
  PROVE  \E g : Folding(g, f, S)
<1>1. PICK g : g = CHOOSE h : IsFold(h, f, S)
  OBVIOUS
<1>2. IsFold(g, f, S)
  BY <1>1, FoldsExist
<1>3. SetSum(f, S) = g[S]
  BY <1>1 DEF SetSum, MapThenSumSet, MapThenFoldSet, IsFold, Pick
<1>4. ASSUME NEW T \in SUBSET S PROVE g[T] = IF T = {} THEN 0 ELSE f[Pick(T)] + g[T \ {Pick(T)}]
  BY <1>2 DEF IsFold
<1>5. QED
  BY <1>3, <1>4 DEF Folding

\* Two sums over one set, of which the terms differ in at most one: so do the sums.
Moves(f, h, S, a, c) == \A x \in S : f[x] \in Int /\ h[x] = f[x] + (IF x = a THEN c ELSE 0)

LEMMA SetSumMoves ==
  ASSUME NEW S, IsFiniteSet(S), NEW f, NEW h, NEW a, NEW c \in Int, Moves(f, h, S, a, c)
  PROVE  /\ SetSum(f, S) \in Int
         /\ SetSum(h, S) = SetSum(f, S) + (IF a \in S THEN c ELSE 0)
<1>0. \A x \in S : f[x] \in Int /\ h[x] = f[x] + (IF x = a THEN c ELSE 0)
  BY DEF Moves
<1>1. \A x \in S : h[x] \in Int
  BY <1>0
<1>2. PICK p : Folding(p, f, S)
  BY <1>0, SumFolds
<1>3. PICK q : Folding(q, h, S)
  BY <1>1, SumFolds
<1> DEFINE Fine(T) == p[T] \in Int /\ q[T] = p[T] + (IF a \in T THEN c ELSE 0)
           Bad == {n \in Nat : \E T \in SUBSET S : Cardinality(T) = n /\ ~Fine(T)}
<1>4. Bad = {}
  <2>1. SUFFICES ASSUME Bad # {} PROVE FALSE
    OBVIOUS
  <2>2. Bad \in SUBSET Nat
    OBVIOUS
  <2> HIDE DEF Bad
  <2>3. PICK n \in Bad : \A m \in Bad : n <= m
    BY <2>1, <2>2, LeastOf
  <2>4. PICK T \in SUBSET S : Cardinality(T) = n /\ ~Fine(T)
    BY <2>3 DEF Bad
  <2>5. CASE T = {}
    <3>1. p[T] = 0 /\ q[T] = 0
      BY <1>2, <1>3, <2>5 DEF Folding
    <3>2. QED
      BY <2>4, <2>5, <3>1
  <2>6. CASE T # {}
    <3>1. PICK y : y = Pick(T)
      OBVIOUS
    <3>2. PICK R : R = T \ {y}
      OBVIOUS
    <3>3. /\ y \in T /\ y \in S /\ R \in SUBSET S /\ n \in Nat \ {0} /\ Cardinality(R) = n - 1
      BY <2>4, <2>6, <3>1, <3>2, PickOne
    <3>4. Fine(R)
      <4>1. n - 1 \in Nat /\ ~(n <= n - 1)
        BY <3>3
      <4>2. n - 1 \notin Bad
        BY <2>3, <4>1
      <4>3. QED
        BY <3>3, <4>1, <4>2 DEF Bad
    <3>5. p[T] = f[y] + p[R] /\ q[T] = h[y] + q[R]
      BY <1>2, <1>3, <2>6, <3>1, <3>2 DEF Folding
    <3>6. CASE y = a
      <4>1. a \in T /\ a \notin R /\ h[y] = f[y] + c /\ f[y] \in Int
        BY <1>0, <3>2, <3>3, <3>6
      <4>2. q[R] = p[R] /\ p[R] \in Int
        BY <3>4, <4>1
      <4>3. QED
        BY <2>4, <3>5, <4>1, <4>2
    <3>7. CASE y # a
      <4>1. (a \in T <=> a \in R) /\ h[y] = f[y] /\ f[y] \in Int
        BY <1>0, <3>2, <3>3, <3>7
      <4>2. q[R] = p[R] + (IF a \in R THEN c ELSE 0) /\ p[R] \in Int
        BY <3>4
      <4>3. q[T] = p[T] + (IF a \in T THEN c ELSE 0) /\ p[T] \in Int
        BY <3>5, <4>1, <4>2
      <4>4. QED
        BY <2>4, <4>3
    <3>8. QED
      BY <3>6, <3>7
  <2>7. QED
    BY <2>5, <2>6
<1>5. Fine(S)
  <2>1. Cardinality(S) \in Nat /\ S \in SUBSET S
    BY FS_CardinalityType
  <2>2. QED
    BY <1>4, <2>1
<1>6. QED
  BY <1>2, <1>3, <1>5 DEF Folding

\* Nothing sums to nothing.
LEMMA SetSumOfNothing ==
  ASSUME NEW S, IsFiniteSet(S), NEW f, \A x \in S : f[x] = 0
  PROVE  SetSum(f, S) = 0
<1>1. PICK p : Folding(p, f, S)
  BY SumFolds
<1> DEFINE Bad == {n \in Nat : \E T \in SUBSET S : Cardinality(T) = n /\ p[T] # 0}
<1>2. Bad = {}
  <2>1. SUFFICES ASSUME Bad # {} PROVE FALSE
    OBVIOUS
  <2>2. Bad \in SUBSET Nat
    OBVIOUS
  <2> HIDE DEF Bad
  <2>3. PICK n \in Bad : \A m \in Bad : n <= m
    BY <2>1, <2>2, LeastOf
  <2>4. PICK T \in SUBSET S : Cardinality(T) = n /\ p[T] # 0
    BY <2>3 DEF Bad
  <2>5. T # {}
    BY <1>1, <2>4 DEF Folding
  <2>6. PICK R, y : R = T \ {y} /\ y = Pick(T)
    OBVIOUS
  <2>7. y \in S /\ R \in SUBSET S /\ n \in Nat \ {0} /\ Cardinality(R) = n - 1
    BY <2>4, <2>5, <2>6, PickOne
  <2>8. p[R] = 0
    <3>1. n - 1 \in Nat /\ ~(n <= n - 1)
      BY <2>7
    <3>2. n - 1 \notin Bad
      BY <2>3, <3>1
    <3>3. QED
      BY <2>7, <3>1, <3>2 DEF Bad
  <2>9. p[T] = f[y] + p[R]
    BY <1>1, <2>5, <2>6 DEF Folding
  <2>10. QED
    BY <2>4, <2>7, <2>8, <2>9
<1>3. Cardinality(S) \in Nat /\ S \in SUBSET S
  BY FS_CardinalityType
<1>4. p[S] = 0
  BY <1>2, <1>3
<1>5. QED
  BY <1>1, <1>4 DEF Folding

-----------------------------------------------------------------------------
(***************************************************************************)
(* Products and quotients.                                                 *)
(***************************************************************************)
LEMMA DivMonotone ==
  ASSUME NEW a \in Nat, NEW b \in Nat, NEW n \in Nat \ {0}, a <= b
  PROVE  a \div n \in Nat /\ a \div n <= b \div n
<1>1. PICK p \in Int, q \in Int : p = a \div n /\ q = b \div n
  OBVIOUS
<1>2. p * n <= a /\ b < q * n + n /\ a < p * n + n
  BY <1>1
<1>3. p * n < (q + 1) * n /\ 0 < (p + 1) * n
  BY <1>2
<1>4. p < q + 1 /\ 0 < p + 1
  BY <1>3
<1>5. QED
  BY <1>1, <1>4

LEMMA ProductsGrow == \A k, m \in Nat, c \in Nat : k <= m => k * c \in Nat /\ m * c \in Nat /\ k * c <= m * c
OBVIOUS

LEMMA OneLess == \A k, c \in Int : (k - 1) * c = k * c - c
OBVIOUS

-----------------------------------------------------------------------------
\* A fold that adds up f over the subsets of S, an element at a time.
IsFolded(g, f, S) ==
  \A T \in SUBSET S : g[T] = IF T = {} THEN 0 ELSE f[Pick(T)] + g[T \ {Pick(T)}]

\* The fold takes its elements in any order.
LEMMA FoldsInAnyOrder ==
  ASSUME NEW S, IsFiniteSet(S), NEW f, \A x \in S : f[x] \in Int, NEW g, IsFolded(g, f, S)
  PROVE  \A T \in SUBSET S : g[T] \in Int /\ \A z \in T : g[T] = f[z] + g[T \ {z}]
<1> DEFINE Fine(T) == g[T] \in Int /\ \A z \in T : g[T] = f[z] + g[T \ {z}]
           Bad == {n \in Nat : \E T \in SUBSET S : Cardinality(T) = n /\ ~Fine(T)}
<1>1. Bad = {}
  <2>1. SUFFICES ASSUME Bad # {} PROVE FALSE
    OBVIOUS
  <2>2. Bad \in SUBSET Nat
    OBVIOUS
  <2> HIDE DEF Bad
  <2>3. PICK k \in Bad : \A m \in Bad : k <= m
    BY <2>1, <2>2, LeastOf
  <2>4. PICK T \in SUBSET S : Cardinality(T) = k /\ ~Fine(T)
    BY <2>3 DEF Bad
  <2>5. ASSUME NEW R \in SUBSET T, R # T PROVE Fine(R)
    <3>1. R \in SUBSET S /\ R \in SUBSET T /\ IsFiniteSet(T)
      BY <2>4, FS_Subset
    <3>2. Cardinality(R) \in Nat /\ Cardinality(T) \in Nat /\ Cardinality(R) <= Cardinality(T) /\ Cardinality(R) # Cardinality(T)
      <4>1. IsFiniteSet(R) /\ Cardinality(R) <= Cardinality(T) /\ (Cardinality(R) = Cardinality(T) => R = T)
        BY <3>1, FS_Subset
      <4>2. Cardinality(R) \in Nat /\ Cardinality(T) \in Nat
        BY <3>1, <4>1, FS_CardinalityType
      <4>3. QED
        BY <2>5, <4>1, <4>2
    <3>3. Cardinality(R) \notin Bad
      BY <2>3, <2>4, <3>2
    <3>4. QED
      BY <3>1, <3>2, <3>3 DEF Bad
  <2>6. T # {}
    <3>1. T = {} => g[T] = 0
      BY DEF IsFolded
    <3>2. QED
      BY <2>4, <3>1
  <2>7. PICK x \in T : x = Pick(T)
    BY <2>6, PickOne
  <2>8. g[T] = f[x] + g[T \ {x}] /\ f[x] \in Int
    BY <2>6, <2>7 DEF IsFolded
  <2>9. Fine(T \ {x})
    BY <2>5
  <2>10. g[T] \in Int /\ g[T \ {x}] \in Int
    BY <2>8, <2>9
  <2>11. ASSUME NEW z \in T, z # x PROVE g[T] = f[z] + g[T \ {z}]
    <3>1. PICK R : R = (T \ {x}) \ {z}
      OBVIOUS
    <3>2. R = (T \ {z}) \ {x} /\ z \in T \ {x} /\ x \in T \ {z} /\ T \ {z} # T /\ R # T
      BY <2>11, <3>1
    <3>3. Fine(T \ {z}) /\ Fine(R)
      BY <2>5, <3>1, <3>2
    <3>4. g[T \ {x}] = f[z] + g[R]
      BY <2>9, <3>1, <3>2
    <3>5. g[T \ {z}] = f[x] + g[R] /\ g[R] \in Int /\ f[z] \in Int
      BY <3>2, <3>3
    <3>6. QED
      BY <2>8, <3>4, <3>5
  <2>12. QED
    BY <2>4, <2>8, <2>10, <2>11
<1>2. ASSUME NEW T \in SUBSET S PROVE Fine(T)
  <2>1. Cardinality(T) \in Nat
    BY FS_Subset, FS_CardinalityType
  <2>2. QED
    BY <1>1, <2>1
<1>3. QED
  BY <1>2

\* The same elements have the same sum, wherever they are taken from.
LEMMA FoldsAgree ==
  ASSUME NEW S, IsFiniteSet(S), NEW f, \A x \in S : f[x] \in Int, NEW g, IsFolded(g, f, S),
         NEW R \in SUBSET S, NEW h, IsFolded(h, f, R)
  PROVE  g[R] = h[R]
<1> DEFINE Bad == {n \in Nat : \E T \in SUBSET R : Cardinality(T) = n /\ g[T] # h[T]}
<1>0. IsFiniteSet(R) /\ Cardinality(R) \in Nat
  BY FS_Subset, FS_CardinalityType
<1>1. Bad = {}
  <2>1. SUFFICES ASSUME Bad # {} PROVE FALSE
    OBVIOUS
  <2>2. Bad \in SUBSET Nat
    OBVIOUS
  <2> HIDE DEF Bad
  <2>3. PICK k \in Bad : \A m \in Bad : k <= m
    BY <2>1, <2>2, LeastOf
  <2>4. PICK T \in SUBSET R : Cardinality(T) = k /\ g[T] # h[T]
    BY <2>3 DEF Bad
  <2>5. T \in SUBSET S
    OBVIOUS
  <2>6. T # {}
    BY <2>4, <2>5 DEF IsFolded
  <2>7. /\ T \ {Pick(T)} \in SUBSET R /\ Cardinality(T) \in Nat
        /\ Cardinality(T \ {Pick(T)}) = Cardinality(T) - 1 /\ Cardinality(T) # 0
    BY <1>0, <2>6, PickOne
  <2>8. g[T \ {Pick(T)}] = h[T \ {Pick(T)}]
    <3>1. Cardinality(T \ {Pick(T)}) \in Nat \ Bad
      BY <2>3, <2>4, <2>7
    <3>2. QED
      BY <2>7, <3>1 DEF Bad
  <2>9. QED
    BY <2>4, <2>5, <2>6, <2>8 DEF IsFolded
<1>2. QED
  BY <1>0, <1>1

\* A sum over one element more.
LEMMA SetSumOfOneMore ==
  ASSUME NEW S, IsFiniteSet(S), NEW z, z \notin S, NEW f, \A x \in S \cup {z} : f[x] \in Int
  PROVE  SetSum(f, S) \in Int /\ SetSum(f, S \cup {z}) = SetSum(f, S) + f[z]
<1>1. PICK T : T = S \cup {z}
  OBVIOUS
<1>2. IsFiniteSet(T)
  BY <1>1, FS_AddElement
<1>3. PICK g : Folding(g, f, T)
  BY <1>1, <1>2, SumFolds
<1>4. PICK h : Folding(h, f, S)
  BY SumFolds
<1>5. IsFolded(g, f, T) /\ IsFolded(h, f, S) /\ SetSum(f, T) = g[T] /\ SetSum(f, S) = h[S]
  BY <1>3, <1>4 DEF Folding, IsFolded
<1>6. S \in SUBSET T /\ T \in SUBSET T /\ z \in T /\ S = T \ {z}
  BY <1>1
<1>7. g[S] = h[S]
  BY <1>1, <1>2, <1>5, <1>6, FoldsAgree
<1>8. g[S] \in Int /\ g[T] = f[z] + g[T \ {z}] /\ f[z] \in Int
  <2>1. \A R \in SUBSET T : g[R] \in Int /\ \A x \in R : g[R] = f[x] + g[R \ {x}]
    <3>1. \A x \in T : f[x] \in Int
      BY <1>1
    <3>2. QED
      BY <1>2, <1>5, <3>1, FoldsInAnyOrder
  <2>2. g[S] \in Int
    BY <1>6, <2>1
  <2>3. g[T] = f[z] + g[T \ {z}]
    BY <1>6, <2>1
  <2>4. f[z] \in Int
    OBVIOUS
  <2>5. QED
    BY <2>2, <2>3, <2>4
<1>9. SetSum(f, T) = f[z] + g[S] /\ SetSum(f, S) = g[S]
  BY <1>5, <1>6, <1>7, <1>8
<1>10. QED
  BY <1>1, <1>8, <1>9

\* What is alike on a set has the same sum over it.
LEMMA SetSumsAgree ==
  ASSUME NEW S, IsFiniteSet(S), NEW f, NEW h, \A x \in S : f[x] \in Int /\ h[x] = f[x]
  PROVE  SetSum(h, S) = SetSum(f, S) /\ SetSum(f, S) \in Int
<1>1. Moves(f, h, S, 0, 0)
  BY DEF Moves
<1>2. SetSum(f, S) \in Int /\ SetSum(h, S) = SetSum(f, S) + 0
  BY <1>1, SetSumMoves
<1>3. QED
  BY <1>2
=============================================================================
