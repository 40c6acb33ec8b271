-------------------------- MODULE AssetGraphProofs --------------------------
(***************************************************************************)
(* Theorems about AssetGraph, for any assets, persons, edges and           *)
(* operations under way: the walk up from a machine meets all that is      *)
(* above it and the walk down all that is below, links and unlinks that do *)
(* not overlap keep a forest with a true cache of the machine above, and a *)
(* page that is saved is saved whole.                                      *)
(***************************************************************************)
EXTENDS AssetGraph, SequenceLemmas

-----------------------------------------------------------------------------
(***************************************************************************)
(* The graph of assets.  First what the two walks compute, up from a       *)
(* machine and down from it: neither takes more steps than there are       *)
(* assets, since a step that finds nothing new is the last.                *)
(***************************************************************************)

\* Whatever is done again and again can be tabulated.
CanIterate(V, v, F) == v \in V /\ F \in [V -> V]
IsTable(g, V, v, F, N) ==
  g \in [0..N -> V] /\ g[0] = v /\ \A n \in 1..N : g[n] = F[g[n - 1]]

LEMMA IterationExists ==
  ASSUME NEW V, NEW v, NEW F, NEW N \in Nat, CanIterate(V, v, F)
  PROVE  \E g : IsTable(g, V, v, F, N)
<1> USE DEF CanIterate
<1> DEFINE Tabled(k) == \E g \in [0..k -> V] : g[0] = v /\ \A n \in 1..k : g[n] = F[g[n - 1]]
           G == {k \in 0..N : Tabled(k)}
<1>1. Tabled(0)
  <2>1. PICK g : g = [n \in 0..0 |-> v]
    OBVIOUS
  <2>2. g \in [0..0 -> V] /\ g[0] = v /\ 1..0 = {}
    BY <2>1
  <2>3. QED
    BY <2>2
<1>2. ASSUME NEW k \in 1..N, Tabled(k - 1) PROVE Tabled(k)
  <2>1. k \in Nat /\ k - 1 \in Nat /\ k - 1 \in 0..(k - 1)
    OBVIOUS
  <2>2. PICK f \in [0..(k - 1) -> V] : f[0] = v /\ \A n \in 1..(k - 1) : f[n] = F[f[n - 1]]
    BY <1>2
  <2>3. PICK g : g = [n \in 0..k |-> IF n = k THEN F[f[k - 1]] ELSE f[n]]
    OBVIOUS
  <2>4. F[f[k - 1]] \in V
    BY <2>1, <2>2
  <2>5. g \in [0..k -> V] /\ g[0] = v
    BY <2>1, <2>2, <2>3, <2>4
  <2>6. ASSUME NEW n \in 1..k PROVE g[n] = F[g[n - 1]]
    BY <2>1, <2>2, <2>3, <2>6
  <2>7. QED
    BY <2>5, <2>6
<1> HIDE DEF Tabled
<1>3. 0 \in G /\ \A n \in 1..N : n - 1 \in G => n \in G
  BY <1>1, <1>2
<1>4. G \in SUBSET (0..N)
  OBVIOUS
<1> HIDE DEF G
<1>5. G = 0..N
  BY <1>3, <1>4, BoundedInduction
<1>6. Tabled(N)
  BY <1>5 DEF G
<1>7. QED
  BY <1>6 DEF Tabled, IsTable

\* A chain of subsets of a finite set that never grows again once it stands still stands
\* still at last.
IsChain(U, S, N) ==
  /\ IsFiniteSet(S) /\ N = Cardinality(S)
  /\ U \in [0..N -> SUBSET S] /\ U[0] # {}
  /\ \A n \in 1..N : U[n - 1] \subseteq U[n]
  /\ \A n \in 1..(N - 1) : U[n] = U[n - 1] => U[n + 1] = U[n]

LEMMA ChainStops ==
  ASSUME NEW S, NEW N \in Nat, NEW U, IsChain(U, S, N)
  PROVE  N # 0 /\ U[N] = U[N - 1]
<1>0. /\ IsFiniteSet(S) /\ N = Cardinality(S)
      /\ U \in [0..N -> SUBSET S] /\ U[0] # {}
      /\ \A n \in 1..N : U[n - 1] \subseteq U[n]
      /\ \A n \in 1..(N - 1) : U[n] = U[n - 1] => U[n + 1] = U[n]
  BY DEF IsChain
<1>1. \A n \in 0..N : IsFiniteSet(U[n]) /\ Cardinality(U[n]) \in Nat /\ Cardinality(U[n]) <= N
  <2> SUFFICES ASSUME NEW n \in 0..N
               PROVE  IsFiniteSet(U[n]) /\ Cardinality(U[n]) \in Nat /\ Cardinality(U[n]) <= N
    OBVIOUS
  <2>1. U[n] \in SUBSET S
    BY <1>0
  <2>2. QED
    BY <1>0, <2>1, FS_Subset, FS_CardinalityType
<1>2. 0 \in 0..N /\ Cardinality(U[0]) # 0
  BY <1>0, <1>1, FS_EmptySet
<1>3. N # 0 /\ N - 1 \in Nat
  BY <1>1, <1>2
<1> DEFINE Grown(n) == Cardinality(U[n]) >= n + 1 \/ U[n + 1] = U[n]
           G == {n \in 0..(N - 1) : Grown(n)}
<1>4. Grown(0)
  BY <1>1, <1>2
<1>5. ASSUME NEW n \in 1..(N - 1), Grown(n - 1) PROVE Grown(n)
  <2>1. n \in 0..N /\ n - 1 \in 0..N /\ n \in 1..N /\ (n - 1) + 1 = n
    OBVIOUS
  <2>2. CASE U[n] = U[n - 1]
    BY <1>0, <2>2
  <2>3. CASE U[n] # U[n - 1]
    <3>1. U[n - 1] \in SUBSET U[n] /\ IsFiniteSet(U[n])
      BY <1>0, <1>1, <2>1
    <3>2. Cardinality(U[n - 1]) <= Cardinality(U[n]) /\ Cardinality(U[n - 1]) # Cardinality(U[n])
      BY <2>3, <3>1, FS_Subset
    <3>3. Cardinality(U[n - 1]) >= (n - 1) + 1
      BY <1>5, <2>1, <2>3
    <3>4. Cardinality(U[n - 1]) \in Nat /\ Cardinality(U[n]) \in Nat
      BY <1>1, <2>1
    <3>5. Cardinality(U[n]) >= n + 1
      BY <2>1, <3>2, <3>3, <3>4
    <3>6. QED
      BY <3>5
  <2>4. QED
    BY <2>2, <2>3
<1> HIDE DEF Grown
<1>6. 0 \in G /\ \A n \in 1..(N - 1) : n - 1 \in G => n \in G
  BY <1>3, <1>4, <1>5
<1>7. G \in SUBSET (0..(N - 1))
  OBVIOUS
<1> HIDE DEF G
<1>8. G = 0..(N - 1)
  BY <1>3, <1>6, <1>7, BoundedInduction
<1>9. Grown(N - 1)
  BY <1>3, <1>8 DEF G
<1>10. CASE Cardinality(U[N - 1]) >= (N - 1) + 1
  <2>1. N - 1 \in 0..N /\ (N - 1) + 1 = N /\ U[N - 1] \in SUBSET S /\ U[N] \in SUBSET S /\ N \in 1..N
    BY <1>0, <1>3
  <2>2. Cardinality(U[N - 1]) = Cardinality(S)
    BY <1>0, <1>1, <1>10, <2>1
  <2>3. U[N - 1] = S
    BY <1>0, <2>1, <2>2, FS_Subset
  <2>4. U[N - 1] \subseteq U[N]
    BY <1>0, <2>1
  <2>5. QED
    BY <1>3, <2>1, <2>3, <2>4
<1>11. CASE U[(N - 1) + 1] = U[N - 1]
  BY <1>3, <1>11
<1>12. QED
  BY <1>9, <1>10, <1>11 DEF Grown

\* A machine is among the containers of what is among its modules.
LEMMA EdgesBothWays ==
  /\ \A a, b : b \in Modules(a) <=>
       \E n \in LiveEdges("contains_module") : edge[n].from = a /\ edge[n].to = b
  /\ \A a, b : a \in Containers(b) <=> b \in Modules(a)
BY DEF Modules, Containers

LEMMA EdgesAreOfAssets ==
  ASSUME edge \in Seq(Edge)
  PROVE  /\ \A n \in DOMAIN edge : edge[n] \in Edge
         /\ \A a : Modules(a) \subseteq Assets /\ Containers(a) \subseteq Assets
         /\ \A a : ContainerOf(a) \in Assets \cup {NoAsset}
         /\ \A a : Containers(a) # {} => ContainerOf(a) \in Containers(a)
         /\ \A a : ContainerOf(a) # NoAsset <=> Containers(a) # {}
<1>1. \A n \in DOMAIN edge : edge[n] \in Edge
  OBVIOUS
<1>2. \A a : Modules(a) \subseteq Assets /\ Containers(a) \subseteq Assets
  BY <1>1 DEF Modules, Containers, LiveEdges, Edge
<1>3. \A a : Containers(a) # {} => ContainerOf(a) \in Containers(a)
  BY DEF ContainerOf
<1>4. \A a : Containers(a) = {} => ContainerOf(a) = NoAsset
  BY DEF ContainerOf
<1>5. NoAsset \notin Assets
  BY AssetAssumption DEF AssetAssumption
<1>6. QED
  BY <1>1, <1>2, <1>3, <1>4, <1>5

IsAbove(f, root) ==
  f = [n \in 0..Cardinality(Assets) |->
         IF n = 0 THEN {root} ELSE {ContainerOf(a) : a \in f[n - 1]} \ {NoAsset}]

LEMMA AboveSteps ==
  ASSUME edge \in Seq(Edge), NEW root \in Assets, NEW N \in Nat, N = Cardinality(Assets)
  PROVE  /\ Above(root) \in [0..N -> SUBSET Assets] /\ Above(root)[0] = {root}
         /\ \A n \in 1..N : Above(root)[n] = {ContainerOf(a) : a \in Above(root)[n - 1]} \ {NoAsset}
<1>1. PICK V, F, v : /\ V = SUBSET Assets /\ v = {root}
                      /\ F = [s \in V |-> {ContainerOf(a) : a \in s} \ {NoAsset}]
  OBVIOUS
<1>2. v \in V /\ F \in [V -> V] /\ \A s \in V : F[s] = {ContainerOf(a) : a \in s} \ {NoAsset}
  BY <1>1, EdgesAreOfAssets
<1>3. PICK g \in [0..N -> V] : g[0] = v /\ \A n \in 1..N : g[n] = F[g[n - 1]]
  <2>1. CanIterate(V, v, F)
    BY <1>2 DEF CanIterate
  <2>2. PICK g : IsTable(g, V, v, F, N)
    BY <2>1, IterationExists
  <2>3. QED
    BY <2>2 DEF IsTable
<1>4. \A n \in 1..N : g[n] = {ContainerOf(a) : a \in g[n - 1]} \ {NoAsset}
  <2> SUFFICES ASSUME NEW n \in 1..N PROVE g[n] = {ContainerOf(a) : a \in g[n - 1]} \ {NoAsset}
    OBVIOUS
  <2>1. n - 1 \in 0..N
    OBVIOUS
  <2>2. g[n - 1] \in V /\ g[n] = F[g[n - 1]]
    BY <1>3, <2>1
  <2>3. QED
    BY <1>2, <2>2
<1>5. IsAbove(g, root)
  <2>1. g = [n \in 0..N |-> g[n]]
    OBVIOUS
  <2>2. \A n \in 0..N : g[n] = IF n = 0 THEN {root} ELSE {ContainerOf(a) : a \in g[n - 1]} \ {NoAsset}
    BY <1>1, <1>3, <1>4
  <2>3. QED
    BY <2>1, <2>2 DEF IsAbove
<1>6. Above(root) = CHOOSE f : IsAbove(f, root)
  BY DEF Above, IsAbove
<1>7. PICK f : f = Above(root) /\ IsAbove(f, root)
  BY <1>5, <1>6
<1>8. /\ f = [n \in 0..N |-> f[n]] /\ f[0] = {root}
      /\ \A n \in 1..N : f[n] = {ContainerOf(a) : a \in f[n - 1]} \ {NoAsset}
  <2>1. f = [n \in 0..N |-> IF n = 0 THEN {root} ELSE {ContainerOf(a) : a \in f[n - 1]} \ {NoAsset}]
    BY <1>7 DEF IsAbove
  <2>2. 0 \in 0..N /\ \A n \in 1..N : n \in 0..N /\ n # 0
    OBVIOUS
  <2>3. f = [n \in 0..N |-> f[n]]
    BY <2>1
  <2>4. f[0] = {root}
    BY <2>1, <2>2
  <2>5. \A n \in 1..N : f[n] = {ContainerOf(a) : a \in f[n - 1]} \ {NoAsset}
    BY <2>1, <2>2
  <2>6. QED
    BY <2>3, <2>4, <2>5
<1> DEFINE G == {n \in 0..N : f[n] \in SUBSET Assets}
<1>9. 0 \in G /\ \A n \in 1..N : n - 1 \in G => n \in G
  <2>1. 0 \in G
    BY <1>8
  <2>2. ASSUME NEW n \in 1..N, f[n - 1] \in SUBSET Assets PROVE f[n] \in SUBSET Assets
    BY <1>8, <2>2, EdgesAreOfAssets
  <2>3. QED
    BY <2>1, <2>2
<1>10. G \in SUBSET (0..N)
  OBVIOUS
<1>11. G = 0..N
  <2> HIDE DEF G
  <2>1. QED
    BY <1>9, <1>10, BoundedInduction
<1>12. f \in [0..N -> SUBSET Assets]
  BY <1>8, <1>11
<1>13. QED
  BY <1>7, <1>8, <1>12

\* All machines above one, itself too.
AncestorsOf(root) == {x \in Assets : \E n \in 0..Cardinality(Assets) : x \in Above(root)[n]}

LEMMA AncestorsAreClosed ==
  ASSUME edge \in Seq(Edge), NEW root \in Assets
  PROVE  /\ root \in AncestorsOf(root)
         /\ \A a \in AncestorsOf(root) : ContainerOf(a) \in AncestorsOf(root) \cup {NoAsset}
         /\ \A b \in Assets : WouldCreateCycle(root, b) <=> b \in AncestorsOf(root)
<1>1. PICK N \in Nat : N = Cardinality(Assets)
  BY AssetAssumption, FS_CardinalityType DEF AssetAssumption
<1>2. PICK f : f = Above(root)
  OBVIOUS
<1>3. /\ f \in [0..N -> SUBSET Assets] /\ f[0] = {root}
      /\ \A n \in 1..N : f[n] = {ContainerOf(a) : a \in f[n - 1]} \ {NoAsset}
  BY <1>1, <1>2, AboveSteps
<1>4. PICK U : U = [n \in 0..N |-> {x \in Assets : \E m \in 0..n : x \in f[m]}]
  OBVIOUS
<1>5. /\ U \in [0..N -> SUBSET Assets]
      /\ \A n \in 0..N : \A x : x \in U[n] <=> \E m \in 0..n : x \in f[m]
  <2>1. U \in [0..N -> SUBSET Assets]
    BY <1>4
  <2>2. ASSUME NEW n \in 0..N, NEW x PROVE x \in U[n] <=> \E m \in 0..n : x \in f[m]
    <3>1. \A m \in 0..n : f[m] \in SUBSET Assets
      BY <1>3
    <3>2. QED
      BY <1>4, <3>1
  <2>3. QED
    BY <2>1, <2>2
<1>6. U[0] # {}
  BY <1>3, <1>5
<1>7. \A n \in 1..N : U[n - 1] \subseteq U[n]
  BY <1>5
<1>8. ASSUME NEW n \in 1..N, NEW a \in U[n - 1] PROVE ContainerOf(a) \in U[n] \cup {NoAsset}
  <2>1. PICK m \in 0..(n - 1) : a \in f[m]
    BY <1>5, <1>8
  <2>2. m + 1 \in 1..N /\ m + 1 \in 0..n /\ (m + 1) - 1 = m
    OBVIOUS
  <2>3. ContainerOf(a) \in f[m + 1] \cup {NoAsset}
    BY <1>3, <2>1, <2>2
  <2>4. QED
    BY <1>5, <2>2, <2>3
<1>9. ASSUME NEW n \in 1..(N - 1), U[n] = U[n - 1] PROVE U[n + 1] = U[n]
  <2>1. n \in 1..N /\ n + 1 \in 1..N /\ n + 1 \in 0..N /\ n \in 0..N /\ (n + 1) - 1 = n
    OBVIOUS
  <2>2. ASSUME NEW x \in f[n + 1] PROVE x \in U[n]
    <3>1. PICK a \in f[n] : x = ContainerOf(a) /\ x # NoAsset
      BY <1>3, <2>1, <2>2
    <3>2. a \in U[n]
      BY <1>5, <2>1, <3>1
    <3>3. QED
      BY <1>8, <1>9, <2>1, <3>1, <3>2
  <2>3. \A m \in 0..(n + 1) : m \in 0..n \/ m = n + 1
    OBVIOUS
  <2>4. \A x : x \in U[n + 1] => x \in U[n]
    BY <1>5, <2>1, <2>2, <2>3
  <2>5. U[n] \subseteq U[n + 1]
    BY <1>7, <2>1
  <2>6. QED
    BY <2>4, <2>5
<1>10. N # 0 /\ U[N] = U[N - 1]
  <2>1. IsFiniteSet(Assets)
    BY AssetAssumption DEF AssetAssumption
  <2>2. IsChain(U, Assets, N)
    BY <1>1, <1>5, <1>6, <1>7, <1>9, <2>1 DEF IsChain
  <2>3. QED
    BY <2>2, ChainStops
<1>11. AncestorsOf(root) = U[N]
  BY <1>1, <1>2, <1>4 DEF AncestorsOf
<1>12. N \in 1..N /\ 0 \in 0..N /\ N \in 0..N
  BY <1>10
<1>13. root \in U[N]
  BY <1>3, <1>5, <1>12
<1>14. \A a \in U[N] : ContainerOf(a) \in U[N] \cup {NoAsset}
  BY <1>8, <1>10, <1>12
<1>15. \A b \in Assets : WouldCreateCycle(root, b) <=> b \in AncestorsOf(root)
  BY DEF WouldCreateCycle, AncestorsOf
<1>16. QED
  BY <1>11, <1>13, <1>14, <1>15

\* One level further down.
LowerLevel(v) ==
  LET next == {edge[i].to : i \in {j \in LiveEdges("contains_module") : edge[j].from \in v.frontier}} \ v.seen
  IN  [seen |-> v.seen \cup next, frontier |-> next]

IsLevels(f, root) ==
  f = [n \in 0..Cardinality(Assets) |->
         IF n = 0 THEN [seen |-> {root}, frontier |-> {root}] ELSE LowerLevel(f[n - 1])]

LevelState == [seen : SUBSET Assets, frontier : SUBSET Assets]

LEMMA LowerLevelIs ==
  ASSUME edge \in Seq(Edge), NEW v \in LevelState
  PROVE  /\ LowerLevel(v) \in LevelState
         /\ \A y : y \in LowerLevel(v).frontier <=> y \notin v.seen /\ \E x \in v.frontier : y \in Modules(x)
         /\ LowerLevel(v).seen = v.seen \cup LowerLevel(v).frontier
<1>1. PICK next : next = {edge[i].to : i \in {j \in LiveEdges("contains_module") : edge[j].from \in v.frontier}} \ v.seen
  OBVIOUS
<1>2. LowerLevel(v) = [seen |-> v.seen \cup next, frontier |-> next]
  BY <1>1 DEF LowerLevel
<1>3. \A y : y \in next <=> y \notin v.seen /\ \E x \in v.frontier : y \in Modules(x)
  BY <1>1, EdgesBothWays
<1>4. next \subseteq Assets
  BY <1>3, EdgesAreOfAssets
<1>5. QED
  BY <1>2, <1>3, <1>4 DEF LevelState

LEMMA LevelsStep ==
  ASSUME edge \in Seq(Edge), NEW root \in Assets, NEW N \in Nat, N = Cardinality(Assets)
  PROVE  /\ Levels(root) \in [0..N -> LevelState]
         /\ Levels(root)[0] = [seen |-> {root}, frontier |-> {root}]
         /\ \A n \in 1..N : Levels(root)[n] = LowerLevel(Levels(root)[n - 1])
<1>1. PICK top, F : /\ top = [seen |-> {root}, frontier |-> {root}]
                    /\ F = [v \in LevelState |-> LowerLevel(v)]
  OBVIOUS
<1>2. top \in LevelState /\ F \in [LevelState -> LevelState] /\ \A v \in LevelState : F[v] = LowerLevel(v)
  BY <1>1, LowerLevelIs DEF LevelState
<1>3. PICK g \in [0..N -> LevelState] : g[0] = top /\ \A n \in 1..N : g[n] = F[g[n - 1]]
  <2>1. CanIterate(LevelState, top, F)
    BY <1>2 DEF CanIterate
  <2>2. PICK g : IsTable(g, LevelState, top, F, N)
    BY <2>1, IterationExists
  <2>3. QED
    BY <2>2 DEF IsTable
<1>4. \A n \in 1..N : g[n] = LowerLevel(g[n - 1])
  <2> SUFFICES ASSUME NEW n \in 1..N PROVE g[n] = LowerLevel(g[n - 1])
    OBVIOUS
  <2>1. n - 1 \in 0..N
    OBVIOUS
  <2>2. g[n - 1] \in LevelState /\ g[n] = F[g[n - 1]]
    BY <1>3, <2>1
  <2>3. QED
    BY <1>2, <2>2
<1>5. IsLevels(g, root)
  <2>1. g = [n \in 0..N |-> g[n]]
    OBVIOUS
  <2>2. \A n \in 0..N : g[n] = IF n = 0 THEN top ELSE LowerLevel(g[n - 1])
    BY <1>3, <1>4
  <2>3. QED
    BY <1>1, <2>1, <2>2 DEF IsLevels
<1>6. Levels(root) = CHOOSE f : IsLevels(f, root)
  BY DEF Levels, IsLevels, LowerLevel
<1>7. PICK f : f = Levels(root) /\ IsLevels(f, root)
  BY <1>5, <1>6
<1>8. /\ f = [n \in 0..N |-> f[n]] /\ f[0] = top
      /\ \A n \in 1..N : f[n] = LowerLevel(f[n - 1])
  <2>1. f = [n \in 0..N |-> IF n = 0 THEN top ELSE LowerLevel(f[n - 1])]
    BY <1>1, <1>7 DEF IsLevels
  <2>2. 0 \in 0..N /\ \A n \in 1..N : n \in 0..N /\ n # 0
    OBVIOUS
  <2>3. f = [n \in 0..N |-> f[n]]
    BY <2>1
  <2>4. f[0] = top
    BY <2>1, <2>2
  <2>5. \A n \in 1..N : f[n] = LowerLevel(f[n - 1])
    BY <2>1, <2>2
  <2>6. QED
    BY <2>3, <2>4, <2>5
<1> DEFINE G == {n \in 0..N : f[n] \in LevelState}
<1>9. 0 \in G /\ \A n \in 1..N : n - 1 \in G => n \in G
  <2>1. 0 \in G
    BY <1>2, <1>8
  <2>2. ASSUME NEW n \in 1..N, f[n - 1] \in LevelState PROVE f[n] \in LevelState
    <3>1. PICK w \in LevelState : w = f[n - 1]
      BY <2>2
    <3>2. LowerLevel(w) \in LevelState /\ f[n] = LowerLevel(f[n - 1])
      BY <1>8, LowerLevelIs
    <3>3. QED
      BY <3>1, <3>2
  <2>3. QED
    BY <2>1, <2>2
<1>10. G \in SUBSET (0..N)
  OBVIOUS
<1>11. G = 0..N
  <2> HIDE DEF G
  <2>1. QED
    BY <1>9, <1>10, BoundedInduction
<1>12. f \in [0..N -> LevelState]
  BY <1>8, <1>11
<1>13. QED
  BY <1>1, <1>7, <1>8, <1>12

\* The walk down finds all that is below a machine, whatever the graph.
LEMMA WalkFindsAll == edge \in Seq(Edge) => DescendantsAreAll
<1> SUFFICES ASSUME edge \in Seq(Edge), NEW root \in Assets
             PROVE  Descendants(root) = Below(root) \ {root}
  BY DEF DescendantsAreAll
<1>1. PICK N \in Nat : N = Cardinality(Assets)
  BY AssetAssumption, FS_CardinalityType DEF AssetAssumption
<1>2. PICK f : f = Levels(root)
  OBVIOUS
<1>3. /\ f \in [0..N -> LevelState] /\ f[0].seen = {root} /\ f[0].frontier = {root}
      /\ \A n \in 1..N : f[n] = LowerLevel(f[n - 1])
  <2>1. /\ f \in [0..N -> LevelState] /\ f[0] = [seen |-> {root}, frontier |-> {root}]
        /\ \A n \in 1..N : f[n] = LowerLevel(f[n - 1])
    BY <1>1, <1>2, LevelsStep
  <2>2. QED
    BY <2>1
<1>4. \A n \in 0..N : f[n] \in LevelState /\ f[n].seen \in SUBSET Assets
  BY <1>3 DEF LevelState
<1>5. ASSUME NEW n \in 1..N
      PROVE  /\ \A y : y \in f[n].frontier <=> y \notin f[n - 1].seen /\ \E x \in f[n - 1].frontier : y \in Modules(x)
             /\ f[n].seen = f[n - 1].seen \cup f[n].frontier
  <2>1. f[n - 1] \in LevelState /\ f[n] = LowerLevel(f[n - 1])
    BY <1>3, <1>4
  <2>2. QED
    BY <2>1, LowerLevelIs
<1>6. PICK U : U = [n \in 0..N |-> f[n].seen]
  OBVIOUS
<1>7. U \in [0..N -> SUBSET Assets] /\ U[0] # {} /\ \A n \in 0..N : U[n] = f[n].seen
  <2>1. \A n \in 0..N : U[n] = f[n].seen /\ U[n] \in SUBSET Assets
    BY <1>4, <1>6
  <2>2. U = [n \in 0..N |-> U[n]]
    BY <1>6
  <2>3. U \in [0..N -> SUBSET Assets]
    BY <2>1, <2>2
  <2>4. 0 \in 0..N
    OBVIOUS
  <2>5. QED
    BY <1>3, <2>1, <2>3, <2>4
<1>8. \A n \in 1..N : n \in 0..N /\ n - 1 \in 0..N
  OBVIOUS
<1>9. \A n \in 1..N : U[n - 1] \subseteq U[n]
  BY <1>5, <1>7, <1>8
<1>10. ASSUME NEW n \in 1..N, U[n] = U[n - 1] PROVE f[n].frontier = {}
  BY <1>5, <1>7, <1>8, <1>10
<1>11. ASSUME NEW n \in 1..(N - 1), U[n] = U[n - 1] PROVE U[n + 1] = U[n]
  <2>1. n \in 1..N /\ n + 1 \in 1..N /\ (n + 1) - 1 = n /\ n \in 0..N /\ n + 1 \in 0..N
    OBVIOUS
  <2>2. f[n].frontier = {}
    BY <1>10, <1>11, <2>1
  <2>3. f[n + 1].frontier = {} /\ f[n + 1].seen = f[n].seen \cup f[n + 1].frontier
    BY <1>5, <2>1, <2>2
  <2>4. QED
    BY <1>7, <2>1, <2>3
<1>12. N # 0 /\ U[N] = U[N - 1]
  <2>1. IsFiniteSet(Assets)
    BY AssetAssumption DEF AssetAssumption
  <2>2. IsChain(U, Assets, N)
    BY <1>1, <1>7, <1>9, <1>11, <2>1 DEF IsChain
  <2>3. QED
    BY <2>2, ChainStops
<1>13. N \in 1..N /\ N \in 0..N /\ 0 \in 0..N
  BY <1>12
<1>14. f[N].frontier = {}
  BY <1>10, <1>12, <1>13
<1> DEFINE Right(n) ==
      /\ root \in f[n].seen /\ f[n].frontier \subseteq f[n].seen
      /\ \A x \in f[n].seen \ f[n].frontier : Modules(x) \subseteq f[n].seen
      /\ \A s \in SUBSET Assets : Closed(s) /\ Modules(root) \subseteq s => f[n].seen \subseteq s \cup {root}
<1>15. Right(0)
  BY <1>3
<1>16. ASSUME NEW n \in 1..N, Right(n - 1) PROVE Right(n)
  <2>1. root \in f[n].seen /\ f[n].frontier \subseteq f[n].seen
    BY <1>5, <1>16
  <2>2. ASSUME NEW x \in f[n].seen \ f[n].frontier PROVE Modules(x) \subseteq f[n].seen
    BY <1>5, <1>16, <2>2
  <2>3. ASSUME NEW s \in SUBSET Assets, Closed(s), Modules(root) \subseteq s
        PROVE  f[n].seen \subseteq s \cup {root}
    <3>1. f[n - 1].seen \subseteq s \cup {root}
      BY <1>16, <2>3
    <3>2. \A x \in s : Modules(x) \subseteq s
      BY <2>3 DEF Closed
    <3>3. \A y \in f[n].frontier : y \in s
      BY <1>5, <1>16, <2>3, <3>1, <3>2
    <3>4. QED
      BY <1>5, <3>1, <3>3
  <2>4. QED
    BY <2>1, <2>2, <2>3
<1> HIDE DEF Right
<1> DEFINE G == {n \in 0..N : Right(n)}
<1>17. 0 \in G /\ \A n \in 1..N : n - 1 \in G => n \in G
  BY <1>8, <1>13, <1>15, <1>16
<1>18. G \in SUBSET (0..N)
  OBVIOUS
<1>19. G = 0..N
  <2> HIDE DEF G
  <2>1. QED
    BY <1>17, <1>18, BoundedInduction
<1>20. Right(N)
  BY <1>13, <1>19
<1>21. PICK s \in SUBSET Assets : s = f[N].seen
  BY <1>4, <1>13
<1>22. Closed(s) /\ Modules(root) \subseteq s /\ root \in s
  BY <1>14, <1>20, <1>21 DEF Right, Closed
<1>23. Descendants(root) = s \ {root}
  BY <1>1, <1>2, <1>21 DEF Descendants
<1>24. \A t \in SUBSET Assets : Closed(t) /\ Modules(root) \subseteq t => s \subseteq t \cup {root}
  BY <1>20, <1>21 DEF Right
<1>25. Below(root) \subseteq s
  BY <1>22 DEF Below
<1>26. s \ {root} \subseteq Below(root)
  BY <1>24 DEF Below
<1>27. QED
  BY <1>23, <1>25, <1>26

-----------------------------------------------------------------------------
(***************************************************************************)
(* What an operation on an asset has read and nobody has written since.    *)
(* Links and unlinks mark each other as late, and so do forms and lists of *)
(* owners; what a late one writes is on record in "mixed".                 *)
(***************************************************************************)
MasterIsRight ==
  /\ saved \in [Assets -> [form : Versions, list : OwnerLists \cup {<<>>}]]
  /\ \A a \in Assets : ~asset[a].there => asset[a].parent = NoAsset /\ saved[a].form = 1
  /\ \A n \in DOMAIN edge : asset[edge[n].to].there

\* An asset that an operation writes is there, and an unlink knows its edge.
EditsAreAbout ==
  \A e \in Edits :
    /\ edit[e].pc \in {"link", "unlink", "flags"} => asset[edit[e].to].there
    /\ edit[e].pc = "unlink" =>
         /\ edit[e].edge \in DOMAIN edge /\ edge[edit[e].edge].from = edit[e].from
         /\ edge[edit[e].edge].to = edit[e].to /\ edge[edit[e].edge].type = edit[e].type
    /\ IF edit[e].pc = "owners" THEN \A a \in edit[e].about : asset[a].there ELSE edit[e].about = {}

OwnersAreRead ==
  \A e \in Edits : edit[e].pc = "owners" /\ ~edit[e].late =>
    \A a \in edit[e].about : edit[e].read[a] = owner[a]

\* The partial unique index.
EdgesAreUnique ==
  \A m, n \in LiveEdges("contains_module") : edge[m].from = edge[n].from /\ edge[m].to = edge[n].to => m = n

\* Above "from" there is a set of machines that has all their containers, and not "to".
NotAbove(to, from) ==
  \E s \in SUBSET Assets : from \in s /\ to \notin s /\ \A a \in s : Containers(a) \subseteq s

GraphIsRead(k) ==
  /\ k.seen.parent = asset[k.to].parent
  /\ k.pc = "link" => Containers(k.to) \subseteq {k.from} /\ NotAbove(k.to, k.from)
  /\ k.pc = "unlink" => edge[k.edge].live

GraphsAreRead ==
  "graph" \notin mixed => \A e \in OnGraph : ~edit[e].late => GraphIsRead(edit[e])

AssetInv ==
  /\ AssetTypeOK /\ MasterIsRight /\ EditsAreAbout /\ OwnersAreRead /\ EdgesAreUnique /\ GraphsAreRead
  /\ TreeWithCache /\ FormsAreWhole

LEMMA NoEditIsEdit ==
  /\ NoEdit \in Edit /\ NoEdit.pc = "idle" /\ NoEdit.about = {} /\ ~NoEdit.late
  /\ NoRow \in Asset /\ NewAsset \in Asset /\ NewAsset.there /\ ~NoRow.there
  /\ NoRow.parent = NoAsset /\ NewAsset.parent = NoAsset /\ NoRow.form = 1 /\ NewAsset.form = 1
<1>1. (CHOOSE a \in Assets : TRUE) \in Assets
  BY AssetAssumption DEF AssetAssumption
<1>2. /\ NoRow \in Asset /\ NewAsset \in Asset /\ NewAsset.there /\ ~NoRow.there
      /\ NoRow.parent = NoAsset /\ NewAsset.parent = NoAsset /\ NoRow.form = 1 /\ NewAsset.form = 1
  BY DEF NoRow, NewAsset, Asset, Versions
<1>3. [a \in Assets |-> Nobody] \in [Assets -> Owners]
  BY DEF Nobody, Owners
<1>4. NoEdit \in Edit /\ NoEdit.pc = "idle" /\ NoEdit.about = {} /\ ~NoEdit.late
  BY <1>1, <1>2, <1>3 DEF NoEdit, Edit, Types
<1>5. QED
  BY <1>2, <1>4

\* Positions are those of the list, for any list that is typed.
LEMMA PositionsAreOwners ==
  ASSUME NEW list \in OwnerLists \cup {<<>>}
  PROVE  Positions(list) \in Owners
<1>1. <<>> \in Seq(Persons)
  OBVIOUS
<1>2. list \in Seq(Persons)
  BY <1>1, AssetAssumption DEF AssetAssumption
<1>3. ASSUME NEW p \in Persons, p \in Range(list)
      PROVE  (CHOOSE n \in DOMAIN list : list[n] = p) \in Nat
  <2>1. \E n \in DOMAIN list : list[n] = p
    BY <1>3 DEF Range
  <2>2. (CHOOSE n \in DOMAIN list : list[n] = p) \in DOMAIN list
    BY <2>1
  <2>3. DOMAIN list \subseteq Nat
    BY <1>2
  <2>4. QED
    BY <2>2, <2>3
<1>4. QED
  BY <1>3 DEF Positions, Owners

LEMMA AssetStart == AssetInit => AssetInv
<1> SUFFICES ASSUME AssetInit PROVE AssetInv
  OBVIOUS
<1>1. /\ asset = [a \in Assets |-> IF a \in FirstAssets THEN NewAsset ELSE NoRow]
      /\ edge = <<>> /\ owner = [a \in Assets |-> Nobody]
      /\ externalId = [x \in ExternalIds |-> NoAsset]
      /\ edit = [e \in Edits |-> NoEdit]
      /\ saved = [a \in Assets |-> [form |-> 1, list |-> <<>>]] /\ mixed = {}
  BY DEF AssetInit
<1>2. <<>> \in Seq(Edge) /\ DOMAIN <<>> = {} /\ edge \in Seq(Edge) /\ DOMAIN edge = {}
  BY <1>1
<1>3. \A t : LiveEdges(t) = {}
  BY <1>2 DEF LiveEdges
<1>4. \A a : Modules(a) = {} /\ Containers(a) = {}
  BY <1>3, EdgesBothWays
<1>5. asset \in [Assets -> Asset] /\ \A a \in Assets : asset[a].parent = NoAsset /\ asset[a].form = 1
  BY <1>1, NoEditIsEdit
<1>6. AssetTypeOK
  BY <1>1, <1>2, <1>5, NoEditIsEdit DEF AssetTypeOK, Nobody, Owners
<1>7. MasterIsRight
  <2>1. [form |-> 1, list |-> <<>>] \in [form : Versions, list : OwnerLists \cup {<<>>}]
    BY DEF Versions
  <2>2. QED
    BY <1>1, <1>2, <1>5, <2>1 DEF MasterIsRight
<1>8. EditsAreAbout /\ OwnersAreRead
  BY <1>1, NoEditIsEdit DEF EditsAreAbout, OwnersAreRead
<1>9. EdgesAreUnique /\ GraphsAreRead
  BY <1>1, <1>3, NoEditIsEdit DEF EdgesAreUnique, GraphsAreRead, OnGraph
<1>10. TreeWithCache
  <2>1. {} \in SUBSET Assets /\ Closed({}) /\ \A a : Modules(a) \subseteq {}
    BY <1>4 DEF Closed
  <2>2. \A a \in Assets : a \notin Below(a)
    BY <2>1 DEF Below
  <2>3. QED
    BY <1>4, <1>5, <2>2 DEF TreeWithCache
<1>11. FormsAreWhole
  <2>1. Positions(<<>>) = Nobody
    <3>1. Range(<<>>) = {}
      BY DEF Range
    <3>2. QED
      BY <3>1 DEF Positions, Nobody
  <2>2. QED
    BY <1>1, <1>5, <2>1 DEF FormsAreWhole
<1>12. QED
  BY <1>6, <1>7, <1>8, <1>9, <1>10, <1>11 DEF AssetInv

\* While the edges of the tree are the same, so is all that is said of it.
SameTree ==
  /\ LiveEdges("contains_module")' = LiveEdges("contains_module")
  /\ \A n \in LiveEdges("contains_module") : edge'[n] = edge[n]

LEMMA TreeStays ==
  ASSUME SameTree
  PROVE  /\ \A a : Modules(a)' = Modules(a) /\ Containers(a)' = Containers(a) /\ Below(a)' = Below(a)
         /\ \A to, from : NotAbove(to, from)' <=> NotAbove(to, from)
         /\ EdgesAreUnique' <=> EdgesAreUnique
<1>1. \A a : Modules(a)' = Modules(a) /\ Containers(a)' = Containers(a)
  BY DEF SameTree, Modules, Containers
<1>2. \A s : Closed(s)' <=> Closed(s)
  BY <1>1 DEF Closed
<1>3. \A a : Below(a)' = Below(a)
  BY <1>1, <1>2 DEF Below
<1>4. \A to, from : NotAbove(to, from)' <=> NotAbove(to, from)
  BY <1>1 DEF NotAbove
<1>5. EdgesAreUnique' <=> EdgesAreUnique
  BY DEF SameTree, EdgesAreUnique
<1>6. QED
  BY <1>1, <1>3, <1>4, <1>5

\* An operation begins with what it has read, or ends without writing.
LEMMA EditTakesPlace ==
  ASSUME AssetInv, NEW e \in Edits, NEW w \in Edit, edit' = [edit EXCEPT ![e] = w],
         w.pc \in {"link", "unlink", "flags"} => asset[w.to].there,
         w.pc = "unlink" => /\ w.edge \in DOMAIN edge /\ edge[w.edge].from = w.from
                            /\ edge[w.edge].to = w.to /\ edge[w.edge].type = w.type,
         IF w.pc = "owners" THEN \A a \in w.about : asset[a].there /\ w.read[a] = owner[a] ELSE w.about = {},
         "graph" \notin mixed /\ w.pc \in {"link", "unlink"} /\ w.type = "contains_module" => GraphIsRead(w),
         UNCHANGED <<asset, edge, owner, externalId, saved, mixed>>
  PROVE  AssetInv'
<1>1. /\ AssetTypeOK /\ MasterIsRight /\ EditsAreAbout /\ OwnersAreRead /\ EdgesAreUnique /\ GraphsAreRead
      /\ TreeWithCache /\ FormsAreWhole /\ edit \in [Edits -> Edit]
  BY DEF AssetInv, AssetTypeOK
<1>2. /\ edit' \in [Edits -> Edit] /\ edit'[e] = w /\ \A o \in Edits \ {e} : edit'[o] = edit[o]
  BY <1>1
<1>3. AssetTypeOK'
  BY <1>1, <1>2 DEF AssetTypeOK
<1>4. SameTree
  BY DEF SameTree, LiveEdges
<1>9. MasterIsRight' /\ FormsAreWhole'
  BY <1>1 DEF MasterIsRight, FormsAreWhole
<1>10. TreeWithCache' /\ EdgesAreUnique'
  BY <1>1, <1>4, TreeStays DEF TreeWithCache
<1>5. EditsAreAbout'
  BY <1>1, <1>2 DEF EditsAreAbout
<1>6. OwnersAreRead'
  BY <1>1, <1>2 DEF OwnersAreRead
<1>7. GraphsAreRead'
  <2>1. ASSUME "graph" \notin mixed, NEW o \in Edits, edit'[o].pc \in {"link", "unlink"},
               edit'[o].type = "contains_module", ~edit'[o].late
        PROVE  GraphIsRead(edit'[o])
    BY <1>1, <1>2, <2>1 DEF GraphsAreRead, OnGraph
  <2>2. ASSUME NEW o \in Edits PROVE (GraphIsRead(edit[o]))' <=> GraphIsRead(edit'[o])
    BY <1>4, TreeStays DEF GraphIsRead
  <2>3. \A o \in Edits : "graph" \notin mixed /\ edit'[o].pc \in {"link", "unlink"} /\ edit'[o].type = "contains_module"
                            /\ ~edit'[o].late => (GraphIsRead(edit[o]))'
    BY <2>1, <2>2
  <2>4. \A o \in OnGraph' : o \in Edits /\ edit'[o].pc \in {"link", "unlink"} /\ edit'[o].type = "contains_module"
    BY DEF OnGraph
  <2>5. QED
    BY <2>3, <2>4 DEF GraphsAreRead
<1>8. QED
  BY <1>3, <1>5, <1>6, <1>7, <1>9, <1>10 DEF AssetInv

(***************************************************************************)
(* What a step does to the operations under way: one ends, and others are  *)
(* marked late at most.                                                    *)
(***************************************************************************)
SameEdit(k, w) ==
  /\ w.pc = k.pc /\ w.from = k.from /\ w.to = k.to /\ w.type = k.type /\ w.edge = k.edge
  /\ w.seen = k.seen /\ w.about = k.about /\ w.read = k.read /\ (k.late => w.late)

EditsGoOn ==
  /\ edit' \in [Edits -> Edit]
  /\ \A o \in Edits : edit'[o] = NoEdit \/ SameEdit(edit[o], edit'[o])

LEMMA EditEnds ==
  ASSUME edit \in [Edits -> Edit], NEW e \in Edits, edit' = [edit EXCEPT ![e] = NoEdit]
  PROVE  EditsGoOn
<1>1. edit' \in [Edits -> Edit] /\ edit'[e] = NoEdit /\ \A o \in Edits \ {e} : edit'[o] = edit[o]
  BY NoEditIsEdit
<1>2. \A k : SameEdit(k, k)
  BY DEF SameEdit
<1>3. QED
  BY <1>1, <1>2 DEF EditsGoOn

LEMMA OthersAreLate ==
  ASSUME edit \in [Edits -> Edit], NEW e \in Edits, NEW others, edit' = OvertakeEdits(e, others)
  PROVE  /\ EditsGoOn /\ edit'[e] = NoEdit
         /\ \A o \in others \cap Edits : o # e => edit'[o].late
<1>1. ASSUME NEW o \in Edits, o # e
      PROVE  edit'[o] \in Edit /\ SameEdit(edit[o], edit'[o]) /\ (o \in others => edit'[o].late)
  <2>1. PICK k \in Edit : k = edit[o]
    OBVIOUS
  <2>2. PICK w : w = [k EXCEPT !.late = @ \/ o \in others]
    OBVIOUS
  <2>3. edit'[o] = w
    BY <1>1, <2>1, <2>2 DEF OvertakeEdits
  <2>4. w \in Edit
    BY <2>1, <2>2 DEF Edit
  <2>5. /\ w.pc = k.pc /\ w.from = k.from /\ w.to = k.to /\ w.type = k.type /\ w.edge = k.edge
        /\ w.seen = k.seen /\ w.about = k.about /\ w.read = k.read
    BY <2>1, <2>2 DEF Edit
  <2>6. w.late <=> (k.late \/ o \in others)
    BY <2>1, <2>2 DEF Edit
  <2>7. QED
    BY <2>1, <2>3, <2>4, <2>5, <2>6 DEF SameEdit
<1>2. edit'[e] = NoEdit /\ NoEdit \in Edit
  BY NoEditIsEdit DEF OvertakeEdits
<1>3. edit' = [o \in Edits |-> edit'[o]]
  BY DEF OvertakeEdits
<1>4. \A o \in Edits : edit'[o] \in Edit
  BY <1>1, <1>2
<1>5. edit' \in [Edits -> Edit]
  BY <1>3, <1>4
<1>6. QED
  BY <1>1, <1>2, <1>5 DEF EditsGoOn

\* Edges keep what they join, and an asset that is there stays.
EdgesStay ==
  \A n \in DOMAIN edge : /\ n \in DOMAIN edge' /\ edge'[n].from = edge[n].from
                         /\ edge'[n].to = edge[n].to /\ edge'[n].type = edge[n].type
AssetsStay == \A a \in Assets : asset[a].there => asset'[a].there

LEMMA EditsStayAbout ==
  ASSUME AssetTypeOK, EditsAreAbout, EditsGoOn, EdgesStay, AssetsStay
  PROVE  EditsAreAbout'
<1>1. ASSUME NEW o \in Edits
      PROVE  /\ edit'[o].pc \in {"link", "unlink", "flags"} => asset'[edit'[o].to].there
             /\ edit'[o].pc = "unlink" =>
                  /\ edit'[o].edge \in DOMAIN edge' /\ edge'[edit'[o].edge].from = edit'[o].from
                  /\ edge'[edit'[o].edge].to = edit'[o].to /\ edge'[edit'[o].edge].type = edit'[o].type
             /\ IF edit'[o].pc = "owners" THEN \A a \in edit'[o].about : asset'[a].there
                ELSE edit'[o].about = {}
  <2>1. CASE edit'[o] = NoEdit
    BY <2>1, NoEditIsEdit
  <2>2. CASE SameEdit(edit[o], edit'[o])
    <3>1. edit[o].to \in Assets /\ edit[o].about \subseteq Assets
      BY DEF AssetTypeOK, Edit
    <3>2. /\ edit[o].pc \in {"link", "unlink", "flags"} => asset[edit[o].to].there
          /\ edit[o].pc = "unlink" =>
               /\ edit[o].edge \in DOMAIN edge /\ edge[edit[o].edge].from = edit[o].from
               /\ edge[edit[o].edge].to = edit[o].to /\ edge[edit[o].edge].type = edit[o].type
          /\ IF edit[o].pc = "owners" THEN \A a \in edit[o].about : asset[a].there
             ELSE edit[o].about = {}
      BY DEF EditsAreAbout
    <3>3. /\ edit'[o].pc = edit[o].pc /\ edit'[o].from = edit[o].from /\ edit'[o].to = edit[o].to
          /\ edit'[o].type = edit[o].type /\ edit'[o].edge = edit[o].edge /\ edit'[o].about = edit[o].about
      BY <2>2 DEF SameEdit
    <3>4. edit[o].pc \in {"link", "unlink", "flags"} => asset'[edit[o].to].there
      BY <3>1, <3>2 DEF AssetsStay
    <3>5. edit[o].pc = "unlink" =>
               /\ edit[o].edge \in DOMAIN edge' /\ edge'[edit[o].edge].from = edit[o].from
               /\ edge'[edit[o].edge].to = edit[o].to /\ edge'[edit[o].edge].type = edit[o].type
      BY <3>2 DEF EdgesStay
    <3>6. IF edit[o].pc = "owners" THEN \A a \in edit[o].about : asset'[a].there ELSE edit[o].about = {}
      BY <3>1, <3>2 DEF AssetsStay
    <3>7. QED
      BY <3>3, <3>4, <3>5, <3>6
  <2>3. QED
    BY <2>1, <2>2 DEF EditsGoOn
<1>2. QED
  BY <1>1 DEF EditsAreAbout

\* The owners that an operation has read are as they were, unless it is late.
LEMMA OwnersStayRead ==
  ASSUME OwnersAreRead, EditsGoOn,
         \A o \in Edits : edit'[o].pc = "owners" /\ ~edit'[o].late =>
           \A a \in edit'[o].about : owner'[a] = owner[a]
  PROVE  OwnersAreRead'
<1>1. ASSUME NEW o \in Edits, edit'[o].pc = "owners", ~edit'[o].late, NEW a \in edit'[o].about
      PROVE  edit'[o].read[a] = owner'[a]
  <2>1. SameEdit(edit[o], edit'[o])
    BY <1>1, NoEditIsEdit DEF EditsGoOn
  <2>2. edit[o].pc = "owners" /\ ~edit[o].late /\ a \in edit[o].about /\ edit'[o].read = edit[o].read
    BY <1>1, <2>1 DEF SameEdit
  <2>3. edit[o].read[a] = owner[a]
    BY <2>2 DEF OwnersAreRead
  <2>4. owner'[a] = owner[a]
    BY <1>1
  <2>5. QED
    BY <2>2, <2>3, <2>4
<1>2. QED
  BY <1>1 DEF OwnersAreRead

\* A step that leaves the tree and the cached parents alone.
LEMMA TreeIsKept ==
  ASSUME AssetInv, EditsGoOn, SameTree, EdgesStay, mixed \subseteq mixed',
         \A a \in Assets : asset'[a].parent = asset[a].parent
  PROVE  EdgesAreUnique' /\ GraphsAreRead' /\ TreeWithCache'
<1>1. EdgesAreUnique /\ GraphsAreRead /\ TreeWithCache /\ EditsAreAbout /\ AssetTypeOK
  BY DEF AssetInv
<1>2. TreeWithCache'
  BY <1>1, TreeStays DEF TreeWithCache
<1>3. ASSUME "graph" \notin mixed', NEW o \in Edits, edit'[o].pc \in {"link", "unlink"},
             edit'[o].type = "contains_module", ~edit'[o].late
      PROVE  GraphIsRead(edit[o])'
  <2>1. SameEdit(edit[o], edit'[o])
    BY <1>3, NoEditIsEdit DEF EditsGoOn
  <2>2. PICK k \in Edit : k = edit[o]
    BY <1>1 DEF AssetTypeOK
  <2>3. /\ edit'[o].pc = k.pc /\ edit'[o].from = k.from /\ edit'[o].to = k.to /\ edit'[o].edge = k.edge
        /\ edit'[o].seen = k.seen /\ edit'[o].type = k.type /\ ~k.late
    BY <1>3, <2>1, <2>2 DEF SameEdit
  <2>4. GraphIsRead(k)
    BY <1>1, <1>3, <2>2, <2>3 DEF GraphsAreRead, OnGraph
  <2>5. asset'[k.to].parent = asset[k.to].parent
    BY <2>2 DEF Edit
  <2>6. k.pc = "unlink" => edge'[k.edge].live
    <3>1. SUFFICES ASSUME k.pc = "unlink" PROVE edge'[k.edge].live
      OBVIOUS
    <3>2. k.edge \in DOMAIN edge /\ edge[k.edge].type = "contains_module" /\ edge[k.edge].live
      BY <1>1, <1>3, <2>2, <2>3, <2>4, <3>1 DEF EditsAreAbout, GraphIsRead
    <3>3. k.edge \in LiveEdges("contains_module")
      BY <3>2 DEF LiveEdges
    <3>4. edge'[k.edge] = edge[k.edge]
      BY <3>3 DEF SameTree
    <3>5. QED
      BY <3>2, <3>4
  <2>7. Containers(k.to)' = Containers(k.to) /\ (NotAbove(k.to, k.from)' <=> NotAbove(k.to, k.from))
    <3>1. PICK to, from : to = k.to /\ from = k.from
      OBVIOUS
    <3>2. Containers(to)' = Containers(to) /\ (NotAbove(to, from)' <=> NotAbove(to, from))
      BY TreeStays
    <3>3. QED
      BY <3>1, <3>2 DEF Containers, NotAbove
  <2>8. QED
    BY <2>3, <2>4, <2>5, <2>6, <2>7 DEF GraphIsRead
<1>4. \A o \in OnGraph' : o \in Edits /\ edit'[o].pc \in {"link", "unlink"} /\ edit'[o].type = "contains_module"
  BY DEF OnGraph
<1>5. GraphsAreRead'
  BY <1>3, <1>4 DEF GraphsAreRead
<1>6. QED
  BY <1>1, <1>2, <1>5, TreeStays

\* Every machine above one is in a set that the module to be linked is not in.
LEMMA LinkReadsTheGraph ==
  ASSUME AssetInv, NEW from \in Assets, NEW to \in Assets, "graph" \notin mixed,
         ContainerOf(to) \in {NoAsset, from}, ~WouldCreateCycle(from, to)
  PROVE  Containers(to) \subseteq {from} /\ NotAbove(to, from)
<1>1. edge \in Seq(Edge) /\ \A a \in Assets : Containers(a) = {asset[a].parent} \ {NoAsset}
  BY DEF AssetInv, AssetTypeOK, TreeWithCache
<1>2. \A a \in Assets : Containers(a) \subseteq {ContainerOf(a)}
  BY <1>1, EdgesAreOfAssets
<1>3. Containers(to) \subseteq {from}
  <2>1. CASE ContainerOf(to) = from
    BY <1>2, <2>1
  <2>2. CASE ContainerOf(to) = NoAsset
    BY <1>1, <2>2, EdgesAreOfAssets
  <2>3. QED
    BY <2>1, <2>2
<1>4. PICK s \in SUBSET Assets : s = AncestorsOf(from)
  BY DEF AncestorsOf
<1>5. from \in s /\ to \notin s /\ \A a \in s : ContainerOf(a) \in s \cup {NoAsset}
  BY <1>1, <1>4, AncestorsAreClosed
<1>6. ASSUME NEW a \in s PROVE Containers(a) \subseteq s
  <2>1. CASE ContainerOf(a) = NoAsset
    <3>1. Containers(a) = {}
      BY <1>1, <2>1, EdgesAreOfAssets
    <3>2. QED
      BY <3>1
  <2>2. CASE ContainerOf(a) \in s
    BY <1>2, <2>2
  <2>3. QED
    BY <1>5, <2>1, <2>2
<1>7. NotAbove(to, from)
  BY <1>5, <1>6 DEF NotAbove
<1>8. QED
  BY <1>3, <1>7

LEMMA LinkBegins ==
  ASSUME AssetInv, NEW e \in Edits, NEW from \in Assets, NEW to \in Assets, NEW type \in Types,
         Link(e, from, to, type)
  PROVE  AssetInv'
<1>1. asset[to].there /\ UNCHANGED <<asset, edge, owner, externalId, saved, mixed>>
      /\ (type = "contains_module" => ContainerOf(to) \in {NoAsset, from} /\ ~WouldCreateCycle(from, to))
  BY DEF Link
<1>2. PICK w : w = [NoEdit EXCEPT !.pc = "link", !.from = from, !.to = to, !.type = type, !.seen = asset[to]]
  OBVIOUS
<1>3. edit' = [edit EXCEPT ![e] = w]
  BY <1>2 DEF Link
<1>4. asset[to] \in Asset
  BY DEF AssetInv, AssetTypeOK
<1>5. w \in Edit /\ w.pc = "link" /\ w.from = from /\ w.to = to /\ w.type = type /\ w.seen = asset[to]
      /\ w.about = {}
  BY <1>2, <1>4, NoEditIsEdit DEF Edit
<1>6. "graph" \notin mixed /\ w.type = "contains_module" => GraphIsRead(w)
  <2>1. SUFFICES ASSUME "graph" \notin mixed, type = "contains_module" PROVE GraphIsRead(w)
    BY <1>5
  <2>2. Containers(to) \subseteq {from} /\ NotAbove(to, from)
    BY <1>1, <2>1, LinkReadsTheGraph
  <2>3. QED
    BY <1>5, <2>2 DEF GraphIsRead
<1>7. QED
  BY <1>1, <1>3, <1>5, <1>6, EditTakesPlace

LEMMA UnlinkBegins ==
  ASSUME AssetInv, NEW e \in Edits, NEW n \in DOMAIN edge, Unlink(e, n)
  PROVE  AssetInv'
<1>1. edge[n].live /\ UNCHANGED <<asset, edge, owner, externalId, saved, mixed>>
  BY DEF Unlink
<1>2. AssetTypeOK /\ MasterIsRight
  BY DEF AssetInv
<1>3. edge \in Seq(Edge) /\ n \in Nat
  BY <1>2 DEF AssetTypeOK
<1>4. PICK from \in Assets, to \in Assets, type \in Types :
        from = edge[n].from /\ to = edge[n].to /\ type = edge[n].type
  BY <1>3, EdgesAreOfAssets DEF Edge
<1>5. asset[to] \in Asset /\ asset[to].there
  BY <1>2, <1>4 DEF AssetTypeOK, MasterIsRight
<1>6. PICK w : w = [NoEdit EXCEPT !.pc = "unlink", !.edge = n, !.from = from, !.to = to, !.type = type,
                                  !.seen = asset[to]]
  OBVIOUS
<1>7. edit' = [edit EXCEPT ![e] = w]
  BY <1>4, <1>6 DEF Unlink
<1>8. w \in Edit /\ w.pc = "unlink" /\ w.edge = n /\ w.from = from /\ w.to = to /\ w.type = type
      /\ w.seen = asset[to] /\ w.about = {}
  BY <1>3, <1>5, <1>6, NoEditIsEdit DEF Edit
<1>9. GraphIsRead(w)
  BY <1>1, <1>8 DEF GraphIsRead
<1>10. QED
  BY <1>1, <1>4, <1>5, <1>7, <1>8, <1>9, EditTakesPlace

LEMMA FlagsAreRead ==
  ASSUME AssetInv, NEW e \in Edits, NEW a \in Assets, ReadFlags(e, a)
  PROVE  AssetInv'
<1>1. asset[a].there /\ UNCHANGED <<asset, edge, owner, externalId, saved, mixed>>
  BY DEF ReadFlags
<1>2. PICK w : w = [NoEdit EXCEPT !.pc = "flags", !.to = a, !.seen = asset[a]]
  OBVIOUS
<1>3. edit' = [edit EXCEPT ![e] = w]
  BY <1>2 DEF ReadFlags
<1>4. asset[a] \in Asset
  BY DEF AssetInv, AssetTypeOK
<1>5. w \in Edit /\ w.pc = "flags" /\ w.to = a /\ w.about = {}
  BY <1>2, <1>4, NoEditIsEdit DEF Edit
<1>6. QED
  BY <1>1, <1>3, <1>5, EditTakesPlace

LEMMA OwnersAreEdited ==
  ASSUME AssetInv, NEW e \in Edits, NEW about \in SUBSET Assets, NEW form \in Versions \cup {0},
         NEW list \in OwnerLists, \A a \in about : asset[a].there, EditOwners(e, about, form, list)
  PROVE  AssetInv'
<1>1. UNCHANGED <<asset, edge, owner, externalId, saved, mixed>>
  BY DEF EditOwners
<1>2. PICK read : read = [a \in Assets |-> IF a \in about THEN owner[a] ELSE Nobody]
  OBVIOUS
<1>3. read \in [Assets -> Owners] /\ \A a \in about : read[a] = owner[a]
  <2>1. owner \in [Assets -> Owners]
    BY DEF AssetInv, AssetTypeOK
  <2>2. Nobody \in Owners
    BY DEF Nobody, Owners
  <2>3. QED
    BY <1>2, <2>1, <2>2
<1>4. PICK w : w = [NoEdit EXCEPT !.pc = "owners", !.about = about, !.form = form, !.list = list, !.read = read]
  OBVIOUS
<1>5. edit' = [edit EXCEPT ![e] = w]
  BY <1>2, <1>4 DEF EditOwners
<1>6. w \in Edit /\ w.pc = "owners" /\ w.about = about /\ w.read = read
  BY <1>3, <1>4, NoEditIsEdit DEF Edit
<1>7. QED
  BY <1>1, <1>3, <1>5, <1>6, EditTakesPlace

\* An operation that is refused ends without a trace.
LEMMA EditIsDropped ==
  ASSUME AssetInv, NEW e \in Edits, edit' = [edit EXCEPT ![e] = NoEdit],
         UNCHANGED <<asset, edge, owner, externalId, saved, mixed>>
  PROVE  AssetInv'
BY NoEditIsEdit, EditTakesPlace

(***************************************************************************)
(* The INSERT of an edge, and the end of one.                              *)
(***************************************************************************)
\* A set that has the modules of all in it keeps apart what is below from what is not.
LEMMA NotBelowItself ==
  ASSUME NEW a \in Assets
  PROVE  a \notin Below(a) <=>
           \E s \in SUBSET Assets : Closed(s) /\ Modules(a) \subseteq s /\ a \notin s
BY DEF Below

\* The tree has no cycle after an edge from a machine to a module that is not above it.
LEMMA EdgeClosesNoCycle ==
  ASSUME edge \in Seq(Edge), NEW from \in Assets, NEW to \in Assets, NotAbove(to, from),
         \A a \in Assets : a \notin Below(a),
         \A a : Modules(a)' = IF a = from THEN Modules(a) \cup {to} ELSE Modules(a)
  PROVE  \A a \in Assets : (a \notin Below(a))'
<1>1. PICK u \in SUBSET Assets : from \in u /\ to \notin u /\ \A a \in u : Containers(a) \subseteq u
  BY DEF NotAbove
<1>2. PICK d \in SUBSET Assets : d = Assets \ u
  OBVIOUS
<1>3. \A a \in d : Modules(a) \subseteq d
  <2>1. SUFFICES ASSUME NEW a \in d, NEW b \in Modules(a) PROVE b \in d
    OBVIOUS
  <2>2. b \in Assets /\ a \in Containers(b)
    BY <2>1, EdgesBothWays, EdgesAreOfAssets
  <2>3. QED
    BY <1>1, <1>2, <2>1, <2>2
<1>4. ASSUME NEW a \in Assets
      PROVE  \E s \in SUBSET Assets : Closed(s)' /\ Modules(a)' \subseteq s /\ a \notin s
  <2>1. PICK s \in SUBSET Assets : Closed(s) /\ Modules(a) \subseteq s /\ a \notin s
    BY <1>4, NotBelowItself
  <2>2. \A b \in s : Modules(b) \subseteq s
    BY <2>1 DEF Closed
  <2>3. CASE a \in d
    <3>1. PICK t \in SUBSET Assets : t = s \cap d
      OBVIOUS
    <3>2. \A b \in t : Modules(b)' \subseteq t
      BY <1>1, <1>2, <1>3, <2>2, <3>1
    <3>3. Modules(a)' \subseteq t /\ a \notin t
      BY <1>1, <1>2, <1>3, <2>1, <2>3, <3>1
    <3>4. Closed(t)'
      BY <3>2 DEF Closed
    <3>5. QED
      BY <3>3, <3>4
  <2>4. CASE a \notin d
    <3>1. PICK t \in SUBSET Assets : t = s \cup d
      OBVIOUS
    <3>2. \A b \in t : Modules(b)' \subseteq t
      BY <1>1, <1>2, <1>3, <2>2, <3>1
    <3>3. Modules(a)' \subseteq t /\ a \notin t
      BY <1>1, <1>2, <2>1, <2>4, <3>1
    <3>4. Closed(t)'
      BY <3>2 DEF Closed
    <3>5. QED
      BY <3>3, <3>4
  <2>5. QED
    BY <2>3, <2>4
<1>5. QED
  BY <1>4 DEF Below

\* Nor after an edge has ended.
LEMMA FewerEdgesNoCycle ==
  ASSUME \A a \in Assets : a \notin Below(a), \A a : Modules(a)' \subseteq Modules(a)
  PROVE  \A a \in Assets : (a \notin Below(a))'
<1>1. ASSUME NEW a \in Assets
      PROVE  \E s \in SUBSET Assets : Closed(s)' /\ Modules(a)' \subseteq s /\ a \notin s
  <2>1. PICK s \in SUBSET Assets : Closed(s) /\ Modules(a) \subseteq s /\ a \notin s
    BY <1>1, NotBelowItself
  <2>2. Closed(s)'
    BY <2>1 DEF Closed
  <2>3. QED
    BY <2>1, <2>2
<1>2. QED
  BY <1>1 DEF Below

\* The edge that is new is the last.
LEMMA EdgeIsAppended ==
  ASSUME edge \in Seq(Edge), NEW k \in Edge, k.live, edge' = Append(edge, k)
  PROVE  /\ edge' \in Seq(Edge) /\ EdgesStay
         /\ \A n \in DOMAIN edge : edge'[n] = edge[n]
         /\ DOMAIN edge' = DOMAIN edge \cup {Len(edge) + 1} /\ edge'[Len(edge) + 1] = k
         /\ \A t : LiveEdges(t)' = IF t = k.type THEN LiveEdges(t) \cup {Len(edge) + 1} ELSE LiveEdges(t)
<1>1. edge' \in Seq(Edge) /\ \A n \in DOMAIN edge : n \in DOMAIN edge' /\ edge'[n] = edge[n]
  OBVIOUS
<1>2. DOMAIN edge' = DOMAIN edge \cup {Len(edge) + 1} /\ edge'[Len(edge) + 1] = k
  OBVIOUS
<1>3. EdgesStay
  BY <1>1 DEF EdgesStay
<1>4. \A t : LiveEdges(t)' = IF t = k.type THEN LiveEdges(t) \cup {Len(edge) + 1} ELSE LiveEdges(t)
  BY <1>1, <1>2 DEF LiveEdges
<1>5. QED
  BY <1>1, <1>2, <1>3, <1>4

\* A write of the tree leaves no link or unlink that is not late.
LEMMA GraphEditsAreLate ==
  ASSUME AssetTypeOK, NEW e \in Edits, edit' = OvertakeEdits(e, OnGraph)
  PROVE  GraphsAreRead'
<1>1. edit \in [Edits -> Edit]
  BY DEF AssetTypeOK
<1>2. /\ EditsGoOn /\ edit'[e] = NoEdit
      /\ \A o \in OnGraph \cap Edits : o # e => edit'[o].late
  <2>1. PICK others : others = OnGraph
    OBVIOUS
  <2>2. edit' = OvertakeEdits(e, others)
    BY <2>1
  <2>3. QED
    BY <1>1, <2>1, <2>2, OthersAreLate
<1>3. ASSUME NEW o \in Edits, edit'[o].pc \in {"link", "unlink"}, edit'[o].type = "contains_module"
      PROVE  edit'[o].late
  <2>1. o # e /\ SameEdit(edit[o], edit'[o])
    BY <1>2, <1>3, NoEditIsEdit DEF EditsGoOn
  <2>2. o \in OnGraph
    BY <1>3, <2>1 DEF SameEdit, OnGraph
  <2>3. QED
    BY <1>2, <2>1, <2>2
<1>4. \A o \in OnGraph' : o \in Edits /\ edit'[o].pc \in {"link", "unlink"} /\ edit'[o].type = "contains_module"
  BY DEF OnGraph
<1>5. QED
  BY <1>3, <1>4 DEF GraphsAreRead

LEMMA OwnersUntouched ==
  ASSUME AssetInv, EditsGoOn, UNCHANGED owner
  PROVE  OwnersAreRead'
<1>1. OwnersAreRead
  BY DEF AssetInv
<1>2. QED
  BY <1>1, OwnersStayRead

\* The row of the module, with another cached parent.
LEMMA ParentIsWritten ==
  ASSUME AssetInv, NEW a \in Assets, asset[a].there, NEW p \in Assets \cup {NoAsset},
         asset' = [asset EXCEPT ![a].parent = p], UNCHANGED saved
  PROVE  /\ asset' \in [Assets -> Asset] /\ asset'[a].parent = p
         /\ \A b \in Assets : /\ b # a => asset'[b] = asset[b]
                              /\ asset'[b].there = asset[b].there /\ asset'[b].form = asset[b].form
         /\ \A b \in Assets : ~asset'[b].there => asset'[b].parent = NoAsset /\ saved'[b].form = 1
<1>1. asset \in [Assets -> Asset] /\ \A b \in Assets : ~asset[b].there => asset[b].parent = NoAsset /\ saved[b].form = 1
  BY DEF AssetInv, AssetTypeOK, MasterIsRight
<1>2. PICK row \in Asset : row = asset[a]
  BY <1>1
<1>3. PICK new : new = [row EXCEPT !.parent = p]
  OBVIOUS
<1>4. new \in Asset /\ new.parent = p /\ new.there = row.there /\ new.form = row.form
  BY <1>2, <1>3 DEF Asset
<1>5. asset' = [asset EXCEPT ![a] = new]
  BY <1>1, <1>2, <1>3
<1>6. asset'[a] = new /\ \A b \in Assets : b # a => asset'[b] = asset[b]
  BY <1>1, <1>5
<1>7. asset' \in [Assets -> Asset]
  BY <1>1, <1>4, <1>5
<1>8. \A b \in Assets : asset'[b].there = asset[b].there /\ asset'[b].form = asset[b].form
  BY <1>2, <1>4, <1>6
<1>9. \A b \in Assets : ~asset'[b].there => asset'[b].parent = NoAsset /\ saved'[b].form = 1
  BY <1>1, <1>2, <1>4, <1>6
<1>10. QED
  BY <1>4, <1>6, <1>7, <1>8, <1>9

LEMMA FormsStayWhole ==
  ASSUME AssetInv, mixed \subseteq mixed', UNCHANGED <<owner, saved>>,
         \A a \in Assets : asset'[a].form = asset[a].form
  PROVE  FormsAreWhole'
<1>1. FormsAreWhole
  BY DEF AssetInv
<1>2. QED
  BY <1>1 DEF FormsAreWhole

LEMMA LinkIsWritten ==
  ASSUME AssetInv, NEW e \in Edits, CommitLink(e)
  PROVE  AssetInv'
<1>1. /\ AssetTypeOK /\ MasterIsRight /\ EditsAreAbout /\ OwnersAreRead /\ EdgesAreUnique /\ GraphsAreRead
      /\ TreeWithCache /\ FormsAreWhole
  BY DEF AssetInv
<1>2. edit \in [Edits -> Edit] /\ edge \in Seq(Edge) /\ asset \in [Assets -> Asset]
  BY <1>1 DEF AssetTypeOK
<1>3. PICK k \in Edit : k = edit[e]
  BY <1>2
<1>4. k.pc = "link" /\ UNCHANGED <<owner, externalId, saved>>
  BY <1>3 DEF CommitLink
<1>5. PICK from \in Assets, to \in Assets, type \in Types : from = k.from /\ to = k.to /\ type = k.type
  BY DEF Edit
<1>6. asset[to].there
  BY <1>1, <1>3, <1>4, <1>5 DEF EditsAreAbout
<1>7. CASE ActiveEdges(from, to, type) # {}
  <2>1. edit' = [edit EXCEPT ![e] = NoEdit] /\ UNCHANGED <<asset, edge, mixed>>
    BY <1>3, <1>5, <1>7 DEF CommitLink
  <2>2. QED
    BY <1>4, <2>1, EditIsDropped
<1>8. CASE ActiveEdges(from, to, type) = {}
  <2>1. PICK row : row = [from |-> from, to |-> to, type |-> type, live |-> TRUE]
    OBVIOUS
  <2>2. row \in Edge /\ row.from = from /\ row.to = to /\ row.type = type /\ row.live
    BY <2>1 DEF Edge
  <2>3. edge' = Append(edge, row)
    BY <1>3, <1>5, <1>8, <2>1 DEF CommitLink
  <2>4. PICK last \in Nat : last = Len(edge) + 1
    BY <1>2
  <2>5. /\ edge' \in Seq(Edge) /\ EdgesStay /\ \A n \in DOMAIN edge : edge'[n] = edge[n]
        /\ DOMAIN edge' = DOMAIN edge \cup {last} /\ edge'[last] = row /\ last \notin DOMAIN edge
        /\ \A t : LiveEdges(t)' = IF t = type THEN LiveEdges(t) \cup {last} ELSE LiveEdges(t)
    BY <1>2, <2>2, <2>3, <2>4, EdgeIsAppended
  <2>6. \A t : LiveEdges(t) \subseteq DOMAIN edge
    BY DEF LiveEdges
  <2>7. CASE type # "contains_module"
    <3>1. asset' = asset /\ edit' = [edit EXCEPT ![e] = NoEdit] /\ mixed' = mixed
      BY <1>3, <1>5, <1>8, <2>7 DEF CommitLink
    <3>2. EditsGoOn
      BY <1>2, <3>1, EditEnds
    <3>3. SameTree
      BY <2>5, <2>6, <2>7 DEF SameTree
    <3>4. EdgesAreUnique' /\ GraphsAreRead' /\ TreeWithCache'
      BY <2>5, <3>1, <3>2, <3>3, TreeIsKept
    <3>5. AssetTypeOK'
      BY <1>1, <1>4, <2>5, <3>1, <3>2 DEF AssetTypeOK, EditsGoOn
    <3>6. MasterIsRight'
      BY <1>1, <1>4, <1>6, <2>2, <2>5, <3>1 DEF MasterIsRight
    <3>7. AssetsStay
      BY <3>1 DEF AssetsStay
    <3>8. EditsAreAbout' /\ OwnersAreRead'
      BY <1>1, <1>4, <2>5, <3>2, <3>7, EditsStayAbout, OwnersUntouched
    <3>9. FormsAreWhole'
      BY <1>4, <3>1, FormsStayWhole
    <3>10. QED
      BY <3>4, <3>5, <3>6, <3>8, <3>9 DEF AssetInv
  <2>8. CASE type = "contains_module"
    <3>1. PICK p : p = Written(from, k.seen.parent, asset[to].parent)
      OBVIOUS
    <3>2. p \in Assets \cup {NoAsset}
      BY <1>2, <3>1 DEF Written, Asset
    <3>3. /\ asset' = [asset EXCEPT ![to].parent = p]
          /\ edit' = OvertakeEdits(e, OnGraph)
          /\ mixed' = IF k.late THEN mixed \cup {"graph"} ELSE mixed
      BY <1>2, <1>3, <1>5, <1>8, <2>8, <3>1 DEF CommitLink
    <3>4. GraphsAreRead'
      BY <1>1, <3>3, GraphEditsAreLate
    <3>5. EditsGoOn
      <4>1. PICK others : others = OnGraph
        OBVIOUS
      <4>2. QED
        BY <1>2, <3>3, <4>1, OthersAreLate
    <3>6. /\ asset' \in [Assets -> Asset] /\ asset'[to].parent = p
          /\ \A b \in Assets : /\ b # to => asset'[b] = asset[b]
                               /\ asset'[b].there = asset[b].there /\ asset'[b].form = asset[b].form
          /\ \A b \in Assets : ~asset'[b].there => asset'[b].parent = NoAsset /\ saved'[b].form = 1
      BY <1>4, <1>6, <3>2, <3>3, ParentIsWritten
    <3>7. AssetTypeOK'
      BY <1>1, <1>4, <2>5, <3>5, <3>6 DEF AssetTypeOK, EditsGoOn
    <3>8. MasterIsRight'
      <4>1. \A n \in DOMAIN edge' : asset'[edge'[n].to].there
        <5>1. SUFFICES ASSUME NEW n \in DOMAIN edge' PROVE asset'[edge'[n].to].there
          OBVIOUS
        <5>2. CASE n = last
          BY <1>6, <2>2, <2>5, <3>6, <5>2
        <5>3. CASE n \in DOMAIN edge
          <6>1. edge'[n] = edge[n] /\ asset[edge[n].to].there /\ edge[n].to \in Assets
            BY <1>1, <1>2, <2>5, <5>3, EdgesAreOfAssets DEF MasterIsRight, Edge
          <6>2. QED
            BY <3>6, <6>1
        <5>4. QED
          BY <2>5, <5>1, <5>2, <5>3
      <4>2. QED
        BY <1>1, <1>4, <3>6, <4>1 DEF MasterIsRight
    <3>9. AssetsStay
      BY <3>6 DEF AssetsStay
    <3>10. EditsAreAbout' /\ OwnersAreRead'
      BY <1>1, <1>4, <2>5, <3>5, <3>9, EditsStayAbout, OwnersUntouched
    <3>11. FormsAreWhole'
      BY <1>4, <3>3, <3>6, FormsStayWhole
    <3>12. EdgesAreUnique'
      <4>1. SUFFICES ASSUME NEW m \in LiveEdges("contains_module")', NEW n \in LiveEdges("contains_module")',
                            edge'[m].from = edge'[n].from, edge'[m].to = edge'[n].to
                     PROVE  m = n
        BY DEF EdgesAreUnique
      <4>2. \A i \in LiveEdges("contains_module") : edge'[i] = edge[i] /\ ~(edge[i].from = from /\ edge[i].to = to)
        BY <1>8, <2>5, <2>6, <2>8 DEF ActiveEdges
      <4>3. CASE m = last \/ n = last
        BY <2>2, <2>5, <2>8, <4>1, <4>2, <4>3
      <4>4. CASE m # last /\ n # last
        BY <1>1, <2>5, <2>8, <4>1, <4>2, <4>4 DEF EdgesAreUnique
      <4>5. QED
        BY <4>3, <4>4
    <3>13. TreeWithCache'
      <4>1. SUFFICES ASSUME "graph" \notin mixed'
                     PROVE  /\ \A a \in Assets : (a \notin Below(a))'
                            /\ \A a \in Assets : Containers(a)' = {asset'[a].parent} \ {NoAsset}
        BY DEF TreeWithCache
      <4>2. ~k.late /\ "graph" \notin mixed
        BY <3>3, <4>1
      <4>3. GraphIsRead(k)
        BY <1>1, <1>3, <1>4, <1>5, <2>8, <4>2 DEF GraphsAreRead, OnGraph
      <4>4. k.seen.parent = asset[to].parent /\ Containers(to) \subseteq {from} /\ NotAbove(to, from)
        BY <1>4, <1>5, <4>3 DEF GraphIsRead
      <4>5. /\ \A a \in Assets : a \notin Below(a)
            /\ \A a \in Assets : Containers(a) = {asset[a].parent} \ {NoAsset}
        BY <1>1, <4>2 DEF TreeWithCache
      <4>6. from \notin Containers(to)
        BY <1>8, <2>8 DEF Containers, ActiveEdges
      <4>7. Containers(to) = {} /\ asset[to].parent = NoAsset /\ NoAsset \notin Assets
        BY <4>4, <4>5, <4>6, AssetAssumption DEF AssetAssumption
      <4>8. p = from
        BY <3>1, <4>4, <4>7 DEF Written
      <4>9. \A n \in LiveEdges("contains_module") : edge'[n] = edge[n]
        BY <2>5, <2>6
      <4>10. \A a : Modules(a)' = IF a = from THEN Modules(a) \cup {to} ELSE Modules(a)
        BY <2>2, <2>5, <2>8, <4>9 DEF Modules
      <4>11. \A a : Containers(a)' = IF a = to THEN Containers(a) \cup {from} ELSE Containers(a)
        BY <2>2, <2>5, <2>8, <4>9 DEF Containers
      <4>12. \A a \in Assets : (a \notin Below(a))'
        BY <1>2, <4>4, <4>5, <4>10, EdgeClosesNoCycle
      <4>13. \A a \in Assets : Containers(a)' = {asset'[a].parent} \ {NoAsset}
        BY <3>6, <4>5, <4>7, <4>8, <4>11
      <4>14. QED
        BY <4>12, <4>13
    <3>14. QED
      BY <3>4, <3>7, <3>8, <3>10, <3>11, <3>12, <3>13 DEF AssetInv
  <2>9. QED
    BY <2>7, <2>8
<1>9. QED
  BY <1>7, <1>8

\* The edge that ends stays in the table.
LEMMA EdgeEnds ==
  ASSUME edge \in Seq(Edge), NEW i \in DOMAIN edge, edge' = [edge EXCEPT ![i].live = FALSE]
  PROVE  /\ edge' \in Seq(Edge) /\ EdgesStay /\ DOMAIN edge' = DOMAIN edge /\ ~edge'[i].live
         /\ \A n \in DOMAIN edge : n # i => edge'[n] = edge[n]
         /\ \A t : LiveEdges(t)' = LiveEdges(t) \ {i}
<1>1. PICK old \in Edge : old = edge[i]
  BY EdgesAreOfAssets
<1>2. PICK new : new = [old EXCEPT !.live = FALSE]
  OBVIOUS
<1>3. new \in Edge /\ ~new.live /\ new.from = old.from /\ new.to = old.to /\ new.type = old.type
  BY <1>1, <1>2 DEF Edge
<1>4. edge' = [edge EXCEPT ![i] = new]
  BY <1>1, <1>2
<1>5. edge' \in Seq(Edge) /\ DOMAIN edge' = DOMAIN edge
  <2>1. DOMAIN edge = 1..Len(edge) /\ i \in 1..Len(edge)
    OBVIOUS
  <2>2. [edge EXCEPT ![i] = new] \in Seq(Edge)
    BY <1>3, <2>1, ExceptSeq
  <2>3. QED
    BY <1>4, <2>2
<1>6. edge'[i] = new /\ \A n \in DOMAIN edge : n # i => edge'[n] = edge[n]
  BY <1>4
<1>7. EdgesStay
  BY <1>1, <1>3, <1>5, <1>6 DEF EdgesStay
<1>8. \A t : LiveEdges(t)' = LiveEdges(t) \ {i}
  BY <1>3, <1>5, <1>6 DEF LiveEdges
<1>9. QED
  BY <1>3, <1>5, <1>6, <1>7, <1>8

LEMMA UnlinkIsWritten ==
  ASSUME AssetInv, NEW e \in Edits, CommitUnlink(e)
  PROVE  AssetInv'
<1>1. /\ AssetTypeOK /\ MasterIsRight /\ EditsAreAbout /\ OwnersAreRead /\ EdgesAreUnique /\ GraphsAreRead
      /\ TreeWithCache /\ FormsAreWhole
  BY DEF AssetInv
<1>2. edit \in [Edits -> Edit] /\ edge \in Seq(Edge) /\ asset \in [Assets -> Asset]
  BY <1>1 DEF AssetTypeOK
<1>3. PICK k \in Edit : k = edit[e]
  BY <1>2
<1>4. k.pc = "unlink" /\ UNCHANGED <<owner, externalId, saved>>
  BY <1>3 DEF CommitUnlink
<1>5. PICK from \in Assets, to \in Assets, type \in Types : from = k.from /\ to = k.to /\ type = k.type
  BY DEF Edit
<1>6. PICK i \in DOMAIN edge : i = k.edge
  BY <1>1, <1>3, <1>4 DEF EditsAreAbout
<1>7. asset[to].there /\ edge[i].from = from /\ edge[i].to = to /\ edge[i].type = type
  BY <1>1, <1>3, <1>4, <1>5, <1>6 DEF EditsAreAbout
<1>8. edge' = [edge EXCEPT ![i].live = FALSE]
  BY <1>3, <1>6 DEF CommitUnlink
<1>9. /\ edge' \in Seq(Edge) /\ EdgesStay /\ DOMAIN edge' = DOMAIN edge /\ ~edge'[i].live
      /\ \A n \in DOMAIN edge : n # i => edge'[n] = edge[n]
      /\ \A t : LiveEdges(t)' = LiveEdges(t) \ {i}
  BY <1>2, <1>8, EdgeEnds
<1>10. \A t : LiveEdges(t) \subseteq DOMAIN edge
  BY DEF LiveEdges
<1>11. \A n \in DOMAIN edge : edge'[n].to = edge[n].to /\ edge[n].to \in Assets /\ asset[edge[n].to].there
  BY <1>1, <1>2, <1>9, EdgesAreOfAssets DEF EdgesStay, MasterIsRight, Edge
<1>12. CASE type # "contains_module"
  <2>1. /\ asset' = asset /\ edit' = [edit EXCEPT ![e] = NoEdit] /\ mixed' = mixed
    BY <1>3, <1>5, <1>12 DEF CommitUnlink
  <2>2. EditsGoOn
    BY <1>2, <2>1, EditEnds
  <2>3. i \notin LiveEdges("contains_module")
    BY <1>7, <1>12 DEF LiveEdges
  <2>4. SameTree
    BY <1>9, <1>10, <2>3 DEF SameTree
  <2>5. EdgesAreUnique' /\ GraphsAreRead' /\ TreeWithCache'
    BY <1>9, <2>1, <2>2, <2>4, TreeIsKept
  <2>6. AssetTypeOK'
    BY <1>1, <1>4, <1>9, <2>1, <2>2 DEF AssetTypeOK, EditsGoOn
  <2>7. MasterIsRight'
    BY <1>1, <1>4, <1>9, <1>11, <2>1 DEF MasterIsRight
  <2>8. AssetsStay
    BY <2>1 DEF AssetsStay
  <2>9. EditsAreAbout' /\ OwnersAreRead'
    BY <1>1, <1>4, <1>9, <2>2, <2>8, EditsStayAbout, OwnersUntouched
  <2>10. FormsAreWhole'
    BY <1>4, <2>1, FormsStayWhole
  <2>11. QED
    BY <2>5, <2>6, <2>7, <2>9, <2>10 DEF AssetInv
<1>13. CASE type = "contains_module"
  <2>1. PICK p : p = Written(ParentAfter(k), k.seen.parent, asset[to].parent)
    OBVIOUS
  <2>2. p \in Assets \cup {NoAsset}
    BY <1>2, <2>1 DEF Written, ParentAfter, Asset, Edit
  <2>3. /\ asset' = [asset EXCEPT ![to].parent = p]
        /\ edit' = OvertakeEdits(e, OnGraph)
        /\ mixed' = IF k.late THEN mixed \cup {"graph"} ELSE mixed
    BY <1>2, <1>3, <1>5, <1>13, <2>1 DEF CommitUnlink
  <2>4. GraphsAreRead'
    BY <1>1, <2>3, GraphEditsAreLate
  <2>5. EditsGoOn
    <3>1. PICK others : others = OnGraph
      OBVIOUS
    <3>2. QED
      BY <1>2, <2>3, <3>1, OthersAreLate
  <2>6. /\ asset' \in [Assets -> Asset] /\ asset'[to].parent = p
        /\ \A b \in Assets : /\ b # to => asset'[b] = asset[b]
                             /\ asset'[b].there = asset[b].there /\ asset'[b].form = asset[b].form
        /\ \A b \in Assets : ~asset'[b].there => asset'[b].parent = NoAsset /\ saved'[b].form = 1
    BY <1>4, <1>7, <2>2, <2>3, ParentIsWritten
  <2>7. AssetTypeOK'
    BY <1>1, <1>4, <1>9, <2>5, <2>6 DEF AssetTypeOK, EditsGoOn
  <2>8. MasterIsRight'
    BY <1>1, <1>4, <1>9, <1>11, <2>6 DEF MasterIsRight
  <2>9. AssetsStay
    BY <2>6 DEF AssetsStay
  <2>10. EditsAreAbout' /\ OwnersAreRead'
    BY <1>1, <1>4, <1>9, <2>5, <2>9, EditsStayAbout, OwnersUntouched
  <2>11. FormsAreWhole'
    BY <1>4, <2>3, <2>6, FormsStayWhole
  <2>12. \A n \in LiveEdges("contains_module")' : n \in LiveEdges("contains_module") /\ n # i /\ edge'[n] = edge[n]
    BY <1>9, <1>10
  <2>13. EdgesAreUnique'
    BY <1>1, <2>12 DEF EdgesAreUnique
  <2>14. TreeWithCache'
    <3>1. SUFFICES ASSUME "graph" \notin mixed'
                   PROVE  /\ \A a \in Assets : (a \notin Below(a))'
                          /\ \A a \in Assets : Containers(a)' = {asset'[a].parent} \ {NoAsset}
      BY DEF TreeWithCache
    <3>2. ~k.late /\ "graph" \notin mixed
      BY <2>3, <3>1
    <3>3. GraphIsRead(k)
      BY <1>1, <1>3, <1>4, <1>5, <1>13, <3>2 DEF GraphsAreRead, OnGraph
    <3>4. k.seen.parent = asset[to].parent /\ edge[i].live
      BY <1>4, <1>5, <1>6, <3>3 DEF GraphIsRead
    <3>5. /\ \A a \in Assets : a \notin Below(a)
          /\ \A a \in Assets : Containers(a) = {asset[a].parent} \ {NoAsset}
      BY <1>1, <3>2 DEF TreeWithCache
    <3>6. i \in LiveEdges("contains_module")
      BY <1>7, <1>13, <3>4 DEF LiveEdges
    <3>7. from \in Containers(to) /\ Containers(to) = {from} /\ asset[to].parent = from
      BY <1>7, <3>5, <3>6 DEF Containers
    <3>8. p = NoAsset
      BY <1>5, <2>1, <3>4, <3>7 DEF Written, ParentAfter
    <3>9. Containers(to)' = {}
      <4>1. SUFFICES ASSUME NEW n \in LiveEdges("contains_module")', edge'[n].to = to PROVE FALSE
        BY DEF Containers
      <4>2. n \in LiveEdges("contains_module") /\ n # i /\ edge[n].to = to
        BY <2>12, <4>1
      <4>3. edge[n].from = from
        BY <3>7, <4>2 DEF Containers
      <4>4. QED
        BY <1>1, <1>7, <3>6, <4>2, <4>3 DEF EdgesAreUnique
    <3>10. \A n \in LiveEdges("contains_module") : n # i => n \in LiveEdges("contains_module")' /\ edge'[n] = edge[n]
      BY <1>9, <1>10
    <3>11. \A a : a # to => Containers(a)' = Containers(a)
      BY <1>7, <2>12, <3>10 DEF Containers
    <3>12. \A a : Modules(a)' \subseteq Modules(a)
      BY <2>12 DEF Modules
    <3>13. \A a \in Assets : (a \notin Below(a))'
      BY <3>5, <3>12, FewerEdgesNoCycle
    <3>14. \A a \in Assets : Containers(a)' = {asset'[a].parent} \ {NoAsset}
      BY <2>6, <3>5, <3>8, <3>9, <3>11
    <3>15. QED
      BY <3>13, <3>14
  <2>15. QED
    BY <2>4, <2>7, <2>8, <2>10, <2>11, <2>13, <2>14 DEF AssetInv
<1>14. QED
  BY <1>12, <1>13

(***************************************************************************)
(* The owners of a page and its columns, and the flags of an asset.        *)
(***************************************************************************)
\* Positions by what was read are those of the list, when what was read is so.
LEMMA OwnersAreWritten ==
  ASSUME AssetInv, NEW e \in Edits, CommitOwners(e)
  PROVE  AssetInv'
<1>1. /\ AssetTypeOK /\ MasterIsRight /\ EditsAreAbout /\ OwnersAreRead /\ EdgesAreUnique /\ GraphsAreRead
      /\ TreeWithCache /\ FormsAreWhole
  BY DEF AssetInv
<1>2. edit \in [Edits -> Edit] /\ edge \in Seq(Edge) /\ asset \in [Assets -> Asset] /\ owner \in [Assets -> Owners]
  BY <1>1 DEF AssetTypeOK
<1>3. PICK k \in Edit : k = edit[e]
  BY <1>2
<1>4. k.pc = "owners" /\ UNCHANGED <<edge, externalId>>
  BY <1>3 DEF CommitOwners
<1>5. CASE Clashes(k)
  <2>1. edit' = [edit EXCEPT ![e] = NoEdit] /\ UNCHANGED <<asset, owner, saved, mixed>>
    BY <1>3, <1>5 DEF CommitOwners
  <2>2. QED
    BY <1>4, <2>1, EditIsDropped
<1>6. CASE ~Clashes(k)
  <2>1. PICK about \in SUBSET Assets, form \in Versions \cup {0}, list \in OwnerLists \cup {<<>>} :
          about = k.about /\ form = k.form /\ list = k.list
    BY DEF Edit
  <2>2. /\ owner' = [a \in Assets |-> IF a \in about
                       THEN [p \in Persons |-> NewPosition(k, a, p)] ELSE owner[a]]
        /\ asset' = [a \in Assets |-> IF a \in about /\ form # 0
                       THEN [asset[a] EXCEPT !.form = form] ELSE asset[a]]
        /\ edit' = OvertakeEdits(e, OnOwners(about))
        /\ saved' = [a \in Assets |-> IF a \in about
                       THEN [form |-> IF form = 0 THEN saved[a].form ELSE form, list |-> list]
                       ELSE saved[a]]
        /\ mixed' = IF k.late THEN mixed \cup about ELSE mixed
    BY <1>3, <1>6, <2>1 DEF CommitOwners
  <2>3. EditsGoOn /\ edit'[e] = NoEdit /\ \A o \in OnOwners(about) \cap Edits : o # e => edit'[o].late
    <3>1. PICK others : others = OnOwners(about)
      OBVIOUS
    <3>2. QED
      BY <1>2, <2>2, <3>1, OthersAreLate
  <2>4. PICK new \in Owners : new = Positions(list)
    BY PositionsAreOwners
  <2>5. ASSUME NEW a \in Assets, a \in about
        PROVE  owner'[a] \in Owners /\ (~k.late => owner'[a] = new)
    <3>1. owner'[a] = [p \in Persons |-> NewPosition(k, a, p)]
      BY <2>2, <2>5
    <3>2. PICK old \in Owners : old = owner[a]
      BY <1>2
    <3>3. \A p \in Persons : NewPosition(k, a, p) = IF new[p] = k.read[a][p] THEN old[p] ELSE new[p]
      BY <2>1, <2>4, <3>2 DEF NewPosition
    <3>4. owner'[a] \in Owners
      BY <3>1, <3>2, <3>3 DEF Owners
    <3>5. ASSUME ~k.late PROVE owner'[a] = new
      <4>1. k.read[a] = old
        BY <1>1, <1>3, <1>4, <2>1, <2>5, <3>2, <3>5 DEF OwnersAreRead
      <4>2. \A p \in Persons : NewPosition(k, a, p) = new[p]
        BY <3>3, <4>1
      <4>3. QED
        BY <3>1, <4>2 DEF Owners
    <3>6. QED
      BY <3>4, <3>5
  <2>6. \A a \in Assets : a \notin about => owner'[a] = owner[a] /\ saved'[a] = saved[a] /\ asset'[a] = asset[a]
    BY <2>2
  <2>7. owner' \in [Assets -> Owners]
    <3>1. \A a \in Assets : owner'[a] \in Owners
      BY <1>2, <2>5, <2>6
    <3>2. owner' = [a \in Assets |-> owner'[a]]
      BY <2>2
    <3>3. QED
      BY <3>1, <3>2
  <2>8. ASSUME NEW a \in Assets
        PROVE  /\ asset'[a] \in Asset /\ asset'[a].there = asset[a].there /\ asset'[a].parent = asset[a].parent
               /\ asset'[a].form = IF a \in about /\ form # 0 THEN form ELSE asset[a].form
    <3>1. PICK row \in Asset : row = asset[a]
      BY <1>2
    <3>2. CASE a \in about /\ form # 0
      <4>1. PICK w : w = [row EXCEPT !.form = form]
        OBVIOUS
      <4>2. form \in Versions
        BY <3>2
      <4>3. w \in Asset /\ w.there = row.there /\ w.parent = row.parent /\ w.form = form
        BY <4>1, <4>2 DEF Asset
      <4>4. asset'[a] = w
        BY <2>2, <3>1, <3>2, <4>1
      <4>5. QED
        BY <3>1, <3>2, <4>3, <4>4
    <3>3. CASE ~(a \in about /\ form # 0)
      BY <2>2, <3>1, <3>3
    <3>4. QED
      BY <3>2, <3>3
  <2>9. asset' \in [Assets -> Asset]
    <3>1. asset' = [a \in Assets |-> asset'[a]]
      BY <2>2
    <3>2. QED
      BY <2>8, <3>1
  <2>10. AssetTypeOK'
    BY <1>1, <1>4, <2>3, <2>7, <2>9 DEF AssetTypeOK, EditsGoOn
  <2>11. saved \in [Assets -> [form : Versions, list : OwnerLists \cup {<<>>}]]
    BY <1>1 DEF MasterIsRight
  <2>12. ASSUME NEW a \in Assets, a \in about
         PROVE  /\ saved'[a] \in [form : Versions, list : OwnerLists \cup {<<>>}] /\ saved'[a].list = list
                /\ saved'[a].form = IF form = 0 THEN saved[a].form ELSE form
    <3>1. saved'[a] = [form |-> IF form = 0 THEN saved[a].form ELSE form, list |-> list]
      BY <2>2, <2>12
    <3>2. saved[a].form \in Versions
      BY <2>11
    <3>3. QED
      BY <2>1, <3>1, <3>2
  <2>13. MasterIsRight'
    <3>1. \A a \in Assets : saved'[a] \in [form : Versions, list : OwnerLists \cup {<<>>}]
      BY <2>6, <2>11, <2>12
    <3>2. saved' = [a \in Assets |-> saved'[a]]
      BY <2>2
    <3>3. saved' \in [Assets -> [form : Versions, list : OwnerLists \cup {<<>>}]]
      BY <3>1, <3>2
    <3>4. \A a \in about : asset[a].there
      BY <1>1, <1>3, <1>4, <2>1 DEF EditsAreAbout
    <3>5. \A a \in Assets : ~asset'[a].there => asset'[a].parent = NoAsset /\ saved'[a].form = 1
      BY <1>1, <2>6, <2>8, <3>4 DEF MasterIsRight
    <3>6. \A n \in DOMAIN edge' : asset'[edge'[n].to].there
      <4>1. \A n \in DOMAIN edge : edge[n].to \in Assets /\ asset[edge[n].to].there
        BY <1>1, <1>2, EdgesAreOfAssets DEF MasterIsRight, Edge
      <4>2. QED
        BY <1>4, <2>8, <4>1
    <3>7. QED
      BY <3>3, <3>5, <3>6 DEF MasterIsRight
  <2>14. EdgesStay /\ AssetsStay /\ SameTree /\ mixed \subseteq mixed'
    BY <1>4, <2>2, <2>8 DEF EdgesStay, AssetsStay, SameTree, LiveEdges
  <2>15. EditsAreAbout'
    BY <1>1, <2>3, <2>14, EditsStayAbout
  <2>16. EdgesAreUnique' /\ GraphsAreRead' /\ TreeWithCache'
    BY <2>3, <2>8, <2>14, TreeIsKept
  <2>17. OwnersAreRead'
    <3>1. ASSUME NEW o \in Edits, edit'[o].pc = "owners", ~edit'[o].late, NEW a \in edit'[o].about
          PROVE  owner'[a] = owner[a]
      <4>1. o # e /\ SameEdit(edit[o], edit'[o])
        BY <2>3, <3>1, NoEditIsEdit DEF EditsGoOn
      <4>2. o \notin OnOwners(about)
        BY <2>3, <3>1, <4>1
      <4>3. a \in edit[o].about /\ edit[o].about \subseteq Assets
        BY <1>2, <3>1, <4>1 DEF SameEdit, Edit
      <4>4. a \notin about
        BY <4>2, <4>3 DEF OnOwners
      <4>5. QED
        BY <2>6, <4>3, <4>4
    <3>2. QED
      BY <1>1, <2>3, <3>1, OwnersStayRead
  <2>18. FormsAreWhole'
    <3>1. SUFFICES ASSUME NEW a \in Assets, a \notin mixed'
                   PROVE  asset'[a].form = saved'[a].form /\ owner'[a] = Positions(saved'[a].list)
      BY DEF FormsAreWhole
    <3>2. asset[a].form = saved[a].form /\ owner[a] = Positions(saved[a].list)
      BY <1>1, <2>14, <3>1 DEF FormsAreWhole
    <3>3. CASE a \in about
      <4>1. ~k.late
        BY <2>2, <3>1, <3>3
      <4>2. owner'[a] = Positions(saved'[a].list)
        BY <2>4, <2>5, <2>12, <3>3, <4>1
      <4>3. asset'[a].form = saved'[a].form
        BY <2>8, <2>12, <3>2, <3>3
      <4>4. QED
        BY <4>2, <4>3
    <3>4. CASE a \notin about
      BY <2>6, <3>2, <3>4
    <3>5. QED
      BY <3>3, <3>4
  <2>19. QED
    BY <2>10, <2>13, <2>15, <2>16, <2>17, <2>18 DEF AssetInv
<1>7. QED
  BY <1>5, <1>6

LEMMA EditsStay ==
  ASSUME edit \in [Edits -> Edit], UNCHANGED edit
  PROVE  EditsGoOn
<1>1. \A k : SameEdit(k, k)
  BY DEF SameEdit
<1>2. QED
  BY <1>1 DEF EditsGoOn

LEMMA FlagsAreWritten ==
  ASSUME AssetInv, NEW e \in Edits, WriteFlags(e)
  PROVE  AssetInv'
<1>1. /\ AssetTypeOK /\ MasterIsRight /\ EditsAreAbout /\ OwnersAreRead /\ FormsAreWhole
  BY DEF AssetInv
<1>2. edit \in [Edits -> Edit] /\ edge \in Seq(Edge) /\ asset \in [Assets -> Asset]
  BY <1>1 DEF AssetTypeOK
<1>3. PICK k \in Edit, to \in Assets : k = edit[e] /\ to = k.to
  BY <1>2 DEF Edit
<1>4. PICK row \in Asset, loaded \in Asset : row = asset[to] /\ loaded = k.seen
  BY <1>2 DEF Edit
<1>5. PICK new \in Asset : /\ asset' = [asset EXCEPT ![to] = new]
                           /\ new.there = row.there /\ new.parent = row.parent /\ new.form = row.form
  <2>1. \/ asset' = [asset EXCEPT ![to] = [row EXCEPT !.isActive = ~loaded.isActive]]
        \/ asset' = [asset EXCEPT ![to] = [row EXCEPT !.available = ~loaded.available]]
    BY <1>3, <1>4 DEF WriteFlags, RowAsStored
  <2>2. PICK yes \in BOOLEAN, free \in BOOLEAN : yes = ~loaded.isActive /\ free = ~loaded.available
    OBVIOUS
  <2>3. CASE asset' = [asset EXCEPT ![to] = [row EXCEPT !.isActive = ~loaded.isActive]]
    <3>1. PICK w : w = [row EXCEPT !.isActive = yes]
      OBVIOUS
    <3>2. w \in Asset /\ w.there = row.there /\ w.parent = row.parent /\ w.form = row.form
      BY <3>1 DEF Asset
    <3>3. QED
      BY <2>2, <2>3, <3>1, <3>2
  <2>4. CASE asset' = [asset EXCEPT ![to] = [row EXCEPT !.available = ~loaded.available]]
    <3>1. PICK w : w = [row EXCEPT !.available = free]
      OBVIOUS
    <3>2. w \in Asset /\ w.there = row.there /\ w.parent = row.parent /\ w.form = row.form
      BY <3>1 DEF Asset
    <3>3. QED
      BY <2>2, <2>4, <3>1, <3>2
  <2>5. QED
    BY <2>1, <2>3, <2>4
<1>6. edit' = [edit EXCEPT ![e] = NoEdit] /\ UNCHANGED <<edge, owner, externalId, saved, mixed>>
  BY <1>3 DEF WriteFlags
<1>7. EditsGoOn
  BY <1>2, <1>6, EditEnds
<1>8. /\ asset' \in [Assets -> Asset]
      /\ \A a \in Assets : /\ asset'[a].there = asset[a].there /\ asset'[a].parent = asset[a].parent
                           /\ asset'[a].form = asset[a].form
  BY <1>2, <1>4, <1>5
<1>9. AssetTypeOK'
  BY <1>1, <1>6, <1>7, <1>8 DEF AssetTypeOK, EditsGoOn
<1>10. MasterIsRight'
  <2>1. \A n \in DOMAIN edge : edge[n].to \in Assets /\ asset[edge[n].to].there
    BY <1>1, <1>2, EdgesAreOfAssets DEF MasterIsRight, Edge
  <2>2. QED
    BY <1>1, <1>6, <1>8, <2>1 DEF MasterIsRight
<1>11. EdgesStay /\ AssetsStay /\ SameTree
  BY <1>6, <1>8 DEF EdgesStay, AssetsStay, SameTree, LiveEdges
<1>12. EditsAreAbout' /\ OwnersAreRead'
  BY <1>1, <1>6, <1>7, <1>11, EditsStayAbout, OwnersUntouched
<1>13. EdgesAreUnique' /\ GraphsAreRead' /\ TreeWithCache'
  BY <1>6, <1>7, <1>8, <1>11, TreeIsKept
<1>14. FormsAreWhole'
  BY <1>6, <1>8, FormsStayWhole
<1>15. QED
  BY <1>9, <1>10, <1>12, <1>13, <1>14 DEF AssetInv

LEMMA AssetIsCreated ==
  ASSUME AssetInv, NEW a \in Assets, NEW list \in OwnerLists, CreateAsset(a, list)
  PROVE  AssetInv'
<1>1. /\ AssetTypeOK /\ MasterIsRight /\ EditsAreAbout /\ OwnersAreRead /\ FormsAreWhole
  BY DEF AssetInv
<1>2. /\ edit \in [Edits -> Edit] /\ edge \in Seq(Edge) /\ asset \in [Assets -> Asset]
      /\ owner \in [Assets -> Owners] /\ saved \in [Assets -> [form : Versions, list : OwnerLists \cup {<<>>}]]
  BY <1>1 DEF AssetTypeOK, MasterIsRight
<1>3. ~asset[a].there /\ asset[a].parent = NoAsset /\ saved[a].form = 1
  BY <1>1 DEF CreateAsset, MasterIsRight
<1>4. PICK new \in Owners : new = Positions(list)
  BY PositionsAreOwners
<1>5. /\ asset' = [asset EXCEPT ![a] = NewAsset] /\ owner' = [owner EXCEPT ![a] = new]
      /\ saved' = [saved EXCEPT ![a].list = list] /\ UNCHANGED <<edge, externalId, edit, mixed>>
  BY <1>4 DEF CreateAsset
<1>6. /\ asset' \in [Assets -> Asset] /\ asset'[a] = NewAsset
      /\ \A b \in Assets : b # a => asset'[b] = asset[b]
  BY <1>2, <1>5, NoEditIsEdit
<1>7. /\ owner' \in [Assets -> Owners] /\ owner'[a] = new
      /\ \A b \in Assets : b # a => owner'[b] = owner[b]
  BY <1>2, <1>5
<1>8. /\ saved' \in [Assets -> [form : Versions, list : OwnerLists \cup {<<>>}]]
      /\ saved'[a].form = 1 /\ saved'[a].list = list
      /\ \A b \in Assets : b # a => saved'[b] = saved[b]
  <2>1. PICK old \in [form : Versions, list : OwnerLists \cup {<<>>}] : old = saved[a]
    BY <1>2
  <2>2. PICK w : w = [old EXCEPT !.list = list]
    OBVIOUS
  <2>3. w \in [form : Versions, list : OwnerLists \cup {<<>>}] /\ w.form = old.form /\ w.list = list
    BY <2>2
  <2>4. saved' = [saved EXCEPT ![a] = w]
    BY <1>2, <1>5, <2>1, <2>2
  <2>5. QED
    BY <1>2, <1>3, <2>1, <2>3, <2>4
<1>9. EditsGoOn
  BY <1>2, <1>5, EditsStay
<1>10. AssetTypeOK'
  BY <1>1, <1>5, <1>6, <1>7 DEF AssetTypeOK
<1>11. \A b \in Assets : (asset[b].there => asset'[b].there) /\ asset'[b].parent = asset[b].parent
  BY <1>3, <1>6, NoEditIsEdit
<1>12. MasterIsRight'
  <2>1. \A n \in DOMAIN edge : edge[n].to \in Assets /\ asset[edge[n].to].there
    BY <1>1, <1>2, EdgesAreOfAssets DEF MasterIsRight, Edge
  <2>2. \A n \in DOMAIN edge' : asset'[edge'[n].to].there
    BY <1>5, <1>11, <2>1
  <2>3. \A b \in Assets : ~asset'[b].there => asset'[b].parent = NoAsset /\ saved'[b].form = 1
    BY <1>1, <1>6, <1>8, NoEditIsEdit DEF MasterIsRight
  <2>4. QED
    BY <1>8, <2>2, <2>3 DEF MasterIsRight
<1>13. EdgesStay /\ AssetsStay /\ SameTree
  BY <1>5, <1>11 DEF EdgesStay, AssetsStay, SameTree, LiveEdges
<1>14. EditsAreAbout'
  BY <1>1, <1>9, <1>13, EditsStayAbout
<1>15. OwnersAreRead'
  <2>1. ASSUME NEW o \in Edits, edit'[o].pc = "owners", NEW b \in edit'[o].about
        PROVE  owner'[b] = owner[b]
    <3>1. b \in Assets /\ asset[b].there
      BY <1>1, <1>2, <1>5, <2>1 DEF EditsAreAbout, Edit
    <3>2. QED
      BY <1>3, <1>7, <3>1
  <2>2. QED
    BY <1>1, <1>9, <2>1, OwnersStayRead
<1>16. EdgesAreUnique' /\ GraphsAreRead' /\ TreeWithCache'
  BY <1>5, <1>9, <1>11, <1>13, TreeIsKept
<1>17. FormsAreWhole'
  <2>1. SUFFICES ASSUME NEW b \in Assets, b \notin mixed
                 PROVE  asset'[b].form = saved'[b].form /\ owner'[b] = Positions(saved'[b].list)
    BY <1>5 DEF FormsAreWhole
  <2>2. CASE b = a
    BY <1>4, <1>6, <1>7, <1>8, <2>2, NoEditIsEdit
  <2>3. CASE b # a
    BY <1>1, <1>6, <1>7, <1>8, <2>1, <2>3 DEF FormsAreWhole
  <2>4. QED
    BY <2>2, <2>3
<1>18. QED
  BY <1>10, <1>12, <1>14, <1>15, <1>16, <1>17 DEF AssetInv

\* What is not about the tree, the rows or the owners.
LEMMA AssetStutters ==
  ASSUME AssetInv, UNCHANGED <<asset, edge, owner, edit, saved, mixed>>,
         externalId' \in [ExternalIds -> Assets \cup {NoAsset}]
  PROVE  AssetInv'
<1>1. /\ AssetTypeOK /\ MasterIsRight /\ EditsAreAbout /\ OwnersAreRead /\ FormsAreWhole
  BY DEF AssetInv
<1>2. EditsGoOn
  BY <1>1, EditsStay DEF AssetTypeOK
<1>3. EdgesStay /\ SameTree
  BY DEF EdgesStay, SameTree, LiveEdges
<1>4. EdgesAreUnique' /\ GraphsAreRead' /\ TreeWithCache'
  BY <1>2, <1>3, TreeIsKept
<1>5. AssetTypeOK'
  BY <1>1 DEF AssetTypeOK
<1>6. MasterIsRight'
  BY <1>1 DEF MasterIsRight
<1>7. EditsAreAbout'
  BY <1>1 DEF EditsAreAbout
<1>8. OwnersAreRead' /\ FormsAreWhole'
  BY <1>1 DEF OwnersAreRead, FormsAreWhole
<1>9. QED
  BY <1>4, <1>5, <1>6, <1>7, <1>8 DEF AssetInv

LEMMA AssetStep == AssetInv /\ [GraphNext \/ MasterNext]_assetVars => AssetInv'
<1> SUFFICES ASSUME AssetInv, [GraphNext \/ MasterNext]_assetVars PROVE AssetInv'
  OBVIOUS
<1>1. ASSUME NEW e \in Edits, NEW from \in Assets, NEW to \in Assets, NEW type \in Types,
             Link(e, from, to, type)
      PROVE  AssetInv'
  BY <1>1, LinkBegins
<1>2. ASSUME NEW e \in Edits, NEW n \in DOMAIN edge, Unlink(e, n) PROVE AssetInv'
  BY <1>2, UnlinkBegins
<1>3. ASSUME NEW e \in Edits, CommitLink(e) \/ CommitUnlink(e) \/ CommitOwners(e) \/ WriteFlags(e)
      PROVE  AssetInv'
  BY <1>3, LinkIsWritten, UnlinkIsWritten, OwnersAreWritten, FlagsAreWritten
<1>4. ASSUME NEW e \in Edits, NEW a \in Assets, ReadFlags(e, a) PROVE AssetInv'
  BY <1>4, FlagsAreRead
<1>5. ASSUME NEW e \in Edits, NEW list \in OwnerLists, NEW about \in SUBSET Assets, SetOwners(e, about, list)
      PROVE  AssetInv'
  <2>1. 0 \in Versions \cup {0} /\ (\A a \in about : asset[a].there) /\ EditOwners(e, about, 0, list)
    BY <1>5 DEF SetOwners
  <2>2. QED
    BY <2>1, OwnersAreEdited
<1>6. ASSUME NEW e \in Edits, NEW list \in OwnerLists, NEW a \in Assets, NEW form \in Versions,
             UpdateAsset(e, a, form, list)
      PROVE  AssetInv'
  <2>1. PICK f \in Versions \cup {0} : f = IF form = asset[a].form THEN 0 ELSE form
    OBVIOUS
  <2>2. PICK about \in SUBSET Assets : about = {a}
    OBVIOUS
  <2>3. (\A b \in about : asset[b].there) /\ EditOwners(e, about, f, list)
    BY <1>6, <2>1, <2>2 DEF UpdateAsset
  <2>4. QED
    BY <2>3, OwnersAreEdited
<1>7. ASSUME NEW a \in Assets, NEW list \in OwnerLists, CreateAsset(a, list) PROVE AssetInv'
  BY <1>7, AssetIsCreated
<1>8. ASSUME NEW a \in Assets, NEW x \in ExternalIds, RegisterExternalId(a, x) PROVE AssetInv'
  <2>1. externalId \in [ExternalIds -> Assets \cup {NoAsset}]
    BY DEF AssetInv, AssetTypeOK
  <2>2. externalId' \in [ExternalIds -> Assets \cup {NoAsset}]
    BY <1>8, <2>1 DEF RegisterExternalId
  <2>3. UNCHANGED <<asset, edge, owner, edit, saved, mixed>>
    BY <1>8 DEF RegisterExternalId
  <2>4. QED
    BY <2>2, <2>3, AssetStutters
<1>9. CASE UNCHANGED assetVars
  <2>1. UNCHANGED <<asset, edge, owner, edit, saved, mixed>> /\ externalId' = externalId
    BY <1>9 DEF assetVars
  <2>2. externalId' \in [ExternalIds -> Assets \cup {NoAsset}]
    BY <2>1 DEF AssetInv, AssetTypeOK
  <2>3. QED
    BY <2>1, <2>2, AssetStutters
<1>10. CASE GraphNext
  BY <1>1, <1>2, <1>3, <1>10 DEF GraphNext
<1>11. CASE MasterNext
  BY <1>3, <1>4, <1>5, <1>6, <1>7, <1>8, <1>11 DEF MasterNext
<1>12. QED
  BY <1>9, <1>10, <1>11

(***************************************************************************)
(* Links and unlinks that do not overlap keep a forest with a true cache   *)
(* of the machine above, the walk down from a machine finds all that is    *)
(* below it, and a page that is saved is saved whole: for any assets,      *)
(* persons, edges and numbers of operations under way.                     *)
(***************************************************************************)
THEOREM AssetsHold == AssetSpec => []AssetsAreSound
<1>1. AssetInv => AssetsAreSound
  BY WalkFindsAll DEF AssetInv, AssetsAreSound, AssetTypeOK
<1>2. AssetInit => AssetInv
  BY AssetStart
<1>3. AssetInv /\ [GraphNext \/ MasterNext]_assetVars => AssetInv'
  BY AssetStep
<1>4. QED
  BY <1>1, <1>2, <1>3, PTL DEF AssetSpec

=============================================================================
