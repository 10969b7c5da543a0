----------------------------- MODULE RulesProofs -----------------------------
(***************************************************************************)
(* Proofs about the rules: what totals are, the opening of a round, the    *)
(* points of a blood battle, the tiles of a hand, the win search and the   *)
(* readings of a win, the exclusion of fans and the advised discard.       *)
(***************************************************************************)
EXTENDS HandTable, BloodBattle, OpeningTiles, FiniteSetTheorems, TLAPS

(* Nothing is counted where nothing is.                                    *)
LEMMA TotalEmpty ==
    ASSUME NEW c, DOMAIN c = {}
    PROVE  Total(c) = 0
<1>1. Units(c) = {}
  BY DEF Units
<1> QED
  BY <1>1, FS_EmptySet DEF Total

(* The units of a bag of counts: a pair for each copy of each member.      *)
LEMMA UnitsAre ==
    ASSUME NEW D, NEW c \in [D -> Nat]
    PROVE  /\ \A i, n : << i, n >> \in Units(c) <=> i \in D /\ n \in 1..c[i]
           /\ \A u \in Units(c) : \E i, n : i \in D /\ n \in 1..c[i] /\ u = << i, n >>
BY DEF Units

(* A finite set of counts has finitely many units, so Total is a number.   *)
LEMMA UnitsFinite ==
    ASSUME NEW D, IsFiniteSet(D), NEW c \in [D -> Nat]
    PROVE  IsFiniteSet(Units(c))
<1> DEFINE T == {{i} \X (1..c[i]) : i \in D}
           f == [i \in D |-> {i} \X (1..c[i])]
<1>1. f \in Surjection(D, T)
  BY DEF Surjection
<1>2. IsFiniteSet(T)
  <2> HIDE DEF f, T
  <2> QED
    BY <1>1, FS_Surjection
<1>3. ASSUME NEW i \in D
      PROVE  IsFiniteSet({i} \X (1..c[i]))
  <2>1. 1 \in Int /\ c[i] \in Int
    OBVIOUS
  <2>2. IsFiniteSet(1..c[i])
    BY <2>1, FS_Interval, Zenon
  <2>3. IsFiniteSet({i})
    BY FS_Singleton, Zenon
  <2> QED
    BY <2>2, <2>3, FS_Product, Zenon
<1>4. \A S \in T : IsFiniteSet(S)
  BY <1>3, Zenon
<1>5. IsFiniteSet(UNION T)
  <2> HIDE DEF T
  <2> QED
    BY <1>2, <1>4, FS_UNION, Zenon
<1> QED
  BY <1>5 DEF Units

(* A total is a natural number.                                            *)
LEMMA TotalType ==
    ASSUME NEW D, IsFiniteSet(D), NEW c \in [D -> Nat]
    PROVE  Total(c) \in Nat
BY UnitsFinite, FS_CardinalityType DEF Total

(* What is counted can be counted in two parts.                            *)
LEMMA TotalSplit ==
    ASSUME NEW D, IsFiniteSet(D), NEW c \in [D -> Nat],
           NEW A, NEW B, A \cup B = D, A \cap B = {}
    PROVE  Total(c) = Total([i \in A |-> c[i]]) + Total([i \in B |-> c[i]])
<1>1. PICK a : a = [i \in A |-> c[i]]
  OBVIOUS
<1>2. PICK b : b = [i \in B |-> c[i]]
  OBVIOUS
<1>3. a \in [A -> Nat] /\ b \in [B -> Nat]
  BY <1>1, <1>2
<1>4. IsFiniteSet(A) /\ IsFiniteSet(B)
  BY FS_Subset
<1>5. IsFiniteSet(Units(a)) /\ IsFiniteSet(Units(b))
  BY <1>3, <1>4, UnitsFinite
<1>6. Units(c) = Units(a) \cup Units(b)
  <2>1. ASSUME NEW u \in Units(c)
        PROVE  u \in Units(a) \cup Units(b)
    <3>1. PICK i, n : i \in D /\ n \in 1..c[i] /\ u = << i, n >>
      BY UnitsAre
    <3>2. CASE i \in A
      BY <3>1, <3>2, <1>1, <1>3, UnitsAre
    <3>3. CASE i \in B
      BY <3>1, <3>3, <1>2, <1>3, UnitsAre
    <3> QED
      BY <3>1, <3>2, <3>3
  <2>2. ASSUME NEW u \in Units(a)
        PROVE  u \in Units(c)
    <3>1. PICK i, n : i \in A /\ n \in 1..a[i] /\ u = << i, n >>
      BY UnitsAre, <1>3
    <3> QED
      BY <3>1, <1>1, UnitsAre
  <2>3. ASSUME NEW u \in Units(b)
        PROVE  u \in Units(c)
    <3>1. PICK i, n : i \in B /\ n \in 1..b[i] /\ u = << i, n >>
      BY UnitsAre, <1>3
    <3> QED
      BY <3>1, <1>2, UnitsAre
  <2> QED
    BY <2>1, <2>2, <2>3
<1>7. Units(a) \cap Units(b) = {}
  <2> SUFFICES ASSUME NEW u \in Units(a), u \in Units(b)
               PROVE  FALSE
    OBVIOUS
  <2>1. PICK i, n : i \in A /\ n \in 1..a[i] /\ u = << i, n >>
    BY UnitsAre, <1>3
  <2>2. PICK j, m : j \in B /\ m \in 1..b[j] /\ u = << j, m >>
    BY UnitsAre, <1>3
  <2> QED
    BY <2>1, <2>2
<1>8. Cardinality(Units(c)) = Cardinality(Units(a)) + Cardinality(Units(b)) - Cardinality(Units(a) \cap Units(b))
  BY <1>5, <1>6, FS_Union
<1>9. Cardinality(Units(a)) \in Nat /\ Cardinality(Units(b)) \in Nat
  BY <1>5, FS_CardinalityType
<1>10. Cardinality(Units(a) \cap Units(b)) = 0
  BY <1>7, FS_EmptySet, Zenon
<1>11. Total(c) = Total(a) + Total(b)
  BY <1>8, <1>9, <1>10 DEF Total
<1> QED
  BY <1>1, <1>2, <1>11

(* A total does not depend on the names of what is counted.                *)
LEMMA TotalMoved ==
    ASSUME NEW D, IsFiniteSet(D), NEW c \in [D -> Nat],
           NEW E, NEW d \in [E -> Nat],
           NEW f \in Bijection(D, E), \A i \in D : d[f[i]] = c[i]
    PROVE  Total(c) = Total(d)
<1> DEFINE g == [u \in Units(c) |-> << f[u[1]], u[2] >>]
<1>1. /\ f \in [D -> E]
      /\ \A i, j \in D : f[i] = f[j] => i = j
      /\ \A k \in E : \E i \in D : f[i] = k
  BY DEF Bijection, Injection, Surjection, IsInjective
<1>2. ASSUME NEW i, NEW n, << i, n >> \in Units(c)
      PROVE  g[<< i, n >>] = << f[i], n >>
  BY <1>2
<1>3. g \in [Units(c) -> Units(d)]
  <2> SUFFICES ASSUME NEW u \in Units(c)
               PROVE  << f[u[1]], u[2] >> \in Units(d)
    OBVIOUS
  <2>1. PICK i, n : i \in D /\ n \in 1..c[i] /\ u = << i, n >>
    BY UnitsAre
  <2> QED
    BY <2>1, <1>1, UnitsAre
<1>4. ASSUME NEW u \in Units(c), NEW v \in Units(c), g[u] = g[v]
      PROVE  u = v
  <2>1. PICK i, n : i \in D /\ n \in 1..c[i] /\ u = << i, n >>
    BY UnitsAre
  <2>2. PICK j, m : j \in D /\ m \in 1..c[j] /\ v = << j, m >>
    BY UnitsAre
  <2>3. << f[i], n >> = << f[j], m >>
    BY <2>1, <2>2, <1>2, <1>4
  <2> QED
    BY <2>1, <2>2, <2>3, <1>1
<1>5. ASSUME NEW v \in Units(d)
      PROVE  \E u \in Units(c) : g[u] = v
  <2>1. PICK k, n : k \in E /\ n \in 1..d[k] /\ v = << k, n >>
    BY UnitsAre
  <2>2. PICK i \in D : f[i] = k
    BY <2>1, <1>1
  <2>3. << i, n >> \in Units(c)
    BY <2>1, <2>2, UnitsAre
  <2> QED
    BY <2>1, <2>2, <2>3, <1>2
<1>6. g \in Bijection(Units(c), Units(d))
  <2> HIDE DEF g
  <2> QED
    BY <1>3, <1>4, <1>5 DEF Bijection, Injection, Surjection, IsInjective
<1>7. ExistsBijection(Units(c), Units(d))
  <2> HIDE DEF g
  <2> QED
    BY <1>6 DEF ExistsBijection
<1> QED
  BY <1>7, UnitsFinite, FS_Bijection DEF Total

(* One thing is counted as often as it is there.                           *)
LEMMA TotalOne ==
    ASSUME NEW x, NEW c \in [{x} -> Nat]
    PROVE  Total(c) = c[x]
<1>1. c[x] \in Nat /\ 1 \in Int /\ c[x] \in Int
  OBVIOUS
<1>2. IsFiniteSet(1..c[x]) /\ Cardinality(1..c[x]) = c[x]
  <2>1. /\ IsFiniteSet(1..c[x])
        /\ Cardinality(1..c[x]) = IF 1 > c[x] THEN 0 ELSE c[x] - 1 + 1
    BY <1>1, FS_Interval, Zenon
  <2> QED
    BY <2>1, <1>1
<1>3. IsFiniteSet({x}) /\ Cardinality({x}) = 1
  BY FS_Singleton, Zenon
<1>4. Cardinality({x} \X (1..c[x])) = 1 * c[x]
  BY <1>2, <1>3, FS_Product
<1>5. Units(c) = {x} \X (1..c[x])
  BY DEF Units
<1> QED
  BY <1>1, <1>4, <1>5 DEF Total

(* The sum of two counts is counted in two parts.                          *)
LEMMA TotalPlus ==
    ASSUME NEW D, IsFiniteSet(D), NEW c \in [D -> Nat], NEW d \in [D -> Nat], NEW e \in [D -> Nat],
           \A i \in D : e[i] = c[i] + d[i]
    PROVE  Total(e) = Total(c) + Total(d)
<1> DEFINE Rest == Units(e) \ Units(c)
           g == [u \in Units(d) |-> << u[1], c[u[1]] + u[2] >>]
<1>1. \A i \in D : c[i] \in Nat /\ d[i] \in Nat /\ e[i] = c[i] + d[i]
  OBVIOUS
<1>2. Units(c) \subseteq Units(e)
  <2> SUFFICES ASSUME NEW u \in Units(c)
               PROVE  u \in Units(e)
    OBVIOUS
  <2>1. PICK i, n : i \in D /\ n \in 1..c[i] /\ u = << i, n >>
    BY UnitsAre
  <2>2. n \in 1..e[i]
    BY <2>1, <1>1
  <2> QED
    BY <2>1, <2>2, UnitsAre
<1>3. ASSUME NEW i, NEW n, << i, n >> \in Units(d)
      PROVE  g[<< i, n >>] = << i, c[i] + n >>
  BY <1>3
<1>4. g \in [Units(d) -> Rest]
  <2> SUFFICES ASSUME NEW u \in Units(d)
               PROVE  << u[1], c[u[1]] + u[2] >> \in Rest
    OBVIOUS
  <2>1. PICK i, n : i \in D /\ n \in 1..d[i] /\ u = << i, n >>
    BY UnitsAre
  <2>2. c[i] + n \in 1..e[i] /\ c[i] + n \notin 1..c[i]
    BY <2>1, <1>1
  <2> QED
    BY <2>1, <2>2, UnitsAre
<1>5. ASSUME NEW u \in Units(d), NEW v \in Units(d), g[u] = g[v]
      PROVE  u = v
  <2>1. PICK i, n : i \in D /\ n \in 1..d[i] /\ u = << i, n >>
    BY UnitsAre
  <2>2. PICK j, m : j \in D /\ m \in 1..d[j] /\ v = << j, m >>
    BY UnitsAre
  <2>3. << i, c[i] + n >> = << j, c[j] + m >>
    BY <2>1, <2>2, <1>3, <1>5
  <2>4. i = j /\ n = m
    BY <2>1, <2>2, <2>3, <1>1
  <2> QED
    BY <2>1, <2>2, <2>4
<1>6. ASSUME NEW v \in Rest
      PROVE  \E u \in Units(d) : g[u] = v
  <2>1. PICK i, n : i \in D /\ n \in 1..e[i] /\ v = << i, n >>
    BY UnitsAre
  <2>2. n \notin 1..c[i]
    BY <2>1, <1>6, UnitsAre
  <2>3. n - c[i] \in 1..d[i] /\ c[i] + (n - c[i]) = n
    BY <2>1, <2>2, <1>1
  <2>4. << i, n - c[i] >> \in Units(d)
    BY <2>1, <2>3, UnitsAre
  <2> QED
    BY <2>1, <2>3, <2>4, <1>3
<1>7. ExistsBijection(Units(d), Rest)
  <2> HIDE DEF g, Rest
  <2> QED
    BY <1>4, <1>5, <1>6 DEF ExistsBijection, Bijection, Injection, Surjection, IsInjective
<1>8. IsFiniteSet(Units(c)) /\ IsFiniteSet(Units(d)) /\ IsFiniteSet(Units(e))
  BY UnitsFinite
<1>9. Cardinality(Rest) = Cardinality(Units(d))
  <2> HIDE DEF Rest
  <2> QED
    BY <1>7, <1>8, FS_Bijection
<1>10. Cardinality(Rest) = Cardinality(Units(e)) - Cardinality(Units(e) \cap Units(c))
  BY <1>8, FS_Difference
<1>11. Units(e) \cap Units(c) = Units(c)
  BY <1>2
<1>12. /\ Cardinality(Units(c)) \in Nat /\ Cardinality(Units(d)) \in Nat
       /\ Cardinality(Units(e)) \in Nat
  BY <1>8, FS_CardinalityType
<1>13. Cardinality(Units(d)) = Cardinality(Units(e)) - Cardinality(Units(c))
  BY <1>9, <1>10, <1>11, Zenon
<1> QED
  BY <1>12, <1>13 DEF Total

(* The sum over the four seats.                                            *)
LEMMA TotalOfSeats ==
    ASSUME NEW c \in [0..3 -> Nat]
    PROVE  Total(c) = c[0] + c[1] + c[2] + c[3]
<1> DEFINE Up(n) == [i \in 0..n |-> c[i]]
           One(n) == [i \in {n} |-> c[i]]
<1>1. \A n \in 0..3 : IsFiniteSet(0..n)
  <2> SUFFICES ASSUME NEW n \in 0..3
               PROVE  IsFiniteSet(0..n)
    OBVIOUS
  <2>1. 0 \in Int /\ n \in Int
    OBVIOUS
  <2> QED
    BY <2>1, FS_Interval, Zenon
<1>2. \A n \in 0..3 : Up(n) \in [0..n -> Nat] /\ One(n) \in [{n} -> Nat] /\ One(n)[n] = c[n]
  OBVIOUS
<1>3. \A n \in 0..3 : Total(One(n)) = c[n]
  <2> HIDE DEF One
  <2> QED
    BY <1>2, TotalOne
<1>4. ASSUME NEW n \in 1..3
      PROVE  Total(Up(n)) = Total(Up(n - 1)) + c[n]
  <2>1. (0..n - 1) \cup {n} = 0..n /\ (0..n - 1) \cap {n} = {}
    OBVIOUS
  <2>2. Up(n) \in [0..n -> Nat] /\ IsFiniteSet(0..n)
    <3>1. n \in 0..3
      OBVIOUS
    <3> HIDE DEF Up, One
    <3> QED
      BY <3>1, <1>1, <1>2
  <2>3. PICK u : u = Up(n)
    OBVIOUS
  <2>4. PICK A, D : A = 0..n - 1 /\ D = 0..n
    OBVIOUS
  <2>5. Total(u) = Total([i \in A |-> u[i]]) + Total([i \in {n} |-> u[i]])
    <3>1. A \cup {n} = D /\ A \cap {n} = {}
      BY <2>1, <2>4
    <3>2. u \in [D -> Nat] /\ IsFiniteSet(D)
      BY <2>2, <2>3, <2>4, Zenon
    <3> QED
      BY <3>1, <3>2, TotalSplit
  <2>6. \A i \in 0..n : u[i] = c[i]
    BY <2>3
  <2>7. [i \in A |-> u[i]] = Up(n - 1)
    BY <2>4, <2>6
  <2>8. [i \in {n} |-> u[i]] = One(n)
    BY <2>6
  <2> HIDE DEF Up, One
  <2> QED
    BY <2>3, <2>5, <2>7, <2>8, <1>3
<1>5. Up(3) = c /\ Up(0) = One(0)
  OBVIOUS
<1>6. Total(Up(0)) = c[0]
  BY <1>3, <1>5
<1> HIDE DEF Up, One
<1>7. /\ Total(Up(1)) = Total(Up(0)) + c[1] /\ Total(Up(2)) = Total(Up(1)) + c[2]
      /\ Total(Up(3)) = Total(Up(2)) + c[3]
  <2>1. 1 - 1 = 0 /\ 2 - 1 = 1 /\ 3 - 1 = 2
    OBVIOUS
  <2> QED
    BY <1>4, <2>1
<1> QED
  BY <1>5, <1>6, <1>7

(* Things sorted into classes are as many as the classes hold together.    *)
LEMMA TotalByClass ==
    ASSUME NEW K, IsFiniteSet(K), NEW D, IsFiniteSet(D), NEW g \in [K -> D], NEW c \in [D -> Nat],
           \A d \in D : c[d] = Cardinality({k \in K : g[k] = d})
    PROVE  Total(c) = Cardinality(K)
<1> DEFINE Class(d) == {k \in K : g[k] = d}
           e == [d \in D |-> CHOOSE b : b \in Bijection(1..c[d], Class(d))]
           h == [u \in Units(c) |-> e[u[1]][u[2]]]
<1>1. \A d \in D : IsFiniteSet(Class(d))
  <2> SUFFICES ASSUME NEW d \in D
               PROVE  IsFiniteSet(Class(d))
    OBVIOUS
  <2>1. Class(d) \in SUBSET K
    OBVIOUS
  <2> HIDE DEF Class
  <2> QED
    BY <2>1, FS_Subset
<1>2. \A d \in D : c[d] = Cardinality(Class(d))
  OBVIOUS
<1>3. \A d \in D : c[d] \in Nat /\ ExistsBijection(1..c[d], Class(d))
  <2> HIDE DEF Class
  <2> QED
    BY <1>1, <1>2, FS_CardinalityType
<1>5. ASSUME NEW d \in D
      PROVE  e[d] \in Bijection(1..c[d], Class(d))
  <2>1. \E b : b \in Bijection(1..c[d], Class(d))
    BY <1>3, Zenon DEF ExistsBijection
  <2>2. (CHOOSE b : b \in Bijection(1..c[d], Class(d))) \in Bijection(1..c[d], Class(d))
    BY <2>1, Zenon
  <2> QED
    BY <2>2, Zenon
<1>6. ASSUME NEW d \in D
      PROVE  /\ e[d] \in [1..c[d] -> Class(d)]
             /\ \A i, j \in 1..c[d] : e[d][i] = e[d][j] => i = j
             /\ \A k \in Class(d) : \E i \in 1..c[d] : e[d][i] = k
  <2>1. PICK b, N, C : b = e[d] /\ N = 1..c[d] /\ C = Class(d)
    OBVIOUS
  <2>2. b \in Bijection(N, C)
    BY <1>5, <2>1, Zenon
  <2>3. /\ b \in [N -> C]
        /\ \A i, j \in N : b[i] = b[j] => i = j
        /\ \A k \in C : \E i \in N : b[i] = k
    BY <2>2, Zenon DEF Bijection, Injection, Surjection, IsInjective
  <2> HIDE DEF e, Class
  <2> QED
    BY <2>1, <2>3, Zenon
<1>7. ASSUME NEW u \in Units(c)
      PROVE  \E d, n : /\ d \in D /\ n \in 1..c[d] /\ u = << d, n >>
                       /\ h[u] = e[d][n] /\ h[u] \in K /\ g[h[u]] = d
  <2>1. PICK d, n : d \in D /\ n \in 1..c[d] /\ u = << d, n >>
    BY UnitsAre
  <2>2. h[u] = e[d][n]
    <3> HIDE DEF e
    <3> QED
      BY <2>1
  <2>3. e[d][n] \in Class(d)
    <3> HIDE DEF e, Class
    <3> QED
      BY <1>6, <2>1
  <2> HIDE DEF h, e
  <2> QED
    BY <2>1, <2>2, <2>3
<1>8. h \in [Units(c) -> K]
  <2>1. h = [u \in Units(c) |-> h[u]]
    OBVIOUS
  <2> HIDE DEF h
  <2> QED
    BY <1>7, <2>1
<1>9. ASSUME NEW u \in Units(c), NEW v \in Units(c), h[u] = h[v]
      PROVE  u = v
  <2> HIDE DEF h, e, Class
  <2>1. PICK d, n : /\ d \in D /\ n \in 1..c[d] /\ u = << d, n >>
                    /\ h[u] = e[d][n] /\ g[h[u]] = d
    BY <1>7, ZenonT(60)
  <2>2. PICK dd, m : /\ dd \in D /\ m \in 1..c[dd] /\ v = << dd, m >>
                     /\ h[v] = e[dd][m] /\ g[h[v]] = dd
    BY <1>7, Zenon
  <2>3. d = dd
    BY <2>1, <2>2, <1>9, Zenon
  <2>4. n = m
    <3>1. n \in 1..c[d] /\ m \in 1..c[d] /\ e[d][n] = e[d][m]
      BY <2>1, <2>2, <2>3, <1>9
    <3> QED
      BY <2>1, <3>1, <1>6
  <2> QED
    BY <2>1, <2>2, <2>3, <2>4
<1>10. ASSUME NEW k \in K
       PROVE  \E u \in Units(c) : h[u] = k
  <2>1. g[k] \in D /\ k \in Class(g[k])
    OBVIOUS
  <2>2. PICK n \in 1..c[g[k]] : e[g[k]][n] = k
    <3> HIDE DEF e, Class
    <3> QED
      BY <2>1, <1>6
  <2>3. << g[k], n >> \in Units(c)
    BY <2>1, UnitsAre
  <2>4. h[<< g[k], n >>] = k
    <3> HIDE DEF e
    <3> QED
      BY <2>2, <2>3
  <2> QED
    BY <2>3, <2>4, Zenon
<1>11. ExistsBijection(Units(c), K)
  <2> HIDE DEF h
  <2> QED
    BY <1>8, <1>9, <1>10 DEF ExistsBijection, Bijection, Injection, Surjection, IsInjective
<1> QED
  BY <1>11, UnitsFinite, FS_Bijection DEF Total

(* Counting the members of a finite set class by class gives numbers.      *)
LEMMA ClassesCounted ==
    ASSUME NEW K, IsFiniteSet(K), NEW D, NEW g \in [K -> D]
    PROVE  [d \in D |-> Cardinality({k \in K : g[k] = d})] \in [D -> Nat]
<1> SUFFICES ASSUME NEW d \in D
             PROVE  Cardinality({k \in K : g[k] = d}) \in Nat
  OBVIOUS
<1>1. {k \in K : g[k] = d} \in SUBSET K
  OBVIOUS
<1>2. IsFiniteSet({k \in K : g[k] = d})
  BY <1>1, FS_Subset, Zenon
<1> QED
  BY <1>2, FS_CardinalityType, Zenon

-----------------------------------------------------------------------------
(* The opening, tile by tile.                                              *)
LEMMA PlayableFinite == IsFiniteSet(Playable)
<1>1. 0 \in Int /\ 34 - 1 \in Int
  OBVIOUS
<1> QED
  BY <1>1, FS_Interval, Zenon DEF Playable, PlayableTileCount

(* The four places of the opening are a finite set.                        *)
LEMMA PlacesFinite == IsFiniteSet(0..3) /\ IsFiniteSet(1..3) /\ Cardinality(1..3) = 3
<1>1. 0 \in Int /\ 1 \in Int /\ 3 \in Int
  OBVIOUS
<1>2. IsFiniteSet(1..3) /\ Cardinality(1..3) = IF 1 > 3 THEN 0 ELSE 3 - 1 + 1
  BY <1>1, FS_Interval, Zenon
<1>3. IsFiniteSet(0..3)
  BY <1>1, FS_Interval, Zenon
<1> QED
  BY <1>2, <1>3

(* Three tiles that can be taken out of a hand are three of its tiles.     *)
LEMMA TakenAreThree ==
    ASSUME NEW hand \in [Playable -> Nat], NEW raws, Takes(hand, raws)
    PROVE  /\ HandCounts(raws) \in [Playable -> Nat]
           /\ Total(HandCounts(raws)) = 3
           /\ \A i \in Playable : HandCounts(raws)[i] <= hand[i]
<1> DEFINE g == [k \in 1..3 |-> Index(raws[k])]
<1>1. Len(raws) = 3 /\ \A k \in 1..3 : Index(raws[k]) \in Playable /\ HandCounts(raws)[Index(raws[k])] <= hand[Index(raws[k])]
  BY DEF Takes
<1>2. g \in [1..3 -> Playable] /\ \A k \in 1..3 : g[k] = Index(raws[k])
  BY <1>1
<1>3. HandCounts(raws) = [i \in Playable |-> Cardinality({k \in 1..3 : g[k] = i})]
  BY <1>1, <1>2 DEF HandCounts
<1> HIDE DEF g
<1>4. HandCounts(raws) \in [Playable -> Nat] /\ Total(HandCounts(raws)) = 3
  <2>1. HandCounts(raws) \in [Playable -> Nat]
    BY <1>2, <1>3, ClassesCounted, PlacesFinite
  <2>2. \A i \in Playable : HandCounts(raws)[i] = Cardinality({k \in 1..3 : g[k] = i})
    BY <1>3
  <2> QED
    BY <1>2, <2>1, <2>2, TotalByClass, PlayableFinite, PlacesFinite
<1>5. ASSUME NEW i \in Playable
      PROVE  HandCounts(raws)[i] <= hand[i]
  <2>1. CASE \E k \in 1..3 : g[k] = i
    BY <2>1, <1>1, <1>2
  <2>2. CASE ~\E k \in 1..3 : g[k] = i
    <3>1. {k \in 1..3 : g[k] = i} = {}
      BY <2>2
    <3>2. HandCounts(raws)[i] = 0
      BY <3>1, <1>3, FS_EmptySet
    <3> QED
      BY <3>2
  <2> QED
    BY <2>1, <2>2
<1> QED
  BY <1>4, <1>5

(* Nothing selected is nothing.                                            *)
LEMMA NothingTaken == HandCounts(<< >>) = [i \in Playable |-> 0]
<1>1. \A i \in Playable : {k \in 1..Len(<< >>) : Index(<< >>[k]) = i} = {}
  OBVIOUS
<1> QED
  BY <1>1, FS_EmptySet DEF HandCounts

(* Two hands put together.                                                 *)
LEMMA PlayablePlus ==
    ASSUME NEW c \in [Playable -> Nat], NEW d \in [Playable -> Nat], NEW e \in [Playable -> Nat],
           \A i \in Playable : e[i] = c[i] + d[i]
    PROVE  Total(e) = Total(c) + Total(d)
<1>1. PICK P : P = Playable
  OBVIOUS
<1>2. c \in [P -> Nat] /\ d \in [P -> Nat] /\ e \in [P -> Nat] /\ IsFiniteSet(P)
  BY <1>1, PlayableFinite
<1>3. \A i \in P : e[i] = c[i] + d[i]
  BY <1>1
<1> QED
  BY <1>2, <1>3, TotalPlus

(* Passing something around the table leaves the sum as it is.             *)
LEMMA FourShifted ==
    ASSUME NEW a \in [0..3 -> Nat], NEW m \in [0..3 -> Nat], NEW t, NEW d \in 1..3,
           \A s \in 0..3 : t[s] = a[s] - m[s] + m[(s + d) % 4]
    PROVE  t[0] + t[1] + t[2] + t[3] = a[0] + a[1] + a[2] + a[3]
<1>1. /\ a[0] \in Nat /\ a[1] \in Nat /\ a[2] \in Nat /\ a[3] \in Nat
      /\ m[0] \in Nat /\ m[1] \in Nat /\ m[2] \in Nat /\ m[3] \in Nat
  OBVIOUS
<1>2. /\ t[0] = a[0] - m[0] + m[(0 + d) % 4] /\ t[1] = a[1] - m[1] + m[(1 + d) % 4]
      /\ t[2] = a[2] - m[2] + m[(2 + d) % 4] /\ t[3] = a[3] - m[3] + m[(3 + d) % 4]
  OBVIOUS
<1>3. CASE d = 1
  <2>1. (0 + d) % 4 = 1 /\ (1 + d) % 4 = 2 /\ (2 + d) % 4 = 3 /\ (3 + d) % 4 = 0
    BY <1>3
  <2> QED
    BY <1>1, <1>2, <2>1
<1>4. CASE d = 2
  <2>1. (0 + d) % 4 = 2 /\ (1 + d) % 4 = 3 /\ (2 + d) % 4 = 0 /\ (3 + d) % 4 = 1
    BY <1>4
  <2> QED
    BY <1>1, <1>2, <2>1
<1>5. CASE d = 3
  <2>1. (0 + d) % 4 = 3 /\ (1 + d) % 4 = 0 /\ (2 + d) % 4 = 1 /\ (3 + d) % 4 = 2
    BY <1>5
  <2> QED
    BY <1>1, <1>2, <2>1
<1> QED
  BY <1>3, <1>4, <1>5

(* The exchange moves tiles from seat to seat: every kind keeps its number *)
(* on the table, and every hand its length when every seat gave three.     *)
LEMMA ExchangeMoves ==
    ASSUME racks \in [Places -> [Playable -> Nat]], NEW sel, NEW d \in 1..3,
           \A s \in Places : sel[s] = << >> \/ Takes(racks[s], sel[s]),
           NEW r, r = openingExchangeThreeWithSelections(sel, d)
    PROVE  /\ r \in [Places -> [Playable -> Nat]]
           /\ \A i \in Playable : r[0][i] + r[1][i] + r[2][i] + r[3][i]
                                    = racks[0][i] + racks[1][i] + racks[2][i] + racks[3][i]
           /\ (\A s \in Places : Takes(racks[s], sel[s])) => \A s \in Places : Total(r[s]) = Total(racks[s])
<1>1. PICK n : n = [s \in Places |-> HandCounts(sel[s])]
  OBVIOUS
<1>2. ASSUME NEW s \in Places
      PROVE  /\ n[s] \in [Playable -> Nat]
             /\ \A i \in Playable : n[s][i] <= racks[s][i]
             /\ Takes(racks[s], sel[s]) => Total(n[s]) = 3
  <2>1. racks[s] \in [Playable -> Nat] /\ n[s] = HandCounts(sel[s])
    BY <1>1
  <2>2. CASE Takes(racks[s], sel[s])
    BY <2>1, <2>2, TakenAreThree
  <2>3. CASE ~Takes(racks[s], sel[s])
    <3>1. n[s] = [i \in Playable |-> 0]
      BY <2>1, <2>3, NothingTaken
    <3> QED
      BY <2>1, <2>3, <3>1
  <2> QED
    BY <2>2, <2>3
<1>3. ASSUME NEW s \in Places
      PROVE  (s + d) % 4 \in Places
  BY DEF Places
<1>4. ASSUME NEW s \in Places
      PROVE  r[s] = [i \in Playable |-> racks[s][i] - n[s][i] + n[(s + d) % 4][i]]
  <2>1. \A i \in Playable : RemoveAll(racks[s], sel[s])[i] = racks[s][i] - n[s][i]
    <3> SUFFICES ASSUME NEW i \in Playable
                 PROVE  RemoveAll(racks[s], sel[s])[i] = racks[s][i] - n[s][i]
      OBVIOUS
    <3>1. racks[s][i] \in Nat /\ n[s][i] \in Nat /\ n[s][i] <= racks[s][i]
      BY <1>2
    <3>2. RemoveAll(racks[s], sel[s])[i] = IF racks[s][i] > n[s][i] THEN racks[s][i] - n[s][i] ELSE 0
      BY <1>1 DEF RemoveAll
    <3> QED
      BY <3>1, <3>2
  <2>2. n[(s + d) % 4] = HandCounts(sel[(s + d) % 4])
    BY <1>1, <1>3
  <2>3. r[s] = [i \in Playable |-> RemoveAll(racks[s], sel[s])[i] + HandCounts(sel[(s + d) % 4])[i]]
    BY DEF openingExchangeThreeWithSelections
  <2> QED
    BY <2>1, <2>2, <2>3
<1>5. DOMAIN r = Places /\ r = [s \in Places |-> r[s]]
  BY DEF openingExchangeThreeWithSelections
<1>6. ASSUME NEW s \in Places
      PROVE  r[s] \in [Playable -> Nat]
  <2>1. PICK q \in Places : q = (s + d) % 4
    BY <1>3
  <2>2. \A i \in Playable : racks[s][i] - n[s][i] + n[q][i] \in Nat
    BY <1>2
  <2>3. r[s] = [i \in Playable |-> racks[s][i] - n[s][i] + n[q][i]]
    BY <1>4, <2>1
  <2> QED
    BY <2>2, <2>3
<1>7. ASSUME NEW i \in Playable
      PROVE  r[0][i] + r[1][i] + r[2][i] + r[3][i] = racks[0][i] + racks[1][i] + racks[2][i] + racks[3][i]
  <2>1. PICK a, m, t : /\ a = [s \in Places |-> racks[s][i]] /\ m = [s \in Places |-> n[s][i]]
                       /\ t = [s \in Places |-> r[s][i]]
    OBVIOUS
  <2>2. a \in [Places -> Nat] /\ m \in [Places -> Nat]
    BY <1>2, <2>1
  <2>3. \A s \in Places : t[s] = a[s] - m[s] + m[(s + d) % 4]
    <3> SUFFICES ASSUME NEW s \in Places
                 PROVE  t[s] = a[s] - m[s] + m[(s + d) % 4]
      OBVIOUS
    <3>1. m[(s + d) % 4] = n[(s + d) % 4][i]
      BY <1>3, <2>1
    <3>2. r[s][i] = racks[s][i] - n[s][i] + n[(s + d) % 4][i]
      BY <1>4, Zenon
    <3> QED
      BY <3>1, <3>2, <2>1
  <2>4. t[0] + t[1] + t[2] + t[3] = a[0] + a[1] + a[2] + a[3]
    BY <2>2, <2>3, FourShifted DEF Places
  <2> QED
    BY <2>1, <2>4 DEF Places
<1>8. ASSUME \A s \in Places : Takes(racks[s], sel[s]), NEW s \in Places
      PROVE  Total(r[s]) = Total(racks[s])
  <2>1. PICK q \in Places : q = (s + d) % 4
    BY <1>3
  <2>2. PICK old, new, give, get : old = racks[s] /\ new = r[s] /\ give = n[s] /\ get = n[q]
    OBVIOUS
  <2>3. /\ old \in [Playable -> Nat] /\ new \in [Playable -> Nat]
        /\ give \in [Playable -> Nat] /\ get \in [Playable -> Nat]
    BY <1>2, <1>6, <2>2
  <2>4. \A i \in Playable : new[i] = old[i] - give[i] + get[i]
    BY <1>4, <2>1, <2>2, ZenonT(60)
  <2>5. PICK e : e = [i \in Playable |-> old[i] + get[i]]
    OBVIOUS
  <2>6. e \in [Playable -> Nat] /\ \A i \in Playable : e[i] = old[i] + get[i]
    BY <2>3, <2>5
  <2>7. Total(e) = Total(old) + Total(get)
    BY <2>3, <2>6, PlayablePlus
  <2>8. \A i \in Playable : e[i] = new[i] + give[i]
    BY <2>3, <2>4, <2>6
  <2>9. Total(e) = Total(new) + Total(give)
    BY <2>3, <2>6, <2>8, PlayablePlus
  <2>10. Total(give) = 3 /\ Total(get) = 3
    BY <1>2, <1>8, <2>2
  <2>11. Total(old) \in Nat /\ Total(new) \in Nat
    BY <2>3, PlayableFinite, TotalType
  <2>12. Total(old) = Total(new)
    BY <2>7, <2>9, <2>10, <2>11
  <2> QED
    BY <2>2, <2>12
<1> QED
  <2>1. r \in [Places -> [Playable -> Nat]]
    BY <1>5, <1>6
  <2> QED
    BY <2>1, <1>7, <1>8

(* The states of an opening.                                               *)
OpeningTypes ==
    /\ racks \in [Places -> [Playable -> Nat]]
    /\ opening \in [Submitted    : [exchange : SUBSET Places, missing : SUBSET Places],
                    Selections   : [Places -> Sent \cup {<< >>}],
                    Direction    : {Unset} \cup 1..3,
                    MissingSuits : [Places -> {Unset} \cup SuitedSuits]]
    /\ quitters \in SUBSET Places

(* Until the last seat has sent its tiles nothing has moved, and what was  *)
(* sent is still there to be taken; only a seat that quit sends nothing.   *)
SelectionsStillHeld ==
    ~allSubmitted(opening.Submitted.exchange) =>
        /\ racks = OpeningHands
        /\ \A s \in opening.Submitted.exchange :
              \/ opening.Selections[s] = << >> /\ s \in quitters
              \/ Takes(racks[s], opening.Selections[s])

(* No kind of tile has gained or lost a copy, across the four racks, since *)
(* the deal, and while every seat is playing each rack has thirteen.       *)
TilesKept ==
    /\ \A i \in Playable : racks[0][i] + racks[1][i] + racks[2][i] + racks[3][i]
          = OpeningHands[0][i] + OpeningHands[1][i] + OpeningHands[2][i] + OpeningHands[3][i]
    /\ quitters = {} => \A s \in Places : Total(racks[s]) = 13

(* The inductive invariant of the opening.                                 *)
OpeningIInv == OpeningTypes /\ SelectionsStillHeld /\ TilesKept

(* The deal satisfies the inductive invariant of the opening.              *)
LEMMA OpeningStarts == OpeningInit => OpeningIInv
<1> SUFFICES ASSUME OpeningInit
             PROVE  OpeningIInv
  OBVIOUS
<1>1. racks = OpeningHands /\ opening = initialRuleState /\ quitters = {}
  BY DEF OpeningInit
<1>2. racks \in [Places -> [Playable -> Nat]] /\ \A s \in Places : Total(racks[s]) = 13
  BY <1>1, OpeningAssumption
<1>3. opening.Submitted.exchange = {}
  BY <1>1 DEF initialRuleState
<1>4. OpeningTypes
  BY <1>1, <1>2 DEF OpeningTypes, initialRuleState, SuitedSuits
<1>5. SelectionsStillHeld
  BY <1>1, <1>3 DEF SelectionsStillHeld
<1>6. TilesKept
  BY <1>1, <1>2 DEF TilesKept
<1> QED
  BY <1>4, <1>5, <1>6 DEF OpeningIInv

(* A seat's tiles are sent, and the last seat's set the exchange going.    *)
LEMMA ExchangeStep ==
    ASSUME OpeningIInv, NEW s \in Places, NEW selection \in Sent \cup {<< >>}, NEW dir,
           applyExchange(s, selection, dir), quitters' \in SUBSET Places, quitters \subseteq quitters',
           (selection = << >> /\ s \in quitters') \/ Takes(racks[s], selection)
    PROVE  OpeningIInv'
<1> DEFINE d == IF opening.Direction = Unset THEN normalizeOpeningExchangeDirection(dir) ELSE opening.Direction
           sel == [opening.Selections EXCEPT ![s] = selection]
           done == opening.Submitted.exchange \cup {s}
<1>1. /\ opening.Submitted \in [exchange : SUBSET Places, missing : SUBSET Places]
      /\ opening.Selections \in [Places -> Sent \cup {<< >>}] /\ opening.Direction \in {Unset} \cup 1..3
      /\ racks \in [Places -> [Playable -> Nat]]
  BY DEF OpeningIInv, OpeningTypes
<1>2. d \in 1..3
  BY <1>1 DEF normalizeOpeningExchangeDirection, Unset
<1>3. /\ CurrentStep = "exchange" /\ s \notin opening.Submitted.exchange
      /\ opening' = [opening EXCEPT
                       !.Submitted.exchange = done, !.Direction = d,
                       !.Selections = IF allSubmitted(done) THEN initialRuleState.Selections ELSE sel]
      /\ racks' = IF allSubmitted(done) THEN openingExchangeThreeWithSelections(sel, d) ELSE racks
  BY DEF applyExchange
<1>4. ~allSubmitted(opening.Submitted.exchange)
  BY <1>3 DEF CurrentStep
<1>5. /\ racks = OpeningHands
      /\ \A o \in opening.Submitted.exchange :
            \/ opening.Selections[o] = << >> /\ o \in quitters
            \/ Takes(racks[o], opening.Selections[o])
  BY <1>4 DEF OpeningIInv, SelectionsStillHeld
<1>6. sel \in [Places -> Sent \cup {<< >>}] /\ done \in SUBSET Places
  BY <1>1
<1>7. \A o \in done : (sel[o] = << >> /\ o \in quitters') \/ Takes(racks[o], sel[o])
  <2>1. sel[s] = selection /\ \A o \in Places \ {s} : sel[o] = opening.Selections[o]
    BY <1>1
  <2> HIDE DEF sel
  <2> QED
    BY <1>1, <1>5, <2>1
<1>8. initialRuleState.Selections \in [Places -> Sent \cup {<< >>}]
  BY DEF initialRuleState
<1> HIDE DEF d, sel, done
<1>9. /\ opening'.Submitted.exchange = done
      /\ opening' \in [Submitted    : [exchange : SUBSET Places, missing : SUBSET Places],
                       Selections   : [Places -> Sent \cup {<< >>}],
                       Direction    : {Unset} \cup 1..3,
                       MissingSuits : [Places -> {Unset} \cup SuitedSuits]]
  <2>1. PICK next \in [Places -> Sent \cup {<< >>}] :
            next = IF allSubmitted(done) THEN initialRuleState.Selections ELSE sel
    BY <1>6, <1>8
  <2>2. opening' = [opening EXCEPT !.Submitted.exchange = done, !.Direction = d, !.Selections = next]
    BY <1>3, <2>1
  <2> QED
    BY <1>2, <1>6, <2>2 DEF OpeningIInv, OpeningTypes
<1>10. ~allSubmitted(done) => opening'.Selections = sel
  <2>1. ASSUME ~allSubmitted(done)
        PROVE  opening' = [opening EXCEPT !.Submitted.exchange = done, !.Direction = d, !.Selections = sel]
    BY <1>3, <2>1
  <2> QED
    BY <2>1 DEF OpeningIInv, OpeningTypes
<1>11. CASE ~allSubmitted(done)
  <2>1. racks' = racks
    BY <1>3, <1>11
  <2>2. OpeningTypes'
    BY <1>1, <1>9, <2>1 DEF OpeningTypes
  <2>3. SelectionsStillHeld'
    BY <1>5, <1>7, <1>9, <1>10, <1>11, <2>1 DEF SelectionsStillHeld
  <2>4. TilesKept'
    <3>1. quitters' = {} => quitters = {}
      OBVIOUS
    <3> QED
      BY <2>1, <3>1 DEF OpeningIInv, TilesKept
  <2> QED
    BY <2>2, <2>3, <2>4 DEF OpeningIInv
<1>12. CASE allSubmitted(done)
  <2>1. done = Places
    BY <1>12 DEF allSubmitted
  <2>2. racks' = openingExchangeThreeWithSelections(sel, d)
    BY <1>3, <1>12
  <2>3. PICK r : r = openingExchangeThreeWithSelections(sel, d)
    OBVIOUS
  <2>4. \A o \in Places : sel[o] = << >> \/ Takes(racks[o], sel[o])
    BY <1>7, <2>1
  <2>5. /\ r \in [Places -> [Playable -> Nat]]
        /\ \A i \in Playable : r[0][i] + r[1][i] + r[2][i] + r[3][i]
                                 = racks[0][i] + racks[1][i] + racks[2][i] + racks[3][i]
        /\ (\A o \in Places : Takes(racks[o], sel[o])) => \A o \in Places : Total(r[o]) = Total(racks[o])
    BY <1>1, <1>2, <2>3, <2>4, ExchangeMoves
  <2>6. OpeningTypes'
    BY <1>9, <2>2, <2>3, <2>5 DEF OpeningTypes
  <2>7. SelectionsStillHeld'
    BY <1>9, <1>12 DEF SelectionsStillHeld, allSubmitted
  <2>8. TilesKept'
    <3>1. ASSUME NEW i \in Playable
          PROVE  racks'[0][i] + racks'[1][i] + racks'[2][i] + racks'[3][i]
                   = OpeningHands[0][i] + OpeningHands[1][i] + OpeningHands[2][i] + OpeningHands[3][i]
      BY <1>5, <2>2, <2>3, <2>5
    <3>2. ASSUME quitters' = {}, NEW o \in Places
          PROVE  Total(racks'[o]) = 13
      <4>1. \A p \in Places : Takes(racks[p], sel[p])
        BY <1>7, <2>1, <3>2
      <4>2. Total(racks[o]) = 13
        BY <1>5, OpeningAssumption
      <4> QED
        BY <2>2, <2>3, <2>5, <4>1, <4>2
    <3> QED
      BY <3>1, <3>2 DEF TilesKept
  <2> QED
    BY <2>6, <2>7, <2>8 DEF OpeningIInv
<1> QED
  BY <1>11, <1>12

(* The suit chosen for a player is one of the three.                       *)
LEMMA SomeSuitChosen ==
    ASSUME NEW hand \in [Playable -> Nat]
    PROVE  chooseMissingSuit(hand) \in SuitedSuits
<1> DEFINE f(t) == RackSuit(hand, t)
           best == {t \in SuitedSuits : \A o \in SuitedSuits : f(t) <= f(o)}
<1>1. ASSUME NEW t \in SuitedSuits
      PROVE  f(t) \in Nat
  <2>1. PICK D : D = 9 * t .. 9 * t + 8
    OBVIOUS
  <2>2. D \subseteq Playable
    <3>1. t = 0 \/ t = 1 \/ t = 2
      BY DEF SuitedSuits
    <3>2. Playable = 0..33
      BY DEF Playable, PlayableTileCount
    <3>3. ASSUME NEW i \in D
          PROVE  i \in 0..33
      <4>1. i \in Int /\ 9 * t <= i /\ i <= 9 * t + 8 /\ t \in Int
        BY <2>1, <3>1
      <4>2. 9 * t = 0 \/ 9 * t = 9 \/ 9 * t = 18
        BY <3>1
      <4> QED
        BY <4>1, <4>2
    <3> QED
      BY <3>2, <3>3
  <2>3. IsFiniteSet(D)
    BY <2>2, PlayableFinite, FS_Subset
  <2>4. [i \in D |-> hand[i]] \in [D -> Nat]
    BY <2>2
  <2>5. Total([i \in D |-> hand[i]]) \in Nat
    BY <2>3, <2>4, TotalType
  <2> QED
    BY <2>1, <2>5 DEF RackSuit
<1> HIDE DEF f
<1>2. \E t \in SuitedSuits : \A o \in SuitedSuits : f(t) <= f(o)
  <2>1. PICK a, b, c : a = f(0) /\ b = f(1) /\ c = f(2)
    OBVIOUS
  <2>2. a \in Nat /\ b \in Nat /\ c \in Nat
    BY <1>1, <2>1 DEF SuitedSuits
  <2>3. \A o \in SuitedSuits : f(o) = a \/ f(o) = b \/ f(o) = c
    BY <2>1 DEF SuitedSuits
  <2>4. CASE a <= b /\ a <= c
    BY <2>1, <2>2, <2>3, <2>4 DEF SuitedSuits
  <2>5. CASE b <= a /\ b <= c
    BY <2>1, <2>2, <2>3, <2>5 DEF SuitedSuits
  <2>6. CASE c <= a /\ c <= b
    BY <2>1, <2>2, <2>3, <2>6 DEF SuitedSuits
  <2> QED
    BY <2>2, <2>4, <2>5, <2>6
<1>3. best # {} /\ best \subseteq 0..2
  BY <1>2 DEF SuitedSuits
<1>4. chooseMissingSuit(hand) = CHOOSE x \in best : \A y \in best : x <= y
  BY DEF chooseMissingSuit, Min, f
<1> HIDE DEF best
<1>5. \E x \in best : \A y \in best : x <= y
  <2>1. CASE 0 \in best
    BY <1>3, <2>1
  <2>2. CASE 0 \notin best /\ 1 \in best
    BY <1>3, <2>2
  <2>3. CASE 0 \notin best /\ 1 \notin best
    <3>1. \A y \in best : y = 2
      BY <1>3, <2>3
    <3>2. 2 \in best
      BY <1>3, <3>1
    <3> QED
      BY <3>1, <3>2
  <2> QED
    BY <2>1, <2>2, <2>3
<1> QED
  BY <1>3, <1>4, <1>5 DEF SuitedSuits

(* Declaring a missing suit moves no tile and leaves the selections alone. *)
LEMMA MissingStep ==
    ASSUME OpeningIInv, NEW s \in Places, NEW suit \in {Unset} \cup SuitedSuits,
           applyMissingSuit(s, suit), quitters' \in SUBSET Places, quitters \subseteq quitters'
    PROVE  OpeningIInv'
<1>1. /\ opening' = [opening EXCEPT !.Submitted.missing = @ \cup {s}, !.MissingSuits[s] = suit]
      /\ racks' = racks /\ CurrentStep = "missing"
  BY DEF applyMissingSuit
<1>2. /\ opening'.Submitted.exchange = opening.Submitted.exchange
      /\ opening'.Selections = opening.Selections
      /\ opening' \in [Submitted    : [exchange : SUBSET Places, missing : SUBSET Places],
                       Selections   : [Places -> Sent \cup {<< >>}],
                       Direction    : {Unset} \cup 1..3,
                       MissingSuits : [Places -> {Unset} \cup SuitedSuits]]
  BY <1>1 DEF OpeningIInv, OpeningTypes
<1>3. allSubmitted(opening.Submitted.exchange)
  BY <1>1 DEF CurrentStep
<1>4. OpeningTypes'
  BY <1>1, <1>2 DEF OpeningIInv, OpeningTypes
<1>5. SelectionsStillHeld'
  BY <1>2, <1>3 DEF SelectionsStillHeld, allSubmitted
<1>6. TilesKept'
  <2>1. quitters' = {} => quitters = {}
    OBVIOUS
  <2> QED
    BY <1>1, <2>1 DEF OpeningIInv, TilesKept
<1> QED
  BY <1>4, <1>5, <1>6 DEF OpeningIInv

(* Every step of the opening, the timeout of a silent seat and an auto     *)
(* exchange included, keeps its inductive invariant.                       *)
LEMMA OpeningKeeps == OpeningIInv /\ [OpeningNext]_openingVars => OpeningIInv'
<1> SUFFICES ASSUME OpeningIInv, [OpeningNext]_openingVars
             PROVE  OpeningIInv'
  OBVIOUS
<1>1. quitters \in SUBSET Places /\ racks \in [Places -> [Playable -> Nat]]
  BY DEF OpeningIInv, OpeningTypes
<1>2. ASSUME NEW s \in Places, Apply(s)
      PROVE  OpeningIInv'
  <2>1. quitters' = quitters
    BY <1>2 DEF Apply
  <2>2. ASSUME NEW raws \in Sent, NEW dir \in 0..2,
               normalizeOpeningExchangeSelection(racks[s], raws) # << >>,
               applyExchange(s, normalizeOpeningExchangeSelection(racks[s], raws), dir)
        PROVE  OpeningIInv'
    <3>1. normalizeOpeningExchangeSelection(racks[s], raws) = raws /\ Takes(racks[s], raws)
      BY <2>2 DEF normalizeOpeningExchangeSelection
    <3>2. applyExchange(s, raws, dir)
      BY <2>2, <3>1
    <3> QED
      BY <1>1, <2>1, <3>1, <3>2, ExchangeStep
  <2>3. ASSUME NEW suit \in {2, 3},
               applyMissingSuit(s, IF suit \in SuitedSuits THEN suit ELSE chooseMissingSuit(racks[s]))
        PROVE  OpeningIInv'
    <3>1. PICK t : t = IF suit \in SuitedSuits THEN suit ELSE chooseMissingSuit(racks[s])
      OBVIOUS
    <3>2. racks[s] \in [Playable -> Nat]
      BY <1>1
    <3>3. t \in {Unset} \cup SuitedSuits
      BY <3>1, <3>2, SomeSuitChosen
    <3>4. applyMissingSuit(s, t)
      BY <2>3, <3>1
    <3> QED
      BY <1>1, <2>1, <3>3, <3>4, MissingStep
  <2> QED
    BY <1>2, <2>2, <2>3 DEF Apply
<1>3. ASSUME NEW s \in Places, surrenderOpeningSeat(s)
      PROVE  OpeningIInv'
  <2>1. quitters' = quitters \cup {s} /\ (applyExchange(s, << >>, 0) \/ applyMissingSuit(s, Unset))
    BY <1>3 DEF surrenderOpeningSeat
  <2>2. quitters' \in SUBSET Places /\ quitters \subseteq quitters' /\ s \in quitters'
    BY <1>1, <2>1
  <2>3. CASE applyExchange(s, << >>, 0)
    BY <2>2, <2>3, ExchangeStep
  <2>4. CASE applyMissingSuit(s, Unset)
    BY <2>2, <2>4, MissingStep
  <2> QED
    BY <2>1, <2>3, <2>4
<1>4. CASE UNCHANGED openingVars
  BY <1>4 DEF openingVars, OpeningIInv, OpeningTypes, SelectionsStillHeld, TilesKept
<1> QED
  BY <1>2, <1>3, <1>4 DEF OpeningNext

(* opening.go, for any hands and whatever players send in whatever order:  *)
(* the exchange loses and invents no tile, and leaves every hand thirteen  *)
(* tiles unless a seat was surrendered.                                    *)
THEOREM OpeningConserves == OpeningSpec => []ExchangeConserves
<1>1. ASSUME OpeningIInv
      PROVE  ExchangeConserves
  <2>1. racks \in [Places -> [Playable -> Nat]] /\ OpeningHands \in [Places -> [Playable -> Nat]]
    <3>1. \A s \in Places : OpeningHands[s] \in [Playable -> Nat]
      BY OpeningAssumption
    <3>2. OpeningHands \in [Places -> [Playable -> Nat]]
      BY <3>1, OpeningAssumption
    <3> QED
      BY <1>1, <3>2 DEF OpeningIInv, OpeningTypes
  <2>2. ASSUME NEW i \in Playable
        PROVE  Total([s \in Places |-> racks[s][i]]) = Total([s \in Places |-> OpeningHands[s][i]])
    <3>1. PICK a, b : a = [s \in 0..3 |-> racks[s][i]] /\ b = [s \in 0..3 |-> OpeningHands[s][i]]
      OBVIOUS
    <3>2. a \in [0..3 -> Nat] /\ b \in [0..3 -> Nat]
      BY <2>1, <3>1 DEF Places
    <3>3. Total(a) = a[0] + a[1] + a[2] + a[3] /\ Total(b) = b[0] + b[1] + b[2] + b[3]
      BY <3>2, TotalOfSeats
    <3>4. a[0] + a[1] + a[2] + a[3] = b[0] + b[1] + b[2] + b[3]
      BY <1>1, <3>1 DEF OpeningIInv, TilesKept
    <3> QED
      BY <3>1, <3>3, <3>4 DEF Places
  <2> QED
    BY <1>1, <2>2 DEF ExchangeConserves, OpeningIInv, TilesKept
<1> QED
  BY <1>1, OpeningStarts, OpeningKeeps, PTL DEF OpeningSpec
(* The tile of a suited index, and that tile's index.                      *)
LEMMA SuitedTile ==
    ASSUME NEW i \in 0..SuitedTileCount - 1
    PROVE  /\ \E q \in 0..2, r \in 0..8 : i = q * 9 + r /\ FromIndex(i) = 16 * q + r + 1
           /\ Suit(FromIndex(i)) \in 0..2
           /\ \E r \in 0..8 : i = Suit(FromIndex(i)) * 9 + r
           /\ Index(FromIndex(i)) = i
<1>1. i \div 9 \in 0..2 /\ i % 9 \in 0..8 /\ i = (i \div 9) * 9 + (i % 9)
  BY DEF SuitedTileCount
<1>2. PICK q \in 0..2, r \in 0..8 : q = i \div 9 /\ r = i % 9 /\ i = q * 9 + r
  BY <1>1
<1>3. FromIndex(i) = New(q, r + 1)
  BY <1>2 DEF FromIndex, SuitedTileCount, PlayableTileCount, FullTileCount
<1>4. maxRank(q) = 9
  BY DEF maxRank, SuitedSuits, Honor, Flower
<1>5. FromIndex(i) = 16 * q + (r + 1)
  BY <1>3, <1>4 DEF New
<1>6. PICK t : t = 16 * q + (r + 1) /\ t = FromIndex(i)
  BY <1>5
<1>7. t \div 16 = q /\ t % 16 = r + 1
  BY <1>6
<1>8. Suit(t) = q /\ Rank(t) = r + 1 /\ IsSuited(t)
  BY <1>7 DEF Suit, Rank, IsSuited, SuitedSuits
<1>9. Index(t) = q * 9 + (r + 1) - 1
  BY <1>8 DEF Index, IsFlower, Honor, Flower
<1> QED
  BY <1>2, <1>5, <1>6, <1>8, <1>9

(* A suited index survives the conversion to a tile and back.              *)
LEMMA IndexBack ==
    ASSUME NEW i \in 0..SuitedTileCount - 1
    PROVE  Index(FromIndex(i)) = i
BY SuitedTile

(* A suited index is the suit's.                                           *)
LEMMA SuitOfIndex ==
    ASSUME NEW i \in Playable, NEW m \in SuitedSuits, Suit(FromIndex(i)) = m
    PROVE  \E r \in 0..8 : i = m * 9 + r
<1>1. CASE i < 27
  <2>1. i \in 0..SuitedTileCount - 1
    BY <1>1 DEF Playable, PlayableTileCount, SuitedTileCount
  <2> QED
    BY <2>1, SuitedTile
<1>2. CASE i >= 27
  <2>1. FromIndex(i) = 48 + (i - 26) /\ i \in 27..33
    BY <1>2 DEF FromIndex, New, maxRank, SuitedSuits, Playable, PlayableTileCount, FullTileCount, SuitedTileCount, Honor
  <2>2. (48 + (i - 26)) \div 16 = 3
    BY <2>1
  <2> QED
    BY <2>1, <2>2 DEF Suit, SuitedSuits
<1> QED
  BY <1>1, <1>2 DEF Playable, PlayableTileCount

(* Tiles that are there can be taken.                                      *)
LEMMA LessKept ==
    ASSUME NEW h \in [Playable -> Nat], NEW i \in Playable, NEW n \in Nat, h[i] >= n
    PROVE  Less(h, i, n) \in [Playable -> Nat] /\ \A j \in Playable \ {i} : Less(h, i, n)[j] = h[j]
<1>1. h[i] - n \in Nat
  OBVIOUS
<1>2. PICK q \in Nat : q = h[i] - n
  BY <1>1
<1>3. Less(h, i, n) = [h EXCEPT ![i] = q]
  BY <1>2 DEF Less
<1> QED
  BY <1>3

-----------------------------------------------------------------------------
(* A hand, tile by tile.  The tile of an index: its suit, its rank and the *)
(* index it goes back to.                                                  *)
TileAt(i, s, r) ==
    /\ s \in 0..3 /\ r \in 1..9 /\ r <= maxRank(s)
    /\ FromIndex(i) = 16 * s + r /\ Suit(FromIndex(i)) = s /\ Rank(FromIndex(i)) = r
    /\ Index(FromIndex(i)) = i /\ (s < 3 => i = 9 * s + r - 1)

(* Every index of the game, suited or honour, is the index of its tile.    *)
LEMMA PlayableTile ==
    ASSUME NEW i \in Playable
    PROVE  \E s, r : TileAt(i, s, r)
<1>1. CASE i < 27
  <2>1. i \in 0..SuitedTileCount - 1
    BY <1>1 DEF Playable, PlayableTileCount, SuitedTileCount
  <2>2. PICK q \in 0..2, r \in 0..8 : i = q * 9 + r /\ FromIndex(i) = 16 * q + r + 1
    BY <2>1, SuitedTile
  <2>3. Index(FromIndex(i)) = i
    BY <2>1, SuitedTile
  <2>4. maxRank(q) = 9
    BY DEF maxRank, SuitedSuits, Honor, Flower
  <2>5. PICK t : t = 16 * q + (r + 1) /\ t = FromIndex(i)
    BY <2>2
  <2>6. t \div 16 = q /\ t % 16 = r + 1
    BY <2>5
  <2>7. Suit(FromIndex(i)) = q /\ Rank(FromIndex(i)) = r + 1
    BY <2>5, <2>6 DEF Suit, Rank
  <2>8. PICK p \in 1..9 : p = r + 1
    OBVIOUS
  <2>9. q < 3 => i = 9 * q + p - 1
    BY <2>2, <2>8
  <2> QED
    BY <2>3, <2>4, <2>5, <2>7, <2>8, <2>9 DEF TileAt
<1>2. CASE i >= 27
  <2>1. i \in 27..33 /\ FromIndex(i) = 48 + (i - 26)
    BY <1>2 DEF FromIndex, New, maxRank, SuitedSuits, Playable, PlayableTileCount, FullTileCount, SuitedTileCount, Honor
  <2>2. PICK r \in 1..7 : r = i - 26 /\ FromIndex(i) = 48 + r
    BY <2>1
  <2>3. (48 + r) \div 16 = 3 /\ (48 + r) % 16 = r
    OBVIOUS
  <2>4. Suit(FromIndex(i)) = 3 /\ Rank(FromIndex(i)) = r
    BY <2>2, <2>3 DEF Suit, Rank
  <2>5. Index(FromIndex(i)) = 27 + r - 1
    BY <2>4 DEF Index, IsSuited, IsFlower, SuitedSuits, Honor, Flower, SuitedTileCount
  <2>6. maxRank(3) = 7
    BY DEF maxRank, SuitedSuits, Honor, Flower
  <2> QED
    BY <2>1, <2>2, <2>4, <2>5, <2>6 DEF TileAt
<1> QED
  BY <1>1, <1>2 DEF Playable, PlayableTileCount

(* The tiles of the game.                                                  *)
PlayTiles == {FromIndex(i) : i \in Playable}

(* The text of a tile is read back as the tile.                            *)
LEMMA TileReadBack ==
    ASSUME NEW t \in PlayTiles
    PROVE  t # 0 /\ t \in Nat /\ Parse(String(t)) = t
<1>1. PICK i \in Playable : t = FromIndex(i)
  BY DEF PlayTiles
<1>2. PICK s, r : TileAt(i, s, r)
  BY PlayableTile
<1>3. /\ s \in 0..3 /\ r \in 1..9 /\ r <= maxRank(s) /\ t = 16 * s + r /\ Suit(t) = s /\ Rank(t) = r
  BY <1>1, <1>2 DEF TileAt
<1>4. maxRank(s) \in Nat
  BY <1>3 DEF maxRank, SuitedSuits, Honor, Flower
<1>5. ASSUME NEW p \in 0..4, Letters[p + 1] = Letters[s + 1]
      PROVE  p = s
  <2>1. (p = 0 \/ p = 1 \/ p = 2 \/ p = 3 \/ p = 4) /\ (s = 0 \/ s = 1 \/ s = 2 \/ s = 3)
    BY <1>3
  <2>2. /\ Letters[1] = "m" /\ Letters[2] = "p" /\ Letters[3] = "s" /\ Letters[4] = "z" /\ Letters[5] = "f"
    BY DEF Letters
  <2>3. 0 + 1 = 1 /\ 1 + 1 = 2 /\ 2 + 1 = 3 /\ 3 + 1 = 4 /\ 4 + 1 = 5
    OBVIOUS
  <2> QED
    BY <1>5, <2>1, <2>2, <2>3
<1>6. PICK x : x = << Letters[s + 1], r >>
  OBVIOUS
<1>7. String(t) = x /\ x[1] = Letters[s + 1] /\ x[2] = r
  BY <1>3, <1>6 DEF String
<1>8. s \in 0..4 /\ Letters[s + 1] = x[1] /\ x[2] \in 1..maxRank(s)
  BY <1>3, <1>4, <1>7
<1>9. (CHOOSE p \in 0..4 : Letters[p + 1] = x[1]) = s
  BY <1>5, <1>7, <1>8
<1>10. Parse(x) = New(s, r)
  BY <1>7, <1>8, <1>9 DEF Parse
<1>11. New(s, r) = 16 * s + r
  BY <1>3, <1>4 DEF New
<1> QED
  BY <1>3, <1>7, <1>10, <1>11

(* No tile is dropped where every one is a tile.                           *)
LEMMA AllReal ==
    ASSUME NEW tiles \in Seq(PlayTiles)
    PROVE  RealTiles(tiles) = tiles
<1>1. \A k \in 1..Len(tiles) : tiles[k] # 0
  BY TileReadBack
<1>2. << >> \o tiles = tiles
  OBVIOUS
<1> QED
  BY <1>1, <1>2 DEF RealTiles

(* meld_fact.go: what encodeMeldFact writes of any kind of meld, of tiles  *)
(* of the game, parseMeldFact reads back as it was: the kind, every tile   *)
(* and the seat it was claimed from, or that there was none.               *)
THEOREM MeldFactsReadBack ==
    ASSUME NEW kind, NEW tiles \in Seq(PlayTiles), NEW from \in 0..3 \cup {SeatInvalid}
    PROVE  parseMeldFact(encodeMeldFact(kind, tiles, from))
             = [kind |-> kind, tiles |-> tiles, from |-> from, concealed |-> kind = "an_gang"]
<1>1. PICK texts : texts = [k \in 1..Len(tiles) |-> String(tiles[k])]
  OBVIOUS
<1>2. Len(tiles) \in Nat /\ Len(texts) = Len(tiles) /\ \A k \in 1..Len(tiles) : texts[k] = String(tiles[k])
  BY <1>1
<1>3. [k \in 1..Len(texts) |-> Parse(texts[k])] = tiles
  <2>1. \A k \in 1..Len(tiles) : tiles[k] \in PlayTiles
    OBVIOUS
  <2>2. \A k \in 1..Len(tiles) : Parse(texts[k]) = tiles[k]
    BY <1>2, <2>1, TileReadBack
  <2>3. [k \in 1..Len(texts) |-> Parse(texts[k])] = [k \in 1..Len(tiles) |-> tiles[k]]
    BY <1>2, <2>2
  <2>4. tiles = [k \in 1..Len(tiles) |-> tiles[k]]
    OBVIOUS
  <2> QED
    BY <2>3, <2>4
<1>4. PICK f : f = encodeMeldFact(kind, tiles, from)
  OBVIOUS
<1>5. f = IF from \in 0..3 THEN << kind, texts, from >> ELSE << kind, texts >>
  BY <1>1, <1>4, AllReal DEF encodeMeldFact
<1>6. f[1] = kind /\ f[2] = texts /\ (IF Len(f) = 3 THEN f[3] ELSE SeatInvalid) = from
  <2>1. CASE from \in 0..3
    BY <1>5, <2>1
  <2>2. CASE from \notin 0..3
    BY <1>5, <2>2
  <2> QED
    BY <2>1, <2>2
<1>7. RealTiles([k \in 1..Len(f[2]) |-> Parse(f[2][k])]) = tiles
  BY <1>3, <1>6, AllReal
<1> QED
  BY <1>4, <1>6, <1>7 DEF parseMeldFact

(* The melds a seat may lay down: three or four tiles, a pong three of one *)
(* kind, and only a concealed gang claimed from nobody.                    *)
MeldKinds == {"pong", "chi", "zhi_gang", "an_gang", "bu_gang"}

(* The melds a hand can lay down.                                          *)
LaidDown ==
    {m \in [kind : MeldKinds, tiles : Seq(PlayTiles), from : 0..3 \cup {SeatInvalid}] :
        /\ Len(m.tiles) \in {3, 4}
        /\ m.from = SeatInvalid <=> m.kind = "an_gang"
        /\ m.kind = "pong" => Len(m.tiles) = 3 /\ \A k \in 1..3 : m.tiles[k] = m.tiles[1]}

(* The strings the engine keeps of them.                                   *)
MeldFacts == {encodeMeldFact(m.kind, m.tiles, m.from) : m \in LaidDown}

(* The tiles such a string is read back as.                                *)
TilesIn(f) == parseMeldFact(f).tiles

(* What reading a meld back gives.                                         *)
FactRead(f) ==
    /\ TilesIn(f) \in Seq(PlayTiles) /\ Len(TilesIn(f)) \in {3, 4}
    /\ encodeMeldFact(parseMeldFact(f).kind, TilesIn(f), parseMeldFact(f).from) = f
    /\ parseMeldFact(f).from \in 0..3 \cup {SeatInvalid}
    /\ parseMeldFact(f).concealed <=> parseMeldFact(f).kind = "an_gang"
    /\ parseMeldFact(f).from = SeatInvalid <=> parseMeldFact(f).kind = "an_gang"
    /\ parseMeldFact(f).kind = "pong" =>
          Len(TilesIn(f)) = 3 /\ \A k \in 1..3 : TilesIn(f)[k] = TilesIn(f)[1]

(* What such a fact is read as.                                            *)
LEMMA FactsRead ==
    ASSUME NEW f \in MeldFacts
    PROVE  FactRead(f)
<1>1. PICK m \in LaidDown : f = encodeMeldFact(m.kind, m.tiles, m.from)
  BY DEF MeldFacts
<1>2. PICK kind, tiles, from : kind = m.kind /\ tiles = m.tiles /\ from = m.from
  OBVIOUS
<1>3. /\ tiles \in Seq(PlayTiles) /\ from \in 0..3 \cup {SeatInvalid} /\ Len(tiles) \in {3, 4}
      /\ from = SeatInvalid <=> kind = "an_gang"
      /\ kind = "pong" => Len(tiles) = 3 /\ \A k \in 1..3 : tiles[k] = tiles[1]
  BY <1>2 DEF LaidDown
<1>4. f = encodeMeldFact(kind, tiles, from)
  BY <1>1, <1>2
<1>5. parseMeldFact(f) = [kind |-> kind, tiles |-> tiles, from |-> from, concealed |-> kind = "an_gang"]
  BY <1>3, <1>4, MeldFactsReadBack
<1>6. /\ parseMeldFact(f).kind = kind /\ TilesIn(f) = tiles /\ parseMeldFact(f).from = from
      /\ parseMeldFact(f).concealed <=> kind = "an_gang"
  <2>1. parseMeldFact(f).kind = kind /\ TilesIn(f) = tiles /\ parseMeldFact(f).from = from
    BY <1>5 DEF TilesIn
  <2>2. PICK b : b = (kind = "an_gang")
    OBVIOUS
  <2>3. parseMeldFact(f).concealed = b
    BY <1>5, <2>2
  <2>4. parseMeldFact(f).concealed <=> kind = "an_gang"
    BY <2>2, <2>3, Zenon
  <2> QED
    BY <2>1, <2>4, Zenon
<1> QED
  BY <1>3, <1>4, <1>6, Zenon DEF FactRead

(* A meld that is laid down makes a fact, and what its tiles are.          *)
LEMMA FactMade ==
    ASSUME NEW kind \in MeldKinds, NEW tiles \in Seq(PlayTiles), NEW from \in 0..3 \cup {SeatInvalid},
           Len(tiles) \in {3, 4}, from = SeatInvalid <=> kind = "an_gang",
           kind = "pong" => Len(tiles) = 3 /\ \A k \in 1..3 : tiles[k] = tiles[1]
    PROVE  encodeMeldFact(kind, tiles, from) \in MeldFacts /\ TilesIn(encodeMeldFact(kind, tiles, from)) = tiles
<1>1. PICK m : m = [kind |-> kind, tiles |-> tiles, from |-> from]
  OBVIOUS
<1>2. m.kind = kind /\ m.tiles = tiles /\ m.from = from
  BY <1>1
<1>3. m \in [kind : MeldKinds, tiles : Seq(PlayTiles), from : 0..3 \cup {SeatInvalid}]
  BY <1>1
<1>4. m \in LaidDown
  BY <1>2, <1>3, Zenon DEF LaidDown
<1>5. encodeMeldFact(kind, tiles, from) \in MeldFacts
  BY <1>2, <1>4, Zenon DEF MeldFacts
<1>6. TilesIn(encodeMeldFact(kind, tiles, from)) = tiles
  BY MeldFactsReadBack DEF TilesIn
<1> QED
  BY <1>5, <1>6

(* The rules see every fact as a meld.                                     *)
LEMMA MeldsAre ==
    ASSUME NEW fs \in Seq(MeldFacts)
    PROVE  meldContexts(fs)
             = [k \in 1..Len(fs) |->
                   [kind |-> parseMeldFact(fs[k]).kind, tiles |-> TilesIn(fs[k]),
                    concealed |-> parseMeldFact(fs[k]).concealed]]
<1> DEFINE context(f) == LET m == parseMeldFact(f)
                         IN  [kind |-> m.kind, tiles |-> expandMeldTiles(m), concealed |-> m.concealed]
           all == [k \in 1..Len(fs) |-> context(fs[k])]
<1>1. ASSUME NEW f \in MeldFacts
      PROVE  /\ context(f) = [kind |-> parseMeldFact(f).kind, tiles |-> TilesIn(f),
                              concealed |-> parseMeldFact(f).concealed]
             /\ ~(Len(context(f).tiles) < 3)
  <2>1. PICK m : m = parseMeldFact(f)
    OBVIOUS
  <2>2. Len(m.tiles) \in {3, 4}
    BY <2>1, FactsRead DEF FactRead, TilesIn
  <2>3. expandMeldTiles(m) = m.tiles
    <3>1. Len(m.tiles) # 1
      <4>1. \A n \in {3, 4} : n # 1
        OBVIOUS
      <4> QED
        BY <2>2, <4>1, Zenon
    <3> QED
      BY <3>1, Zenon DEF expandMeldTiles
  <2>4. context(f) = [kind |-> m.kind, tiles |-> m.tiles, concealed |-> m.concealed]
    BY <2>1, <2>3
  <2>5. context(f).tiles = m.tiles
    BY <2>4
  <2> HIDE DEF context
  <2>6. ~(Len(context(f).tiles) < 3)
    <3>1. PICK n : n = Len(m.tiles)
      OBVIOUS
    <3>2. Len(context(f).tiles) = n /\ n \in {3, 4}
      BY <2>2, <2>5, <3>1, Zenon
    <3>3. ~(n < 3)
      BY <3>2
    <3> QED
      BY <3>2, <3>3, Zenon
  <2> QED
    BY <2>1, <2>4, <2>6 DEF TilesIn
<1>2. \A k \in 1..Len(fs) : fs[k] \in MeldFacts
  OBVIOUS
<1>3. meldContexts(fs) = IF \E k \in 1..Len(all) : Len(all[k].tiles) < 3
                         THEN SelectSeq(all, LAMBDA m : Len(m.tiles) >= 3)
                         ELSE << >> \o all
  BY Zenon DEF meldContexts
<1>4. Len(all) = Len(fs) /\ Len(fs) \in Nat /\ \A k \in 1..Len(fs) : all[k] = context(fs[k])
  <2> HIDE DEF context
  <2> QED
    OBVIOUS
<1>5. ~\E k \in 1..Len(all) : Len(all[k].tiles) < 3
  <2> HIDE DEF context, all
  <2> QED
    BY <1>1, <1>2, <1>4
<1>6. << >> \o all = all
  <2>1. all \in Seq({context(fs[k]) : k \in 1..Len(fs)})
    <3> HIDE DEF context
    <3> QED
      BY <1>4
  <2> HIDE DEF all, context
  <2> QED
    BY <2>1
<1>7. meldContexts(fs) = all
  <2> HIDE DEF all
  <2> QED
    BY <1>3, <1>5, <1>6, Zenon
<1> HIDE DEF context
<1> QED
  BY <1>1, <1>2, <1>7

(* One thing taken out of what is counted.                                 *)
LEMMA TotalWithout ==
    ASSUME NEW D, IsFiniteSet(D), NEW c \in [D -> Nat], NEW x \in D
    PROVE  /\ Total(c) = Total([i \in D \ {x} |-> c[i]]) + c[x]
           /\ Total([i \in D \ {x} |-> c[i]]) \in Nat
<1>1. PICK A : A = D \ {x}
  OBVIOUS
<1>2. A \cup {x} = D /\ A \cap {x} = {} /\ IsFiniteSet(A)
  BY <1>1, FS_Subset
<1>3. Total(c) = Total([i \in A |-> c[i]]) + Total([i \in {x} |-> c[i]])
  BY <1>2, TotalSplit
<1>4. PICK o : o = [i \in {x} |-> c[i]]
  OBVIOUS
<1>5. o \in [{x} -> Nat] /\ o[x] = c[x]
  BY <1>4
<1>6. Total(o) = c[x]
  BY <1>5, TotalOne
<1>7. PICK a : a = [i \in A |-> c[i]]
  OBVIOUS
<1>8. a \in [A -> Nat]
  BY <1>1, <1>7
<1>9. Total(a) \in Nat
  BY <1>2, <1>8, TotalType
<1> QED
  BY <1>1, <1>3, <1>4, <1>6, <1>7, <1>9

(* c and d agree everywhere but at x.                                      *)
Elsewhere(D, x, c, d) == \A i \in D \ {x} : d[i] = c[i]

(* One count changes.                                                      *)
LEMMA TotalReplaced ==
    ASSUME NEW D, IsFiniteSet(D), NEW c \in [D -> Nat], NEW d \in [D -> Nat], NEW x \in D,
           Elsewhere(D, x, c, d)
    PROVE  Total(d) + c[x] = Total(c) + d[x] /\ Total(c) \in Nat /\ Total(d) \in Nat
<1>1. PICK a : a = Total([i \in D \ {x} |-> c[i]])
  OBVIOUS
<1>2. Total(c) = a + c[x] /\ a \in Nat
  BY <1>1, TotalWithout
<1>3. Total(d) = Total([i \in D \ {x} |-> d[i]]) + d[x]
  BY TotalWithout
<1>4. [i \in D \ {x} |-> d[i]] = [i \in D \ {x} |-> c[i]]
  BY DEF Elsewhere
<1>5. Total(d) = a + d[x]
  BY <1>1, <1>3, <1>4
<1> QED
  BY <1>2, <1>5

(* One more is counted at the end.                                         *)
LEMMA TotalAppended ==
    ASSUME NEW n \in Nat, NEW c \in [1..n -> Nat], NEW d \in [1..n + 1 -> Nat],
           \A k \in 1..n : d[k] = c[k]
    PROVE  Total(d) = Total(c) + d[n + 1] /\ Total(c) \in Nat
<1>1. PICK D, x : D = 1..n + 1 /\ x = n + 1
  OBVIOUS
<1>2. x \in D /\ D \ {x} = 1..n
  BY <1>1
<1>3. IsFiniteSet(D)
  <2>1. 1 \in Int /\ n + 1 \in Int
    OBVIOUS
  <2> QED
    BY <1>1, <2>1, FS_Interval, Zenon
<1>4. d \in [D -> Nat]
  BY <1>1
<1>5. Total(d) = Total([i \in D \ {x} |-> d[i]]) + d[x] /\ Total([i \in D \ {x} |-> d[i]]) \in Nat
  BY <1>2, <1>3, <1>4, TotalWithout
<1>6. [i \in D \ {x} |-> d[i]] = c
  BY <1>2
<1> QED
  BY <1>1, <1>5, <1>6

(* A meld of n copies of t.                                                *)
AllSame(s, n, t) == s = [k \in 1..n |-> t]

(* How often a tile occurs among n of one tile, and among others.          *)
LEMMA SameCounted ==
    ASSUME NEW n \in Nat, NEW t, NEW u, NEW s, AllSame(s, n, t)
    PROVE  countTile(s, u) = IF t = u THEN n ELSE 0
<1>2. Len(s) = n /\ \A k \in 1..n : s[k] = t
  BY DEF AllSame
<1>3. CASE t = u
  <2>1. {k \in 1..Len(s) : s[k] = u} = 1..n
    BY <1>2, <1>3
  <2>2. Cardinality(1..n) = n
    <3>1. 1 \in Int /\ n \in Int
      OBVIOUS
    <3>2. Cardinality(1..n) = IF 1 > n THEN 0 ELSE n - 1 + 1
      BY <3>1, FS_Interval, Zenon
    <3> QED
      BY <3>2
  <2> QED
    BY <1>3, <2>1, <2>2 DEF countTile
<1>4. CASE t # u
  <2>1. {k \in 1..Len(s) : s[k] = u} = {}
    BY <1>2, <1>4
  <2> QED
    BY <1>4, <2>1, FS_EmptySet DEF countTile
<1> QED
  BY <1>3, <1>4

(* How often a tile occurs is a number.                                    *)
LEMMA CountedType ==
    ASSUME NEW T, NEW s \in Seq(T), NEW u
    PROVE  countTile(s, u) \in Nat /\ Len(s) \in Nat
<1>1. 1 \in Int /\ Len(s) \in Int /\ Len(s) \in Nat
  OBVIOUS
<1>2. IsFiniteSet(1..Len(s))
  BY <1>1, FS_Interval, Zenon
<1>3. {k \in 1..Len(s) : s[k] = u} \subseteq 1..Len(s)
  OBVIOUS
<1>4. IsFiniteSet({k \in 1..Len(s) : s[k] = u})
  BY <1>2, <1>3, FS_Subset, Zenon
<1> QED
  BY <1>1, <1>4, FS_CardinalityType DEF countTile

(* The lengths of a seat's melds, which are gangs, and how many tiles of   *)
(* an index each shows.                                                    *)
LensOf(fs) == [k \in 1..Len(fs) |-> Len(TilesIn(fs[k]))]

(* The gangs among the melds.                                              *)
FoursOf(fs) == {k \in 1..Len(fs) : Len(TilesIn(fs[k])) = 4}

(* How many copies of a tile each meld shows.                              *)
ShowsOf(fs, i) == [k \in 1..Len(fs) |-> countTile(TilesIn(fs[k]), FromIndex(i))]

(* The melds of a hand can be counted: their tiles, their gangs and the    *)
(* copies of a tile they show are numbers.                                 *)
LEMMA MeldsCounted ==
    ASSUME NEW fs \in Seq(MeldFacts), NEW i
    PROVE  /\ Len(fs) \in Nat /\ IsFiniteSet(1..Len(fs))
           /\ LensOf(fs) \in [1..Len(fs) -> Nat] /\ ShowsOf(fs, i) \in [1..Len(fs) -> Nat]
           /\ IsFiniteSet(FoursOf(fs))
<1>1. ASSUME NEW f \in MeldFacts
      PROVE  Len(TilesIn(f)) \in Nat /\ countTile(TilesIn(f), FromIndex(i)) \in Nat
  <2>1. TilesIn(f) \in Seq(PlayTiles)
    BY FactsRead DEF FactRead
  <2> QED
    BY <2>1, CountedType
<1>2. Len(fs) \in Nat /\ \A k \in 1..Len(fs) : fs[k] \in MeldFacts
  OBVIOUS
<1>3. LensOf(fs) \in [1..Len(fs) -> Nat] /\ ShowsOf(fs, i) \in [1..Len(fs) -> Nat]
  BY <1>1, <1>2 DEF LensOf, ShowsOf
<1>4. IsFiniteSet(1..Len(fs))
  <2>1. 1 \in Int /\ Len(fs) \in Int
    BY <1>2
  <2> QED
    BY <2>1, FS_Interval, Zenon
<1>5. FoursOf(fs) \subseteq 1..Len(fs)
  BY DEF FoursOf
<1> QED
  BY <1>2, <1>3, <1>4, <1>5, FS_Subset, Zenon

(* A meld is laid down: it is counted with the others.                     *)
LEMMA FactAdded ==
    ASSUME NEW fs \in Seq(MeldFacts), NEW f \in MeldFacts
    PROVE  /\ Total(LensOf(Append(fs, f))) = Total(LensOf(fs)) + Len(TilesIn(f))
           /\ Cardinality(FoursOf(Append(fs, f)))
                = Cardinality(FoursOf(fs)) + (IF Len(TilesIn(f)) = 4 THEN 1 ELSE 0)
           /\ \A i \in Playable : Total(ShowsOf(Append(fs, f), i))
                                    = Total(ShowsOf(fs, i)) + countTile(TilesIn(f), FromIndex(i))
<1>1. PICK gs : gs = Append(fs, f)
  OBVIOUS
<1>2. PICK n \in Nat : n = Len(fs)
  OBVIOUS
<1>3. gs \in Seq(MeldFacts) /\ Len(gs) = n + 1 /\ gs[n + 1] = f /\ \A k \in 1..n : gs[k] = fs[k]
  BY <1>1, <1>2
<1>4. Total(LensOf(gs)) = Total(LensOf(fs)) + Len(TilesIn(f))
  <2>1. PICK c, d : c = LensOf(fs) /\ d = LensOf(gs)
    OBVIOUS
  <2>2. c \in [1..n -> Nat] /\ d \in [1..n + 1 -> Nat]
    BY <2>1, <1>2, <1>3, MeldsCounted
  <2>3. d[n + 1] = Len(TilesIn(f)) /\ \A k \in 1..n : d[k] = c[k]
    BY <2>1, <1>2, <1>3 DEF LensOf
  <2> QED
    BY <2>1, <2>2, <2>3, TotalAppended
<1>5. ASSUME NEW i \in Playable
      PROVE  Total(ShowsOf(gs, i)) = Total(ShowsOf(fs, i)) + countTile(TilesIn(f), FromIndex(i))
  <2>1. PICK c, d : c = ShowsOf(fs, i) /\ d = ShowsOf(gs, i)
    OBVIOUS
  <2>2. c \in [1..n -> Nat] /\ d \in [1..n + 1 -> Nat]
    BY <2>1, <1>2, <1>3, MeldsCounted
  <2>3. d[n + 1] = countTile(TilesIn(f), FromIndex(i)) /\ \A k \in 1..n : d[k] = c[k]
    BY <2>1, <1>2, <1>3 DEF ShowsOf
  <2> QED
    BY <2>1, <2>2, <2>3, TotalAppended
<1>6. Cardinality(FoursOf(gs)) = Cardinality(FoursOf(fs)) + (IF Len(TilesIn(f)) = 4 THEN 1 ELSE 0)
  <2>1. IsFiniteSet(FoursOf(fs)) /\ n + 1 \notin FoursOf(fs)
    <3>1. IsFiniteSet(FoursOf(fs))
      BY MeldsCounted, Zenon
    <3>2. n + 1 \notin FoursOf(fs)
      BY <1>2 DEF FoursOf
    <3> QED
      BY <3>1, <3>2
  <2>2. Cardinality(FoursOf(fs)) \in Nat
    BY <2>1, FS_CardinalityType
  <2>3. CASE Len(TilesIn(f)) = 4
    <3>1. FoursOf(gs) = FoursOf(fs) \cup {n + 1}
      BY <1>2, <1>3, <2>3 DEF FoursOf
    <3>2. Cardinality(FoursOf(gs)) = Cardinality(FoursOf(fs)) + 1
      BY <2>1, <3>1, FS_AddElement
    <3> QED
      BY <2>3, <3>2
  <2>4. CASE Len(TilesIn(f)) # 4
    <3>1. FoursOf(gs) = FoursOf(fs)
      BY <1>2, <1>3, <2>4 DEF FoursOf
    <3> QED
      BY <2>2, <2>4, <3>1
  <2> QED
    BY <2>3, <2>4
<1> QED
  BY <1>1, <1>4, <1>5, <1>6

(* A meld of three becomes one of four.                                    *)
LEMMA FactGrown ==
    ASSUME NEW fs \in Seq(MeldFacts), NEW f \in MeldFacts, NEW x \in 1..Len(fs),
           Len(TilesIn(fs[x])) = 3, Len(TilesIn(f)) = 4
    PROVE  /\ Total(LensOf([fs EXCEPT ![x] = f])) = Total(LensOf(fs)) + 1
           /\ Cardinality(FoursOf([fs EXCEPT ![x] = f])) = Cardinality(FoursOf(fs)) + 1
           /\ \A i \in Playable : Total(ShowsOf([fs EXCEPT ![x] = f], i)) + countTile(TilesIn(fs[x]), FromIndex(i))
                                    = Total(ShowsOf(fs, i)) + countTile(TilesIn(f), FromIndex(i))
<1>1. PICK gs : gs = [fs EXCEPT ![x] = f]
  OBVIOUS
<1>2. PICK n \in Nat : n = Len(fs)
  OBVIOUS
<1>3. gs \in Seq(MeldFacts) /\ Len(gs) = n /\ gs[x] = f /\ \A k \in 1..n : k # x => gs[k] = fs[k]
  BY <1>1, <1>2
<1>4. PICK D : D = 1..n
  OBVIOUS
<1>5. IsFiniteSet(D) /\ x \in D
  BY <1>2, <1>4, MeldsCounted
<1>6. Total(LensOf(gs)) = Total(LensOf(fs)) + 1
  <2>1. PICK c, d : c = LensOf(fs) /\ d = LensOf(gs)
    OBVIOUS
  <2>2. c \in [D -> Nat] /\ d \in [D -> Nat]
    BY <2>1, <1>2, <1>3, <1>4, MeldsCounted
  <2>3. c[x] = 3 /\ d[x] = 4 /\ \A k \in D \ {x} : d[k] = c[k]
    BY <2>1, <1>2, <1>3, <1>4 DEF LensOf
  <2>4. Total(d) + c[x] = Total(c) + d[x] /\ Total(c) \in Nat /\ Total(d) \in Nat
    <3>1. Elsewhere(D, x, c, d)
      BY <2>3 DEF Elsewhere
    <3> QED
      BY <1>5, <2>2, <3>1, TotalReplaced, Zenon
  <2> QED
    BY <2>1, <2>3, <2>4
<1>7. ASSUME NEW i \in Playable
      PROVE  Total(ShowsOf(gs, i)) + countTile(TilesIn(fs[x]), FromIndex(i))
               = Total(ShowsOf(fs, i)) + countTile(TilesIn(f), FromIndex(i))
  <2>1. PICK c, d : c = ShowsOf(fs, i) /\ d = ShowsOf(gs, i)
    OBVIOUS
  <2>2. c \in [D -> Nat] /\ d \in [D -> Nat]
    BY <2>1, <1>2, <1>3, <1>4, MeldsCounted
  <2>3. /\ c[x] = countTile(TilesIn(fs[x]), FromIndex(i)) /\ d[x] = countTile(TilesIn(f), FromIndex(i))
        /\ \A k \in D \ {x} : d[k] = c[k]
    BY <2>1, <1>2, <1>3, <1>4 DEF ShowsOf
  <2>4. Total(d) + c[x] = Total(c) + d[x]
    <3>1. Elsewhere(D, x, c, d)
      BY <2>3 DEF Elsewhere
    <3> QED
      BY <1>5, <2>2, <3>1, TotalReplaced, ZenonT(60)
  <2> QED
    BY <2>1, <2>3, <2>4
<1>8. Cardinality(FoursOf(gs)) = Cardinality(FoursOf(fs)) + 1
  <2>1. IsFiniteSet(FoursOf(fs)) /\ x \notin FoursOf(fs)
    <3>1. IsFiniteSet(FoursOf(fs))
      BY MeldsCounted, Zenon
    <3>2. x \notin FoursOf(fs)
      <4>1. Len(TilesIn(fs[x])) # 4
        <5>1. \A k : k = 3 => k # 4
          OBVIOUS
        <5> QED
          BY <5>1, Zenon
      <4> QED
        BY <4>1, Zenon DEF FoursOf
    <3> QED
      BY <3>1, <3>2
  <2>2. FoursOf(gs) = FoursOf(fs) \cup {x}
    BY <1>2, <1>3 DEF FoursOf
  <2> QED
    BY <2>1, <2>2, FS_AddElement
<1> QED
  BY <1>1, <1>6, <1>7, <1>8

(* The tiles of a run: neighbours in one suit.                             *)
RunAt(t, a, k) ==
    LET u == Run(t, a)[k]
    IN  /\ u = 16 * Suit(t) + (a + k - 1) /\ Suit(u) = Suit(t) /\ Rank(u) = a + k - 1
        /\ Index(u) = 9 * Suit(t) + (a + k - 2) /\ Index(u) \in Playable /\ u \in PlayTiles

(* The k-th tile of a run that starts at rank a is the suited tile of that *)
(* rank.                                                                   *)
LEMMA RunTile ==
    ASSUME NEW t, Suit(t) \in 0..2, NEW a \in 1..7, NEW k \in 1..3
    PROVE  RunAt(t, a, k)
<1>1. PICK s \in 0..2 : s = Suit(t)
  OBVIOUS
<1>2. PICK r \in 0..8 : r = a + k - 2
  OBVIOUS
<1>3. PICK u : u = Run(t, a)[k]
  OBVIOUS
<1>4. maxRank(s) = 9
  BY DEF maxRank, SuitedSuits, Honor, Flower
<1>5. u = New(s, a + k - 1) /\ a + k - 1 = r + 1
  BY <1>1, <1>2, <1>3 DEF Run
<1>6. u = 16 * s + (r + 1)
  BY <1>4, <1>5 DEF New
<1>7. u \div 16 = s /\ u % 16 = r + 1
  BY <1>6
<1>8. Suit(u) = s /\ Rank(u) = r + 1 /\ IsSuited(u)
  BY <1>7 DEF Suit, Rank, IsSuited, SuitedSuits
<1>9. Index(u) = s * 9 + (r + 1) - 1
  BY <1>8 DEF Index, IsFlower, Honor, Flower
<1>10. PICK j : j = 9 * s + r
  OBVIOUS
<1>11. j \in 0..26 /\ j = s * 9 + (r + 1) - 1 /\ j \div 9 = s /\ j % 9 = r
  BY <1>10
<1>12. FromIndex(j) = New(s, r + 1)
  BY <1>11 DEF FromIndex, SuitedTileCount, PlayableTileCount, FullTileCount
<1>13. j \in Playable
  BY <1>11 DEF Playable, PlayableTileCount
<1>14. u \in PlayTiles
  BY <1>5, <1>12, <1>13 DEF PlayTiles
<1>15. a + k - 1 = r + 1 /\ a + k - 2 = r
  BY <1>2
<1> QED
  BY <1>1, <1>3, <1>6, <1>8, <1>9, <1>10, <1>11, <1>13, <1>14, <1>15 DEF RunAt

(* The rest of a run is in the hand.                                       *)
RestHeld(c, t, a) == \A k \in 1..3 : Run(t, a)[k] = t \/ c[Index(Run(t, a)[k])] >= 1

(* The ranks at which a run through t can start.                           *)
RunStarts(t) == {a \in 1..7 : a \in Rank(t) - 2..Rank(t)}

(* The run a chi without a name takes: there is one exactly when some run  *)
(* with the tile has its rest in the hand, and it is such a run.           *)
ChiTaken(c, t) ==
    /\ lowestChiRun(c, t) # NoRun <=> \E a \in RunStarts(t) : RestHeld(c, t, a)
    /\ lowestChiRun(c, t) # NoRun =>
          \E a \in RunStarts(t) : RestHeld(c, t, a) /\ lowestChiRun(c, t) = Run(t, a)

(* A run through a tile holds that tile.                                   *)
LEMMA RunHoldsTile ==
    ASSUME NEW i \in Playable, IsSuited(FromIndex(i)), NEW a \in RunStarts(FromIndex(i))
    PROVE  \E k \in 1..3 : k = Rank(FromIndex(i)) - a + 1 /\ Run(FromIndex(i), a)[k] = FromIndex(i)
<1>1. PICK t : t = FromIndex(i)
  OBVIOUS
<1>2. PICK s, r : TileAt(i, s, r)
  BY PlayableTile
<1>3. s \in 0..2 /\ r \in 1..9 /\ t = 16 * s + r /\ Suit(t) = s /\ Rank(t) = r
  BY <1>1, <1>2 DEF TileAt, IsSuited, SuitedSuits
<1>4. a \in 1..7 /\ a \in r - 2..r
  BY <1>1, <1>3 DEF RunStarts
<1>5. PICK k \in 1..3 : k = r - a + 1
  BY <1>3, <1>4
<1>6. RunAt(t, a, k)
  BY <1>3, <1>4, RunTile
<1>7. Run(t, a)[k] = 16 * s + (a + k - 1)
  BY <1>3, <1>6 DEF RunAt
<1>8. a + k - 1 = r
  BY <1>3, <1>4, <1>5
<1> QED
  BY <1>1, <1>3, <1>5, <1>7, <1>8

(* What lowestChiRun picks for a tile of a suit: a run through it, the     *)
(* other two tiles of which the hand holds.                                *)
LEMMA ChiResolved ==
    ASSUME NEW c \in [Playable -> Nat], NEW i \in Playable, IsSuited(FromIndex(i))
    PROVE  ChiTaken(c, FromIndex(i))
<1>1. PICK t : t = FromIndex(i)
  OBVIOUS
<1>2. PICK s, r : TileAt(i, s, r)
  BY PlayableTile
<1>3. s \in 0..2 /\ r \in 1..9 /\ t = 16 * s + r /\ Suit(t) = s /\ Rank(t) = r
  BY <1>1, <1>2 DEF TileAt, IsSuited, SuitedSuits
<1>4. ASSUME NEW a \in RunStarts(t)
      PROVE  handContainsChiRemainder(c, t, Run(t, a)) <=> RestHeld(c, t, a)
  <2>1. PICK run : run = Run(t, a)
    OBVIOUS
  <2>2. \E k \in 1..3 : run[k] = t
    BY <1>1, <2>1, RunHoldsTile
  <2>3. (\A u \in {run[k] : k \in 1..3} \ {t} : c[Index(u)] >= 1)
           <=> \A k \in 1..3 : run[k] = t \/ c[Index(run[k])] >= 1
    BY Zenon
  <2> QED
    BY <2>1, <2>2, <2>3, Zenon DEF handContainsChiRemainder, RestHeld
<1> DEFINE starts == {a \in RunStarts(t) : RestHeld(c, t, a)}
<1>5. {a \in Rank(t) - 2..Rank(t) : a >= 1 /\ a + 2 <= 9 /\ handContainsChiRemainder(c, t, Run(t, a))} = starts
  <2>1. ASSUME NEW a
        PROVE  (a \in Rank(t) - 2..Rank(t) /\ a >= 1 /\ a + 2 <= 9) <=> a \in RunStarts(t)
    BY <1>3 DEF RunStarts
  <2> QED
    BY <1>4, <2>1
<1>6. lowestChiRun(c, t) = IF starts = {} THEN NoRun ELSE Run(t, Min(starts))
  <2> HIDE DEF starts
  <2> QED
    BY <1>5, Zenon DEF lowestChiRun
<1>7. starts \subseteq {a \in 1..7 : a \in r - 2..r}
  BY <1>3 DEF RunStarts
<1>8. ASSUME starts # {}
      PROVE  Min(starts) \in starts
  <2> HIDE DEF starts
  <2>1. \A a \in starts : a = r - 2 \/ a = r - 1 \/ a = r
    BY <1>3, <1>7
  <2>2. starts \subseteq Int /\ r \in Int
    BY <1>3, <1>7
  <2>3. \E x \in starts : \A y \in starts : x <= y
    <3>1. CASE r - 2 \in starts
      BY <2>1, <2>2, <3>1
    <3>2. CASE r - 2 \notin starts /\ r - 1 \in starts
      BY <2>1, <2>2, <3>2
    <3>3. CASE r - 2 \notin starts /\ r - 1 \notin starts
      <4>1. \A y \in starts : y = r
        BY <2>1, <3>3
      <4>2. r \in starts
        BY <4>1, <1>8
      <4> QED
        BY <4>1, <4>2, <2>2
    <3> QED
      BY <3>1, <3>2, <3>3
  <2> QED
    BY <2>3, Zenon DEF Min
<1>9. \A a \in RunStarts(t) : Run(t, a) # NoRun
  <2> SUFFICES ASSUME NEW a \in RunStarts(t)
               PROVE  Run(t, a) # << >>
    BY DEF NoRun
  <2>1. Len(Run(t, a)) = 3
    BY DEF Run
  <2>2. Len(<< >>) = 0 /\ 0 # 3
    OBVIOUS
  <2> QED
    BY <2>1, <2>2, Zenon
<1>10. CASE starts = {}
  <2>1. lowestChiRun(c, t) = NoRun
    BY <1>6, <1>10
  <2>2. ~\E a \in RunStarts(t) : RestHeld(c, t, a)
    BY <1>10
  <2> HIDE DEF starts
  <2> QED
    BY <1>1, <2>1, <2>2, Zenon DEF ChiTaken
<1>11. CASE starts # {}
  <2>1. PICK a : a = Min(starts) /\ a \in starts
    BY <1>8, <1>11
  <2>2. a \in RunStarts(t) /\ RestHeld(c, t, a)
    BY <2>1
  <2> HIDE DEF starts
  <2>3. lowestChiRun(c, t) = Run(t, a)
    BY <1>6, <1>11, <2>1, Zenon
  <2>4. lowestChiRun(c, t) # NoRun
    BY <1>9, <2>2, <2>3, Zenon
  <2> QED
    BY <1>1, <2>2, <2>3, <2>4, Zenon DEF ChiTaken
<1> QED
  BY <1>10, <1>11, Zenon

(* What a sequence holds is of the sequence's elements.                    *)
LEMMA ElementIn ==
    ASSUME NEW T, NEW s \in Seq(T), NEW k \in 1..Len(s)
    PROVE  s[k] \in T
  OBVIOUS

(* Three tiles, each of them once.                                         *)
ThreeOnce(run) ==
    /\ run \in Seq(PlayTiles) /\ Len(run) = 3
    /\ \A k, l \in 1..3 : Index(run[k]) = Index(run[l]) => k = l
    /\ \A j \in Playable : countTile(run, FromIndex(j)) = IF \E k \in 1..3 : Index(run[k]) = j THEN 1 ELSE 0

(* Three different tiles are there once each.                              *)
LEMMA ThreeCounted ==
    ASSUME NEW run \in Seq(PlayTiles), Len(run) = 3,
           \A k, l \in 1..3 : Index(run[k]) = Index(run[l]) => k = l
    PROVE  ThreeOnce(run)
<1>1. ASSUME NEW j \in Playable
      PROVE  countTile(run, FromIndex(j)) = IF \E k \in 1..3 : Index(run[k]) = j THEN 1 ELSE 0
  <2>1. ASSUME NEW k \in 1..3
        PROVE  run[k] = FromIndex(j) <=> Index(run[k]) = j
    <3>0. run[k] \in PlayTiles
      BY ElementIn
    <3>1. PICK p \in Playable : run[k] = FromIndex(p)
      BY <3>0 DEF PlayTiles
    <3>2. Index(FromIndex(p)) = p /\ Index(FromIndex(j)) = j
      BY PlayableTile, Zenon DEF TileAt
    <3> QED
      BY <3>1, <3>2, Zenon
  <2>2. PICK K : K = {k \in 1..3 : run[k] = FromIndex(j)}
    OBVIOUS
  <2>3. countTile(run, FromIndex(j)) = Cardinality(K)
    BY <2>2 DEF countTile
  <2>4. \A k, l \in K : k = l
    BY <2>1, <2>2
  <2>5. CASE \E k \in 1..3 : Index(run[k]) = j
    <3>1. PICK k \in 1..3 : Index(run[k]) = j
      BY <2>5
    <3>2. K = {k}
      BY <2>1, <2>2, <2>4, <3>1
    <3>3. Cardinality(K) = 1
      BY <3>2, FS_Singleton, Zenon
    <3> QED
      BY <2>3, <2>5, <3>3
  <2>6. CASE ~\E k \in 1..3 : Index(run[k]) = j
    <3>1. K = {}
      BY <2>1, <2>2, <2>6
    <3>2. Cardinality(K) = 0
      BY <3>1, FS_EmptySet, Zenon
    <3> QED
      BY <2>3, <2>6, <3>2
  <2> QED
    BY <2>5, <2>6
<1> QED
  BY <1>1, Zenon DEF ThreeOnce

(* Each of them is a tile of the game.                                     *)
LEMMA OneOfThree ==
    ASSUME NEW run, ThreeOnce(run), NEW k \in 1..3
    PROVE  Index(run[k]) \in Playable /\ run[k] = FromIndex(Index(run[k]))
<1>1. run \in Seq(PlayTiles) /\ Len(run) = 3
  BY Zenon DEF ThreeOnce
<1>2. run[k] \in PlayTiles
  BY <1>1, ElementIn
<1>3. PICK p \in Playable : run[k] = FromIndex(p)
  BY <1>2 DEF PlayTiles
<1> QED
  BY <1>3, PlayableTile, Zenon DEF TileAt

(* A run the seat may take the tile i into: a sequence of three tiles, one *)
(* of which is the claimed one and the others held, where one is offered.  *)
ChiRun(c, i, run) ==
    /\ ThreeOnce(run) /\ isChiSequence(run)
    /\ \E k \in 1..3 : run[k] = FromIndex(i)
    /\ \A k \in 1..3 : run[k] # FromIndex(i) => c[Index(run[k])] >= 1
    /\ \E a \in RunStarts(FromIndex(i)) : RestHeld(c, FromIndex(i), a)

(* The tiles of a run that starts at rank a are such a run.                *)
LEMMA LowestRun ==
    ASSUME NEW c \in [Playable -> Nat], NEW i \in Playable, IsSuited(FromIndex(i)),
           lowestChiRun(c, FromIndex(i)) # NoRun
    PROVE  ChiRun(c, i, lowestChiRun(c, FromIndex(i)))
<1>1. PICK t : t = FromIndex(i)
  OBVIOUS
<1>2. PICK run : run = lowestChiRun(c, t)
  OBVIOUS
<1>3. PICK a \in RunStarts(t) : RestHeld(c, t, a) /\ run = Run(t, a)
  BY <1>1, <1>2, ChiResolved, Zenon DEF ChiTaken
<1>4. a \in 1..7 /\ Suit(t) \in 0..2
  BY <1>1, <1>3 DEF RunStarts, IsSuited, SuitedSuits
<1>5. ASSUME NEW k \in 1..3
      PROVE  /\ run[k] \in PlayTiles /\ Index(run[k]) = 9 * Suit(t) + (a + k - 2)
             /\ Suit(run[k]) = Suit(t) /\ Rank(run[k]) = a + k - 1
             /\ run[k] # t => c[Index(run[k])] >= 1
  <2>1. RunAt(t, a, k)
    BY <1>4, RunTile
  <2> QED
    BY <1>3, <2>1 DEF RunAt, RestHeld
<1>6. run = [k \in 1..3 |-> run[k]] /\ Len(run) = 3
  BY <1>3 DEF Run
<1>7. run \in Seq(PlayTiles)
  BY <1>5, <1>6
<1>8. ASSUME NEW k \in 1..3, NEW l \in 1..3, Index(run[k]) = Index(run[l])
      PROVE  k = l
  <2>1. PICK b : b = 9 * Suit(t)
    OBVIOUS
  <2>2. b \in Int /\ b + (a + k - 2) = b + (a + l - 2)
    BY <1>4, <1>5, <1>8, <2>1
  <2> QED
    BY <1>4, <2>2
<1>9. ThreeOnce(run)
  BY <1>6, <1>7, <1>8, ThreeCounted
<1>10. isChiSequence(run)
  <2>1. {Rank(run[k]) : k \in 1..3} = a..a + 2 /\ a \in 0..14
    <3>1. {Rank(run[k]) : k \in 1..3} = {a + k - 1 : k \in 1..3}
      BY <1>5
    <3>2. {a + k - 1 : k \in 1..3} = a..a + 2
      <4>1. ASSUME NEW x \in a..a + 2
            PROVE  \E k \in 1..3 : x = a + k - 1
        <5>1. x - a + 1 \in 1..3 /\ x = a + (x - a + 1) - 1
          BY <1>4
        <5> QED
          BY <5>1
      <4>2. ASSUME NEW k \in 1..3
            PROVE  a + k - 1 \in a..a + 2
        BY <1>4
      <4> QED
        BY <4>1, <4>2
    <3> QED
      BY <1>4, <3>1, <3>2
  <2>2. \A k \in 1..3 : Suit(run[k]) = Suit(run[1])
    <3>1. 1 \in 1..3
      OBVIOUS
    <3> QED
      BY <1>5, <3>1
  <2> QED
    BY <1>6, <2>1, <2>2, Zenon DEF isChiSequence
<1>11. \E k \in 1..3 : run[k] = t
  BY <1>1, <1>3, RunHoldsTile
<1> QED
  BY <1>1, <1>2, <1>3, <1>5, <1>9, <1>10, <1>11, Zenon DEF ChiRun

(* A tile of a suit that a text stands for is a tile of the game.          *)
LEMMA SuitedParsed ==
    ASSUME NEW u \in ParsedTiles, u # 0, Suit(u) \in 0..2
    PROVE  /\ u \in PlayTiles /\ u = 16 * Suit(u) + Rank(u) /\ Rank(u) \in 1..9
           /\ Index(u) = 9 * Suit(u) + Rank(u) - 1
<1>1. PICK j \in 0..41 : u = FromIndex(j)
  BY DEF ParsedTiles, FullTileCount
<1>2. j \in Playable
  <2>1. ASSUME j \notin Playable
        PROVE  FALSE
    <3>1. j \in 34..41
      BY <2>1 DEF Playable, PlayableTileCount
    <3>2. u = New(4, j - 34 + 1)
      BY <1>1, <3>1 DEF FromIndex, SuitedTileCount, PlayableTileCount, FullTileCount, Flower
    <3>3. maxRank(4) = 8
      BY DEF maxRank, SuitedSuits, Honor, Flower
    <3>4. u = 64 + (j - 33)
      BY <3>1, <3>2, <3>3 DEF New
    <3>5. u \in 65..72
      BY <3>1, <3>4
    <3>6. u \div 16 = 4
      BY <3>5
    <3> QED
      BY <3>6 DEF Suit
  <2> QED
    BY <2>1
<1>3. PICK s, r : TileAt(j, s, r)
  BY <1>2, PlayableTile
<1>4. /\ s \in 0..3 /\ r \in 1..9 /\ u = 16 * s + r /\ Suit(u) = s /\ Rank(u) = r
      /\ Index(u) = j /\ (s < 3 => j = 9 * s + r - 1)
  BY <1>1, <1>3 DEF TileAt
<1>5. u \in PlayTiles
  BY <1>1, <1>2 DEF PlayTiles
<1>6. s < 3
  BY <1>4
<1> QED
  BY <1>4, <1>5, <1>6

(* Three numbers that are a, a + 1 and a + 2 in some order are different.  *)
LEMMA ThreeInOrder ==
    ASSUME NEW a \in Nat, NEW r \in [1..3 -> Nat], {r[k] : k \in 1..3} = a..a + 2
    PROVE  \A k, l \in 1..3 : r[k] = r[l] => k = l
<1>1. PICK x, y, z \in 1..3 : r[x] = a /\ r[y] = a + 1 /\ r[z] = a + 2
  <2>1. a \in a..a + 2 /\ a + 1 \in a..a + 2 /\ a + 2 \in a..a + 2
    OBVIOUS
  <2> QED
    BY <2>1
<1>2. x # y /\ x # z /\ y # z
  BY <1>1
<1>3. \A k \in 1..3 : k = x \/ k = y \/ k = z
  BY <1>2
<1> QED
  BY <1>1, <1>3

(* What a player names and resolveChiTiles takes is such a run.            *)
LEMMA NamedRun ==
    ASSUME NEW c \in [Playable -> Nat], NEW i \in Playable, IsSuited(FromIndex(i)),
           NEW named \in Seq(ParsedTiles), Len(named) = 3, \A k \in 1..3 : named[k] # 0,
           \E k \in 1..3 : named[k] = FromIndex(i),
           isChiSequence(named), handContainsChiRemainder(c, FromIndex(i), named)
    PROVE  ChiRun(c, i, named)
<1>1. PICK t : t = FromIndex(i)
  OBVIOUS
<1>2. PICK h \in 1..3 : named[h] = t
  BY <1>1
<1>3. PICK s : s = Suit(t)
  OBVIOUS
<1>4. s \in 0..2
  BY <1>1, <1>3 DEF IsSuited, SuitedSuits
<1>5. PICK a \in 0..14 : {Rank(named[k]) : k \in 1..3} = a..a + 2
  BY DEF isChiSequence
<1>6. ASSUME NEW k \in 1..3
      PROVE  /\ named[k] \in PlayTiles /\ Suit(named[k]) = s
             /\ named[k] = 16 * s + Rank(named[k]) /\ Rank(named[k]) \in 1..9
             /\ Index(named[k]) = 9 * s + Rank(named[k]) - 1
             /\ named[k] # t => c[Index(named[k])] >= 1
  <2>1. \A l \in 1..3 : Suit(named[l]) = Suit(named[1])
    BY DEF isChiSequence
  <2>2. Suit(named[k]) = s
    BY <1>2, <1>3, <2>1, Zenon
  <2>3. named[k] \in ParsedTiles /\ named[k] # 0
    BY ElementIn
  <2>4. PICK u : u = named[k]
    OBVIOUS
  <2>5. /\ u \in PlayTiles /\ u = 16 * Suit(u) + Rank(u) /\ Rank(u) \in 1..9
        /\ Index(u) = 9 * Suit(u) + Rank(u) - 1
    BY <1>4, <2>2, <2>3, <2>4, SuitedParsed
  <2>6. u # t => c[Index(u)] >= 1
    BY <1>1, <2>4, Zenon DEF handContainsChiRemainder
  <2> QED
    BY <2>2, <2>4, <2>5, <2>6
<1>7. PICK r : r = [k \in 1..3 |-> Rank(named[k])]
  OBVIOUS
<1>8. \A k \in 1..3 : r[k] = Rank(named[k]) /\ r[k] \in 1..9
  BY <1>6, <1>7
<1>81. r \in [1..3 -> Nat] /\ {r[k] : k \in 1..3} = a..a + 2
  <2>1. r \in [1..3 -> Nat]
    BY <1>7, <1>8
  <2>2. {r[k] : k \in 1..3} = {Rank(named[k]) : k \in 1..3}
    BY <1>8
  <2> QED
    BY <1>5, <2>1, <2>2
<1>9. \A k, l \in 1..3 : r[k] = r[l] => k = l
  <2>1. a \in Nat
    OBVIOUS
  <2> QED
    BY <1>81, <2>1, ThreeInOrder, Zenon
<1>10. ASSUME NEW k \in 1..3, NEW l \in 1..3, Index(named[k]) = Index(named[l])
       PROVE  k = l
  <2>0. /\ Index(named[k]) = 9 * s + Rank(named[k]) - 1 /\ Index(named[l]) = 9 * s + Rank(named[l]) - 1
        /\ Rank(named[k]) = r[k] /\ Rank(named[l]) = r[l] /\ r[k] \in 1..9 /\ r[l] \in 1..9
    <3>1. /\ Index(named[k]) = 9 * s + Rank(named[k]) - 1
          /\ Index(named[l]) = 9 * s + Rank(named[l]) - 1
      BY <1>6
    <3>2. Rank(named[k]) = r[k] /\ Rank(named[l]) = r[l] /\ r[k] \in 1..9 /\ r[l] \in 1..9
      BY <1>8, Zenon
    <3> QED
      BY <3>1, <3>2
  <2>1. PICK b \in Int : b = 9 * s
    BY <1>4
  <2>2. PICK x, y \in Int : x = r[k] /\ y = r[l]
    BY <2>0
  <2>3. Index(named[k]) = b + x - 1 /\ Index(named[l]) = b + y - 1
    BY <2>0, <2>1, <2>2, Zenon
  <2>4. b + x - 1 = b + y - 1
    BY <1>10, <2>3, Zenon
  <2>5. x = y
    BY <2>4
  <2> QED
    BY <1>9, <2>2, <2>5
<1>11. ThreeOnce(named)
  <2>1. named \in Seq(PlayTiles)
    <3>1. named = [k \in 1..3 |-> named[k]]
      OBVIOUS
    <3>2. \A k \in 1..3 : named[k] \in PlayTiles
      BY <1>6
    <3> QED
      BY <3>1, <3>2
  <2> QED
    BY <1>10, <2>1, ThreeCounted
<1>12. a \in 1..7 /\ a \in RunStarts(t)
  <2>1. a \in 1..7
    <3>1. a \in a..a + 2 /\ a + 2 \in a..a + 2
      OBVIOUS
    <3>2. PICK k, l \in 1..3 : r[k] = a /\ r[l] = a + 2
      BY <1>81, <3>1
    <3>3. r[k] \in 1..9 /\ r[l] \in 1..9
      BY <1>8, Zenon
    <3> QED
      BY <3>2, <3>3
  <2>2. Rank(t) \in a..a + 2
    BY <1>2, <1>5
  <2> QED
    BY <2>1, <2>2 DEF RunStarts
<1>13. RestHeld(c, t, a)
  <2> SUFFICES ASSUME NEW m \in 1..3
               PROVE  Run(t, a)[m] = t \/ c[Index(Run(t, a)[m])] >= 1
    BY DEF RestHeld
  <2>1. RunAt(t, a, m)
    BY <1>3, <1>4, <1>12, RunTile
  <2>2. Run(t, a)[m] = 16 * s + (a + m - 1)
    BY <1>3, <2>1 DEF RunAt
  <2>3. a + m - 1 \in a..a + 2
    OBVIOUS
  <2>4. PICK k \in 1..3 : r[k] = a + m - 1
    BY <1>81, <2>3
  <2>5. named[k] = Run(t, a)[m]
    BY <1>6, <1>8, <2>2, <2>4
  <2> QED
    BY <1>6, <2>5
<1> QED
  BY <1>1, <1>2, <1>6, <1>11, <1>12, <1>13, Zenon DEF ChiRun

(* Whatever the player names, or names nothing, what a chi takes is a run  *)
(* with the claimed tile whose rest is in the hand.                        *)
LEMMA ChiTakes ==
    ASSUME NEW c \in [Playable -> Nat], NEW i \in Playable, IsSuited(FromIndex(i)),
           NEW named \in Named \cup {<< >>}, resolveChiTiles(c, FromIndex(i), named) # NoRun
    PROVE  ChiRun(c, i, resolveChiTiles(c, FromIndex(i), named))
<1>1. CASE named = << >>
  <2>1. resolveChiTiles(c, FromIndex(i), named) = lowestChiRun(c, FromIndex(i))
    BY <1>1 DEF resolveChiTiles
  <2> QED
    BY <2>1, LowestRun
<1>2. CASE named # << >>
  <2>1. /\ Len(named) = 3 /\ \A k \in 1..3 : named[k] # 0
        /\ \E k \in 1..3 : named[k] = FromIndex(i)
        /\ isChiSequence(named) /\ handContainsChiRemainder(c, FromIndex(i), named)
        /\ resolveChiTiles(c, FromIndex(i), named) = named
    BY <1>2, Zenon DEF resolveChiTiles
  <2>2. named \in Seq(ParsedTiles)
    BY <1>2, NamedAssumption
  <2> QED
    BY <2>1, <2>2, NamedRun
<1> QED
  BY <1>1, <1>2

(* What OffersCanBeTaken asks of a run a chi takes.                        *)
TakenWell(c, t, run) ==
    /\ isChiSequence(run)
    /\ \E k \in 1..3 : run[k] = t
    /\ \A k \in 1..3 : run[k] # t => c[Index(run[k])] > 0

(* What it asks of a hand c, a tile and the seat that discards it.         *)
OfferTaken(c, i, from, wins_) ==
    LET t == FromIndex(i)
        offered == Candidates(c, t, Self, from, FALSE, FALSE, wins_)
    IN  /\ "chi" \in offered <=> from = 3 /\ IsSuited(t) /\ resolveChiTiles(c, t, << >>) # NoRun
        /\ IsSuited(t) => \A named \in Named \cup {<< >>} :
              LET run == resolveChiTiles(c, t, named)
              IN  run # NoRun =>
                    /\ from = 3 => "chi" \in offered
                    /\ isChiSequence(run)
                    /\ \E k \in 1..3 : run[k] = t
                    /\ \A k \in 1..3 : run[k] # t => c[Index(run[k])] > 0

(* rules.go and engine_claim.go agree on every hand, not only on the ones  *)
(* play leads to.                                                          *)
LEMMA ChiOffered ==
    ASSUME NEW c \in [Playable -> Nat], NEW i \in Playable, NEW from \in 1..3, NEW wins_
    PROVE  OfferTaken(c, i, from, wins_)
<1>1. PICK t : t = FromIndex(i)
  OBVIOUS
<1>2. PICK s, r : TileAt(i, s, r)
  BY PlayableTile
<1>3. s \in 0..3 /\ r \in 1..9 /\ t = 16 * s + r /\ Suit(t) = s /\ Rank(t) = r /\ t # 0
  BY <1>1, <1>2 DEF TileAt
<1>4. resolveChiTiles(c, t, << >>) = lowestChiRun(c, t)
  BY DEF resolveChiTiles
<1>5. PICK offered : offered = Candidates(c, t, Self, from, FALSE, FALSE, wins_)
  OBVIOUS
<1>6. "chi" \in offered <=> canStandardChi(c, t, Self, from)
  <2>1. Self # from
    BY DEF Self
  <2> QED
    BY <1>3, <1>5, <2>1 DEF Candidates
<1>7. canStandardChi(c, t, Self, from)
        <=> IsSuited(t) /\ from = 3 /\ \E a \in RunStarts(t) : RestHeld(c, t, a)
  <2>1. from \in 0..3 /\ (Self = (from + 1) % 4 <=> from = 3)
    <3>1. CASE from = 1
      BY <3>1 DEF Self
    <3>2. CASE from = 2
      BY <3>2 DEF Self
    <3>3. CASE from = 3
      BY <3>3 DEF Self
    <3> QED
      BY <3>1, <3>2, <3>3
  <2>2. (Rank(t) - 2..Rank(t)) \cap 1..7 = RunStarts(t)
    BY DEF RunStarts
  <2> QED
    BY <2>1, <2>2, Zenon DEF canStandardChi, RestHeld
<1>8. CASE ~IsSuited(t)
  BY <1>1, <1>5, <1>6, <1>7, <1>8, Zenon DEF OfferTaken
<1>9. CASE IsSuited(t)
  <2>1. ChiTaken(c, t)
    BY <1>1, <1>9, ChiResolved
  <2>2. "chi" \in offered <=> from = 3 /\ IsSuited(t) /\ resolveChiTiles(c, t, << >>) # NoRun
    BY <1>4, <1>6, <1>7, <2>1, Zenon DEF ChiTaken
  <2>3. ASSUME NEW named \in Named \cup {<< >>}, NEW run, run = resolveChiTiles(c, t, named), run # NoRun
        PROVE  (from = 3 => "chi" \in offered) /\ TakenWell(c, t, run)
    <3>1. ChiRun(c, i, run)
      BY <1>1, <1>9, <2>3, ChiTakes
    <3>2. /\ ThreeOnce(run) /\ isChiSequence(run) /\ \E k \in 1..3 : run[k] = t
          /\ \A k \in 1..3 : run[k] # t => c[Index(run[k])] >= 1
          /\ \E a \in RunStarts(t) : RestHeld(c, t, a)
      BY <1>1, <3>1, Zenon DEF ChiRun
    <3>3. from = 3 => "chi" \in offered
      BY <1>6, <1>7, <1>9, <3>2, Zenon
    <3>4. ASSUME NEW k \in 1..3, run[k] # t
          PROVE  c[Index(run[k])] > 0
      <4>2. Index(run[k]) \in Playable
        BY <3>2, OneOfThree
      <4>3. PICK n \in Nat : n = c[Index(run[k])]
        BY <4>2
      <4> QED
        BY <3>2, <3>4, <4>3
    <3> QED
      BY <3>2, <3>3, <3>4, Zenon DEF TakenWell
  <2>4. ASSUME NEW named \in Named \cup {<< >>}, resolveChiTiles(c, FromIndex(i), named) # NoRun
        PROVE  /\ from = 3 => "chi" \in Candidates(c, FromIndex(i), Self, from, FALSE, FALSE, wins_)
               /\ TakenWell(c, FromIndex(i), resolveChiTiles(c, FromIndex(i), named))
    <3>1. PICK run : run = resolveChiTiles(c, t, named)
      OBVIOUS
    <3>2. run = resolveChiTiles(c, FromIndex(i), named) /\ run # NoRun
      BY <1>1, <2>4, <3>1
    <3>3. (from = 3 => "chi" \in offered) /\ TakenWell(c, t, run)
      BY <2>3, <3>1, <3>2
    <3> QED
      BY <1>1, <1>5, <3>2, <3>3
  <2>5. "chi" \in Candidates(c, FromIndex(i), Self, from, FALSE, FALSE, wins_)
           <=> from = 3 /\ IsSuited(FromIndex(i)) /\ resolveChiTiles(c, FromIndex(i), << >>) # NoRun
    BY <1>1, <1>5, <2>2
  <2> QED
    BY <2>4, <2>5, Zenon DEF OfferTaken, TakenWell
<1> QED
  BY <1>8, <1>9, Zenon

(* A set of numbers has a least one.                                       *)
LEMMA SomeFirst ==
    ASSUME NEW S \in SUBSET Nat, S # {}
    PROVE  \E k \in S : \A j \in S : k <= j
<1> DEFINE R == {ss \in Nat \X Nat : ss[1] < ss[2]}
<1>1. PICK d \in S : \A y \in S : ~(<<y, d>> \in R)
  <2>1. IsWellFoundedOn(R, Nat)
    BY NatLessThanWellFounded DEF OpToRel
  <2> HIDE DEF R
  <2> QED
    BY <2>1, WFMin
<1>2. \A y \in S : d <= y
  <2>1. \A y \in Nat : <<y, d>> \in R <=> y < d
    OBVIOUS
  <2> HIDE DEF R
  <2>2. \A y \in S : ~(y < d) /\ y \in Nat
    BY <1>1, <2>1
  <2> QED
    BY <1>1, <2>2
<1> QED
  BY <1>2

(* A set of places has a first one.                                        *)
LEMMA FirstPlace ==
    ASSUME NEW S \in SUBSET Nat, S # {}
    PROVE  (CHOOSE k \in S : \A j \in S : k <= j) \in S
BY SomeFirst

(* The boxes are of the game's tiles, four of a kind at most.              *)
LEMMA BoxesAre ==
    ASSUME NEW b \in Boxes
    PROVE  DOMAIN b \subseteq Playable /\ \A i \in DOMAIN b : b[i] \in 0..4
<1>1. CASE b = DenseBox
  BY <1>1, KindsAssumption DEF DenseBox
<1>2. CASE b \in RareBoxes
  BY <1>2, KindsAssumption
<1> QED
  BY <1>1, <1>2 DEF Boxes

(* The states of a hand.                                                   *)
HandTypes ==
    /\ box \in Boxes /\ closed \in [Playable -> Nat] /\ facts \in Seq(MeldFacts) /\ drawn \in BOOLEAN

(* A hand is thirteen tiles with its melds, a gang counted as three, and   *)
(* the drawn tile.                                                         *)
HandCounted ==
    Total(closed) + Total(LensOf(facts)) = 13 + Cardinality(FoursOf(facts)) + Num(drawn)

(* No more copies of a tile are held and shown than the box has.           *)
WithinBox == \A i \in DOMAIN box : closed[i] + Total(ShowsOf(facts, i)) <= box[i]

(* The inductive invariant of a hand.                                      *)
HandIInv == HandTypes /\ HandCounted /\ WithinBox

(* What the properties count is what the proofs count.                     *)
LEMMA ShownIs ==
    ASSUME facts \in Seq(MeldFacts)
    PROVE  /\ Len(Melds) = Len(facts)
           /\ [k \in 1..Len(Melds) |-> Len(Melds[k].tiles)] = LensOf(facts)
           /\ {k \in 1..Len(Melds) : Len(Melds[k].tiles) = 4} = FoursOf(facts)
           /\ \A i : Shown(i) = Total(ShowsOf(facts, i))
<1>1. PICK melds : melds = Melds
  OBVIOUS
<1>2. melds = [k \in 1..Len(facts) |->
                  [kind |-> parseMeldFact(facts[k]).kind, tiles |-> TilesIn(facts[k]),
                   concealed |-> parseMeldFact(facts[k]).concealed]]
  BY <1>1, MeldsAre DEF Melds
<1>3. Len(facts) \in Nat /\ Len(melds) = Len(facts)
  BY <1>2
<1>4. \A k \in 1..Len(facts) : melds[k].tiles = TilesIn(facts[k])
  BY <1>2
<1>5. [k \in 1..Len(melds) |-> Len(melds[k].tiles)] = LensOf(facts)
  BY <1>3, <1>4 DEF LensOf
<1>6. {k \in 1..Len(melds) : Len(melds[k].tiles) = 4} = FoursOf(facts)
  BY <1>3, <1>4 DEF FoursOf
<1>7. ASSUME NEW i
      PROVE  Shown(i) = Total(ShowsOf(facts, i))
  <2>1. PICK tiles : tiles = [k \in 1..Len(melds) |-> melds[k].tiles]
    OBVIOUS
  <2>2. Len(tiles) = Len(facts) /\ \A k \in 1..Len(facts) : tiles[k] = TilesIn(facts[k])
    BY <1>3, <1>4, <2>1
  <2>3. Shown(i) = Total([k \in 1..Len(tiles) |-> countTile(tiles[k], FromIndex(i))])
    BY <1>1, <2>1 DEF Shown, countTileInMelds
  <2>4. [k \in 1..Len(tiles) |-> countTile(tiles[k], FromIndex(i))] = ShowsOf(facts, i)
    BY <2>2 DEF ShowsOf
  <2> QED
    BY <2>3, <2>4
<1> QED
  BY <1>1, <1>3, <1>5, <1>6, <1>7

(* Tiles leave the hand.                                                   *)
LEMMA TilesTaken ==
    ASSUME NEW c \in [Playable -> Nat], NEW i \in Playable, NEW n \in Nat, c[i] >= n
    PROVE  /\ Less(c, i, n) \in [Playable -> Nat] /\ Less(c, i, n)[i] = c[i] - n
           /\ \A j \in Playable \ {i} : Less(c, i, n)[j] = c[j]
           /\ Total(Less(c, i, n)) + n = Total(c) /\ Total(c) \in Nat /\ Total(Less(c, i, n)) \in Nat
<1>1. PICK d : d = Less(c, i, n)
  OBVIOUS
<1>2. d \in [Playable -> Nat] /\ \A j \in Playable \ {i} : d[j] = c[j]
  BY <1>1, LessKept
<1>3. d[i] = c[i] - n /\ c[i] \in Nat
  BY <1>1 DEF Less
<1>4. Elsewhere(Playable, i, c, d)
  BY <1>2 DEF Elsewhere
<1>5. Total(d) + c[i] = Total(c) + d[i] /\ Total(c) \in Nat /\ Total(d) \in Nat
  BY <1>2, <1>4, PlayableFinite, TotalReplaced, Zenon
<1>6. Total(d) + n = Total(c)
  BY <1>3, <1>5
<1> QED
  BY <1>1, <1>2, <1>3, <1>5, <1>6

(* The totals are numbers.                                                 *)
LEMMA HandNumbers ==
    ASSUME HandTypes
    PROVE  /\ Total(closed) \in Nat /\ Total(LensOf(facts)) \in Nat /\ Cardinality(FoursOf(facts)) \in Nat
           /\ \A i : Total(ShowsOf(facts, i)) \in Nat
           /\ \A i \in DOMAIN box : i \in Playable /\ box[i] \in 0..4 /\ closed[i] \in Nat
<1>1. closed \in [Playable -> Nat] /\ facts \in Seq(MeldFacts) /\ box \in Boxes
  BY DEF HandTypes
<1>2. Total(closed) \in Nat
  BY <1>1, PlayableFinite, TotalType
<1>3. Total(LensOf(facts)) \in Nat /\ Cardinality(FoursOf(facts)) \in Nat
  <2>1. PICK D, c : D = 1..Len(facts) /\ c = LensOf(facts)
    OBVIOUS
  <2>2. IsFiniteSet(D) /\ c \in [D -> Nat] /\ IsFiniteSet(FoursOf(facts))
    BY <1>1, <2>1, MeldsCounted, Zenon
  <2> QED
    BY <2>1, <2>2, TotalType, FS_CardinalityType
<1>4. ASSUME NEW i
      PROVE  Total(ShowsOf(facts, i)) \in Nat
  <2>1. PICK D, c : D = 1..Len(facts) /\ c = ShowsOf(facts, i)
    OBVIOUS
  <2>2. IsFiniteSet(D) /\ c \in [D -> Nat]
    BY <1>1, <2>1, MeldsCounted, Zenon
  <2> QED
    BY <2>1, <2>2, TotalType
<1>5. \A i \in DOMAIN box : i \in Playable /\ box[i] \in 0..4 /\ closed[i] \in Nat
  BY <1>1, BoxesAre
<1> QED
  BY <1>2, <1>3, <1>4, <1>5

(* A dealt hand satisfies its inductive invariant.                         *)
LEMMA HandStarts == HandInit => HandIInv
<1> SUFFICES ASSUME HandInit
             PROVE  HandIInv
  OBVIOUS
<1>1. box \in Boxes /\ closed = Dealt[box] /\ facts = << >> /\ drawn = FALSE
  BY DEF HandInit
<1>2. /\ closed \in [Playable -> Nat] /\ Total(closed) = 13
      /\ \A i \in DOMAIN box : closed[i] <= box[i]
  <2>1. PICK b \in Boxes : b = box
    BY <1>1
  <2>2. PICK d : d = Dealt[b]
    OBVIOUS
  <2>3. d \in [Playable -> Nat] /\ Total(d) = 13 /\ \A i \in DOMAIN b : d[i] <= b[i]
    BY <2>2, DealtAssumption, Zenon
  <2> QED
    BY <1>1, <2>1, <2>2, <2>3, Zenon
<1>3. HandTypes
  <2>1. << >> \in Seq(MeldFacts) /\ FALSE \in BOOLEAN
    OBVIOUS
  <2> QED
    BY <1>1, <1>2, <2>1, Zenon DEF HandTypes
<1>4. Len(facts) = 0 /\ 1..0 = {}
  BY <1>1
<1>5. Total(LensOf(facts)) = 0
  <2>1. DOMAIN LensOf(facts) = {}
    BY <1>4 DEF LensOf
  <2> QED
    BY <2>1, TotalEmpty
<1>6. \A i : Total(ShowsOf(facts, i)) = 0
  <2> SUFFICES ASSUME NEW i
               PROVE  Total(ShowsOf(facts, i)) = 0
    OBVIOUS
  <2>1. DOMAIN ShowsOf(facts, i) = {}
    BY <1>4 DEF ShowsOf
  <2> QED
    BY <2>1, TotalEmpty
<1>7. Cardinality(FoursOf(facts)) = 0
  <2>1. FoursOf(facts) = {}
    BY <1>4 DEF FoursOf
  <2> QED
    BY <2>1, FS_EmptySet, Zenon
<1>8. HandCounted
  <2>1. Num(drawn) = 0
    BY <1>1 DEF Num
  <2> QED
    BY <1>2, <1>5, <1>7, <2>1 DEF HandCounted
<1>9. WithinBox
  <2> SUFFICES ASSUME NEW i \in DOMAIN box
               PROVE  closed[i] + Total(ShowsOf(facts, i)) <= box[i]
    BY DEF WithinBox
  <2>1. closed[i] <= box[i] /\ closed[i] \in Nat /\ Total(ShowsOf(facts, i)) = 0
    BY <1>2, <1>3, <1>6, HandNumbers
  <2> QED
    BY <2>1
<1> QED
  BY <1>3, <1>8, <1>9 DEF HandIInv

(* A meld is laid down: the hand is counted again.                         *)
LEMMA MeldStep ==
    ASSUME HandIInv, NEW f \in MeldFacts, facts' = Append(facts, f), box' = box, drawn' \in BOOLEAN,
           closed' \in [Playable -> Nat],
           Total(closed') + Len(TilesIn(f)) + Num(drawn)
             = Total(closed) + (IF Len(TilesIn(f)) = 4 THEN 1 ELSE 0) + Num(drawn'),
           \A j \in DOMAIN box : closed'[j] + countTile(TilesIn(f), FromIndex(j)) + Total(ShowsOf(facts, j)) <= box[j]
    PROVE  HandIInv'
<1>1. HandTypes /\ HandCounted /\ WithinBox
  BY DEF HandIInv
<1>2. facts \in Seq(MeldFacts) /\ box \in Boxes /\ drawn \in BOOLEAN
  BY <1>1 DEF HandTypes
<1>3. HandTypes'
  BY <1>2 DEF HandTypes
<1>4. /\ Total(LensOf(facts')) = Total(LensOf(facts)) + Len(TilesIn(f))
      /\ Cardinality(FoursOf(facts')) = Cardinality(FoursOf(facts)) + (IF Len(TilesIn(f)) = 4 THEN 1 ELSE 0)
      /\ \A i \in Playable : Total(ShowsOf(facts', i))
                               = Total(ShowsOf(facts, i)) + countTile(TilesIn(f), FromIndex(i))
  BY <1>2, FactAdded
<1>5. TilesIn(f) \in Seq(PlayTiles)
  BY FactsRead DEF FactRead
<1>6. HandCounted'
  <2>1. PICK n \in Nat : n = Len(TilesIn(f))
    BY <1>5, CountedType
  <2>2. PICK g \in Nat : g = IF Len(TilesIn(f)) = 4 THEN 1 ELSE 0
    OBVIOUS
  <2>3. PICK d, e \in Nat : d = Num(drawn) /\ e = Num(drawn')
    BY DEF Num
  <2>4. PICK c \in Nat : c = Total(closed)
    BY <1>1, HandNumbers
  <2>5. PICK cc \in Nat : cc = Total(closed')
    BY PlayableFinite, TotalType
  <2>6. PICK l \in Nat : l = Total(LensOf(facts))
    BY <1>1, HandNumbers
  <2>7. PICK q \in Nat : q = Cardinality(FoursOf(facts))
    BY <1>1, HandNumbers
  <2>8. c + l = 13 + q + d
    BY <1>1, <2>3, <2>4, <2>6, <2>7 DEF HandCounted
  <2>9. cc + n + d = c + g + e
    BY <2>1, <2>2, <2>3, <2>4, <2>5
  <2>10. cc + (l + n) = 13 + (q + g) + e
    BY <2>8, <2>9
  <2>11. Total(LensOf(facts')) = l + n /\ Cardinality(FoursOf(facts')) = q + g
    BY <1>4, <2>1, <2>2, <2>6, <2>7
  <2> QED
    BY <2>3, <2>5, <2>10, <2>11 DEF HandCounted
<1>7. WithinBox'
  <2> SUFFICES ASSUME NEW i \in DOMAIN box
               PROVE  closed'[i] + Total(ShowsOf(facts', i)) <= box[i]
    BY DEF WithinBox
  <2>1. i \in Playable /\ box[i] \in 0..4
    BY <1>1, HandNumbers
  <2>2. PICK n \in Nat : n = countTile(TilesIn(f), FromIndex(i))
    BY <1>5, CountedType
  <2>3. PICK m \in Nat : m = Total(ShowsOf(facts, i))
    BY <1>1, HandNumbers
  <2>4. PICK c \in Nat : c = closed'[i]
    BY <2>1
  <2>5. c + n + m <= box[i]
    BY <2>2, <2>3, <2>4
  <2>6. Total(ShowsOf(facts', i)) = m + n
    BY <1>4, <2>1, <2>2, <2>3
  <2>7. c + (m + n) <= box[i]
    BY <2>1, <2>5
  <2> QED
    BY <2>4, <2>6, <2>7
<1> QED
  BY <1>3, <1>6, <1>7 DEF HandIInv

(* n tiles of one kind.                                                    *)
LEMMA SameTiles ==
    ASSUME NEW i \in Playable, NEW n \in Nat
    PROVE  /\ [k \in 1..n |-> FromIndex(i)] \in Seq(PlayTiles) /\ Len([k \in 1..n |-> FromIndex(i)]) = n
           /\ \A j \in Playable : countTile([k \in 1..n |-> FromIndex(i)], FromIndex(j)) = IF i = j THEN n ELSE 0
<1>1. FromIndex(i) \in PlayTiles
  BY DEF PlayTiles
<1>2. [k \in 1..n |-> FromIndex(i)] \in Seq(PlayTiles) /\ Len([k \in 1..n |-> FromIndex(i)]) = n
  BY <1>1
<1>3. ASSUME NEW j \in Playable
      PROVE  countTile([k \in 1..n |-> FromIndex(i)], FromIndex(j)) = IF i = j THEN n ELSE 0
  <2>1. FromIndex(i) = FromIndex(j) <=> i = j
    <3>1. Index(FromIndex(i)) = i /\ Index(FromIndex(j)) = j
      BY PlayableTile, Zenon DEF TileAt
    <3> QED
      BY <3>1, Zenon
  <2>2. PICK t, u : t = FromIndex(i) /\ u = FromIndex(j)
    OBVIOUS
  <2>3. PICK s : s = [k \in 1..n |-> t]
    OBVIOUS
  <2>4. countTile(s, u) = IF t = u THEN n ELSE 0
    <3>1. AllSame(s, n, t)
      BY <2>3, Zenon DEF AllSame
    <3> QED
      BY <3>1, SameCounted
  <2> QED
    BY <2>1, <2>2, <2>3, <2>4
<1> QED
  BY <1>2, <1>3

(* The arithmetic of a meld taken out of the hand: m of its n tiles leave   *)
(* the hand, d of them stood in the draw before and e do after, and g is the *)
(* one tile a gang shows beyond three.                                       *)
Balanced(n, m, c, cc, d, e, g) ==
  m = n - g + d - e /\ cc + m = c => cc + n + d = c + g + e

(* Balanced holds of any numbers.                                          *)
LEMMA TakenBalance ==
  ASSUME NEW n \in Nat, NEW m \in Nat, NEW c \in Nat, NEW cc \in Nat,
         NEW d \in Nat, NEW e \in Nat, NEW g \in Nat
  PROVE  Balanced(n, m, c, cc, d, e, g)
BY DEF Balanced

(* A claim, or a concealed gang, of n tiles that takes m of the hand.      *)
LEMMA SameStep ==
    ASSUME HandIInv, NEW i \in DOMAIN box, NEW n \in {3, 4}, NEW m \in 2..4, m <= closed[i],
           m = n \/ (m = n - 1 /\ Out(i)),
           NEW kind \in MeldKinds, NEW from \in 0..3 \cup {SeatInvalid},
           from = SeatInvalid <=> kind = "an_gang", kind = "pong" => n = 3,
           closed' = Less(closed, i, m), box' = box, drawn' \in BOOLEAN,
           recordMeldFact(kind, [k \in 1..n |-> FromIndex(i)], from),
           m = n - (IF n = 4 THEN 1 ELSE 0) + Num(drawn) - Num(drawn')
    PROVE  HandIInv'
<1>1. HandTypes /\ WithinBox
  BY DEF HandIInv
<1>2. closed \in [Playable -> Nat] /\ facts \in Seq(MeldFacts) /\ drawn \in BOOLEAN
  BY <1>1 DEF HandTypes
<1>3. i \in Playable /\ n \in Nat /\ m \in Nat
  BY <1>1, HandNumbers
<1>4. PICK tiles : tiles = [k \in 1..n |-> FromIndex(i)]
  OBVIOUS
<1>5. /\ tiles \in Seq(PlayTiles) /\ Len(tiles) = n
      /\ \A j \in Playable : countTile(tiles, FromIndex(j)) = IF i = j THEN n ELSE 0
  BY <1>3, <1>4, SameTiles
<1>6. PICK f : f = encodeMeldFact(kind, tiles, from)
  OBVIOUS
<1>7. kind = "pong" => Len(tiles) = 3 /\ \A k \in 1..3 : tiles[k] = tiles[1]
  BY <1>4, <1>5
<1>8. f \in MeldFacts /\ TilesIn(f) = tiles
  <2>1. Len(tiles) \in {3, 4}
    BY <1>5
  <2> QED
    BY <1>5, <1>6, <1>7, <2>1, FactMade
<1>9. facts' = Append(facts, f)
  BY <1>4, <1>6 DEF recordMeldFact
<1>10. /\ closed' \in [Playable -> Nat] /\ closed'[i] = closed[i] - m
       /\ \A j \in Playable \ {i} : closed'[j] = closed[j]
       /\ Total(closed') + m = Total(closed) /\ Total(closed) \in Nat /\ Total(closed') \in Nat
  <2>1. closed[i] >= m
    BY <1>2, <1>3
  <2>2. PICK c, d : c = closed /\ d = Less(c, i, m)
    OBVIOUS
  <2>3. c \in [Playable -> Nat] /\ c[i] >= m
    BY <1>2, <2>1, <2>2
  <2>4. /\ d \in [Playable -> Nat] /\ d[i] = c[i] - m
        /\ \A j \in Playable \ {i} : d[j] = c[j]
        /\ Total(d) + m = Total(c) /\ Total(c) \in Nat /\ Total(d) \in Nat
    BY <1>3, <2>2, <2>3, TilesTaken, SMTT(30)
  <2>5. closed' = d
    BY <2>2
  <2> QED
    BY <2>2, <2>4, <2>5
<1>11. Total(closed') + Len(TilesIn(f)) + Num(drawn)
         = Total(closed) + (IF Len(TilesIn(f)) = 4 THEN 1 ELSE 0) + Num(drawn')
  <2>1. PICK c, cc \in Nat : c = Total(closed) /\ cc = Total(closed') /\ cc + m = c
    BY <1>10
  <2>2. PICK d, e, g \in Nat : d = Num(drawn) /\ e = Num(drawn') /\ g = IF n = 4 THEN 1 ELSE 0
    BY DEF Num
  <2>3. m = n - g + d - e
    BY <2>2
  <2>4. cc + n + d = c + g + e
    <3>1. n \in Nat /\ m \in Nat
      BY <1>3
    <3>2. cc + m = c
      BY <2>1
    <3>3. Balanced(n, m, c, cc, d, e, g)
      BY <3>1, TakenBalance
    <3> QED
      BY <2>3, <3>2, <3>3, Zenon DEF Balanced
  <2>5. Len(TilesIn(f)) = n /\ (IF Len(TilesIn(f)) = 4 THEN 1 ELSE 0) = g
    BY <1>5, <1>8, <2>2 DEF Num
  <2> QED
    BY <2>1, <2>2, <2>4, <2>5
<1>12. ASSUME NEW j \in DOMAIN box
       PROVE  closed'[j] + countTile(TilesIn(f), FromIndex(j)) + Total(ShowsOf(facts, j)) <= box[j]
  <2>1. j \in Playable /\ box[j] \in 0..4 /\ closed[j] \in Nat
    BY <1>1, HandNumbers
  <2>2. PICK s \in Nat : s = Total(ShowsOf(facts, j))
    BY <1>1, HandNumbers
  <2>3. closed[j] + s <= box[j]
    BY <1>1, <2>2 DEF WithinBox
  <2>4. countTile(TilesIn(f), FromIndex(j)) = IF i = j THEN n ELSE 0
    BY <1>5, <1>8, <2>1
  <2>5. CASE i # j
    BY <1>10, <2>1, <2>2, <2>3, <2>4, <2>5
  <2>6. CASE i = j
    <3>1. m = n \/ (m = n - 1 /\ closed[j] + s < box[j])
      BY <1>2, <2>2, <2>6, ShownIs DEF Out, Copies
    <3>2. closed'[j] = closed[j] - m /\ m <= closed[j]
      BY <1>10, <2>6
    <3>3. (closed[j] - m) + n + s <= box[j]
      BY <3>1, <2>1, <2>3, <1>3, SMTT(30)
    <3> QED
      BY <2>2, <2>4, <2>6, <3>2, <3>3
  <2> QED
    BY <2>5, <2>6
<1> QED
  BY <1>8, <1>9, <1>10, <1>11, <1>12, MeldStep

(* What is offered is in the hand.                                         *)
LEMMA OffersHeld ==
    ASSUME HandTypes, NEW i \in Playable, NEW from
    PROVE  /\ "pong" \in Offered(i, from) => closed[i] >= 2
           /\ "gang" \in Offered(i, from) => closed[i] >= 3
           /\ "chi" \in Offered(i, from) => IsSuited(FromIndex(i))
<1>1. Index(FromIndex(i)) = i
  BY PlayableTile, Zenon DEF TileAt
<1>2. "pong" \in Offered(i, from) => closed[Index(FromIndex(i))] >= 2
  BY DEF Offered, Candidates
<1>3. "gang" \in Offered(i, from) => closed[Index(FromIndex(i))] >= 3
  BY DEF Offered, Candidates
<1>4. "chi" \in Offered(i, from) => IsSuited(FromIndex(i))
  BY DEF Offered, Candidates, canStandardChi
<1> QED
  BY <1>1, <1>2, <1>3, <1>4

(* A chi keeps the inductive invariant of the hand.                        *)
LEMMA ChiStep ==
    ASSUME HandIInv, NEW i \in DOMAIN box, Chi(i)
    PROVE  HandIInv'
<1>1. HandTypes /\ WithinBox
  BY DEF HandIInv
<1>2. closed \in [Playable -> Nat] /\ facts \in Seq(MeldFacts) /\ drawn \in BOOLEAN /\ i \in Playable
  BY <1>1, HandNumbers DEF HandTypes
<1>3. PICK t : t = FromIndex(i)
  OBVIOUS
<1>4. PICK from \in Sources, named \in Named \cup {<< >>} :
         LET run == resolveChiTiles(closed, t, named)
         IN  /\ MayClaim(i) /\ "chi" \in Offered(i, from) /\ run # NoRun
             /\ closed' = [j \in Playable |-> closed[j] - Num(j # i /\ \E k \in 1..3 : Index(run[k]) = j)]
             /\ recordMeldFact("chi", run, from)
             /\ drawn' = TRUE
             /\ UNCHANGED box
  BY <1>3 DEF Chi
<1>41. PICK run : run = resolveChiTiles(closed, t, named)
  OBVIOUS
<1>5. /\ MayClaim(i) /\ "chi" \in Offered(i, from) /\ run # NoRun
      /\ closed' = [j \in Playable |-> closed[j] - Num(j # i /\ \E k \in 1..3 : Index(run[k]) = j)]
      /\ recordMeldFact("chi", run, from)
      /\ drawn' = TRUE
      /\ UNCHANGED box
  BY <1>4, <1>41
<1>6. IsSuited(t)
  BY <1>1, <1>2, <1>3, <1>5, OffersHeld
<1>7. /\ ThreeOnce(run)
      /\ \E k \in 1..3 : run[k] = t
      /\ \A k \in 1..3 : run[k] # t => closed[Index(run[k])] >= 1
  <2>1. ChiRun(closed, i, run)
    BY <1>2, <1>3, <1>41, <1>5, <1>6, ChiTakes
  <2> QED
    BY <1>3, <2>1, Zenon DEF ChiRun
<1>8. Index(t) = i
  BY <1>2, <1>3, PlayableTile, Zenon DEF TileAt
<1>9. PICK ix : ix = [k \in 1..3 |-> Index(run[k])]
  OBVIOUS
<1>10. ASSUME NEW k \in 1..3
       PROVE  ix[k] = Index(run[k]) /\ ix[k] \in Playable /\ (ix[k] # i => closed[ix[k]] >= 1)
  <2>2. Index(run[k]) \in Playable
    BY <1>7, OneOfThree
  <2>3. ix[k] = Index(run[k])
    BY <1>9
  <2>4. run[k] = t \/ closed[ix[k]] >= 1
    BY <1>7, <2>3, Zenon
  <2> QED
    BY <1>8, <2>2, <2>3, <2>4, Zenon
<1>11. ix[1] # ix[2] /\ ix[1] # ix[3] /\ ix[2] # ix[3]
  <2>1. \A k, l \in 1..3 : Index(run[k]) = Index(run[l]) => k = l
    BY <1>7, Zenon DEF ThreeOnce
  <2>2. 1 \in 1..3 /\ 2 \in 1..3 /\ 3 \in 1..3 /\ 1 # 2 /\ 1 # 3 /\ 2 # 3
    OBVIOUS
  <2>3. ix[1] = Index(run[1]) /\ ix[2] = Index(run[2]) /\ ix[3] = Index(run[3])
    BY <1>10, <2>2, Zenon
  <2> QED
    BY <2>1, <2>2, <2>3, Zenon
<1>12. \E k \in 1..3 : ix[k] = i
  BY <1>7, <1>8, <1>10, Zenon
<1>13. PICK x, y \in Playable :
          /\ x # y /\ x # i /\ y # i /\ closed[x] >= 1 /\ closed[y] >= 1
          /\ {ix[1], ix[2], ix[3]} = {i, x, y}
  <2>1. /\ ix[1] \in Playable /\ ix[2] \in Playable /\ ix[3] \in Playable
        /\ ix[1] # i => closed[ix[1]] >= 1
        /\ ix[2] # i => closed[ix[2]] >= 1
        /\ ix[3] # i => closed[ix[3]] >= 1
    <3>1. 1 \in 1..3 /\ 2 \in 1..3 /\ 3 \in 1..3
      OBVIOUS
    <3> QED
      BY <1>10, <3>1, Zenon
  <2>2. ix[1] = i \/ ix[2] = i \/ ix[3] = i
    BY <1>12
  <2>3. CASE ix[1] = i
    BY <1>11, <2>1, <2>3, Zenon
  <2>4. CASE ix[2] = i
    BY <1>11, <2>1, <2>4, Zenon
  <2>5. CASE ix[3] = i
    BY <1>11, <2>1, <2>5, Zenon
  <2> QED
    BY <2>2, <2>3, <2>4, <2>5, Zenon
<1>14. \A j \in Playable : (\E k \in 1..3 : Index(run[k]) = j) <=> (j = i \/ j = x \/ j = y)
  <2>1. \A j : (\E k \in 1..3 : Index(run[k]) = j) <=> j \in {ix[1], ix[2], ix[3]}
    <3>1. Index(run[1]) = ix[1] /\ Index(run[2]) = ix[2] /\ Index(run[3]) = ix[3]
      <4>1. 1 \in 1..3 /\ 2 \in 1..3 /\ 3 \in 1..3
        OBVIOUS
      <4> QED
        BY <1>10, <4>1
    <3>2. \A k : k \in 1..3 <=> k = 1 \/ k = 2 \/ k = 3
      OBVIOUS
    <3> QED
      BY <3>1, <3>2, Zenon
  <2>2. \A j : j \in {ix[1], ix[2], ix[3]} <=> (j = i \/ j = x \/ j = y)
    BY <1>13
  <2> QED
    BY <2>1, <2>2, Zenon
<1>15. PICK c, d, e : c = closed /\ d = Less(c, x, 1) /\ e = Less(d, y, 1)
  OBVIOUS
<1>16. /\ d \in [Playable -> Nat] /\ d[x] = c[x] - 1 /\ \A j \in Playable \ {x} : d[j] = c[j]
       /\ Total(d) + 1 = Total(c) /\ Total(c) \in Nat /\ Total(d) \in Nat
  <2>1. c \in [Playable -> Nat] /\ c[x] >= 1
    BY <1>2, <1>13, <1>15
  <2> QED
    BY <1>15, <2>1, TilesTaken
<1>17. /\ e \in [Playable -> Nat] /\ e[y] = d[y] - 1 /\ \A j \in Playable \ {y} : e[j] = d[j]
       /\ Total(e) + 1 = Total(d) /\ Total(e) \in Nat
  <2>1. d[y] >= 1
    BY <1>13, <1>15, <1>16
  <2> QED
    BY <1>15, <1>16, <2>1, TilesTaken
<1>18. ASSUME NEW j \in Playable
       PROVE  closed'[j] = e[j] /\ e[j] = IF j = x \/ j = y THEN c[j] - 1 ELSE c[j]
  <2>1. e[j] = IF j = x \/ j = y THEN c[j] - 1 ELSE c[j]
    BY <1>13, <1>16, <1>17
  <2>2. closed'[j] = c[j] - Num(j # i /\ \E k \in 1..3 : Index(run[k]) = j)
    BY <1>5, <1>15
  <2>3. c[j] \in Nat
    BY <1>2, <1>15
  <2>4. (j # i /\ \E k \in 1..3 : Index(run[k]) = j) <=> (j = x \/ j = y)
    BY <1>13, <1>14, Zenon
  <2>5. CASE j = x \/ j = y
    <3>1. Num(j # i /\ \E k \in 1..3 : Index(run[k]) = j) = 1
      BY <2>4, <2>5, Zenon DEF Num
    <3> QED
      BY <2>1, <2>2, <2>3, <2>5, <3>1
  <2>6. CASE ~(j = x \/ j = y)
    <3>1. Num(j # i /\ \E k \in 1..3 : Index(run[k]) = j) = 0
      BY <2>4, <2>6, Zenon DEF Num
    <3> QED
      BY <2>1, <2>2, <2>3, <2>6, <3>1
  <2> QED
    BY <2>5, <2>6
<1>19. closed' = e
  <2>1. closed' = [j \in Playable |-> closed'[j]] /\ e = [j \in Playable |-> e[j]]
    BY <1>5, <1>17
  <2> QED
    BY <1>18, <2>1
<1>20. PICK f : f = encodeMeldFact("chi", run, from)
  OBVIOUS
<1>21. /\ run \in Seq(PlayTiles) /\ Len(run) = 3
       /\ \A j \in Playable : countTile(run, FromIndex(j)) = IF \E k \in 1..3 : Index(run[k]) = j THEN 1 ELSE 0
  BY <1>7, Zenon DEF ThreeOnce
<1>22. f \in MeldFacts /\ TilesIn(f) = run
  <2>1. "chi" \in MeldKinds /\ from \in 0..3 \cup {SeatInvalid} /\ from # SeatInvalid /\ Len(run) \in {3, 4}
    BY <1>5, <1>21 DEF MeldKinds, Sources, SeatInvalid
  <2>2. "chi" # "an_gang" /\ "chi" # "pong"
    OBVIOUS
  <2> QED
    BY <1>20, <1>21, <2>1, <2>2, FactMade
<1>23. facts' = Append(facts, f) /\ box' = box /\ drawn' \in BOOLEAN
  <2>1. TRUE \in BOOLEAN
    OBVIOUS
  <2> QED
    BY <1>5, <1>20, <2>1, Zenon DEF recordMeldFact
<1>24. Total(closed') + Len(TilesIn(f)) + Num(drawn)
         = Total(closed) + (IF Len(TilesIn(f)) = 4 THEN 1 ELSE 0) + Num(drawn')
  <2>1. Num(drawn) = 0 /\ Num(drawn') = 1
    BY <1>5 DEF Num, MayClaim
  <2>2. Len(TilesIn(f)) = 3
    BY <1>21, <1>22
  <2>3. Total(closed') + 2 = Total(closed) /\ Total(closed) \in Nat /\ Total(closed') \in Nat
    BY <1>15, <1>16, <1>17, <1>19
  <2> QED
    BY <2>1, <2>2, <2>3
<1>25. ASSUME NEW j \in DOMAIN box
       PROVE  closed'[j] + countTile(TilesIn(f), FromIndex(j)) + Total(ShowsOf(facts, j)) <= box[j]
  <2>1. j \in Playable /\ box[j] \in 0..4 /\ closed[j] \in Nat
    BY <1>1, HandNumbers
  <2>2. PICK s \in Nat : s = Total(ShowsOf(facts, j))
    BY <1>1, HandNumbers
  <2>3. closed[j] + s <= box[j]
    BY <1>1, <2>2 DEF WithinBox
  <2>4. countTile(TilesIn(f), FromIndex(j)) = IF j = i \/ j = x \/ j = y THEN 1 ELSE 0
    BY <1>14, <1>21, <1>22, <2>1
  <2>5. closed'[j] = IF j = x \/ j = y THEN closed[j] - 1 ELSE closed[j]
    BY <1>15, <1>18, <2>1
  <2>6. CASE j = i
    <3>1. closed[j] + s < box[j]
      BY <1>2, <1>5, <2>2, <2>6, ShownIs DEF MayClaim, Out, Copies
    <3>2. closed'[j] = closed[j]
      BY <1>13, <2>5, <2>6
    <3> QED
      BY <2>1, <2>2, <2>4, <2>6, <3>1, <3>2
  <2>7. CASE j = x \/ j = y
    BY <2>1, <2>2, <2>3, <2>4, <2>5, <2>7
  <2>8. CASE j # i /\ j # x /\ j # y
    BY <2>1, <2>2, <2>3, <2>4, <2>5, <2>8
  <2> QED
    BY <2>6, <2>7, <2>8
<1>26. closed' \in [Playable -> Nat]
  BY <1>17, <1>19
<1> QED
  BY <1>22, <1>23, <1>24, <1>25, <1>26, MeldStep

(* The pong an added gang grows out of: three of the tile, claimed.        *)
Grows(fs, t, x, from) ==
    /\ upgradePongToBuGang(fs, t) = [fs EXCEPT ![x] = encodeMeldFact("bu_gang", [k \in 1..4 |-> t], from)]
    /\ TilesIn(fs[x]) = [k \in 1..3 |-> t]

(* The meld that a filled gang grows is the first pong of that tile, and it*)
(* is read back as the gang of the same tile and source seat.              *)
LEMMA PongFound ==
    ASSUME NEW fs \in Seq(MeldFacts), NEW i \in Playable, hasPongMeld(fs, FromIndex(i))
    PROVE  \E x \in 1..Len(fs), from \in 0..3 : Grows(fs, FromIndex(i), x, from)
<1>1. PICK t : t = FromIndex(i)
  OBVIOUS
<1> DEFINE IsPong(f) == parseMeldFact(f).kind = "pong" /\ parseMeldFact(f).tiles # << >> /\ parseMeldFact(f).tiles[1] = t
<1>2. ASSUME NEW f
      PROVE  hasPongMeld(<< f >>, t) <=> IsPong(f)
  <2>1. PICK s : s = << f >>
    OBVIOUS
  <2>2. Len(s) = 1 /\ s[1] = f /\ \A k : k \in 1..1 <=> k = 1
    BY <2>1
  <2>3. hasPongMeld(s, t) <=> \E k \in 1..Len(s) : IsPong(s[k])
    BY Zenon DEF hasPongMeld
  <2> HIDE DEF IsPong
  <2> QED
    BY <2>1, <2>2, <2>3, Zenon
<1>3. hasPongMeld(fs, t) <=> \E k \in 1..Len(fs) : IsPong(fs[k])
  BY Zenon DEF hasPongMeld
<1> HIDE DEF IsPong
<1> DEFINE P == {k \in 1..Len(fs) : hasPongMeld(<< fs[k] >>, t)}
           first == CHOOSE k \in P : \A j \in P : k <= j
<1>0. upgradePongToBuGang(fs, t)
        = IF P = {} THEN fs
          ELSE [fs EXCEPT ![first] = encodeMeldFact("bu_gang", << t, t, t, t >>, parseMeldFact(fs[first]).from)]
  BY DEF upgradePongToBuGang
<1>4. PICK pongs : pongs = P
  OBVIOUS
<1>5. pongs \in SUBSET Nat /\ pongs # {} /\ \A k \in pongs : k \in 1..Len(fs) /\ IsPong(fs[k])
  BY <1>1, <1>2, <1>3, <1>4
<1>6. PICK x : x = first /\ x = CHOOSE k \in pongs : \A j \in pongs : k <= j
  BY <1>4, Zenon
<1>7. x \in pongs
  BY <1>5, <1>6, FirstPlace
<1>8. x \in 1..Len(fs) /\ IsPong(fs[x]) /\ fs[x] \in MeldFacts
  BY <1>5, <1>7
<1>9. PICK from : from = parseMeldFact(fs[x]).from
  OBVIOUS
<1>10. upgradePongToBuGang(fs, t) = [fs EXCEPT ![x] = encodeMeldFact("bu_gang", << t, t, t, t >>, from)]
  <2>1. upgradePongToBuGang(fs, t)
          = IF pongs = {} THEN fs
            ELSE [fs EXCEPT ![x] = encodeMeldFact("bu_gang", << t, t, t, t >>, parseMeldFact(fs[x]).from)]
    <3> HIDE DEF P, first
    <3> QED
      BY <1>0, <1>4, <1>6, Zenon
  <2> QED
    BY <1>5, <1>9, <2>1, Zenon
<1>11. << t, t, t, t >> = [k \in 1..4 |-> t]
  OBVIOUS
<1>12. FactRead(fs[x])
  BY <1>8, FactsRead
<1>13. from \in 0..3
  <2>1. from \in 0..3 \cup {SeatInvalid} /\ from # SeatInvalid
    <3>1. parseMeldFact(fs[x]).kind = "pong" /\ "pong" # "an_gang"
      BY <1>8 DEF IsPong
    <3> QED
      BY <1>9, <1>12, <3>1 DEF FactRead
  <2> QED
    BY <2>1
<1>14. TilesIn(fs[x]) = [k \in 1..3 |-> t]
  <2>1. PICK tiles : tiles = TilesIn(fs[x])
    OBVIOUS
  <2>2. tiles \in Seq(PlayTiles) /\ Len(tiles) = 3 /\ tiles[1] = t /\ \A k \in 1..3 : tiles[k] = tiles[1]
    BY <1>8, <1>12, <2>1 DEF FactRead, IsPong, TilesIn
  <2>3. tiles = [k \in 1..Len(tiles) |-> tiles[k]]
    BY <2>2
  <2>4. [k \in 1..Len(tiles) |-> tiles[k]] = [k \in 1..3 |-> t]
    BY <2>2
  <2> QED
    BY <2>1, <2>3, <2>4
<1>15. Grows(fs, t, x, from)
  BY <1>10, <1>11, <1>14, Zenon DEF Grows
<1> QED
  BY <1>1, <1>8, <1>13, <1>15

(* A gang filled from the hand keeps the inductive invariant of the hand.  *)
LEMMA BuGangStep ==
    ASSUME HandIInv, NEW i \in DOMAIN box, BuGang(i)
    PROVE  HandIInv'
<1>1. HandTypes /\ WithinBox /\ HandCounted
  BY DEF HandIInv
<1>2. closed \in [Playable -> Nat] /\ facts \in Seq(MeldFacts) /\ drawn \in BOOLEAN /\ i \in Playable /\ box \in Boxes
  BY <1>1, HandNumbers DEF HandTypes
<1>3. PICK t : t = FromIndex(i)
  OBVIOUS
<1>4. /\ drawn /\ hasPongMeld(facts, t) /\ closed[Index(t)] >= 1
      /\ closed' = Less(closed, i, 1) /\ facts' = upgradePongToBuGang(facts, t)
      /\ drawn' = FALSE /\ box' = box
  BY <1>3 DEF BuGang, CanBuGang
<1>5. Index(t) = i
  BY <1>2, <1>3, PlayableTile, Zenon DEF TileAt
<1>6. PICK x \in 1..Len(facts), from \in 0..3 : Grows(facts, t, x, from)
  BY <1>2, <1>3, <1>4, PongFound
<1>7. PICK old, new : old = [k \in 1..3 |-> FromIndex(i)] /\ new = [k \in 1..4 |-> FromIndex(i)]
  OBVIOUS
<1>8. /\ old \in Seq(PlayTiles) /\ Len(old) = 3 /\ new \in Seq(PlayTiles) /\ Len(new) = 4
      /\ \A j \in Playable : countTile(old, FromIndex(j)) = IF i = j THEN 3 ELSE 0
      /\ \A j \in Playable : countTile(new, FromIndex(j)) = IF i = j THEN 4 ELSE 0
  BY <1>2, <1>3, <1>7, SameTiles
<1>9. PICK f : f = encodeMeldFact("bu_gang", new, from)
  OBVIOUS
<1>10. f \in MeldFacts /\ TilesIn(f) = new
  <2>1. "bu_gang" \in MeldKinds /\ from \in 0..3 \cup {SeatInvalid} /\ from # SeatInvalid /\ Len(new) \in {3, 4}
    BY <1>8 DEF MeldKinds, SeatInvalid
  <2>2. "bu_gang" # "an_gang" /\ "bu_gang" # "pong"
    OBVIOUS
  <2> QED
    BY <1>8, <1>9, <2>1, <2>2, FactMade
<1>11. TilesIn(facts[x]) = old /\ facts' = [facts EXCEPT ![x] = f]
  BY <1>3, <1>4, <1>6, <1>7, <1>9 DEF Grows
<1>12. PICK gs : gs = [facts EXCEPT ![x] = f]
  OBVIOUS
<1>13. gs \in Seq(MeldFacts) /\ facts' = gs
  BY <1>2, <1>10, <1>11, <1>12
<1>14. /\ Total(LensOf(gs)) = Total(LensOf(facts)) + 1
       /\ Cardinality(FoursOf(gs)) = Cardinality(FoursOf(facts)) + 1
       /\ \A j \in Playable : Total(ShowsOf(gs, j)) + countTile(old, FromIndex(j))
                                = Total(ShowsOf(facts, j)) + countTile(new, FromIndex(j))
  <2>1. Len(TilesIn(facts[x])) = 3 /\ Len(TilesIn(f)) = 4
    BY <1>8, <1>10, <1>11
  <2>2. /\ Total(LensOf([facts EXCEPT ![x] = f])) = Total(LensOf(facts)) + 1
        /\ Cardinality(FoursOf([facts EXCEPT ![x] = f])) = Cardinality(FoursOf(facts)) + 1
        /\ \A j \in Playable : Total(ShowsOf([facts EXCEPT ![x] = f], j)) + countTile(TilesIn(facts[x]), FromIndex(j))
                                 = Total(ShowsOf(facts, j)) + countTile(TilesIn(f), FromIndex(j))
    BY <1>2, <1>10, <2>1, FactGrown
  <2> QED
    BY <1>10, <1>11, <1>12, <2>2
<1>15. PICK c, d : c = closed /\ d = Less(c, i, 1)
  OBVIOUS
<1>16. /\ d \in [Playable -> Nat] /\ d[i] = c[i] - 1 /\ \A j \in Playable \ {i} : d[j] = c[j]
       /\ Total(d) + 1 = Total(c) /\ Total(c) \in Nat /\ Total(d) \in Nat
  <2>1. c \in [Playable -> Nat] /\ c[i] >= 1
    BY <1>2, <1>4, <1>5, <1>15
  <2> QED
    BY <1>2, <1>15, <2>1, TilesTaken
<1>17. closed' = d
  BY <1>4, <1>15
<1>18. HandTypes'
  <2>1. FALSE \in BOOLEAN
    OBVIOUS
  <2> QED
    BY <1>2, <1>4, <1>13, <1>16, <1>17, <2>1, Zenon DEF HandTypes
<1>19. HandCounted'
  <2>1. Num(drawn) = 1 /\ Num(drawn') = 0
    BY <1>4 DEF Num
  <2>2. PICK l, q \in Nat : l = Total(LensOf(facts)) /\ q = Cardinality(FoursOf(facts))
    BY <1>1, HandNumbers
  <2>3. Total(c) + l = 13 + q + 1
    BY <1>1, <1>15, <2>1, <2>2 DEF HandCounted
  <2>4. Total(d) + (l + 1) = 13 + (q + 1) + 0
    BY <1>16, <2>3
  <2>5. Total(closed') = Total(d) /\ Total(LensOf(facts')) = l + 1 /\ Cardinality(FoursOf(facts')) = q + 1
    BY <1>13, <1>14, <1>17, <2>2
  <2> QED
    BY <2>1, <2>4, <2>5 DEF HandCounted
<1>20. WithinBox'
  <2> SUFFICES ASSUME NEW j \in DOMAIN box
               PROVE  closed'[j] + Total(ShowsOf(facts', j)) <= box[j]
    BY <1>4 DEF WithinBox
  <2>1. j \in Playable /\ box[j] \in 0..4 /\ closed[j] \in Nat
    BY <1>1, HandNumbers
  <2>2. PICK s \in Nat : s = Total(ShowsOf(facts, j))
    BY <1>1, HandNumbers
  <2>3. PICK r \in Nat : r = Total(ShowsOf(facts', j))
    <3>1. PICK D, z : D = 1..Len(gs) /\ z = ShowsOf(gs, j)
      OBVIOUS
    <3>2. IsFiniteSet(D) /\ z \in [D -> Nat]
      BY <1>13, <3>1, MeldsCounted, Zenon
    <3>3. Total(z) \in Nat
      BY <3>2, TotalType
    <3> QED
      BY <1>13, <3>1, <3>3
  <2>4. closed[j] + s <= box[j]
    BY <1>1, <2>2 DEF WithinBox
  <2>5. r + countTile(old, FromIndex(j)) = s + countTile(new, FromIndex(j))
    BY <1>13, <1>14, <2>1, <2>2, <2>3
  <2>6. CASE i = j
    <3>1. r + 3 = s + 4 /\ closed'[j] = closed[j] - 1
      BY <1>8, <1>15, <1>16, <1>17, <2>1, <2>5, <2>6
    <3> QED
      BY <2>1, <2>3, <2>4, <3>1
  <2>7. CASE i # j
    <3>1. r + 0 = s + 0 /\ closed'[j] = closed[j]
      BY <1>8, <1>15, <1>16, <1>17, <2>1, <2>5, <2>7
    <3> QED
      BY <2>1, <2>3, <2>4, <3>1
  <2> QED
    BY <2>6, <2>7
<1> QED
  BY <1>18, <1>19, <1>20 DEF HandIInv

(* A tile comes or goes: n is the hand after it.                           *)
LEMMA TileStep ==
    ASSUME HandIInv, NEW i \in DOMAIN box, NEW n \in Nat, closed' = [closed EXCEPT ![i] = n],
           facts' = facts, box' = box, drawn' \in BOOLEAN,
           n + Num(drawn) = closed[i] + Num(drawn'), n <= closed[i] \/ (n = closed[i] + 1 /\ Out(i))
    PROVE  HandIInv'
<1>1. HandTypes /\ WithinBox /\ HandCounted
  BY DEF HandIInv
<1>2. closed \in [Playable -> Nat] /\ facts \in Seq(MeldFacts) /\ drawn \in BOOLEAN /\ i \in Playable /\ box \in Boxes
  BY <1>1, HandNumbers DEF HandTypes
<1>3. PICK c, d : c = closed /\ d = [c EXCEPT ![i] = n]
  OBVIOUS
<1>4. d \in [Playable -> Nat] /\ d[i] = n /\ c \in [Playable -> Nat] /\ Elsewhere(Playable, i, c, d)
  BY <1>2, <1>3 DEF Elsewhere
<1>5. Total(d) + c[i] = Total(c) + d[i] /\ Total(c) \in Nat /\ Total(d) \in Nat
  BY <1>2, <1>4, PlayableFinite, TotalReplaced, Zenon
<1>6. closed' = d
  BY <1>3
<1>7. HandTypes'
  BY <1>2, <1>4, <1>6, Zenon DEF HandTypes
<1>8. HandCounted'
  <2>1. PICK a, b \in Nat : a = Num(drawn) /\ b = Num(drawn')
    BY DEF Num
  <2>2. PICK l, q \in Nat : l = Total(LensOf(facts)) /\ q = Cardinality(FoursOf(facts))
    BY <1>1, HandNumbers
  <2>3. PICK m \in Nat : m = c[i]
    BY <1>2, <1>4
  <2>4. Total(c) + l = 13 + q + a
    BY <1>1, <1>3, <2>1, <2>2 DEF HandCounted
  <2>5. n + a = m + b /\ Total(d) + m = Total(c) + n
    BY <1>3, <1>4, <1>5, <2>1, <2>3
  <2>6. PICK x, y \in Nat : x = Total(c) /\ y = Total(d)
    BY <1>5
  <2>7. y + l = 13 + q + b
    BY <2>4, <2>5, <2>6
  <2> QED
    BY <1>6, <2>1, <2>2, <2>6, <2>7 DEF HandCounted
<1>9. WithinBox'
  <2> SUFFICES ASSUME NEW j \in DOMAIN box
               PROVE  closed'[j] + Total(ShowsOf(facts, j)) <= box[j]
    BY DEF WithinBox
  <2>1. j \in Playable /\ box[j] \in 0..4 /\ closed[j] \in Nat
    BY <1>1, HandNumbers
  <2>2. PICK s \in Nat : s = Total(ShowsOf(facts, j))
    BY <1>1, HandNumbers
  <2>3. closed[j] + s <= box[j]
    BY <1>1, <2>2 DEF WithinBox
  <2>4. CASE i = j
    <3>1. n <= closed[j] \/ (n = closed[j] + 1 /\ closed[j] + s < box[j])
      BY <1>2, <2>2, <2>4, ShownIs DEF Out, Copies
    <3>2. closed'[j] = n
      BY <1>4, <1>6, <2>4
    <3> QED
      BY <2>1, <2>2, <2>3, <3>1, <3>2
  <2>5. CASE i # j
    <3>1. closed'[j] = closed[j]
      BY <1>3, <1>4, <1>6, <2>1, <2>5 DEF Elsewhere
    <3> QED
      BY <2>2, <2>3, <3>1
  <2> QED
    BY <2>4, <2>5
<1> QED
  BY <1>7, <1>8, <1>9 DEF HandIInv

(* Every step of a hand keeps its inductive invariant.                     *)
LEMMA HandKeeps == HandIInv /\ [HandNext]_tableVars => HandIInv'
<1> SUFFICES ASSUME HandIInv, [HandNext]_tableVars
             PROVE  HandIInv'
  OBVIOUS
<1>1. HandTypes /\ closed \in [Playable -> Nat] /\ drawn \in BOOLEAN
  BY DEF HandIInv, HandTypes
<1>2. \A i \in DOMAIN box : i \in Playable /\ closed[i] \in Nat
  BY <1>1, HandNumbers
<1>3. TRUE \in BOOLEAN /\ FALSE \in BOOLEAN
  OBVIOUS
<1>4. ASSUME NEW i \in DOMAIN box, Draw(i)
      PROVE  HandIInv'
  <2>1. /\ drawn = FALSE /\ Out(i) /\ closed' = [closed EXCEPT ![i] = closed[i] + 1] /\ drawn' = TRUE
        /\ box' = box /\ facts' = facts
    BY <1>1, <1>4 DEF Draw
  <2>2. PICK n \in Nat : n = closed[i] + 1
    BY <1>2
  <2>3. closed' = [closed EXCEPT ![i] = n] /\ n + Num(drawn) = closed[i] + Num(drawn')
    BY <1>2, <2>1, <2>2 DEF Num
  <2> QED
    BY <1>3, <2>1, <2>2, <2>3, TileStep
<1>5. ASSUME NEW i \in DOMAIN box, Discard(i)
      PROVE  HandIInv'
  <2>1. /\ drawn = TRUE /\ closed[i] > 0 /\ closed' = [closed EXCEPT ![i] = closed[i] - 1] /\ drawn' = FALSE
        /\ box' = box /\ facts' = facts
    BY <1>1, <1>5 DEF Discard, Less
  <2>2. PICK n \in Nat : n = closed[i] - 1
    BY <1>2, <2>1
  <2>3. closed' = [closed EXCEPT ![i] = n] /\ n + Num(drawn) = closed[i] + Num(drawn') /\ n <= closed[i]
    BY <1>2, <2>1, <2>2 DEF Num
  <2> QED
    BY <1>3, <2>1, <2>2, <2>3, TileStep
<1>6. "pong" \in MeldKinds /\ "zhi_gang" \in MeldKinds /\ "an_gang" \in MeldKinds
  BY DEF MeldKinds
<1>7. "pong" # "an_gang" /\ "zhi_gang" # "an_gang" /\ "zhi_gang" # "pong" /\ "an_gang" # "pong"
  OBVIOUS
<1>8. \A from \in Sources : from \in 0..3 \cup {SeatInvalid} /\ from # SeatInvalid
  BY DEF Sources, SeatInvalid
<1>9. ASSUME NEW i \in DOMAIN box, Pong(i)
      PROVE  HandIInv'
  <2>1. PICK from \in Sources :
          /\ MayClaim(i) /\ "pong" \in Offered(i, from)
          /\ closed' = Less(closed, i, 2) /\ recordMeldFact("pong", [k \in 1..3 |-> FromIndex(i)], from)
          /\ drawn' = TRUE /\ box' = box
    BY <1>9 DEF Pong
  <2>2. drawn = FALSE /\ Out(i) /\ closed[i] >= 2
    BY <1>1, <1>2, <2>1, OffersHeld DEF MayClaim
  <2>3. 2 <= closed[i] /\ 2 = 3 - (IF 3 = 4 THEN 1 ELSE 0) + Num(drawn) - Num(drawn')
    BY <1>2, <2>1, <2>2 DEF Num
  <2>4. 3 \in {3, 4} /\ 2 \in 2..4 /\ 2 = 3 - 1
    OBVIOUS
  <2> QED
    BY <1>3, <1>6, <1>7, <1>8, <2>1, <2>2, <2>3, <2>4, SameStep
<1>10. ASSUME NEW i \in DOMAIN box, ZhiGang(i)
       PROVE  HandIInv'
  <2>1. PICK from \in Sources :
          /\ MayClaim(i) /\ "gang" \in Offered(i, from)
          /\ closed' = Less(closed, i, 3) /\ recordMeldFact("zhi_gang", [k \in 1..4 |-> FromIndex(i)], from)
          /\ drawn' = drawn /\ box' = box
    BY <1>10 DEF ZhiGang
  <2>2. drawn = FALSE /\ Out(i) /\ closed[i] >= 3
    BY <1>1, <1>2, <2>1, OffersHeld DEF MayClaim
  <2>3. 3 <= closed[i] /\ 3 = 4 - (IF 4 = 4 THEN 1 ELSE 0) + Num(drawn) - Num(drawn')
    BY <1>2, <2>1, <2>2 DEF Num
  <2>4. 4 \in {3, 4} /\ 3 \in 2..4 /\ 3 = 4 - 1
    OBVIOUS
  <2> QED
    BY <1>1, <1>6, <1>7, <1>8, <2>1, <2>2, <2>3, <2>4, SameStep
<1>11. ASSUME NEW i \in DOMAIN box, AnGang(i)
       PROVE  HandIInv'
  <2>1. /\ drawn = TRUE /\ closed[Index(FromIndex(i))] >= 4 /\ closed' = Less(closed, i, 4)
        /\ recordMeldFact("an_gang", [k \in 1..4 |-> FromIndex(i)], SeatInvalid) /\ drawn' = FALSE /\ box' = box
    BY <1>1, <1>11 DEF AnGang, CanAnGang
  <2>2. closed[i] >= 4
    <3>1. Index(FromIndex(i)) = i
      BY <1>2, PlayableTile, Zenon DEF TileAt
    <3> QED
      BY <2>1, <3>1
  <2>3. 4 <= closed[i] /\ 4 = 4 - (IF 4 = 4 THEN 1 ELSE 0) + Num(drawn) - Num(drawn')
    BY <1>2, <2>1, <2>2 DEF Num
  <2>4. 4 \in {3, 4} /\ 4 \in 2..4 /\ SeatInvalid \in 0..3 \cup {SeatInvalid}
    OBVIOUS
  <2> QED
    BY <1>3, <1>6, <1>7, <2>1, <2>3, <2>4, SameStep
<1>12. CASE UNCHANGED tableVars
  BY <1>12 DEF tableVars, HandIInv, HandTypes, HandCounted, WithinBox
<1> QED
  BY <1>4, <1>5, <1>9, <1>10, <1>11, <1>12, ChiStep, BuGangStep DEF HandNext

(* meld_fact.go, rules.go and engine_claim.go, for any box of tiles, any   *)
(* first hand and any number of melds: a hand and its melds stay thirteen  *)
(* tiles, one more for each gang and while the seat has to act, never more *)
(* than four of a kind; every fact is read back as it was written; and a   *)
(* chi is offered exactly when a run can be taken.                         *)
THEOREM HandsKept == HandSpec => []HandKept
<1>1. ASSUME HandIInv
      PROVE  HandKept
  <2>1. HandTypes /\ HandCounted /\ WithinBox
    BY <1>1 DEF HandIInv
  <2>2. facts \in Seq(MeldFacts) /\ closed \in [Playable -> Nat] /\ drawn \in BOOLEAN
    BY <2>1 DEF HandTypes
  <2>3. Total(closed) + Total([k \in 1..Len(Melds) |-> Len(Melds[k].tiles)])
          = 13 + Cardinality({k \in 1..Len(Melds) : Len(Melds[k].tiles) = 4}) + (IF drawn THEN 1 ELSE 0)
    <3>1. /\ [k \in 1..Len(Melds) |-> Len(Melds[k].tiles)] = LensOf(facts)
          /\ {k \in 1..Len(Melds) : Len(Melds[k].tiles) = 4} = FoursOf(facts)
      BY <2>2, ShownIs, Zenon
    <3>2. Total(closed) + Total(LensOf(facts)) = 13 + Cardinality(FoursOf(facts)) + (IF drawn THEN 1 ELSE 0)
      BY <2>1 DEF HandCounted, Num
    <3> QED
      BY <3>1, <3>2, Zenon
  <2>4. ASSUME NEW i \in DOMAIN box
        PROVE  Copies(i) \in 0..4
    <3>1. box[i] \in 0..4 /\ closed[i] \in Nat
      BY <2>1, HandNumbers
    <3>2. PICK s \in Nat : s = Total(ShowsOf(facts, i))
      BY <2>1, HandNumbers
    <3>3. Copies(i) = closed[i] + s
      BY <2>2, <3>2, ShownIs DEF Copies
    <3>4. closed[i] + s <= box[i]
      BY <2>1, <3>2 DEF WithinBox
    <3> QED
      BY <3>1, <3>3, <3>4
  <2>5. ASSUME NEW k \in 1..Len(facts)
        PROVE  LET m == parseMeldFact(facts[k])
               IN  encodeMeldFact(m.kind, m.tiles, m.from) = facts[k] /\ (m.from = SeatInvalid <=> m.concealed)
    <3>1. FactRead(facts[k])
      BY <2>2, FactsRead
    <3> QED
      BY <3>1, Zenon DEF FactRead, TilesIn
  <2>6. HandWhole
    BY <2>3, <2>4, <2>5, Zenon DEF HandWhole
  <2>7. OffersCanBeTaken
    <3>1. \A i \in DOMAIN box : i \in Playable
      BY <2>1, HandNumbers
    <3>2. \A i \in DOMAIN box, from \in 1..3 : OfferTaken(closed, i, from, FALSE)
      BY <2>2, <3>1, ChiOffered
    <3> QED
      BY <3>2, Zenon DEF OffersCanBeTaken, OfferTaken
  <2> QED
    BY <2>6, <2>7 DEF HandKept
<1> QED
  BY <1>1, HandStarts, HandKeeps, PTL DEF HandSpec

-----------------------------------------------------------------------------
(* The win search and the readings of a hand.                              *)

(* The search for melds says what its body says: the function it is        *)
(* defined by exists, one number of melds after the other.                 *)
LEMMA MeldNSays ==
    ASSUME NEW need \in 0..4, NEW c \in [Playable -> Nat]
    PROVE  meldN[need][c] <=> Total(c) = need * 3 /\ (need > 0 => TakesLowest(c, meldN[need - 1]))
<1> DEFINE D == [Playable -> Nat]
           B(g, n) == [d \in D |-> Total(d) = n * 3 /\ (n > 0 => TakesLowest(d, g))]
           F(f) == [n \in 0..4 |-> B(f[n - 1], n)]
           w0 == B(0, 0)
           w1 == B(w0, 1)
           w2 == B(w1, 2)
           w3 == B(w2, 3)
           w4 == B(w3, 4)
           w == [n \in 0..4 |-> IF n = 0 THEN w0 ELSE IF n = 1 THEN w1 ELSE IF n = 2 THEN w2 ELSE IF n = 3 THEN w3 ELSE w4]
<1>1. meldN = CHOOSE f : f = F(f)
  BY DEF meldN
<1>2. \A g : B(g, 0) = w0
  <2> TAKE g
  <2>1. \A d \in D : (0 > 0 => TakesLowest(d, g)) <=> (0 > 0 => TakesLowest(d, 0))
    OBVIOUS
  <2> QED
    BY <2>1, Zenon
<1>3. w = F(w)
  <2>1. w[0] = w0 /\ w[1] = w1 /\ w[2] = w2 /\ w[3] = w3 /\ w[4] = w4
    <3> HIDE DEF w0, w1, w2, w3, w4
    <3> QED
      OBVIOUS
  <2> HIDE DEF B
  <2>2. \A n \in 0..4 : w[n] = B(w[n - 1], n)
    <3>1. B(w[0 - 1], 0) = w0
      BY <1>2
    <3>2. 1 - 1 = 0 /\ 2 - 1 = 1 /\ 3 - 1 = 2 /\ 4 - 1 = 3
      OBVIOUS
    <3> HIDE DEF w
    <3> QED
      BY <2>1, <3>1, <3>2
  <2>3. w \in [0..4 -> {w0, w1, w2, w3, w4}]
    OBVIOUS
  <2> HIDE DEF w
  <2> QED
    BY <2>2, <2>3
<1>4. meldN = F(meldN)
  <2> HIDE DEF F, w
  <2> QED
    BY <1>1, <1>3, Zenon
<1>5. meldN[need] = B(meldN[need - 1], need)
  <2> HIDE DEF B
  <2> QED
    BY <1>4
<1> QED
  BY <1>5

(* So does the enumeration of readings.                                    *)
LEMMA EnumerateSays ==
    ASSUME NEW need \in 0..4, NEW c \in [Playable -> Nat]
    PROVE  enumerateMelds[need][c]
             = IF need > 0 THEN LowestFirst(c, enumerateMelds[need - 1]) ELSE IF Total(c) = 0 THEN {<<>>} ELSE {}
<1> DEFINE D == [Playable -> Nat]
           B(g, n) == [d \in D |-> IF n > 0 THEN LowestFirst(d, g) ELSE IF Total(d) = 0 THEN {<<>>} ELSE {}]
           F(f) == [n \in 0..4 |-> B(f[n - 1], n)]
           w0 == B(0, 0)
           w1 == B(w0, 1)
           w2 == B(w1, 2)
           w3 == B(w2, 3)
           w4 == B(w3, 4)
           w == [n \in 0..4 |-> IF n = 0 THEN w0 ELSE IF n = 1 THEN w1 ELSE IF n = 2 THEN w2 ELSE IF n = 3 THEN w3 ELSE w4]
<1>1. enumerateMelds = CHOOSE f : f = F(f)
  BY DEF enumerateMelds
<1>2. \A g : B(g, 0) = w0
  <2> TAKE g
  <2>1. ~(0 > 0)
    OBVIOUS
  <2> QED
    BY <2>1, Zenon
<1>3. w = F(w)
  <2>1. w[0] = w0 /\ w[1] = w1 /\ w[2] = w2 /\ w[3] = w3 /\ w[4] = w4
    <3> HIDE DEF w0, w1, w2, w3, w4
    <3> QED
      OBVIOUS
  <2> HIDE DEF B
  <2>2. \A n \in 0..4 : w[n] = B(w[n - 1], n)
    <3>1. B(w[0 - 1], 0) = w0
      BY <1>2
    <3>2. 1 - 1 = 0 /\ 2 - 1 = 1 /\ 3 - 1 = 2 /\ 4 - 1 = 3
      OBVIOUS
    <3> HIDE DEF w
    <3> QED
      BY <2>1, <3>1, <3>2
  <2>3. w \in [0..4 -> {w0, w1, w2, w3, w4}]
    OBVIOUS
  <2> HIDE DEF w
  <2> QED
    BY <2>2, <2>3
<1>4. enumerateMelds = F(enumerateMelds)
  <2> HIDE DEF F, w
  <2> QED
    BY <1>1, <1>3, Zenon
<1>5. enumerateMelds[need] = B(enumerateMelds[need - 1], need)
  <2> HIDE DEF B
  <2> QED
    BY <1>4
<1> QED
  BY <1>5

(* The sums of n melds: nothing, or a meld more than a sum of n - 1.       *)
LEMMA CombosSay ==
    /\ CombosOf[0] = {[melds |-> NoMelds, sum |-> NoCounts]}
    /\ \A n \in 1..4 :
          CombosOf[n] = {WithMeld(s, m) : m \in DOMAIN MeldCounts, s \in CombosOf[n - 1]}
<1> DEFINE M(g) == {WithMeld(s, m) : m \in DOMAIN MeldCounts, s \in g}
           w0 == {[melds |-> NoMelds, sum |-> NoCounts]}
           B(g, n) == IF n = 0 THEN w0 ELSE M(g)
           F(f) == [n \in 0..4 |-> B(f[n - 1], n)]
           w1 == M(w0)
           w2 == M(w1)
           w3 == M(w2)
           w4 == M(w3)
           w == [n \in 0..4 |-> IF n = 0 THEN w0 ELSE IF n = 1 THEN w1 ELSE IF n = 2 THEN w2 ELSE IF n = 3 THEN w3 ELSE w4]
<1>1. CombosOf = CHOOSE f : f = F(f)
  BY DEF CombosOf
<1>3. w = F(w)
  <2> HIDE DEF M
  <2>1. w[0] = w0 /\ w[1] = w1 /\ w[2] = w2 /\ w[3] = w3 /\ w[4] = w4
    <3> HIDE DEF w0, w1, w2, w3, w4
    <3> QED
      OBVIOUS
  <2>2. \A n \in 0..4 : w[n] = B(w[n - 1], n)
    <3>2. 1 - 1 = 0 /\ 2 - 1 = 1 /\ 3 - 1 = 2 /\ 4 - 1 = 3
      OBVIOUS
    <3> HIDE DEF w, w0
    <3> QED
      BY <2>1, <3>2
  <2>3. w \in [0..4 -> {w0, w1, w2, w3, w4}]
    <3> HIDE DEF w0, w1, w2, w3, w4
    <3> QED
      OBVIOUS
  <2> HIDE DEF w, B
  <2> QED
    BY <2>2, <2>3
<1>4. CombosOf = F(CombosOf)
  <2> HIDE DEF F, w
  <2> QED
    BY <1>1, <1>3, Zenon
<1>5. \A n \in 0..4 : CombosOf[n] = B(CombosOf[n - 1], n)
  <2> HIDE DEF B
  <2> QED
    BY <1>4
<1>6. CombosOf[0] = w0 /\ \A n \in 1..4 : CombosOf[n] = M(CombosOf[n - 1])
  <2> HIDE DEF w0, M
  <2> QED
    BY <1>5
<1> QED
  BY <1>6

(* The melds of the dense box and where its runs start.                    *)
BoxMelds == DOMAIN MeldCounts

(* Where a run of the dense box starts.                                    *)
ChowStarts ==
    {b \in Kinds : {b + 1, b + 2} \subseteq Kinds /\ Suited(b) /\ Suit(FromIndex(b)) = Suit(FromIndex(b + 2))}

(* The three tiles of a run.                                               *)
ThreeFrom(a) == [NoCounts EXCEPT ![a] = 1, ![a + 1] = 1, ![a + 2] = 1]

(* m is the triplet of i, a meld of the dense box.                         *)
PungAt(m, i) == i \in Kinds /\ m = Meld("pung", i, TRUE) /\ m \in BoxMelds /\ MeldCounts[m] = Tile(i, 3)

(* m is the run from a, a meld of the dense box.                           *)
ChowAt(m, a) == a \in ChowStarts /\ m = Meld("chow", a, TRUE) /\ m \in BoxMelds /\ MeldCounts[m] = ThreeFrom(a)

(* A meld names the index it starts at.                                    *)
LEMMA MeldIndex ==
    ASSUME NEW i \in Playable, NEW kind
    PROVE  Index(New(Meld(kind, i, TRUE).suit, Meld(kind, i, TRUE).rank)) = i /\ Meld(kind, i, TRUE).kind = kind
<1>1. PICK s, r : TileAt(i, s, r)
  BY PlayableTile
<1>2. r \in 1..maxRank(s) /\ Suit(FromIndex(i)) = s /\ Rank(FromIndex(i)) = r
  <2>1. s \in 0..3 /\ r \in 1..9 /\ r <= maxRank(s)
    BY <1>1 DEF TileAt
  <2>2. maxRank(s) \in {7, 9}
    BY <2>1 DEF maxRank, SuitedSuits, Honor, Flower
  <2>3. r \in 1..maxRank(s)
    BY <2>1, <2>2
  <2> QED
    BY <1>1, <2>3 DEF TileAt
<1>3. New(s, r) = FromIndex(i) /\ Index(FromIndex(i)) = i
  BY <1>1, <1>2 DEF New, TileAt
<1> QED
  BY <1>2, <1>3 DEF Meld

(* A meld of the dense box is a triplet or a run, and these are its melds. *)
LEMMA BoxMeldsAre ==
    /\ \A i \in Kinds : PungAt(Meld("pung", i, TRUE), i)
    /\ \A a \in ChowStarts : ChowAt(Meld("chow", a, TRUE), a)
    /\ \A m \in BoxMelds : (\E i : PungAt(m, i)) \/ (\E a : ChowAt(m, a))
<1> DEFINE P == {Meld("pung", i, TRUE) : i \in Kinds}
           C == {Meld("chow", a, TRUE) : a \in ChowStarts}
           At(m) == Index(New(m.suit, m.rank))
           V(m) == IF m.kind = "pung" THEN Tile(At(m), 3) ELSE ThreeFrom(At(m))
<1>1. MeldCounts = [m \in P \cup C |-> V(m)]
  BY DEF MeldCounts, ChowStarts, ThreeFrom
<1>2. BoxMelds = P \cup C /\ \A m \in BoxMelds : MeldCounts[m] = V(m)
  <2> HIDE DEF P, C, V
  <2> QED
    BY <1>1 DEF BoxMelds
<1>3. Kinds \subseteq Playable /\ ChowStarts \subseteq Kinds
  BY KindsAssumption DEF ChowStarts
<1>4. ASSUME NEW i \in Kinds
      PROVE  PungAt(Meld("pung", i, TRUE), i)
  <2>1. PICK m : m = Meld("pung", i, TRUE)
    OBVIOUS
  <2>2. At(m) = i /\ m.kind = "pung"
    BY <1>3, <2>1, MeldIndex
  <2>3. m \in BoxMelds
    BY <1>2, <2>1
  <2>4. V(m) = Tile(i, 3)
    BY <2>2
  <2> HIDE DEF V
  <2> QED
    BY <1>2, <2>1, <2>3, <2>4 DEF PungAt
<1>5. ASSUME NEW a \in ChowStarts
      PROVE  ChowAt(Meld("chow", a, TRUE), a)
  <2>1. PICK m : m = Meld("chow", a, TRUE)
    OBVIOUS
  <2>2. At(m) = a /\ m.kind = "chow"
    BY <1>3, <2>1, MeldIndex
  <2>3. m \in BoxMelds
    BY <1>2, <2>1
  <2>4. V(m) = ThreeFrom(a)
    BY <2>2
  <2> HIDE DEF V
  <2> QED
    BY <1>2, <2>1, <2>3, <2>4 DEF ChowAt
<1>6. \A m \in BoxMelds : (\E i \in Kinds : m = Meld("pung", i, TRUE)) \/ (\E a \in ChowStarts : m = Meld("chow", a, TRUE))
  BY <1>2
<1> QED
  BY <1>4, <1>5, <1>6

(* d is c with n at i, where it had nothing.                               *)
Put(c, d, i, n) ==
    /\ d \in [Playable -> Nat] /\ Total(d) = Total(c) + n /\ Total(c) \in Nat
    /\ d[i] = n /\ \A j \in Playable \ {i} : d[j] = c[j]

(* Putting tiles where there were none adds as many.                       *)
LEMMA CountPut ==
    ASSUME NEW c \in [Playable -> Nat], NEW i \in Playable, NEW n \in Nat, c[i] = 0
    PROVE  Put(c, [c EXCEPT ![i] = n], i, n)
<1>1. PICK d : d = [c EXCEPT ![i] = n]
  OBVIOUS
<1>2. d \in [Playable -> Nat] /\ d[i] = n /\ \A j \in Playable \ {i} : d[j] = c[j]
  BY <1>1
<1>3. Elsewhere(Playable, i, c, d)
  BY <1>2 DEF Elsewhere
<1>4. Total(d) + c[i] = Total(c) + d[i] /\ Total(c) \in Nat /\ Total(d) \in Nat
  BY <1>2, <1>3, PlayableFinite, TotalReplaced, Zenon
<1>5. Total(d) = Total(c) + n
  BY <1>2, <1>4
<1> QED
  BY <1>1, <1>2, <1>4, <1>5 DEF Put

(* The counts of a meld.                                                   *)
LEMMA MeldNumbers ==
    ASSUME NEW m \in BoxMelds
    PROVE  /\ MeldCounts[m] \in [Playable -> Nat] /\ Total(MeldCounts[m]) = 3
           /\ \A j \in Playable \ Kinds : MeldCounts[m][j] = 0
<1>1. Kinds \subseteq Playable
  BY KindsAssumption
<1>2. PICK z : z = NoCounts
  OBVIOUS
<1>3. z \in [Playable -> Nat] /\ (\A j \in Playable : z[j] = 0) /\ Total(z) = 0
  <2>1. z \in [Playable -> Nat] /\ \A j \in Playable : z[j] = 0
    BY <1>2 DEF NoCounts
  <2>2. DOMAIN z = Playable
    BY <2>1
  <2>3. Units(z) = {}
    BY <2>1, <2>2 DEF Units
  <2> QED
    BY <2>1, <2>3, FS_EmptySet DEF Total
<1>5. ASSUME NEW i, PungAt(m, i)
      PROVE  MeldCounts[m] \in [Playable -> Nat] /\ Total(MeldCounts[m]) = 3 /\ \A j \in Playable \ Kinds : MeldCounts[m][j] = 0
  <2>1. i \in Kinds /\ i \in Playable /\ MeldCounts[m] = [z EXCEPT ![i] = 3] /\ 3 \in Nat /\ z[i] = 0
    BY <1>1, <1>2, <1>3, <1>5 DEF PungAt, Tile
  <2>2. PICK d : d = [z EXCEPT ![i] = 3]
    OBVIOUS
  <2>3. d \in [Playable -> Nat] /\ Total(d) = Total(z) + 3 /\ \A j \in Playable \ {i} : d[j] = z[j]
    <3>1. Put(z, d, i, 3)
      BY <1>3, <2>1, <2>2, CountPut
    <3> QED
      BY <3>1 DEF Put
  <2> QED
    BY <1>1, <1>3, <2>1, <2>2, <2>3
<1>6. ASSUME NEW a, ChowAt(m, a)
      PROVE  MeldCounts[m] \in [Playable -> Nat] /\ Total(MeldCounts[m]) = 3 /\ \A j \in Playable \ Kinds : MeldCounts[m][j] = 0
  <2>1. {a, a + 1, a + 2} \subseteq Kinds /\ a \in Nat
    BY <1>1, <1>6 DEF ChowAt, ChowStarts, Playable
  <2>2. PICK b, e : b = a + 1 /\ e = a + 2
    OBVIOUS
  <2>3. a # b /\ a # e /\ b # e /\ {a, b, e} \subseteq Playable
    BY <1>1, <2>1, <2>2
  <2>4. MeldCounts[m] = [[[z EXCEPT ![a] = 1] EXCEPT ![b] = 1] EXCEPT ![e] = 1]
    <3>1. MeldCounts[m] = [z EXCEPT ![a] = 1, ![b] = 1, ![e] = 1]
      BY <1>2, <1>6, <2>2 DEF ChowAt, ThreeFrom
    <3> QED
      BY <3>1
  <2>5. PICK f : f = [z EXCEPT ![a] = 1]
    OBVIOUS
  <2>6. PICK g : g = [f EXCEPT ![b] = 1]
    OBVIOUS
  <2>7. PICK h : h = [g EXCEPT ![e] = 1]
    OBVIOUS
  <2>8. f \in [Playable -> Nat] /\ Total(f) = Total(z) + 1 /\ \A j \in Playable \ {a} : f[j] = 0
    <3>1. a \in Playable /\ z[a] = 0
      BY <1>3, <2>3
    <3>2. 1 \in Nat /\ z \in [Playable -> Nat]
      BY <1>3
    <3>3. Put(z, f, a, 1)
      BY <3>1, <3>2, <2>5, CountPut
    <3> QED
      BY <1>3, <3>3 DEF Put
  <2>9. g \in [Playable -> Nat] /\ Total(g) = Total(f) + 1 /\ \A j \in Playable \ {a, b} : g[j] = 0
    <3>1. b \in Playable /\ f[b] = 0
      BY <2>3, <2>8
    <3>2. 1 \in Nat /\ f \in [Playable -> Nat]
      BY <2>8
    <3>3. Put(f, g, b, 1)
      BY <3>1, <3>2, <2>6, CountPut
    <3> QED
      BY <2>8, <3>3 DEF Put
  <2>10. h \in [Playable -> Nat] /\ Total(h) = Total(g) + 1 /\ \A j \in Playable \ {a, b, e} : h[j] = 0
    <3>1. e \in Playable /\ g[e] = 0
      BY <2>3, <2>9
    <3>2. 1 \in Nat /\ g \in [Playable -> Nat]
      BY <2>9
    <3>3. Put(g, h, e, 1)
      BY <3>1, <3>2, <2>7, CountPut
    <3> QED
      BY <2>9, <3>3 DEF Put
  <2>11. MeldCounts[m] = h /\ Total(h) = 3 /\ Playable \ Kinds \subseteq Playable \ {a, b, e}
    BY <1>3, <2>1, <2>2, <2>4, <2>5, <2>6, <2>7, <2>8, <2>9, <2>10
  <2> QED
    BY <2>10, <2>11
<1> QED
  BY <1>5, <1>6, BoxMeldsAre

(* A collection of n melds of the box with the sum of their counts.        *)
ComboTyped(n, s) ==
    /\ s = [melds |-> s.melds, sum |-> s.sum]
    /\ s.melds \in [BoxMelds -> Nat] /\ s.sum \in [Playable -> Nat]
    /\ Total(s.sum) = 3 * n /\ \A j \in Playable \ Kinds : s.sum[j] = 0

(* No counts are no tiles.                                                 *)
LEMMA NoTiles ==
    /\ NoCounts \in [Playable -> Nat] /\ Total(NoCounts) = 0
    /\ \A j \in Playable : NoCounts[j] = 0
<1>1. NoCounts \in [Playable -> Nat] /\ \A j \in Playable : NoCounts[j] = 0
  BY DEF NoCounts
<1>2. DOMAIN NoCounts = Playable
  BY <1>1
<1>3. Units(NoCounts) = {}
  BY <1>1, <1>2 DEF Units
<1> QED
  BY <1>1, <1>3, FS_EmptySet DEF Total

(* A meld more.                                                            *)
LEMMA MeldAdded ==
    ASSUME NEW n \in Nat, NEW s, ComboTyped(n, s), NEW m \in BoxMelds
    PROVE  ComboTyped(n + 1, WithMeld(s, m))
<1>1. PICK c, d, e : c = s.sum /\ d = MeldCounts[m] /\ e = Plus(d, c)
  OBVIOUS
<1>2. c \in [Playable -> Nat] /\ Total(c) = 3 * n /\ \A j \in Playable \ Kinds : c[j] = 0
  BY <1>1 DEF ComboTyped
<1>3. d \in [Playable -> Nat] /\ Total(d) = 3 /\ \A j \in Playable \ Kinds : d[j] = 0
  BY <1>1, MeldNumbers
<1>4. e \in [Playable -> Nat] /\ \A j \in Playable : e[j] = d[j] + c[j]
  BY <1>1, <1>2, <1>3 DEF Plus
<1>5. Total(e) = Total(d) + Total(c)
  BY <1>2, <1>3, <1>4, PlayablePlus
<1>6. Total(e) = 3 * (n + 1)
  BY <1>2, <1>3, <1>5
<1>7. PICK b : b = [s.melds EXCEPT ![m] = @ + 1]
  OBVIOUS
<1>8. b \in [BoxMelds -> Nat]
  BY <1>7 DEF ComboTyped
<1>9. WithMeld(s, m) = [melds |-> b, sum |-> e]
  BY <1>1, <1>7 DEF WithMeld
<1> QED
  BY <1>2, <1>3, <1>4, <1>6, <1>8, <1>9 DEF ComboTyped

(* Every sum of n melds is a collection of n melds with its counts.        *)
AllTyped(n) == \A s \in CombosOf[n] : ComboTyped(n, s)

(* The sums of melds are collections of that many melds.                   *)
LEMMA CombosTyped == \A n \in 0..4 : AllTyped(n)
<1>1. AllTyped(0)
  <2>1. NoMelds \in [BoxMelds -> Nat]
    BY DEF NoMelds, BoxMelds
  <2>2. \A s \in CombosOf[0] : s = [melds |-> NoMelds, sum |-> NoCounts]
    BY CombosSay
  <2> QED
    BY <2>1, <2>2, NoTiles DEF AllTyped, ComboTyped
<1>2. ASSUME NEW n \in 0..3, AllTyped(n)
      PROVE  AllTyped(n + 1)
  <2> SUFFICES ASSUME NEW s \in CombosOf[n + 1]
               PROVE  ComboTyped(n + 1, s)
    BY DEF AllTyped
  <2>1. n + 1 \in 1..4 /\ (n + 1) - 1 = n /\ n \in Nat
    OBVIOUS
  <2>2. PICK m \in BoxMelds, r \in CombosOf[n] : s = WithMeld(r, m)
    BY <2>1, CombosSay DEF BoxMelds
  <2>3. ComboTyped(n, r)
    BY <1>2 DEF AllTyped
  <2> QED
    BY <2>1, <2>2, <2>3, MeldAdded
<1>3. AllTyped(1)
  BY <1>1, <1>2
<1>4. AllTyped(2)
  BY <1>2, <1>3
<1>5. AllTyped(3)
  BY <1>2, <1>4
<1>6. AllTyped(4)
  BY <1>2, <1>5
<1> QED
  BY <1>1, <1>3, <1>4, <1>5, <1>6

(* Two melds may be added in either order.                                 *)
LEMMA MeldsCommute ==
    ASSUME NEW n \in Nat, NEW s, ComboTyped(n, s), NEW m \in BoxMelds, NEW k \in BoxMelds
    PROVE  WithMeld(WithMeld(s, m), k) = WithMeld(WithMeld(s, k), m)
<1>1. PICK c, d, e, b : c = s.sum /\ d = MeldCounts[m] /\ e = MeldCounts[k] /\ b = s.melds
  OBVIOUS
<1>2. c \in [Playable -> Nat] /\ d \in [Playable -> Nat] /\ e \in [Playable -> Nat] /\ b \in [BoxMelds -> Nat]
  BY <1>1, MeldNumbers DEF ComboTyped
<1>3. Plus(e, Plus(d, c)) = Plus(d, Plus(e, c))
  BY <1>2 DEF Plus
<1>4. [[b EXCEPT ![m] = @ + 1] EXCEPT ![k] = @ + 1] = [[b EXCEPT ![k] = @ + 1] EXCEPT ![m] = @ + 1]
  <2>1. PICK f, g : f = [[b EXCEPT ![m] = @ + 1] EXCEPT ![k] = @ + 1] /\ g = [[b EXCEPT ![k] = @ + 1] EXCEPT ![m] = @ + 1]
    OBVIOUS
  <2>2. f \in [BoxMelds -> Nat] /\ g \in [BoxMelds -> Nat]
    BY <1>2, <2>1
  <2>3. \A x \in BoxMelds : f[x] = g[x]
    BY <1>2, <2>1
  <2> QED
    BY <2>1, <2>2, <2>3
<1>5. /\ WithMeld(s, m).melds = [b EXCEPT ![m] = @ + 1] /\ WithMeld(s, m).sum = Plus(d, c)
      /\ WithMeld(s, k).melds = [b EXCEPT ![k] = @ + 1] /\ WithMeld(s, k).sum = Plus(e, c)
  BY <1>1 DEF WithMeld
<1> QED
  BY <1>1, <1>3, <1>4, <1>5 DEF WithMeld

(* Whatever tile a collection of melds holds, one of its melds holds it.   *)
TileInMeld(n) ==
    \A s \in CombosOf[n], i \in Playable :
        s.sum[i] > 0 => \E m \in BoxMelds, r \in CombosOf[n - 1] : MeldCounts[m][i] > 0 /\ s = WithMeld(r, m)

(* A tile of a sum of melds is in a meld that can be taken out last.       *)
LEMMA SomeMeldHolds == \A n \in 1..4 : TileInMeld(n)
<1>1. ASSUME NEW n \in 1..4, n > 1 => TileInMeld(n - 1)
      PROVE  TileInMeld(n)
  <2> SUFFICES ASSUME NEW s \in CombosOf[n], NEW i \in Playable, s.sum[i] > 0
               PROVE  \E m \in BoxMelds, r \in CombosOf[n - 1] : MeldCounts[m][i] > 0 /\ s = WithMeld(r, m)
    BY DEF TileInMeld
  <2>1. PICK m \in BoxMelds, r \in CombosOf[n - 1] : s = WithMeld(r, m)
    BY CombosSay DEF BoxMelds
  <2>2. CASE MeldCounts[m][i] > 0
    BY <2>1, <2>2
  <2>3. CASE ~(MeldCounts[m][i] > 0)
    <3>1. ComboTyped(n - 1, r) /\ n - 1 \in 0..3
      <4>1. n - 1 \in 0..4
        OBVIOUS
      <4> QED
        BY <4>1, CombosTyped DEF AllTyped
    <3>2. MeldCounts[m] \in [Playable -> Nat] /\ r.sum \in [Playable -> Nat]
      BY <3>1, MeldNumbers DEF ComboTyped
    <3>3. s.sum[i] = MeldCounts[m][i] + r.sum[i]
      BY <2>1 DEF WithMeld, Plus
    <3>4. r.sum[i] > 0
      BY <2>3, <3>2, <3>3
    <3>5. n # 1
      <4>1. SUFFICES ASSUME n = 1 PROVE FALSE
        OBVIOUS
      <4>2. r \in CombosOf[0]
        BY <4>1
      <4>3. r.sum = NoCounts
        BY <4>2, CombosSay
      <4> QED
        BY <3>4, <4>3, NoTiles
    <3>6. PICK k \in BoxMelds, q \in CombosOf[n - 2] : MeldCounts[k][i] > 0 /\ r = WithMeld(q, k)
      <4>1. (n - 1) - 1 = n - 2 /\ TileInMeld(n - 1)
        BY <1>1, <3>5
      <4> QED
        BY <3>4, <4>1 DEF TileInMeld
    <3>7. n - 2 \in 0..4 /\ n - 2 \in Nat /\ n - 1 \in 1..4 /\ (n - 1) - 1 = n - 2
      BY <3>5
    <3>8. ComboTyped(n - 2, q)
      BY <3>7, CombosTyped DEF AllTyped
    <3>9. s = WithMeld(WithMeld(q, m), k)
      BY <2>1, <3>6, <3>7, <3>8, MeldsCommute
    <3>10. WithMeld(q, m) \in CombosOf[n - 1]
      BY <3>7, CombosSay DEF BoxMelds
    <3> QED
      BY <3>6, <3>9, <3>10
  <2> QED
    BY <2>2, <2>3
<1>2. TileInMeld(1)
  <2>1. 1 \in 1..4 /\ ~(1 > 1)
    OBVIOUS
  <2> QED
    BY <1>1, <2>1
<1>3. TileInMeld(2)
  <2>1. 2 \in 1..4 /\ 2 - 1 = 1
    OBVIOUS
  <2> QED
    BY <1>1, <1>2, <2>1
<1>4. TileInMeld(3)
  <2>1. 3 \in 1..4 /\ 3 - 1 = 2
    OBVIOUS
  <2> QED
    BY <1>1, <1>3, <2>1
<1>5. TileInMeld(4)
  <2>1. 4 \in 1..4 /\ 4 - 1 = 3
    OBVIOUS
  <2> QED
    BY <1>1, <1>4, <2>1
<1> QED
  BY <1>2, <1>3, <1>4, <1>5

(* Of the suited indexes: a run of three stays in one suit exactly when it *)
(* starts at the seventh rank at the latest.                               *)
LEMMA RunStartsAre ==
    /\ ChowStarts = {a \in Kinds : {a + 1, a + 2} \subseteq Kinds /\ RunStart(a)}
    /\ \A a \in Playable : RunStart(a) => /\ a + 2 < 27 /\ (a + 1) \div 9 = a \div 9 /\ (a + 2) \div 9 = a \div 9
                                          /\ \A i \in Playable : i \div 9 = a \div 9 => i < 27
<1>1. ASSUME NEW a \in Playable, a < 27
      PROVE  \E q \in 0..2, r \in 0..8 :
                 a = q * 9 + r /\ Suit(FromIndex(a)) = q /\ a % 9 = r /\ a \div 9 = q
  <2>1. a \in 0..SuitedTileCount - 1
    BY <1>1 DEF Playable, PlayableTileCount, SuitedTileCount
  <2>2. PICK q \in 0..2, r \in 0..8 : q = Suit(FromIndex(a)) /\ a = q * 9 + r
    BY <2>1, SuitedTile
  <2>3. (q * 9 + r) % 9 = r /\ (q * 9 + r) \div 9 = q
    OBVIOUS
  <2> QED
    BY <2>2, <2>3
<1>2. ASSUME NEW a \in Playable, a < 27, a + 2 \in Playable
      PROVE  Suit(FromIndex(a)) = Suit(FromIndex(a + 2)) <=> a % 9 <= 6
  <2>1. PICK q \in 0..2, r \in 0..8 : a = q * 9 + r /\ Suit(FromIndex(a)) = q /\ a % 9 = r
    BY <1>1, <1>2
  <2>2. CASE a + 2 < 27
    <3>1. PICK b \in Playable : b = a + 2
      BY <1>2
    <3>2. PICK p \in 0..2, u \in 0..8 : b = p * 9 + u /\ Suit(FromIndex(b)) = p
      BY <1>1, <2>2, <3>1
    <3>3. q = p <=> r <= 6
      BY <2>1, <3>1, <3>2
    <3> QED
      BY <2>1, <3>1, <3>2, <3>3
  <2>3. CASE ~(a + 2 < 27)
    <3>1. q = 2 /\ r >= 7
      BY <2>1, <2>3
    <3>2. Suit(FromIndex(a + 2)) # 2
      <4>1. SUFFICES ASSUME Suit(FromIndex(a + 2)) = 2 PROVE FALSE
        OBVIOUS
      <4>2. \E x \in 0..8 : a + 2 = 2 * 9 + x
        BY <1>2, <4>1, SuitOfIndex DEF SuitedSuits
      <4> QED
        BY <2>1, <2>3, <4>2
    <3> QED
      BY <2>1, <3>1, <3>2
  <2> QED
    BY <2>2, <2>3
<1>3. ASSUME NEW a \in Playable, RunStart(a)
      PROVE  /\ a + 2 < 27 /\ (a + 1) \div 9 = a \div 9 /\ (a + 2) \div 9 = a \div 9
             /\ \A i \in Playable : i \div 9 = a \div 9 => i < 27
  <2>1. a < 27 /\ a % 9 <= 6
    BY <1>3 DEF RunStart, SuitedTileCount
  <2>2. PICK q \in 0..2, r \in 0..6 : a = q * 9 + r /\ a \div 9 = q
    BY <1>1, <2>1
  <2>3. (q * 9 + (r + 1)) \div 9 = q /\ (q * 9 + (r + 2)) \div 9 = q
    OBVIOUS
  <2>4. a + 1 = q * 9 + (r + 1) /\ a + 2 = q * 9 + (r + 2)
    BY <2>2
  <2>5. \A i \in Playable : i \div 9 = q => i < 27
    BY DEF Playable, PlayableTileCount
  <2> QED
    BY <2>2, <2>3, <2>4, <2>5
<1>4. Kinds \subseteq Playable
  BY KindsAssumption
<1>5. ASSUME NEW a \in Kinds, {a + 1, a + 2} \subseteq Kinds
      PROVE  Suited(a) /\ Suit(FromIndex(a)) = Suit(FromIndex(a + 2)) <=> RunStart(a)
  <2>1. a \in Playable /\ a + 2 \in Playable
    BY <1>4, <1>5
  <2> QED
    BY <1>2, <2>1 DEF Suited, RunStart, SuitedTileCount
<1> QED
  BY <1>3, <1>5 DEF ChowStarts

(* The lowest tile.                                                        *)
Lowest(c, i) ==
    nextNonZero(c) = i /\ i \in Playable /\ c[i] > 0 /\ \A j \in Playable : j < i => c[j] = 0

(* nextNonZero finds the lowest tile of a hand that has one.               *)
LEMMA LowestTile ==
    ASSUME NEW c \in [Playable -> Nat], Total(c) > 0
    PROVE  \E i : Lowest(c, i)
<1>1. PICK held : held = {i \in Playable : c[i] > 0}
  OBVIOUS
<1>2. held # {}
  <2>1. SUFFICES ASSUME held = {} PROVE FALSE
    OBVIOUS
  <2>2. c = NoCounts
    <3>1. \A i \in Playable : c[i] = 0
      BY <1>1, <2>1
    <3> QED
      BY <3>1 DEF NoCounts
  <2> QED
    BY <2>2, NoTiles
<1>3. held \in SUBSET Nat
  BY <1>1 DEF Playable, PlayableTileCount
<1>4. PICK x : x = CHOOSE k \in held : \A j \in held : k <= j
  OBVIOUS
<1>5. \E k \in held : \A j \in held : k <= j
  BY <1>2, <1>3, SomeFirst
<1>6. x \in held /\ \A j \in held : x <= j
  BY <1>4, <1>5
<1>7. nextNonZero(c) = x
  BY <1>1, <1>2, <1>4 DEF nextNonZero, Min
<1>8. x \in Playable /\ c[x] > 0
  BY <1>1, <1>6
<1>9. \A j \in Playable : j < x => c[j] = 0
  <2> SUFFICES ASSUME NEW j \in Playable, j < x, c[j] # 0 PROVE FALSE
    OBVIOUS
  <2>1. j \in held
    BY <1>1
  <2>2. x <= j /\ j \in Nat /\ x \in Nat
    BY <1>3, <1>6, <2>1
  <2> QED
    BY <2>2
<1> QED
  BY <1>7, <1>8, <1>9 DEF Lowest

(* Counts over the kinds of the dense box only.                            *)
OnKinds(c) == c \in [Playable -> Nat] /\ \A j \in Playable \ Kinds : c[j] = 0

(* c is the meld m, which has the tile i, and d.                           *)
Splits(c, i, m, d) ==
    m \in BoxMelds /\ OnKinds(d) /\ c = Plus(MeldCounts[m], d) /\ MeldCounts[m][i] > 0

(* The two ways to take the tile i out of c.                               *)
TakesPung(c, i, m, d) == c[i] >= 3 /\ m = Meld("pung", i, TRUE) /\ d = Less(c, i, 3)

(* A run of c from a that covers i, as meldN and enumerateMelds try them.  *)
RunOver(c, i, a) ==
    a \in i - 2..i /\ a >= 0 /\ a \div 9 = i \div 9 /\ RunStart(a) /\ \A k \in 0..2 : c[a + k] >= 1

(* Taking the run from a out of c leaves d.                                *)
TakesChow(c, i, a, m, d) == RunOver(c, i, a) /\ m = Meld("chow", a, TRUE) /\ d = LessRun(c, a)

(* Taking a triplet of i splits the counts into that meld and the rest.    *)
LEMMA PungSplits ==
    ASSUME NEW c, OnKinds(c), NEW i \in Playable, NEW m, NEW d, TakesPung(c, i, m, d)
    PROVE  Splits(c, i, m, d)
<1>1. c \in [Playable -> Nat] /\ c[i] >= 3 /\ i \in Kinds
  BY DEF TakesPung, OnKinds
<1>2. m \in BoxMelds /\ MeldCounts[m] = Tile(i, 3)
  <2>1. PungAt(m, i)
    BY <1>1, BoxMeldsAre DEF TakesPung
  <2> QED
    BY <2>1 DEF PungAt
<1>3. PICK e : e = Tile(i, 3)
  OBVIOUS
<1>4. e \in [Playable -> Nat] /\ e[i] = 3 /\ \A j \in Playable \ {i} : e[j] = 0
  BY <1>3 DEF Tile, NoCounts
<1>5. d \in [Playable -> Nat] /\ d[i] = c[i] - 3 /\ \A j \in Playable \ {i} : d[j] = c[j]
  <2>1. d = Less(c, i, 3) /\ 3 \in Nat
    BY DEF TakesPung
  <2> QED
    BY <1>1, <2>1, TilesTaken
<1>6. \A j \in Playable : c[j] = e[j] + d[j]
  BY <1>1, <1>4, <1>5
<1>7. c = Plus(e, d)
  BY <1>1, <1>6 DEF Plus
<1>8. OnKinds(d)
  BY <1>1, <1>5 DEF OnKinds
<1> QED
  BY <1>2, <1>3, <1>4, <1>7, <1>8 DEF Splits

(* The counts of a run.                                                    *)
LEMMA RunNumbers ==
    ASSUME NEW a \in Playable, a + 1 \in Playable, a + 2 \in Playable
    PROVE  /\ ThreeFrom(a) \in [Playable -> Nat]
           /\ \A j \in Playable : ThreeFrom(a)[j] = IF j \in {a, a + 1, a + 2} THEN 1 ELSE 0
<1>1. PICK b, e : b = a + 1 /\ e = a + 2
  OBVIOUS
<1>2. a # b /\ a # e /\ b # e /\ b \in Playable /\ e \in Playable
  BY <1>1 DEF Playable
<1>3. ThreeFrom(a) = [NoCounts EXCEPT ![a] = 1, ![b] = 1, ![e] = 1]
  BY <1>1 DEF ThreeFrom
<1>4. PICK z : z = NoCounts
  OBVIOUS
<1>5. z \in [Playable -> Nat] /\ \A j \in Playable : z[j] = 0
  BY <1>4 DEF NoCounts
<1> QED
  BY <1>1, <1>2, <1>3, <1>4, <1>5

(* LessRun takes one tile of each index of the run.                        *)
LEMMA RunTaken ==
    ASSUME NEW c \in [Playable -> Nat], NEW a \in Playable, a + 1 \in Playable, a + 2 \in Playable,
           c[a] >= 1, c[a + 1] >= 1, c[a + 2] >= 1
    PROVE  /\ LessRun(c, a) \in [Playable -> Nat]
           /\ \A j \in Playable : c[j] = ThreeFrom(a)[j] + LessRun(c, a)[j]
<1>1. PICK b, e : b = a + 1 /\ e = a + 2
  OBVIOUS
<1>2. a # b /\ a # e /\ b # e /\ b \in Playable /\ e \in Playable
  BY <1>1 DEF Playable
<1>3. PICK d : d = LessRun(c, a)
  OBVIOUS
<1>4. d = [c EXCEPT ![a] = @ - 1, ![b] = @ - 1, ![e] = @ - 1]
  BY <1>1, <1>3 DEF LessRun
<1>5. d \in [Playable -> Nat]
  BY <1>1, <1>2, <1>4
<1>6. \A j \in Playable : d[j] = IF j \in {a, b, e} THEN c[j] - 1 ELSE c[j]
  BY <1>1, <1>2, <1>4
<1>7. PICK f : f = ThreeFrom(a)
  OBVIOUS
<1>8. \A j \in Playable : f[j] = IF j \in {a, b, e} THEN 1 ELSE 0
  BY <1>1, <1>7, RunNumbers
<1>9. \A j \in Playable : c[j] = f[j] + d[j]
  BY <1>5, <1>6, <1>8
<1> QED
  BY <1>3, <1>5, <1>7, <1>9

(* Taking a run over i splits the counts into that meld and the rest.      *)
LEMMA ChowSplits ==
    ASSUME NEW c, OnKinds(c), NEW i \in Playable, NEW a, NEW m, NEW d, TakesChow(c, i, a, m, d)
    PROVE  Splits(c, i, m, d)
<1>1. c \in [Playable -> Nat] /\ RunOver(c, i, a) /\ d = LessRun(c, a)
  BY DEF OnKinds, TakesChow
<1>2. a \in Playable /\ i \in {a, a + 1, a + 2} /\ RunStart(a)
  BY <1>1 DEF RunOver, Playable, PlayableTileCount
<1>3. a + 1 \in Playable /\ a + 2 \in Playable
  BY <1>2, RunStartsAre DEF Playable, PlayableTileCount
<1>4. c[a] >= 1 /\ c[a + 1] >= 1 /\ c[a + 2] >= 1
  <2>1. \A k \in 0..2 : c[a + k] >= 1
    BY <1>1 DEF RunOver
  <2>2. a + 0 = a
    BY <1>2 DEF Playable
  <2> QED
    BY <2>1, <2>2
<1>5. {a, a + 1, a + 2} \subseteq Kinds
  BY <1>1, <1>2, <1>3, <1>4 DEF OnKinds
<1>6. a \in ChowStarts
  BY <1>2, <1>5, RunStartsAre
<1>7. m \in BoxMelds /\ MeldCounts[m] = ThreeFrom(a)
  <2>1. ChowAt(m, a)
    BY <1>6, BoxMeldsAre DEF TakesChow
  <2> QED
    BY <2>1 DEF ChowAt
<1>8. PICK f : f = ThreeFrom(a)
  OBVIOUS
<1>9. d \in [Playable -> Nat] /\ \A j \in Playable : c[j] = f[j] + d[j]
  BY <1>1, <1>2, <1>3, <1>4, <1>8, RunTaken
<1>10. f \in [Playable -> Nat] /\ \A j \in Playable : f[j] = IF j \in {a, a + 1, a + 2} THEN 1 ELSE 0
  BY <1>2, <1>3, <1>8, RunNumbers
<1>11. c = Plus(f, d)
  BY <1>1, <1>9 DEF Plus
<1>12. OnKinds(d)
  <2>1. \A j \in Playable \ Kinds : c[j] = 0
    BY DEF OnKinds
  <2> QED
    BY <1>9, <1>10, <2>1 DEF OnKinds
<1>13. f[i] = 1
  BY <1>2, <1>10
<1> QED
  BY <1>7, <1>8, <1>11, <1>12, <1>13 DEF Splits

(* And there is no other.                                                  *)
LEMMA SplitsAre ==
    ASSUME NEW c, OnKinds(c), NEW i \in Playable, NEW m, NEW d, Splits(c, i, m, d)
    PROVE  TakesPung(c, i, m, d) \/ (i < 27 /\ \E a : TakesChow(c, i, a, m, d))
<1>1. m \in BoxMelds /\ d \in [Playable -> Nat] /\ c \in [Playable -> Nat] /\ MeldCounts[m][i] > 0
  BY DEF Splits, OnKinds
<1>2. PICK f : f = MeldCounts[m]
  OBVIOUS
<1>3. \A j \in Playable : c[j] = f[j] + d[j]
  BY <1>2 DEF Splits, Plus
<1>4. f \in [Playable -> Nat] /\ Kinds \subseteq Playable
  BY <1>1, <1>2, MeldNumbers, KindsAssumption
<1>5. ASSUME NEW k, PungAt(m, k)
      PROVE  TakesPung(c, i, m, d)
  <2>1. k \in Playable /\ f = Tile(k, 3) /\ m = Meld("pung", k, TRUE)
    BY <1>2, <1>4, <1>5 DEF PungAt
  <2>2. f[k] = 3 /\ \A j \in Playable \ {k} : f[j] = 0
    BY <2>1 DEF Tile, NoCounts
  <2>3. i = k
    BY <1>1, <1>2, <2>2
  <2>4. c[i] >= 3
    BY <1>1, <1>3, <2>2, <2>3
  <2>5. PICK e : e = Less(c, i, 3)
    OBVIOUS
  <2>6. e \in [Playable -> Nat] /\ e[i] = c[i] - 3 /\ \A j \in Playable \ {i} : e[j] = c[j]
    <3>1. 3 \in Nat
      OBVIOUS
    <3> QED
      BY <1>1, <2>4, <2>5, <3>1, TilesTaken
  <2>7. \A j \in Playable : e[j] = d[j]
    BY <1>1, <1>3, <2>2, <2>3, <2>6
  <2>8. d = e
    BY <1>1, <2>6, <2>7
  <2> QED
    BY <2>1, <2>3, <2>4, <2>5, <2>8 DEF TakesPung
<1>6. ASSUME NEW a, ChowAt(m, a)
      PROVE  i < 27 /\ TakesChow(c, i, a, m, d)
  <2>1. a \in ChowStarts /\ f = ThreeFrom(a) /\ m = Meld("chow", a, TRUE)
    BY <1>2, <1>6 DEF ChowAt
  <2>2. a \in Playable /\ a + 1 \in Playable /\ a + 2 \in Playable /\ RunStart(a)
    BY <1>4, <2>1, RunStartsAre
  <2>3. \A j \in Playable : f[j] = IF j \in {a, a + 1, a + 2} THEN 1 ELSE 0
    BY <2>1, <2>2, RunNumbers
  <2>4. i \in {a, a + 1, a + 2}
    BY <1>1, <1>2, <2>3
  <2>5. c[a] >= 1 /\ c[a + 1] >= 1 /\ c[a + 2] >= 1
    BY <1>1, <1>3, <2>2, <2>3
  <2>6. i < 27 /\ i \div 9 = a \div 9
    <3>1. a + 2 < 27 /\ (a + 1) \div 9 = a \div 9 /\ (a + 2) \div 9 = a \div 9
      BY <2>2, RunStartsAre
    <3> QED
      BY <2>2, <2>4, <3>1 DEF Playable
  <2>7. a \in i - 2..i /\ a >= 0
    BY <2>2, <2>4 DEF Playable
  <2>8. \A k \in 0..2 : c[a + k] >= 1
    <3>1. a + 0 = a
      BY <2>2 DEF Playable
    <3> QED
      BY <2>5, <3>1
  <2>9. RunOver(c, i, a)
    BY <2>2, <2>6, <2>7, <2>8 DEF RunOver
  <2>10. PICK e : e = LessRun(c, a)
    OBVIOUS
  <2>11. e \in [Playable -> Nat] /\ \A j \in Playable : c[j] = f[j] + e[j]
    BY <1>1, <2>1, <2>2, <2>5, <2>10, RunTaken
  <2>12. \A j \in Playable : e[j] = d[j]
    BY <1>1, <1>3, <1>4, <2>11
  <2>13. d = e
    BY <1>1, <2>11, <2>12
  <2> QED
    BY <2>1, <2>6, <2>9, <2>10, <2>13 DEF TakesChow
<1> QED
  BY <1>1, <1>5, <1>6, BoxMeldsAre

(* A tile taken with a meld of the lowest tile, for the search.            *)
LEMMA LowestTaken ==
    ASSUME NEW c, OnKinds(c), NEW i, Lowest(c, i), NEW rest
    PROVE  TakesLowest(c, rest) <=> \E m, d : Splits(c, i, m, d) /\ rest[d]
<1>1. nextNonZero(c) = i /\ i \in Playable
  BY DEF Lowest
<1>2. TakesLowest(c, rest) <=>
        \/ c[i] >= 3 /\ rest[Less(c, i, 3)]
        \/ i < 27 /\ \E a : RunOver(c, i, a) /\ rest[LessRun(c, a)]
  BY <1>1 DEF TakesLowest, RunOver, SuitedTileCount
<1>3. ASSUME c[i] >= 3, rest[Less(c, i, 3)]
      PROVE  \E m, d : Splits(c, i, m, d) /\ rest[d]
  <2>1. PICK m, d : m = Meld("pung", i, TRUE) /\ d = Less(c, i, 3)
    OBVIOUS
  <2>2. TakesPung(c, i, m, d)
    BY <1>3, <2>1 DEF TakesPung
  <2> QED
    BY <1>1, <1>3, <2>1, <2>2, PungSplits
<1>4. ASSUME NEW a, RunOver(c, i, a), rest[LessRun(c, a)]
      PROVE  \E m, d : Splits(c, i, m, d) /\ rest[d]
  <2>1. PICK m, d : m = Meld("chow", a, TRUE) /\ d = LessRun(c, a)
    OBVIOUS
  <2>2. TakesChow(c, i, a, m, d)
    BY <1>4, <2>1 DEF TakesChow
  <2> QED
    BY <1>1, <1>4, <2>1, <2>2, ChowSplits
<1>5. ASSUME NEW m, NEW d, Splits(c, i, m, d), rest[d]
      PROVE  \/ c[i] >= 3 /\ rest[Less(c, i, 3)]
             \/ i < 27 /\ \E a : RunOver(c, i, a) /\ rest[LessRun(c, a)]
  <2>1. TakesPung(c, i, m, d) \/ (i < 27 /\ \E a : TakesChow(c, i, a, m, d))
    BY <1>1, <1>5, SplitsAre
  <2> QED
    BY <1>5, <2>1 DEF TakesPung, TakesChow
<1> QED
  BY <1>2, <1>3, <1>4, <1>5

(* The melds of a sum with the lowest tile split it.                       *)
LEMMA SumSplits ==
    ASSUME NEW n \in 1..4, NEW s \in CombosOf[n], NEW i \in Playable, s.sum[i] > 0
    PROVE  \E m, r : r \in CombosOf[n - 1] /\ s = WithMeld(r, m) /\ Splits(s.sum, i, m, r.sum)
<1>1. PICK m \in BoxMelds, r \in CombosOf[n - 1] : MeldCounts[m][i] > 0 /\ s = WithMeld(r, m)
  BY SomeMeldHolds DEF TileInMeld
<1>2. n - 1 \in 0..4
  OBVIOUS
<1>3. ComboTyped(n - 1, r)
  BY <1>2, CombosTyped DEF AllTyped
<1>4. OnKinds(r.sum)
  BY <1>3 DEF ComboTyped, OnKinds
<1>5. s.sum = Plus(MeldCounts[m], r.sum)
  BY <1>1 DEF WithMeld
<1> QED
  BY <1>1, <1>4, <1>5 DEF Splits

(* A split sum is a sum.                                                   *)
LEMMA SplitSums ==
    ASSUME NEW n \in 1..4, NEW c, NEW i, NEW m, NEW d, Splits(c, i, m, d), NEW r \in CombosOf[n - 1], r.sum = d
    PROVE  WithMeld(r, m) \in CombosOf[n] /\ WithMeld(r, m).sum = c
<1>1. m \in DOMAIN MeldCounts /\ c = Plus(MeldCounts[m], d)
  BY DEF Splits, BoxMelds
<1>2. WithMeld(r, m) \in CombosOf[n]
  BY <1>1, CombosSay
<1>3. WithMeld(r, m).sum = c
  BY <1>1 DEF WithMeld
<1> QED
  BY <1>2, <1>3

(* meldN finds exactly the sums of n melds.                                *)
SearchExact(n) == \A c : OnKinds(c) => (meldN[n][c] <=> \E s \in CombosOf[n] : s.sum = c)

(* What is exact for the rest is exact with the meld of the lowest tile:   *)
(* that tile is in some meld, and all melds that hold it are tried.        *)
LEMMA SearchStep ==
    ASSUME NEW n \in 1..4, SearchExact(n - 1)
    PROVE  SearchExact(n)
<1> SUFFICES ASSUME NEW c, OnKinds(c)
             PROVE  meldN[n][c] <=> \E s \in CombosOf[n] : s.sum = c
  BY DEF SearchExact
<1>1. c \in [Playable -> Nat] /\ n \in 0..4 /\ n > 0
  BY DEF OnKinds
<1>2. meldN[n][c] <=> Total(c) = n * 3 /\ TakesLowest(c, meldN[n - 1])
  BY <1>1, MeldNSays
<1>3. ASSUME meldN[n][c]
      PROVE  \E s \in CombosOf[n] : s.sum = c
  <2>1. Total(c) > 0 /\ TakesLowest(c, meldN[n - 1])
    BY <1>1, <1>2, <1>3
  <2>2. PICK i : Lowest(c, i)
    BY <1>1, <2>1, LowestTile
  <2>3. PICK m, d : Splits(c, i, m, d) /\ meldN[n - 1][d]
    BY <2>1, <2>2, LowestTaken
  <2>4. PICK r \in CombosOf[n - 1] : r.sum = d
    BY <2>3 DEF SearchExact, Splits
  <2> QED
    BY <2>3, <2>4, SplitSums
<1>4. ASSUME NEW s \in CombosOf[n], s.sum = c
      PROVE  meldN[n][c]
  <2>1. ComboTyped(n, s)
    BY <1>1, CombosTyped DEF AllTyped
  <2>2. Total(c) = 3 * n
    BY <1>4, <2>1 DEF ComboTyped
  <2>3. Total(c) = n * 3 /\ Total(c) > 0
    BY <2>2
  <2>4. PICK i : Lowest(c, i)
    BY <1>1, <2>3, LowestTile
  <2>5. i \in Playable /\ s.sum[i] > 0
    BY <1>4, <2>4 DEF Lowest
  <2>6. PICK m, r : r \in CombosOf[n - 1] /\ Splits(c, i, m, r.sum)
    BY <1>4, <2>5, SumSplits
  <2>7. meldN[n - 1][r.sum]
    BY <2>6 DEF SearchExact, Splits
  <2>8. TakesLowest(c, meldN[n - 1])
    BY <2>4, <2>6, <2>7, LowestTaken
  <2> QED
    BY <1>2, <2>3, <2>8
<1> QED
  BY <1>3, <1>4

(* Nothing is left.                                                        *)
LEMMA NothingLeft ==
    ASSUME NEW c \in [Playable -> Nat], Total(c) = 0
    PROVE  c = NoCounts
<1>1. IsFiniteSet(Units(c))
  BY PlayableFinite, UnitsFinite
<1>2. Units(c) = {}
  BY <1>1, FS_EmptySet DEF Total
<1>3. \A i \in Playable : c[i] = 0
  <2> SUFFICES ASSUME NEW i \in Playable, c[i] # 0 PROVE FALSE
    OBVIOUS
  <2>1. 1 \in 1..c[i]
    OBVIOUS
  <2>2. << i, 1 >> \in Units(c)
    BY <2>1, UnitsAre
  <2> QED
    BY <1>2, <2>2
<1> QED
  BY <1>3 DEF NoCounts

(* meldN, from the lowest tile up, finds exactly the sums of up to four    *)
(* melds.                                                                  *)
LEMMA SearchIsExact == \A n \in 0..4 : SearchExact(n)
<1>1. SearchExact(0)
  <2> SUFFICES ASSUME NEW c, OnKinds(c)
               PROVE  meldN[0][c] <=> \E s \in CombosOf[0] : s.sum = c
    BY DEF SearchExact
  <2>1. c \in [Playable -> Nat] /\ 0 \in 0..4 /\ ~(0 > 0) /\ 0 * 3 = 0
    BY DEF OnKinds
  <2>2. meldN[0][c] <=> Total(c) = 0
    BY <2>1, MeldNSays
  <2>3. Total(c) = 0 <=> c = NoCounts
    BY <2>1, NothingLeft, NoTiles
  <2>4. (\E s \in CombosOf[0] : s.sum = c) <=> c = NoCounts
    BY CombosSay
  <2> QED
    BY <2>2, <2>3, <2>4
<1>2. SearchExact(1)
  <2>1. 1 \in 1..4 /\ 1 - 1 = 0
    OBVIOUS
  <2> QED
    BY <1>1, <2>1, SearchStep
<1>3. SearchExact(2)
  <2>1. 2 \in 1..4 /\ 2 - 1 = 1
    OBVIOUS
  <2> QED
    BY <1>2, <2>1, SearchStep
<1>4. SearchExact(3)
  <2>1. 3 \in 1..4 /\ 3 - 1 = 2
    OBVIOUS
  <2> QED
    BY <1>3, <2>1, SearchStep
<1>5. SearchExact(4)
  <2>1. 4 \in 1..4 /\ 4 - 1 = 3
    OBVIOUS
  <2> QED
    BY <1>4, <2>1, SearchStep
<1> QED
  BY <1>1, <1>2, <1>3, <1>4, <1>5

(* What is counted in two parts, as one fact.                              *)
Sums(D, c, d, e) == \A i \in D : e[i] = c[i] + d[i]

(* The total of a sum is the sum of the totals.                            *)
LEMMA TotalSums ==
    ASSUME NEW D, IsFiniteSet(D), NEW c \in [D -> Nat], NEW d \in [D -> Nat], NEW e \in [D -> Nat], Sums(D, c, d, e)
    PROVE  Total(e) = Total(c) + Total(d)
BY TotalPlus DEF Sums

(* A meld is three tiles, a gang one more.                                 *)
LEMMA MeldsMeasured ==
    ASSUME NEW fs \in Seq(MeldFacts)
    PROVE  Total(LensOf(fs)) = 3 * Len(fs) + Cardinality(FoursOf(fs))
<1>1. PICK n \in Nat : n = Len(fs)
  OBVIOUS
<1>2. PICK D, F, c : D = 1..n /\ F = FoursOf(fs) /\ c = LensOf(fs)
  OBVIOUS
<1>3. IsFiniteSet(D) /\ Cardinality(D) = n
  <2>1. 1 \in Int /\ n \in Int
    OBVIOUS
  <2>2. IsFiniteSet(D) /\ Cardinality(D) = IF 1 > n THEN 0 ELSE n - 1 + 1
    BY <1>2, <2>1, FS_Interval, Zenon
  <2> QED
    BY <2>2
<1>4. F \subseteq D /\ \A k \in D : c[k] = IF k \in F THEN 4 ELSE 3
  <2>1. \A k \in D : fs[k] \in MeldFacts
    BY <1>1, <1>2
  <2>2. \A k \in D : Len(TilesIn(fs[k])) \in {3, 4}
    BY <2>1, FactsRead DEF FactRead
  <2> QED
    BY <1>1, <1>2, <2>2 DEF FoursOf, LensOf
<1>5. PICK three, one : three = [k \in D |-> 3] /\ one = [k \in D |-> IF k \in F THEN 1 ELSE 0]
  OBVIOUS
<1>6. three \in [D -> Nat] /\ one \in [D -> Nat] /\ c \in [D -> Nat] /\ \A k \in D : c[k] = three[k] + one[k]
  <2>1. c \in [D -> Nat]
    BY <1>1, <1>2, MeldsCounted
  <2> QED
    BY <1>4, <1>5, <2>1
<1>7. Total(c) = Total(three) + Total(one)
  <2>1. three \in [D -> Nat] /\ one \in [D -> Nat] /\ c \in [D -> Nat] /\ IsFiniteSet(D)
    BY <1>3, <1>6
  <2>2. \A k \in D : c[k] = three[k] + one[k]
    BY <1>6
  <2> QED
    <3>1. Sums(D, three, one, c)
      BY <2>2, Zenon DEF Sums
    <3> QED
      BY <2>1, <3>1, TotalSums
<1>8. Total(three) = n * 3
  <2>1. Units(three) = D \X (1..3)
    <3>1. DOMAIN three = D /\ \A k \in D : three[k] = 3
      BY <1>5
    <3> QED
      BY <3>1 DEF Units
  <2>2. Cardinality(D \X (1..3)) = n * 3
    BY <1>3, PlacesFinite, FS_Product
  <2> QED
    BY <2>1, <2>2 DEF Total
<1>9. Total(one) = Cardinality(F)
  <2>1. Units(one) = F \X {1}
    <3>1. DOMAIN one = D /\ \A k \in D : one[k] = IF k \in F THEN 1 ELSE 0
      BY <1>5
    <3>2. 1..1 = {1} /\ 1..0 = {}
      OBVIOUS
    <3> QED
      BY <1>4, <3>1, <3>2 DEF Units
  <2>2. IsFiniteSet(F) /\ IsFiniteSet({1}) /\ Cardinality({1}) = 1
    BY <1>3, <1>4, FS_Subset, FS_Singleton, Zenon
  <2>3. Cardinality(F \X {1}) = Cardinality(F) * 1 /\ Cardinality(F) \in Nat
    BY <2>2, FS_Product, FS_CardinalityType
  <2> QED
    BY <2>1, <2>3 DEF Total
<1>10. Cardinality(F) \in Nat
  BY <1>3, <1>4, FS_Subset, FS_CardinalityType, Zenon
<1> QED
  BY <1>1, <1>2, <1>7, <1>8, <1>9, <1>10

(* So the tiles a hand holds follow from its melds.                        *)
LEMMA HandLeft ==
    ASSUME HandIInv
    PROVE  Total(closed) + 3 * Len(facts) = 13 + Num(drawn) /\ Len(facts) \in Nat /\ Total(closed) \in Nat
<1>1. HandTypes /\ facts \in Seq(MeldFacts) /\ drawn \in BOOLEAN
  BY DEF HandIInv, HandTypes
<1>2. PICK t, n, q, d \in Nat : t = Total(closed) /\ n = Len(facts) /\ q = Cardinality(FoursOf(facts)) /\ d = Num(drawn)
  BY <1>1, HandNumbers DEF Num
<1>3. Total(LensOf(facts)) = 3 * n + q
  BY <1>1, <1>2, MeldsMeasured
<1>4. t + (3 * n + q) = 13 + q + d
  <2>1. Total(closed) + Total(LensOf(facts)) = 13 + Cardinality(FoursOf(facts)) + Num(drawn)
    BY DEF HandIInv, HandCounted
  <2> QED
    BY <1>2, <1>3, <2>1
<1>5. t + 3 * n = 13 + d
  BY <1>4
<1> QED
  BY <1>2, <1>5

(* A hand holds nothing that is not in its box, and has room for a pair.   *)
NothingElse == \A j \in Playable \ DOMAIN box : closed[j] = 0

(* The inductive invariant: the hand is counted, holds only tiles of its   *)
(* box, and has four melds at most.                                        *)
ReadIInv == HandIInv /\ NothingElse /\ Len(facts) <= 4

(* It holds of every hand dealt.                                           *)
LEMMA ReadStarts == HandInit => ReadIInv
<1> SUFFICES ASSUME HandInit
             PROVE  ReadIInv
  OBVIOUS
<1>1. box \in Boxes /\ closed = Dealt[box] /\ facts = << >>
  BY DEF HandInit
<1>2. NothingElse
  <2>1. PICK b \in Boxes : b = box
    BY <1>1
  <2>2. \A i \in Playable \ DOMAIN b : Dealt[b][i] = 0
    BY DealtAssumption, Zenon
  <2> QED
    BY <1>1, <2>1, <2>2 DEF NothingElse
<1>3. Len(facts) <= 4
  BY <1>1
<1> QED
  BY <1>2, <1>3, HandStarts DEF ReadIInv

(* Every draw, discard, claim and gang keeps it.                           *)
LEMMA ReadKeeps == ReadIInv /\ [HandNext]_tableVars => ReadIInv'
<1> SUFFICES ASSUME ReadIInv, [HandNext]_tableVars
             PROVE  ReadIInv'
  OBVIOUS
<1>1. HandIInv /\ HandIInv' /\ NothingElse /\ Len(facts) <= 4
  BY HandKeeps DEF ReadIInv
<1>2. closed \in [Playable -> Nat] /\ closed' \in [Playable -> Nat] /\ facts \in Seq(MeldFacts) /\ box \in Boxes
  BY <1>1 DEF HandIInv, HandTypes
<1>3. MaxMelds \in 0..4
  BY KindsAssumption
<1>4. ASSUME NEW f, facts' = Append(facts, f), Len(facts) < MaxMelds
      PROVE  (Len(facts) <= 4)'
  <2>1. Len(facts) \in Nat /\ Len(facts') = Len(facts) + 1
    BY <1>2, <1>4
  <2> QED
    BY <1>3, <1>4, <2>1
<1>5. ASSUME NEW i \in DOMAIN box, NEW n, closed' = Less(closed, i, n), box' = box
      PROVE  NothingElse'
  <2>1. \A j \in Playable \ {i} : closed'[j] = closed[j]
    BY <1>2, <1>5 DEF Less
  <2> QED
    BY <1>1, <1>5, <2>1 DEF NothingElse
<1>6. ASSUME NEW i \in DOMAIN box, Draw(i)
      PROVE  NothingElse' /\ (Len(facts) <= 4)'
  <2>1. \A j \in Playable \ {i} : closed'[j] = closed[j]
    BY <1>2, <1>6 DEF Draw
  <2> QED
    BY <1>1, <1>6, <2>1 DEF Draw, NothingElse
<1>7. ASSUME NEW i \in DOMAIN box, Discard(i)
      PROVE  NothingElse' /\ (Len(facts) <= 4)'
  BY <1>1, <1>5, <1>7 DEF Discard
<1>8. ASSUME NEW i \in DOMAIN box, Pong(i)
      PROVE  NothingElse' /\ (Len(facts) <= 4)'
  <2>1. closed' = Less(closed, i, 2) /\ box' = box
    BY <1>8 DEF Pong
  <2>2. Len(facts) < MaxMelds /\ \E f : facts' = Append(facts, f)
    BY <1>8 DEF Pong, MayClaim, recordMeldFact
  <2> QED
    BY <1>4, <1>5, <2>1, <2>2
<1>9. ASSUME NEW i \in DOMAIN box, ZhiGang(i)
      PROVE  NothingElse' /\ (Len(facts) <= 4)'
  <2>1. closed' = Less(closed, i, 3) /\ box' = box
    BY <1>9 DEF ZhiGang
  <2>2. Len(facts) < MaxMelds /\ \E f : facts' = Append(facts, f)
    BY <1>9 DEF ZhiGang, MayClaim, recordMeldFact
  <2> QED
    BY <1>4, <1>5, <2>1, <2>2
<1>10. ASSUME NEW i \in DOMAIN box, AnGang(i)
       PROVE  NothingElse' /\ (Len(facts) <= 4)'
  <2>1. closed' = Less(closed, i, 4) /\ box' = box
    BY <1>10 DEF AnGang
  <2>2. Len(facts) < MaxMelds /\ \E f : facts' = Append(facts, f)
    BY <1>10 DEF AnGang, recordMeldFact
  <2> QED
    BY <1>4, <1>5, <2>1, <2>2
<1>11. ASSUME NEW i \in DOMAIN box, BuGang(i)
       PROVE  NothingElse' /\ (Len(facts) <= 4)'
  <2>1. closed' = Less(closed, i, 1) /\ box' = box /\ hasPongMeld(facts, FromIndex(i))
        /\ facts' = upgradePongToBuGang(facts, FromIndex(i))
    BY <1>11 DEF BuGang
  <2>2. i \in Playable
    BY <1>2, BoxesAre
  <2>3. PICK x \in 1..Len(facts), from \in 0..3 : Grows(facts, FromIndex(i), x, from)
    BY <1>2, <2>1, <2>2, PongFound
  <2>4. PICK f : facts' = [facts EXCEPT ![x] = f]
    BY <2>1, <2>3 DEF Grows
  <2>5. Len(facts') = Len(facts)
    BY <1>2, <2>4
  <2> QED
    BY <1>1, <1>5, <2>1, <2>5
<1>12. ASSUME NEW i \in DOMAIN box, Chi(i)
       PROVE  NothingElse' /\ (Len(facts) <= 4)'
  <2>1. box' = box /\ Len(facts) < MaxMelds /\ \E f : facts' = Append(facts, f)
    BY <1>12 DEF Chi, MayClaim, recordMeldFact
  <2>2. \E run : closed' = [j \in Playable |-> closed[j] - Num(j # i /\ \E k \in 1..3 : Index(run[k]) = j)]
    BY <1>12 DEF Chi
  <2>3. ASSUME NEW j \in Playable, closed[j] = 0
        PROVE  closed'[j] = 0
    <3>1. PICK b : closed'[j] = 0 - Num(b)
      BY <2>2, <2>3
    <3>2. Num(b) \in Nat /\ closed'[j] \in Nat
      BY <1>2 DEF Num
    <3> QED
      BY <3>1, <3>2
  <2> QED
    BY <1>1, <1>4, <2>1, <2>3 DEF NothingElse
<1>13. CASE UNCHANGED tableVars
  BY <1>1, <1>13 DEF tableVars, NothingElse, ReadIInv
<1> QED
  BY <1>1, <1>6, <1>7, <1>8, <1>9, <1>10, <1>11, <1>12, <1>13 DEF HandNext, ReadIInv

(* A pair taken out of c leaves d.                                         *)
LEMMA PairTaken ==
    ASSUME NEW c \in [Playable -> Nat], NEW i \in Playable, NEW d \in [Playable -> Nat]
    PROVE  c = Plus(Tile(i, 2), d) <=> c[i] >= 2 /\ d = Less(c, i, 2)
<1>1. PICK e : e = Tile(i, 2)
  OBVIOUS
<1>2. e \in [Playable -> Nat] /\ e[i] = 2 /\ \A j \in Playable \ {i} : e[j] = 0
  BY <1>1 DEF Tile, NoCounts
<1>3. PICK f : f = Plus(e, d)
  OBVIOUS
<1>4. f \in [Playable -> Nat] /\ \A j \in Playable : f[j] = e[j] + d[j]
  BY <1>2, <1>3 DEF Plus
<1>5. ASSUME c = f
      PROVE  c[i] >= 2 /\ d = Less(c, i, 2)
  <2>1. c[i] = 2 + d[i] /\ c[i] >= 2 /\ \A j \in Playable \ {i} : c[j] = d[j]
    BY <1>2, <1>4, <1>5
  <2>2. PICK g : g = Less(c, i, 2)
    OBVIOUS
  <2>3. g \in [Playable -> Nat] /\ g[i] = c[i] - 2 /\ \A j \in Playable \ {i} : g[j] = c[j]
    <3>1. 2 \in Nat
      OBVIOUS
    <3> QED
      BY <2>1, <2>2, <3>1, TilesTaken
  <2>4. \A j \in Playable : g[j] = d[j]
    BY <2>1, <2>3
  <2> QED
    BY <2>1, <2>2, <2>3, <2>4
<1>6. ASSUME c[i] >= 2, d = Less(c, i, 2)
      PROVE  c = f
  <2>1. d[i] = c[i] - 2 /\ \A j \in Playable \ {i} : d[j] = c[j]
    <3>1. 2 \in Nat
      OBVIOUS
    <3> QED
      BY <1>6, <3>1, TilesTaken
  <2>2. \A j \in Playable : c[j] = f[j]
    BY <1>2, <1>4, <2>1
  <2> QED
    BY <1>4, <2>2
<1> QED
  BY <1>1, <1>3, <1>5, <1>6

(* A hand is a pair and n melds exactly when the search says so.           *)
LEMMA StandardExact ==
    ASSUME NEW c, OnKinds(c), NEW n \in 0..4
    PROVE  standardFormMelds(c, n) <=> \E i \in Kinds, s \in CombosOf[n] : c = Plus(Tile(i, 2), s.sum)
<1>1. c \in [Playable -> Nat] /\ Kinds \subseteq Playable /\ SearchExact(n)
  BY KindsAssumption, SearchIsExact DEF OnKinds
<1>2. ASSUME NEW i \in Playable, c[i] >= 2, meldN[n][Less(c, i, 2)]
      PROVE  \E k \in Kinds, s \in CombosOf[n] : c = Plus(Tile(k, 2), s.sum)
  <2>1. i \in Kinds
    BY <1>2 DEF OnKinds
  <2>2. PICK d : d = Less(c, i, 2)
    OBVIOUS
  <2>3. d \in [Playable -> Nat] /\ \A j \in Playable \ {i} : d[j] = c[j]
    <3>1. 2 \in Nat
      OBVIOUS
    <3> QED
      BY <1>1, <1>2, <2>2, <3>1, TilesTaken
  <2>4. OnKinds(d)
    BY <2>1, <2>3 DEF OnKinds
  <2>5. PICK s \in CombosOf[n] : s.sum = d
    BY <1>1, <1>2, <2>2, <2>4 DEF SearchExact
  <2>6. c = Plus(Tile(i, 2), d)
    BY <1>1, <1>2, <2>2, <2>3, PairTaken
  <2> QED
    BY <2>1, <2>5, <2>6
<1>3. ASSUME NEW i \in Kinds, NEW s \in CombosOf[n], c = Plus(Tile(i, 2), s.sum)
      PROVE  c[i] >= 2 /\ meldN[n][Less(c, i, 2)]
  <2>1. ComboTyped(n, s)
    BY CombosTyped DEF AllTyped
  <2>2. PICK d : d = s.sum
    OBVIOUS
  <2>3. d \in [Playable -> Nat] /\ OnKinds(d)
    BY <2>1, <2>2 DEF ComboTyped, OnKinds
  <2>4. c[i] >= 2 /\ d = Less(c, i, 2)
    BY <1>1, <1>3, <2>2, <2>3, PairTaken
  <2>5. meldN[n][d]
    BY <1>1, <2>2, <2>3 DEF SearchExact
  <2> QED
    BY <2>4, <2>5
<1> QED
  BY <1>1, <1>2, <1>3 DEF standardFormMelds

(* A hand of the dense box.                                                *)
LEMMA DenseHand ==
    ASSUME ReadIInv, Dense
    PROVE  /\ OnKinds(closed) /\ \A i \in Playable : closed[i] <= 4
           /\ Len(facts) \in 0..4 /\ Total(closed) + 3 * Len(facts) = 13 + Num(drawn) /\ Total(closed) \in Nat
<1>1. HandIInv /\ NothingElse /\ HandTypes /\ WithinBox /\ DOMAIN box = Kinds
  BY DEF ReadIInv, HandIInv, Dense, DenseBox
<1>2. OnKinds(closed)
  BY <1>1 DEF NothingElse, OnKinds, HandTypes
<1>3. ASSUME NEW i \in Playable
      PROVE  closed[i] <= 4
  <2>1. CASE i \in DOMAIN box
    <3>1. box[i] \in 0..4 /\ closed[i] \in Nat
      BY <1>1, <2>1, HandNumbers
    <3>2. PICK s \in Nat : s = Total(ShowsOf(facts, i))
      BY <1>1, HandNumbers
    <3>3. closed[i] + s <= box[i]
      BY <1>1, <2>1, <3>2 DEF WithinBox
    <3> QED
      BY <3>1, <3>3
  <2>2. CASE i \notin DOMAIN box
    <3>1. closed[i] = 0
      BY <1>1, <2>2 DEF NothingElse
    <3> QED
      BY <3>1
  <2> QED
    BY <2>1, <2>2
<1>4. Total(closed) + 3 * Len(facts) = 13 + Num(drawn) /\ Len(facts) \in Nat /\ Total(closed) \in Nat
  BY <1>1, HandLeft
<1>5. Len(facts) \in 0..4
  <2>1. Len(facts) <= 4
    BY DEF ReadIInv
  <2>2. PICK n : n = Len(facts)
    OBVIOUS
  <2>3. n \in Nat /\ n <= 4
    BY <1>4, <2>1, <2>2
  <2>4. n \in 0..4
    BY <2>3
  <2> QED
    BY <2>2, <2>4
<1> QED
  BY <1>2, <1>3, <1>4, <1>5

(* Such a hand is found to win exactly when it is melds and a pair or      *)
(* seven pairs.                                                            *)
LEMMA DecomposerIsExact == ReadIInv => DecomposerExact
<1> SUFFICES ASSUME ReadIInv, Dense, drawn
             PROVE  IsWinningWithOpenMelds(closed, Len(facts))
                <=> \/ closed \in Standards[Len(facts)]
                    \/ facts = <<>> /\ \A i \in Playable : closed[i] % 2 = 0
  BY DEF DecomposerExact
<1>1. OnKinds(closed) /\ (\A i \in Playable : closed[i] <= 4) /\ closed \in [Playable -> Nat]
  BY DenseHand DEF OnKinds
<1>2. PICK n \in 0..4 : n = Len(facts)
  BY DenseHand
<1>3. Total(closed) = 14 - 3 * n
  <2>1. Num(drawn) = 1
    BY DEF Num
  <2>2. PICK t \in Nat : t = Total(closed)
    BY DenseHand
  <2>3. t + 3 * n = 13 + 1
    BY <1>2, <2>1, <2>2, DenseHand
  <2> QED
    BY <2>2, <2>3
<1>4. PICK k \in 0..4 : k = 4 - n
  OBVIOUS
<1>5. closed \in Standards[n] <=> standardFormMelds(closed, k)
  <2>1. MeldSums[n] = {Plus(Tile(i, 2), s.sum) : i \in Kinds, s \in CombosOf[k]}
    <3>1. PICK A : A = CombosOf[k]
      OBVIOUS
    <3>2. Combos[k] = A
      BY <3>1 DEF Combos
    <3>3. MeldSums[n] = {Plus(Tile(i, 2), s.sum) : i \in Kinds, s \in Combos[4 - n]}
      BY DEF MeldSums
    <3> QED
      BY <1>4, <3>1, <3>2, <3>3
  <2>2. standardFormMelds(closed, k) <=> \E i \in Kinds, s \in CombosOf[k] : closed = Plus(Tile(i, 2), s.sum)
    BY <1>1, StandardExact
  <2>3. closed \in Standards[n] <=> closed \in MeldSums[n]
    <3>1. Standards[n] = {w \in MeldSums[n] : \A i \in Kinds : w[i] <= 4}
      BY DEF Standards
    <3>2. \A i \in Kinds : closed[i] <= 4
      BY <1>1, KindsAssumption
    <3> QED
      BY <3>1, <3>2
  <2> QED
    BY <2>1, <2>2, <2>3
<1>6. CASE n # 0
  <2>1. facts # << >>
    BY <1>2, <1>6
  <2>2. IsWinningWithOpenMelds(closed, n) <=> standardFormMelds(closed, k)
    <3>1. Total(closed) = 14 - n * 3 /\ 4 - n = k
      BY <1>3, <1>4
    <3> QED
      BY <1>1, <1>6, <3>1 DEF IsWinningWithOpenMelds, StandardFormWithOpenMelds
  <2> QED
    BY <1>2, <1>5, <2>1, <2>2
<1>7. CASE n = 0
  <2>1. facts = << >>
    <3>1. facts \in Seq(MeldFacts)
      BY DEF ReadIInv, HandIInv, HandTypes
    <3>2. Len(facts) = 0
      BY <1>2, <1>7
    <3> HIDE DEF MeldFacts
    <3> QED
      BY <3>1, <3>2
  <2>2. Total(closed) = 14 /\ k = 4
    BY <1>3, <1>4, <1>7
  <2>3. IsWinningWithOpenMelds(closed, n) <=> SevenPairs(closed) \/ standardFormMelds(closed, 4)
    BY <1>1, <1>7, <2>2 DEF IsWinningWithOpenMelds, IsWinning, StandardForm
  <2>4. SevenPairs(closed) <=> \A i \in Playable : closed[i] % 2 = 0
    <3>1. ASSUME NEW i \in Playable
          PROVE  closed[i] \in {0, 2, 4} <=> closed[i] % 2 = 0
      <4>1. closed[i] \in 0..4
        BY <1>1
      <4>2. \A x \in 0..4 : x \in {0, 2, 4} <=> x % 2 = 0
        OBVIOUS
      <4> QED
        BY <4>1, <4>2
    <3> QED
      BY <2>2, <3>1 DEF SevenPairs
  <2> QED
    BY <1>2, <1>5, <2>1, <2>2, <2>3, <2>4
<1> QED
  BY <1>6, <1>7

(* The places of a meld in a reading.                                      *)
PlacesOf(q, x) == {k \in 1..Len(q) : q[k] = x}

(* A meld put first is one more of its kind.                               *)
LEMMA BagGrows ==
    ASSUME NEW m \in BoxMelds, NEW t \in Seq(BoxMelds)
    PROVE  /\ <<m>> \o t \in Seq(BoxMelds)
           /\ BagOf(<<m>> \o t) = [BagOf(t) EXCEPT ![m] = @ + 1]
<1>1. PICK n \in Nat : n = Len(t)
  OBVIOUS
<1>2. PICK q : q = <<m>> \o t
  OBVIOUS
<1>3. q \in Seq(BoxMelds) /\ Len(q) = n + 1 /\ q[1] = m /\ \A k \in 1..n : q[k + 1] = t[k]
  BY <1>1, <1>2
<1>4. ASSUME NEW x \in BoxMelds
      PROVE  /\ Cardinality(PlacesOf(t, x)) \in Nat
             /\ Cardinality(PlacesOf(q, x)) = Cardinality(PlacesOf(t, x)) + (IF x = m THEN 1 ELSE 0)
  <2>1. PICK A, B : A = PlacesOf(t, x) /\ B = {k + 1 : k \in A}
    OBVIOUS
  <2>2. A \subseteq 1..n
    BY <1>1, <2>1 DEF PlacesOf
  <2>3. IsFiniteSet(A) /\ Cardinality(A) \in Nat
    <3>1. 1 \in Int /\ n \in Int
      OBVIOUS
    <3>2. IsFiniteSet(1..n)
      BY <3>1, FS_Interval, Zenon
    <3> QED
      BY <2>2, <3>2, FS_Subset, FS_CardinalityType, Zenon
  <2>4. IsFiniteSet(B) /\ Cardinality(B) = Cardinality(A)
    <3>1. PICK f : f = [k \in A |-> k + 1]
      OBVIOUS
    <3>2. \A j, k \in A : j + 1 = k + 1 => j = k
      BY <2>2
    <3>3. f \in Bijection(A, B)
      BY <2>1, <3>1, <3>2 DEF Bijection, Injection, Surjection, IsInjective
    <3>4. ExistsBijection(A, B)
      BY <3>3 DEF ExistsBijection
    <3> QED
      BY <2>3, <3>4, FS_Bijection
  <2>5. \A k \in B : k \in 2..n + 1 /\ k - 1 \in A
    BY <2>1, <2>2
  <2>6. PlacesOf(q, x) = B \cup (IF x = m THEN {1} ELSE {})
    <3>1. ASSUME NEW k \in PlacesOf(q, x)
          PROVE  k \in B \cup (IF x = m THEN {1} ELSE {})
      <4>1. k \in 1..n + 1 /\ q[k] = x
        BY <1>3, <3>1 DEF PlacesOf
      <4>2. CASE k = 1
        BY <1>3, <4>1, <4>2
      <4>3. CASE k # 1
        <5>1. PICK j : j = k - 1
          OBVIOUS
        <5>2. j \in 1..n /\ j + 1 = k
          BY <4>1, <4>3, <5>1
        <5>3. j \in A
          BY <1>1, <1>3, <2>1, <4>1, <5>2 DEF PlacesOf
        <5> QED
          BY <2>1, <5>2, <5>3
      <4> QED
        BY <4>2, <4>3
    <3>2. ASSUME NEW k \in B
          PROVE  k \in PlacesOf(q, x)
      <4>1. PICK j \in A : k = j + 1
        BY <2>1
      <4>2. j \in 1..n /\ t[j] = x /\ k \in 1..n + 1
        BY <1>1, <2>1, <2>2, <4>1 DEF PlacesOf
      <4> QED
        BY <1>3, <4>1, <4>2 DEF PlacesOf
    <3>3. x = m => 1 \in PlacesOf(q, x)
      BY <1>3 DEF PlacesOf
    <3> QED
      BY <3>1, <3>2, <3>3
  <2>7. CASE x = m
    <3>1. 1 \notin B
      BY <2>5
    <3>2. PlacesOf(q, x) = B \cup {1}
      BY <2>6, <2>7
    <3>3. Cardinality(B \cup {1}) = Cardinality(B) + 1
      BY <2>4, <3>1, FS_AddElement, Zenon
    <3> QED
      BY <2>1, <2>3, <2>4, <2>7, <3>2, <3>3
  <2>8. CASE x # m
    <3>1. PlacesOf(q, x) = B
      BY <2>6, <2>8
    <3> QED
      BY <2>1, <2>3, <2>4, <2>8, <3>1
  <2> QED
    BY <2>7, <2>8
<1>5. PICK b, e : b = BagOf(t) /\ e = BagOf(q)
  OBVIOUS
<1>6. /\ b \in [BoxMelds -> Nat] /\ e \in [BoxMelds -> Nat]
      /\ \A x \in BoxMelds : e[x] = b[x] + (IF x = m THEN 1 ELSE 0)
  <2>1. b = [x \in BoxMelds |-> Cardinality(PlacesOf(t, x))] /\ e = [x \in BoxMelds |-> Cardinality(PlacesOf(q, x))]
    BY <1>5 DEF BagOf, PlacesOf, BoxMelds
  <2> QED
    BY <1>4, <2>1, SMTT(30)
<1>7. e = [b EXCEPT ![m] = @ + 1]
  <2>1. PICK f : f = [b EXCEPT ![m] = @ + 1]
    OBVIOUS
  <2>2. f \in [BoxMelds -> Nat] /\ \A x \in BoxMelds : f[x] = e[x]
    BY <1>6, <2>1
  <2> QED
    BY <1>6, <2>1, <2>2
<1> QED
  BY <1>2, <1>3, <1>5, <1>7

(* No meld at all.                                                         *)
LEMMA BagOfNone == BagOf(<< >>) = NoMelds
<1>1. \A x : {k \in 1..Len(<< >>) : << >>[k] = x} = {}
  OBVIOUS
<1> QED
  BY <1>1, FS_EmptySet DEF BagOf, NoMelds

(* q is a meld with the tile i before a reading of the rest.               *)
Begins(c, i, readings, q) == \E m, d : Splits(c, i, m, d) /\ \E t \in readings[d] : q = <<m>> \o t

(* A reading begins with a meld of the lowest tile.                        *)
LEMMA FirstTaken ==
    ASSUME NEW c, OnKinds(c), NEW i, Lowest(c, i), NEW readings, NEW q
    PROVE  q \in LowestFirst(c, readings) <=> Begins(c, i, readings, q)
<1>1. nextNonZero(c) = i /\ i \in Playable /\ c \in [Playable -> Nat] /\ ~(i < 0)
  BY DEF Lowest, OnKinds, Playable
<1>2. q \in LowestFirst(c, readings) <=>
        \/ ~(c[i] < 3) /\ \E t \in readings[Less(c, i, 3)] : q = <<Meld("pung", i, TRUE)>> \o t
        \/ \E a : RunOver(c, i, a) /\ \E t \in readings[LessRun(c, a)] : q = <<Meld("chow", a, TRUE)>> \o t
  <2> DEFINE S == {a \in i - 2..i : a >= 0 /\ a \div 9 = i \div 9 /\ RunStart(a) /\ \A k \in 0..2 : c[a + k] > 0}
             P == {<<Meld("pung", i, TRUE)>> \o t : t \in readings[Less(c, i, 3)]}
             C(a) == {<<Meld("chow", a, TRUE)>> \o t : t \in readings[LessRun(c, a)]}
  <2>1. LowestFirst(c, readings) = (IF c[i] < 3 THEN {} ELSE P) \cup UNION {C(a) : a \in S}
    BY <1>1 DEF LowestFirst
  <2>2. \A a : a \in S <=> RunOver(c, i, a)
    <3> SUFFICES ASSUME NEW a
                 PROVE  a \in S <=> RunOver(c, i, a)
      OBVIOUS
    <3>1. RunOver(c, i, a) => a \in i - 2..i /\ a >= 0 /\ RunStart(a)
      BY DEF RunOver
    <3>2. ASSUME a \in i - 2..i, a >= 0, RunStart(a), NEW k \in 0..2
          PROVE  c[a + k] >= 1 <=> c[a + k] > 0
      <4>1. a \in Playable
        BY <1>1, <3>2 DEF Playable, PlayableTileCount
      <4>2. a + 1 \in Playable /\ a + 2 \in Playable /\ a + 0 = a
        BY <3>2, <4>1, RunStartsAre DEF Playable, PlayableTileCount
      <4>3. a + k \in Playable
        BY <3>2, <4>1, <4>2
      <4>4. PICK x \in Nat : x = c[a + k]
        BY <1>1, <4>3
      <4> QED
        BY <4>4
    <3> QED
      BY <3>1, <3>2 DEF RunOver
  <2> HIDE DEF S
  <2>3. q \in LowestFirst(c, readings) <=> (~(c[i] < 3) /\ q \in P) \/ \E a \in S : q \in C(a)
    <3> HIDE DEF P, C
    <3> QED
      BY <2>1
  <2> QED
    BY <2>2, <2>3
<1>3. c[i] \in Nat /\ (~(c[i] < 3) <=> c[i] >= 3)
  BY <1>1
<1>4. ASSUME c[i] >= 3, NEW t \in readings[Less(c, i, 3)], q = <<Meld("pung", i, TRUE)>> \o t
      PROVE  \E m, d : Splits(c, i, m, d) /\ \E u \in readings[d] : q = <<m>> \o u
  <2>1. PICK m, d : m = Meld("pung", i, TRUE) /\ d = Less(c, i, 3)
    OBVIOUS
  <2>2. TakesPung(c, i, m, d)
    BY <1>4, <2>1 DEF TakesPung
  <2>3. Splits(c, i, m, d)
    BY <1>1, <2>2, PungSplits
  <2> QED
    BY <1>4, <2>1, <2>3
<1>5. ASSUME NEW a, RunOver(c, i, a), NEW t \in readings[LessRun(c, a)], q = <<Meld("chow", a, TRUE)>> \o t
      PROVE  \E m, d : Splits(c, i, m, d) /\ \E u \in readings[d] : q = <<m>> \o u
  <2>1. PICK m, d : m = Meld("chow", a, TRUE) /\ d = LessRun(c, a)
    OBVIOUS
  <2>2. TakesChow(c, i, a, m, d)
    BY <1>5, <2>1 DEF TakesChow
  <2>3. Splits(c, i, m, d)
    BY <1>1, <2>2, ChowSplits
  <2> QED
    BY <1>5, <2>1, <2>3
<1>6. ASSUME NEW m, NEW d, Splits(c, i, m, d), NEW t \in readings[d], q = <<m>> \o t
      PROVE  \/ c[i] >= 3 /\ \E u \in readings[Less(c, i, 3)] : q = <<Meld("pung", i, TRUE)>> \o u
             \/ \E a : RunOver(c, i, a) /\ \E u \in readings[LessRun(c, a)] : q = <<Meld("chow", a, TRUE)>> \o u
  <2>1. TakesPung(c, i, m, d) \/ (i < 27 /\ \E a : TakesChow(c, i, a, m, d))
    BY <1>1, <1>6, SplitsAre
  <2> QED
    BY <1>6, <2>1, Zenon DEF TakesPung, TakesChow
<1> QED
  BY <1>2, <1>3, <1>4, <1>5, <1>6 DEF Begins

(* What the enumeration finds are sums of melds.                           *)
ReadSound(n) ==
    \A c : OnKinds(c) => \A q \in enumerateMelds[n][c] :
        q \in Seq(BoxMelds) /\ \E s \in CombosOf[n] : s.sum = c /\ s.melds = BagOf(q)

(* It finds every sum of melds.                                            *)
ReadComplete(n) ==
    \A c : OnKinds(c) => \A s \in CombosOf[n] :
        s.sum = c => \E q \in enumerateMelds[n][c] : BagOf(q) = s.melds

(* Nothing is read into an empty hand.                                     *)
LEMMA NoLowest ==
    ASSUME NEW c \in [Playable -> Nat], Total(c) = 0, NEW readings
    PROVE  LowestFirst(c, readings) = {}
<1>1. \A i \in Playable : ~(c[i] > 0)
  BY NothingLeft, NoTiles
<1>2. {i \in Playable : c[i] > 0} = {}
  BY <1>1
<1>3. nextNonZero(c) = -1 /\ -1 < 0
  BY <1>2 DEF nextNonZero
<1> QED
  BY <1>3 DEF LowestFirst

(* What is exact for the rest is exact with one meld before it.            *)
LEMMA ReadStep ==
    ASSUME NEW n \in 1..4, ReadSound(n - 1), ReadComplete(n - 1)
    PROVE  ReadSound(n) /\ ReadComplete(n)
<1>1. ASSUME NEW c, OnKinds(c), NEW q \in enumerateMelds[n][c]
      PROVE  q \in Seq(BoxMelds) /\ \E s \in CombosOf[n] : s.sum = c /\ s.melds = BagOf(q)
  <2>1. c \in [Playable -> Nat] /\ n \in 0..4 /\ n > 0
    BY <1>1 DEF OnKinds
  <2>2. q \in LowestFirst(c, enumerateMelds[n - 1])
    BY <1>1, <2>1, EnumerateSays
  <2>3. Total(c) \in Nat
    BY <2>1, PlayableFinite, TotalType
  <2>4. Total(c) > 0
    BY <2>1, <2>2, <2>3, NoLowest
  <2>5. PICK i : Lowest(c, i)
    BY <2>1, <2>4, LowestTile
  <2>6. PICK m, d : Splits(c, i, m, d) /\ \E t \in enumerateMelds[n - 1][d] : q = <<m>> \o t
    <3>1. PICK f : f = enumerateMelds[n - 1]
      OBVIOUS
    <3>2. q \in LowestFirst(c, f)
      BY <2>2, <3>1
    <3>3. Begins(c, i, f, q)
      BY <1>1, <2>5, <3>2, FirstTaken
    <3> QED
      BY <3>1, <3>3, Zenon DEF Begins
  <2>7. PICK t \in enumerateMelds[n - 1][d] : q = <<m>> \o t
    BY <2>6
  <2>8. OnKinds(d) /\ m \in BoxMelds
    BY <2>6 DEF Splits
  <2>9. t \in Seq(BoxMelds) /\ \E s \in CombosOf[n - 1] : s.sum = d /\ s.melds = BagOf(t)
    BY <2>7, <2>8 DEF ReadSound
  <2>10. PICK s \in CombosOf[n - 1] : s.sum = d /\ s.melds = BagOf(t)
    BY <2>9
  <2>11. q \in Seq(BoxMelds) /\ BagOf(q) = [s.melds EXCEPT ![m] = @ + 1]
    BY <2>7, <2>8, <2>9, <2>10, BagGrows
  <2>12. WithMeld(s, m) \in CombosOf[n] /\ WithMeld(s, m).sum = c
    BY <2>6, <2>10, SplitSums
  <2>13. WithMeld(s, m).melds = [s.melds EXCEPT ![m] = @ + 1]
    BY DEF WithMeld
  <2> QED
    BY <2>11, <2>12, <2>13
<1>2. ASSUME NEW c, OnKinds(c), NEW s \in CombosOf[n], s.sum = c
      PROVE  \E q \in enumerateMelds[n][c] : BagOf(q) = s.melds
  <2>1. c \in [Playable -> Nat] /\ n \in 0..4 /\ n > 0
    BY <1>2 DEF OnKinds
  <2>2. Total(c) = 3 * n
    <3>1. ComboTyped(n, s)
      BY <2>1, CombosTyped DEF AllTyped
    <3> QED
      BY <1>2, <3>1 DEF ComboTyped
  <2>3. Total(c) > 0
    BY <2>2
  <2>4. PICK i : Lowest(c, i)
    BY <2>1, <2>3, LowestTile
  <2>5. i \in Playable /\ s.sum[i] > 0
    BY <1>2, <2>4 DEF Lowest
  <2>6. PICK m, r : r \in CombosOf[n - 1] /\ s = WithMeld(r, m) /\ Splits(c, i, m, r.sum)
    BY <1>2, <2>5, SumSplits
  <2>7. OnKinds(r.sum) /\ m \in BoxMelds
    BY <2>6 DEF Splits
  <2>8. PICK t \in enumerateMelds[n - 1][r.sum] : BagOf(t) = r.melds
    BY <2>6, <2>7 DEF ReadComplete
  <2>9. t \in Seq(BoxMelds)
    BY <2>7, <2>8 DEF ReadSound
  <2>10. PICK q : q = <<m>> \o t
    OBVIOUS
  <2>11. BagOf(q) = [r.melds EXCEPT ![m] = @ + 1]
    BY <2>7, <2>8, <2>9, <2>10, BagGrows
  <2>12. BagOf(q) = s.melds
    BY <2>6, <2>11 DEF WithMeld
  <2>13. q \in LowestFirst(c, enumerateMelds[n - 1])
    <3>1. PICK f : f = enumerateMelds[n - 1]
      OBVIOUS
    <3>2. Begins(c, i, f, q)
      BY <2>6, <2>8, <2>10, <3>1 DEF Begins
    <3> QED
      BY <1>2, <2>4, <3>1, <3>2, FirstTaken
  <2>14. q \in enumerateMelds[n][c]
    BY <2>1, <2>13, EnumerateSays
  <2> QED
    BY <2>12, <2>14
<1> QED
  BY <1>1, <1>2 DEF ReadSound, ReadComplete

(* The empty reading is the one of no tiles.                               *)
LEMMA ReadBase == ReadSound(0) /\ ReadComplete(0)
<1>1. ASSUME NEW c, OnKinds(c)
      PROVE  enumerateMelds[0][c] = IF c = NoCounts THEN {<< >>} ELSE {}
  <2>1. c \in [Playable -> Nat] /\ 0 \in 0..4 /\ ~(0 > 0)
    BY <1>1 DEF OnKinds
  <2>2. enumerateMelds[0][c] = IF Total(c) = 0 THEN {<< >>} ELSE {}
    BY <2>1, EnumerateSays
  <2>3. Total(c) = 0 <=> c = NoCounts
    BY <2>1, NothingLeft, NoTiles
  <2> QED
    BY <2>2, <2>3
<1>2. PICK z : z = [melds |-> NoMelds, sum |-> NoCounts]
  OBVIOUS
<1>3. CombosOf[0] = {z} /\ z.melds = NoMelds /\ z.sum = NoCounts
  BY <1>2, CombosSay
<1>4. << >> \in Seq(BoxMelds)
  OBVIOUS
<1>5. ReadSound(0)
  <2> SUFFICES ASSUME NEW c, OnKinds(c), NEW q \in enumerateMelds[0][c]
               PROVE  q \in Seq(BoxMelds) /\ \E s \in CombosOf[0] : s.sum = c /\ s.melds = BagOf(q)
    BY DEF ReadSound
  <2>1. q = << >> /\ c = NoCounts
    BY <1>1
  <2> QED
    BY <1>3, <1>4, <2>1, BagOfNone
<1>6. ReadComplete(0)
  <2> SUFFICES ASSUME NEW c, OnKinds(c), NEW s \in CombosOf[0], s.sum = c
               PROVE  \E q \in enumerateMelds[0][c] : BagOf(q) = s.melds
    BY DEF ReadComplete
  <2>1. s = z /\ c = NoCounts
    BY <1>3
  <2>2. << >> \in enumerateMelds[0][c]
    BY <1>1, <2>1
  <2> QED
    BY <1>3, <2>1, <2>2, BagOfNone
<1> QED
  BY <1>5, <1>6

(* Four melds are read exactly.                                            *)
LEMMA ReadFour == ReadSound(4) /\ ReadComplete(4)
<1>1. ReadSound(1) /\ ReadComplete(1)
  <2>1. 1 \in 1..4 /\ 1 - 1 = 0
    OBVIOUS
  <2> QED
    BY <2>1, ReadBase, ReadStep
<1>2. ReadSound(2) /\ ReadComplete(2)
  <2>1. 2 \in 1..4 /\ 2 - 1 = 1
    OBVIOUS
  <2> QED
    BY <1>1, <2>1, ReadStep
<1>3. ReadSound(3) /\ ReadComplete(3)
  <2>1. 3 \in 1..4 /\ 3 - 1 = 2
    OBVIOUS
  <2> QED
    BY <1>2, <2>1, ReadStep
<1> QED
  <2>1. 4 \in 1..4 /\ 4 - 1 = 3
    OBVIOUS
  <2> QED
    BY <1>3, <2>1, ReadStep

(* A pair and the rest of a dense hand.                                    *)
LEMMA PairLeft ==
    ASSUME NEW c, OnKinds(c), NEW p \in Playable, c[p] >= 2
    PROVE  p \in Kinds /\ OnKinds(Less(c, p, 2))
<1>1. p \in Kinds /\ c \in [Playable -> Nat]
  BY DEF OnKinds
<1>2. PICK d : d = Less(c, p, 2)
  OBVIOUS
<1>3. d \in [Playable -> Nat] /\ \A j \in Playable \ {p} : d[j] = c[j]
  <2>1. 2 \in Nat
    OBVIOUS
  <2> QED
    BY <1>1, <1>2, <2>1, TilesTaken
<1>4. OnKinds(d)
  BY <1>1, <1>3 DEF OnKinds
<1> QED
  BY <1>1, <1>2, <1>4

(* The readings of such a hand are its sums of four melds and a pair.      *)
LEMMA ReadingsAreExact == ReadIInv => ReadingsExact
<1> SUFFICES ASSUME ReadIInv, Dense, drawn
             PROVE  {[pair |-> d.pair, melds |-> BagOf(d.melds)] : d \in enumerateMCRDecomps(closed, <<>>)}
                      = IF facts = <<>> THEN Readings(closed, 4) ELSE {}
  BY DEF ReadingsExact
<1>1. OnKinds(closed) /\ closed \in [Playable -> Nat]
  BY DenseHand DEF OnKinds
<1>2. PICK n \in 0..4 : n = Len(facts)
  BY DenseHand
<1>3. PICK t \in Nat : t = Total(closed)
  BY DenseHand
<1>4. t + 3 * n = 14
  <2>1. Num(drawn) = 1
    BY DEF Num
  <2>2. t + 3 * n = 13 + 1
    BY <1>2, <1>3, <2>1, DenseHand
  <2> QED
    BY <2>2
<1>5. n = 0 <=> facts = << >>
  <2>1. facts \in Seq(MeldFacts)
    BY DEF ReadIInv, HandIInv, HandTypes
  <2> HIDE DEF MeldFacts
  <2> QED
    BY <1>2, <2>1
<1>6. Len(<< >>) = 0 /\ 4 - 0 = 4 /\ ~(4 < 0) /\ 2 + 4 * 3 = 14 /\ \A q \in Seq(BoxMelds) : << >> \o q = q
  OBVIOUS
<1>7. CASE n # 0
  <2>1. Total(closed) # 14
    BY <1>3, <1>4, <1>7
  <2>2. enumerateMCRDecomps(closed, << >>) = {}
    BY <1>6, <2>1 DEF enumerateMCRDecomps
  <2> QED
    BY <1>5, <1>7, <2>2
<1>8. CASE n = 0
  <2> DEFINE R(p) == enumerateMelds[4][Less(closed, p, 2)]
             Ps == {i \in Playable : closed[i] >= 2}
             E == enumerateMCRDecomps(closed, << >>)
             V(d) == [pair |-> d.pair, melds |-> BagOf(d.melds)]
  <2>1. Total(closed) = 14
    BY <1>3, <1>4, <1>8
  <2>2. E = UNION {{[pair |-> p, melds |-> << >> \o rest] : rest \in R(p)} : p \in Ps}
    BY <1>6, <2>1 DEF enumerateMCRDecomps
  <2> HIDE DEF E, R
  <2>3. ASSUME NEW p \in Ps
        PROVE  p \in Kinds /\ OnKinds(Less(closed, p, 2))
    BY <1>1, <2>3, PairLeft
  <2>4. ASSUME NEW p \in Ps, NEW q \in R(p)
        PROVE  q \in Seq(BoxMelds) /\ \E s \in CombosOf[4] : s.sum = Less(closed, p, 2) /\ s.melds = BagOf(q)
    BY <2>3, <2>4, ReadFour DEF ReadSound, R
  <2>5. ASSUME NEW p \in Ps, NEW s \in CombosOf[4], s.sum = Less(closed, p, 2)
        PROVE  \E q \in R(p) : BagOf(q) = s.melds
    BY <2>3, <2>5, ReadFour DEF ReadComplete, R
  <2>6. PICK A : A = CombosOf[4]
    OBVIOUS
  <2>7. Combos[4] = A
    BY <2>6 DEF Combos
  <2>8. Ps = {i \in Kinds : closed[i] >= 2}
    BY <2>3, KindsAssumption
  <2>9. Readings(closed, 4) = {[pair |-> r[1], melds |-> r[2].melds] : r \in {q \in Ps \X A : q[2].sum = Less(closed, q[1], 2)}}
    BY <2>7, <2>8 DEF Readings
  <2> HIDE DEF Ps
  <2>10. ASSUME NEW d \in E
         PROVE  V(d) \in Readings(closed, 4)
    <3>0. PICK p \in Ps : \E q \in R(p) : d = [pair |-> p, melds |-> << >> \o q]
      BY <2>2, <2>10
    <3>1. PICK q \in R(p) : d = [pair |-> p, melds |-> << >> \o q]
      BY <3>0
    <3>2. q \in Seq(BoxMelds)
      BY <2>4
    <3>3. PICK s \in A : s.sum = Less(closed, p, 2) /\ s.melds = BagOf(q)
      BY <2>4, <2>6
    <3>4. d.pair = p /\ d.melds = q
      BY <1>6, <3>1, <3>2
    <3>5. V(d) = [pair |-> p, melds |-> s.melds]
      BY <3>3, <3>4
    <3>6. PICK r : r = << p, s >>
      OBVIOUS
    <3>7. r \in Ps \X A /\ r[1] = p /\ r[2] = s
      BY <3>6
    <3> QED
      BY <2>9, <3>3, <3>5, <3>7
  <2>11. ASSUME NEW v \in Readings(closed, 4)
         PROVE  \E d \in E : v = V(d)
    <3>1. PICK r \in Ps \X A : r[2].sum = Less(closed, r[1], 2) /\ v = [pair |-> r[1], melds |-> r[2].melds]
      BY <2>9
    <3>2. PICK p \in Ps, s \in A : p = r[1] /\ s = r[2]
      OBVIOUS
    <3>3. s.sum = Less(closed, p, 2) /\ v = [pair |-> p, melds |-> s.melds]
      BY <3>1, <3>2
    <3>4. PICK q \in R(p) : BagOf(q) = s.melds
      BY <2>5, <2>6, <3>3
    <3>5. PICK d : d = [pair |-> p, melds |-> << >> \o q]
      OBVIOUS
    <3>6. d \in E
      BY <2>2, <3>5
    <3>7. q \in Seq(BoxMelds)
      BY <2>4
    <3>8. d.pair = p /\ d.melds = q
      BY <1>6, <3>5, <3>7
    <3> QED
      BY <3>3, <3>4, <3>6, <3>8
  <2>12. {V(d) : d \in E} = Readings(closed, 4)
    <3> HIDE DEF V
    <3> QED
      BY <2>10, <2>11
  <2> QED
    BY <1>5, <1>8, <2>12 DEF E
<1> QED
  BY <1>7, <1>8

(* A set, each of its elements counted once.                               *)
Ones(D, H) == [k \in D |-> IF k \in H THEN 1 ELSE 0]

(* That total is the size of the set.                                      *)
LEMMA OnesCounted ==
    ASSUME NEW D, IsFiniteSet(D), NEW H \in SUBSET D
    PROVE  Total(Ones(D, H)) = Cardinality(H) /\ Ones(D, H) \in [D -> Nat]
<1>1. PICK one : one = Ones(D, H)
  OBVIOUS
<1>2. one \in [D -> Nat] /\ DOMAIN one = D /\ \A k \in D : one[k] = IF k \in H THEN 1 ELSE 0
  BY <1>1 DEF Ones
<1>3. Units(one) = H \X {1}
  <2>1. 1..1 = {1} /\ 1..0 = {}
    OBVIOUS
  <2> QED
    BY <1>2, <2>1 DEF Units
<1>4. IsFiniteSet(H) /\ IsFiniteSet({1}) /\ Cardinality({1}) = 1
  BY FS_Subset, FS_Singleton, Zenon
<1>5. Cardinality(H \X {1}) = Cardinality(H) * 1 /\ Cardinality(H) \in Nat
  BY <1>4, FS_Product, FS_CardinalityType
<1> QED
  BY <1>1, <1>2, <1>3, <1>5 DEF Total

(* No count is more than the total.                                        *)
LEMMA CountBounded ==
    ASSUME NEW c \in [Playable -> Nat], NEW i \in Playable
    PROVE  c[i] <= Total(c)
<1>1. PICK n \in Nat : n = c[i]
  OBVIOUS
<1>2. PICK z, e, d : z = NoCounts /\ e = [z EXCEPT ![i] = n] /\ d = [c EXCEPT ![i] = 0]
  OBVIOUS
<1>3. z \in [Playable -> Nat] /\ z[i] = 0 /\ Total(z) = 0 /\ \A j \in Playable : z[j] = 0
  BY <1>2, NoTiles
<1>4. Put(z, e, i, n)
  BY <1>2, <1>3, CountPut
<1>5. e \in [Playable -> Nat] /\ Total(e) = n /\ e[i] = n /\ \A j \in Playable \ {i} : e[j] = 0
  BY <1>3, <1>4 DEF Put
<1>6. d \in [Playable -> Nat] /\ \A j \in Playable : c[j] = e[j] + d[j]
  BY <1>1, <1>2, <1>5
<1>7. Total(c) = Total(e) + Total(d)
  BY <1>5, <1>6, PlayablePlus
<1>8. Total(d) \in Nat
  BY <1>6, PlayableFinite, TotalType
<1> QED
  BY <1>1, <1>5, <1>7, <1>8

(* Seven honors and six terminals.                                         *)
LEMMA ThirteenKinds ==
    /\ Orphans = {i \in Playable : ~Suited(i) \/ rankOfIndex(i) \in {1, 9}}
    /\ Orphans \subseteq Playable /\ Cardinality(Orphans) = 13
    /\ Honors = 27..33 /\ Cardinality(Honors) = 7
<1>1. Honors = 27..33
  BY DEF Honors, Winds, Dragons
<1>2. \A i \in 0..26 : i % 9 \in {0, 8} <=> i \in {0, 8, 9, 17, 18, 26}
  OBVIOUS
<1>3. Orphans = {i \in Playable : ~Suited(i) \/ rankOfIndex(i) \in {1, 9}}
  <2>1. \A i \in 0..26 : rankOfIndex(i) \in {1, 9} <=> i \in {0, 8, 9, 17, 18, 26}
    <3>1. \A i \in 0..26 : rankOfIndex(i) \in {1, 9} <=> i % 9 \in {0, 8}
      BY DEF rankOfIndex
    <3> QED
      BY <1>2, <3>1
  <2>2. \A i \in 27..33 : ~Suited(i) /\ i \notin {0, 8, 9, 17, 18, 26}
    BY DEF Suited, SuitedTileCount
  <2>3. \A i \in 0..26 : Suited(i) /\ i \notin 27..33
    BY DEF Suited, SuitedTileCount
  <2>4. \A i : i \in Playable <=> i \in 0..26 \/ i \in 27..33
    BY DEF Playable, PlayableTileCount
  <2>5. {0, 8, 9, 17, 18, 26} \subseteq 0..26
    OBVIOUS
  <2> QED
    BY <1>1, <2>1, <2>2, <2>3, <2>4, <2>5 DEF Orphans
<1>4. IsFiniteSet(27..33) /\ Cardinality(27..33) = 7
  <2>1. 27 \in Int /\ 33 \in Int
    OBVIOUS
  <2>2. IsFiniteSet(27..33) /\ Cardinality(27..33) = IF 27 > 33 THEN 0 ELSE 33 - 27 + 1
    BY <2>1, FS_Interval, Zenon
  <2> QED
    BY <2>2
<1>5. IsFiniteSet({0, 8, 9, 17, 18, 26}) /\ Cardinality({0, 8, 9, 17, 18, 26}) = 6
  <2>1. PICK A, B, C, D, E : A = {0} /\ B = A \cup {8} /\ C = B \cup {9} /\ D = C \cup {17} /\ E = D \cup {18}
    OBVIOUS
  <2>2. 8 \notin A /\ 9 \notin B /\ 17 \notin C /\ 18 \notin D /\ 26 \notin E
    BY <2>1
  <2>3. E \cup {26} = {0, 8, 9, 17, 18, 26}
    BY <2>1
  <2>4. IsFiniteSet(A) /\ Cardinality(A) = 1
    BY <2>1, FS_Singleton, Zenon
  <2>5. IsFiniteSet(B) /\ Cardinality(B) = Cardinality(A) + 1
    BY <2>1, <2>2, <2>4, FS_AddElement, Zenon
  <2>6. IsFiniteSet(C) /\ Cardinality(C) = Cardinality(B) + 1
    BY <2>1, <2>2, <2>5, FS_AddElement, Zenon
  <2>7. IsFiniteSet(D) /\ Cardinality(D) = Cardinality(C) + 1
    BY <2>1, <2>2, <2>6, FS_AddElement, Zenon
  <2>8. IsFiniteSet(E) /\ Cardinality(E) = Cardinality(D) + 1
    BY <2>1, <2>2, <2>7, FS_AddElement, ZenonT(60)
  <2>9. IsFiniteSet(E \cup {26}) /\ Cardinality(E \cup {26}) = Cardinality(E) + 1
    BY <2>2, <2>8, FS_AddElement, Zenon
  <2> QED
    BY <2>3, <2>4, <2>5, <2>6, <2>7, <2>8, <2>9
<1>6. Cardinality(Orphans) = 13
  <2>1. PICK X, Y : X = {0, 8, 9, 17, 18, 26} /\ Y = 27..33
    OBVIOUS
  <2>2. X \cap Y = {} /\ Orphans = X \cup Y
    BY <1>1, <2>1 DEF Orphans
  <2>3. IsFiniteSet(X) /\ IsFiniteSet(Y) /\ Cardinality(X) = 6 /\ Cardinality(Y) = 7
    BY <1>4, <1>5, <2>1
  <2>4. Cardinality(X \cup Y) = Cardinality(X) + Cardinality(Y) - Cardinality(X \cap Y)
    BY <2>3, FS_Union, Zenon
  <2>5. Cardinality(X \cap Y) = 0
    BY <2>2, FS_EmptySet
  <2> QED
    BY <2>2, <2>3, <2>4, <2>5
<1> QED
  BY <1>1, <1>3, <1>4, <1>6

(* Of fourteen tiles that are the thirteen orphans one is there twice.     *)
LEMMA OrphansExact ==
    ASSUME NEW c \in [Playable -> Nat], Total(c) = 14
    PROVE  thirteenOrphans(c)
             <=> /\ Held(c) = {i \in Playable : ~Suited(i) \/ rankOfIndex(i) \in {1, 9}}
                 /\ \E i \in Playable : c[i] = 2
<1>1. PICK O : O = Orphans
  OBVIOUS
<1>2. O = {i \in Playable : ~Suited(i) \/ rankOfIndex(i) \in {1, 9}} /\ O \subseteq Playable /\ Cardinality(O) = 13
  BY <1>1, ThirteenKinds
<1>3. thirteenOrphans(c) <=> Held(c) = O /\ \E i \in O : c[i] >= 2
  BY <1>1 DEF thirteenOrphans
<1>4. ASSUME Held(c) = O, NEW i \in O, c[i] >= 2
      PROVE  c[i] = 2
  <2>1. PICK e, d : e = Ones(Playable, O) /\ d = [j \in Playable |-> c[j] - e[j]]
    OBVIOUS
  <2>2. Total(e) = 13 /\ e \in [Playable -> Nat]
    BY <1>2, <2>1, PlayableFinite, OnesCounted
  <2>3. \A j \in Playable : e[j] = IF j \in O THEN 1 ELSE 0
    BY <2>1 DEF Ones
  <2>4. \A j \in O : c[j] > 0
    BY <1>4 DEF Held
  <2>5. d \in [Playable -> Nat] /\ \A j \in Playable : c[j] = e[j] + d[j]
    BY <2>1, <2>3, <2>4
  <2>6. Total(c) = Total(e) + Total(d)
    BY <2>2, <2>5, PlayablePlus
  <2>7. Total(d) \in Nat
    BY <2>5, PlayableFinite, TotalType
  <2>8. Total(d) = 1
    BY <2>2, <2>6, <2>7
  <2>9. i \in Playable /\ d[i] <= Total(d)
    BY <1>2, <2>5, CountBounded
  <2>10. c[i] = 1 + d[i] /\ d[i] \in Nat
    BY <2>3, <2>5, <2>9
  <2> QED
    BY <1>4, <2>8, <2>9, <2>10
<1>5. ASSUME Held(c) = O, NEW i \in Playable, c[i] = 2
      PROVE  i \in O /\ c[i] >= 2
  BY <1>5 DEF Held
<1> QED
  BY <1>2, <1>3, <1>4, <1>5

(* One residue of each suit.                                               *)
Knit(x, y, z) ==
    {i \in 0..26 : (i % 9) % 3 = IF i \div 9 = 0 THEN x ELSE IF i \div 9 = 1 THEN y ELSE z}

(* The six patterns of the code, each the residues of an order of the      *)
(* suits.                                                                  *)
LEMMA SixPatterns ==
    /\ Knit(0, 1, 2) = {0, 3, 6, 10, 13, 16, 20, 23, 26}
    /\ Knit(0, 2, 1) = {0, 3, 6, 11, 14, 17, 19, 22, 25}
    /\ Knit(1, 0, 2) = {1, 4, 7, 9, 12, 15, 20, 23, 26}
    /\ Knit(1, 2, 0) = {1, 4, 7, 11, 14, 17, 18, 21, 24}
    /\ Knit(2, 0, 1) = {2, 5, 8, 9, 12, 15, 19, 22, 25}
    /\ Knit(2, 1, 0) = {2, 5, 8, 10, 13, 16, 18, 21, 24}
<1>1. \A i \in 0..26 : /\ (i % 9) % 3 = 0 <=> i \in {0, 3, 6, 9, 12, 15, 18, 21, 24}
                       /\ (i % 9) % 3 = 1 <=> i \in {1, 4, 7, 10, 13, 16, 19, 22, 25}
                       /\ (i % 9) % 3 = 2 <=> i \in {2, 5, 8, 11, 14, 17, 20, 23, 26}
  OBVIOUS
<1>2. \A i \in 0..26 : (i \div 9 = 0 <=> i < 9) /\ (i \div 9 = 1 <=> 9 <= i /\ i < 18)
  OBVIOUS
<1>3. \A x, y, z \in 0..2 : \A i :
        i \in Knit(x, y, z) <=> i \in 0..26 /\ (i % 9) % 3 = IF i < 9 THEN x ELSE IF i < 18 THEN y ELSE z
  BY <1>2 DEF Knit
<1>4. Knit(0, 1, 2) = {0, 3, 6, 10, 13, 16, 20, 23, 26}
  BY <1>1, <1>3
<1>5. Knit(0, 2, 1) = {0, 3, 6, 11, 14, 17, 19, 22, 25}
  BY <1>1, <1>3
<1>6. Knit(1, 0, 2) = {1, 4, 7, 9, 12, 15, 20, 23, 26}
  BY <1>1, <1>3
<1>7. Knit(1, 2, 0) = {1, 4, 7, 11, 14, 17, 18, 21, 24}
  BY <1>1, <1>3
<1>8. Knit(2, 0, 1) = {2, 5, 8, 9, 12, 15, 19, 22, 25}
  BY <1>1, <1>3
<1>9. Knit(2, 1, 0) = {2, 5, 8, 10, 13, 16, 18, 21, 24}
  BY <1>1, <1>3
<1> QED
  BY <1>4, <1>5, <1>6, <1>7, <1>8, <1>9

(* The patterns listed in the code are the knitted sets.                   *)
LEMMA PatternsAre == knittedPatterns = KnittedSets
<1> DEFINE Q == {q \in [SuitedSuits -> 0..2] : \A a, b \in SuitedSuits : q[a] = q[b] => a = b}
           K(r) == {i \in 0..26 : (i % 9) % 3 = r[i \div 9]}
<1>1. KnittedSets = {K(r) : r \in Q}
  BY DEF KnittedSets
<1>2. knittedPatterns = {Knit(0, 1, 2), Knit(0, 2, 1), Knit(1, 0, 2), Knit(1, 2, 0), Knit(2, 0, 1), Knit(2, 1, 0)}
  BY SixPatterns DEF knittedPatterns
<1>3. ASSUME NEW r, r \in [SuitedSuits -> 0..2]
      PROVE  K(r) = Knit(r[0], r[1], r[2])
  <2>1. \A i \in 0..26 : i \div 9 \in {0, 1, 2}
    OBVIOUS
  <2>2. \A i \in 0..26 : r[i \div 9] = IF i \div 9 = 0 THEN r[0] ELSE IF i \div 9 = 1 THEN r[1] ELSE r[2]
    BY <2>1
  <2> QED
    BY <2>2 DEF Knit
<1> HIDE DEF K
<1>4. SuitedSuits = {0, 1, 2}
  BY DEF SuitedSuits
<1>5. ASSUME NEW r \in Q
      PROVE  K(r) \in knittedPatterns
  <2>1. PICK x, y, z \in 0..2 : x = r[0] /\ y = r[1] /\ z = r[2]
    BY <1>4
  <2>2. x # y /\ y # z /\ x # z
    BY <1>4, <2>1
  <2>3. K(r) = Knit(x, y, z)
    BY <1>3, <2>1
  <2>4. \/ x = 0 /\ y = 1 /\ z = 2
        \/ x = 0 /\ y = 2 /\ z = 1
        \/ x = 1 /\ y = 0 /\ z = 2
        \/ x = 1 /\ y = 2 /\ z = 0
        \/ x = 2 /\ y = 0 /\ z = 1
        \/ x = 2 /\ y = 1 /\ z = 0
    BY <2>2
  <2> QED
    BY <1>2, <2>3, <2>4
<1>6. ASSUME NEW x \in 0..2, NEW y \in 0..2, NEW z \in 0..2, x # y, y # z, x # z
      PROVE  Knit(x, y, z) \in KnittedSets
  <2>1. PICK r : r = [s \in SuitedSuits |-> IF s = 0 THEN x ELSE IF s = 1 THEN y ELSE z]
    OBVIOUS
  <2>2. r \in [SuitedSuits -> 0..2] /\ r[0] = x /\ r[1] = y /\ r[2] = z
    BY <1>4, <2>1
  <2>3. r \in Q
    BY <1>4, <1>6, <2>2
  <2>4. K(r) = Knit(x, y, z)
    BY <1>3, <2>2
  <2> QED
    BY <1>1, <2>3, <2>4
<1>7. /\ Knit(0, 1, 2) \in KnittedSets /\ Knit(0, 2, 1) \in KnittedSets /\ Knit(1, 0, 2) \in KnittedSets
      /\ Knit(1, 2, 0) \in KnittedSets /\ Knit(2, 0, 1) \in KnittedSets /\ Knit(2, 1, 0) \in KnittedSets
  BY <1>6
<1> HIDE DEF Q
<1>8. KnittedSets \subseteq knittedPatterns
  BY <1>1, <1>5
<1>9. knittedPatterns \subseteq KnittedSets
  BY <1>2, <1>7
<1> QED
  BY <1>8, <1>9

(* A bounded set of numbers has a greatest one.                            *)
LEMMA SomeGreatest ==
    ASSUME NEW S \in SUBSET Nat, S # {}, NEW b \in Nat, \A x \in S : x <= b
    PROVE  Max(S) \in S /\ \A y \in S : y <= Max(S)
<1>1. PICK T : T = {b - x : x \in S}
  OBVIOUS
<1>2. T \in SUBSET Nat /\ T # {}
  <2>1. \A x \in S : b - x \in Nat
    OBVIOUS
  <2>2. \A t \in T : t \in Nat
    BY <1>1, <2>1
  <2>3. PICK x : x \in S
    OBVIOUS
  <2>4. b - x \in T
    BY <1>1, <2>3
  <2> QED
    BY <2>2, <2>4
<1>3. PICK k \in T : \A j \in T : k <= j
  BY <1>2, SomeFirst
<1>4. PICK x \in S : k = b - x
  BY <1>1, <1>3
<1>5. ASSUME NEW y \in S
      PROVE  x >= y
  <2>1. b - x <= b - y
    BY <1>1, <1>3, <1>4
  <2>2. x \in Nat /\ y \in Nat
    OBVIOUS
  <2> QED
    BY <2>1, <2>2
<1>6. PICK m : m = CHOOSE u \in S : \A v \in S : u >= v
  OBVIOUS
<1>7. m \in S /\ \A v \in S : m >= v
  BY <1>5, <1>6
<1>8. Max(S) = m
  BY <1>6 DEF Max
<1>9. \A v \in S : v <= m
  BY <1>7
<1> QED
  BY <1>7, <1>8, <1>9

(* How much of a hand is honors and how much of it is in a pattern.        *)
LEMMA HonorsAndPattern ==
    ASSUME NEW H \in SUBSET Playable, Cardinality(H) = 14, NEW p \in knittedPatterns
    PROVE  /\ Cardinality(p \cap H) \in Nat /\ Cardinality(H \cap Honors) \in Nat
           /\ Cardinality(p \cap H) + Cardinality(H \cap Honors) <= 14
           /\ Cardinality(p \cap H) + Cardinality(H \cap Honors) = 14 <=> H \subseteq Honors \cup p
           /\ Cardinality(H \cap Honors) <= 7
           /\ Cardinality(H \cap Honors) = 7 <=> Honors \subseteq H
<1>1. IsFiniteSet(Playable)
  BY PlayableFinite
<1>2. PICK A, B : A = p \cap H /\ B = H \cap Honors
  OBVIOUS
<1>3. IsFiniteSet(H) /\ A \subseteq H /\ B \subseteq H
  BY <1>1, <1>2, FS_Subset, Zenon
<1>4. IsFiniteSet(A) /\ IsFiniteSet(B) /\ Cardinality(A) \in Nat /\ Cardinality(B) \in Nat
  BY <1>3, FS_Subset, FS_CardinalityType, Zenon
<1>5. A \cap B = {}
  <2>1. p \subseteq 0..26
    BY DEF knittedPatterns
  <2>2. Honors \cap (0..26) = {}
    BY ThirteenKinds
  <2> QED
    BY <1>2, <2>1, <2>2
<1>6. PICK U : U = A \cup B
  OBVIOUS
<1>7. Cardinality(U) = Cardinality(A) + Cardinality(B) /\ IsFiniteSet(U)
  <2>1. IsFiniteSet(U) /\ Cardinality(U) = Cardinality(A) + Cardinality(B) - Cardinality(A \cap B)
    BY <1>4, <1>6, FS_Union, Zenon
  <2>2. Cardinality(A \cap B) = 0
    BY <1>5, FS_EmptySet
  <2> QED
    BY <1>4, <2>1, <2>2
<1>8. U \subseteq H
  BY <1>3, <1>6
<1>9. Cardinality(U) <= Cardinality(H) /\ (Cardinality(U) = Cardinality(H) => U = H)
  BY <1>3, <1>8, FS_Subset
<1>10. U = H <=> H \subseteq Honors \cup p
  BY <1>2, <1>6
<1>11. IsFiniteSet(Honors) /\ Cardinality(Honors) = 7 /\ B \subseteq Honors
  <2>1. 27 \in Int /\ 33 \in Int
    OBVIOUS
  <2> QED
    BY <1>2, <2>1, ThirteenKinds, FS_Interval, Zenon
<1>12. Cardinality(B) <= 7 /\ (Cardinality(B) = 7 => B = Honors)
  BY <1>11, FS_Subset
<1>13. B = Honors <=> Honors \subseteq H
  BY <1>2
<1> QED
  BY <1>2, <1>4, <1>7, <1>9, <1>10, <1>11, <1>12, <1>13

(* Fourteen single tiles are a win exactly when they fit a knitted set.    *)
LEMMA KnittedExact ==
    ASSUME NEW c \in [Playable -> Nat], Total(c) = 14
    PROVE  greaterHonorsAndKnitted(c) \/ lesserHonorsAndKnitted(c)
             <=> /\ \A i \in Playable : c[i] <= 1
                 /\ \E k \in KnittedSets : Held(c) \subseteq Honors \cup k
<1>1. greaterHonorsAndKnitted(c) \/ lesserHonorsAndKnitted(c) => noPairsOrTriples(c)
  BY DEF greaterHonorsAndKnitted, lesserHonorsAndKnitted
<1>2. noPairsOrTriples(c) <=> \A i \in Playable : c[i] <= 1
  BY DEF noPairsOrTriples
<1>3. ASSUME noPairsOrTriples(c)
      PROVE  greaterHonorsAndKnitted(c) \/ lesserHonorsAndKnitted(c)
               <=> \E k \in knittedPatterns : Held(c) \subseteq Honors \cup k
  <2>1. PICK H : H = Held(c)
    OBVIOUS
  <2>2. H \in SUBSET Playable /\ Cardinality(H) = 14
    <3>1. H \in SUBSET Playable /\ \A i \in Playable : i \in H <=> c[i] > 0
      BY <2>1 DEF Held
    <3>2. \A i \in Playable : c[i] = IF i \in H THEN 1 ELSE 0
      BY <1>2, <1>3, <3>1
    <3>3. c = Ones(Playable, H)
      BY <3>2 DEF Ones
    <3> QED
      BY <3>1, <3>3, PlayableFinite, OnesCounted
  <2>3. PICK h : h = Cardinality(H \cap Honors)
    OBVIOUS
  <2>4. PICK S : S = {Cardinality(p \cap H) : p \in knittedPatterns}
    OBVIOUS
  <2>5. \A p \in knittedPatterns :
            /\ Cardinality(p \cap H) \in Nat /\ h \in Nat /\ Cardinality(p \cap H) + h <= 14
            /\ Cardinality(p \cap H) + h = 14 <=> H \subseteq Honors \cup p
    BY <2>2, <2>3, HonorsAndPattern
  <2>6. knittedPatterns # {}
    BY DEF knittedPatterns
  <2>7. h \in 0..7 /\ (h = 7 <=> Honors \subseteq H)
    <3>1. PICK p : p \in knittedPatterns
      BY <2>6
    <3>2. h \in Nat /\ h <= 7 /\ (h = 7 <=> Honors \subseteq H)
      BY <2>2, <2>3, <3>1, HonorsAndPattern
    <3> QED
      BY <3>2
  <2>8. PICK m : m = Max(S)
    OBVIOUS
  <2>9. m \in S /\ \A y \in S : y <= m
    <3>1. ASSUME NEW x \in S
          PROVE  x \in Nat /\ x <= 14
      <4>1. PICK p \in knittedPatterns : x = Cardinality(p \cap H)
        BY <2>4
      <4>2. x \in Nat /\ h \in Nat /\ x + h <= 14
        BY <2>5, <4>1
      <4> QED
        BY <4>2
    <3>2. S # {}
      <4>1. PICK p : p \in knittedPatterns
        BY <2>6
      <4> QED
        BY <2>4, <4>1
    <3>3. S \in SUBSET Nat /\ 14 \in Nat /\ \A x \in S : x <= 14
      BY <3>1
    <3> QED
      BY <2>8, <3>2, <3>3, SomeGreatest
  <2>10. m \in Nat /\ m + h <= 14
    BY <2>4, <2>5, <2>9
  <2>11. m + h = 14 <=> \E p \in knittedPatterns : H \subseteq Honors \cup p
    <3>1. ASSUME m + h = 14
          PROVE  \E p \in knittedPatterns : H \subseteq Honors \cup p
      <4>1. PICK p \in knittedPatterns : m = Cardinality(p \cap H)
        BY <2>4, <2>9
      <4> QED
        BY <2>5, <3>1, <4>1
    <3>2. ASSUME NEW p \in knittedPatterns, H \subseteq Honors \cup p
          PROVE  m + h = 14
      <4>1. PICK x : x = Cardinality(p \cap H)
        OBVIOUS
      <4>2. x \in Nat /\ h \in Nat /\ x + h = 14
        BY <2>5, <3>2, <4>1
      <4>3. x \in S
        BY <2>4, <4>1
      <4>4. x <= m
        BY <2>9, <4>3
      <4> QED
        BY <2>10, <4>2, <4>4
    <3> QED
      BY <3>1, <3>2
  <2>12. knittedPatternCount(c) = m
    BY <2>1, <2>4, <2>8 DEF knittedPatternCount
  <2>13. greaterHonorsAndKnitted(c) <=> h = 7 /\ m >= 7
    BY <1>3, <2>1, <2>7, <2>12 DEF greaterHonorsAndKnitted
  <2>14. lesserHonorsAndKnitted(c) <=> m + h = 14 /\ ~(h = 7 /\ m >= 7)
    BY <1>3, <2>1, <2>3, <2>12, <2>13 DEF lesserHonorsAndKnitted
  <2>15. h = 7 /\ m >= 7 => m + h = 14
    BY <2>10
  <2> QED
    BY <2>1, <2>11, <2>13, <2>14, <2>15
<1> QED
  BY <1>1, <1>2, <1>3, PatternsAre

(* Such a hand is a special win exactly when its tiles are one.            *)
LEMMA SpecialsAreExact == ReadIInv => SpecialHandsExact
<1> SUFFICES ASSUME ReadIInv, drawn, facts = << >>
             PROVE  isMCRLegalWin(closed, 0)
                      <=> \/ IsWinning(closed)
                          \/ /\ \A i \in Playable : closed[i] <= 1
                             /\ \E k \in KnittedSets : Held(closed) \subseteq Honors \cup k
                          \/ /\ Held(closed) = {i \in Playable : ~Suited(i) \/ rankOfIndex(i) \in {1, 9}}
                             /\ \E i \in Playable : closed[i] = 2
  BY DEF SpecialHandsExact
<1>1. HandIInv /\ closed \in [Playable -> Nat]
  BY DEF ReadIInv, HandIInv, HandTypes
<1>2. Total(closed) = 14
  <2>1. Num(drawn) = 1 /\ Len(facts) = 0
    BY DEF Num
  <2>2. PICK t \in Nat : t = Total(closed)
    BY <1>1, HandLeft
  <2>3. t + 3 * 0 = 13 + 1
    BY <1>1, <2>1, <2>2, HandLeft
  <2> QED
    BY <2>2, <2>3
<1>3. isMCRLegalWin(closed, 0) <=> \/ IsWinning(closed)
                                   \/ thirteenOrphans(closed)
                                   \/ greaterHonorsAndKnitted(closed) \/ lesserHonorsAndKnitted(closed)
  BY DEF isMCRLegalWin, IsWinningWithOpenMelds
<1> QED
  BY <1>1, <1>2, <1>3, OrphansExact, KnittedExact

(* hu.go, mcr_utils.go, rule.go: for every box, every first hand and       *)
(* however the hand was played, the searches find a win exactly when there *)
(* is one, every reading of it and no other, and the special hands.        *)
THEOREM HandsAlwaysRead == HandSpec => []HandsRead
<1>1. ReadIInv => HandsRead
  BY DecomposerIsExact, ReadingsAreExact, SpecialsAreExact DEF HandsRead
<1> QED
  BY <1>1, ReadStarts, ReadKeeps, PTL DEF HandSpec

-----------------------------------------------------------------------------
(* Fans that exclude one another.                                          *)

(* A fan is excluded only by one worth at least as much.                   *)
LEMMA DearerExclude ==
    ASSUME NEW g \in DOMAIN Excluded, NEW f \in Excluded[g]
    PROVE  g \in FanIds /\ f \in FanIds /\ Points[g] >= Points[f]
BY DEF Excluded, FanIds, Points

(* Excluding fans that are themselves excluded: what they exclude the      *)
(* other excludes too, and nothing excludes the other, but for the chain   *)
(* from full_flush to half_flush.                                          *)
LEMMA ExclusionsReach ==
    ASSUME NEW h \in DOMAIN Excluded, NEW g \in DOMAIN Excluded, g \in Excluded[h],
           ~(h = "full_flush" /\ g = "half_flush")
    PROVE  /\ \A f \in Excluded[g] : f \in Excluded[h] \/ (g = "full_flush" /\ f = "half_flush")
           /\ \A e \in DOMAIN Excluded : h \notin Excluded[e]
BY DEF Excluded

(* Both flushes are fans.                                                  *)
LEMMA FlushFans == "full_flush" \in FanIds /\ "half_flush" \in FanIds
BY DEF FanIds, Points

(* And fans that are there once or not.                                    *)
LEMMA FlushesShown ==
    ASSUME NEW x
    PROVE  /\ "full_flush" \in DOMAIN shownFans(x) /\ shownFans(x)["full_flush"] = fullFlushCounts(x.win)
           /\ "half_flush" \in DOMAIN shownFans(x) /\ shownFans(x)["half_flush"] = halfFlushCounts(x.win)
BY SMTT(30) DEF shownFans

(* A hand is not flush with honors and without.                            *)
LEMMA FlushesDiffer ==
    ASSUME NEW x, detectMCRFans(x)["full_flush"] > 0, detectMCRFans(x)["half_flush"] > 0
    PROVE  FALSE
<1>1. detectMCRFans(x)["full_flush"] = Num(fullFlushCounts(x.win))
  BY FlushFans, FlushesShown, SMTT(30) DEF detectMCRFans
<1>2. detectMCRFans(x)["half_flush"] = Num(halfFlushCounts(x.win))
  BY FlushFans, FlushesShown, SMTT(30) DEF detectMCRFans
<1>3. fullFlushCounts(x.win) /\ halfFlushCounts(x.win)
  BY <1>1, <1>2 DEF Num
<1> QED
  BY <1>3 DEF fullFlushCounts, halfFlushCounts

(* What suppression leaves out some fan that stays has paid for.           *)
LEMMA ExclusionsPaid ==
    ASSUME NEW x, NEW all, all = detectMCRFans(x), NEW kept, kept = suppressMCRFans(all),
           NEW f \in FanIds, all[f] > 0, kept[f] = 0
    PROVE  \E g \in DOMAIN Excluded : kept[g] > 0 /\ f \in Excluded[g] /\ Points[g] >= Points[f]
<1> DEFINE out == UNION {Excluded[e] : e \in {g \in DOMAIN Excluded : all[g] > 0}}
<1>1. \A e \in FanIds : kept[e] = IF e \in out THEN 0 ELSE all[e]
  BY DEF suppressMCRFans
<1>2. f \in out
  BY <1>1
<1>3. PICK g \in DOMAIN Excluded : all[g] > 0 /\ f \in Excluded[g]
  BY <1>2
<1>4. CASE g \notin out
  <2>1. g \in FanIds /\ Points[g] >= Points[f]
    BY <1>3, DearerExclude
  <2>2. kept[g] > 0
    BY <1>1, <1>3, <1>4, <2>1
  <2> QED
    BY <1>3, <2>1, <2>2
<1>5. CASE g \in out
  <2>1. PICK h \in DOMAIN Excluded : all[h] > 0 /\ g \in Excluded[h]
    BY <1>5
  <2>2. ~(all["full_flush"] > 0 /\ all["half_flush"] > 0)
    BY FlushesDiffer
  <2>3. ~(h = "full_flush" /\ g = "half_flush") /\ ~(g = "full_flush" /\ f = "half_flush")
    BY <1>3, <2>1, <2>2
  <2>4. f \in Excluded[h] /\ \A e \in DOMAIN Excluded : h \notin Excluded[e]
    BY <1>3, <2>1, <2>3, ExclusionsReach
  <2>5. h \in FanIds /\ Points[h] >= Points[f]
    BY <2>1, <2>4, DearerExclude
  <2>6. h \notin out
    BY <2>4
  <2>7. kept[h] > 0
    BY <1>1, <2>1, <2>5, <2>6
  <2> QED
    BY <2>1, <2>4, <2>5, <2>7
<1> QED
  BY <1>4, <1>5

(* mcr_scoring.go: whatever fans a win shows, one is left out only for a   *)
(* counted fan that excludes it and is worth at least as much, although    *)
(* fans that are left out themselves still exclude.                        *)
THEOREM SuppressedFansPaid == HandSpec => []SuppressionAccounted
<1>1. SuppressionAccounted
  <2> SUFFICES ASSUME drawn, isMCRLegalWin(closed, Len(Melds)), NEW t \in LastTiles,
                      NEW all \in {detectMCRFans(Scored(closed, Melds, t))},
                      NEW kept \in {suppressMCRFans(all)}, NEW f \in FanIds,
                      all[f] > 0, kept[f] = 0
               PROVE  \E g \in DOMAIN Excluded : kept[g] > 0 /\ f \in Excluded[g] /\ Points[g] >= Points[f]
    BY Zenon DEF SuppressionAccounted
  <2>1. PICK x : x = Scored(closed, Melds, t)
    OBVIOUS
  <2>2. all = detectMCRFans(x) /\ kept = suppressMCRFans(all)
    BY <2>1
  <2> QED
    BY <2>2, ExclusionsPaid
<1> QED
  BY <1>1, PTL

-----------------------------------------------------------------------------
(* The advised discard.                                                    *)

(* The options betterDiscard compares.                                     *)
Options == [tile : 0..255, shanten : Int, kinds : Nat, left : Nat, safety : Int, que : BOOLEAN]

(* Its criteria, one after the other.                                      *)
Precedes(a, b) ==
    \/ a.que /\ ~b.que
    \/ a.que = b.que /\ a.shanten < b.shanten
    \/ /\ a.que = b.que /\ a.shanten = b.shanten
       /\ \/ a.kinds > b.kinds
          \/ a.kinds = b.kinds /\ a.left > b.left
          \/ a.kinds = b.kinds /\ a.left = b.left /\ a.safety > b.safety
          \/ /\ a.kinds = b.kinds /\ a.left = b.left /\ a.safety = b.safety
             /\ \/ Suit(a.tile) < Suit(b.tile)
                \/ Suit(a.tile) = Suit(b.tile) /\ Rank(a.tile) < Rank(b.tile)

(* A first difference of two keys of five decides.                         *)
LEMMA FirstDifference ==
    ASSUME NEW x \in [1..5 -> Int], NEW y \in [1..5 -> Int], NEW D, D = {k \in 1..5 : x[k] # y[k]}
    PROVE  D # {} /\ x[Min(D)] < y[Min(D)]
             <=> \/ x[1] < y[1]
                 \/ x[1] = y[1] /\ x[2] < y[2]
                 \/ x[1] = y[1] /\ x[2] = y[2] /\ x[3] < y[3]
                 \/ x[1] = y[1] /\ x[2] = y[2] /\ x[3] = y[3] /\ x[4] < y[4]
                 \/ x[1] = y[1] /\ x[2] = y[2] /\ x[3] = y[3] /\ x[4] = y[4] /\ x[5] < y[5]
<1>1. CASE D = {}
  <2>1. \A k \in 1..5 : x[k] = y[k]
    BY <1>1
  <2>2. x[1] = y[1] /\ x[2] = y[2] /\ x[3] = y[3] /\ x[4] = y[4] /\ x[5] = y[5]
    BY <2>1
  <2> QED
    BY <1>1, <2>2
<1>2. CASE D # {}
  <2>1. PICK m : m = CHOOSE k \in D : \A j \in D : k <= j
    OBVIOUS
  <2>2. Min(D) = m
    BY <2>1 DEF Min
  <2>3. D \in SUBSET Nat
    OBVIOUS
  <2>4. \E k \in D : \A j \in D : k <= j
    BY <1>2, <2>3, SomeFirst
  <2>5. m \in D /\ \A j \in D : m <= j
    BY <2>1, <2>4
  <2>6. m \in 1..5 /\ x[m] # y[m]
    BY <2>5
  <2>7. \A j \in 1..5 : j < m => x[j] = y[j]
    <3> SUFFICES ASSUME NEW j \in 1..5, j < m, x[j] # y[j] PROVE FALSE
      OBVIOUS
    <3>1. m <= j
      BY <2>5
    <3> QED
      BY <2>6, <3>1
  <2>8. x[1] \in Int /\ x[2] \in Int /\ x[3] \in Int /\ x[4] \in Int /\ x[5] \in Int
    OBVIOUS
  <2>9. y[1] \in Int /\ y[2] \in Int /\ y[3] \in Int /\ y[4] \in Int /\ y[5] \in Int
    OBVIOUS
  <2>10. CASE m = 1
    BY <1>2, <2>2, <2>6, <2>8, <2>9, <2>10
  <2>11. CASE m = 2
    BY <1>2, <2>2, <2>6, <2>7, <2>8, <2>9, <2>11
  <2>12. CASE m = 3
    BY <1>2, <2>2, <2>6, <2>7, <2>8, <2>9, <2>12
  <2>13. CASE m = 4
    BY <1>2, <2>2, <2>6, <2>7, <2>8, <2>9, <2>13
  <2>14. CASE m = 5
    BY <1>2, <2>2, <2>6, <2>7, <2>8, <2>9, <2>14
  <2> QED
    BY <2>6, <2>10, <2>11, <2>12, <2>13, <2>14
<1> QED
  BY <1>1, <1>2

(* The suit and the rank of a tile are numbers and tell tiles apart.       *)
LEMMA TilesTold ==
    /\ \A t \in 0..255 : Suit(t) \in Int /\ Rank(t) \in Int
    /\ \A t, u \in 0..255 : Suit(t) = Suit(u) /\ Rank(t) = Rank(u) => t = u
BY DEF Suit, Rank

(* betterDiscard applies these criteria in this order.                     *)
LEMMA DiscardsCompared ==
    ASSUME NEW a \in Options, NEW b \in Options
    PROVE  betterDiscard(a, b) <=> Precedes(a, b)
<1> DEFINE key(o) == << -o.kinds, -o.left, -o.safety, Suit(o.tile), Rank(o.tile) >>
<1>1. PICK x, y : x = key(a) /\ y = key(b)
  OBVIOUS
<1>2. PICK D : D = {k \in 1..5 : x[k] # y[k]}
  OBVIOUS
<1>3. Suit(a.tile) \in Int /\ Rank(a.tile) \in Int /\ Suit(b.tile) \in Int /\ Rank(b.tile) \in Int
  BY TilesTold DEF Options
<1>4. /\ x[1] = -a.kinds /\ x[2] = -a.left /\ x[3] = -a.safety /\ x[4] = Suit(a.tile) /\ x[5] = Rank(a.tile)
      /\ y[1] = -b.kinds /\ y[2] = -b.left /\ y[3] = -b.safety /\ y[4] = Suit(b.tile) /\ y[5] = Rank(b.tile)
  BY <1>1
<1>5. x \in [1..5 -> Int] /\ y \in [1..5 -> Int]
  BY <1>1, <1>3 DEF Options
<1>6. D # {} /\ x[Min(D)] < y[Min(D)]
             <=> \/ x[1] < y[1]
                 \/ x[1] = y[1] /\ x[2] < y[2]
                 \/ x[1] = y[1] /\ x[2] = y[2] /\ x[3] < y[3]
                 \/ x[1] = y[1] /\ x[2] = y[2] /\ x[3] = y[3] /\ x[4] < y[4]
                 \/ x[1] = y[1] /\ x[2] = y[2] /\ x[3] = y[3] /\ x[4] = y[4] /\ x[5] < y[5]
  BY <1>2, <1>5, FirstDifference
<1>7. D # {} /\ x[Min(D)] < y[Min(D)] <=>
        \/ a.kinds > b.kinds
        \/ a.kinds = b.kinds /\ a.left > b.left
        \/ a.kinds = b.kinds /\ a.left = b.left /\ a.safety > b.safety
        \/ /\ a.kinds = b.kinds /\ a.left = b.left /\ a.safety = b.safety
           /\ \/ Suit(a.tile) < Suit(b.tile)
              \/ Suit(a.tile) = Suit(b.tile) /\ Rank(a.tile) < Rank(b.tile)
  <2>1. a.kinds \in Int /\ a.left \in Int /\ a.safety \in Int /\ b.kinds \in Int /\ b.left \in Int /\ b.safety \in Int
    BY DEF Options
  <2> QED
    BY <1>3, <1>4, <1>6, <2>1
<1>8. a.que \in BOOLEAN /\ b.que \in BOOLEAN /\ a.shanten \in Int /\ b.shanten \in Int
  BY DEF Options
<1>9. CASE a.que # b.que
  BY <1>8, <1>9 DEF betterDiscard, Precedes
<1>10. CASE a.que = b.que /\ a.shanten # b.shanten
  BY <1>8, <1>10 DEF betterDiscard, Precedes
<1>11. CASE a.que = b.que /\ a.shanten = b.shanten
  <2>1. betterDiscard(a, b) <=> D # {} /\ x[Min(D)] < y[Min(D)]
    BY <1>1, <1>2, <1>11, Zenon DEF betterDiscard
  <2> QED
    BY <1>7, <1>8, <1>11, <2>1 DEF Precedes
<1> QED
  BY <1>9, <1>10, <1>11

(* Options of different tiles never tie, no two are better than each       *)
(* other, and better is transitive.                                        *)
LEMMA DiscardsOrdered ==
    ASSUME NEW a \in Options, NEW b \in Options, NEW e \in Options
    PROVE  /\ ~(betterDiscard(a, b) /\ betterDiscard(b, a))
           /\ a.tile # b.tile => betterDiscard(a, b) \/ betterDiscard(b, a)
           /\ betterDiscard(a, b) /\ betterDiscard(b, e) => betterDiscard(a, e)
<1>1. /\ a.que \in BOOLEAN /\ a.shanten \in Int /\ a.kinds \in Int /\ a.left \in Int /\ a.safety \in Int /\ a.tile \in 0..255
      /\ b.que \in BOOLEAN /\ b.shanten \in Int /\ b.kinds \in Int /\ b.left \in Int /\ b.safety \in Int /\ b.tile \in 0..255
      /\ e.que \in BOOLEAN /\ e.shanten \in Int /\ e.kinds \in Int /\ e.left \in Int /\ e.safety \in Int /\ e.tile \in 0..255
  BY DEF Options
<1>2. /\ Suit(a.tile) \in Int /\ Rank(a.tile) \in Int /\ Suit(b.tile) \in Int /\ Rank(b.tile) \in Int
      /\ Suit(e.tile) \in Int /\ Rank(e.tile) \in Int
  BY <1>1, TilesTold
<1>3. ~(Precedes(a, b) /\ Precedes(b, a))
  BY <1>1, <1>2 DEF Precedes
<1>4. a.tile # b.tile => Precedes(a, b) \/ Precedes(b, a)
  <2>1. a.tile # b.tile => Suit(a.tile) # Suit(b.tile) \/ Rank(a.tile) # Rank(b.tile)
    BY <1>1, TilesTold
  <2> QED
    BY <1>1, <1>2, <2>1 DEF Precedes
<1>5. Precedes(a, b) /\ Precedes(b, e) => Precedes(a, e)
  BY <1>1, <1>2 DEF Precedes
<1> QED
  BY <1>3, <1>4, <1>5, DiscardsCompared

(* Some options, one for each tile, and the best of them.                  *)
DecidedOptions(S) == S \in SUBSET Options /\ IsFiniteSet(S) /\ \A a, b \in S : a.tile = b.tile => a = b

IsBest(S, o) == o \in S /\ \A other \in S \ {o} : betterDiscard(o, other)

(* The best of the others and one more: one of the two is the best.        *)
LEMMA BestOfMore ==
    ASSUME NEW S, DecidedOptions(S), NEW x \in S, NEW o, IsBest(S \ {x}, o)
    PROVE  IsBest(S, o) \/ IsBest(S, x)
<1>1. S \in SUBSET Options /\ o \in S /\ o # x /\ \A a, b \in S : a.tile = b.tile => a = b
  BY DEF DecidedOptions, IsBest
<1>2. betterDiscard(o, x) \/ betterDiscard(x, o)
  <2>1. o \in Options /\ x \in Options /\ o.tile # x.tile
    BY <1>1
  <2> QED
    BY <2>1, DiscardsOrdered
<1>3. CASE betterDiscard(o, x)
  BY <1>1, <1>3 DEF IsBest
<1>4. CASE betterDiscard(x, o)
  <2>1. ASSUME NEW y \in S \ {x}
        PROVE  betterDiscard(x, y)
    <3>1. CASE y = o
      BY <1>4, <3>1
    <3>2. CASE y # o
      <4>1. betterDiscard(o, y)
        BY <3>2 DEF IsBest
      <4>2. x \in Options /\ o \in Options /\ y \in Options
        BY <1>1
      <4> QED
        BY <1>4, <4>1, <4>2, DiscardsOrdered
    <3> QED
      BY <3>1, <3>2
  <2> QED
    BY <2>1 DEF IsBest
<1> QED
  BY <1>2, <1>3, <1>4

(* Of any options of different tiles exactly one is better than all others.*)
LEMMA OneBest ==
    ASSUME NEW S, DecidedOptions(S), S # {}
    PROVE  \E o : IsBest(S, o) /\ \A p : IsBest(S, p) => p = o
<1> DEFINE Undecided(T) == DecidedOptions(T) /\ T # {} /\ ~\E o : IsBest(T, o)
<1>1. ASSUME NEW T, Undecided(T)
      PROVE  FALSE
  <2> DEFINE N == {n \in Nat : \E R : Undecided(R) /\ Cardinality(R) = n}
  <2>1. ASSUME NEW R, Undecided(R)
        PROVE  Cardinality(R) \in N
    <3>1. Cardinality(R) \in Nat
      BY <2>1, FS_CardinalityType DEF DecidedOptions
    <3> QED
      BY <2>1, <3>1
  <2> HIDE DEF Undecided
  <2>2. N \in SUBSET Nat /\ N # {}
    BY <1>1, <2>1
  <2>3. PICK n \in N : \A k \in N : n <= k
    BY <2>2, SomeFirst
  <2>4. PICK R : Undecided(R) /\ Cardinality(R) = n
    BY <2>3
  <2>5. DecidedOptions(R) /\ R # {} /\ ~\E o : IsBest(R, o)
    BY <2>4 DEF Undecided
  <2>6. PICK x : x \in R
    BY <2>5
  <2>7. PICK Q : Q = R \ {x}
    OBVIOUS
  <2>8. DecidedOptions(Q) /\ Cardinality(Q) = n - 1 /\ n \in Nat
    <3>1. IsFiniteSet(R)
      BY <2>5 DEF DecidedOptions
    <3>2. IsFiniteSet(Q) /\ Cardinality(Q) = Cardinality(R) - 1
      BY <2>6, <2>7, <3>1, FS_RemoveElement
    <3>3. DecidedOptions(Q)
      BY <2>5, <2>7, <3>2 DEF DecidedOptions
    <3> QED
      BY <2>2, <2>3, <2>4, <3>2, <3>3
  <2>9. CASE Q = {}
    <3>1. R = {x}
      BY <2>6, <2>7, <2>9
    <3>2. IsBest(R, x)
      BY <3>1 DEF IsBest
    <3> QED
      BY <2>5, <3>2
  <2>10. CASE Q # {}
    <3>1. ~Undecided(Q)
      <4>1. SUFFICES ASSUME Undecided(Q) PROVE FALSE
        OBVIOUS
      <4>2. n - 1 \in N
        BY <2>1, <2>8, <4>1
      <4>3. n <= n - 1
        BY <2>3, <4>2
      <4> QED
        BY <2>8, <4>3
    <3>2. PICK o : IsBest(Q, o)
      BY <2>8, <2>10, <3>1 DEF Undecided
    <3> QED
      BY <2>5, <2>6, <2>7, <3>2, BestOfMore
  <2> QED
    BY <2>9, <2>10
<1>2. PICK o : IsBest(S, o)
  BY <1>1
<1>3. ASSUME NEW p, IsBest(S, p)
      PROVE  p = o
  <2>1. SUFFICES ASSUME p # o PROVE FALSE
    OBVIOUS
  <2>2. betterDiscard(o, p) /\ betterDiscard(p, o)
    BY <1>2, <1>3, <2>1 DEF IsBest
  <2>3. o \in Options /\ p \in Options
    BY <1>2, <1>3 DEF IsBest, DecidedOptions
  <2> QED
    BY <2>2, <2>3, DiscardsOrdered
<1> QED
  BY <1>2, <1>3

(* The options of a hand: one for each of its tiles.                       *)
LEMMA HandChoices ==
    ASSUME NEW tiles \in Seq(0..255), NEW que, NEW pub, DiscardOptions(tiles, que, pub) \subseteq Options
    PROVE  DecidedOptions(DiscardOptions(tiles, que, pub))
<1> DEFINE O(t) == DiscardOption(tiles, t, que, pub)
           S == DiscardOptions(tiles, que, pub)
<1>1. PICK T : T = ToSet(tiles)
  OBVIOUS
<1>2. S = {O(t) : t \in T}
  BY <1>1 DEF DiscardOptions
<1>3. \A t \in T : O(t).tile = t
  BY DEF DiscardOption
<1>4. T \subseteq 0..255
  <2>1. PICK B : B = 0..255
    OBVIOUS
  <2>2. tiles \in Seq(B)
    BY <2>1
  <2>3. \A i \in DOMAIN tiles : tiles[i] \in B
    BY <2>2
  <2>4. T \subseteq B
    BY <1>1, <2>3 DEF ToSet
  <2> QED
    BY <2>1, <2>4
<1>5. IsFiniteSet(T)
  <2>1. 0 \in Int /\ 255 \in Int
    OBVIOUS
  <2>2. IsFiniteSet(0..255)
    BY <2>1, FS_Interval, Zenon
  <2> QED
    BY <1>4, <2>2, FS_Subset, Zenon
<1> HIDE DEF O, S
<1>6. IsFiniteSet(S)
  <2>1. PICK f : f = [t \in T |-> O(t)]
    OBVIOUS
  <2>2. f \in Surjection(T, S)
    BY <1>2, <2>1 DEF Surjection
  <2> QED
    BY <1>5, <2>2, FS_Surjection
<1>7. \A a, b \in S : a.tile = b.tile => a = b
  <2> SUFFICES ASSUME NEW a \in S, NEW b \in S, a.tile = b.tile
               PROVE  a = b
    OBVIOUS
  <2>1. PICK t \in T, u \in T : a = O(t) /\ b = O(u)
    BY <1>2
  <2> QED
    BY <1>3, <2>1
<1>8. S \in SUBSET Options
  BY DEF S
<1>9. DecidedOptions(S)
  BY <1>6, <1>7, <1>8, Zenon DEF DecidedOptions
<1> QED
  BY <1>9 DEF S

(* analysis.go: a hand is always advised a discard, one of its own options *)
(* and better than every other one: betterDiscard leaves no two options    *)
(* tied, so the advice does not depend on the order they are compared in.  *)
THEOREM BestDiscardDecided ==
    ASSUME NEW tiles \in Seq(0..255), tiles # << >>, NEW que, NEW pub,
           DiscardOptions(tiles, que, pub) \subseteq Options
    PROVE  /\ IsBest(DiscardOptions(tiles, que, pub), BestDiscard(tiles, que, pub))
           /\ \A o : IsBest(DiscardOptions(tiles, que, pub), o) => o = BestDiscard(tiles, que, pub)
<1>1. PICK S : S = DiscardOptions(tiles, que, pub)
  OBVIOUS
<1>2. DecidedOptions(S)
  BY <1>1, HandChoices
<1>3. S # {}
  <2>1. 1 \in 1..Len(tiles)
    OBVIOUS
  <2>2. tiles[1] \in ToSet(tiles)
    BY <2>1 DEF ToSet
  <2> QED
    BY <1>1, <2>2 DEF DiscardOptions
<1>4. PICK o : IsBest(S, o) /\ \A p : IsBest(S, p) => p = o
  BY <1>2, <1>3, OneBest
<1>5. PICK best : best = CHOOSE p \in S : \A other \in S \ {p} : betterDiscard(p, other)
  OBVIOUS
<1>6. IsBest(S, best)
  BY <1>4, <1>5 DEF IsBest
<1>7. BestDiscard(tiles, que, pub) = best
  BY <1>1, <1>5 DEF BestDiscard
<1> QED
  BY <1>1, <1>4, <1>6, <1>7

-----------------------------------------------------------------------------
(* The names of the fans.                                                  *)
Fans == {"heavenly_hand", "earthly_hand", "long_qi_dui", "qi_dui", "jiang_dui", "dui_dui_hu", "ping_hu",
         "qing_yi_se", "yi_gen", "shi_ba_luo_han", "gang_shang_kai", "gang_shang_pao", "hai_di_lao",
         "hai_di_pao", "qiang_gang_hu", "an_ke", "an_gang", "shuang_an_gang"}

(* The states of a ledger.                                                 *)
GangReasons == {"gang_ming", "gang_bu", "gang_an"}

(* The reasons of the three kinds of win events.                           *)
WinReasons == {"hu_tsumo", "hu_qiang_gang", "hu_discard"}

(* The score events the ledger can hold.                                   *)
Event == [reason : GangReasons \cup WinReasons, from : Seats, to : Seats, amount : Nat,
          winner : Seats \cup {SeatInvalid}, fan : Nat, names : SUBSET Fans]

(* The gangs laid down in the ledger.                                      *)
Gang == [seat : Seats, kind : {"ming", "bu", "an"}, tile : {FromIndex(i) : i \in Drawn}, from : Seats \cup {SeatInvalid}]

(* The wins of the ledger, with what each was scored as.                   *)
Win == [seat : Seats, tile : {FromIndex(i) : i \in Drawn}, from : Seats \cup {SeatInvalid},
        step : Nat, fan : Nat, names : SUBSET Fans]

(* The types of the ledger.                                                *)
LedgerTypes ==
    /\ hands \in [Seats -> [Playable -> Nat]] /\ meldFacts \in [Seats -> Seq(MeldFacts)]
    /\ ruleState \in [missing : [Seats -> SuitedSuits], declared : BOOLEAN]
    /\ events \in Seq(Event) /\ gangs \in Seq(Gang) /\ wins \in Seq(Win)
    /\ due \in Seats \cup {SeatInvalid} /\ late \in SUBSET Seats /\ gone \in SUBSET Seats

(* An event is paid for a gang, or for a win that is recorded with it.     *)
EventsExplained ==
    \A k \in 1..Len(events) :
        \/ events[k].winner = SeatInvalid /\ events[k].reason \in GangReasons /\ events[k].amount > 0
        \/ \E w \in 1..Len(wins) :
              /\ wins[w].seat = events[k].winner
              /\ wins[w].fan = events[k].fan /\ wins[w].names = events[k].names

(* A seat wins once, is paid for it, and holds nothing of its missing suit *)
(* unless it drew after it.                                                *)
WinsPaid ==
    \A w \in 1..Len(wins) :
        /\ wins[w].seat \in late \/ ~holdsQueSuit(hands[wins[w].seat], wins[w].seat)
        /\ \E k \in 1..Len(events) : events[k].winner = wins[w].seat
        /\ \A v \in 1..Len(wins) : wins[v].seat = wins[w].seat => v = w

(* While a round is played there is somebody to play against.              *)
SomebodyLeft == result = NoResult => Cardinality(activeSeats) > 1

(* What was settled is what the hands and the events still say.            *)
SettledFromState == Settled => result = BuildSettlement(events, Hued, Pigs(hands), Waiting(hands))

(* A meld takes more from the hand than this.                              *)
Opened(fs) == IF Len(fs) = 0 THEN 0 ELSE 2

(* A seat that may still draw holds thirteen tiles at most, any other one  *)
(* more; two at least are gone from the hand of a seat with a meld.        *)
HandsCounted ==
    \A s \in Seats : Total(hands[s]) + Opened(meldFacts[s]) <= IF s \in Throwers THEN 13 ELSE 14

(* Whoever was paid for a gang shows a meld.                               *)
GangsShown ==
    \A k \in 1..Len(events) : events[k].winner = SeatInvalid => Len(meldFacts[events[k].to]) > 0

(* The inductive invariant of the ledger.                                  *)
LedgerIInv ==
    /\ LedgerTypes /\ EventsExplained /\ WinsPaid /\ SomebodyLeft /\ SettledFromState
    /\ HandsCounted /\ GangsShown

(* A set put in some order.                                                *)
LEMMA InSomeOrder ==
    ASSUME NEW S, IsFiniteSet(S)
    PROVE  SetToSeq(S) \in Seq(S) /\ (S # {} => Len(SetToSeq(S)) > 0)
<1>1. PICK n : n = Cardinality(S)
  OBVIOUS
<1>2. n \in Nat /\ ExistsBijection(1..n, S)
  BY <1>1, FS_CardinalityType, Zenon
<1>3. PICK b : b \in Bijection(1..n, S)
  BY <1>2, Zenon DEF ExistsBijection
<1>4. b \in [1..n -> S] /\ IsInjective(b)
  BY <1>3, Zenon DEF Bijection, Injection
<1>5. SetToSeq(S) \in [1..n -> S]
  <2>1. \E f \in [1..n -> S] : IsInjective(f)
    BY <1>4, Zenon
  <2>2. (CHOOSE f \in [1..n -> S] : IsInjective(f)) \in [1..n -> S]
    BY <2>1, Zenon
  <2> QED
    BY <1>1, <2>2, Zenon DEF SetToSeq
<1>6. S # {} => n # 0
  BY <1>1, FS_EmptySet, Zenon
<1> QED
  BY <1>2, <1>5, <1>6

(* Every set of seats is finite, and its size a number.                    *)
LEMMA SeatsFinite == \A S \in SUBSET Seats : IsFiniteSet(S) /\ Cardinality(S) \in Nat
<1>1. IsFiniteSet(Seats)
  BY PlacesFinite DEF Seats
<1> QED
  BY <1>1, FS_Subset, FS_CardinalityType

(* A hand that wins holds nothing of its missing suit.                     *)
LEMMA WinnerHoldsNone ==
    ASSUME LedgerTypes, NEW s \in Seats, NEW i \in Drawn, ruleState.declared, XzddCheckHu(s, FromIndex(i)).ok
    PROVE  ~holdsQueSuit(hands[s], s)
<1>1. hands[s] \in [Playable -> Nat] /\ ruleState.missing[s] \in SuitedSuits
  BY DEF LedgerTypes
<1>2. i \in 0..26 /\ Index(FromIndex(i)) = i
  BY DealsAssumption, IndexBack DEF SuitedTileCount
<1>3. PICK h, m : h = hands[s] /\ m = ruleState.missing[s]
  OBVIOUS
<1>4. PICK c : c = [h EXCEPT ![i] = @ + 1]
  OBVIOUS
<1>5. ~countsHoldSuit(c, m)
  BY <1>2, <1>3, <1>4 DEF XzddCheckHu
<1>6. \A j \in Playable : c[j] >= h[j] /\ c[j] \in Nat /\ h[j] \in Nat
  BY <1>1, <1>3, <1>4
<1>7. ASSUME NEW j \in Playable, h[j] > 0, Suit(FromIndex(j)) = m
      PROVE  FALSE
  <2>0. m \in SuitedSuits
    BY <1>1, <1>3
  <2>1. PICK r \in 0..8 : j = m * 9 + r
    BY <1>7, <2>0, SuitOfIndex, Zenon
  <2>2. c[m * 9 + r] > 0
    BY <1>6, <1>7, <2>1
  <2> QED
    BY <1>1, <1>3, <1>5, <2>2 DEF countsHoldSuit
<1> QED
  BY <1>3, <1>7 DEF holdsQueSuit

(* The Sichuan fans are a finite set.                                      *)
LEMMA FansFinite == IsFiniteSet(Fans)
<1> DEFINE f == << "heavenly_hand", "earthly_hand", "long_qi_dui", "qi_dui", "jiang_dui", "dui_dui_hu", "ping_hu",
         "qing_yi_se", "yi_gen", "shi_ba_luo_han", "gang_shang_kai", "gang_shang_pao", "hai_di_lao",
         "hai_di_pao", "qiang_gang_hu", "an_ke", "an_gang", "shuang_an_gang" >>
<1>1. f \in [1..18 -> Fans]
  BY DEF Fans
<1>2. \A x \in Fans : \E k \in 1..18 : f[k] = x
  <2>1. /\ f[1] = "heavenly_hand" /\ f[2] = "earthly_hand" /\ f[3] = "long_qi_dui" /\ f[4] = "qi_dui"
        /\ f[5] = "jiang_dui" /\ f[6] = "dui_dui_hu" /\ f[7] = "ping_hu" /\ f[8] = "qing_yi_se"
        /\ f[9] = "yi_gen" /\ f[10] = "shi_ba_luo_han" /\ f[11] = "gang_shang_kai" /\ f[12] = "gang_shang_pao"
        /\ f[13] = "hai_di_lao" /\ f[14] = "hai_di_pao" /\ f[15] = "qiang_gang_hu" /\ f[16] = "an_ke"
        /\ f[17] = "an_gang" /\ f[18] = "shuang_an_gang"
    OBVIOUS
  <2> HIDE DEF f
  <2> QED
    BY <2>1 DEF Fans
<1>3. f \in Surjection(1..18, Fans)
  <2> HIDE DEF f
  <2> QED
    BY <1>1, <1>2 DEF Surjection
<1>4. IsFiniteSet(1..18)
  <2>1. 1 \in Int /\ 18 \in Int
    OBVIOUS
  <2> QED
    BY <2>1, FS_Interval, Zenon
<1> HIDE DEF f
<1> QED
  BY <1>3, <1>4, FS_Surjection

(* The fans of a win add up to a number.                                   *)
LEMMA FansAddUp ==
    ASSUME LedgerTypes, NEW c, NEW sc
    PROVE  TotalFan(scoreFans(c, sc)) \in Nat /\ FanNames(scoreFans(c, sc)) \in SUBSET Fans
<1>1. \A n : countOf(c, n) \in Nat
  <2> SUFFICES ASSUME NEW n
               PROVE  countOf(c, n) \in Nat
    OBVIOUS
  <2>1. {i \in Playable : c[i] = n} \in SUBSET Playable
    OBVIOUS
  <2>2. IsFiniteSet({i \in Playable : c[i] = n})
    BY <2>1, PlayableFinite, FS_Subset, Zenon
  <2> QED
    BY <2>2, FS_CardinalityType, Zenon DEF countOf
<1>2. countAnGang(sc.seat) \in Nat
  <2>1. PICK K : K = {k \in 1..Len(gangs) : gangs[k].seat = sc.seat /\ gangs[k].kind = "an"}
    OBVIOUS
  <2>2. K \in SUBSET (1..Len(gangs)) /\ 1 \in Int /\ Len(gangs) \in Int
    BY <2>1 DEF LedgerTypes
  <2>3. IsFiniteSet(K)
    BY <2>2, FS_Interval, FS_Subset, Zenon
  <2> QED
    BY <2>1, <2>3, FS_CardinalityType, Zenon DEF countAnGang
<1>3. \A b, n : n \in Nat => Award(b, n) \in Nat
  BY DEF Award
<1>4. PICK fans : fans = scoreFans(c, sc)
  OBVIOUS
<1>5. countGen(c) \in Nat /\ countAnKe(c) \in Nat
  BY <1>1 DEF countGen, countAnKe
<1>6. /\ fans = [x \in Fans |-> fans[x]]
      /\ \A x \in Fans : fans[x] \in Nat
  <2>1. DOMAIN fans = Fans
    BY <1>4 DEF scoreFans, Fans
  <2>2. fans = [x \in DOMAIN fans |-> fans[x]]
    BY <1>4 DEF scoreFans
  <2>3. /\ fans.heavenly_hand \in Nat /\ fans.earthly_hand \in Nat /\ fans.long_qi_dui \in Nat
        /\ fans.qi_dui \in Nat /\ fans.jiang_dui \in Nat /\ fans.dui_dui_hu \in Nat
        /\ fans.ping_hu \in Nat /\ fans.qing_yi_se \in Nat /\ fans.yi_gen \in Nat
    BY <1>3, <1>4, <1>5 DEF scoreFans
  <2>4. /\ fans.shi_ba_luo_han \in Nat /\ fans.gang_shang_kai \in Nat /\ fans.gang_shang_pao \in Nat
        /\ fans.hai_di_lao \in Nat /\ fans.hai_di_pao \in Nat /\ fans.qiang_gang_hu \in Nat
        /\ fans.an_ke \in Nat /\ fans.an_gang \in Nat /\ fans.shuang_an_gang \in Nat
    BY <1>2, <1>3, <1>4, <1>5 DEF scoreFans
  <2>5. \A x \in Fans : fans[x] \in Nat
    BY <2>3, <2>4 DEF Fans
  <2> QED
    BY <2>1, <2>2, <2>5
<1>7. Total(fans) \in Nat
  <2>1. fans \in [Fans -> Nat]
    BY <1>6
  <2> QED
    BY <2>1, FansFinite, TotalType
<1>8. FanNames(fans) \in SUBSET Fans
  <2>1. DOMAIN fans = Fans
    BY <1>6
  <2> QED
    BY <2>1 DEF FanNames
<1> QED
  BY <1>4, <1>7, <1>8 DEF TotalFan

(* What a concatenation holds.                                             *)
Holds(e, a, b) ==
    /\ Len(e) = Len(a) + Len(b) /\ Len(a) \in Nat /\ Len(b) \in Nat
    /\ \A k \in 1..Len(a) : k \in 1..Len(e) /\ e[k] = a[k]
    /\ \A j \in 1..Len(b) : Len(a) + j \in 1..Len(e) /\ e[Len(a) + j] = b[j]
    /\ \A k \in 1..Len(e) : k \in 1..Len(a) \/ \E j \in 1..Len(b) : k = Len(a) + j

(* Two sequences joined hold both, the second after the first.             *)
LEMMA Joined ==
    ASSUME NEW S, NEW a \in Seq(S), NEW b \in Seq(S)
    PROVE  a \o b \in Seq(S) /\ Holds(a \o b, a, b)
<1> DEFINE e == a \o b
<1>1. e \in Seq(S) /\ Len(e) = Len(a) + Len(b) /\ Len(a) \in Nat /\ Len(b) \in Nat
  OBVIOUS
<1>2. \A k \in 1..Len(a) : k \in 1..Len(e) /\ e[k] = a[k]
  OBVIOUS
<1>3. \A j \in 1..Len(b) : Len(a) + j \in 1..Len(e) /\ e[Len(a) + j] = b[j]
  OBVIOUS
<1>4. ASSUME NEW k \in 1..Len(e), k \notin 1..Len(a)
      PROVE  \E j \in 1..Len(b) : k = Len(a) + j
  <2>1. k - Len(a) \in 1..Len(b) /\ k = Len(a) + (k - Len(a))
    BY <1>1, <1>4
  <2> QED
    BY <2>1
<1> QED
  BY <1>1, <1>2, <1>3, <1>4 DEF Holds

(* The points paid for a gang.                                             *)
LEMMA GangPoints ==
    ASSUME NEW s \in Seats, NEW kind \in {"ming", "bu", "an"}
    PROVE  /\ ScoreGang(s, kind) \in Seq(Event)
           /\ \A k \in 1..Len(ScoreGang(s, kind)) :
                 /\ ScoreGang(s, kind)[k].winner = SeatInvalid
                 /\ ScoreGang(s, kind)[k].reason \in GangReasons
                 /\ ScoreGang(s, kind)[k].amount > 0 /\ ScoreGang(s, kind)[k].to = s
<1>1. PICK payers : payers = SetToSeq(activeSeats \ {s})
  OBVIOUS
<1>2. payers \in Seq(activeSeats \ {s})
  <2>1. activeSeats \ {s} \in SUBSET Seats
    BY DEF activeSeats
  <2>2. IsFiniteSet(activeSeats \ {s})
    BY <2>1, SeatsFinite
  <2> QED
    BY <1>1, <2>2, InSomeOrder
<1>3. Len(payers) \in Nat /\ \A k \in 1..Len(payers) : payers[k] \in Seats
  <2>1. activeSeats \ {s} \subseteq Seats
    BY DEF activeSeats
  <2> QED
    BY <1>2, <2>1
<1>4. PICK g : g = ScoreGang(s, kind)
  OBVIOUS
<1>5. PICK r, a : /\ r = IF kind = "an" THEN "gang_an" ELSE IF kind = "bu" THEN "gang_bu" ELSE "gang_ming"
                  /\ a = IF kind = "an" THEN 2 ELSE 1
  OBVIOUS
<1>6. r \in GangReasons /\ a \in Nat /\ a > 0
  BY <1>5 DEF GangReasons
<1>7. g = [k \in 1..Len(payers) |-> [reason |-> r, from |-> payers[k], to |-> s, amount |-> a,
                                     winner |-> SeatInvalid, fan |-> 0, names |-> {}]]
  BY <1>1, <1>4, <1>5 DEF ScoreGang
<1>8. g \in [1..Len(payers) -> Event]
  BY <1>3, <1>6, <1>7 DEF Event
<1>9. g \in Seq(Event) /\ Len(g) = Len(payers)
  BY <1>3, <1>8
<1>10. \A k \in 1..Len(g) : /\ g[k].winner = SeatInvalid /\ g[k].reason \in GangReasons
                            /\ g[k].amount > 0 /\ g[k].to = s
  BY <1>6, <1>7, <1>9
<1> QED
  BY <1>4, <1>9, <1>10

(* The points paid for a win, by whoever has to pay.                       *)
LEMMA WinPoints ==
    ASSUME LedgerTypes, NEW c, NEW sc, sc.seat \in Seats, sc.tsumo \in BOOLEAN,
           sc.tsumo => activeSeats \ {sc.seat} # {},
           ~sc.tsumo => sc.from \in Seats \ {sc.seat}
    PROVE  /\ ScoreWin(c, sc) \in Seq(Event) /\ Len(ScoreWin(c, sc)) > 0
           /\ \A k \in 1..Len(ScoreWin(c, sc)) :
                 /\ ScoreWin(c, sc)[k].winner = sc.seat
                 /\ ScoreWin(c, sc)[k].fan = TotalFan(scoreFans(c, sc))
                 /\ ScoreWin(c, sc)[k].names = FanNames(scoreFans(c, sc))
<1>1. PICK P : P = (IF sc.tsumo THEN activeSeats ELSE {sc.from} \cap Seats) \ {sc.seat}
  OBVIOUS
<1>2. P \in SUBSET Seats /\ P # {}
  BY <1>1 DEF activeSeats
<1>3. PICK payers : payers = SetToSeq(P)
  OBVIOUS
<1>4. payers \in Seq(P) /\ Len(payers) > 0
  BY <1>2, <1>3, SeatsFinite, InSomeOrder
<1>5. Len(payers) \in Nat /\ \A k \in 1..Len(payers) : payers[k] \in Seats
  BY <1>2, <1>4
<1>6. PICK r, n, f : /\ r = IF sc.tsumo THEN "hu_tsumo" ELSE IF sc.gangShangPao THEN "hu_qiang_gang" ELSE "hu_discard"
                     /\ n = TotalFan(scoreFans(c, sc)) /\ f = FanNames(scoreFans(c, sc))
  OBVIOUS
<1>7. r \in WinReasons /\ n \in Nat /\ f \in SUBSET Fans
  BY <1>6, FansAddUp DEF WinReasons
<1>8. PICK g : g = ScoreWin(c, sc)
  OBVIOUS
<1>9. PICK seat \in Seats : seat = sc.seat
  OBVIOUS
<1>10. g = [k \in 1..Len(payers) |-> [reason |-> r, from |-> payers[k], to |-> seat, amount |-> n,
                                      winner |-> seat, fan |-> n, names |-> f]]
  BY <1>1, <1>3, <1>6, <1>8, <1>9 DEF ScoreWin, newScoreEvent
<1>11. g \in [1..Len(payers) -> Event]
  BY <1>5, <1>7, <1>10 DEF Event
<1>12. g \in Seq(Event) /\ Len(g) = Len(payers)
  BY <1>5, <1>11
<1>13. \A k \in 1..Len(g) : g[k].winner = seat /\ g[k].fan = n /\ g[k].names = f
  BY <1>10, <1>12
<1> QED
  BY <1>4, <1>6, <1>8, <1>9, <1>12, <1>13

(* A dealt round satisfies the inductive invariant of the ledger.          *)
LEMMA LedgerStarts == LedgerInit => LedgerIInv
<1> SUFFICES ASSUME LedgerInit
             PROVE  LedgerIInv
  OBVIOUS
<1>1. PICK d \in Deals : hands = d.hands /\ ruleState = [missing |-> d.missing, declared |-> d.declared]
  BY DEF LedgerInit
<1>2. /\ d.hands \in [Seats -> [Playable -> 0..4]]
      /\ d.missing \in [Seats -> SuitedSuits] /\ d.declared \in BOOLEAN
  BY DealsAssumption
<1>3. /\ events = << >> /\ gangs = << >> /\ wins = << >> /\ gone = {} /\ result = NoResult
      /\ meldFacts = [s \in Seats |-> << >>] /\ due = SeatInvalid /\ late = {}
  BY DEF LedgerInit
<1>4. LedgerTypes
  <2>1. hands \in [Seats -> [Playable -> Nat]]
    <3>1. \A s \in Seats : hands[s] \in [Playable -> Nat]
      BY <1>1, <1>2
    <3> QED
      BY <1>1, <1>2, <3>1
  <2>2. ruleState \in [missing : [Seats -> SuitedSuits], declared : BOOLEAN]
    BY <1>1, <1>2
  <2> QED
    BY <1>3, <2>1, <2>2 DEF LedgerTypes
<1>5. EventsExplained /\ WinsPaid
  BY <1>3 DEF EventsExplained, WinsPaid
<1>6. SomebodyLeft
  <2>1. Hued = {}
    BY <1>3 DEF Hued
  <2>2. activeSeats = 0..3
    BY <1>3, <2>1 DEF activeSeats, Seats
  <2>3. 0 \in Int /\ 3 \in Int
    OBVIOUS
  <2>4. Cardinality(0..3) = IF 0 > 3 THEN 0 ELSE 3 - 0 + 1
    BY <2>3, FS_Interval, Zenon
  <2>5. Cardinality(0..3) = 4
    BY <2>4
  <2> QED
    BY <2>2, <2>5 DEF SomebodyLeft
<1>7. SettledFromState
  BY <1>3 DEF SettledFromState, Settled
<1>8. HandsCounted
  <2> SUFFICES ASSUME NEW s \in Seats
               PROVE  Total(hands[s]) + Opened(meldFacts[s]) <= IF s \in Throwers THEN 13 ELSE 14
    BY DEF HandsCounted
  <2>1. Total(hands[s]) = 13
    BY <1>1, DealsAssumption
  <2>2. Opened(meldFacts[s]) = 0
    BY <1>3 DEF Opened
  <2> QED
    BY <2>1, <2>2
<1>9. GangsShown
  BY <1>3 DEF GangsShown
<1> QED
  BY <1>4, <1>5, <1>6, <1>7, <1>8, <1>9 DEF LedgerIInv

(* The end of a handler: the round is settled from what it leaves, or      *)
(* somebody is left to play against.                                       *)
LEMMA RoundClosed ==
    ASSUME NEW h, NEW ev, NEW won, NEW out, NEW empty, finishRound(h, ev, won, out, empty),
           ev = events', won = Hued', out = gone', hands' = h, ruleState' = ruleState
    PROVE  SomebodyLeft' /\ SettledFromState'
<1>1. Pigs(hands)' = Pigs(h) /\ Waiting(hands)' = Waiting(h)
  BY DEF Pigs, Waiting, holdsQueSuit, isTing
<1>2. PICK b : b = BuildSettlement(ev, won, Pigs(h), Waiting(h))
  OBVIOUS
<1>3. b # NoResult
  <2>1. DOMAIN b = {"scores", "skipped", "penalties", "breakdowns"}
    BY <1>2 DEF BuildSettlement
  <2>2. DOMAIN NoResult = {}
    BY DEF NoResult
  <2> QED
    BY <2>1, <2>2
<1>4. result' = IF shouldFinishRound(won, out, empty) THEN b ELSE NoResult
  BY <1>2 DEF finishRound
<1>5. activeSeats' = Seats \ (won \cup out)
  BY DEF activeSeats
<1>6. SomebodyLeft'
  <2>1. SUFFICES ASSUME result' = NoResult
                 PROVE  Cardinality(activeSeats') > 1
    BY DEF SomebodyLeft
  <2>2. ~shouldFinishRound(won, out, empty)
    BY <1>3, <1>4, <2>1
  <2>3. ~(Cardinality(Seats \ (won \cup out)) <= 1)
    BY <2>2 DEF shouldFinishRound
  <2>4. Cardinality(Seats \ (won \cup out)) \in Nat
    BY SeatsFinite
  <2> QED
    BY <1>5, <2>3, <2>4
<1>7. SettledFromState'
  <2>1. SUFFICES ASSUME result' # NoResult
                 PROVE  result' = BuildSettlement(events', Hued', Pigs(hands)', Waiting(hands)')
    BY DEF SettledFromState, Settled, NoResult
  <2>2. result' = b
    BY <1>4, <2>1
  <2> QED
    BY <1>1, <1>2, <2>2
<1> QED
  BY <1>6, <1>7

(* The tiles of the hands can be counted.                                  *)
LEMMA HandsNumber ==
    ASSUME LedgerTypes, NEW s \in Seats
    PROVE  hands[s] \in [Playable -> Nat] /\ Total(hands[s]) \in Nat /\ meldFacts[s] \in Seq(MeldFacts)
<1>1. hands[s] \in [Playable -> Nat] /\ meldFacts[s] \in Seq(MeldFacts)
  BY DEF LedgerTypes
<1> QED
  BY <1>1, PlayableFinite, TotalType

(* A step of s: no other hand and no other melds change, melds stay, and   *)
(* whoever won before drew to have its hand changed.                       *)
OnlyChanges(s) ==
    /\ hands' \in [Seats -> [Playable -> Nat]] /\ meldFacts' \in [Seats -> Seq(MeldFacts)]
    /\ \A o \in Seats \ {s} : hands'[o] = hands[o] /\ meldFacts'[o] = meldFacts[o]
    /\ Len(meldFacts[s]) > 0 => Len(meldFacts'[s]) > 0
    /\ due' \in Seats \cup {SeatInvalid}
    /\ late' \in SUBSET Seats /\ late \subseteq late' /\ (hands'[s] # hands[s] /\ s \in Hued => s \in late')

(* The hand of s gets smaller by what it shows.                            *)
LaysDown(s) == Total(hands'[s]) + Opened(meldFacts'[s]) <= Total(hands[s]) + Opened(meldFacts[s])

(* The last tile s draws.                                                  *)
KeepsOneMore(s) ==
    /\ Total(hands'[s]) = Total(hands[s]) + 1 /\ meldFacts'[s] = meldFacts[s]
    /\ s \in Throwers /\ s \notin Throwers'

(* The bounds on the hands are kept when nobody new may draw.              *)
LEMMA CountsKept ==
    ASSUME LedgerIInv, NEW s \in Seats, OnlyChanges(s), LaysDown(s) \/ KeepsOneMore(s), Throwers' \subseteq Throwers
    PROVE  HandsCounted'
<1> SUFFICES ASSUME NEW o \in Seats
             PROVE  Total(hands'[o]) + Opened(meldFacts'[o]) <= IF o \in Throwers' THEN 13 ELSE 14
  BY DEF HandsCounted
<1>1. /\ Total(hands[o]) \in Nat
      /\ Total(hands[o]) + Opened(meldFacts[o]) <= IF o \in Throwers THEN 13 ELSE 14
  BY HandsNumber DEF LedgerIInv, HandsCounted
<1>2. Total(hands'[o]) \in Nat
  <2>1. hands'[o] \in [Playable -> Nat]
    BY DEF OnlyChanges
  <2> QED
    BY <2>1, PlayableFinite, TotalType
<1>3. Opened(meldFacts[o]) \in {0, 2} /\ Opened(meldFacts'[o]) \in {0, 2}
  BY DEF Opened
<1>4. CASE o # s
  <2>1. hands'[o] = hands[o] /\ meldFacts'[o] = meldFacts[o]
    BY <1>4 DEF OnlyChanges
  <2> QED
    BY <1>1, <1>3, <2>1
<1>5. CASE o = s /\ LaysDown(s)
  BY <1>1, <1>2, <1>3, <1>5 DEF LaysDown
<1>6. CASE o = s /\ KeepsOneMore(s)
  BY <1>1, <1>3, <1>6 DEF KeepsOneMore
<1> QED
  BY <1>4, <1>5, <1>6

(* No winning hand changes unless its seat draws.                          *)
LEMMA OthersStay ==
    ASSUME LedgerIInv, NEW s \in Seats, OnlyChanges(s), ruleState' = ruleState, wins' = wins
    PROVE  \A w \in 1..Len(wins) : wins[w].seat \in late' \/ ~holdsQueSuit(hands[wins[w].seat], wins[w].seat)'
<1> SUFFICES ASSUME NEW w \in 1..Len(wins), wins[w].seat \notin late'
             PROVE  ~holdsQueSuit(hands[wins[w].seat], wins[w].seat)'
  OBVIOUS
<1>1. wins[w].seat \in Seats /\ wins[w].seat \in Hued
  <2>1. wins \in Seq(Win)
    BY DEF LedgerIInv, LedgerTypes
  <2>2. wins[w] \in Win
    BY <2>1
  <2> QED
    BY <2>2 DEF Win, Hued
<1>2. hands'[wins[w].seat] = hands[wins[w].seat] /\ wins[w].seat \notin late
  BY <1>1 DEF OnlyChanges
<1>3. ~holdsQueSuit(hands[wins[w].seat], wins[w].seat)
  BY <1>2 DEF LedgerIInv, WinsPaid
<1> QED
  BY <1>2, <1>3 DEF holdsQueSuit

(* A step without points keeps what is said of the wins and the gangs.     *)
LEMMA PointsStay ==
    ASSUME LedgerIInv, NEW s \in Seats, OnlyChanges(s), UNCHANGED << ruleState, events, gangs, wins >>,
           gone' \in SUBSET Seats
    PROVE  LedgerTypes' /\ EventsExplained' /\ WinsPaid' /\ GangsShown'
<1>1. LedgerTypes'
  BY DEF LedgerIInv, LedgerTypes, OnlyChanges
<1>2. EventsExplained'
  BY DEF LedgerIInv, EventsExplained
<1>3. WinsPaid'
  <2>1. \A w \in 1..Len(wins) : wins[w].seat \in late' \/ ~holdsQueSuit(hands[wins[w].seat], wins[w].seat)'
    BY OthersStay
  <2> QED
    BY <2>1 DEF LedgerIInv, WinsPaid
<1>4. GangsShown'
  <2> SUFFICES ASSUME NEW k \in 1..Len(events), events[k].winner = SeatInvalid
               PROVE  Len(meldFacts'[events[k].to]) > 0
    BY DEF GangsShown
  <2>1. events[k] \in Event
    BY DEF LedgerIInv, LedgerTypes
  <2>2. events[k].to \in Seats /\ Len(meldFacts[events[k].to]) > 0
    BY <2>1 DEF Event, LedgerIInv, GangsShown
  <2> QED
    BY <2>2 DEF OnlyChanges
<1> QED
  BY <1>1, <1>2, <1>3, <1>4

(* A gang is paid for at once, while the round is on.                      *)
LEMMA GangStep ==
    ASSUME LedgerIInv, result = NoResult, NEW s \in Seats, NEW i \in Drawn,
           NEW kind \in {"ming", "bu", "an"}, NEW from \in Seats \cup {SeatInvalid},
           appendGangScoreEvents(s, i, kind, from),
           OnlyChanges(s), LaysDown(s), Len(meldFacts'[s]) > 0, due' = SeatInvalid,
           UNCHANGED << ruleState, wins, gone, result >>
    PROVE  LedgerIInv'
<1>2. events \in Seq(Event) /\ gangs \in Seq(Gang) /\ wins \in Seq(Win)
  BY DEF LedgerIInv, LedgerTypes
<1>3. PICK g : g = ScoreGang(s, kind)
  OBVIOUS
<1>4. /\ g \in Seq(Event)
      /\ \A k \in 1..Len(g) : /\ g[k].winner = SeatInvalid /\ g[k].reason \in GangReasons
                              /\ g[k].amount > 0 /\ g[k].to = s
  BY <1>3, GangPoints
<1>5. events' = events \o g
  BY <1>3 DEF appendGangScoreEvents
<1>6. /\ events' \in Seq(Event) /\ Len(events') = Len(events) + Len(g) /\ Len(events) \in Nat /\ Len(g) \in Nat
      /\ \A k \in 1..Len(events) : k \in 1..Len(events') /\ events'[k] = events[k]
      /\ \A j \in 1..Len(g) : Len(events) + j \in 1..Len(events') /\ events'[Len(events) + j] = g[j]
      /\ \A k \in 1..Len(events') : k \in 1..Len(events) \/ \E j \in 1..Len(g) : k = Len(events) + j
  <2>1. events' \in Seq(Event) /\ Holds(events', events, g)
    BY <1>2, <1>5, <1>4, Joined
  <2> QED
    BY <2>1, Zenon DEF Holds
<1>7. gangs' \in Seq(Gang)
  <2>1. [seat |-> s, kind |-> kind, tile |-> FromIndex(i), from |-> from] \in Gang
    BY DEF Gang
  <2> QED
    BY <1>2, <2>1 DEF appendGangScoreEvents
<1>8. LedgerTypes'
  BY <1>2, <1>6, <1>7 DEF LedgerIInv, LedgerTypes, OnlyChanges
<1>9. EventsExplained'
  <2> SUFFICES ASSUME NEW k \in 1..Len(events')
               PROVE  \/ events'[k].winner = SeatInvalid /\ events'[k].reason \in GangReasons /\ events'[k].amount > 0
                      \/ \E w \in 1..Len(wins) :
                            /\ wins[w].seat = events'[k].winner
                            /\ wins[w].fan = events'[k].fan /\ wins[w].names = events'[k].names
    BY DEF EventsExplained
  <2>1. CASE k \in 1..Len(events)
    BY <1>6, <2>1 DEF LedgerIInv, EventsExplained
  <2>2. CASE \E j \in 1..Len(g) : k = Len(events) + j
    BY <1>4, <1>6, <2>2
  <2> QED
    BY <1>6, <2>1, <2>2
<1>10. WinsPaid'
  <2>1. \A w \in 1..Len(wins) : wins[w].seat \in late' \/ ~holdsQueSuit(hands[wins[w].seat], wins[w].seat)'
    BY OthersStay
  <2>2. ASSUME NEW w \in 1..Len(wins)
        PROVE  /\ \E k \in 1..Len(events') : events'[k].winner = wins[w].seat
               /\ \A v \in 1..Len(wins) : wins[v].seat = wins[w].seat => v = w
    <3>1. PICK k \in 1..Len(events) : events[k].winner = wins[w].seat
      BY DEF LedgerIInv, WinsPaid
    <3>2. \A v \in 1..Len(wins) : wins[v].seat = wins[w].seat => v = w
      BY DEF LedgerIInv, WinsPaid
    <3> QED
      BY <1>6, <3>1, <3>2
  <2> QED
    BY <2>1, <2>2 DEF WinsPaid
<1>11. SomebodyLeft' /\ SettledFromState'
  BY DEF LedgerIInv, SomebodyLeft, SettledFromState, Settled, activeSeats, Hued
<1>12. HandsCounted'
  <2>1. Throwers' \subseteq Throwers
    BY DEF Throwers, activeSeats, Hued, SeatInvalid, Seats
  <2> QED
    BY <2>1, CountsKept
<1>13. GangsShown'
  <2> SUFFICES ASSUME NEW k \in 1..Len(events'), events'[k].winner = SeatInvalid
               PROVE  Len(meldFacts'[events'[k].to]) > 0
    BY DEF GangsShown
  <2>1. CASE k \in 1..Len(events)
    <3>1. events'[k] = events[k] /\ events[k] \in Event
      BY <1>2, <1>6, <2>1
    <3>2. events[k].to \in Seats /\ Len(meldFacts[events[k].to]) > 0
      BY <2>1, <3>1 DEF Event, LedgerIInv, GangsShown
    <3> QED
      BY <3>1, <3>2 DEF OnlyChanges
  <2>2. CASE \E j \in 1..Len(g) : k = Len(events) + j
    <3>1. PICK j \in 1..Len(g) : k = Len(events) + j
      BY <2>2
    <3>2. events'[k] = g[j] /\ g[j].to = s
      BY <1>4, <1>6, <3>1
    <3>3. events'[k].to = s
      BY <3>2
    <3> QED
      BY <3>3
  <2> QED
    BY <1>6, <2>1, <2>2
<1> QED
  BY <1>8, <1>9, <1>10, <1>11, <1>12, <1>13 DEF LedgerIInv

(* A pong, or a drawn tile that is kept for another one, changes one hand. *)
LEMMA HandStep ==
    ASSUME LedgerIInv, result = NoResult, NEW s \in Seats,
           OnlyChanges(s), LaysDown(s), due' = SeatInvalid,
           UNCHANGED << ruleState, events, gangs, wins, gone, result >>
    PROVE  LedgerIInv'
<1>1. LedgerTypes' /\ EventsExplained' /\ WinsPaid' /\ GangsShown'
  <2>1. gone' \in SUBSET Seats
    BY DEF LedgerIInv, LedgerTypes
  <2> QED
    BY <2>1, PointsStay
<1>2. SomebodyLeft' /\ SettledFromState'
  BY DEF LedgerIInv, SomebodyLeft, SettledFromState, Settled, activeSeats, Hued
<1>3. HandsCounted'
  <2>1. Throwers' \subseteq Throwers
    BY DEF Throwers, activeSeats, Hued, SeatInvalid, Seats
  <2> QED
    BY <2>1, CountsKept
<1> QED
  BY <1>1, <1>2, <1>3 DEF LedgerIInv

(* A seat leaves, or the wall runs out, and the round may be over.         *)
LEMMA LeavingStep ==
    ASSUME LedgerIInv, NEW s \in Seats, NEW h, NEW out, NEW empty, hands' = h, gone' = out, out \in SUBSET Seats,
           OnlyChanges(s), LaysDown(s) \/ KeepsOneMore(s), Throwers' \subseteq Throwers,
           UNCHANGED << ruleState, events, gangs, wins >>, finishRound(h, events, Hued, out, empty)
    PROVE  LedgerIInv'
<1>1. LedgerTypes' /\ EventsExplained' /\ WinsPaid' /\ GangsShown'
  BY PointsStay
<1>2. Hued' = Hued
  BY DEF Hued
<1>3. SomebodyLeft' /\ SettledFromState'
  BY <1>2, RoundClosed
<1>4. HandsCounted'
  BY CountsKept
<1> QED
  BY <1>1, <1>3, <1>4 DEF LedgerIInv

(* A win is recorded and paid for by somebody.                             *)
LEMMA WinStep ==
    ASSUME LedgerIInv, NEW s \in Seats, NEW i \in Drawn, NEW contexts, ApplyHu(s, i, contexts),
           \A sc \in contexts : /\ sc.seat = s /\ sc.tsumo \in BOOLEAN /\ sc.step \in Nat
                                /\ sc.from \in Seats \cup {SeatInvalid}
                                /\ ~sc.tsumo => sc.from \in Seats \ {s}
                                /\ sc.turn \in Throwers \cup {SeatInvalid}
    PROVE  LedgerIInv'
<1>1. PICK hu : hu = XzddCheckHu(s, FromIndex(i))
  OBVIOUS
<1>2. InPlay(s) /\ hu.ok
  BY <1>1 DEF ApplyHu
<1>3. result = NoResult /\ ruleState.declared /\ s \in activeSeats
  BY <1>2 DEF InPlay
<1>4. PICK sc \in contexts :
          /\ events' = events \o ScoreWin(hu.win, sc)
          /\ wins' = Append(wins, [seat |-> s, tile |-> FromIndex(i), from |-> sc.from, step |-> sc.step,
                                   fan |-> TotalFan(scoreFans(hu.win, sc)), names |-> FanNames(scoreFans(hu.win, sc))])
          /\ due' = (IF huClaimLeft(s, sc.from, FromIndex(i)) THEN sc.turn ELSE SeatInvalid)
          /\ UNCHANGED << hands, meldFacts, ruleState, gangs, pond, late, gone >>
          /\ finishRound(hands, events \o ScoreWin(hu.win, sc), Hued \cup {s}, gone, sc.haiDi)
  BY <1>1 DEF ApplyHu
<1>20. due' \in Throwers \cup {SeatInvalid} /\ due' \in Seats \cup {SeatInvalid}
  <2>1. sc.turn \in Throwers \cup {SeatInvalid}
    OBVIOUS
  <2>2. due' \in Throwers \cup {SeatInvalid}
    BY <1>4, <2>1
  <2> QED
    BY <2>2 DEF Throwers, activeSeats
<1>5. LedgerTypes /\ events \in Seq(Event) /\ gangs \in Seq(Gang) /\ wins \in Seq(Win)
  BY DEF LedgerIInv, LedgerTypes
<1>6. PICK g, n, f : /\ g = ScoreWin(hu.win, sc) /\ n = TotalFan(scoreFans(hu.win, sc))
                     /\ f = FanNames(scoreFans(hu.win, sc))
  OBVIOUS
<1>7. n \in Nat /\ f \in SUBSET Fans
  BY <1>5, <1>6, FansAddUp
<1>8. activeSeats \ {s} # {}
  <2>1. Cardinality(activeSeats) > 1
    BY <1>3 DEF LedgerIInv, SomebodyLeft
  <2>2. Cardinality({s}) = 1
    BY FS_Singleton, Zenon
  <2>3. ASSUME activeSeats = {s}
        PROVE  FALSE
    <3>1. Cardinality(activeSeats) = 1
      BY <2>2, <2>3, Zenon
    <3> QED
      BY <2>1, <3>1
  <2> QED
    BY <1>3, <2>3
<1>9. /\ g \in Seq(Event) /\ Len(g) > 0
      /\ \A k \in 1..Len(g) : g[k].winner = s /\ g[k].fan = n /\ g[k].names = f
  <2>1. sc.seat = s /\ sc.tsumo \in BOOLEAN /\ (~sc.tsumo => sc.from \in Seats \ {s})
    OBVIOUS
  <2> QED
    BY <1>5, <1>6, <1>8, <2>1, WinPoints
<1>10. /\ events' \in Seq(Event) /\ Len(events') = Len(events) + Len(g) /\ Len(events) \in Nat /\ Len(g) \in Nat
       /\ \A k \in 1..Len(events) : k \in 1..Len(events') /\ events'[k] = events[k]
       /\ \A j \in 1..Len(g) : Len(events) + j \in 1..Len(events') /\ events'[Len(events) + j] = g[j]
       /\ \A k \in 1..Len(events') : k \in 1..Len(events) \/ \E j \in 1..Len(g) : k = Len(events) + j
  <2>1. events' \in Seq(Event) /\ Holds(events', events, g)
    BY <1>4, <1>5, <1>6, <1>9, Joined
  <2> QED
    BY <2>1, Zenon DEF Holds
<1>11. PICK win : win = [seat |-> s, tile |-> FromIndex(i), from |-> sc.from, step |-> sc.step, fan |-> n, names |-> f]
  OBVIOUS
<1>12. win \in Win /\ win.seat = s /\ win.fan = n /\ win.names = f
  <2>1. sc.from \in Seats \cup {SeatInvalid} /\ sc.step \in Nat
    OBVIOUS
  <2> QED
    BY <1>7, <1>11, <2>1 DEF Win
<1>13. /\ wins' = Append(wins, win) /\ wins' \in Seq(Win) /\ Len(wins') = Len(wins) + 1 /\ Len(wins) \in Nat
       /\ \A w \in 1..Len(wins) : wins'[w] = wins[w]
       /\ wins'[Len(wins) + 1] = win
  BY <1>4, <1>5, <1>6, <1>11, <1>12
<1>14. \A w \in 1..Len(wins') : w \in 1..Len(wins) \/ w = Len(wins) + 1
  BY <1>13
<1>15. Hued' = Hued \cup {s}
  <2>1. \A w \in 1..Len(wins) : w \in 1..Len(wins')
    BY <1>13
  <2>2. Len(wins) + 1 \in 1..Len(wins')
    BY <1>13
  <2> QED
    BY <1>12, <1>13, <1>14, <2>1, <2>2 DEF Hued
<1>16. LedgerTypes'
  BY <1>4, <1>5, <1>10, <1>13, <1>20 DEF LedgerTypes
<1>17. EventsExplained'
  <2> SUFFICES ASSUME NEW k \in 1..Len(events')
               PROVE  \/ events'[k].winner = SeatInvalid /\ events'[k].reason \in GangReasons /\ events'[k].amount > 0
                      \/ \E w \in 1..Len(wins') :
                            /\ wins'[w].seat = events'[k].winner
                            /\ wins'[w].fan = events'[k].fan /\ wins'[w].names = events'[k].names
    BY DEF EventsExplained
  <2>1. CASE k \in 1..Len(events)
    <3>1. events'[k] = events[k]
      BY <1>10, <2>1
    <3>2. CASE events[k].winner = SeatInvalid /\ events[k].reason \in GangReasons /\ events[k].amount > 0
      BY <3>1, <3>2
    <3>3. CASE \E w \in 1..Len(wins) : /\ wins[w].seat = events[k].winner
                                       /\ wins[w].fan = events[k].fan /\ wins[w].names = events[k].names
      <4>1. PICK w \in 1..Len(wins) : /\ wins[w].seat = events[k].winner
                                      /\ wins[w].fan = events[k].fan /\ wins[w].names = events[k].names
        BY <3>3
      <4>2. w \in 1..Len(wins') /\ wins'[w] = wins[w]
        BY <1>13
      <4> QED
        BY <3>1, <4>1, <4>2
    <3> QED
      BY <2>1, <3>2, <3>3 DEF LedgerIInv, EventsExplained
  <2>2. CASE \E j \in 1..Len(g) : k = Len(events) + j
    <3>1. events'[k].winner = s /\ events'[k].fan = n /\ events'[k].names = f
      <4>1. PICK j \in 1..Len(g) : k = Len(events) + j
        BY <2>2
      <4>2. events'[k] = g[j]
        BY <1>10, <4>1
      <4> QED
        BY <1>9, <4>2
    <3>2. Len(wins) + 1 \in 1..Len(wins')
      BY <1>13
    <3> QED
      BY <1>12, <1>13, <3>1, <3>2
  <2> QED
    BY <1>10, <2>1, <2>2
<1>18. WinsPaid'
  <2>2. ~holdsQueSuit(hands[s], s)
    BY <1>1, <1>2, <1>3, <1>5, WinnerHoldsNone
  <2>3. \A w \in 1..Len(wins) : wins[w].seat # s /\ wins[w].seat \in Seats
    <3> SUFFICES ASSUME NEW w \in 1..Len(wins)
                 PROVE  wins[w].seat # s /\ wins[w].seat \in Seats
      OBVIOUS
    <3>1. wins[w] \in Win
      BY <1>5
    <3> QED
      BY <1>3, <3>1 DEF activeSeats, Hued, Win
  <2> SUFFICES ASSUME NEW w \in 1..Len(wins')
               PROVE  /\ wins'[w].seat \in late' \/ ~holdsQueSuit(hands[wins[w].seat], wins[w].seat)'
                      /\ \E k \in 1..Len(events') : events'[k].winner = wins'[w].seat
                      /\ \A v \in 1..Len(wins') : wins'[v].seat = wins'[w].seat => v = w
    BY DEF WinsPaid
  <2>4. CASE w \in 1..Len(wins)
    <3>1. wins'[w] = wins[w]
      BY <1>13, <2>4
    <3>2. wins[w].seat \in late \/ ~holdsQueSuit(hands[wins[w].seat], wins[w].seat)
      BY <2>4 DEF LedgerIInv, WinsPaid
    <3>3. PICK k \in 1..Len(events) : events[k].winner = wins[w].seat
      BY <2>4 DEF LedgerIInv, WinsPaid
    <3>4. k \in 1..Len(events') /\ events'[k].winner = wins'[w].seat
      BY <1>10, <3>1, <3>3
    <3>5. ASSUME NEW v \in 1..Len(wins'), wins'[v].seat = wins'[w].seat
          PROVE  v = w
      <4>1. CASE v \in 1..Len(wins)
        BY <1>13, <2>4, <3>1, <3>5, <4>1 DEF LedgerIInv, WinsPaid
      <4>2. CASE v = Len(wins) + 1
        BY <1>12, <1>13, <2>3, <2>4, <3>1, <3>5, <4>2
      <4> QED
        BY <1>14, <4>1, <4>2
    <3>6. wins'[w].seat \in late' \/ ~holdsQueSuit(hands[wins[w].seat], wins[w].seat)'
      BY <1>4, <3>1, <3>2 DEF holdsQueSuit
    <3> QED
      BY <3>4, <3>5, <3>6
  <2>5. CASE w = Len(wins) + 1
    <3>1. wins'[w].seat = s
      BY <1>12, <1>13, <2>5
    <3>2. ~holdsQueSuit(hands[wins[w].seat], wins[w].seat)'
      BY <1>4, <2>2, <3>1 DEF holdsQueSuit
    <3>3. Len(events) + 1 \in 1..Len(events') /\ events'[Len(events) + 1].winner = s
      <4>1. 1 \in 1..Len(g)
        BY <1>9, <1>10
      <4> QED
        BY <1>9, <1>10, <4>1
    <3>4. ASSUME NEW v \in 1..Len(wins'), wins'[v].seat = s
          PROVE  v = w
      BY <1>13, <1>14, <2>3, <2>5, <3>4
    <3> QED
      BY <3>1, <3>2, <3>3, <3>4
  <2> QED
    BY <1>14, <2>4, <2>5
<1>19. SomebodyLeft' /\ SettledFromState'
  <2>1. PICK ev, won : ev = events \o ScoreWin(hu.win, sc) /\ won = Hued \cup {s}
    OBVIOUS
  <2>2. /\ finishRound(hands, ev, won, gone, sc.haiDi) /\ ev = events' /\ won = Hued' /\ gone = gone'
        /\ hands' = hands /\ ruleState' = ruleState
    BY <1>4, <1>15, <2>1
  <2> QED
    BY <2>2, RoundClosed
<1>21. HandsCounted'
  <2>1. Throwers' \subseteq Throwers
    BY <1>4, <1>15, <1>20 DEF Throwers, activeSeats, Seats, SeatInvalid
  <2>2. OnlyChanges(s)
    BY <1>4, <1>5, <1>20 DEF OnlyChanges, LedgerTypes
  <2>3. LaysDown(s)
    <3>1. Total(hands[s]) \in Nat /\ Opened(meldFacts[s]) \in {0, 2}
      BY <1>5, HandsNumber DEF Opened
    <3> QED
      BY <1>4, <3>1 DEF LaysDown
  <2> QED
    BY <2>1, <2>2, <2>3, CountsKept
<1>22. GangsShown'
  <2> SUFFICES ASSUME NEW k \in 1..Len(events'), events'[k].winner = SeatInvalid
               PROVE  Len(meldFacts'[events'[k].to]) > 0
    BY DEF GangsShown
  <2>1. CASE k \in 1..Len(events)
    BY <1>4, <1>10, <2>1 DEF LedgerIInv, GangsShown
  <2>2. CASE \E j \in 1..Len(g) : k = Len(events) + j
    BY <1>9, <1>10, <2>2 DEF Seats, SeatInvalid
  <2> QED
    BY <1>10, <2>1, <2>2
<1> QED
  BY <1>16, <1>17, <1>18, <1>19, <1>21, <1>22 DEF LedgerIInv

(* Tiles of one index taken out of a hand make it smaller by as many.      *)
LEMMA HandSmaller ==
    ASSUME NEW h \in [Playable -> Nat], NEW i \in Playable, NEW n \in Nat, h[i] >= n
    PROVE  Less(h, i, n) \in [Playable -> Nat] /\ Total(Less(h, i, n)) + n = Total(h)
<1>1. PICK d : d = Less(h, i, n)
  OBVIOUS
<1>2. d \in [Playable -> Nat] /\ \A j \in Playable \ {i} : d[j] = h[j]
  BY <1>1, LessKept
<1>3. d[i] = h[i] - n
  BY <1>1 DEF Less
<1>4. Elsewhere(Playable, i, h, d)
  BY <1>2 DEF Elsewhere
<1>5. Total(d) + h[i] = Total(h) + d[i] /\ Total(h) \in Nat /\ Total(d) \in Nat
  BY <1>2, <1>4, PlayableFinite, TotalReplaced
<1>6. h[i] \in Nat
  OBVIOUS
<1> QED
  BY <1>1, <1>2, <1>3, <1>5, <1>6

(* One tile more makes it larger by one.                                   *)
LEMMA HandLarger ==
    ASSUME NEW h \in [Playable -> Nat], NEW i \in Playable
    PROVE  More(h, i) \in [Playable -> Nat] /\ Total(More(h, i)) = Total(h) + 1
<1>1. PICK d : d = More(h, i)
  OBVIOUS
<1>2. d \in [Playable -> Nat] /\ d[i] = h[i] + 1 /\ h[i] \in Nat
  BY <1>1 DEF More
<1>3. Elsewhere(Playable, i, h, d)
  BY <1>1 DEF Elsewhere, More
<1>4. Total(d) + h[i] = Total(h) + d[i] /\ Total(h) \in Nat /\ Total(d) \in Nat
  BY <1>2, <1>3, PlayableFinite, TotalReplaced
<1> QED
  BY <1>1, <1>2, <1>4

(* What a win may be scored as.                                            *)
ScoredAs(s, sc) ==
    /\ sc.seat = s /\ sc.tsumo \in BOOLEAN /\ sc.step \in Nat
    /\ sc.from \in Seats \cup {SeatInvalid}
    /\ ~sc.tsumo => sc.from \in Seats \ {s}
    /\ sc.turn \in Throwers \cup {SeatInvalid}

(* The seat that draws next is one in play.                                *)
LEMMA NextInPlay ==
    ASSUME NEW from \in Seats, activeSeats # {}
    PROVE  nextActiveSeat(from) \in activeSeats
<1> DEFINE Away(s) == (s - from + 3) % 4
<1>1. PICK S : S = activeSeats
  OBVIOUS
<1>2. S # {} /\ S \subseteq Seats
  BY <1>1 DEF activeSeats
<1>3. \A s \in Seats : Away(s) \in 0..3
  BY DEF Seats
<1>4. PICK D : D = {Away(s) : s \in S}
  OBVIOUS
<1>5. D \in SUBSET Nat /\ D # {}
  BY <1>2, <1>3, <1>4
<1>6. PICK d \in D : \A e \in D : d <= e
  BY <1>5, SomeFirst
<1>7. PICK s \in S : Away(s) = d
  BY <1>4, <1>6
<1>8. \A o \in S : Away(s) <= Away(o)
  BY <1>4, <1>6, <1>7
<1>9. \E x \in activeSeats : \A o \in activeSeats : (x - from + 3) % 4 <= (o - from + 3) % 4
  BY <1>1, <1>7, <1>8
<1> QED
  BY <1>9, Zenon DEF nextActiveSeat

(* Every context a win can be scored in, drawn, discarded or robbed from a *)
(* gang, is the winner's, names who pays, and gives the turn to a seat     *)
(* that may draw.                                                          *)
LEMMA ContextsScored ==
    ASSUME LedgerTypes, NEW s \in activeSeats, NEW i \in Drawn
    PROVE  /\ \A sc \in TsumoContexts(s) : ScoredAs(s, sc)
           /\ \A from \in Payers(s) : \A sc \in DiscardContexts(s, from) : ScoredAs(s, sc)
           /\ \A sc \in AgainContexts(s, i) : ScoredAs(s, sc)
           /\ \A from \in activeSeats \ {s} : \A sc \in QiangGangContexts(s, i, from) : ScoredAs(s, sc)
<1>1. wins \in Seq(Win) /\ Len(wins) \in Nat /\ Len(wins) + 1 \in Nat
  BY DEF LedgerTypes
<1>2. ASSUME NEW sc \in TsumoContexts(s)
      PROVE  ScoredAs(s, sc)
  <2> DEFINE O == Flag(Untouched)
             B == BOOLEAN
             G == Flag(FollowsGang({s}))
  <2>2. TsumoContexts(s)
          = {[seat |-> s, tsumo |-> TRUE, from |-> SeatInvalid, opening |-> o, first |-> FALSE, haiDi |-> h,
              gangShangHua |-> g, gangShangPao |-> FALSE, step |-> Len(wins) + 1, turn |-> SeatInvalid]
                : o \in O, h \in B, g \in G}
    BY DEF TsumoContexts
  <2> HIDE DEF O, B, G
  <2>3. sc.seat = s /\ sc.tsumo = TRUE /\ sc.step = Len(wins) + 1 /\ sc.from = SeatInvalid /\ sc.turn = SeatInvalid
    BY <2>2
  <2> QED
    BY <1>1, <2>3 DEF ScoredAs
<1>3. ASSUME NEW from \in Payers(s)
      PROVE  from \in Seats \ {s}
  BY DEF Payers, Throwers, activeSeats
<1>4. ASSUME NEW from \in activeSeats \ {s}, NEW sc \in QiangGangContexts(s, i, from)
      PROVE  ScoredAs(s, sc)
  <2>1. PICK h \in {x \in BOOLEAN : hasPongMeld(meldFacts[from], FromIndex(i))}, g \in Flag(FollowsGang(Seats)) :
                    sc = [seat |-> s, tsumo |-> FALSE, from |-> from, opening |-> FALSE, first |-> FALSE,
                          haiDi |-> h, gangShangHua |-> FALSE, gangShangPao |-> g, step |-> Len(wins) + 1, turn |-> from]
    BY <1>4 DEF QiangGangContexts
  <2>2. sc.seat = s /\ sc.tsumo = FALSE /\ sc.step = Len(wins) + 1 /\ sc.from = from /\ sc.turn = from
    BY <2>1
  <2>3. from \in Seats \ {s} /\ from \in Throwers
    BY <1>4 DEF Throwers, activeSeats
  <2> QED
    BY <1>1, <2>2, <2>3 DEF ScoredAs
<1>5. ASSUME NEW from \in Payers(s), NEW sc \in DiscardContexts(s, from)
      PROVE  ScoredAs(s, sc)
  <2>1. PICK next : next = nextActiveSeat(from)
    OBVIOUS
  <2>2. sc.seat = s /\ sc.tsumo = FALSE /\ sc.from = from /\ sc.step = Len(wins) + 1 /\ sc.turn = next
    BY <1>5, <2>1 DEF DiscardContexts
  <2>3. next \in Throwers
    BY <1>3, <2>1, NextInPlay DEF Throwers
  <2> QED
    BY <1>1, <1>3, <2>2, <2>3 DEF ScoredAs
<1>6. ASSUME NEW sc \in AgainContexts(s, i)
      PROVE  ScoredAs(s, sc)
  <2>1. PICK j \in {Len(wins)} \ {0} :
            /\ due \in Seats /\ wins[j].from \in Seats \ {s}
            /\ sc.seat = s /\ sc.tsumo = FALSE /\ sc.from = wins[j].from /\ sc.step = wins[j].step /\ sc.turn = due
    BY <1>6 DEF AgainContexts
  <2>2. j \in 1..Len(wins)
    BY <1>1
  <2>3. wins[j] \in Win
    BY <1>1, <2>2
  <2>4. wins[j].step \in Nat
    BY <2>3 DEF Win
  <2> QED
    BY <2>1, <2>4 DEF ScoredAs, Throwers
<1> QED
  BY <1>2, <1>4, <1>5, <1>6

(* What a seat lays down, three or four of a tile, is a fact.              *)
LEMMA LaidFacts ==
    ASSUME LedgerTypes, NEW s \in Seats, NEW i \in Drawn, NEW kind \in {"pong", "zhi_gang", "an_gang"},
           NEW n \in {3, 4}, kind = "pong" => n = 3, NEW from \in Seats \cup {SeatInvalid},
           from = SeatInvalid <=> kind = "an_gang",
           meldFacts' = [meldFacts EXCEPT ![s] = Append(@, encodeMeldFact(kind, [k \in 1..n |-> FromIndex(i)], from))]
    PROVE  /\ meldFacts' \in [Seats -> Seq(MeldFacts)] /\ Len(meldFacts'[s]) > 0
           /\ \A o \in Seats \ {s} : meldFacts'[o] = meldFacts[o]
<1>1. PICK tiles : tiles = [k \in 1..n |-> FromIndex(i)]
  OBVIOUS
<1>2. i \in Playable
  <2>1. i \in 0..SuitedTileCount - 1
    BY DealsAssumption
  <2> QED
    BY <2>1 DEF Playable, PlayableTileCount, SuitedTileCount
<1>3. FromIndex(i) \in PlayTiles
  BY <1>2 DEF PlayTiles
<1>4. tiles \in Seq(PlayTiles) /\ Len(tiles) = n /\ \A k \in 1..n : tiles[k] = FromIndex(i)
  <2>1. PICK t : t = FromIndex(i)
    OBVIOUS
  <2>2. t \in PlayTiles /\ tiles = [k \in 1..n |-> t]
    BY <1>1, <1>3, <2>1
  <2> QED
    BY <2>1, <2>2
<1>5. PICK f : f = encodeMeldFact(kind, tiles, from)
  OBVIOUS
<1>6. f \in MeldFacts
  <2>1. kind \in MeldKinds /\ Len(tiles) \in {3, 4} /\ from \in 0..3 \cup {SeatInvalid}
    BY <1>4 DEF MeldKinds, Seats
  <2>2. kind = "pong" => Len(tiles) = 3 /\ \A k \in 1..3 : tiles[k] = tiles[1]
    BY <1>4
  <2> QED
    BY <1>4, <1>5, <2>1, <2>2, FactMade
<1>7. PICK old \in Seq(MeldFacts) : old = meldFacts[s]
  BY DEF LedgerTypes
<1>8. PICK new : new = Append(old, f)
  OBVIOUS
<1>9. new \in Seq(MeldFacts) /\ Len(new) > 0
  BY <1>6, <1>7, <1>8
<1>10. meldFacts' = [meldFacts EXCEPT ![s] = new]
  BY <1>1, <1>5, <1>7, <1>8
<1> QED
  BY <1>9, <1>10 DEF LedgerTypes

(* A hand loses the tiles of a meld, or a tile for another one.            *)
LEMMA MeldLaid ==
    ASSUME LedgerIInv, NEW s \in activeSeats, NEW h \in [Playable -> Nat], hands' = [hands EXCEPT ![s] = h],
           Total(h) + 2 <= Total(hands[s]), due' = SeatInvalid, late' = late,
           meldFacts' \in [Seats -> Seq(MeldFacts)], Len(meldFacts'[s]) > 0,
           \A o \in Seats \ {s} : meldFacts'[o] = meldFacts[o]
    PROVE  s \in Seats /\ OnlyChanges(s) /\ LaysDown(s)
<1>1. s \in Seats /\ s \notin Hued /\ LedgerTypes
  BY DEF activeSeats, LedgerIInv
<1>2. /\ hands' \in [Seats -> [Playable -> Nat]] /\ hands'[s] = h
      /\ \A o \in Seats \ {s} : hands'[o] = hands[o]
  BY <1>1 DEF LedgerTypes
<1>3. OnlyChanges(s)
  BY <1>1, <1>2 DEF OnlyChanges, LedgerTypes
<1>4. LaysDown(s)
  <2>1. Total(hands[s]) \in Nat /\ Opened(meldFacts[s]) \in {0, 2} /\ Opened(meldFacts'[s]) \in {0, 2}
    BY <1>1, HandsNumber DEF Opened
  <2>2. Total(h) \in Nat
    BY PlayableFinite, TotalType
  <2> QED
    BY <1>2, <2>1, <2>2 DEF LaysDown
<1> QED
  BY <1>1, <1>3, <1>4

(* The pong becomes a gang.                                                *)
LEMMA PongGrown ==
    ASSUME LedgerIInv, NEW s \in activeSeats, NEW i \in Drawn, hasPongMeld(meldFacts[s], FromIndex(i)),
           meldFacts' = [meldFacts EXCEPT ![s] = upgradePongToBuGang(@, FromIndex(i))],
           hands' = hands, due' = SeatInvalid, late' = late
    PROVE  s \in Seats /\ OnlyChanges(s) /\ LaysDown(s) /\ Len(meldFacts'[s]) > 0
<1>1. s \in Seats /\ LedgerTypes
  BY DEF activeSeats, LedgerIInv
<1>2. PICK fs \in Seq(MeldFacts) : fs = meldFacts[s]
  BY <1>1 DEF LedgerTypes
<1>3. PICK t : t = FromIndex(i)
  OBVIOUS
<1>4. i \in Playable
  BY DealsAssumption DEF Playable, PlayableTileCount, SuitedTileCount
<1>5. PICK x \in 1..Len(fs), from \in 0..3 : Grows(fs, t, x, from)
  BY <1>2, <1>3, <1>4, PongFound
<1>6. PICK f : f = encodeMeldFact("bu_gang", [k \in 1..4 |-> t], from)
  OBVIOUS
<1>7. f \in MeldFacts
  <2>1. PICK tiles : tiles = [k \in 1..4 |-> t]
    OBVIOUS
  <2>2. t \in PlayTiles
    BY <1>3, <1>4 DEF PlayTiles
  <2>3. tiles \in Seq(PlayTiles) /\ Len(tiles) = 4
    BY <2>1, <2>2
  <2>4. "bu_gang" \in MeldKinds /\ from # SeatInvalid
    BY DEF MeldKinds, SeatInvalid
  <2> QED
    BY <1>6, <2>1, <2>3, <2>4, FactMade
<1>8. PICK gs : gs = [fs EXCEPT ![x] = f]
  OBVIOUS
<1>9. gs \in Seq(MeldFacts) /\ Len(gs) = Len(fs) /\ Len(fs) > 0
  BY <1>7, <1>8
<1>10. meldFacts' = [meldFacts EXCEPT ![s] = gs]
  BY <1>2, <1>3, <1>5, <1>6, <1>8 DEF Grows
<1>11. /\ meldFacts' \in [Seats -> Seq(MeldFacts)] /\ meldFacts'[s] = gs
       /\ \A o \in Seats \ {s} : meldFacts'[o] = meldFacts[o]
  BY <1>1, <1>9, <1>10 DEF LedgerTypes
<1>12. OnlyChanges(s)
  BY <1>1, <1>9, <1>11 DEF OnlyChanges, LedgerTypes
<1>13. LaysDown(s)
  <2>1. Total(hands[s]) \in Nat /\ Opened(fs) = Opened(gs) /\ Opened(fs) \in {0, 2}
    BY <1>1, <1>9, HandsNumber DEF Opened
  <2> QED
    BY <1>2, <1>11, <2>1 DEF LaysDown
<1> QED
  BY <1>1, <1>9, <1>11, <1>12, <1>13

(* Every step of the ledger keeps its inductive invariant.                 *)
LEMMA LedgerKeeps == LedgerIInv /\ [LedgerNext]_ledgerVars => LedgerIInv'
<1> SUFFICES ASSUME LedgerIInv, [LedgerNext]_ledgerVars
             PROVE  LedgerIInv'
  OBVIOUS
<1>1. LedgerTypes
  BY DEF LedgerIInv
<1>2. \A s \in Seats : /\ hands[s] \in [Playable -> Nat] /\ Total(hands[s]) \in Nat
                       /\ \A i \in Playable : hands[s][i] \in Nat
  BY <1>1, HandsNumber
<1>3. \A i \in Drawn : i \in Playable /\ Index(FromIndex(i)) = i
  <2> SUFFICES ASSUME NEW i \in Drawn
               PROVE  i \in Playable /\ Index(FromIndex(i)) = i
    OBVIOUS
  <2>1. i \in 0..SuitedTileCount - 1
    BY DealsAssumption
  <2> QED
    BY <2>1, IndexBack DEF Playable, PlayableTileCount, SuitedTileCount
<1>4. ASSUME NEW s \in Seats, NEW i \in Drawn, MingGang(s, i)
      PROVE  LedgerIInv'
  <2>1. PICK from \in Throwers \ {s} :
            /\ hands[s][i] >= 3 /\ MayMeld(s, i)
            /\ hands' = [hands EXCEPT ![s] = Less(@, i, 3)]
            /\ meldFacts' = [meldFacts EXCEPT ![s] = Append(@, encodeMeldFact("zhi_gang", [k \in 1..4 |-> FromIndex(i)], from))]
            /\ appendGangScoreEvents(s, i, "ming", from)
            /\ due' = SeatInvalid
            /\ UNCHANGED << ruleState, wins, pond, late, gone, wallEmpty, result >>
    BY <1>4 DEF MingGang
  <2>2. result = NoResult /\ s \in activeSeats /\ from \in Seats /\ from # SeatInvalid
    BY <2>1 DEF MayMeld, InPlay, Throwers, activeSeats, Seats, SeatInvalid
  <2>3. PICK h : h = Less(hands[s], i, 3)
    OBVIOUS
  <2>4. h \in [Playable -> Nat] /\ Total(h) + 3 = Total(hands[s])
    <3>1. PICK old : old = hands[s]
      OBVIOUS
    <3>2. old \in [Playable -> Nat] /\ i \in Playable /\ old[i] >= 3
      BY <1>2, <1>3, <2>1, <3>1
    <3> QED
      BY <2>3, <3>1, <3>2, HandSmaller
  <2>5. hands' = [hands EXCEPT ![s] = h]
    BY <2>1, <2>3
  <2>6. /\ meldFacts' \in [Seats -> Seq(MeldFacts)] /\ Len(meldFacts'[s]) > 0
        /\ \A o \in Seats \ {s} : meldFacts'[o] = meldFacts[o]
    BY <1>1, <2>1, <2>2, LaidFacts
  <2>7. Total(h) + 2 <= Total(hands[s])
    <3>1. Total(h) \in Nat
      BY <2>4, PlayableFinite, TotalType
    <3> QED
      BY <2>4, <3>1
  <2>8. OnlyChanges(s) /\ LaysDown(s)
    BY <2>1, <2>2, <2>4, <2>5, <2>6, <2>7, MeldLaid
  <2> QED
    BY <2>1, <2>2, <2>6, <2>8, GangStep
<1>5. ASSUME NEW s \in Seats, NEW i \in Drawn, SeatAnGang(s, i)
      PROVE  LedgerIInv'
  <2>1. /\ CanAnGang([hands[s] EXCEPT ![i] = @ + 1], FromIndex(i)) /\ MayMeld(s, i)
        /\ hands' = [hands EXCEPT ![s] = Less(@, i, 3)]
        /\ meldFacts' = [meldFacts EXCEPT ![s] = Append(@, encodeMeldFact("an_gang", [k \in 1..4 |-> FromIndex(i)], SeatInvalid))]
        /\ appendGangScoreEvents(s, i, "an", SeatInvalid)
        /\ due' = SeatInvalid
        /\ UNCHANGED << ruleState, wins, pond, late, gone, wallEmpty, result >>
    BY <1>5 DEF SeatAnGang
  <2>2. result = NoResult /\ s \in activeSeats
    BY <2>1 DEF MayMeld, InPlay
  <2>3. PICK h : h = Less(hands[s], i, 3)
    OBVIOUS
  <2>4. h \in [Playable -> Nat] /\ Total(h) + 3 = Total(hands[s])
    <3>1. PICK old : old = hands[s]
      OBVIOUS
    <3>2. old \in [Playable -> Nat] /\ i \in Playable /\ old[i] \in Nat
      BY <1>2, <1>3, <3>1
    <3>3. [old EXCEPT ![i] = @ + 1][i] >= 4
      BY <1>3, <2>1, <3>1 DEF CanAnGang
    <3>4. old[i] >= 3
      BY <3>2, <3>3
    <3> QED
      BY <2>3, <3>1, <3>2, <3>4, HandSmaller
  <2>5. hands' = [hands EXCEPT ![s] = h]
    BY <2>1, <2>3
  <2>6. /\ meldFacts' \in [Seats -> Seq(MeldFacts)] /\ Len(meldFacts'[s]) > 0
        /\ \A o \in Seats \ {s} : meldFacts'[o] = meldFacts[o]
    BY <1>1, <2>1, LaidFacts
  <2>7. Total(h) + 2 <= Total(hands[s])
    <3>1. Total(h) \in Nat
      BY <2>4, PlayableFinite, TotalType
    <3> QED
      BY <2>4, <3>1
  <2>8. OnlyChanges(s) /\ LaysDown(s)
    BY <2>1, <2>2, <2>4, <2>5, <2>6, <2>7, MeldLaid
  <2> QED
    BY <2>1, <2>2, <2>6, <2>8, GangStep
<1>6. ASSUME NEW s \in Seats, NEW i \in Drawn, SeatPong(s, i)
      PROVE  LedgerIInv'
  <2>1. PICK from \in Throwers \ {s}, k \in Drawn \ {i} :
            /\ hands[s][i] >= 2 /\ hands[s][k] >= 1 /\ MayMeld(s, i)
            /\ hands' = [hands EXCEPT ![s] = Less(Less(@, i, 2), k, 1)]
            /\ meldFacts' = [meldFacts EXCEPT ![s] = Append(@, encodeMeldFact("pong", [j \in 1..3 |-> FromIndex(i)], from))]
            /\ due' = SeatInvalid
            /\ UNCHANGED << ruleState, events, gangs, wins, late, gone, wallEmpty, result >>
    BY <1>6 DEF SeatPong
  <2>2. result = NoResult /\ s \in activeSeats /\ from \in Seats /\ from # SeatInvalid
    BY <2>1 DEF MayMeld, InPlay, Throwers, activeSeats, Seats, SeatInvalid
  <2>3. PICK h : h = Less(Less(hands[s], i, 2), k, 1)
    OBVIOUS
  <2>4. h \in [Playable -> Nat] /\ Total(h) \in Nat /\ Total(h) + 3 = Total(hands[s])
    <3>1. PICK old : old = hands[s]
      OBVIOUS
    <3>2. old \in [Playable -> Nat] /\ i \in Playable /\ k \in Playable /\ old[i] >= 2 /\ old[k] >= 1
      BY <1>2, <1>3, <2>1, <3>1
    <3>3. PICK rest : rest = Less(old, i, 2)
      OBVIOUS
    <3>4. rest \in [Playable -> Nat] /\ rest[k] = old[k]
      <4>1. k \in Playable \ {i}
        BY <2>1, <3>2
      <4> QED
        BY <3>2, <3>3, <4>1, LessKept
    <3>5. Total(rest) + 2 = Total(old)
      BY <3>2, <3>3, HandSmaller
    <3>6. Less(rest, k, 1) \in [Playable -> Nat] /\ Total(Less(rest, k, 1)) + 1 = Total(rest)
      BY <3>2, <3>4, HandSmaller
    <3>7. h = Less(rest, k, 1)
      BY <2>3, <3>1, <3>3
    <3>8. Total(h) \in Nat /\ Total(rest) \in Nat
      BY <3>4, <3>6, <3>7, PlayableFinite, TotalType
    <3> QED
      BY <3>1, <3>5, <3>6, <3>7, <3>8
  <2>5. hands' = [hands EXCEPT ![s] = h]
    BY <2>1, <2>3
  <2>6. /\ meldFacts' \in [Seats -> Seq(MeldFacts)] /\ Len(meldFacts'[s]) > 0
        /\ \A o \in Seats \ {s} : meldFacts'[o] = meldFacts[o]
    BY <1>1, <2>1, <2>2, LaidFacts
  <2>7. Total(h) + 2 <= Total(hands[s])
    BY <2>4
  <2>8. OnlyChanges(s) /\ LaysDown(s)
    BY <2>1, <2>2, <2>4, <2>5, <2>6, <2>7, MeldLaid
  <2> QED
    BY <2>1, <2>2, <2>8, HandStep
<1>7. ASSUME NEW s \in Seats, NEW i \in Drawn, SeatBuGang(s, i)
      PROVE  LedgerIInv'
  <2>1. /\ hasPongMeld(meldFacts[s], FromIndex(i)) /\ MayMeld(s, i) /\ appendGangScoreEvents(s, i, "bu", SeatInvalid)
        /\ meldFacts' = [meldFacts EXCEPT ![s] = upgradePongToBuGang(@, FromIndex(i))]
        /\ due' = SeatInvalid
        /\ UNCHANGED << hands, ruleState, wins, pond, late, gone, wallEmpty, result >>
    BY <1>7 DEF SeatBuGang
  <2>2. result = NoResult /\ s \in activeSeats
    BY <2>1 DEF MayMeld, InPlay
  <2>3. OnlyChanges(s) /\ LaysDown(s) /\ Len(meldFacts'[s]) > 0
    BY <2>1, <2>2, PongGrown
  <2> QED
    BY <2>1, <2>2, <2>3, GangStep
<1>8. ASSUME NEW s \in Seats, NEW i \in Drawn, NEW contexts, ApplyHu(s, i, contexts),
             \A sc \in contexts : ScoredAs(s, sc)
      PROVE  LedgerIInv'
  BY <1>8, WinStep DEF ScoredAs
<1>9. ASSUME NEW s \in Seats, NEW i \in Drawn, Tsumo(s, i) \/ HuOnDiscard(s, i) \/ HuOnGang(s, i)
      PROVE  LedgerIInv'
  <2>0. s \in activeSeats
    BY <1>9 DEF Tsumo, HuOnDiscard, HuOnGang, ApplyHu, InPlay
  <2>1. CASE Tsumo(s, i)
    BY <1>1, <1>8, <2>0, <2>1, ContextsScored DEF Tsumo
  <2>2. CASE HuOnDiscard(s, i)
    <3>1. /\ \A from \in Payers(s) : \A x \in DiscardContexts(s, from) : ScoredAs(s, x)
          /\ \A x \in AgainContexts(s, i) : ScoredAs(s, x)
      BY <1>1, <2>0, ContextsScored, Zenon
    <3>2. \A x \in ClaimContexts(s, i) : ScoredAs(s, x)
      <4> SUFFICES ASSUME NEW x \in ClaimContexts(s, i) PROVE ScoredAs(s, x)
        OBVIOUS
      <4>1. x \in AgainContexts(s, i) \/ \E from \in Payers(s) : x \in DiscardContexts(s, from)
        BY Zenon DEF ClaimContexts
      <4> QED
        BY <3>1, <4>1, Zenon
    <3> QED
      BY <1>8, <2>2, <3>2 DEF HuOnDiscard
  <2>3. CASE HuOnGang(s, i)
    <3>1. \A sc \in UNION {QiangGangContexts(s, i, from) : from \in activeSeats \ {s}} : ScoredAs(s, sc)
      BY <1>1, <2>0, ContextsScored
    <3> QED
      BY <1>8, <2>3, <3>1 DEF HuOnGang
  <2> QED
    BY <1>9, <2>1, <2>2, <2>3
<1>10. ASSUME NEW s \in Seats, NEW i \in Drawn, DrawsTile(s, i)
       PROVE  /\ result = NoResult /\ s \in Throwers /\ due' = SeatInvalid
              /\ UNCHANGED << meldFacts, ruleState, events, gangs, wins, wallEmpty >>
              /\ (/\ hands' \in [Seats -> [Playable -> Nat]]
                  /\ \A o \in Seats \ {s} : hands'[o] = hands[o]) => OnlyChanges(s)
  <2>1. /\ result = NoResult /\ s \in Throwers /\ due' = SeatInvalid /\ late' = late \cup ({s} \cap Hued)
        /\ UNCHANGED << meldFacts, ruleState, events, gangs, wins, wallEmpty >>
    BY <1>10 DEF DrawsTile
  <2>2. ASSUME hands' \in [Seats -> [Playable -> Nat]], \A o \in Seats \ {s} : hands'[o] = hands[o]
        PROVE  OnlyChanges(s)
    BY <1>1, <2>1, <2>2 DEF OnlyChanges, LedgerTypes
  <2> QED
    BY <2>1, <2>2
<1>11. ASSUME NEW s \in Seats, NEW i \in Drawn, KeepDraw(s, i)
       PROVE  LedgerIInv'
  <2>1. DrawsTile(s, i) /\ UNCHANGED << gone, result >>
    BY <1>11 DEF KeepDraw
  <2>2. PICK k \in Drawn \ {i} : hands[s][k] >= 1 /\ hands' = [hands EXCEPT ![s] = More(Less(@, k, 1), i)]
    BY <1>11 DEF KeepDraw
  <2>3. PICK old, rest, h : old = hands[s] /\ rest = Less(old, k, 1) /\ h = More(rest, i)
    OBVIOUS
  <2>4. old \in [Playable -> Nat] /\ i \in Playable /\ k \in Playable /\ old[k] >= 1
    BY <1>2, <1>3, <2>2, <2>3
  <2>5. rest \in [Playable -> Nat] /\ Total(rest) + 1 = Total(old)
    BY <2>3, <2>4, HandSmaller
  <2>6. h \in [Playable -> Nat] /\ Total(h) = Total(rest) + 1
    BY <2>3, <2>4, <2>5, HandLarger
  <2>7. Total(h) = Total(hands[s])
    BY <2>3, <2>5, <2>6
  <2>8. hands' = [hands EXCEPT ![s] = h]
    BY <2>2, <2>3
  <2>9. /\ hands' \in [Seats -> [Playable -> Nat]] /\ hands'[s] = h
        /\ \A o \in Seats \ {s} : hands'[o] = hands[o]
    BY <1>1, <2>6, <2>8 DEF LedgerTypes
  <2>10. /\ result = NoResult /\ due' = SeatInvalid /\ OnlyChanges(s)
         /\ UNCHANGED << meldFacts, ruleState, events, gangs, wins, wallEmpty >>
    BY <1>10, <2>1, <2>9
  <2>11. LaysDown(s)
    <3>1. Opened(meldFacts[s]) \in {0, 2} /\ Total(hands[s]) \in Nat
      BY <1>2 DEF Opened
    <3> QED
      BY <2>7, <2>9, <2>10, <3>1 DEF LaysDown
  <2> QED
    BY <2>1, <2>10, <2>11, HandStep
<1>12. ASSUME NEW s \in Seats, NEW i \in Drawn, TimeOutOnDraw(s, i)
       PROVE  LedgerIInv'
  <2>1. DrawsTile(s, i) /\ gone' = gone \cup {s}
    BY <1>12 DEF TimeOutOnDraw
  <2>2. /\ result = NoResult /\ s \in Throwers /\ due' = SeatInvalid
        /\ UNCHANGED << meldFacts, ruleState, events, gangs, wins, wallEmpty >>
    BY <1>10, <2>1
  <2>3. gone \cup {s} \in SUBSET Seats
    BY <1>1 DEF LedgerTypes
  <2>4. Throwers' \subseteq Throwers /\ s \notin Throwers'
    BY <2>1, <2>2 DEF Throwers, activeSeats, Hued, Seats, SeatInvalid
  <2>5. PICK h : /\ hands' = h /\ finishRound(h, events, Hued, gone \cup {s}, FALSE)
                 /\ h = hands \/ h = [hands EXCEPT ![s] = More(@, i)]
    BY <1>12 DEF TimeOutOnDraw
  <2>6. CASE h = hands
    <3>1. OnlyChanges(s)
      BY <1>1, <1>10, <2>1, <2>5, <2>6 DEF LedgerTypes
    <3>2. LaysDown(s)
      <4>1. Opened(meldFacts[s]) \in {0, 2} /\ Total(hands[s]) \in Nat
        BY <1>2 DEF Opened
      <4> QED
        BY <2>2, <2>5, <2>6, <4>1 DEF LaysDown
    <3> QED
      BY <2>1, <2>2, <2>3, <2>4, <2>5, <3>1, <3>2, LeavingStep
  <2>7. CASE h = [hands EXCEPT ![s] = More(@, i)]
    <3>1. PICK more : more = More(hands[s], i)
      OBVIOUS
    <3>2. more \in [Playable -> Nat] /\ Total(more) = Total(hands[s]) + 1
      <4>1. PICK old : old = hands[s]
        OBVIOUS
      <4>2. old \in [Playable -> Nat] /\ i \in Playable
        BY <1>2, <1>3, <4>1
      <4>3. more = More(old, i)
        BY <3>1, <4>1
      <4>4. more \in [Playable -> Nat] /\ Total(more) = Total(old) + 1
        BY <4>2, <4>3, HandLarger
      <4> QED
        BY <4>1, <4>4
    <3>3. h = [hands EXCEPT ![s] = more]
      BY <2>7, <3>1
    <3>4. /\ hands' \in [Seats -> [Playable -> Nat]] /\ hands'[s] = more
          /\ \A o \in Seats \ {s} : hands'[o] = hands[o]
      BY <1>1, <2>5, <3>2, <3>3 DEF LedgerTypes
    <3>5. OnlyChanges(s)
      BY <1>10, <2>1, <3>4
    <3>6. KeepsOneMore(s)
      BY <2>2, <2>4, <3>2, <3>4 DEF KeepsOneMore
    <3> QED
      BY <2>1, <2>2, <2>3, <2>4, <2>5, <3>5, <3>6, LeavingStep
  <2> QED
    BY <2>5, <2>6, <2>7
<1>13. ASSUME NEW s \in Seats, UNCHANGED << hands, meldFacts, late >>, due' \in {due, SeatInvalid}
       PROVE  OnlyChanges(s) /\ LaysDown(s)
  <2>1. OnlyChanges(s)
    BY <1>1, <1>13 DEF OnlyChanges, LedgerTypes
  <2>2. LaysDown(s)
    <3>1. Opened(meldFacts[s]) \in {0, 2} /\ Total(hands[s]) \in Nat
      BY <1>2 DEF Opened
    <3> QED
      BY <1>13, <3>1 DEF LaysDown
  <2> QED
    BY <2>1, <2>2
<1>14. ASSUME NEW s \in Seats, ApplySurrender(s)
       PROVE  LedgerIInv'
  <2>1. /\ UNCHANGED << hands, meldFacts, ruleState, events, gangs, wins, due, late >> /\ gone' = gone \cup {s}
        /\ finishRound(hands, events, Hued, gone \cup {s}, FALSE)
    BY <1>14 DEF ApplySurrender
  <2>2. gone \cup {s} \in SUBSET Seats
    BY <1>1 DEF LedgerTypes
  <2>3. Throwers' \subseteq Throwers
    BY <2>1 DEF Throwers, activeSeats, Hued
  <2>4. OnlyChanges(s) /\ LaysDown(s)
    BY <1>13, <2>1
  <2>5. PICK h, out : h = hands /\ out = gone \cup {s}
    OBVIOUS
  <2>6. hands' = h /\ gone' = out /\ out \in SUBSET Seats /\ finishRound(h, events, Hued, out, FALSE)
    BY <2>1, <2>2, <2>5
  <2> QED
    BY <2>1, <2>3, <2>4, <2>6, LeavingStep
<1>15. CASE LastDiscard
  <2>1. /\ UNCHANGED << hands, meldFacts, ruleState, events, gangs, wins, late >> /\ gone' = gone /\ due' = SeatInvalid
        /\ finishRound(hands, events, Hued, gone, TRUE)
    BY <1>15 DEF LastDiscard
  <2>2. gone \in SUBSET Seats /\ 0 \in Seats
    BY <1>1 DEF LedgerTypes, Seats
  <2>3. Throwers' \subseteq Throwers
    BY <2>1 DEF Throwers, activeSeats, Hued, Seats, SeatInvalid
  <2>4. OnlyChanges(0) /\ LaysDown(0)
    BY <1>13, <2>1, <2>2
  <2>5. PICK h, out : h = hands /\ out = gone
    OBVIOUS
  <2>6. hands' = h /\ gone' = out /\ out \in SUBSET Seats /\ finishRound(h, events, Hued, out, TRUE)
    BY <2>1, <2>2, <2>5
  <2> QED
    BY <2>1, <2>2, <2>3, <2>4, <2>6, LeavingStep
<1>16. CASE UNCHANGED ledgerVars
  <2>1. /\ hands' = hands /\ ruleState' = ruleState /\ events' = events /\ gangs' = gangs /\ wins' = wins
        /\ gone' = gone /\ result' = result /\ meldFacts' = meldFacts /\ due' = due /\ late' = late
    BY <1>16 DEF ledgerVars
  <2>2. LedgerTypes' /\ EventsExplained' /\ GangsShown'
    BY <2>1 DEF LedgerIInv, LedgerTypes, EventsExplained, GangsShown
  <2>3. WinsPaid'
    BY <2>1 DEF LedgerIInv, WinsPaid, holdsQueSuit
  <2>4. Hued' = Hued /\ activeSeats' = activeSeats /\ Pigs(hands)' = Pigs(hands) /\ Waiting(hands)' = Waiting(hands)
    BY <2>1 DEF Hued, activeSeats, Pigs, Waiting, holdsQueSuit, isTing
  <2>5. SomebodyLeft' /\ SettledFromState'
    BY <2>1, <2>4 DEF LedgerIInv, SomebodyLeft, SettledFromState, Settled
  <2>6. HandsCounted'
    BY <2>1, <2>4 DEF LedgerIInv, HandsCounted, Throwers
  <2> QED
    BY <2>2, <2>3, <2>5, <2>6 DEF LedgerIInv
<1> QED
  BY <1>4, <1>5, <1>6, <1>7, <1>9, <1>11, <1>12, <1>14, <1>15, <1>16 DEF LedgerNext

(* The images of finitely many things are finitely many.                   *)
LEMMA ImageFinite ==
    ASSUME NEW S, IsFiniteSet(S), NEW f
    PROVE  IsFiniteSet({f[x] : x \in S})
<1>1. PICK g, T : g = [x \in S |-> f[x]] /\ T = {f[x] : x \in S}
  OBVIOUS
<1>2. g \in Surjection(S, T)
  BY <1>1 DEF Surjection
<1>3. IsFiniteSet(T)
  BY <1>2, FS_Surjection, Zenon
<1> QED
  BY <1>1, <1>3, Zenon

(* A seat pays its own penalties, to a seat, and there are only so many.   *)
LEMMA PenaltiesAre ==
    ASSUME NEW ev \in Seq(Event), NEW s \in Seats, NEW won \in SUBSET Seats, NEW pigs, NEW waiting
    PROVE  /\ IsFiniteSet(PenaltiesOf(s, ev, won, pigs, waiting))
           /\ \A p \in PenaltiesOf(s, ev, won, pigs, waiting) :
                 p.from = s /\ p.to \in Seats /\ p.amount \in Nat
<1>1. PICK d : d = (won = {} /\ ~(s \in waiting))
  OBVIOUS
<1>2. PICK O : O = {p \in Seats \ {s} : s \in pigs}
  OBVIOUS
<1>3. PICK W : W = {p \in won : won # {} /\ s \notin won /\ ~(s \in pigs) /\ ~(s \in waiting)}
  OBVIOUS
<1>4. PICK K : K = {j \in 1..Len(ev) : /\ s \in pigs \/ d
                                       /\ ev[j].to = s /\ ev[j].from >= 0 /\ ev[j].amount > 0
                                       /\ refundReason(ev[j].reason, d) # ""}
  OBVIOUS
<1>5. PICK R : R = [k \in K |-> Penalty(refundReason(ev[k].reason, d), s, ev[k].from, ev[k].amount, k)]
  OBVIOUS
<1>6. PICK H : H = [o \in O |-> Penalty("cha_hua_zhu", s, o, 2, 0)]
  OBVIOUS
<1>7. PICK J : J = [w \in W |-> Penalty("cha_da_jiao", s, w, 1, 0)]
  OBVIOUS
<1>8. PenaltiesOf(s, ev, won, pigs, waiting) = {H[o] : o \in O} \cup {J[w] : w \in W} \cup {R[k] : k \in K}
  BY <1>1, <1>2, <1>3, <1>4, <1>5, <1>6, <1>7 DEF PenaltiesOf, appendRefundPenalties
<1>9. IsFiniteSet(O) /\ IsFiniteSet(W)
  <2>1. O \in SUBSET Seats /\ W \in SUBSET Seats
    BY <1>2, <1>3
  <2> QED
    BY <2>1, SeatsFinite
<1>10. IsFiniteSet(K)
  <2>1. K \in SUBSET (1..Len(ev)) /\ 1 \in Int /\ Len(ev) \in Int
    <3>1. \A j \in K : j \in 1..Len(ev)
      BY <1>4
    <3> QED
      BY <3>1
  <2> QED
    BY <2>1, FS_Interval, FS_Subset, Zenon
<1>11. IsFiniteSet({H[o] : o \in O} \cup {J[w] : w \in W} \cup {R[k] : k \in K})
  <2>1. IsFiniteSet({H[o] : o \in O}) /\ IsFiniteSet({J[w] : w \in W}) /\ IsFiniteSet({R[k] : k \in K})
    BY <1>9, <1>10, ImageFinite, Zenon
  <2> QED
    BY <2>1, FS_Union, Zenon
<1>12. ASSUME NEW o \in O
      PROVE  H[o].from = s /\ H[o].to \in Seats /\ H[o].amount \in Nat
  BY <1>2, <1>6 DEF Penalty
<1>13. ASSUME NEW w \in W
      PROVE  J[w].from = s /\ J[w].to \in Seats /\ J[w].amount \in Nat
  BY <1>3, <1>7 DEF Penalty
<1>14. ASSUME NEW k \in K
      PROVE  R[k].from = s /\ R[k].to \in Seats /\ R[k].amount \in Nat
  <2>1. k \in 1..Len(ev)
    BY <1>4
  <2>2. ev[k] \in Event
    BY <2>1
  <2>3. ev[k].from \in Seats /\ ev[k].amount \in Nat
    BY <2>2 DEF Event
  <2> QED
    BY <1>5, <2>3 DEF Penalty
<1> QED
  BY <1>8, <1>11, <1>12, <1>13, <1>14

(* What the seats were paid and have paid, seat by seat.                   *)
ShareOf(s, D, g, c) == Total([k \in {j \in D : g[j] = s} |-> c[k]])

(* A total split by seat is the sum of the shares of the four seats.       *)
LEMMA TotalBySeat ==
    ASSUME NEW D, IsFiniteSet(D), NEW c \in [D -> Nat], NEW g \in [D -> 0..3]
    PROVE  /\ Total(c) = ShareOf(0, D, g, c) + ShareOf(1, D, g, c) + ShareOf(2, D, g, c) + ShareOf(3, D, g, c)
           /\ \A s \in 0..3 : ShareOf(s, D, g, c) \in Nat
<1> DEFINE At(s) == {j \in D : g[j] = s}
           C(S) == [k \in S |-> c[k]]
<1>1. \A S \in SUBSET D : IsFiniteSet(S) /\ C(S) \in [S -> Nat]
  BY FS_Subset
<1>2. ASSUME NEW A \in SUBSET D, NEW B \in SUBSET D, A \cap B = {}
      PROVE  Total(C(A \cup B)) = Total(C(A)) + Total(C(B))
  <2>1. PICK U, u : U = A \cup B /\ u = C(U)
    OBVIOUS
  <2>2. U \in SUBSET D
    BY <2>1
  <2>3. IsFiniteSet(U) /\ u \in [U -> Nat]
    BY <1>1, <2>1, <2>2
  <2>4. Total(u) = Total([k \in A |-> u[k]]) + Total([k \in B |-> u[k]])
    BY <1>2, <2>1, <2>3, TotalSplit
  <2>5. [k \in A |-> u[k]] = C(A) /\ [k \in B |-> u[k]] = C(B)
    BY <2>1
  <2> HIDE DEF C
  <2> QED
    BY <2>1, <2>4, <2>5
<1>3. \A s \in 0..3 : At(s) \in SUBSET D
  OBVIOUS
<1>4. /\ At(0) \cap At(1) = {} /\ (At(0) \cup At(1)) \cap At(2) = {} /\ (At(0) \cup At(1) \cup At(2)) \cap At(3) = {}
      /\ At(0) \cup At(1) \cup At(2) \cup At(3) = D
  OBVIOUS
<1>5. C(D) = c
  OBVIOUS
<1>6. \A s \in 0..3 : Total(C(At(s))) \in Nat
  <2> HIDE DEF C, At
  <2> QED
    BY <1>1, <1>3, TotalType
<1>7. Total(c) = Total(C(At(0))) + Total(C(At(1))) + Total(C(At(2))) + Total(C(At(3)))
  <2>1. PICK a0 \in SUBSET D, a1 \in SUBSET D, a2 \in SUBSET D, a3 \in SUBSET D :
            a0 = At(0) /\ a1 = At(1) /\ a2 = At(2) /\ a3 = At(3)
    BY <1>3
  <2>2. /\ a0 \cap a1 = {} /\ (a0 \cup a1) \cap a2 = {} /\ (a0 \cup a1 \cup a2) \cap a3 = {}
        /\ a0 \cup a1 \cup a2 \cup a3 = D
    BY <1>4, <2>1, Zenon
  <2> HIDE DEF C, At
  <2>3. Total(C(a0 \cup a1)) = Total(C(a0)) + Total(C(a1))
    BY <1>2, <2>2
  <2>4. Total(C(a0 \cup a1 \cup a2)) = Total(C(a0 \cup a1)) + Total(C(a2))
    <3>1. a0 \cup a1 \in SUBSET D
      OBVIOUS
    <3> QED
      BY <1>2, <2>2, <3>1
  <2>5. Total(C(a0 \cup a1 \cup a2 \cup a3)) = Total(C(a0 \cup a1 \cup a2)) + Total(C(a3))
    <3>1. a0 \cup a1 \cup a2 \in SUBSET D
      OBVIOUS
    <3> QED
      BY <1>2, <2>2, <3>1
  <2>6. Total(c) = Total(C(a0)) + Total(C(a1)) + Total(C(a2)) + Total(C(a3))
    BY <1>5, <2>2, <2>3, <2>4, <2>5
  <2> QED
    BY <2>1, <2>6
<1>8. \A s \in 0..3 : ShareOf(s, D, g, c) = Total(C(At(s)))
  BY DEF ShareOf
<1> HIDE DEF C, At
<1> QED
  BY <1>6, <1>7, <1>8

(* Entries of a ledger are paid by a seat to a seat.                       *)
LEMMA BalancesCancel ==
    ASSUME NEW ev \in Seq(Event)
    PROVE  /\ SumOfSeats([s \in Seats |-> Balance(ev, s)]) = 0
           /\ \A s \in Seats : Balance(ev, s) \in Int
<1> DEFINE D == DOMAIN ev
           c == [k \in D |-> ev[k].amount]
           to == [k \in D |-> ev[k].to]
           from == [k \in D |-> ev[k].from]
<1>1. D = 1..Len(ev) /\ Len(ev) \in Nat
  OBVIOUS
<1>2. IsFiniteSet(D)
  <2>1. 1 \in Int /\ Len(ev) \in Int
    BY <1>1
  <2> QED
    BY <1>1, <2>1, FS_Interval
<1>3. \A k \in D : ev[k].amount \in Nat /\ ev[k].to \in 0..3 /\ ev[k].from \in 0..3
  <2> SUFFICES ASSUME NEW k \in D
               PROVE  ev[k].amount \in Nat /\ ev[k].to \in 0..3 /\ ev[k].from \in 0..3
    OBVIOUS
  <2>1. ev[k] \in Event
    BY <1>1
  <2> QED
    BY <2>1 DEF Event, Seats
<1>4. c \in [D -> Nat] /\ to \in [D -> 0..3] /\ from \in [D -> 0..3]
  BY <1>3
<1>5. \A s \in Seats : Received(ev, s) = ShareOf(s, D, to, c) /\ Paid(ev, s) = ShareOf(s, D, from, c)
  <2> SUFFICES ASSUME NEW s \in Seats
               PROVE  Received(ev, s) = ShareOf(s, D, to, c) /\ Paid(ev, s) = ShareOf(s, D, from, c)
    OBVIOUS
  <2>1. [k \in {j \in D : to[j] = s} |-> c[k]] = [k \in {j \in DOMAIN ev : ev[j].to = s} |-> ev[k].amount]
    OBVIOUS
  <2>2. [k \in {j \in D : from[j] = s} |-> c[k]] = [k \in {j \in DOMAIN ev : ev[j].from = s} |-> ev[k].amount]
    OBVIOUS
  <2> QED
    BY <2>1, <2>2 DEF Received, Paid, ShareOf
<1> HIDE DEF D, c, to, from
<1>6. /\ Total(c) = Received(ev, 0) + Received(ev, 1) + Received(ev, 2) + Received(ev, 3)
      /\ \A s \in Seats : Received(ev, s) \in Nat
  BY <1>2, <1>4, <1>5, TotalBySeat DEF Seats
<1>7. /\ Total(c) = Paid(ev, 0) + Paid(ev, 1) + Paid(ev, 2) + Paid(ev, 3)
      /\ \A s \in Seats : Paid(ev, s) \in Nat
  BY <1>2, <1>4, <1>5, TotalBySeat DEF Seats
<1>8. \A s \in Seats : Balance(ev, s) \in Int
  BY <1>6, <1>7 DEF Balance
<1>9. Balance(ev, 0) + Balance(ev, 1) + Balance(ev, 2) + Balance(ev, 3) = 0
  <2>1. /\ Balance(ev, 0) = Received(ev, 0) - Paid(ev, 0) /\ Balance(ev, 1) = Received(ev, 1) - Paid(ev, 1)
        /\ Balance(ev, 2) = Received(ev, 2) - Paid(ev, 2) /\ Balance(ev, 3) = Received(ev, 3) - Paid(ev, 3)
    BY DEF Balance
  <2>2. 0 \in Seats /\ 1 \in Seats /\ 2 \in Seats /\ 3 \in Seats
    BY DEF Seats
  <2>3. /\ Received(ev, 0) \in Nat /\ Received(ev, 1) \in Nat /\ Received(ev, 2) \in Nat /\ Received(ev, 3) \in Nat
        /\ Paid(ev, 0) \in Nat /\ Paid(ev, 1) \in Nat /\ Paid(ev, 2) \in Nat /\ Paid(ev, 3) \in Nat
    BY <1>6, <1>7, <2>2, Zenon
  <2>4. Received(ev, 0) + Received(ev, 1) + Received(ev, 2) + Received(ev, 3)
          = Paid(ev, 0) + Paid(ev, 1) + Paid(ev, 2) + Paid(ev, 3)
    BY <1>6, <1>7, Zenon
  <2>5. PICK r0 \in Nat, r1 \in Nat, r2 \in Nat, r3 \in Nat :
            r0 = Received(ev, 0) /\ r1 = Received(ev, 1) /\ r2 = Received(ev, 2) /\ r3 = Received(ev, 3)
    BY <2>3, Zenon
  <2>6. PICK p0 \in Nat, p1 \in Nat, p2 \in Nat, p3 \in Nat :
            p0 = Paid(ev, 0) /\ p1 = Paid(ev, 1) /\ p2 = Paid(ev, 2) /\ p3 = Paid(ev, 3)
    BY <2>3, Zenon
  <2>7. r0 + r1 + r2 + r3 = p0 + p1 + p2 + p3
    BY <2>4, <2>5, <2>6
  <2>8. (r0 - p0) + (r1 - p1) + (r2 - p2) + (r3 - p3) = 0
    BY <2>7
  <2> QED
    BY <2>1, <2>5, <2>6, <2>8
<1>10. SumOfSeats([s \in Seats |-> Balance(ev, s)]) = Balance(ev, 0) + Balance(ev, 1) + Balance(ev, 2) + Balance(ev, 3)
  BY DEF SumOfSeats, Seats
<1> QED
  BY <1>8, <1>9, <1>10

(* What a seat receives of penalties is received in two parts.             *)
LEMMA ReceivedSplit ==
    ASSUME NEW P, IsFiniteSet(P), \A p \in P : p.amount \in Nat,
           NEW A, NEW B, A \cup B = P, A \cap B = {}, NEW s
    PROVE  /\ Received(Each(P), s) = Received(Each(A), s) + Received(Each(B), s)
           /\ Received(Each(A), s) \in Nat /\ Received(Each(B), s) \in Nat
<1> DEFINE To(S) == {p \in S : p.to = s}
           C(S) == [p \in To(S) |-> p.amount]
<1>1. \A S \in SUBSET P : Received(Each(S), s) = Total(C(S))
  <2> SUFFICES ASSUME NEW S \in SUBSET P
               PROVE  Received(Each(S), s) = Total(C(S))
    OBVIOUS
  <2>1. DOMAIN Each(S) = S /\ \A p \in S : Each(S)[p] = p
    BY DEF Each
  <2>2. {j \in DOMAIN Each(S) : Each(S)[j].to = s} = To(S)
    BY <2>1
  <2>3. [k \in To(S) |-> Each(S)[k].amount] = C(S)
    BY <2>1
  <2> QED
    BY <2>2, <2>3 DEF Received
<1>2. A \in SUBSET P /\ B \in SUBSET P /\ P \in SUBSET P
  OBVIOUS
<1>3. \A S \in SUBSET P : IsFiniteSet(To(S)) /\ C(S) \in [To(S) -> Nat]
  <2> SUFFICES ASSUME NEW S \in SUBSET P
               PROVE  IsFiniteSet(To(S)) /\ C(S) \in [To(S) -> Nat]
    OBVIOUS
  <2>1. To(S) \in SUBSET P
    OBVIOUS
  <2>2. IsFiniteSet(To(S))
    <3> HIDE DEF To
    <3> QED
      BY <2>1, FS_Subset
  <2> QED
    BY <2>2
<1>4. To(A) \cup To(B) = To(P) /\ To(A) \cap To(B) = {}
  OBVIOUS
<1>5. PICK tp, ta, tb, cp : tp = To(P) /\ ta = To(A) /\ tb = To(B) /\ cp = C(P)
  OBVIOUS
<1>6. Total(cp) = Total([p \in ta |-> cp[p]]) + Total([p \in tb |-> cp[p]])
  <2>1. IsFiniteSet(tp) /\ cp \in [tp -> Nat] /\ ta \cup tb = tp /\ ta \cap tb = {}
    BY <1>2, <1>3, <1>4, <1>5, Zenon
  <2> QED
    BY <2>1, TotalSplit
<1>7. [p \in ta |-> cp[p]] = C(A) /\ [p \in tb |-> cp[p]] = C(B)
  BY <1>5
<1>8. Total(C(A)) \in Nat /\ Total(C(B)) \in Nat
  <2> HIDE DEF C, To
  <2> QED
    BY <1>2, <1>3, TotalType
<1> HIDE DEF C, To
<1> QED
  BY <1>1, <1>2, <1>5, <1>6, <1>7, <1>8

(* The penalties of the seats up to one, and of all.                       *)
UpTo(n, ev, won, pigs, waiting) == UNION {PenaltiesOf(o, ev, won, pigs, waiting) : o \in 0..n}

(* The penalties settled up to a seat are those of the whole settlement    *)
(* that this seat or an earlier one pays.                                  *)
LEMMA PenaltiesUpTo ==
    ASSUME NEW ev \in Seq(Event), NEW won \in SUBSET Seats, NEW pigs, NEW waiting,
           NEW P, P = UpTo(3, ev, won, pigs, waiting)
    PROVE  /\ IsFiniteSet(P)
           /\ \A p \in P : p.amount \in Nat /\ p.to \in Seats /\ p.from \in Seats
           /\ \A s \in Seats : UpTo(s, ev, won, pigs, waiting) = {p \in P : p.from <= s}
           /\ \A s \in Seats : PenaltiesOf(s, ev, won, pigs, waiting) = {p \in P : p.from = s}
<1> DEFINE Of(o) == PenaltiesOf(o, ev, won, pigs, waiting)
<1>1. \A o \in Seats : IsFiniteSet(Of(o)) /\ \A p \in Of(o) : p.from = o /\ p.to \in Seats /\ p.amount \in Nat
  BY PenaltiesAre
<1>2. \A s \in Seats : UpTo(s, ev, won, pigs, waiting) = UNION {Of(o) : o \in 0..s}
  BY DEF UpTo
<1>3. P = UNION {Of(o) : o \in Seats}
  BY DEF UpTo, Seats
<1> HIDE DEF Of
<1>4. IsFiniteSet(P)
  <2>1. P = Of(0) \cup Of(1) \cup Of(2) \cup Of(3)
    BY <1>3 DEF Seats
  <2>2. IsFiniteSet(Of(0)) /\ IsFiniteSet(Of(1)) /\ IsFiniteSet(Of(2)) /\ IsFiniteSet(Of(3))
    BY <1>1 DEF Seats
  <2>3. IsFiniteSet(Of(0) \cup Of(1) \cup Of(2) \cup Of(3))
    BY <2>2, FS_Union, Zenon
  <2> QED
    BY <2>1, <2>3
<1>5. \A p \in P : p.amount \in Nat /\ p.to \in Seats /\ p.from \in Seats
  BY <1>1, <1>3
<1>6. \A s \in Seats : UpTo(s, ev, won, pigs, waiting) = {p \in P : p.from <= s}
  <2> SUFFICES ASSUME NEW s \in Seats
               PROVE  UNION {Of(o) : o \in 0..s} = {p \in P : p.from <= s}
    BY <1>2
  <2>1. ASSUME NEW o \in 0..s, NEW p \in Of(o)
        PROVE  p \in P /\ p.from <= s
    <3>1. o \in Seats
      BY DEF Seats
    <3> QED
      BY <1>1, <1>3, <3>1
  <2>2. ASSUME NEW p \in P, p.from <= s
        PROVE  \E o \in 0..s : p \in Of(o)
    <3>1. PICK o \in Seats : p \in Of(o)
      BY <1>3
    <3>2. o \in 0..s
      BY <1>1, <2>2, <3>1 DEF Seats
    <3> QED
      BY <3>1, <3>2
  <2> QED
    BY <2>1, <2>2
<1>7. \A s \in Seats : Of(s) = {p \in P : p.from = s}
  BY <1>1, <1>3
<1> QED
  BY <1>4, <1>5, <1>6, <1>7 DEF Of

(* What a settlement says.                                                 *)
LEMMA SettlementSays ==
    ASSUME LedgerIInv, Settled
    PROVE  /\ \A s \in Seats : result.scores[s] = Balance(events, s) + Balance(Each(UpTo(s, events, Hued, Pigs(hands), Waiting(hands))), s)
           /\ result.penalties = UpTo(3, events, Hued, Pigs(hands), Waiting(hands))
           /\ result.breakdowns = buildWinnerBreakdowns(events, Hued)
           /\ events \in Seq(Event) /\ wins \in Seq(Win) /\ Hued \in SUBSET Seats
<1>1. result = BuildSettlement(events, Hued, Pigs(hands), Waiting(hands))
  BY DEF LedgerIInv, SettledFromState
<1>2. /\ \A s \in Seats : result.scores[s] = Balance(events, s) + Balance(Each(UpTo(s, events, Hued, Pigs(hands), Waiting(hands))), s)
      /\ result.penalties = UpTo(3, events, Hued, Pigs(hands), Waiting(hands))
      /\ result.breakdowns = buildWinnerBreakdowns(events, Hued)
  <2>1. PICK pigs, waiting : pigs = Pigs(hands) /\ waiting = Waiting(hands)
    OBVIOUS
  <2>2. PICK charged : charged = [s \in Seats |-> PenaltiesOf(s, events, Hued, pigs, waiting)]
    OBVIOUS
  <2>3. ASSUME NEW n \in Seats
        PROVE  UNION {charged[o] : o \in 0..n} = UpTo(n, events, Hued, pigs, waiting)
    <3>1. \A o \in 0..n : o \in Seats
      BY DEF Seats
    <3>2. \A o \in 0..n : charged[o] = PenaltiesOf(o, events, Hued, pigs, waiting)
      BY <2>2, <3>1
    <3> QED
      BY <3>2 DEF UpTo
  <2>4. result = [scores     |-> [s \in Seats |-> Balance(events, s) + Balance(Each(UNION {charged[o] : o \in 0..s}), s)],
                  skipped    |-> pigs,
                  penalties  |-> UNION {charged[o] : o \in 0..3},
                  breakdowns |-> buildWinnerBreakdowns(events, Hued)]
    BY <1>1, <2>1, <2>2 DEF BuildSettlement
  <2>5. \A s \in Seats : result.scores[s] = Balance(events, s) + Balance(Each(UpTo(s, events, Hued, pigs, waiting)), s)
    BY <2>3, <2>4
  <2>6. result.penalties = UpTo(3, events, Hued, pigs, waiting)
    BY <2>3, <2>4 DEF Seats
  <2> QED
    BY <2>1, <2>4, <2>5, <2>6
<1>3. events \in Seq(Event) /\ wins \in Seq(Win)
  BY DEF LedgerIInv, LedgerTypes
<1>4. \A w \in 1..Len(wins) : wins[w].seat \in Seats
  <2> SUFFICES ASSUME NEW w \in 1..Len(wins)
               PROVE  wins[w].seat \in Seats
    OBVIOUS
  <2>1. wins[w] \in Win
    BY <1>3
  <2> QED
    BY <2>1 DEF Win
<1> QED
  BY <1>2, <1>3, <1>4 DEF Hued

(* First part of PointsAccounted: the settled scores miss nothing but what *)
(* a seat was to be paid by the seats settled after it.                    *)
LEMMA LaterPenalties == LedgerIInv => OnlyLaterPenaltiesMissing
<1> SUFFICES ASSUME LedgerIInv
             PROVE  OnlyLaterPenaltiesMissing
  OBVIOUS
<1>1. events \in Seq(Event)
  BY DEF LedgerIInv, LedgerTypes
<1>2. /\ SumOfSeats([s \in Seats |-> Balance(events, s)]) = 0
      /\ \A s \in Seats : Balance(events, s) \in Int
  BY <1>1, BalancesCancel
<1>3. ASSUME Settled, NEW s \in Seats
      PROVE  result.scores[s]
               = Balance(events, s) + Balance(Each(result.penalties), s)
                 - Received(Each({p \in result.penalties : p.from > s}), s)
  <2>1. PICK P : P = result.penalties
    OBVIOUS
  <2>2. P = UpTo(3, events, Hued, Pigs(hands), Waiting(hands)) /\ Hued \in SUBSET Seats
    BY <1>3, <2>1, SettlementSays
  <2>3. PICK A, B, F : A = {p \in P : p.from <= s} /\ B = {p \in P : p.from > s} /\ F = {p \in P : p.from = s}
    OBVIOUS
  <2>4. /\ IsFiniteSet(P)
        /\ \A p \in P : p.amount \in Nat /\ p.to \in Seats /\ p.from \in Seats
        /\ UpTo(s, events, Hued, Pigs(hands), Waiting(hands)) = A
    <3>1. PICK won, pigs, waiting, ev : won = Hued /\ pigs = Pigs(hands) /\ waiting = Waiting(hands) /\ ev = events
      OBVIOUS
    <3>2. ev \in Seq(Event) /\ won \in SUBSET Seats /\ P = UpTo(3, ev, won, pigs, waiting)
      BY <1>1, <2>2, <3>1
    <3>3. /\ IsFiniteSet(P)
          /\ \A p \in P : p.amount \in Nat /\ p.to \in Seats /\ p.from \in Seats
          /\ UpTo(s, ev, won, pigs, waiting) = {p \in P : p.from <= s}
      <4>1. UpTo(s, ev, won, pigs, waiting) = {p \in P : p.from <= s}
        BY <3>2, PenaltiesUpTo
      <4>2. IsFiniteSet(P)
        BY <3>2, PenaltiesUpTo
      <4>3. \A p \in P : p.amount \in Nat /\ p.to \in Seats /\ p.from \in Seats
        BY <3>2, PenaltiesUpTo
      <4> QED
        BY <4>1, <4>2, <4>3
    <3>4. UpTo(s, ev, won, pigs, waiting) = A
      BY <2>3, <3>3, Zenon
    <3> QED
      BY <3>1, <3>3, <3>4, Zenon
  <2>5. A \cup B = P /\ A \cap B = {}
    BY <2>3, <2>4 DEF Seats
  <2>6. /\ Received(Each(P), s) = Received(Each(A), s) + Received(Each(B), s)
        /\ Received(Each(A), s) \in Nat /\ Received(Each(B), s) \in Nat
    BY <2>4, <2>5, ReceivedSplit
  <2>7. Paid(Each(A), s) = Paid(Each(P), s) /\ Paid(Each(P), s) \in Nat
    <3>1. /\ DOMAIN Each(A) = A /\ DOMAIN Each(P) = P
          /\ (\A p \in A : Each(A)[p] = p) /\ \A p \in P : Each(P)[p] = p
      BY DEF Each
    <3>2. \A p \in F : p \in A /\ p \in P
      BY <2>3 DEF Seats
    <3>3. {j \in DOMAIN Each(A) : Each(A)[j].from = s} = F
      <4>1. \A j \in A : j \in P
        BY <2>3
      <4> QED
        BY <2>3, <3>1, <3>2, <4>1
    <3>4. {j \in DOMAIN Each(P) : Each(P)[j].from = s} = F
      BY <2>3, <3>1
    <3>5. [k \in F |-> Each(A)[k].amount] = [k \in F |-> k.amount]
      BY <3>1, <3>2
    <3>6. [k \in F |-> Each(P)[k].amount] = [k \in F |-> k.amount]
      BY <3>1, <3>2
    <3>7. Total([k \in F |-> k.amount]) \in Nat
      <4>1. PICK c : c = [k \in F |-> k.amount]
        OBVIOUS
      <4>2. F \in SUBSET P
        BY <2>3
      <4>3. IsFiniteSet(F)
        BY <2>4, <4>2, FS_Subset
      <4>4. c \in [F -> Nat]
        BY <2>4, <4>1, <4>2
      <4> QED
        BY <4>1, <4>3, <4>4, TotalType
    <3> QED
      BY <3>3, <3>4, <3>5, <3>6, <3>7 DEF Paid
  <2>8. result.scores[s] = Balance(events, s) + Balance(Each(A), s)
    BY <1>3, <2>4, SettlementSays
  <2>9. PICK b \in Int, ra \in Nat, rb \in Nat, d \in Nat :
            b = Balance(events, s) /\ ra = Received(Each(A), s) /\ rb = Received(Each(B), s) /\ d = Paid(Each(P), s)
    BY <1>2, <2>6, <2>7
  <2>10. result.scores[s] = b + (ra - d)
    BY <2>7, <2>8, <2>9 DEF Balance
  <2>11. Balance(Each(P), s) = ra + rb - d
    BY <2>6, <2>9 DEF Balance
  <2>12. result.scores[s] = b + Balance(Each(P), s) - rb
    BY <2>10, <2>11
  <2> QED
    BY <2>1, <2>3, <2>9, <2>12
<1> QED
  BY <1>2, <1>3 DEF OnlyLaterPenaltiesMissing

(* Another part: a winner pays for nothing but a later draw.               *)
LEMMA WinnersKeep == LedgerIInv => WinnersPayOnlyForLateDraws
<1> SUFFICES ASSUME LedgerIInv, Settled, NEW p \in result.penalties, p.from \in Hued
             PROVE  p.from \in late /\ p.reason # "cha_da_jiao"
  BY DEF WinnersPayOnlyForLateDraws
<1>1. result.penalties = UpTo(3, events, Hued, Pigs(hands), Waiting(hands)) /\ events \in Seq(Event) /\ Hued \in SUBSET Seats
  BY SettlementSays
<1>2. PICK s \in Seats : s = p.from
  BY <1>1
<1>3. p \in PenaltiesOf(s, events, Hued, Pigs(hands), Waiting(hands))
  <2>1. PICK P : P = result.penalties
    OBVIOUS
  <2>2. PenaltiesOf(s, events, Hued, Pigs(hands), Waiting(hands)) = {q \in P : q.from = s}
    BY <1>1, <2>1, PenaltiesUpTo
  <2> QED
    BY <1>2, <2>1, <2>2
<1>4. s \in Pigs(hands) => s \in late
  <2>1. PICK w \in 1..Len(wins) : wins[w].seat = s
    BY <1>2 DEF Hued
  <2> QED
    BY <2>1 DEF LedgerIInv, WinsPaid, Pigs
<1>5. s \in Pigs(hands) /\ p.reason # "cha_da_jiao"
  <2>1. Hued # {} /\ s \in Hued
    BY <1>2
  <2>2. PICK won, pigs, waiting, ev : won = Hued /\ pigs = Pigs(hands) /\ waiting = Waiting(hands) /\ ev = events
    OBVIOUS
  <2>3. won # {} /\ s \in won /\ p \in PenaltiesOf(s, ev, won, pigs, waiting)
    BY <1>3, <2>1, <2>2
  <2>4. \/ s \in pigs /\ \E o \in Seats : p = Penalty("cha_hua_zhu", s, o, 2, 0)
        \/ p \in appendRefundPenalties(s, ev, s \in pigs, won = {} /\ ~(s \in waiting))
    BY <2>3 DEF PenaltiesOf
  <2>5. CASE s \in pigs /\ \E o \in Seats : p = Penalty("cha_hua_zhu", s, o, 2, 0)
    BY <2>2, <2>5 DEF Penalty
  <2>6. CASE p \in appendRefundPenalties(s, ev, s \in pigs, won = {} /\ ~(s \in waiting))
    <3>1. PICK none : none = (won = {} /\ ~(s \in waiting))
      OBVIOUS
    <3>2. ~none
      BY <2>3, <3>1
    <3>3. PICK k \in 1..Len(ev) : /\ s \in pigs \/ none
                                  /\ p = Penalty(refundReason(ev[k].reason, none), s, ev[k].from, ev[k].amount, k)
      BY <2>6, <3>1 DEF appendRefundPenalties
    <3>4. refundReason(ev[k].reason, none) # "cha_da_jiao"
      BY DEF refundReason
    <3> QED
      BY <2>2, <3>2, <3>3, <3>4 DEF Penalty
  <2> QED
    BY <2>4, <2>5, <2>6
<1> QED
  BY <1>2, <1>4, <1>5

(* Another part: the breakdown of a winner is what its own win was scored  *)
(* as.                                                                     *)
LEMMA BreakdownsAreWins == LedgerIInv => BreakdownMatchesWin
<1> SUFFICES ASSUME LedgerIInv, Settled
             PROVE  /\ DOMAIN result.breakdowns = Hued
                    /\ \A w \in 1..Len(wins) :
                          result.breakdowns[wins[w].seat] = [fan |-> wins[w].fan, names |-> wins[w].names]
  BY DEF BreakdownMatchesWin
<1>1. /\ result.breakdowns = buildWinnerBreakdowns(events, Hued)
      /\ events \in Seq(Event) /\ wins \in Seq(Win) /\ Hued \in SUBSET Seats
  BY SettlementSays
<1>2. \A w \in 1..Len(wins) : wins[w].seat \in Hued
  BY DEF Hued
<1>3. \A s \in Hued : \E k \in 1..Len(events) : events[k].winner = s
  BY DEF Hued, LedgerIInv, WinsPaid
<1>4. DOMAIN result.breakdowns = Hued
  BY <1>1, <1>3 DEF buildWinnerBreakdowns
<1>5. ASSUME NEW w \in 1..Len(wins)
      PROVE  result.breakdowns[wins[w].seat] = [fan |-> wins[w].fan, names |-> wins[w].names]
  <2>1. PICK s \in Seats : s = wins[w].seat /\ s \in Hued
    BY <1>1, <1>2
  <2>2. PICK own : own = {k \in 1..Len(events) : events[k].winner = s}
    OBVIOUS
  <2>3. own # {}
    BY <1>3, <2>1, <2>2
  <2>4. \A k \in own : events[k].fan = wins[w].fan /\ events[k].names = wins[w].names
    <3> SUFFICES ASSUME NEW k \in own
                 PROVE  events[k].fan = wins[w].fan /\ events[k].names = wins[w].names
      OBVIOUS
    <3>1. k \in 1..Len(events) /\ events[k].winner = s /\ s # SeatInvalid
      BY <2>2 DEF Seats, SeatInvalid
    <3>2. PICK v \in 1..Len(wins) : /\ wins[v].seat = s
                                    /\ wins[v].fan = events[k].fan /\ wins[v].names = events[k].names
      BY <3>1 DEF LedgerIInv, EventsExplained
    <3>3. v = w
      BY <2>1, <3>2 DEF LedgerIInv, WinsPaid
    <3> QED
      BY <3>2, <3>3
  <2>5. wins[w].fan \in Nat
    <3>1. wins[w] \in Win
      BY <1>1
    <3> QED
      BY <3>1 DEF Win
  <2>6. {events[k].fan : k \in own} = {wins[w].fan}
    BY <2>3, <2>4
  <2>7. UNION {events[k].names : k \in own} = wins[w].names
    BY <2>3, <2>4
  <2>8. Max({wins[w].fan}) = wins[w].fan
    <3>1. PICK n \in Nat : n = wins[w].fan
      BY <2>5
    <3>2. Max({n}) = n
      BY DEF Max
    <3> QED
      BY <3>1, <3>2
  <2>9. result.breakdowns[s]
          = [fan |-> Max({events[k].fan : k \in own}), names |-> UNION {events[k].names : k \in own}]
    <3>1. s \in {t \in Hued : \E k \in 1..Len(events) : events[k].winner = t}
      BY <1>3, <2>1
    <3>2. result.breakdowns[s]
            = [fan |-> Max({events[k].fan : k \in {j \in 1..Len(events) : events[j].winner = s}}),
               names |-> UNION {events[k].names : k \in {j \in 1..Len(events) : events[j].winner = s}}]
      BY <1>1, <3>1 DEF buildWinnerBreakdowns
    <3> QED
      BY <2>2, <3>2
  <2> QED
    BY <2>1, <2>6, <2>7, <2>8, <2>9
<1> QED
  BY <1>4, <1>5

(* A hand with a meld is too small to be taken for one that waits, so that *)
(* no seat that does was paid for a gang.                                  *)
LEMMA WaitersHaveNoGang ==
    ASSUME LedgerIInv, Hued = {}, NEW s \in Waiting(hands), NEW k \in 1..Len(events), events[k].to = s
    PROVE  FALSE
<1>1. s \in Seats /\ TingTiles(hands[s]) # {}
  BY DEF Waiting, isTing, IsTing
<1>2. Total(hands[s]) = 13
  BY <1>1 DEF TingTiles
<1>3. Opened(meldFacts[s]) = 0
  <2>1. Total(hands[s]) + Opened(meldFacts[s]) <= IF s \in Throwers THEN 13 ELSE 14
    BY <1>1 DEF LedgerIInv, HandsCounted
  <2> QED
    BY <1>2, <2>1 DEF Opened
<1>4. events[k].winner = SeatInvalid
  <2>1. \A w \in 1..Len(wins) : FALSE
    BY DEF Hued
  <2> QED
    BY <2>1 DEF LedgerIInv, EventsExplained
<1>5. Len(meldFacts[s]) > 0
  BY <1>4 DEF LedgerIInv, GangsShown
<1> QED
  BY <1>3, <1>5 DEF Opened

(* The last part: in a round nobody won, what a seat gained from gangs     *)
(* goes back to whoever paid it.                                           *)
LEMMA RefundsMatch == LedgerIInv => RefundsReturn
<1> SUFFICES ASSUME LedgerIInv, Settled, Hued = {}, NEW s \in Seats, NEW p \in Seats
             PROVE  Total([k \in {j \in 1..Len(events) : events[j].to = s /\ events[j].from = p} |-> events[k].amount])
                      = Received(Each({q \in result.penalties : q.from = s /\ q.reason # "cha_hua_zhu"}), p)
  BY DEF RefundsReturn
<1>1. result.penalties = UpTo(3, events, Hued, Pigs(hands), Waiting(hands)) /\ events \in Seq(Event) /\ wins \in Seq(Win)
  BY SettlementSays
<1>2. Len(wins) = 0
  <2>1. Len(wins) \in Nat /\ \A w \in 1..Len(wins) : wins[w].seat \in Hued
    BY <1>1 DEF Hued
  <2>2. ASSUME Len(wins) # 0
        PROVE  FALSE
    <3>1. 1 \in 1..Len(wins)
      BY <2>1, <2>2
    <3> QED
      BY <2>1, <3>1
  <2> QED
    BY <2>2
<1>3. \A k \in 1..Len(events) : /\ events[k].reason \in GangReasons /\ events[k].amount > 0
                                /\ events[k].amount \in Nat /\ events[k].from \in Seats
  <2> SUFFICES ASSUME NEW k \in 1..Len(events)
               PROVE  /\ events[k].reason \in GangReasons /\ events[k].amount > 0
                      /\ events[k].amount \in Nat /\ events[k].from \in Seats
    OBVIOUS
  <2>1. events[k].reason \in GangReasons /\ events[k].amount > 0
    BY <1>2 DEF LedgerIInv, EventsExplained
  <2>2. events[k] \in Event
    BY <1>1
  <2> QED
    BY <2>1, <2>2 DEF Event
<1>4. \A r \in GangReasons : refundReason(r, TRUE) # "" /\ refundReason(r, TRUE) # "cha_hua_zhu"
  BY DEF GangReasons, refundReason
<1>5. s \in Waiting(hands) => \A k \in 1..Len(events) : events[k].to # s
  BY WaitersHaveNoGang
<1> DEFINE Back(k) == Penalty(refundReason(events[k].reason, TRUE), s, events[k].from, events[k].amount, k)
           K == {j \in 1..Len(events) : events[j].to = s}
           Own == {j \in 1..Len(events) : events[j].to = s /\ events[j].from = p}
           c == [k \in Own |-> events[k].amount]
           Q == {q \in result.penalties : q.from = s /\ q.reason # "cha_hua_zhu"}
           E == {q \in Q : q.to = p}
           d == [q \in E |-> q.amount]
           f == [k \in Own |-> Back(k)]
<1>6. PenaltiesOf(s, events, Hued, Pigs(hands), Waiting(hands)) = {q \in result.penalties : q.from = s}
  <2>1. PICK P, won, pigs, waiting : P = result.penalties /\ won = Hued /\ pigs = Pigs(hands) /\ waiting = Waiting(hands)
    OBVIOUS
  <2>2. won \in SUBSET Seats /\ P = UpTo(3, events, won, pigs, waiting)
    BY <1>1, <2>1
  <2>3. PenaltiesOf(s, events, won, pigs, waiting) = {q \in P : q.from = s}
    BY <1>1, <2>2, PenaltiesUpTo
  <2> QED
    BY <2>1, <2>3
<1>7. PenaltiesOf(s, events, Hued, Pigs(hands), Waiting(hands))
        = {Penalty("cha_hua_zhu", s, o, 2, 0) : o \in {q \in Seats \ {s} : s \in Pigs(hands)}} \cup {Back(k) : k \in K}
  <2>1. PICK won, pigs, waiting : won = Hued /\ pigs = Pigs(hands) /\ waiting = Waiting(hands)
    OBVIOUS
  <2>2. won = {} /\ (s \in waiting => K = {})
    BY <1>5, <2>1
  <2>3. ASSUME s \notin waiting
        PROVE  appendRefundPenalties(s, events, s \in pigs, TRUE) = {Back(k) : k \in K}
    <3>1. ASSUME NEW j \in K
          PROVE  events[j].from >= 0 /\ events[j].amount > 0 /\ refundReason(events[j].reason, TRUE) # ""
      <4>1. events[j].reason \in GangReasons /\ events[j].amount > 0 /\ events[j].from \in Seats
        BY <1>3
      <4>2. refundReason(events[j].reason, TRUE) # ""
        BY <1>4, <4>1, Zenon
      <4>3. events[j].from >= 0
        BY <4>1 DEF Seats
      <4> QED
        BY <4>1, <4>2, <4>3, Zenon
    <3>2. ASSUME NEW x \in appendRefundPenalties(s, events, s \in pigs, TRUE)
          PROVE  \E k \in K : x = Back(k)
      BY <3>2 DEF appendRefundPenalties
    <3>3. ASSUME NEW k \in K
          PROVE  Back(k) \in appendRefundPenalties(s, events, s \in pigs, TRUE)
      BY <3>1 DEF appendRefundPenalties
    <3> HIDE DEF K, Back
    <3> QED
      BY <3>2, <3>3
  <2>4. PICK none : none = (won = {} /\ ~(s \in waiting))
    OBVIOUS
  <2>5. {q \in won : won # {} /\ s \notin won /\ ~(s \in pigs) /\ ~(s \in waiting)} = {}
    BY <2>2
  <2>6. appendRefundPenalties(s, events, s \in pigs, none) = {Back(k) : k \in K}
    <3>1. CASE s \notin waiting
      <4>1. none = TRUE
        BY <2>2, <2>4, <3>1
      <4> HIDE DEF K, Back
      <4> QED
        BY <2>3, <3>1, <4>1
    <3>2. CASE s \in waiting
      <4>1. appendRefundPenalties(s, events, s \in pigs, none) = {}
        BY <2>2, <3>2 DEF appendRefundPenalties
      <4> QED
        BY <2>2, <3>2, <4>1
    <3> QED
      BY <3>1, <3>2
  <2> HIDE DEF Back, K
  <2>7. PenaltiesOf(s, events, won, pigs, waiting)
          = {Penalty("cha_hua_zhu", s, o, 2, 0) : o \in {q \in Seats \ {s} : s \in pigs}} \cup {Back(k) : k \in K}
    BY <2>4, <2>5, <2>6 DEF PenaltiesOf
  <2> QED
    BY <2>1, <2>7
<1>8. \A k \in K : /\ Back(k).from = s /\ Back(k).to = events[k].from /\ Back(k).amount = events[k].amount
                   /\ Back(k).of = k /\ Back(k).reason # "cha_hua_zhu"
  BY <1>3, <1>4 DEF Penalty
<1>9. Q = {Back(k) : k \in K}
  <2>1. ASSUME NEW q \in Q
        PROVE  \E k \in K : q = Back(k)
    <3>1. q \in PenaltiesOf(s, events, Hued, Pigs(hands), Waiting(hands)) /\ q.reason # "cha_hua_zhu"
      BY <1>6
    <3> HIDE DEF Q, Back, K
    <3>2. \A o : Penalty("cha_hua_zhu", s, o, 2, 0).reason = "cha_hua_zhu"
      BY DEF Penalty
    <3> QED
      BY <1>7, <3>1, <3>2
  <2>2. ASSUME NEW k \in K
        PROVE  Back(k) \in Q
    <3>1. Back(k) \in PenaltiesOf(s, events, Hued, Pigs(hands), Waiting(hands))
      BY <1>7
    <3> HIDE DEF Back, K
    <3> QED
      BY <1>6, <1>8, <3>1
  <2> HIDE DEF Q, Back, K
  <2> QED
    BY <2>1, <2>2
<1>10. c \in [Own -> Nat] /\ IsFiniteSet(Own)
  <2>1. c \in [Own -> Nat]
    BY <1>3
  <2>2. Own \in SUBSET (1..Len(events)) /\ 1 \in Int /\ Len(events) \in Int
    BY <1>1
  <2> HIDE DEF Own
  <2>3. IsFiniteSet(Own)
    BY <2>2, FS_Interval, FS_Subset, Zenon
  <2> QED
    BY <2>1, <2>3
<1>11. \A k \in Own : k \in K /\ events[k].from = p
  OBVIOUS
<1>12. \A k \in K : events[k].from = p => k \in Own
  OBVIOUS
<1>13. \A k \in Own : f[k] = Back(k) /\ c[k] = events[k].amount
  OBVIOUS
<1>14. \A k \in K : events[k].amount \in Nat
  BY <1>3
<1> HIDE DEF Own, Back, K, c, Q
<1>15. \A q : q \in E <=> \E k \in Own : q = Back(k)
  BY <1>8, <1>9, <1>11, <1>12
<1>16. d \in [E -> Nat] /\ \A q \in E : d[q] = q.amount
  <2>1. \A q \in E : q.amount \in Nat
    BY <1>8, <1>11, <1>14, <1>15
  <2> HIDE DEF E
  <2> QED
    BY <2>1
<1>17. f \in Bijection(Own, E)
  <2>1. f \in [Own -> E]
    BY <1>13, <1>15
  <2>2. \A i, j \in Own : f[i] = f[j] => i = j
    BY <1>8, <1>11, <1>13
  <2>3. \A q \in E : \E k \in Own : f[k] = q
    BY <1>13, <1>15
  <2> HIDE DEF f, E
  <2> QED
    BY <2>1, <2>2, <2>3 DEF Bijection, Injection, Surjection, IsInjective
<1>18. \A k \in Own : d[f[k]] = c[k]
  BY <1>8, <1>11, <1>13, <1>15, <1>16
<1>19. Total(c) = Total(d)
  <2> HIDE DEF f, E, d
  <2> QED
    BY <1>10, <1>16, <1>17, <1>18, TotalMoved
<1>20. Received(Each(Q), p) = Total(d)
  <2>1. DOMAIN Each(Q) = Q /\ \A q \in Q : Each(Q)[q] = q
    BY DEF Each
  <2>2. {j \in DOMAIN Each(Q) : Each(Q)[j].to = p} = E
    BY <2>1
  <2>3. [k \in E |-> Each(Q)[k].amount] = d
    BY <2>1
  <2> QED
    BY <2>2, <2>3 DEF Received
<1> QED
  BY <1>19, <1>20 DEF c, Own, Q

(* settlement.go, engine_score.go, for any deal and any order of draws,    *)
(* gangs, wins, surrenders and the last discard: points only change hands, *)
(* what the scores of a settlement miss is what seats settled later owe, a *)
(* winner is charged only if it drew again after its win, all gangs are    *)
(* given back in a round nobody won, and every breakdown is the recorded   *)
(* win.                                                                    *)
THEOREM PointsAlwaysAccounted == LedgerSpec => []PointsAccounted
<1>1. LedgerIInv => PointsAccounted
  BY LaterPenalties, WinnersKeep, RefundsMatch, BreakdownsAreWins DEF PointsAccounted
<1> QED
  BY <1>1, LedgerStarts, LedgerKeeps, PTL DEF LedgerSpec
=============================================================================
