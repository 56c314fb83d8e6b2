---------------------------- MODULE Totals_proofs -----------------------------
(***************************************************************************)
(* Facts about the sum of a function with finite domain: it is a natural   *)
(* number, it is zero exactly for the zero function, it is linear, and     *)
(* changing one value of the function changes the sum by as much.          *)
(***************************************************************************)
EXTENDS Totals, FiniteSetTheorems, FunctionTheorems, TLAPS

\* The units of f, as pairs of an element and a positive number up to its value.
LEMMA UnitsAre ==
  ASSUME NEW U, NEW f \in [U -> Nat]
  PROVE  Units(f) = {x \in U \X Nat : 1 <= x[2] /\ x[2] <= f[x[1]]}
<1>1. ASSUME NEW x \in Units(f)
      PROVE  x \in U \X Nat /\ 1 <= x[2] /\ x[2] <= f[x[1]]
  <2>1. PICK u \in U : x \in {u} \X (1..f[u])
    BY <1>1 DEF Units
  <2> QED  BY <2>1
<1>2. ASSUME NEW x \in U \X Nat, 1 <= x[2], x[2] <= f[x[1]]
      PROVE  x \in Units(f)
  <2>1. x \in {x[1]} \X (1..f[x[1]])
    BY <1>2
  <2> QED  BY <2>1 DEF Units
<1> QED  BY <1>1, <1>2

\* There are finitely many units, so that their number is a natural number.
LEMMA TotalType ==
  ASSUME NEW U, IsFiniteSet(U), NEW f \in [U -> Nat]
  PROVE  IsFiniteSet(Units(f)) /\ Total(f) \in Nat
<1> DEFINE Part(u) == {u} \X (1..f[u])
           Parts == {Part(u) : u \in U}
<1>1. IsFiniteSet(Parts)
  <2> DEFINE part == [u \in U |-> Part(u)]
  <2>1. part \in Surjection(U, Parts)
    BY DEF Surjection
  <2> HIDE DEF part, Parts
  <2> QED  BY <2>1, FS_Surjection
<1>2. \A T \in Parts : IsFiniteSet(T)
  <2>1. ASSUME NEW u \in U  PROVE IsFiniteSet({u} \X (1..f[u]))
    <3>1. IsFiniteSet({u})  BY FS_Singleton
    <3>2. IsFiniteSet(1..f[u])  BY FS_Interval
    <3> QED  BY <3>1, <3>2, FS_Product
  <2> QED  BY <2>1
<1>3. Units(f) = UNION Parts
  BY DEF Units
<1>4. IsFiniteSet(Units(f))
  BY <1>1, <1>2, <1>3, FS_UNION
<1> QED  BY <1>4, FS_CardinalityType DEF Total

\* The zero function sums to zero.
LEMMA TotalZero ==
  ASSUME NEW U, NEW f \in [U -> Nat], \A u \in U : f[u] = 0
  PROVE  Total(f) = 0
<1>1. Units(f) = {}
  BY UnitsAre
<1> QED  BY <1>1, FS_EmptySet DEF Total

\* A function that is zero everywhere but at v sums to its value there.
LEMMA TotalSingle ==
  ASSUME NEW U, NEW v \in U, NEW n \in Nat
  PROVE  Total([u \in U |-> IF u = v THEN n ELSE 0]) = n
<1> DEFINE f == [u \in U |-> IF u = v THEN n ELSE 0]
<1>1. f \in [U -> Nat]
  OBVIOUS
<1>2. Units(f) = {v} \X (1..n)
  <2>1. Units(f) = {x \in U \X Nat : 1 <= x[2] /\ x[2] <= f[x[1]]}
    BY <1>1, UnitsAre
  <2>2. {x \in U \X Nat : 1 <= x[2] /\ x[2] <= f[x[1]]} = {v} \X (1..n)
    OBVIOUS
  <2> QED  BY <2>1, <2>2
<1>3. IsFiniteSet(1..n) /\ Cardinality(1..n) = n
  BY FS_Interval
<1>4. IsFiniteSet({v}) /\ Cardinality({v}) = 1
  BY FS_Singleton
<1>5. Cardinality({v} \X (1..n)) = 1 * n
  BY <1>3, <1>4, FS_Product
<1>6. Total(f) = Cardinality({v} \X (1..n))
  BY <1>2 DEF Total
<1> QED  BY <1>5, <1>6

\* The sum of two functions: the units of g follow those of f at each element.
LEMMA TotalPlus ==
  ASSUME NEW U, IsFiniteSet(U), NEW f \in [U -> Nat], NEW g \in [U -> Nat]
  PROVE  Total([u \in U |-> f[u] + g[u]]) = Total(f) + Total(g)
<1> DEFINE h == [u \in U |-> f[u] + g[u]]
           Upper == {x \in U \X Nat : f[x[1]] + 1 <= x[2] /\ x[2] <= h[x[1]]}
           lift == [x \in Units(g) |-> <<x[1], f[x[1]] + x[2]>>]
<1>h. h \in [U -> Nat]
  OBVIOUS
<1>1. Units(f) = {x \in U \X Nat : 1 <= x[2] /\ x[2] <= f[x[1]]}
  BY UnitsAre
<1>2. Units(g) = {x \in U \X Nat : 1 <= x[2] /\ x[2] <= g[x[1]]}
  BY UnitsAre
<1>3. Units(h) = {x \in U \X Nat : 1 <= x[2] /\ x[2] <= h[x[1]]}
  BY <1>h, UnitsAre
<1>4. Units(h) = Units(f) \cup Upper
  BY <1>1, <1>3
<1>5. Units(f) \cap Upper = {}
  BY <1>1
<1>6. lift \in Bijection(Units(g), Upper)
  <2>1. lift \in [Units(g) -> Upper]
    BY <1>2
  <2>2. \A x, y \in Units(g) : lift[x] = lift[y] => x = y
    BY <1>2
  <2>3. \A z \in Upper : \E x \in Units(g) : lift[x] = z
    <3> SUFFICES ASSUME NEW z \in Upper
                 PROVE  \E x \in Units(g) : lift[x] = z
      OBVIOUS
    <3>1. <<z[1], z[2] - f[z[1]]>> \in Units(g)
      BY <1>2
    <3>2. lift[<<z[1], z[2] - f[z[1]]>>] = z
      BY <3>1
    <3> QED  BY <3>1, <3>2
  <2> HIDE DEF lift, Upper
  <2> QED  BY <2>1, <2>2, <2>3, Fun_IsBij
<1>7. IsFiniteSet(Units(f)) /\ IsFiniteSet(Units(g))
  BY TotalType
<1>8. ExistsBijection(Units(g), Upper)
  BY <1>6, Fun_ExistsBij
<1>9. IsFiniteSet(Upper) /\ Cardinality(Upper) = Cardinality(Units(g))
  BY <1>7, <1>8, FS_Bijection
<1>10. Cardinality(Units(f) \cap Upper) = 0
  BY <1>5, FS_EmptySet
<1>11. Total(f) \in Nat /\ Total(g) \in Nat
  BY TotalType
<1>12. Cardinality(Units(h))
         = Cardinality(Units(f)) + Cardinality(Upper) - Cardinality(Units(f) \cap Upper)
  BY <1>4, <1>7, <1>9, FS_Union
<1> QED
  BY <1>9, <1>10, <1>11, <1>12 DEF Total

\* Two numbers in different blocks of length e differ.
LEMMA BlocksApart ==
  ASSUME NEW a \in Nat, NEW b \in Nat, NEW e \in Nat,
         NEW m \in 1..e, NEW n \in 1..e, a * e + m = b * e + n
  PROVE  ~(a < b)
<1> SUFFICES ASSUME a < b PROVE FALSE
  OBVIOUS
<1>1. b * e >= a * e + e
  <2>1. (b - a) * e >= e
    OBVIOUS
  <2> QED  BY <2>1
<1>2. a * e \in Nat /\ b * e \in Nat
  OBVIOUS
<1> QED  BY <1>1, <1>2

\* Every natural number lies in a block of length d.
LEMMA BlockOf ==
  ASSUME NEW n \in Nat, NEW d \in Nat \ {0}
  PROVE  \E q \in Nat, r \in 0..(d - 1) : n = q * d + r
<1>1. n \div d \in Nat /\ n % d \in 0..(d - 1)
  OBVIOUS
<1>2. n = d * (n \div d) + (n % d)
  OBVIOUS
<1>3. n = (n \div d) * d + (n % d)
  BY <1>1, <1>2
<1> QED  BY <1>1, <1>3

\* A multiple of a function: each unit of f counts d times, in blocks of d.
LEMMA TotalTimes ==
  ASSUME NEW U, IsFiniteSet(U), NEW f \in [U -> Nat], NEW d \in Nat
  PROVE  Total([u \in U |-> f[u] * d]) = d * Total(f)
<1> DEFINE h == [u \in U |-> f[u] * d]
           place == [x \in Units(f) \X (1..d) |->
                       <<x[1][1], (x[1][2] - 1) * d + x[2]>>]
<1>h. h \in [U -> Nat]
  <2>1. \A m, n \in Nat : m * n \in Nat
    OBVIOUS
  <2> QED  BY <2>1
<1>1. Units(f) = {x \in U \X Nat : 1 <= x[2] /\ x[2] <= f[x[1]]}
  BY UnitsAre
<1>2. Units(h) = {x \in U \X Nat : 1 <= x[2] /\ x[2] <= h[x[1]]}
  BY <1>h, UnitsAre
<1>3. place \in [Units(f) \X (1..d) -> Units(h)]
  <2> SUFFICES ASSUME NEW u \in U, NEW i \in Nat, NEW j \in 1..d, 1 <= i, i <= f[u]
               PROVE  <<u, (i - 1) * d + j>> \in Units(h)
    BY <1>1
  <2>1. f[u] \in Nat /\ i - 1 \in Nat
    OBVIOUS
  <2>2. (i - 1) * d \in Nat /\ (i - 1) * d + d <= f[u] * d
    <3>1. \A a, b, e \in Nat : a + 1 <= b => a * e \in Nat /\ a * e + e <= b * e
      OBVIOUS
    <3> QED  BY <2>1, <3>1
  <2> QED  BY <1>2, <2>1, <2>2
<1>4. \A x, y \in Units(f) \X (1..d) : place[x] = place[y] => x = y
  <2> SUFFICES ASSUME NEW s \in Units(f), NEW j \in 1..d,
                      NEW t \in Units(f), NEW l \in 1..d,
                      place[<<s, j>>] = place[<<t, l>>]
               PROVE  s = t /\ j = l
    <3> HIDE DEF place
    <3> QED  OBVIOUS
  <2>1. /\ s[1] = t[1]
        /\ (s[2] - 1) * d + j = (t[2] - 1) * d + l
    <3>1. /\ place[<<s, j>>] = <<s[1], (s[2] - 1) * d + j>>
          /\ place[<<t, l>>] = <<t[1], (t[2] - 1) * d + l>>
      OBVIOUS
    <3> QED  BY <3>1
  <2>2. /\ s = <<s[1], s[2]>> /\ s[2] \in Nat \ {0}
        /\ t = <<t[1], t[2]>> /\ t[2] \in Nat \ {0}
    BY <1>1
  <2>4. ~(s[2] - 1 < t[2] - 1) /\ ~(t[2] - 1 < s[2] - 1)
    <3>1. s[2] - 1 \in Nat /\ t[2] - 1 \in Nat
      BY <2>2
    <3>2. (t[2] - 1) * d + l = (s[2] - 1) * d + j
      BY <2>1
    <3> QED  BY <2>1, <3>1, <3>2, BlocksApart
  <2> HIDE DEF place, h
  <2>5. s[2] = t[2]
    BY <2>2, <2>4
  <2>6. j = l
    <3>1. (s[2] - 1) * d + j = (s[2] - 1) * d + l
      BY <2>1, <2>5
    <3>2. \A k \in Int : k + j = k + l => j = l
      OBVIOUS
    <3>3. (s[2] - 1) * d \in Int
      BY <2>2
    <3> QED  BY <3>1, <3>2, <3>3
  <2> QED  BY <2>1, <2>2, <2>5, <2>6
<1>5. \A z \in Units(h) : \E x \in Units(f) \X (1..d) : place[x] = z
  <2> SUFFICES ASSUME NEW z \in Units(h)
               PROVE  \E x \in Units(f) \X (1..d) : place[x] = z
    OBVIOUS
  <2>1. z = <<z[1], z[2]>> /\ z[1] \in U /\ z[2] \in Nat \ {0} /\ z[2] <= f[z[1]] * d
    BY <1>2
  <2>2. d > 0 /\ f[z[1]] \in Nat
    BY <2>1
  <2>3. PICK q \in Nat, r \in 0..(d - 1) : z[2] - 1 = q * d + r
    <3>1. z[2] - 1 \in Nat /\ d \in Nat \ {0}
      BY <2>1, <2>2
    <3> QED  BY <3>1, BlockOf
  <2>4. q < f[z[1]]
    <3>1. \A a, b \in Nat : a <= b => a * d <= b * d
      OBVIOUS
    <3>2. f[z[1]] * d \in Nat /\ q * d \in Nat
      BY <2>2, <2>3
    <3>3. q * d < f[z[1]] * d
      BY <2>1, <2>3, <3>2
    <3> QED  BY <2>2, <2>3, <3>1, <3>2, <3>3
  <2> DEFINE x == <<<<z[1], q + 1>>, r + 1>>
  <2>5. x \in Units(f) \X (1..d)
    BY <1>1, <2>1, <2>2, <2>3, <2>4
  <2>6. place[x] = <<z[1], (q + 1 - 1) * d + (r + 1)>>
    BY <2>5
  <2>7. (q + 1 - 1) * d + (r + 1) = z[2]
    BY <2>1, <2>3
  <2> QED  BY <2>1, <2>5, <2>6, <2>7
<1>6. ExistsBijection(Units(f) \X (1..d), Units(h))
  <2> HIDE DEF place, h
  <2>1. place \in Bijection(Units(f) \X (1..d), Units(h))
    BY <1>3, <1>4, <1>5, Fun_IsBij
  <2> QED  BY <2>1, Fun_ExistsBij
<1>7. IsFiniteSet(Units(f)) /\ Total(f) \in Nat
  BY TotalType
<1>8. IsFiniteSet(1..d) /\ Cardinality(1..d) = d
  BY FS_Interval
<1>9. /\ IsFiniteSet(Units(f) \X (1..d))
      /\ Cardinality(Units(f) \X (1..d)) = Total(f) * d
  BY <1>7, <1>8, FS_Product DEF Total
<1>10. Cardinality(Units(h)) = Total(f) * d
  BY <1>6, <1>9, FS_Bijection
<1>11. Total(h) = Total(f) * d
  BY <1>10 DEF Total
<1> QED  BY <1>7, <1>11

\* Changing the value at v changes the sum by as much.
LEMMA TotalUpdate ==
  ASSUME NEW U, IsFiniteSet(U), NEW f \in [U -> Nat], NEW v \in U, NEW n \in Nat
  PROVE  Total([f EXCEPT ![v] = n]) = Total(f) - f[v] + n
<1> DEFINE rest == [u \in U |-> IF u = v THEN 0 ELSE f[u]]
           At(k) == [u \in U |-> IF u = v THEN k ELSE 0]
<1>1. rest \in [U -> Nat] /\ \A k \in Nat : At(k) \in [U -> Nat]
  OBVIOUS
<1>2. ASSUME NEW k \in Nat
      PROVE  Total([u \in U |-> rest[u] + At(k)[u]]) = Total(rest) + k
  <2>1. Total(At(k)) = k
    BY TotalSingle
  <2> HIDE DEF rest, At
  <2>2. Total([u \in U |-> rest[u] + At(k)[u]]) = Total(rest) + Total(At(k))
    BY <1>1, TotalPlus
  <2> QED  BY <2>1, <2>2
<1>3. f = [u \in U |-> rest[u] + At(f[v])[u]]
  OBVIOUS
<1>4. [f EXCEPT ![v] = n] = [u \in U |-> rest[u] + At(n)[u]]
  <2>1. [f EXCEPT ![v] = n] = [u \in U |-> IF u = v THEN n ELSE f[u]]
    OBVIOUS
  <2>2. \A u \in U : rest[u] + At(n)[u] = IF u = v THEN n ELSE f[u]
    OBVIOUS
  <2> QED  BY <2>1, <2>2
<1>5. Total(f) = Total(rest) + f[v]
  BY <1>2, <1>3
<1>6. Total([f EXCEPT ![v] = n]) = Total(rest) + n
  BY <1>2, <1>4
<1>7. Total(rest) \in Nat
  BY <1>1, TotalType
<1> QED  BY <1>5, <1>6, <1>7

\* No value exceeds the sum.
LEMMA TotalBound ==
  ASSUME NEW U, IsFiniteSet(U), NEW f \in [U -> Nat], NEW v \in U
  PROVE  f[v] <= Total(f)
<1>1. Total([f EXCEPT ![v] = 0]) = Total(f) - f[v] + 0
  BY TotalUpdate, 0 \in Nat, Zenon
<1>2. [f EXCEPT ![v] = 0] \in [U -> Nat]
  OBVIOUS
<1>3. Total([f EXCEPT ![v] = 0]) \in Nat /\ Total(f) \in Nat
  BY <1>2, TotalType
<1> QED  BY <1>1, <1>3

\* A larger function has a larger sum.
LEMMA TotalMono ==
  ASSUME NEW U, IsFiniteSet(U), NEW f \in [U -> Nat], NEW g \in [U -> Nat],
         \A u \in U : f[u] <= g[u]
  PROVE  Total(f) <= Total(g)
<1> DEFINE more == [u \in U |-> g[u] - f[u]]
<1>1. \A u \in U : f[u] \in Nat /\ g[u] \in Nat
  OBVIOUS
<1>2. more \in [U -> Nat]
  BY <1>1
<1>3. g = [u \in U |-> f[u] + more[u]]
  BY <1>1
<1> HIDE DEF more
<1>4. Total(g) = Total(f) + Total(more)
  BY <1>2, <1>3, TotalPlus
<1>5. Total(f) \in Nat /\ Total(more) \in Nat /\ Total(g) \in Nat
  BY <1>2, TotalType
<1> QED  BY <1>4, <1>5

\* Zeros outside its domain do not change a sum.
LEMMA TotalExtend ==
  ASSUME NEW U, NEW S \in SUBSET U, NEW f \in [S -> Nat]
  PROVE  Total([u \in U |-> IF u \in S THEN f[u] ELSE 0]) = Total(f)
<1> DEFINE h == [u \in U |-> IF u \in S THEN f[u] ELSE 0]
<1>1. h \in [U -> Nat]
  OBVIOUS
<1>2. \A u \in U : h[u] = IF u \in S THEN f[u] ELSE 0
  OBVIOUS
<1> HIDE DEF h
<1>3. Units(h) = {x \in U \X Nat : 1 <= x[2] /\ x[2] <= h[x[1]]}
  BY <1>1, UnitsAre
<1>4. Units(f) = {x \in S \X Nat : 1 <= x[2] /\ x[2] <= f[x[1]]}
  BY UnitsAre
<1>5. ASSUME NEW x \in U \X Nat, 1 <= x[2], x[2] <= h[x[1]]
      PROVE  x \in S \X Nat /\ x[2] <= f[x[1]]
  <2>1. PICK u \in U, n \in Nat : x = <<u, n>>
    OBVIOUS
  <2>2. x[1] = u /\ x[2] = n
    BY <2>1
  <2>3. u \in S
    BY <1>2, <1>5, <2>2
  <2> QED  BY <1>2, <1>5, <2>1, <2>2, <2>3
<1>6. ASSUME NEW x \in S \X Nat, x[2] <= f[x[1]]
      PROVE  x \in U \X Nat /\ x[2] <= h[x[1]]
  <2>1. PICK u \in S, n \in Nat : x = <<u, n>>
    OBVIOUS
  <2>2. x[1] = u /\ x[2] = n
    BY <2>1
  <2> QED  BY <1>2, <1>6, <2>1, <2>2
<1>7. Units(h) = Units(f)
  BY <1>3, <1>4, <1>5, <1>6
<1> QED  BY <1>7 DEF Total, h

===============================================================================
