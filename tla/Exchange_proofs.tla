---------------------------- MODULE Exchange_proofs ----------------------------
(***************************************************************************)
(* Facts about the sums and decimals of exchange.rs, for books of any      *)
(* depth and decimals of any precision.                                    *)
(***************************************************************************)
EXTENDS Exchange, FiniteSetTheorems, TLAPS

-------------------------------------------------------------------------------
(* Induction over the levels of a book. *)

\* A set stands for the predicate.  If n were not in it, adding one would map the finite
\* set of its members below n into itself, injectively, and never reach 0.
LEMMA NatSetInduction ==
  ASSUME NEW S, 0 \in S, \A i \in Nat : i \in S => i + 1 \in S
  PROVE  \A n \in Nat : n \in S
<1> SUFFICES ASSUME NEW n \in Nat, n \notin S
             PROVE  FALSE
  OBVIOUS
<1> DEFINE T == {i \in 0..(n - 1) : i \in S}
           next == [i \in T |-> i + 1]
<1>1. 0 \in T
  <2>1. n # 0
    OBVIOUS
  <2> QED BY <2>1
<1>2. T \in SUBSET (0..(n - 1)) /\ IsFiniteSet(0..(n - 1))
  BY FS_Interval
<1>3. IsFiniteSet(T)
  BY <1>2, FS_Subset
<1>4. ASSUME NEW i \in T
      PROVE  i + 1 \in T /\ i \in Nat
  <2>1. i \in Nat /\ i \in S /\ i <= n - 1
    OBVIOUS
  <2>2. i + 1 \in S
    BY <2>1
  <2>3. i + 1 # n
    BY <2>2
  <2>4. i + 1 \in 0..(n - 1)
    BY <2>1, <2>3
  <2> QED BY <2>1, <2>2, <2>4
<1>5. next \in [T -> T] /\ \A i \in T : next[i] = i + 1 /\ i \in Nat
  BY <1>4
<1> HIDE DEF T, next
<1>6. next \in Injection(T, T)
  BY <1>5 DEF Injection, IsInjective
<1>7. next \in Surjection(T, T)
  BY <1>3, <1>6, FS_Injection
<1>8. PICK i \in T : next[i] = 0
  BY <1>1, <1>7 DEF Surjection
<1> QED BY <1>5, <1>8

-------------------------------------------------------------------------------
(* Depth satisfies its equation. *)

\* The function by which Depth is defined.
IsDepth(depth, sizes, n) ==
  depth = [i \in 0..n |-> IF i = 0 THEN 0 ELSE depth[i - 1] + sizes[i]]

\* Depth is a value of such a function.
LEMMA DepthDef ==
  ASSUME NEW sizes, NEW n
  PROVE  Depth(sizes, n) = (CHOOSE depth : IsDepth(depth, sizes, n))[n]
BY DEF Depth, IsDepth

\* There is such a function, however many levels there are.
LEMMA DepthExists ==
  ASSUME NEW sizes
  PROVE  \A n \in Nat : \E depth : IsDepth(depth, sizes, n)
<1> DEFINE S == {n \in Nat : \E depth : IsDepth(depth, sizes, n)}
<1>1. 0 \in S
  <2> DEFINE d == [i \in 0..0 |-> 0]
  <2>1. IsDepth(d, sizes, 0)
    BY DEF IsDepth
  <2> QED BY <2>1
<1>2. ASSUME NEW n \in Nat, n \in S
      PROVE  n + 1 \in S
  <2>1. PICK d : IsDepth(d, sizes, n)
    BY <1>2
  <2> DEFINE e == [i \in 0..(n + 1) |-> IF i = 0 THEN 0 ELSE d[i - 1] + sizes[i]]
  <2>2. \A i \in 0..n : d[i] = IF i = 0 THEN 0 ELSE d[i - 1] + sizes[i]
    BY <2>1 DEF IsDepth
  <2>3. \A i \in 0..n : e[i] = d[i]
    BY <2>2
  <2>4. \A i \in 0..(n + 1) : e[i] = IF i = 0 THEN 0 ELSE e[i - 1] + sizes[i]
    <3>1. \A i \in 0..(n + 1) : e[i] = IF i = 0 THEN 0 ELSE d[i - 1] + sizes[i]
      OBVIOUS
    <3>2. \A i \in 0..(n + 1) : i = 0 \/ i - 1 \in 0..n
      OBVIOUS
    <3> HIDE DEF e
    <3> SUFFICES ASSUME NEW i \in 0..(n + 1), i # 0
                 PROVE  e[i] = e[i - 1] + sizes[i]
      BY <3>1
    <3>3. e[i - 1] = d[i - 1]
      BY <2>3, <3>2
    <3> QED BY <3>1, <3>3
  <2>5. e = [i \in 0..(n + 1) |-> IF i = 0 THEN 0 ELSE e[i - 1] + sizes[i]]
    BY <2>4
  <2>6. IsDepth(e, sizes, n + 1)
    BY <2>5 DEF IsDepth
  <2> HIDE DEF e
  <2> QED BY <2>6
<1> HIDE DEF S
<1>3. \A n \in Nat : n \in S
  BY <1>1, <1>2, NatSetInduction
<1> QED BY <1>3 DEF S

\* All these functions agree.
LEMMA DepthUnique ==
  ASSUME NEW sizes, NEW m \in Nat, NEW n \in Nat, NEW d, NEW e,
         IsDepth(d, sizes, m), IsDepth(e, sizes, n)
  PROVE  \A i \in Nat : i <= m /\ i <= n => d[i] = e[i]
<1> DEFINE S == {i \in Nat : i <= m /\ i <= n => d[i] = e[i]}
<1>1. /\ \A i \in 0..m : d[i] = IF i = 0 THEN 0 ELSE d[i - 1] + sizes[i]
      /\ \A i \in 0..n : e[i] = IF i = 0 THEN 0 ELSE e[i - 1] + sizes[i]
  BY DEF IsDepth
<1>2. 0 \in S
  BY <1>1
<1>3. ASSUME NEW i \in Nat, i \in S
      PROVE  i + 1 \in S
  BY <1>1, <1>3
<1> HIDE DEF S
<1>4. \A i \in Nat : i \in S
  BY <1>2, <1>3, NatSetInduction
<1> QED BY <1>4 DEF S

\* The first n + 1 sizes sum to one more size than the first n.
LEMMA DepthSteps ==
  ASSUME NEW sizes
  PROVE  /\ Depth(sizes, 0) = 0
         /\ \A n \in Nat : Depth(sizes, n + 1) = Depth(sizes, n) + sizes[n + 1]
<1> DEFINE D(n) == CHOOSE depth : IsDepth(depth, sizes, n)
<1>1. \A n \in Nat : IsDepth(D(n), sizes, n) /\ Depth(sizes, n) = D(n)[n]
  BY DepthExists, DepthDef
<1> HIDE DEF D
<1>2. \A n \in Nat : \A i \in 0..n :
        D(n)[i] = IF i = 0 THEN 0 ELSE D(n)[i - 1] + sizes[i]
  BY <1>1 DEF IsDepth
<1>3. Depth(sizes, 0) = 0
  BY <1>1, <1>2
<1>4. ASSUME NEW n \in Nat
      PROVE  Depth(sizes, n + 1) = Depth(sizes, n) + sizes[n + 1]
  <2>1. D(n + 1)[n + 1] = D(n + 1)[n] + sizes[n + 1]
    BY <1>2
  <2>2. D(n + 1)[n] = D(n)[n]
    BY <1>1, DepthUnique
  <2> QED BY <1>1, <2>1, <2>2
<1> QED BY <1>3, <1>4

-------------------------------------------------------------------------------
(* Decimals: each operation rounds down, and the lemmas say by how much. *)

\* What the proofs use of a market.
IsMarket(m) ==
  /\ m.taker_fee_rate \in Nat
  /\ m.min_price_tick_size \in Nat \ {0}
  /\ m.min_quantity_tick_size \in Nat \ {0}
  /\ m.base_denom # m.quote_denom
  /\ Fee(m) <= One

\* Division rounds down.
LEMMA DivDown ==
  ASSUME NEW n \in Nat, NEW d \in Nat \ {0}
  PROVE  n \div d \in Nat /\ (n \div d) * d <= n
<1>1. n \div d \in Nat /\ n % d \in 0..(d - 1)
  OBVIOUS
<1>2. n = d * (n \div d) + (n % d)
  OBVIOUS
<1>3. \A q \in Nat : d * q = q * d /\ q * d \in Nat
  OBVIOUS
<1> QED  BY <1>1, <1>2, <1>3

\* Products are monotonic.
LEMMA TimesMono ==
  ASSUME NEW a \in Nat, NEW b \in Nat, NEW c \in Nat, a <= b
  PROVE  a * c <= b * c
OBVIOUS

\* A common factor cancels.
LEMMA TimesCancel ==
  ASSUME NEW a \in Nat, NEW b \in Nat, NEW c \in Nat \ {0}, a * c <= b * c
  PROVE  a <= b
OBVIOUS

\* A product of natural numbers is one.
LEMMA TimesNat ==
  ASSUME NEW a \in Nat, NEW b \in Nat
  PROVE  a * b \in Nat
OBVIOUS

\* The product of two decimals is rounded down.
LEMMA MulDown ==
  ASSUME NEW a \in Nat, NEW b \in Nat
  PROVE  Mul(a, b) \in Nat /\ Mul(a, b) * One <= a * b
BY TimesNat, DivDown, ExchangeAssumption DEF Mul

\* The quotient of two decimals is rounded down.
LEMMA DivideDown ==
  ASSUME NEW a \in Nat, NEW b \in Nat \ {0}
  PROVE  Div(a, b) \in Nat /\ Div(a, b) * b <= a * One
BY TimesNat, DivDown, ExchangeAssumption DEF Div

\* A product with a whole decimal is exact.
LEMMA MulWhole ==
  ASSUME NEW n \in Nat, NEW b \in Nat
  PROVE  Mul(Decimal(n), b) = n * b
<1>1. n * One * b = (n * b) * One
  BY ExchangeAssumption
<1>2. \A x \in Nat : (x * One) \div One = x
  BY ExchangeAssumption
<1> QED  BY <1>1, <1>2, TimesNat DEF Mul, Decimal

\* Stripping never adds, and leaves a whole number of ticks.
LEMMA StripDown ==
  ASSUME NEW x \in Nat, NEW tick \in Nat \ {0}
  PROVE  /\ strip_min_tick(x, tick) \in Nat
         /\ strip_min_tick(x, tick) <= x
         /\ \E n \in Nat : strip_min_tick(x, tick) = n * tick
<1> DEFINE n == ToUintFloor(Div(x, tick))
<1>1. Div(x, tick) \in Nat /\ Div(x, tick) * tick <= x * One
  BY DivideDown
<1>2. n \in Nat /\ n * One <= Div(x, tick)
  BY <1>1, DivDown, ExchangeAssumption DEF ToUintFloor
<1>3. strip_min_tick(x, tick) = n * tick
  BY <1>2, MulWhole DEF strip_min_tick
<1> HIDE DEF n
<1>4. (n * One) * tick <= x * One
  BY <1>1, <1>2, TimesMono, TimesNat, ExchangeAssumption
<1>5. (n * One) * tick = (n * tick) * One /\ n * tick \in Nat
  BY <1>2, TimesNat, ExchangeAssumption
<1>6. n * tick <= x
  BY <1>4, <1>5, TimesCancel, ExchangeAssumption
<1> QED  BY <1>2, <1>3, <1>5, <1>6

\* The fee of an order is at most all of it.
LEMMA FeeType ==
  ASSUME NEW m, IsMarket(m)
  PROVE  Fee(m) \in Nat /\ One - Fee(m) \in Nat
<1>1. m.taker_fee_rate \in Nat
  BY DEF IsMarket
<1>2. Fee(m) \in Nat
  BY <1>1, MulDown, ExchangeAssumption DEF Fee
<1> QED  BY <1>2, ExchangeAssumption DEF IsMarket

\* What is left after the fee is rounded down.
LEMMA AfterFeeDown ==
  ASSUME NEW m, IsMarket(m), NEW x \in Nat
  PROVE  AfterFee(x, m) \in Nat /\ AfterFee(x, m) * One <= x * (One - Fee(m))
BY FeeType, MulDown DEF AfterFee

\* The whole number of tokens in the whole ticks of x costs no more than x does.
LEMMA TokensDown ==
  ASSUME NEW x \in Nat, NEW tick \in Nat \ {0}
  PROVE  /\ ToUintFloor(strip_min_tick(x, tick)) \in Nat
         /\ ToUintFloor(strip_min_tick(x, tick)) * One <= x
<1>1. strip_min_tick(x, tick) \in Nat /\ strip_min_tick(x, tick) <= x
  BY StripDown
<1>2. /\ ToUintFloor(strip_min_tick(x, tick)) \in Nat
      /\ ToUintFloor(strip_min_tick(x, tick)) * One <= strip_min_tick(x, tick)
  BY <1>1, DivDown, ExchangeAssumption DEF ToUintFloor
<1>3. ToUintFloor(strip_min_tick(x, tick)) * One \in Nat
  BY <1>2, TimesNat, ExchangeAssumption
<1> QED  BY <1>1, <1>2, <1>3

\* The cost of n tokens at the worst price w, when the part b of the amount a that is
\* left after the fee pays for them: (1 - fee) * (1 + fee) is not more than 1.
LEMMA CostBound ==
  ASSUME NEW m, IsMarket(m), NEW n \in Nat, NEW w \in Nat, NEW d \in Nat, NEW a \in Nat, NEW b \in Nat,
         n * One <= d, d * w <= b * One, b * One <= a * (One - Fee(m))
  PROVE  n * w * (One + Fee(m)) <= a * One
<1> DEFINE f == Fee(m)
<1>0. f \in Nat /\ One \in Nat \ {0} /\ One - f \in Nat /\ One + f \in Nat \ {0}
  BY FeeType, ExchangeAssumption
<1>a. b * One <= a * (One - f)
  OBVIOUS
<1> HIDE DEF f
<1>1. n * w \in Nat /\ a * (One - f) \in Nat
  BY <1>0, TimesNat
<1>2. (n * One) * w <= d * w
  BY <1>0, TimesMono, TimesNat
<1>3. (n * One) * w = (n * w) * One
  BY <1>0
<1>4. (n * w) * One <= b * One
  BY <1>2, <1>3, <1>0, <1>1, TimesNat
<1>5. (n * w) * One <= a * (One - f)
  BY <1>4, <1>a, <1>0, <1>1, TimesNat
<1>6. ((n * w) * One) * (One + f) <= (a * (One - f)) * (One + f)
  BY <1>5, <1>0, <1>1, TimesMono, TimesNat
<1>7. (One - f) * (One + f) \in Nat /\ (One - f) * (One + f) <= One * One
  BY <1>0
<1>8. (a * (One - f)) * (One + f) = ((One - f) * (One + f)) * a
  BY <1>0
<1>9. ((One - f) * (One + f)) * a <= (One * One) * a
  BY <1>7, <1>0, TimesMono, TimesNat
<1>10. /\ ((n * w) * One) * (One + f) = (n * w * (One + f)) * One
       /\ (One * One) * a = (a * One) * One
  BY <1>0, <1>1
<1>11. n * w * (One + f) \in Nat /\ a * One \in Nat
  BY <1>0, <1>1, TimesNat
<1>12. (n * w * (One + f)) * One <= (a * One) * One
  BY <1>6, <1>8, <1>9, <1>10, <1>11, <1>0, <1>1, <1>7, TimesNat
<1>13. n * w * (One + f) <= a * One
  BY <1>12, <1>11, <1>0, TimesCancel
<1> QED  BY <1>13 DEF f

\* Rounding whole ticks down to tokens keeps them on the tick, if a tick is whole.
LEMMA TokensOnTick ==
  ASSUME NEW x \in Nat, NEW tick \in Nat \ {0}, tick % One = 0
  PROVE  Decimal(ToUintFloor(strip_min_tick(x, tick))) % tick = 0
<1>1. PICK n \in Nat : strip_min_tick(x, tick) = n * tick
  BY StripDown
<1> DEFINE k == tick \div One
<1>2. k \in Nat /\ tick = k * One
  BY ExchangeAssumption
<1> HIDE DEF k
<1>3. n * tick = (n * k) * One /\ n * k \in Nat
  BY <1>2, TimesNat, ExchangeAssumption
<1>4. \A y \in Nat : (y * One) \div One = y
  BY ExchangeAssumption
<1>5. Decimal(ToUintFloor(strip_min_tick(x, tick))) = n * tick
  BY <1>1, <1>3, <1>4 DEF ToUintFloor, Decimal
<1>6. (n * tick) % tick = 0
  OBVIOUS
<1> QED  BY <1>5, <1>6

-------------------------------------------------------------------------------
(* Depth as a sum of sizes. *)

\* The sums of sizes that are not negative are not, and they never decrease.
LEMMA DepthGrows ==
  ASSUME NEW sizes, NEW len \in Nat, \A i \in 1..len : sizes[i] \in Nat
  PROVE  /\ \A n \in 0..len : Depth(sizes, n) \in Nat
         /\ \A j, n \in 0..len : j <= n => Depth(sizes, j) <= Depth(sizes, n)
<1> DEFINE S == {n \in Nat : n <= len =>
                   /\ Depth(sizes, n) \in Nat
                   /\ \A j \in 0..n : Depth(sizes, j) \in Nat
                                      /\ Depth(sizes, j) <= Depth(sizes, n)}
<1>1. 0 \in S
  BY DepthSteps
<1>2. ASSUME NEW n \in Nat, n \in S
      PROVE  n + 1 \in S
  <2> SUFFICES ASSUME n + 1 <= len
               PROVE  /\ Depth(sizes, n + 1) \in Nat
                      /\ \A j \in 0..(n + 1) : Depth(sizes, j) \in Nat
                                               /\ Depth(sizes, j) <= Depth(sizes, n + 1)
    OBVIOUS
  <2>1. /\ Depth(sizes, n) \in Nat
        /\ \A j \in 0..n : Depth(sizes, j) \in Nat /\ Depth(sizes, j) <= Depth(sizes, n)
    BY <1>2
  <2>2. Depth(sizes, n + 1) = Depth(sizes, n) + sizes[n + 1] /\ sizes[n + 1] \in Nat
    BY DepthSteps
  <2>3. \A j \in 0..(n + 1) : j \in 0..n \/ j = n + 1
    OBVIOUS
  <2> QED BY <2>1, <2>2, <2>3
<1> HIDE DEF S
<1>3. \A n \in Nat : n \in S
  BY <1>1, <1>2, NatSetInduction
<1> QED BY <1>3 DEF S

\* The sums of the same sizes are the same.
LEMMA DepthAgree ==
  ASSUME NEW s, NEW t, NEW len \in Nat, \A i \in 1..len : s[i] = t[i]
  PROVE  \A n \in 0..len : Depth(s, n) = Depth(t, n)
<1> DEFINE S == {n \in Nat : n <= len => Depth(s, n) = Depth(t, n)}
<1>1. 0 \in S
  BY DepthSteps
<1>2. ASSUME NEW n \in Nat, n \in S
      PROVE  n + 1 \in S
  BY <1>2, DepthSteps
<1> HIDE DEF S
<1>3. \A n \in Nat : n \in S
  BY <1>1, <1>2, NatSetInduction
<1> QED BY <1>3 DEF S

\* Sizes of 0 add nothing.
LEMMA DepthFlat ==
  ASSUME NEW sizes, NEW k \in Nat, NEW len \in Nat, k <= len,
         \A i \in 1..len : sizes[i] \in Nat,
         \A i \in 1..len : i > k => sizes[i] = 0
  PROVE  Depth(sizes, len) = Depth(sizes, k)
<1> DEFINE S == {n \in Nat : k <= n /\ n <= len => Depth(sizes, n) = Depth(sizes, k)}
<1>1. 0 \in S
  BY DepthSteps
<1>2. ASSUME NEW n \in Nat, n \in S
      PROVE  n + 1 \in S
  <2> SUFFICES ASSUME k <= n + 1, n + 1 <= len
               PROVE  Depth(sizes, n + 1) = Depth(sizes, k)
    OBVIOUS
  <2>1. CASE k = n + 1
    BY <2>1
  <2>2. CASE k <= n
    <3>1. Depth(sizes, n) = Depth(sizes, k)
      BY <1>2, <2>2
    <3>2. Depth(sizes, n + 1) = Depth(sizes, n) + 0
      BY <2>2, DepthSteps
    <3>3. Depth(sizes, n) \in Nat
      BY <2>2, DepthGrows
    <3> QED BY <3>1, <3>2, <3>3
  <2> QED BY <2>1, <2>2
<1> HIDE DEF S
<1>3. \A n \in Nat : n \in S
  BY <1>1, <1>2, NatSetInduction
<1> QED BY <1>3 DEF S

\* What the levels are worth is no more than their quantities at the worst of prices.
LEMMA NotionalBound ==
  ASSUME NEW levels \in Seq(Level), NEW w \in Nat,
         \A i \in 1..Len(levels) : levels[i].p <= w
  PROVE  \A n \in 0..Len(levels) :
           Depth(Notionals(levels), n) * One <= Depth(Quantities(levels), n) * w
<1> DEFINE N == Notionals(levels)
           Q == Quantities(levels)
           len == Len(levels)
           S == {n \in Nat : n <= len => Depth(N, n) * One <= Depth(Q, n) * w}
<1>0. len \in Nat /\ One \in Nat /\ One # 0
  BY ExchangeAssumption
<1>1. ASSUME NEW i \in 1..len
      PROVE  /\ levels[i].p \in Nat /\ levels[i].q \in Nat
             /\ N[i] = Mul(levels[i].p, levels[i].q)
             /\ Q[i] = levels[i].q
  <2>1. levels[i] \in Level
    OBVIOUS
  <2> QED BY <2>1 DEF Level, Notionals, Quantities
<1>2. ASSUME NEW i \in 1..len
      PROVE  N[i] \in Nat /\ Q[i] \in Nat /\ N[i] * One <= Q[i] * w
  <2> DEFINE p == levels[i].p
             q == levels[i].q
  <2>1. p \in Nat /\ q \in Nat /\ p <= w
    BY <1>1
  <2>2. N[i] = Mul(p, q) /\ Q[i] = q
    BY <1>1
  <2> HIDE DEF N, Q, p, q
  <2>3. Mul(p, q) \in Nat /\ Mul(p, q) * One <= p * q
    BY <2>1, MulDown
  <2>4. p * q <= w * q /\ w * q = q * w
    BY <2>1, TimesMono
  <2>5. p * q \in Nat /\ w * q \in Nat /\ Mul(p, q) * One \in Nat
    BY <1>0, <2>1, <2>3, TimesNat
  <2> HIDE DEF S
  <2>6. PICK a, b, c : a = Mul(p, q) * One /\ b = p * q /\ c = w * q
    OBVIOUS
  <2>7. a <= c
    <3>1. a <= b /\ b <= c
      BY <2>3, <2>4, <2>6
    <3>2. a \in Nat /\ b \in Nat /\ c \in Nat
      BY <2>5, <2>6
    <3> QED BY <3>1, <3>2
  <2>8. N[i] * One = a /\ Q[i] * w = c
    BY <2>2, <2>4, <2>6
  <2>9. N[i] \in Nat /\ Q[i] \in Nat
    BY <2>1, <2>2, <2>3
  <2> QED BY <2>7, <2>8, <2>9
<1> HIDE DEF N, Q, len
<1>3. 0 \in S
  <2>1. Depth(N, 0) = 0 /\ Depth(Q, 0) = 0
    BY DepthSteps
  <2> QED BY <2>1, <1>0
<1>4. ASSUME NEW n \in Nat, n \in S
      PROVE  n + 1 \in S
  <2> SUFFICES ASSUME n + 1 <= len
               PROVE  Depth(N, n + 1) * One <= Depth(Q, n + 1) * w
    OBVIOUS
  <2>1. PICK a, b, c, d : a = Depth(N, n) /\ b = Depth(Q, n) /\ c = N[n + 1] /\ d = Q[n + 1]
    OBVIOUS
  <2>2. a \in Nat /\ b \in Nat
    <3>1. \A i \in 1..len : N[i] \in Nat /\ Q[i] \in Nat
      BY <1>2
    <3>2. n \in 0..len
      BY <1>0
    <3>3. Depth(N, n) \in Nat
      BY <1>0, <3>1, <3>2, DepthGrows
    <3>4. Depth(Q, n) \in Nat
      BY <1>0, <3>1, <3>2, DepthGrows
    <3> QED BY <2>1, <3>3, <3>4
  <2>3. c \in Nat /\ d \in Nat /\ c * One <= d * w
    <3>1. n + 1 \in 1..len
      BY <1>0
    <3> QED BY <2>1, <3>1, <1>2
  <2>4. a * One <= b * w
    <3>1. n <= len
      BY <1>0
    <3> QED BY <1>4, <2>1, <3>1
  <2>5. Depth(N, n + 1) = a + c /\ Depth(Q, n + 1) = b + d
    BY <2>1, DepthSteps
  <2>6. (a + c) * One = a * One + c * One /\ (b + d) * w = b * w + d * w
    BY <2>2, <2>3, <1>0
  <2>7. a * One \in Nat /\ c * One \in Nat /\ b * w \in Nat /\ d * w \in Nat
    BY <2>2, <2>3, <1>0, TimesNat
  <2> QED BY <2>3, <2>4, <2>5, <2>6, <2>7
<1> HIDE DEF S
<1>5. \A n \in Nat : n \in S
  BY <1>3, <1>4, NatSetInduction
<1> QED BY <1>5, <1>0 DEF S, N, Q, len

-------------------------------------------------------------------------------
(* What an order takes of the levels. *)

\* What is taken of the level n of levels for the quantity.
Taken(levels, quantity, n) ==
  LET left == quantity - Depth(Quantities(levels), n - 1)
  IN IF left <= 0 THEN 0 ELSE Smaller(levels[n].q, left)

\* Price, quantity and notional of a level.
LEMMA LevelType ==
  ASSUME NEW levels \in Seq(Level), NEW n \in 1..Len(levels)
  PROVE  /\ levels[n].p \in Nat \ {0} /\ levels[n].q \in Nat \ {0}
         /\ Quantities(levels)[n] = levels[n].q
         /\ Notionals(levels)[n] = Mul(levels[n].p, levels[n].q)
<1>1. levels[n] \in Level
  OBVIOUS
<1> QED BY <1>1 DEF Level, Quantities, Notionals

\* The depth of a book in quantities is a number that grows.
LEMMA QuantityDepth ==
  ASSUME NEW levels \in Seq(Level)
  PROVE  /\ \A n \in 0..Len(levels) : Depth(Quantities(levels), n) \in Nat
         /\ \A j, n \in 0..Len(levels) :
              j <= n => Depth(Quantities(levels), j) <= Depth(Quantities(levels), n)
<1>1. \A i \in 1..Len(levels) : Quantities(levels)[i] \in Nat
  BY LevelType
<1>2. Len(levels) \in Nat
  OBVIOUS
<1> HIDE DEF Quantities
<1> QED BY <1>1, <1>2, DepthGrows

\* A level is not taken from by a negative quantity.
LEMMA TakenType ==
  ASSUME NEW levels \in Seq(Level), NEW quantity \in Nat, NEW n \in 1..Len(levels)
  PROVE  Taken(levels, quantity, n) \in Nat
<1>1. levels[n].q \in Nat
  BY LevelType
<1>2. n - 1 \in 0..Len(levels)
  OBVIOUS
<1>3. Depth(Quantities(levels), n - 1) \in Nat
  BY <1>2, QuantityDepth
<1> QED BY <1>1, <1>3 DEF Taken, Smaller

\* Of each level, an order takes what Taken says.
LEMMA WalkLevels ==
  ASSUME NEW levels \in Seq(Level), NEW quantity
  PROVE  /\ Len(Walk(levels, quantity)) = Len(levels)
         /\ \A n \in 1..Len(levels) :
              /\ Quantities(Walk(levels, quantity))[n] = Taken(levels, quantity, n)
              /\ Notionals(Walk(levels, quantity))[n]
                   = Mul(levels[n].p, Taken(levels, quantity, n))
<1> DEFINE W == Walk(levels, quantity)
<1>1. W = [n \in 1..Len(levels) |-> [levels[n] EXCEPT !.q = Taken(levels, quantity, n)]]
  BY DEF Walk, Taken
<1>2. Len(levels) \in Nat
  OBVIOUS
<1>3. Len(W) = Len(levels)
  <2> HIDE DEF W
  <2> QED BY <1>1, <1>2
<1>4. ASSUME NEW n \in 1..Len(levels)
      PROVE  W[n].p = levels[n].p /\ W[n].q = Taken(levels, quantity, n)
  <2>1. levels[n] \in Level
    OBVIOUS
  <2>2. W[n] = [levels[n] EXCEPT !.q = Taken(levels, quantity, n)]
    BY <1>1
  <2> HIDE DEF W
  <2>3. \A t : [levels[n] EXCEPT !.q = t].p = levels[n].p /\ [levels[n] EXCEPT !.q = t].q = t
    BY <2>1 DEF Level
  <2> QED BY <2>2, <2>3
<1> HIDE DEF W
<1>5. \A n \in 1..Len(levels) : Quantities(W)[n] = W[n].q
                                /\ Notionals(W)[n] = Mul(W[n].p, W[n].q)
  BY <1>3 DEF Quantities, Notionals
<1> QED BY <1>3, <1>4, <1>5 DEF W

\* An order takes its quantity, or all there is.
LEMMA WalkDepth ==
  ASSUME NEW levels \in Seq(Level), NEW quantity \in Nat
  PROVE  \A n \in 0..Len(levels) :
           Depth(Quantities(Walk(levels, quantity)), n)
             = Smaller(quantity, Depth(Quantities(levels), n))
<1> DEFINE W == Quantities(Walk(levels, quantity))
           L == Quantities(levels)
           S == {n \in Nat : n <= Len(levels) => Depth(W, n) = Smaller(quantity, Depth(L, n))}
<1>1. 0 \in S
  <2>1. Depth(W, 0) = 0 /\ Depth(L, 0) = 0
    BY DepthSteps
  <2> HIDE DEF W, L
  <2>2. Smaller(quantity, 0) = 0
    BY DEF Smaller
  <2> QED BY <2>1, <2>2
<1>2. ASSUME NEW n \in Nat, n \in S
      PROVE  n + 1 \in S
  <2> HIDE DEF W, L
  <2> SUFFICES ASSUME n + 1 <= Len(levels)
               PROVE  Depth(W, n + 1) = Smaller(quantity, Depth(L, n + 1))
    OBVIOUS
  <2> USE DEF W, L
  <2>1. n + 1 \in 1..Len(levels) /\ n \in 0..Len(levels) /\ (n + 1) - 1 = n
    OBVIOUS
  <2>2. PICK l, t, d : l = levels[n + 1].q /\ t = W[n + 1] /\ d = Depth(L, n)
    OBVIOUS
  <2>3. t = IF quantity - d <= 0 THEN 0 ELSE Smaller(l, quantity - d)
    BY <2>1, <2>2, WalkLevels DEF Taken
  <2>4. L[n + 1] = l /\ l \in Nat
    BY <2>1, <2>2, LevelType
  <2>5. d \in Nat
    BY <2>1, <2>2, QuantityDepth
  <2>6. Depth(W, n) = Smaller(quantity, d)
    BY <1>2, <2>1, <2>2
  <2>7. Depth(L, n + 1) = d + l /\ Depth(W, n + 1) = Smaller(quantity, d) + t
    BY <2>2, <2>4, <2>6, DepthSteps
  <2> HIDE DEF W, L, S
  <2> QED BY <2>3, <2>4, <2>5, <2>7 DEF Smaller
<1> HIDE DEF S
<1>3. \A n \in Nat : n \in S
  BY <1>1, <1>2, NatSetInduction
<1> QED BY <1>3 DEF S

\* If the first k of the levels hold the quantity, it does not matter how many follow.
LEMMA WalkPrefix ==
  ASSUME NEW levels \in Seq(Level), NEW quantity \in Nat,
         NEW k \in 0..Len(levels), NEW len \in k..Len(levels),
         quantity <= Depth(Quantities(levels), k)
  PROVE  LET near == Walk(SubSeq(levels, 1, k), quantity)
             far  == Walk(SubSeq(levels, 1, len), quantity)
         IN /\ Depth(Quantities(far), Len(far)) = quantity
            /\ Depth(Notionals(far), Len(far)) = Depth(Notionals(near), Len(near))
            /\ Depth(Notionals(far), Len(far)) \in Nat
<1> DEFINE A == SubSeq(levels, 1, k)
           B == SubSeq(levels, 1, len)
           near == Walk(A, quantity)
           far  == Walk(B, quantity)
<1>1. /\ A \in Seq(Level) /\ Len(A) = k /\ \A i \in 1..k : A[i] = levels[i]
      /\ B \in Seq(Level) /\ Len(B) = len /\ \A i \in 1..len : B[i] = levels[i]
  OBVIOUS
<1>2. k \in Nat /\ len \in Nat /\ k <= len /\ len <= Len(levels) /\ Len(levels) \in Nat
  OBVIOUS
<1> HIDE DEF A, B
<1>3. /\ \A n \in 0..k : Depth(Quantities(A), n) = Depth(Quantities(levels), n)
      /\ \A n \in 0..len : Depth(Quantities(B), n) = Depth(Quantities(levels), n)
  <2>1. \A i \in 1..k : Quantities(A)[i] = Quantities(levels)[i]
    BY <1>1, <1>2 DEF Quantities
  <2>2. \A i \in 1..len : Quantities(B)[i] = Quantities(levels)[i]
    BY <1>1, <1>2 DEF Quantities
  <2> QED BY <1>2, <2>1, <2>2, DepthAgree
<1>4. /\ Len(far) = len /\ Len(near) = k
      /\ \A n \in 1..len : Notionals(far)[n] = Mul(B[n].p, Taken(B, quantity, n))
      /\ \A n \in 1..k : Notionals(near)[n] = Mul(A[n].p, Taken(A, quantity, n))
  BY <1>1, WalkLevels
<1>5. Depth(Quantities(far), len) = quantity
  <2>1. Depth(Quantities(far), len) = Smaller(quantity, Depth(Quantities(B), len))
    BY <1>1, <1>2, WalkDepth
  <2>2. Depth(Quantities(B), len) = Depth(Quantities(levels), len)
    BY <1>2, <1>3
  <2>3. Depth(Quantities(levels), k) <= Depth(Quantities(levels), len)
    BY <1>2, QuantityDepth
  <2>4. Depth(Quantities(levels), k) \in Nat /\ Depth(Quantities(levels), len) \in Nat
    BY <1>2, QuantityDepth
  <2> QED BY <2>1, <2>2, <2>3, <2>4 DEF Smaller
<1>6. \A n \in 1..k : Notionals(far)[n] = Notionals(near)[n]
  <2> SUFFICES ASSUME NEW n \in 1..k
               PROVE  Notionals(far)[n] = Notionals(near)[n]
    OBVIOUS
  <2>1. n \in 1..len /\ n - 1 \in 0..k /\ n - 1 \in 0..len
    BY <1>2
  <2>2. A[n] = B[n]
    BY <1>1, <2>1
  <2>3. Depth(Quantities(A), n - 1) = Depth(Quantities(B), n - 1)
    BY <1>3, <2>1
  <2>4. Taken(A, quantity, n) = Taken(B, quantity, n)
    BY <2>2, <2>3 DEF Taken
  <2> QED BY <1>4, <2>1, <2>2, <2>4
<1>7. \A n \in 1..len : n > k => Notionals(far)[n] = 0
  <2> SUFFICES ASSUME NEW n \in 1..len, n > k
               PROVE  Notionals(far)[n] = 0
    OBVIOUS
  <2>1. n - 1 \in 0..len /\ n - 1 \in 0..Len(levels) /\ k <= n - 1
    BY <1>2
  <2>2. Depth(Quantities(B), n - 1) = Depth(Quantities(levels), n - 1)
    BY <1>3, <2>1
  <2>3. quantity <= Depth(Quantities(B), n - 1)
    BY <1>2, <2>1, <2>2, QuantityDepth
  <2>4. Depth(Quantities(B), n - 1) \in Nat
    BY <2>1, <2>2, QuantityDepth
  <2>5. Taken(B, quantity, n) = 0
    BY <2>3, <2>4 DEF Taken
  <2>6. B[n].p \in Nat
    BY <1>1, LevelType
  <2>7. B[n].p * 0 = 0 /\ 0 \div One = 0
    BY <2>6, ExchangeAssumption
  <2> QED BY <1>4, <2>5, <2>7 DEF Mul
<1>8. \A n \in 1..len : Notionals(far)[n] \in Nat
  <2> SUFFICES ASSUME NEW n \in 1..len
               PROVE  Notionals(far)[n] \in Nat
    OBVIOUS
  <2>1. B[n].p \in Nat
    BY <1>1, LevelType
  <2>2. Taken(B, quantity, n) \in Nat
    BY <1>1, TakenType
  <2> QED BY <1>4, <2>1, <2>2, MulDown
<1> HIDE DEF near, far
<1>9. Depth(Notionals(far), len) = Depth(Notionals(far), k)
  BY <1>2, <1>7, <1>8, DepthFlat
<1>a. k \in 0..k /\ len \in 0..len
  BY <1>2
<1>10. Depth(Notionals(far), k) = Depth(Notionals(near), k)
  <2>1. \A n \in 0..k : Depth(Notionals(far), n) = Depth(Notionals(near), n)
    BY <1>2, <1>6, DepthAgree
  <2> QED BY <1>a, <2>1
<1>11. Depth(Notionals(far), len) \in Nat
  <2>1. \A n \in 0..len : Depth(Notionals(far), n) \in Nat
    BY <1>2, <1>8, DepthGrows
  <2> QED BY <1>a, <2>1
<1> QED BY <1>4, <1>5, <1>9, <1>10, <1>11 DEF near, far, A, B

-------------------------------------------------------------------------------
(* The orders of the contract. *)

\* The answer to a query is the best part of the book.
LEMMA QueryPrefix ==
  ASSUME NEW levels \in Seq(Level), NEW sizes, NEW limit
  PROVE  \E k \in 0..Len(levels) :
           QuerySpotOrderbook(levels, sizes, limit) = SubSeq(levels, 1, k)
<1> DEFINE below == {n \in 0..Len(levels) : Depth(sizes, n) < limit}
           k == Smaller(Len(levels), Cardinality(below))
<1>1. Cardinality(below) \in Nat
  <2>1. below \subseteq 0..Len(levels) /\ Len(levels) \in Nat
    OBVIOUS
  <2> HIDE DEF below
  <2>2. IsFiniteSet(0..Len(levels))
    BY <2>1, FS_Interval
  <2> QED  BY <2>1, <2>2, FS_Subset, FS_CardinalityType
<1>2. k \in 0..Len(levels)
  BY <1>1 DEF Smaller
<1>3. QuerySpotOrderbook(levels, sizes, limit) = SubSeq(levels, 1, k)
  BY DEF QuerySpotOrderbook
<1> HIDE DEF k
<1> QED BY <1>2, <1>3

\* The best k levels of a book.
LEMMA PrefixLevels ==
  ASSUME NEW levels \in Seq(Level), NEW k \in 0..Len(levels)
  PROVE  LET near == SubSeq(levels, 1, k)
         IN /\ near \in Seq(Level) /\ Len(near) = k
            /\ \A i \in 1..k : near[i] = levels[i]
            /\ near # <<>> => k \in 1..Len(levels) /\ WorstPrice(near) = levels[k].p
            /\ Depth(Quantities(near), k) = Depth(Quantities(levels), k)
<1> DEFINE near == SubSeq(levels, 1, k)
<1>1. near \in Seq(Level) /\ Len(near) = k /\ \A i \in 1..k : near[i] = levels[i]
  OBVIOUS
<1>2. k \in Nat /\ k <= Len(levels) /\ Len(levels) \in Nat
  OBVIOUS
<1> HIDE DEF near
<1>3. near # <<>> => k \in 1..Len(levels) /\ WorstPrice(near) = levels[k].p
  <2>1. near # <<>> => Len(near) # 0
    BY <1>1
  <2> QED BY <2>1, <1>1, <1>2 DEF WorstPrice
<1>4. \A i \in 1..k : Quantities(near)[i] = Quantities(levels)[i]
  BY <1>1, <1>2 DEF Quantities
<1>5. \A n \in 0..k : Depth(Quantities(near), n) = Depth(Quantities(levels), n)
  BY <1>2, <1>4, DepthAgree
<1>6. k \in 0..k
  BY <1>2
<1> QED BY <1>1, <1>3, <1>5, <1>6 DEF near

\* An order may take the levels down to the one that gave its worst price.
LEMMA EligiblePrefix ==
  ASSUME NEW b, IsOrderbook(b), NEW o, NEW k,
         LET levels == IF o.sell_type = "Base" THEN b.buys ELSE b.sells
         IN k \in 1..Len(levels) /\ o.worst_price = levels[k].p
  PROVE  LET levels == IF o.sell_type = "Base" THEN b.buys ELSE b.sells
         IN \E len \in k..Len(levels) : Eligible(o, b) = SubSeq(levels, 1, len)
<1> DEFINE levels == IF o.sell_type = "Base" THEN b.buys ELSE b.sells
           taken  == {i \in 1..Len(levels) :
                        IF o.sell_type = "Base" THEN levels[i].p >= o.worst_price
                                                ELSE levels[i].p <= o.worst_price}
           len    == Cardinality(taken)
<1>1. levels \in Seq(Level) /\ k \in 1..Len(levels) /\ o.worst_price = levels[k].p
  BY DEF IsOrderbook
<1>2. \A i \in 1..Len(levels) : levels[i].p \in Nat
  BY <1>1, LevelType
<1>3. \A i \in 1..k : i \in taken
  <2> SUFFICES ASSUME NEW i \in 1..k
               PROVE  i \in taken
    OBVIOUS
  <2>1. i \in 1..Len(levels) /\ (i = k \/ i < k)
    BY <1>1
  <2>2. CASE i = k
    <3>1. levels[i].p = o.worst_price /\ levels[i].p \in Nat
      BY <1>1, <1>2, <2>2
    <3> HIDE DEF levels
    <3> QED BY <2>1, <3>1
  <2>3. CASE i < k
    BY <1>1, <1>2, <2>1, <2>3 DEF IsOrderbook
  <2> QED BY <2>1, <2>2, <2>3
<1>4. Eligible(o, b) = SubSeq(levels, 1, len)
  BY DEF Eligible
<1>5. 1..k \subseteq taken /\ taken \subseteq 1..Len(levels)
  BY <1>3
<1> HIDE DEF taken, levels
<1>6. Len(levels) \in Nat /\ k \in Nat
  BY <1>1
<1>7. /\ IsFiniteSet(1..k) /\ Cardinality(1..k) = k
      /\ IsFiniteSet(1..Len(levels)) /\ Cardinality(1..Len(levels)) = Len(levels)
  <2>1. \A n \in Nat : IsFiniteSet(1..n) /\ Cardinality(1..n) = n
    <3> SUFFICES ASSUME NEW n \in Nat
                 PROVE  IsFiniteSet(1..n) /\ Cardinality(1..n) = n
      OBVIOUS
    <3>1. Cardinality(1..n) = IF 1 > n THEN 0 ELSE n - 1 + 1
      BY FS_Interval
    <3> QED BY <3>1, FS_Interval
  <2> QED BY <2>1, <1>6
<1>8. /\ IsFiniteSet(taken)
      /\ Cardinality(taken) <= Cardinality(1..Len(levels))
  BY <1>5, <1>7, FS_Subset
<1>9. Cardinality(1..k) <= Cardinality(taken)
  BY <1>5, <1>8, FS_Subset
<1>10. Cardinality(taken) \in Nat
  BY <1>8, FS_CardinalityType
<1>11. len \in k..Len(levels)
  BY <1>6, <1>7, <1>8, <1>9, <1>10
<1> HIDE DEF len
<1> QED BY <1>4, <1>11 DEF levels

\* An order is what was simulated for the side its asset is sold on.
LEMMA SwapSimulated ==
  ASSUME NEW m, IsMarket(m), NEW b, NEW asset, NEW amount, NEW o \in swap(asset, amount, m, b)
  PROVE  /\ o.sell_type = "Base" \/ o.sell_type = "Quote"
         /\ o.coin.denom = asset /\ o.coin.amount = amount
         /\ \E s \in IF o.sell_type = "Base" THEN simulate_base_offer(amount, m, b.buys)
                                            ELSE simulate_quote_offer(amount, m, b.sells) :
              /\ o.quantity = IF o.sell_type = "Base" THEN amount ELSE s.amount
              /\ o.worst_price = s.worst_price
              /\ o.simulated = s.amount
<1>1. PICK s \in simulate(asset, amount, m, b) :
        o = [sell_type   |-> SwapType(asset, m),
             coin        |-> [denom |-> asset, amount |-> amount],
             quantity    |-> IF SwapType(asset, m) = "Base" THEN amount ELSE s.amount,
             worst_price |-> s.worst_price,
             simulated   |-> s.amount]
  BY DEF swap
<1>2. /\ o.sell_type = SwapType(asset, m)
      /\ o.coin.denom = asset /\ o.coin.amount = amount
      /\ o.quantity = IF o.sell_type = "Base" THEN amount ELSE s.amount
      /\ o.worst_price = s.worst_price /\ o.simulated = s.amount
  BY <1>1
<1>3. CASE asset = m.base_denom
  <2>1. simulate(asset, amount, m, b) = simulate_base_offer(amount, m, b.buys)
    BY <1>3 DEF simulate, IsMarket
  <2>2. o.sell_type = "Base"
    BY <1>2, <1>3 DEF SwapType
  <2> QED BY <1>2, <2>1, <2>2
<1>4. CASE asset # m.base_denom
  <2>1. s \in simulate_quote_offer(amount, m, b.sells)
    BY <1>4 DEF simulate
  <2>2. o.sell_type = "Quote"
    BY <1>2, <1>4 DEF SwapType
  <2> QED BY <1>2, <2>1, <2>2
<1> QED BY <1>3, <1>4

\* A sale: the levels down to its worst price hold its whole ticks, and it is simulated
\* level by level.
LEMMA BaseOffer ==
  ASSUME NEW m, IsMarket(m), NEW amount \in Nat, NEW buys \in Seq(Level),
         NEW s \in simulate_base_offer(amount, m, buys)
  PROVE  \E k \in 1..Len(buys) :
           LET quantity == strip_min_tick(Decimal(amount), m.min_quantity_tick_size)
               near     == Walk(SubSeq(buys, 1, k), quantity)
           IN /\ s.worst_price = buys[k].p
              /\ quantity \in Nat
              /\ quantity <= Depth(Quantities(buys), k)
              /\ s.amount = ToUintFloor(AfterFee(Depth(Notionals(near), Len(near)), m))
<1> DEFINE quantity == strip_min_tick(Decimal(amount), m.min_quantity_tick_size)
<1>1. PICK k \in 0..Len(buys) :
        QuerySpotOrderbook(buys, Quantities(buys), Decimal(amount)) = SubSeq(buys, 1, k)
  BY QueryPrefix
<1> DEFINE levels == SubSeq(buys, 1, k)
           filled == Walk(levels, quantity)
<1>2. /\ levels # <<>> /\ ~(quantity > Depth(Quantities(levels), Len(levels)))
      /\ s = [amount |-> ToUintFloor(AfterFee(Depth(Notionals(filled), Len(filled)), m)),
              worst_price |-> WorstPrice(levels)]
  BY <1>1 DEF simulate_base_offer
<1>3. /\ Len(levels) = k
      /\ levels # <<>> => k \in 1..Len(buys) /\ WorstPrice(levels) = buys[k].p
      /\ Depth(Quantities(levels), k) = Depth(Quantities(buys), k)
  BY PrefixLevels
<1>4. quantity \in Nat
  <2>1. Decimal(amount) \in Nat
    BY TimesNat, ExchangeAssumption DEF Decimal
  <2> QED BY <2>1, StripDown DEF IsMarket
<1>5. k \in 1..Len(buys) /\ s.worst_price = buys[k].p
  BY <1>2, <1>3
<1>6. Depth(Quantities(buys), k) \in Nat
  BY QuantityDepth
<1>7. quantity <= Depth(Quantities(buys), k)
  BY <1>2, <1>3, <1>4, <1>6
<1>8. s.amount = ToUintFloor(AfterFee(Depth(Notionals(filled), Len(filled)), m))
  BY <1>2
<1> QED BY <1>4, <1>5, <1>7, <1>8

\* A purchase: the levels down to its worst price hold what it asks for.
LEMMA QuoteFilled ==
  ASSUME NEW m, IsMarket(m), NEW amount \in Nat, NEW sells \in Seq(Level),
         \A i, j \in 1..Len(sells) : i < j => sells[i].p <= sells[j].p,
         NEW s \in simulate_quote_offer(amount, m, sells)
  PROVE  \E k \in 1..Len(sells) :
           /\ s.worst_price = sells[k].p
           /\ Decimal(s.amount) <= Depth(Quantities(sells), k)
<1>1. PICK k \in 0..Len(sells) :
        QuerySpotOrderbook(sells, Notionals(sells), Decimal(amount)) = SubSeq(sells, 1, k)
  BY QueryPrefix
<1> DEFINE levels   == SubSeq(sells, 1, k)
           stripped == strip_min_tick(Decimal(amount), m.min_price_tick_size)
           original == AfterFee(stripped, m)
           w        == WorstPrice(levels)
           d        == Div(original, w)
           N        == Depth(Notionals(levels), Len(levels))
           Q        == Depth(Quantities(levels), Len(levels))
<1>2. /\ levels # <<>> /\ ~(original > N)
      /\ s = [amount |-> ToUintFloor(strip_min_tick(d, m.min_quantity_tick_size)),
              worst_price |-> w]
  BY <1>1 DEF simulate_quote_offer
<1>3. /\ levels \in Seq(Level) /\ Len(levels) = k
      /\ \A i \in 1..k : levels[i] = sells[i]
      /\ levels # <<>> => k \in 1..Len(sells) /\ w = sells[k].p
      /\ Depth(Quantities(levels), k) = Depth(Quantities(sells), k)
  BY PrefixLevels
<1>4. k \in 1..Len(sells) /\ s.worst_price = sells[k].p /\ w = sells[k].p
  BY <1>2, <1>3
<1>5. w \in Nat \ {0}
  BY <1>4, LevelType
<1>6. original \in Nat
  <2>1. Decimal(amount) \in Nat
    BY TimesNat, ExchangeAssumption DEF Decimal
  <2>2. stripped \in Nat
    BY <2>1, StripDown DEF IsMarket
  <2> QED BY <2>2, AfterFeeDown
<1>7. d \in Nat /\ d * w <= original * One
  BY <1>5, <1>6, DivideDown
<1>8. s.amount \in Nat /\ s.amount * One <= d
  BY <1>2, <1>7, TokensDown DEF IsMarket
<1>9. \A i \in 1..Len(levels) : levels[i].p <= w
  <2> SUFFICES ASSUME NEW i \in 1..k
               PROVE  levels[i].p <= w
    BY <1>3
  <2>1. i \in 1..Len(sells) /\ (i = k \/ i < k)
    BY <1>4
  <2>2. levels[i].p = sells[i].p /\ sells[i].p \in Nat
    BY <1>3, <2>1, LevelType
  <2> HIDE DEF levels, w
  <2> QED BY <1>4, <1>5, <2>1, <2>2
<1>10. N * One <= Q * w /\ Q \in Nat
  <2>1. Len(levels) \in 0..Len(levels)
    BY <1>3
  <2> QED BY <1>3, <1>5, <1>9, <2>1, NotionalBound, QuantityDepth
<1>11. N \in Nat
  <2>1. Len(levels) \in Nat /\ Len(levels) \in 0..Len(levels)
    BY <1>3
  <2>2. \A i \in 1..Len(levels) : Notionals(levels)[i] \in Nat
    <3> SUFFICES ASSUME NEW i \in 1..Len(levels)
                 PROVE  Notionals(levels)[i] \in Nat
      OBVIOUS
    <3>1. /\ levels[i].p \in Nat /\ levels[i].q \in Nat
          /\ Notionals(levels)[i] = Mul(levels[i].p, levels[i].q)
      BY <1>3, LevelType
    <3> QED BY <3>1, MulDown
  <2> HIDE DEF levels
  <2>3. \A n \in 0..Len(levels) : Depth(Notionals(levels), n) \in Nat
    BY <2>1, <2>2, DepthGrows
  <2> QED BY <2>1, <2>3
<1>12. original <= N
  BY <1>2, <1>6, <1>11
<1>13. Q = Depth(Quantities(sells), k)
  BY <1>3
<1> HIDE DEF levels, stripped, original, w, d, N, Q
<1>14. original * One <= N * One /\ original * One \in Nat /\ N * One \in Nat
       /\ Q * w \in Nat /\ d * w \in Nat
  BY <1>5, <1>6, <1>7, <1>10, <1>11, <1>12, TimesMono, TimesNat, ExchangeAssumption
<1>15. d * w <= Q * w
  BY <1>7, <1>10, <1>14
<1>16. d <= Q
  BY <1>15, <1>5, <1>7, <1>10, TimesCancel
<1>17. s.amount * One <= Q
  <2>1. s.amount * One \in Nat
    BY <1>8, TimesNat, ExchangeAssumption
  <2> QED BY <2>1, <1>7, <1>8, <1>10, <1>16
<1> QED BY <1>4, <1>13, <1>17 DEF Decimal

\* What simulate_quote_offer answers can be paid for with the amount it was given.
LEMMA QuoteOffer ==
  ASSUME NEW m, IsMarket(m), NEW amount \in Nat, NEW sells \in Seq(Level),
         NEW s \in simulate_quote_offer(amount, m, sells)
  PROVE  /\ s.amount \in Nat
         /\ s.worst_price \in Nat \ {0}
         /\ s.amount * s.worst_price * (One + Fee(m)) <= Decimal(amount) * One
         /\ \E x \in Nat :
              s.amount = ToUintFloor(strip_min_tick(x, m.min_quantity_tick_size))
<1> DEFINE levels   == QuerySpotOrderbook(sells, Notionals(sells), Decimal(amount))
           stripped == strip_min_tick(Decimal(amount), m.min_price_tick_size)
           original == AfterFee(stripped, m)
           quantity == Div(original, WorstPrice(levels))
           tick     == m.min_quantity_tick_size
<1>1. /\ levels # <<>>
      /\ s = [amount |-> ToUintFloor(strip_min_tick(quantity, tick)),
              worst_price |-> WorstPrice(levels)]
  BY DEF simulate_quote_offer
<1>2. WorstPrice(levels) \in Nat \ {0}
  <2>1. PICK k \in 0..Len(sells) : levels = SubSeq(sells, 1, k)
    BY QueryPrefix
  <2>2. k \in 1..Len(sells) /\ WorstPrice(levels) = sells[k].p
    BY <1>1, <2>1, PrefixLevels
  <2> QED BY <2>2, LevelType
<1>3. tick \in Nat \ {0} /\ m.min_price_tick_size \in Nat \ {0}
  BY DEF IsMarket
<1>4. Decimal(amount) \in Nat
  BY TimesNat, ExchangeAssumption DEF Decimal
<1>5. stripped \in Nat /\ stripped <= Decimal(amount)
  BY <1>3, <1>4, StripDown
<1>6. original \in Nat /\ original * One <= stripped * (One - Fee(m))
  BY <1>5, AfterFeeDown
<1>7. quantity \in Nat /\ quantity * WorstPrice(levels) <= original * One
  BY <1>2, <1>6, DivideDown
<1>8. s.amount \in Nat /\ s.amount * One <= quantity
  BY <1>1, <1>3, <1>7, TokensDown
<1>9. s.amount * s.worst_price * (One + Fee(m)) <= stripped * One
  <2> HIDE DEF levels, stripped, original, quantity
  <2> QED  BY <1>1, <1>2, <1>5, <1>6, <1>7, <1>8, CostBound
<1>10. stripped * One <= Decimal(amount) * One
  BY <1>4, <1>5, TimesMono, ExchangeAssumption
<1>11. /\ s.amount * s.worst_price * (One + Fee(m)) \in Nat
       /\ stripped * One \in Nat /\ Decimal(amount) * One \in Nat
  <2>1. s.amount * s.worst_price \in Nat
    BY <1>1, <1>2, <1>8, TimesNat
  <2>2. One + Fee(m) \in Nat
    BY FeeType, ExchangeAssumption
  <2> QED  BY <2>1, <2>2, <1>4, <1>5, TimesNat, ExchangeAssumption
<1> QED  BY <1>1, <1>2, <1>7, <1>8, <1>9, <1>10, <1>11

-------------------------------------------------------------------------------
(* The execution of an order and its reply. *)

\* The remainder of a division is less than one divisor.
LEMMA DivUp ==
  ASSUME NEW n \in Nat, NEW d \in Nat \ {0}
  PROVE  n < (n \div d + 1) * d
<1>1. n \div d \in Nat /\ n % d \in 0..(d - 1)
  OBVIOUS
<1>2. n = d * (n \div d) + (n % d)
  OBVIOUS
<1>3. \A q \in Nat : (q + 1) * d = d * q + d /\ d * q \in Nat
  OBVIOUS
<1> QED  BY <1>1, <1>2, <1>3

\* Tokens are rounded down to whole ones.
LEMMA FloorBounds ==
  ASSUME NEW x \in Nat
  PROVE  /\ ToUintFloor(x) \in Nat
         /\ Decimal(ToUintFloor(x)) <= x /\ x < Decimal(ToUintFloor(x) + 1)
BY DivDown, DivUp, ExchangeAssumption DEF ToUintFloor, Decimal

\* Whole tokens are left as they are.
LEMMA FloorWhole ==
  ASSUME NEW n \in Nat
  PROVE  ToUintFloor(Decimal(n)) = n /\ Decimal(n) \in Nat
<1>1. (n * One) \div One = n
  BY ExchangeAssumption
<1> QED BY <1>1, TimesNat, ExchangeAssumption DEF ToUintFloor, Decimal

\* Whole ticks are left as they are.
LEMMA StripWhole ==
  ASSUME NEW x \in Nat, NEW tick \in Nat \ {0}, x % tick = 0
  PROVE  strip_min_tick(x, tick) = x
<1> DEFINE n == x \div tick
<1>1. n \in Nat /\ x = n * tick
  OBVIOUS
<1> HIDE DEF n
<1>2. x * One = (n * One) * tick /\ n * One \in Nat
  BY <1>1, TimesNat, ExchangeAssumption
<1>3. \A y \in Nat : (y * tick) \div tick = y
  OBVIOUS
<1>4. Div(x, tick) = Decimal(n)
  BY <1>2, <1>3 DEF Div, Decimal
<1> QED BY <1>1, <1>4, FloorWhole, MulWhole DEF strip_min_tick

\* What is left after the fee, and the fee, are no more than the whole.
LEMMA FeeAdds ==
  ASSUME NEW m, IsMarket(m), NEW x \in Nat
  PROVE  /\ AfterFee(x, m) \in Nat /\ Mul(x, Fee(m)) \in Nat
         /\ AfterFee(x, m) + Mul(x, Fee(m)) <= x
<1>1. PICK f, a, c : f = Fee(m) /\ a = AfterFee(x, m) /\ c = Mul(x, f)
  OBVIOUS
<1>2. f \in Nat /\ One - f \in Nat /\ One \in Nat \ {0}
  BY <1>1, FeeType, ExchangeAssumption
<1>3. a \in Nat /\ a * One <= x * (One - f)
  BY <1>1, AfterFeeDown
<1>4. c \in Nat /\ c * One <= x * f
  BY <1>1, <1>2, MulDown
<1>5. x * (One - f) + x * f = x * One /\ a * One + c * One = (a + c) * One
  BY <1>2, <1>3, <1>4
<1>6. x * (One - f) \in Nat /\ x * f \in Nat /\ a * One \in Nat /\ c * One \in Nat
  BY <1>2, <1>3, <1>4, TimesNat
<1>7. (a + c) * One <= x * One
  BY <1>3, <1>4, <1>5, <1>6
<1>8. a + c <= x
  BY <1>2, <1>3, <1>4, <1>7, TimesCancel
<1> QED BY <1>1, <1>3, <1>4, <1>8

\* The average price, rounded either way, times the tokens sold: off by less than the
\* smallest decimal for each token.
LEMMA Proceeds ==
  ASSUME NEW amount \in Nat \ {0}, NEW notional \in Nat,
         NEW price \in {Div(notional, Decimal(amount)), Div(notional, Decimal(amount)) + 1}
  PROVE  /\ Mul(Decimal(amount), price) \in Nat
         /\ notional < Mul(Decimal(amount), price) + amount
         /\ Mul(Decimal(amount), price) <= notional + amount
<1>1. PICK d : d = Div(notional, Decimal(amount))
  OBVIOUS
<1>2. One \in Nat \ {0} /\ amount * One \in Nat \ {0} /\ notional * One \in Nat
  BY ExchangeAssumption, TimesNat
<1>3. d \in Nat /\ d * (amount * One) <= notional * One
  BY <1>1, <1>2, DivideDown DEF Decimal
<1>4. notional * One < (d + 1) * (amount * One)
  BY <1>1, <1>2, DivUp DEF Div, Decimal
<1>5. /\ d * (amount * One) = (amount * d) * One
      /\ (d + 1) * (amount * One) = (amount * d + amount) * One
      /\ amount * d \in Nat
  BY <1>2, <1>3, TimesNat
<1>6. amount * d <= notional
  BY <1>2, <1>3, <1>5, TimesCancel
<1>7. notional < amount * d + amount
  <2>1. CASE amount * d + amount <= notional
    <3>1. (amount * d + amount) * One <= notional * One
      BY <1>2, <1>5, <2>1, TimesMono
    <3>2. (amount * d + amount) * One \in Nat
      BY <1>2, <1>5, TimesNat
    <3> QED BY <1>2, <1>4, <1>5, <3>1, <3>2
  <2> QED BY <1>5, <2>1
<1>8. price = d \/ price = d + 1
  BY <1>1
<1>9. price \in Nat /\ Mul(Decimal(amount), price) = amount * price
  <2>1. price \in Nat
    BY <1>3, <1>8
  <2> QED BY <2>1, MulWhole
<1>10. amount * (d + 1) = amount * d + amount
  BY <1>3
<1> QED BY <1>5, <1>6, <1>7, <1>8, <1>9, <1>10

\* An order that is accepted is filled, by the trades its simulation counted.
LEMMA OrderExecuted ==
  ASSUME NEW m, IsMarket(m), NEW b, IsOrderbook(b), NEW asset, NEW amount \in Nat,
         NEW o \in swap(asset, amount, m, b), Accepted(o, m, b), NEW t \in Trades(o, m, b)
  PROVE  /\ o.quantity \in Nat \ {0}
         /\ t.quantity = Decimal(o.quantity)
         /\ t.notional \in Nat
         /\ t.fee = Mul(t.notional, Fee(m))
         /\ t.price \in {Div(t.notional, t.quantity), Div(t.notional, t.quantity) + 1}
         /\ o.sell_type = "Base" => /\ o.quantity = amount
                                    /\ o.simulated = ToUintFloor(AfterFee(t.notional, m))
         /\ o.sell_type = "Quote" => o.simulated = o.quantity
<1> DEFINE levels == IF o.sell_type = "Base" THEN b.buys ELSE b.sells
           quantity == Decimal(o.quantity)
<1>0. o.sell_type = "Base" \/ o.sell_type = "Quote"
  BY SwapSimulated
<1>1. PICK s \in IF o.sell_type = "Base" THEN simulate_base_offer(amount, m, b.buys)
                                       ELSE simulate_quote_offer(amount, m, b.sells) :
           /\ o.quantity = IF o.sell_type = "Base" THEN amount ELSE s.amount
           /\ o.worst_price = s.worst_price
           /\ o.simulated = s.amount
  BY SwapSimulated
<1>2. levels \in Seq(Level)
  BY DEF IsOrderbook
<1>3. o.sell_type = "Base" => s \in simulate_base_offer(amount, m, b.buys)
  OBVIOUS
<1>4. o.sell_type = "Quote" => s \in simulate_quote_offer(amount, m, b.sells)
  OBVIOUS
<1>5. o.quantity \in Nat \ {0} /\ quantity % m.min_quantity_tick_size = 0
  <2>1. o.quantity \in Nat
    <3>1. CASE o.sell_type = "Base"
      BY <1>1, <3>1
    <3>2. CASE o.sell_type = "Quote"
      <4>1. s.amount \in Nat
        BY <1>4, <3>2, QuoteOffer DEF IsOrderbook
      <4> QED BY <1>1, <3>2, <4>1
    <3> QED BY <1>0, <3>1, <3>2
  <2> QED BY <2>1 DEF Accepted
<1>6. quantity \in Nat
  BY <1>5, FloorWhole
<1>7. \E k \in 1..Len(levels) :
        /\ o.worst_price = levels[k].p
        /\ quantity <= Depth(Quantities(levels), k)
        /\ o.sell_type = "Base" =>
             LET near == Walk(SubSeq(levels, 1, k), quantity)
             IN o.simulated = ToUintFloor(AfterFee(Depth(Notionals(near), Len(near)), m))
  <2>1. CASE o.sell_type = "Base"
    <3>1. strip_min_tick(Decimal(amount), m.min_quantity_tick_size) = quantity
      BY <1>1, <1>5, <1>6, <2>1, StripWhole DEF IsMarket
    <3>2. levels = b.buys
      BY <2>1
    <3> HIDE DEF levels, quantity
    <3> QED BY <1>1, <1>2, <1>3, <2>1, <3>1, <3>2, BaseOffer
  <2>2. CASE o.sell_type = "Quote"
    <3>1. levels = b.sells /\ quantity = Decimal(s.amount)
      BY <1>1, <2>2
    <3>2. \A i, j \in 1..Len(b.sells) : i < j => b.sells[i].p <= b.sells[j].p
      BY DEF IsOrderbook
    <3> HIDE DEF levels, quantity
    <3> QED BY <1>1, <1>2, <1>4, <2>2, <3>1, <3>2, QuoteFilled
  <2> QED BY <1>0, <2>1, <2>2
<1>8. PICK k \in 1..Len(levels) :
        /\ o.worst_price = levels[k].p
        /\ quantity <= Depth(Quantities(levels), k)
        /\ o.sell_type = "Base" =>
             LET near == Walk(SubSeq(levels, 1, k), quantity)
             IN o.simulated = ToUintFloor(AfterFee(Depth(Notionals(near), Len(near)), m))
  BY <1>7
<1>9. PICK len \in k..Len(levels) : Eligible(o, b) = SubSeq(levels, 1, len)
  BY <1>8, EligiblePrefix
<1> DEFINE far  == Walk(Eligible(o, b), quantity)
           near == Walk(SubSeq(levels, 1, k), quantity)
<1>10. /\ Depth(Quantities(far), Len(far)) = quantity
       /\ Depth(Notionals(far), Len(far)) = Depth(Notionals(near), Len(near))
       /\ Depth(Notionals(far), Len(far)) \in Nat
  <2>1. k \in 0..Len(levels)
    OBVIOUS
  <2> DEFINE walk == Walk(SubSeq(levels, 1, len), quantity)
  <2>2. quantity <= Depth(Quantities(levels), k)
    BY <1>8
  <2> HIDE DEF levels, quantity
  <2>3. /\ Depth(Quantities(walk), Len(walk)) = quantity
        /\ Depth(Notionals(walk), Len(walk)) = Depth(Notionals(near), Len(near))
        /\ Depth(Notionals(walk), Len(walk)) \in Nat
    BY <1>2, <1>6, <2>1, <2>2, WalkPrefix
  <2>4. far = walk
    BY <1>9
  <2> HIDE DEF far, near, walk
  <2> QED BY <2>3, <2>4
<1>11. /\ t.quantity = Depth(Quantities(far), Len(far))
       /\ t.notional = Depth(Notionals(far), Len(far))
       /\ t.fee = Mul(t.notional, Fee(m))
       /\ t.price \in {Div(t.notional, t.quantity), Div(t.notional, t.quantity) + 1}
  BY DEF Trades
<1>12. o.sell_type = "Base" => o.simulated = ToUintFloor(AfterFee(Depth(Notionals(near), Len(near)), m))
  BY <1>8
<1> HIDE DEF far, near, levels
<1> QED BY <1>1, <1>5, <1>10, <1>11, <1>12

\* The reply credits what the sale brought in, and at least what was simulated.
LEMMA OrderCredited ==
  ASSUME NEW m, IsMarket(m), NEW b, IsOrderbook(b), NEW asset, NEW amount \in Nat,
         NEW o \in swap(asset, amount, m, b), Accepted(o, m, b), NEW t \in Trades(o, m, b),
         Creditable(o.sell_type, t)
  PROVE  /\ o.simulated \in Nat
         /\ Received(o.sell_type, t) \in Nat
         /\ t.fee \in Nat
         /\ o.sell_type = "Quote" => Received(o.sell_type, t) = o.simulated
         /\ o.sell_type = "Base" =>
              /\ Decimal(o.simulated) < Decimal(Received(o.sell_type, t) + 1) + amount
              /\ Decimal(Received(o.sell_type, t)) <= t.notional - t.fee + amount
<1>1. /\ o.quantity \in Nat \ {0}
      /\ t.quantity = Decimal(o.quantity)
      /\ t.notional \in Nat
      /\ t.fee = Mul(t.notional, Fee(m))
      /\ t.price \in {Div(t.notional, t.quantity), Div(t.notional, t.quantity) + 1}
      /\ o.sell_type = "Base" => /\ o.quantity = amount
                                 /\ o.simulated = ToUintFloor(AfterFee(t.notional, m))
      /\ o.sell_type = "Quote" => o.simulated = o.quantity
  BY OrderExecuted
<1>2. /\ AfterFee(t.notional, m) \in Nat /\ t.fee \in Nat
      /\ AfterFee(t.notional, m) + t.fee <= t.notional
  BY <1>1, FeeAdds
<1>3. o.sell_type = "Base" \/ o.sell_type = "Quote"
  BY SwapSimulated
<1>4. CASE o.sell_type = "Quote"
  BY <1>1, <1>2, <1>4, FloorWhole DEF Received
<1>5. CASE o.sell_type = "Base"
  <2>1. PICK M : M = Mul(Decimal(amount), t.price)
    OBVIOUS
  <2>2. M \in Nat /\ t.notional < M + amount /\ M <= t.notional + amount
    BY <1>1, <1>5, <2>1, Proceeds
  <2>3. M - t.fee \in Nat /\ Received(o.sell_type, t) = ToUintFloor(M - t.fee)
    BY <1>1, <1>2, <1>5, <2>1, <2>2 DEF Received, Creditable
  <2>4. PICK r : r = ToUintFloor(M - t.fee)
    OBVIOUS
  <2>5. r \in Nat /\ Decimal(r) <= M - t.fee /\ M - t.fee < Decimal(r + 1)
    BY <2>3, <2>4, FloorBounds
  <2>6. PICK a : a = AfterFee(t.notional, m)
    OBVIOUS
  <2>7. o.simulated \in Nat /\ Decimal(o.simulated) <= a /\ a \in Nat
    BY <1>1, <1>2, <1>5, <2>6, FloorBounds
  <2>8. Decimal(o.simulated) \in Nat /\ Decimal(r) \in Nat /\ Decimal(r + 1) \in Nat
    BY <2>5, <2>7, FloorWhole
  <2>9. Decimal(o.simulated) < Decimal(r + 1) + amount
    BY <1>1, <1>2, <2>2, <2>5, <2>6, <2>7, <2>8
  <2>10. Decimal(r) <= t.notional - t.fee + amount
    BY <1>1, <1>2, <2>2, <2>5, <2>8
  <2> QED BY <1>2, <1>5, <2>3, <2>4, <2>5, <2>7, <2>9, <2>10
<1> QED BY <1>3, <1>4, <1>5

\* A simulation has one result at most, and an order is made of it.
LEMMA OneOrder ==
  ASSUME NEW m, IsMarket(m), NEW b, NEW asset, NEW amount,
         NEW o \in swap(asset, amount, m, b)
  PROVE  /\ \A p \in swap(asset, amount, m, b) : p = o
         /\ \E s \in simulate(asset, amount, m, b) : s.amount = o.simulated
         /\ \A s, t \in simulate(asset, amount, m, b) : s = t
<1> DEFINE order(s) == [sell_type   |-> SwapType(asset, m),
                        coin        |-> [denom |-> asset, amount |-> amount],
                        quantity    |-> IF SwapType(asset, m) = "Base"
                                        THEN amount ELSE s.amount,
                        worst_price |-> s.worst_price,
                        simulated   |-> s.amount]
<1>1. swap(asset, amount, m, b) = {order(s) : s \in simulate(asset, amount, m, b)}
  BY DEF swap
<1>2. \A s, t \in simulate_base_offer(amount, m, b.buys) : s = t
  BY DEF simulate_base_offer
<1>3. \A s, t \in simulate_quote_offer(amount, m, b.sells) : s = t
  BY DEF simulate_quote_offer
<1>4. \A s, t \in simulate(asset, amount, m, b) : s = t
  BY <1>2, <1>3 DEF simulate, IsMarket
<1>5. \A s : order(s).simulated = s.amount
  OBVIOUS
<1> HIDE DEF order
<1> QED BY <1>1, <1>4, <1>5

\* An execution has two outcomes: the average price is rounded down or up.
LEMMA TwoTrades ==
  ASSUME NEW o, NEW m, NEW b
  PROVE  \E t, u \in Trades(o, m, b) : Trades(o, m, b) = {t, u}
<1> DEFINE filled   == Walk(Eligible(o, b), Decimal(o.quantity))
           quantity == Depth(Quantities(filled), Len(filled))
           notional == Depth(Notionals(filled), Len(filled))
           trade(price) == [quantity |-> quantity, notional |-> notional, price |-> price,
                            fee |-> Mul(notional, Fee(m))]
           down == Div(notional, quantity)
<1>1. Trades(o, m, b) = {trade(price) : price \in {down, down + 1}}
  BY DEF Trades
<1> HIDE DEF trade, down
<1>2. Trades(o, m, b) = {trade(down), trade(down + 1)}
  BY <1>1
<1> QED BY <1>2

-------------------------------------------------------------------------------
(* When a simulation fails. *)

\* The answer to a query reaches its limit, or is the whole side of the book.
LEMMA QueryReaches ==
  ASSUME NEW levels \in Seq(Level), NEW sizes, NEW limit \in Nat,
         \A i \in 1..Len(levels) : sizes[i] \in Nat
  PROVE  \E k \in 0..Len(levels) :
           /\ QuerySpotOrderbook(levels, sizes, limit) = SubSeq(levels, 1, k)
           /\ k = Len(levels) \/ limit <= Depth(sizes, k)
<1> DEFINE below == {n \in 0..Len(levels) : Depth(sizes, n) < limit}
           c == Cardinality(below)
           k == Smaller(Len(levels), c)
<1>1. Len(levels) \in Nat
  OBVIOUS
<1>2. \A n \in 0..Len(levels) : Depth(sizes, n) \in Nat
  BY <1>1, DepthGrows
<1>3. \A j, n \in 0..Len(levels) : j <= n => Depth(sizes, j) <= Depth(sizes, n)
  BY <1>1, DepthGrows
<1>4. IsFiniteSet(below) /\ c \in Nat
  <2>1. below \subseteq 0..Len(levels)
    OBVIOUS
  <2> HIDE DEF below
  <2>2. IsFiniteSet(0..Len(levels))
    BY <1>1, FS_Interval
  <2> QED BY <2>1, <2>2, FS_Subset, FS_CardinalityType
<1>5. \A n \in below : n \in Nat /\ 0..n \subseteq below
  <2> SUFFICES ASSUME NEW n \in below, NEW j \in 0..n
               PROVE  n \in Nat /\ j \in below
    OBVIOUS
  <2>1. n \in 0..Len(levels) /\ Depth(sizes, n) < limit
    OBVIOUS
  <2>2. j \in 0..Len(levels) /\ j <= n
    BY <1>1, <2>1
  <2>3. Depth(sizes, j) < limit
    BY <1>2, <1>3, <2>1, <2>2
  <2> QED BY <2>1, <2>2, <2>3
<1>6. QuerySpotOrderbook(levels, sizes, limit) = SubSeq(levels, 1, k)
  BY DEF QuerySpotOrderbook
<1>7. c \notin below
  <2> SUFFICES ASSUME c \in below PROVE FALSE
    OBVIOUS
  <2>1. 0..c \subseteq below
    BY <1>5
  <2> HIDE DEF below
  <2>2. Cardinality(0..c) <= c
    BY <1>4, <2>1, FS_Subset
  <2>3. Cardinality(0..c) = IF 0 > c THEN 0 ELSE c - 0 + 1
    BY <1>4, 0 \in Int, FS_Interval
  <2> HIDE DEF c
  <2> QED BY <1>4, <2>2, <2>3
<1>8. k \in 0..Len(levels) /\ (k = Len(levels) \/ k = c)
  <2> HIDE DEF c
  <2> QED BY <1>1, <1>4 DEF Smaller
<1>9. k = Len(levels) \/ limit <= Depth(sizes, k)
  <2> SUFFICES ASSUME k = c PROVE limit <= Depth(sizes, k)
    BY <1>8
  <2>1. k \notin below
    BY <1>7
  <2> HIDE DEF k, c
  <2> QED BY <1>2, <1>8, <2>1
<1> HIDE DEF k
<1> QED BY <1>6, <1>8, <1>9

\* A part of the levels that holds less than something is all of them.
LEMMA EnoughLevels ==
  ASSUME NEW levels \in Seq(Level), NEW k \in 0..Len(levels), NEW sizes,
         \A i \in 1..Len(levels) : sizes[i] \in Nat,
         NEW limit \in Nat \ {0}, k = Len(levels) \/ limit <= Depth(sizes, k),
         NEW x \in Nat, x <= limit
  PROVE  (k = 0 \/ x > Depth(sizes, k))
           <=> (levels = <<>> \/ x > Depth(sizes, Len(levels)))
<1>1. Len(levels) \in Nat /\ (levels = <<>> <=> Len(levels) = 0)
  OBVIOUS
<1>2. \A n \in 0..Len(levels) : Depth(sizes, n) \in Nat
  BY <1>1, DepthGrows
<1>3. \A j, n \in 0..Len(levels) : j <= n => Depth(sizes, j) <= Depth(sizes, n)
  BY <1>1, DepthGrows
<1>4. CASE k = Len(levels)
  BY <1>1, <1>4
<1>5. CASE k # Len(levels) /\ limit <= Depth(sizes, k)
  <2>1. k # 0
    BY <1>5, DepthSteps
  <2>2. Len(levels) # 0 /\ Len(levels) \in 0..Len(levels) /\ k <= Len(levels)
    BY <1>1, <2>1
  <2>3. x <= Depth(sizes, k) /\ x <= Depth(sizes, Len(levels))
    BY <1>2, <1>3, <1>5, <2>2
  <2> QED BY <1>1, <1>2, <2>1, <2>2, <2>3
<1> QED BY <1>4, <1>5

\* The limit of the query never cuts a simulation short: simulate_base_offer and
\* simulate_quote_offer report that the order book does not suffice only if all of it
\* does not hold what they count.
THEOREM SimulationComplete ==
  ASSUME NEW m, IsMarket(m), NEW amount \in Nat \ {0}, NEW levels \in Seq(Level)
  PROVE  /\ simulate_base_offer(amount, m, levels) = {}
              <=> \/ levels = <<>>
                  \/ strip_min_tick(Decimal(amount), m.min_quantity_tick_size)
                       > Depth(Quantities(levels), Len(levels))
         /\ simulate_quote_offer(amount, m, levels) = {}
              <=> \/ levels = <<>>
                  \/ AfterFee(strip_min_tick(Decimal(amount), m.min_price_tick_size), m)
                       > Depth(Notionals(levels), Len(levels))
<1> DEFINE Q == Quantities(levels)
           N == Notionals(levels)
           offered  == strip_min_tick(Decimal(amount), m.min_quantity_tick_size)
           stripped == strip_min_tick(Decimal(amount), m.min_price_tick_size)
           spent    == AfterFee(stripped, m)
<1>1. Decimal(amount) \in Nat \ {0}
  <2>1. amount * One # 0
    BY ExchangeAssumption
  <2> QED BY <2>1, FloorWhole DEF Decimal
<1>2. offered \in Nat /\ offered <= Decimal(amount)
  BY <1>1, StripDown DEF IsMarket
<1>3. spent \in Nat /\ spent <= Decimal(amount)
  <2>1. stripped \in Nat /\ stripped <= Decimal(amount)
    BY <1>1, StripDown DEF IsMarket
  <2> HIDE DEF stripped
  <2>2. /\ spent \in Nat /\ Mul(stripped, Fee(m)) \in Nat
        /\ spent + Mul(stripped, Fee(m)) <= stripped
    BY <2>1, FeeAdds
  <2> HIDE DEF spent
  <2> QED BY <1>1, <2>1, <2>2
<1>4. \A i \in 1..Len(levels) : Q[i] \in Nat
  BY LevelType
<1>5. \A i \in 1..Len(levels) : N[i] \in Nat
  <2> SUFFICES ASSUME NEW i \in 1..Len(levels)
               PROVE  N[i] \in Nat
    OBVIOUS
  <2>1. levels[i].p \in Nat /\ levels[i].q \in Nat /\ N[i] = Mul(levels[i].p, levels[i].q)
    BY LevelType
  <2> QED BY <2>1, MulDown
<1>6. simulate_base_offer(amount, m, levels) = {}
        <=> levels = <<>> \/ offered > Depth(Q, Len(levels))
  <2>1. PICK k \in 0..Len(levels) :
          /\ QuerySpotOrderbook(levels, Q, Decimal(amount)) = SubSeq(levels, 1, k)
          /\ k = Len(levels) \/ Decimal(amount) <= Depth(Q, k)
    BY <1>1, <1>4, QueryReaches
  <2> DEFINE near == SubSeq(levels, 1, k)
  <2>2. /\ Len(near) = k /\ (near = <<>> <=> k = 0)
        /\ Depth(Quantities(near), k) = Depth(Q, k)
    BY PrefixLevels
  <2>3. simulate_base_offer(amount, m, levels) = {}
          <=> near = <<>> \/ offered > Depth(Quantities(near), Len(near))
    BY <2>1 DEF simulate_base_offer
  <2> HIDE DEF near, Q, offered
  <2>4. k = 0 \/ offered > Depth(Q, k)
          <=> levels = <<>> \/ offered > Depth(Q, Len(levels))
    BY <1>1, <1>2, <1>4, <2>1, EnoughLevels
  <2> QED BY <2>2, <2>3, <2>4
<1>7. simulate_quote_offer(amount, m, levels) = {}
        <=> levels = <<>> \/ spent > Depth(N, Len(levels))
  <2>1. PICK k \in 0..Len(levels) :
          /\ QuerySpotOrderbook(levels, N, Decimal(amount)) = SubSeq(levels, 1, k)
          /\ k = Len(levels) \/ Decimal(amount) <= Depth(N, k)
    BY <1>1, <1>5, QueryReaches
  <2> DEFINE near == SubSeq(levels, 1, k)
  <2>2. Len(near) = k /\ (near = <<>> <=> k = 0) /\ \A i \in 1..k : near[i] = levels[i]
    BY PrefixLevels
  <2>3. Depth(Notionals(near), k) = Depth(N, k)
    <3>1. k \in Nat /\ k \in 0..k /\ \A i \in 1..k : i \in 1..Len(levels)
      OBVIOUS
    <3> HIDE DEF near
    <3>2. \A i \in 1..k : Notionals(near)[i] = N[i]
      BY <2>2, <3>1 DEF Notionals
    <3> HIDE DEF N
    <3>3. \A n \in 0..k : Depth(Notionals(near), n) = Depth(N, n)
      BY <3>1, <3>2, DepthAgree
    <3> QED BY <3>1, <3>3
  <2>4. simulate_quote_offer(amount, m, levels) = {}
          <=> near = <<>> \/ spent > Depth(Notionals(near), Len(near))
    BY <2>1 DEF simulate_quote_offer
  <2> HIDE DEF near, N, spent
  <2>5. k = 0 \/ spent > Depth(N, k)
          <=> levels = <<>> \/ spent > Depth(N, Len(levels))
    BY <1>1, <1>3, <1>5, <2>1, EnoughLevels
  <2> QED BY <2>2, <2>3, <2>4, <2>5
<1> QED BY <1>6, <1>7

===============================================================================
