-------------------------- MODULE BigIntegersProofs --------------------------
(***************************************************************************)
(* Proofs about the Integer of the runtime (BigIntegers): for every base,  *)
(* every radix and every pair of operands, arithmetic is exact.            *)
(*                                                                         *)
(* A walk over limbs is a recursive function, which the library's          *)
(* induction theorems do not reach: the first section derives from         *)
(* well-founded induction on sets that such functions exist and what they  *)
(* are.  Every walk is then an equation between the values of its limbs    *)
(* (CarryWalk), and trimmed limbs have one form (OneForm), so each         *)
(* operation is arithmetic on values.  The division's loop keeps the limbs *)
(* found times the divisor plus what is left equal to the dividend         *)
(* (LoopAt); an estimate is never below its limb (EstimateAt) and, once    *)
(* corrected, at most one above it (CorrectedIs), so the subtraction       *)
(* borrows at most once (SubtractedIs) and one add-back repairs it         *)
(* (AddedBackIs).                                                          *)
(***************************************************************************)
EXTENDS BigIntegers, WellFoundedInduction, TLAPS

-------------------------------------------------------------------------------
(* Induction and recursion over numbers *)

\* Induction over the natural numbers, for a set.
LEMMA AllNumbers ==
    ASSUME NEW S, 0 \in S, \A i \in Nat : i \in S => i + 1 \in S
    PROVE  \A i \in Nat : i \in S
<1> DEFINE Missing == {i \in Nat : i \notin S}
<1> SUFFICES ASSUME Missing # {}
             PROVE  FALSE
  OBVIOUS
<1>1. Missing \subseteq Nat
  OBVIOUS
<1> HIDE DEF Missing
<1>2. PICK k \in Missing : \A i \in Missing : ~(<<i, k>> \in OpToRel(<, Nat))
  BY <1>1, NatLessThanWellFounded, WFMin, Zenon
<1>3. OpToRel(<, Nat) = {ss \in Nat \X Nat : ss[1] < ss[2]}
  BY Zenon DEF OpToRel
<1>4. \A i \in Missing : ~(<<i, k>> \in {ss \in Nat \X Nat : ss[1] < ss[2]})
  BY <1>2, <1>3, Zenon
<1>5. \A i \in Missing : ~(i < k)
  BY <1>1, <1>4
<1>6. k \in Nat /\ k \notin S /\ \A i \in Nat : i \notin S => ~(i < k)
  BY <1>5 DEF Missing
<1>7. k # 0 /\ k - 1 \in Nat
  BY <1>6
<1>8. k - 1 \in S
  BY <1>6, <1>7
<1>9. (k - 1) + 1 \in S
  BY <1>7, <1>8
<1> QED
  BY <1>6, <1>9

\* Induction from 0 up to a bound.
LEMMA UpTo ==
    ASSUME NEW N \in Nat, NEW S, 0 \in S, \A i \in 1..N : i - 1 \in S => i \in S
    PROVE  \A i \in 0..N : i \in S
<1> DEFINE T == {i \in Nat : i <= N => i \in S}
<1>1. 0 \in T
  OBVIOUS
<1>2. ASSUME NEW i \in Nat, i \in T
      PROVE  i + 1 \in T
  <2>1. CASE i + 1 <= N
    <3>1. i + 1 \in 1..N /\ (i + 1) - 1 = i /\ i \in S
      BY <1>2, <2>1
    <3> QED
      BY <3>1
  <2>2. CASE ~(i + 1 <= N)
    BY <2>2
  <2> QED
    BY <2>1, <2>2
<1> HIDE DEF T
<1>3. \A i \in Nat : i \in T
  BY <1>1, <1>2, AllNumbers
<1> QED
  BY <1>3 DEF T

\* Induction from a bound down to 1.
LEMMA DownFrom ==
    ASSUME NEW N \in Nat, NEW S, N + 1 \in S, \A i \in 1..N : i + 1 \in S => i \in S
    PROVE  \A i \in 1..(N + 1) : i \in S
<1> DEFINE T == {i \in 0..N : (N + 1) - i \in S}
<1>1. 0 \in T
  OBVIOUS
<1>2. ASSUME NEW i \in 1..N, i - 1 \in T
      PROVE  i \in T
  <2>1. (N + 1) - (i - 1) \in S /\ (N + 1) - (i - 1) = ((N + 1) - i) + 1 /\ (N + 1) - i \in 1..N
    BY <1>2
  <2> QED
    BY <2>1
<1> HIDE DEF T
<1>3. \A i \in 0..N : i \in T
  BY <1>1, <1>2, UpTo
<1>4. ASSUME NEW i \in 1..(N + 1)
      PROVE  i \in S
  <2>1. (N + 1) - i \in 0..N /\ (N + 1) - ((N + 1) - i) = i
    OBVIOUS
  <2> QED
    BY <1>3, <2>1 DEF T
<1> QED
  BY <1>4

\* Induction from everything below.
LEMMA FromBelow ==
    ASSUME NEW N \in Nat, NEW S, \A k \in 0..N : (\A i \in 0..(k - 1) : i \in S) => k \in S
    PROVE  \A k \in 0..N : k \in S
<1> DEFINE T == {k \in 0..N : \A i \in 0..k : i \in S}
<1>1. 0 \in T
  <2>1. 0 \in S
    OBVIOUS
  <2> QED
    BY <2>1
<1>2. ASSUME NEW k \in 1..N, k - 1 \in T
      PROVE  k \in T
  <2>1. \A i \in 0..(k - 1) : i \in S
    BY <1>2
  <2>2. k \in S
    BY <2>1
  <2> QED
    BY <2>1, <2>2
<1> HIDE DEF T
<1>3. \A k \in 0..N : k \in T
  BY <1>1, <1>2, UpTo
<1> QED
  BY <1>3 DEF T

Descends(F, N, T, start, prev, step) ==
    F \in [0..N -> T] /\ F[0] = start /\ \A i \in 1..N : F[i] = step[<<i, F[prev[i]]>>]
GoesUp(F, N, T, start, step) ==
    F \in [0..N -> T] /\ F[0] = start /\ \A i \in 1..N : F[i] = step[<<i, F[i - 1]>>]
GoesDown(F, N, T, start, step) ==
    F \in [1..(N + 1) -> T] /\ F[N + 1] = start /\ \A i \in 1..N : F[i] = step[<<i, F[i + 1]>>]

\* A function defined by what it is at 0 and, at every other number, by what
\* it is at a smaller one.
LEMMA Descended ==
    ASSUME NEW T, NEW N \in Nat, NEW start \in T,
           NEW step \in [(1..N) \X T -> T],
           NEW prev \in [1..N -> Nat], \A i \in 1..N : prev[i] < i
    PROVE  \E F : Descends(F, N, T, start, prev, step)
<1> DEFINE Run(g, k) == /\ g \in [0..k -> T] /\ g[0] = start
                        /\ \A i \in 1..k : g[i] = step[<<i, g[prev[i]]>>]
           Reached == {k \in 0..N : \E g : Run(g, k)}
<1>1. 0 \in Reached
  <2>1. PICK g : g = [i \in 0..0 |-> start]
    OBVIOUS
  <2>2. Run(g, 0)
    BY <2>1
  <2> QED
    BY <2>2
<1>2. ASSUME NEW k \in 1..N, k - 1 \in Reached
      PROVE  k \in Reached
  <2>1. PICK g : Run(g, k - 1)
    BY <1>2
  <2>2. PICK h : h = [i \in 0..k |-> IF i = k THEN step[<<k, g[prev[k]]>>] ELSE g[i]]
    OBVIOUS
  <2>3. prev[k] \in 0..(k - 1) /\ g[prev[k]] \in T
    BY <2>1
  <2>4. step[<<k, g[prev[k]]>>] \in T
    BY <2>3
  <2>5. h \in [0..k -> T] /\ h[0] = start
    BY <2>1, <2>2, <2>4
  <2>6. \A i \in 1..k : h[i] = step[<<i, h[prev[i]]>>]
    <3> TAKE i \in 1..k
    <3>1. prev[i] \in 0..(i - 1)
      OBVIOUS
    <3>2. CASE i = k
      <4>1. prev[k] \in 0..k /\ prev[k] # k /\ k \in 0..k
        BY <2>3
      <4>2. h[k] = step[<<k, g[prev[k]]>>] /\ h[prev[k]] = g[prev[k]]
        BY <2>2, <4>1
      <4> QED
        BY <3>2, <4>2
    <3>3. CASE i # k
      <4>1. i \in 1..(k - 1) /\ i \in 0..k /\ prev[i] \in 0..(k - 1) /\ prev[i] # k /\ prev[i] \in 0..k
        BY <3>1, <3>3
      <4>2. h[i] = g[i] /\ h[prev[i]] = g[prev[i]]
        BY <2>2, <3>3, <4>1
      <4> QED
        BY <2>1, <4>1, <4>2
    <3> QED
      BY <3>2, <3>3
  <2>7. Run(h, k)
    BY <2>5, <2>6
  <2> HIDE DEF Run
  <2> QED
    BY <2>7
<1> HIDE DEF Run, Reached
<1>3. \A i \in 0..N : i \in Reached
  BY <1>1, <1>2, UpTo
<1>4. PICK g : Run(g, N)
  <2>1. N \in Reached
    BY <1>3
  <2> QED
    BY <2>1 DEF Reached
<1> QED
  BY <1>4 DEF Run, Descends

\* A function defined from 0 up to a bound ...
LEMMA DefinedUp ==
    ASSUME NEW T, NEW N \in Nat, NEW start \in T, NEW step \in [(1..N) \X T -> T]
    PROVE  \E F : GoesUp(F, N, T, start, step)
<1>1. PICK prev : prev = [i \in 1..N |-> i - 1]
  OBVIOUS
<1>2. prev \in [1..N -> Nat]
  BY <1>1
<1>6. \A i \in 1..N : prev[i] < i
  BY <1>1
<1>7. \A i \in 1..N : prev[i] = i - 1
  BY <1>1
<1>3. PICK F : Descends(F, N, T, start, prev, step)
  BY <1>2, <1>6, Descended
<1>4. GoesUp(F, N, T, start, step)
  BY <1>7, <1>3 DEF Descends, GoesUp
<1> QED
  BY <1>4

\* ... and one defined from a bound down to 1.
LEMMA DefinedDown ==
    ASSUME NEW T, NEW N \in Nat, NEW start \in T, NEW step \in [(1..N) \X T -> T]
    PROVE  \E F : GoesDown(F, N, T, start, step)
<1>1. PICK turned : turned = [p \in (1..N) \X T |-> step[<<(N + 1) - p[1], p[2]>>]]
  OBVIOUS
<1>2. \A i \in 1..N, t \in T : turned[<<i, t>>] = step[<<(N + 1) - i, t>>] /\ turned[<<i, t>>] \in T
  <2> TAKE i \in 1..N, t \in T
  <2>1. <<i, t>> \in (1..N) \X T /\ <<i, t>>[1] = i /\ <<i, t>>[2] = t
    OBVIOUS
  <2>2. (N + 1) - i \in 1..N /\ <<(N + 1) - i, t>> \in (1..N) \X T
    OBVIOUS
  <2> QED
    BY <1>1, <2>1, <2>2
<1>3. turned \in [(1..N) \X T -> T]
  <2>1. \A p \in (1..N) \X T : turned[p] \in T
    <3> TAKE p \in (1..N) \X T
    <3>1. PICK i \in 1..N, t \in T : p = <<i, t>>
      OBVIOUS
    <3> QED
      BY <1>2, <3>1
  <2> QED
    BY <1>1, <2>1
<1>8. PICK G : GoesUp(G, N, T, start, turned)
  BY <1>3, DefinedUp
<1>4. G \in [0..N -> T] /\ G[0] = start /\ \A i \in 1..N : G[i] = turned[<<i, G[i - 1]>>]
  BY <1>8 DEF GoesUp
<1>5. PICK F : F = [i \in 1..(N + 1) |-> G[(N + 1) - i]]
  OBVIOUS
<1>6. F \in [1..(N + 1) -> T] /\ F[N + 1] = start
  BY <1>4, <1>5
<1>7. ASSUME NEW i \in 1..N
      PROVE  F[i] = step[<<i, F[i + 1]>>]
  <2>1. PICK k : k = (N + 1) - i
    OBVIOUS
  <2>2. k \in 1..N /\ k - 1 \in 0..N /\ (N + 1) - k = i /\ i + 1 \in 1..(N + 1) /\ (N + 1) - (i + 1) = k - 1
    BY <2>1
  <2>3. F[i] = G[k] /\ F[i + 1] = G[k - 1] /\ G[k - 1] \in T
    BY <1>4, <1>5, <2>1, <2>2
  <2>4. G[k] = turned[<<k, G[k - 1]>>]
    BY <1>4, <2>2
  <2>5. turned[<<k, G[k - 1]>>] = step[<<i, G[k - 1]>>]
    BY <1>2, <2>2, <2>3
  <2> QED
    BY <2>3, <2>4, <2>5
<1>9. GoesDown(F, N, T, start, step)
  BY <1>6, <1>7 DEF GoesDown
<1> QED
  BY <1>9

-------------------------------------------------------------------------------
(* Division of numbers, and powers *)

\* What the division of whole numbers is.
LEMMA DivMod ==
    ASSUME NEW a \in Int, NEW b \in Nat \ {0}
    PROVE  /\ a \div b \in Int /\ a % b \in 0..(b - 1)
           /\ \E k \in Int, r \in 0..(b - 1) : k = a \div b /\ r = a % b /\ a = b * k + r
<1>1. ASSUME NEW k \in Int, NEW r \in Int, k = a \div b, r = a % b
      PROVE  a = b * k + r
  BY <1>1
<1>2. a \div b \in Int /\ a % b \in 0..(b - 1)
  OBVIOUS
<1>3. PICK k, r : k = a \div b /\ r = a % b
  OBVIOUS
<1>4. a = b * k + r
  BY <1>1, <1>2, <1>3
<1> QED
  BY <1>2, <1>3, <1>4

\* Quotient and remainder are the only ones.
LEMMA DivUnique ==
    ASSUME NEW b \in Nat \ {0}, NEW k \in Int, NEW l \in Int,
           NEW r \in 0..(b - 1), NEW s \in 0..(b - 1), b * k + r = b * l + s
    PROVE  k = l /\ r = s
OBVIOUS

\* A decomposition below the divisor names quotient and remainder.
LEMMA DivIs ==
    ASSUME NEW b \in Nat \ {0}, NEW k \in Int, NEW r \in 0..(b - 1), NEW a \in Int,
           a = b * k + r
    PROVE  a \div b = k /\ a % b = r
<1>1. PICK l \in Int, s \in 0..(b - 1) : l = a \div b /\ s = a % b /\ a = b * l + s
  BY DivMod
<1>2. l \in Int /\ s \in 0..(b - 1) /\ a = b * l + s
  BY <1>1
<1>3. b * k + r = b * l + s
  BY <1>2
<1>4. k = l /\ r = s
  BY <1>2, <1>3, DivUnique
<1> QED
  BY <1>1, <1>4

\* A product grows with its factor.
LEMMA ProductOrder ==
    ASSUME NEW a \in Nat, NEW b \in Nat, NEW c \in Nat, a <= b
    PROVE  a * c <= b * c /\ c * a <= c * b /\ a * c \in Nat
OBVIOUS

\* A quotient lies where its products do.
LEMMA DivRange ==
    ASSUME NEW a \in Nat, NEW b \in Nat \ {0}
    PROVE  /\ a \div b \in Nat
           /\ \A c \in Nat : a < b * c => a \div b < c
           /\ \A c \in Nat : b * c <= a => c <= a \div b
<1> a \in Int
  OBVIOUS
<1>1. PICK k \in Int, r \in 0..(b - 1) : k = a \div b /\ r = a % b /\ a = b * k + r
  BY DivMod
<1>2. k \in Int /\ r \in 0..(b - 1) /\ a = b * k + r
  BY <1>1
<1>3. k \in Nat
  <2> SUFFICES ASSUME k <= -1
               PROVE  FALSE
    BY <1>2
  <2>1. (-k) \in Nat /\ 1 <= -k
    BY <1>2
  <2>2. b * 1 <= b * (-k)
    BY <2>1, ProductOrder
  <2>3. b * (-k) = -(b * k)
    BY <1>2
  <2> QED
    BY <1>2, <2>2, <2>3
<1>4. ASSUME NEW c \in Nat, a < b * c
      PROVE  k < c
  <2> SUFFICES ASSUME c <= k
               PROVE  FALSE
    BY <1>2
  <2>1. b * c <= b * k
    BY <1>3, ProductOrder
  <2> QED
    BY <1>2, <1>4, <2>1
<1>5. ASSUME NEW c \in Nat, b * c <= a
      PROVE  c <= k
  <2> SUFFICES ASSUME k + 1 <= c
               PROVE  FALSE
    BY <1>2
  <2>1. b * (k + 1) <= b * c
    BY <1>3, ProductOrder
  <2>2. b * (k + 1) = b * k + b
    BY <1>2
  <2> QED
    BY <1>2, <1>5, <2>1, <2>2
<1> QED
  BY <1>1, <1>3, <1>4, <1>5

\* What is assumed of the base.
LEMMA BaseIs == Base \in Nat \ {0} /\ Base > 2
BY BigIntegersAssumption DEF BigIntegersAssumption

\* Powers are their recursion.
LEMMA PowerIs ==
    ASSUME NEW b \in Nat \ {0}
    PROVE  /\ Power(b, 0) = 1
           /\ \A k \in Nat : Power(b, k) \in Nat \ {0} /\ Power(b, k + 1) = b * Power(b, k)
<1> DEFINE F(k) == CHOOSE p : p = [i \in 0..k |-> IF i = 0 THEN 1 ELSE b * p[i - 1]]
<1>1. ASSUME NEW k \in Nat
      PROVE  Power(b, k) = F(k)[k]
  BY DEF Power
<1>2. ASSUME NEW k \in Nat
      PROVE  F(k) = [i \in 0..k |-> IF i = 0 THEN 1 ELSE b * F(k)[i - 1]]
  <2>1. PICK step : step = [p \in (1..k) \X Nat |-> b * p[2]]
    OBVIOUS
  <2>2. step \in [(1..k) \X Nat -> Nat] /\ \A i \in 1..k, r \in Nat : step[<<i, r>>] = b * r
    BY <2>1
  <2>3. PICK p : GoesUp(p, k, Nat, 1, step)
    BY <2>2, DefinedUp
  <2>4. p \in [0..k -> Nat] /\ p[0] = 1 /\ \A i \in 1..k : p[i] = b * p[i - 1]
    <3>1. ASSUME NEW i \in 1..k
          PROVE  i - 1 \in 0..k
      OBVIOUS
    <3> QED
      BY <2>2, <2>3, <3>1 DEF GoesUp
  <2>5. p = [i \in 0..k |-> IF i = 0 THEN 1 ELSE b * p[i - 1]]
    BY <2>4
  <2> QED
    BY <2>5
<1> HIDE DEF F
<1>3. ASSUME NEW k \in Nat
      PROVE  F(k)[0] = 1 /\ \A i \in 1..k : F(k)[i] = b * F(k)[i - 1]
  <2>1. PICK p : p = F(k)
    OBVIOUS
  <2>2. p = [i \in 0..k |-> IF i = 0 THEN 1 ELSE b * p[i - 1]]
    BY <1>2, <2>1
  <2>3. p[0] = 1 /\ \A i \in 1..k : p[i] = b * p[i - 1]
    BY <2>2
  <2> QED
    BY <2>1, <2>3
<1>4. ASSUME NEW k \in Nat
      PROVE  \A i \in 0..k : F(k)[i] \in Nat \ {0} /\ F(k + 1)[i] = F(k)[i]
  <2> DEFINE S == {i \in 0..k : F(k)[i] \in Nat \ {0} /\ F(k + 1)[i] = F(k)[i]}
  <2>1. 0 \in S
    BY <1>3
  <2>2. ASSUME NEW i \in 1..k, i - 1 \in S
        PROVE  i \in S
    <3>1. F(k)[i] = b * F(k)[i - 1]
      BY <1>3
    <3>2. i \in 1..(k + 1) /\ k + 1 \in Nat
      OBVIOUS
    <3>3. F(k + 1)[i] = b * F(k + 1)[i - 1]
      BY <1>3, <3>2
    <3>4. PICK r : r = F(k)[i - 1]
      OBVIOUS
    <3>5. r \in Nat \ {0} /\ F(k + 1)[i - 1] = r
      BY <2>2, <3>4
    <3>6. b * r \in Nat \ {0}
      BY <3>5
    <3> QED
      BY <3>1, <3>3, <3>4, <3>5, <3>6
  <2> HIDE DEF S
  <2>3. \A i \in 0..k : i \in S
    BY <2>1, <2>2, UpTo
  <2> QED
    BY <2>3 DEF S
<1>5. ASSUME NEW k \in Nat
      PROVE  Power(b, k) \in Nat \ {0} /\ Power(b, k + 1) = b * Power(b, k)
  <2>1. k \in 0..k /\ k + 1 \in Nat /\ k + 1 \in 1..(k + 1) /\ (k + 1) - 1 = k
    OBVIOUS
  <2>2. F(k + 1)[k + 1] = b * F(k + 1)[k]
    BY <1>3, <2>1
  <2>3. F(k)[k] \in Nat \ {0} /\ F(k + 1)[k] = F(k)[k]
    BY <1>4, <2>1
  <2> QED
    BY <1>1, <2>1, <2>2, <2>3
<1>6. Power(b, 0) = 1
  BY <1>1, <1>3
<1> QED
  BY <1>5, <1>6

-------------------------------------------------------------------------------
(* What limbs are worth *)

\* The values from every limb on are what their definition says.
LEMMA ValuesFromIs ==
    ASSUME NEW m \in Seq(Int)
    PROVE  /\ ValuesFrom(m) \in [1..(Len(m) + 1) -> Int]
           /\ ValuesFrom(m)[Len(m) + 1] = 0
           /\ \A i \in 1..Len(m) : ValuesFrom(m)[i] = m[i] + Base * ValuesFrom(m)[i + 1]
<1>1. PICK N : N = Len(m)
  OBVIOUS
<1>2. N \in Nat /\ \A i \in 1..N : m[i] \in Int
  BY <1>1
<1>3. PICK step : step = [p \in (1..N) \X Int |-> m[p[1]] + Base * p[2]]
  OBVIOUS
<1>4. step \in [(1..N) \X Int -> Int] /\ \A i \in 1..N, r \in Int : step[<<i, r>>] = m[i] + Base * r
  BY <1>2, <1>3, BaseIs
<1>5. PICK F : GoesDown(F, N, Int, 0, step)
  <2>1. N \in Nat /\ 0 \in Int /\ step \in [(1..N) \X Int -> Int]
    BY <1>2, <1>4
  <2> QED
    BY <2>1, DefinedDown, Zenon
<1>6. F \in [1..(N + 1) -> Int] /\ F[N + 1] = 0 /\ \A i \in 1..N : F[i] = m[i] + Base * F[i + 1]
  <2>1. \A i \in 1..N : i + 1 \in 1..(N + 1)
    BY <1>2
  <2> QED
    BY <1>4, <1>5, <2>1 DEF GoesDown
<1>7. F = [i \in 1..(N + 1) |-> IF i = N + 1 THEN 0 ELSE m[i] + Base * F[i + 1]]
  BY <1>2, <1>6
<1>8. ValuesFrom(m) = CHOOSE f : f = [i \in 1..(N + 1) |-> IF i = N + 1 THEN 0 ELSE m[i] + Base * f[i + 1]]
  BY <1>1 DEF ValuesFrom
<1>9. PICK G : G = ValuesFrom(m)
  OBVIOUS
<1>10. G = [i \in 1..(N + 1) |-> IF i = N + 1 THEN 0 ELSE m[i] + Base * G[i + 1]]
  BY <1>7, <1>8, <1>9
<1>11. G[N + 1] = 0 /\ \A i \in 1..N : G[i] = m[i] + Base * G[i + 1]
  BY <1>2, <1>10
<1>12. \A i \in 1..(N + 1) : i \in {k \in 1..(N + 1) : G[k] \in Int}
  <2> DEFINE S == {k \in 1..(N + 1) : G[k] \in Int}
  <2>1. N + 1 \in S
    BY <1>2, <1>11
  <2>2. ASSUME NEW i \in 1..N, i + 1 \in S
        PROVE  i \in S
    <3>1. G[i] = m[i] + Base * G[i + 1] /\ m[i] \in Int /\ G[i + 1] \in Int /\ Base \in Int
      BY <1>2, <1>11, <2>2, BaseIs
    <3>2. PICK r, l : r = G[i + 1] /\ l = m[i]
      OBVIOUS
    <3>3. l + Base * r \in Int
      BY <3>1, <3>2
    <3> QED
      BY <1>2, <3>1, <3>2, <3>3
  <2> HIDE DEF S
  <2>3. \A i \in 1..(N + 1) : i \in S
    BY <1>2, <2>1, <2>2, DownFrom
  <2> QED
    BY <2>3 DEF S
<1>13. G \in [1..(N + 1) -> Int]
  BY <1>10, <1>12
<1> QED
  BY <1>1, <1>9, <1>11, <1>13

LimbSeq == Seq(0..(Base - 1))

\* Limbs are numbers.
LEMMA LimbSeqIs ==
    ASSUME NEW m \in LimbSeq
    PROVE  /\ Len(m) \in Nat /\ DOMAIN m = 1..Len(m)
           /\ \A i \in 1..Len(m) : m[i] \in 0..(Base - 1) /\ m[i] \in Nat
           /\ m \in Seq(Int) /\ m \in Seq(Nat)
<1>1. Base \in Nat
  BY BaseIs
<1>2. \A i \in 1..Len(m) : m[i] \in 0..(Base - 1)
  <2>1. PICK S : S = 0..(Base - 1)
    OBVIOUS
  <2>2. m \in Seq(S)
    BY <2>1 DEF LimbSeq
  <2>3. \A i \in 1..Len(m) : m[i] \in S
    BY <2>2
  <2> QED
    BY <2>1, <2>3
<1>3. m \in [1..Len(m) -> Int] /\ m \in [1..Len(m) -> Nat] /\ Len(m) \in Nat
  BY <1>1, <1>2 DEF LimbSeq
<1> QED
  BY <1>1, <1>2, <1>3 DEF LimbSeq

\* A function on 1..N into limbs is a magnitude.
LEMMA LimbFunction ==
    ASSUME NEW N \in Nat, NEW r \in [1..N -> 0..(Base - 1)]
    PROVE  r \in LimbSeq /\ Len(r) = N
<1>1. \A S : \A f \in [1..N -> S] : f \in Seq(S) /\ Len(f) = N
  OBVIOUS
<1> QED
  BY <1>1 DEF LimbSeq

\* Sequences that agree from a limb on are worth the same from there on.
LEMMA SuffixSame ==
    ASSUME NEW a \in Seq(Int), NEW b \in Seq(Int), NEW k \in Nat, Len(a) = Len(b) + k,
           \A i \in 1..Len(b) : a[k + i] = b[i]
    PROVE  \A i \in 1..(Len(b) + 1) : ValuesFrom(a)[k + i] = ValuesFrom(b)[i]
<1>1. PICK N, F, G : N = Len(b) /\ F = ValuesFrom(a) /\ G = ValuesFrom(b)
  OBVIOUS
<1>2. N \in Nat /\ Len(a) = N + k
  BY <1>1
<1>3. G[N + 1] = 0 /\ \A i \in 1..N : G[i] = b[i] + Base * G[i + 1]
  BY <1>1, ValuesFromIs
<1>4. F[k + N + 1] = 0 /\ \A i \in 1..(N + k) : F[i] = a[i] + Base * F[i + 1]
  <2>1. F[Len(a) + 1] = 0 /\ \A i \in 1..Len(a) : F[i] = a[i] + Base * F[i + 1]
    BY <1>1, ValuesFromIs
  <2>2. Len(a) + 1 = k + N + 1
    <3>1. (N + k) + 1 = k + N + 1
      BY <1>2
    <3> QED
      BY <1>2, <3>1, Zenon
  <2>3. \A i \in 1..(N + k) : i \in 1..Len(a)
    BY <1>2
  <2> QED
    BY <2>1, <2>2, <2>3
<1> DEFINE S == {i \in 1..(N + 1) : F[k + i] = G[i]}
<1>5. N + 1 \in S
  <2>1. k + (N + 1) = k + N + 1
    BY <1>2
  <2> QED
    BY <1>2, <1>3, <1>4, <2>1
<1>6. ASSUME NEW i \in 1..N, i + 1 \in S
      PROVE  i \in S
  <2>1. k + i \in 1..(N + k) /\ (k + i) + 1 = k + (i + 1)
    BY <1>2
  <2>2. F[k + i] = a[k + i] + Base * F[k + (i + 1)]
    BY <1>4, <2>1
  <2>3. F[k + (i + 1)] = G[i + 1] /\ a[k + i] = b[i]
    BY <1>1, <1>6
  <2> QED
    BY <1>2, <1>3, <2>2, <2>3
<1> HIDE DEF S
<1>7. \A i \in 1..(N + 1) : i \in S
  BY <1>2, <1>5, <1>6, DownFrom
<1> QED
  BY <1>1, <1>7 DEF S

\* Zeros above the last limb change nothing.
LEMMA ZerosAbove ==
    ASSUME NEW a \in Seq(Int), NEW k \in 0..Len(a), \A i \in (k + 1)..Len(a) : a[i] = 0
    PROVE  \A i \in (k + 1)..(Len(a) + 1) : ValuesFrom(a)[i] = 0
<1>1. PICK N, F : N = Len(a) /\ F = ValuesFrom(a)
  OBVIOUS
<1>2. N \in Nat /\ F[N + 1] = 0 /\ \A i \in 1..N : F[i] = a[i] + Base * F[i + 1]
  BY <1>1, ValuesFromIs
<1> DEFINE S == {i \in 1..(N + 1) : i > k => F[i] = 0}
<1>3. N + 1 \in S
  BY <1>2
<1>4. ASSUME NEW i \in 1..N, i + 1 \in S
      PROVE  i \in S
  <2>1. CASE i > k
    <3>1. i + 1 > k /\ i \in (k + 1)..N
      BY <1>1, <1>2, <2>1
    <3>2. F[i + 1] = 0 /\ a[i] = 0
      BY <1>1, <1>4, <3>1
    <3> QED
      BY <1>2, <3>2, BaseIs
  <2>2. CASE ~(i > k)
    BY <1>2, <2>2
  <2> QED
    BY <2>1, <2>2
<1> HIDE DEF S
<1>5. \A i \in 1..(N + 1) : i \in S
  BY <1>2, <1>3, <1>4, DownFrom
<1> QED
  BY <1>1, <1>2, <1>5 DEF S

\* Zero limbs on top add nothing.
LEMMA PaddedSame ==
    ASSUME NEW a \in Seq(Int), NEW b \in Seq(Int), Len(b) <= Len(a),
           \A i \in 1..Len(b) : a[i] = b[i],
           \A i \in (Len(b) + 1)..Len(a) : a[i] = 0
    PROVE  \A i \in 1..(Len(b) + 1) : ValuesFrom(a)[i] = ValuesFrom(b)[i]
<1>1. PICK N, F, G : N = Len(b) /\ F = ValuesFrom(a) /\ G = ValuesFrom(b)
  OBVIOUS
<1>2. N \in Nat /\ Len(a) \in Nat /\ N \in 0..Len(a) /\ N + 1 \in (N + 1)..(Len(a) + 1)
  BY <1>1
<1>3. G[N + 1] = 0 /\ \A i \in 1..N : G[i] = b[i] + Base * G[i + 1]
  BY <1>1, ValuesFromIs
<1>4. \A i \in 1..Len(a) : F[i] = a[i] + Base * F[i + 1]
  BY <1>1, ValuesFromIs
<1>5. \A i \in (N + 1)..(Len(a) + 1) : F[i] = 0
  BY <1>1, <1>2, ZerosAbove
<1> DEFINE S == {i \in 1..(N + 1) : F[i] = G[i]}
<1>6. N + 1 \in S
  BY <1>2, <1>3, <1>5
<1>7. ASSUME NEW i \in 1..N, i + 1 \in S
      PROVE  i \in S
  <2>1. i \in 1..Len(a) /\ a[i] = b[i] /\ F[i + 1] = G[i + 1]
    BY <1>1, <1>2, <1>7
  <2> QED
    BY <1>2, <1>3, <1>4, <2>1
<1> HIDE DEF S
<1>8. \A i \in 1..(N + 1) : i \in S
  BY <1>2, <1>6, <1>7, DownFrom
<1> QED
  BY <1>1, <1>8 DEF S

\* The limbs from one to another are the low part of what the number is worth.
LEMMA SplitAt ==
    ASSUME NEW a \in Seq(Int), NEW s \in 1..(Len(a) + 1), NEW k \in Nat, s + k <= Len(a) + 1,
           \A i \in s..(s + k - 1) : a[i] \in 0..(Base - 1)
    PROVE  \E low \in 0..(Power(Base, k) - 1) :
              ValuesFrom(a)[s] = low + Power(Base, k) * ValuesFrom(a)[s + k]
<1>1. PICK F : F = ValuesFrom(a)
  OBVIOUS
<1>2. /\ Len(a) \in Nat
      /\ \A i \in 1..(Len(a) + 1) : F[i] \in Int
      /\ \A i \in 1..Len(a) : F[i] = a[i] + Base * F[i + 1]
  BY <1>1, ValuesFromIs
<1> DEFINE S == {l \in 0..k : \E low \in 0..(Power(Base, l) - 1) : F[s] = low + Power(Base, l) * F[s + l]}
<1>3. 0 \in S
  <2>1. Power(Base, 0) = 1 /\ s + 0 = s /\ F[s] \in Int
    BY <1>2, BaseIs, PowerIs
  <2>2. 0 \in 0..(Power(Base, 0) - 1) /\ F[s] = 0 + Power(Base, 0) * F[s + 0]
    BY <2>1
  <2> QED
    BY <2>2
<1>4. ASSUME NEW l \in 1..k, l - 1 \in S
      PROVE  l \in S
  <2>1. PICK P : P = Power(Base, l - 1)
    OBVIOUS
  <2>2. l - 1 \in Nat /\ (l - 1) + 1 = l
    OBVIOUS
  <2>3. P \in Nat \ {0} /\ Power(Base, l) = Base * P
    BY <2>1, <2>2, BaseIs, PowerIs
  <2>4. PICK low \in 0..(P - 1) : F[s] = low + P * F[s + (l - 1)]
    BY <1>4, <2>1
  <2>5. PICK t, r, f : t = s + (l - 1) /\ r = a[t] /\ f = F[t + 1]
    OBVIOUS
  <2>6. t \in 1..Len(a) /\ t \in s..(s + k - 1) /\ t + 1 \in 1..(Len(a) + 1) /\ t + 1 = s + l
    BY <1>2, <2>5
  <2>7. r \in 0..(Base - 1) /\ f \in Int /\ F[t] = r + Base * f
    BY <1>2, <2>5, <2>6
  <2>8. PICK new : new = low + P * r
    OBVIOUS
  <2>9. new \in 0..(Base * P - 1)
    <3>1. P * r <= P * (Base - 1) /\ P * r \in Nat
      BY <2>3, <2>7, BaseIs, ProductOrder
    <3>2. P * (Base - 1) = Base * P - P
      BY <2>3, BaseIs
    <3> QED
      BY <2>3, <2>4, <2>8, <3>1, <3>2, BaseIs
  <2>10. F[s] = low + P * (r + Base * f)
    BY <2>4, <2>5, <2>7
  <2>11. P * (r + Base * f) = P * r + (Base * P) * f
    BY <2>3, <2>7, BaseIs
  <2>12. F[s] = new + (Base * P) * f
    <3>1. P * r \in Int /\ (Base * P) * f \in Int
      BY <2>3, <2>7, BaseIs
    <3> QED
      BY <2>4, <2>8, <2>10, <2>11, <3>1
  <2>13. F[s] = new + Power(Base, l) * F[s + l] /\ new \in 0..(Power(Base, l) - 1)
    BY <2>3, <2>5, <2>6, <2>9, <2>12
  <2> QED
    BY <2>13
<1> HIDE DEF S
<1>5. \A l \in 0..k : l \in S
  BY <1>3, <1>4, UpTo
<1>6. k \in S
  BY <1>5
<1> QED
  BY <1>1, <1>6 DEF S

\* Max finds the largest of a set of indices.
LEMMA LargestIs ==
    ASSUME NEW N \in Nat, NEW S \in SUBSET (0..N), S # {}
    PROVE  Max(S) \in S /\ \A k \in S : k <= Max(S)
<1> DEFINE T == {k \in 0..N : (\E i \in S : i <= k) => \E i \in S : i <= k /\ \A l \in S : l <= k => l <= i}
<1>1. 0 \in T
  OBVIOUS
<1>2. ASSUME NEW k \in 1..N, k - 1 \in T
      PROVE  k \in T
  <2>1. CASE k \in S
    BY <2>1
  <2>2. CASE k \notin S
    <3>1. \A i \in S : i <= k => i <= k - 1
      BY <2>2
    <3> QED
      BY <1>2, <3>1
  <2> QED
    BY <2>1, <2>2
<1> HIDE DEF T
<1>3. \A k \in 0..N : k \in T
  BY <1>1, <1>2, UpTo
<1>4. N \in T
  BY <1>3
<1>5. \E i \in S : \A l \in S : i >= l
  <2>1. \A l \in S : l \in Nat /\ l <= N
    OBVIOUS
  <2>2. \E i \in S : i <= N
    BY <2>1
  <2>3. PICK i \in S : i <= N /\ \A l \in S : l <= N => l <= i
    BY <1>4, <2>2 DEF T
  <2>4. \A l \in S : i >= l
    BY <2>1, <2>3
  <2> QED
    BY <2>4
<1> QED
  BY <1>5 DEF Max

\* Limbs that are naturals are worth a natural.
LEMMA WorthNat ==
    ASSUME NEW m \in Seq(Nat)
    PROVE  \A i \in 1..(Len(m) + 1) : ValuesFrom(m)[i] \in Nat
<1>1. PICK N, F : N = Len(m) /\ F = ValuesFrom(m)
  OBVIOUS
<1>2. N \in Nat /\ m \in Seq(Int) /\ \A i \in 1..N : m[i] \in Nat
  BY <1>1
<1>3. F[N + 1] = 0 /\ \A i \in 1..N : F[i] = m[i] + Base * F[i + 1]
  BY <1>1, <1>2, ValuesFromIs
<1> DEFINE S == {i \in 1..(N + 1) : F[i] \in Nat}
<1>4. N + 1 \in S
  BY <1>2, <1>3
<1>5. ASSUME NEW i \in 1..N, i + 1 \in S
      PROVE  i \in S
  <2>1. PICK r, l : r = F[i + 1] /\ l = m[i]
    OBVIOUS
  <2>2. r \in Nat /\ l \in Nat /\ F[i] = l + Base * r
    BY <1>2, <1>3, <1>5, <2>1
  <2>3. l + Base * r \in Nat
    BY <2>2, BaseIs
  <2> QED
    BY <1>2, <2>2, <2>3
<1> HIDE DEF S
<1>6. \A i \in 1..(N + 1) : i \in S
  BY <1>2, <1>4, <1>5, DownFrom
<1> QED
  BY <1>1, <1>6 DEF S

\* A larger power is larger.
LEMMA PowerGrows ==
    ASSUME NEW b \in Nat \ {0}, NEW k \in Nat, NEW l \in Nat, k <= l
    PROVE  Power(b, k) <= Power(b, l)
<1> DEFINE S == {i \in 0..(l - k) : Power(b, k) <= Power(b, k + i)}
<1>1. 0 \in S
  <2>1. k + 0 = k /\ Power(b, k) \in Nat /\ 0 \in 0..(l - k)
    BY PowerIs
  <2> QED
    BY <2>1
<1>2. ASSUME NEW i \in 1..(l - k), i - 1 \in S
      PROVE  i \in S
  <2>1. PICK p, o : p = Power(b, k + (i - 1)) /\ o = Power(b, k)
    OBVIOUS
  <2>2. k + (i - 1) \in Nat /\ (k + (i - 1)) + 1 = k + i
    OBVIOUS
  <2>3. p \in Nat /\ Power(b, k + i) = b * p /\ o \in Nat
    BY <2>1, <2>2, PowerIs
  <2>4. 1 * p <= b * p
    BY <2>3, ProductOrder
  <2>5. o <= p
    BY <1>2, <2>1
  <2>6. b * p \in Int
    BY <2>3
  <2> QED
    BY <2>1, <2>3, <2>4, <2>5, <2>6
<1>3. \A i \in 0..(l - k) : i \in S
  <2> HIDE DEF S
  <2>1. l - k \in Nat
    OBVIOUS
  <2> QED
    BY <1>1, <1>2, <2>1, UpTo
<1>4. l - k \in S /\ k + (l - k) = l
  <2> HIDE DEF S
  <2> QED
    BY <1>3
<1> QED
  BY <1>4

\* What a number of limbs is worth is below the base to their number.
LEMMA WorthBelow ==
    ASSUME NEW m \in LimbSeq
    PROVE  Magnitude(m) \in Nat /\ Magnitude(m) < Power(Base, Len(m))
<1>1. Len(m) \in Nat /\ m \in Seq(Int) /\ m \in Seq(Nat) /\ \A i \in 1..Len(m) : m[i] \in 0..(Base - 1)
  BY LimbSeqIs
<1>2. 1 \in 1..(Len(m) + 1) /\ 1 + Len(m) <= Len(m) + 1 /\ 1 + Len(m) - 1 = Len(m)
  BY <1>1
<1>3. PICK low \in 0..(Power(Base, Len(m)) - 1) :
         ValuesFrom(m)[1] = low + Power(Base, Len(m)) * ValuesFrom(m)[1 + Len(m)]
  BY <1>1, <1>2, SplitAt
<1>4. 1 + Len(m) = Len(m) + 1 /\ ValuesFrom(m)[Len(m) + 1] = 0
  BY <1>1, ValuesFromIs
<1>5. PICK P : P = Power(Base, Len(m))
  OBVIOUS
<1>6. P \in Nat
  BY <1>1, <1>5, BaseIs, PowerIs
<1>7. ValuesFrom(m)[1] = low + P * 0 /\ low \in 0..(P - 1)
  BY <1>3, <1>4, <1>5
<1> QED
  BY <1>5, <1>6, <1>7 DEF Magnitude

\* A limb sequence without leading zeros is worth something from every limb on.
LEMMA TrimmedWorth ==
    ASSUME NEW m \in LimbSeq, Trimmed(m)
    PROVE  \A i \in 1..Len(m) : ValuesFrom(m)[i] \in Nat \ {0}
<1>1. PICK N, F : N = Len(m) /\ F = ValuesFrom(m)
  OBVIOUS
<1>2. N \in Nat /\ m \in Seq(Int) /\ \A i \in 1..N : m[i] \in Nat
  BY <1>1, LimbSeqIs
<1>3. F[N + 1] = 0 /\ \A i \in 1..N : F[i] = m[i] + Base * F[i + 1]
  BY <1>1, <1>2, ValuesFromIs
<1>4. N > 0 => m[N] # 0
  BY <1>1, <1>2 DEF Trimmed
<1> DEFINE S == {i \in 1..(N + 1) : i <= N => F[i] \in Nat \ {0}}
<1>5. N + 1 \in S
  BY <1>2
<1>6. ASSUME NEW i \in 1..N, i + 1 \in S
      PROVE  i \in S
  <2>1. PICK r, l : r = F[i + 1] /\ l = m[i]
    OBVIOUS
  <2>2. l \in Nat /\ F[i] = l + Base * r /\ (i = N => r = 0 /\ l # 0)
    BY <1>2, <1>3, <1>4, <2>1
  <2>3. i # N => r \in Nat \ {0}
    BY <1>2, <1>6, <2>1
  <2>4. F[i] \in Nat \ {0}
    <3>1. CASE i = N
      BY <2>2, <3>1, BaseIs
    <3>2. CASE i # N
      <4>1. Base * r \in Nat \ {0}
        BY <2>3, <3>2, BaseIs
      <4> QED
        BY <2>2, <4>1
    <3> QED
      BY <3>1, <3>2
  <2> QED
    BY <1>2, <2>4
<1> HIDE DEF S
<1>7. \A i \in 1..(N + 1) : i \in S
  BY <1>2, <1>5, <1>6, DownFrom
<1> QED
  BY <1>1, <1>2, <1>7 DEF S

\* There is one limb sequence without leading zeros for what it is worth.
LEMMA OneForm ==
    ASSUME NEW a \in LimbSeq, NEW b \in LimbSeq, Trimmed(a), Trimmed(b),
           Magnitude(a) = Magnitude(b)
    PROVE  a = b
<1>1. PICK F, G : F = ValuesFrom(a) /\ G = ValuesFrom(b)
  OBVIOUS
<1>2. /\ Len(a) \in Nat /\ Len(b) \in Nat /\ a \in Seq(Int) /\ b \in Seq(Int)
      /\ \A i \in 1..Len(a) : a[i] \in 0..(Base - 1)
      /\ \A i \in 1..Len(b) : b[i] \in 0..(Base - 1)
  BY LimbSeqIs
<1>3. /\ F[Len(a) + 1] = 0 /\ \A i \in 1..Len(a) : F[i] = a[i] + Base * F[i + 1]
      /\ \A i \in 1..(Len(a) + 1) : F[i] \in Int
  BY <1>1, <1>2, ValuesFromIs
<1>4. /\ G[Len(b) + 1] = 0 /\ \A i \in 1..Len(b) : G[i] = b[i] + Base * G[i + 1]
      /\ \A i \in 1..(Len(b) + 1) : G[i] \in Int
  BY <1>1, <1>2, ValuesFromIs
<1>5. /\ \A i \in 1..Len(a) : F[i] # 0
      /\ \A i \in 1..Len(b) : G[i] # 0
  BY <1>1, TrimmedWorth
<1>6. PICK N : N = IF Len(a) < Len(b) THEN Len(a) ELSE Len(b)
  OBVIOUS
<1>7. N \in Nat /\ N <= Len(a) /\ N <= Len(b) /\ (N = Len(a) \/ N = Len(b))
  BY <1>2, <1>6
<1> DEFINE S == {i \in 0..N : F[i + 1] = G[i + 1] /\ (i > 0 => a[i] = b[i])}
<1>8. 0 \in S
  <2>1. F[1] = G[1]
    BY <1>1 DEF Magnitude
  <2> QED
    BY <1>7, <2>1
<1>9. ASSUME NEW i \in 1..N, i - 1 \in S
      PROVE  i \in S
  <2>1. i \in 1..Len(a) /\ i \in 1..Len(b) /\ (i - 1) + 1 = i /\ i + 1 \in 1..(Len(a) + 1) /\ i + 1 \in 1..(Len(b) + 1)
    BY <1>2, <1>7
  <2>2. F[i] = G[i]
    BY <1>9, <2>1
  <2>3. PICK f, g, r, s : f = F[i + 1] /\ g = G[i + 1] /\ r = a[i] /\ s = b[i]
    OBVIOUS
  <2>4. f \in Int /\ g \in Int /\ r \in 0..(Base - 1) /\ s \in 0..(Base - 1) /\ r + Base * f = s + Base * g
    BY <1>2, <1>3, <1>4, <2>1, <2>2, <2>3
  <2>5. Base * f + r = Base * g + s
    BY <2>4, BaseIs
  <2>6. f = g /\ r = s
    BY <2>4, <2>5, BaseIs, DivUnique
  <2>7. F[i + 1] = G[i + 1] /\ a[i] = b[i]
    BY <2>3, <2>6
  <2>8. i \in 0..N
    BY <1>7
  <2> QED
    BY <2>7, <2>8
<1> HIDE DEF S
<1>10. \A i \in 0..N : i \in S
  BY <1>7, <1>8, <1>9, UpTo
<1>11. \A i \in 1..N : a[i] = b[i]
  BY <1>7, <1>10 DEF S
<1>12. F[N + 1] = G[N + 1]
  <2>1. N \in S
    BY <1>7, <1>10
  <2> QED
    BY <2>1 DEF S
<1>13. Len(a) = Len(b)
  <2>1. CASE N = Len(a) /\ N < Len(b)
    <3>1. N + 1 \in 1..Len(b) /\ F[N + 1] = 0
      BY <1>2, <1>3, <2>1
    <3> QED
      BY <1>5, <1>12, <3>1
  <2>2. CASE N = Len(b) /\ N < Len(a)
    <3>1. N + 1 \in 1..Len(a) /\ G[N + 1] = 0
      BY <1>2, <1>4, <2>2
    <3> QED
      BY <1>5, <1>12, <3>1
  <2> QED
    BY <1>2, <1>7, <2>1, <2>2
<1> QED
  BY <1>2, <1>7, <1>11, <1>13

-------------------------------------------------------------------------------
(* Trimming, comparing and peeling off limbs *)

\* Trimming drops zero limbs on top and keeps the value (lines 24-28).
LEMMA TrimIs ==
    ASSUME NEW m \in LimbSeq
    PROVE  /\ Trim(m) \in LimbSeq /\ Trimmed(Trim(m)) /\ Magnitude(Trim(m)) = Magnitude(m)
           /\ Len(Trim(m)) <= Len(m)
           /\ Trimmed(m) => Trim(m) = m
<1>1. /\ Len(m) \in Nat /\ m \in Seq(Int) /\ DOMAIN m = 1..Len(m)
      /\ \A i \in 1..Len(m) : m[i] \in 0..(Base - 1)
  BY LimbSeqIs
<1>2. PICK S, t : S = {0} \cup {i \in DOMAIN m : m[i] # 0} /\ t = Max(S)
  OBVIOUS
<1>3. S \in SUBSET (0..Len(m)) /\ S # {}
  BY <1>1, <1>2
<1>4. t \in S /\ \A k \in S : k <= t
  BY <1>1, <1>2, <1>3, LargestIs
<1>5. t \in 0..Len(m) /\ (t # 0 => m[t] # 0) /\ \A i \in (t + 1)..Len(m) : m[i] = 0
  <2>1. t \in 0..Len(m)
    BY <1>3, <1>4
  <2>2. ASSUME NEW i \in (t + 1)..Len(m), m[i] # 0
        PROVE  FALSE
    <3>1. i \in S /\ i > t
      BY <1>1, <1>2, <2>1, <2>2
    <3> QED
      BY <1>4, <2>1, <3>1
  <2> QED
    BY <1>2, <1>4, <2>1, <2>2
<1>6. PICK r : r = Trim(m)
  OBVIOUS
<1>7. r = SubSeq(m, 1, t)
  BY <1>2, <1>6 DEF Trim
<1>8. r = [i \in 1..t |-> m[i]] /\ Len(r) = t /\ t \in Nat
  <2>1. t \in Nat /\ t <= Len(m)
    BY <1>1, <1>5
  <2>2. \A i \in 1..t : i \in 1..Len(m)
    BY <1>1, <2>1
  <2> QED
    BY <1>1, <1>7, <2>1, <2>2
<1>9. r \in LimbSeq
  <2>1. \A i \in 1..t : m[i] \in 0..(Base - 1)
    BY <1>1, <1>5
  <2> QED
    BY <1>8, <2>1 DEF LimbSeq
<1>10. Trimmed(r)
  BY <1>5, <1>8 DEF Trimmed
<1>11. Magnitude(r) = Magnitude(m)
  <2>1. r \in Seq(Int) /\ Len(r) <= Len(m)
    BY <1>1, <1>5, <1>8, <1>9, LimbSeqIs
  <2>2. /\ \A i \in 1..Len(r) : m[i] = r[i]
        /\ \A i \in (Len(r) + 1)..Len(m) : m[i] = 0
    BY <1>5, <1>8
  <2>3. \A i \in 1..(Len(r) + 1) : ValuesFrom(m)[i] = ValuesFrom(r)[i]
    BY <1>1, <2>1, <2>2, PaddedSame
  <2>4. 1 \in 1..(Len(r) + 1)
    BY <1>8
  <2> QED
    BY <2>3, <2>4 DEF Magnitude
<1>12. Trimmed(m) => r = m
  <2>1. ASSUME Trimmed(m), t # Len(m)
        PROVE  FALSE
    <3> Len(m) \in Nat /\ t \in 0..Len(m) /\ t # Len(m)
      BY <1>1, <1>5, <2>1
    <3>1. Len(m) \in (t + 1)..Len(m) /\ Len(m) # 0
      OBVIOUS
    <3>2. m # <<>>
      BY <3>1
    <3> QED
      BY <1>5, <2>1, <3>1, <3>2 DEF Trimmed
  <2>2. t = Len(m) => r = m
    BY <1>1, <1>8
  <2> QED
    BY <2>1, <2>2
<1> QED
  BY <1>1, <1>5, <1>6, <1>8, <1>9, <1>10, <1>11, <1>12

\* Only the empty magnitude is worth nothing.
LEMMA NoLimbs ==
    /\ <<>> \in LimbSeq /\ Trimmed(<<>>) /\ Magnitude(<<>>) = 0
    /\ \A m \in LimbSeq : Trimmed(m) => (Magnitude(m) = 0 <=> m = <<>>)
<1>1. <<>> \in LimbSeq /\ Trimmed(<<>>) /\ <<>> \in Seq(Int) /\ Len(<<>>) = 0
  BY DEF LimbSeq, Trimmed
<1>2. Magnitude(<<>>) = 0
  <2>1. PICK e : e = <<>>
    OBVIOUS
  <2>2. e \in Seq(Int) /\ Len(e) = 0
    BY <2>1
  <2>3. ValuesFrom(e)[Len(e) + 1] = 0
    BY <2>2, ValuesFromIs
  <2>4. ValuesFrom(e)[1] = 0
    BY <2>2, <2>3
  <2> QED
    BY <2>1, <2>4 DEF Magnitude
<1>3. ASSUME NEW m \in LimbSeq, Trimmed(m), m # <<>>
      PROVE  Magnitude(m) # 0
  <2>1. 1 \in 1..Len(m)
    BY <1>3, LimbSeqIs DEF LimbSeq
  <2> QED
    BY <1>3, <2>1, TrimmedWorth DEF Magnitude
<1> QED
  BY <1>1, <1>2, <1>3

\* A limb put below the others counts once, they count Base times.
LEMMA Prepended ==
    ASSUME NEW m \in LimbSeq, NEW l \in 0..(Base - 1)
    PROVE  /\ <<l>> \o m \in LimbSeq
           /\ Magnitude(<<l>> \o m) = l + Base * Magnitude(m)
           /\ Trimmed(m) /\ (m # <<>> \/ l # 0) => Trimmed(<<l>> \o m)
<1>1. PICK r : r = <<l>> \o m
  OBVIOUS
<1>2. Len(m) \in Nat /\ m \in Seq(Int) /\ \A i \in 1..Len(m) : m[i] \in 0..(Base - 1)
  BY LimbSeqIs
<1>3. Len(r) = Len(m) + 1 /\ r[1] = l /\ \A i \in 1..Len(m) : r[1 + i] = m[i]
  BY <1>1, <1>2
<1>4. r \in LimbSeq
  <2>1. <<l>> \in Seq(0..(Base - 1)) /\ m \in Seq(0..(Base - 1))
    BY DEF LimbSeq
  <2> QED
    BY <1>1, <2>1 DEF LimbSeq
<1>5. r \in Seq(Int)
  BY <1>4, LimbSeqIs
<1>6. \A i \in 1..(Len(m) + 1) : ValuesFrom(r)[1 + i] = ValuesFrom(m)[i]
  BY <1>2, <1>3, <1>5, SuffixSame
<1>7. ValuesFrom(r)[1] = l + Base * ValuesFrom(m)[1]
  <2>1. 1 \in 1..Len(r) /\ 1 + 1 = 2 /\ 1 \in 1..(Len(m) + 1)
    BY <1>2, <1>3
  <2>2. ValuesFrom(r)[1] = r[1] + Base * ValuesFrom(r)[1 + 1]
    BY <1>5, <2>1, ValuesFromIs
  <2> QED
    BY <1>3, <1>6, <2>1, <2>2
<1>8. ASSUME Trimmed(m), m # <<>> \/ l # 0
      PROVE  Trimmed(r)
  <2>1. CASE m = <<>>
    <3>1. Len(r) = 1 /\ r[1] # 0
      BY <1>3, <1>8, <2>1
    <3> QED
      BY <3>1 DEF Trimmed
  <2>2. CASE m # <<>>
    <3>1. Len(m) \in 1..Len(m) /\ m[Len(m)] # 0
      BY <1>2, <1>8, <2>2 DEF Trimmed, LimbSeq
    <3>2. r[1 + Len(m)] = m[Len(m)] /\ 1 + Len(m) = Len(r)
      BY <1>2, <1>3, <3>1
    <3> QED
      BY <3>1, <3>2 DEF Trimmed
  <2> QED
    BY <2>1, <2>2
<1> QED
  BY <1>1, <1>4, <1>7, <1>8 DEF Magnitude

\* The limbs peeled off a number are its one form.
LEMMA LimbsOfIs ==
    ASSUME NEW k \in Nat
    PROVE  LimbsOf(k) \in LimbSeq /\ Trimmed(LimbsOf(k)) /\ Magnitude(LimbsOf(k)) = k
<1> DEFINE Body(f) == [l \in 0..k |-> IF l = 0 THEN <<>> ELSE <<l % Base>> \o f[l \div Base]]
<1>1. \A l \in 1..k : l \div Base \in 0..(l - 1) /\ l % Base \in 0..(Base - 1)
  <2> TAKE l \in 1..k
  <2>1. l \in Nat /\ l < Base * l /\ l \in Int
    BY BaseIs
  <2>2. l \div Base \in Nat /\ l \div Base < l
    BY <2>1, BaseIs, DivRange
  <2>3. l % Base \in 0..(Base - 1)
    BY <2>1, BaseIs, DivMod
  <2> QED
    BY <2>2, <2>3
<1>2. PICK prev : prev = [l \in 1..k |-> l \div Base]
  OBVIOUS
<1>3. prev \in [1..k -> Nat]
  <2>1. \A l \in 1..k : l \div Base \in Nat
    BY <1>1
  <2> QED
    BY <1>2, <2>1
<1>4. \A l \in 1..k : prev[l] = l \div Base /\ prev[l] < l
  <2> TAKE l \in 1..k
  <2>1. PICK p : p = l \div Base
    OBVIOUS
  <2>2. p \in 0..(l - 1) /\ prev[l] = p
    BY <1>1, <1>2, <2>1
  <2> QED
    BY <2>1, <2>2
<1>5. PICK step : step = [p \in (1..k) \X LimbSeq |-> <<p[1] % Base>> \o p[2]]
  OBVIOUS
<1>6. \A l \in 1..k, m \in LimbSeq : step[<<l, m>>] = <<l % Base>> \o m /\ step[<<l, m>>] \in LimbSeq
  <2> TAKE l \in 1..k, m \in LimbSeq
  <2>1. step[<<l, m>>] = <<l % Base>> \o m
    BY <1>5
  <2>2. <<l % Base>> \o m \in LimbSeq
    BY <1>1, Prepended
  <2> QED
    BY <2>1, <2>2
<1>7. step \in [(1..k) \X LimbSeq -> LimbSeq]
  <2>1. \A p \in (1..k) \X LimbSeq : step[p] \in LimbSeq
    <3> TAKE p \in (1..k) \X LimbSeq
    <3>1. PICK l \in 1..k, m \in LimbSeq : p = <<l, m>>
      OBVIOUS
    <3> QED
      BY <1>6, <3>1
  <2> QED
    BY <1>5, <2>1
<1>8. PICK F : Descends(F, k, LimbSeq, <<>>, prev, step)
  <2>1. <<>> \in LimbSeq /\ \A l \in 1..k : prev[l] < l
    BY <1>4, NoLimbs
  <2> QED
    BY <1>3, <1>7, <2>1, Descended
<1>9. F = Body(F)
  <2>1. F \in [0..k -> LimbSeq] /\ F[0] = <<>>
    BY <1>8 DEF Descends
  <2>2. ASSUME NEW l \in 1..k
        PROVE  F[l] = <<l % Base>> \o F[l \div Base]
    <3>1. l \div Base \in 0..k
      <4>1. PICK p : p = l \div Base
        OBVIOUS
      <4>2. p \in 0..(l - 1)
        BY <1>1, <4>1
      <4> QED
        BY <4>1, <4>2
    <3>2. F[l] = step[<<l, F[prev[l]]>>]
      BY <1>8 DEF Descends
    <3>3. prev[l] = l \div Base /\ F[l \div Base] \in LimbSeq
      BY <1>4, <2>1, <3>1
    <3> QED
      BY <1>6, <3>2, <3>3
  <2> QED
    BY <2>1, <2>2
<1>10. PICK G : G = CHOOSE f : f = Body(f)
  OBVIOUS
<1>11. G = Body(G)
  <2> HIDE DEF Body
  <2> QED
    BY <1>9, <1>10
<1>12. LimbsOf(k) = G[k]
  BY <1>10 DEF LimbsOf
<1>13. G[0] = <<>> /\ \A l \in 1..k : G[l] = <<l % Base>> \o G[l \div Base]
  <2>1. 0 \in 0..k /\ \A l \in 1..k : l \in 0..k /\ l # 0
    OBVIOUS
  <2>2. \A l \in 0..k : G[l] = IF l = 0 THEN <<>> ELSE <<l % Base>> \o G[l \div Base]
    BY <1>11, Zenon
  <2> QED
    BY <2>1, <2>2, Zenon
<1> DEFINE S == {l \in 0..k : G[l] \in LimbSeq /\ Trimmed(G[l]) /\ Magnitude(G[l]) = l}
<1>14. ASSUME NEW l \in 0..k, \A i \in 0..(l - 1) : i \in S
       PROVE  l \in S
  <2>1. CASE l = 0
    BY <1>13, <2>1, NoLimbs
  <2>2. CASE l # 0
    <3> l \in 1..k /\ l \in Int
      BY <2>2
    <3>1. PICK p \in Int, r \in 0..(Base - 1) : p = l \div Base /\ r = l % Base /\ l = Base * p + r
      BY BaseIs, DivMod
    <3>2. p \in 0..(l - 1)
      BY <1>1, <3>1
    <3>3. PICK m : m = G[p]
      OBVIOUS
    <3>4. m \in LimbSeq /\ Trimmed(m) /\ Magnitude(m) = p
      BY <1>14, <3>2, <3>3
    <3>5. G[l] = <<r>> \o m
      BY <1>13, <3>1, <3>3
    <3>6. m # <<>> \/ r # 0
      BY <2>2, <3>1, <3>4, NoLimbs, BaseIs
    <3>7. <<r>> \o m \in LimbSeq /\ Trimmed(<<r>> \o m) /\ Magnitude(<<r>> \o m) = r + Base * p
      BY <3>4, <3>6, Prepended
    <3>8. r + Base * p = l
      BY <3>1, BaseIs
    <3> QED
      BY <3>5, <3>7, <3>8
  <2> QED
    BY <2>1, <2>2
<1>15. \A l \in 0..k : l \in S
  <2> HIDE DEF S
  <2> QED
    BY <1>14, FromBelow
<1>16. k \in S
  <2> HIDE DEF S
  <2> QED
    BY <1>15
<1> QED
  BY <1>12, <1>16

\* What limbs are worth up to one and from it on.
LEMMA Windowed ==
    ASSUME NEW m \in Seq(Int), NEW k \in Nat, NEW w \in Seq(Int), k + Len(w) <= Len(m),
           \A i \in 1..Len(w) : m[k + i] = w[i]
    PROVE  ValuesFrom(m)[k + 1] = Magnitude(w) + Power(Base, Len(w)) * ValuesFrom(m)[k + Len(w) + 1]
<1>1. PICK N, F, G, X : N = Len(w) /\ F = ValuesFrom(m) /\ G = ValuesFrom(w) /\ X = F[k + N + 1]
  OBVIOUS
<1>2. N \in Nat /\ Len(m) \in Nat /\ k + N <= Len(m)
  BY <1>1
<1>3. /\ \A i \in 1..(Len(m) + 1) : F[i] \in Int
      /\ \A i \in 1..Len(m) : F[i] = m[i] + Base * F[i + 1]
  BY <1>1, ValuesFromIs
<1>4. /\ G[N + 1] = 0 /\ \A i \in 1..N : G[i] = w[i] + Base * G[i + 1]
      /\ \A i \in 1..(N + 1) : G[i] \in Int
  BY <1>1, ValuesFromIs
<1>5. X \in Int
  BY <1>1, <1>2, <1>3
<1> DEFINE S == {i \in 1..(N + 1) : F[k + i] = G[i] + Power(Base, (N + 1) - i) * X}
<1>6. N + 1 \in S
  <2>1. (N + 1) - (N + 1) = 0 /\ k + (N + 1) = k + N + 1 /\ N + 1 \in 1..(N + 1)
    BY <1>2
  <2>2. Power(Base, 0) = 1 /\ 1 * X = X
    BY <1>5, BaseIs, PowerIs
  <2> QED
    BY <1>1, <1>4, <1>5, <2>1, <2>2
<1>7. ASSUME NEW i \in 1..N, i + 1 \in S
      PROVE  i \in S
  <2>1. k + i \in 1..Len(m) /\ (k + i) + 1 = k + (i + 1) /\ i + 1 \in 1..(N + 1)
    BY <1>2
  <2>2. PICK P, g, l : P = Power(Base, (N + 1) - (i + 1)) /\ g = G[i + 1] /\ l = w[i]
    OBVIOUS
  <2>3. (N + 1) - (i + 1) \in Nat /\ ((N + 1) - (i + 1)) + 1 = (N + 1) - i
    BY <1>2
  <2>4. P \in Nat /\ Power(Base, (N + 1) - i) = Base * P
    BY <2>2, <2>3, BaseIs, PowerIs
  <2>5. g \in Int /\ l \in Int /\ m[k + i] = l /\ G[i] = l + Base * g
    BY <1>1, <1>4, <2>1, <2>2
  <2>6. F[k + i] = l + Base * (g + P * X)
    <3>1. F[k + i] = m[k + i] + Base * F[k + (i + 1)]
      BY <1>3, <2>1
    <3>2. F[k + (i + 1)] = g + P * X
      BY <1>7, <2>2
    <3> QED
      BY <2>5, <3>1, <3>2
  <2>7. Base * (g + P * X) = Base * g + (Base * P) * X
    BY <1>5, <2>4, <2>5, BaseIs
  <2>8. F[k + i] = G[i] + (Base * P) * X
    <3>1. Base * g \in Int /\ (Base * P) * X \in Int
      BY <1>5, <2>4, <2>5, BaseIs
    <3> QED
      BY <2>5, <2>6, <2>7, <3>1
  <2> QED
    BY <1>2, <2>4, <2>8
<1> HIDE DEF S
<1>8. \A i \in 1..(N + 1) : i \in S
  BY <1>2, <1>6, <1>7, DownFrom
<1>9. 1 \in S /\ (N + 1) - 1 = N
  BY <1>2, <1>8
<1> QED
  BY <1>1, <1>9 DEF S, Magnitude

\* A walk that writes a limb and passes a carry on at every step has written
\* what it read: X[i] is what it reads from limb i on.
LEMMA CarryWalk ==
    ASSUME NEW r \in Seq(Int), NEW N \in Nat, Len(r) = N,
           NEW X \in [1..(N + 1) -> Int], NEW c \in [0..N -> Int], X[N + 1] = 0,
           \A i \in 1..N : X[i] + c[i - 1] = r[i] + Base * (X[i + 1] + c[i])
    PROVE  X[1] + c[0] = Magnitude(r) + Power(Base, N) * c[N]
<1>1. PICK F, e : F = ValuesFrom(r) /\ e = c[N]
  OBVIOUS
<1>2. e \in Int
  BY <1>1
<1>3. /\ F[N + 1] = 0 /\ \A i \in 1..N : F[i] = r[i] + Base * F[i + 1]
      /\ \A i \in 1..(N + 1) : F[i] \in Int
  BY <1>1, ValuesFromIs
<1> DEFINE S == {i \in 1..(N + 1) : X[i] + c[i - 1] = F[i] + Power(Base, (N + 1) - i) * e}
<1>4. N + 1 \in S
  <2>1. (N + 1) - (N + 1) = 0 /\ (N + 1) - 1 = N /\ N + 1 \in 1..(N + 1)
    OBVIOUS
  <2>2. Power(Base, 0) = 1 /\ 1 * e = e
    BY <1>2, BaseIs, PowerIs
  <2> QED
    BY <1>1, <1>2, <1>3, <2>1, <2>2
<1>5. ASSUME NEW i \in 1..N, i + 1 \in S
      PROVE  i \in S
  <2>1. PICK P, g, l : P = Power(Base, (N + 1) - (i + 1)) /\ g = F[i + 1] /\ l = r[i]
    OBVIOUS
  <2>2. (N + 1) - (i + 1) \in Nat /\ ((N + 1) - (i + 1)) + 1 = (N + 1) - i /\ (i + 1) - 1 = i
    OBVIOUS
  <2>3. P \in Nat /\ Power(Base, (N + 1) - i) = Base * P
    BY <2>1, <2>2, BaseIs, PowerIs
  <2>4. g \in Int /\ l \in Int /\ F[i] = l + Base * g
    <3>1. i + 1 \in 1..(N + 1) /\ r[i] \in Int
      OBVIOUS
    <3> QED
      BY <1>3, <2>1, <3>1
  <2>5. X[i + 1] + c[i] = g + P * e
    BY <1>5, <2>1, <2>2
  <2>6. X[i] + c[i - 1] = l + Base * (g + P * e)
    BY <2>1, <2>5
  <2>7. Base * (g + P * e) = Base * g + (Base * P) * e
    BY <1>2, <2>3, <2>4, BaseIs
  <2>8. X[i] + c[i - 1] = F[i] + (Base * P) * e
    <3>1. Base * g \in Int /\ (Base * P) * e \in Int
      BY <1>2, <2>3, <2>4, BaseIs
    <3> QED
      BY <2>4, <2>6, <2>7, <3>1
  <2> QED
    BY <2>3, <2>8
<1> HIDE DEF S
<1>6. \A i \in 1..(N + 1) : i \in S
  BY <1>4, <1>5, DownFrom
<1>7. 1 \in S /\ (N + 1) - 1 = N /\ 1 - 1 = 0
  BY <1>6
<1> QED
  BY <1>1, <1>7 DEF S, Magnitude

\* Comparing limb by limb compares what the limbs are worth.
LEMMA CompareIs ==
    ASSUME NEW a \in LimbSeq, NEW b \in LimbSeq, Trimmed(a), Trimmed(b)
    PROVE  CompareMagnitudes(a, b) = Sign(Magnitude(a) - Magnitude(b))
<1>1. Magnitude(a) \in Nat /\ Magnitude(b) \in Nat
  BY WorthBelow
<1>2. /\ Len(a) \in Nat /\ Len(b) \in Nat /\ a \in Seq(Int) /\ b \in Seq(Int)
      /\ DOMAIN a = 1..Len(a) /\ DOMAIN b = 1..Len(b)
      /\ \A i \in 1..Len(a) : a[i] \in 0..(Base - 1)
      /\ \A i \in 1..Len(b) : b[i] \in 0..(Base - 1)
  BY LimbSeqIs
<1>3. ASSUME NEW s \in LimbSeq, NEW t \in LimbSeq, Trimmed(t), Len(s) < Len(t)
      PROVE  Magnitude(s) < Magnitude(t)
  <2>1. /\ Len(s) \in Nat /\ Len(t) \in Nat /\ t \in Seq(Int) /\ t \in Seq(Nat)
        /\ \A i \in 1..Len(t) : t[i] \in 0..(Base - 1)
    BY LimbSeqIs
  <2>2. PICK k : k = Len(t) - 1
    OBVIOUS
  <2>3. k \in Nat /\ Len(s) <= k /\ k + 1 = Len(t) /\ 1 + k = Len(t) /\ Len(t) \in 1..Len(t)
        /\ 1 \in 1..(Len(t) + 1) /\ 1 + k <= Len(t) + 1 /\ \A i \in 1..(1 + k - 1) : i \in 1..Len(t)
    BY <1>3, <2>1, <2>2
  <2>4. PICK low \in 0..(Power(Base, k) - 1) : ValuesFrom(t)[1] = low + Power(Base, k) * ValuesFrom(t)[1 + k]
    BY <2>1, <2>3, SplitAt
  <2>5. PICK P, f, z : P = Power(Base, k) /\ f = ValuesFrom(t)[1 + k] /\ z = Power(Base, Len(s))
    OBVIOUS
  <2>6. f \in Nat \ {0}
    BY <1>3, <2>3, <2>5, TrimmedWorth
  <2>7. P \in Nat /\ z \in Nat /\ z <= P /\ Magnitude(s) < z /\ Magnitude(s) \in Nat
    BY <2>1, <2>3, <2>5, BaseIs, PowerIs, PowerGrows, WorthBelow
  <2>8. P * 1 <= P * f
    BY <2>6, <2>7, ProductOrder
  <2>9. ValuesFrom(t)[1] = low + P * f /\ low \in Nat
    BY <2>4, <2>5, <2>7
  <2> QED
    BY <2>6, <2>7, <2>8, <2>9 DEF Magnitude
<1>4. CASE Len(a) # Len(b)
  <2>1. CompareMagnitudes(a, b) = Sign(Len(a) - Len(b))
    BY <1>4 DEF CompareMagnitudes
  <2>2. Len(a) \in Nat /\ Len(b) \in Nat /\ (Len(a) < Len(b) \/ Len(b) < Len(a))
    <3>1. Len(a) \in Nat
      BY <1>2
    <3>2. Len(b) \in Nat
      BY <1>2
    <3>3. \A k, l \in Nat : k # l => k < l \/ l < k
      OBVIOUS
    <3> QED
      BY <1>4, <3>1, <3>2, <3>3
  <2>3. CASE Len(a) < Len(b)
    <3>1. Magnitude(a) < Magnitude(b)
      BY <1>3, <2>3
    <3>2. Sign(Len(a) - Len(b)) = -1 /\ Sign(Magnitude(a) - Magnitude(b)) = -1
      BY <1>1, <2>2, <2>3, <3>1 DEF Sign
    <3> QED
      BY <2>1, <3>2
  <2>4. CASE Len(b) < Len(a)
    <3>1. Magnitude(b) < Magnitude(a)
      BY <1>3, <2>4
    <3>2. Sign(Len(a) - Len(b)) = 1 /\ Sign(Magnitude(a) - Magnitude(b)) = 1
      BY <1>1, <2>2, <2>4, <3>1 DEF Sign
    <3> QED
      BY <2>1, <3>2
  <2> QED
    BY <2>2, <2>3, <2>4
<1>5. CASE Len(a) = Len(b)
  <2>1. PICK D, N : D = {i \in DOMAIN a : a[i] # Limb(b, i)} /\ N = Len(a)
    OBVIOUS
  <2>2. N \in Nat /\ N = Len(b) /\ D = {i \in 1..N : a[i] # b[i]}
    BY <1>2, <1>5, <2>1 DEF Limb
  <2>3. CASE D = {}
    <3>1. CompareMagnitudes(a, b) = 0
      BY <1>5, <2>1, <2>3 DEF CompareMagnitudes
    <3>2. \A i \in 1..N : a[i] = b[i]
      BY <2>2, <2>3
    <3>3. a = b
      BY <1>2, <2>1, <2>2, <3>2
    <3> QED
      BY <1>1, <3>1, <3>3 DEF Sign
  <2>4. CASE D # {}
    <3>1. PICK t : t = Max(D)
      OBVIOUS
    <3>2. t \in D /\ \A k \in D : k <= t
      <4>1. D \in SUBSET (0..N)
        BY <2>2
      <4> QED
        BY <2>2, <2>4, <3>1, <4>1, LargestIs
    <3>3. t \in 1..N /\ a[t] # b[t] /\ \A i \in (t + 1)..N : a[i] = b[i]
      BY <2>2, <3>2
    <3>4. CompareMagnitudes(a, b) = Sign(a[t] - b[t])
      <4>1. CompareMagnitudes(a, b) = Sign(a[t] - b[t])
        BY <1>5, <2>1, <2>4, <3>1 DEF CompareMagnitudes, Limb
      <4> QED
        BY <4>1
    <3>5. ASSUME NEW r \in LimbSeq, NEW s \in LimbSeq, Len(r) = N, Len(s) = N, r[t] < s[t],
                 \A i \in (t + 1)..N : r[i] = s[i]
          PROVE  Magnitude(r) < Magnitude(s)
      <4>1. PICK F, G : F = ValuesFrom(r) /\ G = ValuesFrom(s)
        OBVIOUS
      <4>2. /\ r \in Seq(Int) /\ s \in Seq(Int)
            /\ \A i \in 1..N : r[i] \in 0..(Base - 1) /\ s[i] \in 0..(Base - 1)
        BY <3>5, LimbSeqIs
      <4>3. /\ F[N + 1] = 0 /\ \A i \in 1..N : F[i] = r[i] + Base * F[i + 1]
            /\ \A i \in 1..(N + 1) : F[i] \in Int
        BY <3>5, <4>1, <4>2, ValuesFromIs
      <4>4. /\ G[N + 1] = 0 /\ \A i \in 1..N : G[i] = s[i] + Base * G[i + 1]
            /\ \A i \in 1..(N + 1) : G[i] \in Int
        BY <3>5, <4>1, <4>2, ValuesFromIs
      <4> DEFINE S == {i \in 1..(N + 1) : IF i > t THEN F[i] = G[i] ELSE F[i] < G[i]}
      <4>5. N + 1 \in S
        BY <2>2, <3>3, <4>3, <4>4
      <4>6. ASSUME NEW i \in 1..N, i + 1 \in S
            PROVE  i \in S
        <5>1. i + 1 \in 1..(N + 1) /\ i \in 1..(N + 1)
          BY <2>2
        <5>2. PICK f, g, k, l : f = F[i + 1] /\ g = G[i + 1] /\ k = r[i] /\ l = s[i]
          OBVIOUS
        <5>3. f \in Int /\ g \in Int /\ k \in 0..(Base - 1) /\ l \in 0..(Base - 1)
              /\ F[i] = k + Base * f /\ G[i] = l + Base * g
          BY <4>2, <4>3, <4>4, <5>1, <5>2
        <5>4. CASE i > t
          <6>1. i + 1 > t /\ f = g /\ k = l
            BY <2>2, <3>3, <3>5, <4>6, <5>1, <5>2, <5>4
          <6> QED
            BY <5>1, <5>3, <5>4, <6>1
        <5>5. CASE i = t
          <6>1. i + 1 > t /\ f = g /\ k < l
            BY <2>2, <3>3, <3>5, <4>6, <5>1, <5>2, <5>5
          <6>2. k + Base * f < l + Base * g
            BY <5>3, <6>1, BaseIs
          <6> QED
            BY <3>3, <5>1, <5>3, <5>5, <6>2
        <5>6. CASE i < t
          <6>1. ~(i + 1 > t) /\ f < g
            BY <2>2, <3>3, <4>6, <5>1, <5>2, <5>6
          <6>2. PICK h : h = g - f
            OBVIOUS
          <6>3. h \in Nat /\ 1 <= h /\ g = f + h
            BY <5>3, <6>1, <6>2
          <6>4. Base * 1 <= Base * h
            BY <6>3, BaseIs, ProductOrder
          <6>5. Base * g = Base * f + Base * h
            BY <5>3, <6>3, BaseIs
          <6>6. k + Base * f < l + Base * g
            BY <5>3, <6>3, <6>4, <6>5, BaseIs
          <6> QED
            BY <3>3, <5>1, <5>3, <5>6, <6>6
        <5> QED
          BY <2>2, <3>3, <5>4, <5>5, <5>6
      <4> HIDE DEF S
      <4>7. \A i \in 1..(N + 1) : i \in S
        BY <2>2, <4>5, <4>6, DownFrom
      <4>8. 1 \in S /\ ~(1 > t)
        BY <2>2, <3>3, <4>7
      <4> QED
        BY <4>1, <4>8 DEF S, Magnitude
    <3>6. a[t] \in 0..(Base - 1) /\ b[t] \in 0..(Base - 1)
      BY <1>2, <2>1, <2>2, <3>3
    <3>7. CASE a[t] < b[t]
      <4>1. Magnitude(a) < Magnitude(b)
        BY <2>1, <2>2, <3>3, <3>5, <3>7
      <4> QED
        BY <1>1, <3>4, <3>6, <3>7, <4>1, BaseIs DEF Sign
    <3>8. CASE b[t] < a[t]
      <4>1. Magnitude(b) < Magnitude(a)
        <5>1. \A i \in (t + 1)..N : b[i] = a[i]
          BY <3>3
        <5> QED
          BY <2>1, <2>2, <3>5, <3>8, <5>1
      <4> QED
        BY <1>1, <3>4, <3>6, <3>8, <4>1, BaseIs DEF Sign
    <3> QED
      BY <3>3, <3>6, <3>7, <3>8, BaseIs
  <2> QED
    BY <2>3, <2>4
<1> QED
  BY <1>4, <1>5

-------------------------------------------------------------------------------
(* Sums and differences of magnitudes *)

\* The limbs of a sequence with zeros above, up to a length.
PaddedTo(m, N) == [i \in 1..N |-> Limb(m, i)]

\* Padding a magnitude keeps its value.
LEMMA PaddedToIs ==
    ASSUME NEW m \in LimbSeq, NEW N \in Nat, Len(m) <= N
    PROVE  /\ PaddedTo(m, N) \in LimbSeq /\ Len(PaddedTo(m, N)) = N
           /\ Magnitude(PaddedTo(m, N)) = Magnitude(m)
           /\ \A i \in 1..N : PaddedTo(m, N)[i] = Limb(m, i)
<1>1. PICK r : r = PaddedTo(m, N)
  OBVIOUS
<1>2. /\ Len(m) \in Nat /\ DOMAIN m = 1..Len(m) /\ m \in Seq(Int)
      /\ \A i \in 1..Len(m) : m[i] \in 0..(Base - 1)
  BY LimbSeqIs
<1>3. \A i \in 1..N : Limb(m, i) \in 0..(Base - 1)
  BY <1>2, BaseIs DEF Limb
<1>4. r = [i \in 1..N |-> Limb(m, i)] /\ r \in LimbSeq /\ Len(r) = N
  <2>1. r = [i \in 1..N |-> Limb(m, i)]
    BY <1>1 DEF PaddedTo
  <2>2. r \in [1..N -> 0..(Base - 1)]
    BY <1>3, <2>1
  <2>3. r \in Seq(0..(Base - 1)) /\ Len(r) = N
    BY <2>1, <2>2
  <2> QED
    BY <2>1, <2>3 DEF LimbSeq
<1>5. \A i \in 1..N : r[i] = Limb(m, i)
  BY <1>4
<1>6. /\ \A i \in 1..Len(m) : r[i] = m[i]
      /\ \A i \in (Len(m) + 1)..Len(r) : r[i] = 0
  <2>1. \A i \in 1..Len(m) : i \in 1..N
    BY <1>2
  <2>2. \A i \in (Len(m) + 1)..N : i \in 1..N /\ i \notin 1..Len(m)
    BY <1>2
  <2> QED
    BY <1>2, <1>4, <1>5, <2>1, <2>2 DEF Limb
<1>7. r \in Seq(Int) /\ Len(m) <= Len(r) /\ 1 \in 1..(Len(m) + 1)
  BY <1>2, <1>4, LimbSeqIs
<1>8. Magnitude(r) = Magnitude(m)
  BY <1>2, <1>6, <1>7, PaddedSame DEF Magnitude
<1> QED
  BY <1>1, <1>4, <1>5, <1>8

\* The carries of a sum are 0 or 1.
LEMMA SumCarriesIs ==
    ASSUME NEW a \in LimbSeq, NEW b \in LimbSeq, NEW N, N = Larger(Len(a), Len(b))
    PROVE  /\ N \in Nat /\ Len(a) <= N /\ Len(b) <= N
           /\ SumCarries(a, b) \in [0..N -> {0, 1}] /\ SumCarries(a, b)[0] = 0
           /\ \A i \in 1..N : SumCarries(a, b)[i] =
                 IF Limb(a, i) + Limb(b, i) + SumCarries(a, b)[i - 1] >= Base THEN 1 ELSE 0
<1>1. N \in Nat /\ Len(a) <= N /\ Len(b) <= N
  BY LimbSeqIs DEF Larger
<1> DEFINE Body(f) == [i \in 0..N |-> IF i = 0 THEN 0
                         ELSE IF Limb(a, i) + Limb(b, i) + f[i - 1] >= Base THEN 1 ELSE 0]
<1>2. PICK step : step = [p \in (1..N) \X {0, 1} |-> IF Limb(a, p[1]) + Limb(b, p[1]) + p[2] >= Base THEN 1 ELSE 0]
  OBVIOUS
<1>3. step \in [(1..N) \X {0, 1} -> {0, 1}]
  BY <1>2
<1>4. \A i \in 1..N, c \in {0, 1} : step[<<i, c>>] = IF Limb(a, i) + Limb(b, i) + c >= Base THEN 1 ELSE 0
  BY <1>2
<1>5. PICK F : GoesUp(F, N, {0, 1}, 0, step)
  BY <1>1, <1>3, DefinedUp
<1>6. F = Body(F)
  <2>1. F \in [0..N -> {0, 1}] /\ F[0] = 0 /\ \A i \in 1..N : F[i] = step[<<i, F[i - 1]>>]
    BY <1>5 DEF GoesUp
  <2>2. \A i \in 1..N : i - 1 \in 0..N
    BY <1>1
  <2>3. \A i \in 1..N : F[i] = IF Limb(a, i) + Limb(b, i) + F[i - 1] >= Base THEN 1 ELSE 0
    BY <1>4, <2>1, <2>2
  <2> QED
    BY <2>1, <2>3
<1>7. PICK G : G = SumCarries(a, b)
  OBVIOUS
<1>8. G = Body(G)
  <2>1. G = CHOOSE f : f = Body(f)
    BY <1>7 DEF SumCarries
  <2> HIDE DEF Body
  <2> QED
    BY <1>6, <2>1
<1>9. G[0] = 0 /\ \A i \in 1..N : G[i] = IF Limb(a, i) + Limb(b, i) + G[i - 1] >= Base THEN 1 ELSE 0
  BY <1>1, <1>8
<1>10. G \in [0..N -> {0, 1}]
  BY <1>1, <1>8, <1>9
<1> QED
  BY <1>1, <1>7, <1>9, <1>10

\* The limbs of a sum and its carry.
LEMMA SumIs ==
    ASSUME NEW a \in LimbSeq, NEW b \in LimbSeq, NEW N, N = Larger(Len(a), Len(b))
    PROVE  /\ Sum(a, b).limbs \in LimbSeq /\ Len(Sum(a, b).limbs) = N /\ N \in Nat
           /\ Sum(a, b).carry \in {0, 1}
           /\ Magnitude(a) + Magnitude(b) =
                 Magnitude(Sum(a, b).limbs) + Power(Base, N) * Sum(a, b).carry
<1>1. PICK c : c = SumCarries(a, b)
  OBVIOUS
<1>2. /\ N \in Nat /\ Len(a) <= N /\ Len(b) <= N
      /\ c \in [0..N -> {0, 1}] /\ c[0] = 0
      /\ \A i \in 1..N : c[i] = IF Limb(a, i) + Limb(b, i) + c[i - 1] >= Base THEN 1 ELSE 0
  BY <1>1, SumCarriesIs
<1>3. PICK A, B : A = PaddedTo(a, N) /\ B = PaddedTo(b, N)
  OBVIOUS
<1>4. /\ A \in LimbSeq /\ Len(A) = N /\ Magnitude(A) = Magnitude(a)
      /\ \A i \in 1..N : A[i] = Limb(a, i)
  BY <1>2, <1>3, PaddedToIs
<1>5. /\ B \in LimbSeq /\ Len(B) = N /\ Magnitude(B) = Magnitude(b)
      /\ \A i \in 1..N : B[i] = Limb(b, i)
  BY <1>2, <1>3, PaddedToIs
<1>6. \A i \in 1..N : A[i] \in 0..(Base - 1) /\ B[i] \in 0..(Base - 1) /\ c[i] \in {0, 1} /\ c[i - 1] \in {0, 1}
  <2> TAKE i \in 1..N
  <2>1. i \in 0..N /\ i - 1 \in 0..N
    BY <1>2
  <2>2. A[i] \in 0..(Base - 1) /\ B[i] \in 0..(Base - 1)
    BY <1>4, <1>5, LimbSeqIs
  <2>3. c[i] \in {0, 1} /\ c[i - 1] \in {0, 1}
    BY <1>2, <2>1
  <2> QED
    BY <2>2, <2>3
<1>7. PICK r : r = [i \in 1..N |-> Limb(a, i) + Limb(b, i) + c[i - 1] - Base * c[i]]
  OBVIOUS
<1>8. Sum(a, b).limbs = r /\ Sum(a, b).carry = c[N]
  BY <1>1, <1>7 DEF Sum
<1>9. \A i \in 1..N : r[i] \in 0..(Base - 1) /\ r[i] = A[i] + B[i] + c[i - 1] - Base * c[i]
  <2> TAKE i \in 1..N
  <2>1. PICK k, l, e, f, t : k = A[i] /\ l = B[i] /\ e = c[i - 1] /\ f = c[i] /\ t = r[i]
    OBVIOUS
  <2>2. k \in 0..(Base - 1) /\ l \in 0..(Base - 1) /\ e \in {0, 1} /\ f = IF k + l + e >= Base THEN 1 ELSE 0
    BY <1>2, <1>4, <1>5, <1>6, <2>1
  <2>3. t = k + l + e - Base * f
    BY <1>4, <1>5, <1>7, <2>1
  <2>4. t \in 0..(Base - 1)
    BY <2>2, <2>3, BaseIs
  <2> QED
    BY <2>1, <2>3, <2>4
<1>10. r \in LimbSeq /\ Len(r) = N
  <2>1. r \in [1..N -> 0..(Base - 1)] /\ N \in Nat
    BY <1>2, <1>7, <1>9
  <2> QED
    BY <2>1, LimbFunction
<1>11. PICK F, G : F = ValuesFrom(A) /\ G = ValuesFrom(B)
  OBVIOUS
<1>12. /\ F[N + 1] = 0 /\ \A i \in 1..N : F[i] = A[i] + Base * F[i + 1]
       /\ \A i \in 1..(N + 1) : F[i] \in Int
  BY <1>4, <1>11, ValuesFromIs, LimbSeqIs
<1>13. /\ G[N + 1] = 0 /\ \A i \in 1..N : G[i] = B[i] + Base * G[i + 1]
       /\ \A i \in 1..(N + 1) : G[i] \in Int
  BY <1>5, <1>11, ValuesFromIs, LimbSeqIs
<1>14. PICK X : X = [i \in 1..(N + 1) |-> F[i] + G[i]]
  OBVIOUS
<1>15. X \in [1..(N + 1) -> Int] /\ X[N + 1] = 0
  <2>1. N + 1 \in 1..(N + 1) /\ 0 + 0 = 0
    BY <1>2
  <2>2. X[N + 1] = 0
    BY <1>12, <1>13, <1>14, <2>1
  <2>3. X \in [1..(N + 1) -> Int]
    BY <1>12, <1>13, <1>14
  <2> QED
    BY <2>2, <2>3
<1>16. \A i \in 1..N : X[i] + c[i - 1] = r[i] + Base * (X[i + 1] + c[i])
  <2> TAKE i \in 1..N
  <2>1. i \in 1..(N + 1) /\ i + 1 \in 1..(N + 1)
    BY <1>2
  <2>2. PICK k, l, e, h, t, f, g : /\ k = A[i] /\ l = B[i] /\ e = c[i - 1] /\ h = c[i] /\ t = r[i]
                                   /\ f = F[i + 1] /\ g = G[i + 1]
    OBVIOUS
  <2>3. k \in Int /\ l \in Int /\ e \in Int /\ h \in Int /\ f \in Int /\ g \in Int /\ t = k + l + e - Base * h
    BY <1>6, <1>9, <1>12, <1>13, <2>1, <2>2
  <2>4. X[i] = (k + Base * f) + (l + Base * g) /\ X[i + 1] = f + g
    BY <1>12, <1>13, <1>14, <2>1, <2>2
  <2>5. ((k + Base * f) + (l + Base * g)) + e = (k + l + e - Base * h) + Base * ((f + g) + h)
    BY <2>3, BaseIs
  <2> QED
    BY <2>2, <2>3, <2>4, <2>5
<1>17. X[1] + c[0] = Magnitude(r) + Power(Base, N) * c[N]
  <2>1. r \in Seq(Int) /\ c \in [0..N -> Int]
    BY <1>2, <1>10, LimbSeqIs
  <2> QED
    BY <1>2, <1>10, <1>15, <1>16, <2>1, CarryWalk
<1>18. X[1] = Magnitude(a) + Magnitude(b)
  <2>1. 1 \in 1..(N + 1)
    BY <1>2
  <2> QED
    BY <1>4, <1>5, <1>11, <1>14, <2>1 DEF Magnitude
<1>19. X[1] + c[0] = X[1]
  <2>1. X[1] \in Int /\ c[0] = 0
    BY <1>2, <1>15
  <2> QED
    BY <2>1
<1>20. c[N] \in {0, 1}
  BY <1>2
<1> QED
  BY <1>2, <1>8, <1>10, <1>17, <1>18, <1>19, <1>20

\* A limb put above the others counts Base to the number of them.
LEMMA Appended ==
    ASSUME NEW m \in LimbSeq, NEW l \in 0..(Base - 1)
    PROVE  /\ Append(m, l) \in LimbSeq /\ Len(Append(m, l)) = Len(m) + 1
           /\ Magnitude(Append(m, l)) = Magnitude(m) + Power(Base, Len(m)) * l
<1>1. PICK r, N : r = Append(m, l) /\ N = Len(m)
  OBVIOUS
<1>2. N \in Nat /\ m \in Seq(Int) /\ l \in Int
  BY <1>1, LimbSeqIs, BaseIs
<1>3. r \in LimbSeq
  <2>1. m \in Seq(0..(Base - 1))
    BY DEF LimbSeq
  <2> QED
    BY <1>1, <2>1 DEF LimbSeq
<1>4. r \in Seq(Int) /\ Len(r) = N + 1 /\ r[N + 1] = l /\ \A i \in 1..N : r[i] = m[i]
  BY <1>1, <1>2
<1>5. ValuesFrom(r)[N + 1] = l
  <2>1. N + 1 \in 1..Len(r)
    BY <1>2, <1>4
  <2>2. ValuesFrom(r)[Len(r) + 1] = 0 /\ ValuesFrom(r)[N + 1] = r[N + 1] + Base * ValuesFrom(r)[(N + 1) + 1]
    BY <1>4, <2>1, ValuesFromIs
  <2>3. ValuesFrom(r)[N + 1] = l + Base * 0
    BY <1>4, <2>2
  <2> QED
    BY <1>2, <2>3, BaseIs
<1>6. ValuesFrom(r)[0 + 1] = Magnitude(m) + Power(Base, Len(m)) * ValuesFrom(r)[0 + Len(m) + 1]
  <2>1. 0 \in Nat /\ 0 + Len(m) <= Len(r) /\ \A i \in 1..Len(m) : r[0 + i] = m[i]
    BY <1>1, <1>2, <1>4
  <2> QED
    BY <1>2, <1>4, <2>1, Windowed
<1>7. 0 + 1 = 1 /\ 0 + Len(m) + 1 = N + 1
  BY <1>1, <1>2
<1>8. ValuesFrom(r)[1] = Magnitude(m) + Power(Base, Len(m)) * ValuesFrom(r)[N + 1]
  BY <1>6, <1>7
<1> QED
  BY <1>1, <1>3, <1>4, <1>5, <1>8 DEF Magnitude

\* The carry out of the top limb becomes a limb.
LEMMA CarriedOutIs ==
    ASSUME NEW w, w.limbs \in LimbSeq, w.carry \in 0..(Base - 1)
    PROVE  /\ CarriedOut(w) \in LimbSeq
           /\ Magnitude(CarriedOut(w)) = Magnitude(w.limbs) + Power(Base, Len(w.limbs)) * w.carry
           /\ Len(CarriedOut(w)) = Len(w.limbs) + (IF w.carry > 0 THEN 1 ELSE 0)
<1>1. CASE w.carry > 0
  BY <1>1, Appended DEF CarriedOut
<1>2. CASE ~(w.carry > 0)
  <2>1. w.carry = 0 /\ CarriedOut(w) = w.limbs
    BY <1>2, BaseIs DEF CarriedOut
  <2>2. Power(Base, Len(w.limbs)) \in Nat /\ Len(w.limbs) \in Nat /\ Magnitude(w.limbs) \in Nat
    BY LimbSeqIs, BaseIs, PowerIs, WorthBelow
  <2>3. \A p, k \in Nat : k + p * 0 = k
    OBVIOUS
  <2>4. Magnitude(w.limbs) = Magnitude(w.limbs) + Power(Base, Len(w.limbs)) * 0
    BY <2>2, <2>3
  <2> QED
    BY <1>2, <2>1, <2>2, <2>4
<1> QED
  BY <1>1, <1>2

\* Addition limb by limb adds the values (lines 38-47).
LEMMA AddMagnitudesIs ==
    ASSUME NEW a \in LimbSeq, NEW b \in LimbSeq
    PROVE  /\ AddMagnitudes(a, b) \in LimbSeq
           /\ Magnitude(AddMagnitudes(a, b)) = Magnitude(a) + Magnitude(b)
<1>1. PICK w, N : w = Sum(a, b) /\ N = Larger(Len(a), Len(b))
  OBVIOUS
<1>2. /\ w.limbs \in LimbSeq /\ Len(w.limbs) = N /\ w.carry \in {0, 1}
      /\ Magnitude(a) + Magnitude(b) = Magnitude(w.limbs) + Power(Base, N) * w.carry
  BY <1>1, SumIs
<1>3. w.carry \in 0..(Base - 1)
  BY <1>2, BaseIs
<1> QED
  BY <1>1, <1>2, <1>3, CarriedOutIs DEF AddMagnitudes

\* The borrows of a difference are 0 or 1.
LEMMA BorrowsIs ==
    ASSUME NEW a \in LimbSeq, NEW b \in LimbSeq, NEW N, N = Len(a)
    PROVE  /\ Borrows(a, b) \in [0..N -> {0, 1}] /\ Borrows(a, b)[0] = 0
           /\ \A i \in 1..N : Borrows(a, b)[i] =
                 IF a[i] - Limb(b, i) - Borrows(a, b)[i - 1] < 0 THEN 1 ELSE 0
<1>1. N \in Nat
  BY LimbSeqIs
<1> DEFINE Body(f) == [i \in 0..N |-> IF i = 0 THEN 0
                         ELSE IF a[i] - Limb(b, i) - f[i - 1] < 0 THEN 1 ELSE 0]
<1>2. PICK step : step = [p \in (1..N) \X {0, 1} |-> IF a[p[1]] - Limb(b, p[1]) - p[2] < 0 THEN 1 ELSE 0]
  OBVIOUS
<1>3. step \in [(1..N) \X {0, 1} -> {0, 1}]
  BY <1>2
<1>4. \A i \in 1..N, c \in {0, 1} : step[<<i, c>>] = IF a[i] - Limb(b, i) - c < 0 THEN 1 ELSE 0
  BY <1>2
<1>5. PICK F : GoesUp(F, N, {0, 1}, 0, step)
  BY <1>1, <1>3, DefinedUp
<1>6. F = Body(F)
  <2>1. F \in [0..N -> {0, 1}] /\ F[0] = 0 /\ \A i \in 1..N : F[i] = step[<<i, F[i - 1]>>]
    BY <1>5 DEF GoesUp
  <2>2. \A i \in 1..N : i - 1 \in 0..N
    BY <1>1
  <2>3. \A i \in 1..N : F[i] = IF a[i] - Limb(b, i) - F[i - 1] < 0 THEN 1 ELSE 0
    BY <1>4, <2>1, <2>2
  <2> QED
    BY <2>1, <2>3
<1>7. PICK G : G = Borrows(a, b)
  OBVIOUS
<1>8. G = Body(G)
  <2>1. G = CHOOSE f : f = Body(f)
    BY <1>7 DEF Borrows
  <2> HIDE DEF Body
  <2> QED
    BY <1>6, <2>1
<1>9. G[0] = 0 /\ \A i \in 1..N : G[i] = IF a[i] - Limb(b, i) - G[i - 1] < 0 THEN 1 ELSE 0
  BY <1>1, <1>8
<1>10. G \in [0..N -> {0, 1}]
  BY <1>1, <1>8, <1>9
<1> QED
  BY <1>1, <1>7, <1>9, <1>10

\* The limbs of a difference and its last borrow.
LEMMA DifferenceIs ==
    ASSUME NEW a \in LimbSeq, NEW b \in LimbSeq, Len(b) <= Len(a)
    PROVE  /\ Difference(a, b).limbs \in LimbSeq /\ Len(Difference(a, b).limbs) = Len(a)
           /\ Difference(a, b).carry \in {0, 1}
           /\ Magnitude(a) - Magnitude(b) =
                 Magnitude(Difference(a, b).limbs) - Power(Base, Len(a)) * Difference(a, b).carry
<1>1. PICK c, N : c = Borrows(a, b) /\ N = Len(a)
  OBVIOUS
<1>2. /\ N \in Nat /\ Len(b) <= N
      /\ c \in [0..N -> {0, 1}] /\ c[0] = 0
      /\ \A i \in 1..N : c[i] = IF a[i] - Limb(b, i) - c[i - 1] < 0 THEN 1 ELSE 0
  BY <1>1, BorrowsIs, LimbSeqIs
<1>3. PICK B : B = PaddedTo(b, N)
  OBVIOUS
<1>4. /\ B \in LimbSeq /\ Len(B) = N /\ Magnitude(B) = Magnitude(b)
      /\ \A i \in 1..N : B[i] = Limb(b, i)
  BY <1>2, <1>3, PaddedToIs
<1>5. \A i \in 1..N : a[i] \in 0..(Base - 1) /\ B[i] \in 0..(Base - 1) /\ c[i] \in {0, 1} /\ c[i - 1] \in {0, 1}
  <2> TAKE i \in 1..N
  <2>1. i \in 0..N /\ i - 1 \in 0..N
    BY <1>2
  <2>2. a[i] \in 0..(Base - 1) /\ B[i] \in 0..(Base - 1)
    BY <1>1, <1>4, LimbSeqIs
  <2>3. c[i] \in {0, 1} /\ c[i - 1] \in {0, 1}
    BY <1>2, <2>1
  <2> QED
    BY <2>2, <2>3
<1>6. PICK r : r = [i \in 1..N |-> a[i] - Limb(b, i) - c[i - 1] + Base * c[i]]
  OBVIOUS
<1>7. Difference(a, b).limbs = r /\ Difference(a, b).carry = c[N]
  <2>1. DOMAIN a = 1..N
    BY <1>1, LimbSeqIs
  <2> QED
    BY <1>1, <1>6, <2>1 DEF Difference
<1>8. \A i \in 1..N : r[i] \in 0..(Base - 1) /\ r[i] = a[i] - B[i] - c[i - 1] + Base * c[i]
  <2> TAKE i \in 1..N
  <2>1. PICK k, l, e, f, t : k = a[i] /\ l = B[i] /\ e = c[i - 1] /\ f = c[i] /\ t = r[i]
    OBVIOUS
  <2>2. k \in 0..(Base - 1) /\ l \in 0..(Base - 1) /\ e \in {0, 1} /\ f = IF k - l - e < 0 THEN 1 ELSE 0
    BY <1>2, <1>4, <1>5, <2>1
  <2>3. t = k - l - e + Base * f
    BY <1>4, <1>6, <2>1
  <2>4. t \in 0..(Base - 1)
    BY <2>2, <2>3, BaseIs
  <2> QED
    BY <2>1, <2>3, <2>4
<1>9. r \in LimbSeq /\ Len(r) = N
  <2>1. r \in [1..N -> 0..(Base - 1)] /\ N \in Nat
    BY <1>2, <1>6, <1>8
  <2> QED
    BY <2>1, LimbFunction
<1>10. PICK F, G : F = ValuesFrom(a) /\ G = ValuesFrom(B)
  OBVIOUS
<1>11. /\ F[N + 1] = 0 /\ \A i \in 1..N : F[i] = a[i] + Base * F[i + 1]
       /\ \A i \in 1..(N + 1) : F[i] \in Int
  BY <1>1, <1>10, ValuesFromIs, LimbSeqIs
<1>12. /\ G[N + 1] = 0 /\ \A i \in 1..N : G[i] = B[i] + Base * G[i + 1]
       /\ \A i \in 1..(N + 1) : G[i] \in Int
  BY <1>4, <1>10, ValuesFromIs, LimbSeqIs
<1>13. PICK X : X = [i \in 1..(N + 1) |-> F[i] - G[i]]
  OBVIOUS
<1>14. X \in [1..(N + 1) -> Int] /\ X[N + 1] = 0
  <2>1. N + 1 \in 1..(N + 1) /\ 0 - 0 = 0
    BY <1>2
  <2>2. X[N + 1] = 0
    BY <1>11, <1>12, <1>13, <2>1
  <2>3. X \in [1..(N + 1) -> Int]
    BY <1>11, <1>12, <1>13
  <2> QED
    BY <2>2, <2>3
<1>15. PICK e : e = [i \in 0..N |-> -c[i]]
  OBVIOUS
<1>16. e \in [0..N -> Int] /\ \A i \in 0..N : e[i] = -c[i]
  BY <1>2, <1>15
<1>17. \A i \in 1..N : X[i] + e[i - 1] = r[i] + Base * (X[i + 1] + e[i])
  <2> TAKE i \in 1..N
  <2>1. i \in 1..(N + 1) /\ i + 1 \in 1..(N + 1) /\ i \in 0..N /\ i - 1 \in 0..N
    BY <1>2
  <2>2. PICK k, l, o, h, t, f, g : /\ k = a[i] /\ l = B[i] /\ o = c[i - 1] /\ h = c[i] /\ t = r[i]
                                   /\ f = F[i + 1] /\ g = G[i + 1]
    OBVIOUS
  <2>3. k \in Int /\ l \in Int /\ o \in Int /\ h \in Int /\ f \in Int /\ g \in Int /\ t = k - l - o + Base * h
    BY <1>5, <1>8, <1>11, <1>12, <2>1, <2>2
  <2>4. X[i] = (k + Base * f) - (l + Base * g) /\ X[i + 1] = f - g /\ e[i] = -h /\ e[i - 1] = -o
    BY <1>11, <1>12, <1>13, <1>16, <2>1, <2>2
  <2>5. ((k + Base * f) - (l + Base * g)) + (-o) = (k - l - o + Base * h) + Base * ((f - g) + (-h))
    BY <2>3, BaseIs
  <2> QED
    BY <2>2, <2>3, <2>4, <2>5
<1>18. X[1] + e[0] = Magnitude(r) + Power(Base, N) * e[N]
  <2>1. r \in Seq(Int)
    BY <1>9, LimbSeqIs
  <2> QED
    BY <1>2, <1>9, <1>14, <1>16, <1>17, <2>1, CarryWalk
<1>19. X[1] = Magnitude(a) - Magnitude(b) /\ X[1] \in Int
  <2>1. 1 \in 1..(N + 1)
    BY <1>2
  <2> QED
    BY <1>4, <1>10, <1>13, <1>14, <2>1 DEF Magnitude
<1>20. X[1] = Magnitude(r) - Power(Base, N) * c[N]
  <2>1. PICK p, k, m : p = Power(Base, N) /\ k = c[N] /\ m = Magnitude(r)
    OBVIOUS
  <2>2. p \in Nat /\ k \in {0, 1} /\ e[0] = 0 /\ e[N] = -k /\ m \in Nat
    BY <1>2, <1>9, <1>16, <2>1, BaseIs, PowerIs, WorthBelow
  <2>3. p * (-k) = -(p * k)
    BY <2>2
  <2>4. X[1] + 0 = m + p * (-k)
    BY <1>18, <2>1, <2>2
  <2> QED
    BY <1>19, <2>1, <2>2, <2>3, <2>4
<1>21. c[N] \in {0, 1}
  BY <1>2
<1> QED
  BY <1>1, <1>2, <1>7, <1>9, <1>19, <1>20, <1>21

\* Subtraction limb by limb subtracts the values (lines 48-55).
LEMMA SubMagnitudesIs ==
    ASSUME NEW a \in LimbSeq, NEW b \in LimbSeq, Len(b) <= Len(a), Magnitude(b) <= Magnitude(a)
    PROVE  /\ SubMagnitudes(a, b) \in LimbSeq
           /\ Magnitude(SubMagnitudes(a, b)) = Magnitude(a) - Magnitude(b)
<1>1. PICK w, P, r, c : w = Difference(a, b) /\ P = Power(Base, Len(a)) /\ r = w.limbs /\ c = w.carry
  OBVIOUS
<1>2. /\ r \in LimbSeq /\ Len(r) = Len(a) /\ c \in {0, 1}
      /\ Magnitude(a) - Magnitude(b) = Magnitude(r) - P * c
  BY <1>1, DifferenceIs
<1>3. Magnitude(r) \in Nat /\ Magnitude(r) < P /\ P \in Nat
  BY <1>1, <1>2, WorthBelow, BaseIs, PowerIs, LimbSeqIs
<1>4. Magnitude(a) \in Nat /\ Magnitude(b) \in Nat
  BY WorthBelow
<1>5. c = 0
  BY <1>2, <1>3, <1>4
<1>6. Magnitude(a) - Magnitude(b) = Magnitude(r)
  BY <1>2, <1>3, <1>4, <1>5
<1>7. SubMagnitudes(a, b) = Trim(r)
  BY <1>1 DEF SubMagnitudes
<1> QED
  BY <1>2, <1>6, <1>7, TrimIs

-------------------------------------------------------------------------------
(* Products *)

\* The carries of a product by one limb are their recursion.
LEMMA ProductCarriesIs ==
    ASSUME NEW m \in LimbSeq, NEW by \in Nat, NEW first \in Nat
    PROVE  /\ ProductCarries(m, by, first) \in [0..Len(m) -> Nat]
           /\ \A i \in 0..Len(m) : ProductCarries(m, by, first)[i] =
                 IF i = 0 THEN first
                 ELSE (m[i] * by + ProductCarries(m, by, first)[i - 1]) \div Base
<1>0. PICK N : N = Len(m)
  OBVIOUS
<1>1. N \in Nat /\ \A i \in 1..N : m[i] \in Nat
  BY <1>0, LimbSeqIs
<1>2. \A i \in 1..N, c \in Nat : (m[i] * by + c) \div Base \in Nat
  <2> TAKE i \in 1..N, c \in Nat
  <2>1. PICK l : l = m[i]
    OBVIOUS
  <2>2. l \in Nat
    BY <1>1, <2>1
  <2>3. l * by + c \in Nat
    BY <2>2
  <2> QED
    BY <2>1, <2>3, BaseIs, DivRange
<1> DEFINE Body(f) == [i \in 0..N |-> IF i = 0 THEN first ELSE (m[i] * by + f[i - 1]) \div Base]
<1>3. PICK step : step = [p \in (1..N) \X Nat |-> (m[p[1]] * by + p[2]) \div Base]
  OBVIOUS
<1>4. \A i \in 1..N, c \in Nat : step[<<i, c>>] = (m[i] * by + c) \div Base
  BY <1>3
<1>5. step \in [(1..N) \X Nat -> Nat]
  <2>1. \A p \in (1..N) \X Nat : step[p] \in Nat
    <3> TAKE p \in (1..N) \X Nat
    <3>1. PICK i \in 1..N, c \in Nat : p = <<i, c>>
      OBVIOUS
    <3>2. step[<<i, c>>] \in Nat
      BY <1>2, <1>4
    <3> QED
      BY <3>1, <3>2
  <2> QED
    BY <1>3, <2>1
<1>6. PICK F : GoesUp(F, N, Nat, first, step)
  BY <1>1, <1>5, DefinedUp
<1>7. F = Body(F)
  <2>1. F \in [0..N -> Nat] /\ F[0] = first /\ \A i \in 1..N : F[i] = step[<<i, F[i - 1]>>]
    BY <1>6 DEF GoesUp
  <2>2. \A i \in 1..N : i - 1 \in 0..N
    BY <1>1
  <2>3. \A i \in 1..N : F[i] = (m[i] * by + F[i - 1]) \div Base
    BY <1>4, <2>1, <2>2
  <2> QED
    BY <2>1, <2>3
<1>8. PICK G : G = ProductCarries(m, by, first)
  OBVIOUS
<1>9. G = Body(G)
  <2>1. G = CHOOSE f : f = Body(f)
    BY <1>0, <1>8 DEF ProductCarries
  <2> HIDE DEF Body
  <2> QED
    BY <1>7, <2>1
<1>10. \A i \in 0..N : G[i] = IF i = 0 THEN first ELSE (m[i] * by + G[i - 1]) \div Base
  BY <1>9, Zenon
<1>11. G[0] = first /\ \A i \in 1..N : G[i] = (m[i] * by + G[i - 1]) \div Base
  <2>1. 0 \in 0..N /\ \A i \in 1..N : i \in 0..N /\ i # 0
    BY <1>1
  <2> QED
    BY <1>10, <2>1, Zenon
<1>12. \A i \in 0..N : G[i] \in Nat
  <2> DEFINE S == {i \in 0..N : G[i] \in Nat}
  <2>1. 0 \in S
    BY <1>1, <1>11
  <2>2. ASSUME NEW i \in 1..N, i - 1 \in S
        PROVE  i \in S
    <3>1. G[i] = (m[i] * by + G[i - 1]) \div Base /\ G[i - 1] \in Nat /\ i \in 0..N
      BY <1>11, <2>2
    <3>2. (m[i] * by + G[i - 1]) \div Base \in Nat
      BY <1>2, <3>1
    <3> QED
      BY <3>1, <3>2
  <2> HIDE DEF S
  <2>3. \A i \in 0..N : i \in S
    BY <1>1, <2>1, <2>2, UpTo
  <2> QED
    BY <2>3 DEF S
<1>13. G \in [0..N -> Nat]
  BY <1>9, <1>12
<1> QED
  BY <1>0, <1>8, <1>10, <1>13, Zenon

\* The limbs of a product by one number and its carry.
LEMMA ProductIs ==
    ASSUME NEW m \in LimbSeq, NEW by \in Nat, NEW first \in Nat
    PROVE  /\ Product(m, by, first).limbs \in LimbSeq
           /\ Len(Product(m, by, first).limbs) = Len(m)
           /\ Product(m, by, first).carry \in Nat
           /\ first < by => Product(m, by, first).carry < by
           /\ Magnitude(m) * by + first =
                 Magnitude(Product(m, by, first).limbs)
                    + Power(Base, Len(m)) * Product(m, by, first).carry
<1>1. PICK c, N : c = ProductCarries(m, by, first) /\ N = Len(m)
  OBVIOUS
<1>2. /\ N \in Nat /\ c \in [0..N -> Nat] /\ c[0] = first
      /\ \A i \in 1..N : c[i] = (m[i] * by + c[i - 1]) \div Base
  <2>1. N \in Nat
    BY <1>1, LimbSeqIs
  <2>3. /\ c \in [0..N -> Nat]
        /\ \A i \in 0..N : c[i] = IF i = 0 THEN first ELSE (m[i] * by + c[i - 1]) \div Base
    <3>1. /\ ProductCarries(m, by, first) \in [0..Len(m) -> Nat]
          /\ \A i \in 0..Len(m) : ProductCarries(m, by, first)[i] =
                 IF i = 0 THEN first
                 ELSE (m[i] * by + ProductCarries(m, by, first)[i - 1]) \div Base
      BY ProductCarriesIs, Zenon
    <3> QED
      BY <1>1, <3>1, Zenon
  <2>4. 0 \in 0..N /\ \A i \in 1..N : i \in 0..N /\ i # 0
    BY <2>1
  <2> QED
    BY <2>1, <2>3, <2>4, Zenon
<1>3. PICK r : r = [i \in 1..N |-> (m[i] * by + c[i - 1]) % Base]
  OBVIOUS
<1>4. Product(m, by, first).limbs = r /\ Product(m, by, first).carry = c[N]
  <2>1. DOMAIN m = 1..N
    BY <1>1, LimbSeqIs
  <2> QED
    BY <1>1, <1>3, <2>1 DEF Product
<1>5. \A i \in 1..N : /\ i \in 0..N /\ i - 1 \in 0..N
                      /\ m[i] \in 0..(Base - 1) /\ c[i] \in Nat /\ c[i - 1] \in Nat
  <2> TAKE i \in 1..N
  <2>1. i \in 0..N /\ i - 1 \in 0..N
    BY <1>2
  <2>2. m[i] \in 0..(Base - 1)
    BY <1>1, LimbSeqIs
  <2> QED
    BY <1>2, <2>1, <2>2
<1>6. \A i \in 1..N : r[i] \in 0..(Base - 1) /\ m[i] * by + c[i - 1] = Base * c[i] + r[i]
  <2> TAKE i \in 1..N
  <2>1. PICK l, e, a : l = m[i] /\ e = c[i - 1] /\ a = l * by + e
    OBVIOUS
  <2>2. l \in Nat /\ e \in Nat
    BY <1>5, <2>1, BaseIs
  <2>3. a \in Int
    BY <2>1, <2>2
  <2>4. PICK k \in Int, t \in 0..(Base - 1) : k = a \div Base /\ t = a % Base /\ a = Base * k + t
    BY <2>3, BaseIs, DivMod
  <2>5. c[i] = k /\ r[i] = t
    BY <1>2, <1>3, <2>1, <2>4
  <2> QED
    BY <2>1, <2>4, <2>5
<1>7. r \in LimbSeq /\ Len(r) = N
  <2>1. r \in [1..N -> 0..(Base - 1)]
    BY <1>3, <1>6
  <2> QED
    BY <1>2, <2>1, LimbFunction
<1>8. PICK F : F = ValuesFrom(m)
  OBVIOUS
<1>9. /\ F[N + 1] = 0 /\ \A i \in 1..N : F[i] = m[i] + Base * F[i + 1]
      /\ \A i \in 1..(N + 1) : F[i] \in Int
  BY <1>1, <1>8, ValuesFromIs, LimbSeqIs
<1>10. PICK X : X = [i \in 1..(N + 1) |-> F[i] * by]
  OBVIOUS
<1>11. X \in [1..(N + 1) -> Int] /\ X[N + 1] = 0
  <2>1. N + 1 \in 1..(N + 1) /\ 0 * by = 0
    BY <1>2
  <2>2. X[N + 1] = 0
    BY <1>9, <1>10, <2>1
  <2>3. \A i \in 1..(N + 1) : F[i] * by \in Int
    <3> TAKE i \in 1..(N + 1)
    <3>1. F[i] \in Int /\ \A k \in Int : k * by \in Int
      BY <1>9
    <3> QED
      BY <3>1
  <2>4. X \in [1..(N + 1) -> Int]
    BY <1>10, <2>3
  <2> QED
    BY <2>2, <2>4
<1>12. \A i \in 1..N : X[i] + c[i - 1] = r[i] + Base * (X[i + 1] + c[i])
  <2> TAKE i \in 1..N
  <2>1. i \in 1..(N + 1) /\ i + 1 \in 1..(N + 1)
    BY <1>2
  <2>2. PICK k, e, h, t, f : k = m[i] /\ e = c[i - 1] /\ h = c[i] /\ t = r[i] /\ f = F[i + 1]
    OBVIOUS
  <2>3. k \in Int /\ e \in Int /\ h \in Int /\ f \in Int /\ t \in Int /\ k * by + e = Base * h + t
    BY <1>5, <1>6, <1>9, <2>1, <2>2
  <2>4. X[i] = (k + Base * f) * by /\ X[i + 1] = f * by
    BY <1>9, <1>10, <2>1, <2>2
  <2>5. (k + Base * f) * by = k * by + Base * (f * by)
    BY <2>3, BaseIs
  <2>6. Base * (f * by + h) = Base * (f * by) + Base * h
    BY <2>3, BaseIs
  <2>7. k * by \in Int /\ Base * (f * by) \in Int /\ Base * h \in Int
    BY <2>3, BaseIs
  <2>8. (k + Base * f) * by + e = t + Base * (f * by + h)
    <3>1. PICK a, b, o, p, z : /\ a = (k + Base * f) * by /\ b = Base * (f * by + h)
                               /\ o = k * by /\ p = Base * (f * by) /\ z = Base * h
      OBVIOUS
    <3>2. o \in Int /\ p \in Int /\ z \in Int /\ a = o + p /\ b = p + z /\ o + e = z + t
      BY <2>3, <2>5, <2>6, <2>7, <3>1
    <3>3. a + e = t + b
      BY <2>3, <3>2
    <3> QED
      BY <3>1, <3>3
  <2> QED
    BY <2>2, <2>4, <2>8
<1>13. X[1] + c[0] = Magnitude(r) + Power(Base, N) * c[N]
  <2>1. r \in Seq(Int) /\ c \in [0..N -> Int]
    BY <1>2, <1>7, LimbSeqIs
  <2> QED
    BY <1>2, <1>7, <1>11, <1>12, <2>1, CarryWalk
<1>14. X[1] = Magnitude(m) * by
  <2>1. 1 \in 1..(N + 1)
    BY <1>2
  <2> QED
    BY <1>8, <1>10, <2>1 DEF Magnitude
<1>15. ASSUME first < by
       PROVE  c[N] < by
  <2> DEFINE S == {i \in 0..N : c[i] < by}
  <2>1. 0 \in S
    BY <1>2, <1>15
  <2>2. ASSUME NEW i \in 1..N, i - 1 \in S
        PROVE  i \in S
    <3>1. PICK l, e, a : l = m[i] /\ e = c[i - 1] /\ a = l * by + e
      OBVIOUS
    <3>2. l \in Nat /\ l <= Base - 1 /\ e \in Nat /\ e < by /\ c[i] = a \div Base
      BY <1>2, <1>5, <2>2, <3>1, BaseIs
    <3>3. l * by <= (Base - 1) * by /\ l * by \in Nat
      BY <3>2, BaseIs, ProductOrder
    <3>4. (Base - 1) * by = Base * by - by /\ Base * by \in Nat
      BY BaseIs
    <3>5. a \in Nat /\ a < Base * by
      BY <3>1, <3>2, <3>3, <3>4
    <3>6. a \div Base < by
      BY <3>5, BaseIs, DivRange
    <3> QED
      BY <1>5, <3>2, <3>6
  <2> HIDE DEF S
  <2>3. \A i \in 0..N : i \in S
    BY <1>2, <2>1, <2>2, UpTo
  <2>4. N \in S
    BY <1>2, <2>3
  <2> QED
    BY <2>4 DEF S
<1>16. c[N] \in Nat
  BY <1>2
<1> QED
  BY <1>1, <1>2, <1>4, <1>7, <1>13, <1>14, <1>15, <1>16

\* A product by one limb is the product of the values (lines 83-93).
LEMMA MulLimbIs ==
    ASSUME NEW m \in LimbSeq, NEW by \in 1..(Base - 1)
    PROVE  /\ MulLimb(m, by) \in LimbSeq /\ Magnitude(MulLimb(m, by)) = Magnitude(m) * by
           /\ Len(MulLimb(m, by)) \in {Len(m), Len(m) + 1}
           /\ Len(MulLimb(m, by)) # Len(m) => Magnitude(MulLimb(m, by)) >= Power(Base, Len(m))
<1>1. PICK w : w = Product(m, by, 0)
  OBVIOUS
<1>2. by \in Nat /\ 0 < by /\ 0 \in Nat /\ by <= Base - 1
  BY BaseIs
<1>3. /\ w.limbs \in LimbSeq /\ Len(w.limbs) = Len(m) /\ w.carry \in Nat /\ w.carry < by
      /\ Magnitude(m) * by + 0 = Magnitude(w.limbs) + Power(Base, Len(m)) * w.carry
  BY <1>1, <1>2, ProductIs
<1>4. w.carry \in 0..(Base - 1)
  BY <1>2, <1>3, BaseIs
<1>5. MulLimb(m, by) = CarriedOut(w)
  BY <1>1 DEF MulLimb
<1>6. Magnitude(m) * by + 0 = Magnitude(m) * by
  <2>1. Magnitude(m) \in Nat /\ \A k \in Nat : k * by + 0 = k * by
    BY <1>2, WorthBelow
  <2> QED
    BY <2>1
<1>7. /\ CarriedOut(w) \in LimbSeq
      /\ Magnitude(CarriedOut(w)) = Magnitude(w.limbs) + Power(Base, Len(w.limbs)) * w.carry
      /\ Len(CarriedOut(w)) = Len(w.limbs) + (IF w.carry > 0 THEN 1 ELSE 0)
  BY <1>3, <1>4, CarriedOutIs
<1>8. Len(CarriedOut(w)) \in {Len(m), Len(m) + 1}
  <2>1. Len(m) \in Nat
    BY LimbSeqIs
  <2> QED
    BY <1>3, <1>7, <2>1
<1>9. Len(CarriedOut(w)) # Len(m) => Magnitude(CarriedOut(w)) >= Power(Base, Len(m))
  <2>1. PICK P, c, M, r : /\ P = Power(Base, Len(m)) /\ c = w.carry /\ M = Magnitude(w.limbs)
                          /\ r = P * c
    OBVIOUS
  <2>2. P \in Nat /\ c \in Nat /\ M \in Nat /\ r \in Nat
    <3>1. P \in Nat
      BY <2>1, BaseIs, PowerIs, LimbSeqIs
    <3>2. c \in Nat /\ M \in Nat
      BY <1>3, <2>1, WorthBelow
    <3> QED
      BY <2>1, <3>1, <3>2
  <2>3. Len(CarriedOut(w)) # Len(m) => c >= 1
    BY <1>3, <1>7, <2>1, <2>2, LimbSeqIs
  <2>4. c >= 1 => P <= r
    <3>1. c >= 1 => 1 * P <= c * P
      BY <2>2, ProductOrder
    <3>2. 1 * P = P /\ c * P = r
      BY <2>1, <2>2
    <3> QED
      BY <3>1, <3>2
  <2>5. Magnitude(CarriedOut(w)) = M + r
    BY <1>3, <1>7, <2>1
  <2> QED
    BY <2>1, <2>2, <2>3, <2>4, <2>5
<1> QED
  BY <1>3, <1>5, <1>6, <1>7, <1>8, <1>9

\* Limbs replaced, and the one above them.
LEMMA ReplacedIs ==
    ASSUME NEW m \in Seq(Int), NEW k \in Nat, NEW w \in Seq(Int), NEW top \in Int,
           k + Len(w) + 1 <= Len(m)
    PROVE  /\ Replaced(m, k, w, top) \in Seq(Int) /\ Len(Replaced(m, k, w, top)) = Len(m)
           /\ \A i \in 1..k : Replaced(m, k, w, top)[i] = m[i]
           /\ \A i \in 1..Len(w) : Replaced(m, k, w, top)[k + i] = w[i]
           /\ \A i \in (k + Len(w) + 1)..Len(m) :
                 Replaced(m, k, w, top)[i] = IF i = k + Len(w) + 1 THEN top ELSE m[i]
<1>1. PICK r, N, n : r = Replaced(m, k, w, top) /\ N = Len(m) /\ n = Len(w)
  OBVIOUS
<1>2. N \in Nat /\ n \in Nat /\ DOMAIN m = 1..N /\ k + n + 1 <= N
      /\ (\A i \in 1..N : m[i] \in Int) /\ (\A i \in 1..n : w[i] \in Int)
  BY <1>1
<1>3. r = [i \in 1..N |-> IF i \in (k + 1)..(k + n) THEN w[i - k]
                          ELSE IF i = k + n + 1 THEN top ELSE m[i]]
  BY <1>1, <1>2 DEF Replaced
<1>4. \A i \in 1..k : r[i] = m[i]
  <2> TAKE i \in 1..k
  <2>1. i \in 1..N /\ i \notin (k + 1)..(k + n) /\ i # k + n + 1
    BY <1>2
  <2> QED
    BY <1>3, <2>1
<1>5. \A i \in 1..n : r[k + i] = w[i]
  <2> TAKE i \in 1..n
  <2>1. k + i \in 1..N /\ k + i \in (k + 1)..(k + n) /\ (k + i) - k = i
    BY <1>2
  <2> QED
    BY <1>3, <2>1
<1>7. \A i \in (k + n + 1)..N : r[i] = IF i = k + n + 1 THEN top ELSE m[i]
  <2> TAKE i \in (k + n + 1)..N
  <2>1. i \in 1..N /\ i \notin (k + 1)..(k + n)
    BY <1>2
  <2> QED
    BY <1>3, <2>1
<1>8. r \in Seq(Int) /\ Len(r) = N
  <2>1. \A i \in 1..N : r[i] \in Int
    <3> TAKE i \in 1..N
    <3>1. CASE i \in (k + 1)..(k + n)
      <4>1. i - k \in 1..n
        BY <1>2, <3>1
      <4> QED
        BY <1>2, <1>3, <3>1, <4>1
    <3>2. CASE i \notin (k + 1)..(k + n)
      BY <1>2, <1>3, <3>2
    <3> QED
      BY <3>1, <3>2
  <2>2. r \in [1..N -> Int]
    BY <1>3, <2>1
  <2>3. \A f \in [1..N -> Int] : f \in Seq(Int) /\ Len(f) = N
    BY <1>2
  <2> QED
    BY <2>2, <2>3
<1> QED
  BY <1>1, <1>4, <1>5, <1>7, <1>8

\* What the replacement changes is what was replaced.
LEMMA ReplacedWorth ==
    ASSUME NEW m \in Seq(Int), NEW k \in Nat, NEW old \in Seq(Int), NEW w \in Seq(Int),
           NEW top \in Int, Len(old) = Len(w), k + Len(w) + 1 <= Len(m),
           \A i \in 1..Len(w) : m[k + i] = old[i]
    PROVE  ValuesFrom(Replaced(m, k, w, top))[k + 1] =
              ValuesFrom(m)[k + 1] + Magnitude(w) - Magnitude(old)
                 + Power(Base, Len(w)) * (top - m[k + Len(w) + 1])
<1>1. PICK r, n, F, G, P : /\ r = Replaced(m, k, w, top) /\ n = Len(w)
                           /\ F = ValuesFrom(m) /\ G = ValuesFrom(r) /\ P = Power(Base, Len(w))
  OBVIOUS
<1>2. /\ r \in Seq(Int) /\ Len(r) = Len(m)
      /\ \A i \in 1..n : r[k + i] = w[i]
      /\ r[k + n + 1] = top
      /\ \A i \in (k + n + 2)..Len(m) : r[i] = m[i]
  <2>1. r = Replaced(m, k, w, top) /\ k + Len(w) + 1 <= Len(m) /\ n = Len(w)
    BY <1>1
  <2>2. /\ r \in Seq(Int) /\ Len(r) = Len(m)
        /\ \A i \in 1..n : r[k + i] = w[i]
        /\ \A i \in (k + n + 1)..Len(m) : r[i] = IF i = k + n + 1 THEN top ELSE m[i]
    <3>1. /\ Replaced(m, k, w, top) \in Seq(Int) /\ Len(Replaced(m, k, w, top)) = Len(m)
          /\ \A i \in 1..k : Replaced(m, k, w, top)[i] = m[i]
          /\ \A i \in 1..Len(w) : Replaced(m, k, w, top)[k + i] = w[i]
          /\ \A i \in (k + Len(w) + 1)..Len(m) :
                 Replaced(m, k, w, top)[i] = IF i = k + Len(w) + 1 THEN top ELSE m[i]
      BY ReplacedIs, Zenon
    <3> QED
      BY <2>1, <3>1, Zenon
  <2>3. Len(m) \in Nat /\ n \in Nat /\ k + n + 1 <= Len(m)
    BY <2>1
  <2>4. k + n + 1 \in (k + n + 1)..Len(m)
    BY <2>3
  <2>5. r[k + n + 1] = top
    BY <2>2, <2>4, Zenon
  <2>6. \A i \in (k + n + 2)..Len(m) : i \in (k + n + 1)..Len(m) /\ i # k + n + 1
    BY <2>3
  <2>7. \A i \in (k + n + 2)..Len(m) : r[i] = m[i]
    BY <2>2, <2>6, Zenon
  <2> QED
    BY <2>2, <2>5, <2>7
<1>3. n \in Nat /\ Len(m) \in Nat /\ k + n + 1 <= Len(m) /\ P \in Nat
  BY <1>1, BaseIs, PowerIs
<1>4. F[k + 1] = Magnitude(old) + P * F[k + n + 1]
  <2>1. k + Len(old) <= Len(m)
    BY <1>1, <1>3
  <2>2. F[k + 1] = Magnitude(old) + Power(Base, Len(old)) * F[k + Len(old) + 1]
    BY <1>1, <2>1, Windowed
  <2> QED
    BY <1>1, <2>2
<1>5. G[k + 1] = Magnitude(w) + P * G[k + n + 1]
  <2>1. k + Len(w) <= Len(r) /\ \A i \in 1..Len(w) : r[k + i] = w[i]
    BY <1>1, <1>2, <1>3
  <2>2. G[k + 1] = Magnitude(w) + Power(Base, Len(w)) * G[k + Len(w) + 1]
    BY <1>1, <1>2, <2>1, Windowed
  <2> QED
    BY <1>1, <2>2
<1>6. /\ F[Len(m) + 1] = 0 /\ \A i \in 1..Len(m) : F[i] = m[i] + Base * F[i + 1]
      /\ \A i \in 1..(Len(m) + 1) : F[i] \in Int
  BY <1>1, ValuesFromIs
<1>7. /\ G[Len(m) + 1] = 0 /\ \A i \in 1..Len(m) : G[i] = r[i] + Base * G[i + 1]
      /\ \A i \in 1..(Len(m) + 1) : G[i] \in Int
  BY <1>1, <1>2, ValuesFromIs
<1>8. F[(k + n + 1) + 1] = G[(k + n + 1) + 1]
  <2>1. PICK M : M = Len(m)
    OBVIOUS
  <2> DEFINE S == {i \in 1..(M + 1) : i > k + n + 1 => F[i] = G[i]}
  <2>2. M \in Nat
    BY <1>3, <2>1
  <2>3. M + 1 \in S
    BY <1>6, <1>7, <2>1, <2>2
  <2>4. ASSUME NEW i \in 1..M, i + 1 \in S
        PROVE  i \in S
    <3>1. CASE i > k + n + 1
      <4>1. i + 1 > k + n + 1 /\ i \in (k + n + 2)..M
        BY <1>3, <2>2, <3>1
      <4>2. F[i + 1] = G[i + 1] /\ r[i] = m[i]
        BY <1>2, <2>1, <2>4, <4>1
      <4> QED
        BY <1>6, <1>7, <2>1, <2>2, <4>2
    <3>2. CASE ~(i > k + n + 1)
      BY <2>2, <3>2
    <3> QED
      BY <3>1, <3>2
  <2> HIDE DEF S
  <2>5. \A i \in 1..(M + 1) : i \in S
    BY <2>2, <2>3, <2>4, DownFrom
  <2>6. (k + n + 1) + 1 \in 1..(M + 1) /\ (k + n + 1) + 1 > k + n + 1
    BY <1>3, <2>1, <2>2
  <2> QED
    BY <2>5, <2>6 DEF S
<1>9. PICK f, g, o : f = F[k + n + 1] /\ g = G[k + n + 1] /\ o = m[k + n + 1]
  OBVIOUS
<1>10. f \in Int /\ g \in Int /\ o \in Int /\ g = f + (top - o)
  <2>1. k + n + 1 \in 1..Len(m) /\ k + n + 1 \in 1..(Len(m) + 1) /\ (k + n + 1) + 1 \in 1..(Len(m) + 1)
    BY <1>3
  <2>2. PICK h : h = F[(k + n + 1) + 1]
    OBVIOUS
  <2>3. h \in Int /\ o \in Int /\ f \in Int /\ g \in Int
    BY <1>6, <1>7, <1>9, <2>1, <2>2
  <2>4. f = o + Base * h /\ g = top + Base * h
    BY <1>2, <1>6, <1>7, <1>8, <1>9, <2>1, <2>2
  <2>5. Base * h \in Int
    BY <2>3, BaseIs
  <2> QED
    BY <2>3, <2>4, <2>5
<1>11. PICK a, b, e : a = Magnitude(w) /\ b = Magnitude(old) /\ e = F[k + 1]
  OBVIOUS
<1>12. a \in Int /\ b \in Int
  <2>1. 1 \in 1..(Len(w) + 1) /\ 1 \in 1..(Len(old) + 1)
    BY <1>1, <1>3
  <2> QED
    BY <1>11, <2>1, ValuesFromIs DEF Magnitude
<1>13. P * (f + (top - o)) = P * f + P * (top - o) /\ P * f \in Int /\ P * (top - o) \in Int
  BY <1>3, <1>10
<1>14. e = b + P * f /\ G[k + 1] = a + P * (f + (top - o))
  BY <1>4, <1>5, <1>9, <1>10, <1>11
<1>15. G[k + 1] = e + a - b + P * (top - o)
  BY <1>12, <1>13, <1>14
<1> QED
  BY <1>1, <1>9, <1>11, <1>15

\* The carries of a row of the schoolbook product are limbs.
LEMMA RowCarriesIs ==
    ASSUME NEW r \in LimbSeq, NEW i \in Nat \ {0}, NEW by \in 0..(Base - 1), NEW b \in LimbSeq,
           i + Len(b) <= Len(r)
    PROVE  /\ RowCarries(r, i, by, b) \in [0..Len(b) -> 0..(Base - 1)]
           /\ \A k \in 0..Len(b) : RowCarries(r, i, by, b)[k] =
                 IF k = 0 THEN 0
                 ELSE (r[i + k - 1] + by * b[k] + RowCarries(r, i, by, b)[k - 1]) \div Base
<1>1. PICK n : n = Len(b)
  OBVIOUS
<1>2. n \in Nat /\ i + n <= Len(r) /\ Len(r) \in Nat
  BY <1>1, LimbSeqIs
<1>3. \A k \in 1..n, c \in 0..(Base - 1) :
         (r[i + k - 1] + by * b[k] + c) \div Base \in 0..(Base - 1)
  <2> TAKE k \in 1..n, c \in 0..(Base - 1)
  <2>1. PICK l, t : l = r[i + k - 1] /\ t = b[k]
    OBVIOUS
  <2>2. i + k - 1 \in 1..Len(r) /\ k \in 1..Len(b)
    BY <1>1, <1>2
  <2>3. l \in 0..(Base - 1) /\ t \in 0..(Base - 1)
    BY <2>1, <2>2, LimbSeqIs
  <2>4. PICK B : B = Base - 1
    OBVIOUS
  <2>5. B \in Nat /\ l \in Nat /\ t \in Nat /\ by \in Nat /\ c \in Nat
        /\ l <= B /\ t <= B /\ by <= B /\ c <= B /\ Base = B + 1
    BY <2>3, <2>4, BaseIs
  <2>6. by * t <= B * t /\ B * t <= B * B /\ by * t \in Nat /\ B * t \in Nat /\ B * B \in Nat
    BY <2>5, ProductOrder
  <2>7. Base * Base = B * B + B + B + 1
    BY <2>5
  <2>8. l + by * t + c \in Nat /\ l + by * t + c < Base * Base
    BY <2>5, <2>6, <2>7
  <2>9. (l + by * t + c) \div Base \in Nat /\ (l + by * t + c) \div Base < Base
    BY <2>8, BaseIs, DivRange
  <2>10. (l + by * t + c) \div Base \in 0..(Base - 1)
    BY <2>9, BaseIs
  <2> QED
    BY <2>1, <2>10
<1> DEFINE T == 0..(Base - 1)
           Body(f) == [k \in 0..n |-> IF k = 0 THEN 0
                                      ELSE (r[i + k - 1] + by * b[k] + f[k - 1]) \div Base]
<1>4. PICK step : step = [p \in (1..n) \X T |-> (r[i + p[1] - 1] + by * b[p[1]] + p[2]) \div Base]
  OBVIOUS
<1>5. \A k \in 1..n, c \in T : step[<<k, c>>] = (r[i + k - 1] + by * b[k] + c) \div Base
  BY <1>4
<1>6. step \in [(1..n) \X T -> T]
  <2>1. \A p \in (1..n) \X T : step[p] \in T
    <3> TAKE p \in (1..n) \X T
    <3>1. PICK k \in 1..n, c \in T : p = <<k, c>>
      OBVIOUS
    <3>2. step[<<k, c>>] \in T
      BY <1>3, <1>5
    <3> QED
      BY <3>1, <3>2
  <2> QED
    BY <1>4, <2>1
<1>7. 0 \in T
  BY BaseIs
<1>8. PICK F : GoesUp(F, n, T, 0, step)
  BY <1>2, <1>6, <1>7, DefinedUp
<1>9. F \in [0..n -> T] /\ F[0] = 0 /\ \A k \in 1..n : F[k] = step[<<k, F[k - 1]>>]
  BY <1>8 DEF GoesUp
<1>10. F = Body(F)
  <2>1. \A k \in 1..n : F[k] = (r[i + k - 1] + by * b[k] + F[k - 1]) \div Base
    <3> TAKE k \in 1..n
    <3>1. k - 1 \in 0..n /\ F[k - 1] \in T
      BY <1>2, <1>9
    <3> QED
      BY <1>5, <1>9, <3>1
  <2>2. \A k \in 0..n : F[k] = IF k = 0 THEN 0 ELSE (r[i + k - 1] + by * b[k] + F[k - 1]) \div Base
    <3> TAKE k \in 0..n
    <3>1. k = 0 \/ k \in 1..n
      BY <1>2
    <3> QED
      BY <1>9, <2>1, <3>1
  <2>3. F = [k \in 0..n |-> F[k]]
    BY <1>9
  <2> QED
    BY <2>2, <2>3
<1>11. PICK G : G = RowCarries(r, i, by, b)
  OBVIOUS
<1>12. G = Body(G)
  <2>1. G = CHOOSE f : f = Body(f)
    BY <1>1, <1>11 DEF RowCarries
  <2> HIDE DEF Body
  <2> QED
    BY <1>10, <2>1
<1>13. \A k \in 0..n : G[k] = IF k = 0 THEN 0 ELSE (r[i + k - 1] + by * b[k] + G[k - 1]) \div Base
  BY <1>12, Zenon
<1>14. \A k \in 0..n : G[k] \in 0..(Base - 1)
  <2> DEFINE S == {k \in 0..n : G[k] \in 0..(Base - 1)}
  <2>1. 0 \in S
    BY <1>2, <1>13, BaseIs
  <2>2. ASSUME NEW k \in 1..n, k - 1 \in S
        PROVE  k \in S
    <3>1. G[k] = (r[i + k - 1] + by * b[k] + G[k - 1]) \div Base /\ k \in 0..n
      BY <1>2, <1>13
    <3>2. (r[i + k - 1] + by * b[k] + G[k - 1]) \div Base \in 0..(Base - 1)
      BY <1>3, <2>2
    <3> QED
      BY <3>1, <3>2
  <2> HIDE DEF S
  <2>3. \A k \in 0..n : k \in S
    BY <1>2, <2>1, <2>2, UpTo
  <2> QED
    BY <2>3 DEF S
<1>15. G \in [0..n -> 0..(Base - 1)]
  BY <1>12, <1>14
<1> QED
  BY <1>1, <1>11, <1>13, <1>15, Zenon

\* Values apart only above a common lower part differ by what is above it.
LEMMA SameBelow ==
    ASSUME NEW r \in Seq(Int), NEW s \in Seq(Int), NEW k \in Nat, k <= Len(r), k <= Len(s),
           \A i \in 1..k : r[i] = s[i]
    PROVE  Magnitude(r) - Magnitude(s) = Power(Base, k) * (ValuesFrom(r)[k + 1] - ValuesFrom(s)[k + 1])
<1>1. PICK w : w = [i \in 1..k |-> r[i]]
  OBVIOUS
<1>2. w \in Seq(Int) /\ Len(w) = k /\ \A i \in 1..k : w[i] = r[i]
  <2>1. \A i \in 1..k : r[i] \in Int
    OBVIOUS
  <2>2. w \in [1..k -> Int]
    BY <1>1, <2>1
  <2>3. \A f \in [1..k -> Int] : f \in Seq(Int) /\ Len(f) = k
    OBVIOUS
  <2> QED
    BY <1>1, <2>2, <2>3
<1>3. ValuesFrom(r)[0 + 1] = Magnitude(w) + Power(Base, Len(w)) * ValuesFrom(r)[0 + Len(w) + 1]
  <2>1. 0 \in Nat /\ 0 + Len(w) <= Len(r) /\ \A i \in 1..Len(w) : r[0 + i] = w[i]
    BY <1>2
  <2> QED
    BY <1>2, <2>1, Windowed
<1>4. ValuesFrom(s)[0 + 1] = Magnitude(w) + Power(Base, Len(w)) * ValuesFrom(s)[0 + Len(w) + 1]
  <2>1. 0 \in Nat /\ 0 + Len(w) <= Len(s) /\ \A i \in 1..Len(w) : s[0 + i] = w[i]
    BY <1>2
  <2> QED
    BY <1>2, <2>1, Windowed
<1>5. 0 + 1 = 1 /\ 0 + k + 1 = k + 1
  OBVIOUS
<1>6. PICK P, e, f, g : /\ P = Power(Base, k) /\ e = ValuesFrom(r)[k + 1]
                        /\ f = ValuesFrom(s)[k + 1] /\ g = Magnitude(w)
  OBVIOUS
<1>7. P \in Int /\ e \in Int /\ f \in Int /\ g \in Int
  <2>1. P \in Int
    BY <1>6, BaseIs, PowerIs
  <2>2. k + 1 \in 1..(Len(r) + 1) /\ k + 1 \in 1..(Len(s) + 1) /\ 1 \in 1..(Len(w) + 1)
    BY <1>2
  <2> QED
    BY <1>2, <1>6, <2>1, <2>2, ValuesFromIs DEF Magnitude
<1>8. Magnitude(r) = g + P * e /\ Magnitude(s) = g + P * f
  BY <1>2, <1>3, <1>4, <1>5, <1>6 DEF Magnitude
<1>9. (g + P * e) - (g + P * f) = P * (e - f)
  BY <1>7
<1> QED
  BY <1>6, <1>8, <1>9

\* A row adds a limb times the other factor, from its place on.
LEMMA RowIs ==
    ASSUME NEW r \in LimbSeq, NEW i \in Nat \ {0}, NEW by \in 0..(Base - 1), NEW b \in LimbSeq,
           i + Len(b) <= Len(r), \A k \in (i + Len(b))..Len(r) : r[k] = 0
    PROVE  /\ Row(r, i, by, b) \in LimbSeq /\ Len(Row(r, i, by, b)) = Len(r)
           /\ \A k \in (i + Len(b) + 1)..Len(r) : Row(r, i, by, b)[k] = 0
           /\ Magnitude(Row(r, i, by, b)) = Magnitude(r) + Power(Base, i - 1) * (by * Magnitude(b))
<1>1. PICK n, c, w, old, R : /\ n = Len(b) /\ c = RowCarries(r, i, by, b)
                             /\ w = [k \in 1..n |-> (r[i + k - 1] + by * b[k] + c[k - 1]) % Base]
                             /\ old = [k \in 1..n |-> r[i + k - 1]]
                             /\ R = Row(r, i, by, b)
  OBVIOUS
<1>2. n \in Nat /\ i + n <= Len(r) /\ Len(r) \in Nat /\ DOMAIN b = 1..n /\ r \in Seq(Int) /\ b \in Seq(Int)
  BY <1>1, LimbSeqIs
<1>3. /\ c \in [0..n -> 0..(Base - 1)]
      /\ \A k \in 0..n : c[k] = IF k = 0 THEN 0 ELSE (r[i + k - 1] + by * b[k] + c[k - 1]) \div Base
  <2>1. /\ RowCarries(r, i, by, b) \in [0..Len(b) -> 0..(Base - 1)]
        /\ \A k \in 0..Len(b) : RowCarries(r, i, by, b)[k] =
              IF k = 0 THEN 0
              ELSE (r[i + k - 1] + by * b[k] + RowCarries(r, i, by, b)[k - 1]) \div Base
    BY RowCarriesIs
  <2> QED
    BY <1>1, <2>1, Zenon
<1>4. \A k \in 1..n : /\ k \in 0..n /\ k - 1 \in 0..n /\ i + k - 1 \in 1..Len(r)
                      /\ r[i + k - 1] \in 0..(Base - 1) /\ b[k] \in 0..(Base - 1)
                      /\ c[k] \in 0..(Base - 1) /\ c[k - 1] \in 0..(Base - 1)
  <2> TAKE k \in 1..n
  <2>1. k \in 0..n /\ k - 1 \in 0..n /\ i + k - 1 \in 1..Len(r)
    BY <1>2
  <2>2. r[i + k - 1] \in 0..(Base - 1)
    BY <2>1, LimbSeqIs
  <2>3. b[k] \in 0..(Base - 1)
    BY <1>1, LimbSeqIs
  <2> QED
    BY <1>3, <2>1, <2>2, <2>3
<1>5. \A k \in 1..n : /\ w[k] \in 0..(Base - 1)
                      /\ r[i + k - 1] + by * b[k] + c[k - 1] = Base * c[k] + w[k]
  <2> TAKE k \in 1..n
  <2>1. PICK l, e, t, a : l = r[i + k - 1] /\ e = c[k - 1] /\ t = b[k] /\ a = l + by * t + e
    OBVIOUS
  <2>2. l \in Nat /\ e \in Nat /\ t \in Nat /\ by \in Nat
    BY <1>4, <2>1, BaseIs
  <2>3. a \in Int
    BY <2>1, <2>2
  <2>4. PICK o \in Int, z \in 0..(Base - 1) : o = a \div Base /\ z = a % Base /\ a = Base * o + z
    BY <2>3, BaseIs, DivMod
  <2>5. k \in 0..n /\ k # 0
    BY <1>2
  <2>6. c[k] = o
    BY <1>3, <2>1, <2>4, <2>5
  <2>7. w[k] = z
    BY <1>1, <2>1, <2>4
  <2> QED
    BY <2>1, <2>4, <2>6, <2>7
<1>6. w \in LimbSeq /\ Len(w) = n /\ w \in Seq(Int)
  <2>1. w \in [1..n -> 0..(Base - 1)]
    BY <1>1, <1>5
  <2>2. w \in LimbSeq /\ Len(w) = n
    BY <1>2, <2>1, LimbFunction
  <2> QED
    BY <2>2, LimbSeqIs
<1>7. old \in LimbSeq /\ Len(old) = n /\ old \in Seq(Int)
  <2>1. old \in [1..n -> 0..(Base - 1)]
    BY <1>1, <1>4
  <2>2. old \in LimbSeq /\ Len(old) = n
    BY <1>2, <2>1, LimbFunction
  <2> QED
    BY <2>2, LimbSeqIs
<1>8. PICK F, G, X : /\ F = ValuesFrom(old) /\ G = ValuesFrom(b)
                     /\ X = [k \in 1..(n + 1) |-> F[k] + by * G[k]]
  OBVIOUS
<1>9. /\ F[n + 1] = 0 /\ \A k \in 1..n : F[k] = old[k] + Base * F[k + 1]
      /\ \A k \in 1..(n + 1) : F[k] \in Int
  BY <1>7, <1>8, ValuesFromIs
<1>10. /\ G[n + 1] = 0 /\ \A k \in 1..n : G[k] = b[k] + Base * G[k + 1]
       /\ \A k \in 1..(n + 1) : G[k] \in Int
  BY <1>1, <1>2, <1>8, ValuesFromIs
<1>11. by \in Int /\ Base \in Int
  BY BaseIs
<1>12. X \in [1..(n + 1) -> Int] /\ X[n + 1] = 0
  <2>1. n + 1 \in 1..(n + 1) /\ by * 0 = 0
    BY <1>2, <1>11
  <2>2. X[n + 1] = 0
    BY <1>8, <1>9, <1>10, <2>1
  <2>3. \A k \in 1..(n + 1) : F[k] + by * G[k] \in Int
    BY <1>9, <1>10, <1>11
  <2>4. X \in [1..(n + 1) -> Int]
    BY <1>8, <2>3
  <2> QED
    BY <2>2, <2>4
<1>13. \A k \in 1..n : X[k] + c[k - 1] = w[k] + Base * (X[k + 1] + c[k])
  <2> TAKE k \in 1..n
  <2>1. k \in 1..(n + 1) /\ k + 1 \in 1..(n + 1)
    BY <1>2
  <2>2. PICK l, t, e, o, z, f, g : /\ l = old[k] /\ t = b[k] /\ e = c[k - 1] /\ o = c[k]
                                   /\ z = w[k] /\ f = F[k + 1] /\ g = G[k + 1]
    OBVIOUS
  <2>3. /\ l \in Int /\ t \in Int /\ e \in Int /\ o \in Int /\ z \in Int /\ f \in Int /\ g \in Int
    <3>1. l \in Int /\ t \in Int /\ z \in Int
      BY <1>1, <1>4, <1>5, <2>2, BaseIs
    <3>2. e \in Int /\ o \in Int /\ f \in Int /\ g \in Int
      BY <1>4, <1>9, <1>10, <2>1, <2>2, BaseIs
    <3> QED
      BY <3>1, <3>2
  <2>4. l + by * t + e = Base * o + z
    BY <1>1, <1>5, <2>2
  <2>5. X[k] = (l + Base * f) + by * (t + Base * g) /\ X[k + 1] = f + by * g
    BY <1>8, <1>9, <1>10, <2>1, <2>2
  <2>6. by * (t + Base * g) = by * t + Base * (by * g) /\ by * t \in Int /\ by * g \in Int
    BY <1>11, <2>3
  <2>7. PICK p, h : p = by * t /\ h = by * g
    OBVIOUS
  <2>8. p \in Int /\ h \in Int /\ l + p + e = Base * o + z
    BY <2>4, <2>6, <2>7
  <2>9. (l + Base * f) + (p + Base * h) + e = z + Base * ((f + h) + o)
    <3>1. Base * ((f + h) + o) = Base * f + Base * h + Base * o
      BY <1>11, <2>3, <2>8
    <3>2. Base * f \in Int /\ Base * h \in Int /\ Base * o \in Int
      BY <1>11, <2>3, <2>8
    <3>3. PICK bf, bh, bo, b2 : /\ bf = Base * f /\ bh = Base * h /\ bo = Base * o
                                /\ b2 = Base * ((f + h) + o)
      OBVIOUS
    <3>4. bf \in Int /\ bh \in Int /\ bo \in Int /\ b2 = bf + bh + bo /\ l + p + e = bo + z
      BY <2>8, <3>1, <3>2, <3>3
    <3>5. (l + bf) + (p + bh) + e = z + b2
      BY <2>3, <2>8, <3>4
    <3> QED
      BY <3>3, <3>5
  <2> QED
    BY <2>2, <2>5, <2>6, <2>7, <2>9
<1>14. X[1] + c[0] = Magnitude(w) + Power(Base, n) * c[n]
  <2>1. c \in [0..n -> Int]
    BY <1>3, BaseIs
  <2>2. w \in Seq(Int) /\ n \in Nat /\ Len(w) = n
    BY <1>2, <1>6
  <2>3. X \in [1..(n + 1) -> Int] /\ X[n + 1] = 0
    BY <1>12
  <2> QED
    BY <1>13, <2>1, <2>2, <2>3, CarryWalk
<1>15. c[0] = 0 /\ 0 \in 0..n /\ n \in 0..n /\ c[n] \in 0..(Base - 1)
  BY <1>2, <1>3
<1>16. PICK top : top = r[i + n] + c[n]
  OBVIOUS
<1>17. top = c[n] /\ top \in 0..(Base - 1) /\ top \in Int /\ r[i + n] = 0
  <2>1. i + n \in (i + n)..Len(r)
    BY <1>2
  <2>2. r[i + n] = 0
    BY <1>1, <2>1
  <2> QED
    BY <1>15, <1>16, <2>2, BaseIs
<1>18. R = Replaced(r, i - 1, w, top)
  <2>1. [k \in DOMAIN b |-> (r[i + k - 1] + by * b[k] + c[k - 1]) % Base] = w
    BY <1>1, <1>2
  <2> QED
    BY <1>1, <1>16, <2>1 DEF Row
<1>19. i - 1 \in Nat /\ (i - 1) + Len(w) + 1 = i + n /\ (i - 1) + Len(w) + 1 <= Len(r)
  BY <1>2, <1>6
<1>20. /\ R \in Seq(Int) /\ Len(R) = Len(r)
       /\ \A k \in 1..(i - 1) : R[k] = r[k]
       /\ \A k \in 1..n : R[(i - 1) + k] = w[k]
       /\ \A k \in (i + n)..Len(r) : R[k] = IF k = i + n THEN top ELSE r[k]
  <2>1. /\ Replaced(r, i - 1, w, top) \in Seq(Int) /\ Len(Replaced(r, i - 1, w, top)) = Len(r)
        /\ \A k \in 1..(i - 1) : Replaced(r, i - 1, w, top)[k] = r[k]
        /\ \A k \in 1..Len(w) : Replaced(r, i - 1, w, top)[(i - 1) + k] = w[k]
        /\ \A k \in ((i - 1) + Len(w) + 1)..Len(r) :
              Replaced(r, i - 1, w, top)[k] = IF k = (i - 1) + Len(w) + 1 THEN top ELSE r[k]
    <3>1. /\ r \in Seq(Int) /\ i - 1 \in Nat /\ w \in Seq(Int) /\ top \in Int
          /\ (i - 1) + Len(w) + 1 <= Len(r)
      BY <1>2, <1>6, <1>17, <1>19
    <3> QED
      BY <3>1, ReplacedIs
  <2> QED
    BY <1>6, <1>18, <1>19, <2>1, Zenon
<1>21. R \in LimbSeq
  <2>1. \A k \in 1..Len(r) : R[k] \in 0..(Base - 1)
    <3> TAKE k \in 1..Len(r)
    <3>1. CASE k < i
      BY <1>2, <1>20, <3>1, LimbSeqIs
    <3>2. CASE i <= k /\ k < i + n
      <4>1. k - (i - 1) \in 1..n /\ (i - 1) + (k - (i - 1)) = k
        BY <1>2, <3>2
      <4> QED
        BY <1>5, <1>20, <4>1
    <3>3. CASE k >= i + n
      <4>1. k \in (i + n)..Len(r)
        BY <1>2, <3>3
      <4>2. R[k] = IF k = i + n THEN top ELSE r[k]
        BY <1>20, <4>1
      <4>3. r[k] \in 0..(Base - 1)
        BY LimbSeqIs
      <4> QED
        BY <1>17, <4>2, <4>3
    <3> QED
      BY <1>2, <3>1, <3>2, <3>3
  <2>2. R \in [1..Len(r) -> 0..(Base - 1)]
    BY <1>20, <2>1
  <2> QED
    BY <1>2, <2>2, LimbFunction
<1>22. \A k \in (i + n + 1)..Len(r) : R[k] = 0
  <2>1. \A k \in (i + n + 1)..Len(r) : k \in (i + n)..Len(r) /\ k # i + n
    BY <1>2
  <2>2. \A k \in (i + n)..Len(r) : r[k] = 0
    BY <1>1
  <2> QED
    BY <1>20, <2>1, <2>2
<1>23. ValuesFrom(R)[(i - 1) + 1] =
         ValuesFrom(r)[(i - 1) + 1] + Magnitude(w) - Magnitude(old)
            + Power(Base, Len(w)) * (top - r[(i - 1) + Len(w) + 1])
  <2>1. Len(old) = Len(w) /\ \A k \in 1..Len(w) : r[(i - 1) + k] = old[k]
    <3>1. \A k \in 1..n : (i - 1) + k = i + k - 1
      BY <1>2
    <3> QED
      BY <1>1, <1>6, <1>7, <3>1
  <2>2. /\ r \in Seq(Int) /\ i - 1 \in Nat /\ old \in Seq(Int) /\ w \in Seq(Int)
        /\ top \in Int /\ Len(old) = Len(w) /\ (i - 1) + Len(w) + 1 <= Len(r)
        /\ \A k \in 1..Len(w) : r[(i - 1) + k] = old[k]
    BY <1>2, <1>6, <1>7, <1>17, <1>19, <2>1
  <2>3. ValuesFrom(Replaced(r, i - 1, w, top))[(i - 1) + 1] =
         ValuesFrom(r)[(i - 1) + 1] + Magnitude(w) - Magnitude(old)
            + Power(Base, Len(w)) * (top - r[(i - 1) + Len(w) + 1])
    BY <2>2, ReplacedWorth
  <2> QED
    BY <1>18, <2>3
<1>24. PICK P, e, f, g, h, z : /\ P = Power(Base, n) /\ e = ValuesFrom(R)[(i - 1) + 1]
                               /\ f = ValuesFrom(r)[(i - 1) + 1] /\ g = Magnitude(w)
                               /\ h = Magnitude(old) /\ z = Magnitude(b)
  OBVIOUS
<1>25. P \in Int /\ e \in Int /\ f \in Int /\ g \in Int /\ h \in Int /\ z \in Int
  <2>1. P \in Int
    BY <1>2, <1>24, BaseIs, PowerIs
  <2>2. g \in Int /\ h \in Int /\ z \in Int
    BY <1>6, <1>7, <1>24, WorthBelow
  <2>3. (i - 1) + 1 \in 1..(Len(r) + 1) /\ (i - 1) + 1 \in 1..(Len(R) + 1)
    BY <1>2, <1>20
  <2>4. e \in Int /\ f \in Int
    BY <1>2, <1>20, <1>24, <2>3, ValuesFromIs
  <2> QED
    BY <2>1, <2>2, <2>4
<1>26. e = f + by * z
  <2>1. h + by * z + 0 = g + P * top
    <3>1. X[1] = h + by * z
      <4>1. 1 \in 1..(n + 1)
        BY <1>2
      <4> QED
        BY <1>8, <1>24, <4>1 DEF Magnitude
    <3> QED
      BY <1>14, <1>15, <1>17, <1>24, <3>1
  <2>2. r[(i - 1) + Len(w) + 1] = 0 /\ top - 0 = top
    BY <1>1, <1>17, <1>19
  <2>3. e = f + g - h + P * top
    BY <1>6, <1>23, <1>24, <2>2
  <2>4. P * top \in Int /\ by * z \in Int
    BY <1>11, <1>17, <1>25
  <2> QED
    BY <1>25, <2>1, <2>3, <2>4
<1>27. Magnitude(R) - Magnitude(r) = Power(Base, i - 1) * (e - f)
  <2>1. /\ R \in Seq(Int) /\ r \in Seq(Int) /\ i - 1 \in Nat /\ i - 1 <= Len(R) /\ i - 1 <= Len(r)
        /\ \A k \in 1..(i - 1) : R[k] = r[k]
    BY <1>2, <1>19, <1>20
  <2> QED
    BY <1>24, <2>1, SameBelow
<1>28. Magnitude(R) = Magnitude(r) + Power(Base, i - 1) * (by * z)
  <2>1. e - f = by * z /\ by * z \in Int
    BY <1>11, <1>25, <1>26
  <2>2. Magnitude(R) \in Int /\ Magnitude(r) \in Int
    BY <1>21, WorthBelow
  <2>3. Power(Base, i - 1) \in Int
    BY <1>19, BaseIs, PowerIs
  <2>4. PICK a, o, t : a = Magnitude(R) /\ o = Magnitude(r) /\ t = Power(Base, i - 1) * (by * z)
    OBVIOUS
  <2>5. t \in Int /\ a - o = t
    BY <1>27, <2>1, <2>3, <2>4
  <2>6. a = o + t
    BY <2>2, <2>4, <2>5
  <2> QED
    BY <2>4, <2>6
<1> QED
  BY <1>1, <1>20, <1>21, <1>22, <1>24, <1>28

\* What i rows have made of the product: zeros above them, and the worth of
\* the first i limbs of a times b.
RowsUpTo(r, i, a, b) ==
    /\ r \in LimbSeq /\ Len(r) = Len(a) + Len(b)
    /\ \A k \in (i + Len(b) + 1)..Len(r) : r[k] = 0
    /\ Magnitude(r) = (Magnitude(a) - Power(Base, i) * ValuesFrom(a)[i + 1]) * Magnitude(b)

\* Before the first row, nothing is multiplied.
LEMMA NoRows ==
    ASSUME NEW a \in LimbSeq, NEW b \in LimbSeq
    PROVE  RowsUpTo([k \in 1..(Len(a) + Len(b)) |-> 0], 0, a, b)
<1>1. PICK N, r : N = Len(a) + Len(b) /\ r = [k \in 1..N |-> 0]
  OBVIOUS
<1>2. N \in Nat
  BY <1>1, LimbSeqIs
<1>3. r \in LimbSeq /\ Len(r) = N
  <2>1. 0 \in 0..(Base - 1)
    BY BaseIs
  <2>2. r \in [1..N -> 0..(Base - 1)]
    BY <1>1, <2>1
  <2> QED
    BY <1>2, <2>2, LimbFunction
<1>4. \A k \in 1..N : r[k] = 0
  BY <1>1
<1>5. \A k \in (0 + Len(b) + 1)..Len(r) : r[k] = 0
  <2>1. \A k \in (0 + Len(b) + 1)..Len(r) : k \in 1..N
    BY <1>1, <1>3, LimbSeqIs
  <2> QED
    BY <1>4, <2>1
<1>6. Magnitude(r) = 0
  <2>1. r \in Seq(Int) /\ Len(r) \in Nat
    BY <1>3, LimbSeqIs
  <2>2. 0 \in 0..Len(r) /\ \A k \in (0 + 1)..Len(r) : r[k] = 0
    BY <1>2, <1>3, <1>4
  <2>3. \A k \in (0 + 1)..(Len(r) + 1) : ValuesFrom(r)[k] = 0
    BY <2>1, <2>2, ZerosAbove
  <2>4. 1 \in (0 + 1)..(Len(r) + 1)
    BY <2>1
  <2> QED
    BY <2>3, <2>4 DEF Magnitude
<1>7. (Magnitude(a) - Power(Base, 0) * ValuesFrom(a)[0 + 1]) * Magnitude(b) = 0
  <2>1. PICK M, z : M = Magnitude(a) /\ z = Magnitude(b)
    OBVIOUS
  <2>2. M \in Int /\ z \in Int
    BY <2>1, WorthBelow
  <2>3. ValuesFrom(a)[0 + 1] = M /\ Power(Base, 0) = 1
    BY <2>1, BaseIs, PowerIs DEF Magnitude
  <2>4. (M - 1 * M) * z = 0
    BY <2>2
  <2> QED
    BY <2>1, <2>3, <2>4
<1>8. RowsUpTo(r, 0, a, b)
  BY <1>1, <1>3, <1>5, <1>6, <1>7 DEF RowsUpTo
<1> QED
  BY <1>1, <1>8

\* Each row adds one limb's share of the product (lines 60-80).
LEMMA OneMoreRow ==
    ASSUME NEW a \in LimbSeq, NEW b \in LimbSeq, NEW i \in 1..Len(a), NEW r,
           RowsUpTo(r, i - 1, a, b)
    PROVE  RowsUpTo(IF a[i] = 0 THEN r ELSE Row(r, i, a[i], b), i, a, b)
<1>1. PICK l, n, s : l = a[i] /\ n = Len(b) /\ s = IF l = 0 THEN r ELSE Row(r, i, l, b)
  OBVIOUS
<1>2. /\ n \in Nat /\ Len(a) \in Nat /\ i \in Nat \ {0} /\ i <= Len(a) /\ i - 1 \in Nat
      /\ (i - 1) + n + 1 = i + n /\ (i - 1) + 1 = i
  BY <1>1, LimbSeqIs
<1>3. l \in 0..(Base - 1)
  BY <1>1, LimbSeqIs
<1>4. /\ r \in LimbSeq /\ Len(r) = Len(a) + n
      /\ \A k \in (i + n)..Len(r) : r[k] = 0
      /\ Magnitude(r) = (Magnitude(a) - Power(Base, i - 1) * ValuesFrom(a)[i]) * Magnitude(b)
  BY <1>1, <1>2 DEF RowsUpTo
<1>5. PICK P, F, g, z, M : /\ P = Power(Base, i - 1) /\ F = ValuesFrom(a) /\ g = F[i + 1]
                           /\ z = Magnitude(b) /\ M = Magnitude(a)
  OBVIOUS
<1>6. /\ P \in Int /\ g \in Int /\ z \in Int /\ M \in Int /\ l \in Int /\ Base \in Int
      /\ F[i] = l + Base * g /\ Power(Base, i) = Base * P
  <2>1. P \in Int /\ Power(Base, (i - 1) + 1) = Base * P
    BY <1>2, <1>5, BaseIs, PowerIs
  <2>2. z \in Int /\ M \in Int /\ l \in Int
    BY <1>3, <1>5, BaseIs, WorthBelow
  <2>3. i + 1 \in 1..(Len(a) + 1) /\ a \in Seq(Int)
    BY <1>2, LimbSeqIs
  <2>4. g \in Int /\ F[i] = l + Base * g
    BY <1>1, <1>5, <2>3, ValuesFromIs
  <2> QED
    BY <1>2, <2>1, <2>2, <2>4, BaseIs
<1>7. Magnitude(r) = (M - P * (l + Base * g)) * z
  BY <1>4, <1>5, <1>6
<1>8. CASE l = 0
  <2>1. P * (l + Base * g) = (Base * P) * g
    BY <1>6, <1>8
  <2>2. Magnitude(s) = (M - Power(Base, i) * F[i + 1]) * z
    BY <1>1, <1>5, <1>6, <1>7, <1>8, <2>1
  <2>3. \A k \in (i + n + 1)..Len(r) : k \in (i + n)..Len(r)
    BY <1>2, <1>4, LimbSeqIs
  <2>4. \A k \in (i + n + 1)..Len(r) : r[k] = 0
    BY <1>4, <2>3
  <2>5. s = r
    BY <1>1, <1>8
  <2> QED
    BY <1>1, <1>4, <1>5, <2>2, <2>4, <2>5 DEF RowsUpTo
<1>9. CASE l # 0
  <2>1. s = Row(r, i, l, b)
    BY <1>1, <1>9
  <2>2. /\ s \in LimbSeq /\ Len(s) = Len(r)
        /\ \A k \in (i + n + 1)..Len(r) : s[k] = 0
        /\ Magnitude(s) = Magnitude(r) + P * (l * z)
    <3>1. i + Len(b) <= Len(r) /\ \A k \in (i + Len(b))..Len(r) : r[k] = 0
      BY <1>1, <1>2, <1>4
    <3>2. /\ Row(r, i, l, b) \in LimbSeq /\ Len(Row(r, i, l, b)) = Len(r)
          /\ \A k \in (i + Len(b) + 1)..Len(r) : Row(r, i, l, b)[k] = 0
          /\ Magnitude(Row(r, i, l, b)) = Magnitude(r) + Power(Base, i - 1) * (l * Magnitude(b))
      BY <1>2, <1>3, <1>4, <3>1, RowIs
    <3> QED
      BY <1>1, <1>5, <2>1, <3>2
  <2>3. (M - P * (l + Base * g)) * z + P * (l * z) = (M - (Base * P) * g) * z
    <3>1. P * (l + Base * g) = P * l + (Base * P) * g
      BY <1>6
    <3>2. PICK e, f : e = P * l /\ f = (Base * P) * g
      OBVIOUS
    <3>3. e \in Int /\ f \in Int
      BY <1>6, <3>2
    <3>4. P * (l * z) = e * z
      BY <1>6, <3>2
    <3>5. (M - (e + f)) * z + e * z = (M - f) * z
      BY <1>6, <3>3
    <3> QED
      BY <3>1, <3>2, <3>4, <3>5
  <2>4. Magnitude(s) = (M - Power(Base, i) * F[i + 1]) * z
    BY <1>5, <1>6, <1>7, <2>2, <2>3
  <2> QED
    BY <1>1, <1>4, <1>5, <2>2, <2>4 DEF RowsUpTo
<1> QED
  BY <1>8, <1>9

\* Every row on the way.
LEMMA RowsIs ==
    ASSUME NEW a \in LimbSeq, NEW b \in LimbSeq
    PROVE  \A i \in 0..Len(a) : RowsUpTo(Rows(a, b)[i], i, a, b)
<1>1. PICK N, zeros : N = Len(a) /\ zeros = [k \in 1..(Len(a) + Len(b)) |-> 0]
  OBVIOUS
<1>2. N \in Nat /\ zeros \in LimbSeq /\ RowsUpTo(zeros, 0, a, b)
  BY <1>1, NoRows, LimbSeqIs DEF RowsUpTo
<1> DEFINE next(i, r) == IF a[i] = 0 THEN r ELSE Row(r, i, a[i], b)
           Body(f) == [i \in 0..N |-> IF i = 0 THEN zeros ELSE next(i, f[i - 1])]
<1>3. ASSUME NEW i \in 1..N, NEW r, RowsUpTo(r, i - 1, a, b)
      PROVE  RowsUpTo(next(i, r), i, a, b) /\ next(i, r) \in LimbSeq
  <2>1. RowsUpTo(next(i, r), i, a, b)
    BY <1>1, <1>3, OneMoreRow
  <2> QED
    BY <2>1 DEF RowsUpTo
<1>4. PICK step : step = [p \in (1..N) \X LimbSeq |->
                            IF next(p[1], p[2]) \in LimbSeq THEN next(p[1], p[2]) ELSE p[2]]
  OBVIOUS
<1> HIDE DEF next
<1>5. \A i \in 1..N, r \in LimbSeq : next(i, r) \in LimbSeq => step[<<i, r>>] = next(i, r)
  BY <1>4
<1>6. step \in [(1..N) \X LimbSeq -> LimbSeq]
  BY <1>4
<1>7. PICK F : GoesUp(F, N, LimbSeq, zeros, step)
  BY <1>2, <1>6, DefinedUp
<1>8. F \in [0..N -> LimbSeq] /\ F[0] = zeros /\ \A i \in 1..N : F[i] = step[<<i, F[i - 1]>>]
  BY <1>7 DEF GoesUp
<1>9. \A i \in 0..N : RowsUpTo(F[i], i, a, b)
  <2> DEFINE S == {i \in 0..N : RowsUpTo(F[i], i, a, b)}
  <2>1. 0 \in S
    BY <1>2, <1>8
  <2>2. ASSUME NEW i \in 1..N, i - 1 \in S
        PROVE  i \in S
    <3>1. RowsUpTo(F[i - 1], i - 1, a, b) /\ F[i - 1] \in LimbSeq /\ i \in 0..N
      BY <1>8, <2>2
    <3>2. RowsUpTo(next(i, F[i - 1]), i, a, b) /\ next(i, F[i - 1]) \in LimbSeq
      BY <1>3, <3>1
    <3>3. F[i] = next(i, F[i - 1])
      BY <1>5, <1>8, <3>1, <3>2
    <3> QED
      BY <3>1, <3>2, <3>3
  <2> HIDE DEF S
  <2>3. \A i \in 0..N : i \in S
    BY <1>2, <2>1, <2>2, UpTo
  <2> QED
    BY <2>3 DEF S
<1>10. F = Body(F)
  <2>1. \A i \in 1..N : F[i] = next(i, F[i - 1])
    <3> TAKE i \in 1..N
    <3>1. i - 1 \in 0..N
      BY <1>2
    <3>2. RowsUpTo(F[i - 1], i - 1, a, b) /\ F[i - 1] \in LimbSeq
      BY <1>8, <1>9, <3>1
    <3>3. next(i, F[i - 1]) \in LimbSeq
      BY <1>3, <3>2
    <3> QED
      BY <1>5, <1>8, <3>2, <3>3
  <2>2. \A i \in 0..N : F[i] = IF i = 0 THEN zeros ELSE next(i, F[i - 1])
    <3> TAKE i \in 0..N
    <3>1. i = 0 \/ i \in 1..N
      BY <1>2
    <3> QED
      BY <1>8, <2>1, <3>1
  <2>3. F = [i \in 0..N |-> F[i]]
    BY <1>8
  <2> QED
    BY <2>2, <2>3
<1>11. PICK G : G = Rows(a, b)
  OBVIOUS
<1>12. G = Body(G)
  <2>1. G = CHOOSE f : f = Body(f)
    BY <1>1, <1>11 DEF Rows, next
  <2> HIDE DEF Body
  <2> QED
    BY <1>10, <2>1
<1>13. \A i \in 0..N : G[i] = IF i = 0 THEN zeros ELSE next(i, G[i - 1])
  BY <1>12, Zenon
<1>14. \A i \in 0..N : RowsUpTo(G[i], i, a, b)
  <2> DEFINE S == {i \in 0..N : RowsUpTo(G[i], i, a, b)}
  <2>1. 0 \in S
    <3>1. 0 \in 0..N
      BY <1>2
    <3> QED
      BY <1>2, <1>13, <3>1
  <2>2. ASSUME NEW i \in 1..N, i - 1 \in S
        PROVE  i \in S
    <3>1. i \in 0..N /\ i # 0 /\ RowsUpTo(G[i - 1], i - 1, a, b)
      BY <1>2, <2>2
    <3>2. RowsUpTo(next(i, G[i - 1]), i, a, b)
      BY <1>3, <3>1
    <3>3. G[i] = next(i, G[i - 1])
      BY <1>13, <3>1
    <3> QED
      BY <3>1, <3>2, <3>3
  <2> HIDE DEF S
  <2>3. \A i \in 0..N : i \in S
    BY <1>2, <2>1, <2>2, UpTo
  <2> QED
    BY <2>3 DEF S
<1> QED
  BY <1>1, <1>11, <1>14

\* The schoolbook product is the product.
LEMMA MulMagnitudesIs ==
    ASSUME NEW a \in LimbSeq, NEW b \in LimbSeq
    PROVE  /\ MulMagnitudes(a, b) \in LimbSeq /\ Trimmed(MulMagnitudes(a, b))
           /\ Magnitude(MulMagnitudes(a, b)) = Magnitude(a) * Magnitude(b)
<1>1. PICK r, N : r = Rows(a, b)[Len(a)] /\ N = Len(a)
  OBVIOUS
<1>2. N \in Nat /\ a \in Seq(Int)
  BY <1>1, LimbSeqIs
<1>3. r \in LimbSeq /\ Magnitude(r) = (Magnitude(a) - Power(Base, N) * ValuesFrom(a)[N + 1]) * Magnitude(b)
  <2>1. N \in 0..Len(a)
    BY <1>1, <1>2
  <2>2. RowsUpTo(r, N, a, b)
    BY <1>1, <2>1, RowsIs
  <2> QED
    BY <2>2 DEF RowsUpTo
<1>4. ValuesFrom(a)[N + 1] = 0
  BY <1>1, <1>2, ValuesFromIs
<1>5. (Magnitude(a) - Power(Base, N) * 0) * Magnitude(b) = Magnitude(a) * Magnitude(b)
  <2>1. PICK M, P, z : M = Magnitude(a) /\ P = Power(Base, N) /\ z = Magnitude(b)
    OBVIOUS
  <2>2. M \in Int /\ P \in Int /\ z \in Int
    BY <1>2, <2>1, BaseIs, PowerIs, WorthBelow
  <2>3. M - P * 0 = M
    BY <2>2
  <2> QED
    BY <2>1, <2>3
<1>6. MulMagnitudes(a, b) = Trim(r)
  BY <1>1 DEF MulMagnitudes
<1> QED
  BY <1>3, <1>4, <1>5, <1>6, TrimIs

-------------------------------------------------------------------------------
(* Short division *)

\* The remainders of a short division stay below the divisor.
LEMMA RemaindersIs ==
    ASSUME NEW m \in LimbSeq, NEW by \in Nat \ {0}
    PROVE  \A i \in 1..(Len(m) + 1) :
              /\ Remainders(m, by)[i] \in 0..(by - 1)
              /\ Remainders(m, by)[i] = IF i = Len(m) + 1 THEN 0
                                        ELSE (Remainders(m, by)[i + 1] * Base + m[i]) % by
<1>1. PICK N : N = Len(m)
  OBVIOUS
<1>2. N \in Nat /\ \A i \in 1..N : m[i] \in Nat
  BY <1>1, LimbSeqIs
<1> DEFINE T == 0..(by - 1)
           Body(f) == [i \in 1..(N + 1) |-> IF i = N + 1 THEN 0 ELSE (f[i + 1] * Base + m[i]) % by]
<1>3. \A i \in 1..N, r \in T : (r * Base + m[i]) % by \in T
  <2> TAKE i \in 1..N, r \in T
  <2>1. PICK a : a = r * Base + m[i]
    OBVIOUS
  <2>2. a \in Int
    BY <1>2, <2>1, BaseIs
  <2> QED
    BY <2>1, <2>2, DivMod
<1>4. PICK step : step = [p \in (1..N) \X T |-> (p[2] * Base + m[p[1]]) % by]
  OBVIOUS
<1>5. \A i \in 1..N, r \in T : step[<<i, r>>] = (r * Base + m[i]) % by
  BY <1>4
<1>6. step \in [(1..N) \X T -> T]
  <2>1. \A p \in (1..N) \X T : step[p] \in T
    <3> TAKE p \in (1..N) \X T
    <3>1. PICK i \in 1..N, r \in T : p = <<i, r>>
      OBVIOUS
    <3>2. step[<<i, r>>] \in T
      BY <1>3, <1>5
    <3> QED
      BY <3>1, <3>2
  <2> QED
    BY <1>4, <2>1
<1>7. 0 \in T
  OBVIOUS
<1>8. PICK F : GoesDown(F, N, T, 0, step)
  BY <1>2, <1>6, <1>7, DefinedDown
<1>9. F \in [1..(N + 1) -> T] /\ F[N + 1] = 0 /\ \A i \in 1..N : F[i] = step[<<i, F[i + 1]>>]
  BY <1>8 DEF GoesDown
<1>10. F = Body(F)
  <2>1. \A i \in 1..N : F[i] = (F[i + 1] * Base + m[i]) % by
    <3> TAKE i \in 1..N
    <3>1. i + 1 \in 1..(N + 1) /\ F[i + 1] \in T
      BY <1>2, <1>9
    <3> QED
      BY <1>5, <1>9, <3>1
  <2>2. \A i \in 1..(N + 1) : F[i] = IF i = N + 1 THEN 0 ELSE (F[i + 1] * Base + m[i]) % by
    <3> TAKE i \in 1..(N + 1)
    <3>1. i = N + 1 \/ i \in 1..N
      BY <1>2
    <3> QED
      BY <1>9, <2>1, <3>1
  <2>3. F = [i \in 1..(N + 1) |-> F[i]]
    BY <1>9
  <2> QED
    BY <2>2, <2>3
<1>11. PICK G : G = Remainders(m, by)
  OBVIOUS
<1>12. G = Body(G)
  <2>1. G = CHOOSE f : f = Body(f)
    BY <1>1, <1>11 DEF Remainders
  <2> HIDE DEF Body
  <2> QED
    BY <1>10, <2>1
<1>13. \A i \in 1..(N + 1) : G[i] = IF i = N + 1 THEN 0 ELSE (G[i + 1] * Base + m[i]) % by
  BY <1>12, Zenon
<1>14. \A i \in 1..(N + 1) : G[i] \in T
  <2> DEFINE S == {i \in 1..(N + 1) : G[i] \in T}
  <2>1. N + 1 \in S
    <3>1. N + 1 \in 1..(N + 1)
      BY <1>2
    <3> QED
      BY <1>7, <1>13, <3>1
  <2>2. ASSUME NEW i \in 1..N, i + 1 \in S
        PROVE  i \in S
    <3>1. i \in 1..(N + 1) /\ i # N + 1 /\ G[i + 1] \in T
      BY <1>2, <2>2
    <3>2. G[i] = (G[i + 1] * Base + m[i]) % by
      BY <1>13, <3>1
    <3> QED
      BY <1>3, <3>1, <3>2
  <2> HIDE DEF S
  <2>3. \A i \in 1..(N + 1) : i \in S
    BY <1>2, <2>1, <2>2, DownFrom
  <2> QED
    BY <2>3 DEF S
<1> QED
  BY <1>1, <1>11, <1>13, <1>14, Zenon

\* Short division is division.
LEMMA ShortDivIs ==
    ASSUME NEW m \in LimbSeq, NEW by \in Nat \ {0}
    PROVE  /\ ShortDiv(m, by).quot \in LimbSeq /\ Len(ShortDiv(m, by).quot) = Len(m)
           /\ ShortDiv(m, by).rem \in 0..(by - 1)
           /\ Magnitude(m) = by * Magnitude(ShortDiv(m, by).quot) + ShortDiv(m, by).rem
<1>1. PICK N, R, w : /\ N = Len(m) /\ R = Remainders(m, by)
                     /\ w = [i \in 1..N |-> (R[i + 1] * Base + m[i]) \div by]
  OBVIOUS
<1>2. N \in Nat /\ DOMAIN m = 1..N /\ (\A i \in 1..N : m[i] \in 0..(Base - 1)) /\ m \in Seq(Int)
  BY <1>1, LimbSeqIs
<1>3. \A i \in 1..(N + 1) :
         /\ R[i] \in 0..(by - 1)
         /\ R[i] = IF i = N + 1 THEN 0 ELSE (R[i + 1] * Base + m[i]) % by
  <2>1. \A i \in 1..(Len(m) + 1) :
              /\ Remainders(m, by)[i] \in 0..(by - 1)
              /\ Remainders(m, by)[i] = IF i = Len(m) + 1 THEN 0
                                        ELSE (Remainders(m, by)[i + 1] * Base + m[i]) % by
    BY RemaindersIs
  <2> QED
    BY <1>1, <2>1, Zenon
<1>4. ShortDiv(m, by).quot = w /\ ShortDiv(m, by).rem = R[1]
  BY <1>1, <1>2 DEF ShortDiv
<1>5. \A i \in 1..N : w[i] \in 0..(Base - 1) /\ R[i + 1] * Base + m[i] = by * w[i] + R[i]
  <2> TAKE i \in 1..N
  <2>1. i \in 1..(N + 1) /\ i + 1 \in 1..(N + 1) /\ i # N + 1
    BY <1>2
  <2>2. PICK r, l, a : r = R[i + 1] /\ l = m[i] /\ a = r * Base + l
    OBVIOUS
  <2>3. r \in Nat /\ r <= by - 1 /\ l \in Nat /\ l <= Base - 1
    BY <1>2, <1>3, <2>1, <2>2, BaseIs
  <2>4. r * Base <= (by - 1) * Base /\ r * Base \in Nat
    BY <2>3, BaseIs, ProductOrder
  <2>5. (by - 1) * Base = by * Base - Base /\ by * Base \in Nat
    BY BaseIs
  <2>6. a \in Nat /\ a < by * Base
    BY <2>2, <2>3, <2>4, <2>5, BaseIs
  <2>7. a \div by \in Nat /\ a \div by < Base
    BY <2>6, BaseIs, DivRange
  <2>8. a \in Int
    BY <2>6
  <2>9. PICK k \in Int, t \in 0..(by - 1) : k = a \div by /\ t = a % by /\ a = by * k + t
    BY <2>8, DivMod
  <2>10. R[i] = t
    BY <1>3, <2>1, <2>2, <2>9
  <2>11. w[i] = k
    BY <1>1, <2>2, <2>9
  <2>12. k \in 0..(Base - 1)
    BY <2>7, <2>9, BaseIs
  <2> QED
    BY <2>2, <2>9, <2>10, <2>11, <2>12
<1>6. w \in LimbSeq /\ Len(w) = N /\ w \in Seq(Int)
  <2>1. w \in [1..N -> 0..(Base - 1)]
    BY <1>1, <1>5
  <2>2. w \in LimbSeq /\ Len(w) = N
    BY <1>2, <2>1, LimbFunction
  <2> QED
    BY <2>2, LimbSeqIs
<1>7. PICK F, G : F = ValuesFrom(m) /\ G = ValuesFrom(w)
  OBVIOUS
<1>8. F[N + 1] = 0 /\ (\A i \in 1..N : F[i] = m[i] + Base * F[i + 1])
      /\ \A i \in 1..(N + 1) : F[i] \in Int
  BY <1>1, <1>2, <1>7, ValuesFromIs
<1>9. G[N + 1] = 0 /\ (\A i \in 1..N : G[i] = w[i] + Base * G[i + 1])
      /\ \A i \in 1..(N + 1) : G[i] \in Int
  BY <1>6, <1>7, ValuesFromIs
<1> DEFINE S == {i \in 1..(N + 1) : F[i] = by * G[i] + R[i]}
<1>10. N + 1 \in S
  <2>1. N + 1 \in 1..(N + 1) /\ by * 0 + 0 = 0
    BY <1>2
  <2>2. R[N + 1] = 0
    BY <1>3, <2>1
  <2> QED
    BY <1>8, <1>9, <2>1, <2>2
<1>11. ASSUME NEW i \in 1..N, i + 1 \in S
       PROVE  i \in S
  <2>1. i \in 1..(N + 1) /\ i + 1 \in 1..(N + 1)
    BY <1>2
  <2>2. PICK g, r, l, t, k : g = G[i + 1] /\ r = R[i + 1] /\ l = m[i] /\ t = R[i] /\ k = w[i]
    OBVIOUS
  <2>3. g \in Int /\ r \in Int /\ l \in Int /\ t \in Int /\ k \in Int /\ by \in Int /\ Base \in Int
    <3>1. g \in Int
      BY <1>9, <2>1, <2>2
    <3>2. r \in 0..(by - 1) /\ t \in 0..(by - 1)
      BY <1>3, <2>1, <2>2
    <3>3. l \in 0..(Base - 1) /\ k \in 0..(Base - 1)
      BY <1>2, <1>5, <2>2
    <3> QED
      BY <3>1, <3>2, <3>3, BaseIs
  <2>4. r * Base + l = by * k + t
    BY <1>5, <2>2
  <2>5. F[i] = l + Base * (by * g + r) /\ G[i] = k + Base * g
    BY <1>8, <1>9, <1>11, <2>2
  <2>6. l + Base * (by * g + r) = by * (k + Base * g) + t
    <3>1. Base * (by * g + r) = Base * (by * g) + r * Base
      BY <2>3
    <3>2. by * (k + Base * g) = by * k + Base * (by * g)
      BY <2>3
    <3>3. PICK e, o, p : e = Base * (by * g) /\ o = r * Base /\ p = by * k
      OBVIOUS
    <3>4. e \in Int /\ o \in Int /\ p \in Int /\ o + l = p + t
      BY <2>3, <2>4, <3>3
    <3>5. l + (e + o) = (p + e) + t
      BY <2>3, <3>4
    <3> QED
      BY <3>1, <3>2, <3>3, <3>5
  <2> QED
    BY <2>1, <2>2, <2>5, <2>6
<1> HIDE DEF S
<1>12. \A i \in 1..(N + 1) : i \in S
  BY <1>2, <1>10, <1>11, DownFrom
<1>13. 1 \in 1..(N + 1)
  BY <1>2
<1>14. 1 \in S
  BY <1>12, <1>13
<1>15. F[1] = by * G[1] + R[1]
  BY <1>14 DEF S
<1> QED
  BY <1>3, <1>4, <1>6, <1>7, <1>13, <1>15, <1>1 DEF Magnitude

-------------------------------------------------------------------------------
(* Integers *)

\* A canonical integer whose limbs are a sequence, as every one in the program.
Whole(i) ==
    /\ i \in [sign : {-1, 0, 1}, limbs : LimbSeq]
    /\ (i.sign = 0) = (i.limbs = <<>>)
    /\ Trimmed(i.limbs)

\* A number is its sign times its absolute value.
LEMMA SignIs ==
    ASSUME NEW k \in Int
    PROVE  /\ Sign(k) \in {-1, 0, 1} /\ Abs(k) \in Nat /\ Sign(k) * Abs(k) = k
           /\ (Sign(k) = 0 <=> k = 0) /\ (Abs(k) = 0 <=> k = 0)
           /\ (Sign(k) = 1 <=> k > 0) /\ (Sign(k) = -1 <=> k < 0)
  BY DEF Sign, Abs

\* What the canonical form says of an integer.
LEMMA WholeIs ==
    ASSUME NEW i, Whole(i)
    PROVE  /\ Canonical(i) /\ i.limbs \in LimbSeq /\ Trimmed(i.limbs) /\ i.sign \in {-1, 0, 1}
           /\ IntegerValue(i) \in Int /\ Magnitude(i.limbs) \in Nat
           /\ Magnitude(i.limbs) = Abs(IntegerValue(i)) /\ i.sign = Sign(IntegerValue(i))
           /\ i.limbs = <<>> <=> i.sign = 0
           /\ i = [sign |-> i.sign, limbs |-> i.limbs]
<1>1. PICK s, m, M : s = i.sign /\ m = i.limbs /\ M = Magnitude(m)
  OBVIOUS
<1>2. /\ s \in {-1, 0, 1} /\ m \in LimbSeq /\ (s = 0) = (m = <<>>) /\ Trimmed(m)
      /\ i = [sign |-> s, limbs |-> m]
  BY <1>1 DEF Whole
<1>3. M \in Nat /\ (M = 0 <=> m = <<>>)
  BY <1>1, <1>2, NoLimbs, WorthBelow
<1>4. IntegerValue(i) = s * M
  BY <1>1 DEF IntegerValue
<1>5. s * M \in Int /\ M = Abs(s * M) /\ s = Sign(s * M)
  <2>1. CASE s = 0
    <3>1. M = 0
      BY <1>2, <1>3, <2>1
    <3> QED
      BY <2>1, <3>1 DEF Abs, Sign
  <2>2. CASE s = 1
    <3>1. M > 0 /\ s * M = M
      BY <1>2, <1>3, <2>2
    <3> QED
      BY <1>3, <2>2, <3>1 DEF Abs, Sign
  <2>3. CASE s = -1
    <3>1. M > 0 /\ s * M = -M
      BY <1>2, <1>3, <2>3
    <3> QED
      BY <1>3, <2>3, <3>1 DEF Abs, Sign
  <2> QED
    BY <1>2, <2>1, <2>2, <2>3
<1>6. Limbs(m)
  BY <1>2, LimbSeqIs DEF Limbs
<1>7. Canonical(i)
  BY <1>1, <1>2, <1>6 DEF Canonical
<1>8. m = <<>> <=> s = 0
  BY <1>2
<1> QED
  BY <1>1, <1>2, <1>3, <1>4, <1>5, <1>7, <1>8

\* Two canonical integers of one value are the same.
LEMMA OneInteger ==
    ASSUME NEW a, NEW b, Whole(a), Whole(b), IntegerValue(a) = IntegerValue(b)
    PROVE  a = b
<1>1. /\ a.limbs \in LimbSeq /\ Trimmed(a.limbs) /\ a = [sign |-> a.sign, limbs |-> a.limbs]
      /\ Magnitude(a.limbs) = Abs(IntegerValue(a)) /\ a.sign = Sign(IntegerValue(a))
  BY WholeIs
<1>2. /\ b.limbs \in LimbSeq /\ Trimmed(b.limbs) /\ b = [sign |-> b.sign, limbs |-> b.limbs]
      /\ Magnitude(b.limbs) = Abs(IntegerValue(b)) /\ b.sign = Sign(IntegerValue(b))
  BY WholeIs
<1>3. a.limbs = b.limbs
  BY <1>1, <1>2, OneForm
<1> QED
  BY <1>1, <1>2, <1>3

\* Zero is canonical.
LEMMA ZeroIs == Whole(Zero) /\ IntegerValue(Zero) = 0
<1>1. Zero \in [sign : {-1, 0, 1}, limbs : LimbSeq] /\ Zero.sign = 0 /\ Zero.limbs = <<>>
  BY NoLimbs DEF Zero
<1>2. 0 * Magnitude(<<>>) = 0
  BY NoLimbs
<1> QED
  BY <1>1, <1>2, NoLimbs DEF Whole, IntegerValue

\* Building from a sign and limbs gives the canonical form (lines 250-256).
LEMMA MkIs ==
    ASSUME NEW s \in {-1, 0, 1}, NEW m \in LimbSeq, s = 0 => Magnitude(m) = 0
    PROVE  Whole(Mk(s, m)) /\ IntegerValue(Mk(s, m)) = s * Magnitude(m)
<1>1. PICK t : t = Trim(m)
  OBVIOUS
<1>2. t \in LimbSeq /\ Trimmed(t) /\ Magnitude(t) = Magnitude(m) /\ Magnitude(m) \in Nat
  BY <1>1, TrimIs, WorthBelow
<1>3. Magnitude(t) = 0 <=> t = <<>>
  BY <1>2, NoLimbs
<1>4. CASE t = <<>>
  <2>1. Mk(s, m) = Zero /\ Magnitude(m) = 0 /\ s * 0 = 0
    BY <1>1, <1>2, <1>3, <1>4 DEF Mk
  <2> QED
    BY <2>1, ZeroIs
<1>5. CASE t # <<>>
  <2>1. Mk(s, m) = [sign |-> s, limbs |-> t]
    BY <1>1, <1>5 DEF Mk
  <2>2. s # 0
    BY <1>2, <1>3, <1>5
  <2>3. [sign |-> s, limbs |-> t] \in [sign : {-1, 0, 1}, limbs : LimbSeq]
    BY <1>2
  <2> QED
    BY <1>2, <1>5, <2>1, <2>2, <2>3 DEF Whole, IntegerValue
<1> QED
  BY <1>4, <1>5

\* Boxing a machine number keeps its value (lines 273-286).
LEMMA BoxIs ==
    ASSUME NEW k \in Int
    PROVE  Whole(Box(k)) /\ IntegerValue(Box(k)) = k
<1>1. CASE k = 0
  <2>1. Box(k) = Zero
    BY <1>1 DEF Box
  <2> QED
    BY <1>1, <2>1, ZeroIs
<1>2. CASE k # 0
  <2>1. PICK s, l, m : s = Sign(k) /\ l = Abs(k) /\ m = LimbsOf(l)
    OBVIOUS
  <2>2. s \in {-1, 1} /\ l \in Nat /\ l # 0 /\ s * l = k
    BY <1>2, <2>1, SignIs
  <2>3. m \in LimbSeq /\ Trimmed(m) /\ Magnitude(m) = l
    BY <2>1, <2>2, LimbsOfIs
  <2>4. m # <<>>
    BY <2>2, <2>3, NoLimbs
  <2>5. Box(k) = [sign |-> s, limbs |-> m]
    BY <1>2, <2>1 DEF Box
  <2>6. [sign |-> s, limbs |-> m] \in [sign : {-1, 0, 1}, limbs : LimbSeq]
    BY <2>2, <2>3
  <2> QED
    BY <2>2, <2>3, <2>4, <2>5, <2>6 DEF Whole, IntegerValue
<1> QED
  BY <1>1, <1>2

\* The limbs of a boxed number.
LEMMA BoxLimbs ==
    ASSUME NEW k \in Int
    PROVE  /\ Box(k).limbs \in LimbSeq /\ Trimmed(Box(k).limbs)
           /\ Magnitude(Box(k).limbs) = Abs(k) /\ Box(k).sign = Sign(k)
<1>1. Whole(Box(k)) /\ IntegerValue(Box(k)) = k
  BY BoxIs
<1> QED
  BY <1>1, WholeIs

\* Two limbs are read natively.
LEMMA SmallIs ==
    ASSUME NEW i, Whole(i), IsSmall(i)
    PROVE  Small(i) = IntegerValue(i)
<1>1. PICK m, s, F : m = i.limbs /\ s = i.sign /\ F = ValuesFrom(m)
  OBVIOUS
<1>2. m \in LimbSeq /\ s \in {-1, 0, 1}
  BY <1>1, WholeIs
<1>3. Len(m) \in {0, 1, 2} /\ DOMAIN m = 1..Len(m) /\ m \in Seq(Int)
      /\ \A k \in 1..Len(m) : m[k] \in Nat
  <2>1. Len(m) \in Nat /\ DOMAIN m = 1..Len(m) /\ m \in Seq(Int) /\ \A k \in 1..Len(m) : m[k] \in Nat
    BY <1>2, LimbSeqIs
  <2>2. Len(m) <= 2
    BY <1>1 DEF IsSmall
  <2> QED
    BY <2>1, <2>2
<1>4. Small(i) = s * (Limb(m, 1) + Base * Limb(m, 2)) /\ IntegerValue(i) = s * F[1]
  BY <1>1 DEF Small, IntegerValue, Magnitude
<1>5. F[Len(m) + 1] = 0 /\ \A k \in 1..Len(m) : F[k] = m[k] + Base * F[k + 1]
  BY <1>1, <1>3, ValuesFromIs
<1>6. Limb(m, 1) + Base * Limb(m, 2) = F[1]
  <2>1. CASE Len(m) = 0
    BY <1>3, <1>5, <2>1, BaseIs DEF Limb
  <2>2. CASE Len(m) = 1
    <3>1. 1 \in 1..Len(m) /\ 2 \notin 1..Len(m) /\ m[1] \in Int
      BY <1>3, <2>2
    <3>2. F[1] = m[1] + Base * F[2] /\ F[2] = 0
      BY <1>5, <2>2, <3>1
    <3> QED
      BY <1>3, <3>1, <3>2, BaseIs DEF Limb
  <2>3. CASE Len(m) = 2
    <3>0. 1 \in 1..Len(m) /\ 2 \in 1..Len(m)
      BY <2>3
    <3>1. 1 \in 1..Len(m) /\ 2 \in 1..Len(m) /\ m[1] \in Int /\ m[2] \in Int
      BY <1>3, <3>0
    <3>2. F[1] = m[1] + Base * F[2] /\ F[2] = m[2] + Base * F[3] /\ F[3] = 0
      BY <1>5, <2>3, <3>1
    <3>3. F[2] = m[2]
      BY <3>1, <3>2, BaseIs
    <3> QED
      BY <1>3, <3>1, <3>2, <3>3 DEF Limb
  <2> QED
    BY <1>3, <2>1, <2>2, <2>3
<1> QED
  BY <1>4, <1>6

\* Comparing limb by limb orders the values (lines 179-194).
LEMMA CmpIs ==
    ASSUME NEW a, NEW b, Whole(a), Whole(b)
    PROVE  Cmp(a, b) = Sign(IntegerValue(a) - IntegerValue(b))
<1>1. PICK s, t, m, n, v1, v2 : /\ s = a.sign /\ t = b.sign
                                /\ m = Magnitude(a.limbs) /\ n = Magnitude(b.limbs)
                                /\ v1 = IntegerValue(a) /\ v2 = IntegerValue(b)
  OBVIOUS
<1>2. /\ v1 \in Int /\ s = Sign(v1) /\ m = Abs(v1) /\ a.limbs \in LimbSeq /\ Trimmed(a.limbs)
  BY <1>1, WholeIs
<1>3. /\ v2 \in Int /\ t = Sign(v2) /\ n = Abs(v2) /\ b.limbs \in LimbSeq /\ Trimmed(b.limbs)
  BY <1>1, WholeIs
<1>4. CompareMagnitudes(a.limbs, b.limbs) = Sign(m - n)
  BY <1>1, <1>2, <1>3, CompareIs
<1>5. Cmp(a, b) = IF s # t THEN Sign(s - t) ELSE IF s = 0 THEN 0 ELSE s * Sign(m - n)
  BY <1>1, <1>4 DEF Cmp
<1> QED
  BY <1>1, <1>2, <1>3, <1>5 DEF Sign, Abs

\* Negation negates.
LEMMA NegateIs ==
    ASSUME NEW i, Whole(i)
    PROVE  Whole(Negate(i)) /\ IntegerValue(Negate(i)) = -IntegerValue(i)
<1>1. PICK s, m : s = i.sign /\ m = i.limbs
  OBVIOUS
<1>2. s \in {-1, 0, 1} /\ m \in LimbSeq /\ Trimmed(m) /\ (m = <<>> <=> s = 0)
      /\ i = [sign |-> s, limbs |-> m] /\ Magnitude(m) \in Nat
  BY <1>1, WholeIs
<1>3. Negate(i) = [sign |-> -s, limbs |-> m]
  BY <1>2 DEF Negate
<1>4. -s \in {-1, 0, 1} /\ (-s = 0 <=> s = 0) /\ (-s) * Magnitude(m) = -(s * Magnitude(m))
  BY <1>2
<1>5. [sign |-> -s, limbs |-> m] \in [sign : {-1, 0, 1}, limbs : LimbSeq]
  BY <1>2, <1>4
<1> QED
  BY <1>1, <1>2, <1>3, <1>4, <1>5 DEF Whole, IntegerValue

\* A trimmed magnitude at least as large has at least as many limbs.
LEMMA NotShorter ==
    ASSUME NEW a \in LimbSeq, NEW b \in LimbSeq, Trimmed(a), Trimmed(b), Magnitude(b) <= Magnitude(a)
    PROVE  Len(b) <= Len(a)
<1>1. Len(a) \in Nat /\ Len(b) \in Nat /\ Magnitude(a) \in Nat /\ Magnitude(b) \in Nat
  BY LimbSeqIs, WorthBelow
<1>2. CompareMagnitudes(a, b) = Sign(Magnitude(a) - Magnitude(b))
  BY CompareIs
<1>3. Sign(Magnitude(a) - Magnitude(b)) # -1
  BY <1>1 DEF Sign
<1>4. ASSUME Len(a) < Len(b)
      PROVE  CompareMagnitudes(a, b) = -1
  BY <1>1, <1>4 DEF CompareMagnitudes, Sign
<1> QED
  BY <1>1, <1>2, <1>3, <1>4

\* Addition adds.
LEMMA AddIs ==
    ASSUME NEW a, NEW b, Whole(a), Whole(b)
    PROVE  Whole(Add(a, b)) /\ IntegerValue(Add(a, b)) = IntegerValue(a) + IntegerValue(b)
<1>1. PICK s, t, la, lb, m, n, v1, v2, c :
         /\ s = a.sign /\ t = b.sign /\ la = a.limbs /\ lb = b.limbs
         /\ m = Magnitude(la) /\ n = Magnitude(lb) /\ v1 = IntegerValue(a) /\ v2 = IntegerValue(b)
         /\ c = CompareMagnitudes(la, lb)
  OBVIOUS
<1>2. /\ v1 \in Int /\ s = Sign(v1) /\ m = Abs(v1) /\ m \in Nat /\ la \in LimbSeq /\ Trimmed(la)
      /\ s \in {-1, 0, 1} /\ v1 = s * m
  BY <1>1, WholeIs DEF IntegerValue
<1>3. /\ v2 \in Int /\ t = Sign(v2) /\ n = Abs(v2) /\ n \in Nat /\ lb \in LimbSeq /\ Trimmed(lb)
      /\ t \in {-1, 0, 1} /\ v2 = t * n
  BY <1>1, WholeIs DEF IntegerValue
<1>4. c = Sign(m - n)
  BY <1>1, <1>2, <1>3, CompareIs
<1>5. CASE IsSmall(a) /\ IsSmall(b)
  <2>1. Add(a, b) = Box(Small(a) + Small(b))
    BY <1>5 DEF Add
  <2>2. Small(a) = v1 /\ Small(b) = v2
    BY <1>1, <1>5, SmallIs
  <2>3. v1 + v2 \in Int
    BY <1>2, <1>3
  <2>4. Add(a, b) = Box(v1 + v2)
    BY <2>1, <2>2
  <2> QED
    BY <1>1, <2>3, <2>4, BoxIs
<1>6. CASE ~(IsSmall(a) /\ IsSmall(b)) /\ s = 0
  <2>1. Add(a, b) = b
    BY <1>1, <1>6 DEF Add
  <2>2. v1 + v2 = v2
    BY <1>2, <1>3, <1>6 DEF Sign
  <2> QED
    BY <1>1, <2>1, <2>2
<1>7. CASE ~(IsSmall(a) /\ IsSmall(b)) /\ s # 0 /\ t = 0
  <2>1. Add(a, b) = a
    BY <1>1, <1>7 DEF Add
  <2>2. v1 + v2 = v1
    BY <1>2, <1>3, <1>7 DEF Sign
  <2> QED
    BY <1>1, <2>1, <2>2
<1>8. CASE ~(IsSmall(a) /\ IsSmall(b)) /\ s # 0 /\ t # 0
  <2>1. Add(a, b) = CASE s = t -> Mk(s, AddMagnitudes(la, lb))
                      [] s # t /\ c = 0 -> Zero
                      [] s # t /\ c > 0 -> Mk(s, SubMagnitudes(la, lb))
                      [] s # t /\ c < 0 -> Mk(t, SubMagnitudes(lb, la))
    BY <1>1, <1>8 DEF Add
  <2>2. CASE s = t
    <3>1. Add(a, b) = Mk(s, AddMagnitudes(la, lb))
      BY <2>1, <2>2
    <3>2. AddMagnitudes(la, lb) \in LimbSeq /\ Magnitude(AddMagnitudes(la, lb)) = m + n
      BY <1>1, <1>2, <1>3, AddMagnitudesIs
    <3>3. Whole(Add(a, b)) /\ IntegerValue(Add(a, b)) = s * (m + n)
      BY <1>2, <1>8, <3>1, <3>2, MkIs
    <3>4. s * (m + n) = v1 + v2
      BY <1>2, <1>3, <2>2
    <3> QED
      BY <1>1, <3>3, <3>4
  <2>3. CASE s # t /\ c = 0
    <3>1. Add(a, b) = Zero
      BY <2>1, <2>3
    <3>2. m = n
      BY <1>2, <1>3, <1>4, <2>3 DEF Sign
    <3>3. v1 + v2 = 0
      BY <1>2, <1>3, <1>8, <2>3, <3>2
    <3> QED
      BY <1>1, <3>1, <3>3, ZeroIs
  <2>4. CASE s # t /\ c > 0
    <3>1. Add(a, b) = Mk(s, SubMagnitudes(la, lb))
      BY <1>4, <2>1, <2>4, <1>2, <1>3 DEF Sign
    <3>0. m \in Nat /\ n \in Nat
      BY <1>2, <1>3
    <3>2. n < m
      BY <1>4, <2>4, <3>0 DEF Sign
    <3>7. /\ la \in LimbSeq /\ lb \in LimbSeq /\ Trimmed(la) /\ Trimmed(lb)
          /\ Magnitude(lb) <= Magnitude(la) /\ n <= m
      BY <1>1, <1>2, <1>3, <3>0, <3>2
    <3>3. Len(lb) <= Len(la) /\ n <= m
      BY <3>7, NotShorter
    <3>4. SubMagnitudes(la, lb) \in LimbSeq /\ Magnitude(SubMagnitudes(la, lb)) = m - n
      BY <1>1, <1>2, <1>3, <3>3, SubMagnitudesIs
    <3>5. Whole(Add(a, b)) /\ IntegerValue(Add(a, b)) = s * (m - n)
      BY <1>2, <1>8, <3>1, <3>4, MkIs
    <3>6. s * (m - n) = v1 + v2
      BY <1>2, <1>3, <1>8, <2>4
    <3> QED
      BY <1>1, <3>5, <3>6
  <2>5. CASE s # t /\ c < 0
    <3>1. Add(a, b) = Mk(t, SubMagnitudes(lb, la))
      BY <1>4, <2>1, <2>5, <1>2, <1>3 DEF Sign
    <3>0. m \in Nat /\ n \in Nat
      BY <1>2, <1>3
    <3>2. m < n
      BY <1>4, <2>5, <3>0 DEF Sign
    <3>7. /\ la \in LimbSeq /\ lb \in LimbSeq /\ Trimmed(la) /\ Trimmed(lb)
          /\ Magnitude(la) <= Magnitude(lb) /\ m <= n
      BY <1>1, <1>2, <1>3, <3>0, <3>2
    <3>3. Len(la) <= Len(lb) /\ m <= n
      BY <3>7, NotShorter
    <3>4. SubMagnitudes(lb, la) \in LimbSeq /\ Magnitude(SubMagnitudes(lb, la)) = n - m
      BY <1>1, <1>2, <1>3, <3>3, SubMagnitudesIs
    <3>5. Whole(Add(a, b)) /\ IntegerValue(Add(a, b)) = t * (n - m)
      BY <1>3, <1>8, <3>1, <3>4, MkIs
    <3>6. t * (n - m) = v1 + v2
      BY <1>2, <1>3, <1>8, <2>5
    <3> QED
      BY <1>1, <3>5, <3>6
  <2>6. c \in {-1, 0, 1}
    BY <1>2, <1>3, <1>4 DEF Sign
  <2> QED
    BY <2>2, <2>3, <2>4, <2>5, <2>6
<1> QED
  BY <1>5, <1>6, <1>7, <1>8

\* Subtraction subtracts.
LEMMA SubIs ==
    ASSUME NEW a, NEW b, Whole(a), Whole(b)
    PROVE  Whole(Sub(a, b)) /\ IntegerValue(Sub(a, b)) = IntegerValue(a) - IntegerValue(b)
<1>1. PICK v1, v2 : v1 = IntegerValue(a) /\ v2 = IntegerValue(b)
  OBVIOUS
<1>2. v1 \in Int /\ v2 \in Int
  BY <1>1, WholeIs
<1>3. CASE IsSmall(a) /\ IsSmall(b)
  <2>1. Small(a) = v1 /\ Small(b) = v2
    BY <1>1, <1>3, SmallIs
  <2>2. Sub(a, b) = Box(v1 - v2) /\ v1 - v2 \in Int
    BY <1>2, <1>3, <2>1 DEF Sub
  <2> QED
    BY <1>1, <2>2, BoxIs
<1>4. CASE ~(IsSmall(a) /\ IsSmall(b))
  <2>1. Sub(a, b) = Add(a, Negate(b))
    BY <1>4 DEF Sub
  <2>2. Whole(Negate(b)) /\ IntegerValue(Negate(b)) = -v2
    BY <1>1, NegateIs
  <2>3. Whole(Add(a, Negate(b))) /\ IntegerValue(Add(a, Negate(b))) = v1 + (-v2)
    BY <1>1, <2>2, AddIs
  <2>4. v1 + (-v2) = v1 - v2
    BY <1>2
  <2> QED
    BY <1>1, <2>1, <2>3, <2>4
<1> QED
  BY <1>3, <1>4

\* Multiplication multiplies.
LEMMA MulIs ==
    ASSUME NEW a, NEW b, Whole(a), Whole(b)
    PROVE  Whole(Mul(a, b)) /\ IntegerValue(Mul(a, b)) = IntegerValue(a) * IntegerValue(b)
<1>1. PICK s, t, la, lb, m, n, v1, v2 :
         /\ s = a.sign /\ t = b.sign /\ la = a.limbs /\ lb = b.limbs
         /\ m = Magnitude(la) /\ n = Magnitude(lb) /\ v1 = IntegerValue(a) /\ v2 = IntegerValue(b)
  OBVIOUS
<1>2. /\ v1 \in Int /\ s = Sign(v1) /\ m = Abs(v1) /\ m \in Nat /\ la \in LimbSeq
      /\ s \in {-1, 0, 1} /\ v1 = s * m
  BY <1>1, WholeIs DEF IntegerValue
<1>3. /\ v2 \in Int /\ t = Sign(v2) /\ n = Abs(v2) /\ n \in Nat /\ lb \in LimbSeq
      /\ t \in {-1, 0, 1} /\ v2 = t * n
  BY <1>1, WholeIs DEF IntegerValue
<1>4. CASE s = 0 \/ t = 0
  <2>1. Mul(a, b) = Zero
    BY <1>1, <1>4 DEF Mul
  <2>2. v1 = 0 \/ v2 = 0
    BY <1>2, <1>3, <1>4 DEF Sign
  <2>3. v1 * v2 = 0
    BY <1>2, <1>3, <2>2
  <2> QED
    BY <1>1, <2>1, <2>3, ZeroIs
<1>5. CASE s # 0 /\ t # 0 /\ IsSmall(a) /\ IsSmall(b)
             /\ Abs(Small(a)) <= FastProduct \div Abs(Small(b))
  <2>1. Mul(a, b) = Box(Small(a) * Small(b))
    BY <1>1, <1>5 DEF Mul
  <2>2. Small(a) = v1 /\ Small(b) = v2
    BY <1>1, <1>5, SmallIs
  <2>3. v1 * v2 \in Int /\ Mul(a, b) = Box(v1 * v2)
    BY <1>2, <1>3, <2>1, <2>2
  <2> QED
    BY <1>1, <2>3, BoxIs
<1>6. CASE s # 0 /\ t # 0 /\ ~(IsSmall(a) /\ IsSmall(b)
             /\ Abs(Small(a)) <= FastProduct \div Abs(Small(b)))
  <2>1. Mul(a, b) = Mk(s * t, MulMagnitudes(la, lb))
    BY <1>1, <1>6 DEF Mul
  <2>2. MulMagnitudes(la, lb) \in LimbSeq /\ Magnitude(MulMagnitudes(la, lb)) = m * n
    BY <1>1, <1>2, <1>3, MulMagnitudesIs
  <2>3. s * t \in {-1, 1}
    BY <1>2, <1>3, <1>6
  <2>4. PICK st : st = s * t
    OBVIOUS
  <2>5. st \in {-1, 0, 1} /\ st # 0
    BY <2>3, <2>4
  <2>6. Whole(Mk(st, MulMagnitudes(la, lb)))
        /\ IntegerValue(Mk(st, MulMagnitudes(la, lb))) = st * (m * n)
    BY <2>2, <2>5, MkIs
  <2>7. (s * t) * (m * n) = (s * m) * (t * n)
    BY <1>2, <1>3
  <2> QED
    BY <1>1, <1>2, <1>3, <2>1, <2>4, <2>6, <2>7
<1> QED
  BY <1>4, <1>5, <1>6

-------------------------------------------------------------------------------
(* Machine integers *)

\* The range of a machine integer is not empty.
LEMMA HalfRangeIs == HalfRange \in Nat \ {0} /\ 2 * HalfRange \in Nat \ {0}
<1>1. IntWidth - 1 \in Nat
  BY BigIntegersAssumption DEF BigIntegersAssumption
<1>2. HalfRange \in Nat \ {0}
  BY <1>1, PowerIs DEF HalfRange
<1> QED
  BY <1>2

\* Wrapping lands in the machine range, a whole number of ranges away.
LEMMA WrapIs ==
    ASSUME NEW k \in Int
    PROVE  Wrap(k) \in Ints /\ Wrap(k) \in Int /\ \E t \in Int : Wrap(k) = k + (2 * HalfRange) * t
<1>1. PICK H, W : H = HalfRange /\ W = 2 * H
  OBVIOUS
<1>2. H \in Nat \ {0} /\ W \in Nat \ {0}
  BY <1>1, HalfRangeIs
<1>3. PICK a \in Int, r \in 0..(W - 1) : a = (k + H) \div W /\ r = (k + H) % W /\ k + H = W * a + r
  BY <1>2, DivMod
<1>4. Wrap(k) = r - H
  BY <1>1, <1>3 DEF Wrap
<1>5. r - H \in (-H)..(H - 1)
  BY <1>1, <1>2, <1>3
<1>6. PICK p : p = W * a
  OBVIOUS
<1>7. p \in Int /\ W * (-a) = -p /\ k + H = p + r
  BY <1>2, <1>3, <1>6
<1>8. r - H = k + W * (-a)
  BY <1>2, <1>3, <1>7
<1>9. -a \in Int
  BY <1>3
<1> QED
  BY <1>1, <1>2, <1>4, <1>5, <1>8, <1>9 DEF Ints

\* Numbers a whole number of ranges apart wrap to the same.
LEMMA WrapSame ==
    ASSUME NEW k \in Int, NEW l \in Int, NEW t \in Int, k = l + (2 * HalfRange) * t
    PROVE  Wrap(k) = Wrap(l)
<1>1. PICK H, W : H = HalfRange /\ W = 2 * H
  OBVIOUS
<1>2. H \in Nat \ {0} /\ W \in Nat \ {0}
  BY <1>1, HalfRangeIs
<1>9. PICK e, f : e = l + H /\ f = k + H
  OBVIOUS
<1>10. e \in Int /\ f \in Int
  BY <1>2, <1>9
<1>3. PICK a \in Int, r \in 0..(W - 1) : a = e \div W /\ r = e % W /\ e = W * a + r
  BY <1>2, <1>10, DivMod
<1>4. W * (a + t) = W * a + W * t /\ W * a \in Int /\ W * t \in Int
  BY <1>2
<1>5. k = l + W * t
  BY <1>1
<1>6. PICK o : o = a + t
  OBVIOUS
<1>7. o \in Int /\ f = W * o + r
  BY <1>2, <1>3, <1>4, <1>5, <1>6, <1>9
<1>8. f % W = r
  BY <1>2, <1>7, <1>10, DivIs
<1> QED
  BY <1>1, <1>3, <1>8, <1>9 DEF Wrap

\* A machine integer wraps to itself.
LEMMA WrapKeeps ==
    ASSUME NEW k \in Ints
    PROVE  k \in Int /\ Wrap(k) = k
<1>1. PICK H, W : H = HalfRange /\ W = 2 * H
  OBVIOUS
<1>2. H \in Nat \ {0} /\ W \in Nat \ {0}
  BY <1>1, HalfRangeIs
<1>3. k \in Int /\ -H <= k /\ k <= H - 1
  BY <1>1, <1>2 DEF Ints
<1>4. k + H \in 0..(W - 1) /\ k + H \in Int /\ 0 \in Int /\ k + H = W * 0 + (k + H)
  BY <1>1, <1>2, <1>3
<1>5. (k + H) % W = k + H
  BY <1>2, <1>4, DivIs
<1>6. (k + H) - H = k
  BY <1>2, <1>3
<1> QED
  BY <1>1, <1>3, <1>5, <1>6 DEF Wrap

\* Limbs narrowed one by one are their worth narrowed.
LEMMA NarrowedIs ==
    ASSUME NEW m \in LimbSeq
    PROVE  Narrowed(m)[1] = Wrap(Magnitude(m))
<1>1. PICK N, V : N = Len(m) /\ V = ValuesFrom(m)
  OBVIOUS
<1>2. N \in Nat /\ (\A i \in 1..N : m[i] \in Int) /\ m \in Seq(Int)
  BY <1>1, LimbSeqIs
<1>3. V[N + 1] = 0 /\ (\A i \in 1..N : V[i] = m[i] + Base * V[i + 1])
      /\ \A i \in 1..(N + 1) : V[i] \in Int
  BY <1>1, <1>2, ValuesFromIs
<1> DEFINE Body(f) == [i \in 1..(N + 1) |-> IF i = N + 1 THEN 0 ELSE Wrap(f[i + 1] * Base + m[i])]
<1>4. \A i \in 1..N, r \in Int : Wrap(r * Base + m[i]) \in Int
  <2> TAKE i \in 1..N, r \in Int
  <2>1. r * Base + m[i] \in Int
    BY <1>2, BaseIs
  <2> QED
    BY <2>1, WrapIs
<1>5. PICK step : step = [p \in (1..N) \X Int |-> Wrap(p[2] * Base + m[p[1]])]
  OBVIOUS
<1>6. \A i \in 1..N, r \in Int : step[<<i, r>>] = Wrap(r * Base + m[i])
  BY <1>5
<1>7. step \in [(1..N) \X Int -> Int]
  <2>1. \A p \in (1..N) \X Int : step[p] \in Int
    <3> TAKE p \in (1..N) \X Int
    <3>1. PICK i \in 1..N, r \in Int : p = <<i, r>>
      OBVIOUS
    <3>2. step[<<i, r>>] \in Int
      BY <1>4, <1>6
    <3> QED
      BY <3>1, <3>2
  <2> QED
    BY <1>5, <2>1
<1>8. 0 \in Int
  OBVIOUS
<1>9. PICK F : GoesDown(F, N, Int, 0, step)
  BY <1>2, <1>7, <1>8, DefinedDown
<1>10. F \in [1..(N + 1) -> Int] /\ F[N + 1] = 0 /\ \A i \in 1..N : F[i] = step[<<i, F[i + 1]>>]
  BY <1>9 DEF GoesDown
<1>11. F = Body(F)
  <2>1. \A i \in 1..N : F[i] = Wrap(F[i + 1] * Base + m[i])
    <3> TAKE i \in 1..N
    <3>1. i + 1 \in 1..(N + 1) /\ F[i + 1] \in Int
      BY <1>2, <1>10
    <3> QED
      BY <1>6, <1>10, <3>1
  <2>2. \A i \in 1..(N + 1) : F[i] = IF i = N + 1 THEN 0 ELSE Wrap(F[i + 1] * Base + m[i])
    <3> TAKE i \in 1..(N + 1)
    <3>1. i = N + 1 \/ i \in 1..N
      BY <1>2
    <3> QED
      BY <1>10, <2>1, <3>1
  <2>3. F = [i \in 1..(N + 1) |-> F[i]]
    BY <1>10
  <2> QED
    BY <2>2, <2>3
<1>12. PICK G : G = Narrowed(m)
  OBVIOUS
<1>13. G = Body(G)
  <2>1. G = CHOOSE f : f = Body(f)
    BY <1>1, <1>12 DEF Narrowed
  <2> HIDE DEF Body
  <2> QED
    BY <1>11, <2>1
<1>14. \A i \in 1..(N + 1) : G[i] = IF i = N + 1 THEN 0 ELSE Wrap(G[i + 1] * Base + m[i])
  BY <1>13, Zenon
<1> DEFINE S == {i \in 1..(N + 1) : G[i] = Wrap(V[i])}
<1>15. N + 1 \in S
  <2>1. N + 1 \in 1..(N + 1)
    BY <1>2
  <2>2. 0 \in Ints
    BY HalfRangeIs DEF Ints
  <2>3. Wrap(0) = 0
    BY <2>2, WrapKeeps
  <2> QED
    BY <1>3, <1>14, <2>1, <2>3
<1>16. ASSUME NEW i \in 1..N, i + 1 \in S
       PROVE  i \in S
  <2>1. i \in 1..(N + 1) /\ i # N + 1 /\ i + 1 \in 1..(N + 1)
    BY <1>2
  <2>2. PICK g, v1, l, W : g = G[i + 1] /\ v1 = V[i + 1] /\ l = m[i] /\ W = 2 * HalfRange
    OBVIOUS
  <2>3. v1 \in Int /\ l \in Int /\ W \in Int /\ Base \in Int /\ g = Wrap(v1)
    BY <1>2, <1>3, <1>16, <2>1, <2>2, HalfRangeIs, BaseIs
  <2>4. PICK t \in Int : g = v1 + W * t
    BY <2>2, <2>3, WrapIs
  <2>5. g * Base + l = (l + Base * v1) + W * (t * Base)
    <3>1. (v1 + W * t) * Base = Base * v1 + W * (t * Base)
      BY <2>3
    <3>2. Base * v1 \in Int /\ W * (t * Base) \in Int
      BY <2>3
    <3> QED
      BY <2>3, <2>4, <3>1, <3>2
  <2>6. PICK k, e : k = g * Base + l /\ e = t * Base
    OBVIOUS
  <2>7. k \in Int /\ e \in Int /\ V[i] \in Int /\ k = V[i] + W * e
    <3>1. g \in Int
      BY <2>3, WrapIs
    <3>2. V[i] = l + Base * v1 /\ V[i] \in Int
      BY <1>3, <2>1, <2>2
    <3> QED
      BY <2>3, <2>5, <2>6, <3>1, <3>2
  <2>8. Wrap(k) = Wrap(V[i])
    BY <2>2, <2>7, WrapSame
  <2> QED
    BY <1>14, <2>1, <2>2, <2>6, <2>8
<1> HIDE DEF S
<1>17. \A i \in 1..(N + 1) : i \in S
  BY <1>2, <1>15, <1>16, DownFrom
<1>18. 1 \in 1..(N + 1)
  BY <1>2
<1>19. 1 \in S
  BY <1>17, <1>18
<1>20. G[1] = Wrap(V[1])
  BY <1>19 DEF S
<1> QED
  BY <1>1, <1>12, <1>20 DEF Magnitude

\* Narrowing wraps the value.
LEMMA ToIntIs ==
    ASSUME NEW i, Whole(i)
    PROVE  ToInt(i) = Wrap(IntegerValue(i))
<1>1. PICK s, m, M, g : s = i.sign /\ m = i.limbs /\ M = Magnitude(m) /\ g = Narrowed(m)[1]
  OBVIOUS
<1>2. s \in {-1, 0, 1} /\ m \in LimbSeq /\ M \in Nat /\ IntegerValue(i) = s * M /\ (s = 0 => M = 0)
  BY <1>1, WholeIs, NoLimbs DEF IntegerValue
<1>3. g = Wrap(M)
  BY <1>1, <1>2, NarrowedIs
<1>4. CASE s = -1
  <2>1. ToInt(i) = Wrap(-g) /\ s * M = -M
    BY <1>1, <1>2, <1>4 DEF ToInt
  <2>2. PICK W : W = 2 * HalfRange
    OBVIOUS
  <2>3. W \in Int
    BY <2>2, HalfRangeIs
  <2>4. PICK t \in Int : g = M + W * t /\ g \in Int
    BY <1>2, <1>3, <2>2, WrapIs
  <2>5. W * t \in Int /\ W * (-t) = -(W * t)
    BY <2>3
  <2>6. -g = -M + W * (-t) /\ -g \in Int /\ -M \in Int /\ -t \in Int
    BY <1>2, <2>4, <2>5
  <2>7. Wrap(-g) = Wrap(-M)
    BY <2>2, <2>6, WrapSame
  <2> QED
    BY <1>2, <2>1, <2>7
<1>5. CASE s # -1
  <2>1. s * M = M
    BY <1>2, <1>5
  <2>2. ToInt(i) = g
    BY <1>1, <1>2, <1>5 DEF ToInt
  <2> QED
    BY <1>2, <1>3, <2>1, <2>2
<1> QED
  BY <1>4, <1>5

\* A machine integer is lifted to its value, the least one too.
LEMMA FromIntIs ==
    ASSUME NEW k \in Ints
    PROVE  Whole(FromInt(k)) /\ IntegerValue(FromInt(k)) = k
<1>1. PICK H : H = HalfRange
  OBVIOUS
<1>2. H \in Nat \ {0} /\ k \in Int /\ -H <= k /\ k <= H - 1
  BY <1>1, HalfRangeIs DEF Ints
<1>3. CASE k < 0 /\ Wrap(-k) < 0
  <2>1. k = -H
    <3>1. SUFFICES ASSUME k # -H PROVE FALSE
      OBVIOUS
    <3>2. -k \in (-H)..(H - 1)
      BY <1>2, <1>3, <3>1
    <3>3. -k \in Ints
      BY <1>1, <3>2 DEF Ints
    <3>4. Wrap(-k) = -k
      BY <3>3, WrapKeeps
    <3> QED
      BY <1>2, <1>3, <3>4
  <2>2. LimbsOf(H) \in LimbSeq /\ Magnitude(LimbsOf(H)) = H
    BY <1>2, LimbsOfIs
  <2>3. FromInt(k) = Mk(-1, LimbsOf(H))
    BY <1>1, <1>3 DEF FromInt
  <2>4. -1 \in {-1, 0, 1} /\ -1 # 0 /\ (-1) * H = k
    BY <1>2, <2>1
  <2>5. Whole(Mk(-1, LimbsOf(H))) /\ IntegerValue(Mk(-1, LimbsOf(H))) = (-1) * Magnitude(LimbsOf(H))
    BY <2>2, <2>4, MkIs
  <2> QED
    BY <2>2, <2>3, <2>4, <2>5
<1>4. CASE ~(k < 0 /\ Wrap(-k) < 0)
  <2>1. PICK s, a : s = Sign(k) /\ a = Abs(k)
    OBVIOUS
  <2>2. s \in {-1, 0, 1} /\ a \in Nat /\ s * a = k /\ (s = 0 => a = 0)
    BY <1>2, <2>1, SignIs
  <2>3. LimbsOf(a) \in LimbSeq /\ Magnitude(LimbsOf(a)) = a
    BY <2>2, LimbsOfIs
  <2>4. FromInt(k) = Mk(s, LimbsOf(a))
    BY <1>4, <2>1 DEF FromInt
  <2>5. Whole(Mk(s, LimbsOf(a))) /\ IntegerValue(Mk(s, LimbsOf(a))) = s * Magnitude(LimbsOf(a))
    BY <2>2, <2>3, MkIs
  <2> QED
    BY <2>2, <2>3, <2>4, <2>5
<1> QED
  BY <1>3, <1>4

-------------------------------------------------------------------------------
(* The two quotients of a division *)

\* a and b are quotient and remainder of the magnitudes, under the signs of a
\* truncating division.
DividesAs(a, b, m, r) ==
    /\ Whole(a) /\ Whole(b)
    /\ IntegerValue(a) = Sign(x) * Sign(y) * m /\ IntegerValue(b) = Sign(x) * r
    /\ m \in Nat /\ r \in Nat /\ Abs(x) = Abs(y) * m + r /\ r < Abs(y)

Truncated == Sign(x) * Sign(y) * (Abs(x) \div Abs(y))
Floored == (Sign(y) * x) \div Abs(y)
QuotientExact(w) ==
    /\ \A k \in DOMAIN w : Canonical(w[k])
    /\ op = "quotRem" => [k \in DOMAIN w |-> IntegerValue(w[k])] = <<Truncated, x - Truncated * y>>
    /\ op = "divMod" => [k \in DOMAIN w |-> IntegerValue(w[k])] = <<Floored, x - Floored * y>>

\* A pair of canonical integers, as the results are compared.
LEMMA PairExact ==
    ASSUME NEW a, NEW b, NEW v1, NEW v2, Whole(a), Whole(b),
           IntegerValue(a) = v1, IntegerValue(b) = v2
    PROVE  /\ \A k \in DOMAIN <<a, b>> : Canonical(<<a, b>>[k])
           /\ [k \in DOMAIN <<a, b>> |-> IntegerValue(<<a, b>>[k])] = <<v1, v2>>
<1>1. Canonical(a) /\ Canonical(b)
  BY WholeIs
<1>2. DOMAIN <<a, b>> = {1, 2} /\ <<a, b>>[1] = a /\ <<a, b>>[2] = b
  OBVIOUS
<1>3. \A k \in DOMAIN <<a, b>> : Canonical(<<a, b>>[k])
  BY <1>1, <1>2
<1>4. [k \in DOMAIN <<a, b>> |-> IntegerValue(<<a, b>>[k])] = [k \in {1, 2} |-> IF k = 1 THEN v1 ELSE v2]
  BY <1>2
<1>5. <<v1, v2>> = [k \in {1, 2} |-> IF k = 1 THEN v1 ELSE v2]
  OBVIOUS
<1> QED
  BY <1>3, <1>4, <1>5

\* From the truncating pair, quotRem and divMod are exact (lines 419-430).
LEMMA QuotientIs ==
    ASSUME x \in Int, y \in Int, y # 0, op \in {"quotRem", "divMod"},
           NEW a, NEW b, NEW m, NEW r, DividesAs(a, b, m, r)
    PROVE  QuotientExact(Quotient(<<a, b>>))
<1>1. PICK s, t, A, B : s = Sign(x) /\ t = Sign(y) /\ A = Abs(x) /\ B = Abs(y)
  OBVIOUS
<1>2. /\ Whole(a) /\ Whole(b) /\ IntegerValue(a) = s * t * m /\ IntegerValue(b) = s * r
      /\ m \in Nat /\ r \in Nat /\ A = B * m + r /\ r < B
  BY <1>1 DEF DividesAs
<1>3. s \in {-1, 0, 1} /\ t \in {-1, 1} /\ A \in Nat /\ B \in Nat \ {0} /\ x = s * A /\ y = t * B
      /\ (s = 0 => A = 0)
  BY <1>1, SignIs
<1>4. r \in 0..(B - 1) /\ m \in Int /\ A \in Int
  BY <1>2, <1>3
<1>5. A \div B = m
  BY <1>2, <1>3, <1>4, DivIs
<1>6. Truncated = s * t * m
  BY <1>1, <1>5 DEF Truncated
<1>7. x - Truncated * y = s * r
  <2>1. PICK p : p = B * m
    OBVIOUS
  <2>2. p \in Int /\ A = p + r
    BY <1>2, <1>3, <2>1
  <2>3. (s * t * m) * (t * B) = s * p
    <3>1. t * t = 1
      BY <1>3
    <3>2. (s * t * m) * (t * B) = (t * t) * (s * (B * m))
      BY <1>2, <1>3
    <3>3. 1 * (s * (B * m)) = s * (B * m)
      BY <1>2, <1>3
    <3> QED
      BY <2>1, <3>1, <3>2, <3>3
  <2>4. s * A - s * p = s * r
    BY <1>2, <1>3, <2>2
  <2> QED
    BY <1>3, <1>6, <2>3, <2>4
<1>8. PICK qr : qr = <<a, b>>
  OBVIOUS
<1>9. qr[1] = a /\ qr[2] = b /\ b.sign = Sign(s * r) /\ s * r \in Int
  <2>1. b.sign = Sign(IntegerValue(b))
    BY <1>2, WholeIs
  <2> QED
    BY <1>2, <1>3, <1>8, <2>1
<1>10. CASE op = "quotRem"
  <2>1. Quotient(qr) = <<a, b>>
    BY <1>8, <1>10 DEF Quotient
  <2>2. /\ \A k \in DOMAIN <<a, b>> : Canonical(<<a, b>>[k])
        /\ [k \in DOMAIN <<a, b>> |-> IntegerValue(<<a, b>>[k])] = <<Truncated, x - Truncated * y>>
    BY <1>2, <1>6, <1>7, PairExact
  <2> QED
    BY <1>8, <1>10, <2>1, <2>2 DEF QuotientExact
<1>11. CASE op = "divMod"
  <2>1. CASE b.sign # 0 /\ (x < 0) # (y < 0)
    <3>1. Quotient(qr) = <<Sub(a, Box(1)), Add(b, YBox)>>
      BY <1>9, <1>11, <2>1 DEF Quotient
    <3>2. s * r # 0 /\ s # 0 /\ r # 0
      BY <1>2, <1>3, <1>9, <2>1 DEF Sign
    <3>3. s = -t
      BY <1>1, <1>3, <2>1, <3>2 DEF Sign
    <3>4. s * t = -1 /\ t * x = -A /\ s * t * m = -m /\ A = B * m + r
      BY <1>2, <1>3, <3>3
    <3>5. -A = B * (-m - 1) + (B - r) /\ B - r \in 0..(B - 1) /\ -m - 1 \in Int /\ -A \in Int
      <4>1. B * (-m - 1) = -(B * m) - B /\ B * m \in Int
        BY <1>2, <1>3
      <4> QED
        BY <1>2, <1>3, <3>2, <3>4, <4>1
    <3>6. (-A) \div B = -m - 1
      <4>1. PICK e, f, g : e = -A /\ f = -m - 1 /\ g = B - r
        OBVIOUS
      <4>2. e \in Int /\ f \in Int /\ g \in 0..(B - 1) /\ e = B * f + g
        BY <3>5, <4>1
      <4>3. e \div B = f
        BY <1>3, <4>2, DivIs
      <4> QED
        BY <4>1, <4>3
    <3>7. Floored = -m - 1
      BY <1>1, <3>4, <3>6 DEF Floored
    <3>8. Whole(Sub(a, Box(1))) /\ IntegerValue(Sub(a, Box(1))) = -m - 1
      <4>1. Whole(Box(1)) /\ IntegerValue(Box(1)) = 1
        BY BoxIs
      <4>2. Whole(Sub(a, Box(1))) /\ IntegerValue(Sub(a, Box(1))) = IntegerValue(a) - 1
        BY <1>2, <4>1, SubIs
      <4> QED
        BY <1>2, <3>4, <4>2
    <3>9. Whole(Add(b, YBox)) /\ IntegerValue(Add(b, YBox)) = s * r + y
      <4>1. Whole(YBox) /\ IntegerValue(YBox) = y
        BY BoxIs DEF YBox
      <4> QED
        BY <1>2, <4>1, AddIs
    <3>10. s * r + y = x - (-m - 1) * y
      <4>1. Truncated * y = (-m) * y /\ (-m - 1) * y = (-m) * y - y /\ (-m) * y \in Int
        BY <1>2, <1>6, <3>4
      <4>2. x - (-m) * y = s * r
        BY <1>7, <4>1
      <4> QED
        BY <1>9, <4>1, <4>2
    <3>11. /\ \A k \in DOMAIN <<Sub(a, Box(1)), Add(b, YBox)>> : Canonical(<<Sub(a, Box(1)), Add(b, YBox)>>[k])
           /\ [k \in DOMAIN <<Sub(a, Box(1)), Add(b, YBox)>> |->
                 IntegerValue(<<Sub(a, Box(1)), Add(b, YBox)>>[k])] = <<-m - 1, s * r + y>>
      BY <3>8, <3>9, PairExact
    <3> QED
      BY <1>8, <1>11, <3>1, <3>7, <3>10, <3>11 DEF QuotientExact
  <2>2. CASE ~(b.sign # 0 /\ (x < 0) # (y < 0))
    <3>1. Quotient(qr) = <<a, b>>
      BY <1>8, <1>9, <1>11, <2>2 DEF Quotient
    <3>2. Floored = Truncated
      <4>1. CASE s = 0
        <5>1. A = 0 /\ x = 0 /\ t * x = 0 /\ m = 0 /\ s * t * m = 0
          <6>1. A = 0
            BY <1>3, <4>1
          <6>2. B * m = 0
            <7>1. PICK p : p = B * m
              OBVIOUS
            <7>2. p \in Nat
              BY <1>2, <1>3, <7>1
            <7> QED
              BY <1>2, <6>1, <7>1, <7>2
          <6>3. m = 0
            BY <1>2, <1>3, <6>2
          <6> QED
            BY <1>3, <4>1, <6>1, <6>3
        <5>2. 0 \div B = 0
          <6>1. 0 = B * 0 + 0 /\ 0 \in 0..(B - 1) /\ 0 \in Int
            BY <1>3
          <6> QED
            BY <1>3, <6>1, DivIs
        <5> QED
          BY <1>1, <1>6, <5>1, <5>2 DEF Floored
      <4>2. CASE s = t
        <5>1. t * x = A /\ s * t * m = m
          BY <1>2, <1>3, <4>2
        <5> QED
          BY <1>1, <1>5, <1>6, <5>1 DEF Floored
      <4>3. CASE s = -t
        <5>1. (x < 0) # (y < 0)
          <6>1. s # 0 /\ s \in {-1, 1}
            BY <1>3, <4>3
          <6> QED
            BY <1>1, <1>3, <4>3, <6>1 DEF Sign
        <5>2. b.sign = 0
          BY <2>2, <5>1
        <5>3. s * r = 0 /\ r = 0
          BY <1>2, <1>3, <1>9, <4>3, <5>2 DEF Sign
        <5>4. t * x = -A /\ s * t * m = -m /\ A = B * m
          BY <1>2, <1>3, <4>3, <5>3
        <5>5. -A = B * (-m) + 0 /\ 0 \in 0..(B - 1) /\ -m \in Int /\ -A \in Int
          BY <1>2, <1>3, <5>4
        <5>6. (-A) \div B = -m
          BY <1>3, <5>5, DivIs
        <5> QED
          BY <1>1, <1>6, <5>4, <5>6 DEF Floored
      <4> QED
        BY <1>3, <4>1, <4>2, <4>3
    <3>3. /\ \A k \in DOMAIN <<a, b>> : Canonical(<<a, b>>[k])
          /\ [k \in DOMAIN <<a, b>> |-> IntegerValue(<<a, b>>[k])] = <<Truncated, x - Truncated * y>>
      BY <1>2, <1>6, <1>7, PairExact
    <3> QED
      BY <1>8, <1>11, <3>1, <3>2, <3>3 DEF QuotientExact
  <2> QED
    BY <2>1, <2>2
<1> QED
  BY <1>10, <1>11

\* Limbs of a quotient and a remainder, under their signs.
LEMMA DividedAs ==
    ASSUME x \in Int, y \in Int, y # 0, NEW qm \in LimbSeq, NEW rm \in LimbSeq,
           Magnitude(rm) < Abs(y), Abs(x) = Abs(y) * Magnitude(qm) + Magnitude(rm)
    PROVE  DividesAs(Mk(XBox.sign * YBox.sign, qm), Mk(XBox.sign, rm), Magnitude(qm), Magnitude(rm))
<1>1. PICK s, t, A, B, m, r : /\ s = Sign(x) /\ t = Sign(y) /\ A = Abs(x) /\ B = Abs(y)
                              /\ m = Magnitude(qm) /\ r = Magnitude(rm)
  OBVIOUS
<1>2. XBox.sign = s /\ YBox.sign = t
  BY <1>1, BoxLimbs DEF XBox, YBox
<1>3. /\ s \in {-1, 0, 1} /\ t \in {-1, 1} /\ A \in Nat /\ B \in Nat \ {0}
      /\ (s = 0 => A = 0) /\ s * t \in {-1, 0, 1} /\ (s * t = 0 => s = 0)
  BY <1>1, SignIs
<1>4. m \in Nat /\ r \in Nat /\ A = B * m + r /\ r < B
  BY <1>1, WorthBelow
<1>5. s = 0 => m = 0 /\ r = 0
  <2>1. ASSUME s = 0
        PROVE  m = 0 /\ r = 0
    <3>1. PICK p : p = B * m
      OBVIOUS
    <3>2. p \in Nat
      BY <1>3, <1>4, <3>1
    <3>3. p = 0 /\ r = 0
      BY <1>3, <1>4, <2>1, <3>1, <3>2
    <3> QED
      BY <1>3, <1>4, <3>1, <3>3
  <2> QED
    BY <2>1
<1>6. Whole(Mk(s, rm)) /\ IntegerValue(Mk(s, rm)) = s * r
  BY <1>1, <1>3, <1>5, MkIs
<1>7. Whole(Mk(s * t, qm)) /\ IntegerValue(Mk(s * t, qm)) = s * t * m
  <2>1. PICK st : st = s * t
    OBVIOUS
  <2>2. st \in {-1, 0, 1} /\ (st = 0 => Magnitude(qm) = 0)
    BY <1>1, <1>3, <1>5, <2>1
  <2>3. Whole(Mk(st, qm)) /\ IntegerValue(Mk(st, qm)) = st * Magnitude(qm)
    BY <2>2, MkIs
  <2> QED
    BY <1>1, <2>1, <2>3
<1> QED
  BY <1>1, <1>2, <1>4, <1>6, <1>7 DEF DividesAs

-------------------------------------------------------------------------------
(* Long division: the estimate of a limb *)

\* The estimate from the top limbs never falls below the limb it stands for ...
LEMMA TopsCover ==
    ASSUME NEW P \in Nat \ {0}, NEW v1 \in Nat, NEW num \in Nat, NEW l \in Nat, NEW lv \in Nat,
           NEW lw \in 0..(P - 1), l * (lv + P * v1) <= lw + P * num
    PROVE  l * v1 <= num
<1>1. PICK a, b, c, e : a = l * v1 /\ b = P * a /\ c = l * lv /\ e = P * num
  OBVIOUS
<1>2. a \in Nat /\ b \in Nat /\ c \in Nat /\ e \in Nat
  BY <1>1
<1>3. l * (lv + P * v1) = c + b
  BY <1>1
<1>4. SUFFICES ASSUME num + 1 <= a PROVE FALSE
  BY <1>1, <1>2
<1>5. (num + 1) * P <= a * P
  BY <1>2, <1>4, ProductOrder
<1>6. a * P = b /\ (num + 1) * P = e + P
  BY <1>1, <1>2
<1> QED
  BY <1>2, <1>3, <1>5, <1>6, <1>1

\* ... one too large against the third limb is too large ...
LEMMA TooLargeExceeds ==
    ASSUME NEW Q \in Nat \ {0}, NEW a \in Nat, NEW c \in Nat, NEW e \in Nat, NEW lv \in Nat,
           NEW lw \in 0..(Q - 1), c < e * a
    PROVE  lw + Q * c < e * (lv + Q * a)
<1>1. PICK b, f, g, h : b = e * a /\ f = Q * b /\ g = e * lv /\ h = Q * c
  OBVIOUS
<1>2. b \in Nat /\ f \in Nat /\ g \in Nat /\ h \in Nat /\ c + 1 <= b
  BY <1>1
<1>3. e * (lv + Q * a) = g + f
  BY <1>1
<1>4. (c + 1) * Q <= b * Q
  BY <1>2, ProductOrder
<1>5. (c + 1) * Q = h + Q /\ b * Q = f
  BY <1>1, <1>2
<1> QED
  BY <1>1, <1>2, <1>3, <1>4, <1>5

\* ... and one that is not is at most one above it, whether its remainder has
\* left the base ...
LEMMA RemainderOut ==
    ASSUME NEW P \in Nat \ {0}, NEW e \in 0..(Base - 1), NEW lv \in 0..(P - 1), NEW lw \in Nat,
           NEW v1 \in Nat, NEW r \in Nat, Base <= r
    PROVE  e * (lv + P * v1) <= lw + P * (e * v1 + r)
<1>1. PICK a, b, c, f : a = e * lv /\ b = P * (e * v1) /\ c = P * r /\ f = e * P
  OBVIOUS
<1>2. e \in Nat /\ lv \in Nat /\ lv <= P /\ e <= r
  BY BaseIs
<1>3. a \in Nat /\ b \in Nat /\ c \in Nat /\ f \in Nat
  BY <1>1, <1>2
<1>4. e * lv <= e * P /\ e * P <= r * P
  BY <1>2, ProductOrder
<1>5. r * P = c /\ e * (lv + P * v1) = a + b /\ P * (e * v1 + r) = b + c
  BY <1>1, <1>2
<1> QED
  BY <1>1, <1>3, <1>4, <1>5

\* ... or the third limb bears it out.
LEMMA ThirdLimbBears ==
    ASSUME NEW Q \in Nat \ {0}, NEW e \in 0..(Base - 1), NEW lv \in 0..(Q - 1), NEW lw \in Nat,
           NEW a \in Nat, NEW c \in Nat, e * a <= c, Base <= a
    PROVE  e * (lv + Q * a) < lw + Q * c + (lv + Q * a)
<1>1. PICK b, f, g, h, o : b = e * a /\ f = Q * b /\ g = e * lv /\ h = Q * c /\ o = Q * a
  OBVIOUS
<1>2. e \in Nat /\ lv \in Nat /\ lv <= Q /\ e + 1 <= a
  BY BaseIs
<1>3. b \in Nat /\ f \in Nat /\ g \in Nat /\ h \in Nat /\ o \in Nat /\ b <= c
  BY <1>1, <1>2
<1>4. e * lv <= e * Q /\ (e + 1) * Q <= a * Q /\ b * Q <= c * Q
  BY <1>2, <1>3, ProductOrder
<1>5. PICK k : k = e * Q
  OBVIOUS
<1>6. k \in Nat /\ (e + 1) * Q = k + Q /\ a * Q = o /\ b * Q = f /\ c * Q = h /\ e * (lv + Q * a) = g + f
  BY <1>1, <1>2, <1>3, <1>5
<1>7. g <= k /\ k + Q <= o /\ f <= h
  BY <1>1, <1>4, <1>5, <1>6
<1> QED
  BY <1>1, <1>2, <1>3, <1>6, <1>7

\* A magnitude by its top limb and by its top two.
LEMMA TopLimbs ==
    ASSUME NEW m \in LimbSeq, Len(m) >= 2
    PROVE  /\ \E low \in 0..(Power(Base, Len(m) - 1) - 1) :
                 Magnitude(m) = low + Power(Base, Len(m) - 1) * m[Len(m)]
           /\ \E low \in 0..(Power(Base, Len(m) - 2) - 1) :
                 Magnitude(m) = low + Power(Base, Len(m) - 2) * (m[Len(m) - 1] + Base * m[Len(m)])
<1>1. PICK n, F : n = Len(m) /\ F = ValuesFrom(m)
  OBVIOUS
<1>2. n \in Nat /\ n >= 2 /\ (\A i \in 1..n : m[i] \in 0..(Base - 1) /\ m[i] \in Nat) /\ m \in Seq(Int)
  BY <1>1, LimbSeqIs
<1>3. F[n + 1] = 0 /\ \A i \in 1..n : F[i] = m[i] + Base * F[i + 1]
  BY <1>1, <1>2, ValuesFromIs
<1>4. F[n] = m[n] /\ F[n - 1] = m[n - 1] + Base * m[n]
  <2>1. n \in 1..n /\ n - 1 \in 1..n /\ (n - 1) + 1 = n
    BY <1>2
  <2>2. F[n] = m[n] + Base * 0 /\ F[n - 1] = m[n - 1] + Base * F[n]
    BY <1>3, <2>1
  <2>3. m[n] + Base * 0 = m[n]
    BY <1>2, <2>1, BaseIs
  <2> QED
    BY <2>2, <2>3
<1>5. \A k \in 0..n : \E low \in 0..(Power(Base, k) - 1) : F[1] = low + Power(Base, k) * F[1 + k]
  <2> TAKE k \in 0..n
  <2>1. 1 \in 1..(Len(m) + 1) /\ k \in Nat /\ 1 + k <= Len(m) + 1
        /\ \A i \in 1..(1 + k - 1) : m[i] \in 0..(Base - 1)
    BY <1>1, <1>2
  <2> QED
    BY <1>1, <1>2, <2>1, SplitAt
<1>6. n - 1 \in 0..n /\ n - 2 \in 0..n /\ 1 + (n - 1) = n /\ 1 + (n - 2) = n - 1
  BY <1>2
<1>7. \E low \in 0..(Power(Base, n - 1) - 1) : F[1] = low + Power(Base, n - 1) * m[n]
  BY <1>4, <1>5, <1>6
<1>8. \E low \in 0..(Power(Base, n - 2) - 1) : F[1] = low + Power(Base, n - 2) * (m[n - 1] + Base * m[n])
  BY <1>4, <1>5, <1>6
<1> QED
  BY <1>1, <1>7, <1>8 DEF Magnitude

\* The same of a window of n + 1 limbs with nothing above it.
TopTwo(w, i) == w[i + 1] * Base + w[i]

\* A window is its top two limbs and less, or its top three and less.
LEMMA WindowTop ==
    ASSUME NEW w \in LimbSeq, NEW k \in Nat, NEW n \in Nat, n >= 2, k + n + 1 <= Len(w),
           \A i \in (k + n + 2)..Len(w) : w[i] = 0
    PROVE  /\ TopTwo(w, k + n) \in Nat
           /\ \E low \in 0..(Power(Base, n - 1) - 1) :
                 ValuesFrom(w)[k + 1] = low + Power(Base, n - 1) * TopTwo(w, k + n)
           /\ \E low \in 0..(Power(Base, n - 2) - 1) :
                 ValuesFrom(w)[k + 1] =
                    low + Power(Base, n - 2) * (TopTwo(w, k + n) * Base + w[k + n - 1])
<1>1. PICK N, F, num, t : N = Len(w) /\ F = ValuesFrom(w) /\ num = TopTwo(w, k + n) /\ t = k + n
  OBVIOUS
<1>2. /\ N \in Nat /\ t \in Nat /\ t + 1 <= N /\ t - 1 >= 1 /\ t >= 2 /\ w \in Seq(Int)
      /\ \A i \in 1..N : w[i] \in 0..(Base - 1) /\ w[i] \in Nat
  BY <1>1, LimbSeqIs
<1>3. F[N + 1] = 0 /\ \A i \in 1..N : F[i] = w[i] + Base * F[i + 1]
  BY <1>1, <1>2, ValuesFromIs
<1>4. F[t + 2] = 0
  <2>1. t + 1 \in 0..Len(w) /\ \A i \in ((t + 1) + 1)..Len(w) : w[i] = 0
    BY <1>1, <1>2
  <2>2. \A i \in ((t + 1) + 1)..(Len(w) + 1) : ValuesFrom(w)[i] = 0
    BY <1>2, <2>1, ZerosAbove
  <2>3. t + 2 \in ((t + 1) + 1)..(Len(w) + 1)
    BY <1>1, <1>2
  <2> QED
    BY <1>1, <2>2, <2>3
<1>5. /\ t + 1 \in 1..N /\ t \in 1..N /\ t - 1 \in 1..N
      /\ (t + 1) + 1 = t + 2 /\ (t - 1) + 1 = t
      /\ w[t + 1] \in Nat /\ w[t] \in Nat /\ w[t - 1] \in Nat
  BY <1>2
<1>6. num = w[t + 1] * Base + w[t] /\ num \in Nat
  BY <1>1, <1>5, BaseIs DEF TopTwo
<1>7. F[t] = num
  <2>1. F[t + 1] = w[t + 1] + Base * 0 /\ F[t] = w[t] + Base * F[t + 1]
    BY <1>3, <1>4, <1>5
  <2>2. w[t + 1] + Base * 0 = w[t + 1] /\ Base * w[t + 1] = w[t + 1] * Base /\ Base * w[t + 1] \in Nat
    BY <1>5, BaseIs
  <2> QED
    BY <1>5, <1>6, <2>1, <2>2
<1>8. F[t - 1] = num * Base + w[t - 1]
  <2>1. F[t - 1] = w[t - 1] + Base * F[t]
    BY <1>3, <1>5
  <2>2. Base * num = num * Base /\ Base * num \in Nat
    BY <1>6, BaseIs
  <2> QED
    BY <1>5, <1>7, <2>1, <2>2
<1>9. \A i \in 0..n : \E low \in 0..(Power(Base, i) - 1) :
                         F[k + 1] = low + Power(Base, i) * F[(k + 1) + i]
  <2> TAKE i \in 0..n
  <2>1. k + 1 \in 1..(Len(w) + 1) /\ i \in Nat /\ (k + 1) + i <= Len(w) + 1
        /\ \A l \in (k + 1)..((k + 1) + i - 1) : w[l] \in 0..(Base - 1)
    BY <1>1, <1>2
  <2> QED
    BY <1>1, <1>2, <2>1, SplitAt
<1>10. n - 1 \in 0..n /\ n - 2 \in 0..n /\ (k + 1) + (n - 1) = t /\ (k + 1) + (n - 2) = t - 1
  BY <1>1
<1>11. \E low \in 0..(Power(Base, n - 1) - 1) : F[k + 1] = low + Power(Base, n - 1) * num
  BY <1>7, <1>9, <1>10
<1>12. \E low \in 0..(Power(Base, n - 2) - 1) :
          F[k + 1] = low + Power(Base, n - 2) * (num * Base + w[t - 1])
  BY <1>8, <1>9, <1>10
<1> QED
  BY <1>1, <1>6, <1>11, <1>12

-------------------------------------------------------------------------------
(* Long division: the loop *)

\* At the head of the loop, quotient limb k to come: s is the scaled dividend,
\* w what is left of it, vv the scaled divisor, qq the limbs found.
LoopAt(s, w, vv, k, qq) ==
    /\ s \in LimbSeq /\ w \in LimbSeq /\ vv \in LimbSeq /\ qq \in LimbSeq
    /\ Len(vv) >= 2 /\ vv[Len(vv)] # 0
    /\ k \in Int /\ k >= -1 /\ k + Len(vv) + 1 <= Len(w) /\ Len(w) <= Len(s)
    /\ \A i \in 1..(k + 1) : w[i] = s[i]
    /\ \A i \in (k + Len(vv) + 2)..Len(w) : w[i] = 0
    /\ ValuesFrom(s)[k + 2] = Magnitude(qq) * Magnitude(vv) + ValuesFrom(w)[k + 2]
    /\ ValuesFrom(w)[k + 2] < Magnitude(vv)

\* e is an estimate of the limb with remainder r that does not fall below it.
EstimateAt(w, vv, k, e, r) ==
    /\ e \in 0..(Base - 1) /\ r \in Nat
    /\ TopTwo(w, k + Len(vv)) = e * vv[Len(vv)] + r
    /\ ValuesFrom(w)[k + 1] < (e + 1) * Magnitude(vv)

FirstEstimate(w, vv, k) ==
    LET num == TopTwo(w, k + Len(vv))
    IN IF num \div vv[Len(vv)] >= Base THEN Base - 1 ELSE num \div vv[Len(vv)]

\* A window is below the divisor times the base.
LEMMA WindowBelow ==
    ASSUME NEW s, NEW w, NEW vv, NEW k, NEW qq, LoopAt(s, w, vv, k, qq), k >= 0
    PROVE  /\ ValuesFrom(w)[k + 1] \in Nat /\ Magnitude(vv) \in Nat \ {0}
           /\ ValuesFrom(w)[k + 1] < Base * Magnitude(vv)
           /\ ValuesFrom(s)[k + 1] = (Base * Magnitude(qq)) * Magnitude(vv) + ValuesFrom(w)[k + 1]
           /\ Magnitude(qq) \in Nat
<1>1. PICK n, V, A, F, G : /\ n = Len(vv) /\ V = Magnitude(vv) /\ A = Magnitude(qq)
                           /\ F = ValuesFrom(w) /\ G = ValuesFrom(s)
  OBVIOUS
<1>2. /\ s \in LimbSeq /\ w \in LimbSeq /\ vv \in LimbSeq /\ qq \in LimbSeq
      /\ n >= 2 /\ k \in Nat /\ k + n + 1 <= Len(w) /\ Len(w) <= Len(s)
      /\ w[k + 1] = s[k + 1] /\ G[k + 2] = A * V + F[k + 2] /\ F[k + 2] < V
  <2>1. /\ s \in LimbSeq /\ w \in LimbSeq /\ vv \in LimbSeq /\ qq \in LimbSeq
        /\ n >= 2 /\ k \in Nat /\ k + n + 1 <= Len(w) /\ Len(w) <= Len(s)
        /\ (\A i \in 1..(k + 1) : w[i] = s[i]) /\ G[k + 2] = A * V + F[k + 2] /\ F[k + 2] < V
    BY <1>1 DEF LoopAt
  <2>2. k + 1 \in 1..(k + 1)
    BY <2>1
  <2> QED
    BY <2>1, <2>2
<1>3. /\ n \in Nat /\ Len(w) \in Nat /\ Len(s) \in Nat /\ V \in Nat /\ A \in Nat
      /\ w \in Seq(Nat) /\ s \in Seq(Nat) /\ w \in Seq(Int) /\ s \in Seq(Int)
  BY <1>1, <1>2, LimbSeqIs, WorthBelow
<1>4. /\ k + 1 \in 1..Len(w) /\ k + 1 \in 1..Len(s) /\ k + 2 \in 1..(Len(w) + 1)
      /\ k + 1 \in 1..(Len(w) + 1) /\ (k + 1) + 1 = k + 2
  BY <1>2, <1>3
<1>5. PICK l, f : l = w[k + 1] /\ f = F[k + 2]
  OBVIOUS
<1>6. l \in 0..(Base - 1) /\ f \in Nat /\ F[k + 1] \in Nat
  <2>1. l \in 0..(Base - 1)
    BY <1>2, <1>4, <1>5, LimbSeqIs
  <2> QED
    BY <1>1, <1>3, <1>4, <1>5, <2>1, WorthNat
<1>7. F[k + 1] = l + Base * f
  BY <1>1, <1>3, <1>4, <1>5, ValuesFromIs
<1>8. G[k + 1] = l + Base * (A * V + f)
  <2>1. G[k + 1] = s[k + 1] + Base * G[k + 2]
    BY <1>1, <1>3, <1>4, ValuesFromIs
  <2> QED
    BY <1>2, <1>5, <2>1
<1>9. Base * (A * V + f) = (Base * A) * V + Base * f
  BY <1>3, <1>6, BaseIs
<1>10. G[k + 1] = (Base * A) * V + F[k + 1]
  <2>1. PICK a, b : a = (Base * A) * V /\ b = Base * f
    OBVIOUS
  <2>2. a \in Int /\ b \in Int
    BY <1>3, <1>6, <2>1, BaseIs
  <2>3. G[k + 1] = l + (a + b)
    BY <1>8, <1>9, <2>1
  <2>4. l + (a + b) = a + (l + b)
    BY <1>6, <2>2, BaseIs
  <2> QED
    BY <1>7, <2>1, <2>3, <2>4
<1>11. F[k + 1] < Base * V /\ V # 0
  <2>1. f + 1 <= V
    BY <1>2, <1>3, <1>5, <1>6
  <2>2. (f + 1) * Base <= V * Base
    BY <1>3, <1>6, <2>1, BaseIs, ProductOrder
  <2>3. (f + 1) * Base = Base * f + Base /\ V * Base = Base * V /\ Base * f \in Nat /\ Base * V \in Nat
    BY <1>3, <1>6, BaseIs
  <2> QED
    BY <1>3, <1>6, <1>7, <2>1, <2>2, <2>3, BaseIs
<1> QED
  BY <1>1, <1>3, <1>6, <1>10, <1>11

\* D3 sets out from an estimate that is not below the limb.
LEMMA EstimateIs ==
    ASSUME NEW s, NEW w, NEW vv, NEW k, NEW qq, LoopAt(s, w, vv, k, qq), k >= 0
    PROVE  EstimateAt(w, vv, k, FirstEstimate(w, vv, k),
                      TopTwo(w, k + Len(vv)) - FirstEstimate(w, vv, k) * vv[Len(vv)])
<1>1. PICK n, V, W, P, v1, num, e, o : /\ n = Len(vv) /\ V = Magnitude(vv) /\ W = ValuesFrom(w)[k + 1]
                                       /\ P = Power(Base, n - 1) /\ v1 = vv[n]
                                       /\ num = TopTwo(w, k + n) /\ e = FirstEstimate(w, vv, k)
                                       /\ o = num \div v1
  OBVIOUS
<1>2. /\ w \in LimbSeq /\ vv \in LimbSeq /\ n \in Nat /\ n >= 2 /\ v1 # 0 /\ k \in Nat
      /\ k + n + 1 <= Len(w) /\ \A i \in (k + n + 2)..Len(w) : w[i] = 0
  BY <1>1, LimbSeqIs DEF LoopAt
<1>3. W \in Nat /\ V \in Nat \ {0} /\ W < Base * V
  BY <1>1, WindowBelow
<1>4. num \in Nat /\ \E low \in 0..(P - 1) : W = low + P * num
  <2>1. /\ TopTwo(w, k + n) \in Nat
        /\ \E low \in 0..(Power(Base, n - 1) - 1) :
              ValuesFrom(w)[k + 1] = low + Power(Base, n - 1) * TopTwo(w, k + n)
    BY <1>2, WindowTop
  <2> QED
    BY <1>1, <2>1, Zenon
<1>5. PICK lw \in 0..(P - 1) : W = lw + P * num
  BY <1>4
<1>6. \E low \in 0..(P - 1) : V = low + P * v1
  BY <1>1, <1>2, TopLimbs
<1>7. PICK lv \in 0..(P - 1) : V = lv + P * v1
  BY <1>6
<1>8. P \in Nat \ {0} /\ v1 \in Nat \ {0}
  <2>1. n - 1 \in Nat /\ n \in 1..Len(vv)
    BY <1>1, <1>2
  <2> QED
    BY <1>1, <1>2, <2>1, BaseIs, PowerIs, LimbSeqIs
<1>9. W \in Int
  BY <1>3
<1>10. PICK l \in Int, t \in 0..(V - 1) : l = W \div V /\ t = W % V /\ W = V * l + t
  BY <1>3, <1>9, DivMod
<1>11. l \in Nat /\ l < Base /\ l <= Base - 1
  <2>1. W < V * Base
    BY <1>3, BaseIs
  <2>2. W \div V \in Nat /\ W \div V < Base
    BY <1>3, <2>1, BaseIs, DivRange
  <2>3. l \in Nat /\ l < Base
    BY <1>10, <2>2, Zenon
  <2> QED
    BY <2>3, BaseIs
<1>12. l * v1 <= num
  <2>1. l * (lv + P * v1) <= lw + P * num
    <3>1. l * V <= W
      <4>1. PICK p : p = V * l
        OBVIOUS
      <4>2. p \in Nat /\ l * V = p
        BY <1>3, <1>11, <4>1
      <4> QED
        BY <1>10, <4>1, <4>2, <1>3
    <3> QED
      BY <1>5, <1>7, <3>1
  <2>2. lv \in Nat /\ v1 \in Nat /\ num \in Nat
    BY <1>4, <1>8
  <2> QED
    BY <1>8, <1>11, <2>1, <2>2, TopsCover
<1>13. o \in Nat /\ l <= o /\ o * v1 <= num
  <2>1. v1 * l <= num
    BY <1>8, <1>11, <1>12
  <2>2. o \in Nat /\ l <= o
    BY <1>1, <1>4, <1>8, <1>11, <2>1, DivRange
  <2>3. num \in Int
    BY <1>4
  <2>4. PICK i \in Int, r \in 0..(v1 - 1) : i = num \div v1 /\ r = num % v1 /\ num = v1 * i + r
    BY <1>8, <2>3, DivMod
  <2>5. v1 * i = o * v1 /\ v1 * i \in Int
    <3>1. o = i
      BY <1>1, <2>4, Zenon
    <3>2. v1 * o = o * v1 /\ v1 * o \in Int
      BY <1>8, <2>2
    <3> QED
      BY <3>1, <3>2, Zenon
  <2> QED
    BY <1>4, <1>8, <2>2, <2>4, <2>5
<1>14. e = IF o >= Base THEN Base - 1 ELSE o
  BY <1>1 DEF FirstEstimate
<1>15. e \in 0..(Base - 1) /\ e \in Nat /\ l <= e /\ e <= o
  BY <1>11, <1>13, <1>14, BaseIs
<1>16. e * v1 <= num /\ e * v1 \in Nat
  <2>1. e * v1 <= o * v1 /\ e * v1 \in Nat
    BY <1>8, <1>13, <1>15, ProductOrder
  <2>2. o * v1 \in Nat
    BY <1>8, <1>13
  <2> QED
    BY <1>4, <1>13, <2>1, <2>2
<1>17. num - e * v1 \in Nat /\ num = e * v1 + (num - e * v1)
  BY <1>4, <1>16
<1>18. W < (e + 1) * V
  <2>1. (l + 1) * V <= (e + 1) * V /\ (e + 1) * V \in Nat
    BY <1>3, <1>11, <1>15, ProductOrder
  <2>2. (l + 1) * V = V * l + V /\ V * l \in Nat
    BY <1>3, <1>11
  <2> QED
    BY <1>3, <1>10, <2>1, <2>2
<1> QED
  BY <1>1, <1>15, <1>17, <1>18 DEF EstimateAt

\* A correction keeps it so ...
LEMMA CorrectionIs ==
    ASSUME NEW s, NEW w, NEW vv, NEW k, NEW qq, NEW e, NEW r,
           LoopAt(s, w, vv, k, qq), k >= 0, EstimateAt(w, vv, k, e, r),
           e * vv[Len(vv) - 1] > r * Base + w[k + Len(vv) - 1]
    PROVE  EstimateAt(w, vv, k, e - 1, r + vv[Len(vv)])
<1>1. PICK n, V, W, Q, v1, v2, u3, num : /\ n = Len(vv) /\ V = Magnitude(vv) /\ W = ValuesFrom(w)[k + 1]
                                         /\ Q = Power(Base, n - 2) /\ v1 = vv[n] /\ v2 = vv[n - 1]
                                         /\ u3 = w[k + n - 1] /\ num = TopTwo(w, k + n)
  OBVIOUS
<1>2. /\ w \in LimbSeq /\ vv \in LimbSeq /\ n \in Nat /\ n >= 2 /\ k \in Nat
      /\ k + n + 1 <= Len(w) /\ \A i \in (k + n + 2)..Len(w) : w[i] = 0
  BY <1>1, LimbSeqIs DEF LoopAt
<1>3. e \in Nat /\ e <= Base - 1 /\ r \in Nat /\ num = e * v1 + r
  BY <1>1, BaseIs DEF EstimateAt
<1>4. num \in Nat /\ \E low \in 0..(Q - 1) : W = low + Q * (num * Base + u3)
  <2>1. /\ TopTwo(w, k + n) \in Nat
        /\ \E low \in 0..(Power(Base, n - 2) - 1) :
              ValuesFrom(w)[k + 1] =
                 low + Power(Base, n - 2) * (TopTwo(w, k + n) * Base + w[k + n - 1])
    BY <1>2, WindowTop
  <2> QED
    BY <1>1, <2>1, Zenon
<1>5. PICK lw \in 0..(Q - 1) : W = lw + Q * (num * Base + u3)
  BY <1>4
<1>6. \E low \in 0..(Q - 1) : V = low + Q * (v2 + Base * v1)
  BY <1>1, <1>2, TopLimbs
<1>7. PICK lv \in 0..(Q - 1) : V = lv + Q * (v2 + Base * v1)
  BY <1>6
<1>8. Q \in Nat \ {0} /\ v1 \in Nat /\ v2 \in Nat /\ u3 \in Nat
  <2>1. n - 2 \in Nat /\ n \in 1..Len(vv) /\ n - 1 \in 1..Len(vv) /\ k + n - 1 \in 1..Len(w)
    <3>1. Len(w) \in Nat
      BY <1>2, LimbSeqIs
    <3>2. n - 2 \in Nat /\ n \in 1..n /\ n - 1 \in 1..n /\ k + n - 1 \in 1..Len(w)
      BY <1>2, <3>1
    <3> QED
      BY <1>1, <3>2, Zenon
  <2> QED
    BY <1>1, <1>2, <2>1, BaseIs, PowerIs, LimbSeqIs
<1>9. PICK a, c : a = v2 + Base * v1 /\ c = num * Base + u3
  OBVIOUS
<1>10. a \in Nat /\ c \in Nat
  BY <1>4, <1>8, <1>9, BaseIs
<1>11. r * Base + u3 < e * v2
  BY <1>1
<1>12. c < e * a
  <2>1. e * a = e * v2 + (e * v1) * Base
    BY <1>3, <1>8, <1>9, BaseIs
  <2>2. c = (e * v1) * Base + r * Base + u3
    <3>1. (e * v1 + r) * Base = (e * v1) * Base + r * Base
      BY <1>3, <1>8, BaseIs
    <3> QED
      BY <1>3, <1>9, <3>1
  <2>3. e * v2 \in Nat /\ (e * v1) * Base \in Nat /\ r * Base \in Nat
    BY <1>3, <1>8, BaseIs
  <2>4. PICK f, g, h : f = e * v2 /\ g = (e * v1) * Base /\ h = r * Base
    OBVIOUS
  <2>5. f \in Nat /\ g \in Nat /\ h \in Nat /\ h + u3 < f /\ e * a = f + g /\ c = g + h + u3
    BY <1>11, <2>1, <2>2, <2>3, <2>4
  <2>6. c < f + g
    BY <1>8, <2>5
  <2> QED
    BY <2>5, <2>6
<1>13. W < e * V
  <2>1. lw + Q * c < e * (lv + Q * a)
    BY <1>3, <1>8, <1>10, <1>12, TooLargeExceeds
  <2> QED
    BY <1>5, <1>7, <1>9, <2>1
<1>14. e # 0
  <2>1. e = 0 => e * v2 = 0
    BY <1>8
  <2>2. r * Base + u3 \in Nat
    BY <1>3, <1>8, BaseIs
  <2> QED
    BY <1>11, <2>1, <2>2
<1>15. e - 1 \in 0..(Base - 1) /\ (e - 1) + 1 = e
  BY <1>3, <1>14, BaseIs
<1>16. num = (e - 1) * v1 + (r + v1) /\ r + v1 \in Nat
  <2>1. (e - 1) * v1 = e * v1 - v1 /\ e * v1 \in Nat
    BY <1>3, <1>8
  <2> QED
    BY <1>3, <1>8, <2>1
<1>17. W < ((e - 1) + 1) * V
  BY <1>13, <1>15
<1> QED
  BY <1>1, <1>15, <1>16, <1>17 DEF EstimateAt

\* ... and when none is due the limb is the estimate or one less.
THEOREM CorrectedIs ==
    ASSUME NEW s, NEW w, NEW vv, NEW k, NEW qq, NEW e, NEW r,
           LoopAt(s, w, vv, k, qq), k >= 0, EstimateAt(w, vv, k, e, r),
           ~(r < Base /\ e * vv[Len(vv) - 1] > r * Base + w[k + Len(vv) - 1])
    PROVE  e * Magnitude(vv) < ValuesFrom(w)[k + 1] + Magnitude(vv)
<1>1. PICK n, V, W, P, Q, v1, v2, u3, num :
         /\ n = Len(vv) /\ V = Magnitude(vv) /\ W = ValuesFrom(w)[k + 1]
         /\ P = Power(Base, n - 1) /\ Q = Power(Base, n - 2) /\ v1 = vv[n] /\ v2 = vv[n - 1]
         /\ u3 = w[k + n - 1] /\ num = TopTwo(w, k + n)
  OBVIOUS
<1>2. /\ w \in LimbSeq /\ vv \in LimbSeq /\ n \in Nat /\ n >= 2 /\ k \in Nat /\ v1 # 0
      /\ k + n + 1 <= Len(w) /\ \A i \in (k + n + 2)..Len(w) : w[i] = 0
  BY <1>1, LimbSeqIs DEF LoopAt
<1>3. e \in Nat /\ e \in 0..(Base - 1) /\ r \in Nat /\ num = e * v1 + r
  BY <1>1, BaseIs DEF EstimateAt
<1>4. W \in Nat /\ V \in Nat \ {0}
  BY <1>1, WindowBelow
<1>5. /\ P \in Nat \ {0} /\ Q \in Nat \ {0} /\ v1 \in Nat \ {0} /\ v2 \in Nat /\ u3 \in Nat
  <2>1. /\ n - 1 \in Nat /\ n - 2 \in Nat /\ n \in 1..Len(vv) /\ n - 1 \in 1..Len(vv)
        /\ k + n - 1 \in 1..Len(w)
    <3>1. Len(w) \in Nat
      BY <1>2, LimbSeqIs
    <3>2. /\ n - 1 \in Nat /\ n - 2 \in Nat /\ n \in 1..n /\ n - 1 \in 1..n
          /\ k + n - 1 \in 1..Len(w)
      BY <1>2, <3>1
    <3> QED
      BY <1>1, <3>2, Zenon
  <2> QED
    BY <1>1, <1>2, <2>1, BaseIs, PowerIs, LimbSeqIs
<1>6. /\ num \in Nat
      /\ \E low \in 0..(P - 1) : W = low + P * num
      /\ \E low \in 0..(Q - 1) : W = low + Q * (num * Base + u3)
  <2>1. /\ TopTwo(w, k + n) \in Nat
        /\ \E low \in 0..(Power(Base, n - 1) - 1) :
              ValuesFrom(w)[k + 1] = low + Power(Base, n - 1) * TopTwo(w, k + n)
        /\ \E low \in 0..(Power(Base, n - 2) - 1) :
              ValuesFrom(w)[k + 1] =
                 low + Power(Base, n - 2) * (TopTwo(w, k + n) * Base + w[k + n - 1])
    BY <1>2, WindowTop
  <2> QED
    BY <1>1, <2>1, Zenon
<1>7. /\ \E low \in 0..(P - 1) : V = low + P * v1
      /\ \E low \in 0..(Q - 1) : V = low + Q * (v2 + Base * v1)
  BY <1>1, <1>2, TopLimbs
<1>8. CASE Base <= r
  <2>1. PICK lw \in 0..(P - 1), lv \in 0..(P - 1) : W = lw + P * num /\ V = lv + P * v1
    BY <1>6, <1>7
  <2>2. lw \in Nat /\ v1 \in Nat
    BY <1>5
  <2>3. e * (lv + P * v1) <= lw + P * (e * v1 + r)
    BY <1>3, <1>5, <1>8, <2>2, RemainderOut
  <2>4. e * V <= W
    BY <1>3, <2>1, <2>3
  <2>5. e * V \in Nat
    BY <1>3, <1>4
  <2> QED
    BY <1>1, <1>4, <2>4, <2>5
<1>9. CASE e * v2 <= r * Base + u3
  <2>1. PICK lw \in 0..(Q - 1), lv \in 0..(Q - 1) :
           W = lw + Q * (num * Base + u3) /\ V = lv + Q * (v2 + Base * v1)
    BY <1>6, <1>7
  <2>2. PICK a, c : a = v2 + Base * v1 /\ c = num * Base + u3
    OBVIOUS
  <2>3. a \in Nat /\ c \in Nat /\ lw \in Nat
    BY <1>5, <1>6, <2>2, BaseIs
  <2>4. e * a <= c
    <3>1. e * a = e * v2 + (e * v1) * Base
      BY <1>3, <1>5, <2>2, BaseIs
    <3>2. c = (e * v1) * Base + r * Base + u3
      <4>1. (e * v1 + r) * Base = (e * v1) * Base + r * Base
        BY <1>3, <1>5, BaseIs
      <4> QED
        BY <1>3, <2>2, <4>1
    <3>3. PICK f, g, h : f = e * v2 /\ g = (e * v1) * Base /\ h = r * Base
      OBVIOUS
    <3>4. f \in Nat /\ g \in Nat /\ h \in Nat
      BY <1>3, <1>5, <3>3, BaseIs
    <3>5. f <= h + u3 /\ e * a = f + g /\ c = g + h + u3
      BY <1>9, <3>1, <3>2, <3>3
    <3>6. f + g <= g + h + u3
      BY <1>5, <3>4, <3>5
    <3> QED
      BY <3>5, <3>6
  <2>5. Base <= a
    <3>1. 1 * Base <= v1 * Base
      BY <1>5, BaseIs, ProductOrder
    <3>2. 1 * Base = Base /\ v1 * Base = Base * v1 /\ Base * v1 \in Nat
      BY <1>5, BaseIs
    <3> QED
      BY <1>5, <2>2, <3>1, <3>2, BaseIs
  <2>6. e * (lv + Q * a) < lw + Q * c + (lv + Q * a)
    BY <1>3, <1>5, <2>3, <2>4, <2>5, ThirdLimbBears
  <2> QED
    BY <1>1, <2>1, <2>2, <2>6
<1>10. Base <= r \/ e * v2 <= r * Base + u3
  <2>1. ~(r < Base /\ e * v2 > r * Base + u3)
    BY <1>1
  <2>2. e * v2 \in Int /\ r * Base + u3 \in Int /\ r \in Int /\ Base \in Int
    BY <1>3, <1>5, BaseIs
  <2> QED
    BY <2>1, <2>2
<1> QED
  BY <1>8, <1>9, <1>10

\* Limbs are a sequence of limbs.
LEMMA InLimbSeq ==
    ASSUME NEW m \in Seq(Int), \A i \in 1..Len(m) : m[i] \in 0..(Base - 1)
    PROVE  m \in LimbSeq
<1>1. Len(m) \in Nat /\ DOMAIN m = 1..Len(m)
  OBVIOUS
<1>2. m \in [1..Len(m) -> 0..(Base - 1)]
  BY <1>1
<1> QED
  BY <1>1, <1>2, LimbFunction

\* The window of the divisor's length.
LEMMA WindowLimbs ==
    ASSUME NEW w \in Seq(Int), NEW k \in Nat, NEW n \in Nat, k + n <= Len(w),
           \A i \in (k + 1)..(k + n) : w[i] \in 0..(Base - 1)
    PROVE  /\ SubSeq(w, k + 1, k + n) \in LimbSeq /\ Len(SubSeq(w, k + 1, k + n)) = n
           /\ SubSeq(w, k + 1, k + n) \in Seq(Int)
           /\ \A i \in 1..n : w[k + i] = SubSeq(w, k + 1, k + n)[i]
<1>1. SubSeq(w, k + 1, k + n) = [i \in 1..((k + n) - (k + 1) + 1) |-> w[i + (k + 1) - 1]]
  OBVIOUS
<1>2. (k + n) - (k + 1) + 1 = n /\ \A i \in 1..n : i + (k + 1) - 1 = k + i
  OBVIOUS
<1>3. SubSeq(w, k + 1, k + n) = [i \in 1..n |-> w[k + i]]
  BY <1>1, <1>2
<1>4. \A i \in 1..n : k + i \in (k + 1)..(k + n)
  OBVIOUS
<1>5. [i \in 1..n |-> w[k + i]] \in [1..n -> 0..(Base - 1)]
  BY <1>4
<1>6. SubSeq(w, k + 1, k + n) \in LimbSeq /\ Len(SubSeq(w, k + 1, k + n)) = n
  <2>1. [i \in 1..n |-> w[k + i]] \in LimbSeq /\ Len([i \in 1..n |-> w[k + i]]) = n
    BY <1>5, LimbFunction
  <2> QED
    BY <1>3, <2>1, Zenon
<1>7. SubSeq(w, k + 1, k + n) \in Seq(Int)
  BY <1>6, LimbSeqIs
<1> QED
  BY <1>3, <1>6, <1>7

\* Between the steps: the subtraction went below zero and is to be undone once.
BackAt(s, w, vv, k, qq, e) ==
    /\ s \in LimbSeq /\ w \in Seq(Int) /\ vv \in LimbSeq /\ qq \in LimbSeq
    /\ Len(vv) >= 2 /\ vv[Len(vv)] # 0
    /\ k \in Nat /\ k + Len(vv) + 1 <= Len(w) /\ Len(w) <= Len(s)
    /\ \A i \in 1..k : w[i] = s[i]
    /\ \A i \in 1..Len(w) : w[i] \in 0..(Base - 1) \/ i = k + Len(vv) + 1
    /\ w[k + Len(vv) + 1] = -1
    /\ \A i \in (k + Len(vv) + 2)..Len(w) : w[i] = 0
    /\ e \in 1..(Base - 1)
    /\ ValuesFrom(s)[k + 1] = (e + Base * Magnitude(qq)) * Magnitude(vv) + ValuesFrom(w)[k + 1]
    /\ ValuesFrom(w)[k + 1] < 0 /\ ValuesFrom(w)[k + 1] + Magnitude(vv) >= 0

RestOf(w, vv, k, e) == Difference(SubSeq(w, k + 1, k + Len(vv)), Product(vv, e, 0).limbs)
TopOf(w, vv, k, e) == w[k + Len(vv) + 1] - Product(vv, e, 0).carry - RestOf(w, vv, k, e).carry
Subtracted(w, vv, k, e) == Replaced(w, k, RestOf(w, vv, k, e).limbs, TopOf(w, vv, k, e))

\* The top limb of the window decides whether the difference is negative.
LEMMA TopDecides ==
    ASSUME NEW P \in Nat \ {0}, NEW R \in 0..(P - 1), NEW top \in Int,
           NEW V \in Nat, V < P, NEW N \in Int, R + P * top >= -V, R + P * top < V
    PROVE  top \in {0, -1} /\ (top = 0 => P * top = 0) /\ (top = -1 => R + P * top < 0)
<1>1. top <= -2 => FALSE
  <2> SUFFICES ASSUME top <= -2
               PROVE  FALSE
    OBVIOUS
  <2>1. PICK t : t = -top
    OBVIOUS
  <2>2. t \in Nat /\ 2 <= t /\ top = -t
    BY <2>1
  <2>3. 2 * P <= t * P /\ t * P \in Nat
    BY <2>2, ProductOrder
  <2>4. P * top = -(t * P)
    BY <2>2
  <2> QED
    BY <2>3, <2>4
<1>2. top >= 1 => FALSE
  <2> SUFFICES ASSUME top >= 1
               PROVE  FALSE
    OBVIOUS
  <2>1. top \in Nat
    OBVIOUS
  <2>2. 1 * P <= top * P /\ top * P = P * top /\ P * top \in Nat
    BY <2>1, ProductOrder
  <2> QED
    BY <2>2
<1>3. top \in {0, -1}
  BY <1>1, <1>2
<1> QED
  BY <1>3

\* A window of n limbs after limb k; only the limb above it may not be one.
WindowAt(w, k, n) ==
    /\ w \in Seq(Int) /\ k \in Nat /\ n \in Nat /\ k + n + 1 <= Len(w)
    /\ \A i \in 1..Len(w) : w[i] \in 0..(Base - 1) \/ i = k + n + 1
    /\ \A i \in (k + n + 2)..Len(w) : w[i] = 0

\* The window's limbs replaced by lim, and the limb above them by top.
ReplacedAt(new, w, k, lim, top) ==
    /\ SubSeq(w, k + 1, k + Len(lim)) \in LimbSeq
    /\ Len(SubSeq(w, k + 1, k + Len(lim))) = Len(lim)
    /\ new \in Seq(Int) /\ Len(new) = Len(w)
    /\ \A i \in 1..k : new[i] = w[i]
    /\ \A i \in 1..Len(w) : new[i] \in 0..(Base - 1) \/ i = k + Len(lim) + 1
    /\ \A i \in (k + Len(lim) + 1)..Len(w) : new[i] = IF i = k + Len(lim) + 1 THEN top ELSE 0
    /\ ValuesFrom(new)[k + 1] =
          ValuesFrom(w)[k + 1] + Magnitude(lim) - Magnitude(SubSeq(w, k + 1, k + Len(lim)))
             + Power(Base, Len(lim)) * (top - w[k + Len(lim) + 1])
    /\ ValuesFrom(new)[k + 1] = Magnitude(lim) + Power(Base, Len(lim)) * top

\* Writing limbs and a top into a window changes its value by theirs.
LEMMA WindowReplaced ==
    ASSUME NEW w, NEW k, NEW lim \in LimbSeq, NEW top \in Int, WindowAt(w, k, Len(lim))
    PROVE  ReplacedAt(Replaced(w, k, lim, top), w, k, lim, top)
<1>1. PICK n, old, new : n = Len(lim) /\ old = SubSeq(w, k + 1, k + n) /\ new = Replaced(w, k, lim, top)
  OBVIOUS
<1>2. /\ w \in Seq(Int) /\ k \in Nat /\ Len(w) \in Nat /\ k + n + 1 <= Len(w) /\ Len(lim) = n /\ n \in Nat /\ lim \in Seq(Int)
      /\ (\A i \in 1..n : lim[i] \in 0..(Base - 1))
      /\ (\A i \in 1..Len(w) : w[i] \in 0..(Base - 1) \/ i = k + n + 1)
      /\ (\A i \in (k + n + 2)..Len(w) : w[i] = 0)
  <2>1. /\ Len(lim) \in Nat /\ lim \in Seq(Int)
        /\ \A i \in 1..Len(lim) : lim[i] \in 0..(Base - 1)
    BY LimbSeqIs
  <2>2. /\ w \in Seq(Int) /\ k \in Nat /\ k + Len(lim) + 1 <= Len(w)
        /\ \A i \in 1..Len(w) : w[i] \in 0..(Base - 1) \/ i = k + Len(lim) + 1
        /\ \A i \in (k + Len(lim) + 2)..Len(w) : w[i] = 0
    BY DEF WindowAt
  <2>3. Len(w) \in Nat
    BY <2>2
  <2> QED
    BY <1>1, <2>1, <2>2, <2>3, Zenon
<1>3. /\ old \in LimbSeq /\ old \in Seq(Int) /\ Len(old) = n
      /\ \A i \in 1..n : w[k + i] = old[i]
  <2>1. k + n <= Len(w)
    BY <1>2
  <2>2. \A i \in (k + 1)..(k + n) : i \in 1..Len(w) /\ i # k + n + 1
    BY <1>2
  <2>3. \A i \in (k + 1)..(k + n) : w[i] \in 0..(Base - 1)
    BY <1>2, <2>2
  <2>4. /\ SubSeq(w, k + 1, k + n) \in LimbSeq /\ Len(SubSeq(w, k + 1, k + n)) = n
        /\ SubSeq(w, k + 1, k + n) \in Seq(Int)
        /\ \A i \in 1..n : w[k + i] = SubSeq(w, k + 1, k + n)[i]
    BY <1>2, <2>1, <2>3, WindowLimbs
  <2> QED
    BY <1>1, <2>4, Zenon
<1>4. k + n + 1 \in 1..Len(w) /\ w[k + n + 1] \in Int
  <2>1. k + n + 1 \in 1..Len(w)
    BY <1>2
  <2> QED
    BY <1>2, <2>1
<1>5. /\ new \in Seq(Int) /\ Len(new) = Len(w)
      /\ \A i \in 1..k : new[i] = w[i]
      /\ \A i \in 1..n : new[k + i] = lim[i]
      /\ \A i \in (k + n + 1)..Len(w) : new[i] = IF i = k + n + 1 THEN top ELSE w[i]
  <2>1. k + Len(lim) + 1 <= Len(w)
    BY <1>2
  <2>2. Replaced(w, k, lim, top) \in Seq(Int) /\ Len(Replaced(w, k, lim, top)) = Len(w)
    BY <1>2, <2>1, ReplacedIs
  <2>3. Len(lim) \in Nat /\ Len(w) \in Nat /\ DOMAIN w = 1..Len(w)
    BY <1>2
  <2>4. /\ \A i \in 1..k : i \in 1..Len(w) /\ ~(i \in (k + 1)..(k + Len(lim))) /\ i # k + Len(lim) + 1
        /\ \A i \in 1..Len(lim) : k + i \in 1..Len(w) /\ k + i \in (k + 1)..(k + Len(lim))
                                 /\ (k + i) - k = i
        /\ \A i \in (k + Len(lim) + 1)..Len(w) : i \in 1..Len(w) /\ ~(i \in (k + 1)..(k + Len(lim)))
    BY <1>2, <2>1, <2>3
  <2>5. \A i \in 1..Len(w) :
           Replaced(w, k, lim, top)[i] =
              IF i \in (k + 1)..(k + Len(lim)) THEN lim[i - k]
              ELSE IF i = k + Len(lim) + 1 THEN top ELSE w[i]
    BY <2>3, Zenon DEF Replaced
  <2>6. \A i \in 1..k : Replaced(w, k, lim, top)[i] = w[i]
    BY <2>4, <2>5, Zenon
  <2>7. \A i \in 1..Len(lim) : Replaced(w, k, lim, top)[k + i] = lim[i]
    BY <2>4, <2>5, Zenon
  <2>8. \A i \in (k + Len(lim) + 1)..Len(w) :
           Replaced(w, k, lim, top)[i] = IF i = k + Len(lim) + 1 THEN top ELSE w[i]
    BY <2>4, <2>5, Zenon
  <2> QED
    BY <1>1, <1>2, <2>2, <2>6, <2>7, <2>8, Zenon
<1>6. \A i \in (k + n + 1)..Len(w) : new[i] = IF i = k + n + 1 THEN top ELSE 0
  <2> TAKE i \in (k + n + 1)..Len(w)
  <2>1. i # k + n + 1 => i \in (k + n + 2)..Len(w)
    BY <1>2
  <2> QED
    BY <1>2, <1>5, <2>1
<1>7. \A i \in 1..Len(w) : new[i] \in 0..(Base - 1) \/ i = k + n + 1
  <2> TAKE i \in 1..Len(w)
  <2>1. CASE i <= k
    <3>1. i \in 1..k /\ w[i] \in 0..(Base - 1)
      BY <1>2, <2>1
    <3> QED
      BY <1>5, <3>1
  <2>2. CASE k < i /\ i <= k + n
    <3>1. i - k \in 1..n /\ k + (i - k) = i
      BY <1>2, <2>2
    <3> QED
      BY <1>2, <1>5, <3>1
  <2>3. CASE i > k + n /\ i # k + n + 1
    <3>1. i \in (k + n + 1)..Len(w)
      BY <1>2, <2>3
    <3> QED
      BY <1>6, <2>3, <3>1, BaseIs
  <2> QED
    BY <1>2, <2>1, <2>2, <2>3
<1>8. ValuesFrom(new)[k + 1] =
         ValuesFrom(w)[k + 1] + Magnitude(lim) - Magnitude(old) + Power(Base, n) * (top - w[k + n + 1])
  <2>1. /\ Len(old) = Len(lim) /\ k + Len(lim) + 1 <= Len(w) /\ \A i \in 1..Len(lim) : w[k + i] = old[i]
        /\ old \in Seq(Int) /\ lim \in Seq(Int) /\ w \in Seq(Int) /\ k \in Nat
    BY <1>2, <1>3, Zenon
  <2>2. ValuesFrom(Replaced(w, k, lim, top))[k + 1] =
           ValuesFrom(w)[k + 1] + Magnitude(lim) - Magnitude(old)
              + Power(Base, Len(lim)) * (top - w[k + Len(lim) + 1])
    BY <2>1, ReplacedWorth
  <2> QED
    BY <1>1, <1>2, <2>2, Zenon
<1>9. ValuesFrom(new)[k + 1] = Magnitude(lim) + Power(Base, n) * top
  <2>1. /\ k + Len(lim) <= Len(new) /\ \A i \in 1..Len(lim) : new[k + i] = lim[i]
    BY <1>2, <1>5
  <2>2. ValuesFrom(new)[k + 1] =
           Magnitude(lim) + Power(Base, Len(lim)) * ValuesFrom(new)[k + Len(lim) + 1]
    BY <1>2, <1>5, <2>1, Windowed
  <2>3. ValuesFrom(new)[k + n + 1] = top
    <3>1. PICK t : t = k + n + 1
      OBVIOUS
    <3>2. t \in 1..Len(new) /\ t \in 0..Len(new) /\ t + 1 \in (t + 1)..(Len(new) + 1)
      BY <1>2, <1>5, <3>1
    <3>3. \A i \in (t + 1)..Len(new) : new[i] = 0
      <4> TAKE i \in (t + 1)..Len(new)
      <4>1. i \in (k + n + 1)..Len(w) /\ i # k + n + 1
        BY <1>2, <1>5, <3>1
      <4> QED
        BY <1>6, <4>1
    <3>4. \A i \in (t + 1)..(Len(new) + 1) : ValuesFrom(new)[i] = 0
      BY <1>5, <3>2, <3>3, ZerosAbove
    <3>5. ValuesFrom(new)[t] = new[t] + Base * ValuesFrom(new)[t + 1]
      BY <1>5, <3>2, ValuesFromIs
    <3>6. new[t] = top
      <4>1. k + n + 1 \in (k + n + 1)..Len(w)
        BY <1>2
      <4> QED
        BY <1>6, <3>1, <4>1
    <3>7. ValuesFrom(new)[t + 1] = 0
      BY <3>2, <3>4
    <3>8. ValuesFrom(new)[t] = top + Base * 0
      BY <3>5, <3>6, <3>7, Zenon
    <3>9. top + Base * 0 = top
      BY BaseIs
    <3> QED
      BY <3>1, <3>8, <3>9, Zenon
  <2> QED
    BY <1>2, <2>2, <2>3, Zenon
<1>10. Len(lim) = n /\ k + Len(lim) + 1 = k + n + 1
  BY <1>2
<1> QED
  BY <1>1, <1>3, <1>5, <1>6, <1>7, <1>8, <1>9, <1>10, Zenon DEF ReplacedAt

\* D4 takes e times the divisor off the window.
LEMMA SubtractedWorth ==
    ASSUME NEW w \in LimbSeq, NEW vv \in LimbSeq, NEW k \in Nat, NEW e \in Nat,
           k + Len(vv) + 1 <= Len(w), \A i \in (k + Len(vv) + 2)..Len(w) : w[i] = 0
    PROVE  /\ Subtracted(w, vv, k, e) \in Seq(Int) /\ Len(Subtracted(w, vv, k, e)) = Len(w)
           /\ \A i \in 1..k : Subtracted(w, vv, k, e)[i] = w[i]
           /\ \A i \in 1..Len(w) : Subtracted(w, vv, k, e)[i] \in 0..(Base - 1)
                                   \/ i = k + Len(vv) + 1
           /\ \A i \in (k + Len(vv) + 1)..Len(w) :
                 Subtracted(w, vv, k, e)[i] = IF i = k + Len(vv) + 1 THEN TopOf(w, vv, k, e) ELSE 0
           /\ ValuesFrom(Subtracted(w, vv, k, e))[k + 1] =
                 ValuesFrom(w)[k + 1] - Magnitude(vv) * e
           /\ ValuesFrom(Subtracted(w, vv, k, e))[k + 1] =
                 Magnitude(RestOf(w, vv, k, e).limbs) + Power(Base, Len(vv)) * TopOf(w, vv, k, e)
           /\ TopOf(w, vv, k, e) \in Int
           /\ Magnitude(RestOf(w, vv, k, e).limbs) \in 0..(Power(Base, Len(vv)) - 1)
<1>1. PICK n, old, pr, rest, top, lim :
         /\ n = Len(vv) /\ old = SubSeq(w, k + 1, k + n) /\ pr = Product(vv, e, 0)
         /\ rest = RestOf(w, vv, k, e) /\ top = TopOf(w, vv, k, e) /\ lim = rest.limbs
  OBVIOUS
<1>2. /\ n \in Nat /\ Len(w) \in Nat /\ w \in Seq(Int) /\ \A i \in 1..Len(w) : w[i] \in 0..(Base - 1)
      /\ k + n + 1 <= Len(w) /\ \A i \in (k + n + 2)..Len(w) : w[i] = 0
  BY <1>1, LimbSeqIs
<1>3. /\ old \in LimbSeq /\ old \in Seq(Int) /\ Len(old) = n
      /\ \A i \in 1..n : w[k + i] = old[i]
  <2>1. /\ k + n <= Len(w) /\ \A i \in (k + 1)..(k + n) : w[i] \in 0..(Base - 1)
    BY <1>2
  <2>2. /\ SubSeq(w, k + 1, k + n) \in LimbSeq /\ Len(SubSeq(w, k + 1, k + n)) = n
        /\ SubSeq(w, k + 1, k + n) \in Seq(Int)
        /\ \A i \in 1..n : w[k + i] = SubSeq(w, k + 1, k + n)[i]
    BY <1>2, <2>1, WindowLimbs
  <2> QED
    BY <1>1, <2>2, Zenon
<1>4. /\ pr.limbs \in LimbSeq /\ Len(pr.limbs) = n /\ pr.carry \in Nat
      /\ Magnitude(vv) * e + 0 = Magnitude(pr.limbs) + Power(Base, n) * pr.carry
  <2>1. 0 \in Nat
    OBVIOUS
  <2>2. /\ Product(vv, e, 0).limbs \in LimbSeq
        /\ Len(Product(vv, e, 0).limbs) = Len(vv)
        /\ Product(vv, e, 0).carry \in Nat
        /\ Magnitude(vv) * e + 0 =
              Magnitude(Product(vv, e, 0).limbs) + Power(Base, Len(vv)) * Product(vv, e, 0).carry
    BY <2>1, ProductIs
  <2> QED
    BY <1>1, <2>2, Zenon
<1>5. rest = Difference(old, pr.limbs)
  BY <1>1, Zenon DEF RestOf
<1>6. /\ rest.limbs \in LimbSeq /\ Len(rest.limbs) = n /\ rest.carry \in {0, 1}
      /\ Magnitude(old) - Magnitude(pr.limbs) = Magnitude(rest.limbs) - Power(Base, n) * rest.carry
  <2>1. Len(pr.limbs) <= Len(old)
    BY <1>2, <1>3, <1>4
  <2>2. /\ Difference(old, pr.limbs).limbs \in LimbSeq
        /\ Len(Difference(old, pr.limbs).limbs) = Len(old)
        /\ Difference(old, pr.limbs).carry \in {0, 1}
        /\ Magnitude(old) - Magnitude(pr.limbs) =
              Magnitude(Difference(old, pr.limbs).limbs)
                 - Power(Base, Len(old)) * Difference(old, pr.limbs).carry
    BY <1>3, <1>4, <2>1, DifferenceIs
  <2> QED
    BY <1>3, <1>5, <2>2, Zenon
<1>7. top = w[k + n + 1] - pr.carry - rest.carry
  BY <1>1, Zenon DEF TopOf
<1>8. k + n + 1 \in 1..Len(w) /\ w[k + n + 1] \in Int /\ top \in Int
  <2>1. k + n + 1 \in 1..Len(w)
    BY <1>2
  <2> QED
    BY <1>2, <1>4, <1>6, <1>7, <2>1
<1>9. /\ Replaced(w, k, lim, top) \in Seq(Int) /\ Len(Replaced(w, k, lim, top)) = Len(w)
      /\ \A i \in 1..k : Replaced(w, k, lim, top)[i] = w[i]
      /\ \A i \in 1..Len(w) : Replaced(w, k, lim, top)[i] \in 0..(Base - 1) \/ i = k + n + 1
      /\ \A i \in (k + n + 1)..Len(w) :
            Replaced(w, k, lim, top)[i] = IF i = k + n + 1 THEN top ELSE 0
      /\ ValuesFrom(Replaced(w, k, lim, top))[k + 1] =
            ValuesFrom(w)[k + 1] + Magnitude(lim) - Magnitude(SubSeq(w, k + 1, k + n))
               + Power(Base, n) * (top - w[k + n + 1])
      /\ ValuesFrom(Replaced(w, k, lim, top))[k + 1] = Magnitude(lim) + Power(Base, n) * top
  <2>1. WindowAt(w, k, n) /\ lim \in LimbSeq /\ top \in Int /\ Len(lim) = n
    BY <1>1, <1>2, <1>6, <1>8, Zenon DEF WindowAt
  <2>2. WindowAt(w, k, Len(lim))
    BY <2>1, Zenon
  <2>3. ReplacedAt(Replaced(w, k, lim, top), w, k, lim, top)
    BY <2>1, <2>2, WindowReplaced, Zenon
  <2> QED
    BY <2>1, <2>3, Zenon DEF ReplacedAt
<1>10. PICK new : new = Subtracted(w, vv, k, e)
  OBVIOUS
<1>11. new = Replaced(w, k, lim, top)
  BY <1>1, <1>10, Zenon DEF Subtracted
<1>12. Power(Base, n) \in Nat \ {0}
  BY <1>2, BaseIs, PowerIs
<1>13. /\ Magnitude(old) \in Nat /\ Magnitude(pr.limbs) \in Nat /\ Magnitude(rest.limbs) \in Nat
       /\ Magnitude(vv) \in Nat /\ Magnitude(rest.limbs) < Power(Base, n)
  BY <1>3, <1>4, <1>6, WorthBelow
<1>14. ValuesFrom(w)[k + 1] \in Int
  <2>1. k + 1 \in 1..(Len(w) + 1)
    BY <1>2
  <2> QED
    BY <1>2, <2>1, ValuesFromIs
<1>15. ValuesFrom(new)[k + 1] = ValuesFrom(w)[k + 1] - Magnitude(vv) * e
  <2>1. PICK P, W, R, M, p, pc, rc, a, b, c, E, N :
          /\ P = Power(Base, n) /\ W = ValuesFrom(w)[k + 1] /\ R = Magnitude(rest.limbs)
          /\ M = Magnitude(old) /\ p = Magnitude(pr.limbs) /\ pc = pr.carry /\ rc = rest.carry
          /\ a = P * pc /\ b = P * rc /\ c = P * (top - w[k + n + 1]) /\ E = Magnitude(vv) * e
          /\ N = ValuesFrom(new)[k + 1]
    OBVIOUS
  <2>2. /\ P \in Nat /\ W \in Int /\ R \in Int /\ M \in Int /\ p \in Int /\ pc \in Int /\ rc \in Int
        /\ a \in Int /\ b \in Int /\ E \in Int
    <3>1. P \in Nat /\ W \in Int /\ R \in Nat /\ M \in Nat /\ p \in Nat /\ pc \in Nat /\ rc \in {0, 1}
      BY <1>4, <1>6, <1>12, <1>13, <1>14, <2>1, Zenon
    <3>2. P * pc \in Int /\ P * rc \in Int /\ Magnitude(vv) * e \in Int
      BY <1>13, <3>1
    <3> QED
      BY <2>1, <3>1, <3>2
  <2>3. top - w[k + n + 1] = -(pc + rc)
    BY <1>4, <1>6, <1>7, <1>8, <2>1
  <2>4. c = -(a + b)
    <3>1. c = P * (-(pc + rc))
      BY <2>1, <2>3, Zenon
    <3>2. P * (-(pc + rc)) = -(P * pc + P * rc)
      BY <2>2
    <3> QED
      BY <2>1, <3>1, <3>2, Zenon
  <2>5. E + 0 = p + a
    BY <1>4, <2>1, Zenon
  <2>6. M - p = R - b
    BY <1>6, <2>1, Zenon
  <2>7. N = W + R - M + c
    BY <1>1, <1>9, <1>11, <2>1, Zenon
  <2>8. N = W - E
    BY <2>2, <2>4, <2>5, <2>6, <2>7
  <2> QED
    BY <2>1, <2>8, Zenon
<1>16. lim \in LimbSeq /\ Magnitude(lim) \in 0..(Power(Base, n) - 1)
  <2>1. Magnitude(rest.limbs) \in 0..(Power(Base, n) - 1)
    BY <1>12, <1>13
  <2> QED
    BY <1>1, <1>6, <2>1, Zenon
<1>17. /\ new \in Seq(Int) /\ Len(new) = Len(w)
       /\ \A i \in 1..k : new[i] = w[i]
       /\ \A i \in 1..Len(w) : new[i] \in 0..(Base - 1) \/ i = k + n + 1
       /\ \A i \in (k + n + 1)..Len(w) : new[i] = IF i = k + n + 1 THEN top ELSE 0
       /\ ValuesFrom(new)[k + 1] = ValuesFrom(w)[k + 1] - Magnitude(vv) * e
       /\ ValuesFrom(new)[k + 1] = Magnitude(lim) + Power(Base, n) * top
       /\ top \in Int /\ Magnitude(lim) \in 0..(Power(Base, n) - 1)
  BY <1>8, <1>9, <1>11, <1>15, <1>16, Zenon
<1> QED
  BY <1>1, <1>10, <1>17, Zenon

\* What the loop knows of the window and of the quotient so far, in short.
LEMMA LoopHas ==
    ASSUME NEW s, NEW w, NEW vv, NEW k, NEW qq, LoopAt(s, w, vv, k, qq), k >= 0
    PROVE  /\ s \in LimbSeq /\ w \in LimbSeq /\ vv \in LimbSeq /\ qq \in LimbSeq
           /\ Len(vv) \in Nat /\ Len(vv) >= 2 /\ vv[Len(vv)] # 0
           /\ k \in Nat /\ k + Len(vv) + 1 <= Len(w) /\ Len(w) <= Len(s)
           /\ Len(w) \in Nat /\ Len(s) \in Nat
           /\ \A i \in 1..k : w[i] = s[i]
           /\ \A i \in (k + Len(vv) + 2)..Len(w) : w[i] = 0
<1>1. /\ s \in LimbSeq /\ w \in LimbSeq /\ vv \in LimbSeq /\ qq \in LimbSeq
      /\ Len(vv) >= 2 /\ vv[Len(vv)] # 0
      /\ k \in Nat /\ k + Len(vv) + 1 <= Len(w) /\ Len(w) <= Len(s)
      /\ \A i \in 1..(k + 1) : w[i] = s[i]
      /\ \A i \in (k + Len(vv) + 2)..Len(w) : w[i] = 0
  BY DEF LoopAt
<1>2. \A i \in 1..k : i \in 1..(k + 1)
  BY <1>1
<1>3. Len(vv) \in Nat /\ Len(w) \in Nat /\ Len(s) \in Nat
  BY <1>1, LimbSeqIs
<1> QED
  BY <1>1, <1>2, <1>3

\* One more limb in front of the quotient.
LEMMA OneMoreLimb ==
    ASSUME NEW qq \in LimbSeq, NEW e \in 0..(Base - 1), NEW V \in Nat, NEW W \in Int
    PROVE  /\ <<e>> \o qq \in LimbSeq
           /\ (e + Base * Magnitude(qq)) * V + (W - V * e) = (Base * Magnitude(qq)) * V + W
           /\ Magnitude(<<e>> \o qq) * V + (W - V * e) = (Base * Magnitude(qq)) * V + W
<1>1. <<e>> \o qq \in LimbSeq /\ Magnitude(<<e>> \o qq) = e + Base * Magnitude(qq)
  BY Prepended
<1>2. Magnitude(qq) \in Nat /\ e \in Nat
  BY BaseIs, WorthBelow
<1>3. PICK b : b = Base * Magnitude(qq)
  OBVIOUS
<1>4. b \in Nat
  BY <1>2, <1>3, BaseIs
<1>5. (e + b) * V = e * V + b * V /\ e * V \in Nat /\ b * V \in Nat /\ V * e = e * V
  BY <1>2, <1>4
<1>6. (e + b) * V + (W - V * e) = b * V + W
  BY <1>5
<1> QED
  BY <1>1, <1>3, <1>6, Zenon

\* D4: what is left is either the window of the next limb or one divisor short.
THEOREM SubtractedIs ==
    ASSUME NEW s, NEW w, NEW vv, NEW k, NEW qq, NEW e, NEW r,
           LoopAt(s, w, vv, k, qq), k >= 0, EstimateAt(w, vv, k, e, r),
           e * Magnitude(vv) < ValuesFrom(w)[k + 1] + Magnitude(vv)
    PROVE  /\ TopOf(w, vv, k, e) \in {0, -1}
           /\ TopOf(w, vv, k, e) = 0 => LoopAt(s, Subtracted(w, vv, k, e), vv, k - 1, <<e>> \o qq)
           /\ TopOf(w, vv, k, e) = -1 => BackAt(s, Subtracted(w, vv, k, e), vv, k, qq, e)
<1>1. PICK n, V, W, P, R, top, new, N, A, G :
         /\ n = Len(vv) /\ V = Magnitude(vv) /\ W = ValuesFrom(w)[k + 1] /\ P = Power(Base, n)
         /\ R = Magnitude(RestOf(w, vv, k, e).limbs) /\ top = TopOf(w, vv, k, e)
         /\ new = Subtracted(w, vv, k, e) /\ N = ValuesFrom(new)[k + 1] /\ A = Magnitude(qq)
         /\ G = ValuesFrom(s)[k + 1]
  OBVIOUS
<1>2. /\ s \in LimbSeq /\ w \in LimbSeq /\ vv \in LimbSeq /\ qq \in LimbSeq
      /\ n \in Nat /\ n >= 2 /\ vv[n] # 0
      /\ k \in Nat /\ k + n + 1 <= Len(w) /\ Len(w) <= Len(s)
      /\ Len(w) \in Nat /\ Len(s) \in Nat
      /\ \A i \in 1..k : w[i] = s[i]
      /\ \A i \in (k + n + 2)..Len(w) : w[i] = 0
  <2>1. /\ s \in LimbSeq /\ w \in LimbSeq /\ vv \in LimbSeq /\ qq \in LimbSeq
        /\ Len(vv) \in Nat /\ Len(vv) >= 2 /\ vv[Len(vv)] # 0
        /\ k \in Nat /\ k + Len(vv) + 1 <= Len(w) /\ Len(w) <= Len(s)
        /\ Len(w) \in Nat /\ Len(s) \in Nat
        /\ \A i \in 1..k : w[i] = s[i]
        /\ \A i \in (k + Len(vv) + 2)..Len(w) : w[i] = 0
    BY LoopHas
  <2> QED
    BY <1>1, <2>1, Zenon
<1>3. W \in Nat /\ V \in Nat \ {0} /\ A \in Nat /\ G = (Base * A) * V + W
  <2>1. /\ ValuesFrom(w)[k + 1] \in Nat /\ Magnitude(vv) \in Nat \ {0} /\ Magnitude(qq) \in Nat
        /\ ValuesFrom(s)[k + 1] = (Base * Magnitude(qq)) * Magnitude(vv) + ValuesFrom(w)[k + 1]
    BY WindowBelow
  <2> QED
    BY <1>1, <2>1, Zenon
<1>4. e \in 0..(Base - 1) /\ e \in Nat /\ W < (e + 1) * V
  BY <1>1, BaseIs DEF EstimateAt
<1>5. /\ new \in Seq(Int) /\ Len(new) = Len(w)
      /\ \A i \in 1..k : new[i] = w[i]
      /\ \A i \in 1..Len(w) : new[i] \in 0..(Base - 1) \/ i = k + n + 1
      /\ \A i \in (k + n + 1)..Len(w) : new[i] = IF i = k + n + 1 THEN top ELSE 0
      /\ N = W - V * e /\ N = R + P * top /\ top \in Int /\ R \in 0..(P - 1)
  <2>1. k + Len(vv) + 1 <= Len(w) /\ \A i \in (k + Len(vv) + 2)..Len(w) : w[i] = 0
    BY <1>1, <1>2, Zenon
  <2>2. /\ Subtracted(w, vv, k, e) \in Seq(Int) /\ Len(Subtracted(w, vv, k, e)) = Len(w)
        /\ \A i \in 1..k : Subtracted(w, vv, k, e)[i] = w[i]
        /\ \A i \in 1..Len(w) : Subtracted(w, vv, k, e)[i] \in 0..(Base - 1)
                                \/ i = k + Len(vv) + 1
        /\ \A i \in (k + Len(vv) + 1)..Len(w) :
              Subtracted(w, vv, k, e)[i] = IF i = k + Len(vv) + 1 THEN TopOf(w, vv, k, e) ELSE 0
        /\ ValuesFrom(Subtracted(w, vv, k, e))[k + 1] =
              ValuesFrom(w)[k + 1] - Magnitude(vv) * e
        /\ ValuesFrom(Subtracted(w, vv, k, e))[k + 1] =
              Magnitude(RestOf(w, vv, k, e).limbs) + Power(Base, Len(vv)) * TopOf(w, vv, k, e)
        /\ TopOf(w, vv, k, e) \in Int
        /\ Magnitude(RestOf(w, vv, k, e).limbs) \in 0..(Power(Base, Len(vv)) - 1)
    BY <1>2, <1>4, <2>1, SubtractedWorth
  <2> QED
    BY <1>1, <2>2, Zenon
<1>6. P \in Nat \ {0} /\ V < P
  BY <1>1, <1>2, BaseIs, PowerIs, WorthBelow
<1>7. /\ V * e \in Nat /\ e * V = V * e /\ (e + 1) * V = V * e + V
      /\ N \in Int /\ N >= -V /\ N < V
  <2>1. V * e \in Nat /\ e * V = V * e /\ (e + 1) * V = V * e + V
    BY <1>3, <1>4
  <2>2. e * V < W + V
    BY <1>1, Zenon
  <2>3. N = W - V * e
    BY <1>5
  <2> QED
    BY <1>3, <1>4, <2>1, <2>2, <2>3
<1>8. top \in {0, -1} /\ (top = 0 => P * top = 0) /\ (top = -1 => R + P * top < 0)
  <2>1. V \in Nat /\ R + P * top >= -V /\ R + P * top < V
    BY <1>3, <1>5, <1>7
  <2> QED
    BY <1>5, <1>6, <1>7, <2>1, TopDecides
<1>9. /\ <<e>> \o qq \in LimbSeq
      /\ G = (e + Base * A) * V + N
      /\ G = Magnitude(<<e>> \o qq) * V + N
  <2>1. /\ <<e>> \o qq \in LimbSeq
        /\ (e + Base * Magnitude(qq)) * V + (W - V * e) = (Base * Magnitude(qq)) * V + W
        /\ Magnitude(<<e>> \o qq) * V + (W - V * e) = (Base * Magnitude(qq)) * V + W
    <3>1. V \in Nat /\ W \in Int
      BY <1>3
    <3> QED
      BY <1>2, <1>4, <3>1, OneMoreLimb
  <2> QED
    BY <1>1, <1>3, <1>5, <2>1, Zenon
<1>10. \A i \in 1..k : new[i] = s[i]
  BY <1>2, <1>5
<1>11. k + n + 1 \in (k + n + 1)..Len(w) /\ k + n + 1 \in 1..Len(w) /\ new[k + n + 1] = top
  <2>1. k + n + 1 \in (k + n + 1)..Len(w) /\ k + n + 1 \in 1..Len(w)
    BY <1>2
  <2> QED
    BY <1>5, <2>1
<1>12. ASSUME top = 0
       PROVE  LoopAt(s, new, vv, k - 1, <<e>> \o qq)
  <2>1. PICK l : l = k - 1
    OBVIOUS
  <2>2. /\ l \in Int /\ l >= -1 /\ l + 1 = k /\ l + 2 = k + 1 /\ l + n + 2 = k + n + 1
        /\ l + n + 1 <= Len(w)
    BY <1>2, <2>1
  <2>3. new \in LimbSeq
    <3>1. \A i \in 1..Len(new) : new[i] \in 0..(Base - 1)
      <4> TAKE i \in 1..Len(new)
      <4>1. i \in 1..Len(w)
        BY <1>5
      <4>2. CASE i = k + n + 1
        BY <1>11, <1>12, <4>2, BaseIs
      <4> QED
        BY <1>5, <4>1, <4>2
    <3> QED
      BY <1>5, <3>1, InLimbSeq
  <2>4. \A i \in (k + n + 1)..Len(w) : new[i] = 0
    BY <1>5, <1>12
  <2>5. N < V
    BY <1>7
  <2>6. /\ \A i \in 1..(l + 1) : new[i] = s[i]
        /\ \A i \in (l + n + 2)..Len(new) : new[i] = 0
        /\ ValuesFrom(s)[l + 2] = Magnitude(<<e>> \o qq) * V + ValuesFrom(new)[l + 2]
        /\ ValuesFrom(new)[l + 2] < V
        /\ l + n + 1 <= Len(new) /\ Len(new) <= Len(s)
    BY <1>1, <1>2, <1>5, <1>9, <1>10, <2>2, <2>4, <2>5, Zenon
  <2>7. LoopAt(s, new, vv, l, <<e>> \o qq)
    BY <1>1, <1>2, <1>9, <2>2, <2>3, <2>6, Zenon DEF LoopAt
  <2> QED
    BY <2>1, <2>7, Zenon
<1>13. ASSUME top = -1
       PROVE  BackAt(s, new, vv, k, qq, e)
  <2>1. N < 0 /\ N + V >= 0
    BY <1>3, <1>5, <1>7, <1>8, <1>13
  <2>2. e \in 1..(Base - 1)
    <3>1. e = 0 => V * e = 0
      BY <1>3
    <3> QED
      BY <1>3, <1>4, <1>5, <2>1, <3>1, BaseIs
  <2>3. \A i \in (k + n + 2)..Len(new) : new[i] = 0
    <3> TAKE i \in (k + n + 2)..Len(new)
    <3>1. i \in (k + n + 1)..Len(w) /\ i # k + n + 1
      BY <1>2, <1>5
    <3> QED
      BY <1>5, <3>1
  <2>4. /\ k + n + 1 <= Len(new) /\ Len(new) <= Len(s)
        /\ \A i \in 1..Len(new) : new[i] \in 0..(Base - 1) \/ i = k + n + 1
        /\ new[k + n + 1] = -1
    BY <1>2, <1>5, <1>11, <1>13, Zenon
  <2>5. /\ ValuesFrom(s)[k + 1] = (e + Base * Magnitude(qq)) * Magnitude(vv) + ValuesFrom(new)[k + 1]
        /\ ValuesFrom(new)[k + 1] < 0 /\ ValuesFrom(new)[k + 1] + Magnitude(vv) >= 0
    BY <1>1, <1>9, <2>1, Zenon
  <2> QED
    BY <1>1, <1>2, <1>5, <1>10, <2>2, <2>3, <2>4, <2>5, Zenon DEF BackAt
<1> QED
  BY <1>1, <1>8, <1>12, <1>13, Zenon

\* Adding two magnitudes of one length.
LEMMA SumSame ==
    ASSUME NEW a \in LimbSeq, NEW b \in LimbSeq, Len(a) <= Len(b), Len(b) <= Len(a)
    PROVE  /\ Sum(a, b).limbs \in LimbSeq /\ Len(Sum(a, b).limbs) = Len(b)
           /\ Sum(a, b).carry \in {0, 1}
           /\ Magnitude(a) + Magnitude(b) =
                 Magnitude(Sum(a, b).limbs) + Power(Base, Len(b)) * Sum(a, b).carry
<1>1. PICK N : N = Larger(Len(a), Len(b))
  OBVIOUS
<1>2. N = Len(b)
  <2>1. Len(a) \in Nat /\ Len(b) \in Nat
    BY LimbSeqIs
  <2> QED
    BY <1>1, <2>1 DEF Larger
<1>3. /\ Sum(a, b).limbs \in LimbSeq /\ Len(Sum(a, b).limbs) = N
      /\ Sum(a, b).carry \in {0, 1}
      /\ Magnitude(a) + Magnitude(b) =
            Magnitude(Sum(a, b).limbs) + Power(Base, N) * Sum(a, b).carry
  BY <1>1, SumIs, Zenon
<1> QED
  BY <1>2, <1>3, Zenon

RestoredSum(w, vv, k) == Sum(SubSeq(w, k + 1, k + Len(vv)), vv)
AddedBack(w, vv, k) ==
    Replaced(w, k, RestoredSum(w, vv, k).limbs, w[k + Len(vv) + 1] + RestoredSum(w, vv, k).carry)

\* D6: one divisor added back restores the window, a limb less found.
THEOREM AddedBackIs ==
    ASSUME NEW s, NEW w, NEW vv, NEW k, NEW qq, NEW e, BackAt(s, w, vv, k, qq, e)
    PROVE  LoopAt(s, AddedBack(w, vv, k), vv, k - 1, <<e - 1>> \o qq)
<1>1. PICK n, V, W, P, old, sum, lim, c, new, A, G :
         /\ n = Len(vv) /\ V = Magnitude(vv) /\ W = ValuesFrom(w)[k + 1] /\ P = Power(Base, n)
         /\ old = SubSeq(w, k + 1, k + n) /\ sum = RestoredSum(w, vv, k) /\ lim = sum.limbs
         /\ c = sum.carry /\ new = AddedBack(w, vv, k) /\ A = Magnitude(qq)
         /\ G = ValuesFrom(s)[k + 1]
  OBVIOUS
<1>2. /\ s \in LimbSeq /\ w \in Seq(Int) /\ vv \in LimbSeq /\ qq \in LimbSeq
      /\ n >= 2 /\ vv[n] # 0
      /\ k \in Nat /\ k + n + 1 <= Len(w) /\ Len(w) <= Len(s)
      /\ (\A i \in 1..k : w[i] = s[i])
      /\ (\A i \in 1..Len(w) : w[i] \in 0..(Base - 1) \/ i = k + n + 1)
      /\ w[k + n + 1] = -1
      /\ (\A i \in (k + n + 2)..Len(w) : w[i] = 0)
      /\ e \in 1..(Base - 1)
      /\ G = (e + Base * A) * V + W
      /\ W < 0 /\ W + V >= 0
  BY <1>1, Zenon DEF BackAt
<1>3. n \in Nat /\ Len(w) \in Nat /\ Len(s) \in Nat /\ V \in Nat /\ A \in Nat /\ V < P
      /\ P \in Nat \ {0}
  <2>1. n \in Nat /\ Len(s) \in Nat
    BY <1>1, <1>2, LimbSeqIs
  <2>2. V \in Nat /\ A \in Nat /\ V < P
    BY <1>1, <1>2, WorthBelow
  <2>3. Power(Base, n) \in Nat \ {0}
    BY <2>1, BaseIs, PowerIs
  <2>4. Len(w) \in Nat
    BY <1>2
  <2> QED
    BY <1>1, <2>1, <2>2, <2>3, <2>4, Zenon
<1>4. W \in Int
  <2>1. k + 1 \in 1..(Len(w) + 1)
    BY <1>2, <1>3
  <2> QED
    BY <1>1, <1>2, <2>1, ValuesFromIs
<1>5. old \in LimbSeq /\ Len(old) = n /\ old \in Seq(Int) /\ \A i \in 1..n : w[k + i] = old[i]
  <2>1. k + n <= Len(w)
    BY <1>2, <1>3
  <2>2. \A i \in (k + 1)..(k + n) : i \in 1..Len(w) /\ i # k + n + 1
    BY <1>2, <1>3
  <2>3. \A i \in (k + 1)..(k + n) : w[i] \in 0..(Base - 1)
    BY <1>2, <2>2
  <2>4. /\ SubSeq(w, k + 1, k + n) \in LimbSeq /\ Len(SubSeq(w, k + 1, k + n)) = n
        /\ SubSeq(w, k + 1, k + n) \in Seq(Int)
        /\ \A i \in 1..n : w[k + i] = SubSeq(w, k + 1, k + n)[i]
    BY <1>2, <1>3, <2>1, <2>3, WindowLimbs
  <2> QED
    BY <1>1, <2>4, Zenon
<1>6. /\ lim \in LimbSeq /\ Len(lim) = n /\ c \in {0, 1}
      /\ Magnitude(old) + V = Magnitude(lim) + P * c
  <2>1. Len(old) <= Len(vv) /\ Len(vv) <= Len(old)
    BY <1>1, <1>3, <1>5
  <2>2. /\ Sum(old, vv).limbs \in LimbSeq /\ Len(Sum(old, vv).limbs) = Len(vv)
        /\ Sum(old, vv).carry \in {0, 1}
        /\ Magnitude(old) + Magnitude(vv) =
              Magnitude(Sum(old, vv).limbs) + Power(Base, Len(vv)) * Sum(old, vv).carry
    BY <1>2, <1>5, <2>1, SumSame
  <2>3. sum = Sum(old, vv)
    BY <1>1, Zenon DEF RestoredSum
  <2> QED
    BY <1>1, <2>2, <2>3, Zenon
<1>7. PICK top : top = -1 + c
  OBVIOUS
<1>8. top \in Int /\ new = Replaced(w, k, lim, top)
  <2>1. w[k + Len(vv) + 1] + sum.carry = top
    BY <1>1, <1>2, <1>7, Zenon
  <2>2. AddedBack(w, vv, k) = Replaced(w, k, lim, top)
    BY <1>1, <2>1, Zenon DEF AddedBack
  <2> QED
    BY <1>1, <1>6, <1>7, <2>2
<1>9. ReplacedAt(new, w, k, lim, top)
  <2>1. WindowAt(w, k, Len(lim))
    BY <1>2, <1>3, <1>6, Zenon DEF WindowAt
  <2> QED
    BY <1>6, <1>8, <2>1, WindowReplaced, Zenon
<1>10. PICK N, M, R : N = ValuesFrom(new)[k + 1] /\ M = Magnitude(old) /\ R = Magnitude(lim)
  OBVIOUS
<1>11. /\ new \in Seq(Int) /\ Len(new) = Len(w)
       /\ \A i \in 1..k : new[i] = w[i]
       /\ \A i \in 1..Len(w) : new[i] \in 0..(Base - 1) \/ i = k + n + 1
       /\ \A i \in (k + n + 1)..Len(w) : new[i] = IF i = k + n + 1 THEN top ELSE 0
       /\ N = W + R - M + P * (top - w[k + n + 1])
       /\ N = R + P * top
  BY <1>1, <1>6, <1>9, <1>10, Zenon DEF ReplacedAt
<1>12. M \in Nat /\ R \in 0..(P - 1) /\ M + V = R + P * c
  <2>1. M \in Nat /\ R \in Nat /\ R < P
    <3>1. Magnitude(lim) \in Nat /\ Magnitude(lim) < Power(Base, Len(lim)) /\ Magnitude(old) \in Nat
      BY <1>5, <1>6, WorthBelow
    <3> QED
      BY <1>1, <1>6, <1>10, <3>1, Zenon
  <2>2. M + V = R + P * c
    BY <1>6, <1>10, Zenon
  <2> QED
    BY <1>3, <2>1, <2>2
<1>13. N = W + V /\ N \in Int
  <2>1. top - w[k + n + 1] = c
    <3>1. (-1 + c) - (-1) = c
      BY <1>6
    <3> QED
      BY <1>2, <1>7, <3>1, Zenon
  <2>2. N = W + R - M + P * c
    BY <1>11, <2>1, Zenon
  <2>3. PICK b : b = P * c
    OBVIOUS
  <2>4. b \in Int /\ N = W + R - M + b /\ M + V = R + b
    BY <1>3, <1>6, <1>12, <2>2, <2>3
  <2> QED
    BY <1>3, <1>4, <1>12, <2>4
<1>14. top = 0
  <2>1. R + P * top >= -V /\ R + P * top < V /\ V \in Nat
    BY <1>2, <1>3, <1>4, <1>11, <1>13
  <2>2. top \in {0, -1} /\ (top = -1 => R + P * top < 0)
    BY <1>3, <1>8, <1>12, <1>13, <2>1, TopDecides
  <2>3. R + P * top >= 0
    BY <1>2, <1>3, <1>4, <1>11, <1>13
  <2> QED
    BY <2>2, <2>3, <1>13, <1>11
<1>15. e - 1 \in 0..(Base - 1) /\ e - 1 \in Nat /\ e \in Nat
  BY <1>2, BaseIs
<1>16. <<e - 1>> \o qq \in LimbSeq /\ G = Magnitude(<<e - 1>> \o qq) * V + N
  <2>1. /\ <<e - 1>> \o qq \in LimbSeq
        /\ Magnitude(<<e - 1>> \o qq) = (e - 1) + Base * Magnitude(qq)
    BY <1>2, <1>15, Prepended
  <2>2. PICK b : b = Base * A
    OBVIOUS
  <2>3. b \in Nat /\ ((e - 1) + b) * V = (e + b) * V - V /\ (e + b) * V \in Nat
    <3>1. b \in Nat
      BY <1>3, <2>2, BaseIs
    <3> QED
      BY <1>3, <1>15, <3>1
  <2>4. G = (e + b) * V + W
    BY <1>2, <2>2, Zenon
  <2>5. G = ((e - 1) + b) * V + N
    BY <1>3, <1>4, <1>13, <2>3, <2>4
  <2> QED
    BY <1>1, <2>1, <2>2, <2>5, Zenon
<1>17. PICK l : l = k - 1
  OBVIOUS
<1>18. /\ l \in Int /\ l >= -1 /\ l + 1 = k /\ l + 2 = k + 1 /\ l + n + 2 = k + n + 1
       /\ l + n + 1 <= Len(w)
  BY <1>2, <1>3, <1>17
<1>19. new \in LimbSeq
  <2>1. \A i \in 1..Len(new) : new[i] \in 0..(Base - 1)
    <3> TAKE i \in 1..Len(new)
    <3>1. i \in 1..Len(w)
      BY <1>11
    <3>2. CASE i = k + n + 1
      <4>1. i \in (k + n + 1)..Len(w)
        BY <1>3, <3>1, <3>2
      <4>2. new[i] = 0
        BY <1>11, <1>14, <3>2, <4>1
      <4> QED
        BY <4>2, BaseIs
    <3> QED
      BY <1>11, <3>1, <3>2
  <2> QED
    BY <1>11, <2>1, InLimbSeq
<1>20. /\ \A i \in 1..(l + 1) : new[i] = s[i]
       /\ \A i \in (l + n + 2)..Len(new) : new[i] = 0
  <2>1. \A i \in 1..k : new[i] = s[i]
    BY <1>2, <1>11
  <2>2. \A i \in (k + n + 1)..Len(w) : new[i] = 0
    BY <1>11, <1>14
  <2> QED
    BY <1>11, <1>18, <2>1, <2>2, Zenon
<1>21. N < V
  BY <1>2, <1>3, <1>4, <1>13
<1>22. /\ ValuesFrom(s)[l + 2] = Magnitude(<<e - 1>> \o qq) * Magnitude(vv) + ValuesFrom(new)[l + 2]
       /\ ValuesFrom(new)[l + 2] < Magnitude(vv)
       /\ l + n + 1 <= Len(new) /\ Len(new) <= Len(s)
  BY <1>1, <1>2, <1>10, <1>11, <1>16, <1>18, <1>21, Zenon
<1>23. LoopAt(s, new, vv, l, <<e - 1>> \o qq)
  BY <1>1, <1>2, <1>16, <1>18, <1>19, <1>20, <1>22, Zenon DEF LoopAt
<1> QED
  BY <1>1, <1>17, <1>23, Zenon

-------------------------------------------------------------------------------
(* Long division: before the loop *)

\* Powers multiply by adding exponents.
LEMMA PowerSum ==
    ASSUME NEW b \in Nat \ {0}, NEW k \in Nat, NEW l \in Nat
    PROVE  Power(b, k + l) = Power(b, k) * Power(b, l)
<1> DEFINE S == {i \in 0..l : Power(b, k + i) = Power(b, k) * Power(b, i)}
<1>1. 0 \in S
  <2>1. k + 0 = k /\ Power(b, k) \in Nat /\ 0 \in 0..l /\ Power(b, 0) = 1
    BY PowerIs
  <2> QED
    BY <2>1
<1>2. ASSUME NEW i \in 1..l, i - 1 \in S
      PROVE  i \in S
  <2>1. PICK o, p, r : o = Power(b, k) /\ p = Power(b, i - 1) /\ r = Power(b, k + (i - 1))
    OBVIOUS
  <2>2. k + (i - 1) \in Nat /\ (k + (i - 1)) + 1 = k + i /\ i - 1 \in Nat /\ (i - 1) + 1 = i
    OBVIOUS
  <2>3. Power(b, (k + (i - 1)) + 1) = b * Power(b, k + (i - 1)) /\ Power(b, (i - 1) + 1) = b * Power(b, i - 1)
    BY <2>2, PowerIs
  <2>4. o \in Nat /\ p \in Nat
    BY <2>1, <2>2, PowerIs
  <2>5. Power(b, k + i) = b * r /\ Power(b, i) = b * p
    BY <2>1, <2>2, <2>3, Zenon
  <2>6. r = o * p
    BY <1>2, <2>1
  <2>7. b * (o * p) = o * (b * p)
    BY <2>4
  <2>8. Power(b, k + i) = o * (b * p)
    BY <2>5, <2>6, <2>7, Zenon
  <2>9. Power(b, k + i) = Power(b, k) * Power(b, i)
    BY <2>1, <2>5, <2>8, Zenon
  <2> QED
    BY <2>9
<1>3. \A i \in 0..l : i \in S
  <2> HIDE DEF S
  <2> QED
    BY <1>1, <1>2, UpTo
<1>4. l \in S
  <2> HIDE DEF S
  <2> QED
    BY <1>3
<1> QED
  BY <1>4

\* D1 scales the divisor without a carry out of its top limb.
LEMMA ScaleIs ==
    ASSUME NEW m \in LimbSeq, Len(m) >= 2, m[Len(m)] # 0
    PROVE  /\ Scale(m) \in 1..(Base - 1)
           /\ MulLimb(m, Scale(m)) \in LimbSeq /\ Len(MulLimb(m, Scale(m))) = Len(m)
           /\ MulLimb(m, Scale(m))[Len(m)] # 0
           /\ Magnitude(MulLimb(m, Scale(m))) = Magnitude(m) * Scale(m)
           /\ Power(Base, Len(m) - 1) * Scale(m) <= Magnitude(MulLimb(m, Scale(m)))
<1>1. PICK n, t, f, P, M, w, V : /\ n = Len(m) /\ t = m[n] /\ f = Scale(m) /\ P = Power(Base, n - 1)
                                 /\ M = Magnitude(m) /\ w = MulLimb(m, f) /\ V = Magnitude(w)
  OBVIOUS
<1>2. n \in Nat /\ n >= 2 /\ t \in 1..(Base - 1) /\ t \in Nat
  <2>1. Len(m) \in Nat /\ \A i \in 1..Len(m) : m[i] \in 0..(Base - 1) /\ m[i] \in Nat
    BY LimbSeqIs
  <2>2. n \in Nat /\ n >= 2 /\ t # 0 /\ \A i \in 1..n : m[i] \in 0..(Base - 1) /\ m[i] \in Nat
    BY <1>1, <2>1, Zenon
  <2>3. n \in 1..n
    BY <2>2
  <2>4. t \in 0..(Base - 1) /\ t \in Nat
    BY <1>1, <2>2, <2>3, Zenon
  <2> QED
    BY <2>2, <2>4, BaseIs
<1>3. f = Base \div (t + 1)
  BY <1>1, Zenon DEF Scale
<1>4. f \in 1..(Base - 1) /\ f \in Nat /\ (t + 1) * f <= Base /\ (t + 1) * f \in Nat
  <2>1. t + 1 \in Nat \ {0} /\ Base \in Nat /\ Base \in Int
    BY <1>2, BaseIs
  <2>2. (t + 1) * 1 <= Base
    BY <1>2, BaseIs
  <2>3. Base < (t + 1) * Base
    <3>1. 2 * Base <= (t + 1) * Base /\ (t + 1) * Base \in Int
      BY <1>2, BaseIs, ProductOrder
    <3> QED
      BY <3>1, BaseIs
  <2>4. Base \div (t + 1) \in Nat /\ Base \div (t + 1) < Base /\ 1 <= Base \div (t + 1)
    BY <2>1, <2>2, <2>3, DivRange
  <2>5. PICK i \in Int, r \in 0..((t + 1) - 1) :
           i = Base \div (t + 1) /\ r = Base % (t + 1) /\ Base = (t + 1) * i + r
    BY <2>1, DivMod
  <2>6. i = f /\ f \in Nat /\ f < Base /\ 1 <= f
    BY <1>3, <2>4, <2>5, Zenon
  <2>7. Base = (t + 1) * f + r
    BY <2>5, <2>6, Zenon
  <2>8. (t + 1) * f \in Nat /\ r \in Nat
    BY <1>2, <2>6, <2>1
  <2>9. f \in 1..(Base - 1)
    BY <2>6, BaseIs
  <2> QED
    BY <2>6, <2>7, <2>8, <2>9, BaseIs
<1>5. /\ w \in LimbSeq /\ V = M * f /\ Len(w) \in {n, n + 1}
      /\ Len(w) # n => V >= Power(Base, n)
  <2>1. /\ MulLimb(m, f) \in LimbSeq /\ Magnitude(MulLimb(m, f)) = Magnitude(m) * f
        /\ Len(MulLimb(m, f)) \in {Len(m), Len(m) + 1}
        /\ Len(MulLimb(m, f)) # Len(m) => Magnitude(MulLimb(m, f)) >= Power(Base, Len(m))
    BY <1>4, MulLimbIs
  <2> QED
    BY <1>1, <2>1, Zenon
<1>6. P \in Nat \ {0} /\ Power(Base, n) = Base * P
  <2>1. n - 1 \in Nat /\ (n - 1) + 1 = n
    BY <1>2
  <2>2. Power(Base, n - 1) \in Nat \ {0} /\ Power(Base, (n - 1) + 1) = Base * Power(Base, n - 1)
    BY <2>1, BaseIs, PowerIs
  <2> QED
    BY <1>1, <2>1, <2>2, Zenon
<1>7. PICK low \in 0..(P - 1) : M = low + P * t
  <2>1. \E low \in 0..(Power(Base, Len(m) - 1) - 1) :
           Magnitude(m) = low + Power(Base, Len(m) - 1) * m[Len(m)]
    BY TopLimbs
  <2> QED
    BY <1>1, <2>1, Zenon
<1>8. M \in Nat /\ M < P * (t + 1) /\ P <= M /\ P * (t + 1) \in Nat
  <2>1. P * (t + 1) = P * t + P /\ P * t \in Nat
    BY <1>2, <1>6
  <2>2. P * 1 <= P * t
    BY <1>2, <1>6, ProductOrder
  <2> QED
    BY <1>2, <1>6, <1>7, <2>1, <2>2
<1>9. V < Power(Base, n) /\ V \in Nat
  <2>1. (M + 1) * f <= (P * (t + 1)) * f /\ (M + 1) * f = M * f + f /\ M * f \in Nat
    BY <1>4, <1>8, ProductOrder
  <2>2. (P * (t + 1)) * f = P * ((t + 1) * f)
    BY <1>2, <1>4, <1>6
  <2>3. P * ((t + 1) * f) <= P * Base
    BY <1>4, <1>6, BaseIs, ProductOrder
  <2>4. P * Base = Base * P /\ Base * P \in Nat /\ (P * (t + 1)) * f \in Nat
    BY <1>4, <1>6, <1>8, BaseIs
  <2> QED
    BY <1>4, <1>5, <1>6, <2>1, <2>2, <2>3, <2>4
<1>10. Len(w) = n
  <2>1. Power(Base, n) \in Nat
    BY <1>2, BaseIs, PowerIs
  <2> QED
    BY <1>5, <1>9, <2>1
<1>11. P * f <= V
  <2>1. P * f <= M * f
    BY <1>4, <1>6, <1>8, ProductOrder
  <2> QED
    BY <1>5, <2>1, Zenon
<1>12. w[n] # 0
  <2> SUFFICES ASSUME w[n] = 0
               PROVE  FALSE
    OBVIOUS
  <2>1. \E l \in 0..(Power(Base, Len(w) - 1) - 1) :
           Magnitude(w) = l + Power(Base, Len(w) - 1) * w[Len(w)]
    BY <1>2, <1>5, <1>10, TopLimbs
  <2>2. \E l \in 0..(P - 1) : V = l + P * w[n]
    <3>1. \E l \in 0..(Power(Base, n - 1) - 1) :
             Magnitude(w) = l + Power(Base, n - 1) * w[n]
      BY <1>10, <2>1, Zenon
    <3> QED
      BY <1>1, <3>1, Zenon
  <2>4. PICK l \in 0..(P - 1) : V = l + P * 0
    BY <2>2
  <2>3. P * 1 <= P * f /\ P * f \in Nat
    BY <1>4, <1>6, ProductOrder
  <2> QED
    BY <1>6, <1>11, <2>3, <2>4
<1> QED
  BY <1>1, <1>4, <1>5, <1>10, <1>11, <1>12, Zenon

Widened(a, w) == IF Len(w) = Len(a) THEN Append(w, 0) ELSE w

\* What is above the divisor's length of the scaled dividend is below the divisor.
LEMMA TopBelow ==
    ASSUME NEW w \in LimbSeq, NEW M \in Nat, NEW f \in Nat \ {0}, NEW V \in Nat,
           NEW k \in Nat, NEW l \in Nat, k <= Len(w),
           Magnitude(w) <= M * f, M < Power(Base, k + l), Power(Base, l) * f <= V
    PROVE  ValuesFrom(w)[k + 1] < V
<1>1. PICK T, O, P : T = ValuesFrom(w)[k + 1] /\ O = Power(Base, k) /\ P = Power(Base, l)
  OBVIOUS
<1>2. O \in Nat \ {0} /\ P \in Nat \ {0} /\ Power(Base, k + l) = O * P
  <2>1. Power(Base, k) \in Nat \ {0} /\ Power(Base, l) \in Nat \ {0}
    BY BaseIs, PowerIs
  <2>2. Power(Base, k + l) = Power(Base, k) * Power(Base, l)
    BY BaseIs, PowerSum
  <2> QED
    BY <1>1, <2>1, <2>2, Zenon
<1>3. w \in Seq(Int) /\ Len(w) \in Nat /\ \A i \in 1..Len(w) : w[i] \in 0..(Base - 1)
  BY LimbSeqIs
<1>4. T \in Nat
  <2>1. w \in Seq(Nat) /\ k + 1 \in 1..(Len(w) + 1)
    BY <1>3, LimbSeqIs
  <2> QED
    BY <1>1, <2>1, WorthNat
<1>5. \E low \in 0..(O - 1) : Magnitude(w) = low + O * T
  <2>1. 1 \in 1..(Len(w) + 1) /\ 1 + k <= Len(w) + 1 /\ 1 + k = k + 1
        /\ \A i \in 1..(1 + k - 1) : w[i] \in 0..(Base - 1)
    BY <1>3
  <2>2. \E low \in 0..(Power(Base, k) - 1) :
           ValuesFrom(w)[1] = low + Power(Base, k) * ValuesFrom(w)[1 + k]
    BY <1>3, <2>1, SplitAt
  <2> QED
    BY <1>1, <2>1, <2>2, Zenon DEF Magnitude
<1>6. PICK low \in 0..(O - 1) : Magnitude(w) = low + O * T
  BY <1>5
<1> SUFFICES ASSUME ~(T < V)
             PROVE  FALSE
  BY <1>1, Zenon
<1>7. V <= T
  BY <1>4
<1>8. O * T <= M * f
  BY <1>2, <1>4, <1>6
<1>9. (M + 1) * f <= (O * P) * f /\ (M + 1) * f = M * f + f /\ M * f \in Nat
  <2>1. M + 1 <= O * P /\ O * P \in Nat
    BY <1>2
  <2> QED
    BY <2>1, ProductOrder
<1>10. (O * P) * f = O * (P * f) /\ P * f \in Nat
  BY <1>2
<1>11. O * (P * f) <= O * T /\ O * (P * f) \in Nat
  <2>1. P * f <= T
    BY <1>1, <1>4, <1>7, <1>10
  <2> QED
    BY <1>2, <1>4, <1>10, <2>1, ProductOrder
<1> QED
  BY <1>2, <1>4, <1>8, <1>9, <1>10, <1>11

\* D1 sets the loop up.
LEMMA NormalizedIs ==
    ASSUME NEW a \in LimbSeq, NEW b \in LimbSeq, Len(b) >= 2, b[Len(b)] # 0, Len(b) <= Len(a)
    PROVE  LoopAt(Append(MulLimb(a, Scale(b)), 0), Widened(a, MulLimb(a, Scale(b))),
                  MulLimb(b, Scale(b)), Len(a) - Len(b), <<>>)
<1>1. PICK f, w, s, new, vv, n, m, k, V :
         /\ f = Scale(b) /\ w = MulLimb(a, f) /\ s = Append(w, 0) /\ new = Widened(a, w)
         /\ vv = MulLimb(b, f) /\ n = Len(b) /\ m = Len(a) /\ k = m - n /\ V = Magnitude(vv)
  OBVIOUS
<1>2. /\ f \in 1..(Base - 1) /\ vv \in LimbSeq /\ Len(vv) = n /\ vv[n] # 0
      /\ Power(Base, n - 1) * f <= V
  <2>1. /\ Scale(b) \in 1..(Base - 1)
        /\ MulLimb(b, Scale(b)) \in LimbSeq /\ Len(MulLimb(b, Scale(b))) = Len(b)
        /\ MulLimb(b, Scale(b))[Len(b)] # 0
        /\ Power(Base, Len(b) - 1) * Scale(b) <= Magnitude(MulLimb(b, Scale(b)))
    BY ScaleIs
  <2> QED
    BY <1>1, <2>1, Zenon
<1>3. /\ n \in Nat /\ m \in Nat /\ n >= 2 /\ n <= m /\ k \in Nat /\ k + n = m
  <2>1. Len(b) \in Nat /\ Len(a) \in Nat
    BY LimbSeqIs
  <2>2. n \in Nat /\ m \in Nat /\ n >= 2 /\ n <= m
    BY <1>1, <2>1, Zenon
  <2> QED
    BY <1>1, <2>2
<1>4. w \in LimbSeq /\ Magnitude(w) = Magnitude(a) * f /\ Len(w) \in {m, m + 1}
  <2>1. /\ MulLimb(a, f) \in LimbSeq /\ Magnitude(MulLimb(a, f)) = Magnitude(a) * f
        /\ Len(MulLimb(a, f)) \in {Len(a), Len(a) + 1}
    BY <1>2, MulLimbIs
  <2> QED
    BY <1>1, <2>1, Zenon
<1>5. /\ s \in LimbSeq /\ Len(s) = Len(w) + 1 /\ Magnitude(s) = Magnitude(a) * f
      /\ \A i \in 1..Len(w) : s[i] = w[i]
      /\ s[Len(w) + 1] = 0
  <2>1. 0 \in 0..(Base - 1)
    BY BaseIs
  <2>2. /\ Append(w, 0) \in LimbSeq /\ Len(Append(w, 0)) = Len(w) + 1
        /\ Magnitude(Append(w, 0)) = Magnitude(w) + Power(Base, Len(w)) * 0
    BY <1>4, <2>1, Appended
  <2>3. Power(Base, Len(w)) \in Nat /\ Magnitude(w) \in Nat
    <3>1. Len(w) \in Nat
      BY <1>3, <1>4
    <3> QED
      BY <1>4, <3>1, BaseIs, PowerIs, WorthBelow
  <2>4. Magnitude(Append(w, 0)) = Magnitude(w)
    BY <2>2, <2>3
  <2>5. w \in Seq(Int)
    BY <1>4, LimbSeqIs
  <2>6. (\A i \in 1..Len(w) : Append(w, 0)[i] = w[i]) /\ Append(w, 0)[Len(w) + 1] = 0
    BY <2>5
  <2> QED
    BY <1>1, <1>4, <2>2, <2>4, <2>6, Zenon
<1>6. /\ new \in LimbSeq /\ Len(new) = m + 1 /\ Len(new) <= Len(s)
      /\ \A i \in 1..(m + 1) : new[i] = s[i]
  <2>1. CASE Len(w) = m
    <3>1. new = s
      BY <1>1, <2>1, Zenon DEF Widened
    <3>2. Len(s) = m + 1 /\ m + 1 <= m + 1
      BY <1>3, <1>5, <2>1
    <3> QED
      BY <1>5, <3>1, <3>2
  <2>2. CASE Len(w) = m + 1
    <3>1. new = w
      <4>1. Len(w) # Len(a)
        BY <1>1, <1>3, <2>2
      <4> QED
        BY <1>1, <4>1, Zenon DEF Widened
    <3>2. Len(s) = m + 2
      BY <1>3, <1>5, <2>2
    <3> QED
      BY <1>3, <1>4, <1>5, <2>2, <3>1, <3>2
  <2> QED
    BY <1>4, <2>1, <2>2
<1>7. \A i \in 1..(m + 2) : ValuesFrom(s)[i] = ValuesFrom(new)[i]
  <2>1. /\ s \in Seq(Int) /\ new \in Seq(Int) /\ Len(new) <= Len(s)
        /\ \A i \in 1..Len(new) : s[i] = new[i]
    BY <1>5, <1>6, LimbSeqIs
  <2>2. \A i \in (Len(new) + 1)..Len(s) : s[i] = 0
    <3> TAKE i \in (Len(new) + 1)..Len(s)
    <3>1. i = Len(w) + 1
      BY <1>3, <1>4, <1>5, <1>6
    <3> QED
      BY <1>5, <3>1
  <2>3. \A i \in 1..(Len(new) + 1) : ValuesFrom(s)[i] = ValuesFrom(new)[i]
    BY <2>1, <2>2, PaddedSame
  <2>4. Len(new) + 1 = m + 2
    BY <1>3, <1>6
  <2> QED
    BY <2>3, <2>4, Zenon
<1>8. Magnitude(a) \in Nat /\ Magnitude(a) < Power(Base, m) /\ V \in Nat /\ Magnitude(new) \in Nat
  <2>1. Magnitude(a) \in Nat /\ Magnitude(a) < Power(Base, Len(a))
        /\ Magnitude(vv) \in Nat /\ Magnitude(new) \in Nat
    BY <1>2, <1>6, WorthBelow
  <2> QED
    BY <1>1, <2>1, Zenon
<1>9. ValuesFrom(new)[k + 2] < V
  <2>1. k + 1 \in Nat /\ n - 1 \in Nat /\ (k + 1) + (n - 1) = m /\ k + 1 <= Len(new) /\ (k + 1) + 1 = k + 2
    BY <1>3, <1>6
  <2>2. Magnitude(new) <= Magnitude(a) * f
    <3>1. Magnitude(new) = Magnitude(s)
      <4>1. 1 \in 1..(m + 2)
        BY <1>3
      <4> QED
        BY <1>7, <4>1, Zenon DEF Magnitude
    <3>2. Magnitude(a) * f \in Int
      BY <1>2, <1>8, BaseIs
    <3> QED
      BY <1>5, <3>1, <3>2
  <2>3. Magnitude(a) < Power(Base, (k + 1) + (n - 1))
    BY <1>8, <2>1, Zenon
  <2>4. f \in Nat \ {0}
    BY <1>2, BaseIs
  <2>5. ValuesFrom(new)[(k + 1) + 1] < V
    BY <1>2, <1>6, <1>8, <2>1, <2>2, <2>3, <2>4, TopBelow
  <2> QED
    BY <2>1, <2>5, Zenon
<1>10. ValuesFrom(s)[k + 2] = Magnitude(<<>>) * V + ValuesFrom(new)[k + 2]
  <2>1. k + 2 \in 1..(m + 2)
    BY <1>3
  <2>2. ValuesFrom(new)[k + 2] \in Nat
    <3>1. new \in Seq(Nat) /\ k + 2 \in 1..(Len(new) + 1)
      BY <1>3, <1>6, LimbSeqIs
    <3> QED
      BY <3>1, WorthNat
  <2>3. 0 * V + ValuesFrom(new)[k + 2] = ValuesFrom(new)[k + 2]
    BY <1>8, <2>2
  <2> QED
    BY <1>7, <2>1, <2>3, NoLimbs, Zenon
<1>11. /\ \A i \in 1..(k + 1) : new[i] = s[i]
       /\ \A i \in (k + n + 2)..Len(new) : new[i] = 0
       /\ k \in Int /\ k >= -1 /\ k + n + 1 <= Len(new)
  <2>1. \A i \in 1..(k + 1) : i \in 1..(m + 1)
    BY <1>3
  <2>2. \A i \in (k + n + 2)..Len(new) : FALSE
    BY <1>3, <1>6
  <2>3. k \in Int /\ k >= -1 /\ k + n + 1 <= Len(new)
    BY <1>3, <1>6
  <2> QED
    BY <1>6, <2>1, <2>2, <2>3, Zenon
<1>12. LoopAt(s, new, vv, k, <<>>)
  BY <1>1, <1>2, <1>3, <1>5, <1>6, <1>9, <1>10, <1>11, NoLimbs, Zenon DEF LoopAt
<1> QED
  BY <1>1, <1>12, Zenon

-------------------------------------------------------------------------------
(* Long division: after the loop *)

\* s and vv are worth f times the operands' M and D.
ScaledAs(s, vv, M, D, f) ==
    /\ f \in Nat \ {0} /\ M \in Nat /\ D \in Nat
    /\ Magnitude(s) = M * f /\ Magnitude(vv) = D * f

\* D8: what is left, scaled back, is the remainder.
LEMMA DenormalizedIs ==
    ASSUME NEW s, NEW w, NEW vv, NEW qq, LoopAt(s, w, vv, -1, qq),
           NEW M, NEW D, NEW f, ScaledAs(s, vv, M, D, f)
    PROVE  /\ ShortDiv(SubSeq(w, 1, Len(vv)), f).quot \in LimbSeq
           /\ Magnitude(ShortDiv(SubSeq(w, 1, Len(vv)), f).quot) < D
           /\ M = D * Magnitude(qq) + Magnitude(ShortDiv(SubSeq(w, 1, Len(vv)), f).quot)
<1>1. PICK n, V, W, A, old, dv, R : /\ n = Len(vv) /\ V = Magnitude(vv) /\ W = ValuesFrom(w)[1]
                                    /\ A = Magnitude(qq) /\ old = SubSeq(w, 1, n)
                                    /\ dv = ShortDiv(old, f) /\ R = Magnitude(dv.quot)
  OBVIOUS
<1>2. /\ s \in LimbSeq /\ w \in LimbSeq /\ vv \in LimbSeq /\ qq \in LimbSeq
      /\ (-1) + n + 1 <= Len(w)
      /\ \A i \in ((-1) + n + 2)..Len(w) : w[i] = 0
      /\ ValuesFrom(s)[(-1) + 2] = A * V + ValuesFrom(w)[(-1) + 2]
      /\ ValuesFrom(w)[(-1) + 2] < V
  BY <1>1, Zenon DEF LoopAt
<1>3. /\ n \in Nat /\ Len(w) \in Nat /\ w \in Seq(Int) /\ w \in Seq(Nat)
      /\ \A i \in 1..Len(w) : w[i] \in 0..(Base - 1)
  BY <1>1, <1>2, LimbSeqIs
<1>4. /\ (-1) + n + 1 = n /\ (-1) + n + 2 = n + 1 /\ (-1) + 2 = 1 /\ 0 + 1 = 1 /\ 0 + n = n
  BY <1>3
<1>5. /\ n <= Len(w) /\ (\A i \in (n + 1)..Len(w) : w[i] = 0)
      /\ ValuesFrom(s)[1] = A * V + W /\ W < V
  BY <1>1, <1>2, <1>4, Zenon
<1>6. old \in LimbSeq /\ Len(old) = n /\ old \in Seq(Int) /\ \A i \in 1..n : w[i] = old[i]
  <2>1. 0 \in Nat /\ 0 + n <= Len(w) /\ \A i \in (0 + 1)..(0 + n) : w[i] \in 0..(Base - 1)
    BY <1>3, <1>5
  <2>2. /\ SubSeq(w, 0 + 1, 0 + n) \in LimbSeq /\ Len(SubSeq(w, 0 + 1, 0 + n)) = n
        /\ SubSeq(w, 0 + 1, 0 + n) \in Seq(Int)
        /\ \A i \in 1..n : w[0 + i] = SubSeq(w, 0 + 1, 0 + n)[i]
    BY <1>3, <2>1, WindowLimbs
  <2>3. \A i \in 1..n : 0 + i = i
    OBVIOUS
  <2>4. old = SubSeq(w, 0 + 1, 0 + n)
    BY <1>1, <1>4, Zenon
  <2> QED
    BY <2>2, <2>3, <2>4, Zenon
<1>7. Magnitude(old) = W
  <2>1. Len(old) <= Len(w) /\ \A i \in 1..Len(old) : w[i] = old[i]
    BY <1>5, <1>6, Zenon
  <2>2. \A i \in (Len(old) + 1)..Len(w) : w[i] = 0
    BY <1>5, <1>6, Zenon
  <2>3. \A i \in 1..(Len(old) + 1) : ValuesFrom(w)[i] = ValuesFrom(old)[i]
    BY <1>3, <1>6, <2>1, <2>2, PaddedSame
  <2>4. 1 \in 1..(Len(old) + 1)
    BY <1>3, <1>6
  <2> QED
    BY <1>1, <2>3, <2>4, Zenon DEF Magnitude
<1>8. f \in Nat \ {0} /\ M \in Nat /\ D \in Nat /\ Magnitude(s) = M * f /\ V = D * f
  BY <1>1, Zenon DEF ScaledAs
<1>9. dv.quot \in LimbSeq /\ dv.rem \in 0..(f - 1) /\ W = f * R + dv.rem
  <2>1. /\ ShortDiv(old, f).quot \in LimbSeq
        /\ ShortDiv(old, f).rem \in 0..(f - 1)
        /\ Magnitude(old) = f * Magnitude(ShortDiv(old, f).quot) + ShortDiv(old, f).rem
    BY <1>6, <1>8, ShortDivIs
  <2> QED
    BY <1>1, <1>7, <2>1, Zenon
<1>10. A \in Nat /\ R \in Nat
  BY <1>1, <1>2, <1>9, WorthBelow
<1>11. M * f = A * (D * f) + W
  BY <1>5, <1>8, Zenon DEF Magnitude
<1>12. W = f * (M - D * A)
  <2>1. A * (D * f) = f * (D * A) /\ M * f = f * M
    BY <1>8, <1>10
  <2>2. f * (M - D * A) = f * M - f * (D * A)
    BY <1>8, <1>10
  <2>3. f * M \in Int /\ f * (D * A) \in Int /\ W \in Int
    BY <1>8, <1>9, <1>10
  <2> QED
    BY <1>11, <2>1, <2>2, <2>3
<1>13. R = M - D * A
  <2>1. M - D * A \in Int /\ R \in Int /\ 0 \in 0..(f - 1)
    BY <1>8, <1>10
  <2>2. f * R + dv.rem = f * (M - D * A) + 0
    <3>1. f * (M - D * A) \in Int
      BY <1>8, <2>1
    <3> QED
      BY <1>9, <1>12, <3>1
  <2> QED
    BY <1>8, <1>9, <2>1, <2>2, DivUnique
<1>14. R < D
  <2> SUFFICES ASSUME ~(R < D)
               PROVE  FALSE
    OBVIOUS
  <2>1. D <= R
    BY <1>8, <1>10
  <2>2. D * f <= R * f /\ R * f = f * R /\ D * f \in Nat /\ f * R \in Nat
    BY <1>8, <1>10, <2>1, ProductOrder
  <2> QED
    BY <1>5, <1>8, <1>9, <2>2
<1>15. M = D * A + R
  <2>1. D * A \in Int
    BY <1>8, <1>10
  <2> QED
    BY <1>8, <1>10, <1>13, <2>1
<1> QED
  BY <1>1, <1>9, <1>14, <1>15, Zenon

-------------------------------------------------------------------------------
(* Decimal strings *)

\* The radix and the groups shown at a time.
LEMMA RadixIs ==
    /\ Radix \in Nat \ {0} /\ Radix >= 2 /\ Radix < Base
    /\ GroupDigits \in Nat \ {0}
    /\ GroupRadix \in Nat \ {0} /\ GroupRadix >= 2 /\ GroupRadix < Base
<1>1. /\ Radix \in Nat \ {0} /\ Radix >= 2 /\ Radix < Base
      /\ GroupDigits \in Nat \ {0} /\ GroupRadix < Base
  BY BigIntegersAssumption DEF BigIntegersAssumption
<1>2. Power(Radix, 0 + 1) = Radix * Power(Radix, 0) /\ Power(Radix, 0) = 1 /\ 0 + 1 = 1
  BY <1>1, PowerIs
<1>3. Power(Radix, 1) = Radix
  BY <1>1, <1>2
<1>4. Power(Radix, 1) <= Power(Radix, GroupDigits) /\ Power(Radix, GroupDigits) \in Nat \ {0}
  <2>1. 1 \in Nat /\ GroupDigits \in Nat /\ 1 <= GroupDigits /\ Radix \in Nat \ {0}
    BY <1>1
  <2>2. Power(Radix, 1) <= Power(Radix, GroupDigits)
    BY <2>1, PowerGrows
  <2>3. Power(Radix, GroupDigits) \in Nat \ {0}
    BY <2>1, PowerIs
  <2> QED
    BY <2>2, <2>3
<1> QED
  BY <1>1, <1>3, <1>4 DEF GroupRadix

\* A set of positive numbers has a least one.
LEMMA LeastIs ==
    ASSUME NEW N \in Nat, NEW S, \E k \in 1..N : k \in S
    PROVE  \E k \in 1..N : k \in S /\ \A i \in 1..(k - 1) : i \notin S
<1> SUFFICES ASSUME \A k \in 1..N : k \in S => \E i \in 1..(k - 1) : i \in S
             PROVE  FALSE
  OBVIOUS
<1> DEFINE T == {k \in 0..N : k \in 1..N => k \notin S}
<1>1. \A k \in 0..N : (\A i \in 0..(k - 1) : i \in T) => k \in T
  <2> TAKE k \in 0..N
  <2> HAVE \A i \in 0..(k - 1) : i \in T
  <2>1. \A i \in 1..(k - 1) : i \notin S
    OBVIOUS
  <2> QED
    BY <2>1
<1>2. \A k \in 0..N : k \in T
  <2> HIDE DEF T
  <2> QED
    BY <1>1, FromBelow
<1> QED
  BY <1>2

\* Limbs after limbs.
LEMMA ConcatIs ==
    ASSUME NEW a \in LimbSeq, NEW b \in LimbSeq
    PROVE  /\ a \o b \in LimbSeq
           /\ Magnitude(a \o b) = Magnitude(a) + Power(Base, Len(a)) * Magnitude(b)
<1>1. PICK c : c = a \o b
  OBVIOUS
<1>2. /\ a \in Seq(Int) /\ b \in Seq(Int) /\ Len(a) \in Nat /\ Len(b) \in Nat
  BY LimbSeqIs
<1>3. c \in LimbSeq /\ c \in Seq(Int)
  <2>1. c \in LimbSeq
    BY <1>1 DEF LimbSeq
  <2> QED
    BY <2>1, LimbSeqIs
<1>4. /\ Len(c) = Len(b) + Len(a) /\ \A i \in 1..Len(a) : c[0 + i] = a[i]
      /\ \A i \in 1..Len(b) : c[Len(a) + i] = b[i]
  BY <1>1, <1>2
<1>5. ValuesFrom(c)[Len(a) + 1] = Magnitude(b)
  <2>1. \A i \in 1..(Len(b) + 1) : ValuesFrom(c)[Len(a) + i] = ValuesFrom(b)[i]
    BY <1>2, <1>3, <1>4, SuffixSame
  <2>2. 1 \in 1..(Len(b) + 1)
    BY <1>2
  <2> QED
    BY <2>1, <2>2, Zenon DEF Magnitude
<1>6. 0 \in Nat /\ 0 + Len(a) <= Len(c) /\ 0 + 1 = 1 /\ 0 + Len(a) + 1 = Len(a) + 1
  BY <1>2, <1>4
<1>7. ValuesFrom(c)[0 + 1] =
         Magnitude(a) + Power(Base, Len(a)) * ValuesFrom(c)[0 + Len(a) + 1]
  BY <1>2, <1>3, <1>4, <1>6, Windowed
<1> QED
  BY <1>1, <1>3, <1>5, <1>6, <1>7, Zenon DEF Magnitude

Digits == 0..(Radix - 1)

\* One digit read.
LEMMA TimesRadixPlusIs ==
    ASSUME NEW m \in LimbSeq, NEW digit \in Digits
    PROVE  /\ TimesRadixPlus(m, digit) \in LimbSeq
           /\ Magnitude(TimesRadixPlus(m, digit)) = Magnitude(m) * Radix + digit
<1>1. PICK pr, top : pr = Product(m, Radix, digit) /\ top = LimbsOf(pr.carry)
  OBVIOUS
<1>2. Radix \in Nat /\ digit \in Nat
  BY RadixIs DEF Digits
<1>3. /\ pr.limbs \in LimbSeq /\ Len(pr.limbs) = Len(m) /\ pr.carry \in Nat
      /\ Magnitude(m) * Radix + digit = Magnitude(pr.limbs) + Power(Base, Len(m)) * pr.carry
  <2>1. /\ Product(m, Radix, digit).limbs \in LimbSeq
        /\ Len(Product(m, Radix, digit).limbs) = Len(m)
        /\ Product(m, Radix, digit).carry \in Nat
        /\ Magnitude(m) * Radix + digit =
              Magnitude(Product(m, Radix, digit).limbs)
                 + Power(Base, Len(m)) * Product(m, Radix, digit).carry
    BY <1>2, ProductIs
  <2> QED
    BY <1>1, <2>1, Zenon
<1>4. top \in LimbSeq /\ Magnitude(top) = pr.carry
  <2>1. LimbsOf(pr.carry) \in LimbSeq /\ Magnitude(LimbsOf(pr.carry)) = pr.carry
    BY <1>3, LimbsOfIs
  <2> QED
    BY <1>1, <2>1, Zenon
<1>5. /\ pr.limbs \o top \in LimbSeq
      /\ Magnitude(pr.limbs \o top) = Magnitude(pr.limbs) + Power(Base, Len(pr.limbs)) * Magnitude(top)
  BY <1>3, <1>4, ConcatIs
<1>6. TimesRadixPlus(m, digit) = pr.limbs \o top
  BY <1>1, Zenon DEF TimesRadixPlus
<1> QED
  BY <1>3, <1>4, <1>5, <1>6, Zenon

\* left[i] is what the first i of the n digits ds are worth; all of them, g.
Digitwise(left, ds, n, g) ==
    /\ n \in Nat /\ ds \in Seq(Digits) /\ Len(ds) = n
    /\ left \in [0..n -> Nat] /\ left[0] = 0 /\ left[n] = g
    /\ \A i \in 1..n : left[i] = left[i - 1] * Radix + ds[i]

\* Digits have one worth.
LEMMA OneWorth ==
    ASSUME NEW l, NEW k, NEW ds, NEW n, NEW g, NEW h, Digitwise(l, ds, n, g), Digitwise(k, ds, n, h)
    PROVE  g = h
<1>1. /\ n \in Nat /\ l[0] = 0 /\ l[n] = g /\ k[0] = 0 /\ k[n] = h
      /\ (\A i \in 1..n : l[i] = l[i - 1] * Radix + ds[i])
      /\ \A i \in 1..n : k[i] = k[i - 1] * Radix + ds[i]
  BY DEF Digitwise
<1> DEFINE S == {i \in 0..n : l[i] = k[i]}
<1>2. 0 \in S
  BY <1>1
<1>3. ASSUME NEW i \in 1..n, i - 1 \in S
      PROVE  i \in S
  <2>1. l[i] = k[i]
    BY <1>1, <1>3, Zenon
  <2>2. i \in 0..n
    BY <1>1
  <2> QED
    BY <2>1, <2>2
<1> HIDE DEF S
<1>4. \A i \in 0..n : i \in S
  BY <1>1, <1>2, <1>3, UpTo
<1>5. n \in S
  <2>1. n \in 0..n
    BY <1>1
  <2> QED
    BY <1>4, <2>1
<1> QED
  BY <1>1, <1>5 DEF S

\* Reading digits back gives their worth.
LEMMA ReadBackIs ==
    ASSUME NEW ds \in Seq(Digits)
    PROVE  /\ ReadBack(ds) \in LimbSeq
           /\ \E left : Digitwise(left, ds, Len(ds), Magnitude(ReadBack(ds)))
<1>1. PICK N : N = Len(ds)
  OBVIOUS
<1>2. N \in Nat /\ \A i \in 1..N : ds[i] \in Digits
  BY <1>1
<1> DEFINE next(i, r) == TimesRadixPlus(r, ds[i])
           Body(f) == [i \in 0..N |-> IF i = 0 THEN <<>> ELSE next(i, f[i - 1])]
<1>3. ASSUME NEW i \in 1..N, NEW r \in LimbSeq
      PROVE  next(i, r) \in LimbSeq /\ Magnitude(next(i, r)) = Magnitude(r) * Radix + ds[i]
  <2>1. ds[i] \in Digits
    BY <1>2
  <2> QED
    BY <2>1, TimesRadixPlusIs
<1>4. PICK step : step = [p \in (1..N) \X LimbSeq |-> next(p[1], p[2])]
  OBVIOUS
<1> HIDE DEF next
<1>5. \A i \in 1..N, r \in LimbSeq : step[<<i, r>>] = next(i, r)
  BY <1>4
<1>6. step \in [(1..N) \X LimbSeq -> LimbSeq]
  <2>1. \A p \in (1..N) \X LimbSeq : step[p] \in LimbSeq
    <3> TAKE p \in (1..N) \X LimbSeq
    <3>1. PICK i \in 1..N, r \in LimbSeq : p = <<i, r>>
      OBVIOUS
    <3>2. step[<<i, r>>] \in LimbSeq
      BY <1>3, <1>5
    <3> QED
      BY <3>1, <3>2
  <2> QED
    BY <1>4, <2>1
<1>7. <<>> \in LimbSeq
  BY NoLimbs
<1>8. PICK F : GoesUp(F, N, LimbSeq, <<>>, step)
  BY <1>2, <1>6, <1>7, DefinedUp
<1>9. F \in [0..N -> LimbSeq] /\ F[0] = <<>> /\ \A i \in 1..N : F[i] = step[<<i, F[i - 1]>>]
  BY <1>8 DEF GoesUp
<1>10. F = Body(F)
  <2>1. \A i \in 1..N : F[i] = next(i, F[i - 1])
    <3> TAKE i \in 1..N
    <3>1. i - 1 \in 0..N
      BY <1>2
    <3>2. F[i - 1] \in LimbSeq
      BY <1>9, <3>1
    <3> QED
      BY <1>5, <1>9, <3>2
  <2>2. \A i \in 0..N : F[i] = IF i = 0 THEN <<>> ELSE next(i, F[i - 1])
    <3> TAKE i \in 0..N
    <3>1. i = 0 \/ i \in 1..N
      BY <1>2
    <3> QED
      BY <1>9, <2>1, <3>1
  <2>3. F = [i \in 0..N |-> F[i]]
    BY <1>9
  <2> QED
    BY <2>2, <2>3
<1>11. PICK G : G = ReadSoFar(ds)
  OBVIOUS
<1>12. G = Body(G)
  <2>1. G = CHOOSE f : f = Body(f)
    BY <1>1, <1>11 DEF ReadSoFar, next
  <2> HIDE DEF Body
  <2> QED
    BY <1>10, <2>1
<1>13. \A i \in 0..N : G[i] = IF i = 0 THEN <<>> ELSE next(i, G[i - 1])
  BY <1>12, Zenon
<1>14. G[0] = <<>> /\ \A i \in 1..N : G[i] = next(i, G[i - 1])
  <2>1. 0 \in 0..N /\ \A i \in 1..N : i \in 0..N /\ i # 0
    BY <1>2
  <2> QED
    BY <1>13, <2>1, Zenon
<1>15. \A i \in 0..N : G[i] \in LimbSeq
  <2> DEFINE S == {i \in 0..N : G[i] \in LimbSeq}
  <2>1. 0 \in S
    BY <1>2, <1>7, <1>14
  <2>2. ASSUME NEW i \in 1..N, i - 1 \in S
        PROVE  i \in S
    <3>1. G[i - 1] \in LimbSeq /\ i \in 0..N
      BY <1>2, <2>2
    <3>2. next(i, G[i - 1]) \in LimbSeq
      BY <1>3, <3>1
    <3> QED
      BY <1>14, <3>1, <3>2
  <2> HIDE DEF S
  <2>3. \A i \in 0..N : i \in S
    BY <1>2, <2>1, <2>2, UpTo
  <2> QED
    BY <2>3 DEF S
<1>16. PICK left : left = [i \in 0..N |-> Magnitude(G[i])]
  OBVIOUS
<1>17. \A i \in 0..N : left[i] = Magnitude(G[i]) /\ Magnitude(G[i]) \in Nat
  BY <1>15, <1>16, WorthBelow
<1>18. left \in [0..N -> Nat]
  BY <1>16, <1>17
<1>19. left[0] = 0
  <2>1. 0 \in 0..N
    BY <1>2
  <2> QED
    BY <1>14, <1>17, <2>1, NoLimbs, Zenon
<1>20. \A i \in 1..N : left[i] = left[i - 1] * Radix + ds[i]
  <2> TAKE i \in 1..N
  <2>1. i \in 0..N /\ i - 1 \in 0..N
    BY <1>2
  <2>2. Magnitude(next(i, G[i - 1])) = Magnitude(G[i - 1]) * Radix + ds[i]
    BY <1>3, <1>15, <2>1
  <2> QED
    BY <1>14, <1>17, <2>1, <2>2, Zenon
<1>21. N \in 0..N
  BY <1>2
<1>22. ReadBack(ds) = G[N]
  BY <1>1, <1>11, Zenon DEF ReadBack
<1>23. Digitwise(left, ds, N, Magnitude(G[N]))
  BY <1>1, <1>2, <1>17, <1>18, <1>19, <1>20, <1>21, Zenon DEF Digitwise
<1> QED
  BY <1>1, <1>15, <1>21, <1>22, <1>23, Zenon

\* A group's digits, from the last to the first.
LEMMA DigitsLeftIs ==
    ASSUME NEW g \in Nat
    PROVE  /\ DigitsLeft(g) \in [0..GroupDigits -> Nat]
           /\ \A i \in {GroupDigits} : DigitsLeft(g)[i] = g
           /\ \A i \in 1..GroupDigits : DigitsLeft(g)[i - 1] = DigitsLeft(g)[i] \div Radix
<1>1. PICK N : N = GroupDigits
  OBVIOUS
<1>2. N \in Nat /\ N >= 1
  BY <1>1, RadixIs
<1> DEFINE Body(f) == [i \in 0..N |-> IF i = N THEN g ELSE f[i + 1] \div Radix]
<1>3. \A r \in Nat : r \div Radix \in Nat
  BY RadixIs, DivRange
<1>4. PICK step : step = [p \in (1..N) \X Nat |-> p[2] \div Radix]
  OBVIOUS
<1>5. \A i \in 1..N, r \in Nat : step[<<i, r>>] = r \div Radix
  BY <1>4
<1>6. step \in [(1..N) \X Nat -> Nat]
  <2>1. \A p \in (1..N) \X Nat : step[p] \in Nat
    <3> TAKE p \in (1..N) \X Nat
    <3>1. PICK i \in 1..N, r \in Nat : p = <<i, r>>
      OBVIOUS
    <3>2. step[<<i, r>>] \in Nat
      BY <1>3, <1>5
    <3> QED
      BY <3>1, <3>2
  <2> QED
    BY <1>4, <2>1
<1>7. PICK K : GoesDown(K, N, Nat, g, step)
  BY <1>2, <1>6, DefinedDown
<1>8. K \in [1..(N + 1) -> Nat] /\ K[N + 1] = g /\ \A i \in 1..N : K[i] = step[<<i, K[i + 1]>>]
  BY <1>7 DEF GoesDown
<1>9. PICK F : F = [i \in 0..N |-> K[i + 1]]
  OBVIOUS
<1>10. F = Body(F)
  <2>1. \A i \in 0..N : F[i] = IF i = N THEN g ELSE F[i + 1] \div Radix
    <3> TAKE i \in 0..N
    <3>1. i + 1 \in 1..(N + 1) /\ K[i + 1] \in Nat /\ F[i] = K[i + 1]
      BY <1>2, <1>8, <1>9
    <3>2. CASE i = N
      BY <1>8, <3>1, <3>2
    <3>3. CASE i # N
      <4>1. i + 1 \in 1..N /\ i + 1 \in 0..N /\ (i + 1) + 1 \in 1..(N + 1)
        BY <1>2, <3>3
      <4>2. PICK r : r = K[(i + 1) + 1]
        OBVIOUS
      <4>3. r \in Nat /\ F[i + 1] = r
        BY <1>8, <1>9, <4>1, <4>2
      <4>4. K[i + 1] = step[<<i + 1, r>>]
        BY <1>8, <4>1, <4>2, Zenon
      <4>5. K[i + 1] = r \div Radix
        BY <1>5, <4>1, <4>3, <4>4
      <4> QED
        BY <3>1, <3>3, <4>3, <4>5
    <3> QED
      BY <3>2, <3>3
  <2>2. F = [i \in 0..N |-> F[i]]
    BY <1>9
  <2> QED
    BY <2>1, <2>2
<1>11. PICK G : G = DigitsLeft(g)
  OBVIOUS
<1>12. G = Body(G)
  <2>1. G = CHOOSE f : f = Body(f)
    BY <1>1, <1>11 DEF DigitsLeft
  <2> HIDE DEF Body
  <2> QED
    BY <1>10, <2>1
<1>13. \A i \in 0..N : G[i] = IF i = N THEN g ELSE G[i + 1] \div Radix
  BY <1>12, Zenon
<1>14. G[N] = g /\ \A i \in 1..N : G[i - 1] = G[i] \div Radix
  <2>1. N \in 0..N /\ \A i \in 1..N : i - 1 \in 0..N /\ i - 1 # N /\ (i - 1) + 1 = i
    BY <1>2
  <2> QED
    BY <1>13, <2>1, Zenon
<1>15. \A i \in 1..(N + 1) : G[i - 1] \in Nat
  <2> DEFINE S == {i \in 1..(N + 1) : G[i - 1] \in Nat}
  <2>1. N + 1 \in S
    <3>1. N + 1 \in 1..(N + 1) /\ (N + 1) - 1 = N
      BY <1>2
    <3> QED
      BY <1>14, <3>1
  <2>2. ASSUME NEW i \in 1..N, i + 1 \in S
        PROVE  i \in S
    <3>1. (i + 1) - 1 = i /\ i \in 1..(N + 1)
      BY <1>2
    <3>2. G[i] \in Nat
      BY <2>2, <3>1
    <3>3. G[i - 1] \in Nat
      BY <1>3, <1>14, <3>2
    <3> QED
      BY <3>1, <3>3
  <2> HIDE DEF S
  <2>3. \A i \in 1..(N + 1) : i \in S
    BY <1>2, <2>1, <2>2, DownFrom
  <2> QED
    BY <2>3 DEF S
<1>16. G \in [0..N -> Nat]
  <2>1. \A i \in 0..N : G[i] \in Nat
    <3> TAKE i \in 0..N
    <3>1. i + 1 \in 1..(N + 1) /\ (i + 1) - 1 = i
      BY <1>2
    <3>2. G[(i + 1) - 1] \in Nat
      BY <1>15, <3>1
    <3> QED
      BY <3>1, <3>2
  <2>2. G = [i \in 0..N |-> G[i]]
    BY <1>12
  <2> QED
    BY <2>1, <2>2
<1> QED
  BY <1>1, <1>11, <1>14, <1>16, Zenon

\* A group is its digits.
LEMMA PaddedIs ==
    ASSUME NEW g \in 0..(GroupRadix - 1)
    PROVE  Digitwise(DigitsLeft(g), Padded(g), GroupDigits, g)
<1>1. PICK N, left, p : N = GroupDigits /\ left = DigitsLeft(g) /\ p = Padded(g)
  OBVIOUS
<1>2. N \in Nat /\ N >= 1 /\ g \in Nat /\ g < Power(Radix, N)
  <2>1. g \in Nat /\ g < GroupRadix
    BY RadixIs
  <2> QED
    BY <1>1, <2>1, RadixIs DEF GroupRadix
<1>3. left \in [0..N -> Nat] /\ left[N] = g /\ \A i \in 1..N : left[i - 1] = left[i] \div Radix
  <2>1. /\ DigitsLeft(g) \in [0..GroupDigits -> Nat]
        /\ \A i \in {GroupDigits} : DigitsLeft(g)[i] = g
        /\ \A i \in 1..GroupDigits : DigitsLeft(g)[i - 1] = DigitsLeft(g)[i] \div Radix
    BY <1>2, DigitsLeftIs
  <2>2. DigitsLeft(g)[GroupDigits] = g
    BY <2>1, Zenon
  <2> QED
    BY <1>1, <2>1, <2>2, Zenon
<1>4. p = [i \in 1..N |-> left[i] % Radix]
  BY <1>1, Zenon DEF Padded
<1>5. \A i \in 1..N : p[i] \in Digits /\ left[i] = left[i - 1] * Radix + p[i]
  <2> TAKE i \in 1..N
  <2>1. PICK a, b : a = left[i] /\ b = left[i - 1]
    OBVIOUS
  <2>2. a \in Nat /\ a \in Int /\ b \in Nat
    BY <1>2, <1>3, <2>1
  <2>3. PICK k \in Int, r \in 0..(Radix - 1) : k = a \div Radix /\ r = a % Radix /\ a = Radix * k + r
    BY <2>2, RadixIs, DivMod
  <2>4. b = k /\ p[i] = r
    BY <1>3, <1>4, <2>1, <2>3, Zenon
  <2>5. Radix * k = k * Radix
    BY RadixIs
  <2>6. a = b * Radix + r
    BY <2>3, <2>4, <2>5, Zenon
  <2> QED
    BY <2>1, <2>4, <2>6, Zenon DEF Digits
<1>6. p \in Seq(Digits) /\ Len(p) = N
  <2>1. p \in [1..N -> Digits]
    BY <1>4, <1>5
  <2> QED
    BY <1>2, <2>1
<1>7. \A i \in 1..(N + 1) : left[i - 1] < Power(Radix, i - 1)
  <2> DEFINE S == {i \in 1..(N + 1) : left[i - 1] < Power(Radix, i - 1)}
  <2>1. N + 1 \in S
    <3>1. N + 1 \in 1..(N + 1) /\ (N + 1) - 1 = N
      BY <1>2
    <3> QED
      BY <1>2, <1>3, <3>1
  <2>2. ASSUME NEW i \in 1..N, i + 1 \in S
        PROVE  i \in S
    <3>1. (i + 1) - 1 = i /\ i \in 1..(N + 1) /\ i - 1 \in Nat /\ (i - 1) + 1 = i
          /\ i \in 0..N
      BY <1>2
    <3>2. PICK a, o : a = left[i] /\ o = Power(Radix, i - 1)
      OBVIOUS
    <3>3. a \in Nat
      BY <1>3, <3>1, <3>2
    <3>4. o \in Nat /\ Power(Radix, i) = Radix * o
      <4>1. Power(Radix, i - 1) \in Nat \ {0}
            /\ Power(Radix, (i - 1) + 1) = Radix * Power(Radix, i - 1)
        BY <3>1, RadixIs, PowerIs
      <4> QED
        BY <3>1, <3>2, <4>1, Zenon
    <3>5. a < Radix * o
      BY <2>2, <3>1, <3>2, <3>4
    <3>6. a \div Radix < o
      BY <3>3, <3>4, <3>5, RadixIs, DivRange
    <3>7. left[i - 1] < Power(Radix, i - 1)
      BY <1>3, <3>2, <3>6, Zenon
    <3> QED
      BY <3>1, <3>7
  <2> HIDE DEF S
  <2>3. \A i \in 1..(N + 1) : i \in S
    BY <1>2, <2>1, <2>2, DownFrom
  <2> QED
    BY <2>3 DEF S
<1>8. left[0] = 0
  <2>1. 1 \in 1..(N + 1) /\ 1 - 1 = 0 /\ 0 \in 0..N
    BY <1>2
  <2>2. left[1 - 1] < Power(Radix, 1 - 1)
    BY <1>7, <2>1
  <2>3. Power(Radix, 0) = 1
    BY RadixIs, PowerIs
  <2>4. left[0] < 1 /\ left[0] \in Nat
    BY <1>3, <2>1, <2>2, <2>3
  <2> QED
    BY <2>4
<1>9. \A i \in 1..N : left[i] = left[i - 1] * Radix + p[i]
  BY <1>5
<1>10. Digitwise(left, p, N, g)
  BY <1>2, <1>3, <1>6, <1>8, <1>9, Zenon DEF Digitwise
<1> QED
  BY <1>1, <1>10, Zenon

\* Digits that read as g, the first of them not a zero.
Reads(ds, g) ==
    /\ ds \in Seq(Digits) /\ ds # <<>> /\ ds[1] # 0
    /\ \E left : Digitwise(left, ds, Len(ds), g)

\* The leading group is shown without its zeros.
LEMMA LeadingIs ==
    ASSUME NEW g \in 1..(GroupRadix - 1)
    PROVE  Reads(Leading(g), g)
<1>1. PICK N, left, p : N = GroupDigits /\ left = DigitsLeft(g) /\ p = Padded(g)
  OBVIOUS
<1>2. N \in Nat /\ N >= 1 /\ g # 0
  BY <1>1, RadixIs
<1>3. Digitwise(left, p, N, g)
  <2>1. g \in 0..(GroupRadix - 1)
    OBVIOUS
  <2>2. Digitwise(DigitsLeft(g), Padded(g), GroupDigits, g)
    BY <2>1, PaddedIs
  <2> QED
    BY <1>1, <2>2, Zenon
<1>4. /\ p \in Seq(Digits) /\ Len(p) = N
      /\ left \in [0..N -> Nat] /\ left[0] = 0 /\ left[N] = g
      /\ \A i \in 1..N : left[i] = left[i - 1] * Radix + p[i]
  BY <1>3 DEF Digitwise
<1>5. \E i \in 1..N : p[i] # 0
  <2> SUFFICES ASSUME \A i \in 1..N : p[i] = 0
               PROVE  FALSE
    OBVIOUS
  <2> DEFINE S == {i \in 0..N : left[i] = 0}
  <2>1. 0 \in S
    BY <1>2, <1>4
  <2>2. ASSUME NEW i \in 1..N, i - 1 \in S
        PROVE  i \in S
    <3>1. i \in 0..N /\ left[i - 1] = 0 /\ p[i] = 0
      BY <1>2, <2>2
    <3>2. left[i] = 0 * Radix + 0
      BY <1>4, <3>1, Zenon
    <3>3. 0 * Radix + 0 = 0
      BY RadixIs
    <3> QED
      BY <3>1, <3>2, <3>3
  <2> HIDE DEF S
  <2>3. \A i \in 0..N : i \in S
    BY <1>2, <2>1, <2>2, UpTo
  <2>4. N \in S
    BY <1>2, <2>3
  <2> QED
    BY <1>2, <1>4, <2>4 DEF S
<1>6. \E i \in 1..N : p[i] # 0 /\ \A l \in 1..(i - 1) : p[l] = 0
  <2>1. PICK S : S = {i \in 1..N : p[i] # 0}
    OBVIOUS
  <2>2. \E i \in 1..N : i \in S
    BY <1>5, <2>1
  <2>3. PICK i \in 1..N : i \in S /\ \A l \in 1..(i - 1) : l \notin S
    BY <1>2, <2>2, LeastIs
  <2>4. \A l \in 1..(i - 1) : l \in 1..N
    BY <1>2
  <2> QED
    BY <2>1, <2>3, <2>4
<1>7. PICK k : k = CHOOSE i \in 1..N : p[i] # 0 /\ \A l \in 1..(i - 1) : p[l] = 0
  OBVIOUS
<1>8. k \in 1..N /\ p[k] # 0 /\ \A l \in 1..(k - 1) : p[l] = 0
  BY <1>6, <1>7
<1>9. PICK ds, n : ds = Leading(g) /\ n = (N - k) + 1
  OBVIOUS
<1>10. n \in Nat /\ n >= 1 /\ N - k + 1 = n /\ (\A i \in 1..n : i + k - 1 \in 1..N)
       /\ (\A i \in 0..n : i + k - 1 \in 0..N) /\ n + k - 1 = N /\ 1 + k - 1 = k /\ 0 + k - 1 = k - 1
  BY <1>2, <1>8, <1>9
<1>11. ds = [i \in 1..n |-> p[i + k - 1]]
  <2>1. ds = SubSeq(p, k, N)
    BY <1>1, <1>7, <1>9, Zenon DEF Leading
  <2>2. SubSeq(p, k, N) = [i \in 1..(N - k + 1) |-> p[i + k - 1]]
    <3>1. p \in Seq(Digits) /\ k \in Int /\ N \in Int /\ k >= 1 /\ N <= Len(p) /\ k <= N
      BY <1>2, <1>4, <1>8
    <3> QED
      BY <3>1
  <2> QED
    BY <1>10, <2>1, <2>2, Zenon
<1>12. ds \in Seq(Digits) /\ Len(ds) = n /\ ds # <<>> /\ ds[1] # 0
  <2>1. \A i \in 1..n : p[i + k - 1] \in Digits
    <3>1. \A i \in 1..N : p[i] \in Digits
      <4>1. p \in Seq(Digits) /\ Len(p) = N
        BY <1>4
      <4> QED
        BY <4>1
    <3> QED
      BY <1>10, <3>1, Zenon
  <2>2. ds \in [1..n -> Digits]
    BY <1>11, <2>1
  <2>3. 1 \in 1..n
    BY <1>10
  <2>4. ds[1] = p[k]
    BY <1>10, <1>11, <2>3, Zenon
  <2>5. ds \in Seq(Digits) /\ Len(ds) = n
    BY <1>10, <2>2
  <2> QED
    BY <1>8, <1>10, <2>4, <2>5
<1>13. left[k - 1] = 0
  <2> DEFINE S == {i \in 0..(k - 1) : left[i] = 0}
  <2>1. 0 \in S
    BY <1>4, <1>8
  <2>2. ASSUME NEW i \in 1..(k - 1), i - 1 \in S
        PROVE  i \in S
    <3>1. i \in 0..(k - 1) /\ left[i - 1] = 0 /\ p[i] = 0 /\ i \in 1..N
      BY <1>2, <1>8, <2>2
    <3>2. left[i] = 0 * Radix + 0
      BY <1>4, <3>1, Zenon
    <3>3. 0 * Radix + 0 = 0
      BY RadixIs
    <3> QED
      BY <3>1, <3>2, <3>3
  <2> HIDE DEF S
  <2>3. k - 1 \in Nat /\ k - 1 \in 0..(k - 1)
    BY <1>2, <1>8
  <2>4. \A i \in 0..(k - 1) : i \in S
    BY <2>1, <2>2, <2>3, UpTo
  <2> QED
    BY <2>3, <2>4 DEF S
<1>14. PICK l : l = [i \in 0..n |-> left[i + k - 1]]
  OBVIOUS
<1>15. \A i \in 0..n : l[i] = left[i + k - 1] /\ left[i + k - 1] \in Nat
  BY <1>4, <1>10, <1>14
<1>16. l \in [0..n -> Nat]
  BY <1>14, <1>15
<1>17. l[0] = 0 /\ l[n] = g
  <2>1. 0 \in 0..n /\ n \in 0..n
    BY <1>10
  <2> QED
    BY <1>4, <1>10, <1>13, <1>15, <2>1, Zenon
<1>18. \A i \in 1..n : l[i] = l[i - 1] * Radix + ds[i]
  <2> TAKE i \in 1..n
  <2>1. i \in 0..n /\ i - 1 \in 0..n /\ i + k - 1 \in 1..N /\ (i - 1) + k - 1 = (i + k - 1) - 1
    BY <1>8, <1>10
  <2>2. left[i + k - 1] = left[(i + k - 1) - 1] * Radix + p[i + k - 1]
    BY <1>4, <2>1, Zenon
  <2> QED
    BY <1>11, <1>15, <2>1, <2>2, Zenon
<1>19. Digitwise(l, ds, n, g)
  BY <1>10, <1>12, <1>16, <1>17, <1>18, Zenon DEF Digitwise
<1> QED
  BY <1>9, <1>12, <1>19, Zenon DEF Reads

\* A text with a group after it.
LEMMA JoinedIs ==
    ASSUME NEW t, NEW p, NEW A \in Nat, NEW g \in Nat, NEW n, NEW l, Reads(t, A), Digitwise(l, p, n, g)
    PROVE  Reads(t \o p, A * Power(Radix, n) + g)
<1>1. PICK h, m, ds, w : /\ Digitwise(h, t, Len(t), A) /\ m = Len(t) /\ ds = t \o p
                         /\ w = [i \in 0..(m + n) |->
                                   IF i <= m THEN h[i] ELSE A * Power(Radix, i - m) + l[i - m]]
  BY DEF Reads
<1>2. /\ t \in Seq(Digits) /\ t # <<>> /\ t[1] # 0 /\ m \in Nat /\ Len(t) = m
      /\ h \in [0..m -> Nat] /\ h[0] = 0 /\ h[m] = A
      /\ \A i \in 1..m : h[i] = h[i - 1] * Radix + t[i]
  BY <1>1 DEF Reads, Digitwise
<1>3. /\ n \in Nat /\ p \in Seq(Digits) /\ Len(p) = n
      /\ l \in [0..n -> Nat] /\ l[0] = 0 /\ l[n] = g
      /\ \A i \in 1..n : l[i] = l[i - 1] * Radix + p[i]
  BY DEF Digitwise
<1>4. /\ ds \in Seq(Digits) /\ Len(ds) = m + n
      /\ (\A i \in 1..m : ds[i] = t[i]) /\ \A i \in 1..n : ds[m + i] = p[i]
  <2>1. t \in Seq(Digits) /\ p \in Seq(Digits) /\ m \in Nat /\ n \in Nat
    BY <1>2, <1>3
  <2>2. /\ t \o p \in Seq(Digits) /\ Len(t \o p) = Len(t) + Len(p)
        /\ (\A i \in 1..Len(t) : (t \o p)[i] = t[i])
        /\ \A i \in 1..Len(p) : (t \o p)[Len(t) + i] = p[i]
    BY <2>1
  <2> QED
    BY <1>1, <1>2, <1>3, <2>2, Zenon
<1>5. m # 0
  BY <1>2
<1>6. ds # <<>> /\ ds[1] # 0
  <2>1. 1 \in 1..m
    BY <1>2, <1>5
  <2> QED
    BY <1>2, <1>3, <1>4, <1>5, <2>1
<1>7. \A i \in 0..m : w[i] = h[i] /\ w[i] \in Nat
  <2> TAKE i \in 0..m
  <2>1. i \in 0..(m + n) /\ i <= m
    BY <1>2, <1>3
  <2> QED
    BY <1>1, <1>2, <2>1
<1>8. \A i \in 0..n : w[m + i] = A * Power(Radix, i) + l[i] /\ w[m + i] \in Nat
  <2> TAKE i \in 0..n
  <2>1. m + i \in 0..(m + n) /\ (m + i) - m = i /\ (i # 0 => ~(m + i <= m)) /\ m + 0 = m
    BY <1>2, <1>3
  <2>2. Power(Radix, i) \in Nat /\ Power(Radix, 0) = 1 /\ l[i] \in Nat
    <3>1. i \in Nat /\ Radix \in Nat \ {0}
      BY <1>3, RadixIs
    <3>2. Power(Radix, i) \in Nat /\ Power(Radix, 0) = 1
      BY <3>1, PowerIs
    <3> QED
      BY <1>3, <3>2
  <2>3. A * Power(Radix, i) + l[i] \in Nat
    BY <2>2
  <2>4. CASE i = 0
    <3>1. w[m + i] = A
      <4>1. m \in 0..m
        BY <1>2
      <4> QED
        BY <1>2, <1>7, <2>1, <2>4, <4>1, Zenon
    <3>2. A * 1 + 0 = A
      OBVIOUS
    <3>3. A * Power(Radix, i) + l[i] = A
      BY <1>3, <2>2, <2>4, <3>2, Zenon
    <3> QED
      BY <3>1, <3>3
  <2>5. CASE i # 0
    <3>1. w[m + i] = A * Power(Radix, (m + i) - m) + l[(m + i) - m]
      BY <1>1, <2>1, <2>5, Zenon
    <3> QED
      BY <2>1, <2>3, <3>1
  <2> QED
    BY <2>4, <2>5
<1>9. w \in [0..(m + n) -> Nat]
  <2>1. \A i \in 0..(m + n) : w[i] \in Nat
    <3> TAKE i \in 0..(m + n)
    <3>1. CASE i <= m
      BY <1>2, <1>7, <3>1
    <3>2. CASE ~(i <= m)
      <4>1. i - m \in 0..n /\ m + (i - m) = i
        BY <1>2, <1>3, <3>2
      <4>2. w[m + (i - m)] \in Nat
        BY <1>8, <4>1
      <4> QED
        BY <4>1, <4>2
    <3> QED
      BY <3>1, <3>2
  <2> QED
    BY <1>1, <2>1
<1>10. w[0] = 0 /\ w[m + n] = A * Power(Radix, n) + g
  <2>1. 0 \in 0..m /\ n \in 0..n
    BY <1>2, <1>3
  <2> QED
    BY <1>2, <1>3, <1>7, <1>8, <2>1, Zenon
<1>11. \A i \in 1..(m + n) : w[i] = w[i - 1] * Radix + ds[i]
  <2> TAKE i \in 1..(m + n)
  <2>1. CASE i <= m
    <3>1. i \in 1..m /\ i \in 0..m /\ i - 1 \in 0..m
      BY <1>2, <2>1
    <3> QED
      BY <1>2, <1>4, <1>7, <3>1, Zenon
  <2>2. CASE ~(i <= m)
    <3>1. PICK k : k = i - m
      OBVIOUS
    <3>2. /\ k \in 1..n /\ k \in 0..n /\ k - 1 \in 0..n /\ m + k = i /\ m + (k - 1) = i - 1
          /\ k - 1 \in Nat /\ (k - 1) + 1 = k
      BY <1>2, <1>3, <2>2, <3>1
    <3>3. PICK o, b, c : o = Power(Radix, k - 1) /\ b = l[k - 1] /\ c = p[k]
      OBVIOUS
    <3>4. o \in Nat /\ Power(Radix, k) = Radix * o
      <4>1. Power(Radix, k - 1) \in Nat /\ Power(Radix, (k - 1) + 1) = Radix * Power(Radix, k - 1)
        BY <3>2, RadixIs, PowerIs
      <4> QED
        BY <3>2, <3>3, <4>1, Zenon
    <3>5. b \in Nat /\ c \in Nat
      <4>1. c \in Digits
        BY <1>3, <3>2, <3>3
      <4> QED
        BY <1>3, <3>2, <3>3, <4>1, RadixIs DEF Digits
    <3>6. w[i - 1] = A * o + b /\ w[i] = A * (Radix * o) + (b * Radix + c)
      <4>1. w[m + (k - 1)] = A * Power(Radix, k - 1) + l[k - 1]
        BY <1>8, <3>2, Zenon
      <4>2. w[m + k] = A * Power(Radix, k) + l[k]
        BY <1>8, <3>2, Zenon
      <4>3. l[k] = b * Radix + c
        BY <1>3, <3>2, <3>3, Zenon
      <4> QED
        BY <3>2, <3>3, <3>4, <4>1, <4>2, <4>3, Zenon
    <3>7. (A * o + b) * Radix + c = A * (Radix * o) + (b * Radix + c)
      <4>1. (A * o + b) * Radix = (A * o) * Radix + b * Radix /\ (A * o) * Radix = A * (Radix * o)
        BY <3>4, <3>5, RadixIs
      <4>2. A * (Radix * o) \in Nat /\ b * Radix \in Nat
        BY <3>4, <3>5, RadixIs
      <4> QED
        BY <3>5, <4>1, <4>2
    <3>8. ds[i] = c
      BY <1>4, <3>2, <3>3, Zenon
    <3> QED
      BY <3>6, <3>7, <3>8, Zenon
  <2> QED
    BY <2>1, <2>2
<1>12. m + n \in Nat
  BY <1>2, <1>3
<1>13. Digitwise(w, ds, m + n, A * Power(Radix, n) + g)
  BY <1>4, <1>9, <1>10, <1>11, <1>12, Zenon DEF Digitwise
<1> QED
  BY <1>1, <1>4, <1>6, <1>13, Zenon DEF Reads

\* One group peeled off.
LEMMA PeeledIs ==
    ASSUME NEW m \in LimbSeq
    PROVE  /\ Trim(ShortDiv(m, GroupRadix).quot) \in LimbSeq
           /\ Trimmed(Trim(ShortDiv(m, GroupRadix).quot))
           /\ ShortDiv(m, GroupRadix).rem \in 0..(GroupRadix - 1)
           /\ Magnitude(m) = Magnitude(Trim(ShortDiv(m, GroupRadix).quot)) * GroupRadix
                                + ShortDiv(m, GroupRadix).rem
           /\ Magnitude(Trim(ShortDiv(m, GroupRadix).quot)) <= Magnitude(m)
           /\ Magnitude(m) # 0 => Magnitude(Trim(ShortDiv(m, GroupRadix).quot)) < Magnitude(m)
<1>1. PICK D, dv, k, r : /\ D = GroupRadix /\ dv = ShortDiv(m, D) /\ k = Magnitude(Trim(dv.quot))
                         /\ r = dv.rem
  OBVIOUS
<1>2. D \in Nat \ {0} /\ D >= 2
  BY <1>1, RadixIs, Zenon
<1>3. dv.quot \in LimbSeq /\ r \in 0..(D - 1) /\ Magnitude(m) = D * Magnitude(dv.quot) + r
  <2>1. /\ ShortDiv(m, D).quot \in LimbSeq
        /\ ShortDiv(m, D).rem \in 0..(D - 1)
        /\ Magnitude(m) = D * Magnitude(ShortDiv(m, D).quot) + ShortDiv(m, D).rem
    BY <1>2, ShortDivIs
  <2> QED
    BY <1>1, <2>1, Zenon
<1>4. Trim(dv.quot) \in LimbSeq /\ Trimmed(Trim(dv.quot)) /\ k = Magnitude(dv.quot) /\ k \in Nat
  <2>1. Trim(dv.quot) \in LimbSeq /\ Trimmed(Trim(dv.quot)) /\ Magnitude(Trim(dv.quot)) = Magnitude(dv.quot)
    BY <1>3, TrimIs
  <2>2. Magnitude(Trim(dv.quot)) \in Nat
    BY <2>1, WorthBelow
  <2> QED
    BY <1>1, <2>1, <2>2, Zenon
<1>5. PICK M : M = Magnitude(m)
  OBVIOUS
<1>6. D * k = k * D /\ k * D \in Nat
  BY <1>2, <1>4
<1>7. M = k * D + r
  BY <1>3, <1>4, <1>5, <1>6, Zenon
<1>8. 2 * k <= D * k
  BY <1>2, <1>4, ProductOrder
<1>9. k <= M /\ (M # 0 => k < M)
  <2>1. r \in Nat
    BY <1>2, <1>3
  <2> QED
    BY <1>4, <1>6, <1>7, <1>8, <2>1
<1> QED
  BY <1>1, <1>3, <1>4, <1>5, <1>7, <1>9, Zenon

\* What is left after i groups.
LEMMA LeftAfterIs ==
    ASSUME NEW m \in LimbSeq, Trimmed(m)
    PROVE  \A i \in 0..Magnitude(m) :
              /\ LeftAfter(m)[i] \in LimbSeq /\ Trimmed(LeftAfter(m)[i])
              /\ LeftAfter(m)[i] = IF i = 0 THEN m
                                   ELSE Trim(ShortDiv(LeftAfter(m)[i - 1], GroupRadix).quot)
              /\ Magnitude(LeftAfter(m)[i]) <= Magnitude(m) - i
<1>1. PICK N : N = Magnitude(m)
  OBVIOUS
<1>2. N \in Nat
  BY <1>1, WorthBelow
<1> DEFINE next(r) == Trim(ShortDiv(r, GroupRadix).quot)
           Body(f) == [i \in 0..N |-> IF i = 0 THEN m ELSE next(f[i - 1])]
<1>3. ASSUME NEW r \in LimbSeq
      PROVE  /\ next(r) \in LimbSeq /\ Trimmed(next(r))
             /\ Magnitude(next(r)) <= Magnitude(r) /\ Magnitude(next(r)) \in Nat /\ Magnitude(r) \in Nat
             /\ Magnitude(r) # 0 => Magnitude(next(r)) < Magnitude(r)
  <2>1. /\ next(r) \in LimbSeq /\ Trimmed(next(r))
        /\ Magnitude(next(r)) <= Magnitude(r)
        /\ Magnitude(r) # 0 => Magnitude(next(r)) < Magnitude(r)
    BY PeeledIs
  <2>2. Magnitude(r) \in Nat /\ Magnitude(next(r)) \in Nat
    BY <2>1, WorthBelow
  <2> QED
    BY <2>1, <2>2
<1>4. PICK step : step = [p \in (1..N) \X LimbSeq |-> next(p[2])]
  OBVIOUS
<1> HIDE DEF next
<1>5. \A i \in 1..N, r \in LimbSeq : step[<<i, r>>] = next(r)
  BY <1>4
<1>6. step \in [(1..N) \X LimbSeq -> LimbSeq]
  <2>1. \A p \in (1..N) \X LimbSeq : step[p] \in LimbSeq
    <3> TAKE p \in (1..N) \X LimbSeq
    <3>1. PICK i \in 1..N, r \in LimbSeq : p = <<i, r>>
      OBVIOUS
    <3>2. step[<<i, r>>] \in LimbSeq
      BY <1>3, <1>5
    <3> QED
      BY <3>1, <3>2
  <2> QED
    BY <1>4, <2>1
<1>7. PICK F : GoesUp(F, N, LimbSeq, m, step)
  BY <1>2, <1>6, DefinedUp
<1>8. F \in [0..N -> LimbSeq] /\ F[0] = m /\ \A i \in 1..N : F[i] = step[<<i, F[i - 1]>>]
  BY <1>7 DEF GoesUp
<1>9. F = Body(F)
  <2>1. \A i \in 1..N : F[i] = next(F[i - 1])
    <3> TAKE i \in 1..N
    <3>1. i - 1 \in 0..N
      BY <1>2
    <3>2. F[i - 1] \in LimbSeq
      BY <1>8, <3>1
    <3> QED
      BY <1>5, <1>8, <3>2
  <2>2. \A i \in 0..N : F[i] = IF i = 0 THEN m ELSE next(F[i - 1])
    <3> TAKE i \in 0..N
    <3>1. i = 0 \/ i \in 1..N
      BY <1>2
    <3> QED
      BY <1>8, <2>1, <3>1
  <2>3. F = [i \in 0..N |-> F[i]]
    BY <1>8
  <2> QED
    BY <2>2, <2>3
<1>10. PICK G : G = LeftAfter(m)
  OBVIOUS
<1>11. G = Body(G)
  <2>1. G = CHOOSE f : f = Body(f)
    BY <1>1, <1>10 DEF LeftAfter, next
  <2> HIDE DEF Body
  <2> QED
    BY <1>9, <2>1
<1>12. \A i \in 0..N : G[i] = IF i = 0 THEN m ELSE next(G[i - 1])
  BY <1>11, Zenon
<1>13. G[0] = m /\ \A i \in 1..N : G[i] = next(G[i - 1])
  <2>1. 0 \in 0..N /\ \A i \in 1..N : i \in 0..N /\ i # 0
    BY <1>2
  <2> QED
    BY <1>12, <2>1, Zenon
<1>14. \A i \in 0..N : G[i] \in LimbSeq /\ Trimmed(G[i]) /\ Magnitude(G[i]) <= N - i
  <2> DEFINE S == {i \in 0..N : G[i] \in LimbSeq /\ Trimmed(G[i]) /\ Magnitude(G[i]) <= N - i}
  <2>1. 0 \in S
    BY <1>1, <1>2, <1>13
  <2>2. ASSUME NEW i \in 1..N, i - 1 \in S
        PROVE  i \in S
    <3>1. i \in 0..N /\ G[i - 1] \in LimbSeq /\ Magnitude(G[i - 1]) <= N - (i - 1)
      BY <1>2, <2>2
    <3>2. PICK a, b : a = Magnitude(G[i - 1]) /\ b = Magnitude(next(G[i - 1]))
      OBVIOUS
    <3>3. /\ next(G[i - 1]) \in LimbSeq /\ Trimmed(next(G[i - 1]))
          /\ Magnitude(next(G[i - 1])) <= Magnitude(G[i - 1]) /\ Magnitude(next(G[i - 1])) \in Nat
          /\ Magnitude(G[i - 1]) \in Nat
          /\ Magnitude(G[i - 1]) # 0 => Magnitude(next(G[i - 1])) < Magnitude(G[i - 1])
      BY <1>3, <3>1
    <3>4. a \in Nat /\ b \in Nat /\ b <= a /\ (a # 0 => b < a) /\ a <= N - (i - 1)
      BY <3>1, <3>2, <3>3, Zenon
    <3>5. b <= N - i
      BY <1>2, <3>4
    <3>6. G[i] = next(G[i - 1])
      BY <1>13
    <3>7. G[i] \in LimbSeq /\ Trimmed(G[i]) /\ Magnitude(G[i]) <= N - i
      BY <3>2, <3>3, <3>5, <3>6, Zenon
    <3> QED
      BY <3>1, <3>7
  <2> HIDE DEF S
  <2>3. \A i \in 0..N : i \in S
    BY <1>2, <2>1, <2>2, UpTo
  <2> QED
    BY <2>3 DEF S
<1> QED
  BY <1>1, <1>10, <1>12, <1>14, Zenon DEF next

\* The groups end: nothing is left after the last, something before it.
LEMMA GroupsIs ==
    ASSUME NEW m \in LimbSeq, Trimmed(m), m # <<>>
    PROVE  /\ Groups(m) \in 1..Magnitude(m)
           /\ \A i \in 0..(Groups(m) - 1) : Magnitude(LeftAfter(m)[i]) # 0
           /\ \A i \in {Groups(m)} : Magnitude(LeftAfter(m)[i]) = 0
<1>1. PICK N, L, K : N = Magnitude(m) /\ L = LeftAfter(m) /\ K = Groups(m)
  OBVIOUS
<1>2. N \in Nat /\ N # 0
  <2>1. Magnitude(m) \in Nat /\ Magnitude(m) # 0
    BY WorthBelow, NoLimbs
  <2> QED
    BY <1>1, <2>1, Zenon
<1>3. \A i \in 0..N : /\ L[i] \in LimbSeq /\ Trimmed(L[i]) /\ Magnitude(L[i]) <= N - i
                      /\ i = 0 => L[i] = m
  <2>1. \A i \in 0..Magnitude(m) :
           /\ LeftAfter(m)[i] \in LimbSeq /\ Trimmed(LeftAfter(m)[i])
           /\ LeftAfter(m)[i] = IF i = 0 THEN m
                                ELSE Trim(ShortDiv(LeftAfter(m)[i - 1], GroupRadix).quot)
           /\ Magnitude(LeftAfter(m)[i]) <= Magnitude(m) - i
    BY LeftAfterIs
  <2> QED
    BY <1>1, <2>1, Zenon
<1>4. \A i \in 0..N : Magnitude(L[i]) \in Nat /\ (Magnitude(L[i]) = 0 <=> L[i] = <<>>)
  BY <1>3, WorthBelow, NoLimbs
<1>5. L[N] = <<>>
  <2>1. N \in 0..N
    BY <1>2
  <2>2. Magnitude(L[N]) \in Nat /\ Magnitude(L[N]) <= N - N
    BY <1>3, <1>4, <2>1
  <2>3. Magnitude(L[N]) = 0
    BY <1>2, <2>2
  <2> QED
    BY <1>4, <2>1, <2>3
<1>6. \E k \in 1..N : L[k] = <<>> /\ \A i \in 1..(k - 1) : L[i] # <<>>
  <2>1. PICK S : S = {k \in 1..N : L[k] = <<>>}
    OBVIOUS
  <2>2. \E k \in 1..N : k \in S
    <3>1. N \in 1..N
      BY <1>2
    <3> QED
      BY <1>5, <2>1, <3>1
  <2>3. PICK k \in 1..N : k \in S /\ \A i \in 1..(k - 1) : i \notin S
    BY <1>2, <2>2, LeastIs
  <2>4. \A i \in 1..(k - 1) : i \in 1..N
    BY <1>2
  <2> QED
    BY <2>1, <2>3, <2>4
<1>7. K = CHOOSE k \in 1..N : L[k] = <<>> /\ \A i \in 1..(k - 1) : L[i] # <<>>
  BY <1>1, Zenon DEF Groups
<1>8. K \in 1..N /\ L[K] = <<>> /\ \A i \in 1..(K - 1) : L[i] # <<>>
  BY <1>6, <1>7
<1>9. \A i \in 0..(K - 1) : Magnitude(L[i]) # 0
  <2> TAKE i \in 0..(K - 1)
  <2>1. i \in 0..N /\ (i = 0 \/ i \in 1..(K - 1))
    BY <1>2, <1>8
  <2>2. L[i] # <<>>
    BY <1>3, <1>8, <2>1
  <2> QED
    BY <1>4, <2>1, <2>2
<1>10. Magnitude(L[K]) = 0
  <2>1. K \in 0..N
    BY <1>2, <1>8
  <2> QED
    BY <1>4, <1>8, <2>1
<1> QED
  BY <1>1, <1>8, <1>9, <1>10, Zenon

\* A group is what its short division leaves; the leading one is not zero.
GroupOf(m, i) == ShortDiv(LeftAfter(m)[i - 1], GroupRadix).rem

\* What is left is what is left after one more group, and that group.
LEMMA GroupWorth ==
    ASSUME NEW m \in LimbSeq, Trimmed(m), m # <<>>
    PROVE  /\ Groups(m) \in Nat /\ Groups(m) >= 1
           /\ \A i \in 1..Groups(m) :
                 /\ GroupOf(m, i) \in 0..(GroupRadix - 1)
                 /\ Magnitude(LeftAfter(m)[i - 1]) \in Nat /\ Magnitude(LeftAfter(m)[i]) \in Nat
                 /\ Magnitude(LeftAfter(m)[i - 1]) =
                       Magnitude(LeftAfter(m)[i]) * GroupRadix + GroupOf(m, i)
                 /\ i = Groups(m) => /\ GroupOf(m, i) \in 1..(GroupRadix - 1)
                                     /\ Magnitude(LeftAfter(m)[i - 1]) = GroupOf(m, i)
<1>1. PICK N, L, K : N = Magnitude(m) /\ L = LeftAfter(m) /\ K = Groups(m)
  OBVIOUS
<1>2. N \in Nat
  BY <1>1, WorthBelow
<1>3. \A i \in 0..N : /\ L[i] \in LimbSeq
                      /\ i # 0 => L[i] = Trim(ShortDiv(L[i - 1], GroupRadix).quot)
  <2>1. \A i \in 0..Magnitude(m) :
           /\ LeftAfter(m)[i] \in LimbSeq /\ Trimmed(LeftAfter(m)[i])
           /\ LeftAfter(m)[i] = IF i = 0 THEN m
                                ELSE Trim(ShortDiv(LeftAfter(m)[i - 1], GroupRadix).quot)
           /\ Magnitude(LeftAfter(m)[i]) <= Magnitude(m) - i
    BY LeftAfterIs
  <2> QED
    BY <1>1, <2>1, Zenon
<1>4. /\ K \in 1..N
      /\ \A i \in 0..(K - 1) : Magnitude(L[i]) # 0
      /\ \A i \in {K} : Magnitude(L[i]) = 0
  <2>1. /\ Groups(m) \in 1..Magnitude(m)
        /\ \A i \in 0..(Groups(m) - 1) : Magnitude(LeftAfter(m)[i]) # 0
        /\ \A i \in {Groups(m)} : Magnitude(LeftAfter(m)[i]) = 0
    BY GroupsIs
  <2> QED
    BY <1>1, <2>1, Zenon
<1>5. K \in Nat /\ K >= 1
  BY <1>2, <1>4
<1>6. ASSUME NEW i \in 1..K
      PROVE  /\ GroupOf(m, i) \in 0..(GroupRadix - 1)
             /\ Magnitude(L[i - 1]) \in Nat /\ Magnitude(L[i]) \in Nat
             /\ Magnitude(L[i - 1]) = Magnitude(L[i]) * GroupRadix + GroupOf(m, i)
             /\ i = K => /\ GroupOf(m, i) \in 1..(GroupRadix - 1)
                         /\ Magnitude(L[i - 1]) = GroupOf(m, i)
  <2>1. i - 1 \in 0..N /\ i \in 0..N /\ i # 0 /\ i - 1 \in 0..(K - 1)
    BY <1>2, <1>4
  <2>2. L[i - 1] \in LimbSeq /\ L[i] \in LimbSeq /\ L[i] = Trim(ShortDiv(L[i - 1], GroupRadix).quot)
    BY <1>3, <2>1
  <2>3. /\ ShortDiv(L[i - 1], GroupRadix).rem \in 0..(GroupRadix - 1)
        /\ Magnitude(L[i - 1]) = Magnitude(Trim(ShortDiv(L[i - 1], GroupRadix).quot)) * GroupRadix
                                    + ShortDiv(L[i - 1], GroupRadix).rem
    BY <2>2, PeeledIs
  <2>4. GroupOf(m, i) = ShortDiv(L[i - 1], GroupRadix).rem
    BY <1>1, Zenon DEF GroupOf
  <2>5. /\ GroupOf(m, i) \in 0..(GroupRadix - 1)
        /\ Magnitude(L[i - 1]) = Magnitude(L[i]) * GroupRadix + GroupOf(m, i)
    BY <2>2, <2>3, <2>4, Zenon
  <2>6. Magnitude(L[i - 1]) \in Nat /\ Magnitude(L[i]) \in Nat
    BY <2>2, WorthBelow
  <2>7. ASSUME i = K
        PROVE  /\ GroupOf(m, i) \in 1..(GroupRadix - 1) /\ Magnitude(L[i - 1]) = GroupOf(m, i)
    <3>1. Magnitude(L[i]) = 0 /\ Magnitude(L[i - 1]) # 0
      BY <1>4, <2>1, <2>7
    <3>2. PICK g : g = GroupOf(m, i)
      OBVIOUS
    <3>3. Magnitude(L[i - 1]) = 0 * GroupRadix + g /\ g \in 0..(GroupRadix - 1)
      BY <2>5, <3>1, <3>2, Zenon
    <3>4. Magnitude(L[i - 1]) = g
      BY <3>3, RadixIs
    <3>5. g \in 1..(GroupRadix - 1)
      BY <3>1, <3>3, <3>4, RadixIs
    <3> QED
      BY <3>2, <3>4, <3>5, Zenon
  <2> QED
    BY <2>5, <2>6, <2>7, Zenon
<1> QED
  BY <1>1, <1>5, <1>6, Zenon

\* The text of the groups from one on reads as what was left before it.
LEMMA TextsIs ==
    ASSUME NEW m \in LimbSeq, Trimmed(m), m # <<>>
    PROVE  \A i \in 1..Groups(m) : Reads(Texts(m)[i], Magnitude(LeftAfter(m)[i - 1]))
<1>1. PICK K, L, group : K = Groups(m) /\ L = LeftAfter(m)
                         /\ group = [i \in 1..K |-> GroupOf(m, i)]
  OBVIOUS
<1>2. /\ K \in Nat /\ K >= 1
      /\ \A i \in 1..K :
            /\ GroupOf(m, i) \in 0..(GroupRadix - 1)
            /\ Magnitude(L[i - 1]) \in Nat /\ Magnitude(L[i]) \in Nat
            /\ Magnitude(L[i - 1]) = Magnitude(L[i]) * GroupRadix + GroupOf(m, i)
            /\ i = K => /\ GroupOf(m, i) \in 1..(GroupRadix - 1)
                        /\ Magnitude(L[i - 1]) = GroupOf(m, i)
  <2>1. /\ Groups(m) \in Nat /\ Groups(m) >= 1
        /\ \A i \in 1..Groups(m) :
              /\ GroupOf(m, i) \in 0..(GroupRadix - 1)
              /\ Magnitude(LeftAfter(m)[i - 1]) \in Nat /\ Magnitude(LeftAfter(m)[i]) \in Nat
              /\ Magnitude(LeftAfter(m)[i - 1]) =
                    Magnitude(LeftAfter(m)[i]) * GroupRadix + GroupOf(m, i)
              /\ i = Groups(m) => /\ GroupOf(m, i) \in 1..(GroupRadix - 1)
                                  /\ Magnitude(LeftAfter(m)[i - 1]) = GroupOf(m, i)
    BY GroupWorth
  <2> QED
    BY <1>1, <2>1, Zenon
<1>3. \A i \in 1..K : group[i] = GroupOf(m, i)
  BY <1>1
<1>4. PICK N \in Nat : N = K - 1
  BY <1>2
<1>5. K = N + 1
  BY <1>2, <1>4
<1> DEFINE T == Seq(Digits)
           Body(f) == [i \in 1..K |-> IF i = K THEN Leading(group[i]) ELSE f[i + 1] \o Padded(group[i])]
<1>6. \A i \in 1..K : Padded(group[i]) \in T /\ Digitwise(DigitsLeft(group[i]), Padded(group[i]), GroupDigits, group[i])
  <2> TAKE i \in 1..K
  <2>1. group[i] \in 0..(GroupRadix - 1)
    BY <1>2, <1>3
  <2>2. Digitwise(DigitsLeft(group[i]), Padded(group[i]), GroupDigits, group[i])
    BY <2>1, PaddedIs
  <2> QED
    BY <2>2 DEF Digitwise
<1>7. K \in 1..K
  BY <1>2
<1>8. Reads(Leading(group[K]), group[K]) /\ group[K] = Magnitude(L[K - 1])
  <2>1. group[K] \in 1..(GroupRadix - 1) /\ group[K] = Magnitude(L[K - 1])
    BY <1>2, <1>3, <1>7
  <2>2. Reads(Leading(group[K]), group[K])
    BY <2>1, LeadingIs
  <2> QED
    BY <2>1, <2>2
<1>9. Leading(group[K]) \in T
  BY <1>8 DEF Reads
<1>10. PICK step : step = [p \in (1..N) \X T |-> p[2] \o Padded(group[p[1]])]
  OBVIOUS
<1>11. \A i \in 1..N, r \in T : step[<<i, r>>] = r \o Padded(group[i])
  BY <1>10
<1>12. \A i \in 1..N : i \in 1..K /\ i # K /\ i + 1 \in 1..K
  BY <1>4, <1>5
<1>13. step \in [(1..N) \X T -> T]
  <2>1. \A p \in (1..N) \X T : step[p] \in T
    <3> TAKE p \in (1..N) \X T
    <3>1. PICK i \in 1..N, r \in T : p = <<i, r>>
      OBVIOUS
    <3>2. Padded(group[i]) \in T /\ step[<<i, r>>] = r \o Padded(group[i])
      BY <1>6, <1>11, <1>12
    <3>3. r \o Padded(group[i]) \in T
      BY <3>2
    <3> QED
      BY <3>1, <3>2, <3>3
  <2> QED
    BY <1>10, <2>1
<1>14. PICK F : GoesDown(F, N, T, Leading(group[K]), step)
  BY <1>9, <1>13, DefinedDown
<1>15. F \in [1..K -> T] /\ F[K] = Leading(group[K]) /\ \A i \in 1..N : F[i] = step[<<i, F[i + 1]>>]
  BY <1>5, <1>14 DEF GoesDown
<1>16. F = Body(F)
  <2>1. \A i \in 1..N : F[i] = F[i + 1] \o Padded(group[i])
    <3> TAKE i \in 1..N
    <3>1. F[i + 1] \in T
      BY <1>12, <1>15
    <3> QED
      BY <1>11, <1>15, <3>1
  <2>2. \A i \in 1..K : F[i] = IF i = K THEN Leading(group[i]) ELSE F[i + 1] \o Padded(group[i])
    <3> TAKE i \in 1..K
    <3>1. i = K \/ i \in 1..N
      BY <1>4, <1>5
    <3> QED
      BY <1>15, <2>1, <3>1
  <2>3. F = [i \in 1..K |-> F[i]]
    BY <1>15
  <2> QED
    BY <2>2, <2>3
<1>17. PICK G : G = Texts(m)
  OBVIOUS
<1>18. G = CHOOSE f : f = Body(f)
  BY <1>1, <1>17 DEF Texts, GroupOf
<1> HIDE DEF Body
<1>19. G = Body(G)
  BY <1>16, <1>18
<1>20. \A i \in 1..K : G[i] = IF i = K THEN Leading(group[i]) ELSE G[i + 1] \o Padded(group[i])
  BY <1>19, Zenon DEF Body
<1> DEFINE S == {i \in 1..K : Reads(G[i], Magnitude(L[i - 1]))}
<1>21. K \in S
  BY <1>7, <1>8, <1>20
<1>22. \A i \in 1..N : i + 1 \in S => i \in S
  <2> SUFFICES ASSUME NEW i \in 1..N, i + 1 \in S
               PROVE  i \in S
    OBVIOUS
  <2>1. i \in 1..K /\ i # K /\ (i + 1) - 1 = i
    BY <1>12
  <2>2. Reads(G[i + 1], Magnitude(L[i]))
    BY <2>1
  <2>3. PICK t, p, A, g, left : t = G[i + 1] /\ p = Padded(group[i]) /\ A = Magnitude(L[i])
                                /\ g = group[i] /\ left = DigitsLeft(group[i])
    OBVIOUS
  <2>4. A \in Nat /\ g \in Nat /\ Magnitude(L[i - 1]) = A * GroupRadix + g
    <3>1. g \in 0..(GroupRadix - 1) /\ A \in Nat /\ Magnitude(L[i - 1]) = A * GroupRadix + g
      BY <1>2, <1>3, <2>1, <2>3
    <3> QED
      BY <3>1, RadixIs
  <2>5. Reads(t, A) /\ Digitwise(left, p, GroupDigits, g)
    BY <1>6, <2>1, <2>2, <2>3, Zenon
  <2>6. Reads(t \o p, A * Power(Radix, GroupDigits) + g)
    BY <2>4, <2>5, JoinedIs
  <2>7. Reads(t \o p, A * GroupRadix + g)
    BY <2>6 DEF GroupRadix
  <2>8. G[i] = t \o p
    BY <1>20, <2>1, <2>3
  <2>9. Reads(G[i], Magnitude(L[i - 1]))
    BY <2>4, <2>7, <2>8, Zenon
  <2> QED
    BY <2>1, <2>9
<1>23. \A i \in 1..(N + 1) : i \in S
  <2>1. N + 1 \in S
    BY <1>5, <1>21, Zenon
  <2> HIDE DEF S
  <2> QED
    BY <1>22, <2>1, DownFrom
<1>24. \A i \in 1..K : Reads(G[i], Magnitude(L[i - 1]))
  BY <1>5, <1>23
<1> QED
  BY <1>1, <1>17, <1>24, Zenon

\* A shown magnitude reads as what it was worth, and leads with no zero
\* (lines 195-218).
THEOREM ShownIs ==
    ASSUME NEW m \in LimbSeq, Trimmed(m), m # <<>>
    PROVE  Reads(Shown(m), Magnitude(m))
<1>1. \A i \in 1..Groups(m) : Reads(Texts(m)[i], Magnitude(LeftAfter(m)[i - 1]))
  BY TextsIs
<1>2. 1 \in 1..Groups(m)
  <2>1. Groups(m) \in Nat /\ Groups(m) >= 1
    BY GroupWorth
  <2> QED
    BY <2>1
<1>3. Reads(Texts(m)[1], Magnitude(LeftAfter(m)[1 - 1]))
  BY <1>1, <1>2, Zenon
<1>4. LeftAfter(m)[0] = m
  <2>1. 0 \in 0..Magnitude(m)
    BY WorthBelow
  <2>2. \A i \in 0..Magnitude(m) :
           /\ LeftAfter(m)[i] \in LimbSeq /\ Trimmed(LeftAfter(m)[i])
           /\ LeftAfter(m)[i] = IF i = 0 THEN m
                                ELSE Trim(ShortDiv(LeftAfter(m)[i - 1], GroupRadix).quot)
           /\ Magnitude(LeftAfter(m)[i]) <= Magnitude(m) - i
    BY LeftAfterIs
  <2> QED
    BY <2>1, <2>2, Zenon
<1>5. 1 - 1 = 0
  OBVIOUS
<1> QED
  BY <1>3, <1>4, <1>5, Zenon DEF Shown

\* What is shown of x, zero included, reads back as x (lines 195-218,
\* 306-326).
XShown == IF XBox.sign = 0 THEN <<0>> ELSE Shown(XBox.limbs)

\* The first operand in canonical form.
LEMMA XIs ==
    ASSUME x \in Int
    PROVE  /\ Whole(XBox) /\ IntegerValue(XBox) = x
           /\ XBox.limbs \in LimbSeq /\ Trimmed(XBox.limbs)
           /\ Magnitude(XBox.limbs) = Abs(x) /\ Magnitude(XBox.limbs) \in Nat
           /\ XBox.sign = Sign(x) /\ XBox.sign \in {-1, 0, 1}
<1>1. Whole(XBox) /\ IntegerValue(XBox) = x
  BY BoxIs DEF XBox
<1>2. /\ XBox.limbs \in LimbSeq /\ Trimmed(XBox.limbs)
      /\ Magnitude(XBox.limbs) = Abs(x) /\ XBox.sign = Sign(x)
  BY BoxLimbs DEF XBox
<1>3. Magnitude(XBox.limbs) \in Nat /\ XBox.sign \in {-1, 0, 1}
  BY <1>2, SignIs
<1> QED
  BY <1>1, <1>2, <1>3

\* The second operand in canonical form.
LEMMA YIs ==
    ASSUME y \in Int
    PROVE  /\ Whole(YBox) /\ IntegerValue(YBox) = y
           /\ YBox.limbs \in LimbSeq /\ Trimmed(YBox.limbs)
           /\ Magnitude(YBox.limbs) = Abs(y) /\ Magnitude(YBox.limbs) \in Nat
           /\ YBox.sign = Sign(y) /\ YBox.sign \in {-1, 0, 1}
<1>1. Whole(YBox) /\ IntegerValue(YBox) = y
  BY BoxIs DEF YBox
<1>2. /\ YBox.limbs \in LimbSeq /\ Trimmed(YBox.limbs)
      /\ Magnitude(YBox.limbs) = Abs(y) /\ YBox.sign = Sign(y)
  BY BoxLimbs DEF YBox
<1>3. Magnitude(YBox.limbs) \in Nat /\ YBox.sign \in {-1, 0, 1}
  BY <1>2, SignIs
<1> QED
  BY <1>1, <1>2, <1>3

\* What is shown reads back, and leads with a zero only for zero.
LEMMA ShowIs ==
    ASSUME x \in Int
    PROVE  /\ Mk(XBox.sign, ReadBack(XShown)) = XBox
           /\ XShown[1] = 0 => XShown = <<0>>
<1>1. /\ Whole(XBox) /\ IntegerValue(XBox) = x
      /\ XBox.limbs \in LimbSeq /\ Trimmed(XBox.limbs)
      /\ Magnitude(XBox.limbs) = Abs(x) /\ Magnitude(XBox.limbs) \in Nat
      /\ XBox.sign = Sign(x) /\ XBox.sign \in {-1, 0, 1}
  BY XIs
<1>2. /\ XShown \in Seq(Digits)
      /\ \E left : Digitwise(left, XShown, Len(XShown), Magnitude(XBox.limbs))
      /\ XShown[1] = 0 => XShown = <<0>>
  <2>1. CASE XBox.sign = 0
    <3>1. XShown = <<0>>
      BY <2>1 DEF XShown
    <3>2. Magnitude(XBox.limbs) = 0
      BY <1>1, <2>1, SignIs
    <3>3. 0 \in Digits
      BY RadixIs DEF Digits
    <3>4. <<0>> \in Seq(Digits) /\ Len(<<0>>) = 1 /\ <<0>>[1] = 0
      BY <3>3
    <3>5. PICK left : left = [i \in 0..1 |-> 0]
      OBVIOUS
    <3>6. left \in [0..1 -> Nat] /\ left[0] = 0 /\ left[1] = 0
      BY <3>5
    <3>7. \A i \in 1..1 : left[i] = left[i - 1] * Radix + <<0>>[i]
      <4> TAKE i \in 1..1
      <4>1. i = 1 /\ i - 1 = 0
        OBVIOUS
      <4>2. 0 = 0 * Radix + 0
        BY RadixIs
      <4> QED
        BY <3>4, <3>6, <4>1, <4>2
    <3>8. Digitwise(left, <<0>>, 1, 0)
      BY <3>4, <3>6, <3>7 DEF Digitwise
    <3> QED
      BY <3>1, <3>2, <3>4, <3>8
  <2>2. CASE XBox.sign # 0
    <3>1. XBox.limbs # <<>>
      BY <1>1, <2>2 DEF Whole
    <3>2. Reads(Shown(XBox.limbs), Magnitude(XBox.limbs))
      BY <1>1, <3>1, ShownIs
    <3>3. XShown = Shown(XBox.limbs)
      BY <2>2 DEF XShown
    <3> QED
      BY <3>2, <3>3 DEF Reads
  <2> QED
    BY <2>1, <2>2
<1>3. /\ ReadBack(XShown) \in LimbSeq
      /\ \E left : Digitwise(left, XShown, Len(XShown), Magnitude(ReadBack(XShown)))
  BY <1>2, ReadBackIs
<1>4. Magnitude(ReadBack(XShown)) = Magnitude(XBox.limbs)
  <2>1. PICK k : Digitwise(k, XShown, Len(XShown), Magnitude(XBox.limbs))
    BY <1>2
  <2>2. PICK l : Digitwise(l, XShown, Len(XShown), Magnitude(ReadBack(XShown)))
    BY <1>3
  <2> QED
    BY <2>1, <2>2, OneWorth
<1>5. XBox.sign = 0 => Magnitude(ReadBack(XShown)) = 0
  BY <1>1, <1>4, SignIs
<1>6. /\ Whole(Mk(XBox.sign, ReadBack(XShown)))
      /\ IntegerValue(Mk(XBox.sign, ReadBack(XShown))) = XBox.sign * Magnitude(ReadBack(XShown))
  BY <1>1, <1>3, <1>5, MkIs
<1>7. IntegerValue(XBox) = XBox.sign * Magnitude(XBox.limbs)
  BY DEF IntegerValue
<1>8. Mk(XBox.sign, ReadBack(XShown)) = XBox
  BY <1>1, <1>4, <1>6, <1>7, OneInteger
<1> QED
  BY <1>2, <1>8

\* Operands of two limbs divide as machine numbers (lines 380-397).
SmallQuotient == Abs(Small(XBox)) \div Abs(Small(YBox))
SmallRemainder == Abs(Small(XBox)) - SmallQuotient * Abs(Small(YBox))

\* The native quotient and remainder divide.
LEMMA SmallDividesAs ==
    ASSUME x \in Int, y \in Int, y # 0, IsSmall(XBox), IsSmall(YBox)
    PROVE  DividesAs(Box(XBox.sign * YBox.sign * SmallQuotient), Box(XBox.sign * SmallRemainder),
                     SmallQuotient, SmallRemainder)
<1>1. Whole(XBox) /\ IntegerValue(XBox) = x /\ XBox.sign = Sign(x) /\ XBox.sign \in {-1, 0, 1}
  BY XIs
<1>2. Whole(YBox) /\ IntegerValue(YBox) = y /\ YBox.sign = Sign(y) /\ YBox.sign \in {-1, 0, 1}
  BY YIs
<1>3. Small(XBox) = x /\ Small(YBox) = y
  BY <1>1, <1>2, SmallIs
<1>4. Abs(x) \in Nat /\ Abs(y) \in Nat /\ Abs(y) # 0
  BY SignIs
<1>5. PICK a, b, m, r : /\ a = Abs(x) /\ b = Abs(y) /\ m = SmallQuotient /\ r = SmallRemainder
  OBVIOUS
<1>6. a \in Nat /\ a \in Int /\ b \in Nat \ {0} /\ m = a \div b /\ r = a - m * b
  BY <1>3, <1>4, <1>5 DEF SmallQuotient, SmallRemainder
<1>7. PICK k \in Int, e \in 0..(b - 1) : k = a \div b /\ e = a % b /\ a = b * k + e
  BY <1>6, DivMod
<1>8. a \div b \in Nat
  BY <1>6, DivRange
<1>9. m \in Nat /\ r \in Nat /\ a = b * m + r /\ r < b
  <2>1. m = k /\ k \in Nat
    BY <1>6, <1>7, <1>8, Zenon
  <2>2. PICK t : t = b * k
    OBVIOUS
  <2>3. t \in Int /\ m * b = t
    BY <1>6, <2>1, <2>2
  <2>4. r = a - t /\ a = t + e
    BY <1>6, <1>7, <2>2, <2>3, Zenon
  <2>5. r = e
    BY <1>6, <2>3, <2>4
  <2> QED
    BY <1>6, <1>7, <2>1, <2>5
<1>10. PICK s \in {-1, 0, 1}, z \in {-1, 0, 1} : s = XBox.sign /\ z = YBox.sign
  BY <1>1, <1>2
<1>11. s * z * m \in Int /\ s * r \in Int
  BY <1>9
<1>12. /\ Whole(Box(s * z * m)) /\ IntegerValue(Box(s * z * m)) = s * z * m
       /\ Whole(Box(s * r)) /\ IntegerValue(Box(s * r)) = s * r
  BY <1>11, BoxIs
<1>13. s = Sign(x) /\ z = Sign(y)
  BY <1>1, <1>2, <1>10
<1>14. DividesAs(Box(s * z * m), Box(s * r), m, r)
  BY <1>5, <1>9, <1>12, <1>13, Zenon DEF DividesAs
<1> QED
  BY <1>5, <1>10, <1>14, Zenon

\* A divisor of one limb divides limb by limb (lines 104-113).
LEMMA OneLimbIs ==
    ASSUME NEW m \in LimbSeq, Len(m) = 1
    PROVE  Magnitude(m) = m[1] /\ m[1] \in 0..(Base - 1)
<1>1. m \in Seq(Int) /\ m[1] \in 0..(Base - 1) /\ m[1] \in Int
  BY LimbSeqIs
<1>2. ValuesFrom(m)[Len(m) + 1] = 0 /\ \A i \in 1..Len(m) : ValuesFrom(m)[i] = m[i] + Base * ValuesFrom(m)[i + 1]
  BY <1>1, ValuesFromIs
<1>3. ValuesFrom(m)[2] = 0 /\ ValuesFrom(m)[1] = m[1] + Base * ValuesFrom(m)[2]
  BY <1>2
<1>4. ValuesFrom(m)[1] = m[1]
  BY <1>1, <1>3, BaseIs
<1> QED
  BY <1>1, <1>4 DEF Magnitude

OneLimbRest(short) == IF short.rem = 0 THEN <<>> ELSE <<short.rem>>

\* Short division divides, and its remainder is a limb.
LEMMA OneLimbDividesAs ==
    ASSUME x \in Int, y \in Int, y # 0, Len(YBox.limbs) = 1
    PROVE  /\ YBox.limbs[1] \in Nat \ {0}
           /\ \A short \in {ShortDiv(XBox.limbs, YBox.limbs[1])} :
                 \E m, r : DividesAs(Mk(XBox.sign * YBox.sign, Trim(short.quot)),
                                     Mk(XBox.sign, OneLimbRest(short)), m, r)
<1>1. XBox.limbs \in LimbSeq /\ Magnitude(XBox.limbs) = Abs(x)
  BY XIs
<1>2. YBox.limbs \in LimbSeq /\ Magnitude(YBox.limbs) = Abs(y)
  BY YIs
<1>3. Abs(x) \in Nat /\ Abs(y) \in Nat /\ Abs(y) # 0
  BY SignIs
<1>4. Magnitude(YBox.limbs) = YBox.limbs[1] /\ YBox.limbs[1] \in 0..(Base - 1)
  BY <1>2, OneLimbIs
<1>5. YBox.limbs[1] \in Nat \ {0} /\ YBox.limbs[1] = Abs(y) /\ YBox.limbs[1] < Base
  BY <1>2, <1>3, <1>4, BaseIs
<1>6. ASSUME NEW short \in {ShortDiv(XBox.limbs, YBox.limbs[1])}
      PROVE  \E m, r : DividesAs(Mk(XBox.sign * YBox.sign, Trim(short.quot)),
                                 Mk(XBox.sign, OneLimbRest(short)), m, r)
  <2>1. PICK by \in Nat \ {0} : by = YBox.limbs[1]
    BY <1>5
  <2>2. /\ ShortDiv(XBox.limbs, by).quot \in LimbSeq
        /\ ShortDiv(XBox.limbs, by).rem \in 0..(by - 1)
        /\ Magnitude(XBox.limbs) = by * Magnitude(ShortDiv(XBox.limbs, by).quot)
                                      + ShortDiv(XBox.limbs, by).rem
    BY <1>1, ShortDivIs
  <2>3. /\ short.quot \in LimbSeq /\ short.rem \in 0..(by - 1)
        /\ Abs(x) = by * Magnitude(short.quot) + short.rem
    BY <1>1, <2>1, <2>2, Zenon
  <2>4. by = Abs(y) /\ by < Base
    BY <1>5, <2>1
  <2>5. Trim(short.quot) \in LimbSeq /\ Magnitude(Trim(short.quot)) = Magnitude(short.quot)
    BY <2>3, TrimIs
  <2>6. OneLimbRest(short) \in LimbSeq /\ Magnitude(OneLimbRest(short)) = short.rem
    <3>1. CASE short.rem = 0
      BY <3>1, NoLimbs DEF OneLimbRest
    <3>2. CASE short.rem # 0
      <4>1. PICK l : l = short.rem
        OBVIOUS
      <4>2. l \in 0..(Base - 1) /\ l \in Int
        BY <2>3, <2>4, <4>1, BaseIs
      <4>3. <<l>> \in LimbSeq /\ Len(<<l>>) = 1 /\ <<l>>[1] = l
        BY <4>2 DEF LimbSeq
      <4>4. Magnitude(<<l>>) = <<l>>[1]
        BY <4>3, OneLimbIs
      <4>5. OneLimbRest(short) = <<l>>
        BY <3>2, <4>1 DEF OneLimbRest
      <4> QED
        BY <4>1, <4>3, <4>4, <4>5
    <3> QED
      BY <3>1, <3>2
  <2>7. PICK qm \in LimbSeq, rm \in LimbSeq : qm = Trim(short.quot) /\ rm = OneLimbRest(short)
    BY <2>5, <2>6
  <2>8. Magnitude(rm) < Abs(y) /\ Abs(x) = Abs(y) * Magnitude(qm) + Magnitude(rm)
    <3>1. short.rem < by
      BY <2>3
    <3> QED
      BY <2>3, <2>4, <2>5, <2>6, <2>7, <3>1, Zenon
  <2>9. DividesAs(Mk(XBox.sign * YBox.sign, qm), Mk(XBox.sign, rm), Magnitude(qm), Magnitude(rm))
    BY <2>8, DividedAs
  <2> QED
    BY <2>7, <2>9
<1> QED
  BY <1>5, <1>6

\* A dividend below the divisor is its own remainder.
LEMMA ShorterDividesAs ==
    ASSUME x \in Int, y \in Int, y # 0, CompareMagnitudes(XBox.limbs, YBox.limbs) < 0
    PROVE  \E m, r : DividesAs(Mk(XBox.sign * YBox.sign, <<>>), Mk(XBox.sign, XBox.limbs), m, r)
<1>1. XBox.limbs \in LimbSeq /\ Trimmed(XBox.limbs) /\ Magnitude(XBox.limbs) = Abs(x)
  BY XIs
<1>2. YBox.limbs \in LimbSeq /\ Trimmed(YBox.limbs) /\ Magnitude(YBox.limbs) = Abs(y)
  BY YIs
<1>3. Abs(x) \in Nat /\ Abs(y) \in Nat /\ Abs(x) - Abs(y) \in Int
  BY SignIs
<1>4. Sign(Abs(x) - Abs(y)) < 0
  <2>1. CompareMagnitudes(XBox.limbs, YBox.limbs) = Sign(Magnitude(XBox.limbs) - Magnitude(YBox.limbs))
    BY <1>1, <1>2, CompareIs
  <2> QED
    BY <1>1, <1>2, <2>1
<1>5. Abs(x) < Abs(y)
  BY <1>3, <1>4 DEF Sign
<1>6. <<>> \in LimbSeq /\ Magnitude(<<>>) = 0
  BY NoLimbs
<1>7. Magnitude(XBox.limbs) < Abs(y) /\ Abs(x) = Abs(y) * Magnitude(<<>>) + Magnitude(XBox.limbs)
  <2>1. Abs(x) = Abs(y) * 0 + Abs(x)
    BY <1>3
  <2> QED
    BY <1>1, <1>5, <1>6, <2>1, Zenon
<1>8. PICK qm \in LimbSeq, rm \in LimbSeq : qm = <<>> /\ rm = XBox.limbs
  BY <1>1, <1>6
<1>9. Magnitude(rm) < Abs(y) /\ Abs(x) = Abs(y) * Magnitude(qm) + Magnitude(rm)
  BY <1>7, <1>8, Zenon
<1>10. DividesAs(Mk(XBox.sign * YBox.sign, qm), Mk(XBox.sign, rm), Magnitude(qm), Magnitude(rm))
  BY <1>9, DividedAs
<1> QED
  BY <1>8, <1>10

\* What a finished loop leaves, scaled back, is the quotient and the
\* remainder (lines 120-170).
Unscaled(w, vv, f) == Trim(ShortDiv(SubSeq(w, 1, Len(vv)), f).quot)

\* The finished loop divides.
LEMMA LoopDividesAs ==
    ASSUME x \in Int, y \in Int, y # 0,
           NEW s, NEW w, NEW vv, NEW qq, NEW f,
           LoopAt(s, w, vv, -1, qq), ScaledAs(s, vv, Abs(x), Abs(y), f)
    PROVE  \E m, r : DividesAs(Mk(XBox.sign * YBox.sign, Trim(qq)),
                               Mk(XBox.sign, Unscaled(w, vv, f)), m, r)
<1>1. PICK M, D : M = Abs(x) /\ D = Abs(y)
  OBVIOUS
<1>2. LoopAt(s, w, vv, -1, qq) /\ ScaledAs(s, vv, M, D, f)
  BY <1>1, Zenon
<1>3. PICK R : R = ShortDiv(SubSeq(w, 1, Len(vv)), f).quot
  OBVIOUS
<1>4. R \in LimbSeq /\ Magnitude(R) < D /\ M = D * Magnitude(qq) + Magnitude(R)
  <2>1. /\ ShortDiv(SubSeq(w, 1, Len(vv)), f).quot \in LimbSeq
        /\ Magnitude(ShortDiv(SubSeq(w, 1, Len(vv)), f).quot) < D
        /\ M = D * Magnitude(qq) + Magnitude(ShortDiv(SubSeq(w, 1, Len(vv)), f).quot)
    BY <1>2, DenormalizedIs
  <2> QED
    BY <1>3, <2>1, Zenon
<1>5. qq \in LimbSeq
  BY <1>2 DEF LoopAt
<1>6. Trim(qq) \in LimbSeq /\ Magnitude(Trim(qq)) = Magnitude(qq)
  BY <1>5, TrimIs
<1>7. Trim(R) \in LimbSeq /\ Magnitude(Trim(R)) = Magnitude(R) /\ Trim(R) = Unscaled(w, vv, f)
  <2>1. Trim(R) \in LimbSeq /\ Magnitude(Trim(R)) = Magnitude(R)
    BY <1>4, TrimIs
  <2> QED
    BY <1>3, <2>1, Zenon DEF Unscaled
<1>8. PICK qm \in LimbSeq, rm \in LimbSeq : qm = Trim(qq) /\ rm = Trim(R)
  BY <1>6, <1>7
<1>9. Magnitude(rm) < Abs(y) /\ Abs(x) = Abs(y) * Magnitude(qm) + Magnitude(rm)
  BY <1>1, <1>4, <1>6, <1>7, <1>8, Zenon
<1>10. DividesAs(Mk(XBox.sign * YBox.sign, qm), Mk(XBox.sign, rm), Magnitude(qm), Magnitude(rm))
  BY <1>9, DividedAs
<1> QED
  BY <1>7, <1>8, <1>10, Zenon

(***************************************************************************)
(* The inductive invariant: the types; while a long division runs, the     *)
(* scaled operands, the loop's equation, the estimate's window and the     *)
(* borrow that an add-back repairs; and, once done, the value itself.      *)
(***************************************************************************)
SingleExact(r, k) == \E a : r = <<a>> /\ Whole(a) /\ IntegerValue(a) = k

Exact(r) ==
    /\ op = "add" => SingleExact(r, x + y)
    /\ op = "sub" => SingleExact(r, x - y)
    /\ op = "mul" => SingleExact(r, x * y)
    /\ op \in {"quotRem", "divMod"} => QuotientExact(r)
    /\ op = "compare" => r = <<Sign(x - y)>>
    /\ op = "lift" => SingleExact(r, x) /\ ToInt(r[1]) = x
    /\ op = "narrow" => r = <<Wrap(x)>>
    /\ op = "show" => r = <<XShown>>

Dividing ==
    /\ op \in {"quotRem", "divMod"} /\ y # 0
    /\ ScaledAs(Append(Scaled, 0), v, Abs(x), Abs(y), d)
    /\ Magnitude(Scaled) = Abs(x) * d

DivisionLoop ==
    /\ phase = "start" => q = <<>>
    /\ phase \in {"estimate", "correct", "addback"} => Dividing
    /\ phase = "estimate" => LoopAt(Append(Scaled, 0), u, v, j, q)
    /\ phase = "correct" => /\ j >= 0 /\ LoopAt(Append(Scaled, 0), u, v, j, q)
                            /\ EstimateAt(u, v, j, qhat, rhat)
    /\ phase = "addback" => BackAt(Append(Scaled, 0), u, v, j, q, qhat)

IntInv ==
    /\ IntTypeOK
    /\ op = "lift" => x \in Ints
    /\ DivisionLoop
    /\ phase = "done" => Exact(result)

\* The operands do not change, nor what is derived from them.
LEMMA InputSame ==
    ASSUME UNCHANGED input
    PROVE  /\ XBox' = XBox /\ YBox' = YBox /\ Scaled' = Scaled /\ XShown' = XShown
           /\ Truncated' = Truncated /\ Floored' = Floored
<1>1. op' = op /\ x' = x /\ y' = y
  BY DEF input
<1>2. XBox' = XBox /\ YBox' = YBox
  BY <1>1 DEF XBox, YBox
<1>3. Scaled' = Scaled /\ XShown' = XShown
  BY <1>2 DEF Scaled, XShown
<1>4. Truncated' = Truncated /\ Floored' = Floored
  BY <1>1 DEF Truncated, Floored
<1> QED
  BY <1>2, <1>3, <1>4

\* An exact result stays exact while the operands do not change.
LEMMA ExactSame ==
    ASSUME UNCHANGED input, Exact(result')
    PROVE  Exact(result)'
<1>1. op' = op /\ x' = x /\ y' = y
  BY DEF input
<1>2. XShown' = XShown /\ Truncated' = Truncated /\ Floored' = Floored
  BY InputSame
<1>3. ASSUME op \in {"quotRem", "divMod"}
      PROVE  QuotientExact(result)'
  <2>1. QuotientExact(result')
    BY <1>3 DEF Exact
  <2> QED
    BY <1>1, <1>2, <2>1 DEF QuotientExact
<1> QED
  BY <1>1, <1>2, <1>3 DEF Exact

\* The invariant holds at the start.
LEMMA InitInv == IntInit => IntInv
<1> SUFFICES ASSUME IntInit
             PROVE  IntInv
  OBVIOUS
<1>1. op \in Unary \cup Binary /\ x \in Int /\ y \in Int /\ (op = "lift" => x \in Ints)
  <2>1. Dividends \subseteq Int /\ Operands \subseteq Int
    BY BigIntegersAssumption DEF BigIntegersAssumption
  <2>2. CASE op \in Binary /\ x \in Dividends /\ y \in Operands
    BY <2>1, <2>2 DEF Unary, Binary
  <2>3. CASE op \in Unary /\ x \in (IF op = "lift" THEN Ints ELSE Dividends) /\ y = 0
    <3>1. CASE op = "lift"
      <4>1. x \in Ints
        BY <2>3, <3>1
      <4>2. x \in Int
        BY <4>1, WrapKeeps
      <4> QED
        BY <2>3, <4>1, <4>2
    <3>2. CASE op # "lift"
      <4>1. x \in Dividends
        BY <2>3, <3>2
      <4> QED
        BY <2>1, <2>3, <3>2, <4>1
    <3> QED
      BY <3>1, <3>2
  <2> QED
    BY <2>2, <2>3 DEF IntInit
<1>2. phase = "start" /\ u = <<>> /\ v = <<>> /\ d = 1 /\ j = 0 /\ qhat = 0 /\ rhat = 0 /\ q = <<>>
  BY DEF IntInit
<1>3. Limbs(u) /\ Limbs(v) /\ Limbs(q)
  BY <1>2 DEF Limbs
<1>4. d \in 1..(Base - 1) /\ j \in Int /\ qhat \in Nat /\ rhat \in Nat
  BY <1>2, BaseIs
<1>5. IntTypeOK
  BY <1>1, <1>2, <1>3, <1>4 DEF IntTypeOK, Limbs
<1> QED
  BY <1>1, <1>2, <1>5 DEF IntInv, DivisionLoop

\* A step that finishes with an exact result keeps the invariant.
LEMMA FinishKeeps ==
    ASSUME IntInv, phase \in {"start", "estimate"}, NEW r, Finish(r), Exact(r)
    PROVE  IntInv'
<1>1. /\ phase' = "done" /\ result' = r /\ op' = op /\ x' = x /\ y' = y /\ u' = u
      /\ v' = v /\ d' = d /\ j' = j /\ q' = q /\ qhat' = qhat /\ rhat' = rhat
      /\ UNCHANGED input
  BY DEF Finish, window, input
<1>2. IntTypeOK'
  BY <1>1 DEF IntInv, IntTypeOK, Limbs
<1>3. Exact(result)'
  <2>1. Exact(result')
    BY <1>1
  <2> QED
    BY <1>1, <2>1, ExactSame
<1>4. (op = "lift" => x \in Ints)'
  BY <1>1 DEF IntInv, Ints
<1>5. DivisionLoop'
  BY <1>1 DEF DivisionLoop
<1> QED
  BY <1>2, <1>3, <1>4, <1>5 DEF IntInv

\* Each operation of one step is exact.
LEMMA SimpleExact ==
    ASSUME IntInv, NEW r,
           \/ op = "add" /\ r = <<Add(XBox, YBox)>>
           \/ op = "sub" /\ r = <<Sub(XBox, YBox)>>
           \/ op = "mul" /\ r = <<Mul(XBox, YBox)>>
           \/ op = "compare" /\ r = <<Cmp(XBox, YBox)>>
           \/ op = "show" /\ r = <<XShown>>
           \/ op = "narrow" /\ r = <<ToInt(XBox)>>
           \/ op = "lift" /\ r = <<FromInt(x)>>
    PROVE  Exact(r)
<1>1. x \in Int /\ y \in Int /\ (op = "lift" => x \in Ints)
  BY DEF IntInv, IntTypeOK
<1>2. Whole(XBox) /\ IntegerValue(XBox) = x
  BY <1>1, XIs
<1>3. Whole(YBox) /\ IntegerValue(YBox) = y
  BY <1>1, YIs
<1>4. ASSUME NEW a, NEW k, Whole(a), IntegerValue(a) = k
      PROVE  SingleExact(<<a>>, k)
  BY <1>4 DEF SingleExact
<1>5. CASE op = "add" /\ r = <<Add(XBox, YBox)>>
  <2>1. Whole(Add(XBox, YBox)) /\ IntegerValue(Add(XBox, YBox)) = x + y
    BY <1>2, <1>3, AddIs
  <2>2. SingleExact(r, x + y)
    BY <1>4, <1>5, <2>1
  <2> QED
    BY <1>5, <2>2 DEF Exact
<1>6. CASE op = "sub" /\ r = <<Sub(XBox, YBox)>>
  <2>1. Whole(Sub(XBox, YBox)) /\ IntegerValue(Sub(XBox, YBox)) = x - y
    BY <1>2, <1>3, SubIs
  <2>2. SingleExact(r, x - y)
    BY <1>4, <1>6, <2>1
  <2> QED
    BY <1>6, <2>2 DEF Exact
<1>7. CASE op = "mul" /\ r = <<Mul(XBox, YBox)>>
  <2>1. Whole(Mul(XBox, YBox)) /\ IntegerValue(Mul(XBox, YBox)) = x * y
    BY <1>2, <1>3, MulIs
  <2>2. SingleExact(r, x * y)
    BY <1>4, <1>7, <2>1
  <2> QED
    BY <1>7, <2>2 DEF Exact
<1>8. CASE op = "compare" /\ r = <<Cmp(XBox, YBox)>>
  <2>1. Cmp(XBox, YBox) = Sign(x - y)
    BY <1>2, <1>3, CmpIs
  <2> QED
    BY <1>8, <2>1 DEF Exact
<1>9. CASE op = "show" /\ r = <<XShown>>
  BY <1>9 DEF Exact
<1>10. CASE op = "narrow" /\ r = <<ToInt(XBox)>>
  <2>1. ToInt(XBox) = Wrap(x)
    BY <1>2, ToIntIs
  <2> QED
    BY <1>10, <2>1 DEF Exact
<1>11. CASE op = "lift" /\ r = <<FromInt(x)>>
  <2>1. x \in Ints
    BY <1>1, <1>11
  <2>2. Whole(FromInt(x)) /\ IntegerValue(FromInt(x)) = x
    BY <2>1, FromIntIs
  <2>3. ToInt(FromInt(x)) = Wrap(x) /\ Wrap(x) = x
    BY <2>1, <2>2, ToIntIs, WrapKeeps
  <2>4. SingleExact(r, x) /\ r[1] = FromInt(x)
    BY <1>4, <1>11, <2>2
  <2> QED
    BY <1>11, <2>3, <2>4 DEF Exact
<1> QED
  BY <1>5, <1>6, <1>7, <1>8, <1>9, <1>10, <1>11

\* The operations of one step keep the invariant.
LEMMA SimpleKeeps ==
    ASSUME IntInv, Simple
    PROVE  IntInv'
<1>1. phase = "start"
  BY DEF Simple
<1>2. PICK r : /\ Finish(r)
               /\ \/ op = "add" /\ r = <<Add(XBox, YBox)>>
                  \/ op = "sub" /\ r = <<Sub(XBox, YBox)>>
                  \/ op = "mul" /\ r = <<Mul(XBox, YBox)>>
                  \/ op = "compare" /\ r = <<Cmp(XBox, YBox)>>
                  \/ op = "show" /\ r = <<XShown>>
                  \/ op = "narrow" /\ r = <<ToInt(XBox)>>
                  \/ op = "lift" /\ r = <<FromInt(x)>>
  BY DEF Simple, XShown
<1>3. Exact(r)
  BY <1>2, SimpleExact
<1> QED
  BY <1>1, <1>2, <1>3, FinishKeeps

\* A division that finishes with its quotient and remainder.
LEMMA DivisionKeeps ==
    ASSUME IntInv, op \in {"quotRem", "divMod"}, y # 0, phase \in {"start", "estimate"},
           NEW a, NEW b, \E m, r : DividesAs(a, b, m, r),
           Finish(Quotient(<<a, b>>))
    PROVE  IntInv'
<1>1. x \in Int /\ y \in Int
  BY DEF IntInv, IntTypeOK
<1>2. PICK m, r : DividesAs(a, b, m, r)
  OBVIOUS
<1>3. QuotientExact(Quotient(<<a, b>>))
  BY <1>1, <1>2, QuotientIs
<1>4. Exact(Quotient(<<a, b>>))
  BY <1>3 DEF Exact
<1> QED
  BY <1>4, FinishKeeps

\* A native division keeps the invariant.
LEMMA SmallDivisionKeeps ==
    ASSUME IntInv, SmallDivision
    PROVE  IntInv'
<1>1. /\ x \in Int /\ y \in Int /\ y # 0 /\ IsSmall(XBox) /\ IsSmall(YBox)
      /\ op \in {"quotRem", "divMod"} /\ phase = "start"
  BY DEF IntInv, IntTypeOK, SmallDivision, Division
<1>2. Finish(Quotient(<<Box(XBox.sign * YBox.sign * SmallQuotient), Box(XBox.sign * SmallRemainder)>>))
  BY DEF SmallDivision, SmallQuotient, SmallRemainder
<1>3. DividesAs(Box(XBox.sign * YBox.sign * SmallQuotient), Box(XBox.sign * SmallRemainder),
                SmallQuotient, SmallRemainder)
  BY <1>1, SmallDividesAs
<1> QED
  BY <1>1, <1>2, <1>3, DivisionKeeps

\* A dividend below the divisor keeps the invariant.
LEMMA ShorterDividendKeeps ==
    ASSUME IntInv, ShorterDividend
    PROVE  IntInv'
<1>1. /\ x \in Int /\ y \in Int /\ y # 0 /\ CompareMagnitudes(XBox.limbs, YBox.limbs) < 0
      /\ op \in {"quotRem", "divMod"} /\ phase = "start"
  BY DEF IntInv, IntTypeOK, ShorterDividend, Long, Division
<1>2. Finish(Quotient(<<Mk(XBox.sign * YBox.sign, <<>>), Mk(XBox.sign, XBox.limbs)>>))
  BY DEF ShorterDividend, Divided
<1>3. \E m, r : DividesAs(Mk(XBox.sign * YBox.sign, <<>>), Mk(XBox.sign, XBox.limbs), m, r)
  BY <1>1, ShorterDividesAs
<1> QED
  BY <1>1, <1>2, <1>3, DivisionKeeps

\* A short division keeps the invariant.
LEMMA OneLimbDivisorKeeps ==
    ASSUME IntInv, OneLimbDivisor
    PROVE  IntInv'
<1>1. /\ x \in Int /\ y \in Int /\ y # 0 /\ Len(YBox.limbs) = 1
      /\ op \in {"quotRem", "divMod"} /\ phase = "start"
  BY DEF IntInv, IntTypeOK, OneLimbDivisor, Long, Division
<1>2. PICK short \in {ShortDiv(XBox.limbs, YBox.limbs[1])} : TRUE
  OBVIOUS
<1>3. Finish(Quotient(<<Mk(XBox.sign * YBox.sign, Trim(short.quot)), Mk(XBox.sign, OneLimbRest(short))>>))
  BY <1>2 DEF OneLimbDivisor, Divided, OneLimbRest
<1>4. \E m, r : DividesAs(Mk(XBox.sign * YBox.sign, Trim(short.quot)),
                          Mk(XBox.sign, OneLimbRest(short)), m, r)
  BY <1>1, <1>2, OneLimbDividesAs
<1> QED
  BY <1>1, <1>3, <1>4, DivisionKeeps

\* Scaling the remainder back keeps the invariant.
LEMMA DenormalizeKeeps ==
    ASSUME IntInv, Denormalize
    PROVE  IntInv'
<1>1. /\ x \in Int /\ y \in Int /\ phase = "estimate" /\ j < 0
      /\ Dividing /\ LoopAt(Append(Scaled, 0), u, v, j, q)
  BY DEF IntInv, IntTypeOK, DivisionLoop, Denormalize
<1>2. op \in {"quotRem", "divMod"} /\ y # 0 /\ ScaledAs(Append(Scaled, 0), v, Abs(x), Abs(y), d)
  BY <1>1 DEF Dividing
<1>3. j = -1
  <2>1. j \in Int /\ j >= -1
    BY <1>1 DEF LoopAt
  <2> QED
    BY <1>1, <2>1
<1>4. LoopAt(Append(Scaled, 0), u, v, -1, q)
  BY <1>1, <1>3, Zenon
<1>5. \E m, r : DividesAs(Mk(XBox.sign * YBox.sign, Trim(q)), Mk(XBox.sign, Unscaled(u, v, d)), m, r)
  BY <1>1, <1>2, <1>4, LoopDividesAs
<1>6. Finish(Quotient(<<Mk(XBox.sign * YBox.sign, Trim(q)), Mk(XBox.sign, Unscaled(u, v, d))>>))
  BY DEF Denormalize, Divided, Unscaled
<1> QED
  BY <1>1, <1>2, <1>5, <1>6, DivisionKeeps

\* An error keeps the invariant.
LEMMA DivideByZeroKeeps ==
    ASSUME IntInv, DivideByZero
    PROVE  IntInv'
<1>1. /\ phase = "start" /\ phase' = "error" /\ result' = result /\ op' = op /\ x' = x /\ y' = y
      /\ u' = u /\ v' = v /\ d' = d /\ j' = j /\ q' = q /\ qhat' = qhat /\ rhat' = rhat
  BY DEF DivideByZero, Division, window, input
<1>2. IntTypeOK'
  BY <1>1 DEF IntInv, IntTypeOK, Limbs
<1>3. (op = "lift" => x \in Ints)'
  BY <1>1 DEF IntInv, Ints
<1>4. DivisionLoop'
  BY <1>1 DEF DivisionLoop
<1> QED
  BY <1>1, <1>2, <1>3, <1>4 DEF IntInv

\* What the loop works on is limbs.
LEMMA LoopTyped ==
    ASSUME NEW s, NEW w, NEW vv, NEW k, NEW qq, LoopAt(s, w, vv, k, qq)
    PROVE  Limbs(w) /\ Limbs(vv) /\ Limbs(qq) /\ k \in Int
<1>1. w \in LimbSeq /\ vv \in LimbSeq /\ qq \in LimbSeq /\ k \in Int
  BY DEF LoopAt
<1> QED
  BY <1>1, LimbSeqIs DEF Limbs

\* Before an add-back, all but the window's top is limbs.
LEMMA BackTyped ==
    ASSUME NEW s, NEW w, NEW vv, NEW k, NEW qq, NEW e, BackAt(s, w, vv, k, qq, e)
    PROVE  /\ \A i \in DOMAIN w : w[i] \in 0..(Base - 1) \/ i = k + Len(vv) + 1
           /\ Limbs(vv) /\ Limbs(qq) /\ k \in Int
<1>1. /\ w \in Seq(Int) /\ vv \in LimbSeq /\ qq \in LimbSeq /\ k \in Nat
      /\ \A i \in 1..Len(w) : w[i] \in 0..(Base - 1) \/ i = k + Len(vv) + 1
  BY DEF BackAt
<1>2. DOMAIN w = 1..Len(w)
  BY <1>1
<1>3. Limbs(vv) /\ Limbs(qq)
  BY <1>1, LimbSeqIs DEF Limbs
<1> QED
  BY <1>1, <1>2, <1>3

\* What the scaling of lines 119-121 makes of the operands.
LEMMA OperandsScaled ==
    ASSUME x \in Int, y \in Int, Len(YBox.limbs) > 1,
           CompareMagnitudes(XBox.limbs, YBox.limbs) >= 0
    PROVE  /\ Scale(YBox.limbs) \in 1..(Base - 1)
           /\ LoopAt(Append(Scaled, 0), Widened(XBox.limbs, Scaled), MulLimb(YBox.limbs, Scale(YBox.limbs)),
                     Len(XBox.limbs) - Len(YBox.limbs), <<>>)
           /\ ScaledAs(Append(Scaled, 0), MulLimb(YBox.limbs, Scale(YBox.limbs)),
                       Abs(x), Abs(y), Scale(YBox.limbs))
           /\ Magnitude(Scaled) = Abs(x) * Scale(YBox.limbs)
<1>1. XBox.limbs \in LimbSeq /\ Trimmed(XBox.limbs) /\ Magnitude(XBox.limbs) = Abs(x) /\ Abs(x) \in Nat
  BY XIs
<1>2. YBox.limbs \in LimbSeq /\ Trimmed(YBox.limbs) /\ Magnitude(YBox.limbs) = Abs(y) /\ Abs(y) \in Nat
  BY YIs
<1>3. PICK a \in LimbSeq, b \in LimbSeq : a = XBox.limbs /\ b = YBox.limbs
  BY <1>1, <1>2
<1>4. Len(b) >= 2 /\ b[Len(b)] # 0
  <2>1. Len(b) \in Nat /\ Len(b) > 1
    BY <1>3, LimbSeqIs
  <2>2. b # <<>>
    BY <2>1
  <2> QED
    BY <1>2, <1>3, <2>1, <2>2 DEF Trimmed
<1>5. Len(b) <= Len(a)
  <2>1. CompareMagnitudes(a, b) = Sign(Magnitude(a) - Magnitude(b)) /\ Trimmed(a) /\ Trimmed(b)
    BY <1>1, <1>2, <1>3, CompareIs
  <2>2. Sign(Magnitude(a) - Magnitude(b)) >= 0
    BY <1>3, <2>1
  <2>3. Magnitude(a) \in Nat /\ Magnitude(b) \in Nat
    BY WorthBelow
  <2>4. Magnitude(b) <= Magnitude(a)
    BY <2>2, <2>3 DEF Sign
  <2> QED
    BY <2>1, <2>4, NotShorter
<1>6. PICK f : f = Scale(b)
  OBVIOUS
<1>7. f \in 1..(Base - 1) /\ MulLimb(b, f) \in LimbSeq /\ Magnitude(MulLimb(b, f)) = Magnitude(b) * f
  <2>1. /\ Scale(b) \in 1..(Base - 1)
        /\ MulLimb(b, Scale(b)) \in LimbSeq
        /\ Magnitude(MulLimb(b, Scale(b))) = Magnitude(b) * Scale(b)
    BY <1>4, ScaleIs
  <2> QED
    BY <1>6, <2>1, Zenon
<1>8. MulLimb(a, f) \in LimbSeq /\ Magnitude(MulLimb(a, f)) = Magnitude(a) * f
  BY <1>7, MulLimbIs
<1>9. MulLimb(a, f) = Scaled
  BY <1>3, <1>6, Zenon DEF Scaled
<1>10. LoopAt(Append(MulLimb(a, Scale(b)), 0), Widened(a, MulLimb(a, Scale(b))),
              MulLimb(b, Scale(b)), Len(a) - Len(b), <<>>)
  BY <1>4, <1>5, NormalizedIs
<1>11. LoopAt(Append(Scaled, 0), Widened(a, Scaled), MulLimb(b, f), Len(a) - Len(b), <<>>)
  BY <1>6, <1>9, <1>10, Zenon
<1>12. Magnitude(Append(MulLimb(a, f), 0)) = Magnitude(MulLimb(a, f))
  <2>1. 0 \in 0..(Base - 1)
    BY BaseIs
  <2>2. Magnitude(Append(MulLimb(a, f), 0)) = Magnitude(MulLimb(a, f)) + Power(Base, Len(MulLimb(a, f))) * 0
    BY <1>8, <2>1, Appended
  <2>3. Magnitude(MulLimb(a, f)) \in Nat /\ Power(Base, Len(MulLimb(a, f))) \in Nat
    BY <1>8, WorthBelow, PowerIs, BaseIs, LimbSeqIs
  <2> QED
    BY <2>2, <2>3
<1>13. f \in Nat \ {0}
  BY <1>7, BaseIs
<1>14. Magnitude(Append(Scaled, 0)) = Abs(x) * f /\ Magnitude(MulLimb(b, f)) = Abs(y) * f
  <2>1. Magnitude(a) = Abs(x) /\ Magnitude(b) = Abs(y)
    BY <1>1, <1>2, <1>3
  <2> QED
    BY <1>7, <1>8, <1>9, <1>12, <2>1, Zenon
<1>15. ScaledAs(Append(Scaled, 0), MulLimb(b, f), Abs(x), Abs(y), f)
  BY <1>1, <1>2, <1>13, <1>14 DEF ScaledAs
<1>16. Magnitude(Scaled) = Abs(x) * f
  BY <1>1, <1>3, <1>8, <1>9, Zenon
<1> QED
  BY <1>3, <1>6, <1>7, <1>11, <1>15, <1>16, Zenon

\* Scaling the operands enters the loop.
LEMMA NormalizeKeeps ==
    ASSUME IntInv, Normalize
    PROVE  IntInv'
<1>1. /\ x \in Int /\ y \in Int /\ y # 0 /\ phase = "start" /\ op \in {"quotRem", "divMod"}
      /\ CompareMagnitudes(XBox.limbs, YBox.limbs) >= 0 /\ Len(YBox.limbs) > 1 /\ q = <<>>
  BY DEF IntInv, IntTypeOK, Normalize, Long, Division, DivisionLoop
<1>2. /\ Scale(YBox.limbs) \in 1..(Base - 1)
      /\ LoopAt(Append(Scaled, 0), Widened(XBox.limbs, Scaled), MulLimb(YBox.limbs, Scale(YBox.limbs)),
                Len(XBox.limbs) - Len(YBox.limbs), <<>>)
      /\ ScaledAs(Append(Scaled, 0), MulLimb(YBox.limbs, Scale(YBox.limbs)),
                  Abs(x), Abs(y), Scale(YBox.limbs))
      /\ Magnitude(Scaled) = Abs(x) * Scale(YBox.limbs)
  BY <1>1, OperandsScaled
<1>3. /\ op' = op /\ x' = x /\ y' = y /\ q' = q /\ qhat' = qhat /\ rhat' = rhat /\ phase' = "estimate"
      /\ d' = Scale(YBox.limbs) /\ u' = Widened(XBox.limbs, Scaled)
      /\ v' = MulLimb(YBox.limbs, Scale(YBox.limbs)) /\ j' = Len(XBox.limbs) - Len(YBox.limbs)
      /\ UNCHANGED input
  BY DEF Normalize, input, Widened
<1>4. Scaled' = Scaled
  BY <1>3, InputSame
<1>5. LoopAt(Append(Scaled, 0), u', v', j', q')
  BY <1>1, <1>2, <1>3, Zenon
<1>6. ScaledAs(Append(Scaled, 0), v', Abs(x), Abs(y), d') /\ Magnitude(Scaled) = Abs(x) * d'
      /\ d' \in 1..(Base - 1)
  BY <1>2, <1>3, Zenon
<1>7. IntTypeOK'
  <2>1. Limbs(u') /\ Limbs(v') /\ Limbs(q') /\ j' \in Int
    BY <1>5, LoopTyped
  <2>2. /\ op \in Unary \cup Binary /\ qhat \in Nat /\ rhat \in Nat
    BY DEF IntInv, IntTypeOK
  <2> QED
    BY <1>1, <1>3, <1>6, <2>1, <2>2 DEF IntTypeOK, Limbs
<1>8. (op = "lift" => x \in Ints)'
  BY <1>3 DEF IntInv, Ints
<1>9. DivisionLoop'
  BY <1>1, <1>3, <1>4, <1>5, <1>6 DEF DivisionLoop, Dividing
<1> QED
  BY <1>3, <1>7, <1>8, <1>9 DEF IntInv

\* A step of the loop that leaves the operands and the divisor alone keeps
\* what holds of them.
LEMMA DividingSame ==
    ASSUME IntInv, Dividing, UNCHANGED <<input, v, d>>
    PROVE  Dividing' /\ Scaled' = Scaled /\ (op = "lift" => x \in Ints)'
<1>1. op' = op /\ x' = x /\ y' = y /\ v' = v /\ d' = d /\ UNCHANGED input
  BY DEF input
<1>2. Scaled' = Scaled
  BY <1>1, InputSame
<1>3. Dividing'
  BY <1>1, <1>2 DEF Dividing
<1>4. (op = "lift" => x \in Ints)'
  BY <1>1 DEF IntInv, Ints
<1> QED
  BY <1>2, <1>3, <1>4

\* The first estimate is not below the limb.
LEMMA EstimateKeeps ==
    ASSUME IntInv, Estimate
    PROVE  IntInv'
<1>1. phase = "estimate" /\ j >= 0 /\ Dividing /\ LoopAt(Append(Scaled, 0), u, v, j, q)
  BY DEF IntInv, DivisionLoop, Estimate
<1>2. EstimateAt(u, v, j, FirstEstimate(u, v, j),
                 TopTwo(u, j + Len(v)) - FirstEstimate(u, v, j) * v[Len(v)])
  BY <1>1, EstimateIs
<1>3. /\ UNCHANGED <<input, v, d>> /\ u' = u /\ v' = v /\ j' = j /\ q' = q /\ d' = d /\ phase' = "correct"
      /\ op' = op /\ x' = x /\ y' = y
  BY DEF Estimate, input, window
<1>4. qhat' = FirstEstimate(u, v, j) /\ rhat' = TopTwo(u, j + Len(v)) - FirstEstimate(u, v, j) * v[Len(v)]
  <2>1. PICK num : num = u[j + Len(v) + 1] * Base + u[j + Len(v)]
    OBVIOUS
  <2>2. PICK e : e = IF num \div v[Len(v)] >= Base THEN Base - 1 ELSE num \div v[Len(v)]
    OBVIOUS
  <2>3. qhat' = e /\ rhat' = num - e * v[Len(v)]
    BY <2>1, <2>2, Zenon DEF Estimate
  <2>4. TopTwo(u, j + Len(v)) = num
    BY <2>1, Zenon DEF TopTwo
  <2>5. FirstEstimate(u, v, j) = e
    BY <2>2, <2>4, Zenon DEF FirstEstimate
  <2> QED
    BY <2>3, <2>4, <2>5, Zenon
<1>5. EstimateAt(u, v, j, qhat', rhat')
  BY <1>2, <1>4, Zenon
<1>6. Dividing' /\ Scaled' = Scaled /\ (op = "lift" => x \in Ints)'
  BY <1>1, <1>3, DividingSame
<1>7. qhat' \in Nat /\ rhat' \in Nat
  BY <1>5, BaseIs DEF EstimateAt
<1>8. Limbs(u) /\ Limbs(v) /\ Limbs(q) /\ j \in Int
  BY <1>1, LoopTyped
<1>9. IntTypeOK'
  BY <1>3, <1>7, <1>8 DEF IntInv, IntTypeOK, Limbs
<1>10. DivisionLoop'
  BY <1>1, <1>3, <1>5, <1>6 DEF DivisionLoop
<1> QED
  BY <1>3, <1>6, <1>9, <1>10 DEF IntInv

\* A correction leaves the estimate at or above the limb.
LEMMA CorrectKeeps ==
    ASSUME IntInv, Correct
    PROVE  IntInv'
<1>1. /\ phase = "correct" /\ j >= 0 /\ Dividing /\ LoopAt(Append(Scaled, 0), u, v, j, q)
      /\ EstimateAt(u, v, j, qhat, rhat)
  BY DEF IntInv, DivisionLoop, Correct
<1>2. /\ UNCHANGED <<input, v, d>> /\ u' = u /\ v' = v /\ j' = j /\ q' = q /\ d' = d /\ phase' = "correct"
      /\ op' = op /\ x' = x /\ y' = y /\ qhat' = qhat - 1 /\ rhat' = rhat + v[Len(v)]
  BY <1>1 DEF Correct, input, window
<1>3. qhat * v[Len(v) - 1] > rhat * Base + u[j + Len(v) - 1]
  BY DEF Correct, TooLarge
<1>4. EstimateAt(u, v, j, qhat', rhat')
  <2>1. EstimateAt(u, v, j, qhat - 1, rhat + v[Len(v)])
    BY <1>1, <1>3, CorrectionIs
  <2> QED
    BY <1>2, <2>1, Zenon
<1>5. Dividing' /\ Scaled' = Scaled /\ (op = "lift" => x \in Ints)'
  BY <1>1, <1>2, DividingSame
<1>6. qhat' \in Nat /\ rhat' \in Nat
  BY <1>4, BaseIs DEF EstimateAt
<1>7. Limbs(u) /\ Limbs(v) /\ Limbs(q) /\ j \in Int
  BY <1>1, LoopTyped
<1>8. IntTypeOK'
  BY <1>2, <1>6, <1>7 DEF IntInv, IntTypeOK, Limbs
<1>9. DivisionLoop'
  BY <1>1, <1>2, <1>4, <1>5 DEF DivisionLoop
<1> QED
  BY <1>2, <1>5, <1>8, <1>9 DEF IntInv

\* The subtraction finds the limb, or is one too large and borrows.
LEMMA MultiplySubtractKeeps ==
    ASSUME IntInv, MultiplySubtract
    PROVE  IntInv'
<1>1. /\ phase = "correct" /\ j >= 0 /\ Dividing /\ LoopAt(Append(Scaled, 0), u, v, j, q)
      /\ EstimateAt(u, v, j, qhat, rhat)
  BY DEF IntInv, DivisionLoop, MultiplySubtract
<1>2. ~(rhat < Base /\ qhat * v[Len(v) - 1] > rhat * Base + u[j + Len(v) - 1])
  BY DEF MultiplySubtract, TooLarge
<1>3. qhat * Magnitude(v) < ValuesFrom(u)[j + 1] + Magnitude(v)
  BY <1>1, <1>2, CorrectedIs
<1>4. /\ TopOf(u, v, j, qhat) \in {0, -1}
      /\ TopOf(u, v, j, qhat) = 0 => LoopAt(Append(Scaled, 0), Subtracted(u, v, j, qhat), v, j - 1, <<qhat>> \o q)
      /\ TopOf(u, v, j, qhat) = -1 => BackAt(Append(Scaled, 0), Subtracted(u, v, j, qhat), v, j, q, qhat)
  BY <1>1, <1>3, SubtractedIs
<1>5. PICK top : top = TopOf(u, v, j, qhat)
  OBVIOUS
<1>6. /\ u' = Subtracted(u, v, j, qhat)
      /\ IF top < 0 THEN phase' = "addback" /\ UNCHANGED <<q, j>> ELSE NextLimb(qhat)
      /\ UNCHANGED <<input, v, d, qhat, rhat, result>>
  BY <1>5, Zenon DEF MultiplySubtract, Subtracted, TopOf, RestOf
<1>7. /\ UNCHANGED <<input, v, d>> /\ v' = v /\ d' = d /\ qhat' = qhat /\ rhat' = rhat
      /\ op' = op /\ x' = x /\ y' = y
  BY <1>6 DEF input
<1>8. Dividing' /\ Scaled' = Scaled /\ (op = "lift" => x \in Ints)'
  BY <1>1, <1>7, DividingSame
<1>9. op \in Unary \cup Binary /\ x \in Int /\ y \in Int /\ d \in 1..(Base - 1) /\ qhat \in Nat /\ rhat \in Nat
  BY DEF IntInv, IntTypeOK
<1>10. CASE top = 0
  <2>1. phase' = "estimate" /\ j' = j - 1 /\ q' = <<qhat>> \o q
    <3>1. ~(top < 0)
      BY <1>10
    <3> QED
      BY <1>6, <3>1 DEF NextLimb
  <2>2. LoopAt(Append(Scaled, 0), u', v', j', q')
    <3>1. LoopAt(Append(Scaled, 0), Subtracted(u, v, j, qhat), v, j - 1, <<qhat>> \o q)
      BY <1>4, <1>5, <1>10
    <3> QED
      BY <1>6, <1>7, <2>1, <3>1, Zenon
  <2>3. Limbs(u') /\ Limbs(v') /\ Limbs(q') /\ j' \in Int
    BY <2>2, LoopTyped
  <2>4. IntTypeOK'
    BY <1>7, <1>9, <2>1, <2>3 DEF IntTypeOK, Limbs
  <2>5. DivisionLoop'
    BY <1>8, <2>1, <2>2 DEF DivisionLoop
  <2> QED
    BY <1>8, <2>1, <2>4, <2>5 DEF IntInv
<1>11. CASE top = -1
  <2>1. phase' = "addback" /\ j' = j /\ q' = q
    <3>1. top < 0
      BY <1>11
    <3> QED
      BY <1>6, <3>1
  <2>2. BackAt(Append(Scaled, 0), u', v', j', q', qhat')
    <3>1. BackAt(Append(Scaled, 0), Subtracted(u, v, j, qhat), v, j, q, qhat)
      BY <1>4, <1>5, <1>11
    <3> QED
      BY <1>6, <1>7, <2>1, <3>1, Zenon
  <2>3. /\ \A i \in DOMAIN u' : u'[i] \in 0..(Base - 1) \/ i = j' + Len(v') + 1
        /\ Limbs(v') /\ Limbs(q') /\ j' \in Int
    BY <2>2, BackTyped
  <2>4. IntTypeOK'
    BY <1>7, <1>9, <2>1, <2>3 DEF IntTypeOK, Limbs
  <2>5. DivisionLoop'
    BY <1>8, <2>1, <2>2 DEF DivisionLoop
  <2> QED
    BY <1>8, <2>1, <2>4, <2>5 DEF IntInv
<1> QED
  BY <1>4, <1>5, <1>10, <1>11

\* The add-back repairs an estimate one too large.
LEMMA AddBackKeeps ==
    ASSUME IntInv, AddBack
    PROVE  IntInv'
<1>1. phase = "addback" /\ Dividing /\ BackAt(Append(Scaled, 0), u, v, j, q, qhat)
  BY DEF IntInv, DivisionLoop, AddBack
<1>2. LoopAt(Append(Scaled, 0), AddedBack(u, v, j), v, j - 1, <<qhat - 1>> \o q)
  BY <1>1, AddedBackIs
<1>3. /\ UNCHANGED <<input, v, d>> /\ v' = v /\ d' = d /\ qhat' = qhat /\ rhat' = rhat
      /\ op' = op /\ x' = x /\ y' = y
      /\ phase' = "estimate" /\ j' = j - 1 /\ q' = <<qhat - 1>> \o q
  BY DEF AddBack, NextLimb, input
<1>4. u' = AddedBack(u, v, j)
  BY Zenon DEF AddBack, Restored, AddedBack, RestoredSum
<1>5. LoopAt(Append(Scaled, 0), u', v', j', q')
  BY <1>2, <1>3, <1>4, Zenon
<1>6. Dividing' /\ Scaled' = Scaled /\ (op = "lift" => x \in Ints)'
  BY <1>1, <1>3, DividingSame
<1>7. Limbs(u') /\ Limbs(v') /\ Limbs(q') /\ j' \in Int
  BY <1>5, LoopTyped
<1>8. op \in Unary \cup Binary /\ x \in Int /\ y \in Int /\ d \in 1..(Base - 1) /\ qhat \in Nat /\ rhat \in Nat
  BY DEF IntInv, IntTypeOK
<1>9. IntTypeOK'
  BY <1>3, <1>7, <1>8 DEF IntTypeOK, Limbs
<1>10. DivisionLoop'
  BY <1>3, <1>5, <1>6 DEF DivisionLoop
<1> QED
  BY <1>3, <1>6, <1>9, <1>10 DEF IntInv

\* Nothing changes: nothing that was true stops being so.
LEMMA StutterKeeps ==
    ASSUME IntInv, UNCHANGED intVars
    PROVE  IntInv'
<1>1. /\ op' = op /\ x' = x /\ y' = y /\ phase' = phase /\ u' = u /\ v' = v /\ d' = d /\ j' = j
      /\ qhat' = qhat /\ rhat' = rhat /\ q' = q /\ result' = result /\ UNCHANGED input
  BY DEF intVars, input
<1>2. IntTypeOK'
  BY <1>1 DEF IntInv, IntTypeOK, Limbs
<1>3. (op = "lift" => x \in Ints)'
  BY <1>1 DEF IntInv, Ints
<1>4. Scaled' = Scaled
  BY <1>1, InputSame
<1>5. DivisionLoop'
  BY <1>1, <1>4 DEF IntInv, DivisionLoop, Dividing
<1>6. (phase = "done" => Exact(result))'
  <2> SUFFICES ASSUME phase = "done"
               PROVE  Exact(result)'
    BY <1>1
  <2>1. Exact(result')
    BY <1>1 DEF IntInv
  <2> QED
    BY <1>1, <2>1, ExactSame
<1> QED
  BY <1>2, <1>3, <1>5, <1>6 DEF IntInv

\* A single canonical integer, as the results are compared.
LEMMA SingleIs ==
    ASSUME NEW r, NEW k, SingleExact(r, k)
    PROVE  /\ \A i \in DOMAIN r : Canonical(r[i])
           /\ [i \in DOMAIN r |-> IntegerValue(r[i])] = <<k>>
           /\ Canonical(r[1]) /\ IntegerValue(r[1]) = k
<1>1. PICK a : r = <<a>> /\ Whole(a) /\ IntegerValue(a) = k
  BY DEF SingleExact
<1>2. Canonical(a)
  BY <1>1, WholeIs
<1>3. DOMAIN r = {1} /\ r[1] = a
  BY <1>1
<1>4. [i \in {1} |-> IntegerValue(r[i])] = <<IntegerValue(r[1])>>
  OBVIOUS
<1>5. [i \in DOMAIN r |-> IntegerValue(r[i])] = <<k>>
  BY <1>1, <1>3, <1>4
<1>6. \A i \in DOMAIN r : Canonical(r[i])
  BY <1>2, <1>3
<1> QED
  BY <1>1, <1>2, <1>3, <1>5, <1>6

\* The invariant implies that results are exact.
LEMMA ResultsFollow ==
    ASSUME IntInv
    PROVE  ResultsExact
<1> SUFFICES ASSUME phase = "done", op \in Binary \ {"compare"}
             PROVE  /\ \A k \in DOMAIN result : Canonical(result[k])
                    /\ [k \in DOMAIN result |-> IntegerValue(result[k])] =
                         CASE op = "add" -> <<x + y>>
                           [] op = "sub" -> <<x - y>>
                           [] op = "mul" -> <<x * y>>
                           [] op = "quotRem" -> <<Truncated, x - Truncated * y>>
                           [] op = "divMod" -> <<Floored, x - Floored * y>>
  BY Zenon DEF ResultsExact, Truncated, Floored
<1>1. Exact(result)
  BY DEF IntInv
<1>2. op = "add" \/ op = "sub" \/ op = "mul" \/ op = "quotRem" \/ op = "divMod"
  BY DEF Binary
<1>3. CASE op = "add"
  <2>1. SingleExact(result, x + y)
    BY <1>1, <1>3 DEF Exact
  <2>2. /\ \A k \in DOMAIN result : Canonical(result[k])
        /\ [k \in DOMAIN result |-> IntegerValue(result[k])] = <<x + y>>
    BY <2>1, SingleIs
  <2> QED
    BY <1>3, <2>2
<1>4. CASE op = "sub"
  <2>1. SingleExact(result, x - y)
    BY <1>1, <1>4 DEF Exact
  <2>2. /\ \A k \in DOMAIN result : Canonical(result[k])
        /\ [k \in DOMAIN result |-> IntegerValue(result[k])] = <<x - y>>
    BY <2>1, SingleIs
  <2> QED
    BY <1>4, <2>2
<1>5. CASE op = "mul"
  <2>1. SingleExact(result, x * y)
    BY <1>1, <1>5 DEF Exact
  <2>2. /\ \A k \in DOMAIN result : Canonical(result[k])
        /\ [k \in DOMAIN result |-> IntegerValue(result[k])] = <<x * y>>
    BY <2>1, SingleIs
  <2> QED
    BY <1>5, <2>2
<1>6. CASE op = "quotRem"
  <2>1. QuotientExact(result)
    BY <1>1, <1>6 DEF Exact
  <2>2. /\ \A k \in DOMAIN result : Canonical(result[k])
        /\ [k \in DOMAIN result |-> IntegerValue(result[k])] = <<Truncated, x - Truncated * y>>
    BY <1>6, <2>1 DEF QuotientExact
  <2> QED
    BY <1>6, <2>2
<1>7. CASE op = "divMod"
  <2>1. QuotientExact(result)
    BY <1>1, <1>7 DEF Exact
  <2>2. /\ \A k \in DOMAIN result : Canonical(result[k])
        /\ [k \in DOMAIN result |-> IntegerValue(result[k])] = <<Floored, x - Floored * y>>
    BY <1>7, <2>1 DEF QuotientExact
  <2> QED
    BY <1>7, <2>2
<1> QED
  BY <1>2, <1>3, <1>4, <1>5, <1>6, <1>7

\* The invariant implies that comparison and conversions are exact.
LEMMA ConversionsFollow ==
    ASSUME IntInv
    PROVE  ConversionsExact
<1> SUFFICES ASSUME phase = "done"
             PROVE  CASE op = "compare" -> result = <<Sign(x - y)>>
                      [] op = "lift" -> Canonical(result[1]) /\ IntegerValue(result[1]) = x
                                        /\ ToInt(result[1]) = x
                      [] op = "narrow" -> result = <<Wrap(x)>>
                      [] op = "show" -> /\ Mk(XBox.sign, ReadBack(result[1])) = XBox
                                        /\ result[1][1] = 0 => result[1] = <<0>>
                      [] OTHER -> TRUE
  BY Zenon DEF ConversionsExact
<1>1. Exact(result) /\ x \in Int
  BY DEF IntInv, IntTypeOK
<1>2. CASE op = "compare"
  BY <1>1, <1>2 DEF Exact
<1>3. CASE op = "lift"
  <2>1. SingleExact(result, x) /\ ToInt(result[1]) = x
    BY <1>1, <1>3 DEF Exact
  <2>2. Canonical(result[1]) /\ IntegerValue(result[1]) = x
    BY <2>1, SingleIs
  <2> QED
    BY <1>3, <2>1, <2>2
<1>4. CASE op = "narrow"
  BY <1>1, <1>4 DEF Exact
<1>5. CASE op = "show"
  <2>1. result = <<XShown>>
    BY <1>1, <1>5 DEF Exact
  <2>2. result[1] = XShown
    BY <2>1
  <2>3. /\ Mk(XBox.sign, ReadBack(XShown)) = XBox
        /\ XShown[1] = 0 => XShown = <<0>>
    BY <1>1, ShowIs
  <2> QED
    BY <1>5, <2>2, <2>3
<1>6. CASE op \notin {"compare", "lift", "narrow", "show"}
  BY <1>6
<1> QED
  BY <1>2, <1>3, <1>4, <1>5, <1>6

\* An estimate that has not gone below the limb, nor above the next one.
LEMMA LimbBounds ==
    ASSUME NEW W \in Nat, NEW V \in Nat \ {0}, NEW e \in Nat
    PROVE  /\ W < (e + 1) * V => e >= W \div V
           /\ e * V < W + V => e <= (W \div V) + 1
<1>1. PICK k \in Int, r \in 0..(V - 1) : k = W \div V /\ r = W % V /\ W = V * k + r
  <2>1. W \in Int
    OBVIOUS
  <2> QED
    BY <2>1, DivMod
<1>2. k \in Nat
  BY <1>1, DivRange
<1>3. ASSUME W < (e + 1) * V
      PROVE  e >= k
  <2>1. SUFFICES ASSUME k >= e + 1
                 PROVE  FALSE
    BY <1>2
  <2>2. (e + 1) * V <= k * V
    <3>1. e + 1 \in Nat /\ e + 1 <= k
      BY <2>1
    <3> QED
      BY <1>2, <3>1, ProductOrder
  <2>3. k * V \in Nat /\ V * k = k * V /\ (e + 1) * V \in Nat
    BY <1>2
  <2> QED
    BY <1>1, <1>3, <2>2, <2>3
<1>4. ASSUME e * V < W + V
      PROVE  e <= k + 1
  <2>1. SUFFICES ASSUME e >= k + 2
                 PROVE  FALSE
    BY <1>2
  <2>2. (k + 2) * V <= e * V
    <3>1. k + 2 \in Nat /\ k + 2 <= e
      BY <1>2, <2>1
    <3> QED
      BY <3>1, ProductOrder
  <2>3. (k + 2) * V = V * k + V + V /\ V * k \in Nat /\ e * V \in Nat
    BY <1>2
  <2> QED
    BY <1>1, <1>4, <2>2, <2>3
<1> QED
  BY <1>1, <1>3, <1>4

\* The invariant implies what the run checks of the loop.
LEMMA DivisionFollows ==
    ASSUME IntInv
    PROVE  DivisionInvariant
<1>1. ASSUME phase = "estimate"
      PROVE  /\ Abs(x) * d = Magnitude(Scaled) /\ Abs(y) * d = Magnitude(v)
             /\ ValuesFrom(Append(Scaled, 0))[j + 2] = Magnitude(q) * Magnitude(v) + ValuesFrom(u)[j + 2]
             /\ ValuesFrom(u)[j + 2] < Magnitude(v)
  <2>1. Dividing /\ LoopAt(Append(Scaled, 0), u, v, j, q)
    BY <1>1 DEF IntInv, DivisionLoop
  <2>2. Magnitude(Scaled) = Abs(x) * d /\ Magnitude(v) = Abs(y) * d
    BY <2>1 DEF Dividing, ScaledAs
  <2>3. /\ ValuesFrom(Append(Scaled, 0))[j + 2] = Magnitude(q) * Magnitude(v) + ValuesFrom(u)[j + 2]
        /\ ValuesFrom(u)[j + 2] < Magnitude(v)
    BY <2>1 DEF LoopAt
  <2> QED
    BY <2>2, <2>3
<1>2. ASSUME phase = "correct", NEW limb \in {ValuesFrom(u)[j + 1] \div Magnitude(v)}
      PROVE  qhat >= limb /\ (~TooLarge => qhat <= limb + 1)
  <2>1. LoopAt(Append(Scaled, 0), u, v, j, q) /\ j >= 0 /\ EstimateAt(u, v, j, qhat, rhat)
    BY <1>2 DEF IntInv, DivisionLoop
  <2>2. ValuesFrom(u)[j + 1] \in Nat /\ Magnitude(v) \in Nat \ {0}
    BY <2>1, WindowBelow
  <2>3. qhat \in Nat
    BY DEF IntInv, IntTypeOK
  <2>4. PICK W \in Nat, V \in Nat \ {0} : W = ValuesFrom(u)[j + 1] /\ V = Magnitude(v)
    BY <2>2
  <2>5. W < (qhat + 1) * V
    BY <2>1, <2>4, Zenon DEF EstimateAt
  <2>6. ASSUME ~TooLarge
        PROVE  qhat * V < W + V
    <3>1. ~(rhat < Base /\ qhat * v[Len(v) - 1] > rhat * Base + u[j + Len(v) - 1])
      BY <2>6 DEF TooLarge
    <3>2. qhat * Magnitude(v) < ValuesFrom(u)[j + 1] + Magnitude(v)
      BY <2>1, <3>1, CorrectedIs
    <3> QED
      BY <2>4, <3>2, Zenon
  <2>7. limb = W \div V
    BY <2>4, Zenon
  <2>8. qhat >= W \div V /\ (~TooLarge => qhat <= (W \div V) + 1)
    BY <2>3, <2>5, <2>6, LimbBounds
  <2> QED
    BY <2>7, <2>8, Zenon
<1>3. ASSUME phase = "addback"
      PROVE  u[j + Len(v) + 1] = -1
  <2>1. BackAt(Append(Scaled, 0), u, v, j, q, qhat)
    BY <1>3 DEF IntInv, DivisionLoop
  <2> QED
    BY <2>1, Zenon DEF BackAt
<1> QED
  BY <1>1, <1>2, <1>3, Zenon DEF DivisionInvariant

(***************************************************************************)
(* The theorems.                                                           *)
(***************************************************************************)
\* Every step keeps the inductive invariant, whatever the base and the
\* operands.
THEOREM IntInvInductive == IntInv /\ [IntNext]_intVars => IntInv'
<1> SUFFICES ASSUME IntInv, [IntNext]_intVars
             PROVE  IntInv'
  OBVIOUS
<1>1. CASE Simple
  BY <1>1, SimpleKeeps
<1>2. CASE DivideByZero
  BY <1>2, DivideByZeroKeeps
<1>3. CASE SmallDivision
  BY <1>3, SmallDivisionKeeps
<1>4. CASE ShorterDividend
  BY <1>4, ShorterDividendKeeps
<1>5. CASE OneLimbDivisor
  BY <1>5, OneLimbDivisorKeeps
<1>6. CASE Normalize
  BY <1>6, NormalizeKeeps
<1>7. CASE Estimate
  BY <1>7, EstimateKeeps
<1>8. CASE Correct
  BY <1>8, CorrectKeeps
<1>9. CASE MultiplySubtract
  BY <1>9, MultiplySubtractKeeps
<1>10. CASE AddBack
  BY <1>10, AddBackKeeps
<1>11. CASE Denormalize
  BY <1>11, DenormalizeKeeps
<1>12. CASE Finished
  BY <1>12, StutterKeeps DEF Finished
<1>13. CASE UNCHANGED intVars
  BY <1>13, StutterKeeps
<1> QED
  BY <1>1, <1>2, <1>3, <1>4, <1>5, <1>6, <1>7, <1>8, <1>9, <1>10, <1>11, <1>12, <1>13 DEF IntNext

\* The inductive invariant holds in every reachable state.
THEOREM IntInvHolds == IntSpec => []IntInv
<1>1. IntInit => IntInv
  BY InitInv
<1>2. IntInv /\ [IntNext]_intVars => IntInv'
  BY IntInvInductive
<1> QED
  BY <1>1, <1>2, PTL DEF IntSpec

\* The variables keep their types: limbs stay below the base, except the
\* window's top between a borrow and its add-back.
THEOREM IntTypes == IntSpec => []IntTypeOK
<1>1. IntInv => IntTypeOK
  BY DEF IntInv
<1> QED
  BY <1>1, IntInvHolds, PTL

\* Integer arithmetic, comparison, showing and the trips to machine
\* integers are exact and canonical, and the long division loses nothing
\* on the way, for every base and all operands.
THEOREM IntegersExact == IntSpec => []ArithmeticExact
<1>1. IntInv => ArithmeticExact
  BY ResultsFollow, ConversionsFollow, DivisionFollows DEF ArithmeticExact
<1> QED
  BY <1>1, IntInvHolds, PTL
=============================================================================
