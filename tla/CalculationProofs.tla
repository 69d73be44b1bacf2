--------------------------- MODULE CalculationProofs --------------------------
(***************************************************************************)
(* Proofs about the calculations, for any inputs that are what             *)
(* InputsAssumption says they are made of: lists of any length, amounts of *)
(* any size and sign.                                                      *)
(*                                                                         *)
(* The calculations are folds over lists.  A theorem about one unfolds it  *)
(* into its runs (Folding), carries an invariant from run to run, and the  *)
(* theorem about the steps only says that the step of the topic computes   *)
(* it.  Definitions that end in Right, Found, Kept or the like bundle what *)
(* a lemma concludes, so that later proofs can take it as one fact.        *)
(***************************************************************************)
EXTENDS Calculations, FiniteSetTheorems, TLAPS


-----------------------------------------------------------------------------
(* Sums                                                                    *)

Adding == INSTANCE Folding WITH Op <- LAMBDA env, sum, e : sum + e,
                                Holds <- LAMBDA env, k, sum : sum \in Int

LEMMA SumIsFold ==
    ASSUME NEW q
    PROVE  SumOver(q) = Adding!Fold(<<>>, 0, q)
  BY DEF SumOver, Adding!Fold, Adding!Highest, FoldLeft, MapThenFoldSet, Max

\* A sum is where its running sum ends.
LEMMA SumRuns ==
    ASSUME NEW n \in Nat, NEW q \in [1..n -> Int]
    PROVE  \E r \in [0..n -> Int] :
              /\ r[0] = 0
              /\ \A k \in 1..n : r[k] = r[k - 1] + q[k]
              /\ SumOver(q) = r[n]
<1>1. DOMAIN q = 1..n
  OBVIOUS
<1>2. PICK s : Adding!Run(<<>>, 0, n, q, s) /\ Adding!Fold(<<>>, 0, q) = s[n]
  BY <1>1, Adding!FoldRuns
<1>3. s[0] = 0 /\ \A k \in 1..n : s[k] = s[k - 1] + q[k]
  BY <1>2 DEF Adding!Run
<1>4. \A k \in 1..n : \A x : x \in Int => x + q[k] \in Int
  OBVIOUS
<1>5. \A k \in 0..n : s[k] \in Int
  <2>1. 0 \in Int
    OBVIOUS
  <2> QED
    BY <1>2, <1>4, <2>1, Adding!RunInduction
<1> DEFINE r == [k \in 0..n |-> s[k]]
<1>6. r \in [0..n -> Int] /\ r[0] = 0 /\ SumOver(q) = r[n]
  BY <1>2, <1>3, <1>5, SumIsFold
<1>7. \A k \in 1..n : r[k] = r[k - 1] + q[k]
  <2>1. \A k \in 1..n : k \in 0..n /\ k - 1 \in 0..n
    OBVIOUS
  <2> QED
    BY <1>3, <2>1
<1> HIDE DEF r
<1> QED
  BY <1>6, <1>7

LEMMA SumIsInt ==
    ASSUME NEW n \in Nat, NEW q \in [1..n -> Int]
    PROVE  SumOver(q) \in Int
<1>1. PICK r \in [0..n -> Int] : SumOver(q) = r[n]
  BY SumRuns
<1>2. n \in 0..n
  OBVIOUS
<1> QED
  BY <1>1, <1>2

\* The running sum is determined by its steps.
LEMMA SumIs ==
    ASSUME NEW n \in Nat, NEW q \in [1..n -> Int], NEW t \in [0..n -> Int],
           t[0] = 0, \A k \in 1..n : t[k] = t[k - 1] + q[k]
    PROVE  SumOver(q) = t[n]
<1>1. PICK r \in [0..n -> Int] :
          /\ r[0] = 0
          /\ \A k \in 1..n : r[k] = r[k - 1] + q[k]
          /\ SumOver(q) = r[n]
  BY SumRuns
<1> DEFINE T == {k \in Nat : k \in 0..n => r[k] = t[k]}
<1>2. 0 \in T
  BY <1>1
<1>3. ASSUME NEW k \in Nat, k \in T PROVE k + 1 \in T
  <2>1. SUFFICES ASSUME k + 1 \in 0..n PROVE r[k + 1] = t[k + 1]
    OBVIOUS
  <2>2. k + 1 \in 1..n /\ (k + 1) - 1 = k /\ k \in 0..n
    BY <2>1
  <2>3. r[k] = t[k]
    BY <1>3, <2>2
  <2>4. r[k + 1] = r[k] + q[k + 1] /\ t[k + 1] = t[k] + q[k + 1]
    BY <1>1, <2>2
  <2> QED
    BY <2>3, <2>4
<1>4. Nat \subseteq T
  <2> HIDE DEF T
  <2> QED
    BY <1>2, <1>3, Adding!Induction
<1> QED
  BY <1>1, <1>4

LEMMA SumOfTwo ==
    ASSUME NEW n \in Nat, NEW p \in [1..n -> Int], NEW q \in [1..n -> Int]
    PROVE  /\ SumOver([k \in 1..n |-> p[k] + q[k]]) = SumOver(p) + SumOver(q)
           /\ SumOver([k \in 1..n |-> p[k] - q[k]]) = SumOver(p) - SumOver(q)
<1>1. PICK r \in [0..n -> Int] : r[0] = 0 /\ (\A k \in 1..n : r[k] = r[k - 1] + p[k]) /\ SumOver(p) = r[n]
  BY SumRuns
<1>2. PICK t \in [0..n -> Int] : t[0] = 0 /\ (\A k \in 1..n : t[k] = t[k - 1] + q[k]) /\ SumOver(q) = t[n]
  BY SumRuns
<1>3. \A k \in 1..n : k \in 0..n /\ k - 1 \in 0..n /\ p[k] \in Int /\ q[k] \in Int
  OBVIOUS
<1>4. n \in 0..n /\ 0 \in 0..n
  OBVIOUS
<1>5. SumOver([k \in 1..n |-> p[k] + q[k]]) = r[n] + t[n]
  <2> DEFINE both == [k \in 1..n |-> p[k] + q[k]]
             run == [k \in 0..n |-> r[k] + t[k]]
  <2>1. both \in [1..n -> Int] /\ run \in [0..n -> Int] /\ run[0] = 0 /\ run[n] = r[n] + t[n]
    BY <1>1, <1>2, <1>4
  <2>2. ASSUME NEW k \in 1..n PROVE run[k] = run[k - 1] + both[k]
    <3>1. PICK a \in Int : a = r[k - 1]
      BY <1>3
    <3>2. PICK b \in Int : b = t[k - 1]
      BY <1>3
    <3>3. PICK c \in Int, d \in Int : c = p[k] /\ d = q[k]
      BY <1>3
    <3>4. r[k] = a + c /\ t[k] = b + d
      BY <1>1, <1>2, <3>1, <3>2, <3>3
    <3>5. run[k] = (a + c) + (b + d) /\ run[k - 1] = a + b /\ both[k] = c + d
      BY <1>3, <3>1, <3>2, <3>3, <3>4
    <3> HIDE DEF run, both
    <3> QED
      BY <3>5
  <2>3. SumOver(both) = run[n]
    <3> HIDE DEF both, run
    <3> QED
      BY <2>1, <2>2, SumIs
  <2> QED
    BY <2>1, <2>3
<1>6. SumOver([k \in 1..n |-> p[k] - q[k]]) = r[n] - t[n]
  <2> DEFINE both == [k \in 1..n |-> p[k] - q[k]]
             run == [k \in 0..n |-> r[k] - t[k]]
  <2>1. both \in [1..n -> Int] /\ run \in [0..n -> Int] /\ run[0] = 0 /\ run[n] = r[n] - t[n]
    BY <1>1, <1>2, <1>4
  <2>2. ASSUME NEW k \in 1..n PROVE run[k] = run[k - 1] + both[k]
    <3>1. PICK a \in Int : a = r[k - 1]
      BY <1>3
    <3>2. PICK b \in Int : b = t[k - 1]
      BY <1>3
    <3>3. PICK c \in Int, d \in Int : c = p[k] /\ d = q[k]
      BY <1>3
    <3>4. r[k] = a + c /\ t[k] = b + d
      BY <1>1, <1>2, <3>1, <3>2, <3>3
    <3>5. run[k] = (a + c) - (b + d) /\ run[k - 1] = a - b /\ both[k] = c - d
      BY <1>3, <3>1, <3>2, <3>3, <3>4
    <3> HIDE DEF run, both
    <3> QED
      BY <3>5
  <2>3. SumOver(both) = run[n]
    <3> HIDE DEF both, run
    <3> QED
      BY <2>1, <2>2, SumIs
  <2> QED
    BY <2>1, <2>3
<1> QED
  BY <1>1, <1>2, <1>5, <1>6

-----------------------------------------------------------------------------
(* Rounding                                                                *)

LEMMA Division ==
    ASSUME NEW m \in Nat, NEW d \in Nat \ {0}
    PROVE  /\ m \div d \in Nat /\ m % d \in 0..(d - 1)
           /\ m = d * (m \div d) + (m % d)
  OBVIOUS

LEMMA MagnitudeFacts ==
    ASSUME NEW n \in Int
    PROVE  Magnitude(n) \in Nat /\ (n >= 0 => Magnitude(n) = n) /\ (n < 0 => Magnitude(n) = 0 - n)
  BY DEF Magnitude

\* HalfEven of a number that is not negative: no further from n / d than a half.
LEMMA HalfEvenOfNat ==
    ASSUME NEW n \in Nat, NEW d \in Nat \ {0}
    PROVE  \E h \in Nat : /\ HalfEven(n, d) = h
                          /\ 2 * (d * h) <= 2 * n + d
                          /\ 2 * n <= 2 * (d * h) + d
<1>1. PICK q \in Nat : q = n \div d
  BY Division
<1>2. PICK r \in 0..(d - 1) : r = n % d
  BY Division
<1>3. n = d * q + r
  BY <1>1, <1>2, Division
<1>4. PICK h \in Nat : h = IF 2 * r > d \/ (2 * r = d /\ q % 2 = 1) THEN q + 1 ELSE q
  BY <1>1
<1>5. HalfEven(n, d) = h
  <2>1. Magnitude(n) = n /\ ~ (n < 0)
    BY DEF Magnitude
  <2> QED
    BY <1>1, <1>2, <1>4, <2>1 DEF HalfEven, Signed
<1>6. PICK p \in Int : p = d * q
  OBVIOUS
<1>7. d * (q + 1) = p + d
  BY <1>6
<1>8. (d * h = p + d /\ 2 * r >= d) \/ (d * h = p /\ 2 * r <= d)
  <2>1. CASE 2 * r > d \/ (2 * r = d /\ q % 2 = 1)
    BY <1>4, <1>7, <2>1
  <2>2. CASE ~ (2 * r > d \/ (2 * r = d /\ q % 2 = 1))
    BY <1>4, <1>6, <2>2
  <2> QED
    BY <2>1, <2>2
<1>9. n = p + r
  BY <1>3, <1>6
<1>10. PICK x \in Int : x = d * h
  OBVIOUS
<1>11. 2 * x <= 2 * n + d /\ 2 * n <= 2 * x + d
  BY <1>8, <1>9, <1>10
<1> QED
  BY <1>5, <1>10, <1>11

\* HalfEven: no further from n / d than a half, and never on the other side of 0.
LEMMA HalfEvenNear ==
    ASSUME NEW n \in Int, NEW d \in Nat \ {0}
    PROVE  \E h \in Int : /\ HalfEven(n, d) = h
                          /\ 2 * (d * h) <= 2 * n + d
                          /\ 2 * n <= 2 * (d * h) + d
                          /\ n >= 0 => h >= 0
                          /\ n <= 0 => h <= 0
<1>1. CASE n = 0
  <2>1. PICK h \in Nat : HalfEven(n, d) = h /\ 2 * (d * h) <= 2 * n + d /\ 2 * n <= 2 * (d * h) + d
    BY <1>1, HalfEvenOfNat
  <2>2. h = 0
    <3>1. SUFFICES ASSUME h >= 1 PROVE FALSE
      OBVIOUS
    <3>2. d * h >= d
      BY <3>1
    <3>3. PICK x \in Int : x = d * h
      OBVIOUS
    <3> QED
      BY <1>1, <2>1, <3>2, <3>3
  <2> QED
    BY <2>1, <2>2
<1>2. CASE n > 0
  <2>1. PICK h \in Nat : HalfEven(n, d) = h /\ 2 * (d * h) <= 2 * n + d /\ 2 * n <= 2 * (d * h) + d
    BY <1>2, HalfEvenOfNat
  <2> QED
    BY <1>2, <2>1
<1>3. CASE n < 0
  <2>1. PICK m \in Nat : m = 0 - n
    BY <1>3
  <2>2. PICK h \in Nat : HalfEven(m, d) = h /\ 2 * (d * h) <= 2 * m + d /\ 2 * m <= 2 * (d * h) + d
    BY <2>1, HalfEvenOfNat
  <2>3. HalfEven(n, d) = 0 - h
    <3>1. Magnitude(n) = m /\ Magnitude(m) = m /\ ~ (m < 0) /\ n < 0
      BY <1>3, <2>1 DEF Magnitude
    <3>2. PICK e \in Nat : e = IF 2 * (m % d) > d \/ (2 * (m % d) = d /\ (m \div d) % 2 = 1)
                               THEN (m \div d) + 1 ELSE m \div d
      BY <2>1, Division
    <3>3. HalfEven(m, d) = e
      BY <3>1, <3>2 DEF HalfEven, Signed
    <3>4. HalfEven(n, d) = -e
      BY <3>1, <3>2 DEF HalfEven, Signed
    <3> QED
      BY <2>2, <3>3, <3>4
  <2>4. PICK x \in Int : x = d * h
    OBVIOUS
  <2>5. d * (0 - h) = 0 - x
    BY <2>4
  <2>6. 2 * (0 - x) <= 2 * n + d /\ 2 * n <= 2 * (0 - x) + d
    BY <2>1, <2>2, <2>4
  <2>7. 0 - h \in Int /\ 0 - h <= 0
    OBVIOUS
  <2> QED
    BY <1>3, <2>3, <2>5, <2>6, <2>7
<1> QED
  BY <1>1, <1>2, <1>3

LEMMA HalfEvenExact ==
    ASSUME NEW x \in Int, NEW d \in Nat \ {0}
    PROVE  HalfEven(d * x, d) = x
<1>1. PICK n \in Int : n = d * x
  OBVIOUS
<1>2. PICK h \in Int : HalfEven(n, d) = h /\ 2 * (d * h) <= 2 * n + d /\ 2 * n <= 2 * (d * h) + d
  BY HalfEvenNear
<1>3. ~ (h > x)
  <2>1. SUFFICES ASSUME h >= x + 1 PROVE FALSE
    OBVIOUS
  <2>2. d * h >= d * (x + 1)
    BY <2>1
  <2>3. d * (x + 1) = n + d
    BY <1>1
  <2>4. PICK y \in Int : y = d * h
    OBVIOUS
  <2> QED
    BY <1>2, <2>2, <2>3, <2>4
<1>4. ~ (h < x)
  <2>1. SUFFICES ASSUME h <= x - 1 PROVE FALSE
    OBVIOUS
  <2>2. d * h <= d * (x - 1)
    BY <2>1
  <2>3. d * (x - 1) = n - d
    BY <1>1
  <2>4. PICK y \in Int : y = d * h
    OBVIOUS
  <2> QED
    BY <1>2, <2>2, <2>3, <2>4
<1> QED
  BY <1>1, <1>2, <1>3, <1>4

-----------------------------------------------------------------------------
(* The ramp to a goal (growth/scaling_model.py)                            *)

\* env is <<current, target, n, churn, cac>>.
Ramping == INSTANCE Folding WITH
    Op <- LAMBDA env, month, i : RampMonth(env[1], env[2], env[3], env[4], env[5], i, month.end_value),
    Holds <- LAMBDA env, k, month : month.end_value \in Int

\* Every month begins where the one before it ended.
LEMMA RampUnfolds ==
    ASSUME NEW current, NEW target, NEW n \in Nat, NEW churn, NEW cac,
           NEW ramp, ramp = Ramp(current, target, n, churn, cac)
    PROVE  ramp = [i \in 1..n |-> RampMonth(current, target, n, churn, cac, i,
                                            IF i = 1 THEN current ELSE ramp[i - 1].end_value)]
<1> DEFINE env == <<current, target, n, churn, cac>>
           base == [end_value |-> current]
           s == [i \in 1..n |-> i]
           Unfolded(f) == [i \in 1..n |-> RampMonth(current, target, n, churn, cac, i,
                                                IF i = 1 THEN current ELSE f[i - 1].end_value)]
<1>1. DOMAIN s = 1..n
  OBVIOUS
<1>2. PICK r : Ramping!Run(env, base, n, s, r)
  <2> HIDE DEF env, base, s
  <2> QED
    BY <1>1, Ramping!FoldRuns
<1>3. /\ r[0].end_value = current
      /\ \A i \in 1..n : r[i] = RampMonth(current, target, n, churn, cac, i, r[i - 1].end_value)
  <2>1. r[0] = base /\ \A i \in 1..n : r[i] = RampMonth(env[1], env[2], env[3], env[4], env[5], s[i],
                                                        r[i - 1].end_value)
    <3> HIDE DEF env, base, s
    <3> QED
      BY <1>2 DEF Ramping!Run
  <2>2. /\ env[1] = current /\ env[2] = target /\ env[3] = n /\ env[4] = churn /\ env[5] = cac
        /\ base.end_value = current
        /\ \A i \in 1..n : s[i] = i
    OBVIOUS
  <2> HIDE DEF env, base, s
  <2> QED
    BY <2>1, <2>2
<1> DEFINE f0 == [i \in 1..n |-> r[i]]
<1>4. f0 = Unfolded(f0)
  <2>1. ASSUME NEW i \in 1..n
        PROVE  r[i] = RampMonth(current, target, n, churn, cac, i,
                                IF i = 1 THEN current ELSE f0[i - 1].end_value)
    <3>1. CASE i = 1
      <4>1. i - 1 = 0
        BY <3>1
      <4> QED
        BY <1>3, <3>1, <4>1
    <3>2. CASE i # 1
      <4>1. i - 1 \in 1..n
        BY <3>2
      <4>2. f0[i - 1] = r[i - 1]
        BY <4>1
      <4> HIDE DEF f0
      <4> QED
        BY <1>3, <3>2, <4>2
    <3> QED
      BY <3>1, <3>2
  <2> QED
    BY <2>1
<1>5. ramp = CHOOSE f : f = Unfolded(f)
  BY DEF Ramp
<1> HIDE DEF f0, Unfolded
<1>6. ramp = Unfolded(ramp)
  BY <1>4, <1>5
<1> QED
  BY <1>6 DEF Unfolded

\* What a month adds is enough for the straight line, whatever churns.
LEMMA GrossAddsInt ==
    ASSUME NEW current \in Int, NEW target \in Int, NEW n \in Nat \ {0}, NEW i \in Int,
           NEW running \in Int, NEW churned \in Int
    PROVE  GrossAdds(current, target, n, i, running, churned) \in Nat
<1>1. PICK m \in Int : m = current * n + (target - current) * i + (churned - running) * n
  OBVIOUS
<1>2. PICK h \in Int : HalfEven(m, n) = h
  BY HalfEvenNear
<1> QED
  BY <1>1, <1>2 DEF GrossAdds

LEMMA LastGrossAdds ==
    ASSUME NEW current \in Int, NEW target \in Int, NEW n \in Nat \ {0},
           NEW running \in Int, NEW churned \in Int
    PROVE  GrossAdds(current, target, n, n, running, churned)
              = IF target + churned - running < 0 THEN 0 ELSE target + churned - running
<1>1. PICK x \in Int : x = target + churned - running
  OBVIOUS
<1>2. current * n + (target - current) * n + (churned - running) * n = n * x
  BY <1>1
<1>3. HalfEven(n * x, n) = x
  BY HalfEvenExact
<1> QED
  BY <1>1, <1>2, <1>3 DEF GrossAdds

LEMMA ChurnedInt ==
    ASSUME NEW running \in Int, NEW churn \in Int
    PROVE  HalfEven(running * churn, 100) \in Int
<1>1. PICK m \in Int : m = running * churn
  OBVIOUS
<1>2. PICK h \in Int : HalfEven(m, 100) = h
  BY HalfEvenNear
<1> QED
  BY <1>1, <1>2

LEMMA MonthTypes ==
    ASSUME NEW current \in Int, NEW target \in Int, NEW n \in Nat \ {0}, NEW churn \in Int, NEW cac,
           NEW i \in Int, NEW running \in Int,
           NEW m, m = RampMonth(current, target, n, churn, cac, i, running)
    PROVE  /\ m.start_value = running /\ m.churned \in Int /\ m.gross_adds \in Nat
           /\ m.end_value = running + m.gross_adds - m.churned /\ m.end_value \in Int
           /\ i = n => m.gross_adds = IF target + m.churned - running < 0 THEN 0
                                      ELSE target + m.churned - running
<1>1. PICK c \in Int : c = HalfEven(running * churn, 100)
  BY ChurnedInt
<1>2. PICK g \in Nat : g = GrossAdds(current, target, n, i, running, c)
  BY GrossAddsInt
<1>3. m = [start_value |-> running, churned |-> c, gross_adds |-> g,
           end_value |-> running + g - c, spend |-> HalfEven(g * cac, 10000)]
  BY <1>1, <1>2 DEF RampMonth
<1>4. i = n => g = IF target + c - running < 0 THEN 0 ELSE target + c - running
  <2>1. GrossAdds(current, target, n, n, running, c)
           = IF target + c - running < 0 THEN 0 ELSE target + c - running
    BY LastGrossAdds
  <2> QED
    BY <1>2, <2>1, Zenon
<1> QED
  BY <1>3, <1>4

LEMMA RampTypes ==
    ASSUME NEW current \in Int, NEW target \in Int, NEW n \in Nat \ {0}, NEW churn \in Int, NEW cac,
           NEW ramp, ramp = Ramp(current, target, n, churn, cac)
    PROVE  \A i \in 1..n : ramp[i].end_value \in Int
<1>1. ramp = [i \in 1..n |-> RampMonth(current, target, n, churn, cac, i,
                                       IF i = 1 THEN current ELSE ramp[i - 1].end_value)]
  BY RampUnfolds
<1> DEFINE T == {k \in Nat : k \in 1..n => ramp[k].end_value \in Int}
<1>2. 0 \in T
  OBVIOUS
<1>3. ASSUME NEW k \in Nat, k \in T PROVE k + 1 \in T
  <2>1. SUFFICES ASSUME k + 1 \in 1..n PROVE ramp[k + 1].end_value \in Int
    OBVIOUS
  <2>2. PICK running \in Int : running = IF k + 1 = 1 THEN current ELSE ramp[(k + 1) - 1].end_value
    <3>1. CASE k = 0
      BY <3>1
    <3>2. CASE k # 0
      <4>1. k \in 1..n /\ (k + 1) - 1 = k
        BY <2>1, <3>2
      <4> QED
        BY <1>3, <4>1
    <3> QED
      BY <3>1, <3>2
  <2>3. PICK i \in Int : i = k + 1
    OBVIOUS
  <2>4. PICK m : m = ramp[i] /\ m = RampMonth(current, target, n, churn, cac, i, running)
    BY <1>1, <2>1, <2>2, <2>3
  <2>5. m.end_value \in Int
    BY <2>4, MonthTypes
  <2> QED
    BY <2>3, <2>4, <2>5
<1>4. Nat \subseteq T
  <2> HIDE DEF T
  <2> QED
    BY <1>2, <1>3, Adding!Induction
<1> QED
  BY <1>4

LEMMA RampReaches ==
    ASSUME NEW current \in Int, NEW target \in Int, NEW n \in Nat \ {0}, NEW churn \in Int, NEW cac,
           NEW ramp, ramp = Ramp(current, target, n, churn, cac)
    PROVE  /\ ramp[n].end_value >= target
           /\ ramp[n].end_value > target => ramp[n].gross_adds = 0
           /\ ramp[n].end_value - current = SumOver([i \in 1..n |-> ramp[i].gross_adds - ramp[i].churned])
<1>1. ramp = [i \in 1..n |-> RampMonth(current, target, n, churn, cac, i,
                                       IF i = 1 THEN current ELSE ramp[i - 1].end_value)]
  BY RampUnfolds
<1>2. \A i \in 1..n : ramp[i].end_value \in Int
  BY RampTypes
<1> DEFINE begin(i) == IF i = 1 THEN current ELSE ramp[i - 1].end_value
<1>3. ASSUME NEW i \in 1..n
      PROVE  /\ begin(i) \in Int /\ ramp[i].churned \in Int /\ ramp[i].gross_adds \in Nat
             /\ ramp[i].end_value = begin(i) + ramp[i].gross_adds - ramp[i].churned
             /\ i = n => ramp[i].gross_adds = IF target + ramp[i].churned - begin(i) < 0 THEN 0
                                              ELSE target + ramp[i].churned - begin(i)
  <2>1. begin(i) \in Int
    <3>1. CASE i = 1
      BY <3>1
    <3>2. CASE i # 1
      <4>1. i - 1 \in 1..n
        BY <3>2
      <4> QED
        BY <1>2, <3>2, <4>1
    <3> QED
      BY <3>1, <3>2
  <2>2. ramp[i] = RampMonth(current, target, n, churn, cac, i, begin(i))
    BY <1>1
  <2> HIDE DEF begin
  <2> QED
    BY <2>1, <2>2, MonthTypes
<1> DEFINE q == [i \in 1..n |-> ramp[i].gross_adds - ramp[i].churned]
           t == [i \in 0..n |-> IF i = 0 THEN 0 ELSE ramp[i].end_value - current]
<1>4. n \in 1..n /\ n \in 0..n
  OBVIOUS
<1>5. SumOver(q) = t[n]
  <2>1. q \in [1..n -> Int]
    BY <1>3
  <2>2. t \in [0..n -> Int] /\ t[0] = 0
    <3>1. \A i \in 0..n : i # 0 => i \in 1..n
      OBVIOUS
    <3> QED
      BY <1>2, <3>1
  <2>3. ASSUME NEW k \in 1..n PROVE t[k] = t[k - 1] + q[k]
    <3>1. t[k] = ramp[k].end_value - current /\ q[k] = ramp[k].gross_adds - ramp[k].churned
      OBVIOUS
    <3>2. t[k - 1] = begin(k) - current
      <4>1. CASE k = 1
        BY <4>1
      <4>2. CASE k # 1
        <5>1. k - 1 \in 0..n /\ k - 1 # 0
          BY <4>2
        <5> QED
          BY <4>2, <5>1
      <4> QED
        BY <4>1, <4>2
    <3> HIDE DEF t, q, begin
    <3> QED
      BY <1>2, <1>3, <3>1, <3>2
  <2> HIDE DEF q, t
  <2> QED
    BY <2>1, <2>2, <2>3, SumIs
<1>6. t[n] = ramp[n].end_value - current
  BY <1>4
<1>7. ramp[n].end_value >= target /\ (ramp[n].end_value > target => ramp[n].gross_adds = 0)
  <2>1. PICK b \in Int : b = begin(n)
    BY <1>3, <1>4
  <2>2. PICK c \in Int : c = ramp[n].churned
    BY <1>3, <1>4
  <2>3. PICK g \in Int : g = ramp[n].gross_adds
    BY <1>3, <1>4
  <2>4. ramp[n].end_value = b + g - c /\ g = IF target + c - b < 0 THEN 0 ELSE target + c - b
    <3> HIDE DEF begin
    <3> QED
      BY <1>3, <1>4, <2>1, <2>2, <2>3
  <2> QED
    BY <2>3, <2>4
<1> QED
  BY <1>5, <1>6, <1>7

-----------------------------------------------------------------------------
(* KPI cards (metrics/engine.py)                                           *)

LEMMA ChangePointsRight ==
    ASSUME NEW current \in Int, NEW previous \in Int, NEW c \in _pct_change(current, previous)
    PROVE  /\ c > 0 => current - previous > 0
           /\ c < 0 => current - previous < 0
           /\ c = 0 => 20000 * Magnitude(current - previous) <= Magnitude(previous)
<1>1. previous # 0 /\ c = HalfEven((current - previous) * 10000, Magnitude(previous))
  BY DEF _pct_change
<1>2. PICK d \in Nat \ {0} : d = Magnitude(previous)
  BY <1>1, MagnitudeFacts
<1>3. PICK x \in Int : x = current - previous
  OBVIOUS
<1>m. PICK m \in Int : m = x * 10000
  OBVIOUS
<1>4. PICK h \in Int : /\ HalfEven(m, d) = h
                       /\ 2 * (d * h) <= 2 * m + d
                       /\ 2 * m <= 2 * (d * h) + d
                       /\ m >= 0 => h >= 0
                       /\ m <= 0 => h <= 0
  <2>1. PICK h \in Int : HalfEven(m, d) = h /\ 2 * (d * h) <= 2 * m + d /\ 2 * m <= 2 * (d * h) + d
    BY HalfEvenNear
  <2>2. PICK k \in Int : HalfEven(m, d) = k /\ (m >= 0 => k >= 0) /\ (m <= 0 => k <= 0)
    BY HalfEvenNear
  <2> QED
    BY <2>1, <2>2
<1>5. c = h
  BY <1>1, <1>2, <1>3, <1>4, <1>m
<1>6. h = 0 => 20000 * Magnitude(x) <= d
  <2>1. PICK y \in Nat : y = Magnitude(x) /\ (x >= 0 => y = x) /\ (x < 0 => y = 0 - x)
    BY MagnitudeFacts
  <2>2. h = 0 => d * h = 0
    OBVIOUS
  <2>3. h = 0 => 20000 * y <= d
    BY <1>4, <1>m, <2>1, <2>2
  <2> QED
    BY <2>1, <2>3
<1> QED
  BY <1>2, <1>3, <1>4, <1>5, <1>6, <1>m

LEMMA ProgressShowsAll ==
    ASSUME NEW current \in Int, NEW target \in Nat \ {0},
           NEW p, p = Signed(target, HalfEven(current * 10000, Magnitude(target)))
    PROVE  /\ p \in Int
           /\ current >= target => p >= 10000
           /\ p >= 10000 => 20000 * (target - current) <= target
<1>1. Magnitude(target) = target /\ ~ (target < 0)
  BY DEF Magnitude
<1>2. PICK h \in Int : /\ HalfEven(current * 10000, target) = h
                       /\ 2 * (target * h) <= 2 * (current * 10000) + target
                       /\ 2 * (current * 10000) <= 2 * (target * h) + target
  <2>1. current * 10000 \in Int
    OBVIOUS
  <2> QED
    BY <2>1, HalfEvenNear
<1>3. p = h
  BY <1>1, <1>2 DEF Signed
<1>4. PICK x \in Int : x = target * h
  OBVIOUS
<1>5. ASSUME current >= target PROVE h >= 10000
  <2>1. SUFFICES ASSUME h <= 9999 PROVE FALSE
    OBVIOUS
  <2>2. target * h <= target * 9999
    BY <2>1
  <2> QED
    BY <1>2, <1>4, <1>5, <2>2
<1>6. ASSUME h >= 10000 PROVE 20000 * (target - current) <= target
  <2>1. target * h >= target * 10000
    BY <1>6
  <2> QED
    BY <1>2, <1>4, <2>1
<1> QED
  BY <1>3, <1>5, <1>6

-----------------------------------------------------------------------------
(* The steps                                                               *)

TypeInv == topic \in Topics /\ given \in Inputs[topic] /\ done \in BOOLEAN

\* A step leaves the question alone and answers it at once.
LEMMA StepAnswers ==
    ASSUME Next
    PROVE  ~ done /\ done' = TRUE /\ topic' = topic /\ given' = given
<1>1. CASE ScoreRecord
  BY <1>1 DEF ScoreRecord, Compute
<1>2. CASE SnapshotDso
  BY <1>2 DEF SnapshotDso, Compute
<1>3. CASE ForecastCash
  BY <1>3 DEF ForecastCash, Compute
<1>4. CASE RunMargins
  BY <1>4 DEF RunMargins, Compute
<1>5. CASE ScoreBid
  BY <1>5 DEF ScoreBid, Compute
<1>6. CASE ValueCompany
  BY <1>6 DEF ValueCompany, Compute
<1>7. CASE PlanGrowth
  BY <1>7 DEF PlanGrowth, Compute
<1>8. CASE Advise
  BY <1>8 DEF Advise, Compute
<1>9. CASE SummarizeKpi
  BY <1>9 DEF SummarizeKpi, Compute
<1>10. CASE MatchCustomer
  BY <1>10 DEF MatchCustomer, Compute
<1>11. CASE MatchPayment
  BY <1>11 DEF MatchPayment, Compute
<1>12. CASE CutText
  BY <1>12 DEF CutText, Compute
<1>13. CASE ParseTranscript
  BY <1>13 DEF ParseTranscript, Compute
<1>14. CASE Retrieve
  BY <1>14 DEF Retrieve, Compute
<1> QED
  BY <1>1, <1>2, <1>3, <1>4, <1>5, <1>6, <1>7, <1>8, <1>9, <1>10, <1>11, <1>12, <1>13, <1>14 DEF Next

\* A step of the topic that was given.
LEMMA TopicStep ==
    ASSUME Next
    PROVE  /\ topic = "confidence" => ScoreRecord
           /\ topic = "dso" => SnapshotDso
           /\ topic = "forecast" => ForecastCash
           /\ topic = "margin" => RunMargins
           /\ topic = "bid" => ScoreBid
           /\ topic = "value" => ValueCompany
           /\ topic = "growth" => PlanGrowth
           /\ topic = "advice" => Advise
           /\ topic = "kpi" => SummarizeKpi
           /\ topic = "customers" => MatchCustomer
           /\ topic = "payments" => MatchPayment
           /\ topic = "chunks" => CutText
           /\ topic = "transcript" => ParseTranscript
           /\ topic = "retrieval" => Retrieve
<1>1. ScoreRecord => topic = "confidence"
  BY DEF ScoreRecord
<1>2. SnapshotDso => topic = "dso"
  BY DEF SnapshotDso
<1>3. ForecastCash => topic = "forecast"
  BY DEF ForecastCash
<1>4. RunMargins => topic = "margin"
  BY DEF RunMargins
<1>5. ScoreBid => topic = "bid"
  BY DEF ScoreBid
<1>6. ValueCompany => topic = "value"
  BY DEF ValueCompany
<1>7. PlanGrowth => topic = "growth"
  BY DEF PlanGrowth
<1>8. Advise => topic = "advice"
  BY DEF Advise
<1>9. SummarizeKpi => topic = "kpi"
  BY DEF SummarizeKpi
<1>10. MatchCustomer => topic = "customers"
  BY DEF MatchCustomer
<1>11. MatchPayment => topic = "payments"
  BY DEF MatchPayment
<1>12. CutText => topic = "chunks"
  BY DEF CutText
<1>13. ParseTranscript => topic = "transcript"
  BY DEF ParseTranscript
<1>14. Retrieve => topic = "retrieval"
  BY DEF Retrieve
<1> QED
  BY <1>1, <1>2, <1>3, <1>4, <1>5, <1>6, <1>7, <1>8, <1>9, <1>10, <1>11, <1>12, <1>13, <1>14 DEF Next

THEOREM TypeOK == Spec => []TypeInv
<1>1. Init => TypeInv
  BY DEF Init, TypeInv
<1>2. TypeInv /\ [Next]_calcVars => TypeInv'
  <2>1. TypeInv /\ Next => TypeInv'
    BY StepAnswers DEF TypeInv
  <2>2. TypeInv /\ UNCHANGED calcVars => TypeInv'
    BY DEF TypeInv, calcVars
  <2> QED
    BY <2>1, <2>2
<1> QED
  BY <1>1, <1>2, PTL DEF Spec

\* The ramp to a target and the distance from one are what they claim, for every
\* goal, churn and series of snapshots.
THEOREM GoalsAreMeasured == Spec => []GoalsMeasured
<1>1. Init => GoalsMeasured
  BY DEF Init, GoalsMeasured, RampReachesTarget, KpiPointsRight, Answered, SumUpTo
<1>2. TypeInv /\ GoalsMeasured /\ [Next]_calcVars => GoalsMeasured'
  <2> SUFFICES ASSUME TypeInv, GoalsMeasured, [Next]_calcVars PROVE GoalsMeasured'
    OBVIOUS
  <2>1. CASE UNCHANGED calcVars
    BY <2>1 DEF GoalsMeasured, RampReachesTarget, KpiPointsRight, Answered, calcVars, SumUpTo
  <2>2. CASE Next
    <3>1. RampReachesTarget'
      <4>1. SUFFICES ASSUME topic = "growth"
                     PROVE  RampReachesTarget'
        BY <2>2, StepAnswers DEF RampReachesTarget, Answered
      <4>2. PICK ramp : /\ ramp = Ramp(given.current, given.target, given.months, given.churn,
                                       CacBlended(given.channels))
                        /\ result'.plan.ramp = ramp
        <5>1. PlanGrowth
          BY <2>2, <4>1, TopicStep
        <5> QED
          BY <5>1 DEF PlanGrowth, Compute, build_plan
      <4>3. given.current \in Int /\ given.target \in Int /\ given.months \in Nat \ {0} /\ given.churn \in Int
        BY <4>1, InputsAssumption DEF TypeInv, GoalsOK
      <4>4. /\ ramp[given.months].end_value >= given.target
            /\ ramp[given.months].end_value > given.target => ramp[given.months].gross_adds = 0
            /\ ramp[given.months].end_value - given.current
                  = SumOver([i \in 1..given.months |-> ramp[i].gross_adds - ramp[i].churned])
        BY <4>2, <4>3, RampReaches
      <4> QED
        BY <2>2, <4>2, <4>4, StepAnswers DEF RampReachesTarget, SumUpTo
    <3>2. KpiPointsRight'
      <4>1. SUFFICES ASSUME topic = "kpi"
                     PROVE  KpiPointsRight'
        BY <2>2, StepAnswers DEF KpiPointsRight, Answered
      <4>2. result' = kpi_summary(given.snapshots, given.target)
        <5>1. SummarizeKpi
          BY <2>2, <4>1, TopicStep
        <5> QED
          BY <5>1 DEF SummarizeKpi, Compute
      <4>3. given.snapshots \in Seq(Int) /\ given.target \in Int
        BY <4>1, InputsAssumption DEF TypeInv, GoalsOK
      <4>4. ASSUME NEW c \in result'.change_pct
            PROVE  LET change == given.snapshots[1] - given.snapshots[2] IN
                   /\ c > 0 => change > 0
                   /\ c < 0 => change < 0
                   /\ c = 0 => 20000 * Magnitude(change) <= Magnitude(given.snapshots[2])
        <5>1. Len(given.snapshots) > 1 /\ c \in _pct_change(given.snapshots[1], given.snapshots[2])
          BY <4>2, <4>4 DEF kpi_summary
        <5>2. given.snapshots[1] \in Int /\ given.snapshots[2] \in Int
          BY <4>3, <5>1
        <5> QED
          BY <5>1, <5>2, ChangePointsRight
      <4>5. ASSUME given.target > 0, NEW p \in result'.progress_pct
            PROVE  /\ given.snapshots[1] >= given.target => p >= 10000
                   /\ p >= 10000 => 20000 * (given.target - given.snapshots[1]) <= given.target
        <5>1. /\ given.snapshots # <<>>
              /\ p = Signed(given.target, HalfEven(given.snapshots[1] * 10000, Magnitude(given.target)))
          BY <4>2, <4>5 DEF kpi_summary
        <5>2. PICK current \in Int : current = given.snapshots[1]
          BY <4>3, <5>1
        <5>3. PICK target \in Nat \ {0} : target = given.target
          BY <4>3, <4>5
        <5>4. p = Signed(target, HalfEven(current * 10000, Magnitude(target)))
          BY <5>1, <5>2, <5>3
        <5>5. /\ current >= target => p >= 10000
              /\ p >= 10000 => 20000 * (target - current) <= target
          BY <5>4, ProgressShowsAll
        <5> QED
          BY <5>2, <5>3, <5>5
      <4> QED
        BY <2>2, <4>4, <4>5, StepAnswers DEF KpiPointsRight
    <3> QED
      BY <3>1, <3>2 DEF GoalsMeasured
  <2> QED
    BY <2>1, <2>2
<1> QED
  BY <1>1, <1>2, TypeOK, PTL DEF Spec

-----------------------------------------------------------------------------
(* Filters                                                                 *)

\* at lists the numbers of I up to n, in their order.
Listing(at, n, I) ==
    /\ at \in Seq(I \intersect 1..n)
    /\ \A i, j \in 1..Len(at) : i < j => at[i] < at[j]
    /\ \A i \in I \intersect 1..n : \E j \in 1..Len(at) : at[j] = i

\* env is <<I>>.
Placing == INSTANCE Folding WITH
    Op <- LAMBDA env, out, i : IF i \in env[1] THEN Append(out, i) ELSE out,
    Holds <- LAMBDA env, k, out : Listing(out, k, env[1])

LEMMA PlacesFold ==
    ASSUME NEW n \in Nat, NEW I
    PROVE  Places(n, I) = Placing!Fold(<<I>>, <<>>, [i \in 1..n |-> i])
<1>1. <<I>>[1] = I
  OBVIOUS
<1> QED
  BY <1>1 DEF Places, Placing!Fold, Placing!Highest, FoldLeft, MapThenFoldSet, Max

LEMMA OnePlaceMore ==
    ASSUME NEW I, NEW k \in Nat \ {0}, NEW out, Listing(out, k - 1, I)
    PROVE  Listing(IF k \in I THEN Append(out, k) ELSE out, k, I)
<1> DEFINE more == IF k \in I THEN Append(out, k) ELSE out
<1>0. /\ out \in Seq(I \intersect 1..(k - 1))
      /\ \A i, j \in 1..Len(out) : i < j => out[i] < out[j]
      /\ \A i \in I \intersect 1..(k - 1) : \E j \in 1..Len(out) : out[j] = i
  BY DEF Listing
<1>1. PICK m \in Nat : m = Len(out) /\ DOMAIN out = 1..m
  BY <1>0
<1>2. \A i \in 1..m : out[i] \in I /\ out[i] \in 1..(k - 1)
  BY <1>0, <1>1
<1>3. out \in Seq(I \intersect 1..k)
  <2>1. \A i \in 1..m : out[i] \in I \intersect 1..k
    BY <1>2
  <2> QED
    BY <1>0, <1>1, <2>1
<1>4. CASE k \notin I
  <2>1. \A i \in I \intersect 1..k : i \in I \intersect 1..(k - 1)
    BY <1>4
  <2> QED
    BY <1>0, <1>3, <1>4, <2>1 DEF Listing
<1>5. CASE k \in I
  <2>1. more = Append(out, k) /\ k \in I \intersect 1..k
    BY <1>5
  <2>2. /\ more \in Seq(I \intersect 1..k) /\ DOMAIN more = 1..(m + 1)
        /\ more[m + 1] = k /\ \A i \in 1..m : more[i] = out[i]
    BY <1>0, <1>1, <1>3, <2>1
  <2>3. ASSUME NEW i \in 1..(m + 1), NEW j \in 1..(m + 1), i < j PROVE more[i] < more[j]
    <3>1. i \in 1..m
      BY <2>3
    <3>2. CASE j = m + 1
      BY <1>2, <2>2, <3>1, <3>2
    <3>3. CASE j # m + 1
      <4>1. j \in 1..m
        BY <3>3
      <4> QED
        BY <1>0, <1>1, <2>2, <2>3, <3>1, <4>1
    <3> QED
      BY <3>2, <3>3
  <2>4. ASSUME NEW i \in I \intersect 1..k PROVE \E j \in DOMAIN more : more[j] = i
    <3>1. CASE i = k
      BY <2>2, <3>1
    <3>2. CASE i # k
      <4>1. i \in I \intersect 1..(k - 1)
        BY <3>2
      <4>2. PICK j \in 1..m : out[j] = i
        BY <1>0, <1>1, <4>1
      <4>3. j \in DOMAIN more /\ more[j] = i
        BY <2>2, <4>2
      <4> QED
        BY <4>3
    <3> QED
      BY <3>1, <3>2
  <2>5. Len(more) = m + 1
    BY <2>2
  <2> HIDE DEF more
  <2>6. Listing(more, k, I)
    BY <2>2, <2>3, <2>4, <2>5 DEF Listing
  <2> QED
    BY <2>6 DEF more
<1> QED
  BY <1>4, <1>5

\* The places of I are all there, in their order.
LEMMA PlacesAre ==
    ASSUME NEW n \in Nat, NEW I
    PROVE  Listing(Places(n, I), n, I)
<1> DEFINE s == [i \in 1..n |-> i]
           env == <<I>>
<1>1. DOMAIN s = 1..n /\ \A k \in 1..n : s[k] = k
  OBVIOUS
<1>2. env[1] = I
  OBVIOUS
<1>3. Listing(<<>>, 0, I)
  BY DEF Listing
<1>4. \A k \in 1..n : \A out :
         Listing(out, k - 1, I) => Listing(IF k \in I THEN Append(out, k) ELSE out, k, I)
  <2>1. \A k \in 1..n : k \in Nat \ {0}
    OBVIOUS
  <2> QED
    BY <2>1, OnePlaceMore
<1>5. Listing(Placing!Fold(env, <<>>, s), n, env[1])
  <2> HIDE DEF s, env
  <2>1. Listing(<<>>, 0, env[1])
    BY <1>2, <1>3
  <2>2. \A k \in 1..n : \A out :
         Listing(out, k - 1, env[1]) => Listing(IF s[k] \in env[1] THEN Append(out, s[k]) ELSE out, k, env[1])
    BY <1>1, <1>2, <1>4
  <2> QED
    BY <1>1, <2>1, <2>2, Placing!FoldInduction
<1> QED
  BY <1>2, <1>5, PlacesFold

\* What is kept of a list over S is a list over S.
LEMMA KeptIsSeq ==
    ASSUME NEW S, NEW s \in Seq(S), NEW I
    PROVE  Kept(s, I) \in Seq(S)
<1>1. PICK n \in Nat : n = Len(s) /\ DOMAIN s = 1..n
  OBVIOUS
<1>2. PICK at : at = Places(n, I) /\ at \in Seq(I \intersect 1..n)
  BY PlacesAre DEF Listing
<1>3. PICK m \in Nat : m = Len(at) /\ DOMAIN at = 1..m
  BY <1>2
<1>4. \A j \in 1..m : at[j] \in 1..n /\ s[at[j]] \in S
  BY <1>1, <1>2, <1>3
<1>5. Kept(s, I) = [j \in 1..m |-> s[at[j]]]
  BY <1>1, <1>2, <1>3 DEF Kept
<1> QED
  BY <1>4, <1>5

\* What is kept of s is s at the places of I; something is kept if there is a place.
KeptFrom(kept, s, n, I) ==
    /\ kept \in Seq({s[i] : i \in I \intersect 1..n})
    /\ (\E i \in I : i \in 1..n) => kept # <<>>
    /\ \A i \in I \intersect 1..n : \E j \in DOMAIN kept : kept[j] = s[i]

LEMMA KeptIs ==
    ASSUME NEW n \in Nat, NEW s, Len(s) = n, NEW I
    PROVE  KeptFrom(Kept(s, I), s, n, I)
<1>1. PICK at : at = Places(n, I) /\ Listing(at, n, I)
  BY PlacesAre
<1>2. at \in Seq(I \intersect 1..n) /\ \A i \in I \intersect 1..n : \E j \in 1..Len(at) : at[j] = i
  BY <1>1 DEF Listing
<1>3. PICK m \in Nat : m = Len(at) /\ DOMAIN at = 1..m
  BY <1>2
<1>4. Kept(s, I) = [j \in 1..m |-> s[at[j]]]
  BY <1>1, <1>3 DEF Kept
<1>5. \A j \in 1..m : s[at[j]] \in {s[i] : i \in I \intersect 1..n}
  BY <1>2, <1>3
<1>6. Kept(s, I) \in Seq({s[i] : i \in I \intersect 1..n})
  BY <1>4, <1>5
<1>7. ASSUME NEW i \in I, i \in 1..n PROVE Kept(s, I) # <<>>
  <2>1. m # 0
    BY <1>2, <1>3, <1>7
  <2>2. DOMAIN Kept(s, I) # {}
    BY <1>4, <2>1
  <2> QED
    BY <2>2
<1>8. ASSUME NEW i \in I \intersect 1..n PROVE \E j \in DOMAIN Kept(s, I) : Kept(s, I)[j] = s[i]
  <2>1. PICK j \in 1..m : at[j] = i
    BY <1>2, <1>3
  <2>2. j \in DOMAIN Kept(s, I) /\ Kept(s, I)[j] = s[i]
    BY <1>4, <2>1
  <2> QED
    BY <2>2
<1> QED
  BY <1>6, <1>7, <1>8 DEF KeptFrom

-----------------------------------------------------------------------------
(* Advice (growth/profit_advisor.py)                                       *)

Titles(ideas, k) == {ideas[i].title : i \in 1..k}

LastTitled(ideas, k, t) ==
    CHOOSE i \in 1..k : ideas[i].title = t /\ \A j \in (i + 1)..k : ideas[j].title # t

\* What there is after the first k ideas: what was decided, else the last idea
\* with the title, else what was there before.
Settled(recs, ideas, k) ==
    [t \in DOMAIN recs \union Titles(ideas, k) |->
        IF t \in DOMAIN recs /\ recs[t].status # "proposed" THEN recs[t]
        ELSE IF t \in Titles(ideas, k)
             THEN [status |-> "proposed", idea |-> ideas[LastTitled(ideas, k, t)]]
             ELSE recs[t]]

\* env is <<recs, ideas>>.
Merging == INSTANCE Folding WITH
    Op <- LAMBDA env, recs, idea : Merge(recs, idea),
    Holds <- LAMBDA env, k, recs : recs = Settled(env[1], env[2], k)

LEMMA LastTitledIs ==
    ASSUME NEW ideas, NEW k \in Nat, NEW t, t \in Titles(ideas, k)
    PROVE  /\ LastTitled(ideas, k, t) \in 1..k
           /\ ideas[LastTitled(ideas, k, t)].title = t
           /\ \A j \in (LastTitled(ideas, k, t) + 1)..k : ideas[j].title # t
<1> DEFINE S == {i \in 1..k : ideas[i].title = t}
<1>1. S # {} /\ S \subseteq 1..k
  BY DEF Titles
<1>2. PICK i \in S : \A j \in S : i >= j
  <2> DEFINE T == {n \in Nat : \E j \in S : n = k - j}
  <2>1. T # {} /\ T \subseteq Nat
    <3>1. PICK j \in S : TRUE
      BY <1>1
    <3>2. k - j \in T
      BY <3>1
    <3> QED
      BY <3>2
  <2>2. PICK n \in T : \A m \in T : ~ (<<m, n>> \in Adding!LessNat)
    <3> HIDE DEF T
    <3> QED
      BY <2>1, Adding!LessNatWellFounded, Adding!WFMin
  <2>3. PICK j \in S : n = k - j
    BY <2>2
  <2>4. ASSUME NEW i \in S PROVE j >= i
    <3>1. k - i \in T /\ i \in 1..k /\ j \in 1..k
      BY <1>1
    <3>2. ~ (<<k - i, n>> \in Adding!LessNat)
      BY <2>2, <3>1
    <3>3. k - i \in Nat /\ n \in Nat
      BY <2>2, <3>1
    <3>4. ~ (k - i < n)
      BY <3>2, <3>3 DEF Adding!LessNat
    <3> QED
      BY <2>3, <3>1, <3>4
  <2> QED
    BY <2>4
<1>3. i \in 1..k /\ ideas[i].title = t /\ \A j \in (i + 1)..k : ideas[j].title # t
  BY <1>2
<1>4. \E n \in 1..k : ideas[n].title = t /\ \A j \in (n + 1)..k : ideas[j].title # t
  BY <1>3
<1> QED
  BY <1>4 DEF LastTitled

LEMMA LastTitledOnly ==
    ASSUME NEW ideas, NEW k \in Nat, NEW i \in 1..k, NEW t, ideas[i].title = t,
           \A j \in (i + 1)..k : ideas[j].title # t
    PROVE  LastTitled(ideas, k, t) = i
<1>1. PICK m \in 1..k : /\ m = LastTitled(ideas, k, t) /\ ideas[m].title = t
                        /\ \A j \in (m + 1)..k : ideas[j].title # t
  BY LastTitledIs DEF Titles
<1>2. ~ (m < i) /\ ~ (i < m)
  BY <1>1
<1> QED
  BY <1>1, <1>2

\* One idea more.
LEMMA SettledMerges ==
    ASSUME NEW recs, NEW ideas, NEW k \in Nat \ {0}
    PROVE  Merge(Settled(recs, ideas, k - 1), ideas[k]) = Settled(recs, ideas, k)
<1> DEFINE old == Settled(recs, ideas, k - 1)
           new == Settled(recs, ideas, k)
           u == ideas[k].title
<1>1. Titles(ideas, k) = Titles(ideas, k - 1) \union {u}
  <2>1. 1..k = 1..(k - 1) \union {k}
    OBVIOUS
  <2> QED
    BY <2>1 DEF Titles
<1>2. DOMAIN old = DOMAIN recs \union Titles(ideas, k - 1)
  BY DEF Settled
<1>3. LastTitled(ideas, k, u) = k
  <2>1. k \in 1..k /\ \A j \in (k + 1)..k : ideas[j].title # u
    OBVIOUS
  <2> QED
    BY <2>1, LastTitledOnly
<1>4. ASSUME NEW t \in Titles(ideas, k - 1), t # u
      PROVE  LastTitled(ideas, k, t) = LastTitled(ideas, k - 1, t)
  <2>1. PICK m \in 1..(k - 1) : /\ m = LastTitled(ideas, k - 1, t) /\ ideas[m].title = t
                                /\ \A j \in (m + 1)..(k - 1) : ideas[j].title # t
    BY LastTitledIs
  <2>2. m \in 1..k /\ \A j \in (m + 1)..k : ideas[j].title # t
    BY <1>4, <2>1
  <2> QED
    BY <2>1, <2>2, LastTitledOnly
<1>5. ASSUME NEW t \in DOMAIN recs \union Titles(ideas, k)
      PROVE  new[t] = IF t = u /\ (t \in DOMAIN old => old[t].status = "proposed")
                      THEN [status |-> "proposed", idea |-> ideas[k]] ELSE old[t]
  <2>1. CASE t \in DOMAIN recs /\ recs[t].status # "proposed"
    <3>1. t \in DOMAIN old /\ old[t] = recs[t] /\ new[t] = recs[t]
      BY <1>2, <2>1 DEF Settled
    <3> QED
      BY <2>1, <3>1
  <2>2. CASE ~ (t \in DOMAIN recs /\ recs[t].status # "proposed")
    <3>1. CASE t = u
      <4>1. new[t] = [status |-> "proposed", idea |-> ideas[k]]
        BY <1>1, <1>3, <2>2, <3>1 DEF Settled
      <4>2. t \in DOMAIN old => old[t].status = "proposed"
        <5>1. ASSUME t \in Titles(ideas, k - 1) PROVE old[t].status = "proposed"
          BY <2>2, <5>1 DEF Settled
        <5>2. ASSUME t \in DOMAIN recs, t \notin Titles(ideas, k - 1) PROVE old[t].status = "proposed"
          BY <2>2, <5>2 DEF Settled
        <5> QED
          BY <1>2, <5>1, <5>2
      <4> HIDE DEF old, new, u
      <4> QED
        BY <3>1, <4>1, <4>2
    <3>2. CASE t # u
      <4>1. t \in Titles(ideas, k) <=> t \in Titles(ideas, k - 1)
        BY <1>1, <3>2
      <4>2. t \in DOMAIN old
        BY <1>2, <4>1
      <4>3. new[t] = old[t]
        BY <1>2, <1>4, <2>2, <3>2, <4>1, <4>2 DEF Settled
      <4> QED
        BY <3>2, <4>3
    <3> QED
      BY <3>1, <3>2
  <2> QED
    BY <2>1, <2>2
<1>6. DOMAIN old \union {u} = DOMAIN recs \union Titles(ideas, k)
  BY <1>1, <1>2
<1>7. new = [t \in DOMAIN recs \union Titles(ideas, k) |-> new[t]]
  BY DEF Settled
<1>8. Merge(old, ideas[k]) = [t \in DOMAIN old \union {u} |->
            IF t = u /\ (t \in DOMAIN old => old[t].status = "proposed")
            THEN [status |-> "proposed", idea |-> ideas[k]] ELSE old[t]]
  BY DEF Merge
<1>9. Merge(old, ideas[k]) = new
  <2> HIDE DEF old, new, u
  <2> QED
    BY <1>5, <1>6, <1>7, <1>8
<1> QED
  BY <1>9

LEMMA BuildSettles ==
    ASSUME NEW recs, NEW n \in Nat, NEW ideas, DOMAIN ideas = 1..n,
           recs = [t \in DOMAIN recs |-> recs[t]]
    PROVE  build_recommendations(recs, ideas) = Settled(recs, ideas, n)
<1> DEFINE env == <<recs, ideas>>
<1>1. env[1] = recs /\ env[2] = ideas
  OBVIOUS
<1>2. recs = Settled(recs, ideas, 0)
  <2>1. Titles(ideas, 0) = {}
    BY DEF Titles
  <2>2. Settled(recs, ideas, 0) = [t \in DOMAIN recs |-> recs[t]]
    BY <2>1 DEF Settled
  <2> QED
    BY <2>2
<1>3. \A k \in 1..n : \A x : x = Settled(recs, ideas, k - 1) => Merge(x, ideas[k]) = Settled(recs, ideas, k)
  <2>1. \A k \in 1..n : k \in Nat \ {0}
    OBVIOUS
  <2> QED
    BY <2>1, SettledMerges
<1>4. Merging!Fold(env, recs, ideas) = Settled(recs, ideas, n)
  <2> HIDE DEF env
  <2> QED
    BY <1>1, <1>2, <1>3, Merging!FoldInduction
<1>5. build_recommendations(recs, ideas) = Merging!Fold(env, recs, ideas)
  BY DEF build_recommendations, Merging!Fold, Merging!Highest, FoldLeft, MapThenFoldSet, Max
<1> QED
  BY <1>4, <1>5

\* To settle what is settled takes no row away and no decision back, and changes a row
\* only for a title whose last idea is another one.
LEMMA SettledAgain ==
    ASSUME NEW recs, NEW ideas, NEW n \in Nat, NEW others, NEW m \in Nat,
           Titles(others, m) = Titles(ideas, n),
           NEW old, old = Settled(recs, ideas, n),
           NEW new, new = Settled(old, others, m)
    PROVE  /\ DOMAIN new = DOMAIN old
           /\ \A t \in DOMAIN old :
                 /\ new[t].status = old[t].status
                 /\ old[t].status # "proposed" => new[t] = old[t]
                 /\ (t \in Titles(ideas, n) =>
                        others[LastTitled(others, m, t)] = ideas[LastTitled(ideas, n, t)])
                    => new[t] = old[t]
<1>1. DOMAIN old = DOMAIN recs \union Titles(ideas, n)
  BY DEF Settled
<1>2. ASSUME NEW t \in DOMAIN old, old[t].status = "proposed", t \in Titles(ideas, n)
      PROVE  old[t] = [status |-> "proposed", idea |-> ideas[LastTitled(ideas, n, t)]]
  BY <1>1, <1>2 DEF Settled
<1>3. DOMAIN new = DOMAIN old
  BY <1>1 DEF Settled
<1>4. ASSUME NEW t \in DOMAIN old
      PROVE  new[t] = IF old[t].status # "proposed" THEN old[t]
                      ELSE IF t \in Titles(others, m)
                           THEN [status |-> "proposed", idea |-> others[LastTitled(others, m, t)]]
                           ELSE old[t]
  <2>1. t \in DOMAIN old \union Titles(others, m)
    BY <1>4
  <2> QED
    BY <1>4, <2>1 DEF Settled
<1>5. ASSUME NEW t \in DOMAIN old
      PROVE  /\ new[t].status = old[t].status
             /\ old[t].status # "proposed" => new[t] = old[t]
             /\ (t \in Titles(ideas, n) =>
                     others[LastTitled(others, m, t)] = ideas[LastTitled(ideas, n, t)])
                => new[t] = old[t]
  <2>1. CASE old[t].status = "proposed" /\ t \in Titles(ideas, n)
    <3>1. new[t] = [status |-> "proposed", idea |-> others[LastTitled(others, m, t)]]
      BY <1>4, <1>5, <2>1
    <3>2. old[t] = [status |-> "proposed", idea |-> ideas[LastTitled(ideas, n, t)]]
      BY <1>2, <1>5, <2>1
    <3>3. new[t].status = "proposed"
      BY <3>1
    <3> QED
      BY <2>1, <3>1, <3>2, <3>3
  <2>2. CASE ~ (old[t].status = "proposed" /\ t \in Titles(ideas, n))
    <3>1. new[t] = old[t]
      BY <1>4, <1>5, <2>2
    <3> QED
      BY <3>1
  <2> QED
    BY <2>1, <2>2
<1> QED
  BY <1>3, <1>5

\* Lists of anything, put together.
LEMMA ConcatIsList ==
    ASSUME NEW S, NEW T, NEW s \in Seq(S), NEW t \in Seq(T)
    PROVE  s \o t \in Seq(S \union T)
  OBVIOUS

LEMMA IsList ==
    ASSUME NEW n \in Nat, NEW s, s = [i \in 1..n |-> s[i]]
    PROVE  s \in Seq({s[i] : i \in 1..n})
<1>1. s \in [1..n -> {s[i] : i \in 1..n}]
  OBVIOUS
<1> QED
  BY <1>1

\* The pain points that are felt, and the ideas they bring.
FeltIn(pains) == {pains[i] : i \in {j \in DOMAIN pains : Felt(pains[j])}}

Surfaced(pains) ==
    LET felt == Where(pains, Felt) IN [i \in DOMAIN felt |-> Idea(felt[i].title, {}, felt[i].detail)]

\* Each idea surfaced is of a pain point that is felt, and each of those brings one.
LEMMA SurfacedAre ==
    ASSUME NEW pains \in Seq(Pains)
    PROVE  \E m \in Nat :
              /\ Surfaced(pains) = [i \in 1..m |-> Surfaced(pains)[i]]
              /\ \A i \in 1..m : \E p \in FeltIn(pains) : Surfaced(pains)[i] = Idea(p.title, {}, p.detail)
              /\ \A p \in FeltIn(pains) : \E i \in 1..m : Surfaced(pains)[i] = Idea(p.title, {}, p.detail)
<1>1. PICK n \in Nat : n = Len(pains) /\ DOMAIN pains = 1..n
  OBVIOUS
<1>2. PICK I : I = {i \in 1..n : Felt(pains[i])}
  OBVIOUS
<1>3. PICK felt : felt = Kept(pains, I)
  OBVIOUS
<1>4. Where(pains, Felt) = felt
  BY <1>1, <1>2, <1>3 DEF Where
<1>5. KeptFrom(felt, pains, n, I)
  BY <1>1, <1>3, KeptIs
<1>6. FeltIn(pains) = {pains[i] : i \in I \intersect 1..n}
  BY <1>1, <1>2 DEF FeltIn
<1>7. felt \in Seq(FeltIn(pains)) /\ \A p \in FeltIn(pains) : \E j \in DOMAIN felt : felt[j] = p
  BY <1>5, <1>6 DEF KeptFrom
<1>8. PICK m \in Nat : m = Len(felt) /\ DOMAIN felt = 1..m
  BY <1>7
<1>9. Surfaced(pains) = [i \in 1..m |-> Idea(felt[i].title, {}, felt[i].detail)]
  BY <1>4, <1>8 DEF Surfaced
<1>10. \A i \in 1..m : felt[i] \in FeltIn(pains)
  BY <1>7, <1>8
<1>11. /\ Surfaced(pains) = [i \in 1..m |-> Surfaced(pains)[i]]
       /\ \A i \in 1..m : Surfaced(pains)[i] = Idea(felt[i].title, {}, felt[i].detail)
  <2> PICK ideas : ideas = Surfaced(pains)
    OBVIOUS
  <2> QED
    BY <1>9
<1>12. \A i \in 1..m : \E p \in FeltIn(pains) : Surfaced(pains)[i] = Idea(p.title, {}, p.detail)
  BY <1>10, <1>11
<1>13. ASSUME NEW p \in FeltIn(pains)
       PROVE  \E i \in 1..m : Surfaced(pains)[i] = Idea(p.title, {}, p.detail)
  <2>1. PICK j \in 1..m : felt[j] = p
    BY <1>7, <1>8
  <2> QED
    BY <1>11, <2>1
<1> QED
  BY <1>11, <1>12, <1>13

\* What _candidates puts together is a list: what figures suggest, whatever the order of
\* the pain points, and then what these bring.
LEMMA IdeasListed ==
    ASSUME NEW primary, NEW kpis
    PROVE  \E S : \E fixed \in Seq(S) :
              \A pains : _candidates(primary, kpis, pains) = fixed \o Surfaced(pains)
<1> DEFINE churn == IF {"churn_rate", "mrr"} \subseteq DOMAIN kpis /\ kpis["churn_rate"] > 300
                    THEN <<Idea("churn", {HalfEven(kpis["mrr"] * 12, 100)}, kpis["churn_rate"])>> ELSE <<>>
           p == primary[1]
           pricing == <<Idea("pricing", {HalfEven(p.revenue * 5, 100)}, p.revenue)>>
           cost == IF p.operating_income * 100 < 5 * p.revenue
                   THEN <<Idea("cost", {HalfEven(p.operating_expenses * 5, 100)}, p.revenue)>> ELSE <<>>
           upsell == <<Idea("upsell", {HalfEven(p.revenue * 3, 100)}, p.revenue)>>
           period == IF primary # <<>> /\ primary[1].revenue > 0 THEN (pricing \o cost) \o upsell ELSE <<>>
<1>1. \A pains : _candidates(primary, kpis, pains) = (period \o churn) \o Surfaced(pains)
  BY DEF _candidates, Surfaced
<1>2. \E S : churn \in Seq(S)
  <2>1. \A x : <<x>> \in Seq({x}) /\ <<>> \in Seq({})
    OBVIOUS
  <2> QED
    BY <2>1
<1>3. \E S : period \in Seq(S)
  <2>1. \A x : <<x>> \in Seq({x}) /\ <<>> \in Seq({})
    OBVIOUS
  <2>2. PICK A, B, C : pricing \in Seq(A) /\ cost \in Seq(B) /\ upsell \in Seq(C)
    BY <2>1
  <2> HIDE DEF pricing, cost, upsell
  <2>3. (pricing \o cost) \o upsell \in Seq((A \union B) \union C)
    BY <2>2, ConcatIsList
  <2> QED
    BY <2>1, <2>3
<1> HIDE DEF period, churn
<1>4. PICK A, B : period \in Seq(A) /\ churn \in Seq(B)
  BY <1>2, <1>3
<1>5. PICK fixed : fixed = period \o churn /\ fixed \in Seq(A \union B)
  BY <1>4, ConcatIsList
<1> QED
  BY <1>1, <1>5

\* The titles of a list of n ideas that begins with those in fixed and goes on with those
\* of the pain points in felt; and the last idea of each.
Suggests(ideas, n, fixed, k, felt) ==
    /\ DOMAIN ideas = 1..n
    /\ Titles(ideas, n) = Titles(fixed, k) \union {p.title : p \in felt}
    /\ \A t \in Titles(ideas, n) :
          IF \E p \in felt : p.title = t
          THEN \E p \in felt : p.title = t /\ ideas[LastTitled(ideas, n, t)] = Idea(t, {}, p.detail)
          ELSE ideas[LastTitled(ideas, n, t)] = fixed[LastTitled(fixed, k, t)]

LEMMA SuggestsLast ==
    ASSUME NEW n \in Nat, NEW k \in 0..n, NEW ideas, DOMAIN ideas = 1..n, NEW fixed, NEW felt,
           \A i \in 1..k : ideas[i] = fixed[i],
           \A i \in (k + 1)..n : \E p \in felt : ideas[i] = Idea(p.title, {}, p.detail),
           \A p \in felt : \E i \in (k + 1)..n : ideas[i] = Idea(p.title, {}, p.detail)
    PROVE  Suggests(ideas, n, fixed, k, felt)
<1>1. \A i \in 1..n : i \in 1..k \/ i \in (k + 1)..n
  OBVIOUS
<1>2. \A i \in (k + 1)..n : i \in 1..n /\ i \notin 1..k
  OBVIOUS
<1>3. \A i \in 1..k : i \in 1..n
  OBVIOUS
<1>4. \A p : Idea(p.title, {}, p.detail).title = p.title
  BY DEF Idea
<1>5. Titles(ideas, n) = Titles(fixed, k) \union {p.title : p \in felt}
  <2>1. \A i \in 1..n : ideas[i].title \in {fixed[j].title : j \in 1..k} \union {p.title : p \in felt}
    <3> TAKE i \in 1..n
    <3>1. CASE i \in 1..k
      BY <3>1
    <3>2. CASE i \in (k + 1)..n
      BY <1>4, <3>2
    <3> QED
      BY <1>1, <3>1, <3>2
  <2>2. \A i \in 1..k : fixed[i].title \in {ideas[j].title : j \in 1..n}
    BY <1>3
  <2>3. \A p \in felt : p.title \in {ideas[j].title : j \in 1..n}
    BY <1>2, <1>4
  <2> QED
    BY <2>1, <2>2, <2>3 DEF Titles
<1>6. ASSUME NEW t \in Titles(ideas, n), NEW p \in felt, p.title = t
      PROVE  \E q \in felt : q.title = t /\ ideas[LastTitled(ideas, n, t)] = Idea(t, {}, q.detail)
  <2>1. PICK l \in 1..n : /\ l = LastTitled(ideas, n, t) /\ ideas[l].title = t
                          /\ \A j \in (l + 1)..n : ideas[j].title # t
    BY LastTitledIs
  <2>2. PICK i \in (k + 1)..n : ideas[i] = Idea(p.title, {}, p.detail)
    OBVIOUS
  <2>3. ideas[i].title = t
    BY <1>4, <1>6, <2>2
  <2>4. ~ (i \in (l + 1)..n)
    BY <2>1, <2>3
  <2>5. l \in (k + 1)..n
    BY <2>4
  <2>6. PICK q \in felt : ideas[l] = Idea(q.title, {}, q.detail)
    BY <2>5
  <2>7. q.title = t
    BY <1>4, <2>1, <2>6
  <2> QED
    BY <2>1, <2>6, <2>7
<1>7. ASSUME NEW t \in Titles(ideas, n), \A p \in felt : p.title # t
      PROVE  ideas[LastTitled(ideas, n, t)] = fixed[LastTitled(fixed, k, t)]
  <2>1. t \in Titles(fixed, k) /\ k \in Nat
    BY <1>5, <1>7
  <2>2. PICK l \in 1..k : /\ l = LastTitled(fixed, k, t) /\ fixed[l].title = t
                          /\ \A j \in (l + 1)..k : fixed[j].title # t
    BY <2>1, LastTitledIs
  <2>3. ASSUME NEW j \in (l + 1)..n PROVE ideas[j].title # t
    <3>1. CASE j \in (l + 1)..k
      <4>1. j \in 1..k
        BY <3>1
      <4> QED
        BY <2>2, <3>1, <4>1
    <3>2. CASE j \in (k + 1)..n
      BY <1>4, <1>7, <3>2
    <3> QED
      BY <3>1, <3>2
  <2>4. l \in 1..n /\ ideas[l] = fixed[l] /\ ideas[l].title = t
    BY <2>2
  <2>5. LastTitled(ideas, n, t) = l
    BY <2>3, <2>4, LastTitledOnly
  <2> QED
    BY <2>2, <2>4, <2>5
<1> QED
  BY <1>5, <1>6, <1>7 DEF Suggests

\* The last idea of a title is a pain point's if one that is felt has the title, else
\* what the figures suggest.
LEMMA LastIdea ==
    ASSUME NEW S, NEW fixed \in Seq(S), NEW pains \in Seq(Pains)
    PROVE  \E n \in Nat : Suggests(fixed \o Surfaced(pains), n, fixed, Len(fixed), FeltIn(pains))
<1>1. PICK sur : sur = Surfaced(pains)
  OBVIOUS
<1>2. PICK felt : felt = FeltIn(pains)
  OBVIOUS
<1>3. PICK m \in Nat :
         /\ sur = [i \in 1..m |-> sur[i]]
         /\ \A i \in 1..m : \E p \in felt : sur[i] = Idea(p.title, {}, p.detail)
         /\ \A p \in felt : \E i \in 1..m : sur[i] = Idea(p.title, {}, p.detail)
  BY <1>1, <1>2, SurfacedAre
<1>4. sur \in Seq({sur[i] : i \in 1..m})
  BY <1>3, IsList
<1>5. Len(sur) = m
  BY <1>3, <1>4
<1>6. PICK k \in Nat : k = Len(fixed)
  OBVIOUS
<1>7. PICK ideas : ideas = fixed \o sur
  OBVIOUS
<1>8. PICK n \in Nat : n = k + m
  OBVIOUS
<1>9. /\ DOMAIN ideas = 1..n
      /\ \A i \in 1..k : ideas[i] = fixed[i]
      /\ \A i \in (k + 1)..n : ideas[i] = sur[i - k]
  BY <1>4, <1>5, <1>6, <1>7, <1>8
<1>10. \A i \in (k + 1)..n : \E p \in felt : ideas[i] = Idea(p.title, {}, p.detail)
  <2> TAKE i \in (k + 1)..n
  <2>1. i - k \in 1..m
    BY <1>8
  <2> QED
    BY <1>3, <1>9, <2>1
<1>11. ASSUME NEW p \in felt PROVE \E i \in (k + 1)..n : ideas[i] = Idea(p.title, {}, p.detail)
  <2>1. PICK j \in 1..m : sur[j] = Idea(p.title, {}, p.detail)
    BY <1>3
  <2>2. PICK i \in (k + 1)..n : i - k = j
    <3>1. k + j \in (k + 1)..n /\ (k + j) - k = j
      BY <1>8
    <3> QED
      BY <3>1
  <2>3. ideas[i] = sur[j]
    BY <1>9, <2>2
  <2> QED
    BY <2>1, <2>3
<1>12. k \in 0..n
  BY <1>8
<1>13. Suggests(ideas, n, fixed, k, felt)
  BY <1>9, <1>10, <1>11, <1>12, SuggestsLast
<1> QED
  BY <1>1, <1>2, <1>6, <1>7, <1>13

\* In another order the same pain points are felt.
LEMMA ReorderedFelt ==
    ASSUME NEW pains \in Seq(Pains), NEW again \in Reordered(pains)
    PROVE  again \in Seq(Pains) /\ FeltIn(again) = FeltIn(pains)
<1>1. PICK n \in Nat : n = Len(pains) /\ DOMAIN pains = 1..n
  OBVIOUS
<1>2. PICK p \in Bijection(1..n, 1..n) : again = [i \in 1..n |-> pains[p[i]]]
  BY <1>1 DEF Reordered
<1>3. /\ \A i \in 1..n : p[i] \in 1..n
      /\ \A j \in 1..n : \E i \in 1..n : p[i] = j
  BY <1>2 DEF Bijection, Surjection, Injection
<1>4. again \in Seq(Pains) /\ DOMAIN again = 1..n
  <2>1. \A i \in 1..n : pains[p[i]] \in Pains
    BY <1>1, <1>3
  <2> QED
    BY <1>2, <2>1
<1>5. \A i \in 1..n : again[i] = pains[p[i]]
  BY <1>2
<1>6. \A x : x \in FeltIn(pains) <=> \E j \in 1..n : Felt(pains[j]) /\ x = pains[j]
  BY <1>1 DEF FeltIn
<1>7. \A x : x \in FeltIn(again) <=> \E i \in 1..n : Felt(again[i]) /\ x = again[i]
  BY <1>4 DEF FeltIn
<1>8. ASSUME NEW x PROVE x \in FeltIn(again) <=> x \in FeltIn(pains)
  <2>1. ASSUME x \in FeltIn(again) PROVE x \in FeltIn(pains)
    <3>1. PICK i \in 1..n : Felt(again[i]) /\ x = again[i]
      BY <1>7, <2>1
    <3>2. PICK j \in 1..n : again[i] = pains[j]
      BY <1>3, <1>5
    <3>3. Felt(pains[j]) /\ x = pains[j]
      BY <3>1, <3>2 DEF Felt
    <3> QED
      BY <1>6, <3>3
  <2>2. ASSUME x \in FeltIn(pains) PROVE x \in FeltIn(again)
    <3>1. PICK j \in 1..n : Felt(pains[j]) /\ x = pains[j]
      BY <1>6, <2>2
    <3>2. PICK i \in 1..n : p[i] = j
      BY <1>3
    <3>3. again[i] = pains[j]
      BY <1>5, <3>2
    <3>4. Felt(again[i]) /\ x = again[i]
      BY <3>1, <3>3 DEF Felt
    <3> QED
      BY <1>7, <3>4
  <2> QED
    BY <2>1, <2>2
<1> QED
  BY <1>4, <1>8

\* Recommendations can be built again, from whatever rows and in whatever order the
\* pain points come: no row goes, what was decided stays, and a text changes only where
\* two pain points share a title.
THEOREM AdviceIsSettled == Spec => []AdviceSettles
<1>1. Init => AdviceSettles
  BY DEF Init, AdviceSettles, Answered
<1>2. TypeInv /\ AdviceSettles /\ [Next]_calcVars => AdviceSettles'
  <2> SUFFICES ASSUME TypeInv, AdviceSettles, [Next]_calcVars PROVE AdviceSettles'
    OBVIOUS
  <2>1. CASE UNCHANGED calcVars
    BY <2>1 DEF AdviceSettles, Answered, calcVars
  <2>2. CASE Next
    <3>1. SUFFICES ASSUME topic = "advice" PROVE AdviceSettles'
      BY <2>2, StepAnswers DEF AdviceSettles, Answered
    <3>2. PICK again \in Reordered(given.pains) :
             LET ideas == _candidates(given.primary, KpisOf(given), given.pains)
                 once == build_recommendations(RecommendationsOf(given), ideas)
             IN  result' = [once |-> once,
                            twice |-> build_recommendations(once,
                                         _candidates(given.primary, KpisOf(given), again))]
      <4>1. Advise
        BY <2>2, <3>1, TopicStep
      <4> QED
        BY <4>1 DEF Advise, Compute
    <3>3. given.pains \in Seq(Pains) /\ again \in Seq(Pains) /\ FeltIn(again) = FeltIn(given.pains)
      BY <3>1, InputsAssumption, ReorderedFelt DEF TypeInv, GoalsOK
    <3>4. PICK S : \E fixed \in Seq(S) : \A pains :
                      _candidates(given.primary, KpisOf(given), pains) = fixed \o Surfaced(pains)
      BY IdeasListed
    <3>5. PICK fixed \in Seq(S) : \A pains :
                      _candidates(given.primary, KpisOf(given), pains) = fixed \o Surfaced(pains)
      BY <3>4
    <3>6. PICK ideas : ideas = _candidates(given.primary, KpisOf(given), given.pains)
      OBVIOUS
    <3>7. PICK others : others = _candidates(given.primary, KpisOf(given), again)
      OBVIOUS
    <3>8. PICK felt : felt = FeltIn(given.pains)
      OBVIOUS
    <3>9. PICK n \in Nat : Suggests(ideas, n, fixed, Len(fixed), felt)
      BY <3>3, <3>5, <3>6, <3>8, LastIdea
    <3>10. PICK m \in Nat : Suggests(others, m, fixed, Len(fixed), felt)
      BY <3>3, <3>5, <3>7, <3>8, LastIdea
    <3>11. PICK recs : recs = RecommendationsOf(given)
      OBVIOUS
    <3>12. recs = [t \in DOMAIN recs |-> recs[t]] /\ DOMAIN recs = DOMAIN given.decided
      BY <3>11 DEF RecommendationsOf
    <3>13. PICK once : once = build_recommendations(recs, ideas)
      OBVIOUS
    <3>14. PICK twice : twice = build_recommendations(once, others)
      OBVIOUS
    <3>15. once = Settled(recs, ideas, n)
      BY <3>9, <3>12, <3>13, BuildSettles DEF Suggests
    <3>16. once = [t \in DOMAIN once |-> once[t]]
      BY <3>15 DEF Settled
    <3>17. twice = Settled(once, others, m)
      BY <3>10, <3>14, <3>16, BuildSettles DEF Suggests
    <3>18. /\ DOMAIN twice = DOMAIN once
           /\ \A t \in DOMAIN once :
                 /\ twice[t].status = once[t].status
                 /\ once[t].status # "proposed" => twice[t] = once[t]
                 /\ (t \in Titles(ideas, n) =>
                        others[LastTitled(others, m, t)] = ideas[LastTitled(ideas, n, t)])
                    => twice[t] = once[t]
      <4>1. Titles(others, m) = Titles(ideas, n)
        BY <3>9, <3>10 DEF Suggests
      <4> QED
        BY <3>15, <3>17, <4>1, SettledAgain
    <3>19. ASSUME NEW t \in DOMAIN once, ~ Clashing(t, given.pains)
           PROVE  twice[t] = once[t]
      <4>1. \A p, q \in felt : p.title = t /\ q.title = t => p = q
        BY <3>8, <3>19 DEF Clashing, FeltIn
      <4>2. t \in Titles(ideas, n) =>
               others[LastTitled(others, m, t)] = ideas[LastTitled(ideas, n, t)]
        BY <3>9, <3>10, <4>1 DEF Suggests
      <4> QED
        BY <3>18, <3>19, <4>2
    <3>20. ASSUME NEW t \in DOMAIN given.decided, given.decided[t] # "proposed"
           PROVE  once[t] = recs[t] /\ twice[t] = recs[t]
      <4>1. recs[t].status # "proposed" /\ t \in DOMAIN recs
        BY <3>11, <3>20 DEF RecommendationsOf
      <4>2. once[t] = recs[t] /\ t \in DOMAIN once
        BY <3>15, <4>1 DEF Settled
      <4> QED
        BY <3>18, <4>1, <4>2
    <3>21. result' = [once |-> once, twice |-> twice] /\ given' = given
      BY <2>2, <3>2, <3>6, <3>7, <3>11, <3>13, <3>14, StepAnswers
    <3>22. result'.once = once /\ result'.twice = twice
      BY <3>21
    <3> QED
      BY <3>11, <3>18, <3>19, <3>20, <3>21, <3>22 DEF AdviceSettles
  <2> QED
    BY <2>1, <2>2
<1> QED
  BY <1>1, <1>2, TypeOK, PTL DEF Spec

-----------------------------------------------------------------------------
(* Sums of what is kept                                                    *)

LEMMA SumOfMore ==
    ASSUME NEW m \in Nat, NEW q \in [1..(m + 1) -> Int]
    PROVE  SumOver(q) = SumOver([j \in 1..m |-> q[j]]) + q[m + 1]
<1> DEFINE p == [j \in 1..m |-> q[j]]
<1>1. p \in [1..m -> Int] /\ \A j \in 1..m : p[j] = q[j] /\ j \in 1..(m + 1)
  OBVIOUS
<1>2. PICK r \in [0..m -> Int] : r[0] = 0 /\ (\A k \in 1..m : r[k] = r[k - 1] + p[k]) /\ SumOver(p) = r[m]
  <2> HIDE DEF p
  <2> QED
    BY <1>1, SumRuns
<1> DEFINE t == [k \in 0..(m + 1) |-> IF k = m + 1 THEN r[m] + q[m + 1] ELSE r[k]]
<1>3. t \in [0..(m + 1) -> Int] /\ t[0] = 0 /\ t[m + 1] = r[m] + q[m + 1]
  <2>1. \A k \in 0..(m + 1) : k # m + 1 => k \in 0..m
    OBVIOUS
  <2>2. m \in 0..m /\ m + 1 \in 1..(m + 1) /\ 0 \in 0..(m + 1) /\ m + 1 \in 0..(m + 1) /\ 0 # m + 1
    OBVIOUS
  <2> QED
    BY <1>2, <2>1, <2>2
<1>4. ASSUME NEW k \in 1..(m + 1) PROVE t[k] = t[k - 1] + q[k]
  <2>1. CASE k = m + 1
    <3>1. t[k - 1] = r[m]
      BY <2>1
    <3> QED
      BY <1>3, <2>1, <3>1
  <2>2. CASE k # m + 1
    <3>1. k \in 1..m /\ k - 1 \in 0..m /\ k - 1 # m + 1
      BY <2>2
    <3>2. t[k] = r[k] /\ t[k - 1] = r[k - 1] /\ p[k] = q[k]
      BY <1>1, <2>2, <3>1
    <3> HIDE DEF t, p
    <3> QED
      BY <1>2, <3>1, <3>2
  <2> QED
    BY <2>1, <2>2
<1>5. SumOver(q) = t[m + 1]
  <2>1. PICK n \in Nat : n = m + 1
    OBVIOUS
  <2> HIDE DEF t
  <2>2. q \in [1..n -> Int] /\ t \in [0..n -> Int] /\ t[0] = 0 /\ \A k \in 1..n : t[k] = t[k - 1] + q[k]
    BY <1>3, <1>4, <2>1
  <2>3. SumOver(q) = t[n]
    BY <2>2, SumIs
  <2> QED
    BY <2>1, <2>3
<1> QED
  BY <1>2, <1>3, <1>5

\* What f makes of the numbers in out.
Images(f, out) == [j \in 1..Len(out) |-> f[out[j]]]

LEMMA ImagesOfMore ==
    ASSUME NEW n \in Nat, NEW f \in [1..n -> Int], NEW k \in 1..n, NEW out \in Seq(1..n)
    PROVE  SumOver(Images(f, Append(out, k))) = SumOver(Images(f, out)) + f[k]
<1>1. PICK m \in Nat : m = Len(out)
  OBVIOUS
<1> DEFINE more == Append(out, k)
           q == Images(f, more)
<1>2. /\ more \in Seq(1..n) /\ Len(more) = m + 1 /\ more[m + 1] = k
      /\ \A j \in 1..m : more[j] = out[j] /\ out[j] \in 1..n
  BY <1>1
<1>3. \A j \in 1..(m + 1) : more[j] \in 1..n
  BY <1>2
<1> HIDE DEF more
<1>4. q = [j \in 1..(m + 1) |-> f[more[j]]]
  BY <1>2 DEF Images
<1>5. q \in [1..(m + 1) -> Int]
  BY <1>3, <1>4
<1>6. [j \in 1..m |-> q[j]] = Images(f, out)
  <2>1. \A j \in 1..m : q[j] = f[out[j]]
    BY <1>2, <1>4
  <2> HIDE DEF q
  <2> QED
    BY <1>1, <2>1 DEF Images
<1>7. q[m + 1] = f[k]
  BY <1>2, <1>4
<1> HIDE DEF q
<1>8. SumOver(q) = SumOver([j \in 1..m |-> q[j]]) + q[m + 1]
  BY <1>5, SumOfMore
<1>9. SumOver(q) = SumOver(Images(f, out)) + f[k]
  BY <1>6, <1>7, <1>8
<1> QED
  BY <1>9 DEF q, more

\* The sum over what is kept is the sum over all, the rest counted as nothing.
LEMMA SumOfPlaces ==
    ASSUME NEW n \in Nat, NEW I, NEW f \in [1..n -> Int]
    PROVE  SumOver(Images(f, Places(n, I))) = SumOver([i \in 1..n |-> IF i \in I THEN f[i] ELSE 0])
<1> DEFINE q == [i \in 1..n |-> IF i \in I THEN f[i] ELSE 0]
           s == [i \in 1..n |-> i]
           env == <<I>>
<1>1. DOMAIN s = 1..n /\ \A k \in 1..n : s[k] = k
  OBVIOUS
<1>2. env[1] = I
  OBVIOUS
<1>3. PICK r : Placing!Run(env, <<>>, n, s, r) /\ Placing!Fold(env, <<>>, s) = r[n]
  <2> HIDE DEF env, s
  <2> QED
    BY <1>1, Placing!FoldRuns
<1>4. /\ r[0] = <<>> /\ Places(n, I) = r[n]
      /\ \A k \in 1..n : r[k] = IF k \in I THEN Append(r[k - 1], k) ELSE r[k - 1]
  <2>1. Places(n, I) = r[n]
    BY <1>3, PlacesFold
  <2>2. r[0] = <<>> /\ \A k \in 1..n : r[k] = IF s[k] \in env[1] THEN Append(r[k - 1], s[k]) ELSE r[k - 1]
    <3> HIDE DEF env, s
    <3> QED
      BY <1>3 DEF Placing!Run
  <2> HIDE DEF s, env
  <2> QED
    BY <1>1, <1>2, <2>1, <2>2
<1>5. q \in [1..n -> Int] /\ \A k \in 1..n : q[k] = IF k \in I THEN f[k] ELSE 0
  OBVIOUS
<1> HIDE DEF q
<1>6. PICK t \in [0..n -> Int] : t[0] = 0 /\ (\A k \in 1..n : t[k] = t[k - 1] + q[k]) /\ SumOver(q) = t[n]
  BY <1>5, SumRuns
<1> DEFINE T == {k \in Nat : k \in 0..n => r[k] \in Seq(1..n) /\ SumOver(Images(f, r[k])) = t[k]}
<1>7. 0 \in T
  <2>1. Images(f, <<>>) \in [1..0 -> Int]
    BY DEF Images
  <2>2. SumOver(Images(f, <<>>)) = 0
    <3>1. PICK z \in [0..0 -> Int] : z[0] = 0 /\ SumOver(Images(f, <<>>)) = z[0]
      BY <2>1, SumRuns
    <3> QED
      BY <3>1
  <2>3. <<>> \in Seq(1..n)
    OBVIOUS
  <2> QED
    BY <1>4, <1>6, <2>2, <2>3
<1>8. ASSUME NEW k \in Nat, k \in T PROVE k + 1 \in T
  <2>1. SUFFICES ASSUME k + 1 \in 0..n
                 PROVE  r[k + 1] \in Seq(1..n) /\ SumOver(Images(f, r[k + 1])) = t[k + 1]
    OBVIOUS
  <2>2. k + 1 \in 1..n /\ (k + 1) - 1 = k /\ k \in 0..n
    BY <2>1
  <2>3. r[k] \in Seq(1..n) /\ SumOver(Images(f, r[k])) = t[k]
    BY <1>8, <2>2
  <2>4. t[k + 1] = t[k] + q[k + 1]
    BY <1>6, <2>2
  <2>5. r[k + 1] = IF k + 1 \in I THEN Append(r[k], k + 1) ELSE r[k]
    BY <1>4, <2>2
  <2>6. CASE k + 1 \in I
    <3>1. r[k + 1] = Append(r[k], k + 1) /\ q[k + 1] = f[k + 1]
      BY <1>5, <2>2, <2>5, <2>6
    <3>2. SumOver(Images(f, r[k + 1])) = SumOver(Images(f, r[k])) + f[k + 1]
      BY <2>2, <2>3, <3>1, ImagesOfMore
    <3> QED
      BY <2>2, <2>3, <2>4, <3>1, <3>2
  <2>7. CASE k + 1 \notin I
    <3>1. r[k + 1] = r[k] /\ q[k + 1] = 0
      BY <1>5, <2>2, <2>5, <2>7
    <3> QED
      BY <1>6, <2>2, <2>3, <2>4, <3>1
  <2> QED
    BY <2>6, <2>7
<1>9. Nat \subseteq T
  <2> HIDE DEF T
  <2> QED
    BY <1>7, <1>8, Adding!Induction
<1>10. SumOver(Images(f, r[n])) = t[n]
  BY <1>9
<1>11. SumOver(Images(f, Places(n, I))) = SumOver(q)
  BY <1>4, <1>6, <1>10
<1> QED
  BY <1>11 DEF q

\* ... whatever is summed of the elements: v lists it for all of s, w for those kept.
LEMMA SumOfKept ==
    ASSUME NEW n \in Nat, NEW s, DOMAIN s = 1..n, Len(s) = n, NEW I, NEW v \in [1..n -> Int],
           NEW w, w = [j \in DOMAIN Kept(s, I) |-> w[j]],
           \A j \in DOMAIN Kept(s, I) : w[j] = v[Places(n, I)[j]]
    PROVE  SumOver(w) = SumOver([i \in 1..n |-> IF i \in I THEN v[i] ELSE 0])
<1>1. PICK at : at = Places(n, I) /\ at \in Seq(I \intersect 1..n)
  BY PlacesAre DEF Listing
<1>2. DOMAIN Kept(s, I) = 1..Len(at)
  BY <1>1 DEF Kept
<1>3. w = Images(v, at)
  BY <1>1, <1>2 DEF Images
<1> QED
  BY <1>1, <1>3, SumOfPlaces

-----------------------------------------------------------------------------
(* Aging (financial/dso_engine.py)                                         *)

OpenStatuses == {"open", "partial", "overdue", "disputed"}

OwingAt(invoices) ==
    {i \in 1..Len(invoices) : invoices[i].status \in OpenStatuses /\ Balance(invoices[i]) > 0}

LEMMA InvoiceTypes ==
    ASSUME NEW inv \in Invoices
    PROVE  /\ inv.amount \in Int /\ inv.amount_paid \in Int /\ inv.age \in Int /\ Balance(inv) \in Int
           /\ inv.days_outstanding \in Int /\ inv.due \in SUBSET Int
  BY DEF Invoices, Balance

LEMMA BucketIs ==
    ASSUME NEW age \in Int
    PROVE  Bucket(age) \in Buckets /\ \A b \in Buckets : Bucket(age) = b <=> age \in AgesOf(b)
<1>1. Bucket(age) \in Buckets
  BY DEF Bucket, Buckets
<1>2. ASSUME NEW b \in Buckets PROVE Bucket(age) = b <=> age \in AgesOf(b)
  <2>1. CASE b = "0_30"
    BY <2>1 DEF Bucket, AgesOf
  <2>2. CASE b = "31_60"
    BY <2>2 DEF Bucket, AgesOf
  <2>3. CASE b = "61_90"
    BY <2>3 DEF Bucket, AgesOf
  <2>4. CASE b = "91_plus"
    BY <2>4 DEF Bucket, AgesOf
  <2> QED
    BY <1>2, <2>1, <2>2, <2>3, <2>4 DEF Buckets
<1> QED
  BY <1>1, <1>2

\* What is owed in bucket b by each of the invoices.
OwedIn(invoices, b) ==
    [i \in 1..Len(invoices) |->
        IF i \in OwingAt(invoices) /\ Bucket(invoices[i].age) = b THEN Balance(invoices[i]) ELSE 0]

LEMMA OwedInt ==
    ASSUME NEW invoices \in Seq(Invoices), NEW b
    PROVE  OwedIn(invoices, b) \in [1..Len(invoices) -> Int]
<1>1. \A i \in 1..Len(invoices) : Balance(invoices[i]) \in Int
  BY InvoiceTypes
<1> QED
  BY <1>1 DEF OwedIn

LEMMA OpenIs ==
    ASSUME NEW invoices \in Seq(Invoices),
           NEW open, open = Owing(invoices, OpenStatuses),
           NEW at, at = Places(Len(invoices), OwingAt(invoices))
    PROVE  /\ open = Kept(invoices, OwingAt(invoices)) /\ open \in Seq(Invoices)
           /\ at \in Seq(1..Len(invoices)) /\ Len(open) = Len(at)
           /\ \A j \in 1..Len(at) : at[j] \in OwingAt(invoices) /\ open[j] = invoices[at[j]]
<1>1. PICK n \in Nat : n = Len(invoices) /\ DOMAIN invoices = 1..n
  OBVIOUS
<1>2. {i \in DOMAIN invoices : invoices[i].status \in OpenStatuses /\ Balance(invoices[i]) > 0} = OwingAt(invoices)
  BY <1>1 DEF OwingAt
<1>3. open = Kept(invoices, OwingAt(invoices))
  BY <1>2 DEF Owing, Where
<1>4. open \in Seq(Invoices)
  BY <1>3, KeptIsSeq
<1>5. at \in Seq(OwingAt(invoices) \intersect 1..n)
  BY <1>1, PlacesAre DEF Listing
<1>6. PICK m \in Nat : m = Len(at) /\ DOMAIN at = 1..m
  BY <1>5
<1>7. open = [j \in 1..m |-> invoices[at[j]]]
  BY <1>1, <1>3, <1>6 DEF Kept
<1>8. Len(open) = m
  BY <1>4, <1>6, <1>7
<1>9. at \in Seq(1..n) /\ \A j \in 1..m : at[j] \in OwingAt(invoices)
  <2>1. \A j \in 1..m : at[j] \in OwingAt(invoices) \intersect 1..n
    BY <1>5, <1>6
  <2> QED
    BY <1>5, <1>6, <2>1
<1> QED
  BY <1>1, <1>3, <1>4, <1>6, <1>7, <1>8, <1>9

LEMMA TotalIs ==
    ASSUME NEW invoices \in Seq(Invoices)
    PROVE  SumOf(Balance, Owing(invoices, OpenStatuses))
              = SumOver([i \in 1..Len(invoices) |->
                            IF i \in OwingAt(invoices) THEN Balance(invoices[i]) ELSE 0])
<1>1. PICK n \in Nat : n = Len(invoices) /\ DOMAIN invoices = 1..n
  OBVIOUS
<1> DEFINE I == OwingAt(invoices)
           at == Places(n, I)
           open == Owing(invoices, OpenStatuses)
           v == [i \in 1..n |-> Balance(invoices[i])]
           w == [j \in DOMAIN open |-> Balance(open[j])]
<1>2. v \in [1..n -> Int]
  BY <1>1, InvoiceTypes
<1>3. /\ open = Kept(invoices, I) /\ open \in Seq(Invoices) /\ at \in Seq(1..n) /\ Len(open) = Len(at)
      /\ \A j \in 1..Len(at) : open[j] = invoices[at[j]]
  BY <1>1, OpenIs
<1>4. DOMAIN open = 1..Len(at) /\ \A j \in 1..Len(at) : at[j] \in 1..n
  <2> HIDE DEF open, at
  <2> QED
    BY <1>3
<1>5. w = [j \in DOMAIN Kept(invoices, I) |-> w[j]] /\ \A j \in DOMAIN Kept(invoices, I) : w[j] = v[at[j]]
  <2>1. \A j \in DOMAIN open : w[j] = v[at[j]]
    <3> HIDE DEF open, at
    <3> QED
      BY <1>3, <1>4
  <2> HIDE DEF open, at, v
  <2> QED
    BY <1>3, <2>1
<1>6. SumOver(w) = SumOver([i \in 1..n |-> IF i \in I THEN v[i] ELSE 0])
  <2> HIDE DEF w, v, I
  <2> QED
    BY <1>1, <1>2, <1>5, SumOfKept
<1>7. [i \in 1..n |-> IF i \in I THEN v[i] ELSE 0] = [i \in 1..n |-> IF i \in I THEN Balance(invoices[i]) ELSE 0]
  <2> HIDE DEF I
  <2> QED
    OBVIOUS
<1> QED
  BY <1>1, <1>6, <1>7 DEF SumOf

LEMMA BucketHolds ==
    ASSUME NEW invoices \in Seq(Invoices), NEW b,
           NEW open, open = Owing(invoices, OpenStatuses)
    PROVE  SumOf(Balance, Where(open, LAMBDA inv : Bucket(inv.age) = b)) = SumOver(OwedIn(invoices, b))
<1>1. PICK n \in Nat : n = Len(invoices) /\ DOMAIN invoices = 1..n
  OBVIOUS
<1> DEFINE I == OwingAt(invoices)
           at == Places(n, I)
<1>2. /\ open = Kept(invoices, I) /\ open \in Seq(Invoices) /\ at \in Seq(1..n) /\ Len(open) = Len(at)
      /\ \A j \in 1..Len(at) : at[j] \in I /\ open[j] = invoices[at[j]]
  BY <1>1, OpenIs
<1> HIDE DEF at, I
<1>3. PICK m \in Nat : m = Len(at) /\ DOMAIN open = 1..m
  BY <1>2
<1> DEFINE J == {j \in DOMAIN open : Bucket(open[j].age) = b}
           chosen == Places(m, J)
           K == Kept(open, J)
           v == [j \in 1..m |-> Balance(open[j])]
           w == [p \in DOMAIN K |-> Balance(K[p])]
           x == [j \in 1..m |-> IF j \in J THEN v[j] ELSE 0]
           y == [i \in 1..n |-> IF Bucket(invoices[i].age) = b THEN Balance(invoices[i]) ELSE 0]
<1>4. v \in [1..m -> Int] /\ x \in [1..m -> Int]
  <2>1. \A j \in 1..m : Balance(open[j]) \in Int
    BY <1>2, <1>3, InvoiceTypes
  <2> QED
    BY <2>1
<1>5. y \in [1..n -> Int]
  <2>1. \A i \in 1..n : Balance(invoices[i]) \in Int
    BY <1>1, InvoiceTypes
  <2> QED
    BY <2>1
<1>6. w = [p \in DOMAIN Kept(open, J) |-> w[p]] /\ \A p \in DOMAIN Kept(open, J) : w[p] = v[chosen[p]]
  <2>1. chosen \in Seq(J \intersect 1..m)
    BY PlacesAre DEF Listing
  <2>2. PICK k \in Nat : k = Len(chosen) /\ DOMAIN chosen = 1..k
    <3> HIDE DEF chosen, J
    <3> QED
      BY <2>1
  <2>3. K = [p \in 1..k |-> open[chosen[p]]]
    <3>1. Len(open) = m
      BY <1>2, <1>3
    <3> QED
      BY <2>2, <3>1 DEF Kept
  <2>4. \A p \in 1..k : chosen[p] \in 1..m
    <3> HIDE DEF chosen, J
    <3> QED
      BY <2>1, <2>2
  <2>5. DOMAIN K = 1..k /\ \A p \in 1..k : w[p] = v[chosen[p]]
    <3> HIDE DEF chosen, J, K
    <3> QED
      BY <2>3, <2>4
  <2>6. w = [p \in DOMAIN K |-> w[p]]
    <3> HIDE DEF K
    <3> QED
      OBVIOUS
  <2> HIDE DEF w, v, chosen
  <2> QED
    BY <2>5, <2>6
<1>7. SumOver(w) = SumOver(x)
  <2>1. Len(open) = m
    BY <1>2, <1>3
  <2> HIDE DEF w, v, J
  <2>2. w = [p \in DOMAIN Kept(open, J) |-> w[p]]
    BY <1>6
  <2>3. \A p \in DOMAIN Kept(open, J) : w[p] = v[Places(m, J)[p]]
    BY <1>6
  <2>4. DOMAIN open = 1..m /\ Len(open) = m /\ v \in [1..m -> Int]
    BY <1>3, <1>4, <2>1
  <2> HIDE DEF K
  <2>5. SumOver(w) = SumOver([i \in 1..m |-> IF i \in J THEN v[i] ELSE 0])
    BY <1>3, <2>2, <2>3, <2>4, SumOfKept
  <2> QED
    BY <2>5
<1>8. SumOver(x) = SumOver([i \in 1..n |-> IF i \in I THEN y[i] ELSE 0])
  <2>1. x = [j \in 1..m |-> x[j]]
    OBVIOUS
  <2>2. \A j \in 1..m : x[j] = y[at[j]]
    <3>1. \A j \in 1..m : at[j] \in 1..n /\ open[j] = invoices[at[j]]
      BY <1>2, <1>3
    <3> QED
      BY <1>3, <3>1
  <2>3. x = Images(y, at)
    <3> HIDE DEF x, y
    <3> QED
      BY <1>3, <2>1, <2>2 DEF Images
  <2> HIDE DEF x, y
  <2>4. x = Images(y, Places(n, I))
    BY <2>3 DEF at
  <2> QED
    BY <1>5, <2>4, SumOfPlaces
<1>9. [i \in 1..n |-> IF i \in I THEN y[i] ELSE 0] = OwedIn(invoices, b)
  <2>1. \A i \in 1..n : (IF i \in I THEN y[i] ELSE 0) = (IF i \in I /\ Bucket(invoices[i].age) = b
                                                         THEN Balance(invoices[i]) ELSE 0)
    OBVIOUS
  <2> HIDE DEF y
  <2> QED
    BY <1>1, <2>1 DEF OwedIn, I
<1>10. SumOf(Balance, Where(open, LAMBDA inv : Bucket(inv.age) = b)) = SumOver(w)
  BY DEF SumOf, Where
<1> QED
  BY <1>7, <1>8, <1>9, <1>10

\* Each cent owed is in one of the buckets.
LEMMA BucketsHoldAll ==
    ASSUME NEW invoices \in Seq(Invoices)
    PROVE  SumOver([i \in 1..Len(invoices) |-> IF i \in OwingAt(invoices) THEN Balance(invoices[i]) ELSE 0])
              = SumOver(OwedIn(invoices, "0_30")) + SumOver(OwedIn(invoices, "31_60"))
                + SumOver(OwedIn(invoices, "61_90")) + SumOver(OwedIn(invoices, "91_plus"))
<1>1. PICK n \in Nat : n = Len(invoices) /\ DOMAIN invoices = 1..n
  OBVIOUS
<1> DEFINE a == OwedIn(invoices, "0_30")
           b == OwedIn(invoices, "31_60")
           c == OwedIn(invoices, "61_90")
           d == OwedIn(invoices, "91_plus")
           ab == [i \in 1..n |-> a[i] + b[i]]
           abc == [i \in 1..n |-> ab[i] + c[i]]
           all == [i \in 1..n |-> IF i \in OwingAt(invoices) THEN Balance(invoices[i]) ELSE 0]
<1>2. a \in [1..n -> Int] /\ b \in [1..n -> Int] /\ c \in [1..n -> Int] /\ d \in [1..n -> Int]
  BY <1>1, OwedInt
<1>3. all = [i \in 1..n |-> abc[i] + d[i]]
  <2>1. ASSUME NEW i \in 1..n PROVE all[i] = ((a[i] + b[i]) + c[i]) + d[i]
    <3>1. PICK x \in Int : x = Balance(invoices[i])
      BY <1>1, InvoiceTypes
    <3>2. invoices[i].age \in Int
      BY <1>1, InvoiceTypes
    <3>3. Bucket(invoices[i].age) \in {"0_30", "31_60", "61_90", "91_plus"}
      BY <3>2, BucketIs DEF Buckets
    <3> QED
      BY <1>1, <3>1, <3>3 DEF OwedIn
  <2> HIDE DEF a, b, c, d
  <2> QED
    BY <2>1
<1> HIDE DEF a, b, c, d
<1>4. ab \in [1..n -> Int]
  BY <1>2
<1>5. SumOver(ab) = SumOver(a) + SumOver(b)
  BY <1>2, SumOfTwo
<1> HIDE DEF ab
<1>9. abc \in [1..n -> Int]
  BY <1>2, <1>4
<1>6. SumOver(abc) = SumOver(ab) + SumOver(c)
  BY <1>2, <1>4, SumOfTwo
<1> HIDE DEF abc
<1>7. SumOver([i \in 1..n |-> abc[i] + d[i]]) = SumOver(abc) + SumOver(d)
  BY <1>2, <1>9, SumOfTwo
<1>8. SumOver(all) = ((SumOver(a) + SumOver(b)) + SumOver(c)) + SumOver(d)
  BY <1>3, <1>5, <1>6, <1>7
<1> QED
  BY <1>1, <1>8 DEF a, b, c, d

LEMMA DsoAddsUp ==
    ASSUME NEW invoices \in Seq(Invoices), NEW dso, dso = compute_dso(invoices)
    PROVE  /\ \A b \in Buckets :
                 dso.aging[b] = SumOver([i \in 1..Len(invoices) |->
                     IF invoices[i].status \in {"open", "partial", "overdue", "disputed"}
                        /\ invoices[i].age \in AgesOf(b) /\ invoices[i].amount > invoices[i].amount_paid
                     THEN invoices[i].amount - invoices[i].amount_paid ELSE 0])
           /\ dso.total_ar = dso.aging["0_30"] + dso.aging["31_60"] + dso.aging["61_90"] + dso.aging["91_plus"]
<1> DEFINE open == Owing(invoices, OpenStatuses)
<1>1. /\ dso.total_ar = SumOf(Balance, open)
      /\ dso.aging = [b \in Buckets |-> SumOf(Balance, Where(open, LAMBDA inv : Bucket(inv.age) = b))]
  BY DEF compute_dso, OpenStatuses
<1>2. ASSUME NEW b \in Buckets PROVE dso.aging[b] = SumOver(OwedIn(invoices, b))
  <2>1. SumOf(Balance, Where(open, LAMBDA inv : Bucket(inv.age) = b)) = SumOver(OwedIn(invoices, b))
    BY BucketHolds
  <2> QED
    BY <1>1, <2>1, Zenon
<1>3. ASSUME NEW b \in Buckets
      PROVE  OwedIn(invoices, b) = [i \in 1..Len(invoices) |->
                     IF invoices[i].status \in {"open", "partial", "overdue", "disputed"}
                        /\ invoices[i].age \in AgesOf(b) /\ invoices[i].amount > invoices[i].amount_paid
                     THEN invoices[i].amount - invoices[i].amount_paid ELSE 0]
  <2>1. ASSUME NEW i \in 1..Len(invoices)
        PROVE  (IF i \in OwingAt(invoices) /\ Bucket(invoices[i].age) = b THEN Balance(invoices[i]) ELSE 0)
               = IF invoices[i].status \in {"open", "partial", "overdue", "disputed"}
                    /\ invoices[i].age \in AgesOf(b) /\ invoices[i].amount > invoices[i].amount_paid
                 THEN invoices[i].amount - invoices[i].amount_paid ELSE 0
    <3>1. invoices[i].amount \in Int /\ invoices[i].amount_paid \in Int /\ invoices[i].age \in Int
      BY InvoiceTypes
    <3>2. Bucket(invoices[i].age) = b <=> invoices[i].age \in AgesOf(b)
      BY <1>3, <3>1, BucketIs
    <3> QED
      BY <3>1, <3>2 DEF OwingAt, OpenStatuses, Balance
  <2> QED
    BY <2>1 DEF OwedIn
<1>4. dso.total_ar = dso.aging["0_30"] + dso.aging["31_60"] + dso.aging["61_90"] + dso.aging["91_plus"]
  <2>1. dso.total_ar = SumOver(OwedIn(invoices, "0_30")) + SumOver(OwedIn(invoices, "31_60"))
                + SumOver(OwedIn(invoices, "61_90")) + SumOver(OwedIn(invoices, "91_plus"))
    BY <1>1, TotalIs, BucketsHoldAll
  <2>2. "0_30" \in Buckets /\ "31_60" \in Buckets /\ "61_90" \in Buckets /\ "91_plus" \in Buckets
    BY DEF Buckets
  <2> QED
    BY <1>2, <2>1, <2>2
<1> QED
  BY <1>2, <1>3, <1>4

-----------------------------------------------------------------------------
(* The 13-week forecast (cash/forecast_builder.py)                         *)

\* Rounding to cents keeps the sign.
LEMMA ToMoney ==
    ASSUME NEW n \in Int, NEW d \in Nat \ {0}
    PROVE  to_money(n, d) \in Int /\ (n >= 0 => to_money(n, d) >= 0)
<1>1. PICK m \in Nat : m = IF n < 0 THEN -n ELSE n
  OBVIOUS
<1>2. PICK a \in Nat : a = 2 * m + d
  OBVIOUS
<1>3. PICK e \in Nat \ {0} : e = 2 * d
  OBVIOUS
<1>4. PICK h \in Nat : h = a \div e
  BY Division
<1>5. to_money(n, d) = IF n < 0 THEN -h ELSE h
  BY <1>1, <1>2, <1>3, <1>4 DEF to_money
<1> QED
  BY <1>5

LEMMA CollectedTypes ==
    ASSUME NEW inv \in Invoices, NEW weekday, NEW n, NEW mode
    PROVE  /\ Collected(inv, weekday, n, mode) \in Int
           /\ Balance(inv) > 0 => Collected(inv, weekday, n, mode) >= 0
<1>1. PICK x \in Int : x = Balance(inv)
  BY InvoiceTypes
<1>2. PICK p \in Nat : p = COLLECTION_PROB[Bucket(DaysOut(inv))]
  <2>1. DaysOut(inv) \in Int
    BY InvoiceTypes DEF DaysOut
  <2>2. Bucket(DaysOut(inv)) \in {"0_30", "31_60", "61_90", "91_plus"}
    BY <2>1, BucketIs DEF Buckets
  <2> QED
    BY <2>2 DEF COLLECTION_PROB, Buckets
<1>3. PICK f \in Nat : f = ModeMultiplier(mode)
  <2>1. ModeMultiplier(mode) \in {8, 10, 11}
    BY DEF ModeMultiplier
  <2> QED
    BY <2>1
<1>4. PICK y \in Int : y = x * p
  OBVIOUS
<1>5. PICK e \in Int : e = y * f
  OBVIOUS
<1>6. x > 0 => e >= 0
  <2>1. x > 0 => y >= 0
    BY <1>4
  <2> QED
    BY <1>5, <2>1
<1>7. Collected(inv, weekday, n, mode) \in {to_money(e, 200), to_money(e, 2600)}
  <2>1. e = Balance(inv) * COLLECTION_PROB[Bucket(DaysOut(inv))] * ModeMultiplier(mode)
    BY <1>1, <1>2, <1>3, <1>4, <1>5
  <2>2. 200 * ForecastWeeks = 2600
    BY DEF ForecastWeeks
  <2> QED
    BY <2>1, <2>2 DEF Collected
<1>8. /\ to_money(e, 200) \in Int /\ (e >= 0 => to_money(e, 200) >= 0)
      /\ to_money(e, 2600) \in Int /\ (e >= 0 => to_money(e, 2600) >= 0)
  <2>1. 200 \in Nat \ {0} /\ 2600 \in Nat \ {0}
    OBVIOUS
  <2> QED
    BY <2>1, ToMoney
<1> QED
  BY <1>1, <1>6, <1>7, <1>8

LEMMA SumNotNegative ==
    ASSUME NEW n \in Nat, NEW q \in [1..n -> Int], \A k \in 1..n : q[k] >= 0
    PROVE  SumOver(q) >= 0
<1>1. PICK r \in [0..n -> Int] : r[0] = 0 /\ (\A k \in 1..n : r[k] = r[k - 1] + q[k]) /\ SumOver(q) = r[n]
  BY SumRuns
<1> DEFINE T == {k \in Nat : k \in 0..n => r[k] >= 0}
<1>2. 0 \in T
  BY <1>1
<1>3. ASSUME NEW k \in Nat, k \in T PROVE k + 1 \in T
  <2>1. SUFFICES ASSUME k + 1 \in 0..n PROVE r[k + 1] >= 0
    OBVIOUS
  <2>2. k + 1 \in 1..n /\ (k + 1) - 1 = k /\ k \in 0..n
    BY <2>1
  <2>3. r[k] >= 0
    BY <1>3, <2>2
  <2>4. r[k + 1] = r[k] + q[k + 1] /\ q[k + 1] >= 0 /\ q[k + 1] \in Int /\ r[k] \in Int
    BY <1>1, <2>2
  <2> QED
    BY <2>3, <2>4
<1>4. Nat \subseteq T
  <2> HIDE DEF T
  <2> QED
    BY <1>2, <1>3, Adding!Induction
<1>5. n \in T
  BY <1>4
<1> QED
  BY <1>1, <1>5

\* What a week collects is not negative: only what is owed is collected.
LEMMA CollectionsTypes ==
    ASSUME NEW invoices \in Seq(Invoices), NEW weekday, NEW n, NEW mode,
           NEW open, open = Owing(invoices, {"open", "partial", "overdue"})
    PROVE  SumOf(LAMBDA inv : Collected(inv, weekday, n, mode), open) \in Nat
<1> DEFINE I == {i \in DOMAIN invoices : invoices[i].status \in {"open", "partial", "overdue"} /\ Balance(invoices[i]) > 0}
           at == Places(Len(invoices), I)
<1>1. open = Kept(invoices, I) /\ open \in Seq(Invoices)
  <2>1. open = Kept(invoices, I)
    BY DEF Owing, Where
  <2> HIDE DEF I
  <2> QED
    BY <2>1, KeptIsSeq
<1>2. at \in Seq(I \intersect 1..Len(invoices))
  <2> HIDE DEF I
  <2> QED
    BY PlacesAre DEF Listing
<1>3. PICK m \in Nat : m = Len(at) /\ DOMAIN at = 1..m
  <2> HIDE DEF at
  <2> QED
    BY <1>2
<1>4. open = [j \in 1..m |-> invoices[at[j]]]
  BY <1>1, <1>3 DEF Kept
<1>5. \A j \in 1..m : at[j] \in I
  <2> HIDE DEF at, I
  <2> QED
    BY <1>2, <1>3
<1>6. DOMAIN open = 1..m /\ \A j \in 1..m : open[j] \in Invoices /\ Balance(open[j]) > 0
  <2>1. DOMAIN open = 1..m /\ \A j \in 1..m : open[j] = invoices[at[j]]
    <3> HIDE DEF at
    <3> QED
      BY <1>4
  <2>2. \A j \in 1..m : Balance(invoices[at[j]]) > 0
    <3> HIDE DEF at
    <3> QED
      BY <1>5
  <2> HIDE DEF at
  <2> QED
    BY <1>1, <2>1, <2>2
<1> DEFINE q == [j \in DOMAIN open |-> Collected(open[j], weekday, n, mode)]
<1>7. q \in [1..m -> Int] /\ \A j \in 1..m : q[j] >= 0
  <2>1. \A j \in 1..m : Collected(open[j], weekday, n, mode) \in Int /\ Collected(open[j], weekday, n, mode) >= 0
    BY <1>6, CollectedTypes
  <2> QED
    BY <1>6, <2>1
<1>8. SumOver(q) \in Int /\ SumOver(q) >= 0
  <2> HIDE DEF q
  <2> QED
    BY <1>7, SumIsInt, SumNotNegative
<1> QED
  BY <1>8 DEF SumOf

LEMMA PayrollTypes ==
    ASSUME NEW weekly \in Nat, NEW n \in Int
    PROVE  Payroll(weekly, n) \in Nat
  BY DEF Payroll

\* w is week n, begun with that much cash.
WeekFrom(w, weekly, beginning, n) ==
    /\ w.ar_collections \in Nat /\ w.payroll_outflow = Payroll(weekly, n)
    /\ w.payroll_outflow \in Nat /\ w.overhead_outflow \in Nat /\ w.net_cash_flow \in Int
    /\ w.net_cash_flow = w.ar_collections - w.payroll_outflow - w.overhead_outflow
    /\ w.ending_cash \in Int /\ w.ending_cash = beginning + w.net_cash_flow

LEMMA WeekTypes ==
    ASSUME NEW invoices \in Seq(Invoices), NEW weekly \in Nat, NEW beginning \in Int, NEW mode, NEW weekday,
           NEW n \in Int, NEW w, w = ForecastWeek(invoices, weekly, beginning, mode, weekday, n)
    PROVE  WeekFrom(w, weekly, beginning, n)
<1> DEFINE open == Owing(invoices, {"open", "partial", "overdue"})
<1>1. PICK c \in Nat : c = SumOf(LAMBDA inv : Collected(inv, weekday, n, mode), open)
  BY CollectionsTypes DEF SumOf
<1>2. PICK o \in Nat : o = to_money(c, 10)
  <2>1. 10 \in Nat \ {0} /\ c \in Int /\ c >= 0
    OBVIOUS
  <2> QED
    BY <2>1, ToMoney
<1>3. PICK p \in Nat : p = Payroll(weekly, n)
  BY PayrollTypes
<1>4. w = [week_start |-> _week_start(weekday, n), beginning_cash |-> beginning,
           ar_collections |-> c, payroll_outflow |-> p,
           overhead_outflow |-> o, net_cash_flow |-> c - p - o, ending_cash |-> beginning + (c - p - o)]
  BY <1>1, <1>2, <1>3 DEF ForecastWeek, SumOf
<1> QED
  BY <1>3, <1>4 DEF WeekFrom

\* env is <<invoices, weekly, mode, weekday>>.
Forecasting == INSTANCE Folding WITH
    Op <- LAMBDA env, week, n : ForecastWeek(env[1], env[2], week.ending_cash, env[3], env[4], n),
    Holds <- LAMBDA env, k, week : week.ending_cash \in Int

\* Every week begins with what the one before it left.
LEMMA WeeksUnfold ==
    ASSUME NEW invoices, NEW weekly, NEW beginning, NEW mode, NEW weekday,
           NEW weeks, weeks = Weeks(invoices, weekly, beginning, mode, weekday)
    PROVE  weeks = [n \in 1..13 |-> ForecastWeek(invoices, weekly,
                                        IF n = 1 THEN beginning ELSE weeks[n - 1].ending_cash, mode, weekday, n)]
<1> DEFINE env == <<invoices, weekly, mode, weekday>>
           base == [ending_cash |-> beginning]
           s == [i \in 1..13 |-> i]
           Unfolded(f) == [n \in 1..13 |-> ForecastWeek(invoices, weekly,
                                        IF n = 1 THEN beginning ELSE f[n - 1].ending_cash, mode, weekday, n)]
<1>1. DOMAIN s = 1..13 /\ 13 \in Nat
  OBVIOUS
<1>2. PICK r : Forecasting!Run(env, base, 13, s, r)
  <2> HIDE DEF env, base, s
  <2> QED
    BY <1>1, Forecasting!FoldRuns
<1>3. /\ r[0].ending_cash = beginning
      /\ \A n \in 1..13 : r[n] = ForecastWeek(invoices, weekly, r[n - 1].ending_cash, mode, weekday, n)
  <2>1. r[0] = base /\ \A n \in 1..13 : r[n] = ForecastWeek(env[1], env[2], r[n - 1].ending_cash, env[3], env[4], s[n])
    <3> HIDE DEF env, base, s
    <3> QED
      BY <1>2 DEF Forecasting!Run
  <2>2. /\ env[1] = invoices /\ env[2] = weekly /\ env[3] = mode /\ env[4] = weekday
        /\ base.ending_cash = beginning
        /\ \A n \in 1..13 : s[n] = n
    OBVIOUS
  <2> HIDE DEF env, base, s
  <2> QED
    BY <2>1, <2>2
<1> DEFINE f0 == [n \in 1..13 |-> r[n]]
<1>4. f0 = Unfolded(f0)
  <2>1. ASSUME NEW n \in 1..13
        PROVE  r[n] = ForecastWeek(invoices, weekly,
                                   IF n = 1 THEN beginning ELSE f0[n - 1].ending_cash, mode, weekday, n)
    <3>1. CASE n = 1
      <4>1. n - 1 = 0
        BY <3>1
      <4> QED
        BY <1>3, <3>1, <4>1
    <3>2. CASE n # 1
      <4>1. n - 1 \in 1..13
        BY <3>2
      <4>2. f0[n - 1] = r[n - 1]
        BY <4>1
      <4> HIDE DEF f0
      <4> QED
        BY <1>3, <3>2, <4>2
    <3> QED
      BY <3>1, <3>2
  <2> QED
    BY <2>1
<1>5. weeks = CHOOSE f : f = Unfolded(f)
  BY DEF Weeks, ForecastWeeks
<1> HIDE DEF f0, Unfolded
<1>6. weeks = Unfolded(weeks)
  BY <1>4, <1>5
<1> QED
  BY <1>6 DEF Unfolded

\* The weeks of a forecast chain, from the balance it begins with.
Chain(w, weekly, beginning) ==
    /\ DOMAIN w = 1..13
    /\ \A n \in 1..13 :
          /\ w[n].ending_cash \in Int
          /\ WeekFrom(w[n], weekly, IF n = 1 THEN beginning ELSE w[n - 1].ending_cash, n)

LEMMA WeeksChain ==
    ASSUME NEW invoices \in Seq(Invoices), NEW weekly \in Nat, NEW beginning \in Int, NEW mode, NEW weekday,
           NEW w, w = Weeks(invoices, weekly, beginning, mode, weekday)
    PROVE  Chain(w, weekly, beginning)
<1>1. w = [n \in 1..13 |-> ForecastWeek(invoices, weekly,
                                        IF n = 1 THEN beginning ELSE w[n - 1].ending_cash, mode, weekday, n)]
  BY WeeksUnfold
<1> DEFINE T == {k \in Nat : k \in 1..13 => w[k].ending_cash \in Int}
<1>2. 0 \in T
  OBVIOUS
<1>3. ASSUME NEW k \in Nat, k \in T PROVE k + 1 \in T
  <2>1. SUFFICES ASSUME k + 1 \in 1..13 PROVE w[k + 1].ending_cash \in Int
    OBVIOUS
  <2>2. PICK b \in Int : b = IF k + 1 = 1 THEN beginning ELSE w[(k + 1) - 1].ending_cash
    <3>1. CASE k = 0
      BY <3>1
    <3>2. CASE k # 0
      <4>1. k \in 1..13 /\ (k + 1) - 1 = k
        BY <2>1, <3>2
      <4> QED
        BY <1>3, <4>1
    <3> QED
      BY <3>1, <3>2
  <2>3. w[k + 1] = ForecastWeek(invoices, weekly, b, mode, weekday, k + 1)
    BY <1>1, <2>1, <2>2
  <2> QED
    BY <2>3, WeekTypes DEF WeekFrom
<1>4. Nat \subseteq T
  <2> HIDE DEF T
  <2> QED
    BY <1>2, <1>3, Adding!Induction
<1>5. \A n \in 1..13 : w[n].ending_cash \in Int
  BY <1>4
<1>6. ASSUME NEW n \in 1..13
      PROVE  WeekFrom(w[n], weekly, IF n = 1 THEN beginning ELSE w[n - 1].ending_cash, n)
  <2>1. PICK b \in Int : b = IF n = 1 THEN beginning ELSE w[n - 1].ending_cash
    <3>1. n # 1 => n - 1 \in 1..13
      OBVIOUS
    <3> QED
      BY <1>5, <3>1
  <2>2. PICK v : v = w[n] /\ v = ForecastWeek(invoices, weekly, b, mode, weekday, n)
    BY <1>1, <2>1
  <2>3. n \in Int
    OBVIOUS
  <2>4. WeekFrom(v, weekly, b, n)
    BY <2>2, <2>3, WeekTypes
  <2> QED
    BY <2>1, <2>2, <2>4
<1>7. DOMAIN w = 1..13
  BY <1>1
<1> QED
  BY <1>5, <1>6, <1>7 DEF Chain

LEMMA ChainAddsUp ==
    ASSUME NEW w, NEW weekly \in Nat, NEW beginning \in Int, Chain(w, weekly, beginning)
    PROVE  w[13].ending_cash - beginning = SumOver([n \in 1..13 |-> w[n].net_cash_flow])
<1> DEFINE q == [n \in 1..13 |-> w[n].net_cash_flow]
           t == [n \in 0..13 |-> IF n = 0 THEN 0 ELSE w[n].ending_cash - beginning]
<1>1. q \in [1..13 -> Int]
  BY DEF Chain, WeekFrom
<1>2. t \in [0..13 -> Int] /\ t[0] = 0 /\ t[13] = w[13].ending_cash - beginning
  <2>1. \A n \in 0..13 : n # 0 => n \in 1..13
    OBVIOUS
  <2> QED
    BY <2>1 DEF Chain, WeekFrom
<1>3. ASSUME NEW k \in 1..13 PROVE t[k] = t[k - 1] + q[k]
  <2>1. PICK x \in Int : x = w[k].net_cash_flow
    BY DEF Chain, WeekFrom
  <2>2. PICK b \in Int : b = IF k = 1 THEN beginning ELSE w[k - 1].ending_cash
    <3>1. k # 1 => k - 1 \in 1..13
      OBVIOUS
    <3> QED
      BY <3>1 DEF Chain, WeekFrom
  <2>3. w[k].ending_cash = b + x
    BY <2>1, <2>2 DEF Chain, WeekFrom
  <2>4. t[k] = w[k].ending_cash - beginning /\ q[k] = x
    BY <2>1
  <2>5. t[k - 1] = b - beginning
    <3>1. CASE k = 1
      BY <2>2, <3>1
    <3>2. CASE k # 1
      <4>1. k - 1 \in 0..13 /\ k - 1 # 0
        BY <3>2
      <4> QED
        BY <2>2, <3>2, <4>1
    <3> QED
      BY <3>1, <3>2
  <2> HIDE DEF t, q
  <2> QED
    BY <2>3, <2>4, <2>5
<1>4. SumOver(q) = t[13]
  <2>1. 13 \in Nat
    OBVIOUS
  <2> HIDE DEF q, t
  <2> QED
    BY <1>1, <1>2, <1>3, <2>1, SumIs
<1> QED
  BY <1>2, <1>4

\* Payroll is paid for thirteen weeks.
LEMMA PayrollAddsUp ==
    ASSUME NEW w, NEW weekly \in Nat, NEW beginning \in Int, Chain(w, weekly, beginning)
    PROVE  SumOver([n \in 1..13 |-> w[n].payroll_outflow]) = 13 * weekly
<1> DEFINE q == [n \in 1..13 |-> w[n].payroll_outflow]
           t == [n \in 0..13 |-> IF n = 0 THEN 0 ELSE IF n = 1 THEN weekly
                                 ELSE IF n \in 2..3 THEN 3 * weekly ELSE IF n \in 4..5 THEN 5 * weekly
                                 ELSE IF n \in 6..7 THEN 7 * weekly ELSE IF n \in 8..9 THEN 9 * weekly
                                 ELSE IF n \in 10..11 THEN 11 * weekly ELSE 13 * weekly]
<1>1. q \in [1..13 -> Int] /\ \A n \in 1..13 : q[n] = IF n % 2 = 0 THEN 2 * weekly ELSE IF n = 1 THEN weekly ELSE 0
  BY DEF Chain, WeekFrom, Payroll
<1>2. t \in [0..13 -> Int] /\ t[0] = 0 /\ t[13] = 13 * weekly
  OBVIOUS
<1>3. ASSUME NEW k \in 1..13 PROVE t[k] = t[k - 1] + q[k]
  <2>1. q[k] = IF k % 2 = 0 THEN 2 * weekly ELSE IF k = 1 THEN weekly ELSE 0
    BY <1>1
  <2> HIDE DEF q
  <2>2. k \in {1, 2, 3, 4, 5, 6, 7, 8, 9, 10, 11, 12, 13}
    OBVIOUS
  <2> QED
    BY <2>1, <2>2
<1>4. SumOver(q) = t[13]
  <2>1. 13 \in Nat
    OBVIOUS
  <2> HIDE DEF q, t
  <2> QED
    BY <1>1, <1>2, <1>3, <2>1, SumIs
<1> QED
  BY <1>2, <1>4

\* env is <<beginning, weeks>>.
LowOf(env, k, low) ==
    /\ low.amount \in Int /\ low.amount <= env[1]
    /\ \A n \in 1..k : low.amount <= env[2][n].ending_cash
    /\ low.amount = env[1] \/ (low.week \in 1..k /\ low.amount = env[2][low.week].ending_cash)

Lowering == INSTANCE Folding WITH
    Op <- LAMBDA env, low, n : IF env[2][n].ending_cash < low.amount
                               THEN [amount |-> env[2][n].ending_cash, week |-> n] ELSE low,
    Holds <- LowOf

LEMMA LowestIs ==
    ASSUME NEW w, NEW weekly, NEW beginning \in Int, Chain(w, weekly, beginning),
           NEW low, low = Lowest(beginning, w)
    PROVE  /\ low.amount <= beginning /\ \A n \in 1..13 : low.amount <= w[n].ending_cash
           /\ low.amount = beginning \/ low.amount = w[low.week].ending_cash
<1> DEFINE env == <<beginning, w>>
           base == [amount |-> beginning, week |-> 1]
           s == [i \in DOMAIN w |-> i]
<1>1. env[1] = beginning /\ env[2] = w
  OBVIOUS
<1>2. DOMAIN s = 1..13 /\ (\A k \in 1..13 : s[k] = k) /\ 13 \in Nat
  BY DEF Chain, WeekFrom
<1>3. low = Lowering!Fold(env, base, s)
  BY <1>1 DEF Lowest, Lowering!Fold, Lowering!Highest, FoldLeftDomain, FoldLeft, MapThenFoldSet, Max
<1>4. LowOf(env, 0, base)
  BY DEF LowOf
<1>5. ASSUME NEW k \in 1..13, NEW x, LowOf(env, k - 1, x)
      PROVE  LowOf(env, k, IF env[2][s[k]].ending_cash < x.amount
                           THEN [amount |-> env[2][s[k]].ending_cash, week |-> s[k]] ELSE x)
  <2>1. PICK e \in Int : e = w[k].ending_cash
    BY DEF Chain, WeekFrom
  <2>2. PICK a \in Int : a = x.amount
    BY <1>5 DEF LowOf
  <2>3. a <= beginning /\ (\A n \in 1..(k - 1) : a <= w[n].ending_cash)
        /\ (a = beginning \/ (x.week \in 1..(k - 1) /\ a = w[x.week].ending_cash))
    BY <1>1, <1>5, <2>2 DEF LowOf
  <2>4. \A n \in 1..(k - 1) : n \in 1..13 /\ w[n].ending_cash \in Int
    <3>1. \A n \in 1..(k - 1) : n \in 1..13
      OBVIOUS
    <3>2. \A n \in 1..13 : w[n].ending_cash \in Int
      BY DEF Chain, WeekFrom
    <3> QED
      BY <3>1, <3>2
  <2>5. \A n \in 1..k : n = k \/ n \in 1..(k - 1)
    OBVIOUS
  <2>6. s[k] = k
    BY <1>2
  <2> HIDE DEF env, s
  <2>7. CASE e < a
    <3> DEFINE y == [amount |-> e, week |-> k]
    <3>1. y.amount = e /\ y.week = k
      OBVIOUS
    <3> HIDE DEF y
    <3>2. \A n \in 1..k : e <= w[n].ending_cash
      BY <2>1, <2>3, <2>4, <2>5, <2>7
    <3>3. LowOf(env, k, y)
      BY <1>1, <2>1, <2>3, <2>7, <3>1, <3>2 DEF LowOf
    <3> QED
      BY <1>1, <2>1, <2>2, <2>6, <2>7, <3>3 DEF y
  <2>8. CASE ~ (e < a)
    <3>1. \A n \in 1..k : a <= w[n].ending_cash
      BY <2>1, <2>3, <2>5, <2>8
    <3>2. x.week \in 1..(k - 1) => x.week \in 1..k
      OBVIOUS
    <3>3. LowOf(env, k, x)
      BY <1>1, <2>2, <2>3, <3>1, <3>2 DEF LowOf
    <3> QED
      BY <1>1, <2>1, <2>2, <2>6, <2>8, <3>3
  <2> QED
    BY <2>7, <2>8
<1>6. LowOf(env, 13, low)
  <2>1. \A k \in 1..13 : \A x : LowOf(env, k - 1, x)
           => LowOf(env, k, IF env[2][s[k]].ending_cash < x.amount
                            THEN [amount |-> env[2][s[k]].ending_cash, week |-> s[k]] ELSE x)
    <3> HIDE DEF env, base, s
    <3> QED
      BY <1>5
  <2> HIDE DEF env, base, s
  <2>2. LowOf(env, 13, Lowering!Fold(env, base, s))
    BY <1>2, <1>4, <2>1, Lowering!FoldInduction
  <2> QED
    BY <1>3, <2>2
<1> QED
  BY <1>1, <1>6 DEF LowOf

LEMMA StressNeverBetter ==
    ASSUME NEW w, NEW weekly, NEW beginning, Chain(w, weekly, beginning),
           NEW forecast, forecast.weeks = w, NEW reduction \in Nat, NEW increase \in Nat
    PROVE  \A n \in 1..13 : run_stress_test(forecast, reduction, increase)[n].net_cash_flow
                               <= 100 * w[n].net_cash_flow
<1> SUFFICES ASSUME NEW n \in 1..13
             PROVE  run_stress_test(forecast, reduction, increase)[n].net_cash_flow <= 100 * w[n].net_cash_flow
  OBVIOUS
<1>1. PICK c \in Nat : c = w[n].ar_collections
  BY DEF Chain, WeekFrom
<1>2. PICK p \in Nat : p = w[n].payroll_outflow
  BY DEF Chain, WeekFrom
<1>3. PICK o \in Nat : o = w[n].overhead_outflow
  BY DEF Chain, WeekFrom
<1>4. w[n].net_cash_flow = c - p - o /\ n \in DOMAIN forecast.weeks
  BY <1>1, <1>2, <1>3 DEF Chain, WeekFrom
<1>5. run_stress_test(forecast, reduction, increase)[n].net_cash_flow
         = c * (100 - reduction) - p * (100 + increase) - 100 * o
  BY <1>1, <1>2, <1>3, <1>4 DEF run_stress_test
<1>6. PICK x \in Nat : x = c * reduction
  OBVIOUS
<1>7. PICK y \in Nat : y = p * increase
  OBVIOUS
<1>8. c * (100 - reduction) = 100 * c - x /\ p * (100 + increase) = 100 * p + y
  BY <1>6, <1>7
<1> QED
  BY <1>4, <1>5, <1>8

\* What ForecastAddsUp says of a forecast and its stress test.
ForecastSums(f, stressed, labor, reduction, increase) ==
    /\ f.ending_cash - f.beginning_cash = SumOver([n \in 1..13 |-> f.weeks[n].net_cash_flow])
    /\ SumOver([n \in 1..13 |-> f.weeks[n].payroll_outflow]) = 13 * to_money(labor, 4)
    /\ \A n \in 1..13 : f.weeks[n].ending_cash >= f.min_cash_amount
    /\ f.beginning_cash >= f.min_cash_amount
    /\ f.min_cash_amount \in {f.beginning_cash, f.weeks[f.min_cash_week].ending_cash}
    /\ reduction >= 0 /\ increase >= 0 =>
          \A n \in 1..13 : stressed[n].net_cash_flow <= 100 * f.weeks[n].net_cash_flow

LEMMA ForecastIs ==
    ASSUME NEW queued, NEW invoices \in Seq(Invoices), NEW labor \in Nat, NEW cash \in Int, NEW mode, NEW weekday,
           NEW reduction \in Int, NEW increase \in Int,
           NEW f, f = trigger_forecast(queued, invoices, labor, cash, mode, weekday),
           NEW stressed, stressed = run_stress_test(f, reduction, increase)
    PROVE  ForecastSums(f, stressed, labor, reduction, increase)
<1>1. PICK weekly \in Nat : weekly = to_money(labor, 4)
  <2>1. 4 \in Nat \ {0} /\ labor \in Int /\ labor >= 0
    OBVIOUS
  <2> QED
    BY <2>1, ToMoney
<1>2. PICK beginning \in Int : beginning = IF queued THEN 0 ELSE cash
  OBVIOUS
<1>3. PICK w : w = Weeks(invoices, weekly, beginning, mode, weekday)
  OBVIOUS
<1>4. PICK low : low = Lowest(beginning, w)
  OBVIOUS
<1>5. f = [beginning_cash |-> beginning, weeks |-> w, ending_cash |-> w[13].ending_cash,
           min_cash_amount |-> low.amount, min_cash_week |-> low.week,
           payroll_covered_through |-> _week_start(weekday, 13) + 6]
  BY <1>1, <1>2, <1>3, <1>4 DEF trigger_forecast, build_13_week_forecast, ForecastWeeks
<1>6. Chain(w, weekly, beginning)
  BY <1>3, WeeksChain
<1>7. w[13].ending_cash - beginning = SumOver([n \in 1..13 |-> w[n].net_cash_flow])
  BY <1>6, ChainAddsUp
<1>8. SumOver([n \in 1..13 |-> w[n].payroll_outflow]) = 13 * weekly
  BY <1>6, PayrollAddsUp
<1>9. /\ low.amount <= beginning /\ \A n \in 1..13 : low.amount <= w[n].ending_cash
      /\ low.amount = beginning \/ low.amount = w[low.week].ending_cash
  BY <1>4, <1>6, LowestIs
<1>10. ASSUME reduction >= 0, increase >= 0
       PROVE  \A n \in 1..13 : stressed[n].net_cash_flow <= 100 * w[n].net_cash_flow
  <2>1. reduction \in Nat /\ increase \in Nat /\ f.weeks = w
    BY <1>5, <1>10
  <2> QED
    BY <1>6, <2>1, StressNeverBetter
<1>11. /\ f.beginning_cash = beginning /\ f.weeks = w /\ f.ending_cash = w[13].ending_cash
       /\ f.min_cash_amount = low.amount /\ f.min_cash_week = low.week
  BY <1>5
<1> QED
  BY <1>1, <1>7, <1>8, <1>9, <1>10, <1>11 DEF ForecastSums

\* A forecast is what its weeks make of it, an ageing what its invoices make of
\* it, for every list of invoices.
THEOREM ReceivablesAreRight == Spec => []ReceivablesAddUp
<1>1. Init => ReceivablesAddUp
  BY DEF Init, ReceivablesAddUp, ForecastAddsUp, AgingAddsUp, Answered, SumUpTo
<1>2. TypeInv /\ ReceivablesAddUp /\ [Next]_calcVars => ReceivablesAddUp'
  <2> SUFFICES ASSUME TypeInv, ReceivablesAddUp, [Next]_calcVars PROVE ReceivablesAddUp'
    OBVIOUS
  <2>1. CASE UNCHANGED calcVars
    BY <2>1 DEF ReceivablesAddUp, ForecastAddsUp, AgingAddsUp, Answered, calcVars, SumUpTo
  <2>2. CASE Next
    <3>1. ForecastAddsUp'
      <4>1. SUFFICES ASSUME topic = "forecast" PROVE ForecastAddsUp'
        BY <2>2, StepAnswers DEF ForecastAddsUp, Answered
      <4>2. PICK f : f = trigger_forecast(given.queued, given.invoices, given.labor, given.cash,
                                          given.mode, given.weekday)
        OBVIOUS
      <4>3. PICK stressed : stressed = run_stress_test(f, given.reduction, given.increase)
        OBVIOUS
      <4>4. result'.forecast = f /\ result'.stressed = stressed
        <5>1. ForecastCash
          BY <2>2, <4>1, TopicStep
        <5> QED
          BY <4>2, <4>3, <5>1 DEF ForecastCash, Compute
      <4>5. /\ given.invoices \in Seq(Invoices) /\ given.labor \in Nat /\ given.cash \in Int
            /\ given.reduction \in Int /\ given.increase \in Int
        BY <4>1, InputsAssumption DEF TypeInv, InvoicesOK
      <4>6. ForecastSums(f, stressed, given.labor, given.reduction, given.increase)
        BY <4>2, <4>3, <4>5, ForecastIs
      <4> QED
        BY <2>2, <4>4, <4>6, StepAnswers DEF ForecastAddsUp, SumUpTo, ForecastSums
    <3>2. AgingAddsUp'
      <4>1. SUFFICES ASSUME topic = "dso" PROVE AgingAddsUp'
        BY <2>2, StepAnswers DEF AgingAddsUp, Answered
      <4>2. result' = compute_dso(given.invoices)
        <5>1. SnapshotDso
          BY <2>2, <4>1, TopicStep
        <5> QED
          BY <5>1 DEF SnapshotDso, Compute
      <4>3. given.invoices \in Seq(Invoices)
        BY <4>1, InputsAssumption DEF TypeInv, InvoicesOK
      <4>4. PICK dso : dso = result'
        OBVIOUS
      <4>5. PICK invoices \in Seq(Invoices) : invoices = given.invoices
        BY <4>3
      <4>6. dso = compute_dso(invoices)
        BY <4>2, <4>4, <4>5
      <4>7. /\ \A b \in Buckets :
                 dso.aging[b] = SumOver([i \in 1..Len(invoices) |->
                     IF invoices[i].status \in {"open", "partial", "overdue", "disputed"}
                        /\ invoices[i].age \in AgesOf(b) /\ invoices[i].amount > invoices[i].amount_paid
                     THEN invoices[i].amount - invoices[i].amount_paid ELSE 0])
            /\ dso.total_ar = dso.aging["0_30"] + dso.aging["31_60"] + dso.aging["61_90"] + dso.aging["91_plus"]
        BY <4>6, DsoAddsUp
      <4>8. invoices = given'.invoices /\ dso = result'
        BY <2>2, <4>4, <4>5, StepAnswers
      <4> QED
        BY <4>7, <4>8 DEF AgingAddsUp, SumUpTo
    <3> QED
      BY <3>1, <3>2 DEF ReceivablesAddUp
  <2> QED
    BY <2>1, <2>2
<1> QED
  BY <1>1, <1>2, TypeOK, PTL DEF Spec

-----------------------------------------------------------------------------
(* Bids (routers/decisions.py)                                             *)

\* h is n / d to the nearest whole, halves away from zero.
Nearest(h, n, d) ==
    /\ h \in Int
    /\ n >= 0 => h >= 0 /\ 2 * n - d < 2 * (d * h) /\ 2 * (d * h) <= 2 * n + d
    /\ n < 0 => h <= 0 /\ 2 * n - d <= 2 * (d * h) /\ 2 * (d * h) < 2 * n + d

LEMMA HalfUpNearest ==
    ASSUME NEW n \in Int, NEW d \in Nat \ {0}
    PROVE  Nearest(HalfUp(n, d), n, d)
<1>1. PICK m \in Nat : m = Magnitude(n) /\ (n >= 0 => m = n) /\ (n < 0 => m = 0 - n)
  BY MagnitudeFacts
<1>2. PICK a \in Nat : a = 2 * m + d
  OBVIOUS
<1>3. PICK e \in Nat \ {0} : e = 2 * d
  OBVIOUS
<1>4. PICK h \in Nat : h = a \div e
  BY Division
<1>5. PICK r \in 0..(e - 1) : r = a % e
  BY Division
<1>6. a = e * h + r
  BY <1>4, <1>5, Division
<1>7. HalfUp(n, d) = IF n < 0 THEN -h ELSE h
  BY <1>1, <1>2, <1>3, <1>4 DEF HalfUp, Signed
<1>8. PICK x \in Int : x = d * h
  OBVIOUS
<1>9. e * h = 2 * x
  BY <1>3, <1>8
<1>10. 2 * m - d < 2 * x /\ 2 * x <= 2 * m + d
  BY <1>2, <1>3, <1>5, <1>6, <1>9
<1>11. CASE n >= 0
  <2>1. HalfUp(n, d) = h
    BY <1>7, <1>11
  <2> QED
    BY <1>1, <1>8, <1>10, <1>11, <2>1 DEF Nearest
<1>12. CASE n < 0
  <2>1. PICK k \in Int : k = 0 - h
    OBVIOUS
  <2>2. HalfUp(n, d) = k /\ k <= 0
    BY <1>7, <1>12, <2>1
  <2>3. d * k = 0 - x
    BY <1>8, <2>1
  <2> QED
    BY <1>1, <1>10, <1>12, <2>2, <2>3 DEF Nearest
<1> QED
  BY <1>11, <1>12

\* A larger share is not rounded to less.
LEMMA NearestGrows ==
    ASSUME NEW n1 \in Int, NEW d1 \in Nat \ {0}, NEW h1, Nearest(h1, n1, d1),
           NEW n2 \in Int, NEW d2 \in Nat \ {0}, NEW h2, Nearest(h2, n2, d2),
           n1 * d2 <= n2 * d1
    PROVE  h1 <= h2
<1>1. h1 \in Int /\ h2 \in Int
  BY DEF Nearest
<1>2. n1 >= 0 => n2 >= 0
  <2>1. SUFFICES ASSUME n1 >= 0, n2 < 0 PROVE FALSE
    OBVIOUS
  <2>2. n1 * d2 >= 0 /\ n2 * d1 < 0
    BY <2>1
  <2> QED
    BY <2>2
<1>3. SUFFICES ASSUME h2 <= h1 - 1 PROVE FALSE
  BY <1>1
<1>4. PICK x1 \in Int : x1 = d1 * h1
  BY <1>1
<1>5. PICK x2 \in Int : x2 = d2 * h2
  BY <1>1
\* All is compared over the product of the two.
<1>6. PICK p \in Nat : p = d1 * d2
  OBVIOUS
<1>7. p > 0
  BY <1>6
<1>8. PICK y1 \in Int : y1 = p * h1
  BY <1>1
<1>9. PICK y2 \in Int : y2 = p * h2
  BY <1>1
<1>10. PICK z1 \in Int : z1 = n1 * d2
  OBVIOUS
<1>11. PICK z2 \in Int : z2 = n2 * d1
  OBVIOUS
<1>12. y1 = x1 * d2 /\ y2 = x2 * d1
  BY <1>1, <1>4, <1>5, <1>6, <1>8, <1>9
<1>13. y2 <= y1 - p
  <2>1. p * h2 <= p * (h1 - 1)
    BY <1>1, <1>3, <1>7
  <2>2. p * (h1 - 1) = y1 - p
    BY <1>1, <1>8
  <2> QED
    BY <1>9, <2>1, <2>2
<1>14. CASE n1 >= 0
  <2>1. 2 * x1 <= 2 * n1 + d1 /\ 2 * n2 - d2 < 2 * x2
    BY <1>2, <1>4, <1>5, <1>14 DEF Nearest
  <2>2. 2 * y1 <= 2 * z1 + p
    <3>1. (2 * x1) * d2 <= (2 * n1 + d1) * d2
      BY <2>1
    <3>2. (2 * x1) * d2 = 2 * y1 /\ (2 * n1 + d1) * d2 = 2 * z1 + p
      BY <1>6, <1>10, <1>12
    <3> QED
      BY <3>1, <3>2
  <2>3. 2 * z2 - p < 2 * y2
    <3>1. (2 * n2 - d2) * d1 < (2 * x2) * d1
      BY <2>1
    <3>2. (2 * x2) * d1 = 2 * y2 /\ (2 * n2 - d2) * d1 = 2 * z2 - p
      BY <1>6, <1>11, <1>12
    <3> QED
      BY <3>1, <3>2
  <2> QED
    BY <1>10, <1>11, <1>13, <2>2, <2>3
<1>15. CASE n1 < 0 /\ n2 >= 0
  BY <1>3, <1>15 DEF Nearest
<1>16. CASE n1 < 0 /\ n2 < 0
  <2>1. 2 * x1 < 2 * n1 + d1 /\ 2 * n2 - d2 <= 2 * x2
    BY <1>4, <1>5, <1>16 DEF Nearest
  <2>2. 2 * y1 < 2 * z1 + p
    <3>1. (2 * x1) * d2 < (2 * n1 + d1) * d2
      BY <2>1
    <3>2. (2 * x1) * d2 = 2 * y1 /\ (2 * n1 + d1) * d2 = 2 * z1 + p
      BY <1>6, <1>10, <1>12
    <3> QED
      BY <3>1, <3>2
  <2>3. 2 * z2 - p <= 2 * y2
    <3>1. (2 * n2 - d2) * d1 <= (2 * x2) * d1
      BY <2>1
    <3>2. (2 * x2) * d1 = 2 * y2 /\ (2 * n2 - d2) * d1 = 2 * z2 - p
      BY <1>6, <1>11, <1>12
    <3> QED
      BY <3>1, <3>2
  <2> QED
    BY <1>10, <1>11, <1>13, <2>2, <2>3
<1> QED
  BY <1>14, <1>15, <1>16

\* A whole multiple of d passes through the rounding.
LEMMA HalfUpShifts ==
    ASSUME NEW n \in Nat, NEW d \in Nat \ {0}, NEW k \in Nat
    PROVE  HalfUp(n + d * k, d) = HalfUp(n, d) + k
<1>1. PICK x \in Nat : x = d * k
  OBVIOUS
<1>2. PICK m \in Nat : m = n + x
  OBVIOUS
<1>3. PICK a : a = HalfUp(m, d) /\ a \in Int /\ 2 * m - d < 2 * (d * a) /\ 2 * (d * a) <= 2 * m + d
  <2>1. PICK h : h = HalfUp(m, d) /\ Nearest(h, m, d)
    BY HalfUpNearest
  <2>2. h \in Int /\ 2 * m - d < 2 * (d * h) /\ 2 * (d * h) <= 2 * m + d
    BY <2>1 DEF Nearest
  <2> QED
    BY <2>1, <2>2
<1>4. PICK b : b = HalfUp(n, d) /\ b \in Int /\ 2 * n - d < 2 * (d * b) /\ 2 * (d * b) <= 2 * n + d
  <2>1. PICK h : h = HalfUp(n, d) /\ Nearest(h, n, d)
    BY HalfUpNearest
  <2>2. h \in Int /\ 2 * n - d < 2 * (d * h) /\ 2 * (d * h) <= 2 * n + d
    BY <2>1 DEF Nearest
  <2> QED
    BY <2>1, <2>2
<1>5. PICK y \in Int : y = d * a
  BY <1>3
<1>6. PICK z \in Int : z = d * b
  BY <1>4
<1>7. PICK e \in Int : e = a - b - k
  BY <1>3, <1>4
<1>8. d * e = y - z - x
  BY <1>1, <1>3, <1>4, <1>5, <1>6, <1>7
<1>9. 0 - d < d * e /\ d * e < d
  BY <1>2, <1>3, <1>4, <1>5, <1>6, <1>8
<1>10. e = 0
  <2>1. e >= 1 => d * e >= d
    OBVIOUS
  <2>2. e <= 0 - 1 => d * e <= 0 - d
    <3>1. SUFFICES ASSUME e <= 0 - 1 PROVE d * e <= 0 - d
      OBVIOUS
    <3>2. d * e <= d * (0 - 1)
      BY <3>1
    <3> QED
      BY <3>2
  <2> QED
    BY <1>9, <2>1, <2>2
<1> QED
  BY <1>1, <1>2, <1>3, <1>4, <1>7, <1>10

Bids == [value: Int, hours: Nat, rate: Nat, subcontractor_pct: Nat, overhead_pct: Nat]

LEMMA HalfUpOfNat ==
    ASSUME NEW n \in Nat, NEW d \in Nat \ {0}
    PROVE  HalfUp(n, d) \in Nat /\ 2 * n - d < 2 * (d * HalfUp(n, d)) /\ 2 * (d * HalfUp(n, d)) <= 2 * n + d
<1>1. PICK h : h = HalfUp(n, d) /\ Nearest(h, n, d)
  BY HalfUpNearest
<1>2. h \in Nat /\ 2 * n - d < 2 * (d * h) /\ 2 * (d * h) <= 2 * n + d
  BY <1>1 DEF Nearest
<1> QED
  BY <1>1, <1>2

LEMMA LoadedLaborNat ==
    ASSUME NEW bid \in Bids
    PROVE  LoadedLabor(bid) \in Nat
<1>1. PICK w \in Nat : w = bid.hours * bid.rate
  BY DEF Bids
<1>2. 100 \in Nat \ {0}
  OBVIOUS
<1>3. PICK x \in Nat : x = HalfUp(w, 100)
  BY <1>2, HalfUpOfNat
<1>4. PICK y \in Nat : y = x * 130
  OBVIOUS
<1>5. HalfUp(y, 100) \in Nat
  BY <1>2, HalfUpOfNat
<1> QED
  BY <1>1, <1>3, <1>4, <1>5 DEF LoadedLabor

\* What a share of the price costs.
LEMMA ShareIs ==
    ASSUME NEW v \in Nat, NEW pct \in Nat
    PROVE  \E r \in Nat : /\ r = HalfUp(v * pct, 100)
                          /\ HalfUp((v + 20000) * pct, 100) = r + 200 * pct
                          /\ v * pct <= 100 * r + 50
<1>1. PICK x \in Nat : x = v * pct
  OBVIOUS
<1>2. 100 \in Nat \ {0}
  OBVIOUS
<1>3. PICK r \in Nat : r = HalfUp(x, 100)
  BY <1>2, HalfUpOfNat
<1>4. 2 * x - 100 < 2 * (100 * r)
  BY <1>2, <1>3, HalfUpOfNat
<1>5. PICK k \in Nat : k = 200 * pct
  OBVIOUS
<1>6. HalfUp(x + 100 * k, 100) = HalfUp(x, 100) + k
  BY <1>2, HalfUpShifts
<1>7. (v + 20000) * pct = x + 100 * k
  BY <1>1, <1>5
<1> QED
  BY <1>1, <1>3, <1>4, <1>5, <1>6, <1>7

\* The percentage a bid is judged by.
Pct(contribution, value) == HalfUp(contribution * 10000, value)

\* The score is that of the bid.
Scores(score, bid) ==
    /\ BidCost(bid) \in Nat
    /\ score.recommended_price = HalfUp(BidCost(bid) * 100, 80)
    /\ score.contribution_margin_pct = Pct(bid.value - BidCost(bid), bid.value)
    /\ score.decision_type = "reprice" => /\ score.contribution_margin_pct >= 0
                                          /\ score.contribution_margin_pct < 1000

LEMMA BidScoreIs ==
    ASSUME NEW bid \in Bids, bid.value > 0
    PROVE  Scores(score_bid(bid), bid)
<1>0. PICK score : score = score_bid(bid)
  OBVIOUS
<1>1. PICK l \in Nat : l = LoadedLabor(bid)
  BY LoadedLaborNat
<1>2. PICK s \in Nat : s = HalfUp(bid.value * bid.subcontractor_pct, 100)
  <2>1. PICK v \in Nat, p \in Nat : v = bid.value /\ p = bid.subcontractor_pct
    BY DEF Bids
  <2>2. \E r \in Nat : r = HalfUp(v * p, 100)
    BY ShareIs
  <2> QED
    BY <2>1, <2>2
<1>3. PICK o \in Nat : o = HalfUp(bid.value * bid.overhead_pct, 100)
  <2>1. PICK v \in Nat, p \in Nat : v = bid.value /\ p = bid.overhead_pct
    BY DEF Bids
  <2>2. \E r \in Nat : r = HalfUp(v * p, 100)
    BY ShareIs
  <2> QED
    BY <2>1, <2>2
<1>4. BidCost(bid) = l + s + o
  BY <1>1, <1>2, <1>3 DEF BidCost
<1>5. PICK pct : pct = Pct(bid.value - BidCost(bid), bid.value)
  OBVIOUS
<1>6. /\ score.recommended_price = HalfUp(BidCost(bid) * 100, 80)
      /\ score.contribution_margin_pct = pct
      /\ score.decision_type = "reprice" => pct >= 0 /\ pct < 1000
  <2>1. pct = IF bid.value > 0 THEN HalfUp((bid.value - BidCost(bid)) * 10000, bid.value) ELSE 0
    BY <1>5 DEF Pct
  <2> QED
    BY <1>0, <2>1 DEF score_bid
<1> QED
  BY <1>0, <1>4, <1>5, <1>6 DEF Scores

SameButPrice(other, bid) ==
    /\ other.hours = bid.hours /\ other.rate = bid.rate
    /\ other.subcontractor_pct = bid.subcontractor_pct /\ other.overhead_pct = bid.overhead_pct

\* A dearer bid does not score worse.
LEMMA DearerScoresBetter ==
    ASSUME NEW bid \in Bids, bid.value > 0, LoadedLabor(bid) > 0,
           NEW dearer \in Bids, SameButPrice(dearer, bid), dearer.value = bid.value + 20000
    PROVE  score_bid(dearer).contribution_margin_pct >= score_bid(bid).contribution_margin_pct
<1>1. PICK v \in Nat \ {0} : v = bid.value
  BY DEF Bids
<1>2. PICK l \in Nat \ {0} : l = LoadedLabor(bid)
  BY LoadedLaborNat
<1>3. PICK s \in Nat : s = bid.subcontractor_pct
  BY DEF Bids
<1>4. PICK o \in Nat : o = bid.overhead_pct
  BY DEF Bids
<1>5. PICK r1 \in Nat : r1 = HalfUp(v * s, 100) /\ HalfUp((v + 20000) * s, 100) = r1 + 200 * s /\ v * s <= 100 * r1 + 50
  BY ShareIs
<1>6. PICK r2 \in Nat : r2 = HalfUp(v * o, 100) /\ HalfUp((v + 20000) * o, 100) = r2 + 200 * o /\ v * o <= 100 * r2 + 50
  BY ShareIs
<1>7. /\ dearer \in Bids /\ dearer.value = v + 20000 /\ dearer.hours = bid.hours /\ dearer.rate = bid.rate
      /\ dearer.subcontractor_pct = s /\ dearer.overhead_pct = o
  BY <1>1, <1>3, <1>4 DEF SameButPrice
<1>8. PICK c \in Int : c = v - (l + r1 + r2)
  OBVIOUS
<1>9. BidCost(bid) = l + r1 + r2
  BY <1>1, <1>2, <1>3, <1>4, <1>5, <1>6 DEF BidCost
<1>10. BidCost(dearer) = l + (r1 + 200 * s) + (r2 + 200 * o)
  <2>1. LoadedLabor(dearer) = l
    BY <1>2, <1>7 DEF LoadedLabor
  <2>2. /\ dearer.value * dearer.subcontractor_pct = (v + 20000) * s
        /\ dearer.value * dearer.overhead_pct = (v + 20000) * o
    <3>1. PICK u : u = v + 20000
      OBVIOUS
    <3>2. dearer.value = u /\ dearer.subcontractor_pct = s /\ dearer.overhead_pct = o
      BY <1>7, <3>1
    <3> QED
      BY <3>1, <3>2
  <2>3. /\ HalfUp(dearer.value * dearer.subcontractor_pct, 100) = r1 + 200 * s
        /\ HalfUp(dearer.value * dearer.overhead_pct, 100) = r2 + 200 * o
    BY <1>5, <1>6, <2>2
  <2> QED
    BY <2>1, <2>3 DEF BidCost
<1>11. PICK k \in Int : k = 100 - s - o
  OBVIOUS
<1>12. PICK d \in Int : d = c + 200 * k
  OBVIOUS
<1>13. bid.value - BidCost(bid) = c /\ dearer.value - BidCost(dearer) = d
  BY <1>1, <1>7, <1>8, <1>9, <1>10, <1>11, <1>12
<1>14. (c * 10000) * (v + 20000) <= (d * 10000) * v
  <2>1. PICK x \in Int : x = v * s
    OBVIOUS
  <2>2. PICK y \in Int : y = v * o
    OBVIOUS
  <2>3. v * k = 100 * v - x - y
    BY <1>11, <2>1, <2>2
  <2>4. 100 * c <= v * k
    BY <1>2, <1>5, <1>6, <1>8, <2>1, <2>2, <2>3
  <2>5. PICK z \in Int : z = v * k
    OBVIOUS
  <2>6. PICK a \in Int : a = c * v
    OBVIOUS
  <2>7. (c * 10000) * (v + 20000) = 10000 * a + 200000000 * c
    BY <2>6
  <2>8. (d * 10000) * v = 10000 * a + 2000000 * z
    BY <1>12, <2>5, <2>6
  <2> QED
    BY <2>4, <2>5, <2>7, <2>8
<1>15. PICK n1 \in Int : n1 = c * 10000
  OBVIOUS
<1>16. PICK n2 \in Int : n2 = d * 10000
  OBVIOUS
<1>17. PICK w \in Nat \ {0} : w = v + 20000
  OBVIOUS
<1>18. PICK h1 : h1 = HalfUp(n1, v) /\ Nearest(h1, n1, v)
  BY HalfUpNearest
<1>19. PICK h2 : h2 = HalfUp(n2, w) /\ Nearest(h2, n2, w)
  BY HalfUpNearest
<1>20. n1 * w <= n2 * v
  BY <1>14, <1>15, <1>16, <1>17
<1>21. h1 <= h2
  BY <1>18, <1>19, <1>20, NearestGrows
<1>22. h1 \in Int /\ h2 \in Int
  BY <1>18, <1>19 DEF Nearest
<1>23. score_bid(bid).contribution_margin_pct = h1
  <2>1. score_bid(bid).contribution_margin_pct = Pct(bid.value - BidCost(bid), bid.value)
    BY <1>1, BidScoreIs DEF Scores
  <2> QED
    BY <1>1, <1>13, <1>15, <1>18, <2>1 DEF Pct
<1>24. score_bid(dearer).contribution_margin_pct = h2
  <2>1. score_bid(dearer).contribution_margin_pct = Pct(dearer.value - BidCost(dearer), dearer.value)
    <3>1. dearer \in Bids /\ dearer.value > 0
      BY <1>7
    <3>2. Scores(score_bid(dearer), dearer)
      BY <3>1, BidScoreIs
    <3> QED
      BY <3>2 DEF Scores
  <2> QED
    BY <1>7, <1>13, <1>16, <1>17, <1>19, <2>1 DEF Pct
<1> QED
  BY <1>21, <1>22, <1>23, <1>24

\* A price that a reprice recommends is above the one it was asked about.
LEMMA RepriceAsksMore ==
    ASSUME NEW bid \in Bids, bid.value > 1, score_bid(bid).decision_type = "reprice"
    PROVE  score_bid(bid).recommended_price > bid.value
<1>1. PICK v \in Nat \ {0, 1} : v = bid.value
  BY DEF Bids
<1>2. PICK score : score = score_bid(bid)
  OBVIOUS
<1>3. /\ BidCost(bid) \in Nat
      /\ score.recommended_price = HalfUp(BidCost(bid) * 100, 80)
      /\ score.contribution_margin_pct = Pct(bid.value - BidCost(bid), bid.value)
      /\ score.contribution_margin_pct < 1000
  <2>1. bid.value > 0
    BY <1>1
  <2>2. Scores(score, bid)
    BY <1>2, <2>1, BidScoreIs
  <2> QED
    BY <1>2, <2>2 DEF Scores
<1>4. PICK cost \in Nat : cost = BidCost(bid)
  BY <1>3
<1>5. PICK n \in Int : n = (v - cost) * 10000
  OBVIOUS
<1>6. PICK h : h = HalfUp(n, v) /\ Nearest(h, n, v)
  BY HalfUpNearest
<1>7. h \in Int /\ h <= 999
  <2>1. score.contribution_margin_pct = h
    BY <1>1, <1>3, <1>4, <1>5, <1>6 DEF Pct
  <2> QED
    BY <1>3, <1>6, <2>1 DEF Nearest
<1>8. 2 * n - v <= 1998 * v
  <2>1. 2 * n - v <= 2 * (v * h)
    BY <1>6, <1>7 DEF Nearest
  <2>2. v * h <= v * 999
    BY <1>7
  <2>3. PICK y \in Int : y = v * h
    BY <1>7
  <2> QED
    BY <2>1, <2>2, <2>3
<1>9. PICK m \in Nat : m = cost * 100
  OBVIOUS
<1>10. PICK r \in Nat : r = HalfUp(m, 80) /\ 2 * m - 80 < 160 * r
  <2>1. 80 \in Nat \ {0}
    OBVIOUS
  <2>2. PICK r \in Nat : r = HalfUp(m, 80)
    BY <2>1, HalfUpOfNat
  <2>3. 2 * m - 80 < 2 * (80 * r)
    BY <2>1, <2>2, HalfUpOfNat
  <2> QED
    BY <2>2, <2>3
<1>11. r > v
  BY <1>5, <1>8, <1>9, <1>10
<1> QED
  BY <1>1, <1>2, <1>3, <1>4, <1>9, <1>10, <1>11

\* Where labor is all that the job costs, the recommended price earns a fifth.
LEMMA RepriceEarnsAFifth ==
    ASSUME NEW bid \in Bids, bid.value > 1, bid.subcontractor_pct = 0, bid.overhead_pct = 0,
           LoadedLabor(bid) >= 2500,
           NEW again \in Bids, SameButPrice(again, bid),
           again.value = score_bid(bid).recommended_price
    PROVE  score_bid(again).contribution_margin_pct \in 1999..2001
<1>1. PICK l \in Nat : l = LoadedLabor(bid)
  BY LoadedLaborNat
<1>2. 100 \in Nat \ {0} /\ 80 \in Nat \ {0}
  OBVIOUS
<1>3. HalfUp(0, 100) = 0
  <2>1. PICK z \in Nat : z = 0
    OBVIOUS
  <2>2. PICK h \in Nat : h = HalfUp(z, 100)
    BY <1>2, HalfUpOfNat
  <2>3. 2 * (100 * h) <= 2 * z + 100
    BY <1>2, <2>2, HalfUpOfNat
  <2> QED
    BY <2>1, <2>2, <2>3
<1>4. BidCost(bid) = l
  <2>1. bid.value * 0 = 0
    BY DEF Bids
  <2> QED
    BY <1>1, <1>3, <2>1 DEF BidCost
<1>5. PICK m \in Nat : m = l * 100
  OBVIOUS
<1>6. PICK r \in Nat : r = HalfUp(m, 80) /\ 2 * m - 80 < 160 * r /\ 160 * r <= 2 * m + 80
  <2>1. PICK r \in Nat : r = HalfUp(m, 80)
    BY <1>2, HalfUpOfNat
  <2>2. 2 * m - 80 < 2 * (80 * r) /\ 2 * (80 * r) <= 2 * m + 80
    BY <1>2, <2>1, HalfUpOfNat
  <2> QED
    BY <2>1, <2>2
<1>7. score_bid(bid).recommended_price = r
  <2>1. bid.value > 0
    BY DEF Bids
  <2>2. Scores(score_bid(bid), bid)
    BY <2>1, BidScoreIs
  <2> QED
    BY <1>4, <1>5, <1>6, <2>2 DEF Scores
<1>8. r > 3000
  BY <1>1, <1>5, <1>6
<1>9. /\ again \in Bids /\ again.value = r /\ again.hours = bid.hours /\ again.rate = bid.rate
      /\ again.subcontractor_pct = 0 /\ again.overhead_pct = 0
  BY <1>7 DEF SameButPrice
<1>10. BidCost(again) = l
  <2>1. LoadedLabor(again) = l
    BY <1>1, <1>9 DEF LoadedLabor
  <2>2. again.value * 0 = 0
    BY <1>9
  <2> QED
    BY <1>3, <1>9, <2>1, <2>2 DEF BidCost
<1>11. PICK n \in Int : n = (r - l) * 10000
  OBVIOUS
<1>12. PICK h : h = HalfUp(n, r) /\ Nearest(h, n, r)
  BY <1>8, HalfUpNearest
<1>13. score_bid(again).contribution_margin_pct = h
  <2>1. again.value > 0
    BY <1>8, <1>9
  <2>2. Scores(score_bid(again), again)
    BY <1>9, <2>1, BidScoreIs
  <2>3. again.value - BidCost(again) = r - l
    BY <1>9, <1>10
  <2> QED
    BY <1>9, <1>11, <1>12, <2>2, <2>3 DEF Scores, Pct
<1>14. h \in Int
  BY <1>12 DEF Nearest
<1>15. PICK x \in Int : x = r * h
  BY <1>14
<1>16. 2 * n - r <= 2 * x /\ 2 * x <= 2 * n + r
  BY <1>12, <1>15 DEF Nearest
<1>17. ~ (h <= 1998)
  <2>1. SUFFICES ASSUME h <= 1998 PROVE FALSE
    OBVIOUS
  <2>2. r * h <= r * 1998
    BY <1>14, <2>1
  <2> QED
    BY <1>5, <1>6, <1>8, <1>11, <1>15, <1>16, <2>2
<1>18. ~ (h >= 2002)
  <2>1. SUFFICES ASSUME h >= 2002 PROVE FALSE
    OBVIOUS
  <2>2. r * h >= r * 2002
    BY <1>14, <2>1
  <2> QED
    BY <1>5, <1>6, <1>8, <1>11, <1>15, <1>16, <2>2
<1> QED
  BY <1>13, <1>14, <1>17, <1>18

-----------------------------------------------------------------------------
(* Margins                                                                 *)

LEMMA ShiftsCost ==
    ASSUME NEW shifts \in Seq(Shifts), NEW workers
    PROVE  CostOf(shifts, workers) \in Int
<1>1. PICK kept \in Seq(Shifts) : kept = Where(shifts, LAMBDA s : s.worker_type \in workers)
  BY KeptIsSeq DEF Where
<1>2. PICK n \in Nat : n = Len(kept) /\ DOMAIN kept = 1..n
  OBVIOUS
<1>3. ASSUME NEW shift \in Shifts PROVE ShiftCost(shift) \in Int
  <2>1. PICK h : h = HalfUp(shift.hours * shift.rate, 100) /\ h \in Int
    <3>1. PICK x \in Int : x = shift.hours * shift.rate
      BY DEF Shifts
    <3>2. Nearest(HalfUp(x, 100), x, 100)
      BY HalfUpNearest
    <3> QED
      BY <3>1, <3>2 DEF Nearest
  <2> QED
    BY <2>1 DEF ShiftCost, Shifts
<1> DEFINE q == [i \in 1..n |-> ShiftCost(kept[i])]
<1>4. q \in [1..n -> Int]
  BY <1>2, <1>3
<1>5. SumOver(q) \in Int
  <2> HIDE DEF q
  <2> QED
    BY <1>4, SumIsInt
<1> QED
  BY <1>1, <1>2, <1>5 DEF CostOf, SumOf

LEMMA BurdenTypes ==
    ASSUME NEW assumptions \in SUBSET Burdens, NEW company, NEW as_of
    PROVE  BurdenPct(assumptions, company, as_of) \in Int
<1>1. PICK found : found = _get_active_burden(assumptions, company, as_of) /\ found \subseteq Burdens
  BY DEF _get_active_burden
<1>2. \A a \in found : a.total_burden_pct \in Int
  BY <1>1 DEF Burdens
<1> QED
  BY <1>1, <1>2 DEF BurdenPct

\* A line's contribution is what is left of its revenue.
LineAdds(line) ==
    /\ line.revenue \in Int /\ line.direct_labor_cost \in Int
    /\ line.burden_cost \in Int /\ line.subcontractor_cost \in Int
    /\ line.contribution_margin =
          line.revenue - line.direct_labor_cost - line.burden_cost - line.subcontractor_cost

LEMMA ContractAdds ==
    ASSUME NEW revenue \in Int, NEW shifts \in Seq(Shifts), NEW pct \in Int
    PROVE  LineAdds(compute_contract_profitability(revenue, shifts, pct))
<1>1. PICK w2 \in Int : w2 = CostOf(shifts, {"W2"})
  BY ShiftsCost
<1>2. PICK sub \in Int : sub = CostOf(shifts, {"SUB"})
  BY ShiftsCost
<1>3. PICK burden \in Int : burden = HalfUp(w2 * pct, 100)
  <2>1. PICK x \in Int : x = w2 * pct
    OBVIOUS
  <2>2. Nearest(HalfUp(x, 100), x, 100)
    BY HalfUpNearest
  <2> QED
    BY <2>1, <2>2 DEF Nearest
<1>4. PICK line : line = compute_contract_profitability(revenue, shifts, pct)
  OBVIOUS
<1>5. /\ line.revenue = revenue /\ line.direct_labor_cost = w2 /\ line.burden_cost = burden
      /\ line.subcontractor_cost = sub /\ line.contribution_margin = revenue - w2 - burden - sub
  BY <1>1, <1>2, <1>3, <1>4 DEF compute_contract_profitability
<1> QED
  BY <1>1, <1>2, <1>3, <1>4, <1>5 DEF LineAdds

LEMMA SumOfDifference ==
    ASSUME NEW n \in Nat, NEW p \in [1..n -> Int], NEW q \in [1..n -> Int]
    PROVE  \E r \in [1..n -> Int] : /\ \A k \in 1..n : r[k] = p[k] - q[k]
                                    /\ SumOver(r) = SumOver(p) - SumOver(q)
<1> DEFINE r == [k \in 1..n |-> p[k] - q[k]]
<1>1. r \in [1..n -> Int] /\ \A k \in 1..n : r[k] = p[k] - q[k]
  OBVIOUS
<1>2. SumOver(r) = SumOver(p) - SumOver(q)
  BY SumOfTwo
<1> HIDE DEF r
<1> QED
  BY <1>1, <1>2

LEMMA GrossIsContributions ==
    ASSUME NEW n \in Nat, NEW lines, DOMAIN lines = 1..n, \A i \in 1..n : LineAdds(lines[i])
    PROVE  GrossProfit(lines) = SumOver([i \in 1..n |-> lines[i].contribution_margin])
<1>0. \A i \in 1..n : /\ lines[i].revenue \in Int /\ lines[i].direct_labor_cost \in Int
                      /\ lines[i].burden_cost \in Int /\ lines[i].subcontractor_cost \in Int
                      /\ lines[i].contribution_margin = lines[i].revenue - lines[i].direct_labor_cost
                             - lines[i].burden_cost - lines[i].subcontractor_cost
  BY DEF LineAdds
<1>1. PICK revenue \in [1..n -> Int] : revenue = [i \in 1..n |-> lines[i].revenue]
  BY <1>0
<1>2. PICK labor \in [1..n -> Int] : labor = [i \in 1..n |-> lines[i].direct_labor_cost]
  BY <1>0
<1>3. PICK burden \in [1..n -> Int] : burden = [i \in 1..n |-> lines[i].burden_cost]
  BY <1>0
<1>4. PICK sub \in [1..n -> Int] : sub = [i \in 1..n |-> lines[i].subcontractor_cost]
  BY <1>0
<1>5. PICK a \in [1..n -> Int] : /\ \A i \in 1..n : a[i] = revenue[i] - labor[i]
                                 /\ SumOver(a) = SumOver(revenue) - SumOver(labor)
  BY SumOfDifference
<1>6. PICK b \in [1..n -> Int] : /\ \A i \in 1..n : b[i] = a[i] - burden[i]
                                 /\ SumOver(b) = SumOver(a) - SumOver(burden)
  BY SumOfDifference
<1>7. PICK c \in [1..n -> Int] : /\ \A i \in 1..n : c[i] = b[i] - sub[i]
                                 /\ SumOver(c) = SumOver(b) - SumOver(sub)
  BY SumOfDifference
<1>8. c = [i \in 1..n |-> lines[i].contribution_margin]
  <2>1. \A i \in 1..n : c[i] = lines[i].contribution_margin
    <3>1. \A i \in 1..n : /\ revenue[i] = lines[i].revenue /\ labor[i] = lines[i].direct_labor_cost
                          /\ burden[i] = lines[i].burden_cost /\ sub[i] = lines[i].subcontractor_cost
      BY <1>1, <1>2, <1>3, <1>4
    <3>2. ASSUME NEW i \in 1..n PROVE c[i] = lines[i].contribution_margin
      <4>1. PICK r \in Int, l \in Int, u \in Int, s \in Int :
               r = revenue[i] /\ l = labor[i] /\ u = burden[i] /\ s = sub[i]
        OBVIOUS
      <4>2. a[i] = r - l
        BY <1>5, <4>1
      <4>3. b[i] = (r - l) - u
        BY <1>6, <4>1, <4>2
      <4>4. c[i] = ((r - l) - u) - s
        BY <1>7, <4>1, <4>3
      <4>5. lines[i].contribution_margin = r - l - u - s
        BY <1>0, <3>1, <4>1
      <4> QED
        BY <4>4, <4>5
    <3> QED
      BY <3>2
  <2> QED
    BY <2>1
<1>9. GrossProfit(lines) = SumOver(revenue) - SumOver(labor) - SumOver(burden) - SumOver(sub)
  BY <1>1, <1>2, <1>3, <1>4 DEF GrossProfit, SumOf
<1> QED
  BY <1>5, <1>6, <1>7, <1>8, <1>9

\* What a company earns is what its contracts contribute.
LEMMA MarginsAre ==
    ASSUME NEW contracts \in Seq(Contracts), NEW customers, NEW assumptions \in SUBSET Burdens,
           NEW company, NEW period_end, NEW run,
           run = run_company_profitability(contracts, customers, assumptions, company, period_end)
    PROVE  run.gross_profit = SumOver([i \in 1..Len(run.lines) |-> run.lines[i].contribution_margin])
<1>1. PICK counted \in Seq(Contracts) :
          counted = Where(contracts, LAMBDA c : c.status = "active" /\ c.customer \in customers)
  BY KeptIsSeq DEF Where
<1>2. PICK pct \in Int : pct = BurdenPct(assumptions, company, period_end)
  BY BurdenTypes
<1>3. PICK n \in Nat : n = Len(counted) /\ DOMAIN counted = 1..n
  OBVIOUS
<1>4. PICK lines : lines = [i \in 1..n |->
                              compute_contract_profitability(counted[i].revenue, counted[i].shifts, pct)]
  OBVIOUS
<1>5. run.lines = lines /\ run.gross_profit = GrossProfit(lines)
  <2>1. lines = [i \in DOMAIN counted |->
                    compute_contract_profitability(counted[i].revenue, counted[i].shifts,
                                                   BurdenPct(assumptions, company, period_end))]
    BY <1>2, <1>3, <1>4, Zenon
  <2> QED
    BY <1>1, <2>1 DEF run_company_profitability
<1>6. DOMAIN lines = 1..n /\ Len(lines) = n
  BY <1>4
<1>7. \A i \in 1..n : LineAdds(lines[i])
  <2>1. \A i \in 1..n : counted[i].revenue \in Int /\ counted[i].shifts \in Seq(Shifts)
    <3>1. \A i \in 1..n : counted[i] \in Contracts
      BY <1>3
    <3>2. ASSUME NEW c \in Contracts PROVE c.revenue \in Int /\ c.shifts \in Seq(Shifts)
      BY DEF Contracts
    <3> QED
      BY <3>1, <3>2
  <2> QED
    <3>1. ASSUME NEW i \in 1..n PROVE LineAdds(lines[i])
      <4>1. PICK revenue \in Int, shifts \in Seq(Shifts) :
               revenue = counted[i].revenue /\ shifts = counted[i].shifts
        BY <2>1
      <4>2. LineAdds(compute_contract_profitability(revenue, shifts, pct))
        BY ContractAdds
      <4> QED
        BY <1>4, <4>1, <4>2
    <3> QED
      BY <3>1
<1>8. GrossProfit(lines) = SumOver([i \in 1..n |-> lines[i].contribution_margin])
  BY <1>6, <1>7, GrossIsContributions
<1> QED
  BY <1>5, <1>6, <1>8

-----------------------------------------------------------------------------
(* The bridge to SDE and the period that is valued                         *)

Addbacks == [amount: Int, applies_to: {"ebitda", "sde", "other"}]

\* What the add-backs to the levels come to, each at its own place.
AddbackList(addbacks, levels) ==
    [a \in 1..Len(addbacks) |-> IF addbacks[a].applies_to \in levels THEN addbacks[a].amount ELSE 0]

LEMMA AddbackIs ==
    ASSUME NEW addbacks \in Seq(Addbacks), NEW n \in Nat, n = Len(addbacks), NEW a \in 1..n
    PROVE  addbacks[a] \in Addbacks /\ addbacks[a].amount \in Int
<1>1. addbacks[a] \in Addbacks
  OBVIOUS
<1>2. ASSUME NEW b \in Addbacks PROVE b.amount \in Int
  BY DEF Addbacks
<1> QED
  BY <1>1, <1>2

LEMMA AddbackTypes ==
    ASSUME NEW addbacks \in Seq(Addbacks), NEW levels
    PROVE  AddbackList(addbacks, levels) \in [1..Len(addbacks) -> Int]
<1>1. \A a \in 1..Len(addbacks) : addbacks[a].amount \in Int
  <2>1. Len(addbacks) \in Nat
    OBVIOUS
  <2> QED
    BY <2>1, AddbackIs
<1> QED
  BY <1>1 DEF AddbackList

LEMMA AddbacksAre ==
    ASSUME NEW p, p.addbacks \in Seq(Addbacks), NEW level
    PROVE  AddbacksTo(p, level) = SumOver(AddbackList(p.addbacks, {level}))
<1>1. PICK s \in Seq(Addbacks) : s = p.addbacks
  OBVIOUS
<1>2. PICK n \in Nat : n = Len(s) /\ DOMAIN s = 1..n
  OBVIOUS
<1>3. PICK I : I = {i \in DOMAIN s : s[i].applies_to = level}
  OBVIOUS
<1>4. \A i \in 1..n : s[i].amount \in Int
  BY <1>2, AddbackIs
<1>5. PICK v \in [1..n -> Int] : v = [i \in 1..n |-> s[i].amount]
  BY <1>4
<1>6. PICK at : at = Places(n, I) /\ at \in Seq(I \intersect 1..n)
  BY PlacesAre DEF Listing
<1>7. PICK kept : kept = Kept(s, I)
  OBVIOUS
<1>8. kept = [j \in DOMAIN at |-> s[at[j]]]
  BY <1>2, <1>6, <1>7 DEF Kept
<1>9. PICK w : w = [j \in DOMAIN kept |-> kept[j].amount]
  OBVIOUS
<1>10. w = Images(v, at)
  <2>1. \A j \in DOMAIN at : at[j] \in 1..n
    BY <1>6
  <2>2. \A j \in DOMAIN at : kept[j].amount = v[at[j]]
    BY <1>5, <1>8, <2>1
  <2>3. DOMAIN at = 1..Len(at) /\ DOMAIN kept = DOMAIN at
    BY <1>6, <1>8
  <2> QED
    BY <1>9, <2>2, <2>3 DEF Images
<1>12. SumOver(w) = SumOver([i \in 1..n |-> IF i \in I THEN v[i] ELSE 0])
  BY <1>6, <1>10, SumOfPlaces
<1>13. AddbacksTo(p, level) = SumOver(w)
  BY <1>1, <1>3, <1>7, <1>9 DEF AddbacksTo, SumOf, Where
<1>14. [i \in 1..n |-> IF i \in I THEN v[i] ELSE 0] = AddbackList(s, {level})
  <2>1. \A i \in 1..n : (IF i \in I THEN v[i] ELSE 0) = IF s[i].applies_to \in {level} THEN s[i].amount ELSE 0
    BY <1>2, <1>3, <1>5
  <2> QED
    BY <1>2, <2>1 DEF AddbackList
<1> QED
  BY <1>1, <1>12, <1>13, <1>14

LEMMA LevelsAddUp ==
    ASSUME NEW addbacks \in Seq(Addbacks)
    PROVE  SumOver(AddbackList(addbacks, {"ebitda", "sde"}))
              = SumOver(AddbackList(addbacks, {"ebitda"})) + SumOver(AddbackList(addbacks, {"sde"}))
<1>1. PICK n \in Nat : n = Len(addbacks)
  OBVIOUS
<1>2. PICK e \in [1..n -> Int] : e = AddbackList(addbacks, {"ebitda"})
  BY <1>1, AddbackTypes
<1>3. PICK s \in [1..n -> Int] : s = AddbackList(addbacks, {"sde"})
  BY <1>1, AddbackTypes
<1>4. AddbackList(addbacks, {"ebitda", "sde"}) = [a \in 1..n |-> e[a] + s[a]]
  <2>1. ASSUME NEW a \in 1..n
        PROVE  e[a] + s[a] = IF addbacks[a].applies_to \in {"ebitda", "sde"} THEN addbacks[a].amount ELSE 0
    <3>1. addbacks[a].amount \in Int
      BY <1>1, AddbackIs
    <3>2. e[a] = IF addbacks[a].applies_to = "ebitda" THEN addbacks[a].amount ELSE 0
      BY <1>1, <1>2 DEF AddbackList
    <3>3. s[a] = IF addbacks[a].applies_to = "sde" THEN addbacks[a].amount ELSE 0
      BY <1>1, <1>3 DEF AddbackList
    <3> QED
      BY <3>1, <3>2, <3>3
  <2> QED
    BY <1>1, <2>1 DEF AddbackList
<1>5. SumOver([a \in 1..n |-> e[a] + s[a]]) = SumOver(e) + SumOver(s)
  BY SumOfTwo
<1> QED
  BY <1>2, <1>3, <1>4, <1>5

\* The analysis of a period carries its add-backs once.
Bridged(r, p) ==
    LET operating == p.revenue - p.cogs - p.operating_expenses + p.depreciation + p.amortization
    IN  /\ r.adjusted_ebitda = operating + SumOver(AddbackList(p.addbacks, {"ebitda"}))
        /\ r.sde = operating + SumOver(AddbackList(p.addbacks, {"ebitda", "sde"}))
        /\ r.label = p.label /\ r.months = p.months

LEMMA PeriodBridged ==
    ASSUME NEW p \in Periods
    PROVE  Bridged(analyze_period(p), p)
<1>1. PICK r : r = analyze_period(p)
  OBVIOUS
<1>2. p.addbacks \in Seq(Addbacks)
  BY DEF Periods, Addbacks
<1>3. PICK e \in Int : e = SumOver(AddbackList(p.addbacks, {"ebitda"}))
  <2>1. PICK n \in Nat : n = Len(p.addbacks)
    BY <1>2
  <2>2. AddbackList(p.addbacks, {"ebitda"}) \in [1..n -> Int]
    BY <1>2, <2>1, AddbackTypes
  <2> QED
    BY <2>2, SumIsInt
<1>4. PICK s \in Int : s = SumOver(AddbackList(p.addbacks, {"sde"}))
  <2>1. PICK n \in Nat : n = Len(p.addbacks)
    BY <1>2
  <2>2. AddbackList(p.addbacks, {"sde"}) \in [1..n -> Int]
    BY <1>2, <2>1, AddbackTypes
  <2> QED
    BY <2>2, SumIsInt
<1>5. SumOver(AddbackList(p.addbacks, {"ebitda", "sde"})) = e + s
  BY <1>2, <1>3, <1>4, LevelsAddUp
<1>6. AddbacksTo(p, "ebitda") = e /\ AddbacksTo(p, "sde") = s
  BY <1>2, <1>3, <1>4, AddbacksAre
<1>7. /\ p.revenue \in Int /\ p.cogs \in Int /\ p.operating_expenses \in Int
      /\ p.depreciation \in Int /\ p.amortization \in Int
  BY DEF Periods
<1>8. PICK x \in Int : x = p.revenue - p.cogs - p.operating_expenses + p.depreciation + p.amortization
  BY <1>7
<1>9. r.adjusted_ebitda = x + e
  BY <1>1, <1>6, <1>7, <1>8 DEF analyze_period
<1>10. r.sde = x + e + s
  BY <1>1, <1>6, <1>7, <1>8 DEF analyze_period
<1>11. r.label = p.label /\ r.months = p.months
  BY <1>1 DEF analyze_period
<1>12. r.adjusted_ebitda = x + e /\ r.sde = x + (e + s)
  BY <1>9, <1>10
<1> QED
  BY <1>1, <1>3, <1>5, <1>8, <1>11, <1>12 DEF Bridged

LEMMA OnlyOne ==
    ASSUME NEW e, NEW s, s = <<e>>
    PROVE  s[1] = e
  OBVIOUS

\* The first and the last of what is kept are those at the first and the last place.
LEMMA KeptEnds ==
    ASSUME NEW n \in Nat, NEW s, Len(s) = n, NEW I, I \intersect 1..n # {}
    PROVE  \E f, l \in I \intersect 1..n :
              /\ \A i \in I \intersect 1..n : f <= i /\ i <= l
              /\ Kept(s, I) # <<>>
              /\ Head(Kept(s, I)) = s[f] /\ Last(Kept(s, I)) = s[l]
<1>1. PICK at : at = Places(n, I) /\ Listing(at, n, I)
  BY PlacesAre
<1>2. /\ at \in Seq(I \intersect 1..n)
      /\ \A i, j \in 1..Len(at) : i < j => at[i] < at[j]
      /\ \A i \in I \intersect 1..n : \E j \in 1..Len(at) : at[j] = i
  BY <1>1 DEF Listing
<1>3. PICK m \in Nat : m = Len(at) /\ DOMAIN at = 1..m
  BY <1>2
<1>4. PICK kept : kept = Kept(s, I)
  OBVIOUS
<1>5. kept = [j \in 1..m |-> s[at[j]]]
  BY <1>1, <1>3, <1>4 DEF Kept
<1>6. m # 0 /\ 1 \in 1..m /\ m \in 1..m
  BY <1>2, <1>3
<1>7. PICK f \in I \intersect 1..n, l \in I \intersect 1..n : f = at[1] /\ l = at[m]
  BY <1>2, <1>3, <1>6
<1>8. ASSUME NEW i \in I \intersect 1..n PROVE f <= i /\ i <= l
  <2>1. PICK j \in 1..m : at[j] = i
    BY <1>2, <1>3
  <2>2. CASE j = 1
    <3>1. j = m \/ at[j] < at[m]
      BY <1>2, <1>3, <1>6
    <3> QED
      BY <1>7, <2>1, <2>2, <3>1
  <2>3. CASE j # 1
    <3>1. at[1] < at[j]
      BY <1>2, <1>3, <1>6, <2>3
    <3>2. j = m \/ at[j] < at[m]
      BY <1>2, <1>3, <1>6
    <3> QED
      BY <1>7, <2>1, <3>1, <3>2
  <2> QED
    BY <2>2, <2>3
<1>9. kept \in Seq({s[i] : i \in I \intersect 1..n}) /\ Len(kept) = m
  <2>1. \A j \in 1..m : s[at[j]] \in {s[i] : i \in I \intersect 1..n}
    BY <1>2, <1>3
  <2> QED
    BY <1>5, <2>1
<1>10. kept # <<>> /\ Head(kept) = s[f] /\ Last(kept) = s[l]
  <2>1. kept[1] = s[f] /\ kept[m] = s[l]
    BY <1>5, <1>6, <1>7
  <2>2. kept # <<>>
    BY <1>6, <1>9
  <2>3. Head(kept) = kept[1]
    BY <1>9, <2>2
  <2>4. Last(kept) = kept[m]
    BY <1>9 DEF Last
  <2> QED
    BY <2>1, <2>2, <2>3, <2>4
<1> QED
  BY <1>4, <1>8, <1>10

\* b is the last full year of the n results, or the last of them if there is none.
BasisOf(results, n, b) ==
    IF \E i \in 1..n : results[i].months = 12
    THEN results[b].months = 12 /\ \A i \in 1..n : i > b => results[i].months # 12
    ELSE b = n

\* The period v that is valued is the first one with the label of the basis b.
PrimaryRight(found, results, n, b, v) ==
    /\ BasisOf(results, n, b)
    /\ found = <<results[v]>>
    /\ results[v].label = results[b].label
    /\ \A i \in 1..n : results[i].label = results[b].label => v <= i

\* No label is asked for.
NotAsked(asked) == asked = ""

LEMMA PrimaryIs ==
    ASSUME NEW n \in Nat \ {0}, NEW results, DOMAIN results = 1..n, Len(results) = n,
           NEW asked, NotAsked(asked)
    PROVE  \E b, v \in 1..n : PrimaryRight(Primary(results, asked), results, n, b, v)
<1>1. PICK Y : Y = {i \in DOMAIN results : results[i].months = 12}
  OBVIOUS
<1>2. PICK years : years = Kept(results, Y)
  OBVIOUS
<1>3. PICK label : label = PrimaryLabel(results, asked)
  OBVIOUS
<1>4. label = IF years # <<>> THEN Last(years).label ELSE Last(results).label
  BY <1>1, <1>2, <1>3 DEF PrimaryLabel, Where, NotAsked
<1>5. PICK b \in 1..n : label = results[b].label /\ BasisOf(results, n, b)
  <2>1. CASE Y \intersect 1..n # {}
    <3>1. PICK l \in Y \intersect 1..n : /\ \A i \in Y \intersect 1..n : i <= l
                                         /\ years # <<>> /\ Last(years) = results[l]
      BY <1>2, <2>1, KeptEnds
    <3>2. results[l].months = 12 /\ l \in 1..n
      BY <1>1, <3>1
    <3>3. \A i \in 1..n : i > l => results[i].months # 12
      BY <1>1, <3>1
    <3>4. BasisOf(results, n, l)
      BY <3>2, <3>3 DEF BasisOf
    <3> QED
      BY <1>4, <3>1, <3>2, <3>4
  <2>2. CASE Y \intersect 1..n = {}
    <3>1. \A k \in 1..n : results[k].months # 12
      BY <1>1, <2>2
    <3>2. years = <<>>
      <4>1. years \in Seq({results[i] : i \in Y \intersect 1..n})
        BY <1>2, KeptIs DEF KeptFrom
      <4>2. \A e : e \notin {results[i] : i \in Y \intersect 1..n}
        BY <2>2
      <4>3. PICK m \in Nat : m = Len(years) /\ DOMAIN years = 1..m
        BY <4>1
      <4>4. \A j \in 1..m : years[j] \in {results[i] : i \in Y \intersect 1..n}
        BY <4>1, <4>3
      <4>5. m = 0
        <5>1. 1 \notin 1..m
          BY <4>2, <4>4
        <5> QED
          BY <5>1
      <4> QED
        BY <4>1, <4>3, <4>5
    <3>3. Last(results) = results[n] /\ n \in 1..n
      BY DEF Last
    <3>4. BasisOf(results, n, n)
      BY <3>1 DEF BasisOf
    <3> QED
      BY <1>4, <3>2, <3>3, <3>4
  <2> QED
    BY <2>1, <2>2
<1>6. PICK I : I = {j \in DOMAIN results : results[j].label = label}
  OBVIOUS
<1>7. PICK labelled : labelled = Kept(results, I)
  OBVIOUS
<1>8. I \intersect 1..n # {}
  BY <1>5, <1>6
<1>9. PICK v \in I \intersect 1..n : /\ \A i \in I \intersect 1..n : v <= i
                                     /\ labelled # <<>> /\ Head(labelled) = results[v]
  BY <1>7, <1>8, KeptEnds
<1>10. Primary(results, asked) = <<results[v]>>
  BY <1>3, <1>6, <1>7, <1>9 DEF Primary, Where
<1>11. results[v].label = results[b].label /\ v \in 1..n
  BY <1>5, <1>6, <1>9
<1>12. \A i \in 1..n : results[i].label = results[b].label => v <= i
  BY <1>5, <1>6, <1>9
<1> QED
  BY <1>5, <1>10, <1>11, <1>12 DEF PrimaryRight

\* The range spans the table.
LEMMA RangeSpansTable ==
    ASSUME NEW sde, NEW low \in Nat, NEW mid, NEW high \in Nat, low <= high,
           NEW value, value = value_by_sde(sde, low, mid, high)
    PROVE  /\ value.sensitivity[low] = value.low_value
           /\ (high - low) % 25 = 0 => value.sensitivity[high] = value.high_value
<1>1. value.sensitivity = [m \in Multiples(low, high) |-> HalfEven(sde * m, 100)]
  BY DEF value_by_sde
<1>2. value.low_value = HalfEven(sde * low, 100) /\ value.high_value = HalfEven(sde * high, 100)
  BY DEF value_by_sde
<1>3. low \in Multiples(low, high)
  <2>1. (low - low) % 25 = 0
    OBVIOUS
  <2> QED
    BY <2>1 DEF Multiples
<1>4. (high - low) % 25 = 0 => high \in Multiples(low, high)
  BY DEF Multiples
<1> QED
  BY <1>1, <1>2, <1>3, <1>4

\* What BridgeHolds says of the analysis of given periods.
BridgeRight(qoe, periods) ==
    LET primary == qoe.primary[1]
    IN  /\ \A i \in DOMAIN periods :
              LET p == periods[i]
                  operating == p.revenue - p.cogs - p.operating_expenses + p.depreciation + p.amortization
              IN  /\ qoe.periods[i].adjusted_ebitda
                        = operating + SumOver(AddbackList(p.addbacks, {"ebitda"}))
                  /\ qoe.periods[i].sde
                        = operating + SumOver(AddbackList(p.addbacks, {"ebitda", "sde"}))
        /\ \E b, v \in DOMAIN periods :
              /\ IsBasis(periods, b)
              /\ primary = qoe.periods[v]
              /\ v = b \/ (v < b /\ periods[v].label = periods[b].label)
              /\ \A i \in DOMAIN periods : i < v => periods[i].label # periods[b].label

LEMMA BridgeIsRight ==
    ASSUME NEW periods \in Seq(Periods), Len(periods) # 0,
           NEW asked, NotAsked(asked), NEW qoe, qoe = analyze(periods, asked)
    PROVE  BridgeRight(qoe, periods)
<1>1. PICK n \in Nat \ {0} : n = Len(periods) /\ DOMAIN periods = 1..n
  OBVIOUS
<1>2. PICK results : results = [i \in 1..n |-> analyze_period(periods[i])]
  OBVIOUS
<1>3. qoe.periods = results /\ qoe.primary = Primary(results, asked)
  BY <1>1, <1>2 DEF analyze
<1>4. DOMAIN results = 1..n /\ Len(results) = n
  BY <1>2
<1>5. \A i \in 1..n : Bridged(results[i], periods[i])
  <2>1. ASSUME NEW i \in 1..n PROVE Bridged(results[i], periods[i])
    <3>1. PICK p \in Periods : p = periods[i]
      BY <1>1
    <3>2. Bridged(analyze_period(p), p)
      BY PeriodBridged
    <3> QED
      BY <1>2, <3>1, <3>2
  <2> QED
    BY <2>1
<1>6. \A i \in 1..n : results[i].months = periods[i].months /\ results[i].label = periods[i].label
  BY <1>5 DEF Bridged
<1>7. PICK b \in 1..n, v \in 1..n : PrimaryRight(qoe.primary, results, n, b, v)
  BY <1>3, <1>4, PrimaryIs
<1>8. qoe.primary[1] = results[v]
  <2>1. PICK e : e = results[v]
    OBVIOUS
  <2>2. qoe.primary = <<e>>
    BY <1>7, <2>1 DEF PrimaryRight
  <2> QED
    BY <2>1, <2>2, OnlyOne
<1>9. IsBasis(periods, b)
  <2>1. BasisOf(results, n, b)
    BY <1>7 DEF PrimaryRight
  <2>2. (\E p \in Range(periods) : p.months = 12) <=> \E i \in 1..n : results[i].months = 12
    BY <1>1, <1>6 DEF Range
  <2> QED
    BY <1>1, <1>6, <2>1, <2>2 DEF BasisOf, IsBasis
<1>10. v = b \/ (v < b /\ periods[v].label = periods[b].label)
  <2>1. results[v].label = results[b].label /\ v <= b
    BY <1>7 DEF PrimaryRight
  <2> QED
    BY <1>6, <2>1
<1>11. \A i \in 1..n : i < v => periods[i].label # periods[b].label
  <2>1. \A i \in 1..n : results[i].label = results[b].label => v <= i
    BY <1>7 DEF PrimaryRight
  <2> QED
    BY <1>6, <2>1
<1> QED
  BY <1>1, <1>3, <1>5, <1>8, <1>9, <1>10, <1>11 DEF BridgeRight, Bridged

LEMMA MarginsAnswered ==
    ASSUME TypeInv, Next, topic = "margin"
    PROVE  MarginsAddUp'
<1>1. result' = run_company_profitability(given.contracts, {"c1"}, given.assumptions, "own", 2)
  <2>1. RunMargins
    BY TopicStep
  <2> QED
    BY <2>1 DEF RunMargins, Compute
<1>2. given.contracts \in Seq(Contracts) /\ given.assumptions \in SUBSET Burdens
  BY InputsAssumption DEF TypeInv, EarningsOK
<1>3. PICK run : run = result'
  OBVIOUS
<1>4. run.gross_profit = SumOver([i \in 1..Len(run.lines) |-> run.lines[i].contribution_margin])
  BY <1>1, <1>2, <1>3, MarginsAre
<1> QED
  BY <1>3, <1>4 DEF MarginsAddUp, SumUpTo

LEMMA ValueAnswered ==
    ASSUME TypeInv, Next, topic = "value"
    PROVE  BridgeHolds'
<1>0. PICK asked : NotAsked(asked)
  BY DEF NotAsked
<1>1. PICK qoe : qoe = analyze(given.periods, asked)
  OBVIOUS
<1>2. PICK sde : sde = qoe.primary[1].sde
  OBVIOUS
<1>3. PICK value : value = value_by_sde(sde, given.low, given.mid, given.high)
  OBVIOUS
<1>4. result'.qoe = qoe /\ result'.value = value
  <2>1. ValueCompany
    BY TopicStep
  <2> QED
    BY <1>0, <1>1, <1>2, <1>3, <2>1 DEF ValueCompany, Compute, NotAsked
<1>5. /\ given.periods \in Seq(Periods) /\ Len(given.periods) # 0
      /\ given.low \in Nat /\ given.high \in Nat /\ given.low <= given.high
  BY InputsAssumption DEF TypeInv, EarningsOK
<1>6. BridgeRight(qoe, given.periods)
  BY <1>0, <1>1, <1>5, BridgeIsRight
<1>7. /\ value.sensitivity[given.low] = value.low_value
      /\ (given.high - given.low) % 25 = 0 => value.sensitivity[given.high] = value.high_value
  BY <1>3, <1>5, RangeSpansTable
<1>8. given' = given
  BY StepAnswers
<1>9. BridgeRight(result'.qoe, given'.periods)
  BY <1>4, <1>6, <1>8
<1>10. /\ result'.value.sensitivity[given'.low] = result'.value.low_value
       /\ (given'.high - given'.low) % 25 = 0
          => result'.value.sensitivity[given'.high] = result'.value.high_value
  BY <1>4, <1>7, <1>8
<1> QED
  BY <1>9, <1>10, Zenon DEF BridgeHolds, BridgeRight, AddbackList, SumUpTo

LEMMA BidAnswered ==
    ASSUME TypeInv, Next, topic = "bid"
    PROVE  BidsHold'
<1>1. given \in Bids /\ given' = given
  BY InputsAssumption, StepAnswers DEF TypeInv, EarningsOK, Bids
<1>2. PICK bid \in Bids : bid = given
  BY <1>1
<1>3. PICK first : first = score_bid(bid)
  OBVIOUS
<1>4. PICK price : price = first.recommended_price
  OBVIOUS
<1>5. PICK again : again = [bid EXCEPT !.value = price]
  OBVIOUS
<1> DEFINE Dearer(b) == [b EXCEPT !.value = @ + 20000]
<1>6. PICK dearer : dearer = Dearer(bid)
  <2> HIDE DEF Dearer
  <2> QED
    OBVIOUS
<1>7. result' = [first |-> first, again |-> score_bid(again), dearer |-> score_bid(dearer)]
  <2>1. ScoreBid
    BY TopicStep
  <2> QED
    BY <1>2, <1>3, <1>4, <1>5, <1>6, <2>1 DEF ScoreBid, Compute
<1>8. SUFFICES ASSUME bid.value > 1 PROVE BidsHold'
  BY <1>1, <1>2 DEF BidsHold
<1>9. dearer \in Bids /\ SameButPrice(dearer, bid) /\ dearer.value = bid.value + 20000
  BY <1>6 DEF Bids, SameButPrice
<1>10. LoadedLabor(bid) > 0 => score_bid(dearer).contribution_margin_pct >= first.contribution_margin_pct
  <2>1. bid.value > 0
    BY <1>8 DEF Bids
  <2> QED
    BY <1>3, <1>9, <2>1, DearerScoresBetter
<1>11. first.decision_type = "reprice" => price > bid.value
  BY <1>3, <1>4, <1>8, RepriceAsksMore
<1>12. price \in Nat
  <2>1. bid.value > 0
    BY <1>8 DEF Bids
  <2>2. Scores(first, bid)
    BY <1>3, <2>1, BidScoreIs
  <2>3. PICK cost \in Nat : cost = BidCost(bid)
    BY <2>2 DEF Scores
  <2>4. PICK m \in Nat : m = cost * 100
    OBVIOUS
  <2>5. 80 \in Nat \ {0}
    OBVIOUS
  <2>6. HalfUp(m, 80) \in Nat
    BY <2>5, HalfUpOfNat
  <2> QED
    BY <1>4, <2>2, <2>3, <2>4, <2>6 DEF Scores
<1>13. again \in Bids /\ SameButPrice(again, bid) /\ again.value = price
  BY <1>5, <1>12 DEF Bids, SameButPrice
<1>14. bid.subcontractor_pct + bid.overhead_pct = 0 /\ LoadedLabor(bid) >= 2500
       => score_bid(again).contribution_margin_pct \in 1999..2001
  <2>1. bid.subcontractor_pct \in Nat /\ bid.overhead_pct \in Nat
    BY DEF Bids
  <2>2. SUFFICES ASSUME bid.subcontractor_pct + bid.overhead_pct = 0, LoadedLabor(bid) >= 2500
                 PROVE  score_bid(again).contribution_margin_pct \in 1999..2001
    OBVIOUS
  <2>3. bid.subcontractor_pct = 0 /\ bid.overhead_pct = 0
    BY <2>1, <2>2
  <2>4. again.value = score_bid(bid).recommended_price
    BY <1>3, <1>4, <1>13
  <2> QED
    BY <1>8, <1>13, <2>2, <2>3, <2>4, RepriceEarnsAFifth
<1>15. PICK r : r = result'
  OBVIOUS
<1>16. /\ r.first = first /\ r.again = score_bid(again) /\ r.dearer = score_bid(dearer)
  BY <1>7, <1>15
<1>17. bid = given' /\ r = result'
  BY <1>1, <1>2, <1>15
<1> QED
  BY <1>4, <1>10, <1>11, <1>14, <1>16, <1>17 DEF BidsHold

\* Margins and the bridge to SDE are right for every company and every list of periods,
\* the last full year or the first period of its label is valued, and every bid is
\* scored as BidsHold says: a reprice reaches its margin where no cost is a share of
\* the price and labor outweighs the cents.
THEOREM EarningsAreRight == Spec => []EarningsAddUp
<1>1. Init => EarningsAddUp
  BY DEF Init, EarningsAddUp, MarginsAddUp, BridgeHolds, BidsHold, Answered
<1>2. TypeInv /\ EarningsAddUp /\ [Next]_calcVars => EarningsAddUp'
  <2> SUFFICES ASSUME TypeInv, EarningsAddUp, [Next]_calcVars PROVE EarningsAddUp'
    OBVIOUS
  <2>1. CASE UNCHANGED calcVars
    <3>1. topic' = topic /\ given' = given /\ done' = done /\ result' = result
      BY <2>1 DEF calcVars
    <3>2. MarginsAddUp' /\ BidsHold'
      BY <3>1 DEF EarningsAddUp, MarginsAddUp, BidsHold, Answered, SumUpTo
    <3>3. BridgeHolds'
      <4>1. BridgeHolds
        BY DEF EarningsAddUp
      <4>2. CASE Answered("value")
        <5>1. BridgeRight(result.qoe, given.periods)
          BY <4>1, <4>2, Zenon DEF BridgeHolds, BridgeRight, AddbackList, SumUpTo
        <5>2. /\ result.value.sensitivity[given.low] = result.value.low_value
              /\ (given.high - given.low) % 25 = 0
                 => result.value.sensitivity[given.high] = result.value.high_value
          BY <4>1, <4>2, Zenon DEF BridgeHolds
        <5>3. BridgeRight(result'.qoe, given'.periods)
          BY <3>1, <5>1
        <5>4. /\ result'.value.sensitivity[given'.low] = result'.value.low_value
              /\ (given'.high - given'.low) % 25 = 0
                 => result'.value.sensitivity[given'.high] = result'.value.high_value
          BY <3>1, <5>2
        <5> QED
          BY <5>3, <5>4, Zenon DEF BridgeHolds, BridgeRight, AddbackList, SumUpTo
      <4>3. CASE ~Answered("value")
        BY <3>1, <4>3 DEF BridgeHolds, Answered
      <4> QED
        BY <4>2, <4>3
    <3> QED
      BY <3>2, <3>3 DEF EarningsAddUp
  <2>2. CASE Next
    <3>1. topic' = topic
      BY <2>2, StepAnswers
    <3>2. MarginsAddUp'
      <4>1. CASE topic = "margin"
        BY <2>2, <4>1, MarginsAnswered
      <4>2. CASE topic # "margin"
        BY <3>1, <4>2 DEF MarginsAddUp, Answered
      <4> QED
        BY <4>1, <4>2
    <3>3. BridgeHolds'
      <4>1. CASE topic = "value"
        BY <2>2, <4>1, ValueAnswered
      <4>2. CASE topic # "value"
        BY <3>1, <4>2 DEF BridgeHolds, Answered
      <4> QED
        BY <4>1, <4>2
    <3>4. BidsHold'
      <4>1. CASE topic = "bid"
        BY <2>2, <4>1, BidAnswered
      <4>2. CASE topic # "bid"
        BY <3>1, <4>2 DEF BidsHold, Answered
      <4> QED
        BY <4>1, <4>2
    <3> QED
      BY <3>2, <3>3, <3>4 DEF EarningsAddUp
  <2> QED
    BY <2>1, <2>2
<1> QED
  BY <1>1, <1>2, TypeOK, PTL DEF Spec

-----------------------------------------------------------------------------
(* Scores                                                                  *)

\* What the extraction takes a record for.
Extractable == {"invoice", "customer", "payment", "labor_shift"}

LEMMA ExtractableTypes ==
    ASSUME NEW source, NEW payload
    PROVE  RecordType(source, payload) \in Extractable
BY DEF RecordType, Extractable

LEMMA CardinalityOfTwo ==
    ASSUME NEW a, NEW b, a # b
    PROVE  IsFiniteSet({a, b}) /\ Cardinality({a, b}) = 2
<1>1. IsFiniteSet({a}) /\ Cardinality({a}) = 1 /\ {a, b} = {a} \union {b}
  BY FS_Singleton
<1> QED
  BY <1>1, FS_AddElement

LEMMA CardinalityOfThree ==
    ASSUME NEW a, NEW b, NEW c, a # b, c # a, c # b
    PROVE  IsFiniteSet({a, b, c}) /\ Cardinality({a, b, c}) = 3
<1>1. {a, b, c} = {a, b} \union {c} /\ c \notin {a, b}
  OBVIOUS
<1>2. IsFiniteSet({a, b}) /\ Cardinality({a, b}) = 2
  BY CardinalityOfTwo
<1>3. IsFiniteSet({a, b} \union {c}) /\ Cardinality({a, b} \union {c}) = 3
  BY <1>1, <1>2, FS_AddElement
<1> QED
  BY <1>1, <1>3

LEMMA CardinalityOfFour ==
    ASSUME NEW a, NEW b, NEW c, NEW d, a # b, c # a, c # b, d # a, d # b, d # c
    PROVE  IsFiniteSet({a, b, c, d}) /\ Cardinality({a, b, c, d}) = 4
<1>1. {a, b, c, d} = {a, b, c} \union {d} /\ d \notin {a, b, c}
  OBVIOUS
<1>2. IsFiniteSet({a, b, c}) /\ Cardinality({a, b, c}) = 3
  BY CardinalityOfThree
<1>3. IsFiniteSet({a, b, c} \union {d}) /\ Cardinality({a, b, c} \union {d}) = 4
  BY <1>1, <1>2, FS_AddElement
<1> QED
  BY <1>1, <1>3

LEMMA FewFields ==
    ASSUME NEW rt \in Extractable
    PROVE  /\ rt \in RecordTypes
           /\ IsFiniteSet(REQUIRED_FIELDS[rt]) /\ Cardinality(REQUIRED_FIELDS[rt]) \in 1..4
           /\ IsFiniteSet(BONUS_FIELDS[rt]) /\ Cardinality(BONUS_FIELDS[rt]) \in 1..4
<1>1. rt \in RecordTypes
  BY DEF Extractable, RecordTypes, REQUIRED_FIELDS
<1>2. CASE rt = "invoice"
  <2>1. /\ REQUIRED_FIELDS[rt] = {"customer_id", "invoice_date", "amount"}
        /\ BONUS_FIELDS[rt] = {"invoice_number", "due_date", "contract_id"}
    BY <1>2 DEF REQUIRED_FIELDS, BONUS_FIELDS
  <2>2. /\ IsFiniteSet({"customer_id", "invoice_date", "amount"})
        /\ Cardinality({"customer_id", "invoice_date", "amount"}) = 3
    BY CardinalityOfThree
  <2>3. /\ IsFiniteSet({"invoice_number", "due_date", "contract_id"})
        /\ Cardinality({"invoice_number", "due_date", "contract_id"}) = 3
    BY CardinalityOfThree
  <2> QED
    BY <1>1, <2>1, <2>2, <2>3
<1>3. CASE rt = "customer"
  <2>1. /\ REQUIRED_FIELDS[rt] = {"name", "customer_type"}
        /\ BONUS_FIELDS[rt] = {"qb_customer_id", "industry"}
    BY <1>3 DEF REQUIRED_FIELDS, BONUS_FIELDS
  <2>2. /\ IsFiniteSet({"name", "customer_type"})
        /\ Cardinality({"name", "customer_type"}) = 2
    BY CardinalityOfTwo
  <2>3. /\ IsFiniteSet({"qb_customer_id", "industry"})
        /\ Cardinality({"qb_customer_id", "industry"}) = 2
    BY CardinalityOfTwo
  <2> QED
    BY <1>1, <2>1, <2>2, <2>3
<1>4. CASE rt = "payment"
  <2>1. /\ REQUIRED_FIELDS[rt] = {"customer_id", "payment_date", "amount"}
        /\ BONUS_FIELDS[rt] = {"reference_number", "invoice_id", "payment_method"}
    BY <1>4 DEF REQUIRED_FIELDS, BONUS_FIELDS
  <2>2. /\ IsFiniteSet({"customer_id", "payment_date", "amount"})
        /\ Cardinality({"customer_id", "payment_date", "amount"}) = 3
    BY CardinalityOfThree
  <2>3. /\ IsFiniteSet({"reference_number", "invoice_id", "payment_method"})
        /\ Cardinality({"reference_number", "invoice_id", "payment_method"}) = 3
    BY CardinalityOfThree
  <2> QED
    BY <1>1, <2>1, <2>2, <2>3
<1>5. CASE rt = "labor_shift"
  <2>1. /\ REQUIRED_FIELDS[rt] = {"employee_id", "shift_date", "hours_worked", "worker_type"}
        /\ BONUS_FIELDS[rt] = {"clock_in", "clock_out", "hourly_rate", "contract_id"}
    BY <1>5 DEF REQUIRED_FIELDS, BONUS_FIELDS
  <2>2. /\ IsFiniteSet({"employee_id", "shift_date", "hours_worked", "worker_type"})
        /\ Cardinality({"employee_id", "shift_date", "hours_worked", "worker_type"}) = 4
    BY CardinalityOfFour
  <2>3. /\ IsFiniteSet({"clock_in", "clock_out", "hourly_rate", "contract_id"})
        /\ Cardinality({"clock_in", "clock_out", "hourly_rate", "contract_id"}) = 4
    BY CardinalityOfFour
  <2> QED
    BY <1>1, <2>1, <2>2, <2>3
<1> QED
  BY <1>2, <1>3, <1>4, <1>5 DEF Extractable

\* A share of few fields, as the code computes it.
LEMMA Share ==
    ASSUME NEW n \in 1..4, NEW c \in 0..n
    PROVE  /\ (Full * c) \div n \in 0..Full
           /\ c + 2 <= n => 2 * ((Full * c) \div n) <= Full
           /\ \A b \in 0..c : (Full * b) \div n <= (Full * c) \div n
<1>1. Full = 12000
  BY DEF Full
<1>2. CASE n = 1
  BY <1>1, <1>2
<1>3. CASE n = 2
  BY <1>1, <1>3
<1>4. CASE n = 3
  BY <1>1, <1>4
<1>5. CASE n = 4
  BY <1>1, <1>5
<1> QED
  BY <1>2, <1>3, <1>4, <1>5

LEMMA Tenths ==
    ASSUME NEW x \in 0..Full
    PROVE  /\ (4 * x) \div 10 \in 0..4800 /\ x \div 10 \in 0..1200
           /\ 2 * x <= Full => (4 * x) \div 10 <= 2400
           /\ \A y \in 0..x : y \div 10 <= x \div 10 /\ (4 * y) \div 10 <= (4 * x) \div 10
<1>1. Full = 12000
  BY DEF Full
<1>2. (4 * x) \div 10 \in 0..4800
  BY <1>1
<1>3. x \div 10 \in 0..1200
  BY <1>1
<1>4. 2 * x <= Full => (4 * x) \div 10 <= 2400
  BY <1>1
<1>5. ASSUME NEW y \in 0..x PROVE y \div 10 <= x \div 10 /\ (4 * y) \div 10 <= (4 * x) \div 10
  BY <1>1
<1> QED
  BY <1>2, <1>3, <1>4, <1>5

\* Two of the score's four parts; the others are the source's and 12 hundredths for no match.
RequiredPart(rt, e) == (4 * Completeness(rt, e)) \div 10
BonusPart(rt, e) == BonusScore(rt, e) \div 10

\* The parts of a score and what they come to; names that provers leave alone.
Weights == 65..95
RequiredParts == 0..4800
BonusParts == 0..1200
SumOfParts(w, p, q) == 36 * w + p + q + 1200

\* The score of an extraction is the plain sum of its parts: the clamp is never needed.
LEMMA ScoreIs ==
    ASSUME NEW rt \in Extractable, NEW e, NEW source
    PROVE  /\ SourceWeight(source) \in Weights
           /\ RequiredPart(rt, e) \in RequiredParts /\ BonusPart(rt, e) \in BonusParts
           /\ Completeness(rt, e) \in 0..Full /\ BonusScore(rt, e) \in 0..Full
           /\ score_extraction(rt, e, {}, source)
                = SumOfParts(SourceWeight(source), RequiredPart(rt, e), BonusPart(rt, e))
<1>1. SourceWeight(source) \in Weights
  BY DEF SourceWeight, SOURCE_RELIABILITY, Weights
<1>2. RequiredPresent(rt, e) \subseteq REQUIRED_FIELDS[rt] /\ BonusPresent(rt, e) \subseteq BONUS_FIELDS[rt]
  BY DEF RequiredPresent, BonusPresent
<1>3. /\ Cardinality(RequiredPresent(rt, e)) \in 0..Cardinality(REQUIRED_FIELDS[rt])
      /\ Cardinality(BonusPresent(rt, e)) \in 0..Cardinality(BONUS_FIELDS[rt])
  BY <1>2, FewFields, FS_Subset, FS_CardinalityType
<1>4. Completeness(rt, e) \in 0..Full
  BY <1>3, FewFields, Share DEF Completeness
<1>5. BonusScore(rt, e) \in 0..Full
  BY <1>3, FewFields, Share DEF BonusScore
<1>6. RequiredPart(rt, e) \in RequiredParts
  <2>1. PICK x \in 0..Full : x = Completeness(rt, e)
    BY <1>4
  <2>2. (4 * x) \div 10 \in RequiredParts
    BY Tenths DEF RequiredParts
  <2>3. RequiredPart(rt, e) = (4 * x) \div 10
    BY <2>1 DEF RequiredPart
  <2> QED
    BY <2>2, <2>3
<1>7. BonusPart(rt, e) \in BonusParts
  <2>1. PICK y \in 0..Full : y = BonusScore(rt, e)
    BY <1>5
  <2>2. y \div 10 \in BonusParts
    BY Tenths DEF BonusParts
  <2> QED
    BY <2>1, <2>2, Zenon DEF BonusPart
<1>8. PICK w, p, q : w = SourceWeight(source) /\ p = RequiredPart(rt, e) /\ q = BonusPart(rt, e)
  OBVIOUS
<1>9. 24 * TopMatch({}) = 1200
  BY DEF TopMatch
<1>10. score_extraction(rt, e, {}, source) =
         LET overall == 36 * w + p + q + 24 * TopMatch({})
         IN  IF overall < 0 THEN 0 ELSE IF overall > Full THEN Full ELSE overall
  BY <1>8 DEF score_extraction, RequiredPart, BonusPart
<1>11. PICK overall : overall = SumOfParts(w, p, q)
  OBVIOUS
<1>12. score_extraction(rt, e, {}, source) = IF overall < 0 THEN 0 ELSE IF overall > Full THEN Full ELSE overall
  BY <1>9, <1>10, <1>11 DEF SumOfParts
<1>13. ~ (overall < 0) /\ ~ (overall > Full)
  <2>1. w \in Weights /\ p \in RequiredParts /\ q \in BonusParts
    BY <1>1, <1>6, <1>7, <1>8
  <2> QED
    BY <1>11, <2>1 DEF SumOfParts, Weights, RequiredParts, BonusParts, Full
<1>14. score_extraction(rt, e, {}, source) = SumOfParts(w, p, q)
  BY <1>11, <1>12, <1>13
<1> QED
  BY <1>1, <1>4, <1>5, <1>6, <1>7, <1>8, <1>14, Zenon

\* The parts of a score, and the score they make.
ScoreParts(rt, e, source, w, p, q) ==
    /\ w \in Weights /\ p \in RequiredParts /\ q \in BonusParts
    /\ w = SourceWeight(source) /\ p = RequiredPart(rt, e) /\ q = BonusPart(rt, e)
    /\ score_extraction(rt, e, {}, source) = SumOfParts(w, p, q)

LEMMA ScorePartsAre ==
    ASSUME NEW rt \in Extractable, NEW e, NEW source
    PROVE  \E w, p, q : ScoreParts(rt, e, source, w, p, q)
<1> QED
  BY ScoreIs, Zenon DEF ScoreParts

\* What more or less of the parts makes of the score.
LEMMA SumOfPartsIs ==
    ASSUME NEW w \in Weights, NEW p \in RequiredParts, NEW q \in BonusParts
    PROVE  /\ ~ (SumOfParts(w, p, q) >= 11040)
           /\ p <= 2400 => ~ (SumOfParts(w, p, q) >= 8400)
           /\ \A p1 \in RequiredParts, q1 \in BonusParts :
                 p <= p1 /\ q <= q1 => SumOfParts(w, p1, q1) >= SumOfParts(w, p, q)
<1>1. w \in 65..95 /\ p \in 0..4800 /\ q \in 0..1200
  BY DEF Weights, RequiredParts, BonusParts
<1>2. SumOfParts(w, p, q) = 36 * w + p + q + 1200
  BY DEF SumOfParts
<1>3. ~ (SumOfParts(w, p, q) >= 11040)
  BY <1>1, <1>2
<1>4. p <= 2400 => ~ (SumOfParts(w, p, q) >= 8400)
  BY <1>1, <1>2
<1>5. ASSUME NEW p1 \in RequiredParts, NEW q1 \in BonusParts, p <= p1, q <= q1
      PROVE  SumOfParts(w, p1, q1) >= SumOfParts(w, p, q)
  <2>1. p1 \in Int /\ q1 \in Int
    BY DEF RequiredParts, BonusParts
  <2>2. SumOfParts(w, p1, q1) = 36 * w + p1 + q1 + 1200
    BY DEF SumOfParts
  <2> QED
    BY <1>1, <1>2, <1>5, <2>1, <2>2
<1> QED
  BY <1>3, <1>4, <1>5

\* More fields, the same source and type: no lower a score.
LEMMA MoreFieldsScoreMore ==
    ASSUME NEW rt \in Extractable, NEW e, NEW f, NEW source,
           RequiredPresent(rt, e) \subseteq RequiredPresent(rt, f),
           BonusPresent(rt, e) \subseteq BonusPresent(rt, f)
    PROVE  score_extraction(rt, f, {}, source) >= score_extraction(rt, e, {}, source)
<1>1. RequiredPresent(rt, f) \subseteq REQUIRED_FIELDS[rt] /\ BonusPresent(rt, f) \subseteq BONUS_FIELDS[rt]
  BY DEF RequiredPresent, BonusPresent
<1>2. /\ IsFiniteSet(RequiredPresent(rt, f)) /\ IsFiniteSet(BonusPresent(rt, f))
      /\ Cardinality(RequiredPresent(rt, f)) \in 0..Cardinality(REQUIRED_FIELDS[rt])
      /\ Cardinality(BonusPresent(rt, f)) \in 0..Cardinality(BONUS_FIELDS[rt])
  BY <1>1, FewFields, FS_Subset, FS_CardinalityType
<1>3. /\ Cardinality(RequiredPresent(rt, e)) \in 0..Cardinality(RequiredPresent(rt, f))
      /\ Cardinality(BonusPresent(rt, e)) \in 0..Cardinality(BonusPresent(rt, f))
  BY <1>2, FS_Subset, FS_CardinalityType
<1>4. Completeness(rt, e) <= Completeness(rt, f)
  BY <1>2, <1>3, FewFields, Share DEF Completeness
<1>5. BonusScore(rt, e) <= BonusScore(rt, f)
  BY <1>2, <1>3, FewFields, Share DEF BonusScore
<1>6. /\ Completeness(rt, e) \in 0..Full /\ Completeness(rt, f) \in 0..Full
      /\ BonusScore(rt, e) \in 0..Full /\ BonusScore(rt, f) \in 0..Full
  BY ScoreIs
<1>7. PICK x \in 0..Full, x1 \in 0..Full, y \in 0..Full, y1 \in 0..Full :
        /\ x = Completeness(rt, e) /\ x1 = Completeness(rt, f)
        /\ y = BonusScore(rt, e) /\ y1 = BonusScore(rt, f)
  BY <1>6
<1>8. x \in 0..x1 /\ y \in 0..y1
  <2>1. x <= x1 /\ y <= y1
    BY <1>4, <1>5, <1>7, Zenon
  <2> QED
    BY <2>1 DEF Full
<1>9. (4 * x) \div 10 <= (4 * x1) \div 10 /\ y \div 10 <= y1 \div 10
  BY <1>8, Tenths
<1>10. RequiredPart(rt, e) <= RequiredPart(rt, f) /\ BonusPart(rt, e) <= BonusPart(rt, f)
  BY <1>7, <1>9 DEF RequiredPart, BonusPart
<1>11. PICK w, p, q : ScoreParts(rt, e, source, w, p, q)
  BY ScorePartsAre, Zenon
<1>12. PICK w1, p1, q1 : ScoreParts(rt, f, source, w1, p1, q1)
  BY ScorePartsAre, Zenon
<1>13. w = w1 /\ p <= p1 /\ q <= q1
  BY <1>10, <1>11, <1>12, Zenon DEF ScoreParts
<1>14. SumOfParts(w, p1, q1) >= SumOfParts(w, p, q)
  BY <1>11, <1>12, <1>13, SumOfPartsIs DEF ScoreParts
<1> QED
  BY <1>11, <1>12, <1>13, <1>14, Zenon DEF ScoreParts

\* No extraction is sure enough to be approved unseen.
LEMMA NothingApprovedUnseen ==
    ASSUME NEW source, NEW payload
    PROVE  Route(ScoreOf(source, payload)) # "auto_approved"
<1>1. PICK rt \in Extractable : rt = RecordType(source, payload)
  BY ExtractableTypes
<1>2. PICK e : e = Extracted(source, payload)
  OBVIOUS
<1>3. PICK w, p, q : ScoreParts(rt, e, source, w, p, q)
  BY ScorePartsAre, Zenon
<1>4. ~ (SumOfParts(w, p, q) >= 11040)
  BY <1>3, SumOfPartsIs DEF ScoreParts
<1>6. ~ (score_extraction(rt, e, {}, source) >= 11040)
  BY <1>3, <1>4 DEF ScoreParts
<1> QED
  BY <1>1, <1>2, <1>6 DEF ScoreOf, Route, AGENT_CONFIDENCE_AUTO_APPROVE

\* With two required fields missing a record is not proposed for review.
LEMMA ReviewedNearlyComplete ==
    ASSUME NEW source, NEW payload, NEW rt, rt = RecordType(source, payload),
           NEW e, e = Extracted(source, payload), Route(ScoreOf(source, payload)) # "pending"
    PROVE  Cardinality(REQUIRED_FIELDS[rt] \ RequiredPresent(rt, e)) <= 1
<1>1. rt \in Extractable
  BY ExtractableTypes
<1>2. PICK S, R : S = REQUIRED_FIELDS[rt] /\ R = RequiredPresent(rt, e)
  OBVIOUS
<1>3. R \subseteq S /\ IsFiniteSet(S) /\ Cardinality(S) \in 1..4 /\ rt \in RecordTypes
  BY <1>1, <1>2, FewFields DEF RequiredPresent
<1>4. PICK n \in 1..4, c \in 0..4 : c <= n /\ n = Cardinality(S) /\ c = Cardinality(R)
  BY <1>3, FS_Subset, FS_CardinalityType
<1>5. Cardinality(S \ R) = n - c
  <2>1. S \intersect R = R
    BY <1>3
  <2>2. Cardinality(S \ R) = Cardinality(S) - Cardinality(S \intersect R)
    BY <1>3, FS_Difference
  <2> QED
    BY <1>4, <2>1, <2>2
<1>6. SUFFICES ASSUME c + 2 <= n PROVE FALSE
  BY <1>2, <1>4, <1>5
<1>7. 2 * Completeness(rt, e) <= Full
  BY <1>2, <1>3, <1>4, <1>6, Share DEF Completeness
<1>8. PICK w, p, q : ScoreParts(rt, e, source, w, p, q)
  BY <1>1, ScorePartsAre, Zenon
<1>9. PICK x : x = Completeness(rt, e)
  OBVIOUS
<1>10. x \in 0..Full
  BY <1>1, <1>9, ScoreIs
<1>11. (4 * x) \div 10 <= 2400
  <2>1. 2 * x <= Full
    BY <1>7, <1>9
  <2> QED
    BY <1>10, <2>1, Tenths
<1>12. p = (4 * x) \div 10
  BY <1>8, <1>9 DEF ScoreParts, RequiredPart
<1>13. ~ (SumOfParts(w, p, q) >= 8400) /\ ~ (SumOfParts(w, p, q) >= 11040)
  <2>1. p <= 2400
    BY <1>11, <1>12
  <2> QED
    BY <1>8, <2>1, SumOfPartsIs DEF ScoreParts
<1>14. ~ (score_extraction(rt, e, {}, source) >= 8400) /\ ~ (score_extraction(rt, e, {}, source) >= 11040)
  BY <1>8, <1>13 DEF ScoreParts
<1> QED
  BY <1>14 DEF ScoreOf, Route, AGENT_CONFIDENCE_AUTO_APPROVE, AGENT_CONFIDENCE_NEEDS_REVIEW

\* At least as much of a value: what counts for either kind of field still does.
AsGood(x, y) == (x = "value" => y = "value") /\ (x \in {"empty", "value"} => y \in {"empty", "value"})

\* What is read of a payload with one more key filled in.
LEMMA FullerReads ==
    ASSUME NEW payload, NEW key \in DOMAIN payload,
           \A k \in DOMAIN payload : payload[k] \in Values,
           NEW fuller, fuller = [payload EXCEPT ![key] = "value"]
    PROVE  /\ \A k : AsGood(ValueOf(payload, k), ValueOf(fuller, k))
           /\ \A k : AsGood(Read(payload, k), Read(fuller, k))
           /\ \A k : Read(payload, k) \in {"missing", "empty", "value"}
           /\ \A k : Read(fuller, k) \in {"missing", "empty", "value"}
<1>1. DOMAIN fuller = DOMAIN payload
  OBVIOUS
<1>2. \A k \in DOMAIN payload : fuller[k] = IF k = key THEN "value" ELSE payload[k]
  OBVIOUS
<1> QED
  BY <1>1, <1>2 DEF AsGood, ValueOf, Read, HasKey, Values

LEMMA EitherAsGood ==
    ASSUME NEW x \in {"missing", "empty", "value"}, NEW x1 \in {"missing", "empty", "value"},
           NEW y \in {"missing", "empty", "value"}, NEW y1 \in {"missing", "empty", "value"},
           AsGood(x, x1), AsGood(y, y1)
    PROVE  AsGood(Either(x, y), Either(x1, y1))
BY DEF AsGood, Either, Falsy

\* A record made of the same keys is as good as another if each of its values is.
LEMMA RecordAsGood ==
    ASSUME NEW e, NEW g, DOMAIN e = DOMAIN g, \A k \in DOMAIN e : AsGood(e[k], g[k])
    PROVE  \A k : AsGood(ValueOf(e, k), ValueOf(g, k))
BY DEF ValueOf, AsGood

LEMMA FullerExtracts ==
    ASSUME NEW source, NEW payload, NEW key \in DOMAIN payload,
           \A k \in DOMAIN payload : payload[k] \in Values,
           NEW fuller, fuller = [payload EXCEPT ![key] = "value"],
           RecordType(source, fuller) = RecordType(source, payload)
    PROVE  \A k : AsGood(ValueOf(Extracted(source, payload), k), ValueOf(Extracted(source, fuller), k))
<1>1. /\ \A k : AsGood(Read(payload, k), Read(fuller, k))
      /\ \A k : AsGood(ValueOf(payload, k), ValueOf(fuller, k))
  BY FullerReads
<1>2. \A k, l : AsGood(Either(Read(payload, k), Read(payload, l)), Either(Read(fuller, k), Read(fuller, l)))
  <2> SUFFICES ASSUME NEW k, NEW l
               PROVE  AsGood(Either(Read(payload, k), Read(payload, l)),
                             Either(Read(fuller, k), Read(fuller, l)))
    OBVIOUS
  <2>1. PICK x \in {"missing", "empty", "value"} : x = Read(payload, k)
    BY FullerReads
  <2>2. PICK x1 \in {"missing", "empty", "value"} : x1 = Read(fuller, k)
    BY FullerReads
  <2>3. PICK y \in {"missing", "empty", "value"} : y = Read(payload, l)
    BY FullerReads
  <2>4. PICK y1 \in {"missing", "empty", "value"} : y1 = Read(fuller, l)
    BY FullerReads
  <2> QED
    <3>1. AsGood(x, x1) /\ AsGood(y, y1)
      BY <1>1, <2>1, <2>2, <2>3, <2>4
    <3> QED
      BY <2>1, <2>2, <2>3, <2>4, <3>1, EitherAsGood
<1>3. \A x : AsGood(x, x)
  BY DEF AsGood
<1>4. CASE source = "quickbooks" /\ RecordType(source, payload) = "invoice"
  <2> DEFINE Made(p) == [invoice_number |-> Read(p, "DocNumber"),
                           invoice_date |-> Read(p, "TxnDate"),
                           due_date |-> Read(p, "DueDate"),
                           amount |-> Read(p, "TotalAmt"),
                           customer_id |-> "missing"]
  <2>1. Extracted(source, payload) = Made(payload) /\ Extracted(source, fuller) = Made(fuller)
    BY <1>4 DEF Extracted
  <2>2. \A p : DOMAIN Made(p) = {"invoice_number", "invoice_date", "due_date", "amount", "customer_id"}
    OBVIOUS
  <2>3. /\ AsGood(Made(payload)["invoice_number"], Made(fuller)["invoice_number"])
        /\ AsGood(Made(payload)["invoice_date"], Made(fuller)["invoice_date"])
        /\ AsGood(Made(payload)["due_date"], Made(fuller)["due_date"])
        /\ AsGood(Made(payload)["amount"], Made(fuller)["amount"])
        /\ AsGood(Made(payload)["customer_id"], Made(fuller)["customer_id"])
    BY <1>1, <1>2, <1>3
  <2> HIDE DEF Made
  <2>4. \A k \in DOMAIN Made(payload) : AsGood(Made(payload)[k], Made(fuller)[k])
    BY <2>2, <2>3
  <2> QED
    BY <2>1, <2>2, <2>4, RecordAsGood
<1>5. CASE source = "quickbooks" /\ RecordType(source, payload) = "customer"
  <2> DEFINE Made(p) == [name |-> Either(Read(p, "DisplayName"), Read(p, "CompanyName")),
                           qb_customer_id |-> Read(p, "Id"),
                           customer_type |-> "value"]
  <2>1. Extracted(source, payload) = Made(payload) /\ Extracted(source, fuller) = Made(fuller)
    BY <1>5 DEF Extracted
  <2>2. \A p : DOMAIN Made(p) = {"name", "qb_customer_id", "customer_type"}
    OBVIOUS
  <2>3. /\ AsGood(Made(payload)["name"], Made(fuller)["name"])
        /\ AsGood(Made(payload)["qb_customer_id"], Made(fuller)["qb_customer_id"])
        /\ AsGood(Made(payload)["customer_type"], Made(fuller)["customer_type"])
    BY <1>1, <1>2, <1>3
  <2> HIDE DEF Made
  <2>4. \A k \in DOMAIN Made(payload) : AsGood(Made(payload)[k], Made(fuller)[k])
    BY <2>2, <2>3
  <2> QED
    BY <2>1, <2>2, <2>4, RecordAsGood
<1>6. CASE source = "bank_csv"
  <2> DEFINE Made(p) == [amount |-> Read(p, "amount"),
                           payment_date |-> Read(p, "date"),
                           reference_number |-> Either(Read(p, "reference"), Read(p, "memo")),
                           payment_method |-> "value"]
  <2>1. Extracted(source, payload) = Made(payload) /\ Extracted(source, fuller) = Made(fuller)
    BY <1>6 DEF Extracted
  <2>2. \A p : DOMAIN Made(p) = {"amount", "payment_date", "reference_number", "payment_method"}
    OBVIOUS
  <2>3. /\ AsGood(Made(payload)["amount"], Made(fuller)["amount"])
        /\ AsGood(Made(payload)["payment_date"], Made(fuller)["payment_date"])
        /\ AsGood(Made(payload)["reference_number"], Made(fuller)["reference_number"])
        /\ AsGood(Made(payload)["payment_method"], Made(fuller)["payment_method"])
    BY <1>1, <1>2, <1>3
  <2> HIDE DEF Made
  <2>4. \A k \in DOMAIN Made(payload) : AsGood(Made(payload)[k], Made(fuller)[k])
    BY <2>2, <2>3
  <2> QED
    BY <2>1, <2>2, <2>4, RecordAsGood
<1>7. CASE source = "payroll"
  <2> DEFINE Made(p) == [employee_id |-> Read(p, "employee_id"),
                           shift_date |-> Read(p, "date"),
                           hours_worked |-> Read(p, "hours"),
                           hourly_rate |-> Read(p, "rate"),
                           worker_type |-> "value"]
  <2>1. Extracted(source, payload) = Made(payload) /\ Extracted(source, fuller) = Made(fuller)
    BY <1>7 DEF Extracted
  <2>2. \A p : DOMAIN Made(p) = {"employee_id", "shift_date", "hours_worked", "hourly_rate", "worker_type"}
    OBVIOUS
  <2>3. /\ AsGood(Made(payload)["employee_id"], Made(fuller)["employee_id"])
        /\ AsGood(Made(payload)["shift_date"], Made(fuller)["shift_date"])
        /\ AsGood(Made(payload)["hours_worked"], Made(fuller)["hours_worked"])
        /\ AsGood(Made(payload)["hourly_rate"], Made(fuller)["hourly_rate"])
        /\ AsGood(Made(payload)["worker_type"], Made(fuller)["worker_type"])
    BY <1>1, <1>2, <1>3
  <2> HIDE DEF Made
  <2>4. \A k \in DOMAIN Made(payload) : AsGood(Made(payload)[k], Made(fuller)[k])
    BY <2>2, <2>3
  <2> QED
    BY <2>1, <2>2, <2>4, RecordAsGood
<1>8. CASE source \notin {"quickbooks", "bank_csv", "payroll"}
  <2>1. Extracted(source, payload) = payload /\ Extracted(source, fuller) = fuller
    BY <1>8 DEF Extracted
  <2> QED
    BY <1>1, <2>1
<1>9. source = "quickbooks" => RecordType(source, payload) \in {"invoice", "customer"}
  BY DEF RecordType
<1> QED
  BY <1>4, <1>5, <1>6, <1>7, <1>8, <1>9

\* What the worker makes of a payload (score_extraction in services/staging/confidence.py after
\* the extraction in workers/ingestion_tasks.py) is sound, for every source and payload:
\* nothing is approved unseen, nothing is proposed for review with two required fields
\* missing, and filling in a key never lowers the score.
THEOREM ScoresSound ==
    ASSUME NEW source, NEW payload, \A k \in DOMAIN payload : payload[k] \in Values
    PROVE  ScoreSound(source, payload, ScoreOf(source, payload))
<1>1. PICK rt \in Extractable : rt = RecordType(source, payload)
  BY ExtractableTypes
<1>2. PICK e : e = Extracted(source, payload)
  OBVIOUS
<1>3. ASSUME NEW key \in DOMAIN payload, NEW fuller, fuller = [payload EXCEPT ![key] = "value"],
             RecordType(source, fuller) = rt
      PROVE  ScoreOf(source, fuller) >= ScoreOf(source, payload)
  <2>1. PICK f : f = Extracted(source, fuller)
    OBVIOUS
  <2>2. \A k : AsGood(ValueOf(e, k), ValueOf(f, k))
    BY <1>1, <1>2, <1>3, <2>1, FullerExtracts
  <2>3. /\ RequiredPresent(rt, e) \subseteq RequiredPresent(rt, f)
        /\ BonusPresent(rt, e) \subseteq BonusPresent(rt, f)
    BY <2>2 DEF RequiredPresent, BonusPresent, AsGood
  <2>4. score_extraction(rt, f, {}, source) >= score_extraction(rt, e, {}, source)
    BY <2>3, MoreFieldsScoreMore
  <2> QED
    BY <1>1, <1>2, <1>3, <2>1, <2>4 DEF ScoreOf
<1>4. Route(ScoreOf(source, payload)) # "auto_approved"
  BY NothingApprovedUnseen
<1>5. Route(ScoreOf(source, payload)) # "pending"
        => Cardinality(REQUIRED_FIELDS[rt] \ RequiredPresent(rt, e)) <= 1
  BY <1>1, <1>2, ReviewedNearlyComplete
<1> QED
  BY <1>1, <1>2, <1>3, <1>4, <1>5 DEF ScoreSound

LEMMA RecordAnswered ==
    ASSUME TypeInv, Next, topic = "confidence"
    PROVE  ExtractionScored'
<1>1. result' = ScoreOf(given.source, given.payload)
  <2>1. ScoreRecord
    BY TopicStep
  <2> QED
    BY <2>1 DEF ScoreRecord, Compute
<1>2. \A k \in DOMAIN given.payload : given.payload[k] \in Values
  BY InputsAssumption DEF TypeInv
<1>3. ScoreSound(given.source, given.payload, result')
  BY <1>1, <1>2, ScoresSound
<1> QED
  BY <1>3, StepAnswers DEF ExtractionScored

\* Every score the extraction asks for is sound, whatever records there are.
THEOREM ScoresAreSound == Spec => []ExtractionScored
<1>1. Init => ExtractionScored
  BY DEF Init, ExtractionScored, Answered
<1>2. TypeInv /\ ExtractionScored /\ [Next]_calcVars => ExtractionScored'
  <2> SUFFICES ASSUME TypeInv, ExtractionScored, [Next]_calcVars PROVE ExtractionScored'
    OBVIOUS
  <2>1. CASE UNCHANGED calcVars
    BY <2>1 DEF ExtractionScored, Answered, calcVars
  <2>2. CASE Next
    <3>1. CASE topic = "confidence"
      BY <2>2, <3>1, RecordAnswered
    <3>2. CASE topic # "confidence"
      BY <2>2, <3>2, StepAnswers DEF ExtractionScored, Answered
    <3> QED
      BY <3>1, <3>2
  <2> QED
    BY <2>1, <2>2
<1> QED
  BY <1>1, <1>2, TypeOK, PTL DEF Spec

-----------------------------------------------------------------------------
(* Rankings                                                                *)

\* Whether j comes before i when s is sorted by falling score.
Beats(s, j, i) == s[j].score > s[i].score \/ (s[j].score = s[i].score /\ j < i)

Ahead(s, n, i) == {j \in 1..n : Beats(s, j, i)}

Scored(s, n) == n \in Nat /\ DOMAIN s = 1..n /\ \A i \in 1..n : s[i].score \in Int

LEMMA BeatsOrders ==
    ASSUME NEW s, NEW n, Scored(s, n), NEW i \in 1..n, NEW j \in 1..n
    PROVE  /\ ~ Beats(s, i, i)
           /\ i # j => Beats(s, i, j) \/ Beats(s, j, i)
           /\ \A k \in 1..n : Beats(s, k, i) /\ Beats(s, i, j) => Beats(s, k, j)
  BY DEF Scored, Beats

LEMMA AheadFinite ==
    ASSUME NEW s, NEW n \in Nat, NEW i, NEW P, P \subseteq Ahead(s, n, i)
    PROVE  IsFiniteSet(P) /\ Cardinality(P) \in Nat /\ Cardinality(P) <= n
<1>1. IsFiniteSet(1..n) /\ Cardinality(1..n) = n
  BY FS_Interval
<1>2. P \in SUBSET (1..n)
  BY DEF Ahead
<1>3. IsFiniteSet(P) /\ Cardinality(P) <= Cardinality(1..n)
  BY <1>1, <1>2, FS_Subset
<1> QED
  BY <1>1, <1>3, FS_CardinalityType

LEMMA RankIs ==
    ASSUME NEW s, NEW n, Scored(s, n), NEW i \in 1..n
    PROVE  Rank(s)[i] = 1 + Cardinality(Ahead(s, n, i))
<1>1. DOMAIN s = 1..n
  BY DEF Scored
<1>2. {j \in DOMAIN s : s[j].score > s[i].score \/ (s[j].score = s[i].score /\ j < i)} = Ahead(s, n, i)
  BY <1>1 DEF Ahead, Beats
<1> QED
  BY <1>1, <1>2 DEF Rank

\* Who comes before another has the lower rank.
LEMMA RankFollows ==
    ASSUME NEW s, NEW n, Scored(s, n), NEW i \in 1..n, NEW j \in 1..n, Beats(s, i, j)
    PROVE  Rank(s)[i] < Rank(s)[j]
<1>1. n \in Nat
  BY DEF Scored
<1>2. PICK P : P = Ahead(s, n, i)
  OBVIOUS
<1>3. PICK Q : Q = Ahead(s, n, j)
  OBVIOUS
<1>4. P \subseteq Q /\ i \in Q /\ i \notin P
  BY <1>2, <1>3, BeatsOrders DEF Ahead
<1>5. IsFiniteSet(P) /\ Cardinality(P) \in Nat
  BY <1>1, <1>2, AheadFinite
<1>6. IsFiniteSet(Q) /\ Cardinality(Q) \in Nat
  BY <1>1, <1>3, AheadFinite
<1>7. Cardinality(P) <= Cardinality(Q) /\ (Cardinality(P) = Cardinality(Q) => P = Q)
  BY <1>4, <1>6, FS_Subset
<1>8. Cardinality(P) < Cardinality(Q)
  BY <1>4, <1>5, <1>6, <1>7
<1> QED
  BY <1>2, <1>3, <1>5, <1>6, <1>8, RankIs

LEMMA RankTypes ==
    ASSUME NEW s, NEW n, Scored(s, n), NEW i \in 1..n
    PROVE  Rank(s)[i] \in 1..n
<1>1. n \in Nat
  BY DEF Scored
<1>2. PICK P : P = Ahead(s, n, i)
  OBVIOUS
<1>3. P \in SUBSET (1..n) /\ i \notin P
  BY <1>2, BeatsOrders DEF Ahead
<1>4. IsFiniteSet(P) /\ Cardinality(P) \in Nat
  BY <1>1, <1>2, AheadFinite
<1>5. IsFiniteSet(1..n) /\ Cardinality(1..n) = n
  BY <1>1, FS_Interval
<1>6. Cardinality(P) <= n /\ (n = Cardinality(P) => 1..n = P)
  BY <1>3, <1>5, FS_Subset
<1>7. Cardinality(P) < n
  BY <1>1, <1>3, <1>4, <1>6
<1> QED
  BY <1>1, <1>2, <1>4, <1>7, RankIs

LEMMA RanksDiffer ==
    ASSUME NEW s, NEW n, Scored(s, n), NEW i \in 1..n, NEW j \in 1..n, Rank(s)[i] = Rank(s)[j]
    PROVE  i = j
<1>1. Rank(s)[i] \in 1..n /\ Rank(s)[j] \in 1..n
  BY RankTypes
<1>2. ~ (Rank(s)[i] < Rank(s)[j]) /\ ~ (Rank(s)[j] < Rank(s)[i])
  BY <1>1
<1>3. ~ Beats(s, i, j) /\ ~ Beats(s, j, i)
  BY <1>2, RankFollows
<1> QED
  BY <1>3, BeatsOrders

\* Every rank is taken.
LEMMA RanksTaken ==
    ASSUME NEW s, NEW n, Scored(s, n), NEW p \in 1..n
    PROVE  \E i \in 1..n : Rank(s)[i] = p
<1>1. n \in Nat
  BY DEF Scored
<1>2. SUFFICES ASSUME \A i \in 1..n : Rank(s)[i] # p PROVE FALSE
  OBVIOUS
<1>3. PICK T : T = (1..n) \ {p}
  OBVIOUS
<1>4. PICK f \in [1..n -> T] : f = [i \in 1..n |-> Rank(s)[i]]
  <2>1. \A i \in 1..n : Rank(s)[i] \in T
    BY <1>2, <1>3, RankTypes
  <2> DEFINE g == [i \in 1..n |-> Rank(s)[i]]
  <2>2. g \in [1..n -> T]
    BY <2>1
  <2> QED
    BY <2>2
<1>5. IsFiniteSet(1..n) /\ Cardinality(1..n) = n
  BY <1>1, FS_Interval
<1>6. IsFiniteSet(T) /\ Cardinality(T) < n
  <2>1. PICK S : S = 1..n
    OBVIOUS
  <2>2. IsFiniteSet(S) /\ Cardinality(S) = n /\ p \in S /\ T = S \ {p}
    BY <1>3, <1>5, <2>1
  <2>3. IsFiniteSet(S \ {p}) /\ Cardinality(S \ {p}) = Cardinality(S) - 1
    BY <2>2, FS_RemoveElement
  <2> QED
    BY <1>1, <2>2, <2>3
<1>7. \E x, y \in 1..n : x # y /\ f[x] = f[y]
  <2>1. PICK S : S = 1..n
    OBVIOUS
  <2>2. f \in [S -> T] /\ IsFiniteSet(S) /\ Cardinality(T) < Cardinality(S)
    BY <1>5, <1>6, <2>1
  <2>3. \E x, y \in S : x # y /\ f[x] = f[y]
    BY <1>6, <2>2, FS_PigeonHole
  <2> QED
    BY <2>1, <2>3
<1> QED
  BY <1>4, <1>7, RanksDiffer

\* out is s sorted: at tells where each of its elements was.
Sorting(out, at, s, n) ==
    /\ out = [p \in 1..n |-> s[at[p]]]
    /\ at \in [1..n -> 1..n]
    /\ \A p, q \in 1..n : p < q => Beats(s, at[p], at[q])
    /\ \A i \in 1..n : \E p \in 1..n : at[p] = i

LEMMA ByScoreSorts ==
    ASSUME NEW s, NEW n, Scored(s, n)
    PROVE  \E at : Sorting(ByScore(s), at, s, n)
<1>1. n \in Nat /\ DOMAIN s = 1..n
  BY DEF Scored
<1> DEFINE at == [p \in 1..n |-> CHOOSE i \in DOMAIN s : Rank(s)[i] = p]
<1>2. ASSUME NEW p \in 1..n PROVE at[p] \in 1..n /\ Rank(s)[at[p]] = p
  <2>1. \E i \in DOMAIN s : Rank(s)[i] = p
    <3>1. \E i \in 1..n : Rank(s)[i] = p
      BY RanksTaken, Zenon
    <3> QED
      BY <1>1, <3>1, Zenon
  <2>2. at[p] = CHOOSE i \in DOMAIN s : Rank(s)[i] = p
    OBVIOUS
  <2>3. PICK m : m = CHOOSE i \in DOMAIN s : Rank(s)[i] = p
    OBVIOUS
  <2>4. m \in DOMAIN s /\ Rank(s)[m] = p
    BY <2>1, <2>3, Zenon
  <2> HIDE DEF at
  <2> QED
    BY <1>1, <2>2, <2>3, <2>4
<1>3. at \in [1..n -> 1..n]
  BY <1>2
<1>4. ByScore(s) = [p \in 1..n |-> s[at[p]]]
  BY <1>1 DEF ByScore
<1> HIDE DEF at
<1>5. ASSUME NEW p \in 1..n, NEW q \in 1..n, p < q PROVE Beats(s, at[p], at[q])
  <2>1. PICK i \in 1..n : i = at[p] /\ Rank(s)[i] = p
    BY <1>2
  <2>2. PICK j \in 1..n : j = at[q] /\ Rank(s)[j] = q
    BY <1>2
  <2>3. i # j
    BY <1>5, <2>1, <2>2
  <2>4. ~ Beats(s, j, i)
    <3>1. ~ (Rank(s)[j] < Rank(s)[i])
      BY <1>5, <2>1, <2>2
    <3> QED
      BY <3>1, RankFollows
  <2> QED
    BY <2>1, <2>2, <2>3, <2>4, BeatsOrders
<1>6. ASSUME NEW i \in 1..n PROVE \E p \in 1..n : at[p] = i
  <2>1. PICK p \in 1..n : p = Rank(s)[i]
    BY RankTypes
  <2>2. at[p] \in 1..n /\ Rank(s)[at[p]] = Rank(s)[i]
    BY <1>2, <2>1
  <2> QED
    BY <2>2, RanksDiffer
<1>7. Sorting(ByScore(s), at, s, n)
  BY <1>3, <1>4, <1>5, <1>6 DEF Sorting
<1> QED
  BY <1>7

\* first is out up to its m-th element.
Heads(first, out, m) ==
    /\ Len(first) = IF Len(out) < m THEN Len(out) ELSE m
    /\ DOMAIN first = 1..Len(first)
    /\ \A i \in DOMAIN first : i \in DOMAIN out /\ first[i] = out[i]

LEMMA FirstOfIs ==
    ASSUME NEW T, NEW out \in Seq(T), NEW m \in Nat
    PROVE  FirstOf(out, m) \in Seq(T) /\ Heads(FirstOf(out, m), out, m)
<1>1. PICK n \in Nat : n = Len(out) /\ DOMAIN out = 1..n
  OBVIOUS
<1>2. PICK k \in Nat : k = IF n < m THEN n ELSE m
  OBVIOUS
<1>3. PICK first : first = SubSeq(out, 1, k)
  OBVIOUS
<1>4. first \in Seq(T) /\ Len(first) = k /\ DOMAIN first = 1..k /\ \A i \in 1..k : first[i] = out[i]
  BY <1>1, <1>2, <1>3
<1>5. FirstOf(out, m) = first
  BY <1>1, <1>2, <1>3 DEF FirstOf
<1>6. Heads(first, out, m)
  BY <1>1, <1>2, <1>4 DEF Heads
<1> QED
  BY <1>4, <1>5, <1>6

\* best holds elements of s by falling score, no place of s twice, the highest first.
Best(best, s, n) ==
    /\ Falling(best)
    /\ \A i \in DOMAIN best : \E k \in 1..n : best[i] = s[k]
    /\ \A i, j \in DOMAIN best : i # j =>
          \E k, l \in 1..n : k # l /\ best[i] = s[k] /\ best[j] = s[l]
    /\ \A k \in 1..n : best # <<>> => best[1].score >= s[k].score

LEMMA BestIs ==
    ASSUME NEW T, NEW s \in Seq(T), \A e \in T : e.score \in Int, NEW m \in Nat
    PROVE  /\ FirstOf(ByScore(s), m) \in Seq(T) /\ Best(FirstOf(ByScore(s), m), s, Len(s))
           /\ Len(s) # 0 /\ m # 0 => FirstOf(ByScore(s), m) # <<>>
<1>1. PICK n \in Nat : n = Len(s) /\ DOMAIN s = 1..n
  OBVIOUS
<1>2. \A i \in 1..n : s[i] \in T
  BY <1>1
<1>3. Scored(s, n)
  BY <1>1, <1>2 DEF Scored
<1>4. PICK out : out = ByScore(s)
  OBVIOUS
<1>5. PICK at : Sorting(out, at, s, n)
  BY <1>3, <1>4, ByScoreSorts
<1>6. /\ out = [p \in 1..n |-> s[at[p]]] /\ at \in [1..n -> 1..n]
      /\ \A p, q \in 1..n : p < q => Beats(s, at[p], at[q])
      /\ \A i \in 1..n : \E p \in 1..n : at[p] = i
  BY <1>5 DEF Sorting
<1>7. \A p \in 1..n : s[at[p]] \in T
  BY <1>2, <1>6
<1>8. out \in Seq(T) /\ DOMAIN out = 1..n /\ Len(out) = n /\ \A p \in 1..n : out[p] = s[at[p]]
  BY <1>6, <1>7
<1>9. PICK best : best = FirstOf(out, m)
  OBVIOUS
<1>10. best \in Seq(T) /\ Heads(best, out, m)
  BY <1>8, <1>9, FirstOfIs
<1>11. \A i \in DOMAIN best : i \in 1..n /\ best[i] = s[at[i]]
  BY <1>8, <1>10 DEF Heads
<1>12. ASSUME NEW p \in 1..n, NEW q \in 1..n, p < q
       PROVE  s[at[p]].score >= s[at[q]].score /\ at[p] # at[q]
  <2>1. Beats(s, at[p], at[q]) /\ at[p] \in 1..n /\ at[q] \in 1..n
    BY <1>6, <1>12
  <2>2. at[p] # at[q]
    BY <1>3, <2>1, BeatsOrders
  <2> QED
    BY <1>3, <2>1, <2>2 DEF Beats, Scored
<1>13. Falling(best)
  BY <1>11, <1>12 DEF Falling
<1>14. \A i \in DOMAIN best : \E k \in 1..n : best[i] = s[k]
  BY <1>6, <1>11
<1>15. ASSUME NEW i \in DOMAIN best, NEW j \in DOMAIN best, i # j
       PROVE  \E k, l \in 1..n : k # l /\ best[i] = s[k] /\ best[j] = s[l]
  <2>1. i \in 1..n /\ j \in 1..n /\ best[i] = s[at[i]] /\ best[j] = s[at[j]]
    BY <1>11
  <2>2. at[i] # at[j]
    BY <1>12, <1>15, <2>1
  <2> QED
    BY <1>6, <2>1, <2>2
<1>16. ASSUME NEW k \in 1..n, best # <<>> PROVE best[1].score >= s[k].score
  <2>1. 1 \in DOMAIN best
    BY <1>10, <1>16
  <2>2. 1 \in 1..n /\ best[1] = s[at[1]]
    BY <1>11, <2>1
  <2>3. PICK p \in 1..n : at[p] = k
    BY <1>6
  <2>4. CASE p = 1
    <3>1. s[k].score \in Int
      BY <1>3 DEF Scored
    <3> QED
      BY <2>2, <2>3, <2>4, <3>1
  <2>5. CASE p # 1
    <3>1. 1 < p
      BY <2>5
    <3>2. s[at[1]].score >= s[at[p]].score
      BY <1>12, <2>2, <3>1
    <3> QED
      BY <2>2, <2>3, <3>2
  <2> QED
    BY <2>4, <2>5
<1>17. Best(best, s, n)
  BY <1>13, <1>14, <1>15, <1>16 DEF Best
<1>18. n # 0 /\ m # 0 => best # <<>>
  <2>1. n # 0 /\ m # 0 => Len(best) # 0
    BY <1>8, <1>10 DEF Heads
  <2> QED
    BY <1>10, <2>1
<1> QED
  BY <1>1, <1>4, <1>9, <1>10, <1>17, <1>18

-----------------------------------------------------------------------------
(* Payments                                                                *)

OpenInvoices == [id: Int, amount: Int, date: SUBSET Int, refers: BOOLEAN]

\* The score is made of its parts.
ScoredBy(r) ==
    \E a \in {0, 80, 100}, d \in {0, 40, 70, 100}, f \in {0, 90} :
        /\ r.score = 50 * a + 30 * d + 20 * f
        /\ r.breakdown.amount_score = a /\ r.breakdown.date_score = d /\ r.breakdown.ref_score = f

LEMMA PaymentScored ==
    ASSUME NEW payment, NEW inv
    PROVE  ScoredBy(PaymentScore(payment, inv))
<1>1. PICK a \in {0, 80, 100} : a = AmountScore(payment.amount, inv.amount)
  BY DEF AmountScore
<1>2. PICK d \in {0, 40, 70, 100} :
         d = IF payment.date = {} \/ inv.date = {} THEN 0
             ELSE DateScore(Distance(CHOOSE e \in payment.date : TRUE, CHOOSE e \in inv.date : TRUE))
  <2>1. \A days : DateScore(days) \in {0, 40, 70, 100}
    BY DEF DateScore
  <2>2. PICK days : days = Distance(CHOOSE e \in payment.date : TRUE, CHOOSE e \in inv.date : TRUE)
    OBVIOUS
  <2>3. CASE payment.date = {} \/ inv.date = {}
    BY <2>3
  <2>4. CASE ~ (payment.date = {} \/ inv.date = {})
    BY <2>1, <2>2, <2>4
  <2> QED
    BY <2>3, <2>4
<1>3. PICK f \in {0, 90} : f = IF inv.refers THEN 90 ELSE 0
  OBVIOUS
<1>4. PICK r : r = PaymentScore(payment, inv)
  OBVIOUS
<1>5. r = [entity_id |-> inv.id, score |-> 50 * a + 30 * d + 20 * f,
           breakdown |-> [amount_score |-> a, date_score |-> d, ref_score |-> f]]
  BY <1>1, <1>2, <1>3, <1>4 DEF PaymentScore
<1>6. /\ r.score = 50 * a + 30 * d + 20 * f
      /\ r.breakdown.amount_score = a /\ r.breakdown.date_score = d /\ r.breakdown.ref_score = f
  BY <1>5
<1> QED
  BY <1>4, <1>6 DEF ScoredBy

\* The exact amount close in time scores 80 at least.
LEMMA ExactScored ==
    ASSUME NEW payment, payment.amount \in Int, NEW inv, inv.amount = payment.amount,
           NEW d \in Int, NEW e \in Int, payment.date = {d}, inv.date = {e}, Distance(d, e) <= 5
    PROVE  PaymentScore(payment, inv).score >= 8000
<1>1. AmountScore(payment.amount, inv.amount) = 100
  BY DEF AmountScore, Distance
<1>2. (CHOOSE x \in payment.date : TRUE) = d /\ (CHOOSE x \in inv.date : TRUE) = e
  OBVIOUS
<1>3. DateScore(Distance(d, e)) = 100
  BY DEF DateScore
<1>4. PICK f \in {0, 90} : f = IF inv.refers THEN 90 ELSE 0
  OBVIOUS
<1>5. payment.date # {} /\ inv.date # {}
  OBVIOUS
<1>6. PICK r : r = PaymentScore(payment, inv)
  OBVIOUS
<1>7. r = [entity_id |-> inv.id, score |-> 50 * 100 + 30 * 100 + 20 * f,
           breakdown |-> [amount_score |-> 100, date_score |-> 100, ref_score |-> f]]
  BY <1>1, <1>2, <1>3, <1>4, <1>5, <1>6 DEF PaymentScore
<1>8. r.score = 8000 + 20 * f
  BY <1>7
<1> QED
  BY <1>6, <1>8

\* What MatchesRanked says of a payment.
PaymentsRight(found, payment, invoices) ==
    /\ Falling(found)
    /\ (\E i \in DOMAIN invoices : \E d \in payment.date : \E e \in invoices[i].date :
            /\ payment.date = {d} /\ invoices[i].date = {e}
            /\ Distance(d, e) <= 5 /\ invoices[i].amount = payment.amount)
       => \/ found[1].breakdown.amount_score = 100 /\ found[1].breakdown.date_score = 100
          \/ found[1].breakdown.ref_score = 90

LEMMA PaymentsAreRight ==
    ASSUME NEW payment, payment.amount \in Int, payment.date \in SUBSET Int,
           NEW invoices \in Seq(OpenInvoices), NEW found,
           found = compute_payment_match_score(payment, invoices)
    PROVE  PaymentsRight(found, payment, invoices)
<1>1. PICK n \in Nat : n = Len(invoices) /\ DOMAIN invoices = 1..n
  OBVIOUS
<1>2. PICK T : T = {PaymentScore(payment, invoices[i]) : i \in 1..n}
  OBVIOUS
<1>3. PICK scored : scored = [i \in 1..n |-> PaymentScore(payment, invoices[i])]
  OBVIOUS
<1>4. scored \in Seq(T) /\ Len(scored) = n /\ DOMAIN scored = 1..n
  BY <1>2, <1>3
<1>5. PICK I : I = {i \in DOMAIN scored : scored[i].score > 0}
  OBVIOUS
<1>6. PICK kept : kept = Kept(scored, I)
  OBVIOUS
<1>7. kept \in Seq(T) /\ KeptFrom(kept, scored, n, I)
  BY <1>4, <1>6, KeptIsSeq, KeptIs
<1>8. found = FirstOf(ByScore(kept), 5)
  BY <1>1, <1>3, <1>5, <1>6 DEF compute_payment_match_score, Where
<1>9. \A r \in T : ScoredBy(r)
  BY <1>2, PaymentScored
<1>10. ASSUME NEW r \in T PROVE r.score \in Int
  <2>1. PICK a \in {0, 80, 100}, b \in {0, 40, 70, 100}, f \in {0, 90} :
           r.score = 50 * a + 30 * b + 20 * f
    BY <1>9 DEF ScoredBy
  <2> QED
    BY <2>1
<1>11. PICK m \in Nat : m = Len(kept) /\ DOMAIN kept = 1..m
  <2>1. kept \in Seq(T)
    BY <1>7
  <2> QED
    BY <2>1
<1>12. /\ found \in Seq(T) /\ Best(found, kept, m)
       /\ m # 0 => found # <<>>
  <2>1. 5 \in Nat /\ 5 # 0
    OBVIOUS
  <2> QED
    BY <1>7, <1>8, <1>10, <1>11, <2>1, BestIs
<1>13. ASSUME NEW i \in DOMAIN invoices, NEW d \in payment.date, NEW e \in invoices[i].date,
              payment.date = {d}, invoices[i].date = {e}, Distance(d, e) <= 5,
              invoices[i].amount = payment.amount
       PROVE  \/ found[1].breakdown.amount_score = 100 /\ found[1].breakdown.date_score = 100
              \/ found[1].breakdown.ref_score = 90
  <2>1. invoices[i] \in OpenInvoices
    OBVIOUS
  <2>2. d \in Int /\ e \in Int
    BY <2>1 DEF OpenInvoices
  <2>3. PICK inv : inv = invoices[i]
    OBVIOUS
  <2>4. PaymentScore(payment, inv).score >= 8000
    BY <1>13, <2>2, <2>3, ExactScored
  <2>5. scored[i].score >= 8000 /\ i \in 1..n
    BY <1>1, <1>3, <2>3, <2>4
  <2>6. scored[i] \in T /\ scored[i].score \in Int
    BY <1>4, <1>10, <2>5
  <2>7. i \in I \intersect 1..n
    BY <1>4, <1>5, <2>5, <2>6
  <2>8. PICK k \in 1..m : kept[k] = scored[i]
    BY <1>7, <1>11, <2>7 DEF KeptFrom
  <2>9. found # <<>>
    BY <1>12, <2>8
  <2>10. found[1].score >= kept[k].score
    BY <1>12, <2>9 DEF Best
  <2>11. found[1] \in T
    BY <1>12, <2>9
  <2>12. PICK a \in {0, 80, 100}, b \in {0, 40, 70, 100}, f \in {0, 90} :
            /\ found[1].score = 50 * a + 30 * b + 20 * f
            /\ found[1].breakdown.amount_score = a /\ found[1].breakdown.date_score = b
            /\ found[1].breakdown.ref_score = f
    BY <1>9, <2>11 DEF ScoredBy
  <2>13. 50 * a + 30 * b + 20 * f >= 8000
    BY <2>5, <2>6, <2>8, <2>10, <2>12
  <2>14. f = 90 \/ (a = 100 /\ b = 100)
    BY <2>13
  <2> QED
    BY <2>12, <2>14
<1>14. Falling(found)
  BY <1>12 DEF Best
<1> QED
  BY <1>13, <1>14 DEF PaymentsRight

-----------------------------------------------------------------------------
(* Customers                                                               *)

Entries == [entity_id: STRING, score: 0..100]

\* What is close enough to be suggested.
Close == {e \in Entries : e.score >= CUSTOMER_MATCH_THRESHOLD}

Distinct(seen) ==
    /\ seen \in Seq(Close)
    /\ \A i, j \in DOMAIN seen : i # j => seen[i].entity_id # seen[j].entity_id

\* seen has an entry for each customer among the first k found, the lowest of them.
LowestOf(found, k, seen) ==
    /\ Distinct(seen)
    /\ \A i \in DOMAIN seen : \E j \in 1..k : seen[i] = found[j]
    /\ \A j \in 1..k : \E i \in DOMAIN seen :
          found[j].entity_id = seen[i].entity_id /\ found[j].score >= seen[i].score

\* env is what was found.
Keeping == INSTANCE Folding WITH
    Op <- LAMBDA env, seen, match : KeepEntry(seen, match),
    Holds <- LAMBDA env, k, seen : LowestOf(env, k, seen)

LEMMA CloseScores == \A e \in Close : e \in Entries /\ e.score \in Int
  BY DEF Close, Entries

\* Of the entries of one customer the later one is kept.
LEMMA LaterSupersedes ==
    ASSUME NEW kept \in Close, NEW match \in Close
    PROVE  Supersedes(match, kept)
  BY DEF Supersedes, Close, Entries, CUSTOMER_MATCH_THRESHOLD

LEMMA KeepingLowest ==
    ASSUME NEW found \in Seq(Close), Falling(found), NEW k \in 1..Len(found),
           NEW seen, LowestOf(found, k - 1, seen)
    PROVE  LowestOf(found, k, KeepEntry(seen, found[k]))
<1>1. PICK n \in Nat : n = Len(seen) /\ DOMAIN seen = 1..n
  BY DEF LowestOf, Distinct
<1>2. /\ \A i, j \in 1..n : i # j => seen[i].entity_id # seen[j].entity_id
      /\ seen \in Seq(Close) /\ \A i \in 1..n : seen[i] \in Close
  <2>1. Distinct(seen)
    BY DEF LowestOf
  <2>2. seen \in Seq(Close) /\ \A i, j \in 1..n : i # j => seen[i].entity_id # seen[j].entity_id
    BY <1>1, <2>1 DEF Distinct
  <2> QED
    BY <1>1, <2>2
<1>3. /\ \A i \in 1..n : \E j \in 1..(k - 1) : seen[i] = found[j]
      /\ \A j \in 1..(k - 1) : \E i \in 1..n :
            found[j].entity_id = seen[i].entity_id /\ found[j].score >= seen[i].score
  BY <1>1 DEF LowestOf
<1>4. PICK match \in Close : match = found[k]
  OBVIOUS
<1>5. \A j \in 1..(k - 1) : found[j].score >= match.score
  BY <1>4 DEF Falling
<1>6. PICK at : at = {i \in DOMAIN seen : seen[i].entity_id = match.entity_id}
  OBVIOUS
<1>7. \A j \in 1..k : j = k \/ j \in 1..(k - 1)
  OBVIOUS
<1>8. CASE at = {}
  <2>1. PICK more : more = Append(seen, match)
    OBVIOUS
  <2>2. KeepEntry(seen, match) = more
    BY <1>6, <1>8, <2>1 DEF KeepEntry
  <2>3. more \in Seq(Close) /\ DOMAIN more = 1..(n + 1) /\ more[n + 1] = match /\ \A i \in 1..n : more[i] = seen[i]
    BY <1>1, <1>2, <2>1
  <2>4. \A i \in 1..n : more[i].entity_id # match.entity_id
    BY <1>1, <1>6, <1>8, <2>3
  <2>5. \A i \in 1..(n + 1) : i = n + 1 \/ i \in 1..n
    OBVIOUS
  <2>6. \A i, j \in 1..(n + 1) : i # j => more[i].entity_id # more[j].entity_id
    BY <1>2, <2>3, <2>4, <2>5
  <2>7. \A i \in 1..(n + 1) : \E j \in 1..k : more[i] = found[j]
    <3>1. k \in 1..k /\ \A j \in 1..(k - 1) : j \in 1..k
      OBVIOUS
    <3> QED
      BY <1>3, <1>4, <2>3, <2>5, <3>1
  <2>8. ASSUME NEW j \in 1..k
        PROVE  \E i \in 1..(n + 1) : found[j].entity_id = more[i].entity_id /\ found[j].score >= more[i].score
    <3>1. CASE j = k
      <4>1. n + 1 \in 1..(n + 1) /\ match.score \in Int
        BY CloseScores
      <4> QED
        BY <1>4, <2>3, <3>1, <4>1
    <3>2. CASE j \in 1..(k - 1)
      <4>1. PICK i \in 1..n : found[j].entity_id = seen[i].entity_id /\ found[j].score >= seen[i].score
        BY <1>3, <3>2
      <4>2. i \in 1..(n + 1) /\ more[i] = seen[i]
        BY <2>3
      <4> QED
        BY <4>1, <4>2
    <3> QED
      BY <1>7, <3>1, <3>2
  <2>9. LowestOf(found, k, more)
    BY <2>3, <2>6, <2>7, <2>8 DEF LowestOf, Distinct
  <2> QED
    BY <1>4, <2>2, <2>9
<1>9. CASE at # {}
  <2>1. PICK kept : kept = [i \in 1..n |-> IF i \in at /\ Supersedes(match, seen[i]) THEN match ELSE seen[i]]
    OBVIOUS
  <2>2. KeepEntry(seen, match) = kept
    BY <1>1, <1>6, <1>9, <2>1 DEF KeepEntry
  <2>3. \A i \in 1..n : Supersedes(match, seen[i])
    BY <1>2, LaterSupersedes
  <2>4. \A i \in 1..n : kept[i] = IF i \in at THEN match ELSE seen[i]
    BY <2>1, <2>3
  <2>5. \A i \in 1..n : kept[i] \in Close /\ kept[i].entity_id = seen[i].entity_id
    BY <1>1, <1>2, <1>6, <2>4
  <2>6. kept \in Seq(Close) /\ DOMAIN kept = 1..n
    BY <2>1, <2>5
  <2>7. \A i \in 1..n : \E j \in 1..k : kept[i] = found[j]
    <3>1. k \in 1..k /\ \A j \in 1..(k - 1) : j \in 1..k
      OBVIOUS
    <3> QED
      BY <1>3, <1>4, <2>4, <3>1
  <2>8. ASSUME NEW j \in 1..k
        PROVE  \E i \in 1..n : found[j].entity_id = kept[i].entity_id /\ found[j].score >= kept[i].score
    <3>1. CASE j = k
      <4>1. PICK i \in 1..n : i \in at
        BY <1>1, <1>6, <1>9
      <4>2. kept[i] = match /\ match.score \in Int
        BY <2>4, <4>1, CloseScores
      <4> QED
        BY <1>4, <3>1, <4>2
    <3>2. CASE j \in 1..(k - 1)
      <4>1. PICK i \in 1..n : found[j].entity_id = seen[i].entity_id /\ found[j].score >= seen[i].score
        BY <1>3, <3>2
      <4>2. found[j].entity_id = kept[i].entity_id
        BY <2>5, <4>1
      <4>3. found[j].score >= kept[i].score
        BY <1>5, <2>4, <3>2, <4>1
      <4> QED
        BY <4>2, <4>3
    <3> QED
      BY <1>7, <3>1, <3>2
  <2>9. LowestOf(found, k, kept)
    <3>1. \A i, j \in 1..n : i # j => kept[i].entity_id # kept[j].entity_id
      BY <1>2, <2>5
    <3>2. Distinct(kept)
      BY <2>6, <3>1 DEF Distinct
    <3> QED
      BY <2>6, <2>7, <2>8, <3>2 DEF LowestOf
  <2> QED
    BY <1>4, <2>2, <2>9
<1> QED
  BY <1>8, <1>9

\* What MatchesRanked says of the customers suggested from what was found.
CustomersRight(best, found) ==
    /\ Falling(best)
    /\ found # <<>> => best # <<>>
    /\ \A i, j \in DOMAIN best : i # j => best[i].entity_id # best[j].entity_id
    /\ \A i \in DOMAIN best :
          /\ best[i] \in Range(found)
          /\ \A f \in Range(found) : f.entity_id = best[i].entity_id => f.score >= best[i].score

LEMMA CustomersAreRight ==
    ASSUME NEW candidates \in Seq(Entries)
    PROVE  CustomersRight(compute_customer_match_score(candidates), ProcessExtract(candidates))
<1>1. \A e \in Close : e.score \in Int
  BY CloseScores
<1>2. PICK close \in Seq(Close) : close = Where(candidates, LAMBDA c : c.score >= CUSTOMER_MATCH_THRESHOLD)
  <2>1. PICK n \in Nat : n = Len(candidates) /\ DOMAIN candidates = 1..n
    OBVIOUS
  <2>2. PICK I : I = {i \in DOMAIN candidates : candidates[i].score >= CUSTOMER_MATCH_THRESHOLD}
    OBVIOUS
  <2>3. Kept(candidates, I) \in Seq({candidates[i] : i \in I \intersect 1..n})
    BY <2>1, KeptIs DEF KeptFrom
  <2>4. {candidates[i] : i \in I \intersect 1..n} \subseteq Close
    BY <2>1, <2>2 DEF Close
  <2>5. Kept(candidates, I) \in Seq(Close)
    BY <2>3, <2>4
  <2> QED
    BY <2>2, <2>5 DEF Where
<1>3. PICK found : found = FirstOf(ByScore(close), 20)
  OBVIOUS
<1>4. 20 \in Nat /\ 3 \in Nat /\ 3 # 0
  OBVIOUS
<1>5. found \in Seq(Close) /\ Falling(found)
  BY <1>1, <1>3, <1>4, BestIs DEF Best
<1>6. ProcessExtract(candidates) = found
  BY <1>2, <1>3 DEF ProcessExtract
<1>7. PICK n \in Nat : n = Len(found) /\ DOMAIN found = 1..n
  BY <1>5
<1>8. PICK seen : seen = FoldLeft(KeepEntry, <<>>, found)
  OBVIOUS
<1>9. seen = Keeping!Fold(found, <<>>, found)
  BY <1>8 DEF Keeping!Fold, Keeping!Highest, FoldLeft, MapThenFoldSet, Max
<1>10. LowestOf(found, n, seen)
  <2>1. LowestOf(found, 0, <<>>)
    BY DEF LowestOf, Distinct
  <2>2. \A k \in 1..n : \A x : LowestOf(found, k - 1, x) => LowestOf(found, k, KeepEntry(x, found[k]))
    BY <1>5, <1>7, KeepingLowest
  <2>3. LowestOf(found, n, Keeping!Fold(found, <<>>, found))
    BY <1>7, <2>1, <2>2, Keeping!FoldInduction
  <2> QED
    BY <1>9, <2>3
<1>11. PICK best : best = FirstOf(ByScore(seen), 3)
  OBVIOUS
<1>12. PICK m \in Nat : m = Len(seen) /\ DOMAIN seen = 1..m
  BY <1>10 DEF LowestOf, Distinct
<1>13. /\ best \in Seq(Close) /\ Best(best, seen, m)
       /\ m # 0 => best # <<>>
  BY <1>1, <1>4, <1>10, <1>11, <1>12, BestIs DEF LowestOf, Distinct
<1>14. ASSUME NEW i \in DOMAIN best, NEW j \in DOMAIN best, i # j
       PROVE  best[i].entity_id # best[j].entity_id
  <2>1. PICK k \in 1..m, l \in 1..m : k # l /\ best[i] = seen[k] /\ best[j] = seen[l]
    BY <1>13, <1>14 DEF Best
  <2>2. Distinct(seen)
    BY <1>10 DEF LowestOf
  <2>3. seen[k].entity_id # seen[l].entity_id
    BY <1>12, <2>1, <2>2 DEF Distinct
  <2> QED
    BY <2>1, <2>3
<1>15. found # <<>> => best # <<>>
  <2>1. n # 0 => m # 0
    BY <1>10, <1>12 DEF LowestOf
  <2>2. found # <<>> => n # 0
    BY <1>5, <1>7
  <2> QED
    BY <1>13, <2>1, <2>2
<1>16. ASSUME NEW i \in DOMAIN best
       PROVE  /\ best[i] \in Range(found)
              /\ \A f \in Range(found) : f.entity_id = best[i].entity_id => f.score >= best[i].score
  <2>1. PICK k \in 1..m : best[i] = seen[k]
    BY <1>13 DEF Best
  <2>2. PICK j \in 1..n : seen[k] = found[j]
    BY <1>10, <1>12 DEF LowestOf
  <2>3. ASSUME NEW j2 \in 1..n, found[j2].entity_id = seen[k].entity_id
        PROVE  found[j2].score >= seen[k].score
    <3>1. PICK l \in 1..m : found[j2].entity_id = seen[l].entity_id /\ found[j2].score >= seen[l].score
      BY <1>10, <1>12 DEF LowestOf
    <3>2. l = k
      BY <1>10, <1>12, <2>3, <3>1 DEF LowestOf, Distinct
    <3> QED
      BY <3>1, <3>2
  <2> QED
    BY <1>7, <2>1, <2>2, <2>3 DEF Range
<1>17. CustomersRight(best, found)
  BY <1>13, <1>14, <1>15, <1>16 DEF Best, CustomersRight
<1>18. compute_customer_match_score(candidates) = best
  BY <1>6, <1>8, <1>11 DEF compute_customer_match_score
<1> QED
  BY <1>6, <1>17, <1>18

-----------------------------------------------------------------------------
(* Retrieval                                                               *)

Found == [chunk: Int, size: Nat, score: Int]

TextChunks == [id: Int, allowed: BOOLEAN, active: BOOLEAN, vector: SUBSET Int, keywords: Int, size: Nat]

LEMMA RetrievedAre ==
    ASSUME NEW chunks \in Seq(TextChunks), NEW embedded, NEW top_k \in Nat
    PROVE  retrieve(chunks, embedded, top_k) \in Seq(Found) /\ Falling(retrieve(chunks, embedded, top_k))
<1>1. PICK rows \in Seq(TextChunks) : rows = Where(chunks, LAMBDA c : c.allowed /\ c.active)
  BY KeptIsSeq DEF Where
<1>2. PICK n \in Nat : n = Len(rows) /\ DOMAIN rows = 1..n
  OBVIOUS
<1>3. PICK scored : scored = [i \in 1..n |-> [chunk |-> rows[i].id, size |-> rows[i].size,
                                              score |-> Score(rows[i], embedded)]]
  OBVIOUS
<1>4. ASSUME NEW i \in 1..n PROVE scored[i] \in Found
  <2>1. PICK row \in TextChunks : row = rows[i]
    BY <1>2
  <2>2. row.id \in Int /\ row.size \in Nat
    BY DEF TextChunks
  <2>3. Score(row, embedded) \in Int
    BY DEF TextChunks, Score
  <2>4. scored[i] = [chunk |-> row.id, size |-> row.size, score |-> Score(row, embedded)]
    BY <1>3, <2>1
  <2> QED
    BY <2>2, <2>3, <2>4 DEF Found
<1>5. scored \in Seq(Found)
  BY <1>3, <1>4
<1>6. PICK kept \in Seq(Found) : kept = Where(scored, LAMBDA r : r.score > 0)
  BY <1>5, KeptIsSeq DEF Where
<1>7. \A e \in Found : e.score \in Int
  BY DEF Found
<1>8. PICK found : found = FirstOf(ByScore(kept), top_k)
  OBVIOUS
<1>9. found \in Seq(Found) /\ Best(found, kept, Len(kept))
  BY <1>7, <1>8, BestIs
<1>10. retrieve(chunks, embedded, top_k) = found
  BY <1>1, <1>2, <1>3, <1>6, <1>8 DEF retrieve
<1> QED
  BY <1>9, <1>10 DEF Best

\* After k blocks of found: those laid out are its first, all of them while there is
\* room, one at least.
Laid(found, k, st) ==
    /\ st \in [lines: Seq(Found), total: Int, open: BOOLEAN]
    /\ Len(st.lines) <= k
    /\ \A i \in 1..Len(st.lines) : st.lines[i] = found[i]
    /\ st.open => Len(st.lines) = k
    /\ ~ st.open => st.lines # <<>>

\* env is <<max, found>>.
Laying == INSTANCE Folding WITH
    Op <- LAMBDA env, st, c : AddBlock(st, c, env[1]),
    Holds <- LAMBDA env, k, st : Laid(env[2], k, st)

LEMMA OneMoreLaid ==
    ASSUME NEW found, NEW k \in Nat \ {0}, NEW st, Laid(found, k - 1, st), NEW c \in Found, c = found[k], NEW max
    PROVE  Laid(found, k, AddBlock(st, c, max))
<1>1. /\ st \in [lines: Seq(Found), total: Int, open: BOOLEAN]
      /\ Len(st.lines) <= k - 1
      /\ \A i \in 1..Len(st.lines) : st.lines[i] = found[i]
      /\ st.open => Len(st.lines) = k - 1
      /\ ~ st.open => st.lines # <<>>
  BY DEF Laid
<1>2. PICK m \in Nat : m = Len(st.lines)
  BY <1>1
<1>3. CASE ~ st.open
  BY <1>1, <1>2, <1>3 DEF Laid, AddBlock
<1>4. CASE st.open /\ Fits(st.lines, st.total, c.size, max)
  <2>1. PICK more : more = Append(st.lines, c)
    OBVIOUS
  <2>2. more \in Seq(Found) /\ Len(more) = k /\ more[k] = c /\ \A i \in 1..(k - 1) : more[i] = st.lines[i]
    BY <1>1, <1>2, <1>4, <2>1
  <2>3. PICK next : next = AddBlock(st, c, max)
    OBVIOUS
  <2>4. next = [st EXCEPT !.lines = more, !.total = st.total + c.size]
    BY <1>4, <2>1, <2>3 DEF AddBlock
  <2>5. PICK x \in Int : x = st.total + c.size
    BY <1>1 DEF Found
  <2>6. next \in [lines: Seq(Found), total: Int, open: BOOLEAN] /\ next.lines = more /\ next.open
    BY <1>1, <1>4, <2>2, <2>4, <2>5
  <2>7. \A i \in 1..k : more[i] = found[i]
    <3>1. \A i \in 1..k : i = k \/ i \in 1..(k - 1)
      OBVIOUS
    <3>2. k - 1 = Len(st.lines)
      BY <1>1, <1>4
    <3> QED
      BY <1>1, <2>2, <3>1, <3>2
  <2>8. Laid(found, k, next)
    BY <2>2, <2>6, <2>7 DEF Laid
  <2> QED
    BY <2>3, <2>8
<1>5. CASE st.open /\ ~ Fits(st.lines, st.total, c.size, max)
  <2>1. st.lines # <<>>
    BY <1>5 DEF Fits
  <2>2. PICK next : next = AddBlock(st, c, max)
    OBVIOUS
  <2>3. next = [st EXCEPT !.open = FALSE]
    BY <1>5, <2>2 DEF AddBlock
  <2>4. next \in [lines: Seq(Found), total: Int, open: BOOLEAN] /\ next.lines = st.lines /\ ~ next.open
    BY <1>1, <2>3
  <2>5. Laid(found, k, next)
    BY <1>1, <1>2, <2>1, <2>4 DEF Laid
  <2> QED
    BY <2>2, <2>5
<1> QED
  BY <1>3, <1>4, <1>5

LEMMA LayingFold ==
    ASSUME NEW found, NEW max
    PROVE  format_chunks_for_prompt(found, max)
              = Laying!Fold(<<max, found>>, [lines |-> <<>>, total |-> 0, open |-> TRUE], found).lines
<1>1. <<max, found>>[1] = max
  OBVIOUS
<1> QED
  BY <1>1 DEF format_chunks_for_prompt, Laying!Fold, Laying!Highest, FoldLeft, MapThenFoldSet, Max

LEMMA ShownAre ==
    ASSUME NEW found \in Seq(Found), NEW max, NEW shown, shown = format_chunks_for_prompt(found, max)
    PROVE  IsPrefix(shown, found) /\ (found # <<>> => shown # <<>>)
<1>1. PICK n \in Nat : n = Len(found) /\ DOMAIN found = 1..n
  OBVIOUS
<1>2. PICK env : env = <<max, found>>
  OBVIOUS
<1>3. env[1] = max /\ env[2] = found
  BY <1>2
<1>4. PICK base : base = [lines |-> <<>>, total |-> 0, open |-> TRUE]
  OBVIOUS
<1>5. PICK end : end = Laying!Fold(env, base, found)
  OBVIOUS
<1>6. shown = end.lines
  BY <1>2, <1>4, <1>5, LayingFold
<1>7. Laid(found, n, end)
  <2>1. Laid(found, 0, base)
    BY <1>4 DEF Laid
  <2>2. \A k \in 1..n : \A st : Laid(found, k - 1, st) => Laid(found, k, AddBlock(st, found[k], max))
    <3>1. \A k \in 1..n : k \in Nat \ {0} /\ found[k] \in Found
      BY <1>1
    <3> QED
      BY <3>1, OneMoreLaid
  <2>3. Laid(env[2], 0, base)
    BY <1>3, <2>1
  <2>4. \A k \in 1..n : \A st :
           Laid(env[2], k - 1, st) => Laid(env[2], k, AddBlock(st, found[k], env[1]))
    BY <1>3, <2>2
  <2>5. Laid(env[2], n, Laying!Fold(env, base, found))
    BY <1>1, <2>3, <2>4, Laying!FoldInduction
  <2> QED
    BY <1>3, <1>5, <2>5
<1>8. PICK m \in Nat : m = Len(shown)
  BY <1>6, <1>7 DEF Laid
<1>9. shown \in Seq(Found) /\ m <= n /\ \A i \in 1..m : shown[i] = found[i]
  BY <1>6, <1>7, <1>8 DEF Laid
<1>10. IsPrefix(shown, found)
  <2>1. SubSeq(shown, 1, m) = SubSeq(found, 1, m)
    BY <1>1, <1>8, <1>9
  <2> QED
    BY <1>1, <1>8, <1>9, <2>1 DEF IsPrefix
<1>11. found # <<>> => shown # <<>>
  <2>1. SUFFICES ASSUME found # <<>> PROVE shown # <<>>
    OBVIOUS
  <2>2. n # 0
    BY <1>1, <2>1
  <2>3. end.open => m # 0
    BY <1>6, <1>7, <1>8, <2>2 DEF Laid
  <2>4. ~ end.open => end.lines # <<>>
    BY <1>7 DEF Laid
  <2> QED
    BY <1>6, <1>8, <1>9, <2>3, <2>4
<1> QED
  BY <1>10, <1>11

LEMMA CustomersAnswered ==
    ASSUME TypeInv, Next, topic = "customers"
    PROVE  CustomersRight(result', ProcessExtract(given.candidates))
<1>1. result' = compute_customer_match_score(given.candidates)
  <2>1. MatchCustomer
    BY TopicStep
  <2> QED
    BY <2>1 DEF MatchCustomer, Compute
<1>2. given.candidates \in Seq(Entries)
  BY InputsAssumption DEF TypeInv, MatchesOK, Entries
<1> QED
  BY <1>1, <1>2, CustomersAreRight

LEMMA PaymentsAnswered ==
    ASSUME TypeInv, Next, topic = "payments"
    PROVE  PaymentsRight(result', given.payment, given.invoices)
<1>1. result' = compute_payment_match_score(given.payment, given.invoices)
  <2>1. MatchPayment
    BY TopicStep
  <2> QED
    BY <2>1 DEF MatchPayment, Compute
<1>2. /\ given.payment.amount \in Int /\ given.payment.date \in SUBSET Int
      /\ given.invoices \in Seq(OpenInvoices)
  BY InputsAssumption DEF TypeInv, MatchesOK, OpenInvoices
<1> QED
  BY <1>1, <1>2, PaymentsAreRight

\* What MatchesRanked says of a query.
RetrievalRight(r) ==
    /\ IsPrefix(r.shown, r.found)
    /\ r.found # <<>> => r.shown # <<>>
    /\ Falling(r.found)

LEMMA RetrievalAnswered ==
    ASSUME TypeInv, Next, topic = "retrieval"
    PROVE  RetrievalRight(result')
<1>1. PICK found : found = retrieve(given.chunks, given.embedded, given.top_k)
  OBVIOUS
<1>2. PICK shown : shown = format_chunks_for_prompt(found, given.max)
  OBVIOUS
<1>3. result' = [found |-> found, shown |-> shown]
  <2>1. Retrieve
    BY TopicStep
  <2> QED
    BY <1>1, <1>2, <2>1 DEF Retrieve, Compute
<1>4. given.chunks \in Seq(TextChunks) /\ given.top_k \in Nat
  BY InputsAssumption DEF TypeInv, TextsOK, TextChunks
<1>5. found \in Seq(Found) /\ Falling(found)
  BY <1>1, <1>4, RetrievedAre
<1>6. IsPrefix(shown, found) /\ (found # <<>> => shown # <<>>)
  BY <1>2, <1>5, ShownAre
<1>7. PICK r : r = result'
  OBVIOUS
<1>8. r.found = found /\ r.shown = shown
  BY <1>3, <1>7
<1>9. RetrievalRight(r)
  BY <1>5, <1>6, <1>8 DEF RetrievalRight
<1> QED
  BY <1>7, <1>9

\* Whatever they are chosen from, suggestions and blocks come by falling score; a customer
\* comes once, with the lowest score found for any of its names.
THEOREM MatchesAreRanked == Spec => []MatchesRanked
<1>1. Init => MatchesRanked
  BY DEF Init, MatchesRanked, Answered
<1>2. TypeInv /\ MatchesRanked /\ [Next]_calcVars => MatchesRanked'
  <2> SUFFICES ASSUME TypeInv, MatchesRanked, [Next]_calcVars PROVE MatchesRanked'
    OBVIOUS
  <2>1. CASE UNCHANGED calcVars
    BY <2>1 DEF MatchesRanked, Answered, calcVars
  <2>2. CASE Next
    <3>1. topic' = topic /\ given' = given
      BY <2>2, StepAnswers
    <3>2. CASE topic = "customers"
      BY <2>2, <3>1, <3>2, CustomersAnswered DEF MatchesRanked, CustomersRight, Answered
    <3>3. CASE topic = "payments"
      BY <2>2, <3>1, <3>3, PaymentsAnswered DEF MatchesRanked, PaymentsRight, Answered
    <3>4. CASE topic = "retrieval"
      BY <2>2, <3>1, <3>4, RetrievalAnswered DEF MatchesRanked, RetrievalRight, Answered
    <3>5. CASE topic \notin {"customers", "payments", "retrieval"}
      BY <3>1, <3>5 DEF MatchesRanked, Answered
    <3> QED
      BY <3>2, <3>3, <3>4, <3>5
  <2> QED
    BY <2>1, <2>2
<1> QED
  BY <1>1, <1>2, TypeOK, PTL DEF Spec

=============================================================================
