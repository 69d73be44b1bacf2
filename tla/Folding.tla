------------------------------- MODULE Folding -------------------------------
(***************************************************************************)
(* What holds of a fold and of a chain of values each computed from the    *)
(* one before it, whatever the operator.  The provers cannot apply a fact  *)
(* about every operator to one of them; a module that needs the facts for  *)
(* an operator of its own takes them from an INSTANCE of this one.  env    *)
(* stands for what else the operator looks at.                             *)
(***************************************************************************)
EXTENDS Integers, WellFoundedInduction, TLAPS

CONSTANTS Op(_, _, _),     \* env, the value so far, the next element
          Holds(_, _, _)   \* env, how many elements were folded, the value so far

Highest(S) == CHOOSE x \in S : \A y \in S : x >= y

\* FoldLeft of the community modules, written out.
Fold(env, base, s) ==
    LET iter[S \in SUBSET DOMAIN s] ==
            IF S = {} THEN base
            ELSE LET x == Highest(S) IN Op(env, iter[S \ {x}], s[x])
    IN  iter[DOMAIN s]

\* r lists the values of a fold of n elements of s, from the base on.
Run(env, base, n, s, r) ==
    r[0] = base /\ \A k \in 1..n : r[k] = Op(env, r[k - 1], s[k])

LessNat == {p \in Nat \X Nat : p[1] < p[2]}

LEMMA LessNatWellFounded == IsWellFoundedOn(LessNat, Nat)
<1>1. LessNat = OpToRel(<, Nat)
  BY DEF LessNat, OpToRel
<1> QED
  BY <1>1, NatLessThanWellFounded

\* Induction, as a fact about a set.
LEMMA Induction ==
    ASSUME NEW S, 0 \in S, \A n \in Nat : n \in S => n + 1 \in S
    PROVE  Nat \subseteq S
<1>1. SUFFICES ASSUME Nat \ S # {} PROVE FALSE
  OBVIOUS
<1>2. PICK n \in Nat \ S : \A m \in Nat \ S : ~(<<m, n>> \in LessNat)
  BY <1>1, LessNatWellFounded, WFMin
<1>3. n # 0 /\ n - 1 \in Nat
  BY <1>2
<1>4. n - 1 \in S
  <2>1. <<n - 1, n>> \in LessNat
    BY <1>3 DEF LessNat
  <2> QED
    BY <1>2, <1>3, <2>1
<1>5. (n - 1) + 1 \in S
  BY <1>3, <1>4
<1> QED
  BY <1>2, <1>5

\* The equation of Fold, on the subsets of 1..k.
Solves(g, env, base, k, s) ==
    \A S \in SUBSET (1..k) :
        g[S] = IF S = {} THEN base ELSE Op(env, g[S \ {Highest(S)}], s[Highest(S)])

LEMMA HighestIs ==
    ASSUME NEW k \in Nat, NEW S \in SUBSET (1..(k + 1)), k + 1 \in S
    PROVE  Highest(S) = k + 1
<1>1. \A y \in S : y \in Int /\ k + 1 >= y
  OBVIOUS
<1>2. \A x \in S : (\A y \in S : x >= y) => x = k + 1
  BY <1>1
<1> QED
  BY <1>1, <1>2 DEF Highest

LEMMA Solvable ==
    ASSUME NEW env, NEW base, NEW s, NEW n \in Nat
    PROVE  \E g : Solves(g, env, base, n, s)
<1> DEFINE T == {k \in Nat : \E g : Solves(g, env, base, k, s)}
<1>1. 0 \in T
  <2>1. Solves([S \in {{}} |-> base], env, base, 0, s)
    BY DEF Solves
  <2> QED
    BY <2>1
<1>2. ASSUME NEW k \in Nat, k \in T PROVE k + 1 \in T
  <2>1. PICK g : Solves(g, env, base, k, s)
    BY <1>2
  <2> DEFINE h == [S \in SUBSET (1..(k + 1)) |->
                      IF k + 1 \in S THEN Op(env, g[S \ {k + 1}], s[k + 1]) ELSE g[S]]
  <2>2. ASSUME NEW S \in SUBSET (1..(k + 1))
        PROVE  h[S] = IF S = {} THEN base ELSE Op(env, h[S \ {Highest(S)}], s[Highest(S)])
    <3>1. CASE k + 1 \in S
      <4>1. Highest(S) = k + 1
        BY <3>1, HighestIs
      <4>2. S \ {k + 1} \in SUBSET (1..(k + 1)) /\ k + 1 \notin S \ {k + 1}
        OBVIOUS
      <4>3. h[S \ {k + 1}] = g[S \ {k + 1}]
        BY <4>2
      <4>4. h[S] = Op(env, g[S \ {k + 1}], s[k + 1])
        BY <3>1
      <4> QED
        BY <3>1, <4>1, <4>3, <4>4
    <3>2. CASE k + 1 \notin S
      <4>1. S \in SUBSET (1..k)
        BY <3>2
      <4>2. S \ {Highest(S)} \in SUBSET (1..(k + 1)) /\ k + 1 \notin S \ {Highest(S)}
        BY <3>2
      <4>3. h[S] = g[S] /\ h[S \ {Highest(S)}] = g[S \ {Highest(S)}]
        BY <3>2, <4>2
      <4>4. g[S] = IF S = {} THEN base ELSE Op(env, g[S \ {Highest(S)}], s[Highest(S)])
        BY <2>1, <4>1 DEF Solves
      <4> QED
        BY <4>3, <4>4
    <3> QED
      BY <3>1, <3>2
  <2>3. Solves(h, env, base, k + 1, s)
    <3> HIDE DEF h
    <3> QED
      BY <2>2 DEF Solves
  <2> QED
    BY <2>3
<1>3. Nat \subseteq T
  <2> HIDE DEF T
  <2> QED
    BY <1>1, <1>2, Induction
<1> QED
  BY <1>3

\* A fold of n elements is the last of the values that a run of it lists.
THEOREM FoldRuns ==
    ASSUME NEW env, NEW base, NEW s, NEW n \in Nat, DOMAIN s = 1..n
    PROVE  \E r : Run(env, base, n, s, r) /\ Fold(env, base, s) = r[n]
<1> DEFINE Body(g) == [S \in SUBSET DOMAIN s |->
                          IF S = {} THEN base
                          ELSE Op(env, g[S \ {Highest(S)}], s[Highest(S)])]
<1> DEFINE f == CHOOSE g : g = Body(g)
<1>1. Fold(env, base, s) = f[DOMAIN s]
  BY DEF Fold
<1>2. PICK g : Solves(g, env, base, n, s)
  BY Solvable
<1> DEFINE h == [S \in SUBSET DOMAIN s |-> g[S]]
<1>3. h = Body(h)
  <2>1. ASSUME NEW S \in SUBSET DOMAIN s PROVE h[S] = Body(h)[S]
    <3>1. S \ {Highest(S)} \in SUBSET DOMAIN s /\ S \in SUBSET (1..n)
      OBVIOUS
    <3>2. g[S] = IF S = {} THEN base ELSE Op(env, g[S \ {Highest(S)}], s[Highest(S)])
      BY <3>1, <1>2 DEF Solves
    <3> QED
      BY <3>1, <3>2
  <2> QED
    BY <2>1
<1>4. f = Body(f)
  <2> HIDE DEF h, Body
  <2> QED
    BY <1>3
<1>5. \A S \in SUBSET DOMAIN s :
         f[S] = IF S = {} THEN base ELSE Op(env, f[S \ {Highest(S)}], s[Highest(S)])
  <2> HIDE DEF f
  <2> QED
    BY <1>4
<1> DEFINE r == [k \in 0..n |-> f[1..k]]
<1>6. r[0] = base
  <2>1. 1..0 = {} /\ {} \in SUBSET DOMAIN s /\ 0 \in 0..n
    OBVIOUS
  <2>2. f[{}] = base
    <3> HIDE DEF f
    <3> QED
      BY <1>5, <2>1
  <2> HIDE DEF f
  <2> QED
    BY <2>1, <2>2
<1>7. ASSUME NEW k \in 1..n PROVE r[k] = Op(env, r[k - 1], s[k])
  <2>1. Highest(1..k) = k
    <3>1. k - 1 \in Nat /\ 1..k \in SUBSET (1..((k - 1) + 1)) /\ (k - 1) + 1 \in 1..k
      OBVIOUS
    <3>2. Highest(1..k) = (k - 1) + 1
      BY <3>1, HighestIs
    <3> QED
      BY <3>2
  <2>2. 1..k \in SUBSET DOMAIN s /\ 1..k # {} /\ (1..k) \ {k} = 1..(k - 1)
    OBVIOUS
  <2>3. f[1..k] = Op(env, f[1..(k - 1)], s[k])
    <3> HIDE DEF f
    <3> QED
      BY <1>5, <2>1, <2>2
  <2>4. k \in 0..n /\ k - 1 \in 0..n
    OBVIOUS
  <2> HIDE DEF f
  <2> QED
    BY <2>3, <2>4
<1>8. Fold(env, base, s) = r[n]
  <2>1. n \in 0..n
    OBVIOUS
  <2> HIDE DEF f
  <2> QED
    BY <1>1, <2>1
<1> HIDE DEF r
<1> QED
  BY <1>6, <1>7, <1>8 DEF Run

\* What holds of the base and survives each element holds of every value of a run.
THEOREM RunInduction ==
    ASSUME NEW env, NEW base, NEW s, NEW n \in Nat, NEW r, Run(env, base, n, s, r),
           Holds(env, 0, base),
           \A k \in 1..n : \A x : Holds(env, k - 1, x) => Holds(env, k, Op(env, x, s[k]))
    PROVE  \A k \in 0..n : Holds(env, k, r[k])
<1> DEFINE T == {k \in Nat : k \in 0..n => Holds(env, k, r[k])}
<1>1. 0 \in T
  BY DEF Run
<1>2. ASSUME NEW k \in Nat, k \in T PROVE k + 1 \in T
  <2>1. SUFFICES ASSUME k + 1 \in 0..n PROVE Holds(env, k + 1, r[k + 1])
    OBVIOUS
  <2>2. k + 1 \in 1..n /\ (k + 1) - 1 = k /\ k \in 0..n
    BY <2>1
  <2>3. Holds(env, k, r[k])
    BY <1>2, <2>2
  <2>4. r[k + 1] = Op(env, r[k], s[k + 1])
    BY <2>2 DEF Run
  <2> QED
    BY <2>2, <2>3, <2>4
<1>3. Nat \subseteq T
  <2> HIDE DEF T
  <2> QED
    BY <1>1, <1>2, Induction
<1> QED
  BY <1>3

\* What holds of the base and survives each element holds of the whole fold.
THEOREM FoldInduction ==
    ASSUME NEW env, NEW base, NEW s, NEW n \in Nat, DOMAIN s = 1..n,
           Holds(env, 0, base),
           \A k \in 1..n : \A x : Holds(env, k - 1, x) => Holds(env, k, Op(env, x, s[k]))
    PROVE  Holds(env, n, Fold(env, base, s))
<1>1. PICK r : Run(env, base, n, s, r) /\ Fold(env, base, s) = r[n]
  BY FoldRuns
<1>2. \A k \in 0..n : Holds(env, k, r[k])
  BY <1>1, RunInduction
<1>3. n \in 0..n
  OBVIOUS
<1> QED
  BY <1>1, <1>2, <1>3

=============================================================================
