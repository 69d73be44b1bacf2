-------------------------------- MODULE Lists --------------------------------
(***************************************************************************)
(* Lists as the calculations go through them: summed, filtered, ranked by  *)
(* their scores and cut short.  Sums and filters are folds, which the      *)
(* proofs can open; SelectSeq is built into the provers without a meaning. *)
(***************************************************************************)
EXTENDS Integers, Sequences, FiniteSets, SequencesExt

SumOver(numbers) == FoldLeft(+, 0, numbers)

SumOf(value(_), s) == SumOver([i \in DOMAIN s |-> value(s[i])])

\* The numbers of I up to n, in their order.
Places(n, I) ==
    FoldLeft(LAMBDA out, i : IF i \in I THEN Append(out, i) ELSE out, <<>>, [i \in 1..n |-> i])

\* The elements of s at the places in I.
Kept(s, I) == LET at == Places(Len(s), I) IN [j \in DOMAIN at |-> s[at[j]]]

\* The elements of s that pass the test.
Where(s, Test(_)) == Kept(s, {i \in DOMAIN s : Test(s[i])})

\* The ranks of s: 1 is the highest score, and of equal ones the first.
Rank(s) ==
    [i \in DOMAIN s |->
        1 + Cardinality({j \in DOMAIN s : s[j].score > s[i].score \/ (s[j].score = s[i].score /\ j < i)})]

\* The elements of s by falling score, equal ones in the order of s:
\* sorted(..., reverse=True) is stable.
ByScore(s) == [p \in DOMAIN s |-> s[CHOOSE i \in DOMAIN s : Rank(s)[i] = p]]

FirstOf(s, n) == SubSeq(s, 1, IF Len(s) < n THEN Len(s) ELSE n)

=============================================================================
