---------------------------- MODULE BalancerTree ----------------------------
(***************************************************************************)
(* The reduction tree over n ranks that the constructor of                 *)
(* EventDrivenBalancer builds, by the loops of the code.                   *)
(***************************************************************************)
EXTENDS Naturals, FiniteSets

\* Powers of two up to the first one that is at least n.
Exponents(n) ==
    LET pow[i \in 0..n] == IF i = 0 THEN 1 ELSE 2 * pow[i - 1]
    IN {pow[i] : i \in {k \in 0..n : k = 0 \/ pow[k - 1] < n}}

\* The first exp = 2, 4, ... with rank % exp = exp / 2, and the rank below it.
ParentRankOf(rank, n) ==
    IF rank = 0 THEN 0
    ELSE LET fits == {e \in Exponents(n) \ {1} : rank % e = e \div 2 /\ rank >= e \div 2}
             exp == CHOOSE e \in fits : \A f \in fits : e <= f
         IN rank - exp \div 2

\* One child for every exp = size', ..., 4, 2 that divides the rank.
ChildRanksOf(rank, n) ==
    {rank + e \div 2 : e \in {x \in Exponents(n) \ {1} : rank % x = 0 /\ rank + x \div 2 < n}}
=============================================================================
