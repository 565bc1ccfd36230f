----------------------------- MODULE MCBalancer -----------------------------
(* Instances of EventDrivenBalancer for TLC. *)
EXTENDS EventDrivenBalancer

Tree == INSTANCE BalancerTree

MCParentRank == [r \in Ranks |-> Tree!ParentRankOf(r, NumRanks)]
MCChildRanks == [r \in Ranks |-> Tree!ChildRanksOf(r, NumRanks)]

\* Every job of non-zero demand its demand: enough to tell event maps apart.
MCVolumesOf(m) == [j \in Jobs |-> IF m[j] = NoEvent THEN 0 ELSE m[j].demand]

=============================================================================
