------------------------------ MODULE MCWorker ------------------------------
(* Instances of Worker for TLC. *)
EXTENDS Worker

\* Consecutive ranks, the same for all jobs; Worker needs no more than some fixed choice
MCPermutation == [j \in Jobs |-> [i \in 0..(Cardinality(Workers) - 1) |-> (i + 1) % Cardinality(Workers)]]
MCDemand == [j \in Jobs |-> Cardinality(Workers)]
\* A job that leaves one worker idle
MCDemandLess == [j \in Jobs |-> Cardinality(Workers) - 1]
=============================================================================
