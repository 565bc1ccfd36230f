--------------------------- MODULE MCMessageQueue ---------------------------
(* Instances of MessageQueue for TLC. *)
EXTENDS MessageQueue

CONSTANTS r1, r2

\* One rank sends to the other, which also sends to itself.
MCRoutes == {<<r1, r2>>, <<r2, r2>>}
=============================================================================
