------------------------------ MODULE Channels ------------------------------
(***************************************************************************)
(* What the message queue promises its users: between two ranks, messages  *)
(* sent in one piece arrive once and in the order in which they were sent; *)
(* a message sent in fragments arrives once, at any time; one that its     *)
(* sender has withdrawn may arrive or vanish. The channels `net` and       *)
(* `bulk` of module Worker are channels of this kind.                      *)
(***************************************************************************)
EXTENDS Sequences

CONSTANTS
    Ranks,
    Pairs,     \* pairs <<source, destination>> of ranks
    Messages

VARIABLES
    ordered,    \* [source, destination]: messages in one piece, oldest first
    bulk,       \* [source, destination]: set of messages in fragments
    withdrawn,  \* set of messages that their senders have withdrawn
    received    \* [rank]: the messages handed to the callbacks, in order

vars == <<ordered, bulk, withdrawn, received>>

Init ==
    /\ ordered = [p \in Pairs |-> <<>>]
    /\ bulk = [p \in Pairs |-> {}]
    /\ withdrawn = {}
    /\ received = [r \in Ranks |-> <<>>]

Post(p, m) ==
    /\ ordered' = [ordered EXCEPT ![p] = Append(@, m)]
    /\ UNCHANGED <<bulk, withdrawn, received>>

PostBulk(p, m) ==
    /\ bulk' = [bulk EXCEPT ![p] = @ \union {m}]
    /\ UNCHANGED <<ordered, withdrawn, received>>

Withdraw(m) ==
    /\ withdrawn' = withdrawn \union {m}
    /\ UNCHANGED <<ordered, bulk, received>>

Deliver(p) ==
    /\ ordered[p] # <<>>
    /\ ordered' = [ordered EXCEPT ![p] = Tail(@)]
    /\ received' = [received EXCEPT ![p[2]] = Append(@, Head(ordered[p]))]
    /\ UNCHANGED <<bulk, withdrawn>>

DeliverBulk(p, m) ==
    /\ m \in bulk[p]
    /\ bulk' = [bulk EXCEPT ![p] = @ \ {m}]
    /\ received' = [received EXCEPT ![p[2]] = Append(@, m)]
    /\ UNCHANGED <<ordered, withdrawn>>

Vanish(p, m) ==
    /\ m \in bulk[p] /\ m \in withdrawn
    /\ bulk' = [bulk EXCEPT ![p] = @ \ {m}]
    /\ UNCHANGED <<ordered, withdrawn, received>>

Next ==
    \/ \E p \in Pairs : Deliver(p)
    \/ \E m \in Messages : Withdraw(m)
    \/ \E p \in Pairs, m \in Messages :
         Post(p, m) \/ PostBulk(p, m) \/ DeliverBulk(p, m) \/ Vanish(p, m)

Spec == Init /\ [][Next]_vars
=============================================================================
