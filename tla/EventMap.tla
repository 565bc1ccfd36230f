------------------------------ MODULE EventMap ------------------------------
(***************************************************************************)
(* The balancer's event maps (balancing/event_map.hpp): for every job at   *)
(* most one event, the newest one known.  A map is a function from jobs to *)
(* events or NoEvent.  An event's epoch is a counter kept by the root node *)
(* of its job; TermEpoch stands for INT_MAX, the epoch of the last event.  *)
(***************************************************************************)
EXTENDS Naturals

CONSTANTS
    Jobs,       \* job ids
    Demands,    \* demands a job's root may announce
    TermEpoch,  \* INT_MAX: the epoch of a job's termination event
    NoEvent     \* absence of an entry

\* Priorities: a terminated job, a probed job (0.01), a job with a description.
Priorities == {"zero", "probe", "job"}

Event == [epoch : 1..TermEpoch, demand : Demands \cup {0, 1}, priority : Priorities]

EventMaps == [Jobs -> Event \cup {NoEvent}]

EmptyMap == [j \in Jobs |-> NoEvent]

ASSUME EventMapAssumption ==
    /\ TermEpoch \in Nat \ {0}
    /\ Demands \subseteq Nat
    /\ NoEvent \notin Event

Dominates(e, f) == e.epoch > f.epoch

\* EventMap::insertIfNovel would store event e of a job whose entry is old.
IsNovel(e, old) == e # NoEvent /\ (old = NoEvent \/ Dominates(e, old))

\* EventMap::insertIfNovel
InsertIfNovel(m, j, e) == IF IsNovel(e, m[j]) THEN [m EXCEPT ![j] = e] ELSE m

\* EventMap::updateBy
UpdateBy(m, other) ==
    [j \in Jobs |-> IF IsNovel(other[j], m[j]) THEN other[j] ELSE m[j]]

\* Mutation of FilterBy: forgets to compare the epochs.
FilterBy_AnyEpoch(m, s) ==
    [j \in Jobs |-> IF m[j] # NoEvent /\ s[j] # NoEvent THEN NoEvent ELSE m[j]]

\* EventMap::filterBy: drop what s already knows.  The code first calls abort() if s has
\* another event of the same epoch; EventIdentity in EventDrivenBalancer excludes that.
FilterBy(m, s) ==
    [j \in Jobs |-> IF m[j] # NoEvent /\ s[j] # NoEvent /\ s[j].epoch >= m[j].epoch
                    THEN NoEvent ELSE m[j]]

\* Mutation of RemoveOldZeros: terminated jobs are kept.
RemoveOldZeros_Keeps(m) == m

\* EventMap::removeOldZeros
RemoveOldZeros(m) ==
    [j \in Jobs |-> IF m[j] # NoEvent /\ m[j].demand = 0 /\ m[j].priority = "zero"
                    THEN NoEvent ELSE m[j]]
=============================================================================
