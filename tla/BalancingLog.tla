---------------------------- MODULE BalancingLog ----------------------------
(***************************************************************************)
(* What the distributed balancer promises its users: it behaves like one   *)
(* log of balancing results.  Rank 0 appends the result of each balancing  *)
(* epoch, and every rank steps through the log in order, without skipping  *)
(* or repeating an entry and at its own pace.  EventDrivenBalancer         *)
(* implements this although only events are sent and every rank computes   *)
(* the results by itself.                                                  *)
(***************************************************************************)
EXTENDS EventMap, Sequences

CONSTANTS Ranks, NoVolumes

VARIABLES
    log,        \* sequence of balancing results
    applied,    \* number of results each rank has taken over
    view,       \* the events each rank balances with
    volumes     \* the volumes each rank has assigned to the jobs

vars == <<log, applied, view, volumes>>

Init ==
    /\ log = <<>>
    /\ applied = [r \in Ranks |-> 0]
    /\ view = [r \in Ranks |-> EmptyMap]
    /\ volumes = [r \in Ranks |-> NoVolumes]

\* Rank r takes over the n-th result.
TakeOver(r, n) ==
    /\ applied' = [applied EXCEPT ![r] = n]
    /\ view' = [view EXCEPT ![r] = log'[n].result]
    /\ volumes' = [volumes EXCEPT ![r] = log'[n].volumes]

\* Rank 0 balances with a new batch of events.
Lead ==
    /\ applied[0] = Len(log)
    /\ Len(log') = Len(log) + 1
    /\ \A n \in DOMAIN log : log'[n] = log[n]
    /\ LET new == log'[Len(log) + 1]
       IN new.result = RemoveOldZeros(UpdateBy(view[0], new.events))
    /\ TakeOver(0, Len(log) + 1)

\* Another rank takes over the next result.
Follow(r) ==
    /\ applied[r] < Len(log)
    /\ UNCHANGED log
    /\ TakeOver(r, applied[r] + 1)

Next == Lead \/ \E r \in Ranks \ {0} : Follow(r)

Spec == Init /\ [][Next]_vars
=============================================================================
