----------------------------- MODULE EventOrder ------------------------------
(***************************************************************************)
(* The order in which the events of a job reach rank 0, and what it means  *)
(* for the log: the inductive invariant that EventOrderProofs              *)
(* proves for every tree, every number of jobs and every bound. Apart from *)
(* the probe all events of a job come from the rank of its root node. They *)
(* move along the path from there to rank 0, where newer ones absorb older *)
(* ones but never pass them, and none exists twice.                        *)
(***************************************************************************)
EXTENDS EventDrivenBalancer

\* The ranks from h up to rank 0: the smallest set that has h and all parents
ClosedUpwards(S) == \A c \in S : c # 0 => ParentRank[c] \in S
Path(h) == {a \in Ranks : \A S \in SUBSET Ranks : h \in S /\ ClosedUpwards(S) => a \in S}

\* The event maps on their way upwards at rank r: the messages u[r] it has sent and its
\* parent has not handled, oldest first, and after them its diffs D[r]
Places(u, r) == 1..(Len(u[r]) + 1)
At(u, D, r, i) == IF i <= Len(u[r]) THEN u[r][i] ELSE D[r]

\* The events of job j on their way, and those that rank 0 has put into the log
Pend(u, D, j) == {e \in Event : \E r \in Ranks : \E i \in Places(u, r) : At(u, D, r, i)[j] = e}
LogEvents(j) == {e \in Event : \E k \in DOMAIN log : log[k].events[j] = e}

\* Place i of rank r is closer to rank 0 than place k of rank q, if both are on one path
Ahead(r, i, q, k) == r < q \/ (r = q /\ i < k)

\* All events of job j on their way are on the path from rank o, older ones ahead
OrderedFrom(u, D, j, o) ==
    /\ \A r \in Ranks : \A i \in Places(u, r) : At(u, D, r, i)[j] # NoEvent => r \in Path(o)
    /\ \A r, q \in Ranks : \A i \in Places(u, r), k \in Places(u, q) :
          /\ Ahead(r, i, q, k)
          /\ At(u, D, r, i)[j] # NoEvent /\ At(u, D, q, k)[j] # NoEvent
          => At(u, D, r, i)[j].epoch < At(u, D, q, k)[j].epoch

\* A termination event is recognised by its epoch, by removeOldZeros as by insertIfNovel
WellFormed(e) == e.epoch = TermEpoch <=> e.demand = 0 /\ e.priority = "zero"

\* The events of job j on their way are in order, newer than those logged (L) and not newer
\* than the newest one (of epoch n, 0 if there is none), which is on its way or logged; they
\* come from rank h if it is known
Flows(j, u, D, L, n, h) ==
    /\ \E o \in Ranks : (h # NoRank => o = h) /\ OrderedFrom(u, D, j, o)
    /\ \A e \in Pend(u, D, j) : e.epoch <= n /\ WellFormed(e) /\ \A f \in L : f.epoch < e.epoch
    /\ n # 0 => \E e \in Pend(u, D, j) \cup L : e.epoch = n

Placed(j) == jobState[j] \in {"committed", "running", "dormant", "done"}
Newest(j) == IF jobState[j] = "new" THEN 0 ELSE LastEpoch(j)
Base(j) == IF Placed(j) THEN home[j] ELSE NoRank

\* The epoch counter of a job exists only at its root node
EpochAtHome(j) ==
    \A r \in Ranks : rootEpoch[r][j] # 0 =>
        jobState[j] \in {"committed", "running", "dormant"} /\ home[j] = r

\* The log has the events of job j in order, rank 0 balances with the last of them, and
\* after the termination event with none
LogInOrder(j) ==
    /\ \A e \in LogEvents(j) : e.epoch <= Newest(j) /\ WellFormed(e)
    /\ \A i, k \in DOMAIN log :
          i < k /\ log[i].events[j] # NoEvent /\ log[k].events[j] # NoEvent =>
              log[i].events[j].epoch < log[k].events[j].epoch
    /\ \A k \in DOMAIN log : log[k].result[j] \in LogEvents(j) \cup {NoEvent}
    /\ \A i, k \in DOMAIN log :
          i <= k /\ log[i].events[j] # NoEvent /\ log[i].events[j].epoch = TermEpoch =>
              log[k].result[j] = NoEvent
    /\ states[0][j] \in LogEvents(j) \cup {NoEvent}
    /\ \A e \in LogEvents(j) :
          IF e.epoch = TermEpoch THEN states[0][j] = NoEvent
          ELSE \/ states[0][j] # NoEvent /\ e.epoch <= states[0][j].epoch
               \/ \E f \in LogEvents(j) : f.epoch = TermEpoch

\* All of this for job j. It is not placed before rank 0 knows it.
JobInOrder(j) ==
    /\ Flows(j, up, diffs, LogEvents(j), Newest(j), Base(j))
    /\ LogInOrder(j)
    /\ EpochAtHome(j)
    /\ Placed(j) \/ (jobState[j] = "probed" /\ rootRequest[j] = NoRank) => LogEvents(j) # {}

\* The inductive invariant
EventsInOrder == up[0] = <<>> /\ \A j \in Jobs : JobInOrder(j)
=============================================================================
