-------------------------- MODULE VolumeCalculator --------------------------
(***************************************************************************)
(* How many workers each job gets (balancing/volume_calculator.hpp and     *)
(* balancing_entry.hpp).  A job's fair share is proportional to its        *)
(* priority; the calculator searches a common multiplier of the fair       *)
(* shares at which the jobs, each given at least one worker and at most    *)
(* its demand, use all available workers.  Jobs whose volume is settled in *)
(* the current search range are moved to the front of _entries             *)
(* ("dismissed"); when every other job is settled up to one worker, the    *)
(* remaining workers go one by one to the jobs in order of priority.       *)
(*                                                                          *)
(* A multiplier a is represented by a * available / (sum of priorities),   *)
(* so that job j's share at it is its product with j's priority, as a      *)
(* multiple of 1/Grid (the doubles of the code).                            *)
(***************************************************************************)
EXTENDS Integers, Sequences, FiniteSets, SequencesExt, FiniteSetsExt, TLC

CONSTANTS
    JobIds,         \* job ids (natural numbers, which also order the hashes)
    Demands,        \* demands of the events
    Priorities,     \* priorities of the events
    Available,      \* possible values of _available_volume
    Grid            \* resolution of the multipliers

ASSUME CalculatorAssumption ==
    /\ JobIds \subseteq Nat /\ Demands \subseteq Nat
    /\ Priorities \subseteq Nat \ {0}
    /\ Available \subseteq Nat \ {0} /\ Grid \in Nat \ {0}

VARIABLES
    events,         \* the demand and priority of every job
    availVolume,    \* _available_volume
    entries,        \* _entries
    pc,             \* where calculateResult is
    lower, upper, mid,      \* range and point of the search
    center,         \* _center_of_mass_of_multiplier
    bestExcess, excessAtLeft,
    prevLb, prevUb, \* bounds of the previous evaluation
    dismissed,      \* _num_dismissed_jobs
    baseUtil,       \* _base_utilization
    util,           \* utilization at mid, summed up so far
    maxDiff,        \* _max_volume_diff_between_bounds
    next            \* index of the entry to evaluate next

search == <<lower, upper, mid, center, bestExcess, excessAtLeft>>
evaluation == <<prevLb, prevUb, dismissed, baseUtil, util, maxDiff, next>>
vars == <<events, availVolume, entries, pc, search, evaluation>>

Positive == Nat \ {0}
Entry == [job : JobIds, demand : Positive, originalDemand : Positive, priority : Priorities,
          volumeLower : Positive, volume : Positive, volumeUpper : Positive]

\* BalancingEntry's constructor
NewEntry(j) == [job |-> j, demand |-> events[j].demand, originalDemand |-> events[j].demand,
                priority |-> events[j].priority, volumeLower |-> 1, volume |-> 1, volumeUpper |-> 1]

\* BalancingEntry::getVolume
GetVolume(e, multiplier) ==
    Max({1, Min({e.demand, (multiplier * e.priority) \div Grid})})

\* getFairShareMultiplierLowerBound, getFairShareMultiplierUpperBound
LowerBound(e) == Grid \div e.priority
UpperBound(e) == (e.demand * Grid) \div e.priority

\* EntryComparatorByPriority
Before(e, f) ==
    \/ e.priority > f.priority
    \/ e.priority = f.priority /\ e.originalDemand > f.originalDemand
    \/ e.priority = f.priority /\ e.originalDemand = f.originalDemand /\ e.job < f.job

\* sortRemainingEntries
SortRemaining(s, n) == SubSeq(s, 1, n) \o SortSeq(SubSeq(s, n + 1, Len(s)), Before)

SumOf(s, field) == FoldSeq(LAMBDA e, acc : e[field] + acc, 0, s)
-----------------------------------------------------------------------------
\* The jobs with a demand, in the order the event map yields them.
PositiveJobs(ev) == {j \in JobIds : ev[j].demand > 0}

\* The constructor
Init ==
    /\ events \in [JobIds -> [demand : Demands, priority : Priorities]]
    /\ availVolume \in Available
    /\ entries = [i \in 1..Cardinality(PositiveJobs(events)) |->
                     NewEntry(SetToSortSeq(PositiveJobs(events), <)[i])]
    /\ pc = "start"
    /\ lower = 0 /\ upper = 0 /\ mid = 0 /\ center = 0 /\ bestExcess = -1 /\ excessAtLeft = 0
    /\ prevLb = -1 /\ prevUb = -1 /\ dismissed = 0 /\ baseUtil = 0 /\ util = 0 /\ maxDiff = 0
    /\ next = 1

\* The demand of an entry capped at the largest volume the job can get
Capped(e) == [e EXCEPT !.demand = Min({@, availVolume - Len(entries) + 1})]

\* calculateResult: too many jobs
BailOut ==
    /\ pc = "start" /\ availVolume <= Len(entries)
    /\ pc' = "done"
    /\ UNCHANGED <<events, availVolume, entries, search, evaluation>>

\* calculateResult: sort, computeFairShares, and all demands can be met
FullDemands ==
    /\ pc = "start" /\ availVolume > Len(entries)
    /\ LET s == [i \in DOMAIN entries |-> Capped(SortRemaining(entries, 0)[i])] IN
          /\ SumOf(s, "demand") <= availVolume
          /\ entries' = [i \in DOMAIN s |-> [s[i] EXCEPT !.volume = s[i].demand]]
    /\ pc' = "done"
    /\ UNCHANGED <<events, availVolume, search, evaluation>>

\* calculateResult: sort, computeFairShares, and start the search
BeginSearch ==
    /\ pc = "start" /\ availVolume > Len(entries)
    /\ LET s == [i \in DOMAIN entries |-> Capped(SortRemaining(entries, 0)[i])]
           bounds == [i \in DOMAIN s |-> LowerBound(s[i]) + UpperBound(s[i])]
           lb == Min({LowerBound(s[i]) : i \in DOMAIN s})
           ub == Max({UpperBound(s[i]) : i \in DOMAIN s}) + 1
       IN /\ SumOf(s, "demand") > availVolume
          /\ entries' = [i \in DOMAIN s |-> [s[i] EXCEPT !.volumeLower = GetVolume(s[i], lb),
                                                         !.volumeUpper = GetVolume(s[i], ub)]]
          /\ lower' = lb /\ upper' = ub
          /\ center' = FoldSeq(+, 0, bounds) \div (2 * Len(s))
          /\ mid' = (availVolume * Grid) \div SumOf(s, "priority")
    /\ excessAtLeft' = availVolume - Len(entries)
    /\ pc' = "eval"
    /\ UNCHANGED <<events, availVolume, bestExcess, evaluation>>
-----------------------------------------------------------------------------
\* Mutation of DismissAndSwap: the priority stays in its place.
DismissAndSwap_KeepsPriority(i, e, k) ==
    LET f == entries[k] IN
    [entries EXCEPT ![i] = IF i = k THEN e ELSE [f EXCEPT !.priority = e.priority],
                    ![k] = IF i = k THEN e ELSE [e EXCEPT !.priority = f.priority]]

\* BalancingEntry::dismissAndSwapWith of the entries i (dismissed, e) and k
DismissAndSwap(i, e, k) ==
    IF i = k THEN [entries EXCEPT ![i] = e]
    ELSE LET f == entries[k] IN
         [entries EXCEPT
            ![i] = [f EXCEPT !.originalDemand = e.originalDemand],
            ![k] = [e EXCEPT !.originalDemand = f.originalDemand,
                             !.volumeLower = f.volumeLower, !.volumeUpper = f.volumeUpper]]

\* Mutation of Cached: the volumes at the first bounds are kept.
Cached_Never(e) == e

\* Mutation of Cached: the halves are mixed up.
Cached_WrongHalf(e) ==
    [e EXCEPT !.volumeUpper = IF upper = prevUb THEN e.volume ELSE @,
              !.volumeLower = IF lower = prevLb THEN e.volume ELSE @]

\* The entry with the volume of the last evaluation taken over for the bound that moved
Cached(e) ==
    [e EXCEPT !.volumeUpper = IF lower = prevLb THEN e.volume ELSE @,
              !.volumeLower = IF upper = prevUb THEN e.volume ELSE @]

\* calculateExcessVolumeOrNegative: one pass of its loop
Evaluate ==
    LET e == Cached(entries[next])
    IN /\ pc = "eval" /\ next <= Len(entries)
       /\ next' = next + 1
       /\ \/ /\ e.volumeLower = e.volumeUpper
             /\ util' = util + e.volumeLower
             /\ baseUtil' = baseUtil + e.volumeLower
             /\ entries' = DismissAndSwap(next, [e EXCEPT !.volume = e.volumeLower], dismissed + 1)
             /\ dismissed' = dismissed + 1
             /\ UNCHANGED maxDiff
          \/ /\ e.volumeLower # e.volumeUpper
             /\ LET v == GetVolume(e, mid) IN
                   /\ entries' = [entries EXCEPT ![next] = [e EXCEPT !.volume = v]]
                   /\ util' = IF util <= availVolume THEN util + v ELSE util
             /\ maxDiff' = Max({maxDiff, e.volumeUpper - e.volumeLower})
             /\ UNCHANGED <<baseUtil, dismissed>>
       /\ UNCHANGED <<events, availVolume, pc, search, prevLb, prevUb>>

Excess == availVolume - util
Abs(x) == IF x < 0 THEN -x ELSE x
Evaluated == pc = "eval" /\ next > Len(entries)
Better == bestExcess = -1 \/ Abs(Excess) < Abs(bestExcess)

\* calculateFunctionOptimizationAssignments: all workers are used
Perfect ==
    /\ Evaluated /\ Better /\ Excess = 0
    /\ bestExcess' = 0
    /\ pc' = "done"
    /\ UNCHANGED <<events, availVolume, entries, lower, upper, mid, center, excessAtLeft, evaluation>>

\* The base case: one more worker to each remaining job, in order
BaseCase ==
    /\ Evaluated /\ ~(Better /\ Excess = 0) /\ maxDiff <= 1
    /\ LET s == SortRemaining(entries, dismissed) IN
          entries' = [i \in DOMAIN s |->
                        IF i <= dismissed THEN s[i]
                        ELSE [s[i] EXCEPT !.volume = s[i].volumeLower
                                             + (IF i - dismissed <= excessAtLeft THEN 1 ELSE 0)]]
    /\ bestExcess' = 0
    /\ pc' = "done"
    /\ UNCHANGED <<events, availVolume, lower, upper, mid, center, excessAtLeft, evaluation>>

\* Unused resources left: increase the multiplier; too many used: decrease it
MoveBounds ==
    /\ lower' = IF Excess > 0 THEN mid ELSE lower
    /\ excessAtLeft' = IF Excess > 0 THEN Excess ELSE excessAtLeft
    /\ upper' = IF Excess < 0 THEN mid ELSE upper

\* Mutation of Restart: the volumes of dismissed jobs are not counted.
Restart_ForgetsBase == util' = 0 /\ maxDiff' = 0 /\ next' = dismissed + 1

\* The next evaluation starts with what the dismissed jobs use
Restart == util' = baseUtil /\ maxDiff' = 0 /\ next' = dismissed + 1

\* Go on in the left or the right half
Narrow ==
    /\ Evaluated /\ ~(Better /\ Excess = 0) /\ maxDiff > 1
    /\ bestExcess' = IF Better THEN Excess ELSE bestExcess
    /\ MoveBounds
    /\ LET one == (availVolume * Grid) \div SumOf(entries, "priority") IN
          mid' = IF mid = one /\ ((Excess > 0 /\ center > mid) \/ (Excess < 0 /\ center < mid))
                 THEN center ELSE (lower' + upper') \div 2
    /\ prevLb' = lower /\ prevUb' = upper
    /\ Restart
    /\ UNCHANGED <<events, availVolume, entries, pc, center, dismissed, baseUtil>>

Next == BailOut \/ FullDemands \/ BeginSearch \/ Evaluate \/ Perfect \/ BaseCase \/ Narrow

Spec == Init /\ [][Next]_vars /\ WF_vars(Next)
-----------------------------------------------------------------------------
(***************************************************************************)
(* Properties.                                                             *)
(***************************************************************************)

\* The fields of the calculator; every volume it keeps is a number of workers.
TypeOK ==
    /\ availVolume \in Nat \ {0}
    /\ \A i \in DOMAIN entries : entries[i] \in Entry
    /\ pc \in {"start", "eval", "done"}
    /\ dismissed \in 0..Len(entries) /\ next \in 1..(Len(entries) + 1)
    /\ lower \in Nat /\ upper \in Nat /\ mid \in Nat

Remaining == {i \in DOMAIN entries : i > dismissed}

\* The cached volumes are those of the range being searched: what an evaluation takes
\* over from the previous one is never out of date (leftHalf and rightHalf in
\* calculateExcessVolumeOrNegative).  The assertions of the base case, which rest on them,
\* hold: there is something left to distribute, and not more than one worker for each
\* remaining job.  The fields of the calculator keep their types.
CacheFresh ==
    /\ TypeOK
    /\ Evaluated =>
        /\ \A i \in Remaining :
              /\ entries[i].volumeLower = GetVolume(entries[i], lower)
              /\ entries[i].volumeUpper = GetVolume(entries[i], upper)
        /\ ~(Better /\ Excess = 0) /\ maxDiff <= 1 =>
              excessAtLeft > 0 /\ excessAtLeft <= Cardinality(Remaining)

\* However settled jobs were moved to the front of _entries (dismissAndSwapWith), none is
\* lost or doubled: every job with a demand gets at least one worker and never more than its demand, and
\* with more workers than jobs every worker is used unless all demands are met.
FullyDistributed ==
    pc = "done" =>
        /\ {entries[i].job : i \in DOMAIN entries} = PositiveJobs(events)
        /\ Len(entries) = Cardinality(PositiveJobs(events))
        /\ \A i \in DOMAIN entries : entries[i].volume \in 1..events[entries[i].job].demand
        /\ availVolume > Len(entries) =>
              SumOf(entries, "volume") = Min({availVolume, SumOf(entries, "demand")})

\* Volumes follow priorities.  A job of higher priority and no smaller demand gets no fewer
\* workers, and up to rounding volumes are proportional to priorities: a job that got more
\* than one worker has no more than its share relative to a job whose demand is not met.
FollowsPriorities ==
    pc = "done" => \A i, k \in DOMAIN entries :
        /\ /\ events[entries[i].job].priority > events[entries[k].job].priority
           /\ events[entries[i].job].demand >= events[entries[k].job].demand
           => entries[i].volume >= entries[k].volume
        /\ entries[i].volume > 1 /\ entries[k].volume < entries[k].demand =>
              (entries[i].volume - 1) * events[entries[k].job].priority
                  < (entries[k].volume + 1) * events[entries[i].job].priority

\* "Highest demand first": of two jobs of equal priority the one with the higher demand
\* gets no fewer workers (EntryComparatorByPriority).
HighestDemandFirst ==
    pc = "done" => \A i, k \in DOMAIN entries :
        /\ entries[i].priority = entries[k].priority
        /\ events[entries[i].job].demand > events[entries[k].job].demand
        => entries[i].volume >= entries[k].volume

\* The search ends.
Terminates == <>(pc = "done")
=============================================================================
