------------------------ MODULE EventDrivenBalancer -------------------------
(***************************************************************************)
(* The distributed load balancer (balancing/event_driven_balancer.cpp).    *)
(* Every MPI rank runs one.  A change of a job's demand is an event; events *)
(* travel up a tree of ranks ("reduce"), rank 0 numbers each batch with a   *)
(* balancing epoch and sends it down the tree ("broadcast"), and every rank *)
(* applies the batches it receives and computes all volumes by itself.  No  *)
(* rank ever compares its result with another one's: that they agree is    *)
(* what this module is about.                                               *)
(*                                                                          *)
(* The callers of the balancer (Worker and JobDatabase) are modelled by     *)
(* jobState, home and the guards of the environment actions: which calls a  *)
(* worker makes, in which order, for a job's root node and for other nodes. *)
(* The volume callbacks never call back into the balancer with an event, so *)
(* digesting a broadcast is one step.  Timers (PeriodicEvent<10>) are a     *)
(* free choice.  Latency statistics are left out.                           *)
(***************************************************************************)
EXTENDS EventMap, Integers, Sequences, FiniteSets

CONSTANTS
    NumRanks,       \* size of the communicator
    ParentRank,     \* _parent_rank of every rank
    ChildRanks,     \* _child_ranks of every rank, as a set
    VolumesOf(_),   \* the volumes VolumeCalculator computes from an event map
    MaxJobEpoch,    \* bound on the events of one job before its termination
    NoJob

Ranks == 0..(NumRanks - 1)
NoRank == -1

\* EventDrivenBalancer::isRoot, isLeaf
IsRoot(r) == r = 0
IsLeaf(r) == r % 2 = 1

ASSUME BalancerAssumption ==
    /\ NumRanks \in Nat \ {0}
    /\ MaxJobEpoch \in Nat \ {0} /\ MaxJobEpoch < TermEpoch
    /\ NoJob \notin Jobs

\* What the constructor guarantees of the tree (module BalancerTree).
ASSUME TreeAssumption ==
    /\ ParentRank \in [Ranks -> Ranks]
    /\ ChildRanks \in [Ranks -> SUBSET Ranks]
    /\ \A p, c \in Ranks : c \in ChildRanks[p] <=> ~IsRoot(c) /\ ParentRank[c] = p
    /\ \A c \in Ranks : ~IsRoot(c) => ParentRank[c] < c
    /\ \A r \in Ranks : r % 2 = 1 => ChildRanks[r] = {}

ASSUME VolumesAssumption == \A m \in EventMaps : VolumesOf(m) \in [Jobs -> Nat]

VARIABLES
    states,         \* _states: the event map every rank balances with
    globalEpoch,    \* _states._global_epoch, what getGlobalEpoch() returns
    balancingEpoch, \* _balancing_epoch
    diffs,          \* _diffs: events not sent upwards yet
    activeJob,      \* _active_job_id
    localJobs,      \* _local_jobs: jobs whose volume updates are called back
    rootEpoch,      \* _job_root_epochs (0: no entry)
    volumes,        \* _job_volumes (0: no entry)
    up,             \* MSG_REDUCE_DATA in transit from a rank to its parent
    down,           \* MSG_BROADCAST_DATA in transit to a rank from its parent
    jobState,       \* where the job is in its life, as the workers drive it
    rootRequest,    \* rank whose job database holds the job's root request
    home,           \* rank of the job's root node
    log             \* history: for every balancing epoch rank 0's batch and results

NoVolumes == [j \in Jobs |-> 0]

nodeVars == <<states, globalEpoch, balancingEpoch, diffs, volumes>>
localVars == <<activeJob, localJobs, rootEpoch>>
netVars == <<up, down>>
envVars == <<jobState, home, rootRequest>>
vars == <<nodeVars, localVars, netVars, envVars, log>>

Broadcast == [epoch : Nat, events : EventMaps]
LogEntry == [events : EventMaps, result : EventMaps, volumes : [Jobs -> Nat]]
JobStates == {"new", "probed", "committed", "running", "dormant", "done"}

TypeOK ==
    /\ states \in [Ranks -> EventMaps]
    /\ globalEpoch \in [Ranks -> Nat]
    /\ balancingEpoch \in [Ranks -> Nat]
    /\ diffs \in [Ranks -> EventMaps]
    /\ volumes \in [Ranks -> [Jobs -> Nat]]
    /\ activeJob \in [Ranks -> Jobs \cup {NoJob}]
    /\ localJobs \in [Ranks -> SUBSET Jobs]
    /\ rootEpoch \in [Ranks -> [Jobs -> 0..MaxJobEpoch]]
    /\ up \in [Ranks -> Seq(EventMaps)]
    /\ down \in [Ranks -> Seq(Broadcast)]
    /\ jobState \in [Jobs -> JobStates]
    /\ home \in [Jobs -> Ranks \cup {NoRank}]
    /\ rootRequest \in [Jobs -> Ranks \cup {NoRank}]
    /\ log \in Seq(LogEntry)

Init ==
    /\ states = [r \in Ranks |-> EmptyMap]
    /\ globalEpoch = [r \in Ranks |-> 0]
    /\ balancingEpoch = [r \in Ranks |-> 0]
    /\ diffs = [r \in Ranks |-> EmptyMap]
    /\ volumes = [r \in Ranks |-> NoVolumes]
    /\ activeJob = [r \in Ranks |-> NoJob]
    /\ localJobs = [r \in Ranks |-> {}]
    /\ rootEpoch = [r \in Ranks |-> [j \in Jobs |-> 0]]
    /\ up = [r \in Ranks |-> <<>>]
    /\ down = [r \in Ranks |-> <<>>]
    /\ jobState = [j \in Jobs |-> "new"]
    /\ home = [j \in Jobs |-> NoRank]
    /\ rootRequest = [j \in Jobs |-> NoRank]
    /\ log = <<>>
-----------------------------------------------------------------------------
(***************************************************************************)
(* Reduction and broadcast.                                                *)
(***************************************************************************)

\* Mutation of ForwardDown: a child that is behind is left out.
ForwardDown_SkipsBusy(r, msg) ==
    down' = [c \in Ranks |-> LET rest == IF c = r /\ ~IsRoot(r) THEN Tail(down[c]) ELSE down[c]
                             IN IF ~IsLeaf(r) /\ c \in ChildRanks[r] /\ rest = <<>>
                                THEN Append(rest, msg) ELSE rest]

\* handleData, broadcast branch: forward to the children unless a leaf.
ForwardDown(r, msg) ==
    down' = [c \in Ranks |-> LET rest == IF c = r /\ ~IsRoot(r) THEN Tail(down[c]) ELSE down[c]
                             IN IF ~IsLeaf(r) /\ c \in ChildRanks[r] THEN Append(rest, msg) ELSE rest]

\* What _states becomes when rank r digests events, before zeros are removed.
Digested(r, events) == UpdateBy(states[r], events)

\* computeBalancingResult: nothing is computed for an empty map.
BalancingResult(s) == IF s = EmptyMap THEN NoVolumes ELSE VolumesOf(s)

\* Mutation of CallsBack: the job need not be among the balanced ones.
CallsBack_AnyJob(r, s, j) == j \in localJobs'[r]

\* computeBalancingResult calls the volume callback for job j.
CallsBack(r, s, j) == j \in localJobs'[r] /\ s[j] # NoEvent

\* digest and computeBalancingResult, with local diffs d and pending root
\* requests reqs.  The volume callback of the rank that holds a job's root
\* request takes the request out of the job database and sends it on its way.
Digest(r, msg, d, reqs) ==
    LET s == Digested(r, msg.events) IN
    /\ states' = [states EXCEPT ![r] = RemoveOldZeros(s)]
    /\ globalEpoch' = [globalEpoch EXCEPT ![r] = IF msg.epoch > @ THEN msg.epoch ELSE @]
    /\ balancingEpoch' = [balancingEpoch EXCEPT ![r] = msg.epoch]
    /\ volumes' = [volumes EXCEPT ![r] = BalancingResult(s)]
    /\ diffs' = [diffs EXCEPT ![r] = FilterBy(d, s)]
    /\ rootRequest' = [j \in Jobs |->
                         IF reqs[j] = r /\ CallsBack(r, s, j) THEN NoRank ELSE reqs[j]]

\* handleData, reduce branch, once the timer is ready: rank 0 starts the next
\* balancing epoch with its diffs d, any other rank sends them to its parent.
\* rest are the messages in transit to parents before that.
Flush(r, d, rest, reqs) ==
    \/ /\ IsRoot(r)
       /\ LET msg == [epoch |-> balancingEpoch[r] + 1, events |-> d] IN
             /\ ForwardDown(r, msg)
             /\ Digest(r, msg, d, reqs)
             /\ log' = Append(log, [events |-> d, result |-> RemoveOldZeros(Digested(r, d)),
                                    volumes |-> BalancingResult(Digested(r, d))])
       /\ up' = rest
    \/ /\ ~IsRoot(r)
       /\ up' = [rest EXCEPT ![r] = Append(@, d)]
       /\ diffs' = [diffs EXCEPT ![r] = EmptyMap]
       /\ rootRequest' = reqs
       /\ UNCHANGED <<states, globalEpoch, balancingEpoch, volumes, down, log>>

\* The timer is not ready: the diffs d stay where they are.
Keep(r, d, rest, reqs) ==
    /\ diffs' = [diffs EXCEPT ![r] = d]
    /\ up' = rest
    /\ rootRequest' = reqs
    /\ UNCHANGED <<states, globalEpoch, balancingEpoch, volumes, down, log>>

\* advance, called periodically by Worker::advance
Advance(r) ==
    /\ diffs[r] # EmptyMap
    /\ UNCHANGED <<localVars, jobState, home>>
    /\ Flush(r, diffs[r], up, rootRequest)

\* Mutation of HandleReduce: messages are not handled in the order sent.
HandleReduce_LastFirst(r, c) ==
    /\ c \in ChildRanks[r] /\ up[c] # <<>>
    /\ UNCHANGED <<localVars, jobState, home>>
    /\ LET d == UpdateBy(diffs[r], up[c][Len(up[c])])
           rest == [up EXCEPT ![c] = SubSeq(@, 1, Len(@) - 1)]
       IN Flush(r, d, rest, rootRequest) \/ Keep(r, d, rest, rootRequest)

\* handle(MSG_REDUCE_DATA) of a message from child c
HandleReduce(r, c) ==
    /\ c \in ChildRanks[r] /\ up[c] # <<>>
    /\ UNCHANGED <<localVars, jobState, home>>
    /\ LET d == UpdateBy(diffs[r], Head(up[c]))
           rest == [up EXCEPT ![c] = Tail(@)]
       IN Flush(r, d, rest, rootRequest) \/ Keep(r, d, rest, rootRequest)

\* handle(MSG_BROADCAST_DATA)
HandleBroadcast(r) ==
    /\ down[r] # <<>>
    /\ UNCHANGED <<localVars, jobState, home, up, log>>
    /\ ForwardDown(r, Head(down[r]))
    /\ Digest(r, Head(down[r]), diffs[r], rootRequest)
-----------------------------------------------------------------------------
(***************************************************************************)
(* Operations called by the job database.                                  *)
(***************************************************************************)

\* pushEvent
PushEvent(r, j, e, reqs) ==
    IF IsNovel(e, diffs[r][j])
    THEN LET d == InsertIfNovel(diffs[r], j, e)
         IN Flush(r, d, up, reqs) \/ Keep(r, d, up, reqs)
    ELSE Keep(r, diffs[r], up, reqs)

\* onProbe, called by JobDatabase::addRootRequest
OnProbe(r, j) ==
    /\ localJobs' = [localJobs EXCEPT ![r] = @ \cup {j}]
    /\ UNCHANGED <<activeJob, rootEpoch>>
    /\ PushEvent(r, j, [epoch |-> 1, demand |-> 1, priority |-> "probe"],
                 [rootRequest EXCEPT ![j] = r])

\* onDemandChange
OnDemandChange(r, j, demand) ==
    /\ rootEpoch' = [rootEpoch EXCEPT ![r][j] = @ + 1]
    /\ UNCHANGED <<activeJob, localJobs>>
    /\ PushEvent(r, j, [epoch |-> rootEpoch[r][j] + 1, demand |-> demand, priority |-> "job"],
                 rootRequest)

\* onActivate of a job that is not the active one (commit)
OnActivate(r, j, root) ==
    /\ activeJob' = [activeJob EXCEPT ![r] = j]
    /\ localJobs' = [localJobs EXCEPT ![r] = @ \cup {j}]
    /\ rootEpoch' = IF root /\ rootEpoch[r][j] = 0 THEN [rootEpoch EXCEPT ![r][j] = 1] ELSE rootEpoch
    /\ UNCHANGED <<nodeVars, netVars, rootRequest, log>>

\* The part of onSuspend that concerns every node, root or not
Deactivate(r, j) ==
    activeJob' = IF activeJob[r] = j THEN [activeJob EXCEPT ![r] = NoJob] ELSE activeJob

\* Mutation of OnSuspend: the event is sent under the epoch of the last one.
OnSuspend_SameEpoch(r, j, root) ==
    /\ Deactivate(r, j)
    /\ UNCHANGED <<localJobs, rootEpoch>>
    /\ \/ /\ root
          /\ PushEvent(r, j, [epoch |-> rootEpoch[r][j], demand |-> 1, priority |-> "job"],
                       rootRequest)
       \/ /\ ~root
          /\ UNCHANGED <<nodeVars, netVars, rootRequest, log>>

\* onSuspend
OnSuspend(r, j, root) ==
    /\ Deactivate(r, j)
    /\ UNCHANGED localJobs
    /\ \/ /\ root
          /\ rootEpoch' = [rootEpoch EXCEPT ![r][j] = @ + 1]
          /\ PushEvent(r, j, [epoch |-> rootEpoch[r][j] + 1, demand |-> 1, priority |-> "job"],
                       rootRequest)
       \/ /\ ~root
          /\ UNCHANGED <<nodeVars, netVars, rootEpoch, rootRequest, log>>

\* onTerminate
OnTerminate(r, j, root) ==
    /\ Deactivate(r, j)
    /\ localJobs' = IF activeJob[r] = j THEN [localJobs EXCEPT ![r] = @ \ {j}] ELSE localJobs
    /\ \/ /\ root /\ rootEpoch[r][j] # 0
          /\ rootEpoch' = [rootEpoch EXCEPT ![r][j] = 0]
          /\ PushEvent(r, j, [epoch |-> TermEpoch, demand |-> 0, priority |-> "zero"], rootRequest)
       \/ /\ ~(root /\ rootEpoch[r][j] # 0)
          /\ UNCHANGED <<nodeVars, netVars, rootEpoch, rootRequest, log>>
-----------------------------------------------------------------------------
(***************************************************************************)
(* What the workers do with a job, as far as its balancer is concerned.    *)
(***************************************************************************)

\* JobDatabase::hasDormantRoot
HasDormantRoot(r) == \E j \in Jobs : jobState[j] = "dormant" /\ home[j] = r

\* Worker::handleRequestNode for the first request of a new job
AddRootRequest(r, j) ==
    /\ jobState[j] = "new"
    /\ jobState' = [jobState EXCEPT ![j] = "probed"]
    /\ UNCHANGED home
    /\ OnProbe(r, j)

\* A worker commits itself to become the root of a new job, or resumes a
\* dormant one for the next revision (JobDatabase::tryAdopt, commit)
CommitRoot(r, j) ==
    /\ activeJob[r] = NoJob
    /\ \/ jobState[j] = "probed" /\ rootRequest[j] = NoRank /\ ~HasDormantRoot(r)
       \/ jobState[j] = "dormant" /\ home[j] = r
    /\ jobState' = [jobState EXCEPT ![j] = "committed"]
    /\ home' = [home EXCEPT ![j] = r]
    /\ OnActivate(r, j, TRUE)

\* The description is there: JobDatabase::execute or reactivate.  The job is the
\* active one already, so onActivate amounts to onDemandChange.
ExecuteRoot(j, demand) ==
    /\ jobState[j] = "committed" /\ rootEpoch[home[j]][j] < MaxJobEpoch
    /\ jobState' = [jobState EXCEPT ![j] = "running"]
    /\ UNCHANGED home
    /\ OnDemandChange(home[j], j, demand)

\* Worker::checkActiveJob notices a new demand
ChangeDemand(j, demand) ==
    /\ jobState[j] = "running" /\ rootEpoch[home[j]][j] < MaxJobEpoch
    /\ UNCHANGED <<jobState, home>>
    /\ OnDemandChange(home[j], j, demand)

\* JobDatabase::suspend of the root: one revision of an incremental job is done
SuspendRoot(j) ==
    /\ jobState[j] = "running" /\ rootEpoch[home[j]][j] < MaxJobEpoch
    /\ jobState' = [jobState EXCEPT ![j] = "dormant"]
    /\ UNCHANGED home
    /\ OnSuspend(home[j], j, TRUE)

\* JobDatabase::terminate of the root
TerminateRoot(j) ==
    /\ jobState[j] \in {"committed", "running", "dormant"}
    /\ jobState' = [jobState EXCEPT ![j] = "done"]
    /\ UNCHANGED home
    /\ OnTerminate(home[j], j, TRUE)

\* Another worker commits to a node of a running job ...
JoinNode(r, j) ==
    /\ activeJob[r] = NoJob /\ ~HasDormantRoot(r)
    /\ jobState[j] = "running" /\ home[j] # r
    /\ UNCHANGED <<jobState, home>>
    /\ OnActivate(r, j, FALSE)

\* ... suspends it, or uncommits or terminates it
SuspendNode(r, j) ==
    /\ activeJob[r] = j /\ home[j] # r
    /\ UNCHANGED <<jobState, home>>
    /\ OnSuspend(r, j, FALSE)

LeaveNode(r, j) ==
    /\ activeJob[r] = j /\ home[j] # r
    /\ UNCHANGED <<jobState, home>>
    /\ OnTerminate(r, j, FALSE)

Balance ==
    \E r \in Ranks :
        \/ Advance(r)
        \/ \E c \in Ranks : HandleReduce(r, c)
        \/ HandleBroadcast(r)

Drive ==
    \E j \in Jobs :
        \/ \E r \in Ranks : AddRootRequest(r, j)
        \/ \E r \in Ranks : CommitRoot(r, j)
        \/ \E d \in Demands : ExecuteRoot(j, d)
        \/ \E d \in Demands : ChangeDemand(j, d)
        \/ SuspendRoot(j)
        \/ TerminateRoot(j)
        \/ \E r \in Ranks : JoinNode(r, j)
        \/ \E r \in Ranks : SuspendNode(r, j)
        \/ \E r \in Ranks : LeaveNode(r, j)

Next == Balance \/ Drive

Spec == Init /\ [][Next]_vars

\* Workers keep calling advance() and polling their messages: the balancers do not stop
\* while one of them has something to do.  No order among them is assumed.
Fairness == WF_vars(Balance)

FairSpec == Spec /\ Fairness
-----------------------------------------------------------------------------
\* The abstract specification this one implements.
Abstract == INSTANCE BalancingLog WITH applied <- globalEpoch, view <- states

\* The tree of balancers behaves like a single log of balancing results that all
\* ranks step through (handleData, digest, computeBalancingResult).
ImplementsLog == Abstract!Spec

-----------------------------------------------------------------------------
(***************************************************************************)
(* Properties.                                                             *)
(***************************************************************************)

\* The assertions of onDemandChange and onSuspend: a job's root node is where home
\* says, knows its job epoch, and is the active job there unless it is suspended.
RootKnown ==
    \A j \in Jobs : jobState[j] \in {"committed", "running", "dormant"} =>
        /\ home[j] \in Ranks
        /\ rootEpoch[home[j]][j] > 0
        /\ jobState[j] # "dormant" => activeJob[home[j]] = j

\* Two ranks that have digested the same number of broadcasts balance with the
\* same events and compute the same volumes, although neither ever sees the
\* other's result (digest, computeBalancingResult).
Agreement ==
    \A r, q \in Ranks : globalEpoch[r] = globalEpoch[q] =>
        states[r] = states[q] /\ volumes[r] = volumes[q]

\* The batch broadcast to rank c that it will digest as its i-th next.
Pending(c, i) == [epoch |-> balancingEpoch[c] + i, events |-> log[balancingEpoch[c] + i].events]

\* The inductive invariant behind Agreement: every rank is where rank 0 was after
\* balancingEpoch[r] batches, and the broadcasts in transit to a rank are exactly the
\* batches its parent has digested and it has not, in order.
ReplicasFollowLog ==
    /\ balancingEpoch[0] = Len(log)
    /\ globalEpoch = balancingEpoch
    /\ \A r \in Ranks :
          /\ balancingEpoch[r] <= Len(log)
          /\ states[r] = IF balancingEpoch[r] = 0 THEN EmptyMap ELSE log[balancingEpoch[r]].result
          /\ volumes[r] = IF balancingEpoch[r] = 0 THEN NoVolumes ELSE log[balancingEpoch[r]].volumes
    /\ \A n \in 1..Len(log) :
          LET s == UpdateBy(IF n = 1 THEN EmptyMap ELSE log[n - 1].result, log[n].events)
          IN log[n].result = RemoveOldZeros(s) /\ log[n].volumes = BalancingResult(s)
    /\ \A c \in Ranks \ {0} :
          /\ balancingEpoch[ParentRank[c]] = balancingEpoch[c] + Len(down[c])
          /\ \A i \in 1..Len(down[c]) : down[c][i] = Pending(c, i)
    /\ down[0] = <<>>

\* The events present at rank r: kept, balanced with, or in transit to or from it.
EventsAt(r, j) ==
    {states[r][j], diffs[r][j]}
    \cup {up[r][i][j] : i \in DOMAIN up[r]}
    \cup {down[r][i].events[j] : i \in DOMAIN down[r]}

\* A job's epoch identifies its event everywhere in the system, so filterBy never
\* meets two different events of one epoch and never reaches its abort().
EventIdentity ==
    \A j \in Jobs : \A e, f \in (UNION {EventsAt(r, j) : r \in Ranks}) \ {NoEvent} :
        e.epoch = f.epoch => e = f

\* A worker commits to a root node only after rank 0 has accounted for the job, so
\* that a PE is reserved for it (onProbe, and the comment in onActivate).
PlacedOnlyAfterReserved ==
    \A j \in Jobs : jobState[j] \in {"committed", "running", "dormant"} =>
        states[0][j] # NoEvent

\* The newest event of a job.
LastEpoch(j) ==
    CASE jobState[j] = "probed" -> 1
      [] jobState[j] \in {"committed", "running", "dormant"} -> rootEpoch[home[j]][j]
      [] jobState[j] = "done" -> TermEpoch

\* The newest event of a job is never lost on its way through the reduction: it is
\* still on its way, or rank 0 balances with it (or has forgotten the job with it).
NewestEventSurvives ==
    \A j \in Jobs : jobState[j] # "new" =>
        \/ \E r \in Ranks : \E m \in {diffs[r]} \cup {up[r][i] : i \in DOMAIN up[r]} :
              m[j] # NoEvent /\ m[j].epoch = LastEpoch(j)
        \/ states[0][j] # NoEvent /\ states[0][j].epoch = LastEpoch(j)
        \/ jobState[j] = "done" /\ states[0][j] = NoEvent

\* After a batch with a job's termination event no later batch brings the job back,
\* although every rank forgets the terminated job (removeOldZeros) and would take
\* any older event of it for a new one (insertIfNovel).
NoResurrection ==
    \A i, k \in DOMAIN log : \A j \in Jobs :
        i <= k /\ log[i].events[j] # NoEvent /\ log[i].events[j].epoch = TermEpoch =>
            log[k].result[j] = NoEvent

\* A job's root request is eventually activated by the volume callback of the rank
\* that holds it (Worker::activateRootRequest).
RootRequestActivated == \A j \in Jobs : rootRequest[j] # NoRank ~> rootRequest[j] = NoRank

\* Once a job is terminated every rank eventually stops reserving volume for it.
TerminatedForgotten ==
    \A j \in Jobs : jobState[j] = "done" ~> [](\A r \in Ranks : states[r][j] = NoEvent)
=============================================================================
