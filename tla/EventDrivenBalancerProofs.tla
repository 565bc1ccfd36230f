--------------------- MODULE EventDrivenBalancerProofs ----------------------
(***************************************************************************)
(* Proofs about EventDrivenBalancer, for every communicator size, every    *)
(* tree of ranks, every set of jobs and every bound: the types, the roots  *)
(* and the log that all ranks follow. At the end the lemmas about the      *)
(* paths and the flows of events on which EventOrderProofs rests.          *)
(***************************************************************************)
EXTENDS EventOrder, TLAPS

-----------------------------------------------------------------------------
(***************************************************************************)
(* Event maps.                                                             *)
(***************************************************************************)
\* The operations on event maps yield event maps (event_map.hpp).
LEMMA EventMapTypes ==
    ASSUME NEW m \in EventMaps, NEW s \in EventMaps
    PROVE  /\ EmptyMap \in EventMaps
           /\ UpdateBy(m, s) \in EventMaps
           /\ FilterBy(m, s) \in EventMaps
           /\ RemoveOldZeros(m) \in EventMaps
BY Zenon DEF EventMaps, EmptyMap, UpdateBy, FilterBy, RemoveOldZeros

\* insertIfNovel stores an event of a job (event_map.hpp).
LEMMA InsertType ==
    ASSUME NEW m \in EventMaps, NEW j \in Jobs, NEW e \in Event
    PROVE  InsertIfNovel(m, j, e) \in EventMaps
BY Zenon DEF EventMaps, InsertIfNovel

\* Sending a message keeps a channel's type.
LEMMA AppendType ==
    ASSUME NEW S, NEW q \in Seq(S), NEW x \in S
    PROVE  Append(q, x) \in Seq(S)
OBVIOUS

\* Setting one entry of _job_root_epochs at one rank.
LEMMA RootEpochUpdate ==
    ASSUME NEW f \in [Ranks -> [Jobs -> 0..MaxJobEpoch]], NEW r \in Ranks, NEW j \in Jobs,
           NEW n \in 0..MaxJobEpoch
    PROVE  /\ [f EXCEPT ![r][j] = n] \in [Ranks -> [Jobs -> 0..MaxJobEpoch]]
           /\ \A q \in Ranks, k \in Jobs :
                 [f EXCEPT ![r][j] = n][q][k] = IF q = r /\ k = j THEN n ELSE f[q][k]
BY Zenon

-----------------------------------------------------------------------------
(***************************************************************************)
(* Type correctness.                                                       *)
(***************************************************************************)
\* Appending to and removing from the broadcast channels keeps their type.
LEMMA ForwardType ==
    ASSUME TypeOK, NEW r \in Ranks, NEW msg \in Broadcast,
           IsRoot(r) \/ down[r] # <<>>, ForwardDown(r, msg)
    PROVE  down' \in [Ranks -> Seq(Broadcast)]
<1>1. ASSUME NEW c \in Ranks
      PROVE  (IF c = r /\ ~IsRoot(r) THEN Tail(down[c]) ELSE down[c]) \in Seq(Broadcast)
  BY DEF TypeOK
<1>. QED  BY <1>1 DEF ForwardDown

\* A digested broadcast leaves every variable it changes well-typed.
LEMMA DigestType ==
    ASSUME TypeOK, NEW r \in Ranks, NEW msg \in Broadcast, NEW d \in EventMaps,
           NEW reqs \in [Jobs -> Ranks \cup {NoRank}], Digest(r, msg, d, reqs)
    PROVE  /\ states' \in [Ranks -> EventMaps]
           /\ globalEpoch' \in [Ranks -> Nat]
           /\ balancingEpoch' \in [Ranks -> Nat]
           /\ diffs' \in [Ranks -> EventMaps]
           /\ volumes' \in [Ranks -> [Jobs -> Nat]]
           /\ rootRequest' \in [Jobs -> Ranks \cup {NoRank}]
<1>1. /\ Digested(r, msg.events) \in EventMaps
      /\ RemoveOldZeros(Digested(r, msg.events)) \in EventMaps
      /\ FilterBy(d, Digested(r, msg.events)) \in EventMaps
  BY EventMapTypes, Zenon DEF TypeOK, Digested, Broadcast
<1>2. BalancingResult(Digested(r, msg.events)) \in [Jobs -> Nat]
  BY <1>1, VolumesAssumption, Zenon DEF BalancingResult, NoVolumes
<1>3. msg.epoch \in Nat
  BY Zenon DEF Broadcast
<1>4. /\ states' \in [Ranks -> EventMaps]
      /\ diffs' \in [Ranks -> EventMaps]
  BY <1>1, Zenon DEF Digest, TypeOK
<1>5. /\ globalEpoch' \in [Ranks -> Nat]
      /\ balancingEpoch' \in [Ranks -> Nat]
  BY <1>3, Zenon DEF Digest, TypeOK
<1>6. volumes' \in [Ranks -> [Jobs -> Nat]]
  BY <1>2, Zenon DEF Digest, TypeOK
<1>7. rootRequest' \in [Jobs -> Ranks \cup {NoRank}]
  BY Zenon DEF Digest, TypeOK
<1>. QED  BY <1>4, <1>5, <1>6, <1>7, Zenon

\* The variables a flush or a postponed flush may change.
FlushTypes ==
    /\ states' \in [Ranks -> EventMaps]
    /\ globalEpoch' \in [Ranks -> Nat]
    /\ balancingEpoch' \in [Ranks -> Nat]
    /\ diffs' \in [Ranks -> EventMaps]
    /\ volumes' \in [Ranks -> [Jobs -> Nat]]
    /\ rootRequest' \in [Jobs -> Ranks \cup {NoRank}]
    /\ up' \in [Ranks -> Seq(EventMaps)]
    /\ down' \in [Ranks -> Seq(Broadcast)]
    /\ log' \in Seq(LogEntry)

\* A flush, at rank 0 or below, leaves every variable it changes well-typed (handleData).
LEMMA FlushType ==
    ASSUME TypeOK, NEW r \in Ranks, NEW d \in EventMaps,
           NEW rest \in [Ranks -> Seq(EventMaps)],
           NEW reqs \in [Jobs -> Ranks \cup {NoRank}],
           Flush(r, d, rest, reqs) \/ Keep(r, d, rest, reqs)
    PROVE  FlushTypes
<1>1. CASE Keep(r, d, rest, reqs)
  BY <1>1, Zenon DEF Keep, TypeOK, FlushTypes
<1>2. CASE Flush(r, d, rest, reqs) /\ ~IsRoot(r)
  <2>1. Append(rest[r], d) \in Seq(EventMaps)
    BY AppendType, Zenon
  <2>a. up' \in [Ranks -> Seq(EventMaps)]
    BY <1>2, <2>1, Zenon DEF Flush
  <2>2. diffs' \in [Ranks -> EventMaps]
    BY <1>2, EventMapTypes, Zenon DEF Flush, TypeOK
  <2>. QED  BY <1>2, <2>a, <2>2, Zenon DEF Flush, TypeOK, FlushTypes
<1>3. CASE Flush(r, d, rest, reqs) /\ IsRoot(r)
  <2> DEFINE msg == [epoch |-> balancingEpoch[r] + 1, events |-> d]
  <2>1. msg \in Broadcast
    BY DEF TypeOK, Broadcast
  <2>2. ForwardDown(r, msg) /\ Digest(r, msg, d, reqs) /\ up' = rest
    BY <1>3, Zenon DEF Flush
  <2>3. RemoveOldZeros(Digested(r, d)) \in EventMaps
    BY EventMapTypes, Zenon DEF Digested, TypeOK
  <2>4. log' \in Seq(LogEntry)
    <3> DEFINE entry == [events |-> d, result |-> RemoveOldZeros(Digested(r, d)),
                         volumes |-> BalancingResult(Digested(r, d))]
    <3>1. BalancingResult(Digested(r, d)) \in [Jobs -> Nat]
      BY EventMapTypes, VolumesAssumption, Zenon DEF Digested, TypeOK, BalancingResult, NoVolumes
    <3>2. entry \in LogEntry
      BY <2>3, <3>1, Zenon DEF LogEntry
    <3>3. log' = Append(log, entry)
      BY <1>3, Zenon DEF Flush
    <3> HIDE DEF entry
    <3>. QED  BY <3>2, <3>3, AppendType, Zenon DEF TypeOK
  <2> HIDE DEF msg
  <2>. QED  BY <1>3, <2>1, <2>2, <2>4, ForwardType, DigestType, Zenon DEF FlushTypes
<1>. QED  BY <1>1, <1>2, <1>3, Zenon

\* So does an event pushed by a local job, flushed or kept (pushEvent).
LEMMA PushType ==
    ASSUME TypeOK, NEW r \in Ranks, NEW j \in Jobs, NEW e \in Event,
           NEW reqs \in [Jobs -> Ranks \cup {NoRank}], PushEvent(r, j, e, reqs)
    PROVE  FlushTypes
<1>1. up \in [Ranks -> Seq(EventMaps)] /\ diffs[r] \in EventMaps
  BY Zenon DEF TypeOK
<1>2. InsertIfNovel(diffs[r], j, e) \in EventMaps
  BY <1>1, InsertType, Zenon
<1>. QED  BY <1>1, <1>2, FlushType, Zenon DEF PushEvent

\* The constructor's state is well-typed and has no root to know.
LEMMA InitType == Init => TypeOK /\ RootKnown
BY EventMapTypes, BalancerAssumption
   DEF Init, TypeOK, RootKnown, JobStates, NoVolumes, EmptyMap, EventMaps, Ranks, NoRank

\* Messages and advance() keep every type.
LEMMA BalanceType == TypeOK /\ Balance => TypeOK'
<1> SUFFICES ASSUME TypeOK, Balance PROVE TypeOK'
  BY Zenon
<1>1. ASSUME NEW r \in Ranks, Advance(r) PROVE TypeOK'
  <2>1. FlushTypes
    BY <1>1, FlushType, Zenon DEF Advance, TypeOK
  <2>. QED  BY <1>1, <2>1, Zenon DEF Advance, FlushTypes, TypeOK, localVars
<1>2. ASSUME NEW r \in Ranks, NEW c \in Ranks, HandleReduce(r, c) PROVE TypeOK'
  <2>1. /\ Head(up[c]) \in EventMaps
        /\ Tail(up[c]) \in Seq(EventMaps)
    BY <1>2 DEF HandleReduce, TypeOK
  <2>2. UpdateBy(diffs[r], Head(up[c])) \in EventMaps
    BY <2>1, EventMapTypes, Zenon DEF TypeOK
  <2>3. [up EXCEPT ![c] = Tail(@)] \in [Ranks -> Seq(EventMaps)]
    BY <2>1, Zenon DEF TypeOK
  <2>4. rootRequest \in [Jobs -> Ranks \cup {NoRank}]
    BY Zenon DEF TypeOK
  <2>5. FlushTypes
    BY <1>2, <2>2, <2>3, <2>4, FlushType, Zenon DEF HandleReduce
  <2>. QED  BY <1>2, <2>5, Zenon DEF HandleReduce, FlushTypes, TypeOK, localVars
<1>3. ASSUME NEW r \in Ranks, HandleBroadcast(r) PROVE TypeOK'
  <2>1. Head(down[r]) \in Broadcast /\ down[r] # <<>>
    BY <1>3 DEF HandleBroadcast, TypeOK
  <2>2. down' \in [Ranks -> Seq(Broadcast)]
    BY <1>3, <2>1, ForwardType, Zenon DEF HandleBroadcast
  <2>3. diffs[r] \in EventMaps /\ rootRequest \in [Jobs -> Ranks \cup {NoRank}]
    BY Zenon DEF TypeOK
  <2>4. Digest(r, Head(down[r]), diffs[r], rootRequest)
    BY <1>3, Zenon DEF HandleBroadcast
  <2>5. /\ states' \in [Ranks -> EventMaps]
        /\ globalEpoch' \in [Ranks -> Nat]
        /\ balancingEpoch' \in [Ranks -> Nat]
        /\ diffs' \in [Ranks -> EventMaps]
        /\ volumes' \in [Ranks -> [Jobs -> Nat]]
        /\ rootRequest' \in [Jobs -> Ranks \cup {NoRank}]
    BY <2>1, <2>3, <2>4, DigestType, Zenon
  <2>. QED  BY <1>3, <2>2, <2>5, Zenon DEF HandleBroadcast, TypeOK, localVars
<1>. QED  BY <1>1, <1>2, <1>3, Zenon DEF Balance

\* Events sent by the operations of the balancer are events.
LEMMA EventTypes ==
    /\ [epoch |-> 1, demand |-> 1, priority |-> "probe"] \in Event
    /\ [epoch |-> TermEpoch, demand |-> 0, priority |-> "zero"] \in Event
    /\ \A n \in 1..MaxJobEpoch, d \in Demands \cup {1} :
          [epoch |-> n, demand |-> d, priority |-> "job"] \in Event
BY EventMapAssumption, BalancerAssumption DEF Event, Priorities

\* The calls of the job database keep every type; the assertions on a root are needed
\* for the epoch it sends.
LEMMA DriveType == TypeOK /\ RootKnown /\ Drive => TypeOK'
<1> SUFFICES ASSUME TypeOK, RootKnown, NEW j \in Jobs PROVE
        /\ \A r \in Ranks : AddRootRequest(r, j) => TypeOK'
        /\ \A r \in Ranks : CommitRoot(r, j) => TypeOK'
        /\ \A d \in Demands : ExecuteRoot(j, d) => TypeOK'
        /\ \A d \in Demands : ChangeDemand(j, d) => TypeOK'
        /\ SuspendRoot(j) => TypeOK'
        /\ TerminateRoot(j) => TypeOK'
        /\ \A r \in Ranks : JoinNode(r, j) => TypeOK'
        /\ \A r \in Ranks : SuspendNode(r, j) => TypeOK'
        /\ \A r \in Ranks : LeaveNode(r, j) => TypeOK'
  BY Zenon DEF Drive
<1> USE BalancerAssumption
<1>0. rootRequest \in [Jobs -> Ranks \cup {NoRank}]
  BY Zenon DEF TypeOK
<1>1. ASSUME NEW r \in Ranks, AddRootRequest(r, j) PROVE TypeOK'
  <2>1. [rootRequest EXCEPT ![j] = r] \in [Jobs -> Ranks \cup {NoRank}]
    BY Zenon DEF TypeOK
  <2>2. FlushTypes
    BY <1>1, <2>1, EventTypes, PushType, Zenon DEF AddRootRequest, OnProbe
  <2>3. /\ localJobs' \in [Ranks -> SUBSET Jobs]
        /\ jobState' \in [Jobs -> JobStates]
    BY <1>1, Zenon DEF AddRootRequest, OnProbe, TypeOK, JobStates
  <2>. QED  BY <1>1, <2>2, <2>3, Zenon DEF AddRootRequest, OnProbe, FlushTypes, TypeOK
<1>2. ASSUME NEW r \in Ranks, CommitRoot(r, j) PROVE TypeOK'
  <2>1. /\ activeJob' \in [Ranks -> Jobs \cup {NoJob}]
        /\ localJobs' \in [Ranks -> SUBSET Jobs]
        /\ rootEpoch' \in [Ranks -> [Jobs -> 0..MaxJobEpoch]]
    BY <1>2, SMTT(20) DEF CommitRoot, OnActivate, TypeOK
  <2>2. /\ jobState' \in [Jobs -> JobStates]
        /\ home' \in [Jobs -> Ranks \cup {NoRank}]
    BY <1>2, Zenon DEF CommitRoot, TypeOK, JobStates
  <2>. QED  BY <1>2, <2>1, <2>2, Zenon DEF CommitRoot, OnActivate, TypeOK, nodeVars, netVars
<1>3. ASSUME NEW d \in Demands, OnDemandChange(home[j], j, d), home[j] \in Ranks,
             rootEpoch[home[j]][j] < MaxJobEpoch, UNCHANGED home,
             jobState' \in [Jobs -> JobStates]
      PROVE  TypeOK'
  <2>1. /\ rootEpoch[home[j]][j] + 1 \in 1..MaxJobEpoch
        /\ rootEpoch' \in [Ranks -> [Jobs -> 0..MaxJobEpoch]]
    BY <1>3 DEF OnDemandChange, TypeOK
  <2>2. FlushTypes
    BY <1>0, <1>3, <2>1, EventTypes, PushType, Zenon DEF OnDemandChange
  <2>. QED  BY <1>3, <2>1, <2>2, Zenon DEF OnDemandChange, FlushTypes, TypeOK
<1>4. ASSUME NEW d \in Demands, ExecuteRoot(j, d) PROVE TypeOK'
  <2>1. jobState' \in [Jobs -> JobStates] /\ home[j] \in Ranks
    BY <1>4, Zenon DEF ExecuteRoot, TypeOK, JobStates, RootKnown
  <2>. QED  BY <1>3, <1>4, <2>1, Zenon DEF ExecuteRoot
<1>5. ASSUME NEW d \in Demands, ChangeDemand(j, d) PROVE TypeOK'
  <2>1. jobState' \in [Jobs -> JobStates] /\ home[j] \in Ranks
    BY <1>5, Zenon DEF ChangeDemand, TypeOK, RootKnown
  <2>. QED  BY <1>3, <1>5, <2>1, Zenon DEF ChangeDemand
<1>6. ASSUME SuspendRoot(j) PROVE TypeOK'
  <2>1. jobState' \in [Jobs -> JobStates] /\ home[j] \in Ranks
    BY <1>6, Zenon DEF SuspendRoot, TypeOK, JobStates, RootKnown
  <2>a. /\ rootEpoch[home[j]][j] < MaxJobEpoch
        /\ Deactivate(home[j], j)
        /\ rootEpoch' = [rootEpoch EXCEPT ![home[j]][j] = @ + 1]
    BY <1>6, Zenon DEF SuspendRoot, OnSuspend
  <2>b. activeJob' \in [Ranks -> Jobs \cup {NoJob}]
    BY <2>a, Zenon DEF Deactivate, TypeOK
  <2>2. /\ rootEpoch[home[j]][j] + 1 \in 1..MaxJobEpoch
        /\ rootEpoch' \in [Ranks -> [Jobs -> 0..MaxJobEpoch]]
    BY <2>1, <2>a DEF TypeOK
  <2>3. FlushTypes
    BY <1>0, <1>6, <2>1, <2>2, EventTypes, PushType, Zenon DEF SuspendRoot, OnSuspend
  <2>. QED  BY <1>6, <2>1, <2>2, <2>b, <2>3, Zenon DEF SuspendRoot, OnSuspend, FlushTypes, TypeOK
<1>7. ASSUME TerminateRoot(j) PROVE TypeOK'
  <2>1. jobState' \in [Jobs -> JobStates] /\ home[j] \in Ranks
    BY <1>7, Zenon DEF TerminateRoot, TypeOK, JobStates, RootKnown
  <2>2. rootEpoch[home[j]][j] # 0
    BY <1>7 DEF TerminateRoot, RootKnown
  <2>a. /\ Deactivate(home[j], j)
        /\ rootEpoch' = [rootEpoch EXCEPT ![home[j]][j] = 0]
    BY <1>7, <2>2, Zenon DEF TerminateRoot, OnTerminate
  <2>b. localJobs' \in [Ranks -> SUBSET Jobs]
    BY <1>7, Zenon DEF TerminateRoot, OnTerminate, TypeOK
  <2>c. activeJob' \in [Ranks -> Jobs \cup {NoJob}]
    BY <2>a, Zenon DEF Deactivate, TypeOK
  <2>3. rootEpoch' \in [Ranks -> [Jobs -> 0..MaxJobEpoch]]
    BY <2>1, <2>a, RootEpochUpdate DEF TypeOK
  <2>4. FlushTypes
    BY <1>0, <1>7, <2>1, <2>2, EventTypes, PushType, Zenon DEF TerminateRoot, OnTerminate
  <2>. QED  BY <1>7, <2>1, <2>b, <2>c, <2>3, <2>4, Zenon DEF TerminateRoot, FlushTypes, TypeOK
<1>8. ASSUME NEW r \in Ranks, JoinNode(r, j) PROVE TypeOK'
  BY <1>8, Zenon DEF JoinNode, OnActivate, TypeOK, nodeVars, netVars
<1>9. ASSUME NEW r \in Ranks, SuspendNode(r, j) PROVE TypeOK'
  BY <1>9, Zenon DEF SuspendNode, OnSuspend, Deactivate, TypeOK, nodeVars, netVars
<1>10. ASSUME NEW r \in Ranks, LeaveNode(r, j) PROVE TypeOK'
  BY <1>10, Zenon DEF LeaveNode, OnTerminate, Deactivate, TypeOK, nodeVars, netVars
<1>. QED  BY <1>1, <1>2, <1>4, <1>5, <1>6, <1>7, <1>8, <1>9, <1>10, Zenon

-----------------------------------------------------------------------------
(***************************************************************************)
(* The root node of a job is where the workers believe it to be.           *)
(***************************************************************************)
\* No step separates a job's root from its rank, its epoch or its activity.
LEMMA RootKnownStep == TypeOK /\ RootKnown /\ [Next]_vars => RootKnown'
<1> SUFFICES ASSUME TypeOK, RootKnown, [Next]_vars PROVE RootKnown'
  BY Zenon
<1> USE BalancerAssumption
<1>0. /\ activeJob \in [Ranks -> Jobs \cup {NoJob}]
      /\ rootEpoch \in [Ranks -> [Jobs -> 0..MaxJobEpoch]]
      /\ jobState \in [Jobs -> JobStates]
      /\ home \in [Jobs -> Ranks \cup {NoRank}]
  BY Zenon DEF TypeOK
<1>1. CASE Balance
  <2>1. UNCHANGED <<localVars, jobState, home>>
    BY <1>1, Zenon DEF Balance, Advance, HandleReduce, HandleBroadcast
  <2>. QED  BY <2>1, Zenon DEF RootKnown, localVars
<1>2. ASSUME NEW j \in Jobs, NEW r \in Ranks, AddRootRequest(r, j) PROVE RootKnown'
  BY <1>2, Zenon DEF AddRootRequest, OnProbe, RootKnown, TypeOK
<1>3. ASSUME NEW j \in Jobs, NEW r \in Ranks, CommitRoot(r, j) PROVE RootKnown'
  <2>1. /\ home' = [home EXCEPT ![j] = r]
        /\ jobState' = [jobState EXCEPT ![j] = "committed"]
        /\ activeJob' = [activeJob EXCEPT ![r] = j]
        /\ activeJob[r] = NoJob
    BY <1>3, Zenon DEF CommitRoot, OnActivate
  <2>2. \A q \in Ranks, k \in Jobs :
           rootEpoch'[q][k] = IF q = r /\ k = j /\ rootEpoch[r][j] = 0 THEN 1 ELSE rootEpoch[q][k]
    <3>1. rootEpoch' = IF rootEpoch[r][j] = 0 THEN [rootEpoch EXCEPT ![r][j] = 1] ELSE rootEpoch
      BY <1>3, Zenon DEF CommitRoot, OnActivate
    <3>2. 1 \in 0..MaxJobEpoch
      OBVIOUS
    <3>. QED  BY <1>0, <3>1, <3>2, RootEpochUpdate
  <2>3. rootEpoch[r][j] \in 0..MaxJobEpoch
    BY <1>0
  <2>4. ASSUME NEW k \in Jobs, k # j, jobState'[k] \in {"committed", "running", "dormant"}
        PROVE  /\ home'[k] \in Ranks
               /\ rootEpoch'[home'[k]][k] > 0
               /\ jobState'[k] # "dormant" => activeJob'[home'[k]] = k
    <3>1. home'[k] = home[k] /\ jobState'[k] = jobState[k]
      BY <1>0, <2>1, <2>4, Zenon
    <3>2. rootEpoch'[home[k]][k] = rootEpoch[home[k]][k] /\ home[k] \in Ranks
      BY <2>2, <2>4, <3>1, Zenon DEF RootKnown
    <3>. QED  BY <1>0, <2>1, <2>4, <3>1, <3>2, Zenon DEF RootKnown
  <2>5. /\ home'[j] = r
        /\ rootEpoch'[r][j] > 0
        /\ activeJob'[r] = j
    BY <1>0, <2>1, <2>2, <2>3
  <2>. QED  BY <2>4, <2>5, Zenon DEF RootKnown
<1>4. ASSUME NEW j \in Jobs, NEW d \in Demands, OnDemandChange(home[j], j, d), UNCHANGED home,
             jobState[j] \in {"committed", "running"}, rootEpoch[home[j]][j] < MaxJobEpoch,
             jobState' = [jobState EXCEPT ![j] = "running"] \/ jobState' = jobState
      PROVE  RootKnown'
  <2>1. home[j] \in Ranks /\ activeJob[home[j]] = j
    BY <1>4, Zenon DEF RootKnown
  <2>2. rootEpoch[home[j]][j] + 1 \in 1..MaxJobEpoch
    BY <1>0, <1>4, <2>1
  <2>3. \A q \in Ranks, k \in Jobs :
           rootEpoch'[q][k] = IF q = home[j] /\ k = j THEN rootEpoch[q][k] + 1 ELSE rootEpoch[q][k]
    <3>1. rootEpoch' = [rootEpoch EXCEPT ![home[j]][j] = rootEpoch[home[j]][j] + 1]
      BY <1>4, Zenon DEF OnDemandChange
    <3>. QED  BY <1>0, <2>1, <2>2, <3>1, RootEpochUpdate
  <2>4. ASSUME NEW k \in Jobs, jobState'[k] \in {"committed", "running", "dormant"}
        PROVE  /\ jobState[k] \in {"committed", "running", "dormant"}
               /\ jobState'[k] # "dormant" => jobState[k] # "dormant"
    BY <1>0, <1>4, <2>4, Zenon
  <2>5. UNCHANGED <<activeJob, home>>
    BY <1>4, Zenon DEF OnDemandChange
  <2>6. \A k \in Jobs : home[k] \in Ranks =>
           (rootEpoch[home[k]][k] > 0 => rootEpoch'[home[k]][k] > 0)
    BY <1>0, <2>3
  <2>. QED  BY <2>4, <2>5, <2>6, Zenon DEF RootKnown
<1>5. ASSUME NEW j \in Jobs, NEW d \in Demands, ExecuteRoot(j, d) PROVE RootKnown'
  BY <1>4, <1>5, Zenon DEF ExecuteRoot
<1>6. ASSUME NEW j \in Jobs, NEW d \in Demands, ChangeDemand(j, d) PROVE RootKnown'
  BY <1>4, <1>6, Zenon DEF ChangeDemand
<1>7. ASSUME NEW j \in Jobs, SuspendRoot(j) PROVE RootKnown'
  <2>1. /\ home[j] \in Ranks
        /\ rootEpoch[home[j]][j] < MaxJobEpoch
        /\ Deactivate(home[j], j)
        /\ rootEpoch' = [rootEpoch EXCEPT ![home[j]][j] = @ + 1]
        /\ UNCHANGED home
        /\ jobState' = [jobState EXCEPT ![j] = "dormant"]
    BY <1>7, Zenon DEF SuspendRoot, OnSuspend, RootKnown
  <2>2. rootEpoch[home[j]][j] + 1 \in 1..MaxJobEpoch
    BY <1>0, <2>1
  <2>3. \A q \in Ranks, k \in Jobs :
           rootEpoch'[q][k] = IF q = home[j] /\ k = j THEN rootEpoch[q][k] + 1 ELSE rootEpoch[q][k]
    BY <1>0, <2>1, <2>2, RootEpochUpdate
  <2>4. \A k \in Jobs : home[k] \in Ranks =>
           (rootEpoch[home[k]][k] > 0 => rootEpoch'[home[k]][k] > 0)
    BY <1>0, <2>3
  <2>. QED  BY <1>0, <2>1, <2>4 DEF Deactivate, RootKnown
<1>8. ASSUME NEW j \in Jobs, TerminateRoot(j) PROVE RootKnown'
  <2>1. /\ Deactivate(home[j], j)
        /\ rootEpoch' = [rootEpoch EXCEPT ![home[j]][j] = 0]
        /\ UNCHANGED home
        /\ jobState' = [jobState EXCEPT ![j] = "done"]
    BY <1>8 DEF TerminateRoot, OnTerminate, RootKnown
  <2>2. home[j] \in Ranks
    BY <1>8, Zenon DEF TerminateRoot, RootKnown
  <2>3. \A q \in Ranks, k \in Jobs :
           rootEpoch'[q][k] = IF q = home[j] /\ k = j THEN 0 ELSE rootEpoch[q][k]
    BY <1>0, <2>1, <2>2, RootEpochUpdate
  <2>. QED  BY <1>0, <2>1, <2>2, <2>3 DEF Deactivate, RootKnown
<1>9. ASSUME NEW j \in Jobs, NEW r \in Ranks, JoinNode(r, j) PROVE RootKnown'
  BY <1>9, Zenon DEF JoinNode, OnActivate, RootKnown, TypeOK
<1>10. ASSUME NEW j \in Jobs, NEW r \in Ranks, SuspendNode(r, j) \/ LeaveNode(r, j) PROVE RootKnown'
  <2>1. /\ Deactivate(r, j) /\ home[j] # r /\ activeJob[r] = j
        /\ UNCHANGED <<jobState, home, rootEpoch>>
    BY <1>10, Zenon DEF SuspendNode, LeaveNode, OnSuspend, OnTerminate
  <2>. QED  BY <2>1, Zenon DEF Deactivate, RootKnown, TypeOK
<1>11. CASE UNCHANGED vars
  BY <1>11, Zenon DEF vars, localVars, envVars, RootKnown
<1>. QED
  BY <1>1, <1>2, <1>3, <1>5, <1>6, <1>7, <1>8, <1>9, <1>10, <1>11, Zenon DEF Next, Drive

\* Every step keeps every type.
LEMMA TypeStep == TypeOK /\ RootKnown /\ [Next]_vars => TypeOK'
<1>1. TypeOK /\ UNCHANGED vars => TypeOK'
  BY Zenon DEF vars, nodeVars, localVars, netVars, envVars, TypeOK
<1>. QED  BY <1>1, BalanceType, DriveType, Zenon DEF Next

\* Every variable keeps its type, and whenever onDemandChange or onSuspend is called
\* for a root node its assertions hold: the job is active there and has an epoch.
THEOREM TypeCorrect == Spec => [](TypeOK /\ RootKnown)
<1>1. TypeOK /\ RootKnown /\ [Next]_vars => (TypeOK /\ RootKnown)'
  BY TypeStep, RootKnownStep, Zenon
<1>. QED  BY <1>1, InitType, PTL DEF Spec

-----------------------------------------------------------------------------
(***************************************************************************)
(* All ranks follow rank 0's log.                                          *)
(***************************************************************************)
\* The variables ReplicasFollowLog is about.
repVars == <<states, globalEpoch, balancingEpoch, volumes, down, log>>

\* The result of balancing with events d from the event map m.
Entry(m, d) == [events |-> d, result |-> RemoveOldZeros(UpdateBy(m, d)),
                volumes |-> BalancingResult(UpdateBy(m, d))]

\* Rank 0 starts the next balancing epoch with events d.
LeadStep(d) ==
    /\ ForwardDown(0, [epoch |-> balancingEpoch[0] + 1, events |-> d])
    /\ log' = Append(log, Entry(states[0], d))
    /\ states' = [states EXCEPT ![0] = Entry(states[0], d).result]
    /\ volumes' = [volumes EXCEPT ![0] = Entry(states[0], d).volumes]
    /\ balancingEpoch' = [balancingEpoch EXCEPT ![0] = balancingEpoch[0] + 1]
    /\ globalEpoch' = [globalEpoch EXCEPT ![0] =
          IF balancingEpoch[0] + 1 > globalEpoch[0] THEN balancingEpoch[0] + 1 ELSE globalEpoch[0]]

\* Rank r digests the broadcast msg.
FollowStep(r, msg) ==
    /\ ForwardDown(r, msg)
    /\ log' = log
    /\ states' = [states EXCEPT ![r] = Entry(states[r], msg.events).result]
    /\ volumes' = [volumes EXCEPT ![r] = Entry(states[r], msg.events).volumes]
    /\ balancingEpoch' = [balancingEpoch EXCEPT ![r] = msg.epoch]
    /\ globalEpoch' = [globalEpoch EXCEPT ![r] =
          IF msg.epoch > globalEpoch[r] THEN msg.epoch ELSE globalEpoch[r]]

\* A flush at rank 0 is a lead step, any other flush leaves the replicas alone.
LEMMA FlushShape ==
    ASSUME TypeOK, NEW r \in Ranks, NEW d \in EventMaps, NEW rest, NEW reqs,
           Flush(r, d, rest, reqs) \/ Keep(r, d, rest, reqs)
    PROVE  UNCHANGED repVars \/ \E b \in EventMaps : LeadStep(b)
<1>1. CASE Keep(r, d, rest, reqs)
  BY <1>1, Zenon DEF Keep, repVars
<1>2. CASE Flush(r, d, rest, reqs) /\ ~IsRoot(r)
  BY <1>2, Zenon DEF Flush, repVars
<1>3. CASE Flush(r, d, rest, reqs) /\ IsRoot(r)
  <2>1. r = 0
    BY <1>3, Zenon DEF IsRoot
  <2>2. LeadStep(d)
    BY <1>3, <2>1, Zenon DEF Flush, Digest, Digested, LeadStep, Entry
  <2>. QED  BY <2>2, Zenon
<1>. QED  BY <1>1, <1>2, <1>3, Zenon

\* A pushed event is a lead step at rank 0 or leaves the replicas alone (pushEvent).
LEMMA PushShape ==
    ASSUME TypeOK, NEW r \in Ranks, NEW j \in Jobs, NEW e \in Event, NEW reqs,
           PushEvent(r, j, e, reqs)
    PROVE  UNCHANGED repVars \/ \E b \in EventMaps : LeadStep(b)
<1>1. diffs[r] \in EventMaps /\ InsertIfNovel(diffs[r], j, e) \in EventMaps
  <2>1. diffs[r] \in EventMaps
    BY Zenon DEF TypeOK
  <2>. QED  BY <2>1, InsertType, Zenon
<1>. QED  BY <1>1, FlushShape, Zenon DEF PushEvent

\* What any step does to the replicas.
LEMMA StepShape ==
    ASSUME TypeOK, RootKnown, [Next]_vars
    PROVE  \/ UNCHANGED repVars
           \/ \E d \in EventMaps : LeadStep(d)
           \/ \E r \in Ranks : down[r] # <<>> /\ FollowStep(r, Head(down[r]))
<1> USE BalancerAssumption
<1>1. ASSUME NEW r \in Ranks, Advance(r) \/ (\E c \in Ranks : HandleReduce(r, c))
      PROVE  UNCHANGED repVars \/ \E d \in EventMaps : LeadStep(d)
  <2>1. CASE Advance(r)
    <3>1. diffs[r] \in EventMaps
      BY Zenon DEF TypeOK
    <3>. QED  BY <2>1, <3>1, FlushShape, Zenon DEF Advance
  <2>2. ASSUME NEW c \in Ranks, HandleReduce(r, c)
        PROVE  UNCHANGED repVars \/ \E d \in EventMaps : LeadStep(d)
    <3>1. UpdateBy(diffs[r], Head(up[c])) \in EventMaps
      <4>1. Head(up[c]) \in EventMaps /\ diffs[r] \in EventMaps
        BY <2>2 DEF HandleReduce, TypeOK
      <4>. QED  BY <4>1, EventMapTypes, Zenon
    <3>. QED  BY <2>2, <3>1, FlushShape, Zenon DEF HandleReduce
  <2>. QED  BY <1>1, <2>1, <2>2, Zenon
<1>2. ASSUME NEW r \in Ranks, HandleBroadcast(r)
      PROVE  down[r] # <<>> /\ FollowStep(r, Head(down[r]))
  BY <1>2, Zenon DEF HandleBroadcast, Digest, Digested, FollowStep, Entry
<1>3. ASSUME NEW j \in Jobs, NEW r \in Ranks,
             \/ CommitRoot(r, j) \/ JoinNode(r, j) \/ SuspendNode(r, j) \/ LeaveNode(r, j)
      PROVE  UNCHANGED repVars
  BY Zenon, <1>3 DEF CommitRoot, JoinNode, SuspendNode, LeaveNode, OnActivate, OnSuspend, OnTerminate,
              nodeVars, netVars, repVars
<1>4. ASSUME NEW j \in Jobs, NEW r \in Ranks, AddRootRequest(r, j)
      PROVE  UNCHANGED repVars \/ \E d \in EventMaps : LeadStep(d)
  <2>1. PICK e \in Event : PushEvent(r, j, e, [rootRequest EXCEPT ![j] = r])
    BY <1>4, EventTypes, Zenon DEF AddRootRequest, OnProbe
  <2>. QED  BY <2>1, PushShape, Zenon
<1>5. ASSUME NEW j \in Jobs,
             (\E d \in Demands : ExecuteRoot(j, d) \/ ChangeDemand(j, d)) \/ SuspendRoot(j)
      PROVE  UNCHANGED repVars \/ \E b \in EventMaps : LeadStep(b)
  <2>1. home[j] \in Ranks /\ rootEpoch[home[j]][j] < MaxJobEpoch
    BY <1>5, Zenon DEF ExecuteRoot, ChangeDemand, SuspendRoot, RootKnown
  <2>2. rootEpoch[home[j]][j] + 1 \in 1..MaxJobEpoch
    BY <2>1 DEF TypeOK
  <2>3. PICK e \in Event : PushEvent(home[j], j, e, rootRequest)
    BY <1>5, <2>2, EventTypes, Zenon
       DEF ExecuteRoot, ChangeDemand, SuspendRoot, OnDemandChange, OnSuspend
  <2>. QED  BY <2>1, <2>3, PushShape, Zenon
<1>6. ASSUME NEW j \in Jobs, TerminateRoot(j)
      PROVE  UNCHANGED repVars \/ \E b \in EventMaps : LeadStep(b)
  <2>1. home[j] \in Ranks /\ rootEpoch[home[j]][j] # 0
    BY <1>6 DEF TerminateRoot, RootKnown
  <2>2. PICK e \in Event : PushEvent(home[j], j, e, rootRequest)
    BY <1>6, <2>1, EventTypes, Zenon DEF TerminateRoot, OnTerminate
  <2>. QED  BY <2>1, <2>2, PushShape, Zenon
<1>7. CASE UNCHANGED vars
  BY <1>7, Zenon DEF vars, nodeVars, netVars, repVars
<1>. QED
  BY <1>1, <1>2, <1>3, <1>4, <1>5, <1>6, <1>7, Zenon DEF Next, Balance, Drive

\* Appending to and taking from a queue.
LEMMA AppendFacts ==
    ASSUME NEW S, NEW q \in Seq(S), NEW x \in S
    PROVE  /\ Len(Append(q, x)) = Len(q) + 1
           /\ \A i \in 1..Len(q) : Append(q, x)[i] = q[i]
           /\ Append(q, x)[Len(q) + 1] = x
OBVIOUS

\* What is left of a queue once its head is taken.
LEMMA TailFacts ==
    ASSUME NEW S, NEW q \in Seq(S), q # <<>>
    PROVE  /\ Len(q) \in Nat \ {0} /\ Len(Tail(q)) = Len(q) - 1
           /\ \A i \in 1..(Len(q) - 1) : Tail(q)[i] = q[i + 1]
           /\ Head(q) = q[1]
OBVIOUS

\* The parts of ReplicasFollowLog, each for one rank or one entry.
ReplicaAt(r) ==
    /\ globalEpoch[r] = balancingEpoch[r]
    /\ balancingEpoch[r] <= Len(log)
    /\ states[r] = IF balancingEpoch[r] = 0 THEN EmptyMap ELSE log[balancingEpoch[r]].result
    /\ volumes[r] = IF balancingEpoch[r] = 0 THEN NoVolumes ELSE log[balancingEpoch[r]].volumes

EntryAt(n) == log[n] = Entry(IF n = 1 THEN EmptyMap ELSE log[n - 1].result, log[n].events)

InTransit(c) ==
    /\ balancingEpoch[ParentRank[c]] = balancingEpoch[c] + Len(down[c])
    /\ \A i \in 1..Len(down[c]) : down[c][i] = Pending(c, i)

FollowLogByParts ==
    /\ balancingEpoch[0] = Len(log)
    /\ \A r \in Ranks : ReplicaAt(r)
    /\ \A n \in 1..Len(log) : EntryAt(n)
    /\ \A c \in Ranks \ {0} : InTransit(c)
    /\ down[0] = <<>>

\* The replicas' invariant, cut into the parts the proof treats one by one.
LEMMA FollowLogParts == TypeOK => (ReplicasFollowLog <=> FollowLogByParts)
<1> SUFFICES ASSUME TypeOK PROVE ReplicasFollowLog <=> FollowLogByParts
  BY Zenon
<1>1. globalEpoch = balancingEpoch <=> \A r \in Ranks : globalEpoch[r] = balancingEpoch[r]
  BY DEF TypeOK
<1>2. ASSUME NEW n \in 1..Len(log)
      PROVE  EntryAt(n) <=>
               LET s == UpdateBy(IF n = 1 THEN EmptyMap ELSE log[n - 1].result, log[n].events)
               IN log[n].result = RemoveOldZeros(s) /\ log[n].volumes = BalancingResult(s)
  <2>1. log[n] \in LogEntry
    BY DEF TypeOK
  <2>. QED  BY <2>1 DEF EntryAt, Entry, LogEntry
<1>. QED  BY <1>1, <1>2, Zenon DEF ReplicasFollowLog, FollowLogByParts, ReplicaAt, InTransit

\* Rank 0's step extends the log, and the log's entries are exactly what it broadcasts.
LEMMA LeadKeeps ==
    ASSUME TypeOK, FollowLogByParts, NEW d \in EventMaps, LeadStep(d)
    PROVE  /\ FollowLogByParts'
           /\ Len(log') = Len(log) + 1
           /\ \A k \in 1..Len(log) : log'[k] = log[k]
           /\ log'[Len(log) + 1] = Entry(states[0], d)
           /\ globalEpoch' = [globalEpoch EXCEPT ![0] = Len(log) + 1]
<1> DEFINE n == Len(log) + 1
           msg == [epoch |-> n, events |-> d]
<1>a. 0 \in Ranks
  BY BalancerAssumption DEF Ranks
<1>b. balancingEpoch \in [Ranks -> Nat] /\ globalEpoch \in [Ranks -> Nat]
  BY Zenon DEF TypeOK
<1>c. states \in [Ranks -> EventMaps] /\ volumes \in [Ranks -> [Jobs -> Nat]]
  BY Zenon DEF TypeOK
<1>d. log \in Seq(LogEntry) /\ Len(log) \in Nat
  <2>1. log \in Seq(LogEntry)
    BY Zenon DEF TypeOK
  <2>. QED  BY <2>1
<1>e. \A c \in Ranks : down[c] \in Seq(Broadcast) /\ Len(down[c]) \in Nat
  <2>1. \A c \in Ranks : down[c] \in Seq(Broadcast)
    BY Zenon DEF TypeOK
  <2>. QED  BY <2>1
<1>1. balancingEpoch[0] = Len(log) /\ down[0] = <<>>
  BY Zenon DEF FollowLogByParts
<1>2. \A r \in Ranks : ReplicaAt(r)
  BY Zenon DEF FollowLogByParts
<1>3. /\ Len(log') = n
      /\ \A k \in 1..Len(log) : log'[k] = log[k]
      /\ log'[n] = Entry(states[0], d)
  <2>1. Entry(states[0], d) \in LogEntry
    <3>0. states[0] \in EventMaps
      BY <1>a, <1>c, Zenon
    <3>1. UpdateBy(states[0], d) \in EventMaps /\ RemoveOldZeros(UpdateBy(states[0], d)) \in EventMaps
      BY <3>0, EventMapTypes, Zenon
    <3>2. BalancingResult(UpdateBy(states[0], d)) \in [Jobs -> Nat]
      BY <3>1, VolumesAssumption, Zenon DEF BalancingResult, NoVolumes
    <3>. QED  BY <3>1, <3>2, Zenon DEF Entry, LogEntry
  <2>2. log' = Append(log, Entry(states[0], d))
    BY Zenon DEF LeadStep
  <2>. QED  BY <1>d, <2>1, <2>2, AppendFacts
<1>4. balancingEpoch' = [balancingEpoch EXCEPT ![0] = n] /\ globalEpoch' = [globalEpoch EXCEPT ![0] = n]
  <2>1. globalEpoch[0] = Len(log)
    BY <1>a, <1>1, <1>2, Zenon DEF ReplicaAt
  <2>2. balancingEpoch[0] + 1 > globalEpoch[0]
    BY <1>d, <1>1, <2>1
  <2>. QED  BY <1>1, <2>2, Zenon DEF LeadStep
<1>5. \A r \in Ranks : /\ balancingEpoch'[r] = IF r = 0 THEN n ELSE balancingEpoch[r]
                       /\ globalEpoch'[r] = IF r = 0 THEN n ELSE globalEpoch[r]
  BY <1>b, <1>4, Zenon
<1>6. \A r \in Ranks : /\ states'[r] = IF r = 0 THEN Entry(states[0], d).result ELSE states[r]
                       /\ volumes'[r] = IF r = 0 THEN Entry(states[0], d).volumes ELSE volumes[r]
  BY <1>c, Zenon DEF LeadStep
<1>7. ASSUME NEW r \in Ranks PROVE ReplicaAt(r)'
  <2>1. CASE r = 0
    <3>1. n # 0 /\ n <= n
      BY <1>d
    <3>2. /\ balancingEpoch'[r] = n /\ globalEpoch'[r] = n
          /\ states'[r] = log'[n].result /\ volumes'[r] = log'[n].volumes
      BY <1>3, <1>5, <1>6, <2>1, Zenon
    <3> HIDE DEF n
    <3>. QED  BY <1>3, <3>1, <3>2, Zenon DEF ReplicaAt
  <2>2. CASE r # 0
    <3>1. /\ balancingEpoch'[r] = balancingEpoch[r] /\ globalEpoch'[r] = globalEpoch[r]
          /\ states'[r] = states[r] /\ volumes'[r] = volumes[r]
      BY <1>5, <1>6, <2>2, Zenon
    <3>2. ReplicaAt(r)
      BY <1>2, Zenon
    <3>3. /\ balancingEpoch[r] <= n
          /\ balancingEpoch[r] = 0 \/ log'[balancingEpoch[r]] = log[balancingEpoch[r]]
      BY <1>b, <1>d, <1>3, <3>2 DEF ReplicaAt
    <3> HIDE DEF n
    <3>. QED  BY <1>3, <3>1, <3>2, <3>3, Zenon DEF ReplicaAt
  <2>. QED  BY <2>1, <2>2, Zenon
<1>8. ASSUME NEW k \in 1..n PROVE EntryAt(k)'
  <2>1. CASE k = n
    <3>0. /\ balancingEpoch[0] = n - 1
          /\ balancingEpoch[0] = 0 <=> n = 1
          /\ n = 1 \/ n - 1 \in 1..Len(log)
      BY <1>d, <1>1
    <3>1. states[0] = IF n = 1 THEN EmptyMap ELSE log[n - 1].result
      <4> HIDE DEF n
      <4>. QED  BY <1>a, <1>2, <3>0, Zenon DEF ReplicaAt
    <3>2. states[0] = IF n = 1 THEN EmptyMap ELSE log'[n - 1].result
      BY <1>3, <3>0, <3>1, Zenon
    <3>3. Entry(states[0], d).events = d
      BY Zenon DEF Entry
    <3> HIDE DEF n
    <3>. QED  BY <1>3, <2>1, <3>2, <3>3, Zenon DEF EntryAt
  <2>2. CASE k # n
    <3>1. k \in 1..Len(log) /\ (k = 1 \/ k - 1 \in 1..Len(log))
      BY <1>d, <2>2
    <3>2. EntryAt(k)
      BY <3>1, Zenon DEF FollowLogByParts
    <3>. QED  BY <1>3, <3>1, <3>2, Zenon DEF EntryAt
  <2>. QED  BY <2>1, <2>2, Zenon
<1>9. \A c \in Ranks : down'[c] = IF c \in ChildRanks[0] THEN Append(down[c], msg) ELSE down[c]
  BY <1>1 DEF LeadStep, ForwardDown, IsRoot, IsLeaf
<1>10. msg \in Broadcast
  BY <1>d DEF Broadcast
<1>11. ASSUME NEW c \in Ranks \ {0} PROVE InTransit(c)'
  <2>0. balancingEpoch[c] \in Nat /\ Len(down[c]) \in Nat /\ balancingEpoch'[c] = balancingEpoch[c]
    BY <1>b, <1>e, <1>5, Zenon
  <2>a. /\ balancingEpoch[ParentRank[c]] = balancingEpoch[c] + Len(down[c])
        /\ \A i \in 1..Len(down[c]) : down[c][i] = Pending(c, i)
    BY Zenon DEF FollowLogByParts, InTransit
  <2>b. ParentRank[c] \in Ranks /\ balancingEpoch[ParentRank[c]] <= Len(log)
    BY <1>2, TreeAssumption, Zenon DEF ReplicaAt
  <2>c. ASSUME NEW i \in 1..Len(down[c]) PROVE Pending(c, i)' = down[c][i]
    <3>1. balancingEpoch[c] + i \in 1..Len(log)
      BY <1>d, <2>0, <2>a, <2>b
    <3>2. log'[balancingEpoch[c] + i] = log[balancingEpoch[c] + i]
      BY <1>3, <3>1, Zenon
    <3>. QED  BY <2>0, <2>a, <3>2, Zenon DEF Pending
  <2>1. CASE c \in ChildRanks[0]
    <3>1. ParentRank[c] = 0
      BY <1>a, <2>1, TreeAssumption, Zenon
    <3>2. /\ Len(down'[c]) = Len(down[c]) + 1
          /\ \A i \in 1..Len(down[c]) : down'[c][i] = down[c][i]
          /\ down'[c][Len(down[c]) + 1] = msg
      <4>1. down'[c] = Append(down[c], msg) /\ down[c] \in Seq(Broadcast)
        BY <1>e, <1>9, <2>1, Zenon
      <4> HIDE DEF msg
      <4>2. /\ Len(Append(down[c], msg)) = Len(down[c]) + 1
            /\ \A i \in 1..Len(down[c]) : Append(down[c], msg)[i] = down[c][i]
            /\ Append(down[c], msg)[Len(down[c]) + 1] = msg
        BY <1>10, <4>1, AppendFacts
      <4>. QED  BY <4>1, <4>2, Zenon
    <3>3. ASSUME NEW i, i = Len(down[c]) + 1 PROVE Pending(c, i)' = msg
      <4>1. balancingEpoch[c] + i = n
        BY <1>d, <1>1, <2>0, <2>a, <3>1, <3>3, SMTT(20)
      <4>2. log'[n].events = d
        BY <1>3 DEF Entry
      <4>. QED  BY <2>0, <4>1, <4>2, Zenon DEF Pending
    <3>4. balancingEpoch'[ParentRank[c]] = balancingEpoch'[c] + Len(down'[c])
      <4>1. balancingEpoch'[0] = Len(log) + 1
        BY <1>a, <1>5, Zenon
      <4>2. Len(log) = balancingEpoch[c] + Len(down[c])
        BY <1>1, <2>a, <3>1, Zenon
      <4>3. Len(down'[c]) = Len(down[c]) + 1
        BY <3>2, Zenon
      <4>. QED  BY <2>0, <3>1, <4>1, <4>2, <4>3
    <3>5. ASSUME NEW i \in 1..Len(down'[c]) PROVE down'[c][i] = Pending(c, i)'
      <4>1. i \in 1..Len(down[c]) \/ i = Len(down[c]) + 1
        BY <2>0, <3>2
      <4> HIDE DEF msg
      <4>. QED  BY <2>c, <3>2, <3>3, <4>1, Zenon
    <3>. QED  BY <3>4, <3>5, Zenon DEF InTransit
  <2>2. CASE c \notin ChildRanks[0]
    <3>1. ParentRank[c] # 0
      BY <1>a, <2>2, TreeAssumption, Zenon DEF IsRoot
    <3>2. down'[c] = down[c] /\ balancingEpoch'[ParentRank[c]] = balancingEpoch[ParentRank[c]]
      BY <1>5, <1>9, <2>b, <2>2, <3>1, Zenon
    <3>. QED  BY <2>0, <2>a, <2>c, <3>2, Zenon DEF InTransit
  <2>. QED  BY <2>1, <2>2, Zenon
<1>12. down'[0] = <<>>
  <2>1. 0 \notin ChildRanks[0]
    BY <1>a, TreeAssumption, Zenon DEF IsRoot
  <2>. QED  BY <1>a, <1>1, <1>9, <2>1, Zenon
<1>13. balancingEpoch'[0] = Len(log')
  BY <1>a, <1>3, <1>5, Zenon
<1>14. \A k \in 1..Len(log') : EntryAt(k)'
  <2> HIDE DEF n
  <2>. QED  BY <1>3, <1>8, Zenon
<1>15. FollowLogByParts'
  BY <1>7, <1>11, <1>12, <1>13, <1>14, Zenon DEF FollowLogByParts
<1>. QED  BY <1>3, <1>4, <1>15, Zenon

\* A digested broadcast takes a rank to the next entry of the log.
LEMMA FollowKeeps ==
    ASSUME TypeOK, FollowLogByParts, NEW r \in Ranks, down[r] # <<>>,
           FollowStep(r, Head(down[r]))
    PROVE  /\ FollowLogByParts'
           /\ r # 0 /\ balancingEpoch[r] < Len(log)
           /\ globalEpoch' = [globalEpoch EXCEPT ![r] = balancingEpoch[r] + 1]
           /\ log' = log
           /\ states' = [states EXCEPT ![r] = log[balancingEpoch[r] + 1].result]
           /\ volumes' = [volumes EXCEPT ![r] = log[balancingEpoch[r] + 1].volumes]
<1> DEFINE n == balancingEpoch[r] + 1
           msg == Head(down[r])
<1>a. 0 \in Ranks
  BY BalancerAssumption DEF Ranks
<1>b. balancingEpoch \in [Ranks -> Nat] /\ globalEpoch \in [Ranks -> Nat]
  BY Zenon DEF TypeOK
<1>c. states \in [Ranks -> EventMaps] /\ volumes \in [Ranks -> [Jobs -> Nat]]
  BY Zenon DEF TypeOK
<1>d. Len(log) \in Nat
  <2>1. log \in Seq(LogEntry)
    BY Zenon DEF TypeOK
  <2>. QED  BY <2>1
<1>e. \A c \in Ranks : down[c] \in Seq(Broadcast) /\ Len(down[c]) \in Nat
  <2>1. \A c \in Ranks : down[c] \in Seq(Broadcast)
    BY Zenon DEF TypeOK
  <2>. QED  BY <2>1
<1>1. balancingEpoch[0] = Len(log) /\ down[0] = <<>>
  BY Zenon DEF FollowLogByParts
<1>2. \A q \in Ranks : ReplicaAt(q)
  BY Zenon DEF FollowLogByParts
<1>3. r # 0 /\ ~IsRoot(r)
  BY <1>1, Zenon DEF IsRoot
<1>4. /\ Len(down[r]) \in Nat \ {0} /\ Len(Tail(down[r])) = Len(down[r]) - 1
      /\ \A i \in 1..(Len(down[r]) - 1) : Tail(down[r])[i] = down[r][i + 1]
      /\ msg = down[r][1]
  BY <1>e, TailFacts, Zenon
<1>5. /\ balancingEpoch[ParentRank[r]] = balancingEpoch[r] + Len(down[r])
      /\ \A i \in 1..Len(down[r]) : down[r][i] = Pending(r, i)
  BY <1>3, Zenon DEF FollowLogByParts, InTransit
<1>6. n \in 1..Len(log)
  <2>1. ParentRank[r] \in Ranks /\ balancingEpoch[ParentRank[r]] <= Len(log)
    BY <1>2, TreeAssumption, Zenon DEF ReplicaAt
  <2>2. balancingEpoch[r] \in Nat
    BY <1>b, Zenon
  <2>. QED  BY <1>d, <1>4, <1>5, <2>1, <2>2
<1>7. msg = [epoch |-> n, events |-> log[n].events]
  <2>1. msg = Pending(r, 1)
    BY <1>4, <1>5
  <2>. QED  BY <2>1, Zenon DEF Pending
<1>8. /\ balancingEpoch' = [balancingEpoch EXCEPT ![r] = n]
      /\ globalEpoch' = [globalEpoch EXCEPT ![r] = n]
  <2>1. globalEpoch[r] = balancingEpoch[r] /\ n > balancingEpoch[r]
    BY <1>b, <1>2 DEF ReplicaAt
  <2>2. msg.epoch = n
    BY <1>7
  <2>. QED  BY <2>1, <2>2, Zenon DEF FollowStep
<1>9. Entry(states[r], msg.events) = log[n]
  <2>1. states[r] = IF n = 1 THEN EmptyMap ELSE log[n - 1].result
    BY <1>b, <1>2 DEF ReplicaAt
  <2>2. log[n] = Entry(IF n = 1 THEN EmptyMap ELSE log[n - 1].result, log[n].events)
    BY <1>6, Zenon DEF FollowLogByParts, EntryAt
  <2>3. msg.events = log[n].events
    BY <1>7
  <2>. QED  BY <2>1, <2>2, <2>3, Zenon
<1>10. /\ log' = log
       /\ states' = [states EXCEPT ![r] = log[n].result]
       /\ volumes' = [volumes EXCEPT ![r] = log[n].volumes]
  BY <1>9, Zenon DEF FollowStep
<1>f. \A q \in Ranks : /\ balancingEpoch'[q] = IF q = r THEN n ELSE balancingEpoch[q]
                       /\ globalEpoch'[q] = IF q = r THEN n ELSE globalEpoch[q]
  BY <1>b, <1>8, Zenon
<1>g. \A q \in Ranks : /\ states'[q] = IF q = r THEN log[n].result ELSE states[q]
                       /\ volumes'[q] = IF q = r THEN log[n].volumes ELSE volumes[q]
  BY <1>c, <1>10, Zenon
<1>11. ASSUME NEW q \in Ranks PROVE ReplicaAt(q)'
  <2>1. CASE q = r
    <3>1. n <= Len(log) /\ n # 0
      BY <1>d, <1>6
    <3> HIDE DEF n
    <3>. QED  BY <1>f, <1>g, <1>10, <2>1, <3>1, Zenon DEF ReplicaAt
  <2>2. CASE q # r
    <3>1. ReplicaAt(q)
      BY <1>2, Zenon
    <3>. QED  BY <1>f, <1>g, <1>10, <2>2, <3>1 DEF ReplicaAt
  <2>. QED  BY <2>1, <2>2, Zenon
<1>12. \A k \in 1..Len(log') : EntryAt(k)'
  BY <1>10, Zenon DEF FollowLogByParts, EntryAt
<1>13. msg \in Broadcast
  <2>1. down[r] \in Seq(Broadcast)
    BY <1>e, Zenon
  <2>. QED  BY <2>1
<1>14. ASSUME NEW c \in Ranks
       PROVE  down'[c] = LET rest == IF c = r THEN Tail(down[c]) ELSE down[c]
                         IN IF c \in ChildRanks[r] THEN Append(rest, msg) ELSE rest
  <2>1. IsLeaf(r) => ChildRanks[r] = {}
    BY TreeAssumption, Zenon DEF IsLeaf
  <2>. QED  BY <1>3, <2>1, Zenon DEF FollowStep, ForwardDown
<1>15. ASSUME NEW c \in Ranks \ {0} PROVE InTransit(c)'
  <2>0. ParentRank[c] \in Ranks /\ ParentRank[c] < c /\ ParentRank[r] < r
    BY <1>3, TreeAssumption, Zenon DEF IsRoot
  <2>a. /\ balancingEpoch[ParentRank[c]] = balancingEpoch[c] + Len(down[c])
        /\ \A i \in 1..Len(down[c]) : down[c][i] = Pending(c, i)
    BY Zenon DEF FollowLogByParts, InTransit
  <2>b. balancingEpoch[c] \in Nat /\ balancingEpoch[r] \in Nat /\ Len(down[c]) \in Nat
    BY <1>b, <1>e, Zenon
  <2>1. CASE c = r
    <3>0. ParentRank[r] # r /\ ParentRank[r] \in Ranks
      BY <2>0, <2>1 DEF Ranks
    <3>1. r \notin ChildRanks[r]
      BY <3>0, TreeAssumption, Zenon
    <3>2. down'[r] = Tail(down[r])
      BY <1>14, <3>1, Zenon
    <3>3. balancingEpoch'[r] = n /\ balancingEpoch'[ParentRank[r]] = balancingEpoch[ParentRank[r]]
      BY <1>f, <3>0, Zenon
    <3>4. balancingEpoch'[ParentRank[r]] = balancingEpoch'[r] + Len(down'[r])
      <4>1. Len(down'[r]) = Len(down[r]) - 1 /\ Len(down[r]) \in Nat
        BY <1>4, <3>2, Zenon
      <4>2. balancingEpoch[ParentRank[r]] = balancingEpoch[r] + Len(down[r])
        BY <1>5, Zenon
      <4>3. \A a, b \in Nat : a + b = (a + 1) + (b - 1)
        OBVIOUS
      <4>. QED  BY <2>b, <3>3, <4>1, <4>2, <4>3, ZenonT(30)
    <3>5. ASSUME NEW i \in 1..Len(down'[r]) PROVE down'[r][i] = Pending(r, i)'
      <4>1. i \in 1..(Len(down[r]) - 1) /\ i + 1 \in 1..Len(down[r])
        BY <1>4, <3>2
      <4>2. down'[r][i] = Pending(r, i + 1)
        BY <1>4, <1>5, <3>2, <4>1, Zenon
      <4>3. balancingEpoch[r] + (i + 1) = n + i
        BY <2>b
      <4>. QED  BY <1>10, <3>3, <4>2, <4>3, Zenon DEF Pending
    <3>. QED  BY <2>1, <3>4, <3>5, Zenon DEF InTransit
  <2>2. CASE c # r /\ c \in ChildRanks[r]
    <3>1. ParentRank[c] = r
      BY <2>2, TreeAssumption, Zenon
    <3>2. down'[c] = Append(down[c], msg) /\ down[c] \in Seq(Broadcast) /\ Len(down[c]) \in Nat
      <4> HIDE DEF msg
      <4>1. down'[c] = Append(down[c], msg)
        BY <1>14, <2>2, Zenon
      <4>. QED  BY <1>e, <4>1, Zenon
    <3>3. /\ Len(down'[c]) = Len(down[c]) + 1
          /\ \A i \in 1..Len(down[c]) : down'[c][i] = down[c][i]
          /\ down'[c][Len(down[c]) + 1] = msg
      <4> HIDE DEF msg
      <4>1. /\ Len(Append(down[c], msg)) = Len(down[c]) + 1
            /\ \A i \in 1..Len(down[c]) : Append(down[c], msg)[i] = down[c][i]
            /\ Append(down[c], msg)[Len(down[c]) + 1] = msg
        BY <1>13, <3>2, AppendFacts
      <4>. QED  BY <3>2, <4>1, Zenon
    <3>4. balancingEpoch'[c] = balancingEpoch[c] /\ balancingEpoch'[r] = n
      BY <1>f, <2>2, Zenon
    <3>5. balancingEpoch'[ParentRank[c]] = balancingEpoch'[c] + Len(down'[c])
      <4>1. n = balancingEpoch[c] + Len(down[c]) + 1
        BY <2>a, <2>b, <3>1, Zenon
      <4>2. Len(down'[c]) = Len(down[c]) + 1
        BY <3>3, Zenon
      <4>. QED  BY <2>b, <3>1, <3>4, <4>1, <4>2
    <3>6. ASSUME NEW i \in 1..Len(down'[c]) PROVE down'[c][i] = Pending(c, i)'
      <4>1. Pending(c, i)' = Pending(c, i)
        BY <1>10, <3>4, Zenon DEF Pending
      <4>2. CASE i \in 1..Len(down[c])
        BY <2>a, <3>3, <4>1, <4>2, Zenon
      <4>3. CASE i = Len(down[c]) + 1
        <5>1. balancingEpoch[c] + i = n
          BY <2>a, <2>b, <3>1, <4>3
        <5>2. Pending(c, i) = msg
          BY <1>7, <5>1, Zenon DEF Pending
        <5> HIDE DEF msg
        <5>. QED  BY <3>3, <4>1, <4>3, <5>2, Zenon
      <4>. QED  BY <3>2, <3>3, <4>2, <4>3
    <3>. QED  BY <3>5, <3>6, Zenon DEF InTransit
  <2>3. CASE c # r /\ c \notin ChildRanks[r]
    <3>1. ParentRank[c] # r
      BY <2>3, TreeAssumption, Zenon DEF IsRoot
    <3>2. /\ down'[c] = down[c]
          /\ balancingEpoch'[c] = balancingEpoch[c]
          /\ balancingEpoch'[ParentRank[c]] = balancingEpoch[ParentRank[c]]
      BY <1>f, <1>14, <2>0, <2>3, <3>1, Zenon
    <3>. QED  BY <1>10, <2>a, <3>2, Zenon DEF InTransit, Pending
  <2>. QED  BY <2>1, <2>2, <2>3, Zenon
<1>16. 0 \notin ChildRanks[r]
  BY <1>a, TreeAssumption, Zenon DEF IsRoot
<1>17. down'[0] = <<>> /\ balancingEpoch'[0] = Len(log')
  BY <1>a, <1>1, <1>3, <1>f, <1>10, <1>14, <1>16, Zenon
<1>18. FollowLogByParts'
  BY <1>11, <1>12, <1>15, <1>17, Zenon DEF FollowLogByParts
<1>19. balancingEpoch[r] < Len(log)
  BY <1>b, <1>d, <1>6
<1>. QED  BY <1>3, <1>8, <1>10, <1>18, <1>19, Zenon

\* The inductive invariant of the replicas holds: every rank is where rank 0 was after
\* as many batches, and exactly the missing batches are in transit to it.
THEOREM ReplicasFollow == Spec => []ReplicasFollowLog
<1>1. Init => FollowLogByParts
  <2> SUFFICES ASSUME Init PROVE FollowLogByParts
    BY Zenon
  <2>0. 0 \in Ranks /\ \A c \in Ranks : ParentRank[c] \in Ranks
    BY BalancerAssumption, TreeAssumption DEF Ranks
  <2>1. log = <<>> /\ Len(log) = 0
    BY Zenon DEF Init
  <2>2. \A r \in Ranks : balancingEpoch[r] = 0 /\ globalEpoch[r] = 0 /\ down[r] = <<>>
    BY Zenon DEF Init
  <2>3. \A r \in Ranks : states[r] = EmptyMap /\ volumes[r] = NoVolumes
    BY Zenon DEF Init
  <2>4. \A r \in Ranks : ReplicaAt(r)
    BY <2>1, <2>2, <2>3 DEF ReplicaAt
  <2>5. \A c \in Ranks \ {0} : InTransit(c)
    BY <2>0, <2>2 DEF InTransit
  <2>. QED  BY <2>0, <2>1, <2>2, <2>4, <2>5 DEF FollowLogByParts
<1>2. TypeOK /\ RootKnown /\ FollowLogByParts /\ [Next]_vars => FollowLogByParts'
  <2> SUFFICES ASSUME TypeOK, RootKnown, FollowLogByParts, [Next]_vars PROVE FollowLogByParts'
    BY Zenon
  <2>1. CASE UNCHANGED repVars
    BY <2>1, Zenon DEF repVars, FollowLogByParts, ReplicaAt, EntryAt, InTransit, Pending
  <2>2. CASE \E d \in EventMaps : LeadStep(d)
    BY <2>2, LeadKeeps, Zenon
  <2>3. CASE \E r \in Ranks : down[r] # <<>> /\ FollowStep(r, Head(down[r]))
    BY <2>3, FollowKeeps, Zenon
  <2>. QED  BY <2>1, <2>2, <2>3, StepShape, Zenon
<1>. QED  BY <1>1, <1>2, TypeCorrect, FollowLogParts, PTL DEF Spec

\* Ranks that have digested equally many broadcasts hold the same events and assign the
\* same volumes (digest, computeBalancingResult), for every number of ranks and jobs.
THEOREM RanksAgree == Spec => []Agreement
<1>1. ReplicasFollowLog => Agreement
  <2>1. ASSUME ReplicasFollowLog, NEW r \in Ranks, NEW q \in Ranks, globalEpoch[r] = globalEpoch[q]
        PROVE  states[r] = states[q] /\ volumes[r] = volumes[q]
    <3>1. balancingEpoch[r] = balancingEpoch[q]
      BY <2>1, Zenon DEF ReplicasFollowLog
    <3>2. ASSUME NEW x \in Ranks
          PROVE  /\ states[x] = IF balancingEpoch[x] = 0 THEN EmptyMap ELSE log[balancingEpoch[x]].result
                 /\ volumes[x] = IF balancingEpoch[x] = 0 THEN NoVolumes ELSE log[balancingEpoch[x]].volumes
      BY <2>1, Zenon DEF ReplicasFollowLog
    <3>. QED  BY <3>1, <3>2, Zenon
  <2>. QED  BY <2>1, Zenon DEF Agreement
<1>. QED  BY <1>1, ReplicasFollow, PTL

\* The tree of balancers implements the abstract log: every step of any rank is a step
\* of the log or leaves it alone (handleData, digest, computeBalancingResult).
THEOREM BalancerImplementsLog == Spec => ImplementsLog
<1>1. Init => Abstract!Init
  BY Zenon DEF Init, Abstract!Init, EmptyMap, Abstract!EmptyMap
<1>2. TypeOK /\ RootKnown /\ FollowLogByParts /\ [Next]_vars => [Abstract!Next]_(Abstract!vars)
  <2> SUFFICES ASSUME TypeOK, RootKnown, FollowLogByParts, [Next]_vars
               PROVE  Abstract!Next \/ UNCHANGED Abstract!vars
    BY Zenon
  <2>0. /\ globalEpoch = balancingEpoch
        /\ Len(log) \in Nat /\ 0 \in Ranks
    <3>1. log \in Seq(LogEntry) /\ balancingEpoch \in [Ranks -> Nat] /\ globalEpoch \in [Ranks -> Nat]
      BY Zenon DEF TypeOK
    <3>. QED  BY <3>1, BalancerAssumption DEF FollowLogByParts, ReplicaAt, Ranks
  <2>1. CASE UNCHANGED repVars
    BY <2>1, Zenon DEF repVars, Abstract!vars
  <2>2. ASSUME NEW d \in EventMaps, LeadStep(d) PROVE Abstract!Lead
    <3>1. /\ Len(log') = Len(log) + 1
          /\ \A k \in 1..Len(log) : log'[k] = log[k]
          /\ log'[Len(log) + 1] = Entry(states[0], d)
          /\ globalEpoch' = [globalEpoch EXCEPT ![0] = Len(log) + 1]
      BY <2>2, LeadKeeps, Zenon
    <3>2. globalEpoch[0] = Len(log) /\ DOMAIN log = 1..Len(log)
      BY <2>0 DEF FollowLogByParts, TypeOK
    <3>3. Abstract!TakeOver(0, Len(log) + 1)
      BY <2>2, <3>1, Zenon DEF LeadStep, Abstract!TakeOver
    <3>4. LET new == log'[Len(log) + 1]
          IN new.result = Abstract!RemoveOldZeros(Abstract!UpdateBy(states[0], new.events))
      <4>1. Abstract!UpdateBy(states[0], d) = UpdateBy(states[0], d)
        BY Zenon DEF UpdateBy, IsNovel, Dominates, Abstract!UpdateBy, Abstract!IsNovel,
                     Abstract!Dominates
      <4>2. ASSUME NEW m PROVE Abstract!RemoveOldZeros(m) = RemoveOldZeros(m)
        BY Zenon DEF RemoveOldZeros, Abstract!RemoveOldZeros
      <4>3. /\ Entry(states[0], d).events = d
            /\ Entry(states[0], d).result = RemoveOldZeros(UpdateBy(states[0], d))
        BY Zenon DEF Entry
      <4>4. /\ log'[Len(log) + 1].events = d
            /\ log'[Len(log) + 1].result = RemoveOldZeros(UpdateBy(states[0], d))
        BY <3>1, <4>3, Zenon
      <4>. QED  BY <4>1, <4>2, <4>3, <4>4, Zenon
    <3>. QED  BY <3>1, <3>2, <3>3, <3>4, Zenon DEF Abstract!Lead
  <2>3. ASSUME NEW r \in Ranks, down[r] # <<>>, FollowStep(r, Head(down[r]))
        PROVE  r # 0 /\ Abstract!Follow(r)
    <3>1. /\ r # 0 /\ balancingEpoch[r] < Len(log)
          /\ globalEpoch' = [globalEpoch EXCEPT ![r] = balancingEpoch[r] + 1]
          /\ log' = log
          /\ states' = [states EXCEPT ![r] = log[balancingEpoch[r] + 1].result]
          /\ volumes' = [volumes EXCEPT ![r] = log[balancingEpoch[r] + 1].volumes]
      BY <2>3, FollowKeeps, Zenon
    <3>. QED  BY <2>0, <3>1, Zenon DEF Abstract!Follow, Abstract!TakeOver
  <2>. QED  BY <2>1, <2>2, <2>3, StepShape, Zenon DEF Abstract!Next
<1>. QED  BY <1>1, <1>2, ReplicasFollow, FollowLogParts, TypeCorrect, PTL
          DEF Spec, ImplementsLog, Abstract!Spec
\* Epochs are numbers, and NoEvent is no event.
LEMMA EventEpochs == \A e \in Event : e.epoch \in Nat /\ e # NoEvent
BY EventMapAssumption DEF Event

-----------------------------------------------------------------------------
(***************************************************************************)
(* Paths in the tree.                                                      *)
(***************************************************************************)
\* A rank is on its own path, with the parents of all others on it, and at its end
LEMMA PathFacts ==
    ASSUME NEW h \in Ranks
    PROVE  /\ Path(h) \subseteq Ranks /\ h \in Path(h)
           /\ \A a \in Path(h) : a # 0 => ParentRank[a] \in Path(h)
           /\ \A a \in Path(h) : a <= h
  <1>1. Path(h) \subseteq Ranks /\ h \in Path(h)
    BY Zenon DEF Path
  <1>2. ASSUME NEW a \in Path(h), a # 0 PROVE ParentRank[a] \in Path(h)
    <2>1. ParentRank[a] \in Ranks
      BY <1>1, TreeAssumption, Zenon
    <2>2. ASSUME NEW S \in SUBSET Ranks, h \in S, ClosedUpwards(S) PROVE ParentRank[a] \in S
      <3>1. a \in S
        BY <2>2, Zenon DEF Path
      <3>2. QED
        BY <1>2, <2>2, <3>1, Zenon DEF ClosedUpwards
    <2>3. QED
      BY <2>1, <2>2, Zenon DEF Path
  <1>3. ASSUME NEW a \in Path(h) PROVE a <= h
    <2> DEFINE S == {x \in Ranks : x <= h}
    <2>1. ClosedUpwards(S)
      <3>1. ASSUME NEW c \in S, c # 0 PROVE ParentRank[c] \in S
        <4>1. ParentRank[c] \in Ranks /\ ParentRank[c] < c
          BY <3>1, TreeAssumption, Zenon DEF IsRoot
        <4>2. QED
          BY <4>1, BalancerAssumption DEF Ranks
      <3>2. QED
        BY <3>1, Zenon DEF ClosedUpwards
    <2>2. h \in S /\ S \in SUBSET Ranks
      BY BalancerAssumption DEF Ranks
    <2> HIDE DEF S
    <2>3. a \in S
      BY <2>1, <2>2, Zenon DEF Path
    <2>4. QED
      BY <2>3, Zenon DEF S
  <1>4. QED
    BY <1>1, <1>2, <1>3, Zenon

\* A path goes on as the path of the parent, and paths of ranks on a path are parts of it
LEMMA PathStep ==
    ASSUME NEW h \in Ranks, NEW c \in Path(h), NEW x \in Path(c)
    PROVE  /\ x \in Path(h)
           /\ x = c \/ (c # 0 /\ x \in Path(ParentRank[c]))
  <1>0. c \in Ranks /\ x \in Ranks /\ ParentRank[c] \in Ranks
    BY PathFacts, TreeAssumption, Zenon DEF Path
  <1>1. x \in Path(h)
    <2>1. Path(h) \in SUBSET Ranks /\ ClosedUpwards(Path(h))
      BY PathFacts, Zenon DEF ClosedUpwards
    <2>2. QED
      BY <2>1, Zenon DEF Path
  <1>2. CASE c # 0
    <2> DEFINE S == {c} \cup Path(ParentRank[c])
    <2>1. S \in SUBSET Ranks /\ ClosedUpwards(S)
      BY <1>0, PathFacts, Zenon DEF ClosedUpwards
    <2>2. c \in S
      BY Zenon
    <2> HIDE DEF S
    <2>3. x \in S
      BY <2>1, <2>2, Zenon DEF Path
    <2>4. QED
      BY <1>1, <1>2, <2>3, Zenon DEF S
  <1>3. CASE c = 0
    <2>1. {0} \in SUBSET Ranks /\ ClosedUpwards({0})
      BY <1>0, <1>3, Zenon DEF ClosedUpwards
    <2>2. x \in {0}
      BY <1>3, <2>1, Zenon DEF Path
    <2>3. QED
      BY <1>1, <1>3, <2>2, Zenon
  <1>4. QED
    BY <1>2, <1>3, Zenon

\* Of two ranks on a path one is on the path of the other
LEMMA PathChain ==
    ASSUME NEW h \in Ranks, NEW a \in Path(h), NEW b \in Path(h)
    PROVE  a \in Path(b) \/ b \in Path(a)
  <1> DEFINE S == {x \in Path(h) : \A y \in Path(h) : x \in Path(y) \/ y \in Path(x)}
  <1>1. S \in SUBSET Ranks /\ h \in S
    BY PathFacts, Zenon
  <1>2. ASSUME NEW c \in S, c # 0 PROVE ParentRank[c] \in S
    <2>1. c \in Path(h) /\ c \in Ranks /\ ParentRank[c] \in Path(h)
      BY <1>2, PathFacts, Zenon
    <2>2. ASSUME NEW y \in Path(h) PROVE ParentRank[c] \in Path(y) \/ y \in Path(ParentRank[c])
      <3>0. y \in Ranks
        BY PathFacts, Zenon
      <3>1. CASE c \in Path(y)
        BY <1>2, <3>0, <3>1, PathFacts, Zenon
      <3>2. CASE y \in Path(c)
        <4>1. y = c \/ y \in Path(ParentRank[c])
          BY <2>1, <3>2, PathStep, Zenon
        <4>2. QED
          BY <1>2, <2>1, <4>1, PathFacts, Zenon
      <3>3. QED
        BY <3>1, <3>2, Zenon
    <2>3. QED
      BY <2>1, <2>2, Zenon
  <1>3. ClosedUpwards(S)
    BY <1>2, Zenon DEF ClosedUpwards
  <1> HIDE DEF S
  <1>4. a \in S
    BY <1>1, <1>3, Zenon DEF Path
  <1>5. QED
    BY <1>4, Zenon DEF S

\* No rank of a path lies between one of its ranks and that rank's parent
LEMMA PathGap ==
    ASSUME NEW h \in Ranks, NEW c \in Path(h), c # 0, NEW x \in Path(h)
    PROVE  /\ ParentRank[c] \in Path(h) /\ ParentRank[c] < c
           /\ x <= ParentRank[c] \/ c <= x
  <1>0. c \in Ranks /\ x \in Ranks /\ ParentRank[c] \in Ranks
    BY PathFacts, TreeAssumption, Zenon
  <1>1. ParentRank[c] \in Path(h) /\ ParentRank[c] < c
    BY <1>0, PathFacts, TreeAssumption, Zenon DEF IsRoot
  <1>2. CASE x \in Path(c)
    <2>1. x = c \/ x \in Path(ParentRank[c])
      BY <1>2, PathStep, Zenon
    <2>2. c <= c
      BY <1>0, BalancerAssumption DEF Ranks
    <2>3. QED
      BY <1>0, <1>1, <2>1, <2>2, PathFacts, Zenon
  <1>3. CASE c \in Path(x)
    BY <1>0, <1>1, <1>3, PathFacts, Zenon
  <1>4. QED
    BY <1>2, <1>3, PathChain, Zenon

-----------------------------------------------------------------------------
(***************************************************************************)
(* Single operations on the events on their way.                           *)
(***************************************************************************)
\* An entry of an event map at a place is an event or nothing
LEMMA AtType ==
    ASSUME NEW u \in [Ranks -> Seq(EventMaps)], NEW D \in [Ranks -> EventMaps], NEW j \in Jobs,
           NEW r \in Ranks, NEW i \in Places(u, r)
    PROVE  /\ At(u, D, r, i) \in EventMaps
           /\ At(u, D, r, i)[j] \in Event \cup {NoEvent}
           /\ At(u, D, r, i)[j] # NoEvent => /\ At(u, D, r, i)[j] \in Pend(u, D, j)
                                             /\ At(u, D, r, i)[j].epoch \in Nat
  <1>0. u[r] \in Seq(EventMaps) /\ D[r] \in EventMaps /\ i \in 1..(Len(u[r]) + 1)
    BY Zenon DEF Places
  <1>1. At(u, D, r, i) \in EventMaps
    <2>1. CASE i <= Len(u[r])
      BY <1>0, <2>1 DEF At
    <2>2. CASE ~(i <= Len(u[r]))
      BY <1>0, <2>2, Zenon DEF At
    <2>3. QED
      BY <2>1, <2>2, Zenon
  <1>2. At(u, D, r, i)[j] \in Event \cup {NoEvent}
    BY <1>1, Zenon DEF EventMaps
  <1>3. ASSUME NEW e \in Event PROVE e.epoch \in Nat
    BY EventEpochs, Zenon
  <1>4. QED
    BY <1>1, <1>2, <1>3, Zenon DEF Pend

\* Where events of job j are only left out their order stays
LEMMA FewerOrdered ==
    ASSUME NEW u, NEW D, NEW v, NEW C, NEW j \in Jobs, NEW o \in Ranks, OrderedFrom(u, D, j, o),
           \A r \in Ranks : \A i \in Places(v, r) : At(v, C, r, i)[j] # NoEvent =>
               i \in Places(u, r) /\ At(v, C, r, i)[j] = At(u, D, r, i)[j]
    PROVE  OrderedFrom(v, C, j, o)
BY DEF OrderedFrom

\* Changes of other jobs do not matter
LEMMA OtherFlows ==
    ASSUME NEW u \in [Ranks -> Seq(EventMaps)], NEW D \in [Ranks -> EventMaps],
           NEW C \in [Ranks -> EventMaps], NEW j \in Jobs, NEW L, NEW n, NEW h,
           Flows(j, u, D, L, n, h), \A r \in Ranks : C[r][j] = D[r][j]
    PROVE  Flows(j, u, C, L, n, h)
  <1>1. \A r \in Ranks : \A i \in Places(u, r) : At(u, C, r, i)[j] = At(u, D, r, i)[j]
    BY Zenon DEF At
  <1>2. Pend(u, C, j) = Pend(u, D, j)
    BY <1>1, Zenon DEF Pend
  <1>3. \A o \in Ranks : OrderedFrom(u, D, j, o) => OrderedFrom(u, C, j, o)
    BY <1>1, FewerOrdered, Zenon
  <1>4. QED
    BY <1>2, <1>3, Zenon DEF Flows

\* A new event of job j at the rank of the job's root, newer than all others
LEMMA InsertFlows ==
    ASSUME NEW u \in [Ranks -> Seq(EventMaps)], NEW D \in [Ranks -> EventMaps], NEW j \in Jobs,
           NEW L, NEW n \in Nat, NEW h, Flows(j, u, D, L, n, h), \A f \in L : f.epoch <= n,
           L \subseteq Event,
           NEW r \in Ranks, NEW e \in Event, e.epoch > n, WellFormed(e), h = r \/ (h = NoRank /\ n = 0)
    PROVE  Flows(j, u, [D EXCEPT ![r] = [D[r] EXCEPT ![j] = e]], L, e.epoch, h)
  <1> DEFINE C == [D EXCEPT ![r] = [D[r] EXCEPT ![j] = e]]
             last == Len(u[r]) + 1
  <1>0. /\ u[r] \in Seq(EventMaps) /\ D[r] \in EventMaps /\ Len(u[r]) \in Nat /\ last \in Places(u, r)
        /\ \A f \in Event : f.epoch \in Nat /\ f.epoch > 0 /\ f # NoEvent
    BY EventMapAssumption DEF Places, Event
  <1>1. C \in [Ranks -> EventMaps]
    BY <1>0, Zenon DEF EventMaps
  <1>2. ASSUME NEW q \in Ranks, NEW i \in Places(u, q)
        PROVE  At(u, C, q, i)[j] = IF q = r /\ i = last THEN e ELSE At(u, D, q, i)[j]
    <2>1. u[q] \in Seq(EventMaps) /\ Len(u[q]) \in Nat /\ i \in 1..(Len(u[q]) + 1)
      BY DEF Places
    <2>2. CASE q = r
      BY <1>0, <2>1, <2>2 DEF At, EventMaps
    <2>3. CASE q # r
      BY <2>1, <2>3, Zenon DEF At
    <2>4. QED
      BY <2>2, <2>3, Zenon
  <1> HIDE DEF C, last
  <1>3. Pend(u, C, j) \subseteq Pend(u, D, j) \cup {e} /\ e \in Pend(u, C, j)
    BY <1>0, <1>2, ZenonT(30) DEF Pend
  <1>4. \A f \in Pend(u, D, j) : f \in Event /\ f.epoch <= n
    BY Zenon DEF Flows, Pend
  <1>5. PICK o \in Ranks : (h # NoRank => o = h) /\ OrderedFrom(u, D, j, o)
    BY Zenon DEF Flows
  <1>6. /\ \A q \in Ranks : \A i \in Places(u, q) : At(u, D, q, i)[j] # NoEvent => r = o /\ q \in Path(o)
        /\ r # o => h = NoRank
    <2>1. ASSUME NEW q \in Ranks, NEW i \in Places(u, q), At(u, D, q, i)[j] # NoEvent PROVE r = o
      <3>1. At(u, D, q, i)[j] \in Pend(u, D, j)
        BY <2>1, AtType, Zenon
      <3>2. n # 0
        <4>1. ASSUME NEW f \in Pend(u, D, j) PROVE n # 0
          BY <1>0, <1>4
        <4>2. QED
          BY <3>1, <4>1, Zenon
      <3>3. QED
        BY <1>0, <1>5, <3>2 DEF Ranks, NoRank
    <2>2. r # o => h = NoRank
      BY <1>5, Zenon DEF Ranks, NoRank
    <2>3. QED
      BY <1>5, <2>1, <2>2, Zenon DEF OrderedFrom
  <1>7. OrderedFrom(u, C, j, r)
    <2>1. ASSUME NEW q \in Ranks, NEW i \in Places(u, q), At(u, C, q, i)[j] # NoEvent
          PROVE  q \in Path(r)
      BY <1>2, <1>6, <2>1, PathFacts, Zenon
    <2>2. ASSUME NEW q \in Ranks, NEW p \in Ranks, NEW i \in Places(u, q), NEW k \in Places(u, p),
                 Ahead(q, i, p, k), At(u, C, q, i)[j] # NoEvent, At(u, C, p, k)[j] # NoEvent
          PROVE  At(u, C, q, i)[j].epoch < At(u, C, p, k)[j].epoch
      <3>0. i \in Int /\ k \in Int /\ q \in Int /\ p \in Int /\ r \in Int /\ i <= Len(u[q]) + 1 /\ Len(u[q]) \in Nat
        BY BalancerAssumption DEF Places, Ranks
      <3>1. CASE q = r /\ i = last
        <4>1. p <= r
          BY <2>1, <2>2, PathFacts, Zenon
        <4>2. p = r /\ last < k /\ k <= Len(u[r]) + 1
          BY <1>0, <2>2, <3>0, <3>1, <4>1 DEF Ahead, Places
        <4>3. QED
          BY <1>0, <3>0, <4>2 DEF last
      <3>2. CASE ~(q = r /\ i = last) /\ p = r /\ k = last
        <4>1. At(u, C, q, i)[j] = At(u, D, q, i)[j] /\ At(u, C, p, k)[j] = e
          BY <1>2, <3>2, Zenon
        <4>2. At(u, D, q, i)[j] \in Pend(u, D, j)
          BY <2>2, <4>1, AtType, Zenon
        <4>3. QED
          BY <1>0, <1>4, <4>1, <4>2
      <3>3. CASE ~(q = r /\ i = last) /\ ~(p = r /\ k = last)
        <4>1. At(u, C, q, i)[j] = At(u, D, q, i)[j] /\ At(u, C, p, k)[j] = At(u, D, p, k)[j]
          BY <1>2, <3>3, Zenon
        <4>2. QED
          BY <1>5, <2>2, <4>1, Zenon DEF OrderedFrom
      <3>4. QED
        BY <3>1, <3>2, <3>3, Zenon
    <2>3. QED
      BY <2>1, <2>2, Zenon DEF OrderedFrom
  <1>8. \A f \in Pend(u, C, j) : f.epoch <= e.epoch /\ WellFormed(f) /\ \A g \in L : g.epoch < f.epoch
    <2>1. \A g \in L : g.epoch < e.epoch
      BY <1>0
    <2>2. \A f \in Pend(u, D, j) : f.epoch <= e.epoch /\ WellFormed(f) /\ \A g \in L : g.epoch < f.epoch
      BY <1>0, <1>4 DEF Flows
    <2>3. QED
      BY <1>0, <1>3, <2>1, <2>2
  <1>9. Flows(j, u, C, L, e.epoch, h)
    BY <1>3, <1>7, <1>8, Zenon DEF Flows
  <1>10. QED
    BY <1>9, Zenon DEF C

\* A rank sends its diffs to its parent: they stay at the place they had
LEMMA SendFlows ==
    ASSUME NEW u \in [Ranks -> Seq(EventMaps)], NEW D \in [Ranks -> EventMaps], NEW j \in Jobs,
           NEW L, NEW n, NEW h, Flows(j, u, D, L, n, h), NEW r \in Ranks
    PROVE  Flows(j, [u EXCEPT ![r] = Append(u[r], D[r])], [D EXCEPT ![r] = EmptyMap], L, n, h)
  <1> DEFINE v == [u EXCEPT ![r] = Append(u[r], D[r])]
             C == [D EXCEPT ![r] = EmptyMap]
  <1>0. /\ u[r] \in Seq(EventMaps) /\ D[r] \in EventMaps /\ Len(u[r]) \in Nat
        /\ v[r] = Append(u[r], D[r]) /\ C[r] = EmptyMap /\ EmptyMap[j] = NoEvent
        /\ Len(v[r]) = Len(u[r]) + 1 /\ NoEvent \notin Event
        /\ \A q \in Ranks \ {r} : v[q] = u[q] /\ C[q] = D[q]
    BY EventMapAssumption DEF EmptyMap
  <1> HIDE DEF v, C
  <1>1. ASSUME NEW q \in Ranks, NEW i \in Places(u, q)
        PROVE  i \in Places(v, q) /\ At(v, C, q, i) = At(u, D, q, i)
    <2>1. CASE q # r
      BY <1>0, <2>1, Zenon DEF Places, At
    <2>2. CASE q = r /\ i <= Len(u[r])
      BY <1>0, <2>2 DEF Places, At
    <2>3. CASE q = r /\ ~(i <= Len(u[r]))
      <3>1. i = Len(u[r]) + 1
        BY <1>0, <2>3 DEF Places
      <3>2. QED
        BY <1>0, <2>3, <3>1 DEF Places, At
    <2>4. QED
      BY <2>1, <2>2, <2>3, Zenon
  <1>2. ASSUME NEW q \in Ranks, NEW i \in Places(v, q), At(v, C, q, i)[j] # NoEvent
        PROVE  i \in Places(u, q)
    <2>1. CASE q # r
      BY <1>0, <2>1, Zenon DEF Places
    <2>2. CASE q = r
      <3>1. i \in 1..(Len(u[r]) + 2)
        BY <1>0, <2>2 DEF Places
      <3>2. i # Len(u[r]) + 2
        BY <1>0, <1>2, <2>2 DEF At
      <3>3. QED
        BY <1>0, <2>2, <3>1, <3>2 DEF Places
    <2>3. QED
      BY <2>1, <2>2, Zenon
  <1>3. Pend(v, C, j) = Pend(u, D, j)
    <2>1. ASSUME NEW e \in Pend(v, C, j) PROVE e \in Pend(u, D, j)
      <3>a. PICK q \in Ranks : \E i \in Places(v, q) : At(v, C, q, i)[j] = e /\ e \in Event
        BY Zenon DEF Pend
      <3>1. PICK i \in Places(v, q) : At(v, C, q, i)[j] = e /\ e \in Event
        BY <3>a, Zenon
      <3>2. QED
        BY <1>0, <1>1, <1>2, <3>1, Zenon DEF Pend
    <2>2. ASSUME NEW e \in Pend(u, D, j) PROVE e \in Pend(v, C, j)
      BY <1>1, Zenon DEF Pend
    <2>3. QED
      BY <2>1, <2>2, Zenon
  <1>4. \A o \in Ranks : OrderedFrom(u, D, j, o) => OrderedFrom(v, C, j, o)
    BY <1>1, <1>2, FewerOrdered, Zenon
  <1>5. Flows(j, v, C, L, n, h)
    BY <1>3, <1>4, Zenon DEF Flows
  <1>6. QED
    BY <1>5, Zenon DEF v, C

\* Rank 0 puts its diffs into the log: nothing older is left on its way
LEMMA LeadFlows ==
    ASSUME NEW u \in [Ranks -> Seq(EventMaps)], NEW D \in [Ranks -> EventMaps], NEW j \in Jobs,
           NEW L, NEW n, NEW h, Flows(j, u, D, L, n, h), u[0] = <<>>, 0 \in Ranks
    PROVE  Flows(j, u, [D EXCEPT ![0] = EmptyMap], L \cup ({D[0][j]} \ {NoEvent}), n, h)
  <1> DEFINE C == [D EXCEPT ![0] = EmptyMap]
             M == L \cup ({D[0][j]} \ {NoEvent})
  <1>0. /\ C[0] = EmptyMap /\ EmptyMap[j] = NoEvent /\ NoEvent \notin Event /\ Places(u, 0) = {1}
        /\ \A q \in Ranks \ {0} : C[q] = D[q]
        /\ C \in [Ranks -> EventMaps]
    BY EventMapAssumption DEF EmptyMap, Places, EventMaps
  <1> HIDE DEF C
  <1>1. At(u, D, 0, 1) = D[0] /\ At(u, C, 0, 1) = EmptyMap
    BY <1>0 DEF At
  <1>2. ASSUME NEW q \in Ranks, NEW i \in Places(u, q), At(u, C, q, i)[j] # NoEvent
        PROVE  q # 0 /\ At(u, C, q, i)[j] = At(u, D, q, i)[j]
    <2>1. q # 0
      BY <1>0, <1>1, <1>2, Zenon
    <2>2. QED
      BY <1>0, <2>1, Zenon DEF At
  <1>3. \A o \in Ranks : OrderedFrom(u, D, j, o) => OrderedFrom(u, C, j, o)
    BY <1>2, FewerOrdered, Zenon
  <1>4. ASSUME NEW e \in Pend(u, C, j)
        PROVE  e \in Pend(u, D, j) /\ \A f \in M : f.epoch < e.epoch
    <2>a. PICK q \in Ranks : \E i \in Places(u, q) : At(u, C, q, i)[j] = e /\ e \in Event
      BY Zenon DEF Pend
    <2>1. PICK i \in Places(u, q) : At(u, C, q, i)[j] = e /\ e \in Event
      BY <2>a, Zenon
    <2>2. q # 0 /\ At(u, D, q, i)[j] = e
      BY <1>0, <1>2, <2>1, Zenon
    <2>3. e \in Pend(u, D, j)
      BY <2>1, <2>2, Zenon DEF Pend
    <2>4. D[0][j] # NoEvent => D[0][j].epoch < e.epoch
      <3>1. PICK o \in Ranks : OrderedFrom(u, D, j, o)
        BY Zenon DEF Flows
      <3>2. 1 \in Places(u, 0) /\ Ahead(0, 1, q, i)
        BY <1>0, <2>2, BalancerAssumption DEF Ahead, Ranks
      <3>3. QED
        BY <1>0, <1>1, <2>1, <2>2, <3>1, <3>2, Zenon DEF OrderedFrom
    <2>5. QED
      BY <2>3, <2>4, Zenon DEF Flows
  <1>5. ASSUME NEW e \in Pend(u, D, j) PROVE e \in Pend(u, C, j) \cup M
    <2>a. PICK q \in Ranks : \E i \in Places(u, q) : At(u, D, q, i)[j] = e /\ e \in Event
      BY Zenon DEF Pend
    <2>1. PICK i \in Places(u, q) : At(u, D, q, i)[j] = e /\ e \in Event
      BY <2>a, Zenon
    <2>2. CASE q = 0
      BY <1>0, <1>1, <2>1, <2>2, Zenon
    <2>3. CASE q # 0
      <3>1. At(u, C, q, i) = At(u, D, q, i)
        BY <1>0, <2>3, Zenon DEF At
      <3>2. QED
        BY <2>1, <3>1, Zenon DEF Pend
    <2>4. QED
      BY <2>2, <2>3, Zenon
  <1> HIDE DEF M
  <1>6. L \subseteq M
    BY Zenon DEF M
  <1>7. Flows(j, u, C, M, n, h)
    BY <1>3, <1>4, <1>5, <1>6, Zenon DEF Flows
  <1>8. QED
    BY <1>7, Zenon DEF C, M

\* A rank merges the oldest message of a child into its diffs: what the message has of job j
\* replaces what the diffs had, and nothing of the job is between the two
LEMMA MergeFlows ==
    ASSUME NEW u \in [Ranks -> Seq(EventMaps)], NEW D \in [Ranks -> EventMaps], NEW j \in Jobs,
           NEW L, NEW n \in Nat, NEW h, Flows(j, u, D, L, n, h), NEW r \in Ranks, NEW c \in ChildRanks[r],
           u[c] # <<>>
    PROVE  Flows(j, [u EXCEPT ![c] = Tail(u[c])], [D EXCEPT ![r] = UpdateBy(D[r], Head(u[c]))], L, n, h)
  <1> DEFINE v == [u EXCEPT ![c] = Tail(u[c])]
             C == [D EXCEPT ![r] = UpdateBy(D[r], Head(u[c]))]
             last == Len(u[r]) + 1
             e == Head(u[c])[j]
             moved(q, i) == q = r /\ i = last /\ e # NoEvent
             fr(q, i) == IF moved(q, i) THEN c ELSE q
             fi(q, i) == IF moved(q, i) THEN 1 ELSE IF q = c THEN i + 1 ELSE i
  <1>0. c \in Ranks /\ c # 0 /\ ParentRank[c] = r /\ r < c /\ r # c /\ r \in Int /\ c \in Int
    <2>1. c \in Ranks /\ c # 0 /\ ParentRank[c] = r
      BY TreeAssumption, Zenon DEF IsRoot
    <2>2. QED
      BY <2>1, TreeAssumption, BalancerAssumption DEF IsRoot, Ranks
  <1>1. /\ u[c] \in Seq(EventMaps) /\ Len(u[c]) \in Nat \ {0} /\ u[r] \in Seq(EventMaps) /\ Len(u[r]) \in Nat
        /\ v[c] = Tail(u[c]) /\ Len(v[c]) = Len(u[c]) - 1
        /\ \A i \in 1..(Len(u[c]) - 1) : v[c][i] = u[c][i + 1]
        /\ Head(u[c]) = u[c][1] /\ Head(u[c]) \in EventMaps /\ D[r] \in EventMaps
        /\ \A q \in Ranks : /\ q # c => v[q] = u[q]
                            /\ q # r => C[q] = D[q]
    BY <1>0
  <1>2. C[r][j] = IF IsNovel(e, D[r][j]) THEN e ELSE D[r][j]
    BY <1>1, Zenon DEF UpdateBy
  <1>3. At(u, D, c, 1) = Head(u[c]) /\ At(u, D, r, last) = D[r] /\ last \in Places(u, r) /\ 1 \in Places(u, c)
    BY <1>1 DEF At, Places
  <1>e. e = At(u, D, c, 1)[j] /\ D[r][j] = At(u, D, r, last)[j]
    BY <1>3, Zenon
  <1>4. PICK o \in Ranks : (h # NoRank => o = h) /\ OrderedFrom(u, D, j, o)
    BY Zenon DEF Flows
  <1> HIDE DEF v, C, e
  <1>5. /\ e # NoEvent => C[r][j] = e /\ c \in Path(o) /\ r \in Path(o)
        /\ e = NoEvent => C[r][j] = D[r][j]
        /\ e # NoEvent /\ D[r][j] # NoEvent => D[r][j].epoch < e.epoch
    <2>1. CASE e = NoEvent
      BY <1>2, <2>1, Zenon DEF IsNovel
    <2>2. CASE e # NoEvent
      <3>1. c \in Path(o)
        BY <1>0, <1>3, <1>4, <2>2, Zenon DEF OrderedFrom, e
      <3>2. D[r][j] # NoEvent => D[r][j].epoch < e.epoch
        BY <1>0, <1>3, <1>4, <2>2, SMTT(20) DEF OrderedFrom, Ahead, e
      <3>3. e.epoch \in Nat /\ (D[r][j] # NoEvent => D[r][j].epoch \in Nat)
        <4>1. At(u, D, c, 1)[j] # NoEvent => At(u, D, c, 1)[j].epoch \in Nat
          BY <1>0, <1>3, AtType, Zenon
        <4>2. At(u, D, r, last)[j] # NoEvent => At(u, D, r, last)[j].epoch \in Nat
          BY <1>3, AtType, Zenon
        <4>3. QED
          BY <1>e, <2>2, <4>1, <4>2, Zenon
      <3>4. C[r][j] = e
        BY <1>2, <2>2, <3>2, <3>3, Zenon DEF IsNovel, Dominates
      <3>5. QED
        BY <1>0, <2>2, <3>1, <3>2, <3>4, PathFacts, Zenon
    <2>3. QED
      BY <2>1, <2>2, Zenon
  <1>6. ASSUME NEW q \in Ranks, NEW i \in Places(v, q)
        PROVE  /\ fr(q, i) \in Ranks /\ fi(q, i) \in Places(u, fr(q, i))
               /\ At(v, C, q, i)[j] = At(u, D, fr(q, i), fi(q, i))[j]
    <2>1. CASE q = c
      <3>1. i \in 1..Len(u[c]) /\ i + 1 \in Places(u, c)
        BY <1>1, <2>1 DEF Places
      <3>2. At(v, C, c, i) = At(u, D, c, i + 1)
        BY <1>0, <1>1, <3>1 DEF At
      <3>3. QED
        BY <1>0, <2>1, <3>1, <3>2, Zenon
    <2>2. CASE q # c /\ moved(q, i)
      <3>1. At(v, C, r, last) = C[r]
        BY <1>0, <1>1, <2>2 DEF At
      <3>2. QED
        BY <1>0, <1>3, <1>5, <2>2, <3>1, Zenon DEF e
    <2>3. CASE q # c /\ ~moved(q, i)
      <3>1. v[q] = u[q] /\ i \in Places(u, q)
        BY <1>1, <2>3, Zenon DEF Places
      <3>2. CASE q # r \/ i <= Len(u[q])
        <4>1. At(v, C, q, i) = At(u, D, q, i)
          BY <1>1, <3>1, <3>2, Zenon DEF At
        <4>2. QED
          BY <2>3, <3>1, <4>1, Zenon
      <3>3. CASE q = r /\ ~(i <= Len(u[q]))
        <4>1. i = last /\ e = NoEvent
          BY <1>1, <2>3, <3>1, <3>3 DEF Places
        <4>2. At(v, C, q, i)[j] = C[r][j] /\ At(u, D, q, i)[j] = D[r][j]
          BY <3>1, <3>3, Zenon DEF At
        <4>3. QED
          BY <1>5, <2>3, <3>1, <4>1, <4>2, Zenon
      <3>4. QED
        BY <3>2, <3>3, Zenon
    <2>4. QED
      BY <2>1, <2>2, <2>3, Zenon
  <1>7. OrderedFrom(v, C, j, o)
    <2>1. ASSUME NEW q \in Ranks, NEW i \in Places(v, q), At(v, C, q, i)[j] # NoEvent
          PROVE  q \in Path(o)
      <3>1. fr(q, i) \in Path(o)
        BY <1>4, <1>6, <2>1, Zenon DEF OrderedFrom
      <3>2. QED
        BY <1>5, <3>1, Zenon
    <2>2. ASSUME NEW q \in Ranks, NEW p \in Ranks, NEW i \in Places(v, q), NEW k \in Places(v, p),
                 Ahead(q, i, p, k), At(v, C, q, i)[j] # NoEvent, At(v, C, p, k)[j] # NoEvent
          PROVE  Ahead(fr(q, i), fi(q, i), fr(p, k), fi(p, k))
      <3>0. i \in Int /\ k \in Int /\ q \in Int /\ p \in Int /\ last \in Int
        BY <1>1, BalancerAssumption DEF Places, Ranks
      <3>1. CASE moved(p, k)
        <4>1. ~moved(q, i) /\ q <= r
          BY <2>2, <3>0, <3>1 DEF Ahead
        <4>2. q < c /\ fr(q, i) = q /\ fr(p, k) = c
          BY <1>0, <3>0, <3>1, <4>1
        <4>3. QED
          BY <4>2, Zenon DEF Ahead
      <3>2. CASE moved(q, i) /\ ~moved(p, k)
        <4>1. p > r
          <5>1. p = r => k <= last
            BY <1>0, <1>1 DEF Places
          <5>2. QED
            BY <2>2, <3>0, <3>2, <5>1, <1>0 DEF Ahead
        <4>2. p >= c
          <5>1. p \in Path(o) /\ c \in Path(o)
            BY <1>5, <2>1, <2>2, <3>2, Zenon
          <5>2. p <= r \/ c <= p
            BY <1>0, <5>1, PathGap, Zenon
          <5>3. QED
            BY <1>0, <3>0, <4>1, <5>2
        <4>3. k >= 1 /\ fr(q, i) = c /\ fi(q, i) = 1 /\ fr(p, k) = p
          BY <3>2 DEF Places
        <4>4. CASE p = c
          BY <3>0, <3>2, <4>3, <4>4 DEF Ahead
        <4>5. CASE p # c
          BY <1>0, <3>0, <4>2, <4>3, <4>5 DEF Ahead
        <4>6. QED
          BY <4>4, <4>5, Zenon
      <3>3. CASE ~moved(q, i) /\ ~moved(p, k)
        BY <2>2, <3>0, <3>3 DEF Ahead
      <3>4. QED
        BY <3>1, <3>2, <3>3, Zenon
    <2>3. ASSUME NEW q \in Ranks, NEW p \in Ranks, NEW i \in Places(v, q), NEW k \in Places(v, p),
                 Ahead(q, i, p, k), At(v, C, q, i)[j] # NoEvent, At(v, C, p, k)[j] # NoEvent
          PROVE  At(v, C, q, i)[j].epoch < At(v, C, p, k)[j].epoch
      <3>1. /\ fr(q, i) \in Ranks /\ fi(q, i) \in Places(u, fr(q, i))
            /\ fr(p, k) \in Ranks /\ fi(p, k) \in Places(u, fr(p, k))
            /\ At(v, C, q, i)[j] = At(u, D, fr(q, i), fi(q, i))[j]
            /\ At(v, C, p, k)[j] = At(u, D, fr(p, k), fi(p, k))[j]
            /\ Ahead(fr(q, i), fi(q, i), fr(p, k), fi(p, k))
        BY <1>6, <2>2, <2>3, Zenon
      <3> HIDE DEF fr, fi
      <3>2. QED
        BY <1>4, <2>3, <3>1, Zenon DEF OrderedFrom
    <2>4. QED
      BY <2>1, <2>3, Zenon DEF OrderedFrom
  <1>8. Pend(v, C, j) \subseteq Pend(u, D, j)
    <2>1. ASSUME NEW x \in Pend(v, C, j) PROVE x \in Pend(u, D, j)
      <3>a. PICK q \in Ranks : \E i \in Places(v, q) : At(v, C, q, i)[j] = x /\ x \in Event
        BY Zenon DEF Pend
      <3>1. PICK i \in Places(v, q) : At(v, C, q, i)[j] = x /\ x \in Event
        BY <3>a, Zenon
      <3>2. /\ fr(q, i) \in Ranks /\ fi(q, i) \in Places(u, fr(q, i))
            /\ At(u, D, fr(q, i), fi(q, i))[j] = x
        BY <1>6, <3>1, Zenon
      <3> HIDE DEF fr, fi
      <3>3. QED
        BY <3>1, <3>2, Zenon DEF Pend
    <2>2. QED
      BY <2>1, Zenon
  <1>9. ASSUME NEW x \in Pend(u, D, j), x.epoch = n PROVE x \in Pend(v, C, j)
    <2>a. PICK q \in Ranks : \E i \in Places(u, q) : At(u, D, q, i)[j] = x /\ x \in Event
      BY Zenon DEF Pend
    <2>1. PICK i \in Places(u, q) : At(u, D, q, i)[j] = x /\ x \in Event
      BY <2>a, Zenon
    <2>0. NoEvent \notin Event
      BY EventMapAssumption, Zenon
    <2>2. CASE q = c /\ i = 1
      <3>1. e = x /\ C[r][j] = x
        BY <1>3, <1>5, <2>0, <2>1, <2>2, Zenon DEF e
      <3>2. last \in Places(v, r) /\ At(v, C, r, last) = C[r]
        <4>1. v[r] = u[r] /\ Len(v[r]) \in Nat
          BY <1>0, <1>1, Zenon
        <4>2. QED
          BY <4>1 DEF Places, At
      <3>3. QED
        BY <2>1, <3>1, <3>2, Zenon DEF Pend
    <2>3. CASE q = c /\ i # 1
      <3>1. i - 1 \in Places(v, c) /\ At(v, C, c, i - 1) = At(u, D, c, i)
        BY <1>0, <1>1, <2>3 DEF Places, At
      <3>2. QED
        BY <1>0, <2>1, <2>3, <3>1, Zenon DEF Pend
    <2>4. CASE q = r /\ i = last
      <3>1. x = D[r][j]
        BY <1>3, <2>1, <2>4, Zenon
      <3>2. e = NoEvent
        <4>1. SUFFICES ASSUME e # NoEvent PROVE FALSE
          BY Zenon
        <4>2. n < e.epoch
          BY <1>5, <1>9, <2>0, <2>1, <3>1, <4>1, Zenon
        <4>3. e \in Pend(u, D, j) /\ e.epoch \in Nat
          BY <1>0, <1>3, <1>e, <4>1, AtType, Zenon
        <4>4. QED
          BY <4>2, <4>3 DEF Flows
      <3>3. last \in Places(v, r) /\ At(v, C, r, last) = C[r]
        BY <1>0, <1>1, SMTT(20) DEF Places, At
      <3>4. QED
        BY <1>5, <2>1, <3>1, <3>2, <3>3, Zenon DEF Pend
    <2>5. CASE q # c /\ ~(q = r /\ i = last)
      <3>1. i \in Places(v, q) /\ At(v, C, q, i) = At(u, D, q, i)
        BY <1>1, <2>5 DEF Places, At
      <3>2. QED
        BY <2>1, <3>1, Zenon DEF Pend
    <2>6. QED
      BY <2>2, <2>3, <2>4, <2>5, Zenon
  <1>10. Flows(j, v, C, L, n, h)
    BY <1>4, <1>7, <1>8, <1>9, Zenon DEF Flows
  <1>11. QED
    BY <1>10, Zenon DEF v, C

=============================================================================
