--------------------------- MODULE HandlerProofs ----------------------------
(***************************************************************************)
(* The handlers of a worker keep the types of its database and its         *)
(* coherence (DatabaseInvariant): it has one job at a time, its flags say  *)
(* so, and the assertions that rest on this do not fail, whatever arrives  *)
(* in whatever order. No handler displaces a root before its job may end.  *)
(* The lemmas follow module Handlers; E is the set of the incremental jobs *)
(* that have been declared done.                                           *)
(***************************************************************************)
EXTENDS Handlers, JobDatabaseProofs

-----------------------------------------------------------------------------
(***************************************************************************)
(* Growing and shrinking.                                                  *)
(***************************************************************************)
\* Worker::spawnJobRequest sends a request.
LEMMA SpawnStep ==
    ASSUME NEW d, NEW E, Types(d, E), NEW j \in Jobs, Has(d, j), NEW index \in Nat, NEW epoch \in Int
    PROVE  Minor(d, SpawnJobRequest(d, j, index, epoch), E)
<1> DEFINE req == [job |-> j, root |-> d.jobs[j].root, from |-> d.rank, index |-> index,
                   rev |-> d.jobs[j].desired, epoch |-> epoch, hopped |-> FALSE, targeted |-> FALSE]
<1>1. d.jobs[j] \in JobNodes /\ d.rank \in Ranks
  BY JobSteps, CoreTypes, Zenon DEF Ranks
<1>2. d.jobs[j].root \in Workers \cup {None} /\ d.jobs[j].desired \in Nat
  BY <1>1, Zenon DEF JobNodes
<1>3. req \in Requests
  BY <1>1, <1>2, Zenon DEF Requests
<1> HIDE DEF req
<1>4. [tag |-> "REQUEST_NODE", req |-> req] \in Messages(E)
  BY <1>3, Zenon DEF Messages
<1> QED
  BY <1>4, SendSteps, Zenon DEF SpawnJobRequest, req

\* What Depart and Leave make of the node of job j
Departed(d, e, j, E) ==
    /\ Step(d, e, E) /\ Has(e, j) /\ ~HasCommitment(e, j) /\ e.jobs[j].index = d.jobs[j].index
    /\ e.load = None /\ ~e.hasCommitment
    /\ Runs(d, j) /\ HasDormantRoot(e) => e.jobs[j].index = 0

\* A node that computes or is committed departs: an active root only if its job is
\* incremental.
LEMMA DepartStep ==
    ASSUME NEW d, NEW E, Good(d, E), NEW j \in Jobs, IsMember(d, j),
           Runs(d, j) => j \in Incremental \/ d.jobs[j].index # 0
    PROVE  Departed(d, Depart(d, j), j, E)
<1>1. CASE Runs(d, j)
  <2>1. Depart(d, j) = Suspend(d, j)
    BY <1>1, Zenon DEF Depart, Runs
  <2> DEFINE e == Suspend(d, j)
  <2>2. /\ Step(d, e, E) /\ Has(e, j) /\ ~HasCommitment(e, j) /\ e.jobs[j].index = d.jobs[j].index
        /\ e.load = None /\ ~e.hasCommitment
        /\ HasDormantRoot(e) => e.jobs[j].index = 0
    BY <1>1, SuspendStep, Zenon
  <2> HIDE DEF e
  <2> QED
    BY <2>1, <2>2, Zenon DEF Departed, e
<1>2. CASE ~Runs(d, j)
  <2>1. HasCommitment(d, j) /\ d.jobs[j].state # "ACTIVE"
    BY <1>2, Zenon DEF IsMember, Runs, HasCommitment
  <2>2. Depart(d, j) = SuspendScheduler(OnTerminate(Uncommit(d, j), j), j)
    BY <2>1, Zenon DEF Depart, GiveUp
  <2> DEFINE e == SuspendScheduler(OnTerminate(Uncommit(d, j), j), j)
  <2>3. /\ Step(d, e, E) /\ Has(e, j) /\ ~HasCommitment(e, j)
        /\ e.jobs[j].index = d.jobs[j].index /\ e.load = None /\ e.hasCommitment = FALSE
    BY <2>1, GiveUpStep, Zenon
  <2> HIDE DEF e
  <2> QED
    BY <1>2, <2>2, <2>3, Zenon DEF Departed, e
<1> QED
  BY <1>1, <1>2, Zenon

\* It leaves, that is, it departs and tells its parent.
LEMMA LeaveStep ==
    ASSUME NEW d, NEW E, Good(d, E), NEW j \in Jobs, IsMember(d, j),
           Runs(d, j) => j \in Incremental \/ d.jobs[j].index # 0
    PROVE  Departed(d, Leave(d, j), j, E)
<1> DEFINE node == d.jobs[j]
           m == [tag |-> "NODE_LEAVING", job |-> j, index |-> node.index, root |-> node.root]
           a == Depart(d, j)
           e == Send(a, node.parent, m)
<1> Departed(d, a, j, E)
  BY DepartStep, Zenon
<1>1. node \in JobNodes
  BY JobSteps, Zenon DEF Good, IsMember, Runs, HasCommitment
<1>2. node.index \in Int /\ node.root \in Workers \cup {None}
  BY <1>1 DEF JobNodes
<1>3. m \in Messages(E)
  BY <1>2, Zenon DEF Messages
<1>4. Leave(d, j) = e
  BY Zenon DEF Leave
<1> HIDE DEF a, m
<1>5. Minor(a, e, E)
  BY <1>3, SendSteps, Zenon DEF Departed, Step, Good
<1> HIDE DEF e
<1>6. Step(d, e, E)
  BY <1>5, MinorStep, StepTrans, Zenon DEF Departed, Step
<1>7. /\ Has(e, j) /\ ~HasCommitment(e, j) /\ e.jobs[j].index = d.jobs[j].index
      /\ e.load = None /\ ~e.hasCommitment
  BY <1>5, Zenon DEF Departed, Minor, SameCore, SameStanding, Has, HasCommitment
<1>8. HasDormantRoot(e) => HasDormantRoot(a)
  BY <1>5, Zenon DEF Minor, SameCore, SameStanding, HasDormantRoot, IsDormantRoot, IsDormant
<1> QED
  BY <1>4, <1>6, <1>7, <1>8, Zenon DEF Departed

\* A step that may end the commitment of job j's node and makes no other
Updated(d, e, j, E) ==
    /\ Step(d, e, E) /\ (Has(d, j) => Has(e, j))
    /\ HasCommitment(e, j) => HasCommitment(d, j) /\ e.jobs[j].commitment = d.jobs[j].commitment

\* Such steps follow each other, and minor operations are such steps.
LEMMA UpdatedTrans ==
    ASSUME NEW d, NEW e, NEW f, NEW j, NEW E, Updated(d, e, j, E), Updated(e, f, j, E)
    PROVE  Updated(d, f, j, E)
BY StepTrans, Zenon DEF Updated

\* A minor operation on a good database is such a step.
LEMMA MinorUpdated ==
    ASSUME NEW d, NEW e, NEW j \in Jobs, NEW E, Good(d, E), Minor(d, e, E)
    PROVE  Updated(d, e, j, E)
<1>1. Step(d, e, E)
  BY MinorStep, Zenon
<1> QED
  BY <1>1, Zenon DEF Updated, Minor, SameCore, SameStanding, Has, HasCommitment

\* So is a departure.
LEMMA DepartedUpdated ==
    ASSUME NEW d, NEW e, NEW j \in Jobs, NEW E, Departed(d, e, j, E)
    PROVE  Updated(d, e, j, E)
BY Zenon DEF Updated, Departed

\* The role of a node that is in the database
LEMMA Role ==
    ASSUME NEW d, NEW E, Good(d, E), NEW j \in Jobs, Has(d, j)
    PROVE  /\ d.jobs[j] \in JobNodes /\ d.jobs[j].index \in Nat
           /\ LeftIndex(d.jobs[j]) \in Nat /\ RightIndex(d.jobs[j]) \in Nat
<1>1. d.jobs[j] \in JobNodes /\ d.jobs[j].index \in Nat
  BY JobSteps, Zenon DEF Good, Coherent, RolesKept
<1> QED
  BY <1>1 DEF LeftIndex, RightIndex

\* A shrinking job loses children.
LEMMA PruneType ==
    ASSUME NEW n \in JobNodes, NEW volume
    PROVE  Alike(n, Prune(n, volume))
<1> DEFINE leavesLeft == n.left # None /\ LeftIndex(n) >= volume
           leavesRight == n.right # None /\ RightIndex(n) >= volume
           left == IF leavesLeft THEN None ELSE n.left
           right == IF leavesRight THEN None ELSE n.right
           past == n.past \cup (IF leavesLeft THEN {n.left} ELSE {})
                          \cup (IF leavesRight THEN {n.right} ELSE {})
           a == [n EXCEPT !.left = left]
           b == [a EXCEPT !.right = right]
           c == [b EXCEPT !.past = past]
<1>1. n.left \in Ranks \cup {None} /\ n.right \in Ranks \cup {None} /\ n.past \in SUBSET Ranks
  BY Zenon DEF JobNodes
<1>2. left \in Ranks \cup {None} /\ right \in Ranks \cup {None} /\ past \in SUBSET Ranks
  BY <1>1, Zenon
<1>3. Prune(n, volume) = c
  BY Zenon DEF Prune
<1> HIDE DEF left, right, past
<1>4. Alike(n, a)
  BY <1>2, NodeFields, Zenon
<1>5. Alike(a, b)
  BY <1>2, <1>4, NodeFields, Zenon DEF Alike
<1>6. Alike(b, c)
  BY <1>2, <1>5, NodeFields, Zenon DEF Alike
<1> HIDE DEF a, b, c
<1> QED
  BY <1>3, <1>4, <1>5, <1>6, Zenon DEF Alike, SameStanding

\* Job requests go to both sides, or the children are pruned; a committed root that is
\* dormant gives up its commitment instead (propagateVolumeUpdate).
LEMMA PropagateStep ==
    ASSUME NEW d, NEW E, Good(d, E), NEW j \in Jobs, IsMember(d, j), NEW volume \in Nat, NEW epoch \in Int
    PROVE  LET e == PropagateVolumeUpdate(d, j, volume, epoch)
           IN /\ Updated(d, e, j, E) /\ e.jobs[j].index = d.jobs[j].index
              /\ (IsMember(e, j) \/ d.jobs[j].index = 0)
<1> DEFINE node == d.jobs[j]
           growsLeft == WantsChild(node, node.left, LeftIndex(node), volume, epoch)
           growsRight == WantsChild(node, node.right, RightIndex(node), volume, epoch)
           left == IF growsLeft THEN SpawnJobRequest(d, j, LeftIndex(node), epoch) ELSE d
           both == IF growsRight THEN SpawnJobRequest(left, j, RightIndex(node), epoch) ELSE left
           pruned == [d EXCEPT !.jobs[j] = Prune(@, volume)]
           e == PropagateVolumeUpdate(d, j, volume, epoch)
<1> Has(d, j) /\ Types(d, E)
  BY Zenon DEF IsMember, Runs, HasCommitment, Good
<1>1. /\ node \in JobNodes /\ node.index \in Nat
      /\ LeftIndex(node) \in Nat /\ RightIndex(node) \in Nat
  BY Role, Zenon
<1>2. CASE (growsLeft \/ growsRight) /\ HasDormantRoot(d)
  <2>1. e = Leave(d, j)
    BY <1>2, Zenon DEF PropagateVolumeUpdate
  <2>2. PICK i \in Jobs : IsDormantRoot(d.jobs[i])
    BY <1>2, Zenon DEF HasDormantRoot
  <2>3. d.load = None
    BY <2>2, Zenon DEF Good, Coherent, DormantAlone
  <2>4. ~Runs(d, j) /\ HasCommitment(d, j)
    BY <2>3, DatabaseAssumption, Zenon DEF Good, Coherent, OneJob, IsMember
  <2>5. d.jobs[j].index = 0
    BY <2>2, <2>4, Zenon DEF Good, Coherent, DormantAlone, IsDormantRoot
  <2>6. Departed(d, Leave(d, j), j, E)
    BY <2>4, LeaveStep, Zenon
  <2> HIDE DEF e
  <2>7. Updated(d, e, j, E) /\ e.jobs[j].index = d.jobs[j].index
    BY <2>1, <2>6, DepartedUpdated, Zenon DEF Departed
  <2> QED
    BY <2>5, <2>7, Zenon DEF e
<1>3. CASE ~((growsLeft \/ growsRight) /\ HasDormantRoot(d))
  <2>1. e = pruned \/ e = both
    BY <1>3, Zenon DEF PropagateVolumeUpdate
  <2>2. Minor(d, pruned, E)
    <3>1. Alike(node, Prune(node, volume))
      BY <1>1, PruneType, Zenon
    <3> QED
      BY <3>1, NodeStep, Zenon DEF Alike
  <2>3. Minor(d, left, E)
    BY <1>1, SpawnStep, MinorSelf, Zenon
  <2> HIDE DEF left
  <2>4. Has(left, j) /\ Types(left, E)
    BY <2>3, Zenon DEF Minor, SameCore, SameStanding, Has
  <2>5. Minor(left, both, E)
    BY <1>1, <2>4, SpawnStep, MinorSelf, Zenon
  <2> HIDE DEF both
  <2>6. Minor(d, both, E)
    BY <2>3, <2>5, MinorTrans, Zenon
  <2> HIDE DEF pruned, e
  <2>7. Minor(d, e, E)
    BY <2>1, <2>2, <2>6, Zenon
  <2>8. Updated(d, e, j, E)
    BY <2>7, MinorUpdated, Zenon
  <2>9. e.jobs[j].index = d.jobs[j].index /\ IsMember(e, j)
    BY <2>7, Zenon DEF Minor, SameCore, SameStanding, IsMember, Runs, HasCommitment, Has
  <2> QED
    BY <2>8, <2>9, Zenon DEF e
<1> QED
  BY <1>2, <1>3, Zenon

\* A node whose position is not covered any more departs.
LEMMA LeaveAboveStep ==
    ASSUME NEW d, NEW E, Good(d, E), NEW j \in Jobs, IsMember(d, j) \/ d.jobs[j].index = 0, NEW volume
    PROVE  Updated(d, LeaveAbove(d, j, volume), j, E)
<1> DEFINE e == LeaveAbove(d, j, volume)
<1>1. Updated(d, d, j, E)
  BY MinorSelf, MinorUpdated, Zenon DEF Good
<1>2. CASE d.jobs[j].index = 0
  BY <1>1, <1>2, Zenon DEF LeaveAbove
<1>3. CASE d.jobs[j].index # 0
  <2>1. Departed(d, Leave(d, j), j, E) /\ Departed(d, Depart(d, j), j, E)
    BY <1>3, LeaveStep, DepartStep, Zenon
  <2>2. e = d \/ e = Leave(d, j) \/ e = Depart(d, j)
    BY Zenon DEF LeaveAbove
  <2> HIDE DEF e
  <2> QED
    BY <1>1, <2>1, <2>2, DepartedUpdated, Zenon DEF e
<1> QED
  BY <1>2, <1>3, Zenon

\* A node that computes or is committed learns its volume (Worker::updateVolume).
LEMMA UpdateMemberStep ==
    ASSUME NEW d, NEW E, Good(d, E), NEW j \in Jobs, IsMember(d, j), NEW volume \in Nat, NEW epoch \in Int
    PROVE  Updated(d, UpdateMember(d, j, volume, epoch), j, E)
<1> DEFINE node == d.jobs[j]
           sc == UpdateBalancing(GetScheduler(d, j, node.index), epoch, volume, node.left # None, node.right # None)
           a == SetScheduler(d, j, node.index, sc)
           b == PropagateVolumeUpdate(a, j, volume, epoch)
           c == [b EXCEPT !.jobs[j].requestEpoch = epoch]
<1>1. UpdateMember(d, j, volume, epoch) = LeaveAbove(c, j, volume)
  BY Zenon DEF UpdateMember
<1>2. HasScheduler(d, j, node.index) => Sound(sc)
  <2>1. HasScheduler(d, j, node.index) => Sound(GetScheduler(d, j, node.index))
    BY OwnScheduler, Zenon DEF Good
  <2> QED
    BY <2>1, UpdateBalancingSound
<1> HIDE DEF sc
<1>3. Minor(d, a, E)
  BY <1>2, SetStep, Zenon DEF Good
<1> HIDE DEF a
<1>4. Good(a, E) /\ Updated(d, a, j, E)
  BY <1>3, MinorUpdated, Zenon DEF Updated, Step
<1>5. IsMember(a, j)
  BY <1>3, Zenon DEF Minor, SameCore, SameStanding, IsMember, Runs, HasCommitment, Has
<1>6. Updated(a, b, j, E) /\ (IsMember(b, j) \/ b.jobs[j].index = 0)
  <2>1. Updated(a, b, j, E) /\ b.jobs[j].index = a.jobs[j].index /\ (IsMember(b, j) \/ a.jobs[j].index = 0)
    BY <1>4, <1>5, PropagateStep, Zenon
  <2> HIDE DEF b
  <2> QED
    BY <2>1, Zenon
<1> HIDE DEF b
<1>7. Good(b, E) /\ Has(b, j)
  BY <1>5, <1>6, Zenon DEF Updated, Step, IsMember, Runs, HasCommitment
<1>8. Minor(b, c, E)
  BY <1>7, JobSteps, Zenon DEF Good
<1> HIDE DEF c
<1>9. Updated(b, c, j, E) /\ Good(c, E)
  BY <1>7, <1>8, MinorUpdated, Zenon DEF Updated, Step
<1>10. IsMember(c, j) \/ c.jobs[j].index = 0
  BY <1>6, <1>7, <1>8, Zenon DEF Minor, SameCore, SameStanding, IsMember, Runs, HasCommitment, Has
<1>11. Updated(c, LeaveAbove(c, j, volume), j, E)
  BY <1>9, <1>10, LeaveAboveStep, Zenon
<1>12. Updated(d, c, j, E)
  BY <1>4, <1>6, <1>9, UpdatedTrans, Zenon
<1> QED
  BY <1>1, <1>11, <1>12, UpdatedTrans, Zenon

\* The larger of two epochs is one.
LEMMA LargerType ==
    ASSUME NEW a \in Int, NEW b \in Int
    PROVE  Larger(a, b) \in Int
BY Zenon DEF Larger

\* A suspended node waits, or stops waiting.
LEMMA WaitingSteps ==
    ASSUME NEW d, NEW E, Types(d, E), NEW j \in Jobs, Has(d, j), NEW epoch \in Int
    PROVE  Minor(d, SetWaiting(d, j, epoch), E) /\ Minor(d, StopWaiting(d, j, epoch), E)
<1>1. d.jobs[j] \in JobNodes
  BY JobSteps, Zenon
<1>2. d.jobs[j].waitEpoch \in Int /\ d.jobs[j].stopWaitEpoch \in Int
  BY <1>1, Zenon DEF JobNodes
<1>3. Larger(d.jobs[j].waitEpoch, epoch) \in Int /\ Larger(d.jobs[j].stopWaitEpoch, epoch) \in Int
  BY <1>2, LargerType, Zenon
<1> QED
  BY <1>3, JobSteps, Zenon DEF SetWaiting, StopWaiting

\* The request for the root of a job begins to hop.
LEMMA RootRequestStep ==
    ASSUME NEW d, NEW E, Types(d, E), NEW j
    PROVE  Minor(d, ActivateRootRequest(d, j), E)
<1> DEFINE reqs == {r \in d.rootRequests : r.job = j}
           req == CHOOSE r \in reqs : TRUE
           a == [d EXCEPT !.rootRequests = @ \ {req}]
           hopped == [req EXCEPT !.hopped = TRUE]
<1>1. CASE reqs = {}
  BY <1>1, MinorSelf, Zenon DEF ActivateRootRequest
<1>2. CASE reqs # {}
  <2>1. d.rootRequests \subseteq Requests
    BY Zenon DEF Types, IsDatabase
  <2>2. req \in Requests
    BY <1>2, <2>1, Zenon
  <2>3. ActivateRootRequest(d, j) = Hop(a, hopped)
    BY <1>2, Zenon DEF ActivateRootRequest
  <2> HIDE DEF req
  <2>4. hopped \in Requests
    BY <2>2, Zenon DEF Requests
  <2>5. Minor(d, a, E)
    BY <2>1, FieldSteps, Zenon
  <2> HIDE DEF a, hopped
  <2> QED
    BY <2>3, <2>4, <2>5, SendSteps, MinorTrans DEF Minor
<1> QED
  BY <1>1, <1>2, Zenon

\* Worker::updateVolume
LEMMA UpdateVolumeStep ==
    ASSUME NEW d, NEW E, Good(d, E), NEW j \in Jobs, NEW volume \in Nat, NEW epoch \in Int
    PROVE  Updated(d, UpdateVolume(d, j, volume, epoch), j, E)
<1> DEFINE a == [d EXCEPT !.jobs[j].volume = volume]
           b == IF ReactivationScheduling THEN StopWaiting(a, j, epoch - 1) ELSE a
           node == d.jobs[j]
           e == UpdateVolume(d, j, volume, epoch)
<1>1. CASE ~Has(d, j)
  <2>1. e = ActivateRootRequest(d, j)
    BY <1>1, Zenon DEF UpdateVolume
  <2> HIDE DEF e
  <2> QED
    BY <2>1, RootRequestStep, MinorUpdated, Zenon DEF Good, e
<1>2. CASE Has(d, j)
  <2>1. \/ e \in {b, SetWaiting(b, j, epoch)}
        \/ IsMember(d, j) /\ e = UpdateMember(b, j, volume, epoch)
    <3>1. e = IF node.state = "ACTIVE" \/ node.commitment # None THEN UpdateMember(b, j, volume, epoch)
              ELSE IF node.state = "SUSPENDED" /\ ReactivationScheduling
                   THEN UpdateSuspended(b, j, node.index, node.volume, volume, epoch)
              ELSE b
      BY <1>2, Zenon DEF UpdateVolume
    <3> HIDE DEF b, e
    <3>2. UpdateSuspended(b, j, node.index, node.volume, volume, epoch) \in {b, SetWaiting(b, j, epoch)}
      BY Zenon DEF UpdateSuspended
    <3> QED
      BY <1>2, <3>1, <3>2, Zenon DEF IsMember, Runs, HasCommitment
  <2>2. Minor(d, a, E)
    BY <1>2, JobSteps, Zenon DEF Good
  <2> HIDE DEF a
  <2>3. Has(a, j) /\ Types(a, E)
    BY <1>2, <2>2, Zenon DEF Minor, SameCore, SameStanding, Has
  <2>4. Minor(a, b, E)
    BY <2>3, WaitingSteps, MinorSelf
  <2> HIDE DEF b
  <2>5. Minor(d, b, E)
    BY <2>2, <2>4, MinorTrans, Zenon
  <2>6. Updated(d, b, j, E) /\ Good(b, E) /\ Types(b, E) /\ Has(b, j)
    BY <1>2, <2>5, MinorUpdated, Zenon DEF Updated, Step, Good
  <2>7. IsMember(d, j) => IsMember(b, j)
    BY <2>5, Zenon DEF Minor, SameCore, SameStanding, IsMember, Runs, HasCommitment, Has
  <2>8. Updated(b, SetWaiting(b, j, epoch), j, E)
    BY <2>6, WaitingSteps, MinorUpdated, Zenon
  <2>9. IsMember(d, j) => Updated(b, UpdateMember(b, j, volume, epoch), j, E)
    BY <2>6, <2>7, UpdateMemberStep, Zenon
  <2> HIDE DEF e
  <2> QED
    BY <2>1, <2>6, <2>8, <2>9, UpdatedTrans, Zenon DEF e
<1> QED
  BY <1>1, <1>2, Zenon

\* initiateVolumeUpdate: the volume that the balancer has last computed
LEMMA InitiateStep ==
    ASSUME NEW d, NEW E, Good(d, E), NEW j \in Jobs
    PROVE  Updated(d, InitiateVolumeUpdate(d, j), j, E)
<1>1. d.volumes[j] \in Nat /\ d.epoch \in Int
  BY DEF Good, Types, IsDatabase
<1>2. Updated(d, d, j, E)
  BY MinorSelf, MinorUpdated, Zenon DEF Good
<1>3. Updated(d, UpdateVolume(d, j, d.volumes[j], d.epoch), j, E)
  BY <1>1, UpdateVolumeStep, Zenon
<1> QED
  BY <1>2, <1>3, Zenon DEF InitiateVolumeUpdate

-----------------------------------------------------------------------------
(***************************************************************************)
(* Requests and offers.                                                    *)
(***************************************************************************)
\* An idle worker adopts a request (Worker::tryAdoptRequest): it commits, opens a scheduler,
\* and offers itself.
LEMMA AdoptStep ==
    ASSUME NEW d, NEW E, Good(d, E), NEW req \in Requests, d.load = None, ~d.hasCommitment,
           HasDormantRoot(d) => IsDormantRoot(d.jobs[req.job]),
           Has(d, req.job) /\ d.jobs[req.job].index = 0 => req.index = 0,
           ReactivationScheduling /\ HasScheduler(d, req.job, req.index)
               => CanCommit(d.schedulers[<<req.job, req.index>>])
    PROVE  Step(d, Adopt(d, req), E)
<1> DEFINE k == IF Has(d, req.job) THEN d ELSE CreateJob(d, req.job)
           a == Commit(Check(k, "tryAdoptRequest", ~IsBusyOrCommitted(d)), req)
           b == IF ReactivationScheduling THEN InitScheduler(a, req) ELSE a
           m == [tag |-> IF req.index = 0 THEN "OFFER_OF_ROOT" ELSE "OFFER_ADOPTION", req |-> req]
<1>1. Adopt(d, req) = Send(b, req.from, m)
  BY Zenon DEF Adopt
<1> Step(d, a, E) /\ Has(a, req.job) /\ a.jobs[req.job].index = req.index /\ a.schedulers = d.schedulers
  BY CommitStep, Zenon
<1> HIDE DEF a
<1>2. Minor(a, b, E)
  <2>1. HasScheduler(a, req.job, req.index) <=> HasScheduler(d, req.job, req.index)
    BY Zenon DEF HasScheduler
  <2>2. ReactivationScheduling => Minor(a, InitScheduler(a, req), E)
    BY <2>1, InitSchedulerStep, Zenon DEF Step, Good
  <2> QED
    BY <2>2, MinorSelf, Zenon DEF Step, Good
<1>3. m \in Messages(E)
  BY Zenon DEF Messages
<1> HIDE DEF b, m
<1>4. Minor(a, Send(b, req.from, m), E)
  BY <1>2, <1>3, SendSteps, MinorTrans DEF Minor
<1> QED
  BY <1>1, <1>4, MinorStep, StepTrans, Zenon DEF Step

\* What JobDatabase::tryAdopt has found out when it says that a request is to be adopted
LEMMA Verdicts ==
    ASSUME NEW d, NEW req \in Requests
    PROVE  /\ TryAdopt(d, req) \in {"REJECT", "ADOPT_FROM_IDLE", "ADOPT_REPLACE_CURRENT"}
           /\ TryAdopt(d, req) = "ADOPT_FROM_IDLE" =>
                 /\ ~d.hasCommitment /\ d.load = None
                 /\ HasDormantRoot(d) => IsDormantRoot(d.jobs[req.job])
                 /\ Has(d, req.job) /\ d.jobs[req.job].index = 0 => req.index = 0
                 /\ HasScheduler(d, req.job, req.index) => CanCommit(d.schedulers[<<req.job, req.index>>])
           /\ TryAdopt(d, req) = "ADOPT_REPLACE_CURRENT" =>
                 ~ReactivationScheduling /\ req.index = 0 /\ d.load # None /\ d.jobs[d.load].index # 0
<1>1. req.index \in Nat
  BY Zenon DEF Requests
<1> DEFINE reject == \/ d.hasCommitment
                     \/ HasDormantRoot(d) /\ ~IsDormantRoot(d.jobs[req.job])
                     \/ /\ HasScheduler(d, req.job, req.index)
                        /\ ~CanCommit(d.schedulers[<<req.job, req.index>>])
                     \/ (d.jobs[req.job] # None /\ d.jobs[req.job].index = 0) /\ req.index > 0
                     \/ d.load = None /\ req.targeted /\ ~IsDormant(d.jobs[req.job])
           leaf == d.load # None /\ d.jobs[d.load].index # 0 /\ IsLeaf(d.jobs[d.load])
           late == d.jobs[req.job] = None \/ d.jobs[req.job].state # "ACTIVE"
<1>2. TryAdopt(d, req) =
          IF reject THEN "REJECT"
          ELSE IF d.load = None THEN "ADOPT_FROM_IDLE"
          ELSE IF ReactivationScheduling THEN "REJECT"
          ELSE IF req.index = 0 /\ late /\ leaf THEN "ADOPT_REPLACE_CURRENT" ELSE "REJECT"
  BY Zenon DEF TryAdopt
<1>3. ~reject => /\ ~d.hasCommitment
                 /\ HasDormantRoot(d) => IsDormantRoot(d.jobs[req.job])
                 /\ Has(d, req.job) /\ d.jobs[req.job].index = 0 => req.index = 0
                 /\ HasScheduler(d, req.job, req.index) => CanCommit(d.schedulers[<<req.job, req.index>>])
  BY <1>1 DEF Has
<1>4. leaf => d.load # None /\ d.jobs[d.load].index # 0
  BY Zenon
<1> HIDE DEF reject, leaf, late
<1>5. TryAdopt(d, req) \in {"REJECT", "ADOPT_FROM_IDLE", "ADOPT_REPLACE_CURRENT"}
  BY <1>2, Zenon
<1>6. TryAdopt(d, req) = "ADOPT_FROM_IDLE" => ~reject /\ d.load = None
  BY <1>2, Zenon
<1>7. TryAdopt(d, req) = "ADOPT_REPLACE_CURRENT" => ~ReactivationScheduling /\ req.index = 0 /\ leaf
  BY <1>2, Zenon
<1> QED
  BY <1>3, <1>4, <1>5, <1>6, <1>7, Zenon

\* Worker::tryAdoptRequest
LEMMA TryAdoptStep ==
    ASSUME NEW d, NEW E, Good(d, E), NEW req \in Requests
    PROVE  Step(d, TryAdoptRequest(d, req), E)
<1> DEFINE verdict == IF ~req.targeted /\ IsAnyWaiting(d) /\ req.index > 0 THEN "REJECT" ELSE TryAdopt(d, req)
           checked == Check(d, "setPendingRootReactivationRequest",
                            d.pendingRoot = None \/ d.pendingRoot.job = req.job)
           m == [tag |-> "REJECT_ONESHOT", req |-> req, dormant |-> IsDormant(d.jobs[req.job])]
           rejected == IF req.index = 0 /\ Has(d, req.job) /\ d.jobs[req.job].index = 0
                       THEN [checked EXCEPT !.pendingRoot = req]
                       ELSE IF req.targeted THEN Send(d, req.from, m) ELSE Bounce(d, req)
           e == TryAdoptRequest(d, req)
<1>1. /\ verdict = "ADOPT_FROM_IDLE" => e = Adopt(d, req)
      /\ verdict = "ADOPT_REPLACE_CURRENT" => e = Adopt(Leave(d, d.load), req)
      /\ verdict = "REJECT" => e = rejected
  BY Zenon DEF TryAdoptRequest
<1> Types(d, E)
  BY Zenon DEF Good
<1>2. /\ verdict \in {"REJECT", "ADOPT_FROM_IDLE", "ADOPT_REPLACE_CURRENT"}
      /\ verdict = "ADOPT_FROM_IDLE" => TryAdopt(d, req) = "ADOPT_FROM_IDLE"
      /\ verdict = "ADOPT_REPLACE_CURRENT" => TryAdopt(d, req) = "ADOPT_REPLACE_CURRENT"
  BY Verdicts, Zenon
<1>3. CASE verdict = "ADOPT_FROM_IDLE"
  <2>1. Step(d, Adopt(d, req), E)
    BY <1>2, <1>3, Verdicts, AdoptStep, Zenon
  <2> QED
    BY <1>1, <1>3, <2>1, Zenon
<1>4. CASE verdict = "ADOPT_REPLACE_CURRENT"
  <2> DEFINE j == d.load
             a == Leave(d, j)
  <2> ~ReactivationScheduling /\ req.index = 0 /\ j # None /\ d.jobs[j].index # 0
    BY <1>2, <1>4, Verdicts, Zenon
  <2>1. j \in Jobs /\ Runs(d, j)
    BY CoreTypes, Zenon DEF Good, Coherent, OneJob
  <2>2. Departed(d, a, j, E)
    BY <2>1, LeaveStep, Zenon DEF IsMember
  <2> HIDE DEF a
  <2>3. Good(a, E) /\ a.load = None /\ ~a.hasCommitment /\ ~HasDormantRoot(a)
    BY <2>1, <2>2, Zenon DEF Departed, Step
  <2>4. Step(a, Adopt(a, req), E)
    BY <2>3, AdoptStep, Zenon
  <2>5. Step(d, Adopt(a, req), E)
    BY <2>2, <2>4, StepTrans, Zenon DEF Departed
  <2> QED
    BY <1>1, <1>4, <2>5, Zenon DEF a
<1>5. CASE verdict = "REJECT"
  <2>1. Minor(d, [checked EXCEPT !.pendingRoot = req], E)
    <3>1. Minor(d, checked, E)
      BY SendSteps, Zenon DEF Watched
    <3> HIDE DEF checked
    <3> QED
      BY <3>1, FieldSteps, MinorTrans, Zenon DEF Minor
  <2>2. Minor(d, Send(d, req.from, m), E)
    <3>1. m \in Messages(E)
      BY Zenon DEF Messages, IsDormant
    <3> HIDE DEF m
    <3> QED
      BY <3>1, SendSteps, Zenon
  <2>3. Minor(d, Bounce(d, req), E)
    <3>1. [req EXCEPT !.hopped = TRUE] \in Requests
      BY Zenon DEF Requests
    <3> QED
      BY <3>1, SendSteps, Zenon DEF Bounce
  <2> HIDE DEF checked, m
  <2>4. Minor(d, rejected, E)
    BY <2>1, <2>2, <2>3, Zenon
  <2> HIDE DEF rejected
  <2> QED
    BY <1>1, <1>5, <2>4, MinorStep, Zenon
<1> QED
  BY <1>2, <1>3, <1>4, <1>5, Zenon

\* The requests of the future change.
LEMMA FutureSteps ==
    ASSUME NEW d, NEW E, Types(d, E), NEW f, DOMAIN f \subseteq Int,
           \A k \in DOMAIN f : f[k] \in Seq(Requests) \ {<<>>}
    PROVE  /\ Minor(d, [d EXCEPT !.future = f], E)
           /\ \A b \in BOOLEAN : Minor(d, [d EXCEPT !.future = f, !.arriving = b], E)
<1>1. ASSUME NEW e, e = [d EXCEPT !.future = f] PROVE Minor(d, e, E)
  BY <1>1, Zenon DEF Minor, Types, IsDatabase, SameCore, SameStanding
<1>2. ASSUME NEW b \in BOOLEAN, NEW e, e = [d EXCEPT !.future = f, !.arriving = b] PROVE Minor(d, e, E)
  BY <1>2, Zenon DEF Minor, Types, IsDatabase, SameCore, SameStanding
<1> QED
  BY <1>1, <1>2, Zenon

\* JobDatabase::addFutureRequestMessage
LEMMA AddFutureStep ==
    ASSUME NEW d, NEW E, Types(d, E), NEW req \in Requests
    PROVE  Minor(d, AddFutureRequest(d, req), E)
<1> DEFINE others == IF req.epoch \in DOMAIN d.future THEN d.future[req.epoch] ELSE <<>>
           f == With(d.future, req.epoch, Append(others, req))
<1>1. DOMAIN d.future \subseteq Int /\ \A k \in DOMAIN d.future : d.future[k] \in Seq(Requests) \ {<<>>}
  BY Zenon DEF Types, IsDatabase
<1>2. req.epoch \in Int
  BY Zenon DEF Requests
<1>3. others \in Seq(Requests)
  <2>1. CASE req.epoch \in DOMAIN d.future
    BY <1>1, <2>1, Zenon
  <2>2. CASE req.epoch \notin DOMAIN d.future
    <3>1. others = <<>>
      BY <2>2, Zenon
    <3> HIDE DEF others
    <3> QED
      BY <3>1
  <2> QED
    BY <2>1, <2>2, Zenon
<1>4. AddFutureRequest(d, req) = [d EXCEPT !.future = f]
  BY Zenon DEF AddFutureRequest
<1> HIDE DEF others
<1>5. ASSUME NEW S, NEW s \in Seq(S), NEW x \in S PROVE Append(s, x) \in Seq(S) \ {<<>>}
  OBVIOUS
<1>6. Append(others, req) \in Seq(Requests) \ {<<>>}
  BY <1>3, <1>5, Zenon
<1>7. ASSUME NEW list \in Seq(Requests) \ {<<>>}, NEW g, g = With(d.future, req.epoch, list)
      PROVE  DOMAIN g \subseteq Int /\ \A k \in DOMAIN g : g[k] \in Seq(Requests) \ {<<>>}
  BY <1>1, <1>2, <1>7, Zenon DEF With
<1>8. DOMAIN f \subseteq Int /\ \A k \in DOMAIN f : f[k] \in Seq(Requests) \ {<<>>}
  BY <1>6, <1>7, Zenon
<1> HIDE DEF f
<1>9. Minor(d, [d EXCEPT !.future = f], E)
  BY <1>8, FutureSteps, Zenon
<1> QED
  BY <1>4, <1>9, Zenon

\* Worker::handleRequestNode
LEMMA RequestStep ==
    ASSUME NEW d, NEW E, Good(d, E), NEW req \in Requests
    PROVE  Step(d, HandleRequestNode(d, req), E)
<1> DEFINE a == [d EXCEPT !.rootRequests = @ \cup {req}, !.local = @ \cup {req.job}]
           s == StopWaiting(d, req.job, req.epoch)
           e == HandleRequestNode(d, req)
<1> Types(d, E) /\ req.job \in Jobs /\ req.epoch \in Int
  BY Zenon DEF Good, Requests
<1>1. \/ e = d \/ e = Push(a, req.job, 1) \/ e = AddFutureRequest(d, req) \/ e = TryAdoptRequest(d, req)
      \/ Has(d, req.job) /\ e = TryAdoptRequest(s, req)
  BY Zenon DEF HandleRequestNode
<1>2. Step(d, d, E)
  BY MinorSelf, MinorStep, Zenon
<1>3. Step(d, Push(a, req.job, 1), E)
  <2> DEFINE b == [d EXCEPT !.rootRequests = @ \cup {req}]
             l == d.local \cup {req.job}
  <2>1. d.rootRequests \cup {req} \in SUBSET Requests /\ l \in SUBSET Jobs
    BY Zenon DEF Types, IsDatabase
  <2>2. Minor(d, b, E)
    BY <2>1, FieldSteps, Zenon
  <2>3. a = [b EXCEPT !.local = l]
    BY Zenon DEF Types, IsDatabase
  <2> HIDE DEF b, l
  <2>4. Minor(d, a, E)
    BY <2>1, <2>2, <2>3, FieldSteps, MinorTrans, Zenon DEF Minor
  <2> HIDE DEF a
  <2>5. Minor(d, Push(a, req.job, 1), E)
    BY <2>4, SendSteps, MinorTrans DEF Minor
  <2> QED
    BY <2>5, MinorStep, Zenon
<1>4. Step(d, AddFutureRequest(d, req), E)
  BY AddFutureStep, MinorStep, Zenon
<1>5. Step(d, TryAdoptRequest(d, req), E)
  BY TryAdoptStep, Zenon
<1>6. Has(d, req.job) => Step(d, TryAdoptRequest(s, req), E)
  <2>1. Has(d, req.job) => Step(d, s, E)
    BY WaitingSteps, MinorStep, Zenon
  <2> HIDE DEF s
  <2> QED
    BY <2>1, TryAdoptStep, StepTrans, Zenon DEF Step
<1> HIDE DEF e, a, s
<1>7. Step(d, e, E)
  BY <1>1, <1>2, <1>3, <1>4, <1>5, <1>6, Zenon
<1> QED
  BY <1>7, Zenon DEF e

\* The scheduler of a node is told that nobody has taken a position.
LEMMA RejectReactivationStep ==
    ASSUME NEW d, NEW E, Types(d, E), NEW j, NEW epoch \in Int, NEW index, NEW lost
    PROVE  Minor(d, RejectReactivation(d, j, epoch, index, lost), E)
<1> DEFINE node == d.jobs[j]
           child == IF index = LeftIndex(node) THEN node.left ELSE node.right
           sc == GetScheduler(d, j, node.index)
           tc == HandleRejectReactivation(sc, epoch, index, lost, child # None)
<1>1. RejectReactivation(d, j, epoch, index, lost) = SetScheduler(d, j, node.index, tc)
  BY Zenon DEF RejectReactivation
<1>2. HasScheduler(d, j, node.index) => Sound(sc)
  BY OwnScheduler, Zenon
<1> HIDE DEF sc, child
<1>3. HasScheduler(d, j, node.index) => Sound(tc)
  BY <1>2, SessionOfChildSound, Zenon DEF Ranks
<1> HIDE DEF tc
<1> QED
  BY <1>1, <1>3, SetStep, Zenon

\* Worker::handleOfferAdoption
LEMMA OfferStep ==
    ASSUME NEW d, NEW E, Types(d, E), NEW src \in Ranks, NEW req \in Requests
    PROVE  Minor(d, HandleOfferAdoption(d, src, req), E)
<1> DEFINE j == req.job
           index == d.jobs[j].index
           sc == GetScheduler(d, j, index)
           obsolete == \/ IsAdoptionOfferObsolete(d, req)
                       \/ HasOwnScheduler(d, j) /\ ~AcceptsChild(sc, req.index)
           reject == ~Has(d, j) \/ obsolete
           adopted == IF req.index = LeftIndex(d.jobs[j]) THEN [d EXCEPT !.jobs[j].left = src]
                      ELSE [d EXCEPT !.jobs[j].right = src]
           a == IF reject THEN d ELSE adopted
           m == [tag |-> "ANSWER_OFFER", job |-> j, index |-> req.index, accepted |-> ~reject]
           b == Send(a, src, m)
           tc == HandleChildJoining(sc, src, req.epoch, req.index)
           e == HandleOfferAdoption(d, src, req)
<1> j \in Jobs /\ req.epoch \in Int /\ req.index \in Nat
  BY Zenon DEF Requests
<1>1. /\ ~Has(d, j) => e = b
      /\ Has(d, j) /\ reject => e = RejectReactivation(b, j, req.epoch, req.index, FALSE)
      /\ ~reject => e = SetScheduler(b, j, index, tc)
  BY Zenon DEF HandleOfferAdoption
<1>2. ~reject => Has(d, j)
  BY Zenon
<1>3. m \in Messages(E)
  BY Zenon DEF Messages
<1> HIDE DEF reject, obsolete, m, j
<1>4. Has(d, j) => Minor(d, adopted, E) /\ adopted.schedulers = d.schedulers
  <2>1. Has(d, j) => /\ Minor(d, [d EXCEPT !.jobs[j].left = src], E)
                     /\ Minor(d, [d EXCEPT !.jobs[j].right = src], E)
    BY JobSteps, Zenon
  <2>2. /\ [d EXCEPT !.jobs[j].left = src].schedulers = d.schedulers
        /\ [d EXCEPT !.jobs[j].right = src].schedulers = d.schedulers
    BY Zenon DEF Types, IsDatabase
  <2> QED
    BY <2>1, <2>2, Zenon
<1> HIDE DEF adopted
<1>5. Minor(d, a, E) /\ a.schedulers = d.schedulers
  BY <1>2, <1>4, MinorSelf, Zenon
<1> HIDE DEF a
<1> Minor(d, b, E) /\ b.schedulers = d.schedulers
  <2>1. Minor(a, b, E)
    BY <1>3, <1>5, SendSteps, Zenon DEF Minor
  <2>2. b.schedulers = a.schedulers
    BY <1>5, Zenon DEF Send, Minor, Types, IsDatabase
  <2> QED
    BY <1>5, <2>1, <2>2, MinorTrans, Zenon
<1> HIDE DEF b
<1>6. Minor(b, RejectReactivation(b, j, req.epoch, req.index, FALSE), E)
  BY RejectReactivationStep, Zenon DEF Minor
<1>7. Minor(b, SetScheduler(b, j, index, tc), E)
  <2>1. HasScheduler(b, j, index) => HasScheduler(d, j, index)
    BY Zenon DEF HasScheduler
  <2>2. HasScheduler(d, j, index) => Sound(sc)
    BY OwnScheduler, Zenon
  <2> HIDE DEF sc
  <2>3. HasScheduler(b, j, index) => Sound(tc)
    BY <2>1, <2>2, SessionOfChildSound, Zenon
  <2> HIDE DEF tc
  <2> QED
    BY <2>3, SetStep, Zenon DEF Minor
<1> HIDE DEF e, tc, index
<1>8. Minor(d, e, E)
  BY <1>1, <1>2, <1>6, <1>7, MinorTrans, Zenon
<1> QED
  BY <1>8, Zenon DEF e

\* Worker::handleRejectOneshot
LEMMA RejectOneshotStep ==
    ASSUME NEW d, NEW E, Types(d, E), NEW m, m.req \in Requests
    PROVE  Minor(d, HandleRejectOneshot(d, m), E)
<1> DEFINE req == m.req
           untargeted == [req EXCEPT !.targeted = FALSE]
           hopped == [untargeted EXCEPT !.hopped = TRUE]
<1>1. req.epoch \in Int
  BY Zenon DEF Requests
<1>2. untargeted \in Requests
  BY Zenon DEF Requests
<1> HIDE DEF untargeted
<1>3. hopped \in Requests
  BY <1>2, Zenon DEF Requests
<1> HIDE DEF hopped
<1>4. Minor(d, d, E) /\ Minor(d, Hop(d, hopped), E)
  BY <1>3, MinorSelf, SendSteps, Zenon
<1>5. Minor(d, RejectReactivation(d, req.job, req.epoch, req.index, ~m.dormant), E)
  BY <1>1, RejectReactivationStep, Zenon
<1> QED
  BY <1>4, <1>5, Zenon DEF HandleRejectOneshot, Bounce, untargeted, hopped

\* The callback for the messages of the schedulers
LEMMA LocalSchedulerStep ==
    ASSUME NEW d, NEW E, Types(d, E), NEW src \in Ranks, NEW m \in Messages(E),
           m.tag \in {"INITIALIZE_CHILD", "RETURN_NODES"}
    PROVE  Minor(d, HandleLocalScheduler(d, src, m), E)
<1> DEFINE sc == GetScheduler(d, m.job, m.index)
           tc == HandleSchedulingMessage(sc, src, m)
           back == [tag |-> "RETURN_NODES", job |-> m.job, index |-> ParentIndex(m.index), nodes |-> m.nodes]
<1>1. m.nodes \in SUBSET InactiveNodes /\ (m.tag = "INITIALIZE_CHILD" => m.epoch \in Int /\ m.volume \in Int)
  BY MessageFields, Zenon
<1>2. HasScheduler(d, m.job, m.index) => Sound(sc)
  BY OwnScheduler, Zenon
<1> HIDE DEF sc
<1>3. HasScheduler(d, m.job, m.index) => Sound(tc)
  BY <1>1, <1>2, SchedulingMessageSound, Zenon
<1> HIDE DEF tc
<1>4. HasScheduler(d, m.job, m.index) => Minor(d, PutScheduler(d, tc), E)
  BY <1>3, PutStep, Zenon
<1>5. m.tag = "INITIALIZE_CHILD" => Minor(d, Send(d, src, back), E)
  <2>1. ASSUME m.tag = "INITIALIZE_CHILD" PROVE back \in SchedulerMessages /\ back.tag # "EMIT_REQUEST"
    <3>1. m.job \in Jobs /\ ParentIndex(m.index) \in Int
      BY <2>1, MessageFields DEF ParentIndex
    <3> QED
      BY <1>1, <3>1, Zenon DEF SchedulerMessages
  <2>2. m.tag = "INITIALIZE_CHILD" => back \in Messages(E)
    BY <2>1, Zenon DEF Messages
  <2> HIDE DEF back
  <2> QED
    BY <2>2, SendSteps, Zenon
<1>6. Minor(d, d, E)
  BY MinorSelf, Zenon
<1> QED
  BY <1>4, <1>5, <1>6, Zenon DEF HandleLocalScheduler, sc, tc, back

\* Worker::handleSchedReleaseFromWaiting: a node that is here stops waiting.
LEMMA ReleaseFromWaitingStep ==
    ASSUME NEW d, NEW E, Types(d, E), NEW src \in Ranks, NEW m \in Messages(E), m.tag = "RELEASE"
    PROVE  Minor(d, HandleSchedReleaseFromWaiting(d, src, m), E)
<1> DEFINE freed == [tag |-> "NODE_FREED", job |-> m.job, rank |-> d.rank, index |-> m.index, epoch |-> m.epoch]
<1>1. m.job \in Jobs /\ m.index \in Nat /\ m.epoch \in Int /\ d.rank \in Workers
  BY MessageFields, Zenon DEF Types, IsDatabase
<1>2. freed \in Messages(E)
  BY <1>1, Zenon DEF Messages
<1> HIDE DEF freed
<1>3. Minor(d, Send(d, src, freed), E)
  BY <1>2, SendSteps, Zenon
<1>4. Has(d, m.job) => Minor(d, StopWaiting(d, m.job, m.epoch), E)
  BY <1>1, WaitingSteps, Zenon
<1> QED
  BY <1>3, <1>4, Zenon DEF HandleSchedReleaseFromWaiting, freed

\* Worker::handleSchedNodeFreed
LEMMA NodeFreedStep ==
    ASSUME NEW d, NEW E, Types(d, E), NEW m
    PROVE  Minor(d, HandleSchedNodeFreed(d, m), E)
<1> DEFINE sc == GetScheduler(d, m.job, m.index)
           tc == HandleNodeFreed(sc, m.rank, m.epoch, m.index)
<1>1. HasScheduler(d, m.job, m.index) => Sound(sc)
  BY OwnScheduler, Zenon
<1> HIDE DEF sc
<1>2. HasScheduler(d, m.job, m.index) => Sound(tc)
  BY <1>1, NodeFreedSound, Zenon
<1> HIDE DEF tc
<1> QED
  BY <1>2, SetStep, Zenon DEF HandleSchedNodeFreed, sc, tc

-----------------------------------------------------------------------------
(***************************************************************************)
(* Answers, descriptions and departures.                                   *)
(***************************************************************************)
\* A node asks for the revision it lacks.
LEMMA QueryStep ==
    ASSUME NEW d, NEW E, Types(d, E), NEW j \in Jobs, Has(d, j), NEW src
    PROVE  Minor(d, QueryDescription(d, src, j), E)
<1> DEFINE m == [tag |-> "QUERY_DESCRIPTION", job |-> j, rev |-> d.jobs[j].rev + 1]
<1>1. d.jobs[j] \in JobNodes
  BY JobSteps, Zenon
<1>2. d.jobs[j].rev + 1 \in Nat
  BY <1>1 DEF JobNodes
<1>3. m \in Messages(E)
  BY <1>2, Zenon DEF Messages
<1> HIDE DEF m
<1>4. Minor(d, Send(d, src, m), E) /\ Minor(d, d, E)
  BY <1>3, SendSteps, MinorSelf, Zenon
<1> QED
  BY <1>4, Zenon DEF QueryDescription, m

\* The job of a node that is still in the database after a minor operation
LEMMA MinorNode ==
    ASSUME NEW d, NEW e, NEW E, Minor(d, e, E), NEW j \in Jobs, Has(d, j)
    PROVE  /\ Types(e, E) /\ Has(e, j) /\ e.jobs[j].state = d.jobs[j].state
           /\ e.jobs[j].index = d.jobs[j].index /\ e.jobs[j].commitment = d.jobs[j].commitment
BY Zenon DEF Minor, SameCore, SameStanding, Has

\* A worker whose offer was accepted starts the job once it has the description.
LEMMA StartStep ==
    ASSUME NEW d, NEW E, Good(d, E), NEW j \in Jobs, NEW src, NEW req \in Requests,
           HasCommitment(d, j) => d.jobs[j].commitment = req
    PROVE  Step(d, StartCommitted(d, src, j, req), E)
<1> DEFINE a == [d EXCEPT !.jobs[j].desired = req.rev]
           q == QueryDescription(a, src, j)
<1>1. CASE ~HasCommitment(d, j)
  <2>1. StartCommitted(d, src, j, req) = d
    BY <1>1, Zenon DEF StartCommitted
  <2> QED
    BY <2>1, MinorSelf, MinorStep, Zenon DEF Good
<1>2. CASE HasCommitment(d, j)
  <2>1. \/ StartCommitted(d, src, j, req) = q
        \/ d.jobs[j].state = "SUSPENDED" /\ StartCommitted(d, src, j, req) = Reactivate(Uncommit(q, j), req)
        \/ StartCommitted(d, src, j, req) = Execute(Uncommit(q, j), j)
    BY <1>2, Zenon DEF StartCommitted
  <2>2. Minor(d, a, E)
    <3>1. req.rev \in Nat
      BY Zenon DEF Requests
    <3> QED
      BY <1>2, <3>1, JobSteps, Zenon DEF Good, HasCommitment
  <2> HIDE DEF a
  <2>3. Minor(a, q, E)
    BY <1>2, <2>2, MinorNode, QueryStep, Zenon DEF HasCommitment
  <2> HIDE DEF q
  <2>4. Minor(d, q, E)
    BY <2>2, <2>3, MinorTrans, Zenon
  <2>5. Step(d, q, E) /\ Good(q, E)
    BY <2>4, MinorStep, Zenon DEF Step
  <2>6. HasCommitment(q, j) /\ q.jobs[j].state = d.jobs[j].state /\ q.jobs[j].commitment = req
    BY <1>2, <2>4, MinorNode DEF HasCommitment
  <2>7. Step(q, Execute(Uncommit(q, j), j), E)
    BY <2>5, <2>6, ExecuteStep, Zenon
  <2>8. d.jobs[j].state = "SUSPENDED" => Step(q, Reactivate(Uncommit(q, j), req), E)
    BY <2>5, <2>6, ReactivateStep, Zenon
  <2> QED
    BY <2>1, <2>5, <2>7, <2>8, StepTrans, Zenon
<1> QED
  BY <1>1, <1>2, Zenon

\* Worker::handleAnswerAdoptionOffer
LEMMA AnswerStep ==
    ASSUME NEW d, NEW E, Good(d, E), NEW src, NEW m, m.job \in Jobs
    PROVE  Step(d, HandleAnswerAdoptionOffer(d, src, m), E)
<1> DEFINE j == m.job
           req == d.jobs[j].commitment
           u == InitiateVolumeUpdate(d, j)
<1>1. Step(d, d, E)
  BY MinorSelf, MinorStep, Zenon DEF Good
<1>2. CASE ~HasCommitment(d, j)
  BY <1>1, <1>2, Zenon DEF HandleAnswerAdoptionOffer
<1>3. CASE HasCommitment(d, j)
  <2>1. HandleAnswerAdoptionOffer(d, src, m) \in {d, GiveUp(d, j), StartCommitted(u, src, j, req)}
    BY <1>3, Zenon DEF HandleAnswerAdoptionOffer, HasCommitment
  <2>2. Step(d, GiveUp(d, j), E)
    BY <1>3, GiveUpStep, Zenon DEF GiveUp
  <2>3. Updated(d, u, j, E)
    BY InitiateStep, Zenon
  <2>4. d.jobs[j] \in JobNodes /\ req # None
    BY <1>3, JobSteps, Zenon DEF HasCommitment, Good
  <2>5. req \in Requests
    BY <2>4, Zenon DEF JobNodes
  <2> HIDE DEF u
  <2>6. HasCommitment(u, j) => u.jobs[j].commitment = req
    BY <2>3, Zenon DEF Updated
  <2>7. Step(d, u, E) /\ Good(u, E)
    BY <2>3, Zenon DEF Updated, Step
  <2> HIDE DEF req, j
  <2>8. Step(u, StartCommitted(u, src, j, req), E)
    BY <2>5, <2>6, <2>7, StartStep, Zenon DEF j
  <2>9. Step(d, StartCommitted(u, src, j, req), E)
    BY <2>7, <2>8, StepTrans, Zenon
  <2> QED
    BY <1>1, <2>1, <2>2, <2>9, Zenon
<1> QED
  BY <1>2, <1>3, Zenon

\* Worker::handleQueryForJobDescription
LEMMA QueryDescriptionStep ==
    ASSUME NEW d, NEW E, Types(d, E), NEW src \in Ranks, NEW m, m.job \in Jobs, m.rev \in Nat
    PROVE  Minor(d, HandleQueryJobDescription(d, src, m), E)
<1> DEFINE j == m.job
           description == [tag |-> "DESCRIPTION", job |-> j, rev |-> m.rev,
                           tracked |-> src \in {d.jobs[j].left, d.jobs[j].right}]
           sent == [d.bulk EXCEPT ![src] = Append(d.bulk[src], description)]
           waiting == d.jobs[j].waiting \cup {<<src, m.rev>>}
<1>1. Minor(d, [d EXCEPT !.bulk = sent], E)
  <2>1. d.bulk \in [Ranks -> Seq(Descriptions)]
    BY Zenon DEF Types, IsDatabase
  <2>2. description \in Descriptions
    BY DEF Descriptions
  <2> HIDE DEF description
  <2>3. sent \in [Ranks -> Seq(Descriptions)]
    BY <2>1, <2>2
  <2> HIDE DEF sent
  <2> QED
    BY <2>3, FieldSteps, Zenon
<1>2. SendRevisionDescription(d, src, j, m.rev) = [d EXCEPT !.bulk = sent]
  BY Zenon DEF SendRevisionDescription
<1>3. Has(d, j) => Minor(d, [d EXCEPT !.jobs[j].waiting = waiting], E)
  <2>1. Has(d, j) => d.jobs[j] \in JobNodes
    BY JobSteps, Zenon
  <2>2. Has(d, j) => waiting \in SUBSET (Ranks \X Nat)
    BY <2>1 DEF JobNodes
  <2> HIDE DEF waiting
  <2> QED
    BY <2>2, JobSteps, Zenon
<1>4. Minor(d, d, E)
  BY MinorSelf, Zenon
<1>5. \/ HandleQueryJobDescription(d, src, m) = d
      \/ HandleQueryJobDescription(d, src, m) = SendRevisionDescription(d, src, j, m.rev)
      \/ Has(d, j) /\ HandleQueryJobDescription(d, src, m) = [d EXCEPT !.jobs[j].waiting = waiting]
  BY Zenon DEF HandleQueryJobDescription
<1> HIDE DEF sent, waiting
<1> QED
  BY <1>1, <1>2, <1>3, <1>4, <1>5, Zenon

\* Worker::handleSendJobDescription
LEMMA DescriptionStep ==
    ASSUME NEW d, NEW E, Good(d, E), NEW src, NEW m, m.job \in Jobs, m.rev \in Nat \cup {-1}
    PROVE  Step(d, HandleSendJobDescription(d, src, m), E)
<1> DEFINE j == m.job
           pushed == [d EXCEPT !.jobs[j].rev = m.rev]
           desired == [pushed EXCEPT !.jobs[j].desired = d.jobs[j].commitment.rev]
           x == Execute(Uncommit(desired, j), j)
           u == InitiateVolumeUpdate(x, j)
           e == HandleSendJobDescription(d, src, m)
<1>1. \/ e = d
      \/ Has(d, j) /\ HasCommitment(d, j) /\ e = QueryIfActive(u, src, j)
      \/ Has(d, j) /\ ~HasCommitment(d, j) /\ e = QueryIfActive(pushed, src, j)
  BY Zenon DEF HandleSendJobDescription
<1>2. Step(d, d, E)
  BY MinorSelf, MinorStep, Zenon DEF Good
<1>3. ASSUME NEW a, Step(d, a, E), Has(a, j) PROVE Step(d, QueryIfActive(a, src, j), E)
  <2>1. Good(a, E) /\ Types(a, E)
    BY <1>3, Zenon DEF Step, Good
  <2>2. Step(a, QueryDescription(a, src, j), E)
    BY <1>3, <2>1, QueryStep, MinorStep, Zenon
  <2> QED
    BY <1>3, <2>2, StepTrans, Zenon DEF QueryIfActive
<1>4. CASE ~Has(d, j)
  BY <1>1, <1>2, <1>4, Zenon
<1>5. CASE Has(d, j)
  <2>1. Minor(d, pushed, E)
    BY <1>5, JobSteps, Zenon DEF Good
  <2> HIDE DEF pushed
  <2>2. Step(d, pushed, E) /\ Has(pushed, j) /\ Types(pushed, E)
    BY <1>5, <2>1, MinorStep, MinorNode, Zenon DEF Good
  <2>3. HasCommitment(d, j) => Step(d, u, E) /\ Has(u, j)
    <3> SUFFICES ASSUME HasCommitment(d, j) PROVE Step(d, u, E) /\ Has(u, j)
      BY Zenon
    <3>1. d.jobs[j] \in JobNodes /\ d.jobs[j].commitment # None
      BY <1>5, JobSteps, Zenon DEF Good, HasCommitment
    <3>2. d.jobs[j].commitment \in Requests
      BY <3>1, Zenon DEF JobNodes
    <3>3. d.jobs[j].commitment.rev \in Nat
      BY <3>2, Zenon DEF Requests
    <3>4. Minor(pushed, desired, E)
      BY <2>2, <3>3, JobSteps, Zenon
    <3> HIDE DEF desired
    <3>5. Minor(d, desired, E)
      BY <2>1, <3>4, MinorTrans, Zenon
    <3>6. Step(d, desired, E) /\ Good(desired, E) /\ HasCommitment(desired, j)
      BY <1>5, <3>5, MinorStep, MinorNode DEF HasCommitment, Step
    <3>7. Step(desired, x, E) /\ Runs(x, j)
      BY <3>6, ExecuteStep, Zenon
    <3> HIDE DEF x
    <3>8. Updated(x, u, j, E)
      BY <3>7, InitiateStep, Zenon DEF Step
    <3> HIDE DEF u
    <3> QED
      BY <3>6, <3>7, <3>8, StepTrans, Zenon DEF Updated, Runs
  <2> HIDE DEF u, e, j
  <2> QED
    BY <1>1, <1>2, <1>3, <2>2, <2>3, Zenon DEF e
<1> QED
  BY <1>4, <1>5, Zenon

\* A child that has left is a past child.
LEMMA UnsetTypes ==
    ASSUME NEW n \in JobNodes
    PROVE  /\ n.left \in Ranks => Alike(n, UnsetLeftChild(n))
           /\ n.right \in Ranks => Alike(n, UnsetRightChild(n))
<1>1. n.past \in SUBSET Ranks
  BY Zenon DEF JobNodes
<1>2. ASSUME NEW r \in Ranks PROVE n.past \cup {r} \in SUBSET Ranks
  BY <1>1, Zenon
<1> DEFINE a == [n EXCEPT !.left = None]
           b == [a EXCEPT !.past = n.past \cup {n.left}]
           c == [n EXCEPT !.right = None]
           e == [c EXCEPT !.past = n.past \cup {n.right}]
<1>3. UnsetLeftChild(n) = b /\ UnsetRightChild(n) = e
  BY Zenon DEF UnsetLeftChild, UnsetRightChild, JobNodes
<1>4. Alike(n, a) /\ Alike(n, c)
  BY NodeFields, Zenon
<1>5. n.left \in Ranks => Alike(a, b)
  BY <1>2, <1>4, NodeFields, Zenon DEF Alike
<1>6. n.right \in Ranks => Alike(c, e)
  BY <1>2, <1>4, NodeFields, Zenon DEF Alike
<1> HIDE DEF a, b, c, e
<1> QED
  BY <1>3, <1>4, <1>5, <1>6, Zenon DEF Alike, SameStanding

\* Worker::handleNotifyNodeLeavingJob
LEMMA NodeLeavingStep ==
    ASSUME NEW d, NEW E, Good(d, E), NEW src \in Ranks, NEW m \in Messages(E), m.tag = "NODE_LEAVING"
    PROVE  Step(d, HandleNodeLeaving(d, src, m), E)
<1> DEFINE j == m.job
           node == d.jobs[j]
           left == node.left = src /\ LeftIndex(node) = m.index
           right == node.right = src /\ RightIndex(node) = m.index
           pruned == [d EXCEPT !.jobs[j] = IF left THEN UnsetLeftChild(@) ELSE UnsetRightChild(@)]
           e == HandleNodeLeaving(d, src, m)
<1>1. m.job \in Jobs
  BY MessageFields, Zenon
<1> m.job \in Jobs /\ Types(d, E) /\ d.epoch \in Int
  <2>1. Types(d, E)
    BY Zenon DEF Good
  <2>2. d.epoch \in Nat
    BY <2>1, Zenon DEF Types, IsDatabase
  <2> QED
    BY <1>1, <2>1, <2>2
<1>2. Step(d, d, E) /\ Step(d, Send(d, m.root, m), E)
  BY MinorSelf, SendSteps, MinorStep, Zenon
<1>3. \/ e \in {d, Send(d, m.root, m)}
      \/ Has(d, j) /\ (left \/ right) /\ e \in {pruned, SpawnJobRequest(pruned, j, m.index, d.epoch)}
  BY Zenon DEF HandleNodeLeaving
<1>4. ASSUME Has(d, j), left \/ right
      PROVE  Step(d, pruned, E) /\ Step(d, SpawnJobRequest(pruned, j, m.index, d.epoch), E)
  <2>1. node \in JobNodes /\ m.index \in Nat
    BY <1>4, Role, Zenon
  <2> DEFINE n == IF left THEN UnsetLeftChild(node) ELSE UnsetRightChild(node)
  <2>2. Alike(node, n)
    BY <1>4, <2>1, UnsetTypes, Zenon
  <2>3. pruned = [d EXCEPT !.jobs[j] = n]
    BY Zenon
  <2> HIDE DEF n, pruned
  <2>4. Minor(d, pruned, E)
    BY <1>4, <2>2, <2>3, NodeStep, Zenon DEF Alike
  <2>5. Minor(pruned, SpawnJobRequest(pruned, j, m.index, d.epoch), E)
    BY <1>4, <2>1, <2>4, MinorNode, SpawnStep, Zenon
  <2> QED
    BY <2>4, <2>5, MinorTrans, MinorStep, Zenon
<1> HIDE DEF e, left, right, pruned
<1>5. Step(d, e, E)
  BY <1>2, <1>3, <1>4, Zenon
<1> QED
  BY <1>5, Zenon DEF e

-----------------------------------------------------------------------------
(***************************************************************************)
(* Results, interruptions and terminations.                                *)
(***************************************************************************)
\* interruptJob tells the children and the past children.
LEMMA TellStep ==
    ASSUME NEW d, NEW E, Types(d, E), NEW j, NEW tag, [tag |-> tag, job |-> j] \in Messages(E)
    PROVE  Minor(d, Propagate(d, j, tag), E)
<1> DEFINE node == d.jobs[j]
           msg == [tag |-> tag, job |-> j]
           a == SendIf(d, node.left, msg)
           b == SendIf(a, node.right, msg)
           out == [r \in Ranks |-> IF r \in node.past THEN Append(b.out[r], msg) ELSE b.out[r]]
<1>1. Propagate(d, j, tag) = [b EXCEPT !.out = out]
  BY Zenon DEF Propagate
<1>2. ASSUME NEW x, Types(x, E), NEW dest PROVE Minor(x, SendIf(x, dest, msg), E)
  BY <1>2, SendSteps, MinorSelf, Zenon DEF SendIf
<1> HIDE DEF msg
<1>3. Minor(d, a, E)
  BY <1>2, Zenon
<1> HIDE DEF a
<1>4. Minor(a, b, E)
  BY <1>2, <1>3, Zenon DEF Minor
<1> HIDE DEF b
<1>5. Minor(d, b, E) /\ Types(b, E)
  BY <1>3, <1>4, MinorTrans, Zenon DEF Minor
<1>6. b.out \in [Ranks -> Seq(Messages(E))]
  BY <1>5, Zenon DEF Types, IsDatabase
<1>7. out \in [Ranks -> Seq(Messages(E))]
  <2>1. msg \in Messages(E)
    BY Zenon DEF msg
  <2> QED
    BY <1>6, <2>1
<1> HIDE DEF out
<1>8. Minor(b, [b EXCEPT !.out = out], E)
  BY <1>5, <1>7, FieldSteps, Zenon
<1> QED
  BY <1>1, <1>5, <1>8, MinorTrans, Zenon

\* Worker::interruptJob
LEMMA InterruptStep ==
    ASSUME NEW d, NEW E, Good(d, E), NEW j \in Jobs, NEW terminate \in BOOLEAN, NEW reckless \in BOOLEAN,
           IF terminate THEN j \in MayEnd(E) ELSE j \in Incremental
    PROVE  Handled(d, InterruptJob(d, j, terminate, reckless), E)
<1> DEFINE node == d.jobs[j]
           tag == IF terminate THEN IF reckless THEN "ABORTING" ELSE "TERMINATING" ELSE "INTERRUPT"
           told == Propagate(d, j, tag)
           u == IF node.commitment = None THEN told ELSE GiveUp(told, j)
           e == InterruptJob(d, j, terminate, reckless)
<1>1. \/ e = d
      \/ Has(d, j) /\ terminate /\ e = Terminate(u, j)
      \/ Has(d, j) /\ ~terminate /\ node.state = "ACTIVE" /\ e = Suspend(u, j)
      \/ Has(d, j) /\ e = u
  BY Zenon DEF InterruptJob
<1>2. Step(d, d, E)
  BY MinorSelf, MinorStep, Zenon DEF Good
<1>3. CASE ~Has(d, j)
  BY <1>1, <1>2, <1>3, StepHandled, Zenon
<1>4. CASE Has(d, j)
  <2>1. [tag |-> tag, job |-> j] \in Messages(E)
    BY Zenon DEF Messages, MayEnd
  <2> HIDE DEF tag
  <2>2. Minor(d, told, E)
    BY <2>1, TellStep, Zenon DEF Good
  <2> HIDE DEF told
  <2> /\ Step(d, told, E) /\ Good(told, E) /\ Has(told, j) /\ told.jobs[j].state = node.state
      /\ told.jobs[j].commitment = node.commitment
    BY <1>4, <2>2, MinorStep, MinorNode DEF Step
  <2> Step(d, u, E) /\ Has(u, j) /\ ~HasCommitment(u, j) /\ u.jobs[j].state = node.state
    <3>1. CASE node.commitment = None
      BY <3>1, Zenon DEF HasCommitment
    <3>2. CASE node.commitment # None
      <4>1. HasCommitment(told, j)
        BY <3>2, Zenon DEF HasCommitment
      <4> DEFINE g == GiveUp(told, j)
      <4>2. Step(told, g, E) /\ Has(g, j) /\ ~HasCommitment(g, j) /\ g.jobs[j].state = told.jobs[j].state
        BY <4>1, GiveUpStep, Zenon DEF GiveUp
      <4>3. u = g
        BY <3>2, Zenon
      <4> HIDE DEF g, u
      <4> QED
        BY <4>2, <4>3, StepTrans, Zenon
    <3> QED
      BY <3>1, <3>2, Zenon
  <2> HIDE DEF u
  <2>3. Good(u, E)
    BY Zenon DEF Step
  <2>4. terminate => Handled(u, Terminate(u, j), E)
    <3> DEFINE t == Terminate(u, j)
    <3>1. /\ Good(t, E) /\ t.rank = u.rank /\ t.epoch = u.epoch /\ ~Has(t, j)
          /\ \A i \in Jobs : i # j => KeepsRoot(u, t, i)
      BY <2>3, TerminateStep, Zenon
    <3> HIDE DEF t
    <3>2. terminate => j \in MayEnd(E)
      BY Zenon
    <3>3. ASSUME terminate, NEW i \in Jobs
          PROVE  KeepsRoot(u, t, i) \/ (i \in MayEnd(E) /\ ~Has(t, i))
      BY <3>1, <3>2, <3>3, Zenon
    <3>4. terminate => Handled(u, t, E)
      BY <3>1, <3>3, Zenon DEF Handled
    <3> QED
      BY <3>4, Zenon DEF t
  <2>5. ~terminate /\ node.state = "ACTIVE" => Step(u, Suspend(u, j), E)
    <3>1. ~terminate /\ node.state = "ACTIVE" => Runs(u, j) /\ j \in Incremental
      BY Zenon DEF Runs
    <3> QED
      BY <2>3, <3>1, SuspendStep, Zenon
  <2> HIDE DEF e
  <2>6. Handled(d, e, E)
    BY <1>1, <1>2, <2>4, <2>5, StepHandled, Zenon
  <2> QED
    BY <2>6, Zenon DEF e
<1> QED
  BY <1>3, <1>4, Zenon

\* Worker::handleJobAborting, by which a timeout ends a job, too
LEMMA AbortingStep ==
    ASSUME NEW d, NEW E, Good(d, E), NEW j \in Jobs
    PROVE  Handled(d, HandleJobAborting(d, j), E)
<1> DEFINE m == [tag |-> "CLIENT_ABORTING", job |-> j]
           told == IF d.jobs[j].index = 0 THEN Send(d, d.jobs[j].parent, m) ELSE d
<1>1. Step(d, d, E)
  BY MinorSelf, MinorStep, Zenon DEF Good
<1>2. m \in Messages(E)
  BY Zenon DEF Messages
<1> HIDE DEF m
<1>3. Step(d, told, E)
  BY <1>1, <1>2, SendSteps, MinorStep, Zenon DEF Good
<1> HIDE DEF told
<1>4. Handled(told, InterruptJob(told, j, j \notin Incremental, j \notin Incremental), E)
  BY <1>3, InterruptStep, Zenon DEF Step, MayEnd
<1>5. HandleJobAborting(d, j) \in {d, InterruptJob(told, j, j \notin Incremental, j \notin Incremental)}
  BY Zenon DEF HandleJobAborting, told, m
<1> QED
  BY <1>1, <1>3, <1>4, <1>5, StepHandled, Zenon

\* Worker::handleNotifyResultFound
LEMMA ResultFoundStep ==
    ASSUME NEW d, NEW E, Good(d, E), NEW src \in Ranks, NEW m, m.job \in Jobs, m.rev \in Nat
    PROVE  Handled(d, HandleResultFound(d, src, m), E)
<1> DEFINE j == m.job
           a == [d EXCEPT !.jobs[j].solved = m.rev]
           report == [tag |-> "JOB_DONE", job |-> j, rev |-> m.rev, rank |-> src]
           done == Send(a, Client, report)
           late == [tag |-> "RESULT_OBSOLETE", job |-> j, rev |-> m.rev]
<1>1. \/ HandleResultFound(d, src, m) = Send(d, src, late)
      \/ Has(d, j) /\ HandleResultFound(d, src, m) = InterruptJob(done, j, j \notin Incremental, FALSE)
  BY Zenon DEF HandleResultFound
<1>2. report \in Messages(E) /\ late \in Messages(E)
  BY Zenon DEF Messages
<1> HIDE DEF report, late
<1>3. Step(d, Send(d, src, late), E)
  BY <1>2, SendSteps, MinorStep, Zenon DEF Good
<1>4. Has(d, j) => Step(d, done, E)
  <2>1. Has(d, j) => Minor(d, a, E)
    BY JobSteps DEF Good
  <2> HIDE DEF a
  <2>2. Has(d, j) => Minor(a, done, E)
    BY <1>2, <2>1, SendSteps, Zenon DEF Minor
  <2> QED
    BY <2>1, <2>2, MinorTrans, MinorStep, Zenon
<1> HIDE DEF done
<1>5. Has(d, j) => Handled(done, InterruptJob(done, j, j \notin Incremental, FALSE), E)
  BY <1>4, InterruptStep, Zenon DEF Step, MayEnd
<1> QED
  BY <1>1, <1>3, <1>4, <1>5, StepHandled, Zenon

\* Worker::handleQueryForJobResult and handleNotifyResultObsolete
LEMMA ResultSteps ==
    ASSUME NEW d, NEW E, Types(d, E), NEW src, NEW m, m.job \in Jobs, m.rev \in Nat
    PROVE  /\ Minor(d, HandleQueryResult(d, src, m), E)
           /\ Minor(d, [d EXCEPT !.results = @ \ {<<m.job, m.rev>>}], E)
<1>1. ASSUME NEW x, Types(x, E)
      PROVE  Minor(x, [x EXCEPT !.results = @ \ {<<m.job, m.rev>>}], E)
  <2> DEFINE r == x.results \ {<<m.job, m.rev>>}
  <2>1. r \in SUBSET (Jobs \X Nat)
    BY <1>1, Zenon DEF Types, IsDatabase
  <2> HIDE DEF r
  <2>2. Minor(x, [x EXCEPT !.results = r], E)
    BY <1>1, <2>1, FieldSteps, Zenon
  <2> QED
    BY <2>2, Zenon DEF r
<1> DEFINE a == Check(d, "handleQueryJobResult", <<m.job, m.rev>> \in d.results)
           b == [a EXCEPT !.results = @ \ {<<m.job, m.rev>>}]
           answer == [tag |-> "JOB_RESULT", job |-> m.job, rev |-> m.rev]
<1>2. Minor(d, a, E)
  BY SendSteps, Zenon DEF Watched
<1> HIDE DEF a
<1>3. Minor(d, b, E)
  BY <1>1, <1>2, MinorTrans, Zenon DEF Minor
<1> HIDE DEF b
<1>4. answer \in Messages(E)
  BY Zenon DEF Messages
<1> HIDE DEF answer
<1>5. Minor(d, Send(b, src, answer), E)
  BY <1>3, <1>4, SendSteps, MinorTrans DEF Minor
<1> QED
  BY <1>1, <1>5, Zenon DEF HandleQueryResult, a, b, answer

-----------------------------------------------------------------------------
(***************************************************************************)
(* What a worker does by itself.                                           *)
(***************************************************************************)
\* Worker::checkJobs retries the reactivation of a root.
LEMMA RetryStep ==
    ASSUME NEW d, NEW E, Good(d, E)
    PROVE  Step(d, RetryPendingRoot(d), E)
<1> DEFINE a == [d EXCEPT !.pendingRoot = None]
<1>1. d.pendingRoot \in Requests \cup {None}
  BY Zenon DEF Good, Types, IsDatabase
<1>2. Step(d, a, E)
  BY FieldSteps, MinorStep, Zenon DEF Good
<1> HIDE DEF a
<1>3. d.pendingRoot # None => Step(a, HandleRequestNode(a, d.pendingRoot), E)
  BY <1>1, <1>2, RequestStep, Zenon DEF Step
<1>4. d.pendingRoot # None => Step(d, HandleRequestNode(a, d.pendingRoot), E)
  BY <1>2, <1>3, StepTrans, Zenon
<1>5. Step(d, d, E)
  BY MinorSelf, MinorStep, Zenon DEF Good
<1> QED
  BY <1>4, <1>5, Zenon DEF RetryPendingRoot, a

\* A finite set as a sequence
LEMMA SeqOfSet ==
    ASSUME NEW T, NEW S \in SUBSET T, IsFiniteSet(S)
    PROVE  AnyOrder(S) \in Seq(T)
<1>1. Cardinality(S) \in Nat /\ ExistsBijection(1..Cardinality(S), S)
  BY FS_CardinalityType, Zenon
<1>2. \E f \in Injection(1..Cardinality(S), S) : TRUE
  BY <1>1, Zenon DEF ExistsBijection, Bijection
<1>3. AnyOrder(S) \in [1..Cardinality(S) -> S]
  BY <1>2, Zenon DEF AnyOrder, Injection
<1>4. AnyOrder(S) \in [1..Cardinality(S) -> T]
  BY <1>3, Zenon
<1> QED
  BY <1>1, <1>4

\* Worker::checkActiveJob sends descriptions to the children that have waited for them.
LEMMA ServeStep ==
    ASSUME NEW d, NEW E, Types(d, E), NEW j \in Jobs, Has(d, j)
    PROVE  Minor(d, ServeWaiting(d, j), E)
<1> DEFINE node == d.jobs[j]
           Wanted(r) == AnyOrder({rev \in 0..node.rev : <<r, rev>> \in node.waiting})
           Sent(r) == [k \in 1..Len(Wanted(r)) |->
                          [tag |-> "DESCRIPTION", job |-> j, rev |-> Wanted(r)[k], tracked |-> TRUE]]
           waiting == {p \in node.waiting : p[2] > node.rev}
           b == [r \in Ranks |-> IF r \notin {node.left, node.right} THEN d.bulk[r] ELSE d.bulk[r] \o Sent(r)]
           a == [d EXCEPT !.jobs[j].waiting = waiting]
<1>1. node \in JobNodes
  BY JobSteps, Zenon
<1>2. node.rev \in Int /\ node.waiting \in SUBSET (Ranks \X Nat)
  BY <1>1 DEF JobNodes
<1>3. ASSUME NEW r PROVE Wanted(r) \in Seq(Nat)
  <2> DEFINE S == {rev \in 0..node.rev : <<r, rev>> \in node.waiting}
  <2>1. S \in SUBSET (0..node.rev) /\ S \subseteq Nat
    BY <1>2, Zenon
  <2>2. IsFiniteSet(0..node.rev)
    <3>1. \A n \in Int : IsFiniteSet(0..n)
      BY FS_Interval
    <3> QED
      BY <1>2, <3>1, Zenon
  <2> HIDE DEF S
  <2>3. IsFiniteSet(S)
    BY <2>1, <2>2, FS_Subset, Zenon
  <2>4. AnyOrder(S) \in Seq(Nat)
    BY <2>1, <2>3, SeqOfSet, Zenon
  <2> QED
    BY <2>4, Zenon DEF S
<1>4. ASSUME NEW r PROVE Sent(r) \in Seq(Descriptions)
  <2> DEFINE s == Wanted(r)
  <2>1. s \in Seq(Nat)
    BY <1>3, Zenon
  <2> HIDE DEF s
  <2>2. [k \in 1..Len(s) |-> [tag |-> "DESCRIPTION", job |-> j, rev |-> s[k], tracked |-> TRUE]] \in Seq(Descriptions)
    BY <2>1 DEF Descriptions
  <2> QED
    BY <2>2, Zenon DEF s
<1>5. ServeWaiting(d, j) = [a EXCEPT !.bulk = b]
  BY Zenon DEF ServeWaiting, Types, IsDatabase
<1> HIDE DEF Wanted, Sent
<1>6. b \in [Ranks -> Seq(Descriptions)]
  <2>1. d.bulk \in [Ranks -> Seq(Descriptions)]
    BY Zenon DEF Types, IsDatabase
  <2> QED
    BY <1>4, <2>1
<1>7. waiting \in SUBSET (Ranks \X Nat)
  BY <1>2, Zenon
<1> HIDE DEF b, waiting
<1>8. Minor(d, a, E)
  BY <1>7, JobSteps, Zenon
<1> HIDE DEF a
<1>9. Minor(a, [a EXCEPT !.bulk = b], E)
  BY <1>6, <1>8, FieldSteps, Zenon DEF Minor
<1> QED
  BY <1>5, <1>8, <1>9, MinorTrans, Zenon

\* Worker::checkActiveJob: the solvers have found a result for the revision that is here.
LEMMA SolvedStep ==
    ASSUME NEW d, NEW E, Types(d, E), NEW j \in Jobs, Has(d, j), d.jobs[j].found < d.jobs[j].rev
    PROVE  Minor(d, Solved(d, j), E)
<1> DEFINE rev == d.jobs[j].rev
           m == [tag |-> "RESULT_FOUND", job |-> j, rev |-> rev]
           results == d.results \cup {<<j, rev>>}
           a == [d EXCEPT !.jobs[j].found = rev]
           b == [a EXCEPT !.results = results]
<1>1. d.jobs[j] \in JobNodes
  BY JobSteps, Zenon
<1>2. rev \in Nat
  BY <1>1 DEF JobNodes
<1>3. Solved(d, j) = Send(b, d.jobs[j].root, m)
  BY Zenon DEF Solved, Types, IsDatabase
<1> HIDE DEF rev
<1>4. m \in Messages(E) /\ results \in SUBSET (Jobs \X Nat)
  BY <1>2 DEF Messages, Types, IsDatabase
<1> HIDE DEF m, results
<1>5. Minor(d, a, E)
  BY <1>2, JobSteps, Zenon
<1> HIDE DEF a
<1>6. Minor(a, b, E)
  BY <1>4, <1>5, FieldSteps, Zenon DEF Minor
<1> HIDE DEF b
<1>7. Minor(d, b, E) /\ Minor(b, Send(b, d.jobs[j].root, m), E)
  BY <1>4, <1>5, <1>6, MinorTrans, SendSteps, Zenon DEF Minor
<1> QED
  BY <1>3, <1>7, MinorTrans, Zenon

\* Worker::checkActiveJob
LEMMA CheckActiveStep ==
    ASSUME NEW d, NEW E, Good(d, E), NEW outcome,
           outcome = "solved" /\ d.load # None => d.jobs[d.load].found < d.jobs[d.load].rev
    PROVE  Handled(d, CheckActiveJob(d, outcome), E)
<1> DEFINE j == d.load
           a == Solved(d, j)
<1>1. Step(d, d, E) /\ Types(d, E)
  BY MinorSelf, MinorStep, Zenon DEF Good
<1>2. CASE j = None
  <2>1. CheckActiveJob(d, outcome) = d
    BY <1>2, Zenon DEF CheckActiveJob
  <2> QED
    BY <1>1, <2>1, StepHandled, Zenon
<1>3. CASE j # None
  <2> j \in Jobs /\ Has(d, j)
    BY <1>3, Zenon DEF Good, Types, IsDatabase, Coherent, OneJob, Runs
  <2>1. \/ CheckActiveJob(d, outcome) = HandleJobAborting(d, j)
        \/ outcome = "solved" /\ CheckActiveJob(d, outcome) = ServeWaiting(a, j)
        \/ CheckActiveJob(d, outcome) = ServeWaiting(d, j)
    BY <1>3, Zenon DEF CheckActiveJob
  <2> HIDE DEF j
  <2>2. Handled(d, HandleJobAborting(d, j), E)
    BY AbortingStep, Zenon
  <2>3. Step(d, ServeWaiting(d, j), E)
    BY <1>1, ServeStep, MinorStep, Zenon
  <2>4. outcome = "solved" => Minor(d, a, E)
    BY <1>1, <1>3, SolvedStep, Zenon DEF j
  <2> HIDE DEF a
  <2>5. outcome = "solved" => Minor(a, ServeWaiting(a, j), E)
    BY <2>4, MinorNode, ServeStep, Zenon
  <2>6. outcome = "solved" => Step(d, ServeWaiting(a, j), E)
    BY <2>4, <2>5, MinorTrans, MinorStep, Zenon
  <2> QED
    BY <2>1, <2>2, <2>3, <2>6, StepHandled, Zenon
<1> QED
  BY <1>2, <1>3, Zenon

\* The first request of a past epoch is taken out.
LEMMA TakeFutureStep ==
    ASSUME NEW d, NEW E, Types(d, E), NEW k \in DOMAIN d.future
    PROVE  Minor(d, TakeFutureRequest(d, k), E) /\ Head(d.future[k]) \in Requests
<1> DEFINE f == d.future
           rest == IF Len(f[k]) = 1 THEN Restrict(f, DOMAIN f \ {k}) ELSE [f EXCEPT ![k] = Tail(@)]
           b == Present(rest, d.epoch) # {}
<1>1. DOMAIN f \subseteq Int /\ \A e \in DOMAIN f : f[e] \in Seq(Requests) \ {<<>>}
  BY Zenon DEF Types, IsDatabase
<1>2. TakeFutureRequest(d, k) = [d EXCEPT !.future = rest, !.arriving = b]
  BY Zenon DEF TakeFutureRequest
<1> HIDE DEF f
<1>3. f[k] \in Seq(Requests) \ {<<>>}
  BY <1>1, Zenon DEF f
<1>4. ASSUME NEW s \in Seq(Requests) \ {<<>>}
      PROVE  Head(s) \in Requests /\ Tail(s) \in Seq(Requests) /\ (Len(s) # 1 => Tail(s) # <<>>)
  <2>1. Len(s) \in Nat \ {0} /\ Len(Tail(s)) = Len(s) - 1
    OBVIOUS
  <2>2. Head(s) \in Requests
    BY <2>1
  <2>3. Tail(s) \in Seq(Requests)
    BY <2>1
  <2>4. ASSUME Len(s) # 1 PROVE Tail(s) # <<>>
    <3>1. Len(Tail(s)) # 0
      BY <2>1, <2>4
    <3>2. Len(<<>>) = 0
      BY Zenon
    <3> QED
      BY <3>1, <3>2, Zenon
  <2> QED
    BY <2>2, <2>3, <2>4, Zenon
<1>5. DOMAIN rest \subseteq Int /\ \A e \in DOMAIN rest : rest[e] \in Seq(Requests) \ {<<>>}
  <2>1. CASE Len(f[k]) = 1
    <3>1. DOMAIN rest = DOMAIN f \ {k} /\ \A e \in DOMAIN rest : rest[e] = f[e]
      BY <2>1, Zenon DEF Restrict
    <3> HIDE DEF rest
    <3> QED
      BY <1>1, <3>1, Zenon
  <2>2. CASE Len(f[k]) # 1
    <3>1. DOMAIN rest = DOMAIN f /\ \A e \in DOMAIN rest : rest[e] \in {f[e], Tail(f[k])} /\ (e = k => rest[e] = Tail(f[k]))
                                                           /\ (e # k => rest[e] = f[e])
      BY <2>2, Zenon
    <3>2. Tail(f[k]) \in Seq(Requests) \ {<<>>}
      BY <1>3, <1>4, <2>2, Zenon
    <3> HIDE DEF rest
    <3> QED
      BY <1>1, <3>1, <3>2, Zenon
  <2> QED
    BY <2>1, <2>2, Zenon
<1> HIDE DEF rest
<1>6. Minor(d, [d EXCEPT !.future = rest, !.arriving = b], E)
  BY <1>5, FutureSteps, Zenon
<1> QED
  BY <1>2, <1>3, <1>4, <1>6, Zenon DEF f
=============================================================================
