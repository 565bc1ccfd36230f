------------------------------ MODULE Handlers -------------------------------
(***************************************************************************)
(* What a worker does with a message, a balancing result or a round of     *)
(* checkJobs (worker.cpp), as operators on its database d: each takes the  *)
(* database as it is when the handler begins to what it is when the        *)
(* handler ends.  What the handler sends is collected in d, too.  Module   *)
(* Worker makes them the steps of concurrent workers.                      *)
(***************************************************************************)
EXTENDS JobDatabase, Functions

(***************************************************************************)
(* Growing and shrinking.                                                  *)
(***************************************************************************)

\* spawnJobRequest and sendJobRequest: the first hop goes to the rank of the index
SpawnJobRequest(d, j, index, epoch) ==
    Send(d, NodeRank(j, index),
         [tag |-> "REQUEST_NODE",
          req |-> [job |-> j, root |-> d.jobs[j].root, from |-> d.rank, index |-> index,
                   rev |-> d.jobs[j].desired, epoch |-> epoch, hopped |-> FALSE, targeted |-> FALSE]])

\* A worker gives up its commitment to job j
GiveUp(d, j) == SuspendScheduler(OnTerminate(Uncommit(d, j), j), j)

\* A node stops being part of its job tree
Depart(d, j) == IF d.jobs[j].state = "ACTIVE" THEN Suspend(d, j) ELSE GiveUp(d, j)

\* Mutant: the parent is not told
Leave_Silently(d, j) == Depart(d, j)

\* A node leaves its job tree, and tells its parent
Leave(d, j) ==
    LET node == d.jobs[j]
    IN Send(Depart(d, j), node.parent, [tag |-> "NODE_LEAVING", job |-> j, index |-> node.index,
                                        root |-> node.root])

\* Mutant: requests are sent in one epoch only
WantsChild_Once(node, child, index, volume, epoch) ==
    child = None /\ index < volume /\ node.requestEpoch = -1

\* propagateVolumeUpdate for the child of the given index, if the job is to grow there
WantsChild(node, child, index, volume, epoch) ==
    child = None /\ index < volume /\ node.requestEpoch < epoch

\* The children a shrinking job loses; with -rs=1 their departure is not announced
Prune(node, volume) ==
    LET leavesLeft == node.left # None /\ LeftIndex(node) >= volume
        leavesRight == node.right # None /\ RightIndex(node) >= volume
    IN [node EXCEPT !.left = IF leavesLeft THEN None ELSE @,
                    !.right = IF leavesRight THEN None ELSE @,
                    !.past = @ \cup (IF leavesLeft THEN {node.left} ELSE {})
                              \cup (IF leavesRight THEN {node.right} ELSE {})]

PropagateVolumeUpdate(d, j, volume, epoch) ==
    LET node == d.jobs[j]
        growsLeft == WantsChild(node, node.left, LeftIndex(node), volume, epoch)
        growsRight == WantsChild(node, node.right, RightIndex(node), volume, epoch)
        left == IF growsLeft THEN SpawnJobRequest(d, j, LeftIndex(node), epoch) ELSE d
        both == IF growsRight THEN SpawnJobRequest(left, j, RightIndex(node), epoch) ELSE left
    IN  IF (growsLeft \/ growsRight) /\ HasDormantRoot(d) THEN Leave(d, j)
        ELSE IF ReactivationScheduling THEN [d EXCEPT !.jobs[j] = Prune(@, volume)]
        ELSE both

\* activateRootRequest
ActivateRootRequest(d, j) ==
    LET reqs == {r \in d.rootRequests : r.job = j}
    IN IF reqs = {} THEN d
       ELSE LET req == CHOOSE r \in reqs : TRUE
            IN Hop([d EXCEPT !.rootRequests = @ \ {req}], [req EXCEPT !.hopped = TRUE])

\* updateVolume: a node whose position the volume does not cover gives it up
LeaveAbove(d, j, volume) ==
    IF d.jobs[j].index = 0 \/ d.jobs[j].index < volume THEN d
    ELSE IF ReactivationScheduling THEN Depart(d, j)
    ELSE Leave(d, j)

\* updateVolume, for a node that is active or committed.  Its scheduler goes first.
UpdateMember(d, j, volume, epoch) ==
    LET node == d.jobs[j]
        scheduled == SetScheduler(d, j, node.index,
                         UpdateBalancing(GetScheduler(d, j, node.index), epoch, volume,
                                         node.left # None, node.right # None))
    IN LeaveAbove([PropagateVolumeUpdate(scheduled, j, volume, epoch) EXCEPT !.jobs[j].requestEpoch = epoch],
                  j, volume)

\* Mutant: it waits for the first position above the volume, too
UpdateSuspended_OneMore(d, j, index, previous, volume, epoch) ==
    IF index <= volume /\ (index >= previous \/ IsWaiting(d.jobs[j])) THEN SetWaiting(d, j, epoch) ELSE d

\* updateVolume, for a suspended node: it waits to be asked back or released if its
\* position is wanted again
UpdateSuspended(d, j, index, previous, volume, epoch) ==
    IF index < volume /\ (index >= previous \/ IsWaiting(d.jobs[j])) THEN SetWaiting(d, j, epoch) ELSE d

UpdateVolume(d, j, volume, epoch) ==
    LET node == d.jobs[j]
        informed == [d EXCEPT !.jobs[j].volume = volume]
        updated == IF ReactivationScheduling THEN StopWaiting(informed, j, epoch - 1) ELSE informed
    IN  IF ~Has(d, j) THEN ActivateRootRequest(d, j)
        ELSE IF node.state = "ACTIVE" \/ node.commitment # None THEN UpdateMember(updated, j, volume, epoch)
        ELSE IF node.state = "SUSPENDED" /\ ReactivationScheduling
             THEN UpdateSuspended(updated, j, node.index, node.volume, volume, epoch)
        ELSE updated

InitiateVolumeUpdate(d, j) ==
    IF d.epoch < d.jobs[j].commitEpoch \/ d.volumes[j] = 0 THEN d
    ELSE UpdateVolume(d, j, d.volumes[j], d.epoch)
-----------------------------------------------------------------------------
(***************************************************************************)
(* Requests, offers and answers.                                           *)
(***************************************************************************)

\* bounceJobRequest
Bounce(d, req) == Hop(d, [req EXCEPT !.hopped = TRUE])

\* tryAdoptRequest, once adoption is decided
Adopt(d, req) ==
    LET known1 == IF Has(d, req.job) THEN d ELSE CreateJob(d, req.job)
        idle == Check(known1, "tryAdoptRequest", ~IsBusyOrCommitted(d))
        committed == Commit(idle, req)
    IN Send(IF ReactivationScheduling THEN InitScheduler(committed, req) ELSE committed, req.from,
            [tag |-> IF req.index = 0 THEN "OFFER_OF_ROOT" ELSE "OFFER_ADOPTION", req |-> req])

TryAdoptRequest(d, req) ==
    LET verdict == IF ~req.targeted /\ IsAnyWaiting(d) /\ req.index > 0 THEN "REJECT" ELSE TryAdopt(d, req)
    IN  CASE verdict = "ADOPT_FROM_IDLE" -> Adopt(d, req)
          [] verdict = "ADOPT_REPLACE_CURRENT" -> Adopt(Leave(d, d.load), req)
          [] verdict = "REJECT" ->
               IF req.index = 0 /\ Has(d, req.job) /\ d.jobs[req.job].index = 0
               THEN [Check(d, "setPendingRootReactivationRequest", d.pendingRoot = None \/ d.pendingRoot.job = req.job)
                         EXCEPT !.pendingRoot = req]
               ELSE IF req.targeted
               THEN Send(d, req.from, [tag |-> "REJECT_ONESHOT", req |-> req,
                                       dormant |-> IsDormant(d.jobs[req.job])])
               ELSE Bounce(d, req)

AddFutureRequest(d, req) ==
    LET others == IF req.epoch \in DOMAIN d.future THEN d.future[req.epoch] ELSE <<>>
    IN [d EXCEPT !.future = With(@, req.epoch, Append(others, req))]

HandleRequestNode(d, req) ==
    IF IsRequestObsolete(d, req) THEN d
    ELSE IF req.index = 0 /\ ~req.hopped /\ req.rev = 0
         THEN Push([d EXCEPT !.rootRequests = @ \cup {req}, !.local = @ \cup {req.job}], req.job, 1)
    ELSE IF req.epoch > d.epoch THEN AddFutureRequest(d, req)
    ELSE IF req.targeted /\ Has(d, req.job) THEN TryAdoptRequest(StopWaiting(d, req.job, req.epoch), req)
    ELSE TryAdoptRequest(d, req)

\* The scheduler of node j is told that nobody has taken the position of a request
RejectReactivation(d, j, epoch, index, lost) ==
    LET node == d.jobs[j]
        child == IF index = LeftIndex(node) THEN node.left ELSE node.right
    IN SetScheduler(d, j, node.index,
           HandleRejectReactivation(GetScheduler(d, j, node.index), epoch, index, lost, child # None))

HandleOfferAdoption(d, src, req) ==
    LET j == req.job
        obsolete == \/ IsAdoptionOfferObsolete(d, req)
                    \/ /\ HasOwnScheduler(d, j)
                       /\ ~AcceptsChild(GetScheduler(d, j, d.jobs[j].index), req.index)
        reject == ~Has(d, j) \/ obsolete
        adopted == IF req.index = LeftIndex(d.jobs[j])
                   THEN [d EXCEPT !.jobs[j].left = src]
                   ELSE [d EXCEPT !.jobs[j].right = src]
        answered == Send(IF reject THEN d ELSE adopted, src,
                         [tag |-> "ANSWER_OFFER", job |-> j, index |-> req.index, accepted |-> ~reject])
    IN  IF ~Has(d, j) THEN answered
        ELSE IF reject THEN RejectReactivation(answered, j, req.epoch, req.index, FALSE)
        ELSE SetScheduler(answered, j, d.jobs[j].index,
                 HandleChildJoining(GetScheduler(d, j, d.jobs[j].index), src, req.epoch, req.index))

\* handleRejectOneshot.  Without dormant-child lists a node that has no scheduler lets the
\* request hop.
HandleRejectOneshot(d, m) ==
    LET j == m.req.job
    IN  IF ~Has(d, j) THEN d
        ELSE IF HasOwnScheduler(d, j)
             THEN RejectReactivation(d, j, m.req.epoch, m.req.index, ~m.dormant)
        ELSE IF IsAdoptionOfferObsolete(d, m.req) THEN d
        ELSE Bounce(d, [m.req EXCEPT !.targeted = FALSE])

\* The callback for MSG_SCHED_INITIALIZE_CHILD_WITH_NODES and MSG_SCHED_RETURN_NODES: nodes
\* handed to somebody who has no scheduler go back
HandleLocalScheduler(d, src, m) ==
    IF HasScheduler(d, m.job, m.index)
    THEN PutScheduler(d, HandleSchedulingMessage(GetScheduler(d, m.job, m.index), src, m))
    ELSE IF m.tag = "INITIALIZE_CHILD"
    THEN Send(d, src, [tag |-> "RETURN_NODES", job |-> m.job, index |-> ParentIndex(m.index),
                       nodes |-> m.nodes])
    ELSE d

HandleSchedReleaseFromWaiting(d, src, m) ==
    IF Has(d, m.job) /\ (d.jobs[m.job].state # "INACTIVE" \/ d.jobs[m.job].commitment # None)
    THEN StopWaiting(d, m.job, m.epoch)
    ELSE Send(d, src, [tag |-> "NODE_FREED", job |-> m.job, rank |-> d.rank, index |-> m.index,
                       epoch |-> m.epoch])

HandleSchedNodeFreed(d, m) ==
    SetScheduler(d, m.job, m.index,
        HandleNodeFreed(GetScheduler(d, m.job, m.index), m.rank, m.epoch, m.index))

\* Query the next revision from src if node j lacks one
QueryDescription(d, src, j) ==
    IF d.jobs[j].rev < d.jobs[j].desired
    THEN Send(d, src, [tag |-> "QUERY_DESCRIPTION", job |-> j, rev |-> d.jobs[j].rev + 1])
    ELSE d

\* handleAnswerAdoptionOffer: the offer is accepted, and the volume update it begins with
\* may have ended the commitment
StartCommitted(d, src, j, req) ==
    LET queried == QueryDescription([d EXCEPT !.jobs[j].desired = req.rev], src, j)
    IN  IF ~HasCommitment(d, j) THEN d
        ELSE IF d.jobs[j].rev < 0 THEN queried
        ELSE IF d.jobs[j].state = "SUSPENDED" THEN Reactivate(Uncommit(queried, j), req)
        ELSE Execute(Uncommit(queried, j), j)

\* Mutant: a rejection is ignored
HandleAnswerAdoptionOffer_NoRejection(d, src, m) ==
    LET j == m.job
        req == d.jobs[j].commitment
        queried == QueryDescription([d EXCEPT !.jobs[j].desired = req.rev], src, j)
    IN  IF ~HasCommitment(d, j) \/ ~m.accepted THEN d
        ELSE IF d.jobs[j].rev < 0 THEN queried
        ELSE IF d.jobs[j].state = "SUSPENDED" THEN Reactivate(Uncommit(queried, j), req)
        ELSE Execute(Uncommit(queried, j), j)

HandleAnswerAdoptionOffer(d, src, m) ==
    LET j == m.job
        req == IF Has(d, j) THEN d.jobs[j].commitment ELSE None
    IN  IF ~HasCommitment(d, j) THEN d
        ELSE IF req.index # m.index \/ req.from # src THEN d
        ELSE IF ~m.accepted THEN GiveUp(d, j)
        ELSE StartCommitted(InitiateVolumeUpdate(d, j), src, j, req)

\* sendRevisionDescription: the transfer to a child is cancelled once the child is unset
SendRevisionDescription(d, dest, j, rev) ==
    [d EXCEPT !.bulk[dest] = Append(@, [tag |-> "DESCRIPTION", job |-> j, rev |-> rev,
                                       tracked |-> dest \in {d.jobs[j].left, d.jobs[j].right}])]

HandleQueryJobDescription(d, src, m) ==
    IF ~Has(d, m.job) THEN d
    ELSE IF d.jobs[m.job].rev >= m.rev
         THEN SendRevisionDescription(d, src, m.job, m.rev)
         ELSE [d EXCEPT !.jobs[m.job].waiting = @ \cup {<<src, m.rev>>}]

\* handleSendJobDescription: an active job asks for the next revision it still lacks
QueryIfActive(d, src, j) == IF d.jobs[j].state = "ACTIVE" THEN QueryDescription(d, src, j) ELSE d

\* Mutant: the commitment outlives the start of the job
HandleSendJobDescription_StaysCommitted(d, src, m) ==
    LET j == m.job
        pushed == [d EXCEPT !.jobs[j].rev = m.rev]
    IN  IF ~Has(d, j) \/ m.rev # d.jobs[j].rev + 1 THEN d
        ELSE IF ~HasCommitment(d, j) THEN pushed
        ELSE InitiateVolumeUpdate(Execute(pushed, j), j)

HandleSendJobDescription(d, src, m) ==
    LET j == m.job
        pushed == [d EXCEPT !.jobs[j].rev = m.rev]
        desired == [pushed EXCEPT !.jobs[j].desired = d.jobs[j].commitment.rev]
    IN  IF ~Has(d, j) THEN d
        ELSE IF m.rev # d.jobs[j].rev + 1 THEN d
        ELSE QueryIfActive(IF HasCommitment(d, j)
                           THEN InitiateVolumeUpdate(Execute(Uncommit(desired, j), j), j)
                           ELSE pushed, src, j)

UnsetLeftChild(node) == [node EXCEPT !.left = None, !.past = @ \cup {node.left}]
UnsetRightChild(node) == [node EXCEPT !.right = None, !.past = @ \cup {node.right}]

HandleNodeLeaving(d, src, m) ==
    LET j == m.job
        node == d.jobs[j]
        left == node.left = src /\ LeftIndex(node) = m.index
        right == node.right = src /\ RightIndex(node) = m.index
        pruned == [d EXCEPT !.jobs[j] = IF left THEN UnsetLeftChild(@) ELSE UnsetRightChild(@)]
    IN  IF ~Has(d, j) THEN Send(d, m.root, m)
        ELSE IF ~left /\ ~right THEN d
        ELSE IF m.index < node.volume THEN SpawnJobRequest(pruned, j, m.index, d.epoch)
        ELSE pruned

-----------------------------------------------------------------------------
(***************************************************************************)
(* Results, interruptions and terminations.                                *)
(***************************************************************************)
SendIf(d, dest, msg) == IF dest = None THEN d ELSE Send(d, dest, msg)

\* interruptJob sends to the children and to all past children
Propagate(d, j, tag) ==
    LET node == d.jobs[j]
        msg == [tag |-> tag, job |-> j]
        children == SendIf(SendIf(d, node.left, msg), node.right, msg)
    IN [children EXCEPT !.out = [r \in Ranks |-> IF r \in node.past THEN Append(@[r], msg) ELSE @[r]]]

InterruptJob(d, j, terminate, reckless) ==
    LET node == d.jobs[j]
        tag == IF terminate THEN IF reckless THEN "ABORTING" ELSE "TERMINATING" ELSE "INTERRUPT"
        told == Propagate(d, j, tag)
        uncommitted == IF node.commitment = None THEN told ELSE GiveUp(told, j)
    IN  IF ~Has(d, j) THEN d
        ELSE IF ~terminate /\ node.commitment = None /\ node.state # "ACTIVE" THEN d
        ELSE IF terminate THEN Terminate(uncommitted, j)
        ELSE IF node.state = "ACTIVE" THEN Suspend(uncommitted, j)
        ELSE uncommitted

\* Mutant: the client is not told
HandleJobAborting_Silently(d, j) ==
    IF ~Has(d, j) THEN d ELSE InterruptJob(d, j, j \notin Incremental, j \notin Incremental)

HandleJobAborting(d, j) ==
    LET told == IF d.jobs[j].index = 0
                THEN Send(d, d.jobs[j].parent, [tag |-> "CLIENT_ABORTING", job |-> j])
                ELSE d
    IN  IF ~Has(d, j) THEN d
        ELSE InterruptJob(told, j, j \notin Incremental, j \notin Incremental)

\* Mutant: a job with a result is interrupted, never terminated
HandleResultFound_Interrupts(d, src, m) ==
    IF ~Has(d, m.job) \/ d.jobs[m.job].index # 0 \/ d.jobs[m.job].solved >= m.rev THEN d
    ELSE InterruptJob(Send([d EXCEPT !.jobs[m.job].solved = m.rev], Client,
                           [tag |-> "JOB_DONE", job |-> m.job, rev |-> m.rev, rank |-> src]),
                      m.job, FALSE, FALSE)

\* Mutant: the finder of an obsolete result is not told
HandleResultFound_Silently(d, src, m) ==
    IF ~Has(d, m.job) \/ d.jobs[m.job].index # 0 \/ d.jobs[m.job].solved >= m.rev THEN d
    ELSE InterruptJob(Send([d EXCEPT !.jobs[m.job].solved = m.rev], Client,
                           [tag |-> "JOB_DONE", job |-> m.job, rev |-> m.rev, rank |-> src]),
                      m.job, m.job \notin Incremental, FALSE)

HandleResultFound(d, src, m) ==
    LET j == m.job
        obsolete == \/ ~Has(d, j)
                    \/ d.jobs[j].index # 0
                    \/ d.jobs[j].rev > m.rev
                    \/ d.jobs[j].solved >= m.rev
        done == Send([d EXCEPT !.jobs[j].solved = m.rev], Client,
                     [tag |-> "JOB_DONE", job |-> j, rev |-> m.rev, rank |-> src])
    IN  IF obsolete THEN Send(d, src, [tag |-> "RESULT_OBSOLETE", job |-> j, rev |-> m.rev])
        ELSE InterruptJob(done, j, j \notin Incremental, FALSE)

HandleQueryResult(d, src, m) ==
    Send([Check(d, "handleQueryJobResult", <<m.job, m.rev>> \in d.results) EXCEPT !.results = @ \ {<<m.job, m.rev>>}],
         src, [tag |-> "JOB_RESULT", job |-> m.job, rev |-> m.rev])
-----------------------------------------------------------------------------
(***************************************************************************)
(* What a worker does by itself.                                           *)
(***************************************************************************)
\* checkJobs: retry the pending reactivation of a root
RetryPendingRoot(d) ==
    IF d.pendingRoot = None THEN d
    ELSE HandleRequestNode([d EXCEPT !.pendingRoot = None], d.pendingRoot)

\* The elements of a set in some order (a robin_hood set is iterated over)
AnyOrder(S) == CHOOSE s \in Injection(1..Cardinality(S), S) : TRUE

\* checkActiveJob: send descriptions to the children that have been waiting for them
ServeWaiting(d, j) ==
    LET node == d.jobs[j]
        Wanted(r) == AnyOrder({rev \in 0..node.rev : <<r, rev>> \in node.waiting})
    IN [d EXCEPT !.jobs[j].waiting = {p \in @ : p[2] > node.rev},
                 !.bulk = [r \in Ranks |->
                     IF r \notin {node.left, node.right} THEN @[r]
                     ELSE @[r] \o [k \in 1..Len(Wanted(r)) |->
                              [tag |-> "DESCRIPTION", job |-> j, rev |-> Wanted(r)[k], tracked |-> TRUE]]]]

\* checkActiveJob: the solvers have found a result
Solved(d, j) ==
    LET rev == d.jobs[j].rev
    IN Send([d EXCEPT !.jobs[j].found = rev, !.results = @ \cup {<<j, rev>>}],
            d.jobs[j].root, [tag |-> "RESULT_FOUND", job |-> j, rev |-> rev])

\* The demand of a root stays what it was when the job started (EventDrivenBalancer has its
\* changes)
CheckActiveJob(d, outcome) ==
    IF d.load = None THEN d
    ELSE IF outcome = "timeout" THEN HandleJobAborting(d, d.load)
    ELSE ServeWaiting(IF outcome = "solved" THEN Solved(d, d.load) ELSE d, d.load)

\* getArrivedFutureRequests: the epochs that are not in the future any more
Present(future, epoch) == {e \in DOMAIN future : e <= epoch}

\* The first request of epoch e leaves the future
TakeFutureRequest(d, e) ==
    LET rest == IF Len(d.future[e]) = 1 THEN Restrict(d.future, DOMAIN d.future \ {e})
                ELSE [d.future EXCEPT ![e] = Tail(@)]
    IN [d EXCEPT !.future = rest, !.arriving = Present(rest, d.epoch) # {}]
=============================================================================
