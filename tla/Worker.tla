------------------------------- MODULE Worker -------------------------------
(***************************************************************************)
(* The workers (worker.cpp) and how their job trees grow and shrink.  A    *)
(* tree is built by requests that hop from worker to worker: an idle worker *)
(* commits to a request and offers itself to the requesting node, which    *)
(* answers; the new node fetches the job's description from its parent and *)
(* starts.  Volumes come from the balancer, and every node reacts to them  *)
(* by itself: a parent requests children, a node whose index is no longer  *)
(* below the volume leaves.                                                *)
(*                                                                         *)
(* The balancer is the log of results that module BalancingLog specifies   *)
(* and EventDrivenBalancer implements: all workers step through it, each   *)
(* at its own pace.  The client (client.cpp) introduces the jobs, sends    *)
(* their descriptions to the root nodes and fetches the results.           *)
(*                                                                         *)
(* Messages between two ranks arrive in the order they were sent, except   *)
(* that descriptions, sent in fragments, are overtaken.  A request that is *)
(* bounced goes to a random neighbour: it is in a bag from which any worker *)
(* may receive it.  Deferring a request for a second is the same.          *)
(***************************************************************************)
EXTENDS Handlers

CONSTANTS
    MaxEpoch,       \* last epoch in which other jobs cause a balancing
    Spaced,         \* assume that an epoch begins when the one before has taken effect
    MaxRevision,    \* last revision of an incremental job
    MaxInterrupts,  \* bound on timeouts and user interrupts together
    MaxResults      \* bound on the results found

\* What the client knows of a job: the revision last introduced, the job's entry in
\* _root_nodes, whether it is in _active_jobs, and the revision in _done_jobs.  ok is
\* cleared when the client dereferences a job that is not active.
NewClientJob == [rev |-> -1, root |-> None, active |-> FALSE, done |-> -1, ok |-> TRUE]

ClientJobs == [rev : Nat \cup {-1}, root : Ranks \cup {None}, active : BOOLEAN, done : Nat \cup {-1},
               ok : BOOLEAN]

Revisions(j) == IF j \in Incremental THEN 0..MaxRevision ELSE {0}

VARIABLES
    db,         \* the job database of every worker
    net,        \* messages in transit between two ranks, in order
    bulk,       \* descriptions in transit between two ranks, in order
    hopping,    \* bag of bounced requests
    pending,    \* per job the events on their way to rank 0 of the balancer
    known,      \* per job the demand rank 0 balances with (None: no entry)
    log,        \* the balancing results
    client,     \* per job what the client knows of it
    reports,    \* per job and revision how often a result was reported to the user
    interrupts, \* number of interrupts so far
    found       \* number of results found so far

vars == <<db, net, bulk, hopping, pending, known, log, client, reports, interrupts, found>>
netVars == <<net, bulk, hopping>>
balancerVars == <<pending, known, log>>
clientVars == <<client, reports>>
counters == <<interrupts, found>>

Init ==
    /\ db = [w \in Workers |-> EmptyDatabase(w)]
    /\ net = [s \in Ranks |-> [d \in Ranks |-> <<>>]]
    /\ bulk = [s \in Ranks |-> [d \in Ranks |-> <<>>]]
    /\ hopping = NoHops
    /\ pending = [j \in Jobs |-> <<>>]
    /\ known = [j \in Jobs |-> None]
    /\ log = <<>>
    /\ client = [j \in Jobs |-> NewClientJob]
    /\ reports = [j \in Jobs |-> [r \in Revisions(j) |-> 0]]
    /\ interrupts = 0 /\ found = 0
-----------------------------------------------------------------------------
(***************************************************************************)
(* The steps of a worker.  A handler runs to its end; what it sent is then *)
(* on its way.  While callbacks of a balancing result are due, the worker  *)
(* does nothing else.                                                      *)
(***************************************************************************)
AddTo(channels, out) == [r \in Ranks |-> channels[r] \o out[r]]

\* A database after the step of a handler
HandedOver(d) == [d EXCEPT !.out = NothingSent, !.bulk = NothingSent, !.hops = NoHops,
                           !.events = [j \in Jobs |-> <<>>]]

\* Worker w has reached d; n, b, h are the networks without what it received
Commence(w, reached, n, b, h) == \E d \in {reached} :
    /\ db' = [db EXCEPT ![w] = HandedOver(d)]
    /\ net' = [n EXCEPT ![w] = AddTo(@, d.out)]
    /\ bulk' = [b EXCEPT ![w] = AddTo(@, d.bulk)]
    /\ hopping' = AddHops(h, d.hops)
    /\ pending' = [j \in Jobs |-> pending[j] \o d.events[j]]

Ready(w) == db[w].todo = {} /\ ~db[w].arriving

\* The next message from s to worker w
First(s, w) == Head(net[s][w])

\* Worker w receives the next message from s, whose handler takes it to d
Receive(s, w, tag, d) ==
    /\ Ready(w)
    /\ net[s][w] # <<>> /\ First(s, w).tag = tag
    /\ Commence(w, d, [net EXCEPT ![s][w] = Tail(@)], bulk, hopping)
    /\ UNCHANGED <<known, log, clientVars, counters>>

\* Worker w does something by itself
Internal(w, d) ==
    /\ Ready(w)
    /\ Commence(w, d, net, bulk, hopping)
    /\ UNCHANGED <<known, log, client, reports>>

RequestNode(s, w) ==
    Receive(s, w, "REQUEST_NODE", HandleRequestNode(db[w], First(s, w).req))

\* A bounced request reaches worker w
RequestHops(w) ==
    /\ Ready(w)
    /\ \E req \in DOMAIN hopping :
          Commence(w, HandleRequestNode(db[w], req), net, bulk, TakeHop(hopping, req))
    /\ UNCHANGED <<known, log, clientVars, counters>>

OfferAdoption(s, w) == Receive(s, w, "OFFER_ADOPTION", HandleOfferAdoption(db[w], s, First(s, w).req))
AnswerAdoptionOffer(s, w) ==
    Receive(s, w, "ANSWER_OFFER", HandleAnswerAdoptionOffer(db[w], s, First(s, w)))
QueryJobDescription(s, w) ==
    Receive(s, w, "QUERY_DESCRIPTION", HandleQueryJobDescription(db[w], s, First(s, w)))
NodeLeaving(s, w) == Receive(s, w, "NODE_LEAVING", HandleNodeLeaving(db[w], s, First(s, w)))
ResultFound(s, w) == Receive(s, w, "RESULT_FOUND", HandleResultFound(db[w], s, First(s, w)))
QueryResult(s, w) == Receive(s, w, "QUERY_RESULT", HandleQueryResult(db[w], s, First(s, w)))
ResultObsolete(s, w) ==
    Receive(s, w, "RESULT_OBSOLETE", [db[w] EXCEPT !.results = @ \ {<<First(s, w).job, First(s, w).rev>>}])
JobAborting(s, w) == Receive(s, w, "ABORTING", HandleJobAborting(db[w], First(s, w).job))
Interrupt(s, w) == Receive(s, w, "INTERRUPT", InterruptJob(db[w], First(s, w).job, FALSE, FALSE))
RejectOneshot(s, w) == Receive(s, w, "REJECT_ONESHOT", HandleRejectOneshot(db[w], First(s, w)))
InitializeChild(s, w) ==
    Receive(s, w, "INITIALIZE_CHILD", HandleLocalScheduler(db[w], s, First(s, w)))
NodesReturned(s, w) == Receive(s, w, "RETURN_NODES", HandleLocalScheduler(db[w], s, First(s, w)))
ReleaseFromWaiting(s, w) ==
    Receive(s, w, "RELEASE", HandleSchedReleaseFromWaiting(db[w], s, First(s, w)))
NodeFreed(s, w) == Receive(s, w, "NODE_FREED", HandleSchedNodeFreed(db[w], First(s, w)))
JobTerminating(s, w) ==
    Receive(s, w, "TERMINATING", InterruptJob(db[w], First(s, w).job, TRUE, FALSE))

SendJobDescription(s, w) ==
    /\ Ready(w) /\ bulk[s][w] # <<>>
    /\ Commence(w, HandleSendJobDescription(db[w], s, Head(bulk[s][w])),
                net, [bulk EXCEPT ![s][w] = Tail(@)], hopping)
    /\ UNCHANGED <<known, log, clientVars, counters>>

\* MessageQueue::cancelSend of a description for a node that is no longer a child
DescriptionCancelled(s, w) ==
    /\ s \in Workers /\ bulk[s][w] # <<>>
    /\ LET m == Head(bulk[s][w]) IN
          /\ m.tracked
          /\ Has(db[s], m.job) => w \notin {db[s].jobs[m.job].left, db[s].jobs[m.job].right}
    /\ bulk' = [bulk EXCEPT ![s][w] = Tail(@)]
    /\ UNCHANGED <<db, net, hopping, balancerVars, clientVars, counters>>

\* The solvers of the active job may have found a result, or a root its limits hit
Outcomes(d) ==
    LET j == d.load
    IN {"none"} \cup (IF j # None /\ d.jobs[j].found < d.jobs[j].rev /\ found < MaxResults
                      THEN {"solved"} ELSE {})
               \cup (IF j # None /\ d.jobs[j].index = 0 /\ interrupts < MaxInterrupts
                      THEN {"timeout"} ELSE {})

\* What one round of checkJobs does; most rounds find nothing to do
CheckJobs(w, outcome) ==
    \E d \in {RetryPendingRoot(db[w])} :
       /\ outcome \in Outcomes(d)
       /\ CheckActiveJob(d, outcome) # db[w]
       /\ Internal(w, CheckActiveJob(d, outcome))
       /\ interrupts' = interrupts + (IF outcome = "timeout" THEN 1 ELSE 0)
       /\ found' = found + (IF outcome = "solved" THEN 1 ELSE 0)

\* forgetOldJobs: the schedulers nobody needs, and perhaps one of the jobs
ForgetOldJobs(w) ==
    LET keys == ForgettableSchedulers(db[w])
        d == EraseSchedulers(db[w], keys)
    IN /\ \/ keys # {} /\ Internal(w, d)
          \/ \E j \in Jobs : MayForget(d, j) /\ Internal(w, Forget(d, j))
       /\ UNCHANGED counters
-----------------------------------------------------------------------------
(***************************************************************************)
(* The balancer.                                                           *)
(***************************************************************************)
\* The demand of a job after the first n of its pending events
NextDemand(j, n) ==
    IF n = 0 THEN known[j]
    ELSE IF \E i \in 1..n : pending[j][i] = 0 THEN 0
    ELSE pending[j][n]

\* Volumes for the jobs that have a demand; the other jobs of the system, which are not
\* modelled, get a share, too.
Assignments(demand) ==
    {v \in [Jobs -> {None} \cup 0..Cardinality(Workers)] :
        /\ \A j \in Jobs : IF demand[j] \in {None, 0} THEN v[j] = demand[j] ELSE v[j] \in 1..demand[j]
        /\ FoldFunction(+, 0, [j \in Jobs |-> IF v[j] = None THEN 0 ELSE v[j]]) <= Cardinality(Workers)}

\* Nothing is in transit between the ranks, every worker has digested every result, and no
\* description waits to be sent
Settled ==
    /\ \A s, d \in Ranks : net[s][d] = <<>> /\ bulk[s][d] = <<>>
    /\ hopping = NoHops
    /\ \A w \in Workers :
          /\ Ready(w) /\ db[w].epoch = Len(log)
          /\ db[w].load # None => ServeWaiting(db[w], db[w].load) = db[w]

\* Rank 0 balances with some of the events on their way to it, or because of other jobs
Rebalance ==
    /\ Spaced => Settled
    /\ \E n \in [Jobs -> {0} \cup UNION {DOMAIN pending[j] : j \in Jobs}] :
          /\ \A j \in Jobs : n[j] <= Len(pending[j])
          /\ \/ \E j \in Jobs : n[j] > 0
             \/ Len(log) < MaxEpoch /\ \E j \in Jobs : known[j] # None
          /\ LET demand == [j \in Jobs |-> NextDemand(j, n[j])] IN
                /\ \E v \in Assignments(demand) : log' = Append(log, v)
                /\ known' = [j \in Jobs |-> IF demand[j] = 0 THEN None ELSE demand[j]]
          /\ pending' = [j \in Jobs |-> SubSeq(pending[j], n[j] + 1, Len(pending[j]))]
    /\ UNCHANGED <<db, net, bulk, hopping, clientVars, counters>>

\* digest and computeBalancingResult up to the callbacks, which follow at once
Digest(w) ==
    /\ Ready(w) /\ db[w].epoch < Len(log)
    /\ LET e == db[w].epoch + 1
           entries == {j \in Jobs : log[e][j] # None}
       IN db' = [db EXCEPT ![w] =
                    [@ EXCEPT !.epoch = e,
                              !.volumes = [j \in Jobs |-> IF j \in entries THEN log[e][j] ELSE 0],
                              !.todo = entries \cap db[w].local,
                              !.arriving = entries # {} /\ Present(db[w].future, e) # {}]]
    /\ UNCHANGED <<net, bulk, hopping, balancerVars, clientVars, counters>>

\* The volume callback of a job; jobs whose volume became zero come last
VolumeCallback(w, j) ==
    /\ j \in db[w].todo
    /\ db[w].volumes[j] = 0 => \A i \in db[w].todo : db[w].volumes[i] = 0
    /\ LET d == [db[w] EXCEPT !.todo = @ \ {j}]
       IN Commence(w, IF j \in d.local THEN UpdateVolume(d, j, d.volumes[j], d.epoch) ELSE d,
                   net, bulk, hopping)
    /\ UNCHANGED <<known, log, clientVars, counters>>

\* The balancing-done callback: the next request from what was the future, oldest epochs first
FutureRequest(w) ==
    /\ db[w].todo = {} /\ db[w].arriving
    /\ \E e \in Present(db[w].future, db[w].epoch) :
          /\ \A f \in Present(db[w].future, db[w].epoch) : e <= f
          /\ Commence(w, HandleRequestNode(TakeFutureRequest(db[w], e), Head(db[w].future[e])),
                      net, bulk, hopping)
    /\ UNCHANGED <<known, log, clientVars, counters>>
-----------------------------------------------------------------------------
(***************************************************************************)
(* The client.                                                             *)
(***************************************************************************)
ClientSend(n, dest, msg) == [n EXCEPT ![Client][dest] = Append(@, msg)]

\* Mutant: every revision is sent to the default rank
IntroduceJob_ForgetsRoot(j) ==
    LET c == client[j] IN
    /\ c.rev + 1 \in Revisions(j) /\ c.done = c.rev /\ (c.rev = -1 \/ c.active)
    /\ client' = [client EXCEPT ![j].rev = @ + 1, ![j].active = TRUE]
    /\ net' = ClientSend(net, 0,
                 [tag |-> "REQUEST_NODE",
                  req |-> [job |-> j, root |-> None, from |-> Client, index |-> 0,
                           rev |-> c.rev + 1, epoch |-> -1, hopped |-> FALSE, targeted |-> FALSE]])
    /\ UNCHANGED <<db, bulk, hopping, balancerVars, reports, counters>>

\* introduceNextJob.  The first revision of an incremental job goes to rank 0, the
\* default value of _root_nodes.
IntroduceJob(j) ==
    LET c == client[j]
        root == IF j \notin Incremental THEN NodeRank(j, 0) ELSE IF c.root = None THEN 0 ELSE c.root
    IN /\ c.rev + 1 \in Revisions(j) /\ c.done = c.rev
       /\ c.rev = -1 \/ c.active
       /\ client' = [client EXCEPT ![j] = [c EXCEPT !.rev = @ + 1, !.active = TRUE,
                                                   !.root = IF j \in Incremental THEN root ELSE @]]
       /\ net' = ClientSend(net, root,
                    [tag |-> "REQUEST_NODE",
                     req |-> [job |-> j, root |-> None, from |-> Client, index |-> 0,
                              rev |-> c.rev + 1, epoch |-> -1, hopped |-> FALSE, targeted |-> FALSE]])
       /\ UNCHANGED <<db, bulk, hopping, balancerVars, reports, counters>>

\* finishJob
Finished(j) ==
    LET c == client[j]
    IN [client EXCEPT ![j] = [c EXCEPT !.done = c.rev, !.ok = @ /\ c.active,
                                       !.active = @ /\ j \in Incremental,
                                       !.root = IF j \in Incremental THEN @ ELSE None]]

ClientReceives(s, tag) == net[s][Client] # <<>> /\ Head(net[s][Client]).tag = tag
Received(s) == [net EXCEPT ![s][Client] = Tail(@)]

\* Client::handleOfferAdoption
OfferOfRoot(s) ==
    /\ ClientReceives(s, "OFFER_OF_ROOT")
    /\ LET j == Head(net[s][Client]).req.job IN
          /\ client' = [client EXCEPT ![j] = [client[j] EXCEPT !.root = s, !.ok = @ /\ client[j].active]]
          /\ bulk' = [bulk EXCEPT ![Client][s] =
                         Append(@, [tag |-> "DESCRIPTION", job |-> j, rev |-> client[j].rev,
                                    tracked |-> FALSE])]
    /\ net' = Received(s)
    /\ UNCHANGED <<db, hopping, balancerVars, reports, counters>>

\* Client::handleJobDone
JobDone(s) ==
    /\ ClientReceives(s, "JOB_DONE")
    /\ LET m == Head(net[s][Client]) IN
          /\ client' = [client EXCEPT ![m.job].ok = @ /\ client[m.job].active]
          /\ net' = ClientSend(Received(s), m.rank, [tag |-> "QUERY_RESULT", job |-> m.job, rev |-> m.rev])
    /\ UNCHANGED <<db, bulk, hopping, balancerVars, reports, counters>>

\* Client::handleSendJobResult
SendJobResult(s) ==
    /\ ClientReceives(s, "JOB_RESULT")
    /\ LET m == Head(net[s][Client]) IN
          /\ client' = Finished(m.job)
          /\ reports' = [reports EXCEPT ![m.job][m.rev] = @ + 1]
    /\ net' = Received(s)
    /\ UNCHANGED <<db, bulk, hopping, balancerVars, counters>>

\* Client::handleAbort
Abort(s) ==
    /\ ClientReceives(s, "CLIENT_ABORTING")
    /\ LET j == Head(net[s][Client]).job IN
          /\ client' = Finished(j)
          /\ reports' = [reports EXCEPT ![j][client[j].rev] = @ + 1]
    /\ net' = Received(s)
    /\ UNCHANGED <<db, bulk, hopping, balancerVars, counters>>

\* advance: a user interrupts a job of which no revision is done
InterruptByUser(j) ==
    /\ interrupts < MaxInterrupts
    /\ client[j].done = -1 /\ client[j].root # None
    /\ net' = ClientSend(net, client[j].root, [tag |-> "ABORTING", job |-> j])
    /\ interrupts' = interrupts + 1
    /\ UNCHANGED <<db, bulk, hopping, balancerVars, clientVars, found>>

\* advance: the user declares an incremental job done, perhaps while it is being solved
FinishIncremental(j) ==
    /\ j \in Incremental /\ client[j].active
    /\ client' = [client EXCEPT ![j] = [client[j] EXCEPT !.done = client[j].rev, !.active = FALSE,
                                                         !.root = None]]
    /\ net' = ClientSend(net, client[j].root, [tag |-> "TERMINATING", job |-> j])
    /\ UNCHANGED <<db, bulk, hopping, balancerVars, reports, counters>>

\* The client has no callback for this message: MessageQueue throws
LeavingToClient(s) ==
    /\ ClientReceives(s, "NODE_LEAVING")
    /\ client' = [client EXCEPT ![Head(net[s][Client]).job].ok = FALSE]
    /\ net' = Received(s)
    /\ UNCHANGED <<db, bulk, hopping, balancerVars, reports, counters>>
-----------------------------------------------------------------------------
\* Channels that hold a message whose receiver is not busy with callbacks of the balancer
Deliverable == {p \in Ranks \X Workers : net[p[1]][p[2]] # <<>> /\ Ready(p[2])}
Transferring == {p \in Ranks \X Workers : bulk[p[1]][p[2]] # <<>>}
\* Workers that are busy with the balancer's callbacks, and those that are not
Balancing == {w \in Workers : ~Ready(w)}
Polling == {w \in Workers : Ready(w)}

WorkerReceives(s, w) ==
    \/ RequestNode(s, w) \/ OfferAdoption(s, w) \/ AnswerAdoptionOffer(s, w)
    \/ QueryJobDescription(s, w) \/ NodeLeaving(s, w)
    \/ ResultFound(s, w) \/ QueryResult(s, w) \/ ResultObsolete(s, w)
    \/ JobAborting(s, w) \/ Interrupt(s, w) \/ JobTerminating(s, w)
    \/ RejectOneshot(s, w) \/ InitializeChild(s, w) \/ NodesReturned(s, w)
    \/ ReleaseFromWaiting(s, w) \/ NodeFreed(s, w)

WorkerSteps(w) ==
    \/ RequestHops(w) \/ ForgetOldJobs(w) \/ Digest(w)
    \/ \E outcome \in {"none", "solved", "timeout"} : CheckJobs(w, outcome)

BalancerCallbacks(w) == FutureRequest(w) \/ \E j \in db[w].todo : VolumeCallback(w, j)

ClientReceivesFrom(s) ==
    OfferOfRoot(s) \/ JobDone(s) \/ SendJobResult(s) \/ Abort(s) \/ LeavingToClient(s)

Next ==
    \/ \E p \in Deliverable : WorkerReceives(p[1], p[2])
    \/ \E p \in Transferring : SendJobDescription(p[1], p[2]) \/ DescriptionCancelled(p[1], p[2])
    \/ \E w \in Polling : WorkerSteps(w)
    \/ \E w \in Balancing : BalancerCallbacks(w)
    \/ \E s \in Workers : ClientReceivesFrom(s)
    \/ \E j \in Jobs : IntroduceJob(j) \/ InterruptByUser(j) \/ FinishIncremental(j)
    \/ Rebalance

Spec == Init /\ [][Next]_vars

\* What the system does by itself: every rank polls (Worker::advance, Client::advance),
\* messages arrive, the balancer works off its events, a solver comes to an end.  That
\* these steps do not stop while one is possible is all the fairness that is assumed.  A
\* bounced request is no progress: when nothing else can happen, one of its random hops
\* reaches a worker that acts on it.
Progress ==
    \/ \E p \in Deliverable : WorkerReceives(p[1], p[2])
    \/ \E p \in Transferring : SendJobDescription(p[1], p[2])
    \/ \E s \in Workers : ClientReceivesFrom(s)
    \/ \E w \in Polling :
          \/ RequestHops(w) \/ Digest(w)
          \/ \E outcome \in {"none", "solved"} : CheckJobs(w, outcome)
    \/ \E w \in Balancing : BalancerCallbacks(w)
    \/ Rebalance

FairSpec == Spec /\ WF_vars(Progress)
-----------------------------------------------------------------------------
(***************************************************************************)
(* Properties.                                                             *)
(***************************************************************************)
\* The incremental jobs that their users have declared done
Ended == {j \in Incremental : client[j].rev # -1 /\ ~client[j].active}

\* Database, channels and logs hold what the code's types allow; what a handler
\* collects is moved on by the end of its step.
TypeOK ==
    /\ \A w \in Workers : /\ IsDatabase(db[w], Ended) /\ db[w].rank = w
                          /\ db[w] = HandedOver(db[w]) /\ db[w].epoch <= Len(log)
    /\ net \in [Ranks -> [Ranks -> Seq(Messages(Ended))]]
    /\ bulk \in [Ranks -> [Ranks -> Seq(Descriptions)]]
    /\ DOMAIN hopping \subseteq Requests
    /\ pending \in [Jobs -> Seq(Nat)] /\ known \in [Jobs -> Nat \cup {None}]
    /\ log \in Seq([Jobs -> Nat \cup {None}])
    /\ client \in [Jobs -> ClientJobs]

\* A worker computes for one job at most, or is committed to one, and the database's flags
\* say so (_load, _current_job, _has_commitment).
OneJobPerWorker ==
    \A w \in Workers : LET d == db[w] IN
        /\ \A j \in Jobs : d.load = j <=> (Has(d, j) /\ d.jobs[j].state = "ACTIVE")
        /\ d.hasCommitment <=> \E j \in Jobs : HasCommitment(d, j)
        /\ \A i, j \in Jobs : HasCommitment(d, i) /\ HasCommitment(d, j) => i = j
        /\ ~(d.load # None /\ d.hasCommitment)

\* No assertion of the code fails at a worker, whatever arrives and in whatever order, and
\* a worker never has two jobs at a time (JobDatabase::setLoad, commit, uncommit,
\* suspend, reactivate, the balancer's onSuspend, handleQueryJobResult).  The workers' state
\* keeps its types.  This is for jobs without local schedulers (-rs=0).
AssertionsHold == TypeOK /\ OneJobPerWorker /\ \A w \in Workers : db[w].failed = {}

\* With local schedulers, too, and however late balancing results, offers, answers and
\* descriptions are, a worker never has two jobs at a time and no assertion about its own
\* database fails: those of setLoad, commit, uncommit, Job::start, suspend and reactivate,
\* tryAdoptRequest, and the balancer's onDemandChange and onSuspend.
LocalAssertionsHold ==
    OneJobPerWorker /\ \A w \in Workers : db[w].failed \cap Watched = {}

\* The client receives no message it has no callback for and none about a job that is not
\* active any more.
ClientOk == \A j \in Jobs : client[j].ok

\* Worker w computes for position i of job j's tree.
Holds(w, j, i) == Has(db[w], j) /\ db[w].jobs[j].state = "ACTIVE" /\ db[w].jobs[j].index = i

\* No two workers hold the same position of a job's tree: a request asks for one worker,
\* and a worker whose offer is rejected uncommits (handleAnswerAdoptionOffer).  This is not
\* so while a description sent for an earlier commitment is still on its way (see README).
Exclusive ==
    \A j \in Jobs : \A v, w \in Workers : \A i \in 0..Cardinality(Workers) :
        Holds(v, j, i) /\ Holds(w, j, i) => v = w

\* Nothing is in transit and no event is outstanding
Quiet == Settled /\ \A j \in Jobs : pending[j] = <<>>

\* Once nothing is in transit, a node's children are nodes that know it as their parent:
\* accepted offers have been taken up and departures noticed (handleOfferAdoption,
\* handleNotifyNodeLeavingJob).
LinksReciprocated ==
    Quiet => \A w \in Workers, j \in Jobs : Has(db[w], j) /\ db[w].jobs[j].state = "ACTIVE" =>
        LET node == db[w].jobs[j] IN
        /\ node.left # None => Holds(node.left, j, LeftIndex(node)) /\ db[node.left].jobs[j].parent = w
        /\ node.right # None => Holds(node.right, j, RightIndex(node)) /\ db[node.right].jobs[j].parent = w

\* Once nothing is in transit, no position of the tree below the job's volume is vacant: the
\* request for it has found a worker (updateVolume, spawnJobRequest, recruitChild).  With
\* local schedulers (-rs=1) this is for balancing results that are Spaced.
Filled ==
    Quiet => \A w \in Workers, j \in Jobs : Has(db[w], j) /\ db[w].jobs[j].state = "ACTIVE" =>
        LET node == db[w].jobs[j] IN
        \A i \in {LeftIndex(node), RightIndex(node)} : i < node.volume => \E v \in Workers : Holds(v, j, i)

\* Once nothing is in transit, no worker is left with a commitment (_has_commitment would
\* keep it from ever adopting a job again).
NoCommitmentLeft == Quiet => \A w \in Workers : ~db[w].hasCommitment

\* Once nothing is in transit, no suspended worker is still waiting to be asked back: the
\* parent's scheduler has recruited it or released it.  A worker that waits turns away every
\* other job (setWaitingForReactivation, notifyRemainingInactiveNodes).  This and the next
\* properties of schedulers but SchedulersClosed are for balancing results that are Spaced.
NoWaiterLeft == Quiet => \A w \in Workers : ~IsAnyWaiting(db[w])

\* Once nothing is in transit, a scheduler is open only for a node that its worker holds,
\* however late its nodes were handed down, sent back or returned.  An open scheduler keeps
\* the worker from taking that position ever again (canCommit in tryAdopt).
SchedulersClosed ==
    Quiet => \A w \in Workers : \A k \in DOMAIN db[w].schedulers :
        k[2] > 0 /\ ~CanCommit(db[w].schedulers[k]) => Holds(w, k[1], k[2])

\* Once nothing is in transit, a node and its child know each other, and so do their
\* schedulers, by rank; a session counts on getting nodes back exactly if it has a child.
\* So what the child returns is taken back and no suspension waits for a child that is gone
\* (handleChildJoining, initializeScheduling, getSessionByChildRank, canReturnInactiveJobNodes).
SchedulersLinked ==
    Quiet => \A w \in Workers, j \in Jobs :
        Has(db[w], j) /\ db[w].jobs[j].state = "ACTIVE" =>
            LET node == db[w].jobs[j]
                sessions == db[w].schedulers[<<j, node.index>>].sessions
                Knows(child, c) ==
                    /\ sessions[c].childHasNodes <=> child # None
                    /\ child # None =>
                          /\ Holds(child, j, 2 * node.index + c) /\ db[child].jobs[j].parent = w
                          /\ sessions[c].childRank = child
                          /\ db[child].schedulers[<<j, 2 * node.index + c>>].parent = w
            IN Knows(node.left, 1) /\ Knows(node.right, 2)

\* The inactive nodes that a scheduler keeps
Kept(sc) == UNION {sc.sessions[c].nodes : c \in {x \in 1..2 : HasSession(sc, x)}}

\* Once nothing is in transit, every suspended worker is kept by exactly one scheduler of
\* its job's tree, with the index it had: however the lists were split, handed down and
\* returned as the tree shrank and grew, no worker is forgotten or claimed twice (split,
\* extractSubtree, mergePreferringNewer, returnInactiveJobNodesToParent).
SuspendedRemembered ==
    Quiet => \A w \in Workers, j \in Jobs :
        Has(db[w], j) /\ db[w].jobs[j].state = "SUSPENDED" /\ db[w].jobs[j].index > 0 =>
            \E owner \in {p \in Workers \X ({j} \X (0..Cardinality(Workers))) :
                              p[2] \in DOMAIN db[p[1]].schedulers} :
                /\ \E n \in Kept(db[owner[1]].schedulers[owner[2]]) :
                      n.rank = w /\ n.index = db[w].jobs[j].index
                /\ \A v \in Workers : \A k \in DOMAIN db[v].schedulers :
                      k[1] = j /\ (\E n \in Kept(db[v].schedulers[k]) : n.rank = w) => owner = <<v, k>>

\* A job that has been reported, and about which nothing is in transit, has been reported
\* exactly once and has left no worker busy, committed, or with a result kept for it.
NothingLeftBehind ==
    Quiet => \A j \in Jobs \ Incremental : client[j].done = 0 =>
        /\ reports[j][0] = 1
        /\ \A w \in Workers : /\ db[w].load # j /\ ~HasCommitment(db[w], j)
                              /\ <<j, 0>> \notin db[w].results

\* The active root of a job that is not incremental is never displaced or suspended: it
\* ends with its job.
RootEndsWithJob ==
    [][\A w \in Workers, j \in Jobs \ Incremental :
          Holds(w, j, 0) => Holds(w, j, 0)' \/ db'[w].jobs[j] = None]_vars

\* Worker w has the started root of job j, active or suspended.
IsRoot(w, j) == Has(db[w], j) /\ db[w].jobs[j].index = 0 /\ db[w].jobs[j].state # "INACTIVE"

\* The root of an incremental job, once started, stays where it is and remains the root
\* until the user declares the job done: no other node's role is put on top of it and it
\* is not forgotten (tryAdopt, forgetOldJobs).
RootKept ==
    [][\A w \in Workers, j \in Incremental :
          IsRoot(w, j) => IsRoot(w, j)' \/ ~client[j].active]_vars

\* All revisions of a job have the same root, although requests for its other nodes and
\* for its next revision are tried at every worker (tryAdopt).
OneRoot == \A j \in Jobs : \A v, w \in Workers : IsRoot(v, j) /\ IsRoot(w, j) => v = w

\* The request to resume a root waits only as long as its worker has something else to do
\* ("cannot adopt right now: defer until I can", tryAdoptRequest): once nothing is in
\* transit, an idle worker that tries the request again gets further.
PendingRootServed ==
    Quiet => \A w \in Workers :
        db[w].pendingRoot # None /\ ~IsBusyOrCommitted(db[w]) => RetryPendingRoot(db[w]) # db[w]

\* Every introduced job is reported to its user at last (Client::advance,
\* handleSendJobResult, handleAbort).
EventuallyReported == \A j \in Jobs : client[j].active ~> client[j].done = 0
=============================================================================
