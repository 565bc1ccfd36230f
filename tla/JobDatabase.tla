---------------------------- MODULE JobDatabase -----------------------------
(***************************************************************************)
(* The job nodes a worker holds (data/job_database.cpp, app/job.cpp and    *)
(* app/job_tree.hpp), as operators on a database record db.  A handler of  *)
(* the worker is a composition of them; what it sends and what it tells    *)
(* the balancer is collected in the fields out, bulk, hops and events,     *)
(* which the step of the handler moves to the network.                     *)
(*                                                                         *)
(* Reactivation-based scheduling (-rs) is a constant.  The other options   *)
(* are -huca=-1, that is, no collective assignment, and the defaults:      *)
(* volumes computed by every worker, no dormant-child lists.               *)
(* An assertion that fails is recorded in the field failed.                *)
(***************************************************************************)
EXTENDS LocalScheduler

CONSTANTS
    Incremental,    \* the jobs that have revisions
    Demand,         \* the demand Job::getDemand returns for an active root
    JobCacheSize,   \* option -jc
    ReactivationScheduling \* option -rs

ASSUME DatabaseAssumption ==
    /\ IsFiniteSet(Workers) /\ 0 \in Workers /\ Client \notin Workers
    /\ Permutation \in [Jobs -> [0..(Cardinality(Workers) - 1) -> Workers]]
    /\ Incremental \subseteq Jobs
    /\ Demand \in [Jobs -> Nat \ {0}]
    /\ JobCacheSize \in Nat /\ ReactivationScheduling \in BOOLEAN
    /\ None \notin Ranks \cup Jobs

\* JobRequest.  hopped says whether numHops > 0; the root of a new job has epoch -1.  A
\* targeted request (MSG_REQUEST_NODE_ONESHOT) asks one worker to rejoin.
Requests == [job : Jobs, root : Workers \cup {None}, from : Ranks, index : Nat,
             rev : Nat, epoch : Int, hopped : BOOLEAN, targeted : BOOLEAN]

\* A Job with its JobTree; a job whose state would be PAST is not in the database.
JobNodes == [
    state : {"INACTIVE", "ACTIVE", "SUSPENDED"},
    index : Nat \cup {-1},                      \* position in the job tree
    root : Workers \cup {None},                 \* getRootNodeRank
    parent : Ranks \cup {None},                 \* getParentNodeRank
    left : Ranks \cup {None},                   \* the left child, if there is one
    right : Ranks \cup {None},
    past : SUBSET Ranks,                        \* _past_children
    commitment : Requests \cup {None},
    commitEpoch : Int,                          \* _balancing_epoch_of_last_commitment
    requestEpoch : Int,                         \* _balancing_epoch_of_last_requests
    volume : Nat,
    rev : Nat \cup {-1},                        \* last revision whose description is here
    desired : Nat,                              \* _desired_revision
    solved : Int,                               \* _last_solved_revision
    found : Nat \cup {-1},                      \* last revision the solvers here reported
    waiting : SUBSET (Ranks \X Nat),            \* _waiting_rank_revision_pairs
    waitEpoch : Int,                            \* _wait_epoch
    stopWaitEpoch : Int]                        \* _stop_wait_epoch

\* What ranks send each other, other than descriptions.  Only an incremental job is
\* interrupted, and one that is terminated has been declared done by its user.
Messages(ended) ==
    [tag : {"REQUEST_NODE", "OFFER_ADOPTION", "OFFER_OF_ROOT"}, req : Requests]
    \cup [tag : {"REJECT_ONESHOT"}, req : Requests, dormant : BOOLEAN]
    \cup [tag : {"ANSWER_OFFER"}, job : Jobs, index : Nat, accepted : BOOLEAN]
    \cup [tag : {"NODE_LEAVING"}, job : Jobs, index : Int, root : Workers \cup {None}]
    \cup [tag : {"QUERY_DESCRIPTION", "RESULT_FOUND", "RESULT_OBSOLETE", "QUERY_RESULT", "JOB_RESULT"},
          job : Jobs, rev : Nat]
    \cup [tag : {"JOB_DONE"}, job : Jobs, rev : Nat, rank : Ranks]
    \cup [tag : {"ABORTING", "CLIENT_ABORTING"}, job : Jobs]
    \cup [tag : {"INTERRUPT"}, job : Incremental]
    \cup [tag : {"TERMINATING"}, job : (Jobs \ Incremental) \cup ended]
    \cup [tag : {"NODE_FREED"}, job : Jobs, rank : Workers, index : Nat, epoch : Int]
    \cup {m \in SchedulerMessages : m.tag # "EMIT_REQUEST"}

Descriptions == [tag : {"DESCRIPTION"}, job : Jobs, rev : Nat \cup {-1}, tracked : BOOLEAN]

ASSUME NoneAssumption == None \notin Sessions \cup Requests \cup JobNodes

\* The Job constructor
NewJob == [state |-> "INACTIVE", index |-> -1, root |-> None, parent |-> None, left |-> None,
           right |-> None, past |-> {}, commitment |-> None, commitEpoch |-> -1,
           requestEpoch |-> -1, volume |-> 1, rev |-> -1, desired |-> 0, solved |-> -1,
           found |-> -1, waiting |-> {}, waitEpoch |-> -1, stopWaitEpoch |-> -1]

\* Bounced requests: how many copies of each are on their way
NoHops == [req \in {} |-> 0]
Copies(hops, req) == IF req \in DOMAIN hops THEN hops[req] ELSE 0
AddHops(hops, more) ==
    [req \in DOMAIN hops \cup DOMAIN more |-> Copies(hops, req) + Copies(more, req)]
TakeHop(hops, req) ==
    [r \in {r \in DOMAIN hops : r = req => hops[r] > 1} |-> IF r = req THEN hops[r] - 1 ELSE hops[r]]

\* A worker without jobs that has digested no balancing result
EmptyDatabase(w) == [
    rank |-> w,
    jobs |-> [j \in Jobs |-> None],
    load |-> None,                  \* _current_job
    hasCommitment |-> FALSE,        \* _has_commitment
    pendingRoot |-> None,           \* _pending_root_reactivate_request
    rootRequests |-> {},            \* _root_requests
    future |-> <<>>,                \* _future_request_msgs: a map from epochs to lists
    schedulers |-> <<>>,            \* _schedulers: a function of job and index
    numSchedulers |-> [j \in Jobs |-> 0],  \* _num_schedulers_per_job
    results |-> {},                 \* _pending_results of the worker
    active |-> None,                \* the balancer's _active_job_id
    local |-> {},                   \* the balancer's _local_jobs
    rooted |-> {},                  \* keys of the balancer's _job_root_epochs
    epoch |-> 0,                    \* getGlobalBalancingEpoch
    todo |-> {},                    \* jobs whose volume callback is due
    arriving |-> FALSE,             \* future requests that have become present are due
    volumes |-> [j \in Jobs |-> 0], \* the balancer's _job_volumes (0: no entry)
    failed |-> {},                  \* functions in which an assertion has failed
    out |-> NothingSent, bulk |-> NothingSent, hops |-> NoHops,
    events |-> [j \in Jobs |-> <<>>]]

\* What the types of the code's fields allow, and the keys of a scheduler are its job and
\* index
IsDatabase(d, ended) ==
    /\ DOMAIN d = {"rank", "jobs", "load", "hasCommitment", "pendingRoot", "rootRequests", "future",
                   "schedulers", "numSchedulers", "results", "active", "local", "rooted", "epoch",
                   "todo", "arriving", "volumes", "failed", "out", "bulk", "hops", "events"}
    /\ d.rank \in Workers
    /\ d.jobs \in [Jobs -> JobNodes \cup {None}]
    /\ d.load \in Jobs \cup {None} /\ d.active \in Jobs \cup {None}
    /\ d.hasCommitment \in BOOLEAN /\ d.arriving \in BOOLEAN
    /\ d.pendingRoot \in Requests \cup {None}
    /\ d.rootRequests \subseteq Requests
    /\ DOMAIN d.future \subseteq Int
    /\ \A e \in DOMAIN d.future : d.future[e] \in Seq(Requests) \ {<<>>}
    /\ DOMAIN d.schedulers \subseteq Jobs \X Nat
    /\ \A k \in DOMAIN d.schedulers :
          IsScheduler(d.schedulers[k]) /\ k = <<d.schedulers[k].job, d.schedulers[k].index>>
    /\ d.numSchedulers \in [Jobs -> Int]
    /\ d.results \subseteq Jobs \X Nat
    /\ d.local \subseteq Jobs /\ d.rooted \subseteq Jobs /\ d.todo \subseteq Jobs
    /\ d.epoch \in Nat /\ d.volumes \in [Jobs -> Nat]
    /\ d.out \in [Ranks -> Seq(Messages(ended))] /\ d.bulk \in [Ranks -> Seq(Descriptions)]
    /\ DOMAIN d.hops \subseteq Requests /\ d.events \in [Jobs -> Seq(Nat)]

\* An entry of a std::map is set, whether or not there was one
With(map, key, value) == [k \in DOMAIN map \cup {key} |-> IF k = key THEN value ELSE map[k]]
-----------------------------------------------------------------------------
Has(db, j) == db.jobs[j] # None
HasCommitment(db, j) == Has(db, j) /\ db.jobs[j].commitment # None
IsBusyOrCommitted(db) == db.load # None \/ db.hasCommitment
IsDormant(node) == node # None /\ node.state = "SUSPENDED"
IsDormantRoot(node) == IsDormant(node) /\ node.index = 0
HasDormantRoot(db) == \E j \in Jobs : IsDormantRoot(db.jobs[j])

LeftIndex(node) == 2 * (node.index + 1) - 1
RightIndex(node) == 2 * (node.index + 1)
IsLeaf(node) == node.left = None /\ node.right = None

\* An assertion of the code, by the name of the function that makes it
Check(db, function, condition) ==
    [db EXCEPT !.failed = IF condition THEN @ ELSE @ \cup {function}]
\* The functions whose assertions are about one database alone
Watched == {"setLoad", "commit", "uncommit", "start", "suspend", "reactivate", "tryAdoptRequest",
            "onDemandChange", "onSuspend"}
Send(db, dest, msg) == [db EXCEPT !.out[dest] = Append(@, msg)]
Hop(db, req) == [db EXCEPT !.hops = AddHops(@, [r \in {req} |-> 1])]
Push(db, j, demand) == [db EXCEPT !.events[j] = Append(@, demand)]

\* JobTree::unsetLeftChild and unsetRightChild
UnsetChildren(node) ==
    [node EXCEPT !.left = None, !.right = None, !.past = @ \cup ({node.left, node.right} \ {None})]
-----------------------------------------------------------------------------
(***************************************************************************)
(* What the database tells the balancer (event_driven_balancer.cpp).       *)
(***************************************************************************)
OnDemandChange(db, j, demand) ==
    Push(Check(db, "onDemandChange", db.active = j /\ db.jobs[j].index = 0 /\ j \in db.rooted), j, demand)

OnActivate(db, j, demand) ==
    IF db.active = j
    THEN IF db.jobs[j].index = 0 THEN OnDemandChange(db, j, demand) ELSE db
    ELSE [db EXCEPT !.active = j, !.local = @ \cup {j},
                    !.rooted = IF db.jobs[j].index = 0 THEN @ \cup {j} ELSE @]

OnSuspend(db, j) ==
    LET idle == [db EXCEPT !.active = IF @ = j THEN None ELSE @]
    IN IF db.jobs[j].index = 0 THEN Push(Check(idle, "onSuspend", j \in db.rooted), j, 1) ELSE idle

\* The event of a terminated job has demand 0 and supersedes any other.
OnTerminate(db, j) ==
    LET idle == IF db.active = j THEN [db EXCEPT !.active = None, !.local = @ \ {j}] ELSE db
    IN IF db.jobs[j].index = 0 /\ j \in db.rooted
       THEN [Push(idle, j, 0) EXCEPT !.rooted = @ \ {j}]
       ELSE idle
-----------------------------------------------------------------------------
(***************************************************************************)
(* Waiting for reactivation (JobTree) and the schedulers of the nodes.     *)
(***************************************************************************)
IsWaiting(node) == node.waitEpoch > node.stopWaitEpoch
SetWaiting(db, j, epoch) == [db EXCEPT !.jobs[j].waitEpoch = Larger(@, epoch)]
StopWaiting(db, j, epoch) == [db EXCEPT !.jobs[j].stopWaitEpoch = Larger(@, epoch)]

\* hasInactiveJobsWaitingForReactivation
IsAnyWaiting(db) ==
    /\ ReactivationScheduling
    /\ \E j \in Jobs : Has(db, j) /\ db.jobs[j].state = "SUSPENDED" /\ IsWaiting(db.jobs[j])

HasScheduler(db, j, index) == <<j, index>> \in DOMAIN db.schedulers

\* The scheduler of the node of job j, at its present index
HasOwnScheduler(db, j) == HasScheduler(db, j, db.jobs[j].index)

\* What becomes of a message of a scheduler of job j: it emits requests through the job
\* (Job::constructScheduler, Worker::sendJobRequest)
Emitted(db, j, m) ==
    IF m.tag # "EMIT_REQUEST" THEN m
    ELSE [tag |-> "REQUEST_NODE",
          req |-> [job |-> j, root |-> db.jobs[j].root, from |-> db.rank, index |-> m.index,
                   rev |-> db.jobs[j].desired, epoch |-> m.epoch, hopped |-> FALSE,
                   targeted |-> m.targeted]]

Emits(sc) == \E r \in Ranks : \E k \in 1..Len(sc.out[r]) : sc.out[r][k].tag = "EMIT_REQUEST"

\* Put a scheduler back after an operation on it, and send what it has sent.  A request
\* cannot be emitted for a job that is gone.
PutScheduler(db, sc) ==
    IF Emits(sc) /\ ~Has(db, sc.job) THEN Check(db, "sendJobRequest", FALSE)
    ELSE [Check(db, "LocalScheduler", sc.ok) EXCEPT
             !.schedulers = With(@, <<sc.job, sc.index>>, [sc EXCEPT !.out = NothingSent]),
             !.out = [r \in Ranks |->
                 @[r] \o [k \in 1..Len(sc.out[r]) |-> Emitted(db, sc.job, sc.out[r][k])]]]

GetScheduler(db, j, index) == db.schedulers[<<j, index>>]

\* The scheduler of a node, if there is one, becomes sc
SetScheduler(db, j, index, sc) == IF HasScheduler(db, j, index) THEN PutScheduler(db, sc) ELSE db

EraseSchedulers(db, keys) ==
    [db EXCEPT !.schedulers = [k \in DOMAIN @ \ keys |-> @[k]]]

InitScheduler(db, req) ==
    LET j == req.job
        isNew == ~HasScheduler(db, j, req.index)
        node == db.jobs[j]
        sc == IF isNew THEN NewScheduler(j, node.index, db.rank, node.parent)
              ELSE db.schedulers[<<j, req.index>>]
        counted == [db EXCEPT !.numSchedulers[j] = @ + (IF isNew THEN 1 ELSE 0)]
    IN PutScheduler(counted,
           IF node.index > 0 THEN ResetRole(sc)
           ELSE IF req.rev > 0 THEN BeginResumptionAsRoot(sc)
           ELSE InitializeScheduling(sc, Larger(req.epoch, 0), -1, {}, node.parent))

SuspendScheduler(db, j) ==
    LET index == db.jobs[j].index
        sc == GetScheduler(db, j, index)
        suspended == SetScheduler(db, j, index, IF IsActive(sc) THEN Suspension(sc) ELSE sc)
    IN IF HasScheduler(db, j, index) /\ index > 0 /\ CanCommit(GetScheduler(suspended, j, index))
       THEN [EraseSchedulers(suspended, {<<j, index>>}) EXCEPT !.numSchedulers[j] = @ - 1]
       ELSE suspended

\* forgetOldJobs: the schedulers it removes.  The decrement of _num_schedulers_per_job
\* reads the key of an entry that has just been freed, of which the allocator's free list
\* has taken the first bytes: no job's number is decremented.
ForgettableSchedulers(db) ==
    {k \in DOMAIN db.schedulers :
        /\ ~(Has(db, k[1]) /\ (db.jobs[k[1]].state = "ACTIVE" \/ db.jobs[k[1]].commitment # None))
        /\ ~Has(db, k[1]) \/ k[2] > 0
        /\ CanCommit(db.schedulers[k])}
-----------------------------------------------------------------------------
SetLoad(db, j) == [Check(db, "setLoad", db.load = None /\ Has(db, j)) EXCEPT !.load = j]
ClearLoad(db, j) == [Check(db, "setLoad", db.load # None /\ Has(db, j)) EXCEPT !.load = None]

CreateJob(db, j) == [db EXCEPT !.jobs[j] = NewJob]

\* Job::updateJobTree and JobTree::update: the role of a request for worker w
Placed(node, w, req) ==
    [node EXCEPT !.index = req.index, !.parent = req.from,
                 !.root = IF req.index = 0 \/ req.root = None THEN w ELSE req.root]

\* Job::commit.  clearJobNodeUpdates forgets who the children were, not that there
\* are any.
Committed(node, w, req) ==
    LET placed == Placed(node, w, req)
    IN [placed EXCEPT
           !.commitment = req, !.commitEpoch = req.epoch,
           !.left = IF @ = None THEN None ELSE NodeRank(req.job, LeftIndex(placed)),
           !.right = IF @ = None THEN None ELSE NodeRank(req.job, RightIndex(placed))]

Commit(db, req) ==
    LET j == req.job
        committed == [Check(db, "commit", db.jobs[j].state # "ACTIVE")
                          EXCEPT !.jobs[j] = Committed(@, db.rank, req), !.hasCommitment = TRUE]
    IN OnActivate(committed, j, 1)

Uncommit(db, j) ==
    IF Has(db, j)
    THEN [Check(db, "uncommit", db.jobs[j].state # "ACTIVE")
              EXCEPT !.jobs[j].commitment = None, !.hasCommitment = FALSE]
    ELSE db

\* Job::start or resume
Started(node) == [node EXCEPT !.state = "ACTIVE", !.volume = IF @ < 1 THEN 1 ELSE @]

\* execute, and reactivate after its update of the job tree
Activate(db, j) ==
    LET started == [SetLoad(db, j) EXCEPT !.jobs[j] = Started(@)]
    IN OnActivate(Check(started, "start", db.jobs[j].state # "ACTIVE"), j, Demand[j])

Execute(db, j) == IF Has(db, j) THEN Activate(db, j) ELSE db

Reactivate(db, req) ==
    LET j == req.job
    IN Activate([Check(db, "reactivate", ~HasCommitment(db, j) /\ db.jobs[j].state = "SUSPENDED")
                     EXCEPT !.jobs[j] = Placed(@, db.rank, req)], j)

Suspend(db, j) ==
    LET stopped == [Check(SuspendScheduler(db, j), "suspend", Has(db, j) /\ db.jobs[j].state = "ACTIVE")
                        EXCEPT !.jobs[j] = UnsetChildren([@ EXCEPT !.state = "SUSPENDED"])]
    IN OnSuspend(ClearLoad(stopped, j), j)

\* forget: the job is terminated if it is not yet, and leaves the database
Forget(db, j) == [db EXCEPT !.jobs[j] = None]

Terminate(db, j) ==
    LET stopped == IF db.load = j THEN ClearLoad(db, j) ELSE db
        uncommitted == IF HasCommitment(db, j)
                       THEN [stopped EXCEPT !.jobs[j].commitment = None, !.hasCommitment = FALSE]
                       ELSE stopped
    IN Forget(OnTerminate(uncommitted, j), j)
-----------------------------------------------------------------------------
IsRequestObsolete(db, req) ==
    /\ req.index # 0
    /\ \/ req.epoch < db.epoch
       \/ /\ Has(db, req.job)
          /\ LET node == db.jobs[req.job] IN
             /\ node.state = "ACTIVE"
             /\ \/ req.index = node.index
                \/ node.left # None /\ req.index = LeftIndex(node)
                \/ node.right # None /\ req.index = RightIndex(node)

IsAdoptionOfferObsolete(db, req) ==
    /\ req.index # 0
    /\ \/ ~Has(db, req.job)
       \/ LET node == db.jobs[req.job] IN
          \/ node.state # "ACTIVE" /\ node.commitment = None
          \/ req.index \notin {LeftIndex(node), RightIndex(node)}
          \/ req.rev < node.rev
          \/ req.index = LeftIndex(node) /\ node.left # None
          \/ req.index = RightIndex(node) /\ node.right # None

\* Mutants: an idle worker refuses nothing unless it has a dormant root, so a commitment to
\* another request does not count; a root is replaced like a leaf
TryAdopt_DespiteCommitment(db, req) ==
    IF HasDormantRoot(db) \/ db.load # None THEN "REJECT" ELSE "ADOPT_FROM_IDLE"

TryAdopt_ReplacesRoot(db, req) ==
    IF db.hasCommitment \/ HasDormantRoot(db) THEN "REJECT"
    ELSE IF db.load = None THEN "ADOPT_FROM_IDLE"
    ELSE IF req.index = 0 /\ req.job # db.load /\ IsLeaf(db.jobs[db.load])
         THEN "ADOPT_REPLACE_CURRENT" ELSE "REJECT"

\* Mutant: the role of a child is put on top of a dormant root
TryAdopt_OverDormantRoot(db, req) ==
    IF db.hasCommitment \/ db.load # None THEN "REJECT" ELSE "ADOPT_FROM_IDLE"

\* tryAdopt.  DEFER is a rejection: the request hops on, one second later.
TryAdopt(db, req) ==
    LET node == db.jobs[req.job]
        thisRoot == node # None /\ node.index = 0
        leaf == db.load # None /\ db.jobs[db.load].index # 0 /\ IsLeaf(db.jobs[db.load])
    IN  IF \/ db.hasCommitment
           \/ HasDormantRoot(db) /\ ~IsDormantRoot(node)
           \/ /\ HasScheduler(db, req.job, req.index)
              /\ ~CanCommit(db.schedulers[<<req.job, req.index>>])
           \/ thisRoot /\ req.index > 0
           \/ db.load = None /\ req.targeted /\ ~IsDormant(node)
        THEN "REJECT"
        ELSE IF db.load = None THEN "ADOPT_FROM_IDLE"
        ELSE IF ReactivationScheduling THEN "REJECT"
        ELSE IF req.index = 0 /\ (node = None \/ node.state # "ACTIVE") /\ leaf
             THEN "ADOPT_REPLACE_CURRENT"
             ELSE "REJECT"

\* forgetOldJobs, for one job it may forget: an inactive one, or a suspended one that
\* is not a root when more of these are kept than the cache holds
MayForget(db, j) ==
    /\ Has(db, j) /\ db.jobs[j].commitment = None
    /\ \/ db.jobs[j].state = "INACTIVE"
       \/ /\ db.jobs[j].state = "SUSPENDED" /\ db.jobs[j].index # 0
          /\ JobCacheSize > 0 /\ db.numSchedulers[j] = 0
          /\ Cardinality({i \in Jobs : /\ Has(db, i) /\ db.jobs[i].commitment = None
                                       /\ db.jobs[i].state = "SUSPENDED" /\ db.jobs[i].index # 0
                                       /\ db.numSchedulers[i] = 0})
                > JobCacheSize
=============================================================================
