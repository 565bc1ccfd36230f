# Mallob in TLA+

Mallob schedules malleable SAT jobs on the ranks of an MPI program. There is no central
scheduler: a job is a binary tree of workers that grows and shrinks while it runs, the
number of workers it may use (its *volume*) is computed by every rank for itself from a
replicated set of demands, and idle workers are found by requests that hop from rank to
rank. This directory holds a TLA+ model of that core, TLC configurations that check it on
small instances, and TLAPS proofs about the distributed balancer, for every number of ranks
and jobs, about the workers and the client, for every number of workers, jobs and balancing
results, and about the solver process, for every number of revisions, buffers and crashes.

Paths below are relative to the repository (`src/...` is its source directory).

## 1. The system

| Part | Source | State | Operations | Talks to |
|---|---|---|---|---|
| Event-driven balancer | `balancing/event_driven_balancer.*`, `event_map.hpp` | `_states`, `_diffs`, `_balancing_epoch`, `_job_root_epochs`, `_local_jobs`, `_active_job_id`, `_job_volumes` | `onProbe`, `onActivate`, `onDemandChange`, `onSuspend`, `onTerminate`, `pushEvent`, `advance`, `handle`, `digest`, `computeBalancingResult` | balancers of the parent and child ranks; volume callback into the worker |
| Volume calculator | `balancing/volume_calculator.hpp`, `balancing_entry.hpp` | `_entries`, search range, cached volumes at its bounds | `calculateResult` | called by the balancer |
| Job database | `data/job_database.*`, `app/job.*`, `app/job_tree.hpp` | jobs and their state, `_load`, `_current_job`, `_has_commitment`, commitments, deferred and future requests, pending root | `tryAdopt`, `commit`, `uncommit`, `execute`, `suspend`, `reactivate`, `terminate`, `appendRevision`, `forgetOldJobs` | worker, balancer |
| Worker | `worker.*` | the job database, messages | one handler per message tag, `advance`, `checkJobs`, `updateVolume` | workers, client, balancer |
| Client | `client.*` | `_ready_job_queue`, `_active_jobs`, `_root_nodes`, `_done_jobs`, interrupts | `introduceNextJob`, one handler per tag, `advance` | root nodes, interfaces, reader thread |
| Local scheduler | `scheduling/*` | inactive nodes below a node, sessions per child | roles handed down, nodes handed back | worker (`-rs=1`) |
| Collective assignment | `balancing/collective_assignment.*` | idle counts per subtree, open requests | `addJobRequest`, `resolveRequests`, `advance`, `handle` | worker (`-huca=0`) |
| Message queue | `comm/message_queue.*` | fragments, send slots, cancellations | `send`, `advance`, `cancelSend` | everything |
| Job communicator | `comm/job_comm.hpp` | rank list of a job | aggregation up, broadcast down | job |
| Solver processes | `app/sat/horde_*`, `forked_sat_job.*` | shared memory flags, revisions, solution | import/export of clauses, next revision, solution, restart after a crash | job, solver threads |
| Solver threads, clause sharing | `app/sat/hordesat/*`, `app/sat/*comm*` | revision, result, clause buffers | solve, interrupt, append; aggregate and distribute clauses | solver process |
| Threads, interfaces, main program | `util/sys/*`, `interface/*`, `main.cpp` | pool and janitor, job files | | client, job database |

What makes the core hard:

* **Replication without comparison.** Ranks never exchange balancing results. They agree
  only because every rank applies the same batches in the same order, and a batch that is
  skipped, repeated or mixed with local events would go unnoticed.
* **Local reactions to a global volume.** A parent requests children and a node leaves its
  job on the same balancing result, at different moments, while older requests, offers,
  answers, descriptions and interruptions are still on their way.
* **Overtaking.** Messages between two ranks stay in order, except that large ones (job
  descriptions) are sent in fragments and are overtaken by later small ones, or cancelled.
* **Roles that end at any time.** A worker is committed, computing, or suspended; requests,
  time limits, results, user interrupts and the end of a job act on it from four sides.
* **Revisions.** An incremental job has a root that sleeps between two revisions and must be
  found again, whereas the other nodes of the old revision may still be shutting down.

What has to hold:

1. All ranks balance with the same events and compute the same volumes; no event is lost,
   none comes back after a job has ended, every root request is released at last.
2. The calculator ends, uses all workers, stays within demands, follows priorities.
3. A worker works for one job at most, and never trips over an assertion.
4. When nothing is in transit, the tree of a job is consistent and as large as its volume,
   and no worker is left committed.
5. Every revision is reported to the user, once, and nothing of it stays behind.
6. The root of a job is unique and is never displaced.

## 2. Modules

| Module | Models |
|---|---|
| `EventMap` | `event_map.hpp`: maps of the newest event per job and the operations on them |
| `BalancerTree` | the reduction tree the balancer's constructor builds |
| `EventDrivenBalancer` | the balancers of all ranks and the channels between them |
| `BalancingLog` | *abstract*: what the balancers promise, one log that all ranks step through |
| `EventOrder` | the order of a job's events on their way to rank 0: the inductive invariant |
| `EventDrivenBalancerProofs` | theorems about `EventDrivenBalancer`: agreement of the ranks, refinement of `BalancingLog`; lemmas about the paths and flows of events |
| `EventOrderProofs` | theorems about the order of events and what follows from it |
| `VolumeCalculator` | `calculateResult`, one evaluated entry per step |
| `LocalScheduler` | `scheduling/*`: operations on the scheduler of one node, as functions from scheduler to scheduler |
| `JobDatabase` | operations on one worker's database, its schedulers included, as functions from database to database |
| `Handlers` | the handlers and periodic tasks of one worker, as compositions of these functions |
| `Worker` | all workers, the client and the messages between them, composed with the log |
| `DatabaseInvariant` | what the database of a worker is worth: coherence, and the operations that respect it |
| `JobDatabaseProofs` | lemmas about the operations of `LocalScheduler` and `JobDatabase` |
| `HandlerProofs` | lemmas about the links of a node and about `Handlers` |
| `SystemProofs` | the inductive invariant of `Worker`; what it does before and after a handler; client, balancer, initial state |
| `WorkerProofs` | the actions of `Worker`; theorems |
| `MessageQueue` | the message queues of all ranks, their threads, and the packets between them |
| `Channels` | *abstract*: what the queues promise, ordered channels and bulk messages |
| `SolverProcess` | one job node, its solver process, and the shared memory between them |
| `SolverProcessInvariant` | the inductive invariant of `SolverProcess` |
| `SolverProcessSteps`, `SolverProcessProofs` | one lemma per action; theorems |
| `MCBalancer`, `MCMessageQueue`, `MCWorker` | definitions the instances for TLC need |

Definitions whose name contains an underscore (`JoinSession_KeepsRank`) are deliberate
mutations of the definition below them: forms a plausible bug would give it. Replacing the
definition by its mutation makes TLC report the property it is listed with in
`PROJECT.json`, which shows that the property depends on that piece of code.

### Balancer

Each variable of `EventDrivenBalancer` is a field of the class, as a function of the rank.
`up[r]` and `down[r]` are the `MSG_REDUCE_DATA` and `MSG_BROADCAST_DATA` messages between a
rank and its parent. `Flush` and `Keep` are the two outcomes of the 10 ms timer in
`handleData`, chosen freely. `Digest` is `digest` with everything it calls: the update of
the event map, the volumes, the callbacks that release root requests, `filterBy` and
`removeOldZeros`. A volume callback never produces an event, so it belongs to the step.

The callers are reduced to what the balancer sees of them. `jobState`, `home` and
`rootRequest` say which of the calls a worker may make next for a job, as `JobDatabase` and
`Worker` make them; the actions `AddRootRequest` ... `LeaveNode` are these calls. Volumes
are an arbitrary function `VolumesOf` of the event map, since what a rank makes of the
events does not matter as long as it is a function of them. `log` is a history variable:
rank 0's batch and results for each epoch.

The event maps are functions on all jobs with `NoEvent` for no entry. `TermEpoch` is
`INT_MAX`. `filterBy` calls `abort()` when it meets two different events of one epoch;
the model does not stop there, and `EventIdentity` shows that it cannot happen.

### Volume calculator

`VolumeCalculator` follows the loop of `calculateResult`: `FullDemands` and `BailOut` are the
early exits, `BeginSearch` determines the range, `Evaluate` evaluates one entry at the
current multiplier and dismisses it by swapping it to the front if it is settled; after the
last entry the multiplier is `Perfect`, or the range is `Narrow`ed, or the `BaseCase` hands
out the last workers in order.
Multipliers are doubles in the code and multiples of 1/`Grid` here; with
`Grid` = 960 the bounds every job contributes are exact in the instances, and midpoints are
rounded down once the range has been halved often enough. Rounding errors of doubles are
not modelled.

### Job database, worker, client

`JobDatabase` describes the database of one worker as a record and every operation of the
class as a function from records to records, so that a handler is a composition of them in
the order of the code. Messages a handler sends, requests it lets hop and events it gives to
the balancer are collected in the fields `out`, `hops` and `events`, and an assertion of the
code that fails is remembered in `failed`; the action that runs the handler moves the
collected messages to the network. `jobs[j]` holds what `Job` and `JobTree` keep of a node:
state, index, revision, desired revision, volume, parent, root, children, commitment.

`Handlers` has the handlers of a worker as such functions. In `Worker` an action is one handler or
one periodic task, applied to the database of one worker:

| Action | Code |
|---|---|
| `RequestNode`, `RequestHops`, `FutureRequest` | `handleRequestNode`, directly, after a hop, after waiting for the epoch of the request |
| `OfferAdoption`, `AnswerAdoptionOffer` | the handlers of the same name |
| `QueryJobDescription`, `SendJobDescription`, `DescriptionCancelled` | exchange of the description; cancellation of one that is still being sent |
| `Digest`, `VolumeCallback` | a worker takes over the next balancing result; one of its volume callbacks |
| `NodeLeaving`, `Interrupt`, `JobTerminating`, `JobAborting` | departures and interruptions |
| `ResultFound`, `QueryResult`, `ResultObsolete` | the way of a result |
| `RejectOneshot`, `InitializeChild`, `NodesReturned`, `ReleaseFromWaiting`, `NodeFreed` | the handlers of the five messages of reactivation-based scheduling |
| `CheckJobs` | `checkJobs`: `checkActiveJob` finds nothing, a result, or an expired limit |
| `ForgetOldJobs` | `forgetOldJobs`, with `-jc` as `JobCacheSize` |
| `IntroduceJob`, `OfferOfRoot`, `JobDone`, `SendJobResult`, `Abort`, `InterruptByUser`, `FinishIncremental` | the client |
| `Rebalance` | rank 0 of the balancer appends a result |

The balancer enters through its promise: `Rebalance` extends `log`, and `Digest` lets each
worker follow at its own pace, which is what `BalancingLog` specifies and
`EventDrivenBalancer` is proved to implement. With the demands outstanding a result gives
every known job a volume between one and its demand; up to `MaxEpoch` further results stand
for what other jobs outside the instance cause.

Network. `net[s][d]` is the ordered channel between two ranks. `bulk[s][d]` holds job
descriptions, which are sent in fragments: they may be overtaken by what is sent after
them. A bounced request is counted in `hopping`, from which any worker may take it: its way
leads through random neighbours, of which the instance shows only a few. `NodeRank`, where a request
starts its way, looks up a constant `Permutation` of the workers for each job.

The model covers both values of `-rs` (constant `ReactivationScheduling`; the code's default is
1), with `-huca=-1` (no collective assignment), `-evu=0` and `-dc=0`. With collective assignment
a request would find its worker by another route; what happens at the two ends is the same.

### Local scheduler

With `-rs=1` a node that leaves a job is not forgotten: its parent's scheduler keeps it in a list
of inactive nodes and calls it back when the position is wanted again. `LocalScheduler`
describes one scheduler: `sessions[1]` and `sessions[2]` for the two child positions, each with
its list, the child it has and the node it is asking; `MergePreferringNewer`, `SplitRight`,
`Subtree` and `CleanUpStatuses` are the operations on lists. A child that joins is handed the part of
the list below it (`SCHED_INITIALIZE_CHILD`), and returns it with itself when it is suspended
(`SCHED_RETURN_NODES`). `JobDatabase` creates, suspends and erases schedulers, and `Handlers` has
the handlers. A position of the tree thus exists twice, as a link between job nodes and as a
session with a list, and the two are updated by different messages.

A suspended node whose position is wanted *waits*: it takes no other job until it is called
back, or released by the node that was found in its place. `IsWaiting` is that state, and the
invariants at rest are about it: nobody waits whom nobody will call.

### Message queue

`MessageQueue` has a handle per message that is being sent, the packets MPI has taken over
(external: a packet to be received exists once its send was issued, and packets of one pair of
ranks arrive in order), the fragments a receiver has collected, and the two threads that assemble messages
and free memory. A message's data is a sequence of positions, of which a fragment takes a
slice, so that loss and repetition of parts can be seen. The number of fragments is
computed as the code does, in floating point (`FloatOf`, with a significand of `FloatBits`
digits). `Channels` is what the users rely on, and `ImplementsChannels` is the refinement: a
message is in its channel from `Send` until its callback has been called. The channels `net`
and `bulk` of `Worker` are of this kind.

### Solver process

`SolverProcess` is one node of a job in a worker (`job`: `ForkedSatJob`, `adapter`:
`HordeProcessAdapter`), its child (`proc`: `HordeProcess`) and the block of flags and buffers
they share (`hsm`). A request is a pair of flags: `do` is written by the parent, `did` by the
child. Threads: the worker's main thread (`ApplSolved`, `CheckSolution` and the calls of worker
and clause communicator), the background tasks (`DoInitialize`, `WriteBlocks` ... `EndWriter`,
`DoPrepareSolution`, `ChildExited` and `FreeSharedMemory`), the child's loop (`Child`, one step
for each block of the loop) and its solver threads (`FindResult`).

Step size. `check()` reads and writes flags of several requests. Its accesses up to the test
of `hasSolution` are one step, because each request is handled at one place and a child's step
between two of them has the same effect before or after `check()`. The test of `hasSolution`
and that of `solutionRevision` are two steps. The child reads and writes buffers in steps of
their own (`busy`). It writes a solution in up to six: number and result, the block of the size,
the size, the block of the vector, the vector, and the flag `hasSolution` (`Stages`, `Written`,
`Solve`); a revision outside the constant `Satisfiable` has no vector and skips its block. The result
shares a step with the number because nobody reads it before there is a size.
`DoPrepareSolution` is one step: it reads size, vector and result of one revision, which only go
forward through these stages, so that with the child working in between its outcome is that of an
earlier or a later start. A block that is not there is a null pointer (`main = "fault"`); a size that is
still zero gives an empty vector and a block that is not filled a wrong one (`vector = None`). The
order of the stores in the source is kept, as the x86 build does.

A node may start with any of its revisions and lack some it wants (`handleAnswerAdoptionOffer`
executes a job whose later revisions are still to come); each time it is adopted again it may
want a higher one. That it never wants a lower one is assumed. `Crash` is any death by a signal,
including the one the process raises to be restarted (`HordeLib::appendRevision`). `given` and
`digested` are history: the buffers accepted by the adapter and read by the child; so is `early`:
the solution was not announced (any more) when its preparation began.

## 3. Runs

| Run | Instance | States | Question |
|---|---|---|---|
| `balancer_tree4` | 4 ranks, 1 job, 3 job epochs | 236,509 | Do the ranks behave like one log? Is any event lost, ambiguous, or revived? |
| `balancer_two_jobs` | 3 ranks, 2 jobs, 1 job epoch | 49,665 | Events of two jobs in one batch; roots that compete for a rank; a root is placed only after a PE is reserved; every root request is released and every terminated job forgotten by all |
| `volumes` | 3 jobs, demands {0,1,2,3,7}, priorities {1,2,5}, 2 to 8 workers | all inputs | The calculator's guarantees and its termination |
| `worker_results` | 2 workers, 1 job, 2 results, 1 interrupt or timeout, `-rs=0` | 33,042 | Reported once, cleaned up, and reported at last |
| `worker_two_jobs` | 2 workers, 2 jobs, 4 epochs, `-rs=0` | 431,496 | Assertions, one job per worker, links, no open position; a new root may displace a leaf of another job, never a root |
| `worker_incremental` | 2 workers, 1 incremental job, 2 revisions, `-rs=0` | 376,220 | Assertions, a unique root that stays until the job is declared done |
| `worker_reactivation` | 4 workers, 1 job, 4 epochs, spaced, `-rs=1` | 226,157 | Do schedulers and job nodes agree? Is every suspended node remembered and none left waiting, every position filled? |
| `worker_late` | 3 workers, 1 job of two nodes, 4 epochs, `-rs=1` | 202,655 | With balancing results that overtake the messages of earlier ones: do the assertions about a worker's database hold, is a commitment or a scheduler left behind? |
| `worker_root_resumed` | as `worker_incremental`, `-rs=1` | | *violation*, finding 1 |
| `solver_process` | 3 revisions, two of them satisfiable, 1 crash, no clause buffers | 612,412 | Revisions, solutions that are read while they are written, suspension, crash and cleaning up; every job is solved or freed |
| `solver_buffers` | 2 revisions, one of them satisfiable, 2 clause buffers | 2,151,143 | Clause buffers: never used by both sides, never digested twice |
| `message_queue` | 2 ranks, messages of one piece and of two fragments, 2 send slots | 150,812 | Do the queues implement the channels the workers assume, and is every message delivered at last? |

Bounds and why they are enough:

* Four ranks give a reduction tree of depth two with an inner node (rank 2) that is neither
  root nor leaf, so batches are merged, delayed and forwarded there. Three job epochs are
  commit, execution and suspension or a demand change; the job can resume and terminate.
  The theorems below lift the invariants of both balancer runs to every size.
* Two jobs on three ranks let one batch carry events of different jobs from different
  children, and let a callback concern a job that is not in the batch. One job epoch leaves
  out demand changes and suspension, which `balancer_tree4` has.
* A job has its root in the first epoch only; four epochs allow it to grow, to shrink and to
  grow again, which every stale message and every node that is called back needs. Two workers
  and two jobs let the roots compete and displace leaves. Four workers and one job make a root
  with two children and a grandchild, so that lists of inactive nodes are split, handed down
  two levels and returned. Three workers and a job of two nodes leave a worker idle that a
  request can find instead of the one that waits.
* `Spaced` (only in `worker_reactivation`) lets a balancing result come when the messages of the
  one before have arrived. It is an assumption on the environment, not a guarantee of the code: ranks
  collect events for 10 ms (`handleData`), and most messages take much less. It excludes every message of
  an earlier epoch, and the four properties of the run are about what happens within one. Without it
  all four fail (section 4); what holds of late messages is what `worker_late` checks.
* One interrupt or timeout and one or two results are all that can race for a job: the
  second interrupt meets a job that is ended or ending.
* Three revisions make the child go through the handshake for revisions twice, so that one
  request meets the answer to the previous one; two clause buffers do the same for clauses.
  After a second crash the state is that of a start, only later. The theorems below hold for
  any number of revisions, buffers and crashes.
* Two send slots and up to four messages keep one message waiting while others are sent in
  turns; a large message can be cancelled between any two fragments, and overtaken.
* `JobCacheSize` = 1 makes `forgetOldJobs` remove jobs.

Deadlock is not checked: a system whose jobs are finished, or whose bounds are used up, stops.

**Fairness.** `EventDrivenBalancer!FairSpec` has weak fairness of `Balance`: some balancer
that has something to do, does it. Every rank runs `Worker::advance` in a loop, which polls
messages and calls the balancer's `advance`; no order or share among ranks is assumed.
`Worker!FairSpec` has weak fairness of `Progress`: the ranks keep polling, messages arrive,
the balancer works off its events and a solver comes to an end. Timeouts, interrupts,
cancellation and `forgetOldJobs` are not fair. A hop that
leaves a request as it was changes no variable and does not count as progress. The fairness
therefore contains one assumption on routes: when nothing else can happen any more, a
hopping request at last reaches a worker that can act on it. Hops go to random neighbours
(`bounceJobRequest`), so this holds with probability one, and it is asked for only while
the rest of the system waits.

`SolverProcess!FairSpec` has weak fairness of the main thread's polling of an active job, of the
child while it is not stopped, of its solvers, of the writer, and of the other background tasks
together. Pool threads run each task they are given; the tasks other than the writer are
finitely many. Suspension, resumption, termination and arrival of revisions are not fair.

`MessageQueue!FairSpec` has weak fairness of `Progress`: MPI finishes what was started, every rank
calls `advance` again and again, and the assembling and collecting threads run; no order or share
among ranks and threads is assumed. Sending and cancelling are not fair.

## 4. What the checks found

One finding is a run that is expected to end with a violation; `PROJECT.json` quotes the comment
the code disagrees with.

1. **The root of an incremental job is never resumed** (`job_database.cpp`, `tryAdopt`; default
   `-rs=1`). A position whose scheduler `!canCommit()` is refused. `canCommit` is `_suspended`,
   which is set when a node returns its inactive nodes to its parent, and a root has no parent.
   The dormant root's worker refuses the request for the next revision, keeps it as pending,
   and tries it in vain whenever it is idle, while the user waits. `worker_root_resumed` reaches this
   in a few steps; with `-rs=0`, `PendingRootServed` holds on the states of `worker_incremental`.

More properties do not hold. They can be reproduced by adding them to the instance named, and are
kept as definitions in the modules.

* `HighestDemandFirst` on `volumes` with four jobs: a settled job is swapped to the front without
  its `originalDemand` (`balancing_entry.hpp:54`, "Copy ALL fields"), by which the base case sorts the
  remaining jobs. The last workers do not always go to the "Highest demand first"
  (`volume_calculator.hpp:99`). The other guarantees of the calculator hold nevertheless.
* `BuffersKept` on `solver_buffers`: a clause buffer handed over between the parent's reset of
  `doImport` and the child's reset of `didImport` is not deferred but written, and never read
  (`digestClauses` and `returnClauses` test one flag, `check` tests both).
* `Exclusive` on three workers with `-rs=0`: a description sent for an earlier commitment starts a
  node that has committed to the position again and whose new offer is rejected afterwards. The
  rejection no longer finds a commitment, and two workers compute for one position.
* `QueueAssertions` on `message_queue` with `FloatBits = 2`, `Sizes = {9}`, `MaxMsgSize = 2`,
  `MaxData = 9`: the number of fragments is rounded down and the end of the message is not sent.
  With the 24 digits of a float this takes a message of more than 2^24 bytes, more exactly one
  whose quotient by the fragment size is not representable and rounds down to an integer.

On `worker_late`, with balancing results that overtake the messages of earlier ones (`-rs=1`):

* `AssertionsHold` fails, by one assertion of the local scheduler; the others hold
  (`LocalAssertionsHold`). `SCHED_INITIALIZE_CHILD` of an earlier epoch reaches a scheduler
  that was made for a later commitment, opens it, and the message meant for it finds its sessions open
  (`local_scheduler.hpp:98`). The branch for a "Past update" (line 84) compares epochs of the same
  scheduler only.
* `Filled` and `NoWaiterLeft` fail: a request from the future is judged by the receiver's present
  volume (`isRequestObsolete`, `worker.cpp:591`) before the test that would defer it (line 605).
  The call is lost, the caller is not told, and the called node waits.
* `Exclusive`, `LinksReciprocated`, `SchedulersLinked` and `SuspendedRemembered` fail with late messages; returned
  nodes are credited to the session that has the sender as its child *now*.

With five epochs one more thing shows: a node that waits for its reactivation and whose position
is wanted once more "will KEEP waiting" (`worker.cpp:1136`), but `updateVolume` has called
`stopWaitingForReactivation(balancingEpoch-1)` before, and the node has stopped waiting.

Outside the model: `forgetOldJobs` uses the key of a scheduler after erasing it
(`job_database.cpp:443`), so the count of a job's schedulers is not decremented; `EraseSchedulers`
leaves the count as it is. A pending request for a root that outlives its job would fail the
assertion of `beginResumptionAsRoot`.

On `solver_process`, `PreparedExists` fails: the main thread reads `hasSolution` of the previous
revision; before it reads `solutionRevision` the child imports and solves the next revision and
writes its number; the main thread then prepares a solution whose block is not there yet, and
`doPrepareSolution` follows a null pointer. `WholeVectors` fails in the same way: if the block of the
size is there but the size is not yet, or the block of the vector but not the vector, a satisfiable
revision is reported with an empty vector, or with one that is not filled. The window lies between two
adjacent loads. It is the only one: `AnnouncedIsThere` and `ResultOfItsRevision` except preparations
that were begun in it (`early`), and hold. `ObligationsMet` excepts a worker that has met the fault.

On `worker_incremental` (all of these hold for jobs that are not incremental):

* `LinksReciprocated` fails: answers to offers carry no identity of the offer. A late rejection
  cancels the next commitment to the same position, which the parent then accepts: a child
  that never starts.
* `ClientOk` fails in two ways. A job that its user declares done before its root is placed is
  dereferenced when the offer arrives (`Client::handleOfferAdoption`). A root that has committed to its next revision is still suspended,
  counts as a dormant root (`updateVolume`, `hasDormantRoot`), and leaves its own job. The client
  receives a message it has no callback for.
* `Filled` fails: a node left from the previous revision, whose interruption is on its way,
  discards the new request for its own index as completed (`isRequestObsolete`).
* A revision can be reported twice (`reports[j][0] = 2`) with `MaxInterrupts = 1` and
  `MaxRevision = 0`: a suspended root accepts a result that was on its way when the iteration
  was aborted.
* `NoCommitmentLeft` fails with `MaxInterrupts = 1`, `MaxResults = 0`: an iteration aborted
  before its description arrives leaves an inactive root that is forgotten; the description
  of the next revision is refused and its worker stays committed.

## 5. What is proved

For every value of the constants: every safety invariant and the refinement that the balancer runs
check; every safety invariant that the solver runs check; and of the workers what can be said of one
database at a time, including what happens to roots.

### Agreement of the ranks (`EventDrivenBalancerProofs`)

| Theorem | Statement |
|---|---|
| `TypeCorrect` | `Spec => [](TypeOK /\ RootKnown)`: types, and the assertions of `onDemandChange` and `onSuspend` |
| `ReplicasFollow` | `Spec => []ReplicasFollowLog`: the inductive invariant |
| `RanksAgree` | `Spec => []Agreement`: ranks with equal epochs have equal events and volumes |
| `BalancerImplementsLog` | `Spec => ImplementsLog`: the tree of balancers implements `BalancingLog` |

Assumptions. `BalancerAssumption`: there is a rank, and a job's epochs stay below `INT_MAX`.
`TreeAssumption`: parents and children match, a parent's rank is smaller than its child's,
odd ranks have no children; it is what the constructor builds, and TLC evaluates it on
`BalancerTree` for the instances. `VolumesAssumption`: volumes are natural numbers.
`EventMapAssumption`: constants have their types.

Argument. `Agreement` is not inductive: it says nothing of what is in transit, and nothing of
ranks at different epochs. `ReplicasFollowLog` relates each rank to the history. A rank whose
balancing epoch is *n* has the events and volumes that rank 0 had after its *n*-th batch. The
broadcasts on the way to a rank are exactly the batches that its parent has digested and it
has not, in order, and nothing is on the way to rank 0. Every step of the system is then one of three
(`StepShape`): rank 0 extends the log (`LeadKeeps`), another rank digests the head of its
channel, which is the next entry of the log, and forwards it (`FollowKeeps`), or the replicas
do not change. `RootKnown` is needed for types, because the epoch of an event a root sends
must exist. The same three shapes are the steps `Lead` and `Follow` of `BalancingLog` and its
stuttering, which is the refinement.

### The way of an event (`EventOrder`, `EventOrderProofs`)

| Theorem | Statement |
|---|---|
| `EventsStayInOrder` | `Spec => []EventsInOrder`: the inductive invariant |
| `EventIdentityTheorem` | `Spec => []EventIdentity`: an epoch identifies its event; `filterBy` never aborts |
| `NewestEventSurvivesTheorem` | `Spec => []NewestEventSurvives`: the newest event of a job is never dropped |
| `NoResurrectionTheorem` | `Spec => []NoResurrection`: a terminated job does not come back |
| `PlacedOnlyAfterReservedTheorem` | `Spec => []PlacedOnlyAfterReserved`: no root is placed before rank 0 balances with it |

The assumptions are those above.

Argument. None of the four properties is inductive, because a merge at an inner rank
(`updateBy`, which prefers the higher epoch) is harmless only if the older event was ahead of the
newer one. `EventsInOrder` says where the events of a job may be. Every event of a job comes from
one rank, that of its root node, or of the probe before there is one; all events on their way are on
the path from there to rank 0 (`Path`, the smallest set with the rank that is closed under parents),
in sent messages or in the diffs behind them, with increasing epochs from rank 0 outwards
(`OrderedFrom`). They are newer than everything in the log, and the newest event there is, is on its
way or logged (`Flows`). The log itself has the events of a job in order and rank 0 balances with the
last of them, or with none after a termination event (`LogInOrder`). There is one lemma for
each thing that can happen to the events of a job: a new event is put into the diffs of its home
(`InsertFlows`), diffs become a message (`SendFlows`), a parent takes over a message of its child
(`MergeFlows`, `TakenOver`), rank 0 puts its diffs into the log (`LeadFlows`, `LogLead`), and the
filter after a broadcast removes what the log already has. `EventOrderProofs` shows that every
action is a composition of these.

A path is unbounded in the theorems, which is where an instance with a tree of depth two leaves a
doubt: two places on a path between which there are many ranks.

### Workers and client (`DatabaseInvariant`, `JobDatabaseProofs`, `HandlerProofs`, `SystemProofs`, `WorkerProofs`)

| Theorem | Statement |
|---|---|
| `Invariance` | `Spec => []Inv`: the inductive invariant |
| `TypesKept` | `Spec => []TypeOK`: databases, channels, client and log keep their types |
| `OneJobAtATime` | `Spec => []OneJobPerWorker`: a worker computes for one job, or is committed to one, or neither, and the flags say so |
| `LocalAssertions` | `Spec => []LocalAssertionsHold`: besides, the assertions about one database hold, in `setLoad`, `commit`, `uncommit`, `start`, `suspend`, `reactivate`, `tryAdoptRequest`, `onDemandChange` and `onSuspend` |
| `BalancerInStep` | `Spec => []BalancerAgrees`: the balancer's active job is the one the database is committed to or computes for; a suspended root has its worker for itself |
| `RootEnds` | `Spec => RootEndsWithJob`: the active root of a job that is not incremental ends with its job |
| `RootStays` | `Spec => RootKept`: the started root of an incremental job stays until the job is declared done |

Assumptions. `DatabaseAssumption`: the workers are finitely many, rank 0 is one and the client is
none, every job has a permutation of the workers and a positive demand, and `None` is neither a rank nor a job.
`NoneAssumption`: `None` is no session, request or job node. Nothing is assumed of the other ranks or of the
network but what `Worker` says: every order of arrival, hop, overtaking and cancellation is covered, with
`-rs=0` and `-rs=1` alike.

Argument. `OneJobPerWorker` and the assertions are not inductive. `commit` asserts that there is no
commitment and no load; whether that holds is decided by `tryAdopt`, from flags, from the balancer's
view and from the state of another job's node. `Coherent` says that these agree. `OneJob`: flags and nodes
agree. `RolesKept`: a node has an index, and a commitment is to that index of its job. `BalancerKnows`: the
balancer's active job is the member's job, and it knows the root if that is here, which is what the
assertions in `onDemandChange` and `onSuspend` need. `DormantAlone`: with a suspended root there is no load
and no commitment but to that root, so that a resumed root never meets another job. `Types` says in addition that a
scheduler that is not suspended has both sessions, without which the messages it sends have no type.

An operation is *minor* if coherence does not depend on what it writes (`Minor`: most of the operations on
children, requests, schedulers and messages), a *step* if it keeps coherence, types and roots (`Step`), and a
handler is `Handled` if it does the same but for the roots of jobs that may end. These compose
(`MinorTrans`, `MinorStep`, `StepTrans`, `StepHandled`), so that there is one lemma for each operation and each
handler, and its proof follows the order of the calls. `KeepsRoot`, in each of them, says that an active
root stays active and a started root of an incremental job stays started; the two action properties follow from it
(`RootsKept`), together with the type of `TERMINATING`: for an incremental job such a message exists only
after its user has declared it done. `Inv` adds that a job active at the client was introduced.
`Coherent` was checked by TLC on the worker instances before it was proved.

### The solver process (`SolverProcessInvariant`, `SolverProcessSteps`, `SolverProcessProofs`)

| Theorem | Statement |
|---|---|
| `Invariance` | `Spec => [](IInv /\ Announced)`: the inductive invariant |
| `NoSilentExitTheorem` | `Spec => []NoSilentExit`: the child never exits unasked |
| `ResultOfItsRevisionTheorem` | `Spec => []ResultOfItsRevision`: results belong to the revision they are reported for, once and in order; vectors are complete, but for the window of section 4 |
| `AnnouncedIsThereTheorem` | `Spec => []AnnouncedIsThere`: the blocks that a preparation reads are there, but for the same window |
| `StoppedIffSuspendedTheorem` | `Spec => []StoppedIffSuspended`: a live child is stopped exactly while its job is suspended |
| `FreedUnusedTheorem` | `Spec => []FreedUnused`: freed shared memory has no user |
| `BufferExclusionTheorem` | `Spec => []BufferExclusion`: a buffer is never used from both sides |
| `DigestedOnceTheorem` | `Spec => []DigestedOnce`: no buffer is digested twice |

The only assumption is `ProcessAssumption`: the bounds on revisions, buffers and crashes are natural
numbers, and `Satisfiable` is a set of revisions.

Argument. The properties speak of the end of a chain of hand-overs, and each link depends on the one
before. `IInv` has a part for each chain. `Pipeline` follows a revision from the description through
the writer's queue, its blocks, its publication and its import: the queue is exactly the interval
between the revision written last and the one forwarded last, and the child lags behind what is
published by the one revision whose request is open. `Solution` follows a solution back: what is
prepared for the desired revision has that revision's result, although a later revision may overwrite
it, and its vector unless the preparation was early. `Announced` is why: whenever `hasSolution` is set,
the solution of `solutionRevision` is whole, the stages never go back while the shared memory exists, and
a preparation that is not early was begun under the flag. `Reports` bounds what was reported by what was
forwarded, which needs the main thread's position inside `check()`. `BuffersOf` says of each direction of the
clause exchange which buffers may still be read; `Lifecycle` says who is alive, stopped, or still uses the
shared memory. `IInv /\ Announced` was checked by TLC on both solver instances before it was proved.

### What is only model-checked, and why

* Liveness (`RootRequestActivated`, `TerminatedForgotten`, `Terminates`, `EventuallyReported`,
  `ObligationsMet`, `EventuallyDrained`): the prover does not handle fairness.
* The volume calculator (`CacheFresh`, `FullyDistributed`, `FollowsPriorities`): sums over all entries
  and the existence of a sorted order are facts by induction over sequences.
* The message queue (`QueueAssertions`, `ImplementsChannels`): the fragments of a message are put
  together by a fold, and the number of fragments is computed in floating point; what both compute
  needs induction over data.
* The rest of `AssertionsHold`: the assertions in `LocalScheduler`, `sendJobRequest`,
  `setPendingRootReactivationRequest` and `handleQueryJobResult` depend on which messages other ranks
  can still have on their way, not on one database. That of the local scheduler does fail when
  balancing results overtake messages (section 4).
* `OneRoot`, `ClientOk`, `NothingLeftBehind` and the invariants at rest (`Filled`, `LinksReciprocated`,
  `NoWaiterLeft`, `SchedulersLinked`, `SuspendedRemembered`, `NoCommitmentLeft`,
  `SchedulersClosed`): they relate all databases, schedulers and channels, and several hold only under
  the bounds and assumptions of the runs (section 4).

## 6. What is left out

Left out of the modelled parts: latency statistics of the balancer; destruct queue and
janitor thread of the job database; CPU accounting; the list of dormant children;
the client's reader thread, dependencies between jobs and the limit on
loaded jobs; application messages; random delays (`-delaymonkey`) and the collective operations
of `mympi`.

Not modelled:

* *Collective assignment* (`-huca`) is a second way for a request to find a worker, chosen by
  idle counts along a tree. The worker model lets a request reach any worker at any time, which
  includes where the assignment would send it; the bookkeeping of counts is not checked.
* *Distributed breadth-first search* is off (`-hubfs` is unreachably high).
* The *job communicator* and the aggregation of *clauses* along the tree serve applications
  and do not act on the tree.
* The *client's reader thread*, *solver threads* and the *thread pool* are separate small
  concurrent programs. Hazards of the latter two are listed in `PROJECT.json` without a property.
* *Permutations* are arithmetic on doubles and 64-bit integers, tested by `test_permutation`.
* The adapters of SAT solvers, clause databases, parsing of formulae, files and sockets, logging,
  options and statistics are input and output or pure data structures without a protocol. Together
  with the third-party solvers they make up nearly all lines of the repository; the protocols
  modelled here are a small part of it.

Worth proving next: `OneRoot`, which needs an invariant about all requests, offers and commitments for
index 0 of a job at once.
