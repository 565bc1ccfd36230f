-------------------------- MODULE DatabaseInvariant --------------------------
(***************************************************************************)
(* What the database of a worker is worth: the relations between its       *)
(* fields on which the assertions of job_database.cpp, job.cpp and         *)
(* event_driven_balancer.cpp rest, and which operations respect them.      *)
(***************************************************************************)
EXTENDS JobDatabase

\* A scheduler that is not suspended has both its sessions, and only one that is not
\* suspended, of a root, is to be resumed.
Sound(sc) ==
    /\ IsScheduler(sc)
    /\ ~sc.suspended => sc.sessions \in [1..2 -> Sessions]
    /\ sc.resuming => sc.index = 0 /\ ~sc.suspended

Runs(d, j) == Has(d, j) /\ d.jobs[j].state = "ACTIVE"
IsMember(d, j) == Runs(d, j) \/ HasCommitment(d, j)

\* The worker computes for one job, is committed to one, or neither, and the flags say so.
OneJob(d) ==
    /\ \A j \in Jobs : d.load = j <=> Runs(d, j)
    /\ d.hasCommitment <=> \E j \in Jobs : HasCommitment(d, j)
    /\ \A i, j \in Jobs : HasCommitment(d, i) /\ HasCommitment(d, j) => i = j
    /\ ~(d.load # None /\ d.hasCommitment)

\* A node has a role, and a commitment is to that role.
RolesKept(d) ==
    \A j \in Jobs :
        /\ Has(d, j) => d.jobs[j].index \in Nat
        /\ HasCommitment(d, j) =>
              d.jobs[j].commitment.job = j /\ d.jobs[j].commitment.index = d.jobs[j].index

\* The balancer knows the job, and knows that its root is here.
BalancerKnows(d) ==
    /\ \A j \in Jobs : d.active = j <=> IsMember(d, j)
    /\ \A j \in Jobs : IsMember(d, j) /\ d.jobs[j].index = 0 => j \in d.rooted

\* A dormant root keeps its worker from computing for or committing to another job.
DormantAlone(d) ==
    \A j \in Jobs : IsDormantRoot(d.jobs[j]) =>
        /\ d.load = None
        /\ \A i \in Jobs : HasCommitment(d, i) \/ IsDormantRoot(d.jobs[i]) => i = j

Coherent(d) ==
    OneJob(d) /\ RolesKept(d) /\ BalancerKnows(d) /\ DormantAlone(d) /\ d.failed \cap Watched = {}

\* The types of a database and of its schedulers, which have sent what they had to send
Types(d, E) ==
    /\ IsDatabase(d, E)
    /\ \A k \in DOMAIN d.schedulers : Sound(d.schedulers[k]) /\ d.schedulers[k].out = NothingSent

\* What coherence depends on is the same.
SameStanding(m, n) ==
    /\ m = None <=> n = None
    /\ m # None => n.state = m.state /\ n.index = m.index /\ n.commitment = m.commitment
SameCore(d, e) ==
    /\ e.rank = d.rank /\ e.epoch = d.epoch
    /\ e.load = d.load /\ e.hasCommitment = d.hasCommitment
    /\ e.active = d.active /\ e.rooted = d.rooted /\ e.failed \cap Watched = d.failed \cap Watched
    /\ \A j \in Jobs : SameStanding(d.jobs[j], e.jobs[j])

Minor(d, e, E) == Types(e, E) /\ SameCore(d, e)

\* No root is lost: an active one of a job that is not incremental stays active, a started
\* one of an incremental job stays started.
ActiveRoot(d, j) == Runs(d, j) /\ d.jobs[j].index = 0
StartedRoot(d, j) == Has(d, j) /\ d.jobs[j].index = 0 /\ d.jobs[j].state # "INACTIVE"
KeepsRoot(d, e, j) ==
    IF j \in Incremental THEN StartedRoot(d, j) => StartedRoot(e, j)
    ELSE ActiveRoot(d, j) => ActiveRoot(e, j)
Keeps(d, e) == e.rank = d.rank /\ e.epoch = d.epoch /\ \A j \in Jobs : KeepsRoot(d, e, j)

Good(d, E) == Types(d, E) /\ Coherent(d)
Step(d, e, E) == Good(e, E) /\ Keeps(d, e)

\* A step after which a job that may be terminated may be gone
MayEnd(E) == (Jobs \ Incremental) \cup E
Handled(d, e, E) ==
    /\ Good(e, E) /\ e.rank = d.rank /\ e.epoch = d.epoch
    /\ \A j \in Jobs : KeepsRoot(d, e, j) \/ (j \in MayEnd(E) /\ ~Has(e, j))
=============================================================================
