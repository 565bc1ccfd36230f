------------------------- MODULE JobDatabaseProofs --------------------------
(***************************************************************************)
(* What the operations on a worker's database preserve: its types, and its *)
(* coherence (DatabaseInvariant). First the ranks of nodes, the fields of  *)
(* messages and the steps that coherence does not depend on; then the      *)
(* operations on a local scheduler (scheduling/*.hpp), which keep its      *)
(* types, its sessions while it is not suspended, and whose scheduler it   *)
(* is; then those on the database. The handlers are in HandlerProofs.      *)
(***************************************************************************)
EXTENDS DatabaseInvariant, FiniteSetTheorems, TLAPS

-----------------------------------------------------------------------------
(***************************************************************************)
(* Ranks, messages and minor operations on a database.                     *)
(***************************************************************************)
\* The permutation of a job gives every index to a worker (AdjustablePermutation::get).
LEMMA NodeRankIsWorker ==
    ASSUME NEW j \in Jobs, NEW i \in Int
    PROVE  NodeRank(j, i) \in Workers
<1>1. Cardinality(Workers) \in Nat /\ Cardinality(Workers) # 0
  BY DatabaseAssumption, FS_CardinalityType, FS_EmptySet, Zenon
<1>2. i % Cardinality(Workers) \in 0..(Cardinality(Workers) - 1)
  BY <1>1
<1> QED
  BY <1>2, DatabaseAssumption, Zenon DEF NodeRank

\* What the messages carry
LEMMA MessageFields ==
    ASSUME NEW E, NEW m \in Messages(E)
    PROVE  /\ m.tag \in {"REQUEST_NODE", "OFFER_ADOPTION", "OFFER_OF_ROOT", "REJECT_ONESHOT"} => m.req \in Requests
           /\ m.tag = "REJECT_ONESHOT" => m.dormant \in BOOLEAN
           /\ m.tag = "ANSWER_OFFER" => m.job \in Jobs
           /\ m.tag = "NODE_LEAVING" => m.job \in Jobs /\ m.root \in Workers \cup {None}
           /\ m.tag \in {"QUERY_DESCRIPTION", "RESULT_FOUND", "RESULT_OBSOLETE", "QUERY_RESULT", "JOB_RESULT"} =>
                 m.job \in Jobs /\ m.rev \in Nat
           /\ m.tag = "JOB_DONE" => m.job \in Jobs /\ m.rev \in Nat /\ m.rank \in Ranks
           /\ m.tag \in {"ABORTING", "CLIENT_ABORTING"} => m.job \in Jobs
           /\ m.tag = "INTERRUPT" => m.job \in Incremental
           /\ m.tag = "TERMINATING" => m.job \in (Jobs \ Incremental) \cup E
           /\ m.tag = "RELEASE" => m.job \in Jobs /\ m.index \in Nat /\ m.epoch \in Int
           /\ m.tag = "INITIALIZE_CHILD" => /\ m.job \in Jobs /\ m.index \in Nat /\ m.nodes \in SUBSET InactiveNodes
                                            /\ m.epoch \in Int /\ m.volume \in Int
           /\ m.tag = "RETURN_NODES" => m.nodes \in SUBSET InactiveNodes
<1> DEFINE A == [tag : {"REQUEST_NODE", "OFFER_ADOPTION", "OFFER_OF_ROOT"}, req : Requests]
           B == [tag : {"REJECT_ONESHOT"}, req : Requests, dormant : BOOLEAN]
           C == [tag : {"ANSWER_OFFER"}, job : Jobs, index : Nat, accepted : BOOLEAN]
           D == [tag : {"NODE_LEAVING"}, job : Jobs, index : Int, root : Workers \cup {None}]
           F == [tag : {"QUERY_DESCRIPTION", "RESULT_FOUND", "RESULT_OBSOLETE", "QUERY_RESULT", "JOB_RESULT"},
                 job : Jobs, rev : Nat]
           G == [tag : {"JOB_DONE"}, job : Jobs, rev : Nat, rank : Ranks]
           H == [tag : {"ABORTING", "CLIENT_ABORTING"}, job : Jobs]
           I == [tag : {"INTERRUPT"}, job : Incremental]
           J == [tag : {"TERMINATING"}, job : (Jobs \ Incremental) \cup E]
           K == [tag : {"NODE_FREED"}, job : Jobs, rank : Workers, index : Nat, epoch : Int]
<1>1. m \in A \/ m \in B \/ m \in C \/ m \in D \/ m \in F \/ m \in G \/ m \in H \/ m \in I \/ m \in J
      \/ m \in K \/ m \in SchedulerMessages
  BY Zenon DEF Messages
<1>2. m \in A => m.tag \in {"REQUEST_NODE", "OFFER_ADOPTION", "OFFER_OF_ROOT"} /\ m.req \in Requests
  BY Zenon
<1>3. m \in B => m.tag = "REJECT_ONESHOT" /\ m.req \in Requests /\ m.dormant \in BOOLEAN
  BY Zenon
<1>4. m \in C => m.tag = "ANSWER_OFFER" /\ m.job \in Jobs
  BY Zenon
<1>5. m \in D => m.tag = "NODE_LEAVING" /\ m.job \in Jobs /\ m.root \in Workers \cup {None}
  BY Zenon
<1>6. m \in F => /\ m.tag \in {"QUERY_DESCRIPTION", "RESULT_FOUND", "RESULT_OBSOLETE", "QUERY_RESULT", "JOB_RESULT"}
                 /\ m.job \in Jobs /\ m.rev \in Nat
  BY Zenon
<1>7. m \in G => m.tag = "JOB_DONE" /\ m.job \in Jobs /\ m.rev \in Nat /\ m.rank \in Ranks
  BY Zenon
<1>8. m \in H => m.tag \in {"ABORTING", "CLIENT_ABORTING"} /\ m.job \in Jobs
  BY Zenon
<1>9. m \in I => m.tag = "INTERRUPT" /\ m.job \in Incremental
  BY Zenon
<1>10. m \in J => m.tag = "TERMINATING" /\ m.job \in (Jobs \ Incremental) \cup E
  BY Zenon
<1>11. m \in K => m.tag = "NODE_FREED"
  BY Zenon
<1>12. m \in SchedulerMessages =>
          \/ m.tag = "EMIT_REQUEST"
          \/ m.tag = "RELEASE" /\ m.job \in Jobs /\ m.index \in Nat /\ m.epoch \in Int
          \/ /\ m.tag = "INITIALIZE_CHILD" /\ m.job \in Jobs /\ m.index \in Nat
             /\ m.nodes \in SUBSET InactiveNodes /\ m.epoch \in Int /\ m.volume \in Int
          \/ m.tag = "RETURN_NODES" /\ m.nodes \in SUBSET InactiveNodes
  BY Zenon DEF SchedulerMessages
<1> HIDE DEF A, B, C, D, F, G, H, I, J, K
<1> QED
  BY <1>1, <1>2, <1>3, <1>4, <1>5, <1>6, <1>7, <1>8, <1>9, <1>10, <1>11, <1>12, Zenon

\* Minor operations follow each other.
LEMMA MinorTrans ==
    ASSUME NEW d, NEW e, NEW f, NEW E, Minor(d, e, E), Minor(e, f, E)
    PROVE  Minor(d, f, E)
BY DEF Minor, SameCore, SameStanding

\* Doing nothing is minor.
LEMMA MinorSelf ==
    ASSUME NEW d, NEW E, Types(d, E)
    PROVE  Minor(d, d, E)
BY Zenon DEF Minor, SameCore, SameStanding

\* Coherence depends on the core of a database alone.
LEMMA SameCoreCoherent ==
    ASSUME NEW d, NEW e, Coherent(d), SameCore(d, e)
    PROVE  Coherent(e) /\ Keeps(d, e)
<1>1. \A j \in Jobs : /\ Has(e, j) <=> Has(d, j)
                      /\ Has(d, j) => /\ e.jobs[j].state = d.jobs[j].state
                                      /\ e.jobs[j].index = d.jobs[j].index
                                      /\ e.jobs[j].commitment = d.jobs[j].commitment
  BY Zenon DEF SameCore, SameStanding, Has
<1>2. \A j \in Jobs : /\ Runs(e, j) <=> Runs(d, j)
                      /\ HasCommitment(e, j) <=> HasCommitment(d, j)
                      /\ IsMember(e, j) <=> IsMember(d, j)
                      /\ IsDormantRoot(e.jobs[j]) <=> IsDormantRoot(d.jobs[j])
  BY <1>1, Zenon DEF Runs, HasCommitment, IsMember, IsDormantRoot, IsDormant, Has
<1>3. OneJob(e)
  BY <1>2, Zenon DEF OneJob, Coherent, SameCore
<1>4. RolesKept(e)
  BY <1>1, <1>2, Zenon DEF RolesKept, Coherent, HasCommitment
<1>5. BalancerKnows(e)
  <2>1. \A j \in Jobs : e.active = j <=> IsMember(e, j)
    BY <1>2, Zenon DEF BalancerKnows, Coherent, SameCore
  <2>2. ASSUME NEW j \in Jobs, IsMember(e, j), e.jobs[j].index = 0 PROVE j \in e.rooted
    BY <1>1, <1>2, <2>2, Zenon DEF BalancerKnows, Coherent, SameCore, IsMember, Runs, HasCommitment
  <2> QED
    BY <2>1, <2>2, Zenon DEF BalancerKnows
<1>6. DormantAlone(e)
  BY <1>2, Zenon DEF DormantAlone, Coherent, SameCore
<1>7. Keeps(d, e)
  BY <1>1, <1>2, Zenon DEF Keeps, KeepsRoot, ActiveRoot, StartedRoot, Runs, SameCore
<1> QED
  BY <1>3, <1>4, <1>5, <1>6, <1>7, Zenon DEF Coherent, SameCore

\* A minor operation on a good database is a step.
LEMMA MinorStep ==
    ASSUME NEW d, NEW e, NEW E, Good(d, E), Minor(d, e, E)
    PROVE  Step(d, e, E)
BY SameCoreCoherent, Zenon DEF Good, Minor, Step

\* Steps follow each other.
LEMMA StepTrans ==
    ASSUME NEW d, NEW e, NEW f, NEW E, Step(d, e, E), Step(e, f, E)
    PROVE  Step(d, f, E)
BY Zenon DEF Step, Keeps, KeepsRoot

\* Every step is such a step, also after another.
LEMMA StepHandled ==
    ASSUME NEW d, NEW e, NEW E, Step(d, e, E)
    PROVE  Handled(d, e, E) /\ \A f : Handled(e, f, E) => Handled(d, f, E)
<1>1. Handled(d, e, E)
  BY Zenon DEF Handled, Step, Keeps
<1>2. ASSUME NEW f, Handled(e, f, E) PROVE Handled(d, f, E)
  <2>1. \A j \in Jobs : KeepsRoot(e, f, j) => KeepsRoot(d, f, j)
    BY Zenon DEF Step, Keeps, KeepsRoot
  <2> QED
    BY <1>2, <2>1, Zenon DEF Handled, Step, Keeps
<1> QED
  BY <1>1, <1>2, Zenon

\* The fields that coherence does not depend on, and their types
SideFields(d, E) ==
    /\ d.pendingRoot \in Requests \cup {None} /\ d.rootRequests \subseteq Requests
    /\ d.numSchedulers \in [Jobs -> Int] /\ d.results \subseteq Jobs \X Nat
    /\ d.local \subseteq Jobs /\ d.todo \subseteq Jobs
    /\ d.out \in [Ranks -> Seq(Messages(E))] /\ d.bulk \in [Ranks -> Seq(Descriptions)]
    /\ DOMAIN d.hops \subseteq Requests /\ d.events \in [Jobs -> Seq(Nat)]

\* The other fields but for failed are the same.
SameMain(d, e) ==
    /\ DOMAIN e = DOMAIN d /\ e.rank = d.rank /\ e.jobs = d.jobs /\ e.load = d.load
    /\ e.hasCommitment = d.hasCommitment /\ e.future = d.future /\ e.schedulers = d.schedulers
    /\ e.active = d.active /\ e.rooted = d.rooted /\ e.epoch = d.epoch
    /\ e.arriving = d.arriving /\ e.volumes = d.volumes

\* Writing such fields is minor.
LEMMA SideStep ==
    ASSUME NEW d, NEW e, NEW E, Types(d, E), SameMain(d, e), SideFields(e, E),
           e.failed \cap Watched = d.failed \cap Watched
    PROVE  Minor(d, e, E)
<1>1. IsDatabase(e, E)
  BY Zenon DEF Types, IsDatabase, SameMain, SideFields
<1>2. Types(e, E)
  BY <1>1, Zenon DEF Types, SameMain
<1>3. SameCore(d, e)
  BY Zenon DEF SameCore, SameStanding, SameMain
<1> QED
  BY <1>2, <1>3, Zenon DEF Minor

\* Fields that coherence does not depend on
LEMMA FieldSteps ==
    ASSUME NEW d, NEW E, Types(d, E)
    PROVE  /\ \A o \in [Ranks -> Seq(Messages(E))] : Minor(d, [d EXCEPT !.out = o], E)
           /\ \A b \in [Ranks -> Seq(Descriptions)] : Minor(d, [d EXCEPT !.bulk = b], E)
           /\ \A h : DOMAIN h \subseteq Requests => Minor(d, [d EXCEPT !.hops = h], E)
           /\ \A v \in [Jobs -> Seq(Nat)] : Minor(d, [d EXCEPT !.events = v], E)
           /\ \A p \in Requests \cup {None} : Minor(d, [d EXCEPT !.pendingRoot = p], E)
           /\ \A r \in SUBSET Requests : Minor(d, [d EXCEPT !.rootRequests = r], E)
           /\ \A l \in SUBSET Jobs : Minor(d, [d EXCEPT !.local = l], E)
           /\ \A t \in SUBSET Jobs : Minor(d, [d EXCEPT !.todo = t], E)
           /\ \A r \in SUBSET (Jobs \X Nat) : Minor(d, [d EXCEPT !.results = r], E)
           /\ \A n \in [Jobs -> Int] : Minor(d, [d EXCEPT !.numSchedulers = n], E)
           /\ \A s : s \cap Watched = d.failed \cap Watched => Minor(d, [d EXCEPT !.failed = s], E)
<1>0. /\ SideFields(d, E)
      /\ DOMAIN d = {"rank", "jobs", "load", "hasCommitment", "pendingRoot", "rootRequests", "future",
                     "schedulers", "numSchedulers", "results", "active", "local", "rooted", "epoch",
                     "todo", "arriving", "volumes", "failed", "out", "bulk", "hops", "events"}
  BY Zenon DEF SideFields, Types, IsDatabase
<1>1. \A o \in [Ranks -> Seq(Messages(E))] : Minor(d, [d EXCEPT !.out = o], E)
  BY <1>0, SideStep, Zenon DEF SideFields, SameMain
<1>2. \A b \in [Ranks -> Seq(Descriptions)] : Minor(d, [d EXCEPT !.bulk = b], E)
  BY <1>0, SideStep, Zenon DEF SideFields, SameMain
<1>3. \A h : DOMAIN h \subseteq Requests => Minor(d, [d EXCEPT !.hops = h], E)
  BY <1>0, SideStep, Zenon DEF SideFields, SameMain
<1>4. \A v \in [Jobs -> Seq(Nat)] : Minor(d, [d EXCEPT !.events = v], E)
  BY <1>0, SideStep, Zenon DEF SideFields, SameMain
<1>5. \A p \in Requests \cup {None} : Minor(d, [d EXCEPT !.pendingRoot = p], E)
  BY <1>0, SideStep, Zenon DEF SideFields, SameMain
<1>6. \A r \in SUBSET Requests : Minor(d, [d EXCEPT !.rootRequests = r], E)
  BY <1>0, SideStep, Zenon DEF SideFields, SameMain
<1>7. \A l \in SUBSET Jobs : Minor(d, [d EXCEPT !.local = l], E)
  BY <1>0, SideStep, Zenon DEF SideFields, SameMain
<1>8. \A t \in SUBSET Jobs : Minor(d, [d EXCEPT !.todo = t], E)
  BY <1>0, SideStep, Zenon DEF SideFields, SameMain
<1>9. \A r \in SUBSET (Jobs \X Nat) : Minor(d, [d EXCEPT !.results = r], E)
  BY <1>0, SideStep, Zenon DEF SideFields, SameMain
<1>10. \A n \in [Jobs -> Int] : Minor(d, [d EXCEPT !.numSchedulers = n], E)
  BY <1>0, SideStep, Zenon DEF SideFields, SameMain
<1>11. \A s : s \cap Watched = d.failed \cap Watched => Minor(d, [d EXCEPT !.failed = s], E)
  BY <1>0, SideStep, Zenon DEF SideFields, SameMain
<1> QED
  BY <1>1, <1>2, <1>3, <1>4, <1>5, <1>6, <1>7, <1>8, <1>9, <1>10, <1>11, Zenon

-----------------------------------------------------------------------------
(***************************************************************************)
(* The operations on a local scheduler.                                    *)
(***************************************************************************)
\* An operation changes neither whose scheduler it is nor whether that is suspended.
SameRole(sc, tc) == tc.job = sc.job /\ tc.index = sc.index
SameMode(sc, tc) ==
    /\ SameRole(sc, tc) /\ tc.rank = sc.rank /\ tc.parent = sc.parent
    /\ tc.suspended = sc.suspended /\ tc.suspending = sc.suspending /\ tc.resuming = sc.resuming
    /\ tc.epoch = sc.epoch /\ tc.volume = sc.volume

\* An operation concerns session c alone.
SessionStep(sc, tc, c) ==
    /\ IsScheduler(tc) /\ SameMode(sc, tc) /\ tc.sessions[c] \in Sessions
    /\ \A b \in 1..2 : b # c => tc.sessions[b] = sc.sessions[b]

\* Appending to one of several sequences keeps their type.
LEMMA AppendAt ==
    ASSUME NEW S, NEW D, NEW f \in [D -> Seq(S)], NEW m \in S, NEW r
    PROVE  [f EXCEPT ![r] = Append(@, m)] \in [D -> Seq(S)]
<1>1. ASSUME NEW q \in D PROVE Append(f[q], m) \in Seq(S)
  OBVIOUS
<1> QED
  BY <1>1, Zenon

\* What a scheduler sends is part of no other field of it.
LEMMA SchedulerOut ==
    ASSUME NEW sc, IsScheduler(sc), NEW o \in [Ranks -> Seq(SchedulerMessages)]
    PROVE  LET tc == [sc EXCEPT !.out = o] IN
           IsScheduler(tc) /\ SameMode(sc, tc) /\ tc.sessions = sc.sessions /\ tc.out = o
BY Zenon DEF IsScheduler, SameRole, SameMode

\* A session is replaced by another one.
LEMMA SchedulerSession ==
    ASSUME NEW sc, IsScheduler(sc), NEW c \in 1..2, NEW s \in Sessions
    PROVE  LET tc == [sc EXCEPT !.sessions[c] = s] IN
           SessionStep(sc, tc, c) /\ tc.sessions[c] = s /\ tc.out = sc.out
<1> DEFINE tc == [sc EXCEPT !.sessions[c] = s]
<1>1. sc.sessions \in [1..2 -> Sessions \cup {None}]
  BY Zenon DEF IsScheduler
<1>2. [sc.sessions EXCEPT ![c] = s] \in [1..2 -> Sessions \cup {None}]
  BY <1>1, Zenon
<1>3. /\ IsScheduler(tc) /\ SameMode(sc, tc) /\ tc.out = sc.out
      /\ tc.sessions = [sc.sessions EXCEPT ![c] = s]
  BY <1>2, Zenon DEF IsScheduler, SameRole, SameMode
<1>4. tc.sessions[c] = s /\ \A b \in 1..2 : b # c => tc.sessions[b] = sc.sessions[b]
  BY <1>1, <1>3, Zenon
<1> QED
  BY <1>3, <1>4, Zenon DEF SessionStep

\* Telling a rank something changes nothing else.
LEMMA OutStep ==
    ASSUME NEW sc, IsScheduler(sc), NEW dest, NEW m \in SchedulerMessages
    PROVE  LET tc == Out(sc, dest, m) IN
           IsScheduler(tc) /\ SameMode(sc, tc) /\ tc.sessions = sc.sessions
<1>1. sc.out \in [Ranks -> Seq(SchedulerMessages)]
  BY Zenon DEF IsScheduler
<1>2. [sc.out EXCEPT ![dest] = Append(@, m)] \in [Ranks -> Seq(SchedulerMessages)]
  BY <1>1, AppendAt, Zenon
<1> QED
  BY <1>2, SchedulerOut, Zenon DEF Out

\* Steps of one session follow each other, and keep a scheduler sound.
LEMMA SessionSteps ==
    ASSUME NEW sc, NEW tc, NEW uc, NEW c \in 1..2, SessionStep(sc, tc, c), SessionStep(tc, uc, c)
    PROVE  SessionStep(sc, uc, c)
BY Zenon DEF SessionStep, SameMode, SameRole

\* A step of one session keeps a scheduler sound.
LEMMA SessionStepSound ==
    ASSUME NEW sc, NEW tc, NEW c \in 1..2, Sound(sc), SessionStep(sc, tc, c)
    PROVE  Sound(tc)
<1>1. tc.sessions \in [1..2 -> Sessions \cup {None}]
  BY Zenon DEF SessionStep, IsScheduler
<1>2. sc.sessions \in [1..2 -> Sessions] => \A b \in 1..2 : tc.sessions[b] \in Sessions
  BY Zenon DEF SessionStep
<1>3. sc.sessions \in [1..2 -> Sessions] => tc.sessions \in [1..2 -> Sessions]
  BY <1>1, <1>2, Zenon
<1> QED
  BY <1>3, Zenon DEF SessionStep, SameMode, SameRole, Sound

\* notifyRemainingInactiveNodes
LEMMA ReleaseStep ==
    ASSUME NEW sc, IsScheduler(sc), NEW c \in 1..2, sc.sessions[c] \in Sessions, NEW indices
    PROVE  SessionStep(sc, Release(sc, c, indices), c)
<1> DEFINE s == sc.sessions[c]
           due == {n \in s.nodes : n.status = "AVAILABLE" /\ n.index \in indices}
           nodes == (s.nodes \ due) \cup {[n EXCEPT !.status = "BUSY"] : n \in due}
           Told(r) == [tag |-> "RELEASE", job |-> sc.job,
                       index |-> (CHOOSE n \in due : n.rank = r).index, epoch |-> s.epoch]
           out == [r \in Ranks |-> IF \A n \in due : n.rank # r THEN sc.out[r]
                                   ELSE Append(sc.out[r], Told(r))]
<1>1. due \subseteq InactiveNodes /\ s.nodes \subseteq InactiveNodes /\ s.epoch \in Int
  BY Zenon DEF Sessions
<1>2. nodes \subseteq InactiveNodes
  BY <1>1, Zenon DEF InactiveNodes
<1> DEFINE fresh == [s EXCEPT !.nodes = nodes]
<1>3. fresh \in Sessions
  BY <1>2, Zenon DEF Sessions
<1>4. sc.job \in Jobs /\ sc.out \in [Ranks -> Seq(SchedulerMessages)]
  BY Zenon DEF IsScheduler
<1>5. ASSUME NEW r \in Ranks, ~ \A n \in due : n.rank # r
      PROVE  Told(r) \in SchedulerMessages
  <2>1. (CHOOSE n \in due : n.rank = r) \in due
    BY <1>5, Zenon
  <2>2. (CHOOSE n \in due : n.rank = r).index \in Nat
    BY <1>1, <2>1, Zenon DEF InactiveNodes
  <2> QED
    BY <1>1, <1>4, <2>2, Zenon DEF SchedulerMessages
<1>6. out \in [Ranks -> Seq(SchedulerMessages)]
  <2>1. ASSUME NEW r \in Ranks PROVE out[r] \in Seq(SchedulerMessages)
    BY <1>4, <1>5
  <2> QED
    BY <2>1, Zenon
<1> HIDE DEF fresh
<1> DEFINE told == [sc EXCEPT !.sessions[c] = fresh]
<1>7. SessionStep(sc, told, c) /\ IsScheduler(told) /\ told.out = sc.out
  <2>1. SessionStep(sc, told, c) /\ told.out = sc.out
    BY <1>3, SchedulerSession, Zenon
  <2> QED
    BY <2>1, Zenon DEF SessionStep
<1>8. Release(sc, c, indices) = [told EXCEPT !.out = out]
  BY <1>7, Zenon DEF Release, IsScheduler, fresh
<1> HIDE DEF told, out, nodes
<1>9. SessionStep(told, Release(sc, c, indices), c)
  BY <1>6, <1>7, <1>8, SchedulerOut DEF SessionStep
<1> QED
  BY <1>7, <1>9, SessionSteps, Zenon

\* Fields of a session are replaced.
LEMMA SessionFields ==
    ASSUME NEW s \in Sessions, NEW nodes \in SUBSET InactiveNodes, NEW rank \in Ranks, NEW b \in BOOLEAN,
           NEW q \in Nat
    PROVE  /\ [s EXCEPT !.nodes = nodes] \in Sessions
           /\ [s EXCEPT !.childRank = rank, !.queried = q] \in Sessions
           /\ [s EXCEPT !.nodes = nodes, !.childHasNodes = b] \in Sessions
           /\ [s EXCEPT !.childRank = rank, !.childHasNodes = b, !.nodes = nodes] \in Sessions
BY Zenon DEF Sessions

\* recruitChild
LEMMA RecruitStep ==
    ASSUME NEW sc, IsScheduler(sc), NEW c \in 1..2, sc.sessions[c] \in Sessions
    PROVE  SessionStep(sc, RecruitChild(sc, c), c)
<1> DEFINE s == sc.sessions[c]
           index == ChildIndex(sc, c)
           usable == {n \in s.nodes : n.status = "AVAILABLE" /\ n.index = index}
           first == {n \in usable : \A m \in usable : m = n \/ Before(n, m)}
           node == CHOOSE n \in first : TRUE
           asked == [s EXCEPT !.childRank = node.rank, !.queried = s.queried + 1]
           Emission(targeted) == [tag |-> "EMIT_REQUEST", index |-> index, epoch |-> s.epoch,
                                  targeted |-> targeted]
<1>1. index \in Nat /\ s.epoch \in Int
  <2>1. sc.index \in Nat
    BY Zenon DEF IsScheduler
  <2> QED
    BY <2>1 DEF ChildIndex, Sessions
<1>2. ASSUME NEW b \in BOOLEAN PROVE Emission(b) \in SchedulerMessages
  BY <1>1, Zenon DEF SchedulerMessages
<1>3. CASE s.queried < MaxQueries /\ first # {}
  <2>1. node.rank \in Ranks
    <3>1. node \in first
      BY <1>3, Zenon
    <3> QED
      BY <3>1, Zenon DEF Sessions, InactiveNodes, Ranks
  <2>2. asked \in Sessions
    <3>1. s.queried + 1 \in Nat
      BY DEF Sessions
    <3> HIDE DEF node
    <3> QED
      BY <2>1, <3>1, SessionFields, Zenon
  <2> DEFINE tc == [sc EXCEPT !.sessions[c] = asked]
  <2>3. RecruitChild(sc, c) = Out(tc, node.rank, Emission(TRUE))
    BY <1>3, Zenon DEF RecruitChild
  <2> HIDE DEF asked, node, Emission
  <2>4. SessionStep(sc, tc, c)
    BY <2>2, SchedulerSession, Zenon
  <2> HIDE DEF tc
  <2>5. SessionStep(tc, Out(tc, node.rank, Emission(TRUE)), c)
    <3>1. IsScheduler(tc) /\ tc.sessions[c] \in Sessions
      BY <2>4, Zenon DEF SessionStep
    <3> QED
      BY <1>2, <3>1, OutStep, Zenon DEF SessionStep
  <2> QED
    BY <2>3, <2>4, <2>5, SessionSteps, Zenon
<1>4. CASE ~(s.queried < MaxQueries /\ first # {})
  <2> DEFINE tc == Release(sc, c, {index})
             uc == Out(tc, NodeRank(sc.job, index), Emission(FALSE))
  <2>1. RecruitChild(sc, c) = uc
    BY <1>4, Zenon DEF RecruitChild
  <2>2. SessionStep(sc, tc, c)
    BY ReleaseStep, Zenon
  <2> HIDE DEF tc, Emission
  <2>3. SessionStep(tc, uc, c)
    <3>1. IsScheduler(tc) /\ tc.sessions[c] \in Sessions
      BY <2>2, Zenon DEF SessionStep
    <3> QED
      BY <1>2, <3>1, OutStep, Zenon DEF SessionStep
  <2> QED
    BY <2>1, <2>2, <2>3, SessionSteps, Zenon
<1> QED
  BY <1>3, <1>4, Zenon

\* ChildInterface::handleBalancingUpdate
LEMMA BalancingUpdateStep ==
    ASSUME NEW sc, IsScheduler(sc), NEW c \in 1..2, sc.sessions[c] \in Sessions,
           NEW epoch \in Int, NEW volume \in Int, NEW hasChild
    PROVE  SessionStep(sc, HandleBalancingUpdate(sc, c, epoch, volume, hasChild), c)
<1> DEFINE s == sc.sessions[c]
           nodes == {Refreshed(n, volume) : n \in s.nodes}
           fresh == [s EXCEPT !.queried = 0, !.epoch = epoch, !.volume = volume, !.nodes = nodes]
           tc == [sc EXCEPT !.sessions[c] = fresh]
<1>1. nodes \subseteq InactiveNodes
  BY Zenon DEF Sessions, InactiveNodes, Refreshed
<1>2. fresh \in Sessions
  BY <1>1, Zenon DEF Sessions
<1>4. SessionStep(sc, tc, c)
  <2> HIDE DEF fresh
  <2> QED
    BY <1>2, SchedulerSession, Zenon
<1>5. SessionStep(sc, sc, c)
  BY Zenon DEF SessionStep, SameMode, SameRole
<1>6. HandleBalancingUpdate(sc, c, epoch, volume, hasChild) \in {sc, RecruitChild(tc, c), Release(tc, c, Nat)}
  BY Zenon DEF HandleBalancingUpdate
<1> HIDE DEF tc
<1>7. IsScheduler(tc) /\ tc.sessions[c] \in Sessions
  BY <1>4, Zenon DEF SessionStep
<1>8. SessionStep(tc, RecruitChild(tc, c), c) /\ SessionStep(tc, Release(tc, c, Nat), c)
  BY <1>7, RecruitStep, ReleaseStep, Zenon
<1>9. SessionStep(sc, RecruitChild(tc, c), c) /\ SessionStep(sc, Release(tc, c, Nat), c)
  BY <1>4, <1>8, SessionSteps, Zenon
<1> QED
  BY <1>5, <1>6, <1>9, Zenon

\* The operations on lists of inactive nodes keep their type.
LEMMA NodeLists ==
    ASSUME NEW list \in SUBSET InactiveNodes, NEW other \in SUBSET InactiveNodes
    PROVE  /\ Insert(list, other) \subseteq InactiveNodes
           /\ MergePreferringNewer(list, other) \subseteq InactiveNodes
           /\ CleanUpStatuses(list) \subseteq InactiveNodes
           /\ \A i : Subtree(list, i) \subseteq list /\ SplitRight(list, i) \subseteq list
<1>1. Insert(list, other) \subseteq InactiveNodes
  BY Zenon DEF Insert
<1>2. MergePreferringNewer(list, other) \subseteq InactiveNodes
  BY <1>1, Zenon DEF MergePreferringNewer
<1>3. CleanUpStatuses(list) \subseteq InactiveNodes
  BY Zenon DEF CleanUpStatuses, InactiveNodes
<1>4. \A i : Subtree(list, i) \subseteq list /\ SplitRight(list, i) \subseteq list
  BY Zenon DEF Subtree, SplitRight
<1> QED
  BY <1>1, <1>2, <1>3, <1>4, Zenon

\* findAndUpdateNode
LEMMA UpdateNodeType ==
    ASSUME NEW nodes \in SUBSET InactiveNodes, NEW rank, NEW index \in Nat, NEW epoch \in Int,
           NEW status \in {"BUSY", "LOST"}
    PROVE  UpdateNode(nodes, rank, index, epoch, status) \subseteq InactiveNodes
<1> DEFINE entries == {n \in nodes : n.rank = rank /\ n.index = index}
           node == CHOOSE n \in entries : \A m \in entries : m.epoch <= n.epoch
           fresh == InactiveNode(rank, index, epoch, status)
<1>1. CASE entries = {}
  BY <1>1, Zenon DEF UpdateNode
<1>2. CASE entries # {}
  <2>1. rank \in Workers
    BY <1>2, Zenon DEF InactiveNodes
  <2>2. fresh \in InactiveNodes
    BY <2>1, Zenon DEF InactiveNodes, InactiveNode
  <2>3. UpdateNode(nodes, rank, index, epoch, status) = Insert(nodes \ {node}, {fresh})
    BY <1>2, Zenon DEF UpdateNode
  <2> HIDE DEF node, fresh
  <2>4. nodes \ {node} \in SUBSET InactiveNodes /\ {fresh} \in SUBSET InactiveNodes
    BY <2>2, Zenon
  <2> QED
    BY <2>3, <2>4, NodeLists, Zenon
<1> QED
  BY <1>1, <1>2, Zenon

\* handleRejectionOfPotentialChild
LEMMA RejectionStep ==
    ASSUME NEW sc, IsScheduler(sc), NEW c \in 1..2, sc.sessions[c] \in Sessions,
           NEW epoch \in Int, NEW lost, NEW hasChild
    PROVE  SessionStep(sc, HandleRejection(sc, c, epoch, lost, hasChild), c)
<1> DEFINE s == sc.sessions[c]
           nodes == UpdateNode(s.nodes, s.childRank, ChildIndex(sc, c), epoch, IF lost THEN "LOST" ELSE "BUSY")
           fresh == [s EXCEPT !.nodes = nodes]
           tc == [sc EXCEPT !.sessions[c] = fresh]
<1>1. nodes \in SUBSET InactiveNodes
  <2>1. sc.index \in Nat
    BY Zenon DEF IsScheduler
  <2>2. ChildIndex(sc, c) \in Nat /\ s.nodes \in SUBSET InactiveNodes
    BY <2>1 DEF ChildIndex, Sessions
  <2> QED
    BY <2>2, UpdateNodeType, Zenon
<1>2. fresh \in Sessions
  <2> HIDE DEF nodes
  <2> QED
    BY <1>1, SessionFields, Zenon DEF Ranks
<1>3. HandleRejection(sc, c, epoch, lost, hasChild) \in {tc, RecruitChild(tc, c)}
  BY Zenon DEF HandleRejection
<1> HIDE DEF fresh
<1>4. SessionStep(sc, tc, c)
  BY <1>2, SchedulerSession, Zenon
<1> HIDE DEF tc
<1>5. SessionStep(tc, RecruitChild(tc, c), c)
  BY <1>4, RecruitStep, Zenon DEF SessionStep
<1> QED
  BY <1>3, <1>4, <1>5, SessionSteps, Zenon

\* ChildInterface::handleChildJoining
LEMMA JoinStep ==
    ASSUME NEW sc, IsScheduler(sc), NEW c \in 1..2, sc.sessions[c] \in Sessions,
           NEW source \in Ranks, NEW epoch \in Int
    PROVE  SessionStep(sc, JoinSession(sc, c, source, epoch), c)
<1> DEFINE s == sc.sessions[c]
           index == ChildIndex(sc, c)
           below == Subtree(s.nodes, index)
           m == [tag |-> "INITIALIZE_CHILD", job |-> sc.job, index |-> index, epoch |-> epoch,
                 volume |-> s.volume, nodes |-> CleanUpStatuses(below)]
           tc == Out(sc, source, m)
           nodes == UpdateNode(s.nodes \ below, source, index, epoch, "BUSY")
           fresh == [s EXCEPT !.childRank = source, !.childHasNodes = TRUE, !.nodes = nodes]
           uc == [tc EXCEPT !.sessions[c] = fresh]
<1>1. index \in Nat /\ sc.job \in Jobs
  BY DEF ChildIndex, IsScheduler
<1>2. s.nodes \in SUBSET InactiveNodes /\ s.volume \in Int
  BY Zenon DEF Sessions
<1>3. below \in SUBSET InactiveNodes /\ CleanUpStatuses(below) \in SUBSET InactiveNodes
  <2>1. below \in SUBSET InactiveNodes
    BY <1>2, NodeLists, Zenon
  <2> HIDE DEF below
  <2> QED
    BY <2>1, NodeLists, Zenon
<1>4. m \in SchedulerMessages
  BY <1>1, <1>2, <1>3, Zenon DEF SchedulerMessages
<1>5. nodes \in SUBSET InactiveNodes
  <2> HIDE DEF index
  <2> QED
    BY <1>1, <1>2, <1>3, UpdateNodeType, Zenon
<1>6. fresh \in Sessions
  <2> HIDE DEF nodes
  <2> QED
    BY <1>5, SessionFields, Zenon
<1>7. JoinSession(sc, c, source, epoch) = Release(uc, c, Nat)
  BY Zenon DEF JoinSession
<1> HIDE DEF m, fresh
<1>8. IsScheduler(tc) /\ SameMode(sc, tc) /\ tc.sessions = sc.sessions
  BY <1>4, OutStep, Zenon
<1> HIDE DEF tc
<1>9. SessionStep(tc, uc, c)
  BY <1>6, <1>8, SchedulerSession, Zenon
<1>10. SessionStep(sc, uc, c)
  BY <1>8, <1>9, Zenon DEF SessionStep, SameMode, SameRole
<1> HIDE DEF uc
<1>11. SessionStep(uc, Release(uc, c, Nat), c)
  BY <1>10, ReleaseStep, Zenon DEF SessionStep
<1> QED
  BY <1>7, <1>10, <1>11, SessionSteps, Zenon

\* A pair of sessions is what a scheduler may have.
LEMMA SessionPairs ==
    ASSUME NEW s \in Sessions, NEW t \in Sessions
    PROVE  /\ <<s, t>> \in [1..2 -> Sessions]
           /\ <<s, t>> \in [1..2 -> Sessions \cup {None}]
OBVIOUS

\* A new session (the constructor of ChildInterface)
LEMMA NewSessionType ==
    ASSUME NEW nodes \in SUBSET InactiveNodes
    PROVE  NewSession(nodes) \in Sessions
BY DEF NewSession, Sessions

\* What both sessions hold is a list of nodes.
LEMMA AllNodesType ==
    ASSUME NEW sc, sc.sessions \in [1..2 -> Sessions]
    PROVE  AllNodes(sc) \in SUBSET InactiveNodes
<1> DEFINE a == sc.sessions[1].nodes
           b == sc.sessions[2].nodes
           m == MergePreferringNewer({}, a)
<1>1. a \in SUBSET InactiveNodes /\ b \in SUBSET InactiveNodes
  BY DEF Sessions
<1>2. m \in SUBSET InactiveNodes
  <2> HIDE DEF a
  <2> QED
    BY <1>1, NodeLists, Zenon
<1>3. MergePreferringNewer(m, b) \in SUBSET InactiveNodes
  <2> HIDE DEF m, b
  <2> QED
    BY <1>1, <1>2, NodeLists, Zenon
<1> QED
  BY <1>3, Zenon DEF AllNodes

\* Nodes are sent to the parent.
LEMMA ReturnNodesStep ==
    ASSUME NEW sc, IsScheduler(sc), NEW dest, NEW nodes \in SUBSET InactiveNodes
    PROVE  LET tc == ReturnNodes(sc, dest, nodes) IN
           IsScheduler(tc) /\ SameMode(sc, tc) /\ tc.sessions = sc.sessions
<1> DEFINE m == [tag |-> "RETURN_NODES", job |-> sc.job, index |-> ParentIndex(sc.index), nodes |-> nodes]
<1>1. sc.job \in Jobs /\ sc.index \in Nat
  BY Zenon DEF IsScheduler
<1>2. ParentIndex(sc.index) \in Int
  BY <1>1 DEF ParentIndex
<1>3. m \in SchedulerMessages
  BY <1>1, <1>2, Zenon DEF SchedulerMessages
<1>4. ReturnNodes(sc, dest, nodes) = Out(sc, dest, m)
  BY Zenon DEF ReturnNodes
<1> HIDE DEF m
<1> QED
  BY <1>3, <1>4, OutStep, Zenon

\* Both sessions of an open scheduler learn a volume.
LEMMA BothUpdated ==
    ASSUME NEW sc, Sound(sc), sc.sessions \in [1..2 -> Sessions], NEW epoch \in Int, NEW volume \in Int,
           NEW left, NEW right
    PROVE  LET tc == HandleBalancingUpdate(HandleBalancingUpdate(sc, 1, epoch, volume, left),
                                           2, epoch, volume, right)
           IN Sound(tc) /\ SameMode(sc, tc)
<1> DEFINE tc == HandleBalancingUpdate(sc, 1, epoch, volume, left)
           uc == HandleBalancingUpdate(tc, 2, epoch, volume, right)
<1>1. IsScheduler(sc) /\ sc.sessions[1] \in Sessions /\ sc.sessions[2] \in Sessions
  BY DEF Sound
<1>2. SessionStep(sc, tc, 1)
  BY <1>1, BalancingUpdateStep
<1> HIDE DEF tc
<1>3. Sound(tc) /\ IsScheduler(tc) /\ tc.sessions[2] \in Sessions
  BY <1>1, <1>2, SessionStepSound DEF SessionStep
<1>4. SessionStep(tc, uc, 2)
  BY <1>3, BalancingUpdateStep
<1> HIDE DEF uc
<1>5. Sound(uc)
  BY <1>3, <1>4, SessionStepSound
<1>6. SameMode(sc, uc)
  BY <1>2, <1>4, Zenon DEF SessionStep, SameMode, SameRole
<1> QED
  BY <1>5, <1>6, Zenon DEF tc, uc

\* initializeScheduling: the scheduler is opened, or the nodes go back.  A root that is
\* being resumed has closed its sessions before.
LEMMA InitializeSound ==
    ASSUME NEW sc, IsScheduler(sc), Sound(sc) \/ (sc.index = 0 /\ ~sc.resuming),
           NEW epoch \in Int, NEW volume \in Int, NEW nodes \in SUBSET InactiveNodes,
           NEW parent \in Ranks \cup {None}
    PROVE  LET tc == InitializeScheduling(sc, epoch, volume, nodes, parent)
           IN Sound(tc) /\ SameRole(sc, tc)
<1> DEFINE placed == [sc EXCEPT !.parent = parent]
           told == IF volume >= 0 /\ epoch > sc.epoch
                   THEN [placed EXCEPT !.epoch = epoch, !.volume = volume] ELSE placed
           right == SplitRight(nodes, sc.index)
           sessions == <<NewSession(nodes \ right), NewSession(right)>>
           asserted == Asserted(told, sc.sessions = <<None, None>>)
           opened == [asserted EXCEPT !.suspended = FALSE, !.sessions = sessions]
           updated == HandleBalancingUpdate(
                          HandleBalancingUpdate(opened, 1, opened.epoch, opened.volume, FALSE),
                          2, opened.epoch, opened.volume, FALSE)
<1>1. /\ IsScheduler(placed) /\ SameRole(sc, placed) /\ placed.sessions = sc.sessions
      /\ placed.suspended = sc.suspended /\ placed.resuming = sc.resuming
  BY Zenon DEF IsScheduler, SameRole
<1>2. IsScheduler(told) /\ SameRole(sc, told) /\ told.resuming = sc.resuming
  <2> HIDE DEF placed
  <2>1. /\ IsScheduler([placed EXCEPT !.epoch = epoch, !.volume = volume])
        /\ SameRole(placed, [placed EXCEPT !.epoch = epoch, !.volume = volume])
        /\ [placed EXCEPT !.epoch = epoch, !.volume = volume].resuming = placed.resuming
    BY <1>1, Zenon DEF IsScheduler, SameRole
  <2> QED
    BY <1>1, <2>1, Zenon DEF SameRole
<1>3. IsScheduler(asserted) /\ SameRole(sc, asserted) /\ asserted.resuming = sc.resuming
  <2> HIDE DEF told
  <2>1. asserted = [told EXCEPT !.ok = told.ok /\ sc.sessions = <<None, None>>]
    BY Zenon DEF Asserted
  <2> QED
    BY <1>2, <2>1, Zenon DEF IsScheduler, SameRole
<1>4. sessions \in [1..2 -> Sessions] /\ sessions \in [1..2 -> Sessions \cup {None}]
  <2>1. right \in SUBSET InactiveNodes /\ nodes \ right \in SUBSET InactiveNodes
    BY NodeLists, Zenon
  <2>2. NewSession(right) \in Sessions /\ NewSession(nodes \ right) \in Sessions
    <3> HIDE DEF right
    <3> QED
      BY <2>1, NewSessionType, Zenon
  <2> QED
    BY <2>2, SessionPairs, Zenon
<1>5. sc.resuming => sc.index = 0
  BY Zenon DEF Sound
<1>6. Sound(opened) /\ SameRole(sc, opened) /\ opened.sessions \in [1..2 -> Sessions]
  <2> HIDE DEF asserted, sessions
  <2>1. /\ IsScheduler(opened) /\ opened.sessions = sessions /\ ~opened.suspended
        /\ opened.resuming = asserted.resuming /\ SameRole(asserted, opened)
    BY <1>3, <1>4, Zenon DEF IsScheduler, SameRole
  <2> QED
    BY <1>3, <1>4, <1>5, <2>1, Zenon DEF Sound, SameRole
<1>7. Sound(updated) /\ SameRole(sc, updated)
  <2> HIDE DEF opened
  <2>1. opened.epoch \in Int /\ opened.volume \in Int
    BY <1>6, Zenon DEF Sound, IsScheduler
  <2>2. Sound(updated) /\ SameMode(opened, updated)
    BY <1>6, <2>1, BothUpdated, Zenon
  <2> QED
    BY <1>6, <2>2, Zenon DEF SameMode, SameRole
<1>8. CASE sc.index > 0 /\ epoch <= sc.suspensionEpoch
  <2>1. InitializeScheduling(sc, epoch, volume, nodes, parent) = ReturnNodes(placed, parent, nodes)
    BY <1>8, Zenon DEF InitializeScheduling
  <2> HIDE DEF placed
  <2>2. Sound(placed)
    BY <1>1, <1>8 DEF Sound, SameRole
  <2> DEFINE tc == ReturnNodes(placed, parent, nodes)
  <2>3. IsScheduler(tc) /\ SameMode(placed, tc) /\ tc.sessions = placed.sessions
    BY <1>1, ReturnNodesStep, Zenon
  <2> HIDE DEF tc
  <2>4. Sound(tc) /\ SameRole(sc, tc)
    BY <1>1, <2>2, <2>3, Zenon DEF Sound, SameMode, SameRole
  <2> QED
    BY <2>1, <2>4, Zenon DEF tc
<1>9. CASE ~(sc.index > 0 /\ epoch <= sc.suspensionEpoch)
  <2>1. InitializeScheduling(sc, epoch, volume, nodes, parent) \in {opened, updated}
    BY <1>9, Zenon DEF InitializeScheduling
  <2> HIDE DEF opened, updated
  <2> QED
    BY <1>6, <1>7, <2>1, Zenon
<1> QED
  BY <1>8, <1>9, Zenon

\* returnInactiveJobNodesToParent closes the scheduler of a node that is not a root.
LEMMA ReturnSound ==
    ASSUME NEW sc, Sound(sc), CanReturn(sc)
    PROVE  LET tc == ReturnInactiveNodes(sc) IN Sound(tc) /\ SameRole(sc, tc)
<1> DEFINE me == InactiveNode(sc.rank, sc.index, sc.epoch, "AVAILABLE")
           all == AllNodes(sc)
           with == Insert(all, {me})
           nodes == CleanUpStatuses(with)
           told == ReturnNodes(sc, sc.parent, nodes)
           tc == [told EXCEPT !.suspending = FALSE, !.suspended = TRUE, !.sessions = <<None, None>>]
<1>1. sc.sessions \in [1..2 -> Sessions] /\ ~sc.resuming /\ IsScheduler(sc)
  BY Zenon DEF Sound, CanReturn
<1>2. me \in InactiveNodes
  BY <1>1, Zenon DEF InactiveNodes, InactiveNode, IsScheduler
<1>3. all \in SUBSET InactiveNodes
  BY <1>1, AllNodesType, Zenon
<1>4. nodes \in SUBSET InactiveNodes
  <2> HIDE DEF me, all
  <2>1. {me} \in SUBSET InactiveNodes
    BY <1>2, Zenon
  <2>2. with \in SUBSET InactiveNodes
    BY <1>3, <2>1, NodeLists, Zenon
  <2> HIDE DEF with
  <2> QED
    BY <2>2, NodeLists, Zenon
<1>5. ReturnInactiveNodes(sc) = tc
  BY Zenon DEF ReturnInactiveNodes
<1>6. IsScheduler(told) /\ SameMode(sc, told)
  <2> HIDE DEF nodes
  <2> QED
    BY <1>1, <1>4, ReturnNodesStep, Zenon
<1> HIDE DEF told
<1>7. IsScheduler(tc) /\ SameRole(told, tc) /\ tc.suspended = TRUE /\ tc.resuming = told.resuming
  BY <1>6 DEF IsScheduler, SameRole
<1> HIDE DEF tc
<1>8. Sound(tc) /\ SameRole(sc, tc)
  BY <1>1, <1>6, <1>7, Zenon DEF Sound, SameMode, SameRole
<1> QED
  BY <1>5, <1>8, Zenon

\* beginSuspension
LEMMA BeginSuspensionSound ==
    ASSUME NEW sc, Sound(sc), NEW epoch \in Int
    PROVE  LET tc == BeginSuspension(sc, epoch) IN Sound(tc) /\ SameRole(sc, tc)
<1> DEFINE marked == [sc EXCEPT !.suspensionEpoch = epoch, !.suspending = @ \/ ~sc.suspended]
<1>1. Sound(marked) /\ SameRole(sc, marked)
  <2>1. IsScheduler(marked)
    BY Zenon DEF Sound, IsScheduler
  <2>2. /\ SameRole(sc, marked) /\ marked.sessions = sc.sessions
        /\ marked.suspended = sc.suspended /\ marked.resuming = sc.resuming
    BY Zenon DEF Sound, IsScheduler, SameRole
  <2> QED
    BY <2>1, <2>2, Zenon DEF Sound, SameRole
<1>2. \/ BeginSuspension(sc, epoch) = marked
      \/ CanReturn(marked) /\ BeginSuspension(sc, epoch) = ReturnInactiveNodes(marked)
  BY Zenon DEF BeginSuspension
<1> HIDE DEF marked
<1>3. CASE BeginSuspension(sc, epoch) = marked
  BY <1>1, <1>3, Zenon
<1>4. CASE CanReturn(marked) /\ BeginSuspension(sc, epoch) = ReturnInactiveNodes(marked)
  <2>1. Sound(ReturnInactiveNodes(marked)) /\ SameRole(marked, ReturnInactiveNodes(marked))
    BY <1>1, <1>4, ReturnSound, Zenon
  <2> QED
    BY <1>1, <1>4, <2>1, Zenon DEF SameRole
<1> QED
  BY <1>2, <1>3, <1>4, Zenon

\* beginSuspension without an epoch
LEMMA SuspensionSound ==
    ASSUME NEW sc, Sound(sc)
    PROVE  LET tc == Suspension(sc) IN Sound(tc) /\ SameRole(sc, tc)
<1>1. sc.epoch \in Int /\ sc.suspensionEpoch \in Int
  BY Zenon DEF Sound, IsScheduler
<1>2. Larger(sc.epoch, sc.suspensionEpoch) \in Int
  BY <1>1, Zenon DEF Larger
<1> QED
  BY <1>2, BeginSuspensionSound, Zenon DEF Suspension

\* updateBalancing
LEMMA UpdateBalancingSound ==
    ASSUME NEW sc, Sound(sc), NEW epoch \in Int, NEW volume \in Int, NEW left, NEW right
    PROVE  LET tc == UpdateBalancing(sc, epoch, volume, left, right) IN Sound(tc) /\ SameRole(sc, tc)
<1> DEFINE told == [sc EXCEPT !.epoch = epoch, !.volume = volume]
           updated == HandleBalancingUpdate(HandleBalancingUpdate(told, 1, epoch, volume, left),
                                            2, epoch, volume, right)
           tc == UpdateBalancing(sc, epoch, volume, left, right)
<1>1. /\ IsScheduler(told) /\ SameRole(sc, told) /\ told.sessions = sc.sessions
      /\ told.suspended = sc.suspended /\ told.resuming = sc.resuming
  BY Zenon DEF Sound, IsScheduler, SameRole
<1>2. \/ tc = sc \/ tc = told
      \/ ~sc.suspended /\ tc \in {updated, BeginSuspension(updated, epoch)}
  BY Zenon DEF UpdateBalancing, IsActive
<1> HIDE DEF told
<1>3. Sound(told)
  BY <1>1, Zenon DEF Sound, SameRole
<1>4. CASE tc = sc \/ tc = told
  BY <1>1, <1>3, <1>4, Zenon DEF SameRole
<1>5. CASE ~sc.suspended /\ tc \in {updated, BeginSuspension(updated, epoch)}
  <2>1. told.sessions \in [1..2 -> Sessions]
    BY <1>1, <1>5, Zenon DEF Sound
  <2>2. Sound(updated) /\ SameMode(told, updated)
    BY <1>3, <2>1, BothUpdated, Zenon
  <2> HIDE DEF updated
  <2>3. /\ Sound(BeginSuspension(updated, epoch))
        /\ SameRole(updated, BeginSuspension(updated, epoch))
    BY <2>2, BeginSuspensionSound, Zenon
  <2> HIDE DEF tc
  <2> QED
    BY <1>1, <1>5, <2>2, <2>3, Zenon DEF SameMode, SameRole, tc
<1> HIDE DEF tc
<1> QED
  BY <1>2, <1>4, <1>5, Zenon DEF tc

\* resumeAsRoot
LEMMA ResumeSound ==
    ASSUME NEW sc, Sound(sc), sc.resuming
    PROVE  LET tc == ResumeAsRoot(sc) IN Sound(tc) /\ SameRole(sc, tc)
<1> DEFINE awake == [sc EXCEPT !.resuming = FALSE, !.suspending = FALSE, !.sessions = <<None, None>>]
           epoch == Larger(sc.epoch, sc.suspensionEpoch)
           all == AllNodes(sc)
           nodes == CleanUpStatuses(all)
           tc == InitializeScheduling(awake, epoch, sc.volume, nodes, sc.parent)
<1>1. IsScheduler(awake) /\ SameRole(sc, awake) /\ ~awake.resuming
  BY DEF Sound, IsScheduler, SameRole
<1>2. awake.index = 0
  BY <1>1, Zenon DEF Sound, SameRole
<1>3. epoch \in Int /\ sc.volume \in Int /\ sc.parent \in Ranks \cup {None}
  BY Zenon DEF Sound, IsScheduler, Larger
<1>4. sc.sessions \in [1..2 -> Sessions]
  BY Zenon DEF Sound
<1>5. all \in SUBSET InactiveNodes
  BY <1>4, AllNodesType, Zenon
<1>6. nodes \in SUBSET InactiveNodes
  <2> HIDE DEF all
  <2> QED
    BY <1>5, NodeLists, Zenon
<1>7. ResumeAsRoot(sc) = tc
  BY Zenon DEF ResumeAsRoot
<1> HIDE DEF awake, epoch, nodes
<1>8. Sound(tc) /\ SameRole(awake, tc)
  BY <1>1, <1>2, <1>3, <1>6, InitializeSound, Zenon
<1> HIDE DEF tc
<1> QED
  BY <1>1, <1>7, <1>8, Zenon DEF SameRole

\* A new scheduler
LEMMA NewSchedulerSound ==
    ASSUME NEW j \in Jobs, NEW index \in Nat, NEW rank \in Workers, NEW parent \in Ranks \cup {None}
    PROVE  LET sc == NewScheduler(j, index, rank, parent)
           IN Sound(sc) /\ sc.job = j /\ sc.index = index /\ sc.suspended
<1> DEFINE sc == NewScheduler(j, index, rank, parent)
<1>1. NothingSent \in [Ranks -> Seq(SchedulerMessages)]
  BY DEF NothingSent
<1>2. IsScheduler(sc)
  BY <1>1 DEF NewScheduler, IsScheduler
<1> QED
  BY <1>2, Zenon DEF Sound, NewScheduler

\* resetRole of a suspended scheduler
LEMMA ResetSound ==
    ASSUME NEW sc, Sound(sc), sc.suspended
    PROVE  LET tc == ResetRole(sc) IN Sound(tc) /\ SameRole(sc, tc)
<1> DEFINE asserted == Asserted(sc, CanCommit(sc))
           tc == ResetRole(sc)
<1>1. IsScheduler(sc) /\ ~sc.resuming
  BY Zenon DEF Sound
<1>2. /\ IsScheduler(asserted) /\ SameRole(sc, asserted)
      /\ asserted.suspended = sc.suspended /\ asserted.resuming = sc.resuming
  BY <1>1, Zenon DEF Asserted, CanCommit, IsScheduler, SameRole
<1>3. tc = [asserted EXCEPT !.suspensionEpoch = -1, !.epoch = -1, !.sessions = <<None, None>>]
  BY Zenon DEF ResetRole
<1> HIDE DEF asserted, tc
<1>4. /\ IsScheduler(tc) /\ SameRole(asserted, tc)
      /\ tc.suspended = asserted.suspended /\ tc.resuming = asserted.resuming
  <2>1. ASSUME NEW uc, NEW e \in Int, NEW none \in [1..2 -> Sessions \cup {None}],
               uc = [asserted EXCEPT !.suspensionEpoch = e, !.epoch = e, !.sessions = none]
        PROVE  /\ IsScheduler(uc) /\ SameRole(asserted, uc)
               /\ uc.suspended = asserted.suspended /\ uc.resuming = asserted.resuming
    BY <1>2, <2>1, Zenon DEF IsScheduler, SameRole
  <2>2. <<None, None>> \in [1..2 -> Sessions \cup {None}] /\ -1 \in Int
    OBVIOUS
  <2> QED
    BY <1>3, <2>1, <2>2, Zenon
<1> QED
  BY <1>1, <1>2, <1>4, Zenon DEF Sound, SameRole, tc

\* beginResumptionAsRoot, in whatever state the scheduler is
LEMMA BeginResumptionSound ==
    ASSUME NEW sc, Sound(sc)
    PROVE  LET tc == BeginResumptionAsRoot(sc) IN Sound(tc) /\ SameRole(sc, tc)
<1> DEFINE resuming == [sc EXCEPT !.resuming = TRUE]
           failing == [sc EXCEPT !.ok = FALSE]
           tc == BeginResumptionAsRoot(sc)
<1>1. IsScheduler(sc)
  BY Zenon DEF Sound
<1>2. \/ tc = failing
      \/ sc.index = 0 /\ ~sc.suspended /\ tc \in {resuming, ResumeAsRoot(resuming)}
  BY Zenon DEF BeginResumptionAsRoot, Asserted
<1>3. CASE tc = failing
  <2>1. /\ IsScheduler(failing) /\ SameRole(sc, failing) /\ failing.sessions = sc.sessions
        /\ failing.suspended = sc.suspended /\ failing.resuming = sc.resuming
    BY <1>1, Zenon DEF IsScheduler, SameRole
  <2> HIDE DEF failing, tc
  <2> QED
    BY <1>3, <2>1, Zenon DEF Sound, SameRole, tc
<1>4. CASE sc.index = 0 /\ ~sc.suspended /\ tc \in {resuming, ResumeAsRoot(resuming)}
  <2>1. /\ IsScheduler(resuming) /\ SameRole(sc, resuming) /\ resuming.sessions = sc.sessions
        /\ resuming.suspended = sc.suspended /\ resuming.resuming
    BY <1>1, Zenon DEF IsScheduler, SameRole
  <2> HIDE DEF resuming, tc
  <2>2. Sound(resuming)
    BY <1>4, <2>1, Zenon DEF Sound, SameRole
  <2>3. Sound(ResumeAsRoot(resuming)) /\ SameRole(resuming, ResumeAsRoot(resuming))
    BY <2>1, <2>2, ResumeSound, Zenon
  <2> QED
    BY <1>4, <2>1, <2>2, <2>3, Zenon DEF SameRole, tc
<1> HIDE DEF tc
<1> QED
  BY <1>2, <1>3, <1>4, Zenon DEF tc

\* The nodes of a child come back.
LEMMA TakeBackSound ==
    ASSUME NEW sc, Sound(sc), NEW source, NEW nodes \in SUBSET InactiveNodes
    PROVE  LET tc == TakeBack(sc, source, nodes) IN Sound(tc) /\ SameRole(sc, tc)
<1> DEFINE children == {c \in 1..2 : HasSession(sc, c) /\ sc.sessions[c].childRank = source}
           c == CHOOSE x \in children : \A y \in children : x <= y
           s == sc.sessions[c]
           merged == MergePreferringNewer(s.nodes, nodes)
           fresh == [s EXCEPT !.nodes = merged, !.childHasNodes = FALSE]
           tc == [sc EXCEPT !.sessions[c] = fresh]
<1>1. CASE children = {}
  <2>1. TakeBack(sc, source, nodes) = sc
    BY <1>1, Zenon DEF TakeBack
  <2> QED
    BY <2>1, Zenon DEF SameRole
<1>2. CASE children # {}
  <2>1. TakeBack(sc, source, nodes) = tc
    BY <1>2, Zenon DEF TakeBack
  <2>2. \E x \in children : \A y \in children : x <= y
    <3>1. CASE 1 \in children
      BY <3>1
    <3>2. CASE 1 \notin children
      <4>1. children = {2}
        BY <1>2, <3>2
      <4> QED
        BY <4>1
    <3> QED
      BY <3>1, <3>2, Zenon
  <2>3. c \in children
    <3> HIDE DEF children
    <3> QED
      BY <2>2, Zenon
  <2> HIDE DEF c
  <2>4. c \in 1..2 /\ s \in Sessions
    BY <2>3, Zenon DEF HasSession, Sound, IsScheduler
  <2>5. s.nodes \in SUBSET InactiveNodes
    BY <2>4, Zenon DEF Sessions
  <2> HIDE DEF s
  <2>6. merged \in SUBSET InactiveNodes
    BY <2>5, NodeLists, Zenon
  <2> HIDE DEF merged
  <2>7. fresh \in Sessions
    BY <2>4, <2>6, SessionFields, Zenon DEF Ranks
  <2> HIDE DEF fresh
  <2>8. SessionStep(sc, tc, c)
    BY <2>4, <2>7, SchedulerSession, Zenon DEF Sound
  <2> HIDE DEF tc
  <2>9. Sound(tc) /\ SameRole(sc, tc)
    BY <2>4, <2>8, SessionStepSound, Zenon DEF SessionStep, SameMode
  <2> QED
    BY <2>1, <2>9, Zenon
<1> QED
  BY <1>1, <1>2, Zenon

\* LocalScheduler::handle
LEMMA SchedulingMessageSound ==
    ASSUME NEW sc, Sound(sc), NEW source \in Ranks, NEW m, m.nodes \in SUBSET InactiveNodes,
           m.tag = "INITIALIZE_CHILD" => m.epoch \in Int /\ m.volume \in Int
    PROVE  LET tc == HandleSchedulingMessage(sc, source, m) IN Sound(tc) /\ SameRole(sc, tc)
<1> DEFINE handled == IF m.tag = "INITIALIZE_CHILD"
                      THEN InitializeScheduling(sc, m.epoch, m.volume, m.nodes, source)
                      ELSE TakeBack(sc, source, m.nodes)
           returned == IF CanReturn(handled) THEN ReturnInactiveNodes(handled) ELSE handled
           tc == IF CanResumeAsRoot(returned) THEN ResumeAsRoot(returned) ELSE returned
<1>1. HandleSchedulingMessage(sc, source, m) = tc
  BY Zenon DEF HandleSchedulingMessage, AfterMessage
<1>2. Sound(handled) /\ SameRole(sc, handled)
  <2>1. m.tag = "INITIALIZE_CHILD" =>
           LET uc == InitializeScheduling(sc, m.epoch, m.volume, m.nodes, source)
           IN Sound(uc) /\ SameRole(sc, uc)
    BY InitializeSound, Zenon DEF Sound
  <2>2. LET uc == TakeBack(sc, source, m.nodes) IN Sound(uc) /\ SameRole(sc, uc)
    BY TakeBackSound, Zenon
  <2> QED
    BY <2>1, <2>2, Zenon
<1> HIDE DEF handled
<1>3. Sound(returned) /\ SameRole(sc, returned)
  <2>1. CanReturn(handled) =>
           Sound(ReturnInactiveNodes(handled)) /\ SameRole(handled, ReturnInactiveNodes(handled))
    BY <1>2, ReturnSound, Zenon
  <2> QED
    BY <1>2, <2>1, Zenon DEF SameRole
<1> HIDE DEF returned
<1>4. Sound(tc) /\ SameRole(sc, tc)
  <2>1. CanResumeAsRoot(returned) =>
           Sound(ResumeAsRoot(returned)) /\ SameRole(returned, ResumeAsRoot(returned))
    BY <1>3, ResumeSound, Zenon DEF CanResumeAsRoot
  <2> QED
    BY <1>3, <2>1, Zenon DEF SameRole
<1> HIDE DEF tc
<1> QED
  BY <1>1, <1>4, Zenon

\* handleRejectReactivation and handleChildJoining, for the session of the child's index
LEMMA SessionOfChildSound ==
    ASSUME NEW sc, Sound(sc), NEW source \in Ranks, NEW epoch \in Int, NEW index, NEW lost, NEW hasChild
    PROVE  LET tc == HandleRejectReactivation(sc, epoch, index, lost, hasChild)
               uc == HandleChildJoining(sc, source, epoch, index)
           IN Sound(tc) /\ SameRole(sc, tc) /\ Sound(uc) /\ SameRole(sc, uc)
<1> DEFINE c == SessionFor(sc, index)
           tc == HandleRejection(sc, c, epoch, lost, hasChild)
           uc == JoinSession(sc, c, source, epoch)
<1>1. CASE SessionsFor(sc, index) = {}
  BY <1>1, Zenon DEF HandleRejectReactivation, HandleChildJoining, SameRole
<1>2. CASE SessionsFor(sc, index) # {}
  <2>1. c \in SessionsFor(sc, index)
    BY <1>2, Zenon DEF SessionFor
  <2>2. /\ HandleRejectReactivation(sc, epoch, index, lost, hasChild) = tc
        /\ HandleChildJoining(sc, source, epoch, index) = uc
    BY <1>2, Zenon DEF HandleRejectReactivation, HandleChildJoining
  <2> HIDE DEF c
  <2>3. IsScheduler(sc) /\ c \in 1..2 /\ sc.sessions[c] \in Sessions
    BY <2>1, Zenon DEF SessionsFor, HasSession, Sound, IsScheduler
  <2>4. SessionStep(sc, tc, c) /\ SessionStep(sc, uc, c)
    BY <2>3, RejectionStep, JoinStep, Zenon
  <2> HIDE DEF tc, uc
  <2>5. Sound(tc) /\ SameRole(sc, tc) /\ Sound(uc) /\ SameRole(sc, uc)
    BY <2>3, <2>4, SessionStepSound, Zenon DEF SessionStep, SameMode
  <2> QED
    BY <2>2, <2>5, Zenon
<1> QED
  BY <1>1, <1>2, Zenon

\* handleNodeFreed
LEMMA NodeFreedSound ==
    ASSUME NEW sc, Sound(sc), NEW rank, NEW epoch, NEW index
    PROVE  LET tc == HandleNodeFreed(sc, rank, epoch, index) IN Sound(tc) /\ SameRole(sc, tc)
<1> DEFINE Freed(s) == [s EXCEPT !.nodes = {n \in @ : n.rank # rank \/ n.epoch # epoch \/ n.index # index}]
           sessions == [c \in 1..2 |-> IF sc.sessions[c] = None THEN None ELSE Freed(sc.sessions[c])]
           tc == [sc EXCEPT !.sessions = sessions]
<1>1. HandleNodeFreed(sc, rank, epoch, index) = tc
  BY Zenon DEF HandleNodeFreed
<1>2. ASSUME NEW s \in Sessions PROVE Freed(s) \in Sessions
  BY Zenon DEF Sessions
<1>3. sc.sessions \in [1..2 -> Sessions \cup {None}] /\ IsScheduler(sc)
  BY Zenon DEF Sound, IsScheduler
<1> HIDE DEF Freed
<1>4. sessions \in [1..2 -> Sessions \cup {None}]
  BY <1>2, <1>3, Zenon
<1>5. sc.sessions \in [1..2 -> Sessions] => sessions \in [1..2 -> Sessions]
  BY <1>2, NoneAssumption, Zenon
<1> HIDE DEF sessions
<1>6. /\ IsScheduler(tc) /\ SameRole(sc, tc) /\ tc.sessions = sessions
      /\ tc.suspended = sc.suspended /\ tc.resuming = sc.resuming
  BY <1>3, <1>4, Zenon DEF IsScheduler, SameRole
<1> HIDE DEF tc
<1> QED
  BY <1>1, <1>5, <1>6, Zenon DEF Sound, SameRole

-----------------------------------------------------------------------------
(***************************************************************************)
(* Operations that coherence does not depend on.                           *)
(***************************************************************************)
\* What a handler sends, lets hop and tells the balancer is part of no other field; an
\* assertion that holds changes nothing.
LEMMA SendSteps ==
    ASSUME NEW d, NEW E, Types(d, E)
    PROVE  /\ \A dest : \A m \in Messages(E) : Minor(d, Send(d, dest, m), E)
           /\ \A req \in Requests : Minor(d, Hop(d, req), E)
           /\ \A j : \A demand \in Nat : Minor(d, Push(d, j, demand), E)
           /\ \A function, condition :
                 condition \/ function \notin Watched => Minor(d, Check(d, function, condition), E)
<1>1. /\ d.out \in [Ranks -> Seq(Messages(E))] /\ d.events \in [Jobs -> Seq(Nat)]
      /\ DOMAIN d.hops \subseteq Requests
  BY Zenon DEF Types, IsDatabase
<1>2. ASSUME NEW dest, NEW m \in Messages(E) PROVE Minor(d, Send(d, dest, m), E)
  <2>1. [d.out EXCEPT ![dest] = Append(@, m)] \in [Ranks -> Seq(Messages(E))]
    BY <1>1, AppendAt, Zenon
  <2> QED
    BY <2>1, FieldSteps, Zenon DEF Send
<1>3. ASSUME NEW req \in Requests PROVE Minor(d, Hop(d, req), E)
  <2>1. DOMAIN AddHops(d.hops, [r \in {req} |-> 1]) \subseteq Requests
    BY <1>1, Zenon DEF AddHops
  <2> QED
    BY <2>1, FieldSteps, Zenon DEF Hop
<1>4. ASSUME NEW j, NEW demand \in Nat PROVE Minor(d, Push(d, j, demand), E)
  <2>1. [d.events EXCEPT ![j] = Append(@, demand)] \in [Jobs -> Seq(Nat)]
    BY <1>1, AppendAt, Zenon
  <2> QED
    BY <2>1, FieldSteps, Zenon DEF Push
<1>5. ASSUME NEW function, NEW condition, condition \/ function \notin Watched
      PROVE  Minor(d, Check(d, function, condition), E)
  <2>1. (IF condition THEN d.failed ELSE d.failed \cup {function}) \cap Watched = d.failed \cap Watched
    BY <1>5, Zenon
  <2> QED
    BY <2>1, FieldSteps, Zenon DEF Check
<1> QED
  BY <1>2, <1>3, <1>4, <1>5, Zenon

\* A node is replaced by one of the same standing.
LEMMA NodeStep ==
    ASSUME NEW d, NEW E, Types(d, E), NEW j \in Jobs, Has(d, j), NEW n \in JobNodes,
           SameStanding(d.jobs[j], n)
    PROVE  LET e == [d EXCEPT !.jobs[j] = n] IN Minor(d, e, E) /\ e.jobs[j] = n
<1> DEFINE jobs == [d.jobs EXCEPT ![j] = n]
<1>1. d.jobs \in [Jobs -> JobNodes \cup {None}]
  BY Zenon DEF Types, IsDatabase
<1>2. jobs \in [Jobs -> JobNodes \cup {None}] /\ \A i \in Jobs : SameStanding(d.jobs[i], jobs[i])
  BY <1>1, Zenon DEF SameStanding
<1>3. jobs[j] = n
  BY <1>1, Zenon
<1> HIDE DEF jobs
<1>4. ASSUME NEW e, e = [d EXCEPT !.jobs = jobs] PROVE Minor(d, e, E) /\ e.jobs[j] = n
  BY <1>2, <1>3, <1>4, Zenon DEF Minor, Types, IsDatabase, SameCore
<1>5. [d EXCEPT !.jobs[j] = n] = [d EXCEPT !.jobs = jobs]
  BY Zenon DEF jobs
<1> QED
  BY <1>4, <1>5, Zenon

\* The fields of a node that are not part of its standing.
Alike(m, n) == n \in JobNodes /\ SameStanding(m, n)

\* Setting one of these fields of a node yields a node of the same standing.
LEMMA NodeFields ==
    ASSUME NEW n \in JobNodes
    PROVE  /\ \A v \in Nat : Alike(n, [n EXCEPT !.volume = v])
           /\ \A e \in Int : Alike(n, [n EXCEPT !.requestEpoch = e])
           /\ \A e \in Int : Alike(n, [n EXCEPT !.waitEpoch = e])
           /\ \A e \in Int : Alike(n, [n EXCEPT !.stopWaitEpoch = e])
           /\ \A r \in Ranks \cup {None} : Alike(n, [n EXCEPT !.left = r])
           /\ \A r \in Ranks \cup {None} : Alike(n, [n EXCEPT !.right = r])
           /\ \A p \in SUBSET Ranks : Alike(n, [n EXCEPT !.past = p])
           /\ \A v \in Nat : Alike(n, [n EXCEPT !.desired = v])
           /\ \A v \in Nat \cup {-1} : Alike(n, [n EXCEPT !.rev = v])
           /\ \A v \in Int : Alike(n, [n EXCEPT !.solved = v])
           /\ \A v \in Nat : Alike(n, [n EXCEPT !.found = v])
           /\ \A w \in SUBSET (Ranks \X Nat) : Alike(n, [n EXCEPT !.waiting = w])
<1> USE NoneAssumption DEF Alike, JobNodes, SameStanding
<1>1. \A v \in Nat : Alike(n, [n EXCEPT !.volume = v])
  OBVIOUS
<1>2. \A e \in Int : Alike(n, [n EXCEPT !.requestEpoch = e])
  OBVIOUS
<1>3. \A e \in Int : Alike(n, [n EXCEPT !.waitEpoch = e])
  OBVIOUS
<1>4. \A e \in Int : Alike(n, [n EXCEPT !.stopWaitEpoch = e])
  OBVIOUS
<1>5. \A r \in Ranks \cup {None} : Alike(n, [n EXCEPT !.left = r])
  OBVIOUS
<1>6. \A r \in Ranks \cup {None} : Alike(n, [n EXCEPT !.right = r])
  OBVIOUS
<1>7. \A p \in SUBSET Ranks : Alike(n, [n EXCEPT !.past = p])
  OBVIOUS
<1>8. \A v \in Nat : Alike(n, [n EXCEPT !.desired = v])
  OBVIOUS
<1>9. \A v \in Nat \cup {-1} : Alike(n, [n EXCEPT !.rev = v])
  OBVIOUS
<1>10. \A v \in Int : Alike(n, [n EXCEPT !.solved = v])
  OBVIOUS
<1>11. \A v \in Nat : Alike(n, [n EXCEPT !.found = v])
  OBVIOUS
<1>12. \A w \in SUBSET (Ranks \X Nat) : Alike(n, [n EXCEPT !.waiting = w])
  OBVIOUS
<1> QED
  BY <1>1, <1>2, <1>3, <1>4, <1>5, <1>6, <1>7, <1>8, <1>9, <1>10, <1>11, <1>12, Zenon

\* Setting one of them for the node of a job in the database is a minor operation.
LEMMA JobSteps ==
    ASSUME NEW d, NEW E, Types(d, E), NEW j \in Jobs, Has(d, j)
    PROVE  /\ d.jobs[j] \in JobNodes
           /\ \A v \in Nat : Minor(d, [d EXCEPT !.jobs[j].volume = v], E)
           /\ \A e \in Int : Minor(d, [d EXCEPT !.jobs[j].requestEpoch = e], E)
           /\ \A e \in Int : Minor(d, [d EXCEPT !.jobs[j].waitEpoch = e], E)
           /\ \A e \in Int : Minor(d, [d EXCEPT !.jobs[j].stopWaitEpoch = e], E)
           /\ \A r \in Ranks \cup {None} : Minor(d, [d EXCEPT !.jobs[j].left = r], E)
           /\ \A r \in Ranks \cup {None} : Minor(d, [d EXCEPT !.jobs[j].right = r], E)
           /\ \A v \in Nat : Minor(d, [d EXCEPT !.jobs[j].desired = v], E)
           /\ \A v \in Nat \cup {-1} : Minor(d, [d EXCEPT !.jobs[j].rev = v], E)
           /\ \A v \in Int : Minor(d, [d EXCEPT !.jobs[j].solved = v], E)
           /\ \A v \in Nat : Minor(d, [d EXCEPT !.jobs[j].found = v], E)
           /\ \A w \in SUBSET (Ranks \X Nat) : Minor(d, [d EXCEPT !.jobs[j].waiting = w], E)
<1>1. d.jobs[j] \in JobNodes
  BY Zenon DEF Has, Types, IsDatabase
<1>2. \A n : Alike(d.jobs[j], n) => Minor(d, [d EXCEPT !.jobs[j] = n], E)
  BY NodeStep, Zenon DEF Alike
<1> QED
  BY <1>1, <1>2, NodeFields, Zenon

\* The scheduler kept under a key is sound and has sent what it had to send.
LEMMA OwnScheduler ==
    ASSUME NEW d, NEW E, Types(d, E), NEW j, NEW index, HasScheduler(d, j, index)
    PROVE  LET sc == GetScheduler(d, j, index)
           IN Sound(sc) /\ sc.job = j /\ sc.index = index /\ j \in Jobs /\ index \in Nat
BY Zenon DEF Types, IsDatabase, HasScheduler, GetScheduler

\* A request that a scheduler emits gets the fields of its job (Worker::sendJobRequest).
LEMMA EmittedType ==
    ASSUME NEW d, NEW E, Types(d, E), NEW j \in Jobs, NEW m \in SchedulerMessages,
           m.tag = "EMIT_REQUEST" => Has(d, j)
    PROVE  Emitted(d, j, m) \in Messages(E)
<1>1. CASE m.tag # "EMIT_REQUEST"
  BY <1>1, Zenon DEF Emitted, Messages
<1>2. CASE m.tag = "EMIT_REQUEST"
  <2>1. m.index \in Nat /\ m.epoch \in Int /\ m.targeted \in BOOLEAN
    BY <1>2, Zenon DEF SchedulerMessages
  <2>2. d.jobs[j].root \in Workers \cup {None} /\ d.jobs[j].desired \in Nat /\ d.rank \in Ranks
    <3>1. d.jobs[j] \in JobNodes
      BY <1>2, JobSteps, Zenon
    <3> QED
      BY <3>1, Zenon DEF JobNodes, Types, IsDatabase, Ranks
  <2> DEFINE req == [job |-> j, root |-> d.jobs[j].root, from |-> d.rank, index |-> m.index,
                     rev |-> d.jobs[j].desired, epoch |-> m.epoch, hopped |-> FALSE,
                     targeted |-> m.targeted]
  <2>3. req \in Requests
    BY <2>1, <2>2, Zenon DEF Requests
  <2> HIDE DEF req
  <2>4. [tag |-> "REQUEST_NODE", req |-> req] \in Messages(E)
    BY <2>3, Zenon DEF Messages
  <2> QED
    BY <1>2, <2>4, Zenon DEF Emitted, req
<1> QED
  BY <1>1, <1>2, Zenon

\* A scheduler is put back after an operation on it, and what it sends is sent.
LEMMA PutStep ==
    ASSUME NEW d, NEW E, Types(d, E), NEW sc, Sound(sc)
    PROVE  Minor(d, PutScheduler(d, sc), E)
<1>1. CASE Emits(sc) /\ ~Has(d, sc.job)
  BY <1>1, SendSteps, Zenon DEF PutScheduler, Watched
<1>2. CASE ~(Emits(sc) /\ ~Has(d, sc.job))
  <2> DEFINE b == Check(d, "LocalScheduler", sc.ok)
             tc == [sc EXCEPT !.out = NothingSent]
             schedulers == With(b.schedulers, <<sc.job, sc.index>>, tc)
             out == [r \in Ranks |->
                        b.out[r] \o [k \in 1..Len(sc.out[r]) |-> Emitted(d, sc.job, sc.out[r][k])]]
  <2> sc.job \in Jobs /\ sc.index \in Nat /\ sc.out \in [Ranks -> Seq(SchedulerMessages)]
    BY Zenon DEF Sound, IsScheduler
  <2> Minor(d, b, E)
    BY SendSteps, Zenon DEF Watched
  <2> HIDE DEF b
  <2>1. NothingSent \in [Ranks -> Seq(SchedulerMessages)]
    BY DEF NothingSent
  <2>2. Sound(tc) /\ tc.job = sc.job /\ tc.index = sc.index /\ tc.out = NothingSent
    BY <2>1, SchedulerOut DEF Sound, SameMode, SameRole
  <2> HIDE DEF tc
  <2>3. ASSUME NEW r \in Ranks, NEW k \in 1..Len(sc.out[r])
        PROVE  Emitted(d, sc.job, sc.out[r][k]) \in Messages(E)
    <3>1. sc.out[r][k] \in SchedulerMessages
      OBVIOUS
    <3>2. sc.out[r][k].tag = "EMIT_REQUEST" => Has(d, sc.job)
      BY <1>2, Zenon DEF Emits
    <3> QED
      BY <3>1, <3>2, EmittedType, Zenon
  <2>4. out \in [Ranks -> Seq(Messages(E))]
    <3>1. ASSUME NEW r \in Ranks PROVE out[r] \in Seq(Messages(E))
      <4>1. b.out[r] \in Seq(Messages(E))
        BY Zenon DEF Minor, Types, IsDatabase
      <4>2. Len(sc.out[r]) \in Nat
        OBVIOUS
      <4>3. [k \in 1..Len(sc.out[r]) |-> Emitted(d, sc.job, sc.out[r][k])] \in Seq(Messages(E))
        BY <2>3, <4>2
      <4> QED
        BY <4>1, <4>3
    <3> QED
      BY <3>1, Zenon
  <2> HIDE DEF out
  <2>5. /\ DOMAIN schedulers \subseteq Jobs \X Nat
        /\ \A k \in DOMAIN schedulers : /\ IsScheduler(schedulers[k]) /\ Sound(schedulers[k])
                                        /\ k = <<schedulers[k].job, schedulers[k].index>>
                                        /\ schedulers[k].out = NothingSent
    <3>1. /\ DOMAIN b.schedulers \subseteq Jobs \X Nat
          /\ \A k \in DOMAIN b.schedulers : /\ IsScheduler(b.schedulers[k]) /\ Sound(b.schedulers[k])
                                            /\ k = <<b.schedulers[k].job, b.schedulers[k].index>>
                                            /\ b.schedulers[k].out = NothingSent
      BY Zenon DEF Minor, Types, IsDatabase
    <3> QED
      BY <2>2, <3>1 DEF With, Sound
  <2> HIDE DEF schedulers
  <2>6. Minor(b, [b EXCEPT !.schedulers = schedulers, !.out = out], E)
    <3>1. ASSUME NEW e, e = [b EXCEPT !.schedulers = schedulers, !.out = out] PROVE Minor(b, e, E)
      BY <2>4, <2>5, <3>1, Zenon DEF Minor, Types, IsDatabase, SameCore, SameStanding
    <3> QED
      BY <3>1, Zenon
  <2>7. PutScheduler(d, sc) = [b EXCEPT !.schedulers = schedulers, !.out = out]
    BY <1>2, Zenon DEF PutScheduler, b, schedulers, out, tc
  <2> QED
    BY <2>6, <2>7, MinorTrans, Zenon
<1> QED
  BY <1>1, <1>2, Zenon

\* A scheduler that exists is put back; one that does not is left alone (getScheduler).
LEMMA SetStep ==
    ASSUME NEW d, NEW E, Types(d, E), NEW j, NEW index, NEW sc, HasScheduler(d, j, index) => Sound(sc)
    PROVE  Minor(d, SetScheduler(d, j, index, sc), E)
BY PutStep, MinorSelf, Zenon DEF SetScheduler

\* Schedulers are erased.
LEMMA EraseStep ==
    ASSUME NEW d, NEW E, Types(d, E), NEW keys
    PROVE  Minor(d, EraseSchedulers(d, keys), E)
<1> DEFINE schedulers == [k \in DOMAIN d.schedulers \ keys |-> d.schedulers[k]]
<1>1. /\ DOMAIN schedulers \subseteq DOMAIN d.schedulers
      /\ \A k \in DOMAIN schedulers : schedulers[k] = d.schedulers[k]
  BY Zenon
<1> HIDE DEF schedulers
<1>2. ASSUME NEW e, e = [d EXCEPT !.schedulers = schedulers] PROVE Minor(d, e, E)
  BY <1>1, <1>2, Zenon DEF Minor, Types, IsDatabase, SameCore, SameStanding
<1> QED
  BY <1>2, Zenon DEF EraseSchedulers, schedulers

\* JobDatabase::suspendScheduler: the scheduler of a node is suspended, and given up when it can
\* commit again.
LEMMA SuspendSchedulerStep ==
    ASSUME NEW d, NEW E, Types(d, E), NEW j \in Jobs
    PROVE  Minor(d, SuspendScheduler(d, j), E)
<1> DEFINE index == d.jobs[j].index
           sc == GetScheduler(d, j, index)
           e == SetScheduler(d, j, index, IF IsActive(sc) THEN Suspension(sc) ELSE sc)
           erased == EraseSchedulers(e, {<<j, index>>})
           num == [erased.numSchedulers EXCEPT ![j] = @ - 1]
<1>1. HasScheduler(d, j, index) => Sound(IF IsActive(sc) THEN Suspension(sc) ELSE sc)
  BY OwnScheduler, SuspensionSound, Zenon
<1>2. Minor(d, e, E)
  BY <1>1, SetStep, Zenon
<1> HIDE DEF e
<1>3. Minor(e, erased, E)
  BY <1>2, EraseStep, Zenon DEF Minor
<1>4. SuspendScheduler(d, j) = e \/ SuspendScheduler(d, j) = [erased EXCEPT !.numSchedulers = num]
  BY Zenon DEF SuspendScheduler, e
<1> HIDE DEF erased
<1>5. num \in [Jobs -> Int]
  <2>1. erased.numSchedulers \in [Jobs -> Int]
    BY <1>3, Zenon DEF Minor, Types, IsDatabase
  <2> QED
    BY <2>1
<1>6. Minor(erased, [erased EXCEPT !.numSchedulers = num], E)
  BY <1>3, <1>5, FieldSteps, Zenon DEF Minor
<1> QED
  BY <1>2, <1>3, <1>4, <1>6, MinorTrans, Zenon

\* The scheduler of a node that is committed to a request is opened or resumed; one that
\* exists already can commit (JobDatabase::initScheduler).
LEMMA InitSchedulerStep ==
    ASSUME NEW d, NEW E, Types(d, E), NEW req \in Requests, Has(d, req.job),
           d.jobs[req.job].index = req.index,
           HasScheduler(d, req.job, req.index) => CanCommit(d.schedulers[<<req.job, req.index>>])
    PROVE  Minor(d, InitScheduler(d, req), E)
<1> DEFINE j == req.job
           node == d.jobs[j]
           isNew == ~HasScheduler(d, j, req.index)
           sc == IF isNew THEN NewScheduler(j, node.index, d.rank, node.parent)
                 ELSE d.schedulers[<<j, req.index>>]
           num == [d.numSchedulers EXCEPT ![j] = @ + (IF isNew THEN 1 ELSE 0)]
           e == [d EXCEPT !.numSchedulers = num]
           tc == IF node.index > 0 THEN ResetRole(sc)
                 ELSE IF req.rev > 0 THEN BeginResumptionAsRoot(sc)
                 ELSE InitializeScheduling(sc, Larger(req.epoch, 0), -1, {}, node.parent)
<1> j \in Jobs /\ req.index \in Nat /\ req.epoch \in Int
  BY Zenon DEF Requests
<1>1. node \in JobNodes /\ d.rank \in Workers /\ d.numSchedulers \in [Jobs -> Int]
  BY JobSteps, Zenon DEF Types, IsDatabase
<1>2. node.parent \in Ranks \cup {None}
  BY <1>1, Zenon DEF JobNodes
<1>3. Sound(sc) /\ sc.suspended
  <2>1. CASE isNew
    BY <1>1, <1>2, <2>1, NewSchedulerSound
  <2>2. CASE ~isNew
    BY <2>2, OwnScheduler, Zenon DEF CanCommit, GetScheduler
  <2> QED
    BY <2>1, <2>2, Zenon
<1>4. num \in [Jobs -> Int]
  BY <1>1
<1>5. Minor(d, e, E)
  BY <1>4, FieldSteps, Zenon
<1>6. InitScheduler(d, req) = PutScheduler(e, tc)
  BY Zenon DEF InitScheduler
<1> HIDE DEF sc
<1>7. Sound(tc)
  <2>1. Sound(ResetRole(sc)) /\ Sound(BeginResumptionAsRoot(sc))
    BY <1>3, ResetSound, BeginResumptionSound, Zenon
  <2>2. Larger(req.epoch, 0) \in Int
    BY DEF Larger
  <2>3. Sound(InitializeScheduling(sc, Larger(req.epoch, 0), -1, {}, node.parent))
    BY <1>2, <1>3, <2>2, InitializeSound DEF Sound
  <2> QED
    BY <2>1, <2>3, Zenon
<1> HIDE DEF tc, e, num
<1> QED
  BY <1>5, <1>6, <1>7, PutStep, MinorTrans DEF Minor

-----------------------------------------------------------------------------
(***************************************************************************)
(* The operations that change a node's standing. First what they do to     *)
(* coherence, in terms of the fields it is about.                          *)
(***************************************************************************)
\* Only the node of job j changes its standing, and no watched assertion fails.
OnlyNode(d, e, j) ==
    /\ e.rank = d.rank /\ e.epoch = d.epoch /\ e.failed \cap Watched = d.failed \cap Watched
    /\ \A i \in Jobs : i # j => SameStanding(d.jobs[i], e.jobs[i])

\* What the other nodes are stays as it is.
LEMMA OtherNodes ==
    ASSUME NEW d, NEW e, NEW j, OnlyNode(d, e, j)
    PROVE  \A i \in Jobs : i # j =>
              /\ Has(e, i) <=> Has(d, i)
              /\ Has(d, i) => /\ e.jobs[i].state = d.jobs[i].state /\ e.jobs[i].index = d.jobs[i].index
                              /\ e.jobs[i].commitment = d.jobs[i].commitment
              /\ Runs(e, i) <=> Runs(d, i)
              /\ HasCommitment(e, i) <=> HasCommitment(d, i)
              /\ IsDormantRoot(e.jobs[i]) <=> IsDormantRoot(d.jobs[i])
              /\ KeepsRoot(d, e, i)
<1>1. \A i \in Jobs : i # j =>
          /\ Has(e, i) <=> Has(d, i)
          /\ Has(d, i) => /\ e.jobs[i].state = d.jobs[i].state /\ e.jobs[i].index = d.jobs[i].index
                          /\ e.jobs[i].commitment = d.jobs[i].commitment
  BY Zenon DEF OnlyNode, SameStanding, Has
<1> QED
  BY <1>1, Zenon DEF Runs, HasCommitment, IsDormantRoot, IsDormant, KeepsRoot, ActiveRoot, StartedRoot, Has

\* A worker that has a commitment computes for nothing, and one that computes has none.
LEMMA Alone ==
    ASSUME NEW d, Coherent(d), NEW j \in Jobs
    PROVE  /\ HasCommitment(d, j) =>
                 /\ d.load = None /\ d.active = j /\ d.jobs[j].state # "ACTIVE" /\ d.hasCommitment
                 /\ \A i \in Jobs : ~Runs(d, i) /\ (i # j => ~HasCommitment(d, i))
           /\ Runs(d, j) =>
                 /\ d.load = j /\ d.active = j /\ ~d.hasCommitment /\ d.jobs[j].commitment = None
                 /\ \A i \in Jobs : /\ ~HasCommitment(d, i) /\ ~IsDormantRoot(d.jobs[i])
                                    /\ i # j => ~Runs(d, i)
BY DatabaseAssumption
   DEF Coherent, OneJob, BalancerKnows, DormantAlone, IsMember, Runs, HasCommitment, Has

\* A commitment that ends leaves a coherent database (JobDatabase::uncommit and onTerminate).
LEMMA GiveUpCoherent ==
    ASSUME NEW d, NEW e, NEW j \in Jobs, Coherent(d), HasCommitment(d, j), OnlyNode(d, e, j),
           Has(e, j), e.jobs[j].state = d.jobs[j].state, e.jobs[j].index = d.jobs[j].index,
           e.jobs[j].commitment = None, e.load = d.load, e.hasCommitment = FALSE, e.active = None
    PROVE  Coherent(e) /\ Keeps(d, e)
<1> /\ d.load = None /\ d.jobs[j].state # "ACTIVE"
    /\ \A i \in Jobs : ~Runs(d, i) /\ (i # j => ~HasCommitment(d, i))
  BY Alone, Zenon
<1>1. \A i \in Jobs : ~Runs(e, i) /\ ~HasCommitment(e, i)
  BY OtherNodes DEF Runs, HasCommitment
<1>2. \A i \in Jobs : IsDormantRoot(e.jobs[i]) <=> IsDormantRoot(d.jobs[i])
  BY OtherNodes DEF IsDormantRoot, IsDormant, HasCommitment, Has
<1>3. OneJob(e) /\ RolesKept(e) /\ BalancerKnows(e)
  <2>1. \A i \in Jobs : Has(e, i) => e.jobs[i].index \in Nat
    BY OtherNodes DEF Coherent, RolesKept, HasCommitment
  <2> QED
    BY <1>1, <2>1, DatabaseAssumption, Zenon DEF OneJob, RolesKept, BalancerKnows, IsMember
<1>4. DormantAlone(e)
  BY <1>1, <1>2, Zenon DEF DormantAlone, Coherent
<1>5. Keeps(d, e)
  <2>1. KeepsRoot(d, e, j)
    BY Zenon DEF KeepsRoot, ActiveRoot, StartedRoot, HasCommitment
  <2>2. \A i \in Jobs : i # j => KeepsRoot(d, e, i)
    BY OtherNodes, Zenon
  <2> QED
    BY <2>1, <2>2, Zenon DEF Keeps, OnlyNode
<1> QED
  BY <1>3, <1>4, <1>5, Zenon DEF Coherent, OnlyNode

\* An active node that is suspended does, too, and a root stays a root (JobDatabase::suspend).
LEMMA SuspendCoherent ==
    ASSUME NEW d, NEW e, NEW j \in Jobs, Coherent(d), Runs(d, j), OnlyNode(d, e, j),
           Has(e, j), e.jobs[j].state = "SUSPENDED", e.jobs[j].index = d.jobs[j].index,
           e.jobs[j].commitment = d.jobs[j].commitment,
           e.load = None, e.hasCommitment = d.hasCommitment, e.active = None,
           j \in Incremental \/ d.jobs[j].index # 0
    PROVE  Coherent(e) /\ Keeps(d, e)
<1>1. /\ ~d.hasCommitment /\ d.jobs[j].commitment = None
      /\ \A i \in Jobs : /\ ~HasCommitment(d, i) /\ ~IsDormantRoot(d.jobs[i])
                         /\ i # j => ~Runs(d, i)
  BY Alone, Zenon
<1>2. \A i \in Jobs : ~Runs(e, i) /\ ~HasCommitment(e, i) /\ (i # j => ~IsDormantRoot(e.jobs[i]))
  BY <1>1, OtherNodes DEF Runs, HasCommitment
<1>3. OneJob(e) /\ RolesKept(e) /\ BalancerKnows(e)
  <2>1. \A i \in Jobs : Has(e, i) => e.jobs[i].index \in Nat
    BY OtherNodes DEF Coherent, RolesKept, Runs
  <2> QED
    BY <1>1, <1>2, <2>1, DatabaseAssumption, Zenon DEF OneJob, RolesKept, BalancerKnows, IsMember
<1>4. DormantAlone(e)
  BY <1>2, Zenon DEF DormantAlone
<1>5. Keeps(d, e)
  <2>1. KeepsRoot(d, e, j)
    BY Zenon DEF KeepsRoot, ActiveRoot, StartedRoot
  <2>2. \A i \in Jobs : i # j => KeepsRoot(d, e, i)
    BY OtherNodes
  <2> QED
    BY <2>1, <2>2, Zenon DEF Keeps, OnlyNode
<1> QED
  BY <1>3, <1>4, <1>5, Zenon DEF Coherent, OnlyNode

\* So does a commitment of an idle worker that no dormant root of another job keeps from it
\* (JobDatabase::commit).
LEMMA CommitCoherent ==
    ASSUME NEW d, NEW e, NEW j \in Jobs, Coherent(d), d.load = None, ~d.hasCommitment, OnlyNode(d, e, j),
           HasDormantRoot(d) => IsDormantRoot(d.jobs[j]),
           Has(d, j) => e.jobs[j].state = d.jobs[j].state,
           Has(d, j) /\ d.jobs[j].index = 0 => e.jobs[j].index = 0,
           Has(e, j), e.jobs[j].state # "ACTIVE", e.jobs[j].commitment # None,
           e.jobs[j].commitment.job = j, e.jobs[j].commitment.index = e.jobs[j].index,
           e.load = None, e.hasCommitment = TRUE, e.active = j,
           e.jobs[j].index \in Nat, e.jobs[j].index = 0 => j \in e.rooted
    PROVE  Coherent(e) /\ Keeps(d, e)
<1>1. \A i \in Jobs : ~HasCommitment(d, i) /\ ~Runs(d, i)
  BY DatabaseAssumption, Zenon DEF Coherent, OneJob
<1>2. /\ \A i \in Jobs : ~Runs(e, i) /\ (i # j => ~HasCommitment(e, i))
      /\ HasCommitment(e, j)
  BY <1>1, OtherNodes DEF Runs, HasCommitment
<1>3. OneJob(e) /\ RolesKept(e) /\ BalancerKnows(e)
  <2>1. \A i \in Jobs : Has(e, i) => e.jobs[i].index \in Nat
    BY OtherNodes DEF Coherent, RolesKept
  <2> QED
    BY <1>1, <1>2, <2>1, DatabaseAssumption, Zenon DEF OneJob, RolesKept, BalancerKnows, IsMember
<1>4. ASSUME NEW i \in Jobs, IsDormantRoot(e.jobs[i]) PROVE i = j
  <2>1. CASE i # j
    <3>1. IsDormantRoot(d.jobs[i]) /\ IsDormantRoot(d.jobs[j])
      BY <1>4, <2>1, OtherNodes DEF HasDormantRoot
    <3> QED
      BY <3>1, Zenon DEF Coherent, DormantAlone
  <2> QED
    BY <2>1, Zenon
<1>5. DormantAlone(e)
  BY <1>2, <1>4, Zenon DEF DormantAlone
<1>6. Keeps(d, e)
  <2>1. KeepsRoot(d, e, j)
    BY <1>1, Zenon DEF KeepsRoot, ActiveRoot, StartedRoot, Runs
  <2>2. \A i \in Jobs : i # j => KeepsRoot(d, e, i)
    BY OtherNodes
  <2> QED
    BY <2>1, <2>2, Zenon DEF Keeps, OnlyNode
<1> QED
  BY <1>3, <1>5, <1>6, Zenon DEF Coherent, OnlyNode

\* So does a committed node that becomes active (JobDatabase::execute, reactivate).
LEMMA StartCoherent ==
    ASSUME NEW d, NEW e, NEW j \in Jobs, Coherent(d), HasCommitment(d, j), OnlyNode(d, e, j),
           Has(e, j), e.jobs[j].state = "ACTIVE", e.jobs[j].index = d.jobs[j].index,
           e.jobs[j].commitment = None, e.load = j, e.hasCommitment = FALSE, e.active = j,
           e.rooted = d.rooted
    PROVE  Coherent(e) /\ Keeps(d, e)
<1>1. \A i \in Jobs : ~Runs(d, i) /\ (i # j => ~HasCommitment(d, i))
  BY Alone, Zenon
<1>2. /\ \A i \in Jobs : ~HasCommitment(e, i) /\ (i # j => ~Runs(e, i))
      /\ Runs(e, j)
  BY <1>1, OtherNodes DEF Runs, HasCommitment
<1>3. OneJob(e) /\ RolesKept(e)
  <2>1. \A i \in Jobs : Has(e, i) => e.jobs[i].index \in Nat
    BY OtherNodes DEF Coherent, RolesKept, HasCommitment
  <2> QED
    BY <1>2, <2>1, DatabaseAssumption, Zenon DEF OneJob, RolesKept
<1>4. BalancerKnows(e)
  BY <1>2, Zenon DEF BalancerKnows, IsMember, Coherent
<1>5. DormantAlone(e)
  BY <1>2, OtherNodes DEF DormantAlone, Coherent, IsDormantRoot, IsDormant
<1>6. Keeps(d, e)
  <2>1. KeepsRoot(d, e, j)
    BY <1>1, Zenon DEF KeepsRoot, ActiveRoot, StartedRoot, HasCommitment
  <2>2. \A i \in Jobs : i # j => KeepsRoot(d, e, i)
    BY OtherNodes, Zenon
  <2> QED
    BY <2>1, <2>2, Zenon DEF Keeps, OnlyNode
<1> QED
  BY <1>3, <1>4, <1>5, <1>6, Zenon DEF Coherent, OnlyNode

\* So does a job that leaves the database (JobDatabase::terminate, forget).
LEMMA TerminateCoherent ==
    ASSUME NEW d, NEW e, NEW j \in Jobs, Coherent(d), OnlyNode(d, e, j), ~Has(e, j),
           e.load = (IF d.load = j THEN None ELSE d.load),
           e.hasCommitment = (IF HasCommitment(d, j) THEN FALSE ELSE d.hasCommitment),
           e.active = (IF d.active = j THEN None ELSE d.active),
           \A i \in d.rooted : i # j => i \in e.rooted
    PROVE  Coherent(e) /\ \A i \in Jobs : i # j => KeepsRoot(d, e, i)
<1> ~Runs(e, j) /\ ~HasCommitment(e, j) /\ ~IsDormantRoot(e.jobs[j])
  BY Zenon DEF Runs, HasCommitment, IsDormantRoot, IsDormant, Has
<1>1. OneJob(e)
  BY OtherNodes, Alone, DatabaseAssumption DEF OneJob, Coherent
<1>2. RolesKept(e)
  BY OtherNodes DEF RolesKept, Coherent, HasCommitment
<1>3. BalancerKnows(e)
  BY OtherNodes, DatabaseAssumption DEF BalancerKnows, IsMember, Coherent, Runs, HasCommitment
<1>4. DormantAlone(e)
  BY OtherNodes DEF DormantAlone, Coherent
<1>5. \A i \in Jobs : i # j => KeepsRoot(d, e, i)
  BY OtherNodes
<1>6. e.failed \cap Watched = {}
  BY Zenon DEF OnlyNode, Coherent
<1> QED
  BY <1>1, <1>2, <1>3, <1>4, <1>5, <1>6, Zenon DEF Coherent

\* The fields that coherence is about are the same.
SameFields(d, e) ==
    /\ e.rank = d.rank /\ e.epoch = d.epoch /\ e.failed \cap Watched = d.failed \cap Watched
    /\ e.jobs = d.jobs /\ e.load = d.load /\ e.hasCommitment = d.hasCommitment
    /\ e.active = d.active /\ e.rooted = d.rooted

\* An assertion that holds is not recorded.
LEMMA CheckHolds ==
    ASSUME NEW d, NEW E, Types(d, E), NEW function, NEW condition, condition
    PROVE  Types(Check(d, function, condition), E) /\ SameFields(d, Check(d, function, condition))
BY Zenon DEF Check, Types, IsDatabase, SameFields

\* An event for the balancer changes none of these fields (pushEvent).
LEMMA PushFields ==
    ASSUME NEW d, NEW E, Types(d, E), NEW j, NEW demand \in Nat
    PROVE  Types(Push(d, j, demand), E) /\ SameFields(d, Push(d, j, demand))
<1>1. Types(Push(d, j, demand), E)
  BY SendSteps, Zenon DEF Minor
<1>2. SameFields(d, Push(d, j, demand))
  BY Zenon DEF Push, Types, IsDatabase, SameFields
<1> QED
  BY <1>1, <1>2, Zenon

\* The types of these fields.
LEMMA CoreTypes ==
    ASSUME NEW d, NEW E, Types(d, E)
    PROVE  /\ d.jobs \in [Jobs -> JobNodes \cup {None}]
           /\ d.load \in Jobs \cup {None} /\ d.active \in Jobs \cup {None} /\ d.hasCommitment \in BOOLEAN
           /\ d.rooted \subseteq Jobs /\ d.local \subseteq Jobs /\ d.rank \in Workers /\ d.epoch \in Nat
BY Zenon DEF Types, IsDatabase

\* The commitment of a node is gone.
LEMMA UncommitFields ==
    ASSUME NEW d, NEW E, Good(d, E), NEW j \in Jobs, HasCommitment(d, j)
    PROVE  LET a == Uncommit(d, j)
           IN /\ Types(a, E) /\ OnlyNode(d, a, j) /\ a.jobs[j] \in JobNodes
              /\ a.jobs[j].state = d.jobs[j].state /\ a.jobs[j].index = d.jobs[j].index
              /\ a.jobs[j].commitment = None /\ a.jobs[j].state # "ACTIVE"
              /\ a.load = None /\ a.hasCommitment = FALSE /\ a.active = j /\ a.rooted = d.rooted
              /\ d.jobs[j].index = 0 => j \in a.rooted
<1> DEFINE n == [d.jobs[j] EXCEPT !.commitment = None]
           jobs == [d.jobs EXCEPT ![j] = n]
           checked == Check(d, "uncommit", d.jobs[j].state # "ACTIVE")
           a == [checked EXCEPT !.jobs = jobs, !.hasCommitment = FALSE]
<1> /\ d.load = None /\ d.active = j /\ d.jobs[j].state # "ACTIVE" /\ Has(d, j)
    /\ d.jobs[j].index = 0 => j \in d.rooted
  BY Alone, Zenon DEF Good, HasCommitment, Coherent, BalancerKnows, IsMember
<1>1. Types(d, E) /\ d.jobs[j] \in JobNodes
  BY JobSteps, Zenon DEF Good
<1>2. n \in JobNodes /\ n.state = d.jobs[j].state /\ n.index = d.jobs[j].index /\ n.commitment = None
  BY <1>1 DEF JobNodes
<1>3. Types(checked, E) /\ SameFields(d, checked)
  BY <1>1, CheckHolds, Zenon
<1>4. Uncommit(d, j) = a
  BY <1>3, Zenon DEF Uncommit, SameFields
<1> HIDE DEF n, checked
<1>5. /\ jobs \in [Jobs -> JobNodes \cup {None}] /\ jobs[j] = n
      /\ \A i \in Jobs : i # j => SameStanding(d.jobs[i], jobs[i])
  BY <1>1, <1>2, CoreTypes, Zenon DEF SameStanding
<1> HIDE DEF jobs
<1>6. /\ Types(a, E) /\ a.rank = d.rank /\ a.epoch = d.epoch /\ a.failed \cap Watched = d.failed \cap Watched
      /\ a.jobs = jobs /\ a.load = None /\ a.hasCommitment = FALSE /\ a.active = j /\ a.rooted = d.rooted
  BY <1>3, <1>5, Zenon DEF Types, IsDatabase, SameFields
<1> HIDE DEF a
<1>7. OnlyNode(d, a, j)
  BY <1>5, <1>6, Zenon DEF OnlyNode
<1> QED
  BY <1>2, <1>4, <1>5, <1>6, <1>7, Zenon

\* A worker gives up its commitment: uncommit, onTerminate and suspendScheduler.
LEMMA GiveUpStep ==
    ASSUME NEW d, NEW E, Good(d, E), NEW j \in Jobs, HasCommitment(d, j)
    PROVE  LET e == SuspendScheduler(OnTerminate(Uncommit(d, j), j), j)
           IN /\ Step(d, e, E) /\ Has(e, j) /\ ~HasCommitment(e, j)
              /\ e.jobs[j].state = d.jobs[j].state /\ e.jobs[j].index = d.jobs[j].index
              /\ e.load = None /\ e.hasCommitment = FALSE
<1> DEFINE a == Uncommit(d, j)
           b == [a EXCEPT !.active = None, !.local = @ \ {j}]
           p == Push(b, j, 0)
           c == IF d.jobs[j].index = 0 THEN [p EXCEPT !.rooted = @ \ {j}] ELSE b
<1> /\ Types(a, E) /\ OnlyNode(d, a, j) /\ a.jobs[j] \in JobNodes
    /\ a.jobs[j].state = d.jobs[j].state /\ a.jobs[j].index = d.jobs[j].index
    /\ a.jobs[j].commitment = None /\ a.load = None /\ a.hasCommitment = FALSE /\ a.active = j
    /\ d.jobs[j].index = 0 => j \in a.rooted
  BY UncommitFields, Zenon
<1> HIDE DEF a
<1>1. /\ Types(b, E) /\ b.rank = a.rank /\ b.epoch = a.epoch /\ b.failed = a.failed /\ b.jobs = a.jobs
      /\ b.load = None /\ b.hasCommitment = FALSE /\ b.active = None
  BY Zenon DEF Types, IsDatabase
<1>2. OnTerminate(a, j) = c
  BY Zenon DEF OnTerminate
<1> HIDE DEF b
<1>3. /\ Types(p, E) /\ p.rank = a.rank /\ p.epoch = a.epoch /\ p.failed \cap Watched = a.failed \cap Watched
      /\ p.load = None /\ p.hasCommitment = FALSE /\ p.active = None /\ p.jobs = a.jobs
  BY <1>1, PushFields DEF SameFields
<1> HIDE DEF p
<1> /\ Types(c, E) /\ c.rank = a.rank /\ c.epoch = a.epoch /\ c.failed \cap Watched = a.failed \cap Watched
    /\ c.load = None /\ c.hasCommitment = FALSE /\ c.active = None /\ c.jobs = a.jobs
  BY <1>1, <1>3, Zenon DEF Types, IsDatabase
<1> HIDE DEF c
<1>4. OnlyNode(d, c, j) /\ Has(c, j)
  BY NoneAssumption, Zenon DEF OnlyNode, Has
<1>5. d.load = None
  BY Alone, Zenon DEF Good
<1>6. Coherent(c) /\ Keeps(d, c)
  BY <1>4, <1>5, GiveUpCoherent, Zenon DEF Good
<1>7. Minor(c, SuspendScheduler(c, j), E)
  BY SuspendSchedulerStep, Zenon
<1>8. Step(d, SuspendScheduler(c, j), E)
  BY <1>6, <1>7, MinorStep, StepTrans, Zenon DEF Step, Good
<1>9. LET e == SuspendScheduler(c, j)
      IN /\ Has(e, j) /\ ~HasCommitment(e, j)
         /\ e.jobs[j].state = d.jobs[j].state /\ e.jobs[j].index = d.jobs[j].index
         /\ e.load = None /\ e.hasCommitment = FALSE
  BY <1>4, <1>7 DEF Minor, SameCore, SameStanding, Has, HasCommitment
<1> QED
  BY <1>2, <1>8, <1>9, Zenon DEF a

\* A worker stops computing for a job (JobDatabase::suspend): the root of a job only if the
\* job is incremental.
LEMMA SuspendStep ==
    ASSUME NEW d, NEW E, Good(d, E), NEW j \in Jobs, Runs(d, j), j \in Incremental \/ d.jobs[j].index # 0
    PROVE  LET e == Suspend(d, j)
           IN /\ Step(d, e, E) /\ Has(e, j) /\ ~HasCommitment(e, j)
              /\ e.jobs[j].state = "SUSPENDED" /\ e.jobs[j].index = d.jobs[j].index
              /\ e.load = None /\ ~e.hasCommitment
              /\ HasDormantRoot(e) => e.jobs[j].index = 0
<1> DEFINE s == SuspendScheduler(d, j)
           checked == Check(s, "suspend", Has(d, j) /\ d.jobs[j].state = "ACTIVE")
           n == UnsetChildren([checked.jobs[j] EXCEPT !.state = "SUSPENDED"])
           jobs == [checked.jobs EXCEPT ![j] = n]
           stopped == [checked EXCEPT !.jobs = jobs]
           cleared == Check(stopped, "setLoad", stopped.load # None /\ Has(stopped, j))
           idle == [cleared EXCEPT !.load = None]
           a == [idle EXCEPT !.active = None]
           told == Check(a, "onSuspend", j \in idle.rooted)
           p == Push(told, j, 1)
           e == IF d.jobs[j].index = 0 THEN p ELSE a
<1>1. /\ d.load = j /\ d.active = j /\ ~d.hasCommitment /\ d.jobs[j].commitment = None
      /\ Has(d, j) /\ d.jobs[j].state = "ACTIVE"
      /\ d.jobs[j].index = 0 => j \in d.rooted
  BY Alone, Zenon DEF Good, Runs, Coherent, BalancerKnows, IsMember
<1>2. Types(s, E) /\ SameCore(d, s)
  BY SuspendSchedulerStep, Zenon DEF Good, Minor
<1> HIDE DEF s
<1>3. Types(checked, E) /\ SameFields(s, checked)
  BY <1>1, <1>2, CheckHolds, Zenon
<1>4. Has(checked, j) /\ checked.load = j /\ checked.active = j /\ ~checked.hasCommitment
  BY <1>1, <1>2, <1>3, Zenon DEF SameCore, SameFields, SameStanding, Has
<1>5. checked.jobs[j] \in JobNodes /\ checked.jobs[j].index = d.jobs[j].index /\ checked.jobs[j].commitment = None
  BY <1>1, <1>2, <1>3, <1>4, JobSteps, Zenon DEF SameCore, SameFields, SameStanding, Has
<1>6. OnlyNode(d, checked, j) /\ (d.jobs[j].index = 0 => j \in checked.rooted)
  BY <1>1, <1>2, <1>3, Zenon DEF OnlyNode, SameCore, SameFields
<1>7. Suspend(d, j) = OnSuspend(ClearLoad(stopped, j), j)
  BY Zenon DEF Suspend, s
<1> HIDE DEF checked
<1>8. n \in JobNodes /\ n.state = "SUSPENDED" /\ n.index = d.jobs[j].index /\ n.commitment = None
  <2> DEFINE m == [checked.jobs[j] EXCEPT !.state = "SUSPENDED"]
             past == m.past \cup ({m.left, m.right} \ {None})
  <2>1. m \in JobNodes /\ m.state = "SUSPENDED" /\ m.index = d.jobs[j].index /\ m.commitment = None
    BY <1>5 DEF JobNodes
  <2>2. n = [m EXCEPT !.left = None, !.right = None, !.past = past]
    BY Zenon DEF UnsetChildren
  <2> HIDE DEF m
  <2>3. past \in SUBSET Ranks
    BY <2>1, Zenon DEF JobNodes
  <2> HIDE DEF past, n
  <2> DEFINE l == [m EXCEPT !.left = None]
             r == [l EXCEPT !.right = None]
  <2>4. Alike(m, l)
    BY <2>1, NodeFields, Zenon
  <2>5. Alike(l, r)
    BY <2>4, NodeFields, Zenon DEF Alike
  <2>6. Alike(r, [r EXCEPT !.past = past])
    BY <2>3, <2>5, NodeFields, Zenon DEF Alike
  <2>7. n = [r EXCEPT !.past = past]
    BY <2>2, Zenon
  <2> HIDE DEF l, r
  <2> QED
    BY <2>1, <2>4, <2>5, <2>6, <2>7, NoneAssumption, Zenon DEF Alike, SameStanding
<1> HIDE DEF n
<1>9. /\ jobs \in [Jobs -> JobNodes \cup {None}] /\ jobs[j] = n
      /\ \A i \in Jobs : i # j => jobs[i] = checked.jobs[i]
  BY <1>3, <1>8, CoreTypes, Zenon
<1> HIDE DEF jobs
<1>10. /\ Types(stopped, E) /\ stopped.rank = checked.rank /\ stopped.epoch = checked.epoch
       /\ stopped.failed = checked.failed /\ stopped.jobs = jobs /\ stopped.load = j
       /\ stopped.hasCommitment = checked.hasCommitment /\ stopped.active = j /\ stopped.rooted = checked.rooted
  BY <1>3, <1>4, <1>9, Zenon DEF Types, IsDatabase
<1> HIDE DEF stopped
<1>11. stopped.load # None /\ Has(stopped, j)
  BY <1>8, <1>9, <1>10, DatabaseAssumption, NoneAssumption, Zenon DEF Has
<1>12. Types(cleared, E) /\ SameFields(stopped, cleared)
  BY <1>10, <1>11, CheckHolds, Zenon
<1>13. OnSuspend(ClearLoad(stopped, j), j) = OnSuspend(idle, j)
  BY Zenon DEF ClearLoad
<1> HIDE DEF cleared
<1>14. /\ Types(idle, E) /\ idle.rank = stopped.rank /\ idle.epoch = stopped.epoch
       /\ idle.failed = cleared.failed /\ idle.jobs = jobs /\ idle.load = None
       /\ idle.hasCommitment = checked.hasCommitment /\ idle.active = j /\ idle.rooted = checked.rooted
  BY <1>10, <1>12, Zenon DEF Types, IsDatabase, SameFields
<1>15. OnSuspend(idle, j) = e
  BY <1>8, <1>9, <1>14 DEF OnSuspend
<1> HIDE DEF idle
<1>16. /\ Types(a, E) /\ a.rank = idle.rank /\ a.epoch = idle.epoch /\ a.failed = idle.failed
       /\ a.jobs = jobs /\ a.load = None /\ a.hasCommitment = checked.hasCommitment /\ a.active = None
       /\ a.rooted = checked.rooted
  BY <1>14, Zenon DEF Types, IsDatabase
<1> HIDE DEF a
<1>17. d.jobs[j].index = 0 => Types(told, E) /\ SameFields(a, told)
  BY <1>6, <1>14, <1>16, CheckHolds, Zenon
<1> HIDE DEF told
<1>18. d.jobs[j].index = 0 => Types(p, E) /\ SameFields(told, p)
  BY <1>17, PushFields, Zenon
<1> HIDE DEF p
<1>19. Types(e, E) /\ SameFields(a, e)
  BY <1>16, <1>17, <1>18, Zenon DEF SameFields
<1> HIDE DEF e
<1>20. OnlyNode(d, e, j)
  BY <1>6, <1>9, <1>10, <1>12, <1>14, <1>16, <1>19 DEF OnlyNode, SameFields
<1>21. /\ Has(e, j) /\ e.jobs[j].state = "SUSPENDED" /\ e.jobs[j].index = d.jobs[j].index
       /\ e.jobs[j].commitment = None /\ e.load = None /\ e.hasCommitment = d.hasCommitment
       /\ e.active = None
  BY <1>8, <1>9, <1>16, <1>19, <1>4, <1>1, <1>3, <1>2, NoneAssumption DEF SameFields, SameCore, Has
<1>22. Coherent(e) /\ Keeps(d, e)
  BY <1>1, <1>20, <1>21, SuspendCoherent, Zenon DEF Good
<1>23. \A i \in Jobs : i # j => ~IsDormantRoot(e.jobs[i])
  BY <1>20, OtherNodes, Alone DEF Good
<1>24. HasDormantRoot(e) => e.jobs[j].index = 0
  BY <1>23, Zenon DEF HasDormantRoot, IsDormantRoot
<1> QED
  BY <1>1, <1>7, <1>13, <1>15, <1>19, <1>21, <1>22, <1>24, Zenon DEF Step, Good, HasCommitment

\* A node takes the role of a request, and commits to it.
LEMMA PlacedType ==
    ASSUME NEW n \in JobNodes, NEW w \in Workers, NEW req \in Requests
    PROVE  /\ Placed(n, w, req) \in JobNodes /\ Placed(n, w, req).index = req.index
           /\ Placed(n, w, req).state = n.state /\ Placed(n, w, req).commitment = n.commitment
<1> DEFINE root == IF req.index = 0 \/ req.root = None THEN w ELSE req.root
           a == [n EXCEPT !.index = req.index]
           b == [a EXCEPT !.parent = req.from]
           c == [b EXCEPT !.root = root]
<1>1. req.index \in Nat /\ req.from \in Ranks /\ root \in Workers
  BY Zenon DEF Requests
<1>2. Placed(n, w, req) = c
  BY Zenon DEF Placed
<1> HIDE DEF root
<1>3. a \in JobNodes /\ a.index = req.index /\ a.state = n.state /\ a.commitment = n.commitment
  BY <1>1 DEF JobNodes
<1> HIDE DEF a
<1>4. b \in JobNodes /\ b.index = a.index /\ b.state = a.state /\ b.commitment = a.commitment
  BY <1>1, <1>3 DEF JobNodes
<1> HIDE DEF b
<1>5. c \in JobNodes /\ c.index = b.index /\ c.state = b.state /\ c.commitment = b.commitment
  BY <1>1, <1>4 DEF JobNodes
<1> QED
  BY <1>2, <1>3, <1>4, <1>5, Zenon

\* The node that has committed to a request has its index and keeps its state (Job::commit).
LEMMA CommittedType ==
    ASSUME NEW n \in JobNodes, NEW w \in Workers, NEW req \in Requests
    PROVE  /\ Committed(n, w, req) \in JobNodes /\ Committed(n, w, req).index = req.index
           /\ Committed(n, w, req).state = n.state /\ Committed(n, w, req).commitment = req
<1> DEFINE p == Placed(n, w, req)
           left == IF p.left = None THEN None ELSE NodeRank(req.job, LeftIndex(p))
           right == IF p.right = None THEN None ELSE NodeRank(req.job, RightIndex(p))
           c == [p EXCEPT !.commitment = req]
           a == [c EXCEPT !.commitEpoch = req.epoch]
           b == [a EXCEPT !.left = left]
<1>1. p \in JobNodes /\ p.index = req.index /\ p.state = n.state
  BY PlacedType, Zenon
<1>2. req.job \in Jobs /\ req.index \in Nat /\ req.epoch \in Int
  BY Zenon DEF Requests
<1>3. Committed(n, w, req) = [b EXCEPT !.right = right]
  BY Zenon DEF Committed
<1> HIDE DEF p
<1>4. LeftIndex(p) \in Int /\ RightIndex(p) \in Int
  BY <1>1, <1>2 DEF LeftIndex, RightIndex
<1>5. left \in Ranks \cup {None} /\ right \in Ranks \cup {None}
  BY <1>2, <1>4, NodeRankIsWorker, Zenon DEF Ranks
<1> HIDE DEF left, right
<1>6. a \in JobNodes /\ a.index = req.index /\ a.state = n.state /\ a.commitment = req
  <2>1. c \in JobNodes /\ c.index = req.index /\ c.state = n.state /\ c.commitment = req
    BY <1>1 DEF JobNodes
  <2> HIDE DEF c
  <2> QED
    BY <1>2, <2>1 DEF JobNodes
<1> HIDE DEF a
<1>7. Alike(a, b)
  BY <1>5, <1>6, NodeFields, Zenon
<1>8. Alike(b, [b EXCEPT !.right = right])
  BY <1>5, <1>7, NodeFields, Zenon DEF Alike
<1> HIDE DEF b
<1> QED
  BY <1>3, <1>6, <1>7, <1>8, NoneAssumption, Zenon DEF Alike, SameStanding

\* An idle worker commits to a request (Worker::tryAdoptRequest and JobDatabase::commit): one
\* with a dormant root only for that root's job, and a root only to the role of the root.
LEMMA CommitStep ==
    ASSUME NEW d, NEW E, Good(d, E), NEW req \in Requests, d.load = None, ~d.hasCommitment,
           HasDormantRoot(d) => IsDormantRoot(d.jobs[req.job]),
           Has(d, req.job) /\ d.jobs[req.job].index = 0 => req.index = 0
    PROVE  LET k == IF Has(d, req.job) THEN d ELSE CreateJob(d, req.job)
               e == Commit(Check(k, "tryAdoptRequest", ~IsBusyOrCommitted(d)), req)
           IN /\ Step(d, e, E) /\ Has(e, req.job) /\ e.jobs[req.job].index = req.index
              /\ e.schedulers = d.schedulers
<1> DEFINE j == req.job
           k == IF Has(d, j) THEN d ELSE CreateJob(d, j)
           idle == Check(k, "tryAdoptRequest", ~IsBusyOrCommitted(d))
           checked == Check(idle, "commit", idle.jobs[j].state # "ACTIVE")
           n == Committed(checked.jobs[j], idle.rank, req)
           jobs == [checked.jobs EXCEPT ![j] = n]
           committed == [checked EXCEPT !.jobs = jobs, !.hasCommitment = TRUE]
           rooted == IF req.index = 0 THEN committed.rooted \cup {j} ELSE committed.rooted
           e == [committed EXCEPT !.active = j, !.local = committed.local \cup {j}, !.rooted = rooted]
<1>1. j \in Jobs /\ req.index \in Nat
  BY Zenon DEF Requests
<1>2. Types(d, E) /\ Coherent(d)
  BY Zenon DEF Good
<1>3. NewJob \in JobNodes /\ NewJob.state = "INACTIVE"
  BY DEF NewJob, JobNodes
<1>4. /\ Types(k, E) /\ k.rank = d.rank /\ k.epoch = d.epoch /\ k.failed = d.failed
      /\ k.load = d.load /\ k.hasCommitment = d.hasCommitment /\ k.active = d.active /\ k.rooted = d.rooted
      /\ k.schedulers = d.schedulers /\ k.jobs[j] \in JobNodes
      /\ k.jobs[j].state = (IF Has(d, j) THEN d.jobs[j].state ELSE "INACTIVE")
      /\ \A i \in Jobs : i # j => k.jobs[i] = d.jobs[i]
  <2>1. CASE Has(d, j)
    BY <1>1, <1>2, <2>1, JobSteps, Zenon
  <2>2. CASE ~Has(d, j)
    <3> DEFINE new == [d.jobs EXCEPT ![j] = NewJob]
    <3>1. /\ new \in [Jobs -> JobNodes \cup {None}] /\ new[j] = NewJob
          /\ \A i \in Jobs : i # j => new[i] = d.jobs[i]
      BY <1>1, <1>2, <1>3, CoreTypes, Zenon
    <3> HIDE DEF new
    <3>2. ASSUME NEW f, f = [d EXCEPT !.jobs = new]
          PROVE  /\ Types(f, E) /\ f.rank = d.rank /\ f.epoch = d.epoch /\ f.failed = d.failed
                 /\ f.load = d.load /\ f.hasCommitment = d.hasCommitment /\ f.active = d.active
                 /\ f.rooted = d.rooted /\ f.schedulers = d.schedulers /\ f.jobs = new
      BY <1>2, <3>1, <3>2, Zenon DEF Types, IsDatabase
    <3>3. k = [d EXCEPT !.jobs = new]
      BY <2>2, Zenon DEF CreateJob, new
    <3> HIDE DEF k
    <3> QED
      BY <1>3, <2>2, <3>1, <3>2, <3>3, Zenon
  <2> QED
    BY <2>1, <2>2, Zenon
<1> HIDE DEF k
<1>5. /\ Types(idle, E) /\ SameFields(k, idle) /\ idle.schedulers = d.schedulers
  <2>1. ~IsBusyOrCommitted(d)
    BY Zenon DEF IsBusyOrCommitted
  <2>2. idle.schedulers = k.schedulers
    BY <1>4, Zenon DEF Check, Types, IsDatabase
  <2> QED
    BY <1>4, <2>1, <2>2, CheckHolds, Zenon
<1> HIDE DEF idle
<1>6. ~Runs(d, j) /\ \A i \in Jobs : ~HasCommitment(d, i) /\ ~Runs(d, i)
  BY <1>1, <1>2, DatabaseAssumption, Zenon DEF Coherent, OneJob
<1>7. idle.jobs[j].state # "ACTIVE"
  BY <1>4, <1>5, <1>6, Zenon DEF SameFields, Runs
<1>8. Types(checked, E) /\ SameFields(idle, checked) /\ checked.schedulers = d.schedulers
  <2>1. checked.schedulers = idle.schedulers
    BY <1>5, Zenon DEF Check, Types, IsDatabase
  <2> QED
    BY <1>5, <1>7, <2>1, CheckHolds, Zenon
<1>9. Commit(idle, req) = OnActivate(committed, j, 1)
  BY Zenon DEF Commit
<1> HIDE DEF checked
<1>10. checked.jobs = k.jobs /\ k.jobs \in [Jobs -> JobNodes \cup {None}] /\ idle.rank \in Workers
  BY <1>4, <1>5, <1>8, CoreTypes, Zenon DEF SameFields
<1>11. /\ n \in JobNodes /\ n.index = req.index /\ n.commitment = req
       /\ n.state = (IF Has(d, j) THEN d.jobs[j].state ELSE "INACTIVE")
  BY <1>4, <1>10, CommittedType
<1> HIDE DEF n
<1>12. /\ jobs \in [Jobs -> JobNodes \cup {None}] /\ jobs[j] = n
       /\ \A i \in Jobs : i # j => jobs[i] = d.jobs[i]
  BY <1>1, <1>4, <1>10, <1>11, Zenon
<1> HIDE DEF jobs
<1>13. d.active = None
  BY <1>2, <1>6, CoreTypes, Zenon DEF Coherent, BalancerKnows, IsMember
<1>14. /\ Types(committed, E) /\ committed.rank = d.rank /\ committed.epoch = d.epoch
       /\ committed.failed \cap Watched = d.failed \cap Watched
       /\ committed.jobs = jobs /\ committed.load = None /\ committed.hasCommitment = TRUE
       /\ committed.active = None /\ committed.rooted \subseteq Jobs
       /\ committed.local \subseteq Jobs /\ committed.schedulers = d.schedulers
  <2>1. /\ checked.rank = d.rank /\ checked.epoch = d.epoch /\ checked.load = None /\ checked.active = None
        /\ checked.failed \cap Watched = d.failed \cap Watched
    BY <1>4, <1>5, <1>8, <1>13, Zenon DEF SameFields
  <2> QED
    BY <1>8, <1>12, <2>1, Zenon DEF Types, IsDatabase
<1> HIDE DEF committed
<1>15. OnActivate(committed, j, 1) = e
  BY <1>1, <1>11, <1>12, <1>14, DatabaseAssumption, Zenon DEF OnActivate
<1>16. rooted \subseteq Jobs /\ (req.index = 0 => j \in rooted)
  BY <1>1, <1>14, Zenon
<1> HIDE DEF rooted
<1>17. /\ Types(e, E) /\ e.rank = d.rank /\ e.epoch = d.epoch
       /\ e.failed \cap Watched = d.failed \cap Watched
       /\ e.jobs = jobs /\ e.load = None /\ e.hasCommitment = TRUE
       /\ e.active = j /\ e.rooted = rooted /\ e.schedulers = d.schedulers
  BY <1>1, <1>14, <1>16, Zenon DEF Types, IsDatabase
<1> HIDE DEF e
<1>18. OnlyNode(d, e, j) /\ Has(e, j)
  BY <1>11, <1>12, <1>17, NoneAssumption, Zenon DEF OnlyNode, SameStanding, Has
<1>19. e.jobs[j].state # "ACTIVE" /\ e.jobs[j].commitment # None /\ e.jobs[j].commitment.job = j
  BY <1>6, <1>11, <1>12, <1>17, NoneAssumption, Zenon DEF Runs
<1>20. Coherent(e) /\ Keeps(d, e)
  <2>1. /\ Has(d, j) => e.jobs[j].state = d.jobs[j].state
        /\ Has(d, j) /\ d.jobs[j].index = 0 => e.jobs[j].index = 0
        /\ e.jobs[j].commitment.index = e.jobs[j].index
        /\ e.jobs[j].index \in Nat /\ (e.jobs[j].index = 0 => j \in e.rooted)
    BY <1>1, <1>11, <1>12, <1>16, <1>17, Zenon
  <2> QED
    BY <1>1, <1>2, <1>17, <1>18, <1>19, <2>1, CommitCoherent, Zenon
<1> QED
  BY <1>9, <1>11, <1>12, <1>15, <1>17, <1>18, <1>20 DEF Step, Good, idle, k

\* The node of job j was committed in d and is to start in a.
ToStart(d, a, j, E) ==
    /\ Types(a, E) /\ OnlyNode(d, a, j) /\ a.jobs[j] \in JobNodes
    /\ a.jobs[j].index = d.jobs[j].index /\ a.jobs[j].commitment = None /\ a.jobs[j].state # "ACTIVE"
    /\ a.load = None /\ a.hasCommitment = FALSE /\ a.active = j /\ a.rooted = d.rooted

\* A node whose commitment is over starts to compute (execute and reactivate).
LEMMA ActivateStep ==
    ASSUME NEW d, NEW E, Good(d, E), NEW j \in Jobs, HasCommitment(d, j), NEW a, ToStart(d, a, j, E)
    PROVE  /\ Step(d, Activate(a, j), E) /\ Runs(Activate(a, j), j)
           /\ Activate(a, j).jobs[j].index = d.jobs[j].index
<1> DEFINE loaded == Check(a, "setLoad", a.load = None /\ Has(a, j))
           l == [loaded EXCEPT !.load = j]
           m == [l.jobs[j] EXCEPT !.state = "ACTIVE"]
           volume == IF l.jobs[j].volume < 1 THEN 1 ELSE l.jobs[j].volume
           n == Started(l.jobs[j])
           jobs == [l.jobs EXCEPT ![j] = n]
           started == [l EXCEPT !.jobs = jobs]
           checked == Check(started, "start", a.jobs[j].state # "ACTIVE")
           told == Check(checked, "onDemandChange",
                         checked.active = j /\ checked.jobs[j].index = 0 /\ j \in checked.rooted)
           p == Push(told, j, Demand[j])
           e == IF d.jobs[j].index = 0 THEN p ELSE checked
<1> /\ Types(a, E) /\ OnlyNode(d, a, j) /\ a.jobs[j] \in JobNodes
    /\ a.jobs[j].index = d.jobs[j].index /\ a.jobs[j].commitment = None /\ a.jobs[j].state # "ACTIVE"
    /\ a.load = None /\ a.hasCommitment = FALSE /\ a.active = j /\ a.rooted = d.rooted
  BY Zenon DEF ToStart
<1>1. Has(a, j) /\ (d.jobs[j].index = 0 => j \in d.rooted) /\ Demand[j] \in Nat
  BY NoneAssumption, DatabaseAssumption, Zenon DEF Has, Good, Coherent, BalancerKnows, IsMember
<1>2. Types(loaded, E) /\ SameFields(a, loaded)
  BY <1>1, CheckHolds, Zenon
<1>3. Activate(a, j) = OnActivate(checked, j, Demand[j])
  BY Zenon DEF Activate, SetLoad
<1> HIDE DEF loaded
<1> /\ Types(l, E) /\ l.rank = a.rank /\ l.epoch = a.epoch /\ l.failed \cap Watched = a.failed \cap Watched
    /\ l.jobs = a.jobs /\ l.load = j /\ l.hasCommitment = FALSE /\ l.active = j /\ l.rooted = d.rooted
  BY <1>2, Zenon DEF Types, IsDatabase, SameFields
<1> HIDE DEF l
<1> n \in JobNodes /\ n.index = d.jobs[j].index /\ n.state = "ACTIVE" /\ n.commitment = None
  <2>1. m \in JobNodes /\ m.index = d.jobs[j].index /\ m.state = "ACTIVE" /\ m.commitment = None
    BY DEF JobNodes
  <2>2. volume \in Nat
    BY Zenon DEF JobNodes
  <2>3. n = [m EXCEPT !.volume = volume]
    BY Zenon DEF Started
  <2> HIDE DEF volume
  <2> HIDE DEF m
  <2>4. Alike(m, n)
    BY <2>1, <2>2, <2>3, NodeFields, Zenon
  <2> HIDE DEF n
  <2> QED
    BY <2>1, <2>4, NoneAssumption, Zenon DEF Alike, SameStanding
<1> HIDE DEF n
<1> /\ jobs \in [Jobs -> JobNodes \cup {None}] /\ jobs[j] = n
    /\ \A i \in Jobs : i # j => jobs[i] = a.jobs[i]
  BY CoreTypes, Zenon
<1> HIDE DEF jobs
<1> /\ Types(started, E) /\ started.rank = a.rank /\ started.epoch = a.epoch
    /\ started.failed \cap Watched = a.failed \cap Watched
    /\ started.jobs = jobs /\ started.load = j /\ started.hasCommitment = FALSE
    /\ started.active = j /\ started.rooted = d.rooted
  BY Zenon DEF Types, IsDatabase
<1> HIDE DEF started
<1> Types(checked, E) /\ SameFields(started, checked)
  BY CheckHolds, Zenon
<1> HIDE DEF checked
<1>4. OnActivate(checked, j, Demand[j]) = e
  BY Zenon DEF OnActivate, OnDemandChange, SameFields
<1>5. d.jobs[j].index = 0 => Types(told, E) /\ SameFields(checked, told)
  <2>1. d.jobs[j].index = 0 => checked.active = j /\ checked.jobs[j].index = 0 /\ j \in checked.rooted
    BY <1>1, Zenon DEF SameFields
  <2> QED
    BY <2>1, CheckHolds, Zenon
<1> HIDE DEF told
<1>6. d.jobs[j].index = 0 => Types(p, E) /\ SameFields(told, p)
  BY <1>1, <1>5, PushFields, Zenon
<1> HIDE DEF p
<1>7. Types(e, E) /\ SameFields(started, e)
  BY <1>5, <1>6, Zenon DEF SameFields
<1>8. Activate(a, j) = e
  BY <1>3, <1>4, Zenon
<1> HIDE DEF e
<1>9. OnlyNode(d, e, j)
  BY <1>7, Zenon DEF OnlyNode, SameFields
<1>10. /\ Has(e, j) /\ e.jobs[j].state = "ACTIVE" /\ e.jobs[j].index = d.jobs[j].index
       /\ e.jobs[j].commitment = None /\ e.load = j /\ e.hasCommitment = FALSE /\ e.active = j
       /\ e.rooted = d.rooted
  BY <1>7, NoneAssumption, Zenon DEF SameFields, Has
<1>11. Coherent(e) /\ Keeps(d, e)
  BY <1>9, <1>10, StartCoherent, Zenon DEF Good
<1> QED
  BY <1>7, <1>8, <1>10, <1>11, Zenon DEF Step, Good, Runs

\* A committed worker starts (JobDatabase::uncommit and execute).
LEMMA ExecuteStep ==
    ASSUME NEW d, NEW E, Good(d, E), NEW j \in Jobs, HasCommitment(d, j)
    PROVE  LET e == Execute(Uncommit(d, j), j)
           IN Step(d, e, E) /\ Runs(e, j) /\ e.jobs[j].index = d.jobs[j].index
<1> DEFINE a == Uncommit(d, j)
<1>1. /\ Types(a, E) /\ OnlyNode(d, a, j) /\ a.jobs[j] \in JobNodes
      /\ a.jobs[j].index = d.jobs[j].index
      /\ a.jobs[j].commitment = None /\ a.jobs[j].state # "ACTIVE"
      /\ a.load = None /\ a.hasCommitment = FALSE /\ a.active = j /\ a.rooted = d.rooted
  BY UncommitFields, Zenon
<1> HIDE DEF a
<1>2. Execute(a, j) = Activate(a, j)
  BY <1>1, NoneAssumption, Zenon DEF Execute, Has
<1>3. ToStart(d, a, j, E)
  BY <1>1, Zenon DEF ToStart
<1>4. /\ Step(d, Activate(a, j), E) /\ Runs(Activate(a, j), j)
      /\ Activate(a, j).jobs[j].index = d.jobs[j].index
  BY <1>3, ActivateStep, Zenon
<1> QED
  BY <1>2, <1>4, Zenon DEF a

\* A committed worker that was suspended resumes (JobDatabase::uncommit and reactivate).
LEMMA ReactivateStep ==
    ASSUME NEW d, NEW E, Good(d, E), NEW j \in Jobs, HasCommitment(d, j), d.jobs[j].state = "SUSPENDED",
           NEW req \in Requests, d.jobs[j].commitment = req
    PROVE  LET e == Reactivate(Uncommit(d, j), req)
           IN Step(d, e, E) /\ Runs(e, j) /\ e.jobs[j].index = d.jobs[j].index
<1> DEFINE a == Uncommit(d, j)
           checked == Check(a, "reactivate", ~HasCommitment(a, j) /\ a.jobs[j].state = "SUSPENDED")
           n == Placed(checked.jobs[j], a.rank, req)
           jobs == [checked.jobs EXCEPT ![j] = n]
           b == [checked EXCEPT !.jobs = jobs]
<1>1. req.job = j
  BY Zenon DEF Good, Coherent, RolesKept
<1> /\ Types(a, E) /\ OnlyNode(d, a, j) /\ a.jobs[j] \in JobNodes
    /\ a.jobs[j].state = "SUSPENDED" /\ a.jobs[j].commitment = None
    /\ a.load = None /\ a.hasCommitment = FALSE /\ a.active = j /\ a.rooted = d.rooted
  BY UncommitFields, ZenonT(30)
<1>2. req.index = d.jobs[j].index
  BY Zenon DEF Good, Coherent, RolesKept
<1> HIDE DEF a
<1>3. ~HasCommitment(a, j) /\ a.jobs[j].state = "SUSPENDED"
  BY Zenon DEF HasCommitment
<1>4. Types(checked, E) /\ SameFields(a, checked)
  BY <1>3, CheckHolds, Zenon
<1>5. Reactivate(a, req) = Activate(b, j)
  BY <1>1, Zenon DEF Reactivate
<1> HIDE DEF checked
<1>6. n \in JobNodes /\ n.index = d.jobs[j].index /\ n.state = "SUSPENDED" /\ n.commitment = None
  BY <1>2, <1>4, CoreTypes, PlacedType DEF SameFields
<1> HIDE DEF n
<1>7. /\ jobs \in [Jobs -> JobNodes \cup {None}] /\ jobs[j] = n
      /\ \A i \in Jobs : i # j => jobs[i] = a.jobs[i]
  BY <1>1, <1>4, <1>6, CoreTypes, Zenon DEF SameFields
<1> HIDE DEF jobs
<1>8. /\ Types(b, E) /\ b.rank = a.rank /\ b.epoch = a.epoch /\ b.failed \cap Watched = a.failed \cap Watched
      /\ b.jobs = jobs /\ b.load = None /\ b.hasCommitment = FALSE /\ b.active = j /\ b.rooted = d.rooted
  BY <1>4, <1>7, Zenon DEF Types, IsDatabase, SameFields
<1> HIDE DEF b
<1>9. OnlyNode(d, b, j)
  BY <1>7, <1>8, Zenon DEF OnlyNode
<1>10. /\ Step(d, Activate(b, j), E) /\ Runs(Activate(b, j), j)
       /\ Activate(b, j).jobs[j].index = d.jobs[j].index
  <2>1. /\ b.jobs[j] \in JobNodes /\ b.jobs[j].index = d.jobs[j].index
        /\ b.jobs[j].commitment = None /\ b.jobs[j].state # "ACTIVE"
    BY <1>6, <1>7, <1>8, Zenon
  <2>2. ToStart(d, b, j, E)
    BY <1>8, <1>9, <2>1, Zenon DEF ToStart
  <2> QED
    BY <2>2, ActivateStep
<1> QED
  BY <1>5, <1>10, Zenon DEF a

\* A node leaves the database.
LEMMA ForgetFields ==
    ASSUME NEW d, NEW E, Types(d, E), NEW j \in Jobs
    PROVE  LET e == Forget(d, j)
           IN /\ Types(e, E) /\ OnlyNode(d, e, j) /\ ~Has(e, j) /\ e.load = d.load
              /\ e.hasCommitment = d.hasCommitment /\ e.active = d.active /\ e.rooted = d.rooted
<1> DEFINE jobs == [d.jobs EXCEPT ![j] = None]
           e == [d EXCEPT !.jobs = jobs]
<1>1. /\ jobs \in [Jobs -> JobNodes \cup {None}] /\ jobs[j] = None
      /\ \A i \in Jobs : i # j => jobs[i] = d.jobs[i]
  BY CoreTypes, Zenon
<1>2. Forget(d, j) = e
  BY Zenon DEF Forget
<1> HIDE DEF jobs
<1>3. /\ Types(e, E) /\ e.rank = d.rank /\ e.epoch = d.epoch /\ e.failed = d.failed /\ e.jobs = jobs
      /\ e.load = d.load /\ e.hasCommitment = d.hasCommitment /\ e.active = d.active /\ e.rooted = d.rooted
  BY <1>1, Zenon DEF Types, IsDatabase
<1> HIDE DEF e
<1>4. OnlyNode(d, e, j) /\ ~Has(e, j)
  BY <1>1, <1>3, Zenon DEF OnlyNode, SameStanding, Has
<1> QED
  BY <1>2, <1>3, <1>4, Zenon

\* An old job is forgotten (JobDatabase::forgetOldJobs), never a root that has started.
LEMMA ForgetStep ==
    ASSUME NEW d, NEW E, Good(d, E), NEW j \in Jobs, MayForget(d, j)
    PROVE  Step(d, Forget(d, j), E)
<1> DEFINE e == Forget(d, j)
<1>1. /\ Types(e, E) /\ OnlyNode(d, e, j) /\ ~Has(e, j) /\ e.load = d.load
      /\ e.hasCommitment = d.hasCommitment /\ e.active = d.active /\ e.rooted = d.rooted
  BY ForgetFields, Zenon DEF Good
<1> HIDE DEF e
<1>2. ~HasCommitment(d, j) /\ ~Runs(d, j) /\ ~StartedRoot(d, j)
  BY Zenon DEF MayForget, HasCommitment, Runs, StartedRoot
<1>3. d.load # j /\ d.active # j
  BY <1>2, Zenon DEF Good, Coherent, OneJob, BalancerKnows, IsMember
<1>4. Coherent(e) /\ \A i \in Jobs : i # j => KeepsRoot(d, e, i)
  BY <1>1, <1>2, <1>3, TerminateCoherent, Zenon DEF Good
<1>5. KeepsRoot(d, e, j)
  BY <1>2, Zenon DEF KeepsRoot, ActiveRoot
<1>6. Keeps(d, e)
  BY <1>1, <1>4, <1>5, Zenon DEF Keeps, OnlyNode
<1> QED
  BY <1>1, <1>4, <1>6, Zenon DEF Step, Good, e

\* A job ends at a worker that has no commitment to it (JobDatabase::terminate).
LEMMA TerminateStep ==
    ASSUME NEW d, NEW E, Good(d, E), NEW j \in Jobs, Has(d, j), ~HasCommitment(d, j)
    PROVE  LET e == Terminate(d, j)
           IN /\ Good(e, E) /\ e.rank = d.rank /\ e.epoch = d.epoch /\ ~Has(e, j)
              /\ \A i \in Jobs : i # j => KeepsRoot(d, e, i)
<1> DEFINE cleared == Check(d, "setLoad", d.load # None /\ Has(d, j))
           a == IF d.load = j THEN [cleared EXCEPT !.load = None] ELSE d
           b == IF a.active = j THEN [a EXCEPT !.active = None, !.local = @ \ {j}] ELSE a
           p == Push(b, j, 0)
           c == IF a.jobs[j].index = 0 /\ j \in a.rooted THEN [p EXCEPT !.rooted = @ \ {j}] ELSE b
           e == Forget(c, j)
<1>1. Terminate(d, j) = e
  BY DEF Terminate, ClearLoad, OnTerminate
<1>2. Types(d, E) /\ (d.load = j => d.load # None)
  BY DatabaseAssumption, Zenon DEF Good
<1>3. d.load = j => Types(cleared, E) /\ SameFields(d, cleared)
  BY <1>2, CheckHolds, Zenon
<1> HIDE DEF cleared
<1>4. /\ Types(a, E) /\ a.rank = d.rank /\ a.epoch = d.epoch /\ a.failed \cap Watched = d.failed \cap Watched
      /\ a.jobs = d.jobs /\ a.load = (IF d.load = j THEN None ELSE d.load)
      /\ a.hasCommitment = d.hasCommitment /\ a.active = d.active /\ a.rooted = d.rooted
  <2>1. CASE d.load = j
    BY <1>3, <2>1, Zenon DEF Types, IsDatabase, SameFields
  <2>2. CASE d.load # j
    BY <1>2, <2>2, Zenon
  <2> QED
    BY <2>1, <2>2, Zenon
<1> HIDE DEF a
<1> /\ Types(b, E) /\ b.rank = d.rank /\ b.epoch = d.epoch /\ b.failed \cap Watched = d.failed \cap Watched
    /\ b.jobs = d.jobs /\ b.load = a.load /\ b.active = (IF d.active = j THEN None ELSE d.active)
    /\ b.hasCommitment = d.hasCommitment /\ b.rooted = d.rooted
  <2>1. CASE a.active = j
    BY <1>4, <2>1, Zenon DEF Types, IsDatabase
  <2>2. CASE a.active # j
    BY <1>4, <2>2, Zenon
  <2> QED
    BY <2>1, <2>2, Zenon
<1> HIDE DEF b
<1>5. Types(p, E) /\ SameFields(b, p)
  BY PushFields, Zenon
<1> HIDE DEF p
<1>6. /\ Types(c, E) /\ c.rank = d.rank /\ c.epoch = d.epoch /\ c.failed \cap Watched = d.failed \cap Watched
      /\ c.jobs = d.jobs /\ c.load = a.load /\ c.active = b.active
      /\ c.hasCommitment = d.hasCommitment /\ \A i \in d.rooted : i # j => i \in c.rooted
  <2>1. CASE a.jobs[j].index = 0 /\ j \in a.rooted
    BY <1>5, <2>1, Zenon DEF Types, IsDatabase, SameFields
  <2>2. CASE ~(a.jobs[j].index = 0 /\ j \in a.rooted)
    BY <2>2, Zenon
  <2> QED
    BY <2>1, <2>2, Zenon
<1> HIDE DEF c
<1> /\ Types(e, E) /\ OnlyNode(c, e, j) /\ ~Has(e, j) /\ e.load = c.load
    /\ e.hasCommitment = c.hasCommitment /\ e.active = c.active /\ e.rooted = c.rooted
  BY <1>6, ForgetFields, Zenon
<1> HIDE DEF e
<1>7. OnlyNode(d, e, j)
  BY <1>6, Zenon DEF OnlyNode
<1>8. /\ e.load = (IF d.load = j THEN None ELSE d.load)
      /\ e.hasCommitment = (IF HasCommitment(d, j) THEN FALSE ELSE d.hasCommitment)
      /\ e.active = (IF d.active = j THEN None ELSE d.active)
      /\ \A i \in d.rooted : i # j => i \in e.rooted
  BY <1>4, <1>6, Zenon
<1>9. Coherent(e) /\ \A i \in Jobs : i # j => KeepsRoot(d, e, i)
  BY <1>7, <1>8, TerminateCoherent, Zenon DEF Good
<1> QED
  BY <1>1, <1>7, <1>9, Zenon DEF Good, OnlyNode
=============================================================================
