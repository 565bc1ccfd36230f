---------------------------- MODULE SystemProofs ----------------------------
(***************************************************************************)
(* The inductive invariant of Worker, and the parts of its steps that no   *)
(* handler is about: what has been collected is handed over, the client,   *)
(* the balancer, and the initial state.                                    *)
(***************************************************************************)
EXTENDS Worker, JobDatabaseProofs

-----------------------------------------------------------------------------
(***************************************************************************)
(* The invariant, and what a worker does before and after a handler.       *)
(***************************************************************************)
\* The inductive invariant: types, the coherence of every database, and a job is active
\* at the client only once it has been introduced.
Inv ==
    /\ TypeOK /\ DOMAIN db = Workers
    /\ \A w \in Workers : Good(db[w], Ended)
    /\ \A j \in Jobs : client[j].active => client[j].rev # -1

\* What a step does to the roots: those of jobs that may end may be gone.
RootsKept ==
    \A w \in Workers, j \in Jobs :
        KeepsRoot(db[w], db'[w], j) \/ (j \in MayEnd(Ended) /\ ~Has(db'[w], j))

\* Sequences over a larger set, and what is added to channels
LEMMA SeqMono ==
    ASSUME NEW S, NEW T, S \subseteq T, NEW s \in Seq(S)
    PROVE  s \in Seq(T)
<1>1. Len(s) \in Nat /\ s \in [1..Len(s) -> S]
  OBVIOUS
<1>2. s \in [1..Len(s) -> T]
  BY <1>1, Zenon
<1> QED
  BY <1>1, <1>2

\* What a worker has sent joins what is in its channels.
LEMMA AddToType ==
    ASSUME NEW S, NEW c \in [Ranks -> Seq(S)], NEW o \in [Ranks -> Seq(S)]
    PROVE  AddTo(c, o) \in [Ranks -> Seq(S)]
BY DEF AddTo

\* What the handlers have collected is handed over.
LEMMA HandOverStep ==
    ASSUME NEW d, NEW E, Types(d, E)
    PROVE  /\ Minor(d, HandedOver(d), E)
           /\ HandedOver(HandedOver(d)) = HandedOver(d)
<1> DEFINE a == [d EXCEPT !.out = NothingSent]
           b == [a EXCEPT !.bulk = NothingSent]
           c == [b EXCEPT !.hops = NoHops]
           none == [j \in Jobs |-> <<>>]
           e == [c EXCEPT !.events = none]
<1> /\ NothingSent \in [Ranks -> Seq(Messages(E))] /\ NothingSent \in [Ranks -> Seq(Descriptions)]
    /\ DOMAIN NoHops \subseteq Requests /\ none \in [Jobs -> Seq(Nat)]
  BY DEF NothingSent, NoHops
<1>1. HandedOver(d) = e
  BY Zenon DEF HandedOver
<1> HIDE DEF none
<1>2. Minor(d, a, E)
  BY FieldSteps, Zenon
<1> HIDE DEF a
<1>3. Minor(d, b, E)
  BY <1>2, FieldSteps, MinorTrans DEF Minor
<1> HIDE DEF b
<1>4. Minor(d, c, E)
  BY <1>3, FieldSteps, MinorTrans DEF Minor
<1> HIDE DEF c
<1>5. Minor(d, e, E)
  BY <1>4, FieldSteps, MinorTrans, Zenon DEF Minor
<1>6. HandedOver(HandedOver(d)) = HandedOver(d)
  BY Zenon DEF HandedOver
<1> QED
  BY <1>1, <1>5, <1>6, Zenon

\* A handler has run to its end.
LEMMA CommenceStep ==
    ASSUME Inv, NEW w \in Workers, NEW d, Handled(db[w], d, Ended),
           NEW n \in [Ranks -> [Ranks -> Seq(Messages(Ended))]],
           NEW b \in [Ranks -> [Ranks -> Seq(Descriptions)]],
           NEW h, DOMAIN h \subseteq Requests,
           Commence(w, d, n, b, h), UNCHANGED <<known, log, client>>
    PROVE  Inv' /\ RootsKept
<1> DEFINE e == HandedOver(d)
<1> /\ db' = [db EXCEPT ![w] = e] /\ net' = [n EXCEPT ![w] = AddTo(@, d.out)]
    /\ bulk' = [b EXCEPT ![w] = AddTo(@, d.bulk)] /\ hopping' = AddHops(h, d.hops)
    /\ pending' = [j \in Jobs |-> pending[j] \o d.events[j]]
    /\ known' = known /\ log' = log /\ client' = client
  BY Zenon DEF Commence
<1> Good(d, Ended) /\ Types(d, Ended) /\ IsDatabase(d, Ended)
  BY Zenon DEF Handled, Good, Types
<1> Ended' = Ended
  BY Zenon DEF Ended
<1> /\ Minor(d, e, Ended) /\ e = HandedOver(e)
  BY HandOverStep, Zenon
<1> Good(e, Ended) /\ e.rank = d.rank /\ e.epoch = d.epoch
  BY MinorStep, Zenon DEF Step, Keeps
<1>1. Handled(db[w], e, Ended)
  <2>1. Step(d, e, Ended)
    BY MinorStep, Zenon
  <2>2. \A j \in Jobs : Has(e, j) <=> Has(d, j)
    BY Zenon DEF Minor, SameCore, SameStanding, Has
  <2>3. \A j \in Jobs : KeepsRoot(db[w], d, j) => KeepsRoot(db[w], e, j)
    BY <2>1, Zenon DEF Step, Keeps, KeepsRoot
  <2> QED
    BY <2>2, <2>3, Zenon DEF Handled
<1> HIDE DEF e
<1> DOMAIN db' = Workers /\ db'[w] = e /\ \A v \in Workers : v # w => db'[v] = db[v]
  BY Zenon DEF Inv
<1>2. \A v \in Workers : Good(db'[v], Ended')
  BY Zenon DEF Inv
<1>3. RootsKept
  <2>1. \A v \in Workers, j \in Jobs : v # w => KeepsRoot(db[v], db'[v], j)
    BY Zenon DEF KeepsRoot
  <2>2. \A j \in Jobs : KeepsRoot(db[w], db'[w], j) \/ (j \in MayEnd(Ended) /\ ~Has(db'[w], j))
    BY <1>1, Zenon DEF Handled
  <2> QED
    BY <2>1, <2>2, Zenon DEF RootsKept
<1>4. ASSUME NEW v \in Workers
      PROVE  /\ IsDatabase(db'[v], Ended') /\ db'[v].rank = v
             /\ db'[v] = HandedOver(db'[v]) /\ db'[v].epoch <= Len(log')
  <2>1. CASE v = w
    <3>1. db[w].rank = w /\ db[w].epoch <= Len(log)
      BY Zenon DEF Inv, TypeOK
    <3>2. e.rank = w /\ e.epoch <= Len(log)
      BY <3>1, Zenon DEF Handled
    <3> QED
      BY <2>1, <3>2, Zenon DEF Good, Types
  <2>2. CASE v # w
    BY <2>2, Zenon DEF Inv, TypeOK
  <2> QED
    BY <2>1, <2>2, Zenon
<1>5. net' \in [Ranks -> [Ranks -> Seq(Messages(Ended'))]]
  <2>1. w \in Ranks /\ d.out \in [Ranks -> Seq(Messages(Ended))]
    BY Zenon DEF IsDatabase, Ranks
  <2>2. AddTo(n[w], d.out) \in [Ranks -> Seq(Messages(Ended))]
    BY <2>1, AddToType, Zenon
  <2> QED
    BY <2>1, <2>2, Zenon
<1>6. bulk' \in [Ranks -> [Ranks -> Seq(Descriptions)]]
  <2>1. w \in Ranks /\ d.bulk \in [Ranks -> Seq(Descriptions)]
    BY Zenon DEF IsDatabase, Ranks
  <2>2. AddTo(b[w], d.bulk) \in [Ranks -> Seq(Descriptions)]
    BY <2>1, AddToType, Zenon
  <2> QED
    BY <2>1, <2>2, Zenon
<1>7. DOMAIN hopping' \subseteq Requests
  <2>1. DOMAIN d.hops \subseteq Requests
    BY Zenon DEF IsDatabase
  <2> QED
    BY <2>1, Zenon DEF AddHops
<1>8. pending' \in [Jobs -> Seq(Nat)]
  <2>1. d.events \in [Jobs -> Seq(Nat)] /\ pending \in [Jobs -> Seq(Nat)]
    BY Zenon DEF IsDatabase, Inv, TypeOK
  <2> QED
    BY <2>1
<1>9. /\ known' \in [Jobs -> Nat \cup {None}] /\ log' \in Seq([Jobs -> Nat \cup {None}])
      /\ client' \in [Jobs -> ClientJobs] /\ \A j \in Jobs : client'[j].active => client'[j].rev # -1
  BY Zenon DEF Inv, TypeOK
<1>10. TypeOK'
  BY <1>4, <1>5, <1>6, <1>7, <1>8, <1>9, Zenon DEF TypeOK
<1> QED
  BY <1>2, <1>3, <1>9, <1>10, Zenon DEF Inv

\* A worker has handled a message, of which the network is rid.
LEMMA ReceiveStep ==
    ASSUME Inv, NEW s \in Ranks, NEW w \in Workers, NEW tag, NEW d, Receive(s, w, tag, d),
           Handled(db[w], d, Ended)
    PROVE  Inv' /\ RootsKept
<1> DEFINE n == [net EXCEPT ![s][w] = Tail(@)]
<1>1. /\ net[s][w] # <<>> /\ Commence(w, d, n, bulk, hopping) /\ UNCHANGED <<known, log, client>>
  BY Zenon DEF Receive, clientVars
<1>2. /\ net \in [Ranks -> [Ranks -> Seq(Messages(Ended))]] /\ bulk \in [Ranks -> [Ranks -> Seq(Descriptions)]]
      /\ DOMAIN hopping \subseteq Requests
  BY Zenon DEF Inv, TypeOK
<1>3. n \in [Ranks -> [Ranks -> Seq(Messages(Ended))]]
  <2>1. net[s][w] \in Seq(Messages(Ended))
    BY <1>2, Zenon DEF Ranks
  <2>2. Tail(net[s][w]) \in Seq(Messages(Ended))
    BY <1>1, <2>1
  <2> QED
    BY <1>2, <2>2, Zenon
<1> HIDE DEF n
<1> QED
  BY <1>1, <1>2, <1>3, CommenceStep, Zenon

\* The message is of the type that its channel holds.
LEMMA FirstType ==
    ASSUME Inv, NEW s \in Ranks, NEW w \in Workers, net[s][w] # <<>>
    PROVE  First(s, w) \in Messages(Ended)
<1>1. net[s][w] \in Seq(Messages(Ended))
  BY DEF Inv, TypeOK, Ranks
<1> QED
  BY <1>1 DEF First

\* A worker has done something by itself.
LEMMA InternalStep ==
    ASSUME Inv, NEW w \in Workers, NEW d, Handled(db[w], d, Ended), Commence(w, d, net, bulk, hopping),
           UNCHANGED <<known, log, client>>
    PROVE  Inv' /\ RootsKept
<1>1. /\ net \in [Ranks -> [Ranks -> Seq(Messages(Ended))]] /\ bulk \in [Ranks -> [Ranks -> Seq(Descriptions)]]
      /\ DOMAIN hopping \subseteq Requests
  BY Zenon DEF Inv, TypeOK
<1> QED
  BY <1>1, CommenceStep, Zenon

\* A description is cancelled.
LEMMA CancelStep ==
    ASSUME Inv, NEW s \in Ranks, NEW w \in Workers, DescriptionCancelled(s, w)
    PROVE  Inv' /\ RootsKept
<1> /\ bulk[s][w] # <<>> /\ bulk' = [bulk EXCEPT ![s][w] = Tail(@)]
    /\ UNCHANGED <<db, net, hopping, pending, known, log, client>>
  BY Zenon DEF DescriptionCancelled, balancerVars, clientVars
<1>1. bulk \in [Ranks -> [Ranks -> Seq(Descriptions)]] /\ w \in Ranks
  BY Zenon DEF Inv, TypeOK, Ranks
<1>2. bulk[s][w] \in Seq(Descriptions)
  BY <1>1, Zenon
<1>3. Tail(bulk[s][w]) \in Seq(Descriptions)
  BY <1>2
<1>4. bulk' \in [Ranks -> [Ranks -> Seq(Descriptions)]]
  BY <1>1, <1>3, Zenon
<1>5. Ended' = Ended
  BY Zenon DEF Ended
<1> QED
  BY <1>4, <1>5, Zenon DEF Inv, TypeOK, RootsKept, KeepsRoot

\* A balancing result is digested; its callbacks are due.
LEMMA DigestStep ==
    ASSUME Inv, NEW w \in Workers, Digest(w)
    PROVE  Inv' /\ RootsKept
<1> DEFINE d == db[w]
           k == d.epoch + 1
           entries == {j \in Jobs : log[k][j] # None}
           volumes == [j \in Jobs |-> IF j \in entries THEN log[k][j] ELSE 0]
           todo == entries \cap d.local
           arriving == entries # {} /\ Present(d.future, k) # {}
           e == [d EXCEPT !.epoch = k, !.volumes = volumes, !.todo = todo, !.arriving = arriving]
<1> /\ d.epoch < Len(log) /\ db' = [db EXCEPT ![w] = e]
    /\ UNCHANGED <<net, bulk, hopping, pending, known, log, client>>
  BY Zenon DEF Digest, balancerVars, clientVars
<1> Good(d, Ended) /\ Types(d, Ended) /\ IsDatabase(d, Ended) /\ Coherent(d) /\ d.rank = w /\ d = HandedOver(d)
  BY Zenon DEF Inv, TypeOK, Good, Types
<1>1. d.epoch \in Nat /\ d.local \subseteq Jobs
  BY Zenon DEF IsDatabase
<1>2. k \in Nat /\ k <= Len(log) /\ k \in DOMAIN log /\ log[k] \in [Jobs -> Nat \cup {None}]
  <2>1. log \in Seq([Jobs -> Nat \cup {None}])
    BY Zenon DEF Inv, TypeOK
  <2> QED
    BY <1>1, <2>1
<1>3. volumes \in [Jobs -> Nat] /\ todo \subseteq Jobs /\ arriving \in BOOLEAN
  BY <1>1, <1>2, Zenon
<1> HIDE DEF k, entries, volumes, todo, arriving
<1> /\ e.rank = d.rank /\ e.jobs = d.jobs /\ e.load = d.load /\ e.hasCommitment = d.hasCommitment
    /\ e.active = d.active /\ e.rooted = d.rooted /\ e.failed = d.failed /\ e.epoch = k
    /\ e.schedulers = d.schedulers
  BY Zenon DEF IsDatabase
<1>4. IsDatabase(e, Ended)
  BY <1>2, <1>3, Zenon DEF IsDatabase
<1>5. e = HandedOver(e)
  <2>1. d.out = NothingSent /\ d.bulk = NothingSent /\ d.hops = NoHops /\ d.events = [j \in Jobs |-> <<>>]
    <3>1. \A x : x = HandedOver(d) => /\ x.out = NothingSent /\ x.bulk = NothingSent /\ x.hops = NoHops
                                      /\ x.events = [j \in Jobs |-> <<>>]
      BY DEF HandedOver, IsDatabase
    <3> QED
      BY <3>1, Zenon
  <2>2. e.out = NothingSent /\ e.bulk = NothingSent /\ e.hops = NoHops /\ e.events = [j \in Jobs |-> <<>>]
    BY <2>1, Zenon DEF IsDatabase
  <2> QED
    BY <2>2, Zenon DEF HandedOver
<1> HIDE DEF e
<1>6. Good(e, Ended) /\ \A j \in Jobs : KeepsRoot(d, e, j)
  <2> \A j : /\ Has(e, j) <=> Has(d, j)
             /\ Runs(e, j) <=> Runs(d, j)
             /\ HasCommitment(e, j) <=> HasCommitment(d, j)
             /\ IsMember(e, j) <=> IsMember(d, j)
    BY Zenon DEF Has, Runs, HasCommitment, IsMember
  <2>1. OneJob(e)
    BY Zenon DEF Coherent, OneJob
  <2>2. RolesKept(e)
    BY Zenon DEF Coherent, RolesKept
  <2>3. BalancerKnows(e)
    BY Zenon DEF Coherent, BalancerKnows
  <2>4. DormantAlone(e)
    BY Zenon DEF Coherent, DormantAlone
  <2>5. Coherent(e)
    BY <2>1, <2>2, <2>3, <2>4, Zenon DEF Coherent
  <2>6. Types(e, Ended)
    BY <1>4, Zenon DEF Types
  <2>7. \A j \in Jobs : KeepsRoot(d, e, j)
    BY Zenon DEF KeepsRoot, ActiveRoot, StartedRoot
  <2> QED
    BY <2>5, <2>6, <2>7, Zenon DEF Good
<1>7. DOMAIN db' = Workers /\ db'[w] = e /\ \A v \in Workers : v # w => db'[v] = db[v]
  BY Zenon DEF Inv
<1>8. Ended' = Ended
  BY Zenon DEF Ended
<1>9. ASSUME NEW v \in Workers
      PROVE  /\ IsDatabase(db'[v], Ended') /\ db'[v].rank = v
             /\ db'[v] = HandedOver(db'[v]) /\ db'[v].epoch <= Len(log')
             /\ Good(db'[v], Ended') /\ \A j \in Jobs : KeepsRoot(db[v], db'[v], j)
  <2>1. CASE v = w
    BY <1>2, <1>4, <1>5, <1>6, <1>7, <1>8, <2>1, Zenon
  <2>2. CASE v # w
    BY <1>7, <1>8, <2>2, Zenon DEF Inv, TypeOK, KeepsRoot
  <2> QED
    BY <2>1, <2>2, Zenon
<1>10. /\ net' \in [Ranks -> [Ranks -> Seq(Messages(Ended'))]] /\ bulk' \in [Ranks -> [Ranks -> Seq(Descriptions)]]
       /\ DOMAIN hopping' \subseteq Requests /\ pending' \in [Jobs -> Seq(Nat)]
       /\ known' \in [Jobs -> Nat \cup {None}] /\ log' \in Seq([Jobs -> Nat \cup {None}])
       /\ client' \in [Jobs -> ClientJobs] /\ \A j \in Jobs : client'[j].active => client'[j].rev # -1
  BY <1>8, Zenon DEF Inv, TypeOK
<1> QED
  BY <1>7, <1>9, <1>10, Zenon DEF Inv, TypeOK, RootsKept

-----------------------------------------------------------------------------
(***************************************************************************)
(* The client and the balancer.                                            *)
(***************************************************************************)
\* Once more incremental jobs have been declared done, more messages are allowed.
LEMMA MoreEnded ==
    ASSUME NEW E, NEW F, E \subseteq F
    PROVE  /\ Messages(E) \subseteq Messages(F)
           /\ \A n \in [Ranks -> [Ranks -> Seq(Messages(E))]] : n \in [Ranks -> [Ranks -> Seq(Messages(F))]]
           /\ \A d : IsDatabase(d, E) => IsDatabase(d, F)
           /\ \A d : Good(d, E) => Good(d, F)
<1>1. Messages(E) \subseteq Messages(F)
  <2> DEFINE T(X) == [tag : {"TERMINATING"}, job : (Jobs \ Incremental) \cup X]
  <2>1. T(E) \subseteq T(F)
    BY Zenon
  <2> QED
    BY <2>1, Zenon DEF Messages
<1>2. \A s \in Seq(Messages(E)) : s \in Seq(Messages(F))
  BY <1>1, SeqMono, Zenon
<1>3. \A o \in [Ranks -> Seq(Messages(E))] : o \in [Ranks -> Seq(Messages(F))]
  BY <1>2, Zenon
<1>4. \A n \in [Ranks -> [Ranks -> Seq(Messages(E))]] : n \in [Ranks -> [Ranks -> Seq(Messages(F))]]
  BY <1>3, Zenon
<1>5. \A d : IsDatabase(d, E) => IsDatabase(d, F)
  BY <1>3, Zenon DEF IsDatabase
<1>6. \A d : Good(d, E) => Good(d, F)
  BY <1>5, Zenon DEF Good, Types
<1> QED
  BY <1>1, <1>4, <1>5, <1>6, Zenon

Channels(E) == [Ranks -> [Ranks -> Seq(Messages(E))]]

\* The client's entry for job j becomes c, no job that was declared done becomes active, and
\* the client sends one message at most.
ClientMove(j, c, n) ==
    /\ c \in ClientJobs /\ client' = [client EXCEPT ![j] = c]
    /\ c.active => c.rev # -1
    /\ client[j].rev # -1 /\ ~client[j].active => c.rev # -1 /\ (j \in Incremental => ~c.active)
    /\ n \in Channels(Ended)
    /\ net' = n \/ \E dest : \E m \in Messages(Ended') : net' = ClientSend(n, dest, m)
    /\ bulk' \in [Ranks -> [Ranks -> Seq(Descriptions)]]
    /\ UNCHANGED <<db, hopping, pending, known, log>>

\* The client sends a message.
LEMMA ClientSendType ==
    ASSUME NEW E, NEW n \in Channels(E), NEW dest, NEW m \in Messages(E)
    PROVE  ClientSend(n, dest, m) \in Channels(E)
<1>1. Client \in Ranks
  BY Zenon DEF Ranks
<1>2. n \in [Ranks -> [Ranks -> Seq(Messages(E))]]
  BY Zenon DEF Channels
<1> DEFINE o == [n[Client] EXCEPT ![dest] = Append(@, m)]
<1>3. o \in [Ranks -> Seq(Messages(E))]
  <2> DEFINE f == n[Client]
  <2>1. f \in [Ranks -> Seq(Messages(E))]
    BY <1>1, <1>2, Zenon
  <2> HIDE DEF f
  <2>2. ASSUME dest \in Ranks PROVE Append(f[dest], m) \in Seq(Messages(E))
    BY <2>1, <2>2
  <2>3. [f EXCEPT ![dest] = Append(@, m)] \in [Ranks -> Seq(Messages(E))]
    BY <2>1, <2>2, Zenon
  <2> QED
    BY <2>3, Zenon DEF f
<1>4. ClientSend(n, dest, m) = [n EXCEPT ![Client] = o]
  BY Zenon DEF ClientSend
<1> HIDE DEF o
<1> QED
  BY <1>1, <1>2, <1>3, <1>4, Zenon DEF Channels

\* Such a step keeps the invariant.
LEMMA ClientMoveStep ==
    ASSUME Inv, NEW j \in Jobs, NEW c, NEW n, ClientMove(j, c, n)
    PROVE  Inv' /\ RootsKept
<1>1. /\ c \in ClientJobs /\ client' = [client EXCEPT ![j] = c] /\ client \in [Jobs -> ClientJobs]
      /\ c.active => c.rev # -1
      /\ client[j].rev # -1 /\ ~client[j].active => c.rev # -1 /\ (j \in Incremental => ~c.active)
  BY Zenon DEF ClientMove, Inv, TypeOK
<1>2. client'[j] = c /\ \A i \in Jobs : i # j => client'[i] = client[i]
  BY <1>1, Zenon
<1>3. Ended \subseteq Ended'
  BY <1>1, <1>2, DatabaseAssumption, Zenon DEF Ended
<1>4. /\ client' \in [Jobs -> ClientJobs]
      /\ \A i \in Jobs : client'[i].active => client'[i].rev # -1
  BY <1>1, <1>2, Zenon DEF Inv
<1>5. net' \in Channels(Ended')
  <2>1. n \in Channels(Ended')
    BY <1>3, MoreEnded, Zenon DEF ClientMove, Channels
  <2>2. ASSUME NEW dest, NEW m \in Messages(Ended') PROVE ClientSend(n, dest, m) \in Channels(Ended')
    BY <2>1, ClientSendType, Zenon
  <2> QED
    BY <2>1, <2>2, Zenon DEF ClientMove
<1>6. /\ db' = db /\ hopping' = hopping /\ pending' = pending /\ known' = known /\ log' = log
      /\ bulk' \in [Ranks -> [Ranks -> Seq(Descriptions)]]
  BY Zenon DEF ClientMove
<1>7. \A w \in Workers : IsDatabase(db[w], Ended') /\ Good(db[w], Ended')
  BY <1>3, MoreEnded, Zenon DEF Inv, TypeOK
<1>8. RootsKept
  BY <1>6, Zenon DEF RootsKept, KeepsRoot
<1> QED
  BY <1>4, <1>5, <1>6, <1>7, <1>8, Zenon DEF Inv, TypeOK, Channels

\* Client::introduceNextJob
LEMMA IntroduceStep ==
    ASSUME Inv, NEW j \in Jobs, IntroduceJob(j)
    PROVE  Inv' /\ RootsKept
<1> DEFINE c == client[j]
           root == IF j \notin Incremental THEN NodeRank(j, 0) ELSE IF c.root = None THEN 0 ELSE c.root
           new == [c EXCEPT !.rev = @ + 1, !.active = TRUE, !.root = IF j \in Incremental THEN root ELSE @]
           req == [job |-> j, root |-> None, from |-> Client, index |-> 0,
                   rev |-> c.rev + 1, epoch |-> -1, hopped |-> FALSE, targeted |-> FALSE]
           m == [tag |-> "REQUEST_NODE", req |-> req]
<1>1. /\ c.rev = -1 \/ c.active
      /\ client' = [client EXCEPT ![j] = new] /\ net' = ClientSend(net, root, m)
      /\ UNCHANGED <<db, bulk, hopping, pending, known, log>>
  BY Zenon DEF IntroduceJob, balancerVars
<1> c \in ClientJobs /\ net \in Channels(Ended) /\ bulk \in [Ranks -> [Ranks -> Seq(Descriptions)]]
  BY Zenon DEF Inv, TypeOK, Channels
<1>2. root \in Ranks \cup {None}
  <2>1. NodeRank(j, 0) \in Workers /\ 0 \in Workers
    BY NodeRankIsWorker, DatabaseAssumption
  <2>2. c.root \in Ranks \cup {None}
    BY Zenon DEF ClientJobs
  <2> QED
    BY <2>1, <2>2, Zenon DEF Ranks
<1> HIDE DEF root
<1>3. c.rev + 1 \in Nat
  BY DEF ClientJobs
<1>4. new \in ClientJobs /\ new.active /\ new.rev # -1
  <2> DEFINE r == IF j \in Incremental THEN root ELSE c.root
             Introduced(x) == [x EXCEPT !.rev = x.rev + 1, !.active = TRUE, !.root = r]
  <2>1. r \in Ranks \cup {None}
    BY <1>2, Zenon DEF ClientJobs
  <2>2. new = Introduced(c)
    BY Zenon
  <2> HIDE DEF new, r
  <2>3. ASSUME NEW x \in ClientJobs, x.rev + 1 \in Nat
        PROVE  Introduced(x) \in ClientJobs /\ Introduced(x).active /\ Introduced(x).rev # -1
    <3>1. Introduced(x) \in ClientJobs
      BY <2>1, <2>3, Zenon DEF ClientJobs
    <3>2. Introduced(x).active = TRUE
      BY Zenon DEF ClientJobs
    <3>3. Introduced(x).rev = x.rev + 1
      BY Zenon DEF ClientJobs
    <3>4. x.rev + 1 # -1
      BY <2>3
    <3> HIDE DEF Introduced
    <3> QED
      BY <3>1, <3>2, <3>3, <3>4, Zenon
  <2> QED
    BY <1>3, <2>2, <2>3, Zenon
<1>5. req \in Requests
  BY <1>3 DEF Requests, Ranks
<1> HIDE DEF new, req
<1>6. m \in Messages(Ended')
  BY <1>5, Zenon DEF Messages
<1> HIDE DEF m
<1>7. ClientMove(j, new, net)
  BY <1>1, <1>4, <1>6, Zenon DEF ClientMove
<1> QED
  BY <1>7, ClientMoveStep, Zenon

\* A user interrupts a job, or declares an incremental one done (Client::advance).
LEMMA UserStep ==
    ASSUME Inv, NEW j \in Jobs, InterruptByUser(j) \/ FinishIncremental(j)
    PROVE  Inv' /\ RootsKept
<1> DEFINE c == client[j]
<1>1. c \in ClientJobs /\ net \in Channels(Ended) /\ bulk \in [Ranks -> [Ranks -> Seq(Descriptions)]]
  BY Zenon DEF Inv, TypeOK, Channels
<1>2. c.active => c.rev # -1
  BY Zenon DEF Inv
<1>3. CASE InterruptByUser(j)
  <2> DEFINE m == [tag |-> "ABORTING", job |-> j]
  <2>1. /\ net' = ClientSend(net, c.root, m) /\ client' = client
        /\ UNCHANGED <<db, bulk, hopping, pending, known, log>>
    BY <1>3, Zenon DEF InterruptByUser, balancerVars, clientVars
  <2>2. m \in Messages(Ended')
    BY Zenon DEF Messages
  <2>3. client' = [client EXCEPT ![j] = c]
    BY <2>1, Zenon DEF Inv, TypeOK
  <2> HIDE DEF m, c
  <2>4. ClientMove(j, c, net)
    BY <1>1, <1>2, <2>1, <2>2, <2>3, Zenon DEF ClientMove, c
  <2> QED
    BY <2>4, ClientMoveStep, Zenon
<1>4. CASE FinishIncremental(j)
  <2> DEFINE m == [tag |-> "TERMINATING", job |-> j]
             new == [c EXCEPT !.done = c.rev, !.active = FALSE, !.root = None]
  <2>1. /\ net' = ClientSend(net, c.root, m) /\ client' = [client EXCEPT ![j] = new]
        /\ UNCHANGED <<db, bulk, hopping, pending, known, log>> /\ j \in Incremental /\ c.active
    BY <1>4, Zenon DEF FinishIncremental, balancerVars
  <2>2. new \in ClientJobs /\ ~new.active /\ new.rev = c.rev
    BY <1>1, Zenon DEF ClientJobs
  <2> HIDE DEF new
  <2>3. client'[j] = new
    BY <2>1, Zenon DEF Inv, TypeOK
  <2>4. j \in Ended'
    BY <1>2, <2>1, <2>2, <2>3, Zenon DEF Ended
  <2>5. m \in Messages(Ended')
    BY <2>4, Zenon DEF Messages
  <2> HIDE DEF m, c
  <2>6. ClientMove(j, new, net)
    BY <1>1, <1>2, <2>1, <2>2, <2>5, Zenon DEF ClientMove, c
  <2> QED
    BY <2>6, ClientMoveStep, Zenon
<1> QED
  BY <1>3, <1>4, Zenon

\* A message of a worker reaches the client.
LEMMA ClientReceivesType ==
    ASSUME Inv, NEW s \in Workers, NEW tag, ClientReceives(s, tag)
    PROVE  LET m == Head(net[s][Client])
           IN m \in Messages(Ended) /\ m.tag = tag /\ Received(s) \in Channels(Ended)
<1>1. net \in [Ranks -> [Ranks -> Seq(Messages(Ended))]] /\ s \in Ranks /\ Client \in Ranks
  BY Zenon DEF Inv, TypeOK, Ranks
<1>2. net[s][Client] \in Seq(Messages(Ended)) /\ net[s][Client] # <<>>
  BY <1>1, Zenon DEF ClientReceives
<1>3. Head(net[s][Client]) \in Messages(Ended) /\ Tail(net[s][Client]) \in Seq(Messages(Ended))
  BY <1>2
<1>4. Received(s) \in Channels(Ended)
  BY <1>1, <1>3, Zenon DEF Received, Channels
<1> QED
  BY <1>3, <1>4, Zenon DEF ClientReceives

\* Client::handleOfferAdoption
LEMMA OfferOfRootStep ==
    ASSUME Inv, NEW s \in Workers, OfferOfRoot(s)
    PROVE  Inv' /\ RootsKept
<1> DEFINE j == Head(net[s][Client]).req.job
           c == client[j]
           new == [c EXCEPT !.root = s, !.ok = @ /\ c.active]
           description == [tag |-> "DESCRIPTION", job |-> j, rev |-> c.rev, tracked |-> FALSE]
<1>1. ClientReceives(s, "OFFER_OF_ROOT")
  BY Zenon DEF OfferOfRoot
<1>2. /\ client' = [client EXCEPT ![j] = new] /\ net' = Received(s)
      /\ bulk' = [bulk EXCEPT ![Client][s] = Append(@, description)]
      /\ UNCHANGED <<db, hopping, pending, known, log>>
  BY Zenon DEF OfferOfRoot, balancerVars
<1>3. Head(net[s][Client]).req \in Requests /\ Received(s) \in Channels(Ended)
  BY <1>1, ClientReceivesType, MessageFields, Zenon
<1>4. j \in Jobs
  BY <1>3, Zenon DEF Requests
<1> HIDE DEF j
<1> c \in ClientJobs /\ (c.active => c.rev # -1) /\ bulk \in [Ranks -> [Ranks -> Seq(Descriptions)]]
  BY <1>4, Zenon DEF Inv, TypeOK
<1> HIDE DEF c
<1>5. c.rev \in Nat \cup {-1} /\ c.ok \in BOOLEAN /\ c.active \in BOOLEAN
  BY Zenon DEF ClientJobs
<1>6. new \in ClientJobs /\ new.active = c.active /\ new.rev = c.rev
  BY <1>5, Zenon DEF ClientJobs, Ranks
<1> HIDE DEF new
<1>7. description \in Descriptions
  BY <1>4, <1>5, Zenon DEF Descriptions
<1> HIDE DEF description
<1>8. bulk' \in [Ranks -> [Ranks -> Seq(Descriptions)]]
  <2> DEFINE o == [bulk[Client] EXCEPT ![s] = Append(@, description)]
  <2>1. Client \in Ranks /\ s \in Ranks
    BY Zenon DEF Ranks
  <2>2. bulk[Client] \in [Ranks -> Seq(Descriptions)] /\ bulk[Client][s] \in Seq(Descriptions)
    BY <2>1, Zenon
  <2>3. Append(bulk[Client][s], description) \in Seq(Descriptions)
    BY <1>7, <2>2
  <2>4. o \in [Ranks -> Seq(Descriptions)]
    BY <2>2, <2>3, Zenon
  <2>5. bulk' = [bulk EXCEPT ![Client] = o]
    BY <1>2, Zenon
  <2> HIDE DEF o
  <2> QED
    BY <2>1, <2>4, <2>5, Zenon
<1>9. ClientMove(j, new, Received(s))
  BY <1>2, <1>3, <1>6, <1>8, Zenon DEF ClientMove, c
<1> QED
  BY <1>4, <1>9, ClientMoveStep, Zenon

\* Client::handleJobDone
LEMMA JobDoneStep ==
    ASSUME Inv, NEW s \in Workers, JobDone(s)
    PROVE  Inv' /\ RootsKept
<1> DEFINE m == Head(net[s][Client])
           j == m.job
           c == client[j]
           new == [c EXCEPT !.ok = @ /\ c.active]
           query == [tag |-> "QUERY_RESULT", job |-> m.job, rev |-> m.rev]
<1>1. ClientReceives(s, "JOB_DONE")
  BY Zenon DEF JobDone
<1>2. /\ client' = [client EXCEPT ![j] = new] /\ net' = ClientSend(Received(s), m.rank, query)
      /\ UNCHANGED <<db, bulk, hopping, pending, known, log>>
  BY Zenon DEF JobDone, balancerVars
<1> j \in Jobs /\ m.rev \in Nat /\ Received(s) \in Channels(Ended)
  BY <1>1, ClientReceivesType, MessageFields, Zenon
<1> HIDE DEF m
<1>3. c \in ClientJobs /\ (c.active => c.rev # -1) /\ bulk \in [Ranks -> [Ranks -> Seq(Descriptions)]]
  BY Zenon DEF Inv, TypeOK
<1>4. query \in Messages(Ended')
  BY Zenon DEF Messages
<1> HIDE DEF c, j, query
<1>5. c.ok \in BOOLEAN /\ c.active \in BOOLEAN
  BY <1>3, Zenon DEF ClientJobs
<1>6. new \in ClientJobs /\ new.active = c.active /\ new.rev = c.rev
  BY <1>3, <1>5, Zenon DEF ClientJobs
<1> HIDE DEF new
<1>7. ClientMove(j, new, Received(s))
  BY <1>2, <1>3, <1>4, <1>6, Zenon DEF ClientMove, c
<1> QED
  BY <1>7, ClientMoveStep, Zenon

\* The client finishes a job (Client::finishJob).
LEMMA FinishedStep ==
    ASSUME Inv, NEW j \in Jobs, NEW n \in Channels(Ended), client' = Finished(j), net' = n,
           UNCHANGED <<db, bulk, hopping, pending, known, log>>
    PROVE  Inv' /\ RootsKept
<1> DEFINE c == client[j]
           new == [c EXCEPT !.done = c.rev, !.ok = @ /\ c.active, !.active = @ /\ j \in Incremental,
                            !.root = IF j \in Incremental THEN @ ELSE None]
<1>1. client' = [client EXCEPT ![j] = new]
  BY Zenon DEF Finished
<1>2. c \in ClientJobs /\ (c.active => c.rev # -1) /\ bulk \in [Ranks -> [Ranks -> Seq(Descriptions)]]
  BY Zenon DEF Inv, TypeOK
<1> HIDE DEF c
<1>3. c.ok \in BOOLEAN /\ c.active \in BOOLEAN /\ c.rev \in Nat \cup {-1} /\ c.root \in Ranks \cup {None}
  BY <1>2, Zenon DEF ClientJobs
<1>4. new \in ClientJobs /\ new.active = (c.active /\ j \in Incremental) /\ new.rev = c.rev
  BY <1>2, <1>3, Zenon DEF ClientJobs
<1> HIDE DEF new
<1>5. ClientMove(j, new, n)
  BY <1>1, <1>2, <1>3, <1>4, Zenon DEF ClientMove, c
<1> QED
  BY <1>5, ClientMoveStep, Zenon

\* Client::handleSendJobResult, handleAbort, and a message it has no callback for
LEMMA ClientReceivesStep ==
    ASSUME Inv, NEW s \in Workers, ClientReceivesFrom(s)
    PROVE  Inv' /\ RootsKept
<1> DEFINE m == Head(net[s][Client])
<1>1. CASE SendJobResult(s)
  <2>1. /\ ClientReceives(s, "JOB_RESULT") /\ client' = Finished(m.job) /\ net' = Received(s)
        /\ UNCHANGED <<db, bulk, hopping, pending, known, log>>
    BY <1>1, Zenon DEF SendJobResult, balancerVars
  <2>2. m.job \in Jobs /\ Received(s) \in Channels(Ended)
    BY <2>1, ClientReceivesType, MessageFields, Zenon
  <2> HIDE DEF m
  <2> QED
    BY <2>1, <2>2, FinishedStep, Zenon
<1>2. CASE Abort(s)
  <2>1. /\ ClientReceives(s, "CLIENT_ABORTING") /\ client' = Finished(m.job) /\ net' = Received(s)
        /\ UNCHANGED <<db, bulk, hopping, pending, known, log>>
    BY <1>2, Zenon DEF Abort, balancerVars
  <2>2. m.job \in Jobs /\ Received(s) \in Channels(Ended)
    BY <2>1, ClientReceivesType, MessageFields, Zenon
  <2> HIDE DEF m
  <2> QED
    BY <2>1, <2>2, FinishedStep, Zenon
<1>3. CASE LeavingToClient(s)
  <2> DEFINE j == m.job
             c == client[j]
             new == [c EXCEPT !.ok = FALSE]
  <2>1. /\ ClientReceives(s, "NODE_LEAVING") /\ client' = [client EXCEPT ![j] = new] /\ net' = Received(s)
        /\ UNCHANGED <<db, bulk, hopping, pending, known, log>>
    BY <1>3, Zenon DEF LeavingToClient, balancerVars
  <2>2. j \in Jobs /\ Received(s) \in Channels(Ended)
    BY <2>1, ClientReceivesType, MessageFields, Zenon
  <2> HIDE DEF m, j
  <2>3. c \in ClientJobs /\ (c.active => c.rev # -1) /\ bulk \in [Ranks -> [Ranks -> Seq(Descriptions)]]
    BY <2>2, Zenon DEF Inv, TypeOK
  <2> HIDE DEF c
  <2>4. new \in ClientJobs /\ new.active = c.active /\ new.rev = c.rev
    BY <2>3, Zenon DEF ClientJobs
  <2> HIDE DEF new
  <2>5. ClientMove(j, new, Received(s))
    BY <2>1, <2>2, <2>3, <2>4, Zenon DEF ClientMove, c
  <2> QED
    BY <2>2, <2>5, ClientMoveStep, Zenon
<1> QED
  BY <1>1, <1>2, <1>3, OfferOfRootStep, JobDoneStep, Zenon DEF ClientReceivesFrom

\* Rank 0 balances: the result has a volume for every job that has a demand.
LEMMA RebalanceStep ==
    ASSUME Inv, Rebalance
    PROVE  Inv' /\ RootsKept
<1>1. /\ pending \in [Jobs -> Seq(Nat)] /\ known \in [Jobs -> Nat \cup {None}]
      /\ log \in Seq([Jobs -> Nat \cup {None}])
  BY Zenon DEF Inv, TypeOK
<1>2. PICK n \in [Jobs -> {0} \cup UNION {DOMAIN pending[j] : j \in Jobs}] :
         /\ \A j \in Jobs : n[j] <= Len(pending[j])
         /\ LET demand == [j \in Jobs |-> NextDemand(j, n[j])] IN
               /\ \E v \in Assignments(demand) : log' = Append(log, v)
               /\ known' = [j \in Jobs |-> IF demand[j] = 0 THEN None ELSE demand[j]]
         /\ pending' = [j \in Jobs |-> SubSeq(pending[j], n[j] + 1, Len(pending[j]))]
  BY Zenon DEF Rebalance
<1> DEFINE demand == [j \in Jobs |-> NextDemand(j, n[j])]
<1>3. UNCHANGED <<db, net, bulk, hopping, client>>
  BY Zenon DEF Rebalance, clientVars
<1>4. \A j \in Jobs : pending[j] \in Seq(Nat) /\ Len(pending[j]) \in Nat /\ n[j] \in Nat /\ n[j] <= Len(pending[j])
  <2>1. \A j \in Jobs : pending[j] \in Seq(Nat) /\ Len(pending[j]) \in Nat /\ DOMAIN pending[j] \subseteq Nat
    BY <1>1
  <2>2. \A j \in Jobs : n[j] \in {0} \cup UNION {DOMAIN pending[i] : i \in Jobs}
    BY <1>2, Zenon
  <2>3. \A j \in Jobs : n[j] \in Nat
    BY <2>1, <2>2
  <2> QED
    BY <1>2, <2>1, <2>3, Zenon
<1>5. pending' \in [Jobs -> Seq(Nat)]
  <2>1. ASSUME NEW j \in Jobs PROVE SubSeq(pending[j], n[j] + 1, Len(pending[j])) \in Seq(Nat)
    BY <1>4
  <2> QED
    BY <1>2, <2>1, Zenon
<1>6. demand \in [Jobs -> Nat \cup {None}]
  <2>1. ASSUME NEW j \in Jobs PROVE NextDemand(j, n[j]) \in Nat \cup {None}
    BY <1>1, <1>4 DEF NextDemand
  <2> QED
    BY <2>1, Zenon
<1>7. known' \in [Jobs -> Nat \cup {None}]
  BY <1>2, <1>6, Zenon
<1>8. PICK v \in Assignments(demand) : log' = Append(log, v)
  BY <1>2, Zenon
<1> HIDE DEF demand
<1>9. v \in [Jobs -> Nat \cup {None}]
  <2>1. Cardinality(Workers) \in Nat
    BY DatabaseAssumption, FS_CardinalityType, Zenon
  <2>2. v \in [Jobs -> {None} \cup 0..Cardinality(Workers)]
    BY <1>8, Zenon DEF Assignments
  <2> QED
    BY <2>1, <2>2
<1>10. log' \in Seq([Jobs -> Nat \cup {None}]) /\ Len(log') = Len(log) + 1 /\ Len(log) \in Nat
  BY <1>1, <1>8, <1>9
<1>11. Ended' = Ended
  BY <1>3, Zenon DEF Ended
<1>12. \A w \in Workers : db[w].epoch <= Len(log')
  <2>1. \A w \in Workers : db[w].epoch \in Nat /\ db[w].epoch <= Len(log)
    BY Zenon DEF Inv, TypeOK, IsDatabase
  <2> QED
    BY <1>10, <2>1
<1>13. RootsKept
  BY <1>3, Zenon DEF RootsKept, KeepsRoot
<1> QED
  BY <1>3, <1>5, <1>7, <1>10, <1>11, <1>12, <1>13, Zenon DEF Inv, TypeOK

-----------------------------------------------------------------------------
(***************************************************************************)
(* The initial state.                                                      *)
(***************************************************************************)
\* A database that has just been constructed is in order.
LEMMA EmptyDatabaseGood ==
    ASSUME NEW w \in Workers, NEW E
    PROVE  LET d == EmptyDatabase(w)
           IN Good(d, E) /\ d.rank = w /\ d = HandedOver(d) /\ d.epoch = 0
<1> DEFINE d == EmptyDatabase(w)
<1>1. NothingSent \in [Ranks -> Seq(Messages(E))] /\ NothingSent \in [Ranks -> Seq(Descriptions)]
  BY DEF NothingSent
<1>2. DOMAIN NoHops \subseteq Requests
  BY Zenon DEF NoHops
<1>3. DOMAIN <<>> = {}
  OBVIOUS
<1> /\ d.rank = w /\ d.jobs = [j \in Jobs |-> None] /\ d.load = None /\ d.hasCommitment = FALSE
    /\ d.pendingRoot = None /\ d.rootRequests = {} /\ d.future = <<>> /\ d.schedulers = <<>>
    /\ d.numSchedulers = [j \in Jobs |-> 0] /\ d.results = {} /\ d.active = None
  BY Zenon DEF EmptyDatabase
<1> /\ d.local = {} /\ d.rooted = {} /\ d.epoch = 0 /\ d.todo = {} /\ d.arriving = FALSE
    /\ d.volumes = [j \in Jobs |-> 0] /\ d.failed = {} /\ d.out = NothingSent /\ d.bulk = NothingSent
    /\ d.hops = NoHops /\ d.events = [j \in Jobs |-> <<>>]
  BY Zenon DEF EmptyDatabase
<1> DOMAIN d = {"rank", "jobs", "load", "hasCommitment", "pendingRoot", "rootRequests", "future",
                "schedulers", "numSchedulers", "results", "active", "local", "rooted", "epoch",
                "todo", "arriving", "volumes", "failed", "out", "bulk", "hops", "events"}
  BY Zenon DEF EmptyDatabase
<1>4. d = HandedOver(d)
  <2>1. ASSUME NEW x, NEW f, NEW v, x = [i \in DOMAIN x |-> x[i]], f \in DOMAIN x, x[f] = v
        PROVE  [x EXCEPT ![f] = v] = x
    BY <2>1, Zenon
  <2> d = [i \in DOMAIN d |-> d[i]]
    BY Zenon DEF EmptyDatabase
  <2> HIDE DEF d
  <2>2. [d EXCEPT !.out = NothingSent] = d
    BY <2>1, Zenon
  <2>3. [d EXCEPT !.bulk = NothingSent] = d
    BY <2>1, Zenon
  <2>4. [d EXCEPT !.hops = NoHops] = d
    BY <2>1, Zenon
  <2>5. [d EXCEPT !.events = [j \in Jobs |-> <<>>]] = d
    BY <2>1, Zenon
  <2> QED
    BY <2>2, <2>3, <2>4, <2>5, Zenon DEF HandedOver
<1> HIDE DEF d
<1>5. IsDatabase(d, E)
  <2>1. d.numSchedulers \in [Jobs -> Int] /\ d.volumes \in [Jobs -> Nat] /\ d.events \in [Jobs -> Seq(Nat)]
    OBVIOUS
  <2>2. d.jobs \in [Jobs -> JobNodes \cup {None}]
    BY Zenon
  <2>3. /\ DOMAIN d.future = {} /\ DOMAIN d.schedulers = {} /\ d.rank \in Workers
        /\ d.load \in Jobs \cup {None} /\ d.active \in Jobs \cup {None}
        /\ d.hasCommitment \in BOOLEAN /\ d.arriving \in BOOLEAN
        /\ d.pendingRoot \in Requests \cup {None} /\ d.rootRequests \subseteq Requests
    BY <1>3, Zenon
  <2>4. /\ d.results \subseteq Jobs \X Nat
        /\ d.local \subseteq Jobs /\ d.rooted \subseteq Jobs /\ d.todo \subseteq Jobs /\ d.epoch \in Nat
    OBVIOUS
  <2>5. /\ d.out \in [Ranks -> Seq(Messages(E))] /\ d.bulk \in [Ranks -> Seq(Descriptions)]
        /\ DOMAIN d.hops \subseteq Requests
    BY <1>1, <1>2, Zenon
  <2> QED
    BY <2>1, <2>2, <2>3, <2>4, <2>5, Zenon DEF IsDatabase
<1>6. Types(d, E)
  BY <1>3, <1>5, Zenon DEF Types
<1>7. \A j \in Jobs : ~Has(d, j) /\ j # None
  BY DatabaseAssumption, Zenon DEF Has
<1>8. OneJob(d)
  BY <1>7, Zenon DEF OneJob, Runs, HasCommitment
<1>9. RolesKept(d) /\ BalancerKnows(d) /\ DormantAlone(d)
  BY <1>7, Zenon DEF RolesKept, BalancerKnows, DormantAlone, IsMember, Runs, HasCommitment,
                     IsDormantRoot, IsDormant, Has
<1>10. Coherent(d)
  BY <1>8, <1>9, Zenon DEF Coherent
<1> QED
  BY <1>4, <1>6, <1>10, Zenon DEF Good, d

\* The system starts with empty databases and channels.
LEMMA InitInv ==
    ASSUME Init
    PROVE  Inv
<1>1. DOMAIN db = Workers /\ \A w \in Workers : db[w] = EmptyDatabase(w)
  BY Zenon DEF Init
<1> \A w \in Workers : Good(db[w], Ended) /\ db[w].rank = w /\ db[w] = HandedOver(db[w]) /\ db[w].epoch = 0
  BY <1>1, EmptyDatabaseGood, Zenon
<1>2. \A w \in Workers : IsDatabase(db[w], Ended)
  BY Zenon DEF Good, Types
<1>3. net \in [Ranks -> [Ranks -> Seq(Messages(Ended))]] /\ bulk \in [Ranks -> [Ranks -> Seq(Descriptions)]]
  BY DEF Init
<1>4. pending \in [Jobs -> Seq(Nat)] /\ known \in [Jobs -> Nat \cup {None}]
      /\ log \in Seq([Jobs -> Nat \cup {None}]) /\ Len(log) = 0
  BY DEF Init
<1>5. DOMAIN hopping \subseteq Requests
  BY Zenon DEF Init, NoHops
<1>6. NewClientJob \in ClientJobs /\ NewClientJob.active = FALSE
  BY Zenon DEF NewClientJob, ClientJobs
<1>7. client \in [Jobs -> ClientJobs] /\ \A j \in Jobs : ~client[j].active
  BY <1>6, Zenon DEF Init
<1>8. \A w \in Workers : db[w].epoch <= Len(log)
  BY <1>4
<1>9. TypeOK
  BY <1>2, <1>3, <1>4, <1>5, <1>7, <1>8, Zenon DEF TypeOK
<1> QED
  BY <1>1, <1>7, <1>9, Zenon DEF Inv
=============================================================================
