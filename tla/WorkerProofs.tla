---------------------------- MODULE WorkerProofs ----------------------------
(***************************************************************************)
(* The steps of the workers, the client and the balancer keep the types of *)
(* the whole state and the coherence of every database, and displace no    *)
(* root: the steps of the workers, and the theorems.                       *)
(***************************************************************************)
EXTENDS SystemProofs, HandlerProofs

-----------------------------------------------------------------------------
(***************************************************************************)
(* The steps of the workers.                                               *)
(***************************************************************************)
\* The handlers of the messages
LEMMA WorkerReceivesStep ==
    ASSUME Inv, NEW s \in Ranks, NEW w \in Workers, WorkerReceives(s, w)
    PROVE  Inv' /\ RootsKept
<1> DEFINE d == db[w]
           m == First(s, w)
           E == Ended
<1> Good(d, E) /\ Types(d, E)
  BY Zenon DEF Inv, Good
<1> m \in Messages(E)
  <2>1. net[s][w] # <<>>
    BY Zenon DEF WorkerReceives, RequestNode, OfferAdoption, AnswerAdoptionOffer, QueryJobDescription, NodeLeaving,
           ResultFound, QueryResult, ResultObsolete, JobAborting, Interrupt, JobTerminating, RejectOneshot,
           InitializeChild, NodesReturned, ReleaseFromWaiting, NodeFreed, Receive
  <2> QED
    BY <2>1, FirstType, Zenon
<1>1. ASSUME NEW tag, NEW e, Receive(s, w, tag, e), Minor(d, e, E) PROVE Inv' /\ RootsKept
  <2>1. Handled(d, e, E)
    BY <1>1, MinorStep, StepHandled, Zenon
  <2> QED
    BY <1>1, <2>1, ReceiveStep, Zenon
<1>2. ASSUME NEW tag, NEW e, Receive(s, w, tag, e), Step(d, e, E) PROVE Inv' /\ RootsKept
  <2>1. Handled(d, e, E)
    BY <1>2, StepHandled, Zenon
  <2> QED
    BY <1>2, <2>1, ReceiveStep, Zenon
<1>3. ASSUME NEW tag, NEW e, Receive(s, w, tag, e) PROVE m.tag = tag
  BY <1>3, Zenon DEF Receive
<1> HIDE DEF d, m, E
<1>4. CASE RequestNode(s, w)
  <2>1. Receive(s, w, "REQUEST_NODE", HandleRequestNode(d, m.req))
    BY <1>4, Zenon DEF RequestNode, d, m
  <2>2. m.req \in Requests
    BY <1>3, <2>1, MessageFields, Zenon
  <2> QED
    BY <1>2, <2>1, <2>2, RequestStep, Zenon
<1>5. CASE OfferAdoption(s, w)
  <2>1. Receive(s, w, "OFFER_ADOPTION", HandleOfferAdoption(d, s, m.req))
    BY <1>5, Zenon DEF OfferAdoption, d, m
  <2>2. m.req \in Requests
    BY <1>3, <2>1, MessageFields, Zenon
  <2> QED
    BY <1>1, <2>1, <2>2, OfferStep, Zenon
<1>6. CASE AnswerAdoptionOffer(s, w)
  <2>1. Receive(s, w, "ANSWER_OFFER", HandleAnswerAdoptionOffer(d, s, m))
    BY <1>6, Zenon DEF AnswerAdoptionOffer, d, m
  <2>2. m.job \in Jobs
    BY <1>3, <2>1, MessageFields, Zenon
  <2> QED
    BY <1>2, <2>1, <2>2, AnswerStep, Zenon
<1>7. CASE QueryJobDescription(s, w)
  <2>1. Receive(s, w, "QUERY_DESCRIPTION", HandleQueryJobDescription(d, s, m))
    BY <1>7, Zenon DEF QueryJobDescription, d, m
  <2>2. m.job \in Jobs /\ m.rev \in Nat
    BY <1>3, <2>1, MessageFields, Zenon
  <2> QED
    BY <1>1, <2>1, <2>2, QueryDescriptionStep, Zenon
<1>8. CASE NodeLeaving(s, w)
  <2>1. Receive(s, w, "NODE_LEAVING", HandleNodeLeaving(d, s, m))
    BY <1>8, Zenon DEF NodeLeaving, d, m
  <2>2. m.tag = "NODE_LEAVING"
    BY <1>3, <2>1, Zenon
  <2> QED
    BY <1>2, <2>1, <2>2, NodeLeavingStep, Zenon
<1>9. CASE ResultFound(s, w)
  <2>1. Receive(s, w, "RESULT_FOUND", HandleResultFound(d, s, m))
    BY <1>9, Zenon DEF ResultFound, d, m
  <2>2. m.job \in Jobs /\ m.rev \in Nat
    BY <1>3, <2>1, MessageFields, Zenon
  <2>3. Handled(d, HandleResultFound(d, s, m), E)
    BY <2>2, ResultFoundStep, Zenon
  <2> QED
    BY <2>1, <2>3, ReceiveStep, Zenon DEF d, E
<1>10. CASE QueryResult(s, w)
  <2>1. Receive(s, w, "QUERY_RESULT", HandleQueryResult(d, s, m))
    BY <1>10, Zenon DEF QueryResult, d, m
  <2>2. m.job \in Jobs /\ m.rev \in Nat
    BY <1>3, <2>1, MessageFields, Zenon
  <2> QED
    BY <1>1, <2>1, <2>2, ResultSteps, Zenon
<1>11. CASE ResultObsolete(s, w)
  <2>1. Receive(s, w, "RESULT_OBSOLETE", [d EXCEPT !.results = @ \ {<<m.job, m.rev>>}])
    BY <1>11, Zenon DEF ResultObsolete, d, m
  <2>2. m.job \in Jobs /\ m.rev \in Nat
    BY <1>3, <2>1, MessageFields, Zenon
  <2>3. Minor(d, [d EXCEPT !.results = @ \ {<<m.job, m.rev>>}], E)
    BY <2>2, ResultSteps, Zenon
  <2> QED
    BY <1>1, <2>1, <2>3, Zenon
<1>12. CASE JobAborting(s, w)
  <2>1. Receive(s, w, "ABORTING", HandleJobAborting(d, m.job))
    BY <1>12, Zenon DEF JobAborting, d, m
  <2>2. m.job \in Jobs
    BY <1>3, <2>1, MessageFields, Zenon
  <2>3. Handled(d, HandleJobAborting(d, m.job), E)
    BY <2>2, AbortingStep, Zenon
  <2> QED
    BY <2>1, <2>3, ReceiveStep, Zenon DEF d, E
<1>13. CASE Interrupt(s, w)
  <2>1. Receive(s, w, "INTERRUPT", InterruptJob(d, m.job, FALSE, FALSE))
    BY <1>13, Zenon DEF Interrupt, d, m
  <2>2. m.job \in Incremental
    BY <1>3, <2>1, MessageFields, Zenon
  <2>3. Handled(d, InterruptJob(d, m.job, FALSE, FALSE), E)
    BY <2>2, InterruptStep, DatabaseAssumption, Zenon
  <2> QED
    BY <2>1, <2>3, ReceiveStep, Zenon DEF d, E
<1>14. CASE JobTerminating(s, w)
  <2>1. Receive(s, w, "TERMINATING", InterruptJob(d, m.job, TRUE, FALSE))
    BY <1>14, Zenon DEF JobTerminating, d, m
  <2>2. m.job \in MayEnd(E)
    BY <1>3, <2>1, MessageFields, Zenon DEF MayEnd
  <2>3. m.job \in Jobs
    <3>1. MayEnd(E) \subseteq Jobs
      BY DatabaseAssumption, Zenon DEF MayEnd, Ended, E
    <3> QED
      BY <2>2, <3>1, Zenon
  <2>4. Handled(d, InterruptJob(d, m.job, TRUE, FALSE), E)
    BY <2>2, <2>3, InterruptStep, Zenon
  <2> QED
    BY <2>1, <2>4, ReceiveStep, Zenon DEF d, E
<1>15. CASE RejectOneshot(s, w)
  <2>1. Receive(s, w, "REJECT_ONESHOT", HandleRejectOneshot(d, m))
    BY <1>15, Zenon DEF RejectOneshot, d, m
  <2>2. m.req \in Requests
    BY <1>3, <2>1, MessageFields, Zenon
  <2> QED
    BY <1>1, <2>1, <2>2, RejectOneshotStep, Zenon
<1>16. CASE InitializeChild(s, w) \/ NodesReturned(s, w)
  <2>1. \/ Receive(s, w, "INITIALIZE_CHILD", HandleLocalScheduler(d, s, m))
        \/ Receive(s, w, "RETURN_NODES", HandleLocalScheduler(d, s, m))
    BY <1>16, Zenon DEF InitializeChild, NodesReturned, d, m
  <2>2. m.tag \in {"INITIALIZE_CHILD", "RETURN_NODES"}
    BY <1>3, <2>1, Zenon
  <2>3. Minor(d, HandleLocalScheduler(d, s, m), E)
    BY <2>2, LocalSchedulerStep, Zenon
  <2> QED
    BY <1>1, <2>1, <2>3, Zenon
<1>17. CASE ReleaseFromWaiting(s, w)
  <2>1. Receive(s, w, "RELEASE", HandleSchedReleaseFromWaiting(d, s, m))
    BY <1>17, Zenon DEF ReleaseFromWaiting, d, m
  <2>2. m.tag = "RELEASE"
    BY <1>3, <2>1, Zenon
  <2> QED
    BY <1>1, <2>1, <2>2, ReleaseFromWaitingStep, Zenon
<1>18. CASE NodeFreed(s, w)
  <2>1. Receive(s, w, "NODE_FREED", HandleSchedNodeFreed(d, m))
    BY <1>18, Zenon DEF NodeFreed, d, m
  <2> QED
    BY <1>1, <2>1, NodeFreedStep, Zenon
<1> QED
  BY <1>4, <1>5, <1>6, <1>7, <1>8, <1>9, <1>10, <1>11, <1>12, <1>13, <1>14, <1>15, <1>16, <1>17, <1>18, Zenon
     DEF WorkerReceives

\* A request that was bounced arrives.
LEMMA RequestHopsStep ==
    ASSUME Inv, NEW w \in Workers, RequestHops(w)
    PROVE  Inv' /\ RootsKept
<1>1. PICK req \in DOMAIN hopping :
         Commence(w, HandleRequestNode(db[w], req), net, bulk, TakeHop(hopping, req))
  BY Zenon DEF RequestHops
<1> DEFINE h == TakeHop(hopping, req)
<1>2. /\ net \in [Ranks -> [Ranks -> Seq(Messages(Ended))]] /\ bulk \in [Ranks -> [Ranks -> Seq(Descriptions)]]
      /\ DOMAIN hopping \subseteq Requests /\ req \in Requests /\ Good(db[w], Ended)
  BY Zenon DEF Inv, TypeOK
<1>3. DOMAIN h \subseteq Requests
  BY <1>2, Zenon DEF TakeHop
<1> HIDE DEF h
<1>4. Handled(db[w], HandleRequestNode(db[w], req), Ended)
  BY <1>2, RequestStep, StepHandled, Zenon
<1>5. UNCHANGED <<known, log, client>>
  BY Zenon DEF RequestHops, clientVars
<1>6. Commence(w, HandleRequestNode(db[w], req), net, bulk, h)
  BY <1>1, Zenon DEF h
<1> QED
  BY <1>2, <1>3, <1>4, <1>5, <1>6, CommenceStep, Zenon

\* A description arrives.
LEMMA SendJobDescriptionStep ==
    ASSUME Inv, NEW s \in Ranks, NEW w \in Workers, SendJobDescription(s, w)
    PROVE  Inv' /\ RootsKept
<1> DEFINE m == Head(bulk[s][w])
           b == [bulk EXCEPT ![s][w] = Tail(@)]
           d == HandleSendJobDescription(db[w], s, m)
<1>1. /\ bulk[s][w] # <<>> /\ Commence(w, d, net, b, hopping) /\ UNCHANGED <<known, log, client>>
  BY Zenon DEF SendJobDescription, clientVars
<1> /\ net \in [Ranks -> [Ranks -> Seq(Messages(Ended))]] /\ bulk \in [Ranks -> [Ranks -> Seq(Descriptions)]]
    /\ DOMAIN hopping \subseteq Requests /\ Good(db[w], Ended)
  BY Zenon DEF Inv, TypeOK
<1>2. bulk[s][w] \in Seq(Descriptions)
  BY Zenon DEF Ranks
<1>3. m \in Descriptions /\ Tail(bulk[s][w]) \in Seq(Descriptions)
  BY <1>1, <1>2
<1>4. b \in [Ranks -> [Ranks -> Seq(Descriptions)]]
  BY <1>3, Zenon
<1> HIDE DEF m, b
<1>5. m.job \in Jobs /\ m.rev \in Nat \cup {-1}
  BY <1>3, Zenon DEF Descriptions
<1>6. Handled(db[w], d, Ended)
  BY <1>5, DescriptionStep, StepHandled, Zenon
<1> HIDE DEF d
<1> QED
  BY <1>1, <1>4, <1>6, CommenceStep, Zenon

\* Worker::checkJobs
LEMMA CheckJobsStep ==
    ASSUME Inv, NEW w \in Workers, NEW outcome, CheckJobs(w, outcome)
    PROVE  Inv' /\ RootsKept
<1> DEFINE d == RetryPendingRoot(db[w])
           e == CheckActiveJob(d, outcome)
<1>1. outcome \in Outcomes(d) /\ Internal(w, e)
  BY Zenon DEF CheckJobs
<1>2. Commence(w, e, net, bulk, hopping) /\ UNCHANGED <<known, log, client>>
  BY <1>1, Zenon DEF Internal
<1>3. Step(db[w], d, Ended)
  BY RetryStep, Zenon DEF Inv
<1> HIDE DEF d
<1>4. outcome = "solved" /\ d.load # None => d.jobs[d.load].found < d.jobs[d.load].rev
  BY <1>1, Zenon DEF Outcomes
<1>5. Handled(d, e, Ended)
  BY <1>3, <1>4, CheckActiveStep, Zenon DEF Step
<1> HIDE DEF e
<1>6. Handled(db[w], e, Ended)
  BY <1>3, <1>5, StepHandled, Zenon
<1> QED
  BY <1>2, <1>6, InternalStep, Zenon

\* JobDatabase::forgetOldJobs
LEMMA ForgetOldJobsStep ==
    ASSUME Inv, NEW w \in Workers, ForgetOldJobs(w)
    PROVE  Inv' /\ RootsKept
<1> DEFINE keys == ForgettableSchedulers(db[w])
           d == EraseSchedulers(db[w], keys)
<1>1. Internal(w, d) \/ \E j \in Jobs : MayForget(d, j) /\ Internal(w, Forget(d, j))
  BY Zenon DEF ForgetOldJobs
<1>2. Step(db[w], d, Ended)
  BY EraseStep, MinorStep, Zenon DEF Inv, Good
<1> HIDE DEF d, keys
<1>3. ASSUME NEW e, Internal(w, e) PROVE Commence(w, e, net, bulk, hopping) /\ UNCHANGED <<known, log, client>>
  BY <1>3, Zenon DEF Internal
<1>4. ASSUME NEW e, Step(db[w], e, Ended), Internal(w, e) PROVE Inv' /\ RootsKept
  BY <1>3, <1>4, StepHandled, InternalStep, Zenon
<1>5. ASSUME NEW j \in Jobs, MayForget(d, j) PROVE Step(db[w], Forget(d, j), Ended)
  <2>1. Step(d, Forget(d, j), Ended)
    BY <1>2, <1>5, ForgetStep, Zenon DEF Step
  <2> QED
    BY <1>2, <2>1, StepTrans, Zenon
<1> QED
  BY <1>1, <1>2, <1>4, <1>5, Zenon

\* The volume callback of a job
LEMMA VolumeCallbackStep ==
    ASSUME Inv, NEW w \in Workers, NEW j, VolumeCallback(w, j)
    PROVE  Inv' /\ RootsKept
<1> DEFINE d == [db[w] EXCEPT !.todo = @ \ {j}]
           e == IF j \in d.local THEN UpdateVolume(d, j, d.volumes[j], d.epoch) ELSE d
<1>1. j \in db[w].todo /\ Commence(w, e, net, bulk, hopping) /\ UNCHANGED <<known, log, client>>
  BY Zenon DEF VolumeCallback, clientVars
<1>2. Good(db[w], Ended) /\ Types(db[w], Ended) /\ db[w].todo \ {j} \in SUBSET Jobs /\ j \in Jobs
  BY <1>1, Zenon DEF Inv, Good, Types, IsDatabase
<1>3. Step(db[w], d, Ended)
  BY <1>2, FieldSteps, MinorStep, Zenon
<1> HIDE DEF d
<1>4. d.volumes[j] \in Nat /\ d.epoch \in Int
  <2>1. IsDatabase(d, Ended)
    BY <1>3, Zenon DEF Step, Good, Types
  <2>2. d.volumes \in [Jobs -> Nat] /\ d.epoch \in Nat
    BY <2>1, Zenon DEF IsDatabase
  <2> QED
    BY <1>2, <2>2
<1>5. Step(d, UpdateVolume(d, j, d.volumes[j], d.epoch), Ended)
  BY <1>2, <1>3, <1>4, UpdateVolumeStep, Zenon DEF Step, Updated
<1>6. Step(db[w], e, Ended)
  BY <1>3, <1>5, StepTrans, Zenon
<1> HIDE DEF e
<1> QED
  BY <1>1, <1>6, StepHandled, InternalStep, Zenon

\* A request whose epoch has come
LEMMA FutureRequestStep ==
    ASSUME Inv, NEW w \in Workers, FutureRequest(w)
    PROVE  Inv' /\ RootsKept
<1>1. PICK k \in Present(db[w].future, db[w].epoch) :
         Commence(w, HandleRequestNode(TakeFutureRequest(db[w], k), Head(db[w].future[k])), net, bulk, hopping)
  BY Zenon DEF FutureRequest
<1> DEFINE d == TakeFutureRequest(db[w], k)
           req == Head(db[w].future[k])
           e == HandleRequestNode(d, req)
<1>2. UNCHANGED <<known, log, client>>
  BY Zenon DEF FutureRequest, clientVars
<1>3. Good(db[w], Ended) /\ Types(db[w], Ended) /\ k \in DOMAIN db[w].future
  BY Zenon DEF Inv, Good, Present
<1>4. Minor(db[w], d, Ended) /\ req \in Requests
  BY <1>3, TakeFutureStep, Zenon
<1> HIDE DEF d, req
<1>5. Step(db[w], d, Ended)
  BY <1>3, <1>4, MinorStep, Zenon
<1>6. Step(d, e, Ended)
  BY <1>4, <1>5, RequestStep, Zenon DEF Step
<1>7. Commence(w, e, net, bulk, hopping)
  BY <1>1, Zenon DEF d, req
<1> HIDE DEF e
<1> QED
  BY <1>2, <1>5, <1>6, <1>7, StepTrans, StepHandled, InternalStep, Zenon

-----------------------------------------------------------------------------
(***************************************************************************)
(* The system.                                                             *)
(***************************************************************************)
\* Every step of the system keeps the databases in order, and the roots.
LEMMA NextStep ==
    ASSUME Inv, [Next]_vars
    PROVE  Inv' /\ RootsKept
<1>1. ASSUME NEW p \in Deliverable, WorkerReceives(p[1], p[2]) PROVE Inv' /\ RootsKept
  <2>1. p[1] \in Ranks /\ p[2] \in Workers
    BY Zenon DEF Deliverable
  <2> QED
    BY <1>1, <2>1, WorkerReceivesStep, Zenon
<1>2. ASSUME NEW p \in Transferring, SendJobDescription(p[1], p[2]) \/ DescriptionCancelled(p[1], p[2])
      PROVE  Inv' /\ RootsKept
  <2>1. p[1] \in Ranks /\ p[2] \in Workers
    BY Zenon DEF Transferring
  <2> QED
    BY <1>2, <2>1, SendJobDescriptionStep, CancelStep, Zenon
<1>3. ASSUME NEW w \in Polling, WorkerSteps(w) PROVE Inv' /\ RootsKept
  <2>1. w \in Workers
    BY Zenon DEF Polling
  <2> QED
    BY <1>3, <2>1, RequestHopsStep, ForgetOldJobsStep, DigestStep, CheckJobsStep, Zenon DEF WorkerSteps
<1>4. ASSUME NEW w \in Balancing, BalancerCallbacks(w) PROVE Inv' /\ RootsKept
  <2>1. w \in Workers
    BY Zenon DEF Balancing
  <2> QED
    BY <1>4, <2>1, FutureRequestStep, VolumeCallbackStep, Zenon DEF BalancerCallbacks
<1>5. CASE UNCHANGED vars
  <2>1. UNCHANGED <<db, net, bulk, hopping, pending, known, log, client>>
    BY <1>5, Zenon DEF vars
  <2>2. Ended' = Ended
    BY <2>1, Zenon DEF Ended
  <2>3. RootsKept
    BY <2>1, Zenon DEF RootsKept, KeepsRoot
  <2> QED
    BY <2>1, <2>2, <2>3, Zenon DEF Inv, TypeOK
<1> QED
  BY <1>1, <1>2, <1>3, <1>4, <1>5, ClientReceivesStep, IntroduceStep, UserStep, RebalanceStep, Zenon DEF Next

\* Inv is an invariant: every action of Worker preserves it.
THEOREM Invariance == Spec => []Inv
<1>1. Init => Inv
  BY InitInv, Zenon
<1>2. Inv /\ [Next]_vars => Inv'
  BY NextStep, Zenon
<1> QED
  BY <1>1, <1>2, PTL DEF Spec

\* The databases, channels and logs of any number of workers and jobs keep their types.
\* In particular a request and an offer always name a worker, a node that is part of a
\* tree has an index, and a worker is never ahead of the balancing results.
THEOREM TypesKept == Spec => []TypeOK
<1>1. Inv => TypeOK
  BY Zenon DEF Inv
<1> QED
  BY <1>1, Invariance, PTL

\* A worker never computes for two jobs, is never committed to two, and never computes for
\* one while it is committed to another, whatever arrives and in whatever order; _load and
\* _has_commitment say which is the case (JobDatabase::setLoad, commit, uncommit).
THEOREM OneJobAtATime == Spec => []OneJobPerWorker
<1>1. Inv => OneJobPerWorker
  BY Zenon DEF Inv, Good, Coherent, OneJob, Runs, OneJobPerWorker
<1> QED
  BY <1>1, Invariance, PTL

\* Whatever other workers, the client and the balancer do, and however late, no assertion
\* about a worker's own database fails, and the worker never has two jobs at a time.
THEOREM LocalAssertions == Spec => []LocalAssertionsHold
<1>1. Inv => LocalAssertionsHold
  BY Zenon DEF Inv, Good, Coherent, OneJob, Runs, OneJobPerWorker, LocalAssertionsHold
<1> QED
  BY <1>1, Invariance, PTL

\* The worker's balancer and its database agree about the job the worker is a member of
\* (_active_job_id), and the balancer has a root epoch for a job whose root is here.  While
\* a root is suspended here, the worker neither computes for another job nor is committed
\* to one (tryAdopt, hasDormantRoot).
BalancerAgrees == \A w \in Workers : BalancerKnows(db[w]) /\ DormantAlone(db[w])

\* Database and balancer of a worker never disagree, and a suspended root has its worker
\* for itself.
THEOREM BalancerInStep == Spec => []BalancerAgrees
<1>1. Inv => BalancerAgrees
  BY Zenon DEF Inv, Good, Coherent, BalancerAgrees
<1> QED
  BY <1>1, Invariance, PTL

\* The active root of a job that is not incremental ends with its job: no volume update,
\* request, eviction or interrupt ever suspends or displaces it.
THEOREM RootEnds == Spec => RootEndsWithJob
<1> DEFINE A == \A w \in Workers, j \in Jobs \ Incremental :
                   Holds(w, j, 0) => Holds(w, j, 0)' \/ db'[w].jobs[j] = None
<1>1. ASSUME Inv, [Next]_vars PROVE A
  <2>1. RootsKept
    BY <1>1, NextStep, Zenon
  <2>2. ASSUME NEW w \in Workers, NEW j \in Jobs \ Incremental, Holds(w, j, 0)
        PROVE  Holds(w, j, 0)' \/ db'[w].jobs[j] = None
    <3>1. KeepsRoot(db[w], db'[w], j) \/ ~Has(db'[w], j)
      BY <2>1, Zenon DEF RootsKept
    <3> QED
      BY <2>2, <3>1, Zenon DEF KeepsRoot, ActiveRoot, Runs, Holds, Has
  <2> QED
    BY <2>2, Zenon
<1>2. Inv /\ [Next]_vars => [A]_vars
  BY <1>1, Zenon
<1> HIDE DEF A
<1>3. Spec => [][A]_vars
  BY <1>2, Invariance, PTL DEF Spec
<1> QED
  BY <1>3, Zenon DEF RootEndsWithJob, A

\* The root of an incremental job stays where it was started until the user declares the
\* job done: it may be suspended and resumed, but it is neither replaced nor forgotten.
THEOREM RootStays == Spec => RootKept
<1> DEFINE A == \A w \in Workers, j \in Incremental :
                   IsRoot(w, j) => IsRoot(w, j)' \/ ~client[j].active
<1>1. ASSUME Inv, [Next]_vars PROVE A
  <2>1. RootsKept
    BY <1>1, NextStep, Zenon
  <2>2. ASSUME NEW w \in Workers, NEW j \in Incremental, IsRoot(w, j)
        PROVE  IsRoot(w, j)' \/ ~client[j].active
    <3>1. j \in Jobs
      BY DatabaseAssumption, Zenon
    <3>2. KeepsRoot(db[w], db'[w], j) \/ j \in Ended
      BY <2>1, <3>1, Zenon DEF RootsKept, MayEnd
    <3> QED
      BY <2>2, <3>2, Zenon DEF KeepsRoot, StartedRoot, IsRoot, Has, Ended
  <2> QED
    BY <2>2, Zenon
<1>2. Inv /\ [Next]_vars => [A]_vars
  BY <1>1, Zenon
<1> HIDE DEF A
<1>3. Spec => [][A]_vars
  BY <1>2, Invariance, PTL DEF Spec
<1> QED
  BY <1>3, Zenon DEF RootKept, A
=============================================================================
