-------------------------- MODULE EventOrderProofs --------------------------
(***************************************************************************)
(* No event of a job is lost, doubled or overtaken on its way to rank 0,   *)
(* for every tree of ranks, every set of jobs and every bound: the         *)
(* invariant EventsInOrder (EventOrder) and what follows from it.          *)
(***************************************************************************)
EXTENDS EventDrivenBalancerProofs

-----------------------------------------------------------------------------
(***************************************************************************)
(* The log.                                                                *)
(***************************************************************************)
\* Rank 0 takes over an event newer than those logged, and forgets the job when it is
\* the termination (updateBy, removeOldZeros)
LEMMA TakenOver ==
    ASSUME NEW m \in EventMaps, NEW d \in EventMaps, NEW j \in Jobs,
           m[j] # NoEvent => WellFormed(m[j]) /\ m[j].epoch # TermEpoch,
           d[j] # NoEvent => WellFormed(d[j]) /\ (m[j] # NoEvent => m[j].epoch < d[j].epoch)
    PROVE  /\ UpdateBy(m, d)[j] = IF d[j] = NoEvent THEN m[j] ELSE d[j]
           /\ RemoveOldZeros(UpdateBy(m, d))[j] =
                 IF d[j] = NoEvent THEN m[j] ELSE IF d[j].epoch = TermEpoch THEN NoEvent ELSE d[j]
           /\ FilterBy(d, UpdateBy(m, d))[j] = NoEvent
  <1>0. /\ m[j] \in Event \cup {NoEvent} /\ d[j] \in Event \cup {NoEvent}
        /\ \A e \in Event : e.epoch \in Nat /\ e # NoEvent
    BY EventMapAssumption DEF EventMaps, Event
  <1>1. UpdateBy(m, d)[j] = IF d[j] = NoEvent THEN m[j] ELSE d[j]
    <2>1. UpdateBy(m, d)[j] = IF IsNovel(d[j], m[j]) THEN d[j] ELSE m[j]
      BY Zenon DEF UpdateBy
    <2>2. IsNovel(d[j], m[j]) <=> d[j] # NoEvent
      BY <1>0, Zenon DEF IsNovel, Dominates
    <2>3. QED
      BY <2>1, <2>2, Zenon
  <1> DEFINE s == UpdateBy(m, d)
  <1>2. RemoveOldZeros(s)[j] = IF s[j] # NoEvent /\ s[j].demand = 0 /\ s[j].priority = "zero"
                               THEN NoEvent ELSE s[j]
    BY Zenon DEF RemoveOldZeros
  <1>3. FilterBy(d, s)[j] = IF d[j] # NoEvent /\ s[j] # NoEvent /\ s[j].epoch >= d[j].epoch
                            THEN NoEvent ELSE d[j]
    BY Zenon DEF FilterBy
  <1> HIDE DEF s
  <1>4. s[j] = IF d[j] = NoEvent THEN m[j] ELSE d[j]
    BY <1>1, Zenon DEF s
  <1>5. RemoveOldZeros(s)[j] =
                 IF d[j] = NoEvent THEN m[j] ELSE IF d[j].epoch = TermEpoch THEN NoEvent ELSE d[j]
    BY <1>2, <1>4, Zenon DEF WellFormed
  <1>6. FilterBy(d, s)[j] = NoEvent
    BY <1>0, <1>3, <1>4
  <1>7. QED
    BY <1>1, <1>5, <1>6, Zenon DEF s

\* The log grows by an entry with event e of job j, or NoEvent, newer than those logged
LEMMA LogGrows ==
    ASSUME NEW j \in Jobs, LogInOrder(j), NEW N \in Nat, DOMAIN log = 1..N, DOMAIN log' = 1..(N + 1),
           \A k \in 1..N : log'[k] = log[k] /\ log[k].events[j] \in Event \cup {NoEvent},
           NEW e \in Event \cup {NoEvent}, log'[N + 1].events[j] = e,
           NEW x, log'[N + 1].result[j] = x, states'[0][j] = x,
           x = IF e = NoEvent THEN states[0][j] ELSE IF e.epoch = TermEpoch THEN NoEvent ELSE e,
           \A f \in LogEvents(j) : f.epoch <= Newest(j)',
           e # NoEvent => /\ e.epoch <= Newest(j)' /\ WellFormed(e)
                          /\ \A f \in LogEvents(j) : f.epoch < e.epoch
    PROVE  LogInOrder(j)' /\ LogEvents(j)' = LogEvents(j) \cup ({e} \ {NoEvent})
  <1>0. /\ \A f \in Event : f.epoch \in Nat /\ f.epoch <= TermEpoch /\ f # NoEvent
        /\ \A f \in LogEvents(j) : f \in Event
        /\ TermEpoch \in Nat
    BY EventMapAssumption DEF LogEvents, Event
  <1>1. \A k \in 1..(N + 1) : k \in 1..N \/ k = N + 1
    OBVIOUS
  <1>2. \A k \in 1..N : log[k].events[j] # NoEvent => log[k].events[j] \in LogEvents(j)
    BY Zenon DEF LogEvents
  <1>3. LogEvents(j)' = LogEvents(j) \cup ({e} \ {NoEvent})
    <2>1. ASSUME NEW f \in LogEvents(j)' PROVE f \in LogEvents(j) \cup ({e} \ {NoEvent})
      <3>1. f \in Event /\ \E k \in 1..(N + 1) : log'[k].events[j] = f
        BY Zenon DEF LogEvents
      <3>2. QED
        BY <1>0, <1>1, <1>2, <3>1
    <2>2. ASSUME NEW f \in LogEvents(j) PROVE f \in LogEvents(j)'
      <3>1. PICK k \in 1..N : log[k].events[j] = f
        BY Zenon DEF LogEvents
      <3>2. k \in DOMAIN log' /\ log'[k].events[j] = f
        BY <3>1
      <3>3. QED
        BY <1>0, <3>2, Zenon DEF LogEvents
    <2>3. e # NoEvent => e \in LogEvents(j)'
      <3>1. N + 1 \in DOMAIN log'
        OBVIOUS
      <3>2. QED
        BY <3>1, Zenon DEF LogEvents
    <2>4. QED
      BY <2>1, <2>2, <2>3, Zenon
  <1>4. \A f \in LogEvents(j)' : f.epoch <= Newest(j)' /\ WellFormed(f)
    BY <1>3, Zenon DEF LogInOrder
  <1>5. ASSUME NEW i \in DOMAIN log', NEW k \in DOMAIN log', i < k,
               log'[i].events[j] # NoEvent, log'[k].events[j] # NoEvent
        PROVE  log'[i].events[j].epoch < log'[k].events[j].epoch
    <2>1. i \in 1..N
      BY <1>5
    <2>2. CASE k \in 1..N
      BY <1>5, <2>1, <2>2, Zenon DEF LogInOrder
    <2>3. CASE k = N + 1
      BY <1>2, <1>5, <2>1, <2>3, Zenon
    <2>4. QED
      BY <1>1, <2>2, <2>3, Zenon
  <1>6. x \in LogEvents(j)' \cup {NoEvent}
    BY <1>3, Zenon DEF LogInOrder
  <1>7. \A k \in DOMAIN log' : log'[k].result[j] \in LogEvents(j)' \cup {NoEvent}
    <2>1. \A k \in 1..N : log'[k].result[j] \in LogEvents(j)' \cup {NoEvent}
      BY <1>3, Zenon DEF LogInOrder
    <2>2. QED
      BY <1>1, <1>6, <2>1, Zenon
  <1>8. ASSUME NEW i \in DOMAIN log', NEW k \in DOMAIN log', i <= k,
               log'[i].events[j] # NoEvent, log'[i].events[j].epoch = TermEpoch
        PROVE  log'[k].result[j] = NoEvent
    <2>1. CASE k \in 1..N
      <3>1. i \in 1..N
        BY <1>8, <2>1
      <3>2. QED
        BY <1>8, <2>1, <3>1 DEF LogInOrder
    <2>2. CASE k = N + 1 /\ i = N + 1
      BY <1>8, <2>2, Zenon
    <2>3. CASE k = N + 1 /\ i \in 1..N
      <3>1. log[i].events[j] \in LogEvents(j) /\ log[i].events[j].epoch = TermEpoch
        BY <1>2, <1>8, <2>3
      <3>2. states[0][j] = NoEvent
        BY <3>1, Zenon DEF LogInOrder
      <3>3. e = NoEvent
        BY <1>0, <3>1
      <3>4. QED
        BY <2>3, <3>2, <3>3, Zenon
    <2>4. QED
      BY <1>1, <2>1, <2>2, <2>3, Zenon
  <1>9. ASSUME NEW f \in LogEvents(j)'
        PROVE  IF f.epoch = TermEpoch THEN x = NoEvent
               ELSE \/ x # NoEvent /\ f.epoch <= x.epoch
                    \/ \E g \in LogEvents(j)' : g.epoch = TermEpoch
    <2>1. CASE e = NoEvent
      <3>1. LogEvents(j)' = LogEvents(j) /\ x = states[0][j]
        BY <1>3, <2>1, Zenon
      <3>2. QED
        BY <3>1, Zenon DEF LogInOrder
    <2>2. CASE e # NoEvent /\ e.epoch = TermEpoch
      <3>1. x = NoEvent /\ e \in LogEvents(j)'
        BY <1>3, <2>2, Zenon
      <3>2. QED
        BY <2>2, <3>1, Zenon
    <2>3. CASE e # NoEvent /\ e.epoch # TermEpoch
      <3>1. x = e /\ e \in Event
        BY <2>3, Zenon
      <3>2. f.epoch <= e.epoch /\ f.epoch \in Nat
        BY <1>0, <1>3, <3>1
      <3>3. QED
        BY <1>0, <2>3, <3>1, <3>2
    <2>4. QED
      BY <2>1, <2>2, <2>3, Zenon
  <1>10. LogInOrder(j)'
    BY <1>4, <1>5, <1>6, <1>7, <1>8, <1>9, Zenon DEF LogInOrder
  <1>11. QED
    BY <1>3, <1>10, Zenon

\* A batch with an event of job j that is newer than those logged keeps the log in order
LEMMA LogLead ==
    ASSUME log \in Seq(LogEntry), states[0] \in EventMaps, NEW j \in Jobs, LogInOrder(j),
           NEW d \in EventMaps, NEW w,
           log' = Append(log, [events |-> d, result |-> RemoveOldZeros(UpdateBy(states[0], d)), volumes |-> w]),
           log' \in Seq(LogEntry), states'[0] = RemoveOldZeros(UpdateBy(states[0], d)),
           \A e \in LogEvents(j) : e.epoch <= Newest(j)',
           d[j] # NoEvent => /\ d[j].epoch <= Newest(j)' /\ WellFormed(d[j])
                             /\ \A e \in LogEvents(j) : e.epoch < d[j].epoch
    PROVE  /\ LogInOrder(j)' /\ LogEvents(j)' = LogEvents(j) \cup ({d[j]} \ {NoEvent})
           /\ FilterBy(d, UpdateBy(states[0], d))[j] = NoEvent
           /\ UpdateBy(states[0], d)[j] # NoEvent => UpdateBy(states[0], d)[j] \in LogEvents(j)'
  <1> DEFINE N == Len(log)
             m == states[0]
             res == RemoveOldZeros(UpdateBy(m, d))
  <1>1. /\ N \in Nat /\ DOMAIN log = 1..N /\ DOMAIN log' = 1..(N + 1)
        /\ \A k \in 1..N : log'[k] = log[k] /\ log[k] \in LogEntry
        /\ log'[N + 1].events = d /\ log'[N + 1].result = res
    OBVIOUS
  <1>2. \A k \in 1..N : log[k].events[j] \in Event \cup {NoEvent}
    BY <1>1, Zenon DEF LogEntry, EventMaps
  <1>3. d[j] \in Event \cup {NoEvent} /\ m[j] \in LogEvents(j) \cup {NoEvent}
    BY Zenon DEF EventMaps, LogInOrder
  <1>4. m[j] # NoEvent => WellFormed(m[j]) /\ m[j].epoch # TermEpoch
    BY <1>3, Zenon DEF LogInOrder
  <1>5. d[j] # NoEvent => WellFormed(d[j]) /\ (m[j] # NoEvent => m[j].epoch < d[j].epoch)
    BY <1>3, Zenon
  <1>6. /\ UpdateBy(m, d)[j] = IF d[j] = NoEvent THEN m[j] ELSE d[j]
        /\ res[j] = IF d[j] = NoEvent THEN m[j] ELSE IF d[j].epoch = TermEpoch THEN NoEvent ELSE d[j]
        /\ FilterBy(d, UpdateBy(m, d))[j] = NoEvent
    BY <1>4, <1>5, TakenOver, Zenon
  <1>7. states'[0][j] = res[j]
    BY Zenon
  <1> HIDE DEF N, m, res
  <1>8. LogInOrder(j)' /\ LogEvents(j)' = LogEvents(j) \cup ({d[j]} \ {NoEvent})
    BY <1>1, <1>2, <1>3, <1>6, <1>7, LogGrows DEF m
  <1>9. UpdateBy(m, d)[j] # NoEvent => UpdateBy(m, d)[j] \in LogEvents(j)'
    BY <1>3, <1>6, <1>8, Zenon
  <1>10. QED
    BY <1>6, <1>8, <1>9, Zenon DEF m

-----------------------------------------------------------------------------
(***************************************************************************)
(* What a step does with the events on their way.                          *)
(***************************************************************************)
\* The diffs D of rank r, with the messages u on their way, are kept, sent to the parent,
\* or at rank 0 put into the log (handleData)
Outcome(r, u, D, reqs) ==
    \/ /\ up' = u /\ diffs' = D /\ log' = log /\ states' = states /\ rootRequest' = reqs
    \/ /\ r # 0 /\ up' = [u EXCEPT ![r] = Append(u[r], D[r])]
       /\ diffs' = [D EXCEPT ![r] = EmptyMap]
       /\ log' = log /\ states' = states /\ rootRequest' = reqs
    \/ /\ r = 0 /\ up' = u
       /\ diffs' = [D EXCEPT ![0] = FilterBy(D[0], UpdateBy(states[0], D[0]))]
       /\ states'[0] = RemoveOldZeros(UpdateBy(states[0], D[0]))
       /\ log' = Append(log, [events |-> D[0], result |-> RemoveOldZeros(UpdateBy(states[0], D[0])),
                              volumes |-> BalancingResult(UpdateBy(states[0], D[0]))])
       /\ \A j \in Jobs : rootRequest'[j] = NoRank =>
                             reqs[j] = NoRank \/ UpdateBy(states[0], D[0])[j] # NoEvent

\* handleData has one of these outcomes
LEMMA FlushOutcome ==
    ASSUME TypeOK, NEW r \in Ranks, NEW d \in EventMaps, NEW rest \in [Ranks -> Seq(EventMaps)], NEW reqs,
           Flush(r, d, rest, reqs) \/ Keep(r, d, rest, reqs)
    PROVE  Outcome(r, rest, [diffs EXCEPT ![r] = d], reqs)
  <1> DEFINE D == [diffs EXCEPT ![r] = d]
  <1>0. /\ diffs \in [Ranks -> EventMaps] /\ states \in [Ranks -> EventMaps] /\ D[r] = d
        /\ \A x : [D EXCEPT ![r] = x] = [diffs EXCEPT ![r] = x]
    BY Zenon DEF TypeOK
  <1> HIDE DEF D
  <1>1. CASE Keep(r, d, rest, reqs)
    BY <1>1, Zenon DEF Keep, Outcome
  <1>2. CASE Flush(r, d, rest, reqs) /\ ~IsRoot(r)
    <2>1. up' = [rest EXCEPT ![r] = Append(rest[r], d)] /\ diffs' = [diffs EXCEPT ![r] = EmptyMap]
      BY <1>2, Zenon DEF Flush
    <2>2. diffs' = [D EXCEPT ![r] = EmptyMap]
      BY <1>0, <2>1, Zenon
    <2>3. r # 0 /\ log' = log /\ states' = states /\ rootRequest' = reqs
      BY <1>2, Zenon DEF Flush, IsRoot
    <2>4. Outcome(r, rest, D, reqs)
      BY <1>0, <2>1, <2>2, <2>3, Zenon DEF Outcome
    <2>5. QED
      BY <2>4, Zenon DEF D
  <1>3. CASE Flush(r, d, rest, reqs) /\ IsRoot(r)
    <2>1. r = 0 /\ up' = rest
      BY <1>3, Zenon DEF Flush, IsRoot
    <2>2. /\ diffs' = [diffs EXCEPT ![0] = FilterBy(d, UpdateBy(states[0], d))]
          /\ states' = [states EXCEPT ![0] = RemoveOldZeros(UpdateBy(states[0], d))]
          /\ log' = Append(log, [events |-> d, result |-> RemoveOldZeros(UpdateBy(states[0], d)),
                                 volumes |-> BalancingResult(UpdateBy(states[0], d))])
          /\ rootRequest' = [j \in Jobs |-> IF reqs[j] = 0 /\ CallsBack(0, UpdateBy(states[0], d), j)
                                            THEN NoRank ELSE reqs[j]]
      BY <1>3, <2>1, Zenon DEF Flush, Digest, Digested
    <2>3. diffs' = [D EXCEPT ![0] = FilterBy(d, UpdateBy(states[0], d))]
      BY <1>0, <2>1, <2>2, Zenon
    <2>4. states'[0] = RemoveOldZeros(UpdateBy(states[0], d))
      BY <1>0, <2>1, <2>2, Zenon
    <2>5. \A j \in Jobs : rootRequest'[j] = NoRank =>
                             reqs[j] = NoRank \/ UpdateBy(states[0], d)[j] # NoEvent
      BY <2>2, Zenon DEF CallsBack
    <2>6. Outcome(r, rest, D, reqs)
      BY <1>0, <2>1, <2>2, <2>3, <2>4, <2>5, Zenon DEF Outcome
    <2>7. QED
      BY <2>6, Zenon DEF D
  <1>4. QED
    BY <1>1, <1>2, <1>3, Zenon DEF D

\* Rank 0 sends nothing upwards
LEMMA OutcomeAtRoot ==
    ASSUME NEW r \in Ranks, NEW u \in [Ranks -> Seq(EventMaps)], NEW D, NEW reqs, u[0] = <<>>,
           Outcome(r, u, D, reqs)
    PROVE  up'[0] = <<>>
  <1>1. 0 \in Ranks
    BY BalancerAssumption DEF Ranks
  <1>2. CASE up' = u
    BY <1>2, Zenon
  <1>3. CASE r # 0 /\ up' = [u EXCEPT ![r] = Append(u[r], D[r])]
    BY <1>1, <1>3, Zenon
  <1>4. QED
    BY <1>2, <1>3, Zenon DEF Outcome

\* Whatever the outcome, the events of job j stay in order
LEMMA OutcomeKeeps ==
    ASSUME TypeOK, TypeOK', NEW u \in [Ranks -> Seq(EventMaps)], NEW D \in [Ranks -> EventMaps],
           NEW r \in Ranks, NEW reqs, u[0] = <<>>, Outcome(r, u, D, reqs), NEW j \in Jobs,
           NEW n \in Nat, n = Newest(j)', NEW h, h = Base(j)',
           Flows(j, u, D, LogEvents(j), n, h), LogInOrder(j),
           \A e \in LogEvents(j) : e.epoch <= n
    PROVE  /\ Flows(j, up, diffs, LogEvents(j), Newest(j), Base(j))'
           /\ LogInOrder(j)' /\ up'[0] = <<>> /\ LogEvents(j) \subseteq LogEvents(j)'
           /\ rootRequest'[j] = NoRank => reqs[j] = NoRank \/ LogEvents(j)' # {}
  <1>0. /\ 0 \in Ranks /\ log \in Seq(LogEntry) /\ log' \in Seq(LogEntry) /\ states[0] \in EventMaps
        /\ diffs' \in [Ranks -> EventMaps] /\ D[0] \in EventMaps
    BY BalancerAssumption DEF TypeOK, Ranks
  <1>1. CASE log' = log /\ states' = states
    <2>1. LogEvents(j)' = LogEvents(j)
      BY <1>1, Zenon DEF LogEvents
    <2>2. LogInOrder(j)'
      BY <1>1, <2>1, Zenon DEF LogInOrder
    <2>3. QED
      <3>1. CASE up' = u /\ diffs' = D /\ rootRequest' = reqs
        BY <2>1, <2>2, <3>1, Zenon
      <3>2. CASE /\ r # 0 /\ up' = [u EXCEPT ![r] = Append(u[r], D[r])] /\ rootRequest' = reqs
                 /\ diffs' = [D EXCEPT ![r] = EmptyMap]
        <4>1. Flows(j, up', diffs', LogEvents(j), n, h)
          BY <3>2, SendFlows, Zenon
        <4>2. up'[0] = <<>>
          BY <1>0, <3>2, Zenon
        <4>3. QED
          BY <2>1, <2>2, <3>2, <4>1, <4>2, Zenon
      <3>3. CASE log' = Append(log, [events |-> D[0], result |-> RemoveOldZeros(UpdateBy(states[0], D[0])),
                              volumes |-> BalancingResult(UpdateBy(states[0], D[0]))])
        BY <1>0, <1>1, <3>3
      <3>4. QED
        BY <3>1, <3>2, <3>3, Zenon DEF Outcome
  <1>2. CASE /\ r = 0 /\ up' = u
             /\ diffs' = [D EXCEPT ![0] = FilterBy(D[0], UpdateBy(states[0], D[0]))]
             /\ states'[0] = RemoveOldZeros(UpdateBy(states[0], D[0]))
             /\ log' = Append(log, [events |-> D[0], result |-> RemoveOldZeros(UpdateBy(states[0], D[0])),
                                    volumes |-> BalancingResult(UpdateBy(states[0], D[0]))])
             /\ \A k \in Jobs : rootRequest'[k] = NoRank =>
                                   reqs[k] = NoRank \/ UpdateBy(states[0], D[0])[k] # NoEvent
    <2>1. D[0][j] # NoEvent => /\ D[0][j].epoch <= n /\ WellFormed(D[0][j])
                               /\ \A e \in LogEvents(j) : e.epoch < D[0][j].epoch
      <3>1. 1 \in Places(u, 0) /\ At(u, D, 0, 1) = D[0]
        BY DEF Places, At
      <3>a. At(u, D, 0, 1)[j] # NoEvent => At(u, D, 0, 1)[j] \in Pend(u, D, j)
        BY <1>0, <3>1, AtType, Zenon
      <3>2. D[0][j] # NoEvent => D[0][j] \in Pend(u, D, j)
        BY <3>1, <3>a, Zenon
      <3>3. QED
        BY <3>2, Zenon DEF Flows
    <2>2. /\ LogInOrder(j)' /\ LogEvents(j)' = LogEvents(j) \cup ({D[0][j]} \ {NoEvent})
          /\ FilterBy(D[0], UpdateBy(states[0], D[0]))[j] = NoEvent
          /\ UpdateBy(states[0], D[0])[j] # NoEvent => UpdateBy(states[0], D[0])[j] \in LogEvents(j)'
      BY <1>0, <1>2, <2>1, LogLead, SMTT(20)
    <2>a. Flows(j, u, [D EXCEPT ![0] = EmptyMap], LogEvents(j) \cup ({D[0][j]} \ {NoEvent}), n, h)
      BY <1>0, LeadFlows, Zenon
    <2>3. Flows(j, u, [D EXCEPT ![0] = EmptyMap], LogEvents(j)', n, h)
      BY <2>2, <2>a, Zenon
    <2>4. /\ \A q \in Ranks : diffs'[q][j] = [D EXCEPT ![0] = EmptyMap][q][j]
          /\ [D EXCEPT ![0] = EmptyMap] \in [Ranks -> EventMaps]
      BY <1>0, <1>2, <2>2, EventMapTypes, Zenon DEF EmptyMap
    <2>5. Flows(j, u, diffs', LogEvents(j)', n, h)
      BY <1>0, <2>3, <2>4, OtherFlows, Zenon
    <2>6. QED
      BY <1>2, <2>2, <2>5, Zenon
  <1>3. QED
    BY <1>1, <1>2, Zenon DEF Outcome

\* The newest epoch of a job, by the job's state
LEMMA NewestFacts ==
    ASSUME TypeOK, RootKnown, NEW j \in Jobs
    PROVE  /\ Newest(j) \in Nat
           /\ jobState[j] = "new" <=> Newest(j) = 0
           /\ jobState[j] = "probed" => Newest(j) = 1
           /\ jobState[j] \in {"committed", "running", "dormant"} =>
                 /\ Newest(j) = rootEpoch[home[j]][j] /\ Newest(j) <= MaxJobEpoch
                 /\ Base(j) = home[j] /\ home[j] \in Ranks /\ Placed(j)
           /\ jobState[j] = "done" => Newest(j) = TermEpoch /\ Placed(j) /\ Base(j) = home[j]
           /\ Placed(j) <=> jobState[j] \notin {"new", "probed"}
           /\ ~Placed(j) => Base(j) = NoRank
  <1>1. jobState[j] \in JobStates
    BY Zenon DEF TypeOK
  <1>2. Placed(j) <=> jobState[j] \notin {"new", "probed"}
    BY <1>1, Zenon DEF Placed, JobStates
  <1>3. CASE jobState[j] \in {"committed", "running", "dormant"}
    <2>1. home[j] \in Ranks /\ rootEpoch[home[j]][j] > 0
      BY <1>3, Zenon DEF RootKnown
    <2>2. rootEpoch[home[j]][j] \in 0..MaxJobEpoch
      BY <2>1, Zenon DEF TypeOK
    <2>3. Newest(j) = rootEpoch[home[j]][j]
      BY <1>3, Zenon DEF Newest, LastEpoch
    <2>4. QED
      BY <1>2, <1>3, <2>1, <2>2, <2>3, BalancerAssumption DEF Base
  <1>4. CASE jobState[j] = "new"
    BY <1>2, <1>4, Zenon DEF Newest, Base
  <1>5. CASE jobState[j] = "probed"
    BY <1>2, <1>5 DEF Newest, LastEpoch, Base
  <1>6. CASE jobState[j] = "done"
    BY <1>2, <1>6, EventMapAssumption, Zenon DEF Newest, LastEpoch, Base
  <1>7. QED
    BY <1>1, <1>3, <1>4, <1>5, <1>6, Zenon DEF JobStates

\* A step of which job j takes no notice but for the outcome of handleData
LEMMA QuietOutcome ==
    ASSUME TypeOK, TypeOK', RootKnown, RootKnown', NEW j \in Jobs, JobInOrder(j),
           NEW u \in [Ranks -> Seq(EventMaps)], NEW D \in [Ranks -> EventMaps],
           NEW r \in Ranks, NEW reqs, u[0] = <<>>, Outcome(r, u, D, reqs),
           Flows(j, u, D, LogEvents(j), Newest(j), Base(j)),
           Newest(j)' = Newest(j), Base(j)' = Base(j), EpochAtHome(j)', jobState'[j] = jobState[j],
           reqs[j] = NoRank => rootRequest[j] = NoRank
    PROVE  JobInOrder(j)' /\ up'[0] = <<>>
  <1>1. Newest(j) \in Nat
    BY NewestFacts, Zenon
  <1>2. \A e \in LogEvents(j) : e.epoch <= Newest(j)
    BY Zenon DEF JobInOrder, LogInOrder
  <1>3. LogInOrder(j)
    BY Zenon DEF JobInOrder
  <1>4. /\ Flows(j, up, diffs, LogEvents(j), Newest(j), Base(j))'
        /\ LogInOrder(j)' /\ up'[0] = <<>> /\ LogEvents(j) \subseteq LogEvents(j)'
        /\ rootRequest'[j] = NoRank => reqs[j] = NoRank \/ LogEvents(j)' # {}
    BY <1>1, <1>2, <1>3, OutcomeKeeps, Zenon
  <1>5. Placed(j)' <=> Placed(j)
    BY Zenon DEF Placed
  <1>6. QED
    BY <1>4, <1>5, Zenon DEF JobInOrder

\* Messages and advance() keep the events in order
LEMMA BalanceOrder ==
    ASSUME TypeOK, TypeOK', RootKnown, RootKnown', FollowLogByParts, EventsInOrder, Balance
    PROVE  EventsInOrder'
  <1>0. /\ up \in [Ranks -> Seq(EventMaps)] /\ diffs \in [Ranks -> EventMaps] /\ up[0] = <<>>
        /\ diffs' \in [Ranks -> EventMaps]
        /\ states \in [Ranks -> EventMaps] /\ \A j \in Jobs : JobInOrder(j)
    BY Zenon DEF TypeOK, EventsInOrder
  <1>1. UNCHANGED <<jobState, home, rootEpoch>>
    BY Zenon DEF Balance, Advance, HandleReduce, HandleBroadcast, localVars
  <1>2. ASSUME NEW j \in Jobs
        PROVE  /\ Newest(j)' = Newest(j) /\ Base(j)' = Base(j) /\ EpochAtHome(j)' /\ jobState'[j] = jobState[j]
               /\ Placed(j)' <=> Placed(j)
               /\ Flows(j, up, diffs, LogEvents(j), Newest(j), Base(j)) /\ Newest(j) \in Nat
    BY <1>0, <1>1, NewestFacts DEF JobInOrder, Newest, Base, EpochAtHome, LastEpoch, Placed
  <1>3. ASSUME NEW r \in Ranks, Advance(r) PROVE EventsInOrder'
    <2>1. diffs[r] \in EventMaps /\ [diffs EXCEPT ![r] = diffs[r]] = diffs
      BY <1>0, Zenon
    <2>2. Outcome(r, up, diffs, rootRequest)
      BY <1>0, <1>3, <2>1, FlushOutcome DEF Advance
    <2>3. ASSUME NEW j \in Jobs PROVE JobInOrder(j)' /\ up'[0] = <<>>
      BY <1>0, <1>2, <2>2, QuietOutcome, Zenon
    <2>4. up'[0] = <<>>
      BY <1>0, <2>2, OutcomeAtRoot, Zenon
    <2>5. QED
      BY <2>3, <2>4, Zenon DEF EventsInOrder
  <1>4. ASSUME NEW r \in Ranks, NEW c \in Ranks, HandleReduce(r, c) PROVE EventsInOrder'
    <2> DEFINE u == [up EXCEPT ![c] = Tail(up[c])]
               d == UpdateBy(diffs[r], Head(up[c]))
               D == [diffs EXCEPT ![r] = d]
    <2>1. c \in ChildRanks[r] /\ up[c] # <<>> /\ c # 0
      BY <1>4, TreeAssumption, Zenon DEF HandleReduce, IsRoot
    <2>2. /\ u \in [Ranks -> Seq(EventMaps)] /\ d \in EventMaps /\ D \in [Ranks -> EventMaps]
          /\ u[0] = <<>>
      <3>1. Head(up[c]) \in EventMaps /\ Tail(up[c]) \in Seq(EventMaps) /\ 0 \in Ranks
        BY <1>0, <2>1, BalancerAssumption DEF Ranks
      <3>2. d \in EventMaps
        BY <1>0, <3>1, EventMapTypes, Zenon
      <3>3. QED
        BY <1>0, <2>1, <3>1, <3>2, Zenon
    <2>3. Flush(r, d, u, rootRequest) \/ Keep(r, d, u, rootRequest)
      BY <1>4, Zenon DEF HandleReduce
    <2> HIDE DEF u, d
    <2>4. Outcome(r, u, D, rootRequest)
      BY <2>2, <2>3, FlushOutcome, Zenon
    <2>5. ASSUME NEW j \in Jobs PROVE JobInOrder(j)' /\ up'[0] = <<>>
      <3>1. Flows(j, u, D, LogEvents(j), Newest(j), Base(j))
        BY <1>0, <1>2, <2>1, MergeFlows, Zenon DEF u, d
      <3> HIDE DEF D
      <3>2. QED
        BY <1>0, <1>2, <2>2, <2>4, <3>1, QuietOutcome, Zenon
    <2>6. up'[0] = <<>>
      BY <2>2, <2>4, OutcomeAtRoot, Zenon
    <2>7. QED
      BY <2>5, <2>6, Zenon DEF EventsInOrder
  <1>5. ASSUME NEW r \in Ranks, HandleBroadcast(r) PROVE EventsInOrder'
    <2> DEFINE b == balancingEpoch[r]
               s == UpdateBy(states[r], Head(down[r]).events)
    <2>1. down[r] # <<>> /\ FollowStep(r, Head(down[r])) /\ up' = up
      BY <1>5, Zenon DEF HandleBroadcast, Digest, Digested, FollowStep, Entry
    <2>2. r # 0 /\ b < Len(log) /\ log' = log /\ states' = [states EXCEPT ![r] = log[b + 1].result]
      BY <2>1, FollowKeeps, Zenon
    <2>3. /\ b \in Nat /\ b + 1 \in DOMAIN log /\ (b # 0 => b \in DOMAIN log)
          /\ states[r] = IF b = 0 THEN EmptyMap ELSE log[b].result
          /\ Head(down[r]).events = log[b + 1].events /\ log[b + 1].events \in EventMaps
          /\ states[r] \in EventMaps /\ states'[0] = states[0]
      <3>1. b \in Nat /\ log \in Seq(LogEntry) /\ down[r] \in Seq(Broadcast) /\ states[r] \in EventMaps
        BY Zenon DEF TypeOK
      <3>2. states[r] = IF b = 0 THEN EmptyMap ELSE log[b].result
        BY Zenon DEF FollowLogByParts, ReplicaAt
      <3>3. Head(down[r]) = down[r][1] /\ 1 \in 1..Len(down[r])
        BY <2>1, <3>1
      <3>4. down[r][1] = Pending(r, 1)
        BY <2>2, <3>3, Zenon DEF FollowLogByParts, InTransit
      <3>5. b + 1 \in DOMAIN log /\ (b # 0 => b \in DOMAIN log) /\ log[b + 1] \in LogEntry
        BY <2>2, <3>1
      <3>6. 0 \in Ranks /\ states'[0] = states[0]
        BY <1>0, <2>2, BalancerAssumption DEF Ranks
      <3>7. QED
        BY <3>1, <3>2, <3>3, <3>4, <3>5, <3>6 DEF Pending, LogEntry
    <2>4. /\ diffs' = [diffs EXCEPT ![r] = FilterBy(diffs[r], s)]
          /\ rootRequest' = [j \in Jobs |-> IF rootRequest[j] = r /\ CallsBack(r, s, j)
                                            THEN NoRank ELSE rootRequest[j]]
      BY <1>5, Zenon DEF HandleBroadcast, Digest, Digested
    <2>5. ASSUME NEW j \in Jobs PROVE JobInOrder(j)'
      <3>1. s[j] = NoEvent \/ s[j] \in LogEvents(j)
        <4>1. s[j] \in {Head(down[r]).events[j], states[r][j]}
          BY Zenon DEF UpdateBy
        <4>2. states[r][j] = NoEvent \/ states[r][j] \in LogEvents(j)
          BY <1>0, <2>3 DEF JobInOrder, LogInOrder, EmptyMap
        <4>3. log[b + 1].events[j] = NoEvent \/ log[b + 1].events[j] \in LogEvents(j)
          BY <2>3, Zenon DEF LogEvents, EventMaps
        <4>4. QED
          BY <2>3, <4>1, <4>2, <4>3, Zenon
      <3> HIDE DEF s
      <3>2. \A q \in Ranks : diffs'[q][j] = diffs[q][j]
        <4>1. diffs[r][j] # NoEvent /\ s[j] # NoEvent => ~(s[j].epoch >= diffs[r][j].epoch)
          <5>0. up[r] \in Seq(EventMaps)
            BY <1>0, Zenon
          <5>1. Len(up[r]) + 1 \in Places(up, r) /\ At(up, diffs, r, Len(up[r]) + 1) = diffs[r]
            BY <5>0 DEF Places, At
          <5> DEFINE k == Len(up[r]) + 1
          <5>2. At(up, diffs, r, k)[j] # NoEvent =>
                   At(up, diffs, r, k)[j] \in Pend(up, diffs, j) /\ At(up, diffs, r, k)[j].epoch \in Nat
            BY <1>0, <5>1, AtType, Zenon
          <5>3. diffs[r][j] # NoEvent => diffs[r][j] \in Pend(up, diffs, j) /\ diffs[r][j].epoch \in Nat
            BY <5>1, <5>2, Zenon
          <5>4. \A f \in LogEvents(j) : f.epoch \in Nat
            BY EventEpochs, Zenon DEF LogEvents
          <5>5. QED
            BY <1>2, <3>1, <5>3, <5>4 DEF Flows
        <4>2. FilterBy(diffs[r], s)[j] = diffs[r][j]
          BY <4>1, Zenon DEF FilterBy
        <4>3. QED
          BY <1>0, <2>4, <4>2, Zenon
      <3>3. Flows(j, up, diffs', LogEvents(j), Newest(j), Base(j))
        BY <1>0, <1>2, <3>2, OtherFlows, Zenon
      <3>4. LogEvents(j)' = LogEvents(j)
        BY <2>2, Zenon DEF LogEvents
      <3>5. LogInOrder(j)'
        BY <1>0, <1>2, <2>2, <2>3, <3>4 DEF JobInOrder, LogInOrder
      <3>6. rootRequest'[j] = NoRank => rootRequest[j] = NoRank \/ LogEvents(j) # {}
        BY <2>4, <3>1, Zenon DEF CallsBack
      <3>7. QED
        BY <1>0, <1>2, <2>1, <3>3, <3>4, <3>5, <3>6, Zenon DEF JobInOrder
    <2>6. QED
      BY <1>0, <2>1, <2>5, Zenon DEF EventsInOrder
  <1>6. QED
    BY <1>3, <1>4, <1>5, Zenon DEF Balance

\* pushEvent of an event newer than all others of its job, by the job's root node or,
\* for the first one, by the rank that got the job
LEMMA PushOrder ==
    ASSUME TypeOK, TypeOK', RootKnown, RootKnown', EventsInOrder,
           NEW r \in Ranks, NEW i \in Jobs, NEW e \in Event, NEW reqs, PushEvent(r, i, e, reqs),
           WellFormed(e), e.epoch > Newest(i), Base(i) = r \/ (Base(i) = NoRank /\ Newest(i) = 0),
           Newest(i)' = e.epoch, Base(i)' = Base(i), Placed(i)' => Placed(i),
           jobState'[i] = "probed" => reqs[i] # NoRank,
           \A j \in Jobs : EpochAtHome(j)',
           \A j \in Jobs : j # i => /\ Newest(j)' = Newest(j) /\ Base(j)' = Base(j)
                                    /\ jobState'[j] = jobState[j] /\ reqs[j] = rootRequest[j]
    PROVE  EventsInOrder'
  <1> DEFINE d == [diffs[r] EXCEPT ![i] = e]
             D == [diffs EXCEPT ![r] = d]
  <1>0. /\ up \in [Ranks -> Seq(EventMaps)] /\ diffs \in [Ranks -> EventMaps] /\ up[0] = <<>>
        /\ up[r] \in Seq(EventMaps) /\ diffs[r] \in EventMaps /\ \A j \in Jobs : JobInOrder(j)
    BY Zenon DEF TypeOK, EventsInOrder
  <1>1. e.epoch \in Nat /\ e # NoEvent
    BY EventEpochs, Zenon
  <1>2. ASSUME NEW j \in Jobs
        PROVE  /\ Newest(j) \in Nat /\ Flows(j, up, diffs, LogEvents(j), Newest(j), Base(j))
               /\ LogInOrder(j) /\ LogEvents(j) \subseteq Event
               /\ \A f \in LogEvents(j) : f.epoch <= Newest(j)
               /\ \A f \in LogEvents(j) : f.epoch \in Nat
    <2>1. Newest(j) \in Nat
      BY NewestFacts, Zenon
    <2>2. JobInOrder(j) /\ LogInOrder(j)
      BY <1>0, Zenon DEF JobInOrder
    <2>3. \A f \in LogEvents(j) : f.epoch <= Newest(j)
      BY <2>2, Zenon DEF LogInOrder
    <2>4. LogEvents(j) \subseteq Event /\ \A f \in LogEvents(j) : f.epoch \in Nat
      BY EventEpochs, Zenon DEF LogEvents
    <2>5. QED
      BY <2>1, <2>2, <2>3, <2>4, Zenon DEF JobInOrder
  <1>3. IsNovel(e, diffs[r][i])
    <2> DEFINE k == Len(up[r]) + 1
    <2>1. k \in Places(up, r) /\ At(up, diffs, r, k) = diffs[r]
      BY <1>0 DEF Places, At
    <2>2. At(up, diffs, r, k)[i] # NoEvent =>
             At(up, diffs, r, k)[i] \in Pend(up, diffs, i) /\ At(up, diffs, r, k)[i].epoch \in Nat
      BY <1>0, <2>1, AtType, Zenon
    <2>3. diffs[r][i] # NoEvent => diffs[r][i] \in Pend(up, diffs, i) /\ diffs[r][i].epoch \in Nat
      BY <2>1, <2>2, Zenon
    <2>4. diffs[r][i] # NoEvent => diffs[r][i].epoch <= Newest(i)
      BY <1>2, <2>3, Zenon DEF Flows
    <2>5. diffs[r][i] # NoEvent => e.epoch > diffs[r][i].epoch
      BY <1>1, <1>2, <2>3, <2>4
    <2>6. QED
      BY <1>1, <2>5, Zenon DEF IsNovel, Dominates
  <1>4. Flush(r, d, up, reqs) \/ Keep(r, d, up, reqs)
    BY <1>3, Zenon DEF PushEvent, InsertIfNovel
  <1>5. /\ d \in EventMaps /\ D \in [Ranks -> EventMaps]
        /\ \A q \in Ranks : \A j \in Jobs : j # i => D[q][j] = diffs[q][j]
    BY <1>0, Zenon DEF EventMaps
  <1>6. Flows(i, up, D, LogEvents(i), e.epoch, Base(i))
    BY <1>0, <1>2, InsertFlows, Zenon
  <1> HIDE DEF d
  <1>7. Outcome(r, up, D, reqs)
    BY <1>0, <1>4, <1>5, FlushOutcome, Zenon
  <1> HIDE DEF D
  <1>8. JobInOrder(i)'
    <2>1. \A f \in LogEvents(i) : f.epoch <= e.epoch
      BY <1>1, <1>2
    <2>2. /\ Flows(i, up, diffs, LogEvents(i), Newest(i), Base(i))'
          /\ LogInOrder(i)' /\ LogEvents(i) \subseteq LogEvents(i)'
          /\ rootRequest'[i] = NoRank => reqs[i] = NoRank \/ LogEvents(i)' # {}
      BY <1>0, <1>1, <1>2, <1>5, <1>6, <1>7, <2>1, OutcomeKeeps, ZenonT(30)
    <2>3. Placed(i) => LogEvents(i) # {}
      BY <1>0, Zenon DEF JobInOrder
    <2>4. QED
      BY <2>2, <2>3, Zenon DEF JobInOrder
  <1>9. ASSUME NEW j \in Jobs, j # i PROVE JobInOrder(j)'
    <2>1. Flows(j, up, D, LogEvents(j), Newest(j), Base(j))
      BY <1>0, <1>2, <1>5, <1>9, OtherFlows, Zenon
    <2>2. QED
      BY <1>0, <1>5, <1>7, <1>9, <2>1, QuietOutcome, Zenon
  <1>10. up'[0] = <<>>
    BY <1>0, <1>7, OutcomeAtRoot, SMTT(20)
  <1>11. QED
    BY <1>8, <1>9, <1>10, Zenon DEF EventsInOrder

\* A step that concerns no event of job j; its root may be placed if none is on its way
LEMMA QuietStep ==
    ASSUME TypeOK, EventsInOrder, UNCHANGED <<up, diffs, log, states, rootRequest>>,
           NEW j \in Jobs, Newest(j)' = Newest(j), Base(j)' = Base(j) \/ Base(j) = NoRank,
           Base(j)' # Base(j) => Pend(up, diffs, j) = {} /\ Base(j)' \in Ranks,
           Placed(j)' => LogEvents(j) # {}, jobState'[j] = "probed" => jobState[j] = "probed",
           EpochAtHome(j)'
    PROVE  JobInOrder(j)'
  <1>0. JobInOrder(j) /\ LogInOrder(j) /\ Flows(j, up, diffs, LogEvents(j), Newest(j), Base(j))
    BY Zenon DEF EventsInOrder, JobInOrder
  <1>1. LogEvents(j)' = LogEvents(j)
    BY Zenon DEF LogEvents
  <1>2. LogInOrder(j)'
    BY <1>0, <1>1, Zenon DEF LogInOrder
  <1>3. Flows(j, up, diffs, LogEvents(j), Newest(j), Base(j)')
    <2>1. CASE Base(j)' = Base(j)
      BY <1>0, <2>1, Zenon
    <2>2. CASE Base(j)' # Base(j)
      <3>1. \A r \in Ranks : \A i \in Places(up, r) : At(up, diffs, r, i)[j] = NoEvent
        BY <2>2, AtType, Zenon DEF TypeOK
      <3>2. OrderedFrom(up, diffs, j, Base(j)')
        BY <3>1, Zenon DEF OrderedFrom
      <3>3. QED
        BY <1>0, <2>2, <3>2, Zenon DEF Flows
    <2>3. QED
      BY <2>1, <2>2, Zenon
  <1>4. QED
    BY <1>0, <1>1, <1>2, <1>3, Zenon DEF JobInOrder

\* The other jobs take no notice of what happens to job i
LEMMA OtherJobs ==
    ASSUME TypeOK, RootKnown, EventsInOrder, NEW i \in Jobs, NEW j \in Jobs, j # i,
           jobState'[j] = jobState[j], home'[j] = home[j],
           \A r \in Ranks : rootEpoch'[r][j] = rootEpoch[r][j]
    PROVE  /\ Newest(j)' = Newest(j) /\ Base(j)' = Base(j) /\ EpochAtHome(j)'
           /\ Placed(j)' <=> Placed(j)
  <1>1. EpochAtHome(j)
    BY Zenon DEF EventsInOrder, JobInOrder
  <1>2. jobState[j] \in {"committed", "running", "dormant"} => home[j] \in Ranks
    BY Zenon DEF RootKnown
  <1>3. Newest(j)' = Newest(j)
    BY <1>2, SMTT(20) DEF Newest, LastEpoch
  <1>4. QED
    BY <1>1, <1>3, Zenon DEF EpochAtHome, Base, Placed

\* The job's root node sends an event: an epoch later, or the last one
LEMMA RootSends ==
    ASSUME TypeOK, TypeOK', RootKnown, RootKnown', EventsInOrder, NEW i \in Jobs,
           jobState[i] \in {"committed", "running", "dormant"}, UNCHANGED home,
           NEW s \in {"running", "dormant", "done"}, jobState' = [jobState EXCEPT ![i] = s],
           NEW n \in 0..MaxJobEpoch, rootEpoch' = [rootEpoch EXCEPT ![home[i]][i] = n],
           NEW e \in Event, WellFormed(e), PushEvent(home[i], i, e, rootRequest),
           IF s = "done" THEN n = 0 /\ e.epoch = TermEpoch
           ELSE n = rootEpoch[home[i]][i] + 1 /\ e.epoch = n
    PROVE  EventsInOrder'
  <1> DEFINE r == home[i]
  <1>a. r \in Ranks
    BY Zenon DEF RootKnown
  <1>b. rootEpoch \in [Ranks -> [Jobs -> 0..MaxJobEpoch]] /\ jobState \in [Jobs -> JobStates]
    BY Zenon DEF TypeOK
  <1>c. rootEpoch[r][i] \in 0..MaxJobEpoch
    BY <1>a, <1>b, Zenon
  <1>d. EpochAtHome(i)
    BY Zenon DEF EventsInOrder, JobInOrder
  <1>0. /\ r \in Ranks /\ rootEpoch \in [Ranks -> [Jobs -> 0..MaxJobEpoch]] /\ jobState \in [Jobs -> JobStates]
        /\ EpochAtHome(i) /\ rootEpoch[r][i] \in Nat /\ rootEpoch[r][i] <= MaxJobEpoch
    BY <1>a, <1>b, <1>c, <1>d, BalancerAssumption, SMTT(20)
  <1>1. \A q \in Ranks, k \in Jobs : rootEpoch'[q][k] = IF q = r /\ k = i THEN n ELSE rootEpoch[q][k]
    BY <1>0, RootEpochUpdate
  <1>2. /\ jobState'[i] = s /\ \A k \in Jobs : k # i => jobState'[k] = jobState[k]
        /\ rootEpoch'[r][i] = n /\ home'[i] = r
    BY <1>0, <1>1, Zenon
  <1>3. Newest(i) = rootEpoch[r][i] /\ Base(i) = r /\ Placed(i)
    BY NewestFacts, Zenon
  <1>4. Newest(i)' = e.epoch
    BY <1>2, Zenon DEF Newest, LastEpoch
  <1>5. Base(i)' = Base(i) /\ Placed(i)'
    BY <1>2, <1>3, SMTT(20) DEF Base, Placed
  <1>6. e.epoch > Newest(i)
    BY <1>0, <1>3, BalancerAssumption, EventMapAssumption
  <1>7. EpochAtHome(i)'
    BY <1>0, <1>1, <1>2, Zenon DEF EpochAtHome
  <1>8. ASSUME NEW j \in Jobs, j # i
        PROVE  /\ Newest(j)' = Newest(j) /\ Base(j)' = Base(j) /\ jobState'[j] = jobState[j]
               /\ EpochAtHome(j)'
    <2>1. \A q \in Ranks : rootEpoch'[q][j] = rootEpoch[q][j]
      BY <1>1, <1>8
    <2>2. QED
      BY <1>2, <1>8, <2>1, OtherJobs, Zenon
  <1>9. \A j \in Jobs : EpochAtHome(j)'
    BY <1>7, <1>8, Zenon
  <1>10. PushEvent(r, i, e, rootRequest) /\ jobState'[i] # "probed"
    BY <1>2, Zenon
  <1> HIDE DEF r
  <1>11. QED
    BY <1>0, <1>3, <1>4, <1>5, <1>6, <1>8, <1>9, <1>10, PushOrder, SMTT(20)

\* A worker commits itself to the root of job i (onActivate)
LEMMA CommitOrder ==
    ASSUME TypeOK, TypeOK', RootKnown, RootKnown', EventsInOrder, NEW i \in Jobs, NEW r \in Ranks,
           CommitRoot(r, i)
    PROVE  EventsInOrder'
  <1>a. /\ jobState \in [Jobs -> JobStates] /\ home \in [Jobs -> Ranks \cup {NoRank}]
        /\ rootEpoch \in [Ranks -> [Jobs -> 0..MaxJobEpoch]]
    BY Zenon DEF TypeOK
  <1>b. r # NoRank /\ 1 \in 0..MaxJobEpoch
    BY BalancerAssumption DEF Ranks, NoRank
  <1>c. up[0] = <<>> /\ JobInOrder(i)
    BY Zenon DEF EventsInOrder
  <1>d. rootEpoch[r][i] \in 0..MaxJobEpoch
    BY <1>a, Zenon
  <1>0. /\ jobState \in [Jobs -> JobStates] /\ home \in [Jobs -> Ranks \cup {NoRank}]
        /\ rootEpoch \in [Ranks -> [Jobs -> 0..MaxJobEpoch]] /\ r # NoRank
        /\ up[0] = <<>> /\ JobInOrder(i) /\ 1 \in 0..MaxJobEpoch /\ rootEpoch[r][i] \in Nat
    BY <1>a, <1>b, <1>c, <1>d
  <1>1. /\ UNCHANGED <<up, diffs, log, states, rootRequest>>
        /\ rootEpoch' = IF rootEpoch[r][i] = 0 THEN [rootEpoch EXCEPT ![r][i] = 1] ELSE rootEpoch
        /\ jobState' = [jobState EXCEPT ![i] = "committed"] /\ home' = [home EXCEPT ![i] = r]
    BY Zenon DEF CommitRoot, OnActivate, nodeVars, netVars
  <1>2. \A q \in Ranks, k \in Jobs :
            rootEpoch'[q][k] = IF q = r /\ k = i /\ rootEpoch[r][i] = 0 THEN 1 ELSE rootEpoch[q][k]
    BY <1>0, <1>1, RootEpochUpdate
  <1>3. /\ jobState'[i] = "committed" /\ home'[i] = r /\ Placed(i)' /\ Base(i)' = r
        /\ \A k \in Jobs : k # i => jobState'[k] = jobState[k] /\ home'[k] = home[k]
    BY <1>0, <1>1, Zenon DEF Placed, Base
  <1>4. Newest(i)' = rootEpoch'[r][i]
    BY <1>3, Zenon DEF Newest, LastEpoch
  <1>5. JobInOrder(i)'
    <2>1. CASE jobState[i] = "probed" /\ rootRequest[i] = NoRank
      <3>1. LogEvents(i) # {} /\ EpochAtHome(i)
        BY <1>0, <2>1, Zenon DEF JobInOrder
      <3>2. \A q \in Ranks : rootEpoch[q][i] = 0
        BY <2>1, <3>1, Zenon DEF EpochAtHome
      <3>3. Newest(i) = 1 /\ Base(i) = NoRank
        BY <2>1, NewestFacts, Zenon
      <3>4. Newest(i)' = Newest(i)
        BY <1>2, <1>4, <3>2, <3>3, SMTT(20)
      <3>5. EpochAtHome(i)'
        BY <1>2, <1>3, <3>2, Zenon DEF EpochAtHome
      <3>6. Pend(up, diffs, i) = {}
        <4>1. SUFFICES ASSUME NEW e \in Pend(up, diffs, i) PROVE FALSE
          BY Zenon
        <4>2. PICK f \in LogEvents(i) : TRUE
          BY <3>1, Zenon
        <4>3. e \in Event /\ f \in Event
          BY Zenon DEF Pend, LogEvents
        <4>4. e.epoch \in 1..TermEpoch /\ f.epoch \in 1..TermEpoch
          BY <4>3, SMTT(20) DEF Event
        <4>5. e.epoch <= 1 /\ f.epoch < e.epoch
          BY <1>0, <3>3, SMTT(20) DEF JobInOrder, Flows
        <4>6. QED
          BY <4>4, <4>5, EventMapAssumption
      <3>7. QED
        BY <1>0, <1>1, <1>3, <3>1, <3>3, <3>4, <3>5, <3>6, QuietStep, Zenon
    <2>2. CASE jobState[i] = "dormant" /\ home[i] = r
      <3>1. Newest(i) = rootEpoch[r][i] /\ Base(i) = r /\ Placed(i) /\ rootEpoch[r][i] > 0
        BY <2>2, NewestFacts, SMTT(20) DEF RootKnown
      <3>2. \A q \in Ranks : rootEpoch'[q][i] = rootEpoch[q][i]
        BY <1>0, <1>2, <3>1
      <3>3. Newest(i)' = Newest(i)
        BY <1>4, <3>1, <3>2, Zenon
      <3>4. EpochAtHome(i)'
        BY <1>0, <1>3, <2>2, <3>2, Zenon DEF EpochAtHome, JobInOrder
      <3>5. LogEvents(i) # {}
        BY <1>0, <3>1, Zenon DEF JobInOrder
      <3>6. QED
        BY <1>1, <1>3, <3>1, <3>3, <3>4, <3>5, QuietStep, SMTT(20)
    <2>3. QED
      BY <2>1, <2>2, Zenon DEF CommitRoot
  <1>6. ASSUME NEW j \in Jobs, j # i PROVE JobInOrder(j)'
    <2>1. \A q \in Ranks : rootEpoch'[q][j] = rootEpoch[q][j]
      BY <1>2, <1>6, Zenon
    <2>2. /\ Newest(j)' = Newest(j) /\ Base(j)' = Base(j) /\ EpochAtHome(j)'
          /\ Placed(j)' <=> Placed(j)
      BY <1>3, <1>6, <2>1, OtherJobs, Zenon
    <2>3. Placed(j) => LogEvents(j) # {}
      BY Zenon DEF EventsInOrder, JobInOrder
    <2>4. QED
      BY <1>1, <1>3, <1>6, <2>2, <2>3, QuietStep, Zenon
  <1>7. QED
    BY <1>0, <1>1, <1>5, <1>6, Zenon DEF EventsInOrder

\* A step of the workers that concerns no root
LEMMA IdleStep ==
    ASSUME TypeOK, EventsInOrder,
           UNCHANGED <<up, diffs, log, states, rootRequest, jobState, home, rootEpoch>>
    PROVE  EventsInOrder'
  <1>1. ASSUME NEW j \in Jobs PROVE JobInOrder(j)'
    <2>1. Newest(j)' = Newest(j) /\ Base(j)' = Base(j) /\ (Placed(j)' <=> Placed(j))
      BY DEF Newest, LastEpoch, Base, Placed
    <2>2. EpochAtHome(j)' /\ (Placed(j) => LogEvents(j) # {})
      BY Zenon DEF EventsInOrder, JobInOrder, EpochAtHome
    <2>3. QED
      BY <2>1, <2>2, QuietStep, Zenon
  <1>2. QED
    BY <1>1, Zenon DEF EventsInOrder

\* The calls of the job database keep the events in order
LEMMA DriveOrder ==
    ASSUME TypeOK, TypeOK', RootKnown, RootKnown', EventsInOrder, Drive
    PROVE  EventsInOrder'
  <1> USE BalancerAssumption
  <1>0. /\ jobState \in [Jobs -> JobStates] /\ home \in [Jobs -> Ranks \cup {NoRank}]
        /\ rootEpoch \in [Ranks -> [Jobs -> 0..MaxJobEpoch]] /\ up[0] = <<>>
        /\ rootRequest \in [Jobs -> Ranks \cup {NoRank}]
    BY Zenon DEF TypeOK, EventsInOrder
  <1>1. ASSUME NEW i \in Jobs, NEW r \in Ranks, AddRootRequest(r, i) PROVE EventsInOrder'
    <2> DEFINE e == [epoch |-> 1, demand |-> 1, priority |-> "probe"]
               reqs == [rootRequest EXCEPT ![i] = r]
    <2>1. /\ jobState[i] = "new" /\ jobState' = [jobState EXCEPT ![i] = "probed"]
          /\ UNCHANGED <<home, rootEpoch>> /\ PushEvent(r, i, e, reqs)
      BY <1>1, Zenon DEF AddRootRequest, OnProbe
    <2>2. e \in Event /\ e.epoch = 1 /\ WellFormed(e)
      BY EventTypes DEF WellFormed
    <2>3. Newest(i) = 0 /\ Base(i) = NoRank /\ ~Placed(i)
      BY <2>1, NewestFacts, Zenon
    <2>4. jobState'[i] = "probed" /\ \A k \in Jobs : k # i => jobState'[k] = jobState[k]
      BY <1>0, <2>1, Zenon
    <2>5. Newest(i)' = 1 /\ Base(i)' = NoRank /\ ~Placed(i)'
      BY <2>4, Zenon DEF Newest, LastEpoch, Base, Placed
    <2>6. EpochAtHome(i)'
      <3>1. EpochAtHome(i)
        BY Zenon DEF EventsInOrder, JobInOrder
      <3>2. QED
        BY <2>1, <3>1, Zenon DEF EpochAtHome
    <2>7. r # NoRank /\ reqs[i] = r /\ \A k \in Jobs : k # i => reqs[k] = rootRequest[k]
      BY <1>0 DEF Ranks, NoRank
    <2>8. ASSUME NEW j \in Jobs, j # i
          PROVE  /\ Newest(j)' = Newest(j) /\ Base(j)' = Base(j) /\ jobState'[j] = jobState[j]
                 /\ reqs[j] = rootRequest[j] /\ EpochAtHome(j)'
      BY <2>1, <2>4, <2>7, <2>8, OtherJobs, Zenon
    <2> HIDE DEF e, reqs
    <2>9. \A j \in Jobs : EpochAtHome(j)'
      BY <2>6, <2>8, Zenon
    <2>10. QED
      BY <2>1, <2>2, <2>3, <2>5, <2>7, <2>8, <2>9, PushOrder, SMTT(20)
  <1>2. ASSUME NEW i \in Jobs, NEW n, NEW d \in Demands \cup {1},
               jobState[i] \in {"committed", "running"}, n = rootEpoch[home[i]][i] + 1,
               rootEpoch[home[i]][i] < MaxJobEpoch, UNCHANGED home,
               NEW s \in {"running", "dormant"}, jobState' = [jobState EXCEPT ![i] = s],
               rootEpoch' = [rootEpoch EXCEPT ![home[i]][i] = n],
               PushEvent(home[i], i, [epoch |-> n, demand |-> d, priority |-> "job"], rootRequest)
        PROVE  EventsInOrder'
    <2> DEFINE e == [epoch |-> n, demand |-> d, priority |-> "job"]
    <2>1. home[i] \in Ranks
      BY <1>2, Zenon DEF RootKnown
    <2>2. rootEpoch[home[i]][i] \in 0..MaxJobEpoch
      BY <1>0, <2>1, SMTT(20)
    <2>3. n \in 1..MaxJobEpoch /\ n \in 0..MaxJobEpoch
      BY <1>2, <2>2
    <2>4. e \in Event
      BY <2>3, EventTypes, Zenon
    <2>5. e.epoch = n /\ WellFormed(e)
      BY <2>3, EventMapAssumption DEF WellFormed
    <2> HIDE DEF e
    <2>6. PushEvent(home[i], i, e, rootRequest)
      BY <1>2, Zenon DEF e
    <2>7. QED
      BY <1>2, <2>3, <2>4, <2>5, <2>6, RootSends, Zenon
  <1>3. ASSUME NEW i \in Jobs, NEW d \in Demands, ExecuteRoot(i, d) PROVE EventsInOrder'
    BY <1>2, <1>3, Zenon DEF ExecuteRoot, OnDemandChange
  <1>4. ASSUME NEW i \in Jobs, NEW d \in Demands, ChangeDemand(i, d) PROVE EventsInOrder'
    <2>1. jobState' = [jobState EXCEPT ![i] = "running"]
      BY <1>0, <1>4, Zenon DEF ChangeDemand
    <2>2. QED
      BY <1>2, <1>4, <2>1, Zenon DEF ChangeDemand, OnDemandChange
  <1>5. ASSUME NEW i \in Jobs, SuspendRoot(i) PROVE EventsInOrder'
    BY <1>2, <1>5, Zenon DEF SuspendRoot, OnSuspend
  <1>6. ASSUME NEW i \in Jobs, TerminateRoot(i) PROVE EventsInOrder'
    <2> DEFINE e == [epoch |-> TermEpoch, demand |-> 0, priority |-> "zero"]
    <2>1. rootEpoch[home[i]][i] # 0
      <3>1. home[i] \in Ranks /\ rootEpoch[home[i]][i] > 0
        BY <1>6, Zenon DEF TerminateRoot, RootKnown
      <3>2. QED
        BY <1>0, <3>1
    <2>2. /\ jobState[i] \in {"committed", "running", "dormant"} /\ UNCHANGED home
          /\ jobState' = [jobState EXCEPT ![i] = "done"]
          /\ rootEpoch' = [rootEpoch EXCEPT ![home[i]][i] = 0]
          /\ PushEvent(home[i], i, e, rootRequest)
      BY <1>6, <2>1, Zenon DEF TerminateRoot, OnTerminate
    <2>3. e \in Event /\ e.epoch = TermEpoch /\ WellFormed(e) /\ 0 \in 0..MaxJobEpoch
      BY EventTypes DEF WellFormed
    <2> HIDE DEF e
    <2>4. QED
      BY <2>2, <2>3, RootSends, Zenon
  <1>8. ASSUME NEW i \in Jobs, NEW r \in Ranks, JoinNode(r, i) \/ SuspendNode(r, i) \/ LeaveNode(r, i)
        PROVE  EventsInOrder'
    BY <1>8, IdleStep, Zenon DEF JoinNode, SuspendNode, LeaveNode, OnActivate, OnSuspend, OnTerminate, nodeVars, netVars
  <1>9. QED
    BY <1>1, <1>3, <1>4, <1>5, <1>6, <1>8, CommitOrder, SMTT(20) DEF Drive

-----------------------------------------------------------------------------
(***************************************************************************)
(* The invariant and what follows from it.                                 *)
(***************************************************************************)
\* No events, no messages, no jobs
LEMMA InitOrder == Init => EventsInOrder
  <1> SUFFICES ASSUME Init PROVE EventsInOrder
    BY Zenon
  <1>1. 0 \in Ranks /\ up[0] = <<>> /\ log = <<>>
    BY BalancerAssumption, SMTT(20) DEF Init, Ranks
  <1>2. ASSUME NEW j \in Jobs PROVE JobInOrder(j)
    <2>1. LogEvents(j) = {} /\ states[0][j] = NoEvent /\ jobState[j] = "new"
      BY <1>1 DEF LogEvents, Init, EmptyMap
    <2>2. Newest(j) = 0 /\ ~Placed(j) /\ Base(j) = NoRank
      BY <2>1, Zenon DEF Newest, Placed, Base
    <2>3. LogInOrder(j)
      BY <1>1, <2>1 DEF LogInOrder
    <2>4. EpochAtHome(j)
      BY Zenon DEF Init, EpochAtHome
    <2>5. \A r \in Ranks : \A i \in Places(up, r) : At(up, diffs, r, i)[j] = NoEvent
      <3>1. ASSUME NEW r \in Ranks, NEW i \in Places(up, r) PROVE At(up, diffs, r, i)[j] = NoEvent
        <4>1. up[r] = <<>> /\ diffs[r] = EmptyMap
          BY Zenon DEF Init
        <4>2. i = 1
          BY <4>1 DEF Places
        <4>3. QED
          BY <4>1, <4>2 DEF At, EmptyMap
      <3>2. QED
        BY <3>1, Zenon
    <2>6. Pend(up, diffs, j) = {}
      BY <2>5, EventMapAssumption, Zenon DEF Pend
    <2>7. OrderedFrom(up, diffs, j, 0)
      BY <2>5, Zenon DEF OrderedFrom
    <2>8. Flows(j, up, diffs, LogEvents(j), Newest(j), Base(j))
      BY <1>1, <2>2, <2>6, <2>7, Zenon DEF Flows
    <2>9. QED
      BY <2>1, <2>2, <2>3, <2>4, <2>8, SMTT(20) DEF JobInOrder
  <1>3. QED
    BY <1>1, <1>2, Zenon DEF EventsInOrder

\* The events of every job travel to rank 0 in the order of their epochs, none lost and
\* none overtaken, whichever ranks merge (updateBy), filter (filterBy) or hold them back
\* (advance) on the way; rank 0's log has them in that order.
THEOREM EventsStayInOrder == Spec => []EventsInOrder
  <1>1. TypeOK /\ RootKnown /\ ReplicasFollowLog /\ EventsInOrder /\ [Next]_vars
           /\ TypeOK' /\ RootKnown' => EventsInOrder'
    <2> SUFFICES ASSUME TypeOK, RootKnown, ReplicasFollowLog, EventsInOrder, [Next]_vars, TypeOK', RootKnown'
                 PROVE  EventsInOrder'
      BY Zenon
    <2>1. FollowLogByParts
      BY FollowLogParts, Zenon
    <2>2. CASE Balance
      BY <2>1, <2>2, BalanceOrder, Zenon
    <2>3. CASE Drive
      BY <2>3, DriveOrder, Zenon
    <2>4. CASE UNCHANGED vars
      <3>1. UNCHANGED <<up, diffs, log, states, rootRequest, jobState, home, rootEpoch>>
        BY <2>4, Zenon DEF vars, nodeVars, localVars, netVars, envVars
      <3>2. QED
        BY <3>1, IdleStep, Zenon
    <2>5. QED
      BY <2>2, <2>3, <2>4, Zenon DEF Next
  <1>2. QED
    BY <1>1, InitOrder, TypeCorrect, ReplicasFollow, PTL DEF Spec

\* An event at a rank is on its way to rank 0 or comes from rank 0's log
LEMMA EventsKnown ==
    ASSUME TypeOK, ReplicasFollowLog, EventsInOrder, NEW j \in Jobs, NEW r \in Ranks,
           NEW e \in EventsAt(r, j) \ {NoEvent}
    PROVE  e \in Pend(up, diffs, j) \cup LogEvents(j)
  <1> DEFINE b == balancingEpoch[r]
  <1>0. /\ up \in [Ranks -> Seq(EventMaps)] /\ diffs \in [Ranks -> EventMaps] /\ up[r] \in Seq(EventMaps)
        /\ log \in Seq(LogEntry) /\ b \in Nat /\ down[r] \in Seq(Broadcast) /\ LogInOrder(j)
    BY Zenon DEF TypeOK, EventsInOrder, JobInOrder
  <1>1. /\ b <= Len(log)
        /\ states[r] = IF b = 0 THEN EmptyMap ELSE log[b].result
    BY Zenon DEF ReplicasFollowLog
  <1>2. CASE e = states[r][j]
    <2>1. b # 0
      BY <1>1, <1>2, Zenon DEF EmptyMap
    <2>2. b \in DOMAIN log
      BY <1>0, <1>1, <2>1
    <2>3. QED
      BY <1>0, <1>1, <1>2, <2>1, <2>2, Zenon DEF LogInOrder
  <1>3. ASSUME NEW i \in Places(up, r), e = At(up, diffs, r, i)[j] PROVE e \in Pend(up, diffs, j)
    BY <1>0, <1>3, AtType, Zenon
  <1>4. CASE e = diffs[r][j]
    <2>1. Len(up[r]) + 1 \in Places(up, r) /\ At(up, diffs, r, Len(up[r]) + 1) = diffs[r]
      BY <1>0 DEF Places, At
    <2>2. QED
      BY <1>3, <1>4, <2>1, Zenon
  <1>5. CASE e \in {up[r][i][j] : i \in DOMAIN up[r]}
    <2>1. PICK i \in DOMAIN up[r] : e = up[r][i][j]
      BY <1>5, Zenon
    <2>2. i \in Places(up, r) /\ At(up, diffs, r, i) = up[r][i]
      BY <1>0, <2>1 DEF Places, At
    <2>3. QED
      BY <1>3, <2>1, <2>2, Zenon
  <1>6. CASE e \in {down[r][i].events[j] : i \in DOMAIN down[r]}
    <2>1. PICK i \in DOMAIN down[r] : e = down[r][i].events[j]
      BY <1>6, Zenon
    <2>2. r # 0 /\ i \in 1..Len(down[r])
      BY <1>0, <2>1 DEF ReplicasFollowLog
    <2>3. ParentRank[r] \in Ranks
      BY TreeAssumption, Zenon
    <2>4. balancingEpoch[ParentRank[r]] <= Len(log) /\ balancingEpoch[ParentRank[r]] = b + Len(down[r])
      BY <2>2, <2>3, Zenon DEF ReplicasFollowLog
    <2>5. down[r][i] = Pending(r, i)
      BY <2>2, Zenon DEF ReplicasFollowLog
    <2>6. b + i \in DOMAIN log
      BY <1>0, <2>2, <2>4, SMTT(20)
    <2>7. e = log[b + i].events[j]
      BY <2>1, <2>5 DEF Pending
    <2>8. log[b + i].events \in EventMaps
      <3>1. log[b + i] \in LogEntry
        BY <1>0, <2>6
      <3>2. QED
        BY <3>1, Zenon DEF LogEntry
    <2>9. QED
      BY <2>6, <2>7, <2>8, Zenon DEF LogEvents, EventMaps
  <1>7. QED
    BY <1>2, <1>4, <1>5, <1>6, SMTT(20) DEF EventsAt

\* A job's epoch identifies its event at whatever ranks it is met, in states, diffs or in
\* transit: filterBy's abort() is never reached.
THEOREM EventIdentityTheorem == Spec => []EventIdentity
  <1>1. TypeOK /\ ReplicasFollowLog /\ EventsInOrder => EventIdentity
    <2> SUFFICES ASSUME TypeOK, ReplicasFollowLog, EventsInOrder, NEW j \in Jobs,
                        NEW e \in (UNION {EventsAt(r, j) : r \in Ranks}) \ {NoEvent},
                        NEW f \in (UNION {EventsAt(r, j) : r \in Ranks}) \ {NoEvent}, e.epoch = f.epoch
                 PROVE  e = f
      BY Zenon DEF EventIdentity
    <2> DEFINE P == Pend(up, diffs, j)
    <2>0. /\ up \in [Ranks -> Seq(EventMaps)] /\ diffs \in [Ranks -> EventMaps]
          /\ LogInOrder(j) /\ Flows(j, up, diffs, LogEvents(j), Newest(j), Base(j))
          /\ log \in Seq(LogEntry)
      BY Zenon DEF TypeOK, EventsInOrder, JobInOrder
    <2>1. e \in P \cup LogEvents(j) /\ f \in P \cup LogEvents(j)
      <3> DEFINE S == {EventsAt(r, j) : r \in Ranks}
      <3>0. e \in (UNION S) \ {NoEvent} /\ f \in (UNION S) \ {NoEvent}
        BY Zenon
      <3> HIDE DEF S
      <3>1. ASSUME NEW x, x \in (UNION S) \ {NoEvent} PROVE x \in P \cup LogEvents(j)
        <4>1. PICK X \in S : x \in X
          BY <3>1, Zenon
        <4>2. PICK r \in Ranks : X = EventsAt(r, j)
          BY Zenon DEF S
        <4>3. x \in EventsAt(r, j) \ {NoEvent}
          BY <3>1, <4>1, <4>2, Zenon
        <4>4. QED
          BY <4>3, EventsKnown, Zenon
      <3>2. QED
        BY <3>0, <3>1, Zenon
    <2>2. e \in Event /\ f \in Event /\ e # NoEvent /\ f # NoEvent
      BY <2>1, EventMapAssumption, Zenon DEF Pend, LogEvents
    <2>3. e.epoch \in Nat /\ f.epoch \in Nat
      BY <2>2, EventMapAssumption DEF Event
    <2>4. CASE e \in P /\ f \in P
      <3>1. PICK a \in Ranks : \E i \in Places(up, a) : At(up, diffs, a, i)[j] = e
        BY <2>4, Zenon DEF Pend
      <3>2. PICK i \in Places(up, a) : At(up, diffs, a, i)[j] = e
        BY <3>1, Zenon
      <3>3. PICK c \in Ranks : \E k \in Places(up, c) : At(up, diffs, c, k)[j] = f
        BY <2>4, Zenon DEF Pend
      <3>4. PICK k \in Places(up, c) : At(up, diffs, c, k)[j] = f
        BY <3>3, Zenon
      <3>5. PICK o \in Ranks : OrderedFrom(up, diffs, j, o)
        BY <2>0, ZenonT(30) DEF Flows
      <3>6. ~Ahead(a, i, c, k) /\ ~Ahead(c, k, a, i)
        BY <2>2, <2>3, <3>2, <3>4, <3>5, SMTT(20) DEF OrderedFrom
      <3>7. a \in Int /\ c \in Int /\ i \in Int /\ k \in Int
        BY <2>0 DEF Ranks, Places
      <3>8. a = c /\ i = k
        BY <3>6, <3>7 DEF Ahead
      <3>9. QED
        BY <3>2, <3>4, <3>8, Zenon
    <2>5. CASE e \in LogEvents(j) /\ f \in LogEvents(j)
      <3>1. PICK i \in DOMAIN log : log[i].events[j] = e
        BY <2>5, Zenon DEF LogEvents
      <3>2. PICK k \in DOMAIN log : log[k].events[j] = f
        BY <2>5, ZenonT(30) DEF LogEvents
      <3>3. ~(i < k) /\ ~(k < i)
        BY <2>0, <2>2, <2>3, <3>1, <3>2, SMTT(20) DEF LogInOrder
      <3>4. i = k
        BY <2>0, <3>3, SMTT(20)
      <3>5. QED
        BY <3>1, <3>2, <3>4, Zenon
    <2>6. CASE e \in P /\ f \in LogEvents(j)
      BY <2>0, <2>3, <2>6, SMTT(20) DEF Flows
    <2>7. CASE e \in LogEvents(j) /\ f \in P
      BY <2>0, <2>3, <2>7 DEF Flows
    <2>8. QED
      BY <2>1, <2>4, <2>5, <2>6, <2>7, SMTT(20)
  <1>2. QED
    BY <1>1, EventsStayInOrder, TypeCorrect, ReplicasFollow, PTL

\* The newest event of a job is on its way to rank 0, or rank 0 balances with it, or the job
\* is terminated and forgotten: reductions (updateBy), the filter after a broadcast
\* (filterBy) and merging into diffs never drop it.
THEOREM NewestEventSurvivesTheorem == Spec => []NewestEventSurvives
  <1>1. TypeOK /\ RootKnown /\ EventsInOrder => NewestEventSurvives
    <2> SUFFICES ASSUME TypeOK, RootKnown, EventsInOrder, NEW j \in Jobs, jobState[j] # "new"
                 PROVE  \/ \E r \in Ranks : \E m \in {diffs[r]} \cup {up[r][i] : i \in DOMAIN up[r]} :
                              m[j] # NoEvent /\ m[j].epoch = LastEpoch(j)
                        \/ states[0][j] # NoEvent /\ states[0][j].epoch = LastEpoch(j)
                        \/ jobState[j] = "done" /\ states[0][j] = NoEvent
      BY Zenon DEF NewestEventSurvives
    <2>0. /\ up \in [Ranks -> Seq(EventMaps)]
          /\ LogInOrder(j) /\ Flows(j, up, diffs, LogEvents(j), Newest(j), Base(j))
      BY Zenon DEF TypeOK, EventsInOrder, JobInOrder
    <2>1. Newest(j) = LastEpoch(j) /\ Newest(j) \in Nat /\ Newest(j) # 0
      BY NewestFacts, Zenon DEF Newest
    <2>2. jobState[j] = "done" \/ Newest(j) < TermEpoch
      <3>1. jobState[j] \in JobStates
        BY Zenon DEF TypeOK
      <3>2. jobState[j] = "done" \/ Newest(j) <= MaxJobEpoch
        BY <3>1, NewestFacts, BalancerAssumption DEF JobStates
      <3>3. QED
        BY <2>1, <3>2, BalancerAssumption, EventMapAssumption, SMTT(20)
    <2>3. PICK e \in Pend(up, diffs, j) \cup LogEvents(j) : e.epoch = Newest(j)
      BY <2>0, <2>1, Zenon DEF Flows
    <2>4. CASE e \in Pend(up, diffs, j)
      <3>1. PICK r \in Ranks : \E i \in Places(up, r) : At(up, diffs, r, i)[j] = e
        BY <2>4, Zenon DEF Pend
      <3>2. PICK i \in Places(up, r) : At(up, diffs, r, i)[j] = e
        BY <3>1, Zenon
      <3>3. up[r] \in Seq(EventMaps) /\ e # NoEvent
        BY <2>0, <2>4, EventMapAssumption, Zenon DEF Pend
      <3>4. At(up, diffs, r, i) \in {diffs[r]} \cup {up[r][k] : k \in DOMAIN up[r]}
        BY <3>3 DEF Places, At
      <3>5. QED
        BY <2>1, <2>3, <3>2, <3>3, <3>4, Zenon
    <2>5. CASE e \in LogEvents(j)
      <3>1. \A f \in LogEvents(j) : f.epoch \in Nat /\ f.epoch <= Newest(j)
        <4>1. \A f \in LogEvents(j) : f.epoch <= Newest(j)
          BY <2>0, Zenon DEF LogInOrder
        <4>2. \A f \in LogEvents(j) : f.epoch \in Nat
          BY EventEpochs, Zenon DEF LogEvents
        <4>3. QED
          BY <4>1, <4>2, Zenon
      <3>2. CASE e.epoch = TermEpoch
        BY <2>0, <2>2, <2>3, <2>5, <3>1, <3>2, SMTT(20) DEF LogInOrder
      <3>3. CASE e.epoch # TermEpoch
        <4>1. \/ states[0][j] # NoEvent /\ e.epoch <= states[0][j].epoch
              \/ \E f \in LogEvents(j) : f.epoch = TermEpoch
          BY <2>0, <2>5, <3>3, Zenon DEF LogInOrder
        <4>2. jobState[j] # "done"
          BY <2>1, <2>3, <3>3, NewestFacts, Zenon
        <4>3. ~\E f \in LogEvents(j) : f.epoch = TermEpoch
          BY <2>1, <2>2, <3>1, <4>2, EventMapAssumption, SMTT(20)
        <4>4. states[0][j] \in LogEvents(j)
          BY <2>0, <4>1, <4>3, Zenon DEF LogInOrder
        <4>5. QED
          BY <2>1, <2>3, <3>1, <4>1, <4>3, <4>4, SMTT(20)
      <3>4. QED
        BY <3>2, <3>3, Zenon
    <2>6. QED
      BY <2>3, <2>4, <2>5, Zenon
  <1>2. QED
    BY <1>1, EventsStayInOrder, TypeCorrect, PTL

\* No batch after a job's termination event brings the job back into what the ranks
\* balance with, although they forget the job (removeOldZeros).
THEOREM NoResurrectionTheorem == Spec => []NoResurrection
  <1>1. EventsInOrder => NoResurrection
    BY ZenonT(30) DEF EventsInOrder, JobInOrder, LogInOrder, NoResurrection
  <1>2. QED
    BY <1>1, EventsStayInOrder, PTL

\* Whenever a worker has committed itself to the root of a job, rank 0 balances with the
\* job (onProbe comes before onActivate, and its event has been digested).
THEOREM PlacedOnlyAfterReservedTheorem == Spec => []PlacedOnlyAfterReserved
  <1>1. TypeOK /\ RootKnown /\ EventsInOrder => PlacedOnlyAfterReserved
    <2> SUFFICES ASSUME TypeOK, RootKnown, EventsInOrder, NEW j \in Jobs,
                        jobState[j] \in {"committed", "running", "dormant"}
                 PROVE  states[0][j] # NoEvent
      BY Zenon DEF PlacedOnlyAfterReserved
    <2>1. Placed(j) /\ Newest(j) <= MaxJobEpoch /\ Newest(j) \in Nat
      BY NewestFacts, Zenon
    <2>2. LogInOrder(j) /\ LogEvents(j) # {}
      BY <2>1, Zenon DEF EventsInOrder, JobInOrder
    <2>3. \A f \in LogEvents(j) : f.epoch \in Nat /\ f.epoch <= Newest(j)
      <3>1. \A f \in LogEvents(j) : f.epoch <= Newest(j)
        BY <2>2, Zenon DEF LogInOrder
      <3>2. \A f \in LogEvents(j) : f.epoch \in Nat
        BY EventEpochs, Zenon DEF LogEvents
      <3>3. QED
        BY <3>1, <3>2, Zenon
    <2>4. \A f \in LogEvents(j) : f.epoch # TermEpoch
      BY <2>1, <2>3, BalancerAssumption, EventMapAssumption
    <2>5. QED
      BY <2>2, <2>4, Zenon DEF LogInOrder
  <1>2. QED
    BY <1>1, EventsStayInOrder, TypeCorrect, PTL
=============================================================================
