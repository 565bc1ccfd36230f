------------------------ MODULE SolverProcessProofs -------------------------
(***************************************************************************)
(* Theorems about SolverProcess, for every number of revisions, clause     *)
(* buffers and crashes: why appl_solved preserves the inductive invariant, *)
(* and what follows from it.                                               *)
(***************************************************************************)
EXTENDS SolverProcessSteps, FiniteSetTheorems

-----------------------------------------------------------------------------
(***************************************************************************)
(* What the parts of appl_solved do to the description (j to k), the       *)
(* adapter (a to b) and the shared memory (h to g).                        *)
(***************************************************************************)
\* loadIncrements: everything of the description is on its way, nothing twice
Loaded(j, a, k, b) ==
    /\ k \in JobType /\ b \in AdapterType /\ Queue(k, b) /\ k.forwarded = j.revision
    /\ k.state = j.state /\ k.revision = j.revision /\ k.desired = j.desired
    /\ k.results = j.results /\ k.freed = j.freed
    /\ b.initialized = a.initialized /\ b.state = a.state /\ b.terminate = a.terminate
    /\ b.writing = a.writing /\ b.written = a.written /\ b.published = a.published
    /\ b.deferred = a.deferred /\ b.preparing = a.preparing
    /\ b.preparedRevision = a.preparedRevision /\ b.solution = a.solution /\ b.early = a.early
    /\ j.forwarded = j.revision => k = j /\ b = a
    /\ j.forwarded # j.revision => ~k.doneLocally /\ b.desired = j.desired
    /\ b.writer => a.writer \/ a.initialized
    /\ a.writer => b.writer

\* A new adapter, which is given all revisions from the first on
Fresh(j, k, b) ==
    /\ k \in JobType /\ b \in AdapterType /\ Queue(k, b) /\ k.forwarded = j.revision
    /\ k.state = j.state /\ k.revision = j.revision /\ k.desired = j.desired
    /\ k.results = j.results /\ k.freed = j.freed
    /\ k.doneLocally => j.doneLocally
    /\ ~b.initialized /\ b.state = "INITIALIZING" /\ ~b.terminate /\ b.writing = None
    /\ b.written = 0 /\ b.published = 0 /\ ~b.writer /\ ~b.preparing
    /\ b.preparedRevision = None /\ b.deferred = [c \in Channels |-> <<>>]

\* The first part of check(): which requests are withdrawn, answered or made
Checked(h, a, g, b) ==
    /\ g \in HsmType /\ b \in AdapterType
    /\ b.initialized = a.initialized /\ b.state = a.state /\ b.terminate = a.terminate
    /\ b.desired = a.desired /\ b.toWrite = a.toWrite /\ b.writing = a.writing
    /\ b.written = a.written /\ b.preparing = a.preparing
    /\ b.preparedRevision = a.preparedRevision /\ b.solution = a.solution /\ b.early = a.early
    /\ b.writer /\ b.published = IF Publishes(h, a) THEN a.published + 1 ELSE a.published
    /\ \A c \in Channels : b.deferred[c] = IF Undefers(h, a, c) THEN Tail(a.deferred[c])
                                           ELSE a.deferred[c]
    /\ g.doTerminate = h.doTerminate /\ g.didStart = h.didStart /\ g.blocks = h.blocks
    /\ g.result = h.result /\ g.solutionRevision = h.solutionRevision /\ g.did = h.did
    /\ g.hasSolution = h.hasSolution /\ g.solutions = h.solutions
    /\ g.didExport = h.didExport
    /\ g.doStart <=> (h.doStart /\ ~h.didStart) \/ Publishes(h, a)
    /\ \A c \in Channels : /\ g.do[c] <=> (h.do[c] /\ ~h.did[c]) \/ Undefers(h, a, c)
                           /\ g.buffer[c] = IF Undefers(h, a, c) THEN Head(a.deferred[c])
                                            ELSE h.buffer[c]

\* A solution that was prepared for the wanted revision is one of it, and reports are old
Current(j, a) ==
    /\ a.preparedRevision <= a.desired
    /\ a.preparing => a.preparedRevision # None
    /\ a.preparedRevision = a.desired =>
          /\ hsm.result = a.desired
          /\ ~a.preparing => OfRevision(a.solution, a.desired, a.early)
    /\ \A i \in DOMAIN j.results :
          /\ j.results[i].revision <= j.forwarded
          /\ ~j.doneLocally => j.results[i].revision < j.forwarded

\* Joining two sequences
LEMMA ConcatFacts ==
    ASSUME NEW S, NEW s \in Seq(S), NEW t \in Seq(S)
    PROVE /\ s \o t \in Seq(S) /\ Len(s) \in Nat /\ Len(s \o t) = Len(s) + Len(t)
          /\ DOMAIN s = 1..Len(s) /\ DOMAIN (s \o t) = 1..(Len(s) + Len(t))
          /\ \A i \in 1..Len(s) : (s \o t)[i] = s[i]
          /\ \A i \in (Len(s) + 1)..(Len(s) + Len(t)) : (s \o t)[i] = t[i - Len(s)]
  OBVIOUS

\* The revisions to be forwarded continue the queue
LEMMA IncrementsFacts ==
    ASSUME NEW j \in JobType, j.forwarded <= j.revision
    PROVE /\ Increments(j) \in Seq(Revisions) /\ Len(Increments(j)) = j.revision - j.forwarded
          /\ DOMAIN Increments(j) = 1..(j.revision - j.forwarded)
          /\ \A i \in 1..(j.revision - j.forwarded) : Increments(j)[i] = j.forwarded + i
          /\ Increments(j) = <<>> <=> j.forwarded = j.revision
  <1> DEFINE n == j.revision - j.forwarded
  <1>0. n \in Nat /\ j.forwarded \in Nat /\ j.revision \in 0..MaxRevision /\ MaxRevision \in Nat
    BY ProcessAssumption DEF JobType, Revisions
  <1>1. \A i \in 1..n : j.forwarded + i \in Revisions
    BY <1>0 DEF Revisions
  <1>2. /\ DOMAIN Increments(j) = 1..n /\ \A i \in 1..n : Increments(j)[i] = j.forwarded + i
        /\ Increments(j) \in [1..n -> Revisions]
    BY <1>1, Zenon DEF Increments
  <1>3. Increments(j) \in Seq(Revisions) /\ Len(Increments(j)) = n
    BY <1>0, <1>2
  <1>4. Increments(j) = <<>> <=> n = 0
    BY <1>0, <1>3
  <1>5. QED
    BY <1>0, <1>2, <1>3, <1>4

\* loadIncrements does what Loaded says
LEMMA LoadFacts ==
    ASSUME NEW j \in JobType, NEW a \in AdapterType, Queue(j, a)
    PROVE Loaded(j, a, LoadIncrementsJob(j), LoadIncrementsAdapter(j, a))
  <1> DEFINE k == LoadIncrementsJob(j)
             b == LoadIncrementsAdapter(j, a)
  <1> SUFFICES Loaded(j, a, k, b)
    BY Zenon
  <1> DEFINE inc == Increments(j)
             n == j.revision - j.forwarded
             s == a.toWrite
  <1>0. /\ n \in Nat /\ j.forwarded \in Nat /\ j.revision \in Nat /\ j.desired \in Nat /\ MaxRevision \in Nat
        /\ j.desired \in Revisions /\ j.revision \in Revisions
    BY ProcessAssumption DEF JobType, Revisions, Queue
  <1>1. /\ inc \in Seq(Revisions) /\ Len(inc) = n /\ \A i \in 1..n : inc[i] = j.forwarded + i
        /\ inc = <<>> <=> j.forwarded = j.revision
    BY IncrementsFacts, Zenon DEF Queue
  <1>2. CASE j.forwarded = j.revision
    <2>1. k = j /\ b = a
      BY <1>1, <1>2, Zenon DEF LoadIncrementsJob, LoadIncrementsAdapter
    <2> HIDE DEF k, b
    <2>2. QED
      BY <1>2, <2>1, Zenon DEF Loaded
  <1>3. CASE j.forwarded # j.revision
    <2>1. /\ k = [j EXCEPT !.forwarded = j.revision, !.doneLocally = FALSE]
          /\ b = AppendRevisions(a, inc, j.desired)
      BY <1>1, <1>3, Zenon DEF LoadIncrementsJob, LoadIncrementsAdapter
    <2> HIDE DEF k, b
    <2>2. /\ k \in JobType /\ k.forwarded = j.revision /\ ~k.doneLocally
          /\ k.state = j.state /\ k.revision = j.revision /\ k.desired = j.desired
          /\ k.results = j.results /\ k.freed = j.freed
      BY <1>0, <2>1, Zenon DEF JobType
    <2>3. s \in Seq(Revisions) /\ s \o inc \in Seq(Revisions)
      BY <1>1 DEF AdapterType
    <2>5. /\ b \in AdapterType /\ b.toWrite = s \o inc /\ b.desired = j.desired
          /\ b.writer => a.writer \/ a.initialized
          /\ a.writer => b.writer
          /\ b.initialized = a.initialized /\ b.state = a.state /\ b.terminate = a.terminate
          /\ b.writing = a.writing /\ b.written = a.written /\ b.published = a.published
          /\ b.deferred = a.deferred /\ b.preparing = a.preparing
          /\ b.preparedRevision = a.preparedRevision /\ b.solution = a.solution /\ b.early = a.early
      <3>1. CASE a.initialized
        <4>1. b = [a EXCEPT !.toWrite = s \o inc, !.desired = j.desired, !.writer = TRUE]
          BY <2>1, <3>1, Zenon DEF AppendRevisions, DoWriteRevisions, AdapterType
        <4>2. QED
          BY <1>0, <2>3, <3>1, <4>1, Zenon DEF AdapterType
      <3>2. CASE ~a.initialized
        <4>1. b = [a EXCEPT !.toWrite = s \o inc, !.desired = j.desired]
          BY <2>1, <3>2, Zenon DEF AppendRevisions, DoWriteRevisions, AdapterType
        <4>2. QED
          BY <1>0, <2>3, <3>2, <4>1, Zenon DEF AdapterType
      <3>3. QED
        BY <3>1, <3>2, Zenon
    <2>6. Front(b) = Front(a) /\ Front(a) \in Int
      BY <1>0, <2>5 DEF Front, AdapterType, Revisions, OptRevision, None
    <2>7. /\ Len(s) \in Nat /\ j.forwarded = Front(a) + Len(s) /\ Len(s \o inc) = Len(s) + n
          /\ DOMAIN s = 1..Len(s) /\ DOMAIN (s \o inc) = 1..(Len(s) + n)
          /\ \A i \in 1..Len(s) : (s \o inc)[i] = s[i] /\ s[i] = Front(a) + i
          /\ \A i \in (Len(s) + 1)..(Len(s) + n) : (s \o inc)[i] = inc[i - Len(s)]
      <3>1. /\ Len(s) \in Nat /\ Len(s \o inc) = Len(s) + n
            /\ DOMAIN s = 1..Len(s) /\ DOMAIN (s \o inc) = 1..(Len(s) + n)
            /\ \A i \in 1..Len(s) : (s \o inc)[i] = s[i]
            /\ \A i \in (Len(s) + 1)..(Len(s) + n) : (s \o inc)[i] = inc[i - Len(s)]
        <4> HIDE DEF s, inc, n
        <4>1. Len(inc) = n /\ inc \in Seq(Revisions)
          BY <1>1, Zenon
        <4>2. QED
          BY <2>3, <4>1, ConcatFacts, ZenonT(30)
      <3>2. j.forwarded = Front(a) + Len(s) /\ \A i \in DOMAIN s : s[i] = Front(a) + i
        BY Zenon DEF Queue
      <3> HIDE DEF s, inc, n
      <3>3. QED
        BY <3>1, <3>2, Zenon
    <2>8. \A i \in 1..(Len(s) + n) : (s \o inc)[i] = Front(a) + i
      <3> SUFFICES ASSUME NEW i \in 1..(Len(s) + n) PROVE (s \o inc)[i] = Front(a) + i
        BY Zenon
      <3>1. CASE i \in 1..Len(s)
        BY <2>7, <3>1, Zenon
      <3>2. CASE i \in (Len(s) + 1)..(Len(s) + n)
        <4>1. i - Len(s) \in 1..n
          BY <1>0, <2>7, <3>2
        <4>2. (s \o inc)[i] = j.forwarded + (i - Len(s))
          BY <1>1, <2>7, <3>2, <4>1, Zenon
        <4>3. QED
          BY <1>0, <2>6, <2>7, <4>2
      <3>3. QED
        BY <1>0, <2>7, <3>1, <3>2
    <2>9. Queue(k, b)
      <3>1. /\ k.forwarded = j.revision /\ k.revision = j.revision /\ k.desired = j.desired
            /\ b.toWrite = s \o inc /\ b.desired = j.desired /\ j.revision <= j.desired
        BY <2>2, <2>5, Zenon DEF Queue
      <3>2. j.revision = Front(a) + Len(s \o inc)
        BY <1>0, <2>6, <2>7, SMTT(20)
      <3>3. \A i \in DOMAIN b.toWrite : b.toWrite[i] = Front(b) + i
        <4> HIDE DEF s, inc, n
        <4>1. QED
          BY <2>6, <2>7, <2>8, <3>1, Zenon
      <3>4. QED
        <4> HIDE DEF s, inc, n
        <4>1. QED
          BY <1>0, <2>6, <3>1, <3>2, <3>3 DEF Queue
    <2>10. QED
      BY <1>3, <2>2, <2>5, <2>9, Zenon DEF Loaded
  <1>4. QED
    BY <1>2, <1>3, Zenon

\* The adapter that a node starts or restarts with is fresh
LEMMA RestartFacts ==
    ASSUME NEW j \in JobType, j.revision <= j.desired
    PROVE Fresh(j, RestartedJob(j), StartedAdapter(j))
  <1> DEFINE z == [j EXCEPT !.forwarded = 0]
             a == NewAdapter(j.desired)
  <1>0. j.revision \in Nat /\ j.desired \in Nat /\ 0 \in Revisions /\ j.desired \in Revisions
    BY ProcessAssumption DEF JobType, Revisions
  <1>1. /\ z \in JobType /\ z.forwarded = 0 /\ z.revision = j.revision /\ z.desired = j.desired
        /\ z.state = j.state /\ z.results = j.results /\ z.freed = j.freed
        /\ z.doneLocally = j.doneLocally
    BY <1>0, Zenon DEF JobType
  <1>2. /\ a \in AdapterType
        /\ a.desired = j.desired /\ a.toWrite = <<>> /\ a.writing = None /\ a.written = 0
        /\ ~a.initialized /\ a.state = "INITIALIZING" /\ ~a.terminate
        /\ a.published = 0 /\ ~a.writer /\ ~a.preparing
        /\ a.preparedRevision = None /\ a.deferred = [c \in Channels |-> <<>>]
    BY <1>0, NewTypes, Zenon DEF NewAdapter
  <1>3. Queue(z, a)
    <2> HIDE DEF z, a
    <2>1. Front(a) = 0 /\ Len(a.toWrite) = 0 /\ DOMAIN a.toWrite = {}
      BY <1>2 DEF Front
    <2>2. QED
      BY <1>0, <1>1, <1>2, <2>1 DEF Queue
  <1>4. RestartedJob(j) = LoadIncrementsJob(z) /\ StartedAdapter(j) = LoadIncrementsAdapter(z, a)
    BY Zenon DEF RestartedJob, StartedAdapter
  <1> HIDE DEF z, a
  <1>5. Loaded(z, a, RestartedJob(j), StartedAdapter(j))
    BY <1>1, <1>2, <1>3, <1>4, LoadFacts, Zenon
  <1>6. QED
    BY <1>1, <1>2, <1>5, Zenon DEF Loaded, Fresh

\* check() does what Checked says
LEMMA CheckedFacts ==
    ASSUME NEW h \in HsmType, NEW a \in AdapterType, a.initialized
    PROVE Checked(h, a, CheckedHsm(h, a), CheckedAdapter(h, a))
  <1> DEFINE g == CheckedHsm(h, a)
             b == CheckedAdapter(h, a)
  <1> SUFFICES Checked(h, a, g, b)
    BY Zenon
  <1> DEFINE h0 == Acknowledged(h)
             h1 == PublishedHsm(h0, a)
             h2 == UndeferredHsm(h1, a, "import")
  <1>0. /\ a.desired \in Revisions /\ a.deferred \in [Channels -> Seq(Nat)]
        /\ \A c \in Channels : a.deferred[c] \in Seq(Nat)
        /\ a.published \in 0..MaxRevision /\ a.written \in 0..MaxRevision /\ MaxRevision \in Nat
    BY ProcessAssumption, Zenon DEF AdapterType, Revisions
  <1>1. /\ h0 \in HsmType /\ h0.buffer = h.buffer
        /\ h0.doTerminate = h.doTerminate /\ h0.didStart = h.didStart /\ h0.blocks = h.blocks
        /\ h0.result = h.result /\ h0.solutionRevision = h.solutionRevision /\ h0.did = h.did
        /\ h0.hasSolution = h.hasSolution /\ h0.solutions = h.solutions
        /\ h0.didExport = h.didExport
        /\ h0.doStart <=> h.doStart /\ ~h.didStart
        /\ \A c \in Channels : h0.do[c] <=> h.do[c] /\ ~h.did[c]
    <2>1. [c \in Channels |-> h.do[c] /\ ~h.did[c]] \in [Channels -> BOOLEAN]
      BY Zenon
    <2>2. QED
      BY <2>1, Zenon DEF Acknowledged, HsmType
  <1> HIDE DEF h0
  <1>2. Publishes(h0, a) <=> Publishes(h, a)
    BY <1>1, Zenon DEF Publishes
  <1>3. \A c \in Channels : Undefers(h0, a, c) <=> Undefers(h, a, c)
    BY <1>1, Zenon DEF Undefers
  <1>4. /\ h1 \in HsmType /\ h1.do = h0.do /\ h1.buffer = h.buffer
        /\ h1.doTerminate = h.doTerminate /\ h1.didStart = h.didStart /\ h1.blocks = h.blocks
        /\ h1.result = h.result /\ h1.solutionRevision = h.solutionRevision /\ h1.did = h.did
        /\ h1.hasSolution = h.hasSolution /\ h1.solutions = h.solutions
        /\ h1.didExport = h.didExport
        /\ h1.doStart <=> (h.doStart /\ ~h.didStart) \/ Publishes(h, a)
    BY <1>0, <1>1, <1>2, ZenonT(30) DEF PublishedHsm, HsmType
  <1> HIDE DEF h1
  <1>5. /\ h2 \in HsmType /\ h2.doStart = h1.doStart
        /\ h2.doTerminate = h.doTerminate /\ h2.didStart = h.didStart /\ h2.blocks = h.blocks
        /\ h2.result = h.result /\ h2.solutionRevision = h.solutionRevision /\ h2.did = h.did
        /\ h2.hasSolution = h.hasSolution /\ h2.solutions = h.solutions
        /\ h2.didExport = h.didExport
        /\ h2.do["return"] = h1.do["return"] /\ h2.buffer["return"] = h.buffer["return"]
        /\ h2.do["import"] <=> (h.do["import"] /\ ~h.did["import"]) \/ Undefers(h, a, "import")
        /\ h2.buffer["import"] = IF Undefers(h, a, "import") THEN Head(a.deferred["import"])
                                 ELSE h.buffer["import"]
    <2>0. "import" \in Channels /\ "return" \in Channels
      BY Zenon DEF Channels
    <2>1. Undefers(h1, a, "import") <=> Undefers(h, a, "import")
      BY <1>1, <1>3, <1>4, <2>0, Zenon DEF Undefers
    <2>2. CASE Undefers(h, a, "import")
      <3>1. Head(a.deferred["import"]) \in Nat
        BY <1>0, <2>0, <2>2, TailFacts, Zenon DEF Undefers
      <3>2. h2 = PutBuffer(h1, a, "import", Head(a.deferred["import"]))
        BY <2>1, <2>2, Zenon DEF UndeferredHsm
      <3>3. h1.do \in [Channels -> BOOLEAN] /\ h1.buffer \in [Channels -> Nat]
        BY <1>4, Zenon DEF HsmType
      <3> HIDE DEF h2
      <3>4. /\ h2 \in HsmType /\ h2.do = [h1.do EXCEPT !["import"] = TRUE]
            /\ h2.buffer = [h1.buffer EXCEPT !["import"] = Head(a.deferred["import"])]
            /\ h2.doStart = h1.doStart
            /\ h2.doTerminate = h1.doTerminate /\ h2.didStart = h1.didStart /\ h2.blocks = h1.blocks
            /\ h2.result = h1.result /\ h2.solutionRevision = h1.solutionRevision /\ h2.did = h1.did
            /\ h2.hasSolution = h1.hasSolution /\ h2.solutions = h1.solutions
            /\ h2.didExport = h1.didExport
        <4>1. h1 \in HsmType /\ a.desired \in Revisions
          BY <1>0, <1>4, Zenon
        <4>2. QED
          BY <2>0, <3>1, <3>2, <4>1, PutBufferFacts
      <3>5. h2.do["import"] = TRUE /\ h2.do["return"] = h1.do["return"]
        BY <2>0, <3>3, <3>4
      <3>6. h2.buffer["import"] = Head(a.deferred["import"]) /\ h2.buffer["return"] = h1.buffer["return"]
        BY <2>0, <3>3, <3>4
      <3>7. QED
        BY <1>4, <2>2, <3>4, <3>5, <3>6, Zenon
    <2>3. CASE ~Undefers(h, a, "import")
      <3>1. h2 = h1
        BY <2>1, <2>3, Zenon DEF UndeferredHsm
      <3>2. QED
        BY <1>1, <1>4, <2>0, <2>3, <3>1, Zenon
    <2>4. QED
      BY <2>2, <2>3, Zenon
  <1> HIDE DEF h2
  <1>6. /\ g \in HsmType /\ g.doStart = h1.doStart
        /\ g.doTerminate = h.doTerminate /\ g.didStart = h.didStart /\ g.blocks = h.blocks
        /\ g.result = h.result /\ g.solutionRevision = h.solutionRevision /\ g.did = h.did
        /\ g.hasSolution = h.hasSolution /\ g.solutions = h.solutions
        /\ g.didExport = h.didExport
        /\ g.do["import"] = h2.do["import"] /\ g.buffer["import"] = h2.buffer["import"]
        /\ g.do["return"] <=> (h.do["return"] /\ ~h.did["return"]) \/ Undefers(h, a, "return")
        /\ g.buffer["return"] = IF Undefers(h, a, "return") THEN Head(a.deferred["return"])
                                ELSE h.buffer["return"]
    <2>0. /\ "import" \in Channels /\ "return" \in Channels
          /\ g = UndeferredHsm(h2, a, "return")
      BY Zenon DEF Channels, CheckedHsm, h0, h1, h2
    <2> HIDE DEF g
    <2>1. Undefers(h2, a, "return") <=> Undefers(h, a, "return")
      BY <1>1, <1>3, <1>4, <1>5, <2>0, Zenon DEF Undefers
    <2>2. CASE Undefers(h, a, "return")
      <3>1. Head(a.deferred["return"]) \in Nat
        BY <1>0, <2>0, <2>2, TailFacts, Zenon DEF Undefers
      <3>2. g = PutBuffer(h2, a, "return", Head(a.deferred["return"]))
        BY <2>0, <2>1, <2>2, Zenon DEF UndeferredHsm
      <3>3. h2.do \in [Channels -> BOOLEAN] /\ h2.buffer \in [Channels -> Nat]
        BY <1>5, Zenon DEF HsmType
      <3>4. /\ g \in HsmType /\ g.do = [h2.do EXCEPT !["return"] = TRUE]
            /\ g.buffer = [h2.buffer EXCEPT !["return"] = Head(a.deferred["return"])]
            /\ g.doStart = h2.doStart
            /\ g.doTerminate = h2.doTerminate /\ g.didStart = h2.didStart /\ g.blocks = h2.blocks
            /\ g.result = h2.result /\ g.solutionRevision = h2.solutionRevision /\ g.did = h2.did
            /\ g.hasSolution = h2.hasSolution /\ g.solutions = h2.solutions
            /\ g.didExport = h2.didExport
        <4>1. h2 \in HsmType /\ a.desired \in Revisions
          BY <1>0, <1>5, Zenon
        <4>2. QED
          BY <2>0, <3>1, <3>2, <4>1, PutBufferFacts
      <3>5. g.do["return"] = TRUE /\ g.do["import"] = h2.do["import"]
        BY <2>0, <3>3, <3>4, Zenon
      <3>6. g.buffer["return"] = Head(a.deferred["return"]) /\ g.buffer["import"] = h2.buffer["import"]
        BY <2>0, <3>3, <3>4, Zenon
      <3>7. QED
        BY <1>4, <1>5, <2>2, <3>4, <3>5, <3>6, Zenon
    <2>3. CASE ~Undefers(h, a, "return")
      <3>1. g = h2
        BY <2>0, <2>1, <2>3, Zenon DEF UndeferredHsm
      <3>2. QED
        BY <1>1, <1>4, <1>5, <2>0, <2>3, <3>1, Zenon
    <2>4. QED
      BY <2>2, <2>3, Zenon
  <1>7. /\ b \in AdapterType
        /\ b.initialized = a.initialized /\ b.state = a.state /\ b.terminate = a.terminate
        /\ b.desired = a.desired /\ b.toWrite = a.toWrite /\ b.writing = a.writing
        /\ b.written = a.written /\ b.preparing = a.preparing
        /\ b.preparedRevision = a.preparedRevision /\ b.solution = a.solution /\ b.early = a.early
        /\ b.writer /\ b.published = IF Publishes(h, a) THEN a.published + 1 ELSE a.published
        /\ \A c \in Channels : b.deferred[c] = IF Undefers(h, a, c) THEN Tail(a.deferred[c])
                                                ELSE a.deferred[c]
    <2> DEFINE d == [c \in Channels |-> IF Undefers(h0, a, c) THEN Tail(a.deferred[c]) ELSE a.deferred[c]]
               p == IF Publishes(h0, a) THEN a.published + 1 ELSE a.published
    <2>1. ASSUME NEW c \in Channels, Undefers(h0, a, c) PROVE Tail(a.deferred[c]) \in Seq(Nat)
      BY <1>0, <2>1, TailFacts, Zenon DEF Undefers
    <2>2. /\ d \in [Channels -> Seq(Nat)]
          /\ \A c \in Channels : d[c] = IF Undefers(h, a, c) THEN Tail(a.deferred[c]) ELSE a.deferred[c]
      BY <1>0, <1>3, <2>1, Zenon
    <2>3. p \in Revisions /\ p = IF Publishes(h, a) THEN a.published + 1 ELSE a.published
      BY <1>0, <1>2 DEF Publishes, Revisions
    <2>4. b = [a EXCEPT !.writer = TRUE, !.published = p, !.deferred = d, !.future = @ /\ a.preparing]
      <3>1. DoWriteRevisions(a) = [a EXCEPT !.writer = TRUE]
        BY Zenon DEF DoWriteRevisions
      <3>2. b = [[a EXCEPT !.writer = TRUE] EXCEPT !.published = IF Publishes(h0, a) THEN @ + 1 ELSE @,
                                                   !.deferred = d, !.future = @ /\ a.preparing]
        BY <3>1, Zenon DEF CheckedAdapter, h0
      <3>3. QED
        BY <3>2, Zenon DEF AdapterType
    <2> HIDE DEF b, d, p
    <2>5. QED
      <3>1. (a.future /\ a.preparing) \in BOOLEAN
        BY Zenon
      <3>2. b \in AdapterType
        BY <2>2, <2>3, <2>4, <3>1, ZenonT(30) DEF AdapterType
      <3>3. /\ b.initialized = a.initialized /\ b.state = a.state /\ b.terminate = a.terminate
            /\ b.desired = a.desired /\ b.toWrite = a.toWrite /\ b.writing = a.writing
            /\ b.written = a.written /\ b.preparing = a.preparing
            /\ b.preparedRevision = a.preparedRevision /\ b.solution = a.solution /\ b.early = a.early
            /\ b.writer /\ b.published = p /\ b.deferred = d
        BY <2>4, Zenon DEF AdapterType
      <3>4. QED
        BY <2>2, <2>3, <3>2, <3>3, SMTT(20)
  <1> HIDE DEF g, b
  <1>8. QED
    BY <1>1, <1>4, <1>5, <1>6, <1>7 DEF Channels, Checked

\* What is forwarded does not turn an old solution or report into a current one
LEMMA LoadedSolution ==
    ASSUME IInv
    PROVE Current(LoadIncrementsJob(job), LoadIncrementsAdapter(job, adapter))
  <1> DEFINE j == LoadIncrementsJob(job)
             a == LoadIncrementsAdapter(job, adapter)
  <1> SUFFICES Current(j, a)
    BY Zenon
  <1>0. /\ job \in JobType /\ adapter \in AdapterType /\ Queue(job, adapter)
        /\ MaxRevision \in Nat
    BY ProcessAssumption, Zenon DEF IInv, Types, Pipeline
  <1>1. Loaded(job, adapter, j, a)
    BY <1>0, LoadFacts, Zenon
  <1> HIDE DEF j, a
  <1>2. CASE job.forwarded = job.revision
    BY <1>1, <1>2, Zenon DEF Loaded, Current, IInv, Solution, Reports
  <1>3. CASE job.forwarded # job.revision
    <2>1. /\ adapter.preparedRevision \in Int /\ adapter.desired \in Int /\ job.desired \in Int
          /\ job.forwarded \in Int /\ job.revision \in Int /\ job.forwarded < job.revision
          /\ adapter.desired <= job.desired
      BY <1>0, <1>3 DEF AdapterType, JobType, OptRevision, Revisions, None, Queue
    <2>2. ASSUME NEW i \in DOMAIN job.results PROVE job.results[i].revision < job.revision
      <3>1. job.results[i] \in ResultType
        BY <1>0, ElementType, Zenon DEF JobType
      <3>2. job.results[i].revision \in Int /\ job.results[i].revision <= job.forwarded
        BY <1>0, <3>1 DEF ResultType, Revisions, IInv, Reports
      <3>3. QED
        BY <2>1, <3>2
    <2>3. \A i \in DOMAIN j.results : j.results[i].revision < j.forwarded
      BY <1>1, <2>2, Zenon DEF Loaded
    <2>4. \A i \in DOMAIN j.results : j.results[i].revision <= j.forwarded
      <3> SUFFICES ASSUME NEW i \in DOMAIN job.results PROVE job.results[i].revision <= job.revision
        BY <1>1, Zenon DEF Loaded
      <3>1. job.results[i] \in ResultType
        BY <1>0, ElementType, Zenon DEF JobType
      <3>2. job.results[i].revision \in Int
        BY <1>0, <3>1 DEF ResultType, Revisions
      <3>3. QED
        BY <2>1, <2>2, <3>2
    <2>5. /\ a.preparedRevision <= a.desired /\ (a.preparing => a.preparedRevision # None)
          /\ a.preparedRevision = a.desired => a.desired = adapter.desired
      BY <1>1, <1>3, <2>1 DEF Loaded, IInv, Solution
    <2>6. QED
      BY <1>1, <2>3, <2>4, <2>5, Zenon DEF Loaded, Current, IInv, Solution
  <1>4. QED
    BY <1>2, <1>3, Zenon

\* appl_solved of a node that has its result already or no child yet
LEMMA ForwardInv ==
    ASSUME IInv, job.state = "ACTIVE", main = "idle",
           job' = LoadIncrementsJob(job), adapter' = LoadIncrementsAdapter(job, adapter),
           UNCHANGED <<hsm, proc, main, handed, crashes>>
    PROVE IInv'
  <1>0. /\ job \in JobType /\ adapter \in AdapterType /\ Queue(job, adapter)
    BY Zenon DEF IInv, Types, Pipeline
  <1>1. Loaded(job, adapter, job', adapter') /\ Current(job', adapter')
    BY <1>0, LoadFacts, LoadedSolution, Zenon
  <1>2. Types'
    BY <1>1, Zenon DEF Loaded, IInv, Types
  <1>3. Lifecycle'
    BY <1>1, Zenon DEF Loaded, IInv, Lifecycle, Alive
  <1>4. Pipeline'
    BY <1>1, SMTT(20) DEF Loaded, IInv, Pipeline, Front, Alive
  <1>5. Solution' /\ Reports'
    BY <1>1, SMTT(20) DEF Loaded, Current, IInv, Solution, Reports, ResultOfItsRevision
  <1>6. Clauses'
    BY <1>1, Zenon DEF Loaded, IInv, Clauses, BuffersOf, Alive
  <1>7. QED
    BY <1>2, <1>3, <1>4, <1>5, <1>6, Zenon DEF IInv

\* There is nothing in an empty sequence
LEMMA EmptyFacts == IsInjective(<<>>) /\ Elements(<<>>) = {} /\ DOMAIN <<>> = {}
  BY DEF IsInjective, Elements

\* The fields of a fresh shared memory and of a child that does not exist
LEMMA NewFields ==
    /\ ~NewHsm.doStart /\ NewHsm.result = None /\ NewHsm.solutionRevision = None
    /\ ~NewHsm.hasSolution
    /\ NewProc.pc = "none" /\ ~NewProc.busy /\ NewProc.last = 0
    /\ \A c \in Channels : /\ ~NewHsm.do[c] /\ NewHsm.buffer[c] = 0
                           /\ NewProc.digested[c] = <<>>
  BY Zenon DEF NewHsm, NewProc

\* appl_solved of a node whose child died: a new adapter, from the first revision on
LEMMA RestartInv ==
    ASSUME IInv, job.state = "ACTIVE", main = "idle",
           NEW j, j = LoadIncrementsJob(job), ~j.doneLocally,
           job' = RestartedJob(j), adapter' = StartedAdapter(j), hsm' = NewHsm, proc' = NewProc,
           UNCHANGED <<main, handed, crashes>>
    PROVE IInv'
  <1>0. /\ job \in JobType /\ adapter \in AdapterType /\ Queue(job, adapter)
        /\ handed \in Nat /\ MaxRevision \in Nat
    BY ProcessAssumption DEF IInv, Types, Pipeline
  <1>1. /\ Loaded(job, adapter, j, LoadIncrementsAdapter(job, adapter))
        /\ Current(j, LoadIncrementsAdapter(job, adapter))
    BY <1>0, LoadFacts, LoadedSolution, SMTT(20)
  <1>2. j \in JobType /\ j.revision <= j.desired
    BY <1>0, <1>1, Zenon DEF Loaded, Queue
  <1>3. Fresh(j, job', adapter')
    BY <1>2, RestartFacts, Zenon
  <1>4. Types'
    BY <1>3, NewTypes, SMTT(20) DEF Fresh, IInv, Types
  <1>5. Lifecycle'
    BY <1>1, <1>3, NewFields DEF Loaded, Fresh, IInv, Lifecycle, Alive
  <1>6. Pipeline'
    BY <1>3, NewFields DEF Fresh, Pipeline, Alive, None
  <1>7. Solution'
    <2>1. adapter'.desired \in Nat
      BY <1>0, <1>3, SMTT(20) DEF Fresh, AdapterType, Revisions
    <2>2. QED
      BY <1>3, <2>1, NewFields DEF Fresh, Solution, None
  <1>8. Reports'
    <2>1. job'.forwarded = j.forwarded /\ job'.results = j.results /\ job.results = j.results
      BY <1>1, <1>3, Zenon DEF Loaded, Fresh
    <2>2. QED
      BY <1>1, <2>1, SMTT(20) DEF Current, IInv, Reports, ResultOfItsRevision
  <1>9. Clauses'
    BY <1>0, <1>3, NewFields, EmptyFacts DEF Fresh, Clauses, BuffersOf
  <1>10. QED
    BY <1>4, <1>5, <1>6, <1>7, <1>8, <1>9, Zenon DEF IInv

\* appl_solved with a child, up to the test of hasSolution
LEMMA CheckedInv ==
    ASSUME IInv, job.state = "ACTIVE", main = "idle",
           NEW j, j = LoadIncrementsJob(job), NEW a, a = LoadIncrementsAdapter(job, adapter),
           ~j.doneLocally, a.initialized,
           job' = j, adapter' = CheckedAdapter(hsm, a), hsm' = CheckedHsm(hsm, a),
           main' \in {"checking", "idle"}, UNCHANGED <<proc, handed, crashes>>
    PROVE IInv'
  <1>0. /\ job \in JobType /\ adapter \in AdapterType /\ Queue(job, adapter) /\ hsm \in HsmType
        /\ proc \in ProcType /\ handed \in Nat /\ MaxRevision \in Nat
    BY ProcessAssumption DEF IInv, Types, Pipeline
  <1>1. Loaded(job, adapter, j, a) /\ Current(j, a)
    BY <1>0, LoadFacts, LoadedSolution, Zenon
  <1>2. Checked(hsm, a, hsm', adapter')
    <2>1. a \in AdapterType
      BY <1>1, SMTT(20) DEF Loaded
    <2>2. QED
      BY <1>0, <2>1, CheckedFacts, Zenon
  <1>3. Types'
    <2>1. job' \in JobType
      BY <1>1, Zenon DEF Loaded
    <2>2. adapter' \in AdapterType /\ hsm' \in HsmType
      BY <1>2, Zenon DEF Checked
    <2>3. QED
      BY <2>1, <2>2, Zenon DEF IInv, Types
  <1>4. Lifecycle'
    <2>1. /\ job'.state = job.state /\ job'.freed = job.freed /\ a.initialized = adapter.initialized
          /\ a.state = adapter.state /\ a.terminate = adapter.terminate
      BY <1>1, Zenon DEF Loaded
    <2>2. /\ adapter'.initialized = a.initialized /\ adapter'.state = a.state
          /\ adapter'.terminate = a.terminate /\ hsm'.doTerminate = hsm.doTerminate
      BY <1>2, Zenon DEF Checked
    <2>3. QED
      BY <2>1, <2>2 DEF IInv, Lifecycle, Alive
  <1>5. Pipeline'
    <2>1. Front(adapter') = Front(a) /\ Front(a) = Front(adapter)
      <3>1. a.writing = adapter.writing /\ a.written = adapter.written
        BY <1>1, Zenon DEF Loaded
      <3>2. adapter'.writing = a.writing /\ adapter'.written = a.written
        BY <1>2, Zenon DEF Checked
      <3>3. QED
        BY <3>1, <3>2, Zenon DEF Front
    <2>2. Queue(job', adapter')
      <3>1. Queue(j, a)
        BY <1>1, Zenon DEF Loaded
      <3>2. adapter'.desired = a.desired /\ adapter'.toWrite = a.toWrite
        BY <1>2, Zenon DEF Checked
      <3>3. QED
        BY <2>1, <3>1, <3>2, Zenon DEF Queue
    <2>3. /\ adapter.published \in Int /\ adapter.written \in Int
          /\ a.published = adapter.published /\ adapter'.written = adapter.written
          /\ hsm'.didStart = hsm.didStart
          /\ hsm'.doStart <=> (hsm.doStart /\ ~hsm.didStart) \/ Publishes(hsm, a)
          /\ adapter'.published = IF Publishes(hsm, a) THEN a.published + 1 ELSE a.published
      <3>1. adapter.published \in Int /\ adapter.written \in Int
        BY <1>0 DEF AdapterType, Revisions
      <3>2. a.published = adapter.published /\ a.written = adapter.written
        BY <1>1, SMTT(20) DEF Loaded
      <3>3. /\ adapter'.written = a.written /\ hsm'.didStart = hsm.didStart
            /\ hsm'.doStart <=> (hsm.doStart /\ ~hsm.didStart) \/ Publishes(hsm, a)
            /\ adapter'.published = IF Publishes(hsm, a) THEN a.published + 1 ELSE a.published
        BY <1>2, Zenon DEF Checked
      <3>4. QED
        BY <3>1, <3>2, <3>3, Zenon
    <2>4. /\ adapter'.published <= adapter'.written
          /\ proc.last = IF hsm'.doStart /\ ~hsm'.didStart THEN adapter'.published - 1
                         ELSE adapter'.published
      <3>1. CASE Publishes(hsm, a)
        <4>1. ~hsm.doStart /\ ~hsm.didStart /\ adapter.published < adapter.written
          BY <1>1, <3>1, SMTT(20) DEF Loaded, Publishes
        <4>2. QED
          BY <2>3, <3>1, <4>1 DEF IInv, Pipeline
      <3>2. CASE ~Publishes(hsm, a)
        BY <2>3, <3>2, SMTT(20) DEF IInv, Pipeline
      <3>3. QED
        BY <3>1, <3>2, SMTT(20)
    <2>5. /\ adapter'.writing # None => adapter'.writing = adapter'.written + 1 /\ adapter'.writer
          /\ adapter'.initialized
      <3>1. a.writing = adapter.writing /\ a.written = adapter.written
        BY <1>1, Zenon DEF Loaded
      <3>2. /\ adapter'.writing = a.writing /\ adapter'.written = a.written /\ adapter'.writer
            /\ adapter'.initialized = a.initialized
        BY <1>2, Zenon DEF Checked
      <3>3. adapter.writing # None => adapter.writing = adapter.written + 1
        BY Zenon DEF IInv, Pipeline
      <3>4. QED
        BY <3>1, <3>2, <3>3, Zenon
    <2>6. Alive' => 0..Front(adapter') \subseteq hsm'.blocks
      BY <1>2, <2>1, Zenon DEF Checked, IInv, Pipeline, Alive
    <2>7. QED
      BY <2>2, <2>4, <2>5, <2>6, SMTT(20) DEF Pipeline
  <1>6. Solution' /\ Reports'
    <2>1. Solution'
      <3>1. /\ adapter'.desired = a.desired /\ adapter'.preparing = a.preparing
            /\ adapter'.preparedRevision = a.preparedRevision
            /\ adapter'.solution = a.solution /\ adapter'.early = a.early
            /\ hsm'.result = hsm.result /\ hsm'.solutionRevision = hsm.solutionRevision
        BY <1>2, Zenon DEF Checked
      <3>2. QED
        BY <1>1, <3>1, Zenon DEF Current, IInv, Solution
    <2>2. Reports'
      <3>1. job'.results = job.results /\ job'.forwarded = job.revision /\ job'.revision = job.revision
        BY <1>1, Zenon DEF Loaded
      <3>2. QED
        BY <1>1, <3>1, Zenon DEF Current, IInv, Reports, ResultOfItsRevision
    <2>3. QED
      BY <2>1, <2>2, SMTT(20)
  <1>7. Clauses'
    <2>1. proc.busy /\ proc.pc = "export" => ~hsm'.didExport
      BY <1>2, Zenon DEF Checked, IInv, Clauses
    <2>2. ASSUME NEW c \in Channels PROVE BuffersOf(c)'
      <3>a. a.deferred = adapter.deferred /\ adapter.deferred \in [Channels -> Seq(Nat)]
        BY <1>0, <1>1, SMTT(20) DEF Loaded, AdapterType
      <3>b. hsm'.did = hsm.did
        BY <1>2, Zenon DEF Checked
      <3>c. BuffersOf(c) /\ (Alive' <=> Alive)
        BY Zenon DEF IInv, Clauses, Alive
      <3>0. /\ BuffersOf(c) /\ a.deferred[c] = adapter.deferred[c] /\ adapter.deferred[c] \in Seq(Nat)
            /\ hsm'.did[c] = hsm.did[c] /\ (Alive' <=> Alive)
        BY <3>a, <3>b, <3>c, SMTT(20)
      <3>1. CASE Undefers(hsm, a, c)
        <4>0. ~hsm.do[c] /\ ~hsm.did[c] /\ adapter.deferred[c] # <<>>
          BY <3>0, <3>1, SMTT(20) DEF Undefers
        <4>1. /\ IsInjective(Tail(adapter.deferred[c])) /\ Head(adapter.deferred[c]) \in Elements(adapter.deferred[c])
              /\ Head(adapter.deferred[c]) \notin Elements(Tail(adapter.deferred[c]))
              /\ Elements(Tail(adapter.deferred[c])) \subseteq Elements(adapter.deferred[c])
          BY <3>0, <4>0, TailInjective, SMTT(20) DEF BuffersOf
        <4>2. adapter'.deferred[c] = Tail(adapter.deferred[c]) /\ hsm'.buffer[c] = Head(adapter.deferred[c])
          BY <1>2, <3>0, <3>1, SMTT(20) DEF Checked
        <4>3. QED
          <5>1. /\ proc.busy /\ proc.pc = c => hsm'.do[c] /\ ~hsm'.did[c]
                /\ IsInjective(adapter'.deferred[c]) /\ IsInjective(proc.digested[c])
                /\ Elements(adapter'.deferred[c]) \subseteq 0..handed
                /\ Elements(proc.digested[c]) \subseteq 0..handed
                /\ Elements(adapter'.deferred[c]) \intersect Elements(proc.digested[c]) = {}
            BY <3>0, <4>0, <4>1, <4>2, SMTT(20) DEF BuffersOf
          <5>2. hsm'.buffer[c] <= handed
            BY <1>0, <3>0, <4>1, <4>2, SMTT(20) DEF BuffersOf
          <5>3. /\ hsm'.buffer[c] \notin Elements(adapter'.deferred[c])
                /\ hsm'.buffer[c] \notin Elements(proc.digested[c])
            BY <3>0, <4>1, <4>2, SMTT(20) DEF BuffersOf
          <5>4. QED
            BY <5>1, <5>2, <5>3, SMTT(20) DEF BuffersOf
      <3>2. CASE ~Undefers(hsm, a, c)
        <4>1. /\ adapter'.deferred[c] = adapter.deferred[c] /\ hsm'.buffer[c] = hsm.buffer[c]
              /\ hsm'.do[c] <=> hsm.do[c] /\ ~hsm.did[c]
          BY <1>2, <3>0, <3>2, Zenon DEF Checked
        <4>2. QED
          <5>1. /\ proc.busy /\ proc.pc = c => hsm'.do[c] /\ ~hsm'.did[c]
                /\ IsInjective(adapter'.deferred[c]) /\ IsInjective(proc.digested[c])
                /\ Elements(adapter'.deferred[c]) \subseteq 0..handed
                /\ Elements(proc.digested[c]) \subseteq 0..handed
                /\ Elements(adapter'.deferred[c]) \intersect Elements(proc.digested[c]) = {}
                /\ hsm'.buffer[c] <= handed
            BY <3>0, <4>1, SMTT(20) DEF BuffersOf
          <5>2. /\ hsm'.do[c] /\ ~hsm'.did[c] => hsm'.buffer[c] \notin Elements(adapter'.deferred[c])
                /\ Alive' /\ hsm'.do[c] /\ ~hsm'.did[c] /\ ~(proc.busy /\ proc.pc = c) =>
                      hsm'.buffer[c] \notin Elements(proc.digested[c])
            BY <3>0, <4>1, SMTT(20) DEF BuffersOf
          <5>3. QED
            BY <5>1, <5>2, SMTT(20) DEF BuffersOf
      <3>3. QED
        BY <3>1, <3>2, SMTT(20)
    <2>3. QED
      BY <2>1, <2>2, SMTT(20) DEF Clauses
  <1>8. QED
    BY <1>3, <1>4, <1>5, <1>6, <1>7, Zenon DEF IInv

\* appl_solved in all its outcomes
LEMMA ApplSolvedInv == ASSUME IInv, ApplSolved PROVE IInv'
  <1> DEFINE j == LoadIncrementsJob(job)
             a == LoadIncrementsAdapter(job, adapter)
  <1>0. job.state = "ACTIVE" /\ main = "idle" /\ UNCHANGED <<handed, crashes>>
    BY Zenon DEF ApplSolved
  <1>1. CASE job' = j /\ adapter' = a /\ UNCHANGED <<hsm, proc, main>>
    BY <1>0, <1>1, ForwardInv, Zenon
  <1>2. CASE /\ ~j.doneLocally
             /\ job' = RestartedJob(j) /\ adapter' = StartedAdapter(j)
             /\ hsm' = NewHsm /\ proc' = NewProc /\ UNCHANGED main
    <2>1. j = LoadIncrementsJob(job)
      BY Zenon
    <2> HIDE DEF j
    <2>2. QED
      BY <1>0, <1>2, <2>1, RestartInv, Zenon
  <1>3. CASE /\ ~j.doneLocally /\ a.initialized
             /\ job' = j /\ adapter' = CheckedAdapter(hsm, a) /\ hsm' = CheckedHsm(hsm, a)
             /\ main' = (IF hsm.hasSolution THEN "checking" ELSE "idle") /\ UNCHANGED proc
    <2>1. j = LoadIncrementsJob(job) /\ a = LoadIncrementsAdapter(job, adapter)
      BY Zenon
    <2>2. main' \in {"checking", "idle"}
      BY <1>3, Zenon
    <2> HIDE DEF j, a
    <2>3. QED
      BY <1>0, <1>3, <2>1, <2>2, CheckedInv, Zenon
  <1>4. QED
    BY <1>1, <1>2, <1>3, Zenon DEF ApplSolved

\* appl_solved leaves alone what is announced, or starts with a new shared memory
LEMMA ApplSolvedAnnounced == ASSUME IInv, Announced, ApplSolved PROVE Announced'
  <1> DEFINE j == LoadIncrementsJob(job)
             a == LoadIncrementsAdapter(job, adapter)
  <1>0. main = "idle" /\ adapter \in AdapterType /\ hsm \in HsmType /\ job \in JobType
    BY Zenon DEF ApplSolved, IInv, Types
  <1>1. Loaded(job, adapter, j, a)
    BY <1>0, LoadFacts, Zenon DEF IInv, Pipeline
  <1>2. /\ j.freed = job.freed /\ a \in AdapterType /\ a.preparing = adapter.preparing
        /\ a.early = adapter.early /\ a.preparedRevision = adapter.preparedRevision
    BY <1>1, Zenon DEF Loaded
  <1>3. CASE job' = j /\ adapter' = a /\ UNCHANGED <<hsm, proc, main>>
    BY <1>2, <1>3, AnnouncedFrame, Zenon
  <1>4. CASE /\ job' = RestartedJob(j) /\ adapter' = StartedAdapter(j)
             /\ hsm' = NewHsm /\ proc' = NewProc /\ UNCHANGED main
    <2>1. Fresh(j, job', adapter')
      <3>1. j \in JobType /\ j.revision <= j.desired
        BY <1>1, Zenon DEF Loaded, Queue
      <3>2. QED
        BY <1>4, <3>1, RestartFacts, Zenon
    <2>2. ~adapter'.preparing /\ main' # "fault"
      BY <1>0, <1>4, <2>1 DEF Fresh
    <2>3. QED
      BY <1>4, <2>2, NewFields, Zenon DEF Announced, AnnouncedIsThere
  <1>5. CASE /\ a.initialized
             /\ job' = j /\ adapter' = CheckedAdapter(hsm, a) /\ hsm' = CheckedHsm(hsm, a)
             /\ main' = (IF hsm.hasSolution THEN "checking" ELSE "idle") /\ UNCHANGED proc
    <2>1. Checked(hsm, a, hsm', adapter')
      BY <1>0, <1>2, <1>5, CheckedFacts, Zenon
    <2>2. main' # "fault"
      BY <1>5
    <2>3. /\ UNCHANGED <<hsm.hasSolution, hsm.solutionRevision, hsm.solutions>>
          /\ adapter'.preparing = a.preparing /\ adapter'.early = a.early
          /\ adapter'.preparedRevision = a.preparedRevision
      BY <2>1, Zenon DEF Checked
    <2>4. QED
      BY <1>2, <1>5, <2>2, <2>3, AnnouncedFrame, Zenon
  <1>6. QED
    BY <1>3, <1>4, <1>5, Zenon DEF ApplSolved

-----------------------------------------------------------------------------
(***************************************************************************)
(* The theorems.                                                           *)
(***************************************************************************)
\* A job that has just been started satisfies the inductive invariant
LEMMA InitInv == ASSUME Init PROVE IInv
  <1>1. PICK r \in Revisions : \E d \in r..MaxRevision :
           LET j == [state |-> "ACTIVE", revision |-> r, desired |-> d, forwarded |-> 0,
                     doneLocally |-> FALSE, results |-> <<>>, freed |-> FALSE] IN
           /\ job = RestartedJob(j) /\ adapter = StartedAdapter(j)
           /\ hsm = NewHsm /\ proc = NewProc
           /\ main = "idle" /\ handed = 0 /\ crashes = 0
    BY Zenon DEF Init
  <1>2. PICK d \in r..MaxRevision :
           LET j == [state |-> "ACTIVE", revision |-> r, desired |-> d, forwarded |-> 0,
                     doneLocally |-> FALSE, results |-> <<>>, freed |-> FALSE] IN
           /\ job = RestartedJob(j) /\ adapter = StartedAdapter(j)
           /\ hsm = NewHsm /\ proc = NewProc
           /\ main = "idle" /\ handed = 0 /\ crashes = 0
    BY <1>1, Zenon
  <1> DEFINE j == [state |-> "ACTIVE", revision |-> r, desired |-> d, forwarded |-> 0,
                   doneLocally |-> FALSE, results |-> <<>>, freed |-> FALSE]
  <1>3. /\ job = RestartedJob(j) /\ adapter = StartedAdapter(j)
        /\ hsm = NewHsm /\ proc = NewProc
        /\ main = "idle" /\ handed = 0 /\ crashes = 0
    BY <1>2, Zenon
  <1>4. /\ r \in Nat /\ d \in Revisions /\ r <= d /\ 0 \in Revisions
        /\ MaxRevision \in Nat /\ MaxBuffers \in Nat /\ MaxCrashes \in Nat
    BY ProcessAssumption DEF Revisions
  <1>5. /\ j \in JobType /\ j.revision <= j.desired /\ ~j.doneLocally /\ j.state = "ACTIVE"
        /\ j.results = <<>> /\ ~j.freed
    BY <1>4 DEF JobType
  <1> HIDE DEF j
  <1>6. Fresh(j, job, adapter)
    BY <1>3, <1>5, RestartFacts, Zenon
  <1>7. Types
    BY <1>3, <1>4, <1>6, NewTypes DEF Fresh, Types
  <1>8. Lifecycle
    BY <1>3, <1>5, <1>6, NewFields, Zenon DEF Fresh, Lifecycle, Alive
  <1>9. Pipeline
    BY <1>3, <1>6, NewFields DEF Fresh, Pipeline, Alive, None
  <1>10. Solution
    <2>1. adapter.desired \in Nat
      BY <1>4, <1>6 DEF Fresh, AdapterType, Revisions
    <2>2. QED
      BY <1>3, <1>6, <2>1, NewFields DEF Fresh, Solution, None
  <1>11. Reports
    BY <1>3, <1>5, <1>6, EmptyFacts, Zenon DEF Fresh, Reports, ResultOfItsRevision
  <1>12. Clauses
    BY <1>3, <1>6, NewFields, EmptyFacts DEF Fresh, Clauses, BuffersOf
  <1>13. QED
    BY <1>7, <1>8, <1>9, <1>10, <1>11, <1>12, SMTT(20) DEF IInv

\* Every step of the worker's threads and of the child preserves the invariant
LEMMA NextInv == ASSUME IInv, Announced, [Next]_vars PROVE IInv'
  <1>1. CASE ApplSolved
    BY <1>1, ApplSolvedInv, Zenon
  <1>2. CASE CheckSolution
    BY <1>2, CheckSolutionInv, Zenon
  <1>3. CASE Writer
    BY <1>3, WriteBlocksInv, MarkWrittenInv, EndWriterInv, SMTT(20) DEF Writer
  <1>4. CASE Tasks
    BY <1>4, DoInitializeInv, DoPrepareSolutionInv, ChildExitedInv, FreeSharedMemoryInv, SMTT(20)
       DEF Tasks, Destruction
  <1>5. CASE ApplSuspend \/ (\E d \in Revisions : ApplResume(d)) \/ ApplTerminate \/ PushRevision
    BY <1>5, ApplSuspendInv, ApplResumeInv, ApplTerminateInv, PushRevisionInv, Zenon
  <1>6. CASE (\E c \in Channels : HandOver(c)) \/ CollectClauses \/ GetCollectedClauses
    BY <1>6, HandOverInv, CollectClausesInv, GetCollectedClausesInv, Zenon
  <1>7. CASE Child
    <2> USE <1>7 DEF Child
    <2>1. CASE Begin \/ CheckTerminate \/ ImportRevision \/ ResetSolution
      BY <2>1, BeginInv, CheckTerminateInv, ImportRevisionInv, ResetSolutionInv, Zenon
    <2>2. CASE Export \/ SetInitialized \/ Solve
      BY <2>2, ExportInv, SetInitializedInv, SolveInv, Zenon
    <2>3. CASE \E c \in Channels : Digest(c)
      BY <2>3, DigestInv, Zenon
    <2>4. QED
      BY <2>1, <2>2, <2>3, Zenon
  <1>8. CASE FindResult \/ Crash
    BY <1>8, FindResultInv, CrashInv, Zenon
  <1>9. CASE UNCHANGED vars
    <2> USE <1>9 DEF vars, IInv, Alive
    <2>1. Types' /\ Lifecycle'
      BY Zenon DEF Types, Lifecycle
    <2>2. Pipeline' /\ Solution'
      BY Zenon DEF Pipeline, Queue, Front, Solution
    <2>3. Reports' /\ Clauses'
      BY Zenon DEF Reports, ResultOfItsRevision, Clauses, BuffersOf
    <2>4. QED
      BY <2>1, <2>2, <2>3, SMTT(20)
  <1>10. QED
    BY <1>1, <1>2, <1>3, <1>4, <1>5, <1>6, <1>7, <1>8, <1>9, SMTT(20) DEF Next, Main

\* Nothing is announced at first
LEMMA InitAnnounced == ASSUME Init PROVE Announced
  <1>1. hsm = NewHsm /\ proc = NewProc /\ main = "idle"
    BY Zenon DEF Init
  <1>2. ~adapter.preparing
    BY <1>1, InitInv, NewFields, Zenon DEF IInv, Lifecycle, Pipeline
  <1>3. main # "fault"
    BY <1>1
  <1>4. QED
    BY <1>1, <1>2, <1>3, NewFields, Zenon DEF Announced, AnnouncedIsThere

\* Every step keeps to what is announced
LEMMA NextAnnounced == ASSUME IInv, Announced, [Next]_vars PROVE Announced'
  <1>1. CASE Main
    BY <1>1, ApplSolvedAnnounced, CheckAnnounced, Zenon DEF Main
  <1>2. CASE Writer
    BY <1>2, WriterAnnounced, Zenon DEF Writer
  <1>3. CASE Tasks
    BY <1>3, InitializeAnnounced, PrepareAnnounced, WriterAnnounced, FreeAnnounced, Zenon
       DEF Tasks, Destruction
  <1>4. CASE ApplSuspend \/ (\E d \in Revisions : ApplResume(d)) \/ ApplTerminate \/ PushRevision
    BY <1>4, StateAnnounced, Zenon
  <1>5. CASE (\E c \in Channels : HandOver(c)) \/ CollectClauses \/ GetCollectedClauses
    BY <1>5, BufferAnnounced, Zenon
  <1>6. CASE Child \/ FindResult \/ Crash
    BY <1>6, ChildAnnounced, Zenon
  <1>7. CASE UNCHANGED vars
    BY <1>7, AnnouncedFrame, Zenon DEF vars
  <1>8. QED
    BY <1>1, <1>2, <1>3, <1>4, <1>5, <1>6, <1>7, Zenon DEF Next

\* The inductive invariant holds in every reachable state
THEOREM Invariance == Spec => [](IInv /\ Announced)
  <1>1. Init => IInv /\ Announced
    BY InitInv, InitAnnounced, Zenon
  <1>2. IInv /\ Announced /\ [Next]_vars => IInv' /\ Announced'
    BY NextInv, NextAnnounced, Zenon
  <1>3. QED
    BY <1>1, <1>2, PTL DEF Spec

\* The child never exits with status 0 unasked, which nobody would notice: every revision is
\* written before it is published, and published and imported exactly once
THEOREM NoSilentExitTheorem == Spec => []NoSilentExit
  <1>1. IInv => NoSilentExit
    <2> SUFFICES ASSUME IInv PROVE NoSilentExit
      BY Zenon
    <2>1. job \in JobType /\ adapter \in AdapterType /\ hsm \in HsmType /\ proc \in ProcType
      BY Zenon DEF IInv, Types
    <2>2. proc.pc \in Elements(Loop) \union {"none", "begin", "startup", "exited", "crashed"}
      <3>1. LoopSteps \subseteq Elements(Loop)
        BY DEF Elements, Loop, LoopSteps
      <3>2. proc.pc \in PC
        BY <2>1, Zenon DEF ProcType
      <3>3. QED
        BY <3>1, <3>2, Zenon DEF PC, LoopSteps
    <2>3. TypeOK
      <3>1. job.forwarded <= job.revision /\ job.revision <= job.desired
        BY Zenon DEF IInv, Pipeline, Queue
      <3>2. /\ proc.last \in Revisions /\ proc.lastSolved \in Revisions \union {None}
            /\ adapter.toWrite \in Seq(Revisions) /\ adapter.desired \in Revisions
            /\ hsm.blocks \subseteq Revisions /\ hsm.solutions \in [Revisions -> Stages]
        BY <2>1, Zenon DEF ProcType, AdapterType, HsmType, OptRevision
      <3>3. QED
        BY <2>1, <2>2, <3>1, <3>2, SMTT(20) DEF TypeOK, IInv, Types, JobType, ResultType, OptRevision
    <2>4. QED
      BY <2>3, Zenon DEF NoSilentExit, IInv, Lifecycle
  <1>2. QED
    BY <1>1, Invariance, PTL

\* What appl_solved reports belongs to the revision it is reported for, in vector and result;
\* the vector is complete unless its preparation began before the child had written it, on a
\* hasSolution that was read for the solution before; and the revisions reported increase
THEOREM ResultOfItsRevisionTheorem == Spec => []ResultOfItsRevision
  <1>1. IInv => ResultOfItsRevision
    BY Zenon DEF IInv, Reports
  <1>2. QED
    BY <1>1, Invariance, PTL

\* A solution that the child has announced is never missed by the task that prepares it: only
\* a preparation that began without the flag can meet a block that is not there
THEOREM AnnouncedIsThereTheorem == Spec => []AnnouncedIsThere
  <1>1. Announced => AnnouncedIsThere
    BY Zenon DEF Announced
  <1>2. QED
    BY <1>1, Invariance, PTL

\* A child is stopped exactly while its job is suspended
THEOREM StoppedIffSuspendedTheorem == Spec => []StoppedIffSuspended
  <1>1. IInv => StoppedIffSuspended
    BY Zenon DEF IInv, Lifecycle, StoppedIffSuspended
  <1>2. QED
    BY <1>1, Invariance, PTL

\* Shared memory that was freed has no user left: neither the child, nor a background task
THEOREM FreedUnusedTheorem == Spec => []FreedUnused
  <1>1. IInv => FreedUnused
    BY Zenon DEF IInv, Lifecycle, FreedUnused, Alive
  <1>2. QED
    BY <1>1, Invariance, PTL

\* Parent and child never use a clause buffer at the same time
THEOREM BufferExclusionTheorem == Spec => []BufferExclusion
  <1>1. IInv => BufferExclusion
    BY Zenon DEF IInv, Clauses, BuffersOf, BufferExclusion
  <1>2. QED
    BY <1>1, Invariance, PTL

\* A sequence without repetitions has as many elements as positions
LEMMA InjectiveCount ==
    ASSUME NEW s \in Seq(Nat), IsInjective(s)
    PROVE Cardinality(Elements(s)) = Len(s)
  <1>1. Len(s) \in Nat /\ DOMAIN s = 1..Len(s) /\ s = [i \in 1..Len(s) |-> s[i]]
    OBVIOUS
  <1>2. s \in Bijection(1..Len(s), Elements(s))
    <2>1. s \in [1..Len(s) -> Elements(s)]
      BY <1>1, Zenon DEF Elements
    <2>2. \A x, y \in 1..Len(s) : s[x] = s[y] => x = y
      BY <1>1, Zenon DEF IsInjective
    <2>3. \A e \in Elements(s) : \E i \in 1..Len(s) : s[i] = e
      BY <1>1, Zenon DEF Elements
    <2>4. QED
      BY <2>1, <2>2, <2>3, Zenon DEF Bijection, Injection, Surjection, IsInjective
  <1>3. ExistsBijection(1..Len(s), Elements(s))
    BY <1>2, Zenon DEF ExistsBijection
  <1>4. IsFiniteSet(1..Len(s)) /\ Cardinality(1..Len(s)) = Len(s)
    <2> DEFINE n == Len(s)
    <2> SUFFICES IsFiniteSet(1..n) /\ Cardinality(1..n) = n
      BY Zenon
    <2>1. n \in Nat /\ 1 \in Int /\ n \in Int
      BY <1>1
    <2> HIDE DEF n
    <2>2. IsFiniteSet(1..n) /\ Cardinality(1..n) = IF 1 > n THEN 0 ELSE n - 1 + 1
      BY <2>1, FS_Interval, Zenon
    <2>3. QED
      BY <2>1, <2>2
  <1>5. QED
    BY <1>3, <1>4, FS_Bijection, Zenon

\* No clause buffer is digested twice by the same child
THEOREM DigestedOnceTheorem == Spec => []DigestedOnce
  <1>1. IInv => DigestedOnce
    <2> SUFFICES ASSUME IInv, NEW c \in Channels
                 PROVE Cardinality(Elements(proc.digested[c])) = Len(proc.digested[c])
      BY Zenon DEF DigestedOnce
    <2>1. proc.digested[c] \in Seq(Nat) /\ IsInjective(proc.digested[c])
      BY Zenon DEF IInv, Types, ProcType, Clauses, BuffersOf
    <2>2. QED
      BY <2>1, InjectiveCount, Zenon
  <1>2. QED
    BY <1>1, Invariance, PTL
=============================================================================
