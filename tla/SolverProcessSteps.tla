------------------------- MODULE SolverProcessSteps -------------------------
(***************************************************************************)
(* Why the steps of the child, of the background tasks and of the main     *)
(* thread other than appl_solved preserve the inductive invariant of       *)
(* SolverProcess (SolverProcessInvariant).                                 *)
(***************************************************************************)
EXTENDS SolverProcessInvariant, TLAPS

-----------------------------------------------------------------------------
(***************************************************************************)
(* Sequences and records.                                                  *)
(***************************************************************************)
\* The elements of a sequence have its type
LEMMA ElementType == ASSUME NEW S, NEW s \in Seq(S), NEW i \in DOMAIN s PROVE s[i] \in S
  OBVIOUS

\* Taking the first element off a sequence
LEMMA TailFacts ==
    ASSUME NEW S, NEW s \in Seq(S), s # <<>>
    PROVE /\ Head(s) \in S /\ Head(s) = s[1] /\ Tail(s) \in Seq(S)
          /\ Len(s) \in Nat /\ Len(s) > 0 /\ Len(Tail(s)) = Len(s) - 1
          /\ DOMAIN s = 1..Len(s) /\ DOMAIN Tail(s) = 1..(Len(s) - 1)
          /\ \A i \in 1..(Len(s) - 1) : Tail(s)[i] = s[i + 1]
  OBVIOUS

\* Appending an element
LEMMA AppendFacts ==
    ASSUME NEW S, NEW s \in Seq(S), NEW x \in S
    PROVE /\ Append(s, x) \in Seq(S) /\ Len(s) \in Nat
          /\ DOMAIN s = 1..Len(s) /\ DOMAIN Append(s, x) = 1..(Len(s) + 1)
          /\ \A i \in 1..Len(s) : Append(s, x)[i] = s[i]
          /\ Append(s, x)[Len(s) + 1] = x
  OBVIOUS

\* A buffer is taken off a queue: it was in it once
LEMMA TailInjective ==
    ASSUME NEW s \in Seq(Nat), s # <<>>, IsInjective(s)
    PROVE /\ IsInjective(Tail(s)) /\ Head(s) \in Elements(s)
          /\ Elements(Tail(s)) \subseteq Elements(s) /\ Head(s) \notin Elements(Tail(s))
  <1>1. \A i \in DOMAIN Tail(s) : i \in Nat /\ i + 1 \in DOMAIN s /\ i + 1 # 1 /\ Tail(s)[i] = s[i + 1]
    BY TailFacts
  <1>2. 1 \in DOMAIN s /\ Head(s) = s[1]
    BY TailFacts
  <1>3. QED
    BY <1>1, <1>2 DEF IsInjective, Elements

\* A new buffer is appended
LEMMA AppendInjective ==
    ASSUME NEW s \in Seq(Nat), NEW x \in Nat
    PROVE /\ Elements(Append(s, x)) = Elements(s) \union {x}
          /\ IsInjective(s) /\ x \notin Elements(s) => IsInjective(Append(s, x))
  <1>0. /\ Len(s) \in Nat /\ DOMAIN s = 1..Len(s) /\ DOMAIN Append(s, x) = 1..(Len(s) + 1)
        /\ \A i \in 1..Len(s) : Append(s, x)[i] = s[i]
        /\ Append(s, x)[Len(s) + 1] = x
    BY AppendFacts
  <1>1. \A i \in DOMAIN Append(s, x) :
            (i \in DOMAIN s /\ Append(s, x)[i] = s[i]) \/ (i = Len(s) + 1 /\ Append(s, x)[i] = x)
    BY <1>0
  <1>2. /\ \A i \in DOMAIN s : i \in DOMAIN Append(s, x) /\ Append(s, x)[i] = s[i]
        /\ Len(s) + 1 \in DOMAIN Append(s, x) /\ Append(s, x)[Len(s) + 1] = x
    BY <1>0
  <1>3. QED
    BY <1>1, <1>2 DEF IsInjective, Elements

\* Taking the first of consecutive revisions off the writer's queue
LEMMA TailConsecutive ==
    ASSUME NEW s \in Seq(Revisions), s # <<>>, NEW f \in Int, \A i \in DOMAIN s : s[i] = f + i
    PROVE /\ Head(s) \in Revisions /\ Tail(s) \in Seq(Revisions)
          /\ Head(s) = f + 1 /\ f + Len(s) = f + 1 + Len(Tail(s))
          /\ \A i \in DOMAIN Tail(s) : Tail(s)[i] = f + 1 + i
  <1>1. /\ Head(s) \in Revisions /\ Tail(s) \in Seq(Revisions)
        /\ Head(s) = s[1] /\ Len(s) \in Nat /\ Len(s) > 0 /\ Len(Tail(s)) = Len(s) - 1
        /\ DOMAIN s = 1..Len(s) /\ DOMAIN Tail(s) = 1..(Len(s) - 1)
        /\ \A i \in 1..(Len(s) - 1) : Tail(s)[i] = s[i + 1]
    BY TailFacts, Zenon
  <1>2. \A i \in 1..(Len(s) - 1) : s[i + 1] = f + 1 + i
    BY <1>1
  <1>3. QED
    BY <1>1, <1>2

-----------------------------------------------------------------------------
(***************************************************************************)
(* The writer of revisions.                                                *)
(***************************************************************************)
\* The adapter's writing of a revision into shared memory keeps the inductive invariant
LEMMA WriteBlocksInv == ASSUME IInv, WriteBlocks PROVE IInv'
  <1> USE DEF IInv, WriteBlocks
  <1>0. /\ adapter \in AdapterType /\ hsm \in HsmType /\ adapter.toWrite \in Seq(Revisions)
        /\ adapter.toWrite # <<>>
    BY Zenon DEF Types, AdapterType
  <1>1. /\ Head(adapter.toWrite) \in Revisions /\ Tail(adapter.toWrite) \in Seq(Revisions)
        /\ Head(adapter.toWrite) = adapter.written + 1
        /\ job.forwarded = adapter.written + 1 + Len(Tail(adapter.toWrite))
        /\ \A i \in DOMAIN Tail(adapter.toWrite) : Tail(adapter.toWrite)[i] = adapter.written + 1 + i
    <2>1. adapter.written \in Int
      BY <1>0, ProcessAssumption DEF AdapterType, Revisions
    <2>2. /\ \A i \in DOMAIN adapter.toWrite : adapter.toWrite[i] = adapter.written + i
          /\ job.forwarded = adapter.written + Len(adapter.toWrite)
      BY Zenon DEF Pipeline, Queue, Front
    <2>3. QED
      BY <1>0, <2>1, <2>2, TailConsecutive, Zenon
  <1>2. Types'
    <2>1. adapter' \in AdapterType
      BY <1>0, <1>1, Zenon DEF AdapterType, OptRevision
    <2>2. hsm' \in HsmType
      BY <1>0, <1>1, Zenon DEF HsmType
    <2>3. QED
      BY <2>1, <2>2, Zenon DEF Types
  <1>3. Lifecycle'
    BY <1>0, Zenon DEF Lifecycle, Alive, AdapterType, HsmType
  <1>4. Pipeline'
    BY <1>0, <1>1, SMTT(20) DEF Pipeline, Queue, Front, Alive, AdapterType, HsmType, Revisions, OptRevision, None
  <1>5. Solution' /\ Reports' /\ Clauses'
    BY <1>0, Zenon DEF Solution, Reports, Clauses, BuffersOf, ResultOfItsRevision, Alive, AdapterType, HsmType
  <1>6. QED
    BY <1>2, <1>3, <1>4, <1>5, Zenon

\* The writer finishes a block: the written revisions grow by the next one in order
LEMMA MarkWrittenInv == ASSUME IInv, MarkWritten PROVE IInv'
  <1> USE DEF IInv, MarkWritten
  <1>0. adapter \in AdapterType
    BY Zenon DEF Types
  <1>2. Types'
    <2>1. adapter' \in AdapterType
      BY <1>0, Zenon DEF AdapterType, OptRevision
    <2>3. QED
      BY <2>1, Zenon DEF Types
  <1>3. Lifecycle'
    BY <1>0, Zenon DEF Lifecycle, Alive, AdapterType
  <1>4. Pipeline'
    BY <1>0 DEF Pipeline, Queue, Front, Alive, AdapterType, Revisions, OptRevision, None
  <1>5. Solution' /\ Reports' /\ Clauses'
    BY <1>0, Zenon DEF Solution, Reports, Clauses, BuffersOf, ResultOfItsRevision, Alive, AdapterType
  <1>6. QED
    BY <1>2, <1>3, <1>4, <1>5, Zenon

\* A writer that ends leaves no revision half written
LEMMA EndWriterInv == ASSUME IInv, EndWriter PROVE IInv'
  <1> USE DEF IInv, EndWriter
  <1>0. adapter \in AdapterType
    BY Zenon DEF Types
  <1>2. Types'
    <2>1. adapter' \in AdapterType
      BY <1>0, Zenon DEF AdapterType
    <2>3. QED
      BY <2>1, Zenon DEF Types
  <1>3. Lifecycle'
    BY <1>0, Zenon DEF Lifecycle, Alive, AdapterType
  <1>4. Pipeline'
    BY <1>0, Zenon DEF Pipeline, Queue, Front, Alive, AdapterType
  <1>5. Solution' /\ Reports' /\ Clauses'
    BY <1>0, Zenon DEF Solution, Reports, Clauses, BuffersOf, ResultOfItsRevision, Alive, AdapterType
  <1>6. QED
    BY <1>2, <1>3, <1>4, <1>5, Zenon

-----------------------------------------------------------------------------
(***************************************************************************)
(* Solving states.                                                         *)
(***************************************************************************)
\* A fresh adapter, shared memory and child have their types
LEMMA NewTypes ==
    /\ NewHsm \in HsmType /\ NewProc \in ProcType
    /\ \A f \in Revisions : NewAdapter(f) \in AdapterType
  <1>0. 0 \in Revisions /\ 0 \in OptRevision /\ None \in OptRevision /\ 0 \in Nat
    BY ProcessAssumption DEF Revisions, OptRevision
  <1>1. [c \in Channels |-> 0] \in [Channels -> Nat] /\ [c \in Channels |-> <<>>] \in [Channels -> Seq(Nat)]
    OBVIOUS
  <1>2. NewHsm \in HsmType
    <2>1. [r \in Revisions |-> "none"] \in [Revisions -> Stages]
      BY DEF Stages
    <2>2. QED
      BY <1>0, <1>1, <2>1, Zenon DEF NewHsm, HsmType
  <1>3. NewProc \in ProcType
    BY <1>0, <1>1, Zenon DEF NewProc, ProcType, PC
  <1>4. ASSUME NEW f \in Revisions PROVE NewAdapter(f) \in AdapterType
    BY <1>0, <1>1 DEF NewAdapter, AdapterType
  <1>5. QED
    BY <1>2, <1>3, <1>4, Zenon

\* The notice and the signals that the parent sends keep the types
LEMMA SignalledTypes ==
    ASSUME NEW s
    PROVE /\ \A h \in HsmType : SignalledHsm(h, s) \in HsmType
          /\ \A p \in ProcType : SignalledProc(p, s) \in ProcType
  <1>1. ASSUME NEW h \in HsmType PROVE SignalledHsm(h, s) \in HsmType
    BY Zenon DEF SignalledHsm, HsmType
  <1>2. ASSUME NEW p \in ProcType PROVE SignalledProc(p, s) \in ProcType
    BY Zenon DEF SignalledProc, ProcType
  <1>3. QED
    BY <1>1, <1>2, Zenon

\* What is signalled leaves types alone
LEMMA SetSolvingStateTypes ==
    ASSUME Types, NEW s \in {"ACTIVE", "SUSPENDED", "ABORTING"}, SetSolvingState(s)
    PROVE adapter' \in AdapterType /\ hsm' \in HsmType /\ proc' \in ProcType
  <1>0. adapter \in AdapterType /\ hsm \in HsmType /\ proc \in ProcType
    BY Zenon DEF Types
  <1>1. adapter' \in AdapterType
    BY <1>0, Zenon DEF SetSolvingState, AdapterType
  <1>2. hsm' \in HsmType
    BY <1>0, SignalledTypes, Zenon DEF SetSolvingState
  <1>3. proc' \in ProcType
    BY <1>0, SignalledTypes, Zenon DEF SetSolvingState
  <1>4. QED
    BY <1>1, <1>2, <1>3, Zenon

\* What is signalled concerns the child's life and nothing else
LEMMA SetSolvingStateFrame ==
    ASSUME Types, Pipeline, Solution, Clauses,
           NEW s \in {"ACTIVE", "SUSPENDED", "ABORTING"}, SetSolvingState(s),
           job'.forwarded = job.forwarded, job'.revision = job.revision,
           job'.desired \in Int, job'.desired >= job.desired, handed' = handed
    PROVE Pipeline' /\ Solution' /\ Clauses'
  <1>0. /\ adapter \in AdapterType /\ hsm \in HsmType /\ proc \in ProcType /\ job \in JobType
        /\ MaxRevision \in Nat
    BY ProcessAssumption, Zenon DEF Types
  <1>1. UNCHANGED <<proc.pc, proc.last, proc.busy, proc.digested>>
    BY <1>0, Zenon DEF SetSolvingState, SignalledProc, ProcType
  <1>2. UNCHANGED <<hsm.doStart, hsm.didStart, hsm.blocks, hsm.result, hsm.solutionRevision,
                    hsm.do, hsm.did, hsm.buffer, hsm.didExport>>
    BY <1>0, Zenon DEF SetSolvingState, SignalledHsm, HsmType
  <1>3. UNCHANGED <<adapter.desired, adapter.toWrite, adapter.writing, adapter.written, adapter.writer,
                    adapter.initialized, adapter.published, adapter.preparing,
                    adapter.preparedRevision, adapter.early, adapter.solution, adapter.deferred>>
    BY <1>0, Zenon DEF SetSolvingState, AdapterType
  <1>4. Pipeline'
    BY <1>0, <1>1, <1>2, <1>3, SMTT(20) DEF Pipeline, Queue, Front, Alive, JobType, AdapterType, Revisions
  <1>5. Solution'
    BY <1>1, <1>2, <1>3, Zenon DEF Solution
  <1>6. Clauses'
    BY <1>1, <1>2, <1>3, Zenon DEF Clauses, BuffersOf, Alive
  <1>7. QED
    BY <1>4, <1>5, <1>6, Zenon

\* appl_suspend stops the child, and the solver is marked suspended with it
LEMMA ApplSuspendInv == ASSUME IInv, ApplSuspend PROVE IInv'
  <1> USE DEF IInv, ApplSuspend
  <1>0. /\ adapter \in AdapterType /\ hsm \in HsmType /\ proc \in ProcType /\ job \in JobType
        /\ job.desired \in Int
    BY ProcessAssumption DEF Types, JobType, Revisions
  <1>1. Types'
    BY <1>0, SetSolvingStateTypes, Zenon DEF Types, JobType
  <1>2. Lifecycle'
    BY <1>0 DEF Lifecycle, SetSolvingState, SignalledHsm, SignalledProc, Alive, AdapterType, HsmType,
                ProcType, JobType
  <1>3. Pipeline' /\ Solution' /\ Clauses'
    BY <1>0, SetSolvingStateFrame DEF JobType
  <1>4. Reports'
    BY <1>0, Zenon DEF Reports, ResultOfItsRevision, JobType
  <1>5. QED
    BY <1>1, <1>2, <1>3, <1>4, Zenon

\* appl_resume continues the child, maybe for a higher revision than before
LEMMA ApplResumeInv == ASSUME IInv, NEW d \in Revisions, ApplResume(d) PROVE IInv'
  <1> USE DEF IInv, ApplResume
  <1>0. /\ adapter \in AdapterType /\ hsm \in HsmType /\ proc \in ProcType /\ job \in JobType
        /\ job.desired \in Int /\ d \in Int
    BY ProcessAssumption DEF Types, JobType, Revisions
  <1>1. Types'
    BY <1>0, SetSolvingStateTypes, Zenon DEF Types, JobType
  <1>2. Lifecycle'
    BY <1>0 DEF Lifecycle, SetSolvingState, SignalledHsm, SignalledProc, Alive, AdapterType, HsmType,
                ProcType, JobType
  <1>3. Pipeline' /\ Solution' /\ Clauses'
    BY <1>0, SetSolvingStateFrame, Zenon DEF JobType
  <1>4. Reports'
    BY <1>0, Zenon DEF Reports, ResultOfItsRevision, JobType
  <1>5. QED
    BY <1>1, <1>2, <1>3, <1>4, Zenon

\* appl_terminate notes the termination and wakes a stopped child
LEMMA ApplTerminateInv == ASSUME IInv, ApplTerminate PROVE IInv'
  <1> USE DEF IInv, ApplTerminate
  <1>0. /\ adapter \in AdapterType /\ hsm \in HsmType /\ proc \in ProcType /\ job \in JobType
        /\ job.desired \in Int
    BY ProcessAssumption DEF Types, JobType, Revisions
  <1>1. Types'
    BY <1>0, SetSolvingStateTypes, Zenon DEF Types, JobType
  <1>2. Lifecycle'
    <2>1. /\ job'.state = "PAST" /\ job'.freed = job.freed /\ adapter'.state = "ABORTING" /\ main' = "idle"
          /\ UNCHANGED <<adapter.initialized, adapter.terminate, adapter.writer, adapter.preparing>>
      BY <1>0, Zenon DEF SetSolvingState, JobType, AdapterType
    <2>2. proc'.pc = proc.pc /\ (adapter.initialized => ~proc'.stopped /\ hsm'.doTerminate)
      BY <1>0, Zenon DEF SetSolvingState, SignalledHsm, SignalledProc, HsmType, ProcType
    <2>3. QED
      BY <2>1, <2>2, Zenon DEF Lifecycle, Alive
  <1>3. Pipeline' /\ Solution' /\ Clauses'
    BY <1>0, SetSolvingStateFrame DEF JobType
  <1>4. Reports'
    BY <1>0, Zenon DEF Reports, ResultOfItsRevision, JobType
  <1>5. QED
    BY <1>1, <1>2, <1>3, <1>4, Zenon

\* The initializer catches up with what the scheduler did before the child existed
LEMMA DoInitializeInv == ASSUME IInv, DoInitialize PROVE IInv'
  <1> USE DEF IInv, DoInitialize
  <1>0. /\ adapter \in AdapterType /\ MaxRevision \in Nat
    BY ProcessAssumption, Zenon DEF Types
  <1>1. adapter' \in AdapterType
    BY <1>0, Zenon DEF AdapterType
  <1>2. hsm' \in HsmType
    <2>1. [NewHsm EXCEPT !.doBegin = TRUE, !.blocks = {0}, !.desired = adapter.firstrev] \in HsmType
      <3>1. {0} \in SUBSET Revisions /\ adapter.firstrev \in Revisions
        BY <1>0 DEF AdapterType, Revisions
      <3>2. QED
        BY <3>1, NewTypes, Zenon DEF HsmType
    <2>2. QED
      BY <2>1, SignalledTypes, Zenon
  <1>3. proc' \in ProcType
    <2>1. [NewProc EXCEPT !.pc = "begin"] \in ProcType
      BY NewTypes, Zenon DEF ProcType, PC
    <2>2. QED
      BY <2>1, SignalledTypes, Zenon
  <1>4. Types'
    BY <1>1, <1>2, <1>3, Zenon DEF Types
  <1>5. Lifecycle'
    BY <1>0, Zenon DEF Lifecycle, NewHsm, NewProc, SignalledHsm, SignalledProc, Alive, AdapterType
  <1>6. Pipeline'
    BY <1>0 DEF Pipeline, Queue, Front, NewHsm, NewProc, SignalledHsm, SignalledProc, Alive, AdapterType, Revisions, OptRevision, None
  <1>7. Solution'
    BY <1>0 DEF Solution, Pipeline, Queue, NewHsm, NewProc, SignalledHsm, SignalledProc, AdapterType, Revisions, None
  <1>8. Reports'
    BY <1>0, Zenon DEF Reports, ResultOfItsRevision, AdapterType
  <1>9. Clauses'
    <2>1. /\ proc'.busy = FALSE /\ hsm'.do = [c \in Channels |-> FALSE]
          /\ hsm'.buffer = [c \in Channels |-> 0] /\ proc'.digested = [c \in Channels |-> <<>>]
      BY Zenon DEF NewHsm, NewProc, SignalledHsm, SignalledProc
    <2>2. adapter'.deferred = adapter.deferred /\ handed' = handed /\ handed \in Nat
      BY <1>0, ProcessAssumption DEF AdapterType, Types
    <2>3. IsInjective(<<>>) /\ Elements(<<>>) = {}
      BY DEF IsInjective, Elements
    <2>4. QED
      BY <2>1, <2>2, <2>3 DEF Clauses, BuffersOf
  <1>10. QED
    BY <1>4, <1>5, <1>6, <1>7, <1>8, <1>9, Zenon

\* A revision that arrives extends the description by one
LEMMA PushRevisionInv == ASSUME IInv, PushRevision PROVE IInv'
  <1> USE DEF IInv, PushRevision
  <1>0. /\ job \in JobType /\ MaxRevision \in Nat
    BY ProcessAssumption, Zenon DEF Types
  <1>1. Types'
    BY <1>0 DEF Types, JobType, Revisions
  <1>2. Lifecycle' /\ Solution' /\ Clauses'
    BY <1>0, Zenon DEF Lifecycle, Solution, Clauses, BuffersOf, Alive, JobType
  <1>3. Pipeline'
    BY <1>0 DEF Pipeline, Queue, JobType, Revisions, Front, Alive
  <1>4. Reports'
    BY <1>0, Zenon DEF Reports, ResultOfItsRevision, JobType
  <1>5. QED
    BY <1>1, <1>2, <1>3, <1>4, Zenon

-----------------------------------------------------------------------------
(***************************************************************************)
(* Clause buffers.                                                         *)
(***************************************************************************)
\* A buffer that is put into shared memory changes its own channel and nothing else
LEMMA PutBufferFacts ==
    ASSUME NEW h \in HsmType, NEW a, a.desired \in Revisions, NEW c \in Channels, NEW b \in Nat
    PROVE /\ PutBuffer(h, a, c, b) \in HsmType
          /\ PutBuffer(h, a, c, b).do = [h.do EXCEPT ![c] = TRUE]
          /\ PutBuffer(h, a, c, b).buffer = [h.buffer EXCEPT ![c] = b]
          /\ PutBuffer(h, a, c, b).doTerminate = h.doTerminate
          /\ PutBuffer(h, a, c, b).doStart = h.doStart
          /\ PutBuffer(h, a, c, b).didStart = h.didStart /\ PutBuffer(h, a, c, b).blocks = h.blocks
          /\ PutBuffer(h, a, c, b).result = h.result
          /\ PutBuffer(h, a, c, b).solutionRevision = h.solutionRevision
          /\ PutBuffer(h, a, c, b).hasSolution = h.hasSolution
          /\ PutBuffer(h, a, c, b).solutions = h.solutions
          /\ PutBuffer(h, a, c, b).did = h.did /\ PutBuffer(h, a, c, b).didExport = h.didExport
  <1>1. /\ h.do \in [Channels -> BOOLEAN] /\ h.buffer \in [Channels -> Nat]
        /\ [h.buffer EXCEPT ![c] = b] \in [Channels -> Nat]
        /\ [h.do EXCEPT ![c] = TRUE] \in [Channels -> BOOLEAN]
    BY Zenon DEF HsmType
  <1>2. PutBuffer(h, a, c, b) = [h EXCEPT !.buffer = [h.buffer EXCEPT ![c] = b], !.do = [h.do EXCEPT ![c] = TRUE],
                                   !.bufferRevision = IF c = "import" THEN a.desired ELSE h.bufferRevision]
    BY Zenon DEF PutBuffer, HsmType
  <1>3. QED
    BY <1>1, <1>2, ZenonT(30) DEF HsmType

\* A buffer handed to the child is put in place or deferred, and it is a new one
LEMMA HandOverInv == ASSUME IInv, NEW c \in Channels, HandOver(c) PROVE IInv'
  <1> DEFINE G == [adapter.given EXCEPT ![c] = Append(@, handed')]
             D == [adapter.deferred EXCEPT ![c] = Append(@, handed')]
  <1> USE DEF IInv
  <1>0. /\ adapter \in AdapterType /\ hsm \in HsmType /\ proc \in ProcType
        /\ handed \in Nat /\ handed' = handed + 1 /\ handed' \in 0..MaxBuffers
        /\ UNCHANGED <<job, proc, main, crashes>>
    BY ProcessAssumption DEF Types, HandOver
  <1>1. /\ adapter.deferred \in [Channels -> Seq(Nat)] /\ adapter.given \in [Channels -> Seq(Nat)]
        /\ adapter.desired \in Revisions
    BY <1>0, Zenon DEF AdapterType
  <1>2. G \in [Channels -> Seq(Nat)] /\ D \in [Channels -> Seq(Nat)]
    BY <1>0, <1>1
  <1>3. /\ hsm.do[c] => adapter' = [adapter EXCEPT !.given = G, !.deferred = D] /\ hsm' = hsm
        /\ ~hsm.do[c] => /\ adapter' = [adapter EXCEPT !.given = G]
                         /\ hsm' = PutBuffer(hsm, adapter', c, handed')
    BY <1>0, Zenon DEF HandOver, AdapterType
  <1> HIDE DEF G, D
  <1>4. /\ adapter' \in AdapterType
        /\ adapter'.deferred = IF hsm.do[c] THEN D ELSE adapter.deferred
        /\ UNCHANGED <<adapter.initialized, adapter.state, adapter.terminate, adapter.desired,
                       adapter.toWrite, adapter.writer, adapter.writing, adapter.written,
                       adapter.published, adapter.preparing, adapter.preparedRevision,
                       adapter.early, adapter.solution>>
    <2>1. CASE hsm.do[c]
      <3>1. adapter' = [adapter EXCEPT !.given = G, !.deferred = D]
        BY <1>3, <2>1, Zenon
      <3>2. adapter' \in AdapterType
        BY <1>0, <1>2, <3>1, ZenonT(30) DEF AdapterType
      <3>3. QED
        BY <1>0, <2>1, <3>1, <3>2, Zenon DEF AdapterType
    <2>2. CASE ~hsm.do[c]
      <3>1. adapter' = [adapter EXCEPT !.given = G]
        BY <1>3, <2>2, Zenon
      <3>2. adapter' \in AdapterType
        BY <1>0, <1>2, <3>1, Zenon DEF AdapterType
      <3>3. QED
        BY <1>0, <2>2, <3>1, <3>2, Zenon DEF AdapterType
    <2>3. QED
      BY <2>1, <2>2, Zenon
  <1>5. /\ hsm' \in HsmType
        /\ hsm'.do = IF hsm.do[c] THEN hsm.do ELSE [hsm.do EXCEPT ![c] = TRUE]
        /\ hsm'.buffer = IF hsm.do[c] THEN hsm.buffer ELSE [hsm.buffer EXCEPT ![c] = handed']
        /\ UNCHANGED <<hsm.doTerminate, hsm.doStart, hsm.didStart, hsm.blocks, hsm.result,
                       hsm.solutionRevision, hsm.did, hsm.didExport>>
    <2>1. CASE hsm.do[c]
      BY <1>0, <1>3, <2>1, Zenon
    <2>2. CASE ~hsm.do[c]
      <3>1. adapter'.desired \in Revisions /\ handed' \in Nat
        BY <1>0, <1>1, <1>4
      <3>2. QED
        BY <1>0, <1>3, <2>2, <3>1, PutBufferFacts
    <2>3. QED
      BY <2>1, <2>2, Zenon
  <1>6. hsm.do \in [Channels -> BOOLEAN] /\ hsm.buffer \in [Channels -> Nat]
    BY <1>0, Zenon DEF HsmType
  <1>7. Types'
    BY <1>0, <1>4, <1>5, SMTT(20) DEF Types
  <1>8. Lifecycle' /\ Pipeline' /\ Solution' /\ Reports'
    BY <1>0, <1>4, <1>5 DEF Lifecycle, Pipeline, Queue, Solution, Reports, ResultOfItsRevision, Alive, Front
  <1>9. Clauses'
    <2>1. ASSUME NEW e \in Channels, e # c PROVE BuffersOf(e)'
      <3>1. UNCHANGED <<adapter.deferred[e], hsm.do[e], hsm.buffer[e], hsm.did[e]>>
        BY <1>1, <1>4, <1>5, <1>6, <2>1, Zenon DEF D
      <3>2. BuffersOf(e)
        BY Zenon DEF Clauses
      <3>3. QED
        BY <1>0, <1>6, <3>1, <3>2 DEF BuffersOf, Alive
    <2>2. BuffersOf(c)
      BY Zenon DEF Clauses
    <2>3. CASE hsm.do[c]
      <3>1. adapter'.deferred[c] = Append(adapter.deferred[c], handed') /\ UNCHANGED hsm
        BY <1>1, <1>3, <1>4, <2>3, Zenon DEF D
      <3>2. handed' \notin Elements(adapter.deferred[c]) /\ handed' \notin Elements(proc.digested[c])
        BY <1>0, <2>2 DEF BuffersOf
      <3>3. /\ Elements(adapter'.deferred[c]) = Elements(adapter.deferred[c]) \union {handed'}
            /\ IsInjective(adapter'.deferred[c])
        BY <1>0, <1>1, <2>2, <3>1, <3>2, AppendInjective DEF BuffersOf
      <3>4. hsm.buffer[c] \in Nat
        BY <1>6, Zenon
      <3>5. BuffersOf(c)'
        BY <1>0, <2>2, <3>1, <3>2, <3>3, <3>4 DEF BuffersOf, Alive
      <3>6. QED
        BY <1>0, <2>1, <3>1, <3>5, Zenon DEF Clauses
    <2>4. CASE ~hsm.do[c]
      <3>1. adapter'.deferred = adapter.deferred /\ hsm'.do[c] /\ hsm'.buffer[c] = handed' /\ hsm'.did = hsm.did
        BY <1>4, <1>5, <1>6, <2>4, Zenon
      <3>2. handed' \notin Elements(adapter.deferred[c]) /\ handed' \notin Elements(proc.digested[c])
        BY <1>0, <2>2 DEF BuffersOf
      <3>3. BuffersOf(c)'
        BY <1>0, <2>2, <2>4, <3>1, <3>2 DEF BuffersOf, Alive
      <3>4. QED
        BY <1>0, <1>5, <2>1, <3>3, Zenon DEF Clauses
    <2>5. QED
      BY <2>3, <2>4, SMTT(20)
  <1>10. QED
    BY <1>7, <1>8, <1>9, Zenon

\* Asking for an export uses up a buffer number and touches no buffer
LEMMA CollectClausesInv == ASSUME IInv, CollectClauses PROVE IInv'
  <1> USE DEF IInv, CollectClauses
  <1>0. hsm \in HsmType /\ handed \in Nat /\ handed' = handed + 1 /\ handed' \in 0..MaxBuffers
    BY ProcessAssumption DEF Types
  <1>1. Types'
    BY <1>0, Zenon DEF Types, HsmType
  <1>2. Lifecycle' /\ Pipeline' /\ Solution' /\ Reports'
    BY <1>0 DEF Lifecycle, Pipeline, Queue, Solution, Reports, ResultOfItsRevision, Alive, Front, HsmType
  <1>3. Clauses'
    <2>1. UNCHANGED <<hsm.do, hsm.did, hsm.buffer, hsm.didExport, adapter, proc, Alive>>
      BY <1>0, Zenon DEF HsmType, Alive
    <2>2. ASSUME NEW c \in Channels PROVE BuffersOf(c)'
      <3>1. hsm.buffer[c] \in Nat /\ BuffersOf(c)
        BY <1>0, Zenon DEF HsmType, Clauses
      <3>2. Elements(adapter.deferred[c]) \subseteq 0..handed' /\ Elements(proc.digested[c]) \subseteq 0..handed'
        BY <1>0, <3>1 DEF BuffersOf
      <3>3. QED
        BY <1>0, <2>1, <3>1, <3>2 DEF BuffersOf
    <2>3. QED
      BY <2>1, <2>2, Zenon DEF Clauses
  <1>4. QED
    BY <1>1, <1>2, <1>3, Zenon

\* Fetching an export clears the request and touches no buffer
LEMMA GetCollectedClausesInv == ASSUME IInv, GetCollectedClauses PROVE IInv'
  <1> USE DEF IInv, GetCollectedClauses
  <1>0. hsm \in HsmType
    BY Zenon DEF Types
  <1>1. Types'
    BY <1>0, Zenon DEF Types, HsmType
  <1>2. Lifecycle' /\ Pipeline' /\ Solution' /\ Reports'
    BY <1>0 DEF Lifecycle, Pipeline, Queue, Solution, Reports, ResultOfItsRevision, Alive, Front, HsmType
  <1>3. Clauses'
    BY <1>0, Zenon DEF Clauses, BuffersOf, Alive, HsmType
  <1>4. QED
    BY <1>1, <1>2, <1>3, Zenon

-----------------------------------------------------------------------------
(***************************************************************************)
(* The child.                                                              *)
(***************************************************************************)
LoopSteps == {"terminate", "revisions", "export", "import", "return", "initialized", "solve"}
LivingSteps == LoopSteps \union {"begin", "startup"}

\* The main loop is left only by an exit
LEMMA AfterInLoop == ASSUME NEW pc \in LoopSteps PROVE After(pc) \in LoopSteps
  <1>1. CASE pc = "solve"
    BY <1>1, Zenon DEF After, LoopSteps
  <1>2. CASE pc # "solve"
    <2>1. \E i \in DOMAIN Loop : Loop[i] = pc
      <3>1. DOMAIN Loop = 1..7
        BY DEF Loop
      <3>2. pc \in {Loop[1], Loop[2], Loop[3], Loop[4], Loop[5], Loop[6], Loop[7]}
        BY Zenon DEF Loop, LoopSteps
      <3>3. QED
        BY <3>1, <3>2
    <2>2. PICK k \in DOMAIN Loop : Loop[k] = pc /\ After(pc) = Loop[k + 1]
      BY <1>2, <2>1, Zenon DEF After
    <2>3. k \in 1..6
      BY <1>2, <2>2 DEF Loop
    <2>4. QED
      BY <2>2, <2>3 DEF Loop, LoopSteps
  <1>3. QED
    BY <1>1, <1>2, Zenon

\* What no step of the child disturbs
LEMMA ChildFrame ==
    ASSUME IInv, UNCHANGED <<job, adapter, main, handed, crashes>>, Alive,
           hsm' \in HsmType, proc' \in ProcType, hsm'.doTerminate = hsm.doTerminate,
           proc'.stopped = proc.stopped,
           proc'.pc \in LivingSteps \/ (proc'.pc = "exited" /\ hsm.doTerminate)
    PROVE /\ Types' /\ Lifecycle' /\ Reports'
          /\ UNCHANGED <<proc.last, hsm.doStart, hsm.didStart, hsm.blocks>> => Pipeline'
          /\ UNCHANGED <<proc.last, hsm.result, hsm.solutionRevision>> => Solution'
          /\ (/\ UNCHANGED <<hsm.do, hsm.did, hsm.buffer, hsm.didExport, proc.digested>>
              /\ ~(proc.busy /\ proc.pc \in Channels)
              /\ proc'.busy => proc'.pc \notin Channels \union {"export"}) => Clauses'
  <1> USE DEF IInv
  <1>1. Types' /\ Reports'
    BY Zenon DEF Types, Reports, ResultOfItsRevision
  <1>2. Lifecycle'
    BY Zenon DEF Lifecycle, Alive, LivingSteps, LoopSteps
  <1>3. UNCHANGED <<proc.last, hsm.doStart, hsm.didStart, hsm.blocks>> => Pipeline'
    BY Zenon DEF Pipeline, Queue, Alive
  <1>4. UNCHANGED <<proc.last, hsm.result, hsm.solutionRevision>> => Solution'
    BY Zenon DEF Solution
  <1>5. ASSUME UNCHANGED <<hsm.do, hsm.did, hsm.buffer, hsm.didExport, proc.digested>>,
               ~(proc.busy /\ proc.pc \in Channels),
               proc'.busy => proc'.pc \notin Channels \union {"export"}
        PROVE Clauses'
    BY <1>5, Zenon DEF Clauses, BuffersOf, Alive
  <1>6. QED
    BY <1>1, <1>2, <1>3, <1>4, <1>5, Zenon

\* The child's loop goes on to a step of the loop
LEMMA ProceedFacts ==
    ASSUME proc \in ProcType, proc.pc \in LoopSteps, Proceed
    PROVE /\ proc' \in ProcType /\ proc'.pc \in LoopSteps /\ ~proc'.busy
          /\ UNCHANGED <<proc.stopped, proc.last, proc.digested>>
  <1>1. After(proc.pc) \in LoopSteps /\ After(proc.pc) \in PC
    BY AfterInLoop, Zenon DEF LoopSteps, PC
  <1>2. QED
    BY <1>1, Zenon DEF Proceed, ProcType

\* The child leaves its loop only when it was told to terminate
LEMMA ExitFacts ==
    ASSUME proc \in ProcType, Exit
    PROVE /\ proc' \in ProcType /\ proc'.pc = "exited" /\ UNCHANGED hsm
          /\ UNCHANGED <<proc.stopped, proc.last, proc.digested, proc.busy>>
  BY Zenon DEF Exit, ProcType, PC

\* The child starts up, or ends at once when it was terminated first
LEMMA BeginInv ==
    ASSUME IInv, Running, Begin, UNCHANGED <<job, adapter, main, handed, crashes>>
    PROVE IInv'
  <1>0. proc \in ProcType /\ hsm \in HsmType /\ Alive /\ proc.pc = "begin" /\ adapter.firstrev \in Revisions
    BY Zenon DEF IInv, Types, Running, Begin, AdapterType
  <1>1. /\ proc' \in ProcType /\ UNCHANGED hsm
        /\ proc'.pc \in LivingSteps \/ (proc'.pc = "exited" /\ hsm.doTerminate)
        /\ proc'.pc \in {"startup", "exited"}
        /\ UNCHANGED <<proc.stopped, proc.last, proc.digested, proc.busy>>
    <2>1. CASE hsm.doTerminate
      BY <1>0, <2>1, ExitFacts, Zenon DEF Begin
    <2>2. CASE ~hsm.doTerminate
      BY <1>0, <2>2, ZenonT(30) DEF Begin, ProcType, PC, LivingSteps
    <2>3. QED
      BY <2>1, <2>2, Zenon
  <1>2. QED
    BY <1>0, <1>1, ChildFrame, Zenon DEF IInv, Channels

\* The child looks at the termination flag once per round
LEMMA CheckTerminateInv ==
    ASSUME IInv, Running, CheckTerminate, UNCHANGED <<job, adapter, main, handed, crashes>>
    PROVE IInv'
  <1>0. proc \in ProcType /\ hsm \in HsmType /\ Alive /\ proc.pc = "terminate"
    BY Zenon DEF IInv, Types, Running, CheckTerminate
  <1>1. /\ proc' \in ProcType /\ UNCHANGED hsm
        /\ proc'.pc \in LivingSteps \/ (proc'.pc = "exited" /\ hsm.doTerminate)
        /\ ~proc'.busy \/ proc'.pc = "exited"
        /\ UNCHANGED <<proc.stopped, proc.last, proc.digested>>
    <2>1. CASE hsm.doTerminate
      BY <1>0, <2>1, ExitFacts, Zenon DEF CheckTerminate
    <2>2. CASE ~hsm.doTerminate
      BY <1>0, <2>2, ProceedFacts, Zenon DEF CheckTerminate, LivingSteps, LoopSteps
    <2>3. QED
      BY <2>1, <2>2, Zenon
  <1>2. QED
    BY <1>0, <1>1, ChildFrame, Zenon DEF IInv, Channels

\* One revision is imported: it was published, so it was written
LEMMA ImportRevisionInv ==
    ASSUME IInv, Running, ImportRevision, UNCHANGED <<job, adapter, main, handed, crashes>>
    PROVE IInv'
  <1> DEFINE isNew == hsm.doStart /\ ~hsm.didStart
             waits == proc.last < proc.desired
  <1>0. /\ proc \in ProcType /\ hsm \in HsmType /\ adapter \in AdapterType /\ Alive
        /\ proc.pc \in {"startup", "revisions"} /\ ~proc.busy /\ MaxRevision \in Nat
    BY ProcessAssumption, Zenon DEF IInv, Types, Running, ImportRevision
  <1>1. isNew => proc.last + 1 = adapter.published /\ proc.last + 1 \in hsm.blocks
    BY <1>0 DEF IInv, Pipeline, Queue, Front, AdapterType, ProcType, Revisions, OptRevision, None
  <1>2. CASE (isNew \/ waits) /\ hsm.doTerminate
    <2>1. Exit
      BY <1>2, Zenon DEF ImportRevision
    <2>2. QED
      BY <1>0, <1>2, <2>1, ExitFacts, ChildFrame, Zenon DEF IInv, Channels
  <1>3. CASE isNew /\ ~hsm.doTerminate
    <2>1. /\ proc' = [proc EXCEPT !.last = @ + 1, !.desired = hsm.desired, !.found = FALSE, !.busy = TRUE]
          /\ hsm' = [hsm EXCEPT !.didStart = TRUE]
      BY <1>1, <1>3, Zenon DEF ImportRevision
    <2>2. proc.last + 1 \in Revisions /\ hsm.desired \in Revisions
      BY <1>0, <1>1, <1>3, Zenon DEF AdapterType, HsmType
    <2>3. /\ proc' \in ProcType /\ proc'.last = proc.last + 1 /\ proc'.pc = proc.pc
          /\ UNCHANGED <<proc.stopped, proc.digested>>
      BY <1>0, <2>1, <2>2, Zenon DEF ProcType
    <2>4. /\ hsm' \in HsmType /\ hsm'.didStart
          /\ UNCHANGED <<hsm.doTerminate, hsm.doStart, hsm.blocks, hsm.result, hsm.solutionRevision,
                         hsm.do, hsm.did, hsm.buffer, hsm.didExport>>
      BY <1>0, <2>1, Zenon DEF HsmType
    <2>5. Types' /\ Lifecycle' /\ Reports' /\ Clauses'
      BY <1>0, <2>3, <2>4, ChildFrame, ZenonT(30) DEF Channels, LivingSteps, LoopSteps
    <2>6. Pipeline'
      BY <1>0, <1>1, <1>3, <2>3, <2>4, Zenon DEF IInv, Pipeline, Queue, Alive, Lifecycle
    <2>7. Solution'
      BY <1>0, <2>3, <2>4 DEF IInv, Solution, ProcType, HsmType, Revisions, OptRevision, None
    <2>8. QED
      BY <2>5, <2>6, <2>7, Zenon DEF IInv
  <1>4. CASE ~isNew /\ ~(waits /\ hsm.doTerminate)
    <2>1. /\ hsm' = [hsm EXCEPT !.didStart = @ /\ hsm.doStart]
          /\ IF waits THEN UNCHANGED proc
             ELSE IF proc.pc = "startup"
             THEN proc' = [proc EXCEPT !.pc = "terminate", !.started = TRUE]
             ELSE Proceed
      BY <1>4, Zenon DEF ImportRevision
    <2>2. /\ hsm' \in HsmType /\ hsm'.didStart = (hsm.didStart /\ hsm.doStart)
          /\ UNCHANGED <<hsm.doTerminate, hsm.doStart, hsm.blocks, hsm.result, hsm.solutionRevision,
                         hsm.do, hsm.did, hsm.buffer, hsm.didExport>>
      BY <1>0, <2>1, Zenon DEF HsmType
    <2>3. /\ proc' \in ProcType /\ proc'.pc \in LivingSteps /\ ~proc'.busy
          /\ UNCHANGED <<proc.stopped, proc.last, proc.digested>>
      <3>1. CASE waits
        BY <1>0, <2>1, <3>1, Zenon DEF LivingSteps, LoopSteps
      <3>2. CASE ~waits /\ proc.pc = "startup"
        BY <1>0, <2>1, <3>2, ZenonT(30) DEF ProcType, PC, LivingSteps, LoopSteps
      <3>3. CASE ~waits /\ proc.pc # "startup"
        BY <1>0, <2>1, <3>3, ProceedFacts, Zenon DEF LivingSteps, LoopSteps
      <3>4. QED
        BY <3>1, <3>2, <3>3, Zenon
    <2>4. Types' /\ Lifecycle' /\ Reports' /\ Solution' /\ Clauses'
      BY <1>0, <2>2, <2>3, ChildFrame, Zenon DEF Channels
    <2>5. Pipeline'
      BY <1>0, <1>4, <2>2, <2>3, Zenon DEF IInv, Pipeline, Queue, Alive
    <2>6. QED
      BY <2>4, <2>5, Zenon DEF IInv
  <1>5. QED
    BY <1>2, <1>3, <1>4, Zenon

\* The child forgets the solution of an earlier revision
LEMMA ResetSolutionInv ==
    ASSUME IInv, Running, ResetSolution, UNCHANGED <<job, adapter, main, handed, crashes>>
    PROVE IInv'
  <1>0. /\ proc \in ProcType /\ hsm \in HsmType /\ Alive /\ proc.pc \in {"startup", "revisions"}
    BY Zenon DEF IInv, Types, Running, ResetSolution
  <1>1. /\ proc' \in ProcType /\ ~proc'.busy
        /\ UNCHANGED <<proc.pc, proc.stopped, proc.last, proc.digested>>
    BY <1>0, Zenon DEF ResetSolution, ProcType
  <1>2. /\ hsm' \in HsmType
        /\ UNCHANGED <<hsm.doTerminate, hsm.doStart, hsm.didStart, hsm.blocks, hsm.result,
                       hsm.solutionRevision, hsm.do, hsm.did, hsm.buffer, hsm.didExport>>
    BY <1>0, Zenon DEF ResetSolution, HsmType
  <1>3. QED
    BY <1>0, <1>1, <1>2, ChildFrame, Zenon DEF IInv, Channels, LivingSteps, LoopSteps

\* The child answers an export request once
LEMMA ExportInv ==
    ASSUME IInv, Running, Export, UNCHANGED <<job, adapter, main, handed, crashes>>
    PROVE IInv'
  <1>0. proc \in ProcType /\ hsm \in HsmType /\ Alive /\ proc.pc = "export"
    BY Zenon DEF IInv, Types, Running, Export
  <1>1. /\ hsm' \in HsmType
        /\ UNCHANGED <<hsm.doTerminate, hsm.doStart, hsm.didStart, hsm.blocks, hsm.result,
                       hsm.solutionRevision, hsm.do, hsm.did, hsm.buffer>>
    <2>1. CASE proc.busy
      BY <1>0, <2>1, ZenonT(30) DEF Export, HsmType
    <2>2. CASE ~proc.busy /\ UNCHANGED hsm
      BY <1>0, <2>2, Zenon
    <2>3. CASE ~proc.busy /\ hsm' = [hsm EXCEPT !.didExport = @ /\ hsm.doExport]
      BY <1>0, <2>3, Zenon DEF HsmType
    <2>4. QED
      BY <2>1, <2>2, <2>3, Zenon DEF Export
  <1>2. /\ proc' \in ProcType /\ proc'.pc \in LivingSteps
        /\ UNCHANGED <<proc.stopped, proc.last, proc.digested>>
        /\ proc'.busy => proc'.pc = "export" /\ ~hsm'.didExport
    <2>1. CASE ~proc.busy /\ hsm.doExport /\ ~hsm.didExport
      BY <1>0, <2>1, ZenonT(30) DEF Export, ProcType, LivingSteps, LoopSteps
    <2>2. CASE ~(~proc.busy /\ hsm.doExport /\ ~hsm.didExport)
      BY <1>0, <2>2, ProceedFacts, Zenon DEF Export, LivingSteps, LoopSteps
    <2>3. QED
      BY <2>1, <2>2, Zenon
  <1>3. Types' /\ Lifecycle' /\ Reports' /\ Pipeline' /\ Solution'
    BY <1>0, <1>1, <1>2, ChildFrame, SMTT(20)
  <1>4. Clauses'
    BY <1>0, <1>1, <1>2, Zenon DEF IInv, Clauses, BuffersOf, Alive, Channels
  <1>5. QED
    BY <1>3, <1>4, Zenon DEF IInv

\* The child tells that it is initialized
LEMMA SetInitializedInv ==
    ASSUME IInv, Running, SetInitialized, UNCHANGED <<job, adapter, main, handed, crashes>>
    PROVE IInv'
  <1>0. proc \in ProcType /\ hsm \in HsmType /\ Alive /\ proc.pc = "initialized"
    BY Zenon DEF IInv, Types, Running, SetInitialized
  <1>1. /\ hsm' \in HsmType
        /\ UNCHANGED <<hsm.doTerminate, hsm.doStart, hsm.didStart, hsm.blocks, hsm.result,
                       hsm.solutionRevision, hsm.do, hsm.did, hsm.buffer, hsm.didExport>>
    BY <1>0, ZenonT(30) DEF SetInitialized, HsmType
  <1>2. /\ proc' \in ProcType /\ proc'.pc \in LivingSteps /\ ~proc'.busy
        /\ UNCHANGED <<proc.stopped, proc.last, proc.digested>>
    BY <1>0, ProceedFacts, Zenon DEF SetInitialized, LivingSteps, LoopSteps
  <1>3. QED
    BY <1>0, <1>1, <1>2, ChildFrame, Zenon DEF IInv, Channels

\* What has reached a station has passed the ones before
LEMMA Stations ==
    ASSUME IInv
    PROVE /\ proc.last \in Int /\ adapter.written \in Int /\ adapter.desired \in Int
          /\ job.forwarded \in Int /\ job.revision \in Int /\ job.desired \in Int
          /\ proc.last <= adapter.written /\ adapter.written <= job.forwarded
          /\ job.forwarded <= adapter.desired /\ adapter.desired <= job.desired
          /\ proc.last <= job.forwarded /\ proc.last <= adapter.desired
  <1>1. /\ proc.last \in Int /\ adapter.written \in Int /\ adapter.desired \in Int
        /\ adapter.published \in Int /\ Len(adapter.toWrite) \in Nat
        /\ job.forwarded \in Int /\ job.revision \in Int /\ job.desired \in Int
    BY ProcessAssumption DEF IInv, Types, JobType, AdapterType, ProcType, Revisions
  <1>2. proc.last <= adapter.written
    BY <1>1 DEF IInv, Pipeline, Queue
  <1>3. adapter.written <= job.forwarded
    BY <1>1 DEF IInv, Pipeline, Queue, Front
  <1>4. job.forwarded <= adapter.desired /\ adapter.desired <= job.desired
    BY Zenon DEF IInv, Pipeline, Queue
  <1>5. QED
    BY <1>1, <1>2, <1>3, <1>4

\* The result changes only to that of the revision imported last.  A solution of the revision
\* that is wanted stays: nothing newer has been published.
LEMMA SolveInv ==
    ASSUME IInv, Running, Solve, UNCHANGED <<job, adapter, main, handed, crashes>>
    PROVE IInv'
  <1>0. /\ proc \in ProcType /\ hsm \in HsmType /\ adapter \in AdapterType /\ job \in JobType
        /\ Alive /\ proc.pc = "solve" /\ proc.last \in Revisions /\ MaxRevision \in Nat
    BY ProcessAssumption, Zenon DEF IInv, Types, Running, Solve, ProcType
  <1>1. /\ hsm' \in HsmType
        /\ UNCHANGED <<hsm.doTerminate, hsm.doStart, hsm.didStart, hsm.blocks,
                       hsm.do, hsm.did, hsm.buffer, hsm.didExport>>
        /\ \/ UNCHANGED <<hsm.result, hsm.solutionRevision>>
           \/ hsm'.result = proc.last /\ hsm'.solutionRevision = proc.last
    <2>1. CASE proc.busy
      <3> DEFINE S == [hsm.solutions EXCEPT ![proc.last] = Written(@, proc.last)]
      <3>1. S \in [Revisions -> Stages]
        BY <1>0 DEF HsmType, Written, Stages
      <3>2. CASE hsm' = [hsm EXCEPT !.solutions = S]
        <4> HIDE DEF S
        <4>1. QED
          BY <1>0, <3>1, <3>2, ZenonT(30) DEF HsmType
      <3>3. CASE hsm' = [hsm EXCEPT !.hasSolution = TRUE]
        BY <1>0, <3>3, ZenonT(30) DEF HsmType
      <3>4. QED
        BY <1>0, <2>1, <3>2, <3>3, Zenon DEF Solve
    <2>2. CASE ~proc.busy /\ hsm' = [hsm EXCEPT !.solutionRevision = proc.last, !.result = proc.last]
      BY <1>0, <2>2, Zenon DEF HsmType, OptRevision
    <2>3. CASE UNCHANGED hsm
      BY <1>0, <2>3, Zenon
    <2>4. QED
      BY <2>1, <2>2, <2>3, Zenon DEF Solve
  <1>2. /\ proc' \in ProcType /\ proc'.pc \in LivingSteps
        /\ proc'.busy => proc'.pc = "solve"
        /\ UNCHANGED <<proc.stopped, proc.last, proc.digested>>
    <2>1. CASE proc.busy
      <3>1. CASE proc' = [proc EXCEPT !.pc = "terminate", !.busy = FALSE, !.lastSolved = proc.last]
        BY <1>0, <3>1, ZenonT(30) DEF ProcType, PC, LivingSteps, LoopSteps, OptRevision
      <3>2. CASE UNCHANGED proc
        BY <1>0, <3>2, Zenon DEF LivingSteps, LoopSteps
      <3>3. QED
        BY <1>0, <2>1, <3>1, <3>2, Zenon DEF Solve
    <2>2. CASE ~proc.busy /\ proc' = [proc EXCEPT !.busy = TRUE]
      BY <1>0, <2>2, Zenon DEF ProcType, LivingSteps, LoopSteps
    <2>3. CASE ~proc.busy /\ Proceed
      BY <1>0, <2>3, ProceedFacts, Zenon DEF LivingSteps, LoopSteps
    <2>4. QED
      BY <2>1, <2>2, <2>3, Zenon DEF Solve
  <1>3. Types' /\ Lifecycle' /\ Reports' /\ Pipeline' /\ Clauses'
    BY <1>0, <1>1, <1>2, ChildFrame, Zenon DEF Channels
  <1>4. Solution'
    <2>1. proc.last <= adapter.desired
      BY Stations, Zenon DEF Revisions
    <2>2. QED
      BY <1>0, <1>1, <1>2, <2>1, SMTT(20) DEF IInv, Solution, ProcType, HsmType, AdapterType, Revisions, OptRevision, None
  <1>5. QED
    BY <1>3, <1>4, Zenon DEF IInv

\* A buffer is read once: while it is being read it counts as read, and afterwards it is
\* answered for
LEMMA DigestInv ==
    ASSUME IInv, Running, NEW c \in Channels, Digest(c), UNCHANGED <<job, adapter, main, handed, crashes>>
    PROVE IInv'
  <1> DEFINE D == [proc.digested EXCEPT ![c] = Append(@, hsm.buffer[c])]
  <1>0. /\ proc \in ProcType /\ hsm \in HsmType /\ adapter \in AdapterType /\ Alive /\ proc.pc = c
        /\ c \in {"import", "return"} /\ handed \in Nat
    BY ProcessAssumption DEF IInv, Types, Running, Digest, Channels
  <1>1. /\ hsm.do \in [Channels -> BOOLEAN] /\ hsm.did \in [Channels -> BOOLEAN]
        /\ hsm.buffer \in [Channels -> Nat] /\ proc.digested \in [Channels -> Seq(Nat)]
    BY <1>0, Zenon DEF HsmType, ProcType
  <1>2. \A e \in Channels : BuffersOf(e)
    BY Zenon DEF IInv, Clauses
  <1>3. ASSUME NEW v \in BOOLEAN, hsm' = [hsm EXCEPT !.did[c] = v], Proceed,
               v = TRUE \/ (v = (hsm.did[c] /\ hsm.do[c]) /\ ~proc.busy)
        PROVE IInv'
    <2>1. /\ hsm' \in HsmType /\ hsm'.did = [hsm.did EXCEPT ![c] = v]
          /\ UNCHANGED <<hsm.doTerminate, hsm.doStart, hsm.didStart, hsm.blocks, hsm.result,
                         hsm.solutionRevision, hsm.do, hsm.buffer, hsm.didExport>>
      <3>1. [hsm.did EXCEPT ![c] = v] \in [Channels -> BOOLEAN]
        BY <1>1, Zenon
      <3>2. hsm' = [hsm EXCEPT !.did = [hsm.did EXCEPT ![c] = v]]
        BY <1>0, <1>3, Zenon DEF HsmType
      <3>3. QED
        BY <1>0, <3>1, <3>2, Zenon DEF HsmType
    <2>2. /\ proc' \in ProcType /\ proc'.pc \in LivingSteps /\ ~proc'.busy
          /\ UNCHANGED <<proc.stopped, proc.last, proc.digested>>
      BY <1>0, <1>3, ProceedFacts, Zenon DEF LivingSteps, LoopSteps
    <2>3. Types' /\ Lifecycle' /\ Reports' /\ Pipeline' /\ Solution'
      BY <1>0, <2>1, <2>2, ChildFrame, Zenon
    <2>4. ASSUME NEW e \in Channels PROVE BuffersOf(e)'
      <3>1. CASE e = c
        <4>1. hsm'.did[c] = v
          BY <1>1, <2>1, Zenon
        <4>2. QED
          BY <1>0, <1>2, <1>3, <2>1, <2>2, <3>1, <4>1, Zenon DEF BuffersOf, Alive
      <3>2. CASE e # c
        <4>1. hsm'.did[e] = hsm.did[e]
          BY <1>1, <2>1, <3>2, Zenon
        <4>2. QED
          BY <1>0, <1>2, <2>1, <2>2, <3>2, <4>1, Zenon DEF BuffersOf, Alive
      <3>3. QED
        BY <3>1, <3>2, Zenon
    <2>5. QED
      BY <2>2, <2>3, <2>4, Zenon DEF IInv, Clauses
  <1>4. CASE proc.busy
    BY <1>3, <1>4, Zenon DEF Digest
  <1>5. CASE ~proc.busy /\ ~Wanted(c)
    <2>1. (hsm.did[c] /\ hsm.do[c]) \in BOOLEAN
      BY Zenon
    <2>2. QED
      BY <1>3, <1>5, <2>1, Zenon DEF Digest
  <1>6. CASE ~proc.busy /\ Wanted(c)
    <2>1. D \in [Channels -> Seq(Nat)] /\ D[c] = Append(proc.digested[c], hsm.buffer[c])
          /\ \A e \in Channels : e # c => D[e] = proc.digested[e]
      BY <1>1
    <2>2. proc' = [proc EXCEPT !.busy = TRUE, !.digested = D] /\ UNCHANGED hsm
      BY <1>0, <1>6, Zenon DEF Digest, ProcType
    <2> HIDE DEF D
    <2>3. /\ proc' \in ProcType /\ proc'.pc = c /\ proc'.busy /\ proc'.digested = D
          /\ UNCHANGED <<proc.stopped, proc.last>>
      BY <1>0, <2>1, <2>2, Zenon DEF ProcType
    <2>4. Types' /\ Lifecycle' /\ Reports' /\ Pipeline' /\ Solution'
      BY <1>0, <2>2, <2>3, ChildFrame, Zenon DEF LivingSteps, LoopSteps
    <2>5. hsm.do[c] /\ ~hsm.did[c] /\ hsm.buffer[c] \notin Elements(proc.digested[c])
          /\ hsm.buffer[c] \notin Elements(adapter.deferred[c])
      BY <1>0, <1>2, <1>6, SMTT(20) DEF Wanted, BuffersOf
    <2>6. /\ Elements(D[c]) = Elements(proc.digested[c]) \union {hsm.buffer[c]} /\ IsInjective(D[c])
      BY <1>1, <1>2, <2>1, <2>5, AppendInjective DEF BuffersOf
    <2>7. hsm.buffer[c] \in 0..handed
      BY <1>1, <1>2, <2>5 DEF BuffersOf
    <2>8. BuffersOf(c)'
      BY <1>0, <1>2, <2>2, <2>3, <2>5, <2>6, <2>7 DEF BuffersOf
    <2>9. ASSUME NEW e \in Channels, e # c PROVE BuffersOf(e)'
      BY <1>0, <1>2, <2>1, <2>2, <2>3, <2>9, ZenonT(30) DEF BuffersOf, Alive
    <2>10. QED
      BY <1>0, <2>3, <2>4, <2>8, <2>9, Zenon DEF IInv, Clauses
  <1>7. QED
    BY <1>4, <1>5, <1>6, Zenon

\* The solver finds a result of the last imported revision
LEMMA FindResultInv == ASSUME IInv, FindResult PROVE IInv'
  <1>0. proc \in ProcType /\ proc' \in ProcType
    BY Zenon DEF IInv, Types, FindResult, ProcType
  <1>1. UNCHANGED <<proc.pc, proc.busy, proc.stopped, proc.last, proc.digested>>
    BY <1>0, Zenon DEF FindResult, ProcType
  <1>2. UNCHANGED <<job, adapter, hsm, main, handed, crashes>>
    BY Zenon DEF FindResult
  <1>3. QED
    <2>1. Types' /\ Lifecycle' /\ Reports'
      BY <1>0, <1>1, <1>2, Zenon DEF IInv, Types, Lifecycle, Reports, ResultOfItsRevision, Alive
    <2>2. Pipeline' /\ Solution'
      BY <1>1, <1>2, Zenon DEF IInv, Pipeline, Queue, Solution, Alive
    <2>3. Clauses'
      BY <1>1, <1>2, Zenon DEF IInv, Clauses, BuffersOf, Alive
    <2>4. QED
      BY <2>1, <2>2, <2>3, Zenon DEF IInv

\* A crash takes the child and leaves the shared memory as it was
LEMMA CrashInv == ASSUME IInv, Crash PROVE IInv'
  <1>0. proc \in ProcType /\ crashes' \in 0..MaxCrashes /\ Alive
    BY ProcessAssumption DEF IInv, Types, Crash, Running
  <1>1. /\ proc' \in ProcType /\ proc'.pc = "crashed" /\ ~proc'.busy
        /\ UNCHANGED <<proc.stopped, proc.last, proc.digested>>
    BY <1>0, Zenon DEF Crash, ProcType, PC
  <1>2. UNCHANGED <<job, adapter, hsm, main, handed>>
    BY SMTT(20) DEF Crash
  <1>3. Types' /\ Pipeline' /\ Solution' /\ Reports'
    BY <1>0, <1>1, <1>2, Zenon DEF IInv, Types, Pipeline, Queue, Solution, Reports, ResultOfItsRevision, Alive
  <1>4. Lifecycle'
    BY <1>0, <1>1, <1>2, Zenon DEF IInv, Lifecycle, Alive
  <1>5. Clauses'
    BY <1>1, <1>2, Zenon DEF IInv, Clauses, BuffersOf, Alive, Channels
  <1>6. QED
    BY <1>3, <1>4, <1>5, Zenon DEF IInv

-----------------------------------------------------------------------------
(***************************************************************************)
(* Solutions and the end.                                                  *)
(***************************************************************************)
\* The solution that is reported is that of the description's revision: a solution of the
\* wanted revision exists, so that revision has passed all stations
LEMMA CheckSolutionInv == ASSUME IInv, CheckSolution PROVE IInv'
  <1>0. /\ job \in JobType /\ adapter \in AdapterType /\ hsm \in HsmType /\ MaxRevision \in Nat
        /\ main = "checking" /\ main' = "idle" /\ UNCHANGED <<hsm, proc, handed, crashes>>
    BY ProcessAssumption, Zenon DEF IInv, Types, CheckSolution
  <1>1. CASE UNCHANGED <<job, adapter>>
    <2>1. Types' /\ Lifecycle' /\ Pipeline' /\ Solution' /\ Clauses'
      BY <1>0, <1>1, ZenonT(30) DEF IInv, Types, Lifecycle, Pipeline, Queue, Solution, Clauses, BuffersOf, Alive
    <2>2. Reports'
      BY <1>0, <1>1, Zenon DEF IInv, Reports, ResultOfItsRevision
    <2>3. QED
      BY <2>1, <2>2, SMTT(20) DEF IInv
  <1>2. CASE /\ hsm.solutionRevision = adapter.desired /\ ~adapter.preparing
             /\ IsPrepared /\ job' = FoundResult(job) /\ UNCHANGED adapter
    <2> DEFINE r == [revision |-> job.revision, solution |-> adapter.solution,
                     early |-> adapter.early]
    <2>1. adapter.desired = job.revision /\ job.revision \in Revisions
      <3>1. hsm.solutionRevision \in Int /\ hsm.solutionRevision <= proc.last
        BY <1>0 DEF IInv, Solution, HsmType, OptRevision, Revisions, None
      <3>2. job.forwarded = job.revision
        BY <1>0, Zenon DEF IInv, Reports
      <3>3. QED
        BY <1>0, <1>2, <3>1, <3>2, Stations DEF JobType
    <2>2. OfRevision(adapter.solution, job.revision, adapter.early)
      BY <1>2, <2>1, Zenon DEF IInv, Solution, IsPrepared
    <2>3. r \in ResultType
      <3>1. /\ adapter.solution \in [vector : OptRevision, result : OptRevision]
            /\ adapter.early \in BOOLEAN /\ adapter.solution.result \in Revisions
        BY <1>0, <2>1, <2>2, Zenon DEF AdapterType, OfRevision
      <3>2. adapter.solution \in [vector : OptRevision, result : Revisions]
        BY <3>1, Zenon
      <3>3. QED
        BY <2>1, <3>1, <3>2, Zenon DEF ResultType
    <2>4. job' = [job EXCEPT !.doneLocally = TRUE, !.results = Append(job.results, r)]
      BY <1>0, <1>2, Zenon DEF FoundResult
    <2>5. job.results \in Seq(ResultType) /\ Append(job.results, r) \in Seq(ResultType)
      BY <1>0, <2>3 DEF JobType
    <2>6. /\ job' \in JobType /\ job'.results = Append(job.results, r) /\ job'.doneLocally
          /\ UNCHANGED <<job.state, job.revision, job.desired, job.forwarded, job.freed>>
      <3> HIDE DEF r
      <3>1. QED
        BY <1>0, <2>4, <2>5, Zenon DEF JobType
    <2>7. Types' /\ Lifecycle' /\ Pipeline' /\ Solution' /\ Clauses'
      BY <1>0, <1>2, <2>6, ZenonT(30) DEF IInv, Types, Lifecycle, Pipeline, Queue, Solution, Clauses, BuffersOf, Alive
    <2>8. Reports'
      <3>1. \A i \in DOMAIN job.results : /\ job.results[i].revision \in Int
                                          /\ job.results[i].revision < job.revision
        <4>1. job.forwarded = job.revision /\ ~job.doneLocally
          BY <1>0, Zenon DEF IInv, Reports
        <4>2. \A i \in DOMAIN job.results : job.results[i].revision < job.forwarded
          BY <4>1, Zenon DEF IInv, Reports
        <4>3. \A i \in DOMAIN job.results : job.results[i].revision \in Int
          <5>1. \A i \in DOMAIN job.results : job.results[i] \in ResultType
            BY <2>5, ElementType, Zenon
          <5>2. QED
            BY <1>0, <5>1 DEF ResultType, Revisions
        <4>4. QED
          BY <4>1, <4>2, <4>3, Zenon
      <3>2. /\ DOMAIN job'.results = 1..(Len(job.results) + 1) /\ Len(job.results) \in Nat
            /\ DOMAIN job.results = 1..Len(job.results)
            /\ \A i \in DOMAIN job.results : job'.results[i] = job.results[i]
            /\ job'.results[Len(job.results) + 1] = r
        BY <2>3, <2>5, <2>6, AppendFacts
      <3>3. r.revision = job.revision /\ OfRevision(r.solution, r.revision, r.early)
        BY <2>2, Zenon
      <3> HIDE DEF r
      <3>4. \A i \in DOMAIN job'.results : i \in DOMAIN job.results \/ i = Len(job.results) + 1
        BY <3>2
      <3>5. \A i \in DOMAIN job'.results : job'.results[i].revision <= job.revision
        <4>1. job.revision \in Int
          BY <1>0, <2>1 DEF Revisions
        <4>2. ASSUME NEW i \in DOMAIN job.results PROVE job'.results[i].revision <= job.revision
          BY <3>1, <3>2, <4>1
        <4>3. job'.results[Len(job.results) + 1].revision <= job.revision
          BY <3>2, <3>3, <4>1
        <4>4. QED
          BY <3>4, <4>2, <4>3, Zenon
      <3>6. ResultOfItsRevision
        BY Zenon DEF IInv, Reports
      <3>7. ResultOfItsRevision'
        <4>1. SUFFICES ASSUME NEW i \in DOMAIN job'.results, NEW k \in DOMAIN job'.results
                       PROVE /\ OfRevision(job'.results[i].solution, job'.results[i].revision,
                                           job'.results[i].early)
                             /\ i < k => job'.results[i].revision < job'.results[k].revision
          BY Zenon DEF ResultOfItsRevision
        <4>2. CASE i = Len(job.results) + 1
          BY <3>2, <3>3, <4>2
        <4>3. CASE i \in DOMAIN job.results /\ k \in DOMAIN job.results
          BY <3>2, <3>6, <4>3, SMTT(20) DEF ResultOfItsRevision
        <4>4. CASE i \in DOMAIN job.results /\ k = Len(job.results) + 1
          BY <3>1, <3>2, <3>3, <3>6, <4>4, Zenon DEF ResultOfItsRevision
        <4>5. QED
          BY <3>4, <4>2, <4>3, <4>4, Zenon
      <3>8. QED
        BY <1>0, <2>6, <3>5, <3>7, Zenon DEF IInv, Reports
    <2>9. QED
      BY <2>7, <2>8, Zenon DEF IInv
  <1>3. CASE /\ hsm.solutionRevision = adapter.desired /\ ~adapter.preparing /\ UNCHANGED job
             /\ adapter' = [adapter EXCEPT !.preparedRevision = adapter.desired,
                                           !.preparing = TRUE, !.future = TRUE,
                                           !.early = ~hsm.hasSolution]
    <2>1. /\ adapter' \in AdapterType /\ adapter'.preparedRevision = adapter.desired /\ adapter'.preparing
          /\ UNCHANGED <<adapter.initialized, adapter.state, adapter.terminate, adapter.desired,
                         adapter.toWrite, adapter.writer, adapter.writing, adapter.written,
                         adapter.published, adapter.solution, adapter.deferred>>
      BY <1>0, <1>3, Zenon DEF AdapterType, OptRevision
    <2>2. Types' /\ Reports' /\ Clauses'
      BY <1>0, <1>3, <2>1, Zenon DEF IInv, Types, Reports, ResultOfItsRevision, Clauses, BuffersOf, Alive
    <2>3. Lifecycle'
      BY <1>0, <1>3, <2>1, Zenon DEF IInv, Lifecycle, Alive
    <2>4. Pipeline'
      BY <1>0, <1>3, <2>1 DEF IInv, Pipeline, Queue, Lifecycle, Front, Alive
    <2>5. Solution'
      BY <1>0, <1>3, <2>1, SMTT(20) DEF IInv, Solution, AdapterType, Revisions, None
    <2>6. QED
      BY <2>2, <2>3, <2>4, <2>5, Zenon DEF IInv
  <1>4. QED
    BY <1>1, <1>2, <1>3, Zenon DEF CheckSolution

\* The thread that copies a solution copies that of the revision it was started for, and all
\* of it if the solution had been announced by then
LEMMA DoPrepareSolutionInv == ASSUME IInv, Announced, DoPrepareSolution PROVE IInv'
  <1> DEFINE v == IF \/ hsm.solutions[adapter.preparedRevision] = "whole"
                     \/ adapter.preparedRevision \notin Satisfiable
                  THEN adapter.preparedRevision ELSE None
  <1>0. /\ adapter \in AdapterType /\ hsm \in HsmType /\ adapter.preparing
        /\ adapter.preparedRevision \in OptRevision /\ hsm.result \in OptRevision
        /\ UNCHANGED <<job, hsm, proc, handed, crashes>>
    BY Zenon DEF IInv, Types, DoPrepareSolution, AdapterType, HsmType
  <1>1. CASE main' = "fault" /\ UNCHANGED adapter
    <2>1. Types' /\ Lifecycle' /\ Reports'
      BY <1>0, <1>1, Zenon DEF IInv, Types, Lifecycle, Reports, ResultOfItsRevision, Alive
    <2>2. Pipeline' /\ Solution' /\ Clauses'
      BY <1>0, <1>1, Zenon DEF IInv, Pipeline, Queue, Solution, Clauses, BuffersOf, Alive
    <2>3. QED
      BY <2>1, <2>2, SMTT(20) DEF IInv
  <1>2. CASE /\ UNCHANGED main
             /\ adapter' = [adapter EXCEPT !.preparing = FALSE,
                   !.solution = [vector |-> v, result |-> hsm.result]]
    <2>0. /\ v \in OptRevision
          /\ v = adapter.preparedRevision \/ (adapter.early /\ v = None)
      BY <1>0, Zenon DEF Announced, OptRevision
    <2> HIDE DEF v
    <2>1. [vector |-> v, result |-> hsm.result] \in [vector : OptRevision, result : OptRevision]
      BY <1>0, <2>0, Zenon
    <2>2. /\ adapter' \in AdapterType /\ ~adapter'.preparing
          /\ adapter'.solution = [vector |-> v, result |-> hsm.result]
          /\ adapter'.early = adapter.early
          /\ UNCHANGED <<adapter.initialized, adapter.state, adapter.terminate, adapter.desired,
                         adapter.toWrite, adapter.writer, adapter.writing, adapter.written,
                         adapter.published, adapter.preparedRevision, adapter.deferred>>
      BY <1>0, <1>2, <2>1, Zenon DEF AdapterType
    <2>3. Types' /\ Lifecycle' /\ Reports'
      BY <1>0, <1>2, <2>2, Zenon DEF IInv, Types, Lifecycle, Reports, ResultOfItsRevision, Alive
    <2>4. Pipeline'
      BY <1>0, <1>2, <2>2 DEF IInv, Pipeline, Queue, Front, Alive
    <2>5. Solution'
      <3>1. Solution /\ adapter'.solution.vector = v /\ adapter'.solution.result = hsm.result
        BY <2>2 DEF IInv
      <3>2. adapter.preparedRevision = adapter.desired =>
               OfRevision(adapter'.solution, adapter.desired, adapter.early)
        BY <2>0, <3>1, Zenon DEF Solution, OfRevision
      <3>3. QED
        BY <1>0, <2>2, <3>1, <3>2, Zenon DEF Solution
    <2>6. Clauses'
      BY <1>0, <1>2, <2>2, Zenon DEF IInv, Clauses, BuffersOf, Alive
    <2>7. QED
      BY <2>3, <2>4, <2>5, <2>6, Zenon DEF IInv
  <1>3. QED
    BY <1>1, <1>2, Zenon DEF DoPrepareSolution

\* The parent notices that the child has gone
LEMMA ChildExitedInv == ASSUME IInv, ChildExited PROVE IInv'
  <1>0. adapter \in AdapterType /\ UNCHANGED <<job, hsm, proc, main, handed, crashes>>
    BY Zenon DEF IInv, Types, ChildExited
  <1>1. /\ adapter' \in AdapterType
        /\ UNCHANGED <<adapter.initialized, adapter.state, adapter.desired, adapter.toWrite,
                       adapter.writer, adapter.writing, adapter.written, adapter.published,
                       adapter.preparing, adapter.preparedRevision, adapter.early,
                       adapter.solution, adapter.deferred>>
    BY <1>0, ZenonT(30) DEF ChildExited, AdapterType
  <1>2. Types' /\ Reports'
    BY <1>0, <1>1, Zenon DEF IInv, Types, Reports, ResultOfItsRevision
  <1>3. Lifecycle'
    BY <1>0, <1>1, SMTT(20) DEF IInv, Lifecycle, Alive, ChildExited
  <1>4. Pipeline' /\ Solution'
    BY <1>0, <1>1, SMTT(20) DEF IInv, Pipeline, Queue, Solution, Front, Alive
  <1>5. Clauses'
    BY <1>0, <1>1, Zenon DEF IInv, Clauses, BuffersOf, Alive
  <1>6. QED
    BY <1>2, <1>3, <1>4, <1>5, Zenon DEF IInv

\* The shared memory is freed after writer and child have ended
LEMMA FreeSharedMemoryInv == ASSUME IInv, FreeSharedMemory PROVE IInv'
  <1>0. job \in JobType /\ hsm \in HsmType /\ ~Alive /\ UNCHANGED <<adapter, proc, main, handed, crashes>>
    BY Zenon DEF IInv, Types, FreeSharedMemory, Lifecycle, Alive
  <1>1. /\ job' \in JobType
        /\ UNCHANGED <<job.state, job.revision, job.desired, job.forwarded, job.doneLocally, job.results>>
    BY <1>0, Zenon DEF FreeSharedMemory, JobType
  <1>2. /\ hsm' \in HsmType
        /\ UNCHANGED <<hsm.doTerminate, hsm.doStart, hsm.didStart, hsm.result, hsm.solutionRevision,
                       hsm.do, hsm.did, hsm.buffer, hsm.didExport>>
    <2>1. NewHsm.solutions \in [Revisions -> Stages] /\ {} \in SUBSET Revisions
      BY NewTypes, Zenon DEF HsmType
    <2>2. QED
      BY <1>0, <2>1, ZenonT(30) DEF FreeSharedMemory, HsmType
  <1>3. Types' /\ Reports'
    BY <1>0, <1>1, <1>2, Zenon DEF IInv, Types, Reports, ResultOfItsRevision
  <1>4. Lifecycle'
    BY <1>0, <1>1, <1>2, SMTT(20) DEF IInv, Lifecycle, Alive, FreeSharedMemory
  <1>5. Pipeline' /\ Solution'
    BY <1>0, <1>1, <1>2, SMTT(20) DEF IInv, Pipeline, Queue, Solution, Alive
  <1>6. Clauses'
    BY <1>0, <1>1, <1>2, Zenon DEF IInv, Clauses, BuffersOf, Alive
  <1>7. QED
    BY <1>3, <1>4, <1>5, <1>6, Zenon DEF IInv

-----------------------------------------------------------------------------
(***************************************************************************)
(* What hasSolution announces.                                             *)
(***************************************************************************)
\* What is announced depends on these fields only
LEMMA AnnouncedFrame ==
    ASSUME Announced, main' = "fault" => main = "fault",
           UNCHANGED <<proc.busy, proc.pc, proc.last, proc.lastSolved, hsm.hasSolution,
                       hsm.solutionRevision, hsm.solutions, job.freed,
                       adapter.preparing, adapter.early, adapter.preparedRevision>>
    PROVE Announced'
  BY Zenon DEF Announced, AnnouncedIsThere, Alive

\* The writer of revisions and the end of the child have nothing to do with solutions
LEMMA WriterAnnounced ==
    ASSUME IInv, Announced, WriteBlocks \/ MarkWritten \/ EndWriter \/ ChildExited
    PROVE Announced'
  <1>0. adapter \in AdapterType /\ hsm \in HsmType
    BY Zenon DEF IInv, Types
  <1>1. UNCHANGED <<proc, job, main>>
    BY Zenon DEF WriteBlocks, MarkWritten, EndWriter, ChildExited
  <1>2. UNCHANGED <<adapter.preparing, adapter.early, adapter.preparedRevision>>
    BY <1>0, Zenon DEF WriteBlocks, MarkWritten, EndWriter, ChildExited, AdapterType
  <1>3. UNCHANGED <<hsm.hasSolution, hsm.solutionRevision, hsm.solutions>>
    BY <1>0, Zenon DEF WriteBlocks, MarkWritten, EndWriter, ChildExited, HsmType
  <1>4. QED
    BY <1>1, <1>2, <1>3, AnnouncedFrame, Zenon

\* Neither have the solving states
LEMMA StateAnnounced ==
    ASSUME IInv, Announced,
           ApplSuspend \/ (\E d \in Revisions : ApplResume(d)) \/ ApplTerminate \/ PushRevision
    PROVE Announced'
  <1>0. adapter \in AdapterType /\ hsm \in HsmType /\ proc \in ProcType /\ job \in JobType
    BY Zenon DEF IInv, Types
  <1>1. job'.freed = job.freed /\ UNCHANGED main
    BY <1>0, Zenon DEF ApplSuspend, ApplResume, ApplTerminate, PushRevision, JobType
  <1>2. PushRevision \/ \E s \in {"ACTIVE", "SUSPENDED", "ABORTING"} : SetSolvingState(s)
    BY Zenon DEF ApplSuspend, ApplResume, ApplTerminate
  <1>3. CASE PushRevision
    BY <1>1, <1>3, AnnouncedFrame, Zenon DEF PushRevision
  <1>4. ASSUME NEW s \in {"ACTIVE", "SUSPENDED", "ABORTING"}, SetSolvingState(s)
        PROVE Announced'
    <2>1. UNCHANGED <<adapter.preparing, adapter.early, adapter.preparedRevision>>
      BY <1>0, <1>4, Zenon DEF SetSolvingState, AdapterType
    <2>2. UNCHANGED <<hsm.hasSolution, hsm.solutionRevision, hsm.solutions>>
      BY <1>0, <1>4, Zenon DEF SetSolvingState, SignalledHsm, HsmType
    <2>3. UNCHANGED <<proc.busy, proc.pc, proc.last, proc.lastSolved>>
      BY <1>0, <1>4, Zenon DEF SetSolvingState, SignalledProc, ProcType
    <2>4. QED
      BY <1>1, <2>1, <2>2, <2>3, AnnouncedFrame, Zenon
  <1>5. QED
    BY <1>2, <1>3, <1>4, Zenon

\* Neither have the clause buffers
LEMMA BufferAnnounced ==
    ASSUME IInv, Announced,
           (\E c \in Channels : HandOver(c)) \/ CollectClauses \/ GetCollectedClauses
    PROVE Announced'
  <1>0. adapter \in AdapterType /\ hsm \in HsmType
    BY Zenon DEF IInv, Types
  <1>1. UNCHANGED <<proc, job, main>>
    BY Zenon DEF HandOver, CollectClauses, GetCollectedClauses
  <1>2. UNCHANGED <<adapter.preparing, adapter.early, adapter.preparedRevision>>
    BY <1>0, Zenon DEF HandOver, CollectClauses, GetCollectedClauses, AdapterType
  <1>3. UNCHANGED <<hsm.hasSolution, hsm.solutionRevision, hsm.solutions>>
    BY <1>0, Zenon DEF HandOver, CollectClauses, GetCollectedClauses, PutBuffer, HsmType
  <1>4. QED
    BY <1>1, <1>2, <1>3, AnnouncedFrame, Zenon

\* A new shared memory announces nothing
LEMMA InitializeAnnounced == ASSUME IInv, Announced, DoInitialize PROVE Announced'
  <1>1. adapter \in AdapterType /\ ~adapter.preparing
    BY Zenon DEF IInv, Types, Pipeline, DoInitialize
  <1>2. ~adapter'.preparing /\ adapter'.early = adapter.early /\ main' = main
    BY <1>1, Zenon DEF DoInitialize, AdapterType
  <1>3. ~hsm'.hasSolution /\ ~proc'.busy
    BY Zenon DEF DoInitialize, SignalledHsm, SignalledProc, NewHsm, NewProc
  <1>4. QED
    BY <1>2, <1>3, Zenon DEF Announced, AnnouncedIsThere

\* Nothing is prepared any more when the shared memory is freed
LEMMA FreeAnnounced == ASSUME IInv, Announced, FreeSharedMemory PROVE Announced'
  <1>1. job'.freed /\ ~adapter.preparing /\ UNCHANGED <<adapter, proc, main>>
    BY Zenon DEF IInv, Types, FreeSharedMemory, JobType
  <1>2. hsm'.hasSolution = hsm.hasSolution /\ hsm'.solutionRevision = hsm.solutionRevision
    BY Zenon DEF IInv, Types, FreeSharedMemory, HsmType
  <1>3. QED
    BY <1>1, <1>2, Zenon DEF Announced, AnnouncedIsThere, Alive

\* A preparation begins with a solution that is there, or it is early
LEMMA CheckAnnounced == ASSUME IInv, Announced, CheckSolution PROVE Announced'
  <1>0. /\ job \in JobType /\ adapter \in AdapterType /\ main' = "idle" /\ UNCHANGED <<hsm, proc>>
    BY Zenon DEF IInv, Types, CheckSolution
  <1>1. ~job.freed /\ job'.freed = job.freed
    BY <1>0, Zenon DEF IInv, Lifecycle, CheckSolution, FoundResult, JobType
  <1>2. CASE UNCHANGED <<adapter.preparing, adapter.early, adapter.preparedRevision>>
    BY <1>0, <1>1, <1>2, AnnouncedFrame, Zenon
  <1>3. CASE /\ hsm.solutionRevision = adapter.desired
             /\ adapter' = [adapter EXCEPT !.preparedRevision = adapter.desired,
                                           !.preparing = TRUE, !.future = TRUE,
                                           !.early = ~hsm.hasSolution]
    <2>1. adapter'.preparedRevision = hsm.solutionRevision /\ adapter'.early = ~hsm.hasSolution
      BY <1>0, <1>3, Zenon DEF AdapterType
    <2>2. QED
      BY <1>0, <1>1, <2>1, Zenon DEF Announced, AnnouncedIsThere, Alive
  <1>4. QED
    BY <1>2, <1>3, Zenon DEF CheckSolution

\* Only an early preparation finds a block missing
LEMMA PrepareAnnounced == ASSUME IInv, Announced, DoPrepareSolution PROVE Announced'
  <1>0. adapter \in AdapterType /\ adapter.preparing /\ UNCHANGED <<job, hsm, proc>>
    BY Zenon DEF IInv, Types, DoPrepareSolution
  <1>1. CASE /\ hsm.solutions[adapter.preparedRevision] \in {"none", "sized"}
             /\ UNCHANGED adapter
    <2>1. adapter.early
      BY <1>0, <1>1 DEF Announced
    <2>2. QED
      BY <1>0, <1>1, <2>1, Zenon DEF Announced, AnnouncedIsThere, Alive
  <1>2. CASE ~adapter'.preparing /\ adapter'.early = adapter.early /\ UNCHANGED main
    BY <1>0, <1>2, Zenon DEF Announced, AnnouncedIsThere, Alive
  <1>3. QED
    BY <1>0, <1>1, <1>2, Zenon DEF DoPrepareSolution, AdapterType

\* Steps of the child that have nothing to do with solutions
LEMMA ChildAnnouncedFrame ==
    ASSUME Announced, Alive, UNCHANGED <<job, adapter, main>>,
           UNCHANGED <<proc.last, proc.lastSolved, hsm.hasSolution, hsm.solutionRevision,
                       hsm.solutions>>,
           ~(proc.busy /\ proc.pc \in {"startup", "revisions"}),
           proc'.busy => proc'.pc # "solve"
    PROVE Announced'
  BY Zenon DEF Announced, AnnouncedIsThere

\* Announced while a revision is being imported, but not when the next one is solved
LEMMA RevisionAnnounced ==
    ASSUME IInv, Announced, Running, ImportRevision \/ ResetSolution, UNCHANGED <<job, adapter, main>>
    PROVE Announced'
  <1>0. proc \in ProcType /\ hsm \in HsmType /\ Alive /\ proc.pc \in {"startup", "revisions"}
    BY Zenon DEF IInv, Types, Running, ImportRevision, ResetSolution
  <1>1. CASE ResetSolution
    <2>1. /\ ~hsm'.hasSolution /\ ~proc'.busy
          /\ UNCHANGED <<hsm.solutionRevision, hsm.solutions>>
      BY <1>0, <1>1, Zenon DEF ResetSolution, HsmType, ProcType
    <2>2. QED
      BY <2>1, Zenon DEF Announced, AnnouncedIsThere
  <1>2. CASE ImportRevision
    <2>1. ~proc.busy /\ UNCHANGED <<hsm.hasSolution, hsm.solutionRevision, hsm.solutions>>
      BY <1>0, <1>2, Zenon DEF ImportRevision, Exit, HsmType
    <2>2. CASE proc'.busy /\ proc'.pc = proc.pc
      BY <1>0, <2>1, <2>2, Zenon DEF Announced, AnnouncedIsThere
    <2>3. CASE ~proc'.busy /\ UNCHANGED <<proc.last, proc.lastSolved>>
      BY <1>0, <2>1, <2>3, ChildAnnouncedFrame, Zenon
    <2>4. QED
      BY <1>0, <1>2, <2>1, <2>2, <2>3, Zenon DEF ImportRevision, Exit, Proceed, ProcType
  <1>3. QED
    BY <1>1, <1>2, Zenon

\* The flag is set when the last block is filled, and not before
LEMMA SolveAnnounced ==
    ASSUME IInv, Announced, Running, Solve, UNCHANGED <<job, adapter, main>>
    PROVE Announced'
  <1>0. /\ proc \in ProcType /\ hsm \in HsmType /\ adapter \in AdapterType
        /\ Alive /\ proc.pc = "solve" /\ proc.last \in Revisions
        /\ hsm.solutions \in [Revisions -> Stages] /\ None \notin Revisions
    <2>1. None \notin Revisions
      BY ProcessAssumption DEF None, Revisions
    <2>2. QED
      BY <2>1, Zenon DEF IInv, Types, Running, Solve, ProcType, HsmType
  <1>1. CASE /\ proc.busy /\ IsWritten /\ hsm' = [hsm EXCEPT !.hasSolution = TRUE]
             /\ proc' = [proc EXCEPT !.pc = "terminate", !.busy = FALSE, !.lastSolved = proc.last]
    <2>1. ~proc'.busy /\ proc'.lastSolved = proc'.last /\ UNCHANGED <<hsm.solutionRevision, hsm.solutions>>
      BY <1>0, <1>1, Zenon DEF ProcType, HsmType
    <2>2. hsm.solutionRevision = proc.last /\ hsm.solutions[proc.last] = "whole"
      BY <1>0, <1>1, Zenon DEF Announced, IsWritten
    <2>3. QED
      BY <1>0, <2>1, <2>2, Zenon DEF Announced, AnnouncedIsThere
  <1>2. CASE /\ proc.busy /\ ~IsWritten /\ UNCHANGED proc
             /\ hsm' = [hsm EXCEPT !.solutions[proc.last] = Written(@, proc.last)]
    <2>1. UNCHANGED <<hsm.hasSolution, hsm.solutionRevision>>
      BY <1>0, <1>2, Zenon DEF HsmType
    <2>2. \A r \in Revisions : hsm.solutions[r] = "whole" => hsm'.solutions[r] = "whole"
      <3>1. hsm'.solutions = [hsm.solutions EXCEPT ![proc.last] = Written(@, proc.last)]
        BY <1>0, <1>2, Zenon DEF HsmType
      <3>2. QED
        BY <1>0, <1>2, <3>1 DEF IsWritten
    <2>3. hsm.solutionRevision \in OptRevision /\ adapter.preparedRevision \in OptRevision
      BY <1>0, Zenon DEF HsmType, AdapterType
    <2>4. adapter.preparing => adapter.preparedRevision \in Revisions
      BY <2>3, Zenon DEF IInv, Solution, OptRevision
    <2>5. QED
      BY <1>0, <1>2, <2>1, <2>2, <2>3, <2>4, Zenon DEF Announced, AnnouncedIsThere, Alive, OptRevision
  <1>3. CASE /\ ~proc.busy /\ proc.lastSolved # proc.last /\ proc' = [proc EXCEPT !.busy = TRUE]
             /\ hsm' = [hsm EXCEPT !.solutionRevision = proc.last, !.result = proc.last]
    <2>1. ~hsm.hasSolution
      BY <1>0, <1>3, Zenon DEF Announced
    <2>2. /\ hsm'.solutionRevision = proc.last /\ UNCHANGED <<hsm.hasSolution, hsm.solutions>>
          /\ proc'.last = proc.last
      BY <1>0, <1>3, Zenon DEF HsmType, ProcType
    <2>3. QED
      BY <2>1, <2>2, Zenon DEF Announced, AnnouncedIsThere
  <1>4. CASE Proceed /\ UNCHANGED hsm
    <2>1. ~proc'.busy /\ UNCHANGED <<proc.last, proc.lastSolved>>
      BY <1>0, <1>4, Zenon DEF Proceed, ProcType
    <2>2. QED
      BY <1>0, <1>4, <2>1, ChildAnnouncedFrame, Zenon
  <1>5. QED
    BY <1>1, <1>2, <1>3, <1>4, Zenon DEF Solve

\* What the child announces is there
LEMMA ChildAnnounced ==
    ASSUME IInv, Announced, Child \/ FindResult \/ Crash
    PROVE Announced'
  <1>0. proc \in ProcType /\ hsm \in HsmType /\ Alive /\ Running /\ UNCHANGED <<job, adapter, main>>
    BY Zenon DEF IInv, Types, Running, Child, FindResult, Crash
  <1>1. CASE ImportRevision \/ ResetSolution
    BY <1>0, <1>1, RevisionAnnounced, Zenon
  <1>2. CASE Solve
    BY <1>0, <1>2, SolveAnnounced, Zenon
  <1>3. CASE Begin \/ CheckTerminate \/ Export \/ SetInitialized \/ \E c \in Channels : Digest(c)
    <2>1. proc.pc \notin {"startup", "revisions"} /\ proc.pc # "solve"
      BY <1>3 DEF Begin, CheckTerminate, Export, SetInitialized, Digest, Channels
    <2>2. UNCHANGED <<hsm.hasSolution, hsm.solutionRevision, hsm.solutions>>
      BY <1>0, <1>3, Zenon DEF Begin, CheckTerminate, Export, SetInitialized, Digest, Exit, HsmType
    <2>3. /\ UNCHANGED <<proc.last, proc.lastSolved>>
          /\ ~proc'.busy \/ proc'.pc \in {proc.pc, "exited", "startup"}
      BY <1>0, <1>3, ZenonT(30) DEF Begin, CheckTerminate, Export, SetInitialized, Digest, Exit, Proceed, ProcType
    <2>4. proc'.busy => proc'.pc # "solve"
      BY <2>1, <2>3
    <2>5. QED
      BY <1>0, <2>1, <2>2, <2>3, <2>4, ChildAnnouncedFrame, Zenon
  <1>4. CASE FindResult
    <2>1. UNCHANGED <<proc.busy, proc.pc, proc.last, proc.lastSolved, hsm>>
      BY <1>0, <1>4, Zenon DEF FindResult, ProcType
    <2>2. QED
      BY <1>0, <2>1, AnnouncedFrame, Zenon
  <1>5. CASE Crash
    <2>1. proc'.pc = "crashed" /\ ~proc'.busy /\ UNCHANGED hsm
      BY <1>0, <1>5, Zenon DEF Crash, ProcType
    <2>2. QED
      BY <1>0, <2>1, Zenon DEF Announced, AnnouncedIsThere, Alive
  <1>6. QED
    BY <1>1, <1>2, <1>3, <1>4, <1>5, Zenon DEF Child
=============================================================================
