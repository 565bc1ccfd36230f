---------------------------- MODULE SolverProcess ----------------------------
(***************************************************************************)
(* One job node whose SAT engine runs in a process of its own: the main    *)
(* thread of the worker (ForkedSatJob, HordeProcessAdapter), its background *)
(* tasks, and the child (HordeProcess) that shares a block of flags and    *)
(* buffers with them (HordeSharedMemory). No lock protects that block: each *)
(* request is a pair of flags, doX written by the parent and didX by the   *)
(* child. An action is a stretch of one thread whose accesses to the block *)
(* belong to different requests, or whose order nobody can observe.        *)
(***************************************************************************)
EXTENDS Integers, Sequences, FiniteSets

CONSTANTS
    MaxRevision,  \* highest revision of the incremental job
    Satisfiable,  \* revisions whose solution is a vector of literals; the others have none
    MaxBuffers,   \* number of clause buffers handed to or ordered from the engine
    MaxCrashes    \* number of times the child may die of a signal

ASSUME ProcessAssumption ==
    /\ MaxRevision \in Nat /\ MaxBuffers \in Nat /\ MaxCrashes \in Nat
    /\ Satisfiable \subseteq 0..MaxRevision

VARIABLES
    job,      \* ForkedSatJob: state, revision of the description, desired revision, ...
    adapter,  \* HordeProcessAdapter of the current child
    hsm,      \* HordeSharedMemory and the named blocks beside it
    proc,     \* the child process
    main,     \* where the main thread is: outside of check(), inside, or faulted
    handed,   \* number of clause buffers handed over or ordered so far
    crashes   \* number of crashes so far

vars == <<job, adapter, hsm, proc, main, handed, crashes>>

Revisions == 0..MaxRevision
None == -1
\* The two requests of the parent that carry a buffer: digestClauses, returnClauses
Channels == {"import", "return"}

\* What there is of a solution in shared memory: nothing, the block of its size (still zero),
\* the size, the block of its vector (still unfilled), all of it
Stages == {"none", "empty", "sized", "allocated", "whole"}

\* Steps of the child's main loop, in their order
Loop == <<"terminate", "revisions", "export", "import", "return", "initialized", "solve">>
After(pc) == IF pc = "solve" THEN "terminate"
             ELSE Loop[(CHOOSE i \in DOMAIN Loop : Loop[i] = pc) + 1]

(***************************************************************************)
(* State of a fresh adapter, its shared memory and its child               *)
(***************************************************************************)
NewHsm == [doBegin |-> FALSE, doTerminate |-> FALSE,
           doExport |-> FALSE, didExport |-> FALSE,
           do |-> [c \in Channels |-> FALSE], did |-> [c \in Channels |-> FALSE],
           buffer |-> [c \in Channels |-> 0], bufferRevision |-> 0,
           doStart |-> FALSE, didStart |-> FALSE, desired |-> 0,
           isInitialized |-> FALSE, hasSolution |-> FALSE,
           solutionRevision |-> None, result |-> None,
           blocks |-> {},     \* revisions whose formula blocks exist
           solutions |-> [r \in Revisions |-> "none"]]

NewProc == [pc |-> "none", busy |-> FALSE, stopped |-> FALSE, started |-> FALSE,
            last |-> 0, desired |-> 0, found |-> FALSE, lastSolved |-> None,
            digested |-> [c \in Channels |-> <<>>]]  \* history: the buffers it has read

\* HordeProcessAdapter::HordeProcessAdapter
NewAdapter(firstrev) ==
    [initialized |-> FALSE, state |-> "INITIALIZING", terminate |-> FALSE,
     firstrev |-> firstrev, desired |-> firstrev,
     toWrite |-> <<>>, writer |-> FALSE, writing |-> None, written |-> 0, published |-> 0,
     deferred |-> [c \in Channels |-> <<>>],
     given |-> [c \in Channels |-> <<>>],  \* history: the buffers it has accepted
     preparing |-> FALSE, future |-> FALSE, preparedRevision |-> None,
     early |-> FALSE,  \* history: hasSolution was reset when the preparation began
     solution |-> [vector |-> None, result |-> None]]

Alive == proc.pc \notin {"none", "exited", "crashed"}
Running == Alive /\ ~proc.stopped

(***************************************************************************)
(* Revisions: from the job description into shared memory                  *)
(***************************************************************************)
\* The task is started even if nothing is to be written. A failing tryLock means that
\* the previous task is just ending, and the next check() starts the new one.
DoWriteRevisions(a) == IF a.initialized THEN [a EXCEPT !.writer = TRUE] ELSE a

AppendRevisions(a, revs, desired) ==
    DoWriteRevisions([a EXCEPT !.toWrite = @ \o revs, !.desired = desired])

\* The revisions of the description that were not forwarded yet
Increments(j) == [i \in 1..(j.revision - j.forwarded) |-> j.forwarded + i]

LoadIncrementsAdapter(j, a) ==
    IF Increments(j) = <<>> THEN a ELSE AppendRevisions(a, Increments(j), j.desired)

LoadIncrementsJob(j) ==
    IF Increments(j) = <<>> THEN j
    ELSE [j EXCEPT !.forwarded = j.revision, !.doneLocally = FALSE]

\* ForkedSatJob::doStartSolver: a new adapter is given all revisions from the first on
RestartedJob(j) == LoadIncrementsJob([j EXCEPT !.forwarded = 0])
StartedAdapter(j) == LoadIncrementsAdapter([j EXCEPT !.forwarded = 0], NewAdapter(j.desired))

\* The background writer: blocks first, then the number that makes them publishable
WriteBlocks ==
    /\ adapter.writer /\ adapter.writing = None
    /\ adapter.toWrite # <<>> /\ ~adapter.terminate
    /\ adapter' = [adapter EXCEPT !.toWrite = Tail(@), !.writing = Head(adapter.toWrite)]
    /\ hsm' = [hsm EXCEPT !.blocks = @ \union {Head(adapter.toWrite)}]
    /\ UNCHANGED <<job, proc, main, handed, crashes>>

MarkWritten ==
    /\ adapter.writing # None
    /\ adapter' = [adapter EXCEPT !.written = adapter.writing, !.writing = None]
    /\ UNCHANGED <<job, hsm, proc, main, handed, crashes>>

EndWriter ==
    /\ adapter.writer /\ adapter.writing = None
    /\ adapter.toWrite = <<>> \/ adapter.terminate
    /\ adapter' = [adapter EXCEPT !.writer = FALSE]
    /\ UNCHANGED <<job, hsm, proc, main, handed, crashes>>

(***************************************************************************)
(* Solving states                                                          *)
(***************************************************************************)
\* HordeProcessAdapter::applySolvingState: what it does to shared memory and to the child
SignalledHsm(h, state) ==
    IF state = "ABORTING" THEN [h EXCEPT !.doTerminate = TRUE, !.doBegin = TRUE] ELSE h
SignalledProc(p, state) ==
    [p EXCEPT !.stopped = CASE state = "SUSPENDED" -> TRUE
                            [] state \in {"ACTIVE", "ABORTING"} -> FALSE
                            [] OTHER -> @]

\* Mutation of SetSolvingState: without a child the state is forgotten.
SetSolvingState_NotStored(state) ==
    IF adapter.initialized
    THEN /\ adapter' = [adapter EXCEPT !.state = state]
         /\ hsm' = SignalledHsm(hsm, state) /\ proc' = SignalledProc(proc, state)
    ELSE UNCHANGED <<adapter, hsm, proc>>

\* Stored, and applied at once if there is a child to apply it to
SetSolvingState(state) ==
    /\ adapter' = [adapter EXCEPT !.state = state]
    /\ IF adapter.initialized
       THEN hsm' = SignalledHsm(hsm, state) /\ proc' = SignalledProc(proc, state)
       ELSE UNCHANGED <<hsm, proc>>

\* The background task that sets up shared memory, forks, and then applies the
\* solving state that was asked for in the meantime
DoInitialize ==
    /\ ~adapter.initialized
    /\ adapter' = [adapter EXCEPT !.initialized = TRUE]
    /\ hsm' = SignalledHsm([NewHsm EXCEPT !.doBegin = TRUE, !.blocks = {0},
                                          !.desired = adapter.firstrev],
                           adapter.state)
    /\ proc' = SignalledProc([NewProc EXCEPT !.pc = "begin"], adapter.state)
    /\ UNCHANGED <<job, main, handed, crashes>>

ApplSuspend ==
    /\ job.state = "ACTIVE" /\ main = "idle"
    /\ job' = [job EXCEPT !.state = "SUSPENDED"]
    /\ SetSolvingState("SUSPENDED")
    /\ UNCHANGED <<main, handed, crashes>>

\* The node was adopted again, maybe for a higher revision than before
ApplResume(desired) ==
    /\ job.state = "SUSPENDED" /\ main = "idle" /\ desired >= job.desired
    /\ job' = [job EXCEPT !.state = "ACTIVE", !.desired = desired]
    /\ SetSolvingState("ACTIVE")
    /\ UNCHANGED <<main, handed, crashes>>

ApplTerminate ==
    /\ job.state \in {"ACTIVE", "SUSPENDED"} /\ main = "idle"
    /\ job' = [job EXCEPT !.state = "PAST"]
    /\ SetSolvingState("ABORTING")
    /\ UNCHANGED <<main, handed, crashes>>

\* Job::pushRevision, when the worker has received the next revision it asked for
PushRevision ==
    /\ job.state # "PAST" /\ main = "idle" /\ job.revision < job.desired
    /\ job' = [job EXCEPT !.revision = @ + 1]
    /\ UNCHANGED <<adapter, hsm, proc, main, handed, crashes>>

(***************************************************************************)
(* Clause buffers                                                          *)
(***************************************************************************)
\* HordeProcessAdapter::doDigest and doReturnClauses
PutBuffer(h, a, c, b) ==
    [h EXCEPT !.buffer[c] = b, !.do[c] = TRUE,
              !.bufferRevision = IF c = "import" THEN a.desired ELSE @]

\* digestClauses and returnClauses, as the clause communicator calls them: a buffer goes to
\* shared memory, or is deferred while the previous one is there
HandOver(c) ==
    /\ job.state = "ACTIVE" /\ main = "idle" /\ handed < MaxBuffers
    /\ adapter.initialized /\ (c = "import" => hsm.isInitialized)
    /\ handed' = handed + 1
    /\ LET a == [adapter EXCEPT !.given[c] = Append(@, handed')] IN
       IF hsm.do[c]
       THEN /\ adapter' = [a EXCEPT !.deferred[c] = Append(@, handed')]
            /\ UNCHANGED hsm
       ELSE adapter' = a /\ hsm' = PutBuffer(hsm, a, c, handed')
    /\ UNCHANGED <<job, proc, main, crashes>>

\* AnytimeSatClauseCommunicator::canSendClauses orders a buffer if none is ready
CollectClauses ==
    /\ job.state = "ACTIVE" /\ main = "idle" /\ adapter.initialized
    /\ ~hsm.didExport /\ ~hsm.doExport /\ handed < MaxBuffers
    /\ hsm' = [hsm EXCEPT !.doExport = TRUE]
    /\ handed' = handed + 1
    /\ UNCHANGED <<job, adapter, proc, main, crashes>>

\* The communicator copies the exported buffer and clears the request
GetCollectedClauses ==
    /\ job.state = "ACTIVE" /\ main = "idle" /\ adapter.initialized
    /\ hsm.isInitialized /\ hsm.didExport
    /\ hsm' = [hsm EXCEPT !.doExport = FALSE]
    /\ UNCHANGED <<job, adapter, proc, main, handed, crashes>>

(***************************************************************************)
(* HordeProcessAdapter::check, in two parts: everything before the test of *)
(* hasSolution, and everything from the test of solutionRevision on        *)
(***************************************************************************)
\* Mutation of Acknowledged: requests are withdrawn unanswered.
Acknowledged_Always(h) ==
    [h EXCEPT !.do = [c \in Channels |-> FALSE], !.doStart = FALSE]

Acknowledged(h) ==
    [h EXCEPT !.do = [c \in Channels |-> h.do[c] /\ ~h.did[c]],
              !.doStart = h.doStart /\ ~h.didStart]

\* Mutation of Publishes: revisions that are not written yet count, too.
Publishes_Queued(h, a) == ~h.doStart /\ ~h.didStart /\ a.published < a.written + Len(a.toWrite)

\* Mutation of Publishes: the last answer need not be withdrawn.
Publishes_WithoutDid(h, a) == ~h.doStart /\ a.published < a.written

Publishes(h, a) == ~h.doStart /\ ~h.didStart /\ a.published < a.written
Undefers(h, a, c) == ~h.do[c] /\ ~h.did[c] /\ a.deferred[c] # <<>>

PublishedHsm(h, a) ==
    IF Publishes(h, a) THEN [h EXCEPT !.desired = a.desired, !.doStart = TRUE] ELSE h
UndeferredHsm(h, a, c) ==
    IF Undefers(h, a, c) THEN PutBuffer(h, a, c, Head(a.deferred[c])) ELSE h

CheckedHsm(h, a) ==
    UndeferredHsm(UndeferredHsm(PublishedHsm(Acknowledged(h), a), a, "import"), a, "return")

CheckedAdapter(h, a) ==
    [DoWriteRevisions(a) EXCEPT
        !.published = IF Publishes(Acknowledged(h), a) THEN @ + 1 ELSE @,
        !.deferred = [c \in Channels |-> IF Undefers(Acknowledged(h), a, c)
                                         THEN Tail(a.deferred[c]) ELSE a.deferred[c]],
        !.future = @ /\ a.preparing]

\* ForkedSatJob::appl_solved up to that point. A child that died of a signal is replaced
\* by a new one; one that exited with status 0 is not looked at any further.
ApplSolved ==
    /\ job.state = "ACTIVE" /\ main = "idle"
    /\ LET j == LoadIncrementsJob(job)
           a == LoadIncrementsAdapter(job, adapter) IN
       CASE j.doneLocally \/ ~a.initialized ->
                job' = j /\ adapter' = a /\ UNCHANGED <<hsm, proc, main>>
         [] ~j.doneLocally /\ a.initialized /\ proc.pc = "crashed" ->
                /\ job' = RestartedJob(j) /\ adapter' = StartedAdapter(j)
                /\ hsm' = NewHsm /\ proc' = NewProc /\ UNCHANGED main
         [] OTHER ->
                /\ job' = j /\ adapter' = CheckedAdapter(hsm, a) /\ hsm' = CheckedHsm(hsm, a)
                /\ main' = (IF hsm.hasSolution THEN "checking" ELSE "idle") /\ UNCHANGED proc
    /\ UNCHANGED <<handed, crashes>>

\* Mutation of IsPrepared: of any revision.
IsPrepared_Any == adapter.preparedRevision # None

\* Is the solution prepared last the one that is wanted?
IsPrepared == adapter.preparedRevision = adapter.desired

\* ForkedSatJob::appl_solved, on FOUND_RESULT
FoundResult(j) ==
    [j EXCEPT !.doneLocally = TRUE,
              !.results = Append(@, [revision |-> j.revision, solution |-> adapter.solution,
                                     early |-> adapter.early])]

CheckSolution ==
    /\ main = "checking" /\ main' = "idle"
    /\ CASE hsm.solutionRevision # adapter.desired \/ adapter.preparing ->
                UNCHANGED <<job, adapter>>
         [] hsm.solutionRevision = adapter.desired /\ ~adapter.preparing /\ IsPrepared ->
                job' = FoundResult(job) /\ UNCHANGED adapter
         [] OTHER ->
                /\ adapter' = IF adapter.future THEN adapter
                              ELSE [adapter EXCEPT !.preparedRevision = adapter.desired,
                                                   !.preparing = TRUE, !.future = TRUE,
                                                   !.early = ~hsm.hasSolution]
                /\ UNCHANGED job
    /\ UNCHANGED <<hsm, proc, handed, crashes>>

\* The background task reads size, result and vector. A block that is not there is a null
\* pointer; a size of zero gives an empty vector, an unfilled block one of zeros. Where the
\* child goes on meanwhile the outcome is that of a later start.
DoPrepareSolution ==
    /\ adapter.preparing
    /\ LET rev == adapter.preparedRevision
           stage == hsm.solutions[rev] IN
       IF stage \in {"none", "sized"} THEN main' = "fault" /\ UNCHANGED adapter
       ELSE /\ adapter' = [adapter EXCEPT
                   !.preparing = FALSE,
                   !.solution = [vector |-> IF stage = "whole" \/ rev \notin Satisfiable
                                            THEN rev ELSE None,
                                 result |-> hsm.result]]
            /\ UNCHANGED main
    /\ UNCHANGED <<job, hsm, proc, handed, crashes>>

(***************************************************************************)
(* Cleaning up                                                             *)
(***************************************************************************)
\* Mutation of ChildExited: does not wait for the child.
ChildExited_NoWait ==
    /\ job.state = "PAST" /\ adapter.initialized /\ ~adapter.terminate
    /\ adapter' = [adapter EXCEPT !.terminate = TRUE]
    /\ UNCHANGED <<job, hsm, proc, main, handed, crashes>>

\* waitUntilChildExited has returned, and freeSharedMemory sets _terminate
ChildExited ==
    /\ job.state = "PAST" /\ adapter.initialized /\ ~adapter.terminate
    /\ proc.pc \in {"exited", "crashed"}
    /\ adapter' = [adapter EXCEPT !.terminate = TRUE]
    /\ UNCHANGED <<job, hsm, proc, main, handed, crashes>>

FreeSharedMemory ==
    /\ adapter.terminate /\ ~job.freed /\ ~adapter.writer /\ ~adapter.preparing
    /\ job' = [job EXCEPT !.freed = TRUE]
    /\ hsm' = [hsm EXCEPT !.blocks = {}, !.solutions = NewHsm.solutions]
    /\ UNCHANGED <<adapter, proc, main, handed, crashes>>

(***************************************************************************)
(* The child: HordeProcess::run                                            *)
(***************************************************************************)
Exit == proc' = [proc EXCEPT !.pc = "exited"] /\ UNCHANGED hsm
Proceed == proc' = [proc EXCEPT !.pc = After(proc.pc), !.busy = FALSE]

Begin ==
    /\ proc.pc = "begin" /\ hsm.doBegin
    /\ IF hsm.doTerminate THEN Exit
       ELSE /\ proc' = [proc EXCEPT !.pc = "startup", !.desired = adapter.firstrev]
            /\ UNCHANGED hsm

CheckTerminate ==
    /\ proc.pc = "terminate"
    /\ IF hsm.doTerminate THEN Exit ELSE Proceed /\ UNCHANGED hsm

\* One iteration of importRevisions, in the startup phase and in the main loop. A block
\* that does not exist makes the process exit with status 0.
ImportRevision ==
    /\ proc.pc \in {"startup", "revisions"} /\ ~proc.busy
    /\ LET isNew == hsm.doStart /\ ~hsm.didStart
           waits == proc.last < proc.desired IN
       CASE (isNew \/ waits) /\ hsm.doTerminate -> Exit
         [] isNew /\ ~hsm.doTerminate /\ proc.last + 1 \notin hsm.blocks -> Exit
         [] isNew /\ ~hsm.doTerminate /\ proc.last + 1 \in hsm.blocks ->
                /\ proc' = [proc EXCEPT !.last = @ + 1, !.desired = hsm.desired,
                                        !.found = FALSE, !.busy = TRUE]
                /\ hsm' = [hsm EXCEPT !.didStart = TRUE]
         [] OTHER ->
                /\ hsm' = [hsm EXCEPT !.didStart = @ /\ hsm.doStart]
                /\ IF waits THEN UNCHANGED proc
                   ELSE IF proc.pc = "startup"
                   THEN proc' = [proc EXCEPT !.pc = "terminate", !.started = TRUE]
                   ELSE Proceed

ResetSolution ==
    /\ proc.pc \in {"startup", "revisions"} /\ proc.busy
    /\ hsm' = [hsm EXCEPT !.hasSolution = FALSE]
    /\ proc' = [proc EXCEPT !.busy = FALSE]

\* The export buffer is being written while busy
Export ==
    /\ proc.pc = "export"
    /\ IF proc.busy THEN hsm' = [hsm EXCEPT !.didExport = TRUE] /\ Proceed
       ELSE IF hsm.doExport /\ ~hsm.didExport
       THEN proc' = [proc EXCEPT !.busy = TRUE] /\ UNCHANGED hsm
       ELSE hsm' = [hsm EXCEPT !.didExport = @ /\ hsm.doExport] /\ Proceed

\* Mutation of Wanted: also a buffer that was read.
Wanted_Again(c) == hsm.do[c] /\ (c = "import" => hsm.bufferRevision <= proc.last)

\* Is there a buffer to read? Clauses "from the future" have to wait.
Wanted(c) ==
    hsm.do[c] /\ ~hsm.did[c] /\ (c = "import" => hsm.bufferRevision <= proc.last)

\* The buffer is being read while busy
Digest(c) ==
    /\ proc.pc = c
    /\ IF proc.busy THEN hsm' = [hsm EXCEPT !.did[c] = TRUE] /\ Proceed
       ELSE IF Wanted(c)
       THEN /\ proc' = [proc EXCEPT !.busy = TRUE,
                                    !.digested[c] = Append(@, hsm.buffer[c])]
            /\ UNCHANGED hsm
       ELSE hsm' = [hsm EXCEPT !.did[c] = @ /\ hsm.do[c]] /\ Proceed

\* The solver threads may or may not all be set up by now
SetInitialized ==
    /\ proc.pc = "initialized" /\ Proceed
    /\ \/ hsm' = [hsm EXCEPT !.isInitialized = TRUE]
       \/ ~hsm.isInitialized /\ UNCHANGED hsm

\* The next of the blocks of a solution, or what is put into it
Written(stage, rev) ==
    CASE stage = "none" -> "empty"
      [] stage = "empty" /\ rev \in Satisfiable -> "sized"
      [] stage = "sized" -> "allocated"
      [] OTHER -> "whole"

\* Mutation of IsWritten: the size is enough, the vector is not waited for.
IsWritten_Size == hsm.solutions[proc.last] \notin {"none", "empty"}

IsWritten == hsm.solutions[proc.last] = "whole"

\* A solution is written while busy: first its revision and its result (no one reads the
\* result before there is a size), then its blocks one after the other, and at last the flag
\* that announces it
Solve ==
    /\ proc.pc = "solve"
    /\ IF proc.busy /\ IsWritten
       THEN /\ hsm' = [hsm EXCEPT !.hasSolution = TRUE]
            /\ proc' = [proc EXCEPT !.pc = "terminate", !.busy = FALSE, !.lastSolved = proc.last]
       ELSE IF proc.busy
       THEN /\ hsm' = [hsm EXCEPT !.solutions[proc.last] = Written(@, proc.last)]
            /\ UNCHANGED proc
       ELSE IF /\ proc.lastSolved # proc.last /\ proc.found
               /\ ~hsm.doTerminate /\ proc.last >= proc.desired
       THEN /\ hsm' = [hsm EXCEPT !.solutionRevision = proc.last, !.result = proc.last]
            /\ proc' = [proc EXCEPT !.busy = TRUE]
       ELSE Proceed /\ UNCHANGED hsm

Child ==
    /\ Running
    /\ \/ Begin \/ CheckTerminate \/ ImportRevision \/ ResetSolution \/ Export
       \/ (\E c \in Channels : Digest(c)) \/ SetInitialized \/ Solve
    /\ UNCHANGED <<job, adapter, main, handed, crashes>>

\* A solver thread finds a result for the revision imported last
FindResult ==
    /\ Running /\ proc.started /\ ~proc.found
    /\ proc' = [proc EXCEPT !.found = TRUE]
    /\ UNCHANGED <<job, adapter, hsm, main, handed, crashes>>

\* The child dies: of a crash, or of the SIGUSR2 it raises to be restarted because its
\* solvers are not incremental (HordeLib::appendRevision)
Crash ==
    /\ Running /\ crashes < MaxCrashes
    /\ crashes' = crashes + 1
    /\ proc' = [proc EXCEPT !.pc = "crashed", !.busy = FALSE]
    /\ UNCHANGED <<job, adapter, hsm, main, handed>>

(***************************************************************************)
(* The specification                                                       *)
(***************************************************************************)
\* appl_start on a node that has received some of the revisions it wants
Init ==
    \E r \in Revisions : \E d \in r..MaxRevision :
        LET j == [state |-> "ACTIVE", revision |-> r, desired |-> d, forwarded |-> 0,
                  doneLocally |-> FALSE, results |-> <<>>, freed |-> FALSE] IN
        /\ job = RestartedJob(j) /\ adapter = StartedAdapter(j)
        /\ hsm = NewHsm /\ proc = NewProc
        /\ main = "idle" /\ handed = 0 /\ crashes = 0

Writer == WriteBlocks \/ MarkWritten \/ EndWriter
Main == ApplSolved \/ CheckSolution
Destruction == ChildExited \/ FreeSharedMemory
\* Background tasks other than the writer; each comes to an end
Tasks == DoInitialize \/ DoPrepareSolution \/ Destruction

Next ==
    \/ Main \/ Writer \/ Tasks
    \/ ApplSuspend \/ (\E d \in Revisions : ApplResume(d)) \/ ApplTerminate \/ PushRevision
    \/ (\E c \in Channels : HandOver(c)) \/ CollectClauses \/ GetCollectedClauses
    \/ Child \/ FindResult \/ Crash

Spec == Init /\ [][Next]_vars

\* The worker's main loop polls its active job, pool threads run the tasks they are given,
\* the operating system schedules the child, and a solver that may run long enough finishes
Fairness ==
    /\ WF_vars(Main) /\ WF_vars(Child) /\ WF_vars(FindResult)
    /\ WF_vars(Writer) /\ WF_vars(Tasks)

FairSpec == Spec /\ Fairness

(***************************************************************************)
(* Properties                                                              *)
(***************************************************************************)
Elements(s) == {s[i] : i \in DOMAIN s}

\* Every variable has its type
TypeOK ==
    /\ job \in [state : {"ACTIVE", "SUSPENDED", "PAST"}, revision : Revisions,
                desired : Revisions, forwarded : Revisions, doneLocally : BOOLEAN,
                results : Seq([revision : Revisions,
                               solution : [vector : Revisions \union {None},
                                           result : Revisions],
                               early : BOOLEAN]),
                freed : BOOLEAN]
    /\ job.forwarded <= job.revision /\ job.revision <= job.desired
    /\ main \in {"idle", "checking", "fault"}
    /\ proc.pc \in Elements(Loop) \union {"none", "begin", "startup", "exited", "crashed"}
    /\ proc.last \in Revisions /\ proc.lastSolved \in Revisions \union {None}
    /\ adapter.toWrite \in Seq(Revisions) /\ adapter.desired \in Revisions
    /\ hsm.blocks \subseteq Revisions /\ hsm.solutions \in [Revisions -> Stages]
    /\ handed \in 0..MaxBuffers /\ crashes \in 0..MaxCrashes

\* The child ends with status 0 only when it was asked to terminate. accessMemory also exits
\* with status 0 when a block is missing, which check() does not take for a crash: the job
\* would wait for that process forever. So each revision has to be written before it is
\* published, published once, and imported once, restarts and late revisions included. All variables
\* keep their types.
NoSilentExit == TypeOK /\ (proc.pc = "exited" => hsm.doTerminate)

\* Result code and vector belong to the revision; only an early preparation misses the vector
OfRevision(solution, rev, early) ==
    /\ solution.result = rev
    /\ solution.vector = rev \/ (early /\ solution.vector = None)

\* A result that appl_solved reports carries the number of the revision that its solution
\* vector and its result code both belong to, although vector, code and number are read from
\* three places at three times, while the child may go on to the next revision. The vector is
\* complete, unless its preparation began in the middle of the child's work: check() had seen
\* the flag of the solution before and the number of this one (see WholeVectors). No revision
\* is reported twice and none after a later one, also not by a process that was started after
\* a crash and solves everything again
ResultOfItsRevision ==
    \A i, k \in DOMAIN job.results :
        LET r == job.results[i] IN
        /\ OfRevision(r.solution, r.revision, r.early)
        /\ i < k => r.revision < job.results[k].revision

\* Whatever the child has announced by hasSolution can be read: doPrepareSolution, which tests
\* no pointer, meets a block that is not there only if hasSolution was reset again between the
\* two tests of check() that begin the preparation
AnnouncedIsThere == main = "fault" => adapter.early

\* Parent and child never use a clause buffer at the same time: while the child reads an
\* import or return buffer the parent defers the next one, and while it writes the export
\* buffer the parent takes nothing
BufferExclusion ==
    /\ \A c \in Channels : proc.busy /\ proc.pc = c => hsm.do[c]
    /\ proc.busy /\ proc.pc = "export" => ~hsm.didExport

\* The handshake never lets the child digest the same clause buffer twice
DigestedOnce ==
    \A c \in Channels : Cardinality(Elements(proc.digested[c])) = Len(proc.digested[c])

\* Once there is a child, it is stopped exactly while its job is suspended, no matter whether
\* the job was suspended or resumed before, during or after the start (or restart) of the child
StoppedIffSuspended ==
    Alive => (proc.stopped <=> job.state = "SUSPENDED")

\* When a job's shared memory was freed, nobody is left who uses it: not the child, not the
\* writer of revisions, not the task that prepares the solution
FreedUnused ==
    job.freed => ~Alive /\ ~adapter.writer /\ ~adapter.preparing

Reported(rev) == \E i \in DOMAIN job.results : job.results[i].revision = rev

\* No obligation is left open forever. A job that stays active and has the revision it wants
\* reports a result for it, in spite of crashes, restarts, and revisions that arrive before
\* the child is there. The shared memory of a terminated job is freed, whatever its child was
\* doing: not yet forked, waiting for a revision, stopped, or dead. (Excepted is a worker
\* that faulted in doPrepareSolution.)
ObligationsMet ==
    []<>~(/\ main # "fault"
          /\ \/ job.state = "ACTIVE" /\ job.revision = job.desired /\ ~Reported(job.desired)
             \/ job.state = "PAST" /\ ~job.freed)

\* A clause buffer that the adapter has accepted for a living child is in shared memory, in
\* the deferred list, or was digested (digestClauses: "Cannot import right now -- defer into
\* temporary storage")
BuffersKept ==
    Alive => \A c \in Channels :
        Elements(adapter.given[c]) \subseteq Elements(proc.digested[c])
            \union Elements(adapter.deferred[c])
            \union (IF hsm.do[c] THEN {hsm.buffer[c]} ELSE {})

\* The block of the solution that is being prepared exists (doPrepareSolution: "ACCESS the
\* existing shared memory segment")
PreparedExists == main # "fault"

\* A reported vector is complete (check: "Correct solution prepared successfully?")
WholeVectors == \A i \in DOMAIN job.results : job.results[i].solution.vector # None
=============================================================================
