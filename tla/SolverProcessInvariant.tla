----------------------- MODULE SolverProcessInvariant ------------------------
(***************************************************************************)
(* The inductive invariant of SolverProcess, which SolverProcessProofs     *)
(* proves.                                                                 *)
(***************************************************************************)
EXTENDS SolverProcess, Functions

OptRevision == Revisions \union {None}

ResultType == [revision : Revisions, solution : [vector : OptRevision, result : Revisions],
               early : BOOLEAN]

JobType ==
    [state : {"ACTIVE", "SUSPENDED", "PAST"}, revision : Revisions, desired : Revisions,
     forwarded : Revisions, doneLocally : BOOLEAN,
     results : Seq(ResultType), freed : BOOLEAN]

AdapterType ==
    [initialized : BOOLEAN, state : {"INITIALIZING", "ACTIVE", "SUSPENDED", "ABORTING"},
     terminate : BOOLEAN, firstrev : Revisions, desired : Revisions,
     toWrite : Seq(Revisions), writer : BOOLEAN, writing : OptRevision,
     written : Revisions, published : Revisions,
     deferred : [Channels -> Seq(Nat)], given : [Channels -> Seq(Nat)],
     preparing : BOOLEAN, future : BOOLEAN, preparedRevision : OptRevision,
     early : BOOLEAN, solution : [vector : OptRevision, result : OptRevision]]

HsmType ==
    [doBegin : BOOLEAN, doTerminate : BOOLEAN, doExport : BOOLEAN, didExport : BOOLEAN,
     do : [Channels -> BOOLEAN], did : [Channels -> BOOLEAN],
     buffer : [Channels -> Nat], bufferRevision : Revisions,
     doStart : BOOLEAN, didStart : BOOLEAN, desired : Revisions,
     isInitialized : BOOLEAN, hasSolution : BOOLEAN,
     solutionRevision : OptRevision, result : OptRevision,
     blocks : SUBSET Revisions, solutions : [Revisions -> Stages]]

PC == {"terminate", "revisions", "export", "import", "return", "initialized", "solve",
       "none", "begin", "startup", "exited", "crashed"}

ProcType ==
    [pc : PC, busy : BOOLEAN, stopped : BOOLEAN, started : BOOLEAN, last : Revisions,
     desired : Revisions, found : BOOLEAN, lastSolved : OptRevision,
     digested : [Channels -> Seq(Nat)]]

Types ==
    /\ job \in JobType /\ adapter \in AdapterType /\ hsm \in HsmType /\ proc \in ProcType
    /\ main \in {"idle", "checking", "fault"}
    /\ handed \in 0..MaxBuffers /\ crashes \in 0..MaxCrashes

\* Who is there, who is stopped, and who may still use the shared memory
Lifecycle ==
    /\ adapter.initialized <=> proc.pc # "none"
    /\ adapter.state = "SUSPENDED" <=> job.state = "SUSPENDED"
    /\ Alive => (proc.stopped <=> job.state = "SUSPENDED")
    /\ main = "checking" => job.state = "ACTIVE" /\ adapter.initialized
    /\ adapter.terminate => job.state = "PAST" /\ proc.pc \in {"exited", "crashed"}
    /\ job.freed => adapter.terminate /\ ~adapter.writer /\ ~adapter.preparing
    /\ proc.pc = "exited" => hsm.doTerminate

\* The revision whose blocks were written last
Front(a) == IF a.writing = None THEN a.written ELSE a.writing

\* The writer's queue holds the revisions between the one written last and the one forwarded
\* last, in their order
Queue(j, a) ==
    /\ j.forwarded <= j.revision /\ j.revision <= j.desired
    /\ j.forwarded <= a.desired /\ a.desired <= j.desired
    /\ \A i \in DOMAIN a.toWrite : a.toWrite[i] = Front(a) + i
    /\ j.forwarded = Front(a) + Len(a.toWrite)

\* The way of a revision: description, queue of the writer, blocks, publication, child.
\* None is left out or taken twice at any of these stations.
Pipeline ==
    /\ Queue(job, adapter)
    /\ adapter.writing # None => adapter.writing = adapter.written + 1 /\ adapter.writer
    /\ ~adapter.initialized => /\ adapter.written = 0 /\ adapter.published = 0
                               /\ ~adapter.writer /\ ~adapter.preparing
                               /\ adapter.preparedRevision = None
                               /\ proc.last = 0
    /\ adapter.published <= adapter.written
    /\ proc.last = IF hsm.doStart /\ ~hsm.didStart THEN adapter.published - 1 ELSE adapter.published
    /\ Alive => 0..Front(adapter) \subseteq hsm.blocks

\* The way of a solution back
Solution ==
    /\ hsm.result = hsm.solutionRevision /\ hsm.solutionRevision <= proc.last
    /\ adapter.preparedRevision <= adapter.desired
    /\ adapter.preparing => adapter.preparedRevision # None
    /\ adapter.preparedRevision = adapter.desired =>
          /\ hsm.result = adapter.desired
          /\ ~adapter.preparing => OfRevision(adapter.solution, adapter.desired, adapter.early)

\* While hasSolution is set, the solution it announces is complete: the flag is reset before
\* the next revision can be solved, and set after the last block was filled. So a preparation
\* that begins while it is set finds everything.
Announced ==
    /\ proc.busy /\ proc.pc = "solve" => hsm.solutionRevision = proc.last
    /\ Alive /\ hsm.hasSolution => \/ proc.lastSolved = proc.last
                                   \/ proc.busy /\ proc.pc \in {"startup", "revisions"}
    /\ hsm.hasSolution /\ ~job.freed => /\ hsm.solutionRevision # None
                                        /\ hsm.solutions[hsm.solutionRevision] = "whole"
    /\ adapter.preparing /\ ~adapter.early => hsm.solutions[adapter.preparedRevision] = "whole"
    /\ AnnouncedIsThere

\* Nothing was reported that is newer than what the child has been given, and while there is
\* something to solve all of it is older
Reports ==
    /\ main = "checking" => job.forwarded = job.revision /\ ~job.doneLocally
    /\ \A i \in DOMAIN job.results :
          /\ job.results[i].revision <= job.forwarded
          /\ ~job.doneLocally => job.results[i].revision < job.forwarded
    /\ ResultOfItsRevision

\* A buffer that is waiting or may still be read is not among those that were read
BuffersOf(c) ==
    /\ proc.busy /\ proc.pc = c => hsm.do[c] /\ ~hsm.did[c]
    /\ IsInjective(adapter.deferred[c]) /\ IsInjective(proc.digested[c])
    /\ Elements(adapter.deferred[c]) \subseteq 0..handed
    /\ Elements(proc.digested[c]) \subseteq 0..handed
    /\ Elements(adapter.deferred[c]) \intersect Elements(proc.digested[c]) = {}
    /\ hsm.buffer[c] <= handed
    /\ hsm.do[c] /\ ~hsm.did[c] => hsm.buffer[c] \notin Elements(adapter.deferred[c])
    /\ Alive /\ hsm.do[c] /\ ~hsm.did[c] /\ ~(proc.busy /\ proc.pc = c) =>
          hsm.buffer[c] \notin Elements(proc.digested[c])

Clauses ==
    /\ proc.busy /\ proc.pc = "export" => ~hsm.didExport
    /\ \A c \in Channels : BuffersOf(c)

IInv == Types /\ Lifecycle /\ Pipeline /\ Solution /\ Reports /\ Clauses
=============================================================================
