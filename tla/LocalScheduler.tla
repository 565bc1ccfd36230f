--------------------------- MODULE LocalScheduler ---------------------------
(***************************************************************************)
(* Reactivation-based scheduling (scheduling/*.hpp), option -rs=1.  An     *)
(* active node of a job tree has a scheduler with a session for each of    *)
(* its two child positions.  A session keeps the inactive nodes of its     *)
(* subtree: workers that have computed for the job and are likely to be    *)
(* wanted again.  A child that joins is handed the part of the list below  *)
(* it, and hands it back, with itself, when it is suspended.  An inactive  *)
(* worker whose position is wanted again waits until it is asked to rejoin *)
(* or released from waiting.                                               *)
(*                                                                         *)
(* The operators are functions on a scheduler record sc.  What an operator *)
(* sends is appended to sc.out, and sc.ok tells whether the assertions of  *)
(* the code have held; the caller moves both on.                           *)
(***************************************************************************)
EXTENDS Integers, Sequences, FiniteSets

CONSTANTS
    None,           \* no rank, no job, no request, no session
    Workers,        \* ranks that run a Worker
    Client,         \* the rank of the client
    Jobs,
    Permutation     \* per job the permutation of the ranks that its tree is laid out by

Ranks == Workers \cup {Client}

\* AdjustablePermutation::get, for an index that has not been adjusted
NodeRank(j, i) == Permutation[j][i % Cardinality(Workers)]

\* At most this many inactive nodes are asked to rejoin, in one epoch, for one position
MaxQueries == 4

\* InactiveJobNode.  rank, index and epoch identify a node in a list; status does not.
InactiveNode(rank, index, epoch, status) ==
    [rank |-> rank, index |-> index, epoch |-> epoch, status |-> status]

InactiveNodes == [rank : Workers, index : Nat, epoch : Int, status : {"AVAILABLE", "BUSY", "LOST"}]

SameNode(m, n) == m.rank = n.rank /\ m.index = n.index /\ m.epoch = n.epoch

\* InactiveJobNode::operator<
Before(m, n) ==
    \/ m.index < n.index
    \/ m.index = n.index /\ m.epoch > n.epoch
    \/ m.index = n.index /\ m.epoch = n.epoch /\ m.rank < n.rank
-----------------------------------------------------------------------------
(***************************************************************************)
(* InactiveJobNodeList: a set of nodes.                                    *)
(***************************************************************************)
\* std::set::insert: an entry that is there already stays as it is
Insert(list, nodes) == list \cup {n \in nodes : \A m \in list : ~SameNode(m, n)}

\* mergePreferringNewer and filterDuplicates: of each rank the newest entry is kept, and
\* of equally new ones that of the smallest index
MergePreferringNewer(list, other) ==
    LET all == Insert(list, other)
    IN {n \in all : \A m \in all : m.rank = n.rank /\ m # n =>
           m.epoch < n.epoch \/ (m.epoch = n.epoch /\ n.index < m.index)}

\* The indices k layers below index i
Layer(i, k) == (2^k * (i + 1) - 1)..(2^k * (i + 2) - 2)

\* extractSubtree, without the subtree's root: what is extracted, not what remains
Subtree(list, i) == {n \in list : \E k \in 1..n.index : n.index \in Layer(i, k)}

\* cleanUpStatuses
CleanUpStatuses(list) ==
    {[n EXCEPT !.status = "AVAILABLE"] : n \in {m \in list : m.status # "LOST"}}

\* JobSchedulingUpdate::split: the nodes for the right child of index i.  Nodes that are
\* not below i are dealt out in turn, the right child first.
SplitRight(list, i) ==
    LET others == {n \in list : n.index < 2 * i + 1}
    IN {n \in list :
           IF n \in others THEN Cardinality({m \in others : Before(m, n)}) % 2 = 0
           ELSE \E k \in 0..n.index : /\ 2^k * (2 * i + 3) - 2 < n.index
                                      /\ n.index <= 2^k * (2 * i + 4) - 2}
-----------------------------------------------------------------------------
(***************************************************************************)
(* ChildInterface: the session sc.sessions[c] for the left (c = 1) or the  *)
(* right (c = 2) child of the node.                                        *)
(***************************************************************************)
ChildIndex(sc, c) == 2 * sc.index + c
ParentIndex(i) == (i - 1) \div 2

NewSession(nodes) == [nodes |-> nodes, epoch |-> -1, volume |-> -1, childRank |-> None,
                      queried |-> 0, childHasNodes |-> FALSE]

Sessions == [nodes : SUBSET InactiveNodes, epoch : Int, volume : Int, childRank : Ranks \cup {None},
             queried : Nat, childHasNodes : BOOLEAN]

\* What a scheduler sends; a request is emitted through the job, which completes it
SchedulerMessages ==
    [tag : {"EMIT_REQUEST"}, index : Nat, epoch : Int, targeted : BOOLEAN]
    \cup [tag : {"RELEASE"}, job : Jobs, index : Nat, epoch : Int]
    \cup [tag : {"INITIALIZE_CHILD"}, job : Jobs, index : Nat, epoch : Int, volume : Int,
          nodes : SUBSET InactiveNodes]
    \cup [tag : {"RETURN_NODES"}, job : Jobs, index : Int, nodes : SUBSET InactiveNodes]

\* What has been sent, by destination
NothingSent == [r \in Ranks |-> <<>>]

Out(sc, dest, msg) == [sc EXCEPT !.out[dest] = Append(@, msg)]

\* Mutant: the last position below the volume is not wanted
SessionWantsChild_OneLess(sc, c) == ChildIndex(sc, c) + 1 < sc.sessions[c].volume

SessionWantsChild(sc, c) == ChildIndex(sc, c) < sc.sessions[c].volume

\* notifyRemainingInactiveNodes, for the nodes with one of the given indices.  A list has
\* one entry of a rank, so that the order in which they are told does not matter.
Release(sc, c, indices) ==
    LET s == sc.sessions[c]
        due == {n \in s.nodes : n.status = "AVAILABLE" /\ n.index \in indices}
    IN [sc EXCEPT
           !.sessions[c].nodes = (@ \ due) \cup {[n EXCEPT !.status = "BUSY"] : n \in due},
           !.out = [r \in Ranks |->
               IF \A n \in due : n.rank # r THEN @[r]
               ELSE Append(@[r], [tag |-> "RELEASE", job |-> sc.job,
                                  index |-> (CHOOSE n \in due : n.rank = r).index, epoch |-> s.epoch])]]

\* recruitChild: ask the first available node that has had the position, or let a request
\* find any worker
RecruitChild(sc, c) ==
    LET s == sc.sessions[c]
        index == ChildIndex(sc, c)
        usable == {n \in s.nodes : n.status = "AVAILABLE" /\ n.index = index}
        first == {n \in usable : \A m \in usable : m = n \/ Before(n, m)}
    IN IF s.queried < MaxQueries /\ first # {}
       THEN LET node == CHOOSE n \in first : TRUE
            IN Out([sc EXCEPT !.sessions[c] = [s EXCEPT !.childRank = node.rank, !.queried = s.queried + 1]],
                   node.rank, [tag |-> "EMIT_REQUEST", index |-> index, epoch |-> s.epoch,
                               targeted |-> TRUE])
       ELSE Out(Release(sc, c, {index}), NodeRank(sc.job, index),
                [tag |-> "EMIT_REQUEST", index |-> index, epoch |-> s.epoch, targeted |-> FALSE])

\* The status of a node in a new epoch with the given volume
Refreshed(n, volume) ==
    IF n.status = "LOST" THEN n
    ELSE [n EXCEPT !.status = IF n.index >= volume THEN "BUSY" ELSE "AVAILABLE"]

HandleBalancingUpdate(sc, c, epoch, volume, hasChild) ==
    LET s == sc.sessions[c]
        refreshed == [sc EXCEPT !.sessions[c] =
            [s EXCEPT !.queried = 0, !.epoch = epoch, !.volume = volume,
                      !.nodes = {Refreshed(n, volume) : n \in s.nodes}]]
    IN  IF epoch <= sc.sessions[c].epoch THEN sc
        ELSE IF ~hasChild /\ SessionWantsChild(refreshed, c) THEN RecruitChild(refreshed, c)
        ELSE Release(refreshed, c, Nat)

\* findAndUpdateNode: the newest entry of that rank and index
UpdateNode(nodes, rank, index, epoch, status) ==
    LET entries == {n \in nodes : n.rank = rank /\ n.index = index}
        node == CHOOSE n \in entries : \A m \in entries : m.epoch <= n.epoch
    IN IF entries = {} THEN nodes
       ELSE Insert(nodes \ {node}, {InactiveNode(rank, index, epoch, status)})

\* handleRejectionOfPotentialChild.  Whoever it was that rejected, the node asked last is
\* marked.
HandleRejection(sc, c, epoch, lost, hasChild) ==
    LET marked == [sc EXCEPT !.sessions[c].nodes =
            UpdateNode(@, sc.sessions[c].childRank, ChildIndex(sc, c), epoch,
                       IF lost THEN "LOST" ELSE "BUSY")]
    IN IF ~hasChild /\ ~sc.suspended /\ ~sc.suspending /\ SessionWantsChild(sc, c)
       THEN RecruitChild(marked, c) ELSE marked

\* Mutant: the session still knows the node it has asked
JoinSession_KeepsRank(sc, c, source, epoch) ==
    LET told == Out(sc, source, [tag |-> "INITIALIZE_CHILD", job |-> sc.job, index |-> ChildIndex(sc, c),
                                 epoch |-> epoch, volume |-> sc.sessions[c].volume, nodes |-> {}])
    IN Release([told EXCEPT !.sessions[c].childHasNodes = TRUE], c, Nat)

\* handleChildJoining: the child is given its subtree, the other nodes are released
JoinSession(sc, c, source, epoch) ==
    LET s == sc.sessions[c]
        index == ChildIndex(sc, c)
        below == Subtree(s.nodes, index)
        told == Out(sc, source, [tag |-> "INITIALIZE_CHILD", job |-> sc.job, index |-> index,
                                 epoch |-> epoch, volume |-> s.volume,
                                 nodes |-> CleanUpStatuses(below)])
    IN Release([told EXCEPT !.sessions[c] = [s EXCEPT
                   !.childRank = source, !.childHasNodes = TRUE,
                   !.nodes = UpdateNode(s.nodes \ below, source, index, epoch, "BUSY")]],
               c, Nat)
-----------------------------------------------------------------------------
(***************************************************************************)
(* LocalScheduler.                                                         *)
(***************************************************************************)
IsScheduler(sc) ==
    /\ DOMAIN sc = {"job", "index", "rank", "parent", "suspensionEpoch", "epoch", "volume",
                    "suspending", "suspended", "resuming", "sessions", "out", "ok"}
    /\ sc.job \in Jobs /\ sc.index \in Nat /\ sc.rank \in Workers /\ sc.parent \in Ranks \cup {None}
    /\ sc.suspensionEpoch \in Int /\ sc.epoch \in Int /\ sc.volume \in Int
    /\ sc.suspending \in BOOLEAN /\ sc.suspended \in BOOLEAN /\ sc.resuming \in BOOLEAN
    /\ sc.sessions \in [1..2 -> Sessions \cup {None}]
    /\ sc.out \in [Ranks -> Seq(SchedulerMessages)] /\ sc.ok \in BOOLEAN

NewScheduler(j, index, rank, parent) ==
    [job |-> j, index |-> index, rank |-> rank, parent |-> parent,
     suspensionEpoch |-> -1, epoch |-> -1, volume |-> -1,
     suspending |-> FALSE, suspended |-> TRUE, resuming |-> FALSE,
     sessions |-> <<None, None>>, out |-> NothingSent, ok |-> TRUE]

Asserted(sc, condition) == [sc EXCEPT !.ok = @ /\ condition]

IsActive(sc) == ~sc.suspended /\ ~sc.suspending
CanCommit(sc) == sc.suspended
ChildHasNodes(sc) == \E c \in 1..2 : sc.sessions[c].childHasNodes
CanReturn(sc) == sc.index # 0 /\ ~sc.suspended /\ sc.suspending /\ ~ChildHasNodes(sc)
CanResumeAsRoot(sc) == sc.resuming /\ ~ChildHasNodes(sc)

\* What both sessions hold, newest entries preferred
AllNodes(sc) ==
    MergePreferringNewer(MergePreferringNewer({}, sc.sessions[1].nodes), sc.sessions[2].nodes)

ReturnNodes(sc, dest, nodes) ==
    Out(sc, dest, [tag |-> "RETURN_NODES", job |-> sc.job, index |-> ParentIndex(sc.index),
                   nodes |-> nodes])

InitializeScheduling(sc, epoch, volume, nodes, parent) ==
    LET placed == [sc EXCEPT !.parent = parent]
        told == IF volume >= 0 /\ epoch > sc.epoch
                THEN [placed EXCEPT !.epoch = epoch, !.volume = volume] ELSE placed
        right == SplitRight(nodes, sc.index)
        opened == [Asserted(told, sc.sessions = <<None, None>>) EXCEPT
                      !.suspended = FALSE,
                      !.sessions = <<NewSession(nodes \ right), NewSession(right)>>]
    IN  IF sc.index > 0 /\ epoch <= sc.suspensionEpoch THEN ReturnNodes(placed, parent, nodes)
        ELSE IF opened.epoch < 0 THEN opened
        ELSE HandleBalancingUpdate(
                 HandleBalancingUpdate(opened, 1, opened.epoch, opened.volume, FALSE),
                 2, opened.epoch, opened.volume, FALSE)

\* Mutant: the node returns what it was given, but not itself
ReturnInactiveNodes_WithoutMe(sc) ==
    [ReturnNodes(sc, sc.parent, CleanUpStatuses(AllNodes(sc))) EXCEPT
        !.suspending = FALSE, !.suspended = TRUE, !.sessions = <<None, None>>]

\* returnInactiveJobNodesToParent
ReturnInactiveNodes(sc) ==
    LET me == InactiveNode(sc.rank, sc.index, sc.epoch, "AVAILABLE")
    IN [ReturnNodes(sc, sc.parent, CleanUpStatuses(Insert(AllNodes(sc), {me}))) EXCEPT
           !.suspending = FALSE, !.suspended = TRUE, !.sessions = <<None, None>>]

\* Mutant: a node without children waits for their nodes, too
BeginSuspension_Waits(sc, epoch) ==
    [sc EXCEPT !.suspensionEpoch = epoch, !.suspending = @ \/ ~sc.suspended]

BeginSuspension(sc, epoch) ==
    LET marked == [sc EXCEPT !.suspensionEpoch = epoch, !.suspending = @ \/ ~sc.suspended]
    IN IF ~sc.suspended /\ CanReturn(marked) THEN ReturnInactiveNodes(marked) ELSE marked

Larger(a, b) == IF a > b THEN a ELSE b

\* beginSuspension without an epoch
Suspension(sc) == BeginSuspension(sc, Larger(sc.epoch, sc.suspensionEpoch))

UpdateBalancing(sc, epoch, volume, hasLeft, hasRight) ==
    LET told == [sc EXCEPT !.epoch = epoch, !.volume = volume]
        updated == HandleBalancingUpdate(HandleBalancingUpdate(told, 1, epoch, volume, hasLeft),
                                         2, epoch, volume, hasRight)
    IN  IF sc.epoch >= epoch THEN sc
        ELSE IF ~IsActive(sc) THEN told
        ELSE IF volume <= sc.index /\ sc.index > 0 THEN BeginSuspension(updated, epoch)
        ELSE updated

\* resumeAsRoot
ResumeAsRoot(sc) ==
    LET awake == [sc EXCEPT !.resuming = FALSE, !.suspending = FALSE, !.sessions = <<None, None>>]
    IN InitializeScheduling(awake, Larger(sc.epoch, sc.suspensionEpoch), sc.volume,
                            CleanUpStatuses(AllNodes(sc)), sc.parent)

BeginResumptionAsRoot(sc) ==
    LET resuming == [sc EXCEPT !.resuming = TRUE]
    IN IF ~(sc.index = 0 /\ sc.suspending /\ ~sc.suspended) THEN Asserted(sc, FALSE)
       ELSE IF CanResumeAsRoot(resuming) THEN ResumeAsRoot(resuming)
       ELSE resuming

ResetRole(sc) ==
    [Asserted(sc, CanCommit(sc)) EXCEPT !.suspensionEpoch = -1, !.epoch = -1,
                                       !.sessions = <<None, None>>]

HasSession(sc, c) == sc.sessions[c] # None
AcceptsChild(sc, index) ==
    \E c \in 1..2 : HasSession(sc, c) /\ ChildIndex(sc, c) = index /\ SessionWantsChild(sc, c)

\* handle, for MSG_SCHED_RETURN_NODES.  The session is found by the rank of its child.
TakeBack(sc, source, nodes) ==
    LET children == {c \in 1..2 : HasSession(sc, c) /\ sc.sessions[c].childRank = source}
        c == CHOOSE x \in children : \A y \in children : x <= y
        s == sc.sessions[c]
    IN IF children = {} THEN sc
       ELSE [sc EXCEPT !.sessions[c] = [s EXCEPT !.nodes = MergePreferringNewer(s.nodes, nodes),
                                                 !.childHasNodes = FALSE]]

AfterMessage(sc) == IF CanResumeAsRoot(sc) THEN ResumeAsRoot(sc) ELSE sc

HandleSchedulingMessage(sc, source, m) ==
    LET handled == IF m.tag = "INITIALIZE_CHILD"
                   THEN InitializeScheduling(sc, m.epoch, m.volume, m.nodes, source)
                   ELSE TakeBack(sc, source, m.nodes)
    IN AfterMessage(IF CanReturn(handled) THEN ReturnInactiveNodes(handled) ELSE handled)

\* getSessionByChildIndex: the open session for the child of the given index, if there is one
SessionsFor(sc, index) == {c \in 1..2 : HasSession(sc, c) /\ ChildIndex(sc, c) = index}
SessionFor(sc, index) == CHOOSE c \in SessionsFor(sc, index) : TRUE

HandleRejectReactivation(sc, epoch, index, lost, hasChild) ==
    IF SessionsFor(sc, index) = {} THEN sc
    ELSE HandleRejection(sc, SessionFor(sc, index), epoch, lost, hasChild)

HandleChildJoining(sc, source, epoch, index) ==
    IF SessionsFor(sc, index) = {} THEN sc
    ELSE JoinSession(sc, SessionFor(sc, index), source, epoch)

\* handleNodeFreed and removeNode
HandleNodeFreed(sc, rank, epoch, index) ==
    [sc EXCEPT !.sessions = [c \in 1..2 |->
        IF sc.sessions[c] = None THEN None
        ELSE [sc.sessions[c] EXCEPT
                 !.nodes = {n \in @ : n.rank # rank \/ n.epoch # epoch \/ n.index # index}]]]
=============================================================================
