---------------------------- MODULE MessageQueue ----------------------------
(***************************************************************************)
(* The message queue of every rank (comm/message_queue.cpp): a message to  *)
(* another rank waits for a send slot and is sent in one piece or, if it   *)
(* is large, in fragments one after the other; the receiver collects       *)
(* fragments by source and id and a second thread assembles them, a third  *)
(* frees memory. A large message may be cancelled between two fragments.   *)
(*                                                                         *)
(* advance() calls four phases. Each finds nothing to do whenever MPI_Test *)
(* or tryLock says so, hence they occur here in any order, one message at  *)
(* a time. Callbacks may send: Send is possible between any two steps.     *)
(* Tags only select callbacks and are left out.                            *)
(***************************************************************************)
EXTENDS Integers, Sequences, FiniteSets, SequencesExt, FiniteSetsExt

CONSTANTS
    Ranks,
    Routes,        \* pairs <<source, destination>> that exchange messages
    Sizes,         \* sizes of messages, in units of data
    MaxMsgSize,    \* _max_msg_size
    MetaSize,      \* 3*sizeof(int), the meta data at the end of a fragment
    MaxConcurrent, \* _max_concurrent_sends
    FloatBits,     \* digits of a float's significand (24 in the code)
    MaxData        \* bound: sum of the sizes of the messages sent by all ranks

ASSUME QueueAssumption ==
    /\ Routes \subseteq Ranks \X Ranks /\ Sizes \subseteq Nat \ {0}
    /\ {MaxMsgSize, MetaSize, MaxConcurrent, FloatBits, MaxData} \subseteq Nat \ {0}

VARIABLES
    sent,       \* [rank]: the messages it has sent; an id is a position in this sequence
    sendQueue,  \* [rank]: _send_queue, the handles of the messages to other ranks
    slots,      \* [rank]: _num_concurrent_sends
    selfQueue,  \* [rank]: _self_recv_queue
    net,        \* [source, destination]: packets between MPI_Isend and MPI_Test
    fragments,  \* [rank]: _fragmented_messages
    complete,   \* [rank]: _fragmented_queue
    fused,      \* [rank]: _fused_queue
    garbage,    \* [rank]: _garbage_queue and _num_garbage
    received    \* [rank]: history of the messages given to callbacks

vars == <<sent, sendQueue, slots, selfQueue, net, fragments, complete, fused,
          garbage, received>>

Pairs == {p \in Routes : p[1] # p[2]}
Ids == 1..(MaxData \div Min(Sizes))
None == "none"

(***************************************************************************)
(* Sizes and fragments                                                     *)
(***************************************************************************)
\* A quotient of naturals as a float: rounded to FloatBits digits, ties to even. The
\* result is the pair <<n, d>> of the fraction n/d.
FloatOf(n, d) ==
    LET Scale == ({0} \X (0..FloatBits)) \union ((0..FloatBits) \X {0})
        s == CHOOSE s \in Scale :
               LET q == (n * 2^s[1]) \div (d * 2^s[2]) IN 2^(FloatBits - 1) <= q /\ q < 2^FloatBits
        num == n * 2^s[1]
        den == d * 2^s[2]
        q == num \div den
        up == 2 * (num % den) > den \/ (2 * (num % den) = den /\ q % 2 = 1)
    IN <<(IF up THEN q + 1 ELSE q) * 2^s[2], 2^s[1]>>

\* std::ceil(data->size() / (float)sizePerBatch): the size is rounded before the division,
\* the quotient after it
CeilOfFloatQuotient(size, batch) ==
    LET x == IF size < 2^FloatBits THEN size ELSE FloatOf(size, 1)[1]
        q == FloatOf(x, batch)
    IN (q[1] + q[2] - 1) \div q[2]

\* Number of fragments of a message, by its size
NumBatches ==
    [size \in Sizes |-> IF size <= MaxMsgSize + MetaSize THEN 1
                        ELSE CeilOfFloatQuotient(size, MaxMsgSize)]

Total(m) == NumBatches[m.size]
IsBatched(m) == Total(m) > 1
IsInitiated(h) == h.request # None
IsFinished(m, h) == h.sentBatches = Total(m)

\* Mutation of SendNext: a cancelled message is not marked as finished.
SendNext_CancelKeepsBatches(m, h) ==
    [h EXCEPT !.sentBatches = @ + 1, !.request = "pending"]

\* SendHandle::sendNext of the handle h of message m: the handle afterwards ...
SendNext(m, h) ==
    [h EXCEPT !.sentBatches = IF IsBatched(m) /\ m.cancelled THEN Total(m) ELSE @ + 1,
              !.request = "pending"]

\* ... and the packet given to MPI_Isend: a whole message, the marker of a cancelled
\* one, or the next fragment, that is the data from position from up to before position to
PacketOf(m, h) ==
    LET p == [id |-> h.id, dest |-> m.dest]
    IN IF ~IsBatched(m) THEN p @@ [kind |-> "single", from |-> 0, to |-> m.size]
       ELSE IF m.cancelled THEN p @@ [kind |-> "marker"]
       ELSE p @@ [kind |-> "part", batch |-> h.sentBatches, total |-> Total(m),
                  from |-> h.sentBatches * MaxMsgSize,
                  to |-> Min({m.size, (h.sentBatches + 1) * MaxMsgSize})]

\* The channels of rank r after it has issued the sends of these handles, in this order
Issue(r, handles) ==
    LET packets == [i \in DOMAIN handles |-> PacketOf(sent[r][handles[i].id], handles[i])]
    IN [p \in Pairs |->
          IF p[1] # r THEN net[p]
          ELSE net[p] \o SelectSeq(packets, LAMBDA q : q.dest = p[2])]

(***************************************************************************)
(* Sending                                                                 *)
(***************************************************************************)
Init ==
    /\ sent = [r \in Ranks |-> <<>>]
    /\ sendQueue = [r \in Ranks |-> <<>>]
    /\ slots = [r \in Ranks |-> 0]
    /\ selfQueue = [r \in Ranks |-> <<>>]
    /\ net = [p \in Pairs |-> <<>>]
    /\ fragments = [r \in Ranks |-> {}]
    /\ complete = [r \in Ranks |-> <<>>]
    /\ fused = [r \in Ranks |-> <<>>]
    /\ garbage = [r \in Ranks |-> [queue |-> 0, num |-> 0, popped |-> FALSE]]
    /\ received = [r \in Ranks |-> <<>>]

SentData == FoldSet(LAMBDA r, n : FoldSeq(LAMBDA m, k : m.size + k, n, sent[r]), 0, Ranks)

\* MessageQueue::send, in two cases
SendSelf(r, size) ==
    /\ SentData + size <= MaxData
    /\ sent' = [sent EXCEPT ![r] = Append(@, [dest |-> r, size |-> size, cancelled |-> FALSE])]
    /\ selfQueue' = [selfQueue EXCEPT ![r] = Append(@, Len(sent'[r]))]
    /\ UNCHANGED <<sendQueue, slots, net, fragments, complete, fused, garbage,
                   received>>

Send(r, dest, size) ==
    /\ SentData + size <= MaxData
    /\ LET m == [dest |-> dest, size |-> size, cancelled |-> FALSE]
           h == [id |-> Len(sent[r]) + 1, sentBatches |-> 0, request |-> None]
           now == slots[r] < MaxConcurrent
       IN /\ sent' = [sent EXCEPT ![r] = Append(@, m)]
          /\ sendQueue' = [sendQueue EXCEPT ![r] = Append(@, IF now THEN SendNext(m, h) ELSE h)]
          /\ slots' = [slots EXCEPT ![r] = IF now THEN @ + 1 ELSE @]
          /\ net' = IF now THEN [net EXCEPT ![<<r, dest>>] = Append(@, PacketOf(m, h))] ELSE net
    /\ UNCHANGED <<selfQueue, fragments, complete, fused, garbage, received>>

\* cancelSend: its callers (JobTree::unsetLeftChild, unsetRightChild) forget an id when it
\* is signalled and cancel it once; a message in one piece is not affected
CancelSend(r, id) ==
    /\ \E i \in DOMAIN sendQueue[r] : sendQueue[r][i].id = id
    /\ IsBatched(sent[r][id]) /\ ~sent[r][id].cancelled
    /\ sent' = [sent EXCEPT ![r][id].cancelled = TRUE]
    /\ UNCHANGED <<sendQueue, slots, selfQueue, net, fragments, complete, fused, garbage,
                   received>>

\* MPI finishes a send; the data has left the handle's buffer
MpiSent(r, i) ==
    /\ i \in DOMAIN sendQueue[r] /\ sendQueue[r][i].request = "pending"
    /\ sendQueue' = [sendQueue EXCEPT ![r][i].request = "done"]
    /\ UNCHANGED <<sent, slots, selfQueue, net, fragments, complete, fused, garbage,
                   received>>

AddGarbage(r, n) == [garbage EXCEPT ![r].queue = @ + n, ![r].num = @ + n]

\* processSent: handles that are done leave or send their next fragment, then handles that
\* wait for a slot get the free ones, in their order
ProcessSent(r) ==
    LET q == sendQueue[r]
        Done(h) == h.request = "done"
        Leaves(h) == Done(h) /\ IsFinished(sent[r][h.id], h)
        gone == SelectSeq(q, Leaves)
        kept == SelectSeq(q, LAMBDA h : ~Leaves(h))
        free == MaxConcurrent - (slots[r] - Len(gone))
        Waiting(i) == ~IsInitiated(kept[i])
        Served(i) == Waiting(i) /\ Cardinality({k \in 1..i : Waiting(k)}) <= free
        served == {i \in DOMAIN kept : Served(i)}
    IN /\ \E i \in DOMAIN q : Done(q[i])
       /\ sendQueue' = [sendQueue EXCEPT ![r] =
                          [i \in DOMAIN kept |-> IF Done(kept[i]) \/ i \in served
                                                 THEN SendNext(sent[r][kept[i].id], kept[i]) ELSE kept[i]]]
       /\ slots' = [slots EXCEPT ![r] = @ - Len(gone) + Cardinality(served)]
       /\ net' = Issue(r, SelectSeq(kept, Done)
                          \o [i \in 1..Cardinality(served) |->
                                kept[SetToSortSeq(served, <)[i]]])
       /\ garbage' = AddGarbage(r, Cardinality({i \in DOMAIN gone : sent[r][gone[i].id].size > MaxMsgSize}))
       /\ UNCHANGED <<sent, selfQueue, fragments, complete, fused, received>>

(***************************************************************************)
(* Receiving                                                               *)
(***************************************************************************)
Data(from, to) == [i \in 1..(to - from) |-> from + i - 1]
Handed(r, source, id, data) ==
    [received EXCEPT ![r] = Append(@, [source |-> source, id |-> id, data |-> data])]

\* processReceived: a message in one piece
ReceiveSingle(p) ==
    /\ net[p] # <<>> /\ Head(net[p]).kind = "single"
    /\ net' = [net EXCEPT ![p] = Tail(@)]
    /\ received' = LET q == Head(net[p]) IN Handed(p[2], p[1], q.id, Data(q.from, q.to))
    /\ UNCHANGED <<sent, sendQueue, slots, selfQueue, fragments, complete, fused, garbage>>

\* Mutation of FragmentOf: the id is left out of the key.
FragmentOf_BySource(r, source, id) ==
    IF \E f \in fragments[r] : f.source = source
    THEN CHOOSE f \in fragments[r] : f.source = source
    ELSE [source |-> source, id |-> id, parts |-> {}, cancelled |-> FALSE]

\* The entry of _fragmented_messages for this key, made if it is not there
FragmentOf(r, source, id) ==
    IF \E f \in fragments[r] : f.source = source /\ f.id = id
    THEN CHOOSE f \in fragments[r] : f.source = source /\ f.id = id
    ELSE [source |-> source, id |-> id, parts |-> {}, cancelled |-> FALSE]

\* Mutation of ReceiveNext: the marker is not told from a fragment that completes nothing.
ReceiveNext_NoMarker(f, q) ==
    IF q.kind = "marker" THEN f ELSE [f EXCEPT !.parts = @ \union {q}]

\* ReceiveFragment::receiveNext
ReceiveNext(f, q) ==
    IF q.kind = "marker" THEN [f EXCEPT !.cancelled = TRUE] ELSE [f EXCEPT !.parts = @ \union {q}]

HasAllParts(f) == \E q \in f.parts : Cardinality(f.parts) = q.total

\* processReceived: a fragment; a message that is complete or cancelled goes to the assembler
ReceiveFragment(p) ==
    /\ net[p] # <<>> /\ Head(net[p]).kind # "single"
    /\ net' = [net EXCEPT ![p] = Tail(@)]
    /\ LET r == p[2]
           old == FragmentOf(r, p[1], Head(net[p]).id)
           new == ReceiveNext(old, Head(net[p]))
       IN IF new.cancelled \/ HasAllParts(new)
          THEN /\ fragments' = [fragments EXCEPT ![r] = @ \ {old}]
               /\ complete' = [complete EXCEPT ![r] = Append(@, new)]
          ELSE /\ fragments' = [fragments EXCEPT ![r] = (@ \ {old}) \union {new}]
               /\ UNCHANGED complete
    /\ UNCHANGED <<sent, sendQueue, slots, selfQueue, fused, garbage, received>>

\* processSelfReceived
ReceiveSelf(r) ==
    /\ selfQueue[r] # <<>>
    /\ LET id == Head(selfQueue[r])
       IN /\ received' = Handed(r, r, id, Data(0, sent[r][id].size))
    /\ selfQueue' = [selfQueue EXCEPT ![r] = Tail(@)]
    /\ UNCHANGED <<sent, sendQueue, slots, net, fragments, complete, fused, garbage>>

(***************************************************************************)
(* The other threads                                                       *)
(***************************************************************************)
\* Fragments one after the other, by their number
Joined(parts) ==
    LET s == SetToSortSeq(parts, LAMBDA a, b : a.batch < b.batch)
    IN FlattenSeq([i \in DOMAIN s |-> Data(s[i].from, s[i].to)])

\* One turn of runFragmentedMessageAssembler. Waiting for the condition variable and for
\* the mutexes is part of the guard: their predicates are tested under the mutex.
Assemble(r) ==
    /\ complete[r] # <<>>
    /\ LET f == Head(complete[r])
       IN IF f.cancelled
          THEN garbage' = AddGarbage(r, Cardinality(f.parts)) /\ UNCHANGED fused
          ELSE /\ fused' = [fused EXCEPT ![r] =
                              Append(@, [source |-> f.source, id |-> f.id, data |-> Joined(f.parts)])]
               /\ UNCHANGED garbage
    /\ complete' = [complete EXCEPT ![r] = Tail(@)]
    /\ UNCHANGED <<sent, sendQueue, slots, selfQueue, net, fragments, received>>

\* processAssembledReceived, on the main thread again
ReceiveAssembled(r) ==
    /\ fused[r] # <<>>
    /\ LET m == Head(fused[r])
       IN /\ received' = Handed(r, m.source, m.id, m.data)
          /\ garbage' = AddGarbage(r, IF Len(m.data) > MaxMsgSize THEN 1 ELSE 0)
    /\ fused' = [fused EXCEPT ![r] = Tail(@)]
    /\ UNCHANGED <<sent, sendQueue, slots, selfQueue, net, fragments, complete>>

\* runGarbageCollector: the counter is read outside of the lock and decremented after it
CollectGarbage(r) ==
    /\ IF garbage[r].popped
       THEN garbage' = [garbage EXCEPT ![r].num = @ - 1, ![r].popped = FALSE]
       ELSE /\ garbage[r].num > 0
            /\ garbage' = [garbage EXCEPT ![r].queue = @ - 1, ![r].popped = TRUE]
    /\ UNCHANGED <<sent, sendQueue, slots, selfQueue, net, fragments, complete, fused,
                   received>>

Next ==
    \/ \E r \in Ranks, size \in Sizes : <<r, r>> \in Routes /\ SendSelf(r, size)
    \/ \E p \in Pairs, size \in Sizes : Send(p[1], p[2], size)
    \/ \E r \in Ranks, id \in Ids : CancelSend(r, id)
    \/ \E r \in Ranks, i \in Ids : MpiSent(r, i)
    \/ \E p \in Pairs : ReceiveSingle(p) \/ ReceiveFragment(p)
    \/ \E r \in Ranks : \/ ProcessSent(r) \/ ReceiveSelf(r) \/ ReceiveAssembled(r)
                        \/ Assemble(r) \/ CollectGarbage(r)

Spec == Init /\ [][Next]_vars

\* MPI finishes what was started, every rank calls advance() again and again, and the
\* other two threads run. A rank is never obliged to send or to cancel.
Progress ==
    \/ \E r \in Ranks, i \in Ids : MpiSent(r, i)
    \/ \E p \in Pairs : ReceiveSingle(p) \/ ReceiveFragment(p)
    \/ \E r \in Ranks : \/ ProcessSent(r) \/ ReceiveSelf(r) \/ ReceiveAssembled(r)
                        \/ Assemble(r) \/ CollectGarbage(r)

FairSpec == Spec /\ WF_vars(Progress)

(***************************************************************************)
(* Properties                                                              *)
(***************************************************************************)
TypeOK ==
    /\ \A r \in Ranks :
         /\ \A id \in DOMAIN sent[r] : sent[r][id] \in [dest : Ranks, size : Sizes, cancelled : BOOLEAN]
         /\ \A i \in DOMAIN sendQueue[r] :
              /\ sendQueue[r][i].id \in DOMAIN sent[r] /\ sendQueue[r][i].sentBatches \in Nat
              /\ sendQueue[r][i].request \in {None, "pending", "done"}
         /\ slots[r] \in 0..MaxConcurrent
         /\ garbage[r] \in [queue : Nat, num : Nat, popped : BOOLEAN]
    /\ \A p \in Pairs : \A i \in DOMAIN net[p] :
         net[p][i].dest = p[2] /\ net[p][i].kind \in {"single", "part", "marker"}

\* The assertions of SendHandle::sendNext and ReceiveFragment::receiveNext hold for whatever
\* is in transit: no fragment is empty or beyond the last one, none is there already when
\* it arrives, and nothing follows the marker of a cancelled message or the last fragment of
\* a complete one. Every packet fits into the receive buffer of _max_msg_size+20 bytes, and
\* a callback gets all of a message's data, however many fragments it travelled in and
\* whatever was cancelled beside it. _num_concurrent_sends is the number of handles that MPI
\* works on. The garbage collector, which reads its counter without the lock, never takes
\* from an empty list.
QueueAssertions ==
    /\ TypeOK
    /\ \A r \in Ranks :
         /\ slots[r] = Cardinality({i \in DOMAIN sendQueue[r] : IsInitiated(sendQueue[r][i])})
         /\ \A i \in DOMAIN received[r] :
              LET m == received[r][i] IN m.data = Data(0, sent[m.source][m.id].size)
    /\ \A p \in Pairs : \A i \in DOMAIN net[p] :
         LET q == net[p][i]
             Same(f) == f.source = p[1] /\ f.id = q.id
         IN IF q.kind = "single" THEN q.to - q.from <= MaxMsgSize + MetaSize ELSE
              /\ q.kind = "part" =>
                   /\ q.from < q.to /\ q.to - q.from <= MaxMsgSize /\ q.batch < q.total
                   /\ \A f \in fragments[p[2]] : Same(f) => \A o \in f.parts : o.batch # q.batch
              /\ \A k \in 1..(i - 1) : net[p][k].id = q.id => net[p][k].kind = "part"
              /\ \A k \in DOMAIN complete[p[2]] : ~Same(complete[p[2]][k])
              /\ \A k \in DOMAIN fused[p[2]] : ~Same(fused[p[2]][k])
    /\ \A r \in Ranks : garbage[r].num > 0 /\ ~garbage[r].popped => garbage[r].queue > 0

\* The channels that the other modules assume
Message(r, id) == <<r, id>>
InFlight(s, d, id) ==
    \/ \E i \in DOMAIN sendQueue[s] :
         sendQueue[s][i].id = id /\ ~IsFinished(sent[s][id], sendQueue[s][i])
    \/ <<s, d>> \in Pairs /\ \E i \in DOMAIN net[<<s, d>>] : net[<<s, d>>][i].id = id
    \/ \E f \in fragments[d] : f.source = s /\ f.id = id
    \/ \E i \in DOMAIN complete[d] : complete[d][i].source = s /\ complete[d][i].id = id
    \/ \E i \in DOMAIN fused[d] : fused[d][i].source = s /\ fused[d][i].id = id

OrderedView ==
    [p \in Routes |->
       LET s == p[1]
           ids == IF s = p[2] THEN selfQueue[s]
                  ELSE LET pieces == SelectSeq(net[p], LAMBDA q : q.kind = "single")
                           waiting == SelectSeq(sendQueue[s], LAMBDA h :
                                        /\ ~IsInitiated(h) /\ sent[s][h.id].dest = p[2]
                                        /\ ~IsBatched(sent[s][h.id]))
                       IN [i \in DOMAIN pieces |-> pieces[i].id] \o [i \in DOMAIN waiting |-> waiting[i].id]
       IN [i \in DOMAIN ids |-> Message(s, ids[i])]]

BulkView ==
    [p \in Routes |->
       {Message(p[1], id) : id \in {id \in DOMAIN sent[p[1]] :
          /\ sent[p[1]][id].dest = p[2] /\ p[1] # p[2]
          /\ IsBatched(sent[p[1]][id]) /\ InFlight(p[1], p[2], id)}}]

WithdrawnView == UNION {{Message(r, id) : id \in {i \in DOMAIN sent[r] : sent[r][i].cancelled}} : r \in Ranks}
ReceivedView ==
    [r \in Ranks |-> [i \in DOMAIN received[r] |-> Message(received[r][i].source, received[r][i].id)]]

Promise == INSTANCE Channels
           WITH Pairs <- Routes, Messages <- Ranks \X Ids, ordered <- OrderedView, bulk <- BulkView,
                withdrawn <- WithdrawnView, received <- ReceivedView

\* The queue implements the channels of module Channels: messages in one piece keep their
\* order between two ranks although slots, handles and fragments of other messages come in
\* between, and a message in fragments is neither lost nor doubled unless it was withdrawn.
ImplementsChannels == Promise!Spec

\* Nothing is left behind: in the end every message has been handed over or was cancelled,
\* its sender has been told, all slots are free, and neither a fragment of a cancelled
\* message nor garbage remains.
Drained ==
    /\ \A r \in Ranks :
         /\ sendQueue[r] = <<>> /\ slots[r] = 0 /\ selfQueue[r] = <<>>
         /\ fragments[r] = {} /\ complete[r] = <<>> /\ fused[r] = <<>>
         /\ garbage[r].queue = 0 /\ garbage[r].num = 0
         /\ \A id \in DOMAIN sent[r] :
              \/ sent[r][id].cancelled
              \/ \E i \in DOMAIN received[sent[r][id].dest] :
                   LET m == received[sent[r][id].dest][i] IN m.source = r /\ m.id = id
    /\ \A p \in Pairs : net[p] = <<>>

EventuallyDrained == <>[]Drained
=============================================================================
