------------------------ MODULE SessionStreamProofs ------------------------
(* Theorems about SessionStream, for any clients, publishers and bounds, the
   last of them that it implements Delivery. *)
EXTENDS SessionStream, SequenceLemmas, SequenceTheorems, TLAPS

\* A thread inside publish or emit carries a message.
CarriesMessage == \A t \in Threads : pubPC[t] # "idle" => pubMsg[t] \in Messages

TypeInv == TypeOK /\ CarriesMessage

\* Whatever enqueue does to c, the client's fields keep their types.
LEMMA EnqueueTypes ==
    ASSUME TypeOK, NEW c \in Clients, NEW m \in Messages, EnqueueTo(c, m)
    PROVE  /\ queue' \in [Clients -> Seq(Messages)]
           /\ closed' \in [Clients -> BOOLEAN]
           /\ wake' \in [Clients -> BOOLEAN]
           /\ socket' \in [Clients -> {"up", "dead", "closed"}]
<1>1. CASE closed[c] /\ UNCHANGED queues
  BY <1>1 DEF TypeOK, queues
<1>2. CASE Queued(c, m)
  <2>1. Append(queue[c], m) \in Seq(Messages)
    BY DEF TypeOK
  <2> QED BY <1>2, <2>1 DEF TypeOK, Queued
<1>3. CASE CutOff(c)
  BY <1>3 DEF TypeOK, CutOff
<1> QED BY <1>1, <1>2, <1>3 DEF EnqueueTo

\* Trimming keeps the newest messages and bounds the ring.
LEMMA TrimTypes ==
    ASSUME NEW buf \in Seq(Messages)
    PROVE  Trim(buf) \in Seq(Messages) /\ Len(Trim(buf)) <= RingMax
<1>1. CASE Len(buf) > RingMax
  <2>1. /\ Len(buf) - RingMax + 1 \in 1..Len(buf)
        /\ Len(buf) \in Nat
    BY <1>1, StreamAssumption
  <2>2. SubSeq(buf, Len(buf) - RingMax + 1, Len(buf)) \in Seq(Messages)
    BY <2>1
  <2>3. Len(SubSeq(buf, Len(buf) - RingMax + 1, Len(buf))) = RingMax
    BY <2>1, StreamAssumption
  <2> QED BY <1>1, <2>2, <2>3, StreamAssumption DEF Trim
<1>2. CASE ~(Len(buf) > RingMax)
  BY <1>2, StreamAssumption DEF Trim
<1> QED BY <1>1, <1>2

\* The IDs of a sequence of messages.
LEMMA IdsTypes ==
    ASSUME NEW s \in Seq(Messages)
    PROVE  Ids(s) \subseteq 1..MaxID
<1>1. SUFFICES ASSUME NEW i \in DOMAIN s PROVE s[i].id \in 1..MaxID
  BY DEF Ids
<1>2. s[i] \in Messages
  OBVIOUS
<1> QED BY <1>2 DEF Messages

LEMMA InitTypes == Init => TypeInv
<1> SUFFICES ASSUME Init PROVE TypeInv
  OBVIOUS
<1>1. TypeOK
  BY StreamAssumption DEF Init, TypeOK
<1>2. CarriesMessage
  BY DEF Init, CarriesMessage
<1> QED BY <1>1, <1>2 DEF TypeInv

\* publish and emit.
LEMMA PublishTypes ==
    ASSUME TypeInv, NEW t \in Threads, Publish(t)
    PROVE  TypeInv'
<1> USE DEF TypeInv
<1>1. ASSUME NEW kind \in Kinds, NEW pc \in {"append", "broadcast", "emit"},
             AssignID(t, kind, pc)
      PROVE  TypeInv'
  <2>1. [id |-> nextMsgID + 1, kind |-> kind] \in Messages /\ nextMsgID' \in 0..MaxID
    BY <1>1, StreamAssumption DEF AssignID, Count, TypeOK, Messages
  <2>2. pubMsg' \in [Threads -> Messages \cup {NoMsg}] /\ CarriesMessage'
    BY <1>1, <2>1 DEF AssignID, TypeOK, CarriesMessage
  <2> QED
    BY <1>1, <2>1, <2>2 DEF AssignID, TypeOK, subs, conns, queues, writers, history
<1>2. CASE PublishBuffered(t)
  BY <1>1, <1>2 DEF PublishBuffered, Kinds
<1>3. CASE PublishTransient(t)
  BY <1>1, <1>3 DEF PublishTransient, Kinds
<1>4. CASE AppendToRing(t)
  <2>1. Append(eventBuf, pubMsg[t]) \in Seq(Messages)
    BY <1>4 DEF AppendToRing, TypeOK, CarriesMessage
  <2>2. eventBuf' \in Seq(Messages) /\ Len(eventBuf') <= RingMax
    BY <1>4, <2>1, TrimTypes DEF AppendToRing
  <2> QED
    BY <1>4, <2>2 DEF AppendToRing, TypeOK, CarriesMessage, subs, conns, queues, writers, history
<1>5. CASE BroadcastLock(t)
  <2>1. pubMsg[t].id \in 1..MaxID
    BY <1>5 DEF BroadcastLock, CarriesMessage, Messages
  <2>2. due' \in [Clients -> SUBSET (1..MaxID)]
    BY <1>5, <2>1 DEF BroadcastLock, TypeOK
  <2>3. todo' \subseteq Clients /\ subsMu' \in Threads \cup {NoThread}
    BY <1>5 DEF BroadcastLock, Audience, TypeOK
  <2> QED
    BY <1>5, <2>2, <2>3 DEF BroadcastLock, TypeOK, CarriesMessage, stream, conns, queues, writers
<1>6. CASE BroadcastUnlock(t)
  BY <1>6 DEF BroadcastUnlock, TypeOK, CarriesMessage, stream, conns, queues, writers, history
<1>7. ASSUME NEW c \in Clients, BroadcastTo(t, c)
      PROVE  TypeInv'
  <2>1. pubMsg[t] \in Messages
    BY <1>7 DEF BroadcastTo, CarriesMessage
  <2>2. EnqueueTo(c, pubMsg[t])
    BY <1>7 DEF BroadcastTo
  <2> QED
    BY <1>7, <2>1, <2>2, EnqueueTypes
    DEF BroadcastTo, TypeOK, CarriesMessage, stream, pubs, conns, writers, history
<1> QED BY <1>2, <1>3, <1>4, <1>5, <1>6, <1>7 DEF Publish

LEMMA EmitTypes ==
    ASSUME TypeInv, NEW c \in Clients, Emit(c)
    PROVE  TypeInv'
<1> USE DEF TypeInv
<1>1. c \in Threads
  BY DEF Threads
<1>2. CASE EmitAssign(c)
  <2>1. [id |-> nextMsgID + 1, kind |-> "private"] \in Messages /\ nextMsgID' \in 0..MaxID
    BY <1>2, StreamAssumption DEF EmitAssign, AssignID, Count, TypeOK, Messages, Kinds
  <2>2. pubMsg' \in [Threads -> Messages \cup {NoMsg}] /\ CarriesMessage'
    BY <1>1, <1>2, <2>1 DEF EmitAssign, AssignID, TypeOK, CarriesMessage
  <2> QED
    BY <1>1, <1>2, <2>1, <2>2
    DEF EmitAssign, AssignID, TypeOK, subs, conns, queues, writers, history
<1>3. CASE EmitEnqueue(c)
  <2>1. pubMsg[c] \in Messages
    BY <1>1, <1>3 DEF EmitEnqueue, CarriesMessage
  <2>2. EnqueueTo(c, pubMsg[c])
    BY <1>3 DEF EmitEnqueue
  <2> QED
    BY <1>1, <1>3, <2>1, <2>2, EnqueueTypes
    DEF EmitEnqueue, TypeOK, CarriesMessage, stream, subs, conns, writers, history
<1> QED BY <1>2, <1>3 DEF Emit

\* handleWS.
LEMMA HandlerTypes ==
    ASSUME TypeInv, NEW c \in Clients, HandleWS(c)
    PROVE  TypeInv'
<1> USE DEF TypeInv, TypeOK, CarriesMessage, stream, subs, pubs, conns, queues, writers, history
<1>1. CASE Subscribe(c)
  BY <1>1 DEF Subscribe
<1>2. CASE CheckSeen(c)
  BY <1>2 DEF CheckSeen, StartServing
<1>3. CASE Snapshot(c)
  <2>1. Ids(eventBuf) \subseteq 1..MaxID
    BY IdsTypes
  <2> QED BY <1>3, <2>1 DEF Snapshot
<1>4. CASE ReplayNext(c)
  <2>1. replay[c] \in Seq(Messages) /\ replay[c] # <<>>
    BY <1>4 DEF ReplayNext
  <2>2. Head(replay[c]) \in Messages /\ Tail(replay[c]) \in Seq(Messages)
    BY <2>1
  <2>3. EnqueueTo(c, Head(replay[c]))
    BY <1>4 DEF ReplayNext
  <2> HIDE DEF queues
  <2> QED BY <1>4, <2>2, <2>3, EnqueueTypes DEF ReplayNext
<1>5. CASE ReplayDone(c)
  BY <1>5 DEF ReplayDone, StartServing
<1>6. CASE ReadLoopExit(c)
  BY <1>6 DEF ReadLoopExit
<1>7. CASE Unsubscribe(c)
  BY <1>7 DEF Unsubscribe
<1>8. CASE Shutdown(c)
  BY <1>8 DEF Shutdown
<1>9. CASE CloseSocket(c)
  BY <1>9 DEF CloseSocket
<1> QED BY <1>1, <1>2, <1>3, <1>4, <1>5, <1>6, <1>7, <1>8, <1>9 DEF HandleWS

\* A writeLoop in the middle of a batch has something to write.
WriterHasBatch == \A c \in Clients : writer[c] = "write" => batch[c] # <<>>

\* writeLoop.
LEMMA WriterTypes ==
    ASSUME TypeInv, WriterHasBatch, NEW c \in Clients, WriteLoop(c)
    PROVE  TypeInv'
<1> USE DEF TypeInv, TypeOK, CarriesMessage, stream, subs, pubs, conns, queues, history
<1>1. CASE Drain(c)
  BY <1>1 DEF Drain, QueueTaken, AfterDrain
<1>2. CASE Write(c)
  <2>1. batch[c] \in Seq(Messages) /\ batch[c] # <<>>
    BY <1>2 DEF Write, WriterHasBatch
  <2>2. Head(batch[c]) \in Messages /\ Tail(batch[c]) \in Seq(Messages)
    BY <2>1
  <2>3. Append(wire[c], Head(batch[c])) \in Seq(Messages)
    BY <2>2
  <2>4. wire' \in [Clients -> Seq(Messages)]
    BY <1>2, <2>3 DEF Write
  <2> QED BY <1>2, <2>2, <2>4 DEF Write
<1>3. CASE Wakeup(c)
  BY <1>3 DEF Wakeup
<1>4. CASE WriteOrPingFails(c)
  BY <1>4 DEF WriteOrPingFails, SocketClosed
<1>5. CASE ContextDone(c)
  BY <1>5 DEF ContextDone, writers
<1> QED BY <1>1, <1>2, <1>3, <1>4, <1>5 DEF WriteLoop

\* The peer and its reports.
LEMMA PeerTypes ==
    ASSUME TypeInv, ReportSeen \/ \E c \in Clients : Peer(c)
    PROVE  TypeInv'
<1> USE DEF TypeInv, TypeOK, CarriesMessage, stream, subs, pubs, conns, queues, writers, history
<1>1. ASSUME NEW c \in Clients, Peer(c)
      PROVE  TypeInv'
  BY <1>1 DEF Peer, PeerCloses, PeerVanishes
<1>2. ASSUME ReportSeen
      PROVE  TypeInv'
  <2>1. PICK c \in Clients : \E id \in Ids(wire[c]) : AdvanceLastSeen(id)
    BY <1>2 DEF ReportSeen
  <2>2. PICK id \in Ids(wire[c]) : AdvanceLastSeen(id)
    BY <2>1
  <2>3. id \in 0..MaxID
    BY <2>2, IdsTypes
  <2> QED BY <2>2, <2>3 DEF AdvanceLastSeen
<1> QED BY <1>1, <1>2

-----------------------------------------------------------------------------
(* The inductive invariant: the types, and the writer's and the backlog's   *)
(* bookkeeping, which the type of batch rests on.                          *)

IInv == TypeInv /\ WriterHasBatch /\ BacklogBounded

\* enqueue neither exceeds the backlog nor leaves a cut client a queue.
LEMMA EnqueueBounds ==
    ASSUME TypeOK, BacklogBounded, NEW c \in Clients, NEW m \in Messages, EnqueueTo(c, m)
    PROVE  \A d \in Clients : /\ Len(queue'[d]) <= BacklogMax
                              /\ closed'[d] => queue'[d] = <<>>
<1>1. CASE closed[c] /\ UNCHANGED queues
  BY <1>1 DEF BacklogBounded, queues
<1>2. CASE ~closed[c] /\ Len(queue[c]) < BacklogMax /\ Queued(c, m)
  <2>1. /\ queue[c] \in Seq(Messages)
        /\ Len(Append(queue[c], m)) = Len(queue[c]) + 1
    BY DEF TypeOK
  <2>2. Len(Append(queue[c], m)) <= BacklogMax
    BY <1>2, <2>1, StreamAssumption
  <2> QED BY <1>2, <2>2 DEF TypeOK, BacklogBounded, Queued
<1>3. CASE CutOff(c)
  BY <1>3, StreamAssumption DEF TypeOK, BacklogBounded, CutOff
<1> QED BY <1>1, <1>2, <1>3 DEF EnqueueTo

LEMMA InitInv == Init => IInv
<1> SUFFICES ASSUME Init PROVE IInv
  OBVIOUS
<1>1. TypeInv
  BY InitTypes
<1>2. WriterHasBatch /\ BacklogBounded
  BY StreamAssumption DEF Init, WriterHasBatch, BacklogBounded
<1> QED BY <1>1, <1>2 DEF IInv

LEMMA NextInv == IInv /\ [Next]_vars => IInv'
<1> SUFFICES ASSUME IInv, [Next]_vars PROVE IInv'
  OBVIOUS
<1>0. TypeInv /\ TypeOK /\ WriterHasBatch /\ BacklogBounded
  BY DEF IInv, TypeInv
<1>1. ASSUME NEW t \in Threads, Publish(t)
      PROVE  IInv'
  <2>1. TypeInv'
    BY <1>0, <1>1, PublishTypes
  <2>2. ASSUME NEW c \in Clients, BroadcastTo(t, c)
        PROVE  WriterHasBatch' /\ BacklogBounded'
    <3>1. pubMsg[t] \in Messages /\ EnqueueTo(c, pubMsg[t])
      BY <1>0, <2>2 DEF BroadcastTo, TypeInv, CarriesMessage
    <3> QED
      BY <1>0, <2>2, <3>1, EnqueueBounds DEF BroadcastTo, WriterHasBatch, BacklogBounded, writers
  <2>3. CASE UNCHANGED <<queue, closed, writer, batch>>
    BY <1>0, <2>1, <2>3 DEF IInv, WriterHasBatch, BacklogBounded
  <2>4. UNCHANGED <<queue, closed, writer, batch>> \/ \E c \in Clients : BroadcastTo(t, c)
    <3>1. CASE PublishBuffered(t) \/ PublishTransient(t)
      BY <3>1 DEF PublishBuffered, PublishTransient, AssignID, queues, writers
    <3>2. CASE AppendToRing(t) \/ BroadcastLock(t) \/ BroadcastUnlock(t)
      BY <3>2 DEF AppendToRing, BroadcastLock, BroadcastUnlock, queues, writers
    <3> QED BY <1>1, <3>1, <3>2 DEF Publish
  <2> QED BY <2>1, <2>2, <2>3, <2>4 DEF IInv
<1>2. ASSUME NEW c \in Clients, Emit(c)
      PROVE  IInv'
  <2>1. TypeInv'
    BY <1>0, <1>2, EmitTypes
  <2>2. CASE EmitAssign(c)
    BY <1>0, <2>1, <2>2 DEF EmitAssign, AssignID, IInv, WriterHasBatch, BacklogBounded, queues, writers
  <2>3. CASE EmitEnqueue(c)
    <3>1. pubMsg[c] \in Messages /\ EnqueueTo(c, pubMsg[c])
      BY <1>0, <2>3 DEF EmitEnqueue, TypeInv, CarriesMessage, Threads
    <3> QED
      BY <1>0, <2>1, <2>3, <3>1, EnqueueBounds
      DEF EmitEnqueue, IInv, WriterHasBatch, BacklogBounded, writers
  <2> QED BY <1>2, <2>2, <2>3 DEF Emit
<1>3. ASSUME NEW c \in Clients, HandleWS(c)
      PROVE  IInv'
  <2>1. TypeInv'
    BY <1>0, <1>3, HandlerTypes
  <2>2. CASE ReplayNext(c)
    <3>1. Head(replay[c]) \in Messages /\ EnqueueTo(c, Head(replay[c]))
      BY <1>0, <2>2 DEF ReplayNext, TypeOK
    <3> QED
      BY <1>0, <2>1, <2>2, <3>1, EnqueueBounds
      DEF ReplayNext, IInv, WriterHasBatch, BacklogBounded, writers
  <2>3. CASE Shutdown(c)
    BY <1>0, <2>1, <2>3, StreamAssumption
    DEF Shutdown, IInv, TypeOK, WriterHasBatch, BacklogBounded, writers
  <2>4. CASE StartServing(c)
    BY <1>0, <2>1, <2>4 DEF StartServing, IInv, TypeOK, WriterHasBatch, BacklogBounded, queues
  <2>5. CASE UNCHANGED <<queue, closed, writer, batch>>
    BY <1>0, <2>1, <2>5 DEF IInv, WriterHasBatch, BacklogBounded
  <2>6. \/ ReplayNext(c) \/ Shutdown(c) \/ StartServing(c)
        \/ UNCHANGED <<queue, closed, writer, batch>>
    BY <1>3 DEF HandleWS, Subscribe, CheckSeen, Snapshot, ReplayDone, ReadLoopExit,
                Unsubscribe, CloseSocket, queues, writers
  <2> QED BY <2>2, <2>3, <2>4, <2>5, <2>6
<1>4. ASSUME NEW c \in Clients, WriteLoop(c)
      PROVE  IInv'
  <2>1. TypeInv'
    BY <1>0, <1>4, WriterTypes
  <2>2. CASE Drain(c)
    BY <1>0, <2>1, <2>2, StreamAssumption
    DEF Drain, QueueTaken, AfterDrain, IInv, TypeOK, WriterHasBatch, BacklogBounded
  <2>3. CASE Write(c)
    <3>1. /\ batch[c] \in Seq(Messages) /\ batch[c] # <<>>
          /\ Len(batch[c]) <= BacklogMax
      BY <1>0, <2>3 DEF Write, WriterHasBatch, TypeOK, BacklogBounded
    <3>2. /\ Tail(batch[c]) \in Seq(Messages)
          /\ Len(Tail(batch[c])) = Len(batch[c]) - 1
      BY <3>1, HeadTailProperties
    <3>6. ASSUME Tail(batch[c]) = <<>> PROVE Len(batch[c]) = 1
      <4>1. Len(Tail(batch[c])) = 0
        BY <3>2, <3>6, EmptySeq
      <4>2. Len(batch[c]) \in Nat
        BY <3>1
      <4> QED BY <3>2, <4>1, <4>2
    <3>3. Len(Tail(batch[c])) <= BacklogMax
      BY <3>1, <3>2, StreamAssumption
    <3>4. WriterHasBatch'
      BY <1>0, <2>3, <3>6 DEF Write, TypeOK, WriterHasBatch
    <3>5. BacklogBounded'
      BY <1>0, <2>3, <3>3 DEF Write, TypeOK, BacklogBounded, queues
    <3> QED BY <2>1, <3>4, <3>5 DEF IInv
  <2>4. CASE Wakeup(c) \/ WriteOrPingFails(c) \/ ContextDone(c)
    BY <1>0, <2>1, <2>4
    DEF Wakeup, WriteOrPingFails, ContextDone, IInv, TypeOK, WriterHasBatch, BacklogBounded, queues
  <2> QED BY <1>4, <2>2, <2>3, <2>4 DEF WriteLoop
<1>5. CASE ReportSeen \/ \E c \in Clients : Peer(c)
  <2>1. TypeInv'
    BY <1>0, <1>5, PeerTypes
  <2>2. UNCHANGED <<queue, closed, writer, batch>>
    BY <1>5 DEF ReportSeen, AdvanceLastSeen, Peer, PeerCloses, PeerVanishes, queues, writers
  <2> QED BY <1>0, <2>1, <2>2 DEF IInv, WriterHasBatch, BacklogBounded
<1>6. CASE UNCHANGED vars
  BY <1>0, <1>6 DEF vars, stream, subs, pubs, conns, queues, writers, history, IInv,
                    TypeInv, TypeOK, CarriesMessage, WriterHasBatch, BacklogBounded
<1> QED BY <1>1, <1>2, <1>3, <1>4, <1>5, <1>6 DEF Next

\* The session's state keeps its types: in particular the ring never exceeds
\* maxEventBuf, whatever interleaving of publishers fills it.
THEOREM TypeCorrect == Spec => []TypeOK
<1>1. IInv => TypeOK
  BY DEF IInv, TypeInv
<1> QED BY InitInv, NextInv, <1>1, PTL DEF Spec

\* No client holds more than maxClientBacklog queued messages, plus a batch of
\* as many being written, and a client that was cut or left holds no queue.
THEOREM BacklogStaysBounded == Spec => []BacklogBounded
<1>1. IInv => BacklogBounded
  BY DEF IInv
<1> QED BY InitInv, NextInv, <1>1, PTL DEF Spec
-----------------------------------------------------------------------------
(* Where handlers and writeLoops are, and what that says of their clients.  *)

\* Nothing happens to a client before its handler runs, and writeLoop holds no
\* batch outside its inner loop.
ClientPhases ==
    \A c \in Clients :
        /\ handler[c] = "off" => /\ socket[c] # "up" /\ ~closed[c] /\ writer[c] = "off"
                                 /\ queue[c] = <<>> /\ wire[c] = <<>>
                                 /\ pubPC[c] = "idle"
                                 /\ c \notin subscribers /\ c \notin todo
        /\ handler[c] \in {"subscribed", "snapshot", "replay"} => writer[c] = "off"
        /\ writer[c] \in {"off", "drain", "sleep"} => batch[c] = <<>>

RInv == IInv /\ ClientPhases

\* enqueue touches the one client only, and does not revive its socket.
LEMMA EnqueueAlone ==
    ASSUME TypeOK, NEW c \in Clients, NEW m \in Messages, EnqueueTo(c, m)
    PROVE  \A d \in Clients \ {c} :
               queue'[d] = queue[d] /\ closed'[d] = closed[d] /\ socket'[d] = socket[d]
<1>1. CASE closed[c] /\ UNCHANGED queues
  BY <1>1 DEF queues
<1>2. CASE Queued(c, m)
  BY <1>2 DEF TypeOK, Queued
<1>3. CASE CutOff(c)
  BY <1>3 DEF TypeOK, CutOff
<1> QED BY <1>1, <1>2, <1>3 DEF EnqueueTo

\* The phases are kept by every step.
LEMMA PhasesStep ==
    ASSUME RInv, [Next]_vars
    PROVE  ClientPhases'
<1>0. /\ TypeOK /\ CarriesMessage /\ ClientPhases /\ WriterHasBatch
      /\ TypeOK'
  BY NextInv DEF RInv, IInv, TypeInv
<1>1. ASSUME NEW t \in Threads, Publish(t)
      PROVE  ClientPhases'
  <2>1. CASE PublishBuffered(t) \/ PublishTransient(t)
    BY <1>0, <2>1 DEF PublishBuffered, PublishTransient, AssignID, MayPublish, ClientPhases,
                      TypeOK, Threads, subs, conns, queues, writers
  <2>2. CASE AppendToRing(t)
    BY <1>0, <2>2 DEF AppendToRing, ClientPhases, TypeOK, Threads, subs, conns, queues, writers
  <2>3. CASE BroadcastLock(t)
    BY <1>0, <2>3 DEF BroadcastLock, Audience, ClientPhases, TypeOK, Threads, conns, queues, writers
  <2>4. CASE BroadcastUnlock(t)
    BY <1>0, <2>4 DEF BroadcastUnlock, ClientPhases, TypeOK, Threads, conns, queues, writers
  <2>5. ASSUME NEW c \in Clients, BroadcastTo(t, c)
        PROVE  ClientPhases'
    <3>1. pubMsg[t] \in Messages /\ EnqueueTo(c, pubMsg[t])
      BY <1>0, <2>5 DEF BroadcastTo, CarriesMessage
    <3>2. handler[c] # "off"
      BY <1>0, <2>5 DEF BroadcastTo, ClientPhases
    <3> QED
      BY <1>0, <2>5, <3>1, <3>2, EnqueueAlone
      DEF BroadcastTo, ClientPhases, pubs, conns, writers
  <2> QED BY <1>1, <2>1, <2>2, <2>3, <2>4, <2>5 DEF Publish
<1>2. ASSUME NEW c \in Clients, Emit(c)
      PROVE  ClientPhases'
  <2>1. CASE EmitAssign(c)
    BY <1>0, <2>1 DEF EmitAssign, AssignID, MayPublish, ClientPhases, TypeOK, Threads,
                      subs, conns, queues, writers
  <2>2. CASE EmitEnqueue(c)
    <3>1. pubMsg[c] \in Messages /\ EnqueueTo(c, pubMsg[c])
      BY <1>0, <2>2 DEF EmitEnqueue, CarriesMessage, Threads
    <3>2. handler[c] # "off"
      BY <1>0, <2>2 DEF EmitEnqueue, ClientPhases
    <3>3. \A d \in Clients \ {c} :
             queue'[d] = queue[d] /\ closed'[d] = closed[d] /\ socket'[d] = socket[d]
      BY <1>0, <3>1, EnqueueAlone
    <3>4. /\ UNCHANGED <<handler, writer, batch, wire, subscribers, todo>>
          /\ \A d \in Clients \ {c} : pubPC'[d] = pubPC[d]
      BY <1>0, <2>2 DEF EmitEnqueue, TypeOK, Threads, subs, conns, writers
    <3> QED BY <1>0, <3>2, <3>3, <3>4 DEF ClientPhases
  <2> QED BY <1>2, <2>1, <2>2 DEF Emit
<1>3. ASSUME NEW c \in Clients, HandleWS(c)
      PROVE  ClientPhases'
  <2>1. CASE Subscribe(c)
    <3>1. /\ UNCHANGED <<closed, writer, queue, batch, wire, pubPC, todo>>
          /\ handler' = [handler EXCEPT ![c] = "subscribed"]
          /\ socket' = [socket EXCEPT ![c] = "up"]
          /\ subscribers' = subscribers \cup {c}
          /\ handler[c] = "off"
      BY <2>1 DEF Subscribe, pubs, writers
    <3> QED BY <1>0, <3>1 DEF ClientPhases, TypeOK
  <2>2. CASE StartServing(c) /\ handler[c] \in {"subscribed", "replay"}
    <3>1. /\ UNCHANGED <<socket, closed, queue, batch, wire, pubPC, subscribers, todo>>
          /\ handler' = [handler EXCEPT ![c] = "reading"]
          /\ writer' = [writer EXCEPT ![c] = "drain"]
      BY <2>2 DEF StartServing, subs, pubs, queues
    <3>2. batch[c] = <<>>
      BY <1>0, <2>2 DEF ClientPhases
    <3> QED BY <1>0, <3>1, <3>2 DEF ClientPhases, TypeOK
  <2>3. CASE Snapshot(c) \/ (handler[c] = "subscribed" /\ CheckSeen(c) /\ ~StartServing(c))
    <3>1. /\ UNCHANGED <<socket, closed, writer, queue, batch, wire, pubPC, subscribers, todo>>
          /\ handler[c] \in {"subscribed", "snapshot"}
          /\ \E h \in {"snapshot", "replay"} : handler' = [handler EXCEPT ![c] = h]
      BY <2>3 DEF Snapshot, CheckSeen, subs, pubs, queues, writers
    <3> QED BY <1>0, <3>1 DEF ClientPhases, TypeOK
  <2>4. CASE ReplayNext(c)
    <3>1. Head(replay[c]) \in Messages /\ EnqueueTo(c, Head(replay[c]))
      BY <1>0, <2>4 DEF ReplayNext, TypeOK
    <3>2. UNCHANGED <<handler, writer, batch, wire, pubPC, subscribers, todo>>
      BY <2>4 DEF ReplayNext, subs, pubs, writers
    <3>3. \A d \in Clients \ {c} :
             queue'[d] = queue[d] /\ closed'[d] = closed[d] /\ socket'[d] = socket[d]
      BY <1>0, <3>1, EnqueueAlone
    <3>4. handler[c] = "replay"
      BY <2>4 DEF ReplayNext
    <3> QED
      BY <1>0, <3>2, <3>3, <3>4 DEF ClientPhases
  <2>5. CASE ReadLoopExit(c)
    <3>1. /\ UNCHANGED <<socket, closed, writer, queue, batch, wire, pubPC, subscribers, todo>>
          /\ handler' = [handler EXCEPT ![c] = "unsubscribe"]
      BY <2>5 DEF ReadLoopExit, subs, pubs, queues, writers
    <3> QED BY <1>0, <3>1 DEF ClientPhases, TypeOK
  <2>6. CASE Unsubscribe(c)
    <3>1. /\ UNCHANGED <<socket, closed, writer, queue, batch, wire, pubPC, todo>>
          /\ handler' = [handler EXCEPT ![c] = "shutdown"]
          /\ subscribers' = subscribers \ {c}
      BY <2>6 DEF Unsubscribe, pubs, queues, writers
    <3> QED BY <1>0, <3>1 DEF ClientPhases, TypeOK
  <2>7. CASE Shutdown(c)
    BY <1>0, <2>7 DEF Shutdown, ClientPhases, TypeOK, subs, pubs, writers
  <2>8. CASE CloseSocket(c)
    BY <1>0, <2>8 DEF CloseSocket, ClientPhases, TypeOK, subs, pubs, writers
  <2> QED
    BY <1>3, <2>1, <2>2, <2>3, <2>4, <2>5, <2>6, <2>7, <2>8 DEF HandleWS, CheckSeen, ReplayDone
<1>4. ASSUME NEW c \in Clients, WriteLoop(c)
      PROVE  ClientPhases'
  <2>1. CASE Drain(c)
    BY <1>0, <2>1 DEF Drain, QueueTaken, AfterDrain, ClientPhases, TypeOK, subs, pubs, conns
  <2>2. CASE Write(c)
    <3>1. /\ batch[c] \in Seq(Messages) /\ batch[c] # <<>>
      BY <1>0, <2>2 DEF Write, WriterHasBatch, TypeOK
    <3>2. Len(batch[c]) = 1 => Tail(batch[c]) = <<>>
      <4>1. ASSUME Len(batch[c]) = 1 PROVE Tail(batch[c]) = <<>>
        <5>1. /\ Tail(batch[c]) \in Seq(Messages)
              /\ Len(Tail(batch[c])) = 0
          BY <3>1, <4>1, HeadTailProperties
        <5> QED BY <5>1, EmptySeq
      <4> QED BY <4>1
    <3> QED
      BY <1>0, <2>2, <3>2 DEF Write, ClientPhases, TypeOK, subs, pubs, conns, queues
  <2>3. CASE Wakeup(c)
    BY <1>0, <2>3 DEF Wakeup, ClientPhases, TypeOK, subs, pubs, conns
  <2>4. CASE WriteOrPingFails(c)
    BY <1>0, <2>4 DEF WriteOrPingFails, SocketClosed, ClientPhases, TypeOK, subs, pubs, conns
  <2>5. CASE ContextDone(c)
    BY <1>0, <2>5 DEF ContextDone, ClientPhases, TypeOK, subs, pubs, conns, queues
  <2> QED BY <1>4, <2>1, <2>2, <2>3, <2>4, <2>5 DEF WriteLoop
<1>5. ASSUME NEW c \in Clients, Peer(c)
      PROVE  ClientPhases'
  <2>1. CASE PeerCloses(c)
    BY <1>0, <2>1 DEF PeerCloses, ClientPhases, TypeOK, subs, pubs, conns, writers
  <2>2. CASE PeerVanishes(c)
    BY <1>0, <2>2 DEF PeerVanishes, ClientPhases, TypeOK, subs, pubs, conns, writers
  <2> QED BY <1>5, <2>1, <2>2 DEF Peer
<1>7. CASE ReportSeen
  BY <1>0, <1>7 DEF ReportSeen, AdvanceLastSeen, ClientPhases, subs, pubs, conns, queues, writers
<1>6. CASE UNCHANGED vars
  BY <1>0, <1>6 DEF vars, ClientPhases, subs, pubs, conns, queues, writers
<1> QED BY <1>1, <1>2, <1>3, <1>4, <1>5, <1>6, <1>7 DEF Next

-----------------------------------------------------------------------------
(* What clients hold, and what is on its way to them.                       *)

\* A client that has not copied the ring holds nothing of it, and one that has
\* not attached is owed nothing.
AttachPhases ==
    \A c \in Clients :
        /\ handler[c] = "off" => due[c] = {}
        /\ handler[c] \in {"off", "subscribed", "snapshot"} =>
              replay[c] = <<>> /\ c \notin fresh

\* Who enqueues for broadcast holds the subscriber lock.
DelivererLocks == \A t \in Threads : pubPC[t] = "deliver" => subsMu = t

\* Nothing private is on the way to the ring or to other clients, and only a
\* client's own readLoop emits.
HandsAreSorted ==
    \A t \in Threads :
        /\ pubPC[t] = "idle" => pubMsg[t] = NoMsg
        /\ pubPC[t] = "append" => pubMsg[t].kind = "buffered"
        /\ pubPC[t] \in {"broadcast", "deliver"} => pubMsg[t].kind # "private"
        /\ pubPC[t] = "emit" => t \in Clients

\* What c holds, or has in its replay.
Held(c) == Range(wire[c]) \cup Range(batch[c]) \cup Range(queue[c]) \cup Range(replay[c])

InHand == {pubMsg[t] : t \in {u \in Threads : pubPC[u] # "idle"}}
HeldByAny == UNION {Held(c) : c \in Clients}
Everywhere == Range(eventBuf) \cup HeldByAny \cup InHand

\* An ID at most nextMsgID names one message, and one thread carries it.
NamesInv ==
    /\ \A m \in Everywhere : m.id \in 0..nextMsgID
    /\ \A m, n \in Everywhere : m.id = n.id => m = n
    /\ \A t, u \in Threads : pubPC[t] # "idle" /\ pubPC[u] # "idle" /\ t # u =>
                               pubMsg[t].id # pubMsg[u].id

\* What is private to c: it holds it or is emitting it.
Own(c) == Held(c) \cup {m \in InHand : pubPC[c] = "emit" /\ m = pubMsg[c]}

PrivateInv ==
    /\ \A m \in Range(eventBuf) \cup UNION {Range(replay[c]) : c \in Clients} : m.kind = "buffered"
    /\ \A c, d \in Clients : c # d => \A m \in Own(c) \cap Own(d) : m.kind # "private"

\* How often c holds a message of ID i, and whether one more is on its way.
Named(i) == {m \in Messages : m.id = i}
Copies(c, i) == Occurrences(wire[c], Named(i)) + Occurrences(batch[c], Named(i))
                + Occurrences(queue[c], Named(i)) + Occurrences(replay[c], Named(i))
OnItsWay(c, i) ==
    \E t \in Threads : /\ pubMsg[t].id = i
                       /\ \/ pubPC[t] \in {"append", "broadcast"}
                          \/ pubPC[t] = "deliver" /\ c \in todo
                          \/ pubPC[t] = "emit" /\ t = c

-----------------------------------------------------------------------------
(* The steps, seen from what clients hold.                                  *)

\* The IDs of a sequence are those of what is in it.
LEMMA IdsOfRange == ASSUME NEW s PROVE Ids(s) = {m.id : m \in Range(s)}
BY DEF Ids, Range

\* enqueue appends, or leaves nothing more to a client it finds or makes closed.
LEMMA EnqueueOutcome ==
    ASSUME TypeOK, NEW c \in Clients, NEW m \in Messages, EnqueueTo(c, m)
    PROVE  \/ queue'[c] = Append(queue[c], m) /\ closed'[c] = closed[c] /\ socket'[c] = socket[c]
           \/ queue'[c] \in {queue[c], <<>>} /\ closed'[c]
<1>1. CASE closed[c] /\ UNCHANGED queues
  BY <1>1 DEF queues
<1>2. CASE Queued(c, m)
  BY <1>2 DEF TypeOK, Queued
<1>3. CASE CutOff(c)
  BY <1>3 DEF TypeOK, CutOff
<1> QED BY <1>1, <1>2, <1>3 DEF EnqueueTo

\* A step that moves no message, and attaches or cuts clients at most.
Quiet ==
    /\ UNCHANGED <<nextMsgID, eventBuf, subsMu, todo, pubPC, pubMsg, replay, batch, wire, due, fresh>>
    /\ \A c \in Clients :
          /\ queue'[c] \in {queue[c], <<>>}
          /\ Sound(c)' => queue'[c] = queue[c] /\ (Sound(c) \/ handler[c] = "off")
          /\ c \in subscribers' => c \in subscribers \/ handler[c] = "off"

LEMMA QuietSteps ==
    ASSUME TypeOK, NEW c \in Clients,
           \/ Subscribe(c) \/ CheckSeen(c) \/ ReplayDone(c) \/ ReadLoopExit(c) \/ Unsubscribe(c)
           \/ Shutdown(c) \/ CloseSocket(c) \/ Wakeup(c) \/ WriteOrPingFails(c) \/ ContextDone(c)
           \/ Peer(c)
    PROVE  Quiet
<1> USE DEF stream, pubs, history
<1>1. CASE Subscribe(c)
  BY <1>1 DEF Subscribe, Quiet, Sound, TypeOK, writers
<1>2. CASE CheckSeen(c) \/ ReplayDone(c) \/ ReadLoopExit(c)
  BY <1>2 DEF CheckSeen, ReplayDone, StartServing, ReadLoopExit, Quiet, Sound, subs, queues, writers
<1>3. CASE Unsubscribe(c)
  BY <1>3 DEF Unsubscribe, Quiet, Sound, queues, writers
<1>4. CASE Shutdown(c)
  BY <1>4 DEF Shutdown, Quiet, Sound, TypeOK, subs, writers
<1>5. CASE CloseSocket(c)
  BY <1>5 DEF CloseSocket, Quiet, Sound, TypeOK, subs, writers
<1>6. CASE Wakeup(c) \/ ContextDone(c)
  BY <1>6 DEF Wakeup, ContextDone, Quiet, Sound, subs, conns, queues
<1>7. CASE WriteOrPingFails(c)
  BY <1>7 DEF WriteOrPingFails, SocketClosed, Quiet, Sound, TypeOK, subs, conns
<1>8. CASE Peer(c)
  BY <1>8 DEF Peer, PeerCloses, PeerVanishes, Quiet, Sound, TypeOK, subs, conns, writers
<1> QED BY <1>1, <1>2, <1>3, <1>4, <1>5, <1>6, <1>7, <1>8

LEMMA QuietReports ==
    ASSUME ReportSeen \/ UNCHANGED vars
    PROVE  Quiet
<1>1. UNCHANGED <<stream, subs, pubs, conns, queues, writers, history>>
  BY DEF ReportSeen, AdvanceLastSeen, vars
<1> QED BY <1>1 DEF Quiet, Sound, stream, subs, pubs, conns, queues, writers, history

\* So a step of the session numbers a message, moves one or some, or is quiet.
LEMMA StepKinds ==
    ASSUME TypeOK, [Next]_vars
    PROVE  \/ \E t \in Threads, kind \in Kinds, pc \in {"append", "broadcast", "emit"} :
                 /\ AssignID(t, kind, pc)
                 /\ \/ kind = "buffered" /\ pc = "append"
                    \/ kind = "transient" /\ pc = "broadcast"
                    \/ kind = "private" /\ pc = "emit" /\ t \in Clients
           \/ \E t \in Threads : AppendToRing(t) \/ BroadcastLock(t) \/ BroadcastUnlock(t)
           \/ \E t \in Threads, c \in Clients : BroadcastTo(t, c)
           \/ \E c \in Clients : EmitEnqueue(c) \/ Snapshot(c) \/ ReplayNext(c) \/ Drain(c) \/ Write(c)
           \/ Quiet
<1>1. ASSUME NEW t \in Threads, PublishBuffered(t) \/ PublishTransient(t)
      PROVE  \E kind \in Kinds, pc \in {"append", "broadcast", "emit"} :
                 /\ AssignID(t, kind, pc)
                 /\ \/ kind = "buffered" /\ pc = "append"
                    \/ kind = "transient" /\ pc = "broadcast"
                    \/ kind = "private" /\ pc = "emit" /\ t \in Clients
  BY <1>1 DEF PublishBuffered, PublishTransient, Kinds
<1>2. ASSUME NEW c \in Clients, EmitAssign(c)
      PROVE  c \in Threads /\ AssignID(c, "private", "emit") /\ "private" \in Kinds
  BY <1>2 DEF EmitAssign, Threads, Kinds
<1>3. CASE \E t \in Threads : Publish(t)
  BY <1>1, <1>3 DEF Publish
<1>4. CASE \E c \in Clients : Emit(c)
  BY <1>2, <1>4 DEF Emit
<1>5. CASE \E c \in Clients : HandleWS(c) \/ WriteLoop(c) \/ Peer(c)
  BY <1>5, QuietSteps DEF HandleWS, WriteLoop
<1>6. CASE ReportSeen \/ UNCHANGED vars
  BY <1>6, QuietReports
<1> QED BY <1>3, <1>4, <1>5, <1>6 DEF Next

-----------------------------------------------------------------------------
\* Threads and handlers go through their stages in order.
StagesInv == RInv /\ AttachPhases /\ DelivererLocks /\ HandsAreSorted

LEMMA InitStages == Init => StagesInv
<1> SUFFICES ASSUME Init PROVE StagesInv
  OBVIOUS
<1>1. ClientPhases
  BY DEF Init, ClientPhases, Threads
<1>2. AttachPhases /\ DelivererLocks /\ HandsAreSorted
  BY DEF Init, AttachPhases, DelivererLocks, HandsAreSorted
<1> QED BY <1>1, <1>2, InitInv DEF StagesInv, RInv

LEMMA StagesStep == StagesInv /\ [Next]_vars => StagesInv'
<1> SUFFICES ASSUME StagesInv, [Next]_vars PROVE StagesInv'
  OBVIOUS
<1>0. /\ TypeOK /\ CarriesMessage /\ ClientPhases
      /\ AttachPhases /\ DelivererLocks /\ HandsAreSorted
      /\ RInv'
  BY NextInv, PhasesStep DEF StagesInv, RInv, IInv, TypeInv
<1>1. AttachPhases'
  <2>1. ASSUME NEW t \in Threads, Publish(t) PROVE AttachPhases'
    <3>1. CASE BroadcastLock(t)
      BY <1>0, <3>1 DEF BroadcastLock, Audience, AttachPhases, ClientPhases, TypeOK, conns
    <3>2. CASE UNCHANGED <<handler, replay, due, fresh>>
      BY <1>0, <3>2 DEF AttachPhases
    <3>3. BroadcastLock(t) \/ UNCHANGED <<handler, replay, due, fresh>>
      BY <2>1 DEF Publish, PublishBuffered, PublishTransient, AssignID, AppendToRing,
                  BroadcastUnlock, BroadcastTo, conns, history
    <3> QED BY <3>1, <3>2, <3>3
  <2>2. ASSUME NEW c \in Clients, HandleWS(c) PROVE AttachPhases'
    <3>1. CASE Subscribe(c) \/ Snapshot(c)
      BY <1>0, <3>1 DEF Subscribe, Snapshot, AttachPhases, TypeOK, history
    <3>2. CASE ReplayNext(c)
      BY <1>0, <3>2 DEF ReplayNext, AttachPhases, TypeOK, history
    <3>3. CASE CheckSeen(c) \/ ReplayDone(c)
      BY <1>0, <3>3 DEF CheckSeen, ReplayDone, StartServing, AttachPhases, TypeOK, history
    <3>4. CASE ReadLoopExit(c) \/ Unsubscribe(c) \/ Shutdown(c) \/ CloseSocket(c)
      BY <1>0, <3>4 DEF ReadLoopExit, Unsubscribe, Shutdown, CloseSocket, AttachPhases, TypeOK,
                        history
    <3> QED BY <2>2, <3>1, <3>2, <3>3, <3>4 DEF HandleWS
  <2>3. CASE \/ \E c \in Clients : Emit(c) \/ WriteLoop(c) \/ Peer(c)
             \/ ReportSeen \/ UNCHANGED vars
    <3>1. UNCHANGED <<handler, replay, due, fresh>>
      BY <2>3 DEF Emit, EmitAssign, AssignID, EmitEnqueue, WriteLoop, Drain, Write, Wakeup,
                  WriteOrPingFails, ContextDone, Peer, PeerCloses, PeerVanishes, ReportSeen,
                  AdvanceLastSeen, vars, conns, history
    <3> QED BY <1>0, <3>1 DEF AttachPhases
  <2> QED BY <2>1, <2>2, <2>3 DEF Next
<1>2. DelivererLocks' /\ HandsAreSorted'
  <2>1. ASSUME NEW t \in Threads, NEW kind \in Kinds, NEW pc \in {"append", "broadcast", "emit"},
               AssignID(t, kind, pc),
               \/ kind = "buffered" /\ pc = "append"
               \/ kind = "transient" /\ pc = "broadcast"
               \/ kind = "private" /\ pc = "emit" /\ t \in Clients
        PROVE  DelivererLocks' /\ HandsAreSorted'
    BY <1>0, <2>1 DEF AssignID, DelivererLocks, HandsAreSorted, TypeOK, subs
  <2>2. ASSUME NEW t \in Threads, AppendToRing(t) \/ BroadcastLock(t) \/ BroadcastUnlock(t)
        PROVE  DelivererLocks' /\ HandsAreSorted'
    <3>1. CASE AppendToRing(t)
      BY <1>0, <3>1 DEF AppendToRing, DelivererLocks, HandsAreSorted, TypeOK, subs
    <3>2. CASE BroadcastLock(t)
      BY <1>0, <3>2, StreamAssumption DEF BroadcastLock, DelivererLocks, HandsAreSorted, TypeOK
    <3>3. CASE BroadcastUnlock(t)
      BY <1>0, <3>3 DEF BroadcastUnlock, DelivererLocks, HandsAreSorted, TypeOK
    <3> QED BY <2>2, <3>1, <3>2, <3>3
  <2>3. ASSUME NEW c \in Clients, EmitEnqueue(c)
        PROVE  DelivererLocks' /\ HandsAreSorted'
    BY <1>0, <2>3 DEF EmitEnqueue, DelivererLocks, HandsAreSorted, TypeOK, Threads, subs
  <2>4. CASE UNCHANGED <<subsMu, pubPC, pubMsg>>
    BY <1>0, <2>4 DEF DelivererLocks, HandsAreSorted
  <2>5. CASE \/ \E t \in Threads, c \in Clients : BroadcastTo(t, c)
             \/ \E c \in Clients : Snapshot(c) \/ ReplayNext(c) \/ Drain(c) \/ Write(c)
             \/ Quiet
    BY <2>4, <2>5 DEF BroadcastTo, Snapshot, ReplayNext, Drain, Write, Quiet, subs, pubs
  <2> QED BY <1>0, <2>1, <2>2, <2>3, <2>5, StepKinds
<1> QED BY <1>0, <1>1, <1>2 DEF StagesInv

-----------------------------------------------------------------------------
(* Nothing due is lost.                                                     *)

\* An ID is covered for c if c holds it or it is being enqueued to it.
Covered(c, i) ==
    \/ \E m \in Held(c) : m.id = i
    \/ \E t \in Threads : pubPC[t] = "deliver" /\ c \in todo /\ pubMsg[t].id = i

DueInv == \A c \in Clients : Sound(c) => \A i \in due[c] : Covered(c, i)

LEMMA DueIsCovered == TypeOK => (DueInv <=> NothingDueIsLost)
<1> SUFFICES ASSUME TypeOK, NEW c \in Clients
             PROVE  \A i : Covered(c, i) <=>
                             i \in Ids(Feed(c)) \cup Ids(replay[c]) \cup InFlight(c)
  BY DEF DueInv, NothingDueIsLost
<1>1. Range(Feed(c)) = Range(wire[c]) \cup Range(batch[c]) \cup Range(queue[c])
  <2>1. /\ wire[c] \in Seq(Messages) /\ batch[c] \in Seq(Messages) /\ queue[c] \in Seq(Messages)
        /\ wire[c] \o batch[c] \in Seq(Messages)
    BY DEF TypeOK
  <2>2. Range(wire[c] \o batch[c]) = Range(wire[c]) \cup Range(batch[c])
    BY <2>1, RangeConcat
  <2>3. Range(wire[c] \o batch[c] \o queue[c]) = Range(wire[c] \o batch[c]) \cup Range(queue[c])
    BY <2>1, RangeConcat
  <2> QED BY <2>2, <2>3 DEF Feed
<1>2. \A i : i \in Ids(Feed(c)) \cup Ids(replay[c]) <=> \E m \in Held(c) : m.id = i
  <2>1. /\ Ids(Feed(c)) = {m.id : m \in Range(Feed(c))}
        /\ Ids(replay[c]) = {m.id : m \in Range(replay[c])}
    BY IdsOfRange
  <2> QED BY <1>1, <2>1 DEF Held
<1>3. \A i : i \in InFlight(c) <=>
                \E t \in Threads : pubPC[t] = "deliver" /\ c \in todo /\ pubMsg[t].id = i
  BY DEF InFlight
<1> QED BY <1>2, <1>3 DEF Covered

\* What a client holds after one more was enqueued to it.
LEMMA HeldAfterEnqueue ==
    ASSUME TypeOK, NEW c \in Clients, NEW m \in Messages, EnqueueTo(c, m)
    PROVE  /\ Sound(c)' => Sound(c) /\ Range(queue'[c]) = Range(queue[c]) \cup {m}
           /\ Range(queue'[c]) \subseteq Range(queue[c]) \cup {m}
           /\ \A d \in Clients \ {c} : queue'[d] = queue[d] /\ Sound(d)' = Sound(d)
<1>1. queue[c] \in Seq(Messages)
  BY DEF TypeOK
<1>2. CASE queue'[c] = Append(queue[c], m) /\ closed'[c] = closed[c] /\ socket'[c] = socket[c]
  <2>1. Range(queue'[c]) = Range(queue[c]) \cup {m}
    BY <1>1, <1>2, RangeAppend
  <2> QED BY <1>2, <2>1, EnqueueAlone DEF Sound
<1>3. CASE queue'[c] \in {queue[c], <<>>} /\ closed'[c]
  BY <1>3, EnqueueAlone, RangeEmpty DEF Sound
<1> QED BY <1>2, <1>3, EnqueueOutcome

\* Draining and writing move messages within what a client holds.
LEMMA HeldAfterDrain ==
    ASSUME TypeOK, ClientPhases, NEW c \in Clients, Drain(c)
    PROVE  /\ \A d \in Clients : Held(d)' = Held(d) /\ Sound(d)' = Sound(d)
           /\ UNCHANGED <<nextMsgID, eventBuf, subscribers, subsMu, todo, pubPC, pubMsg,
                          handler, replay, due, fresh>>
<1>1. /\ batch[c] = <<>>
      /\ batch' = [batch EXCEPT ![c] = queue[c]]
      /\ queue' = [queue EXCEPT ![c] = <<>>]
      /\ UNCHANGED <<closed, socket, wire, replay>>
  BY DEF Drain, QueueTaken, ClientPhases, TypeOK, conns
<1>2. ASSUME NEW d \in Clients PROVE Held(d)' = Held(d) /\ Sound(d)' = Sound(d)
  <2>1. CASE d = c
    BY <1>1, <2>1, RangeEmpty DEF Held, Sound, TypeOK
  <2>2. CASE d # c
    BY <1>1, <2>2 DEF Held, Sound, TypeOK
  <2> QED BY <2>1, <2>2
<1> QED BY <1>2 DEF Drain, stream, subs, pubs, conns, history

LEMMA HeldAfterWrite ==
    ASSUME TypeOK, WriterHasBatch, NEW c \in Clients, Write(c)
    PROVE  /\ \A d \in Clients : /\ Held(d)' \subseteq Held(d)
                                 /\ Sound(d)' => Sound(d) /\ Held(d)' = Held(d)
           /\ UNCHANGED <<nextMsgID, eventBuf, subscribers, subsMu, todo, pubPC, pubMsg,
                          handler, replay, due, fresh>>
<1>1. /\ batch[c] \in Seq(Messages) /\ batch[c] # <<>> /\ wire[c] \in Seq(Messages)
      /\ batch' = [batch EXCEPT ![c] = Tail(batch[c])]
      /\ wire' = IF socket[c] = "up" THEN [wire EXCEPT ![c] = Append(wire[c], Head(batch[c]))]
                 ELSE wire
      /\ UNCHANGED <<queue, closed, socket, replay>>
  BY DEF Write, WriterHasBatch, TypeOK, queues, conns
<1>2. Head(batch[c]) \in Messages /\ Range(batch[c]) = {Head(batch[c])} \cup Range(Tail(batch[c]))
  BY <1>1, HeadTailProperties, RangeTail
<1>3. Range(Append(wire[c], Head(batch[c]))) = Range(wire[c]) \cup {Head(batch[c])}
  BY <1>1, <1>2, RangeAppend
<1>4. ASSUME NEW d \in Clients
      PROVE  Held(d)' \subseteq Held(d) /\ (Sound(d)' => Sound(d) /\ Held(d)' = Held(d))
  <2>1. CASE d = c /\ socket[c] = "up"
    <3>1. /\ Range(wire'[c]) = Range(wire[c]) \cup {Head(batch[c])}
          /\ Range(batch'[c]) = Range(Tail(batch[c]))
          /\ queue'[c] = queue[c] /\ replay'[c] = replay[c]
      BY <1>1, <1>3, <2>1 DEF TypeOK
    <3> QED BY <1>1, <1>2, <2>1, <3>1 DEF Held, Sound
  <2>2. CASE d = c /\ socket[c] # "up"
    <3>1. wire'[c] = wire[c] /\ Range(batch'[c]) = Range(Tail(batch[c])) /\ ~Sound(c)'
      BY <1>1, <2>2 DEF TypeOK, Sound
    <3> QED BY <1>1, <1>2, <2>2, <3>1 DEF Held
  <2>3. CASE d # c
    <3>1. wire'[d] = wire[d] /\ batch'[d] = batch[d]
      BY <1>1, <2>3 DEF TypeOK
    <3> QED BY <1>1, <3>1 DEF Held, Sound
  <2> QED BY <2>1, <2>2, <2>3
<1> QED BY <1>4 DEF Write, stream, subs, pubs, conns, history

\* Replaying moves the oldest of the replay to the queue.
LEMMA HeldAfterReplay ==
    ASSUME TypeOK, NEW c \in Clients, ReplayNext(c)
    PROVE  /\ \A d \in Clients : /\ Held(d)' \subseteq Held(d)
                                 /\ Sound(d)' => Sound(d) /\ Held(d)' = Held(d)
           /\ \A d \in Clients : Range(replay'[d]) \subseteq Range(replay[d])
           /\ UNCHANGED <<nextMsgID, eventBuf, subscribers, subsMu, todo, pubPC, pubMsg,
                          handler, batch, wire, due, fresh>>
<1>1. /\ replay[c] \in Seq(Messages) /\ replay[c] # <<>>
      /\ replay' = [replay EXCEPT ![c] = Tail(replay[c])]
      /\ EnqueueTo(c, Head(replay[c]))
      /\ UNCHANGED <<batch, wire>>
  BY DEF ReplayNext, TypeOK, writers
<1>2. Head(replay[c]) \in Messages /\ Range(replay[c]) = {Head(replay[c])} \cup Range(Tail(replay[c]))
  BY <1>1, HeadTailProperties, RangeTail
<1>3. /\ Sound(c)' => Sound(c) /\ Range(queue'[c]) = Range(queue[c]) \cup {Head(replay[c])}
      /\ Range(queue'[c]) \subseteq Range(queue[c]) \cup {Head(replay[c])}
      /\ \A d \in Clients \ {c} : queue'[d] = queue[d] /\ Sound(d)' = Sound(d)
  BY <1>1, <1>2, HeldAfterEnqueue
<1>4. replay'[c] = Tail(replay[c]) /\ \A d \in Clients \ {c} : replay'[d] = replay[d]
  BY <1>1 DEF TypeOK
<1>5. ASSUME NEW d \in Clients
      PROVE  /\ Held(d)' \subseteq Held(d)
             /\ Sound(d)' => Sound(d) /\ Held(d)' = Held(d)
             /\ Range(replay'[d]) \subseteq Range(replay[d])
  <2>1. CASE d = c
    BY <1>1, <1>2, <1>3, <1>4, <2>1 DEF Held
  <2>2. CASE d # c
    BY <1>1, <1>3, <1>4, <2>2 DEF Held
  <2> QED BY <2>1, <2>2
<1> QED BY <1>5 DEF ReplayNext, stream, subs, pubs, writers, history

LEMMA DueStep ==
    ASSUME StagesInv, DueInv, [Next]_vars
    PROVE  DueInv'
<1>0. /\ TypeOK /\ CarriesMessage /\ WriterHasBatch /\ ClientPhases
      /\ AttachPhases /\ DelivererLocks /\ HandsAreSorted /\ TypeOK'
  BY NextInv DEF StagesInv, RInv, IInv, TypeInv
<1>1. ASSUME NEW t \in Threads, NEW kind \in Kinds, NEW pc \in {"append", "broadcast", "emit"},
             AssignID(t, kind, pc)
      PROVE  DueInv'
  <2>1. /\ UNCHANGED <<todo, replay, queue, closed, socket, batch, wire, due>>
        /\ pubPC[t] = "idle"
        /\ \A u \in Threads \ {t} : pubPC'[u] = pubPC[u] /\ pubMsg'[u] = pubMsg[u]
    BY <1>0, <1>1 DEF AssignID, MayPublish, TypeOK, subs, conns, queues, writers, history
  <2> QED BY <1>0, <2>1 DEF DueInv, Covered, Held, Sound
<1>2. ASSUME NEW t \in Threads, AppendToRing(t)
      PROVE  DueInv'
  <2>1. /\ UNCHANGED <<todo, replay, queue, closed, socket, batch, wire, due, pubMsg>>
        /\ \A u \in Threads : pubPC[u] = "deliver" => pubPC'[u] = "deliver"
    BY <1>0, <1>2 DEF AppendToRing, TypeOK, subs, conns, queues, writers, history
  <2> QED BY <1>0, <2>1 DEF DueInv, Covered, Held, Sound
<1>3. ASSUME NEW t \in Threads, BroadcastLock(t)
      PROVE  DueInv'
  <2>1. /\ UNCHANGED <<replay, queue, closed, socket, batch, wire, pubMsg>>
        /\ todo' = subscribers /\ pubPC'[t] = "deliver"
        /\ \A u \in Threads : pubPC[u] # "deliver"
        /\ \A c \in Clients : due'[c] = IF c \in subscribers THEN due[c] \cup {pubMsg[t].id}
                                        ELSE due[c]
    BY <1>0, <1>3, StreamAssumption
    DEF BroadcastLock, Audience, DelivererLocks, TypeOK, conns, queues, writers
  <2>2. ASSUME NEW c \in Clients, Sound(c)', NEW i \in due'[c] PROVE Covered(c, i)'
    <3>1. CASE i \in due[c]
      BY <2>1, <2>2, <3>1 DEF DueInv, Covered, Held, Sound
    <3>2. CASE c \in subscribers /\ i = pubMsg[t].id
      BY <2>1, <3>2 DEF Covered
    <3> QED BY <2>1, <2>2, <3>1, <3>2
  <2> QED BY <2>2 DEF DueInv
<1>4. ASSUME NEW t \in Threads, BroadcastUnlock(t)
      PROVE  DueInv'
  <2>1. /\ UNCHANGED <<replay, queue, closed, socket, batch, wire, due, todo>>
        /\ todo = {}
    BY <1>4 DEF BroadcastUnlock, conns, queues, writers, history
  <2> QED BY <2>1 DEF DueInv, Covered, Held, Sound
<1>5. ASSUME NEW t \in Threads, NEW c \in Clients, BroadcastTo(t, c)
      PROVE  DueInv'
  <2>1. /\ pubPC[t] = "deliver" /\ pubMsg[t] \in Messages /\ EnqueueTo(c, pubMsg[t])
        /\ todo' = todo \ {c}
        /\ UNCHANGED <<replay, batch, wire, due, pubPC, pubMsg>>
        /\ \A u \in Threads : pubPC[u] = "deliver" => u = t
    BY <1>0, <1>5 DEF BroadcastTo, CarriesMessage, DelivererLocks, pubs, conns, writers, history
  <2>2. /\ Sound(c)' => Sound(c) /\ Range(queue'[c]) = Range(queue[c]) \cup {pubMsg[t]}
        /\ \A d \in Clients \ {c} : queue'[d] = queue[d] /\ Sound(d)' = Sound(d)
    BY <1>0, <2>1, HeldAfterEnqueue
  <2>3. ASSUME NEW d \in Clients, Sound(d)', NEW i \in due'[d] PROVE Covered(d, i)'
    <3>1. CASE d = c
      <4>1. Covered(c, i)
        BY <2>1, <2>2, <2>3, <3>1 DEF DueInv
      <4>2. Held(c)' = Held(c) \cup {pubMsg[t]}
        BY <2>1, <2>2, <2>3, <3>1 DEF Held
      <4> QED BY <2>1, <3>1, <4>1, <4>2 DEF Covered
    <3>2. CASE d # c
      <4>1. Covered(d, i) /\ Held(d)' = Held(d)
        BY <2>1, <2>2, <2>3, <3>2 DEF DueInv, Held
      <4> QED BY <2>1, <3>2, <4>1 DEF Covered
    <3> QED BY <3>1, <3>2
  <2> QED BY <2>3 DEF DueInv
<1>6. ASSUME NEW c \in Clients, EmitEnqueue(c)
      PROVE  DueInv'
  <2>1. /\ c \in Threads /\ pubPC[c] = "emit" /\ pubMsg[c] \in Messages
        /\ EnqueueTo(c, pubMsg[c])
        /\ UNCHANGED <<replay, batch, wire, due, todo>>
        /\ \A u \in Threads \ {c} : pubPC'[u] = pubPC[u] /\ pubMsg'[u] = pubMsg[u]
    BY <1>0, <1>6 DEF EmitEnqueue, CarriesMessage, TypeOK, Threads, subs, conns, writers, history
  <2>2. /\ Sound(c)' => Sound(c) /\ Range(queue'[c]) = Range(queue[c]) \cup {pubMsg[c]}
        /\ \A d \in Clients \ {c} : queue'[d] = queue[d] /\ Sound(d)' = Sound(d)
    BY <1>0, <2>1, HeldAfterEnqueue
  <2>3. ASSUME NEW d \in Clients, Sound(d)', NEW i \in due'[d] PROVE Covered(d, i)'
    <3>1. Covered(d, i)
      BY <2>1, <2>2, <2>3 DEF DueInv
    <3>2. Held(d) \subseteq Held(d)'
      BY <2>1, <2>2, <2>3 DEF Held
    <3> QED BY <2>1, <3>1, <3>2 DEF Covered
  <2> QED BY <2>3 DEF DueInv
<1>7. ASSUME NEW c \in Clients, Snapshot(c)
      PROVE  DueInv'
  <2>1. /\ UNCHANGED <<queue, closed, socket, batch, wire, pubPC, pubMsg, todo>>
        /\ replay[c] = <<>>
        /\ replay'[c] = eventBuf /\ due'[c] = due[c] \cup Ids(eventBuf)
        /\ \A d \in Clients \ {c} : replay'[d] = replay[d] /\ due'[d] = due[d]
    BY <1>0, <1>7 DEF Snapshot, AttachPhases, TypeOK, subs, pubs, queues, writers
  <2>2. ASSUME NEW d \in Clients, Sound(d)', NEW i \in due'[d] PROVE Covered(d, i)'
    <3>1. Held(d) \subseteq Held(d)'
      BY <2>1, RangeEmpty DEF Held
    <3>2. CASE i \in due[d]
      BY <2>1, <2>2, <3>1, <3>2 DEF DueInv, Covered, Sound
    <3>3. CASE d = c /\ i \in Ids(eventBuf)
      BY <2>1, <3>3, IdsOfRange DEF Covered, Held
    <3> QED BY <2>1, <2>2, <3>2, <3>3
  <2> QED BY <2>2 DEF DueInv
<1>8. ASSUME NEW c \in Clients, ReplayNext(c)
      PROVE  DueInv'
  <2>1. UNCHANGED <<todo, pubPC, pubMsg, due>>
    BY <1>0, <1>8, HeldAfterReplay
  <2>2. \A d \in Clients : Sound(d)' => Sound(d) /\ Held(d)' = Held(d)
    BY <1>0, <1>8, HeldAfterReplay
  <2> QED BY <2>1, <2>2 DEF DueInv, Covered
<1>9. ASSUME NEW c \in Clients, Drain(c) \/ Write(c)
      PROVE  DueInv'
  <2>1. UNCHANGED <<todo, pubPC, pubMsg, due>>
    BY <1>0, <1>9, HeldAfterDrain, HeldAfterWrite
  <2>2. \A d \in Clients : Sound(d)' => Sound(d) /\ Held(d)' = Held(d)
    BY <1>0, <1>9, HeldAfterDrain, HeldAfterWrite
  <2> QED BY <2>1, <2>2 DEF DueInv, Covered
<1>10. CASE Quiet
  <2>1. ASSUME NEW c \in Clients, Sound(c)', NEW i \in due'[c] PROVE Covered(c, i)'
    <3>1. CASE handler[c] = "off"
      BY <1>0, <1>10, <2>1, <3>1 DEF Quiet, AttachPhases
    <3>2. CASE handler[c] # "off"
      BY <1>10, <2>1, <3>2 DEF Quiet, DueInv, Covered, Held
    <3> QED BY <3>1, <3>2
  <2> QED BY <2>1 DEF DueInv
<1> QED BY <1>0, <1>1, <1>2, <1>3, <1>4, <1>5, <1>6, <1>7, <1>8, <1>9, <1>10, StepKinds

\* What is broadcast or replayed to a client whose connection is sound has been
\* written to it, or is queued, or is being enqueued: however publishers, replay
\* and writeLoop interleave, nothing is dropped short of cutting the client.
THEOREM NothingIsLost == Spec => []NothingDueIsLost
<1>1. Init => DueInv
  BY DEF Init, DueInv
<1>2. StagesInv /\ DueInv => NothingDueIsLost
  BY DueIsCovered DEF StagesInv, RInv, IInv, TypeInv
<1>3. StagesInv /\ DueInv /\ [Next]_vars => DueInv'
  BY DueStep
<1> QED BY InitStages, StagesStep, <1>1, <1>2, <1>3, PTL DEF Spec

-----------------------------------------------------------------------------
(* A fresh client misses nothing.                                           *)

\* An ID the ring holds is due to c, or a thread has yet to broadcast it.
Expected(c, i) == \/ i \in due[c]
                  \/ \E t \in Threads : pubPC[t] = "broadcast" /\ pubMsg[t].id = i

FreshInv == \A c \in fresh \cap subscribers : \A i \in Ids(eventBuf) : Expected(c, i)

\* Trimming drops messages only.
LEMMA RangeTrim ==
    ASSUME NEW buf \in Seq(Messages)
    PROVE  Range(Trim(buf)) \subseteq Range(buf)
<1>1. CASE Len(buf) > RingMax
  <2> DEFINE from == Len(buf) - RingMax + 1
  <2>1. Len(buf) \in Nat /\ from \in 1..Len(buf) /\ Trim(buf) = SubSeq(buf, from, Len(buf))
    BY <1>1, StreamAssumption DEF Trim
  <2> HIDE DEF from
  <2>2. /\ DOMAIN SubSeq(buf, from, Len(buf)) = 1..Len(buf) - from + 1
        /\ \A i \in 1..Len(buf) - from + 1 :
              SubSeq(buf, from, Len(buf))[i] = buf[from + i - 1]
    BY <2>1
  <2>3. \A i \in 1..Len(buf) - from + 1 : from + i - 1 \in DOMAIN buf
    BY <2>1
  <2> QED BY <2>1, <2>2, <2>3 DEF Range
<1>2. CASE ~(Len(buf) > RingMax)
  BY <1>2 DEF Trim
<1> QED BY <1>1, <1>2

LEMMA FreshStep ==
    ASSUME StagesInv, FreshInv, [Next]_vars
    PROVE  FreshInv'
<1>0. /\ TypeOK /\ CarriesMessage /\ WriterHasBatch /\ ClientPhases
      /\ AttachPhases /\ HandsAreSorted
  BY DEF StagesInv, RInv, IInv, TypeInv
<1>1. ASSUME NEW t \in Threads, NEW kind \in Kinds, NEW pc \in {"append", "broadcast", "emit"},
             AssignID(t, kind, pc)
      PROVE  FreshInv'
  <2>1. /\ UNCHANGED <<eventBuf, subscribers, due, fresh>>
        /\ pubPC[t] = "idle"
        /\ \A u \in Threads \ {t} : pubPC'[u] = pubPC[u] /\ pubMsg'[u] = pubMsg[u]
    BY <1>0, <1>1 DEF AssignID, MayPublish, TypeOK, subs, history
  <2> QED BY <2>1 DEF FreshInv, Expected
<1>2. ASSUME NEW t \in Threads, AppendToRing(t)
      PROVE  FreshInv'
  <2>1. /\ UNCHANGED <<subscribers, due, fresh, pubMsg>>
        /\ pubPC[t] = "append" /\ pubPC'[t] = "broadcast"
        /\ \A u \in Threads \ {t} : pubPC'[u] = pubPC[u]
        /\ pubMsg[t] \in Messages /\ eventBuf \in Seq(Messages)
        /\ eventBuf' = Trim(Append(eventBuf, pubMsg[t]))
    BY <1>0, <1>2 DEF AppendToRing, CarriesMessage, TypeOK, subs, history
  <2>2. Range(eventBuf') \subseteq Range(eventBuf) \cup {pubMsg[t]}
    <3>1. Append(eventBuf, pubMsg[t]) \in Seq(Messages)
      BY <2>1
    <3>2. Range(Trim(Append(eventBuf, pubMsg[t]))) \subseteq Range(Append(eventBuf, pubMsg[t]))
      BY <3>1, RangeTrim
    <3>3. Range(Append(eventBuf, pubMsg[t])) = Range(eventBuf) \cup {pubMsg[t]}
      BY <2>1, RangeAppend
    <3> QED BY <2>1, <3>2, <3>3
  <2>3. Ids(eventBuf') \subseteq Ids(eventBuf) \cup {pubMsg[t].id}
    BY <2>2, IdsOfRange
  <2> QED BY <2>1, <2>3 DEF FreshInv, Expected
<1>3. ASSUME NEW t \in Threads, BroadcastLock(t)
      PROVE  FreshInv'
  <2>1. /\ UNCHANGED <<eventBuf, subscribers, fresh, pubMsg>>
        /\ \A u \in Threads \ {t} : pubPC'[u] = pubPC[u]
        /\ \A c \in Clients : due[c] \subseteq due'[c]
        /\ \A c \in subscribers : pubMsg[t].id \in due'[c]
    BY <1>0, <1>3 DEF BroadcastLock, Audience, TypeOK, stream
  <2>2. subscribers \subseteq Clients
    BY <1>0 DEF TypeOK
  <2> QED BY <2>1, <2>2 DEF FreshInv, Expected
<1>4. ASSUME NEW t \in Threads, BroadcastUnlock(t)
      PROVE  FreshInv'
  <2>1. /\ UNCHANGED <<eventBuf, subscribers, due, fresh>>
        /\ pubPC[t] # "broadcast"
        /\ \A u \in Threads \ {t} : pubPC'[u] = pubPC[u] /\ pubMsg'[u] = pubMsg[u]
    BY <1>0, <1>4 DEF BroadcastUnlock, TypeOK, stream, history
  <2> QED BY <2>1 DEF FreshInv, Expected
<1>5. ASSUME NEW c \in Clients, EmitEnqueue(c)
      PROVE  FreshInv'
  <2>1. /\ UNCHANGED <<eventBuf, subscribers, due, fresh>>
        /\ pubPC[c] # "broadcast"
        /\ \A u \in Threads \ {c} : pubPC'[u] = pubPC[u] /\ pubMsg'[u] = pubMsg[u]
    BY <1>0, <1>5 DEF EmitEnqueue, TypeOK, Threads, stream, subs, history
  <2> QED BY <2>1 DEF FreshInv, Expected
<1>6. ASSUME NEW c \in Clients, Snapshot(c)
      PROVE  FreshInv'
  <2>1. /\ UNCHANGED <<eventBuf, subscribers, pubPC, pubMsg>>
        /\ fresh' = fresh \cup {c}
        /\ due'[c] = due[c] \cup Ids(eventBuf)
        /\ \A d \in Clients \ {c} : due'[d] = due[d]
        /\ subscribers \subseteq Clients
    BY <1>0, <1>6 DEF Snapshot, TypeOK, stream, subs, pubs
  <2> QED BY <2>1 DEF FreshInv, Expected
<1>7. CASE UNCHANGED <<eventBuf, subscribers, pubPC, pubMsg, due, fresh>>
  BY <1>7 DEF FreshInv, Expected
<1>8. ASSUME NEW t \in Threads, NEW c \in Clients, BroadcastTo(t, c) PROVE FreshInv'
  BY <1>7, <1>8 DEF BroadcastTo, stream, pubs, history
<1>9. ASSUME NEW c \in Clients, ReplayNext(c) \/ Drain(c) \/ Write(c) PROVE FreshInv'
  BY <1>7, <1>9 DEF ReplayNext, Drain, Write, stream, subs, pubs, history
<1>10. CASE Quiet
  <2>1. \A c \in fresh' \cap subscribers' : c \in fresh \cap subscribers
    BY <1>0, <1>10 DEF Quiet, AttachPhases, TypeOK
  <2> QED BY <1>10, <2>1 DEF Quiet, FreshInv, Expected
<1> QED BY <1>0, <1>1, <1>2, <1>3, <1>4, <1>5, <1>6, <1>8, <1>9, <1>10, StepKinds

\* handleWS subscribes before it copies the ring, publish appends before it
\* broadcasts: whatever the ring holds is due to a client that was replayed it, or
\* about to be, however its attach interleaves with publishers.
THEOREM FreshClientsMissNothing == Spec => []FreshClientMissesNothing
<1>1. Init => FreshInv
  BY DEF Init, FreshInv
<1>2. FreshInv => FreshClientMissesNothing
  BY DEF FreshInv, Expected, FreshClientMissesNothing
<1>3. StagesInv /\ FreshInv /\ [Next]_vars => FreshInv'
  BY FreshStep
<1> QED BY InitStages, StagesStep, <1>1, <1>2, <1>3, PTL DEF Spec

-----------------------------------------------------------------------------
(* An ID names one message, and private output stays with its client.       *)

Buffered == {m \in Everywhere : m.kind = "buffered"}
Public == {m \in Everywhere : m.kind # "private"}

\* A step that numbers no message: threads put down what they carry, the ring and
\* the replays hold what was to be retained, and a client holds what it had or was
\* emitting and what may be public.
Moves ==
    /\ nextMsgID' = nextMsgID
    /\ \A t \in Threads : pubPC'[t] # "idle" => pubPC[t] # "idle" /\ pubMsg'[t] = pubMsg[t]
    /\ \A c \in Clients : pubPC'[c] = "emit" => pubPC[c] = "emit"
    /\ Range(eventBuf') \subseteq Buffered
    /\ \A c \in Clients : Range(replay'[c]) \subseteq Buffered
    /\ \A c \in Clients : Held(c)' \subseteq Own(c) \cup Public

LEMMA WhatIsEverywhere ==
    /\ \A m : m \in Everywhere <=> \/ m \in Range(eventBuf) \/ m \in InHand
                                   \/ \E c \in Clients : m \in Held(c)
    /\ \A c \in Clients : \A m : m \in Own(c) <=>
          m \in Held(c) \/ (m \in InHand /\ pubPC[c] = "emit" /\ m = pubMsg[c])
    /\ \A m : m \in InHand <=> \E t \in Threads : pubPC[t] # "idle" /\ m = pubMsg[t]
<1>1. \A m : m \in Everywhere <=> \/ m \in Range(eventBuf) \/ m \in InHand
                                 \/ \E c \in Clients : m \in Held(c)
  <2>1. \A m : m \in HeldByAny <=> \E c \in Clients : m \in Held(c)
    BY Zenon DEF HeldByAny
  <2> QED BY <2>1 DEF Everywhere
<1>2. \A c \in Clients : \A m : m \in Own(c) <=>
          m \in Held(c) \/ (m \in InHand /\ pubPC[c] = "emit" /\ m = pubMsg[c])
  BY Zenon DEF Own
<1>3. \A m : m \in InHand <=> \E t \in Threads : pubPC[t] # "idle" /\ m = pubMsg[t]
  BY Zenon DEF InHand
<1> QED BY <1>1, <1>2, <1>3

LEMMA MovesKeepNames ==
    ASSUME NamesInv, PrivateInv, Moves
    PROVE  NamesInv' /\ PrivateInv'
<1>1. \A c \in Clients : Own(c) \subseteq Everywhere
  BY WhatIsEverywhere
<1>2. InHand' \subseteq InHand
  BY DEF Moves, InHand
<1>3. Everywhere' \subseteq Everywhere
  <2> SUFFICES ASSUME NEW m \in Everywhere' PROVE m \in Everywhere
    OBVIOUS
  <2>1. CASE m \in Range(eventBuf') \/ m \in InHand'
    BY <1>2, <2>1 DEF Moves, Everywhere, Buffered
  <2>2. CASE m \in HeldByAny'
    <3>1. PICK c \in Clients : m \in Held(c)'
      BY <2>2 DEF HeldByAny
    <3> QED BY <1>1, <3>1 DEF Moves, Public
  <2> QED BY <2>1, <2>2 DEF Everywhere
<1>4. NamesInv'
  <2>1. \A m \in Everywhere' : m.id \in 0..nextMsgID'
    BY <1>3 DEF NamesInv, Moves
  <2>2. \A m, n \in Everywhere' : m.id = n.id => m = n
    BY <1>3 DEF NamesInv
  <2>3. \A t, u \in Threads : pubPC'[t] # "idle" /\ pubPC'[u] # "idle" /\ t # u =>
                                pubMsg'[t].id # pubMsg'[u].id
    BY DEF NamesInv, Moves
  <2> QED BY <2>1, <2>2, <2>3 DEF NamesInv
<1>5. \A c \in Clients : Own(c)' \subseteq Own(c) \cup Public
  <2> SUFFICES ASSUME NEW c \in Clients, NEW m \in Own(c)', m \notin Held(c)'
               PROVE  m \in Own(c)
    BY DEF Moves
  <2>1. m \in InHand' /\ pubPC'[c] = "emit" /\ m = pubMsg'[c]
    BY DEF Own
  <2>2. c \in Threads /\ pubPC[c] = "emit" /\ pubMsg'[c] = pubMsg[c]
    BY <2>1 DEF Moves, Threads
  <2> QED BY <1>2, <2>1, <2>2 DEF Own
<1>6. PrivateInv'
  <2>1. \A m \in (Range(eventBuf) \cup UNION {Range(replay[c]) : c \in Clients})' :
           m.kind = "buffered"
    BY DEF Moves, Buffered
  <2>2. ASSUME NEW c \in Clients, NEW d \in Clients, c # d, NEW m \in Own(c)' \cap Own(d)'
        PROVE  m.kind # "private"
    BY <1>5, <2>2 DEF PrivateInv, Public
  <2> QED BY <2>1, <2>2 DEF PrivateInv
<1> QED BY <1>4, <1>6

\* A message is numbered past every ID in use.
LEMMA AssignKeepsNames ==
    ASSUME TypeOK, HandsAreSorted, NamesInv, PrivateInv,
           NEW t \in Threads, NEW kind \in Kinds, NEW pc \in {"append", "broadcast", "emit"},
           AssignID(t, kind, pc)
    PROVE  NamesInv' /\ PrivateInv'
<1> DEFINE new == [id |-> nextMsgID + 1, kind |-> kind]
<1>1. /\ nextMsgID' = nextMsgID + 1 /\ nextMsgID \in Nat
      /\ pubPC[t] = "idle" /\ pubPC'[t] = pc /\ pc # "idle"
      /\ pubMsg'[t] = new
      /\ \A u \in Threads \ {t} : pubPC'[u] = pubPC[u] /\ pubMsg'[u] = pubMsg[u]
      /\ UNCHANGED <<eventBuf, replay, queue, batch, wire>>
  BY DEF AssignID, MayPublish, Count, TypeOK, conns, queues, writers
<1>2. InHand' = InHand \cup {new}
  BY <1>1 DEF InHand
<1>3. Everywhere' = Everywhere \cup {new} /\ \A c \in Clients : Held(c)' = Held(c)
  <2>1. \A c \in Clients : Held(c)' = Held(c)
    BY <1>1 DEF Held
  <2>2. HeldByAny' = HeldByAny
    BY <2>1 DEF HeldByAny
  <2> QED BY <1>1, <1>2, <2>1, <2>2 DEF Everywhere
<1>4. new.id = nextMsgID + 1 /\ new \notin Everywhere
  BY <1>1 DEF NamesInv
<1> HIDE DEF new
<1>5. \A m \in Everywhere' : m.id \in 0..nextMsgID'
  <2>1. \A m \in Everywhere : m.id \in 0..nextMsgID
    BY DEF NamesInv
  <2>2. \A m \in Everywhere : m.id \in 0..nextMsgID + 1
    BY <1>1, <2>1
  <2> QED BY <1>1, <1>3, <1>4, <2>2
<1>6. \A m, n \in Everywhere' : m.id = n.id => m = n
  <2>1. \A m \in Everywhere : m.id # new.id
    BY <1>1, <1>4 DEF NamesInv
  <2> QED BY <1>3, <2>1 DEF NamesInv
<1>7. \A u, v \in Threads : pubPC'[u] # "idle" /\ pubPC'[v] # "idle" /\ u # v =>
                             pubMsg'[u].id # pubMsg'[v].id
  <2>1. ASSUME NEW u \in Threads, u # t, pubPC[u] # "idle" PROVE pubMsg[u].id # new.id
    <3>1. pubMsg[u] \in Everywhere
      BY <2>1 DEF Everywhere, InHand
    <3> QED BY <1>1, <1>4, <3>1 DEF NamesInv
  <2> QED BY <1>1, <2>1 DEF NamesInv
<1>8. PrivateInv'
  <2>1. UNCHANGED <<Range(eventBuf), UNION {Range(replay[c]) : c \in Clients}>>
    BY <1>1
  <2>2. ASSUME NEW c \in Clients, NEW m \in Own(c)'
        PROVE  m \in Own(c) \/ (m = new /\ c = t)
    <3>1. CASE m \in Held(c)'
      BY <1>3, <3>1 DEF Own
    <3>2. CASE m \in InHand' /\ pubPC'[c] = "emit" /\ m = pubMsg'[c]
      BY <1>1, <1>2, <3>2 DEF Own, Threads, InHand
    <3> QED BY <2>2, <3>1, <3>2 DEF Own
  <2>3. \A c \in Clients : Own(c) \subseteq Everywhere
    BY WhatIsEverywhere
  <2>4. \A c, d \in Clients : c # d => \A m \in Own(c)' \cap Own(d)' : m.kind # "private"
    BY <1>4, <2>2, <2>3 DEF PrivateInv
  <2> QED BY <2>1, <2>4 DEF PrivateInv
<1> QED BY <1>5, <1>6, <1>7, <1>8 DEF NamesInv

\* What broadcast and emit enqueue, and what a client holds of itself.
LEMMA OwnAndPublic ==
    ASSUME StagesInv, PrivateInv
    PROVE  /\ \A c \in Clients : Held(c) \subseteq Own(c) /\ Range(replay[c]) \subseteq Buffered
           /\ Range(eventBuf) \subseteq Buffered
           /\ Buffered \subseteq Public
           /\ \A t \in Threads : pubPC[t] \in {"broadcast", "deliver"} => pubMsg[t] \in Public
           /\ \A t \in Threads : pubPC[t] = "append" => pubMsg[t] \in Buffered
           /\ \A c \in Clients : pubPC[c] = "emit" => pubMsg[c] \in Own(c)
<1>1. \A t \in Threads : pubPC[t] # "idle" => pubMsg[t] \in InHand
  BY DEF InHand
<1>2. HandsAreSorted
  BY DEF StagesInv
<1>3. \A c \in Clients : Range(replay[c]) \subseteq Held(c) /\ Held(c) \subseteq Everywhere
  BY WhatIsEverywhere DEF Held
<1>4. \A c \in Clients : Held(c) \subseteq Own(c) /\ Range(replay[c]) \subseteq Buffered
  BY <1>3 DEF Own, PrivateInv, Buffered
<1>5. Range(eventBuf) \subseteq Buffered /\ Buffered \subseteq Public
  BY DEF PrivateInv, Buffered, Public, Everywhere
<1>6. \A t \in Threads : pubPC[t] \in {"broadcast", "deliver"} => pubMsg[t] \in Public
  BY <1>1, <1>2 DEF HandsAreSorted, Public, Everywhere
<1>7. \A t \in Threads : pubPC[t] = "append" => pubMsg[t] \in Buffered
  BY <1>1, <1>2 DEF HandsAreSorted, Buffered, Everywhere
<1>8. \A c \in Clients : pubPC[c] = "emit" => pubMsg[c] \in Own(c)
  BY <1>1 DEF Own, Threads
<1> QED BY <1>4, <1>5, <1>6, <1>7, <1>8

LEMMA StepMoves ==
    ASSUME StagesInv, PrivateInv, [Next]_vars
    PROVE  \/ Moves
           \/ \E t \in Threads, kind \in Kinds, pc \in {"append", "broadcast", "emit"} :
                 AssignID(t, kind, pc)
<1>0. /\ TypeOK /\ CarriesMessage /\ WriterHasBatch /\ ClientPhases
      /\ AttachPhases /\ HandsAreSorted
  BY DEF StagesInv, RInv, IInv, TypeInv
<1>1. /\ \A c \in Clients : Held(c) \subseteq Own(c) /\ Range(replay[c]) \subseteq Buffered
      /\ Range(eventBuf) \subseteq Buffered
      /\ Buffered \subseteq Public
      /\ \A t \in Threads : pubPC[t] \in {"broadcast", "deliver"} => pubMsg[t] \in Public
      /\ \A t \in Threads : pubPC[t] = "append" => pubMsg[t] \in Buffered
      /\ \A c \in Clients : pubPC[c] = "emit" => pubMsg[c] \in Own(c)
  BY OwnAndPublic
<1>2. ASSUME NEW t \in Threads, AppendToRing(t)
      PROVE  Moves
  <2>1. /\ UNCHANGED <<nextMsgID, pubMsg, replay, queue, batch, wire>>
        /\ pubPC[t] = "append" /\ pubPC'[t] = "broadcast"
        /\ \A u \in Threads \ {t} : pubPC'[u] = pubPC[u]
        /\ pubMsg[t] \in Messages /\ eventBuf \in Seq(Messages)
        /\ eventBuf' = Trim(Append(eventBuf, pubMsg[t]))
    BY <1>0, <1>2 DEF AppendToRing, CarriesMessage, TypeOK, conns, queues, writers
  <2>2. Range(eventBuf') \subseteq Range(eventBuf) \cup {pubMsg[t]}
    <3>1. Append(eventBuf, pubMsg[t]) \in Seq(Messages)
      BY <2>1
    <3>2. Range(Trim(Append(eventBuf, pubMsg[t]))) \subseteq Range(Append(eventBuf, pubMsg[t]))
      BY <3>1, RangeTrim
    <3>3. Range(Append(eventBuf, pubMsg[t])) = Range(eventBuf) \cup {pubMsg[t]}
      BY <2>1, RangeAppend
    <3> QED BY <2>1, <3>2, <3>3
  <2>3. \A c \in Clients : Held(c)' = Held(c)
    BY <2>1 DEF Held
  <2> QED BY <1>1, <2>1, <2>2, <2>3 DEF Moves, Threads
<1>3. ASSUME NEW t \in Threads, BroadcastLock(t) \/ BroadcastUnlock(t)
      PROVE  Moves
  <2>1. /\ UNCHANGED <<nextMsgID, eventBuf, replay, queue, batch, wire>>
        /\ pubPC[t] \in {"broadcast", "deliver"} /\ pubPC'[t] \in {"deliver", "idle"}
        /\ pubPC'[t] # "idle" => pubMsg'[t] = pubMsg[t]
        /\ \A u \in Threads \ {t} : pubPC'[u] = pubPC[u] /\ pubMsg'[u] = pubMsg[u]
    BY <1>0, <1>3 DEF BroadcastLock, BroadcastUnlock, TypeOK, stream, conns, queues, writers
  <2>2. \A c \in Clients : Held(c)' = Held(c)
    BY <2>1 DEF Held
  <2> QED BY <1>1, <2>1, <2>2 DEF Moves, Threads
<1>4. ASSUME NEW t \in Threads, NEW c \in Clients, BroadcastTo(t, c)
      PROVE  Moves
  <2>1. /\ pubPC[t] = "deliver" /\ pubMsg[t] \in Messages /\ EnqueueTo(c, pubMsg[t])
        /\ UNCHANGED <<nextMsgID, eventBuf, replay, batch, wire, pubPC, pubMsg>>
    BY <1>0, <1>4 DEF BroadcastTo, CarriesMessage, stream, pubs, conns, writers
  <2>2. /\ Range(queue'[c]) \subseteq Range(queue[c]) \cup {pubMsg[t]}
        /\ \A d \in Clients \ {c} : queue'[d] = queue[d]
    BY <1>0, <2>1, HeldAfterEnqueue
  <2>3. \A d \in Clients : Held(d)' \subseteq Held(d) \cup {pubMsg[t]}
    BY <2>1, <2>2 DEF Held
  <2> QED BY <1>1, <2>1, <2>3 DEF Moves
<1>5. ASSUME NEW c \in Clients, EmitEnqueue(c)
      PROVE  Moves
  <2>1. /\ c \in Threads /\ pubPC[c] = "emit" /\ pubMsg[c] \in Messages
        /\ pubPC'[c] = "idle"
        /\ EnqueueTo(c, pubMsg[c])
        /\ UNCHANGED <<nextMsgID, eventBuf, replay, batch, wire>>
        /\ \A u \in Threads \ {c} : pubPC'[u] = pubPC[u] /\ pubMsg'[u] = pubMsg[u]
    BY <1>0, <1>5 DEF EmitEnqueue, CarriesMessage, TypeOK, Threads, stream, conns, writers
  <2>2. /\ Range(queue'[c]) \subseteq Range(queue[c]) \cup {pubMsg[c]}
        /\ \A d \in Clients \ {c} : queue'[d] = queue[d]
    BY <1>0, <2>1, HeldAfterEnqueue
  <2>3. /\ Held(c)' \subseteq Held(c) \cup {pubMsg[c]}
        /\ \A d \in Clients \ {c} : Held(d)' = Held(d)
    BY <2>1, <2>2 DEF Held
  <2> QED BY <1>1, <2>1, <2>3 DEF Moves, Threads
<1>6. ASSUME NEW c \in Clients, Snapshot(c)
      PROVE  Moves
  <2>1. /\ UNCHANGED <<nextMsgID, eventBuf, queue, batch, wire, pubPC, pubMsg>>
        /\ replay'[c] = eventBuf
        /\ \A d \in Clients \ {c} : replay'[d] = replay[d]
    BY <1>0, <1>6 DEF Snapshot, TypeOK, stream, pubs, queues, writers
  <2>2. \A d \in Clients : Held(d)' \subseteq Held(d) \cup Range(eventBuf)
    BY <2>1 DEF Held
  <2> QED BY <1>1, <2>1, <2>2 DEF Moves
<1>7. ASSUME NEW c \in Clients, ReplayNext(c)
      PROVE  Moves
  <2>1. /\ \A d \in Clients : Held(d)' \subseteq Held(d)
        /\ \A d \in Clients : Range(replay'[d]) \subseteq Range(replay[d])
        /\ UNCHANGED <<nextMsgID, eventBuf, pubPC, pubMsg>>
    BY <1>0, <1>7, HeldAfterReplay
  <2> QED BY <1>1, <2>1 DEF Moves
<1>8. ASSUME NEW c \in Clients, Drain(c) \/ Write(c)
      PROVE  Moves
  <2>1. /\ \A d \in Clients : Held(d)' \subseteq Held(d)
        /\ UNCHANGED <<nextMsgID, eventBuf, replay, pubPC, pubMsg>>
    BY <1>0, <1>8, HeldAfterDrain, HeldAfterWrite
  <2> QED BY <1>1, <2>1 DEF Moves
<1>9. CASE Quiet
  <2>1. ASSUME NEW d \in Clients PROVE Held(d)' \subseteq Held(d)
    BY <1>9, RangeEmpty DEF Quiet, Held
  <2> QED BY <1>1, <1>9, <2>1 DEF Moves, Quiet
<1> QED BY <1>0, <1>2, <1>3, <1>4, <1>5, <1>6, <1>7, <1>8, <1>9, StepKinds

NamedInv == StagesInv /\ NamesInv /\ PrivateInv

LEMMA InitNamed == Init => NamedInv
<1> SUFFICES ASSUME Init PROVE NamesInv /\ PrivateInv
  BY InitStages DEF NamedInv
<1>1. InHand = {} /\ Range(eventBuf) = {}
  BY RangeEmpty DEF Init, InHand
<1>2. \A c \in Clients : Held(c) = {} /\ Range(replay[c]) = {}
  BY RangeEmpty DEF Init, Held
<1>3. Everywhere = {} /\ \A c \in Clients : Own(c) = {}
  BY <1>1, <1>2, WhatIsEverywhere
<1>4. NamesInv
  BY <1>3 DEF Init, NamesInv
<1> QED BY <1>1, <1>2, <1>3, <1>4 DEF PrivateInv

LEMMA NamedStep == NamedInv /\ [Next]_vars => NamedInv'
<1> SUFFICES ASSUME NamedInv, [Next]_vars PROVE NamedInv'
  OBVIOUS
<1>1. StagesInv' /\ TypeOK /\ HandsAreSorted
  BY StagesStep DEF NamedInv, StagesInv, RInv, IInv, TypeInv
<1>2. NamesInv' /\ PrivateInv'
  BY <1>1, StepMoves, MovesKeepNames, AssignKeepsNames DEF NamedInv
<1> QED BY <1>1, <1>2 DEF NamedInv

\* What is in a feed.
LEMMA FeedIsHeld ==
    ASSUME TypeOK, NEW c \in Clients
    PROVE  Range(Feed(c)) \subseteq Held(c)
<1>1. /\ wire[c] \in Seq(Messages) /\ batch[c] \in Seq(Messages) /\ queue[c] \in Seq(Messages)
      /\ wire[c] \o batch[c] \in Seq(Messages)
  BY DEF TypeOK
<1>2. Range(wire[c] \o batch[c]) = Range(wire[c]) \cup Range(batch[c])
  BY <1>1, RangeConcat
<1>3. Range(wire[c] \o batch[c] \o queue[c]) = Range(wire[c] \o batch[c]) \cup Range(queue[c])
  BY <1>1, RangeConcat
<1> QED BY <1>2, <1>3 DEF Feed, Held

\* Whatever publishers, emitters and clients do at once, an ID names one message
\* in the ring, in the feeds and in threads' hands: a client that drops what it
\* has seen the ID of drops copies only.
THEOREM IDsNameOneMessage == Spec => []IDNamesOneMessage
<1>1. ASSUME NamedInv PROVE IDNamesOneMessage
  <2>0. TypeOK /\ CarriesMessage /\ HandsAreSorted /\ NamesInv
    BY <1>1 DEF NamedInv, StagesInv, RInv, IInv, TypeInv
  <2>1. {eventBuf[k] : k \in DOMAIN eventBuf} \subseteq Everywhere
    BY DEF Everywhere, Range
  <2>2. UNION {{Feed(c)[k] : k \in DOMAIN Feed(c)} : c \in Clients} \subseteq Everywhere
    <3> SUFFICES ASSUME NEW c \in Clients, NEW k \in DOMAIN Feed(c)
                 PROVE  Feed(c)[k] \in Everywhere
      OBVIOUS
    <3>1. Feed(c)[k] \in Range(Feed(c))
      BY DEF Range
    <3> QED BY <2>0, <3>1, FeedIsHeld, WhatIsEverywhere
  <2>3. {pubMsg[t] : t \in Threads} \ {NoMsg} \subseteq Everywhere
    BY <2>0 DEF HandsAreSorted, Everywhere, InHand
  <2> DEFINE all == {eventBuf[k] : k \in DOMAIN eventBuf}
                    \cup (UNION {{Feed(c)[k] : k \in DOMAIN Feed(c)} : c \in Clients})
                    \cup ({pubMsg[t] : t \in Threads} \ {NoMsg})
  <2>4. \A m, n \in all : m.id = n.id => m = n
    <3>1. all \subseteq Everywhere
      BY <2>1, <2>2, <2>3
    <3> HIDE DEF all
    <3> QED BY <2>0, <3>1 DEF NamesInv
  <2>5. ASSUME NEW t \in Threads, NEW u \in Threads, pubPC[t] # "idle", t # u
        PROVE  pubMsg[t].id # pubMsg[u].id
    <3>1. CASE pubPC[u] = "idle"
      BY <2>0, <2>5, <3>1 DEF HandsAreSorted, NoMsg, CarriesMessage, Messages
    <3>2. CASE pubPC[u] # "idle"
      BY <2>0, <2>5, <3>2 DEF NamesInv
    <3> QED BY <3>1, <3>2
  <2> QED BY <2>4, <2>5, Zenon DEF IDNamesOneMessage
<1> QED BY InitNamed, NamedStep, <1>1, PTL DEF Spec

\* The output of a client's own %-commands goes to no other client and is not
\* retained for replay, whatever else is published meanwhile.
THEOREM PrivateOutputIsPrivate == Spec => []PrivateOutputStaysPrivate
<1>1. ASSUME NamedInv PROVE PrivateOutputStaysPrivate
  <2>0. TypeOK /\ NamesInv /\ PrivateInv
    BY <1>1 DEF NamedInv, StagesInv, RInv, IInv, TypeInv
  <2>1. \A k \in DOMAIN eventBuf : eventBuf[k].kind = "buffered"
    BY <2>0 DEF PrivateInv, Range
  <2>2. ASSUME NEW c \in Clients, NEW d \in Clients, c # d,
               NEW j \in DOMAIN Feed(c), NEW k \in DOMAIN Feed(d),
               Feed(c)[j].kind = "private", Feed(c)[j].id = Feed(d)[k].id
        PROVE  FALSE
    <3>1. Feed(c)[j] \in Held(c) /\ Feed(d)[k] \in Held(d)
      BY <2>0, FeedIsHeld DEF Range
    <3>2. Feed(c)[j] = Feed(d)[k]
      BY <2>0, <2>2, <3>1, WhatIsEverywhere DEF NamesInv
    <3>3. Feed(c)[j] \in Own(c) \cap Own(d)
      BY <3>1, <3>2 DEF Own
    <3> QED BY <2>0, <2>2, <3>3 DEF PrivateInv
  <2> QED BY <2>1, <2>2 DEF PrivateOutputStaysPrivate
<1> QED BY InitNamed, NamedStep, <1>1, PTL DEF Spec

-----------------------------------------------------------------------------
(* A client gets a message twice only if it was replayed the ring.          *)

LEMMA CopiesType ==
    ASSUME TypeOK, NEW c \in Clients, NEW i
    PROVE  /\ Occurrences(wire[c], Named(i)) \in Nat /\ Occurrences(batch[c], Named(i)) \in Nat
           /\ Occurrences(queue[c], Named(i)) \in Nat /\ Occurrences(replay[c], Named(i)) \in Nat
           /\ Copies(c, i) \in Nat
<1>1. /\ wire[c] \in Seq(Messages) /\ batch[c] \in Seq(Messages)
      /\ queue[c] \in Seq(Messages) /\ replay[c] \in Seq(Messages)
  BY DEF TypeOK
<1>2. /\ Occurrences(wire[c], Named(i)) \in Nat /\ Occurrences(batch[c], Named(i)) \in Nat
      /\ Occurrences(queue[c], Named(i)) \in Nat /\ Occurrences(replay[c], Named(i)) \in Nat
  BY <1>1, CountType
<1> QED BY <1>2 DEF Copies

\* enqueue adds one copy at most, and none of another ID.
LEMMA EnqueueCounts ==
    ASSUME TypeOK, NEW c \in Clients, NEW m \in Messages, EnqueueTo(c, m), NEW i
    PROVE  /\ Occurrences(queue'[c], Named(i)) \in Nat
           /\ Occurrences(queue'[c], Named(i))
                 <= Occurrences(queue[c], Named(i)) + (IF m.id = i THEN 1 ELSE 0)
<1>1. queue[c] \in Seq(Messages) /\ Occurrences(queue[c], Named(i)) \in Nat
  BY CopiesType DEF TypeOK
<1>2. CASE queue'[c] = Append(queue[c], m)
  <2>1. Occurrences(queue'[c], Named(i))
           = Occurrences(queue[c], Named(i)) + (IF m \in Named(i) THEN 1 ELSE 0)
    BY <1>1, <1>2, CountAppend
  <2> QED BY <1>1, <2>1 DEF Named
<1>3. CASE queue'[c] = queue[c]
  BY <1>1, <1>3
<1>4. CASE queue'[c] = <<>>
  <2>1. Occurrences(queue'[c], Named(i)) = 0
    BY <1>4, CountEmpty
  <2> QED BY <1>1, <2>1
<1> QED BY <1>2, <1>3, <1>4, EnqueueOutcome

CopiesBound ==
    \A c \in Clients, i \in 1..MaxID :
        Copies(c, i) + (IF OnItsWay(c, i) THEN 1 ELSE 0) <= (IF c \in fresh THEN 2 ELSE 1)

RingInv ==
    /\ \A j, k \in DOMAIN eventBuf : eventBuf[j].id = eventBuf[k].id => j = k
    /\ \A t \in Threads : pubPC[t] = "append" => pubMsg[t].id \notin Ids(eventBuf)

\* The ring holds a message once.
LEMMA RingStep ==
    ASSUME NamedInv, RingInv, [Next]_vars
    PROVE  RingInv'
<1>0. /\ TypeOK /\ CarriesMessage /\ NamesInv /\ HandsAreSorted
  BY DEF NamedInv, StagesInv, RInv, IInv, TypeInv
<1>1. ASSUME NEW t \in Threads, NEW kind \in Kinds, NEW pc \in {"append", "broadcast", "emit"},
             AssignID(t, kind, pc)
      PROVE  RingInv'
  <2>1. /\ eventBuf' = eventBuf /\ nextMsgID \in Nat
        /\ pubMsg'[t].id = nextMsgID + 1
        /\ \A u \in Threads \ {t} : pubPC'[u] = pubPC[u] /\ pubMsg'[u] = pubMsg[u]
    BY <1>0, <1>1 DEF AssignID, Count, TypeOK
  <2>2. \A i \in Ids(eventBuf) : i \in 0..nextMsgID
    BY <1>0, IdsOfRange DEF NamesInv, Everywhere
  <2>3. nextMsgID + 1 \notin Ids(eventBuf)
    BY <2>1, <2>2
  <2> QED BY <2>1, <2>3 DEF RingInv
<1>2. ASSUME NEW t \in Threads, AppendToRing(t)
      PROVE  RingInv'
  <2>1. /\ pubMsg' = pubMsg
        /\ pubPC[t] = "append" /\ pubPC'[t] = "broadcast"
        /\ \A u \in Threads \ {t} : pubPC'[u] = pubPC[u]
        /\ pubMsg[t] \in Messages /\ eventBuf \in Seq(Messages)
        /\ eventBuf' = Trim(Append(eventBuf, pubMsg[t]))
    BY <1>0, <1>2 DEF AppendToRing, CarriesMessage, TypeOK
  <2> DEFINE buf == Append(eventBuf, pubMsg[t])
  <2>2. /\ buf \in Seq(Messages) /\ Len(buf) \in Nat
        /\ \A j, k \in DOMAIN buf : buf[j].id = buf[k].id => j = k
    <3>1. /\ DOMAIN eventBuf = 1..Len(eventBuf) /\ Len(eventBuf) \in Nat
          /\ DOMAIN buf = 1..Len(eventBuf) + 1
          /\ buf[Len(eventBuf) + 1] = pubMsg[t]
          /\ \A j \in 1..Len(eventBuf) : buf[j] = eventBuf[j]
          /\ buf \in Seq(Messages) /\ Len(buf) \in Nat
      BY <2>1
    <3>2. \A j \in 1..Len(eventBuf) : eventBuf[j].id # pubMsg[t].id
      BY <2>1, <3>1 DEF RingInv, Ids
    <3> HIDE DEF buf
    <3>3. ASSUME NEW j \in DOMAIN buf, NEW k \in DOMAIN buf, buf[j].id = buf[k].id PROVE j = k
      <4>1. CASE j = Len(eventBuf) + 1 \/ k = Len(eventBuf) + 1
        BY <3>1, <3>2, <3>3, <4>1
      <4>2. CASE j # Len(eventBuf) + 1 /\ k # Len(eventBuf) + 1
        BY <3>1, <3>3, <4>2 DEF RingInv
      <4> QED BY <4>1, <4>2
    <3> QED BY <3>1, <3>3
  <2>3. Range(eventBuf') \subseteq Range(eventBuf) \cup {pubMsg[t]}
    <3>1. Range(Trim(buf)) \subseteq Range(buf)
      BY <2>2, RangeTrim
    <3>2. Range(buf) = Range(eventBuf) \cup {pubMsg[t]}
      BY <2>1, RangeAppend
    <3> QED BY <2>1, <3>1, <3>2
  <2>b. eventBuf' = Trim(buf)
    BY <2>1
  <2> HIDE DEF buf
  <2>4. \A j, k \in DOMAIN eventBuf' : eventBuf'[j].id = eventBuf'[k].id => j = k
    <3>1. CASE Len(buf) > RingMax
      <4> DEFINE from == Len(buf) - RingMax + 1
      <4>1. Len(buf) \in Nat /\ from \in 1..Len(buf) /\ eventBuf' = SubSeq(buf, from, Len(buf))
        BY <2>2, <2>b, <3>1, StreamAssumption DEF Trim
      <4> HIDE DEF from
      <4>2. /\ DOMAIN SubSeq(buf, from, Len(buf)) = 1..Len(buf) - from + 1
            /\ \A i \in 1..Len(buf) - from + 1 :
                  SubSeq(buf, from, Len(buf))[i] = buf[from + i - 1]
        BY <2>2, <4>1
      <4>3. \A i \in 1..Len(buf) - from + 1 : from + i - 1 \in DOMAIN buf
        BY <2>2, <4>1
      <4>4. ASSUME NEW j \in 1..Len(buf) - from + 1, NEW k \in 1..Len(buf) - from + 1,
                   buf[from + j - 1].id = buf[from + k - 1].id
            PROVE  j = k
        <5>1. from + j - 1 = from + k - 1
          BY <2>2, <4>3, <4>4
        <5> QED BY <4>1, <5>1
      <4>5. /\ DOMAIN eventBuf' = 1..Len(buf) - from + 1
            /\ \A i \in 1..Len(buf) - from + 1 : eventBuf'[i] = buf[from + i - 1]
        BY <4>1, <4>2
      <4> QED BY <4>4, <4>5
    <3>2. CASE ~(Len(buf) > RingMax)
      BY <2>2, <2>b, <3>2 DEF Trim
    <3> QED BY <3>1, <3>2
  <2>5. Ids(eventBuf') \subseteq Ids(eventBuf) \cup {pubMsg[t].id}
    BY <2>3, IdsOfRange
  <2>6. \A u \in Threads : pubPC'[u] = "append" => pubMsg'[u].id \notin Ids(eventBuf')
    BY <1>0, <2>1, <2>5 DEF RingInv, NamesInv
  <2> QED BY <2>4, <2>6 DEF RingInv
<1>3. CASE /\ eventBuf' = eventBuf
           /\ \A t \in Threads : pubPC'[t] = "append" => pubPC[t] = "append" /\ pubMsg'[t] = pubMsg[t]
  BY <1>3 DEF RingInv
<1>4. ASSUME NEW t \in Threads, BroadcastLock(t) \/ BroadcastUnlock(t)
      PROVE  RingInv'
  BY <1>0, <1>3, <1>4 DEF BroadcastLock, BroadcastUnlock, TypeOK, stream
<1>5. ASSUME NEW c \in Clients, EmitEnqueue(c)
      PROVE  RingInv'
  BY <1>0, <1>3, <1>5 DEF EmitEnqueue, TypeOK, Threads, stream
<1>6. ASSUME \/ \E t \in Threads, c \in Clients : BroadcastTo(t, c)
             \/ \E c \in Clients : Snapshot(c) \/ ReplayNext(c) \/ Drain(c) \/ Write(c)
             \/ Quiet
      PROVE  RingInv'
  <2>1. UNCHANGED <<eventBuf, pubPC, pubMsg>>
    BY <1>6 DEF BroadcastTo, Snapshot, ReplayNext, Drain, Write, Quiet, stream, pubs
  <2> QED BY <1>3, <2>1
<1> QED BY <1>0, <1>1, <1>2, <1>4, <1>5, <1>6, StepKinds

LEMMA CopiesStep ==
    ASSUME NamedInv, RingInv, CopiesBound, [Next]_vars
    PROVE  CopiesBound'
<1>0. /\ TypeOK /\ CarriesMessage /\ WriterHasBatch /\ ClientPhases
      /\ AttachPhases /\ DelivererLocks /\ HandsAreSorted /\ NamesInv /\ TypeOK'
  BY NextInv DEF NamedInv, StagesInv, RInv, IInv, TypeInv
<1>t. ASSUME NEW c \in Clients, NEW i \in 1..MaxID PROVE Copies(c, i) \in Nat /\ Copies(c, i)' \in Nat
  <2>1. Copies(c, i) \in Nat
    BY <1>0, CopiesType
  <2>2. /\ wire'[c] \in Seq(Messages) /\ batch'[c] \in Seq(Messages)
        /\ queue'[c] \in Seq(Messages) /\ replay'[c] \in Seq(Messages)
    BY <1>0 DEF TypeOK
  <2>3. /\ Occurrences(wire'[c], Named(i)) \in Nat /\ Occurrences(batch'[c], Named(i)) \in Nat
        /\ Occurrences(queue'[c], Named(i)) \in Nat /\ Occurrences(replay'[c], Named(i)) \in Nat
    BY <2>2, CountType
  <2> QED BY <2>1, <2>3 DEF Copies
<1> DEFINE Bound(c, i) == Copies(c, i)' + (IF OnItsWay(c, i)' THEN 1 ELSE 0)
                          <= (IF c \in fresh' THEN 2 ELSE 1)
<1>s. SUFFICES ASSUME NEW c \in Clients, NEW i \in 1..MaxID PROVE Bound(c, i)
  BY DEF CopiesBound
<1>b. /\ Copies(c, i) \in Nat /\ Copies(c, i)' \in Nat
      /\ Copies(c, i) + (IF OnItsWay(c, i) THEN 1 ELSE 0) <= (IF c \in fresh THEN 2 ELSE 1)
  BY <1>t DEF CopiesBound
<1>1. ASSUME NEW t \in Threads, NEW kind \in Kinds, NEW pc \in {"append", "broadcast", "emit"},
             AssignID(t, kind, pc)
      PROVE  Bound(c, i)
  <2>1. /\ UNCHANGED <<todo, replay, queue, batch, wire, fresh>> /\ nextMsgID \in Nat
        /\ pubMsg'[t].id = nextMsgID + 1
        /\ \A u \in Threads \ {t} : pubPC'[u] = pubPC[u] /\ pubMsg'[u] = pubMsg[u]
    BY <1>0, <1>1 DEF AssignID, Count, TypeOK, subs, conns, queues, writers, history
  <2>2. Copies(c, i)' = Copies(c, i)
    BY <2>1 DEF Copies
  <2>3. CASE i = nextMsgID + 1
    <3>1. \A m \in Held(c) : m.id # i
      <4>1. \A m \in Held(c) : m.id \in 0..nextMsgID
        BY <1>0, WhatIsEverywhere DEF NamesInv
      <4> QED BY <2>1, <2>3, <4>1
    <3>2. /\ \A k \in DOMAIN wire[c] : wire[c][k] \notin Named(i)
          /\ \A k \in DOMAIN batch[c] : batch[c][k] \notin Named(i)
          /\ \A k \in DOMAIN queue[c] : queue[c][k] \notin Named(i)
          /\ \A k \in DOMAIN replay[c] : replay[c][k] \notin Named(i)
      BY <3>1 DEF Held, Range, Named
    <3>3. /\ wire[c] \in Seq(Messages) /\ batch[c] \in Seq(Messages)
          /\ queue[c] \in Seq(Messages) /\ replay[c] \in Seq(Messages)
      BY <1>0 DEF TypeOK
    <3>4. /\ Occurrences(wire[c], Named(i)) = 0 /\ Occurrences(batch[c], Named(i)) = 0
          /\ Occurrences(queue[c], Named(i)) = 0 /\ Occurrences(replay[c], Named(i)) = 0
      BY <3>2, <3>3, CountType
    <3>5. Copies(c, i)' = 0
      BY <2>2, <3>4 DEF Copies
    <3> QED BY <3>5
  <2>4. CASE i # nextMsgID + 1
    <3>1. OnItsWay(c, i)' => OnItsWay(c, i)
      BY <2>1, <2>4 DEF OnItsWay
    <3> QED BY <1>0, <1>b, <2>1, <2>2, <3>1
  <2> QED BY <2>3, <2>4
<1>2. ASSUME NEW t \in Threads, AppendToRing(t) \/ BroadcastLock(t) \/ BroadcastUnlock(t)
      PROVE  Bound(c, i)
  <2>1. UNCHANGED <<replay, queue, batch, wire, fresh>>
    BY <1>2 DEF AppendToRing, BroadcastLock, BroadcastUnlock, conns, queues, writers, history
  <2>2. Copies(c, i)' = Copies(c, i)
    BY <2>1 DEF Copies
  <2>3. OnItsWay(c, i)' => OnItsWay(c, i)
    <3>1. CASE AppendToRing(t)
      BY <1>0, <3>1 DEF AppendToRing, OnItsWay, TypeOK, subs
    <3>2. CASE BroadcastLock(t)
      BY <1>0, <3>2, StreamAssumption DEF BroadcastLock, DelivererLocks, OnItsWay, TypeOK
    <3>3. CASE BroadcastUnlock(t)
      BY <1>0, <3>3 DEF BroadcastUnlock, OnItsWay, TypeOK
    <3> QED BY <1>2, <3>1, <3>2, <3>3
  <2> QED BY <1>b, <2>1, <2>2, <2>3
<1>3. ASSUME NEW t \in Threads, NEW d \in Clients, BroadcastTo(t, d)
      PROVE  Bound(c, i)
  <2>1. /\ pubPC[t] = "deliver" /\ d \in todo /\ pubMsg[t] \in Messages /\ EnqueueTo(d, pubMsg[t])
        /\ todo' = todo \ {d}
        /\ UNCHANGED <<replay, batch, wire, pubPC, pubMsg, fresh>>
    BY <1>0, <1>3 DEF BroadcastTo, CarriesMessage, pubs, conns, writers, history
  <2>2. OnItsWay(c, i)' => OnItsWay(c, i)
    BY <2>1 DEF OnItsWay
  <2>3. CASE c # d
    <3>1. queue'[c] = queue[c]
      BY <1>0, <2>1, <2>3, EnqueueAlone
    <3>2. Copies(c, i)' = Copies(c, i)
      BY <2>1, <3>1 DEF Copies
    <3> QED BY <1>b, <2>1, <2>2, <3>2
  <2>4. CASE c = d
    <3>1. /\ Occurrences(queue'[c], Named(i)) \in Nat
          /\ Occurrences(queue'[c], Named(i))
                <= Occurrences(queue[c], Named(i)) + (IF pubMsg[t].id = i THEN 1 ELSE 0)
      BY <1>0, <2>1, <2>4, EnqueueCounts
    <3>2. Copies(c, i)' <= Copies(c, i) + (IF pubMsg[t].id = i THEN 1 ELSE 0)
      BY <1>0, <2>1, <3>1, CopiesType DEF Copies
    <3>3. pubMsg[t].id = i => OnItsWay(c, i) /\ ~OnItsWay(c, i)'
      BY <1>0, <2>1, <2>4 DEF OnItsWay, NamesInv
    <3> QED BY <1>b, <2>1, <2>2, <3>2, <3>3
  <2> QED BY <2>3, <2>4
<1>4. ASSUME NEW d \in Clients, EmitEnqueue(d)
      PROVE  Bound(c, i)
  <2>1. /\ d \in Threads /\ pubPC[d] = "emit" /\ pubMsg[d] \in Messages
        /\ EnqueueTo(d, pubMsg[d])
        /\ pubPC'[d] = "idle"
        /\ UNCHANGED <<replay, batch, wire, todo, fresh>>
        /\ \A u \in Threads \ {d} : pubPC'[u] = pubPC[u] /\ pubMsg'[u] = pubMsg[u]
    BY <1>0, <1>4 DEF EmitEnqueue, CarriesMessage, TypeOK, Threads, subs, conns, writers, history
  <2>2. OnItsWay(c, i)' => OnItsWay(c, i)
    BY <2>1 DEF OnItsWay
  <2>3. CASE c # d
    <3>1. queue'[c] = queue[c]
      BY <1>0, <2>1, <2>3, EnqueueAlone
    <3>2. Copies(c, i)' = Copies(c, i)
      BY <2>1, <3>1 DEF Copies
    <3> QED BY <1>b, <2>1, <2>2, <3>2
  <2>4. CASE c = d
    <3>1. /\ Occurrences(queue'[c], Named(i)) \in Nat
          /\ Occurrences(queue'[c], Named(i))
                <= Occurrences(queue[c], Named(i)) + (IF pubMsg[c].id = i THEN 1 ELSE 0)
      BY <1>0, <2>1, <2>4, EnqueueCounts
    <3>2. Copies(c, i)' <= Copies(c, i) + (IF pubMsg[c].id = i THEN 1 ELSE 0)
      BY <1>0, <2>1, <3>1, CopiesType DEF Copies
    <3>3. pubMsg[c].id = i => OnItsWay(c, i) /\ ~OnItsWay(c, i)'
      <4>1. ASSUME pubMsg[c].id = i, NEW u \in Threads \ {c}, pubPC[u] # "idle"
            PROVE  pubMsg[u].id # i
        BY <1>0, <2>1, <2>4, <4>1 DEF NamesInv
      <4> QED BY <2>1, <2>4, <4>1 DEF OnItsWay
    <3> QED BY <1>b, <2>1, <2>2, <3>2, <3>3
  <2> QED BY <2>3, <2>4
<1>5. ASSUME NEW d \in Clients, Snapshot(d)
      PROVE  Bound(c, i)
  <2>1. /\ UNCHANGED <<queue, batch, wire, pubPC, pubMsg, todo>>
        /\ replay[d] = <<>> /\ d \notin fresh
        /\ replay'[d] = eventBuf /\ fresh' = fresh \cup {d}
        /\ \A e \in Clients \ {d} : replay'[e] = replay[e]
    BY <1>0, <1>5 DEF Snapshot, AttachPhases, TypeOK, subs, pubs, queues, writers
  <2>2. OnItsWay(c, i)' <=> OnItsWay(c, i)
    BY <2>1 DEF OnItsWay
  <2>3. CASE c # d
    <3>1. Copies(c, i)' = Copies(c, i)
      BY <2>1, <2>3 DEF Copies
    <3> QED BY <1>b, <2>1, <2>2, <2>3, <3>1
  <2>4. CASE c = d
    <3>1. eventBuf \in Seq(Messages)
      BY <1>0 DEF TypeOK
    <3>2. Occurrences(eventBuf, Named(i)) <= 1 /\ Occurrences(eventBuf, Named(i)) \in Nat
      <4>1. \A j, k \in DOMAIN eventBuf :
               eventBuf[j] \in Named(i) /\ eventBuf[k] \in Named(i) => j = k
        BY DEF RingInv, Named
      <4> QED BY <3>1, <4>1, CountOnce, CountType
    <3>3. Copies(c, i)' <= Copies(c, i) + 1
      <4>1. Occurrences(replay[c], Named(i)) = 0
        BY <2>1, <2>4, CountEmpty
      <4> QED BY <1>0, <2>1, <2>4, <3>2, <4>1, CopiesType DEF Copies
    <3> QED BY <1>b, <2>1, <2>2, <2>4, <3>3
  <2> QED BY <2>3, <2>4
<1>6. ASSUME NEW d \in Clients, ReplayNext(d)
      PROVE  Bound(c, i)
  <2>1. /\ replay[d] \in Seq(Messages) /\ replay[d] # <<>>
        /\ replay' = [replay EXCEPT ![d] = Tail(replay[d])]
        /\ EnqueueTo(d, Head(replay[d]))
        /\ UNCHANGED <<todo, batch, wire, pubPC, pubMsg, fresh>>
    BY <1>0, <1>6 DEF ReplayNext, TypeOK, subs, pubs, writers, history
  <2>2. OnItsWay(c, i)' <=> OnItsWay(c, i)
    BY <2>1 DEF OnItsWay
  <2>3. CASE c # d
    <3>1. queue'[c] = queue[c] /\ replay'[c] = replay[c]
      <4>1. Head(replay[d]) \in Messages
        BY <2>1
      <4>2. queue'[c] = queue[c]
        BY <1>0, <2>1, <2>3, <4>1, EnqueueAlone
      <4>3. replay'[c] = replay[c]
        BY <1>0, <2>1, <2>3 DEF TypeOK
      <4> QED BY <4>2, <4>3
    <3>2. Copies(c, i)' = Copies(c, i)
      BY <2>1, <3>1 DEF Copies
    <3> QED BY <1>b, <2>1, <2>2, <3>2
  <2>4. CASE c = d
    <3>0. Head(replay[c]) \in Messages /\ Tail(replay[c]) \in Seq(Messages)
      BY <2>1, <2>4
    <3>1. /\ Occurrences(queue'[c], Named(i)) \in Nat
          /\ Occurrences(queue'[c], Named(i))
                <= Occurrences(queue[c], Named(i)) + (IF Head(replay[c]).id = i THEN 1 ELSE 0)
      BY <1>0, <2>1, <2>4, <3>0, EnqueueCounts
    <3>2. Occurrences(replay[c], Named(i))
             = Occurrences(Tail(replay[c]), Named(i)) + (IF Head(replay[c]).id = i THEN 1 ELSE 0)
      <4>1. Occurrences(replay[c], Named(i))
               = Occurrences(Tail(replay[c]), Named(i))
                 + (IF Head(replay[c]) \in Named(i) THEN 1 ELSE 0)
        BY <2>1, <2>4, CountTail
      <4> QED BY <3>0, <4>1 DEF Named
    <3>3. replay'[c] = Tail(replay[c]) /\ Occurrences(Tail(replay[c]), Named(i)) \in Nat
      BY <1>0, <2>1, <2>4, <3>0, CountType DEF TypeOK
    <3>4. Copies(c, i)' <= Copies(c, i)
      <4>1. Copies(c, i)' = Occurrences(wire[c], Named(i)) + Occurrences(batch[c], Named(i))
               + Occurrences(queue'[c], Named(i)) + Occurrences(Tail(replay[c]), Named(i))
        BY <2>1, <3>3 DEF Copies
      <4>2. /\ Occurrences(wire[c], Named(i)) \in Nat /\ Occurrences(batch[c], Named(i)) \in Nat
            /\ Occurrences(queue[c], Named(i)) \in Nat /\ Occurrences(replay[c], Named(i)) \in Nat
        BY <1>0, CopiesType
      <4> QED BY <3>1, <3>2, <3>3, <4>1, <4>2 DEF Copies
    <3> QED BY <1>b, <2>1, <2>2, <3>4
  <2> QED BY <2>3, <2>4
<1>7. ASSUME NEW d \in Clients, Drain(d)
      PROVE  Bound(c, i)
  <2>1. /\ batch[d] = <<>>
        /\ batch' = [batch EXCEPT ![d] = queue[d]]
        /\ queue' = [queue EXCEPT ![d] = <<>>]
        /\ UNCHANGED <<wire, replay, pubPC, pubMsg, todo, fresh>>
    BY <1>0, <1>7 DEF Drain, QueueTaken, ClientPhases, subs, pubs, conns, history
  <2>2. OnItsWay(c, i)' <=> OnItsWay(c, i)
    BY <2>1 DEF OnItsWay
  <2>3. Copies(c, i)' = Copies(c, i)
    <3>1. CASE c # d
      BY <1>0, <2>1, <3>1 DEF Copies, TypeOK
    <3>2. CASE c = d
      <4>1. batch'[c] = queue[c] /\ queue'[c] = <<>> /\ batch[c] = <<>>
        BY <1>0, <2>1, <3>2 DEF TypeOK
      <4>2. Occurrences(queue'[c], Named(i)) = 0 /\ Occurrences(batch[c], Named(i)) = 0
        BY <4>1, CountEmpty
      <4> QED BY <1>0, <2>1, <4>1, <4>2, CopiesType DEF Copies
    <3> QED BY <3>1, <3>2
  <2> QED BY <1>b, <2>1, <2>2, <2>3
<1>8. ASSUME NEW d \in Clients, Write(d)
      PROVE  Bound(c, i)
  <2>1. /\ batch[d] \in Seq(Messages) /\ batch[d] # <<>> /\ wire[d] \in Seq(Messages)
        /\ batch' = [batch EXCEPT ![d] = Tail(batch[d])]
        /\ wire' = IF socket[d] = "up" THEN [wire EXCEPT ![d] = Append(wire[d], Head(batch[d]))]
                   ELSE wire
        /\ UNCHANGED <<queue, replay, pubPC, pubMsg, todo, fresh>>
    BY <1>0, <1>8 DEF Write, WriterHasBatch, TypeOK, subs, pubs, queues, conns, history
  <2>2. OnItsWay(c, i)' <=> OnItsWay(c, i)
    BY <2>1 DEF OnItsWay
  <2>3. CASE c # d
    <3>1. batch'[c] = batch[c] /\ wire'[c] = wire[c]
      BY <1>0, <2>1, <2>3 DEF TypeOK
    <3>2. Copies(c, i)' = Copies(c, i)
      BY <2>1, <3>1 DEF Copies
    <3> QED BY <1>b, <2>1, <2>2, <3>2
  <2>4. CASE c = d
    <3> DEFINE one == IF Head(batch[c]) \in Named(i) THEN 1 ELSE 0
    <3>1. Head(batch[c]) \in Messages /\ Tail(batch[c]) \in Seq(Messages)
      BY <2>1, <2>4
    <3>2. Occurrences(batch[c], Named(i)) = Occurrences(Tail(batch[c]), Named(i)) + one
      BY <2>1, <2>4, CountTail
    <3>3. /\ batch'[c] = Tail(batch[c])
          /\ wire'[c] \in {wire[c], Append(wire[c], Head(batch[c]))}
      BY <1>0, <2>1, <2>4 DEF TypeOK
    <3>4. Occurrences(Append(wire[c], Head(batch[c])), Named(i))
             = Occurrences(wire[c], Named(i)) + one
      BY <2>1, <2>4, <3>1, CountAppend
    <3>5. one \in {0, 1} /\ Occurrences(Tail(batch[c]), Named(i)) \in Nat
      BY <3>1, CountType
    <3> HIDE DEF one
    <3>6. /\ Occurrences(wire[c], Named(i)) \in Nat /\ Occurrences(batch[c], Named(i)) \in Nat
          /\ Occurrences(queue[c], Named(i)) \in Nat /\ Occurrences(replay[c], Named(i)) \in Nat
      BY <1>0, CopiesType
    <3>7. /\ Occurrences(wire'[c], Named(i)) \in Nat
          /\ Occurrences(wire'[c], Named(i)) <= Occurrences(wire[c], Named(i)) + one
      <4>1. CASE wire'[c] = wire[c]
        BY <3>5, <3>6, <4>1
      <4>2. CASE wire'[c] = Append(wire[c], Head(batch[c]))
        BY <3>4, <3>5, <3>6, <4>2
      <4> QED BY <3>3, <4>1, <4>2
    <3>8. Copies(c, i)' <= Copies(c, i)
      <4>1. Copies(c, i)' = Occurrences(wire'[c], Named(i)) + Occurrences(Tail(batch[c]), Named(i))
               + Occurrences(queue[c], Named(i)) + Occurrences(replay[c], Named(i))
        BY <2>1, <3>3 DEF Copies
      <4> QED BY <3>2, <3>5, <3>6, <3>7, <4>1 DEF Copies
    <3> QED BY <1>b, <2>1, <2>2, <3>8
  <2> QED BY <2>3, <2>4
<1>9. ASSUME Quiet
      PROVE  Bound(c, i)
  <2>1. /\ UNCHANGED <<todo, pubPC, pubMsg, replay, batch, wire, fresh>>
        /\ queue'[c] \in {queue[c], <<>>}
    BY <1>9 DEF Quiet
  <2>2. OnItsWay(c, i)' <=> OnItsWay(c, i)
    BY <2>1 DEF OnItsWay
  <2>3. Copies(c, i)' <= Copies(c, i)
    <3>1. CASE queue'[c] = queue[c]
      BY <1>b, <2>1, <3>1 DEF Copies
    <3>2. CASE queue'[c] = <<>>
      <4>1. Occurrences(queue'[c], Named(i)) = 0
        BY <3>2, CountEmpty
      <4> QED BY <1>0, <2>1, <4>1, CopiesType DEF Copies
    <3> QED BY <2>1, <3>1, <3>2
  <2> QED BY <1>b, <2>1, <2>2, <2>3
<1> HIDE DEF Bound
<1> QED BY <1>0, <1>1, <1>2, <1>3, <1>4, <1>5, <1>6, <1>7, <1>8, <1>9, StepKinds

\* What a client holds twice is one message, and it gets a message twice only if
\* it was replayed the ring, where a broadcast of the same may race the copy.
THEOREM CopiesAreReplays == Spec => []CopiesComeFromReplay
<1>1. Init => RingInv /\ CopiesBound
  <2> SUFFICES ASSUME Init PROVE RingInv /\ CopiesBound
    OBVIOUS
  <2>1. RingInv
    BY DEF Init, RingInv
  <2>2. ASSUME NEW c \in Clients, NEW i \in 1..MaxID PROVE Copies(c, i) = 0 /\ ~OnItsWay(c, i)
    <3>1. wire[c] = <<>> /\ batch[c] = <<>> /\ queue[c] = <<>> /\ replay[c] = <<>>
      BY DEF Init
    <3>2. Copies(c, i) = 0
      BY <3>1, CountEmpty DEF Copies
    <3>3. ~OnItsWay(c, i)
      BY DEF Init, OnItsWay
    <3> QED BY <3>2, <3>3
  <2> QED BY <2>1, <2>2 DEF CopiesBound
<1>2. ASSUME NamedInv, CopiesBound PROVE DuplicatesOnlyFromReplay
  <2>0. TypeOK
    BY <1>2 DEF NamedInv, StagesInv, RInv, IInv, TypeInv
  <2> SUFFICES ASSUME NEW c \in Clients, NEW i \in 1..MaxID
               PROVE  Cardinality({k \in DOMAIN Feed(c) : Feed(c)[k].id = i})
                         <= (IF c \in fresh THEN 2 ELSE 1)
    BY DEF DuplicatesOnlyFromReplay
  <2>1. /\ wire[c] \in Seq(Messages) /\ batch[c] \in Seq(Messages) /\ queue[c] \in Seq(Messages)
        /\ wire[c] \o batch[c] \in Seq(Messages) /\ Feed(c) \in Seq(Messages)
    BY <2>0 DEF TypeOK, Feed
  <2>2. {k \in DOMAIN Feed(c) : Feed(c)[k].id = i}
           = {k \in DOMAIN Feed(c) : Feed(c)[k] \in Named(i)}
    BY <2>1 DEF Named
  <2>3. Cardinality({k \in DOMAIN Feed(c) : Feed(c)[k].id = i}) = Occurrences(Feed(c), Named(i))
    BY <2>2, Zenon DEF Occurrences
  <2>4. Occurrences(wire[c] \o batch[c], Named(i))
           = Occurrences(wire[c], Named(i)) + Occurrences(batch[c], Named(i))
    BY <2>1, CountConcat
  <2>5. Occurrences(wire[c] \o batch[c] \o queue[c], Named(i))
           = Occurrences(wire[c] \o batch[c], Named(i)) + Occurrences(queue[c], Named(i))
    BY <2>1, CountConcat
  <2>6. Occurrences(Feed(c), Named(i)) <= Copies(c, i)
    BY <2>0, <2>4, <2>5, CopiesType DEF Feed, Copies
  <2>7. /\ Copies(c, i) <= (IF c \in fresh THEN 2 ELSE 1)
        /\ Copies(c, i) \in Nat
    BY <1>2, <2>0, CopiesType DEF CopiesBound
  <2>8. Occurrences(Feed(c), Named(i)) \in Nat
    BY <2>1, CountType
  <2> QED BY <2>3, <2>6, <2>7, <2>8
<1>3. NamedInv /\ RingInv /\ CopiesBound /\ [Next]_vars => RingInv' /\ CopiesBound'
  BY RingStep, CopiesStep
<1>4. Spec => [](NamedInv /\ CopiesBound)
  BY InitNamed, NamedStep, <1>1, <1>3, PTL DEF Spec
<1>5. Spec => []DuplicatesOnlyFromReplay
  BY <1>2, <1>4, PTL
<1> QED BY <1>5, IDsNameOneMessage, PTL DEF CopiesComeFromReplay

-----------------------------------------------------------------------------
(* SessionStream implements Delivery.                                      *)

\* The abstract feed of c: what it is owed (Sound(c) says whether it is live).
Owed(c) == IF socket[c] = "up" THEN batch[c] \o queue[c] ELSE <<>>

\* The steps of the abstract feed, read off the session's variables.
Idles(c)    == Owed(c)' = Owed(c) /\ wire'[c] = wire[c] /\ Sound(c)' = Sound(c)
Attaches(c) == /\ ~Sound(c) /\ Owed(c) = <<>> /\ wire[c] = <<>>
               /\ Sound(c)' /\ Owed(c)' = <<>> /\ wire'[c] = wire[c]
Accepts(c)  == /\ Sound(c) /\ Sound(c)' /\ wire'[c] = wire[c]
               /\ \E m \in Messages : Owed(c)' = Append(Owed(c), m)
Delivers(c) == /\ Owed(c) # <<>> /\ Owed(c)' = Tail(Owed(c)) /\ Sound(c)' = Sound(c)
               /\ wire'[c] = Append(wire[c], Head(Owed(c)))
Cuts(c)     == /\ ~Sound(c)' /\ wire'[c] = wire[c]
               /\ \E n \in 0..Len(Owed(c)) : Owed(c)' = SubSeq(Owed(c), 1, n)

\* A step of c's feed that leaves the other feeds alone.
Alone(c) == \A d \in Clients \ {c} :
    /\ queue'[d] = queue[d] /\ batch'[d] = batch[d] /\ wire'[d] = wire[d]
    /\ socket'[d] = socket[d] /\ closed'[d] = closed[d]
FeedStep(c) == Alone(c) /\ (Idles(c) \/ Attaches(c) \/ Accepts(c) \/ Delivers(c) \/ Cuts(c))

\* Such a step is a step of Delivery, or none.
LEMMA FeedStepIsDelivery ==
    ASSUME TypeOK, TypeOK', NEW c \in Clients, FeedStep(c)
    PROVE  [Feeds!Next]_(Feeds!vars)
<1> DEFINE O == [d \in Clients |-> Owed(d)]
           L == [d \in Clients |-> Sound(d)]
<1>1. /\ \A d \in Clients \ {c} : Owed(d)' = Owed(d)
      /\ \A d \in Clients \ {c} : Sound(d)' = Sound(d)
  BY DEF FeedStep, Alone, Owed, Sound
<1>2. /\ wire \in [Clients -> Seq(Messages)] /\ wire' \in [Clients -> Seq(Messages)]
      /\ \A d \in Clients \ {c} : wire'[d] = wire[d]
  BY DEF TypeOK, FeedStep, Alone
<1>3. CASE Idles(c)
  <2>1. O' = O /\ L' = L
    BY <1>1, <1>3 DEF Idles
  <2>2. wire' = wire
    BY <1>2, <1>3 DEF Idles
  <2> QED BY <2>1, <2>2 DEF Feeds!vars, Owed
<1>4. CASE Attaches(c)
  <2>1. O' = O /\ wire' = wire
    BY <1>1, <1>2, <1>4 DEF Attaches
  <2>2. L' = [L EXCEPT ![c] = TRUE]
    BY <1>1, <1>4 DEF Attaches
  <2>3. Feeds!Attach(c)
    BY <1>4, <2>1, <2>2 DEF Attaches, Feeds!Attach, Owed
  <2> QED BY <2>3 DEF Feeds!Next
<1>5. CASE Accepts(c)
  <2>0. Sound(c)' = Sound(c)
    BY <1>5 DEF Accepts, Sound
  <2>1. /\ L' = L
        /\ wire' = wire
    <3>1. L' = L
      BY <1>1, <2>0
    <3>2. wire' = wire
      BY <1>2, <1>5 DEF Accepts
    <3> QED BY <3>1, <3>2
  <2>2. PICK m \in Messages : Owed(c)' = Append(Owed(c), m)
    BY <1>5 DEF Accepts
  <2>3. O' = [O EXCEPT ![c] = Append(@, m)]
    BY <1>1, <2>2
  <2>4. Feeds!Accept(c)
    BY <1>5, <2>1, <2>3 DEF Accepts, Feeds!Accept, Owed
  <2> QED BY <2>4 DEF Feeds!Next
<1>6. CASE Delivers(c)
  <2>1. L' = L
    BY <1>1, <1>6 DEF Delivers
  <2>2. O' = [O EXCEPT ![c] = Tail(@)]
    BY <1>1, <1>6 DEF Delivers
  <2>3. wire' = [wire EXCEPT ![c] = Append(@, Head(O[c]))]
    BY <1>2, <1>6 DEF Delivers
  <2>4. Feeds!Deliver(c)
    BY <1>6, <2>1, <2>2, <2>3 DEF Delivers, Feeds!Deliver, Owed
  <2> QED BY <2>4 DEF Feeds!Next
<1>7. CASE Cuts(c)
  <2>1. wire' = wire
    BY <1>2, <1>7 DEF Cuts
  <2>0. Sound(c)' = FALSE
    BY <1>7 DEF Cuts, Sound
  <2>2. L' = [L EXCEPT ![c] = FALSE]
    BY <1>1, <2>0
  <2>3. PICK n \in 0..Len(Owed(c)) : Owed(c)' = SubSeq(Owed(c), 1, n)
    BY <1>7 DEF Cuts
  <2>4. O' = [O EXCEPT ![c] = SubSeq(@, 1, n)]
    BY <1>1, <2>3
  <2>5. Feeds!Cut(c)
    BY <2>1, <2>2, <2>3, <2>4 DEF Feeds!Cut, Owed
  <2> QED BY <2>5 DEF Feeds!Next
<1> QED BY <1>3, <1>4, <1>5, <1>6, <1>7 DEF FeedStep

-----------------------------------------------------------------------------
LEMMA InitRefines == Init => RInv /\ Feeds!Init
<1> SUFFICES ASSUME Init PROVE RInv /\ Feeds!Init
  OBVIOUS
<1>1. ClientPhases
  BY DEF Init, ClientPhases, Threads
<1>2. \A c \in Clients : Sound(c) = FALSE
  BY DEF Init, Sound
<1>3. Feeds!Init
  BY <1>2 DEF Init, Feeds!Init
<1> QED BY <1>1, <1>3, InitInv DEF RInv

-----------------------------------------------------------------------------
(* Every step of the session is a step of one client's feed, or of none.    *)

\* Whatever enqueue does to c is a step of its feed: the message is accepted,
\* goes nowhere as the feed is cut already, or the feed is cut.
LEMMA EnqueueFeed ==
    ASSUME TypeOK, NEW c \in Clients, NEW m \in Messages, EnqueueTo(c, m),
           UNCHANGED <<batch, wire>>
    PROVE  FeedStep(c)
<1>1. Alone(c)
  BY EnqueueAlone DEF Alone
<1>2. CASE closed[c] /\ UNCHANGED queues
  BY <1>1, <1>2 DEF queues, FeedStep, Idles, Owed, Sound
<1>3. CASE ~closed[c] /\ Queued(c, m)
  <2>1. /\ queue'[c] = Append(queue[c], m)
        /\ socket' = socket /\ closed' = closed
    BY <1>3 DEF Queued, TypeOK
  <2>2. CASE socket[c] = "up"
    <3>1. batch[c] \o Append(queue[c], m) = Append(batch[c] \o queue[c], m)
      BY DEF TypeOK
    <3>2. Accepts(c)
      BY <1>3, <2>1, <2>2, <3>1 DEF Accepts, Owed, Sound
    <3> QED BY <1>1, <3>2 DEF FeedStep
  <2>3. CASE socket[c] # "up"
    BY <1>1, <2>1, <2>3 DEF FeedStep, Idles, Owed, Sound
  <2> QED BY <2>2, <2>3
<1>4. CASE CutOff(c)
  <2>1. Owed(c)' = <<>> /\ ~Sound(c)'
    BY <1>4 DEF CutOff, TypeOK, Owed, Sound
  <2>2. Owed(c) \in Seq(Messages)
    BY DEF Owed, TypeOK
  <2>3. SubSeq(Owed(c), 1, 0) = <<>> /\ 0 \in 0..Len(Owed(c))
    BY <2>2
  <2> QED BY <1>1, <2>1, <2>3 DEF FeedStep, Cuts
<1> QED BY <1>2, <1>3, <1>4 DEF EnqueueTo

\* A step that touches none of the variables a feed is made of.
LEMMA NoFeed ==
    ASSUME NEW c \in Clients, UNCHANGED <<queue, closed, socket, batch, wire>>
    PROVE  FeedStep(c)
BY DEF FeedStep, Alone, Idles, Owed, Sound

\* A concatenation begins with its first part.
LEMMA PrefixOfConcat ==
    ASSUME NEW S, NEW s \in Seq(S), NEW t \in Seq(S)
    PROVE  Len(s) \in 0..Len(s \o t) /\ SubSeq(s \o t, 1, Len(s)) = s
<1>1. Len(s \o t) = Len(s) + Len(t) /\ s \o t \in Seq(S)
  BY ConcatProperties
<1>2. Len(s) \in Nat /\ Len(t) \in Nat
  OBVIOUS
<1>3. Len(s) \in 0..Len(s \o t)
  BY <1>1, <1>2
<1>4. CASE Len(s) = 0
  <2>1. s = <<>>
    BY <1>4, EmptySeq
  <2>2. SubSeq(s \o t, 1, 0) = <<>>
    BY <1>1
  <2> QED BY <1>3, <1>4, <2>1, <2>2
<1>5. CASE Len(s) # 0
  <2>1. 1 \in 1..Len(s) /\ Len(s) \in 1..Len(s)
    BY <1>2, <1>5
  <2>2. SubSeq(s \o t, 1, Len(s)) = SubSeq(s, 1, Len(s))
    BY <2>1, SubSeqOfConcat1
  <2>3. SubSeq(s, 1, Len(s)) = s
    BY SubSeqFull
  <2> QED BY <1>3, <2>2, <2>3
<1> QED BY <1>4, <1>5

\* Cutting c's socket, or closing c with its queue dropped, cuts its feed.
LEMMA CutFeed ==
    ASSUME TypeOK, NEW c \in Clients, UNCHANGED <<batch, wire>>,
           \A d \in Clients \ {c} :
               queue'[d] = queue[d] /\ closed'[d] = closed[d] /\ socket'[d] = socket[d],
           \/ socket'[c] # "up"
           \/ socket'[c] = socket[c] /\ closed'[c] /\ queue'[c] = <<>>
    PROVE  FeedStep(c)
<1>1. Alone(c)
  BY DEF Alone
<1>2. /\ batch[c] \in Seq(Messages) /\ queue[c] \in Seq(Messages)
      /\ Owed(c) \in Seq(Messages)
  BY DEF TypeOK, Owed
<1>3. CASE socket'[c] # "up" \/ socket[c] # "up"
  <2>1. Owed(c)' = <<>> /\ ~Sound(c)'
    BY <1>3 DEF Owed, Sound
  <2>2. SubSeq(Owed(c), 1, 0) = <<>> /\ 0 \in 0..Len(Owed(c))
    BY <1>2
  <2> QED BY <1>1, <2>1, <2>2 DEF FeedStep, Cuts
<1>4. CASE socket'[c] = "up" /\ socket[c] = "up"
  <2>1. Owed(c)' = batch[c] /\ ~Sound(c)'
    <3>1. batch[c] \o <<>> = batch[c]
      BY <1>2
    <3> QED BY <1>4, <3>1 DEF Owed, Sound
  <2>2. Owed(c) = batch[c] \o queue[c]
    BY <1>4 DEF Owed
  <2>3. /\ Len(batch[c]) \in 0..Len(batch[c] \o queue[c])
        /\ SubSeq(batch[c] \o queue[c], 1, Len(batch[c])) = batch[c]
    BY <1>2, PrefixOfConcat
  <2> QED BY <1>1, <2>1, <2>2, <2>3 DEF FeedStep, Cuts
<1> QED BY <1>3, <1>4

\* The first message of a concatenation is that of its first part.
LEMMA HeadTailOfConcat ==
    ASSUME NEW S, NEW s \in Seq(S), NEW t \in Seq(S), s # <<>>
    PROVE  /\ s \o t # <<>>
           /\ Head(s \o t) = Head(s)
           /\ Tail(s \o t) = Tail(s) \o t
<1>1. /\ s \o t \in Seq(S) /\ Len(s \o t) = Len(s) + Len(t)
      /\ \A i \in 1..Len(s) + Len(t) :
            (s \o t)[i] = IF i <= Len(s) THEN s[i] ELSE t[i - Len(s)]
  BY ConcatProperties
<1>2. Len(s) \in Nat \ {0} /\ Len(t) \in Nat
  BY EmptySeq
<1>3. Len(s \o t) # 0 /\ s \o t # <<>>
  BY <1>1, <1>2
<1>4. Head(s \o t) = Head(s)
  BY <1>1, <1>2, <1>3
<1>5. /\ Tail(s \o t) \in Seq(S) /\ Len(Tail(s \o t)) = Len(s) + Len(t) - 1
      /\ Tail(s) \in Seq(S) /\ Len(Tail(s)) = Len(s) - 1
  BY <1>1, <1>3, HeadTailProperties
<1>6. /\ Tail(s) \o t \in Seq(S) /\ Len(Tail(s) \o t) = Len(s) - 1 + Len(t)
      /\ \A i \in 1..Len(s) - 1 + Len(t) :
            (Tail(s) \o t)[i] = IF i <= Len(s) - 1 THEN Tail(s)[i] ELSE t[i - (Len(s) - 1)]
  BY <1>5, ConcatProperties
<1>7. ASSUME NEW i \in 1..Len(s) - 1 + Len(t)
      PROVE  Tail(s \o t)[i] = (Tail(s) \o t)[i]
  <2>1. Tail(s \o t)[i] = (s \o t)[i + 1]
    BY <1>1, <1>2, <1>3
  <2>2. CASE i <= Len(s) - 1
    <3>1. Tail(s)[i] = s[i + 1]
      BY <1>2, <2>2
    <3> QED BY <1>1, <1>2, <1>6, <2>1, <2>2, <3>1
  <2>3. CASE i > Len(s) - 1
    <3>1. i + 1 - Len(s) = i - (Len(s) - 1)
      BY <1>2
    <3> QED BY <1>1, <1>2, <1>6, <2>1, <2>3, <3>1
  <2> QED BY <1>2, <2>2, <2>3
<1>8. Tail(s \o t) = Tail(s) \o t
  BY <1>2, <1>5, <1>6, <1>7, SeqEqual
<1> QED BY <1>3, <1>4, <1>8

\* A write that hands the peer the oldest message owed to it.
LEMMA WriteFeed ==
    ASSUME TypeOK, WriterHasBatch, NEW c \in Clients, Write(c)
    PROVE  FeedStep(c)
<1>1. /\ batch[c] \in Seq(Messages) /\ batch[c] # <<>> /\ queue[c] \in Seq(Messages)
      /\ batch' = [batch EXCEPT ![c] = Tail(batch[c])]
      /\ UNCHANGED <<queue, closed, socket>>
  BY DEF Write, WriterHasBatch, TypeOK, queues
<1>2. Alone(c)
  BY <1>1 DEF Write, Alone, TypeOK
<1>3. CASE socket[c] = "up"
  <2>1. /\ batch[c] \o queue[c] # <<>>
        /\ Head(batch[c] \o queue[c]) = Head(batch[c])
        /\ Tail(batch[c] \o queue[c]) = Tail(batch[c]) \o queue[c]
    BY <1>1, HeadTailOfConcat
  <2>2. wire'[c] = Append(wire[c], Head(batch[c])) /\ batch'[c] = Tail(batch[c])
    BY <1>1, <1>3 DEF Write, TypeOK
  <2>3. Sound(c)' = Sound(c)
    BY <1>1 DEF Sound
  <2>4. Owed(c) = batch[c] \o queue[c] /\ Owed(c)' = Tail(batch[c]) \o queue[c]
    BY <1>1, <1>3, <2>2 DEF Owed
  <2> QED BY <1>2, <2>1, <2>2, <2>3, <2>4 DEF FeedStep, Delivers
<1>4. CASE socket[c] # "up"
  <2>1. Owed(c)' = Owed(c) /\ Sound(c)' = Sound(c)
    BY <1>1, <1>4 DEF Owed, Sound
  <2>2. wire'[c] = wire[c]
    BY <1>4 DEF Write
  <2> QED BY <1>2, <2>1, <2>2 DEF FeedStep, Idles
<1> QED BY <1>3, <1>4

\* writeLoop taking the queue moves messages within what is owed.
LEMMA DrainFeed ==
    ASSUME TypeOK, ClientPhases, NEW c \in Clients, Drain(c)
    PROVE  FeedStep(c)
<1>1. /\ batch[c] = <<>> /\ queue[c] \in Seq(Messages)
      /\ batch' = [batch EXCEPT ![c] = queue[c]]
      /\ queue' = [queue EXCEPT ![c] = <<>>]
      /\ UNCHANGED <<closed, socket, wire>>
  BY DEF Drain, QueueTaken, ClientPhases, TypeOK
<1>2. Alone(c)
  BY <1>1 DEF Alone, TypeOK
<1>3. batch'[c] = queue[c] /\ queue'[c] = <<>>
  BY <1>1 DEF TypeOK
<1>4. <<>> \o queue[c] = queue[c] \o <<>>
  BY <1>1
<1>5. Owed(c)' = Owed(c) /\ Sound(c)' = Sound(c)
  BY <1>1, <1>3, <1>4 DEF Owed, Sound
<1> QED BY <1>1, <1>2, <1>5 DEF FeedStep, Idles

\* Attaching starts an empty feed.
LEMMA SubscribeFeed ==
    ASSUME TypeOK, ClientPhases, NEW c \in Clients, Subscribe(c)
    PROVE  FeedStep(c)
<1>1. /\ UNCHANGED <<queue, closed, batch, wire>>
      /\ socket' = [socket EXCEPT ![c] = "up"]
      /\ handler[c] = "off"
  BY DEF Subscribe, writers
<1>2. /\ socket[c] # "up" /\ ~closed[c] /\ queue[c] = <<>>
      /\ wire[c] = <<>> /\ batch[c] = <<>>
  BY <1>1 DEF ClientPhases
<1>3. Alone(c)
  BY <1>1 DEF Alone, TypeOK
<1>4. socket'[c] = "up"
  BY <1>1 DEF TypeOK
<1>5. Owed(c) = <<>> /\ ~Sound(c) /\ Sound(c)'
  BY <1>1, <1>2, <1>4 DEF Owed, Sound
<1>6. Owed(c)' = <<>>
  <2>1. Owed(c)' = <<>> \o <<>>
    BY <1>1, <1>2, <1>4 DEF Owed
  <2> QED BY <2>1
<1> QED BY <1>1, <1>2, <1>3, <1>5, <1>6 DEF FeedStep, Attaches

\* Every step of the session is a step of some client's feed, or of none.
LEMMA StepFeed ==
    ASSUME TypeOK, RInv, Next
    PROVE  \/ \E c \in Clients : FeedStep(c)
           \/ UNCHANGED <<queue, closed, socket, batch, wire>>
<1>0. CarriesMessage /\ ClientPhases /\ WriterHasBatch
  BY DEF RInv, IInv, TypeInv
<1>1. ASSUME NEW t \in Threads, Publish(t)
      PROVE  \/ \E c \in Clients : FeedStep(c)
             \/ UNCHANGED <<queue, closed, socket, batch, wire>>
  <2>1. CASE PublishBuffered(t) \/ PublishTransient(t)
    BY <2>1 DEF PublishBuffered, PublishTransient, AssignID, queues, writers
  <2>2. CASE AppendToRing(t) \/ BroadcastLock(t) \/ BroadcastUnlock(t)
    BY <2>2 DEF AppendToRing, BroadcastLock, BroadcastUnlock, queues, writers
  <2>3. ASSUME NEW c \in Clients, BroadcastTo(t, c)
        PROVE  FeedStep(c)
    <3>1. /\ pubMsg[t] \in Messages /\ EnqueueTo(c, pubMsg[t])
          /\ UNCHANGED <<batch, wire>>
      BY <1>0, <2>3 DEF BroadcastTo, CarriesMessage, writers
    <3> QED BY <3>1, EnqueueFeed
  <2> QED BY <1>1, <2>1, <2>2, <2>3 DEF Publish
<1>2. ASSUME NEW c \in Clients, Emit(c)
      PROVE  FeedStep(c)
  <2>1. CASE EmitAssign(c)
    <3>1. UNCHANGED <<queue, closed, socket, batch, wire>>
      BY <2>1 DEF EmitAssign, AssignID, queues, writers
    <3> QED BY <3>1, NoFeed
  <2>2. CASE EmitEnqueue(c)
    <3>1. /\ pubMsg[c] \in Messages /\ EnqueueTo(c, pubMsg[c])
          /\ UNCHANGED <<batch, wire>>
      BY <1>0, <2>2 DEF EmitEnqueue, CarriesMessage, Threads, writers
    <3> QED BY <3>1, EnqueueFeed
  <2> QED BY <1>2, <2>1, <2>2 DEF Emit
<1>3. ASSUME NEW c \in Clients, HandleWS(c)
      PROVE  FeedStep(c)
  <2>1. CASE Subscribe(c)
    BY <1>0, <2>1, SubscribeFeed
  <2>2. CASE CheckSeen(c) \/ Snapshot(c) \/ ReplayDone(c) \/ ReadLoopExit(c) \/ Unsubscribe(c)
    <3>1. UNCHANGED <<queue, closed, socket, batch, wire>>
      BY <2>2 DEF CheckSeen, StartServing, Snapshot, ReplayDone, ReadLoopExit, Unsubscribe,
                  queues, writers
    <3> QED BY <3>1, NoFeed
  <2>3. CASE ReplayNext(c)
    <3>1. /\ Head(replay[c]) \in Messages /\ EnqueueTo(c, Head(replay[c]))
          /\ UNCHANGED <<batch, wire>>
      BY <2>3 DEF ReplayNext, TypeOK, writers
    <3> QED BY <3>1, EnqueueFeed
  <2>4. CASE Shutdown(c)
    <3>1. /\ closed' = [closed EXCEPT ![c] = TRUE]
          /\ queue' = [queue EXCEPT ![c] = <<>>]
          /\ UNCHANGED <<socket, batch, wire>>
      BY <2>4 DEF Shutdown, writers
    <3>2. /\ \A d \in Clients \ {c} :
                queue'[d] = queue[d] /\ closed'[d] = closed[d] /\ socket'[d] = socket[d]
          /\ socket'[c] = socket[c] /\ closed'[c] /\ queue'[c] = <<>>
      BY <3>1 DEF TypeOK
    <3> QED BY <3>1, <3>2, CutFeed
  <2>5. CASE CloseSocket(c)
    <3>1. /\ socket' = [socket EXCEPT ![c] = "closed"]
          /\ UNCHANGED <<queue, closed, batch, wire>>
      BY <2>5 DEF CloseSocket, writers
    <3> QED BY <3>1, CutFeed DEF TypeOK
  <2> QED BY <1>3, <2>1, <2>2, <2>3, <2>4, <2>5 DEF HandleWS
<1>4. ASSUME NEW c \in Clients, WriteLoop(c)
      PROVE  FeedStep(c)
  <2>1. CASE Wakeup(c) \/ ContextDone(c)
    <3>1. UNCHANGED <<queue, closed, socket, batch, wire>>
      BY <2>1 DEF Wakeup, ContextDone, queues
    <3> QED BY <3>1, NoFeed
  <2>2. CASE WriteOrPingFails(c)
    <3>1. /\ socket' = [socket EXCEPT ![c] = "closed"]
          /\ UNCHANGED <<queue, closed, batch, wire>>
      BY <2>2 DEF WriteOrPingFails, SocketClosed
    <3> QED BY <3>1, CutFeed DEF TypeOK
  <2> QED BY <1>0, <1>4, <2>1, <2>2, DrainFeed, WriteFeed DEF WriteLoop
<1>5. ASSUME NEW c \in Clients, Peer(c)
      PROVE  FeedStep(c)
  <2>1. /\ \E v \in {"dead", "closed"} : socket' = [socket EXCEPT ![c] = v]
        /\ UNCHANGED <<queue, closed, batch, wire>>
    BY <1>5 DEF Peer, PeerCloses, PeerVanishes, writers
  <2> QED BY <2>1, CutFeed DEF TypeOK
<1>6. CASE ReportSeen
  BY <1>6 DEF ReportSeen, AdvanceLastSeen, queues, writers
<1> QED BY <1>1, <1>2, <1>3, <1>4, <1>5, <1>6 DEF Next

\* So each maps to a step of Delivery, or to none.
LEMMA StepRefines == RInv /\ [Next]_vars => [Feeds!Next]_(Feeds!vars)
<1> SUFFICES ASSUME RInv, [Next]_vars PROVE [Feeds!Next]_(Feeds!vars)
  OBVIOUS
<1>1. TypeOK /\ TypeOK'
  BY NextInv DEF RInv, IInv, TypeInv
<1>2. CASE UNCHANGED <<queue, closed, socket, batch, wire>>
  BY <1>2 DEF Feeds!vars, Sound
<1>3. ASSUME NEW c \in Clients, FeedStep(c)
      PROVE  [Feeds!Next]_(Feeds!vars)
  BY <1>1, <1>3, FeedStepIsDelivery
<1>4. CASE UNCHANGED vars
  BY <1>2, <1>4 DEF vars, queues, writers
<1> QED BY <1>1, <1>2, <1>3, <1>4, StepFeed

\* The session implements Delivery: whatever publishers, handlers, writeLoops and
\* peers do, each client is handed an unbroken FIFO prefix of what was accepted
\* for it, and loses messages only off the end of a feed that was cut.
THEOREM StreamImplementsDelivery == Spec => ImplementsDelivery
<1>1. RInv /\ [Next]_vars => RInv'
  BY NextInv, PhasesStep DEF RInv
<1> QED BY InitRefines, <1>1, StepRefines, PTL DEF Spec, ImplementsDelivery, Feeds!Spec
=============================================================================
