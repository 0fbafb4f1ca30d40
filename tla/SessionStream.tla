--------------------------- MODULE SessionStream ---------------------------
(***************************************************************************)
(* One proxy session's message stream (internal/proxy/api/server.go): the  *)
(* ID counter, the event ring, the subscriber set, and per WebSocket       *)
(* client the handleWS goroutine (which becomes its readLoop), the         *)
(* outbound queue and the writeLoop goroutine.                             *)
(*                                                                         *)
(* publish is three separately synchronised steps - atomic ID, ring append *)
(* under eventBufMu, broadcast under subsMu - run concurrently by fanOut,  *)
(* runKeepalive, runStartup, the cron timers and every client's readLoop.  *)
(* enqueue's critical section and the nudge right after it are one step.   *)
(***************************************************************************)
EXTENDS Integers, Sequences, FiniteSets

CONSTANTS
    Publishers,  \* goroutines that publish without belonging to a client
    Clients,     \* the WebSocket connections made over the session's life
    Leaving,     \* bound: the clients that may leave of themselves
    NoThread,    \* value of subsMu when nobody holds it
    RingMax,     \* maxEventBuf
    BacklogMax,  \* maxClientBacklog
    MaxID        \* bound on the message IDs assigned

Threads == Publishers \cup Clients

ASSUME StreamAssumption ==
    /\ RingMax \in Nat \ {0}
    /\ BacklogMax \in Nat \ {0}
    /\ MaxID \in Nat
    /\ Publishers \cap Clients = {}
    /\ Leaving \subseteq Clients
    /\ NoThread \notin Threads

VARIABLES
    nextMsgID,   \* the last ID handed out
    eventBuf,    \* the ring of retained messages, oldest first
    lastSeenID,  \* the highest ID a client reported seen
    subscribers, \* the clients broadcast reaches
    subsMu,      \* the thread holding the subscriber lock, or NoThread
    todo,        \* subscribers the lock holder has yet to enqueue to
    pubPC,       \* pubPC[t]: where thread t is in publish or emit
    pubMsg,      \* pubMsg[t]: the message it carries
    handler,     \* handler[c]: where c's handleWS goroutine is
    replay,      \* replay[c]: the rest of the ring snapshot it replays
    socket,      \* socket[c]: "up", "dead" (peer silently gone), "closed"
    queue, closed, wake,  \* the wsClient's fields
    writer,      \* writer[c]: where c's writeLoop goroutine is
    batch,       \* batch[c]: what writeLoop took from the queue and has not written
    wire,        \* history: what the peer has been handed
    due,         \* history: IDs broadcast while c was subscribed, or replayed to it
    fresh        \* history: the clients that replayed the ring

stream  == <<nextMsgID, eventBuf>>
subs    == <<subscribers, subsMu, todo>>
pubs    == <<pubPC, pubMsg>>
conns   == <<handler, replay>>
queues  == <<queue, closed, wake, socket>>
writers == <<writer, batch, wire>>
history == <<due, fresh>>
vars == <<stream, lastSeenID, subs, pubs, conns, queues, writers, history>>

\* bufferableType keeps "buffered" ones in the ring; "transient" ones ("error")
\* are only broadcast; "private" ones are emitted to the client that asked.
Kinds == {"buffered", "transient", "private"}
Messages == [id : 1..MaxID, kind : Kinds]
NoMsg == [id |-> 0, kind |-> "none"]

Ids(s) == {s[i].id : i \in DOMAIN s}

TypeOK ==
    /\ nextMsgID \in 0..MaxID
    /\ eventBuf \in Seq(Messages)
    /\ Len(eventBuf) <= RingMax
    /\ lastSeenID \in 0..MaxID
    /\ subscribers \subseteq Clients
    /\ subsMu \in Threads \cup {NoThread}
    /\ todo \subseteq Clients
    /\ pubPC \in [Threads -> {"idle", "append", "broadcast", "deliver", "emit"}]
    /\ pubMsg \in [Threads -> Messages \cup {NoMsg}]
    /\ handler \in [Clients -> {"off", "subscribed", "snapshot", "replay",
                                "reading", "unsubscribe", "shutdown", "close", "gone"}]
    /\ replay \in [Clients -> Seq(Messages)]
    /\ socket \in [Clients -> {"up", "dead", "closed"}]
    /\ queue \in [Clients -> Seq(Messages)]
    /\ closed \in [Clients -> BOOLEAN]
    /\ wake \in [Clients -> BOOLEAN]
    /\ writer \in [Clients -> {"off", "drain", "write", "sleep", "done"}]
    /\ batch \in [Clients -> Seq(Messages)]
    /\ wire \in [Clients -> Seq(Messages)]
    /\ due \in [Clients -> SUBSET (1..MaxID)]
    /\ fresh \subseteq Clients

Init ==
    /\ nextMsgID = 0
    /\ eventBuf = <<>>
    /\ lastSeenID = 0
    /\ subscribers = {}
    /\ subsMu = NoThread
    /\ todo = {}
    /\ pubPC = [t \in Threads |-> "idle"]
    /\ pubMsg = [t \in Threads |-> NoMsg]
    /\ handler = [c \in Clients |-> "off"]
    /\ replay = [c \in Clients |-> <<>>]
    /\ socket = [c \in Clients |-> "closed"]
    /\ queue = [c \in Clients |-> <<>>]
    /\ closed = [c \in Clients |-> FALSE]
    /\ wake = [c \in Clients |-> FALSE]
    /\ writer = [c \in Clients |-> "off"]
    /\ batch = [c \in Clients |-> <<>>]
    /\ wire = [c \in Clients |-> <<>>]
    /\ due = [c \in Clients |-> {}]
    /\ fresh = {}

-----------------------------------------------------------------------------
(* wsClient.enqueue: a no-op once closed; past the backlog the client is cut. *)
(* Mut_... definitions are plausible faults; no action uses them.          *)

Mut_QueuedNoWake(c, m) ==
    queue' = [queue EXCEPT ![c] = Append(@, m)] /\ UNCHANGED <<wake, closed, socket>>

Queued(c, m) ==
    /\ queue' = [queue EXCEPT ![c] = Append(@, m)]
    /\ wake' = [wake EXCEPT ![c] = TRUE]
    /\ UNCHANGED <<closed, socket>>

\* A full queue drops the new message, drops the oldest one, or is kept.
Mut_CutOffDropsNew(c) == UNCHANGED queues
Mut_CutOffDropsOldest(c) ==
    queue' = [queue EXCEPT ![c] = Tail(@)] /\ UNCHANGED <<wake, closed, socket>>
Mut_CutOffKeepsQueue(c) ==
    closed' = [closed EXCEPT ![c] = TRUE] /\ UNCHANGED <<queue, wake, socket>>

CutOff(c) ==
    /\ closed' = [closed EXCEPT ![c] = TRUE]
    /\ queue' = [queue EXCEPT ![c] = <<>>]
    /\ socket' = [socket EXCEPT ![c] = "closed"]
    /\ UNCHANGED wake

EnqueueTo(c, m) ==
    \/ closed[c] /\ UNCHANGED queues
    \/ ~closed[c] /\ Len(queue[c]) < BacklogMax /\ Queued(c, m)
    \/ ~closed[c] /\ Len(queue[c]) >= BacklogMax /\ CutOff(c)

(* publish: assignID, append to the ring, broadcast.                       *)

\* Only a readLoop that is serving its client runs commands for it.
MayPublish(t) == pubPC[t] = "idle" /\ (t \in Clients => handler[t] = "reading")

Count(kind) == nextMsgID + 1

AssignID(t, kind, pc) ==
    /\ MayPublish(t)
    /\ nextMsgID < MaxID
    /\ nextMsgID' = Count(kind)
    /\ pubMsg' = [pubMsg EXCEPT ![t] = [id |-> nextMsgID + 1, kind |-> kind]]
    /\ pubPC' = [pubPC EXCEPT ![t] = pc]
    /\ UNCHANGED <<eventBuf, lastSeenID, subs, conns, queues, writers, history>>

PublishBuffered(t) == AssignID(t, "buffered", "append")
PublishTransient(t) == t \in Publishers /\ AssignID(t, "transient", "broadcast")

Trim(buf) == IF Len(buf) > RingMax
             THEN SubSeq(buf, Len(buf) - RingMax + 1, Len(buf)) ELSE buf

AppendToRing(t) ==
    /\ pubPC[t] = "append"
    /\ eventBuf' = Trim(Append(eventBuf, pubMsg[t]))
    /\ pubPC' = [pubPC EXCEPT ![t] = "broadcast"]
    /\ UNCHANGED <<nextMsgID, lastSeenID, subs, pubMsg, conns, queues, writers, history>>

\* Leaves out clients still replaying, as if the replay would reach them.
Mut_AudienceSkipsReplaying == {c \in subscribers : handler[c] # "replay"}
Audience == subscribers

BroadcastLock(t) ==
    /\ pubPC[t] = "broadcast"
    /\ subsMu = NoThread
    /\ subsMu' = t
    /\ todo' = Audience
    /\ pubPC' = [pubPC EXCEPT ![t] = "deliver"]
    /\ due' = [c \in Clients |->
                 IF c \in Audience THEN due[c] \cup {pubMsg[t].id} ELSE due[c]]
    /\ UNCHANGED <<fresh, stream, lastSeenID, subscribers, pubMsg, conns, queues, writers>>

BroadcastTo(t, c) ==
    /\ pubPC[t] = "deliver"
    /\ c \in todo
    /\ EnqueueTo(c, pubMsg[t])
    /\ todo' = todo \ {c}
    /\ UNCHANGED <<stream, lastSeenID, subscribers, subsMu, pubs, conns, writers, history>>

BroadcastUnlock(t) ==
    /\ pubPC[t] = "deliver"
    /\ todo = {}
    /\ subsMu' = NoThread
    /\ pubPC' = [pubPC EXCEPT ![t] = "idle"]
    /\ pubMsg' = [pubMsg EXCEPT ![t] = NoMsg]
    /\ UNCHANGED <<stream, lastSeenID, subscribers, todo, conns, queues, writers, history>>

\* Hands command output to publish.
Mut_EmitBroadcasts(c) == AssignID(c, "private", "broadcast")

\* readLoop's emit: command output for the issuing client alone.
EmitAssign(c) == AssignID(c, "private", "emit")

EmitEnqueue(c) ==
    /\ pubPC[c] = "emit"
    /\ EnqueueTo(c, pubMsg[c])
    /\ pubPC' = [pubPC EXCEPT ![c] = "idle"]
    /\ pubMsg' = [pubMsg EXCEPT ![c] = NoMsg]
    /\ UNCHANGED <<stream, lastSeenID, subs, conns, writers, history>>

-----------------------------------------------------------------------------
(* handleWS                                                                *)

Subscribe(c) ==
    /\ handler[c] = "off"
    /\ subsMu = NoThread
    /\ subscribers' = subscribers \cup {c}
    /\ socket' = [socket EXCEPT ![c] = "up"]
    /\ handler' = [handler EXCEPT ![c] = "subscribed"]
    /\ UNCHANGED <<stream, lastSeenID, subsMu, todo, pubs, replay, queue, closed,
                   wake, writers, history>>

\* writeLoop starts when handleWS reaches readLoop.
StartServing(c) ==
    /\ handler' = [handler EXCEPT ![c] = "reading"]
    /\ writer' = [writer EXCEPT ![c] = "drain"]
    /\ UNCHANGED <<stream, lastSeenID, subs, pubs, replay, queues, batch, wire, history>>

\* Only a session nobody has reported seeing anything of is replayed.
CheckSeen(c) ==
    /\ handler[c] = "subscribed"
    /\ IF lastSeenID = 0
       THEN /\ handler' = [handler EXCEPT ![c] = "snapshot"]
            /\ UNCHANGED <<stream, lastSeenID, subs, pubs, replay, queues, writers, history>>
       ELSE StartServing(c)

Snapshot(c) ==
    /\ handler[c] = "snapshot"
    /\ replay' = [replay EXCEPT ![c] = eventBuf]
    /\ handler' = [handler EXCEPT ![c] = "replay"]
    /\ due' = [due EXCEPT ![c] = @ \cup Ids(eventBuf)]
    /\ fresh' = fresh \cup {c}
    /\ UNCHANGED <<stream, lastSeenID, subs, pubs, queues, writers>>

ReplayNext(c) ==
    /\ handler[c] = "replay"
    /\ replay[c] # <<>>
    /\ EnqueueTo(c, Head(replay[c]))
    /\ replay' = [replay EXCEPT ![c] = Tail(@)]
    /\ UNCHANGED <<stream, lastSeenID, subs, pubs, handler, writers, history>>

ReplayDone(c) ==
    /\ handler[c] = "replay"
    /\ replay[c] = <<>>
    /\ StartServing(c)

\* readLoop returns: the socket failed, or a send to Lily did.
ReadLoopExit(c) ==
    /\ c \in Leaving \/ socket[c] = "closed"
    /\ handler[c] = "reading"
    /\ pubPC[c] = "idle"
    /\ handler' = [handler EXCEPT ![c] = "unsubscribe"]
    /\ UNCHANGED <<stream, lastSeenID, subs, pubs, replay, queues, writers, history>>

Unsubscribe(c) ==
    /\ handler[c] = "unsubscribe"
    /\ subsMu = NoThread
    /\ subscribers' = subscribers \ {c}
    /\ handler' = [handler EXCEPT ![c] = "shutdown"]
    /\ UNCHANGED <<stream, lastSeenID, subsMu, todo, pubs, replay, queues, writers, history>>

Shutdown(c) ==
    /\ handler[c] = "shutdown"
    /\ closed' = [closed EXCEPT ![c] = TRUE]
    /\ queue' = [queue EXCEPT ![c] = <<>>]
    /\ wake' = [wake EXCEPT ![c] = TRUE]
    /\ handler' = [handler EXCEPT ![c] = "close"]
    /\ UNCHANGED <<stream, lastSeenID, subs, pubs, replay, socket, writers, history>>

CloseSocket(c) ==
    /\ handler[c] = "close"
    /\ socket' = [socket EXCEPT ![c] = "closed"]
    /\ handler' = [handler EXCEPT ![c] = "gone"]
    /\ UNCHANGED <<stream, lastSeenID, subs, pubs, replay, queue, closed, wake, writers, history>>

-----------------------------------------------------------------------------
(* writeLoop                                                               *)

\* Takes the queue without resetting it.
Mut_QueueKept(c) == queue' = queue
QueueTaken(c) == queue' = [queue EXCEPT ![c] = <<>>]

AfterDrain(c) == IF queue[c] # <<>> THEN "write"
                 ELSE IF closed[c] THEN "done" ELSE "sleep"

Drain(c) ==
    /\ writer[c] = "drain"
    /\ batch' = [batch EXCEPT ![c] = queue[c]]
    /\ QueueTaken(c)
    /\ writer' = [writer EXCEPT ![c] = AfterDrain(c)]
    /\ UNCHANGED <<stream, lastSeenID, subs, pubs, conns, closed, wake, socket, wire, history>>

\* A write to a peer that has vanished succeeds locally and reaches nobody.
Write(c) ==
    /\ writer[c] = "write"
    /\ socket[c] # "closed"
    /\ wire' = IF socket[c] = "up"
               THEN [wire EXCEPT ![c] = Append(@, Head(batch[c]))] ELSE wire
    /\ batch' = [batch EXCEPT ![c] = Tail(@)]
    /\ writer' = [writer EXCEPT ![c] = IF Len(batch[c]) = 1 THEN "drain" ELSE "write"]
    /\ UNCHANGED <<stream, lastSeenID, subs, pubs, conns, queues, history>>

Wakeup(c) ==
    /\ writer[c] = "sleep"
    /\ wake[c]
    /\ wake' = [wake EXCEPT ![c] = FALSE]
    /\ writer' = [writer EXCEPT ![c] = "drain"]
    /\ UNCHANGED <<stream, lastSeenID, subs, pubs, conns, queue, closed, socket, batch, wire, history>>

SocketClosed(c) == socket' = [socket EXCEPT ![c] = "closed"]

\* A failed write or keepalive ping ends writeLoop; closing the socket is what
\* unblocks readLoop.
WriteOrPingFails(c) ==
    /\ writer[c] \in {"write", "sleep"}
    /\ socket[c] # "up"
    /\ writer' = [writer EXCEPT ![c] = "done"]
    /\ SocketClosed(c)
    /\ UNCHANGED <<stream, lastSeenID, subs, pubs, conns, queue, closed, wake, batch, wire, history>>

\* The request context ends with handleWS.
ContextDone(c) ==
    /\ writer[c] \in {"write", "sleep"}
    /\ handler[c] = "gone"
    /\ writer' = [writer EXCEPT ![c] = "done"]
    /\ UNCHANGED <<stream, lastSeenID, subs, pubs, conns, queues, batch, wire, history>>

-----------------------------------------------------------------------------
(* The peer, and the reports of what it has seen (advanceLastSeen).        *)

PeerCloses(c) ==
    /\ c \in Leaving
    /\ socket[c] = "up"
    /\ socket' = [socket EXCEPT ![c] = "closed"]
    /\ UNCHANGED <<stream, lastSeenID, subs, pubs, conns, queue, closed, wake, writers, history>>

PeerVanishes(c) ==
    /\ c \in Leaving
    /\ socket[c] = "up"
    /\ socket' = [socket EXCEPT ![c] = "dead"]
    /\ UNCHANGED <<stream, lastSeenID, subs, pubs, conns, queue, closed, wake, writers, history>>

\* A report reaches the session over any connection, at any later time.
AdvanceLastSeen(id) ==
    /\ id > lastSeenID
    /\ lastSeenID' = id
    /\ UNCHANGED <<stream, subs, pubs, conns, queues, writers, history>>

ReportSeen == \E c \in Clients : \E id \in Ids(wire[c]) : AdvanceLastSeen(id)

-----------------------------------------------------------------------------
Publish(t) == \/ PublishBuffered(t) \/ PublishTransient(t) \/ AppendToRing(t)
              \/ BroadcastLock(t) \/ BroadcastUnlock(t)
              \/ \E c \in Clients : BroadcastTo(t, c)

Emit(c) == EmitAssign(c) \/ EmitEnqueue(c)

HandleWS(c) == \/ Subscribe(c) \/ CheckSeen(c) \/ Snapshot(c) \/ ReplayNext(c)
               \/ ReplayDone(c) \/ ReadLoopExit(c) \/ Unsubscribe(c)
               \/ Shutdown(c) \/ CloseSocket(c)

WriteLoop(c) == \/ Drain(c) \/ Write(c) \/ Wakeup(c) \/ WriteOrPingFails(c)
                \/ ContextDone(c)

Peer(c) == PeerCloses(c) \/ PeerVanishes(c)

Next == \/ \E t \in Threads : Publish(t)
        \/ \E c \in Clients : Emit(c) \/ HandleWS(c) \/ WriteLoop(c) \/ Peer(c)
        \/ ReportSeen

Spec == Init /\ [][Next]_vars

\* Goroutines that have begun an operation are scheduled until it ends; a
\* readLoop whose socket closed returns.  Nothing obliges anyone to publish,
\* a peer to attach, leave or report, or a healthy readLoop to return.
FinishPublish(t) == AppendToRing(t) \/ BroadcastLock(t) \/ BroadcastUnlock(t)
                    \/ \E c \in Clients : BroadcastTo(t, c)
FinishHandler(c) == CheckSeen(c) \/ Snapshot(c) \/ ReplayNext(c) \/ ReplayDone(c)
                    \/ (socket[c] = "closed" /\ ReadLoopExit(c))
                    \/ Unsubscribe(c) \/ Shutdown(c) \/ CloseSocket(c)

FairSpec ==
    /\ Spec
    /\ \A t \in Threads : WF_vars(FinishPublish(t))
    /\ \A c \in Clients : /\ WF_vars(EmitEnqueue(c))
                          /\ WF_vars(FinishHandler(c))
                          /\ WF_vars(WriteLoop(c))

-----------------------------------------------------------------------------
(* Properties                                                              *)

\* c's connection is sound as far as either end knows.
Sound(c) == socket[c] = "up" /\ ~closed[c]

\* What the session holds for c, in the order c gets it.
Feed(c) == wire[c] \o batch[c] \o queue[c]

\* IDs some thread is still enqueueing to c.
InFlight(c) == {pubMsg[t].id : t \in {u \in Threads : pubPC[u] = "deliver" /\ c \in todo}}

\* "Delivery is queued per client and never silently dropped" (broadcast): what
\* was broadcast or replayed to a sound client has reached it, is in its queue
\* or batch, or is about to be enqueued.
NothingDueIsLost ==
    \A c \in Clients :
        Sound(c) => due[c] \subseteq Ids(Feed(c)) \cup Ids(replay[c]) \cup InFlight(c)

\* handleWS subscribes before it copies the ring, and publish appends before it
\* broadcasts: a client that attached to a fresh session misses nothing the ring
\* holds, however its attach interleaves with publishers.
FreshClientMissesNothing ==
    \A c \in fresh \cap subscribers :
        Sound(c) => Ids(eventBuf) \subseteq
                       due[c] \cup {pubMsg[t].id : t \in {u \in Threads : pubPC[u] = "broadcast"}}

\* A message reaches a client at most once; only the replay of the ring to a
\* fresh client, racing a broadcast, can make it twice (clients dedup by ID).
DuplicatesOnlyFromReplay ==
    \A c \in Clients, i \in 1..MaxID :
        LET copies == {k \in DOMAIN Feed(c) : Feed(c)[k].id = i}
        IN Cardinality(copies) <= (IF c \in fresh THEN 2 ELSE 1)

\* Two publishers never share an ID, so dedup by ID discards no message: an ID
\* names one message in the ring, in the feeds and in publishers' hands.
IDNamesOneMessage ==
    LET all == {eventBuf[k] : k \in DOMAIN eventBuf}
               \cup (UNION {{Feed(c)[k] : k \in DOMAIN Feed(c)} : c \in Clients})
               \cup ({pubMsg[t] : t \in Threads} \ {NoMsg})
    IN /\ \A m, n \in all : m.id = n.id => m = n
       /\ \A t, u \in Threads : pubPC[t] # "idle" /\ t # u => pubMsg[t].id # pubMsg[u].id

\* What a client holds twice is the same message, and it holds it twice only when
\* the replay of the ring races a broadcast.
CopiesComeFromReplay == DuplicatesOnlyFromReplay /\ IDNamesOneMessage

\* Memory held for a client stays bounded, and none is held past the cut.
BacklogBounded ==
    \A c \in Clients : /\ Len(queue[c]) <= BacklogMax
                       /\ Len(batch[c]) <= BacklogMax
                       /\ closed[c] => queue[c] = <<>>

\* readLoop's emit: output of a client's own %-command goes to no other client
\* and is not retained.
PrivateOutputStaysPrivate ==
    /\ \A k \in DOMAIN eventBuf : eventBuf[k].kind = "buffered"
    /\ \A c, d \in Clients : c # d =>
          \A j \in DOMAIN Feed(c), k \in DOMAIN Feed(d) :
              Feed(c)[j].kind = "private" => Feed(c)[j].id # Feed(d)[k].id

\* The session implements the feed its clients are promised: per client FIFO,
\* without a hole, until it is cut.
Feeds == INSTANCE Delivery WITH
    owed <- [c \in Clients |-> IF socket[c] = "up" THEN batch[c] \o queue[c] ELSE <<>>],
    got  <- wire,
    live <- [c \in Clients |-> Sound(c)]

ImplementsDelivery == Feeds!Spec

\* writeLoop never sleeps through a message: everything due to a client is
\* handed to it unless its connection fails or is cut.
DueIsDelivered ==
    \A c \in Clients, i \in 1..MaxID :
        (i \in due[c]) ~> (i \in Ids(wire[c]) \/ ~Sound(c))

\* A peer that vanished without a FIN is found by the keepalive ping and its
\* readLoop retired, though readLoop itself would wait for ever.
VanishedPeerIsRetired ==
    \A c \in Clients : (socket[c] = "dead") ~> (handler[c] = "gone" /\ c \notin subscribers)

\* No writeLoop outlives its connection.
WriterStops == \A c \in Clients : (handler[c] = "gone") ~> (writer[c] = "done")

\* "id is a monotonically increasing integer" (docs/client-api.md): leaving out
\* repeats, the IDs a client is handed increase.
IDsIncreaseOnTheWire ==
    \A c \in Clients : \A k \in DOMAIN wire[c] :
        LET before == {wire[c][j].id : j \in 1..(k - 1)}
        IN wire[c][k].id \in before \/ \A i \in before : i < wire[c][k].id
=============================================================================
