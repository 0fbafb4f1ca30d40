---- MODULE MCStreams ----
(* SessionStream twice: a client that may fall behind, leave or vanish, or two
   that run commands of their own, for what is due and what is private; and a small
   one for what must happen. *)
(* The components of a run do not interact: part says which one runs. *)
EXTENDS SessionStream

CONSTANTS c1, c2

VARIABLES
    part, \* the component that runs
    live_nextMsgID, live_eventBuf, live_lastSeenID, live_subscribers, live_subsMu,
    live_todo, live_pubPC, live_pubMsg, live_handler, live_replay, live_socket, live_queue,
    live_closed, live_wake, live_writer, live_batch, live_wire, live_due, live_fresh

Live == INSTANCE SessionStream WITH
    Clients <- {c1}, BacklogMax <- 1, MaxID <- 2, nextMsgID <- live_nextMsgID,
    eventBuf <- live_eventBuf, lastSeenID <- live_lastSeenID,
    subscribers <- live_subscribers, subsMu <- live_subsMu, todo <- live_todo,
    pubPC <- live_pubPC, pubMsg <- live_pubMsg, handler <- live_handler,
    replay <- live_replay, socket <- live_socket, queue <- live_queue,
    closed <- live_closed, wake <- live_wake, writer <- live_writer, batch <- live_batch,
    wire <- live_wire, due <- live_due, fresh <- live_fresh

LiveVars == <<live_nextMsgID, live_eventBuf, live_lastSeenID, live_subscribers,
               live_subsMu, live_todo, live_pubPC, live_pubMsg, live_handler, live_replay,
               live_socket, live_queue, live_closed, live_wake, live_writer, live_batch,
               live_wire, live_due, live_fresh>>

AllInit ==
    \/ part \in {"attach", "two clients"} /\ Init /\ Live!Init
    \/ part = "goroutines" /\ Live!Init /\ Init

\* Two clients that stay.
TwoStay ==
    /\ Next /\ nextMsgID' <= 2
    /\ \A c \in Clients : ~Peer(c) /\ handler'[c] # "unsubscribe"

AllNext ==
    \/ part = "attach" /\ Next /\ handler'[c2] = "off" /\ UNCHANGED <<part, LiveVars>>
    \/ part = "two clients" /\ TwoStay /\ UNCHANGED <<part, LiveVars>>
    \/ part = "goroutines" /\ Live!Next /\ UNCHANGED <<part, vars>>

AllVars == <<part, vars, LiveVars>>
AllSpec ==
    /\ AllInit
    /\ [][AllNext]_AllVars
    /\ \A t \in Live!Threads : WF_LiveVars(part = "goroutines" /\ Live!FinishPublish(t))
    /\ WF_LiveVars(part = "goroutines" /\ Live!EmitEnqueue(c1))
    /\ WF_LiveVars(part = "goroutines" /\ Live!FinishHandler(c1))
    /\ WF_LiveVars(part = "goroutines" /\ Live!WriteLoop(c1))

-----------------------------------------------------------------------------
\* writeLoop never sleeps through a message: everything due to a client is
\* handed to it unless its connection fails or is cut.  A peer that vanished
\* without a FIN is found by the keepalive ping and its readLoop retired, though
\* readLoop itself would wait for ever, and no writeLoop outlives its connection.
GoroutinesFinish ==
    part = "goroutines" =>
        Live!DueIsDelivered /\ Live!VanishedPeerIsRetired /\ Live!WriterStops
====
