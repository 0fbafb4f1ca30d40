------------------------------ MODULE LilyConn ------------------------------
(***************************************************************************)
(* A user's connection to the Lily server (internal/lily/conn.go): Connect *)
(* and its watchdog, the handshake, the readLoop goroutine that feeds the  *)
(* Events channel and intercepts the reply to its own "/where me", and the *)
(* fanOut goroutine that drains Events once Connect has returned.          *)
(*                                                                         *)
(* A line is read at the moment Lily sends it: Lily may take any time over *)
(* any line, so bytes in flight add no behaviour.                          *)
(***************************************************************************)
EXTENDS Integers, Sequences, FiniteSets

CONSTANTS
    Typed,       \* commands clients send
    TypedWheres, \* those with "/where" in their text
    Own,         \* the connection's own "/where me"
    None,        \* no command, no message
    EventsMax,   \* capacity of the Events channel
    MaxSaid,     \* bound on the lines Lily says that answer no command
    MaxLines     \* bound on the output lines of one command

Commands == Typed \cup {Own}
Wheres == TypedWheres \cup {Own}
Outcomes == {"ok", "rejected", "dropped"}  \* what loginResult can carry

ASSUME ConnAssumption ==
    /\ TypedWheres \subseteq Typed
    /\ Own \notin Typed
    /\ None \notin Commands \cup Outcomes
    /\ EventsMax \in Nat \ {0}
    /\ MaxSaid \in Nat
    /\ MaxLines \in Nat

VARIABLES
    connect,    \* where the Connect call, then the fanOut goroutine, is
    phase,      \* Conn.phase
    socket,     \* "up" or "closed"
    cancelled,  \* Conn.ctx is done
    loginResult,\* the buffered outcome of the login, or None
    signalled,  \* loginSignalled
    readLoop,   \* where the readLoop goroutine is
    held,       \* the message it is sending on Events
    whereStarted, waitingForWhere, whereCmdID,  \* readLoop's locals
    syncCloses, \* how often syncComplete was closed
    events,     \* Conn.Events
    eventsClosed,
    applied,    \* the notes applied to State
    seeded,     \* the lines membership was seeded from
    lily,       \* how far Lily has taken the login
    progress,   \* progress[x]: Lily's progress on command x
    printed,    \* printed[x]: the lines it has printed for x
    said,       \* how many other lines it has said
    swallowed   \* history: the lines readLoop kept from the clients

login == <<connect, phase, loginResult, signalled>>
wire == <<socket, cancelled>>
where == <<whereStarted, waitingForWhere, whereCmdID, syncCloses>>
state == <<applied, seeded>>
queue == <<events, eventsClosed>>
loop == <<readLoop, held>>
server == <<lily, progress, printed, said>>
vars == <<login, wire, where, state, queue, loop, server, swallowed>>

\* What readLine can return.  A "note" stands for the records and events that
\* change State; "text" for a raw line that no command's tag claims.
Line(type, x, n) == [type |-> type, cmd |-> x, n |-> n]
Kinds == {"login", "options", "badoptions", "success", "connected", "note", "text",
          "begin", "raw", "end"}
Messages == [type : Kinds, cmd : Commands \cup {None}, n : 0..(MaxSaid + MaxLines)]

TypeOK ==
    /\ connect \in {"dial", "handshake", "wait", "ok", "rejected", "failed", "closed"}
    /\ phase \in {"FirstPrompt", "Sync", "Ready"}
    /\ socket \in {"up", "closed"}
    /\ cancelled \in BOOLEAN
    /\ loginResult \in Outcomes \cup {None}
    /\ signalled \in BOOLEAN
    /\ readLoop \in {"off", "reading", "asking", "sending", "exited"}
    /\ held \in Messages \cup {None}
    /\ whereStarted \in BOOLEAN
    /\ waitingForWhere \in BOOLEAN
    /\ whereCmdID \in Commands \cup {None}
    /\ syncCloses \in Nat
    /\ events \in Seq(Messages)
    /\ Len(events) <= EventsMax
    /\ eventsClosed \in BOOLEAN
    /\ applied \subseteq 1..MaxSaid
    /\ seeded \subseteq Messages
    /\ lily \in {"greeting", "options", "outcome", "session", "live", "refused"}
    /\ progress \in [Commands -> {"unsent", "sent", "begun", "ended"}]
    /\ printed \in [Commands -> 0..MaxLines]
    /\ said \in 0..MaxSaid
    /\ swallowed \subseteq Messages

Init ==
    /\ connect = "dial"
    /\ phase = "FirstPrompt"
    /\ socket = "closed"
    /\ cancelled = FALSE
    /\ loginResult = None
    /\ signalled = FALSE
    /\ readLoop = "off"
    /\ held = None
    /\ whereStarted = FALSE
    /\ waitingForWhere = FALSE
    /\ whereCmdID = None
    /\ syncCloses = 0
    /\ events = <<>>
    /\ eventsClosed = FALSE
    /\ applied = {}
    /\ seeded = {}
    /\ lily = "greeting"
    /\ progress = [x \in Commands |-> "unsent"]
    /\ printed = [x \in Commands |-> 0]
    /\ said = 0
    /\ swallowed = {}

-----------------------------------------------------------------------------
(* Lily: which lines it may say next.                                      *)

\* What Lily was at, the line it says, what it is at then.
LoginSteps == {
    <<"greeting", "login", "options">>,
    <<"options", "options", "outcome">>,
    <<"options", "badoptions", "outcome">>,
    <<"options", "login", "refused">>,
    <<"outcome", "success", "session">>,
    <<"outcome", "connected", "live">>,
    <<"outcome", "login", "refused">>,
    <<"session", "connected", "live">>}

SaysLogin(m) ==
    \E s \in LoginSteps :
        /\ lily = s[1]
        /\ m = Line(s[2], None, 0)
        /\ lily' = s[3]
        /\ UNCHANGED <<progress, printed, said>>

SaysMore(m) ==
    /\ said < MaxSaid
    /\ \E type \in {"note", "text"} : m = Line(type, None, said + 1)
    /\ said' = said + 1
    /\ UNCHANGED <<lily, progress, printed>>

Answers(m, x, was, is) ==
    /\ lily = "live"
    /\ progress[x] = was
    /\ progress' = [progress EXCEPT ![x] = is]
    /\ UNCHANGED <<lily, said>>

SaysAnswer(m) ==
    \E x \in Commands :
        \/ /\ m = Line("begin", x, 0)
           /\ Answers(m, x, "sent", "begun")
           /\ UNCHANGED printed
        \/ /\ printed[x] < MaxLines
           /\ m = Line("raw", x, printed[x] + 1)
           /\ Answers(m, x, "begun", "begun")
           /\ printed' = [printed EXCEPT ![x] = @ + 1]
        \/ /\ m = Line("end", x, 0)
           /\ Answers(m, x, "begun", "ended")
           /\ UNCHANGED printed

LilySays(m) == socket = "up" /\ (SaysLogin(m) \/ SaysMore(m) \/ SaysAnswer(m))

-----------------------------------------------------------------------------
(* Connect, its watchdog and the handshake.  (Mut_... definitions are      *)
(* plausible faults; no action uses them.)                                 *)

Dial ==
    /\ connect = "dial"
    /\ \/ connect' = "handshake" /\ socket' = "up"
       \/ connect' = "failed" /\ UNCHANGED socket
    /\ UNCHANGED <<phase, loginResult, signalled, cancelled, where, state, queue, loop,
                   server, swallowed>>

\* Connect returns err and closes the socket.
ConnectFails(err) ==
    /\ connect' = err
    /\ socket' = "closed"
    /\ UNCHANGED <<phase, readLoop, state>>

\* applyMsg.
Applies(m) == IF m.type = "note" THEN {m.n} ELSE {}

\* runHandshake, up to the reply to the options.  Of what comes before, only %server,
\* the name of the server, is applied.
HandshakeReads(m) ==
    /\ connect = "handshake"
    /\ LilySays(m)
    /\ \/ /\ phase = "FirstPrompt" /\ m.type = "login"
          /\ \/ /\ phase' = "Sync"
                /\ UNCHANGED <<connect, socket, readLoop, state>>
             \/ ConnectFails("failed")
       \/ /\ phase = "Sync" /\ m.type = "options"
          /\ phase' = "Ready"
          /\ connect' = "wait"
          /\ readLoop' = "reading"
          /\ UNCHANGED <<socket, state>>
       \/ phase = "Sync" /\ m.type = "badoptions" /\ ConnectFails("failed")
       \/ phase = "Sync" /\ m.type = "login" /\ ConnectFails("rejected")
       \/ /\ \/ phase = "FirstPrompt" /\ m.type # "login"
             \/ phase = "Sync" /\ m.type \notin {"options", "badoptions", "login"}
          /\ UNCHANGED <<connect, phase, socket, readLoop, state>>
    /\ UNCHANGED <<loginResult, signalled, cancelled, where, queue, held, swallowed>>

HandshakeReadFails ==
    /\ connect = "handshake"
    /\ socket = "closed"
    /\ connect' = "failed"
    /\ UNCHANGED <<phase, loginResult, signalled, wire, where, state, queue, loop, server, swallowed>>

\* The watchdog is armed until Connect returns.
Armed == connect \in {"handshake", "wait"}

Watchdog ==
    /\ Armed
    /\ socket = "up"
    /\ socket' = "closed"
    /\ UNCHANGED <<login, cancelled, where, state, queue, loop, server, swallowed>>

\* Connect takes the outcome; on a failure it closes the connection.
LoginResolved ==
    /\ connect = "wait"
    /\ loginResult # None
    /\ \/ loginResult = "ok" /\ connect' = "ok" /\ UNCHANGED wire
       \/ /\ loginResult # "ok"
          /\ connect' = IF loginResult = "rejected" THEN "rejected" ELSE "failed"
          /\ socket' = "closed"
          /\ cancelled' = TRUE
    /\ UNCHANGED <<phase, loginResult, signalled, where, state, queue, loop, server, swallowed>>

-----------------------------------------------------------------------------
(* readLoop                                                                *)

Signal(r) ==
    /\ signalled' = TRUE
    /\ loginResult' = IF signalled THEN loginResult ELSE r

\* The deferred calls: report the drop if nothing was reported, close Events.
Mut_EventsLeftOpen == UNCHANGED eventsClosed
EventsEnd == eventsClosed' = TRUE

Exits(outcome) ==
    /\ Signal(outcome)
    /\ readLoop' = "exited"
    /\ held' = None
    /\ EventsEnd

\* A re-prompt before the login is confirmed.
Rejected(m) ==
    /\ m.type = "login"
    /\ ~signalled
    /\ Exits("rejected")
    /\ UNCHANGED <<where, state, swallowed>>

\* Any raw line will do.
Mut_ConfirmsAnyText(m) == m.type \in {"success", "text"}
\* "*** Connected ***" or "*** Redirecting old connection to this port ***".
Confirms(m) == m.type = "success"

\* %connected ends the login; the first one starts the "/where me".
Connected(m) ==
    /\ m.type = "connected"
    /\ Signal("ok")
    /\ whereStarted' = TRUE
    /\ readLoop' = IF whereStarted THEN "reading" ELSE "asking"
    /\ UNCHANGED <<waitingForWhere, whereCmdID, syncCloses, state, held, eventsClosed, swallowed>>

\* startWhere; if the send fails, nobody is left to wait for.
AskWhere ==
    /\ readLoop = "asking"
    /\ readLoop' = "reading"
    /\ IF socket = "up"
       THEN /\ waitingForWhere' = TRUE
            /\ progress' = [progress EXCEPT ![Own] = "sent"]
            /\ UNCHANGED syncCloses
       ELSE /\ syncCloses' = syncCloses + 1
            /\ UNCHANGED <<waitingForWhere, progress>>
    /\ UNCHANGED <<login, wire, whereStarted, whereCmdID, state, queue, held, lily, printed,
                   said, swallowed>>

\* Takes any %end for the end of the reply.
Mut_EndsAnyCommand(x) == whereCmdID # None
EndsWhere(x) == whereCmdID # None /\ x = whereCmdID

Intercepts(m) ==
    /\ waitingForWhere
    /\ \/ m.type = "begin" /\ m.cmd \in Wheres
       \/ m.type \in {"raw", "text"} /\ whereCmdID # None
       \/ m.type = "end" /\ EndsWhere(m.cmd)

Mut_StillWaiting == UNCHANGED waitingForWhere
WhereOver == waitingForWhere' = FALSE

\* A line of the reply: kept from the clients, and membership seeded from it.
Intercepted(m) ==
    /\ Intercepts(m)
    /\ swallowed' = swallowed \cup {m}
    /\ \/ /\ m.type = "begin"
          /\ whereCmdID' = m.cmd
          /\ UNCHANGED <<seeded, waitingForWhere, syncCloses>>
       \/ /\ m.type \in {"raw", "text"}
          /\ seeded' = seeded \cup {m}
          /\ UNCHANGED <<whereCmdID, waitingForWhere, syncCloses>>
       \/ /\ m.type = "end"
          /\ whereCmdID' = None
          /\ WhereOver
          /\ syncCloses' = syncCloses + 1
          /\ UNCHANGED seeded
    /\ UNCHANGED <<whereStarted, applied, readLoop, held, eventsClosed, loginResult, signalled>>

\* Anything else is applied to State, then forwarded.
Forwarded(m) ==
    /\ m.type # "connected"
    /\ m.type = "login" => signalled
    /\ ~Intercepts(m)
    /\ IF Confirms(m) THEN Signal("ok") ELSE UNCHANGED <<signalled, loginResult>>
    /\ applied' = applied \cup Applies(m)
    /\ readLoop' = "sending"
    /\ held' = m
    /\ UNCHANGED <<seeded, where, eventsClosed, swallowed>>

LoopReads(m) ==
    /\ readLoop = "reading"
    /\ ~cancelled
    /\ LilySays(m)
    /\ Rejected(m) \/ Connected(m) \/ Intercepted(m) \/ Forwarded(m)
    /\ UNCHANGED <<connect, phase, wire, events>>

HasRoom == Len(events) < EventsMax

LoopSends ==
    /\ readLoop = "sending"
    /\ HasRoom
    /\ events' = Append(events, held)
    /\ readLoop' = "reading"
    /\ held' = None
    /\ UNCHANGED <<login, wire, where, state, eventsClosed, server, swallowed>>

\* The read fails, or the context is done.
LoopStops ==
    /\ \/ readLoop = "reading" /\ (socket = "closed" \/ cancelled)
       \/ readLoop = "sending" /\ cancelled
    /\ Exits("dropped")
    /\ UNCHANGED <<connect, phase, wire, where, state, events, server, swallowed>>

-----------------------------------------------------------------------------
(* The session that owns the connection, and the network.                  *)

FanOutReads ==
    /\ connect = "ok"
    /\ events # <<>>
    /\ events' = Tail(events)
    /\ UNCHANGED <<login, wire, where, state, eventsClosed, loop, server, swallowed>>

FanOutEnds ==
    /\ connect = "ok"
    /\ events = <<>> /\ eventsClosed
    /\ connect' = "closed"
    /\ socket' = "closed"
    /\ cancelled' = TRUE
    /\ UNCHANGED <<phase, loginResult, signalled, where, state, queue, loop, server, swallowed>>

SendCommand(x) ==
    /\ connect = "ok"
    /\ socket = "up"
    /\ progress[x] = "unsent"
    /\ progress' = [progress EXCEPT ![x] = "sent"]
    /\ UNCHANGED <<login, wire, where, state, queue, loop, lily, printed, said, swallowed>>

Drop ==
    /\ socket = "up"
    /\ socket' = "closed"
    /\ UNCHANGED <<login, cancelled, where, state, queue, loop, server, swallowed>>

-----------------------------------------------------------------------------
Connect == Dial \/ HandshakeReadFails \/ LoginResolved
           \/ \E m \in Messages : HandshakeReads(m)
ReadLoop == AskWhere \/ LoopSends \/ LoopStops \/ \E m \in Messages : LoopReads(m)
FanOut == FanOutReads \/ FanOutEnds

Next == Connect \/ Watchdog \/ ReadLoop \/ FanOut \/ Drop \/ \E x \in Typed : SendCommand(x)

Spec == Init /\ [][Next]_vars

\* Lily owes nothing, the network neither.  The watchdog's timer fires, and the
\* goroutines go on when they can.
FairSpec ==
    /\ Spec
    /\ WF_vars(Connect) /\ WF_vars(Watchdog) /\ WF_vars(FanOut)
    /\ WF_vars(AskWhere) /\ WF_vars(LoopSends) /\ WF_vars(LoopStops)

-----------------------------------------------------------------------------
(* Properties                                                              *)

\* "%options is not login confirmation": Connect reports success only to a user
\* Lily let in, and bad credentials only when Lily refused them.
OutcomeIsLilys ==
    /\ connect \in {"ok", "closed"} => lily \in {"session", "live"}
    /\ connect = "rejected" => lily = "refused"

\* syncComplete is closed by whichever of two paths ends the wait for
\* "/where me"; closing it twice would crash the proxy.
SyncCompleteClosedOnce == syncCloses <= 1

\* "The syncComplete channel closes once this finishes": who waited for it sees
\* membership seeded from every line of the reply, if no other /where was asked.
SyncMeansSeeded ==
    (syncCloses > 0 /\ progress[Own] # "unsent"
       /\ \A x \in TypedWheres : progress[x] = "unsent")
    => /\ progress[Own] = "ended"
       /\ \A n \in 1..printed[Own] : Line("raw", Own, n) \in seeded

\* readLoop applies a message before it forwards it: what a client hears of, a
\* /state it then asks for shows.
StateAheadOfEvents ==
    \A m \in {events[i] : i \in DOMAIN events} \cup ({held} \ {None}) :
        m.type = "note" => m.n \in applied

\* What holds of State at all times: it is complete for those who waited, and
\* never behind the events.  (conn.go readLoop)
StateIsSeededAndAhead == SyncMeansSeeded /\ StateAheadOfEvents

\* "cannot hang the caller indefinitely": Connect returns, unless Lily says
\* more lines than Events holds before it confirms the login.
ConnectReturns ==
    (connect = "handshake") ~>
        (connect \in {"ok", "rejected", "failed"} \/ Len(events) = EventsMax)

\* A session whose connection is lost learns of it: Events closes behind the
\* last message, and fanOut tears the session down.
LostConnectionEndsSession == (connect = "ok" /\ socket = "closed") ~> (connect = "closed")

\* "silently intercepts the command response (matched by its %begin/%end command
\* id)", of whose lines some may be untagged: no line that carries the id of
\* another command is kept from the clients.
OnlyOwnReplyIntercepted == \A m \in swallowed : m.cmd \in {Own, None}
=============================================================================
