-------------------------- MODULE TerminalSession ---------------------------
(***************************************************************************)
(* One terminal client on its proxy (internal/tui/client/client.go and the *)
(* session half of internal/tui/ui/ui.go): the login, the socket and its   *)
(* loss, silent resume, the fetch of state and missed events, duplicates,  *)
(* the last-seen mark.  The update loop handles one message at a time;     *)
(* commands run beside it and their results arrive in any order.  A client *)
(* is one Client object; a session stands for its token, 0 for none.       *)
(***************************************************************************)
EXTENDS Integers, Sequences, FiniteSetsExt

CONSTANTS
    MaxSessions,   \* bound on the sessions the proxy opens
    MaxMsgs,       \* MaxMsgs[s]: bound on the messages of s before it closes
    MaxClients,    \* bound on the Client objects in use at one time
    MaxTrouble,    \* bound on the failures of the network
    MaxFetches,    \* bound on the state fetches that run at one time
    autoReconnectAttempts,
    PageLimit      \* the limit of one GET /events

ASSUME TerminalAssumption ==
    /\ {MaxSessions, MaxClients, MaxFetches, PageLimit} \subseteq Nat \ {0}
    /\ {autoReconnectAttempts, MaxTrouble} \subseteq Nat
    /\ MaxMsgs \in [1..MaxSessions -> Nat \ {0}]

Sessions == 1..MaxSessions
Clients == 1..MaxClients
LastID == 1 + Max({MaxMsgs[s] : s \in Sessions})
IDs == 1..LastID

VARIABLES
    known,     \* proxy: the sessions in its table
    lily,      \* proxy: the sessions whose Lily connection stands
    log,       \* proxy: log[s], the number of messages published; their IDs
    seen,      \* proxy: seen[s], Session.lastSeenID
    tok,       \* Client.token
    pw,        \* whether the Client holds a password
    sock,      \* "none", "up" or "down"
    chan,      \* Client.Events and what is on its way there
    listening, \* how many listenCmds wait on each client's channel
    cmds,      \* commands that run and results that wait for the update loop
    client, sessionToken, processedIDs, lastSeenID,
    authMode, reconnectPrompt, authInProgress, reconnectAttempt, \* Model
    top,       \* the highest ID among the output's items
    shown,     \* history: how often each message was put in the output
    fetchedFrom, fetchedTo, \* history: what a fetch of this client asked for, from its
               \* mark (-1 for none) to the last page that came, LastID if all did
    foreign,   \* history: the IDs that a late answer of another session put in processedIDs
    trouble    \* history: how often the network failed

proxy == <<known, lily, log, seen>>
clients == <<tok, pw, sock, chan, listening>>
login == <<client, sessionToken, authMode, authInProgress, reconnectAttempt>>
view == <<processedIDs, lastSeenID, top>>
history == <<shown, fetchedFrom, fetchedTo, foreign>>
vars == <<proxy, clients, cmds, login, reconnectPrompt, view, history, trouble>>

\* What a command does next, and with what.
Job == [do : {"resume", "login", "auth"}, c : Clients]
AuthResult == [do : {"authed"}, c : Clients, err : {"ok", "net", "rejected", "gone"}]
Asked == [do : {"state"}, c : Clients]
Fetching == {"state", "wait", "page", "loaded", "partly"}
Fetch == [do : {"wait", "page", "loaded", "partly"}, c : Clients, s : Sessions,
          mark : 0..LastID, upto : 0..LastID]

TypeOK ==
    /\ lily \subseteq known /\ known \subseteq Sessions
    /\ {log, seen} \subseteq [Sessions -> 0..LastID]
    /\ tok \in [Clients -> 0..MaxSessions] /\ pw \in [Clients -> BOOLEAN]
    /\ sock \in [Clients -> {"none", "up", "down"}]
    /\ chan \in [Clients -> Seq(IDs)]
    /\ listening \in [Clients -> 0..2]
    /\ cmds \subseteq Job \cup AuthResult \cup Asked \cup Fetch
    /\ client \in Clients /\ sessionToken \in 0..MaxSessions
    /\ processedIDs \subseteq IDs
    /\ {lastSeenID, top} \subseteq 0..LastID
    /\ {authMode, reconnectPrompt, authInProgress} \subseteq BOOLEAN
    /\ reconnectAttempt \in 0..autoReconnectAttempts
    /\ fetchedFrom \in -1..LastID /\ fetchedTo \in 0..LastID /\ foreign \subseteq IDs
    /\ shown \in [Sessions -> [IDs -> 0..2]]

Attached(g) == sock[g] = "up"
Larger(a, b) == IF a > b THEN a ELSE b

\* A terminal starts without a token, or a reloaded page with that of a live
\* session it has reconnected to (ResumeSession) after earlier output.
Init ==
    /\ \E n \in 0..1, k \in 0..1 :
         /\ k <= n
         /\ known = 1..n /\ lily = known
         /\ log = [s \in Sessions |-> IF s <= n THEN 1 ELSE 0]
         /\ seen = [s \in Sessions |-> IF s <= k THEN 1 ELSE 0]
         /\ \E resumed \in {0, n} :
              /\ sessionToken = resumed
              /\ tok = [g \in Clients |-> IF g = 1 THEN resumed ELSE 0]
              /\ sock = [g \in Clients |-> IF g = 1 /\ resumed > 0 THEN "up" ELSE "none"]
              /\ chan = [g \in Clients |-> IF g = 1 /\ resumed > k THEN <<1>> ELSE <<>>]
              /\ listening = [g \in Clients |-> IF g = 1 /\ resumed > 0 THEN 1 ELSE 0]
              /\ cmds = IF resumed > 0 THEN {[do |-> "state", c |-> 1]} ELSE {}
              /\ authMode = (resumed = 0)
    /\ pw = [g \in Clients |-> FALSE]
    /\ client = 1 /\ processedIDs = {} /\ lastSeenID = 0 /\ top = 0
    /\ reconnectPrompt = FALSE /\ authInProgress = FALSE /\ reconnectAttempt = 0
    /\ shown = [s \in Sessions |-> [i \in IDs |-> IF i <= seen[s] THEN 1 ELSE 0]]
    /\ fetchedFrom = -1 /\ fetchedTo = 0 /\ foreign = {} /\ trouble = 0

(* The network fails, or does not. *)
Fails == trouble < MaxTrouble /\ trouble' = trouble + 1
Works == UNCHANGED trouble

-----------------------------------------------------------------------------
(* The proxy, as far as a client can tell.                                 *)

Publish(s) ==
    /\ log' = [log EXCEPT ![s] = @ + 1]
    /\ chan' = [g \in Clients |->
                  IF Attached(g) /\ tok[g] = s THEN Append(chan[g], log[s] + 1) ELSE chan[g]]

LilySpeaks(s) ==
    /\ s \in lily /\ log[s] < MaxMsgs[s]
    /\ Publish(s)
    /\ UNCHANGED <<known, lily, seen, tok, pw, sock, listening, cmds, login, reconnectPrompt,
                   view, history>>

\* The Lily connection breaks: subscribers hear of it, then the token goes.
\* Bound: the last session stays.
LilyCloses(s) ==
    /\ s \in lily /\ s < MaxSessions
    /\ lily' = lily \ {s}
    /\ Publish(s)
    /\ UNCHANGED <<known, seen, tok, pw, sock, listening, cmds, login,
                   reconnectPrompt, view, history>>

Teardown(s) ==
    /\ s \in known \ lily
    /\ known' = known \ {s}
    /\ UNCHANGED <<lily, log, seen, clients, cmds, login, reconnectPrompt, view, history>>

\* A socket is lost, and with it what had not arrived.
Drop(g) ==
    /\ Attached(g) /\ Fails
    /\ sock' = [sock EXCEPT ![g] = "down"]
    /\ \E n \in 0..Len(chan[g]) : chan' = [chan EXCEPT ![g] = SubSeq(@, 1, n)]
    /\ UNCHANGED <<proxy, tok, pw, listening, cmds, login, reconnectPrompt, view, history>>

-----------------------------------------------------------------------------
(* Client.                                                                 *)

\* A Client object that nothing refers to.
Unused(g) == g # client /\ ~Attached(g) /\ listening[g] = 0 /\ \A x \in cmds : x.c # g
Fresh == CHOOSE g \in Clients : Unused(g)
CanCreate == \E g \in Clients : Unused(g)

\* The ring holds every message but the error that Lily's connection closed,
\* which is the last one.  A fresh session replays its ring to a new socket.
Ring(s) == IF s \in lily \/ log[s] = 0 THEN 1..log[s] ELSE 1..(log[s] - 1)
Replayed(s) == IF seen[s] = 0 THEN [i \in Ring(s) |-> i] ELSE <<>>

\* Client.Close
Closed(c) == IF Attached(c) THEN "down" ELSE sock[c]

\* The objects' sockets after c was closed and g created, with token t,
\* password p and a socket if up.  A closed client nobody reads keeps nothing.
Replace(c, g, t, p, up) ==
    /\ tok' = [x \in Clients |-> IF x = g THEN t ELSE IF Unused(x) THEN 0 ELSE tok[x]]
    /\ pw' = [x \in Clients |-> IF x = g THEN p ELSE pw[x] /\ ~Unused(x)]
    /\ sock' = [x \in Clients |-> IF x = g THEN (IF up THEN "up" ELSE "none")
                 ELSE IF Unused(x) THEN "none" ELSE IF x = c THEN Closed(c) ELSE sock[x]]
    /\ chan' = [chan EXCEPT ![c] = IF listening[c] > 0 THEN @ ELSE <<>>,
                            ![g] = IF up THEN Replayed(t) ELSE <<>>]
    /\ UNCHANGED listening

Results(j, more) == cmds' = (cmds \ {j}) \cup more
Authed(g, err) == {[do |-> "authed", c |-> g, err |-> err]}

\* reconnectNow: Resume closes the old client and dials with its token.  Only a
\* 401 from GET /session says that the session is gone.
Mut_Resume(j) ==
    LET c == j.c g == Fresh IN
    /\ CanCreate
    /\ \/ /\ tok[c] \in known /\ Works
          /\ Replace(c, g, tok[c], pw[c], TRUE) /\ Results(j, Authed(g, "ok"))
       \/ /\ tok[c] \notin known => Works
          /\ tok[c] \in known => Fails
          /\ Replace(c, g, tok[c], pw[c], FALSE) /\ Results(j, {[do |-> "login", c |-> g]})
    /\ UNCHANGED <<proxy, login, reconnectPrompt, view, history>>
Resume(j) ==
    LET c == j.c g == Fresh IN
    /\ CanCreate
    /\ \/ /\ tok[c] \in known /\ Works
          /\ Replace(c, g, tok[c], pw[c], TRUE) /\ Results(j, Authed(g, "ok"))
       \/ Fails /\ Replace(c, g, tok[c], pw[c], FALSE) /\ Results(j, Authed(g, "net"))
       \/ /\ tok[c] \notin known /\ Works
          /\ Replace(c, g, tok[c], pw[c], FALSE) /\ Results(j, {[do |-> "login", c |-> g]})
    /\ UNCHANGED <<proxy, login, reconnectPrompt, view, history>>

\* POST /auth re-attaches to the user's session if he has one.
Opens(s) ==
    \/ s \in known /\ UNCHANGED <<known, lily>>
    \/ /\ known = {} /\ log[s] = 0 /\ \A t \in 1..(s - 1) : log[t] > 0
       /\ known' = {s} /\ lily' = {s}

\* Auth, then Connect, on client g: the token and password stay only if Auth
\* succeeds.
Authenticates(j, c, g) ==
    \/ \E s \in Sessions, up \in BOOLEAN :
         /\ Opens(s)
         /\ IF up THEN Works ELSE Fails
         /\ Replace(c, g, s, TRUE, up)
         /\ Results(j, Authed(g, IF up THEN "ok" ELSE "net"))
    \/ \E err \in {"net", "rejected"} :
         /\ IF err = "net" THEN Fails ELSE Works
         /\ Replace(c, g, 0, FALSE, FALSE)
         /\ Results(j, Authed(g, err))
         /\ UNCHANGED <<known, lily>>

\* Reconnect: a client without a password cannot log in.
Reconnect(j) ==
    LET c == j.c g == Fresh IN
    /\ CanCreate
    /\ IF pw[c] THEN Authenticates(j, c, g)
       ELSE /\ Works
            /\ Replace(c, g, 0, FALSE, FALSE)
            /\ Results(j, Authed(g, "gone"))
            /\ UNCHANGED <<known, lily>>
    /\ UNCHANGED <<log, seen, login, reconnectPrompt, view, history>>

\* attemptAuthCmd: the dialog authenticates the model's client in place.
AttemptAuth(j) ==
    /\ Authenticates(j, j.c, j.c)
    /\ UNCHANGED <<log, seen, login, reconnectPrompt, view, history>>

ReconnectNow(c) == [do |-> IF tok[c] # 0 THEN "resume" ELSE "login", c |-> c]

\* fetchInitialStateCmd, which an error ends.  GET /state waits for the sync, for at most a minute,
\* and holds its session meanwhile even if that ends.
RequestState(f) ==
    /\ \/ /\ tok[f.c] \in known /\ Works
          /\ Results(f, {[do |-> "wait", c |-> f.c, s |-> tok[f.c], mark |-> 0, upto |-> 0]})
       \/ /\ IF tok[f.c] \in known THEN Fails ELSE Works
          /\ Results(f, {})
    /\ UNCHANGED <<proxy, clients, login, reconnectPrompt, view, history>>

AnswerState(f) ==
    /\ Results(f, {[f EXCEPT !.do = IF seen[f.s] > 0 THEN "page" ELSE "loaded",
                             !.mark = seen[f.s], !.upto = seen[f.s]]})
    /\ UNCHANGED <<proxy, clients, login, reconnectPrompt, view, history>>

\* GET /events, page after page, until none is left or a request fails.
FetchPage(f) ==
    /\ \/ /\ f.s \in known /\ Works
          /\ LET n == Cardinality({i \in Ring(f.s) : i > f.upto}) IN
             Results(f, {[f EXCEPT !.do = IF n > PageLimit THEN "page" ELSE "loaded",
                                   !.upto = IF n > PageLimit THEN @ + PageLimit ELSE @ + n]})
       \/ /\ IF f.s \in known THEN Fails ELSE Works
          /\ Results(f, {[f EXCEPT !.do = "partly"]})
    /\ UNCHANGED <<proxy, clients, login, reconnectPrompt, view, history>>

-----------------------------------------------------------------------------
(* Model.update.                                                           *)

\* PushSeen and ReportSeen, over the current client; either may be lost.
Report(ok, id) ==
    LET s == tok[client] IN
    seen' = IF ok /\ s \in known THEN [seen EXCEPT ![s] = Larger(@, id)] ELSE seen

\* advanceLastSeenID, with the output's highest ID t: the viewport follows it.
Advance(t) ==
    /\ lastSeenID' = Larger(lastSeenID, t)
    /\ Report(Attached(client) /\ t > lastSeenID, t)

Putting(s, id) == shown' = [shown EXCEPT ![s][id] = IF @ < 2 THEN @ + 1 ELSE @]

\* The error that Lily's connection closed is a session's last message.
Closing(s, id) == s \notin lily /\ id = log[s]

\* handleProxy
HandleProxy(s, id) ==
    /\ top' = Larger(top, id)
    /\ Putting(s, id)
    /\ reconnectPrompt' = (reconnectPrompt \/ Closing(s, id))

\* The listener on g hands over a message; the next listener waits on the
\* current client, unless the user is being asked.
Mut_AlreadyProcessed(id) == FALSE
AlreadyProcessed(id) == id \in processedIDs
Receive(g) ==
    /\ listening[g] > 0 /\ chan[g] # <<>>
    /\ chan' = [chan EXCEPT ![g] = Tail(@)]
    /\ LET id == Head(chan[g]) IN
       IF AlreadyProcessed(id)
       THEN UNCHANGED <<processedIDs, top, shown, reconnectPrompt, lastSeenID, seen>>
       ELSE /\ processedIDs' = processedIDs \cup {id}
            /\ HandleProxy(tok[g], id)
            /\ Advance(top')
    /\ listening' = LET l == [listening EXCEPT ![g] = @ - 1] IN
                    IF reconnectPrompt' THEN l ELSE [l EXCEPT ![client] = @ + 1]
    /\ UNCHANGED <<known, lily, log, tok, pw, sock, cmds, login,
                   fetchedFrom, fetchedTo, foreign>>

\* The channel of g closes.  beginAutoReconnect: only the current client's
\* matters, and only if nobody is dealing with it already.
Concerns(g) == g = client /\ ~(authMode \/ reconnectPrompt \/ authInProgress)
SocketClosed(g) ==
    /\ listening[g] > 0 /\ chan[g] = <<>> /\ sock[g] = "down"
    /\ listening' = [listening EXCEPT ![g] = @ - 1]
    /\ IF Concerns(g)
       THEN /\ reconnectAttempt' = 0 /\ authInProgress' = TRUE
            /\ cmds' = cmds \cup {ReconnectNow(client)}
       ELSE UNCHANGED <<reconnectAttempt, authInProgress, cmds>>
    /\ UNCHANGED <<proxy, tok, pw, sock, chan, client, sessionToken, authMode,
                   reconnectPrompt, view, history>>

OutOfTries == reconnectAttempt >= autoReconnectAttempts

\* authResultMsg with an error.  retryAutoReconnect tries again silently, for
\* autoReconnectAttempts times; what needs the user opens the dialog.
AuthFailed(r) ==
    /\ r.err # "ok"
    /\ client' = r.c
    /\ IF authMode \/ r.err \in {"rejected", "gone"}
       THEN /\ authMode' = TRUE /\ reconnectPrompt' = FALSE /\ authInProgress' = FALSE
            /\ reconnectAttempt' = 0
            /\ Results(r, {})
       ELSE /\ UNCHANGED authMode
            /\ IF OutOfTries
               THEN /\ reconnectPrompt' = TRUE /\ authInProgress' = FALSE
                    /\ Results(r, {}) /\ UNCHANGED reconnectAttempt
               ELSE /\ reconnectAttempt' = reconnectAttempt + 1 /\ authInProgress' = TRUE
                    /\ Results(r, {ReconnectNow(r.c)}) /\ UNCHANGED reconnectPrompt
    /\ UNCHANGED <<proxy, clients, sessionToken, view, history>>

\* resetSessionIDs
ResetSessionIDs ==
    processedIDs' = {} /\ lastSeenID' = 0 /\ top' = 0

\* listenCmd, on the client adopted
Mut_Listen(c) == listening
Listen(c) == [listening EXCEPT ![c] = @ + 1]

\* authResultMsg: adopt the client, and the numbering of a new session.
Adopt(r) ==
    /\ r.err = "ok"
    /\ Cardinality({x \in cmds : x.do \in Fetching}) < MaxFetches
    /\ client' = r.c
    /\ authMode' = FALSE /\ authInProgress' = FALSE /\ reconnectPrompt' = FALSE
    /\ reconnectAttempt' = 0
    /\ sessionToken' = tok[r.c]
    /\ IF tok[r.c] # sessionToken THEN ResetSessionIDs /\ foreign' = {}
       ELSE UNCHANGED <<processedIDs, lastSeenID, top, foreign>>
    /\ listening' = Listen(r.c)
    /\ Results(r, {[do |-> "state", c |-> r.c]})
    /\ fetchedFrom' = -1 /\ fetchedTo' = 0
    /\ UNCHANGED <<proxy, tok, pw, sock, chan, shown>>

\* initialStateMsg: the missed events, except what came by the socket, and the
\* stored mark if it is ahead (restorePosition).  Nothing asks whose they are.
Loaded(f) ==
    LET missed == ((f.mark + 1)..f.upto) \ processedIDs IN
    /\ processedIDs' = processedIDs \cup missed
    /\ top' = IF missed = {} THEN top ELSE Larger(top, Max(missed))
    /\ shown' = [shown EXCEPT ![f.s] = [i \in IDs |-> IF i \in missed /\ @[i] < 2 THEN @[i] + 1 ELSE @[i]]]
    /\ lastSeenID' = IF f.mark > 0 THEN Larger(lastSeenID, f.mark) ELSE lastSeenID
    /\ \/ Works /\ Report(TRUE, lastSeenID')
       \/ Fails /\ Report(FALSE, lastSeenID')
    /\ Results(f, {})
    /\ IF f.c = client
       THEN fetchedFrom' = f.mark /\ fetchedTo' = IF f.do = "loaded" THEN LastID ELSE f.upto
       ELSE UNCHANGED <<fetchedFrom, fetchedTo>>
    /\ foreign' = IF f.s = sessionToken THEN foreign ELSE foreign \cup missed
    /\ UNCHANGED <<known, lily, log, clients, login, reconnectPrompt>>

\* Any key, or a resize, looks at the viewport again.
Look ==
    /\ top > lastSeenID
    /\ Advance(top)
    /\ UNCHANGED <<known, lily, log, clients, cmds, login, reconnectPrompt,
                   processedIDs, top, history>>

\* A person answers more slowly than what is already on its way arrives.
Settled == known = lily /\ (listening[client] > 0 => chan[client] = <<>>)

\* handleReconnectKey: "y"
AnswerReconnect ==
    /\ ~authMode /\ reconnectPrompt /\ Settled
    /\ reconnectPrompt' = FALSE /\ authInProgress' = TRUE
    /\ reconnectAttempt' = autoReconnectAttempts
    /\ cmds' = cmds \cup {ReconnectNow(client)}
    /\ UNCHANGED <<proxy, clients, client, sessionToken, authMode, view, history>>

\* handleAuthKey: Enter
SubmitLogin ==
    /\ authMode /\ ~authInProgress
    /\ authInProgress' = TRUE
    /\ cmds' = cmds \cup {[do |-> "auth", c |-> client]}
    /\ UNCHANGED <<proxy, clients, client, sessionToken, authMode, reconnectAttempt,
                   reconnectPrompt, view, history>>

-----------------------------------------------------------------------------
Command(x) ==
    \/ x.do = "resume" /\ Resume(x)
    \/ x.do = "login" /\ Reconnect(x)
    \/ x.do = "auth" /\ AttemptAuth(x)
    \/ x.do = "state" /\ RequestState(x)
    \/ x.do = "wait" /\ Works /\ AnswerState(x)
    \/ x.do = "page" /\ FetchPage(x)
    \/ x.do = "authed" /\ Works /\ (AuthFailed(x) \/ Adopt(x))
    \/ x.do \in {"loaded", "partly"} /\ Loaded(x)

Runs == \E x \in cmds : Command(x)
Hears == Works /\ \E g \in Clients : Receive(g) \/ SocketClosed(g)

Next ==
    \/ Works /\ \E s \in Sessions : LilySpeaks(s) \/ LilyCloses(s) \/ Teardown(s)
    \/ Works /\ (Look \/ SubmitLogin \/ AnswerReconnect)
    \/ \E g \in Clients : Drop(g)
    \/ Runs \/ Hears

Spec == Init /\ [][Next]_vars
FairSpec == Spec /\ WF_vars(Runs) /\ WF_vars(Hears)

-----------------------------------------------------------------------------
\* The user sees a message of the session at most once, however its copies
\* come: live, replayed to a new socket, or in the fetch of missed events.
\* (client.go readLoop, ui.go serverEventMsg and initialStateMsg, dedupSet)
ShownOnce ==
    sessionToken # 0 => \A i \in IDs : shown[sessionToken][i] <= 1

\* Once a fetch has answered the client in use, every message after the mark that it
\* started from was shown or is on its way by the socket, but for those behind the
\* page that did not come, and for those whose IDs a late answer of another session
\* had put in processedIDs: these are never shown.  (client.go FetchEvents, ui.go
\* fetchInitialStateCmd, initialStateMsg; a fetch whose GET /state fails brings no
\* answer, and nothing is asked again.)
NothingAfterTheMark ==
    (fetchedFrom >= 0 /\ Attached(client) /\ tok[client] = sessionToken) =>
      \A i \in {j \in Ring(sessionToken) : j > fetchedFrom /\ j <= fetchedTo} :
         \/ shown[sessionToken][i] > 0 \/ i \in foreign
         \/ \E k \in DOMAIN chan[client] : chan[client][k] = i

\* What ui.go (176-181) says of them: the IDs that were processed and the last-seen
\* mark belong to the session of the token, so that none is ahead of its numbering.
IDsAreOfTheSession ==
    sessionToken # 0 => processedIDs \cup {lastSeenID} \subseteq 0..log[sessionToken]

\* The terminal gives up a session for another, or asks for a login, only when
\* the proxy no longer has it: neither a lost socket nor a failed reconnect
\* costs the user a live session.
\* (client.go Resume and sessionGone, ui.go reconnectNow and authResultMsg)
KeepsLiveSession ==
    [][sessionToken # 0 /\ (sessionToken' # sessionToken \/ authMode' # authMode)
         => sessionToken \notin known \/ authMode]_vars

\* A session never has two of this terminal's sockets, and one attempt to get
\* it back runs at a time.  (client.go Resume: retire the old client "before
\* anything can fail and leave two clients holding sockets for one session")
OneSocket ==
    /\ \A g, h \in Clients : Attached(g) /\ Attached(h) => g = h
    /\ Cardinality({x \in cmds : x.do \in {"resume", "login", "auth", "authed"}}) <= 1

\* All three: the user reads no message of the session twice, and what an answered
\* fetch covers leaves no gap but the two that NothingAfterTheMark names.
\* (client.go readLoop, Resume, FetchEvents; ui.go serverEventMsg, dedupSet)
NoGapsNoCopies == ShownOnce /\ NothingAfterTheMark /\ OneSocket

\* Again and again the terminal is attached with a listener, or it is asking
\* the user: no loss of the socket leaves it silent for good.
\* (ui.go beginAutoReconnect, retryAutoReconnect, listenCmd)
BackOrAsking ==
    []<>(authMode \/ reconnectPrompt \/ (Attached(client) /\ listening[client] > 0))
=============================================================================
