# A verification project for ZephyrLily

TLA+ models of ZephyrLily, the TLC runs that check them on small instances, and
TLAPS proofs of what matters most. Paths are relative to the repository root
(`src/` in `PROJECT.json`).

## 1. The system

ZephyrLily puts a proxy between a Lily chat server and any number of clients of
one user:

    TUI (cmd/zlily, internal/tui)      \
    bots (clients/python/zlilybot)      >-- HTTP + WebSocket --> proxy --SLCP/TCP--> Lily
    browser build (web, cmd/zlily-wasm)/    (internal/proxy)         (internal/lily)

| Part | State it keeps | Operations | Talks to |
|---|---|---|---|
| **Session stream** (`internal/proxy/api/server.go`: `publish`, `broadcast`, `handleWS`, `wsClient`, `handleEvents`, `handleSeen`) | message counter, event ring, last-seen mark, subscriber set, per client an outbound queue | publish, emit, attach/replay, read, write, detach, page history, report seen | every producer in the proxy; every client |
| **Session table and login** (`handleAuth`, `fanOut` teardown, `ratelimit.go`) | token -> session, user -> token, session count, failure counts | log in, rejoin, refuse, tear down | `lily.Conn`, clients |
| **fanOut routing** (`fanOut`, `flushStaleCaptures`, `fetchLines`, `handleStore`, prompt) | open captures, pending fetch/store, pending prompt | route each Lily message, fetch, store, time out, answer | `lily.Conn`, stream, HTTP handlers |
| **Keepalive** (`runKeepalive`) | time of last pong, notResponding | ping, warn, recover | `lily.Conn`, stream |
| **Lily connection** (`internal/lily/conn.go`) | phase, login result, sync flags, /where interception, announced version | connect, log in, sync, read, send, close | Lily server, session |
| **Lily state** (`internal/lily/state.go`) | entities by handle and by name, memberships | apply %USER, %DISC, %GROUP, %NOTIFY, /where | connection, `/state`, `/expand` |
| **SLCP parser** (`internal/slcp`) | none | parse one line | connection |
| **Scheduled commands** (`commands/cron.go`) | tasks and their timers | schedule, cancel, fire, stop all | session's `dispatchInput` |
| **Event triggers** (`commands/on.go`), **aliases** (`commands/alias.go`) | triggers, aliases | add, remove, match, expand | `fanOut`, `dispatchInput` |
| **Version report** (`clientversion.go`, `Conn.SetClientVersion`) | last version sent | recompute and send | subscribers, connection |
| **Link previews, shortening** (`weburl.go`, `internal/linkpreview`, `internal/urlshorten`) | caches | fetch | the web |
| **TUI client** (`internal/tui/client`, `internal/tui/ui`) | token, generation, dedup set, scrollback, seen mark | log in, resume, reconnect, replay, report seen | proxy |
| **Python bot** (`clients/python/zlilybot`) | token, high-water mark, pending command | log in, backfill, handle, run command, answer prompts | proxy |
| **Terminal screen and line** (`internal/tui/ui`: `ui.go`, `scrollview.go`, `format.go`, `input.go`, `completion.go`, `expand.go`) | output items and their rendered lines, pager, the line being composed, kill ring, history, recent destinations | append, trim, scroll, resize, wrap; edit, search, paste, complete, recall | terminal session, `/state`, `/expand` |
| **Terminal extras** (`notices.go`, `credentials.go`, `internal/tui/creds`) | queued notices, login dialog, stored passwords | say in a gap, look up, save, remove | output, keyring, password file |
| Help, styles, spelling, deploy, web assets, version | text and files | - | - |

### What is hard, per part

* **Stream**: a message is numbered, ringed and broadcast in three separately
  locked steps by many goroutines; clients attach, stall, vanish and are cut at
  any point; every outgoing queue and the ring are bounded.
* **Login**: a check and the insertion it licenses are separated by a blocking
  dial; a teardown removes by user name what a newer login may have stored.
* **fanOut**: one goroutine routes Lily's output to whichever HTTP handler is
  waiting, while handlers time out and new ones start.
* **Lily connection**: login may fail, stall or be interrupted in every phase.
* **Triggers and timers**: fire while being cancelled, and inject commands from
  the routing goroutine itself.
* **Clients**: reconnect while answers to the previous connection are still in
  flight; dedup by ID assumes what the stream does not promise.

### Interactions that the models keep

* Every proxy goroutine that has something to say calls `publish`; the ones of
  one session are `fanOut`, `runKeepalive`, `runStartup`, the cron timers and
  the `readLoop` of each client.
* `fanOut` owns the session's end: when `lily.Conn.Events` closes it stops the
  timers, tells the clients and removes the session from the tables `handleAuth`
  reads.
* `fetchLines` and `handleStore` wait in an HTTP handler for `fanOut` to hand
  them what Lily answers.
* `lily.Conn` applies a message to `State` before it puts it on `Events`.
* `GET /state` waits for `Conn.syncComplete`.

## 2. Modules

| Module | Models | Source |
|---|---|---|
| `SessionStream` | the stream of one session: numbering, ring, broadcast, attach with replay, the two loops of a client | `api/server.go`: `assignID` `publish` `broadcast` `enqueue` `shutdown` `handleWS` `readLoop` `writeLoop` `pingPeer` `advanceLastSeen` |
| `Delivery` | abstract: what a session promises a client | comments of `enqueue` and `broadcast`, stated as a machine |
| `SessionTable` | logins and teardowns of all sessions | `api/server.go`: `handleAuth`, end of `fanOut` |
| `AuthLimiter` | the brute-force protection before them | `api/ratelimit.go` |
| `CommandRouting` | command output inside one session | `api/server.go`: `fetchLines`, `fetchLabelMatches`, `flushStaleCaptures`, `%begin`/`%end`/raw in `fanOut` |
| `Dialogue` | prompts with their answers, and `POST /store` | `api/server.go`: `setPrompt` `clearPrompt` `handleStore`, OKAY in `fanOut` |
| `Housekeeping` | client version reports and keepalive | `api/clientversion.go`, `Conn.SetClientVersion`, `runKeepalive` |
| `Automation` | scheduled commands, triggers, aliases, startup memo, and `dispatchInput` that all of them re-enter | `commands/cron.go` `on.go` `alias.go`, `api/server.go`: `runStartup` `replayStartup` `dispatchInput` |
| `LilyConn` | one connection to Lily | `lily/conn.go`: `Connect` `runHandshake` `readLoop` `applyMsg` `Close` |
| `SlcpLine` | bytes to lines to messages | `lily/conn.go`: `readLine`; `slcp/parser.go` |
| `LilyState` | the proxy's picture of Lily | `lily/state.go` |
| `EventLine` | events in words, on both sides of the socket, while the picture runs ahead | `api/eventformat.go`, `tui/ui/format.go`, the status part of `ui.go` |
| `TerminalSession` | a terminal's session with the proxy | `tui/client/client.go`, session half of `tui/ui/ui.go` |
| `BotSession` | a bot's session with the proxy | `clients/python/zlilybot/session.py` |
| `OutputPane` | scrollback, viewport, pager, last-seen mark | `tui/ui/ui.go`, `scrollview.go` |
| `ComposeLine`, `Destinations` | the line being typed and where it goes | `tui/ui/input.go` `completion.go` `expand.go` `shorten.go` `linkpreview.go` |
| `TextWrap` | fitting text to the terminal: wrapping words, cutting lines | `tui/ui/format.go` |
| `Notices`, `SavedPassword` | unasked notes; the login dialog and what it remembers | `tui/ui/notices.go`, `credentials.go`, `tui/creds` |
| `Sessions`, `LilyWorld`, `LilySays`, `Callers`, `Automatons`, `Terminal` | nothing new: each extends one component and instantiates its neighbours, and states what all of them promise | |

Names follow the code: a variable has the field's name (`eventBuf`, `subsMu`,
`userTokens`, `fetchCmdID`, `waitingForWhere`), an action the function's or the
step's. Variables marked *history* record what happened for the properties'
sake and guard nothing. Definitions called `Mut_...` are plausible faults of the
definition below them, used only to see that a property would notice. The head
of every module says what is one step, what is abstracted and what is bounded.

Six modules put components that stand beside each other under one roof:
`Sessions` (`SessionTable`, `AuthLimiter` as `Limiter`, `Housekeeping` as `Chores`),
`LilyWorld` (`LilyConn`, `LilyState` as `Picture`, `OutputPane` as `Pane`), `LilySays`
(`CommandRouting`, `EventLine` as `Told`), `Callers` (`Dialogue`, `Destinations` as
`Recent`), `Automatons` (`Automation`, `BotSession` as `Bot`) and `Terminal`
(`TerminalSession`, `Notices` as `Notice`, `SavedPassword` as `Saved`, `ComposeLine` as
`Editor`). The instances have constants and variables of their own. An `MC...`
module extends one of them for TLC and a proof module extends the same one, so a
property that a run checks and the one its theorem states are one definition.

`MC...` modules instantiate these on small instances. Several components share one
run: `part` is chosen in the initial state, says which of them runs and never
changes, and the variables of the others stand still at one initial value. The
components of such a run do not interact; what does interact is inside one module.
A property holds of the resting values too, or is guarded by the `part` it speaks
of. The runs that show a departure are other configurations of `MCSessions`,
`MCLilySays` and `MCTerminal`, and of `SessionStream` and `LilyConn` by themselves.

Proof modules: `SessionStreamProofs`, `SessionTableProofs`, `LilyConnProofs`,
`CommandRoutingProofs`, `DialogueProofs`, `AutomationProofs`,
`TerminalSessionProofs`, and `SequenceLemmas` with the facts about sequences
that most of them need.

### How state and actions correspond to the code

**SessionStream, Delivery.** `publish` is three actions because the code
synchronises three times: `PublishBuffered`/`PublishTransient` (atomic counter),
`AppendToRing` (`eventBufMu`), then `BroadcastLock` / `BroadcastTo` per
subscriber / `BroadcastUnlock` (`subsMu`, held throughout). `EmitAssign` and
`EmitEnqueue` are `readLoop`'s `emit`. One client is two goroutines:
`handler[c]` is `handleWS`, which turns into `readLoop`; `writer[c]` is
`writeLoop`, started only after the replay. `EnqueueTo` is `wsClient.enqueue`
with its three outcomes; its critical section and the non-blocking nudge behind
it are one step, which loses nothing: `writeLoop` between the two would drain
the message and find `wake` set once more, at the cost of an empty round.
`socket` is "dead" when the peer is gone without a FIN: local writes then succeed
and reach nobody until the ping fails. A message is an ID and a kind, because
kind decides whether it is retained (`bufferableType`) and to whom it goes.
`Delivery` is the promise per client: a FIFO feed, delivered without a hole or
cut off at its end. `SessionStream` maps `owed` to `batch \o queue` while the
socket is up and to nothing once it is not, `got` to `wire`, `live` to `Sound`.

**SessionTable.** A session, its token and its connection are named by the login
that opened them. Each `sync.Map` or atomic operation is one action, in the
code's order: `LookupUser`, `VerifySession`, `CheckCap`, `Connect` or
`ConnectFails`, `StoreSession`, `StoreUser`, `CountUp`; on the other side
`EventsEnd`, `DeleteSession`, `CountDown`, `ForgetUser`. Lily redirects the
user's session to the newest connection, so a second login *ends* the first
one's `fanOut`. Password checks are membership in `Correct`: the stored verifier
was made from the password Lily accepted.

**CommandRouting.** Lily's replies come in any interleaving (`LilyBegins`,
`LilyPrints`, `LilyEnds`), each line tagged with its command or bare; `fanOut`
reads them one at a time (`CmdBegin`, `Raw`, `CmdEnd`), and before any of them
may find an open capture too old (`FlushStale`). Fetches register, send,
receive, time out and unregister in separate steps (`fetchMu` is released in
between); a time-out may be chosen although the result is there, as `select`
may. A fetch gives up after ten seconds and a capture is stale only after much
longer, so the pinned capture is never flushed.

**LilyConn, SlcpLine, LilyState.** `connect` follows the caller of `Connect`,
and the session's `fanOut` afterwards; `readLoop` the reader; `held` the message
it is blocked on sending. The verdict comes from `readLoop` (`Rejected`,
`Confirms`, `Connected`) while `Watchdog` and `Drop` may close the socket at any
moment. `AskWhere`, `Intercepted` and `Forwarded` are the interception of
`/where me`. Between `%connected` and the end of the sync the handshake reads what
comes (`HandshakeReads`) and applies nothing but `%server`, as the code does. In
`SlcpLine` the network cuts the bytes anywhere and a prompt ends by silence. In
`LilyState` one goroutine applies what Lily sends in the order it was sent, so a
message is applied in the step in which Lily's world changes. Lily also renames
discussions (`DRename`) and retitles them (`Retitle`); the state has no case for the
one and writes the other on the user who did it, and `retitled`, `renamed` and
`vacated` are history that says which entries such an event has left behind.

**Dialogue, Housekeeping, Automation.** `setPrompt` comes after `publish`,
`clearPrompt` before `Send`: four steps of two goroutines. A store registers,
sends, waits, writes its lines one `Send` at a time and unregisters. In
`Automation` each goroutine (client, timer callback, startup, `fanOut`) has a
stack of lines to dispatch; a trigger fires outside the lock on the goroutine of
`fanOut`, which for `%startup` waits for output that only it could read.

**TerminalSession, BotSession.** The terminal's update loop handles one message
at a time; `cmds` holds the bubbletea commands that run and the results that
wait for it. A `Client` object is a generation: `client` is the model's, others
live as long as a command or a listener refers to them. `shown`, `fetchedFrom`
and `fetchedTo` (what the last answered fetch of the client in use covers), and
`foreign` (the IDs that a late answer of another session put into the dedup set) are
history. The bot is one asyncio program: `pc` is where
`Session` stands, and every `await` is a place where the rest may move.

**OutputPane, ComposeLine, Destinations, TextWrap, Notices,
SavedPassword.** One bubbletea goroutine; what interleaves is keys, messages,
window sizes, timer ticks and the answers of commands. A rendered line is the
place of its text in an item, a typed letter carries a stamp of its own, a
wrapped cell the position of its character, so that "nothing is lost, doubled or
moved" can be said. The pane's answers (`answers`) are fetched in one step and taken
in another, with a session that may have ended in between, and carry the mark they
were fetched with. In `TextWrap` a byte is a character and a column: `format.go`
(104) cuts a long word by bytes and may split a rune, which does not show; and
`Mode` reads escape sequences by the code's own grammar (`escSeqLen`), not by a
terminal's, which starts anew at an ESC inside a sequence. A URL is one letter in
`ComposeLine`, so the cursor is never inside one (`shorten.go` 261-264).

## 3. Runs

Passing runs (their properties are listed in `PROJECT.json`):

| Run | Asks | Bounds |
|---|---|---|
| `streams` | is a client's feed complete and in order until a cut, duplicated only by the replay, bounded, an implementation of `Delivery`; does private output stay private; does every goroutine finish? | ring 2; one client, queue 2, 3 IDs; two clients that stay, queue 2, 2 IDs; one client, queue 1, 2 IDs with fairness |
| `sessions` | counting, passwords, dangling tokens, dead sessions leaving; fair lockouts; Lily knows who is connected, and clients whether Lily answers | 4 logins of 2 users, one wrong password, cap 2; 2 addresses with 2 overlapping requests, 2 failures in a window of 2, lockout 3, time to 5; 2 connections, 2 unread pings |
| `automation` | one timer per listed job, triggers obey, `fanOut` comes back; a bot hears nothing twice and answers each prompt once | 2 typed lines out of 7, 2 jobs, 2 triggers, 3 events, time to 1; 2 sessions, 1 event, 1 command of 1 line, 1 failure |
| `link` | login verdict, state ahead of events, every connection ends; lines read back as written; the picture is Lily's; the pane shows what came, keeps the reader's place, and the mark names what was in view | 2 typed commands of which one is a `/where`, 2 unasked lines, `Events` of 1; values of up to 2 bytes of 6 kinds, cut anywhere; 2 users, 1 discussion, 4 names, and 1 user, 1 discussion with a name to spare for it to be renamed; scrollback 1 with slack 1, window of 2, widths 1 and 3, 4 items, 2 looks away |
| `callers` | prompts and stores exact, stores answered; destinations by recency | 2 stores of 2 lines, 2 typists, 2 typed lines, 2 prompts; 4 destinations of which 2 are remembered, 3 sends |
| `terminal` | no gap and no copy in what the user sees, no live session given up, back or asking; notices in their place; only working passwords saved; typing is safe and the cursor stays | 2 sessions of 2 and 1 messages, 3 `Client` objects, 2 fetches, 2 failures, 4 messages of the first session and failures together, 1 silent retry, pages of 1; 4 notices; 2 users, 2 logins; lines of 3 letters, 2 answers |
| `lily_says` | output goes home; events are told alike on both sides; text wraps as typed; pieces of a line stand alone | 2 fetches of distinct verbs, 1 typed command, 1 line each, tagged or bare; 2 events ahead, 1 rename, every kind of event; texts of 9 columns at 5 widths; lines of 5 bytes of 8 kinds |

Runs that find the code departing from its documentation (each checks one
property, and `PROJECT.json` "findings" quotes the text it departs from):

| Run | Shows |
|---|---|
| `stream_id_order` | two publishers: a client is handed ID 2 before ID 1, so a consumer that keeps only the highest ID loses a message (the Python bot does) |
| `table_second_connection` | a takeover's teardown forgets the *new* token, and the next login dials Lily beside a live session |
| `routing_wrong_memo` | a fetch that follows a timed-out fetch of the same verb returns the other's content |
| `conn_intercepts` | another command's tagged output is swallowed while the connection's own `/where me` is answered |
| `ids_of_session` | an answer fetched for an ended session reaches a terminal that has another by then: its IDs and its mark are taken over, and hide messages of the new session |

**Why the bounds are enough to be interesting.** The stream's properties are
about the overlap of one publication with another and with one client's attach
and loss; ring and queue of two are both overfilled by three messages (two by a
queue of one), so trimming, overflow and cut-off all occur. Two clients are
needed only for a property that relates clients. The table needs three logins of
one user to have an old session, a takeover and a third that finds the result,
and a second user to show that they do not interfere. In the routing model two
fetches and a typed command give every overlap of two captures with a fetch,
including a bare line with none, one or two open. The connection's `Events` of
one place blocks the reader as soon as one message waits, which its real 256
does only under load. The terminal needs a second session to lose the first, a
session with two messages to have one before and one after a mark, two fetches
to have one overtaken, three clients for one in use, one being dialled and one
still being listened to; the instance with two messages in both sessions was
checked as well and takes longer than a run should. A scrollback of one with
slack one is trimmed at the third item. A text of nine columns breaks at least
once at each width. The theorems of section 4 hold without any of these bounds.

`CHECK_DEADLOCK` is off everywhere because every instance has finitely many
messages, logins or commands and stops when they are used up. Only `lily_says`
uses symmetry, of its two fetches: their verbs are different and neither is
another command's, nothing else distinguishes them, and the run has no liveness
property.

Model bounds that the code does not have: `MaxID`, `Leaving`, `Attempts`,
`MaxLines`, `MaxSaid`, `MaxTime`, `MaxTyped`, `MaxJobs`, `MaxTriggers`,
`MaxEvents`, `MaxPrompts`, `MaxMsgs`, `MaxClients`, `MaxFetches`, `MaxTrouble`,
`MaxCommands`, `MaxHeard`, `MaxAsks`, `MaxLookups`, `MaxItems`, `MaxTurns`, `MaxLine`,
`MaxLog`, `MaxText`, `MaxAhead`
and each fetch, command and login happening once. In `TerminalSession` and
`BotSession`, `MaxSessions` is such a bound too. `RingMax`, `BacklogMax`,
`SessionTable`'s `MaxSessions`, `EventsMax`, `MaxScrollback`, `ScrollbackSlack`,
`PageLimit`, `EVENTS_PAGE`, `autoReconnectAttempts`, `pastSendsMax`,
`maxFailures`, `window` and `lockout` are the code's own limits, made small.

**Fairness.** Each module states it in `FairSpec`; the merged modules repeat
for the `part` that runs what their properties need of it (`fanOut` comes back on its
own: `MCAutomation` asks fairness of no other goroutine of a session). It is weak
fairness of goroutines that have something to do, of timers, and of the update loop;
nothing is asked of Lily, a peer, the network or a user. `SessionStream`: a goroutine that has begun to publish, to
attach or to tear down goes on, and `writeLoop` runs when it can; `subsMu` is
held for a bounded number of enqueues that never block. `SessionTable`: a
handler that began answers, because `Connect` has a watchdog, and a `fanOut`
whose channel closed tears down. `LilyConn`: the watchdog's timer fires;
`ConnectReturns` carries the one exception it has: if Lily fills `Events` before
it confirms the login, `readLoop` waits for a reader that only `Connect`'s return
would start. `Housekeeping`: Lily answers pings only once `steady`, which is the
hypothesis of the property. `Automation`, `Dialogue`, `TerminalSession`,
`BotSession`, `Notices`: goroutines, commands, time-outs and ticks.

## 4. Proofs

Checked by TLAPS for all values of the constants that satisfy the modules'
assumptions (`StreamAssumption`, `TableAssumption`, `ConnAssumption`,
`RoutingAssumption`, `DialogueAssumption`, `AutomationAssumption`,
`TerminalAssumption`, and as hypotheses of the theorems about instances
`StateAssumption`, `BotAssumption`, `SavedAssumption`, `NoticesAssumption`,
`EventAssumption`, `LimiterAssumption`, `DestinationsAssumption`,
`ComposeAssumption` and `PaneAssumption`): the limits are numbers, sets that must be are disjoint,
attempts are finitely many, what an earlier launch stored was right then, and
events are about users and discussions that Lily has described. They are as weak as
the code has them and TLC evaluates each of them in a run.

Every argument has the same shape: an inductive invariant, checked with TLC on
the run's instance before it was proved, of which the property is a consequence;
one lemma per action (or per kind of action) and in it one step per conjunct that
the action can disturb. What follows is what each invariant adds to its property
and why it has to.

### The stream (`SessionStreamProofs`)

| Theorem | Statement | Argument |
|---|---|---|
| `TypeCorrect` | `[]TypeOK` | not inductive: a thread carries a real message only while it publishes, hence `TypeInv` with `CarriesMessage` |
| `BacklogStaysBounded` | `[]BacklogBounded` | `IInv`: a writer that writes has a batch, so `Tail` of it is shorter, and a batch is only ever a whole queue |
| `StreamImplementsDelivery` | `ImplementsDelivery` | `RInv` adds `ClientPhases`: before its handler runs a client has no queue, wire or cut, and `writeLoop` holds no batch outside its inner loop, without which `Drain` would lose the old one. Every step is then a `FeedStep` of one client (it idles, attaches, accepts, delivers or is cut) and a `FeedStep` is a step of `Delivery` |
| `NothingIsLost` | `[]NothingDueIsLost` | `StagesInv` says how far a client's attach, a deliverer and the hands that hold `subsMu` are; `DueInv` says that what is due to a sound client is written, in its batch or queue, or still in the hand of a deliverer. One lemma each for what `enqueue`, `Drain`, a write and the replay do to "held" |
| `FreshClientsMissNothing` | `[]FreshClientMissesNothing` | `FreshInv`: `handleWS` subscribes before it copies the ring, and `publish` appends before it broadcasts |
| `CopiesAreReplays` | `[]CopiesComeFromReplay` | `NamesInv` bounds every ID anywhere by the counter and gives an ID one message; `RingInv` has an ID in the ring once, and not yet while its publisher is to append it; `CopiesBound` counts occurrences in written, batch, queue and hand, one for the broadcast and one for a replay |
| `PrivateOutputIsPrivate` | `[]PrivateOutputStaysPrivate` | `PrivateInv`: a message of kind "own" is only ever in the hand, queue, batch and feed of one client |

### The table (`SessionTableProofs`)

| Theorem | Statement | Argument |
|---|---|---|
| `CountIsExact` | `[]CountTracksSessions` | `Phases` ties a session's place in the map to where its handler and its `fanOut` are; `CountInv`: the counter is the number of `fanOut`s between their start and their decrement; the rest is counting two disjoint sets |
| `TokensAreGuarded` | `[]TokenNeedsItsPassword` | `TokenInv`: what a handler found under a user's name is that user's token, and only holders of the password pass `dial` |
| `NoTokenDangles` | `[]NoDanglingUserToken` | an index entry is stored after its session and forgotten before its `fanOut` is gone |
| `ReportStaysCurrent` | `Chores!Spec => []LilyKnowsWhoIsConnected` (`Housekeeping`) | `ReportInv`: one report at a time collects (they hold a lock), and with no report to come what the last one collected, or stored, is who is connected (`NewestWins`); `verSent` is `verString` once announced |
| `LockoutsAreFair` | `Limiter!Spec => []LockoutIsFair` (`AuthLimiter`) | see below |

`LockoutsAreFair` needs to know what a record says of the failures that are no
longer in it. `RecordOK`: the record's failures since it began are at least what it
counts, and those in the window *about its beginning* at most `Before` more, the
most an earlier record can have left there; a locked record leaves room for the
requests that are under way, each of which will be counted. `LockOK`: a lock was
taken at the last failure. Forgetting a record (`ForgetOK`), a failure into it or
into a fresh one (`FailOK`) and time (`LaterOK`) keep both. The bound the property
had at first, two allowances and the requests once, was refuted by TLC when the
instance had three requests: both records may be overrun by all that are under
way. It also fails for a lockout shorter than the window, which the proxy never
configures (`server.go` `New`), hence that conjunct of `LimiterAssumption`.

The last two are about `Housekeeping` and `AuthLimiter`, whose proofs live here
because the proof modules are few: `Sessions` declares `Chores` and `Limiter` as
instances of them with constants and variables of their own, so the theorems are
about every instance. `PictureStaysLilys`, `PaneHolds`, `PaneKeepsPlace`, `NothingIsHeardTwice`,
`EventsAlike`, `RecentComeFirstHolds`, `PasswordsWork`, `NoticesAreWelcome`,
`TypingHolds` and `PlacesHold` below live with the connection, automation, command
routing, the dialogue and the terminal's session in the same way. What they state
is what the modules of section 2 that declare the instances state, and the runs
check those definitions.

### The connection (`LilyConnProofs`)

| Theorem | Statement | Argument |
|---|---|---|
| `ConnTypeCorrect` | `[]TypeOK` | with: a reader that is sending holds a message |
| `SyncClosesOnce` | `[]SyncCompleteClosedOnce` | `OneWait`: before a close there is a wait or a failed send, and `whereStarted` is never reset |
| `ConnectTellsTheTruth` | `[]OutcomeIsLilys` | `Verdict` follows the result from Lily's line through the buffered channel to `Connect`'s return |
| `StateIsAhead` | `[]StateIsSeededAndAhead` | `WhereInv` follows the connection's own `/where me` (unsent, sent, begun, ended) beside the two interception flags, as long as no client types one; `AheadInv`: whatever is queued, held or being sent was applied to `State` first |
| `PictureStaysLilys` | `Picture!Spec => []PictureIsLilys` (`LilyState`) | `WorldInv`: Lily names who is there apart, whatever the case, and a handle that is gone does not come back; the two indices are then inductive together (`IndexInv`), because a rename of a user deletes the old key before it stores the new one, and a key that is out of date is one that a renamed discussion has left; `MemberInv`: before `/where` is answered what shows as ours is ours or gone, unless a discussion was renamed |
| `PaneHolds` | `Pane!Spec => []PaneShowsWhatCame` (`OutputPane`) | see below |
| `PaneKeepsPlace` | `Pane!Spec => ViewHolds` (`OutputPane`) | see below |

`PaneHolds` says of the terminal's view that it is never wrong: the lines kept
incrementally (append, trim at the top, rebuild at another width) are those of a full
rendering, the mark reported to the proxy was reached, and the pager holds. A reload
takes its items and its mark from an answer that was fetched earlier, possibly for a
session that has ended since: `adopted` is history of the marks taken over from such,
and `FetchInv` says of every answer under way that its items have been and that its
mark was reached unless its session has ended. `PaneInv` has four parts beside it.

* `Settled`: the lines are the rendering of the output, all of it is synced, and the
  offset is within bounds. It holds between updates only. Inside one, after items were
  appended or the width changed, the pane is `Filled` (the lines show the first
  `syncedItems` items) or stale, and what `Sync` makes of either is followed through
  its three calls: `TrimOf` (dropping k items drops exactly their rows), `Refilled`,
  and `Follows` (the pager's choice of the new offset).
* `Numbered`: no item is newer than `made`; `Sorted`: from the first unread item on,
  items stand in the order they were made, until a reload puts missed ones after later
  notes. So the unread lines are a suffix.
* `Held`: an `Edge` (the armed anchor of the pager, or the offset where it stopped)
  parts the lines the user had before him from the unread ones, and the view begins at
  it or above. `Waits` is that, for as long as the first unread item is not the victim
  of trimming.
* what was seen: the mark, and the IDs in view now, are among those `reached`, or
  `adopted`.

The lemmas on `Render` come first: a rendering of two parts is the renderings one
after the other (`RowsInParts`), rows grow with the items (`RowsGrow`), and each row
belongs to one item (`OwnerOfRow`), which is what lets an offset stand for an item.
They rest on `Joined`, the recursive function inside `FlattenSeq`, by the induction
in set form of `SequenceLemmas`. `InView` counts rows and `Shown` looks at
the lines; that they agree (`InViewIsShown`) is where the mark meets the view.

`PaneKeepsPlace` is the action property a reader notices. Two facts are needed beside
`PaneInv`, and `ReadInv` has them. Items that stand in the output, or are missed and
will, are numbered apart (`Apart`), or "the item at the top" would not be one item. And
until a reload the pager is armed only where the end is in view (`ArmedAtEnd`), so
whoever reads further up is not taken along. Each action is then one of three: `Sync` after new
items (`SyncReads`: trimming moves the offset by the rows it drops, so the line at the
top stays, or its item is among those dropped); a change of the height alone, which
leaves the offset (`ResizeStays`); a change of the width, after which the offset is
where the item found by `topVisibleItemIndex` begins (`TopOfView`, `ItemComesUp`), or
the end. A submit, which changes the height and then syncs, is the second and then the first.

### Inside `fanOut` (`CommandRoutingProofs`, `DialogueProofs`, `AutomationProofs`)

| Theorem | Statement | Argument |
|---|---|---|
| `RoutingTypeCorrect` | `[]TypeOK` | a capture that is closed has nothing collected, a fetch's channel one result at most |
| `OutputComesHome` | `[]OutputGoesHome` | `PlaceInv`: every line printed stands in exactly one of four places (unread, in a capture, in a fetch's channel, shown) and every line to come in none. Lily begins a command once (`BeginInv`), so no capture is opened over another, and a fetch is delivered to once (`CallInv`). `OwnInv`, with no other command of the verb, pins a fetch to its own command. The step "a line moves from one place to another" is proved once per pair of places |
| `EventsAlike` | `Told!Spec => []EventsAreToldAlike` (`EventLine`) | one lemma per kind of event: for *every* event and picture the two formatters give the same words, except in the two cases of `Differ` where they never do (`TextsAlike`), so what the picture has become meanwhile does not matter to the words. `EventsInv`: an event on its way carries every name its people bore since it was applied, and a rename adds to it. `FieldInv`, for each field of the user's own status: the last event under way that sets it says what the picture has; with none under way the answer of `/state` does, or the terminal, unless an event overtook the answer |
| `DialogueTypeCorrect` | `[]TypeOK` | with `StoreInv`: the lines of a store come after its one request |
| `DialoguesStayExact` | `[]DialoguesAreExact` | as long as nobody disturbs a store, it has its turn (`TurnInv`: one registered channel, one request or one answer on the way); then Lily takes exactly what was sent, in order (`ContentInv`); prompts are recorded in Lily's order (`PromptInv`) and the one it waits on is on its way, recorded, or being answered (`PendingInv`) |
| `RecentComeFirstHolds` | `Recent!Spec => []RecentComeFirst` (`Destinations`) | see below |
| `JobsAreArmedOnce` | `[]EveryJobIsArmedOnce` | `CronInv` adds that numbers of jobs are never used again |
| `NothingIsHeardTwice` | `Bot!Spec => []BotHearsNothingTwice` (`BotSession`) | see below |
| `TriggersStayInBounds` | `[]TriggersObey` | `EventsAreUsedOnce`: what `fanOut` dispatches for an event is on its stack until it reads the next one; `TriggersInv`: a trigger's last time is its latest firing |

`NothingIsHeardTwice` is the bot's counterpart of `MessagesComeOnce` below. `HeldInv`:
every ID the bot holds, in its socket, its backfill, its early messages, its marks
and its answered prompts, is one of the present session, because a bot that asks
for a session (`AtAuth`) holds nothing and a new token clears the rest.
`OrderInv`: what was given out is in order, above the history that was scanned and
not above the mark. `AnswersInv`: a prompt is marked answered before its line is
sent. `ClaimsInv`: the command that waits and those to come have no output yet.
`StreamInv`, while the stream runs: what was published since is in the socket in
order and above the mark (`InLine`), or was given out, answered or claimed.
`HandleStep`, `YieldInOrder` and `AnswerOnce` say once, for the three places that
call `_handle`, what it keeps; `InOrderType` says that a page of events holds IDs
of the session.

`RecentComeFirstHolds` rests on two invariants. `RingInv`: the ring is in the order
of use, holds each destination once and is older than nothing that is left out of
it (`UsedInOrder`, `OthersAreOlder`); a use that takes the destination out of its
place and puts it in front keeps that (`PushKeepsOrder`). `TabInv`: what Tabs put in
stands one after another around the ring, and the last of it is what stands before
the cursor, so the next Tab finds its place by looking there. `pushPastSend` takes
a destination out with a recursion over the ring, and the line is taken apart and
put together by two more: what they compute is shown by induction, in the form of
`NatSetInduction` (a set of numbers with 0 and the successor of each of its members
has them all), which needs no operator as a parameter and is proved by a least
counterexample. `RecursionIsDefined` gives in the same way that the function a
recursive definition chooses exists.

### The terminal's session (`TerminalSessionProofs`)

| Theorem | Statement | Argument |
|---|---|---|
| `TerminalTypeCorrect` | `[]TypeOK` | at most two listeners on a channel because an attempt's client has none; marks and pages stay below the last message because a ring does. `MaxOfFinite` (the bound on IDs is a maximum) is by a minimal counterexample over the naturals |
| `KeepsTheSession` | `KeepsLiveSession` | `KeepInv`: while the session lives and no login is asked for, whatever is under way is a resumption or its result, with the session's token, and its only error is of the network |
| `OneSocketEver` | `[]OneSocket` | `JobInv`: one attempt at a time, and none while the user is asked; `SocketInv`: a socket belongs to the attempt or to the client in use; `DeafInv`: nobody but that client is ever going to be heard, since the listeners of the others wait on empty channels |
| `MessagesComeOnce` | `[]NoGapsNoCopies` | see below |
| `TerminalInvariant` | `[]TerminalInv` | the invariant the three above rest on, with `OpenInv`: a session gone from the table does not come back |
| `PasswordsWork` | `Saved!Spec => []SavedPasswordsWork` (`SavedPassword`) | `ModelInv`: a login under way has a user and a password, and a session is up only with the password Lily accepted for its user; `CommandsInv`: a command to save carries a password that worked for its own user; `BoxInv`: what the box asked for is done or its command has yet to run, and no command under way undoes it, because the box counts only from when none was out; and a login that worked before the server was known (`known`) left no command and the stores as they were (`had`) |
| `NoticesAreWelcome` | `Notice!Spec => NoticesKnowTheirPlace` (`Notices`) | `SaidInv`: a notice is queued once, and what was said is not to be said any more; `PaceInv`: one chain of ticks however many notices start it, and while output came since the last look the chain has seen less than there is, so the gap it waits for is a real one |
| `TypingHolds` | `Editor!Spec => []TypingIsSafe` (`ComposeLine`) | see below |
| `PlacesHold` | `Editor!Spec => CursorKeepsItsPlace` (`ComposeLine`) | see below |

`NoGapsNoCopies` is the property a user notices: every message once. Neither half
of it is inductive, and what they need spans clients, fetches and sessions:

* `Lineage` orders the sessions (`OrderInv`: they begin one after the other),
  the tokens (`TokenInv`: no attempt has a token of an earlier session than the
  model's, who listens has the model's) and the fetches (`FetchInv`: a fetch asks
  for its client's session, the model's or an earlier one; an attempt ends on a
  client that nothing was fetched for yet).
* `Display` says where the copies are. `OldInv`: a message shown before the
  dedup set of this session was begun is below every mark that a fetch or a
  replay starts from, and in no channel of the session. It is stated of *every*
  session from the model's on, because it must survive the adoption of another.
  `ProcessedInv`: what the dedup set holds was shown, but for the IDs that a late
  answer of another session put there (`foreign`). `RingInv`: a session that no
  client has read has its whole ring on the way to its socket, so a fetch of it may
  start at nothing. `LoadedInv`: what the pages that came did not bring comes by the
  socket.

The property speaks of what an answered fetch covers, from the mark it asked from
(`fetchedFrom`) to the last page that came (`fetchedTo`), and of every late answer:
a message whose ID is `foreign` is never shown, and `ids_of_session` shows how that
comes about. A fetch whose request for the state fails covers nothing; what was
missed is then lost without a word (section 6).

The line being typed is proved about last. Its characters carry the number of the
key that typed them (`Stamps`), and the lemmas that come first say what the cuts and
splices of `input.go` do to the line and to its stamps: `PutInLine`, `CutOut`,
`PutBack`, `ExchangeOne`, `PartsChangePlaces`. On them rests `EditInv`:

* `KeptInv`: a key pressed is in the line, in the line a search set aside, on the
  shelf of the history, gone by a key that removes, or `under`: pasted or typed while
  a popup was open, which the code gives no guarantee for (`TypeUnderPopup`: the key
  that closes the popup is lost). It is stated of the composed line and not of the one on the
  screen, which during a search is an entry of the history.
* `PopupInv`: while the popup is open, what it will replace is what stands before the
  cursor, with what was pasted since.
* `KillsInv`: the text the last kills cut, put back beside what remains, is the line
  before them, and no kill continues once a search or popup came between.
* `SearchInv`: the place a search stands at is the nearest match, in its direction, of
  the longest part of its pattern that matches at all. That one letter more may be
  looked for from there, and not from where the search began, is `OneLetterMore`: a
  match of the longer pattern is one of the shorter, so it cannot come sooner.

`PlacesHold` needs no more: an answer about a link exchanges an atom on one side of
the cursor for one with the same stamps (`ExchangeOne`), and accepted previews are
woven between the pieces of the line, which `WovenIsLine` shows by induction over
`FlattenSeq`.

`SequenceLemmas` has what these proofs need of sequences: what `Append`, `Tail`,
concatenation and `SubSeq` do to the set of elements and to the number of
occurrences, the induction over numbers above, and least and greatest members.

### What stays with TLC

* **Liveness**: `GoroutinesFinish`, `LossAndRecoveryAreSeen`, `WaitsEnd`
  (of `fanOut` and of a prompted bot), `ConnectionsEnd`, `StoresAreAnswered` and
  `BackOrAsking`: the prover
  does not handle fairness and `ENABLED`.
* **Induction over data**: `LinesReadBack`, `WrapsAsTyped` and `PiecesStandAlone`
  say what recursive functions that call each other compute for every text or
  line. The library's induction theorems take an operator as parameter, which no
  installed backend can instantiate; induction in set form (`NatSetInduction`)
  carried the three short recursions of `Destinations` and `FlattenSeq` in
  `ComposeLine` and `OutputPane`, and was not carried through these.

## 5. Plan

What is left is `LinesReadBack`, by induction over the fields of a line. Its proof
goes with those of a neighbouring component, as the proof modules are few.

## 6. Not modelled, and disagreements met

Not modelled: wording, colours, layout and JSON encoding (no property is about
them); random tokens and hashes (tokens are distinct by construction, a verifier
matches exactly the password it was made from); TLS and the wire log; link
previews and URL shortening on the proxy, web assets, deployment, spelling, help,
styles, snapshots and performance probes: no protocol state. External, modelled
from how `src/` uses it: the Lily server's order of lines, the WebSocket peer, the
keyring. URL rendering is not in `TextWrap`, case keys, the inside of a URL and the
trimming of quotes are not in `ComposeLine`, the bodies of messages are not in
`Destinations`. A cancel between the unlock of `cron.go` (212) and the firing (217)
still lets the line of the cancelled job out: no text promises otherwise, and in
`Automation` a job's line is taken up in the step that finds the job.

The model covers about 30 % of the implementation's lines; what it leaves out is
mostly text (tips, help, folding tables), rendering and start-up.

Disagreements between the code and what it says of itself that the models show
but that are not runs of their own, for whoever works on the code:

* *Terminal.* A reconnect that failed loses the password; a fetch whose `GET /state`
  fails loses what was missed without a word; a client that attaches between the
  closing message and the table's `Delete` sits on a dead session.
* *Stream.* A full ring is replayed before `writeLoop` starts, so one live message
  more overflows the queue and cuts a client that was never written to. The cap on
  sessions (`server.go`: "cap on concurrent sessions") is checked before the dial
  and counted after it, so it can be exceeded.
* *Dialogue, automation.* A late OKAY after a time-out is taken by the next store;
  lines typed during a store land in it. A `%startup` trigger blocks `fanOut` for
  ten seconds, longer than the pong time-out; a memo with `%startup` recurses.
  After `StopAll` a client can still schedule. `cron.go` splits on newlines that
  its input never holds. A trigger "from" a group has its filter dropped.
* *State.* A retitle is written on the entity of its source, the user who did it
  (`state.go` 205-208; `docs/slcp-protocol.md:307`: "Update the discussion's
  `Title`"). A renamed discussion keeps its old name in both indices, as `drename` has
  no case in `ApplyNotify` (`docs/events.md:350-356` asks it of clients), so `/where`
  does not find it. `PictureIsLilys` claims nothing of either. `LookupHandle` and
  `LookupName` return live pointers.
* *Events.* The state is ahead of the events (`conn.go` 559-563), so somebody's rename
  is told by the new name, "Alicia is now named Alicia" (`server.go` 1257-1282;
  `docs/events.md:25` and `:245` and `eventformat_test.go:33-38` have the old one), and
  a destroyed discussion by its handle (`docs/events.md:312` has its name). The two
  formatters differ in two cases (`Differ`): who may do what in a discussion, where
  the terminal leaves out the discussion, and a discussion destroyed by somebody else
  when the event does not say which. A live event overtaken by an answer of `/state`
  leaves the status stale.
* *SLCP.* A value with a newline costs its message: `parser.go:138` and
  `docs/slcp-protocol.md:72-77` allow it, `readLine` cuts there. `LinesReadBack` is
  claimed of messages without one, and of every other message beside one with. A
  line that begins "login:" and stalls half a second is cut.
* *Limiter, reports.* A failure that comes after the window replaces a locked
  record; the departure grace of one connection is cut short by the report of
  another.
* *Bot.* What comes while `/state` is awaited is dropped when it is replayed: `_handle`
  raised the mark when it was first read (`session.py` 298-303), and drops what is
  not above it (377-380) when 173-176 replay it, backfill that is older too; the
  docstring (285-287) says "so nothing is lost". A scan of history that fails is not made again:
  `_establish` has stored the token by then (228-244), so the next attempt takes the
  session for known, with a mark of 0, and acts on the history that is replayed.
  `BotHearsNothingTwice` claims neither. The late result of a command is claimed by
  the next; a prompt is marked answered before the answer is sent.
* *Screen.* A prefix as wide as the line still spins (`format.go` guards against
  it in the narrower case); resize and reload leave the pager's anchor; Tab and ';'
  differ (`tips.go` says they are the same); '=' recalls an incoming group; a paste
  under a popup is lost when the popup is accepted; a letter typed under a popup
  closes it and is lost (`input.go` 293-294; `completion.go` 172-179: "dismisses popup
  and is processed normally"). Of two equal URLs the answer of the shortener may
  replace the one that was not asked about, when it was typed before the other
  meanwhile (`shorten.go` 32-36: "always right").
* *Passwords.* A box ticked while the lookup is out saves nothing (`credentials.go`
  156); any error of an attempt, a failure of the network too, deletes the saved
  password that was used and says Lily rejected it (`ui.go` 1079-1099;
  `credentials.go` 169-171: "it cannot be right"); a save and a removal that are out
  together run in either order; "No password was saved" also when the keyring could
  not be asked; another name typed before the lookup answers is given the stored
  user's password.
