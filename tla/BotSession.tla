----------------------------- MODULE BotSession -----------------------------
(***************************************************************************)
(* One bot of the Python library on its proxy (clients/python/zlilybot):   *)
(* Session establishes itself again and again, reads one stream of         *)
(* messages, answers prompts, collects command output and reports its read *)
(* position, while Lily, the proxy and the network go their own ways.      *)
(* The bot is the only user of its name, so one session matters at a time; *)
(* a session stands for its token, 0 for none.                             *)
(***************************************************************************)
EXTENDS Integers, FiniteSets, SequencesExt

CONSTANTS
    MaxSessions, \* bound on the sessions the proxy opens
    MaxEvents,   \* bound on what Lily says of itself in a session
    MaxCommands, \* bound on the calls of run_command
    MaxLines,    \* bound on the lines of a session after which a bot only answers prompts
    MaxTrouble,  \* bound on failures of the network or the proxy
    EVENTS_PAGE

BotAssumption ==
    /\ {MaxSessions, EVENTS_PAGE} \subseteq Nat \ {0}
    /\ {MaxEvents, MaxCommands, MaxLines, MaxTrouble} \subseteq Nat

Commands == 1..MaxCommands

VARIABLES
    session,   \* proxy: how many sessions it has opened; the user's is the last
    standing,  \* proxy: "up", "closed" by Lily but in the table, or "gone" from it
    log,       \* proxy: everything published in the session; a position is an ID
    seen,      \* proxy: Session.lastSeenID
    prompting, \* Lily: "none", "open" or "done": a prompt, and whether a line answered it
    asked,     \* Lily: the commands it has not answered
    sock, chan, \* the websocket and the IDs of what waits in it
    pc,        \* where the coroutine of Session.messages is
    token, highwater, answered, \* Session: _token, _highwater, _answered_prompts
    isNew,     \* new_session of this _establish
    prompt,    \* a prompt an earlier step found, 0 for none
    cursor, queue, early, \* after; backfill, then backfill + early; early
    reading,   \* _state_while_reading's reader runs
    waiter, issued, \* the command that waits in run_command, 0 for none; how many ran
    got,       \* got[c]: whose output run_command returned, 0 for none
    yielded, answers, \* history of the token: messages yielded, prompts answered
    scannedTo, \* history of the token: the end of the history scanned
    streamFrom, \* history: the last ID when the bot began to stream
    trouble    \* history: how often something failed

proxy == <<session, standing, seen>>
said == <<log, prompting, asked, sock, chan>>
fetched == <<cursor, queue, early>>
commands == <<waiter, issued, got>>
bot == <<token, isNew, highwater, answered, fetched, prompt, reading, commands,
         yielded, answers, scannedTo, streamFrom, pc>>
vars == <<proxy, said, bot, trouble>>

Msg(k, c) == [k |-> k, c |-> c]
Message == [k : {"event", "prompt", "input", "result", "closed"}, c : {0} \cup Commands]
IDs == 1..(4 + 2 * MaxCommands + MaxEvents + MaxLines)

TypeOK ==
    /\ session \in 0..MaxSessions /\ standing \in {"up", "closed", "gone"}
    /\ log \in Seq(Message) /\ DOMAIN log \subseteq IDs
    /\ seen \in 0..Len(log) /\ asked \in Seq(Commands)
    /\ prompting \in {"none", "open", "done"}
    /\ sock \in {"none", "up", "down"}
    /\ {chan, queue, early} \subseteq Seq(DOMAIN log)
    /\ pc \in {"auth", "scan", "backfill", "connect", "state", "snapshot", "join",
               "replay", "stream", "lost", "stopped"}
    /\ token \in {0, session}
    /\ {highwater, prompt, cursor} \subseteq 0..Len(log)
    /\ answered \subseteq DOMAIN log
    /\ {isNew, reading} \subseteq BOOLEAN
    /\ waiter \in 0..issued /\ issued \in 0..MaxCommands
    /\ got \in [Commands -> 0..MaxCommands]

\* A bot starts on a proxy without a session for its user, or on one that an
\* earlier process left, with a prompt open or not.
Init ==
    /\ \E past \in {<<>>, <<"event">>, <<"event", "prompt">>} :
         /\ log = [i \in DOMAIN past |-> Msg(past[i], 0)]
         /\ seen \in {0, 1} \cap 0..Len(past)
         /\ session = (IF past = <<>> THEN 0 ELSE 1)
         /\ standing = (IF past = <<>> THEN "gone" ELSE "up")
         /\ prompting = (IF Len(past) = 2 THEN "open" ELSE "none")
    /\ asked = <<>>
    /\ token = 0 /\ highwater = 0 /\ answered = {} /\ isNew = FALSE
    /\ sock = "none" /\ chan = <<>> /\ pc = "auth"
    /\ cursor = 0 /\ queue = <<>> /\ early = <<>> /\ prompt = 0 /\ reading = FALSE
    /\ waiter = 0 /\ issued = 0 /\ got = [c \in Commands |-> 0]
    /\ yielded = <<>> /\ answers = <<>> /\ scannedTo = 0 /\ streamFrom = 0 /\ trouble = 0

Larger(a, b) == IF a > b THEN a ELSE b
Kind(id) == log[id].k

Fails == trouble < MaxTrouble /\ trouble' = trouble + 1
Works == UNCHANGED trouble

-----------------------------------------------------------------------------
(* Lily and the proxy, as far as a bot can tell.                           *)

Publish(m) ==
    /\ log' = Append(log, m)
    /\ chan' = IF sock = "up" THEN Append(chan, Len(log) + 1) ELSE chan

Speaks ==
    /\ standing = "up" /\ Works
    /\ Cardinality({i \in DOMAIN log : Kind(i) = "event"}) < MaxEvents
    /\ Publish(Msg("event", 0))
    /\ UNCHANGED <<proxy, prompting, asked, sock, bot>>

\* Bound: one prompt to a session.
Asks ==
    /\ standing = "up" /\ prompting = "none" /\ Works
    /\ prompting' = "open"
    /\ Publish(Msg("prompt", 0))
    /\ UNCHANGED <<proxy, asked, sock, bot>>

\* Lily answers its commands in order, with framed output or without.
Answers ==
    /\ standing = "up" /\ asked # <<>> /\ Works
    /\ asked' = Tail(asked)
    /\ \/ Publish(Msg("result", Head(asked)))
       \/ UNCHANGED <<log, chan>>
    /\ UNCHANGED <<proxy, prompting, sock, bot>>

\* Bound: the last session stays.
Closes ==
    /\ standing = "up" /\ session < MaxSessions /\ Works
    /\ standing' = "closed"
    /\ Publish(Msg("closed", 0))
    /\ UNCHANGED <<session, seen, prompting, asked, sock, bot>>

Teardown ==
    /\ standing = "closed" /\ Works
    /\ standing' = "gone"
    /\ UNCHANGED <<session, seen, said, bot>>

\* The websocket breaks, and what had not arrived is gone.
Drop ==
    /\ sock = "up" /\ Fails
    /\ sock' = "down"
    /\ \E n \in 0..Len(chan) : chan' = SubSeq(chan, 1, n)
    /\ UNCHANGED <<proxy, log, prompting, asked, bot>>

\* The proxy exits; a spawned one is started again by ensure_running.  Bound:
\* not with the last session.
ProxyExits ==
    /\ standing # "gone" /\ session < MaxSessions /\ Fails
    /\ standing' = "gone"
    /\ sock' = IF sock = "up" THEN "down" ELSE sock
    /\ UNCHANGED <<session, seen, log, prompting, asked, chan, bot>>

-----------------------------------------------------------------------------
(* Sending.                                                                *)

\* A line, command c if not 0: the proxy echoes it to the session, then Lily
\* gets it and has its prompt answered.  Without Lily the proxy hangs up.
Said(c, ch) ==
    LET up == standing = "up" IN
    /\ log' = Append(log, Msg("input", 0))
    /\ chan' = Append(ch, Len(log) + 1)
    /\ sock' = IF up THEN "up" ELSE "down"
    /\ prompting' = IF up /\ prompting = "open" THEN "done" ELSE prompting
    /\ asked' = IF up /\ c > 0 THEN Append(asked, c) ELSE asked
Talks == Cardinality({i \in DOMAIN log : Kind(i) = "input"}) < MaxLines
Unsaid(ch) == chan' = ch /\ UNCHANGED <<log, prompting, asked, sock>>

\* _answer_prompt, over a socket that is up or not, which raises: an ID is
\* answered once.
Mut_Fresh(id) == TRUE
Fresh(id) == id \notin answered
AnswerPrompt(id, ch, up) ==
    IF Fresh(id)
    THEN /\ answered' = answered \cup {id}
         /\ IF up THEN Said(0, ch) /\ answers' = Append(answers, id)
            ELSE Unsaid(ch) /\ UNCHANGED answers
    ELSE Unsaid(ch) /\ UNCHANGED <<answered, answers>>
Raises(id) == Fresh(id) /\ sock # "up"

-----------------------------------------------------------------------------
(* Session._establish                                                      *)

Lost == pc' = "lost"
Served == standing # "gone" /\ Works
Refused == IF standing = "gone" THEN Works ELSE Fails

\* auth opens a session or finds the user's; a token that is new starts its
\* own numbering.
Renumbered(new) == new
Opens ==
    \/ /\ standing # "gone"
       /\ UNCHANGED <<session, standing, seen, log, prompting, asked>>
    \/ /\ standing = "gone" /\ session < MaxSessions
       /\ session' = session + 1 /\ standing' = "up"
       /\ log' = <<>> /\ seen' = 0 /\ prompting' = "none" /\ asked' = <<>>
Auth ==
    /\ pc = "auth"
    /\ \/ /\ Works /\ Opens
          /\ isNew' = (session' # token) /\ token' = session'
          /\ IF Renumbered(isNew')
             THEN highwater' = 0 /\ answered' = {}
             ELSE UNCHANGED <<highwater, answered>>
          /\ IF isNew' THEN yielded' = <<>> /\ answers' = <<>> /\ scannedTo' = 0
             ELSE UNCHANGED <<yielded, answers, scannedTo>>
          /\ pc' = IF isNew' THEN "scan" ELSE IF highwater' > 0 THEN "backfill" ELSE "connect"
          /\ cursor' = IF isNew' THEN 0 ELSE highwater'
          /\ prompt' = 0
       \/ /\ \/ Fails /\ Lost                                \* no answer, or 429, 503
             \/ standing = "gone" /\ Works /\ pc' = "stopped" \* AuthError
          /\ UNCHANGED <<proxy, log, prompting, asked, isNew, token, highwater, answered,
                         yielded, answers, scannedTo, cursor, prompt>>
    /\ UNCHANGED <<sock, chan, queue, early, reading, commands, streamFrom>>

\* The ring keeps all but the closing notice.
Kept(after) == {i \in DOMAIN log : i > after /\ Kind(i) # "closed"}
InOrder(S) == [n \in 1..Cardinality(S) |-> CHOOSE i \in S : Cardinality({j \in S : j <= i}) = n]

\* GET /events after the cursor
New == InOrder(Kept(cursor))
More == Len(New) > EVENTS_PAGE
Page == IF More THEN SubSeq(New, 1, EVENTS_PAGE) ELSE New
Reached == IF Page = <<>> THEN cursor ELSE Last(Page)

\* scan_history: the last prompt that no line followed is pending.
Pending(page) ==
    LET turns == {i \in Range(page) : Kind(i) \in {"prompt", "input"}}
        open == {i \in turns : Kind(i) = "prompt" /\ \A j \in turns : j <= i}
    IN  IF turns = {} THEN prompt ELSE IF open = {} THEN 0 ELSE CHOOSE i \in open : TRUE
ScanHistory ==
    /\ pc = "scan"
    /\ \/ /\ Served
          /\ prompt' = Pending(Page)
          /\ IF More
             THEN cursor' = Reached /\ UNCHANGED <<pc, highwater, scannedTo>>
             ELSE /\ highwater' = Reached /\ scannedTo' = highwater'
                  /\ pc' = "connect" /\ cursor' = 0
       \/ Refused /\ Lost /\ UNCHANGED <<prompt, cursor, highwater, scannedTo>>
    /\ UNCHANGED <<proxy, said, token, isNew, answered, queue, early, reading,
                   commands, yielded, answers, streamFrom>>

\* _fetch_backfill
FetchBackfill ==
    /\ pc = "backfill"
    /\ \/ /\ Served
          /\ queue' = queue \o Page
          /\ cursor' = IF More THEN Reached ELSE 0
          /\ pc' = IF More THEN pc ELSE "connect"
       \/ Refused /\ Lost /\ UNCHANGED <<queue, cursor>>
    /\ UNCHANGED <<proxy, said, token, isNew, highwater, answered, early, prompt,
                   reading, commands, yielded, answers, scannedTo, streamFrom>>

\* connect_ws, then the prompt that history ended with.  A session nobody has
\* reported on replays its ring.
ConnectWS ==
    LET replay == IF seen = 0 THEN InOrder(Kept(0)) ELSE <<>> IN
    /\ pc = "connect"
    /\ \/ /\ Served
          /\ IF prompt > 0 THEN AnswerPrompt(prompt, replay, TRUE)
             ELSE /\ chan' = replay /\ UNCHANGED <<log, prompting, asked, answered, answers>>
          /\ sock' = IF prompt > 0 /\ standing # "up" THEN "down" ELSE "up"
          /\ pc' = "state" /\ reading' = TRUE
       \/ Refused /\ Lost /\ UNCHANGED <<said, answered, answers, reading>>
    /\ prompt' = 0
    /\ UNCHANGED <<proxy, token, isNew, highwater, fetched, commands, yielded, scannedTo,
                   streamFrom>>

\* _handle of a message of chan or queue; what it takes it does not give out.
Claimed(id) == Kind(id) = "result" /\ waiter # 0
Handle(id, ch) ==
    /\ highwater' = Larger(highwater, id)
    /\ IF id > highwater /\ Kind(id) = "prompt"
       THEN AnswerPrompt(id, ch, sock = "up")
       ELSE Unsaid(ch) /\ UNCHANGED <<answered, answers>>
    /\ IF id > highwater /\ Claimed(id)
       THEN waiter' = 0 /\ got' = [got EXCEPT ![waiter] = log[id].c]
       ELSE UNCHANGED <<waiter, got>>
GivesOut(id) == id > highwater /\ Kind(id) # "prompt" /\ ~Claimed(id)
Breaks(id) == id > highwater /\ Kind(id) = "prompt" /\ Raises(id)

\* _state_while_reading: the reader collects what comes before /state answers.
\* What ends the reader ends nothing else.
DrainEarly ==
    /\ pc = "state" /\ reading /\ Works
    /\ \/ /\ chan # <<>> /\ Kind(Head(chan)) # "closed"
          /\ LET id == Head(chan) IN
             /\ Handle(id, Tail(chan))
             /\ early' = IF GivesOut(id) THEN Append(early, id) ELSE early
             /\ reading' = ~Breaks(id)
       \/ /\ IF chan = <<>> THEN sock = "down" ELSE Kind(Head(chan)) = "closed"
          /\ reading' = FALSE
          /\ chan' = IF chan = <<>> THEN chan ELSE Tail(chan)
          /\ UNCHANGED <<log, prompting, asked, sock, highwater, answered, answers, early,
                         waiter, got>>
    /\ UNCHANGED <<proxy, token, isNew, cursor, queue, prompt, issued, pc,
                   yielded, scannedTo, streamFrom>>

\* GET /state answers when the sync is done, which an open prompt holds back,
\* or after a minute.
GetState(inTime) ==
    /\ pc = "state" /\ inTime = (prompting # "open")
    /\ \/ /\ Works
          /\ pc' = "snapshot"
          /\ prompt' = IF inTime THEN 0 ELSE CHOOSE i \in DOMAIN log : Kind(i) = "prompt"
          /\ highwater' = IF isNew THEN Larger(highwater, seen) ELSE highwater
       \/ Refused /\ Lost /\ UNCHANGED <<prompt, highwater>>
    /\ reading' = FALSE /\ isNew' = FALSE
    /\ UNCHANGED <<proxy, said, token, answered, fetched, commands,
                   yielded, answers, scannedTo, streamFrom>>

\* _ensure_name gives up, or the snapshot's prompt is answered.
Snapshot ==
    /\ pc = "snapshot" /\ Works
    /\ \/ pc' = "stopped" /\ UNCHANGED <<said, answered, answers>>
       \/ /\ IF prompt > 0 THEN AnswerPrompt(prompt, chan, sock = "up")
             ELSE UNCHANGED <<said, answered, answers>>
          /\ pc' = IF prompt > 0 /\ Raises(prompt) THEN "lost" ELSE "join"
    /\ prompt' = 0
    /\ UNCHANGED <<proxy, token, isNew, highwater, fetched, reading, commands, yielded,
                   scannedTo, streamFrom>>

\* The rest of _establish: a bot that renames itself or joins discussions sends
\* lines; then messages() begins with backfill + early.
Join ==
    /\ pc = "join" /\ Works
    /\ \/ pc' = "replay" /\ UNCHANGED said
       \/ /\ pc' = "replay" /\ sock = "up" /\ Said(0, chan)
          /\ Talks
       \/ pc' = "lost" /\ sock # "up" /\ UNCHANGED said
    /\ queue' = queue \o early /\ early' = <<>>
    /\ UNCHANGED <<proxy, token, isNew, highwater, answered, cursor, prompt, reading,
                   commands, yielded, answers, scannedTo, streamFrom>>

-----------------------------------------------------------------------------
(* Session.messages                                                        *)

Yield(id) == yielded' = IF GivesOut(id) THEN Append(yielded, id) ELSE yielded

Replay ==
    /\ pc = "replay" /\ queue # <<>> /\ Works
    /\ LET id == Head(queue) IN
       /\ Handle(id, chan)
       /\ Yield(id)
       /\ pc' = IF Breaks(id) THEN "lost" ELSE pc
    /\ queue' = Tail(queue)
    /\ UNCHANGED <<proxy, token, isNew, cursor, early, prompt, reading, issued,
                   scannedTo, streamFrom>>

BeginStream ==
    /\ pc = "replay" /\ queue = <<>> /\ Works
    /\ pc' = "stream" /\ streamFrom' = Len(log)
    /\ UNCHANGED <<proxy, said, token, isNew, highwater, answered, fetched, prompt,
                   reading, commands, yielded, answers, scannedTo>>

Stream ==
    /\ pc = "stream" /\ chan # <<>> /\ Works
    /\ LET id == Head(chan) IN
       IF Kind(id) = "closed"
       THEN /\ pc' = "lost" /\ Unsaid(Tail(chan))
            /\ UNCHANGED <<highwater, answered, answers, waiter, got, yielded>>
       ELSE /\ Handle(id, Tail(chan))
            /\ Yield(id)
            /\ pc' = IF Breaks(id) THEN "lost" ELSE pc
    /\ UNCHANGED <<proxy, token, isNew, fetched, prompt, reading, issued,
                   scannedTo, streamFrom>>

StreamEnds ==
    /\ pc = "stream" /\ chan = <<>> /\ sock = "down" /\ Works
    /\ Lost
    /\ UNCHANGED <<proxy, said, token, isNew, highwater, answered, fetched, prompt,
                   reading, commands, yielded, answers, scannedTo, streamFrom>>

\* _teardown, the delay, and once more.
Recover ==
    /\ pc = "lost" /\ Works
    /\ pc' = "auth"
    /\ sock' = "none" /\ chan' = <<>> /\ queue' = <<>> /\ early' = <<>> /\ reading' = FALSE
    /\ cursor' = 0 /\ prompt' = 0 /\ isNew' = FALSE /\ streamFrom' = 0
    /\ UNCHANGED <<proxy, log, prompting, asked, token, highwater, answered, commands, yielded, answers, scannedTo>>

-----------------------------------------------------------------------------
(* Beside it: the reporter of the read position, and tasks that run Lily   *)
(* commands.                                                               *)

\* _report_seen, started by _establish and ended by _teardown
ReportSeen ==
    /\ pc \in {"replay", "stream"} /\ highwater > seen /\ Served
    /\ seen' = highwater
    /\ UNCHANGED <<session, standing, said, token, isNew, highwater, answered, fetched, prompt,
                   reading, commands, yielded, answers, scannedTo, streamFrom, pc>>

\* run_command, one at a time, from a task a handler has spawned
RunCommand ==
    /\ yielded # <<>> /\ waiter = 0 /\ issued < MaxCommands /\ Works
    /\ Talks
    /\ issued' = issued + 1
    /\ IF sock = "up" THEN Said(issued', chan) /\ waiter' = issued'
       ELSE UNCHANGED <<said, waiter>>
    /\ UNCHANGED <<proxy, token, isNew, highwater, answered, fetched, prompt, reading,
                   got, yielded, answers, scannedTo, streamFrom, pc>>

CommandTimesOut ==
    /\ waiter # 0 /\ Works
    /\ waiter' = 0
    /\ UNCHANGED <<proxy, said, token, isNew, highwater, answered, fetched, prompt,
                   reading, issued, got, yielded, answers, scannedTo, streamFrom, pc>>

-----------------------------------------------------------------------------
Establish == Auth \/ ScanHistory \/ FetchBackfill \/ ConnectWS \/ DrainEarly \/ Snapshot \/ Join
Messages == Replay \/ BeginStream \/ Stream \/ StreamEnds \/ Recover

Next ==
    \/ Speaks \/ Asks \/ Answers \/ Closes \/ Teardown \/ Drop \/ ProxyExits
    \/ Establish \/ Messages
    \/ \E inTime \in BOOLEAN : GetState(inTime)
    \/ ReportSeen \/ RunCommand \/ CommandTimesOut

Spec == Init /\ [][Next]_vars
FairSpec ==
    /\ Spec
    /\ WF_vars(Establish) /\ WF_vars(Messages)
    /\ WF_vars(\E inTime \in BOOLEAN : GetState(inTime))

-----------------------------------------------------------------------------
\* The bot is given no message of a session twice, and none after a later one,
\* across any number of reconnections, replays, backfills and early readings.
YieldedOnceInOrder ==
    \A i, j \in DOMAIN yielded : i < j => yielded[i] < yielded[j]

\* What a scan that was completed found in a session when the bot first joined it
\* is history the bot never acts on, although a session nobody has reported on
\* replays all of it.  (A scan that fails is not repeated: the next _establish
\* knows the token, and what the socket replays is acted on.)
HistoryIsSkipped == \A i \in DOMAIN yielded : yielded[i] > scannedTo

\* A prompt is answered once although history, the replay, the live socket and
\* the state snapshot may all present it.
PromptAnsweredOnce == \A i, j \in DOMAIN answers : answers[i] = answers[j] => i = j

\* While the stream runs, everything published since it began is still in the
\* socket, was given to the bot, was a prompt it answered, or was the output of
\* a command; in particular a session that numbers anew is not taken for old.
NothingLostWhileStreaming ==
    pc = "stream" /\ sock = "up" =>
      \A i \in (streamFrom + 1)..Len(log) :
         \/ \E k \in DOMAIN chan : chan[k] = i
         \/ \E k \in DOMAIN yielded : yielded[k] = i
         \/ \E k \in DOMAIN answers : answers[k] = i
         \/ Kind(i) = "result" /\ \E c \in Commands : got[c] = log[i].c

\* What the bot is given.  It is not promised what it read while /state was awaited:
\* _handle raises the mark when it first sees that (_drain_into), and drops it, and
\* the backfill before it, when messages replays them.
BotHearsNothingTwice ==
    /\ YieldedOnceInOrder /\ HistoryIsSkipped
    /\ PromptAnsweredOnce /\ NothingLostWhileStreaming

\* A prompt of the bot's session, which holds up everything else at Lily, gets
\* its line, unless the session ends, the bot stops or something fails.
GateOpens ==
    prompting = "open" /\ token = session ~>
        prompting # "open" \/ standing # "up" \/ pc = "stopped" \/ trouble > 0
=============================================================================
