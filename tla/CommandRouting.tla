--------------------------- MODULE CommandRouting ---------------------------
(***************************************************************************)
(* Where the output of Lily commands goes (internal/proxy/api/server.go):  *)
(* fanOut collects what arrives between %begin and %end, and hands it to   *)
(* the HTTP handler waiting in fetchLines, if the command is taken for the *)
(* one that handler sent, or publishes it to the clients.                  *)
(*                                                                         *)
(* A command is named by the request that sent it, and Lily's id for it by *)
(* the command: Lily never reuses an id.                                   *)
(***************************************************************************)
EXTENDS Integers, Sequences, FiniteSets, Bags

CONSTANTS
    Fetches,    \* calls of fetchLines: /fetch requests, startup memo fetches
    Typed,      \* commands clients typed or the startup memo replayed
    None,       \* no command
    verb,       \* verb[x]: the first word of command x, case folded
    MaxLines    \* bound on the output lines of one command

Commands == Fetches \cup Typed

ASSUME RoutingAssumption ==
    /\ Fetches \cap Typed = {}
    /\ None \notin Commands
    /\ MaxLines \in Nat

VARIABLES
    lily,          \* lily[x]: Lily's progress on command x
    produced,      \* produced[x]: how many lines Lily has sent for x
    fromLily,      \* the messages fanOut has yet to read
    open,          \* the keys of Session.cmdBuffer
    buf,           \* buf[x]: the lines collected for x
    fetchResultCh, \* whose channel is registered: a fetch, or None
    fetchCmdID,    \* the command pinned to it, or None
    pc,            \* pc[f]: where fetchLines call f is
    chan,          \* chan[f]: its one-place channel, a sequence
    result,        \* result[f]: the lines it returned
    published      \* history: the bag of lines published, each with its result's command

captures == <<open, buf>>
pending == <<fetchResultCh, fetchCmdID>>
calls == <<pc, chan, result>>
server == <<lily, produced>>
vars == <<server, fromLily, captures, pending, calls, published>>

\* An output line, tagged with its command's id ("%command [id] ") or bare.
Lines == [of : Commands, n : 1..MaxLines, tagged : BOOLEAN]
LinesIn(s) == {s[i] : i \in DOMAIN s}
Messages == [type : {"begin", "end"}, cmd : Commands]
            \cup [type : {"raw"}, line : Lines]

TypeOK ==
    /\ lily \in [Commands -> {"unsent", "sent", "begun", "ended"}]
    /\ produced \in [Commands -> 0..MaxLines]
    /\ fromLily \in Seq(Messages)
    /\ open \subseteq Commands
    /\ buf \in [Commands -> Seq(Lines)]
    /\ \A x \in Commands \ open : buf[x] = <<>>
    /\ fetchResultCh \in Fetches \cup {None}
    /\ fetchCmdID \in Commands \cup {None}
    /\ pc \in [Fetches -> {"idle", "send", "wait", "clear", "done"}]
    /\ chan \in [Fetches -> Seq(Seq(Lines))]
    /\ \A f \in Fetches : Len(chan[f]) <= 1
    /\ result \in [Fetches -> Seq(Lines)]
    /\ IsABag(published)
    /\ BagToSet(published) \subseteq [cmd : Commands \cup {None}, line : Lines]

Init ==
    /\ lily = [x \in Commands |-> "unsent"]
    /\ produced = [x \in Commands |-> 0]
    /\ fromLily = <<>>
    /\ open = {}
    /\ buf = [x \in Commands |-> <<>>]
    /\ fetchResultCh = None
    /\ fetchCmdID = None
    /\ pc = [f \in Fetches |-> "idle"]
    /\ chan = [f \in Fetches |-> <<>>]
    /\ result = [f \in Fetches |-> <<>>]
    /\ published = EmptyBag

-----------------------------------------------------------------------------
(* fetchLines.  (Mut_... definitions are plausible faults; no action uses  *)
(* them.)                                                                  *)

\* One fetch at a time: a second one is refused (errFetchInProgress).
Register(f) ==
    /\ pc[f] = "idle"
    /\ IF fetchResultCh # None
       THEN pc' = [pc EXCEPT ![f] = "done"] /\ UNCHANGED pending
       ELSE /\ pc' = [pc EXCEPT ![f] = "send"]
            /\ fetchResultCh' = f
            /\ fetchCmdID' = None
    /\ UNCHANGED <<server, fromLily, captures, chan, result, published>>

Send(f) ==
    /\ pc[f] = "send"
    /\ pc' = [pc EXCEPT ![f] = "wait"]
    /\ lily' = [lily EXCEPT ![f] = "sent"]
    /\ UNCHANGED <<produced, fromLily, captures, pending, chan, result, published>>

SendFails(f) ==
    /\ pc[f] = "send"
    /\ pc' = [pc EXCEPT ![f] = "clear"]
    /\ UNCHANGED <<server, fromLily, captures, pending, chan, result, published>>

Receive(f) ==
    /\ pc[f] = "wait"
    /\ chan[f] # <<>>
    /\ result' = [result EXCEPT ![f] = Head(chan[f])]
    /\ pc' = [pc EXCEPT ![f] = "done"]
    /\ UNCHANGED <<server, fromLily, captures, pending, chan, published>>

\* The timer fires; select may choose it over a result that is ready as well.
Timeout(f) ==
    /\ pc[f] = "wait"
    /\ pc' = [pc EXCEPT ![f] = "clear"]
    /\ UNCHANGED <<server, fromLily, captures, pending, chan, result, published>>

\* Whatever channel is registered by now is unregistered.
Unregister(f) ==
    /\ pc[f] = "clear"
    /\ fetchResultCh' = None
    /\ pc' = [pc EXCEPT ![f] = "done"]
    /\ UNCHANGED <<server, fromLily, captures, fetchCmdID, chan, result, published>>

-----------------------------------------------------------------------------
(* Lily, and a client typing a command.                                    *)

Type(x) ==
    /\ lily[x] = "unsent"
    /\ lily' = [lily EXCEPT ![x] = "sent"]
    /\ UNCHANGED <<produced, fromLily, captures, pending, calls, published>>

LilySends(x, m, was, is) ==
    /\ lily[x] = was
    /\ lily' = [lily EXCEPT ![x] = is]
    /\ fromLily' = Append(fromLily, m)
    /\ UNCHANGED <<captures, pending, calls, published>>

LilyBegins(x) == /\ LilySends(x, [type |-> "begin", cmd |-> x], "sent", "begun")
                 /\ UNCHANGED produced

LilyPrints(x) ==
    /\ produced[x] < MaxLines
    /\ \E tagged \in BOOLEAN :
          LilySends(x, [type |-> "raw",
                        line |-> [of |-> x, n |-> produced[x] + 1, tagged |-> tagged]],
                    "begun", "begun")
    /\ produced' = [produced EXCEPT ![x] = @ + 1]

LilyEnds(x) == /\ LilySends(x, [type |-> "end", cmd |-> x], "begun", "ended")
               /\ UNCHANGED produced

-----------------------------------------------------------------------------
(* fanOut, one message at a time.                                          *)

\* publish: a command's lines, or bare text (no command).
Publish(x, lines) ==
    published' = published (+) SetToBag({[cmd |-> x, line |-> l] : l \in LinesIn(lines)})

Reads(m) == fromLily # <<>> /\ Head(fromLily) = m /\ fromLily' = Tail(fromLily)

\* The exact command the fetch sent, or any other command with its verb.
LabelMatches(f, x) == verb[f] = verb[x]

Pins(x) == fetchResultCh # None /\ fetchCmdID = None /\ LabelMatches(fetchResultCh, x)

CmdBegin(x) ==
    /\ Reads([type |-> "begin", cmd |-> x])
    /\ open' = open \cup {x}
    /\ buf' = [buf EXCEPT ![x] = <<>>]
    /\ fetchCmdID' = IF Pins(x) THEN x ELSE fetchCmdID
    /\ UNCHANGED <<server, fetchResultCh, calls, published>>

DeliverToFetch(x) ==
    /\ chan' = [chan EXCEPT ![fetchResultCh] = IF @ = <<>> THEN <<buf[x]>> ELSE @]
    /\ UNCHANGED published

CaptureClosed(x) == open' = open \ {x} /\ buf' = [buf EXCEPT ![x] = <<>>]

CmdEnd(x) ==
    /\ Reads([type |-> "end", cmd |-> x])
    /\ \/ /\ x \in open
          /\ fetchResultCh # None /\ fetchCmdID = x
          /\ CaptureClosed(x)
          /\ DeliverToFetch(x)
          /\ fetchResultCh' = None
          /\ fetchCmdID' = None
       \/ /\ x \in open
          /\ fetchResultCh = None \/ fetchCmdID # x
          /\ CaptureClosed(x)
          /\ Publish(x, buf[x])
          /\ UNCHANGED <<pending, chan>>
       \/ x \notin open /\ UNCHANGED <<captures, pending, chan, published>>
    /\ UNCHANGED <<server, pc, result>>

\* The captures a line is added to: its own if tagged, the only one if bare.
Mut_CapturesOfAll(l) == open
CapturesOf(l) == IF l.tagged THEN open \cap {l.of}
                 ELSE IF Cardinality(open) = 1 THEN open ELSE {}

Raw(l) ==
    /\ Reads([type |-> "raw", line |-> l])
    /\ buf' = [x \in Commands |-> IF x \in CapturesOf(l) THEN Append(buf[x], l) ELSE buf[x]]
    /\ IF CapturesOf(l) # {} THEN UNCHANGED published ELSE Publish(None, <<l>>)
    /\ UNCHANGED <<server, open, pending, calls>>

\* Before each message, captures older than cmdCaptureMaxAge are published.  A
\* fetch gives up long before that, so what it waits for is never that old.
FlushStale(x) ==
    /\ fromLily # <<>>
    /\ x \in open
    /\ ~(fetchResultCh # None /\ fetchCmdID = x)
    /\ CaptureClosed(x)
    /\ Publish(x, buf[x])
    /\ UNCHANGED <<server, fromLily, pending, calls>>

-----------------------------------------------------------------------------
FetchLines(f) == \/ Register(f) \/ Send(f) \/ SendFails(f) \/ Receive(f)
                 \/ Timeout(f) \/ Unregister(f)

Lily(x) == LilyBegins(x) \/ LilyPrints(x) \/ LilyEnds(x)

FanOut == \/ \E x \in Commands : CmdBegin(x) \/ CmdEnd(x) \/ FlushStale(x)
          \/ \E l \in Lines : Raw(l)

Next == \/ \E f \in Fetches : FetchLines(f)
        \/ \E x \in Typed : Type(x)
        \/ \E x \in Commands : Lily(x)
        \/ FanOut

Spec == Init /\ [][Next]_vars

-----------------------------------------------------------------------------
(* Properties                                                              *)

Positions(s, x, n) == {i \in DOMAIN s : s[i].of = x /\ s[i].n = n}

\* Where line n of command x stands: unread, in a capture, in a fetch's channel
\* (and from there in its result, if it has not given up), or before the clients,
\* once for each time it was published.
Places(x, n) ==
    {<<"unread", None, i>> : i \in {j \in DOMAIN fromLily :
        fromLily[j].type = "raw" /\ fromLily[j].line.of = x /\ fromLily[j].line.n = n}}
    \cup (UNION {{<<"open", y, i>> : i \in Positions(buf[y], x, n)} : y \in open})
    \cup (UNION {{<<"fetch", f, i>> : i \in Positions(chan[f][1], x, n)}
                  : f \in {g \in Fetches : chan[g] # <<>>}})
    \cup (UNION {{<<"shown", e, i>> : i \in 1..published[e]}
                  : e \in {d \in BagToSet(published) : d.line.of = x /\ d.line.n = n}})

\* Every line Lily prints stands in exactly one place: whatever fetches time
\* out or overlap, no output is swallowed, shown twice, or shown to the clients
\* as well as handed to /fetch.
LinesGoToOnePlace ==
    \A x \in Commands : \A n \in 1..produced[x] : \E p \in Places(x, n) : Places(x, n) = {p}

\* With several commands in flight their tagged lines never mix.
TaggedLinesStayWithTheirCommand ==
    /\ \A x \in open : \A l \in LinesIn(buf[x]) : l.tagged => l.of = x
    /\ \A e \in BagToSet(published) : e.line.tagged => e.cmd \in {e.line.of, None}

\* "Retrieves the current content of a user's /info file or a named memo": what
\* a fetch returns under its command's own id is that command's output.
FetchReturnsItsOwnOutput ==
    \A f \in Fetches : \A l \in LinesIn(result[f]) : l.tagged => l.of = f

\* No fetch asks for what another command does by its verb.  A memo of the same
\* verb as another (routing_wrong_memo) shows why it is needed.
VerbsDiffer == \A f \in Fetches : \A x \in Commands : LabelMatches(f, x) => x = f

\* Every line Lily prints stands in exactly one place, whatever fetches time out
\* or overlap: none is swallowed, shown twice, or shown as well as handed to a
\* fetch; tagged lines of commands in flight never mix; and a fetch whose verb no
\* other command has returns what its own command printed.  (server.go fanOut,
\* flushStaleCaptures, fetchLines)
OutputGoesHome ==
    /\ LinesGoToOnePlace
    /\ TaggedLinesStayWithTheirCommand
    /\ VerbsDiffer => FetchReturnsItsOwnOutput
=============================================================================
