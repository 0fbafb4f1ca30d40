----------------------------- MODULE Automation -----------------------------
(***************************************************************************)
(* What a session does by itself: scheduled commands (commands/cron.go),   *)
(* event triggers (on.go), aliases (alias.go) and the startup memo, all of *)
(* which re-enter dispatchInput (api/server.go) from goroutines of their   *)
(* own, fanOut included.                                                   *)
(*                                                                         *)
(* A line is a record whose verb is its first word, case folded and        *)
(* without the %; the other fields are the arguments that matter.  The     *)
(* verb of a line without a % is "text".                                   *)
(***************************************************************************)
EXTENDS Integers, Sequences, FiniteSets, Functions

CONSTANTS
    Clients,    \* attached clients: one readLoop each
    Runners,    \* goroutines of fired timers; bounds how many overlap
    Startup,    \* the goroutine of runStartup
    FanOut,     \* the goroutine of fanOut
    None,
    Inputs,     \* the lines clients type
    Memo,       \* the lines of the zlilyStartup memo
    Others,     \* the handles of other users
    Me,         \* our own handle, State.Whoami
    MaxTyped,   \* bound on the lines typed
    MaxJobs,    \* bound on the jobs scheduled
    MaxTriggers,\* bound on the triggers registered
    MaxEvents,  \* bound on the events Lily sends, by source
    MaxTime     \* bound on the clock

Procs == Clients \cup Runners \cup {Startup, FanOut}
Sources == Others \cup {Me}

ASSUME AutomationAssumption ==
    /\ IsFiniteSet(Clients) /\ IsFiniteSet(Runners)
    /\ Startup \notin Clients \cup Runners /\ FanOut \notin Clients \cup Runners \cup {Startup}
    /\ Clients \cap Runners = {}
    /\ None \notin Procs \cup Sources /\ Me \notin Others
    /\ {MaxTyped, MaxJobs, MaxTriggers, MaxTime} \subseteq Nat
    /\ MaxEvents \in [Sources -> Nat]

VARIABLES
    agenda,    \* agenda[g]: the lines goroutine g has still to dispatch, each
               \* with whether an alias in it is expanded
    aliases,   \* AliasTable.aliases: name -> the lines it stands for
    jobs,      \* CronTable.jobs: id -> job
    nextJob,   \* CronTable.next
    armed,     \* the jobs whose timer is running
    fired,     \* the jobs whose callback has started and wants the lock
    triggers,  \* OnTable.handlers: id -> trigger with its lastFired
    nextOn,    \* OnTable.next
    fetching,  \* whose channel is in fetchResultCh
    fromLily,  \* the messages fanOut has yet to read
    lily,      \* the connection: "open", "lost" or "closed"
    alive,     \* the clients whose readLoop still runs
    now,       \* the clock
    typed,     \* history: the number of lines typed
    firings,   \* history: firings[id], when and for whose event trigger id fired
    events     \* history: events[s], how many events source s caused

tables == <<aliases, jobs, nextJob, armed, fired, triggers, nextOn>>
cron == <<jobs, nextJob, armed, fired>>
on == <<triggers, nextOn>>
history == <<typed, firings, events>>
vars == <<agenda, tables, fetching, fromLily, lily, alive, now, history>>

Never == -1
Put(table, key, entry) ==
    [k \in DOMAIN table \cup {key} |-> IF k = key THEN entry ELSE table[k]]
NoTable == [x \in {} |-> None]

\* events.source: who acted; memo: the answer to the fetch of the startup memo.
Messages == [type : {"event"}, source : Sources] \cup {[type |-> "memo"]}

TypeOK ==
    /\ DOMAIN agenda = Procs
    /\ \A g \in Procs : \A i \in DOMAIN agenda[g] : agenda[g][i].expand \in BOOLEAN
    /\ nextJob \in 0..MaxJobs /\ DOMAIN jobs \subseteq 0..nextJob - 1
    /\ \A id \in DOMAIN jobs : jobs[id].repeat \in BOOLEAN
    /\ armed \cup fired \subseteq 0..nextJob - 1
    /\ nextOn \in 0..MaxTriggers /\ DOMAIN triggers \subseteq 0..nextOn - 1
    /\ \A t \in DOMAIN triggers : /\ triggers[t].from \in Sources \cup {None}
                                  /\ triggers[t].lastFired \in 0..MaxTime \cup {Never}
    /\ fetching \in Procs \cup {None}
    /\ fromLily \in Seq(Messages)
    /\ lily \in {"open", "lost", "closed"}
    /\ alive \subseteq Clients
    /\ now \in 0..MaxTime
    /\ typed \in 0..MaxTyped
    /\ firings \in [0..MaxTriggers - 1 -> Seq([at : 0..MaxTime, by : Sources])]
    /\ \A s \in Sources : events[s] \in 0..MaxEvents[s]

Init ==
    /\ agenda = [g \in Procs |-> IF g = Startup THEN <<[line |-> [verb |-> "startup"],
                                                        expand |-> FALSE]>> ELSE <<>>]
    /\ aliases = NoTable
    /\ jobs = NoTable /\ nextJob = 0 /\ armed = {} /\ fired = {}
    /\ triggers = NoTable /\ nextOn = 0
    /\ fetching = None
    /\ fromLily = <<>>
    /\ lily = "open"
    /\ alive = Clients
    /\ now = 0
    /\ typed = 0
    /\ firings = [id \in 0..MaxTriggers - 1 |-> <<>>]
    /\ events = [s \in Sources |-> 0]

-----------------------------------------------------------------------------
(* dispatchInput and dispatchLine: goroutine g does the first line of its  *)
(* agenda.  (Mut_... definitions are plausible faults; no action uses      *)
(* them.)                                                                  *)

Line(g) == Head(agenda[g]).line
Input(lines) == [i \in DOMAIN lines |-> [line |-> lines[i], expand |-> TRUE]]
Busy(g) == agenda[g] # <<>> /\ fetching # g

\* g goes on with what stands behind its first line.
Goes(g, rest) == agenda' = [agenda EXCEPT ![g] = rest]
Done(g) == Goes(g, Tail(agenda[g]))
\* An error from dispatchLine ends the input; a client's readLoop ends with it.
Abandon(g) == Goes(g, <<>>) /\ alive' = alive \ {g}

\* Aliases are expanded once: what an alias stands for is not looked up again.
Expanded(g) == IF Line(g).verb \in DOMAIN aliases \ {"alias"}
               THEN [i \in DOMAIN aliases[Line(g).verb] |->
                        [line |-> aliases[Line(g).verb][i], expand |-> FALSE]]
               ELSE <<[line |-> Line(g), expand |-> FALSE]>>

ExpandInput(g) ==
    /\ Busy(g) /\ Head(agenda[g]).expand
    /\ Goes(g, Expanded(g) \o Tail(agenda[g]))
    /\ UNCHANGED <<tables, fetching, fromLily, lily, alive, now, history>>

Dispatches(g, verbs) == Busy(g) /\ ~Head(agenda[g]).expand /\ Line(g).verb \in verbs

Alias(g) ==
    /\ Dispatches(g, {"alias", "unalias"})
    /\ aliases' = IF Line(g).verb = "alias"
                  THEN Put(aliases, Line(g).name, Line(g).body)
                  ELSE Restrict(aliases, DOMAIN aliases \ {Line(g).name})
    /\ Done(g)
    /\ UNCHANGED <<cron, on, fetching, fromLily, lily, alive, now, history>>

NewID == nextJob

Schedule(g) ==
    /\ Dispatches(g, {"after", "every"})
    /\ nextJob < MaxJobs
    /\ jobs' = Put(jobs, NewID, [command |-> Line(g).command,
                                 repeat |-> Line(g).verb = "every"])
    /\ armed' = armed \cup {NewID}
    /\ nextJob' = nextJob + 1
    /\ Done(g)
    /\ UNCHANGED <<aliases, fired, on, fetching, fromLily, lily, alive, now, history>>

\* timer.Stop comes too late for a callback that waits for the lock.
CancelJobs(ids) == jobs' = Restrict(jobs, DOMAIN jobs \ ids) /\ armed' = armed \ ids

Cancel(g) ==
    /\ Dispatches(g, {"cancel"})
    /\ CancelJobs({Line(g).id})
    /\ Done(g)
    /\ UNCHANGED <<aliases, nextJob, fired, on, fetching, fromLily, lily, alive, now, history>>

\* State.LookupName: a name is whose it is now, our own included; the trigger keeps
\* the handle, whatever is renamed later.
LookupName(name) == IF name = None THEN {None} ELSE Sources

Register(g) ==
    /\ Dispatches(g, {"on"})
    /\ nextOn < MaxTriggers
    /\ \E handle \in LookupName(Line(g).from) :
          triggers' = Put(triggers, nextOn, [from |-> handle, once |-> Line(g).once,
                                             action |-> Line(g).action, lastFired |-> Never])
    /\ nextOn' = nextOn + 1
    /\ Done(g)
    /\ UNCHANGED <<aliases, cron, fetching, fromLily, lily, alive, now, history>>

\* Nobody has the name, or the line is wrong otherwise.
NotRegistered(g) ==
    /\ Dispatches(g, {"on"})
    /\ Done(g)
    /\ UNCHANGED <<tables, fetching, fromLily, lily, alive, now, history>>

Clear(g) ==
    /\ Dispatches(g, {"clear"})
    /\ triggers' = Restrict(triggers, DOMAIN triggers \ {Line(g).id})
    /\ Done(g)
    /\ UNCHANGED <<aliases, cron, nextOn, fetching, fromLily, lily, alive, now, history>>

ProxyVerbs == {"startup", "alias", "unalias", "after", "every", "cancel", "on", "clear"}

\* The registered proxy commands and %echo answer at once; any other %-command
\* is forwarded to the client.
Respond(g) ==
    /\ Busy(g) /\ ~Head(agenda[g]).expand
    /\ Line(g).verb \notin ProxyVerbs \cup {"text"}
    /\ Done(g)
    /\ UNCHANGED <<tables, fetching, fromLily, lily, alive, now, history>>

\* Text for Lily (%sync sends a line as well).  On a lost connection a Send
\* succeeds until it is closed, or fails already.
SendLine(g) ==
    /\ Dispatches(g, {"text"})
    /\ \/ lily # "closed" /\ Done(g) /\ UNCHANGED alive
       \/ lily # "open" /\ Abandon(g)
    \* Lily may tell the sender what he did as well.
    /\ \/ /\ lily = "open" /\ events[Me] < MaxEvents[Me]
          /\ fromLily' = Append(fromLily, [type |-> "event", source |-> Me])
          /\ events' = [events EXCEPT ![Me] = @ + 1]
       \/ UNCHANGED <<fromLily, events>>
    /\ UNCHANGED <<tables, fetching, lily, now, typed, firings>>

-----------------------------------------------------------------------------
(* replayStartup and fetchLines.                                           *)

\* One fetch at a time, and none on a closed connection: no memo, no lines.
StartupRefused(g) ==
    /\ Dispatches(g, {"startup"})
    /\ fetching # None \/ lily # "open"
    /\ Done(g)
    /\ UNCHANGED <<tables, fetching, fromLily, lily, alive, now, history>>

StartupFetch(g) ==
    /\ Dispatches(g, {"startup"})
    /\ fetching = None /\ lily = "open"
    /\ fetching' = g
    /\ fromLily' = Append(fromLily, [type |-> "memo"])
    /\ UNCHANGED <<agenda, tables, lily, alive, now, history>>

\* No answer within fetchTimeout.
Mut_NeverTimesOut(g) == FALSE
FetchTimeout(g) == fetching = g

StartupFails(g) ==
    /\ FetchTimeout(g)
    /\ fetching' = None
    /\ Done(g)
    /\ UNCHANGED <<tables, fromLily, lily, alive, now, history>>

\* runStartup gives up when the sync does not complete.
StartupSkipped ==
    /\ Dispatches(Startup, {"startup"})
    /\ Done(Startup)
    /\ UNCHANGED <<tables, fetching, fromLily, lily, alive, now, history>>

-----------------------------------------------------------------------------
(* Timers.                                                                 *)

TimerFires(id) ==
    /\ id \in armed
    /\ armed' = armed \ {id}
    /\ fired' = fired \cup {id}
    /\ UNCHANGED <<agenda, aliases, jobs, nextJob, on, fetching, fromLily, lily, alive, now, history>>

Mut_OneShotStays(id) == jobs' = jobs
OneShotGoes(id) == jobs' = Restrict(jobs, DOMAIN jobs \ {id})

\* What the job is to do is decided under the lock, and is done after it is given
\* back, by and by, like any line on an agenda: cancelling the job meanwhile does
\* not stop it.
RunsListed(r, id) ==
    /\ Goes(r, Input(<<jobs[id].command>>))
    /\ IF jobs[id].repeat
       THEN armed' = armed \cup {id} /\ UNCHANGED jobs
       ELSE OneShotGoes(id) /\ UNCHANGED armed

Run(r, id) ==
    /\ agenda[r] = <<>>
    /\ id \in fired
    /\ fired' = fired \ {id}
    /\ \/ id \in DOMAIN jobs /\ RunsListed(r, id)
       \/ id \notin DOMAIN jobs /\ UNCHANGED <<agenda, jobs, armed>>
    /\ UNCHANGED <<aliases, nextJob, on, fetching, fromLily, lily, alive, now, typed, firings, events>>

-----------------------------------------------------------------------------
(* fanOut and the triggers.                                                *)

\* Our own events are ignored unless the filter names us.
Mut_SourceMatches(t, s) == t.from \in {None, s}
SourceMatches(t, s) == IF t.from = None THEN s # Me ELSE s = t.from

Rested(t) == t.once = 0 \/ t.lastFired = Never \/ now - t.lastFired >= t.once

\* The filters on recipients, value, pattern and chance hold or not.
Matching(s) == {id \in DOMAIN triggers : SourceMatches(triggers[id], s) /\ Rested(triggers[id])}

Actions(ids) ==
    LET Nth[i \in 0..nextOn] == IF i = 0 THEN <<>>
                                ELSE Nth[i - 1] \o (IF i - 1 \in ids
                                                    THEN <<triggers[i - 1].action>> ELSE <<>>)
    IN Nth[nextOn]

Marked(t) == [from |-> t.from, once |-> t.once, action |-> t.action, lastFired |-> now]

Idle == agenda[FanOut] = <<>>

ReadEvent ==
    /\ Idle /\ fromLily # <<>> /\ Head(fromLily).type = "event"
    /\ fromLily' = Tail(fromLily)
    /\ \E ids \in SUBSET Matching(Head(fromLily).source) :
          /\ triggers' = [id \in DOMAIN triggers |->
                 IF id \in ids THEN Marked(triggers[id]) ELSE triggers[id]]
          /\ firings' = [id \in DOMAIN firings |->
                 IF id \in ids THEN Append(firings[id], [at |-> now, by |-> Head(fromLily).source])
                 ELSE firings[id]]
          /\ Goes(FanOut, Input(Actions(ids)))
    /\ UNCHANGED <<aliases, cron, nextOn, fetching, lily, alive, now, typed, events>>

\* The memo goes to whoever waits for one; otherwise it is shown.
ReadMemo ==
    /\ Idle /\ fromLily # <<>> /\ Head(fromLily).type = "memo"
    /\ fromLily' = Tail(fromLily)
    /\ fetching' = None
    /\ IF fetching = None THEN UNCHANGED agenda
       ELSE Goes(fetching, Input(Memo) \o Tail(agenda[fetching]))
    /\ UNCHANGED <<tables, lily, alive, now, history>>

\* Events is closed and empty: StopAll, then the socket is closed.
Teardown ==
    /\ Idle /\ fromLily = <<>> /\ lily = "lost"
    /\ CancelJobs(DOMAIN jobs)
    /\ lily' = "closed"
    /\ UNCHANGED <<agenda, aliases, nextJob, fired, on, fetching, fromLily, alive, now, history>>

-----------------------------------------------------------------------------
(* The clients, Lily and time.                                             *)

Type(c, line) ==
    /\ c \in alive /\ agenda[c] = <<>>
    /\ typed < MaxTyped
    /\ typed' = typed + 1
    /\ Goes(c, Input(<<line>>))
    /\ UNCHANGED <<tables, fetching, fromLily, lily, alive, now, firings, events>>

SomebodyActs(s) ==
    /\ lily = "open" /\ s # Me
    /\ events[s] < MaxEvents[s]
    /\ fromLily' = Append(fromLily, [type |-> "event", source |-> s])
    /\ events' = [events EXCEPT ![s] = @ + 1]
    /\ UNCHANGED <<agenda, tables, fetching, lily, alive, now, typed, firings>>

LilyLost ==
    /\ lily = "open"
    /\ lily' = "lost"
    /\ UNCHANGED <<agenda, tables, fetching, fromLily, alive, now, history>>

Tick == /\ now < MaxTime
        /\ now' = now + 1
        /\ UNCHANGED <<agenda, tables, fetching, fromLily, lily, alive, history>>

-----------------------------------------------------------------------------
Step(g) == \/ ExpandInput(g) \/ Alias(g) \/ Schedule(g) \/ Cancel(g) \/ Register(g) \/ NotRegistered(g) \/ Clear(g)
           \/ Respond(g) \/ SendLine(g) \/ StartupRefused(g) \/ StartupFetch(g) \/ StartupFails(g)

FanOutReads == ReadEvent \/ ReadMemo \/ Teardown

Next == \/ \E g \in Procs : Step(g)
        \/ StartupSkipped
        \/ \E id \in 0..MaxJobs - 1 : TimerFires(id) \/ \E r \in Runners : Run(r, id)
        \/ FanOutReads
        \/ \E c \in Clients, line \in Inputs : Type(c, line)
        \/ \E s \in Others : SomebodyActs(s)
        \/ LilyLost \/ Tick

Spec == Init /\ [][Next]_vars

\* Goroutines run on, and timers fire; nobody need type, and Lily need not act.
FairSpec ==
    /\ Spec
    /\ \A g \in Procs : WF_vars(Step(g))
    /\ WF_vars(FanOutReads)
    /\ \A id \in 0..MaxJobs - 1 :
          WF_vars(TimerFires(id)) /\ WF_vars(\E r \in Runners : Run(r, id))

-----------------------------------------------------------------------------
(* Properties                                                              *)

\* CronTable: a listed job has its timer running, or a callback on its way to
\* the lock, and never both; no timer runs for a job that is not listed.
EveryJobIsArmedOnce ==
    /\ armed \subseteq DOMAIN jobs
    /\ armed \cap fired = {}
    /\ DOMAIN jobs \subseteq armed \cup fired

\* "Events you send yourself are ignored unless a from filter names you": a
\* trigger fires only for events of other users, or of the one it names, and at
\* most once for each, so however the lines it sends come back as events, no
\* action feeds its own trigger.
NoFeedback ==
    \A id \in DOMAIN triggers : triggers[id].from # Me =>
        /\ \A i \in DOMAIN firings[id] :
              firings[id][i].by \in (IF triggers[id].from = None THEN Others
                                     ELSE {triggers[id].from})
        /\ \A s \in Others : Cardinality({i \in DOMAIN firings[id] : firings[id][i].by = s})
                                <= events[s]

\* "act at most once per interval", whatever the goroutines do in between.
OncePerInterval ==
    \A id \in DOMAIN triggers : \A i \in 1..Len(firings[id]) - 1 :
        firings[id][i + 1].at - firings[id][i].at >= triggers[id].once

\* What triggers obey, whatever readLoops, timers and fanOut do in between.
TriggersObey == NoFeedback /\ OncePerInterval

\* fanOut comes back to its channel: a trigger that runs %startup makes it wait
\* for output it would have to deliver itself, until the fetch times out.
FanOutComesBack == []<>Idle
=============================================================================
