--------------------------- MODULE AutomationProofs ---------------------------
(* Theorems about Automation, for any goroutines, lines and bounds, and, in   *)
(* the second half, about BotSession, for any bounds and page size.           *)
EXTENDS Automatons, SequenceLemmas, WellFoundedInduction

-----------------------------------------------------------------------------
(* The cron table.                                                         *)

\* A listed job is armed or fired, never both, and IDs are not reused.
CronInv ==
    /\ nextJob \in 0..MaxJobs
    /\ DOMAIN jobs \subseteq 0..nextJob - 1
    /\ fired \subseteq 0..nextJob - 1
    /\ EveryJobIsArmedOnce

USE AutomationAssumption

LEMMA CronInit == Init => CronInv
<1> SUFFICES ASSUME Init PROVE CronInv
  OBVIOUS
<1>1. DOMAIN jobs = {}
  BY DEF Init, NoTable
<1> QED BY <1>1 DEF Init, CronInv, EveryJobIsArmedOnce

\* Goroutines change the table only by scheduling and cancelling.
LEMMA StepCron ==
    ASSUME CronInv, NEW g \in Procs, Step(g)
    PROVE  CronInv'
<1> USE DEF CronInv, EveryJobIsArmedOnce, tables, cron, on, history
<1>1. CASE Schedule(g)
  <2>1. /\ DOMAIN jobs' = DOMAIN jobs \cup {nextJob}
        /\ armed' = armed \cup {nextJob} /\ nextJob' = nextJob + 1 /\ fired' = fired
        /\ nextJob < MaxJobs
    BY <1>1 DEF Schedule, Put, NewID
  <2>2. nextJob \notin fired /\ nextJob \notin DOMAIN jobs
    OBVIOUS
  <2> QED BY <2>1, <2>2
<1>2. CASE Cancel(g)
  <2>1. /\ DOMAIN jobs' = DOMAIN jobs \ {Line(g).id} /\ armed' = armed \ {Line(g).id}
        /\ UNCHANGED <<nextJob, fired>>
    BY <1>2 DEF Cancel, CancelJobs, Restrict
  <2> QED BY <2>1
<1>3. CASE UNCHANGED cron
  BY <1>3
<1>4. Schedule(g) \/ Cancel(g) \/ UNCHANGED cron
  BY DEF Step, ExpandInput, Alias, Register, NotRegistered, Clear, Respond, SendLine, StartupRefused,
         StartupFetch, StartupFails
<1> QED BY <1>1, <1>2, <1>3, <1>4

\* A callback runs a listed job once, and puts its timer or its entry right.
LEMMA RunCron ==
    ASSUME CronInv, NEW r \in Runners, NEW id \in 0..MaxJobs - 1, Run(r, id)
    PROVE  CronInv'
<1> USE DEF CronInv, EveryJobIsArmedOnce
<1>0. fired' = fired \ {id} /\ UNCHANGED nextJob /\ id \in fired /\ id \notin armed
  BY DEF Run
<1>1. CASE id \in DOMAIN jobs /\ jobs[id].repeat
  BY <1>0, <1>1 DEF Run, RunsListed
<1>2. CASE id \in DOMAIN jobs /\ ~jobs[id].repeat
  <2>1. DOMAIN jobs' = DOMAIN jobs \ {id} /\ UNCHANGED armed
    BY <1>2 DEF Run, RunsListed, OneShotGoes, Restrict
  <2> QED BY <1>0, <2>1
<1>3. CASE id \notin DOMAIN jobs
  BY <1>0, <1>3 DEF Run
<1> QED BY <1>1, <1>2, <1>3

LEMMA CronStep == CronInv /\ [Next]_vars => CronInv'
<1> SUFFICES ASSUME CronInv, [Next]_vars PROVE CronInv'
  OBVIOUS
<1>1. ASSUME NEW g \in Procs, Step(g) PROVE CronInv'
  BY <1>1, StepCron
<1>2. ASSUME NEW id \in 0..MaxJobs - 1, TimerFires(id) PROVE CronInv'
  BY <1>2 DEF TimerFires, history, CronInv, EveryJobIsArmedOnce
<1>3. ASSUME NEW id \in 0..MaxJobs - 1, NEW r \in Runners, Run(r, id) PROVE CronInv'
  BY <1>3, RunCron
<1>4. CASE Teardown
  <2>1. jobs' = [x \in {} |-> jobs[x]] /\ armed' = armed \ DOMAIN jobs
        /\ UNCHANGED <<nextJob, fired>>
    BY <1>4 DEF Teardown, CancelJobs, Restrict, history
  <2>2. DOMAIN jobs' = {}
    BY <2>1
  <2> QED BY <2>1, <2>2 DEF CronInv, EveryJobIsArmedOnce
<1>5. CASE UNCHANGED cron
  BY <1>5 DEF cron, CronInv, EveryJobIsArmedOnce
<1>6. ASSUME NEW c \in Clients, NEW line \in Inputs, Type(c, line) PROVE UNCHANGED cron
  BY <1>6 DEF Type, tables, cron, history
<1>7. ASSUME NEW s \in Others, SomebodyActs(s) PROVE UNCHANGED cron
  BY <1>7 DEF SomebodyActs, tables, cron, history
<1>8. CASE StartupSkipped \/ ReadEvent \/ ReadMemo \/ LilyLost \/ Tick
  BY <1>5, <1>8 DEF StartupSkipped, ReadEvent, ReadMemo, LilyLost, Tick, tables, cron, history
<1>9. CASE UNCHANGED vars
  BY <1>5, <1>9 DEF vars, tables, cron, history
<1> QED BY <1>1, <1>2, <1>3, <1>4, <1>5, <1>6, <1>7, <1>8, <1>9 DEF Next, FanOutReads

\* Whatever goroutines schedule, cancel and tear down while timers fire, a listed
\* job has its timer running or its callback on the way, and no other job has a
\* timer.
THEOREM JobsAreArmedOnce == Spec => []EveryJobIsArmedOnce
<1>2. CronInv => EveryJobIsArmedOnce
  BY DEF CronInv
<1> QED BY CronInit, <1>2, CronStep, PTL DEF Spec

-----------------------------------------------------------------------------
(* The triggers.                                                           *)

Firings == [at : Nat, by : Sources]
FiredFor(s) == [at : Nat, by : {s}]
EventOf(s) == {[type |-> "event", source |-> s]}

\* Every event of another user is unread, or was read and fired no trigger twice.
EventsAreUsedOnce ==
    \A s \in Others : \A id \in 0..MaxTriggers - 1 :
        Occurrences(firings[id], FiredFor(s)) + Occurrences(fromLily, EventOf(s)) <= events[s]

\* A trigger's lastFired is the time of its last firing.
LastFired(id) == firings[id] = <<>> \/ triggers[id].lastFired = firings[id][Len(firings[id])].at

\* It fired for events that match its filter only.
FiredForSource(id) ==
    triggers[id].from # Me =>
        \A i \in DOMAIN firings[id] :
            firings[id][i].by \in (IF triggers[id].from = None THEN Others
                                   ELSE {triggers[id].from})

Spaced(id) ==
    \A i \in 1..Len(firings[id]) - 1 :
        firings[id][i + 1].at - firings[id][i].at >= triggers[id].once

\* A trigger not yet registered has not fired, and nothing fired in the future.
OnTypes ==
    /\ nextOn \in 0..MaxTriggers
    /\ DOMAIN triggers \subseteq 0..nextOn - 1
    /\ now \in Nat
    /\ events \in [Sources -> Nat]
    /\ fromLily \in Seq(Messages)
    /\ firings \in [0..MaxTriggers - 1 -> Seq(Firings)]
    /\ \A id \in nextOn..MaxTriggers - 1 : firings[id] = <<>>
    /\ \A id \in 0..MaxTriggers - 1 : \A i \in DOMAIN firings[id] : firings[id][i].at <= now

TriggersInv == \A id \in DOMAIN triggers : LastFired(id) /\ FiredForSource(id) /\ Spaced(id)

OnInv == OnTypes /\ TriggersInv /\ EventsAreUsedOnce

LEMMA OnInit == Init => OnInv
<1> SUFFICES ASSUME Init PROVE OnInv
  OBVIOUS
<1>1. DOMAIN triggers = {}
  BY DEF Init, NoTable
<1>2. OnTypes
  BY <1>1 DEF Init, OnTypes
<1>3. EventsAreUsedOnce
  <2>1. \A T : Occurrences(<<>>, T) = 0
    BY CountEmpty
  <2> QED BY <2>1 DEF Init, EventsAreUsedOnce, Sources
<1> QED BY <1>1, <1>2, <1>3 DEF OnInv, TriggersInv

\* Messages put in the queue to fanOut: the memo, or an event that is counted.
LEMMA QueueStep ==
    ASSUME OnInv, UNCHANGED <<on, now, firings>>,
           \/ UNCHANGED <<fromLily, events>>
           \/ fromLily' = Append(fromLily, [type |-> "memo"]) /\ UNCHANGED events
           \/ \E s \in Sources :
                /\ fromLily' = Append(fromLily, [type |-> "event", source |-> s])
                /\ events' = [events EXCEPT ![s] = @ + 1]
    PROVE  OnInv'
<1> USE DEF OnInv, on
<1>0. OnTypes /\ TriggersInv /\ EventsAreUsedOnce
  OBVIOUS
<1>1. TriggersInv'
  BY DEF TriggersInv, LastFired, FiredForSource, Spaced
<1>2. CASE UNCHANGED <<fromLily, events>>
  BY <1>0, <1>1, <1>2 DEF OnTypes, EventsAreUsedOnce
<1>3. CASE fromLily' = Append(fromLily, [type |-> "memo"]) /\ UNCHANGED events
  <2>1. [type |-> "memo"] \in Messages
    BY DEF Messages
  <2>2. \A s \in Others : [type |-> "memo"] \notin EventOf(s)
    <3> SUFFICES ASSUME NEW s \in Others, [type |-> "memo"] \in EventOf(s) PROVE FALSE
      OBVIOUS
    <3>1. [type |-> "memo"] = [type |-> "event", source |-> s]
      BY DEF EventOf
    <3>2. [type |-> "memo"].type = "memo" /\ [type |-> "event", source |-> s].type = "event"
      OBVIOUS
    <3> QED BY <3>1, <3>2
  <2>3. OnTypes'
    BY <1>0, <1>3, <2>1 DEF OnTypes
  <2>4. \A s \in Others : Occurrences(fromLily', EventOf(s)) = Occurrences(fromLily, EventOf(s))
    <3> SUFFICES ASSUME NEW s \in Others
                 PROVE  Occurrences(fromLily', EventOf(s)) = Occurrences(fromLily, EventOf(s))
      OBVIOUS
    <3>1. fromLily \in Seq(Messages)
      BY <1>0 DEF OnTypes
    <3>2. Occurrences(fromLily', EventOf(s)) =
            Occurrences(fromLily, EventOf(s)) + (IF [type |-> "memo"] \in EventOf(s) THEN 1 ELSE 0)
      BY <1>3, <2>1, <3>1, CountAppend
    <3>3. Occurrences(fromLily, EventOf(s)) \in Nat
      BY <3>1, CountType
    <3> QED BY <2>2, <3>2, <3>3
  <2> QED BY <1>0, <1>1, <1>3, <2>3, <2>4 DEF EventsAreUsedOnce
<1>4. ASSUME NEW s \in Sources,
             fromLily' = Append(fromLily, [type |-> "event", source |-> s]),
             events' = [events EXCEPT ![s] = @ + 1]
      PROVE  OnInv'
  <2> DEFINE e == [type |-> "event", source |-> s]
  <2>0. fromLily \in Seq(Messages) /\ events \in [Sources -> Nat]
        /\ firings \in [0..MaxTriggers - 1 -> Seq(Firings)]
    BY <1>0 DEF OnTypes
  <2>1. e \in Messages
    BY DEF Messages
  <2>2. OnTypes'
    BY <1>0, <1>4, <2>1 DEF OnTypes
  <2>3. ASSUME NEW u \in Others, NEW id \in 0..MaxTriggers - 1
        PROVE  Occurrences(firings[id], FiredFor(u)) + Occurrences(fromLily', EventOf(u))
                 <= events'[u]
    <3>1. /\ Occurrences(fromLily, EventOf(u)) \in Nat
          /\ Occurrences(firings[id], FiredFor(u)) \in Nat
      BY <2>0, CountType
    <3>2. Occurrences(fromLily', EventOf(u)) =
            Occurrences(fromLily, EventOf(u)) + (IF e \in EventOf(u) THEN 1 ELSE 0)
      BY <1>4, <2>0, <2>1, CountAppend
    <3>3. e \in EventOf(u) => u = s
      <4>1. e \in EventOf(u) => e.source = u
        BY DEF EventOf
      <4> QED BY <4>1
    <3>4. events'[u] = IF u = s THEN events[u] + 1 ELSE events[u]
      BY <1>4, <2>0 DEF Sources
    <3>5. Occurrences(firings[id], FiredFor(u)) + Occurrences(fromLily, EventOf(u)) <= events[u]
      BY <1>0 DEF EventsAreUsedOnce
    <3>6. events[u] \in Nat
      BY <2>0 DEF Sources
    <3> QED BY <3>1, <3>2, <3>3, <3>4, <3>5, <3>6
  <2> QED BY <1>0, <1>1, <2>2, <2>3 DEF EventsAreUsedOnce
<1> QED BY <1>2, <1>3, <1>4

\* fanOut takes a message: the triggers it fires match it, and are rested.
LEMMA ReadEventOn == ASSUME OnInv, ReadEvent PROVE OnInv'
<1>0. /\ OnTypes /\ TriggersInv /\ EventsAreUsedOnce
      /\ fromLily \in Seq(Messages) /\ fromLily # <<>>
      /\ firings \in [0..MaxTriggers - 1 -> Seq(Firings)]
      /\ now \in Nat /\ events \in [Sources -> Nat] /\ events' = events /\ now' = now
      /\ DOMAIN triggers \subseteq 0..nextOn - 1 /\ nextOn \in 0..MaxTriggers /\ nextOn' = nextOn
      /\ fromLily' = Tail(fromLily)
  BY DEF OnInv, OnTypes, ReadEvent
<1> DEFINE s == Head(fromLily).source
           firing == [at |-> now, by |-> s]
<1>1. s \in Sources /\ Head(fromLily) = [type |-> "event", source |-> s]
  <2>1. Head(fromLily) \in Messages /\ Head(fromLily).type = "event"
    BY <1>0 DEF ReadEvent
  <2>2. Head(fromLily) # [type |-> "memo"]
    BY <2>1
  <2>3. Head(fromLily) \in [type : {"event"}, source : Sources]
    BY <2>1, <2>2 DEF Messages
  <2> QED BY <2>3
<1>2. PICK ids \in SUBSET Matching(s) :
        /\ triggers' = [id \in DOMAIN triggers |->
               IF id \in ids THEN Marked(triggers[id]) ELSE triggers[id]]
        /\ firings' = [id \in DOMAIN firings |->
               IF id \in ids THEN Append(firings[id], firing) ELSE firings[id]]
  BY DEF ReadEvent
<1>3. firing \in Firings
  BY <1>0, <1>1 DEF Firings
<1>4. \A id \in ids : /\ id \in DOMAIN triggers /\ id \in 0..nextOn - 1
                      /\ SourceMatches(triggers[id], s) /\ Rested(triggers[id])
  BY <1>0, <1>2 DEF Matching
<1>5. \A id \in 0..MaxTriggers - 1 :
        /\ id \in ids => firings'[id] = Append(firings[id], firing)
        /\ id \notin ids => firings'[id] = firings[id]
  BY <1>0, <1>2
<1>6. OnTypes'
  <2>1. firings' \in [0..MaxTriggers - 1 -> Seq(Firings)]
    BY <1>0, <1>2, <1>3
  <2>2. fromLily' \in Seq(Messages)
    BY <1>0
  <2>3. DOMAIN triggers' = DOMAIN triggers
    BY <1>2
  <2>4. ASSUME NEW id \in nextOn..MaxTriggers - 1 PROVE firings'[id] = <<>>
    BY <1>0, <1>4, <1>5 DEF OnTypes
  <2>5. ASSUME NEW id \in 0..MaxTriggers - 1, NEW i \in DOMAIN firings'[id]
        PROVE  firings'[id][i].at <= now
    <3>1. firings[id] \in Seq(Firings) /\ \A j \in DOMAIN firings[id] : firings[id][j].at <= now
      BY <1>0 DEF OnTypes
    <3>2. CASE id \in ids
      <4>1. \/ i \in DOMAIN firings[id] /\ firings'[id][i] = firings[id][i]
            \/ firings'[id][i] = firing
        <5> HIDE DEF firing
        <5>1. firings'[id] = Append(firings[id], firing)
          BY <1>5, <3>2
        <5> QED BY <1>3, <2>5, <3>1, <5>1
      <4> QED BY <1>0, <3>1, <4>1
    <3>3. CASE id \notin ids
      BY <1>5, <2>5, <3>1, <3>3
    <3> QED BY <3>2, <3>3
  <2> QED BY <1>0, <2>1, <2>2, <2>3, <2>4, <2>5 DEF OnTypes
<1>7. EventsAreUsedOnce'
  <2> SUFFICES ASSUME NEW u \in Others, NEW id \in 0..MaxTriggers - 1
               PROVE  Occurrences(firings'[id], FiredFor(u))
                        + Occurrences(fromLily', EventOf(u)) <= events[u]
    BY <1>0 DEF EventsAreUsedOnce
  <2>0. /\ firings[id] \in Seq(Firings)
        /\ Occurrences(firings[id], FiredFor(u)) \in Nat
        /\ Occurrences(fromLily', EventOf(u)) \in Nat
        /\ events[u] \in Nat
    BY <1>0, <1>6, CountType DEF OnTypes, Sources
  <2>1. Occurrences(firings[id], FiredFor(u)) + Occurrences(fromLily, EventOf(u)) <= events[u]
    BY <1>0 DEF EventsAreUsedOnce
  <2>2. Occurrences(fromLily, EventOf(u)) =
          Occurrences(fromLily', EventOf(u)) + (IF Head(fromLily) \in EventOf(u) THEN 1 ELSE 0)
    BY <1>0, CountTail
  <2>3. u = s => Head(fromLily) \in EventOf(u)
    BY <1>1 DEF EventOf
  <2>4. Occurrences(firings'[id], FiredFor(u)) <=
          Occurrences(firings[id], FiredFor(u)) + (IF u = s THEN 1 ELSE 0)
    <3>1. CASE id \in ids
      <4>1. Occurrences(firings'[id], FiredFor(u)) =
              Occurrences(firings[id], FiredFor(u)) + (IF firing \in FiredFor(u) THEN 1 ELSE 0)
        <5> HIDE DEF firing
        <5>1. firings'[id] = Append(firings[id], firing)
          BY <1>5, <3>1
        <5>2. Occurrences(Append(firings[id], firing), FiredFor(u)) =
                Occurrences(firings[id], FiredFor(u)) + (IF firing \in FiredFor(u) THEN 1 ELSE 0)
          BY <1>3, <2>0, CountAppend
        <5> QED BY <5>1, <5>2
      <4>2. firing \in FiredFor(u) => u = s
        BY DEF FiredFor
      <4> QED BY <2>0, <4>1, <4>2
    <3>2. CASE id \notin ids
      BY <1>5, <2>0, <3>2
    <3> QED BY <3>1, <3>2
  <2>5. Occurrences(firings'[id], FiredFor(u)) \in Nat
    BY <1>6, CountType DEF OnTypes
  <2> QED BY <2>0, <2>1, <2>2, <2>3, <2>4, <2>5
<1>8. TriggersInv'
  <2> SUFFICES ASSUME NEW id \in DOMAIN triggers'
               PROVE  (LastFired(id) /\ FiredForSource(id) /\ Spaced(id))'
    BY DEF TriggersInv
  <2>0. /\ id \in DOMAIN triggers /\ id \in 0..MaxTriggers - 1
        /\ LastFired(id) /\ FiredForSource(id) /\ Spaced(id)
        /\ firings[id] \in Seq(Firings)
        /\ \A j \in DOMAIN firings[id] : firings[id][j].at <= now /\ firings[id][j].at \in Nat
    <3>1. id \in DOMAIN triggers /\ id \in 0..MaxTriggers - 1
      BY <1>0, <1>2
    <3>2. /\ firings[id] \in Seq(Firings)
          /\ \A j \in DOMAIN firings[id] : firings[id][j].at <= now
      BY <1>0, <3>1 DEF OnTypes
    <3>3. \A j \in DOMAIN firings[id] : firings[id][j] \in Firings
      BY <3>2
    <3> QED BY <1>0, <3>1, <3>2, <3>3 DEF TriggersInv, Firings
  <2>1. CASE id \notin ids
    <3>1. triggers'[id] = triggers[id] /\ firings'[id] = firings[id]
      BY <1>2, <1>5, <2>0, <2>1
    <3> QED BY <2>0, <3>1 DEF LastFired, FiredForSource, Spaced
  <2>2. CASE id \in ids
    <3> DEFINE F == firings[id]
               n == Len(F)
    <3>1. /\ triggers'[id] = Marked(triggers[id])
          /\ firings'[id] = Append(F, firing)
          /\ SourceMatches(triggers[id], s) /\ Rested(triggers[id])
      BY <1>2, <1>4, <1>5, <2>0, <2>2
    <3>2. /\ triggers'[id].lastFired = now
          /\ triggers'[id].once = triggers[id].once
          /\ triggers'[id].from = triggers[id].from
      BY <3>1 DEF Marked
    <3>3. /\ n \in Nat /\ DOMAIN F = 1..n
          /\ DOMAIN firings'[id] = 1..n + 1 /\ Len(firings'[id]) = n + 1
          /\ firings'[id][n + 1] = firing
          /\ \A i \in 1..n : firings'[id][i] = F[i]
      BY <1>3, <2>0, <3>1
    <3>4. LastFired(id)'
      BY <3>2, <3>3 DEF LastFired
    <3>5. FiredForSource(id)'
      <4>1. triggers[id].from # Me =>
              s \in (IF triggers[id].from = None THEN Others ELSE {triggers[id].from})
        BY <1>1, <3>1 DEF SourceMatches, Sources
      <4>2. ASSUME NEW i \in DOMAIN firings'[id]
            PROVE  \/ i \in DOMAIN F /\ firings'[id][i] = F[i]
                   \/ firings'[id][i].by = s
        <5>1. i \in 1..n \/ i = n + 1
          BY <3>3, <4>2
        <5>2. CASE i \in 1..n
          BY <3>3, <5>2
        <5>3. CASE i = n + 1
          <6>1. firings'[id][i] = firing
            BY <3>3, <5>3
          <6> QED BY <6>1
        <5> QED BY <5>1, <5>2, <5>3
      <4> QED BY <2>0, <3>2, <4>1, <4>2 DEF FiredForSource
    <3>6. Spaced(id)'
      <4>1. ASSUME n # 0 PROVE firing.at - F[n].at >= triggers[id].once
        <5>1. triggers[id].lastFired = F[n].at /\ F[n].at \in Nat /\ F[n].at <= now
          <6>1. F # <<>> /\ n \in DOMAIN F
            BY <3>3, <4>1
          <6> QED BY <2>0, <6>1 DEF LastFired
        <5>2. now - F[n].at >= 0
          BY <1>0, <5>1
        <5>3. triggers[id].lastFired # Never
          BY <5>1 DEF Never
        <5>4. triggers[id].once = 0 \/ now - F[n].at >= triggers[id].once
          BY <3>1, <5>1, <5>3 DEF Rested
        <5>5. firing.at = now
          OBVIOUS
        <5> QED BY <5>2, <5>4, <5>5
      <4>2. ASSUME NEW i \in 1..Len(firings'[id]) - 1
            PROVE  firings'[id][i + 1].at - firings'[id][i].at >= triggers'[id].once
        <5>1. CASE i = n
          BY <3>2, <3>3, <4>1, <5>1
        <5>2. CASE i # n
          <6>1. i \in 1..n - 1 /\ i + 1 \in 1..n /\ i \in 1..n
            BY <3>3, <4>2, <5>2
          <6>2. F[i + 1].at - F[i].at >= triggers[id].once
            BY <2>0, <6>1 DEF Spaced
          <6> QED BY <3>2, <3>3, <6>1, <6>2
        <5> QED BY <5>1, <5>2
      <4> QED BY <4>2 DEF Spaced
    <3> QED BY <3>4, <3>5, <3>6
  <2> QED BY <2>1, <2>2
<1> QED BY <1>6, <1>7, <1>8 DEF OnInv

\* Only an event counts.
LEMMA ReadMemoOn == ASSUME OnInv, ReadMemo PROVE OnInv'
<1>0. /\ OnTypes /\ TriggersInv /\ EventsAreUsedOnce
      /\ fromLily \in Seq(Messages) /\ fromLily # <<>>
      /\ firings \in [0..MaxTriggers - 1 -> Seq(Firings)] /\ events \in [Sources -> Nat]
      /\ UNCHANGED <<triggers, nextOn, now, firings, events>>
      /\ fromLily' = Tail(fromLily)
  BY DEF OnInv, OnTypes, ReadMemo, tables, history
<1>1. OnTypes'
  <2>1. fromLily' \in Seq(Messages)
    BY <1>0
  <2> QED BY <1>0, <2>1 DEF OnTypes
<1>2. TriggersInv'
  BY <1>0 DEF TriggersInv, LastFired, FiredForSource, Spaced
<1>3. ASSUME NEW s \in Others, NEW id \in 0..MaxTriggers - 1
      PROVE  Occurrences(firings[id], FiredFor(s)) + Occurrences(fromLily', EventOf(s)) <= events[s]
  <2>1. Occurrences(fromLily', EventOf(s)) <= Occurrences(fromLily, EventOf(s))
    <3>1. /\ Occurrences(fromLily, EventOf(s)) =
               Occurrences(fromLily', EventOf(s)) + (IF Head(fromLily) \in EventOf(s) THEN 1 ELSE 0)
          /\ Occurrences(fromLily', EventOf(s)) \in Nat
      BY <1>0, <1>1, CountTail, CountType DEF OnTypes
    <3> QED BY <3>1
  <2>2. /\ Occurrences(fromLily, EventOf(s)) \in Nat
        /\ Occurrences(fromLily', EventOf(s)) \in Nat
        /\ Occurrences(firings[id], FiredFor(s)) \in Nat
        /\ events[s] \in Nat
    BY <1>0, <1>1, CountType DEF OnTypes, Sources
  <2>3. Occurrences(firings[id], FiredFor(s)) + Occurrences(fromLily, EventOf(s)) <= events[s]
    BY <1>0 DEF EventsAreUsedOnce
  <2> QED BY <2>1, <2>2, <2>3
<1> QED BY <1>0, <1>1, <1>2, <1>3 DEF OnInv, EventsAreUsedOnce

\* %on and its removal: a new trigger has not fired.
LEMMA RegisterOn ==
    ASSUME OnInv, NEW g \in Procs, Register(g) \/ Clear(g)
    PROVE  OnInv'
<1>0. /\ OnTypes /\ TriggersInv /\ EventsAreUsedOnce
      /\ UNCHANGED <<now, events, fromLily, firings>>
  BY DEF OnInv, Register, Clear, history
<1>1. EventsAreUsedOnce'
  BY <1>0 DEF EventsAreUsedOnce
<1>2. CASE Register(g)
  <2>1. /\ nextOn' = nextOn + 1 /\ nextOn \in 0..MaxTriggers - 1
        /\ DOMAIN triggers' = DOMAIN triggers \cup {nextOn}
        /\ \A id \in DOMAIN triggers : id # nextOn => triggers'[id] = triggers[id]
    BY <1>0, <1>2 DEF Register, Put, OnTypes
  <2>2. firings[nextOn] = <<>> /\ nextOn \notin DOMAIN triggers
    BY <1>0, <2>1 DEF OnTypes
  <2>3. OnTypes'
    BY <1>0, <2>1 DEF OnTypes
  <2>4. TriggersInv'
    <3>1. ASSUME NEW id, id = nextOn
          PROVE  LastFired(id)' /\ FiredForSource(id)' /\ Spaced(id)'
      <4>1. firings'[id] = <<>>
        BY <1>0, <2>2, <3>1
      <4> QED BY <4>1 DEF LastFired, FiredForSource, Spaced
    <3>2. ASSUME NEW id \in DOMAIN triggers
          PROVE  LastFired(id)' /\ FiredForSource(id)' /\ Spaced(id)'
      <4>1. triggers'[id] = triggers[id] /\ firings'[id] = firings[id]
        BY <1>0, <2>1, <2>2, <3>2
      <4> QED BY <1>0, <4>1 DEF TriggersInv, LastFired, FiredForSource, Spaced
    <3>3. \A id \in DOMAIN triggers' : LastFired(id)' /\ FiredForSource(id)' /\ Spaced(id)'
      BY <2>1, <3>1, <3>2
    <3> QED BY <3>3 DEF TriggersInv
  <2> QED BY <1>1, <2>3, <2>4 DEF OnInv
<1>3. CASE Clear(g)
  <2>1. /\ DOMAIN triggers' = DOMAIN triggers \ {Line(g).id} /\ nextOn' = nextOn
        /\ \A id \in DOMAIN triggers' : triggers'[id] = triggers[id]
    BY <1>3 DEF Clear, Restrict
  <2>2. OnTypes'
    BY <1>0, <2>1 DEF OnTypes
  <2>3. TriggersInv'
    BY <1>0, <2>1 DEF TriggersInv, LastFired, FiredForSource, Spaced
  <2> QED BY <1>1, <2>2, <2>3 DEF OnInv
<1> QED BY <1>2, <1>3

LEMMA OnStep == OnInv /\ [Next]_vars => OnInv'
<1> SUFFICES ASSUME OnInv, [Next]_vars PROVE OnInv'
  OBVIOUS
<1> USE DEF tables, on, history
<1>1. ASSUME NEW g \in Procs, Step(g) PROVE OnInv'
  <2>1. CASE Register(g) \/ Clear(g)
    BY <2>1, RegisterOn
  <2>2. CASE SendLine(g)
    <3>1. UNCHANGED <<on, now, firings>>
      BY <2>2 DEF SendLine
    <3>2. \/ UNCHANGED <<fromLily, events>>
          \/ /\ fromLily' = Append(fromLily, [type |-> "event", source |-> Me])
             /\ events' = [events EXCEPT ![Me] = @ + 1]
      BY <2>2 DEF SendLine
    <3> QED BY <3>1, <3>2, QueueStep DEF Sources
  <2>3. CASE StartupFetch(g)
    BY <2>3, QueueStep DEF StartupFetch
  <2>4. CASE \/ ExpandInput(g) \/ Alias(g) \/ Schedule(g) \/ Cancel(g) \/ NotRegistered(g)
             \/ Respond(g) \/ StartupRefused(g) \/ StartupFails(g)
    BY <2>4, QueueStep DEF ExpandInput, Alias, Schedule, Cancel, NotRegistered, Respond,
                           StartupRefused, StartupFails
  <2> QED BY <1>1, <2>1, <2>2, <2>3, <2>4 DEF Step
<1>2. CASE \/ StartupSkipped \/ Teardown \/ LilyLost
           \/ \E id \in 0..MaxJobs - 1 : TimerFires(id) \/ \E r \in Runners : Run(r, id)
           \/ \E c \in Clients, line \in Inputs : Type(c, line)
           \/ UNCHANGED vars
  BY <1>2, QueueStep DEF StartupSkipped, Teardown, LilyLost, TimerFires, Run, Type, vars
<1>3. CASE ReadEvent
  BY <1>3, ReadEventOn
<1>4. CASE ReadMemo
  BY <1>4, ReadMemoOn
<1>5. ASSUME NEW s \in Others, SomebodyActs(s) PROVE OnInv'
  BY <1>5, QueueStep DEF SomebodyActs, Sources
<1>6. CASE Tick
  <2>1. now' = now + 1 /\ UNCHANGED <<triggers, nextOn, fromLily, events, firings>>
    BY <1>6 DEF Tick
  <2>2. OnTypes'
    <3>1. OnTypes
      BY DEF OnInv
    <3>2. ASSUME NEW id \in 0..MaxTriggers - 1, NEW i \in DOMAIN firings[id]
          PROVE  firings[id][i].at <= now + 1
      <4>1. firings[id] \in Seq(Firings) /\ now \in Nat /\ firings[id][i].at <= now
        BY <3>1, <3>2 DEF OnTypes
      <4>2. firings[id][i] \in Firings
        BY <3>2, <4>1
      <4>3. firings[id][i].at \in Nat
        BY <4>2 DEF Firings
      <4> QED BY <4>1, <4>3
    <3> QED BY <2>1, <3>1, <3>2 DEF OnTypes
  <2>3. TriggersInv' /\ EventsAreUsedOnce'
    BY <2>1 DEF OnInv, TriggersInv, LastFired, FiredForSource, Spaced, EventsAreUsedOnce
  <2> QED BY <2>2, <2>3 DEF OnInv
<1> QED BY <1>1, <1>2, <1>3, <1>4, <1>5, <1>6 DEF Next, FanOutReads

\* No trigger fires but for an event that matches its filter, once for each at
\* most and not more often than once per interval, whatever goroutines run what
\* it sent, and however that comes back as events.
THEOREM TriggersStayInBounds == Spec => []TriggersObey
<1>1. ASSUME OnInv PROVE TriggersObey
  <2>1. ASSUME NEW id \in DOMAIN triggers, triggers[id].from # Me, NEW s \in Others
        PROVE  Cardinality({i \in DOMAIN firings[id] : firings[id][i].by = s}) <= events[s]
    <3>1. id \in 0..MaxTriggers - 1 /\ firings[id] \in Seq(Firings) /\ events[s] \in Nat
      BY <1>1 DEF OnInv, OnTypes, Sources
    <3>2. {i \in DOMAIN firings[id] : firings[id][i].by = s}
            = {i \in DOMAIN firings[id] : firings[id][i] \in FiredFor(s)}
      <4>1. ASSUME NEW i \in DOMAIN firings[id]
            PROVE  firings[id][i].by = s <=> firings[id][i] \in FiredFor(s)
        <5>1. firings[id][i] \in Firings
          BY <3>1, <4>1
        <5> QED BY <5>1 DEF Firings, FiredFor
      <4> QED BY <4>1
    <3>3. Occurrences(firings[id], FiredFor(s)) + Occurrences(fromLily, EventOf(s)) <= events[s]
      BY <1>1, <3>1 DEF OnInv, EventsAreUsedOnce
    <3>4. Occurrences(firings[id], FiredFor(s)) \in Nat /\ Occurrences(fromLily, EventOf(s)) \in Nat
      BY <1>1, <3>1, CountType DEF OnInv, OnTypes
    <3>5. Occurrences(firings[id], FiredFor(s)) <= events[s]
      BY <3>1, <3>3, <3>4
    <3> QED BY <3>2, <3>5 DEF Occurrences
  <2> QED BY <1>1, <2>1 DEF OnInv, TriggersInv, FiredForSource, Spaced, TriggersObey,
                            NoFeedback, OncePerInterval
<1> QED BY OnInit, OnStep, <1>1, PTL DEF Spec

-----------------------------------------------------------------------------
(* The Python bot beside it (BotSession).                                     *)

IDs == 1..Len(log)

\* A set of numbers has a least one.
LEMMA Least ==
    ASSUME NEW A \in SUBSET Nat, A # {}
    PROVE  \E k \in A : \A j \in A : k <= j
<1> DEFINE R == OpToRel(<, Nat)
<1>1. IsWellFoundedOn(R, Nat)
  BY NatLessThanWellFounded
<1>2. PICK k \in A : \A j \in A : <<j, k>> \notin R
  <2> HIDE DEF R
  <2> QED BY <1>1, WFMin
<1>3. R = {ss \in Nat \X Nat : ss[1] < ss[2]}
  BY Zenon DEF OpToRel
<1>4. \A j \in A : ~(j < k)
  <2> HIDE DEF R
  <2> QED BY <1>2, <1>3
<1>5. \A j \in A : j \in Nat
  OBVIOUS
<1>6. k \in A
  BY <1>2
<1>7. ASSUME NEW j \in A
      PROVE  k <= j
  <2>1. j \in Nat /\ k \in Nat
    BY <1>5, <1>6
  <2>2. ~(j < k)
    BY <1>4
  <2> HIDE DEF R
  <2> QED BY <2>1, <2>2, SMT
<1>8. \A j \in A : k <= j
  BY <1>7
<1> QED BY <1>6, <1>8, Zenon

\* In order are the members of the set, each of its size many.
LEMMA InOrderType ==
    ASSUME NEW n \in Nat, NEW S \in SUBSET (1..n)
    PROVE  /\ Bot!InOrder(S) \in Seq(1..n)
           /\ \A m \in DOMAIN Bot!InOrder(S) : Bot!InOrder(S)[m] \in S
<1> DEFINE Upto(k) == {j \in S : j <= k}
<1>0. \A j \in S : j \in Nat /\ 1 <= j /\ j <= n
  OBVIOUS
<1>1. IsFiniteSet(S) /\ Cardinality(S) \in Nat
  <2>1. IsFiniteSet(1..n)
    BY FS_Interval
  <2> QED BY <2>1, FS_Subset, FS_CardinalityType
<1>2. \A k \in 0..n : IsFiniteSet(Upto(k)) /\ Cardinality(Upto(k)) \in Nat
  BY <1>1, FS_Subset, FS_CardinalityType
<1>3. ASSUME NEW m \in 1..Cardinality(S)
      PROVE  \E i \in S : Cardinality({j \in S : j <= i}) = m
  <2> DEFINE A == {k \in 0..n : Cardinality(Upto(k)) >= m}
  <2>1. Upto(n) = S
    BY <1>0
  <2>2. n \in A
    <3>1. Cardinality(Upto(n)) >= m
      BY <2>1, <1>1
    <3> QED BY <3>1
  <2>3. A \in SUBSET Nat /\ A # {}
    <3>1. A \subseteq 0..n
      OBVIOUS
    <3> HIDE DEF A
    <3> QED BY <2>2, <3>1
  <2>4. PICK k \in A : \A j \in A : k <= j
    <3> HIDE DEF A
    <3> QED BY <2>3, Least
  <2>5. Upto(0) = {} /\ Cardinality({}) = 0
    <3>0. \A j \in S : ~(j <= 0)
      BY <1>0
    <3>1. Upto(0) = {}
      BY <3>0
    <3> QED BY <3>1, FS_EmptySet
  <2>6. k \in 1..n /\ Cardinality(Upto(k)) >= m
    <3>1. k \in 0..n /\ Cardinality(Upto(k)) >= m
      BY <2>4
    <3>2. k # 0
      BY <3>1, <2>5
    <3> QED BY <3>1, <3>2
  <2>7. k - 1 \in 0..n /\ ~(Cardinality(Upto(k - 1)) >= m)
    <3>1. k - 1 \in 0..n /\ ~(k <= k - 1)
      BY <2>6
    <3>2. k - 1 \notin A
      <4> HIDE DEF A
      <4> QED BY <2>4, <3>1
    <3> QED BY <3>1, <3>2
  <2> k \in Nat
    BY <2>6
  <2>8. CASE k \notin S
    <3>1. \A j \in S : j <= k <=> j <= k - 1
      BY <1>0, <2>8
    <3>2. Upto(k) = Upto(k - 1)
      BY <3>1
    <3> QED BY <3>2, <2>6, <2>7
  <2>9. CASE k \in S
    <3>0. \A j \in S : j <= k <=> (j <= k - 1 \/ j = k)
      BY <1>0
    <3>1. Upto(k) = Upto(k - 1) \cup {k} /\ k \notin Upto(k - 1)
      BY <3>0, <2>9, ~(k <= k - 1)
    <3> HIDE DEF Upto
    <3>2. Cardinality(Upto(k)) = Cardinality(Upto(k - 1)) + 1
      BY <3>1, <1>2, <2>7, FS_AddElement
    <3>3. Cardinality(Upto(k)) = m
      BY <3>2, <1>2, <2>6, <2>7
    <3> QED BY <3>3, <2>9 DEF Upto
  <2> QED BY <2>8, <2>9
<1>4. \A T : Bot!Cardinality(T) = Cardinality(T)
  BY Zenon DEF Bot!Cardinality, Cardinality
<1> DEFINE c(m) == CHOOSE i \in S : Bot!Cardinality({j \in S : j <= i}) = m
<1>5. Bot!InOrder(S) = [m \in 1..Bot!Cardinality(S) |-> c(m)]
  BY Zenon DEF Bot!InOrder
<1>6. \A m \in 1..Cardinality(S) : c(m) \in S
  BY <1>3, <1>4
<1>7. S \subseteq 1..n
  OBVIOUS
<1> HIDE DEF c
<1>8. /\ DOMAIN Bot!InOrder(S) = 1..Cardinality(S)
      /\ \A m \in 1..Cardinality(S) : Bot!InOrder(S)[m] \in S
  BY <1>4, <1>5, <1>6
<1>9. Bot!InOrder(S) \in Seq(1..n)
  <2>1. \A m \in 1..Cardinality(S) : c(m) \in 1..n
    BY <1>6, <1>7
  <2>2. Bot!InOrder(S) = [m \in 1..Cardinality(S) |-> c(m)]
    BY <1>4, <1>5
  <2> QED BY <1>1, <2>1, <2>2
<1> QED BY <1>8, <1>9

-----------------------------------------------------------------------------
\* What is published names commands that ran, and the open prompt is among it.
LogOK ==
    /\ log \in Seq(Bot!Message)
    /\ \A i \in IDs : log[i].k = "result" => log[i].c \in Bot!Commands
    /\ asked \in Seq(Bot!Commands)
    /\ prompting = "open" => \E i \in IDs : log[i].k = "prompt"

\* What the bot has of IDs are IDs of this session.
Within ==
    /\ chan \in Seq(IDs) /\ queue \in Seq(IDs) /\ early \in Seq(IDs)
    /\ cursor \in 0..Len(log) /\ prompt \in 0..Len(log)
    /\ highwater \in 0..Len(log) /\ seen \in 0..Len(log)
    /\ answered \subseteq IDs

\* A session is opened by a bot that holds nothing of the one before.
AtAuth ==
    /\ session \in Nat /\ token \in 0..session
    /\ pc = "auth" => sock = "none" /\ chan = <<>> /\ queue = <<>> /\ early = <<>>

\* The mark is at or above all that was given out.
OrderInv ==
    /\ yielded \in Seq(Nat) /\ scannedTo \in 0..highwater
    /\ \A i \in DOMAIN yielded : yielded[i] <= highwater /\ yielded[i] > scannedTo
    /\ Bot!YieldedOnceInOrder
    /\ pc = "scan" => yielded = <<>>

\* A prompt is marked before its line is sent.
AnswersInv ==
    /\ answers \in Seq(Nat)
    /\ \A i \in DOMAIN answers : answers[i] \in answered
    /\ Bot!PromptAnsweredOnce

\* The command that waits, and those to come, have no output yet.
ClaimsInv ==
    /\ issued \in 0..MaxCommands /\ waiter \in 0..issued
    /\ got \in [Bot!Commands -> Nat]
    /\ \A c \in Bot!Commands : c > issued \/ c = waiter => got[c] = 0

\* What was published since the stream began waits in order and above the mark.
InLine(ch, mark) ==
    /\ \A j, k \in DOMAIN ch : j < k /\ ch[j] > streamFrom => ch[j] < ch[k]
    /\ \A k \in DOMAIN ch : ch[k] > streamFrom => ch[k] > mark

Reached(i) ==
    \/ \E k \in DOMAIN chan : chan[k] = i
    \/ \E k \in DOMAIN yielded : yielded[k] = i
    \/ \E k \in DOMAIN answers : answers[k] = i
    \/ log[i].k = "result" /\ \E c \in Bot!Commands : got[c] = log[i].c

StreamInv ==
    pc = "stream" /\ sock = "up" =>
        /\ streamFrom \in Nat
        /\ InLine(chan, highwater)
        /\ \A i \in answered : i > streamFrom => \E k \in DOMAIN answers : answers[k] = i
        /\ \A i \in (streamFrom + 1)..Len(log) : Reached(i)

HeldInv == LogOK /\ Within /\ AtAuth
BotInv == HeldInv /\ OrderInv /\ AnswersInv /\ ClaimsInv /\ StreamInv

LEMMA BotInit == Bot!BotAssumption /\ Bot!Init => BotInv
<1> SUFFICES ASSUME Bot!BotAssumption, Bot!Init PROVE BotInv
  OBVIOUS
<1>1. PICK past \in {<<>>, <<"event">>, <<"event", "prompt">>} :
         /\ log = [i \in DOMAIN past |-> Bot!Msg(past[i], 0)]
         /\ seen \in {0, 1} \cap 0..Len(past)
         /\ session = (IF past = <<>> THEN 0 ELSE 1)
         /\ prompting = (IF Len(past) = 2 THEN "open" ELSE "none")
  BY DEF Bot!Init
<1>2. /\ asked = <<>> /\ token = 0 /\ highwater = 0 /\ answered = {}
      /\ sock = "none" /\ chan = <<>> /\ pc = "auth"
      /\ cursor = 0 /\ queue = <<>> /\ early = <<>> /\ prompt = 0
      /\ waiter = 0 /\ issued = 0 /\ got = [c \in Bot!Commands |-> 0]
      /\ yielded = <<>> /\ answers = <<>> /\ scannedTo = 0
  BY DEF Bot!Init
<1>3. /\ log \in Seq(Bot!Message) /\ Len(log) = Len(past)
      /\ \A i \in IDs : log[i].k # "result"
      /\ prompting = "open" => \E i \in IDs : log[i].k = "prompt"
  <2>1. CASE past = <<>>
    BY <1>1, <2>1 DEF IDs
  <2>2. CASE past = <<"event">>
    BY <1>1, <2>2 DEF IDs, Bot!Msg, Bot!Message
  <2>3. CASE past = <<"event", "prompt">>
    BY <1>1, <2>3 DEF IDs, Bot!Msg, Bot!Message
  <2> QED BY <1>1, <2>1, <2>2, <2>3
<1>4. Len(log) \in Nat
  BY <1>3
<1>5. LogOK /\ Within /\ AtAuth
  <2>1. LogOK
    BY <1>2, <1>3 DEF LogOK
  <2>2. seen \in 0..Len(log) /\ session \in Nat
    BY <1>1, <1>3
  <2>3. Within
    BY <1>2, <1>4, <2>2 DEF Within
  <2> QED BY <1>2, <2>1, <2>2, <2>3 DEF AtAuth
<1>6. OrderInv /\ AnswersInv /\ StreamInv
  BY <1>2 DEF OrderInv, AnswersInv, StreamInv, Bot!YieldedOnceInOrder, Bot!PromptAnsweredOnce
<1>7. ClaimsInv
  BY <1>2 DEF ClaimsInv, Bot!BotAssumption, Bot!Commands
<1> QED BY <1>5, <1>6, <1>7 DEF BotInv, HeldInv

-----------------------------------------------------------------------------
\* At most a line is said, and goes to the end of the log and of the socket.
Spoken(ch) ==
    \/ UNCHANGED <<log, prompting, asked, sock>> /\ chan' = ch
    \/ \E c \in {0} \cup Bot!Commands : Bot!Said(c, ch)

LEMMA SeqGrows ==
    ASSUME NEW m \in Nat, NEW n \in Nat, m <= n, NEW s \in Seq(1..m)
    PROVE  s \in Seq(1..n)
OBVIOUS

\* How the log grows, whoever publishes.
LEMMA PublishedLog ==
    ASSUME LogOK, NEW m \in Bot!Message, log' = Append(log, m),
           m.k = "result" => m.c \in Bot!Commands,
           asked' \in Seq(Bot!Commands),
           prompting' = "open" => prompting = "open" \/ m.k = "prompt"
    PROVE  /\ LogOK'
           /\ Len(log) \in Nat /\ Len(log') = Len(log) + 1
           /\ \A i \in IDs : i \in IDs' /\ log'[i] = log[i]
<1>1. /\ Len(log) \in Nat /\ Len(log') = Len(log) + 1 /\ log' \in Seq(Bot!Message)
      /\ log'[Len(log) + 1] = m /\ \A i \in 1..Len(log) : log'[i] = log[i]
  BY DEF LogOK
<1>2. \A i \in 1..Len(log') : i \in 1..Len(log) \/ i = Len(log) + 1
  BY <1>1
<1>3. \A i \in IDs : i \in IDs' /\ log'[i] = log[i]
  BY <1>1 DEF IDs
<1>4. Len(log) + 1 \in IDs'
  BY <1>1 DEF IDs
<1>5. \A i \in IDs' : log'[i].k = "result" => log'[i].c \in Bot!Commands
  BY <1>1, <1>2 DEF LogOK, IDs
<1>6. prompting' = "open" => \E i \in IDs' : log'[i].k = "prompt"
  BY <1>1, <1>3, <1>4 DEF LogOK
<1> QED BY <1>1, <1>3, <1>5, <1>6 DEF LogOK

LEMMA SpokenLog ==
    ASSUME LogOK, NEW ch \in Seq(IDs), Spoken(ch)
    PROVE  /\ LogOK' /\ chan' \in Seq(IDs')
           /\ Len(log) \in Nat /\ Len(log') \in Nat /\ Len(log) <= Len(log')
           /\ \A i \in IDs : i \in IDs' /\ log'[i] = log[i]
           /\ \/ Len(log') = Len(log) /\ chan' = ch
              \/ Len(log') = Len(log) + 1 /\ chan' = Append(ch, Len(log) + 1)
<1>0. Len(log) \in Nat
  BY DEF LogOK
<1>1. CASE UNCHANGED <<log, prompting, asked, sock>> /\ chan' = ch
  BY <1>0, <1>1 DEF LogOK, IDs
<1>2. ASSUME NEW c \in {0} \cup Bot!Commands, Bot!Said(c, ch)
      PROVE  /\ LogOK' /\ chan' \in Seq(IDs')
             /\ Len(log') = Len(log) + 1 /\ chan' = Append(ch, Len(log) + 1)
             /\ \A i \in IDs : i \in IDs' /\ log'[i] = log[i]
  <2> DEFINE m == Bot!Msg("input", 0)
  <2>1. m \in Bot!Message /\ m.k = "input"
    BY DEF Bot!Msg, Bot!Message
  <2>2. log' = Append(log, m) /\ chan' = Append(ch, Len(log) + 1)
    BY <1>2 DEF Bot!Said
  <2>3. asked' \in Seq(Bot!Commands)
    <3>1. c > 0 => c \in Bot!Commands
      OBVIOUS
    <3> QED BY <1>2, <3>1 DEF Bot!Said, LogOK
  <2>4. prompting' = "open" => prompting = "open"
    BY <1>2 DEF Bot!Said
  <2> HIDE DEF m
  <2>5. /\ LogOK' /\ Len(log') = Len(log) + 1
        /\ \A i \in IDs : i \in IDs' /\ log'[i] = log[i]
    BY <2>1, <2>2, <2>3, <2>4, PublishedLog
  <2>6. ch \in Seq(IDs') /\ Len(log) + 1 \in IDs'
    BY <1>0, <2>5, SeqGrows DEF IDs
  <2>7. chan' \in Seq(IDs')
    <3> DEFINE J == IDs'
    <3> HIDE DEF J
    <3>1. ch \in Seq(J) /\ Len(log) + 1 \in J
      BY <2>6 DEF J
    <3>2. Append(ch, Len(log) + 1) \in Seq(J)
      BY <3>1
    <3> QED BY <2>2, <3>2 DEF J
  <2> QED BY <2>2, <2>5, <2>7
<1> QED BY <1>0, <1>1, <1>2 DEF Spoken

LEMMA HeldGrows ==
    ASSUME HeldInv, LogOK', Len(log') \in Nat, Len(log) <= Len(log'),
           chan' \in Seq(IDs'), queue' \in Seq(IDs), early' \in Seq(IDs),
           cursor' \in 0..Len(log), prompt' \in 0..Len(log), seen' \in 0..Len(log),
           highwater' \in 0..Len(log), answered' \subseteq IDs,
           UNCHANGED <<session, token>>,
           pc' = "auth" => sock' = "none" /\ chan' = <<>> /\ queue' = <<>> /\ early' = <<>>
    PROVE  HeldInv'
<1>1. Len(log) \in Nat
  BY DEF HeldInv, LogOK
<1>2. queue' \in Seq(IDs') /\ early' \in Seq(IDs')
  BY <1>1, SeqGrows DEF IDs
<1>3. IDs \subseteq IDs' /\ 0..Len(log) \subseteq 0..Len(log')
  <2>1. \A m, n \in Nat : m <= n => 1..m \subseteq 1..n /\ 0..m \subseteq 0..n
    OBVIOUS
  <2>2. 1..Len(log) \subseteq 1..Len(log') /\ 0..Len(log) \subseteq 0..Len(log')
    BY <1>1, <2>1
  <2> QED BY <2>2 DEF IDs
<1>4. Within'
  BY <1>2, <1>3 DEF Within
<1>5. AtAuth'
  BY DEF HeldInv, AtAuth
<1> QED BY <1>4, <1>5 DEF HeldInv

\* Only a prompt that is not marked is answered, and it is marked.
LEMMA AnswerOnce ==
    ASSUME AnswersInv, NEW id \in Nat, NEW ch, NEW open \in BOOLEAN,
           Bot!AnswerPrompt(id, ch, open)
    PROVE  /\ AnswersInv' /\ Spoken(ch)
           /\ answered \subseteq answered' /\ answered' \subseteq answered \cup {id}
           /\ \A k \in DOMAIN answers : k \in DOMAIN answers' /\ answers'[k] = answers[k]
           /\ open => \A i \in answered' \ answered : \E k \in DOMAIN answers' : answers'[k] = i
           /\ id \in answered'
<1>1. CASE UNCHANGED answers /\ Bot!Unsaid(ch) /\ answered' \in {answered, answered \cup {id}}
  <2>1. AnswersInv'
    BY <1>1 DEF AnswersInv, Bot!PromptAnsweredOnce
  <2>2. Spoken(ch)
    BY <1>1 DEF Spoken, Bot!Unsaid
  <2>3. open => answered' = answered
    BY <1>1 DEF Bot!AnswerPrompt, Bot!Fresh
  <2>4. id \in answered'
    BY <1>1 DEF Bot!AnswerPrompt, Bot!Fresh
  <2> QED BY <1>1, <2>1, <2>2, <2>3, <2>4
<1>2. CASE /\ id \notin answered /\ answered' = answered \cup {id}
           /\ Bot!Said(0, ch) /\ answers' = Append(answers, id)
  <2>1. /\ answers' \in Seq(Nat) /\ Len(answers) + 1 \in DOMAIN answers'
        /\ answers'[Len(answers) + 1] = id
        /\ \A i \in DOMAIN answers : i \in DOMAIN answers' /\ answers'[i] = answers[i]
        /\ \A i \in DOMAIN answers' : \/ i = Len(answers) + 1
                                      \/ i \in DOMAIN answers /\ answers'[i] = answers[i]
    BY <1>2, AppendAt DEF AnswersInv
  <2>2. \A i \in DOMAIN answers : answers[i] \in answered /\ answers[i] # id
    BY <1>2 DEF AnswersInv
  <2>3. Bot!PromptAnsweredOnce'
    BY <2>1, <2>2 DEF AnswersInv, Bot!PromptAnsweredOnce
  <2>4. \A i \in DOMAIN answers' : answers'[i] \in answered'
    BY <1>2, <2>1, <2>2
  <2>5. AnswersInv'
    BY <2>1, <2>3, <2>4 DEF AnswersInv
  <2>6. Spoken(ch)
    BY <1>2 DEF Spoken
  <2> QED BY <1>2, <2>1, <2>5, <2>6
<1> QED BY <1>1, <1>2 DEF Bot!AnswerPrompt, Bot!Fresh

LEMMA LargerIs ==
    ASSUME NEW a \in Nat, NEW b \in Nat
    PROVE  /\ Bot!Larger(a, b) \in {a, b} /\ Bot!Larger(a, b) \in Nat
           /\ Bot!Larger(a, b) >= a /\ Bot!Larger(a, b) >= b
           /\ a < b => Bot!Larger(a, b) = b
BY DEF Bot!Larger

\* What _handle leaves in order, for whichever caller.
LEMMA HandleStep ==
    ASSUME HeldInv, AnswersInv, ClaimsInv, NEW id \in IDs, NEW ch \in Seq(IDs),
           Bot!Handle(id, ch), UNCHANGED issued
    PROVE  /\ Spoken(ch) /\ AnswersInv' /\ ClaimsInv'
           /\ highwater' = Bot!Larger(highwater, id) /\ highwater' \in 0..Len(log)
           /\ answered' \subseteq IDs
<1>1. id \in Nat /\ Len(log) \in Nat /\ highwater \in Nat /\ highwater <= Len(log) /\ id <= Len(log)
  BY DEF HeldInv, LogOK, Within, IDs
<1>2. highwater' = Bot!Larger(highwater, id) /\ highwater' \in 0..Len(log)
  BY <1>1 DEF Bot!Handle, Bot!Larger
<1>3. Spoken(ch) /\ AnswersInv' /\ answered' \subseteq answered \cup {id}
  <2>1. CASE Bot!AnswerPrompt(id, ch, sock = "up")
    BY <1>1, <2>1, AnswerOnce
  <2>2. CASE Bot!Unsaid(ch) /\ UNCHANGED <<answered, answers>>
    BY <2>2 DEF Spoken, Bot!Unsaid, AnswersInv, Bot!PromptAnsweredOnce
  <2> QED BY <2>1, <2>2 DEF Bot!Handle
<1>4. answered' \subseteq IDs
  BY <1>3 DEF HeldInv, Within
<1>5. ClaimsInv'
  <2>1. CASE waiter' = waiter /\ got' = got
    BY <2>1 DEF ClaimsInv
  <2>2. CASE waiter # 0 /\ waiter' = 0 /\ log[id].k = "result" /\ got' = [got EXCEPT ![waiter] = log[id].c]
    <3>1. log[id].c \in Nat
      BY <2>2 DEF HeldInv, LogOK, Bot!Commands
    <3>2. 0 \notin Bot!Commands
      BY DEF Bot!Commands
    <3>3. waiter <= issued /\ \A c \in Bot!Commands : c > issued => got'[c] = got[c]
      BY <2>2 DEF ClaimsInv, Bot!Commands
    <3>4. got' \in [Bot!Commands -> Nat]
      BY <2>2, <3>1 DEF ClaimsInv
    <3>5. issued \in Nat
      BY DEF ClaimsInv
    <3> QED BY <2>2, <3>2, <3>3, <3>4, <3>5 DEF ClaimsInv
  <2> QED BY <2>1, <2>2 DEF Bot!Handle, Bot!Claimed, Bot!Kind
<1> QED BY <1>2, <1>3, <1>4, <1>5

\* What is given out is above the mark and becomes the mark.
LEMMA YieldInOrder ==
    ASSUME OrderInv, NEW id \in Nat, highwater \in Nat,
           highwater' = Bot!Larger(highwater, id), scannedTo' = scannedTo,
           \/ yielded' = yielded
           \/ id > highwater /\ yielded' = Append(yielded, id),
           pc' # "scan"
    PROVE  OrderInv'
<1>1. highwater' \in Nat /\ highwater' >= highwater /\ highwater' >= id /\ scannedTo \in Nat
  BY LargerIs DEF OrderInv
<1>2. CASE yielded' = yielded
  <2>1. \A i \in DOMAIN yielded : yielded[i] \in Nat
    BY DEF OrderInv
  <2> QED BY <1>1, <1>2, <2>1 DEF OrderInv, Bot!YieldedOnceInOrder
<1>3. CASE id > highwater /\ yielded' = Append(yielded, id)
  <2>1. /\ yielded' \in Seq(Nat) /\ yielded'[Len(yielded) + 1] = id
        /\ \A i \in DOMAIN yielded : i < Len(yielded) + 1 /\ yielded'[i] = yielded[i] /\ i \in Nat
        /\ \A i \in DOMAIN yielded' : \/ i = Len(yielded) + 1
                                      \/ i \in DOMAIN yielded /\ yielded'[i] = yielded[i]
        /\ Len(yielded) \in Nat
    BY <1>3, AppendAt DEF OrderInv
  <2>2. \A i \in DOMAIN yielded : /\ yielded[i] \in Nat /\ yielded[i] <= highwater
                                  /\ yielded[i] > scannedTo /\ yielded[i] < id
    BY <1>3 DEF OrderInv
  <2>3. id > scannedTo /\ scannedTo' \in 0..highwater'
    BY <1>1, <1>3 DEF OrderInv
  <2>4. \A i \in DOMAIN yielded' : yielded'[i] <= highwater' /\ yielded'[i] > scannedTo'
    BY <1>1, <2>1, <2>2, <2>3
  <2>5. Bot!YieldedOnceInOrder'
    <3>1. SUFFICES ASSUME NEW i \in DOMAIN yielded', NEW j \in DOMAIN yielded', i < j
                   PROVE  yielded'[i] < yielded'[j]
      BY DEF Bot!YieldedOnceInOrder
    <3>2. i \in DOMAIN yielded
      BY <2>1, <3>1
    <3>3. CASE j = Len(yielded) + 1
      BY <2>1, <2>2, <3>2, <3>3
    <3>4. CASE j \in DOMAIN yielded
      BY <2>1, <3>1, <3>2, <3>4 DEF OrderInv, Bot!YieldedOnceInOrder
    <3> QED BY <2>1, <3>3, <3>4
  <2> QED BY <2>1, <2>3, <2>4, <2>5 DEF OrderInv
<1> QED BY <1>2, <1>3

LEMMA InLineTail ==
    ASSUME NEW ch \in Seq(Nat), ch # <<>>, NEW mark \in Nat, streamFrom \in Nat,
           InLine(ch, mark)
    PROVE  InLine(Tail(ch), Bot!Larger(mark, Head(ch)))
<1>1. /\ 1 \in DOMAIN ch /\ Head(ch) = ch[1] /\ Head(ch) \in Nat
      /\ \A i \in DOMAIN Tail(ch) : i \in Nat \ {0} /\ i + 1 \in DOMAIN ch /\ Tail(ch)[i] = ch[i + 1]
  BY TailAt
<1>2. \A i \in DOMAIN ch : ch[i] \in Nat
  OBVIOUS
<1>3. ASSUME NEW j \in DOMAIN Tail(ch), NEW k \in DOMAIN Tail(ch), j < k, Tail(ch)[j] > streamFrom
      PROVE  Tail(ch)[j] < Tail(ch)[k]
  <2>1. j + 1 < k + 1
    BY <1>1, <1>3
  <2> QED BY <1>1, <1>3, <2>1 DEF InLine
<1>4. ASSUME NEW k \in DOMAIN Tail(ch), Tail(ch)[k] > streamFrom
      PROVE  Tail(ch)[k] > Bot!Larger(mark, Head(ch))
  <2>1. Tail(ch)[k] = ch[k + 1] /\ k + 1 \in DOMAIN ch /\ 1 < k + 1 /\ ch[k + 1] \in Nat
    BY <1>1, <1>2
  <2>2. ch[k + 1] > mark
    BY <1>4, <2>1 DEF InLine
  <2>3. ch[k + 1] > ch[1]
    <3>1. CASE ch[1] > streamFrom
      BY <1>1, <2>1, <3>1 DEF InLine
    <3>2. CASE ~(ch[1] > streamFrom)
      BY <1>1, <1>2, <1>4, <2>1, <3>2
    <3> QED BY <3>1, <3>2
  <2> QED BY <1>1, <2>1, <2>2, <2>3, LargerIs
<1> QED BY <1>3, <1>4 DEF InLine

LEMMA InLineAppend ==
    ASSUME NEW n \in Nat, NEW ch \in Seq(1..n), NEW mark \in 0..n, InLine(ch, mark)
    PROVE  InLine(Append(ch, n + 1), mark)
<1>1. /\ Append(ch, n + 1)[Len(ch) + 1] = n + 1 /\ Len(ch) \in Nat
      /\ \A i \in DOMAIN ch : i \in Nat /\ i < Len(ch) + 1 /\ Append(ch, n + 1)[i] = ch[i] /\ ch[i] <= n /\ ch[i] \in Nat
      /\ \A i \in DOMAIN Append(ch, n + 1) :
            \/ i = Len(ch) + 1
            \/ i \in DOMAIN ch /\ Append(ch, n + 1)[i] = ch[i]
  <2>1. ch \in Seq(1..(n + 1)) /\ n + 1 \in 1..(n + 1)
    BY SeqGrows
  <2> QED BY <2>1, AppendAt
<1>2. ASSUME NEW j \in DOMAIN Append(ch, n + 1), NEW k \in DOMAIN Append(ch, n + 1), j < k,
             Append(ch, n + 1)[j] > streamFrom
      PROVE  Append(ch, n + 1)[j] < Append(ch, n + 1)[k]
  <2>1. j \in DOMAIN ch
    BY <1>1, <1>2
  <2>2. CASE k = Len(ch) + 1
    BY <1>1, <2>1, <2>2
  <2>3. CASE k \in DOMAIN ch
    BY <1>1, <1>2, <2>1, <2>3 DEF InLine
  <2> QED BY <1>1, <2>2, <2>3
<1>3. ASSUME NEW k \in DOMAIN Append(ch, n + 1), Append(ch, n + 1)[k] > streamFrom
      PROVE  Append(ch, n + 1)[k] > mark
  BY <1>1, <1>3 DEF InLine
<1> QED BY <1>2, <1>3 DEF InLine

\* While the bot does other things, what is published joins the line.
LEMMA StreamKeeps ==
    ASSUME StreamInv, HeldInv, pc' = pc, sock' = "up" => sock = "up",
           UNCHANGED <<streamFrom, highwater, answered, answers, yielded, got>>,
           \A i \in IDs : log'[i] = log[i],
           \/ Len(log') = Len(log) /\ chan' = chan
           \/ Len(log') = Len(log) + 1 /\ chan' = Append(chan, Len(log) + 1)
    PROVE  StreamInv'
<1> SUFFICES ASSUME pc = "stream", sock = "up"
             PROVE  /\ InLine(chan, highwater)'
                    /\ \A i \in (streamFrom + 1)..Len(log') : Reached(i)'
  BY DEF StreamInv
<1>1. Len(log) \in Nat /\ chan \in Seq(IDs) /\ highwater \in 0..Len(log) /\ streamFrom \in Nat
  BY DEF HeldInv, LogOK, Within, StreamInv
<1>2. InLine(chan, highwater) /\ \A i \in (streamFrom + 1)..Len(log) : Reached(i)
  BY DEF StreamInv
<1>3. CASE Len(log') = Len(log) /\ chan' = chan
  <2>1. InLine(chan, highwater)'
    BY <1>2, <1>3 DEF InLine
  <2>2. ASSUME NEW i \in (streamFrom + 1)..Len(log') PROVE Reached(i)'
    <3>1. i \in IDs /\ log'[i] = log[i] /\ Reached(i)
      BY <1>1, <1>2, <1>3 DEF IDs
    <3> QED BY <1>3, <3>1 DEF Reached
  <2> QED BY <2>1, <2>2
<1>4. CASE Len(log') = Len(log) + 1 /\ chan' = Append(chan, Len(log) + 1)
  <2> DEFINE ch == Append(chan, Len(log) + 1)
  <2>1. InLine(ch, highwater)
    BY <1>1, <1>2, InLineAppend DEF IDs
  <2>2. InLine(chan, highwater)'
    BY <1>4, <2>1 DEF InLine
  <2>3. /\ Len(chan) + 1 \in DOMAIN ch /\ ch[Len(chan) + 1] = Len(log) + 1
        /\ \A k \in DOMAIN chan : k \in DOMAIN ch /\ ch[k] = chan[k]
    <3>1. chan \in Seq(Nat) /\ Len(log) + 1 \in Nat
      BY <1>1 DEF IDs
    <3> QED BY <3>1, AppendAt
  <2>4. ASSUME NEW i \in (streamFrom + 1)..Len(log') PROVE Reached(i)'
    <3>1. CASE i = Len(log) + 1
      BY <1>4, <2>3, <3>1 DEF Reached
    <3>2. CASE i \in (streamFrom + 1)..Len(log)
      <4>1. i \in IDs /\ log'[i] = log[i] /\ Reached(i)
        BY <1>1, <1>2, <3>2 DEF IDs
      <4> QED BY <1>4, <2>3, <4>1 DEF Reached
    <3> QED BY <1>1, <1>4, <3>1, <3>2
  <2> QED BY <2>2, <2>4
<1> QED BY <1>3, <1>4

\* Lily, the proxy and the network leave the bot alone.
LEMMA PublishStep ==
    ASSUME BotInv, NEW m \in Bot!Message, Bot!Publish(m),
           m.k = "result" => m.c \in Bot!Commands,
           asked' \in Seq(Bot!Commands),
           prompting' = "open" => prompting = "open" \/ m.k = "prompt",
           UNCHANGED <<session, seen, sock, Bot!bot>>
    PROVE  BotInv'
<1> USE DEF Bot!bot, Bot!fetched, Bot!commands, BotInv
<1>1. log' = Append(log, m) /\ chan' = IF sock = "up" THEN Append(chan, Len(log) + 1) ELSE chan
  BY DEF Bot!Publish
<1>2. /\ LogOK' /\ Len(log) \in Nat /\ Len(log') = Len(log) + 1
      /\ \A i \in IDs : i \in IDs' /\ log'[i] = log[i]
  BY <1>1, PublishedLog DEF HeldInv
<1>3. chan' \in Seq(IDs')
  <2> DEFINE J == IDs'
  <2>1. chan \in Seq(J) /\ Len(log) + 1 \in J
    BY <1>2, SeqGrows DEF HeldInv, Within, IDs
  <2> HIDE DEF J
  <2>2. chan' \in Seq(J)
    BY <1>1, <2>1
  <2> QED BY <2>2 DEF J
<1>4. HeldInv'
  <2>1. pc' = "auth" => sock' = "none" /\ chan' = <<>> /\ queue' = <<>> /\ early' = <<>>
    BY <1>1 DEF HeldInv, AtAuth
  <2>2. /\ queue' \in Seq(IDs) /\ early' \in Seq(IDs)
        /\ cursor' \in 0..Len(log) /\ prompt' \in 0..Len(log) /\ seen' \in 0..Len(log)
        /\ highwater' \in 0..Len(log) /\ answered' \subseteq IDs
    BY DEF HeldInv, Within
  <2>3. UNCHANGED <<session, token>>
    OBVIOUS
  <2>4. Len(log') \in Nat /\ Len(log) <= Len(log')
    BY <1>2
  <2> QED BY <1>2, <1>3, <2>1, <2>2, <2>3, <2>4, HeldGrows
<1>5. OrderInv' /\ AnswersInv' /\ ClaimsInv'
  BY DEF OrderInv, AnswersInv, ClaimsInv, Bot!YieldedOnceInOrder, Bot!PromptAnsweredOnce
<1>6. StreamInv'
  <2>1. CASE sock = "up"
    BY <1>1, <1>2, <2>1, StreamKeeps
  <2>2. CASE sock # "up"
    BY <2>2 DEF StreamInv
  <2> QED BY <2>1, <2>2
<1> QED BY <1>4, <1>5, <1>6

LEMMA WorldSpeaks ==
    ASSUME BotInv,
           Bot!Speaks \/ Bot!Asks \/ Bot!Answers \/ Bot!Closes
    PROVE  BotInv'
<1>0. LogOK
  BY DEF BotInv, HeldInv
<1>1. CASE Bot!Speaks
  <2>1. Bot!Msg("event", 0) \in Bot!Message /\ Bot!Msg("event", 0).k = "event"
    BY DEF Bot!Msg, Bot!Message
  <2>2. Bot!Publish(Bot!Msg("event", 0)) /\ UNCHANGED <<session, seen, sock, Bot!bot, asked, prompting>>
    BY <1>1 DEF Bot!Speaks, Bot!proxy
  <2> QED BY <1>0, <2>1, <2>2, PublishStep DEF LogOK
<1>2. CASE Bot!Asks
  <2>1. Bot!Msg("prompt", 0) \in Bot!Message /\ Bot!Msg("prompt", 0).k = "prompt"
    BY DEF Bot!Msg, Bot!Message
  <2>2. Bot!Publish(Bot!Msg("prompt", 0)) /\ UNCHANGED <<session, seen, sock, Bot!bot, asked>>
    BY <1>2 DEF Bot!Asks, Bot!proxy
  <2> QED BY <1>0, <2>1, <2>2, PublishStep DEF LogOK
<1>3. CASE Bot!Answers
  <2>1. Head(asked) \in Bot!Commands /\ asked' \in Seq(Bot!Commands)
    BY <1>0, <1>3 DEF LogOK, Bot!Answers
  <2>2. UNCHANGED <<session, seen, sock, Bot!bot, prompting>>
    BY <1>3 DEF Bot!Answers, Bot!proxy
  <2>3. CASE Bot!Publish(Bot!Msg("result", Head(asked)))
    <3>1. /\ Bot!Msg("result", Head(asked)) \in Bot!Message
          /\ Bot!Msg("result", Head(asked)).c \in Bot!Commands
          /\ Bot!Msg("result", Head(asked)).k = "result"
      BY <2>1 DEF Bot!Msg, Bot!Message
    <3> QED BY <2>1, <2>2, <2>3, <3>1, PublishStep
  <2>4. CASE UNCHANGED <<log, chan>>
    <3>1. HeldInv'
      BY <2>1, <2>2, <2>4 DEF BotInv, HeldInv, LogOK, Within, AtAuth, IDs, Bot!bot, Bot!fetched
    <3>2. OrderInv' /\ AnswersInv' /\ ClaimsInv'
      BY <2>2 DEF BotInv, OrderInv, AnswersInv, ClaimsInv, Bot!YieldedOnceInOrder,
                  Bot!PromptAnsweredOnce, Bot!bot, Bot!commands
    <3>3. StreamInv'
      BY <2>2, <2>4, StreamKeeps DEF BotInv, Bot!bot, Bot!commands
    <3> QED BY <3>1, <3>2, <3>3 DEF BotInv
  <2> QED BY <1>3, <2>3, <2>4 DEF Bot!Answers
<1>4. CASE Bot!Closes
  <2>1. Bot!Msg("closed", 0) \in Bot!Message /\ Bot!Msg("closed", 0).k = "closed"
    BY DEF Bot!Msg, Bot!Message
  <2>2. Bot!Publish(Bot!Msg("closed", 0)) /\ UNCHANGED <<session, seen, sock, Bot!bot, asked, prompting>>
    BY <1>4 DEF Bot!Closes
  <2> QED BY <1>0, <2>1, <2>2, PublishStep DEF LogOK
<1> QED BY <1>1, <1>2, <1>3, <1>4

LEMMA TroubleStep ==
    ASSUME BotInv, Bot!Teardown \/ Bot!Drop \/ Bot!ProxyExits
    PROVE  BotInv'
<1>1. UNCHANGED <<session, seen, log, prompting, asked, Bot!bot>>
  <2>1. CASE Bot!Teardown
    BY <2>1 DEF Bot!Teardown, Bot!said
  <2>2. CASE Bot!Drop
    BY <2>2 DEF Bot!Drop, Bot!proxy
  <2>3. CASE Bot!ProxyExits
    BY <2>3 DEF Bot!ProxyExits
  <2> QED BY <2>1, <2>2, <2>3
<1>2. UNCHANGED <<sock, chan>> \/ (sock = "up" /\ sock' = "down" /\ chan' \in Seq(IDs))
  <2>1. CASE Bot!Drop
    <3>1. PICK n \in 0..Len(chan) : chan' = SubSeq(chan, 1, n)
      BY <2>1 DEF Bot!Drop
    <3>2. chan \in Seq(IDs)
      BY DEF BotInv, HeldInv, Within
    <3>3. chan' \in Seq(IDs)
      BY <3>1, <3>2
    <3> QED BY <2>1, <3>3 DEF Bot!Drop
  <2>2. CASE Bot!Teardown \/ Bot!ProxyExits
    BY <2>2 DEF Bot!Teardown, Bot!ProxyExits, Bot!said, BotInv, HeldInv, Within
  <2> QED BY <2>1, <2>2
<1>3. HeldInv'
  BY <1>1, <1>2 DEF BotInv, HeldInv, LogOK, Within, AtAuth, IDs, Bot!bot, Bot!fetched
<1>4. OrderInv' /\ AnswersInv' /\ ClaimsInv'
  BY <1>1 DEF BotInv, OrderInv, AnswersInv, ClaimsInv, Bot!YieldedOnceInOrder,
              Bot!PromptAnsweredOnce, Bot!bot, Bot!commands
<1>5. StreamInv'
  <2>1. CASE UNCHANGED <<sock, chan>>
    BY <1>1, <2>1, StreamKeeps DEF BotInv, Bot!bot, Bot!commands
  <2>2. CASE sock' = "down"
    BY <2>2 DEF StreamInv
  <2> QED BY <1>2, <2>1, <2>2
<1> QED BY <1>3, <1>4, <1>5 DEF BotInv

-----------------------------------------------------------------------------
\* The steps of a bot that does not stream change what the proofs above speak of
\* in few ways: it only has to hold IDs of this session, in order.
LEMMA HeldIsEnough ==
    ASSUME HeldInv', OrderInv', AnswersInv', ClaimsInv', pc' # "stream"
    PROVE  BotInv'
BY DEF BotInv, StreamInv

LEMMA SpeakStep ==
    ASSUME HeldInv, NEW ch \in Seq(IDs), Spoken(ch),
           queue' \in Seq(IDs), early' \in Seq(IDs),
           cursor' \in 0..Len(log), prompt' \in 0..Len(log), seen' \in 0..Len(log),
           highwater' \in 0..Len(log), answered' \subseteq IDs,
           UNCHANGED <<session, token>>, pc' # "auth"
    PROVE  HeldInv'
<1>1. LogOK' /\ chan' \in Seq(IDs') /\ Len(log') \in Nat /\ Len(log) <= Len(log')
  BY SpokenLog DEF HeldInv
<1> QED BY <1>1, HeldGrows

\* A page of events holds IDs of the session.
LEMMA PageOK ==
    ASSUME Bot!BotAssumption, HeldInv
    PROVE  Bot!Page \in Seq(IDs) /\ Bot!Reached \in 0..Len(log)
<1>1. Len(log) \in Nat /\ DOMAIN log = IDs /\ cursor \in 0..Len(log)
  BY DEF HeldInv, LogOK, Within, IDs
<1>2. Bot!Kept(cursor) \in SUBSET (1..Len(log))
  BY <1>1 DEF Bot!Kept, IDs
<1>3. Bot!New \in Seq(IDs)
  BY <1>1, <1>2, InOrderType DEF Bot!New, IDs
<1>4. EVENTS_PAGE \in Nat \ {0}
  BY DEF Bot!BotAssumption
<1>5. Bot!Page \in Seq(IDs)
  <2>1. CASE Bot!More
    <3>1. EVENTS_PAGE <= Len(Bot!New)
      BY <1>3, <1>4, <2>1 DEF Bot!More
    <3>2. SubSeq(Bot!New, 1, EVENTS_PAGE) \in Seq(IDs)
      BY <1>3, <1>4, <3>1
    <3> QED BY <2>1, <3>2 DEF Bot!Page
  <2>2. CASE ~Bot!More
    BY <1>3, <2>2 DEF Bot!Page
  <2> QED BY <2>1, <2>2
<1>6. Bot!Page # <<>> => Bot!Last(Bot!Page) \in IDs
  <2> DEFINE s == Bot!Page
  <2> HIDE DEF s
  <2>1. s \in Seq(IDs)
    BY <1>5 DEF s
  <2>2. s # <<>> => s[Len(s)] \in IDs
    BY <2>1
  <2> QED BY <2>2 DEF s, Bot!Last
<1> QED BY <1>1, <1>5, <1>6 DEF Bot!Reached, IDs

LEMMA AuthStep ==
    ASSUME BotInv, Bot!Auth
    PROVE  BotInv'
<1>1. /\ HeldInv /\ LogOK /\ Within /\ OrderInv /\ AnswersInv /\ ClaimsInv
      /\ sock = "none" /\ chan = <<>> /\ queue = <<>> /\ early = <<>>
      /\ session \in Nat /\ token \in 0..session
  BY DEF BotInv, HeldInv, AtAuth, Bot!Auth
<1>2. /\ UNCHANGED <<sock, chan, queue, early>> /\ UNCHANGED <<waiter, issued, got>>
      /\ UNCHANGED streamFrom
  BY DEF Bot!Auth, Bot!commands
<1>3. ClaimsInv'
  BY <1>1, <1>2 DEF ClaimsInv
<1>4. ASSUME pc' \in {"lost", "stopped"},
             UNCHANGED <<session, seen, log, prompting, asked, token, highwater, answered,
                         yielded, answers, scannedTo, cursor, prompt>>
      PROVE  BotInv'
  <2>1. HeldInv'
    BY <1>1, <1>2, <1>4 DEF HeldInv, LogOK, Within, AtAuth, IDs
  <2>2. OrderInv' /\ AnswersInv'
    BY <1>1, <1>4 DEF OrderInv, AnswersInv, Bot!YieldedOnceInOrder, Bot!PromptAnsweredOnce
  <2> QED BY <1>3, <1>4, <2>1, <2>2, HeldIsEnough
<1>5. ASSUME Bot!Opens,
             isNew' = (session' # token), token' = session',
             IF isNew' THEN highwater' = 0 /\ answered' = {}
             ELSE UNCHANGED <<highwater, answered>>,
             IF isNew' THEN yielded' = <<>> /\ answers' = <<>> /\ scannedTo' = 0
             ELSE UNCHANGED <<yielded, answers, scannedTo>>,
             pc' = IF isNew' THEN "scan" ELSE IF highwater' > 0 THEN "backfill" ELSE "connect",
             cursor' = IF isNew' THEN 0 ELSE highwater',
             prompt' = 0
      PROVE  BotInv'
  <2>1. \/ UNCHANGED <<session, seen, log, prompting, asked>>
        \/ /\ session' = session + 1 /\ log' = <<>> /\ seen' = 0
           /\ prompting' = "none" /\ asked' = <<>>
    BY <1>5 DEF Bot!Opens
  <2>2. LogOK' /\ seen' \in 0..Len(log') /\ session' \in Nat /\ Len(log') \in Nat
    <3>1. CASE UNCHANGED <<session, seen, log, prompting, asked>>
      BY <1>1, <3>1 DEF LogOK, Within, IDs
    <3>2. CASE /\ session' = session + 1 /\ log' = <<>> /\ seen' = 0
               /\ prompting' = "none" /\ asked' = <<>>
      BY <1>1, <3>2 DEF LogOK, IDs
    <3> QED BY <2>1, <3>1, <3>2
  <2>3. isNew' \in BOOLEAN /\ (~isNew' => log' = log)
    <3>1. session + 1 # token
      BY <1>1
    <3> QED BY <1>5, <2>1, <3>1
  <2>4. /\ highwater' \in 0..Len(log') /\ answered' \subseteq IDs'
        /\ cursor' \in 0..Len(log') /\ prompt' \in 0..Len(log')
    <3>1. CASE isNew'
      BY <1>5, <2>2, <3>1
    <3>2. CASE ~isNew'
      <4>1. highwater' = highwater /\ answered' = answered /\ cursor' = highwater' /\ prompt' = 0
        BY <1>5, <3>2
      <4>2. log' = log
        BY <2>3, <3>2
      <4>3. IDs' = IDs
        BY <4>2 DEF IDs
      <4> QED BY <1>1, <2>2, <4>1, <4>2, <4>3 DEF Within
    <3> QED BY <2>3, <3>1, <3>2
  <2>5. Within'
    BY <1>1, <1>2, <2>2, <2>4 DEF Within
  <2>6. AtAuth'
    BY <1>5, <2>2, <2>3 DEF AtAuth
  <2>7. OrderInv' /\ AnswersInv'
    <3>1. CASE isNew'
      <4>1. highwater' = 0 /\ yielded' = <<>> /\ answers' = <<>> /\ scannedTo' = 0
        BY <1>5, <3>1
      <4>2. OrderInv'
        BY <4>1 DEF OrderInv, Bot!YieldedOnceInOrder
      <4> QED BY <4>1, <4>2 DEF AnswersInv, Bot!PromptAnsweredOnce
    <3>2. CASE ~isNew'
      BY <1>1, <1>5, <3>2 DEF OrderInv, AnswersInv, Bot!YieldedOnceInOrder, Bot!PromptAnsweredOnce
    <3> QED BY <2>3, <3>1, <3>2
  <2>8. pc' # "stream"
    BY <1>5
  <2>9. HeldInv'
    BY <2>2, <2>5, <2>6 DEF HeldInv
  <2> QED BY <1>3, <2>7, <2>8, <2>9, HeldIsEnough
<1>6. \/ /\ Bot!Opens
         /\ isNew' = (session' # token) /\ token' = session'
         /\ IF isNew' THEN highwater' = 0 /\ answered' = {}
            ELSE UNCHANGED <<highwater, answered>>
         /\ IF isNew' THEN yielded' = <<>> /\ answers' = <<>> /\ scannedTo' = 0
            ELSE UNCHANGED <<yielded, answers, scannedTo>>
         /\ pc' = IF isNew' THEN "scan" ELSE IF highwater' > 0 THEN "backfill" ELSE "connect"
         /\ cursor' = IF isNew' THEN 0 ELSE highwater'
         /\ prompt' = 0
      \/ /\ pc' \in {"lost", "stopped"}
         /\ UNCHANGED <<session, seen, log, prompting, asked, token, highwater, answered,
                        yielded, answers, scannedTo, cursor, prompt>>
  BY DEF Bot!Auth, Bot!Lost, Bot!proxy, Bot!Renumbered
<1> QED BY <1>4, <1>5, <1>6

LEMMA ScanStep ==
    ASSUME Bot!BotAssumption, BotInv, Bot!ScanHistory
    PROVE  BotInv'
<1>1. /\ HeldInv /\ LogOK /\ Within /\ AtAuth /\ OrderInv /\ AnswersInv /\ ClaimsInv
      /\ yielded = <<>> /\ pc = "scan"
  BY DEF BotInv, HeldInv, OrderInv, Bot!ScanHistory
<1>2. /\ UNCHANGED <<session, seen, log, prompting, asked, sock, chan, token>>
      /\ UNCHANGED <<answered, queue, early, waiter, issued, got, yielded, answers>>
  BY DEF Bot!ScanHistory, Bot!proxy, Bot!said, Bot!commands
<1>3. Bot!Page \in Seq(IDs) /\ Bot!Reached \in 0..Len(log) /\ Len(log) \in Nat
  BY <1>1, PageOK DEF LogOK
<1>4. Bot!Pending(Bot!Page) \in 0..Len(log)
  <2> DEFINE page == Bot!Page
             turns == {i \in Bot!Range(page) : Bot!Kind(i) \in {"prompt", "input"}}
             open == {i \in turns : Bot!Kind(i) = "prompt" /\ \A j \in turns : j <= i}
  <2>1. \A i \in Bot!Range(page) : i \in IDs
    <3> HIDE DEF page
    <3>1. page \in Seq(IDs)
      BY <1>3 DEF page
    <3> QED BY <3>1 DEF Bot!Range
  <2>2. open \subseteq IDs
    BY <2>1
  <2>3. Bot!Pending(page) = IF turns = {} THEN prompt ELSE IF open = {} THEN 0 ELSE CHOOSE i \in open : TRUE
    BY DEF Bot!Pending
  <2> HIDE DEF open, turns, page
  <2>4. open # {} => (CHOOSE i \in open : TRUE) \in IDs
    BY <2>2
  <2>5. prompt \in 0..Len(log) /\ 0 \in 0..Len(log) /\ IDs \subseteq 0..Len(log)
    BY <1>1, <1>3 DEF Within, IDs
  <2>6. Bot!Pending(page) \in 0..Len(log)
    BY <2>3, <2>4, <2>5
  <2> QED BY <2>6 DEF page
<1>5. \/ /\ prompt' = Bot!Pending(Bot!Page) /\ cursor' = Bot!Reached
         /\ UNCHANGED <<pc, highwater, scannedTo>>
      \/ /\ prompt' = Bot!Pending(Bot!Page) /\ cursor' = 0
         /\ highwater' = Bot!Reached /\ scannedTo' = highwater' /\ pc' = "connect"
      \/ pc' = "lost" /\ UNCHANGED <<prompt, cursor, highwater, scannedTo>>
  BY DEF Bot!ScanHistory, Bot!Lost
<1>6. /\ prompt' \in 0..Len(log) /\ cursor' \in 0..Len(log) /\ highwater' \in 0..Len(log)
      /\ pc' \notin {"auth", "stream"}
  <2>1. prompt \in 0..Len(log) /\ cursor \in 0..Len(log) /\ highwater \in 0..Len(log) /\ 0 \in 0..Len(log)
    BY <1>1, <1>3 DEF Within
  <2> QED BY <1>1, <1>3, <1>4, <1>5, <2>1
<1>7. HeldInv'
  <2>1. LogOK'
    BY <1>1, <1>2 DEF LogOK, IDs
  <2>2. Within'
    BY <1>1, <1>2, <1>6 DEF Within, IDs
  <2>3. AtAuth'
    BY <1>1, <1>2, <1>6 DEF AtAuth
  <2> QED BY <2>1, <2>2, <2>3 DEF HeldInv
<1>8. OrderInv'
  <2>1. yielded' = <<>>
    BY <1>1, <1>2
  <2>2. scannedTo' \in 0..highwater'
    <3>1. scannedTo \in 0..highwater
      BY <1>1 DEF OrderInv
    <3>2. CASE scannedTo' = highwater'
      BY <1>6, <1>3, <3>2
    <3>3. CASE UNCHANGED <<highwater, scannedTo>>
      BY <3>1, <3>3
    <3> QED BY <1>5, <3>2, <3>3
  <2> QED BY <2>1, <2>2 DEF OrderInv, Bot!YieldedOnceInOrder
<1>9. AnswersInv' /\ ClaimsInv'
  BY <1>1, <1>2 DEF AnswersInv, ClaimsInv, Bot!PromptAnsweredOnce
<1> QED BY <1>6, <1>7, <1>8, <1>9, HeldIsEnough

LEMMA BackfillStep ==
    ASSUME Bot!BotAssumption, BotInv, Bot!FetchBackfill
    PROVE  BotInv'
<1>1. /\ HeldInv /\ LogOK /\ Within /\ AtAuth /\ OrderInv /\ AnswersInv /\ ClaimsInv
      /\ pc = "backfill"
  BY DEF BotInv, HeldInv, Bot!FetchBackfill
<1>2. /\ UNCHANGED <<session, seen, log, prompting, asked, sock, chan, token, highwater, answered>>
      /\ UNCHANGED <<early, prompt, waiter, issued, got, yielded, answers, scannedTo>>
  BY DEF Bot!FetchBackfill, Bot!proxy, Bot!said, Bot!commands
<1>3. Bot!Page \in Seq(IDs) /\ Bot!Reached \in 0..Len(log) /\ Len(log) \in Nat
  BY <1>1, PageOK DEF LogOK
<1>4. /\ queue' = queue \/ queue' = queue \o Bot!Page
      /\ cursor' \in {cursor, 0, Bot!Reached}
      /\ pc' \notin {"auth", "stream", "scan"}
  BY <1>1 DEF Bot!FetchBackfill, Bot!Lost
<1>5. queue' \in Seq(IDs) /\ cursor' \in 0..Len(log)
  <2> DEFINE s == Bot!Page
  <2> HIDE DEF s
  <2>1. queue \in Seq(IDs) /\ s \in Seq(IDs) /\ cursor \in 0..Len(log)
    BY <1>1, <1>3 DEF Within, s
  <2>2. queue \o s \in Seq(IDs)
    BY <2>1
  <2>3. queue' = queue \/ queue' = queue \o s
    BY <1>4 DEF s
  <2>4. queue' \in Seq(IDs)
    BY <2>1, <2>2, <2>3
  <2>5. cursor' \in 0..Len(log)
    BY <1>3, <1>4, <2>1
  <2> QED BY <2>4, <2>5
<1>6. HeldInv'
  <2>1. LogOK'
    BY <1>1, <1>2 DEF LogOK, IDs
  <2>2. Within'
    BY <1>1, <1>2, <1>5 DEF Within, IDs
  <2>3. AtAuth'
    BY <1>1, <1>2, <1>4 DEF AtAuth
  <2> QED BY <2>1, <2>2, <2>3 DEF HeldInv
<1>7. OrderInv' /\ AnswersInv' /\ ClaimsInv'
  BY <1>1, <1>2, <1>4 DEF OrderInv, AnswersInv, ClaimsInv, Bot!PromptAnsweredOnce, Bot!YieldedOnceInOrder
<1> QED BY <1>4, <1>6, <1>7, HeldIsEnough

LEMMA ConnectStep ==
    ASSUME BotInv, Bot!ConnectWS
    PROVE  BotInv'
<1> DEFINE all == Bot!InOrder(Bot!Kept(0))
           replay == IF seen = 0 THEN all ELSE <<>>
<1>1. /\ HeldInv /\ LogOK /\ Within /\ AtAuth /\ OrderInv /\ AnswersInv /\ ClaimsInv
      /\ pc = "connect"
  BY DEF BotInv, HeldInv, Bot!ConnectWS
<1>2. /\ UNCHANGED <<session, seen, token, highwater, cursor, queue, early>>
      /\ UNCHANGED <<waiter, issued, got, yielded, scannedTo>> /\ prompt' = 0
  BY DEF Bot!ConnectWS, Bot!proxy, Bot!fetched, Bot!commands
<1>3. Len(log) \in Nat /\ DOMAIN log = IDs
  BY <1>1 DEF LogOK, IDs
<1>4. all \in Seq(IDs)
  <2>1. Bot!Kept(0) \in SUBSET (1..Len(log))
    BY <1>3 DEF Bot!Kept, IDs
  <2> QED BY <1>3, <2>1, InOrderType DEF IDs
<1>5. \/ Bot!AnswerPrompt(prompt, replay, TRUE) /\ prompt > 0
      \/ chan' = replay /\ UNCHANGED <<log, prompting, asked, answered, answers>>
      \/ UNCHANGED <<chan, log, prompting, asked, answered, answers>>
  BY DEF Bot!ConnectWS, Bot!said
<1> HIDE DEF all
<1>6. replay \in Seq(IDs)
  BY <1>4
<1>7. pc' \notin {"auth", "stream", "scan"}
  BY DEF Bot!ConnectWS, Bot!Lost
<1> HIDE DEF replay
<1>8. OrderInv' /\ ClaimsInv'
  BY <1>1, <1>2, <1>7 DEF OrderInv, ClaimsInv, Bot!YieldedOnceInOrder
<1>9. /\ queue' \in Seq(IDs) /\ early' \in Seq(IDs)
      /\ cursor' \in 0..Len(log) /\ prompt' \in 0..Len(log) /\ seen' \in 0..Len(log)
      /\ highwater' \in 0..Len(log)
  BY <1>1, <1>2, <1>3 DEF Within
<1>10. CASE Bot!AnswerPrompt(prompt, replay, TRUE) /\ prompt > 0
  <2>1. prompt \in Nat /\ prompt \in IDs
    BY <1>1, <1>3, <1>10 DEF Within, IDs
  <2>2. AnswersInv' /\ Spoken(replay) /\ answered' \subseteq answered \cup {prompt}
    BY <1>1, <1>10, <2>1, AnswerOnce
  <2>3. answered' \subseteq IDs
    BY <1>1, <2>1, <2>2 DEF Within
  <2>4. HeldInv'
    BY <1>1, <1>2, <1>6, <1>7, <1>9, <2>2, <2>3, SpeakStep
  <2> QED BY <1>7, <1>8, <2>2, <2>4, HeldIsEnough
<1>11. CASE chan' \in {replay, chan} /\ UNCHANGED <<log, prompting, asked, answered, answers>>
  <2>1. AnswersInv'
    BY <1>1, <1>11 DEF AnswersInv, Bot!PromptAnsweredOnce
  <2>2. LogOK'
    BY <1>1, <1>11 DEF LogOK, IDs
  <2>3. chan' \in Seq(IDs)
    BY <1>1, <1>6, <1>11 DEF Within
  <2>4. Within'
    BY <1>1, <1>9, <1>11, <2>3 DEF Within, IDs
  <2>5. AtAuth'
    BY <1>1, <1>2, <1>7 DEF AtAuth
  <2>6. HeldInv'
    BY <2>2, <2>4, <2>5 DEF HeldInv
  <2> QED BY <1>7, <1>8, <2>1, <2>6, HeldIsEnough
<1> QED BY <1>5, <1>10, <1>11

LEMMA DrainStep ==
    ASSUME BotInv, Bot!DrainEarly
    PROVE  BotInv'
<1>1. /\ HeldInv /\ LogOK /\ Within /\ AtAuth /\ OrderInv /\ AnswersInv /\ ClaimsInv
      /\ pc = "state" /\ pc' = pc
  BY DEF BotInv, HeldInv, Bot!DrainEarly
<1>2. /\ UNCHANGED <<session, seen, token, cursor, queue, prompt, issued, yielded, scannedTo>>
  BY DEF Bot!DrainEarly, Bot!proxy
<1>3. Len(log) \in Nat /\ highwater \in Nat
  BY <1>1 DEF LogOK, Within
<1>4. /\ queue' \in Seq(IDs) /\ cursor' \in 0..Len(log) /\ prompt' \in 0..Len(log)
      /\ seen' \in 0..Len(log)
  BY <1>1, <1>2 DEF Within
<1>5. CASE /\ chan # <<>> /\ Bot!Handle(Head(chan), Tail(chan))
           /\ early' \in {early, Append(early, Head(chan))}
  <2> DEFINE id == Head(chan)
             ch == Tail(chan)
  <2>1. id \in IDs /\ ch \in Seq(IDs) /\ id \in Nat
    BY <1>1, <1>3, <1>5 DEF Within, IDs
  <2>3. Bot!Handle(id, ch) /\ early' \in {early, Append(early, id)}
    BY <1>5
  <2> HIDE DEF id, ch
  <2>2. early' \in Seq(IDs)
    <3>1. early \in Seq(IDs)
      BY <1>1 DEF Within
    <3>2. Append(early, id) \in Seq(IDs)
      BY <2>1, <3>1
    <3> QED BY <2>3, <3>1, <3>2
  <2>4. /\ Spoken(ch) /\ AnswersInv' /\ ClaimsInv'
        /\ highwater' = Bot!Larger(highwater, id) /\ highwater' \in 0..Len(log)
        /\ answered' \subseteq IDs
    BY <1>1, <1>2, <2>1, <2>3, HandleStep
  <2>5. OrderInv'
    BY <1>1, <1>2, <1>3, <2>1, <2>4, YieldInOrder
  <2>6. HeldInv'
    BY <1>1, <1>2, <1>4, <2>1, <2>2, <2>4, SpeakStep
  <2> QED BY <1>1, <2>4, <2>5, <2>6, HeldIsEnough
<1>6. CASE /\ chan' = (IF chan = <<>> THEN chan ELSE Tail(chan))
           /\ UNCHANGED <<log, prompting, asked, sock, highwater, answered, answers, early, waiter, got>>
  <2>1. chan' \in Seq(IDs)
    BY <1>1, <1>6 DEF Within
  <2>2. LogOK' /\ Within' /\ AtAuth'
    BY <1>1, <1>2, <1>6, <2>1 DEF LogOK, Within, AtAuth, IDs
  <2>3. OrderInv' /\ AnswersInv' /\ ClaimsInv'
    BY <1>1, <1>2, <1>6 DEF OrderInv, AnswersInv, ClaimsInv, Bot!PromptAnsweredOnce, Bot!YieldedOnceInOrder
  <2> QED BY <1>1, <2>2, <2>3, HeldIsEnough DEF HeldInv
<1> QED BY <1>5, <1>6 DEF Bot!DrainEarly

LEMMA StateStep ==
    ASSUME BotInv, NEW inTime \in BOOLEAN, Bot!GetState(inTime)
    PROVE  BotInv'
<1>1. /\ HeldInv /\ LogOK /\ Within /\ AtAuth /\ OrderInv /\ AnswersInv /\ ClaimsInv
  BY DEF BotInv, HeldInv
<1>2. /\ UNCHANGED <<session, seen, log, prompting, asked, sock, chan, token, answered>>
      /\ UNCHANGED <<cursor, queue, early, waiter, issued, got, yielded, answers, scannedTo>>
  BY DEF Bot!GetState, Bot!proxy, Bot!said, Bot!fetched, Bot!commands
<1>3. Len(log) \in Nat /\ DOMAIN log = IDs /\ highwater \in Nat /\ seen \in Nat
  BY <1>1 DEF LogOK, Within, IDs
<1>4. pc' \notin {"auth", "stream", "scan"}
  BY DEF Bot!GetState, Bot!Lost
<1>5. prompt' \in 0..Len(log)
  <2> DEFINE found == CHOOSE i \in IDs : log[i].k = "prompt"
  <2>1. ~inTime => found \in IDs
    BY <1>1 DEF Bot!GetState, LogOK
  <2>2. \/ prompt' = prompt \/ prompt' = 0
        \/ ~inTime /\ prompt' = found
    BY <1>3 DEF Bot!GetState, Bot!Kind
  <2> HIDE DEF found
  <2>3. \A i \in IDs : i \in 0..Len(log)
    BY <1>3 DEF IDs
  <2> QED BY <1>1, <1>3, <2>1, <2>2, <2>3 DEF Within
<1>6. highwater' = highwater \/ highwater' = Bot!Larger(highwater, seen)
  BY DEF Bot!GetState
<1>7. highwater' \in 0..Len(log) /\ highwater' >= highwater
  <2>1. highwater \in 0..Len(log) /\ seen \in 0..Len(log)
    BY <1>1 DEF Within
  <2>2. /\ Bot!Larger(highwater, seen) \in {highwater, seen}
        /\ Bot!Larger(highwater, seen) >= highwater
    BY <1>3, LargerIs
  <2> QED BY <1>3, <1>6, <2>1, <2>2
<1>8. LogOK' /\ Within' /\ AtAuth'
  BY <1>1, <1>2, <1>4, <1>5, <1>7 DEF LogOK, Within, AtAuth, IDs
<1>9. OrderInv'
  <2>1. scannedTo' \in 0..highwater'
    BY <1>1, <1>2, <1>3, <1>7 DEF OrderInv
  <2>2. \A i \in DOMAIN yielded' : yielded'[i] <= highwater' /\ yielded'[i] > scannedTo'
    <3>1. \A i \in DOMAIN yielded : yielded[i] \in Nat /\ yielded[i] <= highwater /\ yielded[i] > scannedTo
      BY <1>1 DEF OrderInv
    <3> QED BY <1>2, <1>3, <1>7, <3>1
  <2> QED BY <1>1, <1>2, <1>4, <2>1, <2>2 DEF OrderInv, Bot!YieldedOnceInOrder
<1>10. AnswersInv' /\ ClaimsInv'
  BY <1>1, <1>2 DEF AnswersInv, ClaimsInv, Bot!PromptAnsweredOnce
<1> QED BY <1>4, <1>8, <1>9, <1>10, HeldIsEnough DEF HeldInv

LEMMA SnapshotStep ==
    ASSUME BotInv, Bot!Snapshot
    PROVE  BotInv'
<1>1. /\ HeldInv /\ LogOK /\ Within /\ AtAuth /\ OrderInv /\ AnswersInv /\ ClaimsInv
  BY DEF BotInv, HeldInv
<1>2. /\ UNCHANGED <<session, seen, token, highwater, cursor, queue, early>>
      /\ UNCHANGED <<waiter, issued, got, yielded, scannedTo>> /\ prompt' = 0
  BY DEF Bot!Snapshot, Bot!proxy, Bot!fetched, Bot!commands
<1>3. Len(log) \in Nat
  BY <1>1 DEF LogOK
<1>4. pc' \notin {"auth", "stream", "scan"}
  BY DEF Bot!Snapshot
<1>5. OrderInv' /\ ClaimsInv'
  BY <1>1, <1>2, <1>4 DEF OrderInv, ClaimsInv, Bot!YieldedOnceInOrder
<1>6. /\ queue' \in Seq(IDs) /\ early' \in Seq(IDs) /\ chan \in Seq(IDs)
      /\ cursor' \in 0..Len(log) /\ prompt' \in 0..Len(log) /\ seen' \in 0..Len(log)
      /\ highwater' \in 0..Len(log)
  BY <1>1, <1>2, <1>3 DEF Within
<1>7. Spoken(chan) /\ AnswersInv' /\ answered' \subseteq IDs
  <2>1. CASE prompt > 0 /\ Bot!AnswerPrompt(prompt, chan, sock = "up")
    <3>1. prompt \in Nat /\ prompt \in IDs
      BY <1>1, <1>3, <2>1 DEF Within, IDs
    <3>2. AnswersInv' /\ Spoken(chan) /\ answered' \subseteq answered \cup {prompt}
      BY <1>1, <2>1, <3>1, AnswerOnce
    <3> QED BY <1>1, <3>1, <3>2 DEF Within
  <2>2. CASE UNCHANGED <<log, prompting, asked, sock, chan, answered, answers>>
    BY <1>1, <2>2 DEF Spoken, AnswersInv, Within, Bot!PromptAnsweredOnce
  <2>3. \/ prompt > 0 /\ Bot!AnswerPrompt(prompt, chan, sock = "up")
        \/ UNCHANGED <<log, prompting, asked, sock, chan, answered, answers>>
    BY DEF Bot!Snapshot, Bot!said
  <2> QED BY <2>1, <2>2, <2>3
<1>8. HeldInv'
  BY <1>1, <1>2, <1>4, <1>6, <1>7, SpeakStep
<1> QED BY <1>4, <1>5, <1>7, <1>8, HeldIsEnough

LEMMA JoinStep ==
    ASSUME BotInv, Bot!Join
    PROVE  BotInv'
<1>1. /\ HeldInv /\ LogOK /\ Within /\ AtAuth /\ OrderInv /\ AnswersInv /\ ClaimsInv
  BY DEF BotInv, HeldInv
<1>2. /\ UNCHANGED <<session, seen, token, highwater, answered, cursor, prompt>>
      /\ UNCHANGED <<waiter, issued, got, yielded, answers, scannedTo>>
      /\ queue' = queue \o early /\ early' = <<>>
  BY DEF Bot!Join, Bot!proxy, Bot!commands
<1>3. Len(log) \in Nat
  BY <1>1 DEF LogOK
<1>4. pc' \notin {"auth", "stream", "scan"}
  BY DEF Bot!Join
<1>5. OrderInv' /\ ClaimsInv' /\ AnswersInv'
  BY <1>1, <1>2, <1>4 DEF OrderInv, ClaimsInv, AnswersInv, Bot!YieldedOnceInOrder, Bot!PromptAnsweredOnce
<1>6. /\ queue' \in Seq(IDs) /\ early' \in Seq(IDs) /\ chan \in Seq(IDs)
      /\ cursor' \in 0..Len(log) /\ prompt' \in 0..Len(log) /\ seen' \in 0..Len(log)
      /\ highwater' \in 0..Len(log) /\ answered' \subseteq IDs
  BY <1>1, <1>2, <1>3 DEF Within
<1>7. Spoken(chan)
  BY DEF Bot!Join, Bot!said, Spoken
<1>8. HeldInv'
  BY <1>1, <1>2, <1>4, <1>6, <1>7, SpeakStep
<1> QED BY <1>4, <1>5, <1>8, HeldIsEnough

LEMMA ReplayStep ==
    ASSUME BotInv, Bot!Replay
    PROVE  BotInv'
<1> DEFINE id == Head(queue)
<1>1. /\ HeldInv /\ LogOK /\ Within /\ AtAuth /\ OrderInv /\ AnswersInv /\ ClaimsInv
      /\ queue # <<>> /\ pc' \notin {"auth", "stream", "scan"}
  BY DEF BotInv, HeldInv, Bot!Replay
<1>2. /\ UNCHANGED <<session, seen, token, cursor, early, prompt, issued, scannedTo>>
      /\ queue' = Tail(queue)
  BY DEF Bot!Replay, Bot!proxy
<1>3. Len(log) \in Nat /\ highwater \in Nat
  BY <1>1 DEF LogOK, Within
<1>4. id \in IDs /\ id \in Nat /\ queue' \in Seq(IDs)
  <2>1. queue \in Seq(IDs) /\ queue # <<>>
    BY <1>1 DEF Within
  <2>2. Head(queue) \in IDs /\ Tail(queue) \in Seq(IDs)
    <3> HIDE DEF IDs
    <3> QED BY ONLY <2>1
  <2>3. Head(queue) \in Nat
    BY ONLY <1>3, <2>2 DEF IDs
  <2> QED BY <1>2, <2>2, <2>3
<1>5. /\ early' \in Seq(IDs) /\ cursor' \in 0..Len(log) /\ prompt' \in 0..Len(log)
      /\ seen' \in 0..Len(log) /\ chan \in Seq(IDs)
  BY <1>1, <1>2 DEF Within
<1>6. Bot!Handle(id, chan) /\ (yielded' = yielded \/ (id > highwater /\ yielded' = Append(yielded, id)))
  BY DEF Bot!Replay, Bot!Yield, Bot!GivesOut
<1> HIDE DEF id
<1>7. /\ Spoken(chan) /\ AnswersInv' /\ ClaimsInv'
      /\ highwater' = Bot!Larger(highwater, id) /\ highwater' \in 0..Len(log)
      /\ answered' \subseteq IDs
  BY <1>1, <1>2, <1>4, <1>5, <1>6, HandleStep
<1>8. OrderInv'
  BY <1>1, <1>2, <1>3, <1>4, <1>6, <1>7, YieldInOrder
<1>9. HeldInv'
  BY <1>1, <1>2, <1>4, <1>5, <1>7, SpeakStep
<1> QED BY <1>1, <1>7, <1>8, <1>9, HeldIsEnough

LEMMA BeginStep ==
    ASSUME BotInv, Bot!BeginStream
    PROVE  BotInv'
<1>1. /\ HeldInv /\ LogOK /\ Within /\ AtAuth /\ OrderInv /\ AnswersInv /\ ClaimsInv
  BY DEF BotInv, HeldInv
<1>2. /\ UNCHANGED <<session, seen, log, prompting, asked, sock, chan, token, highwater, answered>>
      /\ UNCHANGED <<cursor, queue, early, prompt, waiter, issued, got, yielded, answers, scannedTo>>
      /\ pc' = "stream" /\ streamFrom' = Len(log)
  BY DEF Bot!BeginStream, Bot!proxy, Bot!said, Bot!fetched, Bot!commands
<1>3. LogOK' /\ Within' /\ AtAuth'
  BY <1>1, <1>2 DEF LogOK, Within, AtAuth, IDs
<1>4. OrderInv' /\ AnswersInv' /\ ClaimsInv'
  BY <1>1, <1>2 DEF OrderInv, AnswersInv, ClaimsInv, Bot!PromptAnsweredOnce, Bot!YieldedOnceInOrder
<1>5. StreamInv'
  <2>1. Len(log) \in Nat /\ chan \in Seq(IDs) /\ answered \subseteq IDs
    BY <1>1 DEF LogOK, Within
  <2>2. \A k \in DOMAIN chan : chan[k] \in IDs
    BY <2>1
  <2>3. \A i \in IDs : ~(i > Len(log))
    BY <2>1 DEF IDs
  <2>4. InLine(chan, highwater)'
    BY <1>2, <2>2, <2>3 DEF InLine
  <2>5. (streamFrom' + 1)..Len(log') = {}
    BY <1>2, <2>1
  <2> QED BY <1>2, <2>1, <2>3, <2>4, <2>5 DEF StreamInv
<1> QED BY <1>3, <1>4, <1>5 DEF BotInv, HeldInv

\* What _handle does of a prompt while the socket stays up.
LEMMA HandleAnswers ==
    ASSUME AnswersInv, NEW id \in Nat, NEW ch, Bot!Handle(id, ch), sock' = "up"
    PROVE  /\ sock = "up" /\ answered \subseteq answered'
           /\ \A k \in DOMAIN answers : k \in DOMAIN answers' /\ answers'[k] = answers[k]
           /\ \A i \in answered' \ answered : \E k \in DOMAIN answers' : answers'[k] = i
           /\ id > highwater /\ log[id].k = "prompt" => id \in answered'
<1>1. CASE id > highwater /\ log[id].k = "prompt" /\ Bot!AnswerPrompt(id, ch, sock = "up")
  <2>1. sock = "up"
    BY <1>1 DEF Bot!AnswerPrompt, Bot!Unsaid
  <2> QED BY <1>1, <2>1, AnswerOnce
<1>2. CASE /\ ~(id > highwater /\ log[id].k = "prompt")
           /\ Bot!Unsaid(ch) /\ UNCHANGED <<answered, answers>>
  BY <1>2 DEF Bot!Unsaid
<1> QED BY <1>1, <1>2 DEF Bot!Handle, Bot!Kind

LEMMA StreamStep ==
    ASSUME Bot!BotAssumption, BotInv, Bot!Stream
    PROVE  BotInv'
<1> DEFINE id == Head(chan)
           ch == Tail(chan)
<1>1. /\ HeldInv /\ LogOK /\ Within /\ AtAuth /\ OrderInv /\ AnswersInv /\ ClaimsInv
      /\ chan # <<>> /\ pc = "stream" /\ pc' \in {"lost", "stream"}
  BY DEF BotInv, HeldInv, Bot!Stream
<1>2. UNCHANGED <<session, seen, token, cursor, queue, early, prompt, issued, scannedTo, streamFrom>>
  BY DEF Bot!Stream, Bot!proxy, Bot!fetched
<1>3. Len(log) \in Nat /\ highwater \in Nat /\ chan \in Seq(IDs)
  BY <1>1 DEF LogOK, Within
<1>4. id \in IDs /\ id \in Nat /\ ch \in Seq(IDs)
  BY <1>1, <1>3 DEF IDs
<1>5. /\ queue' \in Seq(IDs) /\ early' \in Seq(IDs)
      /\ cursor' \in 0..Len(log) /\ prompt' \in 0..Len(log) /\ seen' \in 0..Len(log)
  BY <1>1, <1>2 DEF Within
<1>6. CASE /\ pc' = "lost" /\ Bot!Unsaid(ch)
           /\ UNCHANGED <<highwater, answered, answers, waiter, got, yielded>>
  <2>1. Spoken(ch) /\ highwater' \in 0..Len(log) /\ answered' \subseteq IDs
    BY <1>1, <1>6 DEF Spoken, Bot!Unsaid, Within
  <2> HIDE DEF ch
  <2>2. HeldInv'
    BY <1>1, <1>2, <1>4, <1>5, <2>1, SpeakStep
  <2>3. OrderInv' /\ AnswersInv' /\ ClaimsInv'
    BY <1>1, <1>2, <1>6 DEF OrderInv, AnswersInv, ClaimsInv, Bot!PromptAnsweredOnce, Bot!YieldedOnceInOrder
  <2> QED BY <1>6, <2>2, <2>3, HeldIsEnough
<1>7. CASE /\ Bot!Handle(id, ch)
           /\ yielded' = IF Bot!GivesOut(id) THEN Append(yielded, id) ELSE yielded
  <2> HIDE DEF id
  <2>1. yielded' = yielded \/ (id > highwater /\ yielded' = Append(yielded, id))
    BY <1>7 DEF Bot!GivesOut
  <2>2. /\ Spoken(ch) /\ AnswersInv' /\ ClaimsInv'
        /\ highwater' = Bot!Larger(highwater, id) /\ highwater' \in 0..Len(log)
        /\ answered' \subseteq IDs
    <3> HIDE DEF ch
    <3> QED BY <1>1, <1>2, <1>4, <1>7, HandleStep
  <2>3. OrderInv'
    BY <1>1, <1>2, <1>3, <1>4, <2>1, <2>2, YieldInOrder
  <2>4. HeldInv'
    <3> HIDE DEF ch
    <3> QED BY <1>1, <1>2, <1>4, <1>5, <2>2, SpeakStep
  <2>5. ASSUME pc' = "stream", sock' = "up"
        PROVE  /\ streamFrom' \in Nat
               /\ InLine(chan, highwater)'
               /\ \A i \in answered' : i > streamFrom' => \E k \in DOMAIN answers' : answers'[k] = i
               /\ \A i \in (streamFrom' + 1)..Len(log') : Reached(i)'
    <3>1. /\ sock = "up" /\ answered \subseteq answered'
          /\ \A k \in DOMAIN answers : k \in DOMAIN answers' /\ answers'[k] = answers[k]
          /\ \A i \in answered' \ answered : \E k \in DOMAIN answers' : answers'[k] = i
          /\ id > highwater /\ log[id].k = "prompt" => id \in answered'
      <4> HIDE DEF ch
      <4> QED BY <1>1, <1>4, <1>7, <2>5, HandleAnswers
    <3>2. /\ streamFrom \in Nat /\ streamFrom' = streamFrom /\ InLine(chan, highwater)
          /\ \A i \in answered : i > streamFrom => \E k \in DOMAIN answers : answers[k] = i
          /\ \A i \in (streamFrom + 1)..Len(log) : Reached(i)
      BY <1>1, <1>2, <3>1 DEF BotInv, StreamInv
    <3>3. \A i \in answered' : i > streamFrom => \E k \in DOMAIN answers' : answers'[k] = i
      BY <3>1, <3>2
    <3>4. InLine(ch, highwater')
      <4>1. chan \in Seq(Nat)
        BY <1>3 DEF IDs
      <4> QED BY <1>1, <1>3, <2>2, <3>2, <4>1, InLineTail DEF id
    <3>5. /\ LogOK' /\ \A i \in IDs : log'[i] = log[i]
          /\ \/ Len(log') = Len(log) /\ chan' = ch
             \/ Len(log') = Len(log) + 1 /\ chan' = Append(ch, Len(log) + 1)
      <4> HIDE DEF ch
      <4> QED BY <1>1, <1>4, <2>2, SpokenLog
    <3>6. InLine(chan, highwater)'
      <4> HIDE DEF ch
      <4>1. CASE chan' = ch
        BY <3>2, <3>4, <4>1 DEF InLine
      <4>2. CASE chan' = Append(ch, Len(log) + 1)
        <5>1. InLine(Append(ch, Len(log) + 1), highwater')
          BY <1>3, <1>4, <2>2, <3>4, InLineAppend DEF IDs
        <5> QED BY <3>2, <4>2, <5>1 DEF InLine
      <4> QED BY <3>5, <4>1, <4>2
    <3>7. \A k \in DOMAIN ch : k \in DOMAIN chan' /\ chan'[k] = ch[k]
      <4> HIDE DEF ch
      <4>1. ch \in Seq(Nat) /\ Len(log) + 1 \in Nat
        BY <1>3, <1>4 DEF IDs
      <4> QED BY <3>5, <4>1, AppendAt
    <3>8. \A k \in DOMAIN yielded : k \in DOMAIN yielded' /\ yielded'[k] = yielded[k]
      <4>1. yielded \in Seq(Nat)
        BY <1>1 DEF OrderInv
      <4> QED BY <1>4, <2>1, <4>1, AppendAt
    <3>9. ASSUME NEW c \in Bot!Commands, NEW i \in IDs, log[i].k = "result", got[c] = log[i].c
          PROVE  got'[c] = log[i].c
      <4>1. log[i].c # 0
        BY <1>1, <3>9 DEF LogOK, Bot!Commands
      <4>2. c # waiter
        BY <1>1, <3>9, <4>1 DEF ClaimsInv
      <4>3. \/ got' = got
            \/ got' = [got EXCEPT ![waiter] = log[id].c]
        BY <1>7 DEF Bot!Handle
      <4>4. got \in [Bot!Commands -> Nat]
        BY <1>1 DEF ClaimsInv
      <4> QED BY <3>9, <4>2, <4>3, <4>4
    <3>10. ASSUME NEW i, i = id, i > streamFrom
           PROVE  Reached(i)'
      <4>1. id > highwater
        <5>1. 1 \in DOMAIN chan /\ id = chan[1]
          BY <1>1, <1>3 DEF id
        <5> QED BY <3>2, <3>10, <5>1 DEF InLine
      <4>2. CASE log[id].k = "prompt"
        <5>1. \E k \in DOMAIN answers' : answers'[k] = i
          BY <3>1, <3>3, <3>10, <4>1, <4>2
        <5> QED BY <5>1 DEF Reached
      <4>3. CASE Bot!Claimed(id)
        <5>1. log[id].k = "result" /\ waiter # 0
          BY <4>3 DEF Bot!Claimed, Bot!Kind
        <5>2. got' = [got EXCEPT ![waiter] = log[id].c]
          BY <1>7, <4>1, <4>3 DEF Bot!Handle
        <5>3. waiter \in Bot!Commands /\ got \in [Bot!Commands -> Nat]
          <6>1. MaxCommands \in Nat
            BY DEF Bot!BotAssumption
          <6> QED BY <1>1, <5>1, <6>1 DEF ClaimsInv, Bot!Commands
        <5>4. got'[waiter] = log'[i].c /\ log'[i].k = "result"
          BY <1>4, <3>5, <3>10, <5>1, <5>2, <5>3
        <5> QED BY <5>3, <5>4 DEF Reached
      <4>4. CASE log[id].k # "prompt" /\ ~Bot!Claimed(id)
        <5>1. yielded' = Append(yielded, id)
          BY <1>7, <4>1, <4>4 DEF Bot!GivesOut, Bot!Kind
        <5>2. yielded \in Seq(Nat)
          BY <1>1 DEF OrderInv
        <5>3. Len(yielded) + 1 \in DOMAIN yielded' /\ yielded'[Len(yielded) + 1] = i
          BY <1>4, <3>10, <5>1, <5>2, AppendAt
        <5> QED BY <5>3 DEF Reached
      <4> QED BY <4>2, <4>3, <4>4
    <3>11. ASSUME NEW i \in (streamFrom + 1)..Len(log)
           PROVE  Reached(i)'
      <4>1. i \in IDs /\ i > streamFrom /\ log'[i] = log[i] /\ Reached(i)
        BY <1>3, <3>2, <3>5 DEF IDs
      <4>2. CASE \E k \in DOMAIN chan : chan[k] = i
        <5>1. PICK k \in DOMAIN chan : chan[k] = i
          BY <4>2
        <5>2. CASE k = 1
          <6>1. i = id
            BY <1>1, <1>3, <5>1, <5>2 DEF id
          <6> QED BY <3>10, <4>1, <6>1
        <5>3. CASE k # 1
          <6>1. k - 1 \in DOMAIN ch /\ ch[k - 1] = i
            BY <1>1, <1>3, <5>1, <5>3
          <6> HIDE DEF ch
          <6>2. k - 1 \in DOMAIN chan' /\ chan'[k - 1] = i
            BY <3>7, <6>1
          <6> QED BY <6>2 DEF Reached
        <5> QED BY <5>2, <5>3
      <4>3. CASE \E k \in DOMAIN yielded : yielded[k] = i
        <5>1. \E k \in DOMAIN yielded' : yielded'[k] = i
          BY <3>8, <4>3
        <5> QED BY <5>1 DEF Reached
      <4>4. CASE \E k \in DOMAIN answers : answers[k] = i
        <5>1. \E k \in DOMAIN answers' : answers'[k] = i
          BY <3>1, <4>4
        <5> QED BY <5>1 DEF Reached
      <4>5. CASE log[i].k = "result" /\ \E c \in Bot!Commands : got[c] = log[i].c
        BY <3>9, <4>1, <4>5 DEF Reached
      <4> QED BY <4>1, <4>2, <4>3, <4>4, <4>5 DEF Reached
    <3>12. ASSUME NEW i, i = Len(log) + 1, chan' = Append(ch, Len(log) + 1)
           PROVE  Reached(i)'
      <4> HIDE DEF ch
      <4>1. ch \in Seq(Nat) /\ Len(log) + 1 \in Nat
        BY <1>3, <1>4 DEF IDs
      <4>2. Len(ch) + 1 \in DOMAIN chan' /\ chan'[Len(ch) + 1] = i
        BY <3>12, <4>1, AppendAt
      <4> QED BY <4>2 DEF Reached
    <3>13. ASSUME NEW i \in (streamFrom' + 1)..Len(log')
           PROVE  Reached(i)'
      <4>1. CASE i \in (streamFrom + 1)..Len(log)
        BY <3>11, <4>1
      <4>2. CASE i = Len(log') /\ Len(log') = Len(log) + 1
        BY <3>5, <3>12, <1>3, <4>2
      <4>3. \/ i \in (streamFrom + 1)..Len(log)
            \/ i = Len(log') /\ Len(log') = Len(log) + 1
        BY <1>3, <3>2, <3>5
      <4> QED BY <4>1, <4>2, <4>3
    <3> QED BY <3>2, <3>3, <3>6, <3>13
  <2>6. StreamInv'
    BY <2>5 DEF StreamInv
  <2> QED BY <2>2, <2>3, <2>4, <2>6 DEF BotInv
<1> QED BY <1>6, <1>7 DEF Bot!Stream, Bot!Yield

LEMMA LeaveStep ==
    ASSUME BotInv, Bot!StreamEnds \/ Bot!Recover
    PROVE  BotInv'
<1>1. /\ HeldInv /\ LogOK /\ Within /\ AtAuth /\ OrderInv /\ AnswersInv /\ ClaimsInv
  BY DEF BotInv, HeldInv
<1>2. /\ UNCHANGED <<session, seen, log, prompting, asked, token, highwater, answered>>
      /\ UNCHANGED <<waiter, issued, got, yielded, answers, scannedTo>>
      /\ pc' \in {"lost", "auth"}
  <2>1. CASE Bot!StreamEnds
    BY <2>1 DEF Bot!StreamEnds, Bot!Lost, Bot!proxy, Bot!said, Bot!commands
  <2>2. CASE Bot!Recover
    BY <2>2 DEF Bot!Recover, Bot!proxy, Bot!commands
  <2> QED BY <2>1, <2>2
<1>3. \/ UNCHANGED <<sock, chan, queue, early, cursor, prompt>> /\ pc' = "lost"
      \/ sock' = "none" /\ chan' = <<>> /\ queue' = <<>> /\ early' = <<>> /\ cursor' = 0 /\ prompt' = 0
  BY DEF Bot!StreamEnds, Bot!Recover, Bot!Lost, Bot!said, Bot!fetched
<1>4. LogOK' /\ Len(log) \in Nat
  BY <1>1, <1>2 DEF LogOK, IDs
<1>5. Within' /\ AtAuth'
  <2>1. CASE UNCHANGED <<sock, chan, queue, early, cursor, prompt>> /\ pc' = "lost"
    BY <1>1, <1>2, <2>1 DEF Within, AtAuth, IDs
  <2>2. CASE sock' = "none" /\ chan' = <<>> /\ queue' = <<>> /\ early' = <<>> /\ cursor' = 0 /\ prompt' = 0
    BY <1>1, <1>2, <1>4, <2>2 DEF Within, AtAuth, IDs
  <2> QED BY <1>3, <2>1, <2>2
<1>6. OrderInv' /\ AnswersInv' /\ ClaimsInv'
  BY <1>1, <1>2 DEF OrderInv, AnswersInv, ClaimsInv, Bot!PromptAnsweredOnce, Bot!YieldedOnceInOrder
<1> QED BY <1>2, <1>4, <1>5, <1>6, HeldIsEnough DEF HeldInv

\* The tasks beside the stream.
LEMMA ReportStep ==
    ASSUME BotInv, Bot!ReportSeen \/ Bot!CommandTimesOut
    PROVE  BotInv'
<1>1. /\ HeldInv /\ LogOK /\ Within /\ AtAuth /\ OrderInv /\ AnswersInv /\ ClaimsInv /\ StreamInv
  BY DEF BotInv, HeldInv
<1>2. /\ UNCHANGED <<session, log, prompting, asked, sock, chan, token, highwater, answered>>
      /\ UNCHANGED <<cursor, queue, early, prompt, issued, got, yielded, answers, scannedTo>>
      /\ UNCHANGED <<streamFrom, pc>>
      /\ seen' \in {seen, highwater} /\ waiter' \in {waiter, 0}
  <2>1. CASE Bot!ReportSeen
    BY <2>1 DEF Bot!ReportSeen, Bot!said, Bot!fetched, Bot!commands
  <2>2. CASE Bot!CommandTimesOut
    BY <2>2 DEF Bot!CommandTimesOut, Bot!proxy, Bot!said, Bot!fetched
  <2> QED BY <2>1, <2>2
<1>3. LogOK' /\ Within' /\ AtAuth'
  BY <1>1, <1>2 DEF LogOK, Within, AtAuth, IDs
<1>4. OrderInv' /\ AnswersInv'
  BY <1>1, <1>2 DEF OrderInv, AnswersInv, Bot!PromptAnsweredOnce, Bot!YieldedOnceInOrder
<1>5. ClaimsInv'
  <2>1. 0 \notin Bot!Commands
    BY DEF Bot!Commands
  <2> QED BY <1>1, <1>2, <2>1 DEF ClaimsInv
<1>6. StreamInv'
  BY <1>1, <1>2, StreamKeeps
<1> QED BY <1>3, <1>4, <1>5, <1>6 DEF BotInv, HeldInv

LEMMA CommandStep ==
    ASSUME Bot!BotAssumption, BotInv, Bot!RunCommand
    PROVE  BotInv'
<1>1. /\ HeldInv /\ LogOK /\ Within /\ AtAuth /\ OrderInv /\ AnswersInv /\ ClaimsInv /\ StreamInv
  BY DEF BotInv, HeldInv
<1>2. /\ UNCHANGED <<session, seen, token, highwater, answered, cursor, queue, early, prompt>>
      /\ UNCHANGED <<got, yielded, answers, scannedTo, streamFrom, pc>>
      /\ waiter = 0 /\ issued < MaxCommands /\ issued' = issued + 1
  BY DEF Bot!RunCommand, Bot!proxy, Bot!fetched
<1>3. \/ sock = "up" /\ Bot!Said(issued', chan) /\ waiter' = issued'
      \/ UNCHANGED <<log, prompting, asked, sock, chan, waiter>>
  BY DEF Bot!RunCommand, Bot!said
<1>4. OrderInv' /\ AnswersInv'
  BY <1>1, <1>2 DEF OrderInv, AnswersInv, Bot!PromptAnsweredOnce, Bot!YieldedOnceInOrder
<1>5. issued \in Nat /\ issued' \in Bot!Commands /\ issued' \in 0..MaxCommands
  <2>1. MaxCommands \in Nat
    BY DEF Bot!BotAssumption
  <2> QED BY <1>1, <1>2, <2>1 DEF ClaimsInv, Bot!Commands
<1>6. ClaimsInv'
  <2>1. waiter' \in 0..issued'
    BY <1>2, <1>3, <1>5
  <2>2. ASSUME NEW c \in Bot!Commands, c > issued' \/ c = waiter'
        PROVE  got'[c] = 0
    <3>1. c > issued \/ c = waiter
      BY <1>2, <1>3, <1>5, <2>2 DEF Bot!Commands
    <3> QED BY <1>1, <1>2, <3>1 DEF ClaimsInv
  <2> QED BY <1>1, <1>2, <1>5, <2>1, <2>2 DEF ClaimsInv
<1>7. /\ queue' \in Seq(IDs) /\ early' \in Seq(IDs) /\ chan \in Seq(IDs)
      /\ cursor' \in 0..Len(log) /\ prompt' \in 0..Len(log) /\ seen' \in 0..Len(log)
      /\ highwater' \in 0..Len(log) /\ answered' \subseteq IDs
  BY <1>1, <1>2 DEF Within
<1>8. CASE sock = "up" /\ Bot!Said(issued', chan)
  <2>1. Spoken(chan) /\ pc' # "auth"
    BY <1>1, <1>2, <1>5, <1>8 DEF Spoken, AtAuth
  <2>2. HeldInv'
    BY <1>1, <1>2, <1>7, <2>1, SpeakStep
  <2>3. /\ \A i \in IDs : log'[i] = log[i]
        /\ \/ Len(log') = Len(log) /\ chan' = chan
           \/ Len(log') = Len(log) + 1 /\ chan' = Append(chan, Len(log) + 1)
    BY <1>1, <1>7, <2>1, SpokenLog
  <2>4. StreamInv'
    BY <1>1, <1>2, <1>8, <2>3, StreamKeeps
  <2> QED BY <1>4, <1>6, <2>2, <2>4 DEF BotInv
<1>9. CASE UNCHANGED <<log, prompting, asked, sock, chan, waiter>>
  <2>1. LogOK' /\ Within' /\ AtAuth'
    BY <1>1, <1>2, <1>9 DEF LogOK, Within, AtAuth, IDs
  <2>2. StreamInv'
    BY <1>1, <1>2, <1>9, StreamKeeps
  <2> QED BY <1>4, <1>6, <2>1, <2>2 DEF BotInv, HeldInv
<1> QED BY <1>3, <1>8, <1>9

LEMMA BotStep == Bot!BotAssumption /\ BotInv /\ [Bot!Next]_Bot!vars => BotInv'
<1> SUFFICES ASSUME Bot!BotAssumption, BotInv, [Bot!Next]_Bot!vars PROVE BotInv'
  OBVIOUS
<1>1. CASE Bot!Speaks \/ Bot!Asks \/ Bot!Answers \/ Bot!Closes
  BY <1>1, WorldSpeaks
<1>2. CASE Bot!Teardown \/ Bot!Drop \/ Bot!ProxyExits
  BY <1>2, TroubleStep
<1>3. CASE Bot!Establish
  BY <1>3, AuthStep, ScanStep, BackfillStep, ConnectStep, DrainStep, SnapshotStep, JoinStep
     DEF Bot!Establish
<1>4. CASE Bot!Messages
  BY <1>4, ReplayStep, BeginStep, StreamStep, LeaveStep DEF Bot!Messages
<1>5. CASE \E inTime \in BOOLEAN : Bot!GetState(inTime)
  BY <1>5, StateStep
<1>6. CASE Bot!ReportSeen \/ Bot!CommandTimesOut
  BY <1>6, ReportStep
<1>7. CASE Bot!RunCommand
  BY <1>7, CommandStep
<1>8. CASE UNCHANGED Bot!vars
  BY <1>8 DEF Bot!vars, Bot!proxy, Bot!said, Bot!bot, Bot!fetched, Bot!commands, BotInv, HeldInv,
              LogOK, Within, AtAuth, OrderInv, AnswersInv, ClaimsInv, StreamInv, InLine, Reached,
              IDs, Bot!PromptAnsweredOnce, Bot!YieldedOnceInOrder
<1> QED BY <1>1, <1>2, <1>3, <1>4, <1>5, <1>6, <1>7, <1>8 DEF Bot!Next

\* A bot is given no message of a session twice or out of order, and none of the
\* history a completed scan found; it answers a prompt once; and while it streams
\* nothing published since is lost, however often it reconnects.
\* (clients/python/zlilybot/session.py)
THEOREM NothingIsHeardTwice ==
    ASSUME Bot!BotAssumption
    PROVE  Bot!Spec => []BotHearsNothingTwice
<1>1. Bot!Init => BotInv
  BY BotInit
<1>2. BotInv /\ [Bot!Next]_Bot!vars => BotInv'
  BY BotStep
<1>3. BotInv => Bot!BotHearsNothingTwice
  BY DEF Bot!BotHearsNothingTwice, BotInv, OrderInv, AnswersInv, StreamInv, Reached, Bot!HistoryIsSkipped,
         Bot!NothingLostWhileStreaming, Bot!Kind
<1> QED BY <1>1, <1>2, <1>3, PTL DEF Bot!Spec, BotHearsNothingTwice
=============================================================================
