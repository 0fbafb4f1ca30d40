--------------------------- MODULE LilyConnProofs ---------------------------
(* Theorems about LilyConn, for any commands and any bounds; about         *)
(* LilyState, for any users, discussions and names; and about OutputPane,  *)
(* where what Lily said is shown, for any screen and any scrollback.       *)
EXTENDS LilyWorld, SequenceLemmas

\* The wait for "/where me" has not begun, is in progress, or is over:
\* syncComplete is closed in the last case only.
OneWait ==
    /\ readLoop = "asking" => whereStarted /\ ~waitingForWhere /\ syncCloses = 0
    /\ ~whereStarted => ~waitingForWhere /\ syncCloses = 0
    /\ waitingForWhere => syncCloses = 0
    /\ syncCloses \in {0, 1}

LEMMA OneWaitStep == OneWait /\ [Next]_vars => OneWait'
<1> SUFFICES ASSUME OneWait, [Next]_vars PROVE OneWait'
  OBVIOUS
<1> USE DEF OneWait, where, loop
<1>1. CASE Dial
  BY <1>1 DEF Dial
<1>2. CASE HandshakeReadFails \/ LoginResolved \/ Watchdog \/ Drop
  BY <1>2 DEF HandshakeReadFails, LoginResolved, Watchdog, Drop
<1>3. ASSUME NEW m \in Messages, HandshakeReads(m) PROVE OneWait'
  BY <1>3 DEF HandshakeReads, ConnectFails
<1>4. CASE AskWhere
  BY <1>4 DEF AskWhere
<1>5. CASE LoopSends
  BY <1>5 DEF LoopSends
<1>6. CASE LoopStops
  BY <1>6 DEF LoopStops, Exits
<1>7. ASSUME NEW m \in Messages, LoopReads(m) PROVE OneWait'
  <2>1. CASE Rejected(m)
    BY <1>7, <2>1 DEF LoopReads, Rejected, Exits
  <2>2. CASE Connected(m)
    BY <1>7, <2>2 DEF LoopReads, Connected
  <2>3. CASE Intercepted(m)
    <3>1. CASE m.type = "end"
      BY <1>7, <2>3, <3>1 DEF LoopReads, Intercepted, Intercepts, WhereOver
    <3>2. CASE m.type # "end"
      BY <1>7, <2>3, <3>2 DEF LoopReads, Intercepted
    <3> QED BY <3>1, <3>2
  <2>4. CASE Forwarded(m)
    BY <1>7, <2>4 DEF LoopReads, Forwarded
  <2> QED BY <1>7, <2>1, <2>2, <2>3, <2>4 DEF LoopReads
<1>8. CASE FanOutReads \/ FanOutEnds
  BY <1>8 DEF FanOutReads, FanOutEnds
<1>9. ASSUME NEW x \in Typed, SendCommand(x) PROVE OneWait'
  BY <1>9 DEF SendCommand
<1>10. CASE UNCHANGED vars
  BY <1>10 DEF vars
<1> QED BY <1>1, <1>2, <1>3, <1>4, <1>5, <1>6, <1>7, <1>8, <1>9, <1>10
        DEF Next, Connect, ReadLoop, FanOut

\* syncComplete is never closed twice, whatever /where commands clients type
\* while the connection waits for its own: the second close would panic.
THEOREM SyncClosesOnce == Spec => []SyncCompleteClosedOnce
<1>1. Init => OneWait
  BY DEF Init, OneWait
<1>2. OneWait => SyncCompleteClosedOnce
  BY DEF OneWait, SyncCompleteClosedOnce
<1> QED BY <1>1, <1>2, OneWaitStep, PTL DEF Spec

-----------------------------------------------------------------------------
\* What the goroutines know of each other and of Lily's verdict.
Verdict ==
    /\ readLoop # "off" => lily \notin {"greeting", "options"}
    /\ connect \in {"dial", "handshake"} => readLoop = "off" /\ ~signalled
    /\ connect = "dial" => lily = "greeting" /\ phase = "FirstPrompt"
    /\ connect = "handshake" /\ phase = "Sync" => lily # "greeting"
    /\ connect = "handshake" => phase \in {"FirstPrompt", "Sync"}
    /\ ~signalled => loginResult = None
    /\ loginResult = "ok" => lily \in {"session", "live"}
    /\ loginResult = "rejected" => lily = "refused"
    /\ connect \in {"ok", "closed"} => loginResult = "ok"
    /\ connect = "rejected" => lily = "refused"

\* Lily's verdict is final.
LEMMA LilySaysOn ==
    ASSUME NEW m, LilySays(m)
    PROVE  /\ lily \in {"session", "live"} => lily' \in {"session", "live"}
           /\ lily = "refused" => lily' = "refused"
           /\ lily # "greeting" => lily' # "greeting"
           /\ lily \notin {"greeting", "options"} => lily' \notin {"greeting", "options"}
           /\ m.type = "options" => lily' = "outcome"
           /\ m.type = "login" /\ lily # "greeting" => lily' = "refused"
           /\ m.type = "login" => lily' # "greeting"
           /\ m.type \in {"success", "connected"} => lily' \in {"session", "live"}
<1>1. CASE SaysLogin(m)
  <2>1. PICK s \in LoginSteps : lily = s[1] /\ m = Line(s[2], None, 0) /\ lily' = s[3]
    BY <1>1 DEF SaysLogin
  <2>2. m.type = s[2]
    BY <2>1 DEF Line
  <2> QED BY <2>1, <2>2 DEF LoginSteps
<1>2. CASE SaysMore(m)
  BY <1>2 DEF SaysMore, Line
<1>3. CASE SaysAnswer(m)
  BY <1>3 DEF SaysAnswer, Answers, Line
<1> QED BY <1>1, <1>2, <1>3 DEF LilySays

LEMMA VerdictStep == Verdict /\ [Next]_vars => Verdict'
<1> SUFFICES ASSUME Verdict, [Next]_vars PROVE Verdict'
  OBVIOUS
<1> USE ConnAssumption DEF Verdict, login, loop, server, Outcomes
<1>1. CASE Dial
  BY <1>1 DEF Dial
<1>2. CASE HandshakeReadFails \/ Watchdog \/ Drop
  BY <1>2 DEF HandshakeReadFails, Watchdog, Drop
<1>3. CASE LoginResolved
  BY <1>3 DEF LoginResolved
<1>4. ASSUME NEW m \in Messages, HandshakeReads(m) PROVE Verdict'
  BY <1>4, LilySaysOn DEF HandshakeReads, ConnectFails
<1>5. CASE AskWhere \/ LoopSends
  BY <1>5 DEF AskWhere, LoopSends
<1>6. CASE LoopStops
  BY <1>6 DEF LoopStops, Exits, Signal
<1>7. ASSUME NEW m \in Messages, LoopReads(m) PROVE Verdict'
  <2>1. CASE Rejected(m)
    BY <1>7, <2>1, LilySaysOn DEF LoopReads, Rejected, Exits, Signal
  <2>2. CASE Connected(m)
    BY <1>7, <2>2, LilySaysOn DEF LoopReads, Connected, Signal
  <2>3. CASE Intercepted(m)
    BY <1>7, <2>3, LilySaysOn DEF LoopReads, Intercepted
  <2>4. CASE Forwarded(m)
    BY <1>7, <2>4, LilySaysOn DEF LoopReads, Forwarded, Confirms, Signal
  <2> QED BY <1>7, <2>1, <2>2, <2>3, <2>4 DEF LoopReads
<1>8. CASE FanOutReads \/ FanOutEnds
  BY <1>8 DEF FanOutReads, FanOutEnds
<1>9. ASSUME NEW x \in Typed, SendCommand(x) PROVE Verdict'
  BY <1>9 DEF SendCommand
<1>10. CASE UNCHANGED vars
  BY <1>10 DEF vars
<1> QED BY <1>1, <1>2, <1>3, <1>4, <1>5, <1>6, <1>7, <1>8, <1>9, <1>10
        DEF Next, Connect, ReadLoop, FanOut

\* Connect reports what Lily decided, in whatever order lines, timeouts and
\* drops arrive.
THEOREM ConnectTellsTheTruth == Spec => []OutcomeIsLilys
<1>1. ASSUME Init PROVE Verdict
  BY <1>1, ConnAssumption DEF Init, Verdict, Outcomes
<1>2. Verdict => OutcomeIsLilys
  BY DEF Verdict, OutcomeIsLilys
<1> QED BY <1>1, <1>2, VerdictStep, PTL DEF Spec

-----------------------------------------------------------------------------
\* The types, and that readLoop sends only what it holds.
TypeInv == TypeOK /\ (readLoop = "sending" => held \in Messages)

\* A line Lily says is a message, and its progress keeps its type.
LEMMA LilySaysTypes ==
    ASSUME TypeOK, NEW m \in Messages, LilySays(m)
    PROVE  /\ lily' \in {"greeting", "options", "outcome", "session", "live", "refused"}
           /\ progress' \in [Commands -> {"unsent", "sent", "begun", "ended"}]
           /\ printed' \in [Commands -> 0..MaxLines]
           /\ said' \in 0..MaxSaid
           /\ Applies(m) \subseteq 1..MaxSaid
<1> USE ConnAssumption DEF TypeOK
<1>1. CASE SaysLogin(m)
  <2>1. PICK s \in LoginSteps : m = Line(s[2], None, 0) /\ lily' = s[3]
    BY <1>1 DEF SaysLogin
  <2> QED BY <1>1, <2>1 DEF SaysLogin, LoginSteps, Line, Applies
<1>2. CASE SaysMore(m)
  BY <1>2 DEF SaysMore, Line, Applies
<1>3. CASE SaysAnswer(m)
  <2>1. PICK x \in Commands :
          \/ /\ m = Line("begin", x, 0)
             /\ Answers(m, x, "sent", "begun")
             /\ UNCHANGED printed
          \/ /\ printed[x] < MaxLines
             /\ m = Line("raw", x, printed[x] + 1)
             /\ Answers(m, x, "begun", "begun")
             /\ printed' = [printed EXCEPT ![x] = @ + 1]
          \/ /\ m = Line("end", x, 0)
             /\ Answers(m, x, "begun", "ended")
             /\ UNCHANGED printed
    BY <1>3 DEF SaysAnswer
  <2>2. m.type # "note"
    BY <2>1 DEF Line
  <2>3. progress' \in [Commands -> {"unsent", "sent", "begun", "ended"}]
    BY <2>1 DEF Answers
  <2>4. printed' \in [Commands -> 0..MaxLines]
    BY <2>1
  <2> QED BY <2>1, <2>2, <2>3, <2>4 DEF Answers, Applies
<1> QED BY <1>1, <1>2, <1>3 DEF LilySays

LEMMA TypeInit == Init => TypeInv
<1> SUFFICES ASSUME Init PROVE TypeInv
  OBVIOUS
<1>1. events \in Seq(Messages) /\ Len(events) <= EventsMax
  BY ConnAssumption DEF Init
<1>2. /\ progress \in [Commands -> {"unsent", "sent", "begun", "ended"}]
      /\ printed \in [Commands -> 0..MaxLines]
      /\ said \in 0..MaxSaid
  BY ConnAssumption DEF Init
<1> QED BY <1>1, <1>2 DEF Init, TypeInv, TypeOK

LEMMA TypeStep == TypeInv /\ [Next]_vars => TypeInv'
<1> SUFFICES ASSUME TypeInv, [Next]_vars PROVE TypeInv'
  OBVIOUS
<1> USE ConnAssumption DEF TypeInv, TypeOK, login, wire, where, state, queue, loop, server
<1>1. CASE Dial
  BY <1>1 DEF Dial
<1>2. CASE HandshakeReadFails
  BY <1>2 DEF HandshakeReadFails
<1>13. CASE Watchdog
  BY <1>13 DEF Watchdog
<1>14. CASE Drop
  BY <1>14 DEF Drop
<1>11. CASE LoginResolved
  <2>1. cancelled' \in BOOLEAN /\ socket' \in {"up", "closed"}
    BY <1>11 DEF LoginResolved
  <2>2. connect' \in {"ok", "rejected", "failed"}
    BY <1>11 DEF LoginResolved
  <2> QED BY <1>11, <2>1, <2>2 DEF LoginResolved
<1>3. ASSUME NEW m \in Messages, HandshakeReads(m) PROVE TypeInv'
  <2>1. LilySays(m)
    BY <1>3 DEF HandshakeReads
  <2>2. applied' \subseteq 1..MaxSaid
    BY <1>3, <2>1, LilySaysTypes DEF HandshakeReads, ConnectFails
  <2>3. UNCHANGED <<events, eventsClosed, seeded, held, cancelled, loginResult, signalled,
                    where, swallowed>>
    BY <1>3 DEF HandshakeReads, ConnectFails
  <2>4. /\ connect' \in {"handshake", "wait", "rejected", "failed"}
        /\ phase' \in {"FirstPrompt", "Sync", "Ready"}
        /\ socket' \in {"up", "closed"}
        /\ readLoop' \in {"reading", readLoop}
    BY <1>3 DEF HandshakeReads, ConnectFails
  <2>5. /\ lily' \in {"greeting", "options", "outcome", "session", "live", "refused"}
        /\ progress' \in [Commands -> {"unsent", "sent", "begun", "ended"}]
        /\ printed' \in [Commands -> 0..MaxLines]
        /\ said' \in 0..MaxSaid
    BY <2>1, LilySaysTypes
  <2> HIDE DEF server
  <2> QED BY <2>2, <2>3, <2>4, <2>5
<1>4. CASE AskWhere
  <2>1. Own \in Commands
    BY DEF Commands
  <2>2. progress' \in [Commands -> {"unsent", "sent", "begun", "ended"}]
    BY <1>4, <2>1 DEF AskWhere
  <2>3. syncCloses' \in Nat
    BY <1>4 DEF AskWhere
  <2>4. waitingForWhere' \in BOOLEAN
    BY <1>4 DEF AskWhere
  <2> QED BY <1>4, <2>2, <2>3, <2>4 DEF AskWhere
<1>5. CASE LoopSends
  BY <1>5 DEF LoopSends, HasRoom
<1>6. CASE LoopStops
  BY <1>6 DEF LoopStops, Exits, Signal, EventsEnd, Outcomes
<1>7. ASSUME NEW m \in Messages, LoopReads(m) PROVE TypeInv'
  <2>0. /\ lily' \in {"greeting", "options", "outcome", "session", "live", "refused"}
        /\ progress' \in [Commands -> {"unsent", "sent", "begun", "ended"}]
        /\ printed' \in [Commands -> 0..MaxLines]
        /\ said' \in 0..MaxSaid
        /\ Applies(m) \subseteq 1..MaxSaid
    BY <1>7, LilySaysTypes DEF LoopReads
  <2>1. CASE Rejected(m)
    BY <1>7, <2>0, <2>1 DEF LoopReads, Rejected, Exits, Signal, EventsEnd, Outcomes
  <2>2. CASE Connected(m)
    BY <1>7, <2>0, <2>2 DEF LoopReads, Connected, Signal, Outcomes
  <2>3. CASE Intercepted(m)
    <3>1. m.cmd \in Commands \/ m.type # "begin"
      BY <2>3 DEF Intercepted, Intercepts, Wheres, Commands
    <3>2. seeded' \subseteq Messages /\ swallowed' \subseteq Messages
      BY <2>3 DEF Intercepted
    <3>3. whereCmdID' \in Commands \cup {None} /\ syncCloses' \in Nat
      BY <2>3, <3>1 DEF Intercepted
    <3>4. waitingForWhere' \in BOOLEAN
      BY <2>3 DEF Intercepted, WhereOver
    <3> QED BY <1>7, <2>0, <2>3, <3>2, <3>3, <3>4 DEF LoopReads, Intercepted
  <2>4. CASE Forwarded(m)
    <3>1. applied' \subseteq 1..MaxSaid
      BY <2>0, <2>4 DEF Forwarded
    <3>2. loginResult' \in Outcomes \cup {None} /\ signalled' \in BOOLEAN
      BY <2>4 DEF Forwarded, Signal, Outcomes
    <3> QED BY <1>7, <2>0, <2>4, <3>1, <3>2 DEF LoopReads, Forwarded
  <2> QED BY <1>7, <2>1, <2>2, <2>3, <2>4 DEF LoopReads
<1>8. CASE FanOutReads
  <2>1. events' \in Seq(Messages) /\ Len(events') <= EventsMax
    BY <1>8 DEF FanOutReads
  <2> QED BY <1>8, <2>1 DEF FanOutReads
<1>12. CASE FanOutEnds
  BY <1>12 DEF FanOutEnds
<1>9. ASSUME NEW x \in Typed, SendCommand(x) PROVE TypeInv'
  BY <1>9 DEF SendCommand, Commands
<1>10. CASE UNCHANGED vars
  BY <1>10 DEF vars
<1> QED BY <1>1, <1>2, <1>3, <1>4, <1>5, <1>6, <1>7, <1>8, <1>9, <1>10,
          <1>11, <1>12, <1>13, <1>14
        DEF Next, Connect, ReadLoop, FanOut

\* The connection's state keeps its types: Events never exceeds its capacity,
\* and readLoop only ever sends a message it holds.
THEOREM ConnTypeCorrect == Spec => []TypeOK
<1>1. TypeInv => TypeOK
  BY DEF TypeInv
<1> QED BY TypeInit, TypeStep, <1>1, PTL DEF Spec

-----------------------------------------------------------------------------
(* Membership: where the wait for "/where me" stands against Lily's        *)
(* progress on it.                                                         *)

\* Nobody but the connection itself asked where it is.
Quiet == \A x \in TypedWheres : progress[x] = "unsent"

SeededFrom(x) == \A n \in 1..printed[x] : Line("raw", x, n) \in seeded

WhereInv ==
    /\ readLoop = "off" => ~whereStarted
    /\ ~whereStarted \/ readLoop = "asking" => progress[Own] = "unsent"
    /\ whereCmdID # None => waitingForWhere
    /\ progress[Own] \in {"unsent", "sent"} => printed[Own] = 0
    /\ Quiet => /\ progress[Own] = "sent" => waitingForWhere /\ whereCmdID = None
                /\ progress[Own] = "begun" => waitingForWhere /\ whereCmdID = Own
                /\ waitingForWhere => progress[Own] \in {"sent", "begun"}
                /\ progress[Own] \in {"begun", "ended"} => SeededFrom(Own)

\* What a line changes of Lily's progress on the connection's own "/where me".
LEMMA LilySaysOwn ==
    ASSUME TypeOK, NEW m \in Messages, LilySays(m)
    PROVE  /\ Quiet' => Quiet
           /\ \/ /\ m.cmd # Own
                 /\ progress'[Own] = progress[Own]
                 /\ printed'[Own] = printed[Own]
              \/ /\ m = Line("begin", Own, 0)
                 /\ progress[Own] = "sent" /\ progress'[Own] = "begun"
                 /\ printed'[Own] = printed[Own]
              \/ /\ m = Line("raw", Own, printed[Own] + 1)
                 /\ progress[Own] = "begun" /\ progress'[Own] = "begun"
                 /\ printed'[Own] = printed[Own] + 1
              \/ /\ m = Line("end", Own, 0)
                 /\ progress[Own] = "begun" /\ progress'[Own] = "ended"
                 /\ printed'[Own] = printed[Own]
           /\ Quiet' /\ m.type = "begin" => m.cmd \notin TypedWheres
<1> USE ConnAssumption DEF Commands
<1>1. CASE SaysLogin(m)
  BY <1>1 DEF SaysLogin, Line, Quiet, LoginSteps
<1>2. CASE SaysMore(m)
  BY <1>2 DEF SaysMore, Line, Quiet
<1>3. CASE SaysAnswer(m)
  <2>0. /\ progress \in [Commands -> {"unsent", "sent", "begun", "ended"}]
        /\ printed \in [Commands -> 0..MaxLines]
    BY DEF TypeOK
  <2>1. PICK x \in Commands :
          \/ /\ m = Line("begin", x, 0)
             /\ Answers(m, x, "sent", "begun")
             /\ UNCHANGED printed
          \/ /\ printed[x] < MaxLines
             /\ m = Line("raw", x, printed[x] + 1)
             /\ Answers(m, x, "begun", "begun")
             /\ printed' = [printed EXCEPT ![x] = @ + 1]
          \/ /\ m = Line("end", x, 0)
             /\ Answers(m, x, "begun", "ended")
             /\ UNCHANGED printed
    BY <1>3 DEF SaysAnswer
  <2>2. m.cmd = x
    BY <2>1 DEF Line
  <2>3. \A y \in Commands : y # x => progress'[y] = progress[y]
    BY <2>0, <2>1 DEF Answers
  <2>4. progress[x] # "unsent" /\ progress'[x] # "unsent"
    BY <2>0, <2>1 DEF Answers
  <2>5. Quiet' => Quiet /\ x \notin TypedWheres
    BY <2>3, <2>4 DEF Quiet
  <2>6. CASE x = Own
    BY <2>0, <2>1, <2>5, <2>6 DEF Answers, Line
  <2>7. CASE x # Own
    <3>1. printed'[Own] = printed[Own]
      BY <2>0, <2>1, <2>7
    <3> QED BY <2>2, <2>3, <2>5, <2>7, <3>1
  <2> QED BY <2>6, <2>7
<1> QED BY <1>1, <1>2, <1>3 DEF LilySays

LEMMA WhereInit == Init => WhereInv
BY ConnAssumption DEF Init, WhereInv, Commands, Quiet, SeededFrom

LEMMA WhereStep == TypeInv /\ OneWait /\ Verdict /\ WhereInv /\ [Next]_vars => WhereInv'
<1> SUFFICES ASSUME TypeInv, OneWait, Verdict, WhereInv, [Next]_vars PROVE WhereInv'
  OBVIOUS
<1>0. /\ TypeOK
      /\ progress \in [Commands -> {"unsent", "sent", "begun", "ended"}]
      /\ printed \in [Commands -> 0..MaxLines]
      /\ Own \in Commands /\ TypedWheres \subseteq Commands \ {Own}
  BY ConnAssumption DEF TypeInv, TypeOK, Commands
<1>1. ASSUME UNCHANGED <<whereStarted, waitingForWhere, whereCmdID, seeded, progress, printed>>,
             readLoop' \in {"off", "asking"} => readLoop' = readLoop
      PROVE  WhereInv'
  BY <1>1 DEF WhereInv, Quiet, SeededFrom
<1>2. CASE Dial \/ HandshakeReadFails \/ LoginResolved \/ Watchdog \/ Drop
           \/ LoopSends \/ LoopStops \/ FanOutReads \/ FanOutEnds
  BY <1>1, <1>2 DEF Dial, HandshakeReadFails, LoginResolved, Watchdog, Drop, LoopSends,
     LoopStops, Exits, FanOutReads, FanOutEnds, where, state, server, loop
<1>3. ASSUME NEW m \in Messages, HandshakeReads(m) PROVE WhereInv'
  <2>1. /\ LilySays(m)
        /\ readLoop = "off" /\ readLoop' \in {"off", "reading"}
        /\ UNCHANGED <<whereStarted, waitingForWhere, whereCmdID, seeded>>
    BY <1>3 DEF HandshakeReads, ConnectFails, Verdict, where, state
  <2>2. ~whereStarted /\ progress[Own] = "unsent"
    BY <2>1 DEF WhereInv
  <2>3. progress'[Own] = "unsent" /\ printed'[Own] = printed[Own] /\ (Quiet' => Quiet)
    BY <1>0, <2>1, <2>2, LilySaysOwn
  <2> QED BY <2>1, <2>2, <2>3 DEF WhereInv, OneWait
<1>4. CASE AskWhere
  <2>1. /\ ~waitingForWhere /\ whereCmdID = None /\ progress[Own] = "unsent" /\ whereStarted
        /\ printed[Own] = 0
    BY <1>4 DEF AskWhere, OneWait, WhereInv
  <2>2. UNCHANGED <<whereStarted, whereCmdID, seeded, printed>> /\ readLoop' = "reading"
    BY <1>4 DEF AskWhere, state
  <2>3. CASE socket = "up"
    BY <1>0, <1>4, <2>1, <2>2, <2>3 DEF AskWhere, WhereInv
  <2>4. CASE socket # "up"
    BY <1>0, <1>4, <2>1, <2>2, <2>4 DEF AskWhere, WhereInv
  <2> QED BY <2>3, <2>4
<1>5. ASSUME NEW m \in Messages, LoopReads(m) PROVE WhereInv'
  <2>0. readLoop = "reading" /\ LilySays(m)
    BY <1>5 DEF LoopReads
  <2>1. CASE ~Intercepts(m)
    <3>1. /\ UNCHANGED <<waitingForWhere, whereCmdID, seeded>>
          /\ readLoop' # "off"
          /\ whereStarted => whereStarted'
          /\ readLoop' = "asking" => m.type = "connected" /\ ~whereStarted
          /\ ~whereStarted' => ~whereStarted
      BY <1>5, <2>1 DEF LoopReads, Rejected, Exits, Connected, Intercepted, Forwarded, where, state
    <3>2. CASE m.cmd = Own
      <4>1. progress[Own] \in {"sent", "begun"} /\ whereStarted
        BY <1>0, <2>0, <3>2, LilySaysOwn DEF WhereInv
      <4>2. m.type \in {"begin", "raw", "end"}
        BY <1>0, <2>0, <3>2, LilySaysOwn DEF Line
      <4>3. ~Quiet
        <5>1. Own # None /\ Own \in Wheres
          BY ConnAssumption DEF Commands, Wheres
        <5>2. \/ m.type = "begin" /\ progress[Own] = "sent"
              \/ m.type \in {"raw", "end"} /\ progress[Own] = "begun"
          BY <1>0, <2>0, <3>2, LilySaysOwn DEF Line
        <5> QED BY <2>1, <3>2, <5>1, <5>2 DEF WhereInv, Intercepts, EndsWhere
      <4>4. ~Quiet'
        BY <1>0, <2>0, <4>3, LilySaysOwn
      <4>5. progress'[Own] \in {"begun", "ended"} /\ whereStarted'
        BY <1>0, <2>0, <3>1, <3>2, <4>1, LilySaysOwn
      <4> QED BY <2>0, <3>1, <4>1, <4>2, <4>4, <4>5 DEF WhereInv
    <3>3. CASE m.cmd # Own
      <4>1. /\ progress'[Own] = progress[Own] /\ printed'[Own] = printed[Own]
            /\ Quiet' => Quiet
        BY <1>0, <2>0, <3>3, LilySaysOwn DEF Line
      <4> QED BY <2>0, <3>1, <4>1 DEF WhereInv, SeededFrom
    <3> QED BY <3>2, <3>3
  <2>2. CASE Intercepts(m)
    <3>1. CASE ~Intercepted(m)
      <4>1. CASE Rejected(m)
        BY <2>2, <4>1 DEF Rejected, Intercepts
      <4>2. CASE Connected(m)
        BY <2>2, <4>2 DEF Connected, Intercepts
      <4> QED BY <1>5, <2>2, <3>1, <4>1, <4>2 DEF LoopReads, Forwarded
    <3>2. CASE Intercepted(m)
      <4>1. /\ waitingForWhere /\ whereStarted
            /\ UNCHANGED <<whereStarted, readLoop>>
            /\ seeded \subseteq seeded'
        BY <2>2, <3>2 DEF Intercepted, Intercepts, OneWait
      <4>2. CASE m.cmd = Own
        <5>0. Own # None /\ (Quiet' => Quiet)
          BY <1>0, <2>0, ConnAssumption, LilySaysOwn DEF Commands
        <5>1. CASE m.type = "begin"
          <6>1. progress[Own] = "sent" /\ progress'[Own] = "begun" /\ printed'[Own] = 0
            BY <1>0, <2>0, <4>2, <5>1, LilySaysOwn DEF Line, WhereInv
          <6>2. whereCmdID' = Own /\ UNCHANGED waitingForWhere
            BY <3>2, <4>2, <5>1 DEF Intercepted
          <6> QED BY <2>0, <4>1, <5>0, <6>1, <6>2 DEF WhereInv, SeededFrom
        <5>2. CASE m.type \in {"raw", "text"}
          <6>1. /\ m = Line("raw", Own, printed[Own] + 1)
                /\ progress[Own] = "begun" /\ progress'[Own] = "begun"
                /\ printed'[Own] = printed[Own] + 1
            BY <1>0, <2>0, <4>2, <5>2, LilySaysOwn DEF Line
          <6>2. UNCHANGED <<whereCmdID, waitingForWhere>> /\ m \in seeded'
            BY <3>2, <5>2 DEF Intercepted
          <6>3. SeededFrom(Own) => SeededFrom(Own)'
            <7>1. \A n \in 1..printed'[Own] : n \in 1..printed[Own] \/ n = printed[Own] + 1
              BY <1>0, <6>1
            <7> QED BY <4>1, <6>1, <6>2, <7>1 DEF SeededFrom
          <6> QED BY <2>0, <4>1, <5>0, <6>1, <6>2, <6>3 DEF WhereInv
        <5>3. CASE m.type = "end"
          <6>1. /\ progress[Own] = "begun" /\ progress'[Own] = "ended"
                /\ printed'[Own] = printed[Own]
            BY <1>0, <2>0, <4>2, <5>3, LilySaysOwn DEF Line
          <6>2. whereCmdID' = None /\ ~waitingForWhere'
            BY <3>2, <5>3 DEF Intercepted, WhereOver
          <6> QED BY <2>0, <4>1, <5>0, <6>1, <6>2 DEF WhereInv, SeededFrom
        <5> QED BY <2>2, <5>1, <5>2, <5>3 DEF Intercepts
      <4>3. CASE m.cmd # Own
        <5>1. /\ progress'[Own] = progress[Own] /\ printed'[Own] = printed[Own]
              /\ Quiet' => Quiet /\ (m.type = "begin" => m.cmd \notin TypedWheres)
          BY <1>0, <2>0, <4>3, LilySaysOwn DEF Line
        <5>2. CASE m.type = "begin"
          BY <2>2, <3>2, <4>1, <4>3, <5>1, <5>2
          DEF Intercepted, Intercepts, Wheres, WhereInv
        <5>3. CASE m.type \in {"raw", "text"}
          <6>1. UNCHANGED <<whereCmdID, waitingForWhere>>
            BY <3>2, <5>3 DEF Intercepted
          <6>2. SeededFrom(Own) => SeededFrom(Own)'
            BY <4>1, <5>1 DEF SeededFrom
          <6> QED BY <2>0, <4>1, <5>1, <6>1, <6>2 DEF WhereInv
        <5>4. CASE m.type = "end"
          BY <1>0, <2>0, <2>2, <3>2, <4>1, <4>3, <5>1, <5>4
          DEF Intercepted, Intercepts, EndsWhere, WhereOver, WhereInv
        <5> QED BY <2>2, <5>2, <5>3, <5>4 DEF Intercepts
      <4> QED BY <4>2, <4>3
    <3> QED BY <3>1, <3>2
  <2> QED BY <2>1, <2>2
<1>6. ASSUME NEW x \in Typed, SendCommand(x) PROVE WhereInv'
  <2>1. /\ UNCHANGED <<whereStarted, waitingForWhere, whereCmdID, seeded, printed, readLoop>>
        /\ progress' = [progress EXCEPT ![x] = "sent"]
    BY <1>6 DEF SendCommand, where, state, loop
  <2>2. x # Own /\ x \in Commands
    BY ConnAssumption DEF Commands
  <2>3. progress'[Own] = progress[Own] /\ (Quiet' => Quiet)
    <3>1. \A y \in TypedWheres : progress[y] # "unsent" => progress'[y] # "unsent"
      BY <1>0, <2>1
    <3> QED BY <1>0, <2>1, <2>2, <3>1 DEF Quiet
  <2> QED BY <2>1, <2>3 DEF WhereInv, SeededFrom
<1>7. CASE UNCHANGED vars
  BY <1>1, <1>7 DEF vars, where, state, server, loop
<1> QED BY <1>2, <1>3, <1>4, <1>5, <1>6, <1>7 DEF Next, Connect, ReadLoop, FanOut

-----------------------------------------------------------------------------
(* State is ahead of what is in flight to fanOut.                          *)

Ahead(m) == m.type = "note" => m.n \in applied

AheadInv ==
    /\ \A i \in DOMAIN events : Ahead(events[i])
    /\ held # None => Ahead(held)
    /\ readLoop = "sending" => Ahead(held)

LEMMA AheadStep == TypeInv /\ AheadInv /\ [Next]_vars => AheadInv'
<1> SUFFICES ASSUME TypeInv, AheadInv, [Next]_vars PROVE AheadInv'
  OBVIOUS
<1>0. events \in Seq(Messages)
  BY DEF TypeInv, TypeOK
<1>1. ASSUME applied \subseteq applied', UNCHANGED events,
             \/ held' = None /\ readLoop' # "sending"
             \/ UNCHANGED held /\ (readLoop' = "sending" => readLoop = "sending")
      PROVE  AheadInv'
  BY <1>1 DEF AheadInv, Ahead
<1>2. CASE Dial \/ HandshakeReadFails \/ LoginResolved \/ Watchdog \/ Drop
           \/ AskWhere \/ LoopStops \/ FanOutEnds
  BY <1>1, <1>2 DEF Dial, HandshakeReadFails, LoginResolved, Watchdog, Drop, AskWhere,
     LoopStops, Exits, FanOutEnds, state, queue, loop
<1>3. ASSUME NEW m \in Messages, HandshakeReads(m) PROVE AheadInv'
  BY <1>1, <1>3 DEF HandshakeReads, ConnectFails, state, queue
<1>4. CASE LoopSends
  <2>1. /\ events' = Append(events, held) /\ UNCHANGED applied
        /\ readLoop = "sending" /\ readLoop' = "reading" /\ held' = None
        /\ held \in Messages
    BY <1>4 DEF LoopSends, state, TypeInv
  <2>2. ASSUME NEW i \in DOMAIN events' PROVE Ahead(events'[i])
    <3>1. \/ i \in DOMAIN events /\ events'[i] = events[i]
          \/ events'[i] = held
      BY <1>0, <2>1, <2>2
    <3> QED BY <2>1, <3>1 DEF AheadInv
  <2> QED BY <2>1, <2>2 DEF AheadInv, Ahead
<1>5. ASSUME NEW m \in Messages, LoopReads(m) PROVE AheadInv'
  <2>1. UNCHANGED events /\ readLoop = "reading"
    BY <1>5 DEF LoopReads
  <2>2. CASE Forwarded(m)
    <3>1. applied' = applied \cup Applies(m) /\ held' = m
      BY <2>2 DEF Forwarded
    <3>2. Ahead(m)'
      BY <3>1 DEF Applies, Ahead
    <3> QED BY <2>1, <3>1, <3>2 DEF AheadInv, Ahead
  <2>3. CASE ~Forwarded(m)
    <3>1. \/ UNCHANGED <<held, applied>> \/ (held' = None /\ UNCHANGED applied)
      BY <1>5, <2>3 DEF LoopReads, Rejected, Exits, Connected, Intercepted, state
    <3>2. readLoop' # "sending"
      BY <1>5, <2>1, <2>3 DEF LoopReads, Rejected, Exits, Connected, Intercepted
    <3> QED BY <1>1, <2>1, <3>1, <3>2
  <2> QED BY <2>2, <2>3
<1>6. CASE FanOutReads
  <2>1. /\ events' = Tail(events) /\ events # <<>>
        /\ UNCHANGED <<applied, held, readLoop>>
    BY <1>6 DEF FanOutReads, state, loop
  <2>2. ASSUME NEW i \in DOMAIN events' PROVE Ahead(events'[i])
    <3>1. i + 1 \in DOMAIN events /\ events'[i] = events[i + 1]
      BY <1>0, <2>1, <2>2
    <3> QED BY <3>1 DEF AheadInv
  <2> QED BY <2>1, <2>2 DEF AheadInv, Ahead
<1>7. ASSUME NEW x \in Typed, SendCommand(x) PROVE AheadInv'
  BY <1>1, <1>7 DEF SendCommand, state, queue, loop
<1>8. CASE UNCHANGED vars
  BY <1>1, <1>8 DEF vars, state, queue, loop
<1> QED BY <1>2, <1>3, <1>4, <1>5, <1>6, <1>7, <1>8 DEF Next, Connect, ReadLoop, FanOut

\* Who waited for syncComplete sees membership seeded from every line of the
\* answer to "/where me", unless a client asked its own; and no client hears of
\* a change that State does not show yet.
THEOREM StateIsAhead == Spec => []StateIsSeededAndAhead
<1>1. Init => OneWait /\ Verdict /\ AheadInv
  BY ConnAssumption DEF Init, OneWait, Verdict, AheadInv, Outcomes
<1>2. ASSUME TypeInv, OneWait, WhereInv PROVE SyncMeansSeeded
  <2> SUFFICES ASSUME syncCloses > 0, progress[Own] # "unsent", Quiet
               PROVE  progress[Own] = "ended" /\ SeededFrom(Own)
    BY DEF SyncMeansSeeded, Quiet, SeededFrom
  <2>1. ~waitingForWhere
    BY <1>2 DEF OneWait
  <2>2. progress[Own] \in {"unsent", "sent", "begun", "ended"}
    BY <1>2 DEF TypeInv, TypeOK, Commands
  <2> QED BY <1>2, <2>1, <2>2 DEF WhereInv
<1>3. ASSUME AheadInv PROVE StateAheadOfEvents
  BY <1>3 DEF AheadInv, Ahead, StateAheadOfEvents
<1> QED BY TypeInit, TypeStep, OneWaitStep, VerdictStep, WhereInit, WhereStep, AheadStep,
           <1>1, <1>2, <1>3, PTL DEF Spec, StateIsSeededAndAhead

-----------------------------------------------------------------------------
(* The State that the reader of the connection keeps (LilyState).              *)

\* Lily's world: who is there is named apart, whatever the case.
WorldInv ==
    /\ exists \subseteq Picture!Handles /\ Users \subseteq exists
    /\ gone \cap exists = {}
    /\ nameAt \in [Picture!Handles -> Names]
    /\ valueAt \in [Picture!Handles -> Values]
    /\ groupsAt \subseteq Names
    /\ memberAt \subseteq exists \cap Discs
    /\ Picture!NamesUnique

\* The two indices agree with it and with each other, and an outdated name is one
\* that a discussion has left.
IndexInv ==
    /\ Picture!NamesFindTheirEntity /\ Picture!OldNamesFindNothing
    /\ retitled \cup renamed \subseteq exists \cap Discs
    /\ \A h \in DOMAIN byHandle : byHandle[h] \in [name : Names, value : Values]
    /\ \A h \in DOMAIN byHandle \cap renamed : fold[byHandle[h].name] \in vacated

\* What shows as ours is ours unless it is gone; once /where is answered all that
\* exists is known, and all that is ours shows; unless the answer named what the
\* index did not know by that name.
MemberInv ==
    /\ whoami \in {Me, None}
    /\ whoami = None => discMembership = {} /\ ~synced
    /\ discMembership \subseteq exists \cup gone
    /\ synced => exists \subseteq DOMAIN byHandle
    /\ ~blind => /\ discMembership \cap exists \subseteq memberAt
                 /\ synced => memberAt \subseteq discMembership

PictureInv == WorldInv /\ IndexInv /\ MemberInv

LEMMA PictureInit ==
    ASSUME Picture!StateAssumption, Picture!Init
    PROVE  PictureInv
<1>1. WorldInv
  BY DEF Picture!Init, Picture!StateAssumption, Picture!Handles, WorldInv
<1>2. IndexInv
  BY DEF Picture!Init, IndexInv, Picture!NamesFindTheirEntity, Picture!OldNamesFindNothing
<1>3. MemberInv
  BY DEF Picture!Init, MemberInv
<1> QED BY <1>1, <1>2, <1>3 DEF PictureInv

LEMMA WorldStep ==
    ASSUME Picture!StateAssumption, WorldInv, [Picture!Next]_(Picture!vars)
    PROVE  WorldInv'
<1>1. CASE \E d \in Discs, n \in Names, v \in Values : Picture!Create(d, n, v)
  <2> PICK d \in Discs, n \in Names, v \in Values : Picture!Create(d, n, v)
    BY <1>1
  <2> USE DEF Picture!Create
  <2>1. Picture!NamesUnique'
    BY DEF WorldInv, Picture!NamesUnique, Picture!Taken, Picture!Handles
  <2> QED BY <2>1 DEF WorldInv, Picture!Handles
<1>2. CASE \E n \in Names : Picture!DescribeGroup(n) \/ Picture!MakeGroup(n) \/ Picture!DropGroup(n)
  <2> PICK n \in Names : Picture!DescribeGroup(n) \/ Picture!MakeGroup(n) \/ Picture!DropGroup(n)
    BY <1>2
  <2>1. UNCHANGED <<exists, gone, nameAt, valueAt, memberAt>>
    BY DEF Picture!DescribeGroup, Picture!MakeGroup, Picture!DropGroup, Picture!world
  <2>2. groupsAt' \subseteq Names /\ Picture!NamesUnique'
    BY <2>1 DEF WorldInv, Picture!NamesUnique, Picture!Taken, Picture!DescribeGroup,
                Picture!MakeGroup, Picture!DropGroup, Picture!world
  <2> QED BY <2>1, <2>2 DEF WorldInv
<1>3. CASE \E u \in Users, n \in Names : Picture!Rename(u, n)
  <2> PICK u \in Users, n \in Names : Picture!Rename(u, n)
    BY <1>3
  <2> USE DEF Picture!Rename
  <2>1. nameAt' = [nameAt EXCEPT ![u] = n] /\ u \in Picture!Handles
    BY DEF Picture!Handles
  <2>2. Picture!NamesUnique'
    BY <2>1 DEF WorldInv, Picture!NamesUnique, Picture!Taken
  <2> QED BY <2>1, <2>2 DEF WorldInv
<1>4. CASE \/ \E u \in Users, v \in Values : Picture!Change(u, v)
           \/ \E u \in Users, d \in Discs, v \in Values : Picture!Retitle(u, d, v)
  BY <1>4 DEF WorldInv, Picture!Change, Picture!Retitle, Picture!NamesUnique
<1>5. CASE \E D \in SUBSET Discs : Picture!Destroy(D)
  BY <1>5 DEF WorldInv, Picture!Destroy, Picture!NamesUnique, Picture!StateAssumption
<1>6. CASE \E u \in Users, D \in SUBSET Discs : Picture!Join(u, D) \/ Picture!Quit(u, D)
  BY <1>6 DEF WorldInv, Picture!Join, Picture!Quit, Picture!NamesUnique
<1>7. CASE \/ \E h \in Picture!Handles : Picture!Describe(h)
           \/ Picture!SetWhoami \/ Picture!AnswerWhere
           \/ UNCHANGED Picture!vars
  <2>1. UNCHANGED Picture!world
    BY <1>7 DEF Picture!Describe, Picture!SetWhoami, Picture!AnswerWhere, Picture!vars
  <2> QED BY <2>1 DEF WorldInv, Picture!world, Picture!NamesUnique
<1>8. CASE \E d \in Discs, n \in Names : Picture!DRename(d, n)
  <2> PICK d \in Discs, n \in Names : Picture!DRename(d, n)
    BY <1>8
  <2> USE DEF Picture!DRename
  <2>1. nameAt' = [nameAt EXCEPT ![d] = n] /\ d \in Picture!Handles
    BY DEF Picture!Handles
  <2>2. Picture!NamesUnique'
    BY <2>1 DEF WorldInv, Picture!NamesUnique, Picture!Taken
  <2> QED BY <2>1, <2>2 DEF WorldInv
<1> QED BY <1>1, <1>2, <1>3, <1>4, <1>5, <1>6, <1>7, <1>8 DEF Picture!Next

\* A record of one entity, known or new, disturbs no other's entry.
LEMMA UpsertIndex ==
    ASSUME WorldInv', IndexInv, NEW h \in exists', NEW n \in Names, NEW v \in Values,
           Picture!Upsert(h, n, v), exists \subseteq exists',
           n = nameAt'[h], v = valueAt'[h],
           \A i \in DOMAIN byHandle : nameAt'[i] = nameAt[i],
           \A i \in DOMAIN byHandle : valueAt'[i] = valueAt[i],
           retitled' = retitled \ {h}, renamed' = renamed \ {h}, vacated' = vacated
    PROVE  IndexInv'
<1> USE DEF IndexInv, Picture!NamesFindTheirEntity, Picture!OldNamesFindNothing
<1>1. byHandle' = Picture!Put(byHandle, h, [name |-> n, value |-> v])
  BY DEF Picture!Upsert
<1>2. /\ DOMAIN byHandle' = DOMAIN byHandle \cup {h} /\ byHandle'[h] = [name |-> n, value |-> v]
      /\ \A i \in DOMAIN byHandle \ {h} : byHandle'[i] = byHandle[i]
  BY <1>1 DEF Picture!Put
<1>3. \A i \in DOMAIN byHandle \ {h} : fold[nameAt'[i]] # fold[n]
  BY DEF WorldInv, Picture!NamesUnique
<1>4. /\ retitled' \cup renamed' \subseteq exists' \cap Discs
      /\ \A i \in DOMAIN byHandle' : byHandle'[i] \in [name : Names, value : Values]
      /\ \A i \in DOMAIN byHandle' \cap renamed' : fold[byHandle'[i].name] \in vacated'
  BY <1>2
<1>5. \A i \in DOMAIN byHandle' :
         /\ i \in exists'
         /\ i \notin retitled' => byHandle'[i].value = valueAt'[i]
         /\ i \notin renamed' => byHandle'[i].name = nameAt'[i]
  BY <1>2
<1>6. CASE h \in DOMAIN byHandle /\ byHandle[h].name = n
  <2>1. byName' = byName
    BY <1>6 DEF Picture!Upsert
  <2>2. Picture!OldNamesFindNothing'
    BY <1>2, <1>6, <2>1
  <2>3. fold[n] \notin vacated => fold[n] \in DOMAIN byName /\ byName[fold[n]] = h
    BY <1>6
  <2>4. Picture!NamesFindTheirEntity'
    BY <1>2, <1>5, <2>1, <2>3
  <2> QED BY <1>4, <2>2, <2>4
<1>7. CASE ~(h \in DOMAIN byHandle /\ byHandle[h].name = n)
  <2> DEFINE old == IF h \in DOMAIN byHandle THEN {fold[byHandle[h].name]} ELSE {}
  <2>1. /\ DOMAIN byName' = (DOMAIN byName \ old) \cup {fold[n]} /\ byName'[fold[n]] = h
        /\ \A k \in DOMAIN byName \ old : k # fold[n] => byName'[k] = byName[k]
    BY <1>7 DEF Picture!Upsert, Picture!Indexed, Picture!Put, Picture!Without, Picture!Restrict
  <2>2. \A k \in DOMAIN byName \ old : byName[k] # "group" => byName[k] # h
    OBVIOUS
  <2>3. \A i \in DOMAIN byHandle \ {h} :
           i \notin renamed /\ fold[nameAt[i]] \notin vacated => fold[nameAt[i]] \notin old
    BY DEF WorldInv, Picture!NamesUnique
  <2> HIDE DEF old
  <2>4. Picture!OldNamesFindNothing'
    BY <1>2, <2>1, <2>2
  <2>5. \A i \in DOMAIN byHandle' : i \notin renamed' /\ fold[nameAt'[i]] \notin vacated' =>
           fold[nameAt'[i]] \in DOMAIN byName' /\ byName'[fold[nameAt'[i]]] = i
    BY <1>2, <1>3, <2>1, <2>3
  <2>6. Picture!NamesFindTheirEntity'
    BY <1>5, <2>5
  <2> QED BY <1>4, <2>4, <2>6
<1> QED BY <1>6, <1>7

LEMMA RenameIndex ==
    ASSUME Picture!StateAssumption, WorldInv, IndexInv,
           NEW u \in Users, NEW n \in Names, Picture!Rename(u, n)
    PROVE  IndexInv'
<1> USE DEF IndexInv, Picture!NamesFindTheirEntity, Picture!OldNamesFindNothing
<1>1. /\ nameAt' = [nameAt EXCEPT ![u] = n] /\ u \in Picture!Handles /\ u \in exists
      /\ UNCHANGED <<exists, valueAt, retitled, renamed, vacated>>
  BY DEF Picture!Rename, Picture!Handles, Picture!history, WorldInv
<1>2. nameAt'[u] = n /\ \A i \in Picture!Handles \ {u} : nameAt'[i] = nameAt[i]
  BY <1>1 DEF WorldInv
<1>3. DOMAIN byHandle \subseteq Picture!Handles /\ u \notin renamed
  BY DEF WorldInv, Picture!StateAssumption
<1>4. CASE u \notin DOMAIN byHandle
  <2>1. byHandle' = byHandle /\ byName' = byName
    BY <1>4 DEF Picture!Rename, Picture!ApplyRename, Picture!index
  <2> QED BY <1>1, <1>2, <1>3, <1>4, <2>1
<1>5. CASE u \in DOMAIN byHandle
  <2>1. byHandle' = [byHandle EXCEPT ![u].name = n]
    BY <1>5 DEF Picture!Rename, Picture!ApplyRename
  <2>2. /\ DOMAIN byHandle' = DOMAIN byHandle
        /\ byHandle'[u].name = n /\ byHandle'[u].value = byHandle[u].value
        /\ byHandle'[u] \in [name : Names, value : Values]
        /\ \A i \in DOMAIN byHandle \ {u} : byHandle'[i] = byHandle[i]
    BY <1>5, <2>1
  <2>3. byHandle[u].name = nameAt[u]
    BY <1>3, <1>5
  <2>4. byName' = Picture!Put(Picture!Without(byName, {fold[nameAt[u]]}), fold[n], u)
    BY <1>5, <2>3 DEF Picture!Rename, Picture!ApplyRename, Picture!Indexed
  <2>5. /\ DOMAIN byName' = (DOMAIN byName \ {fold[nameAt[u]]}) \cup {fold[n]} /\ byName'[fold[n]] = u
        /\ \A k \in DOMAIN byName \ {fold[nameAt[u]]} : k # fold[n] => byName'[k] = byName[k]
    BY <2>4 DEF Picture!Put, Picture!Without, Picture!Restrict
  <2>6. \A i \in DOMAIN byHandle \ {u} :
           fold[nameAt[i]] # fold[nameAt[u]] /\ fold[nameAt[i]] # fold[n]
    BY <1>1 DEF Picture!Rename, Picture!Taken, WorldInv, Picture!NamesUnique
  <2>7. \A i \in DOMAIN byHandle' :
           /\ i \in exists'
           /\ i \notin retitled' => byHandle'[i].value = valueAt'[i]
           /\ i \notin renamed' => byHandle'[i].name = nameAt'[i]
    BY <1>1, <1>2, <1>3, <1>5, <2>2
  <2>8. \A i \in DOMAIN byHandle' : i \notin renamed' /\ fold[nameAt'[i]] \notin vacated' =>
           fold[nameAt'[i]] \in DOMAIN byName' /\ byName'[fold[nameAt'[i]]] = i
    BY <1>1, <1>2, <1>3, <2>2, <2>5, <2>6
  <2>9. Picture!OldNamesFindNothing'
    <3>1. \A k \in DOMAIN byName \ {fold[nameAt[u]]} : byName[k] # "group" => byName[k] # u
      BY <2>3
    <3> QED BY <1>5, <2>2, <2>5, <3>1
  <2>10. /\ retitled' \cup renamed' \subseteq exists' \cap Discs
         /\ \A i \in DOMAIN byHandle' : byHandle'[i] \in [name : Names, value : Values]
         /\ \A i \in DOMAIN byHandle' \cap renamed' : fold[byHandle'[i].name] \in vacated'
    BY <1>1, <1>3, <2>2
  <2>11. Picture!NamesFindTheirEntity'
    BY <2>7, <2>8
  <2> QED BY <2>9, <2>10, <2>11
<1> QED BY <1>4, <1>5

\* The name a discussion leaves is one that promises nothing any more.
LEMMA DRenameIndex ==
    ASSUME Picture!StateAssumption, WorldInv, IndexInv,
           NEW d \in Discs, NEW n \in Names, Picture!DRename(d, n)
    PROVE  IndexInv'
<1> USE DEF IndexInv, Picture!NamesFindTheirEntity, Picture!OldNamesFindNothing
<1>1. /\ nameAt' = [nameAt EXCEPT ![d] = n] /\ d \in Picture!Handles
      /\ UNCHANGED <<exists, valueAt, byHandle, byName, retitled>>
      /\ renamed' = renamed \cup {d} /\ vacated' = vacated \cup {fold[nameAt[d]]}
  BY DEF Picture!DRename, Picture!Handles, Picture!index
<1>2. \A i \in Picture!Handles \ {d} : nameAt'[i] = nameAt[i]
  BY <1>1 DEF WorldInv
<1>3. DOMAIN byHandle \subseteq Picture!Handles
  BY DEF WorldInv
<1>4. \A i \in DOMAIN byHandle \cap renamed' : fold[byHandle[i].name] \in vacated'
  BY <1>1
<1>5. d \in exists /\ renamed' \subseteq exists' \cap Discs
  BY <1>1 DEF Picture!DRename
<1> QED BY <1>1, <1>2, <1>3, <1>4, <1>5

\* What is destroyed takes its own entry along, or one that promises nothing.
LEMMA DestroyIndex ==
    ASSUME WorldInv, IndexInv, NEW D \in SUBSET Discs, Picture!Destroy(D)
    PROVE  IndexInv'
<1> DEFINE known == D \cap DOMAIN byHandle \cap Discs
           keys == {fold[byHandle[d].name] : d \in known}
<1> USE DEF IndexInv, Picture!NamesFindTheirEntity, Picture!OldNamesFindNothing
<1>1. /\ byName' = Picture!Without(byName, keys)
      /\ byHandle' = Picture!Without(byHandle, known)
      /\ exists' = exists \ D /\ UNCHANGED <<nameAt, valueAt, vacated>>
      /\ retitled' = retitled \ D /\ renamed' = renamed \ D
  BY DEF Picture!Destroy, Picture!ApplyDestroy
<1>2. DOMAIN byHandle' = DOMAIN byHandle \ D /\ DOMAIN byName' = DOMAIN byName \ keys
  BY <1>1 DEF Picture!Without, Picture!Restrict
<1>3. \A i \in DOMAIN byHandle \ D :
         i \notin renamed /\ fold[nameAt[i]] \notin vacated => fold[nameAt[i]] \notin keys
  <2> SUFFICES ASSUME NEW i \in DOMAIN byHandle \ D, NEW d \in known, i \notin renamed,
                      fold[nameAt[i]] \notin vacated, fold[nameAt[i]] = fold[byHandle[d].name]
               PROVE  FALSE
    OBVIOUS
  <2>1. d \notin renamed
    OBVIOUS
  <2> QED BY <2>1 DEF WorldInv, Picture!NamesUnique
<1>4. \A i \in DOMAIN byHandle' : byHandle'[i] = byHandle[i]
  BY <1>1 DEF Picture!Without, Picture!Restrict
<1>5. \A k \in DOMAIN byName' : byName'[k] = byName[k]
  BY <1>1 DEF Picture!Without, Picture!Restrict
<1>6. \A k \in DOMAIN byName' : byName[k] # "group" => byName[k] \notin D
  BY <1>2
<1> HIDE DEF keys, known
<1> QED BY <1>1, <1>2, <1>3, <1>4, <1>5, <1>6

LEMMA IndexStep ==
    ASSUME Picture!StateAssumption, WorldInv, WorldInv', IndexInv,
           [Picture!Next]_(Picture!vars)
    PROVE  IndexInv'
<1>1. CASE \E h \in Picture!Handles : Picture!Describe(h)
  <2> PICK h \in Picture!Handles : Picture!Describe(h)
    BY <1>1
  <2>1. /\ UNCHANGED <<exists, nameAt, valueAt, vacated>> /\ h \in exists
        /\ retitled' = retitled \ {h} /\ renamed' = renamed \ {h}
        /\ Picture!Upsert(h, nameAt[h], valueAt[h])
    BY DEF Picture!Describe, Picture!world
  <2>2. nameAt[h] \in Names /\ valueAt[h] \in Values
    BY DEF WorldInv
  <2> QED BY <2>1, <2>2, UpsertIndex
<1>2. CASE \E d \in Discs, n \in Names, v \in Values : Picture!Create(d, n, v)
  <2> PICK d \in Discs, n \in Names, v \in Values : Picture!Create(d, n, v)
    BY <1>2
  <2>1. /\ exists' = exists \cup {d} /\ d \notin exists
        /\ nameAt' = [nameAt EXCEPT ![d] = n]
        /\ valueAt' = [valueAt EXCEPT ![d] = v]
        /\ Picture!Upsert(d, n, v)
        /\ retitled' = retitled \ {d} /\ renamed' = renamed \ {d} /\ vacated' = vacated
    BY DEF Picture!Create, Picture!history, IndexInv
  <2>2. nameAt'[d] = n /\ valueAt'[d] = v
    BY <2>1 DEF WorldInv, Picture!Handles
  <2>3. \A i \in DOMAIN byHandle : nameAt'[i] = nameAt[i] /\ valueAt'[i] = valueAt[i]
    BY <2>1 DEF WorldInv, IndexInv, Picture!NamesFindTheirEntity
  <2> QED BY <2>1, <2>2, <2>3, UpsertIndex
<1>3. CASE \E n \in Names : Picture!DescribeGroup(n)
  BY <1>3 DEF Picture!DescribeGroup, Picture!ApplyGroup, Picture!Put, Picture!world,
              Picture!history, IndexInv,
              Picture!NamesFindTheirEntity, Picture!OldNamesFindNothing
<1>4. CASE \E u \in Users, n \in Names : Picture!Rename(u, n)
  BY <1>4, RenameIndex
<1>5. CASE \E u \in Users, v \in Values : Picture!Change(u, v)
  <2> PICK u \in Users, v \in Values : Picture!Change(u, v)
    BY <1>5
  <2>1. /\ UNCHANGED <<exists, nameAt, byName, retitled, renamed, vacated>>
        /\ valueAt' = [valueAt EXCEPT ![u] = v]
        /\ byHandle' = IF u \in DOMAIN byHandle THEN [byHandle EXCEPT ![u].value = v]
                       ELSE byHandle
    BY DEF Picture!Change, Picture!ApplyValue, Picture!history
  <2>2. /\ DOMAIN byHandle' = DOMAIN byHandle
        /\ \A i \in DOMAIN byHandle \ {u} : byHandle'[i] = byHandle[i]
        /\ u \in DOMAIN byHandle => byHandle'[u] = [name |-> byHandle[u].name, value |-> v]
    BY <2>1 DEF IndexInv
  <2>3. valueAt'[u] = v /\ \A i \in DOMAIN byHandle \ {u} : valueAt'[i] = valueAt[i]
    BY <2>1 DEF WorldInv, Picture!Handles, IndexInv, Picture!NamesFindTheirEntity
  <2> QED BY <2>1, <2>2, <2>3 DEF IndexInv, Picture!NamesFindTheirEntity, Picture!OldNamesFindNothing
<1>6. CASE \E D \in SUBSET Discs : Picture!Destroy(D)
  BY <1>6, DestroyIndex
<1>7. CASE \/ \E n \in Names : Picture!MakeGroup(n) \/ Picture!DropGroup(n)
           \/ \E u \in Users, D \in SUBSET Discs : Picture!Join(u, D) \/ Picture!Quit(u, D)
           \/ Picture!SetWhoami \/ Picture!AnswerWhere
           \/ UNCHANGED Picture!vars
  <2>1. UNCHANGED <<exists, nameAt, valueAt, byHandle, byName, retitled, renamed, vacated>>
    BY <1>7 DEF Picture!MakeGroup, Picture!DropGroup, Picture!Join, Picture!Quit,
                Picture!SetWhoami, Picture!AnswerWhere, Picture!vars, Picture!world, Picture!index,
                Picture!history
  <2> QED BY <2>1 DEF IndexInv, Picture!NamesFindTheirEntity, Picture!OldNamesFindNothing
<1>8. CASE \E u \in Users, d \in Discs, v \in Values : Picture!Retitle(u, d, v)
  <2> PICK u \in Users, d \in Discs, v \in Values : Picture!Retitle(u, d, v)
    BY <1>8
  <2>1. u \notin Discs
    BY DEF Picture!StateAssumption
  <2>2. /\ UNCHANGED <<exists, nameAt, byName, byHandle, renamed, vacated>> /\ d \in exists
        /\ valueAt' = [valueAt EXCEPT ![d] = v] /\ retitled' = retitled \cup {d}
    BY <2>1 DEF Picture!Retitle, Picture!ApplyRetitle
  <2>3. \A i \in DOMAIN byHandle \ {d} : valueAt'[i] = valueAt[i]
    BY <2>2 DEF WorldInv, IndexInv, Picture!NamesFindTheirEntity
  <2> QED BY <2>2, <2>3 DEF IndexInv, Picture!NamesFindTheirEntity, Picture!OldNamesFindNothing
<1>9. CASE \E d \in Discs, n \in Names : Picture!DRename(d, n)
  BY <1>9, DRenameIndex
<1> QED BY <1>1, <1>2, <1>3, <1>4, <1>5, <1>6, <1>7, <1>8, <1>9 DEF Picture!Next

\* While no discussion was renamed, the names Lily lists are those of our
\* discussions, and the index finds them.
LEMMA WhereFindsOurs ==
    ASSUME WorldInv, IndexInv, exists \subseteq DOMAIN byHandle, vacated = {}
    PROVE  Picture!WhereNames({nameAt[d] : d \in memberAt}) = memberAt
<1> DEFINE N == {nameAt[d] : d \in memberAt}
<1>1. \A d \in memberAt : fold[nameAt[d]] \in DOMAIN byName /\ byName[fold[nameAt[d]]] = d
  BY DEF WorldInv, IndexInv, Picture!NamesFindTheirEntity
<1>2. \A m \in N : fold[m] \in DOMAIN byName /\ byName[fold[m]] \in memberAt
  BY <1>1
<1>3. memberAt \subseteq Discs
  BY DEF WorldInv
<1> QED BY <1>1, <1>2, <1>3 DEF Picture!WhereNames

\* Whatever names it lists, they are found for discussions there are.
LEMMA WhereFindsKnown ==
    ASSUME Picture!StateAssumption, IndexInv, NEW N
    PROVE  Picture!WhereNames(N) \subseteq exists
<1> SUFFICES ASSUME NEW m \in N, fold[m] \in DOMAIN byName, byName[fold[m]] \in Discs
             PROVE  byName[fold[m]] \in exists
  BY DEF Picture!WhereNames
<1>1. byName[fold[m]] # "group"
  BY DEF Picture!StateAssumption, Picture!Handles
<1> QED BY <1>1 DEF IndexInv, Picture!NamesFindTheirEntity, Picture!OldNamesFindNothing

LEMMA MemberStep ==
    ASSUME Picture!StateAssumption, WorldInv, IndexInv, MemberInv, [Picture!Next]_(Picture!vars)
    PROVE  MemberInv'
<1>1. CASE \E h \in Picture!Handles : Picture!Describe(h)
  BY <1>1 DEF Picture!Describe, Picture!Upsert, Picture!Put, Picture!world, MemberInv
<1>2. CASE \E d \in Discs, n \in Names, v \in Values : Picture!Create(d, n, v)
  <2> PICK d \in Discs, n \in Names, v \in Values : Picture!Create(d, n, v)
    BY <1>2
  <2>1. /\ d \notin exists \cup gone /\ exists' = exists \cup {d}
        /\ UNCHANGED <<gone, memberAt, discMembership, whoami, synced, blind>>
    BY DEF Picture!Create, Picture!history
  <2>2. DOMAIN byHandle' = DOMAIN byHandle \cup {d}
    BY DEF Picture!Create, Picture!Upsert, Picture!Put
  <2> QED BY <2>1, <2>2 DEF MemberInv
<1>3. CASE \E u \in Users, n \in Names : Picture!Rename(u, n)
  <2>1. DOMAIN byHandle' = DOMAIN byHandle
    BY <1>3 DEF Picture!Rename, Picture!ApplyRename, Picture!index
  <2>2. UNCHANGED <<exists, gone, memberAt, discMembership, whoami, synced, blind>>
    BY <1>3 DEF Picture!Rename, Picture!history
  <2> QED BY <2>1, <2>2 DEF MemberInv
<1>4. CASE \/ \E u \in Users, v \in Values : Picture!Change(u, v)
           \/ \E u \in Users, d \in Discs, v \in Values : Picture!Retitle(u, d, v)
           \/ \E d \in Discs, n \in Names : Picture!DRename(d, n)
  <2>1. DOMAIN byHandle' = DOMAIN byHandle
    BY <1>4 DEF Picture!Change, Picture!ApplyValue, Picture!Retitle, Picture!ApplyRetitle,
                Picture!DRename, Picture!index
  <2>2. UNCHANGED <<exists, gone, memberAt, discMembership, whoami, synced, blind>>
    BY <1>4 DEF Picture!Change, Picture!Retitle, Picture!DRename, Picture!history
  <2> QED BY <2>1, <2>2 DEF MemberInv
<1>5. CASE \E D \in SUBSET Discs : Picture!Destroy(D)
  <2> PICK D \in SUBSET Discs : Picture!Destroy(D)
    BY <1>5
  <2>1. DOMAIN byHandle' = DOMAIN byHandle \ D
    BY DEF Picture!Destroy, Picture!ApplyDestroy, Picture!Without, Picture!Restrict
  <2>2. discMembership' = discMembership \ (D \cap DOMAIN byHandle \cap Discs)
    BY DEF Picture!Destroy, Picture!ApplyDestroy
  <2>3. /\ exists' = exists \ D /\ gone' = gone \cup D /\ memberAt' = memberAt \ D
        /\ UNCHANGED <<whoami, synced, blind>>
    BY DEF Picture!Destroy
  <2> QED BY <2>1, <2>2, <2>3 DEF MemberInv, WorldInv
<1>6. CASE \E u \in Users, D \in SUBSET Discs : Picture!Join(u, D) \/ Picture!Quit(u, D)
  <2> PICK u \in Users, D \in SUBSET Discs : Picture!Join(u, D) \/ Picture!Quit(u, D)
    BY <1>6
  <2>1. u # None
    BY DEF Picture!StateAssumption, Picture!Handles
  <2> QED BY <2>1 DEF Picture!Join, Picture!ApplyJoin, Picture!Quit, Picture!ApplyQuit,
                      Picture!index, Picture!history, MemberInv
<1>7. CASE Picture!SetWhoami
  BY <1>7 DEF Picture!SetWhoami, Picture!world, Picture!index, Picture!history, MemberInv,
              Picture!StateAssumption, Picture!Handles
<1>8. CASE Picture!AnswerWhere
  <2> DEFINE W == Picture!WhereNames({nameAt[d] : d \in memberAt})
  <2>1. /\ UNCHANGED <<exists, gone, memberAt, byHandle, whoami>>
        /\ exists \subseteq DOMAIN byHandle /\ whoami = Me
        /\ discMembership' = discMembership \cup W
        /\ blind' = (blind \/ vacated # {})
    BY <1>8 DEF Picture!AnswerWhere, Picture!world, Picture!index
  <2>2. vacated = {} => W = memberAt
    BY <2>1, WhereFindsOurs
  <2>3. W \subseteq exists
    BY WhereFindsKnown
  <2>4. Me # None
    BY DEF Picture!StateAssumption, Picture!Handles
  <2> HIDE DEF W
  <2> QED BY <2>1, <2>2, <2>3, <2>4 DEF MemberInv, WorldInv
<1>9. CASE \/ \E n \in Names : Picture!DescribeGroup(n) \/ Picture!MakeGroup(n) \/ Picture!DropGroup(n)
           \/ UNCHANGED Picture!vars
  <2>1. UNCHANGED <<exists, gone, memberAt, byHandle, discMembership, whoami, synced, blind>>
    BY <1>9 DEF Picture!DescribeGroup, Picture!MakeGroup, Picture!DropGroup, Picture!vars,
                Picture!world, Picture!index, Picture!history
  <2> QED BY <2>1 DEF MemberInv
<1> QED BY <1>1, <1>2, <1>3, <1>4, <1>5, <1>6, <1>7, <1>8, <1>9 DEF Picture!Next

\* However renames, syncs, creations and destructions follow each other: a known
\* entity is one Lily has, with its name and value, and is found under its name,
\* old names find nothing, and once /where is answered a discussion shows as ours
\* exactly if it is.  Not held: the title and the name of a discussion retitled or
\* renamed since it was described, what is found under a name that a renamed
\* discussion has had, and membership after a /where answered after a renaming.
THEOREM PictureStaysLilys ==
    ASSUME Picture!StateAssumption
    PROVE  Picture!Spec => []PictureIsLilys
<1>1. Picture!Init => PictureInv
  BY PictureInit
<1>2. PictureInv /\ [Picture!Next]_(Picture!vars) => PictureInv'
  BY WorldStep, IndexStep, MemberStep DEF PictureInv
<1>3. PictureInv => Picture!PictureIsLilys
  BY DEF PictureInv, WorldInv, IndexInv, MemberInv, Picture!NamesFindTheirEntity,
         Picture!MembershipIsLilys, Picture!PictureIsLilys
<1> QED BY <1>1, <1>2, <1>3, PTL DEF Picture!Spec, PictureIsLilys

-----------------------------------------------------------------------------
(* What the terminal shows of it all (OutputPane).                             *)

\* What FlattenSeq goes through: the first text, the first two together, and so on.
Joined(W) ==
    LET f[i \in 1..Len(W)] == IF i = 1 THEN W[i] ELSE f[i - 1] \o W[i] IN f

\* Texts one after the other are one text, made of the first of them, the first
\* two, and so on.
LEMMA JoinedStepwise ==
    ASSUME NEW El, NEW W \in Seq(Seq(El)), Len(W) # 0
    PROVE  /\ Joined(W)[1] = W[1]
           /\ \A i \in 2..Len(W) : Joined(W)[i] = Joined(W)[i - 1] \o W[i]
           /\ \A i \in 1..Len(W) : Joined(W)[i] \in Seq(El)
<1> DEFINE n == Len(W)
           S == Seq(El)
           Part(i) == IF i \in 1..n THEN W[i] ELSE <<>>
           step == [x \in Nat \X S |-> x[2] \o Part(x[1])]
<1>0. n \in Nat /\ n # 0
  OBVIOUS
<1>1. /\ \A i \in 1..n : W[i] \in S
      /\ <<>> \in S /\ 1 \in 1..n /\ n \in 1..n
  <2>1. \A i \in 1..n : W[i] \in S
    BY ElementOfSeq, Zenon
  <2>2. 1 \in 1..n /\ n \in 1..n
    BY <1>0
  <2> QED BY <2>1, <2>2, EmptySeq, Zenon
<1>2. \A i : Part(i) \in S
  BY <1>1, Zenon
<1> HIDE DEF Part
<1>3. step \in [Nat \X S -> S]
  <2>1. \A x \in Nat \X S : x[2] \in S
    OBVIOUS
  <2>2. \A x \in Nat \X S : x[2] \o Part(x[1]) \in S
    BY <1>2, <2>1, ConcatProperties, Zenon
  <2> QED BY <2>2, Zenon
<1>4. PICK g \in [0..n -> S] : Steps(g, <<>>, step, n)
  <2> HIDE DEF step, S, n
  <2> QED BY <1>0, <1>1, <1>3, RecursionIsDefined, Zenon
<1>5. g[0] = <<>> /\ \A i \in 1..n : g[i] = step[<<i, g[i - 1]>>]
  BY <1>4, Zenon DEF Steps
<1> HIDE DEF n
<1>6. \A i \in 1..n : g[i] = g[i - 1] \o W[i] /\ g[i - 1] \in S /\ g[i] \in S
  <2> SUFFICES ASSUME NEW i \in 1..n
               PROVE  g[i] = g[i - 1] \o W[i] /\ g[i - 1] \in S /\ g[i] \in S
    OBVIOUS
  <2>1. i \in Nat /\ i \in 0..n /\ i - 1 \in 0..n
    BY <1>0
  <2>2. g[i - 1] \in S /\ g[i] \in S
    BY <2>1, Zenon
  <2>3. <<i, g[i - 1]>> \in Nat \X S
    BY <2>1, <2>2, Zenon
  <2>4. step[<<i, g[i - 1]>>] = g[i - 1] \o Part(i)
    <3>1. step[<<i, g[i - 1]>>] = <<i, g[i - 1]>>[2] \o Part(<<i, g[i - 1]>>[1])
      BY <2>3, Zenon
    <3>2. <<i, g[i - 1]>>[2] = g[i - 1] /\ <<i, g[i - 1]>>[1] = i
      OBVIOUS
    <3> HIDE DEF step
    <3> QED BY <3>1, <3>2, Zenon
  <2>5. Part(i) = W[i]
    BY Zenon DEF Part
  <2> HIDE DEF step
  <2> QED BY <1>5, <2>2, <2>4, <2>5, Zenon
<1> DEFINE Body(f) == [i \in 1..n |-> IF i = 1 THEN W[i] ELSE f[i - 1] \o W[i]]
           h == [i \in 1..n |-> g[i]]
<1>7. h = Body(h)
  <2>1. ASSUME NEW i \in 1..n PROVE h[i] = IF i = 1 THEN W[i] ELSE h[i - 1] \o W[i]
    <3>1. CASE i = 1
      <4>1. g[1] = g[0] \o W[1] /\ W[1] \in S
        <5>1. 1 - 1 = 0
          OBVIOUS
        <5> QED BY <1>1, <1>6, <5>1, Zenon
      <4>2. <<>> \o W[1] = W[1]
        BY <4>1, ConcatEmptySeq, Zenon
      <4> QED BY <1>5, <3>1, <4>1, <4>2, Zenon
    <3>2. CASE i # 1
      <4>1. i - 1 \in 1..n
        BY <3>2, <1>0
      <4> QED BY <1>6, <3>2, <4>1, Zenon
    <3> QED BY <3>1, <3>2, Zenon
  <2> HIDE DEF h
  <2>2. h = [i \in 1..n |-> h[i]]
    BY Zenon DEF h
  <2>3. [i \in 1..n |-> h[i]] = [i \in 1..n |-> IF i = 1 THEN W[i] ELSE h[i - 1] \o W[i]]
    BY <2>1, Zenon
  <2> QED BY <2>2, <2>3, Zenon
<1> DEFINE f == CHOOSE f : f = Body(f)
<1> HIDE DEF h, Body
<1>8. f = Body(f)
  BY <1>7, Zenon
<1>9. Joined(W) = f
  BY Zenon DEF Joined, f, Body, n
<1> HIDE DEF f
<1>10. \A i \in 1..n : f[i] = IF i = 1 THEN W[i] ELSE f[i - 1] \o W[i]
  BY <1>8, Zenon DEF Body
<1>11. \A i \in 2..n : i \in 1..n /\ i # 1
  BY <1>0
<1>12. f[1] = W[1] /\ \A i \in 2..n : f[i] = f[i - 1] \o W[i]
  BY <1>1, <1>10, <1>11, Zenon
<1>13. \A i \in 1..n : f[i] \in S
  <2> DEFINE T == {k \in Nat : k + 1 \in 1..n => f[k + 1] \in S}
  <2>1. 0 \in T
    BY <1>1, <1>12
  <2>2. ASSUME NEW k \in Nat, k \in T PROVE k + 1 \in T
    <3> SUFFICES ASSUME k + 2 \in 1..n PROVE f[k + 2] \in S
      OBVIOUS
    <3>1. k + 1 \in 1..n /\ k + 2 \in 2..n /\ k + 2 - 1 = k + 1
      BY <1>0
    <3>2. f[k + 1] \in S
      BY <2>2, <3>1
    <3> DEFINE j == k + 1
               i == k + 2
    <3>3. i \in 2..n /\ i \in 1..n /\ i - 1 = j /\ f[j] \in S
      BY <3>1, <3>2
    <3> HIDE DEF i, j
    <3>4. f[i] = f[i - 1] \o W[i] /\ W[i] \in S
      BY <1>1, <1>12, <3>3, Zenon
    <3>5. f[i] = f[j] \o W[i]
      BY <3>3, <3>4, Zenon
    <3>6. f[i] \in S
      <4>1. \A a, b \in S : a \o b \in S
        BY ConcatProperties, Zenon
      <4> HIDE DEF S
      <4> QED BY <3>3, <3>4, <3>5, <4>1, Zenon
    <3> QED BY <3>6, Zenon DEF i
  <2> HIDE DEF T
  <2>3. Nat \subseteq T
    BY <2>1, <2>2, NatSetInduction, Zenon
  <2>4. ASSUME NEW i \in 1..n PROVE f[i] \in S
    <3>1. i - 1 \in Nat /\ i - 1 + 1 = i
      BY <1>0
    <3>2. i - 1 \in T
      BY <2>3, <3>1, Zenon
    <3> QED BY <3>1, <3>2, Zenon DEF T
  <2> QED BY <2>4
<1> QED BY <1>9, <1>12, <1>13, Zenon DEF n

\* One more text is joined to what the others make.
LEMMA JoinedOneMore ==
    ASSUME NEW El, NEW W \in Seq(Seq(El)), NEW v \in Seq(El), Len(W) # 0
    PROVE  Joined(Append(W, v))[Len(W) + 1] = Joined(W)[Len(W)] \o v
<1> DEFINE n == Len(W)
           V == Append(W, v)
<1>1. /\ n \in Nat /\ n # 0 /\ V \in Seq(Seq(El)) /\ Len(V) = n + 1
      /\ V[n + 1] = v /\ \A i \in 1..n : V[i] = W[i]
  OBVIOUS
<1> HIDE DEF n, V
<1>2. Joined(W)[1] = W[1] /\ \A i \in 2..n : Joined(W)[i] = Joined(W)[i - 1] \o W[i]
  BY <1>1, JoinedStepwise, Zenon DEF n
<1>3. Joined(V)[1] = V[1] /\ \A i \in 2..n + 1 : Joined(V)[i] = Joined(V)[i - 1] \o V[i]
  <2>1. Len(V) # 0
    BY <1>1
  <2> QED BY <1>1, <2>1, JoinedStepwise, Zenon
<1> DEFINE T == {k \in Nat : k + 1 \in 1..n => Joined(V)[k + 1] = Joined(W)[k + 1]}
<1>4. 0 \in T
  <2>1. 1 \in 1..n
    BY <1>1
  <2>2. Joined(V)[1] = Joined(W)[1]
    BY <1>1, <1>2, <1>3, <2>1, Zenon
  <2> QED BY <2>2
<1>5. ASSUME NEW k \in Nat, k \in T PROVE k + 1 \in T
  <2> SUFFICES ASSUME k + 2 \in 1..n PROVE Joined(V)[k + 2] = Joined(W)[k + 2]
    OBVIOUS
  <2>1. k + 1 \in 1..n /\ k + 2 \in 2..n /\ k + 2 - 1 = k + 1 /\ k + 2 \in 2..n + 1
    BY <1>1
  <2>2. Joined(V)[k + 1] = Joined(W)[k + 1]
    BY <1>5, <2>1
  <2> DEFINE j == k + 1
             i == k + 2
  <2>3. i \in 2..n /\ i \in 1..n /\ i \in 2..n + 1 /\ i - 1 = j /\ Joined(V)[j] = Joined(W)[j]
    BY <2>1, <2>2
  <2> HIDE DEF i, j
  <2>4. Joined(V)[i] = Joined(V)[i - 1] \o V[i] /\ Joined(W)[i] = Joined(W)[i - 1] \o W[i]
    BY <1>2, <1>3, <2>3, Zenon
  <2>5. Joined(V)[i] = Joined(W)[i]
    BY <1>1, <2>3, <2>4, Zenon
  <2> QED BY <2>5, Zenon DEF i
<1> HIDE DEF T
<1>6. Nat \subseteq T
  BY <1>4, <1>5, NatSetInduction, Zenon
<1>7. Joined(V)[n] = Joined(W)[n]
  <2>1. n - 1 \in Nat /\ n - 1 + 1 = n /\ n \in 1..n
    BY <1>1
  <2>2. n - 1 \in T
    BY <1>6, <2>1, Zenon
  <2> QED BY <2>1, <2>2, Zenon DEF T
<1>8. n + 1 \in 2..n + 1 /\ n + 1 - 1 = n
  BY <1>1
<1> DEFINE m == n + 1
<1>9. m \in 2..n + 1 /\ m - 1 = n /\ V[m] = v
  BY <1>1, <1>8
<1> HIDE DEF m
<1>10. Joined(V)[m] = Joined(V)[m - 1] \o V[m]
  BY <1>3, <1>9, Zenon
<1>11. Joined(V)[m] = Joined(W)[n] \o v
  BY <1>7, <1>9, <1>10, Zenon
<1> QED BY <1>11, Zenon DEF m, n, V

-----------------------------------------------------------------------------
(* What is rendered                                                        *)

Items == [n : Nat, id : Nat, size : Nat \ {0}]
Rendered == Nat \X Nat \X Pane!Widths

\* An item has a line at least.
LEMMA ItemIsRendered ==
    ASSUME NEW x \in Items, NEW w \in Pane!Widths
    PROVE  /\ Pane!Rows(x, w) \in Nat /\ Pane!Rows(x, w) >= 1
           /\ Pane!RenderItem(x, w) \in Seq(Rendered)
           /\ Len(Pane!RenderItem(x, w)) = Pane!Rows(x, w)
           /\ \A k \in 1..Pane!Rows(x, w) : Pane!RenderItem(x, w)[k] = <<x.n, k, w>>
<1> DEFINE r == Pane!Rows(x, w)
<1>1. r \in Nat /\ r >= 1 /\ x.n \in Nat
  BY DEF Items, Pane!Rows
<1>2. Pane!RenderItem(x, w) = [k \in 1..r |-> <<x.n, k, w>>]
  BY DEF Pane!RenderItem
<1> HIDE DEF r
<1>3. \A k \in 1..r : <<x.n, k, w>> \in Rendered
  BY <1>1 DEF Rendered
<1> QED BY <1>1, <1>2, <1>3 DEF r

\* The lines of all items are those of the first, the first two, and so on.
RowsOfAll(s, w) == [i \in DOMAIN s |-> Pane!RenderItem(s[i], w)]

LEMMA RenderIsJoined ==
    ASSUME NEW s \in Seq(Items), NEW w \in Pane!Widths
    PROVE  /\ RowsOfAll(s, w) \in Seq(Seq(Rendered)) /\ Len(RowsOfAll(s, w)) = Len(s)
           /\ s = <<>> => Pane!Render(s, w) = <<>>
           /\ s # <<>> => Pane!Render(s, w) = Joined(RowsOfAll(s, w))[Len(s)]
<1> DEFINE W == RowsOfAll(s, w)
<1>1. DOMAIN s = 1..Len(s) /\ Len(s) \in Nat /\ \A i \in 1..Len(s) : s[i] \in Items
  OBVIOUS
<1>2. W = [i \in 1..Len(s) |-> Pane!RenderItem(s[i], w)]
  BY <1>1, Zenon DEF RowsOfAll
<1>3. \A i \in 1..Len(s) : Pane!RenderItem(s[i], w) \in Seq(Rendered)
  BY <1>1, ItemIsRendered, Zenon
<1>4. W \in Seq(Seq(Rendered)) /\ Len(W) = Len(s)
  <2> HIDE DEF W
  <2>1. W \in [1..Len(s) -> Seq(Rendered)]
    BY <1>2, <1>3, Zenon
  <2> QED BY <1>1, <2>1
<1>5. Pane!Render(s, w) = Pane!FlattenSeq(W)
  BY Zenon DEF Pane!Render, RowsOfAll
<1>6. s = <<>> => Pane!Render(s, w) = <<>>
  <2> HAVE s = <<>>
  <2>1. Len(W) = 0
    BY <1>4
  <2>2. W = <<>>
    <3> HIDE DEF W
    <3> QED BY <1>4, <2>1
  <2> HIDE DEF W
  <2> QED BY <1>5, <2>1, <2>2, Zenon DEF Pane!FlattenSeq
<1>7. s # <<>> => Pane!Render(s, w) = Joined(W)[Len(s)]
  <2> HAVE s # <<>>
  <2>1. Len(W) # 0
    BY <1>4
  <2> HIDE DEF W
  <2> QED BY <1>4, <1>5, <2>1, Zenon DEF Pane!FlattenSeq, Joined
<1> QED BY <1>4, <1>6, <1>7, Zenon

\* Rendering makes lines, ...
LEMMA RenderType ==
    ASSUME NEW s \in Seq(Items), NEW w \in Pane!Widths
    PROVE  /\ Pane!Render(s, w) \in Seq(Rendered)
           /\ Pane!Render(<<>>, w) = <<>>
<1> DEFINE W == RowsOfAll(s, w)
<1>1. W \in Seq(Seq(Rendered)) /\ Len(W) = Len(s)
  BY RenderIsJoined, Zenon
<1>0. Pane!Render(<<>>, w) = <<>>
  <2>1. <<>> \in Seq(Items)
    BY EmptySeq, Zenon
  <2> QED BY <2>1, RenderIsJoined, Zenon
<1>2. CASE s = <<>>
  <2>1. Pane!Render(s, w) = <<>>
    BY <1>2, RenderIsJoined, Zenon
  <2>2. <<>> \in Seq(Rendered)
    BY EmptySeq, Zenon
  <2> QED BY <1>0, <2>1, <2>2, Zenon
<1>3. CASE s # <<>>
  <2>1. Len(s) # 0 /\ Len(s) \in 1..Len(s)
    BY <1>3
  <2> HIDE DEF W
  <2>2. Joined(W)[Len(s)] \in Seq(Rendered)
    BY <1>1, <2>1, JoinedStepwise, Zenon
  <2>3. Pane!Render(s, w) = Joined(W)[Len(s)]
    BY <1>3, RenderIsJoined, Zenon DEF W
  <2> QED BY <1>0, <2>2, <2>3, Zenon
<1> QED BY <1>2, <1>3, Zenon

\* ... and one more item adds its own at the end.
LEMMA RenderAppend ==
    ASSUME NEW s \in Seq(Items), NEW x \in Items, NEW w \in Pane!Widths
    PROVE  Pane!Render(Append(s, x), w) = Pane!Render(s, w) \o Pane!RenderItem(x, w)
<1> DEFINE t == Append(s, x)
           W == RowsOfAll(s, w)
           V == RowsOfAll(t, w)
           v == Pane!RenderItem(x, w)
<1>1. /\ t \in Seq(Items) /\ t # <<>> /\ Len(t) = Len(s) + 1 /\ Len(s) \in Nat
      /\ DOMAIN t = 1..Len(s) + 1 /\ DOMAIN s = 1..Len(s)
      /\ t[Len(s) + 1] = x /\ \A i \in 1..Len(s) : t[i] = s[i]
  OBVIOUS
<1> HIDE DEF t
<1>2. W \in Seq(Seq(Rendered)) /\ Len(W) = Len(s) /\ v \in Seq(Rendered)
  BY RenderIsJoined, ItemIsRendered, Zenon
<1>3. V \in Seq(Seq(Rendered)) /\ Len(V) = Len(s) + 1
  BY <1>1, RenderIsJoined, Zenon
<1>4. Pane!Render(t, w) = Joined(V)[Len(s) + 1]
  BY <1>1, RenderIsJoined, Zenon
<1>5. V[Len(s) + 1] = v
  <2>1. Len(s) + 1 \in DOMAIN t
    BY <1>1
  <2> QED BY <1>1, <2>1, Zenon DEF RowsOfAll
<1>6. CASE s = <<>>
  <2>1. Len(s) + 1 = 1 /\ Len(V) # 0
    BY <1>3, <1>6
  <2>2. Pane!Render(t, w) = Joined(V)[1] /\ V[1] = v
    BY <1>4, <1>5, <2>1, Zenon
  <2> HIDE DEF V, v
  <2>3. Joined(V)[1] = V[1]
    BY <1>3, <2>1, JoinedStepwise, Zenon
  <2>4. Pane!Render(s, w) \o v = v
    BY <1>2, <1>6, RenderIsJoined, ConcatEmptySeq, Zenon
  <2> QED BY <2>2, <2>3, <2>4, Zenon DEF v, t
<1>7. CASE s # <<>>
  <2>1. Len(W) # 0
    BY <1>2, <1>7
  <2>2. V = Append(W, v)
    <3>1. \A i \in 1..Len(s) : V[i] = W[i]
      <4> SUFFICES ASSUME NEW i \in 1..Len(s) PROVE V[i] = W[i]
        OBVIOUS
      <4>1. i \in DOMAIN t /\ i \in DOMAIN s /\ t[i] = s[i]
        BY <1>1
      <4> QED BY <4>1, Zenon DEF RowsOfAll
    <3> HIDE DEF V, W, v
    <3> QED BY <1>2, <1>3, <1>5, <3>1
  <2> HIDE DEF V, W, v
  <2>3. Joined(Append(W, v))[Len(W) + 1] = Joined(W)[Len(W)] \o v
    BY <1>2, <2>1, JoinedOneMore, Zenon
  <2>4. Pane!Render(s, w) = Joined(W)[Len(s)]
    BY <1>7, RenderIsJoined, Zenon DEF W
  <2>5. Joined(V)[Len(s) + 1] = Joined(W)[Len(s)] \o v
    BY <1>2, <2>2, <2>3, Zenon
  <2> QED BY <1>4, <2>4, <2>5, Zenon DEF v, t
<1> QED BY <1>6, <1>7

LEMMA ThreeJoined ==
    ASSUME NEW a \in Seq(Rendered), NEW b \in Seq(Rendered), NEW c \in Seq(Rendered)
    PROVE  (a \o b) \o c = a \o (b \o c)
OBVIOUS

\* Lists of items one after the other are rendered one after the other, ...
LEMMA RenderConcat ==
    ASSUME NEW s \in Seq(Items), NEW t \in Seq(Items), NEW w \in Pane!Widths
    PROVE  Pane!Render(s \o t, w) = Pane!Render(s, w) \o Pane!Render(t, w)
<1> DEFINE R(x) == Pane!Render(x, w)
           T == {k \in Nat : \A u \in Seq(Items) : Len(u) = k => R(s \o u) = R(s) \o R(u)}
<1>0. \A x \in Seq(Items) : R(x) \in Seq(Rendered)
  BY RenderType, Zenon
<1>1. 0 \in T
  <2> SUFFICES ASSUME NEW u \in Seq(Items), Len(u) = 0 PROVE R(s \o u) = R(s) \o R(u)
    OBVIOUS
  <2>1. u = <<>> /\ s \o u = s
    OBVIOUS
  <2>2. R(u) = <<>>
    BY <2>1, RenderType, Zenon
  <2>3. R(s) \o <<>> = R(s)
    <3> HIDE DEF R
    <3> QED BY <1>0, ConcatEmptySeq, Zenon
  <2> QED BY <2>1, <2>2, <2>3, Zenon
<1>2. ASSUME NEW k \in Nat, k \in T PROVE k + 1 \in T
  <2> SUFFICES ASSUME NEW u \in Seq(Items), Len(u) = k + 1 PROVE R(s \o u) = R(s) \o R(u)
    OBVIOUS
  <2> DEFINE f == SubSeq(u, 1, k)
             x == u[k + 1]
             y == Pane!RenderItem(x, w)
  <2>1. f \in Seq(Items) /\ Len(f) = k /\ x \in Items /\ u = Append(f, x)
    OBVIOUS
  <2>2. s \o f \in Seq(Items) /\ s \o u = Append(s \o f, x)
    <3> HIDE DEF f, x
    <3> QED BY <2>1
  <2> HIDE DEF f, x
  <2>3. R(s \o f) = R(s) \o R(f)
    BY <1>2, <2>1, Zenon
  <2> HIDE DEF R
  <2>4. R(s \o u) = R(s \o f) \o y
    BY <2>1, <2>2, RenderAppend, Zenon DEF R
  <2>5. R(u) = R(f) \o y
    BY <2>1, RenderAppend, Zenon DEF R
  <2>6. y \in Seq(Rendered) /\ R(s) \in Seq(Rendered) /\ R(f) \in Seq(Rendered)
    BY <1>0, <2>1, ItemIsRendered, Zenon
  <2>7. (R(s) \o R(f)) \o y = R(s) \o (R(f) \o y)
    BY <2>6, ThreeJoined, Zenon
  <2> QED BY <2>3, <2>4, <2>5, <2>7, Zenon
<1> HIDE DEF T
<1>3. Nat \subseteq T
  BY <1>1, <1>2, NatSetInduction, Zenon
<1>4. Len(t) \in T
  BY <1>3, LenProperties, Zenon
<1> QED BY <1>4, Zenon DEF T

\* The first i items of s at width w take so many rows.
RowsUpto(s, w, i) == Len(Pane!Render(SubSeq(s, 1, i), w))

LEMMA PartOfItems ==
    ASSUME NEW s \in Seq(Items), NEW i \in 0..Len(s), NEW j \in i..Len(s)
    PROVE  /\ SubSeq(s, i + 1, j) \in Seq(Items) /\ SubSeq(s, 1, i) \in Seq(Items)
           /\ Len(SubSeq(s, i + 1, j)) = j - i /\ Len(SubSeq(s, 1, i)) = i
           /\ SubSeq(s, 1, i) \o SubSeq(s, i + 1, j) = SubSeq(s, 1, j)
           /\ \A k \in 1..j - i : SubSeq(s, i + 1, j)[k] = s[i + k]
           /\ \A k \in 1..i : SubSeq(s, 1, i)[k] = s[k]
<1>1. /\ Len(s) \in Nat /\ i \in Nat /\ j \in Nat /\ i <= j /\ j <= Len(s)
      /\ 1 \in 1..Len(s) + 1 /\ i \in 1 - 1..Len(s) /\ \A k \in 1..Len(s) : s[k] \in Items
  OBVIOUS
<1>2. SubSeq(s, 1, i) \o SubSeq(s, i + 1, j) = SubSeq(s, 1, j)
  BY <1>1, ConcatAdjacentSubSeq
<1>3. /\ SubSeq(s, i + 1, j) \in Seq(Items) /\ Len(SubSeq(s, i + 1, j)) = j - i
      /\ \A k \in 1..j - i : SubSeq(s, i + 1, j)[k] = s[i + k]
  BY <1>1
<1>4. /\ SubSeq(s, 1, i) \in Seq(Items) /\ Len(SubSeq(s, 1, i)) = i
      /\ \A k \in 1..i : SubSeq(s, 1, i)[k] = s[k]
  BY <1>1
<1> QED BY <1>2, <1>3, <1>4, Zenon

\* Rows are counted from item to item.
LEMMA RowsInParts ==
    ASSUME NEW s \in Seq(Items), NEW w \in Pane!Widths, NEW i \in 0..Len(s), NEW j \in i..Len(s)
    PROVE  /\ Pane!Render(SubSeq(s, 1, j), w)
                = Pane!Render(SubSeq(s, 1, i), w) \o Pane!Render(SubSeq(s, i + 1, j), w)
           /\ RowsUpto(s, w, i) \in Nat /\ Len(Pane!Render(SubSeq(s, i + 1, j), w)) \in Nat
           /\ RowsUpto(s, w, j) = RowsUpto(s, w, i) + Len(Pane!Render(SubSeq(s, i + 1, j), w))
<1> DEFINE a == SubSeq(s, 1, i)
           b == SubSeq(s, i + 1, j)
<1>1. a \in Seq(Items) /\ b \in Seq(Items) /\ a \o b = SubSeq(s, 1, j)
  BY PartOfItems, Zenon
<1> HIDE DEF a, b
<1>2. Pane!Render(a \o b, w) = Pane!Render(a, w) \o Pane!Render(b, w)
  BY <1>1, RenderConcat, Zenon
<1>3. Pane!Render(a, w) \in Seq(Rendered) /\ Pane!Render(b, w) \in Seq(Rendered)
  BY <1>1, RenderType, Zenon
<1> DEFINE x == Pane!Render(a, w)
           y == Pane!Render(b, w)
<1>4. Len(x \o y) = Len(x) + Len(y) /\ Len(x) \in Nat /\ Len(y) \in Nat
  <2> HIDE DEF x, y
  <2>1. x \in Seq(Rendered) /\ y \in Seq(Rendered)
    BY <1>3, Zenon DEF x, y
  <2> QED BY <2>1
<1> QED BY <1>1, <1>2, <1>4, Zenon DEF RowsUpto, a, b

LEMMA RowsOfOne ==
    ASSUME NEW s \in Seq(Items), NEW w \in Pane!Widths, NEW i \in 1..Len(s)
    PROVE  /\ s[i] \in Items
           /\ Pane!Render(SubSeq(s, i, i), w) = Pane!RenderItem(s[i], w)
           /\ RowsUpto(s, w, i - 1) \in Nat /\ RowsUpto(s, w, i) \in Nat
           /\ Pane!Rows(s[i], w) \in Nat \ {0}
           /\ RowsUpto(s, w, i) = RowsUpto(s, w, i - 1) + Pane!Rows(s[i], w)
<1>1. SubSeq(s, i, i) = Append(<<>>, s[i]) /\ s[i] \in Items /\ Len(s) \in Nat
  <2> DEFINE t == SubSeq(s, i, i)
             x == s[i]
  <2>1. t \in Seq(Items) /\ Len(t) = 1 /\ t[1] = x
    OBVIOUS
  <2>2. x \in Items /\ Len(s) \in Nat
    OBVIOUS
  <2> HIDE DEF t, x
  <2>3. t = Append(<<>>, x)
    BY <2>1, <2>2
  <2> QED BY <2>2, <2>3, Zenon DEF t, x
<1>2. <<>> \in Seq(Items)
  BY EmptySeq, Zenon
<1>3. Pane!Render(SubSeq(s, i, i), w) = <<>> \o Pane!RenderItem(s[i], w)
  BY <1>1, <1>2, RenderAppend, RenderType, Zenon
<1>4. Pane!RenderItem(s[i], w) \in Seq(Rendered) /\ Len(Pane!RenderItem(s[i], w)) = Pane!Rows(s[i], w)
  BY <1>1, ItemIsRendered, Zenon
<1>5. Pane!Render(SubSeq(s, i, i), w) = Pane!RenderItem(s[i], w)
  BY <1>3, <1>4, ConcatEmptySeq, Zenon
<1> DEFINE h == i - 1
<1>6. h \in 0..Len(s) /\ i \in h..Len(s) /\ h + 1 = i
  BY <1>1
<1>7. i \in 0..Len(s) /\ i \in i..Len(s)
  BY <1>1
<1>8. RowsUpto(s, w, i) \in Nat
  BY <1>7, RowsInParts, Zenon
<1> HIDE DEF h
<1>9. /\ RowsUpto(s, w, h) \in Nat
      /\ RowsUpto(s, w, i) = RowsUpto(s, w, h) + Len(Pane!Render(SubSeq(s, h + 1, i), w))
  BY <1>6, RowsInParts, Zenon
<1>10. RowsUpto(s, w, i) = RowsUpto(s, w, h) + Pane!Rows(s[i], w)
  BY <1>4, <1>5, <1>6, <1>9, Zenon
<1>11. Pane!Rows(s[i], w) \in Nat \ {0}
  <2>1. Pane!Rows(s[i], w) \in Nat /\ Pane!Rows(s[i], w) >= 1
    BY <1>1, ItemIsRendered, Zenon
  <2> QED BY <2>1
<1> QED BY <1>1, <1>5, <1>8, <1>9, <1>10, <1>11, Zenon DEF h

\* More items take more rows.
LEMMA RowsGrow ==
    ASSUME NEW s \in Seq(Items), NEW w \in Pane!Widths
    PROVE  /\ RowsUpto(s, w, 0) = 0
           /\ RowsUpto(s, w, Len(s)) = Len(Pane!Render(s, w))
           /\ \A i \in 0..Len(s) : RowsUpto(s, w, i) \in Nat
           /\ \A i, j \in 0..Len(s) : i <= j => RowsUpto(s, w, i) <= RowsUpto(s, w, j)
           /\ \A i, j \in 0..Len(s) : i < j => RowsUpto(s, w, i) < RowsUpto(s, w, j)
<1>0. Len(s) \in Nat
  OBVIOUS
<1>1. RowsUpto(s, w, 0) = 0
  <2>1. SubSeq(s, 1, 0) = <<>>
    OBVIOUS
  <2>2. Len(<<>>) = 0
    OBVIOUS
  <2>3. Pane!Render(<<>>, w) = <<>>
    BY EmptySeq, RenderType, Zenon
  <2> QED BY <2>1, <2>2, <2>3, Zenon DEF RowsUpto
<1>2. RowsUpto(s, w, Len(s)) = Len(Pane!Render(s, w))
  <2>1. SubSeq(s, 1, Len(s)) = s
    OBVIOUS
  <2> QED BY <2>1, Zenon DEF RowsUpto
<1>3. \A i \in 0..Len(s) : RowsUpto(s, w, i) \in Nat
  <2> SUFFICES ASSUME NEW i \in 0..Len(s) PROVE RowsUpto(s, w, i) \in Nat
    OBVIOUS
  <2>1. i \in i..Len(s)
    BY <1>0
  <2> QED BY <2>1, RowsInParts, Zenon
<1>4. ASSUME NEW i \in 0..Len(s), NEW j \in 0..Len(s), i <= j
      PROVE  RowsUpto(s, w, i) <= RowsUpto(s, w, j)
  <2>1. j \in i..Len(s)
    BY <1>0, <1>4
  <2> DEFINE x == RowsUpto(s, w, i)
             y == RowsUpto(s, w, j)
             z == Len(Pane!Render(SubSeq(s, i + 1, j), w))
  <2>2. x \in Nat /\ z \in Nat /\ y = x + z
    BY <2>1, RowsInParts, Zenon
  <2> HIDE DEF x, y, z
  <2>3. x <= y
    BY <2>2
  <2> QED BY <2>3, Zenon DEF x, y
<1>5. ASSUME NEW i \in 0..Len(s), NEW j \in 0..Len(s), i < j
      PROVE  RowsUpto(s, w, i) < RowsUpto(s, w, j)
  <2> DEFINE h == j - 1
  <2>1. h \in 0..Len(s) /\ i <= h /\ j \in 1..Len(s)
    BY <1>0, <1>5
  <2> DEFINE x == RowsUpto(s, w, i)
             y == RowsUpto(s, w, h)
             z == RowsUpto(s, w, j)
             r == Pane!Rows(s[j], w)
  <2>2. y \in Nat /\ r \in Nat \ {0} /\ z = y + r
    BY <2>1, RowsOfOne, Zenon
  <2>3. x \in Nat /\ x <= y
    BY <1>3, <1>4, <2>1, Zenon
  <2> HIDE DEF x, y, z, r
  <2>4. x < z
    BY <2>2, <2>3
  <2> QED BY <2>4, Zenon DEF x, z
<1> QED BY <1>1, <1>2, <1>3, <1>4, <1>5, Zenon

\* The rows of item i come after those of the items before it.
LEMMA RowsOfItem ==
    ASSUME NEW s \in Seq(Items), NEW w \in Pane!Widths, NEW i \in 1..Len(s),
           NEW k \in 1..Pane!Rows(s[i], w)
    PROVE  /\ RowsUpto(s, w, i - 1) + k \in 1..Len(Pane!Render(s, w))
           /\ Pane!Render(s, w)[RowsUpto(s, w, i - 1) + k] = <<s[i].n, k, w>>
<1> DEFINE h == i - 1
           N == Len(s)
           a == Pane!Render(SubSeq(s, 1, h), w)
           b == Pane!RenderItem(s[i], w)
           c == Pane!Render(SubSeq(s, i + 1, N), w)
           r == Pane!Rows(s[i], w)
<1>1. /\ N \in Nat /\ h \in 0..N /\ i \in 0..N /\ i \in h..N /\ N \in i..N /\ h + 1 = i
      /\ SubSeq(s, 1, N) = s /\ s[i] \in Items
  OBVIOUS
<1>2. Pane!Render(s, w) = Pane!Render(SubSeq(s, 1, i), w) \o c
  BY <1>1, RowsInParts, Zenon
<1>3. Pane!Render(SubSeq(s, 1, i), w) = a \o b
  <2>1. Pane!Render(SubSeq(s, 1, i), w) = a \o Pane!Render(SubSeq(s, h + 1, i), w)
    <3> HIDE DEF h
    <3> QED BY <1>1, RowsInParts, Zenon
  <2>2. Pane!Render(SubSeq(s, i, i), w) = b
    BY RowsOfOne, Zenon
  <2> QED BY <1>1, <2>1, <2>2, Zenon
<1>4. a \in Seq(Rendered) /\ b \in Seq(Rendered) /\ c \in Seq(Rendered)
  <2>1. SubSeq(s, 1, h) \in Seq(Items)
    <3> HIDE DEF h
    <3> QED BY <1>1, PartOfItems, Zenon
  <2>2. SubSeq(s, i + 1, N) \in Seq(Items)
    BY <1>1, PartOfItems, Zenon
  <2> QED BY <1>1, <2>1, <2>2, RenderType, ItemIsRendered, Zenon
<1>5. r \in Nat /\ Len(b) = r /\ b[k] = <<s[i].n, k, w>>
  BY <1>1, ItemIsRendered, Zenon
<1>6. RowsUpto(s, w, h) = Len(a)
  BY Zenon DEF RowsUpto
<1>7. k \in 1..r
  OBVIOUS
<1> HIDE DEF a, b, c, h, N, r
<1>8. /\ Len(a) + k \in 1..Len((a \o b) \o c)
      /\ ((a \o b) \o c)[Len(a) + k] = b[k]
  BY <1>4, <1>5, <1>7
<1> QED BY <1>2, <1>3, <1>5, <1>6, <1>8, Zenon DEF h

\* Every row is one of an item.
LEMMA OwnerOfRow ==
    ASSUME NEW s \in Seq(Items), NEW w \in Pane!Widths, NEW l \in 1..Len(Pane!Render(s, w))
    PROVE  \E i \in 1..Len(s) :
              /\ RowsUpto(s, w, i - 1) < l /\ l <= RowsUpto(s, w, i)
              /\ l - RowsUpto(s, w, i - 1) \in 1..Pane!Rows(s[i], w)
              /\ Pane!Render(s, w)[l] = <<s[i].n, l - RowsUpto(s, w, i - 1), w>>
<1> DEFINE N == Len(s)
           f(i) == RowsUpto(s, w, i)
           S == {i \in 0..N : l <= f(i)}
<1>0. N \in Nat /\ l \in Nat /\ l >= 1
  <2>1. Pane!Render(s, w) \in Seq(Rendered)
    BY RenderType, Zenon
  <2>2. Len(Pane!Render(s, w)) \in Nat
    BY <2>1, LenProperties, Zenon
  <2> QED BY <2>2
<1>1. f(0) = 0 /\ f(N) = Len(Pane!Render(s, w)) /\ \A i \in 0..N : f(i) \in Nat
  BY RowsGrow, Zenon
<1> HIDE DEF f, N
<1>2. N \in S
  BY <1>0, <1>1
<1>3. PICK i \in S : \A j \in S : i <= j
  <2>1. S \subseteq Nat /\ S # {}
    BY <1>0, <1>2
  <2> HIDE DEF S
  <2> QED BY <2>1, LeastExists, Zenon
<1>4. i \in 1..N /\ i - 1 \in 0..N /\ i - 1 \notin S
  <2>1. i # 0
    BY <1>0, <1>1
  <2> QED BY <1>0, <1>3, <2>1
<1> DEFINE h == i - 1
           k == l - f(h)
<1>5. f(h) < l /\ l <= f(i) /\ f(h) \in Nat /\ f(i) \in Nat
  BY <1>0, <1>1, <1>3, <1>4
<1>6. Pane!Rows(s[i], w) \in Nat /\ f(i) = f(h) + Pane!Rows(s[i], w)
  BY <1>4, RowsOfOne, Zenon DEF f, N
<1>7. k \in 1..Pane!Rows(s[i], w) /\ f(h) + k = l
  <2> HIDE DEF h
  <2> QED BY <1>0, <1>5, <1>6
<1>8. i \in 1..Len(s)
  BY <1>4, Zenon DEF N
<1> HIDE DEF k
<1>9. Pane!Render(s, w)[f(h) + k] = <<s[i].n, k, w>>
  BY <1>7, <1>8, RowsOfItem, Zenon DEF f
<1>10. Pane!Render(s, w)[l] = <<s[i].n, k, w>>
  BY <1>7, <1>9, Zenon
<1> QED BY <1>5, <1>7, <1>8, <1>10, Zenon DEF f, k

\* The lines after those of the first k items are those of the others.
LEMMA RowsAfter ==
    ASSUME NEW s \in Seq(Items), NEW w \in Pane!Widths, NEW k \in 0..Len(s)
    PROVE  SubSeq(Pane!Render(s, w), RowsUpto(s, w, k) + 1, Len(Pane!Render(s, w)))
             = Pane!Render(SubSeq(s, k + 1, Len(s)), w)
<1> DEFINE N == Len(s)
           a == Pane!Render(SubSeq(s, 1, k), w)
           c == Pane!Render(SubSeq(s, k + 1, N), w)
<1>1. N \in k..N /\ SubSeq(s, 1, N) = s
  OBVIOUS
<1>2. Pane!Render(s, w) = a \o c
  BY <1>1, RowsInParts, Zenon
<1>3. a \in Seq(Rendered) /\ c \in Seq(Rendered)
  <2>1. SubSeq(s, 1, k) \in Seq(Items) /\ SubSeq(s, k + 1, N) \in Seq(Items)
    BY <1>1, PartOfItems, Zenon
  <2> QED BY <2>1, RenderType, Zenon
<1>4. RowsUpto(s, w, k) = Len(a)
  BY Zenon DEF RowsUpto
<1> HIDE DEF a, c
<1>5. SubSeq(a \o c, Len(a) + 1, Len(a \o c)) = c
  BY <1>3
<1> QED BY <1>2, <1>4, <1>5, Zenon DEF c, N

-----------------------------------------------------------------------------
(* What the operations on the view make of a pane                          *)

Panes == [output : Seq(Items), lines : Seq(Rendered), width : Pane!Widths,
          height : Nat \ {0}, yOffset : Nat, syncedItems : Nat, stale : BOOLEAN,
          autoPageAnchor : Nat \cup {-1}, scrollAnchor : Nat \cup {-1},
          pagerEnabled : BOOLEAN, lastSeenID : Nat]

SameText(q, p) ==
    /\ q.output = p.output /\ q.lines = p.lines /\ q.width = p.width
    /\ q.syncedItems = p.syncedItems /\ q.stale = p.stale
SameMind(q, p) ==
    /\ q.height = p.height /\ q.scrollAnchor = p.scrollAnchor
    /\ q.pagerEnabled = p.pagerEnabled /\ q.lastSeenID = p.lastSeenID

\* n, but within 0 and the greatest offset of p
Within(n, p) ==
    IF n < 0 THEN 0 ELSE IF n > Pane!MaxYOffset(p) THEN Pane!MaxYOffset(p) ELSE n

LEMMA PaneFields ==
    ASSUME NEW p \in Panes
    PROVE  /\ p.output \in Seq(Items) /\ p.lines \in Seq(Rendered) /\ p.width \in Pane!Widths
           /\ p.height \in Nat \ {0} /\ p.yOffset \in Nat /\ p.syncedItems \in Nat
           /\ p.stale \in BOOLEAN /\ p.autoPageAnchor \in Nat \cup {-1}
           /\ p.scrollAnchor \in Nat \cup {-1} /\ p.pagerEnabled \in BOOLEAN
           /\ p.lastSeenID \in Nat /\ Len(p.lines) \in Nat /\ Len(p.output) \in Nat
           /\ Pane!Total(p) = Len(p.lines)
<1>1. p.output \in Seq(Items) /\ p.lines \in Seq(Rendered)
  BY DEF Panes
<1>2. Len(p.lines) \in Nat /\ Len(p.output) \in Nat
  BY <1>1, LenProperties, Zenon
<1>3. /\ p.width \in Pane!Widths
      /\ p.height \in Nat \ {0} /\ p.yOffset \in Nat /\ p.syncedItems \in Nat
      /\ p.stale \in BOOLEAN /\ p.autoPageAnchor \in Nat \cup {-1}
      /\ p.scrollAnchor \in Nat \cup {-1} /\ p.pagerEnabled \in BOOLEAN
      /\ p.lastSeenID \in Nat
  BY DEF Panes
<1> QED BY <1>1, <1>2, <1>3, Zenon DEF Pane!Total

LEMMA GreatestOffset ==
    ASSUME NEW p \in Panes
    PROVE  /\ Pane!MaxYOffset(p) \in Nat
           /\ Pane!MaxYOffset(p) =
                IF Len(p.lines) > p.height THEN Len(p.lines) - p.height ELSE 0
           /\ Pane!AtBottom(p) <=> p.yOffset >= Pane!MaxYOffset(p)
           /\ \A n \in Int : Within(n, p) \in Nat /\ Within(n, p) <= Pane!MaxYOffset(p)
<1> DEFINE t == Len(p.lines)
           h == p.height
           m == Pane!MaxYOffset(p)
<1>1. t \in Nat /\ h \in Nat \ {0}
  BY PaneFields, Zenon
<1>2. m = IF 0 > t - h THEN 0 ELSE t - h
  BY Zenon DEF Pane!MaxYOffset, Pane!Larger, Pane!Total
<1> HIDE DEF t, h, m
<1>3. m \in Nat /\ m = IF t > h THEN t - h ELSE 0
  BY <1>1, <1>2
<1>4. \A n \in Int : Within(n, p) \in Nat /\ Within(n, p) <= m
  <2>1. \A n \in Int : Within(n, p) = IF n < 0 THEN 0 ELSE IF n > m THEN m ELSE n
    BY Zenon DEF Within, m
  <2> QED BY <1>3, <2>1
<1> QED BY <1>3, <1>4, Zenon DEF t, h, m, Pane!AtBottom

LEMMA SameGreatest ==
    ASSUME NEW p, NEW q, q.lines = p.lines, q.height = p.height
    PROVE  Pane!MaxYOffset(q) = Pane!MaxYOffset(p) /\ Pane!Total(q) = Pane!Total(p)
BY Zenon DEF Pane!MaxYOffset, Pane!Total

\* SetYOffset moves the view and nothing else.
LEMMA OffsetSet ==
    ASSUME NEW p \in Panes, NEW n \in Int, NEW q, q = Pane!SetYOffset(p, n)
    PROVE  /\ q \in Panes /\ SameText(q, p) /\ SameMind(q, p)
           /\ q.autoPageAnchor = p.autoPageAnchor
           /\ q.yOffset = Within(n, p) /\ Pane!MaxYOffset(q) = Pane!MaxYOffset(p)
<1> DEFINE m == Pane!MaxYOffset(p)
           y == Pane!Smaller(Pane!Larger(n, 0), m)
<1>1. m \in Nat
  BY GreatestOffset, Zenon
<1>2. y = Within(n, p) /\ y \in Nat
  <2>1. y = IF (IF n > 0 THEN n ELSE 0) < m THEN (IF n > 0 THEN n ELSE 0) ELSE m
    BY Zenon DEF Pane!Smaller, Pane!Larger
  <2>2. Within(n, p) = IF n < 0 THEN 0 ELSE IF n > m THEN m ELSE n
    BY Zenon DEF Within
  <2> HIDE DEF y, m
  <2> QED BY <1>1, <2>1, <2>2
<1>3. q = [p EXCEPT !.yOffset = y]
  BY Zenon DEF Pane!SetYOffset
<1> HIDE DEF y, m
<1>4. q \in Panes
  BY <1>2, <1>3 DEF Panes
<1>5. SameText(q, p) /\ SameMind(q, p) /\ q.autoPageAnchor = p.autoPageAnchor /\ q.yOffset = y
  BY <1>3 DEF Panes, SameText, SameMind
<1>6. Pane!MaxYOffset(q) = Pane!MaxYOffset(p)
  BY <1>5, SameGreatest, Zenon DEF SameText, SameMind
<1> QED BY <1>2, <1>4, <1>5, <1>6, Zenon

LEMMA BottomSet ==
    ASSUME NEW p \in Panes, NEW q, q = Pane!GotoBottom(p)
    PROVE  /\ q \in Panes /\ SameText(q, p) /\ SameMind(q, p)
           /\ q.autoPageAnchor = p.autoPageAnchor
           /\ q.yOffset = Pane!MaxYOffset(p) /\ Pane!MaxYOffset(q) = Pane!MaxYOffset(p)
<1> DEFINE m == Pane!MaxYOffset(p)
<1>1. m \in Nat /\ m \in Int
  <2>1. m \in Nat
    BY GreatestOffset, Zenon
  <2> HIDE DEF m
  <2> QED BY <2>1
<1>2. q = Pane!SetYOffset(p, m)
  BY Zenon DEF Pane!GotoBottom
<1>3. Within(m, p) = m
  <2>1. Within(m, p) = IF m < 0 THEN 0 ELSE IF m > m THEN m ELSE m
    BY Zenon DEF Within
  <2> HIDE DEF m
  <2> QED BY <1>1, <2>1
<1> HIDE DEF m
<1>4. /\ q \in Panes /\ SameText(q, p) /\ SameMind(q, p)
      /\ q.autoPageAnchor = p.autoPageAnchor
      /\ q.yOffset = Within(m, p) /\ Pane!MaxYOffset(q) = Pane!MaxYOffset(p)
  BY <1>1, <1>2, OffsetSet, Zenon
<1> QED BY <1>3, <1>4, Zenon DEF m

\* Page shows all there is, or stops at the line it was given.
Paged(q, p, from) ==
    \/ /\ ~p.pagerEnabled \/ Len(p.lines) - from <= p.height
       /\ q.yOffset = Pane!MaxYOffset(p) /\ q.autoPageAnchor = p.autoPageAnchor
    \/ /\ p.pagerEnabled /\ Len(p.lines) - from > p.height
       /\ q.yOffset = from /\ from < Pane!MaxYOffset(p) /\ q.autoPageAnchor = -1

LEMMA PageShown ==
    ASSUME NEW p \in Panes, NEW from \in Nat, NEW q, q = Pane!Page(p, from)
    PROVE  /\ q \in Panes /\ SameText(q, p) /\ SameMind(q, p) /\ Paged(q, p, from)
           /\ Pane!MaxYOffset(q) = Pane!MaxYOffset(p)
<1> DEFINE t == Len(p.lines)
           h == p.height
           m == Pane!MaxYOffset(p)
<1>1. t \in Nat /\ h \in Nat \ {0}
  BY PaneFields, Zenon
<1>2. m \in Nat /\ m = IF t > h THEN t - h ELSE 0
  BY GreatestOffset, Zenon
<1>3. CASE ~p.pagerEnabled \/ t - from <= h
  <2>1. q = Pane!GotoBottom(p)
    BY <1>3, Zenon DEF Pane!Page, Pane!Total
  <2>2. /\ q \in Panes /\ SameText(q, p) /\ SameMind(q, p)
        /\ q.autoPageAnchor = p.autoPageAnchor
        /\ q.yOffset = Pane!MaxYOffset(p) /\ Pane!MaxYOffset(q) = Pane!MaxYOffset(p)
    BY <2>1, BottomSet, Zenon
  <2> QED BY <1>3, <2>2, Zenon DEF Paged
<1>4. CASE ~(~p.pagerEnabled \/ t - from <= h)
  <2> DEFINE a == Pane!Smaller(from, t - h)
             r == Pane!SetYOffset(p, a)
  <2>1. t - from > h /\ p.pagerEnabled
    <3> HIDE DEF t, h
    <3> QED BY <1>1, <1>4
  <2>2. from < m
    <3> HIDE DEF t, h, m
    <3> QED BY <1>1, <1>2, <2>1
  <2>3. a = from /\ from \in Int
    <3>1. a = IF from < t - h THEN from ELSE t - h
      BY Zenon DEF Pane!Smaller
    <3> HIDE DEF t, h, m, a
    <3> QED BY <1>1, <1>2, <2>1, <3>1
  <2>4. Within(from, p) = from
    <3>1. Within(from, p) = IF from < 0 THEN 0 ELSE IF from > m THEN m ELSE from
      BY Zenon DEF Within
    <3> HIDE DEF t, h, m
    <3> QED BY <1>2, <2>2, <3>1
  <2>5. q = [r EXCEPT !.autoPageAnchor = -1]
    BY <1>4, Zenon DEF Pane!Page, Pane!Total
  <2> HIDE DEF r, a
  <2>6. /\ r \in Panes /\ SameText(r, p) /\ SameMind(r, p)
        /\ r.yOffset = Within(from, p) /\ Pane!MaxYOffset(r) = Pane!MaxYOffset(p)
    <3>1. r = Pane!SetYOffset(p, from)
      BY <2>3, Zenon DEF r
    <3> QED BY <2>3, <3>1, OffsetSet, Zenon
  <2>7. q \in Panes
    BY <2>5, <2>6 DEF Panes
  <2>8. SameText(q, r) /\ SameMind(q, r) /\ q.yOffset = r.yOffset /\ q.autoPageAnchor = -1
    BY <2>5, <2>6 DEF Panes, SameText, SameMind
  <2>9. SameText(q, p) /\ SameMind(q, p) /\ q.yOffset = from
    BY <2>4, <2>6, <2>8, Zenon DEF SameText, SameMind
  <2>10. Pane!MaxYOffset(q) = Pane!MaxYOffset(p)
    BY <2>9, SameGreatest, Zenon DEF SameText, SameMind
  <2> QED BY <2>1, <2>2, <2>7, <2>8, <2>9, <2>10, Zenon DEF Paged
<1> QED BY <1>3, <1>4

-----------------------------------------------------------------------------
(* Trimming                                                                *)

LEMMA PartOfPart ==
    ASSUME NEW El, NEW s \in Seq(El), NEW k \in Nat, NEW n \in Nat, k <= n, n <= Len(s)
    PROVE  /\ SubSeq(SubSeq(s, 1, n), 1, k) = SubSeq(s, 1, k)
           /\ SubSeq(SubSeq(s, 1, n), k + 1, n) = SubSeq(s, k + 1, n)
           /\ SubSeq(SubSeq(s, k + 1, Len(s)), 1, n - k) = SubSeq(s, k + 1, n)
<1> DEFINE N == Len(s)
           a == SubSeq(s, 1, n)
           b == SubSeq(s, k + 1, N)
           c == SubSeq(s, 1, k)
           e == SubSeq(s, k + 1, n)
<1>0. N \in Nat
  OBVIOUS
<1>1. a \in Seq(El) /\ Len(a) = n /\ \A i \in 1..n : a[i] = s[i]
  BY <1>0
<1>2. b \in Seq(El) /\ Len(b) = N - k /\ \A i \in 1..N - k : b[i] = s[k + i]
  BY <1>0
<1>3. c \in Seq(El) /\ Len(c) = k /\ \A i \in 1..k : c[i] = s[i]
  BY <1>0
<1>4. e \in Seq(El) /\ Len(e) = n - k /\ \A i \in 1..n - k : e[i] = s[k + i]
  BY <1>0
<1>5. n <= N
  OBVIOUS
<1> HIDE DEF a, b, c, e, N
<1>6. SubSeq(a, 1, k) = c
  <2> DEFINE f == SubSeq(a, 1, k)
  <2>1. f \in Seq(El) /\ Len(f) = k /\ \A i \in 1..k : f[i] = a[i]
    BY <1>1
  <2>2. \A i \in 1..k : f[i] = c[i]
    <3> HIDE DEF f
    <3> QED BY <1>1, <1>3, <2>1
  <2> HIDE DEF f
  <2>3. f = c
    BY <1>3, <2>1, <2>2
  <2> QED BY <2>3, Zenon DEF f
<1>7. SubSeq(a, k + 1, n) = e
  <2> DEFINE f == SubSeq(a, k + 1, n)
  <2>1. f \in Seq(El) /\ Len(f) = n - k /\ \A i \in 1..n - k : f[i] = a[k + i]
    BY <1>1
  <2>2. \A i \in 1..n - k : f[i] = e[i]
    <3> HIDE DEF f
    <3> QED BY <1>1, <1>4, <2>1
  <2> HIDE DEF f
  <2>3. Len(f) = Len(e) /\ \A i \in 1..Len(f) : f[i] = e[i]
    BY ONLY <1>4, <2>1, <2>2
  <2>4. f = e
    BY ONLY <1>4, <2>1, <2>3, SeqEqual, Zenon
  <2> QED BY <2>4, Zenon DEF f
<1>8. SubSeq(b, 1, n - k) = e
  <2> DEFINE f == SubSeq(b, 1, n - k)
  <2>1. f \in Seq(El) /\ Len(f) = n - k /\ \A i \in 1..n - k : f[i] = b[i]
    BY <1>0, <1>2, <1>5
  <2>2. \A i \in 1..n - k : f[i] = e[i]
    <3> HIDE DEF f
    <3> QED BY <1>0, <1>2, <1>4, <1>5, <2>1
  <2> HIDE DEF f
  <2>3. Len(f) = Len(e) /\ \A i \in 1..Len(f) : f[i] = e[i]
    BY ONLY <1>4, <2>1, <2>2
  <2>4. f = e
    BY ONLY <1>4, <2>1, <2>3, SeqEqual, Zenon
  <2> QED BY <2>4, Zenon DEF f
<1> QED BY <1>6, <1>7, <1>8, Zenon DEF a, b, c, e, N

\* The view shows the items it was given so far.
Filled(p) ==
    /\ p \in Panes /\ p.output # <<>> /\ p.syncedItems <= Len(p.output)
    /\ p.lines = Pane!Render(SubSeq(p.output, 1, p.syncedItems), p.width)

\* What trimming drops of the lines, d rows of k items
LEMMA LinesDropped ==
    ASSUME NEW p, Filled(p), NEW k \in Nat, k <= Len(p.output),
           NEW d, d = RowsUpto(p.output, p.width, k)
    PROVE  /\ d \in Nat
           /\ d >= Len(p.lines) <=> k >= p.syncedItems
           /\ k >= p.syncedItems => SubSeq(p.lines, d + 1, Len(p.lines)) = <<>>
           /\ k < p.syncedItems =>
                SubSeq(p.lines, d + 1, Len(p.lines))
                  = Pane!Render(SubSeq(SubSeq(p.output, k + 1, Len(p.output)), 1, p.syncedItems - k), p.width)
<1> DEFINE s == p.output
           w == p.width
           n == p.syncedItems
           N == Len(s)
           a == SubSeq(s, 1, n)
           T == Len(p.lines)
<1>1. /\ s \in Seq(Items) /\ w \in Pane!Widths /\ n \in Nat /\ N \in Nat /\ n <= N
      /\ p.lines = Pane!Render(a, w) /\ k <= N /\ p.lines \in Seq(Rendered) /\ T \in Nat
  BY PaneFields, Zenon DEF Filled
<1> HIDE DEF s, w, n, N, a
<1>2. T = RowsUpto(s, w, n)
  BY <1>1, Zenon DEF RowsUpto, a
<1>3. d \in Nat /\ (k < n => d < T) /\ (n <= k => T <= d)
  <2>1. k \in 0..N /\ n \in 0..N
    BY <1>1
  <2>2. d = RowsUpto(s, w, k)
    BY Zenon DEF s, w
  <2> QED BY <1>1, <1>2, <2>1, <2>2, RowsGrow, Zenon DEF N
<1>4. d >= T <=> k >= n
  BY <1>1, <1>3
<1>5. ASSUME k >= n PROVE SubSeq(p.lines, d + 1, T) = <<>>
  <2>1. d >= T
    BY <1>4, <1>5
  <2> HIDE DEF T
  <2> QED BY <1>1, <1>3, <2>1
<1>6. ASSUME k < n
      PROVE  SubSeq(p.lines, d + 1, T) = Pane!Render(SubSeq(SubSeq(s, k + 1, N), 1, n - k), w)
  <2>1. k <= n /\ k \in 0..n
    BY <1>1, <1>6
  <2>2. /\ SubSeq(a, 1, k) = SubSeq(s, 1, k)
        /\ SubSeq(a, k + 1, n) = SubSeq(SubSeq(s, k + 1, N), 1, n - k)
    <3>1. n <= Len(s)
      BY <1>1, Zenon DEF N
    <3>2. /\ SubSeq(SubSeq(s, 1, n), 1, k) = SubSeq(s, 1, k)
          /\ SubSeq(SubSeq(s, 1, n), k + 1, n) = SubSeq(s, k + 1, n)
          /\ SubSeq(SubSeq(s, k + 1, Len(s)), 1, n - k) = SubSeq(s, k + 1, n)
      BY <1>1, <2>1, <3>1, PartOfPart
    <3> QED BY <3>2, Zenon DEF a, N
  <2>3. a \in Seq(Items) /\ Len(a) = n
    BY <1>1 DEF a, N
  <2>4. RowsUpto(a, w, k) = d
    BY <2>2, Zenon DEF RowsUpto, s, w
  <2>5. SubSeq(Pane!Render(a, w), RowsUpto(a, w, k) + 1, Len(Pane!Render(a, w)))
          = Pane!Render(SubSeq(a, k + 1, Len(a)), w)
    BY <1>1, <2>1, <2>3, RowsAfter, Zenon
  <2> QED BY <1>1, <2>2, <2>3, <2>4, <2>5, Zenon
<1> QED BY <1>3, <1>4, <1>5, <1>6, Zenon DEF s, w, n, N

\* Trimming drops k items and their rows, and the view and the anchor of the
\* pager go up with the lines they are at.
Trimmed(q, p, k, d) ==
    /\ q.output = SubSeq(p.output, k + 1, Len(p.output))
    /\ q.lines = SubSeq(p.lines, d + 1, Len(p.lines))
    /\ q.width = p.width /\ q.stale = p.stale /\ SameMind(q, p)
    /\ q.syncedItems = IF p.syncedItems - k > 0 THEN p.syncedItems - k ELSE 0
    /\ q.yOffset = Within(p.yOffset - d, q)
    /\ q.autoPageAnchor = IF p.autoPageAnchor >= 0
                          THEN (IF p.autoPageAnchor - d > 0 THEN p.autoPageAnchor - d ELSE 0)
                          ELSE -1

LEMMA TopTrimmed ==
    ASSUME NEW p \in Panes, NEW d \in Nat \ {0}, NEW q, q = Pane!TrimTop(p, d),
           p.yOffset <= Pane!MaxYOffset(p)
    PROVE  /\ q \in Panes /\ q.output = p.output /\ q.lines = SubSeq(p.lines, d + 1, Len(p.lines))
           /\ q.width = p.width /\ q.stale = p.stale /\ SameMind(q, p)
           /\ q.syncedItems = p.syncedItems /\ q.autoPageAnchor = p.autoPageAnchor
           /\ q.yOffset = Within(p.yOffset - d, q)
<1> DEFINE T == Len(p.lines)
           cut == SubSeq(p.lines, d + 1, T)
<1>1. T \in Nat /\ p.lines \in Seq(Rendered) /\ Pane!Total(p) = T /\ p.yOffset \in Nat
  BY PaneFields, Zenon
<1>2. d # 0
  OBVIOUS
<1>3. CASE d >= T
  <2>1. q = [p EXCEPT !.lines = <<>>, !.yOffset = 0]
    BY <1>1, <1>2, <1>3, Zenon DEF Pane!TrimTop
  <2>2. cut = <<>>
    <3> HIDE DEF T
    <3> QED BY <1>1, <1>3
  <2> HIDE DEF cut
  <2> DEFINE none == <<>>
  <2>0. none \in Seq(Rendered) /\ q = [p EXCEPT !.lines = none, !.yOffset = 0]
    BY <2>1, EmptySeq, Zenon
  <2> HIDE DEF none
  <2>3. q \in Panes
    <3>1. p \in Panes
      OBVIOUS
    <3> QED BY ONLY <2>0, <3>1 DEF Panes
  <2>4. /\ q.output = p.output /\ q.lines = <<>> /\ q.width = p.width /\ q.stale = p.stale
        /\ SameMind(q, p) /\ q.syncedItems = p.syncedItems
        /\ q.autoPageAnchor = p.autoPageAnchor /\ q.yOffset = 0
    BY <2>1 DEF Panes, SameMind
  <2>5. Within(p.yOffset - d, q) = 0
    <3> DEFINE m == Pane!MaxYOffset(q)
               h == q.height
               t == Len(q.lines)
    <3>1. m \in Nat /\ m = IF t > h THEN t - h ELSE 0
      BY <2>3, GreatestOffset, Zenon
    <3>2. t = 0 /\ h \in Nat \ {0}
      BY <2>3, <2>4, PaneFields
    <3>3. Within(p.yOffset - d, q) = IF p.yOffset - d < 0 THEN 0 ELSE IF p.yOffset - d > m THEN m ELSE p.yOffset - d
      BY Zenon DEF Within
    <3> HIDE DEF m, h, t
    <3> QED BY <1>1, <3>1, <3>2, <3>3
  <2> QED BY <2>2, <2>3, <2>4, <2>5, Zenon DEF cut
<1>4. CASE ~(d >= T)
  <2> DEFINE r == [p EXCEPT !.lines = SubSeq(@, d + 1, Len(@))]
  <2>1. q = Pane!SetYOffset(r, p.yOffset - d)
    BY <1>1, <1>2, <1>4, Zenon DEF Pane!TrimTop
  <2>2. cut \in Seq(Rendered)
    BY <1>1, <1>4
  <2>3. r = [p EXCEPT !.lines = cut]
    BY DEF Panes
  <2> HIDE DEF r, cut
  <2>4. r \in Panes
    BY <2>2, <2>3 DEF Panes
  <2>5. /\ r.output = p.output /\ r.lines = cut /\ r.width = p.width /\ r.stale = p.stale
        /\ SameMind(r, p) /\ r.syncedItems = p.syncedItems
        /\ r.autoPageAnchor = p.autoPageAnchor
    BY <2>3 DEF Panes, SameMind
  <2>6. p.yOffset - d \in Int
    BY <1>1
  <2>7. /\ q \in Panes /\ SameText(q, r) /\ SameMind(q, r) /\ q.autoPageAnchor = r.autoPageAnchor
        /\ q.yOffset = Within(p.yOffset - d, r) /\ Pane!MaxYOffset(q) = Pane!MaxYOffset(r)
    BY <2>1, <2>4, <2>6, OffsetSet, Zenon
  <2>8. Within(p.yOffset - d, r) = Within(p.yOffset - d, q)
    BY <2>7, Zenon DEF Within
  <2> QED BY <2>5, <2>7, <2>8, Zenon DEF cut, SameText, SameMind
<1> QED BY <1>3, <1>4

LEMMA TrimKeeps ==
    ASSUME Pane!PaneAssumption, NEW p, Filled(p), p.yOffset <= Pane!MaxYOffset(p),
           NEW q, q = Pane!Trim(p), Pane!Over(p) > ScrollbackSlack
    PROVE  \E k \in 1..Len(p.output) - 1 : \E d \in Nat \ {0} :
              /\ d = RowsUpto(p.output, p.width, k)
              /\ Trimmed(q, p, k, d) /\ Filled(q)
              /\ Len(q.output) = MaxScrollback
              /\ q.yOffset <= Pane!MaxYOffset(q)
<1> DEFINE k == Pane!Over(p)
           s == p.output
           N == Len(s)
           d == RowsUpto(s, p.width, k)
           r == Pane!TrimTop(p, d)
           n == p.syncedItems
           rest == SubSeq(s, k + 1, N)
           a == p.autoPageAnchor
           left == Pane!Larger(n - k, 0)
           aim == IF a >= 0 THEN Pane!Larger(a - d, 0) ELSE a
<1>1. /\ p \in Panes /\ s \in Seq(Items) /\ N \in Nat /\ n \in Nat /\ p.width \in Pane!Widths
      /\ n <= N /\ a \in Nat \cup {-1} /\ p.yOffset \in Nat
  BY PaneFields, Zenon DEF Filled
<1>2. k = N - MaxScrollback /\ k > ScrollbackSlack
  BY Zenon DEF Pane!Over
<1> HIDE DEF k
<1>3. MaxScrollback \in Nat \ {0} /\ ScrollbackSlack \in Nat
  BY DEF Pane!PaneAssumption
<1>4. k \in 1..N - 1 /\ k \in Nat /\ k <= N /\ N - k = MaxScrollback
  BY <1>1, <1>2, <1>3
<1>5. d \in Nat \ {0}
  <2>1. 0 \in 0..N /\ k \in 0..N /\ 0 < k
    BY <1>1, <1>4
  <2>2. RowsUpto(s, p.width, 0) = 0 /\ RowsUpto(s, p.width, 0) < d /\ d \in Nat
    BY <1>1, <2>1, RowsGrow, Zenon
  <2> HIDE DEF d
  <2> QED BY <2>2
<1>6. d = Pane!Upto(p, k)
  BY Zenon DEF RowsUpto, Pane!Upto
<1> HIDE DEF d
<1>18. r = Pane!TrimTop(p, d)
  OBVIOUS
<1> HIDE DEF r
<1>7. /\ r \in Panes /\ r.output = s /\ r.lines = SubSeq(p.lines, d + 1, Len(p.lines))
      /\ r.width = p.width /\ r.stale = p.stale /\ SameMind(r, p)
      /\ r.syncedItems = n /\ r.autoPageAnchor = a
      /\ r.yOffset = Within(p.yOffset - d, r)
  <2>1. p \in Panes /\ p.yOffset <= Pane!MaxYOffset(p)
    BY <1>1, Zenon
  <2> QED BY ONLY <1>5, <1>18, <2>1, TopTrimmed, Zenon
<1>8. q = [r EXCEPT !.output = SubSeq(@, k + 1, Len(@)),
                    !.syncedItems = Pane!Larger(@ - k, 0),
                    !.autoPageAnchor = IF @ >= 0 THEN Pane!Larger(@ - d, 0) ELSE @]
  BY <1>2, <1>6, <1>18, Zenon DEF Pane!Trim, k
<1>9. q = [r EXCEPT !.output = rest, !.syncedItems = left, !.autoPageAnchor = aim]
  <2> HIDE DEF N
  <2> QED BY <1>7, <1>8 DEF Panes, N
<1>10. rest \in Seq(Items) /\ Len(rest) = MaxScrollback /\ rest # <<>>
  <2>1. N \in k..N /\ k \in 0..N
    BY <1>1, <1>4
  <2>2. rest \in Seq(Items) /\ Len(rest) = N - k
    <3>1. s \in Seq(Items) /\ N = Len(s) /\ rest = SubSeq(s, k + 1, N)
      BY <1>1
    <3> HIDE DEF s, N, rest
    <3>2. N \in k..Len(s) /\ k \in 0..Len(s)
      BY <2>1, <3>1, Zenon
    <3>3. SubSeq(s, k + 1, N) \in Seq(Items) /\ Len(SubSeq(s, k + 1, N)) = N - k
      BY <3>1, <3>2, PartOfItems, Zenon
    <3> QED BY <3>1, <3>3, Zenon
  <2> HIDE DEF rest
  <2> QED BY <1>3, <1>4, <2>2
<1>11. left \in Nat /\ left = (IF n - k > 0 THEN n - k ELSE 0)
  <2>1. left = IF n - k > 0 THEN n - k ELSE 0
    BY Zenon DEF Pane!Larger
  <2> HIDE DEF left, n
  <2> QED BY <1>1, <1>4, <2>1
<1>12. /\ aim \in Nat \cup {-1}
       /\ aim = IF a >= 0 THEN (IF a - d > 0 THEN a - d ELSE 0) ELSE -1
  <2>1. aim = IF a >= 0 THEN (IF a - d > 0 THEN a - d ELSE 0) ELSE a
    BY Zenon DEF Pane!Larger
  <2> HIDE DEF aim, a
  <2> QED BY <1>1, <1>5, <2>1
<1> HIDE DEF rest, left, aim
<1>13. q \in Panes
  BY <1>7, <1>9, <1>10, <1>11, <1>12 DEF Panes
<1>14. /\ q.output = rest /\ q.syncedItems = left /\ q.autoPageAnchor = aim
       /\ q.lines = r.lines /\ q.width = r.width /\ q.stale = r.stale
       /\ SameMind(q, r) /\ q.yOffset = r.yOffset
  BY <1>7, <1>9 DEF Panes, SameMind
<1>15. q.yOffset = Within(p.yOffset - d, q) /\ q.yOffset <= Pane!MaxYOffset(q)
  <2>1. Pane!MaxYOffset(q) = Pane!MaxYOffset(r)
    BY <1>14, SameGreatest, Zenon DEF SameMind
  <2>2. Within(p.yOffset - d, q) = Within(p.yOffset - d, r)
    BY <2>1, Zenon DEF Within
  <2>3. p.yOffset - d \in Int
    BY <1>1, <1>5
  <2> QED BY <1>7, <1>13, <1>14, <2>2, <2>3, GreatestOffset, Zenon
<1>16. Trimmed(q, p, k, d)
  BY <1>7, <1>11, <1>12, <1>14, <1>15, Zenon DEF Trimmed, rest, SameMind
<1>17. Filled(q)
  <2>1. left <= Len(rest)
    BY <1>1, <1>4, <1>10, <1>11
  <2>2. q.lines = Pane!Render(SubSeq(rest, 1, left), p.width)
    <3>1. /\ k >= n => SubSeq(p.lines, d + 1, Len(p.lines)) = <<>>
          /\ k < n => SubSeq(p.lines, d + 1, Len(p.lines))
                        = Pane!Render(SubSeq(rest, 1, n - k), p.width)
      BY <1>4, LinesDropped, Zenon DEF d, rest
    <3>2. CASE k >= n
      <4>1. left = 0
        BY <1>1, <1>4, <1>11, <3>2
      <4>2. SubSeq(rest, 1, left) = <<>>
        BY <1>10, <4>1
      <4>3. Pane!Render(<<>>, p.width) = <<>>
        BY <1>1, <1>10, RenderType, Zenon
      <4> QED BY <1>7, <1>14, <3>1, <3>2, <4>2, <4>3, Zenon
    <3>3. CASE k < n
      <4>1. left = n - k
        BY <1>1, <1>4, <1>11, <3>3
      <4> QED BY <1>7, <1>14, <3>1, <3>3, <4>1, Zenon
    <3>4. k >= n \/ k < n
      BY <1>1, <1>4
    <3> QED BY <3>2, <3>3, <3>4
  <2> QED BY <1>7, <1>10, <1>13, <1>14, <2>1, <2>2, Zenon DEF Filled
<1> QED BY <1>4, <1>5, <1>10, <1>14, <1>15, <1>16, <1>17, Zenon DEF d

-----------------------------------------------------------------------------
(* Refilling and paging                                                    *)

Settled(p) ==
    /\ p \in Panes /\ p.output # <<>> /\ ~p.stale
    /\ p.lines = Pane!Render(p.output, p.width) /\ p.syncedItems = Len(p.output)
    /\ p.yOffset <= Pane!MaxYOffset(p) /\ Pane!Over(p) <= ScrollbackSlack

Refilled(f, t) ==
    /\ f.output = t.output /\ f.width = t.width /\ SameMind(f, t) /\ ~f.stale
    /\ f.lines = Pane!Render(f.output, f.width) /\ f.syncedItems = Len(f.output)
    /\ f.autoPageAnchor = t.autoPageAnchor

GoesOn(f, t) == \A l \in 1..Len(t.lines) : f.lines[l] = t.lines[l]

\* Refill appends what is new, ...
LEMMA RefillAppends ==
    ASSUME NEW t, Filled(t), ~t.stale, t.yOffset <= Pane!MaxYOffset(t),
           NEW f, f = Pane!Refill(t)
    PROVE  /\ f \in Panes /\ Refilled(f, t) /\ f.yOffset = t.yOffset
           /\ Len(t.lines) <= Len(f.lines)
           /\ GoesOn(f, t)
           /\ Pane!MaxYOffset(t) <= Pane!MaxYOffset(f)
           /\ f.yOffset <= Pane!MaxYOffset(f)
<1> DEFINE s == t.output
           w == t.width
           n == t.syncedItems
           N == Len(s)
           old == Pane!Render(SubSeq(s, 1, n), w)
           new == Pane!Render(SubSeq(s, n + 1, N), w)
           all == t.lines \o new
<1>1. /\ t \in Panes /\ s \in Seq(Items) /\ w \in Pane!Widths /\ n \in Nat /\ N \in Nat /\ n <= N
      /\ t.lines = old /\ t.yOffset \in Nat
  BY PaneFields, Zenon DEF Filled
<1>2. f = [t EXCEPT !.lines = @ \o new, !.syncedItems = N]
  BY Zenon DEF Pane!Refill
<1>3. SubSeq(s, n + 1, N) \in Seq(Items) /\ SubSeq(s, 1, n) \in Seq(Items) /\ SubSeq(s, 1, N) = s
  <2>1. n \in 0..N /\ N \in n..N /\ SubSeq(s, 1, N) = s
    BY <1>1
  <2> HIDE DEF s, n
  <2> QED BY <1>1, <2>1, PartOfItems, Zenon DEF N
<1>4. old \in Seq(Rendered) /\ new \in Seq(Rendered)
  BY <1>1, <1>3, RenderType, Zenon
<1>5. all = Pane!Render(s, w)
  <2>1. n \in 0..N /\ N \in n..N
    BY <1>1
  <2> HIDE DEF s, n, w
  <2>2. Pane!Render(SubSeq(s, 1, N), w) = old \o new
    BY <1>1, <2>1, RowsInParts, Zenon DEF N
  <2> QED BY <1>1, <1>3, <2>2, Zenon
<1>6. all \in Seq(Rendered)
  <2>1. \A a, b \in Seq(Rendered) : a \o b \in Seq(Rendered)
    BY ConcatProperties, Zenon
  <2> HIDE DEF new, old
  <2> QED BY <1>1, <1>4, <2>1, Zenon
<1>7. /\ Len(t.lines) <= Len(all) /\ Len(all) \in Nat /\ Len(t.lines) \in Nat
      /\ \A l \in 1..Len(t.lines) : all[l] = t.lines[l]
  <2> DEFINE a == t.lines
  <2>1. a \in Seq(Rendered) /\ new \in Seq(Rendered)
    BY <1>1, <1>4, Zenon
  <2> HIDE DEF a, new
  <2>2. /\ Len(a) <= Len(a \o new) /\ Len(a \o new) \in Nat /\ Len(a) \in Nat
        /\ \A l \in 1..Len(a) : (a \o new)[l] = a[l]
    BY <2>1
  <2> QED BY <2>2, Zenon DEF a
<1>8. f = [t EXCEPT !.lines = all, !.syncedItems = N]
  <2> HIDE DEF new
  <2> QED BY ONLY <1>1, <1>2 DEF Panes, all
<1> HIDE DEF all, N, new, old
<1>9. f \in Panes
  BY ONLY <1>1, <1>6, <1>8 DEF Panes
<1>10. /\ f.output = s /\ f.width = w /\ SameMind(f, t) /\ f.stale = t.stale
       /\ f.lines = all /\ f.syncedItems = N /\ f.autoPageAnchor = t.autoPageAnchor
       /\ f.yOffset = t.yOffset
  BY ONLY <1>1, <1>8 DEF Panes, SameMind, s, w
<1>11. Pane!MaxYOffset(t) <= Pane!MaxYOffset(f) /\ f.yOffset <= Pane!MaxYOffset(f)
  <2> DEFINE x == Pane!MaxYOffset(t)
             y == Pane!MaxYOffset(f)
             h == t.height
             a == Len(t.lines)
             b == Len(f.lines)
  <2>1. /\ x \in Nat /\ x = (IF a > h THEN a - h ELSE 0)
        /\ y \in Nat /\ y = (IF b > f.height THEN b - f.height ELSE 0)
    BY <1>1, <1>9, GreatestOffset, Zenon
  <2>2. f.height = h /\ a <= b /\ a \in Nat /\ b \in Nat /\ h \in Nat
    <3>1. h \in Nat \ {0}
      BY <1>1, PaneFields, Zenon
    <3> QED BY <1>7, <1>10, <3>1, Zenon DEF SameMind
  <2>3. t.yOffset <= x /\ f.yOffset = t.yOffset
    BY <1>10, Zenon
  <2> HIDE DEF x, y, h, a, b
  <2>4. x <= y /\ t.yOffset <= y
    BY <1>1, <2>1, <2>2, <2>3
  <2> QED BY <2>3, <2>4, Zenon DEF x, y
<1> QED BY <1>5, <1>7, <1>9, <1>10, <1>11, Zenon DEF Refilled, GoesOn, s, w, N

\* ... or rebuilds all.
LEMMA RefillRebuilds ==
    ASSUME NEW t \in Panes, t.stale, NEW f, f = Pane!Refill(t)
    PROVE  /\ f \in Panes /\ Refilled(f, t) /\ f.yOffset = Within(t.yOffset, f)
           /\ f.yOffset <= Pane!MaxYOffset(f)
<1> DEFINE s == t.output
           w == t.width
           N == Len(s)
           all == Pane!Render(s, w)
           e == [t EXCEPT !.lines = all, !.stale = FALSE, !.syncedItems = N]
<1>1. s \in Seq(Items) /\ w \in Pane!Widths /\ N \in Nat /\ t.yOffset \in Nat
  BY PaneFields, Zenon
<1>2. all \in Seq(Rendered)
  BY <1>1, RenderType, Zenon
<1>3. f = Pane!SetYOffset(e, t.yOffset)
  BY Zenon DEF Pane!Refill
<1>4. t \in Panes /\ e = [t EXCEPT !.lines = all, !.stale = FALSE, !.syncedItems = N]
  OBVIOUS
<1> HIDE DEF all, N, e
<1>5. e \in Panes
  BY ONLY <1>1, <1>2, <1>4 DEF Panes
<1>6. /\ e.output = s /\ e.width = w /\ SameMind(e, t) /\ ~e.stale
      /\ e.lines = all /\ e.syncedItems = N /\ e.autoPageAnchor = t.autoPageAnchor
  BY ONLY <1>4 DEF Panes, SameMind, s, w
<1>7. t.yOffset \in Int
  BY <1>1
<1>8. /\ f \in Panes /\ SameText(f, e) /\ SameMind(f, e) /\ f.autoPageAnchor = e.autoPageAnchor
      /\ f.yOffset = Within(t.yOffset, e) /\ Pane!MaxYOffset(f) = Pane!MaxYOffset(e)
  BY ONLY <1>3, <1>5, <1>7, OffsetSet, Zenon
<1>9. f.yOffset = Within(t.yOffset, f)
  BY <1>8, Zenon DEF Within
<1>10. f.yOffset <= Pane!MaxYOffset(f)
  BY <1>7, <1>8, <1>9, GreatestOffset, Zenon
<1>11. Refilled(f, t)
  BY <1>6, <1>8, Zenon DEF Refilled, SameText, SameMind, s, w, all, N
<1> QED BY <1>8, <1>9, <1>10, <1>11, Zenon

\* Then the view follows the output, or stays.
Follows(q, f, t, bottom) ==
    \/ f.autoPageAnchor >= 0 /\ Paged(q, f, f.autoPageAnchor)
    \/ /\ ~(f.autoPageAnchor >= 0) /\ (bottom \/ Len(f.lines) <= f.height)
       /\ Paged(q, f, Len(t.lines))
    \/ /\ ~(f.autoPageAnchor >= 0) /\ ~bottom /\ ~(Len(f.lines) <= f.height)
       /\ q.yOffset = f.yOffset /\ q.autoPageAnchor = f.autoPageAnchor

LEMMA SyncFollows ==
    ASSUME NEW p, NEW t, t = Pane!Trim(p), t \in Panes, NEW f, f = Pane!Refill(t), f \in Panes,
           f.yOffset <= Pane!MaxYOffset(f), NEW q, q = Pane!Sync(p)
    PROVE  /\ q \in Panes /\ SameText(q, f) /\ SameMind(q, f)
           /\ Follows(q, f, t, Pane!AtBottom(p))
           /\ Pane!MaxYOffset(q) = Pane!MaxYOffset(f) /\ q.yOffset <= Pane!MaxYOffset(q)
<1> DEFINE a == f.autoPageAnchor
           m == Pane!MaxYOffset(f)
           before == Len(t.lines)
<1>1. a \in Nat \cup {-1} /\ before \in Nat /\ m \in Nat /\ f.yOffset \in Nat
  BY PaneFields, GreatestOffset, Zenon
<1>2. q = IF a >= 0 THEN Pane!Page(f, a)
          ELSE IF Pane!AtBottom(p) \/ Len(f.lines) <= f.height THEN Pane!Page(f, before)
          ELSE f
  BY Zenon DEF Pane!Sync, Pane!Total
<1>3. ASSUME NEW from \in Nat, q = Pane!Page(f, from)
      PROVE  /\ q \in Panes /\ SameText(q, f) /\ SameMind(q, f) /\ Paged(q, f, from)
             /\ Pane!MaxYOffset(q) = m /\ q.yOffset <= m
  <2>1. /\ q \in Panes /\ SameText(q, f) /\ SameMind(q, f) /\ Paged(q, f, from)
        /\ Pane!MaxYOffset(q) = m
    <3>1. f \in Panes /\ from \in Nat
      OBVIOUS
    <3> QED BY ONLY <1>3, <3>1, PageShown, Zenon
  <2>2. q.yOffset = m \/ (q.yOffset = from /\ from < m)
    BY <2>1, Zenon DEF Paged
  <2> HIDE DEF m
  <2>3. q.yOffset <= m
    BY <1>1, <2>2
  <2> QED BY <2>1, <2>3, Zenon
<1>4. CASE a >= 0
  <2>1. a \in Nat
    <3> HIDE DEF a
    <3> QED BY <1>1, <1>4
  <2>2. q = Pane!Page(f, a)
    BY <1>2, <1>4, Zenon
  <2>3. /\ q \in Panes /\ SameText(q, f) /\ SameMind(q, f) /\ Paged(q, f, a)
        /\ Pane!MaxYOffset(q) = m /\ q.yOffset <= m
    BY <1>3, <2>1, <2>2, Zenon
  <2> QED BY <1>4, <2>3, Zenon DEF Follows
<1>5. CASE ~(a >= 0) /\ (Pane!AtBottom(p) \/ Len(f.lines) <= f.height)
  <2>1. q = Pane!Page(f, before)
    BY <1>2, <1>5, Zenon
  <2>2. /\ q \in Panes /\ SameText(q, f) /\ SameMind(q, f) /\ Paged(q, f, before)
        /\ Pane!MaxYOffset(q) = m /\ q.yOffset <= m
    BY <1>1, <1>3, <2>1, Zenon
  <2> QED BY <1>5, <2>2, Zenon DEF Follows
<1>6. CASE ~(a >= 0) /\ ~(Pane!AtBottom(p) \/ Len(f.lines) <= f.height)
  <2>1. q = f
    BY <1>2, <1>6, Zenon
  <2> QED BY <1>6, <2>1, Zenon DEF Follows, SameText, SameMind
<1> QED BY <1>4, <1>5, <1>6

\* What Trim does, if anything
TrimOf(t, p) ==
    \/ t = p /\ Pane!Over(p) <= ScrollbackSlack
    \/ /\ Pane!Over(p) > ScrollbackSlack
       /\ \E k \in 1..Len(p.output) - 1 : \E d \in Nat \ {0} :
             d = RowsUpto(p.output, p.width, k) /\ Trimmed(t, p, k, d)

LEMMA SyncAppends ==
    ASSUME Pane!PaneAssumption, NEW p, Filled(p), ~p.stale, p.yOffset <= Pane!MaxYOffset(p),
           NEW t, t = Pane!Trim(p), NEW f, f = Pane!Refill(t), NEW q, q = Pane!Sync(p)
    PROVE  /\ TrimOf(t, p) /\ Filled(t) /\ ~t.stale /\ t.yOffset <= Pane!MaxYOffset(t)
           /\ f \in Panes /\ Refilled(f, t) /\ f.yOffset = t.yOffset
           /\ Len(t.lines) <= Len(f.lines)
           /\ GoesOn(f, t)
           /\ Pane!MaxYOffset(t) <= Pane!MaxYOffset(f)
           /\ Follows(q, f, t, Pane!AtBottom(p)) /\ SameText(q, f) /\ SameMind(q, f)
           /\ Pane!MaxYOffset(q) = Pane!MaxYOffset(f) /\ q.width = p.width /\ SameMind(q, p)
           /\ Settled(q)
<1>0. MaxScrollback \in Nat \ {0} /\ ScrollbackSlack \in Nat /\ p \in Panes
  BY Zenon DEF Pane!PaneAssumption, Filled
<1>1. /\ TrimOf(t, p) /\ Filled(t) /\ ~t.stale /\ t.yOffset <= Pane!MaxYOffset(t)
      /\ SameMind(t, p) /\ t.width = p.width /\ Pane!Over(t) <= ScrollbackSlack
  <2>1. CASE Pane!Over(p) > ScrollbackSlack
    <3>1. PICK k \in 1..Len(p.output) - 1 : \E d \in Nat \ {0} :
              /\ d = RowsUpto(p.output, p.width, k)
              /\ Trimmed(t, p, k, d) /\ Filled(t)
              /\ Len(t.output) = MaxScrollback
              /\ t.yOffset <= Pane!MaxYOffset(t)
      BY <2>1, TrimKeeps, Zenon
    <3>2. PICK d \in Nat \ {0} :
              /\ d = RowsUpto(p.output, p.width, k)
              /\ Trimmed(t, p, k, d) /\ Filled(t)
              /\ Len(t.output) = MaxScrollback
              /\ t.yOffset <= Pane!MaxYOffset(t)
      BY <3>1, Zenon
    <3>3. TrimOf(t, p)
      BY <2>1, <3>2, Zenon DEF TrimOf
    <3>4. Pane!Over(t) <= ScrollbackSlack
      <4>1. Pane!Over(t) = MaxScrollback - MaxScrollback
        BY <3>2, Zenon DEF Pane!Over
      <4> QED BY <1>0, <4>1
    <3> QED BY <3>2, <3>3, <3>4, Zenon DEF Trimmed
  <2>2. CASE ~(Pane!Over(p) > ScrollbackSlack)
    <3>1. t = p
      BY <2>2, Zenon DEF Pane!Trim
    <3>2. Pane!Over(p) <= ScrollbackSlack
      <4>1. Len(p.output) \in Nat
        BY <1>0, PaneFields, Zenon
      <4>2. Pane!Over(p) = Len(p.output) - MaxScrollback
        BY Zenon DEF Pane!Over
      <4> QED BY <1>0, <2>2, <4>1, <4>2
    <3> QED BY <3>1, <3>2, Zenon DEF TrimOf, SameMind
  <2> QED BY <2>1, <2>2
<1>2. /\ f \in Panes /\ Refilled(f, t) /\ f.yOffset = t.yOffset
      /\ Len(t.lines) <= Len(f.lines)
      /\ GoesOn(f, t)
      /\ Pane!MaxYOffset(t) <= Pane!MaxYOffset(f)
      /\ f.yOffset <= Pane!MaxYOffset(f)
  BY <1>1, RefillAppends, Zenon
<1>3. /\ q \in Panes /\ SameText(q, f) /\ SameMind(q, f)
      /\ Follows(q, f, t, Pane!AtBottom(p))
      /\ Pane!MaxYOffset(q) = Pane!MaxYOffset(f) /\ q.yOffset <= Pane!MaxYOffset(q)
  <2>1. t \in Panes
    BY <1>1, Zenon DEF Filled
  <2> QED BY <1>2, <2>1, SyncFollows, Zenon
<1>4. Settled(q)
  <2>1. Pane!Over(q) = Pane!Over(t) /\ q.output = t.output
    BY <1>2, <1>3, Zenon DEF Pane!Over, Refilled, SameText
  <2>2. t.output # <<>>
    BY <1>1, Zenon DEF Filled
  <2> QED BY <1>1, <1>2, <1>3, <2>1, <2>2, Zenon DEF Settled, Refilled, SameText
<1>5. q.width = p.width /\ SameMind(q, p)
  BY <1>1, <1>2, <1>3, Zenon DEF Refilled, SameText, SameMind
<1> QED BY <1>1, <1>2, <1>3, <1>4, <1>5, Zenon

LEMMA SyncRebuilds ==
    ASSUME Pane!PaneAssumption, NEW p \in Panes, p.stale, p.output # <<>>,
           Pane!Over(p) <= ScrollbackSlack,
           NEW f, f = Pane!Refill(p), NEW q, q = Pane!Sync(p)
    PROVE  /\ f \in Panes /\ Refilled(f, p) /\ f.yOffset = Within(p.yOffset, f)
           /\ Follows(q, f, p, Pane!AtBottom(p)) /\ SameText(q, f) /\ SameMind(q, f)
           /\ Pane!MaxYOffset(q) = Pane!MaxYOffset(f) /\ q.width = p.width /\ SameMind(q, p)
           /\ q.output = p.output /\ Settled(q)
<1>0. MaxScrollback \in Nat \ {0} /\ ScrollbackSlack \in Nat
  BY Zenon DEF Pane!PaneAssumption
<1>1. p = Pane!Trim(p)
  <2>1. ~(Pane!Over(p) > ScrollbackSlack)
    <3>1. Len(p.output) \in Nat
      BY <1>0, PaneFields, Zenon
    <3>2. Pane!Over(p) = Len(p.output) - MaxScrollback
      BY Zenon DEF Pane!Over
    <3> QED BY <1>0, <3>1, <3>2
  <2> QED BY <2>1, Zenon DEF Pane!Trim
<1>2. /\ f \in Panes /\ Refilled(f, p) /\ f.yOffset = Within(p.yOffset, f)
      /\ f.yOffset <= Pane!MaxYOffset(f)
  BY RefillRebuilds, Zenon
<1>3. /\ q \in Panes /\ SameText(q, f) /\ SameMind(q, f)
      /\ Follows(q, f, p, Pane!AtBottom(p))
      /\ Pane!MaxYOffset(q) = Pane!MaxYOffset(f) /\ q.yOffset <= Pane!MaxYOffset(q)
  BY <1>1, <1>2, SyncFollows, Zenon
<1>4. q.width = p.width /\ SameMind(q, p) /\ q.output = p.output
  BY <1>2, <1>3, Zenon DEF Refilled, SameText, SameMind
<1>5. Settled(q)
  BY <1>2, <1>3, <1>4, Zenon DEF Settled, Refilled, SameText, Pane!Over
<1> QED BY <1>2, <1>3, <1>4, <1>5, Zenon

-----------------------------------------------------------------------------
(* The pager across a Sync                                                 *)

\* From the first unread item on, items stand in the order they were made.
Sorted(p, u) ==
    \A i, j \in 1..Len(p.output) :
       i < j /\ p.output[i].n >= u => p.output[j].n > p.output[i].n

\* Where the unread lines begin: where the pager is armed, or where it stopped
Edge(p) == IF p.autoPageAnchor >= 0 THEN p.autoPageAnchor ELSE p.yOffset
Held(p, u) ==
    /\ Edge(p) \in 0..Len(p.lines) /\ p.yOffset <= Edge(p)
    /\ \A l \in 1..Edge(p) : p.lines[l][1] < u
    /\ \A l \in Edge(p) + 1..Len(p.lines) : p.lines[l][1] >= u
    /\ p.autoPageAnchor < 0 => p.yOffset < Pane!MaxYOffset(p)

LEMMA ItemAt ==
    ASSUME NEW s \in Seq(Items), NEW i \in 1..Len(s)
    PROVE  s[i] \in Items /\ s[i].n \in Nat /\ s[i].id \in Nat
<1>1. s[i] \in Items
  BY ElementOfSeq, Zenon
<1> QED BY <1>1 DEF Items

LEMMA RowAt ==
    ASSUME NEW s \in Seq(Rendered), NEW l \in 1..Len(s)
    PROVE  s[l][1] \in Nat
<1>1. s[l] \in Rendered
  BY ElementOfSeq, Zenon
<1> QED BY <1>1 DEF Rendered

LEMMA FollowsHolds ==
    ASSUME NEW f \in Panes, NEW t, NEW u \in Nat, NEW bottom \in BOOLEAN, Held(f, u), f.pagerEnabled,
           ~(f.autoPageAnchor >= 0) => ~bottom, f.yOffset <= Pane!MaxYOffset(f),
           NEW q, q \in Panes, SameText(q, f), Follows(q, f, t, bottom), SameMind(q, f),
           Pane!MaxYOffset(q) = Pane!MaxYOffset(f)
    PROVE  Held(q, u)
<1> DEFINE T == Len(f.lines)
           h == f.height
           m == Pane!MaxYOffset(f)
           a == f.autoPageAnchor
           y == f.yOffset
           e == Edge(f)
           b == q.autoPageAnchor
           z == q.yOffset
           g == Edge(q)
<1>1. T \in Nat /\ h \in Nat \ {0} /\ a \in Nat \cup {-1} /\ y \in Nat
  BY PaneFields, Zenon
<1>2. m \in Nat /\ m = IF T > h THEN T - h ELSE 0
  BY GreatestOffset, Zenon
<1>3. /\ e \in 0..T /\ y <= e /\ (a < 0 => y < m)
      /\ e = (IF a >= 0 THEN a ELSE y) /\ g = (IF b >= 0 THEN b ELSE z)
  BY Zenon DEF Held, Edge
<1>4. q.lines = f.lines
  BY Zenon DEF SameText
<1>5. \/ a >= 0 /\ ((T - a <= h /\ z = m /\ b = a) \/ (z = a /\ a < m /\ b = -1))
      \/ ~(a >= 0) /\ ~(T <= h) /\ z = y /\ b = a
  <2>1. CASE a >= 0 /\ Paged(q, f, a)
    BY <2>1, Zenon DEF Paged
  <2>2. CASE ~(a >= 0) /\ (bottom \/ T <= h) /\ Paged(q, f, Len(t.lines))
    <3>1. T <= h /\ y < m
      <4>1. a < 0
        <5> HIDE DEF a
        <5> QED BY <1>1, <2>2
      <4> QED BY <1>3, <2>2, <4>1, Zenon
    <3>2. FALSE
      <4> HIDE DEF T, h, m, y
      <4> QED BY <1>1, <1>2, <3>1
    <3> QED BY <3>2
  <2>3. CASE ~(a >= 0) /\ ~bottom /\ ~(T <= h) /\ z = y /\ b = a
    BY <2>3, Zenon
  <2> QED BY <2>1, <2>2, <2>3, Zenon DEF Follows
<1> HIDE DEF T, h, m, a, y, e, b, z, g
<1>6. g = e /\ z <= g /\ (b < 0 => z < m)
  BY <1>1, <1>2, <1>3, <1>5
<1>7. /\ g \in 0..Len(q.lines) /\ z <= g
      /\ \A l \in 1..g : q.lines[l][1] < u
      /\ \A l \in g + 1..Len(q.lines) : q.lines[l][1] >= u
  BY <1>3, <1>4, <1>6, Zenon DEF Held, e, T
<1>8. b < 0 => z < Pane!MaxYOffset(q)
  BY <1>6, Zenon DEF m
<1> QED BY <1>7, <1>8, Zenon DEF Held, g, z, b

\* The rows that are new come from the items that are.
LEMMA NewRows ==
    ASSUME NEW t, Filled(t), NEW f, f \in Panes, Refilled(f, t), NEW u \in Nat,
           \A i \in t.syncedItems + 1..Len(t.output) : t.output[i].n >= u
    PROVE  \A l \in Len(t.lines) + 1..Len(f.lines) : f.lines[l][1] >= u
<1> SUFFICES ASSUME NEW l \in Len(t.lines) + 1..Len(f.lines) PROVE f.lines[l][1] >= u
  OBVIOUS
<1> DEFINE s == t.output
           w == t.width
           n == t.syncedItems
<1>1. /\ s \in Seq(Items) /\ w \in Pane!Widths /\ n \in Nat /\ n <= Len(s) /\ Len(s) \in Nat
      /\ Len(t.lines) = RowsUpto(s, w, n) /\ f.lines = Pane!Render(s, w)
      /\ Len(t.lines) \in Nat
  <2>1. t \in Panes
    BY Zenon DEF Filled
  <2> QED BY <2>1, PaneFields, Zenon DEF Filled, Refilled, RowsUpto
<1> HIDE DEF s, w, n
<1>2. l \in 1..Len(Pane!Render(s, w))
  BY <1>1
<1>3. PICK i \in 1..Len(s) : /\ l <= RowsUpto(s, w, i)
                             /\ f.lines[l] = <<s[i].n, l - RowsUpto(s, w, i - 1), w>>
  BY <1>1, <1>2, OwnerOfRow, Zenon
<1>4. i > n
  <2>1. i \in 0..Len(s) /\ n \in 0..Len(s)
    BY <1>1
  <2>2. i <= n => RowsUpto(s, w, i) <= RowsUpto(s, w, n)
    BY <1>1, <2>1, RowsGrow, Zenon
  <2>3. RowsUpto(s, w, i) \in Nat /\ RowsUpto(s, w, n) \in Nat
    BY <1>1, <2>1, RowsGrow, Zenon
  <2> QED BY <1>1, <1>3, <2>1, <2>2, <2>3
<1>5. s[i].n >= u
  <2>1. i \in n + 1..Len(s)
    BY <1>1, <1>4
  <2> QED BY <2>1, Zenon DEF s, n
<1>6. f.lines[l][1] = s[i].n
  BY <1>3
<1> QED BY <1>5, <1>6, Zenon

\* What trimming leaves is as sorted, and held where it was.
LEMMA TrimSorts ==
    ASSUME NEW p, Filled(p), NEW u \in Nat, Sorted(p, u),
           \A i \in p.syncedItems + 1..Len(p.output) : p.output[i].n >= u,
           NEW k \in 1..Len(p.output) - 1, NEW d, NEW t, Trimmed(t, p, k, d), Filled(t)
    PROVE  /\ Sorted(t, u) /\ t.output[1].n = p.output[k + 1].n
           /\ \A i \in t.syncedItems + 1..Len(t.output) : t.output[i].n >= u
<1> DEFINE s == p.output
           r == t.output
           N == Len(s)
           n == p.syncedItems
<1>1. s \in Seq(Items) /\ N \in Nat /\ n \in Nat /\ n <= N
  <2>1. p \in Panes
    BY Zenon DEF Filled
  <2> QED BY <2>1, PaneFields, Zenon DEF Filled
<1>2. r = SubSeq(s, k + 1, N)
  BY Zenon DEF Trimmed
<1>3. Len(r) = N - k /\ \A i \in 1..N - k : r[i] = s[k + i]
  <2>1. k \in 0..N /\ N \in k..N
    BY <1>1
  <2> HIDE DEF s, r
  <2> QED BY <1>1, <1>2, <2>1, PartOfItems, Zenon DEF N
<1>4. t.syncedItems = IF n - k > 0 THEN n - k ELSE 0
  BY Zenon DEF Trimmed
<1>5. \A i \in 1..N : s[i].n \in Nat
  BY <1>1, ItemAt, Zenon
<1>6. \A i \in n + 1..N : s[i].n >= u
  OBVIOUS
<1>7. \A i, j \in 1..N : i < j /\ s[i].n >= u => s[j].n > s[i].n
  BY Zenon DEF Sorted
<1>8. k \in 1..N - 1
  OBVIOUS
<1> HIDE DEF s, r, N, n
<1>9. r[1].n = s[k + 1].n
  BY <1>1, <1>3, <1>8
<1>10. ASSUME NEW i \in t.syncedItems + 1..Len(r) PROVE r[i].n >= u
  <2>1. i \in 1..N - k /\ k + i \in n + 1..N
    BY <1>1, <1>3, <1>4, <1>8, <1>10
  <2> QED BY <1>3, <1>6, <2>1
<1>11. ASSUME NEW i \in 1..Len(r), NEW j \in 1..Len(r), i < j, r[i].n >= u
       PROVE  r[j].n > r[i].n
  <2>1. i \in 1..N - k /\ j \in 1..N - k /\ k + i \in 1..N /\ k + j \in 1..N /\ k + i < k + j
    BY <1>1, <1>3, <1>8, <1>11
  <2>2. r[i] = s[k + i] /\ r[j] = s[k + j]
    BY <1>3, <2>1
  <2> QED BY <1>7, <1>11, <2>1, <2>2, Zenon
<1> QED BY <1>9, <1>10, <1>11, Zenon DEF Sorted, s, r

LEMMA TrimHolds ==
    ASSUME NEW p, Filled(p), NEW u \in Nat, Sorted(p, u), Held(p, u),
           p.yOffset <= Pane!MaxYOffset(p),
           \A i \in p.syncedItems + 1..Len(p.output) : p.output[i].n >= u,
           NEW k \in 1..Len(p.output) - 1, NEW d \in Nat \ {0}, d = RowsUpto(p.output, p.width, k),
           NEW t, Trimmed(t, p, k, d), Filled(t), p.output[k + 1].n <= u
    PROVE  Held(t, u) /\ (p.autoPageAnchor >= 0 <=> t.autoPageAnchor >= 0)
<1> DEFINE s == p.output
           w == p.width
           N == Len(s)
           n == p.syncedItems
           T == Len(p.lines)
           e == Edge(p)
           h == p.height
<1>1. /\ s \in Seq(Items) /\ N \in Nat /\ n \in Nat /\ n <= N /\ T \in Nat /\ w \in Pane!Widths
      /\ h \in Nat \ {0} /\ p.autoPageAnchor \in Nat \cup {-1} /\ p.yOffset \in Nat
      /\ p.lines = Pane!Render(SubSeq(s, 1, n), w) /\ T = RowsUpto(s, w, n)
      /\ p \in Panes /\ t \in Panes /\ p.lines \in Seq(Rendered)
  <2>1. p \in Panes
    BY Zenon DEF Filled
  <2> QED BY <2>1, PaneFields, Zenon DEF Filled, RowsUpto
<1>2. /\ e \in 0..T /\ p.yOffset <= e /\ e = (IF p.autoPageAnchor >= 0 THEN p.autoPageAnchor ELSE p.yOffset)
      /\ \A l \in 1..e : p.lines[l][1] < u
      /\ \A l \in e + 1..T : p.lines[l][1] >= u
      /\ p.autoPageAnchor < 0 => p.yOffset < Pane!MaxYOffset(p)
  BY Zenon DEF Held, Edge
<1>0. d > e \/ d <= e
  <2>1. e \in 0..T /\ T \in Nat
    BY <1>1, <1>2, Zenon
  <2> HIDE DEF e, T
  <2> QED BY <2>1
<1>3. \A i \in 1..k : s[i].n < u
  <2> SUFFICES ASSUME NEW i \in 1..k, ~(s[i].n < u) PROVE FALSE
    OBVIOUS
  <2>1. i \in 1..N /\ k + 1 \in 1..N /\ i < k + 1
    BY <1>1
  <2>2. s[i].n \in Nat /\ s[k + 1].n \in Nat
    BY <1>1, <2>1, ItemAt, Zenon
  <2>3. s[i].n >= u /\ s[k + 1].n <= u
    BY <2>2
  <2>4. s[k + 1].n > s[i].n
    BY <2>1, <2>3, Zenon DEF Sorted
  <2> HIDE DEF s
  <2> QED BY <2>2, <2>3, <2>4
<1>4. d <= e
  <2> SUFFICES ASSUME d > e PROVE FALSE
    BY <1>0, Zenon
  <2>1. CASE e < T
    <3> DEFINE l == e + 1
               v == SubSeq(s, 1, n)
    <3>0. v \in Seq(Items) /\ Len(v) = n /\ \A i \in 1..n : v[i] = s[i]
      BY <1>1
    <3>1. l \in 1..Len(Pane!Render(v, w)) /\ l \in e + 1..T /\ l <= d
      <4>1. p.lines = Pane!Render(v, w)
        BY <1>1, Zenon
      <4>2. l \in e + 1..T /\ l \in 1..T /\ l <= d
        <5>1. e \in 0..T /\ T \in Nat /\ e < T /\ d > e /\ d \in Nat /\ l = e + 1
          BY <1>1, <1>2, <2>1, Zenon
        <5> HIDE DEF e, T, v, s, l
        <5> QED BY ONLY <5>1
      <4> QED BY <4>1, <4>2, Zenon
    <3> HIDE DEF l, v
    <3>2. PICK i \in 1..Len(v) :
             /\ RowsUpto(v, w, i - 1) < l
             /\ Pane!Render(v, w)[l] = <<v[i].n, l - RowsUpto(v, w, i - 1), w>>
      <4>1. v \in Seq(Items) /\ w \in Pane!Widths /\ l \in 1..Len(Pane!Render(v, w))
        BY <1>1, <3>0, <3>1, Zenon
      <4> QED BY ONLY <4>1, OwnerOfRow, Zenon
    <3>3. i \in 1..n /\ v[i] = s[i] /\ i \in 1..N /\ i - 1 \in 0..N
      <4>1. v \in Seq(Items) /\ Len(v) = n /\ n \in Nat /\ N \in Nat /\ n <= N
        BY <1>1, <3>0
      <4>2. i \in 1..n
        BY ONLY <4>1, i \in 1..Len(v), Zenon
      <4>3. i \in 1..N /\ i - 1 \in 0..N
        <5> HIDE DEF N
        <5> QED BY ONLY <4>1, <4>2
      <4> QED BY <3>0, <4>2, <4>3, Zenon
    <3>4. RowsUpto(v, w, i - 1) = RowsUpto(s, w, i - 1)
      <4> DEFINE j == i - 1
      <4>1. j \in Nat /\ j <= n
        BY <1>1, <3>3
      <4> HIDE DEF j
      <4>2. SubSeq(v, 1, j) = SubSeq(s, 1, j)
        <5>1. n <= Len(s)
          BY <1>1, Zenon
        <5>2. SubSeq(SubSeq(s, 1, n), 1, j) = SubSeq(s, 1, j)
          BY <1>1, <4>1, <5>1, PartOfPart
        <5> QED BY <5>2, Zenon DEF v
      <4> QED BY <4>2, Zenon DEF RowsUpto, j
    <3>5. s[i].n >= u
      <4>1. p.lines[l][1] >= u
        BY <1>2, <3>1, Zenon
      <4>2. p.lines[l] = <<s[i].n, l - RowsUpto(v, w, i - 1), w>>
        BY <1>1, <3>2, <3>3, Zenon DEF v
      <4> HIDE DEF s
      <4> QED BY <4>1, <4>2
    <3>6. i <= k
      <4>1. k \in 0..N
        BY <1>1
      <4>2. k <= i - 1 => d <= RowsUpto(s, w, i - 1)
        BY <1>1, <3>3, <4>1, RowsGrow, Zenon
      <4>3. RowsUpto(s, w, i - 1) \in Nat
        BY <1>1, <3>3, RowsGrow, Zenon
      <4>4. l \in Nat
        BY <3>1
      <4> HIDE DEF s, w, N
      <4> QED BY <3>1, <3>2, <3>3, <3>4, <4>1, <4>2, <4>3, <4>4
    <3>7. s[i].n < u
      BY <1>3, <3>3, <3>6
    <3>8. s[i].n \in Nat
      BY <1>1, <3>3, ItemAt, Zenon
    <3> HIDE DEF s
    <3> QED BY <3>5, <3>7, <3>8
  <2>2. CASE ~(e < T)
    <3>1. d > T
      <4> HIDE DEF e, T
      <4> QED BY <1>1, <1>2, <2>2
    <3>2. n < k
      <4>1. k \in 0..N /\ n \in 0..N
        BY <1>1
      <4>2. k <= n => d <= RowsUpto(s, w, n)
        BY <1>1, <4>1, RowsGrow, Zenon
      <4> HIDE DEF s, w, N, T, n
      <4> QED BY <1>1, <3>1, <4>1, <4>2
    <3>3. n + 1 \in 1..k /\ n + 1 \in n + 1..N
      BY <1>1, <3>2
    <3>4. s[n + 1].n < u /\ s[n + 1].n >= u
      BY <1>3, <3>3, Zenon
    <3>5. s[n + 1].n \in Nat
      <4>1. n + 1 \in 1..N
        BY <1>1, <3>3
      <4> QED BY <1>1, <4>1, ItemAt, Zenon
    <3> HIDE DEF s, n
    <3> QED BY <3>4, <3>5
  <2> QED BY <2>1, <2>2
<1> DEFINE a == p.autoPageAnchor
           y == p.yOffset
           b == t.autoPageAnchor
           z == t.yOffset
           m == Pane!MaxYOffset(p)
           x == Pane!MaxYOffset(t)
           R == Len(t.lines)
           g == Edge(t)
<1>5. /\ t.lines = SubSeq(p.lines, d + 1, T) /\ t.height = h
      /\ z = Within(y - d, t) /\ b = (IF a >= 0 THEN (IF a - d > 0 THEN a - d ELSE 0) ELSE -1)
  BY Zenon DEF Trimmed, SameMind
<1>6. z = IF y - d < 0 THEN 0 ELSE IF y - d > x THEN x ELSE y - d
  BY <1>5, Zenon DEF Within
<1>7. R = T - d /\ \A l \in 1..R : t.lines[l] = p.lines[d + l]
  <2> DEFINE o == p.lines
  <2>1. o \in Seq(Rendered) /\ T = Len(o) /\ d <= T /\ d \in Nat /\ T \in Nat
    <3>1. o \in Seq(Rendered) /\ T = Len(o)
      BY <1>1, Zenon
    <3> HIDE DEF o, T, e
    <3> QED BY <1>1, <1>2, <1>4, <3>1
  <2> DEFINE c == t.lines
  <2>2. c = SubSeq(o, d + 1, T)
    BY <1>5, Zenon
  <2> HIDE DEF o, T, c
  <2>3. Len(c) = T - d
    BY ONLY <2>1, <2>2
  <2>4. \A l \in 1..T - d : c[l] = o[d + l]
    BY ONLY <2>1, <2>2
  <2> QED BY <2>3, <2>4, Zenon DEF o, c
<1>8. /\ m \in Nat /\ m = (IF T > h THEN T - h ELSE 0)
      /\ x \in Nat /\ x = (IF R > h THEN R - h ELSE 0)
  BY <1>1, <1>5, GreatestOffset, Zenon
<1>9. g = IF b >= 0 THEN b ELSE z
  BY Zenon DEF Edge
<1>10. y <= m /\ d \in Nat \ {0}
  OBVIOUS
<1>11. \A l \in 1..T : p.lines[l][1] \in Nat
  BY <1>1, RowAt, Zenon
<1>16. y \in Nat /\ a \in Nat \cup {-1} /\ T \in Nat /\ h \in Nat \ {0} /\ e \in 0..T /\ d <= e
  BY <1>1, <1>2, <1>4, Zenon
<1>17. y <= e /\ e = (IF a >= 0 THEN a ELSE y) /\ (a < 0 => y < m)
  BY <1>2, Zenon
<1> HIDE DEF T, e, h, a, y, b, z, m, x, R, g
<1>12. g = e - d /\ z <= g /\ g \in 0..R /\ (b < 0 => z < x)
  BY ONLY <1>5, <1>6, <1>7, <1>8, <1>9, <1>10, <1>16, <1>17
<1>13. ASSUME NEW l \in 1..g PROVE t.lines[l][1] < u
  <2>1. l \in 1..R /\ d + l \in 1..e
    BY ONLY <1>7, <1>10, <1>12, <1>13, <1>16
  <2> QED BY <1>2, <1>7, <2>1
<1>14. ASSUME NEW l \in g + 1..R PROVE t.lines[l][1] >= u
  <2>1. l \in 1..R /\ d + l \in e + 1..T
    BY ONLY <1>7, <1>10, <1>12, <1>14, <1>16
  <2> QED BY <1>2, <1>7, <2>1
<1>15. a >= 0 <=> b >= 0
  BY ONLY <1>5, <1>10, <1>16
<1> QED BY <1>12, <1>13, <1>14, <1>15, Zenon DEF Held, g, R, z, x, b, a

-----------------------------------------------------------------------------
(* A Sync as a whole                                                       *)

\* What is unread is in order, and held unless it fell out of the scrollback.
Waits(p, u) ==
    /\ Sorted(p, u)
    /\ p.pagerEnabled /\ p.output[1].n <= u => Held(p, u)

\* Items of q are items of p, the last of which stays.
ItemsOf(q, p) ==
    /\ \A j \in 1..Len(q.output) : \E i \in 1..Len(p.output) : q.output[j] = p.output[i]
    /\ q.output[Len(q.output)] = p.output[Len(p.output)]

LEMMA ItemsLeft ==
    ASSUME NEW p \in Panes, NEW q \in Panes, NEW k \in 0..Len(p.output) - 1,
           q.output = SubSeq(p.output, k + 1, Len(p.output)), q.width = p.width
    PROVE  /\ ItemsOf(q, p)
           /\ Len(Pane!Render(q.output, q.width)) <= Len(Pane!Render(p.output, p.width))
<1> DEFINE s == p.output
           r == q.output
           N == Len(s)
           w == p.width
<1>1. s \in Seq(Items) /\ N \in Nat /\ w \in Pane!Widths
  BY PaneFields, Zenon
<1>2. k \in 0..N /\ N \in k..N /\ k \in 0..N - 1
  <2>1. k \in 0..N - 1
    OBVIOUS
  <2> HIDE DEF N
  <2> QED BY <1>1, <2>1
<1>3. r = SubSeq(s, k + 1, N)
  OBVIOUS
<1> HIDE DEF s, r, N
<1>4. Len(r) = N - k /\ \A i \in 1..N - k : r[i] = s[k + i]
  BY <1>1, <1>2, <1>3, PartOfItems, Zenon DEF N
<1>5. \A j \in 1..Len(r) : \E i \in 1..N : r[j] = s[i]
  <2> SUFFICES ASSUME NEW j \in 1..Len(r) PROVE \E i \in 1..N : r[j] = s[i]
    OBVIOUS
  <2>1. k + j \in 1..N /\ r[j] = s[k + j]
    BY <1>1, <1>2, <1>4
  <2> QED BY <2>1, Zenon
<1>6. r[Len(r)] = s[N]
  <2>0. Len(r) = N - k
    BY <1>4, Zenon
  <2>1. Len(r) \in 1..N - k /\ k + Len(r) = N
    BY ONLY <1>1, <1>2, <2>0
  <2> QED BY <1>4, <2>1, Zenon
<1>7. Len(Pane!Render(r, w)) <= Len(Pane!Render(s, w))
  <2> DEFINE all == RowsUpto(s, w, N)
             part == RowsUpto(s, w, k)
             rest == Len(Pane!Render(r, w))
  <2>1. part \in Nat /\ rest \in Nat /\ all = part + rest
    BY <1>1, <1>2, <1>3, RowsInParts, Zenon DEF N
  <2>2. all = Len(Pane!Render(s, w))
    BY <1>1, RowsGrow, Zenon DEF N
  <2> HIDE DEF all, part, rest
  <2>3. rest <= all
    BY <2>1
  <2> QED BY <2>2, <2>3, Zenon DEF rest
<1> QED BY <1>5, <1>6, <1>7, Zenon DEF ItemsOf, s, r, N

LEMMA SyncKeeps ==
    ASSUME Pane!PaneAssumption, NEW p, Filled(p), ~p.stale, p.yOffset <= Pane!MaxYOffset(p),
           NEW q, q = Pane!Sync(p)
    PROVE  /\ Settled(q) /\ SameMind(q, p) /\ q.width = p.width /\ ItemsOf(q, p)
           /\ Len(q.lines) <= Len(Pane!Render(p.output, p.width))
           /\ Pane!Over(p) <= ScrollbackSlack => q.output = p.output
<1> DEFINE t == Pane!Trim(p)
           f == Pane!Refill(t)
<1>0. t = Pane!Trim(p) /\ f = Pane!Refill(t) /\ p \in Panes
  BY Zenon DEF Filled
<1> HIDE DEF t, f
<1>1. /\ TrimOf(t, p) /\ Filled(t) /\ Refilled(f, t) /\ SameText(q, f)
      /\ Settled(q) /\ SameMind(q, p) /\ q.width = p.width
  BY <1>0, SyncAppends, Zenon
<1>2. q.output = t.output /\ q \in Panes
  BY <1>1, Zenon DEF SameText, Refilled, Settled
<1>3. Len(p.output) \in Nat /\ p.output \in Seq(Items) /\ p.output # <<>> /\ Len(p.output) # 0
  <2>1. p.output \in Seq(Items) /\ p.output # <<>>
    BY <1>0, PaneFields, Zenon DEF Filled
  <2> QED BY <2>1
<1>4. q.lines = Pane!Render(q.output, q.width)
  BY <1>1, Zenon DEF Settled
<1>5. CASE t = p
  <2>1. 0 \in 0..Len(p.output) - 1
    BY <1>3
  <2>2. p.output = SubSeq(p.output, 0 + 1, Len(p.output))
    BY <1>3
  <2>3. q.output = SubSeq(p.output, 0 + 1, Len(p.output))
    BY <1>2, <1>5, <2>2, Zenon
  <2>4. /\ ItemsOf(q, p)
        /\ Len(Pane!Render(q.output, q.width)) <= Len(Pane!Render(p.output, p.width))
    BY <1>0, <1>1, <1>2, <2>1, <2>3, ItemsLeft, Zenon
  <2> QED BY <1>1, <1>2, <1>4, <1>5, <2>4, Zenon
<1>6. CASE /\ Pane!Over(p) > ScrollbackSlack
           /\ \E k \in 1..Len(p.output) - 1 : \E d \in Nat \ {0} :
                 d = RowsUpto(p.output, p.width, k) /\ Trimmed(t, p, k, d)
  <2>1. PICK k \in 1..Len(p.output) - 1 : \E d \in Nat \ {0} : Trimmed(t, p, k, d)
    BY <1>6, Zenon
  <2>2. k \in 0..Len(p.output) - 1
    BY <1>3
  <2>3. q.output = SubSeq(p.output, k + 1, Len(p.output))
    BY <1>2, <2>1, Zenon DEF Trimmed
  <2>4. /\ ItemsOf(q, p)
        /\ Len(Pane!Render(q.output, q.width)) <= Len(Pane!Render(p.output, p.width))
    BY <1>0, <1>1, <1>2, <2>2, <2>3, ItemsLeft, Zenon
  <2>5. ~(Pane!Over(p) <= ScrollbackSlack)
    <3>1. Pane!Over(p) \in Int /\ ScrollbackSlack \in Nat
      BY <1>3 DEF Pane!Over, Pane!PaneAssumption
    <3> QED BY <1>6, <3>1
  <2> QED BY <1>1, <1>4, <2>4, <2>5, Zenon
<1> QED BY <1>1, <1>5, <1>6, Zenon DEF TrimOf

\* What was held over the rows there were is held over those that came.
LEMMA RefillHolds ==
    ASSUME NEW t, Filled(t), NEW f \in Panes, Refilled(f, t), NEW u \in Nat, Held(t, u),
           \A i \in t.syncedItems + 1..Len(t.output) : t.output[i].n >= u,
           f.yOffset = t.yOffset, Len(t.lines) <= Len(f.lines),
           GoesOn(f, t),
           Pane!MaxYOffset(t) <= Pane!MaxYOffset(f)
    PROVE  Held(f, u)
<1> DEFINE T == Len(t.lines)
           F == Len(f.lines)
           e == Edge(t)
           m == Pane!MaxYOffset(t)
           x == Pane!MaxYOffset(f)
           y == t.yOffset
<1>1. T \in Nat /\ F \in Nat /\ t \in Panes /\ y \in Nat
  <2>1. t \in Panes
    BY Zenon DEF Filled
  <2> QED BY <2>1, PaneFields, Zenon
<1>2. Edge(f) = e /\ f.autoPageAnchor = t.autoPageAnchor
  BY Zenon DEF Edge, Refilled
<1>3. /\ e \in 0..T /\ y <= e /\ (t.autoPageAnchor < 0 => y < m)
      /\ \A l \in 1..e : t.lines[l][1] < u
      /\ \A l \in e + 1..T : t.lines[l][1] >= u
  BY Zenon DEF Held
<1>4. \A l \in T + 1..F : f.lines[l][1] >= u
  BY NewRows, Zenon
<1>5. m \in Nat /\ x \in Nat /\ m <= x /\ T <= F
  BY <1>1, GreatestOffset, Zenon
<1>6. \A l \in 1..T : f.lines[l] = t.lines[l]
  BY Zenon DEF GoesOn
<1> HIDE DEF T, F, e, m, x, y
<1>7. e \in 0..F /\ (y < m => y < x)
  BY <1>1, <1>3, <1>5
<1>8. ASSUME NEW l \in 1..e PROVE f.lines[l][1] < u
  <2>1. l \in 1..T
    BY <1>1, <1>3
  <2> QED BY <1>3, <1>6, <2>1, Zenon
<1>9. ASSUME NEW l \in e + 1..F PROVE f.lines[l][1] >= u
  <2>1. l \in e + 1..T \/ l \in T + 1..F
    BY <1>1, <1>3, <1>5
  <2>2. l \in e + 1..T => l \in 1..T
    BY <1>1, <1>3
  <2> QED BY <1>3, <1>4, <1>6, <2>1, <2>2, Zenon
<1> QED BY <1>2, <1>3, <1>7, <1>8, <1>9, Zenon DEF Held, F, x, y

LEMMA SyncHolds ==
    ASSUME Pane!PaneAssumption, NEW p, Filled(p), ~p.stale, p.yOffset <= Pane!MaxYOffset(p),
           NEW u \in Nat, Waits(p, u),
           \A i \in p.syncedItems + 1..Len(p.output) : p.output[i].n >= u,
           NEW q, q = Pane!Sync(p)
    PROVE  Waits(q, u)
<1> DEFINE t == Pane!Trim(p)
           f == Pane!Refill(t)
<1>0. t = Pane!Trim(p) /\ f = Pane!Refill(t) /\ p \in Panes
  BY Zenon DEF Filled
<1> HIDE DEF t, f
<1>1. /\ TrimOf(t, p) /\ Filled(t) /\ t.yOffset <= Pane!MaxYOffset(t)
      /\ f \in Panes /\ Refilled(f, t) /\ f.yOffset = t.yOffset
      /\ Len(t.lines) <= Len(f.lines)
      /\ GoesOn(f, t)
      /\ Pane!MaxYOffset(t) <= Pane!MaxYOffset(f)
      /\ Follows(q, f, t, Pane!AtBottom(p)) /\ SameText(q, f) /\ SameMind(q, f)
      /\ Pane!MaxYOffset(q) = Pane!MaxYOffset(f) /\ SameMind(q, p) /\ Settled(q)
  <2>1. /\ Pane!PaneAssumption /\ Filled(p) /\ ~p.stale /\ p.yOffset <= Pane!MaxYOffset(p)
        /\ q = Pane!Sync(p)
    OBVIOUS
  <2>2. /\ TrimOf(t, p) /\ Filled(t) /\ t.yOffset <= Pane!MaxYOffset(t)
        /\ f \in Panes /\ Refilled(f, t) /\ f.yOffset = t.yOffset
        /\ Len(t.lines) <= Len(f.lines) /\ GoesOn(f, t)
    BY ONLY <1>0, <2>1, SyncAppends, Zenon
  <2>3. Pane!MaxYOffset(t) <= Pane!MaxYOffset(f)
    BY ONLY <1>0, <2>1, SyncAppends, SMTT(30)
  <2>4. /\ Follows(q, f, t, Pane!AtBottom(p)) /\ SameText(q, f) /\ SameMind(q, f)
        /\ Pane!MaxYOffset(q) = Pane!MaxYOffset(f) /\ SameMind(q, p)
        /\ Settled(q)
    BY ONLY <1>0, <2>1, SyncAppends, Zenon
  <2> QED BY ONLY <2>2, <2>3, <2>4, Zenon
<1>2. q.output = t.output /\ q \in Panes
  BY <1>1, Zenon DEF SameText, Refilled, Settled
<1>3. Sorted(p, u)
  BY Zenon DEF Waits
<1>4. /\ p.output \in Seq(Items) /\ Len(p.output) \in Nat /\ Len(p.output) # 0
      /\ p.yOffset \in Nat
  <2>1. p.output \in Seq(Items) /\ p.output # <<>> /\ p.yOffset \in Nat
    BY <1>0, PaneFields, Zenon DEF Filled
  <2> QED BY <2>1
<1>5. /\ Sorted(t, u) /\ \A i \in t.syncedItems + 1..Len(t.output) : t.output[i].n >= u
      /\ t.output[1].n <= u /\ p.pagerEnabled =>
            Held(t, u) /\ Held(p, u) /\ (p.autoPageAnchor >= 0 <=> t.autoPageAnchor >= 0)
  <2>1. CASE t = p
    BY <1>3, <2>1, Zenon DEF Waits
  <2>2. CASE \E k \in 1..Len(p.output) - 1 : \E d \in Nat \ {0} :
                d = RowsUpto(p.output, p.width, k) /\ Trimmed(t, p, k, d)
    <3>1. PICK k \in 1..Len(p.output) - 1 : \E d \in Nat \ {0} :
                d = RowsUpto(p.output, p.width, k) /\ Trimmed(t, p, k, d)
      BY <2>2, Zenon
    <3>2. PICK d \in Nat \ {0} : d = RowsUpto(p.output, p.width, k) /\ Trimmed(t, p, k, d)
      BY <3>1, Zenon
    <3>3. /\ Sorted(t, u) /\ t.output[1].n = p.output[k + 1].n
          /\ \A i \in t.syncedItems + 1..Len(t.output) : t.output[i].n >= u
      BY <1>1, <1>3, <3>2, TrimSorts, Zenon
    <3>4. ASSUME t.output[1].n <= u, p.pagerEnabled
          PROVE  Held(t, u) /\ Held(p, u) /\ (p.autoPageAnchor >= 0 <=> t.autoPageAnchor >= 0)
      <4>1. p.output[k + 1].n <= u
        BY <3>3, <3>4, Zenon
      <4>2. p.output[1].n <= u
        <5> DEFINE o == p.output
        <5>1. 1 \in 1..Len(o) /\ k + 1 \in 1..Len(o) /\ 1 < k + 1
          BY <1>4
        <5>2. o[1].n \in Nat /\ o[k + 1].n \in Nat
          BY <1>4, <5>1, ItemAt, Zenon
        <5>3. o[1].n >= u => o[k + 1].n > o[1].n
          BY <1>3, <5>1, Zenon DEF Sorted
        <5> HIDE DEF o
        <5>4. o[k + 1].n <= u
          BY <4>1, Zenon DEF o
        <5>5. o[1].n <= u
          BY <5>2, <5>3, <5>4
        <5> QED BY <5>5, Zenon DEF o
      <4>3. Held(p, u)
        BY <3>4, <4>2, Zenon DEF Waits
      <4>4. Held(t, u) /\ (p.autoPageAnchor >= 0 <=> t.autoPageAnchor >= 0)
        <5>1. /\ Filled(p) /\ u \in Nat /\ p.yOffset <= Pane!MaxYOffset(p)
              /\ \A i \in p.syncedItems + 1..Len(p.output) : p.output[i].n >= u
              /\ k \in 1..Len(p.output) - 1 /\ d \in Nat \ {0} /\ Filled(t)
          BY <1>1, Zenon
        <5> QED BY ONLY <1>3, <3>2, <4>1, <4>3, <5>1, TrimHolds, ZenonT(60)
      <4> QED BY <4>3, <4>4, Zenon
    <3> QED BY <3>3, <3>4, Zenon
  <2> QED BY <1>1, <2>1, <2>2, Zenon DEF TrimOf
<1>6. Sorted(q, u)
  BY <1>2, <1>5, Zenon DEF Sorted
<1>7. ASSUME q.pagerEnabled, q.output[1].n <= u PROVE Held(q, u)
  <2>1. p.pagerEnabled /\ f.pagerEnabled /\ t.output[1].n <= u
    BY <1>1, <1>2, <1>7, Zenon DEF SameMind
  <2>2. Held(t, u) /\ Held(p, u) /\ (p.autoPageAnchor >= 0 <=> t.autoPageAnchor >= 0)
    BY <1>5, <2>1, Zenon
  <2>3. Held(f, u)
    BY <1>1, <1>5, <2>2, RefillHolds, Zenon
  <2>4. ~(f.autoPageAnchor >= 0) => ~Pane!AtBottom(p)
    <3> SUFFICES ASSUME ~(f.autoPageAnchor >= 0) PROVE ~Pane!AtBottom(p)
      OBVIOUS
    <3> DEFINE a == p.autoPageAnchor
               m == Pane!MaxYOffset(p)
               y == p.yOffset
    <3>1. ~(a >= 0)
      BY <1>1, <2>2, Zenon DEF Refilled
    <3>2. a \in Nat \cup {-1} /\ m \in Nat /\ y \in Nat /\ (Pane!AtBottom(p) <=> y >= m)
      BY <1>0, PaneFields, GreatestOffset, Zenon
    <3>3. a < 0 => y < m
      BY <2>2, Zenon DEF Held
    <3> HIDE DEF a, m, y
    <3>4. ~(y >= m)
      BY <3>1, <3>2, <3>3
    <3> QED BY <3>2, <3>4, Zenon
  <2>5. Pane!AtBottom(p) \in BOOLEAN
    BY DEF Pane!AtBottom
  <2>6. f.yOffset <= Pane!MaxYOffset(f)
    <3> DEFINE y == t.yOffset
               m == Pane!MaxYOffset(t)
               x == Pane!MaxYOffset(f)
    <3>1. y \in Nat /\ m \in Nat /\ x \in Nat /\ y <= m /\ m <= x /\ f.yOffset = y
      <4>1. t \in Panes
        BY <1>1, Zenon DEF Filled
      <4> QED BY <1>1, <4>1, PaneFields, GreatestOffset, Zenon
    <3> HIDE DEF y, m, x
    <3>2. y <= x
      BY <3>1
    <3> QED BY <3>1, <3>2, Zenon DEF x
  <2> QED BY <1>1, <1>2, <2>1, <2>3, <2>4, <2>5, <2>6, FollowsHolds, Zenon
<1> QED BY <1>6, <1>7, Zenon DEF Waits

-----------------------------------------------------------------------------
(* What the actions make of a pane                                         *)

\* Between two actions: the view shows all there is, and no item is numbered
\* beyond m, nor its message beyond i.
Fit(p, m, i) ==
    /\ Settled(p) /\ p.scrollAnchor = -1
    /\ \A j \in 1..Len(p.output) : p.output[j].n <= m /\ p.output[j].id <= i

SameView(q, p) == SameText(q, p) /\ q.yOffset = p.yOffset /\ q.height = p.height

LEMMA ShownSame ==
    ASSUME NEW p, NEW q, SameView(q, p)
    PROVE  /\ Pane!Shown(q) = Pane!Shown(p) /\ Pane!MaxYOffset(q) = Pane!MaxYOffset(p)
           /\ (Pane!AtBottom(q) <=> Pane!AtBottom(p))
<1>1. q.output = p.output /\ q.lines = p.lines /\ q.yOffset = p.yOffset /\ q.height = p.height
  BY Zenon DEF SameView, SameText
<1>2. Pane!MaxYOffset(q) = Pane!MaxYOffset(p) /\ Pane!Total(q) = Pane!Total(p)
  BY <1>1, SameGreatest, Zenon
<1>3. Pane!AtBottom(q) <=> Pane!AtBottom(p)
  BY <1>1, <1>2, Zenon DEF Pane!AtBottom
<1>4. Pane!Shown(q) = Pane!Shown(p)
  BY <1>1, <1>2, Zenon DEF Pane!Shown
<1> QED BY <1>2, <1>3, <1>4, Zenon

LEMMA SameFits ==
    ASSUME NEW p, NEW m, NEW i, Fit(p, m, i), NEW q, q \in Panes, SameText(q, p),
           q.scrollAnchor = -1, q.yOffset <= Pane!MaxYOffset(q)
    PROVE  Fit(q, m, i)
<1>1. Settled(q)
  BY Zenon DEF Fit, Settled, SameText, Pane!Over
<1> QED BY <1>1, Zenon DEF Fit, SameText

LEMMA FitFields ==
    ASSUME NEW p, NEW m, NEW i, Fit(p, m, i)
    PROVE  /\ p \in Panes /\ p.yOffset \in Nat /\ p.height \in Nat \ {0} /\ Len(p.lines) \in Nat
           /\ p.output \in Seq(Items) /\ Len(p.output) \in Nat \ {0} /\ p.width \in Pane!Widths
           /\ p.lines = Pane!Render(p.output, p.width) /\ p.yOffset <= Pane!MaxYOffset(p)
           /\ Pane!MaxYOffset(p) \in Nat /\ p.lastSeenID \in Nat
           /\ p.autoPageAnchor \in Nat \cup {-1} /\ ~p.stale /\ p.pagerEnabled \in BOOLEAN
<1>1. p \in Panes /\ p.output # <<>>
  BY Zenon DEF Fit, Settled
<1>2. Len(p.output) \in Nat \ {0}
  <2>1. p.output \in Seq(Items)
    BY <1>1, PaneFields, Zenon
  <2> QED BY <1>1, <2>1
<1> QED BY <1>1, <1>2, PaneFields, GreatestOffset, Zenon DEF Fit, Settled

LEMMA MoveFits ==
    ASSUME NEW p, NEW m, NEW i, Fit(p, m, i), NEW n \in Int, NEW q, q = Pane!SetYOffset(p, n)
    PROVE  /\ Fit(q, m, i) /\ SameText(q, p) /\ SameMind(q, p)
           /\ q.autoPageAnchor = p.autoPageAnchor /\ q.yOffset = Within(n, p)
           /\ Pane!MaxYOffset(q) = Pane!MaxYOffset(p)
<1>1. p \in Panes /\ p.scrollAnchor = -1
  BY FitFields, Zenon DEF Fit
<1>2. /\ q \in Panes /\ SameText(q, p) /\ SameMind(q, p)
      /\ q.autoPageAnchor = p.autoPageAnchor
      /\ q.yOffset = Within(n, p) /\ Pane!MaxYOffset(q) = Pane!MaxYOffset(p)
  BY <1>1, OffsetSet, Zenon
<1>3. q.yOffset <= Pane!MaxYOffset(q)
  BY <1>1, <1>2, GreatestOffset, Zenon
<1>4. Fit(q, m, i)
  BY <1>1, <1>2, <1>3, SameFits, Zenon DEF SameMind
<1> QED BY <1>2, <1>4, Zenon

LEMMA BottomFits ==
    ASSUME NEW p, NEW m, NEW i, Fit(p, m, i), NEW q, q = Pane!GotoBottom(p)
    PROVE  /\ Fit(q, m, i) /\ SameText(q, p) /\ SameMind(q, p)
           /\ q.autoPageAnchor = p.autoPageAnchor
           /\ q.yOffset = Pane!MaxYOffset(p) /\ Pane!MaxYOffset(q) = Pane!MaxYOffset(p)
<1>1. p \in Panes /\ p.scrollAnchor = -1 /\ Pane!MaxYOffset(p) \in Nat
  BY FitFields, Zenon DEF Fit
<1>2. /\ q \in Panes /\ SameText(q, p) /\ SameMind(q, p)
      /\ q.autoPageAnchor = p.autoPageAnchor
      /\ q.yOffset = Pane!MaxYOffset(p) /\ Pane!MaxYOffset(q) = Pane!MaxYOffset(p)
  BY <1>1, BottomSet, Zenon
<1>3. q.yOffset <= Pane!MaxYOffset(q)
  <2> DEFINE x == Pane!MaxYOffset(p)
  <2>1. x \in Nat /\ q.yOffset = x /\ Pane!MaxYOffset(q) = x
    BY <1>1, <1>2, Zenon
  <2> HIDE DEF x
  <2>2. x <= x
    BY <2>1
  <2> QED BY <2>1, <2>2, Zenon
<1>4. Fit(q, m, i)
  BY <1>1, <1>2, <1>3, SameFits, Zenon DEF SameMind
<1> QED BY <1>2, <1>4, Zenon

Anchors == Nat \cup {-1}
Minded(p, a, x, on) == [p EXCEPT !.autoPageAnchor = a, !.lastSeenID = x, !.pagerEnabled = on]
Anchored(p, a) == [p EXCEPT !.autoPageAnchor = a]

\* A change of the pager's anchor, of the mark, of %page
LEMMA MindFits ==
    ASSUME NEW p, NEW m, NEW i, Fit(p, m, i), NEW a \in Anchors, NEW x \in Nat,
           NEW on \in BOOLEAN, NEW q,
           q = Minded(p, a, x, on)
    PROVE  /\ Fit(q, m, i) /\ SameView(q, p) /\ Pane!Shown(q) = Pane!Shown(p)
           /\ q.autoPageAnchor = a /\ q.lastSeenID = x /\ q.pagerEnabled = on
           /\ Pane!MaxYOffset(q) = Pane!MaxYOffset(p)
           /\ (Pane!AtBottom(q) <=> Pane!AtBottom(p))
<1>1. p \in Panes /\ p.scrollAnchor = -1 /\ p.yOffset <= Pane!MaxYOffset(p)
  BY FitFields, Zenon DEF Fit
<1>0. q = [p EXCEPT !.autoPageAnchor = a, !.lastSeenID = x, !.pagerEnabled = on]
      /\ a \in Nat \cup {-1} /\ x \in Nat /\ on \in BOOLEAN
  BY Zenon DEF Anchors, Minded
<1>2. q \in Panes
  BY ONLY <1>0, <1>1 DEF Panes
<1>3. /\ SameView(q, p) /\ q.scrollAnchor = p.scrollAnchor
      /\ q.autoPageAnchor = a /\ q.lastSeenID = x /\ q.pagerEnabled = on
  BY ONLY <1>0, <1>1 DEF Panes, SameView, SameText
<1>4. /\ Pane!Shown(q) = Pane!Shown(p) /\ Pane!MaxYOffset(q) = Pane!MaxYOffset(p)
      /\ (Pane!AtBottom(q) <=> Pane!AtBottom(p))
  BY <1>3, ShownSame, Zenon
<1>5. Fit(q, m, i)
  BY <1>1, <1>2, <1>3, <1>4, SameFits, Zenon DEF SameView
<1> QED BY <1>3, <1>4, <1>5, Zenon

LEMMA AnchorFits ==
    ASSUME NEW p, NEW m, NEW i, Fit(p, m, i), NEW a \in Anchors, NEW q,
           q = Anchored(p, a)
    PROVE  /\ Fit(q, m, i) /\ SameView(q, p) /\ Pane!Shown(q) = Pane!Shown(p)
           /\ q.autoPageAnchor = a /\ q.lastSeenID = p.lastSeenID
           /\ q.pagerEnabled = p.pagerEnabled
           /\ Pane!MaxYOffset(q) = Pane!MaxYOffset(p)
           /\ (Pane!AtBottom(q) <=> Pane!AtBottom(p))
<1> DEFINE x == p.lastSeenID
           on == p.pagerEnabled
<1>1. p \in Panes /\ x \in Nat /\ on \in BOOLEAN
  BY FitFields, Zenon
<1>2. q = Minded(p, a, x, on)
  BY <1>1 DEF Panes, Minded, Anchored
<1> HIDE DEF x, on
<1>3. /\ Fit(q, m, i) /\ SameView(q, p) /\ Pane!Shown(q) = Pane!Shown(p)
      /\ q.autoPageAnchor = a /\ q.lastSeenID = x /\ q.pagerEnabled = on
      /\ Pane!MaxYOffset(q) = Pane!MaxYOffset(p)
      /\ (Pane!AtBottom(q) <=> Pane!AtBottom(p))
  <2>1. Fit(p, m, i) /\ a \in Anchors
    OBVIOUS
  <2> QED BY ONLY <1>1, <1>2, <2>1, MindFits, SMT
<1> QED BY <1>3, Zenon DEF x, on

\* At the bottom, with all that is there armed, what comes next is held.
LEMMA ArmedWaits ==
    ASSUME NEW p, NEW m \in Nat, NEW i, Fit(p, m, i), Pane!AtBottom(p),
           p.autoPageAnchor = Len(p.lines)
    PROVE  Waits(p, m + 1)
<1> DEFINE s == p.output
           T == Len(p.lines)
           x == Pane!MaxYOffset(p)
           h == p.height
           y == p.yOffset
           u == m + 1
<1>1. /\ s \in Seq(Items) /\ T \in Nat /\ p.width \in Pane!Widths /\ p \in Panes
      /\ p.lines = Pane!Render(s, p.width) /\ h \in Nat \ {0} /\ y \in Nat
      /\ x \in Nat /\ x = (IF T > h THEN T - h ELSE 0) /\ y <= x
      /\ \A j \in 1..Len(s) : s[j].n <= m
  BY FitFields, GreatestOffset, Zenon DEF Fit
<1>2. Edge(p) = T
  <2>1. T >= 0
    <3> HIDE DEF T
    <3> QED BY <1>1
  <2> QED BY <2>1, Zenon DEF Edge
<1>3. \A j \in 1..Len(s) : s[j].n \in Nat
  BY <1>1, ItemAt, Zenon
<1> HIDE DEF s
<1>4. \A j \in 1..Len(s) : s[j].n < u /\ ~(s[j].n >= u)
  <2> SUFFICES ASSUME NEW j \in 1..Len(s) PROVE s[j].n < u /\ ~(s[j].n >= u)
    OBVIOUS
  <2>1. s[j].n <= m /\ s[j].n \in Nat
    BY <1>1, <1>3, Zenon
  <2> QED BY <2>1
<1>5. \A l \in 1..T : p.lines[l][1] < u
  <2> SUFFICES ASSUME NEW l \in 1..T PROVE p.lines[l][1] < u
    OBVIOUS
  <2>1. l \in 1..Len(Pane!Render(s, p.width))
    BY <1>1, Zenon
  <2>2. PICK j \in 1..Len(s) : Pane!Render(s, p.width)[l] = <<s[j].n, l - RowsUpto(s, p.width, j - 1), p.width>>
    BY <1>1, <2>1, OwnerOfRow, Zenon
  <2>3. p.lines[l][1] = s[j].n
    BY <1>1, <2>2
  <2> QED BY <1>4, <2>3, Zenon
<1>6. Sorted(p, u)
  <2>1. \A a, b \in 1..Len(s) : ~(s[a].n >= u)
    BY <1>4, Zenon
  <2> QED BY <2>1, Zenon DEF Sorted, s
<1>7. T \in 0..T /\ y <= T /\ (\A l \in T + 1..T : FALSE) /\ ~(T < 0)
  <2> HIDE DEF T, x, h, y
  <2> QED BY <1>1
<1>8. Held(p, u)
  BY <1>2, <1>5, <1>7, Zenon DEF Held
<1> QED BY <1>6, <1>8, Zenon DEF Waits

LEMMA ArmFits ==
    ASSUME NEW p, NEW m \in Nat, NEW i, Fit(p, m, i), NEW q, q = Pane!Arm(p)
    PROVE  /\ Fit(q, m, i) /\ SameView(q, p) /\ Pane!Shown(q) = Pane!Shown(p)
           /\ q.lastSeenID = p.lastSeenID
           /\ (Pane!AtBottom(q) <=> Pane!AtBottom(p))
           /\ Pane!AtBottom(q) => Waits(q, m + 1) /\ q.autoPageAnchor = Len(q.lines)
<1>1. CASE Pane!AtBottom(p)
  <2> DEFINE a == Pane!Total(p)
  <2>1. q = Anchored(p, a)
    BY <1>1, Zenon DEF Pane!Arm, Anchored
  <2>2. a = Len(p.lines) /\ a \in Anchors
    <3>1. a = Len(p.lines)
      BY Zenon DEF Pane!Total
    <3>2. a \in Nat
      BY <3>1, FitFields, Zenon
    <3> HIDE DEF a
    <3> QED BY <3>1, <3>2, Zenon DEF Anchors
  <2> HIDE DEF a
  <2>3. /\ Fit(q, m, i) /\ SameView(q, p) /\ Pane!Shown(q) = Pane!Shown(p)
        /\ q.autoPageAnchor = a /\ q.lastSeenID = p.lastSeenID
        /\ (Pane!AtBottom(q) <=> Pane!AtBottom(p))
    <3>1. Fit(p, m, i)
      OBVIOUS
    <3> QED BY ONLY <2>1, <2>2, <3>1, AnchorFits, SMT
  <2>4. q.autoPageAnchor = Len(q.lines)
    BY <2>2, <2>3, Zenon DEF SameView, SameText
  <2> QED BY <1>1, <2>3, <2>4, ArmedWaits, Zenon
<1>2. CASE ~Pane!AtBottom(p)
  <2>1. q = p
    BY <1>2, Zenon DEF Pane!Arm
  <2> QED BY <1>2, <2>1, Zenon DEF SameView, SameText
<1> QED BY <1>1, <1>2

-----------------------------------------------------------------------------
(* The last-seen mark                                                      *)

LEMMA ShownIds ==
    ASSUME NEW p, p.output \in Seq(Items), NEW j \in 1..Len(p.output),
           NEW l \in 1..Len(p.lines), l <= p.yOffset + p.height,
           p.lines[l][1] = p.output[j].n,
           p.lines[l][2] = Pane!Rows(p.output[j], p.lines[l][3]),
           p.yOffset \in Nat, p.height \in Nat, Len(p.lines) \in Nat
    PROVE  p.output[j].id \in Pane!Shown(p)
<1> DEFINE v == p.yOffset + p.height
           T == Len(p.lines)
           z == Pane!Smaller(v, T)
<1>1. l \in 1..z
  <2>1. z = IF v < T THEN v ELSE T
    BY Zenon DEF Pane!Smaller
  <2>2. v \in Nat /\ T \in Nat /\ l \in 1..T /\ l <= v
    OBVIOUS
  <2> HIDE DEF v, T, z
  <2> QED BY <2>1, <2>2
<1>2. z = Pane!Smaller(p.yOffset + p.height, Pane!Total(p))
  BY Zenon DEF Pane!Total
<1>3. j \in DOMAIN p.output
  BY LenProperties, Zenon
<1> HIDE DEF z
<1>4. \E r \in 1..Pane!Smaller(p.yOffset + p.height, Pane!Total(p)) :
         p.lines[r][1] = p.output[j].n /\ p.lines[r][2] = Pane!Rows(p.output[j], p.lines[r][3])
  BY <1>1, <1>2, Zenon
<1> QED BY <1>3, <1>4, Zenon DEF Pane!Shown

\* What lies in view with its last row is shown.
LEMMA InViewIsShown ==
    ASSUME NEW p, NEW m, NEW i, Fit(p, m, i), NEW j \in 1..Len(p.output),
           Pane!Upto(p, j) <= p.yOffset + p.height
    PROVE  p.output[j].id \in Pane!Shown(p)
<1> DEFINE s == p.output
           w == p.width
           h == j - 1
           k == Pane!Rows(s[j], w)
           l == RowsUpto(s, w, h) + k
<1>1. /\ s \in Seq(Items) /\ w \in Pane!Widths /\ p.lines = Pane!Render(s, w)
      /\ p.yOffset \in Nat /\ p.height \in Nat \ {0} /\ Len(p.lines) \in Nat
  BY FitFields, Zenon
<1>2. /\ k \in Nat \ {0} /\ RowsUpto(s, w, j) = l
  BY <1>1, RowsOfOne, Zenon
<1>3. k \in 1..Pane!Rows(s[j], w)
  <2>1. k \in 1..k
    <3> HIDE DEF k
    <3> QED BY <1>2
  <2> QED BY <2>1, Zenon
<1>4. l \in 1..Len(Pane!Render(s, w)) /\ Pane!Render(s, w)[l] = <<s[j].n, k, w>>
  BY <1>1, <1>3, RowsOfItem, Zenon
<1>5. l = Pane!Upto(p, j)
  BY <1>2, Zenon DEF RowsUpto, Pane!Upto
<1> HIDE DEF l, k
<1>6. p.lines[l][1] = s[j].n /\ p.lines[l][2] = k /\ p.lines[l][3] = w
  BY <1>1, <1>4
<1>7. /\ l \in 1..Len(p.lines) /\ l <= p.yOffset + p.height
      /\ p.lines[l][2] = Pane!Rows(p.output[j], p.lines[l][3]) /\ p.height \in Nat
  BY <1>1, <1>4, <1>5, <1>6, Zenon DEF k
<1> QED BY <1>1, <1>6, <1>7, ShownIds, Zenon

\* When all of it fits, all of it is shown.
LEMMA AllIsShown ==
    ASSUME NEW p, NEW m, NEW i, Fit(p, m, i), NEW j \in 1..Len(p.output),
           Len(p.lines) <= p.height
    PROVE  p.output[j].id \in Pane!Shown(p)
<1> DEFINE s == p.output
           w == p.width
           l == Pane!Upto(p, j)
           T == Len(p.lines)
<1>1. /\ s \in Seq(Items) /\ w \in Pane!Widths /\ p.lines = Pane!Render(s, w)
      /\ p.yOffset \in Nat /\ p.height \in Nat \ {0} /\ T \in Nat /\ Len(s) \in Nat \ {0}
  BY FitFields, Zenon
<1>2. l = RowsUpto(s, w, j)
  BY Zenon DEF RowsUpto, Pane!Upto
<1>3. l \in Nat /\ l <= T
  <2>1. j \in 0..Len(s) /\ Len(s) \in 0..Len(s) /\ j <= Len(s)
    <3> HIDE DEF s
    <3> QED BY <1>1 DEF s
  <2>2. RowsUpto(s, w, j) \in Nat /\ RowsUpto(s, w, j) <= RowsUpto(s, w, Len(s))
    BY <1>1, <2>1, RowsGrow, Zenon
  <2>3. RowsUpto(s, w, Len(s)) = Len(Pane!Render(s, w))
    BY <1>1, RowsGrow, Zenon
  <2> QED BY <1>1, <1>2, <2>2, <2>3, Zenon
<1> HIDE DEF l, T
<1>4. l <= p.yOffset + p.height
  <2>1. T <= p.height
    BY Zenon DEF T
  <2> QED BY <1>1, <1>3, <2>1
<1> QED BY <1>4, InViewIsShown, Zenon DEF l

SeenIds(p) == {p.output[j].id : j \in Pane!InView(p)}

\* advanceLastSeenID takes the mark to one of the messages in view, or leaves it.
LEMMA Advanced ==
    ASSUME NEW p \in Panes, NEW i \in Nat, \A j \in 1..Len(p.output) : p.output[j].id <= i,
           NEW q, q = Pane!Advance(p)
    PROVE  \E x \in Nat : /\ q = Minded(p, p.autoPageAnchor, x, p.pagerEnabled)
                          /\ x \in SeenIds(p) \cup {p.lastSeenID}
<1> DEFINE c == p.lastSeenID
           S == SeenIds(p) \cup {c}
           b == i + c
           x == CHOOSE y \in S : \A z \in S : z <= y
<1>1. p.output \in Seq(Items) /\ c \in Nat /\ b \in Nat
  BY PaneFields
<1>2. S \subseteq 0..b
  <2> SUFFICES ASSUME NEW z \in S PROVE z \in 0..b
    OBVIOUS
  <2>1. CASE z = c
    <3> HIDE DEF c
    <3> QED BY <1>1, <2>1
  <2>2. CASE z \in SeenIds(p)
    <3>1. PICK j \in DOMAIN p.output : z = p.output[j].id
      BY <2>2, Zenon DEF SeenIds, Pane!InView
    <3>2. j \in 1..Len(p.output)
      BY <1>1, LenProperties, Zenon
    <3>3. z \in Nat /\ z <= i
      BY <1>1, <3>1, <3>2, ItemAt, Zenon
    <3> HIDE DEF c
    <3> QED BY <1>1, <3>3
  <2> QED BY <2>1, <2>2, Zenon
<1>3. S # {}
  OBVIOUS
<1>4. \E y \in S : \A z \in S : z <= y
  <2> HIDE DEF S, b
  <2> QED BY ONLY <1>1, <1>2, <1>3, GreatestExists, Zenon
<1>5. x \in S
  BY <1>4, Zenon
<1>6. x \in Nat
  <2>1. x \in 0..b
    BY <1>2, <1>5, Zenon
  <2> HIDE DEF x, b
  <2> QED BY <1>1, <2>1
<1>7. q = [p EXCEPT !.lastSeenID = x]
  BY DEF Pane!Advance, SeenIds, Panes
<1> HIDE DEF x
<1>8. q = Minded(p, p.autoPageAnchor, x, p.pagerEnabled)
  BY <1>7 DEF Minded, Panes
<1> QED BY <1>5, <1>6, <1>8, Zenon

LEMMA AdvanceFits ==
    ASSUME NEW p, NEW m, NEW i \in Nat, Fit(p, m, i), NEW q, q = Pane!Advance(p)
    PROVE  /\ Fit(q, m, i) /\ SameView(q, p) /\ Pane!Shown(q) = Pane!Shown(p)
           /\ q.autoPageAnchor = p.autoPageAnchor /\ q.pagerEnabled = p.pagerEnabled
           /\ q.lastSeenID \in Pane!Shown(p) \cup {p.lastSeenID}
           /\ Pane!MaxYOffset(q) = Pane!MaxYOffset(p)
           /\ (Pane!AtBottom(q) <=> Pane!AtBottom(p))
<1>1. /\ p \in Panes /\ p.autoPageAnchor \in Anchors /\ p.pagerEnabled \in BOOLEAN
      /\ p.output \in Seq(Items)
  BY FitFields, Zenon DEF Anchors
<1>2. \A j \in 1..Len(p.output) : p.output[j].id <= i
  BY Zenon DEF Fit
<1>3. PICK x \in Nat : /\ q = Minded(p, p.autoPageAnchor, x, p.pagerEnabled)
                       /\ x \in SeenIds(p) \cup {p.lastSeenID}
  BY <1>1, <1>2, Advanced, Zenon
<1>4. x \in Pane!Shown(p) \cup {p.lastSeenID}
  <2> SUFFICES ASSUME x \in SeenIds(p) PROVE x \in Pane!Shown(p)
    BY <1>3, Zenon
  <2>1. PICK j \in DOMAIN p.output : x = p.output[j].id /\ Pane!Upto(p, j) <= p.yOffset + p.height
    BY Zenon DEF SeenIds, Pane!InView
  <2>2. j \in 1..Len(p.output)
    BY <1>1, LenProperties, Zenon
  <2> QED BY <2>1, <2>2, InViewIsShown, Zenon
<1>5. Fit(p, m, i)
  OBVIOUS
<1>6. /\ Fit(q, m, i) /\ SameView(q, p) /\ Pane!Shown(q) = Pane!Shown(p)
      /\ q.autoPageAnchor = p.autoPageAnchor /\ q.lastSeenID = x /\ q.pagerEnabled = p.pagerEnabled
      /\ Pane!MaxYOffset(q) = Pane!MaxYOffset(p)
      /\ (Pane!AtBottom(q) <=> Pane!AtBottom(p))
  BY ONLY <1>1, <1>3, <1>5, MindFits, SMT
<1> QED BY <1>4, <1>6, Zenon

-----------------------------------------------------------------------------
(* Resizing                                                                *)

LEMMA SettledFills ==
    ASSUME NEW p, Settled(p)
    PROVE  Filled(p) /\ Pane!Render(SubSeq(p.output, 1, p.syncedItems), p.width) = p.lines
<1>1. /\ p \in Panes /\ p.output # <<>> /\ p.lines = Pane!Render(p.output, p.width)
      /\ p.syncedItems = Len(p.output) /\ p.output \in Seq(Items)
  BY PaneFields, Zenon DEF Settled
<1>2. SubSeq(p.output, 1, Len(p.output)) = p.output /\ Len(p.output) <= Len(p.output)
  BY <1>1
<1> QED BY <1>1, <1>2, Zenon DEF Filled

\* The window moved: a new height, the view within the rows there are
Sized(p, h) == [p EXCEPT !.height = h]

LEMMA SizedPane ==
    ASSUME NEW p \in Panes, NEW h \in Nat \ {0}, NEW q, q = Pane!SetYOffset(Sized(p, h), p.yOffset)
    PROVE  /\ q \in Panes /\ SameText(q, p) /\ q.height = h
           /\ q.scrollAnchor = p.scrollAnchor /\ q.pagerEnabled = p.pagerEnabled
           /\ q.lastSeenID = p.lastSeenID /\ q.autoPageAnchor = p.autoPageAnchor
           /\ q.yOffset = Within(p.yOffset, q) /\ q.yOffset <= Pane!MaxYOffset(q)
<1> DEFINE z == Sized(p, h)
           y == p.yOffset
<1>1. z \in Panes
  BY DEF Panes, Sized
<1>2. /\ SameText(z, p) /\ z.height = h /\ z.scrollAnchor = p.scrollAnchor
      /\ z.pagerEnabled = p.pagerEnabled /\ z.lastSeenID = p.lastSeenID
      /\ z.autoPageAnchor = p.autoPageAnchor
  BY DEF Panes, Sized, SameText
<1>3. y \in Int
  <2>1. y \in Nat
    BY PaneFields, Zenon
  <2> HIDE DEF y
  <2> QED BY <2>1
<1>4. q = Pane!SetYOffset(z, y)
  OBVIOUS
<1> HIDE DEF z, y
<1>5. /\ q \in Panes /\ SameText(q, z) /\ SameMind(q, z)
      /\ q.autoPageAnchor = z.autoPageAnchor
      /\ q.yOffset = Within(y, z) /\ Pane!MaxYOffset(q) = Pane!MaxYOffset(z)
  BY ONLY <1>1, <1>3, <1>4, OffsetSet, Zenon
<1>6. q.yOffset = Within(y, q) /\ q.yOffset <= Pane!MaxYOffset(q)
  <2>1. Within(y, q) = Within(y, z)
    BY <1>5, Zenon DEF Within
  <2>2. Within(y, z) <= Pane!MaxYOffset(z)
    BY <1>1, <1>3, GreatestOffset, Zenon
  <2> QED BY <1>5, <2>1, <2>2, Zenon
<1> QED BY <1>2, <1>5, <1>6, Zenon DEF SameText, SameMind, y

\* A pane is fit for a resize when its rows are right or about to be rebuilt.
Resizable(p, m, i) ==
    /\ p \in Panes /\ p.output # <<>> /\ Pane!Over(p) <= ScrollbackSlack
    /\ p.stale \/ Fit(p, m, i)
    /\ \A j \in 1..Len(p.output) : p.output[j].n <= m /\ p.output[j].id <= i
    /\ p.scrollAnchor \in 1..Len(p.output) \cup {-1}

LEMMA ResizeSyncs ==
    ASSUME Pane!PaneAssumption, NEW p, NEW m, NEW i, Resizable(p, m, i), NEW h \in Nat \ {0},
           NEW x, x = Pane!SetYOffset(Sized(p, h), p.yOffset), NEW q, q = Pane!Sync(x)
    PROVE  /\ Settled(q) /\ q.output = p.output /\ q.width = p.width /\ q.height = h
           /\ q.scrollAnchor = p.scrollAnchor /\ q.pagerEnabled = p.pagerEnabled
           /\ q.lastSeenID = p.lastSeenID
<1>0. p \in Panes /\ p.output # <<>> /\ Pane!Over(p) <= ScrollbackSlack
  BY Zenon DEF Resizable
<1>1. /\ x \in Panes /\ SameText(x, p) /\ x.height = h
      /\ x.scrollAnchor = p.scrollAnchor /\ x.pagerEnabled = p.pagerEnabled
      /\ x.lastSeenID = p.lastSeenID /\ x.yOffset <= Pane!MaxYOffset(x)
  <2>1. h \in Nat \ {0} /\ x = Pane!SetYOffset(Sized(p, h), p.yOffset)
    OBVIOUS
  <2> QED BY ONLY <1>0, <2>1, SizedPane, SMT
<1>2. x.output # <<>> /\ Pane!Over(x) <= ScrollbackSlack
  BY <1>0, <1>1, Zenon DEF SameText, Pane!Over
<1>3. CASE p.stale
  <2>1. x.stale
    BY <1>1, <1>3, Zenon DEF SameText
  <2>2. q.width = x.width /\ SameMind(q, x) /\ q.output = x.output /\ Settled(q)
    BY <1>1, <1>2, <2>1, SyncRebuilds, Zenon
  <2> QED BY <1>1, <2>2, Zenon DEF SameText, SameMind
<1>4. CASE ~p.stale
  <2>1. Settled(p)
    BY <1>4, Zenon DEF Resizable, Fit
  <2>2. Settled(x)
    BY <1>1, <1>2, <2>1, Zenon DEF Settled, SameText
  <2>3. Filled(x) /\ ~x.stale
    BY <2>2, SettledFills, Zenon DEF Settled
  <2>4. Settled(q) /\ SameMind(q, x) /\ q.width = x.width /\ q.output = x.output
    BY <1>1, <1>2, <2>3, SyncKeeps, Zenon
  <2> QED BY <1>1, <2>4, Zenon DEF SameText, SameMind
<1> QED BY <1>3, <1>4

\* The view after the Sync: at the end, at the item at the top, or where it was
Unanchored(p) == [p EXCEPT !.scrollAnchor = -1]
Placed(p, q) ==
    IF Pane!AtBottom(p) THEN Pane!GotoBottom(q)
    ELSE IF p.scrollAnchor >= 0 THEN Pane!SetYOffset(q, Pane!ItemStartLine(q, p.scrollAnchor))
    ELSE Pane!SetYOffset(q, p.yOffset)

LEMMA ResizeIsPlaced ==
    ASSUME NEW p \in Panes, NEW h
    PROVE  Pane!Resize(p, h)
             = Unanchored(Placed(p, Pane!Sync(Pane!SetYOffset(Sized(p, h), p.yOffset))))
BY Zenon DEF Pane!Resize, Unanchored, Placed, Sized

LEMMA PlacedPane ==
    ASSUME NEW p, NEW m, NEW i, Resizable(p, m, i), NEW q, Settled(q), q.output = p.output,
           NEW r, r = Placed(p, q)
    PROVE  /\ r \in Panes /\ SameText(r, q) /\ SameMind(r, q)
           /\ r.autoPageAnchor = q.autoPageAnchor
           /\ r.yOffset <= Pane!MaxYOffset(r)
           /\ Pane!AtBottom(p) => r.yOffset = Pane!MaxYOffset(r)
<1>0. q \in Panes /\ p \in Panes /\ q.output \in Seq(Items) /\ q.width \in Pane!Widths
  BY PaneFields, Zenon DEF Settled, Resizable
<1>1. Pane!MaxYOffset(q) \in Nat /\ \A n \in Int : Within(n, q) <= Pane!MaxYOffset(q)
  BY <1>0, GreatestOffset, Zenon
<1>2. CASE Pane!AtBottom(p)
  <2>1. r = Pane!GotoBottom(q)
    BY <1>2, Zenon DEF Placed
  <2>2. /\ r \in Panes /\ SameText(r, q) /\ SameMind(r, q)
        /\ r.autoPageAnchor = q.autoPageAnchor
        /\ r.yOffset = Pane!MaxYOffset(q) /\ Pane!MaxYOffset(r) = Pane!MaxYOffset(q)
    BY <1>0, <2>1, BottomSet, Zenon
  <2>3. r.yOffset <= Pane!MaxYOffset(r) /\ r.yOffset = Pane!MaxYOffset(r)
    <3> DEFINE x == Pane!MaxYOffset(q)
    <3>1. x \in Nat /\ r.yOffset = x /\ Pane!MaxYOffset(r) = x
      BY <1>1, <2>2, Zenon
    <3> HIDE DEF x
    <3>2. x <= x
      BY <3>1
    <3> QED BY <3>1, <3>2, Zenon
  <2> QED BY <2>2, <2>3, Zenon
<1>3. ASSUME NEW n \in Int, r = Pane!SetYOffset(q, n)
      PROVE  /\ r \in Panes /\ SameText(r, q) /\ SameMind(r, q)
             /\ r.autoPageAnchor = q.autoPageAnchor /\ r.yOffset <= Pane!MaxYOffset(r)
  <2>1. n \in Int
    OBVIOUS
  <2>2. /\ r \in Panes /\ SameText(r, q) /\ SameMind(r, q)
        /\ r.autoPageAnchor = q.autoPageAnchor
        /\ r.yOffset = Within(n, q) /\ Pane!MaxYOffset(r) = Pane!MaxYOffset(q)
    BY ONLY <1>0, <1>3, <2>1, OffsetSet, Zenon
  <2> QED BY <1>1, <2>1, <2>2, Zenon
<1>4. CASE ~Pane!AtBottom(p)
  <2> DEFINE a == p.scrollAnchor
             n == IF a >= 0 THEN Pane!ItemStartLine(q, a) ELSE p.yOffset
  <2>1. r = Pane!SetYOffset(q, n)
    BY <1>4, Zenon DEF Placed
  <2>2. n \in Int
    <3>1. CASE a >= 0
      <4>1. a \in 1..Len(p.output) \cup {-1} /\ Len(p.output) \in Nat
        BY <1>0, PaneFields, Zenon DEF Resizable
      <4> HIDE DEF a
      <4>2. a - 1 \in 0..Len(q.output)
        BY <3>1, <4>1
      <4>3. RowsUpto(q.output, q.width, a - 1) \in Nat
        BY <1>0, <4>2, RowsGrow, Zenon
      <4>4. n = RowsUpto(q.output, q.width, a - 1)
        BY <3>1, Zenon DEF Pane!ItemStartLine, RowsUpto, Pane!Upto
      <4> HIDE DEF n
      <4> QED BY <4>3, <4>4
    <3>2. CASE ~(a >= 0)
      <4>1. n = p.yOffset /\ p.yOffset \in Nat
        BY <1>0, <3>2, PaneFields, Zenon
      <4> HIDE DEF n
      <4> QED BY <4>1
    <3> QED BY <3>1, <3>2
  <2> HIDE DEF n, a
  <2>3. /\ r \in Panes /\ SameText(r, q) /\ SameMind(r, q)
        /\ r.autoPageAnchor = q.autoPageAnchor /\ r.yOffset <= Pane!MaxYOffset(r)
    BY <1>3, <2>1, <2>2, Zenon
  <2> QED BY <1>4, <2>3, Zenon
<1> QED BY <1>2, <1>4

LEMMA ResizeFits ==
    ASSUME Pane!PaneAssumption, NEW p, NEW m, NEW i, Resizable(p, m, i), NEW h \in Nat \ {0},
           NEW q, q = Pane!Resize(p, h)
    PROVE  /\ Fit(q, m, i) /\ q.output = p.output /\ q.width = p.width /\ q.height = h
           /\ q.pagerEnabled = p.pagerEnabled /\ q.lastSeenID = p.lastSeenID
           /\ Pane!AtBottom(p) => Pane!AtBottom(q)
<1> DEFINE x == Pane!SetYOffset(Sized(p, h), p.yOffset)
           s == Pane!Sync(x)
           r == Placed(p, s)
<1>1. p \in Panes /\ x = Pane!SetYOffset(Sized(p, h), p.yOffset) /\ s = Pane!Sync(x) /\ r = Placed(p, s)
  BY Zenon DEF Resizable
<1>2. q = Unanchored(r)
  BY <1>1, ResizeIsPlaced, Zenon
<1> HIDE DEF x, s, r
<1>3. /\ Settled(s) /\ s.output = p.output /\ s.width = p.width /\ s.height = h
      /\ s.scrollAnchor = p.scrollAnchor /\ s.pagerEnabled = p.pagerEnabled
      /\ s.lastSeenID = p.lastSeenID
  <2>1. Pane!PaneAssumption /\ Resizable(p, m, i) /\ h \in Nat \ {0}
    OBVIOUS
  <2> QED BY ONLY <1>1, <2>1, ResizeSyncs, SMT
<1>4. /\ r \in Panes /\ SameText(r, s) /\ SameMind(r, s)
      /\ r.yOffset <= Pane!MaxYOffset(r)
      /\ Pane!AtBottom(p) => r.yOffset = Pane!MaxYOffset(r)
  BY <1>1, <1>3, PlacedPane, Zenon
<1>5. q \in Panes /\ SameView(q, r) /\ q.scrollAnchor = -1
      /\ q.pagerEnabled = r.pagerEnabled /\ q.lastSeenID = r.lastSeenID
  BY ONLY <1>2, <1>4 DEF Panes, Unanchored, SameView, SameText
<1>6. Pane!MaxYOffset(q) = Pane!MaxYOffset(r) /\ (Pane!AtBottom(q) <=> Pane!AtBottom(r))
  BY <1>5, ShownSame, Zenon
<1>7. Settled(q)
  BY <1>3, <1>4, <1>5, <1>6, Zenon DEF Settled, SameView, SameText, Pane!Over
<1>8. q.output = p.output /\ q.width = p.width /\ q.height = h
  BY <1>3, <1>4, <1>5, Zenon DEF SameView, SameText, SameMind
<1>9. Fit(q, m, i)
  BY <1>5, <1>7, <1>8, Zenon DEF Fit, Resizable
<1>10. Pane!AtBottom(p) => Pane!AtBottom(q)
  <2> SUFFICES ASSUME Pane!AtBottom(p) PROVE Pane!AtBottom(q)
    OBVIOUS
  <2> DEFINE t == Pane!MaxYOffset(r)
  <2>1. t \in Nat /\ r.yOffset = t /\ (Pane!AtBottom(r) <=> r.yOffset >= t)
    BY <1>4, GreatestOffset, Zenon
  <2> HIDE DEF t
  <2>2. t >= t
    BY <2>1
  <2> QED BY <1>6, <2>1, <2>2, Zenon
<1> QED BY <1>3, <1>4, <1>5, <1>8, <1>9, <1>10, Zenon DEF SameMind

LEMMA FitResizes ==
    ASSUME NEW p, NEW m, NEW i, Fit(p, m, i)
    PROVE  Resizable(p, m, i)
<1>1. -1 \in 1..Len(p.output) \cup {-1}
  OBVIOUS
<1> QED BY <1>1, Zenon DEF Fit, Settled, Resizable

\* topVisibleItemIndex names an item.
LEMMA TopIsItem ==
    ASSUME NEW p \in Panes, p.output # <<>>
    PROVE  Pane!TopVisibleItem(p) \in 1..Len(p.output)
<1> DEFINE N == Len(p.output)
           below == {i \in DOMAIN p.output : Pane!Upto(p, i) > p.yOffset}
           c == CHOOSE i \in below : \A j \in below : i <= j
<1>1. N \in Nat /\ N # 0 /\ DOMAIN p.output = 1..N
  <2>1. p.output \in Seq(Items)
    BY PaneFields, Zenon
  <2> QED BY <2>1
<1>2. below \subseteq 1..N
  BY <1>1, Zenon
<1>3. CASE below = {}
  <2>1. Pane!TopVisibleItem(p) = N
    BY <1>3, Zenon DEF Pane!TopVisibleItem
  <2> HIDE DEF N
  <2>2. N \in 1..N
    BY <1>1
  <2> QED BY <2>1, <2>2, Zenon DEF N
<1>4. CASE below # {}
  <2>1. Pane!TopVisibleItem(p) = c
    BY <1>4, Zenon DEF Pane!TopVisibleItem
  <2> HIDE DEF below
  <2>2. below \subseteq Nat
    BY <1>2
  <2>3. \E i \in below : \A j \in below : i <= j
    BY ONLY <1>4, <2>2, LeastExists, Zenon
  <2>4. c \in below
    BY <2>3, Zenon
  <2> QED BY <1>2, <2>1, <2>4, Zenon
<1> QED BY <1>3, <1>4

LEMMA RewidthResizes ==
    ASSUME NEW p, NEW m, NEW i, Fit(p, m, i), NEW w \in Pane!Widths, NEW q, q = Pane!Rewidth(p, w)
    PROVE  /\ Resizable(q, m, i) /\ q.lastSeenID = p.lastSeenID
           /\ q.height = p.height /\ q.pagerEnabled = p.pagerEnabled
<1>1. CASE w = p.width
  <2>1. q = p
    BY <1>1, Zenon DEF Pane!Rewidth
  <2> QED BY <2>1, FitResizes, Zenon
<1>2. CASE w # p.width
  <2> DEFINE a == Pane!TopVisibleItem(p)
  <2>1. q = [p EXCEPT !.width = w, !.stale = TRUE, !.scrollAnchor = a]
    BY <1>2, Zenon DEF Pane!Rewidth
  <2>2. p \in Panes /\ p.output # <<>> /\ Pane!Over(p) <= ScrollbackSlack
    BY Zenon DEF Fit, Settled
  <2>3. a \in 1..Len(p.output) /\ a \in Nat
    <3>1. a \in 1..Len(p.output)
      BY <2>2, TopIsItem, Zenon
    <3> HIDE DEF a
    <3> QED BY <3>1
  <2>4. w \in Pane!Widths
    OBVIOUS
  <2> HIDE DEF a
  <2>5. q \in Panes
    BY ONLY <2>1, <2>2, <2>3, <2>4 DEF Panes
  <2>6. /\ q.output = p.output /\ q.stale /\ q.scrollAnchor = a /\ q.lastSeenID = p.lastSeenID
        /\ q.height = p.height /\ q.pagerEnabled = p.pagerEnabled
    BY ONLY <2>1, <2>2 DEF Panes
  <2>7. q.scrollAnchor \in 1..Len(q.output) \cup {-1}
    BY <2>3, <2>6, Zenon
  <2>8. Pane!Over(q) <= ScrollbackSlack /\ q.output # <<>>
    BY <2>2, <2>6, Zenon DEF Pane!Over
  <2>9. \A j \in 1..Len(q.output) : q.output[j].n <= m /\ q.output[j].id <= i
    BY <2>6, Zenon DEF Fit
  <2> QED BY <2>5, <2>6, <2>7, <2>8, <2>9, Zenon DEF Resizable
<1> QED BY <1>1, <1>2

LEMMA MaybeFits ==
    ASSUME Pane!PaneAssumption, NEW p, NEW m, NEW i, Fit(p, m, i), NEW h \in Nat \ {0},
           NEW q, q = Pane!MaybeResize(p, h)
    PROVE  /\ Fit(q, m, i) /\ q.output = p.output /\ q.width = p.width /\ q.height = h
           /\ q.pagerEnabled = p.pagerEnabled /\ q.lastSeenID = p.lastSeenID
           /\ Pane!AtBottom(p) => Pane!AtBottom(q)
<1>1. CASE h = p.height
  <2>1. q = p
    BY <1>1, Zenon DEF Pane!MaybeResize
  <2> QED BY <1>1, <2>1, Zenon
<1>2. CASE h # p.height
  <2>1. q = Pane!Resize(p, h) /\ Resizable(p, m, i) /\ h \in Nat \ {0} /\ Pane!PaneAssumption
    BY <1>2, FitResizes, Zenon DEF Pane!MaybeResize
  <2> QED BY ONLY <2>1, ResizeFits, SMT
<1> QED BY <1>1, <1>2

\* A pager that is armed at the end stays so.
LEMMA ResizeStaysArmed ==
    ASSUME Pane!PaneAssumption, NEW p, NEW m, NEW i, Fit(p, m, i), NEW h \in Nat \ {0},
           Pane!AtBottom(p), p.autoPageAnchor = Len(p.lines),
           NEW q, q = Pane!Resize(p, h)
    PROVE  q.autoPageAnchor = Len(q.lines)
<1> DEFINE x == Pane!SetYOffset(Sized(p, h), p.yOffset)
           s == Pane!Sync(x)
           r == Placed(p, s)
           t == Pane!Trim(x)
           f == Pane!Refill(t)
           T == Len(p.lines)
<1>1. /\ p \in Panes /\ x = Pane!SetYOffset(Sized(p, h), p.yOffset) /\ s = Pane!Sync(x)
      /\ r = Placed(p, s) /\ t = Pane!Trim(x) /\ f = Pane!Refill(t)
      /\ Resizable(p, m, i) /\ Settled(p) /\ T \in Nat
  BY FitFields, FitResizes, Zenon DEF Fit
<1>2. q = Unanchored(r)
  BY <1>1, ResizeIsPlaced, Zenon
<1> HIDE DEF x, s, r, t, f
<1>3. /\ x \in Panes /\ SameText(x, p) /\ x.height = h /\ x.autoPageAnchor = p.autoPageAnchor
      /\ x.yOffset <= Pane!MaxYOffset(x)
  <2>1. h \in Nat \ {0}
    OBVIOUS
  <2> QED BY ONLY <1>1, <2>1, SizedPane, SMT
<1>4. Settled(x) /\ Filled(x) /\ ~x.stale
  <2>1. Settled(x)
    BY <1>1, <1>3, Zenon DEF Settled, SameText, Pane!Over
  <2> QED BY <2>1, SettledFills, Zenon DEF Settled
<1>5. t = x
  <2>1. ~(Pane!Over(x) > ScrollbackSlack)
    <3>1. Pane!Over(x) \in Int /\ ScrollbackSlack \in Nat /\ Pane!Over(x) <= ScrollbackSlack
      <4>1. Len(x.output) \in Nat
        BY <1>3, PaneFields, Zenon
      <4>2. Pane!Over(x) \in Int /\ ScrollbackSlack \in Nat
        BY <4>1 DEF Pane!Over, Pane!PaneAssumption
      <4> QED BY <1>4, <4>2, Zenon DEF Settled
    <3> QED BY <3>1
  <2> QED BY <1>1, <2>1, Zenon DEF Pane!Trim
<1>6. /\ Refilled(f, t) /\ Follows(s, f, t, Pane!AtBottom(x)) /\ SameText(s, f) /\ f \in Panes
  <2>1. Pane!PaneAssumption
    OBVIOUS
  <2> QED BY ONLY <1>1, <1>3, <1>4, <2>1, SyncAppends, Zenon
<1>7. Len(f.lines) = T /\ f.autoPageAnchor = T
  <2>1. f.lines = Pane!Render(p.output, p.width) /\ f.autoPageAnchor = p.autoPageAnchor
    BY <1>3, <1>5, <1>6, Zenon DEF Refilled, SameText
  <2> QED BY <1>1, <2>1, Zenon DEF Settled
<1>8. s.autoPageAnchor = T
  <2> HIDE DEF T
  <2>0. f.height \in Nat \ {0}
    BY <1>6, PaneFields, Zenon
  <2>1. T >= 0 /\ ~(T - T > f.height)
    BY <1>1, <2>0
  <2>2. Paged(s, f, T)
    BY <1>6, <1>7, <2>1, Zenon DEF Follows
  <2> QED BY <1>7, <2>1, <2>2, Zenon DEF Paged
<1>9. Settled(s) /\ s.output = p.output /\ s.width = p.width
  <2>1. Pane!PaneAssumption /\ h \in Nat \ {0}
    OBVIOUS
  <2> QED BY ONLY <1>1, <2>1, ResizeSyncs, SMT
<1>10. r \in Panes /\ SameText(r, s) /\ r.autoPageAnchor = s.autoPageAnchor
  BY ONLY <1>1, <1>9, PlacedPane, SMT
<1>11. q.lines = r.lines /\ q.autoPageAnchor = r.autoPageAnchor
  BY ONLY <1>2, <1>10 DEF Panes, Unanchored
<1>12. Len(s.lines) = T
  BY <1>1, <1>9, Zenon DEF Settled
<1> QED BY <1>8, <1>10, <1>11, <1>12, Zenon DEF SameText

LEMMA MaybeStaysArmed ==
    ASSUME Pane!PaneAssumption, NEW p, NEW m, NEW i, Fit(p, m, i), NEW h \in Nat \ {0},
           Pane!AtBottom(p), p.autoPageAnchor = Len(p.lines),
           NEW q, q = Pane!MaybeResize(p, h)
    PROVE  q.autoPageAnchor = Len(q.lines)
<1>1. CASE h = p.height
  BY <1>1, Zenon DEF Pane!MaybeResize
<1>2. CASE h # p.height
  <2>1. q = Pane!Resize(p, h)
    BY <1>2, Zenon DEF Pane!MaybeResize
  <2> QED BY <2>1, ResizeStaysArmed, Zenon
<1> QED BY <1>1, <1>2

-----------------------------------------------------------------------------
(* New items                                                               *)

\* p is o with items that the view does not have yet.
Extends(p, o, items) ==
    /\ p \in Panes /\ p.output = o.output \o items
    /\ p.lines = o.lines /\ p.width = o.width /\ p.stale = o.stale
    /\ p.syncedItems = o.syncedItems /\ p.yOffset = o.yOffset /\ p.height = o.height
    /\ p.scrollAnchor = o.scrollAnchor /\ p.pagerEnabled = o.pagerEnabled
    /\ p.autoPageAnchor = o.autoPageAnchor

LEMMA ItemsJoined ==
    ASSUME NEW a \in Seq(Items), NEW b \in Seq(Items)
    PROVE  /\ a \o b \in Seq(Items) /\ Len(a \o b) = Len(a) + Len(b)
           /\ Len(a) \in Nat /\ Len(b) \in Nat
           /\ SubSeq(a \o b, 1, Len(a)) = a
           /\ \A j \in 1..Len(a) : (a \o b)[j] = a[j]
           /\ \A j \in Len(a) + 1..Len(a) + Len(b) : (a \o b)[j] = b[j - Len(a)]
OBVIOUS

LEMMA AppendedExtends ==
    ASSUME NEW o \in Panes, NEW items \in Seq(Items), NEW p, p = Pane!Appended(o, items)
    PROVE  Extends(p, o, items) /\ p.lastSeenID = o.lastSeenID
<1> DEFINE all == o.output \o items
<1>1. all \in Seq(Items) /\ o \in Panes
  <2>1. o.output \in Seq(Items)
    BY PaneFields, Zenon
  <2> QED BY <2>1, ItemsJoined, Zenon
<1>2. p = [o EXCEPT !.output = all]
  BY DEF Pane!Appended, Panes
<1> HIDE DEF all
<1>3. p \in Panes
  BY ONLY <1>1, <1>2 DEF Panes
<1>4. /\ p.output = all
      /\ p.lines = o.lines /\ p.width = o.width /\ p.stale = o.stale
      /\ p.syncedItems = o.syncedItems /\ p.yOffset = o.yOffset /\ p.height = o.height
      /\ p.scrollAnchor = o.scrollAnchor /\ p.pagerEnabled = o.pagerEnabled
      /\ p.autoPageAnchor = o.autoPageAnchor /\ p.lastSeenID = o.lastSeenID
  BY ONLY <1>1, <1>2 DEF Panes
<1> QED BY <1>3, <1>4, Zenon DEF Extends, all

LEMMA ExtendedFills ==
    ASSUME NEW o, NEW m, NEW i, Fit(o, m, i), NEW items \in Seq(Items), NEW p, Extends(p, o, items)
    PROVE  /\ Filled(p) /\ ~p.stale /\ p.yOffset <= Pane!MaxYOffset(p)
           /\ (Pane!AtBottom(p) <=> Pane!AtBottom(o))
           /\ p.syncedItems = Len(o.output) /\ p.output \in Seq(Items)
<1>1. /\ o \in Panes /\ o.output \in Seq(Items) /\ o.output # <<>> /\ ~o.stale
      /\ o.lines = Pane!Render(o.output, o.width) /\ o.syncedItems = Len(o.output)
      /\ o.yOffset <= Pane!MaxYOffset(o)
  BY PaneFields, Zenon DEF Fit, Settled
<1> DEFINE a == o.output
<1>2. /\ a \o items \in Seq(Items) /\ Len(a \o items) = Len(a) + Len(items)
      /\ Len(a) \in Nat /\ Len(items) \in Nat /\ SubSeq(a \o items, 1, Len(a)) = a
  BY <1>1, ItemsJoined, Zenon
<1>3. Len(a) <= Len(a \o items) /\ a \o items # <<>>
  <2> DEFINE c == a \o items
             x == Len(a)
  <2>1. /\ Len(c) = x + Len(items) /\ x \in Nat /\ Len(items) \in Nat /\ c \in Seq(Items) /\ x # 0
    <3>1. x # 0
      BY <1>1
    <3> QED BY <1>2, <3>1, Zenon
  <2> HIDE DEF c, x
  <2>2. x <= Len(c) /\ c # <<>>
    BY <2>1
  <2> QED BY <2>2, Zenon DEF c, x
<1> HIDE DEF a
<1>4. Filled(p)
  BY <1>1, <1>2, <1>3, Zenon DEF Filled, Extends, a
<1>5. Pane!MaxYOffset(p) = Pane!MaxYOffset(o)
  BY SameGreatest, Zenon DEF Extends
<1> QED BY <1>1, <1>2, <1>4, <1>5, Zenon DEF Extends, Pane!AtBottom, a

Numbered(items, m, i) == \A j \in 1..Len(items) : items[j].n <= m /\ items[j].id <= i

\* The numbers of the items that are new: beyond m, and rising
Newer(items, m) ==
    /\ \A j \in 1..Len(items) : items[j].n > m
    /\ \A j, k \in 1..Len(items) : j < k => items[k].n > items[j].n

LEMMA ExtendedItem ==
    ASSUME NEW o, NEW m, NEW i, Fit(o, m, i), NEW items \in Seq(Items), NEW p, Extends(p, o, items),
           NEW j \in 1..Len(p.output)
    PROVE  \/ j \in 1..Len(o.output) /\ p.output[j] = o.output[j]
           \/ /\ j > Len(o.output) /\ j - Len(o.output) \in 1..Len(items)
              /\ p.output[j] = items[j - Len(o.output)]
<1> DEFINE a == o.output
           N == Len(a)
           M == Len(items)
<1>1. a \in Seq(Items)
  BY FitFields, Zenon
<1>2. /\ Len(a \o items) = N + M /\ N \in Nat /\ M \in Nat
      /\ \A k \in 1..N : (a \o items)[k] = a[k]
      /\ \A k \in N + 1..N + M : (a \o items)[k] = items[k - N]
  BY <1>1, ItemsJoined, Zenon
<1>3. p.output = a \o items
  BY Zenon DEF Extends
<1>4. j \in 1..N + M
  BY <1>2, <1>3, Zenon
<1> HIDE DEF a, N, M
<1>5. j \in 1..N \/ (j \in N + 1..N + M /\ j > N /\ j - N \in 1..M)
  BY <1>2, <1>4
<1> QED BY <1>2, <1>3, <1>5, Zenon DEF a, N, M

LEMMA ExtendedSyncs ==
    ASSUME Pane!PaneAssumption, NEW o, NEW m \in Nat, NEW i \in Nat, Fit(o, m, i),
           NEW items \in Seq(Items), NEW p, Extends(p, o, items),
           NEW n \in Nat, NEW x \in Nat, m <= n, i <= x, Numbered(items, n, x),
           NEW q, q = Pane!Sync(p)
    PROVE  /\ Fit(q, n, x) /\ q.lastSeenID = p.lastSeenID /\ q.pagerEnabled = p.pagerEnabled
           /\ q.height = p.height /\ q.width = p.width /\ ItemsOf(q, p)
           /\ Len(q.lines) <= Len(Pane!Render(p.output, p.width))
<1>1. Filled(p) /\ ~p.stale /\ p.yOffset <= Pane!MaxYOffset(p)
  BY ExtendedFills, Zenon
<1>2. /\ Settled(q) /\ SameMind(q, p) /\ q.width = p.width /\ ItemsOf(q, p)
      /\ Len(q.lines) <= Len(Pane!Render(p.output, p.width))
  BY <1>1, SyncKeeps, Zenon
<1>3. q.scrollAnchor = -1
  BY <1>2, Zenon DEF SameMind, Extends, Fit
<1>4. \A j \in 1..Len(p.output) : p.output[j].n <= n /\ p.output[j].id <= x
  <2> SUFFICES ASSUME NEW j \in 1..Len(p.output) PROVE p.output[j].n <= n /\ p.output[j].id <= x
    OBVIOUS
  <2>1. CASE j \in 1..Len(o.output) /\ p.output[j] = o.output[j]
    <3> DEFINE c == o.output
    <3>1. c[j].n <= m /\ c[j].id <= i /\ c[j].n \in Nat /\ c[j].id \in Nat
      <4>1. c \in Seq(Items)
        BY FitFields, Zenon
      <4> QED BY <2>1, <4>1, ItemAt, Zenon DEF Fit
    <3> DEFINE y == c[j].n
               z == c[j].id
    <3>2. y <= m /\ z <= i /\ y \in Nat /\ z \in Nat
      BY <3>1, Zenon
    <3> HIDE DEF y, z
    <3>3. y <= n /\ z <= x
      BY <3>2
    <3> QED BY <2>1, <3>3, Zenon DEF y, z
  <2>2. CASE j - Len(o.output) \in 1..Len(items) /\ p.output[j] = items[j - Len(o.output)]
    BY <2>2, Zenon DEF Numbered
  <2>3. \/ j \in 1..Len(o.output) /\ p.output[j] = o.output[j]
        \/ /\ j > Len(o.output) /\ j - Len(o.output) \in 1..Len(items)
           /\ p.output[j] = items[j - Len(o.output)]
    <3>1. Fit(o, m, i) /\ items \in Seq(Items) /\ Extends(p, o, items) /\ j \in 1..Len(p.output)
      BY Zenon
    <3> QED BY ONLY <3>1, ExtendedItem, ZenonT(30)
  <2> QED BY <2>1, <2>2, <2>3, Zenon
<1>5. \A j \in 1..Len(q.output) : q.output[j].n <= n /\ q.output[j].id <= x
  BY <1>2, <1>4, Zenon DEF ItemsOf
<1> QED BY <1>2, <1>3, <1>5, Zenon DEF Fit, SameMind

LEMMA ExtendedWaits ==
    ASSUME Pane!PaneAssumption, NEW o, NEW m \in Nat, NEW i \in Nat, Fit(o, m, i),
           NEW items \in Seq(Items), NEW p, Extends(p, o, items),
           Newer(items, m),
           NEW u \in Nat, u <= m + 1, Waits(o, u),
           NEW q, q = Pane!Sync(p)
    PROVE  Waits(q, u)
<1> DEFINE a == o.output
           b == p.output
           N == Len(a)
<1>1. Filled(p) /\ ~p.stale /\ p.yOffset <= Pane!MaxYOffset(p) /\ p.syncedItems = N
      /\ b \in Seq(Items) /\ a \in Seq(Items) /\ N \in Nat \ {0} /\ Len(b) \in Nat
  BY ExtendedFills, FitFields, LenProperties, Zenon
<1>2. \A j \in 1..Len(b) : b[j].n \in Nat
  BY <1>1, ItemAt, Zenon
<1>3. \A j \in 1..Len(b) : \/ j \in 1..N /\ b[j] = a[j] /\ a[j].n <= m
                           \/ j > N /\ j - N \in 1..Len(items) /\ b[j] = items[j - N] /\ b[j].n > m
  <2> SUFFICES ASSUME NEW j \in 1..Len(b)
               PROVE  \/ j \in 1..N /\ b[j] = a[j] /\ a[j].n <= m
                      \/ j > N /\ j - N \in 1..Len(items) /\ b[j] = items[j - N] /\ b[j].n > m
    OBVIOUS
  <2>1. CASE j \in 1..N /\ b[j] = a[j]
    <3>1. a[j].n <= m
      BY <2>1, Zenon DEF Fit
    <3> QED BY <2>1, <3>1, Zenon
  <2>2. CASE j > N /\ j - N \in 1..Len(items) /\ b[j] = items[j - N]
    <3>1. items[j - N].n > m
      BY <2>2, Zenon DEF Newer
    <3> QED BY <2>2, <3>1, Zenon
  <2>3. \/ j \in 1..Len(o.output) /\ p.output[j] = o.output[j]
        \/ /\ j > Len(o.output) /\ j - Len(o.output) \in 1..Len(items)
           /\ p.output[j] = items[j - Len(o.output)]
    <3>1. Fit(o, m, i) /\ items \in Seq(Items) /\ Extends(p, o, items) /\ j \in 1..Len(p.output)
      BY Zenon
    <3> QED BY ONLY <3>1, ExtendedItem, ZenonT(30)
  <2> QED BY <2>1, <2>2, <2>3, Zenon
<1>4. \A j \in p.syncedItems + 1..Len(b) : b[j].n >= u
  <2> SUFFICES ASSUME NEW j \in N + 1..Len(b) PROVE b[j].n >= u
    BY <1>1, Zenon
  <2> HIDE DEF b, N
  <2>1. j \in 1..Len(b) /\ ~(j \in 1..N)
    BY <1>1
  <2>2. b[j].n > m /\ b[j].n \in Nat
    BY <1>2, <1>3, <2>1, Zenon
  <2> QED BY <2>2
<1>5. Sorted(p, u)
  <2> SUFFICES ASSUME NEW j \in 1..Len(b), NEW k \in 1..Len(b), j < k, b[j].n >= u
               PROVE  b[k].n > b[j].n
    BY Zenon DEF Sorted
  <2>1. b[j].n \in Nat /\ b[k].n \in Nat
    BY <1>2, Zenon
  <2>2. CASE k \in 1..N /\ b[k] = a[k]
    <3>1. j \in 1..N /\ ~(j > N)
      <4> HIDE DEF b, N
      <4> QED BY <1>1, <2>2
    <3>2. b[j] = a[j]
      BY <1>3, <3>1, Zenon
    <3>3. a[j].n >= u => a[k].n > a[j].n
      BY <2>2, <3>1, Zenon DEF Waits, Sorted
    <3> QED BY <2>2, <3>2, <3>3, Zenon
  <2>3. CASE k > N /\ k - N \in 1..Len(items) /\ b[k] = items[k - N] /\ b[k].n > m
    <3>1. CASE j \in 1..N /\ b[j] = a[j] /\ a[j].n <= m
      <4> HIDE DEF b, a, N
      <4>1. b[j].n <= m
        BY <3>1, Zenon
      <4>2. b[k].n > m
        BY <2>3, Zenon
      <4> QED BY <2>1, <4>1, <4>2
    <3>2. CASE j > N /\ j - N \in 1..Len(items) /\ b[j] = items[j - N]
      <4>1. j - N < k - N
        <5> HIDE DEF b, N
        <5> QED BY <1>1, <2>3, <3>2
      <4>2. items[k - N].n > items[j - N].n
        BY <2>3, <3>2, <4>1, Zenon DEF Newer
      <4> QED BY <2>3, <3>2, <4>2, Zenon
    <3> QED BY <1>3, <3>1, <3>2, Zenon
  <2> QED BY <1>3, <2>2, <2>3, Zenon
<1>6. ASSUME p.pagerEnabled, b[1].n <= u PROVE Held(p, u)
  <2>1. o.pagerEnabled /\ o.autoPageAnchor = p.autoPageAnchor /\ o.lines = p.lines /\ o.yOffset = p.yOffset
    BY <1>6, Zenon DEF Extends
  <2>2. b[1] = a[1]
    <3>1. 1 \in 1..N /\ ~(1 > N) /\ 1 \in 1..Len(b)
      <4>1. b = a \o items
        BY Zenon DEF Extends
      <4>2. Len(b) = N + Len(items) /\ Len(items) \in Nat
        <5>1. Len(a \o items) = Len(a) + Len(items) /\ Len(items) \in Nat
          BY <1>1, ItemsJoined, Zenon
        <5> QED BY <4>1, <5>1, Zenon
      <4> HIDE DEF b, N
      <4> QED BY <1>1, <4>2
    <3> QED BY <1>3, <3>1, Zenon
  <2>3. Held(o, u)
    BY <1>6, <2>1, <2>2, Zenon DEF Waits
  <2>4. Pane!MaxYOffset(p) = Pane!MaxYOffset(o)
    BY SameGreatest, Zenon DEF Extends
  <2> QED BY <2>1, <2>3, <2>4, Zenon DEF Held, Edge
<1>7. Waits(p, u)
  BY <1>5, <1>6, Zenon DEF Waits
<1> QED BY <1>1, <1>4, <1>7, SyncHolds, Zenon

-----------------------------------------------------------------------------
(* Rebuilding, a new session, and a restored position                      *)

Staled(p) == [p EXCEPT !.stale = TRUE]

LEMMA RebuiltAlike ==
    ASSUME Pane!PaneAssumption, NEW p, NEW m, NEW i, Fit(p, m, i), NEW x, x = Staled(p),
           NEW f, f = Pane!Refill(x), NEW q, q = Pane!Sync(x)
    PROVE  /\ x.output = p.output /\ SameMind(x, p) /\ Pane!MaxYOffset(x) = Pane!MaxYOffset(p)
           /\ x.yOffset = p.yOffset
           /\ f \in Panes /\ Refilled(f, x) /\ f.lines = p.lines /\ f.height = p.height
           /\ f.autoPageAnchor = p.autoPageAnchor /\ f.yOffset = p.yOffset
           /\ Pane!MaxYOffset(f) = Pane!MaxYOffset(p)
           /\ Follows(q, f, x, Pane!AtBottom(x)) /\ SameText(q, f) /\ SameMind(q, f)
           /\ Pane!MaxYOffset(q) = Pane!MaxYOffset(f) /\ SameMind(q, x)
           /\ q.output = x.output /\ Settled(q)
<1>0. /\ Pane!PaneAssumption /\ p \in Panes /\ p.output # <<>> /\ Pane!Over(p) <= ScrollbackSlack
      /\ p.yOffset <= Pane!MaxYOffset(p) /\ p.yOffset \in Nat /\ p.scrollAnchor = -1
      /\ p.lines = Pane!Render(p.output, p.width) /\ Pane!MaxYOffset(p) \in Nat
  BY FitFields, Zenon DEF Fit, Settled
<1>1. x = Staled(p) /\ f = Pane!Refill(x) /\ q = Pane!Sync(x)
  OBVIOUS
<1>2. x \in Panes
  BY ONLY <1>0, <1>1 DEF Panes, Staled
<1>3. /\ x.output = p.output /\ x.lines = p.lines /\ x.width = p.width /\ x.stale
      /\ x.yOffset = p.yOffset /\ x.autoPageAnchor = p.autoPageAnchor /\ SameMind(x, p)
  BY ONLY <1>0, <1>1 DEF Panes, Staled, SameMind
<1>4. x.output # <<>> /\ Pane!Over(x) <= ScrollbackSlack
  BY <1>0, <1>3, Zenon DEF Pane!Over
<1>5. /\ f \in Panes /\ Refilled(f, x) /\ f.yOffset = Within(x.yOffset, f)
      /\ Follows(q, f, x, Pane!AtBottom(x)) /\ SameText(q, f) /\ SameMind(q, f)
      /\ Pane!MaxYOffset(q) = Pane!MaxYOffset(f) /\ SameMind(q, x)
      /\ q.output = x.output /\ Settled(q)
  <2>1. f \in Panes /\ Refilled(f, x) /\ f.yOffset = Within(x.yOffset, f)
    BY ONLY <1>0, <1>2, <1>3, <1>1, <1>4, SyncRebuilds, Zenon
  <2>2. Follows(q, f, x, Pane!AtBottom(x)) /\ SameText(q, f) /\ SameMind(q, f) /\ SameMind(q, x)
    BY ONLY <1>0, <1>2, <1>3, <1>1, <1>4, SyncRebuilds, Zenon
  <2>3. /\ Pane!MaxYOffset(q) = Pane!MaxYOffset(f)
        /\ q.output = x.output /\ Settled(q)
    BY ONLY <1>0, <1>2, <1>3, <1>1, <1>4, SyncRebuilds, SMT
  <2> QED BY <2>1, <2>2, <2>3, Zenon
<1>7. f.lines = p.lines /\ f.height = p.height /\ f.autoPageAnchor = p.autoPageAnchor
  BY ONLY <1>0, <1>3, <1>5, Zenon DEF Refilled, SameMind
<1>8. Pane!MaxYOffset(f) = Pane!MaxYOffset(p) /\ Pane!MaxYOffset(x) = Pane!MaxYOffset(p)
  BY <1>3, <1>7, SameGreatest, Zenon DEF SameMind
<1>9. f.yOffset = p.yOffset
  <2> DEFINE y == p.yOffset
             t == Pane!MaxYOffset(p)
  <2>1. f.yOffset = IF y < 0 THEN 0 ELSE IF y > t THEN t ELSE y
    BY <1>3, <1>5, <1>8, Zenon DEF Within
  <2>2. y \in Nat /\ t \in Nat /\ y <= t
    BY <1>0, Zenon
  <2> HIDE DEF y, t
  <2>3. f.yOffset = y
    BY ONLY <2>1, <2>2
  <2> QED BY <2>3, Zenon DEF y
<1> QED BY <1>3, <1>5, <1>7, <1>8, <1>9, Zenon

LEMMA RecolourSyncs ==
    ASSUME Pane!PaneAssumption, NEW p, NEW m, NEW i, Fit(p, m, i), NEW q, q = Pane!Sync(Staled(p))
    PROVE  /\ Fit(q, m, i) /\ q.lastSeenID = p.lastSeenID
           /\ \A u \in Nat : Waits(p, u) => Waits(q, u)
<1> DEFINE x == Staled(p)
           f == Pane!Refill(x)
<1>1. /\ p \in Panes /\ p.yOffset <= Pane!MaxYOffset(p) /\ p.yOffset \in Nat /\ p.scrollAnchor = -1
      /\ Pane!MaxYOffset(p) \in Nat
  BY FitFields, Zenon DEF Fit
<1>2. /\ x = Staled(p) /\ f = Pane!Refill(x) /\ q = Pane!Sync(x)
      /\ Pane!PaneAssumption /\ Fit(p, m, i)
  OBVIOUS
<1> HIDE DEF x, f
<1>3. /\ x.output = p.output /\ SameMind(x, p) /\ Pane!MaxYOffset(x) = Pane!MaxYOffset(p)
      /\ x.yOffset = p.yOffset
      /\ f \in Panes /\ Refilled(f, x) /\ f.lines = p.lines /\ f.height = p.height
      /\ f.autoPageAnchor = p.autoPageAnchor /\ f.yOffset = p.yOffset
      /\ Pane!MaxYOffset(f) = Pane!MaxYOffset(p)
      /\ Follows(q, f, x, Pane!AtBottom(x)) /\ SameText(q, f) /\ SameMind(q, f)
      /\ Pane!MaxYOffset(q) = Pane!MaxYOffset(f) /\ SameMind(q, x)
      /\ q.output = x.output /\ Settled(q)
  <2>1. /\ SameMind(x, p) /\ f \in Panes /\ Refilled(f, x) /\ Follows(q, f, x, Pane!AtBottom(x))
        /\ SameText(q, f) /\ SameMind(q, f) /\ SameMind(q, x) /\ Settled(q)
    BY ONLY <1>2, RebuiltAlike, Zenon
  <2>2. /\ x.output = p.output /\ x.yOffset = p.yOffset /\ f.lines = p.lines
        /\ f.height = p.height /\ f.autoPageAnchor = p.autoPageAnchor /\ f.yOffset = p.yOffset
        /\ q.output = x.output
    BY ONLY <1>2, RebuiltAlike, SMT
  <2>3. /\ Pane!MaxYOffset(x) = Pane!MaxYOffset(p) /\ Pane!MaxYOffset(f) = Pane!MaxYOffset(p)
        /\ Pane!MaxYOffset(q) = Pane!MaxYOffset(f)
    BY ONLY <1>2, RebuiltAlike, SMT
  <2> QED BY <2>1, <2>2, <2>3, Zenon
<1>6. Fit(q, m, i)
  BY <1>1, <1>3, Zenon DEF Fit, SameMind
<1>10. ASSUME NEW u \in Nat, Waits(p, u) PROVE Waits(q, u)
  <2>1. Sorted(q, u)
    BY <1>3, <1>10, Zenon DEF Waits, Sorted
  <2>2. ASSUME q.pagerEnabled, q.output[1].n <= u PROVE Held(q, u)
    <3>1. p.pagerEnabled /\ p.output[1].n <= u /\ f.pagerEnabled
      BY <1>3, <2>2, Zenon DEF SameMind
    <3>2. Held(p, u)
      BY <1>10, <3>1, Zenon DEF Waits
    <3>3. Held(f, u)
      BY <1>3, <3>2, Zenon DEF Held, Edge
    <3>4. ~(f.autoPageAnchor >= 0) => ~Pane!AtBottom(x)
      <4> DEFINE a == p.autoPageAnchor
                 y == p.yOffset
                 t == Pane!MaxYOffset(p)
      <4>1. /\ a < 0 => y < t
            /\ Pane!AtBottom(x) <=> y >= t
        BY <1>3, <3>2, Zenon DEF Held, Pane!AtBottom
      <4>2. y \in Nat /\ t \in Nat /\ a \in Nat \cup {-1}
        BY <1>1, PaneFields, Zenon
      <4> HIDE DEF a, y, t
      <4>3. ~(a >= 0) => ~(y >= t)
        BY ONLY <4>1, <4>2
      <4> QED BY <1>3, <4>1, <4>3, Zenon DEF a
    <3>5. Pane!AtBottom(x) \in BOOLEAN /\ u \in Nat
      BY DEF Pane!AtBottom
    <3>6. f.yOffset <= Pane!MaxYOffset(f) /\ q \in Panes
      BY <1>1, <1>3, Zenon DEF Settled
    <3> QED BY ONLY <1>3, <3>1, <3>3, <3>4, <3>5, <3>6, FollowsHolds, Zenon
  <2> QED BY <2>1, <2>2, Zenon DEF Waits
<1> QED BY <1>3, <1>6, <1>10, Zenon DEF SameMind

NoIds(s) == [k \in DOMAIN s |-> [s[k] EXCEPT !.id = 0]]

LEMMA IdsReset ==
    ASSUME NEW s \in Seq(Items), NEW w \in Pane!Widths
    PROVE  /\ NoIds(s) \in Seq(Items) /\ Len(NoIds(s)) = Len(s)
           /\ \A k \in 1..Len(s) : NoIds(s)[k].n = s[k].n /\ NoIds(s)[k].id = 0
           /\ Pane!Render(NoIds(s), w) = Pane!Render(s, w)
<1>1. DOMAIN s = 1..Len(s) /\ Len(s) \in Nat /\ \A k \in 1..Len(s) : s[k] \in Items
  BY ElementOfSeq
<1>2. ASSUME NEW x \in Items
      PROVE  /\ [x EXCEPT !.id = 0] \in Items
             /\ [x EXCEPT !.id = 0].n = x.n /\ [x EXCEPT !.id = 0].id = 0
             /\ [x EXCEPT !.id = 0].size = x.size
  BY DEF Items
<1> DEFINE r == NoIds(s)
<1>3. r = [k \in 1..Len(s) |-> [s[k] EXCEPT !.id = 0]]
  BY <1>1, Zenon DEF NoIds
<1>4. \A k \in 1..Len(s) : r[k] = [s[k] EXCEPT !.id = 0]
  BY <1>3, Zenon
<1> HIDE DEF r
<1>5. \A k \in 1..Len(s) : r[k] \in Items /\ r[k].n = s[k].n /\ r[k].id = 0 /\ r[k].size = s[k].size
  <2> SUFFICES ASSUME NEW k \in 1..Len(s)
               PROVE  r[k] \in Items /\ r[k].n = s[k].n /\ r[k].id = 0 /\ r[k].size = s[k].size
    OBVIOUS
  <2> DEFINE x == s[k]
  <2>1. x \in Items /\ r[k] = [x EXCEPT !.id = 0]
    BY <1>1, <1>4, Zenon
  <2> HIDE DEF x
  <2>2. r[k] \in Items /\ r[k].n = x.n /\ r[k].id = 0 /\ r[k].size = x.size
    BY <1>2, <2>1, Zenon
  <2> QED BY <2>2, Zenon DEF x
<1>6. r \in Seq(Items) /\ Len(r) = Len(s) /\ DOMAIN r = DOMAIN s
  <2> DEFINE n == Len(s)
  <2>1. n \in Nat /\ DOMAIN s = 1..n
    BY <1>1, Zenon
  <2>2. r \in [1..n -> Items]
    <3>1. \A k \in 1..n : [s[k] EXCEPT !.id = 0] \in Items
      BY <1>1, <1>2, Zenon
    <3> QED BY <1>3, <3>1, Zenon
  <2> HIDE DEF n
  <2>3. r \in Seq(Items) /\ Len(r) = n /\ DOMAIN r = 1..n
    BY ONLY <2>1, <2>2
  <2> QED BY <2>1, <2>3, Zenon DEF n
<1>7. Pane!Render(r, w) = Pane!Render(s, w)
  <2>1. \A k \in DOMAIN s : Pane!RenderItem(r[k], w) = Pane!RenderItem(s[k], w)
    <3> SUFFICES ASSUME NEW k \in DOMAIN s
                 PROVE  Pane!RenderItem(r[k], w) = Pane!RenderItem(s[k], w)
      OBVIOUS
    <3>1. r[k].n = s[k].n /\ r[k].size = s[k].size
      BY <1>1, <1>5, Zenon
    <3>2. Pane!Rows(r[k], w) = Pane!Rows(s[k], w)
      BY <3>1, Zenon DEF Pane!Rows
    <3> QED BY <3>1, <3>2, Zenon DEF Pane!RenderItem
  <2>2. [k \in DOMAIN r |-> Pane!RenderItem(r[k], w)] = [k \in DOMAIN s |-> Pane!RenderItem(s[k], w)]
    BY <1>6, <2>1, Zenon
  <2> QED BY <2>2, Zenon DEF Pane!Render
<1> QED BY <1>5, <1>6, <1>7, Zenon DEF r

LEMMA ResetFits ==
    ASSUME NEW p, NEW m, NEW i, Fit(p, m, i), NEW q, q = Pane!ResetSessionIDs(p)
    PROVE  /\ Fit(q, m, 0) /\ q.lastSeenID = 0 /\ Pane!Shown(q) \subseteq {0}
           /\ \A u \in Nat : Waits(p, u) => Waits(q, u)
<1> DEFINE s == p.output
           r == NoIds(s)
<1>0. /\ p \in Panes /\ s \in Seq(Items) /\ p.width \in Pane!Widths /\ s # <<>> /\ ~p.stale
      /\ p.lines = Pane!Render(s, p.width) /\ p.syncedItems = Len(s) /\ Len(s) \in Nat \ {0}
      /\ p.yOffset <= Pane!MaxYOffset(p) /\ Pane!Over(p) <= ScrollbackSlack /\ p.scrollAnchor = -1
      /\ \A j \in 1..Len(s) : s[j].n <= m /\ s[j].id <= i
  BY FitFields, Zenon DEF Fit, Settled
<1>1. /\ r \in Seq(Items) /\ Len(r) = Len(s)
      /\ \A k \in 1..Len(s) : r[k].n = s[k].n /\ r[k].id = 0
      /\ Pane!Render(r, p.width) = Pane!Render(s, p.width)
  BY <1>0, IdsReset, Zenon
<1>2. q = [p EXCEPT !.lastSeenID = 0, !.output = r]
  BY DEF Pane!ResetSessionIDs, Panes, NoIds
<1> HIDE DEF r, s
<1>3. q \in Panes
  BY ONLY <1>0, <1>1, <1>2 DEF Panes
<1>4. /\ q.output = r /\ q.lastSeenID = 0 /\ q.lines = p.lines /\ q.width = p.width
      /\ q.height = p.height /\ q.yOffset = p.yOffset /\ q.syncedItems = p.syncedItems
      /\ q.stale = p.stale /\ q.autoPageAnchor = p.autoPageAnchor
      /\ q.scrollAnchor = p.scrollAnchor /\ q.pagerEnabled = p.pagerEnabled
  BY ONLY <1>0, <1>2 DEF Panes
<1>5. Pane!MaxYOffset(q) = Pane!MaxYOffset(p)
  BY <1>4, SameGreatest, Zenon
<1>6. r # <<>>
  BY <1>0, <1>1
<1>7. Pane!Over(q) = Pane!Over(p)
  BY <1>1, <1>4, Zenon DEF Pane!Over, s
<1>8. Settled(q)
  BY <1>0, <1>1, <1>3, <1>4, <1>5, <1>6, <1>7, Zenon DEF Settled
<1>9. \A j \in 1..Len(q.output) : q.output[j].n <= m /\ q.output[j].id <= 0
  <2>1. 0 <= 0
    OBVIOUS
  <2> QED BY <1>0, <1>1, <1>4, <2>1, Zenon
<1>10. Fit(q, m, 0)
  BY <1>0, <1>4, <1>8, <1>9, Zenon DEF Fit
<1>11. Pane!Shown(q) \subseteq {0}
  <2>1. DOMAIN r = 1..Len(s)
    BY <1>1, LenProperties, Zenon
  <2>2. \A j \in DOMAIN q.output : q.output[j].id = 0
    BY <1>1, <1>4, <2>1, Zenon
  <2> QED BY <2>2, Zenon DEF Pane!Shown
<1>12. ASSUME NEW u \in Nat, Waits(p, u) PROVE Waits(q, u)
  <2>1. Sorted(q, u)
    <3> SUFFICES ASSUME NEW a \in 1..Len(q.output), NEW b \in 1..Len(q.output), a < b,
                        q.output[a].n >= u
                 PROVE  q.output[b].n > q.output[a].n
      BY Zenon DEF Sorted
    <3>1. a \in 1..Len(s) /\ b \in 1..Len(s)
      BY <1>1, <1>4, Zenon
    <3>2. q.output[a].n = s[a].n /\ q.output[b].n = s[b].n
      BY <1>1, <1>4, <3>1, Zenon
    <3>3. s[a].n >= u
      BY <3>2, Zenon
    <3>4. s[b].n > s[a].n
      BY <1>12, <3>1, <3>3, Zenon DEF Waits, Sorted, s
    <3> QED BY <3>2, <3>4, Zenon
  <2>2. q.output[1].n = p.output[1].n
    <3>1. 1 \in 1..Len(s)
      BY <1>0
    <3> QED BY <1>1, <1>4, <3>1, Zenon DEF s
  <2>3. Held(p, u) => Held(q, u)
    BY <1>4, <1>5, Zenon DEF Held, Edge
  <2> QED BY <1>4, <1>12, <2>1, <2>2, <2>3, Zenon DEF Waits
<1> QED BY <1>4, <1>10, <1>11, <1>12, Zenon

LEMMA RestoreFits ==
    ASSUME NEW p, NEW m, NEW i, Fit(p, m, i), NEW stored \in Nat, NEW q, q = Pane!Restore(p, stored)
    PROVE  Fit(q, m, i) /\ q.lastSeenID \in {p.lastSeenID, stored}
<1> DEFINE s == p.output
           at == {k \in DOMAIN s : s[k].id >= stored}
           end == IF at = {} THEN Len(s) ELSE CHOOSE k \in at : \A j \in at : k <= j
           y == Pane!Upto(p, end) - p.height
           r == Pane!SetYOffset(p, y)
           x == Pane!Larger(r.lastSeenID, stored)
<1>1. /\ s \in Seq(Items) /\ p.width \in Pane!Widths /\ p.height \in Nat \ {0}
      /\ Len(s) \in Nat \ {0} /\ p.lastSeenID \in Nat /\ DOMAIN s = 1..Len(s)
  BY FitFields, LenProperties, Zenon
<1>2. end \in 0..Len(s)
  <2>1. CASE at = {}
    <3>1. end = Len(s)
      BY <2>1, Zenon
    <3> HIDE DEF s, end
    <3> QED BY <1>1, <3>1
  <2>2. CASE at # {}
    <3>1. at \subseteq 1..Len(s)
      BY <1>1, Zenon
    <3>2. end = CHOOSE k \in at : \A j \in at : k <= j
      BY <2>2, Zenon
    <3> HIDE DEF at, end
    <3>3. at \subseteq Nat
      BY <3>1
    <3>4. \E k \in at : \A j \in at : k <= j
      BY ONLY <2>2, <3>3, LeastExists, Zenon
    <3>5. end \in at
      BY <3>2, <3>4, Zenon
    <3>6. end \in 1..Len(s)
      BY <3>1, <3>5, Zenon
    <3> HIDE DEF s
    <3> QED BY <1>1, <3>6
  <2> QED BY <2>1, <2>2
<1>3. q = [r EXCEPT !.lastSeenID = x]
  BY Zenon DEF Pane!Restore
<1> HIDE DEF end
<1>4. y \in Int
  <2> DEFINE z == Pane!Upto(p, end)
  <2>1. z = RowsUpto(s, p.width, end)
    BY Zenon DEF Pane!Upto, RowsUpto
  <2>2. z \in Nat
    BY <1>1, <1>2, <2>1, RowsGrow, Zenon
  <2> HIDE DEF z
  <2>3. z - p.height \in Int
    BY <1>1, <2>2
  <2> QED BY <2>3, Zenon DEF z
<1>5. r = Pane!SetYOffset(p, y)
  OBVIOUS
<1>6. x = IF r.lastSeenID > stored THEN r.lastSeenID ELSE stored
  BY Zenon DEF Pane!Larger
<1> HIDE DEF y, r, x
<1>7. Fit(r, m, i) /\ SameMind(r, p)
  BY <1>4, <1>5, MoveFits, Zenon
<1>8. x \in {p.lastSeenID, stored} /\ x \in Nat
  <2>1. r.lastSeenID = p.lastSeenID
    BY <1>7, Zenon DEF SameMind
  <2>2. x = p.lastSeenID \/ x = stored
    BY <1>6, <2>1, Zenon
  <2>3. x \in Nat
    BY <1>1, <2>2, Zenon
  <2> QED BY <2>2, <2>3, Zenon
<1>9. r \in Panes /\ r.autoPageAnchor \in Anchors /\ r.pagerEnabled \in BOOLEAN
  BY <1>7, FitFields, Zenon DEF Anchors
<1>10. q = Minded(r, r.autoPageAnchor, x, r.pagerEnabled)
  BY ONLY <1>3, <1>9 DEF Minded, Panes
<1>11. Fit(q, m, i) /\ q.lastSeenID = x
  BY ONLY <1>7, <1>8, <1>9, <1>10, MindFits, SMT
<1> QED BY <1>8, <1>11, Zenon

-----------------------------------------------------------------------------
(* The invariant of the pane                                               *)

Known == reached \cup adopted \cup {0}

\* What only reloads and their answers change; the lemmas below see through it.
Carried == <<missed, answers, adopted>>
USE DEF Carried, Pane!fetching

Posts == [id : Nat, size : Nat \ {0}]
Sent(M, m) == M \subseteq Posts /\ IsFiniteSet(M) /\ \A y \in M : y.id <= m
Replies == [mark : Nat, items : SUBSET Posts, old : BOOLEAN]

\* An answer under way has messages there have been, and a mark of this session
\* unless its own has ended.
FetchInv ==
    /\ Sent(missed, made) /\ answers \subseteq Replies
    /\ \A x \in answers : Sent(x.items, made) /\ (x.old \/ x.mark \in Known)

PaneInv ==
    /\ made \in Nat /\ ids \in Nat /\ mark \in Nat /\ unread \in Nat /\ unread <= made + 1
    /\ ids <= made /\ FetchInv
    /\ Fit(pane, made, made)
    /\ pane.lastSeenID \in Known /\ mark \in Known
    /\ Pane!Shown(pane) \subseteq Known
    /\ unread > 0 /\ disturbed = "no" => Waits(pane, unread)

\* What every action has to show of the pane it leaves
LEMMA SentOnes ==
    ASSUME NEW M, NEW m \in Nat, Sent(M, m), NEW n \in Nat, m <= n
    PROVE  Sent(M, n)
<1> SUFFICES ASSUME NEW y \in M PROVE y.id <= n
  BY Zenon DEF Sent
<1> DEFINE i == y.id
<1>1. i \in Nat /\ i <= m
  BY DEF Sent, Posts
<1> HIDE DEF i
<1>2. i <= n
  BY <1>1
<1> QED BY <1>2, Zenon DEF i

LEMMA FetchStays ==
    ASSUME PaneInv, made' \in Nat, made <= made', UNCHANGED Carried, reached \subseteq reached'
    PROVE  FetchInv'
<1> DEFINE n == made'
<1>1. n \in Nat /\ made \in Nat /\ made <= n
  BY Zenon DEF PaneInv
<1> HIDE DEF n
<1>2. \A M : Sent(M, made) => Sent(M, n)
  BY <1>1, SentOnes, Zenon
<1>3. UNCHANGED Carried /\ answers' = answers /\ adopted' = adopted
  OBVIOUS
<1>4. Known \subseteq Known'
  BY <1>3, Zenon DEF Known
<1> QED BY <1>2, <1>3, <1>4, Zenon DEF PaneInv, FetchInv, n

LEMMA Becoming ==
    ASSUME PaneInv, NEW p, Pane!Becomes(p), Fit(p, made', made'),
           p.lastSeenID \in Known \cup Pane!Shown(p), adopted' = adopted, FetchInv',
           made' \in Nat, ids' \in Nat, ids' <= made',
           unread' \in Nat, unread' <= made' + 1,
           unread' > 0 /\ disturbed' = "no" => Waits(p, unread')
    PROVE  PaneInv'
<1>1. pane' = p /\ reached' = reached \cup Pane!Shown(p)
  BY Zenon DEF Pane!Becomes
<1>2. mark' = mark \/ mark' = p.lastSeenID
  BY Zenon DEF Pane!Becomes, Pane!Larger
<1>3. mark' \in Known'
  BY <1>1, <1>2, Zenon DEF PaneInv, Known
<1>4. mark' \in Nat
  <2>1. p.lastSeenID \in Nat
    BY FitFields, Zenon
  <2> QED BY <1>2, <2>1, Zenon DEF PaneInv
<1>5. p.lastSeenID \in Known' /\ Pane!Shown(p) \subseteq Known'
  BY <1>1, Zenon DEF Known
<1> QED BY <1>1, <1>3, <1>4, <1>5, Zenon DEF PaneInv

\* What a key of the user does in the end: the pager is armed if the end is in view.
LEMMA Touching ==
    ASSUME PaneInv, NEW p, Fit(p, made, made), p.lastSeenID \in Known \cup Pane!Shown(p),
           NEW q, q = Pane!Arm(p), Pane!Becomes(q),
           unread' = IF Pane!AtBottom(q) THEN made + 1 ELSE 0,
           made' = made, ids' = ids, UNCHANGED Carried
    PROVE  PaneInv'
<1>1. made \in Nat /\ ids \in Nat /\ ids <= made
  BY Zenon DEF PaneInv
<1>2. /\ Fit(q, made, made) /\ Pane!Shown(q) = Pane!Shown(p) /\ q.lastSeenID = p.lastSeenID
      /\ Pane!AtBottom(q) => Waits(q, made + 1)
  <2>1. Fit(p, made, made) /\ q = Pane!Arm(p)
    OBVIOUS
  <2>2. made \in Nat
    BY <1>1, Zenon
  <2>3. Fit(q, made, made) /\ q.lastSeenID = p.lastSeenID
    BY ONLY <2>1, <2>2, ArmFits, Zenon
  <2>4. Pane!Shown(q) = Pane!Shown(p)
    BY ONLY <2>1, <2>2, ArmFits, Zenon
  <2>5. Pane!AtBottom(q) => Waits(q, made + 1)
    BY ONLY <2>1, <2>2, ArmFits, Zenon
  <2> QED BY <2>3, <2>4, <2>5, Zenon
<1>3. unread' \in Nat /\ unread' <= made' + 1
  BY <1>1
<1>4. unread' > 0 => Waits(q, unread')
  <2>1. CASE Pane!AtBottom(q)
    BY <1>2, <2>1, Zenon
  <2>2. CASE ~Pane!AtBottom(q)
    BY <2>2
  <2> QED BY <2>1, <2>2
<1>5. /\ Fit(q, made', made') /\ q.lastSeenID \in Known \cup Pane!Shown(q)
      /\ made' \in Nat /\ ids' \in Nat /\ ids' <= made'
  BY <1>1, <1>2, Zenon
<1>6. FetchInv' /\ adopted' = adopted
  <2>1. made' \in Nat /\ made <= made'
    BY <1>1
  <2>2. reached \subseteq reached' /\ adopted' = adopted
    BY <1>1, <1>2, Zenon DEF Pane!Becomes
  <2> QED BY <2>1, <2>2, FetchStays, Zenon
<1> QED BY <1>3, <1>4, <1>5, <1>6, Becoming, Zenon

LEMMA Disarmed ==
    ASSUME NEW p, NEW m, NEW i, Fit(p, m, i), NEW q, q = Pane!Disarm(p)
    PROVE  /\ Fit(q, m, i) /\ SameView(q, p) /\ Pane!Shown(q) = Pane!Shown(p)
           /\ q.lastSeenID = p.lastSeenID
<1>1. Fit(p, m, i) /\ -1 \in Anchors /\ q = Anchored(p, -1)
  BY DEF Pane!Disarm, Anchored, Anchors
<1> QED BY ONLY <1>1, AnchorFits, SMT

LEMMA SeenBefore ==
    ASSUME PaneInv
    PROVE  pane.lastSeenID \in Known /\ Fit(pane, made, made) /\ made \in Nat /\ ids \in Nat
BY Zenon DEF PaneInv

LEMMA ScrollBackKeeps ==
    ASSUME PaneInv, Pane!ScrollBack
    PROVE  PaneInv'
<1> DEFINE d == Pane!Disarm(pane)
<1>0. d = Pane!Disarm(pane)
  OBVIOUS
<1> HIDE DEF d
<1>1. Fit(d, made, made) /\ d.lastSeenID = pane.lastSeenID
  <2>1. Fit(pane, made, made)
    BY SeenBefore, Zenon
  <2> QED BY ONLY <1>0, <2>1, Disarmed, SMT
<1>2. PICK p \in Pane!Back(d) : Pane!Touched(Pane!Arm(p))
  BY <1>0, Zenon DEF Pane!ScrollBack
<1>3. PICK n \in Int : p = Pane!SetYOffset(d, n)
  <2>1. d.yOffset - d.height \in Int /\ d.yOffset - 1 \in Int /\ 0 \in Int
    <3>1. d.yOffset \in Nat /\ d.height \in Nat \ {0}
      BY <1>1, FitFields, Zenon
    <3> QED BY <3>1
  <2> QED BY <1>2, <2>1, Zenon DEF Pane!Back
<1>4. Fit(p, made, made) /\ p.lastSeenID = d.lastSeenID
  <2>1. n \in Int
    OBVIOUS
  <2> QED BY ONLY <1>1, <1>3, <2>1, MoveFits, SMT DEF SameMind
<1>5. p.lastSeenID \in Known \cup Pane!Shown(p)
  BY <1>1, <1>4, SeenBefore, Zenon
<1>6. /\ Pane!Becomes(Pane!Arm(p))
      /\ unread' = IF Pane!AtBottom(Pane!Arm(p)) THEN made + 1 ELSE 0
      /\ made' = made /\ ids' = ids /\ UNCHANGED Carried
  BY <1>2, Zenon DEF Pane!Touched, Pane!ScrollBack
<1> QED BY <1>4, <1>5, <1>6, Touching, Zenon

LEMMA AdvanceSeen ==
    ASSUME PaneInv, NEW p, Fit(p, made, made), p.lastSeenID = pane.lastSeenID, NEW q, q = Pane!Advance(p)
    PROVE  Fit(q, made, made) /\ q.lastSeenID \in Known \cup Pane!Shown(q)
<1>1. /\ Fit(p, made, made) /\ q = Pane!Advance(p) /\ made \in Nat
  BY Zenon DEF PaneInv
<1>2. /\ Fit(q, made, made) /\ Pane!Shown(q) = Pane!Shown(p)
      /\ q.lastSeenID \in Pane!Shown(p) \cup {p.lastSeenID}
  BY ONLY <1>1, AdvanceFits, SMT
<1> QED BY <1>2, SeenBefore, Zenon

LEMMA ScrollOnKeeps ==
    ASSUME PaneInv, Pane!ScrollOn
    PROVE  PaneInv'
<1> DEFINE d == Pane!Disarm(pane)
<1>0. d = Pane!Disarm(pane)
  OBVIOUS
<1> HIDE DEF d
<1>1. Fit(d, made, made) /\ d.lastSeenID = pane.lastSeenID
  <2>1. Fit(pane, made, made)
    BY SeenBefore, Zenon
  <2> QED BY ONLY <1>0, <2>1, Disarmed, SMT
<1>2. PICK p \in Pane!Forward(d) : Pane!Touched(Pane!Arm(Pane!Advance(p)))
  BY <1>0, Zenon DEF Pane!ScrollOn
<1>3. Fit(p, made, made) /\ p.lastSeenID = d.lastSeenID
  <2>1. d.yOffset + d.height \in Int /\ d.yOffset + 1 \in Int
    <3>1. d.yOffset \in Nat /\ d.height \in Nat \ {0}
      BY <1>1, FitFields, Zenon
    <3> QED BY <3>1
  <2>2. ASSUME NEW n \in Int, p = Pane!SetYOffset(d, n)
        PROVE  Fit(p, made, made) /\ p.lastSeenID = d.lastSeenID
    <3>1. n \in Int
      OBVIOUS
    <3> QED BY ONLY <1>1, <2>2, <3>1, MoveFits, SMT DEF SameMind
  <2>3. ASSUME p = Pane!GotoBottom(d)
        PROVE  Fit(p, made, made) /\ p.lastSeenID = d.lastSeenID
    BY <1>1, <2>3, BottomFits, Zenon DEF SameMind
  <2> QED BY <1>2, <2>1, <2>2, <2>3, Zenon DEF Pane!Forward
<1> DEFINE a == Pane!Advance(p)
<1>4. Fit(a, made, made) /\ a.lastSeenID \in Known \cup Pane!Shown(a)
  <2>1. p.lastSeenID = pane.lastSeenID
    BY <1>1, <1>3, Zenon
  <2> QED BY <1>3, <2>1, AdvanceSeen, Zenon
<1>5. /\ Pane!Becomes(Pane!Arm(a))
      /\ unread' = IF Pane!AtBottom(Pane!Arm(a)) THEN made + 1 ELSE 0
      /\ made' = made /\ ids' = ids /\ UNCHANGED Carried
  BY <1>2, Zenon DEF Pane!Touched, Pane!ScrollOn
<1> HIDE DEF a
<1> QED BY <1>4, <1>5, Touching, Zenon

LEMMA AdvancePagerKeeps ==
    ASSUME PaneInv, Pane!AdvancePager
    PROVE  PaneInv'
<1> DEFINE n == pane.yOffset + pane.height
           p == Pane!SetYOffset(pane, n)
           a == Pane!Advance(p)
           d == Pane!Disarm(a)
<1>1. Fit(pane, made, made) /\ n \in Int
  <2>1. pane.yOffset \in Nat /\ pane.height \in Nat \ {0} /\ Fit(pane, made, made)
    BY SeenBefore, FitFields, Zenon
  <2> QED BY <2>1
<1>2. p = Pane!SetYOffset(pane, n) /\ a = Pane!Advance(p) /\ d = Pane!Disarm(a)
  OBVIOUS
<1>6. /\ Pane!Becomes(Pane!Arm(d))
      /\ unread' = IF Pane!AtBottom(Pane!Arm(d)) THEN made + 1 ELSE 0
      /\ made' = made /\ ids' = ids /\ UNCHANGED Carried
  BY Zenon DEF Pane!Touched, Pane!AdvancePager
<1> HIDE DEF n, p, a, d
<1>3. Fit(p, made, made) /\ p.lastSeenID = pane.lastSeenID
  BY ONLY <1>1, <1>2, MoveFits, SMT DEF SameMind
<1>4. Fit(a, made, made) /\ a.lastSeenID \in Known \cup Pane!Shown(a)
  BY <1>2, <1>3, AdvanceSeen, Zenon
<1>5. Fit(d, made, made) /\ Pane!Shown(d) = Pane!Shown(a) /\ d.lastSeenID = a.lastSeenID
  BY ONLY <1>2, <1>4, Disarmed, SMT
<1>7. d.lastSeenID \in Known \cup Pane!Shown(d)
  BY <1>4, <1>5, Zenon
<1> QED BY <1>5, <1>6, <1>7, Touching, Zenon

LEMMA HeightIsNat ==
    ASSUME Pane!PaneAssumption
    PROVE  Pane!Heights \subseteq Nat \ {0} /\ Screen \in Pane!Heights
BY DEF Pane!PaneAssumption, Pane!Heights

LEMMA TypeKeeps ==
    ASSUME Pane!PaneAssumption, PaneInv, NEW h \in Pane!Heights, Pane!Type(h)
    PROVE  PaneInv'
<1> DEFINE p == Pane!MaybeResize(pane, h)
<1>1. p = Pane!MaybeResize(pane, h) /\ h \in Nat \ {0} /\ Fit(pane, made, made) /\ Pane!PaneAssumption
  BY HeightIsNat, SeenBefore, Zenon
<1>2. /\ Pane!Becomes(Pane!Arm(p))
      /\ unread' = IF Pane!AtBottom(Pane!Arm(p)) THEN made + 1 ELSE 0
      /\ made' = made /\ ids' = ids /\ UNCHANGED Carried
  BY Zenon DEF Pane!AfterTyping, Pane!Type
<1> HIDE DEF p
<1>3. Fit(p, made, made) /\ p.lastSeenID = pane.lastSeenID
  BY ONLY <1>1, MaybeFits, SMT
<1>4. p.lastSeenID \in Known \cup Pane!Shown(p)
  BY <1>3, SeenBefore, Zenon
<1> QED BY <1>2, <1>3, <1>4, Touching, Zenon

LEMMA ToggleDebugKeeps ==
    ASSUME Pane!PaneAssumption, PaneInv, Pane!ToggleDebug
    PROVE  PaneInv'
<1>0. PICK w \in Pane!Widths \ {pane.width} :
         Pane!AfterTyping(Pane!Arm(Pane!Resize(Pane!Rewidth(pane, w), pane.height)))
  BY Zenon DEF Pane!ToggleDebug
<1> DEFINE x == Pane!Rewidth(pane, w)
           h == pane.height
           p == Pane!Resize(x, h)
<1>1. /\ x = Pane!Rewidth(pane, w) /\ p = Pane!Resize(x, h) /\ h \in Nat \ {0} /\ w \in Pane!Widths
      /\ Fit(pane, made, made) /\ Pane!PaneAssumption
  BY FitFields, SeenBefore, Zenon
<1>2. /\ Pane!Becomes(Pane!Arm(p))
      /\ unread' = IF Pane!AtBottom(Pane!Arm(p)) THEN made + 1 ELSE 0
      /\ made' = made /\ ids' = ids /\ UNCHANGED Carried
  BY <1>0, Zenon DEF Pane!AfterTyping, Pane!ToggleDebug
<1> HIDE DEF x, p, h
<1>3. Resizable(x, made, made) /\ x.lastSeenID = pane.lastSeenID
  BY ONLY <1>1, RewidthResizes, SMT
<1>4. Fit(p, made, made) /\ p.lastSeenID = x.lastSeenID
  BY ONLY <1>1, <1>3, ResizeFits, SMT
<1>5. p.lastSeenID \in Known \cup Pane!Shown(p)
  BY <1>3, <1>4, SeenBefore, Zenon
<1> QED BY <1>2, <1>4, <1>5, Touching, Zenon

Paging(p, on) == [p EXCEPT !.pagerEnabled = on]

\* What a submit leaves before the answer: armed at the end, if that was in view
LEMMA SubmitArms ==
    ASSUME Pane!PaneAssumption, PaneInv, NEW on \in BOOLEAN,
           NEW p, p = Pane!MaybeResize(Pane!Anchored(pane), Screen),
           NEW q, q = Paging(p, on)
    PROVE  /\ Fit(q, made, made) /\ q.lastSeenID = pane.lastSeenID
           /\ Pane!AtBottom(pane) => Waits(q, made + 1)
<1> DEFINE a == IF Pane!AtBottom(pane) THEN Pane!Total(pane) ELSE -1
           o == Anchored(pane, a)
<1>0. /\ Fit(pane, made, made) /\ made \in Nat /\ pane \in Panes /\ Len(pane.lines) \in Nat
      /\ Screen \in Nat \ {0} /\ Pane!PaneAssumption
  BY SeenBefore, FitFields, HeightIsNat, Zenon
<1>1. a \in Anchors /\ Pane!Total(pane) = Len(pane.lines)
  BY <1>0 DEF Anchors, Pane!Total
<1>2. o = Pane!Anchored(pane)
  BY Zenon DEF Pane!Anchored, Anchored
<1>3. o = Anchored(pane, a)
  OBVIOUS
<1>4. Pane!AtBottom(pane) => a = Len(pane.lines)
  BY <1>1, Zenon
<1> HIDE DEF a, o
<1>5. /\ Fit(o, made, made) /\ SameView(o, pane) /\ o.autoPageAnchor = a
      /\ o.lastSeenID = pane.lastSeenID /\ (Pane!AtBottom(o) <=> Pane!AtBottom(pane))
  BY ONLY <1>0, <1>1, <1>3, AnchorFits, SMT
<1>6. p = Pane!MaybeResize(o, Screen)
  BY <1>2, Zenon
<1>7. /\ Fit(p, made, made) /\ p.lastSeenID = o.lastSeenID
      /\ Pane!AtBottom(o) => Pane!AtBottom(p)
  BY ONLY <1>0, <1>5, <1>6, MaybeFits, SMT
<1>8. p \in Panes /\ p.autoPageAnchor \in Anchors /\ p.lastSeenID \in Nat
  BY <1>7, FitFields, Zenon DEF Anchors
<1>9. q = Minded(p, p.autoPageAnchor, p.lastSeenID, on)
  BY <1>8 DEF Minded, Panes, Paging
<1>10. on \in BOOLEAN
  OBVIOUS
<1>11. /\ Fit(q, made, made) /\ SameView(q, p) /\ q.autoPageAnchor = p.autoPageAnchor
       /\ q.lastSeenID = p.lastSeenID /\ (Pane!AtBottom(q) <=> Pane!AtBottom(p))
  BY ONLY <1>7, <1>8, <1>9, <1>10, MindFits, SMT
<1>12. ASSUME Pane!AtBottom(pane) PROVE Waits(q, made + 1)
  <2>1. o.autoPageAnchor = Len(o.lines) /\ Pane!AtBottom(o)
    BY <1>4, <1>5, <1>12, Zenon DEF SameView, SameText
  <2>2. p.autoPageAnchor = Len(p.lines)
    BY ONLY <1>0, <1>5, <1>6, <2>1, MaybeStaysArmed, SMT
  <2>3. Pane!AtBottom(q) /\ q.autoPageAnchor = Len(q.lines)
    BY <1>7, <1>11, <2>1, <2>2, Zenon DEF SameView, SameText
  <2> QED BY ONLY <1>0, <1>11, <2>3, ArmedWaits, SMT
<1> QED BY <1>5, <1>7, <1>11, <1>12, Zenon

\* Items that were just made
LEMMA NoneMade ==
    ASSUME NEW o \in Panes
    PROVE  /\ <<>> \in Seq(Items) /\ Extends(o, o, <<>>)
           /\ \A m, i \in Nat : Numbered(<<>>, m, i) /\ Newer(<<>>, m)
<1>1. o.output \in Seq(Items)
  BY PaneFields, Zenon
<1>2. o.output = o.output \o <<>>
  BY <1>1
<1>3. <<>> \in Seq(Items) /\ 1..Len(<<>>) = {}
  OBVIOUS
<1>4. \A m, i \in Nat : Numbered(<<>>, m, i) /\ Newer(<<>>, m)
  BY <1>3, Zenon DEF Numbered, Newer
<1> QED BY <1>2, <1>3, <1>4, Zenon DEF Extends

LEMMA ItemMade ==
    ASSUME NEW n \in Nat, NEW id \in Nat, NEW size \in Nat \ {0}
    PROVE  /\ Pane!Item(n, id, size) \in Items
           /\ Pane!Item(n, id, size).n = n /\ Pane!Item(n, id, size).id = id
BY DEF Pane!Item, Items

LEMMA OneMade ==
    ASSUME NEW m \in Nat, NEW i \in Nat, NEW id \in 0..i, NEW size \in Nat \ {0},
           NEW items, items = <<Pane!Item(m + 1, id, size)>>
    PROVE  items \in Seq(Items) /\ Numbered(items, m + 1, i) /\ Newer(items, m)
           /\ Len(items) = 1 /\ items[1].id = id
<1> DEFINE x == Pane!Item(m + 1, id, size)
<1>1. x \in Items /\ x.n = m + 1 /\ x.id = id
  BY ItemMade
<1>2. items = <<x>>
  OBVIOUS
<1> HIDE DEF x
<1>3. items \in Seq(Items) /\ Len(items) = 1 /\ items[1] = x
  BY ONLY <1>1, <1>2
<1>4. \A j \in 1..Len(items) : items[j] = x
  BY <1>3
<1>5. x.n > m /\ x.n <= m + 1 /\ x.id <= i /\ \A j, k \in 1..Len(items) : ~(j < k)
  BY <1>1, <1>3
<1> QED BY <1>1, <1>3, <1>4, <1>5, Zenon DEF Numbered, Newer

Answer(m) == <<Pane!Item(m + 1, 0, 1), Pane!Item(m + 2, 0, 1)>>
LEMMA TwoMade ==
    ASSUME NEW m \in Nat, NEW i \in Nat, NEW items, items = Answer(m)
    PROVE  items \in Seq(Items) /\ Numbered(items, m + 2, i) /\ Newer(items, m)
<1> DEFINE x == Pane!Item(m + 1, 0, 1)
           y == Pane!Item(m + 2, 0, 1)
<1>1. x \in Items /\ x.n = m + 1 /\ x.id = 0 /\ y \in Items /\ y.n = m + 2 /\ y.id = 0
  BY ItemMade
<1>2. items = <<x, y>>
  BY Zenon DEF Answer
<1> HIDE DEF x, y
<1>3. items \in Seq(Items) /\ Len(items) = 2 /\ items[1] = x /\ items[2] = y
  BY ONLY <1>1, <1>2
<1>4. \A j \in 1..Len(items) : j = 1 \/ j = 2
  BY <1>3
<1>5. \A j \in 1..Len(items) : items[j].n > m /\ items[j].n <= m + 2 /\ items[j].id <= i
  <2>1. /\ x.n > m /\ x.n <= m + 2 /\ x.id <= i
        /\ y.n > m /\ y.n <= m + 2 /\ y.id <= i
    BY <1>1
  <2> QED BY <1>3, <1>4, <2>1, Zenon
<1>6. \A j, k \in 1..Len(items) : j < k => items[k].n > items[j].n
  <2> SUFFICES ASSUME NEW j \in 1..Len(items), NEW k \in 1..Len(items), j < k
               PROVE  items[k].n > items[j].n
    OBVIOUS
  <2>1. j = 1 /\ k = 2
    BY <1>3
  <2>2. y.n > x.n
    BY <1>1
  <2> QED BY <1>3, <2>1, <2>2, Zenon
<1> QED BY <1>3, <1>5, <1>6, Zenon DEF Numbered, Newer

LEMMA SubmitKeeps ==
    ASSUME Pane!PaneAssumption, PaneInv, NEW local \in BOOLEAN, NEW on \in BOOLEAN,
           Pane!Submit(local, on)
    PROVE  PaneInv'
<1> DEFINE p == Pane!MaybeResize(Pane!Anchored(pane), Screen)
           q == Paging(p, on)
           two == Answer(made)
           x == IF local THEN Pane!Appended(q, two) ELSE q
           r == Pane!Sync(x)
           n == IF local THEN made + 2 ELSE made
           items == IF local THEN two ELSE <<>>
<1>0. /\ p = Pane!MaybeResize(Pane!Anchored(pane), Screen) /\ q = Paging(p, on)
      /\ two = Answer(made) /\ r = Pane!Sync(x)
  OBVIOUS
<1>15. x = IF local THEN Pane!Appended(q, two) ELSE q
  OBVIOUS
<1>1. /\ Pane!Becomes(r) /\ made' = n
      /\ unread' = IF Pane!AtBottom(pane) THEN made + 1 ELSE 0
      /\ ids' = ids /\ UNCHANGED Carried
  <2>1. CASE local
    BY <2>1, Zenon DEF Pane!Submit, Paging, Answer
  <2>2. CASE ~local
    BY <2>2, Zenon DEF Pane!Submit, Paging
  <2> QED BY <2>1, <2>2
<1>2. n = IF local THEN made + 2 ELSE made
  OBVIOUS
<1>14. items = IF local THEN two ELSE <<>>
  OBVIOUS
<1> HIDE DEF p, q, x, r, n, two, items
<1>3. made \in Nat /\ ids \in Nat /\ ids <= made
  BY Zenon DEF PaneInv
<1>4. n \in Nat /\ made <= n
  BY <1>2, <1>3
<1>5. /\ Fit(q, made, made) /\ q.lastSeenID = pane.lastSeenID
      /\ Pane!AtBottom(pane) => Waits(q, made + 1)
  <2>1. Pane!PaneAssumption /\ PaneInv /\ on \in BOOLEAN
    OBVIOUS
  <2> QED BY ONLY <1>0, <2>1, SubmitArms, SMT
<1>6. /\ items \in Seq(Items) /\ Extends(x, q, items) /\ x.lastSeenID = q.lastSeenID
      /\ Numbered(items, n, n) /\ Newer(items, made)
  <2>1. q \in Panes
    BY <1>5, FitFields, Zenon
  <2>2. CASE local
    <3>1. two \in Seq(Items) /\ Numbered(two, made + 2, made + 2) /\ Newer(two, made)
      BY ONLY <1>0, <1>3, TwoMade, SMT
    <3>2. Extends(x, q, two) /\ x.lastSeenID = q.lastSeenID
      <4>1. x = Pane!Appended(q, two)
        BY <1>15, <2>2, Zenon
      <4> QED BY ONLY <2>1, <3>1, <4>1, AppendedExtends, SMT
    <3> QED BY <1>2, <1>14, <2>2, <3>1, <3>2, Zenon
  <2>3. CASE ~local
    <3>1. x = q /\ n = made /\ items = <<>>
      BY <1>2, <1>14, <1>15, <2>3, Zenon
    <3> QED BY <1>3, <2>1, <3>1, NoneMade, Zenon
  <2> QED BY <2>2, <2>3
<1>7. ids <= ids /\ made + 1 \in Nat /\ made + 1 <= made + 1
  BY <1>3
<1>8. Fit(r, n, n) /\ r.lastSeenID = x.lastSeenID
  <2>1. Pane!PaneAssumption
    OBVIOUS
  <2> QED BY ONLY <1>0, <1>3, <1>4, <1>5, <1>6, <1>7, <2>1, ExtendedSyncs, SMT
<1>9. Pane!AtBottom(pane) => Waits(r, made + 1)
  <2> SUFFICES ASSUME Pane!AtBottom(pane) PROVE Waits(r, made + 1)
    OBVIOUS
  <2>1. Pane!PaneAssumption /\ Waits(q, made + 1)
    BY <1>5, Zenon
  <2> QED BY ONLY <1>0, <1>3, <1>5, <1>6, <1>7, <2>1, ExtendedWaits, SMT
<1>10. unread' \in Nat /\ unread' <= made' + 1 /\ made' \in Nat /\ ids' \in Nat /\ ids' <= made'
  BY <1>1, <1>3, <1>4
<1>11. unread' > 0 => Waits(r, unread')
  <2>1. CASE Pane!AtBottom(pane)
    BY <1>1, <1>9, <2>1, Zenon
  <2>2. CASE ~Pane!AtBottom(pane)
    BY <1>1, <2>2
  <2> QED BY <2>1, <2>2
<1>12. FetchInv' /\ adopted' = adopted
  <2>1. made' \in Nat /\ made <= made'
    BY <1>1, <1>3, <1>4
  <2>2. reached \subseteq reached' /\ adopted' = adopted
    BY <1>1, <1>2, Zenon DEF Pane!Becomes
  <2> QED BY <1>1, <2>1, <2>2, FetchStays, Zenon
<1>13. r.lastSeenID \in Known \cup Pane!Shown(r)
  BY <1>5, <1>6, <1>8, SeenBefore, Zenon
<1> QED BY <1>1, <1>8, <1>10, <1>11, <1>12, <1>13, Becoming, Zenon

LEMMA NumbersGrow ==
    ASSUME NEW s \in Seq(Items), NEW m \in Nat, NEW i \in Nat, Numbered(s, m, i),
           NEW n \in Nat, NEW x \in Nat, m <= n, i <= x
    PROVE  Numbered(s, n, x)
<1> SUFFICES ASSUME NEW j \in 1..Len(s) PROVE s[j].n <= n /\ s[j].id <= x
  BY Zenon DEF Numbered
<1> DEFINE a == s[j].n
           b == s[j].id
<1>1. a \in Nat /\ b \in Nat /\ a <= m /\ b <= i
  BY ItemAt, Zenon DEF Numbered
<1> HIDE DEF a, b
<1>2. a <= n /\ b <= x
  BY <1>1
<1> QED BY <1>2, Zenon DEF a, b

LEMMA FitGrows ==
    ASSUME NEW p, NEW m \in Nat, NEW i \in Nat, Fit(p, m, i),
           NEW n \in Nat, NEW x \in Nat, m <= n, i <= x
    PROVE  Fit(p, n, x)
<1>1. p.output \in Seq(Items) /\ Numbered(p.output, m, i)
  BY FitFields, Zenon DEF Fit, Numbered
<1>2. Numbered(p.output, n, x)
  BY <1>1, NumbersGrow, Zenon
<1> QED BY <1>2, Zenon DEF Fit, Numbered

\* New items that nobody asked for leave the user's end of the output alone.
LEMMA Arriving ==
    ASSUME Pane!PaneAssumption, PaneInv, NEW items \in Seq(Items), NEW p, Extends(p, pane, items),
           made' \in Nat, ids' \in Nat, made <= made', ids' <= made',
           Numbered(items, made', made'), Newer(items, made), UNCHANGED Carried,
           NEW q, q = Pane!Sync(p), Pane!Untouched(q),
           p.lastSeenID \in Known \cup Pane!Shown(q)
    PROVE  PaneInv'
<1>1. /\ Fit(pane, made, made) /\ made \in Nat /\ ids \in Nat /\ unread \in Nat /\ unread <= made + 1
      /\ Pane!PaneAssumption
      /\ items \in Seq(Items) /\ Extends(p, pane, items) /\ q = Pane!Sync(p)
      /\ Newer(items, made)
  BY Zenon DEF PaneInv
<1> DEFINE n == made'
<1>2. n \in Nat /\ made <= n /\ Numbered(items, n, n)
  OBVIOUS
<1> HIDE DEF n
<1>3. Fit(q, n, n) /\ q.lastSeenID = p.lastSeenID
  BY ONLY <1>1, <1>2, ExtendedSyncs, SMT
<1>4. Waits(pane, unread) => Waits(q, unread)
  BY ONLY <1>1, ExtendedWaits, SMT
<1>5. Pane!Becomes(q) /\ unread' = unread /\ disturbed' = disturbed
  BY Zenon DEF Pane!Untouched
<1>6. unread <= n + 1
  BY <1>1, <1>2
<1>7. unread' > 0 /\ disturbed' = "no" => Waits(q, unread')
  BY <1>4, <1>5, Zenon DEF PaneInv
<1>8. FetchInv' /\ adopted' = adopted
  <2>1. made' \in Nat /\ made <= made'
    BY <1>5
  <2>2. reached \subseteq reached' /\ adopted' = adopted
    BY <1>1, <1>5, Zenon DEF Pane!Becomes
  <2> QED BY <2>1, <2>2, FetchStays, Zenon
<1>9. q.lastSeenID \in Known \cup Pane!Shown(q)
  BY <1>3, Zenon
<1> QED BY <1>1, <1>2, <1>3, <1>5, <1>6, <1>7, <1>8, <1>9, Becoming, Zenon DEF n

LEMMA NoteKeeps ==
    ASSUME Pane!PaneAssumption, PaneInv, Pane!Note
    PROVE  PaneInv'
<1> DEFINE items == <<Pane!Item(made + 1, 0, 1)>>
           p == Pane!Appended(pane, items)
           q == Pane!Sync(p)
<1>1. /\ made \in Nat /\ ids \in Nat /\ ids <= made /\ pane \in Panes /\ Pane!PaneAssumption /\ PaneInv
      /\ pane.lastSeenID \in Known
  BY SeenBefore, FitFields, Zenon DEF PaneInv
<1>2. items = <<Pane!Item(made + 1, 0, 1)>>
  OBVIOUS
<1>9. p = Pane!Appended(pane, items)
  OBVIOUS
<1>10. q = Pane!Sync(p)
  OBVIOUS
<1>3. made' = made + 1 /\ Pane!Untouched(q) /\ ids' = ids /\ UNCHANGED Carried
  BY Zenon DEF Pane!Note
<1> HIDE DEF items, p, q
<1>4. 0 \in 0..made + 1 /\ 1 \in Nat \ {0} /\ made + 1 \in Nat
  BY <1>1
<1>5. items \in Seq(Items) /\ Numbered(items, made + 1, made + 1) /\ Newer(items, made)
  BY ONLY <1>1, <1>2, <1>4, OneMade, SMT
<1>6. Extends(p, pane, items) /\ p.lastSeenID = pane.lastSeenID
  <2>1. pane \in Panes /\ items \in Seq(Items)
    BY <1>1, <1>5, Zenon
  <2> QED BY ONLY <1>9, <2>1, AppendedExtends, SMT
<1>7. made' \in Nat /\ ids' \in Nat /\ made <= made' /\ ids' <= made' /\ Numbered(items, made', made')
  <2>1. made + 1 \in Nat /\ made <= made + 1 /\ ids <= made + 1
    BY <1>1
  <2> QED BY <1>1, <1>3, <1>5, <2>1, Zenon
<1>8. p.lastSeenID \in Known \cup Pane!Shown(q)
  BY <1>1, <1>6, Zenon
<1> QED BY <1>3, <1>5, <1>6, <1>7, <1>8, <1>10, Arriving, Zenon

\* A message counts as seen, before the view has it, only where the view shows it after.
LEMMA ReceiveSees ==
    ASSUME Pane!PaneAssumption, PaneInv, NEW size \in Nat \ {0},
           NEW items, items = <<Pane!Item(made + 1, ids + 1, size)>>,
           NEW a, a = Pane!Appended(pane, items), NEW p, p = Pane!Advance(a), NEW q, q = Pane!Sync(p)
    PROVE  /\ items \in Seq(Items) /\ Numbered(items, made + 1, made + 1) /\ Newer(items, made)
           /\ Extends(p, pane, items)
           /\ p.lastSeenID \in Known \cup Pane!Shown(q)
<1> DEFINE z == ids + 1
           m == made + 1
           i == m
<1>1. /\ made \in Nat /\ ids \in Nat /\ pane \in Panes /\ Pane!PaneAssumption /\ Fit(pane, made, made)
      /\ pane.lastSeenID \in Known /\ Pane!Shown(pane) \subseteq Known
  BY FitFields, Zenon DEF PaneInv
<1>0. ids <= made
  BY Zenon DEF PaneInv
<1>2. i \in Nat /\ m \in Nat /\ made <= m /\ made <= i /\ z \in 0..i /\ z = ids + 1 /\ m = made + 1 /\ i = m
  BY <1>0, <1>1
<1> HIDE DEF i, m, z
<1>3. items = <<Pane!Item(made + 1, z, size)>> /\ size \in Nat \ {0}
  BY <1>2, Zenon
<1>4. /\ items \in Seq(Items) /\ Numbered(items, m, i) /\ Newer(items, made)
      /\ Len(items) = 1 /\ items[1].id = z
  BY ONLY <1>1, <1>2, <1>3, OneMade, SMT
<1>5. a = Pane!Appended(pane, items) /\ p = Pane!Advance(a) /\ q = Pane!Sync(p)
  OBVIOUS
<1>6. Extends(a, pane, items) /\ a.lastSeenID = pane.lastSeenID
  BY ONLY <1>1, <1>4, <1>5, AppendedExtends, SMT
<1>7. a \in Panes /\ a.output = pane.output \o items /\ a.output \in Seq(Items)
  BY <1>6, PaneFields, Zenon DEF Extends
<1>8. \A j \in 1..Len(a.output) : a.output[j].id <= i
  <2> SUFFICES ASSUME NEW j \in 1..Len(a.output) PROVE a.output[j].id <= i
    OBVIOUS
  <2>1. \/ j \in 1..Len(pane.output) /\ a.output[j] = pane.output[j]
        \/ /\ j > Len(pane.output) /\ j - Len(pane.output) \in 1..Len(items)
           /\ a.output[j] = items[j - Len(pane.output)]
    <3>1. /\ Fit(pane, made, made) /\ items \in Seq(Items) /\ Extends(a, pane, items)
          /\ j \in 1..Len(a.output)
      BY <1>1, <1>4, <1>6, Zenon
    <3> QED BY ONLY <3>1, ExtendedItem, ZenonT(30)
  <2>2. CASE j \in 1..Len(pane.output) /\ a.output[j] = pane.output[j]
    <3> DEFINE y == pane.output[j].id
    <3>1. y <= made /\ y \in Nat
      <4>1. pane.output \in Seq(Items)
        BY <1>1, PaneFields, Zenon
      <4> QED BY <1>1, <2>2, <4>1, ItemAt, Zenon DEF Fit
    <3> HIDE DEF y
    <3>2. y <= i
      BY <1>1, <1>2, <3>1
    <3> QED BY <2>2, <3>2, Zenon DEF y
  <2>3. CASE j - Len(pane.output) \in 1..Len(items) /\ a.output[j] = items[j - Len(pane.output)]
    BY <1>4, <2>3, Zenon DEF Numbered
  <2> QED BY <2>1, <2>2, <2>3
<1>9. PICK x \in Nat : /\ p = Minded(a, a.autoPageAnchor, x, a.pagerEnabled)
                       /\ x \in SeenIds(a) \cup {a.lastSeenID}
  BY <1>2, <1>5, <1>7, <1>8, Advanced, Zenon
<1>10. /\ p \in Panes /\ p.output = a.output /\ p.lines = a.lines /\ p.width = a.width
       /\ p.stale = a.stale /\ p.syncedItems = a.syncedItems /\ p.yOffset = a.yOffset
       /\ p.height = a.height /\ p.scrollAnchor = a.scrollAnchor
       /\ p.pagerEnabled = a.pagerEnabled /\ p.autoPageAnchor = a.autoPageAnchor
       /\ p.lastSeenID = x
  <2>1. x \in Nat /\ p = Minded(a, a.autoPageAnchor, x, a.pagerEnabled)
    BY <1>9, Zenon
  <2> QED BY ONLY <1>7, <2>1 DEF Minded, Panes
<1>11. Extends(p, pane, items)
  BY <1>6, <1>10, Zenon DEF Extends
<1>12. /\ Fit(q, m, i) /\ q.height = p.height /\ ItemsOf(q, p)
       /\ Len(q.lines) <= Len(Pane!Render(p.output, p.width))
  BY ONLY <1>1, <1>2, <1>4, <1>5, <1>11, ExtendedSyncs, SMT
<1> DEFINE s == pane.output
           w == pane.width
           N == Len(s)
           T == Len(pane.lines)
           Z == Len(Pane!Render(a.output, w))
           y == pane.yOffset
           h == pane.height
<1>13. /\ s \in Seq(Items) /\ w \in Pane!Widths /\ N \in Nat \ {0} /\ T \in Nat
       /\ y \in Nat /\ h \in Nat \ {0} /\ T = Len(Pane!Render(s, w))
       /\ y <= Pane!MaxYOffset(pane) /\ Pane!MaxYOffset(pane) = (IF T > h THEN T - h ELSE 0)
       /\ a.width = w /\ a.yOffset = y /\ a.height = h
  BY <1>1, <1>6, FitFields, GreatestOffset, Zenon DEF Extends
<1>14. /\ Len(a.output) = N + 1 /\ a.output[N + 1] = items[1]
       /\ SubSeq(a.output, 1, N) = s
  <2>1. /\ Len(s \o items) = N + Len(items)
        /\ \A j \in N + 1..N + Len(items) : (s \o items)[j] = items[j - N]
        /\ SubSeq(s \o items, 1, N) = s
    BY <1>4, <1>13, ItemsJoined, Zenon
  <2>2. N + 1 \in N + 1..N + 1 /\ (N + 1) - N = 1
    <3> HIDE DEF N
    <3> QED BY <1>13
  <2> HIDE DEF s, N
  <2> QED BY <1>4, <1>7, <2>1, <2>2, Zenon DEF s
<1>15. /\ \A j \in 1..N : Pane!Upto(a, j) = Pane!Upto(pane, j) /\ a.output[j] = s[j]
       /\ Pane!Upto(a, N + 1) = Z /\ Z \in Nat /\ T < Z
  <2>1. \A j \in 1..N : SubSeq(a.output, 1, j) = SubSeq(s, 1, j) /\ a.output[j] = s[j]
    <3> SUFFICES ASSUME NEW j \in 1..N
                 PROVE  SubSeq(a.output, 1, j) = SubSeq(s, 1, j) /\ a.output[j] = s[j]
      OBVIOUS
    <3>1. j \in Nat /\ j <= N /\ N \in Nat /\ N <= N + 1
      <4> HIDE DEF N
      <4> QED BY <1>13
    <3>2. SubSeq(SubSeq(a.output, 1, N), 1, j) = SubSeq(a.output, 1, j)
      <4> DEFINE o == a.output
      <4>1. o \in Seq(Items) /\ N <= Len(o)
        BY <1>7, <1>14, <3>1, Zenon
      <4> HIDE DEF N, o
      <4>2. SubSeq(SubSeq(o, 1, N), 1, j) = SubSeq(o, 1, j)
        BY ONLY <3>1, <4>1
      <4> QED BY <4>2, Zenon DEF o
    <3>3. a.output[j] = s[j]
      <4>1. \A k \in 1..Len(s) : (s \o items)[k] = s[k]
        BY <1>4, <1>13, ItemsJoined, Zenon
      <4> QED BY <1>7, <4>1, Zenon
    <3> QED BY <1>14, <3>2, <3>3, Zenon
  <2>2. \A j \in 1..N : Pane!Upto(a, j) = Pane!Upto(pane, j)
    BY <1>13, <2>1, Zenon DEF Pane!Upto
  <2>3. SubSeq(a.output, 1, N + 1) = a.output
    <3> DEFINE o == a.output
               k == N + 1
    <3>1. o \in Seq(Items) /\ Len(o) = k
      BY <1>7, <1>14, Zenon
    <3> HIDE DEF o, k
    <3>2. SubSeq(o, 1, k) = o
      BY <3>1
    <3> QED BY <3>2, Zenon DEF o, k
  <2>4. Pane!Upto(a, N + 1) = Z
    BY <1>13, <2>3, Zenon DEF Pane!Upto
  <2>5. Z \in Nat /\ T < Z
    <3> DEFINE k == N + 1
    <3>1. k = Len(a.output) /\ N \in 0..k /\ k \in 0..k /\ N < k
      <4>1. k = Len(a.output)
        BY <1>14, Zenon
      <4>2. N \in 0..k /\ k \in 0..k /\ N < k
        <5> HIDE DEF N
        <5> QED BY <1>13
      <4> QED BY <4>1, <4>2, Zenon
    <3> HIDE DEF k
    <3>2. /\ RowsUpto(a.output, w, N) < RowsUpto(a.output, w, k)
          /\ RowsUpto(a.output, w, k) \in Nat
          /\ RowsUpto(a.output, w, k) = Z
      BY <1>7, <1>13, <3>1, RowsGrow, Zenon
    <3>3. RowsUpto(a.output, w, N) = T
      BY <1>13, <1>14, Zenon DEF RowsUpto
    <3> QED BY <3>2, <3>3, Zenon
  <2> QED BY <2>1, <2>2, <2>4, <2>5, Zenon
<1>16. ASSUME NEW j \in DOMAIN a.output, Pane!Upto(a, j) <= y + h
       PROVE  a.output[j].id \in Pane!Shown(pane) \cup Pane!Shown(q)
  <2>1. j \in 1..N \/ j = N + 1
    <3>1. j \in 1..N + 1
      BY <1>7, <1>14, LenProperties, Zenon
    <3> HIDE DEF N
    <3> QED BY <1>13, <3>1
  <2>2. CASE j \in 1..N
    <3>1. Pane!Upto(pane, j) <= pane.yOffset + pane.height /\ j \in 1..Len(pane.output)
      BY <1>15, <1>16, <2>2, Zenon
    <3>2. pane.output[j].id \in Pane!Shown(pane)
      BY <1>1, <3>1, InViewIsShown, Zenon
    <3> QED BY <1>15, <2>2, <3>2, Zenon
  <2>3. CASE j = N + 1
    <3>1. Z <= y + h
      BY <1>15, <1>16, <2>3, Zenon
    <3>2. Z <= h
      <4> DEFINE x0 == Pane!MaxYOffset(pane)
      <4>1. x0 = (IF T > h THEN T - h ELSE 0) /\ y <= x0
        BY <1>13, Zenon
      <4> HIDE DEF x0, T, h, y, Z
      <4> QED BY <1>13, <1>15, <3>1, <4>1
    <3>3. Len(q.lines) <= q.height
      <4> DEFINE k == Len(q.lines)
      <4>1. k <= Z /\ q.height = h /\ k \in Nat
        BY <1>10, <1>12, <1>13, FitFields, Zenon
      <4> HIDE DEF k, Z, h
      <4>2. k <= h
        BY <1>13, <1>15, <3>2, <4>1
      <4> QED BY <4>1, <4>2, Zenon DEF k
    <3>4. Len(q.output) \in 1..Len(q.output)
      <4> DEFINE k == Len(q.output)
      <4>1. k \in Nat \ {0}
        BY <1>12, FitFields, Zenon
      <4> HIDE DEF k
      <4>2. k \in 1..k
        BY <4>1
      <4> QED BY <4>2, Zenon DEF k
    <3>5. q.output[Len(q.output)].id \in Pane!Shown(q)
      BY <1>12, <3>3, <3>4, AllIsShown, Zenon
    <3>6. q.output[Len(q.output)] = a.output[j]
      <4>1. q.output[Len(q.output)] = p.output[Len(p.output)]
        BY <1>12, Zenon DEF ItemsOf
      <4>2. p.output = a.output /\ Len(a.output) = j
        BY <1>10, <1>14, <2>3, Zenon
      <4> QED BY ONLY <4>1, <4>2, Zenon
    <3> QED BY <3>5, <3>6, Zenon
  <2> QED BY <2>1, <2>2, <2>3
<1>17. x \in Known \cup Pane!Shown(q)
  <2>1. CASE x = a.lastSeenID
    BY <1>1, <1>6, <2>1, Zenon
  <2>2. CASE x \in SeenIds(a)
    <3>1. PICK j \in DOMAIN a.output : x = a.output[j].id /\ Pane!Upto(a, j) <= a.yOffset + a.height
      BY <2>2, Zenon DEF SeenIds, Pane!InView
    <3>2. a.output[j].id \in Pane!Shown(pane) \cup Pane!Shown(q)
      BY <1>13, <1>16, <3>1, Zenon
    <3> QED BY <1>1, <3>1, <3>2, Zenon
  <2> QED BY <1>9, <2>1, <2>2, Zenon
<1> QED BY <1>2, <1>4, <1>10, <1>11, <1>17, Zenon

\* What leaves the pane's new mark among what was seen, and the user's end alone
LEMMA Resizing ==
    ASSUME PaneInv, NEW p, Fit(p, made, made), p.lastSeenID \in Known \cup Pane!Shown(p),
           Pane!Resized(p), made' = made, ids' = ids, UNCHANGED Carried
    PROVE  PaneInv'
<1>1. /\ made \in Nat /\ ids \in Nat /\ ids <= made
      /\ unread \in Nat /\ unread <= made + 1
  BY Zenon DEF PaneInv
<1>2. /\ Pane!Becomes(p) /\ unread' = unread
      /\ disturbed' = IF disturbed = "no" THEN "resized" ELSE disturbed
  BY Zenon DEF Pane!Resized
<1>3. disturbed' # "no"
  BY <1>2
<1>4. /\ Fit(p, made', made') /\ made' \in Nat /\ ids' \in Nat /\ ids' <= made'
      /\ unread' \in Nat /\ unread' <= made' + 1
  BY <1>1, <1>2, Zenon
<1>5. FetchInv' /\ adopted' = adopted
  <2>1. made' \in Nat /\ made <= made'
    BY <1>1, <1>2
  <2>2. reached \subseteq reached' /\ adopted' = adopted
    BY <1>1, <1>2, Zenon DEF Pane!Becomes
  <2> QED BY <2>1, <2>2, FetchStays, Zenon
<1> QED BY <1>2, <1>3, <1>4, <1>5, Becoming, Zenon

LEMMA WindowSizeKeeps ==
    ASSUME Pane!PaneAssumption, PaneInv, NEW w \in Pane!Widths, NEW h \in Pane!Heights,
           Pane!WindowSize(w, h)
    PROVE  PaneInv'
<1> DEFINE x == Pane!Rewidth(pane, w)
           p == Pane!Resize(x, h)
           q == Pane!Advance(p)
<1>1. /\ x = Pane!Rewidth(pane, w) /\ p = Pane!Resize(x, h) /\ h \in Nat \ {0} /\ w \in Pane!Widths
      /\ Fit(pane, made, made) /\ Pane!PaneAssumption
  BY HeightIsNat, SeenBefore, Zenon
<1>2. Pane!Resized(q) /\ made' = made /\ ids' = ids /\ UNCHANGED Carried /\ q = Pane!Advance(p)
  BY Zenon DEF Pane!WindowSize
<1> HIDE DEF x, p, q
<1>3. Resizable(x, made, made) /\ x.lastSeenID = pane.lastSeenID
  BY ONLY <1>1, RewidthResizes, SMT
<1>4. Fit(p, made, made) /\ p.lastSeenID = x.lastSeenID
  BY ONLY <1>1, <1>3, ResizeFits, SMT
<1>5. p.lastSeenID = pane.lastSeenID
  BY <1>3, <1>4, Zenon
<1>6. Fit(q, made, made) /\ q.lastSeenID \in Known \cup Pane!Shown(q)
  BY <1>2, <1>4, <1>5, AdvanceSeen, Zenon
<1> QED BY <1>2, <1>6, Resizing, Zenon

LEMMA AnswerLandsKeeps ==
    ASSUME Pane!PaneAssumption, PaneInv, NEW h \in Pane!Heights, Pane!AnswerLands(h)
    PROVE  PaneInv'
<1> DEFINE p == Pane!MaybeResize(pane, h)
<1>1. p = Pane!MaybeResize(pane, h) /\ h \in Nat \ {0} /\ Fit(pane, made, made) /\ Pane!PaneAssumption
  BY HeightIsNat, SeenBefore, Zenon
<1>2. Pane!Resized(p) /\ made' = made /\ ids' = ids /\ UNCHANGED Carried
  BY Zenon DEF Pane!AnswerLands
<1> HIDE DEF p
<1>3. Fit(p, made, made) /\ p.lastSeenID = pane.lastSeenID
  BY ONLY <1>1, MaybeFits, SMT
<1>4. p.lastSeenID \in Known \cup Pane!Shown(p)
  BY <1>3, SeenBefore, Zenon
<1> QED BY <1>2, <1>3, <1>4, Resizing, Zenon

\* What happens to the pane without the user, and leaves his end of it alone
LEMMA Untouching ==
    ASSUME PaneInv, NEW p, Fit(p, made', made'), p.lastSeenID \in Known \cup Pane!Shown(p),
           Pane!Untouched(p), \A u \in Nat : Waits(pane, u) => Waits(p, u),
           made' \in Nat, ids' \in Nat, made <= made', ids' <= made', adopted' = adopted, FetchInv'
    PROVE  PaneInv'
<1>1. made \in Nat /\ unread \in Nat /\ unread <= made + 1
  BY Zenon DEF PaneInv
<1>2. Pane!Becomes(p) /\ unread' = unread /\ disturbed' = disturbed
  BY Zenon DEF Pane!Untouched
<1>3. unread' > 0 /\ disturbed' = "no" => Waits(p, unread')
  BY <1>1, <1>2, Zenon DEF PaneInv
<1>4. unread' \in Nat /\ unread' <= made' + 1
  <2> DEFINE n == made'
             u == unread'
  <2>1. u = unread /\ n \in Nat /\ made <= n
    BY <1>2, Zenon
  <2> HIDE DEF n, u
  <2>2. u \in Nat /\ u <= n + 1
    BY <1>1, <2>1
  <2> QED BY <2>2, Zenon DEF n, u
<1> QED BY <1>2, <1>3, <1>4, Becoming, Zenon

LEMMA RecolourKeeps ==
    ASSUME Pane!PaneAssumption, PaneInv, Pane!Recolour
    PROVE  PaneInv'
<1> DEFINE q == Pane!Sync(Staled(pane))
<1>1. /\ q = Pane!Sync(Staled(pane)) /\ Fit(pane, made, made) /\ Pane!PaneAssumption
      /\ made \in Nat /\ ids \in Nat /\ ids <= made
  BY SeenBefore, Zenon DEF PaneInv
<1>2. Pane!Untouched(q) /\ made' = made /\ ids' = ids /\ UNCHANGED Carried
  BY Zenon DEF Pane!Recolour, Staled
<1> HIDE DEF q
<1>3. /\ Fit(q, made, made) /\ q.lastSeenID = pane.lastSeenID
      /\ \A u \in Nat : Waits(pane, u) => Waits(q, u)
  <2>1. Pane!PaneAssumption /\ Fit(pane, made, made) /\ q = Pane!Sync(Staled(pane))
    BY <1>1, Zenon
  <2>2. Fit(q, made, made) /\ q.lastSeenID = pane.lastSeenID
    BY ONLY <2>1, RecolourSyncs, SMT
  <2>3. \A u \in Nat : Waits(pane, u) => Waits(q, u)
    BY ONLY <2>1, RecolourSyncs, Zenon
  <2> QED BY <2>2, <2>3, Zenon
<1>4. q.lastSeenID \in Known \cup Pane!Shown(q)
  BY <1>3, SeenBefore, Zenon
<1>5. made <= made
  BY <1>1
<1>6. /\ Fit(q, made', made') /\ made' \in Nat /\ ids' \in Nat /\ made <= made'
      /\ ids' <= made'
  BY <1>1, <1>2, <1>3, <1>5, Zenon
<1>7. FetchInv' /\ adopted' = adopted
  <2>1. made' \in Nat /\ made <= made'
    BY <1>1, <1>2
  <2>2. reached \subseteq reached' /\ adopted' = adopted
    BY <1>1, <1>2, Zenon DEF Pane!Untouched, Pane!Becomes
  <2> QED BY <1>2, <2>1, <2>2, FetchStays, Zenon
<1> QED BY <1>2, <1>3, <1>4, <1>6, <1>7, Untouching, Zenon

\* The pane is left as it is, whatever becomes of the connection.
LEMMA LinkKeeps ==
    ASSUME PaneInv, Pane!Untouched(pane), made' \in Nat, made <= made',
           ids' \in Nat, ids' <= made', UNCHANGED Carried
    PROVE  PaneInv'
<1>1. Fit(pane, made, made) /\ pane.lastSeenID \in Known /\ made \in Nat
  BY Zenon DEF PaneInv
<1>2. Fit(pane, made', made')
  <2> DEFINE n == made'
  <2>1. n \in Nat /\ made <= n
    OBVIOUS
  <2> HIDE DEF n
  <2>2. Fit(pane, n, n)
    BY ONLY <1>1, <2>1, FitGrows, SMT
  <2> QED BY <2>2, Zenon DEF n
<1>3. pane.lastSeenID \in Known \cup Pane!Shown(pane)
  BY <1>1, Zenon
<1>4. FetchInv' /\ adopted' = adopted
  <2>1. reached \subseteq reached' /\ adopted' = adopted
    BY Zenon DEF Pane!Untouched, Pane!Becomes
  <2> QED BY <2>1, FetchStays, Zenon
<1> QED BY <1>2, <1>3, <1>4, Untouching, Zenon

LEMMA ReceiveKeeps ==
    ASSUME Pane!PaneAssumption, PaneInv, NEW size \in Sizes, Pane!Receive(size)
    PROVE  PaneInv'
<1> DEFINE items == <<Pane!Item(made + 1, ids + 1, size)>>
           a == Pane!Appended(pane, items)
           p == Pane!Advance(a)
           q == Pane!Sync(p)
<1>1. /\ items = <<Pane!Item(made + 1, ids + 1, size)>>
      /\ a = Pane!Appended(pane, items) /\ p = Pane!Advance(a) /\ q = Pane!Sync(p)
  OBVIOUS
<1>2. /\ made' = made + 1 /\ ids' = ids + 1 /\ UNCHANGED Carried
      /\ Pane!Untouched(IF ids + 1 \in processedIDs THEN pane ELSE q)
  BY Zenon DEF Pane!Receive
<1> HIDE DEF items, a, p, q
<1>3. size \in Nat \ {0}
  BY DEF Pane!PaneAssumption
<1>4. made' \in Nat /\ ids' \in Nat /\ made <= made' /\ ids' <= made'
  <2>1. made \in Nat /\ ids \in Nat /\ ids <= made
    BY Zenon DEF PaneInv
  <2> QED BY <1>2, <2>1
<1>5. CASE ids + 1 \in processedIDs
  BY <1>2, <1>4, <1>5, LinkKeeps, Zenon
<1>6. CASE ids + 1 \notin processedIDs
  <2>1. /\ items \in Seq(Items) /\ Numbered(items, made + 1, made + 1) /\ Newer(items, made)
        /\ Extends(p, pane, items)
        /\ p.lastSeenID \in Known \cup Pane!Shown(q)
    BY <1>1, <1>3, ReceiveSees, Zenon
  <2>2. Numbered(items, made', made')
    BY <1>2, <2>1, Zenon
  <2> QED BY <1>1, <1>2, <1>4, <1>6, <2>1, <2>2, Arriving, Zenon
<1> QED BY <1>5, <1>6

LEMMA MissMessageKeeps ==
    ASSUME Pane!PaneAssumption, PaneInv, NEW size \in Sizes, Pane!MissMessage(size)
    PROVE  PaneInv'
<1> DEFINE x == [id |-> ids + 1, size |-> size]
           n == made'
<1>1. /\ Fit(pane, made, made) /\ pane.lastSeenID \in Known
      /\ made \in Nat /\ ids \in Nat /\ ids <= made /\ Sent(missed, made) /\ answers \subseteq Replies
      /\ \A y \in answers : Sent(y.items, made) /\ (y.old \/ y.mark \in Known)
  BY Zenon DEF PaneInv, FetchInv
<1>2. /\ made' = made + 1 /\ ids' = ids + 1 /\ missed' = missed \cup {x} /\ Pane!Untouched(pane)
      /\ answers' = answers /\ adopted' = adopted
  BY Zenon DEF Pane!MissMessage
<1>3. x \in Posts /\ x.id = ids + 1
  <2>1. size \in Nat \ {0}
    BY DEF Pane!PaneAssumption
  <2> QED BY <1>1, <2>1 DEF Posts
<1> HIDE DEF x
<1>4. n \in Nat /\ made <= n /\ ids + 1 <= n /\ ids' \in Nat /\ ids' <= n
  BY <1>1, <1>2
<1> HIDE DEF n
<1>5. Fit(pane, n, n) /\ Sent(missed, n) /\ \A y \in answers : Sent(y.items, n)
  <2>1. Fit(pane, n, n)
    BY ONLY <1>1, <1>4, FitGrows, SMT
  <2>2. \A M : Sent(M, made) => Sent(M, n)
    BY <1>1, <1>4, SentOnes, Zenon
  <2> QED BY <1>1, <2>1, <2>2, Zenon
<1>6. Sent(missed \cup {x}, n)
  <2>1. IsFiniteSet(missed \cup {x})
    BY <1>5, FS_AddElement, Zenon DEF Sent
  <2> QED BY <1>3, <1>4, <1>5, <2>1, Zenon DEF Sent
<1>7. Known \subseteq Known'
  BY <1>2, Zenon DEF Known, Pane!Untouched, Pane!Becomes
<1>8. FetchInv'
  BY <1>1, <1>2, <1>5, <1>6, <1>7, Zenon DEF FetchInv, n
<1>9. pane.lastSeenID \in Known \cup Pane!Shown(pane)
  BY <1>1, Zenon
<1> QED BY <1>2, <1>4, <1>5, <1>8, <1>9, Untouching, Zenon DEF n

LEMMA AnswerStateKeeps ==
    ASSUME PaneInv, Pane!AnswerState
    PROVE  PaneInv'
<1> DEFINE F == {y \in missed : y.id > mark}
           x == [mark |-> mark, items |-> F, old |-> FALSE]
<1>1. /\ Fit(pane, made, made) /\ pane.lastSeenID \in Known /\ mark \in Known /\ mark \in Nat
      /\ made \in Nat /\ ids \in Nat /\ ids <= made /\ Sent(missed, made) /\ answers \subseteq Replies
      /\ \A y \in answers : Sent(y.items, made) /\ (y.old \/ y.mark \in Known)
  BY Zenon DEF PaneInv, FetchInv
<1>2. /\ answers' = answers \cup {x} /\ Pane!Untouched(pane)
      /\ made' = made /\ ids' = ids /\ missed' = missed /\ adopted' = adopted
  BY Zenon DEF Pane!AnswerState
<1>3. Sent(F, made) /\ F \subseteq Posts
  <2>1. F \subseteq missed
    OBVIOUS
  <2> HIDE DEF F
  <2>2. IsFiniteSet(F)
    BY <1>1, <2>1, FS_Subset, Zenon DEF Sent
  <2> QED BY <1>1, <2>1, <2>2, Zenon DEF Sent
<1> HIDE DEF F
<1>4. x \in Replies /\ x.items = F /\ x.mark = mark
  BY <1>1, <1>3 DEF Replies
<1> HIDE DEF x
<1>5. Known \subseteq Known'
  BY <1>2, Zenon DEF Known, Pane!Untouched, Pane!Becomes
<1>6. FetchInv'
  BY <1>1, <1>2, <1>3, <1>4, <1>5, Zenon DEF FetchInv
<1>7. made <= made
  BY <1>1
<1>8. pane.lastSeenID \in Known \cup Pane!Shown(pane)
  BY <1>1, Zenon
<1> QED BY <1>1, <1>2, <1>6, <1>7, <1>8, Untouching, Zenon

LEMMA ReloginKeeps ==
    ASSUME PaneInv, Pane!Relogin
    PROVE  PaneInv'
<1> DEFINE q == Pane!ResetSessionIDs(pane)
<1>1. /\ q = Pane!ResetSessionIDs(pane) /\ Fit(pane, made, made) /\ made \in Nat
      /\ unread \in Nat /\ unread <= made + 1 /\ answers \subseteq Replies
      /\ \A y \in answers : Sent(y.items, made)
  BY Zenon DEF PaneInv, FetchInv
<1>2. /\ pane' = q /\ ids' = 0 /\ missed' = {} /\ mark' = 0
      /\ made' = made /\ unread' = unread /\ disturbed' = disturbed
      /\ answers' = {[y EXCEPT !.old = TRUE] : y \in answers}
  BY Zenon DEF Pane!Relogin
<1> HIDE DEF q
<1>3. /\ Fit(q, made, 0) /\ q.lastSeenID = 0 /\ Pane!Shown(q) \subseteq {0}
      /\ \A u \in Nat : Waits(pane, u) => Waits(q, u)
  BY ONLY <1>1, ResetFits, SMT
<1>4. 0 \in Nat /\ 0 <= made /\ made <= made
  BY <1>1
<1>5. Fit(q, made, made)
  BY ONLY <1>1, <1>3, <1>4, FitGrows, SMT
<1>6. unread > 0 /\ disturbed = "no" => Waits(q, unread)
  BY <1>1, <1>3, Zenon DEF PaneInv
<1>7. 0 \in Known'
  BY Zenon DEF Known
<1>8. FetchInv'
  <2>1. Sent({}, made)
    BY FS_EmptySet, Zenon DEF Sent
  <2>2. ASSUME NEW y \in answers, NEW z, z = [y EXCEPT !.old = TRUE]
        PROVE  z \in Replies /\ z.items = y.items /\ z.old
    BY <1>1, <2>2 DEF Replies
  <2>3. ASSUME NEW z \in answers' PROVE z \in Replies /\ Sent(z.items, made) /\ z.old
    <3>1. PICK y \in answers : z = [y EXCEPT !.old = TRUE]
      BY <1>2, Zenon
    <3>2. z \in Replies /\ z.items = y.items /\ z.old
      BY <2>2, <3>1, Zenon
    <3> QED BY <1>1, <3>2, Zenon
  <2> QED BY <1>2, <2>1, <2>3, Zenon DEF FetchInv
<1>9. Pane!Shown(q) \subseteq Known'
  BY <1>3, <1>7, Zenon
<1> QED BY <1>1, <1>2, <1>3, <1>4, <1>5, <1>6, <1>7, <1>8, <1>9, Zenon DEF PaneInv

Made(s) == [k \in DOMAIN s |-> Pane!Item(made + k, s[k].id, s[k].size)]

LEMMA SameCount == ASSUME NEW F PROVE Pane!Cardinality(F) = Cardinality(F)
BY Zenon DEF Pane!Cardinality, Cardinality

\* The messages of an answer become items in order, newer than all there are.
LEMMA LoadMakes ==
    ASSUME PaneInv, NEW x \in answers, NEW F, F \subseteq x.items, NEW c, c = Pane!Cardinality(F),
           NEW s \in Pane!InOrder(F), NEW items, items = Made(s)
    PROVE  /\ c \in Nat /\ items \in Seq(Items)
           /\ Numbered(items, made + c, made + c) /\ Newer(items, made)
<1>1. /\ made \in Nat /\ Sent(x.items, made)
  BY Zenon DEF PaneInv, FetchInv
<1>2. IsFiniteSet(F) /\ F \subseteq Posts /\ \A y \in F : y.id <= made
  <2>1. IsFiniteSet(x.items) /\ F \in SUBSET x.items
    BY <1>1, Zenon DEF Sent
  <2>2. IsFiniteSet(F)
    BY <2>1, FS_Subset, Zenon
  <2> QED BY <1>1, <2>2, Zenon DEF Sent
<1>3. c \in Nat
  BY <1>2, FS_CardinalityType, SameCount, Zenon
<1>4. s \in [1..c -> F]
  <2>1. s \in [1..Pane!Cardinality(F) -> F]
    BY Zenon DEF Pane!InOrder
  <2> QED BY <2>1
<1>5. DOMAIN s = 1..c /\ \A k \in 1..c : s[k] \in F
  BY <1>4, Zenon
<1>6. DOMAIN items = 1..c /\ \A k \in 1..c : items[k] = Pane!Item(made + k, s[k].id, s[k].size)
  BY <1>5, Zenon DEF Made
<1>7. ASSUME NEW k \in 1..c
      PROVE  /\ items[k] \in Items /\ items[k].n = made + k
             /\ items[k].n > made /\ items[k].n <= made + c /\ items[k].id <= made + c
  <2> DEFINE i == s[k].id
             z == s[k].size
             n == made + k
  <2>1. i \in Nat /\ z \in Nat \ {0} /\ i <= made
    BY <1>2, <1>5 DEF Posts
  <2>2. items[k] = Pane!Item(n, i, z)
    BY <1>6, Zenon
  <2> HIDE DEF i, z
  <2>3. n \in Nat /\ n > made /\ n <= made + c /\ i <= made + c
    BY <1>1, <1>3, <2>1
  <2> HIDE DEF n
  <2>4. /\ Pane!Item(n, i, z) \in Items
        /\ Pane!Item(n, i, z).n = n /\ Pane!Item(n, i, z).id = i
    BY <2>1, <2>3, ItemMade, Zenon
  <2>5. items[k] \in Items /\ items[k].n = n /\ items[k].id = i
    BY <2>2, <2>4, Zenon
  <2> QED BY <2>3, <2>5, Zenon DEF n
<1>8. items \in Seq(Items) /\ Len(items) = c
  <2>1. items \in [1..c -> Items]
    <3>1. items = [k \in 1..c |-> items[k]]
      <4>1. items = [k \in 1..c |-> Pane!Item(made + k, s[k].id, s[k].size)]
        BY <1>5, Zenon DEF Made
      <4>2. \A k \in 1..c : Pane!Item(made + k, s[k].id, s[k].size) = items[k]
        BY <1>6, Zenon
      <4> QED BY <4>1, <4>2, Zenon
    <3> QED BY <1>7, <3>1, Zenon
  <2> QED BY ONLY <1>3, <2>1
<1>9. Numbered(items, made + c, made + c)
  BY <1>7, <1>8, Zenon DEF Numbered
<1>10. Newer(items, made)
  <2>1. ASSUME NEW j \in 1..c, NEW k \in 1..c, j < k PROVE items[k].n > items[j].n
    <3>1. made + k > made + j
      BY <1>1, <2>1
    <3> QED BY <1>7, <3>1, Zenon
  <2> QED BY <1>7, <1>8, <2>1, Zenon DEF Newer
<1> QED BY <1>3, <1>8, <1>9, <1>10

\* What an answer leaves of the pane
LEMMA LoadLeaves ==
    ASSUME Pane!PaneAssumption, PaneInv, NEW x \in answers, Pane!Load(x)
    PROVE  \E items, p, q :
              /\ items \in Seq(Items) /\ Newer(items, made) /\ Numbered(items, made', made')
              /\ made' \in Nat /\ made <= made'
              /\ Extends(p, pane, items) /\ p.lastSeenID = pane.lastSeenID /\ q = Pane!Sync(p)
              /\ pane' = IF x.mark > 0 THEN Pane!Restore(q, x.mark) ELSE q
<1> DEFINE F == {y \in x.items : y.id \notin processedIDs}
           c == Pane!Cardinality(F)
<1>1. PICK s \in Pane!InOrder(F) : pane' = Pane!Loaded(pane, s, x.mark)
  BY Zenon DEF Pane!Load
<1> DEFINE items == Made(s)
           p == Pane!Appended(pane, items)
           q == Pane!Sync(p)
<1>2. pane' = IF x.mark > 0 THEN Pane!Restore(q, x.mark) ELSE q
  BY <1>1, Zenon DEF Pane!Loaded, Made
<1>3. made' = made + c
  BY DEF Pane!Load
<1>4. F \subseteq x.items /\ c = Pane!Cardinality(F) /\ items = Made(s) /\ p = Pane!Appended(pane, items)
      /\ q = Pane!Sync(p)
  OBVIOUS
<1> HIDE DEF F, c, items, p, q
<1>5. /\ c \in Nat /\ items \in Seq(Items)
      /\ Numbered(items, made + c, made + c) /\ Newer(items, made)
  BY <1>4, LoadMakes, Zenon
<1>6. made \in Nat /\ pane \in Panes
  BY FitFields, Zenon DEF PaneInv
<1>7. Extends(p, pane, items) /\ p.lastSeenID = pane.lastSeenID
  BY ONLY <1>4, <1>5, <1>6, AppendedExtends, SMT
<1>8. made' \in Nat /\ made <= made'
  BY <1>3, <1>5, <1>6
<1> QED BY <1>2, <1>3, <1>4, <1>5, <1>7, <1>8, Zenon

LEMMA LoadKeeps ==
    ASSUME Pane!PaneAssumption, PaneInv, NEW x \in answers, Pane!Load(x)
    PROVE  PaneInv'
<1>1. /\ Fit(pane, made, made) /\ pane.lastSeenID \in Known /\ mark \in Known /\ mark \in Nat
      /\ made \in Nat /\ ids \in Nat /\ ids <= made /\ unread \in Nat /\ unread <= made + 1
      /\ Sent(missed, made) /\ answers \subseteq Replies /\ Pane!PaneAssumption
      /\ \A y \in answers : Sent(y.items, made) /\ (y.old \/ y.mark \in Known)
      /\ Pane!Shown(pane) \subseteq Known
  BY Zenon DEF PaneInv, FetchInv
<1>2. PICK items, p, q :
              /\ items \in Seq(Items) /\ Newer(items, made) /\ Numbered(items, made', made')
              /\ made' \in Nat /\ made <= made'
              /\ Extends(p, pane, items) /\ p.lastSeenID = pane.lastSeenID /\ q = Pane!Sync(p)
              /\ pane' = IF x.mark > 0 THEN Pane!Restore(q, x.mark) ELSE q
  BY LoadLeaves, Zenon
<1>3. /\ mark' = mark \/ mark' = pane'.lastSeenID
      /\ reached' = reached \cup Pane!Shown(pane') /\ adopted \subseteq adopted'
      /\ x.old => x.mark \in adopted'
      /\ answers' \subseteq answers /\ ids' = ids /\ missed' = missed /\ unread' = unread
      /\ disturbed' = "loaded"
  BY Zenon DEF Pane!Load, Pane!Larger
<1> DEFINE n == made'
           stored == x.mark
<1>4. n \in Nat /\ made <= n /\ Numbered(items, n, n) /\ stored \in Nat /\ items \in Seq(Items)
  <2>1. x.mark \in Nat
    BY <1>1 DEF Replies
  <2> QED BY <1>2, <2>1, Zenon
<1>5. /\ Extends(p, pane, items) /\ p.lastSeenID = pane.lastSeenID /\ q = Pane!Sync(p)
      /\ pane' = IF stored > 0 THEN Pane!Restore(q, stored) ELSE q
  BY <1>2, Zenon
<1> HIDE DEF n, stored
<1>6. Fit(q, n, n) /\ q.lastSeenID = p.lastSeenID
  BY ONLY <1>1, <1>4, <1>5, ExtendedSyncs, SMT
<1>7. Fit(pane', n, n) /\ pane'.lastSeenID \in {pane.lastSeenID, stored}
  <2>1. CASE stored > 0
    BY <1>4, <1>5, <1>6, <2>1, RestoreFits, Zenon
  <2>2. CASE ~(stored > 0)
    BY <1>5, <1>6, <2>2, Zenon
  <2> QED BY <2>1, <2>2
<1>8. Known \subseteq Known'
  BY <1>3, Zenon DEF Known
<1>9. stored \in Known'
  <2>1. CASE x.old
    BY <1>3, <2>1, Zenon DEF Known, stored
  <2>2. CASE ~x.old
    BY <1>1, <1>8, <2>2, Zenon DEF stored
  <2> QED BY <2>1, <2>2
<1>10. pane'.lastSeenID \in Known'
  BY <1>1, <1>7, <1>8, <1>9, Zenon
<1>11. mark' \in Known' /\ mark' \in Nat
  <2>1. pane'.lastSeenID \in Nat
    BY <1>7, FitFields, Zenon
  <2> QED BY <1>1, <1>3, <1>8, <1>10, <2>1, Zenon
<1>12. Pane!Shown(pane') \subseteq Known'
  BY <1>3, Zenon DEF Known
<1>13. FetchInv'
  <2>1. \A M : Sent(M, made) => Sent(M, n)
    BY <1>1, <1>4, SentOnes, Zenon
  <2> QED BY <1>1, <1>3, <1>8, <2>1, Zenon DEF FetchInv, n
<1>14. ids' \in Nat /\ ids' <= n /\ unread' \in Nat /\ unread' <= n + 1
  BY <1>1, <1>3, <1>4
<1>15. disturbed' # "no"
  BY <1>3
<1> QED BY <1>4, <1>7, <1>10, <1>11, <1>12, <1>13, <1>14, <1>15, Zenon DEF PaneInv, n

LEMMA PaneBegins ==
    ASSUME Pane!PaneAssumption, Pane!Init
    PROVE  PaneInv
<1> DEFINE x == Pane!Item(1, 0, 1)
           s == <<x>>
           r == <<1, 1, "wide">>
           t == <<r>>
<1>1. pane = [output |-> s, lines |-> t,
              width |-> "wide", height |-> Screen, yOffset |-> 0,
              syncedItems |-> 1, stale |-> FALSE, autoPageAnchor |-> -1,
              scrollAnchor |-> -1, pagerEnabled |-> TRUE, lastSeenID |-> 0]
  BY Zenon DEF Pane!Init
<1>2. /\ ids = 0 /\ missed = {} /\ answers = {} /\ mark = 0 /\ made = 1
      /\ reached = {} /\ unread = 0
  BY Zenon DEF Pane!Init
<1>3. x \in Items /\ x.n = 1 /\ x.id = 0 /\ x.size = 1
  BY DEF Pane!Item, Items
<1>4. Pane!Render(s, "wide") = t
  <2>1. "wide" \in Pane!Widths
    BY DEF Pane!Widths
  <2>2. Pane!Rows(x, "wide") = 1
    BY <1>3 DEF Pane!Rows
  <2>3. Pane!RenderItem(x, "wide") = t
    <3>1. Pane!RenderItem(x, "wide") = [k \in 1..1 |-> <<1, k, "wide">>]
      BY <1>3, <2>2, Zenon DEF Pane!RenderItem
    <3>2. [k \in 1..1 |-> <<1, k, "wide">>] = t
      OBVIOUS
    <3> QED BY <3>1, <3>2, Zenon
  <2>4. s \in Seq(Items) /\ Len(s) = 1 /\ s[1] = x /\ SubSeq(s, 1, 1) = s /\ 1 \in 1..Len(s)
    <3> HIDE DEF x
    <3>1. s \in Seq(Items) /\ Len(s) = 1 /\ s[1] = x
      BY ONLY <1>3
    <3> HIDE DEF s
    <3>2. SubSeq(s, 1, 1) = s /\ 1 \in 1..Len(s)
      BY ONLY <3>1
    <3> QED BY <3>1, <3>2, Zenon
  <2>5. Pane!Render(SubSeq(s, 1, 1), "wide") = Pane!RenderItem(s[1], "wide")
    <3> HIDE DEF s
    <3> QED BY <2>1, <2>4, RowsOfOne, Zenon
  <2> QED BY <2>3, <2>4, <2>5, Zenon
<1>5. /\ s \in Seq(Items) /\ s # <<>> /\ Len(s) = 1 /\ DOMAIN s = 1..1
      /\ \A j \in 1..Len(s) : s[j] = x
  <2> HIDE DEF x
  <2> QED BY ONLY <1>3
<1>6. t \in Seq(Rendered) /\ Len(t) = 1
  BY DEF Rendered, Pane!Widths
<1>7. Screen \in Nat \ {0} /\ Len(s) - MaxScrollback <= ScrollbackSlack
  BY <1>5 DEF Pane!PaneAssumption
<1> HIDE DEF x, s, t, r
<1>8. pane \in Panes
  BY ONLY <1>1, <1>5, <1>6, <1>7 DEF Panes, Pane!Widths
<1>9. /\ pane.output = s /\ pane.lines = t /\ pane.width = "wide" /\ pane.yOffset = 0
      /\ pane.syncedItems = 1 /\ ~pane.stale /\ pane.scrollAnchor = -1 /\ pane.lastSeenID = 0
  BY ONLY <1>1
<1>10. 0 <= Pane!MaxYOffset(pane)
  <2>1. Pane!MaxYOffset(pane) \in Nat
    BY <1>8, GreatestOffset, Zenon
  <2> HIDE DEF Pane!MaxYOffset
  <2> QED BY <2>1
<1>11. Settled(pane)
  BY <1>4, <1>5, <1>7, <1>8, <1>9, <1>10, Zenon DEF Settled, Pane!Over
<1>12. 1 <= 1 /\ 0 <= 0 /\ 0 <= 1 /\ 0 \in Nat /\ 1 \in Nat /\ 0 <= 1 + 1 /\ ~(0 > 0) /\ <<>> \in Seq(Items)
  OBVIOUS
<1>13. Fit(pane, made, made)
  BY <1>2, <1>3, <1>5, <1>9, <1>11, <1>12, Zenon DEF Fit
<1>14. Pane!Shown(pane) \subseteq {0}
  <2>1. \A j \in DOMAIN pane.output : pane.output[j].id = 0
    BY <1>3, <1>5, <1>9, Zenon
  <2> QED BY <2>1, Zenon DEF Pane!Shown
<1>15. FetchInv
  <2>1. Sent({}, made)
    BY FS_EmptySet, Zenon DEF Sent
  <2> QED BY <1>2, <2>1, Zenon DEF FetchInv
<1>16. 0 \in Known /\ Pane!Shown(pane) \subseteq Known
  BY <1>14, Zenon DEF Known
<1> QED BY <1>2, <1>9, <1>12, <1>13, <1>15, <1>16, Zenon DEF PaneInv

LEMMA PaneStays ==
    ASSUME PaneInv, UNCHANGED Pane!vars
    PROVE  PaneInv'
<1>1. /\ pane' = pane /\ ids' = ids /\ UNCHANGED Carried /\ mark' = mark /\ made' = made
      /\ reached' = reached /\ unread' = unread /\ disturbed' = disturbed
  BY DEF Pane!vars
<1>2. missed' = missed /\ answers' = answers /\ adopted' = adopted
  BY <1>1
<1> QED BY <1>1, <1>2, Zenon DEF PaneInv, FetchInv, Known

LEMMA PaneGoesOn ==
    ASSUME Pane!PaneAssumption, PaneInv, [Pane!Next]_Pane!vars
    PROVE  PaneInv'
<1>0. made \in Nat /\ made <= made /\ ids \in Nat /\ ids <= made
  <2>1. made \in Nat /\ ids \in Nat /\ ids <= made
    BY Zenon DEF PaneInv
  <2> QED BY <2>1
<1>1. CASE Pane!ScrollBack
  BY <1>1, ScrollBackKeeps, Zenon
<1>2. CASE Pane!ScrollOn
  BY <1>2, ScrollOnKeeps, Zenon
<1>3. CASE Pane!AdvancePager
  BY <1>3, AdvancePagerKeeps, Zenon
<1>4. CASE Pane!ToggleDebug
  BY <1>4, ToggleDebugKeeps, Zenon
<1>5. ASSUME NEW local \in BOOLEAN, NEW on \in BOOLEAN, Pane!Submit(local, on) PROVE PaneInv'
  BY <1>5, SubmitKeeps, Zenon
<1>6. ASSUME NEW h \in Pane!Heights, Pane!Type(h) PROVE PaneInv'
  BY <1>6, TypeKeeps, Zenon
<1>7. ASSUME NEW h \in Pane!Heights, Pane!AnswerLands(h) PROVE PaneInv'
  BY <1>7, AnswerLandsKeeps, Zenon
<1>8. ASSUME NEW size \in Sizes, Pane!Receive(size) PROVE PaneInv'
  BY <1>8, ReceiveKeeps, Zenon
<1>9. ASSUME NEW size \in Sizes, Pane!MissMessage(size) PROVE PaneInv'
  BY <1>9, MissMessageKeeps, Zenon
<1>10. ASSUME NEW w \in Pane!Widths, NEW h \in Pane!Heights, Pane!WindowSize(w, h) PROVE PaneInv'
  BY <1>10, WindowSizeKeeps, Zenon
<1>11. CASE Pane!Note
  BY <1>11, NoteKeeps, Zenon
<1>12. CASE Pane!Recolour
  BY <1>12, RecolourKeeps, Zenon
<1>13. CASE Pane!Disconnect
  BY <1>0, <1>13, LinkKeeps, Zenon DEF Pane!Disconnect
<1>14. CASE Pane!Resume
  BY <1>0, <1>14, LinkKeeps, Zenon DEF Pane!Resume
<1>15. CASE Pane!Relogin
  BY <1>15, ReloginKeeps, Zenon
<1>16. ASSUME NEW x \in answers, Pane!Load(x) PROVE PaneInv'
  BY <1>16, LoadKeeps, Zenon
<1>18. CASE Pane!AnswerState
  BY <1>18, AnswerStateKeeps, Zenon
<1>17. CASE UNCHANGED Pane!vars
  BY <1>17, PaneStays, Zenon
<1> QED
  BY <1>1, <1>2, <1>3, <1>4, <1>5, <1>6, <1>7, <1>8, <1>9, <1>10, <1>11, <1>12, <1>13, <1>14,
     <1>15, <1>16, <1>17, <1>18, Zenon DEF Pane!Next

\* What the invariant says of the view, of the mark and of the pager
LEMMA PaneInvTells ==
    ASSUME PaneInv
    PROVE  Pane!ViewShowsOutput /\ Pane!SeenWasReached /\ Pane!PagerHolds
<1>1. Fit(pane, made, made)
  BY Zenon DEF PaneInv
<1>2. Pane!ViewShowsOutput
  BY <1>1, FitFields, Zenon DEF Pane!ViewShowsOutput
<1>3. Pane!SeenWasReached
  BY Zenon DEF PaneInv, Pane!SeenWasReached, Known
<1>4. ASSUME pane.pagerEnabled, unread > 0, disturbed = "no", pane.output[1].n <= unread,
             NEW l \in 1..pane.yOffset
      PROVE  pane.lines[l][1] < unread
  <2>1. Held(pane, unread)
    BY <1>4, Zenon DEF PaneInv, Waits
  <2> DEFINE e == Edge(pane)
  <2>2. /\ e \in 0..Len(pane.lines) /\ pane.yOffset <= e
        /\ \A k \in 1..e : pane.lines[k][1] < unread
    BY <2>1, Zenon DEF Held
  <2>3. pane.yOffset \in Nat /\ Len(pane.lines) \in Nat
    BY <1>1, FitFields, Zenon
  <2> HIDE DEF e
  <2>4. l \in 1..e
    BY <2>2, <2>3
  <2> QED BY <2>2, <2>4, Zenon
<1>5. Pane!PagerHolds
  BY <1>4, Zenon DEF Pane!PagerHolds
<1> QED BY <1>2, <1>3, <1>5

\* The view is the output as a full rendering would show it, whatever was added,
\* trimmed, rebuilt or resized; the mark that the client reports names a message
\* that has been in view or above it, or came with an answer meant for a session
\* that had ended; and what came while the user did nothing is not scrolled past.
\* (ui.go syncViewportContent, advanceLastSeenID, restorePosition, armPagerIfAtBottom)
THEOREM PaneHolds ==
    ASSUME Pane!PaneAssumption
    PROVE  Pane!Spec => []PaneShowsWhatCame
<1>1. Pane!Init => PaneInv
  BY PaneBegins
<1>2. PaneInv /\ [Pane!Next]_Pane!vars => PaneInv'
  BY PaneGoesOn
<1>3. PaneInv => PaneShowsWhatCame
  BY PaneInvTells, Zenon DEF PaneShowsWhatCame
<1> QED BY <1>1, <1>2, <1>3, PTL DEF Pane!Spec

-----------------------------------------------------------------------------
(* The reader's place                                                      *)

\* No two items have the same number.
Apart(s) == \A i, j \in 1..Len(s) : i # j => s[i].n # s[j].n
Numbers(s) == {s[j].n : j \in 1..Len(s)}

\* What is left of s after trimming
EndOf(r, s) == \E k \in 0..Len(s) - 1 : r = SubSeq(s, k + 1, Len(s))

LEMMA EndIsApart ==
    ASSUME NEW s \in Seq(Items), Apart(s), NEW r, EndOf(r, s)
    PROVE  Apart(r) /\ Numbers(r) \subseteq Numbers(s)
<1> DEFINE N == Len(s)
<1>1. PICK k \in 0..N - 1 : r = SubSeq(s, k + 1, N)
  BY Zenon DEF EndOf
<1>2. N \in Nat /\ k \in 0..N /\ N \in k..N
  <2>1. N \in Nat /\ k \in 0..N - 1
    OBVIOUS
  <2> HIDE DEF N
  <2> QED BY <2>1
<1>3. Len(r) = N - k /\ \A j \in 1..N - k : r[j] = s[k + j]
  BY <1>1, <1>2, PartOfItems, Zenon
<1> HIDE DEF N
<1>4. \A j \in 1..Len(r) : k + j \in 1..N /\ r[j] = s[k + j]
  <2> SUFFICES ASSUME NEW j \in 1..Len(r) PROVE k + j \in 1..N /\ r[j] = s[k + j]
    OBVIOUS
  <2>1. Len(r) = N - k
    BY <1>3, Zenon
  <2>2. k + j \in 1..N
    BY <1>2, <2>1
  <2> QED BY <1>3, <2>1, <2>2, Zenon
<1>5. ASSUME NEW i \in 1..Len(r), NEW j \in 1..Len(r), i # j PROVE r[i].n # r[j].n
  <2>1. k + i # k + j
    <3>1. i \in Int /\ j \in Int
      OBVIOUS
    <3> QED BY <1>2, <1>5, <3>1
  <2> QED BY <1>4, <2>1, Zenon DEF Apart, N
<1>6. Apart(r)
  BY <1>5, Zenon DEF Apart
<1>7. Numbers(r) \subseteq Numbers(s)
  <2> SUFFICES ASSUME NEW j \in 1..Len(r) PROVE r[j].n \in Numbers(s)
    BY Zenon DEF Numbers
  <2> QED BY <1>4, Zenon DEF Numbers, N
<1> QED BY <1>6, <1>7

LEMMA JoinIsApart ==
    ASSUME NEW a \in Seq(Items), NEW b \in Seq(Items), Apart(a), Apart(b),
           Numbers(a) \cap Numbers(b) = {}
    PROVE  Apart(a \o b) /\ Numbers(a \o b) = Numbers(a) \cup Numbers(b)
<1> DEFINE c == a \o b
           N == Len(a)
           M == Len(b)
<1>1. /\ Len(c) = N + M /\ N \in Nat /\ M \in Nat
      /\ \A j \in 1..N : c[j] = a[j]
      /\ \A j \in N + 1..N + M : c[j] = b[j - N]
  BY ItemsJoined, Zenon
<1> HIDE DEF c, N, M
<1>2. ASSUME NEW j \in 1..Len(c)
      PROVE  \/ j \in 1..N /\ c[j] = a[j]
             \/ j - N \in 1..M /\ j \notin 1..N /\ c[j] = b[j - N]
  <2>1. j \in 1..N \/ (j \in N + 1..N + M /\ j - N \in 1..M /\ j \notin 1..N)
    BY <1>1
  <2> QED BY <1>1, <2>1, Zenon
<1>3. ASSUME NEW i \in 1..Len(c), NEW j \in 1..Len(c), i # j PROVE c[i].n # c[j].n
  <2>1. CASE i \in 1..N /\ c[i] = a[i]
    <3>1. CASE j \in 1..N /\ c[j] = a[j]
      BY <1>3, <2>1, <3>1, Zenon DEF Apart, N
    <3>2. CASE j - N \in 1..M /\ c[j] = b[j - N]
      BY <2>1, <3>2, Zenon DEF Numbers, N, M
    <3> QED BY <1>2, <3>1, <3>2, Zenon
  <2>2. CASE i - N \in 1..M /\ c[i] = b[i - N]
    <3>1. CASE j \in 1..N /\ c[j] = a[j]
      BY <2>2, <3>1, Zenon DEF Numbers, N, M
    <3>2. CASE j - N \in 1..M /\ c[j] = b[j - N]
      <4>1. i - N # j - N
        BY <1>1, <1>3
      <4> QED BY <2>2, <3>2, <4>1, Zenon DEF Apart, M
    <3> QED BY <1>2, <3>1, <3>2, Zenon
  <2> QED BY <1>2, <2>1, <2>2, Zenon
<1>4. Numbers(c) \subseteq Numbers(a) \cup Numbers(b)
  <2> SUFFICES ASSUME NEW j \in 1..Len(c) PROVE c[j].n \in Numbers(a) \cup Numbers(b)
    BY Zenon DEF Numbers
  <2> QED BY <1>2, Zenon DEF Numbers, N, M
<1>5. Numbers(a) \cup Numbers(b) \subseteq Numbers(c)
  <2>1. ASSUME NEW j \in 1..N PROVE a[j].n \in Numbers(c)
    <3>1. j \in 1..Len(c)
      BY <1>1
    <3> QED BY <1>1, <3>1, Zenon DEF Numbers
  <2>2. ASSUME NEW j \in 1..M PROVE b[j].n \in Numbers(c)
    <3>1. N + j \in 1..Len(c) /\ N + j \in N + 1..N + M /\ (N + j) - N = j
      BY <1>1
    <3>2. c[N + j] = b[j]
      BY <1>1, <3>1, Zenon
    <3> QED BY <3>1, <3>2, Zenon DEF Numbers
  <2> QED BY <2>1, <2>2, Zenon DEF Numbers, N, M
<1> QED BY <1>3, <1>4, <1>5, Zenon DEF Apart, c

LEMMA NewerIsApart ==
    ASSUME NEW s \in Seq(Items), NEW m \in Nat, NEW i, Numbered(s, m, i),
           NEW items \in Seq(Items), Newer(items, m)
    PROVE  Apart(items) /\ Numbers(s) \cap Numbers(items) = {}
<1>1. ASSUME NEW j \in 1..Len(items), NEW k \in 1..Len(items), j # k
      PROVE  items[j].n # items[k].n
  <2> DEFINE x == items[j].n
             y == items[k].n
  <2>1. x \in Nat /\ y \in Nat
    BY ItemAt, Zenon
  <2>2. (j < k => y > x) /\ (k < j => x > y)
    BY Zenon DEF Newer
  <2> HIDE DEF x, y
  <2>3. j < k \/ k < j
    BY <1>1
  <2>4. x # y
    BY <2>1, <2>2, <2>3
  <2> QED BY <2>4, Zenon DEF x, y
<1>2. ASSUME NEW j \in 1..Len(s), NEW k \in 1..Len(items) PROVE s[j].n # items[k].n
  <2> DEFINE x == s[j].n
             y == items[k].n
  <2>1. x \in Nat /\ y \in Nat
    BY ItemAt, Zenon
  <2>2. x <= m /\ y > m
    BY Zenon DEF Newer, Numbered
  <2> HIDE DEF x, y
  <2>3. x # y
    BY <2>1, <2>2
  <2> QED BY <2>3, Zenon DEF x, y
<1> QED BY <1>1, <1>2, Zenon DEF Apart, Numbers

LEMMA SyncEnds ==
    ASSUME Pane!PaneAssumption, NEW p, Filled(p), ~p.stale, p.yOffset <= Pane!MaxYOffset(p),
           NEW q, q = Pane!Sync(p)
    PROVE  EndOf(q.output, p.output)
<1> DEFINE t == Pane!Trim(p)
           f == Pane!Refill(t)
<1>0. t = Pane!Trim(p) /\ f = Pane!Refill(t) /\ p \in Panes
  BY Zenon DEF Filled
<1> HIDE DEF t, f
<1>1. /\ TrimOf(t, p) /\ Refilled(f, t) /\ SameText(q, f)
  BY <1>0, SyncAppends, Zenon
<1>2. q.output = t.output
  BY <1>1, Zenon DEF SameText, Refilled
<1>3. p.output \in Seq(Items) /\ p.output # <<>>
  BY <1>0, PaneFields, Zenon DEF Filled
<1>4. CASE t = p
  <2>1. 0 \in 0..Len(p.output) - 1 /\ p.output = SubSeq(p.output, 0 + 1, Len(p.output))
    BY <1>3
  <2> QED BY <1>2, <1>4, <2>1, Zenon DEF EndOf
<1>5. ASSUME NEW k \in 1..Len(p.output) - 1, NEW d, Trimmed(t, p, k, d)
      PROVE  EndOf(q.output, p.output)
  <2>1. k \in 0..Len(p.output) - 1
    BY <1>3
  <2>2. q.output = SubSeq(p.output, k + 1, Len(p.output))
    BY <1>2, <1>5, Zenon DEF Trimmed
  <2> QED BY <2>1, <2>2, Zenon DEF EndOf
<1> QED BY <1>1, <1>4, <1>5, Zenon DEF TrimOf

\* The pager is armed only where the end is in view.
ArmedAtEnd(p) == p.autoPageAnchor >= 0 => Pane!AtBottom(p)
Unarmed(p) == ~(p.autoPageAnchor >= 0)

LEMMA FollowsArms ==
    ASSUME NEW f \in Panes, NEW t, NEW bottom, NEW q \in Panes, Follows(q, f, t, bottom),
           Pane!MaxYOffset(q) = Pane!MaxYOffset(f)
    PROVE  ArmedAtEnd(q) /\ (Unarmed(f) => Unarmed(q))
<1>1. ~(-1 >= 0)
  OBVIOUS
<1>2. ASSUME NEW from, Paged(q, f, from)
      PROVE  /\ q.autoPageAnchor = f.autoPageAnchor \/ Unarmed(q)
             /\ Pane!AtBottom(q) \/ Unarmed(q)
  <2>1. CASE q.yOffset = Pane!MaxYOffset(f) /\ q.autoPageAnchor = f.autoPageAnchor
    <3> DEFINE x == Pane!MaxYOffset(q)
    <3>1. q.yOffset = x /\ x \in Nat
      BY <2>1, GreatestOffset, Zenon
    <3> HIDE DEF x
    <3>2. q.yOffset >= x
      BY <3>1
    <3>3. Pane!AtBottom(q)
      BY <3>2, Zenon DEF Pane!AtBottom, x
    <3> QED BY <2>1, <3>3, Zenon
  <2>2. CASE q.autoPageAnchor = -1
    BY <1>1, <2>2, Zenon DEF Unarmed
  <2> QED BY <1>2, <2>1, <2>2, Zenon DEF Paged
<1>3. CASE f.autoPageAnchor >= 0 /\ Paged(q, f, f.autoPageAnchor)
  BY <1>2, <1>3, Zenon DEF ArmedAtEnd, Unarmed
<1>4. CASE ~(f.autoPageAnchor >= 0) /\ Paged(q, f, Len(t.lines))
  BY <1>2, <1>4, Zenon DEF ArmedAtEnd, Unarmed
<1>5. CASE ~(f.autoPageAnchor >= 0) /\ q.autoPageAnchor = f.autoPageAnchor
  BY <1>5, Zenon DEF ArmedAtEnd, Unarmed
<1> QED BY <1>3, <1>4, <1>5, Zenon DEF Follows

\* A view that is not at its end stays where it is, or goes to its end.
LEMMA FollowsStays ==
    ASSUME NEW f \in Panes, NEW t, NEW q \in Panes, Follows(q, f, t, FALSE), Unarmed(f),
           Pane!MaxYOffset(q) = Pane!MaxYOffset(f), f.yOffset <= Pane!MaxYOffset(f)
    PROVE  Pane!AtBottom(q) \/ q.yOffset = f.yOffset
<1>1. CASE Len(f.lines) <= f.height
  <2> DEFINE x == Pane!MaxYOffset(q)
             T == Len(f.lines)
             h == f.height
  <2>1. x = (IF T > h THEN T - h ELSE 0) /\ T <= h /\ T \in Nat /\ h \in Nat
    BY <1>1, PaneFields, GreatestOffset, Zenon
  <2>2. q.yOffset \in Nat
    BY PaneFields, Zenon
  <2> HIDE DEF x, T, h
  <2>3. q.yOffset >= x
    BY <2>1, <2>2
  <2> QED BY <2>3, Zenon DEF Pane!AtBottom, x
<1>2. CASE ~(Len(f.lines) <= f.height)
  BY <1>2, Zenon DEF Follows, Unarmed
<1> QED BY <1>1, <1>2

\* The item at the top of the view stays there, unless the view is at the end or
\* the item has fallen out of the output.
Kept(q, p) ==
    \/ Pane!AtBottom(q) \/ Pane!TopItem(q) = Pane!TopItem(p)
    \/ \A i \in DOMAIN q.output : q.output[i].n # Pane!TopItem(p)

LEMMA TopRow ==
    ASSUME NEW q, NEW p, NEW z, q.yOffset = z, q.lines[z + 1][1] = p.lines[p.yOffset + 1][1]
    PROVE  Pane!TopItem(q) = Pane!TopItem(p)
BY Zenon DEF Pane!TopItem

\* What syncViewportContent leaves of a view that is not at its end
LEMMA SyncReads ==
    ASSUME Pane!PaneAssumption, NEW p, Filled(p), ~p.stale, p.yOffset <= Pane!MaxYOffset(p),
           ~Pane!AtBottom(p), Unarmed(p), Apart(p.output), NEW q, q = Pane!Sync(p)
    PROVE  Kept(q, p)
<1> DEFINE t == Pane!Trim(p)
           f == Pane!Refill(t)
           s == p.output
           w == p.width
           y == p.yOffset
           T == Len(p.lines)
           h == p.height
<1>0. t = Pane!Trim(p) /\ f = Pane!Refill(t) /\ p \in Panes
  BY Zenon DEF Filled
<1> HIDE DEF t, f
<1>1. /\ TrimOf(t, p) /\ Filled(t) /\ ~t.stale /\ t.yOffset <= Pane!MaxYOffset(t)
      /\ f \in Panes /\ Refilled(f, t) /\ f.yOffset = t.yOffset
      /\ Len(t.lines) <= Len(f.lines) /\ GoesOn(f, t)
      /\ Pane!MaxYOffset(t) <= Pane!MaxYOffset(f)
      /\ Follows(q, f, t, Pane!AtBottom(p)) /\ SameText(q, f)
      /\ Pane!MaxYOffset(q) = Pane!MaxYOffset(f) /\ Settled(q)
  BY <1>0, SyncAppends, Zenon
<1>2. t \in Panes /\ q \in Panes
  BY <1>1, Zenon DEF Filled, Settled
<1>3. Unarmed(f)
  <2>1. ~(-1 >= 0)
    OBVIOUS
  <2>2. Unarmed(t)
    BY <1>1, <2>1, Zenon DEF TrimOf, Trimmed, Unarmed
  <2> QED BY <1>1, <2>2, Zenon DEF Unarmed, Refilled
<1>4. Follows(q, f, t, FALSE)
  <2>1. Pane!AtBottom(p) = FALSE
    <3>1. Pane!AtBottom(p) \in BOOLEAN
      BY DEF Pane!AtBottom
    <3> QED BY <3>1
  <2> QED BY <1>1, <2>1, Zenon
<1>5. f.yOffset <= Pane!MaxYOffset(f)
  <2> DEFINE a == Pane!MaxYOffset(t)
             b == Pane!MaxYOffset(f)
             z == t.yOffset
  <2>1. a \in Nat /\ b \in Nat /\ z \in Nat /\ z <= a /\ a <= b
    BY <1>1, <1>2, PaneFields, GreatestOffset, Zenon
  <2> HIDE DEF a, b, z
  <2>2. z <= b
    BY <2>1
  <2> QED BY <1>1, <2>2, Zenon DEF z, b
<1>6. Pane!AtBottom(q) \/ q.yOffset = f.yOffset
  BY <1>1, <1>2, <1>3, <1>4, <1>5, FollowsStays, Zenon
<1>7. /\ s \in Seq(Items) /\ w \in Pane!Widths /\ y \in Nat /\ h \in Nat \ {0} /\ T \in Nat
      /\ p.lines \in Seq(Rendered) /\ y < T /\ T > h /\ y < T - h
  <2> DEFINE x == Pane!MaxYOffset(p)
  <2>1. /\ s \in Seq(Items) /\ w \in Pane!Widths /\ y \in Nat /\ h \in Nat \ {0} /\ T \in Nat
        /\ p.lines \in Seq(Rendered) /\ x = (IF T > h THEN T - h ELSE 0) /\ ~(y >= x)
    BY <1>0, PaneFields, GreatestOffset, Zenon
  <2> HIDE DEF x, T, y, h, s, w
  <2> QED BY <2>1
\* While the top line is in the view, it stays the top line.
<1>8. ASSUME NEW d \in Nat, d <= y, t.yOffset = y - d, Len(t.lines) = T - d,
             \A l \in 1..T - d : t.lines[l] = p.lines[d + l]
      PROVE  Kept(q, p)
  <2> DEFINE z == y - d
  <2>1. z \in Nat /\ z + 1 \in 1..T - d /\ d + (z + 1) = y + 1
    <3>1. d <= y /\ d \in Nat
      BY <1>8
    <3> HIDE DEF T, y
    <3> QED BY <1>7, <3>1
  <2>2. t.lines[z + 1] = p.lines[y + 1]
    <3> DEFINE R == T - d
    <3>1. /\ z + 1 \in 1..R /\ d + (z + 1) = y + 1
          /\ \A l \in 1..R : t.lines[l] = p.lines[d + l]
      BY <1>8, <2>1, Zenon
    <3> HIDE DEF z, R, y
    <3>2. t.lines[z + 1] = p.lines[d + (z + 1)]
      BY <3>1, Zenon
    <3> QED BY <3>1, <3>2, Zenon
  <2>3. f.lines[z + 1] = t.lines[z + 1]
    <3> HIDE DEF z
    <3> QED BY <1>1, <1>8, <2>1, Zenon DEF GoesOn
  <2>4. q.lines = f.lines
    BY <1>1, Zenon DEF SameText
  <2>5. f.yOffset = z
    BY <1>1, <1>8, Zenon
  <2> HIDE DEF z
  <2>6. CASE q.yOffset = f.yOffset
    <3>1. q.yOffset = z /\ q.lines[z + 1][1] = p.lines[p.yOffset + 1][1]
      BY <2>2, <2>3, <2>4, <2>5, <2>6, Zenon
    <3>2. Pane!TopItem(q) = Pane!TopItem(p)
      BY <3>1, TopRow, Zenon
    <3> QED BY <3>2, Zenon DEF Kept
  <2> QED BY <1>6, <2>6, Zenon DEF Kept
<1>9. CASE t = p
  <2>1. 0 \in Nat /\ 0 <= y /\ y = y - 0 /\ T = T - 0 /\ \A l \in 1..T - 0 : 0 + l = l
    BY <1>7
  <2>2. /\ t.yOffset = y - 0 /\ Len(t.lines) = T - 0
        /\ \A l \in 1..T - 0 : t.lines[l] = p.lines[0 + l]
    BY <1>9, <2>1, Zenon
  <2> QED BY <1>8, <2>1, <2>2, Zenon
<1>10. ASSUME NEW k \in 1..Len(s) - 1, NEW d \in Nat \ {0}, d = RowsUpto(s, w, k), Trimmed(t, p, k, d)
       PROVE  Kept(q, p)
  <2>1. t.lines = SubSeq(p.lines, d + 1, T) /\ t.yOffset = Within(y - d, t) /\ t.height = h
    BY <1>10, Zenon DEF Trimmed, SameMind
  <2>2. CASE d <= y
    <3> DEFINE o == p.lines
    <3>1. o \in Seq(Rendered) /\ T = Len(o) /\ d <= T /\ d \in Nat /\ T \in Nat
      <4>1. o \in Seq(Rendered) /\ T = Len(o) /\ d \in Nat
        BY <1>7, <1>10, Zenon
      <4> HIDE DEF o, T, y
      <4>2. d <= T
        BY <1>7, <2>2, <4>1
      <4> QED BY <1>7, <4>1, <4>2, Zenon
    <3> DEFINE c == t.lines
    <3>2. c = SubSeq(o, d + 1, T)
      BY <2>1, Zenon
    <3> HIDE DEF o, T, c
    <3>3. Len(c) = T - d
      BY ONLY <3>1, <3>2
    <3>4. \A l \in 1..T - d : c[l] = o[d + l]
      BY ONLY <3>1, <3>2
    <3>5. t.yOffset = y - d
      <4> DEFINE x == Pane!MaxYOffset(t)
                 R == Len(t.lines)
                 z == t.yOffset
      <4>1. x = (IF R > h THEN R - h ELSE 0) /\ R = T - d
        BY <1>2, <2>1, <3>3, GreatestOffset, Zenon DEF c
      <4>2. z = IF y - d < 0 THEN 0 ELSE IF y - d > x THEN x ELSE y - d
        BY <2>1, Zenon DEF Within
      <4> HIDE DEF x, R, y, h, z
      <4>3. z = y - d
        BY <1>7, <1>10, <2>2, <4>1, <4>2
      <4> QED BY <4>3, Zenon DEF z
    <3> QED BY <1>8, <2>2, <3>1, <3>3, <3>4, <3>5, Zenon DEF o, c
  <2>3. CASE ~(d <= y)
    <3> DEFINE all == Pane!Render(s, w)
               N == Len(s)
               n == p.syncedItems
               l == y + 1
    <3>1. /\ N \in Nat /\ n \in Nat /\ n <= N /\ p.lines = Pane!Render(SubSeq(s, 1, n), w)
          /\ n \in 0..N /\ N \in n..N /\ k \in 0..N
      <4>1. N \in Nat /\ n \in Nat /\ n <= N /\ p.lines = Pane!Render(SubSeq(s, 1, n), w)
        BY <1>0, PaneFields, Zenon DEF Filled
      <4>2. k \in 1..N - 1
        BY <1>10, Zenon
      <4> HIDE DEF N, n, s, w
      <4>3. n \in 0..N /\ N \in n..N /\ k \in 0..N
        BY <4>1, <4>2
      <4> QED BY <4>1, <4>3
    <3>2. l \in 1..Len(all) /\ all[l] = p.lines[l]
      <4> DEFINE rest == Pane!Render(SubSeq(s, n + 1, N), w)
                 o == p.lines
      <4>1. SubSeq(s, 1, N) = s /\ SubSeq(s, n + 1, N) \in Seq(Items)
        <5>1. SubSeq(s, 1, N) = s
          BY <1>7
        <5>2. SubSeq(s, n + 1, N) \in Seq(Items)
          BY <1>7, <3>1, PartOfItems, Zenon
        <5> QED BY <5>1, <5>2
      <4>2. all = o \o rest
        <5>1. Pane!Render(SubSeq(s, 1, N), w)
                = Pane!Render(SubSeq(s, 1, n), w) \o Pane!Render(SubSeq(s, n + 1, N), w)
          BY <1>7, <3>1, RowsInParts, Zenon
        <5> QED BY <3>1, <4>1, <5>1, Zenon
      <4>3. o \in Seq(Rendered) /\ rest \in Seq(Rendered) /\ Len(o) = T
        BY <1>7, <4>1, RenderType, Zenon
      <4> HIDE DEF all, rest, o, T, y
      <4>4. l \in 1..Len(o)
        BY <1>7, <4>3
      <4>5. l \in 1..Len(all) /\ all[l] = o[l]
        <5> HIDE DEF l
        <5>1. l \in 1..Len(o) /\ o \in Seq(Rendered) /\ rest \in Seq(Rendered) /\ all = o \o rest
          BY <4>2, <4>3, <4>4, Zenon
        <5> QED BY ONLY <5>1
      <4> QED BY <4>5, Zenon DEF o
    <3>3. PICK i \in 1..N : RowsUpto(s, w, i - 1) < l /\ all[l][1] = s[i].n
      <4>1. PICK i \in 1..N : /\ RowsUpto(s, w, i - 1) < l
                              /\ all[l] = <<s[i].n, l - RowsUpto(s, w, i - 1), w>>
        <5>1. s \in Seq(Items) /\ w \in Pane!Widths /\ l \in 1..Len(Pane!Render(s, w))
          BY <1>7, <3>2, Zenon
        <5> HIDE DEF l, s, w, N
        <5>2. \E i \in 1..Len(s) :
                 /\ RowsUpto(s, w, i - 1) < l
                 /\ Pane!Render(s, w)[l] = <<s[i].n, l - RowsUpto(s, w, i - 1), w>>
          BY ONLY <5>1, OwnerOfRow, Zenon
        <5> QED BY <5>2, Zenon DEF N
      <4>2. all[l][1] = s[i].n
        BY <4>1
      <4> QED BY <4>1, <4>2
    <3>4. i <= k
      <4> DEFINE e == RowsUpto(s, w, i - 1)
      <4>1. i - 1 \in 0..N /\ i \in Nat /\ k \in Nat
        <5>1. i \in 1..N
          OBVIOUS
        <5> HIDE DEF N
        <5> QED BY <3>1, <5>1
      <4>2. k <= i - 1 => d <= e
        BY <1>7, <1>10, <3>1, <4>1, RowsGrow, Zenon
      <4>3. e \in Nat
        BY <1>7, <4>1, RowsGrow, Zenon
      <4>4. e < y + 1
        BY <3>3, Zenon
      <4> HIDE DEF e, y, N
      <4> QED BY <1>7, <1>10, <2>3, <4>1, <4>2, <4>3, <4>4
    <3>5. Pane!TopItem(p) = s[i].n
      BY <3>2, <3>3, Zenon DEF Pane!TopItem
    <3>6. q.output = SubSeq(s, k + 1, N)
      BY <1>1, <1>10, Zenon DEF SameText, Refilled, Trimmed
    <3>7. Len(q.output) = N - k /\ \A j \in 1..N - k : q.output[j] = s[k + j]
      <4>1. k \in 0..N /\ N \in k..N
        <5> HIDE DEF N
        <5> QED BY <3>1
      <4>2. s \in Seq(Items)
        BY <1>7, Zenon
      <4> HIDE DEF s
      <4>3. /\ Len(SubSeq(s, k + 1, N)) = N - k
            /\ \A j \in 1..N - k : SubSeq(s, k + 1, N)[j] = s[k + j]
        BY <4>1, <4>2, PartOfItems, Zenon
      <4> QED BY <3>6, <4>3, Zenon
    <3>8. DOMAIN q.output = 1..Len(q.output)
      BY <1>2, PaneFields, LenProperties, Zenon
    <3>9. ASSUME NEW j \in DOMAIN q.output PROVE q.output[j].n # Pane!TopItem(p)
      <4>1. j \in 1..N - k
        BY <3>7, <3>8, Zenon
      <4>2. k + j \in 1..N /\ k + j # i
        <5> HIDE DEF N
        <5> QED BY <3>1, <3>4, <4>1
      <4> QED BY <3>5, <3>7, <4>1, <4>2, Zenon DEF Apart
    <3> QED BY <3>9, Zenon DEF Kept
  <2> QED BY <2>2, <2>3
<1> QED BY <1>1, <1>9, <1>10, Zenon DEF TrimOf

LEMMA RebuildReads ==
    ASSUME Pane!PaneAssumption, NEW p, NEW m, NEW i, Fit(p, m, i), NEW q, q = Pane!Sync(Staled(p))
    PROVE  /\ q.output = p.output /\ ArmedAtEnd(q)
           /\ ~Pane!AtBottom(p) /\ Unarmed(p) => Kept(q, p)
<1> DEFINE x == Staled(p)
           f == Pane!Refill(x)
<1>1. /\ p \in Panes /\ p.yOffset <= Pane!MaxYOffset(p) /\ p.yOffset \in Nat
      /\ Pane!MaxYOffset(p) \in Nat
  BY FitFields, Zenon
<1>2. /\ x = Staled(p) /\ f = Pane!Refill(x) /\ q = Pane!Sync(x)
      /\ Pane!PaneAssumption /\ Fit(p, m, i)
  OBVIOUS
<1> HIDE DEF x, f
<1>3. f \in Panes /\ Follows(q, f, x, Pane!AtBottom(x)) /\ SameText(q, f) /\ Settled(q)
  BY ONLY <1>2, RebuiltAlike, Zenon
<1>4. /\ x.output = p.output /\ x.yOffset = p.yOffset /\ f.lines = p.lines
      /\ f.autoPageAnchor = p.autoPageAnchor /\ f.yOffset = p.yOffset
      /\ q.output = x.output
  BY ONLY <1>2, RebuiltAlike, SMT
<1>5. /\ Pane!MaxYOffset(x) = Pane!MaxYOffset(p) /\ Pane!MaxYOffset(f) = Pane!MaxYOffset(p)
      /\ Pane!MaxYOffset(q) = Pane!MaxYOffset(f)
  BY ONLY <1>2, RebuiltAlike, SMT
<1>6. q \in Panes
  BY <1>3, Zenon DEF Settled
<1>7. ArmedAtEnd(q)
  BY <1>3, <1>5, <1>6, FollowsArms, Zenon
<1>8. ASSUME ~Pane!AtBottom(p), Unarmed(p) PROVE Kept(q, p)
  <2>1. Pane!AtBottom(x) = FALSE
    <3>1. ~Pane!AtBottom(x)
      BY <1>4, <1>5, <1>8, Zenon DEF Pane!AtBottom
    <3>2. Pane!AtBottom(x) \in BOOLEAN
      BY DEF Pane!AtBottom
    <3> QED BY <3>1, <3>2
  <2>2. Unarmed(f) /\ f.yOffset <= Pane!MaxYOffset(f) /\ Follows(q, f, x, FALSE)
    BY <1>1, <1>3, <1>4, <1>5, <1>8, <2>1, Zenon DEF Unarmed
  <2>3. Pane!AtBottom(q) \/ q.yOffset = f.yOffset
    BY <1>3, <1>5, <1>6, <2>2, FollowsStays, Zenon
  <2>4. q.lines = p.lines
    BY <1>3, <1>4, Zenon DEF SameText
  <2> QED BY <1>4, <2>3, <2>4, Zenon DEF Kept, Pane!TopItem
<1> QED BY <1>4, <1>7, <1>8, Zenon

LEMMA ResizeArms ==
    ASSUME Pane!PaneAssumption, NEW p, NEW m, NEW i, Resizable(p, m, i), ArmedAtEnd(p),
           NEW h \in Nat \ {0}, NEW q, q = Pane!Resize(p, h)
    PROVE  ArmedAtEnd(q)
<1>1. CASE Pane!AtBottom(p)
  <2>1. /\ Pane!PaneAssumption /\ Resizable(p, m, i) /\ h \in Nat \ {0} /\ q = Pane!Resize(p, h)
    OBVIOUS
  <2>2. Pane!AtBottom(p) => Pane!AtBottom(q)
    BY ONLY <2>1, ResizeFits, SMT
  <2> QED BY <1>1, <2>2, Zenon DEF ArmedAtEnd
<1>2. CASE ~Pane!AtBottom(p)
  <2> DEFINE x == Pane!SetYOffset(Sized(p, h), p.yOffset)
             s == Pane!Sync(x)
             r == Placed(p, s)
             t == Pane!Trim(x)
             f == Pane!Refill(t)
             g == Pane!Refill(x)
  <2>1. /\ p \in Panes /\ x = Pane!SetYOffset(Sized(p, h), p.yOffset) /\ s = Pane!Sync(x)
        /\ r = Placed(p, s) /\ h \in Nat \ {0} /\ Resizable(p, m, i) /\ Pane!PaneAssumption
    BY Zenon DEF Resizable
  <2>2. q = Unanchored(r)
    BY <2>1, ResizeIsPlaced, Zenon
  <2>3. t = Pane!Trim(x) /\ f = Pane!Refill(t) /\ g = Pane!Refill(x)
    OBVIOUS
  <2>4. Unarmed(p) /\ p.output # <<>> /\ Pane!Over(p) <= ScrollbackSlack
    BY <1>2, Zenon DEF ArmedAtEnd, Unarmed, Resizable
  <2> HIDE DEF x, s, r, t, f, g
  <2>5. /\ x \in Panes /\ SameText(x, p) /\ x.autoPageAnchor = p.autoPageAnchor
        /\ x.yOffset <= Pane!MaxYOffset(x)
    BY ONLY <2>1, SizedPane, SMT
  <2>6. Settled(s) /\ s.output = p.output
    BY ONLY <2>1, ResizeSyncs, SMT
  <2>7. Unarmed(x) /\ x.output # <<>> /\ Pane!Over(x) <= ScrollbackSlack /\ s \in Panes
    BY <2>4, <2>5, <2>6, Zenon DEF Unarmed, SameText, Pane!Over, Settled
  <2>8. Unarmed(s)
    <3>1. CASE x.stale
      <4>1. Refilled(g, x) /\ Follows(s, g, x, Pane!AtBottom(x)) /\ g \in Panes
        BY ONLY <2>1, <2>3, <2>5, <2>7, <3>1, SyncRebuilds, Zenon
      <4>2. Pane!MaxYOffset(s) = Pane!MaxYOffset(g)
        BY ONLY <2>1, <2>3, <2>5, <2>7, <3>1, SyncRebuilds, SMT
      <4>3. Unarmed(g)
        BY <2>7, <4>1, Zenon DEF Unarmed, Refilled
      <4> QED BY <2>7, <4>1, <4>2, <4>3, FollowsArms, Zenon
    <3>2. CASE ~x.stale
      <4>1. Settled(x) /\ Filled(x)
        <5>1. Settled(x)
          BY <2>1, <2>5, <2>7, <3>2, Zenon DEF Settled, SameText, Resizable, Fit
        <5> QED BY <5>1, SettledFills, Zenon
      <4>2. TrimOf(t, x) /\ f \in Panes /\ Refilled(f, t) /\ Follows(s, f, t, Pane!AtBottom(x))
        BY ONLY <2>1, <2>3, <2>5, <3>2, <4>1, SyncAppends, Zenon
      <4>3. Pane!MaxYOffset(s) = Pane!MaxYOffset(f)
        BY ONLY <2>1, <2>3, <2>5, <3>2, <4>1, SyncAppends, SMT
      <4>4. ~(-1 >= 0)
        OBVIOUS
      <4>5. Unarmed(f)
        BY <2>7, <4>2, <4>4, Zenon DEF Unarmed, Refilled, TrimOf, Trimmed
      <4> QED BY <2>7, <4>2, <4>3, <4>5, FollowsArms, Zenon
    <3> QED BY <3>1, <3>2
  <2>9. r \in Panes /\ r.autoPageAnchor = s.autoPageAnchor
    BY ONLY <2>1, <2>6, PlacedPane, SMT
  <2>10. q.autoPageAnchor = r.autoPageAnchor
    BY ONLY <2>2, <2>9 DEF Panes, Unanchored
  <2> QED BY <2>8, <2>9, <2>10, Zenon DEF Unarmed, ArmedAtEnd
<1> QED BY <1>1, <1>2

\* Where a resize aims to leave the view
Aim(p) ==
    IF p.scrollAnchor >= 0 THEN RowsUpto(p.output, p.width, p.scrollAnchor - 1) ELSE p.yOffset

LEMMA ResizeAims ==
    ASSUME Pane!PaneAssumption, NEW p, NEW m, NEW i, Resizable(p, m, i), ~Pane!AtBottom(p),
           NEW h \in Nat \ {0}, NEW q, q = Pane!Resize(p, h)
    PROVE  Aim(p) \in Nat /\ q.yOffset = Within(Aim(p), q)
<1> DEFINE x == Pane!SetYOffset(Sized(p, h), p.yOffset)
           s == Pane!Sync(x)
           r == Placed(p, s)
           n == Aim(p)
           a == p.scrollAnchor
<1>1. /\ p \in Panes /\ x = Pane!SetYOffset(Sized(p, h), p.yOffset) /\ s = Pane!Sync(x)
      /\ r = Placed(p, s) /\ h \in Nat \ {0} /\ Resizable(p, m, i) /\ Pane!PaneAssumption
  BY Zenon DEF Resizable
<1>2. q = Unanchored(r)
  BY <1>1, ResizeIsPlaced, Zenon
<1> HIDE DEF x, s, r
<1>3. Settled(s) /\ s.output = p.output /\ s.width = p.width
  BY ONLY <1>1, ResizeSyncs, SMT
<1>4. /\ p.output \in Seq(Items) /\ p.width \in Pane!Widths /\ p.yOffset \in Nat
      /\ Len(p.output) \in Nat /\ a \in 1..Len(p.output) \cup {-1} /\ s \in Panes
  BY <1>1, <1>3, PaneFields, Zenon DEF Resizable, Settled
<1>5. n \in Nat /\ r = Pane!SetYOffset(s, n)
  <2>1. CASE a >= 0
    <3>1. a - 1 \in 0..Len(p.output)
      <4> HIDE DEF a
      <4> QED BY <1>4, <2>1
    <3>2. n = RowsUpto(p.output, p.width, a - 1)
      BY <2>1, Zenon DEF Aim
    <3>3. n = Pane!ItemStartLine(s, a)
      BY <1>3, <3>2, Zenon DEF Pane!ItemStartLine, Pane!Upto, RowsUpto
    <3>4. r = Pane!SetYOffset(s, Pane!ItemStartLine(s, a))
      BY <1>1, <2>1, Zenon DEF Placed
    <3>5. RowsUpto(p.output, p.width, a - 1) \in Nat
      <4> HIDE DEF a
      <4> QED BY <1>4, <3>1, RowsGrow, Zenon
    <3> HIDE DEF n
    <3> QED BY <3>2, <3>3, <3>4, <3>5, Zenon
  <2>2. CASE ~(a >= 0)
    <3>1. n = p.yOffset
      BY <2>2, Zenon DEF Aim
    <3>2. r = Pane!SetYOffset(s, p.yOffset)
      BY <1>1, <2>2, Zenon DEF Placed
    <3> HIDE DEF n
    <3> QED BY <1>4, <3>1, <3>2, Zenon
  <2> QED BY <2>1, <2>2
<1> HIDE DEF n
<1>6. n \in Int
  BY <1>5
<1>7. /\ r \in Panes /\ SameText(r, s) /\ SameMind(r, s) /\ r.yOffset = Within(n, s)
      /\ Pane!MaxYOffset(r) = Pane!MaxYOffset(s)
  BY ONLY <1>4, <1>5, <1>6, OffsetSet, Zenon
<1>8. q.yOffset = r.yOffset /\ q.lines = r.lines /\ q.height = r.height
  BY ONLY <1>2, <1>7 DEF Panes, Unanchored
<1>9. Pane!MaxYOffset(q) = Pane!MaxYOffset(r)
  BY <1>8, SameGreatest, Zenon
<1>10. Within(n, q) = Within(n, s)
  BY <1>7, <1>9, Zenon DEF Within
<1> QED BY <1>5, <1>7, <1>8, <1>10, Zenon DEF n

LEMMA SyncArms ==
    ASSUME Pane!PaneAssumption, NEW p, Filled(p), ~p.stale, p.yOffset <= Pane!MaxYOffset(p),
           NEW q, q = Pane!Sync(p)
    PROVE  ArmedAtEnd(q) /\ q.height = p.height
<1> DEFINE t == Pane!Trim(p)
           f == Pane!Refill(t)
<1>0. t = Pane!Trim(p) /\ f = Pane!Refill(t)
  OBVIOUS
<1> HIDE DEF t, f
<1>1. /\ f \in Panes /\ Follows(q, f, t, Pane!AtBottom(p)) /\ SameMind(q, p)
      /\ Pane!MaxYOffset(q) = Pane!MaxYOffset(f) /\ Settled(q)
  BY <1>0, SyncAppends, Zenon
<1>2. q \in Panes
  BY <1>1, Zenon DEF Settled
<1> QED BY <1>1, <1>2, FollowsArms, Zenon DEF SameMind

\* topVisibleItemIndex finds the item whose line is the first in view.
LEMMA TopOfView ==
    ASSUME NEW p, NEW m, NEW i, Fit(p, m, i), p.yOffset < Len(p.lines),
           NEW a, a = Pane!TopVisibleItem(p)
    PROVE  a \in 1..Len(p.output) /\ Pane!TopItem(p) = p.output[a].n
<1> DEFINE s == p.output
           w == p.width
           y == p.yOffset
           l == y + 1
           N == Len(s)
           below == {j \in DOMAIN s : Pane!Upto(p, j) > y}
<1>1. /\ p \in Panes /\ s \in Seq(Items) /\ w \in Pane!Widths /\ y \in Nat /\ N \in Nat \ {0}
      /\ p.lines = Pane!Render(s, w) /\ Len(p.lines) \in Nat /\ s # <<>>
  BY FitFields, Zenon DEF Fit, Settled
<1>2. l \in 1..Len(Pane!Render(s, w))
  <2>1. l \in 1..Len(p.lines)
    <3> DEFINE T == Len(p.lines)
    <3>1. T \in Nat /\ y < T
      BY <1>1, Zenon
    <3> HIDE DEF T, y
    <3>2. l \in 1..T
      BY <1>1, <3>1
    <3> QED BY <3>2, Zenon DEF T
  <2> QED BY <1>1, <2>1, Zenon
<1>3. PICK c \in 1..N : /\ RowsUpto(s, w, c - 1) < l /\ l <= RowsUpto(s, w, c)
                        /\ p.lines[l][1] = s[c].n
  <2>1. s \in Seq(Items) /\ w \in Pane!Widths /\ l \in 1..Len(Pane!Render(s, w))
    BY <1>1, <1>2, Zenon
  <2> HIDE DEF s, w, l, N
  <2>2. PICK c \in 1..Len(s) :
           /\ RowsUpto(s, w, c - 1) < l /\ l <= RowsUpto(s, w, c)
           /\ Pane!Render(s, w)[l] = <<s[c].n, l - RowsUpto(s, w, c - 1), w>>
    BY ONLY <2>1, OwnerOfRow, Zenon
  <2>3. Pane!Render(s, w)[l][1] = s[c].n
    BY <2>2
  <2> QED BY <1>1, <2>2, <2>3, Zenon DEF N, s, w
<1>4. DOMAIN s = 1..N /\ \A j \in 1..N : Pane!Upto(p, j) = RowsUpto(s, w, j)
  <2>1. DOMAIN s = 1..N
    BY <1>1, LenProperties, Zenon
  <2> QED BY <2>1, Zenon DEF Pane!Upto, RowsUpto
<1>5. c \in below
  <2> DEFINE e == RowsUpto(s, w, c)
  <2>1. e \in Nat /\ y + 1 <= e
    <3>1. c \in 0..N
      <4> HIDE DEF N
      <4> QED BY <1>1, <1>3
    <3> QED BY <1>1, <1>3, <3>1, RowsGrow, Zenon
  <2>2. c \in DOMAIN s /\ Pane!Upto(p, c) = e
    BY <1>4, Zenon
  <2> HIDE DEF e, y
  <2>3. e > y
    BY <1>1, <2>1
  <2> QED BY <2>2, <2>3, Zenon
<1>6. a = CHOOSE x \in below : \A j \in below : x <= j
  BY <1>5, Zenon DEF Pane!TopVisibleItem
<1>7. below \subseteq 1..N
  BY <1>4, Zenon
<1>8. a \in below /\ \A j \in below : a <= j
  <2> HIDE DEF below
  <2>1. below \subseteq Nat /\ below # {}
    BY <1>5, <1>7
  <2>2. \E x \in below : \A j \in below : x <= j
    BY ONLY <2>1, LeastExists, Zenon
  <2> QED BY <1>6, <2>2, Zenon
<1>9. a \in 1..N /\ a <= c /\ RowsUpto(s, w, a) > y
  BY <1>4, <1>5, <1>7, <1>8, Zenon
<1>10. a = c
  <2> DEFINE e == RowsUpto(s, w, a)
             b == RowsUpto(s, w, c - 1)
             k == c - 1
  <2>1. a \in 0..N /\ k \in 0..N /\ (a < c => a <= k)
    <3>1. a \in 1..N /\ c \in 1..N
      BY <1>9, Zenon
    <3> HIDE DEF N
    <3> QED BY <1>1, <3>1
  <2>2. RowsUpto(s, w, a) \in Nat /\ RowsUpto(s, w, k) \in Nat
        /\ (a <= k => RowsUpto(s, w, a) <= RowsUpto(s, w, k))
    <3> HIDE DEF k
    <3> QED BY <1>1, <2>1, RowsGrow, Zenon
  <2>3. b = RowsUpto(s, w, k) /\ e > y /\ b < y + 1
    BY <1>3, <1>9, Zenon
  <2>4. e \in Nat /\ b \in Nat /\ (a <= k => e <= b)
    BY <2>2, Zenon
  <2> HIDE DEF e, b, y, k
  <2>5. ~(a < c)
    BY <1>1, <2>1, <2>3, <2>4
  <2>6. a \in 1..N /\ c \in 1..N /\ a <= c
    BY <1>9, Zenon
  <2> HIDE DEF N
  <2> QED BY <1>1, <2>5, <2>6
<1> QED BY <1>3, <1>9, <1>10, Zenon DEF Pane!TopItem

\* At an unchanged width a resize leaves the view where it is, if it was not at the end.
LEMMA ResizeStays ==
    ASSUME Pane!PaneAssumption, NEW p, NEW m, NEW i, Fit(p, m, i), NEW h \in Nat \ {0},
           ~Pane!AtBottom(p), ~Pane!AtBottom(Sized(p, h)), NEW q, q = Pane!Resize(p, h)
    PROVE  q.lines = p.lines /\ q.yOffset = p.yOffset /\ ~Pane!AtBottom(q)
<1> DEFINE z == Sized(p, h)
           x == Pane!MaxYOffset(q)
           y == p.yOffset
<1>1. /\ Resizable(p, m, i) /\ p \in Panes /\ y \in Nat /\ h \in Nat \ {0} /\ Pane!PaneAssumption
      /\ q = Pane!Resize(p, h) /\ p.scrollAnchor = -1 /\ ~Pane!AtBottom(p)
  BY FitFields, FitResizes, Zenon DEF Fit
<1>2. Fit(q, m, i) /\ q.output = p.output /\ q.width = p.width /\ q.height = h
  BY ONLY <1>1, ResizeFits, SMT
<1>3. q.lines = p.lines
  BY <1>2, FitFields, Zenon
<1>4. z.lines = p.lines /\ z.height = h /\ z.yOffset = y
  BY ONLY <1>1 DEF Panes, Sized
<1>5. x = Pane!MaxYOffset(z)
  BY <1>2, <1>3, <1>4, SameGreatest, Zenon
<1>6. ~(y >= x)
  BY <1>4, <1>5, Zenon DEF Pane!AtBottom
<1>7. x \in Nat /\ q \in Panes
  BY <1>2, FitFields, Zenon
<1>8. q.yOffset = Within(Aim(p), q)
  BY ONLY <1>1, ResizeAims, SMT
<1>9. Aim(p) = y
  <2>1. ~(-1 >= 0)
    OBVIOUS
  <2> QED BY <1>1, <2>1, Zenon DEF Aim
<1>10. q.yOffset = IF y < 0 THEN 0 ELSE IF y > x THEN x ELSE y
  BY <1>8, <1>9, Zenon DEF Within
<1> HIDE DEF x, y, z
<1>11. q.yOffset = y /\ ~(q.yOffset >= x)
  BY <1>1, <1>6, <1>7, <1>10
<1>12. ~Pane!AtBottom(q)
  BY <1>11, Zenon DEF Pane!AtBottom, x
<1> QED BY <1>3, <1>11, <1>12, Zenon DEF y

LEMMA RewidthArms ==
    ASSUME NEW p, NEW m, NEW i, Fit(p, m, i), NEW w \in Pane!Widths, NEW x, x = Pane!Rewidth(p, w)
    PROVE  /\ (Pane!AtBottom(x) <=> Pane!AtBottom(p)) /\ x.autoPageAnchor = p.autoPageAnchor
           /\ x.output = p.output /\ x.width = w
           /\ w # p.width => x.scrollAnchor = Pane!TopVisibleItem(p)
<1>1. CASE w = p.width
  BY <1>1, Zenon DEF Pane!Rewidth
<1>2. CASE w # p.width
  <2> DEFINE a == Pane!TopVisibleItem(p)
  <2>1. x = [p EXCEPT !.width = w, !.stale = TRUE, !.scrollAnchor = a] /\ p \in Panes
    BY <1>2, FitFields, Zenon DEF Pane!Rewidth
  <2> HIDE DEF a
  <2>2. /\ x.output = p.output /\ x.width = w /\ x.scrollAnchor = a /\ x.lines = p.lines
        /\ x.yOffset = p.yOffset /\ x.height = p.height /\ x.autoPageAnchor = p.autoPageAnchor
    BY ONLY <2>1 DEF Panes
  <2>3. Pane!MaxYOffset(x) = Pane!MaxYOffset(p)
    BY <2>2, SameGreatest, Zenon
  <2> QED BY <2>2, <2>3, Zenon DEF Pane!AtBottom, a
<1> QED BY <1>1, <1>2

\* The first line of an item, or the end of the output if the item is nearer to it
LEMMA ItemComesUp ==
    ASSUME NEW r, NEW m, NEW i, Fit(r, m, i), NEW a \in 1..Len(r.output),
           r.yOffset = Within(RowsUpto(r.output, r.width, a - 1), r)
    PROVE  Pane!AtBottom(r) \/ Pane!TopItem(r) = r.output[a].n
<1> DEFINE s == r.output
           w == r.width
           k == a - 1
           e == RowsUpto(s, w, k)
           x == Pane!MaxYOffset(r)
           y == r.yOffset
<1>1. /\ s \in Seq(Items) /\ w \in Pane!Widths /\ x \in Nat /\ y \in Nat
      /\ Len(s) \in Nat \ {0} /\ r.lines = Pane!Render(s, w) /\ r \in Panes
  BY FitFields, Zenon
<1>2. e \in Nat
  <2>1. k \in 0..Len(s)
    <3> HIDE DEF s
    <3> QED BY <1>1 DEF s
  <2> HIDE DEF k
  <2> QED BY <1>1, <2>1, RowsGrow, Zenon
<1>3. y = IF e < 0 THEN 0 ELSE IF e > x THEN x ELSE e
  BY Zenon DEF Within
<1>4. y >= x \/ y = e
  <2> HIDE DEF e, x, y
  <2> QED BY <1>1, <1>2, <1>3
<1>5. CASE y >= x
  BY <1>5, Zenon DEF Pane!AtBottom
<1>6. CASE y = e
  <2>1. 1 \in 1..Pane!Rows(s[a], w)
    <3> DEFINE n == Pane!Rows(s[a], w)
    <3>1. n \in Nat \ {0}
      BY <1>1, RowsOfOne, Zenon
    <3> HIDE DEF n
    <3>2. 1 \in 1..n
      BY <3>1
    <3> QED BY <3>2, Zenon DEF n
  <2>2. Pane!Render(s, w)[e + 1] = <<s[a].n, 1, w>>
    BY <1>1, <2>1, RowsOfItem, Zenon
  <2>3. r.lines[r.yOffset + 1] = <<s[a].n, 1, w>>
    BY <1>1, <1>6, <2>2, Zenon
  <2>4. Pane!TopItem(r) = r.lines[r.yOffset + 1][1]
    BY Zenon DEF Pane!TopItem
  <2> DEFINE g == r.lines[r.yOffset + 1]
             n == s[a].n
  <2>5. g = <<n, 1, w>> /\ Pane!TopItem(r) = g[1]
    BY <2>3, <2>4, Zenon
  <2> HIDE DEF g, n, w
  <2>6. Pane!TopItem(r) = n
    BY ONLY <2>5
  <2> QED BY <2>6, Zenon DEF n
<1> QED BY <1>4, <1>5, <1>6

LEMMA KeptHere ==
    ASSUME NEW q, NEW p, q.lines = p.lines, q.yOffset = p.yOffset
    PROVE  Pane!TopItem(q) = Pane!TopItem(p) /\ Kept(q, p)
BY Zenon DEF Pane!TopItem, Kept

LEMMA ResizeReads ==
    ASSUME Pane!PaneAssumption, NEW p, NEW m, NEW i, Fit(p, m, i), NEW w \in Pane!Widths,
           NEW x, x = Pane!Rewidth(p, w), NEW h \in Nat \ {0}, NEW r, r = Pane!Resize(x, h)
    PROVE  /\ Fit(r, m, i) /\ r.output = p.output /\ r.height = h
           /\ ArmedAtEnd(p) => ArmedAtEnd(r)
           /\ ~Pane!AtBottom(Sized(p, h)) => Kept(r, p)
<1>1. /\ Pane!PaneAssumption /\ Fit(p, m, i) /\ w \in Pane!Widths /\ x = Pane!Rewidth(p, w)
      /\ h \in Nat \ {0} /\ r = Pane!Resize(x, h)
  OBVIOUS
<1>2. Resizable(x, m, i)
  BY ONLY <1>1, RewidthResizes, SMT
<1>3. /\ (Pane!AtBottom(x) <=> Pane!AtBottom(p)) /\ x.autoPageAnchor = p.autoPageAnchor
      /\ x.output = p.output /\ x.width = w
      /\ w # p.width => x.scrollAnchor = Pane!TopVisibleItem(p)
  BY ONLY <1>1, RewidthArms, SMT
<1>4. /\ Fit(r, m, i) /\ r.output = x.output /\ r.width = x.width /\ r.height = h
      /\ Pane!AtBottom(x) => Pane!AtBottom(r)
  BY ONLY <1>1, <1>2, ResizeFits, SMT
<1>5. ASSUME ArmedAtEnd(p) PROVE ArmedAtEnd(r)
  <2>1. ArmedAtEnd(x)
    BY <1>3, <1>5, Zenon DEF ArmedAtEnd
  <2> QED BY ONLY <1>1, <1>2, <2>1, ResizeArms, SMT
<1>6. ASSUME ~Pane!AtBottom(Sized(p, h)) PROVE Kept(r, p)
  <2>1. CASE Pane!AtBottom(x)
    BY <1>4, <2>1, Zenon DEF Kept
  <2>2. CASE ~Pane!AtBottom(x) /\ w = p.width
    <3>1. x = p
      BY <1>1, <2>2, Zenon DEF Pane!Rewidth
    <3>2. ~Pane!AtBottom(p) /\ ~Pane!AtBottom(Sized(p, h)) /\ r = Pane!Resize(p, h)
      BY <1>1, <1>6, <2>2, <3>1, Zenon
    <3>3. r.lines = p.lines /\ r.yOffset = p.yOffset
      BY ONLY <1>1, <3>2, ResizeStays, SMT
    <3> QED BY <3>3, KeptHere, Zenon
  <2>3. CASE ~Pane!AtBottom(x) /\ w # p.width
    <3> DEFINE a == Pane!TopVisibleItem(p)
    <3>1. p.yOffset < Len(p.lines)
      <4> DEFINE y == p.yOffset
                 T == Len(p.lines)
                 z == Pane!MaxYOffset(p)
                 g == p.height
      <4>1. /\ y \in Nat /\ T \in Nat /\ g \in Nat \ {0} /\ p \in Panes
            /\ z = (IF T > g THEN T - g ELSE 0) /\ ~(y >= z)
        BY <1>3, <2>3, FitFields, GreatestOffset, Zenon
      <4> HIDE DEF y, T, z, g
      <4>2. y < T
        BY <4>1
      <4> QED BY <4>2, Zenon DEF y, T
    <3>2. a \in 1..Len(p.output) /\ Pane!TopItem(p) = p.output[a].n
      BY <3>1, TopOfView, Zenon
    <3>3. a >= 0
      <4>1. Len(p.output) \in Nat
        BY FitFields, Zenon
      <4> HIDE DEF a
      <4> QED BY <3>2, <4>1
    <3>4. x.scrollAnchor = a
      BY <1>3, <2>3, Zenon
    <3> HIDE DEF a
    <3>5. Aim(x) = RowsUpto(r.output, r.width, a - 1)
      BY <1>3, <1>4, <3>3, <3>4, Zenon DEF Aim
    <3>6. ~Pane!AtBottom(x)
      BY <2>3
    <3>7. r.yOffset = Within(Aim(x), r)
      BY ONLY <1>1, <1>2, <3>6, ResizeAims, SMT
    <3>8. Pane!AtBottom(r) \/ Pane!TopItem(r) = r.output[a].n
      BY <1>3, <1>4, <3>2, <3>5, <3>7, ItemComesUp, Zenon
    <3> QED BY <1>3, <1>4, <3>2, <3>8, Zenon DEF Kept
  <2> QED BY <2>1, <2>2, <2>3
<1> QED BY <1>3, <1>4, <1>5, <1>6, Zenon

LEMMA MaybeReads ==
    ASSUME Pane!PaneAssumption, NEW p, NEW m, NEW i, Fit(p, m, i),
           NEW h \in Nat \ {0}, NEW q, q = Pane!MaybeResize(p, h)
    PROVE  /\ Fit(q, m, i) /\ q.output = p.output /\ q.height = h
           /\ ArmedAtEnd(p) => ArmedAtEnd(q)
           /\ ~Pane!AtBottom(Sized(p, h)) => Kept(q, p)
           /\ ~Pane!AtBottom(p) /\ ~Pane!AtBottom(Sized(p, h)) =>
                 q.lines = p.lines /\ q.yOffset = p.yOffset /\ ~Pane!AtBottom(q)
<1>1. CASE h = p.height
  <2>1. q = p
    BY <1>1, Zenon DEF Pane!MaybeResize
  <2>2. Kept(q, p)
    BY <2>1, KeptHere, Zenon
  <2> QED BY <1>1, <2>1, <2>2, Zenon
<1>2. CASE h # p.height
  <2> DEFINE w == p.width
             x == Pane!Rewidth(p, w)
  <2>1. x = p
    BY Zenon DEF Pane!Rewidth
  <2>2. w \in Pane!Widths /\ q = Pane!Resize(p, h) /\ q = Pane!Resize(x, h) /\ x = Pane!Rewidth(p, w)
    BY <1>2, <2>1, FitFields, Zenon DEF Pane!MaybeResize
  <2>3. Pane!PaneAssumption /\ Fit(p, m, i) /\ h \in Nat \ {0}
    OBVIOUS
  <2> HIDE DEF w, x
  <2>4. /\ Fit(q, m, i) /\ q.output = p.output /\ q.height = h
        /\ ArmedAtEnd(p) => ArmedAtEnd(q)
        /\ ~Pane!AtBottom(Sized(p, h)) => Kept(q, p)
    BY ONLY <2>2, <2>3, ResizeReads, SMT
  <2>5. ASSUME ~Pane!AtBottom(p), ~Pane!AtBottom(Sized(p, h))
        PROVE  q.lines = p.lines /\ q.yOffset = p.yOffset /\ ~Pane!AtBottom(q)
    <3>1. q = Pane!Resize(p, h) /\ ~Pane!AtBottom(p) /\ ~Pane!AtBottom(Sized(p, h))
      BY <2>2, <2>5, Zenon
    <3> QED BY ONLY <2>3, <3>1, ResizeStays, SMT
  <2> QED BY <2>4, <2>5, Zenon
<1> QED BY <1>1, <1>2

LEMMA KeptThrough ==
    ASSUME NEW r, NEW p, NEW o, Kept(r, p), p.lines = o.lines, p.yOffset = o.yOffset
    PROVE  Kept(r, o)
<1>1. Pane!TopItem(p) = Pane!TopItem(o)
  BY KeptHere, Zenon
<1> QED BY <1>1, Zenon DEF Kept

LEMMA KeptOn ==
    ASSUME NEW q, NEW r, NEW p, SameView(q, r), Kept(r, p)
    PROVE  Kept(q, p)
<1>1. Pane!TopItem(q) = Pane!TopItem(r) /\ q.output = r.output
  BY KeptHere, Zenon DEF SameView, SameText
<1>2. Pane!AtBottom(q) <=> Pane!AtBottom(r)
  BY ShownSame, Zenon
<1> QED BY <1>1, <1>2, Zenon DEF Kept

\* What a Sync that has new items to show leaves of the reader's place
LEMMA SyncedReads ==
    ASSUME Pane!PaneAssumption, NEW o, NEW m, NEW i, Fit(o, m, i), NEW items \in Seq(Items),
           Apart(o.output), Apart(items), Numbers(o.output) \cap Numbers(items) = {},
           NEW p, Extends(p, o, items), NEW q, q = Pane!Sync(p)
    PROVE  /\ Apart(q.output) /\ Numbers(q.output) \subseteq Numbers(o.output) \cup Numbers(items)
           /\ ArmedAtEnd(q) /\ q.height = o.height
           /\ ~Pane!AtBottom(o) /\ Unarmed(o) => Kept(q, o)
<1>1. /\ Filled(p) /\ ~p.stale /\ p.yOffset <= Pane!MaxYOffset(p)
      /\ (Pane!AtBottom(p) <=> Pane!AtBottom(o)) /\ p.output \in Seq(Items)
  BY ExtendedFills, Zenon
<1>2. /\ p.output = o.output \o items /\ p.lines = o.lines /\ p.yOffset = o.yOffset
      /\ p.height = o.height /\ p.autoPageAnchor = o.autoPageAnchor /\ o.output \in Seq(Items)
  BY FitFields, Zenon DEF Extends
<1>3. Apart(p.output) /\ Numbers(p.output) = Numbers(o.output) \cup Numbers(items)
  BY <1>2, JoinIsApart, Zenon
<1>4. EndOf(q.output, p.output)
  BY <1>1, SyncEnds, Zenon
<1>5. Apart(q.output) /\ Numbers(q.output) \subseteq Numbers(p.output)
  BY <1>1, <1>3, <1>4, EndIsApart, Zenon
<1>6. ArmedAtEnd(q) /\ q.height = p.height
  BY <1>1, SyncArms, Zenon
<1>7. ASSUME ~Pane!AtBottom(o), Unarmed(o) PROVE Kept(q, o)
  <2>1. ~Pane!AtBottom(p) /\ Unarmed(p)
    BY <1>1, <1>2, <1>7, Zenon DEF Unarmed
  <2>2. Kept(q, p)
    BY <1>1, <1>3, <2>1, SyncReads, Zenon
  <2> QED BY <1>2, <2>2, KeptThrough, Zenon
<1> QED BY <1>2, <1>3, <1>5, <1>6, <1>7, Zenon

LEMMA ArmReads ==
    ASSUME NEW p, NEW m \in Nat, NEW i, Fit(p, m, i), NEW q, q = Pane!Arm(p)
    PROVE  /\ SameView(q, p) /\ (Pane!AtBottom(q) <=> Pane!AtBottom(p))
           /\ ArmedAtEnd(p) => ArmedAtEnd(q)
<1>1. SameView(q, p) /\ (Pane!AtBottom(q) <=> Pane!AtBottom(p))
  <2>1. Fit(p, m, i) /\ m \in Nat /\ q = Pane!Arm(p)
    OBVIOUS
  <2>2. SameView(q, p)
    BY ONLY <2>1, ArmFits, Zenon
  <2>3. Pane!AtBottom(q) <=> Pane!AtBottom(p)
    BY ONLY <2>1, ArmFits, Zenon
  <2> QED BY ONLY <2>2, <2>3, Zenon
<1>2. CASE Pane!AtBottom(p)
  BY <1>1, <1>2, Zenon DEF ArmedAtEnd
<1>3. CASE ~Pane!AtBottom(p)
  BY <1>1, <1>3, Zenon DEF Pane!Arm
<1> QED BY <1>1, <1>2, <1>3

\* What the invariant has beside PaneInv for the reader's place: no two items have
\* the same number, and the pager is armed only where the end is in view.
ReadInv ==
    /\ Apart(pane.output)
    /\ disturbed # "loaded" => ArmedAtEnd(pane)
    /\ pane.height <= Screen

PlaceStays ==
    disturbed # "loaded" /\ ~Pane!AtBottom(Sized(pane, pane'.height)) => Kept(pane', pane)

LEMMA SizedSame ==
    ASSUME NEW p \in Panes
    PROVE  Sized(p, p.height) = p
BY DEF Panes, Sized

LEMMA HeightFits ==
    ASSUME Pane!PaneAssumption, NEW h \in Pane!Heights
    PROVE  h \in Nat \ {0} /\ h <= Screen
BY DEF Pane!PaneAssumption, Pane!Heights

\* What leaves the output alone
LEMMA SameOutputReads ==
    ASSUME ReadInv, NEW q, pane' = q, q.output = pane.output,
           disturbed' # "loaded" => ArmedAtEnd(q), q.height <= Screen
    PROVE  ReadInv'
<1>1. pane'.output = pane.output /\ pane'.height <= Screen
  BY Zenon
<1> QED BY <1>1, Zenon DEF ReadInv

LEMMA TypeReads ==
    ASSUME Pane!PaneAssumption, PaneInv, ReadInv, NEW h \in Pane!Heights, Pane!Type(h)
    PROVE  ReadInv' /\ PlaceStays
<1> DEFINE p == Pane!MaybeResize(pane, h)
           q == Pane!Arm(p)
<1>1. /\ p = Pane!MaybeResize(pane, h) /\ h \in Nat \ {0} /\ Fit(pane, made, made)
      /\ Pane!PaneAssumption /\ q = Pane!Arm(p) /\ made \in Nat /\ h <= Screen
  BY HeightFits, SeenBefore, Zenon
<1>2. /\ pane' = q /\ disturbed' = (IF Pane!AtBottom(q) THEN "no" ELSE disturbed)
     
  BY Zenon DEF Pane!AfterTyping, Pane!Type, Pane!Becomes
<1> HIDE DEF p, q
<1>3. /\ Fit(p, made, made) /\ p.output = pane.output /\ p.height = h
      /\ ArmedAtEnd(pane) => ArmedAtEnd(p)
      /\ ~Pane!AtBottom(Sized(pane, h)) => Kept(p, pane)
  BY ONLY <1>1, MaybeReads, SMT
<1>4. SameView(q, p) /\ (ArmedAtEnd(p) => ArmedAtEnd(q))
  BY <1>1, <1>3, ArmReads, Zenon
<1>5. q.output = pane.output /\ q.height = h
  BY <1>3, <1>4, Zenon DEF SameView, SameText
<1>6. disturbed' # "loaded" => ArmedAtEnd(q)
  <2>1. CASE Pane!AtBottom(q)
    BY <2>1, Zenon DEF ArmedAtEnd
  <2>2. CASE ~Pane!AtBottom(q)
    BY <1>2, <1>3, <1>4, <2>2, Zenon DEF ReadInv
  <2> QED BY <2>1, <2>2
<1>7. ReadInv'
  BY <1>1, <1>2, <1>5, <1>6, SameOutputReads, Zenon
<1>8. PlaceStays
  BY <1>2, <1>3, <1>4, <1>5, KeptOn, Zenon DEF PlaceStays
<1> QED BY <1>7, <1>8

LEMMA ToggleDebugReads ==
    ASSUME Pane!PaneAssumption, PaneInv, ReadInv, Pane!ToggleDebug
    PROVE  ReadInv' /\ PlaceStays
<1>0. PICK w \in Pane!Widths \ {pane.width} :
         Pane!AfterTyping(Pane!Arm(Pane!Resize(Pane!Rewidth(pane, w), pane.height)))
  BY Zenon DEF Pane!ToggleDebug
<1> DEFINE x == Pane!Rewidth(pane, w)
           h == pane.height
           p == Pane!Resize(x, h)
           q == Pane!Arm(p)
<1>1. /\ x = Pane!Rewidth(pane, w) /\ p = Pane!Resize(x, h) /\ h \in Nat \ {0} /\ w \in Pane!Widths
      /\ Fit(pane, made, made) /\ Pane!PaneAssumption /\ q = Pane!Arm(p) /\ made \in Nat
      /\ h <= Screen
  BY FitFields, SeenBefore, Zenon DEF ReadInv
<1>2. /\ pane' = q /\ disturbed' = (IF Pane!AtBottom(q) THEN "no" ELSE disturbed)
     
  BY <1>0, Zenon DEF Pane!AfterTyping, Pane!ToggleDebug, Pane!Becomes
<1> HIDE DEF x, p, h, q
<1>3. /\ Fit(p, made, made) /\ p.output = pane.output /\ p.height = h
      /\ ArmedAtEnd(pane) => ArmedAtEnd(p)
      /\ ~Pane!AtBottom(Sized(pane, h)) => Kept(p, pane)
  BY ONLY <1>1, ResizeReads, SMT
<1>4. SameView(q, p) /\ (ArmedAtEnd(p) => ArmedAtEnd(q))
  BY <1>1, <1>3, ArmReads, Zenon
<1>5. q.output = pane.output /\ q.height = h
  BY <1>3, <1>4, Zenon DEF SameView, SameText
<1>6. disturbed' # "loaded" => ArmedAtEnd(q)
  <2>1. CASE Pane!AtBottom(q)
    BY <2>1, Zenon DEF ArmedAtEnd
  <2>2. CASE ~Pane!AtBottom(q)
    BY <1>2, <1>3, <1>4, <2>2, Zenon DEF ReadInv
  <2> QED BY <2>1, <2>2
<1>7. ReadInv'
  BY <1>1, <1>2, <1>5, <1>6, SameOutputReads, Zenon
<1>8. PlaceStays
  BY <1>2, <1>3, <1>4, <1>5, KeptOn, Zenon DEF PlaceStays
<1> QED BY <1>7, <1>8

LEMMA WindowSizeReads ==
    ASSUME Pane!PaneAssumption, PaneInv, ReadInv, NEW w \in Pane!Widths, NEW h \in Pane!Heights,
           Pane!WindowSize(w, h)
    PROVE  ReadInv' /\ PlaceStays
<1> DEFINE x == Pane!Rewidth(pane, w)
           p == Pane!Resize(x, h)
           q == Pane!Advance(p)
<1>1. /\ x = Pane!Rewidth(pane, w) /\ p = Pane!Resize(x, h) /\ h \in Nat \ {0} /\ w \in Pane!Widths
      /\ Fit(pane, made, made) /\ Pane!PaneAssumption /\ q = Pane!Advance(p) /\ made \in Nat
      /\ h <= Screen
  BY HeightFits, SeenBefore, Zenon
<1>2. pane' = q /\ disturbed' = (IF disturbed = "no" THEN "resized" ELSE disturbed)
  BY Zenon DEF Pane!WindowSize, Pane!Resized, Pane!Becomes
<1> HIDE DEF x, p, q
<1>3. /\ Fit(p, made, made) /\ p.output = pane.output /\ p.height = h
      /\ ArmedAtEnd(pane) => ArmedAtEnd(p)
      /\ ~Pane!AtBottom(Sized(pane, h)) => Kept(p, pane)
  BY ONLY <1>1, ResizeReads, SMT
<1>4. SameView(q, p) /\ q.autoPageAnchor = p.autoPageAnchor /\ (Pane!AtBottom(q) <=> Pane!AtBottom(p))
  BY ONLY <1>1, <1>3, AdvanceFits, SMT
<1>5. q.output = pane.output /\ q.height = h
  BY <1>3, <1>4, Zenon DEF SameView, SameText
<1>6. disturbed' # "loaded" => ArmedAtEnd(q)
  <2>1. disturbed' # "loaded" => disturbed # "loaded"
    BY <1>2
  <2> QED BY <1>3, <1>4, <2>1, Zenon DEF ReadInv, ArmedAtEnd
<1>7. ReadInv'
  BY <1>1, <1>2, <1>5, <1>6, SameOutputReads, Zenon
<1>8. PlaceStays
  BY <1>2, <1>3, <1>4, <1>5, KeptOn, Zenon DEF PlaceStays
<1> QED BY <1>7, <1>8

LEMMA AnswerLandsReads ==
    ASSUME Pane!PaneAssumption, PaneInv, ReadInv, NEW h \in Pane!Heights, Pane!AnswerLands(h)
    PROVE  ReadInv' /\ PlaceStays
<1> DEFINE p == Pane!MaybeResize(pane, h)
<1>1. /\ p = Pane!MaybeResize(pane, h) /\ h \in Nat \ {0} /\ Fit(pane, made, made)
      /\ Pane!PaneAssumption /\ h <= Screen
  BY HeightFits, SeenBefore, Zenon
<1>2. pane' = p /\ disturbed' = (IF disturbed = "no" THEN "resized" ELSE disturbed)
  BY Zenon DEF Pane!AnswerLands, Pane!Resized, Pane!Becomes
<1> HIDE DEF p
<1>3. /\ Fit(p, made, made) /\ p.output = pane.output /\ p.height = h
      /\ ArmedAtEnd(pane) => ArmedAtEnd(p)
      /\ ~Pane!AtBottom(Sized(pane, h)) => Kept(p, pane)
  BY ONLY <1>1, MaybeReads, SMT
<1>4. disturbed' # "loaded" => ArmedAtEnd(p)
  <2>1. disturbed' # "loaded" => disturbed # "loaded"
    BY <1>2
  <2> QED BY <1>3, <2>1, Zenon DEF ReadInv
<1>5. ReadInv'
  BY <1>1, <1>2, <1>3, <1>4, SameOutputReads, Zenon
<1>6. PlaceStays
  BY <1>2, <1>3, Zenon DEF PlaceStays
<1> QED BY <1>5, <1>6

\* In a step that leaves the height alone, only a view that is not at its end matters.
LEMMA StayingPut ==
    ASSUME PaneInv, ReadInv, NEW q, pane' = q, q.height = pane.height,
           ~Pane!AtBottom(pane) /\ Unarmed(pane) => Kept(q, pane)
    PROVE  PlaceStays
<1>1. pane \in Panes
  BY SeenBefore, FitFields, Zenon
<1>2. Sized(pane, pane'.height) = pane
  BY <1>1, SizedSame, Zenon
<1>3. disturbed # "loaded" /\ ~Pane!AtBottom(pane) => Unarmed(pane)
  BY Zenon DEF ReadInv, ArmedAtEnd, Unarmed
<1> QED BY <1>2, <1>3, Zenon DEF PlaceStays

LEMMA ArrivingReads ==
    ASSUME Pane!PaneAssumption, PaneInv, ReadInv, NEW items \in Seq(Items), Newer(items, made),
           NEW p, Extends(p, pane, items), NEW q, q = Pane!Sync(p), pane' = q
    PROVE  ReadInv' /\ PlaceStays
<1>1. /\ Fit(pane, made, made) /\ made \in Nat /\ pane.output \in Seq(Items)
  BY FitFields, Zenon DEF PaneInv
<1>2. Numbered(pane.output, made, made)
  BY <1>1, Zenon DEF Fit, Numbered
<1>4. Apart(items) /\ Numbers(pane.output) \cap Numbers(items) = {}
  BY <1>1, <1>2, NewerIsApart, Zenon
<1>5. /\ Apart(q.output) /\ Numbers(q.output) \subseteq Numbers(pane.output) \cup Numbers(items)
      /\ ArmedAtEnd(q) /\ q.height = pane.height
      /\ ~Pane!AtBottom(pane) /\ Unarmed(pane) => Kept(q, pane)
  BY <1>1, <1>4, SyncedReads, Zenon DEF ReadInv
<1>6. PlaceStays
  BY <1>5, StayingPut, Zenon
<1>8. ReadInv'
  BY <1>5, Zenon DEF ReadInv
<1> QED BY <1>6, <1>8

LEMMA NoteReads ==
    ASSUME Pane!PaneAssumption, PaneInv, ReadInv, Pane!Note
    PROVE  ReadInv' /\ PlaceStays
<1> DEFINE items == <<Pane!Item(made + 1, 0, 1)>>
           p == Pane!Appended(pane, items)
           q == Pane!Sync(p)
<1>1. made \in Nat /\ ids \in Nat /\ pane \in Panes
  BY SeenBefore, FitFields, Zenon
<1>2. items = <<Pane!Item(made + 1, 0, 1)>>
  OBVIOUS
<1>3. p = Pane!Appended(pane, items)
  OBVIOUS
<1>4. q = Pane!Sync(p)
  OBVIOUS
<1>5. pane' = q
  BY Zenon DEF Pane!Note, Pane!Untouched, Pane!Becomes
<1> HIDE DEF items, p, q
<1>6. 0 \in 0..made /\ 1 \in Nat \ {0}
  BY <1>1
<1>7. items \in Seq(Items) /\ Newer(items, made)
  BY ONLY <1>1, <1>2, <1>6, OneMade, SMT
<1>8. Extends(p, pane, items)
  BY ONLY <1>1, <1>3, <1>7, AppendedExtends, SMT
<1> QED BY <1>4, <1>5, <1>7, <1>8, ArrivingReads, Zenon

LEMMA RecolourReads ==
    ASSUME Pane!PaneAssumption, PaneInv, ReadInv, Pane!Recolour
    PROVE  ReadInv' /\ PlaceStays
<1> DEFINE q == Pane!Sync(Staled(pane))
<1>1. q = Pane!Sync(Staled(pane)) /\ Fit(pane, made, made) /\ Pane!PaneAssumption
  BY SeenBefore, Zenon
<1>2. pane' = q
  BY Zenon DEF Pane!Recolour, Staled, Pane!Untouched, Pane!Becomes
<1> HIDE DEF q
<1>3. /\ q.output = pane.output /\ ArmedAtEnd(q)
      /\ ~Pane!AtBottom(pane) /\ Unarmed(pane) => Kept(q, pane)
  BY <1>1, RebuildReads, Zenon
<1>4. q.height = pane.height
  <2> DEFINE x == Staled(pane)
             f == Pane!Refill(x)
  <2>1. x = Staled(pane) /\ f = Pane!Refill(x) /\ q = Pane!Sync(x)
    BY <1>1, Zenon
  <2> HIDE DEF x, f
  <2>2. SameMind(x, pane) /\ SameMind(q, f) /\ f.height = pane.height
    BY ONLY <1>1, <2>1, RebuiltAlike, SMT
  <2> QED BY <2>2, Zenon DEF SameMind
<1>5. PlaceStays
  BY <1>2, <1>3, <1>4, StayingPut, Zenon
<1>6. q.height <= Screen
  BY <1>4, Zenon DEF ReadInv
<1>7. ReadInv'
  BY <1>2, <1>3, <1>6, SameOutputReads, Zenon
<1> QED BY <1>5, <1>7

\* The pane is left as it is.
LEMMA LinkReads ==
    ASSUME PaneInv, ReadInv, pane' = pane, disturbed' = disturbed
    PROVE  ReadInv' /\ PlaceStays
<1>1. Kept(pane, pane)
  BY KeptHere, Zenon
<1>2. PlaceStays
  BY <1>1, Zenon DEF PlaceStays
<1>3. ReadInv'
  BY Zenon DEF ReadInv
<1> QED BY <1>2, <1>3

LEMMA ReceiveReads ==
    ASSUME Pane!PaneAssumption, PaneInv, ReadInv, NEW size \in Sizes, Pane!Receive(size)
    PROVE  ReadInv' /\ PlaceStays
<1> DEFINE items == <<Pane!Item(made + 1, ids + 1, size)>>
           a == Pane!Appended(pane, items)
           p == Pane!Advance(a)
           q == Pane!Sync(p)
<1>1. /\ items = <<Pane!Item(made + 1, ids + 1, size)>>
      /\ a = Pane!Appended(pane, items) /\ p = Pane!Advance(a) /\ q = Pane!Sync(p)
  OBVIOUS
<1>2. /\ pane' = (IF ids + 1 \in processedIDs THEN pane ELSE q)
      /\ disturbed' = disturbed
  BY Zenon DEF Pane!Receive, Pane!Untouched, Pane!Becomes
<1> HIDE DEF items, a, p, q
<1>3. size \in Nat \ {0}
  BY DEF Pane!PaneAssumption
<1>4. items \in Seq(Items) /\ Newer(items, made) /\ Extends(p, pane, items)
  BY <1>1, <1>3, ReceiveSees, Zenon
<1>5. CASE ids + 1 \in processedIDs
  BY <1>2, <1>5, LinkReads, Zenon
<1>6. CASE ids + 1 \notin processedIDs
  BY <1>1, <1>2, <1>4, <1>6, ArrivingReads, Zenon
<1> QED BY <1>5, <1>6

LEMMA ReloginReads ==
    ASSUME PaneInv, ReadInv, Pane!Relogin
    PROVE  ReadInv' /\ PlaceStays
<1> DEFINE q == Pane!ResetSessionIDs(pane)
           s == pane.output
           r == NoIds(s)
<1>1. pane \in Panes /\ s \in Seq(Items) /\ pane.width \in Pane!Widths
  BY SeenBefore, FitFields, Zenon
<1>2. pane' = q /\ disturbed' = disturbed
  BY Zenon DEF Pane!Relogin
<1>3. /\ r \in Seq(Items) /\ Len(r) = Len(s) /\ \A k \in 1..Len(s) : r[k].n = s[k].n
  BY <1>1, IdsReset, Zenon
<1>4. q = [pane EXCEPT !.lastSeenID = 0, !.output = r]
  BY DEF Pane!ResetSessionIDs, Panes, NoIds
<1> HIDE DEF q, r, s
<1>5. /\ q.output = r /\ q.lines = pane.lines /\ q.height = pane.height
      /\ q.yOffset = pane.yOffset /\ q.autoPageAnchor = pane.autoPageAnchor
  BY ONLY <1>1, <1>4 DEF Panes
<1>6. Pane!AtBottom(q) <=> Pane!AtBottom(pane)
  <2>1. Pane!MaxYOffset(q) = Pane!MaxYOffset(pane)
    BY <1>5, SameGreatest, Zenon
  <2> QED BY <1>5, <2>1, Zenon DEF Pane!AtBottom
<1>7. Kept(q, pane)
  BY <1>5, KeptHere, Zenon
<1>8. Apart(r)
  BY <1>3, Zenon DEF ReadInv, Apart, s
<1>9. ReadInv'
  <2>1. disturbed # "loaded" => ArmedAtEnd(q)
    BY <1>5, <1>6, Zenon DEF ReadInv, ArmedAtEnd
  <2>2. q.height <= Screen
    BY <1>5, Zenon DEF ReadInv
  <2> QED BY <1>2, <1>5, <1>8, <2>1, <2>2, Zenon DEF ReadInv
<1> QED BY <1>2, <1>7, <1>9, Zenon DEF PlaceStays

\* What a key of the user leaves in the end, wherever it took the view
LEMMA TouchedReads ==
    ASSUME PaneInv, ReadInv, NEW p, Fit(p, made, made), ArmedAtEnd(p), p.output = pane.output,
           p.height = pane.height, NEW q, q = Pane!Arm(p), Pane!Becomes(q)
    PROVE  ReadInv'
<1>1. made \in Nat
  BY SeenBefore, Zenon
<1>2. SameView(q, p) /\ ArmedAtEnd(q)
  BY <1>1, ArmReads, Zenon
<1>3. q.output = pane.output /\ q.height = pane.height
  BY <1>2, Zenon DEF SameView, SameText
<1>4. pane' = q
  BY Zenon DEF Pane!Becomes
<1>5. q.height <= Screen
  BY <1>3, Zenon DEF ReadInv
<1> QED BY <1>2, <1>3, <1>4, <1>5, SameOutputReads, Zenon

LEMMA DisarmReads ==
    ASSUME NEW p, NEW m, NEW i, Fit(p, m, i), NEW q, q = Pane!Disarm(p)
    PROVE  q.output = p.output /\ q.height = p.height /\ Unarmed(q) /\ Fit(q, m, i)
<1>1. Fit(p, m, i) /\ -1 \in Anchors /\ q = Anchored(p, -1)
  BY DEF Pane!Disarm, Anchored, Anchors
<1>2. Fit(q, m, i) /\ SameView(q, p) /\ q.autoPageAnchor = -1
  BY ONLY <1>1, AnchorFits, SMT
<1>3. ~(-1 >= 0)
  OBVIOUS
<1> QED BY <1>2, <1>3, Zenon DEF SameView, SameText, Unarmed

LEMMA ScrollBackReads ==
    ASSUME PaneInv, ReadInv, Pane!ScrollBack
    PROVE  ReadInv'
<1> DEFINE d == Pane!Disarm(pane)
<1>0. d = Pane!Disarm(pane)
  OBVIOUS
<1> HIDE DEF d
<1>1. Fit(d, made, made) /\ d.output = pane.output /\ d.height = pane.height /\ Unarmed(d)
  BY <1>0, SeenBefore, DisarmReads, Zenon
<1>2. PICK p \in Pane!Back(d) : Pane!Touched(Pane!Arm(p))
  BY <1>0, Zenon DEF Pane!ScrollBack
<1>3. PICK n \in Int : p = Pane!SetYOffset(d, n)
  <2>1. d.yOffset - d.height \in Int /\ d.yOffset - 1 \in Int /\ 0 \in Int
    <3>1. d.yOffset \in Nat /\ d.height \in Nat \ {0}
      BY <1>1, FitFields, Zenon
    <3> QED BY <3>1
  <2> QED BY <1>2, <2>1, Zenon DEF Pane!Back
<1>4. Fit(p, made, made) /\ SameText(p, d) /\ SameMind(p, d) /\ p.autoPageAnchor = d.autoPageAnchor
  BY <1>1, <1>3, MoveFits, Zenon
<1>5. p.output = pane.output /\ p.height = pane.height /\ ArmedAtEnd(p)
  BY <1>1, <1>4, Zenon DEF SameText, SameMind, Unarmed, ArmedAtEnd
<1>6. Pane!Becomes(Pane!Arm(p))
  BY <1>2, Zenon DEF Pane!Touched, Pane!ScrollBack
<1> QED BY <1>4, <1>5, <1>6, TouchedReads, Zenon

LEMMA AdvanceReads ==
    ASSUME PaneInv, NEW p, Fit(p, made, made), NEW q, q = Pane!Advance(p)
    PROVE  /\ Fit(q, made, made) /\ q.output = p.output /\ q.height = p.height
           /\ q.autoPageAnchor = p.autoPageAnchor
<1>1. Fit(p, made, made) /\ q = Pane!Advance(p) /\ made \in Nat
  BY Zenon DEF PaneInv
<1>2. Fit(q, made, made) /\ SameView(q, p) /\ q.autoPageAnchor = p.autoPageAnchor
  BY ONLY <1>1, AdvanceFits, SMT
<1> QED BY <1>2, Zenon DEF SameView, SameText

LEMMA ScrollOnReads ==
    ASSUME PaneInv, ReadInv, Pane!ScrollOn
    PROVE  ReadInv'
<1> DEFINE d == Pane!Disarm(pane)
<1>0. d = Pane!Disarm(pane)
  OBVIOUS
<1> HIDE DEF d
<1>1. Fit(d, made, made) /\ d.output = pane.output /\ d.height = pane.height /\ Unarmed(d)
  BY <1>0, SeenBefore, DisarmReads, Zenon
<1>2. PICK p \in Pane!Forward(d) : Pane!Touched(Pane!Arm(Pane!Advance(p)))
  BY <1>0, Zenon DEF Pane!ScrollOn
<1>3. Fit(p, made, made) /\ SameText(p, d) /\ SameMind(p, d) /\ p.autoPageAnchor = d.autoPageAnchor
  <2>1. d.yOffset + d.height \in Int /\ d.yOffset + 1 \in Int
    <3>1. d.yOffset \in Nat /\ d.height \in Nat \ {0}
      BY <1>1, FitFields, Zenon
    <3> QED BY <3>1
  <2>2. ASSUME NEW n \in Int, p = Pane!SetYOffset(d, n)
        PROVE  /\ Fit(p, made, made) /\ SameText(p, d) /\ SameMind(p, d)
               /\ p.autoPageAnchor = d.autoPageAnchor
    BY <1>1, <2>2, MoveFits, Zenon
  <2>3. ASSUME p = Pane!GotoBottom(d)
        PROVE  /\ Fit(p, made, made) /\ SameText(p, d) /\ SameMind(p, d)
               /\ p.autoPageAnchor = d.autoPageAnchor
    BY <1>1, <2>3, BottomFits, Zenon
  <2> QED BY <1>2, <2>1, <2>2, <2>3, Zenon DEF Pane!Forward
<1> DEFINE a == Pane!Advance(p)
<1>4. Pane!Becomes(Pane!Arm(a)) /\ a = Pane!Advance(p)
  BY <1>2, Zenon DEF Pane!Touched, Pane!ScrollOn
<1> HIDE DEF a
<1>5. /\ Fit(a, made, made) /\ a.output = p.output /\ a.height = p.height
      /\ a.autoPageAnchor = p.autoPageAnchor
  BY <1>3, <1>4, AdvanceReads, Zenon
<1>6. a.output = pane.output /\ a.height = pane.height /\ ArmedAtEnd(a)
  BY <1>1, <1>3, <1>5, Zenon DEF SameText, SameMind, Unarmed, ArmedAtEnd
<1> QED BY <1>4, <1>5, <1>6, TouchedReads, Zenon

LEMMA AdvancePagerReads ==
    ASSUME PaneInv, ReadInv, Pane!AdvancePager
    PROVE  ReadInv'
<1> DEFINE n == pane.yOffset + pane.height
           p == Pane!SetYOffset(pane, n)
           a == Pane!Advance(p)
           d == Pane!Disarm(a)
<1>1. Fit(pane, made, made) /\ n \in Int
  <2>1. pane.yOffset \in Nat /\ pane.height \in Nat \ {0} /\ Fit(pane, made, made)
    BY SeenBefore, FitFields, Zenon
  <2> QED BY <2>1
<1>2. p = Pane!SetYOffset(pane, n) /\ a = Pane!Advance(p) /\ d = Pane!Disarm(a)
  OBVIOUS
<1>3. Pane!Becomes(Pane!Arm(d))
  BY Zenon DEF Pane!Touched, Pane!AdvancePager
<1> HIDE DEF n, p, a, d
<1>4. Fit(p, made, made) /\ SameText(p, pane) /\ SameMind(p, pane)
  BY <1>1, <1>2, MoveFits, Zenon
<1>5. Fit(a, made, made) /\ a.output = p.output /\ a.height = p.height
  BY <1>2, <1>4, AdvanceReads, Zenon
<1>6. Fit(d, made, made) /\ d.output = a.output /\ d.height = a.height /\ Unarmed(d)
  BY <1>2, <1>5, DisarmReads, Zenon
<1>7. d.output = pane.output /\ d.height = pane.height /\ ArmedAtEnd(d)
  BY <1>4, <1>5, <1>6, Zenon DEF SameText, SameMind, Unarmed, ArmedAtEnd
<1> QED BY <1>3, <1>6, <1>7, TouchedReads, Zenon

LEMMA RestoreReads ==
    ASSUME NEW p \in Panes, NEW stored, NEW q, q = Pane!Restore(p, stored)
    PROVE  q.output = p.output /\ q.height = p.height
<1>1. PICK a, b : q = [[p EXCEPT !.yOffset = a] EXCEPT !.lastSeenID = b]
  BY Zenon DEF Pane!Restore, Pane!SetYOffset
<1> QED BY ONLY p \in Panes, <1>1 DEF Panes

LEMMA LoadReads ==
    ASSUME Pane!PaneAssumption, PaneInv, ReadInv, NEW x \in answers, Pane!Load(x)
    PROVE  ReadInv'
<1>1. PICK items, p, q :
              /\ items \in Seq(Items) /\ Newer(items, made) /\ Numbered(items, made', made')
              /\ made' \in Nat /\ made <= made'
              /\ Extends(p, pane, items) /\ p.lastSeenID = pane.lastSeenID /\ q = Pane!Sync(p)
              /\ pane' = IF x.mark > 0 THEN Pane!Restore(q, x.mark) ELSE q
  BY LoadLeaves, Zenon
<1>2. Fit(pane, made, made) /\ made \in Nat /\ pane.output \in Seq(Items) /\ Pane!PaneAssumption
  BY FitFields, Zenon DEF PaneInv
<1>3. Apart(items) /\ Numbers(pane.output) \cap Numbers(items) = {}
  <2>1. Numbered(pane.output, made, made)
    BY <1>2, Zenon DEF Fit, Numbered
  <2> QED BY <1>1, <1>2, <2>1, NewerIsApart, Zenon
<1>4. Apart(q.output) /\ q.height = pane.height
  BY <1>1, <1>2, <1>3, SyncedReads, Zenon DEF ReadInv
<1>5. q \in Panes
  <2> DEFINE n == made'
  <2>1. n \in Nat /\ made <= n /\ Numbered(items, n, n) /\ items \in Seq(Items)
    BY <1>1, Zenon
  <2> HIDE DEF n
  <2>2. Extends(p, pane, items) /\ q = Pane!Sync(p)
    BY <1>1, Zenon
  <2>3. Fit(q, n, n)
    BY ONLY <1>2, <2>1, <2>2, ExtendedSyncs, SMT
  <2> QED BY <2>3, FitFields, Zenon
<1>6. pane'.output = q.output /\ pane'.height = q.height
  BY <1>1, <1>5, RestoreReads, Zenon
<1>7. disturbed' = "loaded"
  BY Zenon DEF Pane!Load
<1> QED BY <1>4, <1>6, <1>7, Zenon DEF ReadInv

LEMMA ReadBegins ==
    ASSUME Pane!PaneAssumption, Pane!Init
    PROVE  ReadInv
<1> DEFINE s == <<Pane!Item(1, 0, 1)>>
<1>1. pane.output = s /\ pane.height = Screen /\ pane.autoPageAnchor = -1
  BY Zenon DEF Pane!Init
<1>2. Len(s) = 1
  OBVIOUS
<1> HIDE DEF s
<1>3. \A j, k \in 1..Len(s) : j = k
  BY <1>2
<1>4. Apart(s)
  BY <1>3, Zenon DEF Apart
<1>5. ~(-1 >= 0)
  OBVIOUS
<1>6. ArmedAtEnd(pane)
  BY <1>1, <1>5, Zenon DEF ArmedAtEnd
<1>7. pane.height <= Screen
  BY <1>1 DEF Pane!PaneAssumption
<1> QED BY <1>1, <1>4, <1>6, <1>7, Zenon DEF ReadInv

\* A view that is at its end is at its end when it grows.
LEMMA TallerEnds ==
    ASSUME NEW p \in Panes, NEW h \in Nat \ {0}, p.height <= h, Pane!AtBottom(p)
    PROVE  Pane!AtBottom(Sized(p, h))
<1> DEFINE z == Sized(p, h)
           x == Pane!MaxYOffset(p)
           u == Pane!MaxYOffset(z)
           y == p.yOffset
           T == Len(p.lines)
           g == p.height
<1>1. p \in Panes /\ z = Sized(p, h) /\ h \in Nat \ {0}
  OBVIOUS
<1> HIDE DEF z
<1>2. z \in Panes /\ z.lines = p.lines /\ z.yOffset = y /\ z.height = h
  BY ONLY <1>1 DEF Panes, Sized
<1>3. x = (IF T > g THEN T - g ELSE 0) /\ u = (IF T > h THEN T - h ELSE 0)
  BY <1>2, GreatestOffset, Zenon
<1>4. y \in Nat /\ T \in Nat /\ g \in Nat \ {0} /\ y >= x /\ g <= h
  BY PaneFields, GreatestOffset, Zenon
<1> HIDE DEF x, u, y, T, g
<1>5. y >= u
  BY <1>3, <1>4
<1> QED BY <1>1, <1>2, <1>5, Zenon DEF Pane!AtBottom, u

\* Of two panes that show the same, either stands for the other under another height.
LEMMA SizedAlike ==
    ASSUME NEW p \in Panes, NEW q \in Panes, SameView(q, p), NEW h
    PROVE  Pane!AtBottom(Sized(q, h)) <=> Pane!AtBottom(Sized(p, h))
<1> DEFINE a == Sized(p, h)
           b == Sized(q, h)
<1>1. a = Sized(p, h) /\ b = Sized(q, h) /\ p \in Panes /\ q \in Panes
  OBVIOUS
<1> HIDE DEF a, b
<1>2. a.lines = p.lines /\ a.yOffset = p.yOffset /\ a.height = h
  BY ONLY <1>1 DEF Panes, Sized
<1>3. b.lines = q.lines /\ b.yOffset = q.yOffset /\ b.height = h
  BY ONLY <1>1 DEF Panes, Sized
<1>4. b.lines = a.lines /\ b.yOffset = a.yOffset /\ b.height = a.height
  BY <1>2, <1>3, Zenon DEF SameView, SameText
<1>5. Pane!MaxYOffset(b) = Pane!MaxYOffset(a)
  BY <1>4, SameGreatest, Zenon
<1> QED BY <1>1, <1>4, <1>5, Zenon DEF Pane!AtBottom

\* What a submit leaves of the view before the answer
LEMMA SubmitViews ==
    ASSUME Pane!PaneAssumption, PaneInv, ReadInv, NEW on \in BOOLEAN,
           NEW p, p = Pane!MaybeResize(Pane!Anchored(pane), Screen),
           NEW q, q = Paging(p, on)
    PROVE  /\ Fit(q, made, made) /\ q.output = pane.output /\ q.height = Screen
           /\ ~Pane!AtBottom(Sized(pane, Screen)) =>
                 /\ q.lines = pane.lines /\ q.yOffset = pane.yOffset
                 /\ ~Pane!AtBottom(q) /\ Unarmed(q)
<1> DEFINE a == IF Pane!AtBottom(pane) THEN Pane!Total(pane) ELSE -1
           o == Anchored(pane, a)
<1>0. /\ Fit(pane, made, made) /\ pane \in Panes /\ Len(pane.lines) \in Nat
      /\ Screen \in Nat \ {0} /\ Pane!PaneAssumption /\ made \in Nat
  BY SeenBefore, FitFields, HeightIsNat, Zenon
<1>1. a \in Anchors
  BY <1>0 DEF Anchors, Pane!Total
<1>2. o = Pane!Anchored(pane)
  BY Zenon DEF Pane!Anchored, Anchored
<1>3. o = Anchored(pane, a)
  OBVIOUS
<1>4. ~Pane!AtBottom(pane) => a = -1
  BY Zenon
<1> HIDE DEF a, o
<1>5. /\ Fit(o, made, made) /\ SameView(o, pane) /\ o.autoPageAnchor = a
      /\ (Pane!AtBottom(o) <=> Pane!AtBottom(pane))
  BY ONLY <1>0, <1>1, <1>3, AnchorFits, SMT
<1>6. p = Pane!MaybeResize(o, Screen)
  BY <1>2, Zenon
<1>7. /\ Fit(p, made, made) /\ p.output = o.output /\ p.height = Screen
      /\ ArmedAtEnd(o) => ArmedAtEnd(p)
  BY ONLY <1>0, <1>5, <1>6, MaybeReads, SMT
<1>8. /\ ~Pane!AtBottom(o) /\ ~Pane!AtBottom(Sized(o, Screen)) =>
            p.lines = o.lines /\ p.yOffset = o.yOffset /\ ~Pane!AtBottom(p)
  BY ONLY <1>0, <1>5, <1>6, MaybeReads, SMT
<1>9. p \in Panes /\ p.autoPageAnchor \in Anchors /\ p.lastSeenID \in Nat
  BY <1>7, FitFields, Zenon DEF Anchors
<1>10. q = Minded(p, p.autoPageAnchor, p.lastSeenID, on)
  BY <1>9 DEF Minded, Panes, Paging
<1>11. on \in BOOLEAN
  OBVIOUS
<1>12. /\ Fit(q, made, made) /\ SameView(q, p) /\ q.autoPageAnchor = p.autoPageAnchor
       /\ (Pane!AtBottom(q) <=> Pane!AtBottom(p))
  BY ONLY <1>7, <1>9, <1>10, <1>11, MindFits, SMT
<1>13. q.output = pane.output /\ q.height = Screen
  BY <1>5, <1>7, <1>12, Zenon DEF SameView, SameText
<1>14. ASSUME ~Pane!AtBottom(Sized(pane, Screen))
       PROVE  /\ q.lines = pane.lines /\ q.yOffset = pane.yOffset
              /\ ~Pane!AtBottom(q) /\ Unarmed(q)
  <2>1. ~Pane!AtBottom(pane)
    BY <1>0, <1>14, TallerEnds, Zenon DEF ReadInv
  <2>2. o \in Panes
    BY <1>5, FitFields, Zenon
  <2>3. ~Pane!AtBottom(Sized(o, Screen)) /\ ~Pane!AtBottom(o)
    BY <1>0, <1>5, <1>14, <2>1, <2>2, SizedAlike, Zenon
  <2>4. p.lines = o.lines /\ p.yOffset = o.yOffset /\ ~Pane!AtBottom(p)
    BY <1>8, <2>3, Zenon
  <2>5. ~(-1 >= 0)
    OBVIOUS
  <2>6. ArmedAtEnd(o)
    BY <1>4, <1>5, <2>1, <2>5, Zenon DEF ArmedAtEnd
  <2>7. Unarmed(p)
    BY <1>7, <2>4, <2>6, Zenon DEF ArmedAtEnd, Unarmed
  <2> QED BY <1>5, <1>12, <2>4, <2>7, Zenon DEF SameView, SameText, Unarmed
<1> QED BY <1>12, <1>13, <1>14, Zenon

LEMMA SubmitReads ==
    ASSUME Pane!PaneAssumption, PaneInv, ReadInv, NEW local \in BOOLEAN, NEW on \in BOOLEAN,
           Pane!Submit(local, on)
    PROVE  ReadInv' /\ PlaceStays
<1> DEFINE p == Pane!MaybeResize(Pane!Anchored(pane), Screen)
           q == Paging(p, on)
           two == Answer(made)
           x == IF local THEN Pane!Appended(q, two) ELSE q
           r == Pane!Sync(x)
           items == IF local THEN two ELSE <<>>
<1>0. /\ p = Pane!MaybeResize(Pane!Anchored(pane), Screen) /\ q = Paging(p, on)
      /\ two = Answer(made) /\ r = Pane!Sync(x)
  OBVIOUS
<1>1. x = IF local THEN Pane!Appended(q, two) ELSE q
  OBVIOUS
<1>2. pane' = r
  <2>1. CASE local
    BY <2>1, Zenon DEF Pane!Submit, Paging, Answer, Pane!Becomes
  <2>2. CASE ~local
    BY <2>2, Zenon DEF Pane!Submit, Paging, Pane!Becomes
  <2> QED BY <2>1, <2>2
<1>3. items = IF local THEN two ELSE <<>>
  OBVIOUS
<1> HIDE DEF p, q, x, r, two, items
<1>4. /\ made \in Nat /\ ids \in Nat /\ Fit(pane, made, made) /\ pane.output \in Seq(Items) /\ Pane!PaneAssumption
  BY FitFields, Zenon DEF PaneInv
<1>5. /\ Fit(q, made, made) /\ q.output = pane.output /\ q.height = Screen
      /\ ~Pane!AtBottom(Sized(pane, Screen)) =>
            /\ q.lines = pane.lines /\ q.yOffset = pane.yOffset
            /\ ~Pane!AtBottom(q) /\ Unarmed(q)
  BY <1>0, SubmitViews, Zenon
<1>6. items \in Seq(Items) /\ Extends(x, q, items) /\ Newer(items, made)
  <2>1. q \in Panes
    BY <1>5, FitFields, Zenon
  <2>2. CASE local
    <3>1. two \in Seq(Items) /\ Newer(two, made)
      BY ONLY <1>0, <1>4, TwoMade, SMT
    <3>2. Extends(x, q, two)
      <4>1. x = Pane!Appended(q, two)
        BY <1>1, <2>2, Zenon
      <4> QED BY ONLY <2>1, <3>1, <4>1, AppendedExtends, SMT
    <3> QED BY <1>3, <2>2, <3>1, <3>2, Zenon
  <2>3. CASE ~local
    <3>1. x = q /\ items = <<>>
      BY <1>1, <1>3, <2>3, Zenon
    <3> QED BY <1>4, <2>1, <3>1, NoneMade, Zenon
  <2> QED BY <2>2, <2>3
<1>8. Apart(items) /\ Numbers(pane.output) \cap Numbers(items) = {}
  <2>1. Numbered(pane.output, made, made)
    BY <1>4, Zenon DEF Fit, Numbered
  <2> QED BY <1>4, <1>6, <2>1, NewerIsApart, Zenon
<1>9. Apart(q.output) /\ Numbers(q.output) \cap Numbers(items) = {}
  BY <1>5, <1>8, Zenon DEF ReadInv
<1>10. /\ Apart(r.output) /\ Numbers(r.output) \subseteq Numbers(q.output) \cup Numbers(items)
       /\ ArmedAtEnd(r) /\ r.height = q.height
       /\ ~Pane!AtBottom(q) /\ Unarmed(q) => Kept(r, q)
  <2>1. /\ Fit(q, made, made) /\ items \in Seq(Items) /\ Apart(q.output) /\ Apart(items)
        /\ Numbers(q.output) \cap Numbers(items) = {} /\ Extends(x, q, items) /\ r = Pane!Sync(x)
        /\ Pane!PaneAssumption
    BY <1>0, <1>5, <1>6, <1>8, <1>9, Zenon
  <2> QED BY ONLY <2>1, SyncedReads, Zenon
<1>11. PlaceStays
  <2> SUFFICES ASSUME ~Pane!AtBottom(Sized(pane, pane'.height)) PROVE Kept(pane', pane)
    BY Zenon DEF PlaceStays
  <2>1. pane'.height = Screen
    BY <1>2, <1>5, <1>10, Zenon
  <2>2. q.lines = pane.lines /\ q.yOffset = pane.yOffset /\ ~Pane!AtBottom(q) /\ Unarmed(q)
    BY <1>5, <2>1, Zenon
  <2>3. Kept(r, q)
    BY <1>10, <2>2, Zenon
  <2> QED BY <1>2, <2>2, <2>3, KeptThrough, Zenon
<1>13. r.height <= Screen
  <2>1. Screen <= Screen
    BY DEF Pane!PaneAssumption
  <2> QED BY <1>5, <1>10, <2>1, Zenon
<1>15. ReadInv'
  BY <1>2, <1>10, <1>13, Zenon DEF ReadInv
<1> QED BY <1>11, <1>15

LEMMA ReadGoesOn ==
    ASSUME Pane!PaneAssumption, PaneInv, ReadInv, [Pane!Next]_Pane!vars
    PROVE  ReadInv' /\ (PlaceStays \/ Pane!UserMoves)
<1> DEFINE Goal == ReadInv' /\ (PlaceStays \/ Pane!UserMoves)
<1> USE DEF Goal
<1>1. CASE Pane!ScrollBack
  BY <1>1, ScrollBackReads, Zenon DEF Pane!UserMoves
<1>2. CASE Pane!ScrollOn
  BY <1>2, ScrollOnReads, Zenon DEF Pane!UserMoves
<1>3. CASE Pane!AdvancePager
  BY <1>3, AdvancePagerReads, Zenon DEF Pane!UserMoves
<1>4. CASE Pane!ToggleDebug
  BY <1>4, ToggleDebugReads, Zenon
<1>5. ASSUME NEW local \in BOOLEAN, NEW on \in BOOLEAN, Pane!Submit(local, on) PROVE Goal
  BY <1>5, SubmitReads, Zenon
<1>6. ASSUME NEW h \in Pane!Heights, Pane!Type(h) PROVE Goal
  BY <1>6, TypeReads, Zenon
<1>7. ASSUME NEW h \in Pane!Heights, Pane!AnswerLands(h) PROVE Goal
  BY <1>7, AnswerLandsReads, Zenon
<1>8. ASSUME NEW size \in Sizes, Pane!Receive(size) PROVE Goal
  BY <1>8, ReceiveReads, Zenon
<1>9. ASSUME NEW size \in Sizes, Pane!MissMessage(size) PROVE Goal
  BY <1>9, LinkReads, Zenon DEF Pane!MissMessage, Pane!Untouched, Pane!Becomes
<1>10. ASSUME NEW w \in Pane!Widths, NEW h \in Pane!Heights, Pane!WindowSize(w, h) PROVE Goal
  BY <1>10, WindowSizeReads, Zenon
<1>11. CASE Pane!Note
  BY <1>11, NoteReads, Zenon
<1>12. CASE Pane!Recolour
  BY <1>12, RecolourReads, Zenon
<1>13. CASE Pane!Disconnect
  BY <1>13, LinkReads, Zenon DEF Pane!Disconnect, Pane!Untouched, Pane!Becomes
<1>14. CASE Pane!Resume
  BY <1>14, LinkReads, Zenon DEF Pane!Resume, Pane!Untouched, Pane!Becomes
<1>15. CASE Pane!Relogin
  BY <1>15, ReloginReads, Zenon
<1>16. ASSUME NEW x \in answers, Pane!Load(x) PROVE Goal
  BY <1>16, LoadReads, Zenon DEF Pane!UserMoves
<1>18. CASE Pane!AnswerState
  BY <1>18, LinkReads, Zenon DEF Pane!AnswerState, Pane!Untouched, Pane!Becomes
<1>17. CASE UNCHANGED Pane!vars
  <2>1. pane' = pane /\ disturbed' = disturbed
    BY <1>17 DEF Pane!vars
  <2> QED BY <2>1, LinkReads, Zenon
<1> QED
  BY <1>1, <1>2, <1>3, <1>4, <1>5, <1>6, <1>7, <1>8, <1>9, <1>10, <1>11, <1>12, <1>13, <1>14,
     <1>15, <1>16, <1>17, <1>18, Zenon DEF Pane!Next

\* A reader who has scrolled back keeps the item at the top of the view, in every
\* step that he does not move the view by himself: output, trimming, resizes of the
\* window and of the input area, unless the view grows to the end or the item falls
\* out.  (ui.go updateViewportSize, topVisibleItemIndex, syncViewportContent, TrimTop)
THEOREM PaneKeepsPlace ==
    ASSUME Pane!PaneAssumption
    PROVE  Pane!Spec => ViewHolds
<1>1. Pane!Init => PaneInv /\ ReadInv
  BY PaneBegins, ReadBegins
<1>2. PaneInv /\ ReadInv /\ [Pane!Next]_Pane!vars => (PaneInv /\ ReadInv)'
  BY PaneGoesOn, ReadGoesOn
<1>3. PaneInv /\ ReadInv /\ [Pane!Next]_Pane!vars =>
        [disturbed # "loaded" /\ ~Pane!AtBottom([pane EXCEPT !.height = pane'.height])
            /\ ~Pane!UserMoves =>
           \/ Pane!AtBottom(pane') \/ Pane!TopItem(pane') = Pane!TopItem(pane)
           \/ \A i \in DOMAIN pane'.output : pane'.output[i].n # Pane!TopItem(pane)]_Pane!vars
  <2>1. PaneInv /\ ReadInv /\ [Pane!Next]_Pane!vars => PlaceStays \/ Pane!UserMoves
    BY ReadGoesOn, Zenon
  <2> QED BY <2>1, Zenon DEF PlaceStays, Kept, Sized
<1> QED BY <1>1, <1>2, <1>3, PTL DEF Pane!Spec, Pane!ViewHolds, ViewHolds
=============================================================================
