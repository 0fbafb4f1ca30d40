---- MODULE MCAutomation ----
(* Automatons on small instances: a client, a timer goroutine and the triggers and
   jobs below; and a bot.  part says which runs; they do not interact. *)
EXTENDS Automatons, TLC

CONSTANTS c1, r1, startup, fanOut, none, me, u1

Say == [verb |-> "text"]
MCMemo == <<[verb |-> "alias", name |-> "hi", body |-> <<[verb |-> "hi"], Say>>]>>
MCInputs == {
    [verb |-> "every", command |-> Say],
    [verb |-> "after", command |-> [verb |-> "hi"]],
    [verb |-> "cancel", id |-> 0],
    [verb |-> "on", from |-> none, once |-> 0, action |-> [verb |-> "hi"]],
    [verb |-> "on", from |-> u1, once |-> 1, action |-> [verb |-> "startup"]],
    [verb |-> "clear", id |-> 0],
    [verb |-> "unalias", name |-> "hi"]}
MCMaxEvents == [s \in {me, u1} |-> IF s = me THEN 1 ELSE 2]

VARIABLE part \* the component that runs

ASSUME Bot!BotAssumption

BotVars == <<session, standing, log, seen, prompting, asked, sock, chan, pc, token,
              highwater, answered, isNew, prompt, cursor, queue, early, reading, waiter,
              issued, got, yielded, answers, scannedTo, streamFrom, trouble>>

BotIsIdle == Bot!Init /\ session = 0

AllInit ==
    \/ part = "automation" /\ Init /\ BotIsIdle
    \/ part = "bot" /\ Bot!Init /\ Init

AllNext ==
    \/ part = "automation" /\ Next /\ UNCHANGED <<part, BotVars>>
    \/ part = "bot" /\ Bot!Next /\ UNCHANGED <<part, vars>>

AllVars == <<part, vars, BotVars>>
AllSpec ==
    /\ AllInit
    /\ [][AllNext]_AllVars
    /\ WF_vars(part = "automation" /\ Step(FanOut)) \* all that WaitsEnd needs
    /\ WF_BotVars(part = "bot" /\ Bot!Establish) /\ WF_BotVars(part = "bot" /\ Bot!Messages)
    /\ WF_BotVars(part = "bot" /\ \E inTime \in BOOLEAN : Bot!GetState(inTime))

-----------------------------------------------------------------------------
\* fanOut always comes back to its channel, whatever a trigger made it dispatch;
\* and a prompt of the bot's session, which holds up everything else at Lily, gets
\* its line, unless the session ends, the bot stops or something fails.
WaitsEnd == (part = "automation" => FanOutComesBack) /\ (part = "bot" => Bot!GateOpens)
====
