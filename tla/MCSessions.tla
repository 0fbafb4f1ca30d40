---- MODULE MCSessions ----
(* Sessions on small instances.  part says which component runs; they do not interact. *)
EXTENDS Sessions, TLC

CONSTANTS ana, bob, a1, a2, a3, a4, c1, c2, tui, bot

\* Three attempts of one user, whose password is right.
AnaAttempts == [a \in {a1, a2, a3} |-> ana]

SomeUserOf == (a1 :> ana) @@ (a2 :> ana) @@ (a3 :> ana) @@ (a4 :> bob)
SomeIdent == (c1 :> tui) @@ (c2 :> bot)

VARIABLE part \* the component that runs

ASSUME Limiter!LimiterAssumption
ASSUME Chores!HousekeepingAssumption

LimiterVars == <<now, clients, dialing, failed>>
ChoresVars == <<subscribers, gone, reports, collected, verString, verSent, verAnnounced,
                 up, keepalive, pings, pongs, pongSince, notResponding, told, steady>>

AllInit ==
    \/ part = "table" /\ Init /\ Limiter!Init /\ Chores!Init
    \/ part = "limiter" /\ Limiter!Init /\ Init /\ Chores!Init
    \/ part = "housekeeping" /\ Chores!Init /\ Init /\ Limiter!Init

AllNext ==
    \/ part = "table" /\ Next /\ UNCHANGED <<part, LimiterVars, ChoresVars>>
    \/ part = "limiter" /\ Limiter!Next /\ UNCHANGED <<part, vars, ChoresVars>>
    \/ part = "housekeeping" /\ Chores!Next /\ UNCHANGED <<part, vars, LimiterVars>>

AllVars == <<part, vars, LimiterVars, ChoresVars>>
AllSpec ==
    /\ AllInit
    /\ [][AllNext]_AllVars
    /\ \A a \in Attempts : /\ WF_vars(part = "table" /\ HandleAuth(a))
                           /\ WF_vars(part = "table" /\ FanOut(a))
    /\ WF_ChoresVars(part = "housekeeping" /\ Chores!Report)
    /\ WF_ChoresVars(part = "housekeeping" /\ Chores!Keepalive)
    /\ WF_ChoresVars(part = "housekeeping" /\ Chores!ReadPong)
    /\ WF_ChoresVars(part = "housekeeping" /\ steady /\ Chores!LilyAnswers)

-----------------------------------------------------------------------------
\* A session whose Lily connection dropped leaves both tables for good, so a
\* client that reconnects is not handed its dead token for ever; and a client
\* that was told Lily does not respond is told when it does again, although a
\* pong that comes too late counts for the next ping only.
LossAndRecoveryAreSeen ==
    DeadSessionLeaves /\ (part = "housekeeping" => Chores!RecoveryIsAnnounced)
====
