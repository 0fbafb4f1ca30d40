---------------------------- MODULE SessionTable ----------------------------
(***************************************************************************)
(* The proxy's table of sessions (internal/proxy/api/server.go): handleAuth *)
(* creates them, fanOut's teardown removes them, and nothing but the two   *)
(* sync.Maps and an atomic counter coordinates the two.  A session, its    *)
(* token and its Lily connection are named by the login attempt that       *)
(* opened it.                                                              *)
(***************************************************************************)
EXTENDS Integers, FiniteSets

CONSTANTS
    Attempts,     \* POST /auth requests
    Users,        \* Lily user names
    None,         \* no token
    userOf,       \* userOf[a]: the user attempt a names
    Correct,      \* the attempts that carry that user's password
    MaxSessions   \* the session cap

Refusals == {"unauthorized", "capacity", "failed"}

ASSUME TableAssumption ==
    /\ IsFiniteSet(Attempts)
    /\ None \notin Attempts
    /\ Attempts \cap Refusals = {}
    /\ userOf \in [Attempts -> Users]
    /\ Correct \subseteq Attempts
    /\ MaxSessions \in Nat \ {0}

VARIABLES
    sessions,     \* tokens in Server.sessions
    userTokens,   \* Server.userTokens, None where absent
    sessionCount, \* Server.sessionCount
    pc,           \* pc[a]: where attempt a's handler is
    found,        \* found[a]: the token it loaded from userTokens
    reply,        \* reply[a]: what it was answered
    link,         \* link[a]: the Lily connection it opened
    fanOut,       \* fanOut[a]: where the goroutine serving session a is
    rivals        \* history: sessions of a's user that were live when a began

tables == <<sessions, userTokens, sessionCount>>
vars == <<tables, pc, found, reply, link, fanOut, rivals>>

TypeOK ==
    /\ sessions \subseteq Attempts
    /\ userTokens \in [Users -> Attempts \cup {None}]
    /\ sessionCount \in Nat
    /\ pc \in [Attempts -> {"idle", "verify", "cap", "dial", "store", "index", "count", "done"}]
    /\ found \in [Attempts -> Attempts \cup {None}]
    /\ reply \in [Attempts -> Attempts \cup {None} \cup Refusals]
    /\ link \in [Attempts -> {"none", "up", "down"}]
    /\ fanOut \in [Attempts -> {"off", "reading", "delete", "uncount", "forget", "gone"}]
    /\ rivals \in [Attempts -> SUBSET Attempts]

Init ==
    /\ sessions = {}
    /\ userTokens = [u \in Users |-> None]
    /\ sessionCount = 0
    /\ pc = [a \in Attempts |-> "idle"]
    /\ found = [a \in Attempts |-> None]
    /\ reply = [a \in Attempts |-> None]
    /\ link = [a \in Attempts |-> "none"]
    /\ fanOut = [a \in Attempts |-> "off"]
    /\ rivals = [a \in Attempts |-> {}]

\* A session that serves its user: its token works and its link is up.
Live(s) == s \in sessions /\ link[s] = "up" /\ fanOut[s] = "reading"

-----------------------------------------------------------------------------
(* handleAuth                                                              *)

LookupUser(a) ==
    /\ pc[a] = "idle"
    /\ found' = [found EXCEPT ![a] = userTokens[userOf[a]]]
    /\ pc' = [pc EXCEPT ![a] = IF userTokens[userOf[a]] = None THEN "cap" ELSE "verify"]
    /\ rivals' = [rivals EXCEPT ![a] = {s \in Attempts : Live(s) /\ userOf[s] = userOf[a]}]
    /\ UNCHANGED <<tables, reply, link, fanOut>>

Answer(a, r) == /\ reply' = [reply EXCEPT ![a] = r]
                /\ pc' = [pc EXCEPT ![a] = "done"]

\* The verifier was made from the password Lily accepted when s was opened.
Mut_MatchesAnyPassword(a) == TRUE
Matches(a) == a \in Correct

\* The session behind the token, if it still exists, is handed to a caller who
\* knows the password that opened it.
VerifySession(a) ==
    /\ pc[a] = "verify"
    /\ IF found[a] \in sessions
       THEN Answer(a, IF Matches(a) THEN found[a] ELSE "unauthorized")
       ELSE pc' = [pc EXCEPT ![a] = "cap"] /\ UNCHANGED reply
    /\ UNCHANGED <<tables, found, link, fanOut, rivals>>

CheckCap(a) ==
    /\ pc[a] = "cap"
    /\ IF sessionCount >= MaxSessions
       THEN Answer(a, "capacity")
       ELSE pc' = [pc EXCEPT ![a] = "dial"] /\ UNCHANGED reply
    /\ UNCHANGED <<tables, found, link, fanOut, rivals>>

\* conn.Connect: Lily gives the user's session to the newest connection and
\* drops the one that held it.  (Making the token and the verifier cannot fail:
\* crypto/rand has no error to return.)
Connect(a) ==
    /\ pc[a] = "dial"
    /\ a \in Correct
    /\ link' = [b \in Attempts |->
                  IF b = a THEN "up"
                  ELSE IF link[b] = "up" /\ userOf[b] = userOf[a] THEN "down" ELSE link[b]]
    /\ pc' = [pc EXCEPT ![a] = "store"]
    /\ UNCHANGED <<tables, found, reply, fanOut, rivals>>

ConnectFails(a) ==
    /\ pc[a] = "dial"
    /\ Answer(a, IF a \in Correct THEN "failed" ELSE "unauthorized")
    /\ UNCHANGED <<tables, found, link, fanOut, rivals>>

StoreSession(a) ==
    /\ pc[a] = "store"
    /\ sessions' = sessions \cup {a}
    /\ pc' = [pc EXCEPT ![a] = "index"]
    /\ UNCHANGED <<userTokens, sessionCount, found, reply, link, fanOut, rivals>>

StoreUser(a) ==
    /\ pc[a] = "index"
    /\ userTokens' = [userTokens EXCEPT ![userOf[a]] = a]
    /\ pc' = [pc EXCEPT ![a] = "count"]
    /\ UNCHANGED <<sessions, sessionCount, found, reply, link, fanOut, rivals>>

Counted(a) == sessionCount + 1

\* The counter, then fanOut, then the answer.
CountUp(a) ==
    /\ pc[a] = "count"
    /\ sessionCount' = Counted(a)
    /\ fanOut' = [fanOut EXCEPT ![a] = "reading"]
    /\ Answer(a, a)
    /\ UNCHANGED <<sessions, userTokens, found, link, rivals>>

-----------------------------------------------------------------------------
(* fanOut's teardown, and the loss of a Lily connection.                   *)

LinkDrops(a) ==
    /\ link[a] = "up"
    /\ link' = [link EXCEPT ![a] = "down"]
    /\ UNCHANGED <<tables, pc, found, reply, fanOut, rivals>>

\* The event channel closes; subscribers are told and timers stopped.
EventsEnd(a) ==
    /\ fanOut[a] = "reading"
    /\ link[a] = "down"
    /\ fanOut' = [fanOut EXCEPT ![a] = "delete"]
    /\ UNCHANGED <<tables, pc, found, reply, link, rivals>>

DeleteSession(a) ==
    /\ fanOut[a] = "delete"
    /\ sessions' = sessions \ {a}
    /\ fanOut' = [fanOut EXCEPT ![a] = IF a \in sessions THEN "uncount" ELSE "forget"]
    /\ UNCHANGED <<userTokens, sessionCount, pc, found, reply, link, rivals>>

\* (Mut_... definitions are plausible faults; no action uses them.)
Mut_NeverUncounted == sessionCount
Uncounted == sessionCount - 1

CountDown(a) ==
    /\ fanOut[a] = "uncount"
    /\ sessionCount' = Uncounted
    /\ fanOut' = [fanOut EXCEPT ![a] = "forget"]
    /\ UNCHANGED <<sessions, userTokens, pc, found, reply, link, rivals>>

\* Leaves the entry behind, for handleAuth to find dead.
Mut_NeverForgotten(a) == userTokens
\* By user name: whatever token the name maps to by now.
Forgotten(a) == [userTokens EXCEPT ![userOf[a]] = None]

ForgetUser(a) ==
    /\ fanOut[a] = "forget"
    /\ userTokens' = Forgotten(a)
    /\ fanOut' = [fanOut EXCEPT ![a] = "gone"]
    /\ UNCHANGED <<sessions, sessionCount, pc, found, reply, link, rivals>>

-----------------------------------------------------------------------------
HandleAuth(a) == \/ VerifySession(a) \/ CheckCap(a) \/ Connect(a) \/ ConnectFails(a)
                 \/ StoreSession(a) \/ StoreUser(a) \/ CountUp(a)

FanOut(a) == EventsEnd(a) \/ DeleteSession(a) \/ CountDown(a) \/ ForgetUser(a)

Next == \E a \in Attempts : LookupUser(a) \/ HandleAuth(a) \/ FanOut(a) \/ LinkDrops(a)

Spec == Init /\ [][Next]_vars

\* A handler that began answers (Connect has a watchdog), a fanOut whose
\* channel closed tears down.
FairSpec == Spec /\ \A a \in Attempts : WF_vars(HandleAuth(a)) /\ WF_vars(FanOut(a))

-----------------------------------------------------------------------------
(* Properties                                                              *)

Counting(a) == pc[a] \in {"index", "count"}

\* sessionCount "tracks len(sessions)": it differs from the size of the table
\* only by the logins and teardowns between their two writes, so no sequence of
\* logins, takeovers and drops makes the cap drift.
CountTracksSessions ==
    sessionCount = Cardinality(sessions)
                   - Cardinality({a \in Attempts : Counting(a)})
                   + Cardinality({a \in Attempts : fanOut[a] = "uncount"})

\* A token is only ever handed to a caller who gave its own user's password.
TokenNeedsItsPassword ==
    \A a \in Attempts : reply[a] \in Attempts =>
        a \in Correct /\ userOf[reply[a]] = userOf[a]

\* userTokens never keeps a token whose session has been torn down.
NoDanglingUserToken ==
    \A u \in Users : userTokens[u] # None =>
        \/ userTokens[u] \in sessions
        \/ fanOut[userTokens[u]] \in {"uncount", "forget"}

\* A session whose Lily connection dropped leaves both tables for good, so a
\* client that reconnects is not handed its dead token for ever.
DeadSessionLeaves ==
    \A a \in Attempts :
        (link[a] = "down" /\ a \in sessions) ~>
            [](a \notin sessions /\ \A u \in Users : userTokens[u] # a)

\* "existing token is returned (no new connection is made)": no attempt dials
\* for a user one of whose sessions has been live ever since it began.
NoSecondConnection ==
    \A a \in Attempts : pc[a] = "dial" => \A s \in rivals[a] : ~Live(s)
=============================================================================
