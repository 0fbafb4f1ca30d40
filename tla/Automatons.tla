---- MODULE Automatons ----
(* What acts without a user: the scheduled commands, triggers and aliases of a
   session, and the session of a Python bot. *)
(* They do not interact; what they promise is stated here for what checks it and
   for what proves it. *)
EXTENDS Automation

(* The Python bot. *)
CONSTANTS MaxSessions, MaxHeard, MaxCommands, MaxLines, MaxTrouble, EVENTS_PAGE

VARIABLES
    session, standing, log, seen, prompting, asked, sock, chan, pc, token, highwater,
    answered, isNew, prompt, cursor, queue, early, reading, waiter, issued, got,
    yielded, answers, scannedTo, streamFrom, trouble

Bot == INSTANCE BotSession WITH MaxEvents <- MaxHeard

-----------------------------------------------------------------------------
\* A bot is given no message of a session twice or out of order, and none of the
\* history it scanned; it answers a prompt once though history, replay, socket
\* and snapshot may all present it; and while it streams nothing published since
\* is lost, even in a session that numbers anew.  (session.py messages, _handle)
BotHearsNothingTwice == Bot!BotHearsNothingTwice
====
