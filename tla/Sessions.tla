---- MODULE Sessions ----
(* What the proxy does for sessions beside their streams: the table of sessions,
   the limiter that stands before it, and the reports and pings of each session. *)
(* They do not interact; what they promise is stated here for what checks it and
   for what proves it. *)
EXTENDS SessionTable

(* The report of the connected clients, and the keepalive. *)
CONSTANTS Connections, ident, MaxUnread

VARIABLES
    subscribers, gone, reports, collected, verString, verSent, verAnnounced, up,
    keepalive, pings, pongs, pongSince, notResponding, told, steady

Chores == INSTANCE Housekeeping

(* The limiter. *)
CONSTANTS Addresses, Requests, maxFailures, window, lockout, MaxTime

VARIABLES now, clients, dialing, failed

Limiter == INSTANCE AuthLimiter WITH Clients <- Addresses, Attempts <- Requests

-----------------------------------------------------------------------------
\* A client is locked out only for failures it made within one window and for
\* the lockout after the last of them, and however its requests overlap it has
\* no more failures in a window than two allowances, each with the requests then
\* under way.
\* (ratelimit.go: the allowance is asked for before the dial)
LockoutIsFair == Limiter!LockoutIsFair

\* However reports of arrivals and delayed reports of departures overlap and wait
\* for the login, what Lily was told last names exactly the connected clients
\* once no report is to come: no older list overwrites a newer one.
LilyKnowsWhoIsConnected == Chores!LilyKnowsWhoIsConnected
====
