---------------------------- MODULE AuthLimiter ----------------------------
(***************************************************************************)
(* The brute-force protection of POST /auth (proxy/api/ratelimit.go): the  *)
(* allowance is read before the login is tried and the failure recorded    *)
(* after it, so attempts of one address overlap.                           *)
(***************************************************************************)
EXTENDS Integers, FiniteSets

CONSTANTS
    Clients,  \* the addresses that log in
    Attempts, \* the requests that may be under way
    maxFailures, window, lockout,
    MaxTime   \* bound on the clock

Nobody == ""

\* The proxy makes its limiter with a lockout as long as the window (server.go New).
LimiterAssumption ==
    /\ {maxFailures, window, lockout, MaxTime} \subseteq Nat \ {0} /\ window <= lockout
    /\ IsFiniteSet(Attempts) /\ Attempts # {} /\ Nobody \notin Clients

VARIABLES
    now,
    clients, \* the record of each client; until = 0 when not locked
    dialing, \* the client of each request that is trying Lily, or Nobody
    failed   \* history: <<client, time, number>>, its failures since its last success

Failures(c, from, to) == Cardinality({f \in failed : f[1] = c /\ f[2] \in from..to})

vars == <<now, clients, dialing, failed>>

NoRecord == [failures |-> 0, first |-> 0, until |-> 0]

TypeOK ==
    /\ now \in 1..MaxTime
    /\ clients \in [Clients -> [failures : Nat, first : 0..MaxTime, until : 0..(MaxTime + lockout)]]
    /\ dialing \in [Attempts -> Clients \cup {Nobody}]

-----------------------------------------------------------------------------
\* pruneLocked drops what can no longer affect a decision.
Expired(rec) == rec.until = 0 /\ now - rec.first > window
Served(rec) == rec.until # 0 /\ now > rec.until
Pruned == [c \in Clients |->
             IF Expired(clients[c]) \/ Served(clients[c]) THEN NoRecord ELSE clients[c]]

\* handleAuth up to the dial.  A lock that is served starts over.
allow ==
    \E a \in Attempts, c \in Clients :
        LET rec == Pruned[c]
            locked == rec.until # 0 /\ now < rec.until
            served == rec.until # 0 /\ ~locked
        IN  /\ dialing[a] = Nobody
            /\ dialing' = IF locked THEN dialing ELSE [dialing EXCEPT ![a] = c]
            /\ clients' = IF served THEN [Pruned EXCEPT ![c] = NoRecord] ELSE Pruned
            /\ UNCHANGED <<now, failed>>

Done(a) == dialing' = [dialing EXCEPT ![a] = Nobody]

Mut_recordFailure(c) == \* the window is never opened anew
    LET rec == IF clients[c] = NoRecord THEN [NoRecord EXCEPT !.first = now] ELSE clients[c]
        more == rec.failures + 1
    IN  clients' = [clients EXCEPT ![c] =
            [rec EXCEPT !.failures = more, !.until = IF more >= maxFailures THEN now + lockout ELSE @]]

\* A failure after the window opens a fresh one.
recordFailure(c) ==
    LET old == clients[c]
        rec == IF old = NoRecord \/ now - old.first > window
               THEN [NoRecord EXCEPT !.first = now] ELSE old
        more == rec.failures + 1
    IN  clients' = [clients EXCEPT ![c] =
            [rec EXCEPT !.failures = more, !.until = IF more >= maxFailures THEN now + lockout ELSE @]]

Rejected ==
    \E a \in Attempts :
        /\ dialing[a] # Nobody
        /\ recordFailure(dialing[a])
        /\ failed' = failed \cup {<<dialing[a], now, Failures(dialing[a], 1, now) + 1>>}
        /\ Done(a) /\ UNCHANGED now

recordSuccess ==
    \E a \in Attempts :
        /\ dialing[a] # Nobody
        /\ clients' = [clients EXCEPT ![dialing[a]] = NoRecord]
        /\ failed' = {f \in failed : f[1] # dialing[a]}
        /\ Done(a) /\ UNCHANGED now

\* The session cap, or a Lily that cannot be reached, is nobody's fault.
Unreachable ==
    \E a \in Attempts : dialing[a] # Nobody /\ Done(a) /\ UNCHANGED <<now, clients, failed>>

TimePasses == now < MaxTime /\ now' = now + 1 /\ UNCHANGED <<clients, dialing, failed>>

-----------------------------------------------------------------------------
Init ==
    /\ now = 1
    /\ clients = [c \in Clients |-> NoRecord]
    /\ dialing = [a \in Attempts |-> Nobody]
    /\ failed = {}

Next == allow \/ Rejected \/ recordSuccess \/ Unreachable \/ TimePasses

Spec == Init /\ [][Next]_vars

-----------------------------------------------------------------------------
\* A client is made to wait only for failures it made within one window, with
\* no success among them, and only for the lockout after the last of them.
NobodyWaitsForTypos ==
    \A c \in Clients : clients[c].until # 0 =>
        LET at == clients[c].until - lockout IN
        Failures(c, at, at) > 0 /\ Failures(c, at - window, at) >= maxFailures

\* However its requests overlap, a client has no more failures in the length of
\* one window than two allowances, each with the requests under way when it is
\* used up, less what must lie outside: the failure that opened the first record,
\* and the request that fails into the second.
Allowance == maxFailures - 1 + Cardinality(Attempts)
GuessesAreBounded ==
    \A c \in Clients, t \in 1..MaxTime :
        Failures(c, t, t + window - 1) <= IF Allowance = 1 THEN 1 ELSE 2 * (Allowance - 1)

LockoutIsFair == NobodyWaitsForTypos /\ GuessesAreBounded
=============================================================================
