---------------------------- MODULE Housekeeping ----------------------------
(***************************************************************************)
(* What a session tells Lily and its clients about itself: the report of   *)
(* the connected clients (api/clientversion.go, lily/conn.go), recomputed  *)
(* when a connection comes or has been gone for a while, and the keepalive *)
(* (runKeepalive in api/server.go).                                        *)
(***************************************************************************)
EXTENDS Integers, Sequences, FiniteSets

CONSTANTS
    Connections,  \* WebSocket connections
    ident,        \* ident[c]: what the client behind c calls itself
    None,
    MaxUnread     \* bound on the pings Lily has not answered

HousekeepingAssumption == None \notin Connections /\ MaxUnread \in Nat

VARIABLES
    subscribers,   \* Session.subscribers
    gone,          \* the connections that have been and gone
    reports,       \* the calls of reportClientVersion to come: <<c, "came">>, <<c, "gone">>
    collected,     \* collected[call]: the idents a call under way has found
    verString,     \* Conn.verString: the idents to report
    verSent,       \* Conn.verSent: what Lily was told, or None
    verAnnounced,  \* Conn.verAnnounced
    up,            \* the connection to Lily stands
    keepalive,     \* runKeepalive: "tick", "wait" or "ended"
    pings, pongs,  \* how many pings Lily, and pongs fanOut, have yet to read
    pongSince,     \* lastPongReceivedAt is after the last ping
    notResponding,
    told,          \* told[c]: the last keepalive message c was sent
    steady         \* from here on Lily, network and fanOut are faster than time-outs

reporting == <<subscribers, gone, reports, collected>>
version == <<verString, verSent, verAnnounced>>
keeping == <<keepalive, pings, pongs, pongSince, notResponding, told>>
vars == <<reporting, version, up, keeping, steady>>

Idents == {ident[c] : c \in Connections}
Calls == Connections \X {"came", "gone"}

TypeOK ==
    /\ subscribers \subseteq Connections /\ gone \subseteq Connections \ subscribers
    /\ reports \subseteq Calls
    /\ DOMAIN collected \subseteq Calls \ reports
    /\ \A call \in DOMAIN collected : collected[call] \subseteq Idents
    /\ verString \subseteq Idents
    /\ verSent \in SUBSET Idents \cup {None}
    /\ {verAnnounced, up, pongSince, notResponding, steady} \subseteq BOOLEAN
    /\ keepalive \in {"tick", "wait", "ended"}
    /\ pings \in Nat /\ pongs \in Nat /\ pings + pongs <= MaxUnread
    /\ told \in [Connections -> {"nothing", "not responding", "responding again"}]

Init ==
    /\ subscribers = {} /\ gone = {} /\ reports = {}
    /\ collected = [call \in {} |-> {}]
    /\ verString = {} /\ verSent = None /\ verAnnounced = FALSE
    /\ up = TRUE
    /\ keepalive = "tick" /\ pings = 0 /\ pongs = 0
    /\ pongSince = FALSE /\ notResponding = FALSE
    /\ told = [c \in Connections |-> "nothing"]
    /\ steady = FALSE

-----------------------------------------------------------------------------
(* handleWS: a connection comes and goes.  (Mut_... definitions are        *)
(* plausible faults; no action uses them.)                                 *)

Subscribe(c) ==
    /\ c \notin subscribers \cup gone
    /\ subscribers' = subscribers \cup {c}
    /\ reports' = reports \cup {<<c, "came">>}
    /\ UNCHANGED <<gone, collected, version, up, keeping, steady>>

\* readLoop has returned: it started after the report of c's coming was made.
\* Its going is reported after clientGoneGrace.
Leave(c) == gone' = gone \cup {c} /\ subscribers' = subscribers \ {c}

Unsubscribe(c) ==
    /\ c \in subscribers
    /\ <<c, "came">> \notin reports \cup DOMAIN collected
    /\ Leave(c)
    /\ reports' = reports \cup {<<c, "gone">>}
    /\ UNCHANGED <<collected, version, up, keeping, steady>>

-----------------------------------------------------------------------------
(* reportClientVersion and Conn.SetClientVersion.                          *)

\* Session.verMu is held from the collection of the idents to SetClientVersion.
Mut_MayCollect == TRUE
MayCollect == DOMAIN collected = {}

Collect(call) ==
    /\ call \in reports
    /\ MayCollect
    /\ reports' = reports \ {call}
    /\ collected' = [x \in DOMAIN collected \cup {call} |->
                       IF x = call THEN {ident[c] : c \in subscribers} ELSE collected[x]]
    /\ UNCHANGED <<subscribers, gone, version, up, keeping, steady>>

\* sendVersionLocked: an unchanged string is not sent again; a string that could
\* not be sent is not taken for sent.
SendVersion(v) == verSent' = IF up THEN v ELSE verSent

SetClientVersion(call) ==
    /\ call \in DOMAIN collected
    /\ verString' = collected[call]
    /\ IF verAnnounced THEN SendVersion(collected[call]) ELSE UNCHANGED verSent
    /\ collected' = [x \in DOMAIN collected \ {call} |-> collected[x]]
    /\ UNCHANGED <<subscribers, gone, reports, verAnnounced, up, keeping, steady>>

\* On %connected.
AnnounceVersion ==
    /\ ~verAnnounced /\ up
    /\ verAnnounced' = TRUE
    /\ SendVersion(verString)
    /\ UNCHANGED <<reporting, verString, up, keeping, steady>>

-----------------------------------------------------------------------------
(* runKeepalive.                                                           *)

\* Once steady, a time-out finds everything sent before it answered and read.
PongIsDue == steady => pings + pongs = 0

Ping ==
    /\ keepalive = "tick" /\ up /\ PongIsDue
    /\ pings + pongs < MaxUnread
    /\ pings' = pings + 1
    /\ pongSince' = FALSE
    /\ keepalive' = "wait"
    /\ UNCHANGED <<reporting, version, up, pongs, notResponding, told, steady>>

Broadcast(text) == told' = [c \in Connections |-> IF c \in subscribers THEN text ELSE told[c]]

Mut_Recovers == pongSince /\ ~notResponding
Recovers == pongSince /\ notResponding

PongTimeout ==
    /\ keepalive = "wait" /\ PongIsDue
    /\ keepalive' = "tick"
    /\ \/ /\ Recovers
          /\ notResponding' = FALSE
          /\ Broadcast("responding again")
       \/ /\ ~pongSince /\ ~notResponding
          /\ notResponding' = TRUE
          /\ Broadcast("not responding")
       \/ /\ ~Recovers /\ (pongSince \/ notResponding)
          /\ UNCHANGED <<notResponding, told>>
    /\ UNCHANGED <<reporting, version, up, pings, pongs, pongSince, steady>>

LilyAnswers ==
    /\ pings > 0 /\ up
    /\ pings' = pings - 1 /\ pongs' = pongs + 1
    /\ UNCHANGED <<reporting, version, up, keepalive, pongSince, notResponding, told, steady>>

ReadPong ==
    /\ pongs > 0
    /\ pongs' = pongs - 1
    /\ pongSince' = TRUE
    /\ UNCHANGED <<reporting, version, up, keepalive, pings, notResponding, told, steady>>

\* The connection is lost: a ping fails, or fanOut returns.
LilyLost ==
    /\ up /\ up' = FALSE
    /\ keepalive' = "ended"
    /\ UNCHANGED <<reporting, version, pings, pongs, pongSince, notResponding, told, steady>>

Settles ==
    /\ ~steady /\ steady' = TRUE
    /\ UNCHANGED <<reporting, version, up, keeping>>

-----------------------------------------------------------------------------
Report == \E call \in Calls : Collect(call) \/ SetClientVersion(call)
Keepalive == Ping \/ PongTimeout

Next == \/ \E c \in Connections : Subscribe(c) \/ Unsubscribe(c)
        \/ Report \/ AnnounceVersion
        \/ Keepalive \/ LilyAnswers \/ ReadPong
        \/ LilyLost \/ Settles

Spec == Init /\ [][Next]_vars

\* Goroutines run on, timers fire, and once all is steady Lily answers pings.
FairSpec ==
    /\ Spec
    /\ WF_vars(Report) /\ WF_vars(Keepalive) /\ WF_vars(ReadPong)
    /\ WF_vars(steady /\ LilyAnswers)

-----------------------------------------------------------------------------
(* Properties                                                              *)

\* However reports of arrivals and delayed reports of departures overlap and wait
\* for the login, what Lily was told last names exactly the connected clients
\* once no report is to come: no older list overwrites a newer one.
LilyKnowsWhoIsConnected ==
    (reports = {} /\ DOMAIN collected = {} /\ verAnnounced /\ up)
        => verSent = {ident[c] : c \in subscribers}

\* A client that was told Lily does not respond is told when it does again,
\* although a pong that comes too late counts for the next ping only.
RecoveryIsAnnounced ==
    \A c \in Connections :
        (steady /\ told[c] = "not responding")
            ~> (told[c] = "responding again" \/ c \notin subscribers \/ ~up)
=============================================================================
