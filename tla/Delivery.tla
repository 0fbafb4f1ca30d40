------------------------------ MODULE Delivery ------------------------------
(***************************************************************************)
(* What a session promises each of its WebSocket clients: a FIFO feed that *)
(* is either delivered without a hole or cut off where the client can see  *)
(* it.  A message may be lost only off the end of the feed, together with  *)
(* everything offered after it, and only once the feed is cut.             *)
(***************************************************************************)
EXTENDS Integers, Sequences

CONSTANTS Clients,      \* the clients of the session
          Messages      \* the messages a session can carry

VARIABLES owed,         \* owed[c]: accepted for c and not yet delivered, oldest first
          got,          \* got[c]: what c has been handed, oldest first
          live          \* live[c]: c's feed is not cut

vars == <<owed, got, live>>

TypeOK == /\ owed \in [Clients -> Seq(Messages)]
          /\ got \in [Clients -> Seq(Messages)]
          /\ live \in [Clients -> BOOLEAN]

Init == /\ owed = [c \in Clients |-> <<>>]
        /\ got = [c \in Clients |-> <<>>]
        /\ live = [c \in Clients |-> FALSE]

\* A client attaches with an empty feed.
Attach(c) == /\ ~live[c] /\ owed[c] = <<>> /\ got[c] = <<>>
             /\ live' = [live EXCEPT ![c] = TRUE]
             /\ UNCHANGED <<owed, got>>

\* The session accepts m for an attached client.
Accept(c) == /\ live[c]
             /\ \E m \in Messages : owed' = [owed EXCEPT ![c] = Append(@, m)]
             /\ UNCHANGED <<got, live>>

\* The oldest owed message reaches the client.
Deliver(c) == /\ owed[c] # <<>>
              /\ got' = [got EXCEPT ![c] = Append(@, Head(owed[c]))]
              /\ owed' = [owed EXCEPT ![c] = Tail(@)]
              /\ UNCHANGED live

\* The feed is cut: what stays owed is a prefix of what was.
Cut(c) == /\ \E n \in 0..Len(owed[c]) : owed' = [owed EXCEPT ![c] = SubSeq(@, 1, n)]
          /\ live' = [live EXCEPT ![c] = FALSE]
          /\ UNCHANGED got

Next == \E c \in Clients : Attach(c) \/ Accept(c) \/ Deliver(c) \/ Cut(c)

Spec == Init /\ [][Next]_vars
=============================================================================
