----------------------- MODULE TerminalSessionProofs ------------------------
(* Theorems about TerminalSession, for any sessions, clients and bounds,   *)
(* and, at the end, about the passwords the terminal saves (SavedPassword, *)
(* for any users, passwords and launches), the notes it prints unasked     *)
(* (Notices, for any caps) and the line its user types (ComposeLine, for   *)
(* any letters, bounds and widgets).                                       *)
EXTENDS Terminal, SequenceLemmas, WellFoundedInduction

\* A reconnection or a login: a command under way, or its result in the queue.
JobKinds == {"resume", "login", "auth", "authed"}
IsJob(x) == x.do \in JobKinds
Busy == \E x \in cmds : IsJob(x)

\* Nothing is ever going to be taken out of g's channel.
Deaf(g) ==
    \/ listening[g] = 0
    \/ chan[g] = <<>> /\ (sock[g] # "up" \/ tok[g] \notin lily)

\* One attempt to get the session back at a time, and none while the user is asked
\* whether to make one.
JobInv ==
    /\ \A x, y \in cmds : IsJob(x) /\ IsJob(y) => x = y
    /\ Busy => authInProgress /\ ~reconnectPrompt
    /\ \A x \in cmds :
          /\ x.do = "auth" => authMode /\ x.c = client
          /\ x.do = "authed" => listening[x.c] = 0 /\ (x.err # "ok" => sock[x.c] # "up")
    /\ authMode => ~reconnectPrompt /\ listening[client] = 0

\* Only the client in use is heard, and not even that one during an attempt.
DeafInv ==
    /\ \A g \in Clients : g # client => Deaf(g)
    /\ Busy => Deaf(client)
    /\ reconnectPrompt => sock[client] # "up" \/ tok[client] \notin lily

\* A socket that is up belongs to the attempt under way, or to the client in use.
SocketInv == \A g \in Clients : Attached(g) =>
    /\ \A x \in cmds : IsJob(x) => x.c = g
    /\ ~Busy => g = client

\* A session that is gone from the table does not come back.
Begun(s) == s \in lily \/ log[s] > 0
OpenInv ==
    /\ \A s \in known : Begun(s)
    /\ \A s \in lily : log[s] <= MaxMsgs[s]
    /\ \A g \in Clients : tok[g] # 0 => Begun(tok[g])
    /\ sessionToken # 0 => Begun(sessionToken)

\* While the session lives and no login is asked for, whoever tries anything tries
\* it with the session's token.
KeepInv == sessionToken \in known /\ ~authMode =>
    /\ tok[client] = sessionToken
    /\ \A x \in cmds : IsJob(x) =>
          /\ tok[x.c] = sessionToken
          /\ x.do \in {"resume", "authed"}
          /\ x.do = "authed" => x.err \in {"ok", "net"}

TerminalInv == TypeOK /\ JobInv /\ DeafInv /\ SocketInv /\ OpenInv /\ KeepInv

-----------------------------------------------------------------------------
\* TypeOK in parts.
LastIDs == 0..LastID
ProxyTypes ==
    /\ lily \subseteq known /\ known \subseteq Sessions
    /\ log \in [Sessions -> LastIDs] /\ seen \in [Sessions -> LastIDs]
ClientTypes ==
    /\ tok \in [Clients -> 0..MaxSessions] /\ pw \in [Clients -> BOOLEAN]
    /\ sock \in [Clients -> {"none", "up", "down"}]
    /\ chan \in [Clients -> Seq(IDs)]
    /\ listening \in [Clients -> 0..2]
CmdTypes == cmds \subseteq Job \cup AuthResult \cup Asked \cup Fetch
ModelTypes ==
    /\ client \in Clients /\ sessionToken \in 0..MaxSessions
    /\ authMode \in BOOLEAN /\ reconnectPrompt \in BOOLEAN /\ authInProgress \in BOOLEAN
    /\ reconnectAttempt \in 0..autoReconnectAttempts
ViewTypes ==
    /\ processedIDs \subseteq IDs
    /\ lastSeenID \in LastIDs /\ top \in LastIDs
    /\ fetchedFrom \in -1..LastID /\ fetchedTo \in 0..LastID /\ foreign \subseteq IDs
    /\ shown \in [Sessions -> [IDs -> 0..2]]

LEMMA TypeParts ==
    TypeOK <=> ProxyTypes /\ ClientTypes /\ CmdTypes /\ ModelTypes /\ ViewTypes
<1>1. TypeOK => ProxyTypes
  BY DEF TypeOK, ProxyTypes, LastIDs
<1>2. TypeOK => ClientTypes
  BY DEF TypeOK, ClientTypes
<1>3. TypeOK => CmdTypes
  BY DEF TypeOK, CmdTypes
<1>4. TypeOK => ModelTypes
  BY DEF TypeOK, ModelTypes
<1>5. TypeOK => ViewTypes
  BY DEF TypeOK, ViewTypes, LastIDs
<1>6. ProxyTypes /\ ClientTypes /\ CmdTypes /\ ModelTypes /\ ViewTypes => TypeOK
  BY DEF TypeOK, ProxyTypes, ClientTypes, CmdTypes, ModelTypes, ViewTypes, LastIDs
<1> QED BY <1>1, <1>2, <1>3, <1>4, <1>5, <1>6

-----------------------------------------------------------------------------
\* A finite set of numbers has a largest: by the least k such that its first k
\* members have no bound.
LEMMA MaxOfFinite ==
    ASSUME NEW S \in SUBSET Int, IsFiniteSet(S), S # {}
    PROVE  Max(S) \in S /\ \A y \in S : Max(S) >= y
<1>1. PICK n \in Nat : ExistsBijection(1..n, S)
  BY FS_NatBijection
<1>2. PICK f \in [1..n -> S] : \A y \in S : \E i \in 1..n : f[i] = y
  BY <1>1 DEF ExistsBijection, Bijection, Injection, Surjection
<1> DEFINE Above == {k \in 0..n : \A x \in S : \E i \in 1..k : f[i] > x}
<1>3. SUFFICES ASSUME ~ \E x \in S : \A y \in S : x >= y PROVE FALSE
  BY Zenon DEF Max
<1>4. \A x \in S : \E y \in S : y > x
  BY <1>3
<1>5. n \in Above
  BY <1>2, <1>4
<1> DEFINE R == OpToRel(<, Nat)
<1>6. PICK k \in Above : \A j \in Above : <<j, k>> \notin R
  <2>1. IsWellFoundedOn(R, Nat)
    BY NatLessThanWellFounded
  <2>2. Above \subseteq Nat /\ Above # {}
    <3>1. Above \subseteq 0..n
      OBVIOUS
    <3>2. Above # {}
      <4> HIDE DEF Above
      <4> QED BY <1>5
    <3> HIDE DEF Above
    <3> QED BY <3>1, <3>2
  <2> HIDE DEF R, Above
  <2> QED BY <2>1, <2>2, WFMin
<1>7. \A j \in Above : ~(j < k)
  <2>1. R = {ss \in Nat \X Nat : ss[1] < ss[2]}
    BY Zenon DEF OpToRel
  <2>2. ASSUME NEW j \in Above, j < k PROVE FALSE
    <3>1. j \in Nat /\ k \in Nat
      OBVIOUS
    <3> HIDE DEF R, Above
    <3>2. <<j, k>> \notin R
      BY <1>6
    <3> QED BY <2>1, <2>2, <3>1, <3>2
  <2> QED BY <2>2
<1>8. k \in 1..n /\ k - 1 \notin Above
  <2>1. k \in 0..n
    BY <1>6
  <2>2. k # 0
    <3>1. PICK x \in S : TRUE
      OBVIOUS
    <3>2. PICK i \in 1..k : f[i] > x
      BY <1>6, <3>1
    <3> QED BY <3>2
  <2>3. k - 1 \notin Above
    <3> HIDE DEF Above
    <3> QED BY <2>1, <1>7
  <2> QED BY <2>1, <2>2, <2>3
<1>9. PICK x \in S : \A i \in 1..(k - 1) : ~(f[i] > x)
  BY <1>8
<1>10. f[k] > x
  <2>1. PICK i \in 1..k : f[i] > x
    BY <1>6, <1>9
  <2> QED BY <2>1, <1>8, <1>9
<1>11. PICK i \in 1..k : f[i] > f[k]
  <2>1. f[k] \in S
    BY <1>2, <1>8
  <2> QED BY <2>1, <1>6
<1>12. f[i] \in Int /\ f[k] \in Int
  <2>1. i \in 1..n /\ k \in 1..n
    BY <1>8
  <2> HIDE DEF Above
  <2> QED BY <1>2, <2>1
<1>13. i \in 1..(k - 1)
  BY <1>8, <1>11, <1>12
<1> QED BY <1>9, <1>10, <1>11, <1>12, <1>13

LEMMA LastIDIsLast ==
    /\ MaxSessions \in Nat \ {0} /\ MaxClients \in Nat \ {0} /\ PageLimit \in Nat \ {0}
    /\ autoReconnectAttempts \in Nat
    /\ LastID \in Nat
    /\ \A s \in Sessions : MaxMsgs[s] \in Nat \ {0} /\ MaxMsgs[s] < LastID
<1> DEFINE Image == {MaxMsgs[s] : s \in Sessions}
<1>1. /\ MaxSessions \in Nat \ {0} /\ MaxClients \in Nat \ {0} /\ PageLimit \in Nat \ {0}
      /\ autoReconnectAttempts \in Nat
  BY TerminalAssumption
<1>2. MaxMsgs \in [Sessions -> Nat \ {0}]
  BY TerminalAssumption DEF Sessions
<1>3. Image \in SUBSET Int /\ Image # {}
  <2>1. 1 \in Sessions
    BY <1>1 DEF Sessions
  <2> QED BY <2>1, <1>2
<1>4. IsFiniteSet(Image)
  <2>1. IsFiniteSet(Sessions)
    BY <1>1, FS_Interval DEF Sessions
  <2>2. MaxMsgs \in [Sessions -> Image] /\ \A y \in Image : \E s \in Sessions : MaxMsgs[s] = y
    BY <1>2
  <2>3. MaxMsgs \in Surjection(Sessions, Image)
    BY <2>2 DEF Surjection
  <2> QED BY <2>1, <2>3, FS_Surjection
<1>5. Max(Image) \in Image /\ \A y \in Image : Max(Image) >= y
  <2> HIDE DEF Image
  <2> QED BY <1>3, <1>4, MaxOfFinite
<1>6. LastID = 1 + Max(Image)
  BY DEF LastID
<1>7. LastID \in Nat /\ \A s \in Sessions : MaxMsgs[s] < LastID
  <2>1. Max(Image) \in Nat
    BY <1>2, <1>5
  <2>2. \A s \in Sessions : Max(Image) >= MaxMsgs[s]
    BY <1>5
  <2> HIDE DEF Image
  <2> QED BY <1>2, <1>6, <2>1, <2>2
<1> QED BY <1>1, <1>2, <1>7

\* How many numbers up to k are above u.
LEMMA CountAbove ==
    ASSUME NEW k \in Int, NEW u \in Nat, NEW S, S = 1..k
    PROVE  Cardinality({i \in S : i > u}) = IF u < k THEN k - u ELSE 0
<1>1. {i \in S : i > u} = (u + 1)..k
  OBVIOUS
<1>2. Cardinality((u + 1)..k) = IF u + 1 > k THEN 0 ELSE k - (u + 1) + 1
  BY FS_Interval
<1>3. Cardinality({i \in S : i > u}) = Cardinality((u + 1)..k)
  BY <1>1, Zenon
<1> HIDE DEF Cardinality
<1> QED BY <1>2, <1>3

-----------------------------------------------------------------------------
\* What a command's name says of its fields.
LEMMA Kinds ==
    ASSUME CmdTypes, NEW x \in cmds
    PROVE  /\ x.c \in Clients
           /\ x.do \in {"resume", "login", "auth"} => x \in Job
           /\ x.do = "authed" => x \in AuthResult
           /\ x.do = "state" => x \in Asked
           /\ x.do \in {"wait", "page", "loaded", "partly"} => x \in Fetch
<1>1. CASE x \in Job
  BY <1>1 DEF Job
<1>2. CASE x \in AuthResult
  BY <1>2 DEF AuthResult
<1>3. CASE x \in Asked
  BY <1>3 DEF Asked
<1>4. CASE x \in Fetch
  BY <1>4 DEF Fetch
<1> QED BY <1>1, <1>2, <1>3, <1>4 DEF CmdTypes

\* The commands that the update loop and the network start.
LEMMA NewCommands ==
    ASSUME NEW g \in Clients
    PROVE  /\ \A d \in {"resume", "login", "auth"} : [do |-> d, c |-> g] \in Job
           /\ \A e \in {"ok", "net", "rejected", "gone"} : Authed(g, e) \subseteq AuthResult
           /\ [do |-> "state", c |-> g] \in Asked
           /\ ReconnectNow(g) \in Job
BY DEF Job, AuthResult, Asked, Authed, ReconnectNow

LEMMA ResultsType ==
    ASSUME CmdTypes, NEW j, NEW more, Results(j, more),
           more \subseteq Job \cup AuthResult \cup Asked \cup Fetch
    PROVE  CmdTypes'
BY DEF CmdTypes, Results

LEMMA LargerType ==
    ASSUME NEW a \in Int, NEW b \in Int
    PROVE  Larger(a, b) \in {a, b} /\ Larger(a, b) >= a /\ Larger(a, b) >= b
BY DEF Larger

LEMMA RingType ==
    ASSUME ProxyTypes, NEW s \in Sessions
    PROVE  \E k \in 0..LastID : Ring(s) = 1..k
<1>1. log[s] \in Nat /\ log[s] <= LastID /\ LastID \in Nat
  BY LastIDIsLast DEF ProxyTypes, LastIDs
<1>2. CASE s \in lily \/ log[s] = 0
  BY <1>1, <1>2 DEF Ring
<1>3. CASE ~(s \in lily \/ log[s] = 0)
  <2>1. Ring(s) = 1..(log[s] - 1) /\ log[s] - 1 \in 0..LastID
    BY <1>1, <1>3 DEF Ring
  <2> QED BY <2>1
<1> QED BY <1>2, <1>3

LEMMA ReplayedType ==
    ASSUME ProxyTypes, NEW s \in Sessions
    PROVE  Replayed(s) \in Seq(IDs)
<1>1. PICK k \in 0..LastID : Ring(s) = 1..k
  BY RingType
<1>2. k \in Nat /\ LastID \in Nat
  BY LastIDIsLast
<1>3. CASE seen[s] = 0
  <2>1. Replayed(s) = [i \in 1..k |-> i]
    BY <1>1, <1>3 DEF Replayed
  <2>2. \A i \in 1..k : i \in IDs
    BY <1>2 DEF IDs
  <2> QED BY <2>1, <2>2, <1>2
<1>4. CASE seen[s] # 0
  BY <1>4 DEF Replayed
<1> QED BY <1>3, <1>4

LEMMA ReplaceTypes ==
    ASSUME ProxyTypes, ClientTypes, NEW c \in Clients, NEW g \in Clients,
           NEW t \in 0..MaxSessions, NEW p \in BOOLEAN, NEW up \in BOOLEAN,
           up => t \in Sessions, Replace(c, g, t, p, up)
    PROVE  ClientTypes'
<1>1. tok' \in [Clients -> 0..MaxSessions]
  BY LastIDIsLast DEF Replace, ClientTypes
<1>2. pw' \in [Clients -> BOOLEAN]
  BY DEF Replace, ClientTypes
<1>3. sock' \in [Clients -> {"none", "up", "down"}]
  BY DEF Replace, ClientTypes, Closed
<1>4. chan' \in [Clients -> Seq(IDs)]
  <2>1. (IF up THEN Replayed(t) ELSE <<>>) \in Seq(IDs)
    BY ReplayedType
  <2>2. (IF listening[c] > 0 THEN chan[c] ELSE <<>>) \in Seq(IDs)
    BY DEF ClientTypes
  <2>3. PICK a \in Seq(IDs), b \in Seq(IDs) : chan' = [chan EXCEPT ![c] = a, ![g] = b]
    BY <2>1, <2>2 DEF Replace, ClientTypes
  <2> QED BY <2>3 DEF ClientTypes
<1>5. listening' \in [Clients -> 0..2]
  BY DEF Replace, ClientTypes
<1> QED BY <1>1, <1>2, <1>3, <1>4, <1>5 DEF ClientTypes

LEMMA InitTypes == Init => TypeOK
<1> SUFFICES ASSUME Init PROVE TypeOK
  OBVIOUS
<1>1. /\ MaxSessions \in Nat \ {0} /\ MaxClients \in Nat \ {0} /\ LastID \in Nat
      /\ autoReconnectAttempts \in Nat /\ LastID >= 2
  <2>1. 1 \in Sessions
    BY LastIDIsLast DEF Sessions
  <2> QED BY <2>1, LastIDIsLast
<1>2. 1 \in Clients /\ 0..1 \subseteq 0..MaxSessions /\ 0..1 \subseteq LastIDs /\ 1 \in IDs
  BY <1>1 DEF Clients, LastIDs, IDs
<1>3. PICK n \in 0..1, k \in 0..1 :
         /\ k <= n
         /\ known = 1..n /\ lily = known
         /\ log = [s \in Sessions |-> IF s <= n THEN 1 ELSE 0]
         /\ seen = [s \in Sessions |-> IF s <= k THEN 1 ELSE 0]
         /\ \E resumed \in {0, n} :
              /\ sessionToken = resumed
              /\ tok = [g \in Clients |-> IF g = 1 THEN resumed ELSE 0]
              /\ sock = [g \in Clients |-> IF g = 1 /\ resumed > 0 THEN "up" ELSE "none"]
              /\ chan = [g \in Clients |-> IF g = 1 /\ resumed > k THEN <<1>> ELSE <<>>]
              /\ listening = [g \in Clients |-> IF g = 1 /\ resumed > 0 THEN 1 ELSE 0]
              /\ cmds = IF resumed > 0 THEN {[do |-> "state", c |-> 1]} ELSE {}
              /\ authMode = (resumed = 0)
  BY DEF Init
<1>4. PICK resumed \in {0, n} :
              /\ sessionToken = resumed
              /\ tok = [g \in Clients |-> IF g = 1 THEN resumed ELSE 0]
              /\ sock = [g \in Clients |-> IF g = 1 /\ resumed > 0 THEN "up" ELSE "none"]
              /\ chan = [g \in Clients |-> IF g = 1 /\ resumed > k THEN <<1>> ELSE <<>>]
              /\ listening = [g \in Clients |-> IF g = 1 /\ resumed > 0 THEN 1 ELSE 0]
              /\ cmds = IF resumed > 0 THEN {[do |-> "state", c |-> 1]} ELSE {}
              /\ authMode = (resumed = 0)
  BY <1>3
<1>5. /\ pw = [g \in Clients |-> FALSE]
      /\ client = 1 /\ processedIDs = {} /\ lastSeenID = 0 /\ top = 0
      /\ reconnectPrompt = FALSE /\ authInProgress = FALSE /\ reconnectAttempt = 0
      /\ shown = [s \in Sessions |-> [i \in IDs |-> IF i <= seen[s] THEN 1 ELSE 0]]
      /\ fetchedFrom = -1 /\ fetchedTo = 0 /\ foreign = {}
  BY DEF Init
<1>6. ProxyTypes
  BY <1>1, <1>2, <1>3 DEF ProxyTypes, Sessions
<1>7. ClientTypes
  <2>1. tok \in [Clients -> 0..MaxSessions] /\ pw \in [Clients -> BOOLEAN]
    BY <1>1, <1>4, <1>5
  <2>2. sock \in [Clients -> {"none", "up", "down"}] /\ listening \in [Clients -> 0..2]
    BY <1>4
  <2>3. <<1>> \in Seq(IDs) /\ <<>> \in Seq(IDs)
    BY <1>2
  <2>4. chan \in [Clients -> Seq(IDs)]
    BY <1>4, <2>3
  <2> QED BY <2>1, <2>2, <2>4 DEF ClientTypes
<1>8. CmdTypes
  <2>1. [do |-> "state", c |-> 1] \in Asked
    BY <1>2 DEF Asked
  <2> QED BY <1>4, <2>1 DEF CmdTypes
<1>9. ModelTypes
  <2>1. authMode = (resumed = 0)
    BY <1>4
  <2>2. authMode \in BOOLEAN
    BY <2>1, Zenon
  <2>3. sessionToken \in 0..MaxSessions /\ 0 \in 0..autoReconnectAttempts
    BY <1>1, <1>4
  <2> QED BY <1>2, <1>5, <2>2, <2>3 DEF ModelTypes
<1>10. ViewTypes
  <2>1. shown \in [Sessions -> [IDs -> 0..2]]
    BY <1>5
  <2>2. 0 \in LastIDs /\ fetchedFrom \in -1..LastID
    BY <1>1, <1>5 DEF LastIDs
  <2> QED BY <1>5, <2>1, <2>2 DEF ViewTypes, LastIDs
<1> QED BY <1>6, <1>7, <1>8, <1>9, <1>10, TypeParts

-----------------------------------------------------------------------------
\* Every step keeps the types.
LEMMA SameTypes ==
    /\ ProxyTypes /\ UNCHANGED proxy => ProxyTypes'
    /\ ClientTypes /\ UNCHANGED clients => ClientTypes'
    /\ CmdTypes /\ UNCHANGED cmds => CmdTypes'
    /\ ModelTypes /\ UNCHANGED <<login, reconnectPrompt>> => ModelTypes'
    /\ ViewTypes /\ UNCHANGED <<view, history>> => ViewTypes'
<1>1. ProxyTypes /\ UNCHANGED proxy => ProxyTypes'
  BY DEF ProxyTypes, proxy
<1>2. ClientTypes /\ UNCHANGED clients => ClientTypes'
  BY DEF ClientTypes, clients
<1>3. CmdTypes /\ UNCHANGED cmds => CmdTypes'
  BY DEF CmdTypes
<1>4. ModelTypes /\ UNCHANGED <<login, reconnectPrompt>> => ModelTypes'
  BY DEF ModelTypes, login
<1>5. ViewTypes /\ UNCHANGED <<view, history>> => ViewTypes'
  BY DEF ViewTypes, view, history
<1> QED BY <1>1, <1>2, <1>3, <1>4, <1>5

LEMMA PublishTypes ==
    ASSUME ProxyTypes, ClientTypes, OpenInv, NEW s \in lily, Publish(s)
    PROVE  /\ log' \in [Sessions -> LastIDs] /\ chan' \in [Clients -> Seq(IDs)]
           /\ s \in Sessions /\ log'[s] = log[s] + 1
<1>1. s \in Sessions /\ log[s] \in Nat /\ log[s] <= MaxMsgs[s]
  BY LastIDIsLast DEF ProxyTypes, LastIDs, OpenInv
<1>2. log[s] + 1 \in 1..LastID /\ log[s] + 1 \in IDs /\ log[s] + 1 \in LastIDs
  <2>1. LastID \in Nat /\ MaxMsgs[s] \in Nat /\ MaxMsgs[s] < LastID
    BY <1>1, LastIDIsLast
  <2> QED BY <1>1, <2>1 DEF IDs, LastIDs
<1>3. log' \in [Sessions -> LastIDs] /\ log'[s] = log[s] + 1
  BY <1>1, <1>2 DEF Publish, ProxyTypes
<1>4. chan' \in [Clients -> Seq(IDs)]
  <2>1. \A g \in Clients : Append(chan[g], log[s] + 1) \in Seq(IDs) /\ chan[g] \in Seq(IDs)
    BY <1>2 DEF ClientTypes
  <2> QED BY <2>1 DEF Publish
<1> QED BY <1>1, <1>3, <1>4

LEMMA LilyTypes ==
    ASSUME TypeOK, OpenInv, NEW s \in Sessions,
           LilySpeaks(s) \/ LilyCloses(s) \/ Teardown(s)
    PROVE  TypeOK'
<1>1. ProxyTypes /\ ClientTypes /\ CmdTypes /\ ModelTypes /\ ViewTypes
  BY TypeParts
<1>2. CmdTypes' /\ ModelTypes' /\ ViewTypes'
  BY <1>1, SameTypes DEF LilySpeaks, LilyCloses, Teardown
<1>3. CASE LilySpeaks(s)
  <2>1. log' \in [Sessions -> LastIDs] /\ chan' \in [Clients -> Seq(IDs)]
    BY <1>1, <1>3, PublishTypes DEF LilySpeaks
  <2>2. ProxyTypes' /\ ClientTypes'
    BY <1>1, <1>3, <2>1 DEF LilySpeaks, ProxyTypes, ClientTypes
  <2> QED BY <1>2, <2>2, TypeParts, PTL
<1>4. CASE LilyCloses(s)
  <2>1. log' \in [Sessions -> LastIDs] /\ chan' \in [Clients -> Seq(IDs)]
    BY <1>1, <1>4, PublishTypes DEF LilyCloses
  <2>2. ProxyTypes' /\ ClientTypes'
    BY <1>1, <1>4, <2>1 DEF LilyCloses, ProxyTypes, ClientTypes
  <2> QED BY <1>2, <2>2, TypeParts, PTL
<1>5. CASE Teardown(s)
  <2>1. ProxyTypes' /\ ClientTypes'
    BY <1>1, <1>5, SameTypes DEF Teardown, ProxyTypes
  <2> QED BY <1>2, <2>1, TypeParts, PTL
<1> QED BY <1>3, <1>4, <1>5

LEMMA DropTypes ==
    ASSUME TypeOK, NEW g \in Clients, Drop(g)
    PROVE  TypeOK'
<1>1. ProxyTypes /\ ClientTypes /\ CmdTypes /\ ModelTypes /\ ViewTypes
  BY TypeParts
<1>2. ProxyTypes' /\ CmdTypes' /\ ModelTypes' /\ ViewTypes'
  BY <1>1, SameTypes DEF Drop
<1>3. PICK n \in 0..Len(chan[g]) : chan' = [chan EXCEPT ![g] = SubSeq(chan[g], 1, n)]
  BY DEF Drop
<1>4. SubSeq(chan[g], 1, n) \in Seq(IDs)
  BY <1>1 DEF ClientTypes
<1>5. ClientTypes'
  BY <1>1, <1>3, <1>4 DEF Drop, ClientTypes
<1> QED BY <1>2, <1>5, TypeParts, PTL

LEMMA FreshIsUnused ==
    ASSUME CanCreate
    PROVE  Fresh \in Clients /\ Unused(Fresh)
BY Zenon DEF CanCreate, Fresh

LEMMA ResumeTypes ==
    ASSUME TypeOK, NEW j \in cmds, j.do = "resume", Resume(j)
    PROVE  TypeOK'
<1>1. ProxyTypes /\ ClientTypes /\ CmdTypes /\ ModelTypes /\ ViewTypes
  BY TypeParts
<1>2. j.c \in Clients /\ Fresh \in Clients
  BY <1>1, Kinds, FreshIsUnused DEF Resume
<1>3. tok[j.c] \in 0..MaxSessions /\ pw[j.c] \in BOOLEAN
      /\ (tok[j.c] \in known => tok[j.c] \in Sessions)
  BY <1>1, <1>2 DEF ClientTypes, ProxyTypes
<1>4. PICK up \in BOOLEAN,
            more \in {Authed(Fresh, "ok"), Authed(Fresh, "net"), {[do |-> "login", c |-> Fresh]}} :
         /\ up => tok[j.c] \in known
         /\ Replace(j.c, Fresh, tok[j.c], pw[j.c], up)
         /\ Results(j, more)
  BY DEF Resume
<1>5. ClientTypes'
  BY <1>1, <1>2, <1>3, <1>4, ReplaceTypes
<1>6. CmdTypes'
  BY <1>1, <1>2, <1>4, NewCommands, ResultsType
<1>7. ProxyTypes' /\ ModelTypes' /\ ViewTypes'
  BY <1>1, SameTypes DEF Resume
<1> QED BY <1>5, <1>6, <1>7, TypeParts, PTL

LEMMA OpensTypes ==
    ASSUME ProxyTypes, NEW s \in Sessions, Opens(s), UNCHANGED <<log, seen>>
    PROVE  ProxyTypes'
BY DEF ProxyTypes, Opens

\* A login, whether it succeeds or not, in one form.
LEMMA AuthenticatesTypes ==
    ASSUME TypeOK, NEW j, NEW c \in Clients, NEW g \in Clients,
           Authenticates(j, c, g), UNCHANGED <<log, seen>>
    PROVE  ProxyTypes' /\ ClientTypes' /\ CmdTypes'
<1>1. ProxyTypes /\ ClientTypes /\ CmdTypes
  BY TypeParts
<1>2. CASE \E s \in Sessions, up \in BOOLEAN :
             /\ Opens(s) /\ Replace(c, g, s, TRUE, up)
             /\ Results(j, Authed(g, IF up THEN "ok" ELSE "net"))
  <2>1. PICK s \in Sessions, up \in BOOLEAN :
             /\ Opens(s) /\ Replace(c, g, s, TRUE, up)
             /\ Results(j, Authed(g, IF up THEN "ok" ELSE "net"))
    BY <1>2
  <2>2. s \in 0..MaxSessions
    BY LastIDIsLast DEF Sessions
  <2>3. ClientTypes'
    BY <1>1, <2>1, <2>2, ReplaceTypes
  <2>4. ProxyTypes'
    BY <1>1, <2>1, OpensTypes
  <2>5. Authed(g, IF up THEN "ok" ELSE "net") \subseteq AuthResult
    BY NewCommands
  <2>6. CmdTypes'
    BY <1>1, <2>1, <2>5, ResultsType
  <2> QED BY <2>3, <2>4, <2>6
<1>3. CASE \E err \in {"net", "rejected"} :
             /\ Replace(c, g, 0, FALSE, FALSE) /\ Results(j, Authed(g, err))
             /\ UNCHANGED <<known, lily>>
  <2>1. PICK err \in {"net", "rejected"} :
             /\ Replace(c, g, 0, FALSE, FALSE) /\ Results(j, Authed(g, err))
             /\ UNCHANGED <<known, lily>>
    BY <1>3
  <2>2. 0 \in 0..MaxSessions
    BY LastIDIsLast
  <2>3. ClientTypes'
    BY <1>1, <2>1, <2>2, ReplaceTypes
  <2>4. ProxyTypes'
    BY <1>1, <2>1, SameTypes DEF proxy
  <2>5. CmdTypes'
    BY <1>1, <2>1, NewCommands, ResultsType
  <2> QED BY <2>3, <2>4, <2>5
<1> QED BY <1>2, <1>3 DEF Authenticates

LEMMA ReconnectTypes ==
    ASSUME TypeOK, NEW j \in cmds, j.do = "login", Reconnect(j)
    PROVE  TypeOK'
<1>1. ProxyTypes /\ ClientTypes /\ CmdTypes /\ ModelTypes /\ ViewTypes
  BY TypeParts
<1>2. j.c \in Clients /\ Fresh \in Clients
  BY <1>1, Kinds, FreshIsUnused DEF Reconnect
<1>3. ModelTypes' /\ ViewTypes' /\ UNCHANGED <<log, seen>>
  BY <1>1, SameTypes DEF Reconnect
<1>4. CASE pw[j.c]
  <2>1. Authenticates(j, j.c, Fresh)
    BY <1>4 DEF Reconnect
  <2>2. ProxyTypes' /\ ClientTypes' /\ CmdTypes'
    BY <1>2, <1>3, <2>1, AuthenticatesTypes
  <2> QED BY <1>3, <2>2, TypeParts, PTL
<1>5. CASE ~pw[j.c]
  <2>1. /\ Replace(j.c, Fresh, 0, FALSE, FALSE) /\ Results(j, Authed(Fresh, "gone"))
        /\ UNCHANGED <<known, lily>>
    BY <1>5 DEF Reconnect
  <2>2. 0 \in 0..MaxSessions
    BY LastIDIsLast
  <2>3. ClientTypes'
    BY <1>1, <1>2, <2>1, <2>2, ReplaceTypes
  <2>4. ProxyTypes'
    BY <1>1, <1>3, <2>1, SameTypes DEF proxy
  <2>5. CmdTypes'
    BY <1>1, <1>2, <2>1, NewCommands, ResultsType
  <2> QED BY <1>3, <2>3, <2>4, <2>5, TypeParts, PTL
<1> QED BY <1>4, <1>5

LEMMA AttemptAuthTypes ==
    ASSUME TypeOK, NEW j \in cmds, AttemptAuth(j)
    PROVE  TypeOK'
<1>1. ProxyTypes /\ ClientTypes /\ CmdTypes /\ ModelTypes /\ ViewTypes
  BY TypeParts
<1>2. ModelTypes' /\ ViewTypes' /\ UNCHANGED <<log, seen>>
  BY <1>1, SameTypes DEF AttemptAuth
<1>3. ProxyTypes' /\ ClientTypes' /\ CmdTypes'
  BY <1>1, <1>2, Kinds, AuthenticatesTypes DEF AttemptAuth
<1> QED BY <1>2, <1>3, TypeParts, PTL

LEMMA FetchTypes ==
    ASSUME TypeOK, NEW f \in cmds,
           \/ f.do = "state" /\ RequestState(f)
           \/ f.do = "wait" /\ AnswerState(f)
           \/ f.do = "page" /\ FetchPage(f)
    PROVE  TypeOK'
<1>1. ProxyTypes /\ ClientTypes /\ CmdTypes /\ ModelTypes /\ ViewTypes
  BY TypeParts
<1>2. ProxyTypes' /\ ClientTypes' /\ ModelTypes' /\ ViewTypes'
  BY <1>1, SameTypes DEF RequestState, AnswerState, FetchPage
<1>3. LastID \in Nat /\ PageLimit \in Nat
  BY LastIDIsLast
<1>4. CASE f.do = "state" /\ RequestState(f)
  <2>1. f.c \in Clients /\ (tok[f.c] \in known => tok[f.c] \in Sessions) /\ 0 \in 0..LastID
    BY <1>1, <1>3, Kinds DEF ProxyTypes
  <2>2. tok[f.c] \in known =>
           [do |-> "wait", c |-> f.c, s |-> tok[f.c], mark |-> 0, upto |-> 0] \in Fetch
    BY <2>1 DEF Fetch
  <2>3. CmdTypes'
    BY <1>1, <1>4, <2>2, ResultsType DEF RequestState
  <2> QED BY <1>2, <2>3, TypeParts, PTL
<1>5. CASE f.do = "wait" /\ AnswerState(f)
  <2>1. f \in Fetch
    BY <1>1, <1>5, Kinds
  <2>2. seen[f.s] \in 0..LastID
    BY <1>1, <2>1 DEF Fetch, ProxyTypes, LastIDs
  <2>3. [f EXCEPT !.do = IF seen[f.s] > 0 THEN "page" ELSE "loaded",
                  !.mark = seen[f.s], !.upto = seen[f.s]] \in Fetch
    BY <2>1, <2>2 DEF Fetch
  <2>4. CmdTypes'
    BY <1>1, <1>5, <2>3, ResultsType DEF AnswerState
  <2> QED BY <1>2, <2>4, TypeParts, PTL
<1>6. CASE f.do = "page" /\ FetchPage(f)
  <2>1. f \in Fetch /\ f.s \in Sessions /\ f.upto \in 0..LastID
    <3>1. f \in Fetch
      BY <1>1, <1>6, Kinds
    <3> QED BY <3>1 DEF Fetch
  <2> DEFINE n == Cardinality({i \in Ring(f.s) : i > f.upto})
             u == IF n > PageLimit THEN f.upto + PageLimit ELSE f.upto + n
  <2>2. u \in 0..LastID
    <3>1. PICK k \in 0..LastID : Ring(f.s) = 1..k
      BY <1>1, <2>1, RingType
    <3>2. k \in Int /\ f.upto \in Nat
      BY <1>3, <2>1
    <3>3. n = IF f.upto < k THEN k - f.upto ELSE 0
      BY <3>1, <3>2, CountAbove
    <3> HIDE DEF n
    <3> QED BY <1>3, <2>1, <3>1, <3>3
  <2>3. /\ [f EXCEPT !.do = IF n > PageLimit THEN "page" ELSE "loaded", !.upto = u] \in Fetch
        /\ [f EXCEPT !.do = "partly"] \in Fetch
    <3> HIDE DEF n, u
    <3> QED BY <2>1, <2>2 DEF Fetch
  <2>4. PICK more : more \subseteq Fetch /\ Results(f, more)
    <3>1. \/ Results(f, {[f EXCEPT !.do = IF n > PageLimit THEN "page" ELSE "loaded", !.upto = u]})
          \/ Results(f, {[f EXCEPT !.do = "partly"]})
      <4>1. [f EXCEPT !.do = IF n > PageLimit THEN "page" ELSE "loaded",
                      !.upto = IF n > PageLimit THEN f.upto + PageLimit ELSE f.upto + n]
            = [f EXCEPT !.do = IF n > PageLimit THEN "page" ELSE "loaded", !.upto = u]
        OBVIOUS
      <4> QED BY <1>6, <4>1 DEF FetchPage
    <3> HIDE DEF n, u
    <3> QED BY <3>1, <2>3
  <2>5. CmdTypes'
    BY <1>1, <2>4, ResultsType
  <2> QED BY <1>2, <2>5, TypeParts, PTL
<1> QED BY <1>4, <1>5, <1>6

\* What a report of the mark may change.
LEMMA ReportTypes ==
    ASSUME ProxyTypes, ClientTypes, ModelTypes, NEW ok \in BOOLEAN, NEW id \in LastIDs,
           Report(ok, id), UNCHANGED <<known, lily, log>>
    PROVE  ProxyTypes'
<1>1. CASE ok /\ tok[client] \in known
  <2>1. tok[client] \in Sessions /\ seen[tok[client]] \in LastIDs
    BY <1>1 DEF ProxyTypes
  <2>2. Larger(seen[tok[client]], id) \in LastIDs
    BY <2>1 DEF Larger
  <2>3. seen' = [seen EXCEPT ![tok[client]] = Larger(seen[tok[client]], id)]
    BY <1>1 DEF Report
  <2> QED BY <2>2, <2>3 DEF ProxyTypes
<1>2. CASE ~(ok /\ tok[client] \in known)
  BY <1>2 DEF Report, ProxyTypes
<1> QED BY <1>1, <1>2

LEMMA AdvanceTypes ==
    ASSUME ProxyTypes, ClientTypes, ModelTypes, lastSeenID \in LastIDs, NEW t \in LastIDs,
           Advance(t), UNCHANGED <<known, lily, log>>
    PROVE  ProxyTypes' /\ lastSeenID' \in LastIDs
<1>1. lastSeenID' \in LastIDs
  BY DEF Advance, Larger
<1>2. (Attached(client) /\ t > lastSeenID) \in BOOLEAN
  OBVIOUS
<1>3. Report(Attached(client) /\ t > lastSeenID, t)
  BY DEF Advance
<1> QED BY <1>1, <1>2, <1>3, ReportTypes

\* Whoever hands a message over is the client in use, and nobody reconnects meanwhile.
LEMMA Heard ==
    ASSUME TypeOK, JobInv, DeafInv, NEW g \in Clients, listening[g] > 0, chan[g] # <<>>
    PROVE  g = client /\ ~Busy /\ authMode = FALSE
<1>1. ~Deaf(g)
  BY DEF Deaf
<1>2. g = client /\ ~Busy
  BY <1>1 DEF DeafInv
<1>3. authMode \in BOOLEAN /\ ~authMode
  <2>1. ~authMode
    BY <1>2 DEF JobInv
  <2> QED BY <2>1 DEF TypeOK
<1> QED BY <1>2, <1>3

LEMMA ReceiveTypes ==
    ASSUME TypeOK, JobInv, DeafInv, NEW g \in Clients, Receive(g)
    PROVE  TypeOK'
<1>1. ProxyTypes /\ ClientTypes /\ CmdTypes /\ ModelTypes /\ ViewTypes
  BY TypeParts
<1>2. listening[g] > 0 /\ chan[g] # <<>> /\ g = client
  BY Heard DEF Receive
<1> DEFINE id == Head(chan[g])
<1>3. chan[g] \in Seq(IDs) /\ id \in IDs /\ Tail(chan[g]) \in Seq(IDs)
  BY <1>1, <1>2 DEF ClientTypes
<1>4. IDs \subseteq LastIDs
  BY LastIDIsLast DEF IDs, LastIDs
<1>5. UNCHANGED <<known, lily, log, tok, pw, sock, cmds, login, fetchedFrom, fetchedTo, foreign>>
  BY DEF Receive
<1> HIDE DEF id
<1>6. ClientTypes'
  <2>1. chan' \in [Clients -> Seq(IDs)]
    <3>1. chan' = [chan EXCEPT ![g] = Tail(chan[g])]
      BY DEF Receive
    <3> QED BY <1>1, <1>3, <3>1 DEF ClientTypes
  <2>2. listening' \in [Clients -> 0..2]
    <3>1. listening' = LET l == [listening EXCEPT ![g] = @ - 1] IN
                       IF reconnectPrompt' THEN l ELSE [l EXCEPT ![client] = @ + 1]
      BY DEF Receive
    <3>2. listening \in [Clients -> 0..2] /\ g \in Clients
      BY <1>1 DEF ClientTypes
    <3> QED BY <1>2, <3>1, <3>2
  <2> QED BY <1>1, <1>5, <2>1, <2>2 DEF ClientTypes
<1>7. CmdTypes'
  BY <1>1, <1>5, SameTypes
<1>8. CASE AlreadyProcessed(id)
  <2>1. UNCHANGED <<processedIDs, top, shown, reconnectPrompt, lastSeenID, seen>>
    BY <1>8 DEF Receive, id
  <2>2. ProxyTypes' /\ ModelTypes' /\ ViewTypes'
    BY <1>1, <1>5, <2>1, SameTypes DEF proxy, view, history
  <2> QED BY <1>6, <1>7, <2>2, TypeParts, PTL
<1>9. CASE ~AlreadyProcessed(id)
  <2>1. processedIDs' = processedIDs \cup {id} /\ HandleProxy(tok[g], id) /\ Advance(top')
    BY <1>9 DEF Receive, id
  <2>2. top' \in LastIDs
    <3>1. id \in LastIDs /\ top \in LastIDs
      BY <1>1, <1>3, <1>4 DEF ViewTypes
    <3> QED BY <2>1, <3>1 DEF HandleProxy, Larger
  <2>3. ProxyTypes' /\ lastSeenID' \in LastIDs
    BY <1>1, <1>5, <2>1, <2>2, AdvanceTypes DEF ViewTypes
  <2>4. reconnectPrompt' \in BOOLEAN
    BY <2>1, Zenon DEF HandleProxy
  <2>5. ModelTypes'
    BY <1>1, <1>5, <2>4 DEF ModelTypes, login
  <2>6. shown' \in [Sessions -> [IDs -> 0..2]]
    <3>1. Putting(tok[g], id) /\ shown \in [Sessions -> [IDs -> 0..2]]
      BY <1>1, <2>1 DEF HandleProxy, ViewTypes
    <3>2. CASE tok[g] \in Sessions
      <4>1. shown[tok[g]] \in [IDs -> 0..2] /\ shown[tok[g]][id] \in 0..2
        BY <1>3, <3>1, <3>2
      <4>2. (IF shown[tok[g]][id] < 2 THEN shown[tok[g]][id] + 1 ELSE shown[tok[g]][id]) \in 0..2
        BY <4>1
      <4>3. PICK b \in 0..2 : shown' = [shown EXCEPT ![tok[g]][id] = b]
        BY <3>1, <4>2 DEF Putting
      <4> QED BY <3>1, <4>3
    <3>3. CASE tok[g] \notin Sessions
      BY <3>1, <3>3 DEF Putting
    <3> QED BY <3>2, <3>3
  <2>7. ViewTypes'
    BY <1>1, <1>3, <1>5, <2>1, <2>2, <2>3, <2>6 DEF ViewTypes
  <2> QED BY <1>6, <1>7, <2>3, <2>5, <2>7, TypeParts, PTL
<1> QED BY <1>8, <1>9

LEMMA SocketClosedTypes ==
    ASSUME TypeOK, NEW g \in Clients, SocketClosed(g)
    PROVE  TypeOK'
<1>1. ProxyTypes /\ ClientTypes /\ CmdTypes /\ ModelTypes /\ ViewTypes
  BY TypeParts
<1>2. ProxyTypes' /\ ViewTypes'
  BY <1>1, SameTypes DEF SocketClosed
<1>3. ClientTypes'
  BY <1>1 DEF SocketClosed, ClientTypes
<1>4. ModelTypes'
  <2>1. reconnectAttempt' \in 0..autoReconnectAttempts
    <3>1. reconnectAttempt' \in {0, reconnectAttempt}
      BY Zenon DEF SocketClosed
    <3> QED BY <1>1, <3>1, LastIDIsLast DEF ModelTypes
  <2>2. authInProgress' \in BOOLEAN
    BY <1>1, Zenon DEF SocketClosed, ModelTypes
  <2>3. UNCHANGED <<client, sessionToken, authMode, reconnectPrompt>>
    BY DEF SocketClosed
  <2> QED BY <1>1, <2>1, <2>2, <2>3, Zenon DEF ModelTypes
<1>5. CmdTypes'
  <2>1. ReconnectNow(client) \in Job
    BY <1>1, NewCommands DEF ModelTypes
  <2> QED BY <1>1, <2>1 DEF SocketClosed, CmdTypes
<1> QED BY <1>2, <1>3, <1>4, <1>5, TypeParts, PTL

LEMMA AuthFailedTypes ==
    ASSUME TypeOK, NEW r \in cmds, r.do = "authed", AuthFailed(r)
    PROVE  TypeOK'
<1>1. ProxyTypes /\ ClientTypes /\ CmdTypes /\ ModelTypes /\ ViewTypes
  BY TypeParts
<1>2. ProxyTypes' /\ ClientTypes' /\ ViewTypes'
  BY <1>1, SameTypes DEF AuthFailed
<1>3. r.c \in Clients /\ autoReconnectAttempts \in Nat
  BY <1>1, Kinds, LastIDIsLast
<1>4. PICK more \in {{}, {ReconnectNow(r.c)}} : Results(r, more)
  BY DEF AuthFailed
<1>5. CmdTypes'
  BY <1>1, <1>3, <1>4, NewCommands, ResultsType
<1>6. ModelTypes'
  <2>1. reconnectAttempt' \in 0..autoReconnectAttempts
    BY <1>1, <1>3 DEF AuthFailed, OutOfTries, ModelTypes
  <2>2. /\ authMode' \in BOOLEAN /\ reconnectPrompt' \in BOOLEAN /\ authInProgress' \in BOOLEAN
    BY <1>1 DEF AuthFailed, ModelTypes
  <2>3. client' \in Clients /\ sessionToken' \in 0..MaxSessions
    BY <1>1, <1>3 DEF AuthFailed, ModelTypes
  <2> QED BY <2>1, <2>2, <2>3 DEF ModelTypes
<1> QED BY <1>2, <1>5, <1>6, TypeParts, PTL

LEMMA AdoptTypes ==
    ASSUME TypeOK, JobInv, NEW r \in cmds, r.do = "authed", Adopt(r)
    PROVE  TypeOK'
<1>1. ProxyTypes /\ ClientTypes /\ CmdTypes /\ ModelTypes /\ ViewTypes
  BY TypeParts
<1>2. r.c \in Clients /\ autoReconnectAttempts \in Nat /\ LastID \in Nat /\ listening[r.c] = 0
  BY <1>1, Kinds, LastIDIsLast DEF JobInv
<1>3. ProxyTypes'
  BY <1>1, SameTypes DEF Adopt
<1>4. ClientTypes'
  BY <1>1, <1>2 DEF Adopt, Listen, ClientTypes
<1>5. CmdTypes'
  <2>1. Results(r, {[do |-> "state", c |-> r.c]})
    BY DEF Adopt
  <2> QED BY <1>1, <1>2, <2>1, NewCommands, ResultsType
<1>6. ModelTypes'
  <2>1. client' = r.c /\ sessionToken' = tok[r.c] /\ reconnectAttempt' = 0
        /\ authMode' = FALSE /\ authInProgress' = FALSE /\ reconnectPrompt' = FALSE
    BY Zenon DEF Adopt
  <2>2. tok[r.c] \in 0..MaxSessions /\ 0 \in 0..autoReconnectAttempts
    BY <1>1, <1>2 DEF ClientTypes
  <2> QED BY <1>2, <2>1, <2>2 DEF ModelTypes
<1>7. ViewTypes'
  <2>1. /\ processedIDs' \subseteq IDs
        /\ lastSeenID' \in LastIDs /\ top' \in LastIDs /\ foreign' \subseteq IDs
    <3>1. CASE tok[r.c] # sessionToken
      <4>1. processedIDs' = {} /\ lastSeenID' = 0 /\ top' = 0 /\ foreign' = {}
        BY <3>1, Zenon DEF Adopt, ResetSessionIDs
      <4>2. 0 \in LastIDs
        BY <1>2 DEF LastIDs
      <4> QED BY <4>1, <4>2, Zenon
    <3>2. CASE tok[r.c] = sessionToken
      <4>1. UNCHANGED <<processedIDs, lastSeenID, top, foreign>>
        BY <3>2, Zenon DEF Adopt
      <4> QED BY <1>1, <4>1, Zenon DEF ViewTypes
    <3> QED BY <3>1, <3>2
  <2> QED BY <1>1, <1>2, <2>1 DEF Adopt, ViewTypes
<1> QED BY <1>3, <1>4, <1>5, <1>6, <1>7, TypeParts, PTL

LEMMA LoadedTypes ==
    ASSUME TypeOK, NEW f \in cmds, f.do \in {"loaded", "partly"}, Loaded(f)
    PROVE  TypeOK'
<1>1. ProxyTypes /\ ClientTypes /\ CmdTypes /\ ModelTypes /\ ViewTypes
  BY TypeParts
<1>2. f \in Fetch /\ f.s \in Sessions /\ f.mark \in LastIDs /\ f.upto \in LastIDs
  <2>1. f \in Fetch
    BY <1>1, Kinds
  <2> QED BY <2>1 DEF Fetch, LastIDs
<1> DEFINE missed == ((f.mark + 1)..f.upto) \ processedIDs
<1>3. missed \subseteq IDs /\ missed \subseteq LastIDs /\ missed \in SUBSET Int
  BY <1>2, LastIDIsLast DEF IDs, LastIDs
<1>4. missed # {} => Max(missed) \in missed
  <2>1. IsFiniteSet((f.mark + 1)..f.upto)
    <3>1. f.mark + 1 \in Int /\ f.upto \in Int
      BY <1>2, LastIDIsLast DEF LastIDs
    <3> QED BY <3>1, FS_Interval
  <2>2. IsFiniteSet(missed)
    BY <2>1, FS_Difference
  <2> HIDE DEF missed
  <2> QED BY <1>3, <2>2, MaxOfFinite
<1>5. /\ processedIDs' = processedIDs \cup missed
      /\ top' = IF missed = {} THEN top ELSE Larger(top, Max(missed))
      /\ shown' = [shown EXCEPT ![f.s] = [i \in IDs |->
                       IF i \in missed /\ @[i] < 2 THEN @[i] + 1 ELSE @[i]]]
      /\ lastSeenID' = IF f.mark > 0 THEN Larger(lastSeenID, f.mark) ELSE lastSeenID
      /\ \E ok \in BOOLEAN : Report(ok, lastSeenID')
      /\ Results(f, {})
      /\ IF f.c = client
         THEN fetchedFrom' = f.mark /\ fetchedTo' = IF f.do = "loaded" THEN LastID ELSE f.upto
         ELSE UNCHANGED <<fetchedFrom, fetchedTo>>
      /\ foreign' = IF f.s = sessionToken THEN foreign ELSE foreign \cup missed
      /\ UNCHANGED <<known, lily, log, clients, login, reconnectPrompt>>
  BY Zenon DEF Loaded
<1> HIDE DEF missed
<1>6. lastSeenID' \in LastIDs
  BY <1>1, <1>2, <1>5 DEF ViewTypes, Larger
<1>7. ProxyTypes'
  BY <1>1, <1>5, <1>6, ReportTypes
<1>8. ClientTypes' /\ ModelTypes'
  BY <1>1, <1>5, SameTypes
<1>9. CmdTypes'
  BY <1>1, <1>5 DEF CmdTypes, Results
<1>10. ViewTypes'
  <2>1. processedIDs' \subseteq IDs
    BY <1>1, <1>3, <1>5 DEF ViewTypes
  <2>2. top' \in LastIDs
    BY <1>1, <1>3, <1>4, <1>5 DEF ViewTypes, Larger
  <2>3. fetchedFrom' \in -1..LastID /\ fetchedTo' \in 0..LastID
    BY <1>1, <1>2, <1>5, LastIDIsLast DEF ViewTypes, LastIDs
  <2>4. foreign' \subseteq IDs
    BY <1>1, <1>3, <1>5 DEF ViewTypes
  <2>5. shown' \in [Sessions -> [IDs -> 0..2]]
    <3>1. shown \in [Sessions -> [IDs -> 0..2]] /\ shown[f.s] \in [IDs -> 0..2]
      BY <1>1, <1>2 DEF ViewTypes
    <3>2. [i \in IDs |-> IF i \in missed /\ shown[f.s][i] < 2 THEN shown[f.s][i] + 1
                                                          ELSE shown[f.s][i]] \in [IDs -> 0..2]
      BY <3>1
    <3> QED BY <1>5, <3>1, <3>2
  <2> QED BY <1>6, <2>1, <2>2, <2>3, <2>4, <2>5 DEF ViewTypes
<1> QED BY <1>7, <1>8, <1>9, <1>10, TypeParts, PTL

LEMMA LookTypes ==
    ASSUME TypeOK, Look
    PROVE  TypeOK'
<1>1. ProxyTypes /\ ClientTypes /\ CmdTypes /\ ModelTypes /\ ViewTypes
  BY TypeParts
<1>2. ClientTypes' /\ CmdTypes' /\ ModelTypes'
  BY <1>1, SameTypes DEF Look
<1>3. ProxyTypes' /\ lastSeenID' \in LastIDs
  <2>1. top \in LastIDs /\ lastSeenID \in LastIDs
    BY <1>1 DEF ViewTypes
  <2>2. Advance(top) /\ UNCHANGED <<known, lily, log>>
    BY DEF Look
  <2> QED BY <1>1, <2>1, <2>2, AdvanceTypes
<1>4. ViewTypes'
  <2>1. UNCHANGED <<processedIDs, top, history>>
    BY DEF Look
  <2> QED BY <1>1, <1>3, <2>1 DEF ViewTypes, history
<1> QED BY <1>2, <1>3, <1>4, TypeParts, PTL

LEMMA UserTypes ==
    ASSUME TypeOK, SubmitLogin \/ AnswerReconnect
    PROVE  TypeOK'
<1>1. ProxyTypes /\ ClientTypes /\ CmdTypes /\ ModelTypes /\ ViewTypes
  BY TypeParts
<1>2. ProxyTypes' /\ ClientTypes' /\ ViewTypes'
  BY <1>1, SameTypes DEF SubmitLogin, AnswerReconnect
<1>3. CmdTypes'
  <2>1. [do |-> "auth", c |-> client] \in Job /\ ReconnectNow(client) \in Job
    BY <1>1, NewCommands DEF ModelTypes
  <2> QED BY <1>1, <2>1 DEF SubmitLogin, AnswerReconnect, CmdTypes
<1>4. ModelTypes'
  <2>1. authInProgress' = TRUE /\ UNCHANGED <<client, sessionToken, authMode>>
    BY DEF SubmitLogin, AnswerReconnect
  <2>2. reconnectPrompt' \in {FALSE, reconnectPrompt}
    BY DEF SubmitLogin, AnswerReconnect
  <2>3. reconnectAttempt' \in {autoReconnectAttempts, reconnectAttempt}
    BY DEF SubmitLogin, AnswerReconnect
  <2>4. autoReconnectAttempts \in 0..autoReconnectAttempts
    BY LastIDIsLast
  <2>5. reconnectPrompt' \in BOOLEAN
    BY <1>1, <2>2, Zenon DEF ModelTypes
  <2>6. reconnectAttempt' \in 0..autoReconnectAttempts
    BY <1>1, <2>3, <2>4 DEF ModelTypes
  <2> QED BY <1>1, <2>1, <2>5, <2>6, Zenon DEF ModelTypes
<1> QED BY <1>2, <1>3, <1>4, TypeParts, PTL

LEMMA TypesKept ==
    ASSUME TypeOK, JobInv, DeafInv, OpenInv, Next
    PROVE  TypeOK'
<1>1. CASE \E s \in Sessions : LilySpeaks(s) \/ LilyCloses(s) \/ Teardown(s)
  BY <1>1, LilyTypes
<1>2. CASE Look \/ SubmitLogin \/ AnswerReconnect
  BY <1>2, LookTypes, UserTypes
<1>3. CASE \E g \in Clients : Drop(g)
  BY <1>3, DropTypes
<1>4. ASSUME NEW x \in cmds, Command(x) PROVE TypeOK'
  <2>1. CASE x.do = "resume" /\ Resume(x)
    BY <2>1, ResumeTypes
  <2>2. CASE x.do = "login" /\ Reconnect(x)
    BY <2>2, ReconnectTypes
  <2>3. CASE x.do = "auth" /\ AttemptAuth(x)
    BY <2>3, AttemptAuthTypes
  <2>4. CASE x.do = "state" /\ RequestState(x)
    BY <2>4, FetchTypes
  <2>5. CASE x.do = "wait" /\ AnswerState(x)
    BY <2>5, FetchTypes
  <2>6. CASE x.do = "page" /\ FetchPage(x)
    BY <2>6, FetchTypes
  <2>7. CASE x.do = "authed" /\ (AuthFailed(x) \/ Adopt(x))
    BY <2>7, AuthFailedTypes, AdoptTypes
  <2>8. CASE x.do \in {"loaded", "partly"} /\ Loaded(x)
    BY <2>8, LoadedTypes
  <2> QED BY <1>4, <2>1, <2>2, <2>3, <2>4, <2>5, <2>6, <2>7, <2>8, Zenon DEF Command
<1>5. ASSUME NEW g \in Clients, Receive(g) \/ SocketClosed(g) PROVE TypeOK'
  BY <1>5, ReceiveTypes, SocketClosedTypes
<1> QED BY <1>1, <1>2, <1>3, <1>4, <1>5, Zenon DEF Next, Runs, Hears

-----------------------------------------------------------------------------
\* What the network, the proxy, a fetch and a look at the screen do to the rest: no
\* attempt begins or ends, no socket comes up, no session begins, and whoever is
\* deaf stays so.
Passive ==
    /\ UNCHANGED <<tok, listening, client, sessionToken, authMode, authInProgress, reconnectPrompt>>
    /\ \A x : IsJob(x) => (x \in cmds' <=> x \in cmds)
    /\ \A g \in Clients : Attached(g)' => Attached(g)
    /\ known' \subseteq known /\ lily' \subseteq lily
    /\ \A g \in Clients :
          chan[g] = <<>> /\ (sock[g] # "up" \/ tok[g] \notin lily) => chan'[g] = <<>>
    /\ \A s \in Sessions : Begun(s) => Begun(s)'
    /\ \A s \in known' : s \in lily' \/ log'[s] > 0
    /\ \A s \in lily' : log'[s] <= MaxMsgs[s]

LEMMA PassiveKeeps ==
    ASSUME TypeOK, JobInv, DeafInv, SocketInv, OpenInv, KeepInv, Passive
    PROVE  JobInv' /\ DeafInv' /\ SocketInv' /\ OpenInv' /\ KeepInv'
<1>1. /\ UNCHANGED <<tok, listening, client, sessionToken, authMode, authInProgress, reconnectPrompt>>
      /\ \A x : IsJob(x) => (x \in cmds' <=> x \in cmds)
      /\ \A g \in Clients : sock'[g] = "up" => sock[g] = "up"
      /\ known' \subseteq known /\ lily' \subseteq lily
  BY DEF Passive, Attached
<1>2. Busy' <=> Busy
  BY <1>1 DEF Busy, IsJob
<1>3. client \in Clients /\ \A x \in cmds : x.c \in Clients
  BY TypeParts, Kinds DEF ModelTypes
<1>4. JobInv'
  <2>1. /\ \A x, y \in cmds' : IsJob(x) /\ IsJob(y) => x = y
        /\ Busy' => authInProgress' /\ ~reconnectPrompt'
        /\ authMode' => ~reconnectPrompt' /\ listening'[client'] = 0
    BY <1>1, <1>2 DEF JobInv
  <2>2. ASSUME NEW x \in cmds'
        PROVE  /\ x.do = "auth" => authMode' /\ x.c = client'
               /\ x.do = "authed" => listening'[x.c] = 0 /\ (x.err # "ok" => sock'[x.c] # "up")
    <3>1. IsJob(x) => x \in cmds
      BY <1>1
    <3> QED BY <1>1, <1>3, <3>1 DEF JobInv, IsJob, JobKinds
  <2> QED BY <2>1, <2>2 DEF JobInv, IsJob
<1>5. DeafInv'
  <2>1. \A g \in Clients : Deaf(g) => Deaf(g)'
    BY <1>1 DEF Passive, Deaf
  <2> QED BY <1>1, <1>2, <1>3, <2>1 DEF DeafInv
<1>6. SocketInv'
  BY <1>1, <1>2 DEF SocketInv, IsJob, Attached
<1>7. OpenInv'
  <2>1. /\ \A s \in known' : Begun(s)'
        /\ \A s \in lily' : log'[s] <= MaxMsgs[s]
    BY DEF Passive, Begun
  <2>2. \A g \in Clients : tok[g] # 0 => Begun(tok[g])'
    BY DEF Passive, OpenInv, TypeOK, Sessions
  <2>3. sessionToken # 0 => Begun(sessionToken)'
    BY DEF Passive, OpenInv, TypeOK, Sessions
  <2> QED BY <1>1, <2>1, <2>2, <2>3 DEF OpenInv
<1>8. KeepInv'
  BY <1>1 DEF KeepInv, IsJob
<1> QED BY <1>4, <1>5, <1>6, <1>7, <1>8

LEMMA LilyIsPassive ==
    ASSUME TypeOK, OpenInv, NEW s \in Sessions,
           LilySpeaks(s) \/ LilyCloses(s) \/ Teardown(s)
    PROVE  Passive
<1>1. ProxyTypes /\ ClientTypes
  BY TypeParts
<1>2. \A t \in Sessions : log[t] \in Nat
  BY <1>1, LastIDIsLast DEF ProxyTypes, LastIDs
<1>3. CASE LilySpeaks(s)
  <2>1. UNCHANGED <<known, lily, tok, sock, listening, cmds, login, reconnectPrompt>>
        /\ s \in lily /\ log[s] < MaxMsgs[s]
    BY <1>3 DEF LilySpeaks
  <2>2. log' = [log EXCEPT ![s] = log[s] + 1]
    BY <1>3 DEF LilySpeaks, Publish
  <2>3. \A g \in Clients :
           chan[g] = <<>> /\ (sock[g] # "up" \/ tok[g] \notin lily) => chan'[g] = <<>>
    BY <1>1, <1>3, <2>1 DEF LilySpeaks, Publish, Attached, ClientTypes
  <2>4. \A t \in Sessions : (Begun(t) => Begun(t)') /\ (t # s => log'[t] = log[t])
    BY <1>1, <1>2, <2>1, <2>2 DEF Begun, ProxyTypes
  <2>5. \A t \in known' : t \in lily' \/ log'[t] > 0
    BY <1>1, <2>1, <2>4 DEF OpenInv, Begun, ProxyTypes
  <2>6. \A t \in lily' : log'[t] <= MaxMsgs[t]
    BY <1>1, <1>2, <2>1, <2>2, <2>4, LastIDIsLast DEF OpenInv, ProxyTypes
  <2> QED BY <2>1, <2>3, <2>4, <2>5, <2>6 DEF Passive, login, Attached
<1>4. CASE LilyCloses(s)
  <2>1. UNCHANGED <<known, tok, sock, listening, cmds, login, reconnectPrompt>>
        /\ s \in lily /\ lily' = lily \ {s}
    BY <1>4 DEF LilyCloses
  <2>2. log' = [log EXCEPT ![s] = log[s] + 1]
    BY <1>4 DEF LilyCloses, Publish
  <2>3. \A g \in Clients :
           chan[g] = <<>> /\ (sock[g] # "up" \/ tok[g] \notin lily) => chan'[g] = <<>>
    BY <1>1, <1>4, <2>1 DEF LilyCloses, Publish, Attached, ClientTypes
  <2>4. \A t \in Sessions : (Begun(t) => Begun(t)') /\ (t # s => log'[t] = log[t])
    BY <1>1, <1>2, <2>1, <2>2 DEF Begun, ProxyTypes
  <2>5. \A t \in known' : t \in lily' \/ log'[t] > 0
    BY <1>1, <2>1, <2>4 DEF OpenInv, Begun, ProxyTypes
  <2>6. \A t \in lily' : log'[t] <= MaxMsgs[t]
    BY <1>1, <2>1, <2>4 DEF OpenInv, ProxyTypes
  <2> QED BY <2>1, <2>3, <2>4, <2>5, <2>6 DEF Passive, login, Attached
<1>5. CASE Teardown(s)
  <2>1. UNCHANGED <<lily, log, tok, sock, chan, listening, cmds, login, reconnectPrompt>>
        /\ known' = known \ {s}
    BY <1>5 DEF Teardown, clients
  <2> QED BY <1>1, <2>1 DEF Passive, login, Attached, OpenInv, Begun, ProxyTypes
<1> QED BY <1>3, <1>4, <1>5

\* A step that leaves the proxy's sessions, the clients' tokens, the model's side of a
\* login and every attempt alone.
LEMMA AsideIsPassive ==
    ASSUME TypeOK, OpenInv, UNCHANGED <<known, lily, log, tok, listening, login, reconnectPrompt>>,
           \A x : IsJob(x) => (x \in cmds' <=> x \in cmds),
           \A g \in Clients : Attached(g)' => Attached(g),
           \A g \in Clients : chan[g] = <<>> => chan'[g] = <<>>
    PROVE  Passive
BY DEF Passive, login, OpenInv, Begun

LEMMA LookIsPassive ==
    ASSUME TypeOK, OpenInv, Look \/ \E g \in Clients : Drop(g)
    PROVE  Passive
<1>1. ClientTypes
  BY TypeParts
<1>2. CASE Look
  BY <1>2, AsideIsPassive DEF Look, clients, Attached
<1>3. ASSUME NEW g \in Clients, Drop(g) PROVE Passive
  <2>1. PICK n \in 0..Len(chan[g]) : chan' = [chan EXCEPT ![g] = SubSeq(chan[g], 1, n)]
    BY <1>3 DEF Drop
  <2>2. chan[g] = <<>> => SubSeq(chan[g], 1, n) = <<>>
    BY <2>1
  <2>3. \A h \in Clients : chan[h] = <<>> => chan'[h] = <<>>
    BY <1>1, <2>1, <2>2 DEF ClientTypes
  <2>4. \A h \in Clients : Attached(h)' => Attached(h)
    BY <1>1, <1>3 DEF Drop, Attached, ClientTypes
  <2> QED BY <1>3, <2>3, <2>4, AsideIsPassive DEF Drop, proxy
<1> QED BY <1>2, <1>3

LEMMA FetchIsPassive ==
    ASSUME TypeOK, OpenInv, NEW f \in cmds,
           \/ f.do = "state" /\ RequestState(f)
           \/ f.do = "wait" /\ AnswerState(f)
           \/ f.do = "page" /\ FetchPage(f)
           \/ f.do \in {"loaded", "partly"} /\ Loaded(f)
    PROVE  Passive
<1>1. CmdTypes
  BY TypeParts
<1>2. CASE f.do = "state" /\ RequestState(f)
  <2>1. PICK more : Results(f, more) /\ \A x \in more : x.do = "wait"
    <3>1. \/ Results(f, {[do |-> "wait", c |-> f.c, s |-> tok[f.c], mark |-> 0, upto |-> 0]})
          \/ Results(f, {})
      BY <1>2 DEF RequestState
    <3> QED BY <3>1
  <2>2. \A x : IsJob(x) => (x \in cmds' <=> x \in cmds)
    BY <1>2, <2>1 DEF Results, IsJob, JobKinds
  <2> QED BY <1>2, <2>2, AsideIsPassive DEF RequestState, proxy, clients, Attached
<1>3. CASE f.do = "wait" /\ AnswerState(f)
  <2>1. f \in Fetch
    BY <1>1, <1>3, Kinds
  <2>2. [f EXCEPT !.do = IF seen[f.s] > 0 THEN "page" ELSE "loaded",
                  !.mark = seen[f.s], !.upto = seen[f.s]].do \in {"page", "loaded"}
    BY <2>1 DEF Fetch
  <2>3. \A x : IsJob(x) => (x \in cmds' <=> x \in cmds)
    BY <1>3, <2>2 DEF AnswerState, Results, IsJob, JobKinds
  <2> QED BY <1>3, <2>3, AsideIsPassive DEF AnswerState, proxy, clients, Attached
<1>4. CASE f.do = "page" /\ FetchPage(f)
  <2>1. f \in Fetch
    BY <1>1, <1>4, Kinds
  <2>2. PICK more : Results(f, more) /\ \A x \in more : x.do \in {"page", "loaded", "partly"}
    <3>1. \A d \in {"page", "loaded", "partly"} :
             [f EXCEPT !.do = d].do = d /\ \A u : [f EXCEPT !.do = d, !.upto = u].do = d
      BY <2>1 DEF Fetch
    <3>2. \/ \E d \in {"page", "loaded"} : \E u : Results(f, {[f EXCEPT !.do = d, !.upto = u]})
          \/ Results(f, {[f EXCEPT !.do = "partly"]})
      BY <1>4 DEF FetchPage
    <3>3. CASE Results(f, {[f EXCEPT !.do = "partly"]})
      <4> DEFINE one == {[f EXCEPT !.do = "partly"]}
      <4>1. \A x \in one : x.do \in {"page", "loaded", "partly"}
        BY <3>1
      <4>2. Results(f, one)
        BY <3>3
      <4> HIDE DEF one
      <4> QED BY <4>1, <4>2
    <3>4. ASSUME NEW d \in {"page", "loaded"}, NEW u,
                 Results(f, {[f EXCEPT !.do = d, !.upto = u]})
          PROVE  \E more : Results(f, more) /\ \A x \in more : x.do \in {"page", "loaded", "partly"}
      <4>1. [f EXCEPT !.do = d, !.upto = u].do = d
        BY <3>1
      <4> DEFINE one == {[f EXCEPT !.do = d, !.upto = u]}
      <4>2. \A x \in one : x.do \in {"page", "loaded", "partly"}
        BY <4>1
      <4>3. Results(f, one)
        BY <3>4
      <4> HIDE DEF one
      <4> QED BY <4>2, <4>3
    <3> QED BY <3>2, <3>3, <3>4
  <2>3. \A x : IsJob(x) => (x \in cmds' <=> x \in cmds)
    BY <1>4, <2>2 DEF Results, IsJob, JobKinds
  <2> QED BY <1>4, <2>3, AsideIsPassive DEF FetchPage, proxy, clients, Attached
<1>5. CASE f.do \in {"loaded", "partly"} /\ Loaded(f)
  <2>1. Results(f, {}) /\ UNCHANGED <<known, lily, log, clients, login, reconnectPrompt>>
    BY <1>5, Zenon DEF Loaded
  <2>2. \A x : IsJob(x) => (x \in cmds' <=> x \in cmds)
    BY <1>5, <2>1 DEF Results, IsJob, JobKinds
  <2> QED BY <2>1, <2>2, AsideIsPassive DEF clients, Attached
<1> QED BY <1>2, <1>3, <1>4, <1>5

-----------------------------------------------------------------------------
\* An attempt moves on: its client is closed and it goes on with another, or with
\* the same one for the dialog.
Opened == UNCHANGED <<known, lily>> \/ \E s \in Sessions : Opens(s)

LEMMA OpenedKeeps ==
    ASSUME TypeOK, OpenInv, Opened, UNCHANGED log
    PROVE  /\ \A s \in Sessions : Begun(s) => Begun(s)'
           /\ \A s \in Sessions : Begun(s) /\ s \notin lily => s \notin lily'
           /\ \A s \in Sessions : Begun(s) /\ s \notin known => s \notin known'
           /\ \A s \in known' : Begun(s)'
           /\ \A s \in lily' : log'[s] <= MaxMsgs[s]
<1>1. ProxyTypes
  BY TypeParts
<1>2. \A s \in Sessions : log[s] \in Nat /\ MaxMsgs[s] \in Nat
  BY <1>1, LastIDIsLast DEF ProxyTypes, LastIDs
<1>3. CASE UNCHANGED <<known, lily>>
  BY <1>3, <1>1 DEF OpenInv, Begun
<1>4. ASSUME NEW s \in Sessions, known = {}, log[s] = 0, known' = {s}, lily' = {s}
      PROVE  /\ \A z \in Sessions : Begun(z) => Begun(z)'
             /\ \A z \in Sessions : Begun(z) /\ z \notin lily => z \notin lily'
             /\ \A z \in Sessions : Begun(z) /\ z \notin known => z \notin known'
             /\ \A z \in known' : Begun(z)'
             /\ \A z \in lily' : log'[z] <= MaxMsgs[z]
  <2>1. lily = {}
    BY <1>1, <1>4 DEF ProxyTypes
  <2> QED BY <1>1, <1>2, <1>4, <2>1 DEF Begun
<1> QED BY <1>3, <1>4 DEF Opened, Opens

LEMMA MovesOn ==
    ASSUME TypeOK, JobInv, DeafInv, SocketInv, OpenInv,
           NEW j \in cmds, IsJob(j), NEW g \in Clients,
           Unused(g) \/ (g = j.c /\ g = client /\ authMode),
           NEW t, NEW p, NEW up \in BOOLEAN, Replace(j.c, g, t, p, up),
           NEW r, r.c = g, r.do \in {"login", "authed"},
           r.do = "authed" /\ r.err # "ok" => ~up, Results(j, {r}),
           Opened, UNCHANGED <<log, login, reconnectPrompt>>,
           t # 0 => t \in lily' \/ log'[t] > 0
    PROVE  JobInv' /\ DeafInv' /\ SocketInv' /\ OpenInv'
<1>1. /\ client \in Clients /\ j.c \in Clients
      /\ tok \in [Clients -> 0..MaxSessions] /\ sock \in [Clients -> {"none", "up", "down"}]
      /\ chan \in [Clients -> Seq(IDs)] /\ listening \in [Clients -> 0..2]
      /\ sessionToken \in 0..MaxSessions
  BY TypeParts, Kinds DEF ModelTypes, ClientTypes
<1>2. /\ Busy /\ authInProgress /\ ~reconnectPrompt
      /\ \A x \in cmds : IsJob(x) => x = j
  BY DEF JobInv, Busy
<1>3. ~Unused(client) /\ ~Unused(j.c) /\ listening[g] = 0 /\ (g # j.c => g # client)
  BY DEF Unused, JobInv
<1>4. /\ UNCHANGED <<listening, client, sessionToken, authMode, authInProgress, reconnectPrompt>>
      /\ tok' = [x \in Clients |-> IF x = g THEN t ELSE IF Unused(x) THEN 0 ELSE tok[x]]
      /\ sock' = [x \in Clients |-> IF x = g THEN (IF up THEN "up" ELSE "none")
                  ELSE IF Unused(x) THEN "none" ELSE IF x = j.c THEN Closed(j.c) ELSE sock[x]]
  BY Zenon DEF Replace, login
<1>5. \A x \in cmds' : IsJob(x) => x = r
  BY <1>2 DEF Results
<1>6. r \in cmds' /\ IsJob(r) /\ Busy'
  BY DEF Results, IsJob, JobKinds, Busy
<1>7. sock'[g] = IF up THEN "up" ELSE "none"
  BY <1>4
<1>8. JobInv'
  <2>1. \A x, y \in cmds' : IsJob(x) /\ IsJob(y) => x = y
    BY <1>5
  <2>2. authInProgress' /\ ~reconnectPrompt'
    BY <1>2, <1>4
  <2>3. ASSUME NEW x \in cmds'
        PROVE  /\ x.do = "auth" => authMode' /\ x.c = client'
               /\ x.do = "authed" => listening'[x.c] = 0 /\ (x.err # "ok" => sock'[x.c] # "up")
    <3>1. x.do \in {"auth", "authed"} => x = r
      BY <1>5 DEF IsJob, JobKinds
    <3> QED BY <3>1, <1>3, <1>4, <1>7
  <2>4. authMode' => ~reconnectPrompt' /\ listening'[client'] = 0
    BY <1>4 DEF JobInv
  <2> QED BY <2>1, <2>2, <2>3, <2>4 DEF JobInv, IsJob
<1>9. \A x \in Clients : Deaf(x) => Deaf(x)'
  <2> SUFFICES ASSUME NEW x \in Clients, Deaf(x) PROVE Deaf(x)'
    OBVIOUS
  <2>1. CASE listening[x] = 0
    BY <2>1, <1>4 DEF Deaf
  <2>2. CASE listening[x] # 0 /\ x = j.c
    <3>1. x # g
      BY <2>2, <1>3
    <3>2. chan'[x] = <<>>
      <4>1. chan[x] = <<>>
        BY <2>2 DEF Deaf
      <4> QED BY <4>1, <2>2, <3>1, <1>1 DEF Replace
    <3>3. sock'[x] # "up"
      BY <2>2, <3>1, <1>3, <1>4, <1>1 DEF Closed, Attached
    <3> QED BY <3>2, <3>3 DEF Deaf
  <2>3. CASE listening[x] # 0 /\ x # j.c
    <3>1. x # g /\ ~Unused(x)
      BY <2>3, <1>3 DEF Unused
    <3>2. chan'[x] = chan[x] /\ sock'[x] = sock[x] /\ tok'[x] = tok[x]
      BY <2>3, <3>1, <1>1, <1>4 DEF Replace
    <3>3. chan[x] = <<>> /\ (sock[x] # "up" \/ tok[x] \notin lily)
      BY <2>3 DEF Deaf
    <3>4. tok[x] \notin lily => tok[x] \notin lily'
      <4>1. tok[x] \in Sessions => Begun(tok[x])
        BY <1>1 DEF OpenInv, Sessions
      <4>2. lily' \subseteq Sessions
        BY TypeParts DEF Opened, Opens, ProxyTypes
      <4> QED BY <4>1, <4>2, OpenedKeeps
    <3> QED BY <3>2, <3>3, <3>4 DEF Deaf
  <2> QED BY <2>1, <2>2, <2>3
<1>10. DeafInv'
  BY <1>1, <1>2, <1>4, <1>6, <1>9 DEF DeafInv
<1>11. SocketInv'
  <2>1. ASSUME NEW x \in Clients, sock'[x] = "up" PROVE x = g
    <3>1. CASE x # g /\ sock[x] = "up"
      <4>1. j.c = x
        BY <3>1 DEF SocketInv, Attached
      <4> QED BY <4>1, <3>1, <2>1, <1>3, <1>4 DEF Closed, Attached
    <3>2. CASE x # g /\ sock[x] # "up"
      BY <3>2, <2>1, <1>4 DEF Closed, Attached
    <3> QED BY <3>1, <3>2
  <2>2. \A x \in cmds' : IsJob(x) => x.c = g
    BY <1>5
  <2> QED BY <2>1, <2>2, <1>6 DEF SocketInv, Attached, IsJob
<1>12. OpenInv'
  <2>1. \A s \in known' : Begun(s)'
    BY OpenedKeeps
  <2>2. \A s \in lily' : log'[s] <= MaxMsgs[s]
    BY OpenedKeeps
  <2>3. ASSUME NEW x \in Clients, tok'[x] # 0 PROVE Begun(tok[x])'
    <3>1. CASE x = g
      <4>1. tok'[x] \in lily' \/ log'[tok'[x]] > 0
        BY <3>1, <2>3, <1>4
      <4> QED BY <4>1 DEF Begun
    <3>2. CASE x # g
      <4>1. tok'[x] = tok[x] /\ tok[x] # 0 /\ tok[x] \in Sessions
        BY <3>2, <2>3, <1>1, <1>4 DEF Sessions
      <4>2. Begun(tok[x])
        BY <4>1 DEF OpenInv
      <4>3. \A s \in Sessions : Begun(s) => s \in lily' \/ log'[s] > 0
        BY OpenedKeeps DEF Begun
      <4>4. tok'[x] \in lily' \/ log'[tok'[x]] > 0
        BY <4>1, <4>2, <4>3
      <4> QED BY <4>4 DEF Begun
    <3> QED BY <3>1, <3>2
  <2>4. sessionToken' # 0 => Begun(sessionToken)'
    <3>1. \A s \in Sessions : Begun(s) => s \in lily' \/ log'[s] > 0
      BY OpenedKeeps DEF Begun
    <3> QED BY <3>1, <1>1, <1>4 DEF OpenInv, Begun, Sessions
  <2> QED BY <2>1, <2>2, <2>3, <2>4 DEF OpenInv
<1> QED BY <1>8, <1>10, <1>11, <1>12

\* Invariants but for the types.
Others == JobInv /\ DeafInv /\ SocketInv /\ OpenInv /\ KeepInv

LEMMA LiveToken ==
    ASSUME TypeOK, OpenInv, Opened, UNCHANGED <<log, sessionToken>>, sessionToken \in known'
    PROVE  sessionToken \in known /\ sessionToken # 0
<1>1. known' \subseteq Sessions /\ 0 \notin Sessions
  BY TypeParts DEF Opened, Opens, ProxyTypes, Sessions
<1>2. sessionToken \in Sessions /\ Begun(sessionToken)
  BY <1>1 DEF OpenInv
<1> QED BY <1>1, <1>2, OpenedKeeps

LEMMA ResumeKeeps ==
    ASSUME TypeOK, Others, NEW j \in cmds, j.do = "resume", Resume(j)
    PROVE  Others'
<1>1. /\ Fresh \in Clients /\ Unused(Fresh)
      /\ UNCHANGED <<proxy, login, reconnectPrompt, view, history>>
  BY FreshIsUnused DEF Resume
<1>2. IsJob(j) /\ j.c \in Clients /\ client \in Clients /\ ~Unused(client)
  BY TypeParts, Kinds DEF IsJob, JobKinds, ModelTypes, Unused
<1> DEFINE Step(up, r) ==
         /\ Replace(j.c, Fresh, tok[j.c], pw[j.c], up)
         /\ Results(j, {r}) /\ r.c = Fresh
         /\ \/ r.do = "authed" /\ r.err = "ok"
            \/ r.do = "authed" /\ r.err = "net" /\ ~up
            \/ r.do = "login" /\ tok[j.c] \notin known
<1>3. \E up \in BOOLEAN : \E r : Step(up, r)
  <2>1. CASE /\ tok[j.c] \in known /\ Replace(j.c, Fresh, tok[j.c], pw[j.c], TRUE)
             /\ Results(j, Authed(Fresh, "ok"))
    <3> DEFINE r == [do |-> "authed", c |-> Fresh, err |-> "ok"]
    <3>1. Results(j, {r}) /\ r.c = Fresh /\ r.do = "authed" /\ r.err = "ok"
      BY <2>1 DEF Authed
    <3> HIDE DEF r
    <3> QED BY <2>1, <3>1
  <2>2. CASE Replace(j.c, Fresh, tok[j.c], pw[j.c], FALSE) /\ Results(j, Authed(Fresh, "net"))
    <3> DEFINE r == [do |-> "authed", c |-> Fresh, err |-> "net"]
    <3>1. Results(j, {r}) /\ r.c = Fresh /\ r.do = "authed" /\ r.err = "net"
      BY <2>2 DEF Authed
    <3> HIDE DEF r
    <3> QED BY <2>2, <3>1
  <2>3. CASE /\ tok[j.c] \notin known /\ Replace(j.c, Fresh, tok[j.c], pw[j.c], FALSE)
             /\ Results(j, {[do |-> "login", c |-> Fresh]})
    <3> DEFINE r == [do |-> "login", c |-> Fresh]
    <3>1. Results(j, {r}) /\ r.c = Fresh /\ r.do = "login"
      BY <2>3
    <3> HIDE DEF r
    <3> QED BY <2>3, <3>1
  <2> QED BY <2>1, <2>2, <2>3 DEF Resume
<1>4. PICK up \in BOOLEAN : \E r : Step(up, r)
  BY <1>3
<1>5. PICK r : Step(up, r)
  BY <1>4
<1>6. tok[j.c] # 0 => tok[j.c] \in lily' \/ log'[tok[j.c]] > 0
  BY <1>1, <1>2 DEF Others, OpenInv, Begun, proxy
<1>7. JobInv' /\ DeafInv' /\ SocketInv' /\ OpenInv'
  <2>1. Opened /\ UNCHANGED <<log, login, reconnectPrompt>>
    BY <1>1 DEF Opened, proxy
  <2>2. r.do \in {"login", "authed"} /\ (r.do = "authed" /\ r.err # "ok" => ~up)
    BY <1>5
  <2>3. JobInv /\ DeafInv /\ SocketInv /\ OpenInv
    BY DEF Others
  <2> QED BY <1>1, <1>2, <1>5, <1>6, <2>1, <2>2, <2>3, MovesOn
<1>8. KeepInv'
  <2> SUFFICES ASSUME sessionToken \in known, ~authMode
               PROVE  KeepInv'
    BY <1>1 DEF KeepInv, proxy, login
  <2>1. tok[client] = sessionToken /\ tok[j.c] = sessionToken
    BY <1>2 DEF Others, KeepInv
  <2>2. tok'[Fresh] = tok[j.c] /\ tok'[client] = tok[client]
    BY <1>1, <1>2, <1>5 DEF Replace
  <2>3. \A x \in cmds' : IsJob(x) => x = r
    BY <1>2, <1>5 DEF Others, JobInv, Results
  <2>4. r.do = "authed" /\ r.err \in {"ok", "net"} /\ r.c = Fresh
    BY <1>5, <2>1
  <2>5. sessionToken' = sessionToken /\ client' = client
    BY <1>1 DEF login
  <2> QED BY <2>1, <2>2, <2>3, <2>4, <2>5 DEF KeepInv, IsJob
<1> QED BY <1>7, <1>8, Zenon DEF Others

\* A login, on a new client or on the one in use.
LEMMA AuthenticatesKeeps ==
    ASSUME TypeOK, JobInv, DeafInv, SocketInv, OpenInv,
           NEW j \in cmds, IsJob(j), NEW g \in Clients,
           Unused(g) \/ (g = j.c /\ g = client /\ authMode),
           Authenticates(j, j.c, g), UNCHANGED <<log, login, reconnectPrompt>>
    PROVE  JobInv' /\ DeafInv' /\ SocketInv' /\ OpenInv' /\ Opened
<1>1. ASSUME NEW s \in Sessions, NEW up \in BOOLEAN, Opens(s),
             Replace(j.c, g, s, TRUE, up), Results(j, Authed(g, IF up THEN "ok" ELSE "net"))
      PROVE  JobInv' /\ DeafInv' /\ SocketInv' /\ OpenInv' /\ Opened
  <2> DEFINE r == [do |-> "authed", c |-> g, err |-> IF up THEN "ok" ELSE "net"]
  <2>1. /\ Results(j, {r}) /\ r.c = g /\ r.do \in {"login", "authed"}
        /\ r.do = "authed" /\ r.err # "ok" => ~up
    BY <1>1 DEF Authed
  <2>2. Opened
    BY <1>1 DEF Opened
  <2>3. s \in lily' \/ log'[s] > 0
    <3>1. \A z \in known' : z \in lily' \/ log'[z] > 0
      BY <2>2, OpenedKeeps DEF Begun
    <3>2. s \in known'
      BY <1>1 DEF Opens
    <3> QED BY <3>1, <3>2
  <2> HIDE DEF r
  <2>4. CASE up
    BY <2>4, <1>1, <2>1, <2>2, <2>3, MovesOn
  <2>5. CASE up = FALSE
    <3>1. Replace(j.c, g, s, TRUE, FALSE)
      BY <2>5, <1>1
    <3> QED BY <3>1, <2>1, <2>2, <2>3, MovesOn
  <2> QED BY <2>4, <2>5
<1>2. ASSUME NEW err \in {"net", "rejected"}, Replace(j.c, g, 0, FALSE, FALSE),
             Results(j, Authed(g, err)), UNCHANGED <<known, lily>>
      PROVE  JobInv' /\ DeafInv' /\ SocketInv' /\ OpenInv' /\ Opened
  <2> DEFINE r == [do |-> "authed", c |-> g, err |-> err]
  <2>1. /\ Results(j, {r}) /\ r.c = g /\ r.do = "authed"
    BY <1>2 DEF Authed
  <2>2. Opened
    BY <1>2 DEF Opened
  <2> HIDE DEF r
  <2> QED BY <1>2, <2>1, <2>2, MovesOn
<1> QED BY <1>1, <1>2 DEF Authenticates

LEMMA ReconnectKeeps ==
    ASSUME TypeOK, Others, NEW j \in cmds, j.do = "login", Reconnect(j)
    PROVE  Others'
<1>1. /\ Fresh \in Clients /\ Unused(Fresh)
      /\ UNCHANGED <<log, login, reconnectPrompt>>
  BY FreshIsUnused DEF Reconnect
<1>2. IsJob(j) /\ JobInv /\ DeafInv /\ SocketInv /\ OpenInv
  BY DEF IsJob, JobKinds, Others
<1>3. JobInv' /\ DeafInv' /\ SocketInv' /\ OpenInv' /\ Opened
  <2>1. CASE pw[j.c]
    <3>1. Authenticates(j, j.c, Fresh)
      BY <2>1 DEF Reconnect
    <3> QED BY <1>1, <1>2, <3>1, AuthenticatesKeeps
  <2>2. CASE ~pw[j.c]
    <3> DEFINE r == [do |-> "authed", c |-> Fresh, err |-> "gone"]
    <3>1. /\ Results(j, {r}) /\ r.c = Fresh /\ r.do = "authed"
          /\ Replace(j.c, Fresh, 0, FALSE, FALSE) /\ UNCHANGED <<known, lily>>
      BY <2>2 DEF Reconnect, Authed
    <3>2. Opened
      BY <3>1 DEF Opened
    <3> HIDE DEF r
    <3> QED BY <1>1, <1>2, <3>1, <3>2, MovesOn
  <2> QED BY <2>1, <2>2
<1>4. KeepInv'
  <2> SUFFICES ASSUME sessionToken \in known', ~authMode PROVE FALSE
    BY <1>1 DEF KeepInv, login
  <2>1. sessionToken \in known
    BY <1>1, <1>2, <1>3, LiveToken DEF login
  <2> QED BY <1>2, <2>1 DEF Others, KeepInv
<1> QED BY <1>3, <1>4, Zenon DEF Others

LEMMA AttemptAuthKeeps ==
    ASSUME TypeOK, Others, NEW j \in cmds, j.do = "auth", AttemptAuth(j)
    PROVE  Others'
<1>1. IsJob(j) /\ JobInv /\ DeafInv /\ SocketInv /\ OpenInv
  BY DEF IsJob, JobKinds, Others
<1>2. authMode /\ j.c = client /\ client \in Clients
  BY <1>1, TypeParts DEF JobInv, ModelTypes
<1>3. Authenticates(j, j.c, j.c) /\ UNCHANGED <<log, login, reconnectPrompt>>
  BY DEF AttemptAuth
<1>4. JobInv' /\ DeafInv' /\ SocketInv' /\ OpenInv'
  BY <1>1, <1>2, <1>3, AuthenticatesKeeps
<1>5. KeepInv'
  BY <1>2, <1>3 DEF KeepInv, login
<1> QED BY <1>4, <1>5, Zenon DEF Others

LEMMA ReceiveKeeps ==
    ASSUME TypeOK, Others, NEW g \in Clients, Receive(g)
    PROVE  Others'
<1>1. JobInv /\ DeafInv /\ SocketInv /\ OpenInv /\ KeepInv
  BY DEF Others
<1>2. g = client /\ ~Busy /\ ~authMode
  BY <1>1, Heard DEF Receive
<1>3. /\ UNCHANGED <<known, lily, log, tok, pw, sock, cmds, login>>
      /\ chan' = [chan EXCEPT ![g] = Tail(@)]
      /\ listening' = LET l == [listening EXCEPT ![g] = @ - 1] IN
                       IF reconnectPrompt' THEN l ELSE [l EXCEPT ![client] = @ + 1]
  BY DEF Receive
<1>4. UNCHANGED <<client, sessionToken, authMode, authInProgress>>
  BY <1>3 DEF login
<1>5. \A x \in Clients : x # client => listening'[x] = listening[x] /\ chan'[x] = chan[x]
  BY <1>2, <1>3, TypeParts DEF ClientTypes
<1>6. JobInv'
  BY <1>1, <1>2, <1>3, <1>4 DEF JobInv, Busy, IsJob, JobKinds
<1>7. DeafInv'
  <2>1. \A x \in Clients : x # client' => Deaf(x)'
    BY <1>1, <1>3, <1>4, <1>5 DEF DeafInv, Deaf
  <2>2. ~Busy'
    BY <1>2, <1>3 DEF Busy, IsJob
  <2>3. reconnectPrompt' => sock'[client'] # "up" \/ tok'[client'] \notin lily'
    <3>1. CASE reconnectPrompt' = reconnectPrompt
      BY <1>1, <1>3, <1>4, <3>1 DEF DeafInv
    <3>2. CASE reconnectPrompt' = (reconnectPrompt \/ Closing(tok[g], Head(chan[g])))
      BY <1>1, <1>2, <1>3, <1>4, <3>2 DEF DeafInv, Closing
    <3> QED BY <3>1, <3>2 DEF Receive, HandleProxy
  <2> QED BY <2>1, <2>2, <2>3 DEF DeafInv
<1>8. SocketInv' /\ OpenInv' /\ KeepInv'
  <2>1. SocketInv'
    BY <1>1, <1>3, <1>4 DEF SocketInv, Attached, Busy, IsJob
  <2>2. OpenInv'
    BY <1>1, <1>3, <1>4 DEF OpenInv, Begun
  <2>3. KeepInv'
    BY <1>1, <1>3, <1>4 DEF KeepInv, IsJob
  <2> QED BY <2>1, <2>2, <2>3
<1> QED BY <1>6, <1>7, <1>8, Zenon DEF Others

\* An attempt begins, on the client in use.
LEMMA AttemptBegins ==
    ASSUME TypeOK, Others, ~Busy, NEW j, IsJob(j), j.c = client, j.do # "authed",
           j.do = "auth" => authMode, sessionToken \in known /\ ~authMode => j.do = "resume",
           cmds' = cmds \cup {j}, authInProgress' = TRUE, reconnectPrompt' = FALSE,
           Deaf(client)',
           UNCHANGED <<proxy, tok, sock, chan, client, sessionToken, authMode>>,
           \A g \in Clients : listening[g] = 0 => listening'[g] = 0
    PROVE  Others'
<1>1. JobInv /\ DeafInv /\ SocketInv /\ OpenInv /\ KeepInv
  BY DEF Others
<1>2. client \in Clients /\ \A x \in cmds : ~IsJob(x)
  BY TypeParts DEF ModelTypes, Busy
<1>3. UNCHANGED <<known, lily, log, seen>>
  BY DEF proxy
<1>4. \A x \in cmds' : IsJob(x) => x = j
  BY <1>2
<1>5. j \in cmds' /\ Busy'
  BY DEF Busy, IsJob
<1>6. JobInv'
  <2>1. ASSUME NEW x \in cmds'
        PROVE  /\ x.do = "auth" => authMode' /\ x.c = client'
               /\ x.do = "authed" => listening'[x.c] = 0 /\ (x.err # "ok" => sock'[x.c] # "up")
    BY <1>4 DEF IsJob, JobKinds
  <2>2. authMode' => listening'[client'] = 0
    BY <1>1, <1>2 DEF JobInv
  <2> QED BY <2>1, <2>2, <1>4 DEF JobInv, IsJob
<1>7. DeafInv'
  <2>1. \A g \in Clients : Deaf(g) => Deaf(g)'
    BY <1>3 DEF Deaf
  <2> QED BY <1>1, <2>1 DEF DeafInv
<1>8. SocketInv'
  BY <1>1, <1>2, <1>4, <1>5 DEF SocketInv, Attached, Busy, IsJob
<1>9. OpenInv'
  BY <1>1, <1>3 DEF OpenInv, Begun
<1>10. KeepInv'
  BY <1>1, <1>3, <1>4 DEF KeepInv, IsJob
<1> QED BY <1>6, <1>7, <1>8, <1>9, <1>10, Zenon DEF Others

\* The model's client tries to reconnect: silently, or because the user said so.
LEMMA ReconnectBegins ==
    ASSUME TypeOK, Others
    PROVE  /\ IsJob(ReconnectNow(client)) /\ ReconnectNow(client).c = client
           /\ ReconnectNow(client).do \in {"resume", "login"}
           /\ sessionToken \in known /\ ~authMode => ReconnectNow(client).do = "resume"
<1>1. sessionToken \in known /\ ~authMode => tok[client] # 0
  BY TypeParts DEF Others, KeepInv, ProxyTypes, Sessions
<1> QED BY <1>1 DEF ReconnectNow, IsJob, JobKinds

LEMMA SocketClosedKeeps ==
    ASSUME TypeOK, Others, NEW g \in Clients, SocketClosed(g)
    PROVE  Others'
<1>1. JobInv /\ DeafInv /\ SocketInv /\ OpenInv /\ KeepInv
  BY DEF Others
<1>2. /\ listening[g] > 0 /\ chan[g] = <<>> /\ sock[g] = "down"
      /\ listening' = [listening EXCEPT ![g] = @ - 1]
      /\ UNCHANGED <<proxy, tok, sock, chan, client, sessionToken, authMode, reconnectPrompt>>
  BY DEF SocketClosed
<1>3. listening \in [Clients -> 0..2] /\ client \in Clients
  BY TypeParts DEF ClientTypes, ModelTypes
<1>4. \A x \in Clients : listening[x] = 0 => listening'[x] = 0
  BY <1>2, <1>3
<1>5. Deaf(g)'
  BY <1>2 DEF Deaf
<1>6. CASE Concerns(g)
  <2>1. /\ g = client /\ ~authMode /\ ~reconnectPrompt /\ ~authInProgress
        /\ authInProgress' = TRUE /\ cmds' = cmds \cup {ReconnectNow(client)}
    BY <1>6 DEF SocketClosed, Concerns
  <2>2. ~Busy
    BY <1>1, <2>1 DEF JobInv
  <2>3. reconnectPrompt' = FALSE
    BY <1>2, <2>1, TypeParts DEF ModelTypes
  <2>4. Deaf(client)'
    BY <1>2, <2>1 DEF Deaf
  <2> QED BY <1>2, <1>4, <2>1, <2>2, <2>3, <2>4, ReconnectBegins, AttemptBegins
<1>7. CASE ~Concerns(g)
  <2>1. UNCHANGED <<authInProgress, cmds>>
    BY <1>7 DEF SocketClosed
  <2>2. UNCHANGED <<known, lily, log>>
    BY <1>2 DEF proxy
  <2>3. Busy' <=> Busy
    BY <2>1 DEF Busy, IsJob
  <2>4. JobInv'
    <3>1. /\ \A x, y \in cmds' : IsJob(x) /\ IsJob(y) => x = y
          /\ Busy' => authInProgress' /\ ~reconnectPrompt'
          /\ authMode' => ~reconnectPrompt' /\ listening'[client'] = 0
      BY <1>1, <1>2, <1>3, <1>4, <2>1, <2>3 DEF JobInv
    <3>2. \A x \in cmds : x.c \in Clients
      BY TypeParts, Kinds
    <3>3. \A x \in cmds' :
             /\ x.do = "auth" => authMode' /\ x.c = client'
             /\ x.do = "authed" => listening'[x.c] = 0 /\ (x.err # "ok" => sock'[x.c] # "up")
      BY <1>1, <1>2, <1>4, <2>1, <3>2 DEF JobInv
    <3> QED BY <3>1, <3>3 DEF JobInv, IsJob
  <2>5. DeafInv'
    <3>1. \A x \in Clients : Deaf(x) => Deaf(x)'
      BY <1>2, <1>4, <2>2 DEF Deaf
    <3> QED BY <1>1, <1>2, <1>3, <2>2, <2>3, <3>1 DEF DeafInv
  <2>6. SocketInv'
    BY <1>1, <1>2, <2>1, <2>3 DEF SocketInv, Attached, IsJob
  <2>7. OpenInv'
    BY <1>1, <1>2, <2>2 DEF OpenInv, Begun
  <2>8. KeepInv'
    BY <1>1, <1>2, <2>1, <2>2 DEF KeepInv, IsJob
  <2> QED BY <2>4, <2>5, <2>6, <2>7, <2>8, Zenon DEF Others
<1> QED BY <1>6, <1>7

LEMMA UserKeeps ==
    ASSUME TypeOK, Others, SubmitLogin \/ AnswerReconnect
    PROVE  Others'
<1>1. JobInv /\ DeafInv /\ SocketInv /\ OpenInv /\ KeepInv
  BY DEF Others
<1>2. client \in Clients /\ listening \in [Clients -> 0..2]
  BY TypeParts DEF ClientTypes, ModelTypes
<1>3. CASE SubmitLogin
  <2> DEFINE j == [do |-> "auth", c |-> client]
  <2>1. /\ authMode /\ ~authInProgress /\ authInProgress' = TRUE /\ cmds' = cmds \cup {j}
        /\ UNCHANGED <<proxy, clients, client, sessionToken, authMode, reconnectPrompt>>
    BY <1>3 DEF SubmitLogin
  <2>2. IsJob(j) /\ j.c = client /\ j.do = "auth"
    BY DEF IsJob, JobKinds
  <2>3. ~Busy /\ listening[client] = 0 /\ ~reconnectPrompt
    BY <1>1, <2>1 DEF JobInv
  <2>4. reconnectPrompt' = FALSE
    BY <2>1, <2>3, TypeParts DEF ModelTypes
  <2>5. UNCHANGED <<tok, sock, chan, listening>>
    BY <2>1 DEF clients
  <2>6. Deaf(client)'
    BY <2>1, <2>3, <2>5 DEF Deaf
  <2> HIDE DEF j
  <2> QED BY <2>1, <2>2, <2>3, <2>4, <2>5, <2>6, AttemptBegins
<1>4. CASE AnswerReconnect
  <2>1. /\ ~authMode /\ reconnectPrompt /\ Settled /\ reconnectPrompt' = FALSE
        /\ authInProgress' = TRUE /\ cmds' = cmds \cup {ReconnectNow(client)}
        /\ UNCHANGED <<proxy, clients, client, sessionToken, authMode>>
    BY <1>4 DEF AnswerReconnect
  <2>2. ~Busy
    BY <1>1, <2>1 DEF JobInv
  <2>3. UNCHANGED <<tok, sock, chan, listening, known, lily, log>>
    BY <2>1 DEF clients, proxy
  <2>4. Deaf(client)
    BY <1>1, <1>2, <2>1 DEF DeafInv, Settled, Deaf
  <2>5. Deaf(client)'
    BY <2>1, <2>3, <2>4 DEF Deaf
  <2> QED BY <2>1, <2>2, <2>3, <2>5, ReconnectBegins, AttemptBegins
<1> QED BY <1>3, <1>4

\* An attempt ends and its client is the one in use.
LEMMA AttemptEnds ==
    ASSUME TypeOK, Others, NEW r \in cmds, r.do = "authed", NEW more, Results(r, more),
           \A x \in more : ~IsJob(x), client' = r.c,
           UNCHANGED <<known, lily, log, tok, sock, chan>>,
           \A g \in Clients : g # r.c => listening'[g] = listening[g],
           authMode' => ~reconnectPrompt' /\ listening'[r.c] = 0,
           reconnectPrompt' => sock[r.c] # "up",
           sessionToken' # 0 => Begun(sessionToken)',
           sessionToken' \in known /\ ~authMode' => tok[r.c] = sessionToken'
    PROVE  Others'
<1>1. JobInv /\ DeafInv /\ SocketInv /\ OpenInv /\ KeepInv
  BY DEF Others
<1>2. Busy /\ \A x \in cmds : IsJob(x) => x = r
  BY <1>1 DEF Busy, IsJob, JobKinds, JobInv
<1>3. \A x \in cmds' : ~IsJob(x)
  BY <1>2 DEF Results
<1>4. ~Busy'
  BY <1>3 DEF Busy, IsJob
<1>5. JobInv'
  <2>1. \A x \in cmds' : x.do # "auth" /\ x.do # "authed"
    BY <1>3 DEF IsJob, JobKinds
  <2> QED BY <1>3, <1>4, <2>1 DEF JobInv, IsJob
<1>6. DeafInv'
  <2>1. \A g \in Clients : Deaf(g)
    BY <1>1, <1>2 DEF DeafInv
  <2>2. \A g \in Clients : g # r.c => Deaf(g)'
    BY <2>1 DEF Deaf
  <2> QED BY <1>4, <2>2 DEF DeafInv
<1>7. SocketInv'
  <2>1. \A g \in Clients : Attached(g) => g = r.c
    BY <1>1, <1>2 DEF SocketInv, IsJob, JobKinds
  <2> QED BY <1>3, <2>1 DEF SocketInv, Attached, IsJob
<1>8. OpenInv'
  BY <1>1 DEF OpenInv, Begun
<1>9. KeepInv'
  BY <1>3 DEF KeepInv, IsJob
<1> QED BY <1>5, <1>6, <1>7, <1>8, <1>9, Zenon DEF Others

LEMMA AdoptKeeps ==
    ASSUME TypeOK, Others, NEW r \in cmds, r.do = "authed", Adopt(r)
    PROVE  Others'
<1>1. r.c \in Clients /\ listening \in [Clients -> 0..2]
  BY TypeParts, Kinds DEF ClientTypes
<1> DEFINE more == {[do |-> "state", c |-> r.c]}
<1>2. /\ Results(r, more) /\ client' = r.c /\ authMode' = FALSE /\ reconnectPrompt' = FALSE
      /\ sessionToken' = tok[r.c] /\ listening' = Listen(r.c)
      /\ UNCHANGED <<proxy, tok, pw, sock, chan, shown>>
  BY Zenon DEF Adopt
<1>3. \A x \in more : ~IsJob(x)
  BY DEF IsJob, JobKinds
<1>4. UNCHANGED <<known, lily, log, tok, sock, chan>>
  BY <1>2 DEF proxy
<1>5. \A g \in Clients : g # r.c => listening'[g] = listening[g]
  BY <1>1, <1>2 DEF Listen
<1>6. sessionToken' # 0 => Begun(sessionToken)'
  BY <1>1, <1>2, <1>4 DEF Others, OpenInv, Begun
<1> HIDE DEF more
<1> QED BY <1>2, <1>3, <1>4, <1>5, <1>6, AttemptEnds

LEMMA AuthFailedKeeps ==
    ASSUME TypeOK, Others, NEW r \in cmds, r.do = "authed", AuthFailed(r)
    PROVE  Others'
<1>1. JobInv /\ DeafInv /\ SocketInv /\ OpenInv /\ KeepInv
  BY DEF Others
<1>2. /\ r.c \in Clients /\ r \in AuthResult /\ IsJob(r) /\ reconnectPrompt = FALSE
      /\ listening[r.c] = 0 /\ sock[r.c] # "up"
  <2>1. IsJob(r) /\ Busy /\ r.err # "ok"
    BY DEF IsJob, JobKinds, Busy, AuthFailed
  <2> QED BY <1>1, <2>1, TypeParts, Kinds DEF JobInv, ModelTypes
<1>3. client' = r.c /\ UNCHANGED <<proxy, clients, sessionToken>>
  BY DEF AuthFailed
<1>4. UNCHANGED <<known, lily, log, tok, sock, chan, listening>>
  BY <1>3 DEF proxy, clients
<1>5. sessionToken' # 0 => Begun(sessionToken)'
  BY <1>1, <1>3, <1>4 DEF OpenInv, Begun
<1>6. sessionToken \in known /\ ~authMode => tok[r.c] = sessionToken
  BY <1>1, <1>2 DEF KeepInv
<1>7. CASE authMode \/ r.err \in {"rejected", "gone"}
  <2>1. authMode' = TRUE /\ reconnectPrompt' = FALSE /\ Results(r, {})
    BY <1>7 DEF AuthFailed
  <2> QED BY <1>2, <1>3, <1>4, <1>5, <2>1, AttemptEnds
<1>8. CASE ~(authMode \/ r.err \in {"rejected", "gone"}) /\ OutOfTries
  <2>1. authMode' = authMode /\ ~authMode /\ reconnectPrompt' = TRUE /\ Results(r, {})
    BY <1>8 DEF AuthFailed
  <2> QED BY <1>2, <1>3, <1>4, <1>5, <1>6, <2>1, AttemptEnds
<1>9. CASE ~(authMode \/ r.err \in {"rejected", "gone"}) /\ ~OutOfTries
  <2>1. /\ authMode' = authMode /\ ~authMode /\ authInProgress' = TRUE
        /\ Results(r, {ReconnectNow(r.c)}) /\ reconnectPrompt' = reconnectPrompt
    BY <1>9 DEF AuthFailed
  <2> DEFINE j == ReconnectNow(r.c)
  <2>2. /\ IsJob(j) /\ j.c = r.c /\ j.do \in {"resume", "login"}
        /\ (tok[r.c] # 0 => j.do = "resume")
    BY DEF ReconnectNow, IsJob, JobKinds
  <2> HIDE DEF j
  <2>3. \A x \in cmds' : IsJob(x) => x = j
    BY <1>1, <1>2, <2>1 DEF JobInv, Results, j
  <2>4. j \in cmds' /\ Busy'
    BY <2>1, <2>2 DEF Results, Busy, IsJob, j
  <2>5. JobInv'
    <3>1. \A x \in cmds' : x.do # "auth" /\ x.do # "authed"
      BY <2>2, <2>3 DEF IsJob, JobKinds
    <3>2. authMode' = FALSE /\ ~reconnectPrompt'
      BY <1>2, <2>1, TypeParts DEF ModelTypes
    <3> QED BY <2>1, <2>3, <3>1, <3>2 DEF JobInv, IsJob
  <2>6. DeafInv'
    <3>1. Busy
      BY <1>2 DEF Busy
    <3>2. \A g \in Clients : Deaf(g)
      BY <1>1, <3>1 DEF DeafInv
    <3>3. \A g \in Clients : Deaf(g)'
      BY <1>4, <3>2 DEF Deaf
    <3>4. ~reconnectPrompt'
      BY <1>2, <2>1
    <3> QED BY <1>2, <1>3, <3>3, <3>4 DEF DeafInv
  <2>7. SocketInv'
    <3>1. \A g \in Clients : Attached(g) => g = r.c
      BY <1>1, <1>2 DEF SocketInv
    <3> QED BY <1>3, <1>4, <2>2, <2>3, <2>4, <3>1 DEF SocketInv, Attached, IsJob
  <2>8. OpenInv'
    BY <1>1, <1>3, <1>4, <1>5 DEF OpenInv, Begun
  <2>9. KeepInv'
    <3> SUFFICES ASSUME sessionToken \in known PROVE KeepInv'
      BY <1>3, <1>4 DEF KeepInv
    <3>1. tok[r.c] = sessionToken /\ tok[r.c] # 0
      BY <1>6, <2>1, TypeParts DEF ProxyTypes, Sessions
    <3> QED BY <1>3, <1>4, <2>2, <2>3, <3>1 DEF KeepInv, IsJob
  <2> QED BY <2>5, <2>6, <2>7, <2>8, <2>9, Zenon DEF Others
<1> QED BY <1>7, <1>8, <1>9

LEMMA OthersKept ==
    ASSUME TypeOK, Others, Next
    PROVE  Others'
<1>1. JobInv /\ DeafInv /\ SocketInv /\ OpenInv /\ KeepInv
  BY Zenon DEF Others
<1>2. ASSUME Passive PROVE Others'
  <2>1. JobInv' /\ DeafInv' /\ SocketInv' /\ OpenInv' /\ KeepInv'
    BY <1>1, <1>2, PassiveKeeps
  <2> QED BY <2>1, Zenon DEF Others
<1>3. CASE \E s \in Sessions : LilySpeaks(s) \/ LilyCloses(s) \/ Teardown(s)
  BY <1>1, <1>2, <1>3, LilyIsPassive
<1>4. CASE Look
  BY <1>1, <1>2, <1>4, LookIsPassive
<1>5. CASE SubmitLogin \/ AnswerReconnect
  BY <1>5, UserKeeps
<1>6. CASE \E g \in Clients : Drop(g)
  BY <1>1, <1>2, <1>6, LookIsPassive
<1>7. ASSUME NEW x \in cmds, Command(x) PROVE Others'
  <2>1. CASE x.do = "resume" /\ Resume(x)
    BY <2>1, ResumeKeeps
  <2>2. CASE x.do = "login" /\ Reconnect(x)
    BY <2>2, ReconnectKeeps
  <2>3. CASE x.do = "auth" /\ AttemptAuth(x)
    BY <2>3, AttemptAuthKeeps
  <2>4. CASE x.do = "state" /\ RequestState(x)
    BY <1>1, <1>2, <2>4, FetchIsPassive
  <2>5. CASE x.do = "wait" /\ AnswerState(x)
    BY <1>1, <1>2, <2>5, FetchIsPassive
  <2>6. CASE x.do = "page" /\ FetchPage(x)
    BY <1>1, <1>2, <2>6, FetchIsPassive
  <2>7. CASE x.do \in {"loaded", "partly"} /\ Loaded(x)
    BY <1>1, <1>2, <2>7, FetchIsPassive
  <2>8. CASE x.do = "authed" /\ AuthFailed(x)
    BY <2>8, AuthFailedKeeps
  <2>9. CASE x.do = "authed" /\ Adopt(x)
    BY <2>9, AdoptKeeps
  <2> QED BY <1>7, <2>1, <2>2, <2>3, <2>4, <2>5, <2>6, <2>7, <2>8, <2>9, Zenon DEF Command
<1>8. ASSUME NEW g \in Clients, Receive(g) \/ SocketClosed(g) PROVE Others'
  BY <1>8, ReceiveKeeps, SocketClosedKeeps
<1> QED BY <1>3, <1>4, <1>5, <1>6, <1>7, <1>8, Zenon DEF Next, Runs, Hears

-----------------------------------------------------------------------------
LEMMA InitOthers == Init => Others
<1> SUFFICES ASSUME Init PROVE Others
  OBVIOUS
<1>1. TypeOK
  BY InitTypes
<1>2. PICK n \in 0..1, k \in 0..1 :
         /\ k <= n
         /\ known = 1..n /\ lily = known
         /\ log = [s \in Sessions |-> IF s <= n THEN 1 ELSE 0]
         /\ seen = [s \in Sessions |-> IF s <= k THEN 1 ELSE 0]
         /\ \E resumed \in {0, n} :
              /\ sessionToken = resumed
              /\ tok = [g \in Clients |-> IF g = 1 THEN resumed ELSE 0]
              /\ sock = [g \in Clients |-> IF g = 1 /\ resumed > 0 THEN "up" ELSE "none"]
              /\ chan = [g \in Clients |-> IF g = 1 /\ resumed > k THEN <<1>> ELSE <<>>]
              /\ listening = [g \in Clients |-> IF g = 1 /\ resumed > 0 THEN 1 ELSE 0]
              /\ cmds = IF resumed > 0 THEN {[do |-> "state", c |-> 1]} ELSE {}
              /\ authMode = (resumed = 0)
  BY DEF Init
<1>3. PICK resumed \in {0, n} :
              /\ sessionToken = resumed
              /\ tok = [g \in Clients |-> IF g = 1 THEN resumed ELSE 0]
              /\ sock = [g \in Clients |-> IF g = 1 /\ resumed > 0 THEN "up" ELSE "none"]
              /\ chan = [g \in Clients |-> IF g = 1 /\ resumed > k THEN <<1>> ELSE <<>>]
              /\ listening = [g \in Clients |-> IF g = 1 /\ resumed > 0 THEN 1 ELSE 0]
              /\ cmds = IF resumed > 0 THEN {[do |-> "state", c |-> 1]} ELSE {}
              /\ authMode = (resumed = 0)
  BY <1>2
<1>4. client = 1 /\ reconnectPrompt = FALSE /\ client \in Clients
  BY <1>1 DEF Init, TypeOK
<1>5. \A x \in cmds : ~IsJob(x)
  BY <1>3 DEF IsJob, JobKinds
<1>6. ~Busy
  BY <1>5 DEF Busy
<1>7. JobInv
  <2>1. authMode => listening[client] = 0
    <3>1. authMode <=> resumed = 0
      BY <1>3, Zenon
    <3>2. resumed = 0 => listening[client] = 0
      BY <1>3, <1>4
    <3> QED BY <3>1, <3>2
  <2>2. \A x \in cmds : x.do # "auth" /\ x.do # "authed"
    BY <1>5 DEF IsJob, JobKinds
  <2> QED BY <1>4, <1>5, <1>6, <2>1, <2>2 DEF JobInv
<1>8. DeafInv
  BY <1>3, <1>4, <1>6 DEF DeafInv, Deaf
<1>9. SocketInv
  BY <1>3, <1>4, <1>5 DEF SocketInv, Attached
<1>10. OpenInv
  <2>1. \A s \in 1..n : s \in lily /\ s \in Sessions /\ log[s] = 1
    BY <1>1, <1>2 DEF TypeOK
  <2>2. \A s \in Sessions : MaxMsgs[s] >= 1
    BY LastIDIsLast
  <2> QED BY <1>2, <1>3, <2>1, <2>2 DEF OpenInv, Begun
<1>11. KeepInv
  BY <1>3, <1>4, <1>5 DEF KeepInv
<1> QED BY <1>7, <1>8, <1>9, <1>10, <1>11, Zenon DEF Others

LEMMA Invariant == Spec => [](TypeOK /\ Others)
<1>1. Init => TypeOK /\ Others
  BY InitTypes, InitOthers
<1>2. TypeOK /\ Others /\ [Next]_vars => (TypeOK /\ Others)'
  <2>1. ASSUME TypeOK, Others, Next PROVE (TypeOK /\ Others)'
    <3>1. TypeOK'
      BY <2>1, TypesKept DEF Others
    <3>2. Others'
      BY <2>1, OthersKept
    <3> QED BY <3>1, <3>2
  <2>2. ASSUME TypeOK, Others, UNCHANGED vars PROVE (TypeOK /\ Others)'
    <3>1. UNCHANGED <<known, lily, log, seen, tok, pw, sock, chan, listening, cmds,
                      client, sessionToken, authMode, authInProgress, reconnectAttempt,
                      reconnectPrompt, processedIDs, lastSeenID, top, shown, fetchedFrom, fetchedTo, foreign>>
      BY <2>2 DEF vars, proxy, clients, login, view, history
    <3>2. TypeOK'
      BY <2>2, <3>1 DEF TypeOK
    <3>3. JobInv' /\ DeafInv' /\ SocketInv' /\ OpenInv' /\ KeepInv'
      BY <2>2, <3>1 DEF Others, JobInv, DeafInv, SocketInv, OpenInv, KeepInv, Busy, IsJob,
                        Deaf, Attached, Begun
    <3> QED BY <3>2, <3>3, Zenon DEF Others
  <2> QED BY <2>1, <2>2
<1> QED BY <1>1, <1>2, PTL DEF Spec

\* The variables keep their types: in particular no channel has more than two
\* listeners, no ID is beyond the last, and a page never asks for more than there is.
THEOREM TerminalTypeCorrect == Spec => []TypeOK
BY Invariant, PTL

\* The invariant in full, for whoever wants to build on it.
THEOREM TerminalInvariant == Spec => []TerminalInv
<1>1. TypeOK /\ Others => TerminalInv
  BY Zenon DEF Others, TerminalInv
<1> QED BY <1>1, Invariant, PTL

\* The terminal gives a live session up for nothing: no failure of the network, no
\* stale result, no answer of the user parts it from a session the proxy still has,
\* unless he is logging in already.  (client.go Resume, ui.go authResultMsg)
THEOREM KeepsTheSession == Spec => KeepsLiveSession
<1>1. TypeOK /\ Others /\ [Next]_vars =>
        (sessionToken # 0 /\ (sessionToken' # sessionToken \/ authMode' # authMode)
           => sessionToken \notin known \/ authMode)
  <2> SUFFICES ASSUME TypeOK, Others, Next, sessionToken \in known, ~authMode
               PROVE  sessionToken' = sessionToken /\ authMode' = authMode
    BY DEF vars, login
  <2>1. \A x \in cmds : IsJob(x) =>
          /\ tok[x.c] = sessionToken
          /\ x.do \in {"resume", "authed"}
          /\ x.do = "authed" => x.err \in {"ok", "net"}
    BY DEF Others, KeepInv
  <2>2. ASSUME NEW x \in cmds, x.do = "authed", AuthFailed(x) \/ Adopt(x)
        PROVE  sessionToken' = sessionToken /\ authMode' = authMode
    <3>1. tok[x.c] = sessionToken /\ x.err \in {"ok", "net"}
      BY <2>1, <2>2 DEF IsJob, JobKinds
    <3>2. CASE AuthFailed(x)
      BY <3>1, <3>2 DEF AuthFailed
    <3>3. CASE Adopt(x)
      <4>1. sessionToken' = tok[x.c] /\ authMode' = FALSE
        BY <3>3, Zenon DEF Adopt
      <4>2. authMode = FALSE
        BY TypeParts DEF ModelTypes
      <4> QED BY <3>1, <4>1, <4>2
    <3> QED BY <2>2, <3>2, <3>3
  <2>3. CASE \E x \in cmds : Command(x)
    <3>1. PICK x \in cmds : Command(x)
      BY <2>3
    <3>2. CASE x.do = "authed" /\ (AuthFailed(x) \/ Adopt(x))
      BY <3>2, <2>2
    <3>3. CASE ~(x.do = "authed" /\ (AuthFailed(x) \/ Adopt(x)))
      <4>1. UNCHANGED <<sessionToken, authMode>>
        BY <3>1, <3>3 DEF Command, Resume, Reconnect, AttemptAuth, RequestState, AnswerState,
                          FetchPage, Loaded, login
      <4> QED BY <4>1
    <3> QED BY <3>2, <3>3
  <2>4. CASE ~ \E x \in cmds : Command(x)
    BY <2>4 DEF Next, Runs, Hears, LilySpeaks, LilyCloses, Teardown, Look, SubmitLogin,
                AnswerReconnect, Drop, Receive, SocketClosed, login
  <2> QED BY <2>3, <2>4
<1>2. Spec => [][TypeOK /\ Others /\ [Next]_vars]_vars
  BY Invariant, PTL DEF Spec
<1> QED BY <1>1, <1>2, Invariant, PTL DEF Spec, KeepsLiveSession

\* A terminal never has two sockets nor two attempts under way, so no session is
\* written to by two of its clients.  (client.go Resume)
THEOREM OneSocketEver == Spec => []OneSocket
<1>1. TypeOK /\ Others => OneSocket
  <2> SUFFICES ASSUME TypeOK, Others PROVE OneSocket
    OBVIOUS
  <2>1. ASSUME NEW g \in Clients, NEW h \in Clients, Attached(g), Attached(h) PROVE g = h
    BY <2>1 DEF Others, SocketInv, Busy
  <2> DEFINE jobs == {x \in cmds : x.do \in {"resume", "login", "auth", "authed"}}
  <2>2. \A x, y \in jobs : x = y
    BY DEF Others, JobInv, IsJob, JobKinds
  <2>3. Cardinality(jobs) <= 1
    <3> HIDE DEF jobs
    <3>1. CASE jobs = {}
      BY <3>1, FS_EmptySet
    <3>2. ASSUME NEW x \in jobs PROVE Cardinality(jobs) <= 1
      <4>1. jobs = {x}
        BY <2>2, <3>2
      <4>2. Cardinality({x}) = 1
        BY FS_Singleton
      <4>3. Cardinality(jobs) = 1
        BY <4>1, <4>2, Zenon
      <4> QED BY <4>3
    <3> QED BY <3>1, <3>2
  <2> QED BY <2>1, <2>3 DEF OneSocket
<1> QED BY <1>1, Invariant, PTL

-----------------------------------------------------------------------------
(* What the user is shown.                                                 *)

\* Sessions begin one after the other, and the table has the last one at most.
OrderInv ==
    /\ \A u, s \in Sessions : Begun(u) /\ s < u => Begun(s)
    /\ \A s \in known : \A u \in Sessions : Begun(u) => u <= s

\* Tokens only move on: no attempt has one of an earlier session than the model's.
Onward(g) == tok[g] = 0 \/ tok[g] >= sessionToken
TokenInv ==
    /\ Onward(client)
    /\ \A x \in cmds : IsJob(x) => Onward(x.c)
    /\ \A x \in cmds : x.do = "authed" /\ x.err = "ok" => tok[x.c] # 0
    /\ listening[client] > 0 => tok[client] = sessionToken /\ sessionToken # 0
    /\ authMode => sessionToken \notin known

\* A fetch asks for its client's session, which is the model's or an earlier one,
\* and an attempt ends on a client that nothing has been fetched for yet.
FetchInv ==
    /\ \A x \in cmds : ~IsJob(x) => tok[x.c] # 0 /\ tok[x.c] <= sessionToken
    /\ \A x \in cmds : ~IsJob(x) /\ x.do # "state" => x.s = tok[x.c]
    /\ \A x, y \in cmds : x.do = "authed" /\ y.c = x.c => y = x
    /\ authMode => \A y \in cmds : y.c = client => IsJob(y)

Lineage == OrderInv /\ TokenInv /\ FetchInv

LEMMA SessionTypes ==
    ASSUME TypeOK
    PROVE  /\ MaxSessions \in Nat /\ sessionToken \in 0..MaxSessions /\ client \in Clients
           /\ tok \in [Clients -> 0..MaxSessions] /\ listening \in [Clients -> 0..2]
           /\ \A s \in Sessions : log[s] \in Nat /\ seen[s] \in Nat
           /\ known \subseteq Sessions /\ lily \subseteq known
           /\ \A x \in cmds : x.c \in Clients
<1>1. ProxyTypes /\ ClientTypes /\ CmdTypes /\ ModelTypes
  BY TypeParts
<1>2. MaxSessions \in Nat /\ LastID \in Nat
  BY LastIDIsLast
<1> QED BY <1>1, <1>2, Kinds DEF ProxyTypes, ClientTypes, ModelTypes, LastIDs

\* Nothing that begins or ends an attempt.
LEMMA LineageStays ==
    ASSUME TypeOK, Lineage, UNCHANGED <<tok, client, sessionToken, authMode>>,
           listening'[client] > 0 => listening[client] > 0,
           \A x : IsJob(x) => (x \in cmds' <=> x \in cmds),
           known' \subseteq known,
           \A s \in Sessions : (s \in lily' \/ log'[s] > 0) <=> Begun(s),
           \A x \in cmds' : ~IsJob(x) =>
              \E y \in cmds : ~IsJob(y) /\ y.c = x.c /\ (x.do # "state" => x.s = tok[x.c])
    PROVE  Lineage'
<1>1. OrderInv /\ TokenInv /\ FetchInv
  BY Zenon DEF Lineage
<1>2. OrderInv'
  <2>1. \A s \in Sessions : Begun(s)' <=> Begun(s)
    BY DEF Begun
  <2> QED BY <1>1, <2>1 DEF OrderInv
<1>3. TokenInv'
  <2>1. \A x \in cmds' : IsJob(x) => Onward(x.c)'
    BY <1>1 DEF TokenInv, Onward
  <2>2. \A x \in cmds' : x.do = "authed" /\ x.err = "ok" => tok'[x.c] # 0
    BY <1>1 DEF TokenInv, IsJob, JobKinds
  <2>3. listening'[client'] > 0 => tok'[client'] = sessionToken' /\ sessionToken' # 0
    BY <1>1 DEF TokenInv
  <2> QED BY <1>1, <2>1, <2>2, <2>3 DEF TokenInv, Onward, IsJob
<1>4. FetchInv'
  <2>1. \A x \in cmds' : ~IsJob(x) => tok'[x.c] # 0 /\ tok'[x.c] <= sessionToken'
    BY <1>1 DEF FetchInv
  <2>2. \A x, y \in cmds' : x.do = "authed" /\ y.c = x.c => y = x
    <3> SUFFICES ASSUME NEW x \in cmds', NEW y \in cmds', x.do = "authed", y.c = x.c
                 PROVE  y = x
      OBVIOUS
    <3>1. x \in cmds /\ IsJob(x)
      BY DEF IsJob, JobKinds
    <3>2. CASE IsJob(y)
      BY <3>1, <3>2, <1>1 DEF FetchInv
    <3>3. CASE ~IsJob(y)
      <4>1. PICK z \in cmds : ~IsJob(z) /\ z.c = y.c
        BY <3>3
      <4> QED BY <4>1, <3>1, <1>1 DEF FetchInv
    <3> QED BY <3>2, <3>3
  <2>3. authMode' => \A y \in cmds' : y.c = client' => IsJob(y)
    BY <1>1 DEF FetchInv
  <2> QED BY <2>1, <2>2, <2>3 DEF FetchInv, IsJob
<1> QED BY <1>2, <1>3, <1>4, Zenon DEF Lineage

LEMMA LilyLineage ==
    ASSUME TypeOK, Lineage, NEW s \in Sessions,
           LilySpeaks(s) \/ LilyCloses(s) \/ Teardown(s)
    PROVE  Lineage'
<1>1. /\ \A z \in Sessions : log[z] \in Nat
      /\ lily \subseteq known /\ known \subseteq Sessions /\ log \in [Sessions -> LastIDs]
  BY TypeParts, SessionTypes DEF ProxyTypes
<1>2. /\ UNCHANGED <<tok, client, sessionToken, authMode, listening, cmds>>
      /\ known' \subseteq known
  BY DEF LilySpeaks, LilyCloses, Teardown, clients, login
<1>3. \A z \in Sessions : (z \in lily' \/ log'[z] > 0) <=> Begun(z)
  BY <1>1 DEF LilySpeaks, LilyCloses, Teardown, Publish, Begun
<1>4. \A x \in cmds : ~IsJob(x) /\ x.do # "state" => x.s = tok[x.c]
  BY DEF Lineage, FetchInv
<1> QED BY <1>2, <1>3, <1>4, LineageStays

LEMMA AsideLineage ==
    ASSUME TypeOK, Lineage, Look \/ \E g \in Clients : Drop(g)
    PROVE  Lineage'
<1>1. UNCHANGED <<tok, client, sessionToken, authMode, listening, cmds, known, lily, log>>
  BY DEF Look, Drop, clients, login, proxy
<1>2. \A x \in cmds : ~IsJob(x) /\ x.do # "state" => x.s = tok[x.c]
  BY DEF Lineage, FetchInv
<1> QED BY <1>1, <1>2, LineageStays DEF Begun

LEMMA FetchLineage ==
    ASSUME TypeOK, Lineage, NEW f \in cmds,
           \/ f.do = "state" /\ RequestState(f)
           \/ f.do = "wait" /\ AnswerState(f)
           \/ f.do = "page" /\ FetchPage(f)
           \/ f.do \in {"loaded", "partly"} /\ Loaded(f)
    PROVE  Lineage'
<1>1. UNCHANGED <<tok, client, sessionToken, authMode, listening, known, lily, log>>
  BY DEF RequestState, AnswerState, FetchPage, Loaded, clients, login, proxy
<1>2. ~IsJob(f) /\ CmdTypes
  BY TypeParts DEF IsJob, JobKinds
<1>3. \A x \in cmds : ~IsJob(x) /\ x.do # "state" => x.s = tok[x.c]
  BY DEF Lineage, FetchInv
<1>4. \A x \in cmds' : x \in cmds \/ (~IsJob(x) /\ x.c = f.c /\ x.s = tok[f.c])
  <2>1. CASE f.do = "state" /\ RequestState(f)
    BY <2>1 DEF RequestState, Results, IsJob, JobKinds
  <2>2. CASE f.do = "wait" /\ AnswerState(f)
    <3>1. f \in Fetch /\ f.s = tok[f.c]
      BY <1>2, <1>3, <2>2, Kinds
    <3> QED BY <2>2, <3>1 DEF AnswerState, Results, IsJob, JobKinds, Fetch
  <2>3. CASE f.do = "page" /\ FetchPage(f)
    <3>1. f \in Fetch /\ f.s = tok[f.c]
      BY <1>2, <1>3, <2>3, Kinds
    <3>2. \A d \in {"page", "loaded", "partly"} : \A u :
            /\ ~IsJob([f EXCEPT !.do = d]) /\ ~IsJob([f EXCEPT !.do = d, !.upto = u])
            /\ [f EXCEPT !.do = d].c = f.c /\ [f EXCEPT !.do = d, !.upto = u].c = f.c
            /\ [f EXCEPT !.do = d].s = f.s /\ [f EXCEPT !.do = d, !.upto = u].s = f.s
      BY <3>1 DEF Fetch, IsJob, JobKinds
    <3>3. \/ \E d \in {"page", "loaded"} : \E u : Results(f, {[f EXCEPT !.do = d, !.upto = u]})
          \/ Results(f, {[f EXCEPT !.do = "partly"]})
      BY <2>3 DEF FetchPage
    <3>4. \E x : Results(f, {x}) /\ ~IsJob(x) /\ x.c = f.c /\ x.s = f.s
      BY <3>2, <3>3
    <3> QED BY <3>1, <3>4 DEF Results
  <2>4. CASE f.do \in {"loaded", "partly"} /\ Loaded(f)
    BY <2>4 DEF Loaded, Results
  <2> QED BY <2>1, <2>2, <2>3, <2>4
<1>5. \A x : IsJob(x) => (x \in cmds' <=> x \in cmds)
  <2>1. \A x \in cmds : x # f => x \in cmds'
    BY DEF RequestState, AnswerState, FetchPage, Loaded, Results
  <2> QED BY <1>2, <1>4, <2>1
<1>6. \A x \in cmds' : ~IsJob(x) =>
         \E y \in cmds : ~IsJob(y) /\ y.c = x.c /\ (x.do # "state" => x.s = tok[x.c])
  BY <1>2, <1>3, <1>4
<1> QED BY <1>1, <1>5, <1>6, LineageStays DEF Begun

LEMMA ReceiveLineage ==
    ASSUME TypeOK, Others, Lineage, NEW g \in Clients, Receive(g)
    PROVE  Lineage'
<1>1. UNCHANGED <<tok, client, sessionToken, authMode, cmds, known, lily, log>>
  BY DEF Receive, login
<1>2. listening[client] > 0
  BY Heard DEF Receive, Others
<1>3. \A x \in cmds : ~IsJob(x) /\ x.do # "state" => x.s = tok[x.c]
  BY DEF Lineage, FetchInv
<1> QED BY <1>1, <1>2, <1>3, LineageStays DEF Begun

\* An attempt begins, on the client in use.
LEMMA BeginsLineage ==
    ASSUME TypeOK, Lineage, ~Busy, NEW j, IsJob(j), j.c = client, j.do # "authed",
           cmds' = cmds \cup {j}, UNCHANGED <<known, lily, log, tok, client, sessionToken, authMode>>,
           listening'[client] > 0 => listening[client] > 0
    PROVE  Lineage'
<1>1. OrderInv /\ TokenInv /\ FetchInv
  BY Zenon DEF Lineage
<1>2. \A x \in cmds : ~IsJob(x)
  BY DEF Busy
<1>3. OrderInv'
  BY <1>1 DEF OrderInv, Begun
<1>4. TokenInv'
  <2>1. \A x \in cmds' : IsJob(x) => x = j
    BY <1>2
  <2>2. \A x \in cmds' : x.do # "authed"
    BY <1>2 DEF IsJob, JobKinds
  <2> QED BY <1>1, <2>1, <2>2 DEF TokenInv, Onward, IsJob
<1>5. FetchInv'
  <2>1. \A x \in cmds' : x.do # "authed"
    BY <1>2 DEF IsJob, JobKinds
  <2> QED BY <1>1, <2>1 DEF FetchInv, IsJob
<1> QED BY <1>3, <1>4, <1>5, Zenon DEF Lineage

LEMMA SocketClosedLineage ==
    ASSUME TypeOK, Others, Lineage, NEW g \in Clients, SocketClosed(g)
    PROVE  Lineage'
<1>1. /\ UNCHANGED <<known, lily, log, tok, client, sessionToken, authMode>>
      /\ listening' = [listening EXCEPT ![g] = @ - 1]
  BY DEF SocketClosed, proxy
<1>2. listening'[client] > 0 => listening[client] > 0
  BY <1>1, SessionTypes
<1>3. CASE Concerns(g)
  <2>1. cmds' = cmds \cup {ReconnectNow(client)} /\ ~authInProgress
    BY <1>3 DEF SocketClosed, Concerns
  <2>2. ~Busy
    BY <2>1 DEF Others, JobInv
  <2>3. IsJob(ReconnectNow(client)) /\ ReconnectNow(client).c = client
        /\ ReconnectNow(client).do # "authed"
    BY DEF ReconnectNow, IsJob, JobKinds
  <2> QED BY <1>1, <1>2, <2>1, <2>2, <2>3, BeginsLineage
<1>4. CASE ~Concerns(g)
  <2>1. UNCHANGED cmds
    BY <1>4 DEF SocketClosed
  <2>2. \A x \in cmds : ~IsJob(x) /\ x.do # "state" => x.s = tok[x.c]
    BY DEF Lineage, FetchInv
  <2> QED BY <1>1, <1>2, <2>1, <2>2, LineageStays DEF Begun
<1> QED BY <1>3, <1>4

LEMMA UserLineage ==
    ASSUME TypeOK, Others, Lineage, SubmitLogin \/ AnswerReconnect
    PROVE  Lineage'
<1>1. UNCHANGED <<known, lily, log, tok, client, sessionToken, authMode, listening>>
  BY DEF SubmitLogin, AnswerReconnect, proxy, clients
<1>2. ~Busy
  BY DEF SubmitLogin, AnswerReconnect, Others, JobInv
<1>3. CASE SubmitLogin
  <2> DEFINE j == [do |-> "auth", c |-> client]
  <2>1. cmds' = cmds \cup {j} /\ IsJob(j) /\ j.c = client /\ j.do # "authed"
    BY <1>3 DEF SubmitLogin, IsJob, JobKinds
  <2> HIDE DEF j
  <2> QED BY <1>1, <1>2, <2>1, BeginsLineage
<1>4. CASE AnswerReconnect
  <2> DEFINE j == ReconnectNow(client)
  <2>1. cmds' = cmds \cup {j} /\ IsJob(j) /\ j.c = client /\ j.do # "authed"
    BY <1>4 DEF AnswerReconnect, ReconnectNow, IsJob, JobKinds
  <2> HIDE DEF j
  <2> QED BY <1>1, <1>2, <2>1, BeginsLineage
<1> QED BY <1>3, <1>4

\* A session that opens is later than every one before it.
LEMMA OpenedOrder ==
    ASSUME TypeOK, OpenInv, OrderInv, Opened, UNCHANGED log
    PROVE  /\ OrderInv'
           /\ \A s \in known' : \A u \in Sessions : Begun(u) => u <= s
<1>1. /\ \A s \in Sessions : log[s] \in Nat
      /\ known \subseteq Sessions /\ lily \subseteq known /\ Sessions \subseteq Nat
  BY SessionTypes DEF Sessions
<1>2. CASE UNCHANGED <<known, lily>>
  BY <1>2 DEF OrderInv, Begun
<1>3. ASSUME NEW n \in Sessions, known = {}, log[n] = 0, \A t \in 1..(n - 1) : log[t] > 0,
             known' = {n}, lily' = {n}
      PROVE  /\ OrderInv'
             /\ \A s \in known' : \A u \in Sessions : Begun(u) => u <= s
  <2>1. lily = {}
    BY <1>1, <1>3
  <2>2. \A u \in Sessions : Begun(u) => u < n
    <3> SUFFICES ASSUME NEW u \in Sessions, Begun(u) PROVE u < n
      OBVIOUS
    <3>1. u # n
      BY <1>1, <1>3, <2>1 DEF Begun
    <3>2. ~(n < u)
      <4>1. n < u => Begun(n)
        BY DEF OrderInv
      <4> QED BY <4>1, <1>1, <1>3, <2>1 DEF Begun
    <3> QED BY <3>1, <3>2, <1>1
  <2>3. \A u \in Sessions : (u \in lily' \/ log'[u] > 0) <=> u = n \/ Begun(u)
    BY <1>3, <2>1 DEF Begun
  <2>4. \A s \in Sessions : s < n => Begun(s)
    BY <1>1, <1>3 DEF Begun, Sessions
  <2>5. \A u \in Sessions : Begun(u)' <=> u = n \/ Begun(u)
    BY <2>3 DEF Begun
  <2> QED BY <1>1, <1>3, <2>2, <2>4, <2>5 DEF OrderInv
<1> QED BY <1>2, <1>3 DEF Opened, Opens

\* An attempt moves on: see MovesOn.
LEMMA MovesLineage ==
    ASSUME TypeOK, JobInv, OpenInv, Lineage,
           NEW j \in cmds, IsJob(j), NEW g \in Clients,
           Unused(g) \/ (g = j.c /\ g = client /\ authMode),
           NEW t \in 0..MaxSessions, NEW p, NEW up \in BOOLEAN, Replace(j.c, g, t, p, up),
           t = 0 \/ t >= sessionToken,
           NEW r, r.c = g, r.do \in {"login", "authed"},
           r.do = "authed" /\ r.err = "ok" => t # 0, Results(j, {r}),
           Opened, UNCHANGED <<log, login, reconnectPrompt>>
    PROVE  Lineage'
<1>1. OrderInv /\ TokenInv /\ FetchInv
  BY Zenon DEF Lineage
<1>2. /\ client \in Clients /\ tok \in [Clients -> 0..MaxSessions]
      /\ sessionToken \in 0..MaxSessions /\ MaxSessions \in Nat
      /\ \A x \in cmds : x.c \in Clients
  BY SessionTypes
<1>3. \A x \in cmds : IsJob(x) => x = j
  BY DEF JobInv
<1>4. /\ UNCHANGED <<listening, client, sessionToken, authMode>>
      /\ tok' = [x \in Clients |-> IF x = g THEN t ELSE IF Unused(x) THEN 0 ELSE tok[x]]
  BY Zenon DEF Replace, login
<1>5. r \in cmds' /\ IsJob(r) /\ \A x \in cmds' : x = r \/ (x \in cmds /\ ~IsJob(x))
  BY <1>3 DEF Results, IsJob, JobKinds
<1>6. tok'[g] = t /\ ~Unused(client) /\ (g = client => authMode)
  BY <1>4 DEF Unused
<1>7. client # g => tok'[client] = tok[client]
  BY <1>2, <1>4, <1>6
<1>8. \A x \in cmds : ~IsJob(x) => x.c # g /\ tok'[x.c] = tok[x.c]
  <2> SUFFICES ASSUME NEW x \in cmds, ~IsJob(x) PROVE x.c # g /\ tok'[x.c] = tok[x.c]
    OBVIOUS
  <2>1. ~Unused(x.c)
    BY DEF Unused
  <2>2. x.c # g
    BY <1>1, <1>6, <2>1 DEF FetchInv
  <2> QED BY <2>1, <2>2, <1>2, <1>4
<1>9. OrderInv'
  BY <1>1, OpenedOrder
<1>10. TokenInv'
  <2>1. Onward(client)'
    BY <1>1, <1>4, <1>6, <1>7 DEF TokenInv, Onward
  <2>2. \A x \in cmds' : IsJob(x) => Onward(x.c)'
    BY <1>4, <1>5, <1>6 DEF Onward
  <2>3. \A x \in cmds' : x.do = "authed" /\ x.err = "ok" => tok'[x.c] # 0
    BY <1>5, <1>6 DEF IsJob, JobKinds
  <2>4. listening'[client'] > 0 => tok'[client'] = sessionToken' /\ sessionToken' # 0
    <3>1. authMode => listening[client] = 0
      BY DEF JobInv
    <3> QED BY <3>1, <1>1, <1>4, <1>6, <1>7 DEF TokenInv
  <2>5. authMode' => sessionToken' \notin known'
    BY <1>1, <1>4, LiveToken DEF TokenInv
  <2> QED BY <2>1, <2>2, <2>3, <2>4, <2>5 DEF TokenInv, IsJob
<1>11. FetchInv'
  <2>1. \A x \in cmds' : ~IsJob(x) => tok'[x.c] # 0 /\ tok'[x.c] <= sessionToken'
    BY <1>1, <1>4, <1>5, <1>8 DEF FetchInv
  <2>2. \A x \in cmds' : ~IsJob(x) /\ x.do # "state" => x.s = tok'[x.c]
    BY <1>1, <1>5, <1>8 DEF FetchInv
  <2>3. \A x, y \in cmds' : x.do = "authed" /\ y.c = x.c => y = x
    BY <1>5, <1>8 DEF IsJob, JobKinds
  <2>4. authMode' => \A y \in cmds' : y.c = client' => IsJob(y)
    BY <1>1, <1>4, <1>5 DEF FetchInv
  <2> QED BY <2>1, <2>2, <2>3, <2>4 DEF FetchInv, IsJob
<1> QED BY <1>9, <1>10, <1>11, Zenon DEF Lineage

\* The three ways an attempt moves on, in one form.
Moving(j, g, t, p, up, r) ==
    /\ Unused(g) \/ (g = j.c /\ g = client /\ authMode)
    /\ Replace(j.c, g, t, p, up) /\ Results(j, {r}) /\ Opened
    /\ r.c = g /\ r.do \in {"login", "authed"}
    /\ r.do = "authed" => (r.err = "ok" <=> up)
    /\ up => t \in known'
    /\ t = 0 \/ t = tok[j.c] \/ t \in known'

LEMMA AuthenticatesMoves ==
    ASSUME TypeOK, NEW j \in cmds, NEW g \in Clients,
           Unused(g) \/ (g = j.c /\ g = client /\ authMode), Authenticates(j, j.c, g)
    PROVE  \E t \in 0..MaxSessions, p \in BOOLEAN, up \in BOOLEAN : \E r : Moving(j, g, t, p, up, r)
<1>1. ASSUME NEW s \in Sessions, NEW up \in BOOLEAN, Opens(s),
             Replace(j.c, g, s, TRUE, up), Results(j, Authed(g, IF up THEN "ok" ELSE "net"))
      PROVE  \E r : Moving(j, g, s, TRUE, up, r)
  <2> DEFINE r == [do |-> "authed", c |-> g, err |-> IF up THEN "ok" ELSE "net"]
  <2>1. Results(j, {r}) /\ r.c = g /\ r.do = "authed" /\ (r.err = "ok" <=> up)
    BY <1>1 DEF Authed
  <2>2. Opened /\ s \in known'
    BY <1>1 DEF Opened, Opens
  <2> HIDE DEF r
  <2> QED BY <1>1, <2>1, <2>2 DEF Moving
<1>2. ASSUME NEW err \in {"net", "rejected"}, Replace(j.c, g, 0, FALSE, FALSE),
             Results(j, Authed(g, err)), UNCHANGED <<known, lily>>
      PROVE  \E r : Moving(j, g, 0, FALSE, FALSE, r)
  <2> DEFINE r == [do |-> "authed", c |-> g, err |-> err]
  <2>1. Results(j, {r}) /\ r.c = g /\ r.do = "authed" /\ r.err # "ok"
    BY <1>2 DEF Authed
  <2>2. Opened
    BY <1>2 DEF Opened
  <2> HIDE DEF r
  <2> QED BY <1>2, <2>1, <2>2 DEF Moving
<1>3. MaxSessions \in Nat
  BY SessionTypes
<1>4. CASE \E s \in Sessions, up \in BOOLEAN :
             /\ Opens(s) /\ Replace(j.c, g, s, TRUE, up)
             /\ Results(j, Authed(g, IF up THEN "ok" ELSE "net"))
  <2>1. PICK s \in Sessions, up \in BOOLEAN :
             /\ Opens(s) /\ Replace(j.c, g, s, TRUE, up)
             /\ Results(j, Authed(g, IF up THEN "ok" ELSE "net"))
    BY <1>4
  <2>2. \E r : Moving(j, g, s, TRUE, up, r)
    BY <1>1, <2>1
  <2>3. s \in 0..MaxSessions
    BY <1>3 DEF Sessions
  <2> QED BY <2>2, <2>3
<1>5. CASE \E err \in {"net", "rejected"} :
             /\ Replace(j.c, g, 0, FALSE, FALSE) /\ Results(j, Authed(g, err))
             /\ UNCHANGED <<known, lily>>
  <2>1. \E r : Moving(j, g, 0, FALSE, FALSE, r)
    BY <1>2, <1>5
  <2>2. 0 \in 0..MaxSessions
    BY <1>3
  <2> QED BY <2>1, <2>2
<1> QED BY <1>4, <1>5 DEF Authenticates

LEMMA AttemptMoves ==
    ASSUME TypeOK, Others, NEW j \in cmds,
           \/ j.do = "resume" /\ Resume(j)
           \/ j.do = "login" /\ Reconnect(j)
           \/ j.do = "auth" /\ AttemptAuth(j)
    PROVE  /\ UNCHANGED <<log, seen, login, reconnectPrompt, view, history>>
           /\ \E g \in Clients, t \in 0..MaxSessions, p \in BOOLEAN, up \in BOOLEAN :
                 \E r : Moving(j, g, t, p, up, r)
<1>1. /\ j.c \in Clients /\ MaxSessions \in Nat /\ tok \in [Clients -> 0..MaxSessions]
      /\ pw \in [Clients -> BOOLEAN] /\ client \in Clients
  BY SessionTypes, TypeParts DEF ClientTypes
<1>2. CASE j.do = "resume" /\ Resume(j)
  <2>1. UNCHANGED <<log, seen, login, reconnectPrompt, view, history, known, lily>>
    BY <1>2 DEF Resume, proxy
  <2>2. Fresh \in Clients /\ Unused(Fresh) /\ Opened
    BY <1>2, <2>1, FreshIsUnused DEF Resume, Opened
  <2>3. ASSUME NEW up \in BOOLEAN, up => tok[j.c] \in known, NEW r, r.c = Fresh,
               r.do \in {"login", "authed"}, r.do = "authed" => (r.err = "ok" <=> up),
               Replace(j.c, Fresh, tok[j.c], pw[j.c], up), Results(j, {r})
        PROVE  Moving(j, Fresh, tok[j.c], pw[j.c], up, r)
    BY <2>1, <2>2, <2>3 DEF Moving
  <2>4. \E up \in BOOLEAN : \E r : Moving(j, Fresh, tok[j.c], pw[j.c], up, r)
    <3>1. CASE /\ tok[j.c] \in known /\ Replace(j.c, Fresh, tok[j.c], pw[j.c], TRUE)
               /\ Results(j, Authed(Fresh, "ok"))
      <4> DEFINE r == [do |-> "authed", c |-> Fresh, err |-> "ok"]
      <4>1. Results(j, {r}) /\ r.c = Fresh /\ r.do = "authed" /\ r.err = "ok"
        BY <3>1 DEF Authed
      <4> HIDE DEF r
      <4> QED BY <2>3, <3>1, <4>1
    <3>2. CASE Replace(j.c, Fresh, tok[j.c], pw[j.c], FALSE) /\ Results(j, Authed(Fresh, "net"))
      <4> DEFINE r == [do |-> "authed", c |-> Fresh, err |-> "net"]
      <4>1. Results(j, {r}) /\ r.c = Fresh /\ r.do = "authed" /\ r.err # "ok"
        BY <3>2 DEF Authed
      <4> HIDE DEF r
      <4> QED BY <2>3, <3>2, <4>1
    <3>3. CASE Replace(j.c, Fresh, tok[j.c], pw[j.c], FALSE)
               /\ Results(j, {[do |-> "login", c |-> Fresh]})
      <4> DEFINE r == [do |-> "login", c |-> Fresh]
      <4>1. Results(j, {r}) /\ r.c = Fresh /\ r.do = "login"
        BY <3>3
      <4> HIDE DEF r
      <4> QED BY <2>3, <3>3, <4>1
    <3> QED BY <1>2, <3>1, <3>2, <3>3 DEF Resume
  <2>5. tok[j.c] \in 0..MaxSessions /\ pw[j.c] \in BOOLEAN
    BY <1>1
  <2> QED BY <2>1, <2>2, <2>4, <2>5
<1>3. CASE j.do = "login" /\ Reconnect(j)
  <2>1. UNCHANGED <<log, seen, login, reconnectPrompt, view, history>>
    BY <1>3 DEF Reconnect
  <2>2. Fresh \in Clients /\ Unused(Fresh)
    BY <1>3, FreshIsUnused DEF Reconnect
  <2>3. CASE pw[j.c]
    <3>1. Authenticates(j, j.c, Fresh)
      BY <1>3, <2>3 DEF Reconnect
    <3> QED BY <2>1, <2>2, <3>1, AuthenticatesMoves
  <2>4. CASE ~pw[j.c]
    <3> DEFINE r == [do |-> "authed", c |-> Fresh, err |-> "gone"]
    <3>1. /\ Results(j, {r}) /\ r.c = Fresh /\ r.do = "authed" /\ r.err # "ok"
          /\ Replace(j.c, Fresh, 0, FALSE, FALSE) /\ UNCHANGED <<known, lily>>
      BY <1>3, <2>4 DEF Reconnect, Authed
    <3>2. Opened
      BY <3>1 DEF Opened
    <3> HIDE DEF r
    <3>3. Moving(j, Fresh, 0, FALSE, FALSE, r)
      BY <2>2, <3>1, <3>2 DEF Moving
    <3>4. 0 \in 0..MaxSessions
      BY <1>1
    <3> QED BY <2>1, <2>2, <3>3, <3>4
  <2> QED BY <2>3, <2>4
<1>4. CASE j.do = "auth" /\ AttemptAuth(j)
  <2>1. UNCHANGED <<log, seen, login, reconnectPrompt, view, history>>
    BY <1>4 DEF AttemptAuth
  <2>2. authMode /\ j.c = client
    BY <1>4 DEF Others, JobInv
  <2>3. Authenticates(j, j.c, j.c)
    BY <1>4 DEF AttemptAuth
  <2> QED BY <1>1, <2>1, <2>2, <2>3, AuthenticatesMoves
<1> QED BY <1>2, <1>3, <1>4

LEMMA AttemptLineage ==
    ASSUME TypeOK, Others, Lineage, NEW j \in cmds,
           \/ j.do = "resume" /\ Resume(j)
           \/ j.do = "login" /\ Reconnect(j)
           \/ j.do = "auth" /\ AttemptAuth(j)
    PROVE  Lineage'
<1>1. PICK g \in Clients, t \in 0..MaxSessions, p \in BOOLEAN, up \in BOOLEAN :
              \E r : Moving(j, g, t, p, up, r)
  BY AttemptMoves
<1>2. PICK r : Moving(j, g, t, p, up, r)
  BY <1>1
<1>3. UNCHANGED <<log, login, reconnectPrompt>> /\ IsJob(j)
  BY AttemptMoves DEF IsJob, JobKinds
<1>4. JobInv /\ OpenInv /\ OrderInv /\ TokenInv
  BY Zenon DEF Others, Lineage
<1>5. t = 0 \/ t >= sessionToken
  <2>1. sessionToken \in 0..MaxSessions /\ MaxSessions \in Nat
    BY SessionTypes
  <2>2. CASE t = tok[j.c]
    BY <1>3, <1>4, <2>2 DEF TokenInv, Onward
  <2>3. CASE t \in known'
    <3>1. sessionToken # 0 => sessionToken \in Sessions /\ Begun(sessionToken)
      BY <1>4, <2>1 DEF OpenInv, Sessions
    <3>2. \A s \in known' : \A u \in Sessions : Begun(u) => u <= s
      BY <1>2, <1>3, <1>4, OpenedOrder DEF Moving
    <3> QED BY <2>1, <2>3, <3>1, <3>2
  <2> QED BY <1>2, <2>2, <2>3 DEF Moving
<1>6. r.do = "authed" /\ r.err = "ok" => t # 0
  <2>1. 0 \notin known'
    BY <1>2, SessionTypes DEF Moving, Opened, Opens, Sessions
  <2> QED BY <1>2, <2>1 DEF Moving
<1> QED BY <1>2, <1>3, <1>4, <1>5, <1>6, MovesLineage DEF Moving

LEMMA AuthFailedLineage ==
    ASSUME TypeOK, Others, Lineage, NEW r \in cmds, r.do = "authed", AuthFailed(r)
    PROVE  Lineage'
<1>1. OrderInv /\ TokenInv /\ FetchInv /\ JobInv
  BY Zenon DEF Lineage, Others
<1>2. client' = r.c /\ UNCHANGED <<known, lily, log, tok, listening, sessionToken>>
  BY DEF AuthFailed, proxy, clients
<1>3. IsJob(r) /\ listening[r.c] = 0 /\ \A x \in cmds : IsJob(x) => x = r
  BY <1>1 DEF IsJob, JobKinds, JobInv
<1>4. \A x \in cmds' : (x \in cmds /\ ~IsJob(x)) \/ (x = ReconnectNow(r.c))
  BY <1>3 DEF AuthFailed, Results
<1>5. IsJob(ReconnectNow(r.c)) /\ ReconnectNow(r.c).c = r.c /\ ReconnectNow(r.c).do # "authed"
  BY DEF ReconnectNow, IsJob, JobKinds
<1>6. OrderInv'
  BY <1>1, <1>2 DEF OrderInv, Begun
<1>7. TokenInv'
  <2>1. Onward(r.c)
    BY <1>1, <1>3 DEF TokenInv
  <2>2. \A x \in cmds' : x.do # "authed"
    BY <1>4, <1>5 DEF IsJob, JobKinds
  <2>3. \A x \in cmds' : IsJob(x) => x.c = r.c
    BY <1>4, <1>5
  <2>4. authMode' => sessionToken \notin known
    <3>1. CASE authMode
      BY <1>1, <3>1 DEF TokenInv
    <3>2. CASE ~authMode /\ r.err \in {"rejected", "gone"}
      BY <1>3, <3>2 DEF Others, KeepInv
    <3>3. CASE ~(authMode \/ r.err \in {"rejected", "gone"})
      BY <3>3 DEF AuthFailed
    <3> QED BY <3>1, <3>2, <3>3
  <2> QED BY <1>2, <1>3, <2>1, <2>2, <2>3, <2>4 DEF TokenInv, Onward, IsJob
<1>8. FetchInv'
  <2>1. \A x \in cmds' : x.do # "authed"
    BY <1>4, <1>5 DEF IsJob, JobKinds
  <2>2. \A x \in cmds' : ~IsJob(x) => x \in cmds /\ x.c # r.c
    BY <1>1, <1>3, <1>4, <1>5 DEF FetchInv
  <2> QED BY <1>1, <1>2, <2>1, <2>2 DEF FetchInv, IsJob
<1> QED BY <1>6, <1>7, <1>8, Zenon DEF Lineage

LEMMA AdoptLineage ==
    ASSUME TypeOK, Others, Lineage, NEW r \in cmds, r.do = "authed", Adopt(r)
    PROVE  Lineage'
<1>1. OrderInv /\ TokenInv /\ FetchInv /\ JobInv
  BY Zenon DEF Lineage, Others
<1>2. /\ client' = r.c /\ authMode' = FALSE /\ sessionToken' = tok[r.c]
      /\ Results(r, {[do |-> "state", c |-> r.c]}) /\ r.err = "ok"
      /\ UNCHANGED <<known, lily, log, tok>>
  BY Zenon DEF Adopt, proxy
<1>3. IsJob(r) /\ \A x \in cmds : IsJob(x) => x = r
  BY <1>1 DEF IsJob, JobKinds, JobInv
<1>4. \A x \in cmds' : ~IsJob(x) /\ (x \in cmds \/ (x.do = "state" /\ x.c = r.c))
  BY <1>2, <1>3 DEF Results, IsJob, JobKinds
<1>5. tok[r.c] # 0 /\ tok[r.c] >= sessionToken
  BY <1>1, <1>2, <1>3 DEF TokenInv, Onward
<1>6. OrderInv'
  BY <1>1, <1>2 DEF OrderInv, Begun
<1>7. /\ tok[r.c] \in Nat /\ sessionToken \in Nat /\ \A x \in cmds : tok[x.c] \in Nat
  BY SessionTypes
<1>8. TokenInv'
  <2>1. \A x \in cmds' : x.do # "authed" /\ ~IsJob(x)
    BY <1>4 DEF IsJob, JobKinds
  <2> QED BY <1>2, <1>5, <1>7, <2>1 DEF TokenInv, Onward, IsJob
<1>9. FetchInv'
  <2>1. \A x \in cmds' : x.do # "authed"
    BY <1>4 DEF IsJob, JobKinds
  <2>2. ASSUME NEW x \in cmds'
        PROVE  /\ tok[x.c] # 0 /\ tok[x.c] <= tok[r.c]
               /\ x.do # "state" => x.s = tok[x.c]
    <3>1. CASE x \in cmds
      BY <3>1, <1>1, <1>4, <1>5, <1>7 DEF FetchInv
    <3>2. CASE x.do = "state" /\ x.c = r.c
      BY <3>2, <1>5, <1>7
    <3> QED BY <1>4, <3>1, <3>2
  <2> QED BY <1>2, <2>1, <2>2 DEF FetchInv, IsJob
<1> QED BY <1>6, <1>8, <1>9, Zenon DEF Lineage

LEMMA LineageKept ==
    ASSUME TypeOK, Others, Lineage, Next
    PROVE  Lineage'
<1>1. CASE \E s \in Sessions : LilySpeaks(s) \/ LilyCloses(s) \/ Teardown(s)
  BY <1>1, LilyLineage
<1>2. CASE Look \/ \E g \in Clients : Drop(g)
  BY <1>2, AsideLineage
<1>3. CASE SubmitLogin \/ AnswerReconnect
  BY <1>3, UserLineage
<1>4. ASSUME NEW x \in cmds, Command(x) PROVE Lineage'
  <2>1. CASE \/ x.do = "resume" /\ Resume(x)
             \/ x.do = "login" /\ Reconnect(x)
             \/ x.do = "auth" /\ AttemptAuth(x)
    BY <2>1, AttemptLineage
  <2>2. CASE \/ x.do = "state" /\ RequestState(x)
             \/ x.do = "wait" /\ AnswerState(x)
             \/ x.do = "page" /\ FetchPage(x)
             \/ x.do \in {"loaded", "partly"} /\ Loaded(x)
    BY <2>2, FetchLineage
  <2>3. CASE x.do = "authed" /\ AuthFailed(x)
    BY <2>3, AuthFailedLineage
  <2>4. CASE x.do = "authed" /\ Adopt(x)
    BY <2>4, AdoptLineage
  <2> QED BY <1>4, <2>1, <2>2, <2>3, <2>4, Zenon DEF Command
<1>5. ASSUME NEW g \in Clients, Receive(g) \/ SocketClosed(g) PROVE Lineage'
  BY <1>5, ReceiveLineage, SocketClosedLineage
<1> QED BY <1>1, <1>2, <1>3, <1>4, <1>5, Zenon DEF Next, Runs, Hears

LEMMA InitLineage == Init => Lineage
<1> SUFFICES ASSUME Init PROVE Lineage
  OBVIOUS
<1>1. PICK n \in 0..1, k \in 0..1 :
         /\ k <= n
         /\ known = 1..n /\ lily = known
         /\ log = [s \in Sessions |-> IF s <= n THEN 1 ELSE 0]
         /\ seen = [s \in Sessions |-> IF s <= k THEN 1 ELSE 0]
         /\ \E resumed \in {0, n} :
              /\ sessionToken = resumed
              /\ tok = [g \in Clients |-> IF g = 1 THEN resumed ELSE 0]
              /\ sock = [g \in Clients |-> IF g = 1 /\ resumed > 0 THEN "up" ELSE "none"]
              /\ chan = [g \in Clients |-> IF g = 1 /\ resumed > k THEN <<1>> ELSE <<>>]
              /\ listening = [g \in Clients |-> IF g = 1 /\ resumed > 0 THEN 1 ELSE 0]
              /\ cmds = IF resumed > 0 THEN {[do |-> "state", c |-> 1]} ELSE {}
              /\ authMode = (resumed = 0)
  BY DEF Init
<1>2. PICK resumed \in {0, n} :
              /\ sessionToken = resumed
              /\ tok = [g \in Clients |-> IF g = 1 THEN resumed ELSE 0]
              /\ listening = [g \in Clients |-> IF g = 1 /\ resumed > 0 THEN 1 ELSE 0]
              /\ cmds = IF resumed > 0 THEN {[do |-> "state", c |-> 1]} ELSE {}
              /\ authMode = (resumed = 0)
  BY <1>1
<1>3. client = 1 /\ 1 \in Clients
  BY InitTypes, SessionTypes DEF Init
<1>4. \A x \in cmds : x.do = "state" /\ x.c = 1 /\ resumed > 0
  BY <1>2
<1>5. /\ tok[1] = resumed /\ (listening[1] > 0 => resumed > 0)
      /\ (authMode => resumed = 0) /\ 0 \notin known
  <2>1. authMode <=> resumed = 0
    BY <1>2, Zenon
  <2> QED BY <2>1, <1>1, <1>2, <1>3
<1>6. OrderInv
  <2>1. \A s \in Sessions : Begun(s) <=> s \in 1..n
    BY <1>1 DEF Begun, Sessions
  <2> QED BY <2>1, <1>1 DEF OrderInv, Sessions
<1>7. TokenInv
  BY <1>2, <1>3, <1>4, <1>5 DEF TokenInv, Onward, IsJob, JobKinds
<1>8. FetchInv
  BY <1>2, <1>3, <1>4, <1>5 DEF FetchInv, IsJob, JobKinds
<1> QED BY <1>6, <1>7, <1>8, Zenon DEF Lineage

\* What waits in a client's channel, and what of a session the output has.
InChan(g, i) == i \in Range(chan[g])
Processed(t, i) == t = sessionToken /\ i \in processedIDs

\* A message that was shown before this session's IDs were begun to be kept is below
\* every mark that a fetch or a replay of it starts from.
Earlier(t, i) == shown[t][i] > 0 /\ ~Processed(t, i)
Marked == {"page", "loaded", "partly"}
OldInv == \A t \in Sessions, i \in IDs : t >= sessionToken =>
    /\ shown[t][i] <= 1
    /\ Earlier(t, i) =>
         /\ i <= log[t] /\ i <= seen[t]
         /\ \A g \in Clients : tok[g] = t => ~InChan(g, i)
         /\ \A f \in cmds : f.do \in Marked /\ f.s = t => i <= f.mark

\* What is kept was shown, but for what a late answer of another session brought.
ProcessedInv ==
    /\ \A i \in processedIDs \ foreign : sessionToken # 0 /\ shown[sessionToken][i] > 0
    /\ fetchedFrom >= 0 => sessionToken # 0

\* A session that no client has read has its whole ring on the way to its socket.
Covered(g, s, i) == InChan(g, i) \/ (g = client /\ Processed(s, i))
RingInv == \A g \in Clients, s \in Sessions : Attached(g) /\ tok[g] = s /\ seen[s] = 0 =>
    \A i \in Ring(s) : Covered(g, s, i)

\* What a complete fetch did not bring comes by the socket.
LoadedInv == \A f \in cmds :
    f.do = "loaded" /\ f.c = client /\ Attached(client) /\ tok[client] = sessionToken =>
       \A i \in Ring(sessionToken) : i > f.upto => Covered(client, sessionToken, i)

Display == OldInv /\ ProcessedInv /\ RingInv /\ LoadedInv /\ NothingAfterTheMark

LEMMA DisplayTypes ==
    ASSUME TypeOK
    PROVE  /\ shown \in [Sessions -> [IDs -> 0..2]] /\ processedIDs \subseteq IDs
           /\ log \in [Sessions -> Nat] /\ seen \in [Sessions -> Nat]
           /\ chan \in [Clients -> Seq(IDs)] /\ sock \in [Clients -> {"none", "up", "down"}]
           /\ LastID \in Nat /\ IDs = 1..LastID /\ Sessions = 1..MaxSessions
           /\ \A s \in Sessions : Ring(s) \subseteq IDs
           /\ \A x \in cmds : x.do \in {"wait", "page", "loaded", "partly"} => x \in Fetch
<1>1. ProxyTypes /\ ClientTypes /\ CmdTypes /\ ViewTypes
  BY TypeParts
<1>2. LastID \in Nat
  BY LastIDIsLast
<1>3. \A s \in Sessions : Ring(s) \subseteq IDs
  <2> SUFFICES ASSUME NEW s \in Sessions PROVE Ring(s) \subseteq IDs
    OBVIOUS
  <2>1. PICK k \in 0..LastID : Ring(s) = 1..k
    BY <1>1, RingType
  <2> QED BY <2>1, <1>2 DEF IDs
<1>4. /\ shown \in [Sessions -> [IDs -> 0..2]] /\ processedIDs \subseteq IDs
      /\ log \in [Sessions -> Nat] /\ seen \in [Sessions -> Nat]
      /\ chan \in [Clients -> Seq(IDs)] /\ sock \in [Clients -> {"none", "up", "down"}]
  BY <1>1, <1>2 DEF ViewTypes, ProxyTypes, ClientTypes, LastIDs
<1> QED BY <1>1, <1>2, <1>3, <1>4, Kinds DEF IDs, Sessions

\* While the output stands still: nothing old comes again by a socket or a fetch.
LEMMA OldStays ==
    ASSUME TypeOK, OldInv, UNCHANGED shown,
           \A t \in Sessions, i \in IDs :
              t >= sessionToken' => t >= sessionToken /\ (Processed(t, i) => Processed(t, i)'),
           \A t \in Sessions : log'[t] >= log[t] /\ seen'[t] >= seen[t],
           \A t \in Sessions : log'[t] \in Nat /\ seen'[t] \in Nat,
           \A g \in Clients, i \in IDs : tok'[g] \in Sessions /\ InChan(g, i)' =>
              \/ tok[g] = tok'[g] /\ InChan(g, i)
              \/ i > log[tok'[g]] \/ seen[tok'[g]] = 0,
           \A f \in cmds' : f.do \in Marked =>
              \/ f.mark = seen[f.s]
              \/ \E y \in cmds : y.do \in Marked /\ y.s = f.s /\ y.mark = f.mark
    PROVE  OldInv'
<1>1. /\ log \in [Sessions -> Nat] /\ seen \in [Sessions -> Nat]
      /\ IDs = 1..LastID /\ LastID \in Nat
  BY DisplayTypes
<1>2. SUFFICES ASSUME NEW t \in Sessions, NEW i \in IDs, t >= sessionToken'
               PROVE  /\ shown[t][i] <= 1
                      /\ Earlier(t, i)' =>
                           /\ i <= log'[t] /\ i <= seen'[t]
                           /\ \A g \in Clients : tok'[g] = t => ~InChan(g, i)'
                           /\ \A f \in cmds' : f.do \in Marked /\ f.s = t => i <= f.mark
  BY DEF OldInv
<1>3. Earlier(t, i)' => Earlier(t, i)
  BY <1>2 DEF Earlier
<1>4. shown[t][i] <= 1 /\ (Earlier(t, i) =>
         /\ i <= log[t] /\ i <= seen[t]
         /\ \A g \in Clients : tok[g] = t => ~InChan(g, i)
         /\ \A f \in cmds : f.do \in Marked /\ f.s = t => i <= f.mark)
  BY <1>2 DEF OldInv
<1>5. ASSUME Earlier(t, i)
      PROVE  /\ i <= log'[t] /\ i <= seen'[t]
             /\ \A g \in Clients : tok'[g] = t => ~InChan(g, i)'
             /\ \A f \in cmds' : f.do \in Marked /\ f.s = t => i <= f.mark
  <2>1. i \in Nat \ {0} /\ i <= log[t] /\ i <= seen[t]
    BY <1>1, <1>4, <1>5
  <2>2. i <= log'[t] /\ i <= seen'[t]
    BY <1>1, <2>1
  <2>3. \A g \in Clients : tok'[g] = t => ~InChan(g, i)'
    BY <1>1, <1>4, <1>5, <2>1
  <2>4. \A f \in cmds' : f.do \in Marked /\ f.s = t => i <= f.mark
    BY <1>4, <1>5, <2>1
  <2> QED BY <2>2, <2>3, <2>4
<1> QED BY <1>3, <1>4, <1>5

\* While nothing is put in the output: sockets that stay lose nothing of the ring.
LEMMA CoverStays ==
    ASSUME TypeOK, Lineage, RingInv, LoadedInv, ProcessedInv, NothingAfterTheMark,
           UNCHANGED <<shown, processedIDs, sessionToken, client, fetchedFrom, fetchedTo, foreign, tok>>,
           \A t \in Sessions : seen'[t] >= seen[t] /\ seen'[t] \in Nat,
           \A g \in Clients : Attached(g)' => Attached(g),
           \A g \in Clients, s \in Sessions : Attached(g)' /\ tok[g] = s =>
              \A i \in Ring(s)' : \/ InChan(g, i)'
                                  \/ i \in Ring(s) /\ ~InChan(g, i),
           \A f \in cmds' : f.do = "loaded" =>
              \/ f \in cmds
              \/ f.c = client /\ Attached(client) /\ tok[client] = sessionToken =>
                   /\ sessionToken # 0
                   /\ \A i \in Ring(sessionToken) : i > f.upto => Covered(client, sessionToken, i)
    PROVE  ProcessedInv' /\ RingInv' /\ LoadedInv' /\ NothingAfterTheMark'
<1>1. ProcessedInv'
  BY DEF ProcessedInv
<1>2. /\ seen \in [Sessions -> Nat] /\ client \in Clients
      /\ sessionToken # 0 => sessionToken \in Sessions
  BY DisplayTypes, SessionTypes
<1>3. RingInv'
  <2> SUFFICES ASSUME NEW g \in Clients, NEW s \in Sessions, Attached(g)', tok[g] = s,
                      seen'[s] = 0, NEW i \in Ring(s)'
               PROVE  Covered(g, s, i)'
    BY DEF RingInv
  <2>1. CASE InChan(g, i)'
    BY <2>1 DEF Covered
  <2>2. CASE i \in Ring(s) /\ ~InChan(g, i)
    <3>1. seen[s] = 0
      BY <1>2
    <3>2. Covered(g, s, i)
      BY <2>2, <3>1 DEF RingInv
    <3> QED BY <2>2, <3>2 DEF Covered, Processed
  <2> QED BY <2>1, <2>2
<1>4. ASSUME Attached(client)', tok[client] = sessionToken, sessionToken # 0,
             NEW i \in Ring(sessionToken)', ~InChan(client, i)'
      PROVE  /\ Attached(client) /\ i \in Ring(sessionToken) /\ ~InChan(client, i)
  <2>1. sessionToken \in Sessions /\ i \in Ring(sessionToken)'
    BY <1>2, <1>4
  <2>2. \A s \in Sessions : sessionToken = s => i \in Ring(s)'
    BY <2>1 DEF Ring
  <2> QED BY <1>2, <1>4, <2>1, <2>2
<1>5. LoadedInv'
  <2> SUFFICES ASSUME NEW f \in cmds', f.do = "loaded", f.c = client, Attached(client)',
                      tok[client] = sessionToken,
                      NEW i \in Ring(sessionToken)', i > f.upto, ~InChan(client, i)'
               PROVE  Processed(sessionToken, i)'
    BY DEF LoadedInv, Covered
  <2>1. Attached(client)
    BY <1>2
  <2>2. sessionToken # 0
    <3>1. CASE f \in cmds
      <4>1. tok[f.c] # 0
        BY <3>1 DEF Lineage, FetchInv, IsJob, JobKinds
      <4> QED BY <4>1
    <3>2. CASE f \notin cmds
      BY <2>1, <3>2
    <3> QED BY <3>1, <3>2
  <2>3. i \in Ring(sessionToken) /\ ~InChan(client, i)
    BY <1>4, <2>2
  <2>4. Covered(client, sessionToken, i)
    BY <2>1, <2>3 DEF LoadedInv
  <2> QED BY <2>3, <2>4 DEF Covered, Processed
<1>6. NothingAfterTheMark'
  <2> SUFFICES ASSUME fetchedFrom >= 0, Attached(client)', tok[client] = sessionToken,
                      NEW i \in Ring(sessionToken)', i > fetchedFrom, i <= fetchedTo,
                      i \notin foreign, ~InChan(client, i)'
               PROVE  shown[sessionToken][i] > 0
    BY DEF NothingAfterTheMark, InChan, Range
  <2>1. sessionToken # 0
    BY DEF ProcessedInv
  <2>2. Attached(client) /\ i \in Ring(sessionToken) /\ ~InChan(client, i)
    BY <1>4, <2>1
  <2> QED BY <2>2 DEF NothingAfterTheMark, InChan, Range
<1> QED BY <1>1, <1>3, <1>5, <1>6

\* A new message joins the end of every channel of its session.
LEMMA PublishDisplay ==
    ASSUME TypeOK, Lineage, Display, NEW s \in Sessions,
           LilySpeaks(s) \/ LilyCloses(s) \/ Teardown(s)
    PROVE  Display'
<1>1. OldInv /\ ProcessedInv /\ RingInv /\ LoadedInv /\ NothingAfterTheMark
  BY Zenon DEF Display
<1>2. /\ log \in [Sessions -> Nat] /\ seen \in [Sessions -> Nat]
      /\ chan \in [Clients -> Seq(IDs)]
  BY DisplayTypes
<1>3. UNCHANGED <<shown, processedIDs, sessionToken, client, fetchedFrom, fetchedTo, foreign, tok, sock,
                  cmds, seen>>
  BY DEF LilySpeaks, LilyCloses, Teardown, login, view, history, clients
<1>4. /\ \A t \in Sessions : log'[t] >= log[t] /\ log'[t] \in Nat
      /\ \A t \in Sessions : \A i \in Ring(t)' : i \in Ring(t) \/ (t = s /\ i = log[s] + 1)
      /\ \A g \in Clients :
            \/ /\ UNCHANGED chan[g]
               /\ Attached(g) /\ tok[g] = s => UNCHANGED log[s]
            \/ tok[g] = s /\ Range(chan'[g]) = Range(chan[g]) \cup {log[s] + 1}
  <2>1. CASE LilySpeaks(s) \/ LilyCloses(s)
    <3>1. Publish(s) /\ s \in lily /\ lily' \in {lily, lily \ {s}}
      BY <2>1 DEF LilySpeaks, LilyCloses
    <3>2. \A t \in Sessions : log'[t] = IF t = s THEN log[s] + 1 ELSE log[t]
      BY <1>2, <3>1 DEF Publish
    <3>3. \A t \in Sessions : \A i \in Ring(t)' : i \in Ring(t) \/ (t = s /\ i = log[s] + 1)
      <4> SUFFICES ASSUME NEW t \in Sessions, NEW i \in Ring(t)'
                   PROVE  i \in Ring(t) \/ (t = s /\ i = log[s] + 1)
        OBVIOUS
      <4>1. CASE t = s
        <5>1. Ring(s) = 1..log[s] /\ log[s] \in Nat /\ log'[s] = log[s] + 1
          BY <1>2, <3>1, <3>2 DEF Ring
        <5>2. Ring(s)' = 1..(log[s] + 1) \/ Ring(s)' = 1..(log[s] + 1 - 1)
          BY <5>1 DEF Ring
        <5> QED BY <4>1, <5>1, <5>2
      <4>2. CASE t # s
        <5>1. log'[t] = log[t] /\ (t \in lily' <=> t \in lily)
          BY <3>1, <3>2, <4>2
        <5> QED BY <5>1 DEF Ring
      <4> QED BY <4>1, <4>2
    <3>4. \A g \in Clients : chan'[g] =
             IF Attached(g) /\ tok[g] = s THEN Append(chan[g], log[s] + 1) ELSE chan[g]
      BY <3>1 DEF Publish
    <3>5. \A g \in Clients : Range(Append(chan[g], log[s] + 1)) = Range(chan[g]) \cup {log[s] + 1}
      <4> SUFFICES ASSUME NEW g \in Clients
                   PROVE  Range(Append(chan[g], log[s] + 1)) = Range(chan[g]) \cup {log[s] + 1}
        OBVIOUS
      <4>1. chan[g] \in Seq(Int)
        <5>1. chan[g] \in Seq(IDs) /\ IDs \subseteq Int
          BY <1>2, DisplayTypes
        <5>2. Len(chan[g]) \in Nat /\ chan[g] \in [1..Len(chan[g]) -> IDs]
          BY <5>1
        <5>3. chan[g] \in [1..Len(chan[g]) -> Int]
          BY <5>1, <5>2
        <5> QED BY <5>2, <5>3
      <4>2. log[s] + 1 \in Int
        BY <1>2
      <4> QED BY <4>1, <4>2, RangeAppend
    <3>6. \A t \in Sessions : log'[t] >= log[t] /\ log'[t] \in Nat
      BY <1>2, <3>2
    <3>7. \A g \in Clients :
            \/ /\ UNCHANGED chan[g]
               /\ Attached(g) /\ tok[g] = s => UNCHANGED log[s]
            \/ tok[g] = s /\ Range(chan'[g]) = Range(chan[g]) \cup {log[s] + 1}
      BY <3>4, <3>5
    <3> QED BY <3>3, <3>6, <3>7
  <2>2. CASE Teardown(s)
    <3>1. UNCHANGED <<log, lily, chan>>
      BY <2>2 DEF Teardown, clients
    <3> QED BY <1>2, <3>1 DEF Ring
  <2> QED BY <2>1, <2>2
<1>5. \A g \in Clients, i \in IDs : InChan(g, i)' => InChan(g, i) \/ (i = log[s] + 1 /\ tok[g] = s)
  BY <1>4 DEF InChan
<1>6. \A g \in Clients : \A i : InChan(g, i) => InChan(g, i)'
  BY <1>4 DEF InChan
<1>7. \A g \in Clients, t \in Sessions : Attached(g)' /\ tok[g] = t =>
         \A i \in Ring(t)' : \/ InChan(g, i)'
                             \/ i \in Ring(t) /\ ~InChan(g, i)
  <2> SUFFICES ASSUME NEW g \in Clients, NEW t \in Sessions, Attached(g)', tok[g] = t,
                      NEW i \in Ring(t)', i \notin Ring(t)
               PROVE  InChan(g, i)'
    BY <1>6
  <2>1. t = s /\ i = log[s] + 1
    BY <1>4
  <2>2. log'[s] # log[s]
    <3>1. log'[s] = log[s] => Ring(s)' \subseteq Ring(s)
      BY <1>2 DEF Ring, LilySpeaks, LilyCloses, Teardown, Publish
    <3> QED BY <2>1, <3>1
  <2>3. Range(chan'[g]) = Range(chan[g]) \cup {log[s] + 1}
    BY <1>3, <1>4, <2>1, <2>2 DEF Attached
  <2> QED BY <2>1, <2>3 DEF InChan
<1>8. OldInv'
  <2>1. \A g \in Clients, i \in IDs : tok'[g] \in Sessions /\ InChan(g, i)' =>
              \/ tok[g] = tok'[g] /\ InChan(g, i)
              \/ i > log[tok'[g]] \/ seen[tok'[g]] = 0
    BY <1>2, <1>3, <1>5
  <2>2. \A t \in Sessions, i \in IDs :
              t >= sessionToken' => t >= sessionToken /\ (Processed(t, i) => Processed(t, i)')
    BY <1>3 DEF Processed
  <2>3. \A t \in Sessions : /\ log'[t] >= log[t] /\ seen'[t] >= seen[t]
                            /\ log'[t] \in Nat /\ seen'[t] \in Nat
    BY <1>2, <1>3, <1>4
  <2> QED BY <1>1, <1>3, <2>1, <2>2, <2>3, OldStays
<1>9. ProcessedInv' /\ RingInv' /\ LoadedInv' /\ NothingAfterTheMark'
  <2>1. \A g \in Clients : Attached(g)' => Attached(g)
    BY <1>3 DEF Attached
  <2>2. \A t \in Sessions : seen'[t] >= seen[t] /\ seen'[t] \in Nat
    BY <1>2, <1>3
  <2> QED BY <1>1, <1>3, <1>7, <2>1, <2>2, CoverStays
<1> QED BY <1>8, <1>9, Zenon DEF Display

\* Steps that touch neither a socket nor the output.
LEMMA StillDisplay ==
    ASSUME TypeOK, Lineage, Display,
           UNCHANGED <<shown, processedIDs, sessionToken, client, fetchedFrom, fetchedTo, foreign, tok,
                       sock, chan, log, lily>>,
           \A t \in Sessions : seen'[t] >= seen[t] /\ seen'[t] \in Nat,
           \A f \in cmds' : f.do \in Marked =>
              \/ f.mark = seen[f.s]
              \/ \E y \in cmds : y.do \in Marked /\ y.s = f.s /\ y.mark = f.mark,
           \A f \in cmds' : f.do = "loaded" =>
              \/ f \in cmds
              \/ f.c = client /\ Attached(client) /\ tok[client] = sessionToken =>
                   /\ sessionToken # 0
                   /\ \A i \in Ring(sessionToken) : i > f.upto => Covered(client, sessionToken, i)
    PROVE  Display'
<1>1. OldInv /\ ProcessedInv /\ RingInv /\ LoadedInv /\ NothingAfterTheMark
  BY Zenon DEF Display
<1>2. \A t \in Sessions : log[t] \in Nat /\ log'[t] >= log[t] /\ log'[t] \in Nat
  BY DisplayTypes
<1>3. OldInv'
  <2>1. \A g \in Clients, i \in IDs : tok'[g] \in Sessions /\ InChan(g, i)' =>
              \/ tok[g] = tok'[g] /\ InChan(g, i)
              \/ i > log[tok'[g]] \/ seen[tok'[g]] = 0
    BY DEF InChan
  <2>2. \A t \in Sessions, i \in IDs :
              t >= sessionToken' => t >= sessionToken /\ (Processed(t, i) => Processed(t, i)')
    BY DEF Processed
  <2> QED BY <1>1, <1>2, <2>1, <2>2, OldStays
<1>4. ProcessedInv' /\ RingInv' /\ LoadedInv' /\ NothingAfterTheMark'
  <2>1. \A g \in Clients : Attached(g)' => Attached(g)
    BY DEF Attached
  <2>2. \A g \in Clients, s \in Sessions : Attached(g)' /\ tok[g] = s =>
           \A i \in Ring(s)' : \/ InChan(g, i)'
                               \/ i \in Ring(s) /\ ~InChan(g, i)
    BY DEF Ring, InChan
  <2> QED BY <1>1, <2>1, <2>2, CoverStays
<1> QED BY <1>3, <1>4, Zenon DEF Display

\* What a lost socket had not delivered does not count for anything.
LEMMA DropDisplay ==
    ASSUME TypeOK, Lineage, Display, NEW g \in Clients, Drop(g)
    PROVE  Display'
<1>1. OldInv /\ ProcessedInv /\ RingInv /\ LoadedInv /\ NothingAfterTheMark
  BY Zenon DEF Display
<1>2. /\ UNCHANGED <<shown, processedIDs, sessionToken, client, fetchedFrom, fetchedTo, foreign, tok,
                     cmds, log, lily, seen>>
      /\ sock' = [sock EXCEPT ![g] = "down"]
      /\ \E n \in 0..Len(chan[g]) : chan' = [chan EXCEPT ![g] = SubSeq(@, 1, n)]
  BY DEF Drop, proxy, login, view, history
<1>3. chan \in [Clients -> Seq(IDs)] /\ sock \in [Clients -> {"none", "up", "down"}]
      /\ log \in [Sessions -> Nat] /\ seen \in [Sessions -> Nat]
  BY DisplayTypes
<1>4. PICK n \in 0..Len(chan[g]) : chan' = [chan EXCEPT ![g] = SubSeq(@, 1, n)]
  BY <1>2
<1>5. \A x \in Clients : UNCHANGED chan[x] \/ (x = g /\ ~Attached(x)')
  BY <1>2, <1>3, <1>4 DEF Attached
<1>6. \A x \in Clients, i \in IDs : InChan(x, i)' => InChan(x, i)
  <2>1. Range(SubSeq(chan[g], 1, n)) \subseteq Range(chan[g])
    <3>1. chan[g] \in Seq(IDs)
      BY <1>3
    <3> QED BY <3>1 DEF Range
  <2> QED BY <1>3, <1>4, <2>1 DEF InChan
<1>7. \A t \in Sessions : /\ log'[t] >= log[t] /\ log'[t] \in Nat
                          /\ seen'[t] >= seen[t] /\ seen'[t] \in Nat
  BY <1>2, <1>3
<1>8. OldInv'
  <2>1. \A x \in Clients, i \in IDs : tok'[x] \in Sessions /\ InChan(x, i)' =>
              \/ tok[x] = tok'[x] /\ InChan(x, i)
              \/ i > log[tok'[x]] \/ seen[tok'[x]] = 0
    BY <1>2, <1>6
  <2>2. \A t \in Sessions, i \in IDs :
              t >= sessionToken' => t >= sessionToken /\ (Processed(t, i) => Processed(t, i)')
    BY <1>2 DEF Processed
  <2> QED BY <1>1, <1>2, <1>7, <2>1, <2>2, OldStays
<1>9. ProcessedInv' /\ RingInv' /\ LoadedInv' /\ NothingAfterTheMark'
  <2>1. \A x \in Clients : Attached(x)' => Attached(x)
    BY <1>2, <1>3 DEF Attached
  <2>2. \A x \in Clients, s \in Sessions : Attached(x)' /\ tok[x] = s =>
           \A i \in Ring(s)' : \/ InChan(x, i)'
                               \/ i \in Ring(s) /\ ~InChan(x, i)
    BY <1>2, <1>5 DEF Ring, InChan
  <2> QED BY <1>1, <1>2, <1>7, <2>1, <2>2, CoverStays
<1> QED BY <1>8, <1>9, Zenon DEF Display

LEMMA ReportGrows ==
    ASSUME TypeOK, NEW id \in Nat, NEW ok, Report(ok, id)
    PROVE  \A t \in Sessions : seen'[t] >= seen[t] /\ seen'[t] \in Nat
<1>1. seen \in [Sessions -> Nat] /\ known \subseteq Sessions
  BY DisplayTypes, SessionTypes
<1>2. CASE ok /\ tok[client] \in known
  <2>1. seen' = [seen EXCEPT ![tok[client]] = Larger(seen[tok[client]], id)]
    BY <1>2 DEF Report
  <2>2. tok[client] \in Sessions
    BY <1>1, <1>2
  <2>3. Larger(seen[tok[client]], id) \in Nat /\ Larger(seen[tok[client]], id) >= seen[tok[client]]
    BY <1>1, <2>2 DEF Larger
  <2> QED BY <1>1, <2>1, <2>2, <2>3
<1>3. CASE ~(ok /\ tok[client] \in known)
  BY <1>1, <1>3 DEF Report
<1> QED BY <1>2, <1>3

LEMMA LookDisplay ==
    ASSUME TypeOK, Lineage, Display, Look
    PROVE  Display'
<1>1. UNCHANGED <<shown, processedIDs, sessionToken, client, fetchedFrom, fetchedTo, foreign, tok,
                  sock, chan, log, lily, cmds>>
  BY DEF Look, clients, login, history
<1>2. top \in Nat
  BY LastIDIsLast DEF TypeOK
<1>3. \A t \in Sessions : seen'[t] >= seen[t] /\ seen'[t] \in Nat
  BY <1>2, ReportGrows DEF Look, Advance
<1> QED BY <1>1, <1>3, StillDisplay

\* An attempt begins, or a listener stops.
LEMMA BeginsDisplay ==
    ASSUME TypeOK, Lineage, Display,
           SubmitLogin \/ AnswerReconnect \/ \E g \in Clients : SocketClosed(g)
    PROVE  Display'
<1>1. UNCHANGED <<shown, processedIDs, sessionToken, client, fetchedFrom, fetchedTo, foreign, tok,
                  sock, chan, log, lily, seen>>
  BY DEF SubmitLogin, AnswerReconnect, SocketClosed, proxy, clients, history, view
<1>2. \A f \in cmds' : f \in cmds \/ f.do \notin Marked
  BY DEF SubmitLogin, AnswerReconnect, SocketClosed, ReconnectNow, Marked
<1>3. \A t \in Sessions : seen'[t] >= seen[t] /\ seen'[t] \in Nat
  BY <1>1, DisplayTypes
<1>4. "loaded" \in Marked
  BY DEF Marked
<1> QED BY <1>1, <1>2, <1>3, <1>4, StillDisplay

\* A fetch asks for its state, gets it, and pages on.
LEMMA FetchDisplay ==
    ASSUME TypeOK, Lineage, Display, NEW f \in cmds,
           \/ f.do = "state" /\ RequestState(f)
           \/ f.do = "wait" /\ AnswerState(f)
           \/ f.do = "page" /\ FetchPage(f)
    PROVE  Display'
<1>1. UNCHANGED <<shown, processedIDs, sessionToken, client, fetchedFrom, fetchedTo, foreign, tok,
                  sock, chan, log, lily, seen>>
  BY DEF RequestState, AnswerState, FetchPage, proxy, clients, login, history, view
<1>2. \A t \in Sessions : seen'[t] >= seen[t] /\ seen'[t] \in Nat
  BY <1>1, DisplayTypes
<1>3. f.do \in {"wait", "page"} => f \in Fetch /\ f.s = tok[f.c]
  BY DisplayTypes DEF Lineage, FetchInv, IsJob, JobKinds
<1>4. \A d \in {"page", "loaded", "partly"}, u \in Int, m \in Int : f.do \in {"wait", "page"} =>
         LET x == [f EXCEPT !.do = d, !.mark = m, !.upto = u] IN
         /\ x.do = d /\ x.c = f.c /\ x.s = f.s /\ x.mark = m /\ x.upto = u
  BY <1>3 DEF Fetch
<1>5. CASE f.do = "state" /\ RequestState(f)
  <2>1. \A x \in cmds' : x \in cmds \/ x.do = "wait"
    BY <1>5 DEF RequestState, Results
  <2> QED BY <1>1, <1>2, <2>1, StillDisplay DEF Marked
<1>6. CASE f.do = "wait" /\ AnswerState(f)
  <2>1. f \in Fetch /\ f.s = tok[f.c] /\ f.s \in Sessions /\ seen[f.s] \in Nat
    BY <1>2, <1>3, <1>6, DisplayTypes DEF Fetch
  <2>2. PICK x : /\ Results(f, {x}) /\ x.c = f.c /\ x.s = f.s /\ x.mark = seen[f.s]
                 /\ x.upto = seen[f.s]
                 /\ x.do = IF seen[f.s] > 0 THEN "page" ELSE "loaded"
    <3> DEFINE x == [f EXCEPT !.do = IF seen[f.s] > 0 THEN "page" ELSE "loaded",
                              !.mark = seen[f.s], !.upto = seen[f.s]]
    <3>1. Results(f, {x})
      BY <1>6 DEF AnswerState
    <3>2. /\ x.c = f.c /\ x.s = f.s /\ x.mark = seen[f.s] /\ x.upto = seen[f.s]
          /\ x.do = IF seen[f.s] > 0 THEN "page" ELSE "loaded"
      BY <2>1 DEF Fetch
    <3> HIDE DEF x
    <3> QED BY <3>1, <3>2
  <2>3. \A y \in cmds' : y \in cmds \/ y = x
    BY <2>2 DEF Results
  <2>4. ASSUME x.do = "loaded", x.c = client, Attached(client), tok[client] = sessionToken
        PROVE  /\ sessionToken # 0
               /\ \A i \in Ring(sessionToken) : Covered(client, sessionToken, i)
    <3>1. seen[f.s] = 0 /\ f.s = sessionToken /\ client \in Clients
      BY <2>1, <2>2, <2>4, SessionTypes
    <3>2. sessionToken \in Sessions /\ sessionToken # 0
      BY <2>1, <3>1 DEF Sessions
    <3> QED BY <2>4, <3>1, <3>2 DEF Display, RingInv
  <2>5. \A y \in cmds' : y.do \in Marked =>
              \/ y.mark = seen[y.s]
              \/ \E z \in cmds : z.do \in Marked /\ z.s = y.s /\ z.mark = y.mark
    BY <2>2, <2>3
  <2> QED BY <1>1, <1>2, <2>3, <2>4, <2>5, StillDisplay
<1>7. CASE f.do = "page" /\ FetchPage(f)
  <2>1. f \in Fetch /\ f.s = tok[f.c] /\ f.s \in Sessions /\ f.upto \in Nat /\ f.mark \in Nat
    BY <1>3, <1>7 DEF Fetch
  <2>2. PICK k \in 0..LastID : Ring(f.s) = 1..k
    BY <2>1, RingType, TypeParts
  <2> DEFINE n == Cardinality({i \in Ring(f.s) : i > f.upto})
  <2>3. n = IF f.upto < k THEN k - f.upto ELSE 0
    <3>1. k \in Int
      BY LastIDIsLast
    <3> QED BY <2>1, <2>2, <3>1, CountAbove
  <2>4. PICK x : /\ Results(f, {x}) /\ x.c = f.c /\ x.s = f.s /\ x.mark = f.mark
                 /\ x.do = "loaded" => \A i \in Ring(f.s) : ~(i > x.upto)
    <3>1. CASE Results(f, {[f EXCEPT !.do = IF n > PageLimit THEN "page" ELSE "loaded",
                                     !.upto = IF n > PageLimit THEN @ + PageLimit ELSE @ + n]})
      <4> DEFINE x == [f EXCEPT !.do = IF n > PageLimit THEN "page" ELSE "loaded",
                                !.upto = IF n > PageLimit THEN @ + PageLimit ELSE @ + n]
      <4> HIDE DEF n
      <4>1. /\ x.c = f.c /\ x.s = f.s /\ x.mark = f.mark
            /\ x.do = "loaded" => x.upto = f.upto + n
        BY <2>1 DEF Fetch
      <4>2. x.upto = f.upto + n => \A i \in Ring(f.s) : ~(i > x.upto)
        BY <2>1, <2>2, <2>3, LastIDIsLast
      <4>3. Results(f, {x})
        BY <3>1
      <4> HIDE DEF x
      <4> QED BY <4>1, <4>2, <4>3
    <3>2. CASE Results(f, {[f EXCEPT !.do = "partly"]})
      <4> DEFINE x == [f EXCEPT !.do = "partly"]
      <4>1. x.c = f.c /\ x.s = f.s /\ x.mark = f.mark /\ x.do = "partly"
        BY <2>1 DEF Fetch
      <4>2. Results(f, {x})
        BY <3>2
      <4> HIDE DEF x
      <4> QED BY <4>1, <4>2
    <3> QED BY <1>7, <3>1, <3>2 DEF FetchPage
  <2>5. \A y \in cmds' : y \in cmds \/ y = x
    BY <2>4 DEF Results
  <2>6. \A y \in cmds' : y.do \in Marked =>
              \/ y.mark = seen[y.s]
              \/ \E z \in cmds : z.do \in Marked /\ z.s = y.s /\ z.mark = y.mark
    BY <1>7, <2>4, <2>5 DEF Marked
  <2>7. x.do = "loaded" /\ x.c = client /\ tok[client] = sessionToken =>
           /\ sessionToken # 0
           /\ \A i \in Ring(sessionToken) : ~(i > x.upto)
    BY <2>1, <2>4 DEF Sessions
  <2> HIDE DEF n
  <2> QED BY <1>1, <1>2, <2>5, <2>6, <2>7, StillDisplay
<1> QED BY <1>5, <1>6, <1>7

\* An attempt that moves on closes its client; the client it goes on with has no
\* message of the session, or the whole of its ring.
LEMMA AttemptDisplay ==
    ASSUME TypeOK, Others, Lineage, Display, NEW j \in cmds,
           \/ j.do = "resume" /\ Resume(j)
           \/ j.do = "login" /\ Reconnect(j)
           \/ j.do = "auth" /\ AttemptAuth(j)
    PROVE  Display'
<1>1. OldInv /\ ProcessedInv /\ RingInv /\ LoadedInv /\ NothingAfterTheMark
  BY Zenon DEF Display
<1>2. PICK g \in Clients, t \in 0..MaxSessions, p \in BOOLEAN, up \in BOOLEAN :
              \E r : Moving(j, g, t, p, up, r)
  BY AttemptMoves
<1>3. PICK r : Moving(j, g, t, p, up, r)
  BY <1>2
<1>4. UNCHANGED <<shown, processedIDs, sessionToken, client, fetchedFrom, fetchedTo, foreign, log, seen,
                  authMode>>
  BY AttemptMoves DEF login, view, history
<1>5. /\ log \in [Sessions -> Nat] /\ seen \in [Sessions -> Nat]
      /\ chan \in [Clients -> Seq(IDs)] /\ sock \in [Clients -> {"none", "up", "down"}]
      /\ Sessions = 1..MaxSessions /\ MaxSessions \in Nat
      /\ tok \in [Clients -> 0..MaxSessions] /\ j.c \in Clients /\ client \in Clients
      /\ sessionToken \in 0..MaxSessions
  BY DisplayTypes, SessionTypes
<1>6. /\ tok' = [x \in Clients |-> IF x = g THEN t ELSE IF Unused(x) THEN 0 ELSE tok[x]]
      /\ sock' = [x \in Clients |-> IF x = g THEN (IF up THEN "up" ELSE "none")
                   ELSE IF Unused(x) THEN "none" ELSE IF x = j.c THEN Closed(j.c) ELSE sock[x]]
      /\ chan' = [chan EXCEPT ![j.c] = IF listening[j.c] > 0 THEN @ ELSE <<>>,
                              ![g] = IF up THEN Replayed(t) ELSE <<>>]
  BY <1>3, Zenon DEF Moving, Replace
<1>7. \A x \in Clients : x # g => chan'[x] = chan[x] \/ chan'[x] = <<>>
  BY <1>5, <1>6
<1>8. chan'[g] = IF up THEN Replayed(t) ELSE <<>>
  BY <1>5, <1>6
<1>9. \A x \in Clients : Attached(x)' => x = g /\ up
  <2>1. IsJob(j)
    BY DEF IsJob, JobKinds
  <2>2. \A x \in Clients : sock[x] = "up" => x = j.c
    BY <2>1 DEF Others, SocketInv, Attached
  <2>3. Closed(j.c) # "up"
    BY <2>2 DEF Closed, Attached
  <2> QED BY <1>5, <1>6, <2>2, <2>3 DEF Attached
<1>10. up => t \in known' /\ t \in Sessions
  <2>1. known' \subseteq Sessions
    BY <1>3, SessionTypes DEF Moving, Opened, Opens
  <2> QED BY <1>3, <2>1 DEF Moving
<1>11. \A s \in Sessions : Ring(s)' = Ring(s)
  <2> SUFFICES ASSUME NEW s \in Sessions PROVE Ring(s)' = Ring(s)
    OBVIOUS
  <2>1. CASE s \in lily' <=> s \in lily
    BY <1>4, <2>1 DEF Ring
  <2>2. CASE ~(s \in lily' <=> s \in lily)
    <3>1. PICK n \in Sessions : /\ known = {} /\ log[n] = 0 /\ lily' = {n}
      BY <1>3, <2>2 DEF Moving, Opened, Opens
    <3>2. s = n
      BY <2>2, <3>1, SessionTypes
    <3> QED BY <1>4, <3>1, <3>2 DEF Ring
  <2> QED BY <2>1, <2>2
<1>12. client = g => authMode
  BY <1>3 DEF Moving, Unused
<1>13. OldInv'
  <2>1. \A x \in Clients, i \in IDs : tok'[x] \in Sessions /\ InChan(x, i)' =>
              \/ tok[x] = tok'[x] /\ InChan(x, i)
              \/ i > log[tok'[x]] \/ seen[tok'[x]] = 0
    <3> SUFFICES ASSUME NEW x \in Clients, NEW i \in IDs, tok'[x] \in Sessions, InChan(x, i)'
                 PROVE  (tok[x] = tok'[x] /\ InChan(x, i)) \/ seen[tok'[x]] = 0
      OBVIOUS
    <3>1. Range(<<>>) = {}
      BY RangeEmpty
    <3>2. CASE x = g
      <4>1. up /\ chan'[g] = Replayed(t) /\ tok'[g] = t
        BY <1>6, <1>8, <3>1, <3>2 DEF InChan
      <4>2. seen[t] # 0 => Replayed(t) = <<>>
        BY DEF Replayed
      <4> QED BY <3>1, <3>2, <4>1, <4>2 DEF InChan
    <3>3. CASE x # g
      <4>1. chan'[x] = chan[x]
        BY <1>7, <3>1, <3>3 DEF InChan
      <4>2. tok'[x] = tok[x]
        BY <1>5, <1>6, <3>3
      <4> QED BY <4>1, <4>2 DEF InChan
    <3> QED BY <3>2, <3>3
  <2>2. \A y \in cmds' : y \in cmds \/ y.do \notin Marked
    BY <1>3 DEF Moving, Results, Marked
  <2>3. \A s \in Sessions : /\ log'[s] >= log[s] /\ log'[s] \in Nat
                            /\ seen'[s] >= seen[s] /\ seen'[s] \in Nat
    BY <1>4, <1>5
  <2>4. \A s \in Sessions, i \in IDs :
              s >= sessionToken' => s >= sessionToken /\ (Processed(s, i) => Processed(s, i)')
    BY <1>4 DEF Processed
  <2> QED BY <1>1, <1>4, <2>1, <2>2, <2>3, <2>4, OldStays
<1>14. ProcessedInv'
  BY <1>1, <1>4 DEF ProcessedInv
<1>15. RingInv'
  <2> SUFFICES ASSUME NEW s \in Sessions, up, tok'[g] = s, seen'[s] = 0, NEW i \in Ring(s)'
               PROVE  InChan(g, i)'
    BY <1>9 DEF RingInv, Covered
  <2>1. s = t /\ seen[t] = 0 /\ i \in Ring(t)
    BY <1>4, <1>5, <1>6, <1>11
  <2>2. chan'[g] = [e \in Ring(t) |-> e]
    BY <1>8, <2>1 DEF Replayed
  <2> QED BY <2>1, <2>2 DEF InChan, Range
<1>16. LoadedInv'
  <2> SUFFICES ASSUME NEW f \in cmds', f.do = "loaded", f.c = client, Attached(client)'
               PROVE  FALSE
    BY <1>4 DEF LoadedInv
  <2>1. authMode
    BY <1>4, <1>5, <1>9, <1>12 DEF Attached
  <2>2. f \in cmds /\ ~IsJob(f)
    BY <1>3 DEF Moving, Results, IsJob, JobKinds
  <2> QED BY <2>1, <2>2 DEF Lineage, FetchInv
<1>17. NothingAfterTheMark'
  <2> SUFFICES ASSUME Attached(client)', tok'[client] = sessionToken PROVE FALSE
    BY <1>4 DEF NothingAfterTheMark
  <2>1. client = g /\ up /\ authMode
    BY <1>4, <1>5, <1>9, <1>12 DEF Attached
  <2>2. sessionToken \in known'
    BY <1>5, <1>6, <1>10, <2>1
  <2>3. Lineage'
    BY AttemptLineage
  <2> QED BY <1>4, <2>1, <2>2, <2>3 DEF Lineage, TokenInv
<1> QED BY <1>13, <1>14, <1>15, <1>16, <1>17, Zenon DEF Display

\* An attempt that failed leaves no socket.
LEMMA AuthFailedDisplay ==
    ASSUME TypeOK, Others, Lineage, Display, NEW r \in cmds, r.do = "authed", AuthFailed(r)
    PROVE  Display'
<1>1. OldInv /\ ProcessedInv
  BY Zenon DEF Display
<1>2. UNCHANGED <<shown, processedIDs, sessionToken, fetchedFrom, fetchedTo, foreign, tok, sock, chan,
                  log, seen>> /\ client' = r.c
  BY DEF AuthFailed, proxy, clients, history, view
<1>3. \A g \in Clients : ~Attached(g)
  <2>1. IsJob(r) /\ sock[r.c] # "up"
    BY DEF Others, JobInv, AuthFailed, IsJob, JobKinds
  <2> QED BY <2>1 DEF Others, SocketInv, Attached
<1>4. \A g \in Clients : ~Attached(g)'
  BY <1>2, <1>3 DEF Attached
<1>5. ~Attached(client)'
  <2>1. r.c \in Clients
    BY SessionTypes
  <2> QED BY <1>2, <1>4, <2>1 DEF Attached
<1>6. OldInv'
  <2>1. \A t \in Sessions : log[t] \in Nat /\ seen[t] \in Nat
    BY DisplayTypes
  <2>2. \A f \in cmds' : f \in cmds \/ f.do \notin Marked
    BY DEF AuthFailed, Results, ReconnectNow, Marked
  <2>3. \A g \in Clients, i \in IDs : tok'[g] \in Sessions /\ InChan(g, i)' =>
              \/ tok[g] = tok'[g] /\ InChan(g, i)
              \/ i > log[tok'[g]] \/ seen[tok'[g]] = 0
    BY <1>2 DEF InChan
  <2>4. \A t \in Sessions, i \in IDs :
              t >= sessionToken' => t >= sessionToken /\ (Processed(t, i) => Processed(t, i)')
    BY <1>2 DEF Processed
  <2> QED BY <1>1, <1>2, <2>1, <2>2, <2>3, <2>4, OldStays
<1>7. ProcessedInv'
  BY <1>1, <1>2 DEF ProcessedInv
<1>8. RingInv' /\ LoadedInv' /\ NothingAfterTheMark'
  BY <1>4, <1>5 DEF RingInv, LoadedInv, NothingAfterTheMark
<1> QED BY <1>6, <1>7, <1>8, Zenon DEF Display

\* The client adopted is the one with the socket, and nothing was fetched for it yet.
LEMMA AdoptDisplay ==
    ASSUME TypeOK, Others, Lineage, Display, NEW r \in cmds, r.do = "authed", Adopt(r)
    PROVE  Display'
<1>1. OldInv /\ ProcessedInv /\ RingInv
  BY Zenon DEF Display
<1>2. /\ UNCHANGED <<shown, tok, sock, chan, log, lily, seen>>
      /\ client' = r.c /\ sessionToken' = tok[r.c] /\ fetchedFrom' = -1
      /\ Results(r, {[do |-> "state", c |-> r.c]})
      /\ IF tok[r.c] # sessionToken THEN processedIDs' = {}
         ELSE UNCHANGED <<processedIDs, foreign>>
  BY Zenon DEF Adopt, proxy, ResetSessionIDs
<1>3. /\ r.c \in Clients /\ tok[r.c] \in 1..MaxSessions /\ tok[r.c] >= sessionToken
      /\ sessionToken \in 0..MaxSessions /\ Sessions = 1..MaxSessions
  <2>1. r.err = "ok" /\ IsJob(r)
    BY DEF Adopt, IsJob, JobKinds
  <2>2. tok[r.c] # 0 /\ Onward(r.c)
    BY <2>1 DEF Lineage, TokenInv
  <2> QED BY <2>2, SessionTypes DEF Onward, Sessions
<1>4. \A x \in cmds' : (x \in cmds /\ x # r) \/ x.do = "state"
  BY <1>2 DEF Results
<1>5. \A g \in Clients : Attached(g) => g = r.c
  <2>1. IsJob(r)
    BY DEF IsJob, JobKinds
  <2> QED BY <2>1 DEF Others, SocketInv
<1>6. \A t \in Sessions : \A i : t >= tok[r.c] => (Processed(t, i) <=> Processed(t, i)')
  BY <1>2, <1>3 DEF Processed
<1>7. OldInv'
  <2>1. \A t \in Sessions : log[t] \in Nat /\ seen[t] \in Nat
    BY DisplayTypes
  <2>2. \A f \in cmds' : f \in cmds \/ f.do \notin Marked
    BY <1>4 DEF Marked
  <2>3. \A g \in Clients, i \in IDs : tok'[g] \in Sessions /\ InChan(g, i)' =>
              \/ tok[g] = tok'[g] /\ InChan(g, i)
              \/ i > log[tok'[g]] \/ seen[tok'[g]] = 0
    BY <1>2 DEF InChan
  <2>4. \A t \in Sessions, i \in IDs :
              t >= sessionToken' => t >= sessionToken /\ (Processed(t, i) => Processed(t, i)')
    BY <1>2, <1>3, <1>6
  <2> QED BY <1>1, <1>2, <2>1, <2>2, <2>3, <2>4, OldStays
<1>8. ProcessedInv'
  <2>1. CASE tok[r.c] # sessionToken
    BY <1>2, <2>1 DEF ProcessedInv
  <2>2. CASE tok[r.c] = sessionToken
    <3>1. UNCHANGED <<processedIDs, foreign, sessionToken, shown>> /\ fetchedFrom' = -1
      BY <1>2, <2>2
    <3> QED BY <1>1, <3>1 DEF ProcessedInv
  <2> QED BY <2>1, <2>2
<1>9. RingInv'
  <2> SUFFICES ASSUME NEW g \in Clients, NEW s \in Sessions, Attached(g)', tok'[g] = s,
                      seen'[s] = 0, NEW i \in Ring(s)', ~InChan(g, i)'
               PROVE  g = client' /\ Processed(s, i)'
    BY DEF RingInv, Covered
  <2>1. Attached(g) /\ tok[g] = s /\ seen[s] = 0 /\ i \in Ring(s) /\ ~InChan(g, i)
    BY <1>2 DEF Attached, Ring, InChan
  <2>2. Processed(s, i)
    BY <1>1, <2>1 DEF RingInv, Covered
  <2>3. g = r.c
    BY <1>5, <2>1
  <2> QED BY <1>2, <1>3, <1>6, <2>1, <2>2, <2>3
<1>10. LoadedInv'
  <2> SUFFICES ASSUME NEW f \in cmds', f.do = "loaded", f.c = client' PROVE FALSE
    BY DEF LoadedInv
  <2> QED BY <1>2, <1>4 DEF Lineage, FetchInv
<1>11. NothingAfterTheMark'
  BY <1>2 DEF NothingAfterTheMark
<1> QED BY <1>7, <1>8, <1>9, <1>10, <1>11, Zenon DEF Display

\* A message taken from the channel is shown, unless it is kept as shown already.
LEMMA ReceiveDisplay ==
    ASSUME TypeOK, Others, Lineage, Display, NEW g \in Clients, Receive(g)
    PROVE  Display'
<1>1. OldInv /\ ProcessedInv /\ RingInv /\ LoadedInv /\ NothingAfterTheMark
  BY Zenon DEF Display
<1>2. UNCHANGED <<tok, sock, client, sessionToken, fetchedFrom, fetchedTo, foreign, log, lily, cmds>>
  BY DEF Receive, login
<1>3. g = client /\ tok[g] = sessionToken /\ sessionToken # 0 /\ sessionToken \in Sessions
  <2>1. g = client /\ listening[client] > 0
    BY Heard DEF Receive, Others
  <2>2. sessionToken # 0 => sessionToken \in Sessions
    BY SessionTypes DEF Sessions
  <2> QED BY <2>1, <2>2 DEF Lineage, TokenInv
<1>4. /\ shown \in [Sessions -> [IDs -> 0..2]] /\ chan \in [Clients -> Seq(IDs)]
      /\ log \in [Sessions -> Nat] /\ seen \in [Sessions -> Nat]
  BY DisplayTypes
<1>5. PICK id \in IDs : id = Head(chan[g]) /\ Range(chan[g]) = {id} \cup Range(Tail(chan[g]))
  <2>1. chan[g] \in Seq(IDs) /\ chan[g] # <<>>
    BY <1>4 DEF Receive
  <2>2. Head(chan[g]) \in IDs
    BY <2>1
  <2> QED BY <2>1, <2>2, RangeTail
<1>6. /\ \A x \in Clients : x # g => chan'[x] = chan[x]
      /\ Range(chan[g]) = {id} \cup Range(chan'[g])
  <2>1. chan' = [chan EXCEPT ![g] = Tail(@)]
    BY DEF Receive
  <2> QED BY <1>4, <1>5, <2>1
<1>7. /\ processedIDs' = processedIDs \cup {id}
      /\ id \in processedIDs => UNCHANGED shown
      /\ id \notin processedIDs =>
            shown' = [shown EXCEPT ![sessionToken][id] = IF @ < 2 THEN @ + 1 ELSE @]
      /\ \A t \in Sessions : seen'[t] >= seen[t] /\ seen'[t] \in Nat
  <2>1. CASE AlreadyProcessed(id)
    <3>1. UNCHANGED <<processedIDs, shown, seen>> /\ id \in processedIDs
      BY <1>5, <2>1 DEF Receive, AlreadyProcessed
    <3> QED BY <1>4, <3>1
  <2>2. CASE ~AlreadyProcessed(id)
    <3>1. processedIDs' = processedIDs \cup {id} /\ HandleProxy(tok[g], id) /\ Advance(top')
      BY <1>5, <2>2 DEF Receive
    <3>2. id \notin processedIDs
      BY <2>2 DEF AlreadyProcessed
    <3>3. shown' = [shown EXCEPT ![sessionToken][id] = IF @ < 2 THEN @ + 1 ELSE @]
      BY <1>3, <3>1 DEF HandleProxy, Putting
    <3>4. top' \in Nat
      <4>1. top \in Nat /\ id \in Nat
        <5>1. top \in Nat
          BY LastIDIsLast DEF TypeOK
        <5>2. id \in Nat
          BY DisplayTypes
        <5> QED BY <5>1, <5>2
      <4>2. top' = Larger(top, id)
        BY <3>1 DEF HandleProxy
      <4> QED BY <4>1, <4>2 DEF Larger
    <3>5. \A t \in Sessions : seen'[t] >= seen[t] /\ seen'[t] \in Nat
      BY <3>1, <3>4, ReportGrows DEF Advance
    <3> QED BY <3>1, <3>2, <3>3, <3>5
  <2> QED BY <2>1, <2>2
<1>8. InChan(g, id)
  BY <1>5 DEF InChan
<1>9. \A x \in Clients, i \in IDs : /\ InChan(x, i)' => InChan(x, i)
                                    /\ InChan(x, i) => InChan(x, i)' \/ (x = client /\ i = id)
  BY <1>3, <1>6 DEF InChan
<1>10. \A t \in Sessions, i \in IDs :
          IF t = sessionToken /\ i = id /\ id \notin processedIDs
          THEN shown[t][i] = 0 /\ shown'[t][i] = 1
          ELSE shown'[t][i] = shown[t][i]
  <2>1. id \notin processedIDs => shown[sessionToken][id] = 0
    <3> SUFFICES ASSUME id \notin processedIDs PROVE shown[sessionToken][id] = 0
      OBVIOUS
    <3>1. ~Earlier(sessionToken, id)
      BY <1>1, <1>3, <1>5, <1>8, SessionTypes DEF OldInv
    <3>2. shown[sessionToken][id] \in 0..2 /\ ~(shown[sessionToken][id] > 0)
      BY <1>3, <1>4, <1>5, <3>1 DEF Earlier, Processed
    <3> QED BY <3>2
  <2> QED BY <1>3, <1>4, <1>5, <1>7, <2>1
<1>11. \A t \in Sessions, i \in IDs :
          /\ Processed(t, i) => Processed(t, i)'
          /\ Processed(t, i)' => Processed(t, i) \/ (t = sessionToken /\ i = id)
  BY <1>2, <1>7 DEF Processed
<1>12. Processed(sessionToken, id)'
  BY <1>2, <1>7 DEF Processed
<1>13. OldInv'
  <2> SUFFICES ASSUME NEW t \in Sessions, NEW i \in IDs, t >= sessionToken
               PROVE  /\ shown'[t][i] <= 1
                      /\ Earlier(t, i)' =>
                           /\ i <= log[t] /\ i <= seen'[t]
                           /\ \A x \in Clients : tok[x] = t => ~InChan(x, i)'
                           /\ \A f \in cmds : f.do \in Marked /\ f.s = t => i <= f.mark
    BY <1>2 DEF OldInv
  <2>1. shown[t][i] <= 1 /\ (Earlier(t, i) =>
          /\ i <= log[t] /\ i <= seen[t]
          /\ \A x \in Clients : tok[x] = t => ~InChan(x, i)
          /\ \A f \in cmds : f.do \in Marked /\ f.s = t => i <= f.mark)
    BY <1>1 DEF OldInv
  <2>2. shown'[t][i] <= 1
    BY <1>10, <2>1
  <2>3. Earlier(t, i)' => Earlier(t, i)
    <3>1. CASE t = sessionToken /\ i = id
      BY <1>2, <1>12, <3>1 DEF Earlier, Processed
    <3>2. CASE ~(t = sessionToken /\ i = id)
      BY <1>10, <1>11, <3>2 DEF Earlier
    <3> QED BY <3>1, <3>2
  <2>4. i <= seen[t] => i <= seen'[t]
    BY <1>4, <1>7, DisplayTypes
  <2> QED BY <1>9, <2>1, <2>2, <2>3, <2>4
<1>14. ProcessedInv'
  <2>1. ASSUME NEW i \in processedIDs', i \notin foreign PROVE shown'[sessionToken][i] > 0
    <3>1. i \in IDs
      BY <1>5, <1>7, DisplayTypes
    <3>2. i \in processedIDs => shown[sessionToken][i] > 0
      BY <1>1, <2>1 DEF ProcessedInv
    <3> QED BY <1>3, <1>7, <1>10, <2>1, <3>1, <3>2
  <2> QED BY <1>2, <1>3, <2>1 DEF ProcessedInv
<1>15. ASSUME NEW x \in Clients, NEW s \in Sessions, NEW i \in IDs, Covered(x, s, i),
              tok[x] = s
       PROVE  Covered(x, s, i)'
  <2>1. CASE InChan(x, i)
    BY <1>2, <1>3, <1>9, <1>12, <1>15, <2>1 DEF Covered
  <2>2. CASE x = client /\ Processed(s, i)
    BY <1>2, <1>11, <2>2 DEF Covered
  <2> QED BY <1>15, <2>1, <2>2 DEF Covered
<1>16. \A s \in Sessions : Ring(s)' = Ring(s) /\ Ring(s) \subseteq IDs
  BY <1>2, DisplayTypes DEF Ring
<1>17. RingInv'
  <2> SUFFICES ASSUME NEW x \in Clients, NEW s \in Sessions, Attached(x)', tok'[x] = s,
                      seen'[s] = 0, NEW i \in Ring(s)'
               PROVE  Covered(x, s, i)'
    BY DEF RingInv
  <2>1. Attached(x) /\ tok[x] = s /\ seen[s] = 0 /\ i \in Ring(s) /\ i \in IDs
    BY <1>2, <1>4, <1>7, <1>16 DEF Attached
  <2>2. Covered(x, s, i)
    BY <1>1, <2>1 DEF RingInv
  <2> QED BY <1>15, <2>1, <2>2
<1>18. LoadedInv'
  <2> SUFFICES ASSUME NEW f \in cmds, f.do = "loaded", f.c = client, Attached(client),
                      NEW i \in Ring(sessionToken), i > f.upto,
                      NEW s \in Sessions, s = sessionToken
               PROVE  Covered(g, s, i)'
    BY <1>2, <1>16, <1>3 DEF LoadedInv, Attached, Ring, Covered, InChan, Processed
  <2>1. Covered(g, s, i) /\ i \in IDs
    BY <1>1, <1>3, <1>16 DEF LoadedInv
  <2> QED BY <1>3, <1>15, <2>1
<1>19. NothingAfterTheMark'
  <2> SUFFICES ASSUME fetchedFrom >= 0, Attached(client),
                      NEW i \in Ring(sessionToken), i > fetchedFrom, i <= fetchedTo,
                      i \notin foreign, ~InChan(g, i)'
               PROVE  shown'[sessionToken][i] > 0
    BY <1>2, <1>3 DEF NothingAfterTheMark, Attached, Ring, InChan, Range
  <2>1. i \in IDs /\ (shown[sessionToken][i] > 0 \/ InChan(client, i))
    BY <1>1, <1>3, <1>16 DEF NothingAfterTheMark, InChan, Range
  <2>2. CASE shown[sessionToken][i] > 0
    BY <1>3, <1>10, <2>1, <2>2
  <2>3. CASE InChan(client, i)
    <3>1. i = id
      BY <1>3, <1>9, <2>1, <2>3
    <3>2. i \in processedIDs'
      BY <1>7, <3>1
    <3> QED BY <1>2, <1>14, <3>2 DEF ProcessedInv
  <2> QED BY <2>1, <2>2, <2>3
<1> QED BY <1>13, <1>14, <1>17, <1>18, <1>19, Zenon DEF Display

\* The answer of a fetch: what it brings that is not kept yet was never shown.
LEMMA LoadedDisplay ==
    ASSUME TypeOK, Lineage, Display, NEW f \in cmds, f.do \in {"loaded", "partly"}, Loaded(f)
    PROVE  Display'
<1>1. OldInv /\ ProcessedInv /\ RingInv /\ LoadedInv /\ NothingAfterTheMark
  BY Zenon DEF Display
<1>2. UNCHANGED <<tok, sock, chan, client, sessionToken, log, lily>> /\ cmds' \subseteq cmds
  BY DEF Loaded, Results, login, clients
<1>3. /\ shown \in [Sessions -> [IDs -> 0..2]]
      /\ log \in [Sessions -> Nat] /\ seen \in [Sessions -> Nat]
      /\ IDs = 1..LastID /\ LastID \in Nat
      /\ f \in Fetch /\ \A s \in Sessions : Ring(s) \subseteq IDs
  BY DisplayTypes
<1>4. /\ f.s = tok[f.c] /\ f.s # 0 /\ f.s <= sessionToken /\ f.s \in Sessions
      /\ f.mark \in Nat /\ f.upto \in 0..LastID /\ client \in Clients
      /\ sessionToken # 0 /\ sessionToken \in Sessions
  <2>1. f.s = tok[f.c] /\ f.s # 0 /\ f.s <= sessionToken
    BY DEF Lineage, FetchInv, IsJob, JobKinds
  <2>2. f.s \in Sessions /\ f.mark \in Nat /\ f.upto \in 0..LastID
    BY <1>3 DEF Fetch
  <2>3. sessionToken \in 0..MaxSessions /\ MaxSessions \in Nat /\ client \in Clients
    BY SessionTypes
  <2> QED BY <2>1, <2>2, <2>3 DEF Sessions
<1>5. PICK missed : missed = ((f.mark + 1)..f.upto) \ processedIDs
  OBVIOUS
<1>6. /\ processedIDs' = processedIDs \cup missed
      /\ shown' = [shown EXCEPT ![f.s] = [i \in IDs |-> IF i \in missed /\ @[i] < 2 THEN @[i] + 1 ELSE @[i]]]
      /\ IF f.c = client
         THEN fetchedFrom' = f.mark /\ fetchedTo' = IF f.do = "loaded" THEN LastID ELSE f.upto
         ELSE UNCHANGED <<fetchedFrom, fetchedTo>>
      /\ foreign' = IF f.s = sessionToken THEN foreign ELSE foreign \cup missed
  BY <1>5 DEF Loaded
<1>7. \A t \in Sessions : seen'[t] >= seen[t] /\ seen'[t] \in Nat
  <2>1. lastSeenID' \in Nat
    <3>1. lastSeenID \in Nat
      BY <1>3 DEF TypeOK
    <3>2. lastSeenID' \in {lastSeenID, Larger(lastSeenID, f.mark)}
      BY DEF Loaded
    <3> QED BY <1>4, <3>1, <3>2 DEF Larger
  <2>2. Report(TRUE, lastSeenID') \/ Report(FALSE, lastSeenID')
    BY DEF Loaded
  <2> QED BY <2>1, <2>2, ReportGrows
<1>8. missed \subseteq IDs
  BY <1>3, <1>4, <1>5
<1>9. \A t \in Sessions, i \in IDs :
         shown'[t][i] = IF t = f.s /\ i \in missed /\ shown[t][i] < 2
                        THEN shown[t][i] + 1 ELSE shown[t][i]
  BY <1>3, <1>4, <1>6
<1>10. \A t \in Sessions, i \in IDs :
         /\ shown[t][i] \in 0..2
         /\ shown[t][i] > 0 => shown'[t][i] > 0
         /\ t = f.s /\ i \in missed => shown'[t][i] > 0
  BY <1>3, <1>9
<1>11. OldInv'
  <2> SUFFICES ASSUME NEW t \in Sessions, NEW i \in IDs, t >= sessionToken
               PROVE  /\ shown'[t][i] <= 1
                      /\ Earlier(t, i)' =>
                           /\ i <= log[t] /\ i <= seen'[t]
                           /\ \A x \in Clients : tok[x] = t => ~InChan(x, i)
                           /\ \A y \in cmds : y.do \in Marked /\ y.s = t => i <= y.mark
    BY <1>2 DEF OldInv, InChan
  <2>1. shown[t][i] <= 1 /\ (Earlier(t, i) =>
          /\ i <= log[t] /\ i <= seen[t]
          /\ \A x \in Clients : tok[x] = t => ~InChan(x, i)
          /\ \A y \in cmds : y.do \in Marked /\ y.s = t => i <= y.mark)
    BY <1>1 DEF OldInv
  <2>2. CASE t = f.s /\ i \in missed
    <3>1. t = sessionToken /\ ~(i <= f.mark) /\ i \notin processedIDs
      BY <1>4, <1>5, <2>2, SessionTypes DEF Sessions
    <3>2. ~Earlier(t, i)
      BY <2>1, <2>2, <3>1 DEF Marked
    <3>3. shown[t][i] = 0
      BY <1>10, <3>1, <3>2 DEF Earlier, Processed
    <3>4. shown'[t][i] = 1 /\ ~Earlier(t, i)'
      BY <1>2, <1>6, <1>9, <2>2, <3>1, <3>3 DEF Earlier, Processed
    <3> QED BY <3>4
  <2>3. CASE ~(t = f.s /\ i \in missed)
    <3>1. shown'[t][i] = shown[t][i]
      BY <1>9, <2>3
    <3>2. Earlier(t, i)' => Earlier(t, i)
      BY <1>2, <1>6, <3>1 DEF Earlier, Processed
    <3>3. i <= seen[t] => i <= seen'[t]
      BY <1>3, <1>7
    <3> QED BY <2>1, <3>1, <3>2, <3>3
  <2> QED BY <2>2, <2>3
<1>12. \A i \in processedIDs' \ foreign' : shown'[sessionToken][i] > 0
  <2> SUFFICES ASSUME NEW i \in processedIDs', i \notin foreign'
               PROVE  shown'[sessionToken][i] > 0
    OBVIOUS
  <2>1. CASE i \in processedIDs
    <3>1. shown[sessionToken][i] > 0 /\ i \in IDs
      BY <1>1, <1>6, <2>1, DisplayTypes DEF ProcessedInv
    <3> QED BY <1>4, <1>10, <3>1
  <2>2. CASE i \in missed
    BY <1>4, <1>6, <1>8, <1>10, <2>2
  <2> QED BY <1>6, <2>1, <2>2
<1>13. ProcessedInv'
  BY <1>2, <1>4, <1>12 DEF ProcessedInv
<1>14. \A s \in Sessions : Ring(s)' = Ring(s)
  BY <1>2 DEF Ring
<1>15. \A x, s, i : Covered(x, s, i) => Covered(x, s, i)'
  BY <1>2, <1>6 DEF Covered, InChan, Processed
<1>16. RingInv'
  <2> SUFFICES ASSUME NEW x \in Clients, NEW s \in Sessions, Attached(x)', tok'[x] = s,
                      seen'[s] = 0, NEW i \in Ring(s)'
               PROVE  Covered(x, s, i)'
    BY DEF RingInv
  <2>1. Attached(x) /\ tok[x] = s /\ seen[s] = 0 /\ i \in Ring(s)
    BY <1>2, <1>3, <1>7, <1>14 DEF Attached
  <2> QED BY <1>1, <1>15, <2>1 DEF RingInv
<1>17. LoadedInv'
  <2> SUFFICES ASSUME NEW x \in cmds, x.do = "loaded", x.c = client, Attached(client),
                      tok[client] = sessionToken, NEW i \in Ring(sessionToken), i > x.upto,
                      NEW c, c = client, NEW s, s = sessionToken
               PROVE  Covered(c, s, i)'
    BY <1>2 DEF LoadedInv, Attached, Ring, Covered, InChan, Processed
  <2> QED BY <1>1, <1>15 DEF LoadedInv
<1>18. NothingAfterTheMark'
  <2> SUFFICES ASSUME fetchedFrom' >= 0, Attached(client), tok[client] = sessionToken,
                      NEW i \in Ring(sessionToken), i > fetchedFrom', i <= fetchedTo',
                      i \notin foreign', ~InChan(client, i)
               PROVE  shown'[sessionToken][i] > 0
    BY <1>2 DEF NothingAfterTheMark, Attached, Ring, InChan, Range
  <2>1. i \in IDs /\ i \notin foreign
    BY <1>3, <1>4, <1>6
  <2>2. CASE fetchedFrom' = fetchedFrom /\ fetchedTo' = fetchedTo
    <3>1. shown[sessionToken][i] > 0
      BY <1>1, <2>1, <2>2 DEF NothingAfterTheMark, InChan, Range
    <3> QED BY <1>4, <1>10, <2>1, <3>1
  <2>3. CASE f.c = client
    <3>1. CASE i > f.upto
      <4>1. f.do = "loaded"
        BY <1>3, <1>4, <1>6, <2>1, <2>3, <3>1
      <4>2. Covered(client, sessionToken, i)
        BY <1>1, <2>3, <3>1, <4>1 DEF LoadedInv
      <4> QED BY <1>6, <1>12, <4>2 DEF Covered, Processed
    <3>2. CASE ~(i > f.upto)
      <4>1. i \in processedIDs'
        BY <1>3, <1>4, <1>5, <1>6, <2>1, <2>3, <3>2
      <4> QED BY <1>12, <4>1
    <3> QED BY <3>1, <3>2
  <2> QED BY <1>6, <2>2, <2>3
<1> QED BY <1>11, <1>13, <1>16, <1>17, <1>18, Zenon DEF Display

LEMMA DisplayKept ==
    ASSUME TypeOK, Others, Lineage, Display, Next
    PROVE  Display'
<1>1. CASE \E s \in Sessions : LilySpeaks(s) \/ LilyCloses(s) \/ Teardown(s)
  BY <1>1, PublishDisplay
<1>2. CASE Look
  BY <1>2, LookDisplay
<1>3. CASE SubmitLogin \/ AnswerReconnect
  BY <1>3, BeginsDisplay
<1>4. CASE \E g \in Clients : Drop(g)
  BY <1>4, DropDisplay
<1>5. ASSUME NEW x \in cmds, Command(x) PROVE Display'
  <2>1. CASE \/ x.do = "resume" /\ Resume(x)
             \/ x.do = "login" /\ Reconnect(x)
             \/ x.do = "auth" /\ AttemptAuth(x)
    BY <2>1, AttemptDisplay
  <2>2. CASE \/ x.do = "state" /\ RequestState(x)
             \/ x.do = "wait" /\ AnswerState(x)
             \/ x.do = "page" /\ FetchPage(x)
    BY <2>2, FetchDisplay
  <2>3. CASE x.do \in {"loaded", "partly"} /\ Loaded(x)
    BY <2>3, LoadedDisplay
  <2>4. CASE x.do = "authed" /\ AuthFailed(x)
    BY <2>4, AuthFailedDisplay
  <2>5. CASE x.do = "authed" /\ Adopt(x)
    BY <2>5, AdoptDisplay
  <2> QED BY <1>5, <2>1, <2>2, <2>3, <2>4, <2>5, Zenon DEF Command
<1>6. ASSUME NEW g \in Clients, Receive(g) \/ SocketClosed(g) PROVE Display'
  BY <1>6, ReceiveDisplay, BeginsDisplay
<1> QED BY <1>1, <1>2, <1>3, <1>4, <1>5, <1>6, Zenon DEF Next, Runs, Hears

LEMMA InitDisplay == Init => Display
<1> SUFFICES ASSUME Init PROVE Display
  OBVIOUS
<1>1. PICK n \in 0..1, k \in 0..1 :
         /\ k <= n
         /\ known = 1..n /\ lily = known
         /\ log = [s \in Sessions |-> IF s <= n THEN 1 ELSE 0]
         /\ seen = [s \in Sessions |-> IF s <= k THEN 1 ELSE 0]
         /\ \E resumed \in {0, n} :
              /\ sessionToken = resumed
              /\ tok = [g \in Clients |-> IF g = 1 THEN resumed ELSE 0]
              /\ sock = [g \in Clients |-> IF g = 1 /\ resumed > 0 THEN "up" ELSE "none"]
              /\ chan = [g \in Clients |-> IF g = 1 /\ resumed > k THEN <<1>> ELSE <<>>]
              /\ listening = [g \in Clients |-> IF g = 1 /\ resumed > 0 THEN 1 ELSE 0]
              /\ cmds = IF resumed > 0 THEN {[do |-> "state", c |-> 1]} ELSE {}
              /\ authMode = (resumed = 0)
  BY DEF Init
<1>2. PICK resumed \in {0, n} :
              /\ sessionToken = resumed
              /\ tok = [g \in Clients |-> IF g = 1 THEN resumed ELSE 0]
              /\ sock = [g \in Clients |-> IF g = 1 /\ resumed > 0 THEN "up" ELSE "none"]
              /\ chan = [g \in Clients |-> IF g = 1 /\ resumed > k THEN <<1>> ELSE <<>>]
              /\ cmds = IF resumed > 0 THEN {[do |-> "state", c |-> 1]} ELSE {}
  BY <1>1
<1>3. /\ processedIDs = {} /\ fetchedFrom = -1
      /\ shown = [s \in Sessions |-> [i \in IDs |-> IF i <= seen[s] THEN 1 ELSE 0]]
  BY DEF Init
<1>4. /\ LastID \in Nat /\ IDs = 1..LastID /\ Sessions = 1..MaxSessions /\ MaxSessions \in Nat
      /\ \A s \in Sessions : Ring(s) \subseteq IDs
  BY InitTypes, DisplayTypes, SessionTypes
<1>5. \A x \in cmds : x.do = "state"
  BY <1>2
<1>6. \A g \in Clients : Range(chan[g]) = IF g = 1 /\ resumed > k THEN {1} ELSE {}
  <2>1. Range(<<1>>) = {1} /\ Range(<<>>) = {}
    BY DEF Range
  <2> QED BY <1>2, <2>1
<1>7. OldInv
  <2> SUFFICES ASSUME NEW t \in Sessions, NEW i \in IDs, t >= sessionToken
               PROVE  /\ shown[t][i] <= 1
                      /\ shown[t][i] > 0 =>
                           /\ i <= log[t] /\ i <= seen[t]
                           /\ \A g \in Clients : tok[g] = t => ~InChan(g, i)
    BY <1>5 DEF OldInv, Earlier, Marked
  <2>1. shown[t][i] = IF i <= seen[t] THEN 1 ELSE 0
    BY <1>3
  <2>2. seen[t] = (IF t <= k THEN 1 ELSE 0) /\ log[t] = (IF t <= n THEN 1 ELSE 0)
    BY <1>1
  <2>3. ASSUME shown[t][i] > 0, NEW g \in Clients, tok[g] = t, InChan(g, i) PROVE FALSE
    BY <1>2, <1>4, <1>6, <2>1, <2>2, <2>3 DEF InChan
  <2>4. shown[t][i] > 0 => i <= log[t] /\ i <= seen[t]
    BY <1>1, <1>4, <2>1, <2>2
  <2>5. shown[t][i] <= 1
    BY <2>1
  <2> QED BY <2>3, <2>4, <2>5
<1>8. ProcessedInv
  BY <1>3 DEF ProcessedInv
<1>9. RingInv
  <2> SUFFICES ASSUME NEW g \in Clients, NEW s \in Sessions, Attached(g), tok[g] = s, seen[s] = 0,
                      NEW i \in Ring(s)
               PROVE  InChan(g, i)
    BY DEF RingInv, Covered
  <2>1. g = 1 /\ resumed = 1 /\ s = 1 /\ n = 1
    BY <1>1, <1>2, <1>4 DEF Attached
  <2>2. k = 0
    BY <1>1, <2>1
  <2>3. Ring(s) = 1..1
    BY <1>1, <2>1 DEF Ring
  <2> QED BY <1>6, <2>1, <2>2, <2>3 DEF InChan
<1>10. LoadedInv
  BY <1>5 DEF LoadedInv
<1>11. NothingAfterTheMark
  BY <1>3 DEF NothingAfterTheMark
<1> QED BY <1>7, <1>8, <1>9, <1>10, <1>11, Zenon DEF Display

LEMMA ViewInvariant == Spec => [](TypeOK /\ Others /\ Lineage /\ Display)
<1>1. Init => Lineage /\ Display
  BY InitLineage, InitDisplay
<1>2. TypeOK /\ Others /\ Lineage /\ Display /\ [Next]_vars => Lineage' /\ Display'
  <2> SUFFICES ASSUME TypeOK, Others, Lineage, Display, [Next]_vars PROVE Lineage' /\ Display'
    OBVIOUS
  <2>1. CASE Next
    BY <2>1, LineageKept, DisplayKept
  <2>2. CASE UNCHANGED vars
    <3>1. /\ UNCHANGED <<known, lily, log, seen, tok, sock, chan, listening, cmds>>
          /\ UNCHANGED <<client, sessionToken, processedIDs, authMode>>
          /\ UNCHANGED <<shown, fetchedFrom, fetchedTo, foreign>>
      BY <2>2 DEF vars, proxy, clients, login, view, history
    <3>2. Lineage'
      BY <3>1 DEF Lineage, OrderInv, TokenInv, FetchInv, Begun, Onward
    <3>3. Display'
      BY <3>1 DEF Display, OldInv, ProcessedInv, RingInv, LoadedInv, NothingAfterTheMark,
                  Earlier, Processed, Covered, InChan, Attached, Ring
    <3> QED BY <3>2, <3>3
  <2> QED BY <2>1, <2>2
<1> QED BY <1>1, <1>2, Invariant, PTL DEF Spec

\* However the copies of a message come - live, replayed to a new socket, fetched -
\* the output of the session in use has it at most once; and of what an answered fetch
\* covers, nothing after its mark is neither in the output nor on its way, but what a
\* late answer of another session hides.  (ui.go serverEventMsg, initialStateMsg, dedupSet)
THEOREM MessagesComeOnce == Spec => []NoGapsNoCopies
<1>1. TypeOK /\ Display => ShownOnce
  <2> SUFFICES ASSUME TypeOK, OldInv, sessionToken # 0
               PROVE  \A i \in IDs : shown[sessionToken][i] <= 1
    BY Zenon DEF Display, ShownOnce
  <2>1. sessionToken \in Sessions /\ sessionToken >= sessionToken
    BY SessionTypes DEF Sessions
  <2> QED BY <2>1 DEF OldInv
<1>2. TypeOK /\ Display => NothingAfterTheMark
  BY Zenon DEF Display
<1>3. TypeOK /\ Display /\ OneSocket => NoGapsNoCopies
  BY <1>1, <1>2, Zenon DEF NoGapsNoCopies
<1> QED BY <1>3, ViewInvariant, OneSocketEver, PTL

-----------------------------------------------------------------------------
(* The passwords the terminal keeps (SavedPassword).                          *)

\* What Lily accepts for a user, or accepted once.
Worked(u) == {Empty, Old, Right[u]}

StoresInv ==
    /\ {fileOpen, keyringUp} \subseteq BOOLEAN /\ last \in Users \cup {Empty}
    /\ \A u \in Users : {file[u], keyring[u]} \subseteq Worked(u)
    /\ file \in [Users -> Saved!Passwords \cup {Empty}]
    /\ keyring \in [Users -> Saved!Passwords \cup {Empty}]

Dialogs == [authMode : BOOLEAN, authInProgress : BOOLEAN, field : 0..2,
            username : Users \cup {Empty}, password : Saved!Passwords \cup {Empty},
            remember : BOOLEAN]
Kept == [host : BOOLEAN, from : {Empty, "file", "keyring"},
         prefilled : Saved!Passwords \cup {Empty},
         user : Users \cup {Empty}, pass : Saved!Passwords \cup {Empty}]

\* What is tried is complete, and what a session was opened with is right.
ModelInv ==
    /\ dialog \in Dialogs /\ creds \in Kept
    /\ dialog.authInProgress => creds.user \in Users /\ creds.pass # Empty
    /\ ~dialog.authMode /\ creds.pass # Empty => creds.user \in Users /\ creds.pass = Right[creds.user]
    /\ ~dialog.authMode => ~dialog.authInProgress

Answered == [state : {"answer"}, host : BOOLEAN, user : Users \cup {Empty},
             password : Saved!Passwords \cup {Empty}, from : {Empty, "file", "keyring"}]
LookupInv == lookup.state = "answer" => lookup \in Answered

CommandOK(c) ==
    /\ c.user \in Users
    /\ c.op = "save" => c.password \in Worked(c.user)
    /\ c.op # "save" => c.result \notin {"keyring", "file"}
    /\ c = [op |-> c.op, user |-> c.user, password |-> c.password, rejected |-> c.rejected,
            n |-> c.n, result |-> c.result]
CommandsInv == \A c \in storeCmds : CommandOK(c)

\* What the box asks of a command under way.
AsTicked(c) ==
    c.op # "remember" =>
        /\ c.user = box.user /\ c.op = (IF box.ticked THEN "save" ELSE "forget")
        /\ c.op = "save" => c.password = box.password
Waits(op) == \E c \in storeCmds : c.op = op /\ c.result = "pending"

\* What the box asked for is done, or the command that does it has yet to run; while
\* the server was not known, there is none.
BoxInv ==
    box.clear =>
        /\ ~dialog.authMode /\ box.user \in Users
        /\ \A c \in storeCmds : AsTicked(c)
        /\ ~box.known => storeCmds = {} /\ Saved!Lookup(box.user) = box.had
        /\ box.known /\ box.ticked =>
             \/ Saved!Lookup(box.user) = box.password \/ (fileOpen /\ ~keyringUp)
             \/ Waits("save")
        /\ box.known /\ ~box.ticked =>
             \/ creds.from = Empty \/ Saved!Lookup(box.user) = Empty
             \/ Waits("forget")

SavedInv == StoresInv /\ ModelInv /\ LookupInv /\ CommandsInv /\ BoxInv

LEMMA SavedInit == Saved!SavedAssumption /\ Saved!Init => SavedInv
<1> SUFFICES ASSUME Saved!SavedAssumption, Saved!Init PROVE SavedInv
  OBVIOUS
<1>1. StoresInv
  <2>1. PICK launch \in Launches :
          /\ last = launch[1]
          /\ file = [u \in Users |-> IF u = last THEN launch[2] ELSE Empty]
          /\ keyring = [u \in Users |-> IF u = last THEN launch[3] ELSE Empty]
          /\ fileOpen = launch[4] /\ keyringUp = launch[5]
    BY DEF Saved!Init
  <2>2. /\ last \in Users \cup {Empty}
        /\ last \in Users => {launch[2], launch[3]} \subseteq Worked(last)
        /\ {fileOpen, keyringUp} \subseteq BOOLEAN
    BY <2>1 DEF Saved!SavedAssumption, Worked
  <2>3. ASSUME NEW u \in Users
        PROVE  /\ {file[u], keyring[u]} \subseteq Worked(u)
               /\ {file[u], keyring[u]} \subseteq Saved!Passwords \cup {Empty}
    <3>1. {file[u], keyring[u]} \subseteq Worked(u)
      <4>1. CASE u = last
        BY <2>1, <2>2, <4>1
      <4>2. CASE u # last
        BY <2>1, <4>2 DEF Worked
      <4> QED BY <4>1, <4>2
    <3> QED BY <3>1 DEF Worked, Saved!Passwords
  <2> QED BY <2>1, <2>2, <2>3 DEF StoresInv
<1>2. /\ dialog = [authMode |-> TRUE, authInProgress |-> FALSE, field |-> 0,
                   username |-> Empty, password |-> Empty, remember |-> FALSE]
      /\ creds = [host |-> FALSE, from |-> Empty, prefilled |-> Empty, user |-> Empty, pass |-> Empty]
      /\ lookup = [state |-> "asked"] /\ storeCmds = {} /\ box = Saved!NoBox
  BY DEF Saved!Init
<1>3. ModelInv
  BY <1>2 DEF ModelInv, Dialogs, Kept
<1>4. LookupInv /\ CommandsInv /\ BoxInv
  BY <1>2 DEF LookupInv, CommandsInv, BoxInv, Saved!NoBox
<1> QED BY <1>1, <1>3, <1>4 DEF SavedInv

\* What the stores hold for a user is of the same kind wherever it is found.
LEMMA LookupWorked ==
    ASSUME StoresInv, NEW u \in Users
    PROVE  /\ Saved!Lookup(u) \in Worked(u)
           /\ Saved!Lookup(u) \in Saved!Passwords \cup {Empty}
           /\ Saved!Where(u) \in {Empty, "file", "keyring"}
<1>1. Saved!Lookup(u) \in Worked(u)
  BY DEF StoresInv, Saved!Lookup, Saved!InFile, Worked
<1> QED BY <1>1 DEF Worked, Saved!Passwords, Saved!Where

\* A store that was right stays right when a user's entry is replaced or removed.
LEMMA EntryReplaced ==
    ASSUME NEW store \in [Users -> Saved!Passwords \cup {Empty}],
           \A u \in Users : store[u] \in Worked(u),
           NEW user \in Users, NEW v \in Worked(user), NEW after,
           after \in {store, [store EXCEPT ![user] = v], [store EXCEPT ![user] = Empty]}
    PROVE  /\ after \in [Users -> Saved!Passwords \cup {Empty}]
           /\ \A u \in Users : after[u] \in Worked(u)
<1>1. v \in Saved!Passwords \cup {Empty} /\ Empty \in Worked(user)
  BY DEF Worked, Saved!Passwords
<1> QED BY <1>1

\* A command that ran leaves what worked, and what it was to leave.
LEMMA CommandRuns ==
    ASSUME StoresInv, NEW c, CommandOK(c), NEW result,
           Saved!Save(c, result) \/ Saved!Forget(c, result) \/ Saved!RememberUser(c, result),
           UNCHANGED <<fileOpen, keyringUp>>
    PROVE  /\ StoresInv'
           /\ c.op # "save" => result \notin {"keyring", "file"}
           /\ c.op = "save" => Saved!Lookup(c.user)' = c.password \/ (fileOpen /\ ~keyringUp)
           /\ c.op = "forget" => Saved!Lookup(c.user)' = Empty
           /\ c.op = "remember" => UNCHANGED <<file, keyring>>
           /\ c.op \in {"save", "forget", "remember"}
<1>1. /\ c.user \in Users /\ (c.op = "save" => c.password \in Worked(c.user))
      /\ {fileOpen, keyringUp} \subseteq BOOLEAN
      /\ file \in [Users -> Saved!Passwords \cup {Empty}] /\ \A u \in Users : file[u] \in Worked(u)
      /\ keyring \in [Users -> Saved!Passwords \cup {Empty}] /\ \A u \in Users : keyring[u] \in Worked(u)
      /\ last \in Users \cup {Empty}
  BY DEF CommandOK, StoresInv
<1> DEFINE v == IF c.op = "save" THEN c.password ELSE Empty
<1>2. v \in Worked(c.user)
  BY <1>1 DEF Worked
<1>3. /\ c.op \in {"save", "forget", "remember"}
      /\ file' \in {file, [file EXCEPT ![c.user] = v], [file EXCEPT ![c.user] = Empty]}
      /\ keyring' \in {keyring, [keyring EXCEPT ![c.user] = v], [keyring EXCEPT ![c.user] = Empty]}
      /\ last' \in Users \cup {Empty}
  <2>1. CASE Saved!Save(c, result)
    BY <1>1, <2>1 DEF Saved!Save, Saved!forgetFile
  <2>2. CASE Saved!Forget(c, result)
    BY <1>1, <2>2 DEF Saved!Forget, Saved!forgetFile
  <2>3. CASE Saved!RememberUser(c, result)
    BY <1>1, <2>3 DEF Saved!RememberUser
  <2> QED BY <2>1, <2>2, <2>3
<1> HIDE DEF v
<1>4. StoresInv'
  <2>1. /\ file' \in [Users -> Saved!Passwords \cup {Empty}]
        /\ \A u \in Users : file'[u] \in Worked(u)
    BY <1>1, <1>2, <1>3, EntryReplaced
  <2>2. /\ keyring' \in [Users -> Saved!Passwords \cup {Empty}]
        /\ \A u \in Users : keyring'[u] \in Worked(u)
    BY <1>1, <1>2, <1>3, EntryReplaced
  <2> QED BY <1>1, <1>3, <2>1, <2>2 DEF StoresInv, Worked
<1>5. CASE Saved!Save(c, result)
  <2>1. c.op = "save"
    BY <1>5 DEF Saved!Save
  <2>2. Saved!Lookup(c.user)' = c.password \/ (fileOpen /\ ~keyringUp)
    BY <1>1, <1>5 DEF Saved!Save, Saved!forgetFile, Saved!Lookup, Saved!InFile
  <2> QED BY <1>4, <2>1, <2>2
<1>6. CASE Saved!Forget(c, result)
  <2>1. c.op = "forget" /\ result \notin {"keyring", "file"}
    BY <1>6 DEF Saved!Forget
  <2>2. Saved!Lookup(c.user)' = Empty
    BY <1>1, <1>6 DEF Saved!Forget, Saved!forgetFile, Saved!Lookup, Saved!InFile
  <2> QED BY <1>4, <2>1, <2>2
<1>7. CASE Saved!RememberUser(c, result)
  BY <1>4, <1>7 DEF Saved!RememberUser
<1> QED BY <1>5, <1>6, <1>7

LEMMA RunStep ==
    ASSUME SavedInv, Saved!RunCommand
    PROVE  SavedInv'
<1>1. PICK c \in storeCmds, result \in {"keyring", "file", "error", "removed", "nothing", "quiet"} :
        /\ c.result = "pending"
        /\ Saved!Save(c, result) \/ Saved!Forget(c, result) \/ Saved!RememberUser(c, result)
        /\ storeCmds' = (storeCmds \ {c}) \cup {[c EXCEPT !.result = result]}
        /\ UNCHANGED <<fileOpen, keyringUp, dialog, creds, lookup, box>>
  BY DEF Saved!RunCommand, Saved!Pending, Saved!static
<1> DEFINE d == [c EXCEPT !.result = result]
<1>2. CommandOK(c)
  BY DEF SavedInv, CommandsInv
<1>3. /\ StoresInv'
      /\ c.op # "save" => result \notin {"keyring", "file"}
      /\ c.op = "save" => Saved!Lookup(c.user)' = c.password \/ (fileOpen /\ ~keyringUp)
      /\ c.op = "forget" => Saved!Lookup(c.user)' = Empty
      /\ c.op = "remember" => UNCHANGED <<file, keyring>>
      /\ c.op \in {"save", "forget", "remember"}
  BY <1>1, <1>2, CommandRuns DEF SavedInv
<1>4. d = [op |-> c.op, user |-> c.user, password |-> c.password, rejected |-> c.rejected,
           n |-> c.n, result |-> result]
  BY <1>2 DEF CommandOK
<1>5. d.op = c.op /\ d.user = c.user /\ d.password = c.password /\ d.result = result
  BY <1>4
<1>6. CommandOK(d)
  BY <1>2, <1>3, <1>4, <1>5 DEF CommandOK
<1>7. storeCmds' = (storeCmds \ {c}) \cup {d}
  BY <1>1
<1> HIDE DEF d
<1>8. CommandsInv'
  BY <1>6, <1>7 DEF SavedInv, CommandsInv, CommandOK, Worked
<1>9. ModelInv' /\ LookupInv'
  BY <1>1 DEF SavedInv, ModelInv, LookupInv, Dialogs, Kept, Answered, Saved!Passwords
<1>10. BoxInv'
  <2> SUFFICES ASSUME box.clear PROVE BoxInv'
    BY <1>1 DEF BoxInv
  <2>1. /\ ~dialog'.authMode /\ box'.user \in Users /\ box' = box /\ box.known
        /\ \A e \in storeCmds : AsTicked(e)
        /\ box.ticked =>
             \/ Saved!Lookup(box.user) = box.password \/ (fileOpen /\ ~keyringUp)
             \/ Waits("save")
        /\ ~box.ticked =>
             \/ creds.from = Empty \/ Saved!Lookup(box.user) = Empty
             \/ Waits("forget")
    BY <1>1 DEF SavedInv, BoxInv
  <2>2. \A e \in storeCmds' : AsTicked(e)'
    BY <1>1, <1>5, <1>7, <2>1 DEF AsTicked
  <2>3. ASSUME NEW op, c.op # op, Waits(op) PROVE Waits(op)'
    BY <1>7, <2>3 DEF Waits
  <2>4. CASE c.op = "remember"
    <3>1. Saved!Lookup(box.user)' = Saved!Lookup(box.user)
      BY <1>1, <1>3, <2>1, <2>4 DEF Saved!Lookup, Saved!InFile
    <3> QED BY <1>1, <2>1, <2>2, <2>3, <2>4, <3>1 DEF BoxInv
  <2>5. CASE c.op = "save"
    <3>1. box.ticked /\ c.user = box.user /\ c.password = box.password
      BY <2>1, <2>5 DEF AsTicked
    <3>2. Saved!Lookup(box.user)' = box.password \/ (fileOpen /\ ~keyringUp)
      BY <1>3, <2>1, <2>5, <3>1 DEF Saved!Lookup, Saved!InFile
    <3> QED BY <1>1, <2>1, <2>2, <3>1, <3>2 DEF BoxInv
  <2>6. CASE c.op = "forget"
    <3>1. ~box.ticked /\ c.user = box.user
      BY <2>1, <2>6 DEF AsTicked
    <3>2. Saved!Lookup(box.user)' = Empty
      BY <1>3, <2>1, <2>6, <3>1 DEF Saved!Lookup, Saved!InFile
    <3> QED BY <1>1, <2>1, <2>2, <3>1, <3>2 DEF BoxInv
  <2> QED BY <1>3, <2>4, <2>5, <2>6
<1> QED BY <1>3, <1>8, <1>9, <1>10 DEF SavedInv

LEMMA AnswerStep ==
    ASSUME SavedInv, Saved!CommandAnswers
    PROVE  SavedInv'
<1>1. PICK c \in storeCmds :
        /\ c.result # "pending" /\ storeCmds' = storeCmds \ {c}
        /\ creds' = IF c.result \in {"keyring", "file"}
                    THEN [creds EXCEPT !.from = c.result, !.prefilled = creds.pass] ELSE creds
        /\ UNCHANGED <<file, keyring, last, fileOpen, keyringUp, dialog, lookup, box>>
  BY DEF Saved!CommandAnswers, Saved!Pending, Saved!stores, Saved!static
<1>2. StoresInv' /\ LookupInv'
  BY <1>1 DEF SavedInv, StoresInv, LookupInv, Answered, Worked, Saved!Passwords
<1>3. CommandsInv'
  BY <1>1 DEF SavedInv, CommandsInv, CommandOK, Worked
<1>4. /\ creds' \in Kept /\ creds'.user = creds.user /\ creds'.pass = creds.pass
      /\ c.op # "save" => creds'.from = creds.from
  <2>1. creds \in Kept /\ CommandOK(c)
    BY DEF SavedInv, ModelInv, CommandsInv
  <2>2. CASE c.result \in {"keyring", "file"}
    BY <1>1, <2>1, <2>2 DEF Kept, CommandOK
  <2>3. CASE c.result \notin {"keyring", "file"}
    BY <1>1, <2>1, <2>3
  <2> QED BY <2>2, <2>3
<1>5. ModelInv'
  BY <1>1, <1>4 DEF SavedInv, ModelInv, Dialogs, Kept, Saved!Passwords
<1>6. BoxInv'
  <2> SUFFICES ASSUME box.clear PROVE BoxInv'
    BY <1>1 DEF BoxInv
  <2>1. /\ ~dialog'.authMode /\ box'.user \in Users /\ box' = box /\ box.known
        /\ \A e \in storeCmds' : AsTicked(e)' /\ AsTicked(c)
    BY <1>1 DEF SavedInv, BoxInv, AsTicked
  <2>2. ASSUME NEW op, Waits(op) PROVE Waits(op)'
    BY <1>1, <2>2 DEF Waits
  <2>3. Saved!Lookup(box.user)' = Saved!Lookup(box.user)
    BY <1>1 DEF Saved!Lookup, Saved!InFile
  <2>4. ~box.ticked => creds'.from = creds.from
    <3>1. AsTicked(c)
      BY DEF SavedInv, BoxInv
    <3> QED BY <1>4, <3>1 DEF AsTicked
  <2> QED BY <1>1, <2>1, <2>2, <2>3, <2>4 DEF SavedInv, BoxInv
<1> QED BY <1>2, <1>3, <1>5, <1>6 DEF SavedInv

\* A step that leaves the stores and the commands alone while the dialog is open.
LEMMA DialogStep ==
    ASSUME SavedInv, dialog.authMode, ModelInv', LookupInv',
           UNCHANGED <<file, keyring, last, fileOpen, keyringUp, storeCmds, box>>
    PROVE  SavedInv'
<1>1. StoresInv'
  BY DEF SavedInv, StoresInv, Worked, Saved!Passwords
<1>2. CommandsInv'
  BY DEF SavedInv, CommandsInv, CommandOK, Worked
<1>3. BoxInv'
  BY DEF SavedInv, BoxInv
<1> QED BY <1>1, <1>2, <1>3 DEF SavedInv

LEMMA LookupStep ==
    ASSUME SavedInv, Saved!RunLookup
    PROVE  SavedInv'
<1>1. UNCHANGED <<file, keyring, last, fileOpen, keyringUp, dialog, creds, storeCmds, box>>
  BY DEF Saved!RunLookup, Saved!stores, Saved!static
<1>2. lookup' \in Answered
  <2>1. last \in Users \cup {Empty}
    BY DEF SavedInv, StoresInv
  <2>2. last \in Users => /\ Saved!Lookup(last) \in Saved!Passwords \cup {Empty}
                          /\ Saved!Where(last) \in {Empty, "file", "keyring"}
    BY LookupWorked DEF SavedInv
  <2> DEFINE pass == IF last = Empty THEN Empty ELSE Saved!Lookup(last)
             from == IF last = Empty THEN Empty ELSE Saved!Where(last)
  <2>3. pass \in Saved!Passwords \cup {Empty} /\ from \in {Empty, "file", "keyring"}
    BY <2>1, <2>2
  <2>4. lookup' \in {[state |-> "answer", host |-> FALSE, user |-> Empty, password |-> Empty, from |-> Empty],
                     [state |-> "answer", host |-> TRUE, user |-> last, password |-> pass, from |-> from]}
    BY DEF Saved!RunLookup
  <2> HIDE DEF pass, from
  <2>5. [state |-> "answer", host |-> FALSE, user |-> Empty, password |-> Empty, from |-> Empty] \in Answered
    BY DEF Answered
  <2>6. [state |-> "answer", host |-> TRUE, user |-> last, password |-> pass, from |-> from] \in Answered
    BY <2>1, <2>3 DEF Answered
  <2> QED BY <2>4, <2>5, <2>6
<1>3. StoresInv' /\ ModelInv'
  BY <1>1 DEF SavedInv, StoresInv, ModelInv, Worked, Saved!Passwords, Dialogs, Kept
<1>4. CommandsInv'
  BY <1>1 DEF SavedInv, CommandsInv, CommandOK, Worked
<1>5. BoxInv'
  BY <1>1 DEF SavedInv, BoxInv, AsTicked, Waits, Saved!Lookup, Saved!InFile
<1>6. LookupInv'
  BY <1>2 DEF LookupInv, Answered, Saved!Passwords
<1> QED BY <1>3, <1>4, <1>5, <1>6 DEF SavedInv

LEMMA LoadedStep ==
    ASSUME SavedInv, Saved!ApplyCredsLoaded
    PROVE  SavedInv'
<1>1. /\ lookup.state = "answer" /\ lookup' = [state |-> "done"]
      /\ UNCHANGED <<file, keyring, last, fileOpen, keyringUp, storeCmds, box>>
  BY DEF Saved!ApplyCredsLoaded, Saved!stores, Saved!static
<1>2. dialog \in Dialogs /\ creds \in Kept /\ lookup \in Answered
  BY <1>1 DEF SavedInv, ModelInv, LookupInv
<1>3. LookupInv'
  BY <1>1 DEF LookupInv
<1> DEFINE helps == dialog.authMode /\ ~dialog.authInProgress /\ lookup.user # Empty
           named == helps /\ dialog.username = Empty
           given == helps /\ lookup.password # Empty /\ dialog.password = Empty
<1>4. /\ dialog' = [dialog EXCEPT !.username = IF named THEN lookup.user ELSE @,
                                  !.field = IF named THEN 1 ELSE @,
                                  !.password = IF given THEN lookup.password ELSE @,
                                  !.remember = @ \/ given]
      /\ creds' = [creds EXCEPT !.host = lookup.host,
                                !.user = IF named THEN lookup.user ELSE @,
                                !.from = IF given THEN lookup.from ELSE @,
                                !.prefilled = IF given THEN lookup.password ELSE @]
  BY DEF Saved!ApplyCredsLoaded
<1>5. named \in BOOLEAN /\ given \in BOOLEAN /\ (named => helps) /\ (given => helps)
  OBVIOUS
<1>6. helps => dialog.authMode /\ ~dialog.authInProgress
  OBVIOUS
<1> HIDE DEF named, given, helps
<1>7. /\ dialog' \in Dialogs /\ creds' \in Kept
      /\ dialog'.authMode = dialog.authMode /\ dialog'.authInProgress = dialog.authInProgress
      /\ creds'.pass = creds.pass /\ (~named => creds'.user = creds.user)
      /\ (~given => creds'.from = creds.from)
  <2>1. dialog' \in Dialogs
    <3> DEFINE name == IF named THEN lookup.user ELSE dialog.username
               place == IF named THEN 1 ELSE dialog.field
               word == IF given THEN lookup.password ELSE dialog.password
               tick == dialog.remember \/ given
    <3>1. /\ name \in Users \cup {Empty} /\ place \in 0..2
          /\ word \in Saved!Passwords \cup {Empty}
      BY <1>2 DEF Dialogs, Answered
    <3>2. tick \in BOOLEAN
      BY Zenon
    <3>3. dialog' = [dialog EXCEPT !.username = name, !.field = place, !.password = word, !.remember = tick]
      BY <1>4
    <3> HIDE DEF name, place, word, tick
    <3> QED BY <1>2, <3>1, <3>2, <3>3 DEF Dialogs
  <2>2. creds' \in Kept
    BY <1>2, <1>4, <1>5 DEF Kept, Answered
  <2> QED BY <1>2, <1>4, <2>1, <2>2 DEF Dialogs, Kept
<1>8. ModelInv'
  <2>1. dialog'.authInProgress => creds'.user \in Users /\ creds'.pass # Empty
    BY <1>5, <1>6, <1>7 DEF SavedInv, ModelInv
  <2>2. ~dialog'.authMode /\ creds'.pass # Empty => creds'.user \in Users /\ creds'.pass = Right[creds'.user]
    BY <1>5, <1>6, <1>7 DEF SavedInv, ModelInv
  <2>3. ~dialog'.authMode => ~dialog'.authInProgress
    BY <1>7 DEF SavedInv, ModelInv
  <2> QED BY <1>7, <2>1, <2>2, <2>3 DEF ModelInv, Dialogs, Kept, Saved!Passwords
<1>9. CASE dialog.authMode
  BY <1>1, <1>3, <1>8, <1>9, DialogStep
<1>10. CASE ~dialog.authMode
  <2>1. StoresInv'
    BY <1>1 DEF SavedInv, StoresInv, Worked, Saved!Passwords
  <2>2. CommandsInv'
    BY <1>1 DEF SavedInv, CommandsInv, CommandOK, Worked
  <2>3. creds'.from = creds.from /\ dialog'.authMode = dialog.authMode
    BY <1>5, <1>6, <1>7, <1>10
  <2>4. BoxInv'
    BY <1>1, <2>3 DEF SavedInv, BoxInv, AsTicked, Waits, Saved!Lookup, Saved!InFile
  <2> QED BY <1>3, <1>8, <2>1, <2>2, <2>4 DEF SavedInv
<1> QED BY <1>2, <1>9, <1>10 DEF Dialogs

LEMMA DialogKeys ==
    ASSUME SavedInv, Saved!Tab \/ Saved!Type \/ Saved!Enter
    PROVE  SavedInv'
<1>1. /\ dialog.authMode
      /\ UNCHANGED <<file, keyring, last, fileOpen, keyringUp, storeCmds, lookup, box>>
  BY DEF Saved!Tab, Saved!Type, Saved!Enter, Saved!Typed, Saved!stores, Saved!static
<1>2. dialog \in Dialogs /\ creds \in Kept
  BY DEF SavedInv, ModelInv
<1>3. LookupInv'
  BY <1>1 DEF SavedInv, LookupInv, Answered, Saved!Passwords
<1>4. CASE Saved!Tab \/ Saved!Type
  <2>1. creds' = creds
    BY <1>4 DEF Saved!Tab, Saved!Type, Saved!Typed
  <2>2. \/ dialog' = [dialog EXCEPT !.field = (@ + 1) % 3]
        \/ \E u \in Users : dialog' = [dialog EXCEPT !.username = u]
        \/ \E p \in Saved!Passwords \ {Old} : dialog' = [dialog EXCEPT !.password = p]
        \/ dialog' = [dialog EXCEPT !.remember = ~@]
    BY <1>4 DEF Saved!Tab, Saved!Type
  <2>3. /\ dialog' \in Dialogs
        /\ dialog'.authMode = dialog.authMode /\ dialog'.authInProgress = dialog.authInProgress
    <3>1. (dialog.field + 1) % 3 \in 0..2
      BY <1>2 DEF Dialogs
    <3>2. CASE dialog' = [dialog EXCEPT !.field = (@ + 1) % 3]
      BY <1>2, <3>1, <3>2 DEF Dialogs
    <3>3. CASE \E u \in Users : dialog' = [dialog EXCEPT !.username = u]
      BY <1>2, <3>3 DEF Dialogs
    <3>4. CASE \E p \in Saved!Passwords \ {Old} : dialog' = [dialog EXCEPT !.password = p]
      BY <1>2, <3>4 DEF Dialogs
    <3>5. CASE dialog' = [dialog EXCEPT !.remember = ~@]
      BY <1>2, <3>5 DEF Dialogs
    <3> QED BY <2>2, <3>2, <3>3, <3>4, <3>5
  <2>4. ModelInv'
    BY <2>1, <2>3 DEF SavedInv, ModelInv, Dialogs, Kept, Saved!Passwords
  <2> QED BY <1>1, <1>3, <2>4, DialogStep
<1>5. CASE Saved!Enter
  <2>1. \/ dialog' = [dialog EXCEPT !.field = 1] /\ creds' = creds
        \/ /\ creds' = [creds EXCEPT !.user = dialog.username, !.pass = dialog.password]
           /\ \/ dialog' = dialog
              \/ /\ dialog.username # Empty /\ dialog.password # Empty
                 /\ dialog' = [dialog EXCEPT !.authInProgress = TRUE]
    BY <1>5 DEF Saved!Enter
  <2>2. ~dialog.authInProgress
    BY <1>5 DEF Saved!Enter
  <2>3. /\ dialog' \in Dialogs /\ creds' \in Kept /\ dialog'.authMode = dialog.authMode
        /\ dialog'.authInProgress => creds'.user \in Users /\ creds'.pass # Empty
    <3>1. CASE dialog' = [dialog EXCEPT !.field = 1] /\ creds' = creds
      BY <1>2, <2>2, <3>1 DEF Dialogs
    <3>2. CASE /\ creds' = [creds EXCEPT !.user = dialog.username, !.pass = dialog.password]
               /\ dialog' = dialog
      BY <1>2, <2>2, <3>2 DEF Dialogs, Kept
    <3>3. CASE /\ creds' = [creds EXCEPT !.user = dialog.username, !.pass = dialog.password]
               /\ dialog.username # Empty /\ dialog.password # Empty
               /\ dialog' = [dialog EXCEPT !.authInProgress = TRUE]
      BY <1>2, <3>3 DEF Dialogs, Kept
    <3> QED BY <2>1, <3>1, <3>2, <3>3
  <2>4. ModelInv'
    BY <1>1, <2>3 DEF ModelInv, Dialogs, Kept, Saved!Passwords
  <2> QED BY <1>1, <1>3, <2>4, DialogStep
<1> QED BY <1>4, <1>5

LEMMA CommandIs ==
    ASSUME NEW op, NEW user \in Users, NEW password, NEW rejected, NEW n,
           op = "save" => password \in Worked(user),
           NEW c, c = Saved!Command(op, user, password, rejected, n)
    PROVE  CommandOK(c) /\ c.op = op /\ c.user = user /\ c.password = password /\ c.result = "pending"
BY DEF Saved!Command, Saved!Pending, CommandOK

\* Commands that join those under way are in order too, and the rest stays.
LEMMA CommandsJoin ==
    ASSUME SavedInv, NEW new, storeCmds' = storeCmds \cup new, \A c \in new : CommandOK(c),
           UNCHANGED <<file, keyring, last, fileOpen, keyringUp, lookup>>
    PROVE  StoresInv' /\ LookupInv' /\ CommandsInv'
<1>1. StoresInv' /\ LookupInv'
  BY DEF SavedInv, StoresInv, LookupInv, Answered, Worked, Saved!Passwords
<1>2. CommandsInv'
  BY DEF SavedInv, CommandsInv, CommandOK, Worked
<1> QED BY <1>1, <1>2

\* A login that worked, of the user and with the password the model holds.
LEMMA WorksWith ==
    ASSUME Saved!SavedAssumption, SavedInv, Saved!LoginWorks,
           NEW user, NEW pass, user = creds.user, pass = creds.pass
    PROVE  SavedInv'
<1> DEFINE saves == dialog.remember /\ (pass # creds.prefilled \/ creds.from = Empty)
           forgets == ~dialog.remember /\ creds.from # Empty
           remembering == Saved!Command("remember", user, Empty, FALSE, Saved!Free)
           saving == Saved!Command("save", user, pass, FALSE, Saved!Free + 1)
           forgetting == Saved!Command("forget", user, Empty, FALSE, Saved!Free + 1)
           joining == {remembering} \cup (IF saves THEN {saving} ELSE {}) \cup (IF forgets THEN {forgetting} ELSE {})
<1>1. /\ dialog \in Dialogs /\ creds \in Kept /\ dialog.authInProgress
      /\ user \in Users /\ pass # Empty /\ pass = Right[user]
  BY DEF SavedInv, ModelInv, Saved!LoginWorks
<1>2. /\ UNCHANGED <<file, keyring, last, fileOpen, keyringUp, creds, lookup>>
      /\ dialog' = [dialog EXCEPT !.authMode = FALSE, !.authInProgress = FALSE]
  BY DEF Saved!LoginWorks, Saved!stores, Saved!static
<1>3. user # Empty
  BY <1>1 DEF Saved!SavedAssumption
<1>4. IF creds.host THEN storeCmds' = storeCmds \cup joining ELSE storeCmds' = storeCmds
  <2>1. Saved!credsAfterLogin(user, pass)
    BY DEF Saved!LoginWorks
  <2>2. ~creds.host => storeCmds' = storeCmds
    BY <2>1, Zenon DEF Saved!credsAfterLogin
  <2>3. creds.host => storeCmds' = storeCmds \cup {remembering} \cup (IF saves THEN {saving} ELSE {})
                                      \cup (IF forgets THEN {forgetting} ELSE {})
    BY <1>3, <2>1, Zenon DEF Saved!credsAfterLogin
  <2> HIDE DEF remembering, saving, forgetting, saves, forgets
  <2> QED BY <1>1, <2>2, <2>3 DEF Kept
<1>5. /\ box'.user = user /\ box'.password = pass /\ box'.ticked = dialog.remember
      /\ box'.known = creds.host /\ box'.had = Saved!Lookup(user)
      /\ box'.clear => /\ storeCmds = {}
                       /\ creds.from # Empty => Saved!Lookup(user) = creds.prefilled
  <2>1. box' = [user |-> user, password |-> pass, ticked |-> dialog.remember,
                clear |-> /\ storeCmds = {}
                          /\ creds.from # Empty => Saved!Lookup(user) = creds.prefilled,
                known |-> creds.host, had |-> Saved!Lookup(user)]
    BY Zenon DEF Saved!LoginWorks, Saved!Asked
  <2> QED BY <2>1
<1>6. /\ CommandOK(remembering) /\ remembering.op = "remember"
      /\ CommandOK(saving) /\ saving.op = "save" /\ saving.user = user
      /\ saving.password = pass /\ saving.result = "pending"
      /\ CommandOK(forgetting) /\ forgetting.op = "forget" /\ forgetting.user = user
      /\ forgetting.result = "pending"
  <2>1. pass \in Worked(user)
    BY <1>1 DEF Worked
  <2> HIDE DEF saves, forgets
  <2>0. user \in Users
    BY <1>1
  <2>2. CommandOK(remembering)
    BY <2>0, CommandIs
  <2> DEFINE n == Saved!Free + 1
  <2> HIDE DEF n
  <2>3. CommandOK(Saved!Command("save", user, pass, FALSE, n))
    BY <2>0, <2>1, CommandIs
  <2>4. CommandOK(Saved!Command("forget", user, Empty, FALSE, n))
    BY <2>0, CommandIs
  <2>5. /\ remembering.op = "remember" /\ forgetting.op = "forget" /\ saving.op = "save"
        /\ saving.user = user /\ saving.password = pass /\ saving.result = "pending"
        /\ forgetting.user = user /\ forgetting.result = "pending"
    BY DEF Saved!Command, Saved!Pending
  <2> QED BY <2>2, <2>3, <2>4, <2>5 DEF n
<1> HIDE DEF remembering, saving, forgetting
<1>7. \A c \in joining : CommandOK(c)
  BY <1>6
<1>8. StoresInv' /\ LookupInv' /\ CommandsInv'
  <2> DEFINE more == IF creds.host THEN joining ELSE {}
  <2>1. storeCmds' = storeCmds \cup more /\ \A c \in more : CommandOK(c)
    BY <1>4, <1>7
  <2> HIDE DEF more
  <2> QED BY <1>2, <2>1, CommandsJoin
<1>9. dialog' \in Dialogs /\ dialog'.authMode = FALSE /\ dialog'.authInProgress = FALSE
  BY <1>1, <1>2 DEF Dialogs
<1>10. ModelInv'
  BY <1>1, <1>2, <1>9 DEF ModelInv, Dialogs, Kept, Saved!Passwords
<1>11. BoxInv'
  <2> SUFFICES ASSUME box'.clear PROVE BoxInv'
    BY DEF BoxInv
  <2>1. /\ storeCmds' = IF creds.host THEN joining ELSE {}
        /\ creds.from # Empty => Saved!Lookup(user) = creds.prefilled
    BY <1>4, <1>5
  <2>2. Saved!Lookup(box.user)' = Saved!Lookup(user)
    BY <1>2, <1>5 DEF Saved!Lookup, Saved!InFile
  <2>3. ASSUME NEW c \in storeCmds' PROVE AsTicked(c)'
    BY <1>5, <1>6, <2>1, <2>3 DEF AsTicked
  <2>0. /\ dialog'.authMode = FALSE /\ box'.user \in Users
        /\ ~box'.known => storeCmds' = {} /\ Saved!Lookup(box.user)' = box'.had
    BY <1>1, <1>5, <1>9, <2>1, <2>2
  <2>4. creds.host /\ dialog.remember => Saved!Lookup(user) = pass \/ Waits("save")'
    <3> SUFFICES ASSUME creds.host, dialog.remember
                 PROVE  Saved!Lookup(user) = pass \/ Waits("save")'
      OBVIOUS
    <3>1. CASE saves
      <4>1. saving \in storeCmds'
        BY <2>1, <3>1
      <4> QED BY <1>6, <4>1 DEF Waits
    <3>2. CASE ~saves
      BY <2>1, <3>2
    <3> QED BY <3>1, <3>2
  <2>5. creds.host /\ ~dialog.remember => creds'.from = Empty \/ Waits("forget")'
    <3> SUFFICES ASSUME creds.host, ~dialog.remember
                 PROVE  creds'.from = Empty \/ Waits("forget")'
      OBVIOUS
    <3>1. CASE forgets
      <4>1. forgetting \in storeCmds'
        BY <2>1, <3>1
      <4> QED BY <1>6, <4>1 DEF Waits
    <3>2. CASE ~forgets
      BY <1>2, <3>2
    <3> QED BY <3>1, <3>2
  <2> HIDE DEF joining
  <2> QED BY <1>5, <2>0, <2>2, <2>3, <2>4, <2>5 DEF BoxInv
<1> QED BY <1>8, <1>10, <1>11 DEF SavedInv

LEMMA WorksStep ==
    ASSUME Saved!SavedAssumption, SavedInv, Saved!LoginWorks
    PROVE  SavedInv'
<1>1. PICK user : user = creds.user
  OBVIOUS
<1>2. PICK pass : pass = creds.pass
  OBVIOUS
<1> QED BY <1>1, <1>2, WorksWith

\* A dialog that opens again, or a command that is typed, ends what the box asked.
LEMMA BoxForgotten ==
    ASSUME box' = Saved!NoBox
    PROVE  BoxInv'
<1>1. box'.clear = FALSE
  BY DEF Saved!NoBox
<1> QED BY <1>1 DEF BoxInv

\* A login that failed, or a session that is gone, opens the dialog again; a
\* prefilled password that was turned down is to be removed.
LEMMA RejectedStep ==
    ASSUME Saved!SavedAssumption, SavedInv, NEW user, NEW pass,
           user \in Users \/ pass = Empty,
           Saved!credsAfterRejection(user, pass), box' = Saved!NoBox,
           UNCHANGED <<file, keyring, last, fileOpen, keyringUp, lookup>>
    PROVE  SavedInv'
<1>1. dialog \in Dialogs /\ creds \in Kept
  BY DEF SavedInv, ModelInv
<1>2. BoxInv'
  BY BoxForgotten
<1> DEFINE kept == creds.from = Empty \/ pass = Empty \/ pass # creds.prefilled
           forgetting == Saved!Command("forget", user, Empty, TRUE, Saved!Free)
           more == IF kept THEN {} ELSE {forgetting}
<1>3. /\ dialog' = Saved!Again \/ dialog' = [Saved!Again EXCEPT !.remember = FALSE]
      /\ \/ creds' = [creds EXCEPT !.pass = Empty]
         \/ creds' = [creds EXCEPT !.pass = Empty, !.from = Empty, !.prefilled = Empty]
  BY DEF Saved!credsAfterRejection
<1>4. storeCmds' = storeCmds \cup more
  <2>1. kept => storeCmds' = storeCmds
    BY Zenon DEF Saved!credsAfterRejection
  <2>2. ~kept => storeCmds' = storeCmds \cup {forgetting}
    BY Zenon DEF Saved!credsAfterRejection
  <2> HIDE DEF kept, forgetting
  <2> QED BY <2>1, <2>2
<1>5. \A c \in more : CommandOK(c)
  <2>1. CASE kept
    BY <2>1
  <2>2. CASE ~kept
    <3>1. user \in Users
      BY <2>2
    <3>2. CommandOK(forgetting)
      BY <3>1, CommandIs
    <3> HIDE DEF forgetting
    <3> QED BY <2>2, <3>2
  <2> QED BY <2>1, <2>2
<1>6. StoresInv' /\ LookupInv' /\ CommandsInv'
  <2> HIDE DEF more
  <2> QED BY <1>4, <1>5, CommandsJoin
<1>7. Saved!Again \in Dialogs /\ Saved!Again.authMode /\ ~Saved!Again.authInProgress
  <2> DEFINE name == creds.user
  <2>1. name \in Users \cup {Empty}
    BY <1>1 DEF Kept
  <2>2. Saved!Again = [dialog EXCEPT !.authMode = TRUE, !.authInProgress = FALSE, !.field = 1,
                                     !.username = name, !.password = Empty]
    BY DEF Saved!Again
  <2> HIDE DEF name
  <2>3. Saved!Again \in Dialogs
    <3> DEFINE back == [dialog EXCEPT !.authMode = TRUE, !.authInProgress = FALSE]
               named == [back EXCEPT !.username = name]
               cleared == [named EXCEPT !.password = Empty]
    <3>1. back \in Dialogs
      BY <1>1 DEF Dialogs
    <3> HIDE DEF back
    <3>2. named \in Dialogs
      BY <2>1, <3>1 DEF Dialogs
    <3> HIDE DEF named
    <3>3. cleared \in Dialogs
      BY <3>2 DEF Dialogs
    <3> HIDE DEF cleared
    <3>4. [cleared EXCEPT !.field = 1] \in Dialogs
      BY <3>3 DEF Dialogs
    <3>5. Saved!Again = [cleared EXCEPT !.field = 1]
      BY <1>1, <2>2 DEF Dialogs, back, named, cleared
    <3> QED BY <3>4, <3>5
  <2>4. Saved!Again.authMode /\ ~Saved!Again.authInProgress
    BY <1>1, <2>2 DEF Dialogs
  <2> QED BY <2>3, <2>4
<1>8. dialog' \in Dialogs /\ dialog'.authMode /\ ~dialog'.authInProgress
  BY <1>3, <1>7 DEF Dialogs
<1>9. creds' \in Kept
  BY <1>1, <1>3 DEF Kept
<1>10. ModelInv'
  BY <1>8, <1>9 DEF ModelInv, Dialogs, Kept, Saved!Passwords
<1> QED BY <1>2, <1>6, <1>10 DEF SavedInv

LEMMA FailsStep ==
    ASSUME Saved!SavedAssumption, SavedInv, Saved!LoginFails \/ Saved!Dismissed
    PROVE  SavedInv'
<1>1. box' = Saved!NoBox /\ UNCHANGED <<file, keyring, last, fileOpen, keyringUp, lookup>>
  BY DEF Saved!LoginFails, Saved!Dismissed, Saved!stores, Saved!static
<1>2. CASE Saved!LoginFails
  <2>1. PICK user : user = creds.user
    OBVIOUS
  <2>2. PICK pass : pass = creds.pass
    OBVIOUS
  <2>3. user \in Users
    BY <1>2, <2>1 DEF SavedInv, ModelInv, Saved!LoginFails
  <2>4. Saved!credsAfterRejection(user, pass)
    BY <1>2, <2>1, <2>2 DEF Saved!LoginFails
  <2> QED BY <1>1, <2>3, <2>4, RejectedStep
<1>3. CASE Saved!Dismissed
  <2>1. Saved!credsAfterRejection(Empty, Empty)
    BY <1>3 DEF Saved!Dismissed
  <2> QED BY <1>1, <2>1, RejectedStep
<1> QED BY <1>2, <1>3

\* %password is saved only by a user it let in, for that user.
LEMMA IssueStep ==
    ASSUME SavedInv, Saved!SavePassword \/ Saved!ForgetPassword
    PROVE  SavedInv'
<1>1. /\ UNCHANGED <<file, keyring, last, fileOpen, keyringUp, dialog, creds, lookup>>
      /\ box' = Saved!NoBox
  BY DEF Saved!SavePassword, Saved!ForgetPassword, Saved!Issue, Saved!stores, Saved!static
<1>2. PICK c : storeCmds' = storeCmds \cup {c} /\ CommandOK(c)
  <2>1. CASE Saved!SavePassword
    <3>1. PICK user : user = creds.user
      OBVIOUS
    <3>2. PICK pass : pass = creds.pass
      OBVIOUS
    <3> DEFINE saving == Saved!Command("save", user, pass, FALSE, Saved!Free)
    <3>3. user \in Users /\ pass = Right[user]
      BY <2>1, <3>1, <3>2 DEF SavedInv, ModelInv, Saved!SavePassword
    <3>4. pass \in Worked(user)
      BY <3>3 DEF Worked
    <3>5. CommandOK(saving)
      BY <3>3, <3>4, CommandIs
    <3>6. storeCmds' = storeCmds \cup {saving}
      BY <2>1, <3>1, <3>2 DEF Saved!SavePassword, Saved!Issue
    <3> HIDE DEF saving
    <3> QED BY <3>5, <3>6
  <2>2. CASE Saved!ForgetPassword
    <3>1. PICK user \in Users : Saved!Issue("forget", user, Empty)
      BY <2>2 DEF Saved!ForgetPassword
    <3> DEFINE forgetting == Saved!Command("forget", user, Empty, FALSE, Saved!Free)
    <3>2. CommandOK(forgetting)
      BY CommandIs
    <3>3. storeCmds' = storeCmds \cup {forgetting}
      BY <3>1 DEF Saved!Issue
    <3> HIDE DEF forgetting
    <3> QED BY <3>2, <3>3
  <2> QED BY <2>1, <2>2
<1>3. StoresInv' /\ LookupInv' /\ CommandsInv'
  <2> DEFINE more == {c}
  <2>1. storeCmds' = storeCmds \cup more /\ \A e \in more : CommandOK(e)
    BY <1>2
  <2> HIDE DEF more
  <2> QED BY <1>1, <2>1, CommandsJoin
<1>4. ModelInv'
  BY <1>1 DEF SavedInv, ModelInv, Dialogs, Kept, Saved!Passwords
<1>5. BoxInv'
  BY <1>1, BoxForgotten
<1> QED BY <1>3, <1>4, <1>5 DEF SavedInv

LEMMA SavedStep == Saved!SavedAssumption /\ SavedInv /\ [Saved!Next]_(Saved!vars) => SavedInv'
<1> SUFFICES ASSUME Saved!SavedAssumption, SavedInv, [Saved!Next]_(Saved!vars) PROVE SavedInv'
  OBVIOUS
<1>1. CASE Saved!RunCommand
  BY <1>1, RunStep
<1>2. CASE Saved!CommandAnswers
  BY <1>2, AnswerStep
<1>3. CASE Saved!RunLookup
  BY <1>3, LookupStep
<1>4. CASE Saved!ApplyCredsLoaded
  BY <1>4, LoadedStep
<1>5. CASE Saved!Tab \/ Saved!Type \/ Saved!Enter
  BY <1>5, DialogKeys
<1>6. CASE Saved!LoginWorks
  BY <1>6, WorksStep
<1>7. CASE Saved!LoginFails \/ Saved!Dismissed
  BY <1>7, FailsStep
<1>8. CASE Saved!SavePassword \/ Saved!ForgetPassword
  BY <1>8, IssueStep
<1>9. CASE UNCHANGED Saved!vars
  <2>1. UNCHANGED <<file, keyring, last, fileOpen, keyringUp, dialog, creds, lookup, storeCmds, box>>
    BY <1>9 DEF Saved!vars
  <2>2. StoresInv' /\ ModelInv' /\ LookupInv'
    BY <2>1 DEF SavedInv, StoresInv, ModelInv, LookupInv, Answered, Worked, Saved!Passwords,
                Dialogs, Kept
  <2>3. CommandsInv'
    BY <2>1 DEF SavedInv, CommandsInv, CommandOK, Worked
  <2>4. BoxInv'
    BY <2>1 DEF SavedInv, BoxInv, AsTicked, Waits, Saved!Lookup, Saved!InFile
  <2> QED BY <2>2, <2>3, <2>4 DEF SavedInv
<1> QED BY <1>1, <1>2, <1>3, <1>4, <1>5, <1>6, <1>7, <1>8, <1>9 DEF Saved!Next

\* Nothing but what Lily accepted is ever stored for a user, however logins,
\* lookups, store commands and keys interleave; and once the commands of a login that
\* worked are done, if no others were under way, the stores hold what the box asked
\* for, or, if the server was not known, what they held (credentials.go).
THEOREM PasswordsWork ==
    ASSUME Saved!SavedAssumption
    PROVE  Saved!Spec => []SavedPasswordsWork
<1>1. Saved!Init => SavedInv
  BY SavedInit
<1>2. SavedInv /\ [Saved!Next]_(Saved!vars) => SavedInv'
  BY SavedStep
<1>3. SavedInv => Saved!OnlyWorkingPasswordsAreSaved
  BY DEF SavedInv, StoresInv, Worked, Saved!OnlyWorkingPasswordsAreSaved
<1>4. SavedInv => Saved!BoxIsHonoured
  BY DEF SavedInv, BoxInv, Waits, Saved!BoxIsHonoured
<1> QED BY <1>1, <1>2, <1>3, <1>4, PTL DEF Saved!Spec, Saved!SavedPasswordsWork, SavedPasswordsWork

-----------------------------------------------------------------------------
(* The notes it prints unasked (Notices).                                    *)

NoticeKinds == {"text", "mosh", "tip", "hint"}
Told == {"tip", "hint"}
NoticeSession == [stateReady : BOOLEAN, tipsLoaded : BOOLEAN, noticesQueued : BOOLEAN,
             tipsEnabled : BOOLEAN, tipShown : BOOLEAN]

NoticeTypes ==
    /\ output \in Seq(NoticeKinds) /\ session \in NoticeSession /\ busy \in BOOLEAN
    /\ pace \in [settling : BOOLEAN, waited : Nat, heard : 0..Len(output)]
    /\ mosh \in {"unprobed", "asked", "found", "absent"}

\* The notes are queued once, and what was said is no longer to be said.
SaidInv ==
    /\ queue \in {<<>>, <<"tip">>, <<"mosh", "tip">>}
    /\ ~session.noticesQueued => queue = <<>>
    /\ session.noticesQueued => session.tipsLoaded
    /\ Occurrences(output, Told) <= 1 /\ Occurrences(output, {"mosh"}) <= 1
    /\ ~session.tipShown => Occurrences(output, Told) = 0
    /\ ~session.noticesQueued \/ queue = <<"mosh", "tip">> => Occurrences(output, {"mosh"}) = 0

\* One chain of ticks; output that came since the last look is more than it saw.
PaceInv ==
    /\ ticks = (IF queue = <<>> THEN 0 ELSE 1) /\ (pace.settling <=> queue # <<>>)
    /\ pace.settling /\ ~still => Len(output) > pace.heard

NoticeInv == NoticeTypes /\ SaidInv /\ PaceInv

LEMMA NoticeInit == Notice!Init => NoticeInv
<1> SUFFICES ASSUME Notice!Init PROVE NoticeInv
  OBVIOUS
<1>1. /\ output = <<>> /\ queue = <<>> /\ ticks = 0 /\ busy \in BOOLEAN /\ mosh = "unprobed"
      /\ pace = [settling |-> FALSE, waited |-> 0, heard |-> 0]
      /\ session = [stateReady |-> FALSE, tipsLoaded |-> FALSE, noticesQueued |-> FALSE,
                    tipsEnabled |-> TRUE, tipShown |-> FALSE]
  BY DEF Notice!Init
<1>2. output \in Seq(NoticeKinds) /\ Len(output) = 0
  BY <1>1
<1>3. NoticeTypes
  BY <1>1, <1>2 DEF NoticeTypes, NoticeSession
<1>4. Occurrences(output, Told) = 0 /\ Occurrences(output, {"mosh"}) = 0
  BY <1>1, CountEmpty
<1>5. SaidInv
  BY <1>1, <1>4 DEF SaidInv
<1>6. PaceInv
  BY <1>1 DEF PaceInv
<1> QED BY <1>3, <1>5, <1>6 DEF NoticeInv

\* The queue is one of three.
LEMMA QueueTail ==
    /\ Tail(<<"tip">>) = <<>> /\ Len(<<"tip">>) = 1
    /\ Tail(<<"mosh", "tip">>) = <<"tip">> /\ Len(<<"mosh", "tip">>) = 2
    /\ <<"tip">> # <<>> /\ <<"tip">> # <<"mosh", "tip">> /\ <<"mosh", "tip">> # <<>>
<1>1. /\ Tail(<<"tip">>) = <<>> /\ Len(<<"tip">>) = 1 /\ Len(<<"mosh", "tip">>) = 2
  OBVIOUS
<1>2. Tail(<<"mosh", "tip">>) = <<"tip">>
  OBVIOUS
<1>3. /\ <<"tip">> # <<>> /\ <<"tip">> # <<"mosh", "tip">> /\ <<"mosh", "tip">> # <<>>
  OBVIOUS
<1> QED BY <1>1, <1>2, <1>3

\* Steps that print nothing and queue nothing; what is known of the session stays.
LEMMA QuietStep ==
    ASSUME NoticeInv, UNCHANGED <<output, queue, pace, ticks, still>>,
           session' \in NoticeSession, busy' \in BOOLEAN, mosh' \in {"unprobed", "asked", "found", "absent"},
           session'.noticesQueued = session.noticesQueued, session'.tipShown = session.tipShown,
           session.tipsLoaded => session'.tipsLoaded
    PROVE  NoticeInv'
<1>1. NoticeTypes'
  BY DEF NoticeInv, NoticeTypes
<1>2. SaidInv'
  BY DEF NoticeInv, SaidInv, NoticeSession, NoticeTypes
<1>3. PaceInv'
  BY DEF NoticeInv, PaceInv
<1> QED BY <1>1, <1>2, <1>3 DEF NoticeInv

\* The state and the tips are there, in either order: the notes are queued.
LEMMA ReadyStep ==
    ASSUME NoticeInv, NEW s, s \in NoticeSession,
           s.noticesQueued = session.noticesQueued, s.tipShown = session.tipShown,
           session.tipsLoaded => s.tipsLoaded,
           Notice!queueSessionNoticesWhenReady(s), UNCHANGED <<output, busy, mosh>>
    PROVE  NoticeInv'
<1>1. CASE s.noticesQueued \/ ~s.stateReady \/ ~s.tipsLoaded
  <2>1. session' = s /\ Notice!queueNotice(<<>>)
    BY <1>1 DEF Notice!queueSessionNoticesWhenReady
  <2>2. UNCHANGED <<pace, ticks, still>> /\ queue' = queue
    BY <2>1 DEF Notice!queueNotice, NoticeInv, SaidInv
  <2> QED BY <2>1, <2>2, QuietStep DEF NoticeInv, NoticeTypes
<1>2. CASE ~(s.noticesQueued \/ ~s.stateReady \/ ~s.tipsLoaded)
  <2> DEFINE q == IF mosh # "unprobed" THEN <<"mosh", "tip">> ELSE <<"tip">>
  <2>1. session' = [s EXCEPT !.noticesQueued = TRUE] /\ Notice!queueNotice(q)
    BY <1>2 DEF Notice!queueSessionNoticesWhenReady
  <2>2. q \in {<<"tip">>, <<"mosh", "tip">>} /\ q # <<>>
    OBVIOUS
  <2> HIDE DEF q
  <2>3. queue = <<>> /\ ~session.noticesQueued /\ ~pace.settling /\ ticks = 0
    BY <1>2 DEF NoticeInv, SaidInv, PaceInv
  <2>4. queue' = q
    BY <2>1, <2>2, <2>3 DEF Notice!queueNotice
  <2>5. /\ ticks' = 1 /\ still' = TRUE
        /\ pace' = [settling |-> TRUE, waited |-> 0, heard |-> Len(output)]
    BY <2>1, <2>2, <2>3 DEF Notice!queueNotice
  <2>6. /\ session' \in NoticeSession /\ session'.noticesQueued /\ session'.tipsLoaded
        /\ session'.tipShown = session.tipShown
    BY <1>2, <2>1 DEF NoticeSession
  <2>7. NoticeTypes'
    BY <2>5, <2>6 DEF NoticeInv, NoticeTypes
  <2>8. SaidInv'
    BY <2>2, <2>3, <2>4, <2>6 DEF NoticeInv, SaidInv
  <2>9. PaceInv'
    BY <2>2, <2>4, <2>5 DEF PaceInv
  <2> QED BY <2>7, <2>8, <2>9 DEF NoticeInv
<1> QED BY <1>1, <1>2

\* Something else is printed.
LEMMA PrintStep ==
    ASSUME NoticeInv, NEW kind \in {"text", "hint"}, output' = Append(output, kind), still' = FALSE,
           UNCHANGED <<queue, pace, ticks, busy, mosh>>, session' \in NoticeSession,
           session'.noticesQueued = session.noticesQueued, session'.tipsLoaded = session.tipsLoaded,
           session.tipShown => session'.tipShown,
           kind = "hint" => ~session.tipShown /\ session'.tipShown
    PROVE  NoticeInv'
<1>1. /\ output \in Seq(NoticeKinds) /\ kind \in NoticeKinds
      /\ pace \in [settling : BOOLEAN, waited : Nat, heard : 0..Len(output)]
  BY DEF NoticeInv, NoticeTypes, NoticeKinds
<1>2. output' \in Seq(NoticeKinds) /\ Len(output') = Len(output) + 1 /\ Len(output) \in Nat
  BY <1>1
<1>3. Occurrences(output', Told) = Occurrences(output, Told) + (IF kind \in Told THEN 1 ELSE 0)
  BY <1>1, CountAppend
<1>4. Occurrences(output', {"mosh"}) = Occurrences(output, {"mosh"})
  <2>1. Occurrences(output', {"mosh"}) = Occurrences(output, {"mosh"}) + (IF kind \in {"mosh"} THEN 1 ELSE 0)
    BY <1>1, CountAppend
  <2>2. Occurrences(output, {"mosh"}) \in Nat
    BY <1>1, CountType
  <2> QED BY <2>1, <2>2
<1>5. kind \in Told <=> kind = "hint"
  BY DEF Told
<1>6. Occurrences(output, Told) \in Nat
  BY <1>1, CountType
<1>7. NoticeTypes'
  BY <1>1, <1>2 DEF NoticeInv, NoticeTypes
<1>8. SaidInv'
  BY <1>3, <1>4, <1>5, <1>6 DEF NoticeInv, SaidInv
<1>9. PaceInv'
  BY <1>1, <1>2 DEF NoticeInv, PaceInv
<1> QED BY <1>7, <1>8, <1>9 DEF NoticeInv

\* A note is said only if it may be show and has not been said, and a tip only
\* with the tips turned on.
LEMMA WordsAre ==
    ASSUME NoticeInv, queue # <<>>, NEW show \in BOOLEAN
    PROVE  \/ Notice!Words(show) = <<>>
           \/ /\ Notice!Words(show) = <<"mosh">> /\ show /\ queue = <<"mosh", "tip">>
           \/ /\ Notice!Words(show) = <<"tip">> /\ show /\ queue = <<"tip">>
              /\ session.tipsEnabled /\ ~session.tipShown /\ session.noticesQueued
<1>1. queue = <<"tip">> \/ queue = <<"mosh", "tip">>
  BY DEF NoticeInv, SaidInv
<1>2. session.noticesQueued
  BY DEF NoticeInv, SaidInv
<1>3. CASE queue = <<"tip">>
  <2>1. queue[1] = "tip"
    BY <1>3
  <2> QED BY <1>2, <1>3, <2>1 DEF Notice!Words
<1>4. CASE queue = <<"mosh", "tip">>
  <2>1. queue[1] = "mosh"
    BY <1>4
  <2> QED BY <1>4, <2>1 DEF Notice!Words
<1> QED BY <1>1, <1>3, <1>4

LEMMA SayStep ==
    ASSUME NoticeInv, queue # <<>>, NEW show \in BOOLEAN, NEW heard \in 0..Len(output),
           Notice!Say(show, heard), still' = TRUE, UNCHANGED <<busy, mosh>>
    PROVE  /\ NoticeInv'
           /\ output' # output =>
                /\ show
                /\ output'[Len(output')] = "tip" => session.tipsLoaded /\ session.tipsEnabled
<1>0. PICK said : said = Notice!Words(show)
  OBVIOUS
<1>1. /\ output' = output \o said /\ queue' = Tail(queue)
      /\ session' = [session EXCEPT !.tipShown = @ \/ said = <<"tip">>]
      /\ pace' = [settling |-> Len(queue) > 1, waited |-> 0,
                  heard |-> IF said = <<>> THEN heard ELSE Len(output')]
      /\ ticks' = IF Len(queue) > 1 THEN ticks ELSE ticks - 1
  BY <1>0 DEF Notice!Say
<1>2. /\ output \in Seq(NoticeKinds) /\ Len(output) \in Nat /\ session \in NoticeSession
      /\ queue = <<"tip">> \/ queue = <<"mosh", "tip">>
      /\ ticks = 1 /\ pace.settling
      /\ session.noticesQueued /\ session.tipsLoaded
  BY DEF NoticeInv, NoticeTypes, SaidInv, PaceInv
<1>3. /\ queue = <<"tip">> => Tail(queue) = <<>> /\ Len(queue) = 1
      /\ queue = <<"mosh", "tip">> => Tail(queue) = <<"tip">> /\ Len(queue) = 2
  BY QueueTail
<1>4. PaceInv'
  <2>1. pace'.settling = (Len(queue) > 1) /\ (Len(queue) > 1 <=> queue = <<"mosh", "tip">>)
    <3>1. pace'.settling = (Len(queue) > 1)
      BY <1>1
    <3>2. Len(queue) > 1 <=> queue = <<"mosh", "tip">>
      <4>1. CASE queue = <<"tip">>
        BY <1>3, <4>1, QueueTail
      <4>2. CASE queue = <<"mosh", "tip">>
        BY <1>3, <4>2
      <4> QED BY <1>2, <4>1, <4>2
    <3> QED BY <3>1, <3>2
  <2>2. ticks' = IF queue = <<"mosh", "tip">> THEN 1 ELSE 0
    BY <1>1, <1>2, <2>1
  <2>3. queue' # <<>> <=> queue = <<"mosh", "tip">>
    BY <1>1, <1>2, <1>3, QueueTail
  <2> QED BY <2>1, <2>2, <2>3 DEF PaceInv
<1>5. /\ session' \in NoticeSession /\ session'.noticesQueued /\ session'.tipsLoaded
      /\ ~session'.tipShown => ~session.tipShown /\ said # <<"tip">>
  <2> DEFINE told == session.tipShown \/ said = <<"tip">>
  <2>1. told \in BOOLEAN /\ session' = [session EXCEPT !.tipShown = told]
    BY <1>1, Zenon
  <2>2. ~told => ~session.tipShown /\ said # <<"tip">>
    OBVIOUS
  <2> HIDE DEF told
  <2> QED BY <1>2, <2>1, <2>2 DEF NoticeSession
<1>6. Occurrences(output, Told) \in Nat /\ Occurrences(output, {"mosh"}) \in Nat
  BY <1>2, CountType
<1>7. CASE said = <<>>
  <2>1. output' = output
    BY <1>1, <1>2, <1>7
  <2>2. NoticeTypes'
    BY <1>1, <1>2, <1>5, <1>7, <2>1 DEF NoticeInv, NoticeTypes
  <2>3. SaidInv'
    BY <1>1, <1>2, <1>3, <1>5, <2>1, QueueTail DEF NoticeInv, SaidInv
  <2> QED BY <1>4, <2>1, <2>2, <2>3 DEF NoticeInv
<1>8. ASSUME NEW kind \in {"mosh", "tip"}, said = <<kind>>
      PROVE  /\ output' = Append(output, kind) /\ NoticeTypes'
             /\ output'[Len(output')] = kind
             /\ Occurrences(output', Told) = Occurrences(output, Told) + (IF kind \in Told THEN 1 ELSE 0)
             /\ Occurrences(output', {"mosh"}) = Occurrences(output, {"mosh"}) + (IF kind \in {"mosh"} THEN 1 ELSE 0)
  <2>1. output' = Append(output, kind)
    BY <1>1, <1>2, <1>8
  <2>2. kind \in NoticeKinds
    BY DEF NoticeKinds
  <2>3. output' \in Seq(NoticeKinds) /\ Len(output') = Len(output) + 1 /\ output'[Len(output')] = kind
    BY <1>2, <2>1, <2>2
  <2>4. pace' \in [settling : BOOLEAN, waited : Nat, heard : 0..Len(output')]
    BY <1>1, <1>2, <1>3, <1>8, <2>3
  <2>5. NoticeTypes'
    BY <1>5, <2>3, <2>4 DEF NoticeInv, NoticeTypes
  <2> QED BY <1>2, <2>1, <2>2, <2>3, <2>5, CountAppend
<1>9. CASE said = <<"mosh">> /\ show /\ queue = <<"mosh", "tip">>
  <2>1. /\ NoticeTypes' /\ output'[Len(output')] = "mosh"
        /\ Occurrences(output', Told) = Occurrences(output, Told) + (IF "mosh" \in Told THEN 1 ELSE 0)
        /\ Occurrences(output', {"mosh"}) = Occurrences(output, {"mosh"}) + (IF "mosh" \in {"mosh"} THEN 1 ELSE 0)
    BY <1>8, <1>9
  <2>2. "mosh" \notin Told
    BY DEF Told
  <2>3. SaidInv'
    BY <1>1, <1>3, <1>5, <1>6, <1>9, <2>1, <2>2 DEF NoticeInv, SaidInv
  <2> QED BY <1>4, <1>9, <2>1, <2>3 DEF NoticeInv
<1>10. CASE /\ said = <<"tip">> /\ show /\ queue = <<"tip">>
            /\ session.tipsEnabled /\ ~session.tipShown /\ session.noticesQueued
  <2>1. /\ NoticeTypes' /\ output'[Len(output')] = "tip"
        /\ Occurrences(output', Told) = Occurrences(output, Told) + (IF "tip" \in Told THEN 1 ELSE 0)
        /\ Occurrences(output', {"mosh"}) = Occurrences(output, {"mosh"}) + (IF "tip" \in {"mosh"} THEN 1 ELSE 0)
    BY <1>8, <1>10
  <2>2. "tip" \in Told
    BY DEF Told
  <2>3. session'.tipShown
    BY <1>5, <1>10
  <2>4. SaidInv'
    BY <1>1, <1>3, <1>5, <1>6, <1>10, <2>1, <2>2, <2>3 DEF NoticeInv, SaidInv
  <2> QED BY <1>2, <1>4, <1>10, <2>1, <2>4 DEF NoticeInv
<1> QED BY <1>0, <1>7, <1>9, <1>10, WordsAre

\* A notice that is said was welcome.
LEMMA TickStep ==
    ASSUME Notice!NoticesAssumption, NoticeInv, Notice!Tick
    PROVE  NoticeInv' /\ Notice!Welcome
<1>1. ticks > 0 /\ still' = TRUE /\ UNCHANGED <<busy, mosh>>
  BY DEF Notice!Tick
<1>2. queue # <<>> /\ ticks = 1 /\ pace.settling
  BY <1>1 DEF NoticeInv, PaceInv
<1>3. /\ pace \in [settling : BOOLEAN, waited : Nat, heard : 0..Len(output)]
      /\ output \in Seq(NoticeKinds) /\ Len(output) \in Nat /\ QuietCap \in Nat /\ busy \in BOOLEAN
  BY DEF NoticeInv, NoticeTypes, Notice!NoticesAssumption
<1> DEFINE waited == pace.waited + 1
           moved == Len(output) # pace.heard
<1>4. \/ busy /\ Notice!Say(FALSE, pace.heard)
      \/ /\ \E heard \in {pace.heard, Len(output)} : Notice!Again(waited, heard)
      \/ /\ ~busy /\ ~(moved /\ waited < QuietCap) /\ Notice!Say(TRUE, Len(output))
  BY <1>2 DEF Notice!Tick, Notice!noticeSettle
<1>5. CASE busy /\ Notice!Say(FALSE, pace.heard)
  <2>1. PICK heard \in 0..Len(output) : heard = pace.heard
    BY <1>3
  <2> QED BY <1>1, <1>2, <1>5, <2>1, SayStep DEF Notice!Welcome
<1>6. CASE \E heard \in {pace.heard, Len(output)} : Notice!Again(waited, heard)
  <2>1. PICK heard \in 0..Len(output) :
          /\ pace' = [pace EXCEPT !.waited = waited, !.heard = heard]
          /\ UNCHANGED <<output, queue, session, ticks>>
    <3>1. PICK heard \in {pace.heard, Len(output)} : Notice!Again(waited, heard)
      BY <1>6
    <3>2. heard \in 0..Len(output)
      BY <1>3
    <3> QED BY <3>1, <3>2 DEF Notice!Again
  <2>2. NoticeTypes'
    <3>1. waited \in Nat
      BY <1>3
    <3> HIDE DEF waited
    <3>2. pace' \in [settling : BOOLEAN, waited : Nat, heard : 0..Len(output)]
      BY <1>3, <2>1, <3>1
    <3> QED BY <1>1, <2>1, <3>2 DEF NoticeInv, NoticeTypes
  <2>3. SaidInv'
    BY <2>1 DEF NoticeInv, SaidInv
  <2>4. PaceInv'
    BY <1>1, <1>3, <2>1 DEF NoticeInv, PaceInv
  <2> QED BY <2>1, <2>2, <2>3, <2>4 DEF NoticeInv, Notice!Welcome
<1>7. CASE ~busy /\ ~(moved /\ waited < QuietCap) /\ Notice!Say(TRUE, Len(output))
  <2>1. PICK heard \in 0..Len(output) : heard = Len(output)
    BY <1>3
  <2>2. still \/ waited >= QuietCap
    BY <1>2, <1>3, <1>7 DEF NoticeInv, PaceInv
  <2> QED BY <1>1, <1>2, <1>7, <2>1, <2>2, SayStep DEF Notice!Welcome
<1> QED BY <1>4, <1>5, <1>6, <1>7

LEMMA NoticeStep ==
    ASSUME Notice!NoticesAssumption, NoticeInv, [Notice!Next]_(Notice!vars)
    PROVE  NoticeInv' /\ Notice!Welcome
<1>0. session \in NoticeSession /\ busy \in BOOLEAN /\ mosh \in {"unprobed", "asked", "found", "absent"}
  BY DEF NoticeInv, NoticeTypes
<1>00. Len(queue) \in Nat
  BY QueueTail DEF NoticeInv, SaidInv
<1>1. CASE Notice!Tick
  BY <1>1, TickStep
<1>2. CASE Notice!TipsLoaded
  <2>1. PICK off \in BOOLEAN :
          Notice!queueSessionNoticesWhenReady([session EXCEPT !.tipsLoaded = TRUE, !.tipsEnabled = ~off])
    BY <1>2 DEF Notice!TipsLoaded
  <2>2. PICK s : s = [session EXCEPT !.tipsLoaded = TRUE, !.tipsEnabled = ~off]
    OBVIOUS
  <2>3. /\ s \in NoticeSession /\ s.noticesQueued = session.noticesQueued /\ s.tipShown = session.tipShown
        /\ s.tipsLoaded
    BY <1>0, <2>2 DEF NoticeSession
  <2>4. UNCHANGED <<output, busy, mosh>>
    BY <1>2 DEF Notice!TipsLoaded
  <2> QED BY <2>1, <2>2, <2>3, <2>4, ReadyStep DEF Notice!Welcome
<1>3. CASE Notice!StateArrives
  <2>1. PICK s : s = [session EXCEPT !.stateReady = TRUE]
    OBVIOUS
  <2>2. /\ s \in NoticeSession /\ s.noticesQueued = session.noticesQueued /\ s.tipShown = session.tipShown
        /\ s.tipsLoaded = session.tipsLoaded
    BY <1>0, <2>1 DEF NoticeSession
  <2>3. UNCHANGED <<output, busy, mosh>> /\ Notice!queueSessionNoticesWhenReady(s)
    BY <1>3, <2>1 DEF Notice!StateArrives
  <2> QED BY <2>2, <2>3, ReadyStep DEF Notice!Welcome
<1>4. CASE Notice!Output
  <2>1. /\ output' = Append(output, "text") /\ still' = FALSE
        /\ UNCHANGED <<queue, pace, ticks, busy, mosh, session>>
    BY <1>4 DEF Notice!Output
  <2>2. NoticeInv'
    BY <1>0, <2>1, PrintStep
  <2> QED BY <1>00, <2>1, <2>2 DEF Notice!Welcome
<1>5. CASE Notice!maybeShortenHint
  <2>1. /\ output' = Append(output, "hint") /\ still' = FALSE /\ ~session.tipShown
        /\ session' = [session EXCEPT !.tipShown = TRUE]
        /\ UNCHANGED <<queue, pace, ticks, busy, mosh>>
    BY <1>5 DEF Notice!maybeShortenHint
  <2>2. /\ session' \in NoticeSession /\ session'.noticesQueued = session.noticesQueued
        /\ session'.tipsLoaded = session.tipsLoaded /\ session'.tipShown
    BY <1>0, <2>1 DEF NoticeSession
  <2>3. NoticeInv'
    BY <2>1, <2>2, PrintStep
  <2> QED BY <1>00, <2>1, <2>3 DEF Notice!Welcome
<1>6. CASE Notice!LoggedIn \/ Notice!MoshAnswers \/ Notice!Ask \/ Notice!SetTips \/ Notice!SetLastCol
            \/ UNCHANGED Notice!vars
  <2>1. UNCHANGED <<output, queue, pace, ticks, still>>
    BY <1>6 DEF Notice!LoggedIn, Notice!MoshAnswers, Notice!Ask, Notice!SetTips, Notice!SetLastCol, Notice!vars
  <2>2. busy' \in BOOLEAN /\ mosh' \in {"unprobed", "asked", "found", "absent"}
    BY <1>0, <1>6 DEF Notice!LoggedIn, Notice!MoshAnswers, Notice!Ask, Notice!SetTips, Notice!SetLastCol, Notice!vars
  <2>3. session' = session \/ \E on \in BOOLEAN : session' = [session EXCEPT !.tipsEnabled = on]
    BY <1>6 DEF Notice!LoggedIn, Notice!MoshAnswers, Notice!Ask, Notice!SetTips, Notice!SetLastCol, Notice!vars
  <2>4. /\ session' \in NoticeSession /\ session'.noticesQueued = session.noticesQueued
        /\ session'.tipsLoaded = session.tipsLoaded /\ session'.tipShown = session.tipShown
    BY <1>0, <2>3 DEF NoticeSession
  <2> QED BY <2>1, <2>2, <2>4, QuietStep DEF Notice!Welcome
<1> QED BY <1>1, <1>2, <1>3, <1>4, <1>5, <1>6 DEF Notice!Next

\* One session prints one tip or reminder and one hint about mosh, by one chain of
\* timer ticks that runs exactly while something is queued, and each of them only
\* where Welcome lets it (notices.go noticeSettle, maybeShortenHint).
THEOREM NoticesAreWelcome ==
    ASSUME Notice!NoticesAssumption
    PROVE  Notice!Spec => NoticesKnowTheirPlace
<1>1. Notice!Init => NoticeInv
  BY NoticeInit
<1>2. NoticeInv /\ [Notice!Next]_(Notice!vars) => NoticeInv'
  BY NoticeStep
<1>3. NoticeInv /\ [Notice!Next]_(Notice!vars) => [Notice!Welcome]_(Notice!vars)
  BY NoticeStep
<1>4. NoticeInv => Notice!SaysEachThingOnce
  <2> SUFFICES ASSUME NoticeInv PROVE Notice!SaysEachThingOnce
    OBVIOUS
  <2>1. Cardinality(Notice!Said(Told)) <= 1 /\ Cardinality(Notice!Said({"mosh"})) <= 1
    BY Zenon DEF NoticeInv, SaidInv, Occurrences, Notice!Said
  <2>4. \A S : Notice!Cardinality(S) = Cardinality(S)
    BY Zenon DEF Cardinality, Notice!Cardinality
  <2>2. pace.settling = (queue # <<>>)
    BY Zenon DEF NoticeInv, NoticeTypes, PaceInv
  <2>3. ticks = (IF queue = <<>> THEN 0 ELSE 1)
    BY Zenon DEF NoticeInv, PaceInv
  <2> QED BY <2>1, <2>2, <2>3, <2>4, Zenon DEF Told, Notice!SaysEachThingOnce
<1> QED BY <1>1, <1>2, <1>3, <1>4, PTL DEF Notice!Spec, Notice!NoticesKnowTheirPlace,
                                           NoticesKnowTheirPlace

-----------------------------------------------------------------------------
(* The line being composed (ComposeLine), for any letters, bounds and       *)
(* widgets. The names below are its own, but for the history of its lines,  *)
(* inputHistory here, and its bound on lookups, MaxLookups here.            *)
\* The two sides of a place in a line, ...
LEMMA SidesOfPlace ==
    ASSUME NEW El, NEW s \in Seq(El), NEW at \in 0..Len(s)
    PROVE  /\ Editor!First(s, at) \in Seq(El) /\ Len(Editor!First(s, at)) = at
           /\ Editor!From(s, at) \in Seq(El) /\ Len(Editor!From(s, at)) = Len(s) - at
           /\ \A i \in 1..at : Editor!First(s, at)[i] = s[i]
           /\ \A i \in 1..(Len(s) - at) : Editor!From(s, at)[i] = s[at + i]
<1>1. /\ Len(s) \in Nat /\ at \in Nat /\ at <= Len(s) /\ 1 \in Int /\ at + 1 \in Int
      /\ \A i \in 1..at : s[i] \in El
      /\ \A i \in at + 1..Len(s) : s[i] \in El
  OBVIOUS
<1>2. /\ SubSeq(s, 1, at) \in Seq(El) /\ Len(SubSeq(s, 1, at)) = IF 1 <= at THEN at - 1 + 1 ELSE 0
      /\ \A i \in 1..(at - 1 + 1) : SubSeq(s, 1, at)[i] = s[1 + i - 1]
  BY <1>1, SubSeqProperties
<1>3. /\ SubSeq(s, at + 1, Len(s)) \in Seq(El)
      /\ Len(SubSeq(s, at + 1, Len(s))) = IF at + 1 <= Len(s) THEN Len(s) - (at + 1) + 1 ELSE 0
      /\ \A i \in 1..(Len(s) - (at + 1) + 1) : SubSeq(s, at + 1, Len(s))[i] = s[at + 1 + i - 1]
  BY <1>1, SubSeqProperties
<1>4. /\ Editor!First(s, at) = SubSeq(s, 1, at)
      /\ Editor!From(s, at) = SubSeq(s, at + 1, Len(s))
  BY Zenon DEF Editor!First, Editor!From
<1> DEFINE a == SubSeq(s, 1, at)
           b == SubSeq(s, at + 1, Len(s))
           N == Len(s)
<1>5. /\ a \in Seq(El) /\ Len(a) = at /\ \A i \in 1..at : a[i] = s[i]
  <2>1. at - 1 + 1 = at /\ \A i \in 1..at : 1 + i - 1 = i
    BY <1>1
  <2> QED BY <1>2, <1>1, <2>1
<1>6. b \in Seq(El) /\ Len(b) = N - at /\ \A i \in 1..(N - at) : b[i] = s[at + i]
  <2>1. N - (at + 1) + 1 = N - at /\ \A i \in 1..(N - at) : at + 1 + i - 1 = at + i
    BY <1>1
  <2>2. IF at + 1 <= N THEN N - (at + 1) + 1 = N - at ELSE 0 = N - at
    BY <1>1
  <2> HIDE DEF N, b
  <2>3. b \in Seq(El) /\ Len(b) = IF at + 1 <= N THEN N - (at + 1) + 1 ELSE 0
    BY <1>3, Zenon DEF N, b
  <2>4. \A i \in 1..(N - at) : b[i] = s[at + 1 + i - 1]
    BY <1>3, <2>1, Zenon DEF N, b
  <2> QED BY ONLY <2>1, <2>2, <2>3, <2>4, Zenon
<1> QED BY <1>4, <1>5, <1>6, Zenon

\* ... which together are the line, ...
LEMMA SidesAreAll ==
    ASSUME NEW El, NEW s \in Seq(El), NEW at \in 0..Len(s)
    PROVE  Editor!First(s, at) \o Editor!From(s, at) = s
<1>1. /\ 1 \in 1..Len(s) + 1 /\ at \in 0..Len(s) /\ Len(s) \in at..Len(s)
      /\ at \in (1 - 1)..Len(s)
  OBVIOUS
<1>2. SubSeq(s, 1, at) \o SubSeq(s, at + 1, Len(s)) = SubSeq(s, 1, Len(s))
  BY <1>1, ConcatAdjacentSubSeq
<1> QED BY <1>2, SubSeqFull, Zenon DEF Editor!First, Editor!From

\* Two parts that meet, ...
LEMMA PartsMeet ==
    ASSUME NEW El, NEW s \in Seq(El), NEW i \in 0..Len(s), NEW j \in i..Len(s), NEW k \in j..Len(s)
    PROVE  SubSeq(s, i + 1, j) \o SubSeq(s, j + 1, k) = SubSeq(s, i + 1, k)
<1>1. PICK m \in 1..Len(s) + 1 : m = i + 1 /\ m - 1 = i
  OBVIOUS
<1>2. j \in m - 1..Len(s)
  BY <1>1
<1>3. SubSeq(s, m, j) \o SubSeq(s, j + 1, k) = SubSeq(s, m, k)
  BY ONLY <1>2, s \in Seq(El), m \in 1..Len(s) + 1, k \in j..Len(s), ConcatAdjacentSubSeq
<1> QED BY <1>1, <1>3, Zenon

\* ... and are found again once something is put between them.
LEMMA SidesOfConcat ==
    ASSUME NEW El, NEW s \in Seq(El), NEW t \in Seq(El)
    PROVE  Editor!First(s \o t, Len(s)) = s /\ Editor!From(s \o t, Len(s)) = t
<1> DEFINE u == s \o t
           n == Len(s)
<1>1. /\ u \in Seq(El) /\ Len(u) = n + Len(t) /\ n \in Nat /\ Len(t) \in Nat
      /\ \A i \in 1..n + Len(t) : u[i] = IF i <= n THEN s[i] ELSE t[i - n]
  BY ConcatProperties, LenProperties
<1> HIDE DEF u
<1>2. n \in 0..Len(u) /\ Len(u) - n = Len(t)
  BY <1>1
<1>3. /\ Editor!First(u, n) \in Seq(El) /\ Len(Editor!First(u, n)) = n
      /\ Editor!From(u, n) \in Seq(El) /\ Len(Editor!From(u, n)) = Len(t)
      /\ \A i \in 1..n : Editor!First(u, n)[i] = u[i]
      /\ \A i \in 1..Len(t) : Editor!From(u, n)[i] = u[n + i]
  <2>1. /\ Editor!First(u, n) \in Seq(El) /\ Len(Editor!First(u, n)) = n
        /\ Editor!From(u, n) \in Seq(El) /\ Len(Editor!From(u, n)) = Len(u) - n
        /\ \A i \in 1..n : Editor!First(u, n)[i] = u[i]
        /\ \A i \in 1..(Len(u) - n) : Editor!From(u, n)[i] = u[n + i]
    BY ONLY <1>1, <1>2, SidesOfPlace
  <2> QED BY ONLY <2>1, <1>2
<1>4. \A i \in 1..n : Editor!First(u, n)[i] = s[i]
  <2>1. \A i \in 1..n : i \in 1..n + Len(t) /\ i <= n
    BY <1>1
  <2> QED BY <1>1, <1>3, <2>1, Zenon
<1>5. \A i \in 1..Len(t) : Editor!From(u, n)[i] = t[i]
  <2>1. \A i \in 1..Len(t) : n + i \in 1..n + Len(t) /\ ~(n + i <= n) /\ n + i - n = i
    BY <1>1
  <2>2. ASSUME NEW i \in 1..Len(t) PROVE u[n + i] = t[n + i - n]
    BY <1>1, <2>1
  <2>3. \A i \in 1..Len(t) : u[n + i] = t[i]
    BY ONLY <2>1, <2>2, Zenon
  <2> QED BY ONLY <1>3, <2>3, Zenon
<1>6. Editor!First(u, n) = s
  BY <1>3, <1>4, SeqEqual, Zenon
<1>7. Editor!From(u, n) = t
  BY <1>3, <1>5, SeqEqual, Zenon
<1> QED BY <1>6, <1>7 DEF u

\* What stamps two texts have together, ...
LEMMA StampsOfConcat ==
    ASSUME NEW El, NEW s \in Seq(El), NEW t \in Seq(El)
    PROVE  Editor!Stamps(s \o t) = Editor!Stamps(s) \cup Editor!Stamps(t)
<1> DEFINE u == s \o t
           n == Len(s)
<1>1. /\ u \in Seq(El) /\ Len(u) = n + Len(t) /\ n \in Nat /\ Len(t) \in Nat
      /\ \A i \in 1..n + Len(t) : u[i] = IF i <= n THEN s[i] ELSE t[i - n]
      /\ DOMAIN u = 1..Len(u) /\ DOMAIN s = 1..n /\ DOMAIN t = 1..Len(t)
  BY ConcatProperties, LenProperties
<1> HIDE DEF u
<1>2. ASSUME NEW i \in DOMAIN u
      PROVE  u[i] \in {s[j] : j \in DOMAIN s} \cup {t[j] : j \in DOMAIN t}
  <2>1. CASE i <= n
    <3>1. i \in DOMAIN s /\ u[i] = s[i]
      BY <1>1, <2>1
    <3> QED BY <3>1
  <2>2. CASE ~(i <= n)
    <3>1. i - n \in DOMAIN t /\ u[i] = t[i - n]
      BY <1>1, <2>2
    <3> QED BY <3>1
  <2> QED BY <2>1, <2>2
<1>3. ASSUME NEW i \in DOMAIN s PROVE i \in DOMAIN u /\ u[i] = s[i]
  BY <1>1
<1>4. ASSUME NEW i \in DOMAIN t PROVE n + i \in DOMAIN u /\ u[n + i] = t[i]
  <2>1. n + i \in 1..n + Len(t) /\ ~(n + i <= n) /\ n + i - n = i
    BY <1>1
  <2> QED BY <1>1, <2>1
<1>5. Editor!Stamps(u) \subseteq Editor!Stamps(s) \cup Editor!Stamps(t)
  BY <1>2 DEF Editor!Stamps
<1>6. Editor!Stamps(s) \subseteq Editor!Stamps(u)
  BY <1>3, Zenon DEF Editor!Stamps
<1>7. Editor!Stamps(t) \subseteq Editor!Stamps(u)
  BY <1>4 DEF Editor!Stamps
<1> QED BY <1>5, <1>6, <1>7, Zenon DEF u

LEMMA StampsOfOne ==
    ASSUME NEW x
    PROVE  /\ Editor!Stamps(<<x>>) = {x[2]} \ {0} /\ Editor!Stamps(<<>>) = {}
<1>1. DOMAIN <<x>> = {1} /\ <<x>>[1] = x /\ DOMAIN <<>> = {}
  OBVIOUS
<1> QED BY <1>1, Zenon DEF Editor!Stamps

\* ... and on the two sides of a place.
LEMMA StampsOfSides ==
    ASSUME NEW El, NEW s \in Seq(El), NEW at \in 0..Len(s)
    PROVE  Editor!Stamps(s)
             = Editor!Stamps(Editor!First(s, at)) \cup Editor!Stamps(Editor!From(s, at))
<1>1. /\ Editor!First(s, at) \in Seq(El) /\ Editor!From(s, at) \in Seq(El)
      /\ Editor!First(s, at) \o Editor!From(s, at) = s
  BY SidesOfPlace, SidesAreAll, Zenon
<1>2. Editor!Stamps(Editor!First(s, at) \o Editor!From(s, at))
        = Editor!Stamps(Editor!First(s, at)) \cup Editor!Stamps(Editor!From(s, at))
  BY <1>1, StampsOfConcat, Zenon
<1> QED BY <1>1, <1>2, Zenon

\* What is put in a line is in it, and all that was, before and after the place.
LEMMA PutInLine ==
    ASSUME NEW El, NEW s \in Seq(El), NEW at \in 0..Len(s), NEW new \in Seq(El)
    PROVE  /\ Editor!Put(s, at, new) \in Seq(El)
           /\ Len(Editor!Put(s, at, new)) = Len(s) + Len(new)
           /\ at + Len(new) \in 0..Len(Editor!Put(s, at, new))
           /\ Editor!Stamps(Editor!Put(s, at, new)) = Editor!Stamps(s) \cup Editor!Stamps(new)
           /\ Editor!First(Editor!Put(s, at, new), at + Len(new)) = Editor!First(s, at) \o new
<1> DEFINE a == Editor!First(s, at)
           b == Editor!From(s, at)
<1>1. /\ a \in Seq(El) /\ Len(a) = at /\ b \in Seq(El) /\ Len(b) = Len(s) - at
  BY SidesOfPlace, Zenon
<1>2. Editor!Stamps(s) = Editor!Stamps(a) \cup Editor!Stamps(b)
  BY StampsOfSides, Zenon
<1>3. Editor!Put(s, at, new) = a \o new \o b
  BY Zenon DEF Editor!Put
<1> HIDE DEF a, b
<1>4. /\ a \o new \in Seq(El) /\ Len(a \o new) = at + Len(new)
      /\ Editor!Stamps(a \o new) = Editor!Stamps(a) \cup Editor!Stamps(new)
  BY <1>1, ConcatProperties, StampsOfConcat
<1> DEFINE c == a \o new
<1> HIDE DEF c
<1>5. /\ c \o b \in Seq(El) /\ Len(c \o b) = Len(c) + Len(b)
      /\ Editor!Stamps(c \o b) = Editor!Stamps(c) \cup Editor!Stamps(b)
      /\ Editor!First(c \o b, Len(c)) = c
  <2>1. c \in Seq(El)
    BY <1>4 DEF c
  <2>2. c \o b \in Seq(El) /\ Len(c \o b) = Len(c) + Len(b)
    BY ONLY <1>1, <2>1, ConcatProperties
  <2>3. Editor!Stamps(c \o b) = Editor!Stamps(c) \cup Editor!Stamps(b)
    BY ONLY <1>1, <2>1, StampsOfConcat
  <2>4. Editor!First(c \o b, Len(c)) = c
    BY ONLY <1>1, <2>1, SidesOfConcat
  <2> QED BY <2>2, <2>3, <2>4
<1>6. /\ Len(c) = at + Len(new) /\ Editor!Stamps(c) = Editor!Stamps(a) \cup Editor!Stamps(new)
      /\ Editor!Put(s, at, new) = c \o b /\ Len(new) \in Nat /\ Len(s) \in Nat
  BY <1>3, <1>4, LenProperties DEF c
<1>7. Len(c \o b) = Len(s) + Len(new) /\ at + Len(new) \in 0..Len(c \o b)
  <2>1. Len(c \o b) = at + Len(new) + (Len(s) - at)
    BY <1>1, <1>5, <1>6, Zenon
  <2> QED BY <2>1, <1>6
<1>8. Editor!Stamps(c \o b) = Editor!Stamps(s) \cup Editor!Stamps(new)
  BY <1>2, <1>5, <1>6, Zenon
<1>9. Editor!First(c \o b, at + Len(new)) = a \o new
  BY <1>5, <1>6, Zenon DEF c
<1> QED BY <1>5, <1>6, <1>7, <1>8, <1>9, Zenon DEF a

LEMMA PutStamps ==
    ASSUME NEW El, NEW s \in Seq(El), NEW at \in 0..Len(s), NEW new \in Seq(El)
    PROVE  Editor!Stamps(Editor!Put(s, at, new)) = Editor!Stamps(s) \cup Editor!Stamps(new)
BY PutInLine

LEMMA PutPrefix ==
    ASSUME NEW El, NEW s \in Seq(El), NEW at \in 0..Len(s), NEW new \in Seq(El)
    PROVE  Editor!First(Editor!Put(s, at, new), at + Len(new)) = Editor!First(s, at) \o new
BY PutInLine

\* Texts put together in either order
LEMMA Together ==
    ASSUME NEW Kind
    PROVE  \A x, y, z \in Seq(Kind) : x \o y \o z = x \o (y \o z)
BY ConcatAssociative

LEMMA JoinCut ==
    ASSUME NEW Kind, NEW s \in Seq(Kind), NEW from \in 0..Len(s), NEW to \in from..Len(s)
    PROVE  Editor!First(s, from) \o SubSeq(s, from + 1, to) = Editor!First(s, to)
<1>1. 0 \in 0..Len(s) /\ from \in 0..Len(s) /\ to \in from..Len(s) /\ 0 + 1 = 1
  BY LenProperties
<1>2. SubSeq(s, 0 + 1, from) \o SubSeq(s, from + 1, to) = SubSeq(s, 0 + 1, to)
  BY ONLY <1>1, s \in Seq(Kind), PartsMeet, Zenon
<1>3. SubSeq(s, 1, from) \o SubSeq(s, from + 1, to) = SubSeq(s, 1, to)
  BY ONLY <1>1, <1>2, Zenon
<1> QED BY <1>3, Zenon DEF Editor!First


\* What is cut out of a line ...
LEMMA CutOut ==
    ASSUME NEW Kind, NEW s \in Seq(Kind), NEW from \in 0..Len(s), NEW to \in from..Len(s)
    PROVE  /\ SubSeq(s, from + 1, to) \in Seq(Kind) /\ Len(SubSeq(s, from + 1, to)) = to - from
           /\ Editor!First(s, from) \o Editor!From(s, to) \in Seq(Kind)
           /\ Len(Editor!First(s, from) \o Editor!From(s, to)) = Len(s) - (to - from)
           /\ Editor!Stamps(s) = Editor!Stamps(Editor!First(s, from) \o Editor!From(s, to))
                                   \cup Editor!Stamps(SubSeq(s, from + 1, to))
           /\ Editor!First(s, from) \o SubSeq(s, from + 1, to) = Editor!First(s, to)
           /\ SubSeq(s, from + 1, to) \o Editor!From(s, to) = Editor!From(s, from)
<1> DEFINE cut == SubSeq(s, from + 1, to)
           a == Editor!First(s, from)
           b == Editor!From(s, to)
           rest == a \o b
<1>1. /\ from \in 0..Len(s) /\ to \in 0..Len(s) /\ Len(s) \in Nat /\ from \in Nat /\ to \in Nat
      /\ from <= to /\ to <= Len(s) /\ from + 1 \in Int /\ to \in Int
  BY LenProperties
<1>2. cut \in Seq(Kind) /\ Len(cut) = to - from
  <2>1. \A i \in from + 1..to : s[i] \in Kind
    BY <1>1
  <2>2. SubSeq(s, from + 1, to) \in Seq(Kind)
        /\ Len(SubSeq(s, from + 1, to)) = IF from + 1 <= to THEN to - (from + 1) + 1 ELSE 0
    BY <1>1, <2>1, SubSeqProperties, Zenon
  <2> QED BY <2>2, <1>1
<1>3. a \in Seq(Kind) /\ Len(a) = from /\ b \in Seq(Kind) /\ Len(b) = Len(s) - to
  BY <1>1, SidesOfPlace, Zenon
<1>4. a \o cut = Editor!First(s, to)
  <2>1. 0 \in 0..Len(s) /\ from \in 0..Len(s) /\ to \in from..Len(s) /\ 0 + 1 = 1
    BY <1>1
  <2>2. SubSeq(s, 0 + 1, from) \o SubSeq(s, from + 1, to) = SubSeq(s, 0 + 1, to)
    BY ONLY <2>1, s \in Seq(Kind), PartsMeet, Zenon
  <2>3. SubSeq(s, 1, from) \o SubSeq(s, from + 1, to) = SubSeq(s, 1, to)
    BY ONLY <2>1, <2>2, Zenon
  <2> QED BY <2>3, Zenon DEF Editor!First
<1>5. cut \o b = Editor!From(s, from)
  <2>1. Len(s) \in to..Len(s)
    BY <1>1
  <2>2. SubSeq(s, from + 1, to) \o SubSeq(s, to + 1, Len(s)) = SubSeq(s, from + 1, Len(s))
    BY <2>1, PartsMeet, Zenon
  <2> QED BY <2>2, Zenon DEF Editor!From
<1>9. /\ rest \in Seq(Kind) /\ Len(rest) = Len(s) - (to - from)
  <2>1. rest \in Seq(Kind) /\ Len(rest) = Len(a) + Len(b)
    BY <1>3, ConcatProperties, Zenon
  <2> HIDE DEF rest, a, b
  <2> QED BY <2>1, <1>1, <1>3
<1>10. Editor!Stamps(s) = Editor!Stamps(rest) \cup Editor!Stamps(cut)
  <2>1. Editor!Stamps(s) = Editor!Stamps(Editor!First(s, to)) \cup Editor!Stamps(b)
    BY <1>1, StampsOfSides, Zenon
  <2>2. Editor!Stamps(a \o cut) = Editor!Stamps(a) \cup Editor!Stamps(cut)
    BY <1>2, <1>3, StampsOfConcat, Zenon
  <2>3. Editor!Stamps(rest) = Editor!Stamps(a) \cup Editor!Stamps(b)
    BY <1>3, StampsOfConcat, Zenon
  <2> QED BY <2>1, <2>2, <2>3, <1>4, Zenon
<1> QED BY <1>2, <1>4, <1>5, <1>9, <1>10, Zenon

LEMMA CutLength ==
    ASSUME NEW Kind, NEW s \in Seq(Kind), NEW from \in 0..Len(s), NEW to \in from..Len(s)
    PROVE  Len(SubSeq(s, from + 1, to)) = to - from
BY CutOut

LEMMA RestLength ==
    ASSUME NEW Kind, NEW s \in Seq(Kind), NEW from \in 0..Len(s), NEW to \in from..Len(s)
    PROVE  Len(Editor!First(s, from) \o Editor!From(s, to)) = Len(s) - (to - from)
BY CutOut

LEMMA CutStamps ==
    ASSUME NEW Kind, NEW s \in Seq(Kind), NEW from \in 0..Len(s), NEW to \in from..Len(s)
    PROVE  Editor!Stamps(s) = Editor!Stamps(Editor!First(s, from) \o Editor!From(s, to))
                                \cup Editor!Stamps(SubSeq(s, from + 1, to))
BY CutOut

\* ... and put back where it was, alone or joined to what was cut out beside it
\* before.
ComesBack(s, ring, from, to) ==
    /\ Editor!Put(Editor!First(s, from) \o Editor!From(s, to), from,
                  SubSeq(s, from + 1, to)) = s
    /\ Editor!Put(Editor!First(s, from) \o Editor!From(s, to), from,
                  SubSeq(s, from + 1, to) \o ring) = Editor!Put(s, to, ring)
    /\ Editor!Put(Editor!First(s, from) \o Editor!From(s, to), from,
                  ring \o SubSeq(s, from + 1, to)) = Editor!Put(s, from, ring)

LEMMA PutBack ==
    ASSUME NEW El, NEW s, NEW ring, NEW from, NEW to, s \in Seq(El), ring \in Seq(El),
           from \in 0..Len(s), to \in from..Len(s)
    PROVE  ComesBack(s, ring, from, to)
<1>0. \A x, y, z \in Seq(El) : x \o y \o z = x \o (y \o z)
  BY ONLY Together
<1> DEFINE cut == SubSeq(s, from + 1, to)
           a == Editor!First(s, from)
           b == Editor!From(s, to)
           rest == a \o b
<1>1. /\ from \in 0..Len(s) /\ to \in 0..Len(s)
  BY LenProperties
<1>2. cut \in Seq(El)
  BY CutOut
<1>3. a \in Seq(El) /\ Len(a) = from /\ b \in Seq(El)
  BY <1>1, SidesOfPlace, Zenon
<1>4. a \o cut = Editor!First(s, to)
  BY CutOut
<1>5. cut \o b = Editor!From(s, from)
  BY CutOut
<1>6. a \o Editor!From(s, from) = s /\ Editor!First(s, to) \o b = s
  BY <1>1, SidesAreAll, Zenon
<1>7. /\ Editor!Put(s, to, ring) = Editor!First(s, to) \o ring \o b
      /\ Editor!Put(s, from, ring) = a \o ring \o Editor!From(s, from)
  BY Zenon DEF Editor!Put
<1>8. \A x \in Seq(El) : Editor!Put(rest, from, x) = a \o x \o b
  <2> SUFFICES ASSUME NEW x \in Seq(El) PROVE Editor!Put(rest, from, x) = a \o x \o b
    OBVIOUS
  <2>1. Editor!First(a \o b, from) = a /\ Editor!From(a \o b, from) = b
    <3>1. Editor!First(a \o b, Len(a)) = a /\ Editor!From(a \o b, Len(a)) = b
      BY <1>3, SidesOfConcat, Zenon
    <3> QED BY <3>1, <1>3, Zenon
  <2> QED BY <2>1, Zenon DEF Editor!Put
<1>11. Editor!Put(rest, from, cut) = s
  <2>1. Editor!Put(rest, from, cut) = a \o cut \o b
    BY <1>8, <1>2, Zenon
  <2> QED BY <2>1, <1>4, <1>6, Zenon
<1>12. Editor!Put(rest, from, cut \o ring) = Editor!Put(s, to, ring)
  <2>1. cut \o ring \in Seq(El)
    BY <1>2, ConcatProperties, Zenon
  <2>2. Editor!Put(rest, from, cut \o ring) = a \o (cut \o ring) \o b
    BY <1>8, <2>1, Zenon
  <2> HIDE DEF a, cut, b
  <2>3. a \o (cut \o ring) = (a \o cut) \o ring
    BY <1>0, <1>2, <1>3, Zenon
  <2> QED BY <2>2, <2>3, <1>4, <1>7, Zenon
<1>13. Editor!Put(rest, from, ring \o cut) = Editor!Put(s, from, ring)
  <2>1. ring \o cut \in Seq(El) /\ a \o ring \in Seq(El)
    BY <1>2, <1>3, ConcatProperties, Zenon
  <2>2. Editor!Put(rest, from, ring \o cut) = a \o (ring \o cut) \o b
    BY <1>8, <2>1, Zenon
  <2> HIDE DEF a, cut, b
  <2>3. a \o (ring \o cut) = (a \o ring) \o cut
    BY <1>0, <1>2, <1>3, Zenon
  <2>4. ((a \o ring) \o cut) \o b = (a \o ring) \o (cut \o b)
    <3> DEFINE e == a \o ring
    <3> HIDE DEF e
    <3>1. e \in Seq(El)
      BY <2>1 DEF e
    <3>2. e \o cut \o b = e \o (cut \o b)
      BY <1>0, <3>1, <1>2, <1>3, Zenon
    <3> QED BY <3>2 DEF e
  <2> QED BY <2>2, <2>3, <2>4, <1>5, <1>7, Zenon
<1> QED BY <1>11, <1>12, <1>13, Zenon DEF ComesBack

LEMMA CutOfOne ==
    ASSUME NEW El, NEW s \in Seq(El), NEW i \in 1..Len(s)
    PROVE  SubSeq(s, i, i) = <<s[i]>>
<1>1. i \in Int /\ s[i] \in El /\ \A j \in i..i : s[j] \in El
  OBVIOUS
<1>2. /\ SubSeq(s, i, i) \in Seq(El) /\ Len(SubSeq(s, i, i)) = IF i <= i THEN i - i + 1 ELSE 0
      /\ \A j \in 1..(i - i + 1) : SubSeq(s, i, i)[j] = s[i + j - 1]
  BY <1>1, SubSeqProperties
<1> DEFINE t == SubSeq(s, i, i)
<1>3. t \in Seq(El) /\ Len(t) = 1 /\ t[1] = s[i]
  <2>1. i - i + 1 = 1 /\ i + 1 - 1 = i /\ 1 \in 1..1 /\ i <= i
    BY <1>1
  <2> QED BY <1>2, <2>1
<1> HIDE DEF t
<1>4. /\ <<s[i]>> \in Seq(El) /\ Len(<<s[i]>>) = 1 /\ <<s[i]>>[1] = s[i]
  BY <1>1
<1>5. \A j \in 1..Len(t) : t[j] = <<s[i]>>[j]
  BY <1>3, <1>4
<1>6. t = <<s[i]>>
  BY <1>3, <1>4, <1>5, SeqEqual, Zenon
<1> QED BY <1>6 DEF t

\* One atom of a line exchanged for others of the same stamps: what was before
\* the cursor stays before it, if the cursor goes on by what the line has grown.
Exchanged(El, s, i, new, c, t) ==
    /\ t \in Seq(El) /\ Len(t) = Len(s) - 1 + Len(new)
    /\ Editor!Stamps(t) = Editor!Stamps(s)
    /\ c < i => Editor!First(t, c) = Editor!First(s, c)
    /\ c >= i => Editor!Stamps(Editor!First(t, c - 1 + Len(new)))
                   = Editor!Stamps(Editor!First(s, c))
LEMMA ExchangeOne ==
    ASSUME NEW El, NEW s, NEW i, NEW new, NEW c, s \in Seq(El), i \in 1..Len(s),
           new \in Seq(El), Editor!Stamps(new) = Editor!Stamps(<<s[i]>>), c \in 0..Len(s)
    PROVE  Exchanged(El, s, i, new, c, Editor!First(s, i - 1) \o new \o Editor!From(s, i))
<1>0. \A x, y, z \in Seq(El) : x \o y \o z = x \o (y \o z)
  BY ONLY Together
<1> DEFINE a == Editor!First(s, i - 1)
           b == Editor!From(s, i)
           t == a \o new \o b
<1>1. /\ i \in Nat /\ i - 1 \in 0..Len(s) /\ i \in (i - 1)..Len(s) /\ Len(s) \in Nat /\ Len(new) \in Nat
      /\ i - 1 + 1 = i /\ i \in 0..Len(s) /\ c \in Nat /\ c <= Len(s)
  BY LenProperties
<1>2. /\ a \in Seq(El) /\ Len(a) = i - 1 /\ b \in Seq(El) /\ Len(b) = Len(s) - i
  BY <1>1, SidesOfPlace, Zenon
<1>3. SubSeq(s, i - 1 + 1, i) = <<s[i]>>
  BY <1>1, CutOfOne, Zenon
<1>4. /\ <<s[i]>> \in Seq(El) /\ <<>> \in Seq(El)
      /\ Editor!Stamps(s) = Editor!Stamps(a \o b) \cup Editor!Stamps(<<s[i]>>)
      /\ a \o <<s[i]>> = Editor!First(s, i)
  <2>1. <<>> \in Seq(El) /\ <<s[i]>> \in Seq(El)
    BY EmptySeq
  <2>2. PICK j \in 0..Len(s) : j = i - 1
    BY <1>1
  <2>3. i \in j..Len(s) /\ SubSeq(s, j + 1, i) = <<s[i]>>
    BY <1>1, <1>3, <2>2, Zenon
  <2>4. /\ Editor!Stamps(s) = Editor!Stamps(Editor!First(s, j) \o Editor!From(s, i))
                                \cup Editor!Stamps(SubSeq(s, j + 1, i))
        /\ Editor!First(s, j) \o SubSeq(s, j + 1, i) = Editor!First(s, i)
    <3>1. Editor!First(s, j) \o SubSeq(s, j + 1, i) = Editor!First(s, i)
      BY ONLY s \in Seq(El), j \in 0..Len(s), <2>3, JoinCut, Zenon
    <3>2. Editor!Stamps(s) = Editor!Stamps(Editor!First(s, j) \o Editor!From(s, i))
                               \cup Editor!Stamps(SubSeq(s, j + 1, i))
      BY ONLY s \in Seq(El), j \in 0..Len(s), <2>3, CutStamps
    <3> QED BY <3>1, <3>2
  <2> QED BY <2>1, <2>2, <2>3, <2>4, Zenon
<1>5. a \o new \in Seq(El) /\ Len(a \o new) = i - 1 + Len(new)
  <2>1. a \o new \in Seq(El) /\ Len(a \o new) = Len(a) + Len(new)
    BY <1>2, ConcatProperties, Zenon
  <2> QED BY <2>1, <1>2, Zenon
<1>6. t \in Seq(El) /\ Len(t) = i - 1 + Len(new) + (Len(s) - i)
  <2>1. t \in Seq(El) /\ Len(t) = Len(a \o new) + Len(b)
    BY <1>2, <1>5, ConcatProperties, Zenon
  <2> QED BY <2>1, <1>2, <1>5, Zenon
<1>7. Editor!Stamps(t) = Editor!Stamps(s)
  <2>1. /\ Editor!Stamps(t) = Editor!Stamps(a \o new) \cup Editor!Stamps(b)
        /\ Editor!Stamps(a \o new) = Editor!Stamps(a) \cup Editor!Stamps(new)
        /\ Editor!Stamps(a \o b) = Editor!Stamps(a) \cup Editor!Stamps(b)
    <3> DEFINE e == a \o new
    <3> HIDE DEF e, a, b
    <3>1. e \in Seq(El)
      BY <1>5 DEF e
    <3>2. Editor!Stamps(e \o b) = Editor!Stamps(e) \cup Editor!Stamps(b)
      BY ONLY <3>1, <1>2, StampsOfConcat
    <3>3. /\ Editor!Stamps(a \o new) = Editor!Stamps(a) \cup Editor!Stamps(new)
          /\ Editor!Stamps(a \o b) = Editor!Stamps(a) \cup Editor!Stamps(b)
      BY ONLY <1>2, new \in Seq(El), StampsOfConcat
    <3> QED BY <3>2, <3>3 DEF e
  <2> QED BY <2>1, <1>4, Zenon
<1>8. ASSUME c < i PROVE Editor!First(t, c) = Editor!First(s, c)
  <2> DEFINE p == Editor!First(s, c)
             q == SubSeq(s, c + 1, i - 1)
  <2>1. /\ c \in 0..Len(s) /\ i - 1 \in c..Len(s)
    BY <1>1, <1>8
  <2>2. PICK j \in c..Len(s) : j = i - 1
    BY <2>1
  <2>3. p \o q = a /\ q \in Seq(El)
    <3>1. /\ SubSeq(s, c + 1, j) \in Seq(El)
          /\ Editor!First(s, c) \o SubSeq(s, c + 1, j) = Editor!First(s, j)
      <4>1. SubSeq(s, c + 1, j) \in Seq(El)
        BY ONLY s \in Seq(El), c \in 0..Len(s), j \in c..Len(s), CutOut, Zenon
      <4>2. Editor!First(s, c) \o SubSeq(s, c + 1, j) = Editor!First(s, j)
        BY ONLY s \in Seq(El), c \in 0..Len(s), j \in c..Len(s), JoinCut, Zenon
      <4> QED BY <4>1, <4>2
    <3> QED BY <2>2, <3>1, Zenon
  <2>4. p \in Seq(El) /\ Len(p) = c
    BY SidesOfPlace, Zenon
  <2> HIDE DEF p, q
  <2>5. /\ new \o b \in Seq(El) /\ q \o (new \o b) \in Seq(El)
    BY <1>2, <2>3, ConcatProperties, Zenon
  <2>6. t = p \o (q \o (new \o b))
    <3> HIDE DEF a, b
    <3>1. (a \o new) \o b = a \o (new \o b)
      BY <1>0, <1>2, Zenon
    <3>2. (p \o q) \o (new \o b) = p \o (q \o (new \o b))
      BY <1>0, <2>3, <2>4, <2>5, Zenon
    <3> QED BY <3>1, <3>2, <2>3, Zenon
  <2>7. Editor!First(p \o (q \o (new \o b)), Len(p)) = p
    BY <2>4, <2>5, SidesOfConcat, Zenon
  <2> QED BY <2>4, <2>6, <2>7, Zenon DEF p
<1>9. ASSUME c >= i
      PROVE  Editor!Stamps(Editor!First(t, c - 1 + Len(new))) = Editor!Stamps(Editor!First(s, c))
  <2> DEFINE q == SubSeq(s, i + 1, c)
             d == Editor!From(s, c)
             r == (a \o new) \o q
  <2>1. i \in 0..Len(s) /\ c \in i..Len(s)
    BY <1>1, <1>9
  <2>3. Editor!First(s, i) \o q = Editor!First(s, c) /\ q \in Seq(El) /\ Len(q) = c - i
    <3>1. Editor!First(s, i) \o SubSeq(s, i + 1, c) = Editor!First(s, c)
      BY ONLY s \in Seq(El), <2>1, JoinCut, Zenon
    <3>2. SubSeq(s, i + 1, c) \in Seq(El)
      BY ONLY s \in Seq(El), <2>1, CutOut, Zenon
    <3>3. Len(SubSeq(s, i + 1, c)) = c - i
      BY ONLY s \in Seq(El), <2>1, CutLength, Zenon
    <3> QED BY <3>1, <3>2, <3>3
  <2>4. d \in Seq(El) /\ q \o d = b
    <3>1. Len(s) \in c..Len(s)
      BY <1>1, <1>9
    <3>2. SubSeq(s, i + 1, c) \o SubSeq(s, c + 1, Len(s)) = SubSeq(s, i + 1, Len(s))
      BY <2>1, <3>1, PartsMeet, Zenon
    <3>3. d \in Seq(El)
      BY SidesOfPlace, Zenon
    <3> QED BY <3>2, <3>3, Zenon DEF Editor!From
  <2> HIDE DEF q, d
  <2>5. r \in Seq(El) /\ Len(r) = i - 1 + Len(new) + (c - i)
    <3>1. r \in Seq(El) /\ Len(r) = Len(a \o new) + Len(q)
      BY <1>5, <2>3, ConcatProperties, Zenon
    <3> QED BY <3>1, <1>5, <2>3, Zenon
  <2>6. t = r \o d
    <3> DEFINE e == a \o new
    <3> HIDE DEF e
    <3>1. e \in Seq(El)
      BY <1>5 DEF e
    <3>2. e \o q \o d = e \o (q \o d)
      BY <1>0, <3>1, <2>3, <2>4, Zenon
    <3>3. r \o d = (a \o new) \o (q \o d)
      BY <3>2 DEF e
    <3> QED BY <3>3, <2>4, Zenon
  <2>7. Editor!First(r \o d, Len(r)) = r
    BY <2>4, <2>5, SidesOfConcat, Zenon
  <2>8. i - 1 + Len(new) + (c - i) = c - 1 + Len(new)
    BY <1>1
  <2>9. Editor!First(t, c - 1 + Len(new)) = r
    BY <2>5, <2>6, <2>7, <2>8, Zenon
  <2>10. /\ Editor!Stamps(r) = Editor!Stamps(a \o new) \cup Editor!Stamps(q)
         /\ Editor!Stamps(a \o new) = Editor!Stamps(a) \cup Editor!Stamps(new)
    <3> DEFINE e == a \o new
    <3> HIDE DEF e, a, b
    <3>1. e \in Seq(El)
      BY <1>5 DEF e
    <3>2. Editor!Stamps(e \o q) = Editor!Stamps(e) \cup Editor!Stamps(q)
      BY ONLY <3>1, <2>3, StampsOfConcat
    <3>3. Editor!Stamps(a \o new) = Editor!Stamps(a) \cup Editor!Stamps(new)
      BY ONLY <1>2, new \in Seq(El), StampsOfConcat
    <3> QED BY <3>2, <3>3 DEF e
  <2>11. /\ Editor!Stamps(Editor!First(s, i) \o q)
              = Editor!Stamps(Editor!First(s, i)) \cup Editor!Stamps(q)
         /\ Editor!Stamps(a \o <<s[i]>>) = Editor!Stamps(a) \cup Editor!Stamps(<<s[i]>>)
    <3>1. Editor!First(s, i) \in Seq(El)
      BY <1>1, SidesOfPlace, Zenon
    <3>2. Editor!Stamps(Editor!First(s, i) \o q)
            = Editor!Stamps(Editor!First(s, i)) \cup Editor!Stamps(q)
      BY ONLY <3>1, <2>3, StampsOfConcat
    <3> DEFINE x == <<s[i]>>
    <3> HIDE DEF x, a, b
    <3>3. x \in Seq(El)
      BY <1>4 DEF x
    <3>4. Editor!Stamps(a \o x) = Editor!Stamps(a) \cup Editor!Stamps(x)
      BY ONLY <3>3, <1>2, StampsOfConcat
    <3> QED BY <3>2, <3>4 DEF x
  <2> QED BY <2>3, <2>9, <2>10, <2>11, <1>4, Zenon
<1>10. Len(t) = Len(s) - 1 + Len(new)
  <2>1. i - 1 + Len(new) + (Len(s) - i) = Len(s) - 1 + Len(new)
    BY <1>1
  <2> QED BY <1>6, <2>1, Zenon
<1> QED BY <1>6, <1>7, <1>8, <1>9, <1>10, Zenon DEF Exchanged

\* Where words begin and end
LEMMA WordBounds ==
    ASSUME NEW El, NEW s \in Seq(El), NEW pos \in 0..Len(s)
    PROVE  /\ Editor!WordStartBefore(s, pos) \in 0..pos
           /\ Editor!WordEndAfter(s, pos) \in pos..Len(s)
<1>1. Len(s) \in Nat /\ pos \in Nat /\ pos <= Len(s)
  BY LenProperties
<1>2. Editor!WordStartBefore(s, pos) \in 0..pos
  <2> DEFINE ends == {i \in 1..pos : Editor!IsWord(s[i])}
             end == IF ends = {} THEN 0 ELSE CHOOSE i \in ends : \A j \in ends : j <= i
             gaps == {i \in 1..end : ~Editor!IsWord(s[i])}
  <2>1. end \in 0..pos
    <3>1. CASE ends = {}
      BY <1>1, <3>1
    <3>2. CASE ends # {}
      <4>1. ends \subseteq 0..pos
        BY <1>1
      <4>2. PICK x \in ends : \A j \in ends : j <= x
        BY <1>1, <4>1, <3>2, GreatestExists, Zenon
      <4>3. end \in ends
        BY <3>2, <4>2, Zenon
      <4> HIDE DEF ends, end
      <4> QED BY <4>1, <4>3
    <3> QED BY <3>1, <3>2
  <2>2. Editor!WordStartBefore(s, pos)
          = IF gaps = {} THEN 0 ELSE CHOOSE i \in gaps : \A j \in gaps : j <= i
    BY Zenon DEF Editor!WordStartBefore
  <2> HIDE DEF end
  <2>3. CASE gaps = {}
    BY <1>1, <2>2, <2>3
  <2>4. CASE gaps # {}
    <3>1. gaps \subseteq 0..end /\ end \in Nat
      BY <2>1, <1>1
    <3>2. PICK x \in gaps : \A j \in gaps : j <= x
      BY <3>1, <2>4, GreatestExists, Zenon
    <3>3. Editor!WordStartBefore(s, pos) \in gaps
      BY <2>2, <2>4, <3>2, Zenon
    <3> DEFINE g == Editor!WordStartBefore(s, pos)
    <3> HIDE DEF gaps, end, g
    <3>4. g \in 0..end
      BY <3>1, <3>3 DEF g
    <3>5. g \in 0..pos
      BY <3>4, <2>1, <1>1
    <3> QED BY <3>5 DEF g
  <2> QED BY <2>3, <2>4
<1>3. Editor!WordEndAfter(s, pos) \in pos..Len(s)
  <2> DEFINE n == Len(s)
             starts == {i \in pos + 1..n : Editor!IsWord(s[i])}
             start == IF starts = {} THEN n ELSE CHOOSE i \in starts : \A j \in starts : i <= j
             gaps == {i \in start + 1..n : ~Editor!IsWord(s[i])}
  <2>1. start \in pos..n
    <3>1. CASE starts = {}
      BY <1>1, <3>1
    <3>2. CASE starts # {}
      <4>1. starts \subseteq Nat /\ starts \subseteq pos..n
        BY <1>1
      <4>2. PICK x \in starts : \A j \in starts : x <= j
        BY <4>1, <3>2, LeastExists, Zenon
      <4>3. start \in starts
        BY <3>2, <4>2, Zenon
      <4> HIDE DEF starts, start
      <4> QED BY <4>1, <4>3
    <3> QED BY <3>1, <3>2
  <2>2. Editor!WordEndAfter(s, pos)
          = IF gaps = {} THEN n ELSE (CHOOSE i \in gaps : \A j \in gaps : i <= j) - 1
    BY Zenon DEF Editor!WordEndAfter
  <2> HIDE DEF start
  <2>3. CASE gaps = {}
    BY <1>1, <2>2, <2>3
  <2>4. CASE gaps # {}
    <3>1. gaps \subseteq Nat /\ gaps \subseteq start + 1..n
      BY <1>1, <2>1
    <3>2. PICK x \in gaps : \A j \in gaps : x <= j
      BY <3>1, <2>4, LeastExists, Zenon
    <3> DEFINE g == CHOOSE i \in gaps : \A j \in gaps : i <= j
    <3>3. g \in gaps
      BY <3>2, Zenon
    <3>4. Editor!WordEndAfter(s, pos) = g - 1
      BY <2>2, <2>4, Zenon
    <3> HIDE DEF g, gaps
    <3>5. g - 1 \in pos..n
      BY <3>1, <3>3, <2>1, <1>1
    <3> QED BY <3>4, <3>5
  <2> QED BY <2>3, <2>4
<1> QED BY <1>2, <1>3

\* A cut longer by what stands next to it
LEMMA StampsOfPrefix ==
    ASSUME NEW El, NEW s \in Seq(El), NEW from \in 0..Len(s), NEW to \in from..Len(s)
    PROVE  /\ SubSeq(s, from + 1, to) \in Seq(El) /\ Len(SubSeq(s, from + 1, to)) = to - from
           /\ Editor!Stamps(Editor!First(s, to))
                = Editor!Stamps(Editor!First(s, from)) \cup Editor!Stamps(SubSeq(s, from + 1, to))
<1>1. <<>> \in Seq(El) /\ Editor!First(s, from) \in Seq(El)
  BY EmptySeq, SidesOfPlace, Zenon
<1>2. /\ SubSeq(s, from + 1, to) \in Seq(El) /\ Len(SubSeq(s, from + 1, to)) = to - from
      /\ Editor!First(s, from) \o SubSeq(s, from + 1, to) = Editor!First(s, to)
  <2>1. SubSeq(s, from + 1, to) \in Seq(El)
    BY CutOut, Zenon
  <2>2. Len(SubSeq(s, from + 1, to)) = to - from
    BY CutLength, Zenon
  <2>3. Editor!First(s, from) \o SubSeq(s, from + 1, to) = Editor!First(s, to)
    BY JoinCut, Zenon
  <2> QED BY <2>1, <2>2, <2>3
<1>3. Editor!Stamps(Editor!First(s, from) \o SubSeq(s, from + 1, to))
        = Editor!Stamps(Editor!First(s, from)) \cup Editor!Stamps(SubSeq(s, from + 1, to))
  BY <1>1, <1>2, StampsOfConcat, Zenon
<1> QED BY <1>2, <1>3, Zenon

\* Two parts of a line that change places leave nothing out.
Rearranged(s, p, q, r, e) ==
    Editor!First(s, p) \o SubSeq(s, r + 1, e) \o SubSeq(s, q + 1, r) \o SubSeq(s, p + 1, q)
      \o Editor!From(s, e)
LEMMA PartsChangePlaces ==
    ASSUME NEW El, NEW s \in Seq(El), NEW p \in 0..Len(s), NEW q \in p..Len(s),
           NEW r \in q..Len(s), NEW e \in r..Len(s)
    PROVE  /\ Rearranged(s, p, q, r, e) \in Seq(El)
           /\ Len(Rearranged(s, p, q, r, e)) = Len(s)
           /\ Editor!Stamps(Rearranged(s, p, q, r, e)) = Editor!Stamps(s)
<1> DEFINE a == Editor!First(s, p)
           b == SubSeq(s, p + 1, q)
           c == SubSeq(s, q + 1, r)
           d == SubSeq(s, r + 1, e)
           f == Editor!From(s, e)
<1>1. /\ Len(s) \in Nat /\ p \in 0..Len(s) /\ q \in 0..Len(s) /\ r \in 0..Len(s) /\ e \in 0..Len(s)
      /\ p \in Nat /\ q \in Nat /\ r \in Nat /\ e \in Nat
      /\ q \in p..Len(s) /\ r \in q..Len(s) /\ e \in r..Len(s)
  BY LenProperties
<1>2. /\ a \in Seq(El) /\ Len(a) = p /\ f \in Seq(El) /\ Len(f) = Len(s) - e
  BY <1>1, SidesOfPlace, Zenon
<1>3. /\ b \in Seq(El) /\ Len(b) = q - p
      /\ Editor!Stamps(Editor!First(s, q)) = Editor!Stamps(a) \cup Editor!Stamps(b)
  BY <1>1, StampsOfPrefix
<1>4. /\ c \in Seq(El) /\ Len(c) = r - q
      /\ Editor!Stamps(Editor!First(s, r)) = Editor!Stamps(Editor!First(s, q)) \cup Editor!Stamps(c)
  BY <1>1, StampsOfPrefix
<1>5. /\ d \in Seq(El) /\ Len(d) = e - r
      /\ Editor!Stamps(Editor!First(s, e)) = Editor!Stamps(Editor!First(s, r)) \cup Editor!Stamps(d)
  BY <1>1, StampsOfPrefix
<1>6. Editor!Stamps(s) = Editor!Stamps(Editor!First(s, e)) \cup Editor!Stamps(f)
  BY <1>1, StampsOfSides, Zenon
<1> HIDE DEF a, b, c, d, f
<1>7. /\ a \o d \in Seq(El) /\ Len(a \o d) = p + (e - r)
      /\ Editor!Stamps(a \o d) = Editor!Stamps(a) \cup Editor!Stamps(d)
  BY <1>2, <1>5, ConcatProperties, StampsOfConcat
<1> DEFINE x == a \o d
           y == x \o c
           z == y \o b
<1>8. /\ y \in Seq(El) /\ Len(y) = p + (e - r) + (r - q)
      /\ Editor!Stamps(y) = Editor!Stamps(x) \cup Editor!Stamps(c)
  <2> HIDE DEF x
  <2>1. x \in Seq(El) /\ Len(x) = p + (e - r)
    BY <1>7 DEF x
  <2>2. x \o c \in Seq(El) /\ Len(x \o c) = Len(x) + Len(c)
    BY ONLY <1>4, <2>1, ConcatProperties
  <2>3. Editor!Stamps(x \o c) = Editor!Stamps(x) \cup Editor!Stamps(c)
    BY ONLY <1>4, <2>1, StampsOfConcat
  <2> QED BY <1>4, <2>1, <2>2, <2>3, Zenon
<1>9. /\ z \in Seq(El) /\ Len(z) = p + (e - r) + (r - q) + (q - p)
      /\ Editor!Stamps(z) = Editor!Stamps(y) \cup Editor!Stamps(b)
  <2> HIDE DEF y
  <2>2. y \o b \in Seq(El) /\ Len(y \o b) = Len(y) + Len(b)
    BY ONLY <1>3, <1>8, ConcatProperties
  <2>3. Editor!Stamps(y \o b) = Editor!Stamps(y) \cup Editor!Stamps(b)
    BY ONLY <1>3, <1>8, StampsOfConcat
  <2> QED BY <1>3, <1>8, <2>2, <2>3, Zenon
<1>10. /\ z \o f \in Seq(El)
       /\ Len(z \o f) = p + (e - r) + (r - q) + (q - p) + (Len(s) - e)
       /\ Editor!Stamps(z \o f) = Editor!Stamps(z) \cup Editor!Stamps(f)
  <2> HIDE DEF z
  <2>2. z \o f \in Seq(El) /\ Len(z \o f) = Len(z) + Len(f)
    BY ONLY <1>2, <1>9, ConcatProperties
  <2>3. Editor!Stamps(z \o f) = Editor!Stamps(z) \cup Editor!Stamps(f)
    BY ONLY <1>2, <1>9, StampsOfConcat
  <2> QED BY <1>2, <1>9, <2>2, <2>3, Zenon
<1>11. p + (e - r) + (r - q) + (q - p) + (Len(s) - e) = Len(s)
  BY <1>1
<1>12. Editor!Stamps(z \o f) = Editor!Stamps(s)
  <2> HIDE DEF y, z
  <2>1. Editor!Stamps(x) = Editor!Stamps(a) \cup Editor!Stamps(d)
    BY <1>7
  <2> HIDE DEF x
  <2> QED BY <1>3, <1>4, <1>5, <1>6, <1>8, <1>9, <1>10, <2>1
<1> QED BY <1>10, <1>11, <1>12, Zenon DEF a, b, c, d, f, Rearranged

\* Two neighbours that change places leave the rest.
LEMMA NeighboursChangePlaces ==
    ASSUME NEW El, NEW s \in Seq(El), NEW i \in 1..Len(s) - 1
    PROVE  LET t == [s EXCEPT ![i] = s[i + 1], ![i + 1] = s[i]] IN
           t \in Seq(El) /\ Len(t) = Len(s) /\ Editor!Stamps(t) = Editor!Stamps(s)
<1> DEFINE n == Len(s)
           t == [s EXCEPT ![i] = s[i + 1], ![i + 1] = s[i]]
<1>1. /\ n \in Nat /\ i \in 1..n /\ i + 1 \in 1..n /\ i # i + 1 /\ s \in [1..n -> El]
      /\ DOMAIN s = 1..n
  BY LenProperties
<1>2. /\ s[i] \in El /\ s[i + 1] \in El
  BY <1>1, Zenon
<1>3. /\ t \in [1..n -> El] /\ DOMAIN t = 1..n
      /\ t[i] = s[i + 1] /\ t[i + 1] = s[i] /\ \A j \in 1..n : j \notin {i, i + 1} => t[j] = s[j]
  BY <1>1, <1>2
<1>4. t \in Seq(El) /\ Len(t) = n
  <2> HIDE DEF t, n
  <2> QED BY <1>1, <1>3
<1> HIDE DEF t
<1>5. Editor!Stamps(t) \subseteq Editor!Stamps(s)
  <2>1. ASSUME NEW j \in DOMAIN t PROVE \E k \in DOMAIN s : t[j] = s[k]
    BY <1>1, <1>3, Zenon
  <2> QED BY <2>1 DEF Editor!Stamps
<1>6. Editor!Stamps(s) \subseteq Editor!Stamps(t)
  <2>1. ASSUME NEW j \in DOMAIN s PROVE \E k \in DOMAIN t : s[j] = t[k]
    BY <1>1, <1>3, Zenon
  <2> QED BY <2>1 DEF Editor!Stamps
<1> QED BY <1>4, <1>5, <1>6, Zenon DEF t

-----------------------------------------------------------------------------
\* The invariant: what Editor!TypingIsSafe says, with what is kept while a search
\* shows other lines, what an open popup may take, and that neither has kills.
EditLines == {s \in Seq(Editor!Atoms) : Len(s) <= MaxLine}

EditTypes ==
    /\ line \in EditLines /\ cursor \in 0..Len(line)
    /\ killRing \in Seq(Editor!Atoms) /\ lastKill \in BOOLEAN
    /\ inputHistory \in Seq(EditLines) /\ historyPos \in 0..Len(inputHistory)
    /\ historySave \in EditLines
    /\ search \in [on : BOOLEAN, back : BOOLEAN, buf : Seq(Typable), save : EditLines,
                   idx : Nat, pos : Nat]
    /\ popup \in [on : BOOLEAN, token : SUBSET Nat]
    /\ typed \in 0..MaxTyped
    /\ killedOf \in Seq(EditLines) /\ entered \in Seq(EditLines)

Shelf ==
    (IF historyPos > 0 THEN Editor!Stamps(historySave) ELSE {})
      \cup UNION {Editor!Stamps(inputHistory[i]) : i \in DOMAIN inputHistory}
Composed == IF search.on THEN search.save ELSE line
KeptInv == 1..typed \subseteq gone \cup under \cup Editor!Stamps(Composed) \cup Shelf
PopupInv ==
    popup.on => /\ ~search.on
                /\ Editor!Stamps(Editor!First(line, cursor)) \subseteq popup.token \cup under
KillsInv ==
    /\ Editor!KillsComeBack
    /\ search.on \/ popup.on => ~lastKill \/ killedOf = <<>>
SearchInv ==
    search.on => /\ search.idx \in 1..Len(inputHistory) + 1
                 /\ entered # <<>> => entered[1] = search.save
                 /\ Editor!SearchFindsNearest
EditInv == EditTypes /\ KeptInv /\ PopupInv /\ KillsInv /\ SearchInv

\* What a step outside a search has to keep, ...
LEMMA PlainStep ==
    ASSUME EditInv, ~search.on, search' = search,
           line' \in EditLines, cursor' \in 0..Len(line'),
           killRing' \in Seq(Editor!Atoms), lastKill' \in BOOLEAN,
           inputHistory' \in Seq(EditLines), historyPos' \in 0..Len(inputHistory'),
           historySave' \in EditLines, typed' \in 0..MaxTyped,
           killedOf' = <<>>, entered' \in Seq(EditLines),
           popup' \in [on : BOOLEAN, token : SUBSET Nat],
           popup'.on => Editor!Stamps(Editor!First(line', cursor')) \subseteq popup'.token \cup under',
           1..typed' \subseteq gone' \cup under' \cup Editor!Stamps(line') \cup Shelf'
    PROVE  EditInv'
<1>1. EditTypes'
  <2>1. killedOf' \in Seq(EditLines)
    BY EmptySeq, Zenon
  <2> QED BY <2>1, Zenon DEF EditInv, EditTypes
<1>2. ~search'.on /\ Composed' = line'
  BY Zenon DEF Composed
<1>3. KeptInv'
  BY <1>2, Zenon DEF KeptInv
<1>4. PopupInv' /\ SearchInv'
  BY <1>2, Zenon DEF PopupInv, SearchInv
<1>5. KillsInv'
  BY Zenon DEF KillsInv, Editor!KillsComeBack
<1> QED BY <1>1, <1>3, <1>4, <1>5, Zenon DEF EditInv

\* ... a key that edits the line or moves the cursor, ...
LEMMA EditedStep ==
    ASSUME EditInv, Editor!Normal, NEW s \in Seq(Editor!Atoms), NEW c \in 0..Len(s),
           Editor!Edited(s, c), killRing' = killRing,
           UNCHANGED <<inputHistory, historyPos, historySave>>,
           typed' \in 0..MaxTyped, popup' = popup,
           1..typed' \subseteq gone' \cup under \cup Editor!Stamps(s) \cup Shelf
    PROVE  EditInv'
<1>1. /\ Len(s) <= MaxLine /\ line' = s /\ cursor' = c
      /\ lastKill' = FALSE /\ killedOf' = <<>> /\ search' = search /\ entered' = entered
      /\ under' = under
  BY Zenon DEF Editor!Edited, Editor!LineIs, Editor!KeyDone
<1>2. ~search.on /\ ~popup.on
  BY Zenon DEF Editor!Normal
<1>3. line' \in EditLines /\ cursor' \in 0..Len(line')
  BY <1>1, Zenon DEF EditLines
<1>4. Shelf' = Shelf
  BY Zenon DEF Shelf
<1>5. 1..typed' \subseteq gone' \cup under' \cup Editor!Stamps(line') \cup Shelf'
  BY <1>1, <1>4, Zenon
<1>6. EditTypes
  BY Zenon DEF EditInv
<1>7. /\ killRing' \in Seq(Editor!Atoms) /\ lastKill' \in BOOLEAN
      /\ inputHistory' \in Seq(EditLines) /\ historyPos' \in 0..Len(inputHistory')
      /\ historySave' \in EditLines /\ entered' \in Seq(EditLines)
      /\ popup' \in [on : BOOLEAN, token : SUBSET Nat] /\ ~popup'.on
  BY <1>1, <1>2, <1>6, Zenon DEF EditTypes
<1> QED BY ONLY EditInv, typed' \in 0..MaxTyped, <1>1, <1>2, <1>3, <1>5, <1>7, PlainStep, Zenon

\* ... and a key of a search.
LEMMA SearchingStep ==
    ASSUME EditInv, search.on, Editor!Searching, gone \subseteq gone',
           line' \in EditLines, cursor' \in 0..Len(line'),
           search' \in [on : BOOLEAN, back : BOOLEAN, buf : Seq(Typable), save : EditLines,
                        idx : Nat, pos : Nat],
           entered' \in Seq(EditLines),
           search'.on => /\ search'.save = search.save
                         /\ search'.idx \in 1..Len(inputHistory) + 1
                         /\ entered' # <<>> => entered'[1] = search'.save
                         /\ Editor!SearchFindsNearest',
           ~search'.on => Editor!Stamps(search.save) \subseteq gone' \cup Editor!Stamps(line')
    PROVE  EditInv'
<1>1. /\ killRing' = killRing /\ lastKill' = lastKill /\ popup' = popup /\ typed' = typed
      /\ under' = under /\ killedOf' = killedOf
      /\ inputHistory' = inputHistory /\ historyPos' = historyPos /\ historySave' = historySave
  BY Zenon DEF Editor!Searching, Editor!kills, Editor!past
<1>2. EditTypes /\ KeptInv /\ PopupInv /\ KillsInv
  BY Zenon DEF EditInv
<1>3. EditTypes'
  BY <1>1, <1>2, Zenon DEF EditTypes
<1>4. ~popup.on /\ (~lastKill \/ killedOf = <<>>)
  BY <1>2, Zenon DEF PopupInv, KillsInv
<1>5. PopupInv'
  BY <1>1, <1>4, Zenon DEF PopupInv
<1>6. KillsInv'
  BY <1>1, <1>4, Zenon DEF KillsInv, Editor!KillsComeBack
<1>7. SearchInv'
  BY <1>1, Zenon DEF SearchInv
<1>8. KeptInv'
  <2>1. Shelf' = Shelf /\ 1..typed' = 1..typed
    BY <1>1, Zenon DEF Shelf
  <2>2. Composed = search.save
    BY Zenon DEF Composed
  <2>3. Editor!Stamps(search.save) \subseteq gone' \cup Editor!Stamps(Composed')
    BY Zenon DEF Composed
  <2>4. 1..typed \subseteq gone \cup under \cup Editor!Stamps(search.save) \cup Shelf
    BY <1>2, <2>2, Zenon DEF KeptInv
  <2> QED BY <1>1, <2>1, <2>3, <2>4, Zenon DEF KeptInv
<1> QED BY <1>3, <1>5, <1>6, <1>7, <1>8, Zenon DEF EditInv

\* What the invariant says outside a search
LEMMA PlainFacts ==
    ASSUME EditInv, ~search.on
    PROVE  /\ line \in Seq(Editor!Atoms) /\ Len(line) <= MaxLine /\ Len(line) \in Nat
           /\ cursor \in 0..Len(line) /\ cursor \in Nat
           /\ killRing \in Seq(Editor!Atoms) /\ lastKill \in BOOLEAN
           /\ inputHistory \in Seq(EditLines) /\ historyPos \in 0..Len(inputHistory)
           /\ Len(inputHistory) \in Nat /\ historySave \in EditLines
           /\ \A i \in 1..Len(inputHistory) : inputHistory[i] \in EditLines
           /\ typed \in 0..MaxTyped /\ entered \in Seq(EditLines)
           /\ killedOf \in Seq(EditLines)
           /\ popup \in [on : BOOLEAN, token : SUBSET Nat]
           /\ 1..typed \subseteq gone \cup under \cup Editor!Stamps(line) \cup Shelf
<1>1. EditTypes /\ KeptInv
  BY Zenon DEF EditInv
<1>2. 1..typed \subseteq gone \cup under \cup Editor!Stamps(line) \cup Shelf
  BY <1>1, Zenon DEF KeptInv, Composed
<1>3. /\ line \in EditLines /\ cursor \in 0..Len(line)
      /\ inputHistory \in Seq(EditLines)
  BY <1>1, Zenon DEF EditTypes
<1>4. line \in Seq(Editor!Atoms) /\ Len(line) <= MaxLine
  BY <1>3, Zenon DEF EditLines
<1>5. Len(line) \in Nat /\ Len(inputHistory) \in Nat
  BY <1>3, <1>4, LenProperties, Zenon
<1>6. \A i \in 1..Len(inputHistory) : inputHistory[i] \in EditLines
  BY <1>3, ElementOfSeq, Zenon
<1>7. cursor \in Nat
  BY <1>3, <1>5
<1> QED BY <1>1, <1>2, <1>3, <1>4, <1>5, <1>6, <1>7, Zenon DEF EditTypes

\* The atoms that the editor makes
LEMMA AtomsAreMade ==
    ASSUME Editor!ComposeAssumption
    PROVE  /\ \A letter \in Typable, k \in 0..MaxTyped : <<letter, k>> \in Editor!Atoms
           /\ \A letter \in {"s", "h", "n", "d", "N", Editor!Semicolon}, k \in 0..MaxTyped :
                <<letter, k>> \in Editor!Atoms
           /\ MaxTyped \in Nat /\ MaxLine \in Nat /\ 0 \in 0..MaxTyped
<1>1. MaxTyped \in Nat /\ MaxLine \in Nat
  BY DEF Editor!ComposeAssumption
<1>2. Typable \subseteq Editor!Letters
  BY Zenon DEF Editor!ComposeAssumption, Editor!Letters
<1>3. {"s", "h", "n", "d", "N", Editor!Semicolon} \subseteq Editor!Letters
  BY Zenon DEF Editor!Letters
<1>4. 0 \in 0..MaxTyped
  BY <1>1
<1> QED BY <1>1, <1>2, <1>3, <1>4, Zenon DEF Editor!Atoms

LEMMA EmptyIsLine ==
    ASSUME Editor!ComposeAssumption
    PROVE  <<>> \in EditLines /\ <<>> \in Seq(EditLines) /\ <<>> \in Seq(Typable)
<1>1. MaxLine \in Nat
  BY AtomsAreMade, Zenon
<1>2. <<>> \in Seq(Editor!Atoms) /\ Len(<<>>) = 0
  BY EmptySeq, Zenon
<1>3. 0 <= MaxLine
  BY <1>1
<1> QED BY <1>2, <1>3, EmptySeq, Zenon DEF EditLines

\* The definitions of Editor!SearchFindsNearest for any history, line it was
\* entered from, direction, pattern and place.
TextAt(hist, start, i) == IF i > Len(hist) THEN start ELSE hist[i]
Begin(hist, start, back) == <<Len(hist) + 1, IF back THEN Len(start) ELSE 0>>
Beyond(back, p, q) == IF back THEN Editor!Before(q, p) ELSE Editor!Before(p, q)
Hits(hist, start, back, buf) ==
    {p \in (1..Len(hist) + 1) \X (0..MaxLine) :
       /\ Editor!MatchesAt(TextAt(hist, start, p[1]), buf, p[2])
       /\ p = Begin(hist, start, back) \/ Beyond(back, Begin(hist, start, back), p)}
Tried(hist, start, back, buf) ==
    {n \in 0..Len(buf) : Hits(hist, start, back, Editor!First(buf, n)) # {}}
LongestOf(T) == CHOOSE n \in T : \A m \in T : m <= n
IsNearest(hist, start, back, buf, here) ==
    LET longest == LongestOf(Tried(hist, start, back, buf))
        found == Hits(hist, start, back, Editor!First(buf, longest))
    IN IF longest = 0 THEN here = Begin(hist, start, back)
       ELSE here \in found /\ \A p \in found \ {here} : Beyond(back, here, p)

LEMMA NearestIsNearest ==
    /\ Editor!SearchFindsNearest <=>
         (search.on /\ entered # <<>> =>
            IsNearest(inputHistory, entered[1], search.back, search.buf, <<search.idx, search.pos>>))
    /\ Editor!SearchFindsNearest' <=>
         (search'.on /\ entered' # <<>> =>
            IsNearest(inputHistory', entered'[1], search'.back, search'.buf, <<search'.idx, search'.pos>>))
BY Zenon DEF Editor!SearchFindsNearest, Editor!Longest, Editor!Matching, Editor!Reached,
    Editor!Entry, Editor!Origin, Editor!Onward,
    IsNearest, LongestOf, Tried, Hits, TextAt, Begin, Beyond

\* A step that leaves the line and what was kept of it
LEMMA EditStutter ==
    ASSUME EditInv,
           UNCHANGED <<line, cursor, killRing, lastKill, inputHistory, historyPos, historySave, search,
                       popup, typed, gone, under, killedOf, entered>>
    PROVE  EditInv'
<1>1. EditTypes'
  BY Zenon DEF EditInv, EditTypes
<1>2. KeptInv'
  <2>1. Composed' = Composed /\ Shelf' = Shelf
    BY Zenon DEF Composed, Shelf
  <2> QED BY <2>1, Zenon DEF EditInv, KeptInv
<1>3. PopupInv'
  BY Zenon DEF EditInv, PopupInv
<1>4. KillsInv'
  BY Zenon DEF EditInv, KillsInv, Editor!KillsComeBack
<1>5. SearchInv'
  <2>1. Editor!SearchFindsNearest => Editor!SearchFindsNearest'
    BY NearestIsNearest, Zenon
  <2> QED BY <2>1, Zenon DEF EditInv, SearchInv
<1> QED BY <1>1, <1>2, <1>3, <1>4, <1>5, Zenon DEF EditInv

-----------------------------------------------------------------------------
(* Typing, pasting, moving, deleting                                       *)

LEMMA TypedIsNew ==
    ASSUME NEW n \in Nat
    PROVE  1..(n + 1) = 1..n \cup {n + 1}
OBVIOUS

LEMMA PutTyped ==
    ASSUME Editor!ComposeAssumption, EditInv, ~search.on, typed < MaxTyped, NEW letter \in Typable,
           Editor!LineIs(Editor!Put(line, cursor, <<<<letter, typed + 1>>>>), cursor + 1),
           typed' = typed + 1
    PROVE  /\ line' \in EditLines /\ cursor' \in 0..Len(line') /\ typed' \in 0..MaxTyped
           /\ Editor!Stamps(line') = Editor!Stamps(line) \cup {typed'}
           /\ Editor!Stamps(Editor!First(line', cursor'))
                = Editor!Stamps(Editor!First(line, cursor)) \cup {typed'}
           /\ 1..typed' = 1..typed \cup {typed'}
<1> DEFINE new == <<<<letter, typed + 1>>>>
<1>1. /\ line \in Seq(Editor!Atoms) /\ cursor \in 0..Len(line) /\ typed \in 0..MaxTyped
  BY PlainFacts, Zenon
<1>2. MaxTyped \in Nat /\ typed \in Nat /\ typed + 1 \in 0..MaxTyped /\ typed + 1 # 0
  BY <1>1, AtomsAreMade
<1>3. <<letter, typed + 1>> \in Editor!Atoms
  BY <1>2, AtomsAreMade, Zenon
<1>4. new \in Seq(Editor!Atoms) /\ Len(new) = 1
  BY <1>3
<1>5. Editor!Stamps(new) = {typed + 1}
  <2>1. Editor!Stamps(new) = {<<letter, typed + 1>>[2]} \ {0}
    BY StampsOfOne, Zenon
  <2> QED BY <2>1, <1>2
<1> HIDE DEF new
<1> DEFINE t == Editor!Put(line, cursor, new)
<1>6. /\ t \in Seq(Editor!Atoms)
      /\ cursor + Len(new) \in 0..Len(t)
      /\ Editor!Stamps(t) = Editor!Stamps(line) \cup Editor!Stamps(new)
      /\ Editor!First(t, cursor + Len(new)) = Editor!First(line, cursor) \o new
  <2>1. t \in Seq(Editor!Atoms)
    BY <1>1, <1>4, PutInLine, Zenon
  <2>2. cursor + Len(new) \in 0..Len(t)
    BY <1>1, <1>4, PutInLine, Zenon
  <2>3. Editor!Stamps(t) = Editor!Stamps(line) \cup Editor!Stamps(new)
    BY ONLY <1>1, <1>4, PutStamps
  <2>4. Editor!First(t, cursor + Len(new)) = Editor!First(line, cursor) \o new
    BY <1>1, <1>4, PutPrefix, Zenon
  <2> QED BY <2>1, <2>2, <2>3, <2>4
<1>7. Editor!Stamps(Editor!First(line, cursor) \o new)
        = Editor!Stamps(Editor!First(line, cursor)) \cup Editor!Stamps(new)
  <2>1. Editor!First(line, cursor) \in Seq(Editor!Atoms)
    BY <1>1, SidesOfPlace, Zenon
  <2> QED BY ONLY <2>1, <1>4, StampsOfConcat
<1>8. Len(t) <= MaxLine /\ line' = t /\ cursor' = cursor + 1
  BY Zenon DEF Editor!LineIs, new
<1>9. 1..(typed + 1) = 1..typed \cup {typed + 1}
  BY <1>2, TypedIsNew, Zenon
<1> HIDE DEF t
<1> QED BY <1>2, <1>4, <1>5, <1>6, <1>7, <1>8, <1>9, Zenon DEF EditLines

LEMMA TypeStep ==
    ASSUME Editor!ComposeAssumption, EditInv, NEW letter \in Typable, Editor!Type(letter)
    PROVE  EditInv'
<1>1. /\ ~search.on /\ ~popup.on /\ typed < MaxTyped /\ typed' = typed + 1
      /\ Editor!LineIs(Editor!Put(line, cursor, <<<<letter, typed + 1>>>>), cursor + 1)
      /\ lastKill' = lastKill \/ lastKill' = FALSE
      /\ killedOf' = <<>> /\ killRing' = killRing
      /\ inputHistory' = inputHistory /\ historyPos' = historyPos /\ historySave' = historySave
      /\ search' = search /\ popup' = popup /\ gone' = gone /\ under' = under
      /\ entered' = entered
  BY Zenon DEF Editor!Type, Editor!Normal, Editor!past
<1>2. /\ line' \in EditLines /\ cursor' \in 0..Len(line') /\ typed' \in 0..MaxTyped
      /\ Editor!Stamps(line') = Editor!Stamps(line) \cup {typed'}
      /\ 1..typed' = 1..typed \cup {typed'}
  BY <1>1, PutTyped, Zenon
<1>3. Shelf' = Shelf
  BY <1>1, Zenon DEF Shelf
<1>4. 1..typed' \subseteq gone' \cup under' \cup Editor!Stamps(line') \cup Shelf'
  <2>1. 1..typed \subseteq gone \cup under \cup Editor!Stamps(line) \cup Shelf
    BY <1>1, PlainFacts, Zenon
  <2> QED BY ONLY <2>1, <1>1, <1>2, <1>3, Zenon
<1>5. /\ killRing' \in Seq(Editor!Atoms) /\ lastKill' \in BOOLEAN
      /\ inputHistory' \in Seq(EditLines) /\ historyPos' \in 0..Len(inputHistory')
      /\ historySave' \in EditLines /\ entered' \in Seq(EditLines)
      /\ popup' \in [on : BOOLEAN, token : SUBSET Nat] /\ ~popup'.on
  BY <1>1, PlainFacts, Zenon
<1> QED BY ONLY EditInv, <1>1, <1>2, <1>4, <1>5, PlainStep, Zenon

LEMMA PasteStep ==
    ASSUME Editor!ComposeAssumption, EditInv, NEW letter \in Typable, Editor!Paste(letter)
    PROVE  EditInv'
<1>1. /\ ~search.on /\ typed < MaxTyped /\ typed' = typed + 1
      /\ Editor!LineIs(Editor!Put(line, cursor, <<<<letter, typed + 1>>>>), cursor + 1)
      /\ lastKill' = lastKill /\ killedOf' = <<>> /\ killRing' = killRing
      /\ inputHistory' = inputHistory /\ historyPos' = historyPos /\ historySave' = historySave
      /\ search' = search /\ popup' = popup /\ gone' = gone
      /\ under' = IF popup.on THEN under \cup {typed + 1} ELSE under
      /\ entered' = entered
  BY Zenon DEF Editor!Paste, Editor!kills, Editor!past
<1>2. /\ line' \in EditLines /\ cursor' \in 0..Len(line') /\ typed' \in 0..MaxTyped
      /\ Editor!Stamps(line') = Editor!Stamps(line) \cup {typed'}
      /\ Editor!Stamps(Editor!First(line', cursor'))
           = Editor!Stamps(Editor!First(line, cursor)) \cup {typed'}
      /\ 1..typed' = 1..typed \cup {typed'}
  BY <1>1, PutTyped, Zenon
<1>3. Shelf' = Shelf /\ under \subseteq under'
  BY <1>1, Zenon DEF Shelf
<1>4. 1..typed' \subseteq gone' \cup under' \cup Editor!Stamps(line') \cup Shelf'
  <2>1. 1..typed \subseteq gone \cup under \cup Editor!Stamps(line) \cup Shelf
    BY <1>1, PlainFacts, Zenon
  <2> QED BY ONLY <2>1, <1>1, <1>2, <1>3, Zenon
<1>5. /\ killRing' \in Seq(Editor!Atoms) /\ lastKill' \in BOOLEAN
      /\ inputHistory' \in Seq(EditLines) /\ historyPos' \in 0..Len(inputHistory')
      /\ historySave' \in EditLines /\ entered' \in Seq(EditLines)
      /\ popup' \in [on : BOOLEAN, token : SUBSET Nat]
  BY <1>1, PlainFacts, Zenon
<1>6. popup'.on =>
        Editor!Stamps(Editor!First(line', cursor')) \subseteq popup'.token \cup under'
  <2> SUFFICES ASSUME popup'.on
               PROVE  Editor!Stamps(Editor!First(line', cursor')) \subseteq popup'.token \cup under'
    OBVIOUS
  <2>1. popup.on /\ under' = under \cup {typed'}
    BY <1>1, Zenon
  <2>2. Editor!Stamps(Editor!First(line, cursor)) \subseteq popup.token \cup under
    BY <2>1, Zenon DEF EditInv, PopupInv
  <2> QED BY ONLY <1>1, <1>2, <2>1, <2>2, Zenon
<1> QED BY ONLY EditInv, <1>1, <1>2, <1>4, <1>5, <1>6, PlainStep, Zenon

LEMMA TogglePasteStep ==
    ASSUME EditInv, Editor!TogglePaste
    PROVE  EditInv'
<1>1. UNCHANGED <<line, cursor, killRing, lastKill, inputHistory, historyPos, historySave, search,
                  popup, typed, gone, under, killedOf, entered>>
  BY Zenon DEF Editor!TogglePaste, Editor!text, Editor!kills, Editor!past
<1> QED BY <1>1, EditStutter, Zenon

LEMMA ExpandStep ==
    ASSUME Editor!ComposeAssumption, EditInv, Editor!Expand
    PROVE  EditInv'
<1> DEFINE n == typed + 1
           name == <<"N", 0>>
           end == <<Editor!Semicolon, n>>
           dest == <<"d", 0>>
           rest == Editor!From(line, cursor)
<1>1. /\ Editor!Normal /\ typed < MaxTyped /\ typed' = typed + 1
      /\ killRing' = killRing /\ popup' = popup
      /\ UNCHANGED <<inputHistory, historyPos, historySave>>
      /\ \/ cursor = 0 /\ Editor!Edited(<<dest, end>> \o line, 2) /\ gone' = gone
         \/ /\ Editor!Edited(<<name, end>> \o rest, 2)
            /\ gone' = gone \cup Editor!Stamps(Editor!First(line, cursor))
  BY Zenon DEF Editor!Expand, Editor!past
<1>2. /\ line \in Seq(Editor!Atoms) /\ cursor \in 0..Len(line) /\ typed \in 0..MaxTyped
      /\ 1..typed \subseteq gone \cup under \cup Editor!Stamps(line) \cup Shelf
  BY <1>1, PlainFacts, Zenon DEF Editor!Normal
<1>3. MaxTyped \in Nat /\ typed \in Nat /\ n \in 0..MaxTyped /\ n # 0
  BY <1>1, <1>2, AtomsAreMade
<1>4. 1..typed' = 1..typed \cup {n} /\ typed' \in 0..MaxTyped
  BY <1>1, <1>3, TypedIsNew, Zenon
<1>5. name \in Editor!Atoms /\ dest \in Editor!Atoms /\ end \in Editor!Atoms
  BY <1>3, AtomsAreMade, Zenon
<1>6. ASSUME NEW a \in Editor!Atoms, NEW s \in Seq(Editor!Atoms), a[2] = 0
      PROVE  /\ <<a, end>> \o s \in Seq(Editor!Atoms) /\ 2 \in 0..Len(<<a, end>> \o s)
             /\ Editor!Stamps(<<a, end>> \o s) = {n} \cup Editor!Stamps(s)
  <2>1. <<a, end>> \in Seq(Editor!Atoms) /\ Len(<<a, end>>) = 2
    BY <1>5
  <2>2. Editor!Stamps(<<a, end>>) = {n}
    <3>1. end[2] = n
      OBVIOUS
    <3> HIDE DEF end
    <3>2. DOMAIN <<a, end>> = {1, 2} /\ <<a, end>>[1] = a /\ <<a, end>>[2] = end
      OBVIOUS
    <3>3. Editor!Stamps(<<a, end>>) = {<<a, end>>[i][2] : i \in DOMAIN <<a, end>>} \ {0}
      BY Zenon DEF Editor!Stamps
    <3>4. {<<a, end>>[i][2] : i \in DOMAIN <<a, end>>} = {0, n}
      BY <3>1, <3>2, <1>6, Zenon
    <3> QED BY <3>3, <3>4, <1>3, Zenon
  <2> HIDE DEF end
  <2>3. /\ <<a, end>> \o s \in Seq(Editor!Atoms) /\ Len(<<a, end>> \o s) = 2 + Len(s)
        /\ Editor!Stamps(<<a, end>> \o s) = Editor!Stamps(<<a, end>>) \cup Editor!Stamps(s)
    BY <2>1, ConcatProperties, StampsOfConcat, Zenon
  <2>4. Len(s) \in Nat
    BY LenProperties, Zenon
  <2>5. 2 \in 0..(2 + Len(s))
    BY <2>4
  <2> QED BY <2>2, <2>3, <2>5, Zenon
<1>7. name[2] = 0 /\ dest[2] = 0
  OBVIOUS
<1> HIDE DEF name, dest, end, n
<1>8. CASE cursor = 0 /\ Editor!Edited(<<dest, end>> \o line, 2) /\ gone' = gone
  <2> DEFINE t == <<dest, end>> \o line
  <2>1. /\ t \in Seq(Editor!Atoms) /\ 2 \in 0..Len(t)
        /\ Editor!Stamps(t) = {n} \cup Editor!Stamps(line)
    BY <1>2, <1>5, <1>6, <1>7, Zenon
  <2> HIDE DEF t
  <2>2. 1..typed' \subseteq gone' \cup under \cup Editor!Stamps(t) \cup Shelf
    BY ONLY <1>2, <1>4, <1>8, <2>1, Zenon
  <2>3. Editor!Edited(t, 2)
    BY <1>8, Zenon DEF t
  <2> QED BY ONLY EditInv, <1>1, <1>4, <2>1, <2>2, <2>3, EditedStep, Zenon
<1>9. CASE /\ Editor!Edited(<<name, end>> \o rest, 2)
           /\ gone' = gone \cup Editor!Stamps(Editor!First(line, cursor))
  <2> DEFINE t == <<name, end>> \o rest
  <2>0. rest \in Seq(Editor!Atoms)
        /\ Editor!Stamps(line) = Editor!Stamps(Editor!First(line, cursor)) \cup Editor!Stamps(rest)
    BY <1>2, SidesOfPlace, StampsOfSides, Zenon
  <2> HIDE DEF rest
  <2>1. /\ t \in Seq(Editor!Atoms) /\ 2 \in 0..Len(t)
        /\ Editor!Stamps(t) = {n} \cup Editor!Stamps(rest)
    BY <2>0, <1>5, <1>6, <1>7, Zenon
  <2> HIDE DEF t
  <2>2. 1..typed' \subseteq gone' \cup under \cup Editor!Stamps(t) \cup Shelf
    BY ONLY <1>2, <1>4, <1>9, <2>0, <2>1, Zenon
  <2>3. Editor!Edited(t, 2)
    BY <1>9, Zenon DEF t
  <2> QED BY ONLY EditInv, <1>1, <1>4, <2>1, <2>2, <2>3, EditedStep, Zenon
<1> QED BY <1>1, <1>8, <1>9, Zenon

LEMMA MoveStep ==
    ASSUME EditInv, Editor!Move
    PROVE  EditInv'
<1>1. PICK c \in 0..Len(line) : Editor!Edited(line, c)
  BY Zenon DEF Editor!Move
<1>2. /\ Editor!Normal /\ killRing' = killRing /\ popup' = popup
      /\ UNCHANGED <<inputHistory, historyPos, historySave>> /\ typed' = typed /\ gone' = gone
  BY Zenon DEF Editor!Move, Editor!past
<1>3. /\ line \in Seq(Editor!Atoms) /\ typed \in 0..MaxTyped
      /\ 1..typed \subseteq gone \cup under \cup Editor!Stamps(line) \cup Shelf
  BY <1>2, PlainFacts, Zenon DEF Editor!Normal
<1>4. typed' \in 0..MaxTyped /\ 1..typed' \subseteq gone' \cup under \cup Editor!Stamps(line) \cup Shelf
  BY <1>2, <1>3, Zenon
<1> QED BY ONLY EditInv, <1>1, <1>2, <1>3, <1>4, EditedStep, Zenon

LEMMA ClickStep ==
    ASSUME Editor!ComposeAssumption, EditInv, NEW c, Editor!Click(c)
    PROVE  EditInv'
<1>1. /\ c \in 0..Len(line) /\ cursor' = c /\ line' = line
      /\ popup' = Editor!NoPopup /\ search' = [Editor!NoSearch EXCEPT !.pos = 0]
      /\ gone' = gone \cup (Editor!Stamps(search.save) \ Editor!Stamps(line))
      /\ lastKill' = FALSE /\ killedOf' = <<>> /\ entered' = <<>>
      /\ killRing' = killRing
      /\ inputHistory' = inputHistory /\ historyPos' = historyPos /\ historySave' = historySave
      /\ typed' = typed /\ under' = under
  BY Zenon DEF Editor!Click, Editor!past
<1>2. ~popup'.on /\ popup' \in [on : BOOLEAN, token : SUBSET Nat]
  BY <1>1 DEF Editor!NoPopup
<1>3. <<>> \in EditLines /\ <<>> \in Seq(EditLines) /\ <<>> \in Seq(Typable)
  BY EmptyIsLine, Zenon
<1>4. /\ ~search'.on
      /\ search' \in [on : BOOLEAN, back : BOOLEAN, buf : Seq(Typable), save : EditLines,
                      idx : Nat, pos : Nat]
  BY <1>1, <1>3 DEF Editor!NoSearch
<1>5. EditTypes'
  BY <1>1, <1>2, <1>3, <1>4, Zenon DEF EditInv, EditTypes
<1>6. KeptInv'
  <2>1. Shelf' = Shelf
    BY <1>1, Zenon DEF Shelf
  <2>2. 1..typed \subseteq gone \cup under \cup Editor!Stamps(Composed) \cup Shelf
    BY Zenon DEF EditInv, KeptInv
  <2>3. Composed' = line
    BY <1>1, <1>4, Zenon DEF Composed
  <2>4. Editor!Stamps(Composed) \subseteq gone' \cup Editor!Stamps(line)
    BY <1>1, Zenon DEF Composed
  <2>5. gone \subseteq gone'
    BY <1>1, Zenon
  <2> QED BY ONLY <1>1, <2>1, <2>2, <2>3, <2>4, <2>5, Zenon DEF KeptInv
<1>7. PopupInv' /\ KillsInv' /\ SearchInv'
  BY <1>1, <1>2, <1>4, Zenon DEF PopupInv, KillsInv, SearchInv, Editor!KillsComeBack
<1> QED BY <1>5, <1>6, <1>7, Zenon DEF EditInv

\* What is deleted was removed by the user.
LEMMA CutStep ==
    ASSUME EditInv, Editor!Normal, NEW from \in 0..Len(line), NEW to \in from..Len(line),
           NEW c \in 0..(Len(line) - (to - from)),
           Editor!Edited(Editor!First(line, from) \o Editor!From(line, to), c),
           killRing' = killRing, UNCHANGED <<inputHistory, historyPos, historySave>>,
           typed' = typed, popup' = popup,
           gone' = gone \cup Editor!Stamps(SubSeq(line, from + 1, to))
    PROVE  EditInv'
<1> DEFINE t == Editor!First(line, from) \o Editor!From(line, to)
<1>1. /\ line \in Seq(Editor!Atoms) /\ typed \in 0..MaxTyped
      /\ 1..typed \subseteq gone \cup under \cup Editor!Stamps(line) \cup Shelf
      /\ killRing \in Seq(Editor!Atoms)
  BY PlainFacts, Zenon DEF Editor!Normal
<1>2. /\ t \in Seq(Editor!Atoms) /\ Len(t) = Len(line) - (to - from)
      /\ Editor!Stamps(line) = Editor!Stamps(t) \cup Editor!Stamps(SubSeq(line, from + 1, to))
  <2>1. t \in Seq(Editor!Atoms)
    BY <1>1, CutOut, Zenon
  <2>2. Len(t) = Len(line) - (to - from)
    BY <1>1, RestLength, Zenon
  <2>3. Editor!Stamps(line) = Editor!Stamps(t) \cup Editor!Stamps(SubSeq(line, from + 1, to))
    BY ONLY <1>1, from \in 0..Len(line), to \in from..Len(line), CutStamps
  <2> QED BY <2>1, <2>2, <2>3
<1>3. c \in 0..Len(t) /\ Editor!Edited(t, c)
  BY <1>2, Zenon
<1> HIDE DEF t
<1>4. /\ typed' \in 0..MaxTyped
      /\ 1..typed' \subseteq gone' \cup under \cup Editor!Stamps(t) \cup Shelf
  BY ONLY <1>1, <1>2, typed' = typed, Zenon,
          gone' = gone \cup Editor!Stamps(SubSeq(line, from + 1, to))
<1> QED BY ONLY EditInv, Editor!Normal, <1>2, <1>3, <1>4, EditedStep, Zenon,
                killRing' = killRing, UNCHANGED <<inputHistory, historyPos, historySave>>, popup' = popup

LEMMA DeleteBackStep ==
    ASSUME EditInv, Editor!DeleteBack
    PROVE  EditInv'
<1>1. /\ Editor!Normal /\ killRing' = killRing /\ popup' = popup
      /\ UNCHANGED <<inputHistory, historyPos, historySave>> /\ typed' = typed
  BY Zenon DEF Editor!DeleteBack, Editor!past
<1>2. /\ line \in Seq(Editor!Atoms) /\ cursor \in 0..Len(line) /\ Len(line) \in Nat
      /\ Len(line) <= MaxLine /\ typed \in 0..MaxTyped
      /\ 1..typed \subseteq gone \cup under \cup Editor!Stamps(line) \cup Shelf
  BY <1>1, PlainFacts, Zenon DEF Editor!Normal
<1>3. CASE cursor \in Editor!Ghosts(line)
  <2>1. /\ line' = line /\ cursor' = cursor /\ gone' = gone
        /\ lastKill' = FALSE /\ killedOf' = <<>> /\ search' = search /\ entered' = entered
        /\ under' = under
    BY <1>3, Zenon DEF Editor!DeleteBack, Editor!KeyDone, Editor!text
  <2>2. Editor!LineIs(line, cursor)
    BY <1>2, <2>1, Zenon DEF Editor!LineIs
  <2>3. /\ typed' \in 0..MaxTyped
        /\ 1..typed' \subseteq gone' \cup under' \cup Editor!Stamps(line') \cup Shelf'
    <3>1. Shelf' = Shelf
      BY <1>1, Zenon DEF Shelf
    <3> QED BY ONLY <3>1, <1>1, <1>2, <2>1, Zenon
  <2>4. /\ line' \in EditLines /\ cursor' \in 0..Len(line')
    BY <1>2, <2>1, Zenon DEF EditLines
  <2>5. /\ killRing' \in Seq(Editor!Atoms) /\ lastKill' \in BOOLEAN
        /\ inputHistory' \in Seq(EditLines) /\ historyPos' \in 0..Len(inputHistory')
        /\ historySave' \in EditLines /\ entered' \in Seq(EditLines)
        /\ popup' \in [on : BOOLEAN, token : SUBSET Nat] /\ ~popup'.on /\ ~search.on
    BY <1>1, <2>1, PlainFacts, Zenon DEF Editor!Normal
  <2> QED BY ONLY EditInv, <2>1, <2>3, <2>4, <2>5, PlainStep, Zenon
<1>4. CASE cursor \notin Editor!Ghosts(line)
  <2>1. /\ cursor > 0
        /\ Editor!Edited(Editor!First(line, cursor - 1) \o Editor!From(line, cursor), cursor - 1)
        /\ gone' = gone \cup Editor!Stamps(<<line[cursor]>>)
    BY <1>4, Zenon DEF Editor!DeleteBack
  <2>2. /\ cursor - 1 \in 0..Len(line) /\ cursor \in (cursor - 1)..Len(line)
        /\ cursor - 1 + 1 = cursor /\ cursor \in 1..Len(line)
        /\ cursor - 1 \in 0..(Len(line) - (cursor - (cursor - 1)))
    BY <1>2, <2>1
  <2>3. SubSeq(line, cursor - 1 + 1, cursor) = <<line[cursor]>>
    BY <1>2, <2>2, CutOfOne, Zenon
  <2> QED BY <1>1, <2>1, <2>2, <2>3, CutStep, Zenon
<1> QED BY <1>3, <1>4, Zenon

LEMMA DeleteForwardStep ==
    ASSUME EditInv, Editor!DeleteForward
    PROVE  EditInv'
<1>1. /\ Editor!Normal /\ killRing' = killRing /\ popup' = popup
      /\ UNCHANGED <<inputHistory, historyPos, historySave>> /\ typed' = typed
      /\ cursor < Len(line)
      /\ Editor!Edited(Editor!First(line, cursor) \o Editor!From(line, cursor + 1), cursor)
      /\ gone' = gone \cup Editor!Stamps(<<line[cursor + 1]>>)
  BY Zenon DEF Editor!DeleteForward, Editor!past
<1>2. /\ line \in Seq(Editor!Atoms) /\ cursor \in 0..Len(line) /\ Len(line) \in Nat
  BY <1>1, PlainFacts, Zenon DEF Editor!Normal
<1>3. /\ cursor + 1 \in cursor..Len(line) /\ cursor + 1 \in 1..Len(line)
      /\ cursor \in 0..(Len(line) - (cursor + 1 - cursor))
  BY <1>1, <1>2
<1>4. SubSeq(line, cursor + 1, cursor + 1) = <<line[cursor + 1]>>
  BY <1>2, <1>3, CutOfOne, Zenon
<1>5. gone' = gone \cup Editor!Stamps(SubSeq(line, cursor + 1, cursor + 1))
  BY <1>1, <1>4, Zenon
<1>6. /\ Editor!Normal /\ killRing' = killRing /\ popup' = popup
      /\ UNCHANGED <<inputHistory, historyPos, historySave>> /\ typed' = typed
      /\ Editor!Edited(Editor!First(line, cursor) \o Editor!From(line, cursor + 1), cursor)
  BY <1>1, Zenon
<1> QED BY ONLY EditInv, <1>2, <1>3, <1>5, <1>6, CutStep

-----------------------------------------------------------------------------
(* Killing and yanking, and what changes places                            *)

LEMMA KillStep ==
    ASSUME EditInv, Editor!Kill
    PROVE  EditInv'
<1>1. /\ Editor!Normal
      /\ inputHistory' = inputHistory /\ historyPos' = historyPos /\ historySave' = historySave
      /\ search' = search /\ popup' = popup /\ typed' = typed /\ under' = under
      /\ entered' = entered
      /\ killedOf' = IF lastKill THEN killedOf ELSE <<line>>
  BY Zenon DEF Editor!Kill, Editor!past
<1>2. PICK span \in {<<Editor!WordStartBefore(line, cursor), cursor>>, <<0, cursor>>,
                     <<cursor, Editor!WordEndAfter(line, cursor)>>, <<cursor, Len(line)>>} :
        /\ killRing' = Editor!Killed(span[1], span[2]) /\ lastKill' = TRUE
        /\ Editor!LineIs(Editor!First(line, span[1]) \o Editor!From(line, span[2]), span[1])
        /\ gone' = gone \cup Editor!Stamps(SubSeq(line, span[1] + 1, span[2]))
  BY Zenon DEF Editor!Kill
<1>3. /\ line \in Seq(Editor!Atoms) /\ Len(line) \in Nat /\ Len(line) <= MaxLine
      /\ cursor \in 0..Len(line) /\ cursor \in Nat
      /\ killRing \in Seq(Editor!Atoms) /\ lastKill \in BOOLEAN
      /\ typed \in 0..MaxTyped /\ killedOf \in Seq(EditLines)
      /\ 1..typed \subseteq gone \cup under \cup Editor!Stamps(line) \cup Shelf
      /\ ~search.on /\ ~popup.on
  BY <1>1, PlainFacts, Zenon DEF Editor!Normal
<1> DEFINE from == span[1]
           to == span[2]
           cut == SubSeq(line, from + 1, to)
           rest == Editor!First(line, from) \o Editor!From(line, to)
<1>4. /\ from \in 0..Len(line) /\ to \in from..Len(line)
      /\ to = cursor \/ from = cursor
      /\ from < cursor => to = cursor
      /\ from <= cursor /\ (~(from < cursor) => from = cursor)
  <2> DEFINE b == Editor!WordStartBefore(line, cursor)
             e == Editor!WordEndAfter(line, cursor)
  <2>1. b \in 0..cursor /\ e \in cursor..Len(line)
    BY <1>3, WordBounds, Zenon
  <2>2. \/ from = b /\ to = cursor
        \/ from = 0 /\ to = cursor
        \/ from = cursor /\ to = e
        \/ from = cursor /\ to = Len(line)
    BY <1>2
  <2> HIDE DEF b, e, from, to
  <2> QED BY <2>1, <2>2, <1>3
<1> HIDE DEF from, to
<1>5. /\ killRing' = Editor!Killed(from, to) /\ line' = rest /\ cursor' = from
      /\ Len(rest) <= MaxLine /\ lastKill'
      /\ gone' = gone \cup Editor!Stamps(cut)
  BY <1>2, Zenon DEF Editor!LineIs, from, to
<1>6. /\ cut \in Seq(Editor!Atoms) /\ rest \in Seq(Editor!Atoms)
      /\ Len(rest) = Len(line) - (to - from)
      /\ Editor!Stamps(line) = Editor!Stamps(rest) \cup Editor!Stamps(cut)
      /\ Editor!Put(rest, from, cut) = line
      /\ Editor!Put(rest, from, cut \o killRing) = Editor!Put(line, to, killRing)
      /\ Editor!Put(rest, from, killRing \o cut) = Editor!Put(line, from, killRing)
  <2>1. cut \in Seq(Editor!Atoms)
    BY <1>3, <1>4, CutOut, Zenon
  <2>2. rest \in Seq(Editor!Atoms)
    BY <1>3, <1>4, CutOut, Zenon
  <2>3. Len(rest) = Len(line) - (to - from)
    BY <1>3, <1>4, RestLength, Zenon
  <2>4. Editor!Stamps(line) = Editor!Stamps(rest) \cup Editor!Stamps(cut)
    BY ONLY <1>3, <1>4, CutStamps
  <2>5. ComesBack(line, killRing, from, to)
    BY <1>3, <1>4, PutBack, Zenon
  <2> QED BY <2>1, <2>2, <2>3, <2>4, <2>5, Zenon DEF ComesBack
<1>7. from \in 0..Len(rest)
  BY <1>3, <1>4, <1>6
<1>8. killRing' = IF ~lastKill THEN cut
                  ELSE IF from < cursor THEN cut \o killRing ELSE killRing \o cut
  BY <1>5, Zenon DEF Editor!Killed
<1> HIDE DEF cut, rest
<1>9. killRing' \in Seq(Editor!Atoms)
  BY <1>3, <1>6, <1>8, ConcatProperties, Zenon
<1>10. Editor!KillsComeBack'
  <2>1. Editor!KillsComeBack
    BY Zenon DEF EditInv, KillsInv
  <2>2. CASE ~lastKill
    <3>1. Editor!Put(rest, from, killRing') = line /\ killedOf' = <<line>>
      BY <1>1, <1>6, <1>8, <2>2, Zenon
    <3>2. killedOf'[1] = line
      BY <3>1
    <3> QED BY <3>1, <3>2, <1>5, Zenon DEF Editor!KillsComeBack
  <2>3. CASE lastKill
    <3>1. killedOf' = killedOf
      BY <1>1, <2>3, Zenon
    <3>2. killedOf # <<>> => Editor!Put(line, cursor, killRing) = killedOf[1]
      BY <2>1, <2>3, Zenon DEF Editor!KillsComeBack
    <3>3. Editor!Put(rest, from, killRing') = Editor!Put(line, cursor, killRing)
      BY <1>4, <1>6, <1>8, <2>3, Zenon
    <3> QED BY <3>1, <3>2, <3>3, <1>5, Zenon DEF Editor!KillsComeBack
  <2> QED BY <2>2, <2>3, Zenon
<1>11. EditTypes'
  <2>1. /\ line' \in EditLines /\ cursor' \in 0..Len(line') /\ lastKill' \in BOOLEAN
    BY <1>5, <1>6, <1>7, Zenon DEF EditLines
  <2>2. killedOf' \in Seq(EditLines)
    <3>1. line \in EditLines
      BY <1>3, Zenon DEF EditLines
    <3>2. <<line>> \in Seq(EditLines)
      BY <3>1
    <3> QED BY <1>1, <1>3, <3>2, Zenon
  <2>3. EditTypes
    BY Zenon DEF EditInv
  <2> QED BY ONLY <1>1, <1>9, <2>1, <2>2, <2>3, Zenon DEF EditTypes
<1>12. KeptInv'
  <2>1. Shelf' = Shelf /\ Composed' = line' /\ 1..typed' = 1..typed
    BY <1>1, <1>3, Zenon DEF Shelf, Composed
  <2> QED BY ONLY <2>1, <1>1, <1>3, <1>5, <1>6, Zenon DEF KeptInv
<1>13. PopupInv' /\ SearchInv'
  BY <1>1, <1>3, Zenon DEF PopupInv, SearchInv
<1>14. KillsInv'
  BY <1>1, <1>3, <1>10, Zenon DEF KillsInv
<1> QED BY <1>11, <1>12, <1>13, <1>14, Zenon DEF EditInv

LEMMA YankStep ==
    ASSUME EditInv, Editor!Yank
    PROVE  EditInv'
<1> DEFINE t == Editor!Put(line, cursor, killRing)
<1>1. /\ Editor!Normal /\ killRing' = killRing /\ popup' = popup
      /\ UNCHANGED <<inputHistory, historyPos, historySave>> /\ typed' = typed /\ gone' = gone
      /\ Editor!Edited(t, cursor + Len(killRing))
  BY Zenon DEF Editor!Yank, Editor!past
<1>2. /\ line \in Seq(Editor!Atoms) /\ cursor \in 0..Len(line) /\ killRing \in Seq(Editor!Atoms)
      /\ typed \in 0..MaxTyped
      /\ 1..typed \subseteq gone \cup under \cup Editor!Stamps(line) \cup Shelf
  BY <1>1, PlainFacts, Zenon DEF Editor!Normal
<1>3. /\ t \in Seq(Editor!Atoms) /\ cursor + Len(killRing) \in 0..Len(t)
      /\ Editor!Stamps(t) = Editor!Stamps(line) \cup Editor!Stamps(killRing)
  <2>1. t \in Seq(Editor!Atoms)
    BY <1>2, PutInLine, Zenon
  <2>2. cursor + Len(killRing) \in 0..Len(t)
    BY <1>2, PutInLine, Zenon
  <2>3. Editor!Stamps(t) = Editor!Stamps(line) \cup Editor!Stamps(killRing)
    BY ONLY <1>2, PutStamps
  <2> QED BY <2>1, <2>2, <2>3
<1> HIDE DEF t
<1>4. typed' \in 0..MaxTyped /\ 1..typed' \subseteq gone' \cup under \cup Editor!Stamps(t) \cup Shelf
  BY ONLY <1>1, <1>2, <1>3, Zenon
<1> QED BY ONLY EditInv, <1>1, <1>3, <1>4, EditedStep, Zenon

\* A key that leaves what the line holds
LEMMA SameStampsStep ==
    ASSUME EditInv, Editor!Normal, NEW s \in Seq(Editor!Atoms), NEW c \in 0..Len(s),
           Editor!Edited(s, c), killRing' = killRing,
           UNCHANGED <<inputHistory, historyPos, historySave>>,
           typed' = typed, popup' = popup, gone' = gone,
           Editor!Stamps(s) = Editor!Stamps(line)
    PROVE  EditInv'
<1>1. /\ typed \in 0..MaxTyped
      /\ 1..typed \subseteq gone \cup under \cup Editor!Stamps(line) \cup Shelf
  BY PlainFacts, Zenon DEF Editor!Normal
<1>2. typed' \in 0..MaxTyped /\ 1..typed' \subseteq gone' \cup under \cup Editor!Stamps(s) \cup Shelf
  BY <1>1, Zenon
<1> QED BY <1>2, EditedStep, Zenon

LEMMA TransposeCharsStep ==
    ASSUME EditInv, Editor!TransposeChars
    PROVE  EditInv'
<1> DEFINE pos == IF cursor >= Len(line) THEN Len(line) - 1 ELSE cursor
           t == [line EXCEPT ![pos] = line[pos + 1], ![pos + 1] = line[pos]]
<1>1. /\ Editor!Normal /\ killRing' = killRing /\ popup' = popup
      /\ UNCHANGED <<inputHistory, historyPos, historySave>> /\ typed' = typed /\ gone' = gone
      /\ Len(line) >= 2 /\ pos > 0 /\ Editor!Edited(t, pos + 1)
  BY Zenon DEF Editor!TransposeChars, Editor!past
<1>2. /\ line \in Seq(Editor!Atoms) /\ cursor \in 0..Len(line) /\ Len(line) \in Nat
  BY <1>1, PlainFacts, Zenon DEF Editor!Normal
<1>3. pos \in 1..Len(line) - 1 /\ pos + 1 \in 0..Len(line)
  BY <1>1, <1>2
<1> HIDE DEF pos
<1>4. t \in Seq(Editor!Atoms) /\ Len(t) = Len(line) /\ Editor!Stamps(t) = Editor!Stamps(line)
  BY <1>2, <1>3, NeighboursChangePlaces, Zenon
<1> HIDE DEF t
<1>5. pos + 1 \in 0..Len(t)
  BY <1>3, <1>4, Zenon
<1> QED BY ONLY EditInv, <1>1, <1>4, <1>5, SameStampsStep, Zenon

LEMMA TransposeWordsStep ==
    ASSUME EditInv, Editor!TransposeWords
    PROVE  EditInv'
<1> DEFINE T == Editor!TransposedWords
           q == Editor!WordStartBefore(line, cursor)
           p == Editor!WordStartBefore(line, q)
           words == {i \in cursor + 1..Len(line) : Editor!IsWord(line[i])}
           least == CHOOSE i \in words : \A j \in words : i <= j
           r == IF words = {} THEN Len(line) ELSE least - 1
           e == Editor!WordEndAfter(line, r)
           t == Editor!First(line, p) \o SubSeq(line, r + 1, e) \o SubSeq(line, q + 1, r)
                \o SubSeq(line, p + 1, q) \o Editor!From(line, e)
<1>1. /\ Editor!Normal /\ killRing' = killRing /\ popup' = popup
      /\ UNCHANGED <<inputHistory, historyPos, historySave>> /\ typed' = typed /\ gone' = gone
      /\ Editor!Edited(T.new, T.end)
  BY Zenon DEF Editor!TransposeWords, Editor!past
<1>2. /\ line \in Seq(Editor!Atoms) /\ cursor \in 0..Len(line) /\ Len(line) \in Nat
      /\ cursor \in Nat
  BY <1>1, PlainFacts, Zenon DEF Editor!Normal
<1>3. T.new = t /\ T.end = e
  BY DEF Editor!TransposedWords
<1>4. q \in 0..cursor /\ q \in 0..Len(line)
  <2>1. q \in 0..cursor
    BY <1>2, WordBounds, Zenon
  <2> QED BY <2>1, <1>2
<1>5. p \in 0..q
  BY <1>2, <1>4, WordBounds, Zenon
<1>6. r \in cursor..Len(line)
  <2>1. CASE words = {}
    BY <1>2, <2>1
  <2>2. CASE words # {}
    <3>1. words \subseteq Nat /\ words \subseteq cursor + 1..Len(line)
      BY <1>2
    <3>2. PICK x \in words : \A j \in words : x <= j
      BY <2>2, <3>1, LeastExists, Zenon
    <3>3. least \in words
      BY <3>2, Zenon
    <3>4. r = least - 1
      BY <2>2, Zenon
    <3> HIDE DEF least, words, r
    <3> QED BY <1>2, <3>1, <3>3, <3>4
  <2> QED BY <2>1, <2>2
<1>7. r \in 0..Len(line)
  BY <1>2, <1>6
<1>8. e \in r..Len(line)
  BY <1>2, <1>7, WordBounds, Zenon
<1> HIDE DEF p, q, r, e, T
<1>9. /\ p \in 0..Len(line) /\ q \in p..Len(line) /\ r \in q..Len(line) /\ e \in 0..Len(line)
  BY <1>2, <1>4, <1>5, <1>6, <1>8
<1>10. t \in Seq(Editor!Atoms) /\ Len(t) = Len(line) /\ Editor!Stamps(t) = Editor!Stamps(line)
  <2>1. t = Rearranged(line, p, q, r, e)
    BY Zenon DEF Rearranged
  <2> HIDE DEF t
  <2>2. t \in Seq(Editor!Atoms)
    BY <1>2, <1>8, <1>9, <2>1, PartsChangePlaces, Zenon
  <2>3. Len(t) = Len(line)
    BY <1>2, <1>8, <1>9, <2>1, PartsChangePlaces, Zenon
  <2>4. Editor!Stamps(t) = Editor!Stamps(line)
    BY <1>2, <1>8, <1>9, <2>1, PartsChangePlaces, Zenon
  <2> QED BY <2>2, <2>3, <2>4
<1> HIDE DEF t
<1>11. e \in 0..Len(t) /\ Editor!Edited(t, e)
  BY <1>1, <1>3, <1>9, <1>10, Zenon
<1> QED BY ONLY EditInv, <1>1, <1>10, <1>11, SameStampsStep, Zenon

-----------------------------------------------------------------------------
(* History                                                                 *)

LEMMA OfHistory ==
    ASSUME NEW i \in DOMAIN inputHistory
    PROVE  Editor!Stamps(inputHistory[i]) \subseteq Shelf
BY Zenon DEF Shelf

LEMMA HistoryPrevStep ==
    ASSUME EditInv, Editor!HistoryPrev
    PROVE  EditInv'
<1>1. /\ Editor!Normal /\ inputHistory # <<>>
      /\ historySave' = IF historyPos = 0 THEN line ELSE historySave
      /\ historyPos' = IF historyPos = 0 THEN Len(inputHistory)
                       ELSE IF historyPos > 1 THEN historyPos - 1 ELSE 1
      /\ Editor!Edited(inputHistory[historyPos'], Len(inputHistory[historyPos']))
      /\ gone' = IF historyPos = 0 THEN gone ELSE gone \cup Editor!Stamps(line)
      /\ killRing' = killRing /\ inputHistory' = inputHistory /\ popup' = popup /\ typed' = typed
  BY Zenon DEF Editor!HistoryPrev
<1>2. /\ line \in Seq(Editor!Atoms) /\ Len(line) <= MaxLine
      /\ inputHistory \in Seq(EditLines) /\ historyPos \in 0..Len(inputHistory)
      /\ Len(inputHistory) \in Nat /\ historySave \in EditLines
      /\ \A i \in 1..Len(inputHistory) : inputHistory[i] \in EditLines
      /\ typed \in 0..MaxTyped /\ entered \in Seq(EditLines)
      /\ killRing \in Seq(Editor!Atoms)
      /\ popup \in [on : BOOLEAN, token : SUBSET Nat]
      /\ 1..typed \subseteq gone \cup under \cup Editor!Stamps(line) \cup Shelf
      /\ ~search.on /\ ~popup.on
  BY <1>1, PlainFacts, Zenon DEF Editor!Normal
<1>3. /\ line' = inputHistory[historyPos'] /\ cursor' = Len(inputHistory[historyPos'])
      /\ lastKill' = FALSE /\ killedOf' = <<>> /\ search' = search /\ entered' = entered
      /\ under' = under
  BY <1>1, Zenon DEF Editor!Edited, Editor!LineIs, Editor!KeyDone
<1>4. Len(inputHistory) # 0
  BY <1>1, <1>2, EmptySeq, Zenon
<1>5. historyPos' \in 1..Len(inputHistory)
  BY <1>1, <1>2, <1>4
<1>6. line' \in EditLines /\ historySave' \in EditLines /\ historyPos' \in 0..Len(inputHistory')
  <2>1. historyPos' \in 0..Len(inputHistory)
    BY <1>2, <1>5
  <2> QED BY <1>1, <1>2, <1>3, <1>5, <2>1, Zenon DEF EditLines
<1>7. cursor' \in 0..Len(line')
  <2>1. line' \in Seq(Editor!Atoms)
    BY <1>6, Zenon DEF EditLines
  <2>2. Len(line') \in Nat
    BY <2>1, LenProperties, Zenon
  <2> QED BY <2>2, <1>3
<1>8. 1..typed' \subseteq gone' \cup under' \cup Editor!Stamps(line') \cup Shelf'
  <2>1. UNION {Editor!Stamps(inputHistory[i]) : i \in DOMAIN inputHistory} \subseteq Shelf'
    BY <1>1, Zenon DEF Shelf
  <2>2. historyPos' > 0
    BY <1>2, <1>5
  <2>3. CASE historyPos = 0
    <3>1. Editor!Stamps(line) \subseteq Shelf'
      BY <1>1, <2>2, <2>3, Zenon DEF Shelf
    <3>2. ~(historyPos > 0)
      BY <2>3
    <3>3. Shelf \subseteq Shelf'
      BY <2>1, <3>2, Zenon DEF Shelf
    <3> QED BY ONLY <3>1, <3>3, <1>1, <1>2, <1>3, <2>3, Zenon
  <2>4. CASE historyPos # 0
    <3>1. historySave' = historySave /\ gone' = gone \cup Editor!Stamps(line)
      BY <1>1, <2>4, Zenon
    <3>2. Editor!Stamps(historySave) \subseteq Shelf'
      BY <3>1, <2>2, Zenon DEF Shelf
    <3>3. Shelf \subseteq Shelf'
      BY <2>1, <3>2, Zenon DEF Shelf
    <3> QED BY ONLY <3>1, <3>3, <1>1, <1>2, <1>3, Zenon
  <2> QED BY <2>3, <2>4, Zenon
<1>9. /\ killRing' \in Seq(Editor!Atoms) /\ lastKill' \in BOOLEAN
      /\ inputHistory' \in Seq(EditLines) /\ entered' \in Seq(EditLines)
      /\ typed' \in 0..MaxTyped
      /\ popup' \in [on : BOOLEAN, token : SUBSET Nat] /\ ~popup'.on
  BY <1>1, <1>2, <1>3, Zenon
<1> QED BY ONLY EditInv, <1>2, <1>3, <1>6, <1>7, <1>8, <1>9, PlainStep, Zenon

LEMMA HistoryNextStep ==
    ASSUME EditInv, Editor!HistoryNext
    PROVE  EditInv'
<1> DEFINE s == IF historyPos' > 0 THEN inputHistory[historyPos'] ELSE historySave
<1>1. /\ Editor!Normal /\ historyPos > 0
      /\ historyPos' = IF historyPos < Len(inputHistory) THEN historyPos + 1 ELSE 0
      /\ Editor!Edited(s, Len(s))
      /\ gone' = gone \cup (Editor!Stamps(line) \ Editor!Stamps(historySave))
      /\ killRing' = killRing /\ inputHistory' = inputHistory /\ historySave' = historySave
      /\ popup' = popup /\ typed' = typed
  BY Zenon DEF Editor!HistoryNext
<1>2. /\ inputHistory \in Seq(EditLines) /\ historyPos \in 0..Len(inputHistory)
      /\ Len(inputHistory) \in Nat /\ historySave \in EditLines
      /\ \A i \in 1..Len(inputHistory) : inputHistory[i] \in EditLines
      /\ typed \in 0..MaxTyped /\ entered \in Seq(EditLines)
      /\ killRing \in Seq(Editor!Atoms)
      /\ popup \in [on : BOOLEAN, token : SUBSET Nat]
      /\ 1..typed \subseteq gone \cup under \cup Editor!Stamps(line) \cup Shelf
      /\ ~search.on /\ ~popup.on
  BY <1>1, PlainFacts, Zenon DEF Editor!Normal
<1>3. /\ line' = s /\ cursor' = Len(s)
      /\ lastKill' = FALSE /\ killedOf' = <<>> /\ search' = search /\ entered' = entered
      /\ under' = under
  BY <1>1, Zenon DEF Editor!Edited, Editor!LineIs, Editor!KeyDone
<1>4. historyPos' \in 0..Len(inputHistory) /\ (historyPos' > 0 => historyPos' \in 1..Len(inputHistory))
  BY <1>1, <1>2
<1>5. line' \in EditLines
  BY <1>2, <1>3, <1>4, Zenon
<1>6. cursor' \in 0..Len(line')
  <2>1. line' \in Seq(Editor!Atoms)
    BY <1>5, Zenon DEF EditLines
  <2>2. Len(line') \in Nat
    BY <2>1, LenProperties, Zenon
  <2>3. cursor' = Len(line')
    BY <1>3, Zenon
  <2> QED BY <2>2, <2>3
<1>7. 1..typed' \subseteq gone' \cup under' \cup Editor!Stamps(line') \cup Shelf'
  <2> DEFINE H == UNION {Editor!Stamps(inputHistory[i]) : i \in DOMAIN inputHistory}
  <2>1. Shelf = Editor!Stamps(historySave) \cup H
    BY <1>1, Zenon DEF Shelf
  <2>2. H \subseteq Shelf'
    BY <1>1, Zenon DEF Shelf
  <2>3. Editor!Stamps(historySave) \subseteq Editor!Stamps(line') \cup Shelf'
    <3>1. CASE historyPos' > 0
      BY <1>1, <3>1, Zenon DEF Shelf
    <3>2. CASE ~(historyPos' > 0)
      BY <1>3, <3>2, Zenon
    <3> QED BY <3>1, <3>2, Zenon
  <2> HIDE DEF H, s
  <2> QED BY ONLY <2>1, <2>2, <2>3, <1>1, <1>2, <1>3, Zenon
<1>8. /\ killRing' \in Seq(Editor!Atoms) /\ lastKill' \in BOOLEAN
      /\ inputHistory' \in Seq(EditLines) /\ entered' \in Seq(EditLines)
      /\ historyPos' \in 0..Len(inputHistory') /\ historySave' \in EditLines
      /\ typed' \in 0..MaxTyped
      /\ popup' \in [on : BOOLEAN, token : SUBSET Nat] /\ ~popup'.on
  BY <1>1, <1>2, <1>3, <1>4, Zenon
<1> QED BY ONLY EditInv, <1>2, <1>3, <1>5, <1>6, <1>7, <1>8, PlainStep, Zenon

LEMMA SubmitStep ==
    ASSUME Editor!ComposeAssumption, EditInv, Editor!Submit
    PROVE  EditInv'
<1>1. /\ Editor!Normal
      /\ inputHistory' = Editor!AddHistoryEntry
      /\ historyPos' = 0 /\ historySave' = <<>>
      /\ gone' = gone \cup Editor!Stamps(historySave)
      /\ line' = <<>> /\ cursor' = 0
      /\ lastKill' = FALSE /\ killedOf' = <<>>
      /\ killRing' = killRing /\ search' = search /\ popup' = popup /\ typed' = typed
      /\ under' = under /\ entered' = entered
  BY Zenon DEF Editor!Submit
<1>2. /\ line \in Seq(Editor!Atoms) /\ Len(line) <= MaxLine
      /\ inputHistory \in Seq(EditLines) /\ Len(inputHistory) \in Nat
      /\ typed \in 0..MaxTyped /\ entered \in Seq(EditLines)
      /\ killRing \in Seq(Editor!Atoms)
      /\ popup \in [on : BOOLEAN, token : SUBSET Nat]
      /\ 1..typed \subseteq gone \cup under \cup Editor!Stamps(line) \cup Shelf
      /\ ~search.on /\ ~popup.on
  BY <1>1, PlainFacts, Zenon DEF Editor!Normal
<1>3. line \in EditLines /\ <<>> \in EditLines
  BY <1>2, EmptyIsLine, Zenon DEF EditLines
<1> DEFINE Held(h) == UNION {Editor!Stamps(h[i]) : i \in DOMAIN h}
<1>4. /\ inputHistory' \in Seq(EditLines) /\ Held(inputHistory) \subseteq Held(inputHistory')
      /\ Editor!Stamps(line) \subseteq Held(inputHistory')
  <2>1. CASE line = <<>>
    <3>1. inputHistory' = inputHistory
      BY <1>1, <2>1, Zenon DEF Editor!AddHistoryEntry
    <3>2. Editor!Stamps(line) = {}
      BY <2>1, StampsOfOne, Zenon
    <3> QED BY <3>1, <3>2, <1>2, Zenon
  <2>2. CASE inputHistory # <<>> /\ Editor!Last(inputHistory) = line
    <3>1. inputHistory' = inputHistory
      BY <1>1, <2>2, Zenon DEF Editor!AddHistoryEntry
    <3>2. inputHistory[Len(inputHistory)] = line
      BY <2>2, Zenon DEF Editor!Last
    <3>3. Len(inputHistory) \in DOMAIN inputHistory
      <4>1. Len(inputHistory) # 0 /\ DOMAIN inputHistory = 1..Len(inputHistory)
        BY <1>2, <2>2, EmptySeq, LenProperties, Zenon
      <4> QED BY <4>1, <1>2
    <3> QED BY <3>1, <3>2, <3>3, <1>2, Zenon
  <2>3. CASE line # <<>> /\ ~(inputHistory # <<>> /\ Editor!Last(inputHistory) = line)
    <3>1. inputHistory' = Append(inputHistory, line)
      BY <1>1, <2>3, Zenon DEF Editor!AddHistoryEntry
    <3> DEFINE h == Append(inputHistory, line)
    <3>2. /\ h \in Seq(EditLines) /\ Len(inputHistory) + 1 \in DOMAIN h /\ h[Len(inputHistory) + 1] = line
          /\ \A i \in DOMAIN inputHistory : i \in DOMAIN h /\ h[i] = inputHistory[i]
      <4>1. h \in Seq(EditLines)
        BY <1>2, <1>3, AppendAt, Zenon
      <4>2. Len(inputHistory) + 1 \in DOMAIN h
        BY <1>2, <1>3, AppendAt, Zenon
      <4>3. h[Len(inputHistory) + 1] = line
        BY <1>2, <1>3, AppendAt
      <4>4. ASSUME NEW i \in DOMAIN inputHistory PROVE i \in DOMAIN h /\ h[i] = inputHistory[i]
        BY <1>2, <1>3, <4>4, AppendAt
      <4> QED BY <4>1, <4>2, <4>3, <4>4
    <3> HIDE DEF h
    <3>3. inputHistory' = h
      BY <3>1 DEF h
    <3> QED BY <3>2, <3>3, Zenon
  <2> QED BY <2>1, <2>2, <2>3, Zenon
<1>5. 1..typed' \subseteq gone' \cup under' \cup Editor!Stamps(line') \cup Shelf'
  <2>1. Held(inputHistory') \subseteq Shelf'
    BY Zenon DEF Shelf
  <2>2. Shelf \subseteq Editor!Stamps(historySave) \cup Held(inputHistory)
    BY Zenon DEF Shelf
  <2> HIDE DEF Held
  <2> QED BY ONLY <2>1, <2>2, <1>1, <1>2, <1>4, Zenon
<1>6. /\ line' \in EditLines /\ cursor' \in 0..Len(line') /\ historyPos' \in 0..Len(inputHistory')
      /\ historySave' \in EditLines
  <2>1. Len(line') \in Nat /\ Len(inputHistory') \in Nat
    BY <1>1, <1>3, <1>4, LenProperties, Zenon DEF EditLines
  <2>2. 0 \in 0..Len(line') /\ 0 \in 0..Len(inputHistory')
    BY <2>1
  <2> QED BY <1>1, <1>3, <2>2, Zenon
<1>7. /\ killRing' \in Seq(Editor!Atoms) /\ lastKill' \in BOOLEAN /\ entered' \in Seq(EditLines)
      /\ typed' \in 0..MaxTyped
      /\ popup' \in [on : BOOLEAN, token : SUBSET Nat] /\ ~popup'.on
  BY <1>1, <1>2, Zenon
<1> QED BY ONLY EditInv, <1>1, <1>2, <1>4, <1>5, <1>6, <1>7, PlainStep, Zenon

-----------------------------------------------------------------------------
(* Search                                                                  *)

\* Places in the texts are in order.
LEMMA BeforeOnward ==
    ASSUME NEW p \in Nat \X Nat, NEW q \in Nat \X Nat, NEW r \in Nat \X Nat, NEW back
    PROVE  Beyond(back, p, q) /\ Beyond(back, q, r) => Beyond(back, p, r)
<1>1. /\ p[1] \in Nat /\ p[2] \in Nat /\ q[1] \in Nat /\ q[2] \in Nat /\ r[1] \in Nat /\ r[2] \in Nat
  OBVIOUS
<1>2. Editor!Before(p, q) /\ Editor!Before(q, r) => Editor!Before(p, r)
  BY <1>1 DEF Editor!Before
<1>3. Editor!Before(r, q) /\ Editor!Before(q, p) => Editor!Before(r, p)
  BY <1>1 DEF Editor!Before
<1> QED BY <1>2, <1>3, Zenon DEF Beyond

\* Of some places one is the nearest.
LEMMA NearestExists ==
    ASSUME NEW n \in Nat, NEW m \in Nat, NEW P, P \subseteq (1..n) \X (0..m), P # {},
           NEW back \in BOOLEAN
    PROVE  \E p \in P : \A q \in P \ {p} : Beyond(back, p, q)
<1>1. \A p \in P : p = <<p[1], p[2]>> /\ p[1] \in 0..n /\ p[2] \in 0..m
  OBVIOUS
<1> DEFINE F == {p[1] : p \in P}
<1>2. F # {} /\ F \subseteq Nat /\ F \subseteq 0..n
  BY <1>1
<1>3. CASE back
  <2>1. PICK x \in F : \A y \in F : y <= x
    BY <1>2, GreatestExists, Zenon
  <2> DEFINE G == {p[2] : p \in {q \in P : q[1] = x}}
  <2>2. G # {} /\ G \subseteq 0..m
    BY <1>1, <2>1
  <2>3. PICK z \in G : \A y \in G : y <= z
    BY <2>2, GreatestExists, Zenon
  <2>4. PICK p \in P : p[1] = x /\ p[2] = z
    BY <2>3
  <2>5. ASSUME NEW q \in P \ {p} PROVE Editor!Before(q, p)
    <3>1. q[1] <= x /\ (q[1] = x => q[2] <= z)
      BY <2>1, <2>3
    <3>2. ~(q[1] = p[1] /\ q[2] = p[2])
      BY <1>1, <2>5, Zenon
    <3>3. q[1] \in Nat /\ q[2] \in Nat /\ x \in Nat /\ z \in Nat
      BY <1>1, <1>2, <2>2
    <3> QED BY <3>1, <3>2, <3>3, <2>4 DEF Editor!Before
  <2> QED BY <1>3, <2>5, Zenon DEF Beyond
<1>4. CASE ~back
  <2>1. PICK x \in F : \A y \in F : x <= y
    BY <1>2, LeastExists, Zenon
  <2> DEFINE G == {p[2] : p \in {q \in P : q[1] = x}}
  <2>2. G # {} /\ G \subseteq Nat
    BY <1>1, <2>1
  <2>3. PICK z \in G : \A y \in G : z <= y
    BY <2>2, LeastExists, Zenon
  <2>4. PICK p \in P : p[1] = x /\ p[2] = z
    BY <2>3
  <2>5. ASSUME NEW q \in P \ {p} PROVE Editor!Before(p, q)
    <3>1. x <= q[1] /\ (q[1] = x => z <= q[2])
      BY <2>1, <2>3
    <3>2. ~(q[1] = p[1] /\ q[2] = p[2])
      BY <1>1, <2>5, Zenon
    <3>3. q[1] \in Nat /\ q[2] \in Nat /\ x \in Nat /\ z \in Nat
      BY <1>1, <1>2, <2>2
    <3> QED BY <3>1, <3>2, <3>3, <2>4 DEF Editor!Before
  <2> QED BY <1>4, <2>5, Zenon DEF Beyond
<1> QED BY <1>3, <1>4, Zenon

\* A pattern matches where a longer one does.
LEMMA ShorterMatches ==
    ASSUME NEW S, NEW buf \in Seq(S), NEW letter \in S, NEW T, NEW s \in Seq(T), NEW pos \in Nat,
           Editor!MatchesAt(s, Append(buf, letter), pos)
    PROVE  Editor!MatchesAt(s, buf, pos)
<1> DEFINE b == Append(buf, letter)
<1>1. /\ Len(buf) \in Nat /\ Len(b) = Len(buf) + 1 /\ DOMAIN buf = 1..Len(buf)
      /\ \A i \in DOMAIN buf : i \in DOMAIN b /\ b[i] = buf[i]
      /\ Len(s) \in Nat
  BY AppendProperties, AppendAt, LenProperties
<1>2. pos + Len(b) <= Len(s) /\ \A i \in DOMAIN b : s[pos + i][1] = b[i]
  BY Zenon DEF Editor!MatchesAt
<1> HIDE DEF b
<1>3. pos + Len(buf) <= Len(s)
  BY <1>1, <1>2
<1>4. \A i \in DOMAIN buf : s[pos + i][1] = buf[i]
  BY <1>1, <1>2, Zenon
<1> QED BY <1>3, <1>4, Zenon DEF Editor!MatchesAt

LEMMA TextsAreLines ==
    ASSUME NEW hist \in Seq(EditLines), NEW start \in EditLines, NEW i \in 1..Len(hist) + 1
    PROVE  /\ TextAt(hist, start, i) \in EditLines /\ TextAt(hist, start, i) \in Seq(Editor!Atoms)
           /\ Len(TextAt(hist, start, i)) \in Nat
<1>1. Len(hist) \in Nat /\ (i > Len(hist) \/ i \in 1..Len(hist))
  BY LenProperties
<1>2. TextAt(hist, start, i) \in EditLines
  BY <1>1, ElementOfSeq, Zenon DEF TextAt
<1> QED BY <1>2, LenProperties, Zenon DEF EditLines

\* With no pattern yet the search is where it began.
LEMMA EmptyPattern ==
    ASSUME Editor!ComposeAssumption, NEW hist \in Seq(EditLines), NEW start \in EditLines,
           NEW back \in BOOLEAN
    PROVE  /\ Begin(hist, start, back) \in (1..Len(hist) + 1) \X (0..MaxLine)
           /\ Begin(hist, start, back) \in Hits(hist, start, back, <<>>)
           /\ \A p \in Hits(hist, start, back, <<>>) :
                p = Begin(hist, start, back) \/ Beyond(back, Begin(hist, start, back), p)
<1> DEFINE o == IF back THEN Len(start) ELSE 0
           i == Len(hist) + 1
<1>1. /\ Len(hist) \in Nat /\ Len(start) \in Nat /\ Len(start) <= MaxLine /\ MaxLine \in Nat
  BY LenProperties, AtomsAreMade, Zenon DEF EditLines
<1>2. o \in 0..MaxLine /\ o <= Len(start) /\ i \in 1..Len(hist) + 1 /\ i > Len(hist) /\ o + 0 = o
  BY <1>1
<1> HIDE DEF o, i
<1>3. Begin(hist, start, back) = <<i, o>>
  BY Zenon DEF Begin, i, o
<1>4. <<i, o>>[1] = i /\ <<i, o>>[2] = o /\ <<i, o>> \in (1..Len(hist) + 1) \X (0..MaxLine)
  BY <1>2
<1>5. TextAt(hist, start, i) = start
  BY <1>2, Zenon DEF TextAt
<1>6. Editor!MatchesAt(start, <<>>, o)
  <2>1. Len(<<>>) = 0 /\ DOMAIN <<>> = {}
    OBVIOUS
  <2> QED BY <1>2, <2>1, Zenon DEF Editor!MatchesAt
<1> QED BY <1>3, <1>4, <1>5, <1>6, Zenon DEF Hits

\* What matches from a place onward, and the nearest of it.
AheadOf(hist, start, back, buf, here) ==
    {p \in (1..Len(hist) + 1) \X (0..MaxLine) :
       /\ Editor!MatchesAt(TextAt(hist, start, p[1]), buf, p[2])
       /\ p = here \/ Beyond(back, here, p)}
NextOf(hist, start, back, buf, here) ==
    {p \in AheadOf(hist, start, back, buf, here) :
       \A q \in AheadOf(hist, start, back, buf, here) \ {p} : Beyond(back, p, q)}

\* One letter more: the nearest match of the longer pattern, looked for from where
\* the search stands, is the nearest from where it began.
LEMMA OneLetterMore ==
    ASSUME Editor!ComposeAssumption, NEW hist \in Seq(EditLines), NEW start \in EditLines,
           NEW back \in BOOLEAN, NEW buf \in Seq(Typable), NEW letter \in Typable,
           NEW here, IsNearest(hist, start, back, buf, here)
    PROVE  /\ NextOf(hist, start, back, Append(buf, letter), here) = {}
                => IsNearest(hist, start, back, Append(buf, letter), here)
           /\ \A p \in NextOf(hist, start, back, Append(buf, letter), here) :
                IsNearest(hist, start, back, Append(buf, letter), p)
<1> DEFINE longer == Append(buf, letter)
           n == Len(buf)
           Pairs == (1..Len(hist) + 1) \X (0..MaxLine)
           ahead == AheadOf(hist, start, back, longer, here)
           found == NextOf(hist, start, back, longer, here)
           H(b) == Hits(hist, start, back, b)
           T == Tried(hist, start, back, buf)
           U == Tried(hist, start, back, longer)
           o == Begin(hist, start, back)
<1>1. /\ n \in Nat /\ longer \in Seq(Typable) /\ Len(longer) = n + 1
      /\ MaxLine \in Nat /\ Len(hist) + 1 \in Nat
  BY LenProperties, AppendProperties, AtomsAreMade
<1>2. Editor!First(buf, n) = buf /\ Editor!First(longer, n + 1) = longer
      /\ Editor!First(buf, 0) = <<>>
  <2>1. Editor!First(buf, n) = buf
    BY SubSeqFull, Zenon DEF Editor!First
  <2>2. Editor!First(longer, Len(longer)) = longer
    BY <1>1, SubSeqFull, Zenon DEF Editor!First
  <2>3. SubSeq(buf, 1, 0) = <<>>
    BY SubSeqEmpty
  <2> QED BY <1>1, <2>1, <2>2, <2>3, Zenon DEF Editor!First
<1>3. \A k \in 0..n : Editor!First(longer, k) = Editor!First(buf, k)
  <2> SUFFICES ASSUME NEW k \in 0..n PROVE Editor!First(longer, k) = Editor!First(buf, k)
    OBVIOUS
  <2>1. k \in 0..Len(longer)
    BY <1>1
  <2>2. /\ Editor!First(longer, k) \in Seq(Typable) /\ Len(Editor!First(longer, k)) = k
        /\ \A i \in 1..k : Editor!First(longer, k)[i] = longer[i]
    BY <1>1, <2>1, SidesOfPlace, Zenon
  <2>3. /\ Editor!First(buf, k) \in Seq(Typable) /\ Len(Editor!First(buf, k)) = k
        /\ \A i \in 1..k : Editor!First(buf, k)[i] = buf[i]
    BY SidesOfPlace, Zenon
  <2>4. \A i \in 1..k : longer[i] = buf[i]
    <3> SUFFICES ASSUME NEW i \in 1..k PROVE longer[i] = buf[i]
      OBVIOUS
    <3>1. i \in 1..n
      BY <1>1
    <3> HIDE DEF n
    <3> QED BY ONLY <3>1, buf \in Seq(Typable), letter \in Typable, AppendAt DEF n
  <2> QED BY <2>2, <2>3, <2>4, SeqEqual, Zenon
<1>4. H(longer) \subseteq H(buf) /\ H(buf) \subseteq Pairs /\ H(longer) \subseteq Pairs
  <2>1. ASSUME NEW p \in H(longer) PROVE p \in H(buf)
    <3>1. /\ p \in Pairs /\ Editor!MatchesAt(TextAt(hist, start, p[1]), longer, p[2])
          /\ p = o \/ Beyond(back, o, p)
      BY <2>1, Zenon DEF Hits
    <3>2. p[1] \in 1..Len(hist) + 1 /\ p[2] \in Nat
      BY <3>1
    <3>3. TextAt(hist, start, p[1]) \in Seq(Editor!Atoms)
      BY <3>2, TextsAreLines, Zenon
    <3>4. Editor!MatchesAt(TextAt(hist, start, p[1]), buf, p[2])
      BY <3>1, <3>2, <3>3, ShorterMatches, Zenon
    <3> QED BY <3>1, <3>4, Zenon DEF Hits
  <2> QED BY <2>1, Zenon DEF Hits
<1>5. /\ o \in Pairs /\ o \in H(<<>>) /\ \A p \in H(<<>>) : p = o \/ Beyond(back, o, p)
  BY EmptyPattern, Zenon
<1>6. Pairs \subseteq Nat \X Nat
  <2>1. 1..Len(hist) + 1 \subseteq Nat /\ 0..MaxLine \subseteq Nat
    OBVIOUS
  <2> QED BY <2>1
<1> HIDE DEF H, Pairs, o
<1>7. /\ T \subseteq 0..n /\ 0 \in T /\ \A k \in 0..n : k \in T <=> H(Editor!First(buf, k)) # {}
  <2>1. T = {k \in 0..n : H(Editor!First(buf, k)) # {}}
    BY Zenon DEF Tried, H
  <2>2. 0 \in 0..n /\ H(Editor!First(buf, 0)) # {}
    BY <1>1, <1>2, <1>5
  <2> QED BY <2>1, <2>2, Zenon
<1>8. U = IF H(longer) = {} THEN T ELSE T \cup {n + 1}
  <2>1. U = {k \in 0..n + 1 : H(Editor!First(longer, k)) # {}}
    BY <1>1, Zenon DEF Tried, H
  <2>2. 0..n + 1 = 0..n \cup {n + 1}
    BY <1>1
  <2>3. \A k \in 0..n : k \in U <=> k \in T
    BY <1>3, <1>7, <2>1, <2>2, Zenon
  <2>4. n + 1 \in U <=> H(longer) # {}
    BY <1>2, <2>1, <2>2, Zenon
  <2>5. U \subseteq 0..n \cup {n + 1}
    BY <2>1, <2>2, Zenon
  <2>6. n + 1 \notin 0..n
    BY <1>1
  <2> HIDE DEF U, T
  <2>7. CASE H(longer) = {}
    <3>1. U \subseteq T /\ T \subseteq U
      BY <1>7, <2>3, <2>4, <2>5, <2>7, Zenon
    <3>2. U = T
      BY <3>1, Zenon
    <3> QED BY <2>7, <3>2, Zenon
  <2>8. CASE H(longer) # {}
    <3>1. U \subseteq T \cup {n + 1} /\ T \cup {n + 1} \subseteq U
      BY <1>7, <2>3, <2>4, <2>5, <2>8, Zenon
    <3>2. U = T \cup {n + 1}
      BY <3>1, Zenon
    <3> QED BY <2>8, <3>2, Zenon
  <2> QED BY <2>7, <2>8, Zenon
<1> DEFINE L == LongestOf(T)
           M == LongestOf(U)
<1>9. L \in T /\ \A k \in T : k <= L
  <2>1. \E k \in T : \A j \in T : j <= k
    BY <1>1, <1>7, GreatestExists, Zenon
  <2> QED BY <2>1, Zenon DEF LongestOf
<1>10. IF L = 0 THEN here = o
       ELSE /\ here \in H(Editor!First(buf, L))
            /\ \A p \in H(Editor!First(buf, L)) \ {here} : Beyond(back, here, p)
  BY Zenon DEF IsNearest, H, o
<1>11. \A p : IsNearest(hist, start, back, longer, p) <=>
         IF M = 0 THEN p = o
         ELSE /\ p \in H(Editor!First(longer, M))
              /\ \A q \in H(Editor!First(longer, M)) \ {p} : Beyond(back, p, q)
  BY Zenon DEF IsNearest, H, o
<1>12. here \in Pairs /\ (here = o \/ Beyond(back, o, here))
  <2>1. CASE L = 0
    BY <1>5, <1>10, <2>1, Zenon
  <2>2. CASE L # 0
    <3>1. here \in H(Editor!First(buf, L))
      BY <1>10, <2>2, Zenon
    <3> QED BY <3>1, Zenon DEF H, Hits, Pairs, o
  <2> QED BY <2>1, <2>2, Zenon
<1>13. ahead \subseteq H(longer)
  <2> SUFFICES ASSUME NEW p \in ahead PROVE p \in H(longer)
    OBVIOUS
  <2>1. /\ p \in Pairs /\ Editor!MatchesAt(TextAt(hist, start, p[1]), longer, p[2])
        /\ p = here \/ Beyond(back, here, p)
    BY Zenon DEF AheadOf, Pairs
  <2>2. p = o \/ Beyond(back, o, p)
    <3>0. o \in Nat \X Nat /\ here \in Nat \X Nat /\ p \in Nat \X Nat
      BY <1>5, <1>6, <1>12, <2>1, Zenon
    <3>1. Beyond(back, o, here) /\ Beyond(back, here, p) => Beyond(back, o, p)
      BY ONLY <3>0, BeforeOnward, Zenon
    <3> QED BY <3>1, <1>12, <2>1, Zenon
  <2> HIDE DEF longer, ahead
  <2> QED BY <2>1, <2>2, Zenon DEF H, Hits, Pairs, o
<1>14. CASE H(longer) = {}
  <2>1. U = T /\ M = L
    BY <1>8, <1>14, Zenon
  <2>2. L \in 0..n
    BY <1>7, <1>9, Zenon
  <2>3. Editor!First(longer, L) = Editor!First(buf, L)
    BY <1>3, <2>2, Zenon
  <2>4. IsNearest(hist, start, back, longer, here)
    <3> HIDE DEF longer, L, M, U, T
    <3> QED BY <1>10, <1>11, <2>1, <2>3, Zenon
  <2>5. found = {}
    BY <1>13, <1>14, Zenon DEF NextOf
  <2> QED BY <2>4, <2>5, Zenon
<1>15. CASE H(longer) # {}
  <2>1. M = n + 1 /\ M # 0
    <3>1. n + 1 \in U /\ \A k \in U : k <= n + 1
      <4>1. U = T \cup {n + 1}
        BY <1>8, <1>15, Zenon
      <4> HIDE DEF U, T
      <4> QED BY <1>1, <1>7, <4>1
    <3>2. M \in U /\ \A k \in U : k <= M
      BY <3>1, Zenon DEF LongestOf
    <3>3. M <= n + 1 /\ n + 1 <= M /\ M \in Nat
      <4>1. U = T \cup {n + 1}
        BY <1>8, <1>15, Zenon
      <4> HIDE DEF U, T, M
      <4> QED BY <1>1, <1>7, <3>1, <3>2, <4>1
    <3> HIDE DEF M
    <3> QED BY <1>1, <3>3
  <2>2. H(buf) # {}
    BY <1>4, <1>15, Zenon
  <2>3. L = n
    <3>1. n \in T /\ n \in 0..n
      <4>1. n \in 0..n
        BY <1>1
      <4> QED BY <4>1, <1>2, <1>7, <2>2, Zenon
    <3>2. n <= L /\ L \in 0..n
      BY <1>7, <1>9, <3>1, Zenon
    <3> HIDE DEF L
    <3> QED BY <1>1, <3>2
  <2>4. /\ here \in H(buf) /\ \A p \in H(buf) \ {here} : Beyond(back, here, p)
    <3>1. CASE n = 0
      <4>1. here = o /\ H(buf) = H(<<>>)
        <5>1. here = o
          BY <1>10, <2>3, <3>1, Zenon
        <5>2. buf = <<>>
          BY <1>2, <3>1, Zenon
        <5> QED BY <5>1, <5>2, Zenon
      <4> QED BY <1>5, <4>1, Zenon
    <3>2. CASE n # 0
      <4>1. L # 0
        BY <2>3, <3>2, Zenon
      <4>2. Editor!First(buf, L) = buf
        BY <1>2, <2>3, Zenon
      <4> HIDE DEF L
      <4> QED BY <1>10, <4>1, <4>2, Zenon
    <3> QED BY <3>1, <3>2, Zenon
  <2>5. H(longer) \subseteq ahead
    <3> SUFFICES ASSUME NEW p \in H(longer) PROVE p \in ahead
      OBVIOUS
    <3>1. p = here \/ Beyond(back, here, p)
      BY <1>4, <2>4, Zenon
    <3>2. p \in Pairs /\ Editor!MatchesAt(TextAt(hist, start, p[1]), longer, p[2])
      <4> HIDE DEF longer
      <4> QED BY Zenon DEF H, Hits, Pairs
    <3> QED BY <3>1, <3>2, Zenon DEF AheadOf, Pairs
  <2>6. ahead = H(longer)
    BY <1>13, <2>5, Zenon
  <2>7. Editor!First(longer, M) = longer
    BY <1>2, <2>1, Zenon
  <2>8. found # {}
    <3>1. \E p \in ahead : \A q \in ahead \ {p} : Beyond(back, p, q)
      <4>1. ahead \subseteq (1..Len(hist) + 1) \X (0..MaxLine) /\ ahead # {}
        BY <1>15, <2>6, Zenon DEF AheadOf
      <4> HIDE DEF ahead
      <4> QED BY <4>1, <1>1, NearestExists, Zenon
    <3> QED BY <3>1, Zenon DEF NextOf
  <2>9. ASSUME NEW p \in found PROVE IsNearest(hist, start, back, longer, p)
    <3>1. p \in ahead /\ \A q \in ahead \ {p} : Beyond(back, p, q)
      BY <2>9, Zenon DEF NextOf
    <3> HIDE DEF ahead, found, longer, M
    <3> QED BY <1>11, <2>1, <2>6, <2>7, <3>1, Zenon
  <2> QED BY <2>8, <2>9, Zenon
<1> QED BY <1>14, <1>15, Zenon

\* What is known in a search
LEMMA SearchFacts ==
    ASSUME EditInv, search.on
    PROVE  /\ inputHistory \in Seq(EditLines) /\ search.save \in EditLines
           /\ search \in [on : BOOLEAN, back : BOOLEAN, buf : Seq(Typable), save : EditLines,
                          idx : Nat, pos : Nat]
           /\ search.buf \in Seq(Typable) /\ search.back \in BOOLEAN
           /\ search.idx \in 1..Len(inputHistory) + 1 /\ search.pos \in Nat
           /\ line \in EditLines /\ cursor \in 0..Len(line)
           /\ entered \in Seq(EditLines)
           /\ entered # <<>> =>
                /\ entered[1] = search.save
                /\ IsNearest(inputHistory, search.save, search.back, search.buf, <<search.idx, search.pos>>)
           /\ \A i \in 1..Len(inputHistory) + 1 :
                /\ Editor!LineAt(i) = TextAt(inputHistory, search.save, i)
                /\ Editor!LineAt(i) \in EditLines /\ Len(Editor!LineAt(i)) \in Nat
<1>1. EditTypes /\ SearchInv
  BY Zenon DEF EditInv
<1>2. /\ inputHistory \in Seq(EditLines) /\ line \in EditLines /\ cursor \in 0..Len(line)
      /\ entered \in Seq(EditLines)
      /\ search \in [on : BOOLEAN, back : BOOLEAN, buf : Seq(Typable), save : EditLines,
                     idx : Nat, pos : Nat]
  BY <1>1, Zenon DEF EditTypes
<1>3. /\ search.save \in EditLines /\ search.buf \in Seq(Typable) /\ search.back \in BOOLEAN
      /\ search.pos \in Nat
  BY <1>2
<1>4. /\ search.idx \in 1..Len(inputHistory) + 1
      /\ entered # <<>> => entered[1] = search.save
      /\ Editor!SearchFindsNearest
  BY <1>1, Zenon DEF SearchInv
<1>5. entered # <<>> =>
        IsNearest(inputHistory, search.save, search.back, search.buf, <<search.idx, search.pos>>)
  BY <1>4, NearestIsNearest, Zenon
<1>6. \A i : Editor!LineAt(i) = TextAt(inputHistory, search.save, i)
  BY Zenon DEF Editor!LineAt, TextAt
<1> QED BY <1>2, <1>3, <1>4, <1>5, <1>6, TextsAreLines, Zenon

\* Going to a place where the pattern matches, or staying
LEMMA GoesStep ==
    ASSUME EditInv, search.on, NEW buf \in Seq(Typable), NEW back \in BOOLEAN, NEW found,
           found \subseteq Editor!Matches(buf), Editor!Goes(buf, back, found), Editor!Searching,
           gone' = gone,
           \/ entered' = <<>>
           \/ /\ entered' = entered
              /\ entered # <<>> =>
                   IsNearest(inputHistory, search.save, back, buf, <<search'.idx, search'.pos>>)
    PROVE  EditInv'
<1> DEFINE place == CHOOSE p \in found : TRUE
<1>1. /\ search' = [search EXCEPT !.buf = buf, !.back = back,
                      !.idx = IF found = {} THEN @ ELSE place[1],
                      !.pos = IF found = {} THEN @ ELSE place[2]]
      /\ IF found = {} THEN line' = line /\ cursor' = cursor
         ELSE line' = Editor!LineAt(search'.idx) /\ cursor' = search'.pos
  BY Zenon DEF Editor!Goes, Editor!text
<1>2. /\ inputHistory \in Seq(EditLines) /\ search.save \in EditLines
      /\ search \in [on : BOOLEAN, back : BOOLEAN, buf : Seq(Typable), save : EditLines,
                     idx : Nat, pos : Nat]
      /\ search.idx \in 1..Len(inputHistory) + 1 /\ search.pos \in Nat
      /\ line \in EditLines /\ cursor \in 0..Len(line) /\ entered \in Seq(EditLines)
      /\ entered # <<>> => entered[1] = search.save
      /\ \A i \in 1..Len(inputHistory) + 1 :
           Editor!LineAt(i) \in EditLines /\ Len(Editor!LineAt(i)) \in Nat
  BY SearchFacts, Zenon
<1>3. found # {} =>
        /\ place[1] \in 1..Len(inputHistory) + 1 /\ place[2] \in Nat
        /\ place[2] <= Len(Editor!LineAt(place[1]))
  <2> SUFFICES ASSUME found # {}
               PROVE  /\ place[1] \in 1..Len(inputHistory) + 1 /\ place[2] \in Nat
                      /\ place[2] <= Len(Editor!LineAt(place[1]))
    OBVIOUS
  <2>1. place \in Editor!Matches(buf)
    BY Zenon
  <2> HIDE DEF place
  <2>2. /\ place \in (1..Len(inputHistory) + 1) \X (0..MaxLine)
        /\ Editor!MatchesAt(Editor!LineAt(place[1]), buf, place[2])
    BY <2>1, Zenon DEF Editor!Matches
  <2>3. place[1] \in 1..Len(inputHistory) + 1 /\ place[2] \in Nat
    BY <2>2
  <2>4. place[2] + Len(buf) <= Len(Editor!LineAt(place[1]))
    BY <2>2, Zenon DEF Editor!MatchesAt
  <2>5. Len(buf) \in Nat /\ Len(Editor!LineAt(place[1])) \in Nat
    BY <1>2, <2>3, LenProperties, Zenon
  <2> QED BY <2>3, <2>4, <2>5
<1> HIDE DEF place
<1>4. /\ search'.on /\ search'.save = search.save /\ search'.buf = buf /\ search'.back = back
      /\ search'.idx = IF found = {} THEN search.idx ELSE place[1]
      /\ search'.pos = IF found = {} THEN search.pos ELSE place[2]
  BY <1>1, <1>2
<1>5. search'.idx \in 1..Len(inputHistory) + 1 /\ search'.pos \in Nat /\ search'.idx \in Nat
  <2>1. search'.idx \in 1..Len(inputHistory) + 1 /\ search'.pos \in Nat
    BY <1>2, <1>3, <1>4, Zenon
  <2> QED BY <2>1
<1>6. search' \in [on : BOOLEAN, back : BOOLEAN, buf : Seq(Typable), save : EditLines,
                   idx : Nat, pos : Nat]
  <2>1. /\ DOMAIN search' = DOMAIN search /\ search'.idx \in Nat /\ search'.pos \in Nat
    BY <1>1, <1>2, <1>5
  <2> DEFINE i == IF found = {} THEN search.idx ELSE place[1]
             j == IF found = {} THEN search.pos ELSE place[2]
  <2>2. i \in Nat /\ j \in Nat
    BY <1>4, <1>5, Zenon
  <2>3. search' = [search EXCEPT !.buf = buf, !.back = back, !.idx = i, !.pos = j]
    BY <1>1, <1>2
  <2> HIDE DEF i, j
  <2> QED BY <1>2, <2>2, <2>3
<1>7. line' \in EditLines /\ cursor' \in 0..Len(line')
  <2>1. CASE found = {}
    BY <1>1, <1>2, <2>1, Zenon
  <2>2. CASE found # {}
    <3>1. line' = Editor!LineAt(place[1]) /\ cursor' = place[2]
      BY <1>1, <1>4, <2>2, Zenon
    <3>2. place[2] \in 0..Len(Editor!LineAt(place[1]))
      <4>1. Len(Editor!LineAt(place[1])) \in Nat
        BY <1>2, <1>3, <2>2, Zenon
      <4> QED BY <4>1, <1>3, <2>2
    <3> QED BY <3>1, <3>2, <1>2, <1>3, <2>2, Zenon
  <2> QED BY <2>1, <2>2, Zenon
<1>8. inputHistory' = inputHistory
  BY Zenon DEF Editor!Searching, Editor!past
<1>9. /\ entered' \in Seq(EditLines)
      /\ entered' # <<>> => entered'[1] = search'.save
      /\ Editor!SearchFindsNearest'
  <2>1. CASE entered' = <<>>
    BY <2>1, EmptySeq, NearestIsNearest, Zenon
  <2>2. CASE /\ entered' = entered
             /\ entered # <<>> =>
                  IsNearest(inputHistory, search.save, back, buf, <<search'.idx, search'.pos>>)
    <3>1. entered' # <<>> => entered'[1] = search'.save /\ entered'[1] = search.save
      BY <1>2, <1>4, <2>2, Zenon
    <3>2. entered' # <<>> =>
            IsNearest(inputHistory', entered'[1], search'.back, search'.buf, <<search'.idx, search'.pos>>)
      BY <1>4, <1>8, <2>2, <3>1, Zenon
    <3> QED BY <1>2, <2>2, <3>1, <3>2, NearestIsNearest, Zenon
  <2> QED BY <2>1, <2>2, Zenon
<1>10. gone \subseteq gone'
  BY Zenon
<1> QED BY ONLY EditInv, search.on, Editor!Searching, <1>4, <1>5, <1>6, <1>7, <1>9, <1>10,
                SearchingStep, Zenon

LEMMA SearchTypeStep ==
    ASSUME Editor!ComposeAssumption, EditInv, NEW letter \in Typable, Editor!SearchType(letter)
    PROVE  EditInv'
<1> DEFINE buf == Append(search.buf, letter)
           back == search.back
           here == <<search.idx, search.pos>>
           found == Editor!Found(buf, back, TRUE)
           ahead == {p \in (1..Len(inputHistory) + 1) \X (0..MaxLine) :
                       /\ Editor!MatchesAt(TextAt(inputHistory, search.save, p[1]), buf, p[2])
                       /\ p = here \/ Beyond(back, here, p)}
           nearest == {p \in ahead : \A q \in ahead \ {p} : Beyond(back, p, q)}
<1>1. search.on /\ Editor!Goes(buf, back, found) /\ Editor!Searching
      /\ gone' = gone /\ entered' = entered
  BY Zenon DEF Editor!SearchType
<1>2. /\ inputHistory \in Seq(EditLines) /\ search.save \in EditLines
      /\ search \in [on : BOOLEAN, back : BOOLEAN, buf : Seq(Typable), save : EditLines,
                     idx : Nat, pos : Nat]
      /\ search.buf \in Seq(Typable) /\ back \in BOOLEAN
      /\ entered # <<>> => IsNearest(inputHistory, search.save, back, search.buf, here)
      /\ \A i \in 1..Len(inputHistory) + 1 : Editor!LineAt(i) = TextAt(inputHistory, search.save, i)
  BY <1>1, SearchFacts, Zenon
<1>3. buf \in Seq(Typable)
  BY <1>2, AppendProperties, Zenon
<1>4. found = nearest /\ found \subseteq Editor!Matches(buf)
  <2> DEFINE onward == {p \in Editor!Matches(buf) : p = here \/ Beyond(back, here, p)}
  <2>1. \A p \in (1..Len(inputHistory) + 1) \X (0..MaxLine) :
          Editor!LineAt(p[1]) = TextAt(inputHistory, search.save, p[1])
    <3>1. \A p \in (1..Len(inputHistory) + 1) \X (0..MaxLine) : p[1] \in 1..Len(inputHistory) + 1
      OBVIOUS
    <3> QED BY <3>1, <1>2, Zenon
  <2>2. onward = ahead
    <3> HIDE DEF buf, here, back
    <3> QED BY <2>1, Zenon DEF Editor!Matches
  <2>3. found = {p \in onward : \A q \in onward \ {p} : Beyond(back, p, q)}
    BY Zenon DEF Editor!Found, Beyond
  <2> QED BY <2>2, <2>3, Zenon
<1>5. /\ found = {} => search'.idx = search.idx /\ search'.pos = search.pos
      /\ found # {} => LET p == CHOOSE p \in found : TRUE IN
                       search'.idx = p[1] /\ search'.pos = p[2]
  <2> DEFINE place == CHOOSE p \in found : TRUE
  <2>1. search' = [search EXCEPT !.buf = buf, !.back = back,
                     !.idx = IF found = {} THEN @ ELSE place[1],
                     !.pos = IF found = {} THEN @ ELSE place[2]]
    BY <1>1, Zenon DEF Editor!Goes
  <2> HIDE DEF place, found, buf, back
  <2>2. /\ found = {} => search'.idx = search.idx /\ search'.pos = search.pos
        /\ found # {} => search'.idx = place[1] /\ search'.pos = place[2]
    BY <1>2, <2>1
  <2> QED BY <2>2, Zenon DEF place
<1>6. ASSUME entered # <<>>
      PROVE  IsNearest(inputHistory, search.save, back, buf, <<search'.idx, search'.pos>>)
  <2>1. IsNearest(inputHistory, search.save, back, search.buf, here)
    BY <1>2, <1>6, Zenon
  <2>2. /\ nearest = {} => IsNearest(inputHistory, search.save, back, buf, here)
        /\ \A p \in nearest : IsNearest(inputHistory, search.save, back, buf, p)
    <3> HIDE DEF here, back
    <3> QED BY <1>2, <2>1, OneLetterMore, Zenon DEF NextOf, AheadOf
  <2>3. CASE found = {}
    BY <1>4, <1>5, <2>2, <2>3, Zenon
  <2>4. CASE found # {}
    <3> DEFINE p == CHOOSE p \in found : TRUE
    <3>1. p \in found /\ p \in nearest
      BY <1>4, <2>4, Zenon
    <3>2. p \in (1..Len(inputHistory) + 1) \X (0..MaxLine)
      BY <3>1, Zenon
    <3>3. search'.idx = p[1] /\ search'.pos = p[2]
      BY <1>5, <2>4, Zenon
    <3> HIDE DEF p, found, nearest, buf, back
    <3>4. p = <<p[1], p[2]>>
      BY <3>2
    <3> QED BY <2>2, <3>1, <3>3, <3>4, Zenon
  <2> QED BY <2>3, <2>4, Zenon
<1> HIDE DEF buf, back, found
<1> QED BY ONLY EditInv, <1>1, <1>2, <1>3, <1>4, <1>6, GoesStep, Zenon

LEMMA SearchAgainStep ==
    ASSUME EditInv, NEW back \in BOOLEAN, Editor!SearchAgain(back)
    PROVE  EditInv'
<1> DEFINE found == IF search.buf = <<>> THEN {} ELSE Editor!Found(search.buf, back, FALSE)
<1>1. search.on /\ Editor!Goes(search.buf, back, found) /\ Editor!Searching
      /\ gone' = gone /\ entered' = <<>>
  BY Zenon DEF Editor!SearchAgain
<1>2. search.buf \in Seq(Typable)
  BY <1>1, SearchFacts, Zenon
<1>3. found \subseteq Editor!Matches(search.buf)
  BY Zenon DEF Editor!Found
<1> HIDE DEF found
<1> QED BY ONLY EditInv, back \in BOOLEAN, <1>1, <1>2, <1>3, GoesStep, Zenon

LEMMA SearchBackspaceStep ==
    ASSUME Editor!ComposeAssumption, EditInv, Editor!SearchBackspace
    PROVE  EditInv'
<1> DEFINE buf == Editor!Front(search.buf)
<1>1. search.on /\ search.buf # <<>> /\ Editor!Searching /\ gone' = gone /\ entered' = <<>>
  BY Zenon DEF Editor!SearchBackspace
<1>2. /\ inputHistory \in Seq(EditLines) /\ search.save \in EditLines
      /\ search \in [on : BOOLEAN, back : BOOLEAN, buf : Seq(Typable), save : EditLines,
                     idx : Nat, pos : Nat]
      /\ search.buf \in Seq(Typable) /\ search.back \in BOOLEAN
  BY <1>1, SearchFacts, Zenon
<1>3. CASE buf = <<>>
  <2>1. /\ line' = search.save /\ cursor' = Len(search.save)
        /\ search' = [search EXCEPT !.buf = <<>>, !.idx = Len(inputHistory) + 1,
                                    !.pos = Len(search.save)]
    BY <1>3, Zenon DEF Editor!SearchBackspace
  <2>2. /\ Len(search.save) \in Nat /\ Len(inputHistory) + 1 \in 1..Len(inputHistory) + 1
        /\ Len(inputHistory) + 1 \in Nat /\ Len(search.save) \in 0..Len(search.save)
    <3>1. search.save \in Seq(Editor!Atoms)
      BY <1>2, Zenon DEF EditLines
    <3>2. Len(search.save) \in Nat /\ Len(inputHistory) \in Nat
      BY <1>2, <3>1, LenProperties, Zenon
    <3> QED BY <3>2
  <2> DEFINE i == Len(inputHistory) + 1
             j == Len(search.save)
  <2>3. <<>> \in Seq(Typable) /\ <<>> \in Seq(EditLines)
    BY EmptyIsLine, Zenon
  <2> HIDE DEF i, j
  <2>4. search' = [search EXCEPT !.buf = <<>>, !.idx = i, !.pos = j] /\ i \in Nat /\ j \in Nat
    BY <2>1, <2>2 DEF i, j
  <2>5. /\ search' \in [on : BOOLEAN, back : BOOLEAN, buf : Seq(Typable), save : EditLines,
                        idx : Nat, pos : Nat]
        /\ search'.save = search.save /\ search'.idx = i /\ search'.on
    BY <1>1, <1>2, <2>3, <2>4
  <2>6. line' \in EditLines /\ cursor' \in 0..Len(line') /\ entered' \in Seq(EditLines)
    BY <1>1, <1>2, <2>1, <2>2, <2>3, Zenon
  <2>7. Editor!SearchFindsNearest'
    BY <1>1, NearestIsNearest, Zenon
  <2>8. search'.idx \in 1..Len(inputHistory) + 1
    BY <2>2, <2>5, Zenon DEF i
  <2>9. gone \subseteq gone'
    BY <1>1, Zenon
  <2> QED BY ONLY EditInv, <1>1, <2>5, <2>6, <2>7, <2>8, <2>9, SearchingStep, Zenon
<1>4. CASE buf # <<>>
  <2> DEFINE found == Editor!Found(buf, search.back, TRUE)
  <2>1. Editor!Goes(buf, search.back, found)
    BY <1>4, Zenon DEF Editor!SearchBackspace
  <2>2. buf \in Seq(Typable)
    <3> DEFINE n == Len(search.buf)
    <3>1. 1 \in Int /\ n - 1 \in Int /\ \A i \in 1..(n - 1) : search.buf[i] \in Typable
      BY <1>2
    <3>2. SubSeq(search.buf, 1, n - 1) \in Seq(Typable)
      BY <3>1, SubSeqProperties, Zenon
    <3> QED BY <3>2, Zenon DEF Editor!Front
  <2>3. found \subseteq Editor!Matches(buf)
    BY Zenon DEF Editor!Found
  <2> HIDE DEF found, buf
  <2> QED BY ONLY EditInv, <1>1, <1>2, <2>1, <2>2, <2>3, GoesStep, Zenon
<1> QED BY <1>3, <1>4, Zenon

LEMMA NoSearchIsSearch ==
    ASSUME Editor!ComposeAssumption
    PROVE  /\ Editor!NoSearch \in [on : BOOLEAN, back : BOOLEAN, buf : Seq(Typable), save : EditLines,
                                   idx : Nat, pos : Nat]
           /\ ~Editor!NoSearch.on
<1>1. <<>> \in EditLines /\ <<>> \in Seq(Typable)
  BY EmptyIsLine, Zenon
<1> QED BY <1>1 DEF Editor!NoSearch

LEMMA SearchEndsStep ==
    ASSUME Editor!ComposeAssumption, EditInv, Editor!SearchCancel \/ Editor!SearchAccept
    PROVE  EditInv'
<1>1. search.on /\ search' = Editor!NoSearch /\ entered' = <<>> /\ Editor!Searching
  BY Zenon DEF Editor!SearchCancel, Editor!SearchAccept
<1>2. /\ search.save \in EditLines /\ line \in EditLines /\ cursor \in 0..Len(line)
  BY <1>1, SearchFacts, Zenon
<1>3. /\ gone \subseteq gone' /\ line' \in EditLines /\ cursor' \in 0..Len(line')
      /\ Editor!Stamps(search.save) \subseteq gone' \cup Editor!Stamps(line')
  <2>1. CASE Editor!SearchCancel
    <3>1. line' = search.save /\ cursor' = Len(search.save) /\ gone' = gone
      BY <2>1, Zenon DEF Editor!SearchCancel
    <3>2. Len(search.save) \in Nat
      BY <1>2, LenProperties, Zenon DEF EditLines
    <3>3. Len(search.save) \in 0..Len(search.save)
      BY <3>2
    <3> QED BY <1>2, <3>1, <3>3, Zenon
  <2>2. CASE Editor!SearchAccept
    <3>1. /\ line' = line /\ cursor' = cursor
          /\ gone' = gone \cup (Editor!Stamps(search.save) \ Editor!Stamps(line))
      BY <2>2, Zenon DEF Editor!SearchAccept, Editor!text
    <3> QED BY ONLY <1>2, <3>1, Zenon
  <2> QED BY <2>1, <2>2, Zenon
<1>4. /\ ~search'.on /\ entered' \in Seq(EditLines)
      /\ search' \in [on : BOOLEAN, back : BOOLEAN, buf : Seq(Typable), save : EditLines,
                      idx : Nat, pos : Nat]
  BY <1>1, NoSearchIsSearch, EmptySeq, Zenon
<1> QED BY ONLY EditInv, <1>1, <1>3, <1>4, SearchingStep, Zenon

LEMMA EnterSearchStep ==
    ASSUME Editor!ComposeAssumption, EditInv, NEW back \in BOOLEAN, Editor!EnterSearch(back)
    PROVE  EditInv'
<1> DEFINE o == IF back THEN Len(line) ELSE 0
           i == Len(inputHistory) + 1
<1>1. /\ Editor!Normal
      /\ search' = [on |-> TRUE, back |-> back, buf |-> <<>>, save |-> line, idx |-> i, pos |-> o]
      /\ entered' = <<line>> /\ lastKill' = FALSE /\ killedOf' = <<>>
      /\ line' = line /\ cursor' = cursor /\ killRing' = killRing
      /\ inputHistory' = inputHistory /\ historyPos' = historyPos /\ historySave' = historySave
      /\ popup' = popup /\ typed' = typed /\ gone' = gone /\ under' = under
  BY Zenon DEF Editor!EnterSearch, Editor!text, Editor!past
<1>2. /\ line \in Seq(Editor!Atoms) /\ Len(line) <= MaxLine /\ Len(line) \in Nat
      /\ inputHistory \in Seq(EditLines) /\ Len(inputHistory) \in Nat /\ ~search.on /\ ~popup.on
  BY <1>1, PlainFacts, Zenon DEF Editor!Normal
<1>3. line \in EditLines /\ <<>> \in Seq(Typable) /\ <<>> \in Seq(EditLines)
  BY <1>2, EmptyIsLine, Zenon DEF EditLines
<1>4. o \in Nat /\ i \in Nat /\ i \in 1..Len(inputHistory) + 1
  BY <1>2
<1>5. Begin(inputHistory, line, back) = <<i, o>>
  BY Zenon DEF Begin
<1> HIDE DEF o, i
<1>6. /\ search' \in [on : BOOLEAN, back : BOOLEAN, buf : Seq(Typable), save : EditLines,
                      idx : Nat, pos : Nat]
      /\ search'.on /\ search'.save = line /\ search'.buf = <<>> /\ search'.back = back
      /\ search'.idx = i /\ search'.pos = o
  BY <1>1, <1>3, <1>4
<1>7. <<line>> \in Seq(EditLines) /\ <<line>>[1] = line /\ <<line>> # <<>>
  BY <1>3
<1>8. IsNearest(inputHistory, line, back, <<>>, <<i, o>>)
  <2> DEFINE T == Tried(inputHistory, line, back, <<>>)
  <2>1. T \subseteq {0} /\ 0 \in T
    <3>1. Len(<<>>) = 0 /\ 0..0 = {0}
      OBVIOUS
    <3>2. SubSeq(<<>>, 1, 0) = <<>>
      BY SubSeqEmpty
    <3>3. Hits(inputHistory, line, back, Editor!First(<<>>, 0)) # {}
      BY <1>2, <1>3, <3>2, EmptyPattern, Zenon DEF Editor!First
    <3> QED BY <3>1, <3>3, Zenon DEF Tried
  <2>2. LongestOf(T) = 0
    <3>1. \A k \in T : k <= 0
      BY <2>1
    <3>2. LongestOf(T) \in T
      BY <2>1, <3>1, Zenon DEF LongestOf
    <3> QED BY <2>1, <3>2, Zenon
  <2> QED BY <2>2, <1>5, Zenon DEF IsNearest
<1>9. Editor!SearchFindsNearest'
  BY <1>1, <1>6, <1>7, <1>8, NearestIsNearest, Zenon
<1>10. SearchInv'
  BY <1>1, <1>4, <1>6, <1>7, <1>9, Zenon DEF SearchInv
<1>11. EditTypes'
  <2>1. EditTypes
    BY Zenon DEF EditInv
  <2> QED BY ONLY <2>1, <1>1, <1>3, <1>6, <1>7, Zenon DEF EditTypes
<1>12. KeptInv'
  <2>1. Composed' = Composed /\ Shelf' = Shelf
    BY <1>1, <1>2, <1>6, Zenon DEF Composed, Shelf
  <2>2. KeptInv
    BY Zenon DEF EditInv
  <2> QED BY <1>1, <2>1, <2>2, Zenon DEF KeptInv
<1>13. PopupInv' /\ KillsInv'
  BY <1>1, <1>2, Zenon DEF PopupInv, KillsInv, Editor!KillsComeBack
<1> QED BY <1>10, <1>11, <1>12, <1>13, Zenon DEF EditInv

-----------------------------------------------------------------------------
(* Names and destinations                                                  *)

LEMMA StampsAreNumbers ==
    ASSUME NEW s \in Seq(Editor!Atoms)
    PROVE  Editor!Stamps(s) \subseteq Nat
<1>1. \A i \in DOMAIN s : s[i] \in Editor!Atoms
  <2>1. DOMAIN s = 1..Len(s)
    BY LenProperties, Zenon
  <2> QED BY <2>1, ElementOfSeq, Zenon
<1>2. \A x \in Editor!Atoms : x[2] \in 0..MaxTyped
  BY DEF Editor!Atoms
<1>3. 0..MaxTyped \subseteq Nat
  OBVIOUS
<1> QED BY <1>1, <1>2, <1>3, Zenon DEF Editor!Stamps

\* What the editor puts before the cursor has no stamps, and what was there is gone.
LEMMA PutBefore ==
    ASSUME NEW s \in Seq(Editor!Atoms), NEW c \in 0..Len(s), NEW new \in Seq(Editor!Atoms),
           Editor!Stamps(new) = {}
    PROVE  /\ new \o Editor!From(s, c) \in Seq(Editor!Atoms)
           /\ Len(new) \in 0..Len(new \o Editor!From(s, c))
           /\ Editor!Stamps(s) = Editor!Stamps(Editor!First(s, c))
                                   \cup Editor!Stamps(new \o Editor!From(s, c))
<1> DEFINE rest == Editor!From(s, c)
<1>1. rest \in Seq(Editor!Atoms)
      /\ Editor!Stamps(s) = Editor!Stamps(Editor!First(s, c)) \cup Editor!Stamps(rest)
  BY SidesOfPlace, StampsOfSides, Zenon
<1> HIDE DEF rest
<1>2. new \o rest \in Seq(Editor!Atoms) /\ Len(new \o rest) = Len(new) + Len(rest)
  BY <1>1, ConcatProperties, Zenon
<1>3. Editor!Stamps(new \o rest) = Editor!Stamps(new) \cup Editor!Stamps(rest)
  BY ONLY <1>1, new \in Seq(Editor!Atoms), StampsOfConcat
<1>4. Len(new) \in Nat /\ Len(rest) \in Nat
  BY <1>1, LenProperties, Zenon
<1>5. Len(new) \in 0..(Len(new) + Len(rest))
  BY <1>4
<1>6. Editor!Stamps(new \o rest) = Editor!Stamps(rest)
  BY <1>3, Zenon
<1>7. Len(new) \in 0..Len(new \o rest)
  BY <1>2, <1>5, Zenon
<1> QED BY <1>1, <1>2, <1>6, <1>7, Zenon DEF rest

LEMMA NameAndDestination ==
    ASSUME Editor!ComposeAssumption
    PROVE  /\ <<<<"N", 0>>>> \in Seq(Editor!Atoms) /\ Len(<<<<"N", 0>>>>) = 1
           /\ Editor!Stamps(<<<<"N", 0>>>>) = {}
           /\ <<<<"d", 0>>, <<Editor!Semicolon, 0>>>> \in Seq(Editor!Atoms)
           /\ Len(<<<<"d", 0>>, <<Editor!Semicolon, 0>>>>) = 2
           /\ Editor!Stamps(<<<<"d", 0>>, <<Editor!Semicolon, 0>>>>) = {}
<1> DEFINE name == <<"N", 0>>
           dest == <<"d", 0>>
           end == <<Editor!Semicolon, 0>>
<1>1. name \in Editor!Atoms /\ dest \in Editor!Atoms /\ end \in Editor!Atoms
  BY AtomsAreMade, Zenon
<1>2. name[2] = 0 /\ dest[2] = 0 /\ end[2] = 0
  OBVIOUS
<1> HIDE DEF name, dest, end
<1>3. <<name>> \in Seq(Editor!Atoms) /\ Len(<<name>>) = 1
  BY <1>1
<1>4. Editor!Stamps(<<name>>) = {}
  BY <1>2, StampsOfOne, Zenon
<1>5. <<dest, end>> \in Seq(Editor!Atoms) /\ Len(<<dest, end>>) = 2
  BY <1>1
<1>6. Editor!Stamps(<<dest, end>>) = {}
  <2>1. DOMAIN <<dest, end>> = {1, 2} /\ <<dest, end>>[1] = dest /\ <<dest, end>>[2] = end
    OBVIOUS
  <2> QED BY <2>1, <1>2, Zenon DEF Editor!Stamps
<1> QED BY <1>3, <1>4, <1>5, <1>6, Zenon DEF name, dest, end

LEMMA CompletedStep ==
    ASSUME EditInv, Editor!Normal, NEW new \in Seq(Editor!Atoms), NEW n, n = Len(new),
           Editor!Stamps(new) = {}, Editor!Edited(new \o Editor!From(line, cursor), n),
           gone' = gone \cup Editor!Stamps(Editor!First(line, cursor)),
           killRing' = killRing, UNCHANGED <<inputHistory, historyPos, historySave>>,
           typed' = typed, popup' = popup
    PROVE  EditInv'
<1> DEFINE t == new \o Editor!From(line, cursor)
<1>1. /\ line \in Seq(Editor!Atoms) /\ cursor \in 0..Len(line) /\ typed \in 0..MaxTyped
      /\ 1..typed \subseteq gone \cup under \cup Editor!Stamps(line) \cup Shelf
  BY PlainFacts, Zenon DEF Editor!Normal
<1>2. /\ t \in Seq(Editor!Atoms) /\ n \in 0..Len(t)
      /\ Editor!Stamps(line) = Editor!Stamps(Editor!First(line, cursor)) \cup Editor!Stamps(t)
  BY <1>1, PutBefore, Zenon
<1>3. Editor!Edited(t, n)
  OBVIOUS
<1> HIDE DEF t
<1>4. /\ typed' \in 0..MaxTyped
      /\ 1..typed' \subseteq gone' \cup under \cup Editor!Stamps(t) \cup Shelf
  BY ONLY <1>1, <1>2, typed' = typed, gone' = gone \cup Editor!Stamps(Editor!First(line, cursor)),
          Zenon
<1> QED BY ONLY EditInv, Editor!Normal, <1>2, <1>3, <1>4, EditedStep, Zenon,
                killRing' = killRing, UNCHANGED <<inputHistory, historyPos, historySave>>, popup' = popup

LEMMA TabNameStep ==
    ASSUME Editor!ComposeAssumption, EditInv, Editor!TabName
    PROVE  EditInv'
<1> DEFINE name == <<<<"N", 0>>>>
<1>1. /\ Editor!Normal /\ killRing' = killRing /\ typed' = typed
      /\ UNCHANGED <<inputHistory, historyPos, historySave>>
      /\ \/ /\ Editor!Edited(name \o Editor!From(line, cursor), 1)
            /\ gone' = gone \cup Editor!Stamps(Editor!First(line, cursor))
            /\ popup' = popup
         \/ /\ popup' = [on |-> TRUE, token |-> Editor!Stamps(Editor!First(line, cursor))]
            /\ Editor!Edited(line, cursor) /\ gone' = gone
  BY Zenon DEF Editor!TabName, Editor!past
<1>2. CASE /\ Editor!Edited(name \o Editor!From(line, cursor), 1)
           /\ gone' = gone \cup Editor!Stamps(Editor!First(line, cursor))
           /\ popup' = popup
  <2>1. name \in Seq(Editor!Atoms) /\ 1 = Len(name) /\ Editor!Stamps(name) = {}
    BY NameAndDestination, Zenon
  <2> HIDE DEF name
  <2> QED BY <1>1, <1>2, <2>1, CompletedStep, Zenon
<1>3. CASE /\ popup' = [on |-> TRUE, token |-> Editor!Stamps(Editor!First(line, cursor))]
           /\ Editor!Edited(line, cursor) /\ gone' = gone
  <2>1. /\ line \in Seq(Editor!Atoms) /\ cursor \in 0..Len(line) /\ Len(line) <= MaxLine
        /\ typed \in 0..MaxTyped /\ ~search.on
        /\ 1..typed \subseteq gone \cup under \cup Editor!Stamps(line) \cup Shelf
    BY <1>1, PlainFacts, Zenon DEF Editor!Normal
  <2>2. /\ line' = line /\ cursor' = cursor /\ lastKill' = FALSE /\ killedOf' = <<>>
        /\ search' = search /\ entered' = entered /\ under' = under
    BY <1>3, Zenon DEF Editor!Edited, Editor!LineIs, Editor!KeyDone
  <2>3. line' \in EditLines /\ cursor' \in 0..Len(line')
    BY <2>1, <2>2, Zenon DEF EditLines
  <2>4. /\ killRing' \in Seq(Editor!Atoms) /\ lastKill' \in BOOLEAN
        /\ inputHistory' \in Seq(EditLines) /\ historyPos' \in 0..Len(inputHistory')
        /\ historySave' \in EditLines /\ entered' \in Seq(EditLines)
    BY <1>1, <2>1, <2>2, PlainFacts, Zenon
  <2>5. /\ popup' \in [on : BOOLEAN, token : SUBSET Nat]
        /\ popup'.token = Editor!Stamps(Editor!First(line', cursor'))
    <3>1. Editor!First(line, cursor) \in Seq(Editor!Atoms)
      BY <2>1, SidesOfPlace, Zenon
    <3> DEFINE T == Editor!Stamps(Editor!First(line, cursor))
    <3>2. T \in SUBSET Nat
      BY <3>1, StampsAreNumbers, Zenon
    <3>3. Editor!Stamps(Editor!First(line', cursor')) = T
      BY <2>2, Zenon
    <3>4. popup' = [on |-> TRUE, token |-> T]
      BY <1>3, Zenon
    <3> HIDE DEF T
    <3> QED BY ONLY <3>2, <3>3, <3>4
  <2>6. popup'.on => Editor!Stamps(Editor!First(line', cursor')) \subseteq popup'.token \cup under'
    BY <2>5, Zenon
  <2>7. /\ typed' \in 0..MaxTyped
        /\ 1..typed' \subseteq gone' \cup under' \cup Editor!Stamps(line') \cup Shelf'
    <3>1. Shelf' = Shelf
      BY <1>1, Zenon DEF Shelf
    <3> QED BY ONLY <3>1, <1>1, <1>3, <2>1, <2>2, Zenon
  <2> QED BY ONLY EditInv, <2>1, <2>2, <2>3, <2>4, <2>5, <2>6, <2>7, PlainStep, Zenon
<1> QED BY <1>1, <1>2, <1>3, Zenon

LEMMA TabDestinationStep ==
    ASSUME Editor!ComposeAssumption, EditInv, Editor!TabDestination
    PROVE  EditInv'
<1> DEFINE dest == <<<<"d", 0>>, <<Editor!Semicolon, 0>>>>
<1>1. /\ Editor!Normal /\ killRing' = killRing /\ typed' = typed /\ popup' = popup
      /\ UNCHANGED <<inputHistory, historyPos, historySave>>
      /\ Editor!Edited(dest \o Editor!From(line, cursor), 2)
      /\ gone' = gone \cup Editor!Stamps(Editor!First(line, cursor))
  BY Zenon DEF Editor!TabDestination, Editor!past
<1>2. dest \in Seq(Editor!Atoms) /\ 2 = Len(dest) /\ Editor!Stamps(dest) = {}
  BY NameAndDestination, Zenon
<1> HIDE DEF dest
<1> QED BY <1>1, <1>2, CompletedStep, Zenon

\* What the accepted name takes the place of is what the popup was opened for,
\* and what was pasted since.
LEMMA AcceptCompletionStep ==
    ASSUME Editor!ComposeAssumption, EditInv, Editor!AcceptCompletion
    PROVE  EditInv'
<1> DEFINE name == <<<<"N", 0>>>>
           t == name \o Editor!From(line, cursor)
<1>1. /\ popup.on /\ Len(t) <= MaxLine /\ line' = t /\ cursor' = 1
      /\ gone' = gone \cup popup.token /\ popup' = Editor!NoPopup
      /\ killRing' = killRing /\ lastKill' = lastKill /\ search' = search
      /\ UNCHANGED <<inputHistory, historyPos, historySave>>
      /\ typed' = typed /\ under' = under /\ killedOf' = killedOf /\ entered' = entered
  BY Zenon DEF Editor!AcceptCompletion, Editor!past, Editor!kills, Editor!LineIs
<1>2. /\ ~search.on /\ Editor!Stamps(Editor!First(line, cursor)) \subseteq popup.token \cup under
      /\ ~lastKill \/ killedOf = <<>>
  BY <1>1, Zenon DEF EditInv, PopupInv, KillsInv
<1>3. /\ line \in Seq(Editor!Atoms) /\ cursor \in 0..Len(line)
      /\ 1..typed \subseteq gone \cup under \cup Editor!Stamps(line) \cup Shelf
  BY <1>2, PlainFacts, Zenon
<1>4. name \in Seq(Editor!Atoms) /\ Len(name) = 1 /\ Editor!Stamps(name) = {}
  BY NameAndDestination, Zenon
<1>5. /\ t \in Seq(Editor!Atoms) /\ 1 \in 0..Len(t)
      /\ Editor!Stamps(line) = Editor!Stamps(Editor!First(line, cursor)) \cup Editor!Stamps(t)
  <2> HIDE DEF name
  <2>1. t \in Seq(Editor!Atoms) /\ Len(name) \in 0..Len(t)
    BY <1>3, <1>4, PutBefore, Zenon
  <2>2. Editor!Stamps(line) = Editor!Stamps(Editor!First(line, cursor)) \cup Editor!Stamps(t)
    BY <1>3, <1>4, PutBefore, Zenon
  <2> HIDE DEF t
  <2> QED BY <1>4, <2>1, <2>2, Zenon
<1> HIDE DEF name, t
<1>6. Editor!NoPopup \in [on : BOOLEAN, token : SUBSET Nat] /\ ~Editor!NoPopup.on
  BY DEF Editor!NoPopup
<1>7. EditTypes'
  <2>1. line' \in EditLines /\ cursor' \in 0..Len(line')
    BY <1>1, <1>5, Zenon DEF EditLines
  <2>2. EditTypes
    BY Zenon DEF EditInv
  <2> QED BY ONLY <1>1, <1>6, <2>1, <2>2, Zenon DEF EditTypes
<1>8. KeptInv'
  <2>1. Shelf' = Shelf /\ Composed' = line' /\ 1..typed' = 1..typed
    BY <1>1, <1>2, Zenon DEF Shelf, Composed
  <2> QED BY ONLY <2>1, <1>1, <1>2, <1>3, <1>5, Zenon DEF KeptInv
<1>9. PopupInv' /\ KillsInv' /\ SearchInv'
  BY <1>1, <1>2, <1>6, Zenon DEF PopupInv, KillsInv, SearchInv, Editor!KillsComeBack
<1> QED BY <1>7, <1>8, <1>9, Zenon DEF EditInv

LEMMA PopupClosesStep ==
    ASSUME EditInv, Editor!PopupCloses
    PROVE  EditInv'
<1>1. /\ popup.on /\ popup' = Editor!NoPopup /\ line' = line /\ cursor' = cursor
      /\ killRing' = killRing /\ lastKill' = lastKill /\ search' = search
      /\ UNCHANGED <<inputHistory, historyPos, historySave>> /\ gone' = gone
      /\ typed' = typed /\ under' = under /\ killedOf' = killedOf /\ entered' = entered
  BY Zenon DEF Editor!PopupCloses, Editor!past, Editor!kills, Editor!text
<1>2. ~search.on /\ (~lastKill \/ killedOf = <<>>)
  BY <1>1, Zenon DEF EditInv, PopupInv, KillsInv
<1>3. Editor!NoPopup \in [on : BOOLEAN, token : SUBSET Nat] /\ ~Editor!NoPopup.on
  BY DEF Editor!NoPopup
<1>4. EditTypes /\ KeptInv
  BY Zenon DEF EditInv
<1>5. EditTypes'
  BY ONLY <1>1, <1>3, <1>4, Zenon DEF EditTypes
<1>6. KeptInv'
  <2>1. Shelf' = Shelf /\ Composed' = Composed
    BY <1>1, Zenon DEF Shelf, Composed
  <2> QED BY ONLY <2>1, <1>1, <1>4, Zenon DEF KeptInv
<1>7. PopupInv' /\ KillsInv' /\ SearchInv'
  BY <1>1, <1>2, <1>3, Zenon DEF PopupInv, KillsInv, SearchInv, Editor!KillsComeBack
<1> QED BY <1>5, <1>6, <1>7, Zenon DEF EditInv

LEMMA TypeUnderPopupStep ==
    ASSUME Editor!ComposeAssumption, EditInv, Editor!TypeUnderPopup
    PROVE  EditInv'
<1>1. /\ popup.on /\ popup' = Editor!NoPopup /\ line' = line /\ cursor' = cursor
      /\ killRing' = killRing /\ lastKill' = lastKill /\ search' = search
      /\ UNCHANGED <<inputHistory, historyPos, historySave>> /\ gone' = gone
      /\ typed < MaxTyped /\ typed' = typed + 1 /\ under' = under \cup {typed + 1}
      /\ killedOf' = killedOf /\ entered' = entered
  BY Zenon DEF Editor!TypeUnderPopup, Editor!past, Editor!kills, Editor!text
<1>2. ~search.on /\ (~lastKill \/ killedOf = <<>>)
  BY <1>1, Zenon DEF EditInv, PopupInv, KillsInv
<1>3. Editor!NoPopup \in [on : BOOLEAN, token : SUBSET Nat] /\ ~Editor!NoPopup.on
  BY DEF Editor!NoPopup
<1>4. EditTypes /\ KeptInv
  BY Zenon DEF EditInv
<1>5. typed' \in 0..MaxTyped /\ 1..typed' = 1..typed \cup {typed + 1}
  <2>1. typed \in 0..MaxTyped /\ MaxTyped \in Nat
    BY <1>4, AtomsAreMade, Zenon DEF EditTypes
  <2> QED BY <2>1, <1>1
<1>6. EditTypes'
  BY ONLY <1>1, <1>3, <1>4, <1>5, Zenon DEF EditTypes
<1>7. KeptInv'
  <2>1. Shelf' = Shelf /\ Composed' = Composed
    BY <1>1, Zenon DEF Shelf, Composed
  <2> QED BY ONLY <2>1, <1>1, <1>4, <1>5, Zenon DEF KeptInv
<1>8. PopupInv' /\ KillsInv' /\ SearchInv'
  BY <1>1, <1>2, <1>3, Zenon DEF PopupInv, KillsInv, SearchInv, Editor!KillsComeBack
<1> QED BY <1>6, <1>7, <1>8, Zenon DEF EditInv

-----------------------------------------------------------------------------
(* Links                                                                   *)

\* Texts one after the other are one text, made of the first of them, the first
\* two, and so on.
LEMMA Flattened ==
    ASSUME NEW El, NEW n \in Nat, n # 0, NEW W \in Seq(Seq(El)), Len(W) = n
    PROVE  \E f : /\ Editor!FlattenSeq(W) = f[n] /\ f[1] = W[1]
                  /\ \A i \in 2..n : f[i] = f[i - 1] \o W[i]
<1> DEFINE S == Seq(El)
           Part(i) == IF i \in 1..n THEN W[i] ELSE <<>>
           step == [x \in Nat \X S |-> x[2] \o Part(x[1])]
<1>1. /\ 1..Len(W) = 1..n /\ \A i \in 1..n : W[i] \in S
      /\ <<>> \in S /\ 1 \in 1..n /\ n \in 1..n
  <2>1. \A i \in 1..Len(W) : W[i] \in S
    BY ElementOfSeq, Zenon
  <2>2. 1 \in 1..n /\ n \in 1..n
    OBVIOUS
  <2> QED BY <2>1, <2>2, EmptySeq, Zenon
<1>2. \A i : Part(i) \in S
  BY <1>1, Zenon
<1> HIDE DEF Part
<1>3. step \in [Nat \X S -> S]
  <2>1. \A x \in Nat \X S : x[2] \in S
    OBVIOUS
  <2>2. \A x \in Nat \X S : x[2] \o Part(x[1]) \in S
    BY <1>2, <2>1, ConcatProperties, Zenon
  <2> QED BY <2>2, Zenon
<1>4. PICK g \in [0..n -> S] : Steps(g, <<>>, step, n)
  <2> HIDE DEF step, S
  <2> QED BY <1>1, <1>3, RecursionIsDefined, Zenon
<1>5. g[0] = <<>> /\ \A i \in 1..n : g[i] = step[<<i, g[i - 1]>>]
  BY <1>4, Zenon DEF Steps
<1>6. \A i \in 1..n : g[i] = g[i - 1] \o W[i] /\ g[i - 1] \in S /\ g[i] \in S
  <2> SUFFICES ASSUME NEW i \in 1..n
               PROVE  g[i] = g[i - 1] \o W[i] /\ g[i - 1] \in S /\ g[i] \in S
    OBVIOUS
  <2>1. i \in Nat /\ i \in 0..n /\ i - 1 \in 0..n
    OBVIOUS
  <2>2. g[i - 1] \in S /\ g[i] \in S
    BY <2>1, Zenon
  <2>3. <<i, g[i - 1]>> \in Nat \X S
    BY <2>1, <2>2, Zenon
  <2>4. step[<<i, g[i - 1]>>] = g[i - 1] \o Part(i)
    <3>1. step[<<i, g[i - 1]>>] = <<i, g[i - 1]>>[2] \o Part(<<i, g[i - 1]>>[1])
      BY <2>3, Zenon
    <3>2. <<i, g[i - 1]>>[2] = g[i - 1] /\ <<i, g[i - 1]>>[1] = i
      OBVIOUS
    <3> HIDE DEF step
    <3> QED BY <3>1, <3>2, Zenon
  <2>5. Part(i) = W[i]
    BY Zenon DEF Part
  <2> HIDE DEF step
  <2> QED BY <1>5, <2>2, <2>4, <2>5, Zenon
<1> DEFINE Body(f) == [i \in 1..n |-> IF i = 1 THEN W[i] ELSE f[i - 1] \o W[i]]
           h == [i \in 1..n |-> g[i]]
<1>7. h = Body(h)
  <2>1. ASSUME NEW i \in 1..n PROVE h[i] = IF i = 1 THEN W[i] ELSE h[i - 1] \o W[i]
    <3>1. CASE i = 1
      <4>1. g[1] = g[0] \o W[1] /\ W[1] \in S
        <5>1. 1 - 1 = 0
          OBVIOUS
        <5> QED BY <1>1, <1>6, <5>1, Zenon
      <4>2. <<>> \o W[1] = W[1]
        BY <4>1, ConcatEmptySeq, Zenon
      <4> QED BY <1>5, <3>1, <4>1, <4>2, Zenon
    <3>2. CASE i # 1
      <4>1. i - 1 \in 1..n
        BY <3>2
      <4> QED BY <1>6, <3>2, <4>1, Zenon
    <3> QED BY <3>1, <3>2, Zenon
  <2> HIDE DEF h
  <2>2. h = [i \in 1..n |-> h[i]]
    BY Zenon DEF h
  <2>3. [i \in 1..n |-> h[i]] = [i \in 1..n |-> IF i = 1 THEN W[i] ELSE h[i - 1] \o W[i]]
    BY <2>1, Zenon
  <2> QED BY <2>2, <2>3, Zenon
<1> DEFINE f == CHOOSE f : f = Body(f)
<1> HIDE DEF h, Body
<1>8. f = Body(f)
  BY <1>7, Zenon
<1>9. Editor!FlattenSeq(W) = f[n]
  <2>1. Len(W) # 0
    OBVIOUS
  <2> QED BY <2>1, Zenon DEF Editor!FlattenSeq, f, Body
<1> HIDE DEF f
<1>10. \A i \in 1..n : f[i] = IF i = 1 THEN W[i] ELSE f[i - 1] \o W[i]
  BY <1>8, Zenon DEF Body
<1>11. \A i \in 2..n : i \in 1..n /\ i # 1
  OBVIOUS
<1>12. f[1] = W[1] /\ \A i \in 2..n : f[i] = f[i - 1] \o W[i]
  BY <1>1, <1>10, <1>11, Zenon
<1> QED BY <1>9, <1>12, Zenon

\* What the previews taken into the line make of one atom of it
Piece(i) == IF i \in Editor!Offered THEN <<line[i], <<"n", 0>>>> ELSE <<line[i]>>
OfferedBefore(c) == {i \in Editor!Offered : i <= c}

LEMMA OneMoreUpTo ==
    ASSUME NEW n \in Nat, NEW P, P \subseteq 1..n, NEW k \in Nat
    PROVE  /\ Cardinality({i \in P : i <= k}) \in Nat
           /\ Cardinality({i \in P : i <= k + 1})
                = Cardinality({i \in P : i <= k}) + (IF k + 1 \in P THEN 1 ELSE 0)
           /\ Cardinality({i \in P : i <= 0}) = 0
<1> DEFINE UpTo(m) == {i \in P : i <= m}
<1>0. \A i \in P : i \in Nat /\ 1 <= i /\ i <= n
  OBVIOUS
<1>1. IsFiniteSet(UpTo(k)) /\ Cardinality(UpTo(k)) \in Nat
  <2>1. UpTo(k) \subseteq 1..n
    BY Zenon
  <2>2. IsFiniteSet(1..n)
    BY FS_Interval
  <2> HIDE DEF UpTo
  <2> QED BY <2>1, <2>2, FS_Subset, FS_CardinalityType, Zenon
<1>2. UpTo(k + 1) = IF k + 1 \in P THEN UpTo(k) \cup {k + 1} ELSE UpTo(k)
  <2>1. \A i \in P : i <= k + 1 <=> (i <= k \/ i = k + 1)
    BY <1>0
  <2> QED BY <2>1, Zenon
<1>3. k + 1 \notin UpTo(k) /\ UpTo(0) = {}
  <2>1. ~(k + 1 <= k) /\ \A i \in P : ~(i <= 0)
    BY <1>0
  <2> QED BY <2>1, Zenon
<1> HIDE DEF UpTo
<1>4. Cardinality(UpTo(k + 1)) = Cardinality(UpTo(k)) + (IF k + 1 \in P THEN 1 ELSE 0)
  <2>1. Cardinality(UpTo(k) \cup {k + 1}) = Cardinality(UpTo(k)) + 1
    BY <1>1, <1>3, FS_AddElement
  <2>2. Cardinality(UpTo(k)) + 0 = Cardinality(UpTo(k))
    BY <1>1
  <2> QED BY <1>2, <2>1, <2>2, Zenon
<1>5. Cardinality(UpTo(0)) = 0
  BY <1>3, FS_EmptySet, Zenon
<1> QED BY <1>1, <1>4, <1>5, Zenon DEF UpTo

LEMMA OneMoreOffered ==
    ASSUME line \in Seq(Editor!Atoms), NEW k \in Nat
    PROVE  /\ Cardinality(OfferedBefore(k)) \in Nat
           /\ Cardinality(OfferedBefore(k + 1))
                = Cardinality(OfferedBefore(k)) + (IF k + 1 \in Editor!Offered THEN 1 ELSE 0)
           /\ Cardinality(OfferedBefore(0)) = 0
<1>1. DOMAIN line = 1..Len(line) /\ Len(line) \in Nat
  BY LenProperties, Zenon
<1>2. Editor!Offered \subseteq 1..Len(line)
  BY <1>1, Zenon DEF Editor!Offered, Editor!Ghosts, Editor!Spans
<1> QED BY <1>1, <1>2, OneMoreUpTo, Zenon DEF OfferedBefore

LEMMA PieceOfLine ==
    ASSUME Editor!ComposeAssumption, line \in Seq(Editor!Atoms), NEW i \in 1..Len(line)
    PROVE  /\ Piece(i) \in Seq(Editor!Atoms)
           /\ Len(Piece(i)) = 1 + (IF i \in Editor!Offered THEN 1 ELSE 0)
           /\ Editor!Stamps(Piece(i)) = Editor!Stamps(<<line[i]>>)
<1> DEFINE note == <<"n", 0>>
           a == line[i]
<1>1. note \in Editor!Atoms /\ note[2] = 0 /\ a \in Editor!Atoms
  BY AtomsAreMade, ElementOfSeq, Zenon
<1>2. Piece(i) = IF i \in Editor!Offered THEN <<a, note>> ELSE <<a>>
  BY Zenon DEF Piece
<1> HIDE DEF note, a
<1>3. /\ <<a>> \in Seq(Editor!Atoms) /\ Len(<<a>>) = 1 + 0
      /\ <<a, note>> \in Seq(Editor!Atoms) /\ Len(<<a, note>>) = 1 + 1
  BY <1>1
<1>4. Editor!Stamps(<<a, note>>) = Editor!Stamps(<<a>>)
  <2>1. DOMAIN <<a, note>> = {1, 2} /\ <<a, note>>[1] = a /\ <<a, note>>[2] = note
    OBVIOUS
  <2>2. Editor!Stamps(<<a, note>>) = {a[2]} \ {0}
    BY <2>1, <1>1, Zenon DEF Editor!Stamps
  <2>3. Editor!Stamps(<<a>>) = {a[2]} \ {0}
    BY StampsOfOne, Zenon
  <2> QED BY <2>2, <2>3, Zenon
<1>5. CASE i \in Editor!Offered
  <2>1. Piece(i) = <<a, note>>
    BY <1>2, <1>5, Zenon
  <2>2. Len(Piece(i)) = 1 + (IF i \in Editor!Offered THEN 1 ELSE 0)
    BY <1>3, <1>5, <2>1
  <2> QED BY <1>3, <1>4, <2>1, <2>2, Zenon DEF a
<1>6. CASE i \notin Editor!Offered
  <2>1. Piece(i) = <<a>>
    BY <1>2, <1>6, Zenon
  <2>2. Len(Piece(i)) = 1 + (IF i \in Editor!Offered THEN 1 ELSE 0)
    BY <1>3, <1>6, <2>1
  <2> QED BY <1>3, <2>1, <2>2, Zenon DEF a
<1> QED BY <1>5, <1>6, Zenon

LEMMA OneMoreOfLine ==
    ASSUME NEW El, NEW s \in Seq(El), NEW k \in 1..Len(s)
    PROVE  Editor!Stamps(Editor!First(s, k))
             = Editor!Stamps(Editor!First(s, k - 1)) \cup Editor!Stamps(<<s[k]>>)
<1>1. PICK j \in 0..Len(s) : j = k - 1 /\ k \in j..Len(s) /\ j + 1 = k
  <2>1. k - 1 \in 0..Len(s) /\ k \in (k - 1)..Len(s) /\ k - 1 + 1 = k
    BY LenProperties
  <2> QED BY <2>1, Zenon
<1>2. Editor!First(s, j) \o SubSeq(s, j + 1, k) = Editor!First(s, k)
  BY ONLY s \in Seq(El), <1>1, JoinCut, Zenon
<1>3. SubSeq(s, j + 1, k) = <<s[k]>>
  BY <1>1, CutOfOne, Zenon
<1> DEFINE a == Editor!First(s, j)
           b == SubSeq(s, j + 1, k)
<1>4. a \in Seq(El)
  BY SidesOfPlace, Zenon
<1>5. b \in Seq(El)
  BY ONLY s \in Seq(El), <1>1, CutOut, Zenon
<1> HIDE DEF a, b
<1>6. Editor!Stamps(a \o b) = Editor!Stamps(a) \cup Editor!Stamps(b)
  BY ONLY <1>4, <1>5, StampsOfConcat
<1> QED BY <1>1, <1>2, <1>3, <1>6, Zenon DEF a, b

\* Taken into the line, the previews leave all that the user typed in it, and
\* before the cursor what was before it.
LEMMA WovenIsLine ==
    ASSUME Editor!ComposeAssumption, line \in Seq(Editor!Atoms), Editor!Offered # {},
           NEW c \in 0..Len(line)
    PROVE  /\ Editor!Woven \in Seq(Editor!Atoms)
           /\ Editor!Stamps(Editor!Woven) = Editor!Stamps(line)
           /\ c + Cardinality(OfferedBefore(c)) \in 0..Len(Editor!Woven)
           /\ Editor!Stamps(Editor!First(Editor!Woven, c + Cardinality(OfferedBefore(c))))
                = Editor!Stamps(Editor!First(line, c))
<1> DEFINE N == Len(line)
           W == [i \in 1..N |-> Piece(i)]
           S == Seq(Editor!Atoms)
           Taken(i) == Cardinality(OfferedBefore(i))
<1>1. DOMAIN line = 1..N /\ N \in Nat
  BY LenProperties, Zenon
<1>2. N # 0 /\ 1 \in 1..N
  <2>1. Editor!Offered \subseteq 1..N
    BY <1>1, Zenon DEF Editor!Offered, Editor!Ghosts, Editor!Spans
  <2>2. PICK i \in Editor!Offered : i \in 1..N
    BY <2>1, Zenon
  <2> HIDE DEF N
  <2> QED BY <1>1, <2>2
<1>3. Editor!Woven = Editor!FlattenSeq(W)
  BY <1>1, Zenon DEF Editor!Woven, Piece
<1>4. W \in Seq(S) /\ Len(W) = N /\ \A i \in 1..N : W[i] = Piece(i) /\ W[i] \in S
  <2>1. \A i \in 1..N : Piece(i) \in S
    BY PieceOfLine, Zenon
  <2>2. \A w \in [1..N -> S] : w \in Seq(S) /\ Len(w) = N
    <3> SUFFICES ASSUME NEW w \in [1..N -> S] PROVE w \in Seq(S) /\ Len(w) = N
      OBVIOUS
    <3> HIDE DEF N, S
    <3> QED BY <1>1
  <2>3. W \in [1..N -> S] /\ \A i \in 1..N : W[i] = Piece(i)
    BY <2>1, Zenon
  <2> HIDE DEF N, S, W
  <2> QED BY <2>1, <2>2, <2>3, Zenon
<1> HIDE DEF W, N
<1>5. PICK f : /\ Editor!FlattenSeq(W) = f[N] /\ f[1] = W[1]
               /\ \A i \in 2..N : f[i] = f[i - 1] \o W[i]
  <2>1. W \in Seq(Seq(Editor!Atoms)) /\ Len(W) = N /\ N \in Nat /\ N # 0
    BY <1>1, <1>2, <1>4, Zenon
  <2> QED BY ONLY <2>1, Flattened
<1> DEFINE Good(k) == /\ f[k] \in S /\ Len(f[k]) = k + Taken(k)
                      /\ Editor!Stamps(f[k]) = Editor!Stamps(Editor!First(line, k))
<1>6. \A k \in Nat : Taken(k) \in Nat
                     /\ Taken(k + 1) = Taken(k) + (IF k + 1 \in Editor!Offered THEN 1 ELSE 0)
                     /\ Taken(0) = 0
  BY OneMoreOffered, Zenon
<1> HIDE DEF Taken, S
<1>7. \A k \in 1..N : Good(k)
  <2> DEFINE T == {k \in Nat : k \in 1..N => Good(k)}
  <2>1. 0 \in T
    BY <1>1
  <2>2. ASSUME NEW k \in Nat, k \in T PROVE k + 1 \in T
    <3> DEFINE j == k + 1
    <3>0. k + 1 \in Nat
      OBVIOUS
    <3>1. SUFFICES ASSUME j \in 1..N PROVE Good(j)
      BY <3>0, Zenon
    <3>2. /\ W[j] \in S /\ Len(W[j]) = 1 + (IF j \in Editor!Offered THEN 1 ELSE 0)
          /\ Editor!Stamps(W[j]) = Editor!Stamps(<<line[j]>>)
      BY <3>1, <1>4, PieceOfLine, Zenon DEF N
    <3>3. Editor!Stamps(Editor!First(line, j))
            = Editor!Stamps(Editor!First(line, j - 1)) \cup Editor!Stamps(<<line[j]>>)
      BY <3>1, OneMoreOfLine, Zenon DEF N
    <3>4. /\ Taken(k) \in Nat /\ Taken(j) = Taken(k) + (IF j \in Editor!Offered THEN 1 ELSE 0)
          /\ Taken(0) = 0 /\ j - 1 = k
      <4>1. j - 1 = k
        OBVIOUS
      <4> QED BY <1>6, <4>1, Zenon
    <3>5. CASE k = 0
      <4>1. j = 1
        BY <3>5
      <4>2. f[j] = W[j]
        BY <1>5, <4>1, Zenon
      <4>3. Editor!Stamps(Editor!First(line, k)) = {}
        <5>1. SubSeq(line, 1, 0) = <<>>
          BY SubSeqEmpty
        <5> QED BY <3>5, <5>1, StampsOfOne, Zenon DEF Editor!First
      <4>4. Editor!Stamps(f[j]) = Editor!Stamps(Editor!First(line, j))
        BY <3>2, <3>3, <3>4, <4>2, <4>3, Zenon
      <4>5. Len(f[j]) = j + Taken(j)
        <5>1. 1 + (IF j \in Editor!Offered THEN 1 ELSE 0) = j + Taken(j)
          BY <3>4, <3>5, <4>1
        <5> QED BY <3>2, <4>2, <5>1, Zenon
      <4> QED BY <3>2, <4>2, <4>4, <4>5, Zenon
    <3>6. CASE k # 0
      <4>1. k \in 1..N /\ j \in 2..N
        BY <1>1, <3>1, <3>6
      <4>2. Good(k)
        BY <2>2, <4>1, Zenon
      <4> DEFINE p == f[k]
                 q == W[j]
      <4>3. f[j] = p \o q
        BY <1>5, <3>4, <4>1, Zenon
      <4>4. p \in S /\ q \in S
        BY <3>2, <4>2, Zenon
      <4> HIDE DEF p, q
      <4>5. p \o q \in S /\ Len(p \o q) = Len(p) + Len(q)
        BY <4>4, ConcatProperties, Zenon DEF S
      <4>6. Editor!Stamps(p \o q) = Editor!Stamps(p) \cup Editor!Stamps(q)
        BY ONLY <4>4, StampsOfConcat DEF S
      <4>7. Editor!Stamps(f[j]) = Editor!Stamps(Editor!First(line, j))
        BY <3>2, <3>3, <3>4, <4>2, <4>3, <4>6, Zenon DEF p, q
      <4>8. Len(f[j]) = j + Taken(j)
        <5>1. k + Taken(k) + (1 + (IF j \in Editor!Offered THEN 1 ELSE 0)) = j + Taken(j)
          BY <3>4
        <5>2. Len(p) = k + Taken(k) /\ Len(q) = 1 + (IF j \in Editor!Offered THEN 1 ELSE 0)
          BY <3>2, <4>2, Zenon DEF p, q
        <5> HIDE DEF j
        <5> QED BY <4>3, <4>5, <5>1, <5>2, Zenon
      <4> QED BY <4>3, <4>5, <4>7, <4>8, Zenon
    <3> QED BY <3>5, <3>6, Zenon
  <2>3. Nat \subseteq T
    <3> HIDE DEF T
    <3> QED BY <2>1, <2>2, NatSetInduction
  <2>4. 1..N \subseteq Nat
    OBVIOUS
  <2> HIDE DEF Good
  <2> QED BY <2>3, <2>4, Zenon
<1>8. \A k \in 1..N : \E t \in S : f[N] = f[k] \o t
  <2> SUFFICES ASSUME NEW k \in 1..N PROVE \E t \in S : f[N] = f[k] \o t
    OBVIOUS
  <2> DEFINE T == {m \in Nat : k + m <= N => \E t \in S : f[k + m] = f[k] \o t}
  <2>0. f[k] \in S /\ k \in Nat /\ k <= N
    BY <1>1, <1>7
  <2>1. 0 \in T
    <3>1. <<>> \in S /\ f[k] \o <<>> = f[k]
      BY <2>0, EmptySeq, ConcatEmptySeq, Zenon DEF S
    <3>2. k + 0 = k
      BY <2>0
    <3> QED BY <3>1, <3>2, Zenon
  <2>2. ASSUME NEW m \in Nat, m \in T PROVE m + 1 \in T
    <3> SUFFICES ASSUME k + (m + 1) <= N PROVE \E t \in S : f[k + (m + 1)] = f[k] \o t
      OBVIOUS
    <3> DEFINE j == k + (m + 1)
    <3>1. j \in 2..N /\ j \in 1..N /\ j - 1 = k + m /\ k + m <= N
      BY <1>1, <2>0
    <3>2. PICK t \in S : f[k + m] = f[k] \o t
      BY <2>2, <3>1, Zenon
    <3>3. f[j] = f[k + m] \o W[j] /\ W[j] \in S
      BY <1>4, <1>5, <3>1, Zenon
    <3> HIDE DEF j
    <3>4. (f[k] \o t) \o W[j] = f[k] \o (t \o W[j]) /\ t \o W[j] \in S
      <4>1. \A x, y, z \in S : x \o y \o z = x \o (y \o z)
        BY ONLY Together DEF S
      <4>2. t \o W[j] \in S
        BY <3>2, <3>3, ConcatProperties, Zenon DEF S
      <4> QED BY <2>0, <3>3, <4>1, <4>2, Zenon
    <3>5. f[j] = f[k] \o (t \o W[j])
      BY <3>2, <3>3, <3>4, Zenon
    <3> QED BY <3>4, <3>5, Zenon DEF j
  <2>3. Nat \subseteq T
    <3> HIDE DEF T
    <3> QED BY <2>1, <2>2, NatSetInduction
  <2>4. N - k \in T /\ k + (N - k) = N /\ k + (N - k) <= N
    <3>1. N - k \in Nat /\ k + (N - k) = N /\ k + (N - k) <= N
      BY <1>1, <2>0
    <3> HIDE DEF T
    <3> QED BY <2>3, <3>1, Zenon
  <2> QED BY <2>4, Zenon
<1>9. Editor!Woven = f[N] /\ Good(N)
  <2>1. N \in 1..N
    BY <1>1, <1>2
  <2> QED BY <1>3, <1>5, <1>7, <2>1, Zenon
<1>10. Editor!First(line, N) = line
  BY SubSeqFull, Zenon DEF Editor!First, N
<1>11. Editor!Woven \in S /\ Editor!Stamps(Editor!Woven) = Editor!Stamps(line)
  BY <1>9, <1>10, Zenon
<1>12. CASE c = 0
  <2>1. c + Taken(c) = 0
    BY <1>6, <1>12
  <2>2. SubSeq(Editor!Woven, 1, 0) = <<>> /\ SubSeq(line, 1, 0) = <<>>
    BY SubSeqEmpty
  <2>3. Editor!First(Editor!Woven, c + Taken(c)) = <<>> /\ Editor!First(line, c) = <<>>
    BY <1>12, <2>1, <2>2, Zenon DEF Editor!First
  <2>4. Len(Editor!Woven) \in Nat
    BY <1>11, LenProperties, Zenon DEF S
  <2>5. c + Taken(c) \in 0..Len(Editor!Woven)
    BY <2>1, <2>4
  <2> QED BY <1>11, <2>3, <2>5, Zenon DEF Taken, S
<1>13. CASE c # 0
  <2>1. c \in 1..N
    BY <1>1, <1>13 DEF N
  <2>2. PICK t \in S : f[N] = f[c] \o t
    BY <1>8, <2>1, Zenon
  <2>3. Good(c)
    BY <1>7, <2>1, Zenon
  <2> DEFINE p == f[c]
  <2>4. p \in Seq(Editor!Atoms) /\ t \in Seq(Editor!Atoms)
    BY <2>2, <2>3, Zenon DEF S
  <2> HIDE DEF p
  <2>5. Editor!First(p \o t, Len(p)) = p
    BY ONLY <2>4, SidesOfConcat
  <2>6. Editor!First(Editor!Woven, c + Taken(c)) = p
    BY <1>9, <2>2, <2>3, <2>5, Zenon DEF p
  <2>7. Len(p \o t) = Len(p) + Len(t) /\ Len(p) \in Nat /\ Len(t) \in Nat
    BY <2>4, ConcatProperties, LenProperties, Zenon
  <2>8. Len(p) \in 0..(Len(p) + Len(t))
    BY <2>7
  <2>9. c + Taken(c) \in 0..Len(Editor!Woven)
    BY <1>9, <2>2, <2>3, <2>7, <2>8, Zenon DEF p
  <2> QED BY <1>11, <2>3, <2>6, <2>9, Zenon DEF p, Taken, S
<1> QED BY <1>12, <1>13, Zenon

LEMMA AcceptPreviewsStep ==
    ASSUME Editor!ComposeAssumption, EditInv, Editor!AcceptPreviews
    PROVE  /\ EditInv' /\ Editor!Stamps(line') = Editor!Stamps(line)
           /\ Editor!Stamps(Editor!First(line', cursor')) = Editor!Stamps(Editor!First(line, cursor))
<1> DEFINE c == cursor + Cardinality(OfferedBefore(cursor))
<1>1. /\ Editor!Normal /\ Editor!Offered # {} /\ Len(Editor!Woven) <= MaxLine
      /\ line' = Editor!Woven /\ cursor' = c
      /\ lastKill' = FALSE /\ killedOf' = <<>> /\ search' = search /\ entered' = entered
      /\ under' = under /\ killRing' = killRing /\ popup' = popup /\ typed' = typed /\ gone' = gone
      /\ UNCHANGED <<inputHistory, historyPos, historySave>>
  <2>1. \A T : Editor!Cardinality(T) = Cardinality(T)
    BY Zenon DEF Editor!Cardinality, Cardinality
  <2>2. Editor!LineIs(Editor!Woven, cursor + Editor!Cardinality({i \in Editor!Offered : i <= cursor}))
    BY Zenon DEF Editor!AcceptPreviews
  <2>3. Editor!LineIs(Editor!Woven, c)
    BY <2>1, <2>2, Zenon DEF OfferedBefore
  <2> HIDE DEF c
  <2> QED BY <2>3, Zenon DEF Editor!AcceptPreviews, Editor!LineIs, Editor!KeyDone, Editor!past
<1>2. /\ ~search.on /\ ~popup.on /\ line \in Seq(Editor!Atoms) /\ cursor \in 0..Len(line)
      /\ typed \in 0..MaxTyped
      /\ 1..typed \subseteq gone \cup under \cup Editor!Stamps(line) \cup Shelf
  BY <1>1, PlainFacts, Zenon DEF Editor!Normal
<1>3. /\ Editor!Woven \in Seq(Editor!Atoms)
      /\ Editor!Stamps(Editor!Woven) = Editor!Stamps(line)
      /\ c \in 0..Len(Editor!Woven)
      /\ Editor!Stamps(Editor!First(Editor!Woven, c)) = Editor!Stamps(Editor!First(line, cursor))
  BY <1>1, <1>2, WovenIsLine, Zenon
<1> HIDE DEF c
<1>4. line' \in EditLines /\ cursor' \in 0..Len(line')
  BY <1>1, <1>3, Zenon DEF EditLines
<1>5. /\ killRing' \in Seq(Editor!Atoms) /\ lastKill' \in BOOLEAN
      /\ inputHistory' \in Seq(EditLines) /\ historyPos' \in 0..Len(inputHistory')
      /\ historySave' \in EditLines /\ entered' \in Seq(EditLines)
      /\ popup' \in [on : BOOLEAN, token : SUBSET Nat] /\ ~popup'.on
  BY <1>1, <1>2, PlainFacts, Zenon
<1>6. /\ typed' \in 0..MaxTyped
      /\ 1..typed' \subseteq gone' \cup under' \cup Editor!Stamps(line') \cup Shelf'
  <2>1. Shelf' = Shelf
    BY <1>1, Zenon DEF Shelf
  <2> QED BY ONLY <2>1, <1>1, <1>2, <1>3, Zenon
<1>7. EditInv'
  BY ONLY EditInv, <1>1, <1>2, <1>4, <1>5, <1>6, PlainStep, Zenon
<1> QED BY <1>1, <1>3, <1>7, Zenon

LEMMA PreviewLandsStep ==
    ASSUME EditInv, NEW u, NEW summary, Editor!PreviewLands(u, summary)
    PROVE  EditInv' /\ line' = line /\ cursor' = cursor
<1>1. UNCHANGED <<line, cursor, killRing, lastKill, inputHistory, historyPos, historySave, search,
                  popup, typed, gone, under, killedOf, entered>>
  BY Zenon DEF Editor!PreviewLands, Editor!text, Editor!kills, Editor!past
<1> QED BY <1>1, EditStutter, Zenon

LEMMA ShortenStep ==
    ASSUME EditInv, Editor!Shorten
    PROVE  EditInv'
<1>1. /\ Editor!Normal /\ lastKill' = FALSE /\ killedOf' = <<>>
      /\ line' = line /\ cursor' = cursor
      /\ search' = search /\ entered' = entered /\ under' = under /\ killRing' = killRing
      /\ popup' = popup /\ typed' = typed /\ gone' = gone
      /\ UNCHANGED <<inputHistory, historyPos, historySave>>
  BY Zenon DEF Editor!Shorten, Editor!text, Editor!past
<1>2. /\ ~search.on /\ ~popup.on /\ line \in Seq(Editor!Atoms) /\ Len(line) <= MaxLine
      /\ cursor \in 0..Len(line) /\ typed \in 0..MaxTyped
      /\ 1..typed \subseteq gone \cup under \cup Editor!Stamps(line) \cup Shelf
  BY <1>1, PlainFacts, Zenon DEF Editor!Normal
<1>3. line' \in EditLines /\ cursor' \in 0..Len(line')
  BY <1>1, <1>2, Zenon DEF EditLines
<1>4. /\ killRing' \in Seq(Editor!Atoms) /\ lastKill' \in BOOLEAN
      /\ inputHistory' \in Seq(EditLines) /\ historyPos' \in 0..Len(inputHistory')
      /\ historySave' \in EditLines /\ entered' \in Seq(EditLines)
      /\ popup' \in [on : BOOLEAN, token : SUBSET Nat] /\ ~popup'.on
  BY <1>1, <1>2, PlainFacts, Zenon
<1>5. /\ typed' \in 0..MaxTyped
      /\ 1..typed' \subseteq gone' \cup under' \cup Editor!Stamps(line') \cup Shelf'
  <2>1. Shelf' = Shelf
    BY <1>1, Zenon DEF Shelf
  <2> QED BY ONLY <2>1, <1>1, <1>2, Zenon
<1> QED BY ONLY EditInv, <1>1, <1>2, <1>3, <1>4, <1>5, PlainStep, Zenon

\* A URL exchanged for its short form and the host: the stamps of the line, and
\* those before the cursor, are what they were.
KeepsPlace(s, c, t, d) ==
    /\ t \in Seq(Editor!Atoms) /\ Editor!Stamps(t) = Editor!Stamps(s)
    /\ d \in 0..Len(t)
    /\ Editor!Stamps(Editor!First(t, d)) = Editor!Stamps(Editor!First(s, c))
LEMMA ShortForm ==
    ASSUME Editor!ComposeAssumption, NEW s \in Seq(Editor!Atoms), NEW i \in 1..Len(s),
           NEW c \in 0..Len(s), NEW new, new = <<<<"s", s[i][2]>>, <<"h", 0>>>>,
           NEW t, t = Editor!First(s, i - 1) \o new \o Editor!From(s, i),
           NEW d, d = IF c < i THEN c ELSE c + 1
    PROVE  KeepsPlace(s, c, t, d)
<1> DEFINE k == s[i][2]
           a == <<"s", k>>
           b == <<"h", 0>>
<1>1. k \in 0..MaxTyped
  <2>1. s[i] \in Editor!Atoms
    BY ElementOfSeq, Zenon
  <2>2. \A x \in Editor!Atoms : x[2] \in 0..MaxTyped
    BY DEF Editor!Atoms
  <2> QED BY <2>1, <2>2, Zenon
<1>2. a \in Editor!Atoms /\ b \in Editor!Atoms
  BY <1>1, AtomsAreMade, Zenon
<1>3. a[2] = k /\ b[2] = 0
  OBVIOUS
<1>4. new = <<a, b>>
  BY Zenon
<1> HIDE DEF a, b
<1>5. new \in Seq(Editor!Atoms) /\ Len(new) = 2
  <2>1. <<a, b>> \in Seq(Editor!Atoms) /\ Len(<<a, b>>) = 2
    BY ONLY <1>2
  <2> QED BY <1>4, <2>1, Zenon
<1>6. Editor!Stamps(new) = Editor!Stamps(<<s[i]>>)
  <2>1. DOMAIN <<a, b>> = {1, 2} /\ <<a, b>>[1] = a /\ <<a, b>>[2] = b
    OBVIOUS
  <2>2. Editor!Stamps(<<a, b>>) = {k} \ {0}
    BY <2>1, <1>3, Zenon DEF Editor!Stamps
  <2>3. Editor!Stamps(<<s[i]>>) = {k} \ {0}
    BY StampsOfOne, Zenon
  <2> QED BY <1>4, <2>2, <2>3, Zenon
<1>7. /\ t \in Seq(Editor!Atoms) /\ Len(t) = Len(s) - 1 + Len(new)
      /\ Editor!Stamps(t) = Editor!Stamps(s)
      /\ c < i => Editor!First(t, c) = Editor!First(s, c)
      /\ c >= i => Editor!Stamps(Editor!First(t, c - 1 + Len(new)))
                     = Editor!Stamps(Editor!First(s, c))
  <2>1. Exchanged(Editor!Atoms, s, i, new, c, Editor!First(s, i - 1) \o new \o Editor!From(s, i))
    BY ONLY s \in Seq(Editor!Atoms), i \in 1..Len(s), c \in 0..Len(s), <1>5, <1>6,
            ExchangeOne, Zenon
  <2>2. Exchanged(Editor!Atoms, s, i, new, c, t)
    BY <2>1, Zenon
  <2> QED BY <2>2, Zenon DEF Exchanged
<1>8. d \in 0..Len(t)
  <2>1. Len(s) \in Nat /\ Len(t) = Len(s) - 1 + 2
    BY <1>5, <1>7, LenProperties, Zenon
  <2> QED BY ONLY <2>1, c \in 0..Len(s), d = IF c < i THEN c ELSE c + 1
<1>9. CASE c < i
  <2>1. d = c
    BY <1>9, Zenon
  <2> QED BY <1>7, <1>8, <1>9, <2>1, Zenon DEF KeepsPlace
<1>10. CASE ~(c < i)
  <2>1. c >= i /\ c - 1 + 2 = c + 1
    BY <1>10
  <2>2. d = c - 1 + Len(new)
    BY <1>5, <1>10, <2>1, Zenon
  <2> QED BY <1>7, <1>8, <2>1, <2>2, Zenon DEF KeepsPlace
<1> QED BY <1>9, <1>10, Zenon

LEMMA ShortenLandsStep ==
    ASSUME Editor!ComposeAssumption, EditInv, NEW key, Editor!ShortenLands(key)
    PROVE  /\ EditInv' /\ Editor!Stamps(line') = Editor!Stamps(line)
           /\ Editor!Stamps(Editor!First(line', cursor')) = Editor!Stamps(Editor!First(line, cursor))
<1>1. UNCHANGED <<killRing, lastKill, inputHistory, historyPos, historySave, search, popup, typed, gone,
                  under, entered>>
  BY Zenon DEF Editor!ShortenLands, Editor!kills, Editor!past
<1>2. CASE line' = line /\ cursor' = cursor /\ killedOf' = killedOf
  BY <1>1, <1>2, EditStutter, Zenon
<1>3. CASE ~(line' = line /\ cursor' = cursor /\ killedOf' = killedOf)
  <2> DEFINE New(i) == <<<<"s", line[i][2]>>, <<"h", 0>>>>
             Line(i) == Editor!First(line, i - 1) \o New(i) \o Editor!From(line, i)
  <2>1. PICK i \in Editor!Spans(line) :
          /\ Editor!LineIs(Line(i), Editor!CursorAfter(i)) /\ killedOf' = <<>>
    BY <1>3, Zenon DEF Editor!ShortenLands, Editor!text
  <2>2. /\ Len(Line(i)) <= MaxLine /\ line' = Line(i)
        /\ cursor' = IF cursor < i THEN cursor ELSE cursor + 1
    BY <2>1, Zenon DEF Editor!LineIs, Editor!CursorAfter
  <2>3. line \in Seq(Editor!Atoms) /\ cursor \in 0..Len(line) /\ i \in 1..Len(line)
    <3>1. line \in Seq(Editor!Atoms) /\ cursor \in 0..Len(line)
      BY Zenon DEF EditInv, EditTypes, EditLines
    <3>2. DOMAIN line = 1..Len(line)
      BY <3>1, LenProperties, Zenon
    <3> QED BY <3>1, <3>2, Zenon DEF Editor!Spans
  <2> DEFINE t == Line(i)
             d == IF cursor < i THEN cursor ELSE cursor + 1
  <2>4. /\ t \in Seq(Editor!Atoms) /\ Editor!Stamps(t) = Editor!Stamps(line)
        /\ d \in 0..Len(t)
        /\ Editor!Stamps(Editor!First(t, d)) = Editor!Stamps(Editor!First(line, cursor))
    <3> DEFINE new == New(i)
    <3>1. t = Editor!First(line, i - 1) \o new \o Editor!From(line, i)
      BY Zenon
    <3>2. new = <<<<"s", line[i][2]>>, <<"h", 0>>>> /\ d = IF cursor < i THEN cursor ELSE cursor + 1
      BY Zenon
    <3> HIDE DEF new, t, d
    <3>3. KeepsPlace(line, cursor, t, d)
      BY ONLY Editor!ComposeAssumption, <2>3, <3>1, <3>2, ShortForm, Zenon
    <3> QED BY <3>3, Zenon DEF KeepsPlace
  <2>5. line' = t /\ cursor' = d /\ Len(t) <= MaxLine
    BY <2>2, Zenon
  <2> HIDE DEF t, d, Line, New
  <2>6. EditTypes'
    <3>1. line' \in EditLines /\ cursor' \in 0..Len(line')
      BY <2>4, <2>5, Zenon DEF EditLines
    <3>2. EditTypes /\ <<>> \in Seq(EditLines)
      BY EmptySeq, Zenon DEF EditInv
    <3> QED BY ONLY <1>1, <2>1, <3>1, <3>2, Zenon DEF EditTypes
  <2>7. KeptInv'
    <3>1. Shelf' = Shelf /\ Editor!Stamps(Composed') = Editor!Stamps(Composed)
      BY <1>1, <2>4, <2>5, Zenon DEF Shelf, Composed
    <3>2. KeptInv
      BY Zenon DEF EditInv
    <3> QED BY ONLY <1>1, <3>1, <3>2, Zenon DEF KeptInv
  <2>8. PopupInv'
    BY <1>1, <2>4, <2>5, Zenon DEF EditInv, PopupInv
  <2>9. KillsInv'
    BY <1>1, <2>1, Zenon DEF KillsInv, Editor!KillsComeBack
  <2>10. SearchInv'
    <3>1. Editor!SearchFindsNearest => Editor!SearchFindsNearest'
      BY <1>1, NearestIsNearest, Zenon
    <3> QED BY <1>1, <3>1, Zenon DEF EditInv, SearchInv
  <2> QED BY <2>4, <2>5, <2>6, <2>7, <2>8, <2>9, <2>10, Zenon DEF EditInv
<1> QED BY <1>2, <1>3, Zenon

-----------------------------------------------------------------------------
(* The invariant, and what follows                                         *)

LEMMA EditInit ==
    ASSUME Editor!ComposeAssumption, Editor!Init
    PROVE  EditInv
<1>1. /\ line = <<>> /\ cursor = 0 /\ killRing = <<>> /\ lastKill = FALSE
      /\ inputHistory = <<>> /\ historyPos = 0 /\ historySave = <<>>
      /\ search = Editor!NoSearch /\ popup = Editor!NoPopup
      /\ typed = 0 /\ gone = {} /\ under = {} /\ killedOf = <<>> /\ entered = <<>>
  BY Zenon DEF Editor!Init
<1>2. <<>> \in EditLines /\ <<>> \in Seq(EditLines) /\ <<>> \in Seq(Editor!Atoms)
  BY EmptyIsLine, EmptySeq, Zenon
<1>3. /\ Editor!NoPopup \in [on : BOOLEAN, token : SUBSET Nat] /\ ~Editor!NoPopup.on
      /\ Editor!NoSearch \in [on : BOOLEAN, back : BOOLEAN, buf : Seq(Typable), save : EditLines,
                              idx : Nat, pos : Nat]
      /\ ~Editor!NoSearch.on
  BY NoSearchIsSearch DEF Editor!NoPopup
<1>4. Len(<<>>) = 0 /\ 0 \in 0..0 /\ 0 \in 0..MaxTyped /\ 1..0 = {}
  BY AtomsAreMade
<1>5. EditTypes
  BY <1>1, <1>2, <1>3, <1>4, Zenon DEF EditTypes
<1>6. KeptInv
  BY <1>1, <1>4, Zenon DEF KeptInv
<1>7. PopupInv /\ KillsInv /\ SearchInv
  BY <1>1, <1>3, Zenon DEF PopupInv, KillsInv, SearchInv, Editor!KillsComeBack
<1> QED BY <1>5, <1>6, <1>7, Zenon DEF EditInv

LEMMA EditNext ==
    ASSUME Editor!ComposeAssumption, EditInv, [Editor!Next]_(Editor!vars)
    PROVE  EditInv'
<1>1. CASE UNCHANGED Editor!vars
  <2>1. UNCHANGED <<line, cursor, killRing, lastKill, inputHistory, historyPos, historySave, search,
                    popup, typed, gone, under, killedOf, entered>>
    BY <1>1, Zenon DEF Editor!vars, Editor!text, Editor!kills, Editor!past
  <2> QED BY <2>1, EditStutter, Zenon
<1>2. ASSUME NEW l \in Typable, Editor!Type(l) PROVE EditInv'
  BY <1>2, TypeStep, Zenon
<1>3. CASE Editor!Move \/ Editor!DeleteBack \/ Editor!DeleteForward
  BY <1>3, MoveStep, DeleteBackStep, DeleteForwardStep, Zenon
<1>4. CASE Editor!Kill \/ Editor!Yank \/ Editor!TransposeChars \/ Editor!TransposeWords
  BY <1>4, KillStep, YankStep, TransposeCharsStep, TransposeWordsStep, Zenon
<1>5. CASE Editor!TogglePaste
  BY <1>5, TogglePasteStep, Zenon
<1>6. ASSUME NEW l \in Typable, Editor!Paste(l) PROVE EditInv'
  BY <1>6, PasteStep, Zenon
<1>7. CASE Editor!HistoryPrev \/ Editor!HistoryNext \/ Editor!Submit
  BY <1>7, HistoryPrevStep, HistoryNextStep, SubmitStep, Zenon
<1>8. CASE Editor!SearchBackspace \/ Editor!SearchCancel \/ Editor!SearchAccept
  BY <1>8, SearchBackspaceStep, SearchEndsStep, Zenon
<1>9. ASSUME NEW back \in BOOLEAN, Editor!EnterSearch(back) \/ Editor!SearchAgain(back)
      PROVE  EditInv'
  BY <1>9, EnterSearchStep, SearchAgainStep, Zenon
<1>10. ASSUME NEW l \in Typable, Editor!SearchType(l) PROVE EditInv'
  BY <1>10, SearchTypeStep, Zenon
<1>11. CASE Editor!Expand \/ Editor!TabName \/ Editor!TabDestination
  BY <1>11, ExpandStep, TabNameStep, TabDestinationStep, Zenon
<1>12. CASE Editor!AcceptCompletion \/ Editor!PopupCloses \/ Editor!TypeUnderPopup
  BY <1>12, AcceptCompletionStep, PopupClosesStep, TypeUnderPopupStep, Zenon
<1>13. CASE Editor!AcceptPreviews \/ Editor!Shorten
  BY <1>13, AcceptPreviewsStep, ShortenStep, Zenon
<1>14. ASSUME NEW c \in 0..MaxLine, Editor!Click(c) PROVE EditInv'
  BY <1>14, ClickStep, Zenon
<1>15. ASSUME NEW u, NEW summary, Editor!PreviewLands(u, summary) PROVE EditInv'
  BY <1>15, PreviewLandsStep, Zenon
<1>16. ASSUME NEW key, Editor!ShortenLands(key) PROVE EditInv'
  BY <1>16, ShortenLandsStep, Zenon
<1>17. ASSUME Editor!Keys PROVE EditInv'
  BY <1>2, <1>3, <1>4, <1>5, <1>6, <1>7, <1>8, <1>9, <1>10, <1>11, <1>12, <1>13, <1>14, <1>17,
     Zenon DEF Editor!Keys
<1>18. ASSUME Editor!Answers PROVE EditInv'
  BY <1>15, <1>16, <1>18, Zenon DEF Editor!Answers
<1> QED BY <1>1, <1>17, <1>18, Zenon DEF Editor!Next

LEMMA EditSafe ==
    ASSUME EditInv
    PROVE  Editor!TypingIsSafe
<1>1. Editor!NothingTypedIsLost
  <2>1. 1..typed \subseteq gone \cup under \cup Editor!Stamps(Composed) \cup Shelf
    BY Zenon DEF EditInv, KeptInv
  <2>2. Editor!Stamps(Composed) \subseteq
          Editor!Stamps(line) \cup (IF search.on THEN Editor!Stamps(search.save) ELSE {})
    BY Zenon DEF Composed
  <2> QED BY <2>1, <2>2, Zenon DEF Editor!NothingTypedIsLost, Shelf
<1>2. Editor!KillsComeBack /\ Editor!SearchFindsNearest
  <2>1. Editor!SearchFindsNearest
    BY NearestIsNearest, Zenon DEF EditInv, SearchInv
  <2> QED BY <2>1, Zenon DEF EditInv, KillsInv
<1> QED BY <1>1, <1>2, Zenon DEF Editor!TypingIsSafe

LEMMA EditHolds == Editor!ComposeAssumption => (Editor!Spec => []EditInv)
<1> SUFFICES ASSUME Editor!ComposeAssumption PROVE Editor!Spec => []EditInv
  OBVIOUS
<1>1. Editor!Init => EditInv
  BY EditInit
<1>2. EditInv /\ [Editor!Next]_(Editor!vars) => EditInv'
  BY EditNext
<1> QED BY <1>1, <1>2, PTL DEF Editor!Spec

\* Nothing the user types or pastes while no completion popup is open is lost but by a
\* key that removes it, kills in a row are one text that yanking puts back, and a search that is typed letter by
\* letter is at the match nearest to where it began: whatever is typed, for any
\* lengths of the line, the history and the pattern, and however answers about
\* links come between the keys.
THEOREM TypingHolds == Editor!ComposeAssumption => (Editor!Spec => []TypingIsSafe)
<1>1. EditInv => TypingIsSafe
  BY EditSafe, Zenon DEF TypingIsSafe
<1> QED BY <1>1, EditHolds, PTL

\* An answer about a link, or the previews taken into the line, leave before the
\* cursor all that the user had typed before it, and in the line all that was in it.
THEOREM PlacesHold == Editor!ComposeAssumption => (Editor!Spec => CursorKeepsItsPlace)
<1> DEFINE A == Editor!Answers \/ Editor!AcceptPreviews =>
                  /\ Editor!Stamps(Editor!First(line', cursor')) = Editor!Stamps(Editor!First(line, cursor))
                  /\ Editor!Stamps(line') = Editor!Stamps(line)
<1> SUFFICES ASSUME Editor!ComposeAssumption PROVE Editor!Spec => CursorKeepsItsPlace
  OBVIOUS
<1>1. EditInv => A
  <2> SUFFICES ASSUME EditInv, Editor!Answers \/ Editor!AcceptPreviews
               PROVE  /\ Editor!Stamps(Editor!First(line', cursor'))
                           = Editor!Stamps(Editor!First(line, cursor))
                      /\ Editor!Stamps(line') = Editor!Stamps(line)
    BY Zenon
  <2>1. CASE Editor!AcceptPreviews
    BY <2>1, AcceptPreviewsStep, Zenon
  <2>2. ASSUME NEW u, NEW summary, Editor!PreviewLands(u, summary)
        PROVE  line' = line /\ cursor' = cursor
    BY <2>2, PreviewLandsStep, Zenon
  <2>3. ASSUME NEW key, Editor!ShortenLands(key)
        PROVE  /\ Editor!Stamps(Editor!First(line', cursor'))
                    = Editor!Stamps(Editor!First(line, cursor))
               /\ Editor!Stamps(line') = Editor!Stamps(line)
    BY <2>3, ShortenLandsStep, Zenon
  <2>4. CASE Editor!Answers
    BY <2>2, <2>3, <2>4, Zenon DEF Editor!Answers
  <2> QED BY <2>1, <2>4, Zenon
<1>2. EditInv => [A]_(Editor!vars)
  BY <1>1, Zenon
<1>3. Editor!Spec => []EditInv
  BY EditHolds
<1> QED BY <1>2, <1>3, PTL DEF Editor!CursorKeepsItsPlace, CursorKeepsItsPlace

=============================================================================
