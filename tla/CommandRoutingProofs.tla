------------------------ MODULE CommandRoutingProofs ------------------------
(* Theorems about CommandRouting, for any fetches, commands and bounds, and,  *)
(* at the end, about the events that the clients are told of (EventLine).     *)
EXTENDS LilySays, SequenceLemmas

\* A fetch sends its command once, and is delivered to once, while its channel is
\* registered.
CallInv ==
    \A f \in Fetches :
        /\ pc[f] \in {"idle", "send"} => lily[f] = "unsent"
        /\ pc[f] = "idle" => chan[f] = <<>> /\ result[f] = <<>> /\ fetchResultCh # f
        /\ fetchResultCh = f => chan[f] = <<>>

\* Lily begins a command once, so its capture is never opened over another.
BeginInv ==
    /\ \A x \in open : lily[x] \in {"begun", "ended"}
    /\ \A i \in DOMAIN fromLily : fromLily[i].type = "begin" =>
          /\ fromLily[i].cmd \notin open
          /\ lily[fromLily[i].cmd] \in {"begun", "ended"}
          /\ \A j \in DOMAIN fromLily :
                fromLily[j].type = "begin" /\ fromLily[j].cmd = fromLily[i].cmd => i = j
    /\ IsFiniteSet(open)

\* Where line n of x is, one kind of place at a time.
UnreadAt(x, n, i) ==
    /\ i \in DOMAIN fromLily /\ fromLily[i].type = "raw"
    /\ fromLily[i].line.of = x /\ fromLily[i].line.n = n
CapturedAt(x, n, y, i) ==
    y \in open /\ i \in DOMAIN buf[y] /\ buf[y][i].of = x /\ buf[y][i].n = n
FetchedAt(x, n, f, i) ==
    /\ f \in Fetches /\ chan[f] # <<>>
    /\ i \in DOMAIN chan[f][1] /\ chan[f][1][i].of = x /\ chan[f][1][i].n = n
ShownAt(x, n, e, i) ==
    e \in DOMAIN published /\ e.line.of = x /\ e.line.n = n /\ i \in 1..published[e]

NoneUnread(x, n) == \A i : ~UnreadAt(x, n, i)
NoneCaptured(x, n) == \A y, i : ~CapturedAt(x, n, y, i)
NoneFetched(x, n) == \A f, i : ~FetchedAt(x, n, f, i)
NoneShown(x, n) == \A e, i : ~ShownAt(x, n, e, i)

OneUnread(x, n) == \E i : UnreadAt(x, n, i) /\ \A j : UnreadAt(x, n, j) => j = i
OneCaptured(x, n) ==
    \E y, i : CapturedAt(x, n, y, i) /\ \A z, j : CapturedAt(x, n, z, j) => z = y /\ j = i
OneFetched(x, n) ==
    \E f, i : FetchedAt(x, n, f, i) /\ \A g, j : FetchedAt(x, n, g, j) => g = f /\ j = i
OneShown(x, n) ==
    \E e, i : ShownAt(x, n, e, i) /\ \A d, j : ShownAt(x, n, d, j) => d = e /\ j = i

Nowhere(x, n) ==
    NoneUnread(x, n) /\ NoneCaptured(x, n) /\ NoneFetched(x, n) /\ NoneShown(x, n)
InOnePlace(x, n) ==
    \/ OneUnread(x, n) /\ NoneCaptured(x, n) /\ NoneFetched(x, n) /\ NoneShown(x, n)
    \/ NoneUnread(x, n) /\ OneCaptured(x, n) /\ NoneFetched(x, n) /\ NoneShown(x, n)
    \/ NoneUnread(x, n) /\ NoneCaptured(x, n) /\ OneFetched(x, n) /\ NoneShown(x, n)
    \/ NoneUnread(x, n) /\ NoneCaptured(x, n) /\ NoneFetched(x, n) /\ OneShown(x, n)

\* A line printed is in one place, a line to be printed is nowhere.
PlaceInv ==
    \A x \in Commands : \A n \in 1..MaxLines :
        IF n <= produced[x] THEN InOnePlace(x, n) ELSE Nowhere(x, n)

\* A fetch that is pinned is pinned to its own command if no other has its verb,
\* and so is given its own output.
OwnInv ==
    /\ fetchResultCh # None /\ fetchCmdID # None => fetchCmdID = fetchResultCh
    /\ \A f \in Fetches : chan[f] # <<>> => \A l \in LinesIn(chan[f][1]) : l.tagged => l.of = f
    /\ FetchReturnsItsOwnOutput

RoutingInv == TypeOK /\ CallInv /\ BeginInv /\ TaggedLinesStayWithTheirCommand /\ PlaceInv

-----------------------------------------------------------------------------
\* TypeOK in parts.
Progress == {"unsent", "sent", "begun", "ended"}
Points == {"idle", "send", "wait", "clear", "done"}
ServerTypes ==
    /\ lily \in [Commands -> Progress]
    /\ produced \in [Commands -> 0..MaxLines]
    /\ fromLily \in Seq(Messages)
CaptureTypes ==
    /\ open \subseteq Commands
    /\ buf \in [Commands -> Seq(Lines)]
    /\ \A x \in Commands \ open : buf[x] = <<>>
PendingTypes == fetchResultCh \in Fetches \cup {None} /\ fetchCmdID \in Commands \cup {None}
CallTypes == pc \in [Fetches -> Points] /\ result \in [Fetches -> Seq(Lines)]
ChanTypes ==
    /\ chan \in [Fetches -> Seq(Seq(Lines))]
    /\ \A f \in Fetches : Len(chan[f]) <= 1
Shows == [cmd : Commands \cup {None}, line : Lines]
BagTypes == IsABag(published) /\ BagToSet(published) \subseteq Shows

LEMMA TypeParts ==
    TypeOK <=> ServerTypes /\ CaptureTypes /\ PendingTypes /\ CallTypes /\ ChanTypes /\ BagTypes
<1>1. TypeOK => ServerTypes
  BY DEF TypeOK, ServerTypes, Progress
<1>2. TypeOK => CaptureTypes
  BY DEF TypeOK, CaptureTypes
<1>3. TypeOK => PendingTypes
  BY DEF TypeOK, PendingTypes
<1>4. TypeOK => CallTypes
  BY DEF TypeOK, CallTypes, Points
<1>5. TypeOK => ChanTypes
  BY DEF TypeOK, ChanTypes
<1>6. TypeOK => BagTypes
  BY DEF TypeOK, BagTypes, Shows
<1>7. ServerTypes /\ CaptureTypes /\ PendingTypes /\ CallTypes /\ ChanTypes /\ BagTypes => TypeOK
  <2> SUFFICES ASSUME ServerTypes, CaptureTypes, PendingTypes, CallTypes, ChanTypes, BagTypes
               PROVE  TypeOK
    OBVIOUS
  <2>1. /\ lily \in [Commands -> {"unsent", "sent", "begun", "ended"}]
        /\ produced \in [Commands -> 0..MaxLines] /\ fromLily \in Seq(Messages)
    BY DEF ServerTypes, Progress
  <2>2. /\ open \subseteq Commands
        /\ buf \in [Commands -> Seq(Lines)]
        /\ \A x \in Commands \ open : buf[x] = <<>>
    BY DEF CaptureTypes
  <2>3. fetchResultCh \in Fetches \cup {None} /\ fetchCmdID \in Commands \cup {None}
    BY DEF PendingTypes
  <2>4. /\ pc \in [Fetches -> {"idle", "send", "wait", "clear", "done"}]
        /\ result \in [Fetches -> Seq(Lines)]
    BY DEF CallTypes, Points
  <2>5. chan \in [Fetches -> Seq(Seq(Lines))] /\ \A f \in Fetches : Len(chan[f]) <= 1
    BY DEF ChanTypes
  <2>6. /\ IsABag(published)
        /\ BagToSet(published) \subseteq [cmd : Commands \cup {None}, line : Lines]
    BY DEF BagTypes, Shows
  <2> QED BY <2>1, <2>2, <2>3, <2>4, <2>5, <2>6, Zenon DEF TypeOK
<1> QED BY <1>1, <1>2, <1>3, <1>4, <1>5, <1>6, <1>7

\* What publishing does to the bag of what was shown.
LEMMA BagGrows ==
    ASSUME NEW B, IsABag(B), NEW S
    PROVE  /\ IsABag(B (+) SetToBag(S))
           /\ DOMAIN (B (+) SetToBag(S)) = DOMAIN B \cup S
           /\ \A e \in DOMAIN B \cup S :
                 (B (+) SetToBag(S))[e] =
                    (IF e \in DOMAIN B THEN B[e] ELSE 0) + (IF e \in S THEN 1 ELSE 0)
<1> DEFINE C == B (+) SetToBag(S)
           N(e) == (IF e \in DOMAIN B THEN B[e] ELSE 0) + (IF e \in S THEN 1 ELSE 0)
<1>1. DOMAIN SetToBag(S) = S /\ \A e \in S : SetToBag(S)[e] = 1
  BY DEF SetToBag
<1>2. C = [e \in DOMAIN B \cup S |-> (IF e \in DOMAIN B THEN B[e] ELSE 0)
                                      + (IF e \in S THEN SetToBag(S)[e] ELSE 0)]
  BY <1>1 DEF (+)
<1>3. DOMAIN C = DOMAIN B \cup S /\ \A e \in DOMAIN B \cup S : C[e] = N(e)
  <2>1. DOMAIN C = DOMAIN B \cup S
    BY <1>2
  <2>2. ASSUME NEW e \in DOMAIN B \cup S PROVE C[e] = N(e)
    BY <1>1, <1>2
  <2> QED BY <2>1, <2>2
<1>4. \A e \in DOMAIN B : B[e] \in Nat /\ B[e] > 0
  BY DEF IsABag
<1>5. \A e \in DOMAIN B \cup S : N(e) \in Nat /\ N(e) > 0
  BY <1>4
<1>6. C = [e \in DOMAIN C |-> C[e]]
  BY <1>2
<1>7. C \in [DOMAIN C -> {n \in Nat : n > 0}]
  <2> HIDE DEF C, N
  <2>1. \A e \in DOMAIN C : C[e] \in {n \in Nat : n > 0}
    BY <1>3, <1>5
  <2> QED BY <1>6, <2>1
<1> QED BY <1>3, <1>7 DEF IsABag

LEMMA LineParts ==
    ASSUME NEW l \in Lines
    PROVE  l.of \in Commands /\ l.n \in 1..MaxLines /\ l.tagged \in BOOLEAN
BY DEF Lines

LEMMA LinesAreLines ==
    ASSUME NEW s \in Seq(Lines)
    PROVE  LinesIn(s) \subseteq Lines /\ \A i \in DOMAIN s : s[i] \in Lines
BY DEF LinesIn

\* A command's lines, and bare text, once published.
LEMMA PublishTypes ==
    ASSUME BagTypes, NEW x \in Commands \cup {None}, NEW s \in Seq(Lines), Publish(x, s)
    PROVE  /\ BagTypes'
           /\ DOMAIN published' = DOMAIN published \cup {[cmd |-> x, line |-> l] : l \in LinesIn(s)}
           /\ \A e \in DOMAIN published' :
                 published'[e] = (IF e \in DOMAIN published THEN published[e] ELSE 0)
                   + (IF e \in {[cmd |-> x, line |-> l] : l \in LinesIn(s)} THEN 1 ELSE 0)
<1> DEFINE S == {[cmd |-> x, line |-> l] : l \in LinesIn(s)}
<1>1. S \subseteq Shows
  <2>1. LinesIn(s) \subseteq Lines
    BY LinesAreLines
  <2> QED BY <2>1 DEF Shows
<1>2. published' = published (+) SetToBag(S)
  BY DEF Publish
<1>3. IsABag(published) /\ DOMAIN published \subseteq Shows
  BY DEF BagTypes, BagToSet
<1> HIDE DEF S
<1>4. /\ IsABag(published')
      /\ DOMAIN published' = DOMAIN published \cup S
      /\ \A e \in DOMAIN published \cup S :
            published'[e] = (IF e \in DOMAIN published THEN published[e] ELSE 0)
                             + (IF e \in S THEN 1 ELSE 0)
  BY <1>2, <1>3, BagGrows
<1>5. BagTypes'
  BY <1>1, <1>3, <1>4 DEF BagTypes, BagToSet
<1>6. /\ DOMAIN published' = DOMAIN published \cup S
      /\ \A e \in DOMAIN published' :
            published'[e] = (IF e \in DOMAIN published THEN published[e] ELSE 0)
                             + (IF e \in S THEN 1 ELSE 0)
  BY <1>4
<1> QED BY <1>5, <1>6 DEF S

\* The message fanOut reads, and what is left to read.
LEMMA ReadsTypes ==
    ASSUME fromLily \in Seq(Messages), NEW m, Reads(m)
    PROVE  fromLily' \in Seq(Messages) /\ m \in Messages /\ 1 \in DOMAIN fromLily /\ fromLily[1] = m
<1>1. fromLily # <<>> /\ Head(fromLily) = m /\ fromLily' = Tail(fromLily)
  BY DEF Reads
<1>2. Tail(fromLily) \in Seq(Messages) /\ Head(fromLily) = fromLily[1] /\ Head(fromLily) \in Messages /\ 1 \in DOMAIN fromLily
  BY <1>1, TailAt
<1> QED BY <1>1, <1>2

LEMMA InitTypes == Init => TypeOK
<1> SUFFICES ASSUME Init PROVE TypeOK
  OBVIOUS
<1> USE RoutingAssumption DEF RoutingAssumption, Init
<1>1. ServerTypes
  BY DEF ServerTypes, Progress
<1>2. CaptureTypes
  BY DEF CaptureTypes
<1>3. PendingTypes
  BY DEF PendingTypes
<1>4. CallTypes
  BY DEF CallTypes, Points
<1>5. ChanTypes
  <2>1. <<>> \in Seq(Seq(Lines)) /\ Len(<<>>) = 0
    OBVIOUS
  <2>2. chan \in [Fetches -> Seq(Seq(Lines))]
    BY <2>1
  <2>3. \A f \in Fetches : Len(chan[f]) <= 1
    BY <2>1
  <2> QED BY <2>2, <2>3 DEF ChanTypes
<1>6. BagTypes
  BY DEF BagTypes, IsABag, BagToSet, EmptyBag, SetToBag
<1> QED BY <1>1, <1>2, <1>3, <1>4, <1>5, <1>6, TypeParts

\* The steps of fetchLines keep the types, ...
LEMMA CallsKeepTypes ==
    ASSUME TypeOK, NEW f \in Fetches, FetchLines(f)
    PROVE  TypeOK'
<1> USE RoutingAssumption DEF RoutingAssumption
<1> USE DEF vars, server, captures, pending, calls
<1>0. ServerTypes /\ CaptureTypes /\ PendingTypes /\ CallTypes /\ ChanTypes /\ BagTypes
  BY TypeParts
<1>1. ServerTypes'
  <2>1. UNCHANGED <<produced, fromLily>> /\ (lily' = lily \/ lily' = [lily EXCEPT ![f] = "sent"])
    BY DEF FetchLines, Register, Send, SendFails, Receive, Timeout, Unregister
  <2> QED BY <1>0, <2>1 DEF ServerTypes, Progress, Commands
<1>2. CaptureTypes' /\ BagTypes'
  <2>1. UNCHANGED <<open, buf, published>>
    BY DEF FetchLines, Register, Send, SendFails, Receive, Timeout, Unregister
  <2> QED BY <1>0, <2>1 DEF CaptureTypes, BagTypes
<1>3. PendingTypes'
  <2>1. \/ UNCHANGED pending
        \/ fetchResultCh' = f /\ fetchCmdID' = None
        \/ fetchResultCh' = None /\ UNCHANGED fetchCmdID
    BY DEF FetchLines, Register, Send, SendFails, Receive, Timeout, Unregister
  <2> QED BY <1>0, <2>1 DEF PendingTypes
<1>4. ChanTypes'
  <2>1. UNCHANGED chan
    BY DEF FetchLines, Register, Send, SendFails, Receive, Timeout, Unregister
  <2> QED BY <1>0, <2>1 DEF ChanTypes
<1>5. pc' \in [Fetches -> Points]
  <2>1. \E p \in Points : pc' = [pc EXCEPT ![f] = p]
    BY DEF FetchLines, Register, Send, SendFails, Receive, Timeout, Unregister, Points
  <2> QED BY <1>0, <2>1 DEF CallTypes
<1>6. result' \in [Fetches -> Seq(Lines)]
  <2>1. UNCHANGED result \/ (chan[f] # <<>> /\ result' = [result EXCEPT ![f] = Head(chan[f])])
    BY DEF FetchLines, Register, Send, SendFails, Receive, Timeout, Unregister
  <2>2. chan[f] # <<>> => Head(chan[f]) \in Seq(Lines)
    BY <1>0 DEF ChanTypes
  <2> QED BY <1>0, <2>1, <2>2 DEF CallTypes
<1>7. CallTypes'
  BY <1>5, <1>6 DEF CallTypes
<1>8. (ServerTypes /\ CaptureTypes /\ PendingTypes /\ CallTypes /\ ChanTypes /\ BagTypes)' => TypeOK'
  BY TypeParts, PTL
<1> QED BY <1>1, <1>2, <1>3, <1>4, <1>7, <1>8

\* ... so do Lily's and the typists', ...
LEMMA LilyKeepsTypes ==
    ASSUME TypeOK, NEW x \in Commands, Type(x) \/ Lily(x)
    PROVE  TypeOK'
<1> USE DEF vars, server, captures, pending, calls
<1>0. ServerTypes /\ CaptureTypes /\ PendingTypes /\ CallTypes /\ ChanTypes /\ BagTypes
  BY TypeParts
<1>1. UNCHANGED <<captures, pending, calls, published>>
  BY DEF Type, Lily, LilyBegins, LilyPrints, LilyEnds, LilySends
<1>2. CaptureTypes' /\ PendingTypes' /\ CallTypes' /\ ChanTypes' /\ BagTypes'
  BY <1>0, <1>1 DEF CaptureTypes, PendingTypes, CallTypes, ChanTypes, BagTypes
<1>3. lily' \in [Commands -> Progress]
  <2>1. \E p \in Progress : lily' = [lily EXCEPT ![x] = p]
    BY DEF Type, Lily, LilyBegins, LilyPrints, LilyEnds, LilySends, Progress
  <2> QED BY <1>0, <2>1 DEF ServerTypes
<1>4. produced' \in [Commands -> 0..MaxLines]
  <2>1. \/ UNCHANGED produced
        \/ produced[x] < MaxLines /\ produced' = [produced EXCEPT ![x] = @ + 1]
    BY DEF Type, Lily, LilyBegins, LilyPrints, LilyEnds
  <2> QED BY <1>0, <2>1, RoutingAssumption DEF ServerTypes, RoutingAssumption
<1>5. fromLily' \in Seq(Messages)
  <2>1. CASE Type(x) BY <1>0, <2>1 DEF Type, ServerTypes
  <2>2. CASE LilyBegins(x)
    <3>1. [type |-> "begin", cmd |-> x] \in Messages
      BY DEF Messages
    <3> QED BY <1>0, <2>2, <3>1 DEF LilyBegins, LilySends, ServerTypes
  <2>3. CASE LilyEnds(x)
    <3>1. [type |-> "end", cmd |-> x] \in Messages
      BY DEF Messages
    <3> QED BY <1>0, <2>3, <3>1 DEF LilyEnds, LilySends, ServerTypes
  <2>4. CASE LilyPrints(x)
    <3>1. PICK tagged \in BOOLEAN :
             fromLily' = Append(fromLily, [type |-> "raw",
                line |-> [of |-> x, n |-> produced[x] + 1, tagged |-> tagged]])
      BY <2>4 DEF LilyPrints, LilySends
    <3>2. produced[x] + 1 \in 1..MaxLines
      BY <1>0, <2>4, RoutingAssumption DEF LilyPrints, ServerTypes, RoutingAssumption
    <3>3. [of |-> x, n |-> produced[x] + 1, tagged |-> tagged] \in Lines
      BY <3>2 DEF Lines
    <3>4. [type |-> "raw", line |-> [of |-> x, n |-> produced[x] + 1, tagged |-> tagged]] \in Messages
      BY <3>3 DEF Messages
    <3> QED BY <1>0, <3>1, <3>4 DEF ServerTypes
  <2> QED BY <2>1, <2>2, <2>3, <2>4 DEF Lily
<1>6. (ServerTypes /\ CaptureTypes /\ PendingTypes /\ CallTypes /\ ChanTypes /\ BagTypes)' => TypeOK'
  BY TypeParts, PTL
<1> QED BY <1>2, <1>3, <1>4, <1>5, <1>6 DEF ServerTypes

\* What is left of the captures once x's is closed.
LEMMA ClosedTypes ==
    ASSUME CaptureTypes, NEW x \in open, CaptureClosed(x)
    PROVE  CaptureTypes' /\ x \in Commands /\ buf[x] \in Seq(Lines)
BY DEF CaptureTypes, CaptureClosed

\* ... and fanOut's, message by message.
LEMMA BeginKeepsTypes ==
    ASSUME TypeOK, NEW x \in Commands, CmdBegin(x)
    PROVE  TypeOK'
<1> USE DEF vars, server, captures, pending, calls
<1>0. ServerTypes /\ CaptureTypes /\ PendingTypes /\ CallTypes /\ ChanTypes /\ BagTypes
  BY TypeParts
<1>1. ServerTypes'
  <2>1. fromLily' \in Seq(Messages)
    BY <1>0, ReadsTypes DEF CmdBegin, ServerTypes
  <2> QED BY <1>0, <2>1 DEF CmdBegin, ServerTypes
<1>2. CaptureTypes'
  <2>1. open' = open \cup {x} /\ buf' = [buf EXCEPT ![x] = <<>>]
    BY DEF CmdBegin
  <2> QED BY <1>0, <2>1 DEF CaptureTypes
<1>3. PendingTypes'
  <2>1. UNCHANGED fetchResultCh /\ fetchCmdID' \in {x, fetchCmdID}
    BY DEF CmdBegin
  <2> QED BY <1>0, <2>1 DEF PendingTypes
<1>4. CallTypes' /\ ChanTypes' /\ BagTypes'
  BY <1>0 DEF CmdBegin, CallTypes, ChanTypes, BagTypes
<1>5. (ServerTypes /\ CaptureTypes /\ PendingTypes /\ CallTypes /\ ChanTypes /\ BagTypes)' => TypeOK'
  BY TypeParts, PTL
<1> QED BY <1>1, <1>2, <1>3, <1>4, <1>5

LEMMA EndKeepsTypes ==
    ASSUME TypeOK, NEW x \in Commands, CmdEnd(x)
    PROVE  TypeOK'
<1> USE DEF vars, server, captures, pending, calls
<1>0. ServerTypes /\ CaptureTypes /\ PendingTypes /\ CallTypes /\ ChanTypes /\ BagTypes
  BY TypeParts
<1>1. ServerTypes' /\ CallTypes'
  <2>1. fromLily' \in Seq(Messages)
    BY <1>0, ReadsTypes DEF CmdEnd, ServerTypes
  <2> QED BY <1>0, <2>1 DEF CmdEnd, ServerTypes, CallTypes
<1>2. CaptureTypes'
  <2>1. (x \in open /\ CaptureClosed(x)) \/ UNCHANGED captures
    BY DEF CmdEnd
  <2> QED BY <1>0, <2>1, ClosedTypes DEF CaptureTypes
<1>3. PendingTypes'
  <2>1. UNCHANGED pending \/ (fetchResultCh' = None /\ fetchCmdID' = None)
    BY DEF CmdEnd
  <2> QED BY <1>0, <2>1 DEF PendingTypes
<1>4. ChanTypes'
  <2>1. CASE x \in open /\ fetchResultCh # None /\ DeliverToFetch(x)
    <3>1. fetchResultCh \in Fetches /\ <<buf[x]>> \in Seq(Seq(Lines)) /\ Len(<<buf[x]>>) = 1
      BY <1>0, <2>1 DEF PendingTypes, CaptureTypes
    <3>2. chan' = [chan EXCEPT ![fetchResultCh] =
                      IF chan[fetchResultCh] = <<>> THEN <<buf[x]>> ELSE chan[fetchResultCh]]
      BY <2>1 DEF DeliverToFetch
    <3>3. chan' \in [Fetches -> Seq(Seq(Lines))]
      BY <1>0, <3>1, <3>2 DEF ChanTypes
    <3>4. \A f \in Fetches : chan'[f] = chan[f] \/ chan'[f] = <<buf[x]>>
      BY <1>0, <3>1, <3>2 DEF ChanTypes
    <3>5. \A f \in Fetches : Len(chan'[f]) <= 1
      <4>1. \A f \in Fetches : Len(chan[f]) <= 1
        BY <1>0 DEF ChanTypes
      <4>2. Len(<<buf[x]>>) <= 1
        BY <3>1
      <4> QED BY <3>4, <4>1, <4>2
    <3> QED BY <3>3, <3>5 DEF ChanTypes
  <2>2. CASE UNCHANGED chan BY <1>0, <2>2 DEF ChanTypes
  <2> QED BY <2>1, <2>2 DEF CmdEnd
<1>5. BagTypes'
  <2>1. CASE x \in open /\ Publish(x, buf[x])
    <3>1. x \in Commands \cup {None} /\ buf[x] \in Seq(Lines)
      BY <1>0, <2>1 DEF CaptureTypes
    <3> QED BY <1>0, <2>1, <3>1, PublishTypes
  <2>2. CASE UNCHANGED published BY <1>0, <2>2 DEF BagTypes
  <2> QED BY <2>1, <2>2 DEF CmdEnd, DeliverToFetch
<1>6. (ServerTypes /\ CaptureTypes /\ PendingTypes /\ CallTypes /\ ChanTypes /\ BagTypes)' => TypeOK'
  BY TypeParts, PTL
<1> QED BY <1>1, <1>2, <1>3, <1>4, <1>5, <1>6

LEMMA RawKeepsTypes ==
    ASSUME TypeOK, NEW l \in Lines, Raw(l)
    PROVE  TypeOK'
<1> USE DEF vars, server, captures, pending, calls
<1>0. ServerTypes /\ CaptureTypes /\ PendingTypes /\ CallTypes /\ ChanTypes /\ BagTypes
  BY TypeParts
<1>1. ServerTypes' /\ CallTypes' /\ PendingTypes' /\ ChanTypes'
  <2>1. fromLily' \in Seq(Messages)
    BY <1>0, ReadsTypes DEF Raw, ServerTypes
  <2> QED BY <1>0, <2>1 DEF Raw, ServerTypes, CallTypes, PendingTypes, ChanTypes
<1>2. CaptureTypes'
  <2>1. CapturesOf(l) \subseteq open
    BY DEF CapturesOf
  <2>2. /\ UNCHANGED open
        /\ buf' = [x \in Commands |-> IF x \in CapturesOf(l) THEN Append(buf[x], l) ELSE buf[x]]
    BY DEF Raw
  <2> HIDE DEF CapturesOf
  <2>3. buf' \in [Commands -> Seq(Lines)]
    <3>1. \A x \in Commands : buf[x] \in Seq(Lines) /\ Append(buf[x], l) \in Seq(Lines)
      BY <1>0 DEF CaptureTypes
    <3> QED BY <2>2, <3>1
  <2>4. \A x \in Commands \ open : buf'[x] = <<>>
    BY <1>0, <2>1, <2>2 DEF CaptureTypes
  <2> QED BY <1>0, <2>2, <2>3, <2>4 DEF CaptureTypes
<1>3. BagTypes'
  <2>1. CASE Publish(None, <<l>>)
    <3>1. None \in Commands \cup {None} /\ <<l>> \in Seq(Lines)
      OBVIOUS
    <3> QED BY <1>0, <2>1, <3>1, PublishTypes
  <2>2. CASE UNCHANGED published BY <1>0, <2>2 DEF BagTypes
  <2> QED BY <2>1, <2>2 DEF Raw
<1>4. (ServerTypes /\ CaptureTypes /\ PendingTypes /\ CallTypes /\ ChanTypes /\ BagTypes)' => TypeOK'
  BY TypeParts, PTL
<1> QED BY <1>1, <1>2, <1>3, <1>4

LEMMA FlushKeepsTypes ==
    ASSUME TypeOK, NEW x \in Commands, FlushStale(x)
    PROVE  TypeOK'
<1> USE DEF vars, server, captures, pending, calls
<1>0. ServerTypes /\ CaptureTypes /\ PendingTypes /\ CallTypes /\ ChanTypes /\ BagTypes
  BY TypeParts
<1>1. ServerTypes' /\ CallTypes' /\ PendingTypes' /\ ChanTypes'
  BY <1>0 DEF FlushStale, ServerTypes, CallTypes, PendingTypes, ChanTypes
<1>2. x \in open /\ CaptureClosed(x) /\ Publish(x, buf[x])
  BY DEF FlushStale
<1>3. CaptureTypes' /\ buf[x] \in Seq(Lines)
  BY <1>0, <1>2, ClosedTypes
<1>4. BagTypes'
  <2>1. x \in Commands \cup {None}
    OBVIOUS
  <2> QED BY <1>0, <1>2, <1>3, <2>1, PublishTypes
<1>5. (ServerTypes /\ CaptureTypes /\ PendingTypes /\ CallTypes /\ ChanTypes /\ BagTypes)' => TypeOK'
  BY TypeParts, PTL
<1> QED BY <1>1, <1>3, <1>4, <1>5

LEMMA StutterKeepsTypes ==
    ASSUME TypeOK, UNCHANGED vars
    PROVE  TypeOK'
BY DEF TypeOK, vars, server, captures, pending, calls

LEMMA StepsKeepTypes == TypeOK /\ [Next]_vars => TypeOK'
<1>1. ASSUME TypeOK, NEW x \in Typed, Type(x) PROVE TypeOK'
  BY <1>1, LilyKeepsTypes DEF Commands
<1> QED BY <1>1, CallsKeepTypes, LilyKeepsTypes, BeginKeepsTypes, EndKeepsTypes, RawKeepsTypes,
           FlushKeepsTypes, StutterKeepsTypes DEF Next, FanOut

\* The variables keep their types for any fetches, commands and bounds: a fetch's
\* channel holds one result at most, and a command whose capture is closed has
\* nothing collected.  (server.go fanOut, fetchLines)
THEOREM RoutingTypeCorrect == Spec => []TypeOK
BY InitTypes, StepsKeepTypes, PTL DEF Spec

-----------------------------------------------------------------------------
\* What each step of Lily and of fanOut does to the messages between them.
LEMMA Unread ==
    ASSUME TypeOK, NEW m, Reads(m)
    PROVE  /\ m \in Messages /\ 1 \in DOMAIN fromLily /\ fromLily[1] = m
           /\ \A i \in DOMAIN fromLily' :
                 i \in Nat \ {0} /\ i + 1 \in DOMAIN fromLily /\ fromLily'[i] = fromLily[i + 1]
           /\ \A i \in DOMAIN fromLily :
                 i = 1 \/ (i \in Nat /\ i > 1 /\ i - 1 \in DOMAIN fromLily' /\ fromLily'[i - 1] = fromLily[i])
<1>1. fromLily \in Seq(Messages)
  BY DEF TypeOK
<1>2. fromLily # <<>> /\ Head(fromLily) = m /\ fromLily' = Tail(fromLily)
  BY DEF Reads
<1> QED BY <1>1, <1>2, TailAt

LEMMA Sent ==
    ASSUME fromLily \in Seq(Messages), NEW m \in Messages, fromLily' = Append(fromLily, m)
    PROVE  /\ Len(fromLily) + 1 \in DOMAIN fromLily' /\ fromLily'[Len(fromLily) + 1] = m
           /\ \A i \in DOMAIN fromLily :
                 i # Len(fromLily) + 1 /\ i \in DOMAIN fromLily' /\ fromLily'[i] = fromLily[i]
           /\ \A i \in DOMAIN fromLily' :
                 \/ i = Len(fromLily) + 1
                 \/ i \in DOMAIN fromLily /\ fromLily'[i] = fromLily[i]
<1>1. /\ Append(fromLily, m) \in Seq(Messages)
      /\ Len(fromLily) \in Nat /\ Len(fromLily) + 1 \in DOMAIN Append(fromLily, m)
      /\ Append(fromLily, m)[Len(fromLily) + 1] = m
      /\ \A i \in DOMAIN fromLily :
            /\ i \in Nat /\ i < Len(fromLily) + 1
            /\ i \in DOMAIN Append(fromLily, m) /\ Append(fromLily, m)[i] = fromLily[i]
      /\ \A i \in DOMAIN Append(fromLily, m) :
            \/ i = Len(fromLily) + 1
            \/ i \in DOMAIN fromLily /\ Append(fromLily, m)[i] = fromLily[i]
  BY AppendAt
<1>2. \A i \in DOMAIN fromLily : i # Len(fromLily) + 1
  BY <1>1
<1> QED BY <1>1, <1>2

LEMMA BeginsOnce ==
    ASSUME NEW m \in Messages, m.type = "begin" PROVE m.cmd \in Commands
BY DEF Messages

\* The result of a delivery is in the channel of a fetch that is not idle.
LEMMA CallsDelivered ==
    ASSUME TypeOK, CallInv, NEW x \in Commands, CmdEnd(x), UNCHANGED chan => FALSE
    PROVE  /\ fetchResultCh \in Fetches /\ pc[fetchResultCh] # "idle"
           /\ chan[fetchResultCh] = <<>>
           /\ x \in open /\ fetchCmdID = x
           /\ chan' = [chan EXCEPT ![fetchResultCh] = <<buf[x]>>]
           /\ fetchResultCh' = None
           /\ UNCHANGED published
<1>1. /\ x \in open /\ fetchResultCh # None /\ fetchCmdID = x /\ fetchResultCh' = None
      /\ UNCHANGED published
      /\ chan' = [chan EXCEPT ![fetchResultCh] = IF @ = <<>> THEN <<buf[x]>> ELSE @]
  BY DEF CmdEnd, DeliverToFetch
<1>2. fetchResultCh \in Fetches
  BY <1>1 DEF TypeOK
<1>3. pc[fetchResultCh] # "idle" /\ chan[fetchResultCh] = <<>>
  BY <1>2 DEF CallInv
<1> QED BY <1>1, <1>2, <1>3

LEMMA InitCall == Init => CallInv
BY RoutingAssumption DEF Init, CallInv, Commands, RoutingAssumption

LEMMA StepsKeepCall ==
    ASSUME TypeOK, CallInv, [Next]_vars
    PROVE  CallInv'
<1> USE RoutingAssumption DEF RoutingAssumption
<1> USE DEF vars, server, captures, pending, calls
<1>0. /\ lily \in [Commands -> Progress] /\ pc \in [Fetches -> Points]
      /\ fetchResultCh \in Fetches \cup {None} /\ chan \in [Fetches -> Seq(Seq(Lines))]
      /\ result \in [Fetches -> Seq(Lines)]
      /\ Fetches \subseteq Commands /\ Typed \subseteq Commands
  BY DEF TypeOK, Progress, Points, Commands
<1>1. ASSUME NEW f \in Fetches, FetchLines(f) PROVE CallInv'
  <2>1. CASE Register(f) \/ Send(f) \/ SendFails(f)
    BY <1>0, <2>1 DEF CallInv, Register, Send, SendFails
  <2>2. CASE Receive(f)
    BY <1>0, <2>2 DEF CallInv, Receive
  <2>3. CASE Timeout(f) \/ Unregister(f)
    BY <1>0, <2>3 DEF CallInv, Timeout, Unregister
  <2> QED BY <1>1, <2>1, <2>2, <2>3 DEF FetchLines
<1>2. ASSUME NEW x \in Commands, (x \in Typed /\ Type(x)) \/ Lily(x) PROVE CallInv'
  <2>1. UNCHANGED <<pending, calls>> /\ (lily[x] = "unsent" => x \in Typed)
    BY <1>2 DEF Type, Lily, LilyBegins, LilyPrints, LilyEnds, LilySends
  <2>2. \E p \in Progress : lily' = [lily EXCEPT ![x] = p]
    BY <1>2 DEF Type, Lily, LilyBegins, LilyPrints, LilyEnds, LilySends, Progress
  <2>3. \A f \in Fetches : lily[f] = "unsent" => lily'[f] = "unsent"
    BY <1>0, <2>1, <2>2
  <2> QED BY <2>1, <2>3 DEF CallInv
<1>3. ASSUME NEW x \in Commands, CmdBegin(x) \/ FlushStale(x) PROVE CallInv'
  BY <1>3 DEF CallInv, CmdBegin, FlushStale
<1>4. ASSUME NEW x \in Commands, CmdEnd(x) PROVE CallInv'
  <2>1. UNCHANGED <<lily, pc, result>> /\ fetchResultCh' \in {fetchResultCh, None}
    BY <1>4 DEF CmdEnd
  <2>2. CASE UNCHANGED chan
    BY <1>0, <2>1, <2>2 DEF CallInv
  <2>3. CASE UNCHANGED chan => FALSE
    <3>1. /\ fetchResultCh \in Fetches /\ pc[fetchResultCh] # "idle" /\ fetchResultCh' = None
          /\ chan' = [chan EXCEPT ![fetchResultCh] = <<buf[x]>>]
      BY <1>4, <2>3, CallsDelivered
    <3> QED BY <1>0, <2>1, <3>1 DEF CallInv
  <2> QED BY <2>2, <2>3
<1>5. ASSUME NEW l \in Lines, Raw(l) PROVE CallInv'
  BY <1>5 DEF CallInv, Raw
<1>6. CASE UNCHANGED vars
  BY <1>6 DEF CallInv
<1> QED BY <1>0, <1>1, <1>2, <1>3, <1>4, <1>5, <1>6 DEF Next, FanOut

-----------------------------------------------------------------------------
LEMMA InitBegin == Init => BeginInv
BY FS_EmptySet DEF Init, BeginInv

LEMMA StepsKeepBegin ==
    ASSUME TypeOK, CallInv, BeginInv, [Next]_vars
    PROVE  BeginInv'
<1> USE DEF vars, server, captures, pending, calls
<1>0. /\ lily \in [Commands -> Progress] /\ fromLily \in Seq(Messages) /\ open \subseteq Commands
      /\ \A i \in DOMAIN fromLily : fromLily[i].type = "begin" => fromLily[i].cmd \in Commands
      /\ Fetches \subseteq Commands /\ Typed \subseteq Commands
  <2>1. lily \in [Commands -> Progress] /\ fromLily \in Seq(Messages) /\ open \subseteq Commands
    BY DEF TypeOK, Progress
  <2>2. \A i \in DOMAIN fromLily : fromLily[i] \in Messages
    BY <2>1
  <2>3. \A i \in DOMAIN fromLily : fromLily[i].type = "begin" => fromLily[i].cmd \in Commands
    BY <2>2, BeginsOnce
  <2> QED BY <2>1, <2>3 DEF Commands
\* Nothing is read or sent, and progress is made by what was not begun.
<1>1. ASSUME UNCHANGED fromLily, open' \subseteq open,
             \A x \in Commands : lily[x] \in {"begun", "ended"} => lily'[x] \in {"begun", "ended"}
      PROVE  BeginInv'
  <2>1. IsFiniteSet(open')
    BY <1>1, FS_Subset DEF BeginInv
  <2> QED BY <1>0, <1>1, <2>1 DEF BeginInv
\* A message is read, and its command is not begun (again).
<1>2. ASSUME NEW m, Reads(m), UNCHANGED lily, open' \subseteq open
      PROVE  BeginInv'
  <2>1. \A i \in DOMAIN fromLily' :
           i \in Nat \ {0} /\ i + 1 \in DOMAIN fromLily /\ fromLily'[i] = fromLily[i + 1]
    BY <1>2, Unread
  <2>2. IsFiniteSet(open')
    BY <1>2, FS_Subset DEF BeginInv
  <2>3. \A x \in open' : lily'[x] \in {"begun", "ended"}
    BY <1>2 DEF BeginInv
  <2>4. ASSUME NEW i \in DOMAIN fromLily', fromLily'[i].type = "begin"
        PROVE  /\ fromLily'[i].cmd \notin open'
               /\ lily'[fromLily'[i].cmd] \in {"begun", "ended"}
               /\ \A j \in DOMAIN fromLily' :
                     fromLily'[j].type = "begin" /\ fromLily'[j].cmd = fromLily'[i].cmd => i = j
    BY <1>2, <2>1, <2>4 DEF BeginInv
  <2> QED BY <2>2, <2>3, <2>4 DEF BeginInv
\* A message is sent that begins nothing, or what was not begun.
<1>3. ASSUME NEW m \in Messages, fromLily' = Append(fromLily, m), UNCHANGED open,
             \A x \in Commands : lily[x] \in {"begun", "ended"} => lily'[x] \in {"begun", "ended"},
             m.type = "begin" => /\ m.cmd \in Commands /\ lily[m.cmd] \notin {"begun", "ended"}
                                 /\ lily'[m.cmd] \in {"begun", "ended"}
      PROVE  BeginInv'
  <2>1. /\ fromLily'[Len(fromLily) + 1] = m
        /\ \A i \in DOMAIN fromLily' :
              \/ i = Len(fromLily) + 1
              \/ i \in DOMAIN fromLily /\ fromLily'[i] = fromLily[i]
    BY <1>0, <1>3, Sent
  <2>2. \A x \in open' : lily'[x] \in {"begun", "ended"}
    BY <1>0, <1>3 DEF BeginInv
  <2>3. m.type = "begin" => m.cmd \notin open
    BY <1>3 DEF BeginInv
  <2>4. m.type = "begin" =>
           \A i \in DOMAIN fromLily : fromLily[i].type = "begin" => fromLily[i].cmd # m.cmd
    BY <1>3 DEF BeginInv
  <2>5. ASSUME NEW i \in DOMAIN fromLily', fromLily'[i].type = "begin"
        PROVE  /\ fromLily'[i].cmd \notin open'
               /\ lily'[fromLily'[i].cmd] \in {"begun", "ended"}
               /\ \A j \in DOMAIN fromLily' :
                     fromLily'[j].type = "begin" /\ fromLily'[j].cmd = fromLily'[i].cmd => i = j
    <3>1. CASE i = Len(fromLily) + 1
      BY <1>3, <2>1, <2>3, <2>4, <2>5, <3>1
    <3>2. CASE i \in DOMAIN fromLily /\ fromLily'[i] = fromLily[i]
      BY <1>0, <1>3, <2>1, <2>4, <2>5, <3>2 DEF BeginInv
    <3> QED BY <2>1, <3>1, <3>2
  <2> QED BY <1>3, <2>2, <2>5 DEF BeginInv
<1>4. ASSUME NEW f \in Fetches, FetchLines(f) PROVE BeginInv'
  <2>1. UNCHANGED <<fromLily, open>>
    BY <1>4 DEF FetchLines, Register, Send, SendFails, Receive, Timeout, Unregister
  <2>2. UNCHANGED lily \/ (lily[f] = "unsent" /\ lily' = [lily EXCEPT ![f] = "sent"])
    BY <1>4 DEF FetchLines, Register, Send, SendFails, Receive, Timeout, Unregister, CallInv
  <2>3. \A x \in Commands : lily[x] \in {"begun", "ended"} => lily'[x] \in {"begun", "ended"}
    BY <1>0, <2>2
  <2> QED BY <1>1, <2>1, <2>3
<1>5. ASSUME NEW x \in Typed, Type(x) PROVE BeginInv'
  <2>1. UNCHANGED <<fromLily, open>> /\ lily[x] = "unsent" /\ lily' = [lily EXCEPT ![x] = "sent"]
    BY <1>5 DEF Type
  <2>2. \A y \in Commands : lily[y] \in {"begun", "ended"} => lily'[y] \in {"begun", "ended"}
    BY <1>0, <2>1
  <2> QED BY <1>1, <2>1, <2>2
<1>6. ASSUME NEW x \in Commands, Lily(x) PROVE BeginInv'
  <2>1. PICK m, was, is : LilySends(x, m, was, is) /\
           \/ m = [type |-> "begin", cmd |-> x] /\ was = "sent" /\ is = "begun"
           \/ m = [type |-> "end", cmd |-> x] /\ was = "begun" /\ is = "ended"
           \/ /\ \E tagged \in BOOLEAN : m = [type |-> "raw",
                    line |-> [of |-> x, n |-> produced[x] + 1, tagged |-> tagged]]
              /\ was = "begun" /\ is = "begun"
    BY <1>6 DEF Lily, LilyBegins, LilyPrints, LilyEnds
  <2>2. fromLily' = Append(fromLily, m) /\ UNCHANGED open
    BY <2>1 DEF LilySends
  <2>3. m \in Messages
    <3>1. fromLily' \in Seq(Messages)
      BY <1>6, LilyKeepsTypes DEF TypeOK
    <3>2. Len(fromLily) \in Nat /\ Len(fromLily') = Len(fromLily) + 1 /\ fromLily'[Len(fromLily) + 1] = m
      BY <1>0, <2>2
    <3>3. Len(fromLily) + 1 \in DOMAIN fromLily'
      BY <3>1, <3>2
    <3> QED BY <3>1, <3>2, <3>3
  <2>4. lily[x] = was /\ lily' = [lily EXCEPT ![x] = is] /\ is \in {"begun", "ended"}
    BY <2>1 DEF LilySends
  <2>5. \A y \in Commands : lily[y] \in {"begun", "ended"} => lily'[y] \in {"begun", "ended"}
    BY <1>0, <2>4
  <2>6. m.type = "begin" => m.cmd = x /\ was = "sent"
    BY <2>1
  <2>7. m.type = "begin" => /\ m.cmd \in Commands /\ lily[m.cmd] \notin {"begun", "ended"}
                            /\ lily'[m.cmd] \in {"begun", "ended"}
    BY <1>0, <2>4, <2>6
  <2> QED BY <1>3, <2>2, <2>3, <2>5, <2>7
<1>7. ASSUME NEW x \in Commands, CmdBegin(x) PROVE BeginInv'
  <2>1. Reads([type |-> "begin", cmd |-> x]) /\ UNCHANGED lily /\ open' = open \cup {x}
    BY <1>7 DEF CmdBegin
  <2>2. /\ 1 \in DOMAIN fromLily /\ fromLily[1].type = "begin" /\ fromLily[1].cmd = x
        /\ \A i \in DOMAIN fromLily' :
              i \in Nat \ {0} /\ i + 1 \in DOMAIN fromLily /\ fromLily'[i] = fromLily[i + 1]
    <3>1. 1 \in DOMAIN fromLily /\ fromLily[1] = [type |-> "begin", cmd |-> x]
      BY <2>1, Unread
    <3>2. \A i \in DOMAIN fromLily' :
              i \in Nat \ {0} /\ i + 1 \in DOMAIN fromLily /\ fromLily'[i] = fromLily[i + 1]
      BY <2>1, Unread
    <3> QED BY <3>1, <3>2
  <2>3. IsFiniteSet(open')
    BY <2>1, FS_AddElement DEF BeginInv
  <2>4. \A y \in open' : lily'[y] \in {"begun", "ended"}
    BY <2>1, <2>2 DEF BeginInv
  <2>5. ASSUME NEW i \in DOMAIN fromLily', fromLily'[i].type = "begin"
        PROVE  /\ fromLily'[i].cmd \notin open'
               /\ lily'[fromLily'[i].cmd] \in {"begun", "ended"}
               /\ \A j \in DOMAIN fromLily' :
                     fromLily'[j].type = "begin" /\ fromLily'[j].cmd = fromLily'[i].cmd => i = j
    <3>1. fromLily'[i].cmd # x
      BY <2>2, <2>5 DEF BeginInv
    <3> QED BY <2>1, <2>2, <2>5, <3>1 DEF BeginInv
  <2> QED BY <2>3, <2>4, <2>5 DEF BeginInv
<1>8. ASSUME NEW x \in Commands, CmdEnd(x) PROVE BeginInv'
  <2>1. Reads([type |-> "end", cmd |-> x]) /\ UNCHANGED lily /\ open' \subseteq open
    BY <1>8 DEF CmdEnd, CaptureClosed
  <2> QED BY <1>2, <2>1
<1>9. ASSUME NEW x \in Commands, FlushStale(x) PROVE BeginInv'
  <2>1. UNCHANGED <<lily, fromLily>> /\ open' \subseteq open
    BY <1>9 DEF FlushStale, CaptureClosed
  <2> QED BY <1>1, <2>1
<1>10. ASSUME NEW l \in Lines, Raw(l) PROVE BeginInv'
  <2>1. Reads([type |-> "raw", line |-> l]) /\ UNCHANGED <<lily, open>>
    BY <1>10 DEF Raw
  <2> QED BY <1>2, <2>1
<1>11. CASE UNCHANGED vars
  BY <1>1, <1>11
<1> QED BY <1>4, <1>5, <1>6, <1>7, <1>8, <1>9, <1>10, <1>11 DEF Next, FanOut

-----------------------------------------------------------------------------
LEMMA InitTagged == Init => TaggedLinesStayWithTheirCommand
<1>1. BagToSet(EmptyBag) = {}
  BY DEF BagToSet, EmptyBag, SetToBag
<1> QED BY <1>1 DEF Init, TaggedLinesStayWithTheirCommand

\* A line put in a capture is the only command's begun, or tagged with its own.
LEMMA CapturedLine ==
    ASSUME TypeOK, NEW l \in Lines, Raw(l), NEW x \in Commands
    PROVE  \A k \in LinesIn(buf'[x]) : k \in LinesIn(buf[x]) \/ (k = l /\ x \in CapturesOf(l))
<1>1. buf[x] \in Seq(Lines)
  BY DEF TypeOK
<1>2. buf'[x] = IF x \in CapturesOf(l) THEN Append(buf[x], l) ELSE buf[x]
  BY DEF Raw
<1>3. \A i \in DOMAIN Append(buf[x], l) :
         Append(buf[x], l)[i] = l \/ (i \in DOMAIN buf[x] /\ Append(buf[x], l)[i] = buf[x][i])
  BY <1>1, AppendAt
<1> HIDE DEF CapturesOf
<1> QED BY <1>2, <1>3 DEF LinesIn

LEMMA PublishedStayTagged ==
    ASSUME BagTypes, TaggedLinesStayWithTheirCommand,
           NEW x \in Commands \cup {None}, NEW s \in Seq(Lines), Publish(x, s),
           x = None \/ \A l \in LinesIn(s) : l.tagged => l.of = x
    PROVE  \A e \in BagToSet(published') : e.line.tagged => e.cmd \in {e.line.of, None}
<1>1. DOMAIN published' = DOMAIN published \cup {[cmd |-> x, line |-> l] : l \in LinesIn(s)}
  BY PublishTypes
<1>2. \A e \in DOMAIN published : e.line.tagged => e.cmd \in {e.line.of, None}
  BY DEF TaggedLinesStayWithTheirCommand, BagToSet
<1>3. ASSUME NEW l \in LinesIn(s), NEW e, e = [cmd |-> x, line |-> l]
      PROVE  e.line.tagged => e.cmd \in {e.line.of, None}
  <2>1. e.line = l /\ e.cmd = x
    BY <1>3
  <2> QED BY <2>1
<1> QED BY <1>1, <1>2, <1>3 DEF BagToSet

LEMMA StepsKeepTagged ==
    ASSUME TypeOK, TaggedLinesStayWithTheirCommand, [Next]_vars
    PROVE  TaggedLinesStayWithTheirCommand'
<1> USE DEF vars, server, captures, pending, calls
<1>0. CaptureTypes /\ BagTypes
  BY TypeParts
<1>1. ASSUME UNCHANGED <<open, buf, published>> PROVE TaggedLinesStayWithTheirCommand'
  BY <1>1 DEF TaggedLinesStayWithTheirCommand
\* A capture is closed, and published or not.
<1>2. ASSUME NEW x \in open, CaptureClosed(x), Publish(x, buf[x]) \/ UNCHANGED published
      PROVE  TaggedLinesStayWithTheirCommand'
  <2>1. x \in Commands \cup {None} /\ buf[x] \in Seq(Lines)
    BY <1>0 DEF CaptureTypes
  <2>2. \A l \in LinesIn(buf[x]) : l.tagged => l.of = x
    BY DEF TaggedLinesStayWithTheirCommand
  <2>3. \A e \in BagToSet(published') : e.line.tagged => e.cmd \in {e.line.of, None}
    <3>1. CASE Publish(x, buf[x])
      BY <1>0, <2>1, <2>2, <3>1, PublishedStayTagged
    <3>2. CASE UNCHANGED published
      BY <3>2 DEF TaggedLinesStayWithTheirCommand
    <3> QED BY <1>2, <3>1, <3>2
  <2>4. \A y \in open' : y \in open /\ buf'[y] = buf[y]
    BY <1>0, <1>2 DEF CaptureClosed, CaptureTypes
  <2> QED BY <2>3, <2>4 DEF TaggedLinesStayWithTheirCommand
<1>3. ASSUME NEW f \in Fetches, FetchLines(f) PROVE TaggedLinesStayWithTheirCommand'
  <2>1. UNCHANGED <<open, buf, published>>
    BY <1>3 DEF FetchLines, Register, Send, SendFails, Receive, Timeout, Unregister
  <2> QED BY <1>1, <2>1
<1>4. ASSUME NEW x \in Commands, Type(x) \/ Lily(x) PROVE TaggedLinesStayWithTheirCommand'
  <2>1. UNCHANGED <<open, buf, published>>
    BY <1>4 DEF Type, Lily, LilyBegins, LilyPrints, LilyEnds, LilySends
  <2> QED BY <1>1, <2>1
<1>5. ASSUME NEW x \in Commands, CmdBegin(x) PROVE TaggedLinesStayWithTheirCommand'
  <2>1. open' = open \cup {x} /\ buf' = [buf EXCEPT ![x] = <<>>] /\ UNCHANGED published
    BY <1>5 DEF CmdBegin
  <2>2. \A y \in open' : LinesIn(buf'[y]) = {} \/ (y \in open /\ buf'[y] = buf[y])
    BY <1>0, <2>1 DEF CaptureTypes, LinesIn
  <2> QED BY <2>1, <2>2 DEF TaggedLinesStayWithTheirCommand
<1>6. ASSUME NEW x \in Commands, CmdEnd(x) PROVE TaggedLinesStayWithTheirCommand'
  <2>1. \/ UNCHANGED <<open, buf, published>>
        \/ /\ x \in open /\ CaptureClosed(x)
           /\ Publish(x, buf[x]) \/ UNCHANGED published
    BY <1>6 DEF CmdEnd, DeliverToFetch
  <2> QED BY <1>1, <1>2, <2>1
<1>7. ASSUME NEW x \in Commands, FlushStale(x) PROVE TaggedLinesStayWithTheirCommand'
  BY <1>2, <1>7 DEF FlushStale
<1>8. ASSUME NEW l \in Lines, Raw(l) PROVE TaggedLinesStayWithTheirCommand'
  <2>1. UNCHANGED open /\ (l.tagged => CapturesOf(l) \subseteq {l.of})
    BY <1>8 DEF Raw, CapturesOf
  <2>2. ASSUME NEW x \in open', NEW k \in LinesIn(buf'[x]), k.tagged PROVE k.of = x
    <3>1. x \in Commands /\ x \in open
      BY <1>0, <2>1 DEF CaptureTypes
    <3>2. k \in LinesIn(buf[x]) \/ (k = l /\ x \in CapturesOf(l))
      BY <1>8, <3>1, CapturedLine
    <3> HIDE DEF CapturesOf
    <3> QED BY <2>1, <2>2, <3>1, <3>2 DEF TaggedLinesStayWithTheirCommand
  <2>3. \A e \in BagToSet(published') : e.line.tagged => e.cmd \in {e.line.of, None}
    <3>1. CASE Publish(None, <<l>>)
      <4>1. None \in Commands \cup {None} /\ <<l>> \in Seq(Lines)
        OBVIOUS
      <4> QED BY <1>0, <3>1, <4>1, PublishedStayTagged
    <3>2. CASE UNCHANGED published
      BY <3>2 DEF TaggedLinesStayWithTheirCommand
    <3> QED BY <1>8, <3>1, <3>2 DEF Raw
  <2> QED BY <2>2, <2>3 DEF TaggedLinesStayWithTheirCommand
<1>9. CASE UNCHANGED vars
  BY <1>1, <1>9
<1>10. Typed \subseteq Commands
  BY DEF Commands
<1> QED BY <1>3, <1>4, <1>5, <1>6, <1>7, <1>8, <1>9, <1>10 DEF Next, FanOut

-----------------------------------------------------------------------------
LEMMA InitOwn == Init => OwnInv
BY DEF Init, OwnInv, FetchReturnsItsOwnOutput, LinesIn

LEMMA StepsKeepOwn ==
    ASSUME VerbsDiffer, TypeOK, CallInv, TaggedLinesStayWithTheirCommand, OwnInv, [Next]_vars
    PROVE  OwnInv'
<1> USE RoutingAssumption DEF RoutingAssumption
<1> USE DEF vars, server, captures, pending, calls
<1>0. /\ fetchResultCh \in Fetches \cup {None} /\ fetchCmdID \in Commands \cup {None}
      /\ chan \in [Fetches -> Seq(Seq(Lines))] /\ result \in [Fetches -> Seq(Lines)]
      /\ Fetches \subseteq Commands /\ Typed \subseteq Commands
  BY DEF TypeOK, Commands
<1> DEFINE Pinned == fetchResultCh # None /\ fetchCmdID # None => fetchCmdID = fetchResultCh
           Given == \A f \in Fetches :
                       chan[f] # <<>> => \A l \in LinesIn(chan[f][1]) : l.tagged => l.of = f
           Returned == \A f \in Fetches : \A l \in LinesIn(result[f]) : l.tagged => l.of = f
<1>1. OwnInv <=> Pinned /\ Given /\ Returned
  BY DEF OwnInv, FetchReturnsItsOwnOutput
<1>2. Pinned' /\ Given' /\ Returned' => OwnInv'
  BY DEF OwnInv, FetchReturnsItsOwnOutput
<1>3. ASSUME UNCHANGED <<pending, chan, result>> PROVE OwnInv'
  BY <1>1, <1>2, <1>3
<1>4. ASSUME NEW f \in Fetches, FetchLines(f) PROVE OwnInv'
  <2>1. UNCHANGED chan
    BY <1>4 DEF FetchLines, Register, Send, SendFails, Receive, Timeout, Unregister
  <2>2. \/ UNCHANGED pending \/ fetchCmdID' = None \/ fetchResultCh' = None
    BY <1>4 DEF FetchLines, Register, Send, SendFails, Receive, Timeout, Unregister
  <2>3. \/ UNCHANGED result
        \/ chan[f] # <<>> /\ result' = [result EXCEPT ![f] = Head(chan[f])]
    BY <1>4 DEF FetchLines, Register, Send, SendFails, Receive, Timeout, Unregister
  <2>4. Pinned'
    BY <1>1, <2>2
  <2>5. Given'
    BY <1>1, <2>1
  <2>6. Returned'
    <3>1. CASE UNCHANGED result
      BY <1>1, <3>1
    <3>2. CASE chan[f] # <<>> /\ result' = [result EXCEPT ![f] = Head(chan[f])]
      <4>1. Head(chan[f]) = chan[f][1]
        BY <1>0, <3>2
      <4>2. \A g \in Fetches : result'[g] = result[g] \/ (g = f /\ result'[g] = chan[f][1])
        BY <1>0, <3>2, <4>1
      <4> QED BY <1>1, <3>2, <4>2
    <3> QED BY <2>3, <3>1, <3>2
  <2> QED BY <1>2, <2>4, <2>5, <2>6
<1>5. ASSUME NEW x \in Commands, Type(x) \/ Lily(x) PROVE OwnInv'
  <2>1. UNCHANGED <<pending, chan, result>>
    BY <1>5 DEF Type, Lily, LilyBegins, LilyPrints, LilyEnds, LilySends
  <2> QED BY <1>3, <2>1
<1>6. ASSUME NEW x \in Commands, CmdBegin(x) PROVE OwnInv'
  <2>1. UNCHANGED <<fetchResultCh, chan, result>>
        /\ fetchCmdID' = IF Pins(x) THEN x ELSE fetchCmdID
    BY <1>6 DEF CmdBegin
  <2>2. Pins(x) => x = fetchResultCh
    BY <1>0 DEF Pins, VerbsDiffer
  <2> HIDE DEF Pins
  <2>3. Pinned'
    BY <1>1, <2>1, <2>2
  <2>4. Given' /\ Returned'
    BY <1>1, <2>1
  <2> QED BY <1>2, <2>3, <2>4
<1>7. ASSUME NEW x \in Commands, CmdEnd(x) PROVE OwnInv'
  <2>1. CASE UNCHANGED chan
    <3>1. (UNCHANGED pending \/ fetchResultCh' = None) /\ UNCHANGED result
      BY <1>7 DEF CmdEnd
    <3>2. Pinned'
      BY <1>1, <3>1
    <3>3. Given' /\ Returned'
      BY <1>1, <2>1, <3>1
    <3> QED BY <1>2, <3>2, <3>3
  <2>2. CASE UNCHANGED chan => FALSE
    <3>1. /\ fetchResultCh \in Fetches /\ x \in open /\ fetchCmdID = x
          /\ chan' = [chan EXCEPT ![fetchResultCh] = <<buf[x]>>]
          /\ fetchResultCh' = None
      BY <1>7, <2>2, CallsDelivered
    <3>2. x = fetchResultCh
      BY <1>0, <1>1, <3>1
    <3>3. \A l \in LinesIn(buf[x]) : l.tagged => l.of = x
      BY <3>1 DEF TaggedLinesStayWithTheirCommand
    <3>4. \A f \in Fetches :
             chan'[f] = chan[f] \/ (f = x /\ chan'[f] = <<buf[x]>> /\ chan'[f][1] = buf[x])
      BY <1>0, <3>1, <3>2
    <3>5. Given'
      BY <1>1, <3>3, <3>4
    <3>6. Pinned' /\ Returned'
      BY <1>1, <1>7, <3>1 DEF CmdEnd
    <3> QED BY <1>2, <3>5, <3>6
  <2> QED BY <2>1, <2>2
<1>8. ASSUME NEW x \in Commands, FlushStale(x) PROVE OwnInv'
  <2>1. UNCHANGED <<pending, chan, result>>
    BY <1>8 DEF FlushStale
  <2> QED BY <1>3, <2>1
<1>9. ASSUME NEW l \in Lines, Raw(l) PROVE OwnInv'
  <2>1. UNCHANGED <<pending, chan, result>>
    BY <1>9 DEF Raw
  <2> QED BY <1>3, <2>1
<1>10. CASE UNCHANGED vars
  BY <1>3, <1>10
<1> QED BY <1>0, <1>4, <1>5, <1>6, <1>7, <1>8, <1>9, <1>10 DEF Next, FanOut

-----------------------------------------------------------------------------
\* What a step does to a line, one kind of place at a time.  Has: the line is
\* among those of s; HasOnce: it is, and once.
IsLine(l, x, n) == l.of = x /\ l.n = n
Has(s, x, n) == \E i \in DOMAIN s : IsLine(s[i], x, n)
HasOnce(s, x, n) == \E i \in DOMAIN s : \A j \in DOMAIN s : IsLine(s[j], x, n) <=> j = i

\* fanOut reads another message, or the line itself; ...
LEMMA UnreadStays ==
    ASSUME TypeOK, NEW x, NEW n, NEW m, Reads(m), ~(m.type = "raw" /\ IsLine(m.line, x, n))
    PROVE  /\ NoneUnread(x, n) => NoneUnread(x, n)'
           /\ OneUnread(x, n) => OneUnread(x, n)'
<1>1. /\ 1 \in DOMAIN fromLily /\ fromLily[1] = m
      /\ \A i \in DOMAIN fromLily' :
            i \in Nat \ {0} /\ i + 1 \in DOMAIN fromLily /\ fromLily'[i] = fromLily[i + 1]
      /\ \A i \in DOMAIN fromLily :
            i = 1 \/ (i \in Nat /\ i > 1 /\ i - 1 \in DOMAIN fromLily' /\ fromLily'[i - 1] = fromLily[i])
  BY Unread
<1>2. ~UnreadAt(x, n, 1)
  BY <1>1 DEF UnreadAt, IsLine
<1>3. \A i : UnreadAt(x, n, i)' => i \in Nat \ {0} /\ UnreadAt(x, n, i + 1)
  BY <1>1 DEF UnreadAt
<1>4. \A i : UnreadAt(x, n, i) => i \in Nat /\ i > 1 /\ UnreadAt(x, n, i - 1)'
  BY <1>1, <1>2 DEF UnreadAt
<1>5. NoneUnread(x, n) => NoneUnread(x, n)'
  BY <1>3 DEF NoneUnread
<1>6. ASSUME OneUnread(x, n) PROVE OneUnread(x, n)'
  <2>1. PICK i : \A j : UnreadAt(x, n, j) <=> j = i
    BY <1>6 DEF OneUnread
  <2>2. i \in Nat /\ UnreadAt(x, n, i - 1)'
    BY <1>4, <2>1
  <2>3. ASSUME NEW j, UnreadAt(x, n, j)' PROVE j = i - 1
    <3>1. j \in Nat /\ j + 1 = i
      BY <1>3, <2>1, <2>3
    <3> QED BY <3>1
  <2> QED BY <2>2, <2>3 DEF OneUnread
<1> QED BY <1>5, <1>6

LEMMA UnreadGoes ==
    ASSUME TypeOK, NEW x, NEW n, NEW m, Reads(m), m.type = "raw", IsLine(m.line, x, n)
    PROVE  ~NoneUnread(x, n) /\ (OneUnread(x, n) => NoneUnread(x, n)')
<1>1. /\ 1 \in DOMAIN fromLily /\ fromLily[1] = m
      /\ \A i \in DOMAIN fromLily' :
            i \in Nat \ {0} /\ i + 1 \in DOMAIN fromLily /\ fromLily'[i] = fromLily[i + 1]
  BY Unread
<1>2. UnreadAt(x, n, 1)
  BY <1>1 DEF UnreadAt, IsLine
<1>3. \A i : UnreadAt(x, n, i)' => i \in Nat \ {0} /\ UnreadAt(x, n, i + 1)
  BY <1>1 DEF UnreadAt
<1>4. ASSUME OneUnread(x, n), NEW i, UnreadAt(x, n, i)' PROVE FALSE
  <2>1. i \in Nat \ {0} /\ i + 1 = 1
    BY <1>2, <1>3, <1>4 DEF OneUnread
  <2> QED BY <2>1
<1> QED BY <1>2, <1>4 DEF NoneUnread

\* ... Lily sends another message, or prints it.
LEMMA UnreadComes ==
    ASSUME TypeOK, NEW x, NEW n, NEW m \in Messages, fromLily' = Append(fromLily, m)
    PROVE  IF m.type = "raw" /\ IsLine(m.line, x, n)
           THEN NoneUnread(x, n) => OneUnread(x, n)'
           ELSE (NoneUnread(x, n) => NoneUnread(x, n)') /\ (OneUnread(x, n) => OneUnread(x, n)')
<1>1. fromLily \in Seq(Messages)
  BY DEF TypeOK
<1>2. /\ Len(fromLily) + 1 \in DOMAIN fromLily' /\ fromLily'[Len(fromLily) + 1] = m
      /\ \A i \in DOMAIN fromLily :
            i # Len(fromLily) + 1 /\ i \in DOMAIN fromLily' /\ fromLily'[i] = fromLily[i]
      /\ \A i \in DOMAIN fromLily' :
            \/ i = Len(fromLily) + 1
            \/ i \in DOMAIN fromLily /\ fromLily'[i] = fromLily[i]
  BY <1>1, Sent
<1>0. PICK last : last = Len(fromLily) + 1
  OBVIOUS
<1>3. \A i : i # last => (UnreadAt(x, n, i)' <=> UnreadAt(x, n, i))
  BY <1>0, <1>2 DEF UnreadAt
<1>4. ~UnreadAt(x, n, last)
  BY <1>0, <1>2 DEF UnreadAt
<1>5. UnreadAt(x, n, last)' <=> m.type = "raw" /\ IsLine(m.line, x, n)
  BY <1>0, <1>2 DEF UnreadAt, IsLine
<1>6. CASE m.type = "raw" /\ IsLine(m.line, x, n)
  <2>1. ASSUME NoneUnread(x, n) PROVE OneUnread(x, n)'
    <3>1. UnreadAt(x, n, last)' /\ \A i : UnreadAt(x, n, i)' => i = last
      BY <1>3, <1>5, <1>6, <2>1 DEF NoneUnread
    <3> QED BY <3>1 DEF OneUnread
  <2> QED BY <1>6, <2>1
<1>7. CASE ~(m.type = "raw" /\ IsLine(m.line, x, n))
  <2>1. \A i : UnreadAt(x, n, i)' <=> UnreadAt(x, n, i)
    BY <1>3, <1>4, <1>5, <1>7
  <2>2. NoneUnread(x, n) => NoneUnread(x, n)'
    BY <2>1 DEF NoneUnread
  <2>3. ASSUME OneUnread(x, n) PROVE OneUnread(x, n)'
    <3>1. PICK i : \A j : UnreadAt(x, n, j) <=> j = i
      BY <2>3 DEF OneUnread
    <3>2. UnreadAt(x, n, i)' /\ \A j : UnreadAt(x, n, j)' => j = i
      BY <2>1, <3>1
    <3> QED BY <3>2 DEF OneUnread
  <2> QED BY <1>7, <2>2, <2>3
<1> QED BY <1>6, <1>7

\* A capture is closed: the line was in it, or stays where it was.
LEMMA CaptureCloses ==
    ASSUME TypeOK, NEW x, NEW n, NEW y \in open, CaptureClosed(y)
    PROVE  /\ NoneCaptured(x, n) => ~Has(buf[y], x, n) /\ NoneCaptured(x, n)'
           /\ OneCaptured(x, n) =>
                 \/ HasOnce(buf[y], x, n) /\ NoneCaptured(x, n)'
                 \/ ~Has(buf[y], x, n) /\ OneCaptured(x, n)'
<1>1. /\ open' = open \ {y}
      /\ \A z \in open' : z \in open /\ z # y /\ buf'[z] = buf[z]
  <2>1. open \subseteq Commands /\ buf \in [Commands -> Seq(Lines)]
    BY DEF TypeOK
  <2> QED BY <2>1 DEF CaptureClosed
<1>2. \A z, i : CapturedAt(x, n, z, i)' <=> CapturedAt(x, n, z, i) /\ z # y
  BY <1>1 DEF CapturedAt
<1>3. \A i : CapturedAt(x, n, y, i) <=> i \in DOMAIN buf[y] /\ IsLine(buf[y][i], x, n)
  BY DEF CapturedAt, IsLine
<1>4. Has(buf[y], x, n) <=> \E i : CapturedAt(x, n, y, i)
  BY <1>3 DEF Has
<1>5. NoneCaptured(x, n) => ~Has(buf[y], x, n) /\ NoneCaptured(x, n)'
  BY <1>2, <1>4 DEF NoneCaptured
<1>6. ASSUME NEW z, NEW i, \A w, j : CapturedAt(x, n, w, j) <=> w = z /\ j = i
      PROVE  \/ HasOnce(buf[y], x, n) /\ NoneCaptured(x, n)'
             \/ ~Has(buf[y], x, n) /\ OneCaptured(x, n)'
  <2>1. CASE z = y
    <3>1. NoneCaptured(x, n)'
      BY <1>2, <1>6, <2>1 DEF NoneCaptured
    <3>2. i \in DOMAIN buf[y] /\ \A j \in DOMAIN buf[y] : IsLine(buf[y][j], x, n) <=> j = i
      BY <1>3, <1>6, <2>1
    <3> QED BY <3>1, <3>2 DEF HasOnce
  <2>2. CASE z # y
    <3>1. ~Has(buf[y], x, n)
      BY <1>4, <1>6, <2>2
    <3>2. \A w, j : CapturedAt(x, n, w, j)' <=> w = z /\ j = i
      BY <1>2, <1>6, <2>2
    <3> QED BY <3>1, <3>2 DEF OneCaptured
  <2> QED BY <2>1, <2>2
<1> QED BY <1>5, <1>6 DEF OneCaptured

\* A line is added to one capture.
LEMMA CaptureGrows ==
    ASSUME TypeOK, NEW x, NEW n, NEW l \in Lines, Raw(l), NEW y \in open, CapturesOf(l) = {y}
    PROVE  IF IsLine(l, x, n)
           THEN NoneCaptured(x, n) => OneCaptured(x, n)'
           ELSE /\ NoneCaptured(x, n) => NoneCaptured(x, n)'
                /\ OneCaptured(x, n) => OneCaptured(x, n)'
<1>1. open \subseteq Commands /\ buf \in [Commands -> Seq(Lines)]
  BY DEF TypeOK
<1>2. UNCHANGED open /\ \A z \in Commands : buf'[z] = IF z = y THEN Append(buf[z], l) ELSE buf[z]
  <2> HIDE DEF CapturesOf
  <2> QED BY DEF Raw, captures
<1>3. buf[y] \in Seq(Lines)
  BY <1>1
<1>4. /\ Len(buf[y]) \in Nat
      /\ Len(buf[y]) + 1 \in DOMAIN Append(buf[y], l) /\ Append(buf[y], l)[Len(buf[y]) + 1] = l
      /\ \A i \in DOMAIN buf[y] : /\ i \in Nat /\ i < Len(buf[y]) + 1
                                  /\ i \in DOMAIN Append(buf[y], l)
                                  /\ Append(buf[y], l)[i] = buf[y][i]
      /\ \A i \in DOMAIN Append(buf[y], l) :
            \/ i = Len(buf[y]) + 1
            \/ i \in DOMAIN buf[y] /\ Append(buf[y], l)[i] = buf[y][i]
  BY <1>3, AppendAt
<1>0. PICK last : last = Len(buf[y]) + 1
  OBVIOUS
<1>5. last \notin DOMAIN buf[y]
  BY <1>0, <1>4
<1>6. buf'[y] = Append(buf[y], l)
  BY <1>1, <1>2
<1> HIDE DEF CapturesOf
<1>7. last \in DOMAIN buf'[y] /\ buf'[y][last] = l
      /\ \A i : i # last => /\ i \in DOMAIN buf'[y] <=> i \in DOMAIN buf[y]
                            /\ i \in DOMAIN buf[y] => buf'[y][i] = buf[y][i]
  BY <1>0, <1>4, <1>5, <1>6
<1>8. \A z, i : ~(z = y /\ i = last) => (CapturedAt(x, n, z, i)' <=> CapturedAt(x, n, z, i))
  BY <1>1, <1>2, <1>7 DEF CapturedAt
<1>9. ~CapturedAt(x, n, y, last)
  BY <1>5 DEF CapturedAt
<1>10. CapturedAt(x, n, y, last)' <=> IsLine(l, x, n)
  BY <1>2, <1>7 DEF CapturedAt, IsLine
<1>11. CASE IsLine(l, x, n)
  <2>1. ASSUME NoneCaptured(x, n) PROVE OneCaptured(x, n)'
    <3>1. \A z, i : CapturedAt(x, n, z, i)' <=> z = y /\ i = last
      BY <1>8, <1>10, <1>11, <2>1 DEF NoneCaptured
    <3> QED BY <3>1 DEF OneCaptured
  <2> QED BY <1>11, <2>1
<1>12. CASE ~IsLine(l, x, n)
  <2>1. \A z, i : CapturedAt(x, n, z, i)' <=> CapturedAt(x, n, z, i)
    BY <1>8, <1>9, <1>10, <1>12
  <2>2. NoneCaptured(x, n) => NoneCaptured(x, n)'
    BY <2>1 DEF NoneCaptured
  <2>3. ASSUME OneCaptured(x, n) PROVE OneCaptured(x, n)'
    <3>1. PICK w, i : \A z, j : CapturedAt(x, n, z, j) <=> z = w /\ j = i
      BY <2>3 DEF OneCaptured
    <3>2. \A z, j : CapturedAt(x, n, z, j)' <=> z = w /\ j = i
      BY <2>1, <3>1
    <3> QED BY <3>2 DEF OneCaptured
  <2> QED BY <1>12, <2>2, <2>3
<1> QED BY <1>11, <1>12

\* A capture is handed to the fetch whose channel is registered.
LEMMA ResultComes ==
    ASSUME TypeOK, NEW x, NEW n, NEW s \in Seq(Lines), NEW f \in Fetches, chan[f] = <<>>,
           chan' = [chan EXCEPT ![f] = <<s>>]
    PROVE  /\ ~Has(s, x, n) => /\ NoneFetched(x, n) => NoneFetched(x, n)'
                               /\ OneFetched(x, n) => OneFetched(x, n)'
           /\ HasOnce(s, x, n) /\ NoneFetched(x, n) => OneFetched(x, n)'
<1>1. /\ chan'[f] # <<>> /\ chan'[f][1] = s
      /\ \A g \in Fetches : g # f => chan'[g] = chan[g]
  BY DEF TypeOK
<1>2. \A g, i : g # f => (FetchedAt(x, n, g, i)' <=> FetchedAt(x, n, g, i))
  BY <1>1 DEF FetchedAt
<1>3. \A i : ~FetchedAt(x, n, f, i)
  BY DEF FetchedAt
<1>4. \A i : FetchedAt(x, n, f, i)' <=> i \in DOMAIN s /\ IsLine(s[i], x, n)
  BY <1>1 DEF FetchedAt, IsLine
<1>5. ~Has(s, x, n) => \A i : ~FetchedAt(x, n, f, i)'
  BY <1>4 DEF Has
<1>6. ASSUME HasOnce(s, x, n), NoneFetched(x, n) PROVE OneFetched(x, n)'
  <2>1. PICK i \in DOMAIN s : \A j \in DOMAIN s : IsLine(s[j], x, n) <=> j = i
    BY <1>6 DEF HasOnce
  <2>2. FetchedAt(x, n, f, i)' /\ \A g, j : FetchedAt(x, n, g, j)' => g = f /\ j = i
    BY <1>2, <1>4, <1>6, <2>1 DEF NoneFetched
  <2> QED BY <2>2 DEF OneFetched
<1>7. ASSUME ~Has(s, x, n) PROVE \A g, i : FetchedAt(x, n, g, i)' <=> FetchedAt(x, n, g, i)
  BY <1>2, <1>3, <1>5, <1>7
<1>8. ASSUME ~Has(s, x, n)
      PROVE  /\ NoneFetched(x, n) => NoneFetched(x, n)'
             /\ OneFetched(x, n) => OneFetched(x, n)'
  <2>1. NoneFetched(x, n) => NoneFetched(x, n)'
    BY <1>7, <1>8 DEF NoneFetched
  <2>2. ASSUME OneFetched(x, n) PROVE OneFetched(x, n)'
    <3>1. PICK h, i : /\ FetchedAt(x, n, h, i)
                      /\ \A g, j : FetchedAt(x, n, g, j) => g = h /\ j = i
      BY <2>2 DEF OneFetched
    <3>2. FetchedAt(x, n, h, i)' /\ \A g, j : FetchedAt(x, n, g, j)' => g = h /\ j = i
      BY <1>7, <1>8, <3>1
    <3> QED BY <3>2 DEF OneFetched
  <2> QED BY <2>1, <2>2
<1> QED BY <1>6, <1>8

\* Lines are published.
LEMMA LinesShow ==
    ASSUME TypeOK, NEW x, NEW n, NEW y \in Commands \cup {None}, NEW s \in Seq(Lines), Publish(y, s)
    PROVE  /\ ~Has(s, x, n) => /\ NoneShown(x, n) => NoneShown(x, n)'
                               /\ OneShown(x, n) => OneShown(x, n)'
           /\ HasOnce(s, x, n) /\ NoneShown(x, n) => OneShown(x, n)'
<1> DEFINE New == {[cmd |-> y, line |-> l] : l \in LinesIn(s)}
<1>1. BagTypes
  BY TypeParts
<1>2. /\ DOMAIN published' = DOMAIN published \cup New
      /\ \A e \in DOMAIN published' :
            published'[e] = (IF e \in DOMAIN published THEN published[e] ELSE 0)
                             + (IF e \in New THEN 1 ELSE 0)
  BY <1>1, PublishTypes
<1>3. \A e : e \in New <=> \E i \in DOMAIN s : e = [cmd |-> y, line |-> s[i]]
  BY DEF LinesIn
<1>4. \A i : [cmd |-> y, line |-> s[i]].line = s[i]
  OBVIOUS
<1> HIDE DEF New
<1>5. \A e \in DOMAIN published : published[e] \in Nat /\ published[e] > 0
  BY <1>1 DEF BagTypes, IsABag
<1>6. ASSUME NEW e, e \notin New PROVE \A i : ShownAt(x, n, e, i)' <=> ShownAt(x, n, e, i)
  BY <1>2, <1>5, <1>6 DEF ShownAt
<1>7. ASSUME ~Has(s, x, n)
      PROVE  /\ NoneShown(x, n) => NoneShown(x, n)'
             /\ OneShown(x, n) => OneShown(x, n)'
  <2>1. \A e \in New : ~IsLine(e.line, x, n)
    BY <1>3, <1>4, <1>7 DEF Has
  <2>2. \A e \in New : \A i : ~ShownAt(x, n, e, i) /\ ~ShownAt(x, n, e, i)'
    BY <2>1 DEF ShownAt, IsLine
  <2>3. \A e, i : ShownAt(x, n, e, i)' <=> ShownAt(x, n, e, i)
    BY <1>6, <2>2
  <2>4. NoneShown(x, n) => NoneShown(x, n)'
    BY <2>3 DEF NoneShown
  <2>5. ASSUME OneShown(x, n) PROVE OneShown(x, n)'
    <3>1. PICK e, i : \A d, j : ShownAt(x, n, d, j) <=> d = e /\ j = i
      BY <2>5 DEF OneShown
    <3>2. \A d, j : ShownAt(x, n, d, j)' <=> d = e /\ j = i
      BY <2>3, <3>1
    <3> QED BY <3>2 DEF OneShown
  <2> QED BY <2>4, <2>5
<1>8. ASSUME HasOnce(s, x, n), NoneShown(x, n) PROVE OneShown(x, n)'
  <2>1. PICK i \in DOMAIN s : \A j \in DOMAIN s : IsLine(s[j], x, n) <=> j = i
    BY <1>8 DEF HasOnce
  <2>0. PICK it : it = [cmd |-> y, line |-> s[i]]
    OBVIOUS
  <2>2. it \in New /\ IsLine(it.line, x, n)
    BY <1>3, <1>4, <2>0, <2>1
  <2>3. \A e \in New : IsLine(e.line, x, n) => e = it
    BY <1>3, <1>4, <2>0, <2>1
  <2>4. it \notin DOMAIN published
    <3>1. SUFFICES ASSUME it \in DOMAIN published PROVE FALSE
      OBVIOUS
    <3>2. ShownAt(x, n, it, 1)
      BY <1>5, <2>2, <3>1 DEF ShownAt, IsLine
    <3> QED BY <1>8, <3>2 DEF NoneShown
  <2>5. it \in DOMAIN published' /\ published'[it] = 1
    BY <1>2, <2>2, <2>4
  <2>6. \A j : ShownAt(x, n, it, j)' <=> j = 1
    <3>1. \A j : j \in 1..1 <=> j = 1
      OBVIOUS
    <3> QED BY <2>2, <2>5, <3>1 DEF ShownAt, IsLine
  <2>7. \A e, j : e # it => ~ShownAt(x, n, e, j)'
    <3>1. ASSUME NEW e, NEW j, e # it, ShownAt(x, n, e, j)' PROVE FALSE
      <4>1. e \notin New
        BY <2>3, <3>1 DEF ShownAt, IsLine
      <4> QED BY <1>6, <1>8, <3>1, <4>1 DEF NoneShown
    <3> QED BY <3>1
  <2>8. \A e, j : ShownAt(x, n, e, j)' <=> e = it /\ j = 1
    BY <2>6, <2>7
  <2> QED BY <2>8 DEF OneShown
<1> QED BY <1>7, <1>8

\* What a step leaves alone.
LEMMA SameUnread ==
    ASSUME UNCHANGED fromLily, NEW x, NEW n
    PROVE  (NoneUnread(x, n) => NoneUnread(x, n)') /\ (OneUnread(x, n) => OneUnread(x, n)')
BY DEF NoneUnread, OneUnread, UnreadAt

LEMMA SameCaptured ==
    ASSUME UNCHANGED open, \A y \in open : buf'[y] = buf[y], NEW x, NEW n
    PROVE  (NoneCaptured(x, n) => NoneCaptured(x, n)') /\ (OneCaptured(x, n) => OneCaptured(x, n)')
<1>1. \A y, i : CapturedAt(x, n, y, i)' <=> CapturedAt(x, n, y, i)
  BY DEF CapturedAt
<1> QED BY <1>1 DEF NoneCaptured, OneCaptured

LEMMA SameFetched ==
    ASSUME UNCHANGED chan, NEW x, NEW n
    PROVE  (NoneFetched(x, n) => NoneFetched(x, n)') /\ (OneFetched(x, n) => OneFetched(x, n)')
BY DEF NoneFetched, OneFetched, FetchedAt

LEMMA SameShown ==
    ASSUME UNCHANGED published, NEW x, NEW n
    PROVE  (NoneShown(x, n) => NoneShown(x, n)') /\ (OneShown(x, n) => OneShown(x, n)')
BY DEF NoneShown, OneShown, ShownAt

\* A step moves a line, or leaves it where it is.
Kept(x, n) ==
    (InOnePlace(x, n) => InOnePlace(x, n)') /\ (Nowhere(x, n) => Nowhere(x, n)')

LEMMA SamePlaces ==
    ASSUME UNCHANGED <<fromLily, captures, chan, published>>, NEW x, NEW n
    PROVE  Kept(x, n)
<1>1. /\ (NoneUnread(x, n) => NoneUnread(x, n)') /\ (OneUnread(x, n) => OneUnread(x, n)')
      /\ (NoneFetched(x, n) => NoneFetched(x, n)') /\ (OneFetched(x, n) => OneFetched(x, n)')
      /\ (NoneShown(x, n) => NoneShown(x, n)') /\ (OneShown(x, n) => OneShown(x, n)')
  BY SameUnread, SameFetched, SameShown
<1>2. (NoneCaptured(x, n) => NoneCaptured(x, n)') /\ (OneCaptured(x, n) => OneCaptured(x, n)')
  BY SameCaptured DEF captures
<1> QED BY <1>1, <1>2 DEF Kept, InOnePlace, Nowhere

\* The message read is not a line, so no line moves with it.
LEMMA ReadsNoLine ==
    ASSUME TypeOK, NEW x, NEW n, NEW m, Reads(m), m.type # "raw"
    PROVE  (NoneUnread(x, n) => NoneUnread(x, n)') /\ (OneUnread(x, n) => OneUnread(x, n)')
BY UnreadStays

LEMMA BeginKeepsPlaces ==
    ASSUME TypeOK, BeginInv, NEW y \in Commands, CmdBegin(y), NEW x, NEW n
    PROVE  Kept(x, n)
<1>1. /\ Reads([type |-> "begin", cmd |-> y]) /\ UNCHANGED <<chan, published>>
      /\ open' = open \cup {y} /\ buf' = [buf EXCEPT ![y] = <<>>]
  BY DEF CmdBegin, calls
<1>2. y \notin open
  <2>1. 1 \in DOMAIN fromLily /\ fromLily[1] = [type |-> "begin", cmd |-> y]
    BY <1>1, Unread
  <2> QED BY <2>1 DEF BeginInv
<1>3. [type |-> "begin", cmd |-> y].type # "raw"
  OBVIOUS
<1>4. (NoneUnread(x, n) => NoneUnread(x, n)') /\ (OneUnread(x, n) => OneUnread(x, n)')
  BY <1>1, <1>3, ReadsNoLine
<1>5. buf \in [Commands -> Seq(Lines)] /\ open \subseteq Commands
  BY DEF TypeOK
<1>6. \A z, i : CapturedAt(x, n, z, i)' <=> CapturedAt(x, n, z, i)
  <2>1. DOMAIN buf'[y] = {} /\ \A z \in open : buf'[z] = buf[z]
    BY <1>1, <1>2, <1>5
  <2> QED BY <1>1, <1>2, <2>1 DEF CapturedAt
<1>7. (NoneCaptured(x, n) => NoneCaptured(x, n)') /\ (OneCaptured(x, n) => OneCaptured(x, n)')
  BY <1>6 DEF NoneCaptured, OneCaptured
<1>8. /\ (NoneFetched(x, n) => NoneFetched(x, n)') /\ (OneFetched(x, n) => OneFetched(x, n)')
      /\ (NoneShown(x, n) => NoneShown(x, n)') /\ (OneShown(x, n) => OneShown(x, n)')
  BY <1>1, SameFetched, SameShown
<1> QED BY <1>4, <1>7, <1>8 DEF Kept, InOnePlace, Nowhere

LEMMA ClosingKeepsPlaces ==
    ASSUME TypeOK, CallInv, NEW x, NEW n, NEW y \in open, CaptureClosed(y),
           (NoneUnread(x, n) => NoneUnread(x, n)') /\ (OneUnread(x, n) => OneUnread(x, n)'),
           \/ Publish(y, buf[y]) /\ UNCHANGED chan
           \/ /\ fetchResultCh \in Fetches /\ chan[fetchResultCh] = <<>>
              /\ chan' = [chan EXCEPT ![fetchResultCh] = <<buf[y]>>] /\ UNCHANGED published
    PROVE  Kept(x, n)
<1>0. y \in Commands /\ buf[y] \in Seq(Lines)
  BY DEF TypeOK
<1>1. /\ NoneCaptured(x, n) => ~Has(buf[y], x, n) /\ NoneCaptured(x, n)'
      /\ OneCaptured(x, n) =>
            \/ HasOnce(buf[y], x, n) /\ NoneCaptured(x, n)'
            \/ ~Has(buf[y], x, n) /\ OneCaptured(x, n)'
  BY CaptureCloses
<1>2. CASE Publish(y, buf[y]) /\ UNCHANGED chan
  <2>1. (NoneFetched(x, n) => NoneFetched(x, n)') /\ (OneFetched(x, n) => OneFetched(x, n)')
    BY <1>2, SameFetched
  <2>2. /\ ~Has(buf[y], x, n) => /\ NoneShown(x, n) => NoneShown(x, n)'
                                 /\ OneShown(x, n) => OneShown(x, n)'
        /\ HasOnce(buf[y], x, n) /\ NoneShown(x, n) => OneShown(x, n)'
    BY <1>0, <1>2, LinesShow
  <2> QED BY <1>1, <2>1, <2>2 DEF Kept, InOnePlace, Nowhere
<1>3. CASE /\ fetchResultCh \in Fetches /\ chan[fetchResultCh] = <<>>
           /\ chan' = [chan EXCEPT ![fetchResultCh] = <<buf[y]>>] /\ UNCHANGED published
  <2>1. (NoneShown(x, n) => NoneShown(x, n)') /\ (OneShown(x, n) => OneShown(x, n)')
    BY <1>3, SameShown
  <2>2. PICK f \in Fetches : f = fetchResultCh
    BY <1>3
  <2>3. chan[f] = <<>> /\ chan' = [chan EXCEPT ![f] = <<buf[y]>>]
    BY <1>3, <2>2
  <2>4. PICK s \in Seq(Lines) : s = buf[y]
    BY <1>0
  <2>5. chan' = [chan EXCEPT ![f] = <<s>>]
    BY <2>3, <2>4
  <2>6. /\ ~Has(s, x, n) => /\ NoneFetched(x, n) => NoneFetched(x, n)'
                            /\ OneFetched(x, n) => OneFetched(x, n)'
        /\ HasOnce(s, x, n) /\ NoneFetched(x, n) => OneFetched(x, n)'
    BY <2>3, <2>5, ResultComes
  <2> QED BY <1>1, <2>1, <2>4, <2>6 DEF Kept, InOnePlace, Nowhere
<1> QED BY <1>2, <1>3

LEMMA EndKeepsPlaces ==
    ASSUME TypeOK, CallInv, NEW y \in Commands, CmdEnd(y), NEW x, NEW n
    PROVE  Kept(x, n)
<1>1. Reads([type |-> "end", cmd |-> y]) /\ [type |-> "end", cmd |-> y].type # "raw"
  BY DEF CmdEnd
<1>2. (NoneUnread(x, n) => NoneUnread(x, n)') /\ (OneUnread(x, n) => OneUnread(x, n)')
  BY <1>1, ReadsNoLine
<1>3. CASE UNCHANGED <<captures, chan, published>>
  <2>1. /\ (NoneFetched(x, n) => NoneFetched(x, n)') /\ (OneFetched(x, n) => OneFetched(x, n)')
        /\ (NoneShown(x, n) => NoneShown(x, n)') /\ (OneShown(x, n) => OneShown(x, n)')
    BY <1>3, SameFetched, SameShown
  <2>2. (NoneCaptured(x, n) => NoneCaptured(x, n)') /\ (OneCaptured(x, n) => OneCaptured(x, n)')
    BY <1>3, SameCaptured DEF captures
  <2> QED BY <1>2, <2>1, <2>2 DEF Kept, InOnePlace, Nowhere
<1>4. CASE y \in open /\ CaptureClosed(y) /\ Publish(y, buf[y]) /\ UNCHANGED chan
  BY <1>2, <1>4, ClosingKeepsPlaces
<1>5. CASE y \in open /\ fetchResultCh # None /\ fetchCmdID = y /\ CaptureClosed(y) /\ DeliverToFetch(y)
  <2>1. fetchResultCh \in Fetches
    BY <1>5 DEF TypeOK
  <2>2. chan[fetchResultCh] = <<>>
    BY <2>1 DEF CallInv
  <2>3. chan' = [chan EXCEPT ![fetchResultCh] = <<buf[y]>>] /\ UNCHANGED published
    BY <1>5, <2>2 DEF DeliverToFetch
  <2> QED BY <1>2, <1>5, <2>1, <2>2, <2>3, ClosingKeepsPlaces
<1> QED BY <1>3, <1>4, <1>5 DEF CmdEnd

LEMMA FlushKeepsPlaces ==
    ASSUME TypeOK, CallInv, NEW y \in Commands, FlushStale(y), NEW x, NEW n
    PROVE  Kept(x, n)
<1>1. /\ y \in open /\ CaptureClosed(y) /\ Publish(y, buf[y])
      /\ UNCHANGED fromLily /\ UNCHANGED chan
  BY DEF FlushStale, calls
<1>2. (NoneUnread(x, n) => NoneUnread(x, n)') /\ (OneUnread(x, n) => OneUnread(x, n)')
  BY <1>1, SameUnread
<1> QED BY <1>1, <1>2, ClosingKeepsPlaces

\* A line is added to one capture, or shown.
LEMMA OneCapture ==
    ASSUME BeginInv, NEW l, CapturesOf(l) # {}
    PROVE  \E y \in open : CapturesOf(l) = {y}
<1>1. CASE l.tagged
  BY <1>1 DEF CapturesOf
<1>2. CASE ~l.tagged
  <2>1. Cardinality(open) = 1 /\ CapturesOf(l) = open
    BY <1>2 DEF CapturesOf
  <2>2. PICK y : open = {y}
    BY <2>1, FS_Singleton DEF BeginInv
  <2> QED BY <2>1, <2>2
<1> QED BY <1>1, <1>2

LEMMA RawKeepsPlaces ==
    ASSUME TypeOK, BeginInv, NEW l \in Lines, Raw(l), NEW x, NEW n
    PROVE  Kept(x, n)
<1>1. /\ Reads([type |-> "raw", line |-> l]) /\ [type |-> "raw", line |-> l].type = "raw"
      /\ [type |-> "raw", line |-> l].line = l
      /\ UNCHANGED open /\ UNCHANGED chan
  BY DEF Raw, calls
<1>2. IF IsLine(l, x, n)
      THEN ~NoneUnread(x, n) /\ (OneUnread(x, n) => NoneUnread(x, n)')
      ELSE (NoneUnread(x, n) => NoneUnread(x, n)') /\ (OneUnread(x, n) => OneUnread(x, n)')
  <2>1. CASE IsLine(l, x, n)
    BY <1>1, <2>1, UnreadGoes
  <2>2. CASE ~IsLine(l, x, n)
    BY <1>1, <2>2, UnreadStays
  <2> QED BY <2>1, <2>2
<1>3. (NoneFetched(x, n) => NoneFetched(x, n)') /\ (OneFetched(x, n) => OneFetched(x, n)')
  BY <1>1, SameFetched
<1>4. CASE CapturesOf(l) # {}
  <2>1. PICK y \in open : CapturesOf(l) = {y}
    BY <1>4, OneCapture
  <2>2. IF IsLine(l, x, n)
        THEN NoneCaptured(x, n) => OneCaptured(x, n)'
        ELSE /\ NoneCaptured(x, n) => NoneCaptured(x, n)'
             /\ OneCaptured(x, n) => OneCaptured(x, n)'
    BY <2>1, CaptureGrows
  <2>3. UNCHANGED published
    BY <1>4 DEF Raw
  <2>4. (NoneShown(x, n) => NoneShown(x, n)') /\ (OneShown(x, n) => OneShown(x, n)')
    BY <2>3, SameShown
  <2> QED BY <1>2, <1>3, <2>2, <2>4 DEF Kept, InOnePlace, Nowhere
<1>5. CASE CapturesOf(l) = {}
  <2>1. \A y \in open : buf'[y] = buf[y]
    <3>1. open \subseteq Commands
      BY DEF TypeOK
    <3> HIDE DEF CapturesOf
    <3> QED BY <1>5, <3>1 DEF Raw
  <2>2. (NoneCaptured(x, n) => NoneCaptured(x, n)') /\ (OneCaptured(x, n) => OneCaptured(x, n)')
    BY <1>1, <2>1, SameCaptured
  <2>3. Publish(None, <<l>>)
    BY <1>5 DEF Raw
  <2>4. PICK s \in Seq(Lines) : s = <<l>>
    <3>1. <<l>> \in Seq(Lines)
      OBVIOUS
    <3> QED BY <3>1
  <2>5. /\ ~Has(s, x, n) => /\ NoneShown(x, n) => NoneShown(x, n)'
                            /\ OneShown(x, n) => OneShown(x, n)'
        /\ HasOnce(s, x, n) /\ NoneShown(x, n) => OneShown(x, n)'
    <3>1. Publish(None, s) /\ None \in Commands \cup {None}
      BY <2>3, <2>4
    <3> QED BY <3>1, LinesShow
  <2>6. DOMAIN s = {1} /\ s[1] = l
    BY <2>4
  <2>7. IF IsLine(l, x, n) THEN HasOnce(s, x, n) ELSE ~Has(s, x, n)
    BY <2>6 DEF Has, HasOnce
  <2> QED BY <1>2, <1>3, <2>2, <2>5, <2>7 DEF Kept, InOnePlace, Nowhere
<1> QED BY <1>4, <1>5

\* A line printed comes from nowhere; nothing else of Lily's moves any.
LEMMA PrintKeepsPlaces ==
    ASSUME TypeOK, PlaceInv, NEW y \in Commands, LilyPrints(y)
    PROVE  PlaceInv'
<1>1. PICK tagged \in BOOLEAN :
         LilySends(y, [type |-> "raw",
                       line |-> [of |-> y, n |-> produced[y] + 1, tagged |-> tagged]],
                   "begun", "begun")
  BY DEF LilyPrints
<1>2. PICK l : l = [of |-> y, n |-> produced[y] + 1, tagged |-> tagged]
  OBVIOUS
<1>3. /\ produced \in [Commands -> 0..MaxLines] /\ MaxLines \in Nat
      /\ produced[y] < MaxLines /\ produced' = [produced EXCEPT ![y] = @ + 1]
  BY RoutingAssumption DEF TypeOK, LilyPrints, RoutingAssumption
<1>4. l \in Lines
  BY <1>2, <1>3 DEF Lines
<1>5. PICK m : m = [type |-> "raw", line |-> l]
  OBVIOUS
<1>6. m \in Messages /\ m.type = "raw" /\ m.line = l
  BY <1>4, <1>5 DEF Messages
<1>7. fromLily' = Append(fromLily, m) /\ UNCHANGED <<captures, chan, published>>
  BY <1>1, <1>2, <1>5 DEF LilySends, calls
<1>8. ASSUME NEW x \in Commands, NEW n \in 1..MaxLines
      PROVE  IF n <= produced'[x] THEN InOnePlace(x, n)' ELSE Nowhere(x, n)'
  <2>1. IF m.type = "raw" /\ IsLine(m.line, x, n)
        THEN NoneUnread(x, n) => OneUnread(x, n)'
        ELSE (NoneUnread(x, n) => NoneUnread(x, n)') /\ (OneUnread(x, n) => OneUnread(x, n)')
    BY <1>6, <1>7, UnreadComes
  <2>2. /\ (NoneCaptured(x, n) => NoneCaptured(x, n)') /\ (OneCaptured(x, n) => OneCaptured(x, n)')
    BY <1>7, SameCaptured DEF captures
  <2>3. /\ (NoneFetched(x, n) => NoneFetched(x, n)') /\ (OneFetched(x, n) => OneFetched(x, n)')
        /\ (NoneShown(x, n) => NoneShown(x, n)') /\ (OneShown(x, n) => OneShown(x, n)')
    BY <1>7, SameFetched, SameShown
  <2>4. IsLine(l, x, n) <=> x = y /\ n = produced[y] + 1
    BY <1>2 DEF IsLine
  <2>5. IF n <= produced[x] THEN InOnePlace(x, n) ELSE Nowhere(x, n)
    BY DEF PlaceInv
  <2>6. CASE x = y /\ n = produced[y] + 1
    <3>1. n <= produced'[x] /\ ~(n <= produced[x])
      BY <1>3, <2>6
    <3>2. Nowhere(x, n)
      BY <2>5, <3>1
    <3>3. InOnePlace(x, n)'
      BY <1>6, <2>1, <2>2, <2>3, <2>4, <2>6, <3>2 DEF InOnePlace, Nowhere
    <3> QED BY <3>1, <3>3
  <2>7. CASE ~(x = y /\ n = produced[y] + 1)
    <3>1. n <= produced'[x] <=> n <= produced[x]
      BY <1>3, <2>7
    <3>2. (NoneUnread(x, n) => NoneUnread(x, n)') /\ (OneUnread(x, n) => OneUnread(x, n)')
      BY <1>6, <2>1, <2>4, <2>7
    <3>3. Kept(x, n)
      BY <2>2, <2>3, <3>2 DEF Kept, InOnePlace, Nowhere
    <3> QED BY <2>5, <3>1, <3>3 DEF Kept
  <2> QED BY <2>6, <2>7
<1> QED BY <1>8 DEF PlaceInv

LEMMA SendKeepsPlaces ==
    ASSUME TypeOK, NEW y \in Commands, LilyBegins(y) \/ LilyEnds(y), NEW x, NEW n
    PROVE  Kept(x, n)
<1>1. PICK type \in {"begin", "end"} :
         fromLily' = Append(fromLily, [type |-> type, cmd |-> y])
         /\ UNCHANGED <<captures, chan, published>>
  BY DEF LilyBegins, LilyEnds, LilySends, calls
<1>2. PICK m : m = [type |-> type, cmd |-> y]
  OBVIOUS
<1>3. m \in Messages /\ m.type # "raw"
  BY <1>2 DEF Messages
<1>4. (NoneUnread(x, n) => NoneUnread(x, n)') /\ (OneUnread(x, n) => OneUnread(x, n)')
  BY <1>1, <1>2, <1>3, UnreadComes
<1>5. (NoneCaptured(x, n) => NoneCaptured(x, n)') /\ (OneCaptured(x, n) => OneCaptured(x, n)')
  BY <1>1, SameCaptured DEF captures
<1>6. /\ (NoneFetched(x, n) => NoneFetched(x, n)') /\ (OneFetched(x, n) => OneFetched(x, n)')
      /\ (NoneShown(x, n) => NoneShown(x, n)') /\ (OneShown(x, n) => OneShown(x, n)')
  BY <1>1, SameFetched, SameShown
<1> QED BY <1>4, <1>5, <1>6 DEF Kept, InOnePlace, Nowhere

LEMMA InitPlace == Init => PlaceInv
<1> SUFFICES ASSUME Init PROVE PlaceInv
  OBVIOUS
<1>1. ASSUME NEW x \in Commands, NEW n \in 1..MaxLines PROVE Nowhere(x, n) /\ ~(n <= produced[x])
  <2>1. ~(n <= produced[x])
    BY RoutingAssumption DEF Init, RoutingAssumption
  <2>2. NoneUnread(x, n) /\ NoneCaptured(x, n) /\ NoneFetched(x, n)
    BY DEF Init, NoneUnread, NoneCaptured, NoneFetched, UnreadAt, CapturedAt, FetchedAt
  <2>3. NoneShown(x, n)
    <3>1. DOMAIN published = {}
      BY DEF Init, EmptyBag, SetToBag
    <3> QED BY <3>1 DEF NoneShown, ShownAt
  <2> QED BY <2>1, <2>2, <2>3 DEF Nowhere
<1> QED BY <1>1 DEF PlaceInv

LEMMA StepsKeepPlaces ==
    ASSUME TypeOK, CallInv, BeginInv, PlaceInv, [Next]_vars
    PROVE  PlaceInv'
<1>1. ASSUME UNCHANGED produced, \A x \in Commands : \A n \in 1..MaxLines : Kept(x, n)
      PROVE  PlaceInv'
  <2>1. ASSUME NEW x \in Commands, NEW n \in 1..MaxLines
        PROVE  IF n <= produced'[x] THEN InOnePlace(x, n)' ELSE Nowhere(x, n)'
    BY <1>1 DEF PlaceInv, Kept
  <2> QED BY <2>1 DEF PlaceInv
<1>2. ASSUME UNCHANGED <<produced, fromLily, captures, chan, published>> PROVE PlaceInv'
  BY <1>1, <1>2, SamePlaces
<1>3. ASSUME NEW f \in Fetches, FetchLines(f) PROVE PlaceInv'
  <2>1. UNCHANGED <<produced, fromLily, captures, chan, published>>
    BY <1>3 DEF FetchLines, Register, Send, SendFails, Receive, Timeout, Unregister, server
  <2> QED BY <1>2, <2>1
<1>4. ASSUME NEW x \in Typed, Type(x) PROVE PlaceInv'
  <2>1. UNCHANGED <<produced, fromLily, captures, chan, published>>
    BY <1>4 DEF Type, calls
  <2> QED BY <1>2, <2>1
<1>5. ASSUME NEW x \in Commands, Lily(x) PROVE PlaceInv'
  <2>1. CASE LilyPrints(x)
    BY <2>1, PrintKeepsPlaces
  <2>2. CASE LilyBegins(x) \/ LilyEnds(x)
    <3>1. UNCHANGED produced
      BY <2>2 DEF LilyBegins, LilyEnds
    <3> QED BY <1>1, <2>2, <3>1, SendKeepsPlaces
  <2> QED BY <1>5, <2>1, <2>2 DEF Lily
<1>6. ASSUME NEW x \in Commands, CmdBegin(x) PROVE PlaceInv'
  <2>1. UNCHANGED produced
    BY <1>6 DEF CmdBegin, server
  <2> QED BY <1>1, <1>6, <2>1, BeginKeepsPlaces
<1>7. ASSUME NEW x \in Commands, CmdEnd(x) PROVE PlaceInv'
  <2>1. UNCHANGED produced
    BY <1>7 DEF CmdEnd, server
  <2> QED BY <1>1, <1>7, <2>1, EndKeepsPlaces
<1>8. ASSUME NEW x \in Commands, FlushStale(x) PROVE PlaceInv'
  <2>1. UNCHANGED produced
    BY <1>8 DEF FlushStale, server
  <2> QED BY <1>1, <1>8, <2>1, FlushKeepsPlaces
<1>9. ASSUME NEW l \in Lines, Raw(l) PROVE PlaceInv'
  <2>1. UNCHANGED produced
    BY <1>9 DEF Raw, server
  <2> QED BY <1>1, <1>9, <2>1, RawKeepsPlaces
<1>10. CASE UNCHANGED vars
  <2>1. UNCHANGED <<produced, fromLily, captures, chan, published>>
    BY <1>10 DEF vars, server, calls
  <2> QED BY <1>2, <2>1
<1> QED BY <1>3, <1>4, <1>5, <1>6, <1>7, <1>8, <1>9, <1>10 DEF Next, FanOut

-----------------------------------------------------------------------------
\* The places of a line, in words.
LEMMA PlacesAre ==
    ASSUME NEW x, NEW n, NEW p
    PROVE  p \in Places(x, n) <=>
              \/ \E i : UnreadAt(x, n, i) /\ p = <<"unread", None, i>>
              \/ \E y, i : CapturedAt(x, n, y, i) /\ p = <<"open", y, i>>
              \/ \E f, i : FetchedAt(x, n, f, i) /\ p = <<"fetch", f, i>>
              \/ \E e, i : ShownAt(x, n, e, i) /\ p = <<"shown", e, i>>
<1> DEFINE U == {<<"unread", None, i>> : i \in {j \in DOMAIN fromLily :
                    fromLily[j].type = "raw" /\ fromLily[j].line.of = x /\ fromLily[j].line.n = n}}
           C == UNION {{<<"open", y, i>> : i \in Positions(buf[y], x, n)} : y \in open}
           F == UNION {{<<"fetch", f, i>> : i \in Positions(chan[f][1], x, n)}
                         : f \in {g \in Fetches : chan[g] # <<>>}}
           S == UNION {{<<"shown", e, i>> : i \in 1..published[e]}
                         : e \in {d \in BagToSet(published) : d.line.of = x /\ d.line.n = n}}
<1>1. p \in U <=> \E i : UnreadAt(x, n, i) /\ p = <<"unread", None, i>>
  BY DEF UnreadAt
<1>2. p \in C <=> \E y, i : CapturedAt(x, n, y, i) /\ p = <<"open", y, i>>
  <2>1. p \in C <=> \E y \in open : \E i \in Positions(buf[y], x, n) : p = <<"open", y, i>>
    OBVIOUS
  <2> HIDE DEF C
  <2>2. \A y, i : CapturedAt(x, n, y, i) <=> y \in open /\ i \in Positions(buf[y], x, n)
    BY DEF CapturedAt, Positions
  <2> QED BY <2>1, <2>2
<1>3. p \in F <=> \E f, i : FetchedAt(x, n, f, i) /\ p = <<"fetch", f, i>>
  <2>1. p \in F <=> \E f \in {g \in Fetches : chan[g] # <<>>} :
                       \E i \in Positions(chan[f][1], x, n) : p = <<"fetch", f, i>>
    OBVIOUS
  <2> HIDE DEF F
  <2>2. \A f, i : FetchedAt(x, n, f, i) <=>
           f \in {g \in Fetches : chan[g] # <<>>} /\ i \in Positions(chan[f][1], x, n)
    BY DEF FetchedAt, Positions
  <2> QED BY <2>1, <2>2
<1>4. p \in S <=> \E e, i : ShownAt(x, n, e, i) /\ p = <<"shown", e, i>>
  <2>1. p \in S <=> \E e \in {d \in BagToSet(published) : d.line.of = x /\ d.line.n = n} :
                       \E i \in 1..published[e] : p = <<"shown", e, i>>
    OBVIOUS
  <2> HIDE DEF S
  <2>2. \A e, i : ShownAt(x, n, e, i) <=>
           /\ e \in {d \in BagToSet(published) : d.line.of = x /\ d.line.n = n}
           /\ i \in 1..published[e]
    BY DEF ShownAt, BagToSet
  <2> QED BY <2>1, <2>2
<1>5. Places(x, n) = U \cup C \cup F \cup S
  BY DEF Places
<1> HIDE DEF U, C, F, S
<1> QED BY <1>1, <1>2, <1>3, <1>4, <1>5

LEMMA OnePlaceIsOne ==
    ASSUME NEW x, NEW n, InOnePlace(x, n)
    PROVE  \E p \in Places(x, n) : Places(x, n) = {p}
<1>1. CASE OneUnread(x, n) /\ NoneCaptured(x, n) /\ NoneFetched(x, n) /\ NoneShown(x, n)
  <2>1. PICK i : UnreadAt(x, n, i) /\ \A j : UnreadAt(x, n, j) => j = i
    BY <1>1 DEF OneUnread
  <2>2. \A p : p \in Places(x, n) <=> p = <<"unread", None, i>>
    BY <1>1, <2>1, PlacesAre DEF NoneCaptured, NoneFetched, NoneShown
  <2>3. Places(x, n) = {<<"unread", None, i>>}
    BY <2>2
  <2> QED BY <2>3
<1>2. CASE NoneUnread(x, n) /\ OneCaptured(x, n) /\ NoneFetched(x, n) /\ NoneShown(x, n)
  <2>1. PICK y, i : CapturedAt(x, n, y, i) /\ \A z, j : CapturedAt(x, n, z, j) => z = y /\ j = i
    BY <1>2 DEF OneCaptured
  <2>2. \A p : p \in Places(x, n) <=> p = <<"open", y, i>>
    BY <1>2, <2>1, PlacesAre DEF NoneUnread, NoneFetched, NoneShown
  <2>3. Places(x, n) = {<<"open", y, i>>}
    BY <2>2
  <2> QED BY <2>3
<1>3. CASE NoneUnread(x, n) /\ NoneCaptured(x, n) /\ OneFetched(x, n) /\ NoneShown(x, n)
  <2>1. PICK f, i : FetchedAt(x, n, f, i) /\ \A g, j : FetchedAt(x, n, g, j) => g = f /\ j = i
    BY <1>3 DEF OneFetched
  <2>2. \A p : p \in Places(x, n) <=> p = <<"fetch", f, i>>
    BY <1>3, <2>1, PlacesAre DEF NoneUnread, NoneCaptured, NoneShown
  <2>3. Places(x, n) = {<<"fetch", f, i>>}
    BY <2>2
  <2> QED BY <2>3
<1>4. CASE NoneUnread(x, n) /\ NoneCaptured(x, n) /\ NoneFetched(x, n) /\ OneShown(x, n)
  <2>1. PICK e, i : ShownAt(x, n, e, i) /\ \A d, j : ShownAt(x, n, d, j) => d = e /\ j = i
    BY <1>4 DEF OneShown
  <2>2. \A p : p \in Places(x, n) <=> p = <<"shown", e, i>>
    BY <1>4, <2>1, PlacesAre DEF NoneUnread, NoneCaptured, NoneFetched
  <2>3. Places(x, n) = {<<"shown", e, i>>}
    BY <2>2
  <2> QED BY <2>3
<1> QED BY <1>1, <1>2, <1>3, <1>4 DEF InOnePlace

LEMMA PlacesHold == TypeOK /\ PlaceInv => LinesGoToOnePlace
<1> SUFFICES ASSUME TypeOK, PlaceInv, NEW x \in Commands, NEW n \in 1..produced[x]
             PROVE  \E p \in Places(x, n) : Places(x, n) = {p}
  BY DEF LinesGoToOnePlace
<1>1. n \in 1..MaxLines /\ n <= produced[x]
  BY RoutingAssumption DEF TypeOK, RoutingAssumption
<1>2. InOnePlace(x, n)
  BY <1>1 DEF PlaceInv
<1> QED BY <1>2, OnePlaceIsOne

LEMMA InitRouting == Init => RoutingInv
BY InitTypes, InitCall, InitBegin, InitTagged, InitPlace DEF RoutingInv

LEMMA StepsKeepRouting == RoutingInv /\ [Next]_vars => RoutingInv'
<1> SUFFICES ASSUME RoutingInv, [Next]_vars PROVE RoutingInv'
  OBVIOUS
<1>1. TypeOK /\ CallInv /\ BeginInv /\ TaggedLinesStayWithTheirCommand /\ PlaceInv
  BY DEF RoutingInv
<1>2. TypeOK'
  BY <1>1, StepsKeepTypes
<1>3. CallInv' /\ BeginInv'
  BY <1>1, StepsKeepCall, StepsKeepBegin
<1>4. TaggedLinesStayWithTheirCommand'
  BY <1>1, StepsKeepTagged
<1>5. PlaceInv'
  BY <1>1, StepsKeepPlaces
<1> QED BY <1>2, <1>3, <1>4, <1>5 DEF RoutingInv

\* For any fetches, commands, verbs and bounds, whatever fetches time out or
\* overlap: every line Lily prints stands in exactly one place, so none is
\* swallowed, shown twice, or shown as well as handed to a fetch; tagged lines of
\* commands in flight never mix; and if no fetch asks for what another command does
\* by its verb, what a fetch returns under its command's own id is that command's
\* output.  (server.go fanOut, flushStaleCaptures, fetchLines)
THEOREM OutputComesHome == Spec => []OutputGoesHome
<1>1. CASE VerbsDiffer
  <2> DEFINE I == RoutingInv /\ OwnInv
  <2>1. Init => I
    BY InitRouting, InitOwn
  <2>2. I /\ [Next]_vars => I'
    BY <1>1, StepsKeepRouting, StepsKeepOwn DEF RoutingInv
  <2>3. I => OutputGoesHome
    BY PlacesHold DEF RoutingInv, OwnInv, OutputGoesHome
  <2> QED BY <2>1, <2>2, <2>3, PTL DEF Spec
<1>2. CASE ~VerbsDiffer
  <2>1. RoutingInv => OutputGoesHome
    BY <1>2, PlacesHold DEF RoutingInv, OutputGoesHome
  <2> QED BY <2>1, InitRouting, StepsKeepRouting, PTL DEF Spec
<1> QED BY <1>1, <1>2

-----------------------------------------------------------------------------
(* Events on their way to the user (EventLine).                              *)

\* Both sides put the same events in the same words: who came and went, ...
LEMMA PersonAlike ==
    ASSUME NEW c, c.kind \in Told!Presence \cup Told!Identity
    PROVE  LET text == IF c.kind \in Told!Presence THEN Told!PresenceText(c) ELSE Told!IdentityText(c)
           IN  text = Told!PersonLine(c) /\ (text[1] = "quiet" => c.self)
<1>1. CASE c.kind \in Told!Presence
  BY <1>1 DEF Told!Presence, Told!PresenceText, Told!PersonLine, Told!quiet, Told!banner,
              Told!Quiet, Told!Banner
<1>2. CASE c.kind \in Told!Identity
  BY <1>2 DEF Told!Presence, Told!Identity, Told!IdentityText, Told!PersonLine, Told!Mine, Told!Says,
              Told!quiet, Told!banner, Told!Quiet, Told!Banner
<1> QED BY <1>1, <1>2 DEF Told!Presence, Told!Identity

\* ... what became of discussions, ...
LEMMA DiscussionAlike ==
    ASSUME NEW c, c.kind \in Told!Membership, ~(c.kind = "destroy" /\ c.disc = <<>> /\ ~c.self)
    PROVE  /\ Told!MembershipText(c) = Told!DiscussionLine(c)
           /\ Told!MembershipText(c)[1] = "quiet" => c.self
BY DEF Told!Membership, Told!MembershipText, Told!DiscussionLine, Told!Mine, Told!Says,
       Told!quiet, Told!banner, Told!Quiet, Told!Banner

\* ... permissions, ...
LEMMA PermissionAlike ==
    ASSUME NEW c, c.kind \in {"permit", "depermit"}, c.you => c.tgt # <<>>,
           ~(c.disc # <<>> /\ c.tgt = <<>> /\ c.sub = Told!NoText)
    PROVE  LET text == IF c.kind = "permit" THEN Told!PermitText(c) ELSE Told!DepermitText(c)
           IN  text = Told!PermissionLine(c) /\ (text[1] = "quiet" => c.self)
<1>1. CASE c.kind = "permit"
  BY <1>1 DEF Told!PermitText, Told!PermissionLine, Told!quiet, Told!banner, Told!Quiet, Told!Banner
<1>2. CASE c.kind = "depermit"
  BY <1>2 DEF Told!DepermitText, Told!PermissionLine, Told!quiet, Told!banner, Told!Quiet, Told!Banner
<1> QED BY <1>1, <1>2

\* ... appointments, ...
LEMMA AppointmentAlike ==
    ASSUME NEW c, c.kind \in {"appoint", "unappoint"}
    PROVE  LET text == IF c.kind = "appoint" THEN Told!AppointText(c) ELSE Told!UnappointText(c)
           IN  text = Told!AppointmentLine(c) /\ (text[1] = "quiet" => c.self)
<1>1. CASE c.kind = "appoint"
  BY <1>1 DEF Told!AppointText, Told!AppointmentLine, Told!Given,
              Told!quiet, Told!banner, Told!Quiet, Told!Banner
<1>2. CASE c.kind = "unappoint"
  BY <1>2 DEF Told!UnappointText, Told!AppointmentLine, Told!Given,
              Told!quiet, Told!banner, Told!Quiet, Told!Banner
<1> QED BY <1>1, <1>2

\* ... and the rest.
LEMMA OtherAlike ==
    ASSUME NEW c, c.kind \in Told!Other
    PROVE  Told!OtherText(c) = Told!OtherLine(c) /\ (Told!OtherText(c)[1] = "quiet" => c.self)
BY DEF Told!Other, Told!OtherText, Told!OtherLine, Told!quiet, Told!banner, Told!Quiet, Told!Banner

\* The two cases they put differently: a discussion destroyed that is not named, ...
LEMMA UnnamedDiffers ==
    ASSUME NEW c, c.kind = "destroy", c.disc = <<>>, ~c.self
    PROVE  Told!MembershipText(c) # Told!DiscussionLine(c)
<1>1. Told!MembershipText(c) = <<"banner", "has destroyed a discussion (server didn't say which)", c.src>>
  BY DEF Told!MembershipText, Told!Banner
<1>2. Told!DiscussionLine(c) = <<"banner", "has destroyed", c.src \o c.disc>>
  BY DEF Told!DiscussionLine, Told!Mine, Told!banner, Told!Banner
<1> DEFINE names == c.src \o c.disc
           source == c.src
<1> HIDE DEF names, source
<1>3. <<"banner", "has destroyed a discussion (server didn't say which)", source>>
        # <<"banner", "has destroyed", names>>
  OBVIOUS
<1> QED BY <1>1, <1>2, <1>3, Zenon DEF names, source

\* ... and permissions that are not told.
LEMMA UntoldDiffers ==
    ASSUME NEW c, NEW x, NEW S, c.src = <<x>>, c.disc \in Seq(S), x \in S, c.disc # <<>>,
           c.tgt = <<>>, ~c.you, c.sub = Told!NoText, c.kind \in {"permit", "depermit"}
    PROVE  (IF c.kind = "permit" THEN Told!PermitText(c) ELSE Told!DepermitText(c)) # Told!PermissionLine(c)
<1>1. Told!PermissionLine(c) = <<"banner", "has changed permissions", c.src>>
  BY DEF Told!PermissionLine, Told!banner, Told!Banner
<1>2. Told!PermitText(c) = <<"banner", "has changed permissions", c.src \o c.disc>>
  BY DEF Told!PermitText, Told!Banner
<1>3. Told!DepermitText(c) = <<"banner", "has changed permissions", c.src \o c.disc>>
  BY DEF Told!DepermitText, Told!Banner
<1>4. c.src \o c.disc # c.src
  <2>1. c.src \in Seq(S) /\ Len(c.src) = 1 /\ Len(c.disc) \in Nat /\ Len(c.disc) # 0
    OBVIOUS
  <2>2. Len(c.src \o c.disc) = 1 + Len(c.disc)
    BY <2>1
  <2>3. 1 + Len(c.disc) # 1
    BY <2>1
  <2> QED BY <2>1, <2>2, <2>3, Zenon
<1> DEFINE more == c.src \o c.disc
<1> HIDE DEF more
<1>5. <<"banner", "has changed permissions", more>> # <<"banner", "has changed permissions", c.src>>
  BY <1>4 DEF more
<1> QED BY <1>1, <1>2, <1>3, <1>5 DEF more

EventSet == Told!Changes \cup Telling

\* What an event mentions was described, whatever kind it is.
LEMMA EventsAre ==
    ASSUME Told!EventAssumption, NEW e \in EventSet
    PROVE  /\ e.source \in Told!Handles /\ e.recips \in Seq(Told!Handles) /\ e.targets \in Seq(Told!Handles)
           /\ e.kind = "destroy" => e.recips \in Seq({Disc})
           /\ Told!Mentioned(e) \subseteq Told!Handles
<1>1. /\ e.source \in Told!Handles /\ e.recips \in Seq(Told!Handles) /\ e.targets \in Seq(Told!Handles)
      /\ e.kind = "destroy" => e.recips \in Seq({Disc})
  <2>0. <<>> \in Seq(Told!Handles) /\ <<Disc>> \in Seq(Told!Handles) /\ <<Disc>> \in Seq({Disc})
    BY DEF Told!Handles
  <2>1. CASE e \in Telling
    BY <2>1 DEF Told!EventAssumption
  <2>2. CASE e \in Told!Changes
    <3>1. \/ \E r \in Renames : e = Told!Event("rename", r[1], <<>>, <<>>, Told!NoText, r[2])
          \/ \E v \in {Told!NoText, "hi"} : e = Told!Event("blurb", Me, <<>>, <<>>, Told!NoText, v)
          \/ \E k \in {"here", "away"} : e = Told!Event(k, Me, <<>>, <<>>, Told!NoText, Told!NoText)
          \/ \E u \in Users : e = Told!Event("destroy", u, <<Disc>>, <<>>, Told!NoText, Told!NoText)
      BY <2>2 DEF Told!Changes
    <3>2. CASE \E r \in Renames : e = Told!Event("rename", r[1], <<>>, <<>>, Told!NoText, r[2])
      BY <2>0, <3>2 DEF Told!Event, Told!EventAssumption, Told!Handles
    <3>3. CASE \E v \in {Told!NoText, "hi"} : e = Told!Event("blurb", Me, <<>>, <<>>, Told!NoText, v)
      BY <2>0, <3>3 DEF Told!Event, Told!EventAssumption, Told!Handles
    <3>4. CASE \E k \in {"here", "away"} : e = Told!Event(k, Me, <<>>, <<>>, Told!NoText, Told!NoText)
      BY <2>0, <3>4 DEF Told!Event, Told!EventAssumption, Told!Handles
    <3>5. CASE \E u \in Users : e = Told!Event("destroy", u, <<Disc>>, <<>>, Told!NoText, Told!NoText)
      BY <2>0, <3>5 DEF Told!Event, Told!EventAssumption, Told!Handles
    <3> QED BY <3>1, <3>2, <3>3, <3>4, <3>5
  <2> QED BY <2>1, <2>2 DEF EventSet
<1> QED BY <1>1 DEF Told!Mentioned

\* The proxy's text of an event and the terminal's, from the same picture.
LEMMA TextsAlike ==
    ASSUME Told!EventAssumption, NEW e \in EventSet, NEW ents
    PROVE  /\ e.kind \notin Told!Sends =>
                (Told!formatEventText(e, ents) = Told!OwnWords(e, ents) <=> ~Told!Differ(e))
           /\ Told!formatEventText(e, ents)[1] = "quiet" => e.source = Me
<1>0. PICK c : c = Told!Context(e, ents, Me)
  OBVIOUS
<1>1. /\ c.kind = e.kind /\ c.sub = e.sub /\ (c.self <=> e.source = Me)
      /\ c.disc = [i \in DOMAIN e.recips |-> Told!name(ents, e.recips[i])]
      /\ c.tgt = [i \in DOMAIN e.targets |-> Told!name(ents, e.targets[i])]
      /\ c.you <=> \E i \in DOMAIN e.targets : e.targets[i] = Me
      /\ c.src = <<Told!name(ents, e.source)>>
  BY <1>0 DEF Told!Context
<1>2. /\ e.recips \in Seq(Told!Handles) /\ e.targets \in Seq(Told!Handles)
  BY EventsAre
<1>3. c.disc = <<>> <=> e.recips = <<>>
  BY <1>1, <1>2
<1>4. c.tgt = <<>> <=> e.targets = <<>>
  BY <1>1, <1>2
<1>5. c.you => c.tgt # <<>>
  BY <1>1, <1>2, <1>4
<1>13. Told!Differ(e) => c.kind \in {"destroy", "permit", "depermit"}
  BY <1>1 DEF Told!Differ
<1>6. CASE c.kind \in Told!Presence \cup Told!Identity
  <2>1. /\ Told!formatEventText(e, ents) = IF c.kind \in Told!Presence THEN Told!PresenceText(c) ELSE Told!IdentityText(c)
        /\ Told!OwnWords(e, ents) = Told!PersonLine(c)
    BY <1>0, <1>1, <1>6 DEF Told!formatEventText, Told!OwnWords, Told!Presence, Told!Identity, Told!Membership,
                                     Told!Other, Told!Sends
  <2>2. ~Told!Differ(e)
    BY <1>6, <1>13 DEF Told!Presence, Told!Identity
  <2> QED BY <1>1, <1>6, <2>1, <2>2, PersonAlike
<1>7. CASE c.kind \in Told!Membership
  <2>1. Told!formatEventText(e, ents) = Told!MembershipText(c) /\ Told!OwnWords(e, ents) = Told!DiscussionLine(c)
    BY <1>0, <1>1, <1>7 DEF Told!formatEventText, Told!OwnWords, Told!Presence, Told!Identity, Told!Membership,
                                     Told!Other, Told!Sends
  <2>2. Told!MembershipText(c)[1] = "quiet" => c.self
    BY <1>7 DEF Told!Membership, Told!MembershipText, Told!Says, Told!Quiet, Told!Banner
  <2>3. Told!Differ(e) <=> c.kind = "destroy" /\ c.disc = <<>> /\ ~c.self
    BY <1>1, <1>3, <1>7 DEF Told!Differ, Told!Membership
  <2>4. CASE Told!Differ(e)
    <3>1. Told!MembershipText(c) # Told!DiscussionLine(c)
      BY <2>3, <2>4, UnnamedDiffers
    <3>2. c.self <=> e.source = Me
      BY <1>1
    <3>3. ~(Told!formatEventText(e, ents)[1] = "quiet")
      BY <2>1, <2>2, <2>3, <2>4
    <3> QED BY <2>1, <2>4, <3>1, <3>3
  <2>5. CASE ~Told!Differ(e)
    <3>1. Told!MembershipText(c) = Told!DiscussionLine(c)
      BY <1>7, <2>3, <2>5, DiscussionAlike
    <3> QED BY <1>1, <2>1, <2>2, <2>5, <3>1
  <2> QED BY <2>4, <2>5
<1>8. CASE c.kind \in {"permit", "depermit"}
  <2>1. /\ Told!formatEventText(e, ents) = IF c.kind = "permit" THEN Told!PermitText(c) ELSE Told!DepermitText(c)
        /\ Told!OwnWords(e, ents) = Told!PermissionLine(c)
    BY <1>0, <1>1, <1>8 DEF Told!formatEventText, Told!OwnWords, Told!Presence, Told!Identity, Told!Membership,
                                     Told!Other, Told!Sends
  <2>2. Told!PermitText(c)[1] = "quiet" => c.self
    BY DEF Told!PermitText, Told!Quiet, Told!Banner
  <2>3. Told!DepermitText(c)[1] = "quiet" => c.self
    BY DEF Told!DepermitText, Told!Quiet, Told!Banner
  <2>4. Told!Differ(e) <=> c.disc # <<>> /\ c.tgt = <<>> /\ c.sub = Told!NoText
    BY <1>1, <1>3, <1>4, <1>8 DEF Told!Differ
  <2>5. CASE Told!Differ(e)
    <3> DEFINE S == {Told!name(ents, h) : h \in Told!Handles}
    <3>1. e.source \in Told!Handles /\ e.recips \in Seq(Told!Handles)
      BY EventsAre
    <3>2. Told!name(ents, e.source) \in S /\ c.disc \in Seq(S)
      <4>1. \A i \in DOMAIN e.recips : Told!name(ents, e.recips[i]) \in S
        BY <3>1
      <4> HIDE DEF S
      <4>2. DOMAIN e.recips = 1..Len(e.recips) /\ Len(e.recips) \in Nat
        BY <3>1
      <4> QED BY <1>1, <3>1, <4>1, <4>2 DEF S
    <3> HIDE DEF S
    <3>3. (IF c.kind = "permit" THEN Told!PermitText(c) ELSE Told!DepermitText(c)) # Told!PermissionLine(c)
      <4> DEFINE x == Told!name(ents, e.source)
      <4>1. x \in S /\ c.src = <<x>> /\ ~c.you
        BY <1>1, <1>5, <2>4, <2>5, <3>2
      <4> HIDE DEF x
      <4> QED BY <1>8, <2>4, <2>5, <3>2, <4>1, UntoldDiffers
    <3> QED BY <1>1, <1>8, <2>1, <2>2, <2>3, <2>5, <3>3
  <2> QED BY <1>1, <1>5, <1>8, <2>1, <2>2, <2>3, <2>4, <2>5, PermissionAlike
<1>9. CASE c.kind \in {"appoint", "unappoint"}
  <2>1. /\ Told!formatEventText(e, ents) = IF c.kind = "appoint" THEN Told!AppointText(c) ELSE Told!UnappointText(c)
        /\ Told!OwnWords(e, ents) = Told!AppointmentLine(c)
    BY <1>0, <1>1, <1>9 DEF Told!formatEventText, Told!OwnWords, Told!Presence, Told!Identity, Told!Membership,
                                     Told!Other, Told!Sends
  <2>2. ~Told!Differ(e)
    BY <1>9, <1>13
  <2> QED BY <1>1, <1>9, <2>1, <2>2, AppointmentAlike
<1>10. CASE c.kind \in Told!Other
  <2>1. Told!formatEventText(e, ents) = Told!OtherText(c) /\ Told!OwnWords(e, ents) = Told!OtherLine(c)
    BY <1>0, <1>1, <1>10 DEF Told!formatEventText, Told!OwnWords, Told!Presence, Told!Identity, Told!Membership,
                                     Told!Other, Told!Sends
  <2>2. ~Told!Differ(e)
    BY <1>10, <1>13 DEF Told!Other
  <2> QED BY <1>1, <1>10, <2>1, <2>2, OtherAlike
<1>11. CASE c.kind \in Told!Sends
  <2>1. Told!formatEventText(e, ents) = Told!SendText(c)
    BY <1>0, <1>1, <1>11 DEF Told!formatEventText, Told!Presence, Told!Identity, Told!Membership, Told!Other, Told!Sends
  <2>2. Told!SendText(c)[1] = "plain"
    BY <1>11 DEF Told!Sends, Told!SendText, Told!Plain
  <2> QED BY <1>1, <1>11, <2>1, <2>2
<1>12. CASE c.kind \notin Told!Presence \cup Told!Identity \cup Told!Membership \cup Told!Other
                          \cup Told!Sends \cup {"permit", "depermit", "appoint", "unappoint"}
  <2>1. Told!formatEventText(e, ents) = Told!Plain("[]", c.raw) /\ Told!OwnWords(e, ents) = Told!Plain("[]", c.raw)
    BY <1>0, <1>1, <1>12 DEF Told!formatEventText, Told!OwnWords
  <2>2. ~Told!Differ(e)
    BY <1>12, <1>13 DEF Told!Membership
  <2> QED BY <2>1, <2>2 DEF Told!Plain
<1> QED BY <1>6, <1>7, <1>8, <1>9, <1>10, <1>11, <1>12

\* A queue of whatever elements; what joins it is its last, and what leaves its first.
IsSeq(s) == \E S : s \in Seq(S)

LEMMA SeqJoins ==
    ASSUME NEW s, IsSeq(s), NEW x, NEW t, t = Append(s, x)
    PROVE  /\ IsSeq(t) /\ Len(s) \in Nat /\ DOMAIN s = 1..Len(s) /\ DOMAIN t = 1..Len(s) + 1
           /\ t[Len(s) + 1] = x /\ \A i \in DOMAIN s : t[i] = s[i]
<1>1. PICK S : s \in Seq(S)
  BY DEF IsSeq
<1> DEFINE T == S \cup {x}
<1>2. s \in Seq(T) /\ x \in T
  BY <1>1
<1> HIDE DEF T
<1>3. t \in Seq(T)
  BY <1>2
<1> QED BY <1>2, <1>3 DEF IsSeq

LEMMA SeqLeaves ==
    ASSUME NEW s, IsSeq(s), s # <<>>, NEW t, t = Tail(s)
    PROVE  /\ IsSeq(t) /\ Len(s) \in Nat /\ Len(s) > 0 /\ DOMAIN s = 1..Len(s)
           /\ DOMAIN t = 1..Len(s) - 1
           /\ Head(s) = s[1] /\ \A i \in DOMAIN t : t[i] = s[i + 1]
<1>1. PICK S : s \in Seq(S)
  BY DEF IsSeq
<1> QED BY <1>1 DEF IsSeq

\* The parts of an entity that the status bar shows, and the events that set them.
Fields == {"name", "blurb", "state"}
Sets(e, f) ==
    /\ e.source = Me
    /\ \/ f = "name" /\ e.kind = "rename"
       \/ f = "blurb" /\ e.kind = "blurb"
       \/ f = "state" /\ e.kind \in {"here", "away"}
Value(e, f) == IF f = "state" THEN e.kind ELSE e.value

\* i is the last event of s that sets f; none does.
IsLast(s, i, f) == Sets(s[i].event, f) /\ \A j \in DOMAIN s : j > i => ~Sets(s[j].event, f)
NoneSets(s, f) == \A i \in DOMAIN s : ~Sets(s[i].event, f)

PictureInv ==
    /\ st = [h \in DOMAIN st |-> st[h]]
    /\ Users \subseteq DOMAIN st /\ DOMAIN st \subseteq Told!Handles
    /\ \A h \in DOMAIN st : Told!Entity(st[h])
    /\ Told!Entity(mine) /\ Told!Entity(answer.me)
    /\ answer.is \in {"none", "asked", "sent"} /\ answer = [is |-> answer.is, me |-> answer.me]
    /\ behind \in BOOLEAN

\* An event on its way has every name that who it mentions may be called by.
EventsInv ==
    /\ IsSeq(events)
    /\ \A i \in DOMAIN events :
         /\ events[i].event \in EventSet
         /\ events[i] = [event |-> events[i].event, borne |-> events[i].borne]
         /\ \A h \in Told!Mentioned(events[i].event) : Told!name(st, h) \in events[i].borne[h]
MessagesInv ==
    /\ IsSeq(socket)
    /\ \A i \in DOMAIN socket :
         /\ socket[i].event \in EventSet
         /\ socket[i].text = Told!formatEventText(socket[i].event, socket[i].ents)
         /\ \A h \in Told!Mentioned(socket[i].event) :
              Told!name(socket[i].ents, h) \in socket[i].borne[h]

\* The last event under way that sets a field of ours says what the picture has;
\* if none is under way, so does the answer to /state or what the terminal shows.
FieldInv(f) ==
    /\ \A i \in DOMAIN events : IsLast(events, i, f) => Value(events[i].event, f) = st[Me][f]
    /\ NoneSets(events, f) =>
         \A i \in DOMAIN socket : IsLast(socket, i, f) => Value(socket[i].event, f) = st[Me][f]
    /\ NoneSets(events, f) /\ NoneSets(socket, f) /\ ~behind =>
         /\ answer.is = "none" /\ mine # Told!NoEntity => mine[f] = st[Me][f]
         /\ answer.is = "sent" => answer.me[f] = st[Me][f]

ToldInv ==
    /\ PictureInv /\ EventsInv /\ MessagesInv
    /\ \A f \in Fields : FieldInv(f)

LEMMA ToldInit == Told!EventAssumption /\ Told!Init => ToldInv
<1> SUFFICES ASSUME Told!EventAssumption, Told!Init PROVE ToldInv
  OBVIOUS
<1>1. /\ st = Described /\ events = <<>> /\ socket = <<>> /\ mine = Told!NoEntity
      /\ answer = [is |-> "none", me |-> Told!NoEntity] /\ behind = FALSE
  BY DEF Told!Init
<1>2. Told!Entity(Told!NoEntity)
  <2> DEFINE empty == Told!NoText
  <2>1. Told!NoEntity = [name |-> empty, blurb |-> empty, state |-> empty]
    BY DEF Told!NoEntity
  <2> HIDE DEF empty
  <2> QED BY <2>1 DEF Told!Entity
<1>3. PictureInv
  <2>1. Described = [h \in DOMAIN Described |-> Described[h]]
    BY DEF Told!EventAssumption
  <2> QED BY <1>1, <1>2, <2>1 DEF PictureInv, Told!EventAssumption, Told!Handles
<1>4. IsSeq(<<>>) /\ DOMAIN <<>> = {}
  <2>1. <<>> \in Seq({})
    OBVIOUS
  <2> QED BY <2>1 DEF IsSeq
<1>5. EventsInv /\ MessagesInv
  BY <1>1, <1>4 DEF EventsInv, MessagesInv
<1>6. ASSUME NEW f \in Fields PROVE FieldInv(f)
  BY <1>1, <1>4 DEF FieldInv
<1> QED BY <1>3, <1>5, <1>6 DEF ToldInv

\* What an event does to the picture: to our own entity, and to what all are called.
LEMMA Applied ==
    ASSUME Told!EventAssumption, PictureInv, NEW e \in EventSet, Told!ApplyNotify(e),
           UNCHANGED <<mine, answer, behind>>
    PROVE  /\ PictureInv'
           /\ \A f \in Fields : st'[Me][f] = IF Sets(e, f) THEN Value(e, f) ELSE st[Me][f]
           /\ \A h \in Told!Handles :
                \/ Told!name(st', h) = Told!name(st, h)
                \/ e.kind = "rename" /\ h = e.source /\ Told!name(st', h) = e.value
                \/ e.kind = "destroy" /\ h = Disc /\ Told!name(st', h) = Disc
<1>1. /\ Me \in Users /\ Disc \notin Users /\ Users \subseteq DOMAIN st /\ DOMAIN st \subseteq Told!Handles
      /\ \A h \in DOMAIN st : Told!Entity(st[h])
      /\ Told!Handles = Users \cup {Disc}
  BY DEF Told!EventAssumption, PictureInv, Told!Handles
<1>2. SUFFICES
        /\ st' = [h \in DOMAIN st' |-> st'[h]] /\ Users \subseteq DOMAIN st' /\ DOMAIN st' \subseteq DOMAIN st
        /\ \A h \in DOMAIN st' : Told!Entity(st'[h])
        /\ \A f \in Fields : st'[Me][f] = IF Sets(e, f) THEN Value(e, f) ELSE st[Me][f]
        /\ \A h \in DOMAIN st' : st'[h].name = st[h].name
                                 \/ (e.kind = "rename" /\ h = e.source /\ st'[h].name = e.value)
        /\ \A h \in DOMAIN st \ DOMAIN st' : e.kind = "destroy" /\ h = Disc
  BY <1>1 DEF PictureInv, Told!name
<1>3. CASE e.kind = "rename"
  <2>1. st' = [st EXCEPT ![e.source].name = e.value]
    BY <1>3 DEF Told!ApplyNotify
  <2>2. /\ DOMAIN st' = DOMAIN st /\ st' = [h \in DOMAIN st' |-> st'[h]]
        /\ \A h \in DOMAIN st : h # e.source => st'[h] = st[h]
        /\ e.source \in DOMAIN st => st'[e.source] = [st[e.source] EXCEPT !.name = e.value]
    BY <2>1 DEF PictureInv
  <2>3. e.source \in DOMAIN st =>
          /\ Told!Entity(st'[e.source]) /\ st'[e.source].name = e.value
          /\ \A f \in Fields \ {"name"} : st'[e.source][f] = st[e.source][f]
    BY <1>1, <2>2 DEF Told!Entity, Fields
  <2> QED BY <1>1, <1>3, <2>2, <2>3 DEF Fields, Sets, Value
<1>4. CASE e.kind = "blurb"
  <2>1. st' = [st EXCEPT ![e.source].blurb = e.value]
    BY <1>4 DEF Told!ApplyNotify
  <2>2. /\ DOMAIN st' = DOMAIN st /\ st' = [h \in DOMAIN st' |-> st'[h]]
        /\ \A h \in DOMAIN st : h # e.source => st'[h] = st[h]
        /\ e.source \in DOMAIN st => st'[e.source] = [st[e.source] EXCEPT !.blurb = e.value]
    BY <2>1 DEF PictureInv
  <2>3. e.source \in DOMAIN st =>
          /\ Told!Entity(st'[e.source]) /\ st'[e.source].blurb = e.value
          /\ \A f \in Fields \ {"blurb"} : st'[e.source][f] = st[e.source][f]
    BY <1>1, <2>2 DEF Told!Entity, Fields
  <2> QED BY <1>1, <1>4, <2>2, <2>3 DEF Fields, Sets, Value
<1>5. CASE e.kind \in {"here", "away"}
  <2>1. st' = [st EXCEPT ![e.source].state = e.kind]
    BY <1>5 DEF Told!ApplyNotify
  <2>2. /\ DOMAIN st' = DOMAIN st /\ st' = [h \in DOMAIN st' |-> st'[h]]
        /\ \A h \in DOMAIN st : h # e.source => st'[h] = st[h]
        /\ e.source \in DOMAIN st => st'[e.source] = [st[e.source] EXCEPT !.state = e.kind]
    BY <2>1 DEF PictureInv
  <2>3. e.source \in DOMAIN st =>
          /\ Told!Entity(st'[e.source]) /\ st'[e.source].state = e.kind
          /\ \A f \in Fields \ {"state"} : st'[e.source][f] = st[e.source][f]
    BY <1>1, <2>2 DEF Told!Entity, Fields
  <2> QED BY <1>1, <1>5, <2>2, <2>3 DEF Fields, Sets, Value
<1>6. CASE e.kind = "destroy"
  <2>1. st' = [h \in DOMAIN st \ {e.recips[i] : i \in DOMAIN e.recips} |-> st[h]]
    BY <1>6 DEF Told!ApplyNotify, Told!Restrict
  <2>2. {e.recips[i] : i \in DOMAIN e.recips} \subseteq {Disc}
    <3>1. e.recips \in Seq({Disc})
      BY <1>6, EventsAre
    <3> QED BY <3>1
  <2> QED BY <1>1, <1>6, <2>1, <2>2 DEF Fields, Sets
<1>7. CASE e.kind \notin {"rename", "blurb", "here", "away", "destroy"}
  <2>1. st' = st
    BY <1>7 DEF Told!ApplyNotify
  <2> QED BY <1>1, <1>7, <2>1 DEF Fields, Sets, PictureInv
<1> QED BY <1>3, <1>4, <1>5, <1>6, <1>7

\* Lily tells of an event: it is applied, and joins those under way.
LEMMA HappensStep ==
    ASSUME Told!EventAssumption, ToldInv, NEW e \in EventSet, Told!Happens(e)
    PROVE  ToldInv'
<1>1. Told!ApplyNotify(e) /\ UNCHANGED <<socket, mine, answer, behind>>
  BY DEF Told!Happens
<1>2. /\ PictureInv'
      /\ \A f \in Fields : st'[Me][f] = IF Sets(e, f) THEN Value(e, f) ELSE st[Me][f]
      /\ \A h \in Told!Handles :
           \/ Told!name(st', h) = Told!name(st, h)
           \/ e.kind = "rename" /\ h = e.source /\ Told!name(st', h) = e.value
           \/ e.kind = "destroy" /\ h = Disc /\ Told!name(st', h) = Disc
  BY <1>1, Applied DEF ToldInv
<1> DEFINE after == [h \in DOMAIN Described |->
                       IF e.kind = "rename" /\ h = e.source THEN {e.value}
                       ELSE IF e.kind = "destroy" /\ h = Disc THEN {Disc} ELSE {}]
           Later(item) == [item EXCEPT !.borne = [h \in DOMAIN Described |-> item.borne[h] \cup after[h]]]
           last == [event |-> e,
                    borne |-> [h \in DOMAIN Described |-> {Told!name(st', h)}]]
           old == [i \in DOMAIN events |-> Later(events[i])]
<1>3. events' = Append(old, last)
  BY DEF Told!Happens
<1>4. DOMAIN Described = Told!Handles
  BY DEF Told!EventAssumption
<1>5. \A h \in Told!Handles : Told!name(st', h) = Told!name(st, h) \/ Told!name(st', h) \in after[h]
  BY <1>2, <1>4
<1> HIDE DEF after
<1>6. ASSUME NEW item, item.event \in EventSet,
             item = [event |-> item.event, borne |-> item.borne],
             \A h \in Told!Mentioned(item.event) : Told!name(st, h) \in item.borne[h]
      PROVE  /\ Later(item).event = item.event
             /\ Later(item) = [event |-> Later(item).event, borne |-> Later(item).borne]
             /\ \A h \in Told!Mentioned(item.event) : Told!name(st', h) \in Later(item).borne[h]
  <2> DEFINE more == [h \in DOMAIN Described |-> item.borne[h] \cup after[h]]
  <2>1. \A h \in Told!Mentioned(item.event) : Told!name(st', h) \in more[h]
    <3>1. Told!Mentioned(item.event) \subseteq Told!Handles
      BY <1>6, EventsAre
    <3> QED BY <1>4, <1>5, <1>6, <3>1
  <2>2. Later(item) = [item EXCEPT !.borne = more]
    OBVIOUS
  <2> HIDE DEF more, Later
  <2>3. Later(item) = [event |-> item.event, borne |-> more]
    BY <1>6, <2>2
  <2> QED BY <2>1, <2>3
<1>7. /\ last.event = e
      /\ last = [event |-> last.event, borne |-> last.borne]
      /\ \A h \in Told!Mentioned(e) : Told!name(st', h) \in last.borne[h]
  <2>1. Told!Mentioned(e) \subseteq Told!Handles
    BY EventsAre
  <2> DEFINE names == [h \in DOMAIN Described |-> {Told!name(st', h)}]
  <2>2. \A h \in Told!Mentioned(e) : Told!name(st', h) \in names[h]
    BY <1>4, <2>1
  <2> HIDE DEF names
  <2>3. last = [event |-> e, borne |-> names]
    BY DEF names
  <2> HIDE DEF last
  <2> QED BY <2>2, <2>3
<1>8. \A i \in DOMAIN events :
         /\ old[i] = Later(events[i]) /\ old[i].event = events[i].event
         /\ old[i] = [event |-> old[i].event, borne |-> old[i].borne]
         /\ \A h \in Told!Mentioned(events[i].event) : Told!name(st', h) \in old[i].borne[h]
  <2> HIDE DEF Later
  <2> QED BY <1>6 DEF ToldInv, EventsInv
<1>9. IsSeq(old) /\ DOMAIN old = DOMAIN events
  <2>1. PICK S : events \in Seq(S)
    BY DEF ToldInv, EventsInv, IsSeq
  <2> DEFINE T == {Later(x) : x \in S}
  <2>2. old \in Seq(T)
    <3> HIDE DEF Later
    <3>1. \A i \in DOMAIN events : Later(events[i]) \in T
      BY <2>1
    <3> HIDE DEF T
    <3> QED BY <2>1, <3>1
  <2> HIDE DEF T, Later
  <2> QED BY <2>2 DEF IsSeq
<1> HIDE DEF Later, last, old
<1>10. /\ IsSeq(events') /\ Len(old) \in Nat /\ DOMAIN old = 1..Len(old) /\ DOMAIN events' = 1..Len(old) + 1
       /\ events'[Len(old) + 1] = last /\ \A i \in DOMAIN old : events'[i] = old[i]
  <2>1. PICK t : t = events'
    OBVIOUS
  <2>2. t = Append(old, last)
    BY <1>3, <2>1
  <2>3. PICK s : s = old
    OBVIOUS
  <2>4. PICK x : x = last
    OBVIOUS
  <2>5. IsSeq(s) /\ t = Append(s, x)
    BY <1>9, <2>2, <2>3, <2>4
  <2>6. /\ IsSeq(t) /\ Len(s) \in Nat /\ DOMAIN s = 1..Len(s) /\ DOMAIN t = 1..Len(s) + 1
        /\ t[Len(s) + 1] = x /\ \A i \in DOMAIN s : t[i] = s[i]
    <3>1. IsSeq(t)
      BY <2>5, SeqJoins
    <3>2. Len(s) \in Nat /\ DOMAIN s = 1..Len(s)
      BY <2>5, SeqJoins
    <3>3. DOMAIN t = 1..Len(s) + 1
      BY <2>5, SeqJoins
    <3>4. t[Len(s) + 1] = x
      BY <2>5, SeqJoins
    <3>5. \A i \in DOMAIN s : t[i] = s[i]
      BY <2>5, SeqJoins
    <3> QED BY <3>1, <3>2, <3>3, <3>4, <3>5
  <2> QED BY <2>1, <2>3, <2>4, <2>6
<1>11. /\ \A i \in DOMAIN events : i \in DOMAIN events' /\ events'[i] = old[i] /\ i < Len(old) + 1
       /\ \A i \in DOMAIN events' : i \in DOMAIN events \/ i = Len(old) + 1
  BY <1>9, <1>10
<1>12. EventsInv'
  <2>1. ASSUME NEW i \in DOMAIN events'
        PROVE  /\ events'[i].event \in EventSet
               /\ events'[i] = [event |-> events'[i].event, borne |-> events'[i].borne]
               /\ \A h \in Told!Mentioned(events'[i].event) : Told!name(st', h) \in events'[i].borne[h]
    BY <1>7, <1>8, <1>10, <1>11 DEF ToldInv, EventsInv
  <2> QED BY <1>10, <2>1 DEF EventsInv, EventSet, Told!name, Told!Mentioned
<1>13. MessagesInv'
  BY <1>1 DEF ToldInv, MessagesInv
<1>14. ASSUME NEW f \in Fields PROVE FieldInv(f)'
  <2>1. FieldInv(f)
    BY DEF ToldInv
  <2>2. events'[Len(old) + 1].event = e /\ Len(old) + 1 \in DOMAIN events'
    BY <1>7, <1>10
  <2>3. \A i \in DOMAIN events : events'[i].event = events[i].event
    BY <1>8, <1>11
  <2>4. CASE Sets(e, f)
    <3>1. st'[Me][f] = Value(e, f)
      BY <1>2, <2>4
    <3>2. ~NoneSets(events', f)
      BY <2>2, <2>4 DEF NoneSets
    <3>3. \A i \in DOMAIN events' : IsLast(events', i, f) => i = Len(old) + 1
      BY <1>11, <2>2, <2>4 DEF IsLast
    <3> QED BY <2>2, <3>1, <3>2, <3>3 DEF FieldInv
  <2>5. CASE ~Sets(e, f)
    <3>1. st'[Me][f] = st[Me][f]
      BY <1>2, <2>5
    <3>2. NoneSets(events', f) => NoneSets(events, f)
      BY <1>11, <2>3 DEF NoneSets
    <3>3. \A i \in DOMAIN events' : IsLast(events', i, f) => i \in DOMAIN events /\ IsLast(events, i, f)
      BY <1>11, <2>2, <2>3, <2>5 DEF IsLast
    <3> QED BY <1>1, <2>1, <2>3, <3>1, <3>2, <3>3 DEF FieldInv
  <2> QED BY <2>4, <2>5
<1> QED BY <1>2, <1>12, <1>13, <1>14 DEF ToldInv

\* fanOut puts the first event into words, with the picture as it is by now.
LEMMA FanOutStep ==
    ASSUME Told!EventAssumption, ToldInv, Told!fanOut
    PROVE  ToldInv'
<1>1. /\ events # <<>> /\ events' = Tail(events) /\ socket' = Append(socket, Told!msgToWS(Head(events)))
      /\ UNCHANGED <<st, mine, answer, behind>>
  BY DEF Told!fanOut
<1>2. PICK m : m = Told!msgToWS(Head(events))
  OBVIOUS
<1>3. /\ IsSeq(events') /\ Len(events) \in Nat /\ Len(events) > 0 /\ DOMAIN events = 1..Len(events)
      /\ DOMAIN events' = 1..Len(events) - 1 /\ Head(events) = events[1]
      /\ \A i \in DOMAIN events' : events'[i] = events[i + 1]
  <2>1. PICK s : s = events
    OBVIOUS
  <2>2. PICK t : t = events'
    OBVIOUS
  <2>3. IsSeq(s) /\ s # <<>> /\ t = Tail(s)
    BY <1>1, <2>1, <2>2 DEF ToldInv, EventsInv
  <2>4. IsSeq(t) /\ Len(s) \in Nat /\ Len(s) > 0 /\ DOMAIN s = 1..Len(s)
    BY <2>3, SeqLeaves
  <2>5. DOMAIN t = 1..Len(s) - 1 /\ Head(s) = s[1]
    BY <2>3, SeqLeaves
  <2>6. \A i \in DOMAIN t : t[i] = s[i + 1]
    BY <2>3, SeqLeaves
  <2> QED BY <2>1, <2>2, <2>4, <2>5, <2>6
<1>4. /\ IsSeq(socket') /\ Len(socket) \in Nat /\ DOMAIN socket = 1..Len(socket)
      /\ DOMAIN socket' = 1..Len(socket) + 1 /\ socket'[Len(socket) + 1] = m
      /\ \A i \in DOMAIN socket : socket'[i] = socket[i]
  <2>1. PICK s : s = socket
    OBVIOUS
  <2>2. PICK t : t = socket'
    OBVIOUS
  <2>3. IsSeq(s) /\ t = Append(s, m)
    BY <1>1, <1>2, <2>1, <2>2 DEF ToldInv, MessagesInv
  <2>4. IsSeq(t) /\ Len(s) \in Nat /\ DOMAIN s = 1..Len(s)
    BY <2>3, SeqJoins
  <2>5. DOMAIN t = 1..Len(s) + 1
    BY <2>3, SeqJoins
  <2>6. t[Len(s) + 1] = m
    BY <2>3, SeqJoins
  <2>7. \A i \in DOMAIN s : t[i] = s[i]
    BY <2>3, SeqJoins
  <2> QED BY <2>1, <2>2, <2>4, <2>5, <2>6, <2>7
<1>5. /\ events[1].event \in EventSet
      /\ \A h \in Told!Mentioned(events[1].event) : Told!name(st, h) \in events[1].borne[h]
  BY <1>3 DEF ToldInv, EventsInv
<1>6. /\ m.event = events[1].event /\ m.borne = events[1].borne
      /\ m.text = Told!formatEventText(m.event, m.ents)
      /\ m.ents = [h \in Told!Mentioned(m.event) \cap DOMAIN st |-> st[h]]
  BY <1>2, <1>3 DEF Told!msgToWS, Told!Restrict
<1>7. \A h \in Told!Mentioned(m.event) : Told!name(m.ents, h) \in m.borne[h]
  BY <1>5, <1>6 DEF Told!name
<1>8. PictureInv'
  BY <1>1 DEF ToldInv, PictureInv, Told!Entity
<1>9. EventsInv'
  <2>1. ASSUME NEW i \in DOMAIN events'
        PROVE  /\ events'[i].event \in EventSet
               /\ events'[i] = [event |-> events'[i].event, borne |-> events'[i].borne]
               /\ \A h \in Told!Mentioned(events'[i].event) : Told!name(st', h) \in events'[i].borne[h]
    <3>1. i + 1 \in DOMAIN events /\ events'[i] = events[i + 1]
      BY <1>3
    <3> QED BY <1>1, <3>1 DEF ToldInv, EventsInv
  <2> QED BY <1>3, <2>1 DEF EventsInv, EventSet, Told!name, Told!Mentioned
<1>10. MessagesInv'
  <2>1. ASSUME NEW i \in DOMAIN socket'
        PROVE  /\ socket'[i].event \in EventSet
               /\ socket'[i].text = Told!formatEventText(socket'[i].event, socket'[i].ents)
               /\ \A h \in Told!Mentioned(socket'[i].event) :
                    Told!name(socket'[i].ents, h) \in socket'[i].borne[h]
    <3>1. (i \in DOMAIN socket /\ socket'[i] = socket[i]) \/ socket'[i] = m
      BY <1>4
    <3> QED BY <1>5, <1>6, <1>7, <3>1 DEF ToldInv, MessagesInv
  <2> QED BY <1>4, <2>1 DEF MessagesInv, EventSet
<1>11. ASSUME NEW f \in Fields PROVE FieldInv(f)'
  <2>1. FieldInv(f)
    BY DEF ToldInv
  <2>2. \A i \in DOMAIN events' : i + 1 \in DOMAIN events /\ events'[i] = events[i + 1]
    BY <1>3
  <2>3. \A i \in DOMAIN events : i = 1 \/ (i - 1 \in DOMAIN events' /\ events'[i - 1] = events[i])
    BY <1>3
  <2>4. ASSUME NEW i \in DOMAIN events', IsLast(events', i, f) PROVE IsLast(events, i + 1, f)
    <3>1. ASSUME NEW j \in DOMAIN events, j > i + 1 PROVE ~Sets(events[j].event, f)
      <4>1. j - 1 \in DOMAIN events' /\ events'[j - 1] = events[j] /\ j - 1 > i
        BY <1>3, <2>3, <3>1
      <4> QED BY <2>4, <4>1 DEF IsLast
    <3> QED BY <2>2, <2>4, <3>1 DEF IsLast
  <2>5. NoneSets(events', f) /\ Sets(m.event, f) => 1 \in DOMAIN events /\ IsLast(events, 1, f)
    BY <1>3, <1>6, <2>3 DEF IsLast, NoneSets
  <2>6. NoneSets(events', f) /\ ~Sets(m.event, f) => NoneSets(events, f)
    BY <1>6, <2>3 DEF NoneSets
  <2>7. ASSUME NEW i \in DOMAIN socket', IsLast(socket', i, f)
        PROVE  \/ socket'[i] = m /\ Sets(m.event, f)
               \/ ~Sets(m.event, f) /\ i \in DOMAIN socket /\ IsLast(socket, i, f)
    BY <1>4, <2>7 DEF IsLast
  <2>8. NoneSets(socket', f) => NoneSets(socket, f) /\ ~Sets(m.event, f)
    BY <1>4 DEF NoneSets
  <2>9. \A i \in DOMAIN events' : IsLast(events', i, f) => Value(events'[i].event, f) = st[Me][f]
    BY <2>1, <2>2, <2>4 DEF FieldInv
  <2>10. ASSUME NoneSets(events', f), NEW i \in DOMAIN socket', IsLast(socket', i, f)
         PROVE  Value(socket'[i].event, f) = st[Me][f]
    <3>1. CASE Sets(m.event, f)
      BY <1>6, <2>1, <2>5, <2>7, <2>10, <3>1 DEF FieldInv
    <3>2. CASE ~Sets(m.event, f)
      BY <1>4, <2>1, <2>6, <2>7, <2>10, <3>2 DEF FieldInv
    <3> QED BY <3>1, <3>2
  <2>11. NoneSets(events', f) /\ NoneSets(socket', f) /\ ~behind =>
           /\ answer.is = "none" /\ mine # Told!NoEntity => mine[f] = st[Me][f]
           /\ answer.is = "sent" => answer.me[f] = st[Me][f]
    BY <2>1, <2>6, <2>8 DEF FieldInv
  <2> QED BY <1>1, <2>9, <2>10, <2>11 DEF FieldInv
<1> QED BY <1>8, <1>9, <1>10, <1>11 DEF ToldInv

\* The terminal follows the first of its messages.
LEMMA ReceiveStep ==
    ASSUME Told!EventAssumption, ToldInv, Told!Receive
    PROVE  ToldInv'
<1>1. /\ socket # <<>> /\ socket' = Tail(socket) /\ mine' = Told!Followed(Head(socket).event)
      /\ behind' = (behind \/ (answer.is = "sent" /\ Head(socket).event.source = Me))
      /\ UNCHANGED <<st, events, answer>>
  BY DEF Told!Receive
<1>2. /\ IsSeq(socket') /\ Len(socket) \in Nat /\ Len(socket) > 0 /\ DOMAIN socket = 1..Len(socket)
      /\ DOMAIN socket' = 1..Len(socket) - 1 /\ Head(socket) = socket[1]
      /\ \A i \in DOMAIN socket' : socket'[i] = socket[i + 1]
  <2>1. PICK s : s = socket
    OBVIOUS
  <2>2. PICK t : t = socket'
    OBVIOUS
  <2>3. IsSeq(s) /\ s # <<>> /\ t = Tail(s)
    BY <1>1, <2>1, <2>2 DEF ToldInv, MessagesInv
  <2>4. IsSeq(t) /\ Len(s) \in Nat /\ Len(s) > 0 /\ DOMAIN s = 1..Len(s)
    BY <2>3, SeqLeaves
  <2>5. DOMAIN t = 1..Len(s) - 1 /\ Head(s) = s[1]
    BY <2>3, SeqLeaves
  <2>6. \A i \in DOMAIN t : t[i] = s[i + 1]
    BY <2>3, SeqLeaves
  <2> QED BY <2>1, <2>2, <2>4, <2>5, <2>6
<1>3. PICK e : e = socket[1].event
  OBVIOUS
<1>4. /\ mine' = Told!Followed(e)
      /\ behind' = (behind \/ (answer.is = "sent" /\ e.source = Me))
  BY <1>1, <1>2, <1>3
<1>5. /\ Told!Entity(mine') /\ (mine' # Told!NoEntity => mine # Told!NoEntity)
      /\ mine # Told!NoEntity =>
           \A f \in Fields : mine'[f] = IF Sets(e, f) THEN Value(e, f) ELSE mine[f]
  <2>1. Told!Entity(mine)
    BY DEF ToldInv, PictureInv
  <2>2. CASE e.source # Me \/ mine = Told!NoEntity
    BY <1>4, <2>1, <2>2 DEF Told!Followed, Sets
  <2>3. CASE ~(e.source # Me \/ mine = Told!NoEntity)
    <3>1. CASE e.kind = "rename"
      <4>1. mine' = [mine EXCEPT !.name = e.value]
        BY <1>4, <2>3, <3>1 DEF Told!Followed
      <4> QED BY <2>1, <2>3, <3>1, <4>1 DEF Told!Entity, Fields, Sets, Value
    <3>2. CASE e.kind = "blurb"
      <4>1. mine' = [mine EXCEPT !.blurb = e.value]
        BY <1>4, <2>3, <3>2 DEF Told!Followed
      <4> QED BY <2>1, <2>3, <3>2, <4>1 DEF Told!Entity, Fields, Sets, Value
    <3>3. CASE e.kind \in {"here", "away"}
      <4>1. mine' = [mine EXCEPT !.state = e.kind]
        BY <1>4, <2>3, <3>3 DEF Told!Followed
      <4> QED BY <2>1, <2>3, <3>3, <4>1 DEF Told!Entity, Fields, Sets, Value
    <3>4. CASE e.kind \notin {"rename", "blurb", "here", "away"}
      BY <1>4, <2>1, <2>3, <3>4 DEF Told!Followed, Fields, Sets
    <3> QED BY <3>1, <3>2, <3>3, <3>4
  <2> QED BY <2>2, <2>3
<1>6. behind' \in BOOLEAN
  BY <1>4, Zenon
<1>7. PictureInv'
  BY <1>1, <1>5, <1>6 DEF ToldInv, PictureInv, Told!Entity
<1>8. EventsInv'
  BY <1>1 DEF ToldInv, EventsInv, EventSet, Told!name, Told!Mentioned
<1>9. MessagesInv'
  <2>1. ASSUME NEW i \in DOMAIN socket'
        PROVE  /\ socket'[i].event \in EventSet
               /\ socket'[i].text = Told!formatEventText(socket'[i].event, socket'[i].ents)
               /\ \A h \in Told!Mentioned(socket'[i].event) :
                    Told!name(socket'[i].ents, h) \in socket'[i].borne[h]
    <3>1. i + 1 \in DOMAIN socket /\ socket'[i] = socket[i + 1]
      BY <1>2
    <3> QED BY <3>1 DEF ToldInv, MessagesInv
  <2> QED BY <1>2, <2>1 DEF MessagesInv, EventSet
<1>10. ASSUME NEW f \in Fields PROVE FieldInv(f)'
  <2>1. FieldInv(f)
    BY DEF ToldInv
  <2>2. \A i \in DOMAIN socket' : i + 1 \in DOMAIN socket /\ socket'[i] = socket[i + 1]
    BY <1>2
  <2>3. \A i \in DOMAIN socket : i = 1 \/ (i - 1 \in DOMAIN socket' /\ socket'[i - 1] = socket[i])
    BY <1>2
  <2>4. ASSUME NEW i \in DOMAIN socket', IsLast(socket', i, f) PROVE IsLast(socket, i + 1, f)
    <3>1. ASSUME NEW j \in DOMAIN socket, j > i + 1 PROVE ~Sets(socket[j].event, f)
      <4>1. j - 1 \in DOMAIN socket' /\ socket'[j - 1] = socket[j] /\ j - 1 > i
        BY <1>2, <2>3, <3>1
      <4> QED BY <2>4, <4>1 DEF IsLast
    <3> QED BY <2>2, <2>4, <3>1 DEF IsLast
  <2>5. NoneSets(socket', f) /\ Sets(e, f) => 1 \in DOMAIN socket /\ IsLast(socket, 1, f)
    BY <1>2, <1>3, <2>3 DEF IsLast, NoneSets
  <2>6. NoneSets(socket', f) /\ ~Sets(e, f) => NoneSets(socket, f)
    BY <1>3, <2>3 DEF NoneSets
  <2>7. \A i \in DOMAIN events : IsLast(events, i, f) => Value(events[i].event, f) = st[Me][f]
    BY <2>1 DEF FieldInv
  <2>8. ASSUME NoneSets(events, f), NEW i \in DOMAIN socket', IsLast(socket', i, f)
        PROVE  Value(socket'[i].event, f) = st[Me][f]
    BY <2>1, <2>2, <2>4, <2>8 DEF FieldInv
  <2>9. ASSUME NoneSets(events, f), NoneSets(socket', f), ~behind'
        PROVE  /\ answer.is = "none" /\ mine' # Told!NoEntity => mine'[f] = st[Me][f]
               /\ answer.is = "sent" => answer.me[f] = st[Me][f]
    <3>1. ~behind /\ ~(answer.is = "sent" /\ e.source = Me)
      BY <1>4, <2>9
    <3>2. CASE Sets(e, f)
      <4>1. Value(e, f) = st[Me][f]
        BY <1>3, <2>1, <2>5, <2>9, <3>2 DEF FieldInv
      <4> QED BY <1>5, <3>1, <3>2, <4>1 DEF Sets
    <3>3. CASE ~Sets(e, f)
      BY <1>5, <2>1, <2>6, <2>9, <3>1, <3>3 DEF FieldInv
    <3> QED BY <3>2, <3>3
  <2> QED BY <1>1, <2>7, <2>8, <2>9 DEF FieldInv
<1> QED BY <1>7, <1>8, <1>9, <1>10 DEF ToldInv

\* GET /state: asked for, answered from the picture, and the answer taken.
LEMMA StateSteps ==
    ASSUME Told!EventAssumption, ToldInv, Told!Ask \/ Told!handleState \/ Told!initialState
    PROVE  ToldInv'
<1>1. UNCHANGED <<st, events, socket>>
  BY DEF Told!Ask, Told!handleState, Told!initialState
<1>2. EventsInv' /\ MessagesInv'
  BY <1>1 DEF ToldInv, EventsInv, MessagesInv, EventSet, Told!name, Told!Mentioned
<1>3. /\ Me \in DOMAIN st /\ Told!Entity(st[Me]) /\ Told!Entity(mine) /\ Told!Entity(answer.me)
      /\ answer = [is |-> answer.is, me |-> answer.me]
  BY DEF ToldInv, PictureInv, Told!EventAssumption
<1>4. ASSUME PictureInv',
             \A f \in Fields : NoneSets(events, f) /\ NoneSets(socket, f) /\ ~behind' =>
                 /\ answer'.is = "none" /\ mine' # Told!NoEntity => mine'[f] = st[Me][f]
                 /\ answer'.is = "sent" => answer'.me[f] = st[Me][f]
      PROVE  ToldInv'
  <2>1. ASSUME NEW f \in Fields PROVE FieldInv(f)'
    BY <1>1, <1>4 DEF ToldInv, FieldInv
  <2> QED BY <1>2, <1>4, <2>1 DEF ToldInv
<1>5. CASE Told!Ask
  <2>1. answer.is = "none" /\ answer' = [answer EXCEPT !.is = "asked"] /\ behind' = FALSE /\ mine' = mine
    BY <1>5 DEF Told!Ask
  <2>2. answer' = [is |-> "asked", me |-> answer.me]
    BY <1>3, <2>1
  <2>3. PictureInv'
    BY <1>1, <2>1, <2>2 DEF ToldInv, PictureInv, Told!Entity
  <2> QED BY <1>4, <2>2, <2>3
<1>6. CASE Told!handleState
  <2>1. answer' = [is |-> "sent", me |-> st[Me]] /\ UNCHANGED <<mine, behind>>
    BY <1>6 DEF Told!handleState
  <2>2. PictureInv'
    BY <1>1, <1>3, <2>1 DEF ToldInv, PictureInv, Told!Entity
  <2> QED BY <1>4, <2>1, <2>2
<1>7. CASE Told!initialState
  <2>1. /\ answer.is = "sent" /\ mine' = answer.me /\ behind' = behind
        /\ answer' = [is |-> "none", me |-> Told!NoEntity]
    BY <1>7 DEF Told!initialState
  <2>2. Told!Entity(Told!NoEntity)
    <3> DEFINE empty == Told!NoText
    <3>1. Told!NoEntity = [name |-> empty, blurb |-> empty, state |-> empty]
      BY DEF Told!NoEntity
    <3> HIDE DEF empty
    <3> QED BY <3>1 DEF Told!Entity
  <2>3. PictureInv'
    BY <1>1, <1>3, <2>1, <2>2 DEF ToldInv, PictureInv, Told!Entity
  <2>4. \A f \in Fields : NoneSets(events, f) /\ NoneSets(socket, f) /\ ~behind' => mine'[f] = st[Me][f]
    BY <2>1 DEF ToldInv, FieldInv
  <2> QED BY <1>4, <2>1, <2>3, <2>4
<1> QED BY <1>5, <1>6, <1>7

LEMMA ToldStep == Told!EventAssumption /\ ToldInv /\ [Told!Next]_(Told!vars) => ToldInv'
<1> SUFFICES ASSUME Told!EventAssumption, ToldInv, [Told!Next]_(Told!vars) PROVE ToldInv'
  OBVIOUS
<1>1. CASE \E e \in EventSet : Told!Happens(e)
  BY <1>1, HappensStep
<1>2. CASE Told!fanOut
  BY <1>2, FanOutStep
<1>3. CASE Told!Receive
  BY <1>3, ReceiveStep
<1>4. CASE Told!Ask \/ Told!handleState \/ Told!initialState
  BY <1>4, StateSteps
<1>5. CASE UNCHANGED Told!vars
  <2>1. UNCHANGED <<st, events, socket, mine, answer, behind>>
    BY <1>5 DEF Told!vars
  <2>2. PictureInv' /\ EventsInv' /\ MessagesInv'
    BY <2>1 DEF ToldInv, PictureInv, EventsInv, MessagesInv, EventSet, Told!Entity, Told!name, Told!Mentioned
  <2>3. ASSUME NEW f \in Fields PROVE FieldInv(f)'
    BY <2>1 DEF ToldInv, FieldInv, IsLast, NoneSets
  <2> QED BY <2>2, <2>3 DEF ToldInv
<1> QED BY <1>1, <1>2, <1>3, <1>4, <1>5 DEF Told!Next, EventSet

\* Whatever Lily tells of, and however far the picture runs ahead of the events:
\* both sides tell an event that is not a message in the same words exactly if it
\* is none of the two cases of Differ, as a quiet line only if we did it; whoever
\* is mentioned is called by a name borne since the event was applied; and once all
\* is delivered the terminal shows us as the proxy has us, unless an event overtook
\* the answer to /state (eventformat.go, format.go, state.go, ui.go).
THEOREM EventsAlike ==
    ASSUME Told!EventAssumption
    PROVE  Told!Spec => []EventsAreToldAlike
<1>1. Told!Init => ToldInv
  BY ToldInit
<1>2. ToldInv /\ [Told!Next]_(Told!vars) => ToldInv'
  BY ToldStep
<1>3. ToldInv => Told!TextsAgree
  BY TextsAlike DEF ToldInv, MessagesInv, Told!TextsAgree
<1>4. ToldInv => Told!NamesFit
  BY DEF ToldInv, MessagesInv, Told!NamesFit
<1>5. ToldInv => Told!StatusAgrees
  <2> SUFFICES ASSUME ToldInv, events = <<>>, socket = <<>>, answer.is = "none",
                      mine # Told!NoEntity, ~behind
               PROVE  mine = st[Me]
    BY DEF Told!StatusAgrees
  <2>1. \A f \in Fields : mine[f] = st[Me][f]
    <3>1. ASSUME NEW f \in Fields PROVE NoneSets(events, f) /\ NoneSets(socket, f)
      BY DEF NoneSets
    <3> QED BY <3>1 DEF ToldInv, FieldInv
  <2>2. Told!Entity(mine) /\ Told!Entity(st[Me])
    BY DEF ToldInv, PictureInv, Told!EventAssumption
  <2> QED BY <2>1, <2>2 DEF Told!Entity, Fields
<1> QED BY <1>1, <1>2, <1>3, <1>4, <1>5, PTL DEF Told!Spec, Told!EventsAreToldAlike, EventsAreToldAlike
=============================================================================
