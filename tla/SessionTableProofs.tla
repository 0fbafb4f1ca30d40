------------------------- MODULE SessionTableProofs -------------------------
(* Theorems about SessionTable, for any finite set of login attempts; then *)
(* about Housekeeping, for any connections and bounds; and last about      *)
(* AuthLimiter, for any addresses, requests, allowance and times.          *)
EXTENDS Sessions, FiniteSetTheorems, TLAPS

\* How the handler of a login and the goroutine serving its session share the
\* session's life: who is in the table is decided by where the two are.
Phases ==
    \A a \in Attempts :
        /\ fanOut[a] # "off" => pc[a] = "done"
        /\ a \in sessions <=> Counting(a) \/ fanOut[a] \in {"reading", "delete"}

\* The sessions counted and not yet uncounted.
Counting1 == {a \in Attempts : fanOut[a] \in {"reading", "delete", "uncount"}}

CountInv == sessionCount = Cardinality(Counting1)

IInv == TypeOK /\ Phases /\ CountInv

USE TableAssumption

LEMMA InitInv == Init => IInv
<1> SUFFICES ASSUME Init PROVE IInv
  OBVIOUS
<1>1. TypeOK /\ Phases
  BY DEF Init, TypeOK, Phases, Counting
<1>2. Counting1 = {}
  BY DEF Init, Counting1
<1>3. CountInv
  BY <1>2, FS_EmptySet DEF Init, CountInv
<1> QED BY <1>1, <1>3 DEF IInv

\* Steps that leave the counted sessions alone.
LEMMA SameCount ==
    ASSUME CountInv, UNCHANGED sessionCount,
           \A a \in Attempts : fanOut'[a] \in {"reading", "delete", "uncount"}
                               <=> fanOut[a] \in {"reading", "delete", "uncount"}
    PROVE  CountInv'
<1>1. Counting1' = Counting1
  BY DEF Counting1
<1> QED BY <1>1 DEF CountInv

LEMMA HandleAuthInv ==
    ASSUME IInv, NEW a \in Attempts, LookupUser(a) \/ HandleAuth(a)
    PROVE  IInv'
<1> USE DEF IInv
<1>1. CASE LookupUser(a)
  <2>1. CountInv'
    BY <1>1, SameCount DEF LookupUser, tables
  <2> QED BY <1>1, <2>1 DEF LookupUser, tables, TypeOK, Phases, Counting
<1>2. CASE VerifySession(a)
  <2>1. CountInv'
    BY <1>2, SameCount DEF VerifySession, tables
  <2> QED BY <1>2, <2>1 DEF VerifySession, Answer, tables, TypeOK, Refusals, Phases, Counting
<1>3. CASE CheckCap(a)
  <2>1. CountInv'
    BY <1>3, SameCount DEF CheckCap, tables
  <2> QED BY <1>3, <2>1 DEF CheckCap, Answer, tables, TypeOK, Refusals, Phases, Counting
<1>4. CASE Connect(a)
  <2>1. CountInv'
    BY <1>4, SameCount DEF Connect, tables
  <2> QED BY <1>4, <2>1 DEF Connect, tables, TypeOK, Phases, Counting
<1>5. CASE ConnectFails(a)
  <2>1. CountInv'
    BY <1>5, SameCount DEF ConnectFails, tables
  <2> QED BY <1>5, <2>1 DEF ConnectFails, Answer, tables, TypeOK, Refusals, Phases, Counting
<1>6. CASE StoreSession(a)
  <2>1. CountInv'
    BY <1>6, SameCount DEF StoreSession
  <2> QED BY <1>6, <2>1 DEF StoreSession, TypeOK, Phases, Counting
<1>7. CASE StoreUser(a)
  <2>1. CountInv'
    BY <1>7, SameCount DEF StoreUser
  <2> QED BY <1>7, <2>1 DEF StoreUser, TypeOK, Phases, Counting
<1>8. CASE CountUp(a)
  <2>1. a \notin Counting1
    BY <1>8 DEF CountUp, Counting1, Phases
  <2>2. Counting1' = Counting1 \cup {a}
    BY <1>8 DEF CountUp, Counting1, TypeOK
  <2>3. IsFiniteSet(Counting1)
    BY FS_Subset DEF Counting1
  <2>4. Cardinality(Counting1') = Cardinality(Counting1) + 1
    BY <2>1, <2>2, <2>3, FS_AddElement
  <2>5. CountInv'
    BY <1>8, <2>4 DEF CountUp, Counted, CountInv
  <2>6. TypeOK'
    BY <1>8 DEF CountUp, Counted, Answer, TypeOK
  <2>7. Phases'
    BY <1>8 DEF CountUp, Answer, TypeOK, Phases, Counting
  <2> QED BY <2>5, <2>6, <2>7
<1> QED BY <1>1, <1>2, <1>3, <1>4, <1>5, <1>6, <1>7, <1>8 DEF HandleAuth

LEMMA FanOutInv ==
    ASSUME IInv, NEW a \in Attempts, FanOut(a) \/ LinkDrops(a)
    PROVE  IInv'
<1> USE DEF IInv
<1>1. CASE LinkDrops(a)
  <2>1. CountInv'
    BY <1>1, SameCount DEF LinkDrops, tables
  <2> QED BY <1>1, <2>1 DEF LinkDrops, tables, TypeOK, Phases, Counting
<1>2. CASE EventsEnd(a)
  <2>1. CountInv'
    BY <1>2, SameCount DEF EventsEnd, tables, TypeOK
  <2> QED BY <1>2, <2>1 DEF EventsEnd, tables, TypeOK, Phases, Counting
<1>3. CASE DeleteSession(a)
  <2>1. a \in sessions
    BY <1>3 DEF DeleteSession, Phases
  <2>2. CountInv'
    BY <1>3, <2>1, SameCount DEF DeleteSession, TypeOK
  <2>3. Phases'
    BY <1>3, <2>1 DEF DeleteSession, TypeOK, Phases, Counting
  <2> QED BY <1>3, <2>2, <2>3 DEF DeleteSession, TypeOK
<1>4. CASE CountDown(a)
  <2>1. a \in Counting1 /\ Counting1' = Counting1 \ {a}
    BY <1>4 DEF CountDown, Counting1, TypeOK
  <2>2. IsFiniteSet(Counting1)
    BY FS_Subset DEF Counting1
  <2>3. Cardinality(Counting1') = Cardinality(Counting1) - 1
    BY <2>1, <2>2, FS_RemoveElement
  <2>4. Cardinality(Counting1') \in Nat
    BY <2>1, <2>2, FS_RemoveElement, FS_CardinalityType
  <2>5. CountInv' /\ sessionCount' \in Nat
    BY <1>4, <2>3, <2>4 DEF CountDown, Uncounted, CountInv
  <2> QED BY <1>4, <2>5 DEF CountDown, TypeOK, Phases, Counting
<1>5. CASE ForgetUser(a)
  <2>1. CountInv'
    BY <1>5, SameCount DEF ForgetUser, TypeOK
  <2> QED BY <1>5, <2>1 DEF ForgetUser, Forgotten, TypeOK, Phases, Counting
<1> QED BY <1>1, <1>2, <1>3, <1>4, <1>5 DEF FanOut

LEMMA NextInv == IInv /\ [Next]_vars => IInv'
<1> SUFFICES ASSUME IInv, [Next]_vars PROVE IInv'
  OBVIOUS
<1>1. CASE Next
  BY <1>1, HandleAuthInv, FanOutInv DEF Next
<1>2. CASE UNCHANGED vars
  BY <1>2 DEF vars, tables, IInv, TypeOK, Phases, Counting, CountInv, Counting1
<1> QED BY <1>1, <1>2

\* The counter the cap is checked against is exact up to the logins and
\* teardowns in progress: it never drifts.
THEOREM CountIsExact == Spec => []CountTracksSessions
<1>1. ASSUME IInv PROVE CountTracksSessions
  <2> DEFINE C == {a \in Attempts : Counting(a)}
             R == {a \in Attempts : fanOut[a] \in {"reading", "delete"}}
             U == {a \in Attempts : fanOut[a] = "uncount"}
  <2>1. IsFiniteSet(C) /\ IsFiniteSet(R) /\ IsFiniteSet(U)
    BY FS_Subset
  <2>2. sessions = C \cup R /\ C \cap R = {}
    BY <1>1 DEF IInv, TypeOK, Phases, Counting
  <2>3. Counting1 = R \cup U /\ R \cap U = {}
    BY DEF Counting1
  <2>4. sessionCount = Cardinality(Counting1)
    BY <1>1 DEF IInv, CountInv
  <2>5. CountTracksSessions <=>
          sessionCount = Cardinality(sessions) - Cardinality(C) + Cardinality(U)
    BY DEF CountTracksSessions
  <2> HIDE DEF C, R, U
  <2>6. /\ Cardinality(C) \in Nat
        /\ Cardinality(R) \in Nat
        /\ Cardinality(U) \in Nat
        /\ Cardinality({}) = 0
    BY <2>1, FS_CardinalityType, FS_EmptySet
  <2>7. Cardinality(sessions) = Cardinality(C) + Cardinality(R) - Cardinality({})
    BY <2>1, <2>2, FS_Union
  <2>8. Cardinality(Counting1) = Cardinality(R) + Cardinality(U) - Cardinality({})
    BY <2>1, <2>3, FS_Union
  <2> QED BY <2>4, <2>5, <2>6, <2>7, <2>8
<1> QED BY InitInv, NextInv, <1>1, PTL DEF Spec

-----------------------------------------------------------------------------
\* What the two maps and the handlers know of each other's tokens.
TokenInv ==
    /\ \A u \in Users : userTokens[u] # None => userOf[userTokens[u]] = u
    /\ \A a \in Attempts : pc[a] = "verify" =>
          found[a] # None /\ userOf[found[a]] = userOf[a]
    /\ \A a \in Attempts : pc[a] \in {"store", "index", "count"} => a \in Correct

LEMMA NotTokens == \A r \in Refusals : r \notin Attempts
BY TableAssumption

LEMMA TokenStep ==
    ASSUME IInv, TokenInv, TokenNeedsItsPassword, NoDanglingUserToken, [Next]_vars
    PROVE  TokenInv' /\ TokenNeedsItsPassword' /\ NoDanglingUserToken'
<1> USE DEF IInv, TypeOK, TokenInv, TokenNeedsItsPassword, NoDanglingUserToken, tables, Refusals
<1>1. ASSUME NEW a \in Attempts, LookupUser(a) \/ HandleAuth(a)
      PROVE  TokenInv' /\ TokenNeedsItsPassword' /\ NoDanglingUserToken'
  <2>1. CASE LookupUser(a)
    BY <2>1 DEF LookupUser
  <2>2. CASE VerifySession(a)
    BY <2>2, NotTokens DEF VerifySession, Answer, Matches
  <2>3. CASE CheckCap(a)
    BY <2>3, NotTokens DEF CheckCap, Answer
  <2>4. CASE Connect(a)
    BY <2>4 DEF Connect
  <2>5. CASE ConnectFails(a)
    BY <2>5, NotTokens DEF ConnectFails, Answer
  <2>6. CASE StoreSession(a)
    BY <2>6 DEF StoreSession
  <2>7. CASE StoreUser(a)
    <3>1. a \in sessions
      BY <2>7 DEF StoreUser, Phases, Counting
    <3> QED BY <2>7, <3>1 DEF StoreUser
  <2>8. CASE CountUp(a)
    <3>1. fanOut[a] = "off" /\ a \in Correct
      BY <2>8 DEF CountUp, Phases
    <3> QED BY <2>8, <3>1 DEF CountUp, Answer
  <2> QED BY <1>1, <2>1, <2>2, <2>3, <2>4, <2>5, <2>6, <2>7, <2>8 DEF HandleAuth
<1>2. ASSUME NEW a \in Attempts, FanOut(a) \/ LinkDrops(a)
      PROVE  TokenInv' /\ TokenNeedsItsPassword' /\ NoDanglingUserToken'
  <2>1. CASE LinkDrops(a)
    BY <2>1 DEF LinkDrops
  <2>2. CASE EventsEnd(a)
    BY <2>2 DEF EventsEnd
  <2>3. CASE DeleteSession(a)
    <3>1. a \in sessions
      BY <2>3 DEF DeleteSession, Phases
    <3> QED BY <2>3, <3>1 DEF DeleteSession
  <2>4. CASE CountDown(a)
    BY <2>4 DEF CountDown
  <2>5. CASE ForgetUser(a)
    BY <2>5 DEF ForgetUser, Forgotten
  <2> QED BY <1>2, <2>1, <2>2, <2>3, <2>4, <2>5 DEF FanOut
<1>3. CASE UNCHANGED vars
  BY <1>3 DEF vars
<1> QED BY <1>1, <1>2, <1>3 DEF Next

LEMMA TokenInit == Init => TokenInv /\ TokenNeedsItsPassword /\ NoDanglingUserToken
BY DEF Init, TokenInv, TokenNeedsItsPassword, NoDanglingUserToken

\* Whatever logins race, a token is handed only to a caller who gave the
\* password of the user whose session it is.
THEOREM TokensAreGuarded == Spec => []TokenNeedsItsPassword
BY InitInv, NextInv, TokenInit, TokenStep, PTL DEF Spec

\* The user index never outlives a session's teardown.
THEOREM NoTokenDangles == Spec => []NoDanglingUserToken
BY InitInv, NextInv, TokenInit, TokenStep, PTL DEF Spec

-----------------------------------------------------------------------------
(* The report of the connected clients, which runs beside the table            *)
(* (Housekeeping).                                                              *)

\* What a report made now would say.
Present == {ident[c] : c \in subscribers}

\* With no report to come, nothing newer is known than what the last one found.
NewestWins ==
    reports = {} =>
        /\ DOMAIN collected = {} => verString = Present
        /\ \A call \in DOMAIN collected : collected[call] = Present

ReportInv ==
    /\ \A call, other \in DOMAIN collected : call = other
    /\ NewestWins
    /\ verAnnounced /\ up => verSent = verString

LEMMA ReportInit == Chores!Init => ReportInv
BY DEF Chores!Init, ReportInv, NewestWins, Present

\* Whoever comes or goes leaves a report to be made.
LEMMA ComeAndGo ==
    ASSUME ReportInv, NEW c \in Connections, Chores!Subscribe(c) \/ Chores!Unsubscribe(c)
    PROVE  ReportInv'
<1>1. reports' # {}
  BY DEF Chores!Subscribe, Chores!Unsubscribe
<1>2. UNCHANGED <<collected, verString, verSent, verAnnounced, up>>
  BY DEF Chores!Subscribe, Chores!Unsubscribe, Chores!version
<1> QED BY <1>1, <1>2 DEF ReportInv, NewestWins

\* The mutex is held while the clients are read and Lily is told: one report at a
\* time, and the one that reads last is told last.
LEMMA MakeReport ==
    ASSUME ReportInv, NEW call \in Chores!Calls,
           Chores!Collect(call) \/ Chores!SetClientVersion(call)
    PROVE  ReportInv'
<1>1. CASE Chores!Collect(call)
  <2> USE <1>1 DEF Chores!Collect, Chores!MayCollect
  <2>1. DOMAIN collected' = {call} /\ collected'[call] = Present
    BY DEF Present
  <2>2. Present' = Present
    BY DEF Present
  <2>3. UNCHANGED <<verString, verSent, verAnnounced, up>>
    BY DEF Chores!version
  <2> QED BY <2>1, <2>2, <2>3 DEF ReportInv, NewestWins
<1>2. CASE Chores!SetClientVersion(call)
  <2> USE <1>2 DEF Chores!SetClientVersion
  <2>1. DOMAIN collected' = {}
    BY DEF ReportInv
  <2>2. Present' = Present
    BY DEF Present
  <2>3. reports = {} => verString' = Present
    BY DEF ReportInv, NewestWins
  <2>4. verAnnounced' /\ up' => verSent' = verString'
    BY DEF Chores!SendVersion
  <2> QED BY <2>1, <2>2, <2>3, <2>4 DEF ReportInv, NewestWins
<1> QED BY <1>1, <1>2

LEMMA ReportStep == ReportInv /\ [Chores!Next]_(Chores!vars) => ReportInv'
<1> SUFFICES ASSUME ReportInv, [Chores!Next]_(Chores!vars) PROVE ReportInv'
  OBVIOUS
<1>1. CASE \E c \in Connections : Chores!Subscribe(c) \/ Chores!Unsubscribe(c)
  BY <1>1, ComeAndGo
<1>2. CASE Chores!Report
  BY <1>2, MakeReport DEF Chores!Report
<1>3. CASE Chores!AnnounceVersion
  <2>1. UNCHANGED <<reports, collected, verString, subscribers>>
    BY <1>3 DEF Chores!AnnounceVersion, Chores!reporting
  <2>2. verSent' = verString
    BY <1>3 DEF Chores!AnnounceVersion, Chores!SendVersion
  <2> QED BY <2>1, <2>2 DEF ReportInv, NewestWins, Present
<1>4. CASE Chores!LilyLost
  <2>1. UNCHANGED <<reports, collected, verString, subscribers>> /\ ~up'
    BY <1>4 DEF Chores!LilyLost, Chores!reporting, Chores!version
  <2> QED BY <2>1 DEF ReportInv, NewestWins, Present
<1>5. CASE \/ Chores!Keepalive \/ Chores!LilyAnswers \/ Chores!ReadPong \/ Chores!Settles
           \/ UNCHANGED Chores!vars
  <2>1. UNCHANGED <<reports, collected, verString, verSent, verAnnounced, up, subscribers>>
    BY <1>5 DEF Chores!Keepalive, Chores!Ping, Chores!PongTimeout, Chores!LilyAnswers,
                Chores!ReadPong, Chores!Settles, Chores!vars, Chores!reporting, Chores!version
  <2> QED BY <2>1 DEF ReportInv, NewestWins, Present
<1> QED BY <1>1, <1>2, <1>3, <1>4, <1>5 DEF Chores!Next

\* However reports of arrivals and of departures overlap and wait for the login,
\* once none is to come Lily was last told of exactly the clients connected.
THEOREM ReportStaysCurrent == Chores!Spec => []LilyKnowsWhoIsConnected
<1>1. ReportInv => LilyKnowsWhoIsConnected
  BY DEF LilyKnowsWhoIsConnected, ReportInv, NewestWins, Present, Chores!LilyKnowsWhoIsConnected
<1> QED BY <1>1, ReportInit, ReportStep, PTL DEF Chores!Spec


-----------------------------------------------------------------------------
(* The limiter that stands before the logins (AuthLimiter).                  *)

\* The failures of S that client c made from lo to hi.
Count(S, c, lo, hi) == Cardinality({f \in S : f[1] = c /\ f[2] \in lo..hi})

LEMMA SameCardinality == /\ \A S : Limiter!Cardinality(S) = Cardinality(S)
                         /\ \A S : Limiter!IsFiniteSet(S) <=> IsFiniteSet(S)
<1>1. \A S : Limiter!IsFiniteSet(S) <=> IsFiniteSet(S)
  BY Zenon DEF Limiter!IsFiniteSet, IsFiniteSet
<1>2. \A S : Limiter!Cardinality(S) = Cardinality(S)
  BY Zenon DEF Limiter!Cardinality, Cardinality
<1> QED BY <1>1, <1>2

LEMMA FailuresAreCounted == \A c, lo, hi : Limiter!Failures(c, lo, hi) = Count(failed, c, lo, hi)
BY SameCardinality, Zenon DEF Limiter!Failures, Count

\* A stretch that holds another's failures has as many at least.
LEMMA CountMore ==
    ASSUME NEW S, IsFiniteSet(S), NEW c, NEW lo, NEW hi, NEW from, NEW to,
           \A f \in S : f[2] \in lo..hi => f[2] \in from..to
    PROVE  /\ Count(S, c, lo, hi) \in Nat /\ Count(S, c, from, to) \in Nat
           /\ Count(S, c, lo, hi) <= Count(S, c, from, to)
<1> DEFINE Few == {f \in S : f[1] = c /\ f[2] \in lo..hi}
           Many == {f \in S : f[1] = c /\ f[2] \in from..to}
<1>1. Few \subseteq Many /\ Many \subseteq S
  OBVIOUS
<1>2. IsFiniteSet(Many)
  BY <1>1, FS_Subset
<1>3. Cardinality(Few) \in Nat /\ Cardinality(Many) \in Nat /\ Cardinality(Few) <= Cardinality(Many)
  <2> HIDE DEF Few, Many
  <2> QED BY <1>1, <1>2, FS_Subset, FS_CardinalityType
<1> QED BY <1>3, Zenon DEF Count

LEMMA CountNone ==
    ASSUME NEW S, NEW c, NEW lo, NEW hi, \A f \in S : ~(f[1] = c /\ f[2] \in lo..hi)
    PROVE  Count(S, c, lo, hi) = 0
<1>1. {f \in S : f[1] = c /\ f[2] \in lo..hi} = {}
  OBVIOUS
<1> QED BY <1>1, FS_EmptySet, Zenon DEF Count

\* One more failure counts where it was made, ...
MadeBy(f, c, lo, hi) == f[1] = c /\ f[2] \in lo..hi

LEMMA CountNew ==
    ASSUME NEW S, IsFiniteSet(S), NEW e, e \notin S, NEW c, NEW lo, NEW hi, MadeBy(e, c, lo, hi)
    PROVE  Count(S, c, lo, hi) \in Nat /\ Count(S \cup {e}, c, lo, hi) = Count(S, c, lo, hi) + 1
<1> DEFINE Old == {f \in S : f[1] = c /\ f[2] \in lo..hi}
           New == {f \in S \cup {e} : f[1] = c /\ f[2] \in lo..hi}
<1>1. IsFiniteSet(Old)
  <2>1. Old \subseteq S
    OBVIOUS
  <2> QED BY <2>1, FS_Subset
<1>2. New = Old \cup {e} /\ e \notin Old
  BY DEF MadeBy
<1>3. Cardinality(Old) \in Nat /\ Cardinality(New) = Cardinality(Old) + 1
  <2> HIDE DEF Old, New
  <2> QED BY <1>1, <1>2, FS_AddElement, FS_CardinalityType
<1> QED BY <1>3, Zenon DEF Count

\* ... and nowhere else.
LEMMA CountOther ==
    ASSUME NEW S, NEW e, NEW c, NEW lo, NEW hi, ~MadeBy(e, c, lo, hi)
    PROVE  Count(S \cup {e}, c, lo, hi) = Count(S, c, lo, hi)
<1>1. {f \in S \cup {e} : f[1] = c /\ f[2] \in lo..hi} = {f \in S : f[1] = c /\ f[2] \in lo..hi}
  BY DEF MadeBy
<1> QED BY <1>1, Zenon DEF Count

\* A client that gets in is forgiven all of its own.
LEMMA CountForgiven ==
    ASSUME NEW S, NEW d, NEW T, T = {f \in S : f[1] # d}, NEW lo, NEW hi
    PROVE  Count(T, d, lo, hi) = 0
BY CountNone

-----------------------------------------------------------------------------
Quota == maxFailures - 1 + Cardinality(Requests)
Before == IF Quota = 1 THEN 0 ELSE Quota - 2
Records == [failures : Nat, first : Nat, until : Nat]

LEMMA LimiterFacts ==
    ASSUME Limiter!LimiterAssumption
    PROVE  /\ maxFailures \in Nat \ {0} /\ window \in Nat \ {0} /\ lockout \in Nat \ {0}
           /\ MaxTime \in Nat \ {0} /\ window <= lockout
           /\ Cardinality(Requests) \in Nat \ {0} /\ IsFiniteSet(Requests)
           /\ Quota \in Nat \ {0} /\ Before \in Nat /\ Quota = Limiter!Allowance
           /\ Limiter!Nobody \notin Addresses
<1>1. IsFiniteSet(Requests) /\ Requests # {}
  BY SameCardinality DEF Limiter!LimiterAssumption
<1>2. Cardinality(Requests) \in Nat \ {0}
  BY <1>1, FS_CardinalityType, FS_EmptySet
<1>3. Limiter!Allowance = Quota
  BY SameCardinality DEF Limiter!Allowance, Quota
<1> QED BY <1>1, <1>2, <1>3 DEF Limiter!LimiterAssumption, Quota, Before

\* The failures of S that client c made since its record began, after that, in the
\* window about its beginning, and in the window that ends now.
Within(S, c, rec, n) == Count(S, c, rec.first, n)
Later(S, c, rec, n) == Count(S, c, rec.first + 1, n)
Around(S, c, rec, n) == Count(S, c, rec.first - window + 1, n)
Recent(S, c, n) == Count(S, c, n - window + 1, n)

\* What the record of a client, which has k requests under way at time n, says of
\* the failures in S: those it counts and those of the records before it.
RecordOK(rec, S, c, n, k) ==
    /\ rec.failures = 0 => rec = Limiter!NoRecord
    /\ rec.failures > 0 => rec.first \in 1..n
    /\ rec.until # 0 <=> rec.failures >= maxFailures
    /\ rec.failures >= maxFailures => rec.failures + k <= Quota
    /\ rec.failures > 0 => /\ rec.failures <= Within(S, c, rec, n)
                           /\ Later(S, c, rec, n) <= rec.failures - 1
                           /\ Around(S, c, rec, n) <= rec.failures + Before
    /\ rec.failures = 0 => Recent(S, c, n) <= Before

\* A lock is as long as the lockout after the last failure, which was within the
\* window of the first.
LockOK(rec, S, c, n) ==
    LET at == rec.until - lockout IN
    rec.until # 0 =>
        /\ at \in rec.first..n /\ Count(S, c, at + 1, n) = 0
        /\ Count(S, c, at, at) > 0 /\ Count(S, c, at - window, at) >= maxFailures

\* The failures are of the past.
PastOK(S, n) == /\ IsFiniteSet(S) /\ n \in Nat \ {0}
                /\ \A f \in S : f[2] \in 1..n

LEMMA NoRecordIs == Limiter!NoRecord \in Records /\ Limiter!NoRecord.failures = 0
                    /\ Limiter!NoRecord.first = 0 /\ Limiter!NoRecord.until = 0
BY DEF Limiter!NoRecord, Records

\* A record that has expired, or whose lockout is served, may be forgotten.
LEMMA ForgetOK ==
    ASSUME Limiter!LimiterAssumption, NEW rec \in Records, NEW S, NEW c, NEW n, NEW k, NEW j, PastOK(S, n),
           RecordOK(rec, S, c, n, k), LockOK(rec, S, c, n),
           \/ rec.until = 0 /\ n - rec.first > window
           \/ rec.until # 0 /\ n >= rec.until
           \/ rec.failures = 0
    PROVE  RecordOK(Limiter!NoRecord, S, c, n, j) /\ LockOK(Limiter!NoRecord, S, c, n)
<1>1. Recent(S, c, n) <= Before
  <2>1. CASE rec.failures = 0
    BY <2>1 DEF RecordOK
  <2>2. CASE rec.failures > 0 /\ rec.until = 0 /\ n - rec.first > window
    <3>1. \A f \in S : f[2] \in (n - window + 1)..n => f[2] \in (rec.first + 1)..n
      BY <2>2, LimiterFacts DEF PastOK, Records
    <3>2. /\ Recent(S, c, n) <= Later(S, c, rec, n)
          /\ Recent(S, c, n) \in Nat /\ Later(S, c, rec, n) \in Nat
      BY <3>1, CountMore, Zenon DEF PastOK, Recent, Later
    <3>3. rec.failures < maxFailures /\ Later(S, c, rec, n) <= rec.failures - 1
      BY <2>2, LimiterFacts DEF RecordOK, Records
    <3> QED BY <3>2, <3>3, LimiterFacts DEF Records, Before, Quota
  <2>3. CASE rec.until # 0 /\ n >= rec.until
    <3>1. \A f \in S : f[2] \in (n - window + 1)..n => f[2] \in (rec.until - lockout + 1)..n
      BY <2>3, LimiterFacts DEF PastOK, Records
    <3>2. /\ Recent(S, c, n) <= Count(S, c, rec.until - lockout + 1, n)
          /\ Recent(S, c, n) \in Nat
      BY <3>1, CountMore, Zenon DEF PastOK, Recent
    <3> QED BY <2>3, <3>2, LimiterFacts DEF LockOK
  <2> QED BY <2>1, <2>2, <2>3 DEF Records
<1> QED BY <1>1, LimiterFacts, NoRecordIs DEF RecordOK, LockOK

\* Requests of a client that is not locked out may begin, and any may end.
LEMMA OtherRequestsOK ==
    ASSUME Limiter!LimiterAssumption, NEW rec \in Records, NEW S, NEW c, NEW n,
           NEW k \in Nat, NEW j \in Nat, RecordOK(rec, S, c, n, k), j <= k \/ rec.until = 0
    PROVE  RecordOK(rec, S, c, n, j)
BY LimiterFacts DEF RecordOK, Records

\* Time passes.
LEMMA LaterOK ==
    ASSUME Limiter!LimiterAssumption, NEW rec \in Records, NEW S, NEW c, NEW n, NEW k, PastOK(S, n),
           RecordOK(rec, S, c, n, k), LockOK(rec, S, c, n)
    PROVE  PastOK(S, n + 1) /\ RecordOK(rec, S, c, n + 1, k) /\ LockOK(rec, S, c, n + 1)
<1>1. PastOK(S, n + 1)
  BY DEF PastOK
<1>2. ASSUME NEW lo \in Int, NEW from \in Int, from <= lo
      PROVE  /\ Count(S, c, lo, n + 1) <= Count(S, c, from, n)
             /\ Count(S, c, lo, n + 1) \in Nat /\ Count(S, c, from, n) \in Nat
  <2>1. \A f \in S : f[2] \in lo..(n + 1) => f[2] \in from..n
    BY <1>2 DEF PastOK
  <2> QED BY <2>1, CountMore, Zenon DEF PastOK
<1>3. ASSUME NEW lo \in Int PROVE Count(S, c, lo, n) <= Count(S, c, lo, n + 1)
  <2>1. \A f \in S : f[2] \in lo..n => f[2] \in lo..(n + 1)
    BY DEF PastOK
  <2> QED BY <2>1, CountMore, Zenon DEF PastOK
<1>4. n \in Nat /\ rec.first \in Nat /\ rec.until \in Nat /\ rec.failures \in Nat
  BY DEF PastOK, Records
<1>5. RecordOK(rec, S, c, n + 1, k)
  <2>1. /\ rec.failures = 0 => rec = Limiter!NoRecord
        /\ rec.failures > 0 => rec.first \in 1..(n + 1)
        /\ rec.until # 0 <=> rec.failures >= maxFailures
        /\ rec.failures >= maxFailures => rec.failures + k <= Quota
    BY <1>4 DEF RecordOK
  <2>2. /\ Within(S, c, rec, n) \in Nat /\ Within(S, c, rec, n + 1) \in Nat
        /\ Within(S, c, rec, n) <= Within(S, c, rec, n + 1)
    BY <1>2, <1>3, <1>4 DEF Within
  <2>3. /\ Later(S, c, rec, n) \in Nat /\ Later(S, c, rec, n + 1) \in Nat
        /\ Later(S, c, rec, n + 1) <= Later(S, c, rec, n)
    BY <1>2, <1>4 DEF Later
  <2>4. /\ Around(S, c, rec, n) \in Nat /\ Around(S, c, rec, n + 1) \in Nat
        /\ Around(S, c, rec, n + 1) <= Around(S, c, rec, n)
    <3>1. PICK lo \in Int : lo = rec.first - window + 1
      BY <1>4, LimiterFacts
    <3>2. Around(S, c, rec, n) = Count(S, c, lo, n) /\ Around(S, c, rec, n + 1) = Count(S, c, lo, n + 1)
      BY <3>1, Zenon DEF Around
    <3>3. lo <= lo
      BY <3>1
    <3> QED BY <1>2, <3>2, <3>3
  <2>5. /\ Recent(S, c, n) \in Nat /\ Recent(S, c, n + 1) \in Nat
        /\ Recent(S, c, n + 1) <= Recent(S, c, n)
    <3>1. PICK lo \in Int, from \in Int : lo = (n + 1) - window + 1 /\ from = n - window + 1 /\ from <= lo
      BY <1>4, LimiterFacts
    <3>2. Recent(S, c, n) = Count(S, c, from, n) /\ Recent(S, c, n + 1) = Count(S, c, lo, n + 1)
      BY <3>1, Zenon DEF Recent
    <3> QED BY <1>2, <3>1, <3>2
  <2>6. rec.failures > 0 =>
          /\ rec.failures <= Within(S, c, rec, n + 1)
          /\ Later(S, c, rec, n + 1) <= rec.failures - 1
          /\ Around(S, c, rec, n + 1) <= rec.failures + Before
    BY <1>4, <2>2, <2>3, <2>4, LimiterFacts DEF RecordOK
  <2>7. rec.failures = 0 => Recent(S, c, n + 1) <= Before
    BY <1>4, <2>5, LimiterFacts DEF RecordOK
  <2> QED BY <2>1, <2>6, <2>7 DEF RecordOK
<1>6. LockOK(rec, S, c, n + 1)
  <2> SUFFICES ASSUME rec.until # 0 PROVE LockOK(rec, S, c, n + 1)
    BY DEF LockOK
  <2>1. PICK at \in Int : at = rec.until - lockout
    BY <1>4, LimiterFacts
  <2>2. /\ Count(S, c, at + 1, n) \in Nat /\ Count(S, c, at + 1, n + 1) \in Nat
        /\ Count(S, c, at + 1, n + 1) <= Count(S, c, at + 1, n)
    BY <1>2
  <2> QED BY <1>4, <2>1, <2>2, LimiterFacts DEF LockOK
<1> QED BY <1>1, <1>5, <1>6

\* A failure is counted: in the record, or in a fresh one when its window is over.
OneMore(old, n) ==
    [failures |-> old.failures + 1, first |-> old.first,
     until |-> IF old.failures + 1 >= maxFailures THEN n + lockout ELSE old.until]

LEMMA OneMoreIs ==
    ASSUME Limiter!LimiterAssumption, NEW old \in Records, NEW n \in Nat
    PROVE  /\ OneMore(old, n) \in Records
           /\ OneMore(old, n).failures = old.failures + 1 /\ OneMore(old, n).first = old.first
           /\ OneMore(old, n).until = IF old.failures + 1 >= maxFailures THEN n + lockout ELSE old.until
<1> DEFINE u == IF old.failures + 1 >= maxFailures THEN n + lockout ELSE old.until
<1>1. OneMore(old, n) = [failures |-> old.failures + 1, first |-> old.first, until |-> u]
  BY Zenon DEF OneMore
<1>2. u \in Nat /\ old.failures + 1 \in Nat /\ old.first \in Nat
  BY LimiterFacts DEF Records
<1>3. OneMore(old, n).until = u
  <2> HIDE DEF u
  <2> QED BY <1>1
<1>4. OneMore(old, n) \in Records
  <2> HIDE DEF u
  <2> QED BY <1>1, <1>2 DEF Records
<1>5. OneMore(old, n).failures = old.failures + 1 /\ OneMore(old, n).first = old.first
  <2> HIDE DEF u
  <2> QED BY <1>1
<1> QED BY <1>3, <1>4, <1>5, Zenon

LEMMA FailOK ==
    ASSUME Limiter!LimiterAssumption, NEW rec \in Records, NEW S, NEW c, NEW n, NEW k \in Nat,
           PastOK(S, n), RecordOK(rec, S, c, n, k), LockOK(rec, S, c, n),
           k >= 1, k <= Cardinality(Requests), NEW e, e \notin S, e[1] = c, e[2] = n,
           NEW old, old = IF rec = Limiter!NoRecord \/ n - rec.first > window
                          THEN [Limiter!NoRecord EXCEPT !.first = n] ELSE rec,
           NEW new, new = OneMore(old, n)
    PROVE  /\ new \in Records /\ PastOK(S \cup {e}, n)
           /\ RecordOK(new, S \cup {e}, c, n, k - 1) /\ LockOK(new, S \cup {e}, c, n)
           /\ new.failures <= Quota /\ new.failures > 0
<1>0. n \in Nat /\ rec.first \in Nat /\ rec.until \in Nat /\ rec.failures \in Nat /\ IsFiniteSet(S)
  BY DEF PastOK, Records
<1>1. PastOK(S \cup {e}, n)
  <2>1. IsFiniteSet(S \cup {e})
    BY <1>0, FS_AddElement
  <2> QED BY <2>1 DEF PastOK
<1>2. /\ old \in Records /\ new \in Records
      /\ new.first = old.first /\ new.failures = old.failures + 1
      /\ new.until = IF old.failures + 1 >= maxFailures THEN n + lockout ELSE old.until
  <2>1. [Limiter!NoRecord EXCEPT !.first = n] = [failures |-> 0, first |-> n, until |-> 0]
    BY DEF Limiter!NoRecord
  <2>2. old \in Records
    BY <1>0, <2>1 DEF Records
  <2> QED BY <1>0, <2>2, OneMoreIs, Zenon
<1>3. /\ old.first \in 1..n /\ n - old.first <= window
      /\ old.failures + k <= Quota \/ old.failures < maxFailures
      /\ old.until # 0 => old.failures >= maxFailures
      /\ old.failures <= Within(S, c, old, n)
      /\ old.failures > 0 => Later(S, c, old, n) <= old.failures - 1
      /\ old.failures = 0 => old.first = n
      /\ Around(S, c, old, n) <= old.failures + Before
  <2>1. CASE ~(rec = Limiter!NoRecord \/ n - rec.first > window)
    <3>1. old = rec /\ rec.failures > 0
      BY <1>0, <2>1 DEF RecordOK
    <3>2. rec.failures + k <= Quota \/ rec.failures < maxFailures
      BY <1>0, LimiterFacts DEF RecordOK
    <3>3. /\ rec.failures <= Within(S, c, rec, n)
          /\ Later(S, c, rec, n) <= rec.failures - 1
          /\ Around(S, c, rec, n) <= rec.failures + Before
          /\ rec.first \in 1..n /\ (rec.until # 0 => rec.failures >= maxFailures)
      BY <3>1 DEF RecordOK
    <3>4. n - rec.first <= window /\ rec.failures # 0
      BY <1>0, <2>1, <3>1, LimiterFacts
    <3> QED BY <3>1, <3>2, <3>3, <3>4
  <2>2. CASE rec = Limiter!NoRecord \/ n - rec.first > window
    <3>1. old.first = n /\ old.failures = 0 /\ old.until = 0
      BY <2>2 DEF Limiter!NoRecord
    <3>2. Within(S, c, old, n) \in Nat /\ Around(S, c, old, n) = Recent(S, c, n)
      BY <1>0, <3>1, CountMore DEF Within, Around, Recent
    <3>3. Recent(S, c, n) <= Before
      <4>1. CASE rec = Limiter!NoRecord
        BY <4>1, NoRecordIs DEF RecordOK
      <4>2. CASE rec.failures > 0 /\ n - rec.first > window
        <5>1. \A f \in S : f[2] \in (n - window + 1)..n => f[2] \in (rec.first + 1)..n
          BY <1>0, <4>2, LimiterFacts DEF PastOK
        <5>2. /\ Recent(S, c, n) <= Later(S, c, rec, n)
              /\ Recent(S, c, n) \in Nat /\ Later(S, c, rec, n) \in Nat
          BY <1>0, <5>1, CountMore, Zenon DEF Recent, Later
        <5>3. Later(S, c, rec, n) <= rec.failures - 1
          BY <4>2 DEF RecordOK
        <5>4. rec.failures + k <= Quota \/ rec.failures < maxFailures
          BY <1>0, LimiterFacts DEF RecordOK
        <5> QED BY <1>0, <5>2, <5>3, <5>4, LimiterFacts DEF Quota, Before
      <4>3. CASE rec.failures = 0
        BY <4>3 DEF RecordOK
      <4> QED BY <1>0, <2>2, <4>1, <4>2, <4>3
    <3>4. n \in 1..n
      BY <1>0 DEF PastOK
    <3> QED BY <1>0, <3>1, <3>2, <3>3, <3>4, LimiterFacts
  <2> QED BY <2>1, <2>2
<1>4. ASSUME NEW lo, NEW hi
      PROVE  /\ Count(S, c, lo, hi) \in Nat
             /\ n \in lo..hi => Count(S \cup {e}, c, lo, hi) = Count(S, c, lo, hi) + 1
             /\ n \notin lo..hi => Count(S \cup {e}, c, lo, hi) = Count(S, c, lo, hi)
  <2>1. Count(S, c, lo, hi) \in Nat
    BY <1>0, CountMore, Zenon
  <2>2. ASSUME n \in lo..hi PROVE Count(S \cup {e}, c, lo, hi) = Count(S, c, lo, hi) + 1
    <3>1. MadeBy(e, c, lo, hi)
      BY <2>2, Zenon DEF MadeBy
    <3> QED BY <1>0, <3>1, CountNew
  <2>3. ASSUME n \notin lo..hi PROVE Count(S \cup {e}, c, lo, hi) = Count(S, c, lo, hi)
    <3>1. ~MadeBy(e, c, lo, hi)
      BY <2>3, Zenon DEF MadeBy
    <3> QED BY <3>1, CountOther
  <2> QED BY <2>1, <2>2, <2>3, Zenon
<1>5. /\ Within(S, c, old, n) \in Nat /\ Within(S \cup {e}, c, new, n) = Within(S, c, old, n) + 1
      /\ Later(S, c, old, n) \in Nat /\ Later(S \cup {e}, c, new, n) \in Nat
      /\ old.failures > 0 => Later(S \cup {e}, c, new, n) <= Later(S, c, old, n) + 1
      /\ old.failures = 0 => Later(S \cup {e}, c, new, n) = 0
      /\ Around(S, c, old, n) \in Nat /\ Around(S \cup {e}, c, new, n) \in Nat
      /\ Around(S \cup {e}, c, new, n) <= Around(S, c, old, n) + 1
  <2>1. PICK f \in Nat : f = old.first /\ f = new.first /\ f \in 1..n
    BY <1>2, <1>3 DEF Records
  <2>2. Within(S, c, old, n) \in Nat /\ Within(S \cup {e}, c, new, n) = Within(S, c, old, n) + 1
    <3>1. n \in f..n
      BY <1>0, <2>1
    <3>2. Count(S, c, f, n) \in Nat /\ Count(S \cup {e}, c, f, n) = Count(S, c, f, n) + 1
      BY <1>4, <3>1
    <3>3. Within(S, c, old, n) = Count(S, c, f, n) /\ Within(S \cup {e}, c, new, n) = Count(S \cup {e}, c, f, n)
      BY <2>1, Zenon DEF Within
    <3> QED BY <3>2, <3>3
  <2>3. /\ Later(S, c, old, n) \in Nat /\ Later(S \cup {e}, c, new, n) \in Nat
        /\ Later(S \cup {e}, c, new, n) <= Later(S, c, old, n) + 1
    <3>1. PICK lo \in Int : lo = f + 1
      BY <2>1
    <3>2. /\ Count(S, c, lo, n) \in Nat /\ Count(S \cup {e}, c, lo, n) \in Nat
          /\ Count(S \cup {e}, c, lo, n) <= Count(S, c, lo, n) + 1
      <4>1. /\ Count(S, c, lo, n) \in Nat
            /\ n \in lo..n => Count(S \cup {e}, c, lo, n) = Count(S, c, lo, n) + 1
            /\ n \notin lo..n => Count(S \cup {e}, c, lo, n) = Count(S, c, lo, n)
        BY <1>4, Zenon
      <4> QED BY <4>1
    <3>3. Later(S, c, old, n) = Count(S, c, lo, n) /\ Later(S \cup {e}, c, new, n) = Count(S \cup {e}, c, lo, n)
      BY <2>1, <3>1, Zenon DEF Later
    <3> QED BY <3>2, <3>3
  <2>4. ASSUME old.failures = 0 PROVE Later(S \cup {e}, c, new, n) = 0
    <3>1. \A g \in S \cup {e} : ~(g[1] = c /\ g[2] \in (n + 1)..n)
      BY <1>0
    <3>2. Count(S \cup {e}, c, n + 1, n) = 0
      BY <3>1, CountNone
    <3>3. new.first = n
      BY <1>2, <1>3, <2>4
    <3> QED BY <3>2, <3>3, Zenon DEF Later
  <2>5. /\ Around(S, c, old, n) \in Nat /\ Around(S \cup {e}, c, new, n) \in Nat
        /\ Around(S \cup {e}, c, new, n) <= Around(S, c, old, n) + 1
    <3>1. PICK lo \in Int : lo = f - window + 1
      BY <2>1, LimiterFacts
    <3>2. /\ Count(S, c, lo, n) \in Nat /\ Count(S \cup {e}, c, lo, n) \in Nat
          /\ Count(S \cup {e}, c, lo, n) <= Count(S, c, lo, n) + 1
      <4>1. /\ Count(S, c, lo, n) \in Nat
            /\ n \in lo..n => Count(S \cup {e}, c, lo, n) = Count(S, c, lo, n) + 1
            /\ n \notin lo..n => Count(S \cup {e}, c, lo, n) = Count(S, c, lo, n)
        BY <1>4, Zenon
      <4> QED BY <4>1
    <3>3. Around(S, c, old, n) = Count(S, c, lo, n) /\ Around(S \cup {e}, c, new, n) = Count(S \cup {e}, c, lo, n)
      BY <2>1, <3>1, Zenon DEF Around
    <3> QED BY <3>2, <3>3
  <2> QED BY <2>2, <2>3, <2>4, <2>5
<1>6. new.failures <= Quota /\ (new.failures >= maxFailures => new.failures + (k - 1) <= Quota)
  BY <1>0, <1>2, <1>3, LimiterFacts DEF Quota, Records
<1>7. RecordOK(new, S \cup {e}, c, n, k - 1)
  <2>1. new.until # 0 <=> new.failures >= maxFailures
    BY <1>0, <1>2, <1>3, LimiterFacts DEF Records
  <2>2. /\ new.failures <= Within(S \cup {e}, c, new, n)
        /\ Later(S \cup {e}, c, new, n) <= new.failures - 1
        /\ Around(S \cup {e}, c, new, n) <= new.failures + Before
    <3>1. old.failures \in Nat /\ new.failures = old.failures + 1
      BY <1>2 DEF Records
    <3> QED BY <1>3, <1>5, <3>1, LimiterFacts
  <2>3. new.failures > 0 /\ new.failures # 0 /\ new.first \in 1..n
    BY <1>2, <1>3 DEF Records
  <2> QED BY <1>6, <2>1, <2>2, <2>3 DEF RecordOK
<1>8. LockOK(new, S \cup {e}, c, n)
  <2> SUFFICES ASSUME new.until # 0 PROVE LockOK(new, S \cup {e}, c, n)
    BY DEF LockOK
  <2>1. new.until = n + lockout /\ new.failures >= maxFailures
    BY <1>0, <1>2, <1>3, LimiterFacts DEF Records
  <2>2. new.until - lockout = n
    BY <1>0, <2>1, LimiterFacts
  <2>3. Count(S \cup {e}, c, n + 1, n) = 0 /\ Count(S \cup {e}, c, n, n) > 0
    <3>1. n \notin (n + 1)..n /\ n \in n..n
      BY <1>0
    <3>2. Count(S, c, n + 1, n) = 0
      BY <1>0, CountNone
    <3>3. /\ Count(S, c, n, n) \in Nat /\ Count(S \cup {e}, c, n, n) = Count(S, c, n, n) + 1
          /\ Count(S \cup {e}, c, n + 1, n) = Count(S, c, n + 1, n)
      BY <1>4, <3>1, Zenon
    <3> QED BY <3>2, <3>3
  <2>4. Count(S \cup {e}, c, n - window, n) >= maxFailures
    <3>1. \A f \in S \cup {e} : f[2] \in (new.first)..n => f[2] \in (n - window)..n
      BY <1>0, <1>1, <1>2, <1>3, LimiterFacts DEF PastOK
    <3>2. /\ Count(S \cup {e}, c, new.first, n) <= Count(S \cup {e}, c, n - window, n)
          /\ Count(S \cup {e}, c, new.first, n) \in Nat /\ Count(S \cup {e}, c, n - window, n) \in Nat
      BY <1>1, <3>1, CountMore, Zenon DEF PastOK
    <3>3. new.failures <= Count(S \cup {e}, c, new.first, n)
      BY <1>2, <1>3, <1>7 DEF RecordOK, Records, Within
    <3> QED BY <1>2, <2>1, <3>2, <3>3, LimiterFacts DEF Records
  <2> QED BY <1>0, <1>2, <1>3, <2>2, <2>3, <2>4 DEF LockOK
<1> QED BY <1>1, <1>2, <1>3, <1>6, <1>7, <1>8 DEF Records

\* What the records say of a client is the same whoever else fails or gets in.
LEMMA SameCounts ==
    ASSUME NEW rec, NEW S, NEW T, NEW c, NEW n, NEW k, RecordOK(rec, S, c, n, k), LockOK(rec, S, c, n),
           \A lo, hi : Count(T, c, lo, hi) = Count(S, c, lo, hi)
    PROVE  RecordOK(rec, T, c, n, k) /\ LockOK(rec, T, c, n)
<1>1. /\ Within(T, c, rec, n) = Within(S, c, rec, n) /\ Later(T, c, rec, n) = Later(S, c, rec, n)
      /\ Around(T, c, rec, n) = Around(S, c, rec, n) /\ Recent(T, c, n) = Recent(S, c, n)
  BY Zenon DEF Within, Later, Around, Recent
<1>2. RecordOK(rec, T, c, n, k)
  BY <1>1 DEF RecordOK
<1>3. LockOK(rec, T, c, n)
  <2> SUFFICES ASSUME NEW at, at = rec.until - lockout, rec.until # 0
               PROVE  /\ at \in rec.first..n /\ Count(T, c, at + 1, n) = 0
                      /\ Count(T, c, at, at) > 0 /\ Count(T, c, at - window, at) >= maxFailures
    BY Zenon DEF LockOK
  <2>1. /\ at \in rec.first..n /\ Count(S, c, at + 1, n) = 0
        /\ Count(S, c, at, at) > 0 /\ Count(S, c, at - window, at) >= maxFailures
    BY Zenon DEF LockOK
  <2>2. /\ Count(T, c, at + 1, n) = Count(S, c, at + 1, n) /\ Count(T, c, at, at) = Count(S, c, at, at)
        /\ Count(T, c, at - window, at) = Count(S, c, at - window, at)
    BY Zenon
  <2> QED BY <2>1, <2>2, Zenon
<1> QED BY <1>2, <1>3

LEMMA CountNewEither ==
    ASSUME NEW S, IsFiniteSet(S), NEW e, e \notin S, NEW c, NEW lo, NEW hi
    PROVE  /\ Count(S, c, lo, hi) \in Nat
           /\ MadeBy(e, c, lo, hi) => Count(S \cup {e}, c, lo, hi) = Count(S, c, lo, hi) + 1
           /\ ~MadeBy(e, c, lo, hi) => Count(S \cup {e}, c, lo, hi) = Count(S, c, lo, hi)
<1>1. Count(S, c, lo, hi) \in Nat
  BY CountMore, Zenon
<1>2. ASSUME MadeBy(e, c, lo, hi) PROVE Count(S \cup {e}, c, lo, hi) = Count(S, c, lo, hi) + 1
  BY <1>2, CountNew
<1>3. ASSUME ~MadeBy(e, c, lo, hi) PROVE Count(S \cup {e}, c, lo, hi) = Count(S, c, lo, hi)
  BY <1>3, CountOther
<1> QED BY <1>1, <1>2, <1>3, Zenon

-----------------------------------------------------------------------------
\* The requests of c that are under way.
UnderWay(d, c) == {a \in Requests : d[a] = c}
Dials == [Requests -> Addresses \cup {Limiter!Nobody}]

LEMMA UnderWayIs ==
    ASSUME Limiter!LimiterAssumption, NEW d, NEW c
    PROVE  /\ Cardinality(UnderWay(d, c)) \in Nat /\ IsFiniteSet(UnderWay(d, c))
           /\ Cardinality(UnderWay(d, c)) <= Cardinality(Requests)
<1>1. UnderWay(d, c) \subseteq Requests
  BY DEF UnderWay
<1> QED BY <1>1, LimiterFacts, FS_Subset, FS_CardinalityType

\* A request begins or ends for its own client only.
LEMMA OthersUnderWay ==
    ASSUME NEW d \in Dials, NEW a \in Requests, NEW x, NEW c, x # c, d[a] # x
    PROVE  UnderWay([d EXCEPT ![a] = c], x) = UnderWay(d, x)
BY DEF UnderWay, Dials

LEMMA EndsUnderWay ==
    ASSUME Limiter!LimiterAssumption, NEW d \in Dials, NEW a \in Requests, NEW c, c = d[a],
           c # Limiter!Nobody
    PROVE  /\ [d EXCEPT ![a] = Limiter!Nobody] \in Dials
           /\ Cardinality(UnderWay(d, c)) >= 1
           /\ Cardinality(UnderWay([d EXCEPT ![a] = Limiter!Nobody], c)) = Cardinality(UnderWay(d, c)) - 1
<1>1. UnderWay([d EXCEPT ![a] = Limiter!Nobody], c) = UnderWay(d, c) \ {a} /\ a \in UnderWay(d, c)
  BY DEF UnderWay, Dials
<1>2. IsFiniteSet(UnderWay(d, c)) /\ Cardinality(UnderWay(d, c)) \in Nat
  BY UnderWayIs
<1>3. Cardinality(UnderWay(d, c) \ {a}) = Cardinality(UnderWay(d, c)) - 1
  BY <1>1, <1>2, FS_RemoveElement
<1>4. Cardinality(UnderWay(d, c) \ {a}) \in Nat
  BY <1>1, UnderWayIs, Zenon
<1>5. [d EXCEPT ![a] = Limiter!Nobody] \in Dials
  BY DEF Dials
<1>6. Cardinality(UnderWay(d, c)) >= 1
  BY <1>2, <1>3, <1>4
<1>7. Cardinality(UnderWay([d EXCEPT ![a] = Limiter!Nobody], c)) = Cardinality(UnderWay(d, c)) - 1
  BY <1>1, <1>3, Zenon
<1> QED BY <1>5, <1>6, <1>7, Zenon

-----------------------------------------------------------------------------
LimiterTypes == /\ now \in 1..MaxTime /\ clients \in [Addresses -> Records] /\ dialing \in Dials
                /\ PastOK(failed, now)

\* A failure is numbered among its client's.
Numbered == \A f \in failed : f[3] \in Nat /\ f[3] <= Count(failed, f[1], 1, now)

RecordsOK == \A c \in Addresses :
                /\ RecordOK(clients[c], failed, c, now, Cardinality(UnderWay(dialing, c)))
                /\ LockOK(clients[c], failed, c, now)

Bounded == \A c \in Addresses, t \in 1..MaxTime : Count(failed, c, t, t + window - 1) <= Quota + Before

LimiterInv == LimiterTypes /\ Numbered /\ RecordsOK /\ Bounded

-----------------------------------------------------------------------------
\* What pruneLocked leaves.
LEMMA PrunedOK ==
    ASSUME Limiter!LimiterAssumption, LimiterTypes, RecordsOK, NEW c \in Addresses
    PROVE  /\ Limiter!Pruned[c] \in Records
           /\ RecordOK(Limiter!Pruned[c], failed, c, now, Cardinality(UnderWay(dialing, c)))
           /\ LockOK(Limiter!Pruned[c], failed, c, now)
<1>1. PICK rec \in Records : rec = clients[c]
  BY DEF LimiterTypes
<1>2. PICK k \in Nat : k = Cardinality(UnderWay(dialing, c))
  BY UnderWayIs
<1>3. RecordOK(rec, failed, c, now, k) /\ LockOK(rec, failed, c, now) /\ PastOK(failed, now)
  BY <1>1, <1>2 DEF RecordsOK, LimiterTypes
<1>4. CASE Limiter!Expired(rec) \/ Limiter!Served(rec)
  <2>1. \/ rec.until = 0 /\ now - rec.first > window
        \/ rec.until # 0 /\ now >= rec.until
    BY <1>4, LimiterFacts DEF Limiter!Expired, Limiter!Served, LimiterTypes, Records
  <2>2. RecordOK(Limiter!NoRecord, failed, c, now, k) /\ LockOK(Limiter!NoRecord, failed, c, now)
    BY <1>3, <2>1, ForgetOK
  <2>3. Limiter!Pruned[c] = Limiter!NoRecord
    BY <1>1, <1>4 DEF Limiter!Pruned
  <2> QED BY <1>2, <2>2, <2>3, NoRecordIs
<1>5. CASE ~(Limiter!Expired(rec) \/ Limiter!Served(rec))
  <2>1. Limiter!Pruned[c] = rec
    BY <1>1, <1>5 DEF Limiter!Pruned
  <2> QED BY <1>2, <1>3, <2>1
<1> QED BY <1>4, <1>5

LEMMA AllowKeeps ==
    ASSUME Limiter!LimiterAssumption, LimiterInv, Limiter!allow
    PROVE  LimiterInv'
<1> USE DEF LimiterInv
<1>1. PICK a \in Requests, c \in Addresses :
        LET rec == Limiter!Pruned[c]
            locked == rec.until # 0 /\ now < rec.until
            served == rec.until # 0 /\ ~locked
        IN  /\ dialing[a] = Limiter!Nobody
            /\ dialing' = IF locked THEN dialing ELSE [dialing EXCEPT ![a] = c]
            /\ clients' = IF served THEN [Limiter!Pruned EXCEPT ![c] = Limiter!NoRecord] ELSE Limiter!Pruned
            /\ UNCHANGED <<now, failed>>
  BY DEF Limiter!allow
<1>2. now' = now /\ failed' = failed
  BY <1>1
<1>3. PICK rec \in Records : rec = Limiter!Pruned[c]
  BY PrunedOK
<1> DEFINE locked == rec.until # 0 /\ now < rec.until
           served == rec.until # 0 /\ ~locked
<1>4. /\ dialing[a] = Limiter!Nobody
      /\ dialing' = IF locked THEN dialing ELSE [dialing EXCEPT ![a] = c]
      /\ clients' = IF served THEN [Limiter!Pruned EXCEPT ![c] = Limiter!NoRecord] ELSE Limiter!Pruned
  BY <1>1, <1>3, Zenon
<1>5. Limiter!Pruned \in [Addresses -> Records]
  BY PrunedOK DEF Limiter!Pruned
<1>6. clients' \in [Addresses -> Records] /\ dialing' \in Dials
  BY <1>4, <1>5, NoRecordIs DEF LimiterTypes, Dials
<1>7. LimiterTypes' /\ Numbered' /\ Bounded'
  BY <1>2, <1>6 DEF LimiterTypes, Numbered, Bounded
<1>8. ASSUME NEW x \in Addresses
      PROVE  /\ RecordOK(clients'[x], failed, x, now, Cardinality(UnderWay(dialing', x)))
             /\ LockOK(clients'[x], failed, x, now)
  <2>1. PICK old \in Records : old = Limiter!Pruned[x]
    BY PrunedOK
  <2>2. PICK k \in Nat : k = Cardinality(UnderWay(dialing, x))
    BY UnderWayIs
  <2>3. PICK j \in Nat : j = Cardinality(UnderWay(dialing', x))
    BY UnderWayIs
  <2>4. RecordOK(old, failed, x, now, k) /\ LockOK(old, failed, x, now) /\ PastOK(failed, now)
    BY <2>1, <2>2, PrunedOK DEF LimiterTypes
  <2>5. CASE x # c
    <3>1. clients'[x] = old
      BY <1>4, <1>5, <2>1, <2>5
    <3>2. dialing[a] # x
      BY <1>4, LimiterFacts
    <3>3. UnderWay(dialing', x) = UnderWay(dialing, x)
      <4>1. dialing \in Dials
        BY DEF LimiterTypes
      <4>2. UnderWay([dialing EXCEPT ![a] = c], x) = UnderWay(dialing, x)
        BY <2>5, <3>2, <4>1, OthersUnderWay, Zenon
      <4> QED BY <1>4, <4>2, Zenon
    <3> QED BY <2>2, <2>4, <3>1, <3>3
  <2>6. CASE x = c /\ locked
    <3>1. clients'[x] = old /\ dialing' = dialing
      BY <1>4, <2>1, <2>6
    <3> QED BY <2>2, <2>4, <3>1
  <2>7. CASE x = c /\ served
    <3>1. clients'[x] = Limiter!NoRecord
      BY <1>4, <1>5, <2>7
    <3>2. rec = old /\ rec.until # 0 /\ now >= rec.until
      BY <1>3, <2>1, <2>7 DEF LimiterTypes, Records
    <3>3. RecordOK(Limiter!NoRecord, failed, x, now, j) /\ LockOK(Limiter!NoRecord, failed, x, now)
      BY <2>4, <3>2, ForgetOK
    <3> QED BY <2>3, <3>1, <3>3
  <2>8. CASE x = c /\ ~locked /\ ~served
    <3>1. clients'[x] = old /\ old.until = 0
      BY <1>3, <1>4, <2>1, <2>8
    <3>2. RecordOK(old, failed, x, now, j)
      BY <2>4, <3>1, OtherRequestsOK
    <3> QED BY <2>3, <2>4, <3>1, <3>2
  <2> QED BY <2>5, <2>6, <2>7, <2>8
<1>9. RecordsOK'
  BY <1>2, <1>8 DEF RecordsOK
<1> QED BY <1>7, <1>9

LEMMA UnreachableKeeps ==
    ASSUME Limiter!LimiterAssumption, LimiterInv, Limiter!Unreachable
    PROVE  LimiterInv'
<1> USE DEF LimiterInv
<1>1. PICK a \in Requests : /\ dialing[a] # Limiter!Nobody
                            /\ dialing' = [dialing EXCEPT ![a] = Limiter!Nobody]
                            /\ UNCHANGED <<now, clients, failed>>
  BY DEF Limiter!Unreachable, Limiter!Done
<1>2. LimiterTypes' /\ Numbered' /\ Bounded'
  BY <1>1 DEF LimiterTypes, Numbered, Bounded, Dials
<1>3. ASSUME NEW x \in Addresses
      PROVE  RecordOK(clients[x], failed, x, now, Cardinality(UnderWay(dialing', x)))
  <2>1. PICK old \in Records : old = clients[x]
    BY DEF LimiterTypes
  <2>2. PICK k \in Nat : k = Cardinality(UnderWay(dialing, x))
    BY UnderWayIs
  <2>3. PICK j \in Nat : j = Cardinality(UnderWay(dialing', x))
    BY UnderWayIs
  <2>4. j <= k
    <3>1. CASE dialing[a] = x
      <4>1. dialing \in Dials /\ x # Limiter!Nobody
        BY LimiterFacts DEF LimiterTypes
      <4>2. /\ Cardinality(UnderWay(dialing, x)) >= 1
            /\ Cardinality(UnderWay(dialing', x)) = Cardinality(UnderWay(dialing, x)) - 1
        BY <1>1, <3>1, <4>1, EndsUnderWay
      <4> QED BY <2>2, <2>3, <4>2
    <3>2. CASE dialing[a] # x
      <4>1. UnderWay(dialing', x) = UnderWay(dialing, x)
        <5>1. dialing \in Dials /\ x # Limiter!Nobody
          BY LimiterFacts DEF LimiterTypes
        <5>2. UnderWay([dialing EXCEPT ![a] = Limiter!Nobody], x) = UnderWay(dialing, x)
          BY <3>2, <5>1, OthersUnderWay
        <5> QED BY <1>1, <5>2
      <4> QED BY <2>2, <2>3, <4>1
    <3> QED BY <3>1, <3>2
  <2>5. RecordOK(old, failed, x, now, k)
    BY <2>1, <2>2 DEF RecordsOK
  <2> QED BY <2>1, <2>3, <2>4, <2>5, OtherRequestsOK
<1>4. RecordsOK'
  BY <1>1, <1>3 DEF RecordsOK
<1> QED BY <1>2, <1>4

LEMMA TimeKeeps ==
    ASSUME Limiter!LimiterAssumption, LimiterInv, Limiter!TimePasses
    PROVE  LimiterInv'
<1> USE DEF LimiterInv
<1>1. /\ now < MaxTime /\ now' = now + 1 /\ now \in Nat
      /\ clients' = clients /\ dialing' = dialing /\ failed' = failed
  BY LimiterFacts DEF Limiter!TimePasses, LimiterTypes
<1>2. ASSUME NEW x \in Addresses
      PROVE  /\ RecordOK(clients[x], failed, x, now + 1, Cardinality(UnderWay(dialing, x)))
             /\ LockOK(clients[x], failed, x, now + 1)
  <2>1. PICK old \in Records : old = clients[x]
    BY DEF LimiterTypes
  <2>2. RecordOK(old, failed, x, now, Cardinality(UnderWay(dialing, x))) /\ LockOK(old, failed, x, now)
        /\ PastOK(failed, now)
    BY <2>1 DEF RecordsOK, LimiterTypes
  <2>3. RecordOK(old, failed, x, now + 1, Cardinality(UnderWay(dialing, x))) /\ LockOK(old, failed, x, now + 1)
    BY <2>2, LaterOK
  <2> QED BY <2>1, <2>3
<1>3. RecordsOK'
  BY <1>1, <1>2 DEF RecordsOK
<1>4. PastOK(failed, now + 1)
  BY <1>1 DEF LimiterTypes, PastOK
<1>5. LimiterTypes'
  BY <1>1, <1>4, LimiterFacts DEF LimiterTypes
<1>6. ASSUME NEW f \in failed PROVE f[3] \in Nat /\ f[3] <= Count(failed, f[1], 1, now + 1)
  <2>1. IsFiniteSet(failed) /\ \A g \in failed : g[2] \in 1..now => g[2] \in 1..(now + 1)
    BY <1>1 DEF LimiterTypes, PastOK
  <2>2. PICK d : d = f[1]
    OBVIOUS
  <2>3. /\ Count(failed, d, 1, now) \in Nat /\ Count(failed, d, 1, now + 1) \in Nat
        /\ Count(failed, d, 1, now) <= Count(failed, d, 1, now + 1)
    BY <2>1, CountMore, Zenon
  <2>4. f[3] \in Nat /\ f[3] <= Count(failed, d, 1, now)
    BY <2>2 DEF Numbered
  <2> QED BY <2>2, <2>3, <2>4
<1>7. Numbered'
  BY <1>1, <1>6 DEF Numbered
<1>8. Bounded'
  BY <1>1 DEF Bounded
<1> QED BY <1>3, <1>5, <1>7, <1>8

\* The record of a client as a failure changes it.
LEMMA RecordUpdate ==
    ASSUME NEW old \in Records, NEW m, NEW u
    PROVE  [old EXCEPT !.failures = m, !.until = u] = [failures |-> m, first |-> old.first, until |-> u]
<1>1. [old EXCEPT !.failures = m] = [failures |-> m, first |-> old.first, until |-> old.until]
  BY DEF Records
<1>2. [[failures |-> m, first |-> old.first, until |-> old.until] EXCEPT !.until = u]
        = [failures |-> m, first |-> old.first, until |-> u]
  OBVIOUS
<1> QED BY <1>1, <1>2, Zenon

LEMMA RejectedKeeps ==
    ASSUME Limiter!LimiterAssumption, LimiterInv, Limiter!Rejected
    PROVE  LimiterInv'
<1> USE DEF LimiterInv
<1>1. PICK a \in Requests :
        /\ dialing[a] # Limiter!Nobody /\ Limiter!recordFailure(dialing[a])
        /\ failed' = failed \cup {<<dialing[a], now, Limiter!Failures(dialing[a], 1, now) + 1>>}
        /\ dialing' = [dialing EXCEPT ![a] = Limiter!Nobody] /\ now' = now
  BY DEF Limiter!Rejected, Limiter!Done
<1>2. dialing \in Dials /\ PastOK(failed, now) /\ IsFiniteSet(failed) /\ now \in Nat \ {0}
  BY LimiterFacts DEF LimiterTypes, PastOK
<1>3. PICK c \in Addresses : c = dialing[a] /\ c # Limiter!Nobody
  BY <1>1, <1>2 DEF Dials
<1>4. PICK rec \in Records : rec = clients[c]
  BY DEF LimiterTypes
<1>5. PICK number \in Nat : number = Count(failed, c, 1, now) + 1
  BY <1>2, CountMore
<1>6. PICK e : e = <<c, now, number>>
  OBVIOUS
<1>7. /\ e[1] = c /\ e[2] = now /\ e[3] = number
      /\ failed' = failed \cup {e}
  BY <1>1, <1>3, <1>5, <1>6, FailuresAreCounted
<1>8. e \notin failed
  <2> SUFFICES ASSUME e \in failed PROVE FALSE
    OBVIOUS
  <2>1. e[3] <= Count(failed, c, 1, now)
    BY <1>7 DEF Numbered
  <2>2. Count(failed, c, 1, now) \in Nat
    BY <1>2, CountMore
  <2> QED BY <1>5, <1>7, <2>1, <2>2
<1>9. PICK k \in Nat : k = Cardinality(UnderWay(dialing, c))
  BY UnderWayIs
<1>10. k >= 1 /\ k <= Cardinality(Requests) /\ Cardinality(UnderWay(dialing', c)) = k - 1 /\ dialing' \in Dials
  <2>1. /\ [dialing EXCEPT ![a] = Limiter!Nobody] \in Dials
        /\ Cardinality(UnderWay(dialing, c)) >= 1
        /\ Cardinality(UnderWay([dialing EXCEPT ![a] = Limiter!Nobody], c)) = Cardinality(UnderWay(dialing, c)) - 1
    BY <1>2, <1>3, EndsUnderWay
  <2>2. Cardinality(UnderWay(dialing, c)) <= Cardinality(Requests)
    BY UnderWayIs
  <2> QED BY <1>1, <1>9, <2>1, <2>2
<1>11. PICK old : old = IF rec = Limiter!NoRecord \/ now - rec.first > window
                        THEN [Limiter!NoRecord EXCEPT !.first = now] ELSE rec
  OBVIOUS
<1>12. old \in Records
  <2>1. [Limiter!NoRecord EXCEPT !.first = now] = [failures |-> 0, first |-> now, until |-> 0]
    BY DEF Limiter!NoRecord
  <2> QED BY <1>2, <1>11, <2>1 DEF Records
<1>13. PICK new : new = OneMore(old, now)
  OBVIOUS
<1>14. clients' = [clients EXCEPT ![c] = new]
  <2>1. clients' = [clients EXCEPT ![c] = [old EXCEPT !.failures = old.failures + 1,
                                                      !.until = IF old.failures + 1 >= maxFailures
                                                                THEN now + lockout ELSE @]]
    BY <1>1, <1>3, <1>4, <1>11, Zenon DEF Limiter!recordFailure
  <2>2. [old EXCEPT !.failures = old.failures + 1,
                    !.until = IF old.failures + 1 >= maxFailures THEN now + lockout ELSE old.until]
          = OneMore(old, now)
    BY <1>12, RecordUpdate, Zenon DEF OneMore
  <2> QED BY <1>13, <2>1, <2>2, Zenon
<1>15. RecordOK(rec, failed, c, now, k) /\ LockOK(rec, failed, c, now)
  BY <1>4, <1>9 DEF RecordsOK
<1>16. /\ new \in Records /\ PastOK(failed \cup {e}, now)
       /\ RecordOK(new, failed \cup {e}, c, now, k - 1) /\ LockOK(new, failed \cup {e}, c, now)
       /\ new.failures <= Quota /\ new.failures > 0
  BY <1>2, <1>7, <1>8, <1>10, <1>11, <1>13, <1>15, FailOK
<1>17. LimiterTypes'
  <2>1. clients' \in [Addresses -> Records] /\ now' \in 1..MaxTime
    BY <1>1, <1>14, <1>16 DEF LimiterTypes
  <2>2. PastOK(failed', now')
    BY <1>1, <1>7, <1>16
  <2> QED BY <1>10, <2>1, <2>2 DEF LimiterTypes
<1>18. ASSUME NEW d, NEW lo, NEW hi
       PROVE  /\ Count(failed, d, lo, hi) \in Nat /\ Count(failed', d, lo, hi) \in Nat
              /\ Count(failed, d, lo, hi) <= Count(failed', d, lo, hi)
              /\ d = c /\ now \in lo..hi => Count(failed', d, lo, hi) = Count(failed, d, lo, hi) + 1
              /\ d # c \/ now \notin lo..hi => Count(failed', d, lo, hi) = Count(failed, d, lo, hi)
  <2>1. /\ Count(failed, d, lo, hi) \in Nat
        /\ MadeBy(e, d, lo, hi) => Count(failed', d, lo, hi) = Count(failed, d, lo, hi) + 1
        /\ ~MadeBy(e, d, lo, hi) => Count(failed', d, lo, hi) = Count(failed, d, lo, hi)
    <3>1. /\ Count(failed, d, lo, hi) \in Nat
          /\ MadeBy(e, d, lo, hi) => Count(failed \cup {e}, d, lo, hi) = Count(failed, d, lo, hi) + 1
          /\ ~MadeBy(e, d, lo, hi) => Count(failed \cup {e}, d, lo, hi) = Count(failed, d, lo, hi)
      <4>1. IsFiniteSet(failed) /\ e \notin failed
        BY <1>2, <1>8
      <4> QED BY ONLY <4>1, CountNewEither
    <3>2. failed' = failed \cup {e}
      BY <1>7
    <3> QED BY ONLY <3>1, <3>2, Zenon
  <2>2. MadeBy(e, d, lo, hi) <=> d = c /\ now \in lo..hi
    BY <1>7, Zenon DEF MadeBy
  <2> QED BY <2>1, <2>2
<1>19. Numbered'
  <2> SUFFICES ASSUME NEW f \in failed' PROVE f[3] \in Nat /\ f[3] <= Count(failed', f[1], 1, now)
    BY <1>1 DEF Numbered
  <2>1. PICK d : d = f[1]
    OBVIOUS
  <2>2. /\ Count(failed, d, 1, now) \in Nat /\ Count(failed', d, 1, now) \in Nat
        /\ Count(failed, d, 1, now) <= Count(failed', d, 1, now)
        /\ d = c /\ now \in 1..now => Count(failed', d, 1, now) = Count(failed, d, 1, now) + 1
    BY <1>18, Zenon
  <2>3. CASE f = e
    <3>1. now \in 1..now /\ d = c /\ f[3] = Count(failed, d, 1, now) + 1
      BY <1>2, <1>5, <1>7, <2>1, <2>3
    <3> QED BY <2>1, <2>2, <3>1
  <2>4. CASE f \in failed
    <3>1. f[3] \in Nat /\ f[3] <= Count(failed, d, 1, now)
      BY <2>1, <2>4 DEF Numbered
    <3> QED BY <2>1, <2>2, <3>1
  <2> QED BY <1>7, <2>3, <2>4
<1>20. RecordsOK'
  <2> SUFFICES ASSUME NEW x \in Addresses
               PROVE  /\ RecordOK(clients'[x], failed', x, now, Cardinality(UnderWay(dialing', x)))
                      /\ LockOK(clients'[x], failed', x, now)
    BY <1>1 DEF RecordsOK
  <2>1. CASE x = c
    <3>1. clients'[x] = new
      BY <1>14, <2>1 DEF LimiterTypes
    <3> QED BY <1>7, <1>10, <1>16, <2>1, <3>1
  <2>2. CASE x # c
    <3>1. clients'[x] = clients[x]
      BY <1>14, <2>2 DEF LimiterTypes
    <3>2. UnderWay(dialing', x) = UnderWay(dialing, x)
      <4>1. dialing[a] # x /\ x # Limiter!Nobody
        BY <1>3, <2>2, LimiterFacts
      <4>2. UnderWay([dialing EXCEPT ![a] = Limiter!Nobody], x) = UnderWay(dialing, x)
        BY <1>2, <4>1, OthersUnderWay
      <4> QED BY <1>1, <4>2, Zenon
    <3>3. \A lo, hi : Count(failed', x, lo, hi) = Count(failed, x, lo, hi)
      BY <1>18, <2>2, Zenon
    <3>4. /\ RecordOK(clients[x], failed, x, now, Cardinality(UnderWay(dialing, x)))
          /\ LockOK(clients[x], failed, x, now)
      BY DEF RecordsOK
    <3>5. /\ RecordOK(clients[x], failed', x, now, Cardinality(UnderWay(dialing, x)))
          /\ LockOK(clients[x], failed', x, now)
      BY <3>3, <3>4, SameCounts
    <3> QED BY <3>1, <3>2, <3>5
  <2> QED BY <2>1, <2>2
<1>21. Bounded'
  <2> SUFFICES ASSUME NEW x \in Addresses, NEW t \in 1..MaxTime
               PROVE  Count(failed', x, t, t + window - 1) <= Quota + Before
    BY DEF Bounded
  <2>1. PICK to \in Nat : to = t + window - 1
    BY LimiterFacts
  <2>2. Count(failed, x, t, to) \in Nat /\ Count(failed, x, t, to) <= Quota + Before
    BY <1>2, <2>1, CountMore DEF Bounded
  <2>3. CASE x # c \/ now \notin t..to
    <3>1. Count(failed', x, t, to) = Count(failed, x, t, to)
      BY <1>18, <2>3, Zenon
    <3> QED BY <2>1, <2>2, <3>1
  <2>4. CASE x = c /\ now \in t..to
    <3>1. new.first \in 1..now /\ new.failures \in Nat
      BY <1>16 DEF RecordOK, Records
    <3>2. PICK from \in Int : from = new.first - window + 1
      BY <3>1, LimiterFacts
    <3>3. \A f \in failed' : f[2] \in t..to => f[2] \in from..now
      BY <1>7, <1>16, <2>1, <2>4, <3>1, <3>2, LimiterFacts DEF PastOK
    <3>4. /\ Count(failed', c, t, to) <= Count(failed', c, from, now)
          /\ Count(failed', c, t, to) \in Nat /\ Count(failed', c, from, now) \in Nat
      BY <1>7, <1>16, <3>3, CountMore, Zenon DEF PastOK
    <3>5. Count(failed', c, from, now) = Around(failed', c, new, now)
      BY <3>2, Zenon DEF Around
    <3>6. Around(failed', c, new, now) <= new.failures + Before
      BY <1>7, <1>16 DEF RecordOK
    <3>7. Count(failed', c, t, to) <= Quota + Before
      BY <1>16, <3>1, <3>4, <3>5, <3>6, LimiterFacts
    <3> QED BY <2>1, <2>4, <3>7
  <2> QED BY <2>3, <2>4
<1> QED BY <1>17, <1>19, <1>20, <1>21

LEMMA SuccessKeeps ==
    ASSUME Limiter!LimiterAssumption, LimiterInv, Limiter!recordSuccess
    PROVE  LimiterInv'
<1> USE DEF LimiterInv
<1>1. PICK a \in Requests :
        /\ dialing[a] # Limiter!Nobody
        /\ clients' = [clients EXCEPT ![dialing[a]] = Limiter!NoRecord]
        /\ failed' = {f \in failed : f[1] # dialing[a]}
        /\ dialing' = [dialing EXCEPT ![a] = Limiter!Nobody] /\ now' = now
  BY DEF Limiter!recordSuccess, Limiter!Done
<1>2. dialing \in Dials /\ PastOK(failed, now) /\ IsFiniteSet(failed) /\ now \in Nat \ {0}
  BY LimiterFacts DEF LimiterTypes, PastOK
<1>3. PICK c \in Addresses : c = dialing[a] /\ c # Limiter!Nobody
  BY <1>1, <1>2 DEF Dials
<1>4. PICK S : S = {f \in failed : f[1] # c}
  OBVIOUS
<1>5. /\ failed' = S /\ clients' = [clients EXCEPT ![c] = Limiter!NoRecord]
  BY <1>1, <1>3, <1>4, Zenon
<1>6. /\ \A lo, hi : Count(S, c, lo, hi) = 0
      /\ \A x, lo, hi : x # c => Count(S, x, lo, hi) = Count(failed, x, lo, hi)
  <2>1. \A lo, hi : Count(S, c, lo, hi) = 0
    BY <1>4, CountForgiven
  <2>2. \A x, lo, hi : x # c => Count(S, x, lo, hi) = Count(failed, x, lo, hi)
    <3> SUFFICES ASSUME NEW x, NEW lo, NEW hi, x # c
                 PROVE  Count(S, x, lo, hi) = Count(failed, x, lo, hi)
      BY Zenon
    <3>1. {f \in S : f[1] = x /\ f[2] \in lo..hi} = {f \in failed : f[1] = x /\ f[2] \in lo..hi}
      BY <1>4
    <3> QED BY <3>1, Zenon DEF Count
  <2> QED BY <2>1, <2>2
<1>7. PastOK(S, now)
  <2>1. S \subseteq failed
    BY <1>4
  <2> QED BY <1>2, <2>1, FS_Subset DEF PastOK
<1>8. LimiterTypes'
  <2>1. clients' \in [Addresses -> Records] /\ now' \in 1..MaxTime
    BY <1>1, <1>5, NoRecordIs DEF LimiterTypes
  <2>2. dialing' \in Dials
    BY <1>1, <1>2 DEF Dials
  <2>3. PastOK(failed', now')
    BY <1>1, <1>5, <1>7
  <2> QED BY <2>1, <2>2, <2>3 DEF LimiterTypes
<1>9. Numbered'
  <2> SUFFICES ASSUME NEW f \in S PROVE f[3] \in Nat /\ f[3] <= Count(S, f[1], 1, now)
    BY <1>1, <1>5 DEF Numbered
  <2>1. f \in failed /\ f[1] # c
    BY <1>4
  <2>2. Count(S, f[1], 1, now) = Count(failed, f[1], 1, now)
    BY <1>6, <2>1
  <2> QED BY <2>1, <2>2 DEF Numbered
<1>10. RecordsOK'
  <2> SUFFICES ASSUME NEW x \in Addresses
               PROVE  /\ RecordOK(clients'[x], S, x, now, Cardinality(UnderWay(dialing', x)))
                      /\ LockOK(clients'[x], S, x, now)
    BY <1>1, <1>5 DEF RecordsOK
  <2>1. CASE x = c
    <3>1. clients'[x] = Limiter!NoRecord
      BY <1>5, <2>1 DEF LimiterTypes
    <3>2. Recent(S, x, now) = 0
      BY <1>6, <2>1 DEF Recent
    <3>3. RecordOK(Limiter!NoRecord, S, x, now, Cardinality(UnderWay(dialing', x)))
      BY <3>2, NoRecordIs, LimiterFacts DEF RecordOK
    <3>4. LockOK(Limiter!NoRecord, S, x, now)
      BY NoRecordIs DEF LockOK
    <3> QED BY <3>1, <3>3, <3>4
  <2>2. CASE x # c
    <3>1. clients'[x] = clients[x]
      BY <1>5, <2>2 DEF LimiterTypes
    <3>2. UnderWay(dialing', x) = UnderWay(dialing, x)
      <4>1. dialing[a] # x /\ x # Limiter!Nobody
        BY <1>3, <2>2, LimiterFacts
      <4>2. UnderWay([dialing EXCEPT ![a] = Limiter!Nobody], x) = UnderWay(dialing, x)
        BY <1>2, <4>1, OthersUnderWay
      <4> QED BY <1>1, <4>2, Zenon
    <3>3. \A lo, hi : Count(S, x, lo, hi) = Count(failed, x, lo, hi)
      BY <1>6, <2>2, Zenon
    <3>4. /\ RecordOK(clients[x], failed, x, now, Cardinality(UnderWay(dialing, x)))
          /\ LockOK(clients[x], failed, x, now)
      BY DEF RecordsOK
    <3>5. /\ RecordOK(clients[x], S, x, now, Cardinality(UnderWay(dialing, x)))
          /\ LockOK(clients[x], S, x, now)
      BY <3>3, <3>4, SameCounts
    <3> QED BY <3>1, <3>2, <3>5
  <2> QED BY <2>1, <2>2
<1>11. Bounded'
  <2> SUFFICES ASSUME NEW x \in Addresses, NEW t \in 1..MaxTime
               PROVE  Count(S, x, t, t + window - 1) <= Quota + Before
    BY <1>5 DEF Bounded
  <2>1. PICK to : to = t + window - 1
    OBVIOUS
  <2>2. CASE x = c
    <3>1. Count(S, x, t, to) = 0
      BY <1>6, <2>2
    <3>2. 0 <= Quota + Before
      BY LimiterFacts
    <3> QED BY <2>1, <3>1, <3>2
  <2>3. CASE x # c
    <3>1. Count(S, x, t, to) = Count(failed, x, t, to)
      BY <1>6, <2>3, Zenon
    <3> QED BY <2>1, <3>1 DEF Bounded
  <2> QED BY <2>2, <2>3
<1> QED BY <1>8, <1>9, <1>10, <1>11

LEMMA LimiterInit ==
    ASSUME Limiter!LimiterAssumption, Limiter!Init
    PROVE  LimiterInv
<1>1. /\ now = 1 /\ failed = {} /\ clients = [c \in Addresses |-> Limiter!NoRecord]
      /\ dialing = [a \in Requests |-> Limiter!Nobody]
  BY DEF Limiter!Init
<1>2. \A c, lo, hi : Count(failed, c, lo, hi) = 0
  BY <1>1, CountNone
<1>3. LimiterTypes
  <2>1. PastOK(failed, now)
    BY <1>1, FS_EmptySet DEF PastOK
  <2>2. clients \in [Addresses -> Records]
    BY <1>1, NoRecordIs
  <2> QED BY <1>1, <2>1, <2>2, LimiterFacts DEF LimiterTypes, Dials
<1>4. Numbered
  BY <1>1 DEF Numbered
<1>5. RecordsOK
  <2> SUFFICES ASSUME NEW c \in Addresses
               PROVE  /\ RecordOK(Limiter!NoRecord, failed, c, now, Cardinality(UnderWay(dialing, c)))
                      /\ LockOK(Limiter!NoRecord, failed, c, now)
    BY <1>1 DEF RecordsOK
  <2>1. Recent(failed, c, now) = 0
    BY <1>2, Zenon DEF Recent
  <2>2. RecordOK(Limiter!NoRecord, failed, c, now, Cardinality(UnderWay(dialing, c)))
    BY <2>1, NoRecordIs, LimiterFacts DEF RecordOK
  <2> QED BY <2>2, NoRecordIs DEF LockOK
<1>6. Bounded
  <2>1. 0 <= Quota + Before
    BY LimiterFacts
  <2> QED BY <1>2, <2>1 DEF Bounded
<1> QED BY <1>3, <1>4, <1>5, <1>6 DEF LimiterInv

\* A client waits only for failures it made within one window, and only for the
\* lockout after the last; and however its requests overlap, it has no more failures
\* in the length of a window than two allowances, less what lies outside.
THEOREM LockoutsAreFair ==
    ASSUME Limiter!LimiterAssumption
    PROVE  Limiter!Spec => []LockoutIsFair
<1>1. Limiter!Init => LimiterInv
  BY LimiterInit
<1>2. LimiterInv /\ [Limiter!Next]_Limiter!vars => LimiterInv'
  <2> SUFFICES ASSUME LimiterInv, [Limiter!Next]_Limiter!vars PROVE LimiterInv'
    OBVIOUS
  <2>1. CASE Limiter!Next
    BY <2>1, AllowKeeps, RejectedKeeps, SuccessKeeps, UnreachableKeeps, TimeKeeps DEF Limiter!Next
  <2>2. CASE UNCHANGED Limiter!vars
    <3>1. now' = now /\ clients' = clients /\ dialing' = dialing /\ failed' = failed
      BY <2>2 DEF Limiter!vars
    <3> QED BY <3>1 DEF LimiterInv, LimiterTypes, Numbered, RecordsOK, Bounded
  <2> QED BY <2>1, <2>2
<1>3. LimiterInv => Limiter!LockoutIsFair
  <2> SUFFICES ASSUME LimiterInv PROVE Limiter!LockoutIsFair
    OBVIOUS
  <2>1. Limiter!NobodyWaitsForTypos
    <3> SUFFICES ASSUME NEW c \in Addresses, clients[c].until # 0
                 PROVE  LET at == clients[c].until - lockout IN
                        Limiter!Failures(c, at, at) > 0 /\ Limiter!Failures(c, at - window, at) >= maxFailures
      BY Zenon DEF Limiter!NobodyWaitsForTypos
    <3>1. PICK at : at = clients[c].until - lockout
      OBVIOUS
    <3>2. LockOK(clients[c], failed, c, now)
      BY DEF LimiterInv, RecordsOK
    <3>3. Count(failed, c, at, at) > 0 /\ Count(failed, c, at - window, at) >= maxFailures
      BY <3>1, <3>2, Zenon DEF LockOK
    <3>4. Limiter!Failures(c, at, at) > 0 /\ Limiter!Failures(c, at - window, at) >= maxFailures
      BY <3>3, FailuresAreCounted, Zenon
    <3> QED BY <3>1, <3>4, Zenon
  <2>2. Limiter!GuessesAreBounded
    <3> SUFFICES ASSUME NEW c \in Addresses, NEW t \in 1..MaxTime
                 PROVE  Limiter!Failures(c, t, t + window - 1)
                          <= IF Limiter!Allowance = 1 THEN 1 ELSE 2 * (Limiter!Allowance - 1)
      BY DEF Limiter!GuessesAreBounded
    <3>1. Quota + Before = IF Limiter!Allowance = 1 THEN 1 ELSE 2 * (Limiter!Allowance - 1)
      BY LimiterFacts DEF Before
    <3>2. Count(failed, c, t, t + window - 1) <= Quota + Before
      BY DEF LimiterInv, Bounded
    <3>3. Limiter!Failures(c, t, t + window - 1) <= Quota + Before
      BY <3>2, FailuresAreCounted, Zenon
    <3> QED BY <3>1, <3>3, Zenon
  <2> QED BY <2>1, <2>2 DEF Limiter!LockoutIsFair
<1> QED BY <1>1, <1>2, <1>3, PTL DEF Limiter!Spec, LockoutIsFair
=============================================================================
