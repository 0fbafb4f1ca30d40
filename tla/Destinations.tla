---------------------------- MODULE Destinations ----------------------------
(***************************************************************************)
(* Where a line goes (tui/ui/expand.go, proxy/api GET /expand): the keys   *)
(* ',' ':' ';' '=' and Tab complete names from Lily's state, recall who    *)
(* wrote last and cycle the recent destinations.  The choice among several *)
(* matches is ComposeLine's popup; upper and lower case are one here.      *)
(***************************************************************************)
EXTENDS Integers, SequencesExt, FiniteSetsExt

CONSTANTS Users, Discs, Me, \* handles; Me is a user
          Names,            \* handle -> what it may be called, sequences of characters
          Pieces,           \* what is typed at a time
          pastSendsMax,
          MaxLine, MaxLog   \* bounds on what is typed and on destinations used

VARIABLES
    entities, \* Lily's state: handle -> name and whether Me may send there
    inputValue, inputCursor,
    expandSender, expandRecips, expandSendgroup, pastSends,
    log,      \* the destinations used and heard from, as they came
    tabbed    \* what Tabs in a row have put in

state == <<expandSender, expandRecips, expandSendgroup, pastSends>>
input == <<inputValue, inputCursor>>
vars == <<entities, input, state, log, tabbed>>

Handles == Users \union Discs
Nothing == <<>>

DestinationsAssumption ==
    /\ Me \in Users /\ pastSendsMax \in Nat \ {0}
    /\ \A h \in Handles : Names[h] \subseteq Seq(STRING)
    /\ Pieces \subseteq Seq(STRING)

-----------------------------------------------------------------------------
Blank == " "
Comma == ","
Semicolon == ";"
Dash == "-"
Keys == {Comma, ":", Semicolon, "="}
AsNamed(c) == IF c = "_" THEN Blank ELSE c
AsTyped(c) == IF c = Blank THEN "_" ELSE c
Underscored(name) == [i \in DOMAIN name |-> AsTyped(name[i])]
\* strings.Join and strings.Split with ",", character by character.
Join(dests) ==
    LET joined[i \in 0..Len(dests)] ==
            IF i = 0 THEN <<>> ELSE IF i = 1 THEN dests[1] ELSE joined[i - 1] \o <<Comma>> \o dests[i]
    IN  joined[Len(dests)]
Split(s) ==
    LET split[i \in 0..Len(s)] ==
            IF i = 0 THEN << <<>> >>
            ELSE IF s[i] = Comma THEN Append(split[i - 1], <<>>)
            ELSE Append(Front(split[i - 1]), Append(Last(split[i - 1]), s[i]))
    IN  split[Len(s)]
\* The loops that leave one out.
Without(s, x) ==
    LET out[i \in 0..Len(s)] ==
            IF i = 0 THEN <<>> ELSE IF s[i] = x THEN out[i - 1] ELSE Append(out[i - 1], s[i])
    IN  out[Len(s)]
Has(s, chars) == ToSet(s) \intersect chars # {}

\* handleExpand: those with exactly this name, else those whose name begins with it;
\* discussions Me is not in are left out.
handleExpand(q) ==
    LET valid == {h \in Handles : h \in Users \/ entities[h].valid}
        exact == {h \in valid : entities[h].name = q}
    IN  IF q = Nothing THEN {} ELSE IF exact # {} THEN exact ELSE {h \in valid : IsPrefix(q, entities[h].name)}

\* A request that fails matches nothing.
Expand(q, answered) == IF answered THEN handleExpand(q) ELSE {}

expandNameMatches(partial, answered) ==
    LET bare == IF partial # Nothing /\ partial[1] = Dash THEN Tail(partial) ELSE partial
    IN  Expand([i \in DOMAIN bare |-> AsNamed(bare[i])], answered)

Completed(h) == (IF h \in Discs THEN <<Dash>> ELSE <<>>) \o Underscored(entities[h].name)

\* The unique match wins.
expandName(partial, answered) ==
    LET matches == expandNameMatches(partial, answered)
    IN  IF Cardinality(matches) = 1 THEN Completed(CHOOSE h \in matches : TRUE) ELSE partial

-----------------------------------------------------------------------------
Mut_pushPastSend(dest) == \* an earlier use of it keeps its place
    /\ pastSends' = LET all == <<dest>> \o pastSends IN SubSeq(all, 1, Min({Len(all), pastSendsMax}))
    /\ log' = Append(log, dest)

pushPastSend(dest) ==
    /\ pastSends' = LET all == <<dest>> \o Without(pastSends, dest)
                    IN  SubSeq(all, 1, Min({Len(all), pastSendsMax}))
    /\ log' = Append(log, dest)

Trim(s) ==
    LET at == {i \in DOMAIN s : s[i] # Blank} IN IF at = {} THEN <<>> ELSE SubSeq(s, Min(at), Max(at))
Ends == {Semicolon, ":"}
Commands == {"/", "$", "?", "%", "#"}

\* What comes before the first ';' or ':' of a send.
parseDestination(line) ==
    LET trimmed == Trim(line)
        at == {i \in DOMAIN trimmed : trimmed[i] \in Ends}
    IN  IF at = {} \/ trimmed[1] \in Commands THEN Nothing ELSE Trim(SubSeq(trimmed, 1, Min(at) - 1))

trackOutgoingSend ==
    LET dest == parseDestination(inputValue) IN
    /\ IF dest = Nothing THEN UNCHANGED <<expandRecips, pastSends, log>>
       ELSE /\ expandRecips' = dest /\ pushPastSend(dest)
    /\ UNCHANGED <<expandSender, expandSendgroup>>

\* A private message from someone else, under the names it came with.
trackIncomingPrivate(source, recips) ==
    LET Dest(h) == Underscored(entities[h].name)
        others == Without(recips, Me)
    IN  /\ expandSender' = Dest(source) /\ pushPastSend(Dest(source))
        /\ expandSendgroup' = IF Len(recips) > 1
                              THEN Join(<<Dest(source)>> \o [i \in DOMAIN others |-> Dest(others[i])])
                              ELSE expandSendgroup
        /\ UNCHANGED expandRecips

-----------------------------------------------------------------------------
fore == SubSeq(inputValue, 1, inputCursor)
aft == SubSeq(inputValue, inputCursor + 1, Len(inputValue))
\* The words of a message are left out: no key but Tab comes behind a separator.
Open == Len(inputValue) < MaxLine /\ ~Has(fore, {":", ";", "="})

Line(s, c) == inputValue' = s /\ inputCursor' = c
Insert(s) == Line(SubSeq(inputValue, 1, inputCursor) \o s \o SubSeq(inputValue, inputCursor + 1, Len(inputValue)),
                  inputCursor + Len(s))
Recalled(key) == CASE key = ":" -> expandSender [] key = ";" -> expandRecips
                   [] key = "=" -> expandSendgroup [] OTHER -> Nothing

\* '=' recalls up to a ';'; these are typed as they are.
Mark(key) == IF key = "=" THEN Semicolon ELSE key
Literally(key) ==
    inputCursor = 0 \/ key = "=" \/ Has(fore, {":", ";", "/"}) \/ fore[1] \in {"$", "?", "%"}

handleExpandKey(key) ==
    /\ Open
    /\ IF inputCursor = 0 /\ Recalled(key) # Nothing
       THEN LET insert == Append(Recalled(key), Mark(key)) IN Line(insert \o inputValue, Len(insert))
       ELSE IF Literally(key) THEN Insert(<<key>>)
       ELSE LET dests == Split(fore)
            IN  \E answered \in SUBSET DOMAIN dests :
                    LET new == Append(Join([i \in DOMAIN dests |-> expandName(dests[i], i \in answered)]), key)
                    IN  Line(new \o aft, Len(new))
    /\ tabbed' = <<>>
    /\ UNCHANGED <<entities, state, log>>

Special == {"]", ";", ":", "=", "?", " ", "["}

\* The destination after base in the ring, or the latest.
Cycled(base) ==
    IF \E i \in DOMAIN pastSends : pastSends[i] = base
    THEN pastSends[1 + ((CHOOSE i \in DOMAIN pastSends : pastSends[i] = base) % Len(pastSends))]
    ELSE pastSends[1]

Recall ==
    /\ inputCursor = 0 /\ pastSends # <<>> /\ Open
    /\ Line(Append(pastSends[1], Semicolon) \o inputValue, Len(pastSends[1]) + 1)
    /\ tabbed' = <<pastSends[1]>>

CompleteName ==
    /\ inputCursor > 0 /\ ~Has(fore, Special)
    /\ \E answered \in BOOLEAN :
          LET dests == Split(fore)
              new == Join([dests EXCEPT ![Len(dests)] = expandName(@, answered)])
          IN  Line(new \o aft, Len(new))
    /\ tabbed' = <<>>

Cycle ==
    /\ inputCursor > 1 /\ Has(fore, Special) /\ ~Has(Front(fore), Special) /\ pastSends # <<>>
    /\ LET full == Append(Cycled(Front(fore)), Semicolon) IN Line(full \o aft, Len(full))
    /\ tabbed' = Append(IF Len(tabbed) < Len(pastSends) THEN tabbed ELSE <<>>, Cycled(Front(fore)))

Who == <<"/", "w", Blank>>
\* The name a command takes; "w" stands for /who, /finger, /join and the others.
tabCompleteCommand ==
    /\ inputCursor = Len(inputValue) /\ Has(fore, Special) /\ Has(Front(fore), Special)
    /\ Len(fore) > 3 /\ SubSeq(fore, 1, 3) = Who /\ ~Has(SubSeq(fore, 4, Len(fore)), {Blank})
    /\ \E answered \in BOOLEAN :
          LET new == SubSeq(fore, 1, 3) \o expandName(SubSeq(fore, 4, Len(fore)), answered) IN Line(new, Len(new))
    /\ tabbed' = <<>>

tabComplete ==
    /\ Recall \/ CompleteName \/ Cycle \/ tabCompleteCommand
    /\ UNCHANGED <<entities, state, log>>

Type(piece) ==
    /\ Open /\ Insert(piece)
    /\ tabbed' = <<>> /\ UNCHANGED <<entities, state, log>>

Home ==
    /\ inputCursor > 0 /\ inputCursor' = 0
    /\ tabbed' = <<>> /\ UNCHANGED <<inputValue, entities, state, log>>

Enter ==
    /\ inputValue # <<>> /\ Len(log) < MaxLog /\ trackOutgoingSend /\ Line(<<>>, 0)
    /\ tabbed' = <<>> /\ UNCHANGED entities

Hear(source, recips) ==
    /\ Len(log) < MaxLog /\ trackIncomingPrivate(source, recips)
    /\ tabbed' = <<>> /\ UNCHANGED <<entities, input>>

Init ==
    /\ \E names \in [Handles -> UNION {Names[h] : h \in Handles}], away \in SUBSET Discs :
          /\ \A h \in Handles : names[h] \in Names[h]
          /\ entities = [h \in Handles |-> [name |-> names[h], valid |-> h \notin away]]
    /\ inputValue = <<>> /\ inputCursor = 0
    /\ expandSender = Nothing /\ expandRecips = Nothing /\ expandSendgroup = Nothing /\ pastSends = <<>>
    /\ log = <<>> /\ tabbed = <<>>

Next ==
    \/ \E piece \in Pieces : Type(piece)
    \/ \E key \in Keys : handleExpandKey(key)
    \/ tabComplete \/ Home \/ Enter
    \/ \E h \in Users \ {Me} : Hear(h, <<Me>>) \/ \E k \in Users \ {h, Me} : Hear(h, <<Me, k>>)

Spec == Init /\ [][Next]_vars

-----------------------------------------------------------------------------
LastUse(dest) == Max({0} \union {i \in DOMAIN log : log[i] = dest})

\* The recent destinations are the latest used or heard from, each once and the
\* latest first, whether they were typed, completed or recalled; Tab after Tab
\* offers each of them before one a second time.
RecentComeFirst ==
    /\ \A i \in DOMAIN pastSends :
          /\ LastUse(pastSends[i]) > 0
          /\ \A k \in DOMAIN pastSends : i < k => LastUse(pastSends[i]) > LastUse(pastSends[k])
    /\ \A n \in DOMAIN log : log[n] \notin ToSet(pastSends) =>
          Len(pastSends) = pastSendsMax /\ LastUse(log[n]) < LastUse(Last(pastSends))
    /\ IsInjective(tabbed)
=============================================================================
