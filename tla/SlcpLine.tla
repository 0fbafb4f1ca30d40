------------------------------ MODULE SlcpLine ------------------------------
(***************************************************************************)
(* From bytes to messages: Conn.readLine (lily/conn.go) cuts what Lily     *)
(* writes into lines, and takes a login prompt, which has no newline, when *)
(* nothing follows it for half a second; slcp/parser.go reads each line,   *)
(* one parameter at a time.  What Lily writes is external.  A keyword or a *)
(* parameter's name is one symbol, and so is a handle; the bytes of a      *)
(* value are symbols each.                                                 *)
(***************************************************************************)
EXTENDS Integers, SequencesExt, FiniteSetsExt, TLC

CONSTANTS Bytes,   \* of a value: "a", and what means something to the parser
          MaxData  \* bound on a value's length, below 10

VARIABLES
    left, sent, \* the messages Lily has still to write, and those it has written
    wire, \* the bytes on their way
    buf,  \* readLine's buffer
    line, \* the line parseParams is at, pos in it, and the params so far
    pos, params,
    got   \* the messages handed on

vars == <<left, sent, wire, buf, line, pos, params, got>>

-----------------------------------------------------------------------------
Digits == <<"1", "2", "3", "4", "5", "6", "7", "8", "9">>
Number(s) == FoldLeft(LAMBDA n, d : 10 * n + (IF d = "0" THEN 0 ELSE CHOOSE k \in DOMAIN Digits : Digits[k] = d), 0, s)
Prompts == {"login:", "password:"}
Tables == {"NOTIFY", "USER", "DISC", "GROUP"}
Bounds == {"begin", "end", "command"}
Msg(type, body) == [type |-> type, body |-> body]
Raw(s) == Msg("RAW", [text |-> s])

FirstAt(s, from, P(_)) == LET at == {n \in from..Len(s) : P(s[n])} IN IF at = {} THEN Len(s) + 1 ELSE Min(at)
TrimSpace(s) == LET at == {n \in DOMAIN s : s[n] # " "} IN IF at = {} THEN <<>> ELSE SubSeq(s, Min(at), Max(at))

-----------------------------------------------------------------------------
\* Lily's side.  A flag goes out as its name, a value plainly when it can be told
\* from what follows, else behind its length.
Flag == <<"1">>
Plain(v) == v # <<>> /\ \A n \in DOMAIN v : v[n] \notin {"=", " ", "nl"}
EncodeField(k, v) ==
    <<" ", k>> \o (IF v = Flag /\ k \in {"NOTIFY", "EMPTY"} THEN <<>>
                   ELSE IF Plain(v) THEN <<"=">> \o v
                   ELSE <<"=", IF v = <<>> THEN "0" ELSE Digits[Len(v)], "=">> \o v)
Listed(hs) == FlattenSeq([n \in DOMAIN hs |-> IF n = 1 THEN <<hs[n]>> ELSE <<",", hs[n]>>])
Fields(m) ==
    CASE m.type = "NOTIFY" ->
            <<<<"EVENT", <<m.body.event>>>>>>
            \o (IF m.body.empty THEN <<<<"EMPTY", Flag>>>> ELSE <<<<"VALUE", m.body.value>>>>)
            \o (IF m.body.recips = <<>> THEN <<>> ELSE <<<<"RECIPS", Listed(m.body.recips)>>>>)
            \o (IF m.body.notify THEN <<<<"NOTIFY", Flag>>>> ELSE <<>>)
      [] m.type \in {"USER", "DISC"} -> <<<<"HANDLE", <<m.body.handle>>>>, <<"NAME", m.body.name>>>>
      [] m.type = "GROUP" -> <<<<"NAME", m.body.name>>, <<"MEMBERS", Listed(m.body.members)>>>>
Encode(m, backwards) ==
    LET fields == IF backwards THEN Reverse(Fields(m)) ELSE Fields(m) IN
    IF m.type \in Prompts THEN <<m.type>>
    ELSE (CASE m.type \in Tables -> <<m.type>> \o FlattenSeq([n \in DOMAIN fields |-> EncodeField(fields[n][1], fields[n][2])])
            [] m.type \in Bounds -> <<m.type, " ", "[", m.body.id, "]", " ">> \o m.body.text
            [] m.type = "RAW" -> m.body.text) \o <<"cr", "nl">>

\* Lily's handles, what it writes of users, groups and events, commands whose
\* text says anything, and the login prompt.
Data == UNION {[1..n -> Bytes] : n \in 0..MaxData}
Texts == {d \in Data : TrimSpace(d) = d /\ "nl" \notin ToSet(d)}
Messages ==
    {Msg("USER", [handle |-> "#1", name |-> v]) : v \in Data}
    \union {Msg("GROUP", [name |-> v, members |-> <<"#1", "#2">>]) : v \in Data}
    \union {Msg("NOTIFY", [event |-> e, value |-> v, recips |-> r, notify |-> n, empty |-> FALSE]) :
               e \in {"public", "rename"}, v \in Data, r \in {<<>>, <<"#1", "#2">>}, n \in BOOLEAN}
    \union {Msg("NOTIFY", [event |-> "blurb", value |-> <<>>, recips |-> <<>>, notify |-> TRUE, empty |-> TRUE])}
    \union {Msg(t, [id |-> i, text |-> v]) : t \in Bounds, i \in {"1", "2"}, v \in Texts}
    \union {Raw(v) : v \in Texts} \union {Msg("login:", [text |-> <<>>])}

PromptsIn(s) == Len(SelectSeq(s, LAMBDA m : m.type \in Prompts))
Write ==
    /\ left # <<>> /\ wire = <<>>
    /\ PromptsIn(sent) = PromptsIn(got) \* Lily waits for the answer to a prompt
    /\ \E backwards \in BOOLEAN : wire' = Encode(Head(left), backwards)
    /\ left' = Tail(left) /\ sent' = Append(sent, Head(left))
    /\ UNCHANGED <<buf, line, pos, params, got>>

-----------------------------------------------------------------------------
\* A line of a leafed command's output: an id up to the first "] ", then the output.
SplitCommandPrefix(s) ==
    LET at == {n \in DOMAIN s : s[n] = "]" /\ n < Len(s) /\ s[n + 1] = " "} IN
    IF at = {} THEN Raw(s) ELSE Msg("command", [id |-> s[4], text |-> SubSeq(s, Min(at) + 2, Len(s))])

\* A command's id is between the first brackets, what follows them its text.
parseCmdBound(s) ==
    LET close == FirstAt(s, 1, LAMBDA x : x = "]")
        open == FirstAt(s, 1, LAMBDA x : x = "[")
    IN  Msg(s[1], [id |-> s[open + 1], text |-> TrimSpace(SubSeq(s, close + 1, Len(s)))])

\* Parse: what the line begins with says what it is.  Types with parameters go to
\* parseParams, which begins behind the type.
Parse(s) ==
    LET Hand(m) == got' = Append(got, m) /\ UNCHANGED <<line, pos, params>>
        is == IF s = <<>> THEN "RAW" ELSE s[1]
    IN  CASE is \in Tables -> line' = s /\ pos' = 2 /\ params' = <<>> /\ UNCHANGED got
          [] is \in {"begin", "end"} -> Hand(parseCmdBound(s))
          [] is = "command" -> Hand(SplitCommandPrefix(s))
          [] is \in Prompts /\ Len(s) = 1 -> Hand(Msg(is, [text |-> <<>>]))
          [] OTHER -> Hand(Raw(s))

readLine ==
    /\ line = <<>> /\ wire # <<>> /\ wire' = Tail(wire)
    /\ IF Head(wire) # "nl" THEN buf' = Append(buf, Head(wire)) /\ UNCHANGED <<line, pos, params, got>>
       ELSE buf' = <<>> /\ Parse(IF buf # <<>> /\ Last(buf) = "cr" THEN Front(buf) ELSE buf)
    /\ UNCHANGED <<left, sent>>

\* Half a second without a byte: only a prompt is taken as it stands.
ReadDeadline ==
    /\ line = <<>> /\ buf # <<>> /\ buf[1] \in Prompts
    /\ buf' = <<>> /\ Parse(buf)
    /\ UNCHANGED <<left, sent, wire>>

-----------------------------------------------------------------------------
Get(k, else) == IF <<k>> \in DOMAIN params THEN params[<<k>>] ELSE else
Split(s) == SelectSeq(s, LAMBDA x : x # ",") \* a handle is one symbol

\* The server does not reliably set NOTIFY for message events.
ParseNotify ==
    [event |-> Get("EVENT", <<"">>)[1], value |-> Get("VALUE", <<>>), recips |-> Split(Get("RECIPS", <<>>)),
     notify |-> Get("NOTIFY", <<>>) = Flag \/ Get("EVENT", <<"">>)[1] \in {"emote", "public", "private"},
     empty |-> <<"EMPTY">> \in DOMAIN params]
ParseUser == [handle |-> Get("HANDLE", <<"">>)[1], name |-> Get("NAME", <<>>)]
ParseGroup == [name |-> Get("NAME", <<>>), members |-> Split(Get("MEMBERS", <<>>))]

Finish ==
    /\ got' = Append(got, Msg(line[1], CASE line[1] = "NOTIFY" -> ParseNotify
                                         [] line[1] = "GROUP" -> ParseGroup
                                         [] OTHER -> ParseUser))
    /\ line' = <<>> /\ pos' = 0 /\ params' = <<>>

\* A line whose data is shorter than it says is dropped.
Drop == line' = <<>> /\ pos' = 0 /\ params' = <<>> /\ UNCHANGED got

Set(key, value, next) == params' = (key :> value) @@ params /\ pos' = next /\ UNCHANGED <<line, got>>

Mut_lengthOf(p) == \* a number is a length whatever follows it
    LET numEnd == FirstAt(line, p, LAMBDA x : x \notin ToSet(Digits) \union {"0"}) IN numEnd - p

\* How many digits of a length stand at p: digits with "=" behind them.
lengthOf(p) ==
    LET numEnd == FirstAt(line, p, LAMBDA x : x \notin ToSet(Digits) \union {"0"})
    IN  IF numEnd > p /\ numEnd <= Len(line) /\ line[numEnd] = "=" THEN numEnd - p ELSE 0

\* One pass of parseParams' loop.
parseParams ==
    /\ line # <<>>
    /\ LET start == FirstAt(line, pos, LAMBDA x : x # " ")
           stop == FirstAt(line, start, LAMBDA x : x \in {"=", " "})
           key == SubSeq(line, start, stop - 1)
           p == stop + 1
           data == p + lengthOf(p) + 1
           length == Number(SubSeq(line, p, data - 2))
           space == FirstAt(line, p, LAMBDA x : x = " ")
       IN  IF key = <<>> THEN Finish
           ELSE IF stop > Len(line) \/ line[stop] = " " THEN Set(key, Flag, stop)
           ELSE IF lengthOf(p) = 0 THEN Set(key, SubSeq(line, p, space - 1), space)
           ELSE IF data + length > Len(line) + 1 THEN Drop
           ELSE Set(key, SubSeq(line, data, data + length - 1), data + length)
    /\ UNCHANGED <<left, sent, wire, buf>>

Init ==
    /\ left \in {<<m, Msg("USER", [handle |-> "#2", name |-> <<"a">>]), Msg("login:", [text |-> <<>>])>> : m \in Messages}
    /\ sent = <<>> /\ wire = <<>> /\ buf = <<>> /\ line = <<>> /\ pos = 0 /\ params = <<>> /\ got = <<>>

Next == Write \/ readLine \/ ReadDeadline \/ parseParams

Spec == Init /\ [][Next]_vars

-----------------------------------------------------------------------------
\* What a message means: an event that carries words is always told.  Whole: no
\* value of it holds a newline.
Meant(m) == IF m.type = "NOTIFY" /\ m.body.event = "public" THEN [m EXCEPT !.body.notify = TRUE] ELSE m
Whole(m) == "nl" \notin ToSet(Encode(m, FALSE)) \/ \A n \in DOMAIN Encode(m, FALSE) :
               Encode(m, FALSE)[n] = "nl" => n = Len(Encode(m, FALSE))
Told(s) == SelectSeq(s, LAMBDA m : m.type # "RAW")

\* Every message whose values hold no newline is read as it was meant, in order,
\* whatever else they hold and in whatever order its parameters come.  A newline in
\* a value, which the length before it should allow, costs the message that it is
\* in, and no other: readLine has cut the line there before parseParams has it.
ReadsBack ==
    LET due == [n \in DOMAIN Told(SelectSeq(sent, Whole)) |-> Meant(Told(SelectSeq(sent, Whole))[n])] IN
    /\ IsPrefix(Told(got), due)
    /\ wire = <<>> /\ buf = <<>> /\ line = <<>> => Told(got) = due
=============================================================================
