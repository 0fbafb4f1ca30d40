---- MODULE MCLilySays ----
(* LilySays on small instances, and how what is said is fitted to the screen.  part says
   which component runs; they do not interact. *)
EXTENDS LilySays, TLC

CONSTANTS f1, f2, t1

\* /info and /memo fetches, and a typed command that is neither.
SomeVerbs == (f1 :> "/info") @@ (f2 :> "/memo") @@ (t1 :> "/who")

\* Two fetches of memos, and nothing typed.
SameVerb == (f1 :> "/memo") @@ (f2 :> "/memo")

\* The fetches differ by their verbs alone, and no other command has either.
EitherFetch == Permutations({f1, f2})

\* Two users, a discussion, and every kind of event.
Person(n, b) == [name |-> n, blurb |-> b, state |-> "here"]
SomeWorld == [h \in {"#1", "#2", "#5"} |->
    IF h = "#1" THEN Person("Ann", "") ELSE IF h = "#2" THEN Person("Bob", "busy") ELSE Person("cafe", "")]
Saying(k, u, r, t, s, v) ==
    [kind |-> k, source |-> u, recips |-> r, targets |-> t, sub |-> s, value |-> v]
SomeEvents ==
    LET either == {"#1", "#2"}
        lists == {<<>>, <<"#5">>}
    IN {Saying(k, u, <<>>, <<>>, "", "") : u \in either,
          k \in {"connect", "attach", "here", "unidle", "ignore", "unignore"}}
       \cup {Saying(k, u, <<>>, <<>>, "", v) : u \in either, v \in {"", "x"},
          k \in {"disconnect", "detach", "away", "sysmsg"}}
       \cup {Saying(k, u, r, <<>>, "", "") : u \in either, r \in lists, k \in {"create", "join", "quit"}}
       \cup {Saying(k, u, r, <<>>, "", v) : u \in either, r \in lists, v \in {"", "x"},
          k \in {"info", "retitle", "drename", "review", "public", "emote"}}
       \cup {Saying(k, u, r, <<>>, "", "x") : u \in either, r \in {<<"#1">>, <<"#1", "#2">>},
          k \in {"private", "pa"}}
       \cup {Saying(k, u, <<"#5">>, t, s, "") : u \in either, t \in {<<>>, <<"#1">>, <<"#2">>},
          k \in {"permit", "depermit", "appoint", "unappoint"}, s \in {"", "owner", "speaker"}}
       \cup {Saying(k, u, r, <<>>, s, "") : u \in either, r \in lists,
          k \in {"permit", "depermit", "appoint", "unappoint"}, s \in {"owner", "author"}}
       \cup {Saying("destroy", "#2", <<>>, <<>>, "", ""), Saying("wibble", "#2", <<>>, <<>>, "", "x")}

SomeRenames == {<<"#2", "Rob">>}

\* A message, an emote after its header, a text without any, and a banner.
SomeOpenings == {<<3, 3, 0>>, <<5, 2, 1>>, <<6, 2, 0>>, <<0, 0, 0>>, <<4, 4, 0>>}

VARIABLES
    part, \* the component that runs
    text, maxWidth, prefix, word, consumed, curLine, sep, lineHasContent, lines, done,
    bytes, width, pieces

Screen == INSTANCE TextWrap WITH
    MaxText <- 9, Widths <- {0, 2, 4, 5, 7}, Openings <- SomeOpenings,
    Symbols <- {"a", "esc", "[", "]", "m", "0", "bel", "\\"}, MaxOutputLine <- 5, Columns <- {0, 2}

ASSUME Told!EventAssumption

ToldVars == <<st, events, socket, mine, answer, behind>>

ScreenVars == <<text, maxWidth, prefix, word, consumed, curLine, sep, lineHasContent,
                lines, done, bytes, width, pieces>>
ScreenIsIdle == Screen!Init /\ text = <<>> /\ bytes = <<>> /\ prefix = <<0, 0, 0>> /\ maxWidth = 1

AllInit ==
    \/ part = "routing" /\ Init /\ Told!Init /\ ScreenIsIdle
    \/ part = "events" /\ Told!Init /\ Init /\ ScreenIsIdle
    \/ part = "screen" /\ Screen!Init /\ Init /\ Told!Init

AllNext ==
    \/ part = "routing" /\ Next /\ UNCHANGED <<part, ToldVars, ScreenVars>>
    \/ part = "events" /\ Told!Next /\ UNCHANGED <<part, vars, ScreenVars>>
    \/ part = "screen" /\ Screen!Next /\ UNCHANGED <<part, vars, ToldVars>>

AllVars == <<part, vars, ToldVars, ScreenVars>>
AllSpec ==
    /\ AllInit
    /\ [][AllNext]_AllVars

-----------------------------------------------------------------------------
\* Read from the first to the last, the lines of a wrapped message show every
\* character once and in its place, with the sender's blanks, behind a prefix at
\* most, and no line but a bare header is too wide.  (format.go wrapTextCore)
WrapsAsTyped == Screen!WrapsAsTyped

\* The pieces of a line cut by characters are the line, each fits the width, and
\* each but the last fills it and ends outside any escape sequence, as escSeqLen
\* reads them.  (format.go charWrapLinkify, escSeqLen)
PiecesStandAlone == Screen!PiecesStandAlone
====
