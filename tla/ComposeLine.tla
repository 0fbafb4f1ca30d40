---------------------------- MODULE ComposeLine -----------------------------
(***************************************************************************)
(* The line being composed in the terminal client (tui/ui: input.go,       *)
(* completion.go, expand.go, shorten.go, linkpreview.go): editing and the  *)
(* kill ring, history, incremental search, the completion popup, pastes,   *)
(* link previews and shortened links.  Keys come one at a time; the        *)
(* answers about links come whenever they come.                            *)
(*                                                                         *)
(* A line is a sequence of <<letter, stamp>>: the letters are "a" for any  *)
(* word, "_" a space, ";" the end of the destination, "u" a long URL, "s"  *)
(* its short form, "h" the host shown after that, "n" an accepted preview, *)
(* "d" a recalled destination, "N" a completed name.  What the user typed  *)
(* or pasted has a stamp of its own, everything else has 0.  A URL is one  *)
(* letter: to edit inside it is to remove it.                              *)
(***************************************************************************)
EXTENDS Integers, FiniteSets, SequencesExt

CONSTANTS
    Typable,    \* the letters the user types or pastes
    MaxTyped,   \* bound on what is ever typed
    MaxLine,    \* bound on the line and on the kill ring
    MaxHistory, \* bound on the history
    MaxPattern, \* bound on a search pattern
    MaxFetches, \* bound on the previews and short links ever asked for
    Focuses     \* the sets of key groups, each explored on its own

Space == "_"
Semicolon == ";"

ComposeAssumption ==
    /\ Typable \subseteq {"a", Space, Semicolon, "u"}
    /\ Focuses \subseteq SUBSET {"edit", "kill", "past", "name", "link", "paste"}
    /\ {MaxTyped, MaxLine, MaxHistory, MaxPattern, MaxFetches} \subseteq Nat

VARIABLES
    line, cursor,             \* Model: inputValue, inputCursor
    killRing, lastKill,
    history, historyPos, historySave, \* historyPos is 0 for -1
    search,                   \* Model: searchMode, searchBack, searchBuf, ...
    popup,                    \* Model: completionActive, and the stamps of its token
    paste,                    \* Model: pasteMode, pasteEatBuf
    previews,                 \* Model: linkPreviewCache, ...Pending, ...Dismissed
    shortenPending,           \* Model: the occurrences being shortened
    typed,    \* history: how many stamps were given out
    fetches,  \* how many fetches were started
    gone,     \* history: the stamps the user removed or replaced
    under,    \* history: the stamps typed or pasted while a popup was open
    killedOf, \* history: the line before the kills in a row, in one, or none
    entered,  \* history: the line the search was entered from, in one, or none
    focus     \* the key groups in use, besides typing

text == <<line, cursor>>
kills == <<killRing, lastKill>>
past == <<history, historyPos, historySave>>
links == <<previews, shortenPending, fetches>>
vars == <<text, kills, past, search, popup, paste, links, typed, gone, under, killedOf, entered, focus>>

Letters == {"a", Space, Semicolon, "u", "s", "h", "n", "d", "N"}
Atoms == Letters \X (0..MaxTyped)

TypeOK ==
    /\ {line, killRing, historySave, search.save} \subseteq Seq(Atoms)
    /\ history \in Seq(Seq(Atoms) \ {<<>>})
    /\ cursor \in 0..Len(line)
    /\ historyPos \in 0..Len(history)
    /\ search.idx \in 1..Len(history) + 1 /\ search.pos \in 0..Len(line)
    /\ popup.token \subseteq 1..typed

-----------------------------------------------------------------------------
(* Lines                                                                   *)

NoSearch == [on |-> FALSE, back |-> FALSE, buf |-> <<>>, save |-> <<>>, idx |-> 1, pos |-> 0]
NoPopup == [on |-> FALSE, token |-> {}]

Stamps(s) == {s[i][2] : i \in DOMAIN s} \ {0}
First(s, n) == SubSeq(s, 1, n)
From(s, n) == SubSeq(s, n + 1, Len(s))
Put(s, at, new) == First(s, at) \o new \o From(s, at)

IsWord(atom) == atom[1] \notin {Space, Semicolon}
WordStartBefore(s, pos) ==
    LET ends == {i \in 1..pos : IsWord(s[i])}
        end == IF ends = {} THEN 0 ELSE CHOOSE i \in ends : \A j \in ends : j <= i
        gaps == {i \in 1..end : ~IsWord(s[i])}
    IN IF gaps = {} THEN 0 ELSE CHOOSE i \in gaps : \A j \in gaps : j <= i
WordEndAfter(s, pos) ==
    LET starts == {i \in pos + 1..Len(s) : IsWord(s[i])}
        start == IF starts = {} THEN Len(s) ELSE CHOOSE i \in starts : \A j \in starts : i <= j
        gaps == {i \in start + 1..Len(s) : ~IsWord(s[i])}
    IN IF gaps = {} THEN Len(s) ELSE (CHOOSE i \in gaps : \A j \in gaps : i <= j) - 1

\* inputURLSpans: the positions of the URLs that nothing has been glued to
Spans(s) ==
    {i \in DOMAIN s :
       \/ s[i][1] = "s"
       \/ /\ s[i][1] = "u"
          /\ \A j \in i + 1..Len(s) :
               (\A k \in i + 1..j - 1 : s[k][1] = Semicolon) => s[j][1] \in {Semicolon, Space, "n", "h"}}
Key(s, i) == <<s[i][1], Cardinality({j \in Spans(s) : j < i /\ s[j][1] = s[i][1]})>>

\* ghosts: where a preview, or the note that there is none, is drawn
AlreadyOffered(s) == \E i \in DOMAIN s : s[i][1] = "n"
Ghosts(s) ==
    {i \in Spans(s) :
       /\ previews.cache[s[i][1]] # "unknown"
       /\ Key(s, i) \notin previews.dismissed
       /\ previews.cache[s[i][1]] = "text" => ~AlreadyOffered(s)}

-----------------------------------------------------------------------------
Init ==
    /\ line = <<>> /\ cursor = 0
    /\ killRing = <<>> /\ lastKill = FALSE
    /\ history = <<>> /\ historyPos = 0 /\ historySave = <<>>
    /\ search = NoSearch /\ popup = NoPopup
    /\ paste = [on |-> FALSE, eat |-> FALSE]
    /\ previews = [cache |-> [k \in {"u", "s"} |-> "unknown"], pending |-> {}, dismissed |-> {}]
    /\ shortenPending = {}
    /\ focus \in Focuses
    /\ typed = 0 /\ fetches = 0 /\ gone = {} /\ under = {} /\ killedOf = <<>> /\ entered = <<>>

\* The keys of handleNormalKey, with neither search nor popup in the way
Normal == ~search.on /\ ~popup.on

LineIs(s, c) == Len(s) <= MaxLine /\ line' = s /\ cursor' = c

\* previewCmds for a line s, with p for what is known of previews
PreviewCmds(p, s, force) ==
    LET asked == {s[i][1] : i \in {j \in Spans(s) : force \/ j < Len(s)}}
        new == {u \in asked : p.cache[u] = "unknown"} \ p.pending
    IN /\ fetches + Cardinality(new) <= MaxFetches
       /\ fetches' = fetches + Cardinality(new)
       /\ previews' = [p EXCEPT !.pending = @ \cup new]

\* Any key but a kill ends the run of kills; inputChanged is its tail.
KeyDone(p, s) ==
    /\ PreviewCmds(p, s, FALSE)
    /\ lastKill' = FALSE /\ killedOf' = <<>>
    /\ paste' = [paste EXCEPT !.eat = FALSE]
    /\ UNCHANGED <<search, entered, under>>
Edited(s, c) == LineIs(s, c) /\ KeyDone(previews, s) /\ UNCHANGED shortenPending

-----------------------------------------------------------------------------
(* Typing and pasting                                                      *)

\* pasteRune: in paste mode a run of spaces is one
Eaten(letter) == paste.on /\ letter = Space /\ paste.eat

\* A printable key, or one that expand leaves alone.  In paste mode it
\* returns before the run of kills is ended and before a preview is asked for.
Type(letter) ==
    /\ Normal /\ typed < MaxTyped /\ ~Eaten(letter)
    /\ typed' = typed + 1
    /\ LineIs(Put(line, cursor, <<<<letter, typed + 1>>>>), cursor + 1)
    /\ paste' = [paste EXCEPT !.eat = paste.on /\ letter = Space]
    /\ IF paste.on THEN UNCHANGED <<lastKill, previews, fetches>>
       ELSE lastKill' = FALSE /\ PreviewCmds(previews, line', FALSE)
    /\ killedOf' = <<>>
    /\ UNCHANGED <<killRing, past, search, popup, shortenPending, gone, under, entered>>

\* handlePaste, which neither closes the popup nor ends the run of kills
Paste(letter) ==
    /\ ~search.on /\ typed < MaxTyped /\ ~Eaten(letter)
    /\ typed' = typed + 1
    /\ LineIs(Put(line, cursor, <<<<letter, typed + 1>>>>), cursor + 1)
    /\ PreviewCmds(previews, line', TRUE)
    /\ under' = IF popup.on THEN under \cup {typed + 1} ELSE under
    /\ paste' = [paste EXCEPT !.eat = paste.on /\ letter = Space]
    /\ killedOf' = <<>>
    /\ UNCHANGED <<kills, past, search, popup, shortenPending, gone, entered>>

TogglePaste ==
    /\ Normal
    /\ paste' = [on |-> ~paste.on, eat |-> FALSE]
    /\ UNCHANGED <<text, kills, past, search, popup, links, typed, gone, under, killedOf, entered>>

\* handleExpandKey: at the start it recalls a destination, after a name that
\* the proxy knows it puts the whole of it.
Expands == ~paste.on /\ cursor > 0 /\ \A i \in 1..cursor : line[i][1] \notin {Semicolon, "u", "s"}
Expand ==
    /\ Normal /\ typed < MaxTyped
    /\ typed' = typed + 1
    /\ \/ /\ cursor = 0 /\ ~paste.on
          /\ Edited(<<<<"d", 0>>, <<Semicolon, typed + 1>>>> \o line, 2)
          /\ UNCHANGED gone
       \/ /\ Expands
          /\ Edited(<<<<"N", 0>>, <<Semicolon, typed + 1>>>> \o From(line, cursor), 2)
          /\ gone' = gone \cup Stamps(First(line, cursor))
    /\ UNCHANGED <<killRing, past, popup>>

-----------------------------------------------------------------------------
(* Moving and deleting                                                     *)

Move ==
    /\ Normal
    /\ \E c \in {0, Len(line), cursor - 1, cursor + 1,
                 WordStartBefore(line, cursor), WordEndAfter(line, cursor)} \cap 0..Len(line) :
         Edited(line, c)
    /\ UNCHANGED <<killRing, past, popup, typed, gone>>

\* handleInputClick: ends a search where it stands, closes the popup
Click(c) ==
    /\ c \in 0..Len(line)
    /\ cursor' = c /\ UNCHANGED line
    /\ popup' = NoPopup
    /\ search' = [NoSearch EXCEPT !.pos = 0]
    /\ gone' = gone \cup (Stamps(search.save) \ Stamps(line))
    /\ lastKill' = FALSE /\ killedOf' = <<>> /\ entered' = <<>>
    /\ UNCHANGED <<killRing, past, paste, links, typed, under>>

\* Backspace at the end of a previewed URL takes the preview away.
DeleteBack ==
    /\ Normal
    /\ IF cursor \in Ghosts(line)
       THEN /\ KeyDone([previews EXCEPT !.dismissed = @ \cup {Key(line, cursor)}], line)
            /\ UNCHANGED <<text, shortenPending, gone>>
       ELSE /\ cursor > 0
            /\ Edited(First(line, cursor - 1) \o From(line, cursor), cursor - 1)
            /\ gone' = gone \cup Stamps(<<line[cursor]>>)
    /\ UNCHANGED <<killRing, past, popup, typed>>

DeleteForward ==
    /\ Normal /\ cursor < Len(line)
    /\ Edited(First(line, cursor) \o From(line, cursor + 1), cursor)
    /\ gone' = gone \cup Stamps(<<line[cursor + 1]>>)
    /\ UNCHANGED <<killRing, past, popup, typed>>

\* deleteWordBack, killLineBack, deleteWordForward, killLine: the line loses
\* what is between from and to, and the cursor is at one of the two.
Killed(from, to) ==
    LET cut == SubSeq(line, from + 1, to) IN
    IF ~lastKill THEN cut
    ELSE IF from < cursor THEN cut \o killRing ELSE killRing \o cut
Kill ==
    /\ Normal
    /\ \E span \in {<<WordStartBefore(line, cursor), cursor>>, <<0, cursor>>,
                    <<cursor, WordEndAfter(line, cursor)>>, <<cursor, Len(line)>>} :
         LET from == span[1] to == span[2] IN
         /\ Len(killRing) + to - from <= MaxLine
         /\ killRing' = Killed(from, to) /\ lastKill' = TRUE
         /\ LineIs(First(line, from) \o From(line, to), from)
         /\ gone' = gone \cup Stamps(SubSeq(line, from + 1, to))
    /\ PreviewCmds(previews, line', FALSE)
    /\ killedOf' = IF lastKill THEN killedOf ELSE <<line>>
    /\ paste' = [paste EXCEPT !.eat = FALSE]
    /\ UNCHANGED <<past, search, popup, shortenPending, typed, under, entered>>

Yank ==
    /\ Normal
    /\ Edited(Put(line, cursor, killRing), cursor + Len(killRing))
    /\ UNCHANGED <<killRing, past, popup, typed, gone>>

TransposeChars ==
    LET pos == IF cursor >= Len(line) THEN Len(line) - 1 ELSE cursor IN
    /\ Normal /\ Len(line) >= 2 /\ pos > 0
    /\ Edited([line EXCEPT ![pos] = line[pos + 1], ![pos + 1] = line[pos]], pos + 1)
    /\ UNCHANGED <<killRing, past, popup, typed, gone>>

\* The names are the source's.
TransposedWords ==
    LET word1End == WordStartBefore(line, cursor)
        word1Start == WordStartBefore(line, word1End)
        words == {i \in cursor + 1..Len(line) : IsWord(line[i])}
        word2Start == IF words = {} THEN Len(line)
                      ELSE (CHOOSE i \in words : \A j \in words : i <= j) - 1
        word2End == WordEndAfter(line, word2Start)
    IN [ok |-> word1End > 0 /\ word2Start < word2End /\ word1Start < word1End,
        new |-> First(line, word1Start) \o SubSeq(line, word2Start + 1, word2End)
                \o SubSeq(line, word1End + 1, word2Start)
                \o SubSeq(line, word1Start + 1, word1End) \o From(line, word2End),
        end |-> word2End]
TransposeWords ==
    /\ Normal /\ TransposedWords.ok
    /\ Edited(TransposedWords.new, TransposedWords.end)
    /\ UNCHANGED <<killRing, past, popup, typed, gone>>

-----------------------------------------------------------------------------
(* History and search                                                      *)

\* Text shown from the history and then edited is given up by moving on.
HistoryPrev ==
    /\ Normal /\ history # <<>>
    /\ historySave' = IF historyPos = 0 THEN line ELSE historySave
    /\ historyPos' = IF historyPos = 0 THEN Len(history)
                     ELSE IF historyPos > 1 THEN historyPos - 1 ELSE 1
    /\ Edited(history[historyPos'], Len(history[historyPos']))
    /\ gone' = IF historyPos = 0 THEN gone ELSE gone \cup Stamps(line)
    /\ UNCHANGED <<killRing, history, popup, typed>>

HistoryNext ==
    /\ Normal /\ historyPos > 0
    /\ historyPos' = IF historyPos < Len(history) THEN historyPos + 1 ELSE 0
    /\ LET s == IF historyPos' > 0 THEN history[historyPos'] ELSE historySave IN
         Edited(s, Len(s))
    /\ gone' = gone \cup (Stamps(line) \ Stamps(historySave))
    /\ UNCHANGED <<killRing, history, historySave, popup, typed>>

Mut_EnterSearch(back) ==
    /\ Normal /\ ~paste.on
    /\ search' = [on |-> TRUE, back |-> back, buf |-> <<>>, save |-> historySave,
                  idx |-> Len(history) + 1, pos |-> IF back THEN Len(line) ELSE 0]
    /\ entered' = <<line>>
    /\ lastKill' = FALSE /\ killedOf' = <<>> /\ PreviewCmds(previews, line, FALSE)
    /\ UNCHANGED <<text, killRing, past, popup, paste, shortenPending, typed, gone, under>>
EnterSearch(back) ==
    /\ Normal /\ ~paste.on
    /\ search' = [on |-> TRUE, back |-> back, buf |-> <<>>, save |-> line,
                  idx |-> Len(history) + 1, pos |-> IF back THEN Len(line) ELSE 0]
    /\ entered' = <<line>>
    /\ lastKill' = FALSE /\ killedOf' = <<>> /\ PreviewCmds(previews, line, FALSE)
    /\ UNCHANGED <<text, killRing, past, popup, paste, shortenPending, typed, gone, under>>

\* searchLineAt; the entry after the history is the line that was saved
LineAt(idx) == IF idx > Len(history) THEN search.save ELSE history[idx]
MatchesAt(s, buf, pos) ==
    /\ pos + Len(buf) <= Len(s)
    /\ \A i \in DOMAIN buf : s[pos + i][1] = buf[i]
Matches(buf) ==
    {p \in (1..Len(history) + 1) \X (0..MaxLine) : MatchesAt(LineAt(p[1]), buf, p[2])}
Before(p, q) == p[1] < q[1] \/ (p[1] = q[1] /\ p[2] < q[2])

\* searchFind: the next match in a direction
Found(buf, back, inclusive) ==
    LET here == <<search.idx, search.pos>>
        ahead == {p \in Matches(buf) : \/ inclusive /\ p = here
                                       \/ IF back THEN Before(p, here) ELSE Before(here, p)}
    IN {p \in ahead : \A q \in ahead \ {p} : IF back THEN Before(q, p) ELSE Before(p, q)}

\* withSearchResult; without a match the line stays as it is
Goes(buf, back, found) ==
    /\ search' = [search EXCEPT !.buf = buf, !.back = back,
                    !.idx = IF found = {} THEN @ ELSE (CHOOSE p \in found : TRUE)[1],
                    !.pos = IF found = {} THEN @ ELSE (CHOOSE p \in found : TRUE)[2]]
    /\ IF found = {} THEN UNCHANGED text
       ELSE line' = LineAt(search'.idx) /\ cursor' = search'.pos
Searching ==
    UNCHANGED <<kills, past, popup, paste, links, typed, under, killedOf>>

SearchType(letter) ==
    LET buf == Append(search.buf, letter) IN
    /\ search.on /\ Len(search.buf) < MaxPattern
    /\ Goes(buf, search.back, Found(buf, search.back, TRUE))
    /\ Searching /\ UNCHANGED <<gone, entered>>

\* searchRefresh with an emptied pattern goes back to the line, at its end.
SearchBackspace ==
    /\ search.on /\ search.buf # <<>>
    /\ LET buf == Front(search.buf) IN
       IF buf = <<>>
       THEN /\ line' = search.save /\ cursor' = Len(search.save)
            /\ search' = [search EXCEPT !.buf = <<>>, !.idx = Len(history) + 1,
                                        !.pos = Len(search.save)]
       ELSE Goes(buf, search.back, Found(buf, search.back, TRUE))
    /\ entered' = <<>>
    /\ Searching /\ UNCHANGED gone

\* C-r and C-s go on to the next match.
SearchAgain(back) ==
    /\ search.on
    /\ Goes(search.buf, back, IF search.buf = <<>> THEN {} ELSE Found(search.buf, back, FALSE))
    /\ entered' = <<>>
    /\ Searching /\ UNCHANGED gone

SearchCancel ==
    /\ search.on
    /\ line' = search.save /\ cursor' = Len(search.save)
    /\ search' = NoSearch /\ entered' = <<>>
    /\ Searching /\ UNCHANGED gone

\* Enter; a key that moves the cursor does the same and then moves it.
SearchAccept ==
    /\ search.on
    /\ search' = NoSearch /\ entered' = <<>>
    /\ gone' = gone \cup (Stamps(search.save) \ Stamps(line))
    /\ Searching /\ UNCHANGED text

-----------------------------------------------------------------------------
(* Completion                                                              *)

\* tabComplete on a name: nothing, the one match, or a popup with several.
\* After a destination it takes the next one of the past sends.
Completes == \A i \in 1..cursor : IsWord(line[i]) /\ line[i][1] \notin {"u", "s", "h", "n"}
TabName ==
    /\ Normal /\ ~paste.on /\ cursor > 0 /\ Completes
    /\ \/ /\ Edited(<<<<"N", 0>>>> \o From(line, cursor), 1)
          /\ gone' = gone \cup Stamps(First(line, cursor))
          /\ UNCHANGED popup
       \/ /\ popup' = [on |-> TRUE, token |-> Stamps(First(line, cursor))]
          /\ Edited(line, cursor) /\ UNCHANGED gone
    /\ UNCHANGED <<killRing, past, typed>>
TabDestination ==
    /\ Normal /\ ~paste.on
    /\ \/ cursor = 0
       \/ cursor > 1 /\ ~IsWord(line[cursor])
          /\ \A i \in 1..cursor - 1 : IsWord(line[i]) /\ line[i][1] \notin {"u", "s", "h", "n"}
    /\ Edited(<<<<"d", 0>>, <<Semicolon, 0>>>> \o From(line, cursor), 2)
    /\ gone' = gone \cup Stamps(First(line, cursor))
    /\ UNCHANGED <<killRing, past, popup, typed>>

\* acceptCompletion puts the name after what was before the token when the
\* popup opened, whatever has been pasted since.
AcceptCompletion ==
    /\ popup.on
    /\ LineIs(<<<<"N", 0>>>> \o From(line, cursor), 1)
    /\ gone' = gone \cup popup.token
    /\ popup' = NoPopup
    /\ UNCHANGED <<kills, past, search, paste, links, typed, under, killedOf, entered>>

\* Any other key closes the popup, and that is all: its letter, if it has one, is
\* not put in the line.
PopupCloses ==
    /\ popup.on
    /\ popup' = NoPopup
    /\ UNCHANGED <<text, kills, past, search, paste, links, typed, gone, under, killedOf, entered>>
TypeUnderPopup ==
    /\ popup.on /\ typed < MaxTyped
    /\ popup' = NoPopup
    /\ typed' = typed + 1 /\ under' = under \cup {typed + 1}
    /\ UNCHANGED <<text, kills, past, search, paste, links, gone, killedOf, entered>>

-----------------------------------------------------------------------------
(* Links                                                                   *)

\* Tab takes every preview that shows, and only then completes.
Offered == {i \in Ghosts(line) : previews.cache[line[i][1]] = "text"}
Woven == FlattenSeq([i \in DOMAIN line |->
             IF i \in Offered THEN <<line[i], <<"n", 0>>>> ELSE <<line[i]>>])
AcceptPreviews ==
    /\ Normal /\ Offered # {}
    /\ LineIs(Woven, cursor + Cardinality({i \in Offered : i <= cursor}))
    /\ KeyDone([previews EXCEPT !.dismissed = @ \cup {Key(line, i) : i \in Offered}], Woven)
    /\ UNCHANGED <<killRing, past, popup, shortenPending, typed, gone>>

\* linkPreviewResultMsg
PreviewLands(u, summary) ==
    /\ u \in previews.pending
    /\ previews' = [previews EXCEPT !.cache[u] = summary, !.pending = @ \ {u}]
    /\ UNCHANGED <<text, kills, past, search, popup, paste, shortenPending, fetches,
                   typed, gone, under, killedOf, entered>>

\* shortenURLAtCursor: the first URL that starts before the cursor
Shorten ==
    LET before == {i \in Spans(line) : i <= cursor}
        first == CHOOSE i \in before : \A j \in before : i <= j
    IN /\ Normal /\ before # {} /\ line[first][1] = "u"
       /\ Key(line, first) \notin shortenPending /\ fetches < MaxFetches
       /\ shortenPending' = shortenPending \cup {Key(line, first)}
       /\ fetches' = fetches + 1
       /\ lastKill' = FALSE /\ killedOf' = <<>>
       /\ paste' = [paste EXCEPT !.eat = FALSE]
       /\ UNCHANGED <<text, killRing, past, search, popup, previews, typed, gone, under, entered>>

\* Leaves the cursor at its place, whatever is put before it.
Mut_CursorAfter(at) == cursor

\* shortenResultMsg: the URL of that occurrence, if it is still there, becomes
\* the short one with the host after it.
CursorAfter(at) == IF cursor < at THEN cursor ELSE cursor + 1
ShortenLands(key) ==
    LET at == {i \in Spans(line) : Key(line, i) = key} IN
    /\ key \in shortenPending
    /\ shortenPending' = shortenPending \ {key}
    /\ \/ \* the shortener failed, or the line has moved on
          /\ PreviewCmds(previews, line, TRUE)
          /\ UNCHANGED <<text, killedOf>>
       \/ \E i \in at :
            /\ LineIs(First(line, i - 1) \o <<<<"s", line[i][2]>>, <<"h", 0>>>> \o From(line, i),
                      CursorAfter(i))
            /\ LET cache == [previews.cache EXCEPT
                               !["s"] = IF previews.cache["u"] = "unknown" THEN @
                                        ELSE previews.cache["u"]]
               IN PreviewCmds([previews EXCEPT !.cache = cache], line', TRUE)
            /\ killedOf' = <<>>
    /\ UNCHANGED <<kills, past, search, popup, paste, typed, gone, under, entered>>

-----------------------------------------------------------------------------
AddHistoryEntry ==
    IF line = <<>> \/ (history # <<>> /\ Last(history) = line)
    THEN history ELSE Append(history, line)

\* handleSubmit and submitLine.  What was being composed before the history
\* was browsed is given up.
Submit ==
    /\ Normal /\ ~paste.on
    /\ history' = AddHistoryEntry /\ Len(history') <= MaxHistory
    /\ historyPos' = 0 /\ historySave' = <<>>
    /\ gone' = gone \cup Stamps(historySave)
    /\ line' = <<>> /\ cursor' = 0
    /\ previews' = [previews EXCEPT !.dismissed = {}]
    /\ lastKill' = FALSE /\ killedOf' = <<>>
    /\ UNCHANGED <<killRing, search, popup, paste, shortenPending, fetches, typed, under, entered>>

-----------------------------------------------------------------------------
Uses(group) == group \in focus
Keys ==
    \/ \E l \in Typable : (l = "u" => Uses("link")) /\ Type(l)
    \/ Uses("edit") /\ (Move \/ DeleteBack \/ DeleteForward)
    \/ Uses("kill") /\ (Kill \/ Yank \/ TransposeChars \/ TransposeWords)
    \/ Uses("paste") /\ TogglePaste
    \/ Uses("paste") /\ \E l \in Typable : (l = "u" => Uses("link")) /\ Paste(l)
    \/ Uses("past") /\ (HistoryPrev \/ HistoryNext \/ Submit)
    \/ Uses("past") /\ (SearchBackspace \/ SearchCancel \/ SearchAccept)
    \/ Uses("past") /\ \E back \in BOOLEAN : EnterSearch(back) \/ SearchAgain(back)
    \/ Uses("past") /\ \E l \in Typable : (l = "u" => Uses("link")) /\ SearchType(l)
    \/ Uses("name") /\ (Expand \/ TabName \/ TabDestination)
    \/ AcceptCompletion \/ PopupCloses \/ TypeUnderPopup
    \/ AcceptPreviews \/ Shorten
    \/ \E c \in 0..MaxLine : (search.on \/ popup.on) /\ Click(c)
Answers ==
    \/ \E u \in {"u", "s"}, summary \in {"text", "none"} : PreviewLands(u, summary)
    \/ \E key \in shortenPending : ShortenLands(key)

Next == (Keys \/ Answers) /\ UNCHANGED focus

Spec == Init /\ [][Next]_vars

-----------------------------------------------------------------------------
\* What the user typed or pasted while no popup was open is in the line, in the
\* history or in the line that a search or the browsing of the history will give
\* back, unless a key of the user removed or replaced it.  (Under an open popup the
\* letter of a key is dropped, and accepting the completion takes a paste along.)
NothingTypedIsLost ==
    1..typed \subseteq
        gone \cup under \cup Stamps(line)
        \cup (IF search.on THEN Stamps(search.save) ELSE {})
        \cup (IF historyPos > 0 THEN Stamps(historySave) ELSE {})
        \cup UNION {Stamps(history[i]) : i \in DOMAIN history}

\* Kills in a row, forwards and backwards, are one text: yanking it puts back
\* the line they started from.
KillsComeBack ==
    lastKill /\ killedOf # <<>> => Put(line, cursor, killRing) = killedOf[1]

\* Typing a pattern letter by letter finds what looking for the whole of it
\* from where the search began would find, or stays at the last that matched.
Origin == <<Len(history) + 1, IF search.back THEN Len(entered[1]) ELSE 0>>
Entry(i) == IF i > Len(history) THEN entered[1] ELSE history[i]
Onward(p, q) == IF search.back THEN Before(q, p) ELSE Before(p, q)
Reached(buf) ==
    {p \in (1..Len(history) + 1) \X (0..MaxLine) :
       MatchesAt(Entry(p[1]), buf, p[2]) /\ (p = Origin \/ Onward(Origin, p))}
Matching == {n \in 0..Len(search.buf) : Reached(First(search.buf, n)) # {}}
Longest == CHOOSE n \in Matching : \A m \in Matching : m <= n
SearchFindsNearest ==
    LET here == <<search.idx, search.pos>>
        found == Reached(First(search.buf, Longest))
    IN search.on /\ entered # <<>> =>
         IF Longest = 0 THEN here = Origin
         ELSE here \in found /\ \A p \in found \ {here} : Onward(here, p)

\* What the user typed, killed or searched for while composing a line is where
\* the editor says it is: nothing typed is lost but by a key that removes it or
\* under an open completion popup, kills in a row are one text to yank, and a
\* search finds the nearest match.  (input.go killLine, searchFind, historyPrev)
TypingIsSafe == NothingTypedIsLost /\ KillsComeBack /\ SearchFindsNearest

\* An answer about a link, or previews taken into the line, change the text
\* around the cursor but leave what was before it before it.
CursorKeepsItsPlace ==
    [][Answers \/ AcceptPreviews =>
         /\ Stamps(First(line', cursor')) = Stamps(First(line, cursor))
         /\ Stamps(line') = Stamps(line)]_vars
=============================================================================
