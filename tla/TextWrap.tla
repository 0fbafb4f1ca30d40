------------------------------ MODULE TextWrap ------------------------------
(***************************************************************************)
(* Fitting a message to the terminal (tui/ui/format.go).  wrapTextCore     *)
(* wraps it by words, one step for each turn of its inner loop; a text is  *)
(* a sequence of characters and blanks, and a cell of the screen holds the *)
(* position of the character it shows, 0 for a blank and -1 for one of the *)
(* prefix.  charWrapLinkify cuts a line of output that is still too wide   *)
(* at the last column; an escape sequence in it takes no column and is     *)
(* never cut.  Both count columns by bytes, and so does this: what a       *)
(* character of several bytes or of two columns does to them is left out.  *)
(***************************************************************************)
EXTENDS Integers, SequencesExt, FiniteSetsExt

CONSTANTS
    MaxText,  \* bound on the length of a text
    Widths,   \* the widths asked for
    Openings, \* <<cells of the first line's header, cells of the prefix, initialSep>>
    Symbols,  \* the bytes a line of output is made of
    MaxOutputLine, \* bound on its length
    Columns   \* the widths it is cut to

Esc == "esc" \* and "[", "]", "m" for a final byte, "0", "bel", "\\"
Blank == " "
Character == "x"

VARIABLES
    text, maxWidth, prefix,       \* what wrapTextCore is called with
    word, consumed, \* the word it is at, and how much of it is placed
    curLine, sep,                 \* the line being filled; the blanks before the next word
    lineHasContent,
    lines,  \* the finished lines that show any of the text
    done,
    bytes, width, \* what charWrapLinkify is called with
    pieces        \* what it returns, as <<first, last>>

call == <<text, maxWidth, prefix>>
line == <<curLine, sep, lineHasContent>>
output == <<bytes, width, pieces>>
vars == <<call, word, consumed, line, lines, done, output>>

Cells(n, cell) == [i \in 1..n |-> cell]
Fill(n) == Cells(n, 0)

-----------------------------------------------------------------------------
(* splitWords                                                              *)

IsStart(t, i) == t[i] # Blank /\ (i = 1 \/ t[i - 1] = Blank)
starts(t) == SelectSeq([i \in DOMAIN t |-> i], LAMBDA i : IsStart(t, i))
len(t, i) == CHOOSE n \in 1..(Len(t) - i + 1) :
                /\ \A k \in i..(i + n - 1) : t[k] # Blank
                /\ i + n > Len(t) \/ t[i + n] = Blank

Mut_gaps(t, k) == IF k = 1 THEN 0 ELSE 1 \* as strings.Fields would have it
\* The blanks before word k; those before the first are not the text's.
gaps(t, k) ==
    IF k = 1 THEN 0 ELSE starts(t)[k] - starts(t)[k - 1] - len(t, starts(t)[k - 1])

-----------------------------------------------------------------------------
(* wrapTextCore                                                            *)

Words == Len(starts(text))
At == starts(text)[word]
remaining == len(text, At) - consumed
avail == maxWidth - Len(curLine) - sep

\* n cells of the word, from where it has been consumed.
render(n) == [i \in 1..n |-> At + consumed + i - 1]
wordPrefix == Cells(prefix[2], -1)
Shows(cells) == \E i \in DOMAIN cells : cells[i] > 0
\* A bare header is not kept among the lines, so that spinning stays finite.
Finished(cells) == lines' = IF Shows(cells) THEN Append(lines, cells) ELSE lines
Fresh(cells) == curLine' = cells /\ sep' = 0 /\ lineHasContent' = FALSE

\* No room at all: the line ends and the same is tried on the next.
NoRoom ==
    /\ avail <= 0
    /\ Finished(curLine)
    /\ Fresh(wordPrefix)
    /\ UNCHANGED <<word, consumed, done>>

\* The rest of the word, with the blanks the sender put before the next one.
Placed ==
    /\ avail > 0 /\ remaining <= avail
    /\ curLine' = curLine \o Fill(sep) \o render(remaining)
    /\ lineHasContent' = TRUE
    /\ IF word < Words
       THEN /\ word' = word + 1 /\ consumed' = 0 /\ sep' = gaps(text, word + 1)
            /\ UNCHANGED <<lines, done>>
       ELSE /\ done' = TRUE /\ sep' = 1 /\ Finished(curLine')
            /\ UNCHANGED <<word, consumed>>

\* A word longer than the line is broken at its end, without a prefix after it.
Broken ==
    /\ avail > 0 /\ remaining > avail /\ ~lineHasContent
    /\ Finished(curLine \o Fill(sep) \o render(avail))
    /\ Fresh(<<>>)
    /\ consumed' = consumed + avail
    /\ UNCHANGED <<word, done>>

NextLine ==
    /\ avail > 0 /\ remaining > avail /\ lineHasContent
    /\ Finished(curLine)
    /\ Fresh(wordPrefix)
    /\ UNCHANGED <<word, consumed, done>>

-----------------------------------------------------------------------------
(* escSeqLen and charWrapLinkify                                           *)

\* Where the sequence that starts at k ends: one past it.
FirstFrom(s, k, Ends(_)) ==
    LET at == {j \in k..Len(s) : Ends(j)} IN IF at = {} THEN Len(s) + 1 ELSE Min(at) + 1

Mut_escSeqLen(s, k) == \* ST is taken for a two-byte escape of its own
    IF s[k] # Esc THEN 0
    ELSE IF k = Len(s) THEN 1
    ELSE IF s[k + 1] = "[" THEN FirstFrom(s, k + 2, LAMBDA j : s[j] \notin {"0", Esc, "bel"}) - k
    ELSE IF s[k + 1] = "]" THEN FirstFrom(s, k + 2, LAMBDA j : s[j] \in {"bel", Esc}) - k
    ELSE 2

\* CSI ends at a byte in 0x40-0x7E, OSC at BEL or ST, and both at the end of the
\* line at the latest; any other escape has two bytes.
escSeqLen(s, k) ==
    LET ST(j) == s[j] = Esc /\ j < Len(s) /\ s[j + 1] = "\\" IN
    IF s[k] # Esc THEN 0
    ELSE IF k = Len(s) THEN 1
    ELSE IF s[k + 1] = "[" THEN FirstFrom(s, k + 2, LAMBDA j : s[j] \notin {"0", Esc, "bel"}) - k
    ELSE IF s[k + 1] = "]"
    THEN LET end == FirstFrom(s, k + 2, LAMBDA j : s[j] = "bel" \/ ST(j))
         IN  (IF s[end - 1] = Esc /\ end <= Len(s) THEN end + 1 ELSE end) - k
    ELSE 2

\* Byte by byte, but over a sequence at once: i is the next byte to look at, col
\* the columns of the piece that starts at lineStart.
charWrapLinkify(s, w) ==
    LET Take(a, k) ==
            IF k < a.i THEN a
            ELSE IF escSeqLen(s, k) > 0 THEN [a EXCEPT !.i = k + escSeqLen(s, k)]
            ELSE IF a.col = w
            THEN [i |-> k + 1, col |-> 1, lineStart |-> k, out |-> Append(a.out, <<a.lineStart, k - 1>>)]
            ELSE [a EXCEPT !.i = k + 1, !.col = a.col + 1]
        end == FoldLeft(Take, [i |-> 1, col |-> 0, lineStart |-> 1, out |-> <<>>], [k \in DOMAIN s |-> k])
    IN  Append(end.out, <<end.lineStart, Len(s)>>)

\* A line of a message is cut; one without a width is left alone.
CutLine ==
    /\ bytes # <<>> /\ pieces = <<>>
    /\ pieces' = charWrapLinkify(bytes, width)
    /\ UNCHANGED <<call, word, consumed, line, lines, done, bytes, width>>

-----------------------------------------------------------------------------
Texts == UNION {[1..n -> {Blank, Character}] : n \in 0..MaxText}

Atleast1(w) == IF w < 1 THEN 1 ELSE w

\* A width below one counts as one; without a word only the header is shown.
ToWrap ==
    /\ text \in Texts /\ prefix \in Openings
    /\ \E w \in Widths : maxWidth = Atleast1(w)
    /\ bytes = <<>> /\ width = 1

ToCut ==
    /\ bytes \in UNION {[1..n -> Symbols] : n \in 1..MaxOutputLine}
    /\ \E w \in Columns : width = Atleast1(w)
    /\ text = <<>> /\ prefix = <<0, 0, 0>> /\ maxWidth = 1

\* One call of either.
Init ==
    /\ ToWrap \/ ToCut
    /\ word = 1 /\ consumed = 0
    /\ curLine = Cells(prefix[1], -1) /\ sep = prefix[3] /\ lineHasContent = FALSE
    /\ lines = <<>>
    /\ done = (Words = 0)
    /\ pieces = <<>>

Wrap == ~done /\ UNCHANGED <<call, output>> /\ (NoRoom \/ Placed \/ Broken \/ NextLine)

Next == Wrap \/ CutLine

Spec == Init /\ [][Next]_vars

-----------------------------------------------------------------------------
\* A line is a piece of the text as it was typed, behind a prefix at most: its
\* blanks are the sender's, and no line but a bare header is too wide.  Read from
\* the first to the last, the lines show every character once and in its place.
WrapsAsTyped ==
    /\ \A n \in DOMAIN lines :
          LET cells == lines[n] IN
          /\ Len(cells) <= maxWidth
          /\ \A i, k \in DOMAIN cells : cells[i] > 0 /\ cells[k] > 0 => cells[k] - cells[i] = k - i
          /\ \A i \in DOMAIN cells : cells[i] = -1 => \A k \in 1..i : cells[k] = -1
    /\ done => SelectSeq(FlattenSeq(lines), LAMBDA c : c > 0)
                 = SelectSeq([i \in DOMAIN text |-> i], LAMBDA i : text[i] # Blank)

\* How many columns s takes, read byte by byte: in plain text, after an ESC, in a
\* CSI, in an OSC or after an ESC in one.  The grammar is the one escSeqLen goes by,
\* where an ESC in a CSI does not start over, as it would on a terminal.
Mode(m, b) ==
    CASE m = "text" -> IF b = Esc THEN "esc" ELSE "text"
      [] m = "esc" -> IF b = "[" THEN "csi" ELSE IF b = "]" THEN "osc" ELSE "text"
      [] m = "csi" -> IF b \in {"0", Esc, "bel"} THEN "csi" ELSE "text"
      [] m = "osc" -> IF b = "bel" THEN "text" ELSE IF b = Esc THEN "st" ELSE "osc"
      [] m = "st" -> IF b \in {"\\", "bel"} THEN "text" ELSE IF b = Esc THEN "st" ELSE "osc"
Read(s) == FoldLeft(LAMBDA a, b : [mode |-> Mode(a.mode, b),
                                   columns |-> a.columns + (IF a.mode = "text" /\ b # Esc THEN 1 ELSE 0)],
                    [mode |-> "text", columns |-> 0], s)

\* The pieces are the line, each fits the width, and each but the last fills it and
\* ends outside any escape sequence, so that no sequence is cut in two.
PiecesStandAlone ==
    /\ \A n \in DOMAIN pieces :
          LET piece == Read(SubSeq(bytes, pieces[n][1], pieces[n][2])) IN
          /\ piece.columns <= width
          /\ n < Len(pieces) => piece.mode = "text" /\ piece.columns = width
          /\ pieces[n][1] = IF n = 1 THEN 1 ELSE pieces[n - 1][2] + 1
    /\ pieces # <<>> => Last(pieces)[2] = Len(bytes)
=============================================================================
