----------------------------- MODULE OutputPane -----------------------------
(***************************************************************************)
(* The scrollback of the terminal client (tui/ui): the output items, the   *)
(* scrollView that holds their rendered lines, the pager that pauses for a *)
(* reader who looks away, and the last-seen mark taken from what is in     *)
(* view.  One bubbletea goroutine runs the updates one at a time; what     *)
(* interleaves is keys, window sizes, messages, answers and reconnects.    *)
(*                                                                         *)
(* A line is <<n, k, w>>: the k-th line of the n-th item made, rendered at *)
(* width w.                                                                *)
(***************************************************************************)
EXTENDS Integers, FiniteSets, SequencesExt

CONSTANTS
    MaxScrollback, ScrollbackSlack,
    Screen,   \* the largest height of the viewport
    Sizes,    \* the numbers of lines of a message at the wide width
    MaxItems, \* bound on the items and messages there are
    MaxTurns  \* bound on the window sizes, reconnections and late answers

PaneAssumption ==
    /\ {MaxScrollback, Screen, MaxItems} \subseteq Nat \ {0}
    /\ {ScrollbackSlack, MaxTurns} \subseteq Nat /\ Sizes \subseteq Nat \ {0}

Widths == {"narrow", "wide"}
Heights == 1..Screen

VARIABLES
    pane,   \* Model: output, and the viewport and its bookkeeping
    ids,    \* proxy: the last message ID of the session
    missed, \* proxy: the messages this client's socket did not carry
    mark,   \* proxy: Session.lastSeenID
    processedIDs, \* Model: the IDs shown since the numbering began
    answers, \* initialStateMsg under way: the mark and the messages that the
             \* proxy had, and whether its session has ended since
    link,   \* "up", "down", or "loading" until the proxy answers
    made,   \* how many items and messages there have been
    turns,  \* how often the window, the link or the input area changed by itself
    reached,  \* history: the IDs that have been in view, or above it
    adopted,  \* history: the marks of an ended session that were loaded
    unread,   \* history: the first item since the user last did something with
              \* the end of the output in view, 0 when it was not
    disturbed \* history: what happened to the pane since: "no", "resized", "loaded"

fetching == <<missed, processedIDs, answers, adopted>>
vars == <<pane, ids, mark, fetching, link, made, turns, reached, unread, disturbed>>

Item(n, id, size) == [n |-> n, id |-> id, size |-> size]

TypeOK ==
    /\ pane.output \in Seq([n : 1..made, id : 0..made, size : Sizes \cup {1}])
    /\ pane.lines \in Seq((1..made) \X Nat \X Widths)
    /\ pane.width \in Widths /\ pane.height \in Heights
    /\ pane.yOffset \in 0..Len(pane.lines)
    /\ pane.syncedItems \in 0..Len(pane.output)
    /\ pane.stale \in BOOLEAN /\ pane.pagerEnabled \in BOOLEAN
    /\ pane.autoPageAnchor \in Nat \cup {-1} /\ pane.scrollAnchor = -1
    /\ missed \subseteq [id : 1..ids, size : Sizes]
    /\ answers \subseteq [mark : 0..made, items : SUBSET [id : 1..made, size : Sizes], old : BOOLEAN]
    /\ {pane.lastSeenID, mark} \cup processedIDs \subseteq 0..made
    /\ link \in {"up", "down", "loading"}

-----------------------------------------------------------------------------
(* scrollView                                                              *)

Larger(a, b) == IF a > b THEN a ELSE b
Smaller(a, b) == IF a < b THEN a ELSE b

Total(p) == Len(p.lines)
MaxYOffset(p) == Larger(0, Total(p) - p.height)
AtBottom(p) == p.yOffset >= MaxYOffset(p)
SetYOffset(p, n) == [p EXCEPT !.yOffset = Smaller(Larger(n, 0), MaxYOffset(p))]
GotoBottom(p) == SetYOffset(p, MaxYOffset(p))
TrimTop(p, n) ==
    IF n = 0 THEN p
    ELSE IF n >= Total(p) THEN [p EXCEPT !.lines = <<>>, !.yOffset = 0]
    ELSE SetYOffset([p EXCEPT !.lines = SubSeq(@, n + 1, Len(@))], p.yOffset - n)

\* renderItem: at the narrow width everything wraps once.
Rows(item, w) == IF w = "narrow" THEN 2 * item.size ELSE item.size
RenderItem(item, w) == [k \in 1..Rows(item, w) |-> <<item.n, k, w>>]
Render(items, w) == FlattenSeq([i \in DOMAIN items |-> RenderItem(items[i], w)])
Upto(p, i) == Len(Render(SubSeq(p.output, 1, i), p.width))

-----------------------------------------------------------------------------
(* syncViewportContent                                                     *)

Over(p) == Len(p.output) - MaxScrollback

Mut_Trim(p) ==
    IF Over(p) > ScrollbackSlack
    THEN [TrimTop(p, Upto(p, Over(p))) EXCEPT !.output = SubSeq(@, Over(p) + 1, Len(@))]
    ELSE p
Trim(p) ==
    LET dropped == Upto(p, Over(p)) IN
    IF Over(p) > ScrollbackSlack
    THEN [TrimTop(p, dropped) EXCEPT
            !.output = SubSeq(@, Over(p) + 1, Len(@)),
            !.syncedItems = Larger(@ - Over(p), 0),
            !.autoPageAnchor = IF @ >= 0 THEN Larger(@ - dropped, 0) ELSE @]
    ELSE p

\* SetLines when the lines are stale, AppendLines otherwise
Refill(p) ==
    LET all == Render(p.output, p.width)
        new == Render(SubSeq(p.output, p.syncedItems + 1, Len(p.output)), p.width)
    IN IF p.stale
       THEN SetYOffset([p EXCEPT !.lines = all, !.stale = FALSE,
                                 !.syncedItems = Len(p.output)], p.yOffset)
       ELSE [p EXCEPT !.lines = @ \o new, !.syncedItems = Len(p.output)]

\* Follow the output from line "from", or stop where a page of it begins.
Page(p, from) ==
    IF ~p.pagerEnabled \/ Total(p) - from <= p.height
    THEN GotoBottom(p)
    ELSE [SetYOffset(p, Smaller(from, Total(p) - p.height)) EXCEPT !.autoPageAnchor = -1]

Sync(p) ==
    LET q == Refill(Trim(p))
        before == Total(Trim(p))
    IN IF q.autoPageAnchor >= 0 THEN Page(q, q.autoPageAnchor)
       ELSE IF AtBottom(p) \/ Total(q) <= q.height THEN Page(q, before)
       ELSE q

-----------------------------------------------------------------------------
(* updateViewportSize                                                      *)

\* topVisibleItemIndex, itemStartLine
TopVisibleItem(p) ==
    LET below == {i \in DOMAIN p.output : Upto(p, i) > p.yOffset} IN
    IF below = {} THEN Len(p.output) ELSE CHOOSE i \in below : \A j \in below : i <= j
ItemStartLine(p, i) == Upto(p, i - 1)

Mut_Resize(p, h) ==
    LET q == Sync([p EXCEPT !.height = h]) IN
    [(IF AtBottom(p) THEN GotoBottom(q) ELSE SetYOffset(q, p.yOffset)) EXCEPT !.scrollAnchor = -1]
Resize(p, h) ==
    LET q == Sync(SetYOffset([p EXCEPT !.height = h], p.yOffset))
        r == IF AtBottom(p) THEN GotoBottom(q)
             ELSE IF p.scrollAnchor >= 0 THEN SetYOffset(q, ItemStartLine(q, p.scrollAnchor))
             ELSE SetYOffset(q, p.yOffset)
    IN [r EXCEPT !.scrollAnchor = -1]

\* maybeResizeViewport
MaybeResize(p, h) == IF h = p.height THEN p ELSE Resize(p, h)

Rewidth(p, w) ==
    IF w = p.width THEN p
    ELSE [p EXCEPT !.width = w, !.stale = TRUE, !.scrollAnchor = TopVisibleItem(p)]

\* armPagerIfAtBottom
Arm(p) == IF AtBottom(p) THEN [p EXCEPT !.autoPageAnchor = Total(p)] ELSE p

\* computeLastSeenID, advanceLastSeenID
InView(p) == {i \in DOMAIN p.output : Upto(p, i) <= p.yOffset + p.height}
Advance(p) ==
    LET seen == {p.output[i].id : i \in InView(p)} IN
    [p EXCEPT !.lastSeenID = CHOOSE m \in seen \cup {@} : \A x \in seen \cup {@} : x <= m]

\* restorePosition
Restore(p, stored) ==
    LET at == {i \in DOMAIN p.output : p.output[i].id >= stored}
        end == IF at = {} THEN Len(p.output) ELSE CHOOSE i \in at : \A j \in at : i <= j
    IN [SetYOffset(p, Upto(p, end) - p.height) EXCEPT !.lastSeenID = Larger(@, stored)]

-----------------------------------------------------------------------------
\* The splash is the one item there is before the login.
Init ==
    /\ pane = [output |-> <<Item(1, 0, 1)>>, lines |-> <<<<1, 1, "wide">>>>,
               width |-> "wide", height |-> Screen, yOffset |-> 0,
               syncedItems |-> 1, stale |-> FALSE, autoPageAnchor |-> -1,
               scrollAnchor |-> -1, pagerEnabled |-> TRUE, lastSeenID |-> 0]
    /\ ids = 0 /\ mark = 0 /\ link = "up"
    /\ missed = {} /\ processedIDs = {} /\ answers = {}
    /\ made = 1 /\ turns = 0
    /\ reached = {} /\ adopted = {} /\ unread = 0 /\ disturbed = "no"

\* IDs of the view's lines, not taken from Upto
Shown(p) ==
    {p.output[i].id : i \in {j \in DOMAIN p.output :
        \E l \in 1..Smaller(p.yOffset + p.height, Total(p)) :
           p.lines[l][1] = p.output[j].n /\ p.lines[l][2] = Rows(p.output[j], p.lines[l][3])}}

\* The pane becomes p; a mark that moved goes to the proxy when there is a socket.
Becomes(p) ==
    /\ pane' = p
    /\ mark' = IF link = "down" \/ p.lastSeenID = pane.lastSeenID THEN mark
               ELSE Larger(mark, p.lastSeenID)
    /\ reached' = reached \cup Shown(p)

\* The user did something: what comes from here on is unread.  Typing leaves the
\* position where a resize or a reload put it, moving chooses it.
AfterTyping(p) ==
    /\ Becomes(p)
    /\ unread' = IF AtBottom(p) THEN made + 1 ELSE 0
    /\ disturbed' = IF AtBottom(p) THEN "no" ELSE disturbed
Touched(p) ==
    /\ Becomes(p)
    /\ unread' = IF AtBottom(p) THEN made + 1 ELSE 0
    /\ disturbed' = "no"
Untouched(p) == Becomes(p) /\ UNCHANGED <<unread, disturbed>>
Resized(p) ==
    /\ Becomes(p) /\ UNCHANGED unread
    /\ disturbed' = IF disturbed = "no" THEN "resized" ELSE disturbed

Appended(p, items) == [p EXCEPT !.output = @ \o items]
Turn == turns < MaxTurns /\ turns' = turns + 1

-----------------------------------------------------------------------------
(* What the user does.                                                     *)

Back(p) ==
    {SetYOffset(p, p.yOffset - p.height), SetYOffset(p, p.yOffset - 1), SetYOffset(p, 0)}
Forward(p) ==
    {SetYOffset(p, p.yOffset + p.height), SetYOffset(p, p.yOffset + 1), GotoBottom(p)}
Disarm(p) == [p EXCEPT !.autoPageAnchor = -1]

\* PgUp, PgDn, M-<, M->, line scrolling and the wheel
ScrollBack ==
    /\ \E p \in Back(Disarm(pane)) : Touched(Arm(p))
    /\ UNCHANGED <<ids, fetching, link, made, turns>>
ScrollOn ==
    /\ \E p \in Forward(Disarm(pane)) : Touched(Arm(Advance(p)))
    /\ UNCHANGED <<ids, fetching, link, made, turns>>

\* handleSubmit of an empty line without a prompt, when not at the bottom
AdvancePager ==
    /\ ~AtBottom(pane)
    /\ Touched(Arm(Disarm(Advance(SetYOffset(pane, pane.yOffset + pane.height)))))
    /\ UNCHANGED <<ids, fetching, link, made, turns>>

\* A key that edits the line, whose input area then leaves h rows.
Type(h) ==
    /\ IF h = pane.height THEN UNCHANGED turns ELSE Turn
    /\ AfterTyping(Arm(MaybeResize(pane, h)))
    /\ UNCHANGED <<ids, fetching, link, made>>

\* submitLine: a line that goes out shows nothing yet, a local command is
\* echoed and answered here, and %page is such a command.
Anchored(p) == [p EXCEPT !.autoPageAnchor = IF AtBottom(p) THEN Total(p) ELSE -1]
Submit(local, on) ==
    LET p == MaybeResize(Anchored(pane), Screen)
        q == [p EXCEPT !.pagerEnabled = on]
    IN /\ made + (IF local THEN 2 ELSE 0) <= MaxItems
       /\ IF local
          THEN /\ Becomes(Sync(Appended(q, <<Item(made + 1, 0, 1), Item(made + 2, 0, 1)>>)))
               /\ made' = made + 2
          ELSE /\ on = pane.pagerEnabled
               /\ Becomes(Sync(q)) /\ UNCHANGED made
       /\ unread' = IF AtBottom(pane) THEN made + 1 ELSE 0
       /\ disturbed' = "no"
       /\ UNCHANGED <<ids, fetching, link, turns>>

\* The debug pane halves the width of the viewport.
ToggleDebug ==
    /\ Turn
    /\ \E w \in Widths \ {pane.width} :
         AfterTyping(Arm(Resize(Rewidth(pane, w), pane.height)))
    /\ UNCHANGED <<ids, fetching, link, made>>

-----------------------------------------------------------------------------
(* What happens.                                                           *)

\* serverEventMsg: the mark is taken before the viewport has the message.  A
\* message whose ID was processed is dropped.
Receive(size) ==
    /\ link # "down" /\ made < MaxItems
    /\ ids' = ids + 1 /\ made' = made + 1
    /\ processedIDs' = processedIDs \cup {ids + 1}
    /\ Untouched(IF ids + 1 \in processedIDs THEN pane
                 ELSE Sync(Advance(Appended(pane, <<Item(made + 1, ids + 1, size)>>))))
    /\ UNCHANGED <<missed, answers, adopted, link, turns>>

\* A log line, a notice, an error
Note ==
    /\ made < MaxItems /\ made' = made + 1
    /\ Untouched(Sync(Appended(pane, <<Item(made + 1, 0, 1)>>)))
    /\ UNCHANGED <<ids, fetching, link, turns>>

\* WindowSizeMsg
WindowSize(w, h) ==
    /\ <<w, h>> # <<pane.width, pane.height>> /\ Turn
    /\ Resized(Advance(Resize(Rewidth(pane, w), h)))
    /\ UNCHANGED <<ids, fetching, link, made>>

\* A preview or a shortened link changes the height of the input area.
AnswerLands(h) ==
    /\ h # pane.height /\ Turn
    /\ Resized(MaybeResize(pane, h))
    /\ UNCHANGED <<ids, fetching, link, made>>

\* recolourSplash, while the splash is still there
Recolour ==
    /\ pane.output[1].n = 1 /\ Turn
    /\ Untouched(Sync([pane EXCEPT !.stale = TRUE]))
    /\ UNCHANGED <<ids, fetching, link, made>>

Disconnect ==
    /\ link = "up" /\ Turn
    /\ link' = "down"
    /\ Untouched(pane)
    /\ UNCHANGED <<ids, fetching, made>>

MissMessage(size) ==
    /\ link = "down" /\ made < MaxItems
    /\ ids' = ids + 1 /\ made' = made + 1
    /\ missed' = missed \cup {[id |-> ids + 1, size |-> size]}
    /\ Untouched(pane)
    /\ UNCHANGED <<processedIDs, answers, adopted, link, turns>>

\* authResultMsg: back on the session, or on a new one (resetSessionIDs).  What
\* the proxy has answered for the old one is still under way.
ResetSessionIDs(p) ==
    [p EXCEPT !.lastSeenID = 0,
              !.output = [i \in DOMAIN @ |-> [@[i] EXCEPT !.id = 0]]]
Resume ==
    /\ link = "down" /\ link' = "loading"
    /\ Untouched(pane)
    /\ UNCHANGED <<ids, fetching, made, turns>>
Relogin ==
    /\ link = "down" /\ link' = "loading"
    /\ pane' = ResetSessionIDs(pane)
    /\ ids' = 0 /\ missed' = {} /\ mark' = 0 /\ processedIDs' = {}
    /\ answers' = {[x EXCEPT !.old = TRUE] : x \in answers}
    /\ reached' = {} /\ adopted' = {}
    /\ UNCHANGED <<made, turns, unread, disturbed>>

\* fetchInitialStateCmd: the proxy gives its mark and what came after it.  (That
\* it may fail, or come by the socket instead, is for TerminalSession.)
AnswerState ==
    /\ link = "loading" /\ link' = "up"
    /\ answers' = answers \cup {[mark |-> mark, items |-> {y \in missed : y.id > mark},
                                 old |-> FALSE]}
    /\ Untouched(pane)
    /\ UNCHANGED <<ids, missed, processedIDs, adopted, made, turns>>

\* initialStateMsg: what the answer holds and was not processed goes to the end of
\* the output, and its mark is restored, whatever the mark is by now.
InOrder(F) == {s \in [1..Cardinality(F) -> F] : \A i, j \in DOMAIN s : i < j => s[i].id < s[j].id}
Loaded(p, s, stored) ==
    LET q == Sync(Appended(p, [k \in DOMAIN s |-> Item(made + k, s[k].id, s[k].size)])) IN
    IF stored > 0 THEN Restore(q, stored) ELSE q
Load(x) ==
    LET fresh == {y \in x.items : y.id \notin processedIDs} IN
    /\ \E s \in InOrder(fresh) : pane' = Loaded(pane, s, x.mark)
    /\ mark' \in {mark, Larger(mark, pane'.lastSeenID)} \* reportSeenNow, if it gets through
    /\ reached' = reached \cup Shown(pane')
    /\ adopted' = IF x.old THEN adopted \cup {x.mark} ELSE adopted
    /\ processedIDs' = processedIDs \cup {y.id : y \in x.items}
    /\ answers' = answers \ {x}
    /\ made' = made + Cardinality(fresh)
    /\ disturbed' = "loaded"
    /\ UNCHANGED <<ids, missed, link, turns, unread>>

-----------------------------------------------------------------------------
UserMoves == ScrollBack \/ ScrollOn \/ AdvancePager \/ \E x \in answers : Load(x)

Next ==
    \/ ScrollBack \/ ScrollOn \/ AdvancePager \/ ToggleDebug
    \/ \E local, on \in BOOLEAN : Submit(local, on)
    \/ \E h \in Heights : Type(h) \/ AnswerLands(h)
    \/ \E s \in Sizes : Receive(s) \/ MissMessage(s)
    \/ \E w \in Widths, h \in Heights : WindowSize(w, h)
    \/ Note \/ Recolour \/ Disconnect \/ Resume \/ Relogin \/ AnswerState
    \/ \E x \in answers : Load(x)

Spec == Init /\ [][Next]_vars

-----------------------------------------------------------------------------
\* The incremental view is the view a full rendering would give: appending,
\* trimming and rebuilding never lose, double or misplace a line.
ViewShowsOutput == pane.lines = Render(pane.output, pane.width)

\* The client's mark names a message that has been in view or above it since the
\* numbering began, or is the mark that an answer for an ended session brought:
\* nothing asks whose answer it is.
SeenWasReached == pane.lastSeenID \in reached \cup adopted \cup {0}

\* The pager: output that arrives while the user does nothing is never scrolled
\* past; its first line stays in view or below, until a resize or a reload, or
\* until it falls out of the scrollback.
PagerHolds ==
    pane.pagerEnabled /\ unread > 0 /\ disturbed = "no" /\ pane.output[1].n <= unread =>
      \A l \in 1..pane.yOffset : pane.lines[l][1] < unread

\* A reader who has scrolled back keeps the item at the top of the view, through
\* new output, trimming, and changes of the window and of the input area, unless
\* the view grows to the end.  (What a reload restores is not held: the anchor
\* of the pager is still armed.)
TopItem(p) == p.lines[p.yOffset + 1][1]
ViewHolds ==
    [][disturbed # "loaded" /\ ~AtBottom([pane EXCEPT !.height = pane'.height])
          /\ ~UserMoves =>
         \/ AtBottom(pane') \/ TopItem(pane') = TopItem(pane)
         \/ \A i \in DOMAIN pane'.output : pane'.output[i].n # TopItem(pane)]_vars
=============================================================================
