------------------------------ MODULE Notices ------------------------------
(***************************************************************************)
(* The notes the terminal client prints unasked (tui/ui/notices.go): the   *)
(* mosh hint, the tip of the session, and the reminder of M-s that spends  *)
(* it.  They are queued once the login is over and wait for a gap in the   *)
(* output, looked for by one chain of timer ticks.  noticeWaited counts    *)
(* ticks.                                                                  *)
(***************************************************************************)
EXTENDS Integers, SequencesExt, FiniteSets

CONSTANTS
    QuietCap, BusyCap, \* noticeQuietCap and noticeBusyCap, in ticks
    MaxOutput, MaxTurns \* bounds on the output, and on questions and settings

NoticesAssumption == {QuietCap, BusyCap, MaxOutput, MaxTurns} \subseteq Nat

VARIABLES
    output,   \* the kinds of the output items: "text", "mosh", "tip", "hint"
    queue,    \* pendingNotices
    pace,     \* noticeSettling, noticeWaited, noticeOutputLen
    ticks,    \* the ticks that are scheduled
    busy,     \* a prompt, the login, the editor, a search or the reconnect question
    session,  \* stateReady, tipsLoaded, noticesQueued, tipsEnabled, tipShown
    mosh,     \* moshDetect: "unprobed", "asked", "found" or "absent"
    lastcol,  \* reserveLastColumn
    turns,
    still     \* history: nothing was printed since the last look at the output

vars == <<output, queue, pace, ticks, busy, session, mosh, lastcol, turns, still>>

TypeOK ==
    /\ output \in Seq({"text", "mosh", "tip", "hint"})
    /\ queue \in Seq({"mosh", "tip"})
    /\ pace \in [settling : BOOLEAN, waited : Nat, heard : 0..Len(output)]
    /\ ticks \in Nat
    /\ mosh \in {"unprobed", "asked", "found", "absent"}

-----------------------------------------------------------------------------
\* queueNotice, for each of q: the first of them starts the ticks.
queueNotice(q) ==
    /\ queue' = queue \o q
    /\ IF q = <<>> \/ pace.settling THEN UNCHANGED <<pace, ticks, still>>
       ELSE /\ ticks' = ticks + 1 /\ still' = TRUE
            /\ pace' = [settling |-> TRUE, waited |-> 0, heard |-> Len(output)]

\* queueSessionNoticesWhenReady, at the later of its two occasions.
queueSessionNoticesWhenReady(s) ==
    IF s.noticesQueued \/ ~s.stateReady \/ ~s.tipsLoaded
    THEN session' = s /\ queueNotice(<<>>)
    ELSE /\ session' = [s EXCEPT !.noticesQueued = TRUE]
         /\ queueNotice(IF mosh # "unprobed" THEN <<"mosh", "tip">> ELSE <<"tip">>)

TipsLoaded ==
    /\ ~session.tipsLoaded
    /\ \E off \in BOOLEAN :
          queueSessionNoticesWhenReady([session EXCEPT !.tipsLoaded = TRUE, !.tipsEnabled = ~off])
    /\ UNCHANGED <<output, busy, mosh, lastcol, turns>>

\* A login worked; the first one of the run looks for mosh.
LoggedIn ==
    /\ mosh = "unprobed" /\ mosh' = "asked"
    /\ UNCHANGED <<output, queue, pace, ticks, busy, session, lastcol, turns, still>>

MoshAnswers ==
    /\ mosh = "asked" /\ mosh' \in {"found", "absent"}
    /\ UNCHANGED <<output, queue, pace, ticks, busy, session, lastcol, turns, still>>

\* The initial state of a session arrives; again after every reconnection.
StateArrives ==
    /\ ~session.stateReady \/ turns < MaxTurns
    /\ turns' = IF session.stateReady THEN turns + 1 ELSE turns
    /\ queueSessionNoticesWhenReady([session EXCEPT !.stateReady = TRUE])
    /\ UNCHANGED <<output, busy, mosh, lastcol>>

-----------------------------------------------------------------------------
(* noticeSettle                                                            *)

Mut_Words(shown) == \* the setting was asked when the notice was queued
    IF queue[1] = "mosh" THEN IF shown /\ mosh = "found" /\ ~lastcol THEN <<"mosh">> ELSE <<>>
    ELSE IF shown /\ ~session.tipShown THEN <<"tip">> ELSE <<>>

\* What the notice at the head has to say now, if it is not dropped.
Words(shown) ==
    IF queue[1] = "mosh" THEN IF shown /\ mosh = "found" /\ ~lastcol THEN <<"mosh">> ELSE <<>>
    ELSE IF shown /\ session.tipsEnabled /\ ~session.tipShown THEN <<"tip">> ELSE <<>>

\* The head leaves the queue, said or not, and the wait for the next begins.
Say(shown, heard) ==
    LET said == Words(shown) IN
    /\ output' = output \o said
    /\ queue' = Tail(queue)
    /\ session' = [session EXCEPT !.tipShown = @ \/ said = <<"tip">>]
    /\ pace' = [settling |-> Len(queue) > 1, waited |-> 0,
                heard |-> IF said = <<>> THEN heard ELSE Len(output')]
    /\ ticks' = IF Len(queue) > 1 THEN ticks ELSE ticks - 1

\* Looking again shortly keeps the number of ticks as it is.
Again(waited, heard) ==
    /\ pace' = [pace EXCEPT !.waited = waited, !.heard = heard]
    /\ UNCHANGED <<output, queue, session, ticks>>

noticeSettle ==
    LET waited == pace.waited + 1
        moved == Len(output) # pace.heard
    IN  IF busy THEN IF waited >= BusyCap THEN Say(FALSE, pace.heard) ELSE Again(waited, pace.heard)
        ELSE IF moved /\ waited < QuietCap THEN Again(waited, Len(output))
        ELSE Say(TRUE, Len(output))

Tick ==
    /\ ticks > 0
    /\ IF queue = <<>>
       THEN /\ pace' = [pace EXCEPT !.settling = FALSE] /\ ticks' = ticks - 1
            /\ UNCHANGED <<output, queue, session>>
       ELSE noticeSettle
    /\ still' = TRUE
    /\ UNCHANGED <<busy, mosh, lastcol, turns>>

-----------------------------------------------------------------------------
Output ==
    /\ Len(output) < MaxOutput
    /\ output' = Append(output, "text") /\ still' = FALSE
    /\ UNCHANGED <<queue, pace, ticks, busy, session, mosh, lastcol, turns>>

\* maybeShortenHint, when a URL is typed.
maybeShortenHint ==
    /\ session.tipsEnabled /\ ~session.tipShown
    /\ Len(output) < MaxOutput
    /\ output' = Append(output, "hint") /\ still' = FALSE
    /\ session' = [session EXCEPT !.tipShown = TRUE]
    /\ UNCHANGED <<queue, pace, ticks, busy, mosh, lastcol, turns>>

\* A question is put to the user, or answered.
Ask ==
    /\ turns < MaxTurns /\ turns' = turns + 1 /\ busy' = ~busy
    /\ UNCHANGED <<output, queue, pace, ticks, session, mosh, lastcol, still>>

\* handleTipsCommand, typed or out of the startup memo; %debug lastcol.
SetTips ==
    /\ turns < MaxTurns /\ turns' = turns + 1
    /\ \E on \in BOOLEAN : session' = [session EXCEPT !.tipsEnabled = on]
    /\ UNCHANGED <<output, queue, pace, ticks, busy, mosh, lastcol, still>>

SetLastCol ==
    /\ turns < MaxTurns /\ turns' = turns + 1 /\ lastcol' = ~lastcol
    /\ UNCHANGED <<output, queue, pace, ticks, busy, session, mosh, still>>

-----------------------------------------------------------------------------
Init ==
    /\ output = <<>> /\ queue = <<>> /\ ticks = 0 /\ turns = 0
    /\ pace = [settling |-> FALSE, waited |-> 0, heard |-> 0]
    /\ busy \in BOOLEAN /\ lastcol \in BOOLEAN /\ still = FALSE
    /\ session = [stateReady |-> FALSE, tipsLoaded |-> FALSE, noticesQueued |-> FALSE,
                  tipsEnabled |-> TRUE, tipShown |-> FALSE]
    /\ mosh = "unprobed"

Next ==
    \/ TipsLoaded \/ LoggedIn \/ MoshAnswers \/ StateArrives \/ Tick
    \/ Output \/ maybeShortenHint \/ Ask \/ SetTips \/ SetLastCol

\* A timer that was set fires.
Spec == Init /\ [][Next]_vars /\ WF_vars(Tick)

-----------------------------------------------------------------------------
Said(kinds) == {i \in DOMAIN output : output[i] \in kinds}

\* One session says one tip or reminder and one hint however the two meet, and
\* one chain of ticks runs exactly while something is queued.
SaysEachThingOnce ==
    /\ Cardinality(Said({"tip", "hint"})) <= 1 /\ Cardinality(Said({"mosh"})) <= 1
    /\ ticks = (IF queue = <<>> THEN 0 ELSE 1) /\ pace.settling = (queue # <<>>)

\* A notice leaves the queue to be printed between questions only, in a gap of
\* the output or after the longest wait, and a tip only if tips are there and wanted.
Welcome ==
    Len(queue') < Len(queue) /\ output' # output =>
        /\ ~busy /\ (still \/ pace.waited + 1 >= QuietCap)
        /\ output'[Len(output')] = "tip" => session.tipsLoaded /\ session.tipsEnabled

NoticesKnowTheirPlace == []SaysEachThingOnce /\ [][Welcome]_vars
=============================================================================
