---- MODULE MCTerminal ----
(* Terminal on small instances.  part says which component runs; they do not interact. *)
EXTENDS Terminal

SomeMsgs == <<2, 1>>

SomePasswords == [u \in {"ann", "ben"} |-> IF u = "ann" THEN "apple" ELSE "berry"]
SomeLaunches == {
    <<"", "", "", FALSE, TRUE>>, <<"ann", "apple", "", FALSE, FALSE>>,
    <<"ann", "old", "apple", FALSE, TRUE>>, <<"ann", "apple", "", TRUE, FALSE>>}

SomeFocuses ==
    {{"past"}, {"link", "edit"}, {"link", "paste"}, {"name", "paste"},
     {"kill", "edit"}, {"kill", "paste"}}

VARIABLE part \* the component that runs

ASSUME Notice!NoticesAssumption
ASSUME Saved!SavedAssumption
ASSUME Editor!ComposeAssumption

NoticeVars == <<output, queue, pace, ticks, busy, session, mosh, lastcol, turns, still>>
SavedVars == <<file, keyring, fileOpen, keyringUp, last, dialog, creds, lookup, storeCmds,
                tries, issued, box>>
EditorVars == <<line, cursor, killRing, lastKill, inputHistory, historyPos, historySave,
                 search, popup, paste, previews, shortenPending, typed, fetches, gone,
                 under, killedOf, entered, focus>>

SessionIsIdle == Init /\ known = {}
NoticeIsIdle == Notice!Init /\ ~busy /\ ~lastcol
SavedIsIdle == Saved!Init /\ last = ""
EditorIsIdle == Editor!Init /\ focus = {"past"}

AllInit ==
    \/ part = "session" /\ Init /\ NoticeIsIdle /\ SavedIsIdle /\ EditorIsIdle
    \/ part = "notices" /\ Notice!Init /\ SessionIsIdle /\ SavedIsIdle /\ EditorIsIdle
    \/ part = "passwords" /\ Saved!Init /\ SessionIsIdle /\ NoticeIsIdle /\ EditorIsIdle
    \/ part = "compose" /\ Editor!Init /\ SessionIsIdle /\ NoticeIsIdle /\ SavedIsIdle

\* Bound: the first session says and fails four things between them.
SomeSession == Next /\ log'[1] + trouble' <= 4

AllNext ==
    \/ part = "session" /\ SomeSession /\ UNCHANGED <<part, NoticeVars, SavedVars, EditorVars>>
    \/ part = "notices" /\ Notice!Next /\ UNCHANGED <<part, vars, SavedVars, EditorVars>>
    \/ part = "passwords" /\ Saved!Next /\ UNCHANGED <<part, vars, NoticeVars, EditorVars>>
    \/ part = "compose" /\ Editor!Next /\ UNCHANGED <<part, vars, NoticeVars, SavedVars>>

AllVars == <<part, vars, NoticeVars, SavedVars, EditorVars>>
AllSpec ==
    /\ AllInit
    /\ [][AllNext]_AllVars
    /\ WF_vars(part = "session" /\ Runs) /\ WF_vars(part = "session" /\ Hears)
====
