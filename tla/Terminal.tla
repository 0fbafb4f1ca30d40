---- MODULE Terminal ----
(* The terminal client: its session with the proxy, the passwords it keeps, the
   notices it slips in and the line being composed. *)
(* They do not interact; what they promise is stated here for what checks it and
   for what proves it. *)
EXTENDS TerminalSession

(* The passwords it keeps. *)
CONSTANTS Users, Right, Old, Launches, Empty, MaxTurns

VARIABLES
    file, keyring, fileOpen, keyringUp, last, dialog, creds, lookup, storeCmds,
    tries, issued, box

Saved == INSTANCE SavedPassword WITH cmds <- storeCmds

(* The notes it prints unasked. *)
CONSTANTS QuietCap, BusyCap, MaxOutput, MaxAsks

VARIABLES output, queue, pace, ticks, busy, session, mosh, lastcol, turns, still

Notice == INSTANCE Notices WITH MaxTurns <- MaxAsks

(* The line being composed; inputHistory is the history of its lines. *)
CONSTANTS Typable, MaxTyped, MaxLine, MaxHistory, MaxPattern, MaxLookups, Focuses

VARIABLES line, cursor, killRing, lastKill, inputHistory, historyPos, historySave, search,
          popup, paste, previews, shortenPending, typed, fetches, gone, under, killedOf,
          entered, focus

Editor == INSTANCE ComposeLine WITH history <- inputHistory, MaxFetches <- MaxLookups

-----------------------------------------------------------------------------
\* Nothing is ever stored for a user but what Lily accepted for that user, whatever
\* is typed while a login, a lookup or a store command is under way.  When a login
\* worked while no other store command was under way, the next launch finds its
\* password if the box was ticked, and none if it was clear and one had been offered;
\* but before the server is known, as while the first lookup runs, the box changes
\* nothing.  (ui.go submitAuth, credentials.go credsAfterLogin)
SavedPasswordsWork == Saved!SavedPasswordsWork

\* One session says one tip or reminder and one hint however the two meet, and
\* one chain of ticks runs exactly while something is queued; a notice is printed
\* into no question, and into moving output only after the longer wait.
\* (notices.go queueNotice and noticeSettle)
NoticesKnowTheirPlace == Notice!NoticesKnowTheirPlace

\* What the user typed or pasted while no completion popup was open is in the line,
\* in the history or in what a search or the browsing of the history gives back,
\* unless a key removed it; kills in a row are one text to yank; and a pattern typed
\* letter by letter finds what looking for the whole of it would.
\* (input.go killLine, searchFind, historyPrev; completion.go handleCompletionKey)
TypingIsSafe == Editor!TypingIsSafe

\* An answer about a link, or previews taken into the line being typed, change the
\* text around the cursor but leave what was before it before it.  (input.go)
CursorKeepsItsPlace == Editor!CursorKeepsItsPlace
====
