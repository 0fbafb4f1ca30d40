---- MODULE Callers ----
(* What users say to Lily: the answers to its prompts and the stores beside them,
   and the destinations of what is typed. *)
(* They do not interact; what they promise is stated here for what checks it and
   for what proves it. *)
EXTENDS Dialogue

(* Where a line goes. *)
CONSTANTS Users, Discs, Me, Names, Pieces, pastSendsMax, MaxLine, MaxLog

VARIABLES entities, inputValue, inputCursor, expandSender, expandRecips, expandSendgroup, pastSends,
          log, tabbed

Recent == INSTANCE Destinations

-----------------------------------------------------------------------------
\* Destinations: what was used last is offered first, whatever was recalled,
\* completed or sent in between.  (expand.go pushPastSend)
RecentComeFirst == Recent!RecentComeFirst
====
