---- MODULE LilySays ----
(* What becomes of Lily's output in a session: command output routed to clients
   and fetches, and events told to clients. *)
(* They do not interact; what they promise is stated here for what checks it and
   for what proves it. *)
EXTENDS CommandRouting

(* Events on their way to the user. *)
CONSTANTS Me, Users, Disc, Described, Renames, Telling, MaxAhead

VARIABLES st, events, socket, mine, answer, behind

Told == INSTANCE EventLine

-----------------------------------------------------------------------------
\* An event that is not a message is told the same by the proxy, to clients that
\* print its text, and by the terminal, except in the two cases of Differ, where
\* it is not, and as a quiet line only when we did it; whoever is mentioned is
\* called by a name borne since the event was applied, however far the picture has
\* run ahead of the events; and once all is delivered the status bar shows us as
\* the proxy has us, unless an event overtook the answer to /state.
\* (eventformat.go formatEventText, format.go formatEvent, ui.go)
EventsAreToldAlike == Told!EventsAreToldAlike
====
