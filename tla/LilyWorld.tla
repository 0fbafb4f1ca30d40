---- MODULE LilyWorld ----
(* From the connection to the screen: the connection with its login, the picture
   of Lily's world that its reader keeps, and the pane in which a terminal shows
   what came. *)
(* They do not interact; what they promise is stated here for what checks it and
   for what proves it. *)
EXTENDS LilyConn

(* The picture of the world. *)
CONSTANTS Users, Discs, Me, Names, fold, Values

VARIABLES
    exists, gone, nameAt, valueAt, memberAt, groupsAt,
    byHandle, byName, discMembership, whoami, synced, retitled, renamed, vacated, blind

Picture == INSTANCE LilyState

(* What the terminal shows. *)
CONSTANTS MaxScrollback, ScrollbackSlack, Screen, Sizes, MaxItems, MaxTurns

VARIABLES
    pane, ids, missed, mark, processedIDs, answers, link, made, turns,
    reached, adopted, unread, disturbed

Pane == INSTANCE OutputPane

-----------------------------------------------------------------------------
\* However renames, syncs, creations and destructions follow each other, a known
\* entity is one Lily has, with its name and value, and is found under its name;
\* old names find nothing; and once /where is answered a discussion shows as ours
\* exactly if it is.  Except: a discussion retitled or renamed keeps its old title
\* or name until it is described again, a name that a renamed discussion has had
\* may find nothing, and an answer to /where after such a renaming counts for
\* nothing.  (state.go applyUser, applyDisc, applyGroup, ApplyNotify)
PictureIsLilys == Picture!PictureIsLilys

\* The incremental view is the view a full rendering would give; the mark a client
\* reports names a message that was in view or above it, or is the mark that an
\* answer for an ended session brought; and the pager scrolls past no output that
\* arrived while the user did nothing, until a resize or a reload.
\* (ui.go syncViewportContent, advanceLastSeenID, restorePosition)
PaneShowsWhatCame == Pane!ViewShowsOutput /\ Pane!SeenWasReached /\ Pane!PagerHolds

\* A reader who has scrolled back keeps the item at the top of the view, through
\* new output, trimming and changes of the window.  (ui.go syncViewportContent)
ViewHolds == Pane!ViewHolds
====
