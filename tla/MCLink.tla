---- MODULE MCLink ----
(* LilyWorld, and the reading of SLCP lines, on small instances.  part says which
   component runs; they do not interact. *)
EXTENDS LilyWorld

CONSTANTS who, whereis, u1, u2, d1

SomeFold == [n \in {"bob", "Bob", "amy", "cafe"} |-> IF n = "Bob" THEN "bob" ELSE n]
SomeNameAt == [h \in {u1, u2, d1} |-> IF h = u1 THEN "bob" ELSE IF h = u2 THEN "amy" ELSE "cafe"]

\* One user and one discussion with a name to spare: while both users and the
\* discussion exist every name is taken, and a discussion cannot move to another.
FewNames == {"bob", "amy", "cafe"}
Few == INSTANCE LilyState WITH
    Users <- {u1}, Names <- FewNames, fold <- [n \in FewNames |-> n], Values <- {"x"}

VARIABLE part \* the component that runs

VARIABLES
    slcp_left, slcp_sent, slcp_wire, slcp_buf, slcp_line, slcp_pos, slcp_params, slcp_got

Slcp == INSTANCE SlcpLine WITH
    Bytes <- {"a", "1", "=", " ", "]", "nl"}, MaxData <- 2, left <- slcp_left,
    sent <- slcp_sent, wire <- slcp_wire, buf <- slcp_buf, line <- slcp_line,
    pos <- slcp_pos, params <- slcp_params, got <- slcp_got

SlcpVars == <<slcp_left, slcp_sent, slcp_wire, slcp_buf, slcp_line, slcp_pos, slcp_params,
               slcp_got>>

SlcpIsOff ==
    /\ slcp_left = "off" /\ slcp_sent = "off" /\ slcp_wire = "off" /\ slcp_buf = "off"
    /\ slcp_line = "off" /\ slcp_pos = "off" /\ slcp_params = "off" /\ slcp_got = "off"

ASSUME Picture!StateAssumption
ASSUME Pane!PaneAssumption

PictureVars == <<exists, gone, nameAt, valueAt, memberAt, groupsAt, byHandle, byName,
                  discMembership, whoami, synced, retitled, renamed, vacated, blind>>
PaneVars == <<pane, ids, missed, mark, processedIDs, answers, link, made, turns, reached, adopted,
              unread, disturbed>>

PictureIsIdle == Picture!Init /\ exists = Users /\ nameAt = SomeNameAt /\ valueAt[u1] = "x"

AllInit ==
    \/ part = "connection" /\ Init /\ SlcpIsOff /\ PictureIsIdle /\ Pane!Init
    \/ part = "lines" /\ Slcp!Init /\ Init /\ PictureIsIdle /\ Pane!Init
    \/ part = "state" /\ Picture!Init /\ Init /\ SlcpIsOff /\ Pane!Init
    \/ part = "few" /\ Few!Init /\ Init /\ SlcpIsOff /\ Pane!Init
    \/ part = "pane" /\ Pane!Init /\ Init /\ SlcpIsOff /\ PictureIsIdle

AllNext ==
    \/ part = "connection" /\ Next /\ UNCHANGED <<part, SlcpVars, PictureVars, PaneVars>>
    \/ part = "lines" /\ Slcp!Next /\ UNCHANGED <<part, vars, PictureVars, PaneVars>>
    \/ part = "state" /\ Picture!Next /\ UNCHANGED <<part, vars, SlcpVars, PaneVars>>
    \/ part = "few" /\ Few!Next /\ UNCHANGED <<part, vars, SlcpVars, PaneVars>>
    \/ part = "pane" /\ Pane!Next /\ UNCHANGED <<part, vars, SlcpVars, PictureVars>>

AllVars == <<part, vars, SlcpVars, PictureVars, PaneVars>>
AllSpec ==
    /\ AllInit
    /\ [][AllNext]_AllVars
    /\ WF_vars(part = "connection" /\ Connect) /\ WF_vars(part = "connection" /\ Watchdog)
    /\ WF_vars(part = "connection" /\ FanOut) /\ WF_vars(part = "connection" /\ AskWhere)
    /\ WF_vars(part = "connection" /\ LoopSends) /\ WF_vars(part = "connection" /\ LoopStops)

-----------------------------------------------------------------------------
\* "cannot hang the caller indefinitely": Connect returns, unless Lily says more
\* lines than Events holds before it confirms the login; and a session whose
\* connection is lost learns of it, so fanOut tears it down.
ConnectionsEnd == ConnectReturns /\ LostConnectionEndsSession

\* What Lily writes is what the parser reads, in order and however the bytes are
\* cut up, for every message whose values hold no newline; one that holds a newline
\* costs its own message, and no other.
\* (conn.go readLine, parser.go Parse and parseParams, read back against what was
\* written)
LinesReadBack == part = "lines" => Slcp!ReadsBack
====
