----------------------------- MODULE EventLine -----------------------------
(***************************************************************************)
(* An event on its way to the user.  The connection's goroutine applies it *)
(* to the proxy's picture of Lily and hands it on; fanOut puts it into     *)
(* words (proxy/api/eventformat.go) with the picture as it is by then; the *)
(* terminal prints those words, or its own for what people send            *)
(* (tui/ui/format.go), and follows its own name, blurb and state, which    *)
(* GET /state gave it once.                                                *)
(*                                                                         *)
(* A sentence is one phrase and the things it names, whether it is set     *)
(* apart as "(...)" (Quiet), as "*** ... ***" (Banner) or not at all; what *)
(* is left out of a name list ("a discussion") needs no phrase of its own. *)
(***************************************************************************)
EXTENDS Integers, Sequences, FiniteSets, Functions

CONSTANTS
    Me,          \* our handle, State.Whoami
    Users, Disc, \* handles
    Described,   \* [handles -> the entity Lily described at login]
    Renames,     \* <<user, new name>>
    Telling,     \* the events that leave the picture alone
    MaxAhead     \* bound on the events between Lily and the terminal; one of
                 \* Telling is the first of them, and before /state is asked for

VARIABLES
    st,     \* State.byHandle: handle -> [name, blurb, state]
    events, \* Conn.Events: applied to st, not yet put into words
    socket, \* the event messages on their way to the terminal
    mine,   \* the terminal's entity of its own user; NoEntity before /state
    answer, \* GET /state: "none", "asked" or "sent", and our entity in it
    behind  \* history: an event about us was overtaken by the answer

vars == <<st, events, socket, mine, answer, behind>>

-----------------------------------------------------------------------------
(* formatEventText: the proxy's words                                      *)

\* The empty string: what an event, an entity or a sentence does not have.
NoText == ""

Event(kind, source, recips, targets, sub, value) ==
    [kind |-> kind, source |-> source, recips |-> recips, targets |-> targets,
     sub |-> sub, value |-> value]

Quiet(says, names) == <<"quiet", says, names>>
Banner(says, names) == <<"banner", says, names>>
Plain(says, names) == <<"plain", says, names>>
Given(v) == IF v = NoText THEN <<>> ELSE <<v>>

name(ents, h) == IF h \in DOMAIN ents THEN ents[h].name ELSE h
blurb(ents, h) == IF h \in DOMAIN ents THEN Given(ents[h].blurb) ELSE <<>>

\* What both formatters take out of an event first.
Context(e, ents, whoami) ==
    [kind |-> e.kind, sub |-> e.sub, value |-> Given(e.value),
     self |-> e.source = whoami,
     you |-> \E i \in DOMAIN e.targets : e.targets[i] = whoami,
     src |-> <<name(ents, e.source)>>,
     srcB |-> <<name(ents, e.source)>> \o blurb(ents, e.source),
     blurb |-> blurb(ents, e.source),
     disc |-> [i \in DOMAIN e.recips |-> name(ents, e.recips[i])],
     tgt |-> [i \in DOMAIN e.targets |-> name(ents, e.targets[i])],
     raw |-> <<e.kind, e.source, e.value>>]

\* One sentence for ourselves and one for the others, who are named.
Says(c, quiet, banner, names) ==
    IF c.self THEN Quiet(quiet, names) ELSE Banner(banner, c.src \o names)

PresenceText(c) ==
    CASE c.kind = "connect" -> Banner("has entered lily", c.srcB)
      [] c.kind = "disconnect" -> Banner("has left lily", c.srcB \o c.value)
      [] c.kind = "attach" -> Banner("has reattached", c.srcB)
      [] c.kind = "detach" -> Banner("has been detached", c.srcB \o c.value)
      [] c.kind = "here" -> IF c.self THEN Quiet("you are now here", c.blurb)
                            ELSE Banner("is now here", c.src)
      [] c.kind = "away" -> IF c.value # <<>> THEN Banner("has idled away", c.src)
                            ELSE IF c.self THEN Quiet("you are now away", c.blurb)
                            ELSE Banner("is now away", c.src)
      [] c.kind = "unidle" -> Banner("is now unidle", c.src)

IdentityText(c) ==
    CASE c.kind = "rename" -> Says(c, "you are now named", "is now named", c.value)
      [] c.kind = "blurb" -> Says(c, "your blurb", "has changed their blurb", c.value)
      [] c.kind = "info" ->
             IF c.value = <<>> THEN Says(c, "you have cleared the info", "has cleared the info", c.disc)
             ELSE Says(c, "you have changed the info", "has changed the info", c.disc)

MembershipText(c) ==
    CASE c.kind = "create" -> Says(c, "you have created", "has created", c.disc)
      [] c.kind = "destroy" ->
             IF c.disc = <<>> /\ ~c.self
             THEN Banner("has destroyed a discussion (server didn't say which)", c.src)
             ELSE Says(c, "you have destroyed", "has destroyed", c.disc)
      [] c.kind = "join" -> Says(c, "you have joined", "is now a member of", c.disc)
      [] c.kind = "quit" -> Says(c, "you have quit", "is no longer a member of", c.disc)
      [] c.kind = "retitle" -> Says(c, "you have changed the title", "has changed the title", c.disc \o c.value)
      [] c.kind = "drename" -> Banner("is now named -", c.disc \o c.value)

Mut_PermitText(c) == \* the cases about anybody come before those about us
    IF c.disc # <<>> /\ c.tgt # <<>> /\ c.sub = "owner"
    THEN Banner("has taken ownership", c.src \o c.disc)
    ELSE Banner("has changed permissions", c.src \o c.disc)

PermitText(c) ==
    LET owner == c.sub = "owner"
        sub == Given(c.sub)
        some == c.sub # NoText
        hasT == c.tgt # <<>>
    IN  IF c.disc = <<>> THEN Banner("has changed permissions", c.src)
        ELSE IF c.self /\ c.you /\ owner THEN Quiet("you have accepted ownership", c.disc)
        ELSE IF c.self /\ hasT /\ owner THEN Quiet("you have offered ownership", c.tgt \o c.disc)
        ELSE IF c.self /\ hasT /\ some THEN Quiet("you have given privileges", c.tgt \o sub \o c.disc)
        ELSE IF c.self /\ ~hasT /\ some THEN Quiet("no longer moderated", c.disc)
        ELSE IF c.you /\ owner THEN Banner("has offered you ownership", c.src \o c.disc)
        ELSE IF c.you /\ some THEN Banner("has given you privileges", c.src \o sub \o c.disc)
        ELSE IF c.you THEN Banner("has permitted you", c.src \o c.disc)
        ELSE IF hasT /\ owner THEN Banner("has taken ownership", c.src \o c.disc)
        ELSE IF hasT /\ some THEN Banner("has given privileges", c.src \o c.tgt \o sub \o c.disc)
        ELSE IF hasT THEN Banner("has permitted", c.src \o c.tgt \o c.disc)
        ELSE IF some THEN Banner("has unmoderated", c.src \o c.disc)
        ELSE Banner("has changed permissions", c.src \o c.disc)

DepermitText(c) ==
    LET owner == c.sub = "owner"
        sub == Given(c.sub)
        some == c.sub # NoText
        hasT == c.tgt # <<>>
    IN  IF c.disc = <<>> THEN Banner("has changed permissions", c.src)
        ELSE IF c.self /\ hasT /\ owner THEN Quiet("you have rescinded your offer", c.tgt \o c.disc)
        ELSE IF c.self /\ hasT /\ some THEN Quiet("you have removed privileges", c.tgt \o sub \o c.disc)
        ELSE IF c.self /\ ~hasT /\ some THEN Quiet("now moderated", c.disc)
        ELSE IF c.you /\ owner THEN Banner("has rescinded their offer", c.src \o c.disc)
        ELSE IF c.you /\ some THEN Banner("has removed your privileges", c.src \o sub \o c.disc)
        ELSE IF c.you THEN Banner("has depermitted you", c.src \o c.disc)
        ELSE IF hasT /\ some THEN Banner("has removed privileges", c.src \o c.tgt \o sub \o c.disc)
        ELSE IF hasT THEN Banner("has depermitted", c.src \o c.tgt \o c.disc)
        ELSE IF some THEN Banner("has moderated", c.src \o c.disc)
        ELSE Banner("has changed permissions", c.src \o c.disc)

AppointText(c) ==
    LET role == Given(c.sub) IN
    IF c.sub = "owner"
    THEN IF c.self /\ c.you THEN Quiet("you have accepted ownership", c.disc)
         ELSE IF c.self THEN Quiet("you have offered ownership", c.tgt \o c.disc)
         ELSE IF c.you THEN Banner("has offered you ownership", c.src \o c.disc)
         ELSE Banner("is now the owner", c.src \o c.disc)
    ELSE IF c.sub = "speaker" /\ c.tgt = <<>> THEN Banner("is now moderated", c.disc)
    ELSE IF c.sub = NoText THEN Banner("made an appointment", c.src \o c.disc)
    ELSE IF c.you THEN Banner("you are now", role \o c.disc)
    ELSE Banner("is now a", c.tgt \o role \o c.disc)

UnappointText(c) ==
    LET role == Given(c.sub) IN
    IF c.sub = "owner" /\ c.self THEN Quiet("you have rescinded your offer", c.tgt \o c.disc)
    ELSE IF c.sub = "owner" /\ c.you THEN Banner("has rescinded their offer", c.src \o c.disc)
    ELSE IF c.sub = "speaker" /\ c.tgt = <<>> THEN Banner("is no longer moderated", c.disc)
    ELSE IF c.sub = NoText THEN Banner("changed an appointment", c.src \o c.disc)
    ELSE IF c.you THEN Banner("you are no longer", role \o c.disc)
    ELSE Banner("is no longer a", c.tgt \o role \o c.disc)

OtherText(c) ==
    CASE c.kind = "ignore" ->
             IF c.value = <<>> /\ c.tgt = <<>> /\ c.sub = NoText
             THEN Banner("is no longer ignoring you", c.src)
             ELSE Banner("is now ignoring you", c.src \o c.value)
      [] c.kind = "unignore" -> Banner("is no longer ignoring you", c.src)
      [] c.kind = "review" -> Banner("has cleared the review", c.src \o c.disc)
      [] c.kind = "sysmsg" -> Banner(NoText, c.value)

\* The compact lines of sends.
SendText(c) ==
    CASE c.kind = "public" -> Plain("From", c.srcB \o c.disc \o c.value)
      [] c.kind = "private" -> Plain("Private from", c.srcB \o c.value)
      [] c.kind = "emote" -> Plain(NoText, c.src \o c.value)
      [] c.kind = "pa" -> Plain("Public address from", c.srcB \o c.value)

Presence == {"connect", "disconnect", "attach", "detach", "here", "away", "unidle"}
Identity == {"rename", "blurb", "info"}
Membership == {"create", "destroy", "join", "quit", "retitle", "drename"}
Other == {"ignore", "unignore", "review", "sysmsg"}
Sends == {"public", "private", "emote", "pa"}

formatEventText(e, ents) ==
    LET c == Context(e, ents, Me) IN
    CASE e.kind \in Presence -> PresenceText(c)
      [] e.kind \in Identity -> IdentityText(c)
      [] e.kind \in Membership -> MembershipText(c)
      [] e.kind = "permit" -> PermitText(c)
      [] e.kind = "depermit" -> DepermitText(c)
      [] e.kind = "appoint" -> AppointText(c)
      [] e.kind = "unappoint" -> UnappointText(c)
      [] e.kind \in Other -> OtherText(c)
      [] e.kind \in Sends -> SendText(c)
      [] OTHER -> Plain("[]", c.raw)

-----------------------------------------------------------------------------
NoEntity == [name |-> NoText, blurb |-> NoText, state |-> NoText]

\* The events that change the picture.
Changes ==
    {Event("rename", r[1], <<>>, <<>>, NoText, r[2]) : r \in Renames}
    \cup {Event("blurb", Me, <<>>, <<>>, NoText, v) : v \in {NoText, "hi"}}
    \cup {Event(k, Me, <<>>, <<>>, NoText, NoText) : k \in {"here", "away"}}
    \cup {Event("destroy", u, <<Disc>>, <<>>, NoText, NoText) : u \in Users}

Entity(r) == r = [name |-> r.name, blurb |-> r.blurb, state |-> r.state]
Handles == Users \cup {Disc}

\* Events are about whom Lily has described, and only the discussion is destroyed.
EventAssumption ==
    /\ Me \in Users /\ Disc \notin Users /\ Described = [h \in Handles |-> Described[h]]
    /\ \A h \in Handles : Entity(Described[h])
    /\ \A r \in Renames : r[1] \in Users
    /\ \A e \in Telling :
         /\ e.source \in Handles /\ {e.recips, e.targets} \subseteq Seq(Handles)
         /\ e.kind = "destroy" => e.recips \in Seq({Disc})

-----------------------------------------------------------------------------
(* formatEvent: the terminal's own words                                   *)

quiet(says, names) == Quiet(says, names)
banner(says, names) == Banner(says, names)
Mine(c, ours, theirs, names) ==
    IF c.self THEN quiet(ours, names) ELSE banner(theirs, c.src \o names)

PersonLine(c) ==
    CASE c.kind = "connect" -> banner("has entered lily", c.srcB)
      [] c.kind = "disconnect" -> banner("has left lily", c.srcB \o c.value)
      [] c.kind = "attach" -> banner("has reattached", c.srcB)
      [] c.kind = "detach" -> banner("has been detached", c.srcB \o c.value)
      [] c.kind = "here" /\ c.self -> quiet("you are now here", c.blurb)
      [] c.kind = "here" /\ ~c.self -> banner("is now here", c.src)
      [] c.kind = "away" /\ c.value # <<>> -> banner("has idled away", c.src)
      [] c.kind = "away" /\ c.value = <<>> /\ c.self -> quiet("you are now away", c.blurb)
      [] c.kind = "away" /\ c.value = <<>> /\ ~c.self -> banner("is now away", c.src)
      [] c.kind = "unidle" -> banner("is now unidle", c.src)
      [] c.kind = "rename" -> Mine(c, "you are now named", "is now named", c.value)
      [] c.kind = "blurb" -> Mine(c, "your blurb", "has changed their blurb", c.value)
      [] c.kind = "info" /\ c.value = <<>> ->
             Mine(c, "you have cleared the info", "has cleared the info", c.disc)
      [] c.kind = "info" /\ c.value # <<>> ->
             Mine(c, "you have changed the info", "has changed the info", c.disc)

DiscussionLine(c) ==
    CASE c.kind = "create" -> Mine(c, "you have created", "has created", c.disc)
      [] c.kind = "destroy" -> Mine(c, "you have destroyed", "has destroyed", c.disc)
      [] c.kind = "join" -> Mine(c, "you have joined", "is now a member of", c.disc)
      [] c.kind = "quit" -> Mine(c, "you have quit", "is no longer a member of", c.disc)
      [] c.kind = "retitle" ->
             Mine(c, "you have changed the title", "has changed the title", c.disc \o c.value)
      [] c.kind = "drename" -> banner("is now named -", c.disc \o c.value)

\* permit and depermit; what none of the cases tells has no discussion in it.
PermissionLine(c) ==
    LET permit == c.kind = "permit"
        owner == c.sub = "owner"
        some == c.sub # NoText
        hasT == c.tgt # <<>>
        role == Given(c.sub)
        Word(given, taken) == IF permit THEN given ELSE taken
    IN  IF c.disc = <<>> THEN banner("has changed permissions", c.src)
        ELSE IF c.self /\ c.you /\ owner /\ permit THEN quiet("you have accepted ownership", c.disc)
        ELSE IF c.self /\ hasT /\ owner
        THEN quiet(Word("you have offered ownership", "you have rescinded your offer"), c.tgt \o c.disc)
        ELSE IF c.self /\ hasT /\ some
        THEN quiet(Word("you have given privileges", "you have removed privileges"), c.tgt \o role \o c.disc)
        ELSE IF c.self /\ ~hasT /\ some THEN quiet(Word("no longer moderated", "now moderated"), c.disc)
        ELSE IF c.you /\ owner
        THEN banner(Word("has offered you ownership", "has rescinded their offer"), c.src \o c.disc)
        ELSE IF c.you /\ some
        THEN banner(Word("has given you privileges", "has removed your privileges"), c.src \o role \o c.disc)
        ELSE IF c.you THEN banner(Word("has permitted you", "has depermitted you"), c.src \o c.disc)
        ELSE IF hasT /\ owner /\ permit THEN banner("has taken ownership", c.src \o c.disc)
        ELSE IF hasT /\ some
        THEN banner(Word("has given privileges", "has removed privileges"), c.src \o c.tgt \o role \o c.disc)
        ELSE IF hasT THEN banner(Word("has permitted", "has depermitted"), c.src \o c.tgt \o c.disc)
        ELSE IF some THEN banner(Word("has unmoderated", "has moderated"), c.src \o c.disc)
        ELSE banner("has changed permissions", c.src)

\* appoint and unappoint.
AppointmentLine(c) ==
    LET appoint == c.kind = "appoint"
        owner == c.sub = "owner"
        role == Given(c.sub)
        Word(given, taken) == IF appoint THEN given ELSE taken
    IN  IF owner /\ appoint /\ c.self /\ c.you THEN quiet("you have accepted ownership", c.disc)
        ELSE IF owner /\ c.self
        THEN quiet(Word("you have offered ownership", "you have rescinded your offer"), c.tgt \o c.disc)
        ELSE IF owner /\ c.you
        THEN banner(Word("has offered you ownership", "has rescinded their offer"), c.src \o c.disc)
        ELSE IF owner /\ appoint THEN banner("is now the owner", c.src \o c.disc)
        ELSE IF c.tgt = <<>> /\ c.sub = "speaker"
        THEN banner(Word("is now moderated", "is no longer moderated"), c.disc)
        ELSE IF c.you /\ role # <<>> THEN banner(Word("you are now", "you are no longer"), role \o c.disc)
        ELSE IF role # <<>> THEN banner(Word("is now a", "is no longer a"), c.tgt \o role \o c.disc)
        ELSE banner(Word("made an appointment", "changed an appointment"), c.src \o c.disc)

OtherLine(c) ==
    CASE c.kind = "ignore" /\ c.value = <<>> /\ c.tgt = <<>> /\ c.sub = NoText ->
             banner("is no longer ignoring you", c.src)
      [] c.kind = "ignore" /\ ~(c.value = <<>> /\ c.tgt = <<>> /\ c.sub = NoText) ->
             banner("is now ignoring you", c.src \o c.value)
      [] c.kind = "unignore" -> banner("is no longer ignoring you", c.src)
      [] c.kind = "review" -> banner("has cleared the review", c.src \o c.disc)
      [] c.kind = "sysmsg" -> banner(NoText, c.value)

\* What people send is headed by who sent it and, unless it went to us alone,
\* to whom.
SendLine(c) ==
    CASE c.kind = "public" -> Plain("From", c.srcB \o c.disc \o c.value)
      [] c.kind = "private" -> Plain("Private message from",
             c.srcB \o (IF Len(c.disc) > 1 THEN c.disc ELSE <<>>) \o c.value)
      [] c.kind = "emote" -> Plain("to", c.disc \o c.src \o c.value)
      [] c.kind = "pa" -> Plain("Public address message from", c.srcB \o c.value)

\* The table formatEvent ends in.
OwnWords(e, ents) ==
    LET c == Context(e, ents, Me) IN
    CASE e.kind \in Presence \cup Identity -> PersonLine(c)
      [] e.kind \in Membership -> DiscussionLine(c)
      [] e.kind \in {"permit", "depermit"} -> PermissionLine(c)
      [] e.kind \in {"appoint", "unappoint"} -> AppointmentLine(c)
      [] e.kind \in Other -> OtherLine(c)
      [] e.kind \in Sends -> SendLine(c)
      [] OTHER -> Plain("[]", c.raw)

\* The proxy's text is printed unless somebody sent something.
formatEvent(m) == IF m.event.kind \in Sends THEN OwnWords(m.event, m.ents) ELSE m.text

-----------------------------------------------------------------------------
(* The proxy                                                               *)

ApplyNotify(e) ==
    st' = CASE e.kind = "rename" -> [st EXCEPT ![e.source].name = e.value]
            [] e.kind = "blurb" -> [st EXCEPT ![e.source].blurb = e.value]
            [] e.kind \in {"here", "away"} -> [st EXCEPT ![e.source].state = e.kind]
            [] e.kind = "destroy" -> Restrict(st, DOMAIN st \ {e.recips[i] : i \in DOMAIN e.recips})
            [] OTHER -> st

Mentioned(e) ==
    {e.source} \cup {e.recips[i] : i \in DOMAIN e.recips} \cup {e.targets[i] : i \in DOMAIN e.targets}

\* readLoop: applied first, then handed on.  History: an event keeps by what
\* names each handle has gone since (borne), from those it had once the event was
\* applied.
Happens(e) ==
    /\ Len(events) + Len(socket) < MaxAhead
    /\ e.kind = "destroy" => Disc \in DOMAIN st
    /\ e.kind = "rename" => \A h \in DOMAIN st : st[h].name # e.value
    /\ ApplyNotify(e)
    /\ LET after == [h \in DOMAIN Described |->
                       IF e.kind = "rename" /\ h = e.source THEN {e.value}
                       ELSE IF e.kind = "destroy" /\ h = Disc THEN {Disc} ELSE {}]
           Later(item) == [item EXCEPT !.borne = [h \in DOMAIN Described |-> item.borne[h] \cup after[h]]]
       IN  events' = Append([i \in DOMAIN events |-> Later(events[i])],
                            [event |-> e,
                             borne |-> [h \in DOMAIN Described |-> {name(st', h)}]])
    /\ UNCHANGED <<socket, mine, answer, behind>>

msgToWS(item) ==
    LET ents == Restrict(st, Mentioned(item.event) \cap DOMAIN st) IN
    [event |-> item.event, ents |-> ents, text |-> formatEventText(item.event, ents),
     borne |-> item.borne]

fanOut ==
    /\ events # <<>>
    /\ events' = Tail(events)
    /\ socket' = Append(socket, msgToWS(Head(events)))
    /\ UNCHANGED <<st, mine, answer, behind>>

-----------------------------------------------------------------------------
(* The terminal                                                            *)

\* handleProxyMessage: our own entity follows the events about us.
Followed(e) ==
    IF e.source # Me \/ mine = NoEntity THEN mine
    ELSE CASE e.kind = "rename" -> [mine EXCEPT !.name = e.value]
           [] e.kind = "blurb" -> [mine EXCEPT !.blurb = e.value]
           [] e.kind \in {"here", "away"} -> [mine EXCEPT !.state = e.kind]
           [] OTHER -> mine

\* The line is printed; see formatEvent.
Receive ==
    /\ socket # <<>>
    /\ socket' = Tail(socket)
    /\ mine' = Followed(Head(socket).event)
    /\ behind' = (behind \/ (answer.is = "sent" /\ Head(socket).event.source = Me))
    /\ UNCHANGED <<st, events, answer>>

Ask ==
    /\ answer.is = "none" /\ answer' = [answer EXCEPT !.is = "asked"]
    /\ behind' = FALSE
    /\ UNCHANGED <<st, events, socket, mine>>

handleState ==
    /\ answer.is = "asked" /\ answer' = [is |-> "sent", me |-> st[Me]]
    /\ UNCHANGED <<st, events, socket, mine, behind>>

\* The answer replaces what the events have said.
initialState ==
    /\ answer.is = "sent"
    /\ mine' = answer.me /\ answer' = [is |-> "none", me |-> NoEntity]
    /\ UNCHANGED <<st, events, socket, behind>>

-----------------------------------------------------------------------------
Init ==
    /\ st = Described
    /\ events = <<>> /\ socket = <<>>
    /\ mine = NoEntity /\ answer = [is |-> "none", me |-> NoEntity]
    /\ behind = FALSE

Next ==
    \/ \E e \in Changes : Happens(e)
    \/ /\ events = <<>> /\ socket = <<>> /\ mine = NoEntity /\ answer.is = "none"
       /\ \E e \in Telling : Happens(e)
    \/ fanOut \/ Receive \/ Ask \/ handleState \/ initialState

Spec == Init /\ [][Next]_vars

-----------------------------------------------------------------------------
\* What the two formatters put differently: who may now do what in a discussion,
\* when the event does not say (the terminal leaves out the discussion), and a
\* discussion somebody else destroyed, when it does not say which (the proxy says
\* that it does not know).
Differ(e) ==
    \/ e.kind \in {"permit", "depermit"} /\ e.recips # <<>> /\ e.targets = <<>> /\ e.sub = NoText
    \/ e.kind = "destroy" /\ e.recips = <<>> /\ e.source # Me

\* An event that nobody sent as a message is told the same by the proxy, to
\* clients that print its text, and by the terminal, whoever did it to whom,
\* except in the two cases of Differ, and in those it is not; and it is set apart
\* as a quiet line only when we did it.
TextsAgree ==
    \A i \in DOMAIN socket :
        LET m == socket[i] IN
        /\ m.event.kind \notin Sends => (m.text = OwnWords(m.event, m.ents) <=> ~Differ(m.event))
        /\ m.text[1] = "quiet" => m.event.source = Me

\* However far the picture has run ahead of the events, whoever is mentioned is
\* called by a name borne since the event was applied, never by one given up
\* before or with it, and a discussion by its handle only if it is gone.  (So a
\* user who was renamed is called by the new name in the very event that tells it,
\* where eventformat_test.go:33-38 expects the old one.)
NamesFit ==
    \A i \in DOMAIN socket :
        \A h \in Mentioned(socket[i].event) : name(socket[i].ents, h) \in socket[i].borne[h]

\* Once all is delivered the status bar shows our name, blurb and state as the
\* proxy has them, unless an event overtook the answer to /state.
StatusAgrees ==
    events = <<>> /\ socket = <<>> /\ answer.is = "none" /\ mine # NoEntity /\ ~behind =>
        mine = st[Me]

EventsAreToldAlike == TextsAgree /\ NamesFit /\ StatusAgrees
=============================================================================
