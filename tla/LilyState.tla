----------------------------- MODULE LilyState ------------------------------
(***************************************************************************)
(* The proxy's picture of Lily (internal/lily/state.go): users and         *)
(* discussions by handle, everything by name, and the discussions we are   *)
(* a member of.  One goroutine applies Lily's messages in the order Lily   *)
(* sent them, so a message is applied in the step in which Lily's world    *)
(* changes; a message of a sync describes the world when it is sent.       *)
(***************************************************************************)
EXTENDS Integers, FiniteSets, Functions

CONSTANTS
    Users, Discs,  \* handles
    Me,            \* our handle
    Names,         \* names as they are spelled
    fold,          \* fold[n]: name n in lower case
    Values,        \* blurbs, titles and states
    None

Handles == Users \cup Discs
Keys == {fold[n] : n \in Names}

StateAssumption ==
    /\ Users \cap Discs = {}
    /\ Me \in Users
    /\ None \notin Handles /\ "group" \notin Handles
    /\ DOMAIN fold = Names

VARIABLES
    exists,    \* Lily: the users and discussions there are
    gone,      \* Lily: the discussions destroyed; their handles are not used again
    nameAt,    \* Lily: nameAt[h], the name of h
    valueAt,   \* Lily: valueAt[h], its blurb, title or state
    memberAt,  \* Lily: the discussions we are a member of
    groupsAt,  \* Lily: the names of our groups
    byHandle,  \* State.byHandle: handle -> its name and value
    byName,    \* State.byName: folded name -> handle, or "group"
    discMembership, \* State.discMembership
    whoami,    \* State.Whoami
    synced,    \* the answer to /where has been applied
    retitled,  \* history: the discussions retitled since they were last described
    renamed,   \* history: the discussions renamed since they were last described
    vacated,   \* history: the keys of names discussions have had
    blind      \* history: /where was answered after a discussion had been renamed

world == <<exists, gone, nameAt, valueAt, memberAt, groupsAt>>
index == <<byHandle, byName>>
history == <<retitled, renamed, vacated, blind>>
vars == <<world, index, discMembership, whoami, synced, history>>

TypeOK ==
    /\ exists \subseteq Handles /\ gone \subseteq Discs \ exists
    /\ nameAt \in [Handles -> Names] /\ valueAt \in [Handles -> Values]
    /\ memberAt \subseteq Discs /\ groupsAt \subseteq Names
    /\ DOMAIN byHandle \subseteq Handles
    /\ \A h \in DOMAIN byHandle : byHandle[h] \in [name : Names, value : Values]
    /\ DOMAIN byName \subseteq Keys
    /\ \A k \in DOMAIN byName : byName[k] \in Handles \cup {"group"}
    /\ discMembership \subseteq Discs
    /\ whoami \in {Me, None}
    /\ {synced, blind} \subseteq BOOLEAN
    /\ retitled \cup renamed \subseteq Discs /\ vacated \subseteq Keys

\* Lily's names are unique, whatever their case, across users, discussions and
\* groups.
Taken(n) == \/ \E h \in exists : fold[nameAt[h]] = fold[n]
            \/ \E g \in groupsAt : fold[g] = fold[n]
NamesUnique ==
    /\ \A h, i \in exists : fold[nameAt[h]] = fold[nameAt[i]] => h = i
    /\ \A h \in exists, g \in groupsAt : fold[nameAt[h]] # fold[g]
    /\ \A g, i \in groupsAt : fold[g] = fold[i] => g = i

Init ==
    /\ exists \in {E \in SUBSET Handles : Users \subseteq E}
    /\ gone = {}
    /\ nameAt \in [Handles -> Names]
    /\ \E v \in Values : valueAt = [h \in Handles |-> v]
    /\ memberAt \in SUBSET (exists \cap Discs)
    /\ groupsAt = {}
    /\ NamesUnique
    /\ byHandle = [h \in {} |-> None] /\ byName = [k \in {} |-> None]
    /\ discMembership = {} /\ whoami = None /\ synced = FALSE
    /\ retitled = {} /\ renamed = {} /\ vacated = {} /\ blind = FALSE

-----------------------------------------------------------------------------
(* State.  (Mut_... definitions are plausible faults; no action uses them.)*)

Put(f, k, v) == [x \in DOMAIN f \cup {k} |-> IF x = k THEN v ELSE f[x]]
Without(f, K) == Restrict(f, DOMAIN f \ K)

\* Forgets to drop the old name.
Mut_Indexed(h, n) == Put(byName, fold[n], h)
\* The entry of the old name goes, whosoever it is by then.
Indexed(h, n) ==
    Put(IF h \in DOMAIN byHandle THEN Without(byName, {fold[byHandle[h].name]}) ELSE byName,
        fold[n], h)

\* ApplyUser and ApplyDisc, with getOrCreate: the index changes with the name.
Upsert(h, n, v) ==
    /\ byHandle' = Put(byHandle, h, [name |-> n, value |-> v])
    /\ byName' = IF h \in DOMAIN byHandle /\ byHandle[h].name = n THEN byName ELSE Indexed(h, n)

ApplyGroup(n) ==
    byName' = IF fold[n] \in DOMAIN byName THEN byName ELSE Put(byName, fold[n], "group")

ApplyRename(u, n) ==
    IF u \in DOMAIN byHandle
    THEN /\ byName' = Indexed(u, n)
         /\ byHandle' = [byHandle EXCEPT ![u].name = n]
    ELSE UNCHANGED index

ApplyValue(h, v) ==
    byHandle' = IF h \in DOMAIN byHandle THEN [byHandle EXCEPT ![h].value = v] ELSE byHandle

\* The title is written on the source, the user who acted; titles are kept here
\* of discussions only.
ApplyRetitle(source, v) ==
    byHandle' = IF source \in DOMAIN byHandle \cap Discs
                THEN [byHandle EXCEPT ![source].value = v] ELSE byHandle

\* Only discussions go: the source of the event is the user who destroyed them.
ApplyDestroy(D) ==
    LET known == D \cap DOMAIN byHandle \cap Discs IN
    /\ byName' = Without(byName, {fold[byHandle[d].name] : d \in known})
    /\ byHandle' = Without(byHandle, known)
    /\ discMembership' = discMembership \ known

ApplyQuit(u, D) == discMembership' = IF u = whoami THEN discMembership \ D ELSE discMembership

ApplyJoin(u, D) == discMembership' = IF u = whoami THEN discMembership \cup D ELSE discMembership

\* The names in the answer that are those of discussions.
WhereNames(N) ==
    {byName[fold[n]] : n \in {m \in N : fold[m] \in DOMAIN byName}} \cap Discs

-----------------------------------------------------------------------------
(* Lily acts, and the message that tells us is applied.                    *)

\* %USER and %DISC: in the first sync, in one asked for by %sync, or unasked.
Describe(h) ==
    /\ h \in exists
    /\ Upsert(h, nameAt[h], valueAt[h])
    /\ retitled' = retitled \ {h} /\ renamed' = renamed \ {h}
    /\ UNCHANGED <<world, discMembership, whoami, synced, vacated, blind>>

DescribeGroup(n) ==
    /\ n \in groupsAt
    /\ ApplyGroup(n)
    /\ UNCHANGED <<world, byHandle, discMembership, whoami, synced, history>>

\* %DATA NAME=whoami
SetWhoami ==
    /\ whoami = None
    /\ whoami' = Me
    /\ UNCHANGED <<world, index, discMembership, synced, history>>

\* A discussion is created, and described before any event names it.
Create(d, n, v) ==
    /\ d \in Discs \ (exists \cup gone) /\ ~Taken(n)
    /\ exists' = exists \cup {d}
    /\ nameAt' = [nameAt EXCEPT ![d] = n]
    /\ valueAt' = [valueAt EXCEPT ![d] = v]
    /\ Upsert(d, n, v)
    /\ UNCHANGED <<gone, memberAt, groupsAt, discMembership, whoami, synced, history>>

\* Groups come and go without an event.
MakeGroup(n) ==
    /\ ~Taken(n)
    /\ groupsAt' = groupsAt \cup {n}
    /\ UNCHANGED <<exists, gone, nameAt, valueAt, memberAt, index, discMembership, whoami,
                   synced, history>>

DropGroup(n) ==
    /\ n \in groupsAt
    /\ groupsAt' = groupsAt \ {n}
    /\ UNCHANGED <<exists, gone, nameAt, valueAt, memberAt, index, discMembership, whoami,
                   synced, history>>

\* EVENT=rename; a user may change the case of his name.
Rename(u, n) ==
    /\ u \in Users
    /\ fold[n] # fold[nameAt[u]] => ~Taken(n)
    /\ nameAt' = [nameAt EXCEPT ![u] = n]
    /\ ApplyRename(u, n)
    /\ UNCHANGED <<exists, gone, valueAt, memberAt, groupsAt, discMembership, whoami, synced,
                   history>>

\* EVENT=drename: no case of ApplyNotify
DRename(d, n) ==
    /\ d \in exists \cap Discs
    /\ fold[n] # fold[nameAt[d]] => ~Taken(n)
    /\ nameAt' = [nameAt EXCEPT ![d] = n]
    /\ renamed' = renamed \cup {d} /\ vacated' = vacated \cup {fold[nameAt[d]]}
    /\ UNCHANGED <<exists, gone, valueAt, memberAt, groupsAt, index, discMembership, whoami,
                   synced, retitled, blind>>

\* EVENT=blurb, here, away or disconnect.
Change(u, v) ==
    /\ u \in Users
    /\ valueAt' = [valueAt EXCEPT ![u] = v]
    /\ ApplyValue(u, v)
    /\ UNCHANGED <<exists, gone, nameAt, memberAt, groupsAt, byName, discMembership, whoami,
                   synced, history>>

\* EVENT=retitle
Retitle(u, d, v) ==
    /\ u \in Users /\ d \in exists \cap Discs
    /\ valueAt' = [valueAt EXCEPT ![d] = v]
    /\ ApplyRetitle(u, v)
    /\ retitled' = retitled \cup {d}
    /\ UNCHANGED <<exists, gone, nameAt, memberAt, groupsAt, byName, discMembership, whoami,
                   synced, renamed, vacated, blind>>

Destroy(D) ==
    /\ D # {} /\ D \subseteq exists \cap Discs
    /\ exists' = exists \ D
    /\ gone' = gone \cup D
    /\ memberAt' = memberAt \ D
    /\ ApplyDestroy(D)
    /\ retitled' = retitled \ D /\ renamed' = renamed \ D
    /\ UNCHANGED <<nameAt, valueAt, groupsAt, whoami, synced, vacated, blind>>

Join(u, D) ==
    /\ D # {} /\ D \subseteq exists \cap Discs
    /\ memberAt' = IF u = Me THEN memberAt \cup D ELSE memberAt
    /\ ApplyJoin(u, D)
    /\ UNCHANGED <<exists, gone, nameAt, valueAt, groupsAt, index, whoami, synced, history>>

Quit(u, D) ==
    /\ D # {} /\ D \subseteq exists \cap Discs
    /\ memberAt' = IF u = Me THEN memberAt \ D ELSE memberAt
    /\ ApplyQuit(u, D)
    /\ UNCHANGED <<exists, gone, nameAt, valueAt, groupsAt, index, whoami, synced, history>>

\* "You are a member of ...": /where is asked after the first sync.
AnswerWhere ==
    /\ exists \subseteq DOMAIN byHandle /\ whoami = Me
    /\ discMembership' = discMembership \cup WhereNames({nameAt[d] : d \in memberAt})
    /\ synced' = TRUE
    /\ blind' = (blind \/ vacated # {})
    /\ UNCHANGED <<world, index, whoami, retitled, renamed, vacated>>

Next == \/ \E h \in Handles : Describe(h)
        \/ \E n \in Names : DescribeGroup(n) \/ MakeGroup(n) \/ DropGroup(n)
        \/ SetWhoami \/ AnswerWhere
        \/ \E d \in Discs, n \in Names, v \in Values : Create(d, n, v)
        \/ \E u \in Users, n \in Names : Rename(u, n)
        \/ \E u \in Users, v \in Values : Change(u, v)
        \/ \E u \in Users, d \in Discs, v \in Values : Retitle(u, d, v)
        \/ \E d \in Discs, n \in Names : DRename(d, n)
        \/ \E D \in SUBSET Discs : Destroy(D)
        \/ \E u \in Users, D \in SUBSET Discs : Join(u, D) \/ Quit(u, D)

Spec == Init /\ [][Next]_vars

-----------------------------------------------------------------------------
(* Properties                                                              *)

\* However renames, syncs, creations and destructions follow each other, an
\* entity the state knows is one Lily has, with Lily's value and name for it,
\* but for a discussion retitled or renamed since it was last described: those
\* events do not reach its entry.  It is found under its name: no other
\* entity's change takes its entry away, unless the name is one a renamed
\* discussion has had.
NamesFindTheirEntity ==
    \A h \in DOMAIN byHandle :
        /\ h \in exists
        /\ h \notin retitled => byHandle[h].value = valueAt[h]
        /\ h \notin renamed => byHandle[h].name = nameAt[h]
        /\ h \notin renamed /\ fold[nameAt[h]] \notin vacated =>
             fold[nameAt[h]] \in DOMAIN byName /\ byName[fold[nameAt[h]]] = h

\* A name is found only for the entity that is recorded under it: old names find
\* nothing.
OldNamesFindNothing ==
    \A k \in DOMAIN byName : byName[k] # "group" =>
        /\ byName[k] \in DOMAIN byHandle
        /\ fold[byHandle[byName[k]].name] = k

\* Once /where is answered, a discussion shows as ours exactly if it is, unless
\* a discussion had been renamed by then: the answer lists names.
MembershipIsLilys ==
    synced /\ ~blind => \A d \in DOMAIN byHandle \cap Discs : d \in discMembership <=> d \in memberAt

\* What fanOut and the clients read of the state is true of Lily, but for what
\* the retitling and the renaming of discussions leave behind.
PictureIsLilys == NamesFindTheirEntity /\ OldNamesFindNothing /\ MembershipIsLilys
=============================================================================
