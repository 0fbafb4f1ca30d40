--------------------------- MODULE SavedPassword ---------------------------
(***************************************************************************)
(* The login dialog of the terminal client and the passwords it remembers  *)
(* (tui/ui/credentials.go, tui/creds).  Looking a password up, saving one  *)
(* and removing one are bubbletea commands: each runs on a goroutine of    *)
(* its own and its answer comes back while the user goes on typing.        *)
(* A keyring answers or it does not for the whole run.                     *)
(***************************************************************************)
EXTENDS Integers

CONSTANTS
    Users,
    Right,    \* [Users -> passwords]: the password Lily accepts
    Old,      \* a password that was right once
    Launches, \* <<last, its password in the file, in the keyring, fileOpen, keyringUp>>
    Empty,    \* the empty string: an empty field, an absent entry, and LocationNone
    MaxTurns  \* bound on the logins tried and the commands typed together

Passwords == {Right[u] : u \in Users} \cup {Old}

\* What an earlier run left in the stores was right then.
SavedAssumption ==
    /\ Empty \notin Users \cup Passwords \cup {"file", "keyring"}
    /\ \A launch \in Launches :
         /\ launch[1] \in Users \cup {Empty}
         /\ launch[1] \in Users => {launch[2], launch[3]} \subseteq {Empty, Old, Right[launch[1]]}
         /\ {launch[4], launch[5]} \subseteq BOOLEAN

VARIABLES
    file, keyring,       \* the two stores: a password by user
    fileOpen, keyringUp, \* others can read the file; the keyring answers
    last,                \* config.Logins of this server
    dialog, \* Model: authMode, authInProgress, authField, the fields, the box
    creds,  \* Model: credsHost, credsFrom, credsPrefilled, authUsername, authPassword
    lookup, \* loadCredsCmd: "asked", its answer, or "done"
    cmds,   \* the store commands that have not been answered
    tries, issued, \* how many logins were tried, and how many commands typed
    box     \* history: what the login that worked asked for, while that is all that happened

stores == <<file, keyring, last>>
static == <<fileOpen, keyringUp>>
vars == <<file, keyring, fileOpen, keyringUp, last, dialog, creds, lookup, cmds,
          tries, issued, box>>

Pending == "pending"
Command(op, user, password, rejected, n) ==
    [op |-> op, user |-> user, password |-> password, rejected |-> rejected,
     n |-> n, result |-> Pending]

Free == CHOOSE n \in 1..9 : \A c \in cmds : c.n # n /\ c.n # n + 1

NoBox == [user |-> Empty, password |-> Empty, ticked |-> FALSE, clear |-> FALSE,
          known |-> FALSE, had |-> Empty]

TypeOK ==
    /\ {file, keyring} \subseteq [Users -> Passwords \cup {Empty}]
    /\ dialog \in [authMode : BOOLEAN, authInProgress : BOOLEAN, field : 0..2,
                   username : Users \cup {Empty}, password : Passwords \cup {Empty},
                   remember : BOOLEAN]
    /\ creds \in [host : BOOLEAN, from : {Empty, "file", "keyring"},
                  prefilled : Passwords \cup {Empty},
                  user : Users \cup {Empty}, pass : Passwords \cup {Empty}]
    /\ \A c \in cmds : c.op \in {"save", "forget", "remember"} /\ c.n \in Nat \ {0}

-----------------------------------------------------------------------------
(* The stores                                                              *)

\* The file is read first, unless others can read it too.
InFile(u) == IF fileOpen THEN Empty ELSE file[u]
Lookup(u) == IF InFile(u) # Empty THEN InFile(u) ELSE IF keyringUp THEN keyring[u] ELSE Empty
Where(u) == IF Lookup(u) = Empty THEN Empty ELSE IF InFile(u) # Empty THEN "file" ELSE "keyring"

forgetFile(u) == file' = IF fileOpen THEN file ELSE [file EXCEPT ![u] = Empty]

\* Save: the keyring, and then the older line of the file would shadow it; or the file.
Save(c, result) ==
    /\ c.op = "save"
    /\ \/ /\ keyringUp /\ result = "keyring"
          /\ keyring' = [keyring EXCEPT ![c.user] = c.password]
          /\ forgetFile(c.user)
       \/ /\ ~keyringUp /\ ~fileOpen /\ result = "file"
          /\ file' = [file EXCEPT ![c.user] = c.password] /\ UNCHANGED keyring
       \/ ~keyringUp /\ fileOpen /\ result = "error" /\ UNCHANGED <<file, keyring>>
    /\ UNCHANGED last

Forget(c, result) ==
    /\ c.op = "forget"
    /\ result = IF InFile(c.user) # Empty \/ (keyringUp /\ keyring[c.user] # Empty)
                THEN "removed" ELSE "nothing"
    /\ forgetFile(c.user)
    /\ keyring' = IF keyringUp THEN [keyring EXCEPT ![c.user] = Empty] ELSE keyring
    /\ UNCHANGED last

RememberUser(c, result) ==
    c.op = "remember" /\ result = "quiet" /\ last' = c.user /\ UNCHANGED <<file, keyring>>

\* A command does its work; commands out at the same time do it in any order.
RunCommand ==
    \E c \in cmds, result \in {"keyring", "file", "error", "removed", "nothing", "quiet"} :
        /\ c.result = Pending
        /\ Save(c, result) \/ Forget(c, result) \/ RememberUser(c, result)
        /\ cmds' = (cmds \ {c}) \cup {[c EXCEPT !.result = result]}
        /\ UNCHANGED <<static, dialog, creds, lookup, tries, issued, box>>

\* applyCredsSaved: what is prefilled from now on is the password in use now.
\* applyCredsForgot only prints a line.
CommandAnswers ==
    \E c \in cmds :
        /\ c.result # Pending
        /\ cmds' = cmds \ {c}
        /\ creds' = IF c.result \in {"keyring", "file"}
                    THEN [creds EXCEPT !.from = c.result, !.prefilled = creds.pass] ELSE creds
        /\ UNCHANGED <<stores, static, dialog, lookup, tries, issued, box>>

-----------------------------------------------------------------------------
(* The lookup while the dialog opens                                       *)

\* loadCredsCmd; /info may not be answered, and then the server stays unknown.
RunLookup ==
    /\ lookup = [state |-> "asked"]
    /\ lookup' \in {[state |-> "answer", host |-> FALSE, user |-> Empty, password |-> Empty, from |-> Empty],
                    [state |-> "answer", host |-> TRUE, user |-> last,
                     password |-> IF last = Empty THEN Empty ELSE Lookup(last),
                     from |-> IF last = Empty THEN Empty ELSE Where(last)]}
    /\ UNCHANGED <<stores, static, dialog, creds, cmds, tries, issued, box>>

ApplyCredsLoaded ==
    /\ lookup.state = "answer"
    /\ lookup' = [state |-> "done"]
    /\ LET helps == dialog.authMode /\ ~dialog.authInProgress /\ lookup.user # Empty
           named == helps /\ dialog.username = Empty
           given == helps /\ lookup.password # Empty /\ dialog.password = Empty
       IN  /\ dialog' = [dialog EXCEPT !.username = IF named THEN lookup.user ELSE @,
                                       !.field = IF named THEN 1 ELSE @,
                                       !.password = IF given THEN lookup.password ELSE @,
                                       !.remember = @ \/ given]
           /\ creds' = [creds EXCEPT !.host = lookup.host,
                                     !.user = IF named THEN lookup.user ELSE @,
                                     !.from = IF given THEN lookup.from ELSE @,
                                     !.prefilled = IF given THEN lookup.password ELSE @]
    /\ UNCHANGED <<stores, static, cmds, tries, issued, box>>

-----------------------------------------------------------------------------
(* handleAuthKey                                                           *)

Typed == UNCHANGED <<stores, static, creds, lookup, cmds, issued, box>>

Tab ==
    /\ dialog.authMode
    /\ dialog' = [dialog EXCEPT !.field = (@ + 1) % 3]
    /\ UNCHANGED tries /\ Typed

\* A field is typed as a whole word; a space at the box turns it over.
Type ==
    /\ dialog.authMode
    /\ \/ dialog.field = 0 /\ \E u \in Users : dialog' = [dialog EXCEPT !.username = u]
       \/ dialog.field = 1 /\ \E p \in Passwords \ {Old} : dialog' = [dialog EXCEPT !.password = p]
       \/ dialog.field = 2 /\ dialog' = [dialog EXCEPT !.remember = ~@]
    /\ UNCHANGED tries /\ Typed

\* Enter moves on from the username and submits from the other two.
Enter ==
    /\ dialog.authMode /\ ~dialog.authInProgress
    /\ IF dialog.field = 0
       THEN dialog' = [dialog EXCEPT !.field = 1] /\ UNCHANGED <<creds, tries>>
       ELSE /\ creds' = [creds EXCEPT !.user = dialog.username, !.pass = dialog.password]
            /\ IF dialog.username # Empty /\ dialog.password # Empty
               THEN tries + issued < MaxTurns /\ tries' = tries + 1
                    /\ dialog' = [dialog EXCEPT !.authInProgress = TRUE]
               ELSE UNCHANGED <<dialog, tries>>
    /\ UNCHANGED <<stores, static, lookup, cmds, issued, box>>

-----------------------------------------------------------------------------
(* authResultMsg                                                           *)

\* The box as it stands; whether the stores are as the model believes and no command
\* is under way; whether the server is known; and what a lookup would find.
Asked(user, password) ==
    [user |-> user, password |-> password, ticked |-> dialog.remember,
     clear |-> cmds = {} /\ (creds.from # Empty => Lookup(user) = creds.prefilled),
     known |-> creds.host, had |-> Lookup(user)]

Mut_credsAfterLogin(user, password) == \* saves what the fields hold by now
    IF ~creds.host \/ user = Empty THEN UNCHANGED cmds
    ELSE cmds' = cmds \cup {Command("remember", user, Empty, FALSE, Free)}
            \cup (IF dialog.remember
                  THEN {Command("save", user, dialog.password, FALSE, Free + 1)} ELSE {})

\* The user is remembered, and the box is honoured.
credsAfterLogin(user, password) ==
    LET saves == dialog.remember /\ (password # creds.prefilled \/ creds.from = Empty)
        forgets == ~dialog.remember /\ creds.from # Empty
    IN  IF ~creds.host \/ user = Empty THEN UNCHANGED cmds
        ELSE cmds' = cmds \cup {Command("remember", user, Empty, FALSE, Free)}
                \cup (IF saves THEN {Command("save", user, password, FALSE, Free + 1)} ELSE {})
                \cup (IF forgets THEN {Command("forget", user, Empty, FALSE, Free + 1)} ELSE {})

LoginWorks ==
    /\ dialog.authInProgress /\ creds.pass = Right[creds.user]
    /\ dialog' = [dialog EXCEPT !.authMode = FALSE, !.authInProgress = FALSE]
    /\ credsAfterLogin(creds.user, creds.pass)
    /\ box' = Asked(creds.user, creds.pass)
    /\ UNCHANGED <<stores, static, creds, lookup, tries, issued>>

\* The dialog of a login that failed, or of a session that is gone.
Again == [dialog EXCEPT !.authMode = TRUE, !.authInProgress = FALSE, !.field = 1,
                        !.username = creds.user, !.password = Empty]

\* credsAfterRejection: a prefilled password that was tried is removed.
credsAfterRejection(user, password) ==
    IF creds.from = Empty \/ password = Empty \/ password # creds.prefilled
    THEN /\ dialog' = Again /\ creds' = [creds EXCEPT !.pass = Empty]
         /\ UNCHANGED cmds
    ELSE /\ dialog' = [Again EXCEPT !.remember = FALSE]
         /\ creds' = [creds EXCEPT !.pass = Empty, !.from = Empty, !.prefilled = Empty]
         /\ cmds' = cmds \cup {Command("forget", user, Empty, TRUE, Free)}

\* Lily turns the password down, or the proxy or its socket cannot be reached.
LoginFails ==
    /\ dialog.authInProgress
    /\ credsAfterRejection(creds.user, creds.pass)
    /\ box' = NoBox
    /\ UNCHANGED <<stores, static, lookup, tries, issued>>

\* The session is gone when the client comes back, and the login it replays is
\* turned down; the result of a reconnection names no user and no password.
Dismissed ==
    /\ ~dialog.authMode /\ tries + issued < MaxTurns
    /\ credsAfterRejection(Empty, Empty)
    /\ box' = NoBox
    /\ UNCHANGED <<stores, static, lookup, tries, issued>>

-----------------------------------------------------------------------------
(* handleCredsCommand                                                      *)

Issue(op, user, password) ==
    /\ tries + issued < MaxTurns /\ issued' = issued + 1
    /\ cmds' = cmds \cup {Command(op, user, password, FALSE, Free)}
    /\ box' = NoBox
    /\ UNCHANGED <<stores, static, dialog, creds, lookup, tries>>

SavePassword ==
    /\ ~dialog.authMode /\ creds.host /\ creds.user # Empty /\ creds.pass # Empty
    /\ Issue("save", creds.user, creds.pass)

ForgetPassword ==
    /\ ~dialog.authMode /\ creds.host
    /\ \E u \in Users : Issue("forget", u, Empty)

-----------------------------------------------------------------------------
Init ==
    /\ \E launch \in Launches :
          /\ last = launch[1]
          /\ file = [u \in Users |-> IF u = last THEN launch[2] ELSE Empty]
          /\ keyring = [u \in Users |-> IF u = last THEN launch[3] ELSE Empty]
          /\ fileOpen = launch[4] /\ keyringUp = launch[5]
    /\ dialog = [authMode |-> TRUE, authInProgress |-> FALSE, field |-> 0,
                 username |-> Empty, password |-> Empty, remember |-> FALSE]
    /\ creds = [host |-> FALSE, from |-> Empty, prefilled |-> Empty, user |-> Empty, pass |-> Empty]
    /\ lookup = [state |-> "asked"]
    /\ cmds = {} /\ tries = 0 /\ issued = 0 /\ box = NoBox

Next ==
    \/ RunCommand \/ CommandAnswers \/ RunLookup \/ ApplyCredsLoaded
    \/ Tab \/ Type \/ Enter \/ LoginWorks \/ LoginFails \/ Dismissed
    \/ SavePassword \/ ForgetPassword

Spec == Init /\ [][Next]_vars

-----------------------------------------------------------------------------
\* Nothing is ever stored for a user but what Lily accepted for that user,
\* whatever is typed while a login, a lookup or a store command is under way.
OnlyWorkingPasswordsAreSaved ==
    \A u \in Users : {file[u], keyring[u]} \subseteq {Empty, Old, Right[u]}

\* When a login worked while no other store command was under way, and its own are
\* done, the next launch finds its password if the box was ticked (unless neither
\* store takes one) and finds none if it was clear and a password had been offered;
\* but a login that worked before /info was answered leaves the stores as they were,
\* whatever the box said.
BoxIsHonoured ==
    box.clear /\ cmds = {} =>
        IF ~box.known THEN Lookup(box.user) = box.had
        ELSE IF box.ticked THEN Lookup(box.user) = box.password \/ (fileOpen /\ ~keyringUp)
        ELSE creds.from # Empty => Lookup(box.user) = Empty

SavedPasswordsWork == OnlyWorkingPasswordsAreSaved /\ BoxIsHonoured
=============================================================================
