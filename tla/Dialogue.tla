------------------------------ MODULE Dialogue ------------------------------
(***************************************************************************)
(* The conversations a session holds with Lily over its one connection     *)
(* (internal/proxy/api/server.go), side by side: prompts and the lines     *)
(* that answer them, and POST /store (export_file, OKAY, the content).     *)
(***************************************************************************)
EXTENDS Integers, Sequences, FiniteSets

CONSTANTS
    Typists,     \* goroutines that send typed lines (dispatchLine)
    Stores,      \* POST /store requests
    NLines,      \* the number of content lines of a store
    None,
    MaxTyped,    \* bound on the lines typed
    MaxPrompts   \* bound on the prompts Lily shows

ASSUME DialogueAssumption ==
    /\ None \notin Stores
    /\ {MaxTyped, MaxPrompts} \subseteq Nat /\ NLines \in Nat \ {0}

VARIABLES
    toLily, fromLily, \* what is under way in the two directions
    up,             \* the connection stands
    currentPrompt,  \* the recorded prompt's message ID, 0 for none
    recording,      \* the prompt fanOut has published and will record, or 0
    line,           \* line[t]: "none", "clear" or "send", in dispatchLine
    storeResultCh,  \* whose channel is registered
    pc,             \* pc[s]: where handleStore is
    chan,           \* chan[s]: its one-place channel
    sent,           \* sent[s]: how many content lines went out
    status,         \* status[s]: the HTTP status it answered
    waiting,        \* Lily: the prompt it waits on, or 0
    collecting,     \* Lily: the store whose lines it takes, or None
    stored,         \* Lily: stored[s], the lines it took for store s
    typed, prompts, \* history: the numbers of lines typed and prompts shown
    disturbed       \* history: a store timed out or a line was typed during one

wires == <<toLily, fromLily, up>>
prompting == <<currentPrompt, recording, line>>
storing == <<storeResultCh, pc, chan, sent, status>>
lily == <<waiting, collecting, stored>>
history == <<typed, prompts, disturbed>>
vars == <<wires, prompting, storing, lily, history>>

Content == [kind : {"content"}, of : Stores, n : 1..NLines]
Text == [kind : {"text"}]
ToLily == Content \cup Text \cup [kind : {"export"}, of : Stores]
FromLily == [kind : {"OKAY", "ERROR"}] \cup [kind : {"prompt"}, id : 1..MaxPrompts]

TypeOK ==
    /\ toLily \in Seq(ToLily) /\ fromLily \in Seq(FromLily) /\ up \in BOOLEAN
    /\ {currentPrompt, recording, waiting} \subseteq 0..MaxPrompts
    /\ line \in [Typists -> {"none", "clear", "send"}]
    /\ storeResultCh \in Stores \cup {None}
    /\ pc \in [Stores -> {"idle", "send", "wait", "lines", "clear", "done"}]
    /\ sent \in [Stores -> 0..NLines]
    /\ chan \in [Stores -> {"empty", "OKAY", "ERROR"}]
    /\ status \in [Stores -> {0, 204, 409, 500, 502, 504}]
    /\ disturbed \in BOOLEAN
    /\ collecting \in Stores \cup {None}
    /\ stored \in [Stores -> Seq(Content \cup Text)]
    /\ \A s \in Stores : Len(stored[s]) <= NLines
    /\ typed \in 0..MaxTyped /\ prompts \in 0..MaxPrompts

Init ==
    /\ toLily = <<>> /\ fromLily = <<>> /\ up = TRUE
    /\ currentPrompt = 0 /\ recording = 0
    /\ line = [t \in Typists |-> "none"]
    /\ storeResultCh = None
    /\ pc = [s \in Stores |-> "idle"]
    /\ chan = [s \in Stores |-> "empty"]
    /\ sent = [s \in Stores |-> 0]
    /\ status = [s \in Stores |-> 0]
    /\ waiting = 0 /\ collecting = None
    /\ stored = [s \in Stores |-> <<>>]
    /\ typed = 0 /\ prompts = 0 /\ disturbed = FALSE

Sends(m) == up /\ toLily' = Append(toLily, m) /\ UNCHANGED <<fromLily, up>>
SendFails == ~up /\ UNCHANGED wires

-----------------------------------------------------------------------------
(* dispatchLine for a line of text: publish and clearPrompt, then Send.    *)
(* (Mut_... definitions are plausible faults; no action uses them.)        *)

TypeLine(t) ==
    /\ line[t] = "none" /\ typed < MaxTyped
    /\ line' = [line EXCEPT ![t] = "clear"]
    /\ typed' = typed + 1
    /\ UNCHANGED <<wires, currentPrompt, recording, storing, lily, prompts, disturbed>>

ClearPrompt(t) ==
    /\ currentPrompt' = 0
    /\ UNCHANGED <<wires, recording, storing, lily, history>>

SendText(t) ==
    /\ Sends([kind |-> "text"]) \/ SendFails
    /\ disturbed' = (disturbed \/ collecting # None \/ \E s \in Stores : pc[s] \in {"wait", "lines"})
    /\ UNCHANGED <<currentPrompt, recording, storing, lily, typed, prompts>>

Advances(t, was, is) == line[t] = was /\ line' = [line EXCEPT ![t] = is]

\* Clears after the line is on its way.
Mut_ClearLate(t) == \/ Advances(t, "clear", "send") /\ SendText(t)
                    \/ Advances(t, "send", "none") /\ ClearPrompt(t)
ClearAndSend(t) == \/ Advances(t, "clear", "send") /\ ClearPrompt(t)
                   \/ Advances(t, "send", "none") /\ SendText(t)

-----------------------------------------------------------------------------
(* handleStore.                                                            *)

InProgress == storeResultCh # None

Register(s) ==
    /\ pc[s] = "idle"
    /\ \/ /\ InProgress
          /\ pc' = [pc EXCEPT ![s] = "done"]
          /\ status' = [status EXCEPT ![s] = 409]
          /\ UNCHANGED storeResultCh
       \/ /\ ~InProgress
          /\ pc' = [pc EXCEPT ![s] = "send"]
          /\ storeResultCh' = s
          /\ UNCHANGED status
    /\ UNCHANGED <<wires, prompting, sent, chan, lily, history>>

Export(s) ==
    /\ pc[s] = "send"
    /\ \/ Sends([kind |-> "export", of |-> s]) /\ pc' = [pc EXCEPT ![s] = "wait"]
          /\ UNCHANGED <<storeResultCh, status>>
       \/ SendFails /\ pc' = [pc EXCEPT ![s] = "done"]
          /\ storeResultCh' = None
          /\ status' = [status EXCEPT ![s] = 500]
    /\ UNCHANGED <<prompting, sent, chan, lily, history>>

Accepted(s) == chan[s] = "OKAY"

Answered(s) ==
    /\ pc[s] = "wait" /\ chan[s] # "empty"
    /\ \/ Accepted(s) /\ pc' = [pc EXCEPT ![s] = "lines"] /\ UNCHANGED status
       \/ /\ ~Accepted(s)
          /\ pc' = [pc EXCEPT ![s] = "done"]
          /\ status' = [status EXCEPT ![s] = 502]
    /\ UNCHANGED <<wires, prompting, storeResultCh, sent, chan, lily, history>>

AllSent(n) == n = NLines

\* The content goes out line by line; others send in between.
SendContent(s) ==
    /\ pc[s] = "lines"
    /\ \/ /\ Sends([kind |-> "content", of |-> s, n |-> sent[s] + 1])
          /\ sent' = [sent EXCEPT ![s] = @ + 1]
          /\ IF AllSent(sent'[s])
             THEN pc' = [pc EXCEPT ![s] = "done"] /\ status' = [status EXCEPT ![s] = 204]
             ELSE UNCHANGED <<pc, status>>
       \/ /\ SendFails
          /\ pc' = [pc EXCEPT ![s] = "done"]
          /\ status' = [status EXCEPT ![s] = 500]
          /\ UNCHANGED sent
    /\ UNCHANGED <<prompting, storeResultCh, chan, lily, history>>

Mut_GivesUp(s) == FALSE
GivesUp(s) == pc[s] = "wait"

StoreTimeout(s) ==
    /\ GivesUp(s)
    /\ pc' = [pc EXCEPT ![s] = "clear"]
    /\ disturbed' = TRUE
    /\ UNCHANGED <<wires, prompting, storeResultCh, sent, chan, status, lily, typed, prompts>>

\* Whatever channel is registered by now is unregistered.
Unregister(s) ==
    /\ pc[s] = "clear"
    /\ storeResultCh' = None
    /\ pc' = [pc EXCEPT ![s] = "done"]
    /\ status' = [status EXCEPT ![s] = 504]
    /\ UNCHANGED <<wires, prompting, sent, chan, lily, history>>

-----------------------------------------------------------------------------
(* fanOut.                                                                 *)

Reads(kind) == /\ recording = 0
               /\ fromLily # <<>> /\ Head(fromLily).kind = kind
               /\ fromLily' = Tail(fromLily)
               /\ UNCHANGED <<toLily, up>>

ReadExportFile(answer) ==
    /\ Reads(answer)
    /\ chan' = [s \in Stores |-> IF s = storeResultCh /\ chan[s] = "empty" THEN answer ELSE chan[s]]
    /\ storeResultCh' = None
    /\ UNCHANGED <<prompting, sent, pc, status, lily, history>>

\* A prompt is published first: clients can answer it before it is recorded.
ReadPrompt ==
    /\ Reads("prompt")
    /\ recording' = Head(fromLily).id
    /\ UNCHANGED <<currentPrompt, line, storing, lily, history>>

SetPrompt ==
    /\ recording # 0
    /\ currentPrompt' = recording
    /\ recording' = 0
    /\ UNCHANGED <<wires, line, storing, lily, history>>

-----------------------------------------------------------------------------
(* Lily.  A line that starts with #$# is never taken for text.             *)

LilyReads(m) == up /\ toLily # <<>> /\ Head(toLily) = m /\ toLily' = Tail(toLily)
LilySays(m) == fromLily' = Append(fromLily, m) /\ UNCHANGED up

LilyAccepts(s) ==
    /\ LilyReads([kind |-> "export", of |-> s])
    /\ collecting = None
    /\ LilySays([kind |-> "OKAY"])
    /\ collecting' = s
    /\ UNCHANGED <<prompting, storing, waiting, stored, history>>

LilyRejects(s) ==
    /\ LilyReads([kind |-> "export", of |-> s])
    /\ LilySays([kind |-> "ERROR"])
    /\ UNCHANGED <<prompting, storing, lily, history>>

\* A line of text: content while a store is collecting, or the answer to a prompt.
LilyTakes(m) ==
    /\ LilyReads(m)
    /\ UNCHANGED <<fromLily, up>>
    /\ \/ /\ collecting # None
          /\ stored' = [stored EXCEPT ![collecting] = Append(@, m)]
          /\ collecting' = IF Len(stored'[collecting]) = NLines THEN None ELSE collecting
          /\ UNCHANGED waiting
       \/ collecting = None /\ waiting' = 0 /\ UNCHANGED <<collecting, stored>>
    /\ UNCHANGED <<prompting, storing, history>>

LilyPrompts ==
    /\ up /\ waiting = 0 /\ collecting = None /\ prompts < MaxPrompts
    /\ prompts' = prompts + 1
    /\ waiting' = prompts'
    /\ LilySays([kind |-> "prompt", id |-> prompts'])
    /\ UNCHANGED <<toLily, prompting, storing, collecting, stored, typed, disturbed>>

LilyLost ==
    /\ up /\ up' = FALSE
    /\ toLily' = <<>>
    /\ UNCHANGED <<fromLily, prompting, storing, lily, history>>

-----------------------------------------------------------------------------
Store(s) == \/ Register(s) \/ Export(s) \/ Answered(s) \/ SendContent(s)
            \/ StoreTimeout(s) \/ Unregister(s)
FanOut == \/ \E a \in {"OKAY", "ERROR"} : ReadExportFile(a)
          \/ ReadPrompt \/ SetPrompt
Lily == \/ \E s \in Stores : LilyAccepts(s) \/ LilyRejects(s)
        \/ \E m \in Content \cup Text : LilyTakes(m)

Next == \/ \E t \in Typists : TypeLine(t) \/ ClearAndSend(t)
        \/ \E s \in Stores : Store(s)
        \/ FanOut \/ Lily
        \/ LilyPrompts \/ LilyLost

Spec == Init /\ [][Next]_vars

\* Goroutines run on and timers fire; Lily need not act.
FairSpec ==
    /\ Spec
    /\ \A s \in Stores : WF_vars(Store(s))
    /\ \A t \in Typists : WF_vars(ClearAndSend(t))
    /\ WF_vars(FanOut)

-----------------------------------------------------------------------------
(* Properties                                                              *)

\* A prompt Lily still waits on, once recorded, stays pending for clients that
\* attach later, unless a line that will answer it is on its way (a store that is
\* under way takes the line as content instead): the prompt is cleared before the
\* line is sent, so a later prompt is never cleared with it.
UnansweredPromptIsPending ==
    (waiting # 0 /\ up /\ ~disturbed /\ recording = 0 /\ \A i \in DOMAIN fromLily : fromLily[i].kind # "prompt")
        => \/ currentPrompt = waiting
           \/ \E t \in Typists : line[t] = "send"
           \/ \E i \in DOMAIN toLily : toLily[i].kind = "text"

\* Stores that overlap, are rejected or refused: as long as none times out and
\* nobody types during one, a store answered 204 leaves exactly its lines at Lily.
QuietStoreIsExact ==
    (~disturbed /\ up /\ toLily = <<>>) =>
        \A s \in Stores : status[s] = 204 =>
            stored[s] = [i \in 1..NLines |-> [kind |-> "content", of |-> s, n |-> i]]

\* Two requests never both believe that the next OKAY is theirs, unless a store
\* timed out: then its late unregistration can hit another one's channel.
OneStoreWaits ==
    ~disturbed => Cardinality({s \in Stores : pc[s] \in {"send", "wait"} /\ chan[s] = "empty"}) <= 1

\* Prompts, stores and the one line of conversation they share: see the three.
DialoguesAreExact == UnansweredPromptIsPending /\ QuietStoreIsExact /\ OneStoreWaits

\* Every store is answered, whatever Lily does: each is made once, and in the end
\* none is left waiting.  (server.go handleStore)
StoresAreAnswered == <>[](\A s \in Stores : pc[s] = "wait" => status[s] # 0)
=============================================================================
