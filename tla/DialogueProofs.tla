--------------------------- MODULE DialogueProofs ---------------------------
(* Theorems about Dialogue, for any typists, stores and bounds, and about  *)
(* Destinations, for any names, pieces of a line and size of the ring.     *)
EXTENDS Callers, SequenceLemmas

Request(s) == [kind |-> "export", of |-> s]
Line(s, n) == [kind |-> "content", of |-> s, n |-> n]
IsAnswer(m) == m.kind \in {"OKAY", "ERROR"}

\* Each store goes its way once, and its lines follow its one request.
PhaseInv ==
    \A s \in Stores :
        /\ pc[s] \in {"idle", "send"} => stored[s] = <<>> /\ collecting # s
        /\ pc[s] \in {"idle", "send", "wait"} => sent[s] = 0
        /\ pc[s] = "lines" => sent[s] < NLines
        /\ status[s] # 0 => pc[s] = "done"
        /\ collecting = s => Len(stored[s]) < NLines
RequestInv ==
    \A s \in Stores : \A i \in DOMAIN toLily : toLily[i] = Request(s) =>
        /\ pc[s] \notin {"idle", "send"}
        /\ stored[s] = <<>> /\ collecting # s
        /\ \A j \in DOMAIN toLily : toLily[j] = Request(s) => i = j
StoreInv == PhaseInv /\ RequestInv

\* While nobody disturbs a store, its channel is the registered one from its
\* request to its answer, and nothing else asks or answers meanwhile.
ChannelInv ==
    \A s \in Stores :
        /\ pc[s] # "clear"
        /\ pc[s] \in {"idle", "send"} => chan[s] = "empty"
        /\ (pc[s] \in {"send", "wait"} /\ chan[s] = "empty") <=> storeResultCh = s
AskedInv ==
    \A i \in DOMAIN toLily : toLily[i].kind = "export" =>
        /\ pc[toLily[i].of] = "wait" /\ chan[toLily[i].of] = "empty"
        /\ \A j \in DOMAIN fromLily : ~IsAnswer(fromLily[j])
AnswerInv ==
    \A i \in DOMAIN fromLily : IsAnswer(fromLily[i]) =>
        /\ storeResultCh # None /\ pc[storeResultCh] = "wait"
        /\ \A j \in DOMAIN fromLily : IsAnswer(fromLily[j]) => i = j
TurnInv == ~disturbed => ChannelInv /\ AskedInv /\ AnswerInv

\* As long as the connection stands as well: no text can come between a request
\* and the lines of its store, Lily takes the lines of the store it accepted, and
\* what it has yet to take is what was sent beyond that, in order.
TextInv ==
    \A i \in DOMAIN toLily : toLily[i].kind = "text" =>
        /\ collecting = None
        /\ \A j \in DOMAIN toLily : toLily[j].kind = "export" => i < j
AcceptedInv ==
    /\ \A i \in DOMAIN fromLily : fromLily[i].kind = "OKAY" => collecting = storeResultCh
    /\ \A s \in Stores :
          pc[s] = "lines" \/ (pc[s] = "wait" /\ chan[s] = "OKAY") => collecting = s
DoneInv ==
    \A s \in Stores : status[s] = 204 =>
        sent[s] = NLines /\ (collecting = s \/ stored[s] = [n \in 1..NLines |-> Line(s, n)])
TakenInv ==
    \A s \in Stores : collecting = s =>
        /\ stored[s] = [n \in 1..Len(stored[s]) |-> Line(s, n)] /\ Len(stored[s]) <= sent[s]
        /\ \A n \in Len(stored[s]) + 1 .. sent[s] : \E i \in DOMAIN toLily : toLily[i] = Line(s, n)
OrderInv ==
    \A i \in DOMAIN toLily : toLily[i].kind = "content" =>
        /\ collecting = toLily[i].of
        /\ toLily[i].n \in Len(stored[collecting]) + 1 .. sent[collecting]
        /\ \A j \in DOMAIN toLily :
              toLily[j].kind = "content" /\ i < j => toLily[i].n < toLily[j].n
ContentInv ==
    (~disturbed /\ up) => TextInv /\ AcceptedInv /\ DoneInv /\ TakenInv /\ OrderInv

\* Prompts are recorded in the order Lily shows them, ...
PromptInv ==
    /\ waiting \in {0, prompts}
    /\ currentPrompt <= prompts
    /\ recording # 0 => currentPrompt < recording /\ recording <= prompts
    /\ \A i \in DOMAIN fromLily : fromLily[i].kind = "prompt" =>
          /\ currentPrompt < fromLily[i].id /\ recording < fromLily[i].id
          /\ fromLily[i].id <= prompts
          /\ \A j \in DOMAIN fromLily :
                fromLily[j].kind = "prompt" /\ i < j => fromLily[i].id < fromLily[j].id

\* ... and the one it waits on is on its way, recorded or being answered.
PendingInv ==
    (~disturbed /\ up /\ waiting # 0) =>
        \/ waiting \in {currentPrompt, recording}
        \/ \E i \in DOMAIN fromLily : fromLily[i].kind = "prompt" /\ fromLily[i].id = waiting
        \/ \E t \in Typists : line[t] = "send"
        \/ \E i \in DOMAIN toLily : toLily[i].kind = "text"

-----------------------------------------------------------------------------
\* TypeOK in parts.
WireTypes ==
    toLily \in Seq(ToLily) /\ fromLily \in Seq(FromLily) /\ up \in BOOLEAN /\ disturbed \in BOOLEAN
PromptTypes ==
    /\ currentPrompt \in 0..MaxPrompts /\ recording \in 0..MaxPrompts
    /\ waiting \in 0..MaxPrompts /\ prompts \in 0..MaxPrompts
    /\ typed \in 0..MaxTyped /\ line \in [Typists -> {"none", "clear", "send"}]
Places == {"idle", "send", "wait", "lines", "clear", "done"}
Codes == {0, 204, 409, 500, 502, 504}
Answers == {"empty", "OKAY", "ERROR"}
StoreTypes ==
    /\ storeResultCh \in Stores \cup {None} /\ collecting \in Stores \cup {None}
    /\ pc \in [Stores -> Places]
    /\ sent \in [Stores -> 0..NLines]
    /\ chan \in [Stores -> Answers]
    /\ status \in [Stores -> Codes]
TakenTypes ==
    /\ stored \in [Stores -> Seq(Content \cup Text)]
    /\ \A s \in Stores : Len(stored[s]) <= NLines

LEMMA TypeParts == TypeOK <=> WireTypes /\ PromptTypes /\ StoreTypes /\ TakenTypes
<1>1. TypeOK => WireTypes
  BY DEF TypeOK, WireTypes
<1>2. TypeOK => PromptTypes
  BY DEF TypeOK, PromptTypes
<1>3. TypeOK => StoreTypes
  BY DEF TypeOK, StoreTypes, Places, Codes, Answers
<1>4. TypeOK => TakenTypes
  BY DEF TypeOK, TakenTypes
<1>5. ASSUME WireTypes, PromptTypes, StoreTypes, TakenTypes PROVE TypeOK
  <2>1. {currentPrompt, recording, waiting} \subseteq 0..MaxPrompts
    BY <1>5 DEF PromptTypes
  <2> QED BY <1>5, <2>1, Zenon
      DEF TypeOK, WireTypes, PromptTypes, StoreTypes, TakenTypes, Places, Codes, Answers
<1> QED BY <1>1, <1>2, <1>3, <1>4, <1>5

LEMMA WireTypesStep == TypeOK /\ StoreInv /\ [Next]_vars => WireTypes'
<1> SUFFICES ASSUME WireTypes, PromptTypes, StoreTypes, StoreInv, [Next]_vars
         PROVE  WireTypes'
  BY TypeParts
<1> USE DialogueAssumption DEF WireTypes, DialogueAssumption
<1>1. ASSUME NEW t \in Typists, TypeLine(t) \/ ClearAndSend(t) PROVE WireTypes'
  <2>1. CASE TypeLine(t) \/ ClearPrompt(t)
    BY <2>1 DEF TypeLine, ClearPrompt, wires, history
  <2>2. CASE SendText(t)
    BY <2>2, AppendAt DEF SendText, Sends, SendFails, wires, ToLily, Text
  <2> QED BY <1>1, <2>1, <2>2 DEF ClearAndSend
<1>2. ASSUME NEW s \in Stores, Export(s) PROVE WireTypes'
  BY <1>2, AppendAt DEF Export, Sends, SendFails, wires, history, ToLily
<1>3. ASSUME NEW s \in Stores, SendContent(s) PROVE WireTypes'
  <2>1. sent[s] + 1 \in 1..NLines
    BY <1>3 DEF SendContent, StoreInv, PhaseInv, StoreTypes
  <2>2. [kind |-> "content", of |-> s, n |-> sent[s] + 1] \in ToLily
    BY <2>1 DEF ToLily, Content
  <2>3. /\ UNCHANGED <<fromLily, up, disturbed>>
        /\ \/ toLily' = toLily
           \/ toLily' = Append(toLily, [kind |-> "content", of |-> s, n |-> sent[s] + 1])
    BY <1>3 DEF SendContent, Sends, SendFails, wires, history
  <2>4. toLily' \in Seq(ToLily)
    BY <2>2, <2>3, AppendAt
  <2> QED BY <2>3, <2>4, Zenon
<1>4. ASSUME NEW s \in Stores,
             Register(s) \/ Answered(s) \/ StoreTimeout(s) \/ Unregister(s)
      PROVE  WireTypes'
  BY <1>4 DEF Register, Answered, StoreTimeout, Unregister, wires, history
<1>5. ASSUME NEW a \in {"OKAY", "ERROR"}, ReadExportFile(a) PROVE WireTypes'
  BY <1>5, TailAt DEF ReadExportFile, Reads, history
<1>6. CASE ReadPrompt
  BY <1>6, TailAt DEF ReadPrompt, Reads, history
<1>7. CASE SetPrompt
  BY <1>7 DEF SetPrompt, wires, history
<1>8. ASSUME NEW s \in Stores, LilyAccepts(s) \/ LilyRejects(s) PROVE WireTypes'
  <2>1. toLily' \in Seq(ToLily) /\ up' = up /\ disturbed' = disturbed
    <3>1. toLily # <<>> /\ toLily' = Tail(toLily) /\ up' = up /\ disturbed' = disturbed
      BY <1>8 DEF LilyAccepts, LilyRejects, LilyReads, LilySays, history
    <3> QED BY <3>1, TailAt
  <2>2. fromLily' \in Seq(FromLily)
    <3>1. PICK m \in FromLily : fromLily' = Append(fromLily, m)
      BY <1>8 DEF LilyAccepts, LilyRejects, LilySays, FromLily
    <3> QED BY <3>1, AppendAt
  <2> QED BY <2>1, <2>2, Zenon
<1>9. ASSUME NEW m \in Content \cup Text, LilyTakes(m) PROVE WireTypes'
  BY <1>9, TailAt DEF LilyTakes, LilyReads, history
<1>10. CASE LilyPrompts
  <2>1. [kind |-> "prompt", id |-> prompts'] \in FromLily
    BY <1>10 DEF LilyPrompts, FromLily, PromptTypes
  <2> QED BY <1>10, <2>1, AppendAt DEF LilyPrompts, LilySays
<1>11. CASE LilyLost
  <2>1. toLily' \in Seq(ToLily) /\ fromLily' \in Seq(FromLily)
    BY <1>11 DEF LilyLost
  <2>2. up' \in BOOLEAN /\ disturbed' \in BOOLEAN
    BY <1>11, Zenon DEF LilyLost, history
  <2> QED BY <2>1, <2>2
<1>12. CASE UNCHANGED vars
  BY <1>12 DEF vars, wires, history
<1> QED BY <1>1, <1>2, <1>3, <1>4, <1>5, <1>6, <1>7, <1>8, <1>9, <1>10, <1>11, <1>12
        DEF Next, Store, FanOut, Lily

LEMMA PromptTypesStep == TypeOK /\ [Next]_vars => PromptTypes'
<1> SUFFICES ASSUME WireTypes, PromptTypes, StoreTypes, [Next]_vars PROVE PromptTypes'
  BY TypeParts
<1> USE DialogueAssumption DEF PromptTypes, DialogueAssumption
<1>1. ASSUME NEW t \in Typists, TypeLine(t) \/ ClearAndSend(t) PROVE PromptTypes'
  BY <1>1 DEF TypeLine, ClearAndSend, Advances, ClearPrompt, SendText, lily, history
<1>2. ASSUME NEW s \in Stores, Store(s) PROVE PromptTypes'
  BY <1>2 DEF Store, Register, Export, Answered, SendContent, StoreTimeout, Unregister,
              prompting, lily, history
<1>3. ASSUME NEW a \in {"OKAY", "ERROR"}, ReadExportFile(a) PROVE PromptTypes'
  BY <1>3 DEF ReadExportFile, prompting, lily, history
<1>4. CASE ReadPrompt
  <2>1. Head(fromLily) \in FromLily /\ Head(fromLily).kind = "prompt"
    BY <1>4, TailAt DEF ReadPrompt, Reads, WireTypes
  <2>2. recording' \in 0..MaxPrompts
    BY <1>4, <2>1 DEF ReadPrompt, FromLily
  <2> QED BY <1>4, <2>2 DEF ReadPrompt, lily, history
<1>5. CASE SetPrompt
  BY <1>5 DEF SetPrompt, lily, history
<1>6. CASE Lily \/ LilyLost
  <2>1. UNCHANGED <<prompting, prompts, typed>> /\ waiting' \in {0, waiting}
    BY <1>6 DEF Lily, LilyAccepts, LilyRejects, LilyTakes, LilyLost, lily, history
  <2> QED BY <2>1 DEF prompting
<1>7. CASE LilyPrompts
  BY <1>7 DEF LilyPrompts, prompting
<1>8. CASE UNCHANGED vars
  BY <1>8 DEF vars, prompting, lily, history
<1> QED BY <1>1, <1>2, <1>3, <1>4, <1>5, <1>6, <1>7, <1>8 DEF Next, FanOut

LEMMA StoreTypesStep == TypeOK /\ StoreInv /\ [Next]_vars => StoreTypes'
<1> SUFFICES ASSUME StoreTypes, StoreInv, [Next]_vars PROVE StoreTypes'
  BY TypeParts
<1> USE DialogueAssumption DEF StoreTypes, DialogueAssumption
<1>0. /\ {"idle", "send", "wait", "lines", "clear", "done"} \subseteq Places
      /\ {0, 204, 409, 500, 502, 504} \subseteq Codes
      /\ {"OKAY", "ERROR"} \subseteq Answers
  BY DEF Places, Codes, Answers
<1>1. ASSUME NEW t \in Typists, TypeLine(t) \/ ClearAndSend(t) PROVE StoreTypes'
  BY <1>1 DEF TypeLine, ClearAndSend, ClearPrompt, SendText, storing, lily
<1>2. ASSUME NEW s \in Stores, Store(s) PROVE StoreTypes'
  <2>1. CASE Register(s)
    BY <1>0, <2>1 DEF Register, lily
  <2>2. CASE Export(s)
    BY <1>0, <2>2 DEF Export, lily
  <2>3. CASE Answered(s)
    BY <1>0, <2>3 DEF Answered, lily
  <2>4. CASE SendContent(s)
    <3>1. sent[s] + 1 \in 0..NLines
      BY <2>4 DEF SendContent, StoreInv, PhaseInv
    <3>2. sent' = [sent EXCEPT ![s] = sent[s] + 1] \/ sent' = sent
      BY <2>4 DEF SendContent
    <3>3. pc' \in [Stores -> Places] /\ status' \in [Stores -> Codes]
      BY <1>0, <2>4 DEF SendContent
    <3> QED BY <2>4, <3>1, <3>2, <3>3 DEF SendContent, lily
  <2>5. CASE StoreTimeout(s)
    BY <1>0, <2>5 DEF StoreTimeout, lily
  <2>6. CASE Unregister(s)
    BY <1>0, <2>6 DEF Unregister, lily
  <2> QED BY <1>2, <2>1, <2>2, <2>3, <2>4, <2>5, <2>6 DEF Store
<1>3. ASSUME NEW a \in {"OKAY", "ERROR"}, ReadExportFile(a) PROVE StoreTypes'
  BY <1>0, <1>3 DEF ReadExportFile, lily
<1>4. CASE ReadPrompt \/ SetPrompt \/ LilyLost
  BY <1>4 DEF ReadPrompt, SetPrompt, LilyLost, storing, lily
<1>5. ASSUME NEW s \in Stores, LilyAccepts(s) \/ LilyRejects(s) PROVE StoreTypes'
  BY <1>5 DEF LilyAccepts, LilyRejects, storing, lily
<1>6. ASSUME NEW m \in Content \cup Text, LilyTakes(m) PROVE StoreTypes'
  BY <1>6 DEF LilyTakes, storing
<1>7. CASE LilyPrompts
  BY <1>7 DEF LilyPrompts, storing
<1>8. CASE UNCHANGED vars
  BY <1>8 DEF vars, storing, lily
<1> QED BY <1>1, <1>2, <1>3, <1>4, <1>5, <1>6, <1>7, <1>8 DEF Next, FanOut, Lily

\* Lily takes no more than NLines lines for a store: it takes its request once.
LEMMA TakenTypesStep == TypeOK /\ StoreInv /\ [Next]_vars => TakenTypes'
<1> SUFFICES ASSUME TakenTypes, StoreTypes, StoreInv, [Next]_vars PROVE TakenTypes'
  BY TypeParts
<1> USE DialogueAssumption DEF TakenTypes, DialogueAssumption
<1>1. ASSUME NEW m \in Content \cup Text, LilyTakes(m), collecting # None PROVE TakenTypes'
  <2>1. collecting \in Stores /\ Len(stored[collecting]) < NLines
    BY <1>1 DEF StoreInv, PhaseInv, StoreTypes
  <2>2. /\ stored[collecting] \in Seq(Content \cup Text)
        /\ Append(stored[collecting], m) \in Seq(Content \cup Text)
        /\ Len(Append(stored[collecting], m)) <= NLines
    BY <2>1
  <2>3. stored' = [stored EXCEPT ![collecting] = Append(stored[collecting], m)]
    BY <1>1 DEF LilyTakes
  <2> QED BY <2>1, <2>2, <2>3
<1>2. CASE stored' = stored
  BY <1>2
<1>3. ASSUME NEW m \in Content \cup Text, LilyTakes(m), collecting = None PROVE stored' = stored
  BY <1>3 DEF LilyTakes
<1>4. ASSUME NEW s \in Stores, LilyAccepts(s) \/ LilyRejects(s) PROVE stored' = stored
  BY <1>4 DEF LilyAccepts, LilyRejects, lily
<1>5. ASSUME NEW s \in Stores, Store(s) PROVE stored' = stored
  BY <1>5 DEF Store, Register, Export, Answered, SendContent, StoreTimeout, Unregister, lily
<1>6. ASSUME NEW t \in Typists, TypeLine(t) \/ ClearAndSend(t) PROVE stored' = stored
  BY <1>6 DEF TypeLine, ClearAndSend, ClearPrompt, SendText, lily
<1>7. ASSUME FanOut \/ LilyPrompts \/ LilyLost \/ UNCHANGED vars PROVE stored' = stored
  BY <1>7 DEF FanOut, ReadExportFile, ReadPrompt, SetPrompt, LilyPrompts, LilyLost, vars, lily
<1> QED BY <1>1, <1>2, <1>3, <1>4, <1>5, <1>6, <1>7 DEF Next, Lily

LEMMA PhaseStep == TypeOK /\ StoreInv /\ [Next]_vars => PhaseInv'
<1> SUFFICES ASSUME WireTypes, StoreTypes, TakenTypes, PhaseInv, RequestInv, [Next]_vars
             PROVE  PhaseInv'
  BY TypeParts DEF StoreInv
<1> USE DialogueAssumption DEF PhaseInv, DialogueAssumption
<1>1. ASSUME NEW t \in Typists, TypeLine(t) \/ ClearAndSend(t) PROVE PhaseInv'
  BY <1>1 DEF TypeLine, ClearAndSend, ClearPrompt, SendText, storing, lily
<1>2. ASSUME NEW s \in Stores, Store(s) PROVE PhaseInv'
  <2>1. CASE Register(s)
    BY <2>1 DEF Register, lily, StoreTypes
  <2>2. CASE Export(s)
    BY <2>2 DEF Export, lily, StoreTypes
  <2>3. CASE Answered(s)
    BY <2>3 DEF Answered, lily, StoreTypes
  <2>4. CASE SendContent(s)
    <3>1. UNCHANGED <<stored, collecting>> /\ pc[s] = "lines" /\ sent[s] < NLines
      BY <2>4 DEF SendContent, lily
    <3>2. \/ sent' = [sent EXCEPT ![s] = sent[s] + 1] /\ sent[s] + 1 # NLines
             /\ UNCHANGED <<pc, status>>
          \/ sent' = [sent EXCEPT ![s] = sent[s] + 1]
             /\ pc' = [pc EXCEPT ![s] = "done"] /\ status' = [status EXCEPT ![s] = 204]
          \/ sent' = sent
             /\ pc' = [pc EXCEPT ![s] = "done"] /\ status' = [status EXCEPT ![s] = 500]
      BY <2>4 DEF SendContent, AllSent, StoreTypes
    <3> QED BY <3>1, <3>2 DEF StoreTypes
  <2>5. CASE StoreTimeout(s)
    BY <2>5 DEF StoreTimeout, GivesUp, lily, StoreTypes
  <2>6. CASE Unregister(s)
    BY <2>6 DEF Unregister, lily, StoreTypes
  <2> QED BY <1>2, <2>1, <2>2, <2>3, <2>4, <2>5, <2>6 DEF Store
<1>3. CASE FanOut
  BY <1>3 DEF FanOut, ReadExportFile, ReadPrompt, SetPrompt, storing, lily
<1>4. ASSUME NEW s \in Stores, LilyAccepts(s) PROVE PhaseInv'
  <2>1. 1 \in DOMAIN toLily /\ toLily[1] = Request(s)
    BY <1>4, TailAt DEF LilyAccepts, LilyReads, Request, WireTypes
  <2>2. stored[s] = <<>> /\ pc[s] \notin {"idle", "send"}
    BY <2>1 DEF RequestInv
  <2>3. UNCHANGED <<pc, sent, status, stored>> /\ collecting' = s
    BY <1>4 DEF LilyAccepts, storing
  <2> QED BY <2>2, <2>3
<1>5. ASSUME NEW s \in Stores, LilyRejects(s) PROVE PhaseInv'
  BY <1>5 DEF LilyRejects, storing, lily
<1>6. ASSUME NEW m \in Content \cup Text, LilyTakes(m) PROVE PhaseInv'
  <2>1. CASE collecting # None
    <3>1. collecting \in Stores /\ pc[collecting] \notin {"idle", "send"}
      BY <2>1 DEF StoreTypes
    <3>2. stored' = [stored EXCEPT ![collecting] = Append(stored[collecting], m)]
      BY <1>6, <2>1 DEF LilyTakes
    <3>3. /\ UNCHANGED <<pc, sent, status>>
          /\ collecting' = IF Len(stored'[collecting]) = NLines THEN None ELSE collecting
      BY <1>6, <2>1 DEF LilyTakes, storing
    <3>4. collecting' = collecting => Len(stored'[collecting]) < NLines
      <4>1. stored[collecting] \in Seq(Content \cup Text) /\ Len(stored[collecting]) < NLines
        BY <3>1 DEF TakenTypes
      <4>2. stored'[collecting] = Append(stored[collecting], m)
        BY <3>1, <3>2 DEF TakenTypes
      <4>3. Len(stored'[collecting]) = Len(stored[collecting]) + 1
        BY <4>1, <4>2
      <4>4. Len(stored[collecting]) \in Nat
        BY <4>1
      <4> QED BY <2>1, <3>3, <4>1, <4>3, <4>4
    <3>5. ASSUME NEW s \in Stores, s # collecting PROVE stored'[s] = stored[s]
      BY <3>2, <3>5 DEF TakenTypes
    <3>6. collecting' \in {None, collecting}
      BY <3>3
    <3> QED BY <3>1, <3>3, <3>4, <3>5, <3>6
  <2>2. CASE collecting = None
    BY <1>6, <2>2 DEF LilyTakes, storing
  <2> QED BY <2>1, <2>2
<1>7. CASE LilyPrompts \/ LilyLost
  BY <1>7 DEF LilyPrompts, LilyLost, storing, lily
<1>8. CASE UNCHANGED vars
  BY <1>8 DEF vars, storing, lily
<1> QED BY <1>1, <1>2, <1>3, <1>4, <1>5, <1>6, <1>7, <1>8 DEF Next, Lily

\* What the requests under way depend on besides.
LEMMA RequestsKept ==
    ASSUME RequestInv,
           \A i \in DOMAIN toLily' : i \in DOMAIN toLily /\ toLily'[i] = toLily[i],
           \A s \in Stores : pc'[s] \in {"idle", "send"} => pc[s] \in {"idle", "send"},
           UNCHANGED <<stored, collecting>>
    PROVE  RequestInv'
BY DEF RequestInv, Request

LEMMA RequestStep == TypeOK /\ StoreInv /\ [Next]_vars => RequestInv'
<1> SUFFICES ASSUME WireTypes, StoreTypes, TakenTypes, PhaseInv, RequestInv, [Next]_vars
             PROVE  RequestInv'
  BY TypeParts DEF StoreInv
<1>1. ASSUME NEW t \in Typists, TypeLine(t) \/ ClearAndSend(t) PROVE RequestInv'
  <2>1. CASE TypeLine(t) \/ ClearPrompt(t)
    BY <2>1, RequestsKept DEF TypeLine, ClearPrompt, wires, storing, lily
  <2>2. CASE SendText(t)
    <3>1. UNCHANGED <<pc, stored, collecting>>
      BY <2>2 DEF SendText, storing, lily
    <3>2. CASE toLily' = toLily
      BY <3>1, <3>2, RequestsKept
    <3>3. CASE toLily' = Append(toLily, [kind |-> "text"])
      <4>1. [kind |-> "text"] \in ToLily /\ \A s \in Stores : Request(s) # [kind |-> "text"]
        BY DEF ToLily, Text, Request
      <4> QED BY <3>1, <3>3, <4>1, AppendAt DEF RequestInv, Request, WireTypes
    <3> QED BY <2>2, <3>2, <3>3 DEF SendText, Sends, SendFails, wires
  <2> QED BY <1>1, <2>1, <2>2 DEF ClearAndSend
<1>2. ASSUME NEW s \in Stores, Register(s) \/ Answered(s) \/ StoreTimeout(s) \/ Unregister(s)
      PROVE  RequestInv'
  <2>1. UNCHANGED <<toLily, stored, collecting>>
    BY <1>2 DEF Register, Answered, StoreTimeout, Unregister, wires, lily
  <2>2. \A r \in Stores : pc'[r] \in {"idle", "send"} => pc[r] \in {"idle", "send"}
    BY <1>2 DEF Register, Answered, StoreTimeout, Unregister, StoreTypes
  <2> QED BY <2>1, <2>2, RequestsKept
<1>3. ASSUME NEW s \in Stores, Export(s) PROVE RequestInv'
  <2>1. UNCHANGED <<stored, collecting>> /\ pc[s] = "send" /\ pc'[s] \in {"wait", "done"}
        /\ \A r \in Stores \ {s} : pc'[r] = pc[r]
    BY <1>3 DEF Export, lily, StoreTypes
  <2>2. CASE toLily' = toLily
    BY <2>1, <2>2, RequestsKept
  <2>3. CASE toLily' = Append(toLily, Request(s))
    <3>1. Request(s) \in ToLily /\ \A r \in Stores : Request(r) = Request(s) => r = s
      BY DEF ToLily, Request
    <3>2. \A i \in DOMAIN toLily : toLily[i] # Request(s)
      BY <2>1 DEF RequestInv
    <3>3. stored[s] = <<>> /\ collecting # s
      BY <2>1 DEF PhaseInv
    <3> QED BY <2>1, <2>3, <3>1, <3>2, <3>3, AppendAt DEF RequestInv, Request, WireTypes
  <2> QED BY <1>3, <2>2, <2>3 DEF Export, Sends, SendFails, wires, Request
<1>4. ASSUME NEW s \in Stores, SendContent(s) PROVE RequestInv'
  <2>1. /\ UNCHANGED <<stored, collecting>>
        /\ \A r \in Stores : pc'[r] \in {"idle", "send"} => pc[r] \in {"idle", "send"}
    BY <1>4 DEF SendContent, lily, StoreTypes
  <2>2. CASE toLily' = toLily
    BY <2>1, <2>2, RequestsKept
  <2>3. CASE toLily' = Append(toLily, Line(s, sent[s] + 1))
    <3>1. sent[s] + 1 \in 1..NLines
      BY <1>4, DialogueAssumption DEF SendContent, PhaseInv, StoreTypes, DialogueAssumption
    <3>2. /\ Line(s, sent[s] + 1) \in ToLily
          /\ \A r \in Stores : Request(r) # Line(s, sent[s] + 1)
      BY <3>1 DEF ToLily, Content, Line, Request
    <3> QED BY <2>1, <2>3, <3>2, AppendAt DEF RequestInv, Request, WireTypes
  <2> QED BY <1>4, <2>2, <2>3 DEF SendContent, Sends, SendFails, wires, Line
<1>5. CASE FanOut \/ LilyPrompts \/ UNCHANGED vars
  <2>1. UNCHANGED <<toLily, pc, stored, collecting>>
    BY <1>5 DEF FanOut, ReadExportFile, ReadPrompt, SetPrompt, LilyPrompts, Reads, vars,
                wires, storing, lily
  <2> QED BY <2>1, RequestsKept
<1>6. CASE LilyLost
  BY <1>6, RequestsKept DEF LilyLost, storing, lily
<1>7. ASSUME NEW s \in Stores, LilyAccepts(s) PROVE RequestInv'
  <2>1. toLily # <<>> /\ toLily[1] = Request(s) /\ toLily' = Tail(toLily)
        /\ UNCHANGED <<pc, stored>> /\ collecting' = s
    BY <1>7, TailAt DEF LilyAccepts, LilyReads, Request, storing, WireTypes
  <2>2. \A i \in DOMAIN toLily' : toLily'[i] # Request(s)
    BY <2>1, TailAt DEF RequestInv, WireTypes
  <2> QED BY <2>1, <2>2, TailAt DEF RequestInv, Request, WireTypes
<1>8. ASSUME NEW s \in Stores, LilyRejects(s) PROVE RequestInv'
  <2>1. toLily # <<>> /\ toLily' = Tail(toLily) /\ UNCHANGED <<pc, stored, collecting>>
    BY <1>8 DEF LilyRejects, LilyReads, storing, lily
  <2> QED BY <2>1, TailAt DEF RequestInv, Request, WireTypes
<1>9. ASSUME NEW m \in Content \cup Text, LilyTakes(m) PROVE RequestInv'
  <2>1. toLily # <<>> /\ toLily' = Tail(toLily) /\ pc' = pc
    BY <1>9 DEF LilyTakes, LilyReads, storing
  <2>2. \A s \in Stores : s # collecting => stored'[s] = stored[s] /\ collecting' # s
    BY <1>9, DialogueAssumption DEF LilyTakes, TakenTypes, StoreTypes, DialogueAssumption
  <2> QED BY <2>1, <2>2, TailAt DEF RequestInv, Request, WireTypes
<1> QED BY <1>1, <1>2, <1>3, <1>4, <1>5, <1>6, <1>7, <1>8, <1>9 DEF Next, Store, Lily

LEMMA AnExport ==
    ASSUME NEW m \in ToLily, m.kind = "export"
    PROVE  m.of \in Stores /\ m = Request(m.of)
BY DEF ToLily, Content, Text, Request

\* A disturbance is not forgotten.
LEMMA DisturbedStays == [Next]_vars /\ ~disturbed' => ~disturbed
<1> SUFFICES ASSUME [Next]_vars, disturbed PROVE disturbed'
  OBVIOUS
<1>1. ASSUME NEW t \in Typists, TypeLine(t) \/ ClearAndSend(t) PROVE disturbed'
  BY <1>1 DEF TypeLine, ClearAndSend, ClearPrompt, SendText, history
<1>2. ASSUME NEW s \in Stores, Store(s) PROVE disturbed'
  BY <1>2 DEF Store, Register, Export, Answered, SendContent, StoreTimeout, Unregister, history
<1>3. CASE FanOut \/ LilyPrompts \/ LilyLost \/ UNCHANGED vars
  BY <1>3 DEF FanOut, ReadExportFile, ReadPrompt, SetPrompt, LilyPrompts, LilyLost, vars, history
<1>4. CASE Lily
  BY <1>4 DEF Lily, LilyAccepts, LilyRejects, LilyTakes, history
<1> QED BY <1>1, <1>2, <1>3, <1>4 DEF Next

LEMMA ChannelStep ==
    TypeOK /\ ChannelInv /\ AnswerInv /\ [Next]_vars /\ ~disturbed' => ChannelInv'
<1> SUFFICES ASSUME WireTypes, StoreTypes, ChannelInv, AnswerInv, [Next]_vars, ~disturbed'
             PROVE  ChannelInv'
  BY TypeParts
<1> USE DialogueAssumption DEF ChannelInv, DialogueAssumption
<1>1. ASSUME NEW t \in Typists, TypeLine(t) \/ ClearAndSend(t) PROVE ChannelInv'
  BY <1>1 DEF TypeLine, ClearAndSend, ClearPrompt, SendText, storing
<1>2. ASSUME NEW s \in Stores, Register(s) PROVE ChannelInv'
  BY <1>2 DEF Register, InProgress, StoreTypes
<1>3. ASSUME NEW s \in Stores, Export(s) PROVE ChannelInv'
  BY <1>3 DEF Export, StoreTypes
<1>4. ASSUME NEW s \in Stores, Answered(s) PROVE ChannelInv'
  BY <1>4 DEF Answered, StoreTypes
<1>5. ASSUME NEW s \in Stores, SendContent(s) PROVE ChannelInv'
  <2>1. /\ UNCHANGED <<storeResultCh, chan>> /\ pc[s] = "lines"
        /\ pc' \in {pc, [pc EXCEPT ![s] = "done"]}
    BY <1>5 DEF SendContent
  <2> QED BY <2>1 DEF StoreTypes
<1>6. ASSUME NEW s \in Stores, StoreTimeout(s) \/ Unregister(s) PROVE ChannelInv'
  BY <1>6 DEF StoreTimeout, Unregister
<1>7. ASSUME NEW a \in {"OKAY", "ERROR"}, ReadExportFile(a) PROVE ChannelInv'
  <2>1. 1 \in DOMAIN fromLily /\ fromLily[1].kind = a
    BY <1>7, TailAt DEF ReadExportFile, Reads, WireTypes
  <2>2. storeResultCh \in Stores /\ pc[storeResultCh] = "wait"
    BY <2>1 DEF AnswerInv, IsAnswer, StoreTypes
  <2>3. /\ pc' = pc /\ storeResultCh' = None
        /\ \A s \in Stores : chan'[s] = IF s = storeResultCh /\ chan[s] = "empty" THEN a ELSE chan[s]
    BY <1>7 DEF ReadExportFile
  <2> QED BY <2>2, <2>3 DEF StoreTypes
<1>8. CASE ReadPrompt \/ SetPrompt \/ LilyPrompts \/ LilyLost
  BY <1>8 DEF ReadPrompt, SetPrompt, LilyPrompts, LilyLost, storing
<1>9. CASE Lily
  BY <1>9 DEF Lily, LilyAccepts, LilyRejects, LilyTakes, storing
<1>10. CASE UNCHANGED vars
  BY <1>10 DEF vars, storing
<1> QED BY <1>1, <1>2, <1>3, <1>4, <1>5, <1>6, <1>7, <1>8, <1>9, <1>10 DEF Next, Store, FanOut

\* While a request is under way no other is, and no answer.
LEMMA OneRequest ==
    ASSUME WireTypes, ChannelInv, AskedInv, RequestInv,
           NEW i \in DOMAIN toLily, NEW j \in DOMAIN toLily,
           toLily[i].kind = "export", toLily[j].kind = "export"
    PROVE  i = j /\ storeResultCh = toLily[i].of /\ toLily[i].of \in Stores
                 /\ pc[toLily[i].of] = "wait"
<1>1. toLily[i] \in ToLily /\ toLily[j] \in ToLily
  BY DEF WireTypes
<1>2. /\ toLily[i].of \in Stores /\ toLily[i] = Request(toLily[i].of)
      /\ toLily[j].of \in Stores /\ toLily[j] = Request(toLily[j].of)
  BY <1>1, AnExport
<1>3. storeResultCh = toLily[i].of /\ storeResultCh = toLily[j].of
  BY <1>2 DEF ChannelInv, AskedInv
<1> QED BY <1>2, <1>3 DEF RequestInv, AskedInv

\* What keeps the requests asked: none is new, no store that waits is answered
\* and no answer is new.
LEMMA AskedKept ==
    ASSUME WireTypes, AskedInv,
           \A i \in DOMAIN toLily' :
              toLily'[i].kind = "export" => \E j \in DOMAIN toLily : toLily[j] = toLily'[i],
           \A s \in Stores : pc[s] = "wait" /\ chan[s] = "empty" =>
              pc'[s] = "wait" /\ chan'[s] = "empty",
           \A i \in DOMAIN fromLily' :
              IsAnswer(fromLily'[i]) => \E j \in DOMAIN fromLily : fromLily[j] = fromLily'[i]
    PROVE  AskedInv'
<1> SUFFICES ASSUME NEW i \in DOMAIN toLily', toLily'[i].kind = "export"
             PROVE  /\ pc'[toLily'[i].of] = "wait" /\ chan'[toLily'[i].of] = "empty"
                    /\ \A j \in DOMAIN fromLily' : ~IsAnswer(fromLily'[j])
  BY DEF AskedInv, IsAnswer
<1>1. PICK j \in DOMAIN toLily : toLily[j] = toLily'[i]
  OBVIOUS
<1>2. toLily[j].of \in Stores
  BY <1>1, AnExport DEF WireTypes
<1> QED BY <1>1, <1>2 DEF AskedInv

LEMMA AskedStep ==
    ASSUME TypeOK, StoreInv, ChannelInv, AskedInv, AnswerInv, [Next]_vars, ~disturbed'
    PROVE  AskedInv'
<1> USE TypeParts, DialogueAssumption DEF DialogueAssumption
<1>0. WireTypes /\ StoreTypes /\ PhaseInv /\ RequestInv
  BY DEF StoreInv
<1>1. ASSUME NEW t \in Typists, TypeLine(t) \/ ClearAndSend(t) PROVE AskedInv'
  <2>1. UNCHANGED <<pc, chan, fromLily>>
    BY <1>1 DEF TypeLine, ClearAndSend, ClearPrompt, SendText, Sends, SendFails, wires, storing
  <2>2. toLily' = toLily \/ toLily' = Append(toLily, [kind |-> "text"])
    BY <1>1 DEF TypeLine, ClearAndSend, ClearPrompt, SendText, Sends, SendFails, wires
  <2>3. [kind |-> "text"] \in ToLily
    BY DEF ToLily, Text
  <2>4. \A i \in DOMAIN toLily' :
           toLily'[i].kind = "export" => \E j \in DOMAIN toLily : toLily[j] = toLily'[i]
    BY <1>0, <2>2, <2>3, AppendAt DEF WireTypes
  <2> QED BY <1>0, <2>1, <2>4, AskedKept
<1>2. ASSUME NEW s \in Stores, Register(s) \/ Answered(s) PROVE AskedInv'
  <2>1. /\ UNCHANGED <<toLily, fromLily, chan>>
        /\ \A r \in Stores : pc[r] = "wait" /\ chan[r] = "empty" => pc'[r] = "wait"
    BY <1>0, <1>2 DEF Register, Answered, StoreTypes, wires
  <2> QED BY <1>0, <2>1, AskedKept
<1>3. ASSUME NEW s \in Stores, StoreTimeout(s) \/ Unregister(s) PROVE AskedInv'
  BY <1>3 DEF StoreTimeout, Unregister, ChannelInv
<1>4. ASSUME NEW s \in Stores, Export(s) PROVE AskedInv'
  <2>1. /\ UNCHANGED <<fromLily, chan>> /\ pc[s] = "send"
        /\ \A r \in Stores \ {s} : pc'[r] = pc[r]
    BY <1>0, <1>4 DEF Export, Sends, SendFails, wires, StoreTypes
  <2>2. CASE toLily' = toLily
    BY <1>0, <2>1, <2>2, AskedKept
  <2>3. CASE toLily' = Append(toLily, Request(s)) /\ pc'[s] = "wait"
    <3>1. storeResultCh = s /\ chan[s] = "empty"
      BY <2>1 DEF ChannelInv
    <3>2. \A j \in DOMAIN fromLily : ~IsAnswer(fromLily[j])
      BY <2>1, <3>1 DEF AnswerInv
    <3>3. Request(s) \in ToLily /\ Request(s).of = s
      BY DEF ToLily, Request
    <3>4. ASSUME NEW i \in DOMAIN toLily', toLily'[i].kind = "export"
          PROVE  pc'[toLily'[i].of] = "wait" /\ chan'[toLily'[i].of] = "empty"
      <4>1. CASE i = Len(toLily) + 1
        BY <1>0, <2>1, <2>3, <3>1, <3>3, <4>1, AppendAt DEF WireTypes
      <4>2. CASE i \in DOMAIN toLily /\ toLily'[i] = toLily[i]
        <5>1. toLily[i].of \in Stores /\ pc[toLily[i].of] = "wait" /\ chan[toLily[i].of] = "empty"
          BY <1>0, <3>4, <4>2, AnExport DEF AskedInv, WireTypes
        <5> QED BY <2>1, <4>2, <5>1
      <4> QED BY <1>0, <2>3, <3>3, <4>1, <4>2, AppendAt DEF WireTypes
    <3> QED BY <2>1, <3>2, <3>4 DEF AskedInv, IsAnswer
  <2> QED BY <1>0, <1>4, <2>2, <2>3 DEF Export, Sends, SendFails, wires, Request, StoreTypes
<1>5. ASSUME NEW s \in Stores, SendContent(s) PROVE AskedInv'
  <2>1. /\ UNCHANGED <<fromLily, chan>>
        /\ \A r \in Stores : pc[r] = "wait" => pc'[r] = "wait"
    BY <1>0, <1>5 DEF SendContent, Sends, SendFails, wires, StoreTypes
  <2>2. CASE toLily' = toLily
    BY <1>0, <2>1, <2>2, AskedKept
  <2>3. CASE toLily' = Append(toLily, Line(s, sent[s] + 1))
    <3>1. sent[s] + 1 \in 1..NLines
      BY <1>0, <1>5 DEF SendContent, PhaseInv, StoreTypes
    <3>2. Line(s, sent[s] + 1) \in ToLily /\ Line(s, sent[s] + 1).kind = "content"
      BY <3>1 DEF ToLily, Content, Line
    <3>3. \A i \in DOMAIN toLily' :
             toLily'[i].kind = "export" => \E j \in DOMAIN toLily : toLily[j] = toLily'[i]
      BY <1>0, <2>3, <3>2, AppendAt DEF WireTypes
    <3> QED BY <1>0, <2>1, <3>3, AskedKept
  <2> QED BY <1>5, <2>2, <2>3 DEF SendContent, Sends, SendFails, wires, Line
<1>6. ASSUME NEW a \in {"OKAY", "ERROR"}, ReadExportFile(a) PROVE AskedInv'
  <2>1. 1 \in DOMAIN fromLily /\ IsAnswer(fromLily[1]) /\ toLily' = toLily
    BY <1>0, <1>6, TailAt DEF ReadExportFile, Reads, WireTypes, IsAnswer
  <2> QED BY <2>1 DEF AskedInv
<1>7. CASE ReadPrompt
  <2>1. fromLily # <<>> /\ fromLily' = Tail(fromLily) /\ UNCHANGED <<toLily, pc, chan>>
    BY <1>7 DEF ReadPrompt, Reads, storing
  <2>2. \A i \in DOMAIN fromLily' : \E j \in DOMAIN fromLily : fromLily[j] = fromLily'[i]
    BY <1>0, <2>1, TailAt DEF WireTypes
  <2> QED BY <1>0, <2>1, <2>2, AskedKept
<1>8. CASE SetPrompt \/ UNCHANGED vars
  BY <1>0, <1>8, AskedKept DEF SetPrompt, vars, wires, storing
<1>9. CASE LilyLost
  BY <1>0, <1>9, AskedKept DEF LilyLost, storing
<1>10. CASE LilyPrompts
  <2>1. UNCHANGED <<toLily, pc, chan>>
        /\ fromLily' = Append(fromLily, [kind |-> "prompt", id |-> prompts'])
    BY <1>10 DEF LilyPrompts, LilySays, storing
  <2>2. [kind |-> "prompt", id |-> prompts'] \in FromLily
    BY <1>10 DEF LilyPrompts, FromLily, PromptTypes
  <2>3. \A i \in DOMAIN fromLily' :
           IsAnswer(fromLily'[i]) => \E j \in DOMAIN fromLily : fromLily[j] = fromLily'[i]
    BY <1>0, <2>1, <2>2, AppendAt DEF WireTypes, IsAnswer
  <2> QED BY <1>0, <2>1, <2>3, AskedKept
<1>11. ASSUME NEW s \in Stores, LilyAccepts(s) \/ LilyRejects(s) PROVE AskedInv'
  <2>1. toLily # <<>> /\ toLily' = Tail(toLily) /\ Head(toLily).kind = "export"
    BY <1>11 DEF LilyAccepts, LilyRejects, LilyReads
  <2>2. 1 \in DOMAIN toLily /\ toLily[1].kind = "export"
    BY <1>0, <2>1, TailAt DEF WireTypes
  <2>3. \A i \in DOMAIN toLily' : toLily'[i].kind # "export"
    <3> SUFFICES ASSUME NEW i \in DOMAIN toLily', toLily'[i].kind = "export" PROVE FALSE
      OBVIOUS
    <3>1. i \in Nat \ {0} /\ i + 1 \in DOMAIN toLily /\ toLily[i + 1].kind = "export"
      BY <1>0, <2>1, TailAt DEF WireTypes
    <3> QED BY <1>0, <2>2, <3>1, OneRequest
  <2> QED BY <2>3 DEF AskedInv
<1>12. ASSUME NEW m \in Content \cup Text, LilyTakes(m) PROVE AskedInv'
  <2>1. toLily # <<>> /\ toLily' = Tail(toLily) /\ UNCHANGED <<fromLily, pc, chan>>
    BY <1>12 DEF LilyTakes, LilyReads, storing
  <2>2. \A i \in DOMAIN toLily' : \E j \in DOMAIN toLily : toLily[j] = toLily'[i]
    BY <1>0, <2>1, TailAt DEF WireTypes
  <2> QED BY <1>0, <2>1, <2>2, AskedKept
<1> QED BY <1>1, <1>2, <1>3, <1>4, <1>5, <1>6, <1>7, <1>8, <1>9, <1>10, <1>11, <1>12
        DEF Next, Store, FanOut, Lily

LEMMA AnswerStep ==
    ASSUME TypeOK, StoreInv, ChannelInv, AskedInv, AnswerInv, [Next]_vars, ~disturbed'
    PROVE  AnswerInv'
<1> USE TypeParts, DialogueAssumption DEF DialogueAssumption
<1>0. WireTypes /\ StoreTypes /\ PhaseInv /\ RequestInv
  BY DEF StoreInv
<1>1. ASSUME NEW t \in Typists, TypeLine(t) \/ ClearAndSend(t) PROVE AnswerInv'
  <2>1. UNCHANGED <<pc, storeResultCh, fromLily>>
    BY <1>1 DEF TypeLine, ClearAndSend, ClearPrompt, SendText, Sends, SendFails, wires, storing
  <2> QED BY <2>1 DEF AnswerInv, IsAnswer
<1>2. ASSUME NEW s \in Stores, Register(s) PROVE AnswerInv'
  BY <1>0, <1>2 DEF Register, AnswerInv, IsAnswer, InProgress, StoreTypes, wires
<1>3. ASSUME NEW s \in Stores, StoreTimeout(s) \/ Unregister(s) PROVE AnswerInv'
  BY <1>3 DEF StoreTimeout, Unregister, ChannelInv
<1>4. ASSUME NEW s \in Stores, Export(s) PROVE AnswerInv'
  <2>1. storeResultCh = s /\ pc[s] = "send"
    BY <1>4 DEF Export, ChannelInv
  <2>2. \A j \in DOMAIN fromLily : ~IsAnswer(fromLily[j])
    BY <2>1 DEF AnswerInv
  <2>3. fromLily' = fromLily
    BY <1>4 DEF Export, Sends, SendFails, wires
  <2> QED BY <2>2, <2>3 DEF AnswerInv, IsAnswer
<1>5. ASSUME NEW s \in Stores, Answered(s) \/ SendContent(s) PROVE AnswerInv'
  <2>1. UNCHANGED <<storeResultCh, fromLily>> /\ \A r \in Stores \ {s} : pc'[r] = pc[r]
    BY <1>0, <1>5 DEF Answered, SendContent, Sends, SendFails, wires, StoreTypes
  <2>2. storeResultCh # s
    BY <1>5 DEF Answered, SendContent, ChannelInv
  <2> QED BY <1>0, <2>1, <2>2 DEF AnswerInv, IsAnswer, StoreTypes
<1>6. ASSUME NEW a \in {"OKAY", "ERROR"}, ReadExportFile(a) PROVE AnswerInv'
  <2>1. fromLily # <<>> /\ fromLily' = Tail(fromLily)
    BY <1>6 DEF ReadExportFile, Reads
  <2>2. 1 \in DOMAIN fromLily /\ IsAnswer(fromLily[1])
    BY <1>0, <1>6, TailAt DEF ReadExportFile, Reads, WireTypes, IsAnswer
  <2>3. \A i \in DOMAIN fromLily' : ~IsAnswer(fromLily'[i])
    <3> SUFFICES ASSUME NEW i \in DOMAIN fromLily', IsAnswer(fromLily'[i]) PROVE FALSE
      OBVIOUS
    <3>1. i \in Nat \ {0} /\ i + 1 \in DOMAIN fromLily /\ IsAnswer(fromLily[i + 1])
      BY <1>0, <2>1, TailAt DEF WireTypes
    <3> QED BY <2>2, <3>1 DEF AnswerInv
  <2> QED BY <2>3 DEF AnswerInv, IsAnswer
<1>7. CASE ReadPrompt
  <2>1. fromLily # <<>> /\ fromLily' = Tail(fromLily) /\ UNCHANGED <<storeResultCh, pc>>
    BY <1>7 DEF ReadPrompt, Reads, storing
  <2>2. \A i \in DOMAIN fromLily' :
           i \in Nat /\ i + 1 \in DOMAIN fromLily /\ fromLily'[i] = fromLily[i + 1]
    BY <1>0, <2>1, TailAt DEF WireTypes
  <2> QED BY <2>1, <2>2 DEF AnswerInv, IsAnswer
<1>8. CASE SetPrompt \/ LilyLost \/ UNCHANGED vars
  BY <1>8 DEF SetPrompt, LilyLost, vars, wires, storing, AnswerInv, IsAnswer
<1>9. CASE LilyPrompts
  <2>1. UNCHANGED <<storeResultCh, pc>>
        /\ fromLily' = Append(fromLily, [kind |-> "prompt", id |-> prompts'])
    BY <1>9 DEF LilyPrompts, LilySays, storing
  <2>2. [kind |-> "prompt", id |-> prompts'] \in FromLily
    BY <1>9 DEF LilyPrompts, FromLily, PromptTypes
  <2>3. \A i \in DOMAIN fromLily' :
           IsAnswer(fromLily'[i]) => i \in DOMAIN fromLily /\ fromLily[i] = fromLily'[i]
    BY <1>0, <2>1, <2>2, AppendAt DEF WireTypes, IsAnswer
  <2> QED BY <2>1, <2>3 DEF AnswerInv, IsAnswer
<1>10. ASSUME NEW s \in Stores, LilyAccepts(s) \/ LilyRejects(s) PROVE AnswerInv'
  <2>1. toLily # <<>> /\ Head(toLily).kind = "export" /\ UNCHANGED <<storeResultCh, pc>>
    BY <1>10 DEF LilyAccepts, LilyRejects, LilyReads, storing
  <2>2. 1 \in DOMAIN toLily /\ toLily[1].kind = "export"
    BY <1>0, <2>1, TailAt DEF WireTypes
  <2>3. storeResultCh \in Stores /\ pc[storeResultCh] = "wait"
    BY <1>0, <2>2, OneRequest
  <2>4. \A j \in DOMAIN fromLily : ~IsAnswer(fromLily[j])
    BY <2>2 DEF AskedInv
  <2>5. PICK m \in FromLily : fromLily' = Append(fromLily, m)
    BY <1>10 DEF LilyAccepts, LilyRejects, LilySays, FromLily
  <2>6. \A i \in DOMAIN fromLily' : IsAnswer(fromLily'[i]) => i = Len(fromLily) + 1
    BY <1>0, <2>4, <2>5, AppendAt DEF WireTypes
  <2> QED BY <2>1, <2>3, <2>6 DEF AnswerInv, IsAnswer
<1>11. ASSUME NEW m \in Content \cup Text, LilyTakes(m) PROVE AnswerInv'
  BY <1>11 DEF LilyTakes, storing, AnswerInv, IsAnswer
<1> QED BY <1>1, <1>2, <1>3, <1>4, <1>5, <1>6, <1>7, <1>8, <1>9, <1>10, <1>11
        DEF Next, Store, FanOut, Lily

-----------------------------------------------------------------------------
(* The lines of a store, while nobody disturbs it and the connection stands. *)

\* A connection that is lost stays lost.
LEMMA LostStays == [Next]_vars /\ up' => up
<1> SUFFICES ASSUME [Next]_vars, ~up PROVE up' = up
  OBVIOUS
<1>1. ASSUME NEW t \in Typists, TypeLine(t) \/ ClearAndSend(t) PROVE up' = up
  BY <1>1 DEF TypeLine, ClearAndSend, ClearPrompt, SendText, Sends, SendFails, wires
<1>2. ASSUME NEW s \in Stores, Store(s) PROVE up' = up
  BY <1>2 DEF Store, Register, Export, Answered, SendContent, StoreTimeout, Unregister,
              Sends, SendFails, wires
<1>3. CASE FanOut \/ LilyPrompts \/ UNCHANGED vars
  BY <1>3 DEF FanOut, ReadExportFile, ReadPrompt, SetPrompt, Reads, LilyPrompts, vars, wires
<1>4. CASE Lily \/ LilyLost
  BY <1>4 DEF Lily, LilyAccepts, LilyRejects, LilyTakes, LilyReads, LilyLost
<1> QED BY <1>1, <1>2, <1>3, <1>4 DEF Next

\* The next line of text Lily reads while it collects is the next line of the store.
LEMMA NextIsNext ==
    ASSUME WireTypes, StoreTypes, TakenTypes, TextInv, TakenInv, OrderInv,
           collecting # None, toLily # <<>>, Head(toLily).kind \in {"content", "text"}
    PROVE  /\ Head(toLily) = Line(collecting, Len(stored[collecting]) + 1)
           /\ Len(stored[collecting]) + 1 <= sent[collecting]
<1>1. /\ 1 \in DOMAIN toLily /\ Head(toLily) = toLily[1] /\ toLily[1] \in ToLily
      /\ \A i \in DOMAIN toLily : i = 1 \/ i > 1
  BY TailAt DEF WireTypes
<1>2. toLily[1].kind = "content"
  BY <1>1 DEF TextInv
<1>3. collecting \in Stores /\ Len(stored[collecting]) \in Nat /\ sent[collecting] \in Nat
  BY DEF StoreTypes, TakenTypes
<1>4. /\ toLily[1] = Line(collecting, toLily[1].n)
      /\ toLily[1].n \in Len(stored[collecting]) + 1 .. sent[collecting]
  BY <1>1, <1>2 DEF OrderInv, ToLily, Content, Text, Line
<1>5. Len(stored[collecting]) + 1 \in Len(stored[collecting]) + 1 .. sent[collecting]
  BY <1>3, <1>4
<1>6. PICK i \in DOMAIN toLily : toLily[i] = Line(collecting, Len(stored[collecting]) + 1)
  BY <1>3, <1>5 DEF TakenInv
<1>7. toLily[i].kind = "content" /\ toLily[i].n = Len(stored[collecting]) + 1
  BY <1>6 DEF Line
<1>8. CASE i = 1
  BY <1>1, <1>3, <1>4, <1>6, <1>7, <1>8
<1>9. CASE i > 1
  BY <1>1, <1>2, <1>3, <1>4, <1>7, <1>9 DEF OrderInv
<1> QED BY <1>1, <1>8, <1>9

\* What Lily's taking a line does to the store it collects.
LEMMA TakesNext ==
    ASSUME WireTypes, StoreTypes, TakenTypes, TextInv, TakenInv, OrderInv, DialogueAssumption,
           collecting # None, NEW m \in Content \cup Text, LilyTakes(m)
    PROVE  /\ collecting \in Stores /\ m = Line(collecting, Len(stored[collecting]) + 1)
           /\ Len(stored[collecting]) \in Nat /\ sent[collecting] \in 0..NLines
           /\ Len(stored[collecting]) + 1 <= sent[collecting]
           /\ stored'[collecting] = Append(stored[collecting], m)
           /\ Len(stored'[collecting]) = Len(stored[collecting]) + 1
           /\ \A s \in Stores \ {collecting} : stored'[s] = stored[s]
           /\ \/ collecting' = collecting
              \/ collecting' = None /\ Len(stored[collecting]) + 1 = NLines
           /\ toLily # <<>> /\ m = Head(toLily) /\ toLily' = Tail(toLily)
           /\ UNCHANGED <<fromLily, storeResultCh, pc, chan, sent, status>>
<1>1. /\ toLily # <<>> /\ m = Head(toLily) /\ toLily' = Tail(toLily)
      /\ UNCHANGED <<fromLily, storeResultCh, pc, chan, sent, status>>
  BY DEF LilyTakes, LilyReads, storing
<1>2. m = Line(collecting, Len(stored[collecting]) + 1)
      /\ Len(stored[collecting]) + 1 <= sent[collecting]
  <2>1. m.kind \in {"content", "text"}
    BY DEF Content, Text
  <2> QED BY <1>1, <2>1, NextIsNext
<1>3. collecting \in Stores /\ stored[collecting] \in Seq(Content \cup Text)
  BY DEF StoreTypes, TakenTypes
<1>4. /\ stored'[collecting] = Append(stored[collecting], m)
      /\ \A s \in Stores \ {collecting} : stored'[s] = stored[s]
      /\ collecting' = IF Len(stored'[collecting]) = NLines THEN None ELSE collecting
  BY <1>3 DEF LilyTakes, TakenTypes
<1>5. Len(stored'[collecting]) = Len(stored[collecting]) + 1 /\ Len(stored[collecting]) \in Nat
  BY <1>3, <1>4
<1>6. sent[collecting] \in 0..NLines
  BY <1>3 DEF StoreTypes
<1> QED BY <1>1, <1>2, <1>3, <1>4, <1>5, <1>6

\* All that holds while nobody disturbs a store and the connection stands.
QuietInv ==
    /\ WireTypes /\ PromptTypes /\ StoreTypes /\ TakenTypes /\ PhaseInv /\ RequestInv
    /\ ChannelInv /\ AskedInv /\ AnswerInv
    /\ TextInv /\ AcceptedInv /\ DoneInv /\ TakenInv /\ OrderInv

\* Lily reading a request: it is the one of the store whose channel is registered,
\* it is alone, and none of its store's lines was sent or taken.
LEMMA RequestRead ==
    ASSUME QuietInv, NEW s \in Stores, LilyAccepts(s) \/ LilyRejects(s)
    PROVE  /\ toLily # <<>> /\ toLily' = Tail(toLily) /\ toLily[1] = Request(s)
           /\ storeResultCh = s /\ pc[s] = "wait" /\ chan[s] = "empty"
           /\ stored[s] = <<>> /\ sent[s] = 0 /\ collecting # s
           /\ \A i \in DOMAIN toLily : toLily[i].kind # "text"
           /\ \A i \in DOMAIN fromLily : ~IsAnswer(fromLily[i])
           /\ UNCHANGED <<storeResultCh, pc, chan, sent, status, stored>>
<1>1. /\ toLily # <<>> /\ toLily' = Tail(toLily) /\ Head(toLily) = Request(s)
      /\ UNCHANGED <<storeResultCh, pc, chan, sent, status, stored>>
  BY DEF LilyAccepts, LilyRejects, LilyReads, Request, storing, lily
<1>2. /\ 1 \in DOMAIN toLily /\ toLily[1] = Request(s)
      /\ \A i \in DOMAIN toLily : i \in Nat /\ ~(i < 1)
  BY <1>1, TailAt DEF QuietInv, WireTypes
<1>3. toLily[1].kind = "export" /\ toLily[1].of = s
  BY <1>2 DEF Request
<1>4. pc[s] = "wait" /\ chan[s] = "empty" /\ \A i \in DOMAIN fromLily : ~IsAnswer(fromLily[i])
  BY <1>2, <1>3 DEF QuietInv, AskedInv
<1>5. storeResultCh = s
  BY <1>4 DEF QuietInv, ChannelInv
<1>6. stored[s] = <<>> /\ collecting # s
  BY <1>2 DEF QuietInv, RequestInv
<1>7. sent[s] = 0
  BY <1>4 DEF QuietInv, PhaseInv
<1>8. \A i \in DOMAIN toLily : toLily[i].kind # "text"
  <2> SUFFICES ASSUME NEW i \in DOMAIN toLily, toLily[i].kind = "text" PROVE FALSE
    OBVIOUS
  <2>1. i < 1
    BY <1>2, <1>3 DEF QuietInv, TextInv
  <2> QED BY <1>2, <2>1
<1> QED BY <1>1, <1>2, <1>4, <1>5, <1>6, <1>7, <1>8

\* A line of content going out: its store is the one Lily collects.
LEMMA ContentSent ==
    ASSUME QuietInv, NEW s \in Stores, SendContent(s), up'
    PROVE  /\ pc[s] = "lines" /\ collecting = s /\ status[s] = 0
           /\ sent[s] \in Nat /\ sent[s] + 1 \in 1..NLines /\ Line(s, sent[s] + 1) \in ToLily
           /\ toLily' = Append(toLily, Line(s, sent[s] + 1))
           /\ sent' = [sent EXCEPT ![s] = sent[s] + 1]
           /\ \/ sent[s] + 1 # NLines /\ UNCHANGED <<pc, status>>
              \/ /\ sent[s] + 1 = NLines
                 /\ pc' = [pc EXCEPT ![s] = "done"] /\ status' = [status EXCEPT ![s] = 204]
           /\ UNCHANGED <<fromLily, storeResultCh, chan, collecting, stored>>
<1>1. pc[s] = "lines" /\ UNCHANGED <<fromLily, storeResultCh, chan, collecting, stored>>
  BY DEF SendContent, Sends, SendFails, wires, lily
<1>2. collecting = s /\ sent[s] < NLines /\ status[s] = 0
  BY <1>1 DEF QuietInv, AcceptedInv, PhaseInv
<1>3. sent[s] \in Nat /\ sent[s] + 1 \in 1..NLines
  BY <1>2, DialogueAssumption DEF QuietInv, StoreTypes, DialogueAssumption
<1>4. Line(s, sent[s] + 1) \in ToLily
  BY <1>3 DEF ToLily, Content, Line
<1>5. /\ toLily' = Append(toLily, Line(s, sent[s] + 1))
      /\ sent' = [sent EXCEPT ![s] = sent[s] + 1]
      /\ IF AllSent(sent'[s])
         THEN pc' = [pc EXCEPT ![s] = "done"] /\ status' = [status EXCEPT ![s] = 204]
         ELSE UNCHANGED <<pc, status>>
  BY DEF SendContent, Sends, SendFails, wires, Line
<1>6. sent'[s] = sent[s] + 1
  BY <1>5 DEF QuietInv, StoreTypes
<1> QED BY <1>1, <1>2, <1>3, <1>4, <1>5, <1>6 DEF AllSent

\* A line of text going out: no store is under way.
LEMMA TextSent ==
    ASSUME QuietInv, NEW t \in Typists, SendText(t), ~disturbed', up'
    PROVE  /\ toLily' = Append(toLily, [kind |-> "text"]) /\ [kind |-> "text"] \in ToLily
           /\ collecting = None /\ \A i \in DOMAIN toLily : toLily[i].kind # "export"
           /\ UNCHANGED <<fromLily, storeResultCh, pc, chan, sent, status, collecting, stored>>
<1>1. /\ toLily' = Append(toLily, [kind |-> "text"]) /\ collecting = None
      /\ \A s \in Stores : pc[s] # "wait"
      /\ UNCHANGED <<fromLily, storeResultCh, pc, chan, sent, status, collecting, stored>>
  BY DEF SendText, Sends, SendFails, wires, storing, lily
<1>2. [kind |-> "text"] \in ToLily
  BY DEF ToLily, Text
<1>3. ASSUME NEW i \in DOMAIN toLily, toLily[i].kind = "export" PROVE FALSE
  <2>1. toLily[i].of \in Stores
    BY <1>3, AnExport DEF QuietInv, WireTypes
  <2> QED BY <1>1, <1>3, <2>1 DEF QuietInv, AskedInv
<1> QED BY <1>1, <1>2, <1>3

\* A request going out.
LEMMA RequestSent ==
    ASSUME QuietInv, NEW s \in Stores, Export(s), up'
    PROVE  /\ toLily' = Append(toLily, Request(s)) /\ Request(s) \in ToLily
           /\ pc[s] = "send" /\ pc' = [pc EXCEPT ![s] = "wait"]
           /\ chan[s] = "empty"
           /\ UNCHANGED <<fromLily, storeResultCh, chan, sent, status, collecting, stored>>
<1>1. /\ toLily' = Append(toLily, Request(s))
      /\ pc[s] = "send" /\ pc' = [pc EXCEPT ![s] = "wait"]
      /\ UNCHANGED <<fromLily, storeResultCh, chan, sent, status, collecting, stored>>
  BY DEF Export, Sends, SendFails, wires, Request, lily
<1>2. Request(s) \in ToLily
  BY DEF ToLily, Request
<1> QED BY <1>1, <1>2 DEF QuietInv, ChannelInv

\* The steps that leave what goes to Lily, and what Lily takes, alone.
Aside ==
    \/ \E t \in Typists : TypeLine(t) \/ ClearPrompt(t)
    \/ \E s \in Stores : Register(s) \/ Answered(s)
    \/ FanOut \/ LilyPrompts \/ UNCHANGED vars

LEMMA AsideLeaves == Aside => UNCHANGED <<toLily, sent, collecting, stored>>
<1>1. ASSUME NEW t \in Typists, TypeLine(t) \/ ClearPrompt(t)
      PROVE  UNCHANGED <<toLily, sent, collecting, stored>>
  BY <1>1 DEF TypeLine, ClearPrompt, wires, storing, lily
<1>2. ASSUME NEW s \in Stores, Register(s) \/ Answered(s)
      PROVE  UNCHANGED <<toLily, sent, collecting, stored>>
  BY <1>2 DEF Register, Answered, wires, lily
<1>3. CASE FanOut
  BY <1>3 DEF FanOut, ReadExportFile, ReadPrompt, SetPrompt, Reads, wires, storing, lily
<1>4. CASE LilyPrompts \/ UNCHANGED vars
  BY <1>4 DEF LilyPrompts, vars, wires, storing, lily
<1> QED BY <1>1, <1>2, <1>3, <1>4 DEF Aside

\* Every step while all is quiet is one of these.
LEMMA QuietSteps ==
    ASSUME QuietInv, [Next]_vars, ~disturbed', up'
    PROVE  \/ Aside
           \/ \E t \in Typists : SendText(t)
           \/ \E s \in Stores : Export(s) \/ SendContent(s) \/ LilyAccepts(s) \/ LilyRejects(s)
           \/ \E m \in Content \cup Text : LilyTakes(m)
<1>1. ASSUME NEW s \in Stores, StoreTimeout(s) \/ Unregister(s) PROVE FALSE
  BY <1>1 DEF StoreTimeout, Unregister, QuietInv, ChannelInv
<1>2. ~LilyLost
  BY DEF LilyLost
<1> QED BY <1>1, <1>2 DEF Next, Store, ClearAndSend, Lily, Aside

LEMMA TextStep ==
    ASSUME QuietInv, [Next]_vars, ~disturbed', up'
    PROVE  TextInv'
<1>0. WireTypes /\ TextInv
  BY DEF QuietInv
<1>1. CASE Aside
  BY <1>0, <1>1, AsideLeaves DEF TextInv
<1>2. ASSUME NEW t \in Typists, SendText(t) PROVE TextInv'
  BY <1>0, <1>2, TextSent, AppendAt DEF TextInv, WireTypes
<1>3. ASSUME NEW s \in Stores, Export(s) PROVE TextInv'
  <2>1. Request(s).kind = "export"
    BY DEF Request
  <2>2. /\ toLily' = Append(toLily, Request(s)) /\ Request(s) \in ToLily
        /\ collecting' = collecting
    BY <1>3, RequestSent
  <2> QED BY <1>0, <2>1, <2>2, AppendAt DEF TextInv, WireTypes
<1>4. ASSUME NEW s \in Stores, SendContent(s) PROVE TextInv'
  <2>1. Line(s, sent[s] + 1).kind = "content"
    BY DEF Line
  <2>2. /\ toLily' = Append(toLily, Line(s, sent[s] + 1)) /\ Line(s, sent[s] + 1) \in ToLily
        /\ collecting' = collecting
    BY <1>4, ContentSent
  <2> QED BY <1>0, <2>1, <2>2, AppendAt DEF TextInv, WireTypes
<1>5. ASSUME NEW s \in Stores, LilyAccepts(s) \/ LilyRejects(s) PROVE TextInv'
  <2>1. /\ toLily # <<>> /\ toLily' = Tail(toLily)
        /\ \A i \in DOMAIN toLily : toLily[i].kind # "text"
    BY <1>5, RequestRead
  <2>2. \A i \in DOMAIN toLily' : toLily'[i].kind # "text"
    BY <1>0, <2>1, TailAt DEF WireTypes
  <2> QED BY <2>2 DEF TextInv
<1>6. ASSUME NEW m \in Content \cup Text, LilyTakes(m) PROVE TextInv'
  <2>1. toLily # <<>> /\ toLily' = Tail(toLily) /\ (collecting = None => collecting' = None)
    BY <1>6 DEF LilyTakes, LilyReads
  <2>2. \A i \in DOMAIN toLily' :
           i \in Nat \ {0} /\ i + 1 \in DOMAIN toLily /\ toLily'[i] = toLily[i + 1]
    BY <1>0, <2>1, TailAt DEF WireTypes
  <2>3. ASSUME NEW i \in DOMAIN toLily', NEW j \in DOMAIN toLily', toLily'[i].kind = "text",
               toLily'[j].kind = "export"
        PROVE  i < j
    <3>1. i + 1 < j + 1
      BY <1>0, <2>2, <2>3 DEF TextInv
    <3> QED BY <2>2, <3>1
  <2> QED BY <1>0, <2>1, <2>2, <2>3 DEF TextInv
<1> QED BY <1>1, <1>2, <1>3, <1>4, <1>5, <1>6, QuietSteps

LEMMA AcceptedStep ==
    ASSUME QuietInv, [Next]_vars, ~disturbed', up'
    PROVE  AcceptedInv'
<1>0. WireTypes /\ StoreTypes /\ AcceptedInv /\ ChannelInv /\ AnswerInv
  BY DEF QuietInv
<1>1. ASSUME NEW t \in Typists, TypeLine(t) \/ ClearPrompt(t) PROVE AcceptedInv'
  BY <1>0, <1>1 DEF AcceptedInv, TypeLine, ClearPrompt, wires, storing, lily
<1>2. ASSUME NEW s \in Stores, Register(s) PROVE AcceptedInv'
  BY <1>0, <1>2 DEF AcceptedInv, Register, InProgress, AnswerInv, IsAnswer, StoreTypes, wires, lily
<1>3. ASSUME NEW s \in Stores, Answered(s) PROVE AcceptedInv'
  BY <1>0, <1>3 DEF AcceptedInv, Answered, Accepted, StoreTypes, wires, lily
<1>4. ASSUME NEW a \in {"OKAY", "ERROR"}, ReadExportFile(a) PROVE AcceptedInv'
  <2>1. fromLily # <<>> /\ fromLily' = Tail(fromLily) /\ UNCHANGED <<pc, collecting>>
        /\ \A s \in Stores : chan'[s] = IF s = storeResultCh /\ chan[s] = "empty" THEN a ELSE chan[s]
    BY <1>4 DEF ReadExportFile, Reads, lily
  <2>2. 1 \in DOMAIN fromLily /\ fromLily[1].kind = a
    BY <1>0, <1>4, TailAt DEF ReadExportFile, Reads, WireTypes
  <2>3. \A i \in DOMAIN fromLily' : ~IsAnswer(fromLily'[i])
    <3> SUFFICES ASSUME NEW i \in DOMAIN fromLily', IsAnswer(fromLily'[i]) PROVE FALSE
      OBVIOUS
    <3>1. i \in Nat \ {0} /\ i + 1 \in DOMAIN fromLily /\ IsAnswer(fromLily[i + 1])
      BY <1>0, <2>1, TailAt DEF WireTypes
    <3> QED BY <1>0, <2>2, <3>1 DEF AnswerInv, IsAnswer
  <2>4. a = "OKAY" => collecting = storeResultCh
    BY <1>0, <2>2 DEF AcceptedInv
  <2>5. ASSUME NEW s \in Stores, pc'[s] = "lines" \/ (pc'[s] = "wait" /\ chan'[s] = "OKAY")
        PROVE  collecting' = s
    BY <1>0, <2>1, <2>4, <2>5 DEF AcceptedInv
  <2> QED BY <2>3, <2>5 DEF AcceptedInv, IsAnswer
<1>5. CASE ReadPrompt
  <2>1. fromLily # <<>> /\ fromLily' = Tail(fromLily)
        /\ UNCHANGED <<storeResultCh, pc, chan, collecting>>
    BY <1>5 DEF ReadPrompt, Reads, storing, lily
  <2>2. \A i \in DOMAIN fromLily' : i + 1 \in DOMAIN fromLily /\ fromLily'[i] = fromLily[i + 1]
    BY <1>0, <2>1, TailAt DEF WireTypes
  <2> QED BY <1>0, <2>1, <2>2 DEF AcceptedInv
<1>6. CASE SetPrompt \/ UNCHANGED vars
  BY <1>0, <1>6 DEF AcceptedInv, SetPrompt, vars, wires, storing, lily
<1>7. CASE LilyPrompts
  <2>1. UNCHANGED <<storeResultCh, pc, chan, collecting>>
        /\ fromLily' = Append(fromLily, [kind |-> "prompt", id |-> prompts'])
    BY <1>7 DEF LilyPrompts, LilySays, storing
  <2>2. [kind |-> "prompt", id |-> prompts'] \in FromLily
    BY <1>7, DialogueAssumption DEF LilyPrompts, FromLily, QuietInv, PromptTypes, DialogueAssumption
  <2>3. \A i \in DOMAIN fromLily' :
           fromLily'[i].kind = "OKAY" => i \in DOMAIN fromLily /\ fromLily[i] = fromLily'[i]
    BY <1>0, <2>1, <2>2, AppendAt DEF WireTypes
  <2> QED BY <1>0, <2>1, <2>3 DEF AcceptedInv
<1>8. ASSUME NEW t \in Typists, SendText(t) PROVE AcceptedInv'
  BY <1>0, <1>8, TextSent DEF AcceptedInv
<1>9. ASSUME NEW s \in Stores, Export(s) PROVE AcceptedInv'
  BY <1>0, <1>9, RequestSent DEF AcceptedInv, StoreTypes
<1>10. ASSUME NEW s \in Stores, SendContent(s) PROVE AcceptedInv'
  BY <1>0, <1>10, ContentSent DEF AcceptedInv, StoreTypes
<1>11. ASSUME NEW s \in Stores, LilyAccepts(s) PROVE AcceptedInv'
  <2>1. /\ storeResultCh = s /\ pc[s] = "wait" /\ chan[s] = "empty"
        /\ UNCHANGED <<storeResultCh, pc, chan>>
    BY <1>11, RequestRead
  <2>2. collecting = None /\ collecting' = s
    BY <1>11 DEF LilyAccepts
  <2>3. \A r \in Stores : ~(pc[r] = "lines" \/ (pc[r] = "wait" /\ chan[r] = "OKAY"))
    BY <1>0, <2>2, DialogueAssumption DEF AcceptedInv, DialogueAssumption
  <2> QED BY <2>1, <2>2, <2>3 DEF AcceptedInv
<1>12. ASSUME NEW s \in Stores, LilyRejects(s) PROVE AcceptedInv'
  <2>1. UNCHANGED <<storeResultCh, pc, chan, collecting>>
        /\ fromLily' = Append(fromLily, [kind |-> "ERROR"])
    BY <1>12 DEF LilyRejects, LilySays, storing, lily
  <2>2. [kind |-> "ERROR"] \in FromLily
    BY DEF FromLily
  <2>3. \A i \in DOMAIN fromLily' :
           fromLily'[i].kind = "OKAY" => i \in DOMAIN fromLily /\ fromLily[i] = fromLily'[i]
    BY <1>0, <2>1, <2>2, AppendAt DEF WireTypes
  <2> QED BY <1>0, <2>1, <2>3 DEF AcceptedInv
<1>13. ASSUME NEW m \in Content \cup Text, LilyTakes(m) PROVE AcceptedInv'
  <2>1. UNCHANGED <<fromLily, storeResultCh, pc, chan>>
    BY <1>13 DEF LilyTakes, storing
  <2>2. CASE collecting' = collecting
    BY <1>0, <2>1, <2>2 DEF AcceptedInv
  <2>3. CASE collecting' # collecting
    <3>1. collecting # None
      BY <1>13, <2>3 DEF LilyTakes
    <3>2. /\ collecting \in Stores /\ sent[collecting] = NLines /\ NLines \in Nat \ {0}
      BY <1>13, <2>3, <3>1, TakesNext, DialogueAssumption DEF QuietInv, DialogueAssumption
    <3>3. pc[collecting] \notin {"wait", "lines"}
      BY <3>2 DEF QuietInv, PhaseInv
    <3>4. \A r \in Stores : ~(pc[r] = "lines" \/ (pc[r] = "wait" /\ chan[r] = "OKAY"))
      BY <1>0, <3>3 DEF AcceptedInv
    <3>5. \A i \in DOMAIN fromLily : fromLily[i].kind # "OKAY"
      BY <1>0, <3>3 DEF AcceptedInv, AnswerInv, IsAnswer
    <3> QED BY <2>1, <3>4, <3>5 DEF AcceptedInv
  <2> QED BY <2>2, <2>3
<1> QED BY <1>1, <1>2, <1>3, <1>4, <1>5, <1>6, <1>7, <1>8, <1>9, <1>10, <1>11, <1>12,
           <1>13, QuietSteps DEF Aside, FanOut

LEMMA DoneStep ==
    ASSUME QuietInv, [Next]_vars, ~disturbed', up'
    PROVE  DoneInv'
<1> DEFINE All(s) == [n \in 1..NLines |-> Line(s, n)]
<1>0. /\ WireTypes /\ StoreTypes /\ DoneInv /\ PhaseInv
      /\ \A s \in Stores : status[s] = 204 => sent[s] = NLines /\ (collecting = s \/ stored[s] = All(s))
  BY DEF QuietInv, DoneInv
<1>a. DoneInv' <=> \A s \in Stores : status'[s] = 204 =>
                       sent'[s] = NLines /\ (collecting' = s \/ stored'[s] = All(s))
  BY DEF DoneInv, Line
<1> HIDE DEF All
<1>1. CASE UNCHANGED <<sent, collecting, stored>>
           /\ \A s \in Stores : status'[s] = 204 => status[s] = 204
  BY <1>0, <1>1, <1>a
<1>2. CASE Aside
  <2>1. UNCHANGED <<sent, collecting, stored>>
    BY <1>2, AsideLeaves
  <2>2. \A s \in Stores : status'[s] = 204 => status[s] = 204
    <3>1. ASSUME NEW s \in Stores, Register(s) \/ Answered(s)
          PROVE  \A r \in Stores : status'[r] = 204 => status[r] = 204
      BY <1>0, <3>1 DEF Register, Answered, StoreTypes
    <3>2. ASSUME NEW t \in Typists, TypeLine(t) \/ ClearPrompt(t) PROVE status' = status
      BY <3>2 DEF TypeLine, ClearPrompt, storing
    <3>3. ASSUME FanOut \/ LilyPrompts \/ UNCHANGED vars PROVE status' = status
      BY <3>3 DEF FanOut, ReadExportFile, ReadPrompt, SetPrompt, LilyPrompts, vars, storing
    <3> QED BY <1>2, <3>1, <3>2, <3>3 DEF Aside
  <2> QED BY <1>1, <2>1, <2>2
<1>3. ASSUME NEW t \in Typists, SendText(t) PROVE DoneInv'
  BY <1>1, <1>3, TextSent
<1>4. ASSUME NEW s \in Stores, Export(s) PROVE DoneInv'
  BY <1>1, <1>4, RequestSent
<1>5. ASSUME NEW s \in Stores, SendContent(s) PROVE DoneInv'
  <2>1. /\ collecting = s /\ status[s] = 0 /\ UNCHANGED <<collecting, stored>>
        /\ sent' = [sent EXCEPT ![s] = sent[s] + 1]
        /\ \/ UNCHANGED status
           \/ sent[s] + 1 = NLines /\ status' = [status EXCEPT ![s] = 204]
    BY <1>5, ContentSent
  <2>2. sent'[s] = sent[s] + 1 /\ \A r \in Stores \ {s} : sent'[r] = sent[r] /\ status'[r] = status[r]
    BY <1>0, <2>1 DEF StoreTypes
  <2>3. status'[s] = 204 => sent'[s] = NLines
    BY <2>1, <2>2
  <2> QED BY <1>0, <1>a, <2>1, <2>2, <2>3
<1>6. ASSUME NEW s \in Stores, LilyAccepts(s) PROVE DoneInv'
  <2>1. pc[s] = "wait" /\ UNCHANGED <<sent, status, stored>>
    BY <1>6, RequestRead
  <2>2. collecting = None
    BY <1>6 DEF LilyAccepts
  <2> QED BY <1>0, <1>a, <2>1, <2>2, DialogueAssumption DEF DialogueAssumption
<1>7. ASSUME NEW s \in Stores, LilyRejects(s) PROVE DoneInv'
  <2>1. UNCHANGED <<sent, status, stored, collecting>>
    BY <1>7 DEF LilyRejects, storing, lily
  <2> QED BY <1>1, <2>1
<1>8. ASSUME NEW m \in Content \cup Text, LilyTakes(m) PROVE DoneInv'
  <2>1. CASE collecting = None
    BY <1>1, <1>8, <2>1 DEF LilyTakes, storing
  <2>2. CASE collecting # None
    <3>0. /\ WireTypes /\ StoreTypes /\ TakenTypes /\ TextInv /\ TakenInv /\ OrderInv
      BY DEF QuietInv
    <3>1. /\ collecting \in Stores /\ UNCHANGED <<sent, status>>
          /\ \A s \in Stores \ {collecting} : stored'[s] = stored[s]
          /\ collecting' = collecting \/ collecting' = None
      BY <1>8, <2>2, <3>0, TakesNext, DialogueAssumption
    <3>2. collecting' = None => stored'[collecting] = All(collecting)
      <4> SUFFICES ASSUME collecting' = None PROVE stored'[collecting] = All(collecting)
        OBVIOUS
      <4> DEFINE c == collecting
      <4>1. /\ m = Line(c, Len(stored[c]) + 1) /\ Len(stored[c]) + 1 = NLines
            /\ stored'[c] = Append(stored[c], m) /\ Len(stored[c]) \in Nat
        BY <1>8, <2>2, <3>0, <3>1, TakesNext, DialogueAssumption
      <4>2. stored[c] = [n \in 1..Len(stored[c]) |-> Line(c, n)]
        BY <3>0, <3>1 DEF TakenInv
      <4>3. stored[c] \in Seq(Content \cup Text)
        BY <3>0, <3>1 DEF TakenTypes
      <4> HIDE DEF c
      <4>4. /\ Append(stored[c], m) = [n \in 1..NLines |-> IF n = NLines THEN m ELSE stored[c][n]]
        BY <4>1, <4>3
      <4>5. \A n \in 1..NLines : n # NLines => n \in 1..Len(stored[c])
        BY <4>1
      <4>6. \A n \in 1..NLines : (IF n = NLines THEN m ELSE stored[c][n]) = Line(c, n)
        BY <4>1, <4>2, <4>5
      <4> QED BY <4>1, <4>4, <4>6 DEF All, c
    <3> QED BY <1>0, <1>a, <3>1, <3>2
  <2> QED BY <2>1, <2>2
<1> QED BY <1>2, <1>3, <1>4, <1>5, <1>6, <1>7, <1>8, QuietSteps

\* What is collected stays as it was when nothing is taken and nothing of it sent.
LEMMA TakenKept ==
    ASSUME TakenInv, UNCHANGED <<sent, collecting, stored>>,
           \A i \in DOMAIN toLily : toLily[i].kind = "content" =>
              \E j \in DOMAIN toLily' : toLily'[j] = toLily[i]
    PROVE  TakenInv'
<1> SUFFICES ASSUME NEW s \in Stores, collecting' = s
    PROVE  /\ stored'[s] = [n \in 1..Len(stored'[s]) |-> Line(s, n)] /\ Len(stored'[s]) <= sent'[s]
           /\ \A n \in Len(stored'[s]) + 1 .. sent'[s] :
                 \E i \in DOMAIN toLily' : toLily'[i] = Line(s, n)
  BY DEF TakenInv, Line
<1>1. ASSUME NEW n \in Len(stored[s]) + 1 .. sent[s]
      PROVE  \E i \in DOMAIN toLily' : toLily'[i] = Line(s, n)
  <2>1. PICK i \in DOMAIN toLily : toLily[i] = Line(s, n)
    BY DEF TakenInv
  <2>2. toLily[i].kind = "content"
    BY <2>1 DEF Line
  <2> QED BY <2>1, <2>2
<1> QED BY <1>1 DEF TakenInv

LEMMA TakenStep ==
    ASSUME QuietInv, [Next]_vars, ~disturbed', up'
    PROVE  TakenInv'
<1>0. /\ WireTypes /\ StoreTypes /\ TakenTypes /\ TextInv /\ TakenInv /\ OrderInv
  BY DEF QuietInv
<1>1. CASE Aside
  BY <1>0, <1>1, AsideLeaves, TakenKept
<1>2. ASSUME NEW t \in Typists, SendText(t) PROVE TakenInv'
  <2>1. /\ toLily' = Append(toLily, [kind |-> "text"]) /\ [kind |-> "text"] \in ToLily
        /\ UNCHANGED <<sent, collecting, stored>>
    BY <1>2, TextSent
  <2>2. \A i \in DOMAIN toLily : i \in DOMAIN toLily' /\ toLily'[i] = toLily[i]
    BY <1>0, <2>1, AppendAt DEF WireTypes
  <2> QED BY <1>0, <2>1, <2>2, TakenKept
<1>3. ASSUME NEW s \in Stores, Export(s) PROVE TakenInv'
  <2>1. /\ toLily' = Append(toLily, Request(s)) /\ Request(s) \in ToLily
        /\ UNCHANGED <<sent, collecting, stored>>
    BY <1>3, RequestSent
  <2>2. \A i \in DOMAIN toLily : i \in DOMAIN toLily' /\ toLily'[i] = toLily[i]
    BY <1>0, <2>1, AppendAt DEF WireTypes
  <2> QED BY <1>0, <2>1, <2>2, TakenKept
<1>4. ASSUME NEW s \in Stores, SendContent(s) PROVE TakenInv'
  <2>1. /\ collecting = s /\ UNCHANGED <<collecting, stored>> /\ sent[s] \in Nat
        /\ toLily' = Append(toLily, Line(s, sent[s] + 1)) /\ Line(s, sent[s] + 1) \in ToLily
        /\ sent' = [sent EXCEPT ![s] = sent[s] + 1]
    BY <1>4, ContentSent
  <2>2. sent'[s] = sent[s] + 1
    BY <1>0, <2>1 DEF StoreTypes
  <2>3. /\ \A i \in DOMAIN toLily : i \in DOMAIN toLily' /\ toLily'[i] = toLily[i]
        /\ \E i \in DOMAIN toLily' : toLily'[i] = Line(s, sent[s] + 1)
    BY <1>0, <2>1, AppendAt DEF WireTypes
  <2>4. /\ stored[s] = [n \in 1..Len(stored[s]) |-> Line(s, n)] /\ Len(stored[s]) <= sent[s]
        /\ \A n \in Len(stored[s]) + 1 .. sent[s] : \E i \in DOMAIN toLily : toLily[i] = Line(s, n)
        /\ Len(stored[s]) \in Nat
    BY <1>0, <2>1 DEF TakenInv, TakenTypes
  <2>5. ASSUME NEW n \in Len(stored[s]) + 1 .. sent[s] + 1
        PROVE  \E i \in DOMAIN toLily' : toLily'[i] = Line(s, n)
    <3>1. CASE n = sent[s] + 1
      BY <2>3, <3>1
    <3>2. CASE n # sent[s] + 1
      <4>1. n \in Len(stored[s]) + 1 .. sent[s]
        BY <2>1, <2>4, <3>2
      <4> QED BY <2>3, <2>4, <4>1
    <3> QED BY <3>1, <3>2
  <2>6. Len(stored[s]) <= sent[s] + 1
    BY <2>1, <2>4
  <2>7. /\ stored'[s] = [n \in 1..Len(stored'[s]) |-> Line(s, n)] /\ Len(stored'[s]) <= sent'[s]
        /\ \A n \in Len(stored'[s]) + 1 .. sent'[s] : \E i \in DOMAIN toLily' : toLily'[i] = Line(s, n)
    BY <2>1, <2>2, <2>4, <2>5, <2>6
  <2> QED BY <2>1, <2>7 DEF TakenInv, Line
<1>5. ASSUME NEW s \in Stores, LilyAccepts(s) PROVE TakenInv'
  <2>1. collecting' = s /\ stored'[s] = <<>> /\ sent'[s] = 0
    BY <1>5, RequestRead DEF LilyAccepts
  <2>2. Len(stored'[s]) = 0 /\ 1..Len(stored'[s]) = {} /\ Len(stored'[s]) + 1 .. sent'[s] = {}
    BY <2>1
  <2>3. stored'[s] = [n \in 1..Len(stored'[s]) |-> Line(s, n)]
    BY <2>1, <2>2
  <2> QED BY <2>1, <2>2, <2>3 DEF TakenInv, Line
<1>6. ASSUME NEW s \in Stores, LilyRejects(s) PROVE TakenInv'
  <2>1. /\ toLily # <<>> /\ toLily' = Tail(toLily) /\ toLily[1].kind = "export"
        /\ UNCHANGED <<sent, stored>>
    <3>1. /\ toLily # <<>> /\ toLily' = Tail(toLily) /\ toLily[1] = Request(s)
          /\ UNCHANGED <<sent, stored>>
      BY <1>6, RequestRead
    <3> QED BY <3>1 DEF Request
  <2>2. collecting' = collecting
    BY <1>6 DEF LilyRejects, lily
  <2>3. \A i \in DOMAIN toLily : i = 1 \/ (i - 1 \in DOMAIN toLily' /\ toLily'[i - 1] = toLily[i])
    BY <1>0, <2>1, TailAt DEF WireTypes
  <2>4. \A i \in DOMAIN toLily : toLily[i].kind = "content" =>
           \E j \in DOMAIN toLily' : toLily'[j] = toLily[i]
    BY <2>1, <2>3
  <2> QED BY <1>0, <2>1, <2>2, <2>4, TakenKept
<1>7. ASSUME NEW m \in Content \cup Text, LilyTakes(m) PROVE TakenInv'
  <2>1. CASE collecting = None
    <3>1. collecting' = None
      BY <1>7, <2>1 DEF LilyTakes
    <3> QED BY <3>1, DialogueAssumption DEF TakenInv, DialogueAssumption
  <2>2. CASE collecting # None /\ collecting' # collecting
    <3>1. collecting' = None
      BY <1>0, <1>7, <2>2, TakesNext, DialogueAssumption
    <3> QED BY <3>1, DialogueAssumption DEF TakenInv, DialogueAssumption
  <2>3. CASE collecting # None /\ collecting' = collecting
    <3> DEFINE c == collecting
               k == Len(stored[c]) + 1
    <3>1. /\ c \in Stores /\ m = Line(c, k) /\ k \in Nat \ {0} /\ k <= sent[c] /\ sent[c] \in Nat
          /\ stored'[c] = Append(stored[c], m) /\ Len(stored'[c]) = k
          /\ toLily # <<>> /\ m = Head(toLily) /\ toLily' = Tail(toLily) /\ sent' = sent
      BY <1>0, <1>7, <2>3, TakesNext, DialogueAssumption
    <3>2. stored[c] = [n \in 1..k - 1 |-> Line(c, n)] /\ stored[c] \in Seq(Content \cup Text)
      BY <1>0, <3>1 DEF TakenInv, TakenTypes
    <3>3. \A n \in k .. sent[c] : \E i \in DOMAIN toLily : toLily[i] = Line(c, n)
      BY <1>0, <3>1 DEF TakenInv
    <3>4. Len(stored[c]) = k - 1
      BY <3>1, <3>2
    <3>5. collecting' = c
      BY <2>3
    <3> HIDE DEF c, k
    <3>6. Append(stored[c], m) = [n \in 1..k |-> IF n = k THEN m ELSE stored[c][n]]
      BY <3>1, <3>2, <3>4
    <3>7. \A n \in 1..k : (IF n = k THEN m ELSE stored[c][n]) = Line(c, n)
      <4>1. \A n \in 1..k : n # k => n \in 1..k - 1
        BY <3>1
      <4>2. \A n \in 1..k - 1 : stored[c][n] = Line(c, n)
        BY <3>2
      <4> QED BY <3>1, <4>1, <4>2
    <3>8. stored'[c] = [n \in 1..k |-> Line(c, n)]
      BY <3>1, <3>6, <3>7
    <3>9. ASSUME NEW n \in k + 1 .. sent[c] PROVE \E i \in DOMAIN toLily' : toLily'[i] = Line(c, n)
      <4>1. n \in k .. sent[c] /\ n # k
        BY <3>1
      <4>2. PICK i \in DOMAIN toLily : toLily[i] = Line(c, n)
        BY <3>3, <4>1
      <4>3. toLily[1] = Line(c, k) /\ Line(c, k) # Line(c, n)
        BY <1>0, <3>1, <4>1, TailAt DEF WireTypes, Line
      <4>4. i = 1 \/ (i - 1 \in DOMAIN toLily' /\ toLily'[i - 1] = toLily[i])
        BY <1>0, <3>1, TailAt DEF WireTypes
      <4> QED BY <4>2, <4>3, <4>4
    <3>10. /\ stored'[c] = [n \in 1..Len(stored'[c]) |-> Line(c, n)] /\ Len(stored'[c]) <= sent'[c]
           /\ \A n \in Len(stored'[c]) + 1 .. sent'[c] : \E i \in DOMAIN toLily' : toLily'[i] = Line(c, n)
      BY <3>1, <3>8, <3>9
    <3> QED BY <3>5, <3>10 DEF TakenInv, Line
  <2> QED BY <2>1, <2>2, <2>3
<1> QED BY <1>1, <1>2, <1>3, <1>4, <1>5, <1>6, <1>7, QuietSteps

LEMMA OrderStep ==
    ASSUME QuietInv, [Next]_vars, ~disturbed', up'
    PROVE  OrderInv'
<1>0. /\ WireTypes /\ StoreTypes /\ TakenTypes /\ TextInv /\ TakenInv /\ OrderInv
  BY DEF QuietInv
<1>1. CASE UNCHANGED <<sent, collecting, stored>> /\
           \A i \in DOMAIN toLily' : toLily'[i].kind = "content" =>
              i \in DOMAIN toLily /\ toLily[i] = toLily'[i]
  BY <1>0, <1>1 DEF OrderInv
<1>2. CASE Aside
  BY <1>1, <1>2, AsideLeaves
<1>3. ASSUME NEW t \in Typists, SendText(t) PROVE OrderInv'
  <2>1. /\ toLily' = Append(toLily, [kind |-> "text"]) /\ [kind |-> "text"] \in ToLily
        /\ UNCHANGED <<sent, collecting, stored>>
    BY <1>3, TextSent
  <2> QED BY <1>0, <1>1, <2>1, AppendAt DEF WireTypes
<1>4. ASSUME NEW s \in Stores, Export(s) PROVE OrderInv'
  <2>1. /\ toLily' = Append(toLily, Request(s)) /\ Request(s) \in ToLily
        /\ UNCHANGED <<sent, collecting, stored>> /\ Request(s).kind = "export"
    BY <1>4, RequestSent DEF Request
  <2> QED BY <1>0, <1>1, <2>1, AppendAt DEF WireTypes
<1>5. ASSUME NEW s \in Stores, SendContent(s) PROVE OrderInv'
  <2>1. /\ collecting = s /\ UNCHANGED <<collecting, stored>> /\ sent[s] \in Nat
        /\ toLily' = Append(toLily, Line(s, sent[s] + 1)) /\ Line(s, sent[s] + 1) \in ToLily
        /\ sent' = [sent EXCEPT ![s] = sent[s] + 1]
    BY <1>5, ContentSent
  <2>2. sent'[s] = sent[s] + 1 /\ Len(stored[s]) \in Nat /\ Len(stored[s]) <= sent[s]
    BY <1>0, <2>1 DEF StoreTypes, TakenInv, TakenTypes
  <2>3. \A i \in DOMAIN toLily' :
           \/ i \in Nat /\ i < Len(toLily) + 1 /\ i \in DOMAIN toLily /\ toLily'[i] = toLily[i]
           \/ i = Len(toLily) + 1 /\ toLily'[i] = Line(s, sent[s] + 1)
    BY <1>0, <2>1, AppendAt DEF WireTypes
  <2>4. /\ Line(s, sent[s] + 1).of = s /\ Line(s, sent[s] + 1).n = sent[s] + 1
    BY DEF Line
  <2>5. Len(toLily) \in Nat
    BY <1>0 DEF WireTypes
  <2>6. ASSUME NEW i \in DOMAIN toLily', toLily'[i].kind = "content"
        PROVE  toLily'[i].of = s /\ toLily'[i].n \in Len(stored[s]) + 1 .. sent[s] + 1
    <3>1. CASE i \in DOMAIN toLily /\ toLily'[i] = toLily[i]
      <4>1. toLily[i].of = s /\ toLily[i].n \in Len(stored[s]) + 1 .. sent[s]
        BY <1>0, <2>1, <2>6, <3>1 DEF OrderInv
      <4> QED BY <2>1, <2>2, <3>1, <4>1
    <3>2. CASE toLily'[i] = Line(s, sent[s] + 1)
      BY <2>1, <2>2, <2>4, <3>2
    <3> QED BY <2>3, <3>1, <3>2
  <2>7. ASSUME NEW i \in DOMAIN toLily', NEW j \in DOMAIN toLily', i < j,
               toLily'[i].kind = "content", toLily'[j].kind = "content"
        PROVE  toLily'[i].n < toLily'[j].n
    <3>1. i \in DOMAIN toLily /\ toLily'[i] = toLily[i]
      BY <2>3, <2>5, <2>7
    <3>2. CASE j \in DOMAIN toLily /\ toLily'[j] = toLily[j]
      BY <1>0, <2>7, <3>1, <3>2 DEF OrderInv
    <3>3. CASE toLily'[j] = Line(s, sent[s] + 1)
      <4>1. toLily[i].n \in Len(stored[s]) + 1 .. sent[s]
        BY <1>0, <2>1, <2>7, <3>1 DEF OrderInv
      <4> QED BY <2>1, <2>2, <2>4, <3>1, <3>3, <4>1
    <3> QED BY <2>3, <3>2, <3>3
  <2> QED BY <2>1, <2>2, <2>6, <2>7 DEF OrderInv
<1>6. ASSUME NEW s \in Stores, LilyAccepts(s) \/ LilyRejects(s) PROVE OrderInv'
  <2>1. /\ toLily # <<>> /\ toLily' = Tail(toLily) /\ UNCHANGED <<sent, stored>>
    BY <1>6, RequestRead
  <2>2. \A i \in DOMAIN toLily' :
           i \in Nat \ {0} /\ i + 1 \in DOMAIN toLily /\ toLily'[i] = toLily[i + 1]
    BY <1>0, <2>1, TailAt DEF WireTypes
  <2>3. CASE LilyAccepts(s)
    <3>1. collecting = None
      BY <2>3 DEF LilyAccepts
    <3>2. \A i \in DOMAIN toLily : toLily[i].kind # "content"
      <4> SUFFICES ASSUME NEW i \in DOMAIN toLily, toLily[i].kind = "content" PROVE FALSE
        OBVIOUS
      <4>1. toLily[i].of \in Stores
        BY <1>0 DEF WireTypes, ToLily, Content, Text
      <4> QED BY <1>0, <3>1, <4>1, DialogueAssumption DEF OrderInv, DialogueAssumption
    <3> QED BY <2>2, <3>2 DEF OrderInv
  <2>4. CASE LilyRejects(s)
    <3>1. collecting' = collecting
      BY <2>4 DEF LilyRejects, lily
    <3> QED BY <1>0, <2>1, <2>2, <3>1 DEF OrderInv
  <2> QED BY <1>6, <2>3, <2>4
<1>7. ASSUME NEW m \in Content \cup Text, LilyTakes(m) PROVE OrderInv'
  <2>1. toLily # <<>> /\ toLily' = Tail(toLily)
    BY <1>7 DEF LilyTakes, LilyReads
  <2>2. /\ \A i \in DOMAIN toLily' :
              i \in Nat \ {0} /\ i + 1 \in DOMAIN toLily /\ toLily'[i] = toLily[i + 1]
        /\ 1 \in DOMAIN toLily /\ Head(toLily) = toLily[1]
    BY <1>0, <2>1, TailAt DEF WireTypes
  <2>3. CASE collecting = None
    <3>1. UNCHANGED <<sent, stored, collecting>>
      BY <1>7, <2>3 DEF LilyTakes, storing
    <3> QED BY <1>0, <2>2, <3>1 DEF OrderInv
  <2>4. CASE collecting # None
    <3> DEFINE c == collecting
               k == Len(stored[c]) + 1
    <3>1. /\ c \in Stores /\ m = Line(c, k) /\ k \in Nat \ {0} /\ sent[c] \in 0..NLines
          /\ Len(stored'[c]) = k /\ m = Head(toLily) /\ sent' = sent
          /\ \/ collecting' = c
             \/ collecting' = None /\ k = NLines
      BY <1>0, <1>7, <2>4, TakesNext, DialogueAssumption
    <3>2. toLily[1].kind = "content" /\ toLily[1].n = k
      BY <2>2, <3>1 DEF Line
    <3>3. ASSUME NEW i \in DOMAIN toLily', toLily'[i].kind = "content"
          PROVE  toLily'[i].of = c /\ toLily'[i].n \in k + 1 .. sent[c]
      <4>1. i \in Nat \ {0} /\ i + 1 \in DOMAIN toLily /\ toLily[i + 1] = toLily'[i]
        BY <2>2
      <4>2. /\ toLily[i + 1].of = c /\ toLily[i + 1].n \in k .. sent[c]
            /\ toLily[1].n < toLily[i + 1].n
        BY <1>0, <2>2, <3>2, <3>3, <4>1 DEF OrderInv
      <4> QED BY <3>1, <3>2, <4>1, <4>2
    <3>4. ASSUME NEW i \in DOMAIN toLily', NEW j \in DOMAIN toLily', i < j,
                 toLily'[i].kind = "content", toLily'[j].kind = "content"
          PROVE  toLily'[i].n < toLily'[j].n
      <4>1. i + 1 < j + 1
        BY <2>2, <3>4
      <4> QED BY <1>0, <2>2, <3>4, <4>1 DEF OrderInv
    <3>5. CASE collecting' = c
      BY <3>1, <3>3, <3>4, <3>5 DEF OrderInv
    <3>6. CASE k = NLines
      <4>1. \A i \in DOMAIN toLily' : toLily'[i].kind # "content"
        BY <3>1, <3>3, <3>6, DialogueAssumption DEF DialogueAssumption
      <4> QED BY <4>1 DEF OrderInv
    <3> QED BY <3>1, <3>5, <3>6
  <2> QED BY <2>3, <2>4
<1> QED BY <1>2, <1>3, <1>4, <1>5, <1>6, <1>7, QuietSteps

-----------------------------------------------------------------------------
(* Prompts.                                                                *)

\* The messages of fromLily after a step that reads the first one.
LEMMA AfterReading ==
    ASSUME WireTypes, fromLily # <<>>, fromLily' = Tail(fromLily)
    PROVE  /\ 1 \in DOMAIN fromLily /\ Head(fromLily) = fromLily[1] /\ fromLily[1] \in FromLily
           /\ \A i \in DOMAIN fromLily' :
                 i \in Nat \ {0} /\ i + 1 \in DOMAIN fromLily /\ fromLily'[i] = fromLily[i + 1]
           /\ \A i \in DOMAIN fromLily :
                 i = 1 \/ (i - 1 \in DOMAIN fromLily' /\ fromLily'[i - 1] = fromLily[i])
BY TailAt DEF WireTypes

\* ... and after one in which Lily says something.
LEMMA AfterSaying ==
    ASSUME WireTypes, NEW m \in FromLily, fromLily' = Append(fromLily, m)
    PROVE  /\ Len(fromLily) + 1 \in DOMAIN fromLily' /\ fromLily'[Len(fromLily) + 1] = m
           /\ Len(fromLily) \in Nat
           /\ \A i \in DOMAIN fromLily :
                 /\ i \in Nat /\ i < Len(fromLily) + 1
                 /\ i \in DOMAIN fromLily' /\ fromLily'[i] = fromLily[i]
           /\ \A i \in DOMAIN fromLily' :
                 i = Len(fromLily) + 1 \/ (i \in DOMAIN fromLily /\ fromLily'[i] = fromLily[i])
BY AppendAt DEF WireTypes

LEMMA PromptStep == TypeOK /\ PromptInv /\ [Next]_vars => PromptInv'
<1> SUFFICES ASSUME WireTypes, PromptTypes, PromptInv, [Next]_vars PROVE PromptInv'
  BY TypeParts
<1>0. \A i \in DOMAIN fromLily : fromLily[i].kind = "prompt" => fromLily[i].id \in Nat
  BY DEF WireTypes, FromLily
<1>1. CASE UNCHANGED <<fromLily, recording, prompts>> /\ currentPrompt' \in {0, currentPrompt}
           /\ waiting' \in {0, waiting}
  <2>1. \/ currentPrompt' = currentPrompt
        \/ /\ currentPrompt' = 0
           /\ \A i \in DOMAIN fromLily : fromLily[i].kind = "prompt" => 0 < fromLily[i].id
    BY <1>0, <1>1 DEF PromptInv, PromptTypes
  <2> QED BY <1>1, <2>1 DEF PromptInv, PromptTypes
<1>2. ASSUME NEW t \in Typists, TypeLine(t) \/ ClearAndSend(t) PROVE PromptInv'
  BY <1>1, <1>2 DEF TypeLine, ClearAndSend, ClearPrompt, SendText, Sends, SendFails, wires, lily, history
<1>3. ASSUME NEW s \in Stores, Store(s) PROVE PromptInv'
  BY <1>1, <1>3 DEF Store, Register, Export, Answered, SendContent, StoreTimeout, Unregister,
                    Sends, SendFails, wires, prompting, lily, history
<1>4. ASSUME NEW a \in {"OKAY", "ERROR"}, ReadExportFile(a) PROVE PromptInv'
  <2>1. fromLily # <<>> /\ fromLily' = Tail(fromLily)
        /\ UNCHANGED <<currentPrompt, recording, waiting, prompts>>
    BY <1>4 DEF ReadExportFile, Reads, prompting, lily, history
  <2> QED BY <2>1, AfterReading DEF PromptInv
<1>5. CASE ReadPrompt
  <2>1. /\ fromLily # <<>> /\ fromLily' = Tail(fromLily) /\ Head(fromLily).kind = "prompt"
        /\ recording' = Head(fromLily).id /\ UNCHANGED <<currentPrompt, waiting, prompts>>
    BY <1>5 DEF ReadPrompt, Reads, lily, history
  <2>2. fromLily[1].kind = "prompt" /\ recording' = fromLily[1].id /\ 1 \in DOMAIN fromLily
    BY <2>1, AfterReading
  <2>3. \A i \in DOMAIN fromLily' :
           i + 1 \in DOMAIN fromLily /\ fromLily'[i] = fromLily[i + 1] /\ 1 < i + 1 /\ i \in Nat
    BY <2>1, AfterReading
  <2>4. /\ recording' # 0 => currentPrompt < recording' /\ recording' <= prompts
    BY <2>2 DEF PromptInv
  <2>5. ASSUME NEW i \in DOMAIN fromLily', fromLily'[i].kind = "prompt"
        PROVE  /\ currentPrompt < fromLily'[i].id /\ recording' < fromLily'[i].id
               /\ fromLily'[i].id <= prompts
    BY <2>2, <2>3, <2>5 DEF PromptInv
  <2>6. ASSUME NEW i \in DOMAIN fromLily', fromLily'[i].kind = "prompt",
               NEW j \in DOMAIN fromLily', fromLily'[j].kind = "prompt", i < j
        PROVE  fromLily'[i].id < fromLily'[j].id
    <3>1. i + 1 < j + 1
      BY <2>3, <2>6
    <3> QED BY <2>3, <2>6, <3>1 DEF PromptInv
  <2> QED BY <2>1, <2>4, <2>5, <2>6 DEF PromptInv
<1>6. CASE SetPrompt
  <2>1. /\ recording # 0 /\ currentPrompt' = recording /\ recording' = 0
        /\ UNCHANGED <<fromLily, waiting, prompts>>
    BY <1>6 DEF SetPrompt, wires, lily, history
  <2>2. \A i \in DOMAIN fromLily : fromLily[i].kind = "prompt" => 0 < fromLily[i].id
    BY <1>0 DEF PromptInv, PromptTypes
  <2> QED BY <2>1, <2>2 DEF PromptInv
<1>7. ASSUME NEW s \in Stores, LilyAccepts(s) \/ LilyRejects(s) PROVE PromptInv'
  <2>1. UNCHANGED <<currentPrompt, recording, waiting, prompts>>
    BY <1>7 DEF LilyAccepts, LilyRejects, prompting, lily, history
  <2>2. PICK m \in FromLily : fromLily' = Append(fromLily, m) /\ m.kind # "prompt"
    BY <1>7 DEF LilyAccepts, LilyRejects, LilySays, FromLily
  <2> QED BY <2>1, <2>2, AfterSaying DEF PromptInv
<1>8. ASSUME NEW m \in Content \cup Text, LilyTakes(m) PROVE PromptInv'
  BY <1>1, <1>8 DEF LilyTakes, prompting, history
<1>9. CASE LilyPrompts
  <2> DEFINE p == [kind |-> "prompt", id |-> prompts']
  <2>1. /\ fromLily' = Append(fromLily, p) /\ prompts' = prompts + 1 /\ waiting' = prompts'
        /\ prompts < MaxPrompts /\ UNCHANGED <<currentPrompt, recording>>
    BY <1>9 DEF LilyPrompts, LilySays, prompting
  <2>2. p \in FromLily /\ p.kind = "prompt" /\ p.id = prompts + 1
    BY <2>1, DialogueAssumption DEF FromLily, PromptTypes, DialogueAssumption
  <2> HIDE DEF p
  <2>3. \A i \in DOMAIN fromLily' :
           \/ i \in DOMAIN fromLily /\ fromLily'[i] = fromLily[i] /\ i < Len(fromLily) + 1
           \/ i = Len(fromLily) + 1 /\ fromLily'[i] = p
    BY <2>1, <2>2, AfterSaying
  <2>4. Len(fromLily) \in Nat /\ \A i \in DOMAIN fromLily : i \in Nat
    BY DEF WireTypes
  <2>5. ASSUME NEW i \in DOMAIN fromLily', fromLily'[i].kind = "prompt"
        PROVE  /\ currentPrompt < fromLily'[i].id /\ recording < fromLily'[i].id
               /\ fromLily'[i].id <= prompts'
    <3>1. CASE i \in DOMAIN fromLily /\ fromLily'[i] = fromLily[i]
      <4>1. fromLily[i].id \in Nat
        BY <2>5, <3>1 DEF WireTypes, FromLily
      <4> QED BY <2>1, <2>5, <3>1, <4>1 DEF PromptInv, PromptTypes
    <3>2. CASE fromLily'[i] = p
      BY <2>1, <2>2, <3>2 DEF PromptInv, PromptTypes
    <3> QED BY <2>3, <3>1, <3>2
  <2>6. ASSUME NEW i \in DOMAIN fromLily', fromLily'[i].kind = "prompt",
               NEW j \in DOMAIN fromLily', fromLily'[j].kind = "prompt", i < j
        PROVE  fromLily'[i].id < fromLily'[j].id
    <3>1. i \in DOMAIN fromLily /\ fromLily'[i] = fromLily[i]
      BY <2>3, <2>4, <2>6
    <3>2. CASE j \in DOMAIN fromLily /\ fromLily'[j] = fromLily[j]
      BY <2>6, <3>1, <3>2 DEF PromptInv
    <3>3. CASE fromLily'[j] = p
      <4>1. fromLily[i].id <= prompts /\ fromLily[i].id \in Nat
        BY <2>6, <3>1 DEF PromptInv, WireTypes, FromLily
      <4> QED BY <2>2, <3>1, <3>3, <4>1 DEF PromptTypes
    <3> QED BY <2>3, <3>2, <3>3
  <2>7. waiting' \in {0, prompts'} /\ currentPrompt <= prompts'
        /\ (recording # 0 => currentPrompt < recording /\ recording <= prompts')
    BY <2>1 DEF PromptInv, PromptTypes
  <2> QED BY <2>1, <2>5, <2>6, <2>7 DEF PromptInv
<1>10. CASE LilyLost \/ UNCHANGED vars
  BY <1>1, <1>10 DEF LilyLost, vars, wires, prompting, lily, history
<1> QED BY <1>2, <1>3, <1>4, <1>5, <1>6, <1>7, <1>8, <1>9, <1>10 DEF Next, FanOut, Lily

LEMMA PendingStep ==
    ASSUME QuietInv, PromptInv, PendingInv, ~disturbed, up, [Next]_vars, ~disturbed', up'
    PROVE  PendingInv'
<1>0. /\ WireTypes /\ PromptTypes /\ StoreTypes /\ TakenTypes /\ TextInv /\ TakenInv /\ OrderInv
  BY DEF QuietInv
<1> DEFINE
    Shown == \E i \in DOMAIN fromLily : fromLily[i].kind = "prompt" /\ fromLily[i].id = waiting
    Sending == \E t \in Typists : line[t] = "send"
    Sent == \E i \in DOMAIN toLily : toLily[i].kind = "text"
<1>1. waiting # 0 => waiting \in {currentPrompt, recording} \/ Shown \/ Sending \/ Sent
  BY DEF PendingInv
<1>2. PendingInv' <=>
         (waiting' # 0 => waiting' \in {currentPrompt', recording'} \/ Shown' \/ Sending' \/ Sent')
  BY DEF PendingInv
<1>3. CASE /\ waiting' = waiting /\ UNCHANGED <<currentPrompt, recording>>
           /\ Shown => Shown'
           /\ Sending => Sending'
           /\ Sent => Sent'
  BY <1>1, <1>2, <1>3
<1>4. ASSUME NEW t \in Typists, TypeLine(t) PROVE PendingInv'
  <2>1. /\ UNCHANGED <<toLily, fromLily, currentPrompt, recording, waiting>>
        /\ line[t] = "none" /\ line' = [line EXCEPT ![t] = "clear"]
    BY <1>4 DEF TypeLine, wires, lily
  <2>2. Sending => Sending'
    BY <1>0, <2>1 DEF PromptTypes
  <2> QED BY <1>3, <2>1, <2>2
<1>5. ASSUME NEW t \in Typists, Advances(t, "clear", "send") PROVE PendingInv'
  <2>1. line'[t] = "send"
    BY <1>0, <1>5 DEF Advances, PromptTypes
  <2> QED BY <1>2, <2>1
<1>6. ASSUME NEW t \in Typists, SendText(t) PROVE PendingInv'
  <2>1. toLily' = Append(toLily, [kind |-> "text"]) /\ [kind |-> "text"] \in ToLily
    BY <1>6, TextSent
  <2>2. Len(toLily) + 1 \in DOMAIN toLily' /\ toLily'[Len(toLily) + 1] = [kind |-> "text"]
    BY <1>0, <2>1, AppendAt DEF WireTypes
  <2>3. Sent'
    BY <2>2
  <2> QED BY <1>2, <2>3
<1>7. ASSUME NEW s \in Stores, Register(s) \/ Answered(s) PROVE PendingInv'
  BY <1>3, <1>7 DEF Register, Answered, wires, prompting, lily
<1>8. ASSUME NEW s \in Stores, Export(s) \/ SendContent(s) PROVE PendingInv'
  <2>1. UNCHANGED <<fromLily, line, waiting, currentPrompt, recording>>
    BY <1>8 DEF Export, SendContent, Sends, SendFails, wires, prompting, lily
  <2>2. PICK m \in ToLily : toLily' = Append(toLily, m)
    BY <1>8, RequestSent, ContentSent
  <2>3. Sent => Sent'
    BY <1>0, <2>2, AppendAt DEF WireTypes
  <2> QED BY <1>3, <2>1, <2>3
<1>9. ASSUME NEW a \in {"OKAY", "ERROR"}, ReadExportFile(a) PROVE PendingInv'
  <2>1. /\ fromLily # <<>> /\ fromLily' = Tail(fromLily) /\ Head(fromLily).kind = a
        /\ UNCHANGED <<toLily, line, waiting, currentPrompt, recording>>
    BY <1>9 DEF ReadExportFile, Reads, prompting, lily
  <2>2. Shown => Shown'
    BY <1>0, <2>1, AfterReading
  <2> QED BY <1>3, <2>1, <2>2
<1>10. CASE ReadPrompt
  <2>1. /\ fromLily # <<>> /\ fromLily' = Tail(fromLily) /\ recording = 0
        /\ recording' = Head(fromLily).id
        /\ UNCHANGED <<toLily, line, waiting, currentPrompt>>
    BY <1>10 DEF ReadPrompt, Reads, lily
  <2>2. Shown => Shown' \/ waiting' = recording'
    BY <1>0, <2>1, AfterReading
  <2>3. (Sending => Sending') /\ (Sent => Sent')
    BY <2>1
  <2> HIDE DEF Shown, Sending, Sent
  <2> QED BY <1>1, <1>2, <2>1, <2>2, <2>3
<1>11. CASE SetPrompt
  <2>1. /\ recording # 0 /\ currentPrompt' = recording
        /\ UNCHANGED <<toLily, fromLily, line, waiting>>
    BY <1>11 DEF SetPrompt, wires, lily
  <2>2. waiting # 0 /\ waiting = currentPrompt => FALSE
    BY <1>0, <2>1 DEF PromptInv, PromptTypes
  <2>3. (Shown => Shown') /\ (Sending => Sending') /\ (Sent => Sent')
    BY <2>1
  <2> HIDE DEF Shown, Sending, Sent
  <2> QED BY <1>1, <1>2, <2>1, <2>2, <2>3
<1>12. ASSUME NEW s \in Stores, LilyAccepts(s) \/ LilyRejects(s) PROVE PendingInv'
  <2>1. UNCHANGED <<line, currentPrompt, recording, waiting>>
    BY <1>12 DEF LilyAccepts, LilyRejects, prompting, lily
  <2>2. PICK m \in FromLily : fromLily' = Append(fromLily, m)
    BY <1>12 DEF LilyAccepts, LilyRejects, LilySays, FromLily
  <2>3. Shown => Shown'
    BY <1>0, <2>1, <2>2, AfterSaying
  <2>4. ~Sent
    BY <1>12, RequestRead
  <2> QED BY <1>3, <2>1, <2>3, <2>4
<1>13. ASSUME NEW m \in Content \cup Text, LilyTakes(m) PROVE PendingInv'
  <2>1. UNCHANGED <<fromLily, line, currentPrompt, recording>>
    BY <1>13 DEF LilyTakes, prompting
  <2>2. CASE collecting = None
    BY <1>2, <1>13, <2>2 DEF LilyTakes
  <2>3. CASE collecting # None
    <3>1. waiting' = waiting
      BY <1>13, <2>3 DEF LilyTakes
    <3>2. ~Sent
      BY <1>0, <2>3 DEF TextInv
    <3> QED BY <1>3, <2>1, <3>1, <3>2
  <2> QED BY <2>2, <2>3
<1>14. CASE LilyPrompts
  <2>1. fromLily' = Append(fromLily, [kind |-> "prompt", id |-> waiting'])
    BY <1>14 DEF LilyPrompts, LilySays
  <2>2. [kind |-> "prompt", id |-> waiting'] \in FromLily
    BY <1>0, <1>14, DialogueAssumption DEF LilyPrompts, FromLily, PromptTypes, DialogueAssumption
  <2>3. /\ Len(fromLily) + 1 \in DOMAIN fromLily'
        /\ fromLily'[Len(fromLily) + 1] = [kind |-> "prompt", id |-> waiting']
    BY <1>0, <2>1, <2>2, AfterSaying
  <2>4. Shown'
    BY <2>3
  <2> QED BY <1>2, <2>4
<1>15. CASE UNCHANGED vars
  BY <1>3, <1>15 DEF vars, wires, prompting, lily
<1>16. ASSUME NEW t \in Typists, ClearAndSend(t) PROVE PendingInv'
  BY <1>5, <1>6, <1>16 DEF ClearAndSend
<1>17. ASSUME NEW s \in Stores, StoreTimeout(s) \/ Unregister(s) PROVE FALSE
  BY <1>17 DEF StoreTimeout, Unregister, QuietInv, ChannelInv
<1>18. ~LilyLost
  BY DEF LilyLost
<1> QED BY <1>4, <1>7, <1>8, <1>9, <1>10, <1>11, <1>12, <1>13, <1>14, <1>15, <1>16,
           <1>17, <1>18 DEF Next, Store, FanOut, Lily

-----------------------------------------------------------------------------
(* The invariant, and what follows from it.                                *)

DialogueInv == TypeOK /\ StoreInv /\ TurnInv /\ ContentInv /\ PromptInv /\ PendingInv

LEMMA DialogueInit == Init => DialogueInv
<1> SUFFICES ASSUME Init PROVE DialogueInv
  OBVIOUS
<1> USE DialogueAssumption DEF Init, DialogueAssumption
<1>1. WireTypes
  <2>1. toLily \in Seq(ToLily) /\ fromLily \in Seq(FromLily)
    OBVIOUS
  <2>2. up \in BOOLEAN /\ disturbed \in BOOLEAN
    BY Zenon
  <2> QED BY <2>1, <2>2, Zenon DEF WireTypes
<1>2. PromptTypes
  BY DEF PromptTypes
<1>3. StoreTypes
  BY DEF StoreTypes, Places, Codes, Answers
<1>4. TakenTypes
  BY DEF TakenTypes
<1>5. PhaseInv /\ RequestInv
  BY DEF PhaseInv, RequestInv
<1>6. ChannelInv /\ AskedInv /\ AnswerInv
  BY DEF ChannelInv, AskedInv, AnswerInv
<1>7. TextInv /\ AcceptedInv /\ DoneInv /\ TakenInv /\ OrderInv
  BY DEF TextInv, AcceptedInv, DoneInv, TakenInv, OrderInv
<1>8. PromptInv /\ PendingInv
  BY DEF PromptInv, PendingInv
<1> HIDE DEF Init
<1> QED BY <1>1, <1>2, <1>3, <1>4, <1>5, <1>6, <1>7, <1>8, TypeParts
        DEF DialogueInv, StoreInv, TurnInv, ContentInv

LEMMA DialogueStep == DialogueInv /\ [Next]_vars => DialogueInv'
<1> SUFFICES ASSUME DialogueInv, [Next]_vars PROVE DialogueInv'
  OBVIOUS
<1>1. TypeOK /\ StoreInv /\ PromptInv
  BY DEF DialogueInv
<1>2. TypeOK'
  <2>1. WireTypes' /\ PromptTypes' /\ StoreTypes' /\ TakenTypes'
    BY <1>1, WireTypesStep, PromptTypesStep, StoreTypesStep, TakenTypesStep
  <2>2. (WireTypes /\ PromptTypes /\ StoreTypes /\ TakenTypes)' => TypeOK'
    BY TypeParts, PTL
  <2> QED BY <2>1, <2>2
<1>3. StoreInv' /\ PromptInv'
  BY <1>1, PhaseStep, RequestStep, PromptStep DEF StoreInv
<1>4. TurnInv'
  <2> SUFFICES ASSUME ~disturbed' PROVE ChannelInv' /\ AskedInv' /\ AnswerInv'
    BY DEF TurnInv
  <2>1. ChannelInv /\ AskedInv /\ AnswerInv
    BY DisturbedStays DEF DialogueInv, TurnInv
  <2> QED BY <1>1, <2>1, ChannelStep, AskedStep, AnswerStep
<1>5. ContentInv' /\ PendingInv'
  <2>1. CASE disturbed' \/ ~up'
    BY <2>1 DEF ContentInv, PendingInv
  <2>2. CASE ~disturbed' /\ up'
    <3>1. ~disturbed /\ up
      BY <2>2, DisturbedStays, LostStays
    <3>2. QuietInv /\ PendingInv
      BY <1>1, <3>1, TypeParts DEF DialogueInv, QuietInv, StoreInv, TurnInv, ContentInv
    <3>3. TextInv' /\ AcceptedInv' /\ DoneInv' /\ TakenInv' /\ OrderInv'
      BY <2>2, <3>2, TextStep, AcceptedStep, DoneStep, TakenStep, OrderStep
    <3>4. PendingInv'
      BY <1>1, <2>2, <3>1, <3>2, PendingStep
    <3> QED BY <3>3, <3>4 DEF ContentInv
  <2> QED BY <2>1, <2>2
<1> QED BY <1>2, <1>3, <1>4, <1>5 DEF DialogueInv

LEMMA DialogueInvariant == Spec => []DialogueInv
BY DialogueInit, DialogueStep, PTL DEF Spec

LEMMA PendingIsPending == DialogueInv => UnansweredPromptIsPending
BY DEF DialogueInv, PendingInv, UnansweredPromptIsPending

LEMMA StoresAreExact == DialogueInv => QuietStoreIsExact
<1> SUFFICES ASSUME DialogueInv, ~disturbed, up, toLily = <<>>,
                    NEW s \in Stores, status[s] = 204
             PROVE  stored[s] = [i \in 1..NLines |-> Line(s, i)]
  BY DEF QuietStoreIsExact, Line
<1>1. sent[s] = NLines /\ (collecting = s \/ stored[s] = [n \in 1..NLines |-> Line(s, n)])
  BY DEF DialogueInv, ContentInv, DoneInv
<1>2. collecting # s
  <2> SUFFICES ASSUME collecting = s PROVE FALSE
    OBVIOUS
  <2>1. Len(stored[s]) < NLines
    BY DEF DialogueInv, StoreInv, PhaseInv
  <2>2. Len(stored[s]) \in Nat
    BY TypeParts DEF DialogueInv, TakenTypes
  <2>3. NLines \in Len(stored[s]) + 1 .. sent[s]
    BY <1>1, <2>1, <2>2, DialogueAssumption DEF DialogueAssumption
  <2>4. \E i \in DOMAIN toLily : toLily[i] = Line(s, NLines)
    <3>1. TakenInv
      BY DEF DialogueInv, ContentInv
    <3>2. \A n \in Len(stored[s]) + 1 .. sent[s] : \E i \in DOMAIN toLily : toLily[i] = Line(s, n)
      BY <3>1, Zenon DEF TakenInv
    <3> QED BY <2>3, <3>2, Zenon
  <2> QED BY <2>4
<1> QED BY <1>1, <1>2

LEMMA StoresTakeTurns == DialogueInv => OneStoreWaits
<1> SUFFICES ASSUME DialogueInv, ~disturbed
             PROVE  Cardinality({s \in Stores : pc[s] \in {"send", "wait"} /\ chan[s] = "empty"}) <= 1
  BY DEF OneStoreWaits
<1> DEFINE W == {s \in Stores : pc[s] \in {"send", "wait"} /\ chan[s] = "empty"}
<1>1. W \subseteq {storeResultCh}
  BY DEF DialogueInv, TurnInv, ChannelInv
<1>2. IsFiniteSet({storeResultCh}) /\ Cardinality({storeResultCh}) = 1
  BY FS_Singleton
<1>3. Cardinality(W) <= Cardinality({storeResultCh})
  BY <1>1, <1>2, FS_Subset
<1> QED BY <1>2, <1>3

\* The variables of the dialogue keep their types: no store leaves more lines at
\* Lily than it has, and no goroutine is in two places.
THEOREM DialogueTypeCorrect == Spec => []TypeOK
<1>1. DialogueInv => TypeOK
  BY DEF DialogueInv
<1> QED BY <1>1, DialogueInvariant, PTL

\* For any number of stores, typists, lines and prompts: a prompt Lily waits on,
\* once recorded, stays pending unless the line that answers it is on its way; a
\* store answered 204 while nobody disturbed one left exactly its lines, in order;
\* and no two stores take the next OKAY for theirs.  (server.go handleStore,
\* dispatchLine, setPrompt)
THEOREM DialoguesStayExact == Spec => []DialoguesAreExact
<1>1. DialogueInv => DialoguesAreExact
  BY PendingIsPending, StoresAreExact, StoresTakeTurns DEF DialoguesAreExact
<1> QED BY <1>1, DialogueInvariant, PTL

-----------------------------------------------------------------------------
(* Where a line goes (Destinations), for any names and any lengths.         *)

\* Without, step by step.
Filters(out, s, x) ==
    /\ out[0] = <<>>
    /\ \A i \in 1..Len(s) : out[i] = IF s[i] = x THEN out[i - 1] ELSE Append(out[i - 1], s[i])

LEMMA WithoutSteps ==
    ASSUME NEW S, NEW s \in Seq(S), NEW x
    PROVE  \E out \in [0..Len(s) -> Seq(S)] : Recent!Without(s, x) = out[Len(s)] /\ Filters(out, s, x)
<1> DEFINE Body(f) ==
        [i \in 0..Len(s) |-> IF i = 0 THEN <<>> ELSE IF s[i] = x THEN f[i - 1] ELSE Append(f[i - 1], s[i])]
<1> DEFINE step ==
        [p \in Nat \X Seq(S) |->
            IF p[1] \notin 1..Len(s) \/ s[p[1]] = x THEN p[2] ELSE Append(p[2], s[p[1]])]
<1>1. step \in [Nat \X Seq(S) -> Seq(S)]
  <2>1. ASSUME NEW p \in Nat \X Seq(S) PROVE step[p] \in Seq(S)
    <3>1. p[2] \in Seq(S) /\ (p[1] \in 1..Len(s) => s[p[1]] \in S)
      OBVIOUS
    <3> QED BY <3>1
  <2> QED BY <2>1
<1>2. <<>> \in Seq(S) /\ Len(s) \in Nat
  OBVIOUS
<1> HIDE DEF step
<1>3. PICK f \in [0..Len(s) -> Seq(S)] : Steps(f, <<>>, step, Len(s))
  BY <1>1, <1>2, RecursionIsDefined
<1>4. f = Body(f)
  <2>1. ASSUME NEW i \in 1..Len(s)
        PROVE  f[i] = IF s[i] = x THEN f[i - 1] ELSE Append(f[i - 1], s[i])
    <3>0. i - 1 \in 0..Len(s) /\ i \in Nat
      OBVIOUS
    <3>1. <<i, f[i - 1]>> \in Nat \X Seq(S)
      BY <3>0
    <3>2. f[i] = step[<<i, f[i - 1]>>]
      BY <1>3 DEF Steps
    <3> QED BY <3>1, <3>2 DEF step
  <2>2. f[0] = <<>>
    BY <1>3 DEF Steps
  <2>3. ASSUME NEW i \in 0..Len(s) PROVE f[i] = Body(f)[i]
    <3>1. CASE i = 0
      BY <2>2, <3>1
    <3>2. CASE i # 0
      <4>1. i \in 1..Len(s)
        BY <3>2
      <4> QED BY <2>1, <3>2, <4>1
    <3> QED BY <3>1, <3>2
  <2> QED BY <2>3
<1> DEFINE out == CHOOSE g : g = Body(g)
<1>5. out = Body(out)
  BY <1>4, Zenon
<1>6. Recent!Without(s, x) = out[Len(s)]
  BY DEF Recent!Without
<1> HIDE DEF out
<1>7. /\ out[0] = <<>>
      /\ \A i \in 1..Len(s) : out[i] = IF s[i] = x THEN out[i - 1] ELSE Append(out[i - 1], s[i])
  <2>1. 0 \in 0..Len(s)
    OBVIOUS
  <2>2. out[0] = <<>>
    BY <1>5, <2>1
  <2>3. ASSUME NEW i \in 1..Len(s)
        PROVE  out[i] = IF s[i] = x THEN out[i - 1] ELSE Append(out[i - 1], s[i])
    <3>1. i \in 0..Len(s) /\ i # 0
      OBVIOUS
    <3> QED BY <1>5, <3>1
  <2> QED BY <2>2, <2>3
<1>8. out \in [0..Len(s) -> Seq(S)]
  <2> DEFINE T == {k \in Nat : k <= Len(s) => out[k] \in Seq(S)}
  <2>1. 0 \in T
    BY <1>2, <1>7
  <2>2. ASSUME NEW k \in Nat, k \in T PROVE k + 1 \in T
    <3>1. SUFFICES ASSUME k + 1 <= Len(s) PROVE out[k + 1] \in Seq(S)
      OBVIOUS
    <3>2. out[k] \in Seq(S) /\ k + 1 \in 1..Len(s) /\ s[k + 1] \in S
      BY <2>2, <3>1
    <3>3. out[k + 1] = IF s[k + 1] = x THEN out[k] ELSE Append(out[k], s[k + 1])
      BY <1>7, <3>2
    <3> QED BY <3>2, <3>3
  <2>3. Nat \subseteq T
    <3> HIDE DEF T
    <3> QED BY <2>1, <2>2, NatSetInduction
  <2>4. \A i \in 0..Len(s) : out[i] \in Seq(S)
    BY <2>3
  <2> QED BY <1>5, <2>4
<1> QED BY <1>6, <1>7, <1>8 DEF Filters

\* It leaves the others in their order; of a sequence without doubles it takes
\* out one place, or none.
LEMMA WithoutIsSeq ==
    ASSUME NEW S, NEW s \in Seq(S), NEW x PROVE Recent!Without(s, x) \in Seq(S)
<1>1. PICK out \in [0..Len(s) -> Seq(S)] : Recent!Without(s, x) = out[Len(s)]
  BY WithoutSteps
<1>2. Len(s) \in 0..Len(s)
  OBVIOUS
<1> QED BY <1>1, <1>2

LEMMA WithoutNone ==
    ASSUME NEW S, NEW s \in Seq(S), NEW x, \A i \in DOMAIN s : s[i] # x
    PROVE  Recent!Without(s, x) = s
<1>1. PICK out \in [0..Len(s) -> Seq(S)] : Recent!Without(s, x) = out[Len(s)] /\ Filters(out, s, x)
  BY WithoutSteps
<1> DEFINE T == {k \in Nat : k <= Len(s) => Len(out[k]) = k /\ \A i \in 1..k : out[k][i] = s[i]}
<1>2. 0 \in T
  BY <1>1 DEF Filters
<1>3. ASSUME NEW k \in Nat, k \in T PROVE k + 1 \in T
  <2>1. SUFFICES ASSUME k + 1 <= Len(s)
                 PROVE  Len(out[k + 1]) = k + 1 /\ \A i \in 1..(k + 1) : out[k + 1][i] = s[i]
    OBVIOUS
  <2>2. out[k] \in Seq(S) /\ Len(out[k]) = k /\ \A i \in 1..k : out[k][i] = s[i]
    BY <1>3, <2>1
  <2>3. k + 1 \in 1..Len(s) /\ s[k + 1] # x /\ s[k + 1] \in S
    BY <2>1
  <2>4. out[k + 1] = Append(out[k], s[k + 1])
    <3>1. PICK j \in 1..Len(s) : j = k + 1 /\ j - 1 = k
      BY <2>3
    <3>2. out[j] = IF s[j] = x THEN out[j - 1] ELSE Append(out[j - 1], s[j])
      BY <1>1 DEF Filters
    <3> QED BY <2>3, <3>1, <3>2
  <2> QED BY <2>2, <2>3, <2>4
<1>4. Nat \subseteq T
  <2> HIDE DEF T
  <2> QED BY <1>2, <1>3, NatSetInduction
<1>5. Len(out[Len(s)]) = Len(s) /\ \A i \in 1..Len(s) : out[Len(s)][i] = s[i]
  BY <1>4
<1>6. out[Len(s)] \in Seq(S)
  OBVIOUS
<1> HIDE DEF T
<1> QED BY <1>1, <1>5, <1>6

LEMMA WithoutOne ==
    ASSUME NEW S, NEW s \in Seq(S), NEW k \in DOMAIN s, NEW x,
           s[k] = x, \A i \in DOMAIN s : s[i] = x => i = k
    PROVE  /\ Len(Recent!Without(s, x)) = Len(s) - 1
           /\ \A i \in 1..(Len(s) - 1) : Recent!Without(s, x)[i] = s[IF i < k THEN i ELSE i + 1]
<1>1. PICK out \in [0..Len(s) -> Seq(S)] : Recent!Without(s, x) = out[Len(s)] /\ Filters(out, s, x)
  BY WithoutSteps
<1> DEFINE Left(n) == IF n < k THEN n ELSE n - 1
<1> DEFINE T == {n \in Nat : n <= Len(s) =>
                     /\ Len(out[n]) = Left(n)
                     /\ \A i \in 1..Left(n) : out[n][i] = s[IF i < k THEN i ELSE i + 1]}
<1>2. 0 \in T
  BY <1>1 DEF Filters
<1>3. ASSUME NEW n \in Nat, n \in T PROVE n + 1 \in T
  <2>1. SUFFICES ASSUME n + 1 <= Len(s)
                 PROVE  /\ Len(out[n + 1]) = Left(n + 1)
                        /\ \A i \in 1..Left(n + 1) : out[n + 1][i] = s[IF i < k THEN i ELSE i + 1]
    OBVIOUS
  <2>2. out[n] \in Seq(S) /\ Len(out[n]) = Left(n)
    BY <1>3, <2>1
  <2>3. \A i \in 1..Left(n) : out[n][i] = s[IF i < k THEN i ELSE i + 1]
    BY <1>3, <2>1
  <2>4. n + 1 \in 1..Len(s) /\ s[n + 1] \in S /\ n + 1 - 1 = n
    BY <2>1
  <2>5. out[n + 1] = IF s[n + 1] = x THEN out[n] ELSE Append(out[n], s[n + 1])
    BY <1>1, <2>4 DEF Filters
  <2>6. CASE n + 1 = k
    <3>1. out[n + 1] = out[n] /\ Left(n + 1) = Left(n)
      BY <2>5, <2>6
    <3> QED BY <2>2, <2>3, <3>1
  <2>7. CASE n + 1 # k
    <3>1. out[n + 1] = Append(out[n], s[n + 1])
      BY <2>4, <2>5, <2>7
    <3>2. Left(n + 1) = Left(n) + 1 /\ Left(n) \in Nat
      BY <2>7
    <3> DEFINE L == Left(n)
        c == s[n + 1]
        was == out[n]
    <3>0. L \in Nat /\ Len(was) = L /\ was \in Seq(S) /\ c \in S /\ out[n + 1] = Append(was, c)
      BY <2>2, <2>4, <3>1, <3>2
    <3>4. Len(out[n + 1]) = L + 1 /\ out[n + 1][L + 1] = c /\ \A i \in 1..L : out[n + 1][i] = was[i]
      <4> HIDE DEF L, c, was
      <4>1. DOMAIN was = 1..L
        BY ONLY <3>0
      <4> QED BY ONLY <3>0, <4>1, AppendAt
    <3>3. Len(out[n + 1]) = Left(n) + 1 /\ out[n + 1][Left(n) + 1] = s[n + 1]
      BY <3>4
    <3>5. n + 1 = IF Left(n) + 1 < k THEN Left(n) + 1 ELSE Left(n) + 1 + 1
      BY <2>7
    <3>6. ASSUME NEW i \in 1..(Left(n) + 1) PROVE out[n + 1][i] = s[IF i < k THEN i ELSE i + 1]
      <4>1. CASE i = Left(n) + 1
        BY <3>3, <3>5, <4>1
      <4>2. CASE i # Left(n) + 1
        <5>1. i \in 1..Left(n)
          BY <3>2, <4>2
        <5> QED BY <2>3, <3>4, <5>1
      <4> QED BY <4>1, <4>2
    <3> QED BY <3>2, <3>3, <3>6
  <2> QED BY <2>6, <2>7
<1>4. Nat \subseteq T
  <2> HIDE DEF T
  <2> QED BY <1>2, <1>3, NatSetInduction
<1>5. Len(s) \in T /\ Left(Len(s)) = Len(s) - 1
  BY <1>4
<1> QED BY <1>1, <1>5

LEMMA JoinIsSeq ==
    ASSUME NEW C, Recent!Comma \in C, NEW dests \in Seq(Seq(C))
    PROVE  Recent!Join(dests) \in Seq(C)
<1> DEFINE n == Len(dests)
<1> DEFINE More(s, i) == s \o <<Recent!Comma>> \o dests[i]
<1> DEFINE Body(f) == [i \in 0..n |-> IF i = 0 THEN <<>> ELSE IF i = 1 THEN dests[1] ELSE More(f[i - 1], i)]
<1> DEFINE step ==
        [p \in Nat \X Seq(C) |-> IF p[1] \notin 1..n THEN p[2] ELSE IF p[1] = 1 THEN dests[1] ELSE More(p[2], p[1])]
<1>1. ASSUME NEW s \in Seq(C), NEW i \in 1..n PROVE More(s, i) \in Seq(C) /\ dests[i] \in Seq(C)
  <2>1. dests[i] \in Seq(C) /\ <<Recent!Comma>> \in Seq(C)
    OBVIOUS
  <2>2. s \o <<Recent!Comma>> \in Seq(C)
    BY <2>1
  <2> QED BY <2>1, <2>2
<1>2. <<>> \in Seq(C) /\ n \in Nat
  OBVIOUS
<1> HIDE DEF n, More
<1>3. step \in [Nat \X Seq(C) -> Seq(C)]
  <2>1. ASSUME NEW p \in Nat \X Seq(C) PROVE step[p] \in Seq(C)
    <3>1. p[1] \in Nat /\ p[2] \in Seq(C)
      OBVIOUS
    <3>2. CASE p[1] \in 1..n
      <4>1. More(p[2], p[1]) \in Seq(C) /\ dests[p[1]] \in Seq(C)
        BY <1>1, <3>1, <3>2
      <4> QED BY <3>1, <3>2, <4>1
    <3> QED BY <3>1, <3>2
  <2> QED BY <2>1
<1> HIDE DEF step
<1>4. PICK f \in [0..n -> Seq(C)] : Steps(f, <<>>, step, n)
  BY <1>2, <1>3, RecursionIsDefined
<1>5. f = Body(f)
  <2>1. ASSUME NEW i \in 1..n PROVE f[i] = IF i = 1 THEN dests[1] ELSE More(f[i - 1], i)
    <3>0. i - 1 \in 0..n /\ i \in Nat
      BY <1>2
    <3>1. <<i, f[i - 1]>> \in Nat \X Seq(C)
      BY <3>0
    <3>2. f[i] = step[<<i, f[i - 1]>>]
      BY <1>4 DEF Steps
    <3> QED BY <3>1, <3>2 DEF step
  <2>2. f[0] = <<>>
    BY <1>4 DEF Steps
  <2>3. ASSUME NEW i \in 0..n PROVE f[i] = Body(f)[i]
    <3>1. CASE i = 0
      BY <2>2, <3>1
    <3>2. CASE i # 0
      <4>1. i \in 1..n
        BY <1>2, <3>2
      <4> QED BY <2>1, <3>2, <4>1
    <3> QED BY <3>1, <3>2
  <2> QED BY <2>3
<1> DEFINE out == CHOOSE g : g = Body(g)
<1>6. out = Body(out)
  BY <1>5, Zenon
<1>7. Recent!Join(dests) = out[n]
  BY DEF Recent!Join, n, More
<1> HIDE DEF out
<1> DEFINE T == {k \in Nat : k <= n => out[k] \in Seq(C)}
<1>8. 0 \in T
  <2>1. 0 \in 0..n
    BY <1>2
  <2> QED BY <1>2, <1>6, <2>1
<1>9. ASSUME NEW k \in Nat, k \in T PROVE k + 1 \in T
  <2>1. SUFFICES ASSUME k + 1 <= n PROVE out[k + 1] \in Seq(C)
    OBVIOUS
  <2>2. PICK j \in 1..n : j = k + 1 /\ j - 1 = k /\ j \in 0..n /\ j # 0
    BY <1>2, <2>1
  <2>3. out[j - 1] \in Seq(C)
    BY <1>2, <1>9, <2>2
  <2>4. out[j] = IF j = 1 THEN dests[1] ELSE More(out[j - 1], j)
    BY <1>6, <2>2
  <2>5. More(out[j - 1], j) \in Seq(C) /\ dests[j] \in Seq(C)
    BY <1>1, <2>3
  <2> QED BY <2>2, <2>4, <2>5
<1>10. Nat \subseteq T
  <2> HIDE DEF T
  <2> QED BY <1>8, <1>9, NatSetInduction
<1> QED BY <1>2, <1>7, <1>10

LEMMA SplitIsSeq ==
    ASSUME NEW C, NEW s \in Seq(C)
    PROVE  Recent!Split(s) \in Seq(Seq(C)) /\ Recent!Split(s) # <<>>
<1> DEFINE n == Len(s)
<1> DEFINE S == {q \in Seq(Seq(C)) : q # <<>>}
<1> DEFINE Grown(q, i) == IF s[i] = Recent!Comma THEN Append(q, <<>>) ELSE Append(Recent!Front(q), Append(Recent!Last(q), s[i]))
<1> DEFINE Body(f) == [i \in 0..n |-> IF i = 0 THEN << <<>> >>
                                      ELSE IF s[i] = Recent!Comma THEN Append(f[i - 1], <<>>)
                                      ELSE Append(Recent!Front(f[i - 1]), Append(Recent!Last(f[i - 1]), s[i]))]
<1> DEFINE step == [p \in Nat \X S |-> IF p[1] \notin 1..n THEN p[2] ELSE Grown(p[2], p[1])]
<1>1. ASSUME NEW q \in S, NEW i \in 1..n PROVE Grown(q, i) \in S
  <2>1. s[i] \in C /\ <<>> \in Seq(C) /\ q \in Seq(Seq(C)) /\ q # <<>>
    OBVIOUS
  <2>2. Recent!Last(q) \in Seq(C) /\ Recent!Front(q) \in Seq(Seq(C))
    <3>1. Len(q) \in Nat \ {0} /\ DOMAIN q = 1..Len(q) /\ Len(q) - 1 <= Len(q)
      BY <2>1
    <3>2. q[Len(q)] \in Seq(C)
      BY <2>1, <3>1
    <3>3. SubSeq(q, 1, Len(q) - 1) \in Seq(Seq(C))
      BY <2>1, <3>1
    <3> QED BY <3>2, <3>3 DEF Recent!Last, Recent!Front
  <2>3. Append(Recent!Last(q), s[i]) \in Seq(C)
    BY <2>1, <2>2
  <2>4. Append(q, <<>>) \in Seq(Seq(C)) /\ Append(Recent!Front(q), Append(Recent!Last(q), s[i])) \in Seq(Seq(C))
    BY <2>1, <2>2, <2>3
  <2>5. ASSUME NEW r \in Seq(Seq(C)), NEW e \in Seq(C) PROVE Append(r, e) # <<>>
    BY AppendProperties
  <2>6. Append(q, <<>>) # <<>> /\ Append(Recent!Front(q), Append(Recent!Last(q), s[i])) # <<>>
    BY <2>1, <2>2, <2>3, <2>5
  <2> QED BY <2>4, <2>6
<1>2. << <<>> >> \in S /\ n \in Nat
  <2>1. <<>> \in Seq(C)
    OBVIOUS
  <2>2. << <<>> >> \in Seq(Seq(C))
    BY <2>1
  <2> QED BY <2>2
<1>3. step \in [Nat \X S -> S]
  <2> HIDE DEF n, S, Grown
  <2>1. ASSUME NEW p \in Nat \X S PROVE step[p] \in S
    <3>1. p[1] \in Nat /\ p[2] \in S
      OBVIOUS
    <3>2. CASE p[1] \in 1..n
      <4>1. Grown(p[2], p[1]) \in S
        BY <1>1, <3>1, <3>2
      <4> QED BY <3>1, <3>2, <4>1
    <3> QED BY <3>1, <3>2
  <2> QED BY <2>1
<1> HIDE DEF step, n, S
<1>4. PICK f \in [0..n -> S] : Steps(f, << <<>> >>, step, n)
  BY <1>2, <1>3, RecursionIsDefined
<1>5. f = Body(f)
  <2>1. ASSUME NEW i \in 1..n PROVE f[i] = Grown(f[i - 1], i)
    <3> HIDE DEF Grown
    <3>0. i - 1 \in 0..n /\ i \in Nat
      BY <1>2
    <3>1. <<i, f[i - 1]>> \in Nat \X S
      BY <3>0
    <3>2. f[i] = step[<<i, f[i - 1]>>]
      BY <1>4 DEF Steps
    <3> QED BY <3>1, <3>2 DEF step
  <2>2. f[0] = << <<>> >>
    BY <1>4 DEF Steps
  <2>3. ASSUME NEW i \in 0..n PROVE f[i] = Body(f)[i]
    <3>1. CASE i = 0
      BY <2>2, <3>1
    <3>2. CASE i # 0
      <4>1. i \in 1..n
        BY <1>2, <3>2
      <4> QED BY <2>1, <3>2, <4>1
    <3> QED BY <3>1, <3>2
  <2> QED BY <2>3
<1> DEFINE out == CHOOSE g : g = Body(g)
<1>6. out = Body(out)
  BY <1>5, Zenon
<1>7. Recent!Split(s) = out[n]
  BY DEF Recent!Split, n
<1> HIDE DEF out
<1> DEFINE T == {k \in Nat : k <= n => out[k] \in S}
<1>8. 0 \in T
  <2>1. 0 \in 0..n
    BY <1>2
  <2> QED BY <1>2, <1>6, <2>1
<1>9. ASSUME NEW k \in Nat, k \in T PROVE k + 1 \in T
  <2>1. SUFFICES ASSUME k + 1 <= n PROVE out[k + 1] \in S
    OBVIOUS
  <2>2. PICK j \in 1..n : j = k + 1 /\ j - 1 = k /\ j \in 0..n /\ j # 0
    BY <1>2, <2>1
  <2>3. out[j - 1] \in S
    BY <1>2, <1>9, <2>2
  <2>4. out[j] = Grown(out[j - 1], j)
    BY <1>6, <2>2
  <2>5. Grown(out[j - 1], j) \in S
    <3> HIDE DEF Grown
    <3> QED BY <1>1, <2>3
  <2> QED BY <2>2, <2>4, <2>5
<1>10. Nat \subseteq T
  <2> HIDE DEF T
  <2> QED BY <1>8, <1>9, NatSetInduction
<1>11. out[n] \in S
  BY <1>2, <1>10
<1> QED BY <1>7, <1>11 DEF S

\* A set of numbers has a least one, and a greatest one if it is bounded.
LEMMA MinOfNats ==
    ASSUME NEW S, S \subseteq Nat, S # {}
    PROVE  Recent!Min(S) \in S /\ \A y \in S : Recent!Min(S) <= y
<1>1. SUFFICES ASSUME \A x \in S : \E y \in S : ~(x <= y) PROVE FALSE
  <2>1. SUFFICES ASSUME NEW x \in S, \A y \in S : x <= y
                 PROVE  Recent!Min(S) \in S /\ \A y \in S : Recent!Min(S) <= y
    BY <1>1, Zenon
  <2> QED BY <2>1, Zenon DEF Recent!Min
<1> DEFINE T == {n \in Nat : \A m \in S : n <= m}
<1>2. 0 \in T
  OBVIOUS
<1>3. ASSUME NEW n \in Nat, n \in T PROVE n + 1 \in T
  <2>1. \A m \in S : n <= m
    BY <1>3
  <2>2. n \notin S
    BY <1>1, <2>1
  <2> QED BY <2>1, <2>2
<1>4. Nat \subseteq T
  <2> HIDE DEF T
  <2> QED BY <1>2, <1>3, NatSetInduction
<1>5. PICK x \in S : TRUE
  OBVIOUS
<1>6. x + 1 \in T
  BY <1>4
<1> QED BY <1>5, <1>6

LEMMA MaxOfBounded ==
    ASSUME NEW b \in Nat, NEW S, S \subseteq 0..b, S # {}
    PROVE  Recent!Max(S) \in S /\ \A y \in S : Recent!Max(S) >= y
<1>1. SUFFICES ASSUME \A x \in S : \E y \in S : ~(x >= y) PROVE FALSE
  <2>1. SUFFICES ASSUME NEW x \in S, \A y \in S : x >= y
                 PROVE  Recent!Max(S) \in S /\ \A y \in S : Recent!Max(S) >= y
    BY <1>1, Zenon
  <2> QED BY <2>1, Zenon DEF Recent!Max
<1> DEFINE T == {n \in Nat : \A m \in S : m <= b - n}
<1>2. 0 \in T
  OBVIOUS
<1>3. ASSUME NEW n \in Nat, n \in T PROVE n + 1 \in T
  <2>1. \A m \in S : m <= b - n
    BY <1>3
  <2>2. b - n \notin S
    BY <1>1, <2>1
  <2> QED BY <2>1, <2>2
<1>4. Nat \subseteq T
  <2> HIDE DEF T
  <2> QED BY <1>2, <1>3, NatSetInduction
<1>5. PICK x \in S : TRUE
  OBVIOUS
<1>6. b + 1 \in T
  BY <1>4
<1> QED BY <1>5, <1>6

-----------------------------------------------------------------------------
\* The characters: strings, and the literals the provers do not know to be.
Chars == STRING \cup Recent!Keys \cup {Recent!Blank, Recent!Dash, "_"}

LEMMA CharsAreChars ==
    /\ {Recent!Comma, Recent!Semicolon, Recent!Dash} \subseteq Chars
    /\ \A key \in Recent!Keys : key \in Chars /\ Recent!Mark(key) \in Chars
    /\ \A c \in Chars : Recent!AsTyped(c) \in Chars
<1>1. Recent!Comma \in Chars /\ Recent!Semicolon \in Chars /\ Recent!Dash \in Chars
  BY Zenon DEF Chars, Recent!Keys
<1>2. \A key \in Recent!Keys : key \in Chars /\ Recent!Mark(key) \in Chars
  BY <1>1, Zenon DEF Chars, Recent!Mark
<1>3. \A c \in Chars : Recent!AsTyped(c) \in Chars
  BY Zenon DEF Chars, Recent!AsTyped
<1> QED BY <1>1, <1>2, <1>3

LEMMA StringsAreChars == Seq(STRING) \subseteq Seq(Chars)
<1>1. STRING \subseteq Chars
  BY Zenon DEF Chars
<1>2. ASSUME NEW A, NEW B, A \subseteq B PROVE Seq(A) \subseteq Seq(B)
  <2>1. ASSUME NEW s \in Seq(A) PROVE s \in Seq(B)
    <3>1. \A i \in 1..Len(s) : s[i] \in B
      BY <1>2
    <3> QED BY <3>1
  <2> QED BY <2>1
<1> QED BY ONLY <1>1, <1>2

EntityTypes == \A h \in Recent!Handles : entities[h].name \in Seq(Chars)
InputTypes == inputValue \in Seq(Chars) /\ inputCursor \in 0..Len(inputValue)
RecallTypes == /\ expandSender \in Seq(Chars) /\ expandRecips \in Seq(Chars)
               /\ expandSendgroup \in Seq(Chars)
RingTypes == /\ pastSends \in Seq(Seq(Chars)) /\ log \in Seq(Seq(Chars))
             /\ tabbed \in Seq(Seq(Chars))
Types == EntityTypes /\ InputTypes /\ RecallTypes /\ RingTypes

LEMMA PartsOfALine ==
    ASSUME InputTypes
    PROVE  /\ Recent!fore \in Seq(Chars) /\ Len(Recent!fore) = inputCursor
           /\ Recent!aft \in Seq(Chars)
<1>1. inputCursor \in Nat /\ Len(inputValue) \in Nat /\ inputCursor <= Len(inputValue)
  BY DEF InputTypes
<1>2. \A i \in 1..Len(inputValue) : inputValue[i] \in Chars
  BY DEF InputTypes
<1>3. Recent!fore \in Seq(Chars) /\ Len(Recent!fore) = inputCursor
  BY <1>1, <1>2, SubSeqProperties DEF Recent!fore
<1>4. Recent!aft \in Seq(Chars)
  BY <1>1, <1>2, SubSeqProperties DEF Recent!aft
<1> QED BY <1>3, <1>4

LEMMA LineTypes ==
    ASSUME NEW new \in Seq(Chars), NEW old \in Seq(Chars), Recent!Line(new \o old, Len(new))
    PROVE  InputTypes'
<1>1. new \o old \in Seq(Chars) /\ Len(new) \in 0..Len(new \o old)
  OBVIOUS
<1> QED BY <1>1 DEF Recent!Line, InputTypes

LEMMA InsertTypes ==
    ASSUME InputTypes, NEW s \in Seq(Chars), Recent!Insert(s)
    PROVE  InputTypes'
<1>1. Recent!fore \in Seq(Chars) /\ Len(Recent!fore) = inputCursor /\ Recent!aft \in Seq(Chars)
  BY PartsOfALine
<1>2. Recent!Line(Recent!fore \o s \o Recent!aft, Len(Recent!fore \o s))
  BY <1>1 DEF Recent!Insert, Recent!fore, Recent!aft
<1>3. Recent!fore \o s \in Seq(Chars)
  BY <1>1
<1> QED BY <1>1, <1>2, <1>3, LineTypes

\* What a name is typed as, and what it is completed to.
LEMMA UnderscoredIsSeq ==
    ASSUME EntityTypes, NEW h \in Recent!Handles
    PROVE  Recent!Underscored(entities[h].name) \in Seq(Chars)
<1>1. entities[h].name \in Seq(Chars) /\ \A c \in Chars : Recent!AsTyped(c) \in Chars
  BY CharsAreChars DEF EntityTypes
<1> QED BY <1>1 DEF Recent!Underscored

LEMMA ExpandNameIsSeq ==
    ASSUME EntityTypes, NEW partial \in Seq(Chars), NEW answered
    PROVE  Recent!expandName(partial, answered) \in Seq(Chars)
<1> DEFINE matches == Recent!expandNameMatches(partial, answered)
<1>1. \A q : Recent!handleExpand(q) \subseteq Recent!Handles
  BY Zenon DEF Recent!handleExpand
<1>2. matches \subseteq Recent!Handles
  BY <1>1, Zenon DEF Recent!expandNameMatches, Recent!Expand
<1>3. ASSUME NEW h \in Recent!Handles PROVE Recent!Completed(h) \in Seq(Chars)
  <2>2. Recent!Underscored(entities[h].name) \in Seq(Chars)
    BY UnderscoredIsSeq
  <2>3. <<Recent!Dash>> \in Seq(Chars) /\ <<>> \in Seq(Chars)
    BY CharsAreChars
  <2> QED BY <2>2, <2>3 DEF Recent!Completed
<1>4. CASE Recent!Cardinality(matches) = 1
  <2>1. matches # {}
    <3> HIDE DEF matches
    <3>0. Recent!Cardinality({}) = Cardinality({})
      BY Zenon DEF Recent!Cardinality, Cardinality
    <3>1. Cardinality({}) = 0
      BY FS_EmptySet
    <3>2. Recent!Cardinality({}) # 1
      BY ONLY <3>0, <3>1
    <3> QED BY ONLY <1>4, <3>2
  <2>2. (CHOOSE h \in matches : TRUE) \in Recent!Handles
    BY <1>2, <2>1
  <2> QED BY <1>3, <1>4, <2>2 DEF Recent!expandName
<1>5. CASE Recent!Cardinality(matches) # 1
  BY <1>5 DEF Recent!expandName
<1> QED BY <1>4, <1>5

-----------------------------------------------------------------------------
\* The destination of a send, and the ring.
LEMMA TrimIsSeq ==
    ASSUME NEW s \in Seq(Chars)
    PROVE  Recent!Trim(s) \in Seq(Chars)
<1> DEFINE at == {i \in DOMAIN s : s[i] # Recent!Blank}
<1>1. Len(s) \in Nat /\ DOMAIN s = 1..Len(s) /\ \A i \in 1..Len(s) : s[i] \in Chars
  OBVIOUS
<1>2. CASE at = {}
  BY <1>2 DEF Recent!Trim
<1>3. CASE at # {}
  <2>1. at \subseteq 1..Len(s) /\ at \subseteq Nat /\ at \subseteq 0..Len(s)
    BY <1>1
  <2> HIDE DEF at
  <2>2. Recent!Min(at) \in at /\ Recent!Max(at) \in at
    BY <1>1, <1>3, <2>1, MinOfNats, MaxOfBounded
  <2>3. PICK a \in 1..Len(s), b \in 1..Len(s) : a = Recent!Min(at) /\ b = Recent!Max(at)
    BY <2>1, <2>2
  <2>4. SubSeq(s, a, b) \in Seq(Chars)
    <3>1. a \in Int /\ b \in Int /\ \A i \in a..b : s[i] \in Chars
      BY <1>1
    <3> QED BY <3>1, SubSeqProperties
  <2> QED BY <1>3, <2>3, <2>4 DEF Recent!Trim, at
<1> QED BY <1>2, <1>3

LEMMA DestinationIsSeq ==
    ASSUME NEW s \in Seq(Chars)
    PROVE  Recent!parseDestination(s) \in Seq(Chars)
<1> DEFINE t == Recent!Trim(s)
        at == {i \in DOMAIN t : t[i] \in Recent!Ends}
<1>1. t \in Seq(Chars)
  BY TrimIsSeq
<1> HIDE DEF t
<1>2. CASE at = {} \/ t[1] \in Recent!Commands
  <2>1. Recent!Nothing \in Seq(Chars)
    BY DEF Recent!Nothing
  <2> QED BY <1>2, <2>1 DEF Recent!parseDestination, t
<1>3. CASE ~(at = {} \/ t[1] \in Recent!Commands)
  <2>1. Len(t) \in Nat /\ DOMAIN t = 1..Len(t) /\ \A i \in 1..Len(t) : t[i] \in Chars
    BY <1>1
  <2>2. at \subseteq 1..Len(t) /\ at \subseteq Nat
    BY <2>1
  <2> HIDE DEF at
  <2>3. Recent!Min(at) \in at
    BY <1>3, <2>2, MinOfNats
  <2>4. PICK a \in 1..Len(t) : a = Recent!Min(at)
    BY <2>2, <2>3
  <2>5. SubSeq(t, 1, a - 1) \in Seq(Chars)
    <3>1. 1 \in Int /\ a - 1 \in Int /\ \A i \in 1..(a - 1) : t[i] \in Chars
      BY <2>1
    <3> QED BY <3>1, SubSeqProperties
  <2>6. Recent!Trim(SubSeq(t, 1, a - 1)) \in Seq(Chars)
    BY <2>5, TrimIsSeq
  <2> QED BY <1>3, <2>4, <2>6 DEF Recent!parseDestination, t, at
<1> QED BY <1>2, <1>3

\* The ring as one push makes it: at most so long, the destination in front.
LEMMA PushTypes ==
    ASSUME Recent!DestinationsAssumption, RingTypes, NEW dest \in Seq(Chars), Recent!pushPastSend(dest)
    PROVE  /\ pastSends' \in Seq(Seq(Chars)) /\ log' \in Seq(Seq(Chars))
           /\ Recent!Without(pastSends, dest) \in Seq(Seq(Chars))
           /\ Len(pastSends') <= pastSendsMax /\ Len(pastSends') <= 1 + Len(Recent!Without(pastSends, dest))
           /\ \/ Len(pastSends') = pastSendsMax
              \/ Len(pastSends') = 1 + Len(Recent!Without(pastSends, dest))
           /\ Len(pastSends') \in Nat \ {0} /\ pastSends'[1] = dest
           /\ \A i \in 1..(Len(pastSends') - 1) : pastSends'[i + 1] = Recent!Without(pastSends, dest)[i]
           /\ log' = Append(log, dest)
<1> DEFINE rest == Recent!Without(pastSends, dest)
        all == <<dest>> \o rest
        n == Recent!Min({Len(all), pastSendsMax})
<1>1. rest \in Seq(Seq(Chars))
  BY WithoutIsSeq DEF RingTypes
<1>2. pastSends' = SubSeq(all, 1, n) /\ log' = Append(log, dest)
  BY DEF Recent!pushPastSend
<1> HIDE DEF rest
<1>3. /\ all \in Seq(Seq(Chars)) /\ Len(all) = 1 + Len(rest) /\ Len(rest) \in Nat /\ all[1] = dest
      /\ \A i \in 1..Len(rest) : all[i + 1] = rest[i]
  BY <1>1
<1> HIDE DEF all
<1>4. pastSendsMax \in Nat \ {0}
  BY DEF Recent!DestinationsAssumption
<1>5. n \in {Len(all), pastSendsMax} /\ n <= Len(all) /\ n <= pastSendsMax
  <2>1. {Len(all), pastSendsMax} \subseteq Nat /\ {Len(all), pastSendsMax} # {}
    BY <1>3, <1>4
  <2>2. Recent!Min({Len(all), pastSendsMax}) \in {Len(all), pastSendsMax}
    BY <2>1, MinOfNats
  <2>3. \A y \in {Len(all), pastSendsMax} : Recent!Min({Len(all), pastSendsMax}) <= y
    BY <2>1, MinOfNats
  <2> QED BY <2>2, <2>3
<1> HIDE DEF n
<1>6. n \in Nat \ {0} /\ n \in Int /\ 1 \in Int
  BY <1>3, <1>4, <1>5
<1>7. \A i \in 1..n : all[i] \in Seq(Chars)
  BY <1>3, <1>5, <1>6
<1>8. /\ SubSeq(all, 1, n) \in Seq(Seq(Chars)) /\ Len(SubSeq(all, 1, n)) = n
      /\ \A i \in 1..n : SubSeq(all, 1, n)[i] = all[i]
  <2>1. /\ SubSeq(all, 1, n) \in Seq(Seq(Chars)) /\ Len(SubSeq(all, 1, n)) = IF 1 <= n THEN n - 1 + 1 ELSE 0
        /\ \A i \in 1..(n - 1 + 1) : SubSeq(all, 1, n)[i] = all[1 + i - 1]
    BY <1>6, <1>7, SubSeqProperties
  <2> QED BY <1>6, <2>1
<1>9. /\ pastSends' \in Seq(Seq(Chars)) /\ Len(pastSends') = n
      /\ \A i \in 1..n : pastSends'[i] = all[i]
  BY <1>2, <1>8
<1>10. log' \in Seq(Seq(Chars))
  BY <1>2 DEF RingTypes
<1>11. \A i \in 1..(n - 1) : pastSends'[i + 1] = rest[i]
  <2>1. SUFFICES ASSUME NEW i \in 1..(n - 1) PROVE pastSends'[i + 1] = rest[i]
    OBVIOUS
  <2>2. i + 1 \in 1..n /\ i \in 1..Len(rest)
    BY <1>3, <1>5, <1>6
  <2> QED BY <1>3, <1>9, <2>2
<1>12. pastSends'[1] = dest
  BY <1>3, <1>6, <1>9
<1>13. n <= 1 + Len(rest) /\ (n = pastSendsMax \/ n = 1 + Len(rest))
  BY <1>3, <1>5
<1> QED BY <1>1, <1>2, <1>5, <1>6, <1>9, <1>10, <1>11, <1>12, <1>13 DEF rest

\* Cycled gives one of the ring: the one after base, or the first.
LEMMA CycledIsOne ==
    ASSUME RingTypes, pastSends # <<>>, NEW base
    PROVE  /\ \E k \in DOMAIN pastSends : Recent!Cycled(base) = pastSends[k]
           /\ Recent!Cycled(base) \in Seq(Chars)
           /\ \A i \in DOMAIN pastSends : pastSends[i] = base /\ Recent!IsInjective(pastSends) =>
                 Recent!Cycled(base) = pastSends[IF i = Len(pastSends) THEN 1 ELSE i + 1]
<1> DEFINE L == Len(pastSends)
        i == CHOOSE i \in DOMAIN pastSends : pastSends[i] = base
<1>1. L \in Nat \ {0} /\ DOMAIN pastSends = 1..L /\ 1 \in DOMAIN pastSends
  BY DEF RingTypes
<1>2. CASE \E k \in DOMAIN pastSends : pastSends[k] = base
  <2>1. i \in DOMAIN pastSends /\ pastSends[i] = base
    BY <1>2
  <2>2. Recent!Cycled(base) = pastSends[1 + (i % L)]
    BY <1>2 DEF Recent!Cycled
  <2> HIDE DEF i
  <2>3. i % L = IF i = L THEN 0 ELSE i
    <3> HIDE DEF L
    <3> QED BY <1>1, <2>1
  <2>4. 1 + (i % L) = (IF i = L THEN 1 ELSE i + 1) /\ 1 + (i % L) \in DOMAIN pastSends
    <3> HIDE DEF L
    <3> QED BY <1>1, <2>1, <2>3
  <2>5. Recent!Cycled(base) = pastSends[IF i = L THEN 1 ELSE i + 1]
    BY <2>2, <2>4
  <2>6. ASSUME NEW k \in DOMAIN pastSends, pastSends[k] = base, Recent!IsInjective(pastSends) PROVE k = i
    BY <2>1, <2>6 DEF Recent!IsInjective
  <2>7. Recent!Cycled(base) \in Seq(Chars)
    BY <2>2, <2>4 DEF RingTypes
  <2> QED BY <2>2, <2>4, <2>5, <2>6, <2>7
<1>3. CASE ~ \E k \in DOMAIN pastSends : pastSends[k] = base
  <2>1. Recent!Cycled(base) = pastSends[1]
    BY <1>3 DEF Recent!Cycled
  <2>2. pastSends[1] \in Seq(Chars)
    BY <1>1 DEF RingTypes
  <2> QED BY <1>1, <1>3, <2>1, <2>2
<1> QED BY <1>2, <1>3

-----------------------------------------------------------------------------
\* Where a destination was last used.
Use(l, d) == Recent!Max({0} \cup {i \in DOMAIN l : l[i] = d})

LEMMA UseIsLast ==
    ASSUME NEW S, NEW l \in Seq(S), NEW d
    PROVE  /\ Use(l, d) \in 0..Len(l)
           /\ Use(l, d) > 0 => l[Use(l, d)] = d
           /\ \A i \in DOMAIN l : l[i] = d => i <= Use(l, d)
<1> DEFINE U == {0} \cup {i \in DOMAIN l : l[i] = d}
<1>1. Len(l) \in Nat /\ DOMAIN l = 1..Len(l)
  OBVIOUS
<1>2. U \subseteq 0..Len(l) /\ U # {}
  BY <1>1
<1>3. Recent!Max(U) \in U /\ \A y \in U : Recent!Max(U) >= y
  <2> HIDE DEF U
  <2> QED BY <1>1, <1>2, MaxOfBounded
<1>4. Use(l, d) = Recent!Max(U)
  BY DEF Use
<1>5. PICK m \in U : m = Use(l, d) /\ \A y \in U : m >= y
  BY <1>3, <1>4
<1>6. m \in 0..Len(l) /\ (m > 0 => l[m] = d)
  BY <1>1
<1>7. \A i \in DOMAIN l : l[i] = d => i <= m
  BY <1>1, <1>5
<1> QED BY <1>5, <1>6, <1>7

LEMMA UseOfNext ==
    ASSUME NEW S, NEW l \in Seq(S), NEW e \in S, NEW d
    PROVE  Use(Append(l, e), d) = IF d = e THEN Len(l) + 1 ELSE Use(l, d)
<1> DEFINE m == Append(l, e)
<1>1. /\ m \in Seq(S) /\ Len(m) = Len(l) + 1 /\ m[Len(l) + 1] = e /\ Len(l) \in Nat
      /\ \A i \in 1..Len(l) : m[i] = l[i]
  OBVIOUS
<1> HIDE DEF m
<1>2. DOMAIN m = 1..(Len(l) + 1) /\ DOMAIN l = 1..Len(l)
  BY <1>1
<1>3. PICK u \in 0..Len(l) : /\ u = Use(l, d) /\ (u > 0 => l[u] = d)
                             /\ \A i \in DOMAIN l : l[i] = d => i <= u
  BY UseIsLast
<1>4. PICK v \in 0..(Len(l) + 1) : /\ v = Use(m, d) /\ (v > 0 => m[v] = d)
                                   /\ \A i \in DOMAIN m : m[i] = d => i <= v
  BY <1>1, UseIsLast
<1>5. CASE d = e
  <2>1. Len(l) + 1 <= v
    BY <1>1, <1>2, <1>4, <1>5
  <2> QED BY <1>1, <1>4, <1>5, <2>1 DEF m
<1>6. CASE d # e
  <2>1. u <= v
    <3>1. CASE u = 0
      BY <1>4, <3>1
    <3>2. CASE u > 0
      <4>1. u \in 1..Len(l) /\ l[u] = d
        BY <1>3, <3>2
      <4>2. u \in DOMAIN m /\ m[u] = d
        BY <1>1, <1>2, <4>1
      <4> QED BY <1>4, <4>2
    <3> QED BY <3>1, <3>2
  <2>2. v <= u
    <3>1. CASE v = 0
      BY <1>3, <3>1
    <3>2. CASE v > 0
      <4>1. v # Len(l) + 1
        BY <1>1, <1>4, <1>6, <3>2
      <4>2. v \in 1..Len(l)
        BY <1>1, <3>2, <4>1
      <4>3. l[v] = d
        BY <1>1, <1>4, <3>2, <4>2
      <4> QED BY <1>2, <1>3, <4>2, <4>3
    <3> QED BY <3>1, <3>2
  <2>3. u = v
    BY <2>1, <2>2
  <2> QED BY <1>3, <1>4, <1>6, <2>3 DEF m
<1> QED BY <1>5, <1>6

\* Where the ones that are left out of a ring without doubles stood in it.
LEMMA WithoutPlaces ==
    ASSUME NEW S, NEW p \in Seq(S), NEW x,
           \A i, k \in DOMAIN p : p[i] = p[k] => i = k
    PROVE  \E g \in [1..Len(Recent!Without(p, x)) -> DOMAIN p] :
              /\ \A i \in DOMAIN g : Recent!Without(p, x)[i] = p[g[i]] /\ p[g[i]] # x
              /\ \A i, k \in DOMAIN g : i < k => g[i] < g[k]
              /\ \A j \in DOMAIN p : p[j] # x => \E i \in DOMAIN g : g[i] = j
              /\ Len(Recent!Without(p, x)) >= Len(p) - 1
<1>1. Len(p) \in Nat /\ DOMAIN p = 1..Len(p)
  OBVIOUS
<1>2. CASE \A i \in DOMAIN p : p[i] # x
  <2> DEFINE W == Recent!Without(p, x)
  <2>1. W = p
    BY <1>2, WithoutNone
  <2> HIDE DEF W
  <2> DEFINE g == [i \in 1..Len(p) |-> i]
  <2>2. g \in [1..Len(p) -> DOMAIN p] /\ DOMAIN g = 1..Len(p) /\ \A i \in DOMAIN g : g[i] = i
    BY <1>1
  <2> HIDE DEF g
  <2>3. Len(W) >= Len(p) - 1 /\ g \in [1..Len(W) -> DOMAIN p]
    BY ONLY <1>1, <2>1, <2>2
  <2>4. \A i \in DOMAIN g : W[i] = p[g[i]] /\ p[g[i]] # x
    BY <1>1, <1>2, <2>1, <2>2
  <2>5. \A i, k \in DOMAIN g : i < k => g[i] < g[k]
    BY <2>2
  <2>6. \A j \in DOMAIN p : p[j] # x => \E i \in DOMAIN g : g[i] = j
    BY <1>1, <2>2
  <2> QED BY <2>3, <2>4, <2>5, <2>6 DEF W
<1>3. CASE \E k \in DOMAIN p : p[k] = x
  <2>1. PICK k \in DOMAIN p : p[k] = x
    BY <1>3
  <2>2. \A i \in DOMAIN p : p[i] = x => i = k
    BY <2>1
  <2> DEFINE W == Recent!Without(p, x)
  <2>3. Len(W) = Len(p) - 1 /\ \A i \in 1..(Len(p) - 1) : W[i] = p[IF i < k THEN i ELSE i + 1]
    BY <2>1, <2>2, WithoutOne
  <2> HIDE DEF W
  <2> DEFINE g == [i \in 1..(Len(p) - 1) |-> IF i < k THEN i ELSE i + 1]
  <2>4. g \in [1..(Len(p) - 1) -> DOMAIN p] /\ DOMAIN g = 1..(Len(p) - 1)
    BY <1>1
  <2>5. \A i \in DOMAIN g : g[i] = IF i < k THEN i ELSE i + 1
    OBVIOUS
  <2> HIDE DEF g
  <2>6. \A i \in DOMAIN g : W[i] = p[g[i]] /\ g[i] # k
    BY <1>1, <2>3, <2>4, <2>5
  <2>7. \A i \in DOMAIN g : p[g[i]] # x
    BY <2>2, <2>4, <2>6
  <2>8. \A i, m \in DOMAIN g : i < m => g[i] < g[m]
    BY <1>1, <2>4, <2>5
  <2>9. ASSUME NEW j \in DOMAIN p, p[j] # x PROVE \E i \in DOMAIN g : g[i] = j
    <3>1. j # k
      BY <2>1, <2>9
    <3>2. CASE j < k
      <4>1. j \in DOMAIN g /\ g[j] = j
        BY <1>1, <2>4, <2>5, <3>2
      <4> QED BY <4>1
    <3>3. CASE j > k
      <4>1. PICK i \in 1..(Len(p) - 1) : j = i + 1 /\ ~(i < k)
        <5>1. j \in Nat /\ k \in Nat /\ 1 <= k /\ k < j /\ j <= Len(p)
          BY <1>1, <3>3
        <5>2. j - 1 \in 1..(Len(p) - 1) /\ j = (j - 1) + 1 /\ ~(j - 1 < k)
          BY ONLY <1>1, <5>1
        <5> QED BY ONLY <5>2
      <4>2. i \in DOMAIN g /\ g[i] = j
        BY <2>4, <2>5, <4>1
      <4> QED BY <4>2
    <3> QED BY <1>1, <3>1, <3>2, <3>3
  <2>10. Len(W) >= Len(p) - 1 /\ g \in [1..Len(W) -> DOMAIN p]
    BY <1>1, <2>3, <2>4
  <2> QED BY <2>6, <2>7, <2>8, <2>9, <2>10 DEF W
<1> QED BY <1>2, <1>3

-----------------------------------------------------------------------------
\* The ring p after the uses l: the latest first, each once, and none later that
\* it leaves out.
UsedInOrder(p, l) ==
    \A i \in DOMAIN p : /\ Use(l, p[i]) > 0
                        /\ \A k \in DOMAIN p : i < k => Use(l, p[i]) > Use(l, p[k])
OthersAreOlder(p, l, max) ==
    \A n \in DOMAIN l :
        \/ \E i \in DOMAIN p : p[i] = l[n]
        \/ Len(p) = max /\ Use(l, l[n]) < Use(l, p[Len(p)])

\* What pushPastSend makes of a ring.
Pushed(q, p, x, max) ==
    /\ Len(q) \in Nat \ {0} /\ q[1] = x
    /\ Len(q) <= max /\ Len(q) <= 1 + Len(Recent!Without(p, x))
    /\ Len(q) = max \/ Len(q) = 1 + Len(Recent!Without(p, x))
    /\ \A i \in 1..(Len(q) - 1) : q[i + 1] = Recent!Without(p, x)[i]

LEMMA RingHasNoDoubles ==
    ASSUME NEW S, NEW p \in Seq(S), NEW l \in Seq(S), UsedInOrder(p, l)
    PROVE  \A i, k \in DOMAIN p : p[i] = p[k] => i = k
<1>1. SUFFICES ASSUME NEW i \in DOMAIN p, NEW k \in DOMAIN p, p[i] = p[k], i # k PROVE FALSE
  OBVIOUS
<1>2. i \in Nat /\ k \in Nat
  OBVIOUS
<1>3. Use(l, p[i]) \in Nat /\ Use(l, p[k]) \in Nat
  BY UseIsLast
<1>4. CASE i < k
  BY <1>1, <1>3, <1>4 DEF UsedInOrder
<1>5. CASE k < i
  BY <1>1, <1>3, <1>5 DEF UsedInOrder
<1> QED BY <1>1, <1>2, <1>4, <1>5

LEMMA PushKeepsOrder ==
    ASSUME NEW S, NEW p \in Seq(S), NEW l \in Seq(S), NEW x \in S, NEW q \in Seq(S),
           NEW max \in Nat \ {0}, Len(p) <= max,
           UsedInOrder(p, l), OthersAreOlder(p, l, max), Pushed(q, p, x, max)
    PROVE  UsedInOrder(q, Append(l, x)) /\ OthersAreOlder(q, Append(l, x), max)
<1> DEFINE W == Recent!Without(p, x)
        m == Append(l, x)
<1>1. PICK g \in [1..Len(W) -> DOMAIN p] :
          /\ \A i \in DOMAIN g : W[i] = p[g[i]] /\ p[g[i]] # x
          /\ \A i, k \in DOMAIN g : i < k => g[i] < g[k]
          /\ \A j \in DOMAIN p : p[j] # x => \E i \in DOMAIN g : g[i] = j
          /\ Len(W) >= Len(p) - 1
  <2>1. \A i, k \in DOMAIN p : p[i] = p[k] => i = k
    BY RingHasNoDoubles
  <2> QED BY ONLY <2>1, p \in Seq(S), WithoutPlaces DEF W
<1>2. W \in Seq(S) /\ Len(W) \in Nat
  BY WithoutIsSeq
<1> DEFINE N == Len(q)
<1>3. /\ N \in Nat \ {0} /\ DOMAIN q = 1..N
      /\ N <= max /\ N <= 1 + Len(W) /\ (N = max \/ N = 1 + Len(W))
  BY DEF Pushed
<1>31. \A i \in 1..(N - 1) : q[i + 1] = W[i]
  BY DEF Pushed
<1>32. q[1] = x
  BY DEF Pushed
<1>4. /\ Len(p) \in Nat /\ DOMAIN p = 1..Len(p) /\ Len(l) \in Nat /\ DOMAIN l = 1..Len(l)
      /\ m \in Seq(S) /\ DOMAIN m = 1..(Len(l) + 1) /\ m[Len(l) + 1] = x
      /\ \A n \in DOMAIN l : m[n] = l[n]
  OBVIOUS
<1>5. \A d : Use(m, d) = IF d = x THEN Len(l) + 1 ELSE Use(l, d)
  BY UseOfNext
<1>6. \A d : Use(l, d) \in Nat /\ Use(l, d) <= Len(l)
  BY UseIsLast
<1> HIDE DEF W, m, N
\* All but the first of the new ring were in the old one.
<1>7. \A k \in 2..N : /\ k - 1 \in DOMAIN g /\ q[k] = p[g[k - 1]]
                           /\ Use(m, q[k]) = Use(l, p[g[k - 1]])
  <2>1. SUFFICES ASSUME NEW k \in 2..N
                 PROVE  /\ k - 1 \in DOMAIN g /\ q[k] = p[g[k - 1]]
                        /\ Use(m, q[k]) = Use(l, p[g[k - 1]])
    OBVIOUS
  <2>2. PICK i \in 1..(N - 1) : i = k - 1 /\ i + 1 = k
    <3>1. k - 1 \in 1..(N - 1) /\ (k - 1) + 1 = k
      BY <1>3
    <3> QED BY ONLY <3>1
  <2>3. i \in DOMAIN g
    BY <1>2, <1>3
  <2>4. q[k] = W[i]
    BY <1>31, <2>2
  <2>5. W[i] = p[g[i]] /\ p[g[i]] # x
    BY <1>1, <2>3
  <2> QED BY <1>5, <2>2, <2>3, <2>4, <2>5
<1>8. Use(m, q[1]) = Len(l) + 1
  BY <1>32, <1>5
<1>9. UsedInOrder(q, m)
  <2>1. SUFFICES ASSUME NEW i \in 1..N
                 PROVE  /\ Use(m, q[i]) > 0
                        /\ \A k \in 1..N : i < k => Use(m, q[i]) > Use(m, q[k])
    BY <1>3 DEF UsedInOrder
  <2>2. CASE i = 1
    <3>1. ASSUME NEW k \in 1..N, i < k PROVE Use(m, q[i]) > Use(m, q[k])
      <4>1. k \in 2..N
        BY <1>3, <2>2, <3>1
      <4>2. Use(m, q[k]) = Use(l, p[g[k - 1]])
        BY <1>7, <4>1
      <4>3. Use(m, q[i]) = Len(l) + 1
        BY <1>8, <2>2
      <4>4. Use(l, p[g[k - 1]]) \in Nat /\ Use(l, p[g[k - 1]]) <= Len(l)
        BY <1>6
      <4> QED BY <1>4, <4>2, <4>3, <4>4
    <3>2. Use(m, q[i]) > 0
      BY <1>4, <1>8, <2>2
    <3> QED BY <3>1, <3>2
  <2>3. CASE i # 1
    <3>1. i \in 2..N
      BY <1>3, <2>3
    <3>2. i - 1 \in DOMAIN g /\ Use(m, q[i]) = Use(l, p[g[i - 1]])
      BY <1>7, <3>1
    <3>3. Use(m, q[i]) > 0
      BY <3>2 DEF UsedInOrder
    <3>4. ASSUME NEW k \in 1..N, i < k PROVE Use(m, q[i]) > Use(m, q[k])
      <4>1. k \in 2..N
        BY <1>3, <3>1, <3>4
      <4>2. k - 1 \in DOMAIN g /\ Use(m, q[k]) = Use(l, p[g[k - 1]])
        BY <1>7, <4>1
      <4>3. i - 1 < k - 1
        BY <3>1, <3>4, <4>1
      <4>4. g[i - 1] < g[k - 1] /\ g[i - 1] \in DOMAIN p /\ g[k - 1] \in DOMAIN p
        BY <1>1, <3>2, <4>2, <4>3
      <4>5. Use(l, p[g[i - 1]]) > Use(l, p[g[k - 1]])
        BY <4>4 DEF UsedInOrder
      <4> QED BY <3>2, <4>2, <4>5
    <3> QED BY <3>3, <3>4
  <2> QED BY <2>2, <2>3
<1>10. ASSUME NEW n \in DOMAIN m, \A i \in DOMAIN q : q[i] # m[n]
       PROVE  N = max /\ Use(m, m[n]) < Use(m, q[N])
  <2> DEFINE z == m[n]
  <2>1. z # x
    BY <1>3, <1>32, <1>10
  <2>2. n \in DOMAIN l /\ l[n] = z
    BY <1>4, <2>1
  <2>3. Use(m, z) = Use(l, z) /\ Use(l, z) \in Nat /\ Use(l, z) <= Len(l)
    BY <1>5, <1>6, <2>1
  <2> HIDE DEF z
  <2>4. CASE \E j \in DOMAIN p : p[j] = z
    <3>1. PICK j \in DOMAIN p : p[j] = z
      BY <2>4
    <3>2. PICK i \in DOMAIN g : g[i] = j
      BY <1>1, <2>1, <3>1
    <3>3. i \in 1..Len(W) /\ W[i] = z
      BY <1>1, <3>1, <3>2
    <3>4. N < 1 + i
      <4>1. SUFFICES ASSUME i \in 1..(N - 1) PROVE FALSE
        BY <1>3, <3>3
      <4>2. q[i + 1] = z /\ i + 1 \in DOMAIN q
        BY <1>3, <1>31, <3>3, <4>1
      <4> QED BY <1>10, <4>2 DEF z
    <3>5. N = max
      BY <1>2, <1>3, <3>3, <3>4
    <3>6. CASE N = 1
      BY <1>4, <1>8, <2>3, <3>5, <3>6 DEF z
    <3>7. CASE N # 1
      <4>1. N \in 2..N /\ N - 1 < i
        BY <1>3, <3>3, <3>4, <3>7
      <4>2. N - 1 \in DOMAIN g /\ Use(m, q[N]) = Use(l, p[g[N - 1]])
        BY <1>7, <4>1
      <4>3. g[N - 1] < g[i] /\ g[N - 1] \in DOMAIN p
        BY <1>1, <4>1, <4>2
      <4>4. Use(l, p[g[N - 1]]) > Use(l, p[j])
        BY <3>2, <4>3 DEF UsedInOrder
      <4>5. Use(l, p[g[N - 1]]) \in Nat
        BY <1>6
      <4> QED BY <2>3, <3>1, <3>5, <4>2, <4>4, <4>5 DEF z
    <3> QED BY <3>6, <3>7
  <2>5. CASE ~ \E j \in DOMAIN p : p[j] = z
    <3>1. Len(p) = max /\ Use(l, z) < Use(l, p[Len(p)])
      BY <2>2, <2>5 DEF OthersAreOlder
    <3>2. N = max
      BY <1>1, <1>2, <1>3, <1>4, <3>1
    <3>3. CASE N = 1
      BY <1>4, <1>8, <2>3, <3>2, <3>3 DEF z
    <3>4. CASE N # 1
      <4>1. N \in 2..N
        BY <1>3, <3>4
      <4>2. N - 1 \in DOMAIN g /\ Use(m, q[N]) = Use(l, p[g[N - 1]])
        BY <1>7, <4>1
      <4> DEFINE o == g[N - 1]
      <4>3. o \in DOMAIN p /\ Len(p) \in DOMAIN p
        <5>1. o \in DOMAIN p
          BY <4>2
        <5>2. Len(p) \in DOMAIN p
          BY <1>3, <1>4, <3>1, <3>2
        <5> QED BY <5>1, <5>2
      <4> HIDE DEF o
      <4>4. CASE o = Len(p)
        BY <2>3, <3>1, <3>2, <4>2, <4>4 DEF o, z
      <4>5. CASE o # Len(p)
        <5>1. o < Len(p)
          BY <1>4, <4>3, <4>5
        <5>2. Use(l, p[o]) > Use(l, p[Len(p)])
          BY <4>3, <5>1 DEF UsedInOrder
        <5>3. Use(l, p[o]) \in Nat /\ Use(l, p[Len(p)]) \in Nat
          BY <1>6
        <5> QED BY <2>3, <3>1, <3>2, <4>2, <5>2, <5>3 DEF o, z
      <4> QED BY <4>4, <4>5
    <3> QED BY <3>3, <3>4
  <2> QED BY <2>4, <2>5
<1>11. OthersAreOlder(q, m, max)
  BY <1>10 DEF OthersAreOlder, N
<1> QED BY <1>9, <1>11 DEF m

-----------------------------------------------------------------------------
\* What Tabs in a row have put in stands one after another in the ring, at most
\* once around, and the last of it is what is in front of the cursor.
Around(i) == IF i <= Len(pastSends) THEN i ELSE i - Len(pastSends)
TabInv ==
    tabbed # <<>> =>
        /\ Len(tabbed) <= Len(pastSends)
        /\ Recent!fore = Append(tabbed[Len(tabbed)], Recent!Semicolon)
        /\ \E f \in DOMAIN pastSends : \A m \in DOMAIN tabbed : tabbed[m] = pastSends[Around(f + m - 1)]
RingInv ==
    /\ Len(pastSends) <= pastSendsMax
    /\ UsedInOrder(pastSends, log) /\ OthersAreOlder(pastSends, log, pastSendsMax)
RecentInv == Types /\ RingInv /\ TabInv

LEMMA RecentInit == Recent!Init /\ Recent!DestinationsAssumption => RecentInv
<1> SUFFICES ASSUME Recent!Init, Recent!DestinationsAssumption PROVE RecentInv
  OBVIOUS
<1>1. /\ inputValue = <<>> /\ inputCursor = 0 /\ pastSends = <<>> /\ log = <<>> /\ tabbed = <<>>
      /\ expandSender = <<>> /\ expandRecips = <<>> /\ expandSendgroup = <<>>
  BY DEF Recent!Init, Recent!Nothing
<1>2. ASSUME NEW h \in Recent!Handles PROVE entities[h].name \in Seq(Chars)
  <2>1. PICK names \in [Recent!Handles -> UNION {Names[k] : k \in Recent!Handles}], away \in SUBSET Discs :
           /\ \A k \in Recent!Handles : names[k] \in Names[k]
           /\ entities = [k \in Recent!Handles |-> [name |-> names[k], valid |-> k \notin away]]
    BY DEF Recent!Init
  <2>2. entities[h].name = names[h] /\ names[h] \in Names[h]
    BY <2>1
  <2>3. names[h] \in Seq(STRING)
    BY <2>2 DEF Recent!DestinationsAssumption
  <2> QED BY <2>2, <2>3, StringsAreChars
<1>3. Types
  <2>1. <<>> \in Seq(Chars) /\ <<>> \in Seq(Seq(Chars)) /\ 0 \in 0..Len(<<>>)
    OBVIOUS
  <2> QED BY <1>1, <1>2, <2>1 DEF Types, EntityTypes, InputTypes, RecallTypes, RingTypes
<1>4. RingInv
  <2>1. DOMAIN pastSends = {} /\ DOMAIN log = {} /\ Len(pastSends) = 0
    BY <1>1
  <2> QED BY <2>1 DEF RingInv, UsedInOrder, OthersAreOlder, Recent!DestinationsAssumption
<1> QED BY <1>1, <1>3, <1>4 DEF RecentInv, TabInv

\* A key or a message that puts nothing in by Tab.
LEMMA QuietStep ==
    ASSUME RecentInv, tabbed' = <<>>, UNCHANGED <<entities, Recent!state, log>>, InputTypes'
    PROVE  RecentInv'
<1>1. UNCHANGED <<entities, expandSender, expandRecips, expandSendgroup, pastSends, log>>
  BY DEF Recent!state
<1>2. RingInv'
  BY <1>1 DEF RecentInv, RingInv
<1>3. <<>> \in Seq(Seq(Chars))
  OBVIOUS
<1>4. EntityTypes' /\ RecallTypes' /\ RingTypes'
  BY <1>1, <1>3 DEF RecentInv, Types, EntityTypes, RecallTypes, RingTypes
<1>5. TabInv'
  BY DEF TabInv
<1> QED BY <1>2, <1>4, <1>5 DEF RecentInv, Types

LEMMA HearStep ==
    ASSUME Recent!DestinationsAssumption, RecentInv, tabbed' = <<>>, UNCHANGED entities,
           InputTypes', RecallTypes', NEW dest \in Seq(Chars), Recent!pushPastSend(dest)
    PROVE  RecentInv'
<1>1. RingTypes /\ Len(pastSends) <= pastSendsMax
  BY DEF RecentInv, Types, RingInv
<1>2. /\ pastSends' \in Seq(Seq(Chars)) /\ log' \in Seq(Seq(Chars))
      /\ Len(pastSends') <= pastSendsMax
      /\ log' = Append(log, dest)
  BY <1>1, PushTypes
<1>3. Pushed(pastSends', pastSends, dest, pastSendsMax)
  BY <1>1, PushTypes DEF Pushed
<1>4. UsedInOrder(pastSends, log) /\ OthersAreOlder(pastSends, log, pastSendsMax)
  BY DEF RecentInv, RingInv
<1>5. pastSends \in Seq(Seq(Chars)) /\ log \in Seq(Seq(Chars)) /\ pastSendsMax \in Nat \ {0}
  BY <1>1 DEF RingTypes, Recent!DestinationsAssumption
<1>6. /\ UsedInOrder(pastSends', Append(log, dest))
      /\ OthersAreOlder(pastSends', Append(log, dest), pastSendsMax)
  BY <1>1, <1>2, <1>3, <1>4, <1>5, PushKeepsOrder
<1>7. RingInv'
  BY <1>2, <1>6 DEF RingInv
<1>8. <<>> \in Seq(Seq(Chars))
  OBVIOUS
<1>9. EntityTypes' /\ RingTypes'
  BY <1>2, <1>8 DEF RecentInv, Types, EntityTypes, RingTypes
<1>10. TabInv'
  BY DEF TabInv
<1> QED BY <1>7, <1>9, <1>10 DEF RecentInv, Types

-----------------------------------------------------------------------------
LEMMA StartOfConcat ==
    ASSUME NEW C, NEW a \in Seq(C), NEW b \in Seq(C)
    PROVE  SubSeq(a \o b, 1, Len(a)) = a
<1>1. /\ a \o b \in Seq(C) /\ Len(a) \in Nat /\ Len(a) \in Int /\ 1 \in Int
      /\ \A i \in 1..Len(a) : (a \o b)[i] = a[i]
  OBVIOUS
<1>2. \A i \in 1..Len(a) : (a \o b)[i] \in C
  BY <1>1
<1> DEFINE s == SubSeq(a \o b, 1, Len(a))
<1>3. /\ s \in Seq(C)
      /\ Len(s) = IF 1 <= Len(a) THEN Len(a) - 1 + 1 ELSE 0
      /\ \A i \in 1..(Len(a) - 1 + 1) : s[i] = (a \o b)[1 + i - 1]
  <2> HIDE DEF s
  <2> QED BY <1>1, <1>2, SubSeqProperties DEF s
<1>4. s \in Seq(C) /\ Len(s) = Len(a)
  <2> HIDE DEF s
  <2> QED BY <1>1, <1>3
<1>5. \A i \in 1..Len(a) : s[i] = a[i]
  <2>1. ASSUME NEW i \in 1..Len(a) PROVE s[i] = a[i]
    <3>1. i \in 1..(Len(a) - 1 + 1) /\ 1 + i - 1 = i
      OBVIOUS
    <3>2. s[i] = (a \o b)[1 + i - 1]
      <4> HIDE DEF s
      <4> QED BY <1>3, <3>1
    <3> HIDE DEF s
    <3> QED BY <1>1, <3>1, <3>2
  <2> HIDE DEF s
  <2> QED BY <2>1
<1> HIDE DEF s
<1>6. s = a
  BY <1>4, <1>5
<1> QED BY <1>6 DEF s

\* A Tab that puts in d, which stands in the ring where the cycle has come to.
LEMMA TabStep ==
    ASSUME RecentInv, UNCHANGED <<entities, Recent!state, log>>, pastSends # <<>>,
           NEW d \in Seq(Chars), NEW old \in Seq(Chars),
           Recent!Line(Append(d, Recent!Semicolon) \o old, Len(Append(d, Recent!Semicolon))),
           NEW now \in Seq(Seq(Chars)), tabbed' = Append(now, d),
           Len(now) < Len(pastSends),
           NEW f \in DOMAIN pastSends,
           \A m \in DOMAIN now : now[m] = pastSends[Around(f + m - 1)],
           d = pastSends[Around(f + Len(now))]
    PROVE  RecentInv'
<1> DEFINE full == Append(d, Recent!Semicolon)
<1>1. UNCHANGED <<entities, expandSender, expandRecips, expandSendgroup, pastSends, log>>
  BY DEF Recent!state
<1>2. RingInv'
  BY <1>1 DEF RecentInv, RingInv
<1>3. full \in Seq(Chars)
  BY CharsAreChars
<1>4. InputTypes'
  BY <1>3, LineTypes
<1>5. /\ tabbed' \in Seq(Seq(Chars)) /\ Len(tabbed') = Len(now) + 1 /\ Len(now) \in Nat
      /\ tabbed'[Len(now) + 1] = d /\ DOMAIN tabbed' = 1..(Len(now) + 1)
      /\ \A m \in 1..Len(now) : tabbed'[m] = now[m]
  OBVIOUS
<1>6. EntityTypes' /\ RecallTypes' /\ RingTypes'
  BY <1>1, <1>5 DEF RecentInv, Types, EntityTypes, RecallTypes, RingTypes
<1>7. Recent!fore' = full
  <2>1. inputValue' = full \o old /\ inputCursor' = Len(full)
    BY DEF Recent!Line
  <2>2. SubSeq(full \o old, 1, Len(full)) = full
    <3> HIDE DEF full
    <3> QED BY <1>3, StartOfConcat
  <2> QED BY <2>1, <2>2 DEF Recent!fore
<1>8. /\ Len(tabbed') <= Len(pastSends')
      /\ Recent!fore' = Append(tabbed'[Len(tabbed')], Recent!Semicolon)
  <2>1. Len(pastSends) \in Nat
    BY DEF RecentInv, Types, RingTypes
  <2>2. Len(tabbed') <= Len(pastSends')
    BY <1>1, <1>5, <2>1
  <2>3. tabbed'[Len(tabbed')] = d
    BY <1>5
  <2> QED BY <1>7, <2>2, <2>3
<1>9. \A i : Around(i)' = Around(i)
  BY <1>1 DEF Around
<1>10. ASSUME NEW m \in DOMAIN tabbed' PROVE tabbed'[m] = pastSends[Around(f + m - 1)]
  <2>0. m \in 1..(Len(now) + 1) /\ DOMAIN now = 1..Len(now) /\ f \in Nat
    <3>1. DOMAIN pastSends = 1..Len(pastSends)
      BY DEF RecentInv, Types, RingTypes
    <3> QED BY <1>5, <3>1
  <2>1. CASE m = Len(now) + 1
    <3>1. f + m - 1 = f + Len(now)
      BY <1>5, <2>0, <2>1
    <3>2. tabbed'[m] = d
      BY <1>5, <2>1
    <3>3. Around(f + m - 1) = Around(f + Len(now))
      BY <3>1
    <3> QED BY <3>2, <3>3
  <2>2. CASE m # Len(now) + 1
    <3>1. m \in 1..Len(now) /\ m \in DOMAIN now
      BY <1>5, <2>0, <2>2
    <3> QED BY <1>5, <3>1
  <2> QED BY <2>1, <2>2
<1>11. TabInv'
  <2>1. \E k \in DOMAIN pastSends' : \A m \in DOMAIN tabbed' :
            tabbed'[m] = pastSends'[Around(k + m - 1)']
    BY <1>1, <1>9, <1>10
  <2> QED BY <1>8, <2>1 DEF TabInv
<1> QED BY <1>2, <1>4, <1>6, <1>11 DEF RecentInv, Types

LEMMA AroundNext ==
    ASSUME NEW f \in 1..Len(pastSends), NEW n \in Nat, 1 <= n, n < Len(pastSends), Len(pastSends) \in Nat
    PROVE  /\ Around(f + n - 1) \in 1..Len(pastSends)
           /\ Around(f + n) = IF Around(f + n - 1) = Len(pastSends) THEN 1 ELSE Around(f + n - 1) + 1
<1> DEFINE L == Len(pastSends)
<1>1. CASE f + n - 1 < L
  BY <1>1 DEF Around
<1>2. CASE f + n - 1 = L
  BY <1>2 DEF Around
<1>3. CASE f + n - 1 > L
  BY <1>3 DEF Around
<1> QED BY <1>1, <1>2, <1>3

LEMMA CycleStep ==
    ASSUME RecentInv, Recent!Cycle, UNCHANGED <<entities, Recent!state, log>>
    PROVE  RecentInv'
<1> DEFINE d == Recent!Cycled(Recent!Front(Recent!fore))
        now == IF Len(tabbed) < Len(pastSends) THEN tabbed ELSE <<>>
<1>1. /\ inputCursor > 1 /\ pastSends # <<>>
      /\ Recent!Line(Append(d, Recent!Semicolon) \o Recent!aft, Len(Append(d, Recent!Semicolon)))
      /\ tabbed' = Append(now, d)
  BY DEF Recent!Cycle
<1>2. /\ RingTypes /\ InputTypes /\ pastSends \in Seq(Seq(Chars)) /\ tabbed \in Seq(Seq(Chars))
      /\ UsedInOrder(pastSends, log) /\ log \in Seq(Seq(Chars)) /\ TabInv
  BY DEF RecentInv, Types, RingTypes, RingInv
<1>3. Recent!fore \in Seq(Chars) /\ Recent!aft \in Seq(Chars)
  BY <1>2, PartsOfALine
<1>4. /\ d \in Seq(Chars)
      /\ \E k \in DOMAIN pastSends : d = pastSends[k]
      /\ \A i \in DOMAIN pastSends : pastSends[i] = Recent!Front(Recent!fore) /\ Recent!IsInjective(pastSends) =>
            d = pastSends[IF i = Len(pastSends) THEN 1 ELSE i + 1]
  BY <1>1, <1>2, CycledIsOne
<1> HIDE DEF d
<1>5. Len(pastSends) \in Nat \ {0} /\ DOMAIN pastSends = 1..Len(pastSends) /\ Len(tabbed) \in Nat
  BY <1>1, <1>2
<1>6. CASE tabbed = <<>> \/ ~(Len(tabbed) < Len(pastSends))
  <2>1. now = <<>> /\ <<>> \in Seq(Seq(Chars)) /\ Len(now) = 0 /\ DOMAIN now = {}
    BY <1>5, <1>6
  <2> HIDE DEF now
  <2>2. PICK k \in DOMAIN pastSends : d = pastSends[k]
    BY <1>4
  <2>3. k + Len(now) = k /\ k <= Len(pastSends) /\ Len(now) < Len(pastSends)
    BY <1>5, <2>1
  <2>4. d = pastSends[Around(k + Len(now))]
    BY <2>2, <2>3 DEF Around
  <2>5. \A m \in DOMAIN now : now[m] = pastSends[Around(k + m - 1)]
    BY <2>1
  <2> QED BY <1>1, <1>3, <1>4, <2>1, <2>3, <2>4, <2>5, TabStep
<1>7. CASE tabbed # <<>> /\ Len(tabbed) < Len(pastSends)
  <2>1. now = tabbed
    BY <1>7
  <2> HIDE DEF now
  <2> DEFINE n == Len(tabbed)
  <2>2. n \in Nat /\ 1 <= n /\ n < Len(pastSends) /\ n \in DOMAIN tabbed
    BY <1>2, <1>7
  <2>3. tabbed[n] \in Seq(Chars)
    BY <1>2, <2>2
  <2>4. Recent!fore = Append(tabbed[n], Recent!Semicolon)
    BY <1>2, <1>7 DEF TabInv
  <2>5. PICK f \in DOMAIN pastSends : \A m \in DOMAIN tabbed : tabbed[m] = pastSends[Around(f + m - 1)]
    BY <1>2, <1>7 DEF TabInv
  <2> HIDE DEF n
  <2>6. Recent!Front(Recent!fore) = tabbed[n]
    <3>1. ASSUME NEW s \in Seq(Chars), NEW c \in Chars PROVE Recent!Front(Append(s, c)) = s
      <4>1. /\ Append(s, c) = s \o <<c>> /\ <<c>> \in Seq(Chars) /\ Len(s) \in Nat
            /\ Len(Append(s, c)) - 1 = Len(s)
        OBVIOUS
      <4> QED BY <4>1, StartOfConcat DEF Recent!Front
    <3> QED BY <2>3, <2>4, <3>1, CharsAreChars
  <2>7. f \in 1..Len(pastSends)
    BY <1>5
  <2> DEFINE i == Around(f + n - 1)
  <2>8. i \in DOMAIN pastSends /\ Around(f + n) = IF i = Len(pastSends) THEN 1 ELSE i + 1
    BY <1>5, <2>2, <2>7, AroundNext
  <2>9. pastSends[i] = Recent!Front(Recent!fore)
    BY <2>2, <2>5, <2>6
  <2> HIDE DEF i
  <2>10. Recent!IsInjective(pastSends)
    BY <1>2, RingHasNoDoubles DEF Recent!IsInjective
  <2>11. d = pastSends[Around(f + n)]
    BY <1>4, <2>8, <2>9, <2>10
  <2> QED BY <1>1, <1>2, <1>3, <1>4, <2>1, <2>2, <2>5, <2>11, TabStep DEF n
<1> QED BY <1>6, <1>7

LEMMA RecallStep ==
    ASSUME RecentInv, Recent!Recall, UNCHANGED <<entities, Recent!state, log>>
    PROVE  RecentInv'
<1> DEFINE d == pastSends[1]
<1>1. /\ pastSends # <<>>
      /\ Recent!Line(Append(d, Recent!Semicolon) \o inputValue, Len(d) + 1)
      /\ tabbed' = <<d>>
  BY DEF Recent!Recall
<1>2. inputValue \in Seq(Chars) /\ pastSends \in Seq(Seq(Chars))
  BY DEF RecentInv, Types, RingTypes, InputTypes
<1>3. 1 \in DOMAIN pastSends /\ d \in Seq(Chars) /\ Len(pastSends) \in Nat \ {0}
  BY <1>1, <1>2
<1> HIDE DEF d
<1>4. Len(Append(d, Recent!Semicolon)) = Len(d) + 1
  BY <1>3, CharsAreChars
<1> DEFINE now == <<>>
<1>5. now \in Seq(Seq(Chars)) /\ Len(now) = 0 /\ DOMAIN now = {} /\ tabbed' = Append(now, d)
  BY <1>1, <1>3
<1> HIDE DEF now
<1>6. d = pastSends[Around(1 + Len(now))] /\ Len(now) < Len(pastSends)
  BY <1>3, <1>5 DEF Around, d
<1>7. Recent!Line(Append(d, Recent!Semicolon) \o inputValue, Len(Append(d, Recent!Semicolon)))
  BY <1>1, <1>4
<1>8. \A m \in DOMAIN now : now[m] = pastSends[Around(1 + m - 1)]
  BY <1>5
<1> QED BY <1>1, <1>2, <1>3, <1>5, <1>6, <1>7, <1>8, TabStep

LEMMA KeyStep ==
    ASSUME Recent!DestinationsAssumption, RecentInv, NEW key \in Recent!Keys, Recent!handleExpandKey(key)
    PROVE  RecentInv'
<1>1. tabbed' = <<>> /\ UNCHANGED <<entities, Recent!state, log>>
  BY DEF Recent!handleExpandKey
<1>2. /\ EntityTypes /\ InputTypes /\ inputValue \in Seq(Chars) /\ key \in Chars /\ Recent!Mark(key) \in Chars
      /\ Recent!fore \in Seq(Chars) /\ Recent!aft \in Seq(Chars)
  BY CharsAreChars, PartsOfALine DEF RecentInv, Types, InputTypes
<1>3. CASE inputCursor = 0 /\ Recent!Recalled(key) # Recent!Nothing
  <2> DEFINE insert == Append(Recent!Recalled(key), Recent!Mark(key))
  <2>1. Recent!Line(insert \o inputValue, Len(insert))
    BY <1>3 DEF Recent!handleExpandKey
  <2>2. Recent!Recalled(key) \in {expandSender, expandRecips, expandSendgroup, Recent!Nothing}
    BY Zenon DEF Recent!Recalled
  <2>3. Recent!Recalled(key) \in Seq(Chars)
    <3>1. Recent!Nothing \in Seq(Chars)
      BY DEF Recent!Nothing
    <3> QED BY <2>2, <3>1 DEF RecentInv, Types, RecallTypes
  <2>4. insert \in Seq(Chars)
    BY <1>2, <2>3
  <2> HIDE DEF insert
  <2>5. InputTypes'
    BY <1>2, <2>1, <2>4, LineTypes
  <2> QED BY <1>1, <2>5, QuietStep
<1>4. CASE ~(inputCursor = 0 /\ Recent!Recalled(key) # Recent!Nothing) /\ Recent!Literally(key)
  <2>1. Recent!Insert(<<key>>)
    BY <1>4 DEF Recent!handleExpandKey
  <2>2. <<key>> \in Seq(Chars)
    BY <1>2
  <2>3. InputTypes'
    BY <1>2, <2>1, <2>2, InsertTypes
  <2> QED BY <1>1, <2>3, QuietStep
<1>5. CASE ~(inputCursor = 0 /\ Recent!Recalled(key) # Recent!Nothing) /\ ~Recent!Literally(key)
  <2> DEFINE dests == Recent!Split(Recent!fore)
        new(answered) == Append(Recent!Join([i \in DOMAIN dests |-> Recent!expandName(dests[i], i \in answered)]), key)
  <2>1. PICK answered \in SUBSET DOMAIN dests : Recent!Line(new(answered) \o Recent!aft, Len(new(answered)))
    BY <1>5 DEF Recent!handleExpandKey
  <2>2. dests \in Seq(Seq(Chars))
    BY <1>2, SplitIsSeq
  <2> HIDE DEF dests
  <2> DEFINE all == [i \in DOMAIN dests |-> Recent!expandName(dests[i], i \in answered)]
  <2>3. all \in Seq(Seq(Chars))
    <3>1. Len(dests) \in Nat /\ DOMAIN dests = 1..Len(dests)
      BY <2>2
    <3>2. ASSUME NEW i \in 1..Len(dests) PROVE Recent!expandName(dests[i], i \in answered) \in Seq(Chars)
      BY <1>2, <2>2, ExpandNameIsSeq
    <3> QED BY <3>1, <3>2
  <2>4. Recent!Join(all) \in Seq(Chars)
    <3> HIDE DEF all
    <3> QED BY <2>3, CharsAreChars, JoinIsSeq
  <2>5. Append(Recent!Join(all), key) \in Seq(Chars)
    <3> HIDE DEF all
    <3> QED BY <1>2, <2>4
  <2>6. Recent!Line(Append(Recent!Join(all), key) \o Recent!aft, Len(Append(Recent!Join(all), key)))
    BY <2>1
  <2>7. InputTypes'
    <3> HIDE DEF all
    <3> QED BY <1>2, <2>5, <2>6, LineTypes
  <2> QED BY <1>1, <2>7, QuietStep
<1> QED BY <1>3, <1>4, <1>5

LEMMA CompleteNameStep ==
    ASSUME RecentInv, Recent!CompleteName, UNCHANGED <<entities, Recent!state, log>>
    PROVE  RecentInv'
<1> DEFINE dests == Recent!Split(Recent!fore)
        all(answered) == [dests EXCEPT ![Len(dests)] = Recent!expandName(dests[Len(dests)], answered)]
<1>1. tabbed' = <<>>
  BY DEF Recent!CompleteName
<1>2. PICK answered \in BOOLEAN : Recent!Line(Recent!Join(all(answered)) \o Recent!aft, Len(Recent!Join(all(answered))))
  BY DEF Recent!CompleteName
<1>3. EntityTypes /\ Recent!fore \in Seq(Chars) /\ Recent!aft \in Seq(Chars)
  BY PartsOfALine DEF RecentInv, Types
<1>4. dests \in Seq(Seq(Chars)) /\ dests # <<>>
  BY <1>3, SplitIsSeq
<1> HIDE DEF dests
<1>5. Len(dests) \in Nat \ {0} /\ dests[Len(dests)] \in Seq(Chars)
  BY <1>4
<1>6. Recent!expandName(dests[Len(dests)], answered) \in Seq(Chars)
  BY <1>3, <1>5, ExpandNameIsSeq
<1>7. all(answered) \in Seq(Seq(Chars))
  <2>1. ASSUME NEW e \in Seq(Chars) PROVE [dests EXCEPT ![Len(dests)] = e] \in Seq(Seq(Chars))
    BY <1>4, <1>5
  <2> QED BY <1>6, <2>1
<1> HIDE DEF all
<1>8. Recent!Join(all(answered)) \in Seq(Chars)
  BY <1>7, CharsAreChars, JoinIsSeq
<1>9. InputTypes'
  BY <1>2, <1>3, <1>8, LineTypes
<1> QED BY <1>1, <1>9, QuietStep

LEMMA CommandStep ==
    ASSUME RecentInv, Recent!tabCompleteCommand, UNCHANGED <<entities, Recent!state, log>>
    PROVE  RecentInv'
<1>1. tabbed' = <<>> /\ Len(Recent!fore) > 3
  BY DEF Recent!tabCompleteCommand
<1> DEFINE name == SubSeq(Recent!fore, 4, Len(Recent!fore))
        word == SubSeq(Recent!fore, 1, 3)
        new(answered) == word \o Recent!expandName(name, answered)
<1>2. PICK answered \in BOOLEAN : Recent!Line(new(answered), Len(new(answered)))
  BY DEF Recent!tabCompleteCommand
<1>3. EntityTypes /\ Recent!fore \in Seq(Chars)
  BY PartsOfALine DEF RecentInv, Types
<1>4. name \in Seq(Chars) /\ word \in Seq(Chars)
  BY <1>1, <1>3
<1> HIDE DEF name, word
<1>5. Recent!expandName(name, answered) \in Seq(Chars)
  BY <1>3, <1>4, ExpandNameIsSeq
<1>6. new(answered) \in Seq(Chars)
  BY <1>4, <1>5
<1>7. Len(new(answered)) \in 0..Len(new(answered))
  BY <1>6
<1>8. InputTypes'
  BY <1>2, <1>6, <1>7 DEF Recent!Line, InputTypes
<1> QED BY <1>1, <1>8, QuietStep

LEMMA SendStep ==
    ASSUME Recent!DestinationsAssumption, RecentInv, Recent!Enter
    PROVE  RecentInv'
<1> DEFINE dest == Recent!parseDestination(inputValue)
<1>1. tabbed' = <<>> /\ UNCHANGED entities /\ Recent!trackOutgoingSend /\ Recent!Line(<<>>, 0)
  BY DEF Recent!Enter
<1>2. InputTypes'
  <2>1. <<>> \in Seq(Chars) /\ 0 \in 0..Len(<<>>)
    OBVIOUS
  <2> QED BY <1>1, <2>1 DEF Recent!Line, InputTypes
<1>3. dest \in Seq(Chars) /\ RecallTypes
  BY DestinationIsSeq DEF RecentInv, Types, InputTypes
<1>4. CASE dest = Recent!Nothing
  <2>1. UNCHANGED <<entities, Recent!state, log>>
    BY <1>1, <1>4 DEF Recent!trackOutgoingSend, Recent!state
  <2> QED BY <1>1, <1>2, <2>1, QuietStep
<1>5. CASE dest # Recent!Nothing
  <2>1. expandRecips' = dest /\ Recent!pushPastSend(dest) /\ UNCHANGED <<expandSender, expandSendgroup>>
    BY <1>1, <1>5 DEF Recent!trackOutgoingSend
  <2> HIDE DEF dest
  <2>2. RecallTypes'
    BY <1>3, <2>1 DEF RecallTypes
  <2> QED BY <1>1, <1>2, <1>3, <2>1, <2>2, HearStep
<1> QED BY <1>4, <1>5

LEMMA MessageStep ==
    ASSUME Recent!DestinationsAssumption, RecentInv, NEW h \in Users, NEW recips \in Seq(Users), Recent!Hear(h, recips)
    PROVE  RecentInv'
<1> DEFINE Dest(k) == Recent!Underscored(entities[k].name)
        others == Recent!Without(recips, Me)
        names == [i \in DOMAIN others |-> Dest(others[i])]
<1>1. tabbed' = <<>> /\ UNCHANGED <<entities, Recent!input>> /\ Recent!trackIncomingPrivate(h, recips)
  BY DEF Recent!Hear
<1>2. InputTypes'
  BY <1>1 DEF Recent!input, RecentInv, Types, InputTypes
<1>3. EntityTypes /\ RecallTypes
  BY DEF RecentInv, Types
<1>4. \A k \in Users : Dest(k) \in Seq(Chars)
  BY <1>3, UnderscoredIsSeq DEF Recent!Handles
<1> HIDE DEF Dest
<1>5. others \in Seq(Users)
  BY WithoutIsSeq
<1> HIDE DEF others
<1>6. names \in Seq(Seq(Chars))
  <2>1. Len(others) \in Nat /\ DOMAIN others = 1..Len(others)
    BY <1>5
  <2>2. \A i \in 1..Len(others) : Dest(others[i]) \in Seq(Chars)
    BY <1>4, <1>5
  <2> QED BY <2>1, <2>2
<1>7. <<Dest(h)>> \o names \in Seq(Seq(Chars))
  <2> HIDE DEF names
  <2>1. <<Dest(h)>> \in Seq(Seq(Chars))
    BY <1>4
  <2> QED BY <1>6, <2>1
<1>8. Recent!Join(<<Dest(h)>> \o names) \in Seq(Chars)
  <2> HIDE DEF names
  <2> QED BY <1>7, CharsAreChars, JoinIsSeq
<1>9. /\ expandSender' = Dest(h) /\ Recent!pushPastSend(Dest(h)) /\ UNCHANGED expandRecips
      /\ expandSendgroup' = IF Len(recips) > 1 THEN Recent!Join(<<Dest(h)>> \o names) ELSE expandSendgroup
  BY <1>1 DEF Recent!trackIncomingPrivate, Dest, others
<1> HIDE DEF names
<1>10. RecallTypes'
  BY <1>3, <1>4, <1>8, <1>9 DEF RecallTypes
<1>11. Dest(h) \in Seq(Chars)
  BY <1>4
<1> QED BY <1>1, <1>2, <1>9, <1>10, <1>11, HearStep

LEMMA RecentNext ==
    ASSUME Recent!DestinationsAssumption, RecentInv, [Recent!Next]_(Recent!vars)
    PROVE  RecentInv'
<1>1. ASSUME NEW piece \in Pieces, Recent!Type(piece) PROVE RecentInv'
  <2>1. tabbed' = <<>> /\ UNCHANGED <<entities, Recent!state, log>> /\ Recent!Insert(piece)
    BY <1>1 DEF Recent!Type
  <2>2. piece \in Seq(Chars)
    BY StringsAreChars DEF Recent!DestinationsAssumption
  <2>3. InputTypes'
    BY <2>1, <2>2, InsertTypes DEF RecentInv, Types
  <2> QED BY <2>1, <2>3, QuietStep
<1>2. ASSUME Recent!tabComplete PROVE RecentInv'
  BY <1>2, RecallStep, CompleteNameStep, CycleStep, CommandStep DEF Recent!tabComplete
<1>3. ASSUME Recent!Home PROVE RecentInv'
  <2>1. tabbed' = <<>> /\ UNCHANGED <<entities, Recent!state, log>> /\ inputCursor' = 0 /\ inputValue' = inputValue
    BY <1>3 DEF Recent!Home
  <2>2. InputTypes'
    BY <2>1 DEF RecentInv, Types, InputTypes
  <2> QED BY <2>1, <2>2, QuietStep
<1>4. ASSUME NEW h \in Users \ {Me}, NEW recips, Recent!Hear(h, recips),
             recips = <<Me>> \/ \E k \in Users : recips = <<Me, k>>
      PROVE  RecentInv'
  <2>1. recips \in Seq(Users)
    <3>1. Me \in Users
      BY DEF Recent!DestinationsAssumption
    <3>2. CASE recips = <<Me>>
      BY <3>1, <3>2
    <3>3. CASE \E k \in Users : recips = <<Me, k>>
      BY <3>1, <3>3
    <3> QED BY <1>4, <3>2, <3>3
  <2> QED BY <1>4, <2>1, MessageStep
<1>5. CASE UNCHANGED Recent!vars
  <2>1. UNCHANGED <<entities, inputValue, inputCursor, expandSender, expandRecips, expandSendgroup,
                    pastSends, log, tabbed>>
    BY <1>5 DEF Recent!vars, Recent!input, Recent!state
  <2>2. Types'
    BY <2>1 DEF RecentInv, Types, EntityTypes, InputTypes, RecallTypes, RingTypes
  <2>3. RingInv' /\ TabInv'
    BY <2>1 DEF RecentInv, RingInv, TabInv, Around, Recent!fore
  <2> QED BY <2>2, <2>3 DEF RecentInv
<1>6. CASE Recent!Next
  <2>1. CASE \E h \in Users \ {Me} : Recent!Hear(h, <<Me>>) \/ \E k \in Users \ {h, Me} : Recent!Hear(h, <<Me, k>>)
    BY <1>4, <2>1
  <2>2. CASE \E key \in Recent!Keys : Recent!handleExpandKey(key)
    BY <2>2, KeyStep
  <2> QED BY <1>1, <1>2, <1>3, <1>6, <2>1, <2>2, SendStep DEF Recent!Next
<1> QED BY <1>5, <1>6

\* The recent destinations are the latest used or heard from, each once and the
\* latest first, and Tab after Tab offers each of them before one a second time
\* (expand.go pushPastSend, tabComplete).
LEMMA RecentIsEnough == RecentInv => Recent!RecentComeFirst
<1> SUFFICES ASSUME RecentInv PROVE Recent!RecentComeFirst
  OBVIOUS
<1>1. /\ pastSends \in Seq(Seq(Chars)) /\ log \in Seq(Seq(Chars)) /\ tabbed \in Seq(Seq(Chars))
      /\ UsedInOrder(pastSends, log) /\ OthersAreOlder(pastSends, log, pastSendsMax) /\ TabInv
  BY DEF RecentInv, Types, RingTypes, RingInv
<1>2. \A d : Recent!LastUse(d) = Use(log, d)
  BY DEF Recent!LastUse, Use
<1>3. \A i \in DOMAIN pastSends :
          /\ Recent!LastUse(pastSends[i]) > 0
          /\ \A k \in DOMAIN pastSends : i < k => Recent!LastUse(pastSends[i]) > Recent!LastUse(pastSends[k])
  BY <1>1, <1>2 DEF UsedInOrder
<1>4. ASSUME NEW n \in DOMAIN log, log[n] \notin Recent!ToSet(pastSends)
      PROVE  Len(pastSends) = pastSendsMax /\ Recent!LastUse(log[n]) < Recent!LastUse(Recent!Last(pastSends))
  <2>1. ~ \E i \in DOMAIN pastSends : pastSends[i] = log[n]
    BY <1>4 DEF Recent!ToSet
  <2>2. Len(pastSends) = pastSendsMax /\ Use(log, log[n]) < Use(log, pastSends[Len(pastSends)])
    BY <1>1, <2>1 DEF OthersAreOlder
  <2> QED BY <1>2, <2>2 DEF Recent!Last
<1>5. Recent!IsInjective(tabbed)
  <2>1. SUFFICES ASSUME NEW a \in DOMAIN tabbed, NEW b \in DOMAIN tabbed, tabbed[a] = tabbed[b], a # b
                 PROVE  FALSE
    BY DEF Recent!IsInjective
  <2>2. DOMAIN tabbed = 1..Len(tabbed) /\ Len(tabbed) \in Nat /\ tabbed # <<>>
    BY <1>1
  <2>3. Len(tabbed) <= Len(pastSends) /\ Len(pastSends) \in Nat /\ DOMAIN pastSends = 1..Len(pastSends)
    BY <1>1, <2>2 DEF TabInv
  <2>4. PICK f \in DOMAIN pastSends : \A m \in DOMAIN tabbed : tabbed[m] = pastSends[Around(f + m - 1)]
    BY <1>1, <2>2 DEF TabInv
  <2> DEFINE L == Len(pastSends)
  <2>5. a \in 1..L /\ b \in 1..L /\ f \in 1..L /\ L \in Nat
    BY <2>2, <2>3
  <2>6. Around(f + a - 1) \in 1..L /\ Around(f + b - 1) \in 1..L /\ Around(f + a - 1) # Around(f + b - 1)
    <3> HIDE DEF L
    <3>1. \A i : Around(i) = IF i <= L THEN i ELSE i - L
      BY DEF Around, L
    <3>2. Around(f + a - 1) \in 1..L
      BY ONLY <2>5, <3>1
    <3>3. Around(f + b - 1) \in 1..L
      BY ONLY <2>5, <3>1
    <3>4. Around(f + a - 1) # Around(f + b - 1)
      BY ONLY <2>1, <2>5, <3>1
    <3> QED BY <3>2, <3>3, <3>4
  <2>7. pastSends[Around(f + a - 1)] = pastSends[Around(f + b - 1)]
    BY <2>1, <2>4
  <2>8. \A i, k \in DOMAIN pastSends : pastSends[i] = pastSends[k] => i = k
    BY <1>1, RingHasNoDoubles
  <2> HIDE DEF L
  <2> QED BY <2>3, <2>6, <2>7, <2>8 DEF L
<1> QED BY <1>3, <1>4, <1>5 DEF Recent!RecentComeFirst

\* The destinations offered for a line are the latest used or heard from, each once
\* and the latest first, and Tab after Tab offers each of them, however lines are
\* sent, received, completed and recalled in between.  (expand.go pushPastSend)
THEOREM RecentComeFirstHolds ==
    Recent!DestinationsAssumption => (Recent!Spec => []RecentComeFirst)
<1> SUFFICES ASSUME Recent!DestinationsAssumption PROVE Recent!Spec => []RecentComeFirst
  OBVIOUS
<1>1. Recent!Init => RecentInv
  BY RecentInit
<1>2. RecentInv /\ [Recent!Next]_(Recent!vars) => RecentInv'
  BY RecentNext
<1> QED BY <1>1, <1>2, RecentIsEnough, PTL DEF Recent!Spec, RecentComeFirst
=============================================================================
