---- MODULE MCCallers ----
(* Callers on small instances.  part says which component runs; they do not interact. *)
EXTENDS Callers

SomeNames == [h \in {"#me", "#1", "#2", "-d"} |->
    CASE h = "#1" -> {<<"a">>} [] h = "#2" -> {<<"a", " ", "b">>} [] h = "#me" -> {<<"c">>}
      [] OTHER -> {<<"a">>, <<"b">>}]
SomePieces == {<<"b", ",", "a">>, <<"a">>, <<"-", "a">>, <<"/", "w", " ", "a">>}

VARIABLE part \* the component that runs

ASSUME Recent!DestinationsAssumption

RecentVars == <<entities, inputValue, inputCursor, expandSender, expandRecips,
                 expandSendgroup, pastSends, log, tabbed>>

RecentIsIdle == Recent!Init /\ entities["-d"] = [name |-> <<"a">>, valid |-> TRUE]

AllInit ==
    \/ part = "dialogue" /\ Init /\ RecentIsIdle
    \/ part = "destinations" /\ Recent!Init /\ Init

AllNext ==
    \/ part = "dialogue" /\ Next /\ UNCHANGED <<part, RecentVars>>
    \/ part = "destinations" /\ Recent!Next /\ UNCHANGED <<part, vars>>

AllVars == <<part, vars, RecentVars>>
AllSpec ==
    /\ AllInit
    /\ [][AllNext]_AllVars
    /\ \A s \in Stores : WF_vars(part = "dialogue" /\ Store(s))
    /\ \A t \in Typists : WF_vars(part = "dialogue" /\ ClearAndSend(t))
    /\ WF_vars(part = "dialogue" /\ FanOut)
====
