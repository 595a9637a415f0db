------------------------------ MODULE ChatPage ------------------------------
(***************************************************************************)
(* ChatPlaygroundPage ("chat"): the settings of a ChatBar (Chat.tla), and  *)
(* a Reset that replaces it by a fresh one through its key. A ChatBar that *)
(* is replaced aborts its stream; one that is still fetching goes on       *)
(* without a component.                                                    *)
(***************************************************************************)
EXTENDS TableProvider

CONSTANTS
    Tools,          \* tools of the agentic mode
    DefaultTools,   \* DEFAULT_ENABLED_TOOLS
    Iterations,     \* numbers a user may type
    MaxIterations   \* 20 in the page

ASSUME ChatAssumption == DefaultTools \subseteq Tools /\ Iterations \subseteq Nat

ChatDefaults == [agentic |-> FALSE, iterations |-> 5, tools |-> DefaultTools]
ChatInit == [set |-> ChatDefaults, key |-> 0, input |-> "", turns |-> <<>>]

Clamp(n) == IF n < 1 THEN 1 ELSE IF n > MaxIterations THEN MaxIterations ELSE n

ChatSetAgentic == User("chat") /\ Only([st EXCEPT !.set.agentic = ~@])
\* "parseInt(...) || 5", then the limits.
ChatSetIterations(n) ==
    /\ User("chat") /\ st.set.agentic
    /\ Only([st EXCEPT !.set.iterations = Clamp(IF n = 0 THEN 5 ELSE n)])
ChatToggleTool(t) ==
    /\ User("chat") /\ st.set.agentic
    /\ Only([st EXCEPT !.set.tools = IF t \in @ THEN @ \ {t} ELSE @ \cup {t}])

\* The tools and limits that are sent, for the table of the render: none outside the agentic mode.
ChatRequest ==
    [tools |-> IF st.set.agentic THEN <<st.set.tools, st.set.iterations>> ELSE <<>>,
     key |-> st.key, table |-> tab.table]

Streaming == \E i \in DOMAIN st.turns : st.turns[i].open
ChatEnabled == ~Streaming /\ tab.table # "" /\ tab.chatIndexes # <<>>

ChatType(t) == User("chat") /\ ChatEnabled /\ Only([st EXCEPT !.input = t])

\* The input is cleared and a turn opened.
ChatSend ==
    /\ User("chat") /\ ~Streaming /\ st.input # ""
    /\ Start("chat", ChatRequest)
    /\ st' = [st EXCEPT !.input = "",
                 !.turns = Append(@, [call |-> Len(calls) + 1, open |-> TRUE, text |-> 0])]
    /\ UNCHANGED tableVars

\* Call k is one of the ChatBar that is there.
Mine(k) == calls[k].of.key = st.key

\* updateTurn of the call's turn: its stream has ended, or text has come.
Closed(k) ==
    [st EXCEPT !.turns = [i \in DOMAIN @ |-> IF @[i].call = k THEN [@[i] EXCEPT !.open = FALSE] ELSE @[i]]]
Written(k) ==
    [st EXCEPT !.turns = [i \in DOMAIN @ |-> IF @[i].call = k THEN [@[i] EXCEPT !.text = k] ELSE @[i]]]

ChatChunk(k) ==
    /\ screen = "chat" /\ calls[k].got = <<>> /\ Mine(k)
    /\ calls[k].kind = "chat" /\ ~calls[k].done
    /\ calls' = [calls EXCEPT ![k].got = <<"chunk">>]
    /\ st' = Written(k)
    /\ Quiet /\ UNCHANGED tableVars

\* A last event, or an error.
ChatEnds(k) ==
    /\ screen = "chat" /\ Ends(k, "chat", calls[k].got)
    /\ st' = IF Mine(k) THEN Closed(k) ELSE st

\* The button of the input while a turn is streaming.
ChatAbort ==
    /\ User("chat") /\ Streaming
    /\ \E k \in Open("chat") :
          /\ Mine(k)
          /\ calls' = [calls EXCEPT ![k].done = TRUE]
          /\ st' = Closed(k)
    /\ UNCHANGED tableVars

\* handleReset: the settings, and a new ChatBar.
ChatReset ==
    /\ User("chat")
    /\ st' = [ChatInit EXCEPT !.key = st.key + 1]
    /\ calls' \in {calls, [k \in DOMAIN calls |-> [calls[k] EXCEPT !.done = TRUE]]}
    /\ UNCHANGED tableVars

ChatNext ==
    \/ ChatSetAgentic \/ ChatSend \/ ChatAbort \/ ChatReset
    \/ \E n \in Iterations : ChatSetIterations(n)
    \/ \E t \in Tools : ChatToggleTool(t)
    \/ \E t \in Words : ChatType(t)
    \/ \E k \in DOMAIN calls : ChatChunk(k) \/ ChatEnds(k)

=============================================================================
