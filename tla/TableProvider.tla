--------------------------- MODULE TableProvider ---------------------------
(***************************************************************************)
(* TableProvider (table-provider.tsx): the table and the embedding index   *)
(* that every Antfly page of Antfarm works on.                             *)
(***************************************************************************)
EXTENDS PageCalls

CONSTANTS
    TableLists,   \* lists of tables the server may answer
    IndexesOf,    \* the embedding indexes of each table
    ChatIndexesOf,\* its embedding and full-text indexes
    Words         \* texts a user may enter

AllTables == UNION {ToSet(ts) : ts \in TableLists}

ASSUME TableAssumption ==
    /\ TableLists \subseteq Seq(STRING)
    /\ \A t \in AllTables :
          /\ IndexesOf[t] \in Seq(STRING) /\ ChatIndexesOf[t] \in Seq(STRING)
          /\ ToSet(IndexesOf[t]) \subseteq ToSet(ChatIndexesOf[t])
    /\ "" \notin Words

VARIABLES
    tab,      \* TableProvider's state
    lists     \* the calls of indexes.list, in order; at most MaxCalls

tableVars == <<tab, lists>>
pageVars == <<st, calls>>
vars == <<screen, tab, lists, st, calls, events>>

-----------------------------------------------------------------------------
(* The table *)

\* overtaken (history): a list of indexes came after a later one.
NoTable == [tables |-> <<>>, asked |-> TRUE, table |-> "", indexes |-> <<>>,
            chatIndexes |-> <<>>, index |-> "", loading |-> FALSE, overtaken |-> FALSE]

\* The effect on [selectedTable]: the indexes of t are asked for.
FetchIndexes(tb, t) ==
    /\ Len(lists) < MaxCalls
    /\ tab' = [tb EXCEPT !.table = t, !.loading = TRUE]
    /\ lists' = Append(lists, [of |-> t, done |-> FALSE])

\* refreshTables, and the effect that selects the first table if none is.
TablesArrive(ts) ==
    /\ tab.asked
    /\ LET tb == [tab EXCEPT !.asked = FALSE, !.tables = ts]
       IN IF tab.table = "" /\ ts # <<>> THEN FetchIndexes(tb, Head(ts))
          ELSE tab' = tb /\ UNCHANGED lists
    /\ Quiet /\ UNCHANGED pageVars

TablesFail ==
    /\ tab.asked
    /\ tab' = [tab EXCEPT !.asked = FALSE, !.tables = <<>>]
    /\ Quiet /\ UNCHANGED <<lists, st, calls>>

\* The table of the sidebar; selecting the current one changes nothing.
SetSelectedTable(t) ==
    /\ User(screen)
    /\ t \in ToSet(tab.tables) /\ t # tab.table
    /\ FetchIndexes(tab, t)
    /\ UNCHANGED pageVars

\* Mutant of ListEnds: an index that was selected stays.
ListEndsKeepsIndex(k, idxs, chats) ==
    /\ ~lists[k].done
    /\ lists' = [lists EXCEPT ![k].done = TRUE]
    /\ tab' = [tab EXCEPT !.indexes = idxs, !.chatIndexes = chats, !.loading = FALSE,
                  !.index = IF idxs = <<>> \/ @ # "" THEN @ ELSE Head(idxs)]
    /\ Quiet /\ UNCHANGED pageVars

\* The answer to list k, whatever the table is by now, and its finally.
ListEnds(k, idxs, chats) ==
    /\ ~lists[k].done
    /\ lists' = [lists EXCEPT ![k].done = TRUE]
    /\ tab' = [tab EXCEPT !.indexes = idxs, !.chatIndexes = chats, !.loading = FALSE,
                  !.index = IF idxs = <<>> THEN "" ELSE Head(idxs),
                  !.overtaken = @ \/ \E j \in DOMAIN lists : j > k /\ lists[j].done]
    /\ Quiet /\ UNCHANGED pageVars

IndexesArrive(k) ==
    ~lists[k].done /\ ListEnds(k, IndexesOf[lists[k].of], ChatIndexesOf[lists[k].of])
IndexesFail(k) == ListEnds(k, <<>>, <<>>)

\* The Select of the index; a page that can also search by words offers "".
SetSelectedIndex(i) ==
    /\ User(screen)
    /\ \/ i \in ToSet(tab.indexes) /\ screen \in {"explore", "rerank"}
       \/ i = "" /\ screen = "rerank"
    /\ tab' = [tab EXCEPT !.index = i]
    /\ UNCHANGED <<lists, st, calls>>

-----------------------------------------------------------------------------
(* The calls of a page *)

\* Call k of a page ends with an answer.
Ends(k, kind, got) == CallEnds(k, kind, got) /\ UNCHANGED tableVars

\* A user event that only changes the page's own fields.
Only(s) == st' = s /\ UNCHANGED <<tab, lists, calls>>

TableNext ==
    \/ \E ts \in TableLists : TablesArrive(ts)
    \/ TablesFail
    \/ \E t \in AllTables : SetSelectedTable(t)
    \/ \E k \in DOMAIN lists : IndexesArrive(k) \/ IndexesFail(k)
    \/ \E i \in UNION {ToSet(IndexesOf[t]) : t \in AllTables} \cup {""} : SetSelectedIndex(i)

=============================================================================
