---------------------------- MODULE AntflyProofs ----------------------------
(***************************************************************************)
(* Proofs about the Antfly pages of Antfarm: what a page shows is of its   *)
(* latest list of indexes, search, text and chat, and eval runs and eval   *)
(* sets survive each other, for any tables, words, documents and numbers   *)
(* of calls.                                                               *)
(***************************************************************************)
EXTENDS AntflyPages, FiniteSetTheorems, WellFoundedInduction, TLAPS

-----------------------------------------------------------------------------
(* The inductive invariant: the table and the calls, for every page. *)

CallFields == {"kind", "of", "done", "got"}
CallsOk ==
    /\ \E S : calls \in Seq(S)
    /\ \A k \in DOMAIN calls : DOMAIN calls[k] = CallFields /\ calls[k].done \in BOOLEAN

TabFields == {"tables", "asked", "table", "indexes", "chatIndexes", "index",
              "loading", "overtaken"}
IsTab(tb) == DOMAIN tb = TabFields /\ tb.overtaken \in BOOLEAN
Entry == [of : AllTables, done : BOOLEAN]
Lists == Seq(Entry)

\* The table's list was asked for last; the indexes are its, once it is in.
TabInv ==
    /\ IsTab(tab) /\ lists \in Lists
    /\ tab.table # "" =>
          /\ Len(lists) > 0 /\ lists[Len(lists)].of = tab.table
          /\ ~tab.overtaken /\ lists[Len(lists)].done =>
                /\ tab.index \in ToSet(IndexesOf[tab.table]) \cup {""}
                /\ ToSet(tab.indexes) \subseteq ToSet(IndexesOf[tab.table])
                /\ ToSet(tab.chatIndexes) \subseteq ToSet(ChatIndexesOf[tab.table])

-----------------------------------------------------------------------------
(* Sequences and calls. *)

LEMMA ElementOf ==
    ASSUME NEW S, NEW s \in Seq(S)
    PROVE  Len(s) \in Nat /\ DOMAIN s = 1 .. Len(s) /\ \A k \in DOMAIN s : s[k] \in S
OBVIOUS

LEMMA ToSetIn ==
    ASSUME NEW S, NEW s \in Seq(S)
    PROVE  ToSet(s) \subseteq S
BY DEF ToSet

LEMMA HeadIn ==
    ASSUME NEW S, NEW s \in Seq(S), s # <<>>
    PROVE  Head(s) \in S /\ Head(s) \in ToSet(s)
BY DEF ToSet

LEMMA CallsRange == ASSUME CallsOk PROVE Len(calls) \in Nat /\ DOMAIN calls = 1 .. Len(calls)
BY DEF CallsOk

LEMMA StartFacts ==
    ASSUME CallsOk, NEW kind, NEW of, Start(kind, of)
    PROVE  /\ CallsOk'
           /\ Len(calls') = Len(calls) + 1 /\ DOMAIN calls' = 1 .. Len(calls) + 1
           /\ \A k \in DOMAIN calls : calls'[k] = calls[k]
           /\ calls'[Len(calls) + 1].kind = kind /\ calls'[Len(calls) + 1].of = of
           /\ ~calls'[Len(calls) + 1].done /\ calls'[Len(calls) + 1].got = <<>>
<1>1. PICK S : calls \in Seq(S)
  BY DEF CallsOk
<1> DEFINE c == Call(kind, of)
<1>2. DOMAIN c = CallFields /\ c.kind = kind /\ c.of = of /\ c.done = FALSE /\ c.got = <<>>
  BY DEF Call, CallFields
<1>3. calls' = Append(calls, c)
  BY DEF Start
<1> HIDE DEF c
<1>4. calls' \in Seq(S \cup {c})
  <2>1. calls \in Seq(S \cup {c}) /\ c \in S \cup {c}
    BY <1>1
  <2> QED BY <1>3, <2>1
<1>5. /\ Len(calls') = Len(calls) + 1 /\ DOMAIN calls' = 1 .. Len(calls) + 1
      /\ \A k \in DOMAIN calls : calls'[k] = calls[k]
      /\ calls'[Len(calls) + 1] = c /\ Len(calls) \in Nat /\ DOMAIN calls = 1 .. Len(calls)
  BY <1>1, <1>3
<1>6. \A k \in DOMAIN calls' : DOMAIN calls'[k] = CallFields /\ calls'[k].done \in BOOLEAN
  <2> SUFFICES ASSUME NEW k \in DOMAIN calls'
               PROVE  DOMAIN calls'[k] = CallFields /\ calls'[k].done \in BOOLEAN
    OBVIOUS
  <2>1. k \in DOMAIN calls \/ k = Len(calls) + 1
    BY <1>5
  <2> QED BY <1>2, <1>5, <2>1 DEF CallsOk
<1>7. CallsOk'
  BY <1>4, <1>6 DEF CallsOk
<1> QED BY <1>2, <1>5, <1>7

\* Call k is written over.
LEMMA WrittenFacts ==
    ASSUME CallsOk, NEW k \in DOMAIN calls, NEW c, DOMAIN c = CallFields, c.done \in BOOLEAN,
           calls' = [calls EXCEPT ![k] = c]
    PROVE  /\ CallsOk' /\ DOMAIN calls' = DOMAIN calls
           /\ calls'[k] = c /\ \A j \in DOMAIN calls : j # k => calls'[j] = calls[j]
<1>1. PICK S : calls \in Seq(S)
  BY DEF CallsOk
<1>2. calls' \in Seq(S \cup {c})
  <2>1. calls \in Seq(S \cup {c}) /\ c \in S \cup {c}
    BY <1>1
  <2> QED BY <2>1
<1>3. /\ DOMAIN calls' = DOMAIN calls
      /\ calls'[k] = c /\ \A j \in DOMAIN calls : j # k => calls'[j] = calls[j]
  BY <1>1
<1> QED BY <1>2, <1>3 DEF CallsOk

LEMMA EndsFacts ==
    ASSUME CallsOk, NEW k \in DOMAIN calls, NEW kind, NEW got, CallEnds(k, kind, got)
    PROVE  /\ CallsOk' /\ DOMAIN calls' = DOMAIN calls
           /\ calls[k].kind = kind /\ ~calls[k].done
           /\ calls'[k].done /\ calls'[k].kind = kind /\ calls'[k].of = calls[k].of
           /\ \A j \in DOMAIN calls : j # k => calls'[j] = calls[j]
<1> DEFINE c == [calls[k] EXCEPT !.done = TRUE, !.got = got]
<1>1. DOMAIN calls[k] = CallFields
  BY DEF CallsOk
<1>2. DOMAIN c = CallFields /\ c.done = TRUE /\ c.kind = calls[k].kind /\ c.of = calls[k].of
  BY <1>1 DEF CallFields
<1>3. calls' = [calls EXCEPT ![k] = c] /\ calls[k].kind = kind /\ ~calls[k].done
  BY DEF CallEnds
<1> HIDE DEF c
<1>4. c.done \in BOOLEAN
  BY <1>2
<1> QED BY <1>2, <1>3, <1>4, WrittenFacts
-----------------------------------------------------------------------------
(* The table and its indexes. *)

LEMMA TableNames == AllTables \subseteq STRING /\ \A t \in AllTables : IndexesOf[t] \in Seq(STRING)
<1>1. AllTables \subseteq STRING
  <2> SUFFICES ASSUME NEW ts \in TableLists PROVE ToSet(ts) \subseteq STRING
    BY DEF AllTables
  <2>1. ts \in Seq(STRING)
    BY TableAssumption
  <2> QED BY <2>1 DEF ToSet
<1> QED BY <1>1, TableAssumption

LEMMA TabFacts ==
    ASSUME TabInv
    PROVE  /\ IsTab(tab) /\ lists \in Lists
           /\ Len(lists) \in Nat /\ DOMAIN lists = 1 .. Len(lists)
           /\ \A k \in DOMAIN lists : lists[k] \in Entry /\ lists[k].of \in AllTables
<1>1. IsTab(tab) /\ lists \in Lists
  BY DEF TabInv
<1>2. /\ Len(lists) \in Nat /\ DOMAIN lists = 1 .. Len(lists)
      /\ \A k \in DOMAIN lists : lists[k] \in Entry
  BY <1>1, ElementOf, Zenon DEF Lists
<1>3. \A e \in Entry : e.of \in AllTables
  BY DEF Entry
<1> QED BY <1>1, <1>2, <1>3

LEMMA FetchIndexesInv ==
    ASSUME lists \in Lists, NEW tb, IsTab(tb), NEW t \in AllTables, FetchIndexes(tb, t)
    PROVE  TabInv'
<1> DEFINE l == [of |-> t, done |-> FALSE]
<1>1. lists' = Append(lists, l) /\ tab' = [tb EXCEPT !.table = t, !.loading = TRUE]
  BY DEF FetchIndexes
<1>2. IsTab(tab)' /\ tab'.table = t
  BY <1>1, TableNames DEF IsTab, TabFields
<1>3. l \in Entry /\ l.of = t /\ l.done = FALSE
  BY DEF Entry
<1> HIDE DEF l
<1>4. lists' \in Lists /\ Len(lists') > 0 /\ lists'[Len(lists')] = l
  BY <1>1, <1>3 DEF Lists
<1> QED BY <1>2, <1>3, <1>4 DEF TabInv

LEMMA TablesInv ==
    ASSUME TabInv, (\E ts \in TableLists : TablesArrive(ts)) \/ TablesFail
    PROVE  TabInv' /\ Quiet /\ UNCHANGED pageVars
<1>1. CASE TablesFail
  <2>1. tab' = [tab EXCEPT !.asked = FALSE, !.tables = <<>>] /\ UNCHANGED lists
    BY <1>1 DEF TablesFail
  <2>2. IsTab(tab)' /\ tab'.table = tab.table /\ tab'.index = tab.index
        /\ tab'.indexes = tab.indexes /\ tab'.chatIndexes = tab.chatIndexes
        /\ tab'.overtaken = tab.overtaken
    <3>1. IsTab(tab)
      BY TabFacts
    <3> QED BY <2>1, <3>1 DEF IsTab, TabFields
  <2>3. TabInv'
    BY <2>1, <2>2 DEF TabInv
  <2> QED BY <1>1, <2>3 DEF TablesFail, pageVars
<1>2. ASSUME NEW ts \in TableLists, TablesArrive(ts) PROVE TabInv' /\ Quiet /\ UNCHANGED pageVars
  <2> DEFINE tb == [tab EXCEPT !.asked = FALSE, !.tables = ts]
  <2>1. ts \in Seq(STRING)
    BY TableAssumption
  <2>2. IsTab(tb) /\ tb.table = tab.table /\ tb.index = tab.index
        /\ tb.indexes = tab.indexes /\ tb.chatIndexes = tab.chatIndexes
        /\ tb.overtaken = tab.overtaken
    BY <2>1, TabFacts DEF IsTab, TabFields
  <2>3. /\ \/ ts # <<>> /\ FetchIndexes(tb, Head(ts))
           \/ tab' = tb /\ UNCHANGED lists
        /\ Quiet /\ UNCHANGED pageVars
    BY <1>2 DEF TablesArrive
  <2> HIDE DEF tb
  <2>4. CASE ts # <<>> /\ FetchIndexes(tb, Head(ts))
    <3>1. Head(ts) \in AllTables
      BY <2>1, <2>4, HeadIn DEF AllTables
    <3> QED BY <2>2, <2>3, <2>4, <3>1, FetchIndexesInv, TabFacts
  <2>5. CASE tab' = tb /\ UNCHANGED lists
    <3>1. TabInv'
      BY <2>2, <2>5 DEF TabInv
    <3> QED BY <2>3, <3>1
  <2> QED BY <2>3, <2>4, <2>5
<1> QED BY <1>1, <1>2

LEMMA ListEndsInv ==
    ASSUME TabInv, NEW k \in DOMAIN lists, NEW idxs \in Seq(STRING), NEW chats,
           ToSet(idxs) \subseteq ToSet(IndexesOf[lists[k].of]),
           ToSet(chats) \subseteq ToSet(ChatIndexesOf[lists[k].of]), ListEnds(k, idxs, chats)
    PROVE  TabInv'
<1> DEFINE i == IF idxs = <<>> THEN "" ELSE Head(idxs)
           o == tab.overtaken \/ \E j \in DOMAIN lists : j > k /\ lists[j].done
           l == [lists[k] EXCEPT !.done = TRUE]
<1>1. /\ tab' = [tab EXCEPT !.indexes = idxs, !.chatIndexes = chats, !.loading = FALSE,
                          !.index = i, !.overtaken = o]
      /\ lists' = [lists EXCEPT ![k] = l]
  BY DEF ListEnds
<1>2. (i = "" \/ i \in ToSet(idxs)) /\ o \in BOOLEAN
  <2>1. idxs # <<>> => Head(idxs) \in STRING /\ Head(idxs) \in ToSet(idxs)
    BY HeadIn, Zenon
  <2>2. i = "" \/ i \in ToSet(idxs)
    <3>1. CASE idxs = <<>>
      BY <3>1
    <3>2. CASE idxs # <<>>
      <4>1. i = Head(idxs)
        BY <3>2
      <4> HIDE DEF i
      <4> QED BY <2>1, <3>2, <4>1, Zenon
    <3> QED BY <3>1, <3>2
  <2>3. o \in BOOLEAN
    BY TabFacts, Zenon DEF IsTab
  <2> QED BY <2>2, <2>3
<1>3. lists[k] \in Entry
  BY TabFacts
<1>4. l \in Entry /\ l.of = lists[k].of
  BY <1>3 DEF Entry
<1> HIDE DEF l, i
<1>5. /\ lists' \in Lists /\ Len(lists') = Len(lists)
      /\ lists'[k] = l /\ \A j \in DOMAIN lists : j # k => lists'[j] = lists[j]
  BY <1>1, <1>4, TabFacts DEF Lists
<1>6. ~o => ~tab.overtaken /\ \A j \in DOMAIN lists : j > k => ~lists[j].done
  OBVIOUS
<1> HIDE DEF o
<1>7. /\ IsTab(tab)' /\ tab'.table = tab.table /\ tab'.indexes = idxs /\ tab'.index = i
      /\ tab'.chatIndexes = chats /\ tab'.overtaken = o
  BY <1>1, <1>2, TabFacts DEF IsTab, TabFields
<1>8. SUFFICES ASSUME tab.table # ""
               PROVE  /\ lists'[Len(lists)].of = tab.table
                      /\ ~o /\ lists'[Len(lists)].done =>
                           /\ i \in ToSet(IndexesOf[tab.table]) \cup {""}
                           /\ ToSet(idxs) \subseteq ToSet(IndexesOf[tab.table])
                           /\ ToSet(chats) \subseteq ToSet(ChatIndexesOf[tab.table])
  BY <1>5, <1>7 DEF TabInv
<1>9. Len(lists) \in DOMAIN lists /\ lists[Len(lists)].of = tab.table
  <2>1. Len(lists) > 0 /\ lists[Len(lists)].of = tab.table
    BY <1>8 DEF TabInv
  <2>2. Len(lists) \in Nat /\ DOMAIN lists = 1 .. Len(lists)
    BY TabFacts
  <2> QED BY <2>1, <2>2
<1>10. CASE k = Len(lists)
  BY <1>2, <1>4, <1>5, <1>9, <1>10
<1>11. CASE k # Len(lists)
  <2>1. Len(lists) > k
    BY <1>11, TabFacts
  <2> QED BY <1>5, <1>6, <1>9, <1>11, <2>1
<1> QED BY <1>10, <1>11

LEMMA TableInv ==
    ASSUME TabInv, TableNext
    PROVE  TabInv' /\ UNCHANGED <<screen, st, calls>>
<1>1. CASE (\E ts \in TableLists : TablesArrive(ts)) \/ TablesFail
  BY <1>1, TablesInv DEF Quiet, pageVars
<1>2. ASSUME NEW t \in AllTables, SetSelectedTable(t)
      PROVE  TabInv' /\ UNCHANGED <<screen, st, calls>>
  <2>1. FetchIndexes(tab, t) /\ UNCHANGED pageVars /\ UNCHANGED screen
    BY <1>2 DEF SetSelectedTable, User
  <2> QED BY <2>1, FetchIndexesInv, TabFacts DEF pageVars
<1>3. ASSUME NEW k \in DOMAIN lists, IndexesArrive(k) \/ IndexesFail(k)
      PROVE  TabInv' /\ UNCHANGED <<screen, st, calls>>
  <2>1. PICK idxs, chats :
           /\ idxs \in Seq(STRING)
           /\ ListEnds(k, idxs, chats)
           /\ ToSet(idxs) \subseteq ToSet(IndexesOf[lists[k].of])
           /\ ToSet(chats) \subseteq ToSet(ChatIndexesOf[lists[k].of])
    <3>1. CASE IndexesArrive(k)
      <4>1. IndexesOf[lists[k].of] \in Seq(STRING)
        BY TabFacts, TableNames
      <4> QED BY <3>1, <4>1 DEF IndexesArrive
    <3>2. CASE IndexesFail(k)
      <4>1. <<>> \in Seq(STRING) /\ ToSet(<<>>) = {}
        BY DEF ToSet
      <4> QED BY <3>2, <4>1 DEF IndexesFail
    <3> QED BY <1>3, <3>1, <3>2
  <2>2. UNCHANGED <<screen, st, calls>>
    BY <2>1 DEF ListEnds, Quiet, pageVars
  <2> QED BY <2>1, <2>2, ListEndsInv
<1>4. ASSUME NEW i \in UNION {ToSet(IndexesOf[t]) : t \in AllTables} \cup {""}, SetSelectedIndex(i)
      PROVE  TabInv' /\ UNCHANGED <<screen, st, calls>>
  <2>1. /\ i \in ToSet(tab.indexes) \/ i = ""
        /\ tab' = [tab EXCEPT !.index = i] /\ UNCHANGED <<screen, lists, st, calls>>
    BY <1>4 DEF SetSelectedIndex, User
  <2>3. IsTab(tab)' /\ tab'.table = tab.table /\ tab'.index = i
        /\ tab'.indexes = tab.indexes /\ tab'.chatIndexes = tab.chatIndexes
        /\ tab'.overtaken = tab.overtaken
    BY <2>1, TabFacts DEF IsTab, TabFields
  <2> HIDE DEF SetSelectedIndex
  <2>4. TabInv'
    BY <2>1, <2>3 DEF TabInv
  <2> QED BY <2>1, <2>4
<1> QED BY <1>1, <1>2, <1>3, <1>4 DEF TableNext

LEMMA TabKept ==
    ASSUME TabInv, UNCHANGED tableVars
    PROVE  TabInv'
BY DEF TabInv, tableVars
-----------------------------------------------------------------------------
(* The search pages: while no call competes with another, a search that is  *)
(* open is the last one, and so is one whose hits are shown.                *)

Is(k, kind) == calls[k].kind = kind
IsOpen(k, kind) == calls[k].kind = kind /\ ~calls[k].done

InOrder ==
    /\ \A j, k \in DOMAIN calls : IsOpen(k, "search") /\ Is(j, "search") => j <= k
    /\ st.result # 0 =>
          /\ st.result \in DOMAIN calls /\ Is(st.result, "search") /\ calls[st.result].done
          /\ \A j \in DOMAIN calls : Is(j, "search") => j <= st.result

ExploreFields == {"query", "loading", "error", "result", "raw", "overlap"}
ExploreInv ==
    screen = "explore" =>
        DOMAIN st = ExploreFields /\ st.overlap \in BOOLEAN /\ (~st.overlap => InOrder)

RerankFields == {"query", "searching", "reranking", "error", "result", "reranked", "model",
                 "offered", "loaded", "overlap"}

\* A rerank that is open is one of the hits that are shown, if any are, and no
\* search is open beside it.
RerankOfHits ==
    /\ \A k \in DOMAIN calls : IsOpen(k, "rerank") =>
          /\ st.result # 0 => calls[k].of.search = st.result
          /\ \A j \in DOMAIN calls : ~IsOpen(j, "search")
    /\ st.reranked # 0 =>
          /\ st.reranked \in DOMAIN calls
          /\ st.result # 0 => calls[st.reranked].of.search = st.result
          /\ \A j \in DOMAIN calls : ~IsOpen(j, "search")

RerankInv ==
    screen = "rerank" =>
        /\ DOMAIN st = RerankFields /\ st.overlap \in BOOLEAN
        /\ ~st.overlap => InOrder /\ RerankOfHits

\* A search is started.
LEMMA SearchStarts ==
    ASSUME CallsOk, NEW of, Start("search", of), InOrder, Open("search") = {}, st'.result = 0
    PROVE  InOrder'
<1>1. /\ Len(calls) \in Nat /\ DOMAIN calls = 1 .. Len(calls)
      /\ DOMAIN calls' = 1 .. Len(calls) + 1
      /\ \A k \in DOMAIN calls : calls'[k] = calls[k]
  BY StartFacts, CallsRange
<1>2. \A k \in DOMAIN calls : ~IsOpen(k, "search")
  BY DEF Open, IsOpen
<1>3. ASSUME NEW j \in DOMAIN calls', NEW k \in DOMAIN calls',
             calls'[k].kind = "search", ~calls'[k].done
      PROVE  j <= k
  <2>1. k \notin DOMAIN calls
    BY <1>1, <1>2, <1>3 DEF IsOpen
  <2> QED BY <1>1, <2>1
<1> QED BY <1>3 DEF InOrder, IsOpen, Is

\* A search ends: its hits are shown, or it failed.
LEMMA SearchEnds ==
    ASSUME CallsOk, NEW k \in DOMAIN calls, NEW got, CallEnds(k, "search", got), InOrder,
           st'.result = k \/ st'.result = st.result
    PROVE  InOrder'
<1>1. /\ DOMAIN calls' = DOMAIN calls
      /\ calls[k].kind = "search" /\ ~calls[k].done /\ calls'[k].done /\ calls'[k].kind = "search"
      /\ \A j \in DOMAIN calls : j # k => calls'[j] = calls[j]
  BY EndsFacts
<1>2. \A j \in DOMAIN calls : /\ calls'[j].kind = calls[j].kind
                              /\ ~calls'[j].done => ~calls[j].done
  BY <1>1
<1>3. \A j \in DOMAIN calls : Is(j, "search") => j <= k
  BY <1>1 DEF InOrder, IsOpen
<1>4. \A i, j \in DOMAIN calls' : IsOpen(j, "search")' /\ Is(i, "search")' => i <= j
  BY <1>1, <1>2 DEF InOrder, IsOpen, Is
<1>5. CASE st'.result = k
  BY <1>1, <1>2, <1>3, <1>4, <1>5 DEF InOrder, Is
<1>6. CASE st'.result = st.result
  BY <1>1, <1>2, <1>4, <1>6 DEF InOrder, Is
<1> QED BY <1>5, <1>6

LEMMA InOrderKept ==
    ASSUME InOrder, UNCHANGED calls, st'.result = st.result \/ st'.result = 0
    PROVE  InOrder'
BY DEF InOrder, Is, IsOpen

LEMMA ExploreNextInv ==
    ASSUME CallsOk, ExploreInv, ExploreNext
    PROVE  CallsOk' /\ ExploreInv' /\ UNCHANGED <<screen, tab, lists>> /\ screen = "explore"
<1>1. CASE ExploreToggleRaw \/ ExploreReset \/ \E t \in Typed : ExploreSetQuery(t)
  <2>1. /\ screen = "explore" /\ UNCHANGED <<screen, calls, tab, lists>>
        /\ \/ \E t : st' = [st EXCEPT !.query = t]
           \/ st' = [st EXCEPT !.raw = ~@]
           \/ st' = [st EXCEPT !.query = "", !.result = 0, !.error = FALSE]
    BY <1>1 DEF ExploreToggleRaw, ExploreReset, ExploreSetQuery, User, Only
  <2>2. DOMAIN st = ExploreFields /\ st.overlap \in BOOLEAN
    BY <2>1 DEF ExploreInv
  <2>3. /\ DOMAIN st' = ExploreFields /\ st'.overlap = st.overlap
        /\ st'.result = st.result \/ st'.result = 0
    BY <2>1, <2>2 DEF ExploreFields
  <2>4. CallsOk'
    BY <2>1 DEF CallsOk
  <2> QED BY <2>1, <2>2, <2>3, <2>4, InOrderKept DEF ExploreInv
<1>2. ASSUME NEW enter \in BOOLEAN, ExploreSearch(enter)
      PROVE  CallsOk' /\ ExploreInv' /\ UNCHANGED <<screen, tab, lists>> /\ screen = "explore"
  <2> DEFINE c == [st EXCEPT !.loading = TRUE, !.result = 0]
             of == [query |-> st.query, table |-> tab.table, index |-> tab.index]
             o == c.overlap \/ Open("search") # {}
  <2>1. /\ screen = "explore" /\ UNCHANGED <<screen, tab, lists>>
        /\ \/ st' = [st EXCEPT !.error = TRUE] /\ UNCHANGED calls
           \/ Start("search", of) /\ st' = [c EXCEPT !.error = FALSE, !.overlap = o]
    BY <1>2 DEF ExploreSearch, Search, User, Only, tableVars
  <2> HIDE DEF of
  <2>2. DOMAIN st = ExploreFields /\ st.overlap \in BOOLEAN
    BY <2>1 DEF ExploreInv
  <2>3. CASE st' = [st EXCEPT !.error = TRUE] /\ UNCHANGED calls
    <3>1. /\ DOMAIN st' = ExploreFields /\ st'.overlap = st.overlap
          /\ st'.result = st.result
      BY <2>2, <2>3 DEF ExploreFields
    <3>2. CallsOk'
      BY <2>3 DEF CallsOk
    <3> QED BY <2>1, <2>2, <2>3, <3>1, <3>2, InOrderKept DEF ExploreInv
  <2>4. CASE Start("search", of) /\ st' = [c EXCEPT !.error = FALSE, !.overlap = o]
    <3>1. DOMAIN c = ExploreFields /\ c.overlap = st.overlap /\ c.result = 0
      BY <2>2 DEF ExploreFields
    <3> HIDE DEF c
    <3>2. o \in BOOLEAN /\ (~o => ~st.overlap /\ Open("search") = {})
      BY <2>2, <3>1
    <3> HIDE DEF o
    <3>3. DOMAIN st' = ExploreFields /\ st'.overlap = o /\ st'.result = 0
      BY <2>4, <3>1 DEF ExploreFields
    <3>4. CallsOk'
      BY <2>4, StartFacts
    <3>5. ~o => InOrder'
      BY <2>1, <2>4, <3>2, <3>3, SearchStarts DEF ExploreInv
    <3> QED BY <2>1, <3>2, <3>3, <3>4, <3>5 DEF ExploreInv
  <2> QED BY <2>1, <2>3, <2>4
<1>3. ASSUME NEW k \in DOMAIN calls, ExploreSettles(k) \/ ExploreFails(k)
      PROVE  CallsOk' /\ ExploreInv' /\ UNCHANGED <<screen, tab, lists>> /\ screen = "explore"
  <2>1. PICK got : CallEnds(k, "search", got)
    BY <1>3 DEF ExploreSettles, ExploreFails, Ends
  <2>2. /\ screen = "explore" /\ UNCHANGED <<screen, tab, lists>>
        /\ \/ st' = [st EXCEPT !.result = k, !.loading = FALSE]
           \/ st' = [st EXCEPT !.error = TRUE, !.loading = FALSE]
    BY <1>3 DEF ExploreSettles, ExploreFails, Ends, CallEnds, Quiet, tableVars
  <2>3. DOMAIN st = ExploreFields /\ st.overlap \in BOOLEAN
    BY <2>2 DEF ExploreInv
  <2>4. /\ DOMAIN st' = ExploreFields /\ st'.overlap = st.overlap
        /\ st'.result = k \/ st'.result = st.result
    BY <2>2, <2>3 DEF ExploreFields
  <2>5. CallsOk'
    BY <2>1, EndsFacts
  <2>6. ~st.overlap => InOrder'
    BY <2>1, <2>2, <2>4, SearchEnds DEF ExploreInv
  <2> QED BY <2>2, <2>3, <2>4, <2>5, <2>6 DEF ExploreInv
<1> QED BY <1>1, <1>2, <1>3 DEF ExploreNext
LEMMA RerankOfHitsKept ==
    ASSUME RerankOfHits, UNCHANGED calls,
           \/ st'.result = st.result /\ st'.reranked = st.reranked
           \/ st'.result = 0 /\ st'.reranked = 0
    PROVE  RerankOfHits'
BY DEF RerankOfHits, IsOpen

\* A search is started while no call is open: it has no hits yet.
LEMMA RerankSearchInv ==
    ASSUME CallsOk, RerankInv, NEW enter \in BOOLEAN, RerankSearch(enter)
    PROVE  CallsOk' /\ RerankInv' /\ UNCHANGED <<screen, tab, lists>> /\ screen = "rerank"
<1> DEFINE p == st.overlap \/ Open("rerank") # {}
           c == [st EXCEPT !.searching = TRUE, !.result = 0, !.reranked = 0, !.overlap = p]
           of == [query |-> st.query, table |-> tab.table, index |-> tab.index]
           o == c.overlap \/ Open("search") # {}
<1>1. /\ screen = "rerank" /\ UNCHANGED <<screen, tab, lists>>
      /\ \/ st' = [st EXCEPT !.error = TRUE] /\ UNCHANGED calls
         \/ Start("search", of) /\ st' = [c EXCEPT !.error = FALSE, !.overlap = o]
  BY DEF RerankSearch, Search, User, Only, tableVars
<1> HIDE DEF of
<1>2. DOMAIN st = RerankFields /\ st.overlap \in BOOLEAN
  BY <1>1 DEF RerankInv
<1>3. CASE st' = [st EXCEPT !.error = TRUE] /\ UNCHANGED calls
  <2>1. /\ DOMAIN st' = RerankFields /\ st'.overlap = st.overlap
        /\ st'.result = st.result /\ st'.reranked = st.reranked
    BY <1>2, <1>3 DEF RerankFields
  <2>2. CallsOk'
    BY <1>3 DEF CallsOk
  <2> QED BY <1>1, <1>2, <1>3, <2>1, <2>2, InOrderKept, RerankOfHitsKept DEF RerankInv
<1>4. CASE Start("search", of) /\ st' = [c EXCEPT !.error = FALSE, !.overlap = o]
  <2>1. p \in BOOLEAN /\ (~p => ~st.overlap /\ Open("rerank") = {})
    BY <1>2
  <2> HIDE DEF p
  <2>2. DOMAIN c = RerankFields /\ c.overlap = p /\ c.result = 0 /\ c.reranked = 0
    BY <1>2 DEF RerankFields
  <2> HIDE DEF c
  <2>3. o \in BOOLEAN /\ (~o => ~st.overlap /\ Open("rerank") = {} /\ Open("search") = {})
    BY <2>1, <2>2
  <2> HIDE DEF o
  <2>4. DOMAIN st' = RerankFields /\ st'.overlap = o /\ st'.result = 0 /\ st'.reranked = 0
    BY <1>4, <2>2 DEF RerankFields
  <2>5. CallsOk'
    BY <1>4, StartFacts
  <2>6. ~o => InOrder'
    BY <1>1, <1>4, <2>3, <2>4, SearchStarts DEF RerankInv
  <2>7. ASSUME ~o PROVE RerankOfHits'
    <3>1. /\ DOMAIN calls' = 1 .. Len(calls) + 1 /\ DOMAIN calls = 1 .. Len(calls)
          /\ Len(calls) \in Nat
          /\ \A k \in DOMAIN calls : calls'[k] = calls[k]
          /\ calls'[Len(calls) + 1].kind = "search"
      BY <1>4, StartFacts, CallsRange
    <3>2. \A k \in DOMAIN calls : ~(calls[k].kind = "rerank" /\ ~calls[k].done)
      BY <2>3, <2>7 DEF Open
    <3>3. \A k \in DOMAIN calls' : ~IsOpen(k, "rerank")'
      BY <3>1, <3>2 DEF IsOpen
    <3> QED BY <2>4, <3>3 DEF RerankOfHits
  <2> QED BY <1>1, <2>3, <2>4, <2>5, <2>6, <2>7 DEF RerankInv
<1> QED BY <1>1, <1>3, <1>4

\* A call ends, a search or a rerank.
LEMMA RerankEndsInv ==
    ASSUME CallsOk, RerankInv, NEW k \in DOMAIN calls,
           RerankSettles(k) \/ RerankFails(k) \/ HandleReranked(k)
    PROVE  CallsOk' /\ RerankInv' /\ UNCHANGED <<screen, tab, lists>> /\ screen = "rerank"
<1>1. screen = "rerank"
  BY DEF RerankSettles, RerankFails, HandleReranked
<1>2. DOMAIN st = RerankFields /\ st.overlap \in BOOLEAN
  BY <1>1 DEF RerankInv
<1>3. CASE \E got : CallEnds(k, "search", got) /\ UNCHANGED tableVars
                     /\ \/ st' = [st EXCEPT !.result = k, !.searching = FALSE]
                        \/ st' = [st EXCEPT !.error = TRUE, !.searching = FALSE]
  <2>1. PICK got : CallEnds(k, "search", got)
    BY <1>3
  <2>2. /\ DOMAIN st' = RerankFields /\ st'.overlap = st.overlap /\ st'.reranked = st.reranked
        /\ st'.result = k \/ st'.result = st.result
    BY <1>2, <1>3 DEF RerankFields
  <2>3. CallsOk' /\ UNCHANGED <<screen, tab, lists>>
    BY <1>3, <2>1, EndsFacts DEF CallEnds, Quiet, tableVars
  <2>4. ~st.overlap => InOrder'
    BY <1>1, <2>1, <2>2, SearchEnds DEF RerankInv
  <2>5. ASSUME ~st.overlap PROVE RerankOfHits'
    <3>1. /\ DOMAIN calls' = DOMAIN calls /\ calls[k].kind = "search" /\ ~calls[k].done
          /\ calls'[k].done /\ \A j \in DOMAIN calls : j # k => calls'[j] = calls[j]
      BY <2>1, EndsFacts
    <3>2. RerankOfHits /\ IsOpen(k, "search")
      BY <1>1, <2>5, <3>1 DEF RerankInv, IsOpen
    <3>3. (\A j \in DOMAIN calls : ~IsOpen(j, "rerank")) /\ st.reranked = 0
      BY <3>2 DEF RerankOfHits
    <3>4. \A j \in DOMAIN calls' : ~IsOpen(j, "rerank")'
      BY <3>1, <3>3 DEF IsOpen
    <3> QED BY <2>2, <3>3, <3>4 DEF RerankOfHits
  <2> QED BY <1>1, <1>2, <2>2, <2>3, <2>4, <2>5 DEF RerankInv
<1>4. CASE \E got : CallEnds(k, "rerank", got) /\ UNCHANGED tableVars
                     /\ \/ st' = [st EXCEPT !.reranked = k, !.reranking = FALSE]
                        \/ st' = [st EXCEPT !.error = TRUE, !.reranking = FALSE]
  <2>1. PICK got : CallEnds(k, "rerank", got)
    BY <1>4
  <2>2. /\ DOMAIN st' = RerankFields /\ st'.overlap = st.overlap /\ st'.result = st.result
        /\ st'.reranked = k \/ st'.reranked = st.reranked
    BY <1>2, <1>4 DEF RerankFields
  <2>3. CallsOk' /\ UNCHANGED <<screen, tab, lists>>
    BY <1>4, <2>1, EndsFacts DEF CallEnds, Quiet, tableVars
  <2>4. /\ DOMAIN calls' = DOMAIN calls /\ calls[k].kind = "rerank" /\ ~calls[k].done
        /\ calls'[k].done /\ calls'[k].kind = "rerank" /\ calls'[k].of = calls[k].of
        /\ \A j \in DOMAIN calls : j # k => calls'[j] = calls[j]
    BY <2>1, EndsFacts
  <2>5. \A j \in DOMAIN calls : /\ calls'[j].kind = calls[j].kind /\ calls'[j].of = calls[j].of
                                /\ calls[j].done => calls'[j].done
    BY <2>4
  <2>6. ASSUME ~st.overlap PROVE InOrder' /\ RerankOfHits'
    <3>1. InOrder /\ RerankOfHits /\ IsOpen(k, "rerank")
      BY <1>1, <2>4, <2>6 DEF RerankInv, IsOpen
    <3>2. InOrder'
      BY <2>2, <2>4, <2>5, <3>1 DEF InOrder, Is, IsOpen
    <3>3. \A j \in DOMAIN calls' : ~IsOpen(j, "search")'
      BY <2>4, <2>5, <3>1 DEF RerankOfHits, IsOpen
    <3>4. \A j \in DOMAIN calls' : IsOpen(j, "rerank")' => (st'.result # 0 => calls'[j].of.search = st'.result)
      BY <2>2, <2>4, <2>5, <3>1 DEF RerankOfHits, IsOpen
    <3>5. st'.reranked # 0 => /\ st'.reranked \in DOMAIN calls
                              /\ st.result # 0 => calls[st'.reranked].of.search = st.result
      BY <2>2, <3>1 DEF RerankOfHits
    <3> QED BY <2>2, <2>4, <2>5, <3>2, <3>3, <3>4, <3>5 DEF RerankOfHits
  <2> QED BY <1>1, <1>2, <2>2, <2>3, <2>6 DEF RerankInv
<1>5. \/ \E got : CallEnds(k, "search", got) /\ UNCHANGED tableVars
                     /\ \/ st' = [st EXCEPT !.result = k, !.searching = FALSE]
                        \/ st' = [st EXCEPT !.error = TRUE, !.searching = FALSE]
      \/ \E got : CallEnds(k, "rerank", got) /\ UNCHANGED tableVars
                     /\ \/ st' = [st EXCEPT !.reranked = k, !.reranking = FALSE]
                        \/ st' = [st EXCEPT !.error = TRUE, !.reranking = FALSE]
  BY DEF RerankSettles, RerankFails, HandleReranked, Ends
<1> QED BY <1>3, <1>4, <1>5

\* The hits that are shown are sent to the reranker.
LEMMA HandleRerankInv ==
    ASSUME CallsOk, RerankInv, HandleRerank
    PROVE  CallsOk' /\ RerankInv' /\ UNCHANGED <<screen, tab, lists>> /\ screen = "rerank"
<1> DEFINE of == [search |-> st.result]
           n == Len(calls) + 1
<1>1. /\ screen = "rerank" /\ UNCHANGED <<screen, tab, lists>>
      /\ Start("rerank", of) /\ st' = [st EXCEPT !.reranking = TRUE, !.error = FALSE, !.reranked = 0]
      /\ st.result # 0
  BY DEF HandleRerank, User, tableVars
<1>2. of.search = st.result
  OBVIOUS
<1> HIDE DEF of
<1>3. DOMAIN st = RerankFields /\ st.overlap \in BOOLEAN
  BY <1>1 DEF RerankInv
<1>4. /\ DOMAIN st' = RerankFields /\ st'.overlap = st.overlap
      /\ st'.result = st.result /\ st'.reranked = 0
  BY <1>1, <1>3 DEF RerankFields
<1>5. /\ CallsOk' /\ DOMAIN calls' = 1 .. n /\ DOMAIN calls = 1 .. Len(calls) /\ Len(calls) \in Nat
      /\ \A k \in DOMAIN calls : calls'[k] = calls[k]
      /\ calls'[n].kind = "rerank" /\ calls'[n].of = of
  BY <1>1, StartFacts, CallsRange
<1>6. \A k \in DOMAIN calls' : k \in DOMAIN calls \/ k = n
  BY <1>5
<1>7. DOMAIN calls \subseteq DOMAIN calls'
  BY <1>5
<1> HIDE DEF n
<1>8. ASSUME ~st.overlap PROVE InOrder' /\ RerankOfHits'
  <2>1. InOrder /\ RerankOfHits
    BY <1>1, <1>8 DEF RerankInv
  <2>2. \A k \in DOMAIN calls : ~IsOpen(k, "search")
    <3> SUFFICES ASSUME NEW k \in DOMAIN calls, IsOpen(k, "search") PROVE FALSE
      OBVIOUS
    <3>1. Is(k, "search") /\ st.result \in DOMAIN calls /\ calls[st.result].done
          /\ Is(st.result, "search")
      BY <1>1, <2>1 DEF InOrder, IsOpen, Is
    <3>2. k <= st.result /\ st.result <= k
      BY <1>1, <2>1, <3>1 DEF InOrder
    <3>3. k = st.result
      BY <1>5, <3>1, <3>2
    <3> QED BY <3>1, <3>3 DEF IsOpen
  <2>3. \A k \in DOMAIN calls' : ~IsOpen(k, "search")'
    BY <1>5, <1>6, <2>2 DEF IsOpen
  <2>4. \A j \in DOMAIN calls' : Is(j, "search")' => j <= st.result
    BY <1>1, <1>5, <1>6, <2>1 DEF InOrder, Is
  <2>5. InOrder'
    BY <1>1, <1>4, <1>5, <1>7, <2>1, <2>3, <2>4 DEF InOrder, Is
  <2>6. \A k \in DOMAIN calls' : IsOpen(k, "rerank")' => calls'[k].of.search = st.result
    BY <1>1, <1>2, <1>5, <1>6, <2>1 DEF RerankOfHits, IsOpen
  <2> QED BY <1>4, <2>3, <2>5, <2>6 DEF RerankOfHits
<1> QED BY <1>1, <1>3, <1>4, <1>5, <1>8 DEF RerankInv

LEMMA RerankNextInv ==
    ASSUME CallsOk, RerankInv, RerankNext
    PROVE  CallsOk' /\ RerankInv' /\ UNCHANGED <<screen, tab, lists>> /\ screen = "rerank"
<1>1. CASE \/ \E ms \in Rerankers : RerankModels(ms)
           \/ \E m : RerankSetModel(m)
           \/ \E t \in Typed : RerankSetQuery(t)
           \/ RerankReset
  <2>1. /\ screen = "rerank" /\ UNCHANGED <<screen, calls, tab, lists>>
        /\ \/ \E ms, m : st' = [st EXCEPT !.loaded = TRUE, !.offered = ms, !.model = m]
           \/ \E m : st' = [st EXCEPT !.model = m]
           \/ \E t : st' = [st EXCEPT !.query = t]
           \/ st' = [st EXCEPT !.query = "", !.result = 0, !.reranked = 0, !.error = FALSE]
    BY <1>1 DEF RerankModels, RerankSetModel, RerankSetQuery, RerankReset, User, Only, Quiet
  <2>2. DOMAIN st = RerankFields /\ st.overlap \in BOOLEAN
    BY <2>1 DEF RerankInv
  <2>3. /\ DOMAIN st' = RerankFields /\ st'.overlap = st.overlap
        /\ \/ st'.result = st.result /\ st'.reranked = st.reranked
           \/ st'.result = 0 /\ st'.reranked = 0
    BY <2>1, <2>2 DEF RerankFields
  <2>4. CallsOk'
    BY <2>1 DEF CallsOk
  <2> QED BY <2>1, <2>2, <2>3, <2>4, InOrderKept, RerankOfHitsKept DEF RerankInv
<1>2. CASE \E enter \in BOOLEAN : RerankSearch(enter)
  BY <1>2, RerankSearchInv
<1>3. CASE HandleRerank
  BY <1>3, HandleRerankInv
<1>4. CASE \E k \in DOMAIN calls : RerankSettles(k) \/ RerankFails(k) \/ HandleReranked(k)
  BY <1>4, RerankEndsInv
<1> QED BY <1>1, <1>2, <1>3, <1>4 DEF RerankNext
-----------------------------------------------------------------------------
(* The chunking page: until the text is edited, the run that is open and the *)
(* one that is shown are of the text in the input.                           *)

DocFields == {"text", "docId", "source", "query", "config", "hits", "searching", "fetching",
              "loading", "error", "result", "edited"}
ChunkInv ==
    screen = "chunk" =>
        /\ DOMAIN st = DocFields /\ st.edited \in BOOLEAN
        /\ \A j, k \in DOMAIN calls : IsOpen(j, "chunk") /\ IsOpen(k, "chunk") => j = k
        /\ \A k \in DOMAIN calls : IsOpen(k, "chunk") => st.loading
        /\ ~st.edited =>
              /\ \A k \in DOMAIN calls : IsOpen(k, "chunk") => calls[k].of.text = st.text
              /\ st.result # 0 => st.result \in DOMAIN calls /\ calls[st.result].of.text = st.text

\* The calls of runs go on as they were.
RunsKept ==
    /\ \A k \in DOMAIN calls : k \in DOMAIN calls' /\ calls'[k].of = calls[k].of
    /\ \A k \in DOMAIN calls' : IsOpen(k, "chunk")' => k \in DOMAIN calls /\ IsOpen(k, "chunk")

LEMMA ChunkKept ==
    ASSUME ChunkInv, screen = "chunk", UNCHANGED screen, RunsKept,
           DOMAIN st' = DocFields, st'.loading = st.loading, st'.edited \in BOOLEAN,
           st'.result = st.result \/ st'.result = 0,
           ~st'.edited => /\ ~st.edited
                          /\ st'.text = st.text \/ (st'.result = 0 /\ Open("chunk") = {})
    PROVE  ChunkInv'
<1>1. /\ \A j, k \in DOMAIN calls' : IsOpen(j, "chunk")' /\ IsOpen(k, "chunk")' => j = k
      /\ \A k \in DOMAIN calls' : IsOpen(k, "chunk")' => st'.loading
  BY DEF ChunkInv, RunsKept
<1>2. ASSUME ~st'.edited
      PROVE  /\ \A k \in DOMAIN calls' : IsOpen(k, "chunk")' => calls'[k].of.text = st'.text
             /\ st'.result # 0 => st'.result \in DOMAIN calls' /\ calls'[st'.result].of.text = st'.text
  <2>1. CASE st'.text = st.text
    BY <1>2, <2>1 DEF ChunkInv, RunsKept
  <2>2. CASE st'.result = 0 /\ Open("chunk") = {}
    <3>1. \A k \in DOMAIN calls : ~IsOpen(k, "chunk")
      BY <2>2 DEF Open, IsOpen
    <3> QED BY <2>2, <3>1 DEF RunsKept
  <2> QED BY <1>2, <2>1, <2>2
<1> QED BY <1>1, <1>2 DEF ChunkInv

LEMMA RunsKeptBy ==
    ASSUME CallsOk,
           \/ UNCHANGED calls
           \/ \E kind, of : Start(kind, of) /\ kind # "chunk"
           \/ \E k \in DOMAIN calls : \E kind, got : CallEnds(k, kind, got)
    PROVE  RunsKept /\ CallsOk'
<1>1. CASE UNCHANGED calls
  BY <1>1 DEF RunsKept, IsOpen, CallsOk
<1>2. ASSUME NEW kind, NEW of, Start(kind, of), kind # "chunk" PROVE RunsKept /\ CallsOk'
  <2>1. /\ CallsOk' /\ DOMAIN calls' = 1 .. Len(calls) + 1 /\ DOMAIN calls = 1 .. Len(calls)
        /\ Len(calls) \in Nat /\ calls'[Len(calls) + 1].kind = kind
        /\ \A k \in DOMAIN calls : calls'[k] = calls[k]
    BY <1>2, StartFacts, CallsRange
  <2>2. \A k \in DOMAIN calls' : k \in DOMAIN calls \/ k = Len(calls) + 1
    BY <2>1
  <2> QED BY <1>2, <2>1, <2>2 DEF RunsKept, IsOpen
<1>3. ASSUME NEW k \in DOMAIN calls, NEW kind, NEW got, CallEnds(k, kind, got)
      PROVE  RunsKept /\ CallsOk'
  <2>1. /\ CallsOk' /\ DOMAIN calls' = DOMAIN calls /\ calls'[k].done /\ calls'[k].of = calls[k].of
        /\ \A j \in DOMAIN calls : j # k => calls'[j] = calls[j]
    BY <1>3, EndsFacts
  <2> QED BY <2>1 DEF RunsKept, IsOpen
<1> QED BY <1>1, <1>2, <1>3

\* A step that leaves the text, the result and the button alone.
OtherField ==
    \/ \E q : st' = [st EXCEPT !.query = q]
    \/ \E d : st' = [st EXCEPT !.docId = d]
    \/ \E s : st' = [st EXCEPT !.source = s]
    \/ \E c : st' = [st EXCEPT !.config = c]
    \/ \E h : st' = [st EXCEPT !.hits = h, !.searching = FALSE]
    \/ st' = [st EXCEPT !.searching = TRUE, !.error = FALSE]
    \/ st' = [st EXCEPT !.fetching = TRUE, !.error = FALSE]
    \/ st' = [st EXCEPT !.error = TRUE, !.searching = FALSE]
    \/ st' = [st EXCEPT !.error = TRUE, !.fetching = FALSE]

\* A text that is replaced takes the result with it, or counts as edited.
TextKept ==
    /\ DOMAIN st' = DocFields /\ st'.loading = st.loading /\ st'.edited \in BOOLEAN
    /\ st'.result = st.result \/ st'.result = 0
    /\ ~st'.edited => /\ ~st.edited
                      /\ st'.text = st.text \/ (st'.result = 0 /\ Open("chunk") = {})

LEMMA EditFacts ==
    ASSUME NEW s, DOMAIN s = DocFields, s.edited \in BOOLEAN, NEW t
    PROVE  LET e == Edit(s, t)
           IN /\ DOMAIN e = DocFields /\ e.loading = s.loading /\ e.result = s.result /\ e.text = t
              /\ e.edited \in BOOLEAN
              /\ ~e.edited => ~s.edited /\ (t = s.text \/ (s.result = 0 /\ Open("chunk") = {}))
<1> DEFINE x == s.edited \/ (t # s.text /\ (s.result # 0 \/ Open("chunk") # {}))
<1>1. x \in BOOLEAN
  BY Zenon
<1>2. ~x => ~s.edited /\ (t = s.text \/ (s.result = 0 /\ Open("chunk") = {}))
  OBVIOUS
<1>3. Edit(s, t) = [s EXCEPT !.text = t, !.edited = x]
  BY DEF Edit
<1> HIDE DEF x
<1> QED BY <1>1, <1>2, <1>3 DEF DocFields

\* Events and answers that are not about a run.
LEMMA DocStepInv ==
    ASSUME CallsOk, ChunkInv,
           \/ \E t \in Words : DocSetText(t) \/ DocSetQuery(t)
           \/ \E d \in Docs : DocSetId(d) \/ HandleFetchDocument(d)
           \/ \E s \in {"table", "manual"} : DocSetSource(s)
           \/ \E m \in {"fixed", "semantic"} : DocSetModel(m)
           \/ \E n \in {0, 100} : DocSetTarget(n)
           \/ \E enter \in BOOLEAN : HandleSearchDocuments(enter)
           \/ DocReset
           \/ \E k \in DOMAIN calls : DocsFound(k) \/ DocumentLoaded(k)
           \/ \E k \in DOMAIN calls : \E kind \in {"docs", "doc"} :
                 Ends(k, kind, <<>>) /\ screen = "chunk"
                 /\ \/ st' = [st EXCEPT !.error = TRUE, !.searching = FALSE]
                    \/ st' = [st EXCEPT !.error = TRUE, !.fetching = FALSE]
    PROVE  CallsOk' /\ ChunkInv' /\ UNCHANGED <<screen, tab, lists>> /\ screen = "chunk"
<1>1. screen = "chunk" /\ UNCHANGED <<screen, tab, lists>>
  BY Zenon DEF DocSetText, DocSetQuery, DocSetId, HandleFetchDocument, DocSetSource, DocSetModel,
               DocSetTarget, HandleSearchDocuments, DocReset, DocsFound, DocumentLoaded, Ends,
               CallEnds, User, Only, Quiet, tableVars
<1>2. DOMAIN st = DocFields /\ st.edited \in BOOLEAN
  BY <1>1 DEF ChunkInv
<1>3. \/ UNCHANGED calls
      \/ \E kind, of : Start(kind, of) /\ kind # "chunk"
      \/ \E k \in DOMAIN calls : \E kind, got : CallEnds(k, kind, got)
  <2>1. CASE \/ \E enter \in BOOLEAN : HandleSearchDocuments(enter)
             \/ \E d \in Docs : HandleFetchDocument(d)
    <3>1. (\E of : Start("docs", of)) \/ (\E of : Start("doc", of))
      BY <2>1, Zenon DEF HandleSearchDocuments, HandleFetchDocument
    <3>2. \E kind, of : Start(kind, of) /\ kind # "chunk"
      <4>1. "docs" # "chunk" /\ "doc" # "chunk"
        OBVIOUS
      <4> QED BY <3>1, <4>1, Zenon
    <3> QED BY <3>2
  <2>2. CASE \/ \E t \in Words : DocSetText(t) \/ DocSetQuery(t)
             \/ \E d \in Docs : DocSetId(d)
             \/ \E s \in {"table", "manual"} : DocSetSource(s)
             \/ \E m \in {"fixed", "semantic"} : DocSetModel(m)
             \/ \E n \in {0, 100} : DocSetTarget(n)
             \/ DocReset
    BY <2>2 DEF DocSetText, DocSetQuery, DocSetId, DocSetSource, DocSetModel, DocSetTarget,
                DocReset, Only
  <2>3. CASE \/ \E k \in DOMAIN calls : DocsFound(k) \/ DocumentLoaded(k)
             \/ \E k \in DOMAIN calls : \E kind \in {"docs", "doc"} : Ends(k, kind, <<>>)
    BY <2>3, Zenon DEF DocsFound, DocumentLoaded, Ends
  <2> QED BY <2>1, <2>2, <2>3, Zenon
<1>4. \/ OtherField \/ \E t : st' = Edit(st, t)
      \/ \E t : st' = [Edit([st EXCEPT !.result = 0], t) EXCEPT
                          !.docId = t, !.hits = <<>>, !.fetching = FALSE]
      \/ st' = [Edit([st EXCEPT !.result = 0], "") EXCEPT !.config = ChunkConfig, !.docId = "",
                   !.error = FALSE, !.hits = <<>>, !.query = ""]
  <2>1. CASE \E t \in Words : DocSetText(t) \/ DocSetQuery(t)
    BY <2>1, Zenon DEF DocSetText, DocSetQuery, Only, OtherField
  <2>2. CASE \E d \in Docs : DocSetId(d) \/ HandleFetchDocument(d)
    BY <2>2, Zenon DEF DocSetId, HandleFetchDocument, Only, OtherField
  <2>3. CASE \E s \in {"table", "manual"} : DocSetSource(s)
    BY <2>3, Zenon DEF DocSetSource, Only, OtherField
  <2>4. CASE \E m \in {"fixed", "semantic"} : DocSetModel(m)
    <3>1. PICK m : st' = [st EXCEPT !.config.model = m]
      BY <2>4 DEF DocSetModel, Only
    <3>2. st' = [st EXCEPT !.config = [st.config EXCEPT !.model = m]]
      BY <3>1
    <3> QED BY <3>2, Zenon DEF OtherField
  <2>5. CASE \E n \in {0, 100} : DocSetTarget(n)
    <3>1. PICK n : st' = [st EXCEPT !.config.target = n]
      BY <2>5 DEF DocSetTarget, Only
    <3>2. st' = [st EXCEPT !.config = [st.config EXCEPT !.target = n]]
      BY <3>1
    <3> QED BY <3>2, Zenon DEF OtherField
  <2>6. CASE \E enter \in BOOLEAN : HandleSearchDocuments(enter)
    BY <2>6, Zenon DEF HandleSearchDocuments, OtherField
  <2>7. CASE DocReset
    BY <2>7, Zenon DEF DocReset, Only
  <2>8. CASE \E k \in DOMAIN calls : DocsFound(k) \/ DocumentLoaded(k)
    BY <2>8, Zenon DEF DocsFound, DocumentLoaded, OtherField
  <2>9. CASE \E k \in DOMAIN calls : \E kind \in {"docs", "doc"} :
                Ends(k, kind, <<>>) /\ screen = "chunk"
                /\ \/ st' = [st EXCEPT !.error = TRUE, !.searching = FALSE]
                   \/ st' = [st EXCEPT !.error = TRUE, !.fetching = FALSE]
    BY <2>9, Zenon DEF OtherField
  <2> QED BY <2>1, <2>2, <2>3, <2>4, <2>5, <2>6, <2>7, <2>8, <2>9, Zenon
<1>6. TextKept
  <2>1. CASE OtherField
    BY <1>2, <2>1 DEF OtherField, DocFields, TextKept
  <2>2. ASSUME NEW t, st' = Edit(st, t) PROVE TextKept
    BY <1>2, EditFacts, <2>2 DEF TextKept
  <2> DEFINE s0 == [st EXCEPT !.result = 0]
  <2>3. DOMAIN s0 = DocFields /\ s0.edited = st.edited /\ s0.text = st.text /\ s0.loading = st.loading
        /\ s0.result = 0
    BY <1>2 DEF DocFields
  <2>4. ASSUME NEW t, st' = [Edit(s0, t) EXCEPT !.docId = t, !.hits = <<>>, !.fetching = FALSE]
        PROVE  TextKept
    <3> DEFINE e == Edit(s0, t)
    <3> HIDE DEF s0
    <3>1. /\ DOMAIN e = DocFields /\ e.loading = st.loading /\ e.result = 0 /\ e.text = t
          /\ e.edited \in BOOLEAN
          /\ ~e.edited => ~st.edited /\ (t = st.text \/ Open("chunk") = {})
      BY <1>2, EditFacts, <2>3
    <3> HIDE DEF e
    <3>2. st' = [e EXCEPT !.docId = t, !.hits = <<>>, !.fetching = FALSE]
      BY <2>4 DEF e
    <3> QED BY <3>1, <3>2 DEF DocFields, TextKept
  <2>5. CASE st' = [Edit(s0, "") EXCEPT !.config = ChunkConfig, !.docId = "",
                      !.error = FALSE, !.hits = <<>>, !.query = ""]
    <3> DEFINE e == Edit(s0, "")
    <3> HIDE DEF s0
    <3>11. PICK t : t = ""
      OBVIOUS
    <3>12. e = Edit(s0, t)
      BY <3>11
    <3>1. /\ DOMAIN e = DocFields /\ e.loading = st.loading /\ e.result = 0 /\ e.text = t
          /\ e.edited \in BOOLEAN
          /\ ~e.edited => ~st.edited /\ (t = st.text \/ Open("chunk") = {})
      <4> HIDE DEF e
      <4> QED BY <1>2, EditFacts, <2>3, <3>12
    <3> HIDE DEF e
    <3>2. st' = [e EXCEPT !.config = ChunkConfig, !.docId = "", !.error = FALSE, !.hits = <<>>,
                          !.query = ""]
      BY <2>5 DEF e
    <3>3. /\ DOMAIN st' = DocFields /\ st'.loading = e.loading /\ st'.result = e.result
          /\ st'.text = e.text /\ st'.edited = e.edited
      BY <3>1, <3>2 DEF DocFields
    <3> QED BY <3>1, <3>3 DEF TextKept
  <2> QED BY <1>4, <2>1, <2>2, <2>4, <2>5
<1>7. RunsKept /\ CallsOk'
  BY <1>3, RunsKeptBy
<1>8. ChunkInv'
  <2>1. /\ DOMAIN st' = DocFields /\ st'.loading = st.loading /\ st'.edited \in BOOLEAN
        /\ st'.result = st.result \/ st'.result = 0
        /\ ~st'.edited => /\ ~st.edited
                          /\ st'.text = st.text \/ (st'.result = 0 /\ Open("chunk") = {})
    BY <1>6, Zenon DEF TextKept
  <2> QED BY <1>1, <1>7, <2>1, ChunkKept, Zenon
<1> QED BY <1>1, <1>7, <1>8, Zenon
\* The run ends: no other is open.
LEMMA RunEndsInv ==
    ASSUME CallsOk, ChunkInv, screen = "chunk", NEW k \in DOMAIN calls, Ends(k, "chunk", <<>>),
           \/ st' = [st EXCEPT !.error = TRUE, !.loading = FALSE]
           \/ st' = [st EXCEPT !.result = k, !.loading = FALSE]
    PROVE  CallsOk' /\ ChunkInv' /\ UNCHANGED <<screen, tab, lists>>
<1>1. CallEnds(k, "chunk", <<>>) /\ UNCHANGED <<screen, tab, lists>>
  BY DEF Ends, Quiet, tableVars, CallEnds
<1>2. /\ CallsOk' /\ DOMAIN calls' = DOMAIN calls /\ IsOpen(k, "chunk") /\ calls'[k].done
      /\ calls'[k].of = calls[k].of /\ \A j \in DOMAIN calls : j # k => calls'[j] = calls[j]
  BY <1>1, EndsFacts DEF IsOpen
<1>3. /\ DOMAIN st' = DocFields /\ st'.edited = st.edited /\ st'.text = st.text
      /\ st'.result = st.result \/ st'.result = k
  BY DEF ChunkInv, DocFields
<1>4. \A j \in DOMAIN calls' : ~IsOpen(j, "chunk")'
  BY <1>2 DEF ChunkInv, IsOpen
<1>5. ~st'.edited /\ st'.result # 0 =>
         st'.result \in DOMAIN calls' /\ calls'[st'.result].of.text = st'.text
  <2>1. \A j \in DOMAIN calls : calls'[j].of = calls[j].of
    BY <1>2
  <2> QED BY <1>2, <1>3, <2>1 DEF ChunkInv
<1>6. st'.edited \in BOOLEAN
  BY <1>3 DEF ChunkInv
<1> QED BY <1>1, <1>2, <1>3, <1>4, <1>5, <1>6 DEF ChunkInv

LEMMA HandleChunkInv ==
    ASSUME CallsOk, ChunkInv, HandleChunk
    PROVE  CallsOk' /\ ChunkInv' /\ UNCHANGED <<screen, tab, lists>> /\ screen = "chunk"
<1>1. /\ screen = "chunk" /\ UNCHANGED <<screen, tab, lists>> /\ ~st.loading
      /\ Start("chunk", [text |-> st.text])
      /\ st' = [st EXCEPT !.loading = TRUE, !.error = FALSE, !.result = 0, !.edited = FALSE]
  BY DEF HandleChunk, User, tableVars
<1>2. /\ DOMAIN st' = DocFields /\ st'.edited = FALSE /\ st'.text = st.text /\ st'.result = 0
      /\ st'.loading = TRUE
  BY <1>1 DEF ChunkInv, DocFields
<1>3. /\ CallsOk' /\ DOMAIN calls' = 1 .. Len(calls) + 1 /\ DOMAIN calls = 1 .. Len(calls)
      /\ Len(calls) \in Nat /\ calls'[Len(calls) + 1].of.text = st.text
      /\ \A k \in DOMAIN calls : calls'[k] = calls[k]
  BY <1>1, StartFacts, CallsRange
<1>4. \A k \in DOMAIN calls' : IsOpen(k, "chunk")' => k = Len(calls) + 1
  <2>1. \A k \in DOMAIN calls : ~IsOpen(k, "chunk")
    BY <1>1 DEF ChunkInv
  <2>2. \A k \in DOMAIN calls' : k \in DOMAIN calls \/ k = Len(calls) + 1
    BY <1>3
  <2> QED BY <1>3, <2>1, <2>2 DEF IsOpen
<1> QED BY <1>1, <1>2, <1>3, <1>4 DEF ChunkInv

LEMMA DocNextInv ==
    ASSUME CallsOk, ChunkInv, DocNext
    PROVE  CallsOk' /\ ChunkInv' /\ UNCHANGED <<screen, tab, lists>> /\ screen = "chunk"
<1>1. CASE HandleChunk
  BY <1>1, HandleChunkInv
<1>2. ASSUME NEW k \in DOMAIN calls, DocFails(k)
      PROVE  CallsOk' /\ ChunkInv' /\ UNCHANGED <<screen, tab, lists>> /\ screen = "chunk"
  <2>1. screen = "chunk"
    BY <1>2 DEF DocFails
  <2>2. CASE Ends(k, "docs", <<>>) /\ st' = [st EXCEPT !.error = TRUE, !.searching = FALSE]
    BY <2>1, <2>2, DocStepInv
  <2>3. CASE Ends(k, "doc", <<>>) /\ st' = [st EXCEPT !.error = TRUE, !.fetching = FALSE]
    BY <2>1, <2>3, DocStepInv
  <2>4. CASE Ends(k, "chunk", <<>>) /\ st' = [st EXCEPT !.error = TRUE, !.loading = FALSE]
    BY <2>1, <2>4, RunEndsInv
  <2> QED BY <1>2, <2>2, <2>3, <2>4 DEF DocFails
<1>3. ASSUME NEW k \in DOMAIN calls, Chunked(k)
      PROVE  CallsOk' /\ ChunkInv' /\ UNCHANGED <<screen, tab, lists>> /\ screen = "chunk"
  BY <1>3, RunEndsInv DEF Chunked
<1>4. CASE \/ \E t \in Words : DocSetText(t) \/ DocSetQuery(t)
           \/ \E d \in Docs : DocSetId(d) \/ HandleFetchDocument(d)
           \/ \E s \in {"table", "manual"} : DocSetSource(s)
           \/ \E m \in {"fixed", "semantic"} : DocSetModel(m)
           \/ \E n \in {0, 100} : DocSetTarget(n)
           \/ \E enter \in BOOLEAN : HandleSearchDocuments(enter)
           \/ DocReset
           \/ \E k \in DOMAIN calls : DocsFound(k) \/ DocumentLoaded(k)
  BY <1>4, DocStepInv
<1> QED BY <1>1, <1>2, <1>3, <1>4, Zenon DEF DocNext-----------------------------------------------------------------------------
(* The chat page: every turn is of a call of the ChatBar that is there, and *)
(* streams only as long as the call is open.                                *)

ChatFields == {"set", "key", "input", "turns"}
TurnOk(t, cs, key) ==
    /\ DOMAIN t = {"call", "open", "text"} /\ t.call \in DOMAIN cs
    /\ cs[t.call].of.key = key
    /\ t.open => ~cs[t.call].done
    /\ t.text = 0 \/ t.text = t.call
ChatInv ==
    screen = "chat" =>
        /\ DOMAIN st = ChatFields /\ \E S : st.turns \in Seq(S)
        /\ \A i \in DOMAIN st.turns : TurnOk(st.turns[i], calls, st.key)

\* A function over the positions of a sequence is one.
LEMMA IsSequence ==
    ASSUME NEW S, NEW s \in Seq(S), NEW t, t = [i \in DOMAIN s |-> t[i]]
    PROVE  \E R : t \in Seq(R)
<1>1. Len(s) \in Nat /\ t = [i \in 1 .. Len(s) |-> t[i]]
  OBVIOUS
<1>2. t \in Seq({t[i] : i \in 1 .. Len(s)})
  BY <1>1
<1> QED BY <1>2

\* Settings of the page, and the input.
LEMMA ChatSettingInv ==
    ASSUME CallsOk, ChatInv,
           \/ ChatSetAgentic \/ \E n \in Iterations : ChatSetIterations(n)
           \/ \E t \in Tools : ChatToggleTool(t)
           \/ \E t \in Words : ChatType(t)
    PROVE  CallsOk' /\ ChatInv' /\ UNCHANGED <<screen, tab, lists>> /\ screen = "chat"
<1>1. screen = "chat" /\ UNCHANGED <<screen, tab, lists, calls>>
  BY DEF ChatSetAgentic, ChatSetIterations, ChatToggleTool, ChatType, User, Only
<1>2. (\E s : st' = [st EXCEPT !.set = s]) \/ (\E t : st' = [st EXCEPT !.input = t])
  <2>1. CASE ChatSetAgentic
    <3>1. st' = [st EXCEPT !.set = [st.set EXCEPT !.agentic = ~@]]
      BY <2>1 DEF ChatSetAgentic, Only
    <3> QED BY <3>1, Zenon
  <2>2. CASE \E n \in Iterations : ChatSetIterations(n)
    <3>1. PICK n : st' = [st EXCEPT !.set = [st.set EXCEPT !.iterations = n]]
      BY <2>2 DEF ChatSetIterations, Only
    <3> QED BY <3>1, Zenon
  <2>3. CASE \E t \in Tools : ChatToggleTool(t)
    <3>1. PICK t : st' = [st EXCEPT !.set = [st.set EXCEPT !.tools = t]]
      BY <2>3 DEF ChatToggleTool, Only
    <3> QED BY <3>1, Zenon
  <2>4. CASE \E t \in Words : ChatType(t)
    BY <2>4, Zenon DEF ChatType, Only
  <2> QED BY <2>1, <2>2, <2>3, <2>4
<1>3. DOMAIN st' = ChatFields /\ st'.key = st.key /\ st'.turns = st.turns
  BY <1>1, <1>2 DEF ChatInv, ChatFields
<1>4. CallsOk' /\ ChatInv'
  BY <1>1, <1>3 DEF CallsOk, ChatInv, TurnOk
<1> QED BY <1>1, <1>4

LEMMA ChatSendInv ==
    ASSUME CallsOk, ChatInv, ChatSend
    PROVE  CallsOk' /\ ChatInv' /\ UNCHANGED <<screen, tab, lists>> /\ screen = "chat"
<1>1. PICK n, t : /\ n = Len(calls) + 1 /\ t = [call |-> n, open |-> TRUE, text |-> 0]
                  /\ screen = "chat" /\ UNCHANGED <<screen, tab, lists>>
                  /\ Start("chat", ChatRequest)
                  /\ st' = [st EXCEPT !.input = "", !.turns = Append(@, t)]
  BY DEF ChatSend, User, tableVars
<1>2. t.call = n /\ t.open = TRUE /\ t.text = 0 /\ DOMAIN t = {"call", "open", "text"}
  BY <1>1
<1>3. DOMAIN st' = ChatFields /\ st'.key = st.key /\ st'.turns = Append(st.turns, t)
  BY <1>1 DEF ChatInv, ChatFields
<1>4. PICK S : st.turns \in Seq(S)
  BY <1>1 DEF ChatInv
<1>5. /\ st'.turns \in Seq(S \cup {t})
      /\ \A i \in DOMAIN st'.turns : st'.turns[i] = t \/ (i \in DOMAIN st.turns /\ st'.turns[i] = st.turns[i])
  <2>1. st.turns \in Seq(S \cup {t}) /\ t \in S \cup {t}
    BY <1>4
  <2> QED BY <1>3, <2>1
<1>6. /\ CallsOk' /\ \A k \in DOMAIN calls : k \in DOMAIN calls' /\ calls'[k] = calls[k]
      /\ n \in DOMAIN calls' /\ calls'[n].of = ChatRequest /\ ~calls'[n].done
  BY <1>1, StartFacts, CallsRange
<1>7. ChatRequest.key = st.key
  BY DEF ChatRequest
<1>8. TurnOk(t, calls', st'.key)
  BY <1>2, <1>3, <1>6, <1>7 DEF TurnOk
<1>9. \A u : TurnOk(u, calls, st.key) => TurnOk(u, calls', st'.key)
  BY <1>3, <1>6 DEF TurnOk
<1> QED BY <1>1, <1>3, <1>5, <1>6, <1>8, <1>9 DEF ChatInv
\* The text of call k comes to its turn.
LEMMA ChatChunkInv ==
    ASSUME CallsOk, ChatInv, NEW k \in DOMAIN calls, ChatChunk(k)
    PROVE  CallsOk' /\ ChatInv' /\ UNCHANGED <<screen, tab, lists>> /\ screen = "chat"
<1> DEFINE F(i) == IF st.turns[i].call = k THEN [st.turns[i] EXCEPT !.text = k] ELSE st.turns[i]
<1>1. /\ screen = "chat" /\ UNCHANGED <<screen, tab, lists>> /\ ~calls[k].done
      /\ calls' = [calls EXCEPT ![k] = [calls[k] EXCEPT !.got = <<"chunk">>]]
      /\ st' = [st EXCEPT !.turns = [i \in DOMAIN st.turns |-> F(i)]]
  BY DEF ChatChunk, Written, Quiet, tableVars
<1>2. PICK c : c = [calls[k] EXCEPT !.got = <<"chunk">>]
  OBVIOUS
<1>3. DOMAIN c = CallFields /\ c.done = calls[k].done /\ c.of = calls[k].of /\ c.done \in BOOLEAN
  BY <1>2 DEF CallsOk, CallFields
<1>4. /\ CallsOk' /\ DOMAIN calls' = DOMAIN calls
      /\ calls'[k] = c /\ \A j \in DOMAIN calls : j # k => calls'[j] = calls[j]
  BY <1>1, <1>2, <1>3, WrittenFacts
<1>5. PICK S : st.turns \in Seq(S)
  BY <1>1 DEF ChatInv
<1>6. DOMAIN st' = ChatFields /\ st'.key = st.key /\ st'.turns = [i \in DOMAIN st.turns |-> F(i)]
  BY <1>1 DEF ChatInv, ChatFields
<1>7. /\ \E R : st'.turns \in Seq(R)
      /\ DOMAIN st'.turns = DOMAIN st.turns /\ \A i \in DOMAIN st.turns : st'.turns[i] = F(i)
  <2> HIDE DEF F
  <2>1. st'.turns = [i \in DOMAIN st.turns |-> st'.turns[i]]
    BY <1>6
  <2>2. \E R : st'.turns \in Seq(R)
    BY <1>5, <2>1, IsSequence
  <2> QED BY <1>6, <2>2
<1>8. \A u : TurnOk(u, calls, st.key) => TurnOk(u, calls', st'.key)
  <2>1. \A j \in DOMAIN calls : calls'[j].done = calls[j].done /\ calls'[j].of = calls[j].of
    BY <1>3, <1>4
  <2> QED BY <1>4, <1>6, <2>1 DEF TurnOk
<1>9. ASSUME NEW i \in DOMAIN st.turns PROVE TurnOk(F(i), calls', st'.key)
  <2>1. TurnOk(st.turns[i], calls', st'.key)
    BY <1>1, <1>8 DEF ChatInv
  <2> QED BY <2>1 DEF TurnOk
<1> HIDE DEF F
<1> QED BY <1>1, <1>4, <1>6, <1>7, <1>9 DEF ChatInv

\* Call k is over: its turn, if it is one of this ChatBar, is closed.
LEMMA TurnCloses ==
    ASSUME CallsOk, ChatInv, screen = "chat", UNCHANGED screen, NEW k \in DOMAIN calls,
           CallsOk', DOMAIN calls' = DOMAIN calls,
           \A j \in DOMAIN calls : /\ calls'[j].of = calls[j].of
                                   /\ j # k => calls'[j].done = calls[j].done,
           st' = IF Mine(k) THEN Closed(k) ELSE st
    PROVE  ChatInv'
<1>1. PICK S : st.turns \in Seq(S)
  BY DEF ChatInv
<1>2. DOMAIN st = ChatFields /\ \A i \in DOMAIN st.turns : TurnOk(st.turns[i], calls, st.key)
  BY DEF ChatInv
<1>3. \A u : TurnOk(u, calls, st.key) /\ u.call # k => TurnOk(u, calls', st.key)
  BY DEF TurnOk
<1>4. CASE ~Mine(k)
  <2>1. st' = st
    BY <1>4
  <2>2. \A i \in DOMAIN st.turns : st.turns[i].call # k
    BY <1>2, <1>4 DEF Mine, TurnOk
  <2>3. \A i \in DOMAIN st.turns : TurnOk(st.turns[i], calls', st.key)
    BY <1>2, <1>3, <2>2
  <2> QED BY <1>1, <1>2, <2>1, <2>3 DEF ChatInv
<1>5. CASE Mine(k)
  <2> DEFINE F(i) == IF st.turns[i].call = k THEN [st.turns[i] EXCEPT !.open = FALSE] ELSE st.turns[i]
  <2>1. st' = [st EXCEPT !.turns = [i \in DOMAIN st.turns |-> F(i)]]
    BY <1>5 DEF Closed
  <2>2. /\ DOMAIN st' = ChatFields /\ st'.key = st.key
        /\ st'.turns = [i \in DOMAIN st.turns |-> F(i)]
    BY <1>2, <2>1 DEF ChatFields
  <2>3. /\ \E R : st'.turns \in Seq(R)
        /\ DOMAIN st'.turns = DOMAIN st.turns /\ \A i \in DOMAIN st.turns : st'.turns[i] = F(i)
    <3> HIDE DEF F
    <3>1. st'.turns = [i \in DOMAIN st.turns |-> st'.turns[i]]
      BY <2>2
    <3>2. \E R : st'.turns \in Seq(R)
      BY <1>1, <3>1, IsSequence
    <3> QED BY <2>2, <3>2
  <2>4. ASSUME NEW i \in DOMAIN st.turns PROVE TurnOk(F(i), calls', st'.key)
    <3>1. TurnOk(st.turns[i], calls, st.key)
      BY <1>2
    <3>2. CASE st.turns[i].call # k
      BY <1>3, <2>2, <3>1, <3>2
    <3>3. CASE st.turns[i].call = k
      <4> DEFINE u == [st.turns[i] EXCEPT !.open = FALSE]
      <4>1. /\ DOMAIN u = {"call", "open", "text"} /\ u.call = k /\ u.open = FALSE
            /\ u.text = 0 \/ u.text = k
        BY <3>1, <3>3 DEF TurnOk
      <4>2. F(i) = u
        BY <3>3
      <4>3. calls'[k].of.key = st.key
        BY <3>1, <3>3 DEF TurnOk
      <4> HIDE DEF u, F
      <4> QED BY <2>2, <4>1, <4>2, <4>3 DEF TurnOk
    <3> QED BY <3>2, <3>3
  <2> HIDE DEF F
  <2> QED BY <2>2, <2>3, <2>4 DEF ChatInv
<1> QED BY <1>4, <1>5

LEMMA ChatNextInv ==
    ASSUME CallsOk, ChatInv, ChatNext
    PROVE  CallsOk' /\ ChatInv' /\ UNCHANGED <<screen, tab, lists>> /\ screen = "chat"
<1>1. CASE \/ ChatSetAgentic \/ \E n \in Iterations : ChatSetIterations(n)
           \/ \E t \in Tools : ChatToggleTool(t)
           \/ \E t \in Words : ChatType(t)
  BY <1>1, ChatSettingInv
<1>2. CASE ChatSend
  BY <1>2, ChatSendInv
<1>3. ASSUME NEW k \in DOMAIN calls, ChatChunk(k)
      PROVE  CallsOk' /\ ChatInv' /\ UNCHANGED <<screen, tab, lists>> /\ screen = "chat"
  BY <1>3, ChatChunkInv
<1>4. ASSUME NEW k \in DOMAIN calls, ChatEnds(k)
      PROVE  CallsOk' /\ ChatInv' /\ UNCHANGED <<screen, tab, lists>> /\ screen = "chat"
  <2>1. /\ screen = "chat" /\ CallEnds(k, "chat", calls[k].got) /\ UNCHANGED <<screen, tab, lists>>
        /\ st' = IF Mine(k) THEN Closed(k) ELSE st
    BY <1>4 DEF ChatEnds, Ends, CallEnds, Quiet, tableVars
  <2>2. CallsOk' /\ DOMAIN calls' = DOMAIN calls
        /\ \A j \in DOMAIN calls : /\ calls'[j].of = calls[j].of
                                   /\ j # k => calls'[j].done = calls[j].done
    BY <2>1, EndsFacts
  <2> QED BY <2>1, <2>2, TurnCloses
<1>5. CASE ChatAbort
  <2>1. PICK k \in DOMAIN calls : /\ Mine(k) /\ st' = Closed(k)
                                  /\ calls' = [calls EXCEPT ![k] = [calls[k] EXCEPT !.done = TRUE]]
    BY <1>5 DEF ChatAbort, Open
  <2>2. screen = "chat" /\ UNCHANGED <<screen, tab, lists>>
    BY <1>5 DEF ChatAbort, User, tableVars
  <2>3. PICK c : c = [calls[k] EXCEPT !.done = TRUE]
    OBVIOUS
  <2>4. DOMAIN c = CallFields /\ c.of = calls[k].of /\ c.done \in BOOLEAN
    BY <2>3 DEF CallsOk, CallFields
  <2>5. /\ CallsOk' /\ DOMAIN calls' = DOMAIN calls
        /\ calls'[k] = c /\ \A j \in DOMAIN calls : j # k => calls'[j] = calls[j]
    BY <2>1, <2>3, <2>4, WrittenFacts
  <2>6. \A j \in DOMAIN calls : /\ calls'[j].of = calls[j].of
                                /\ j # k => calls'[j].done = calls[j].done
    BY <2>4, <2>5
  <2>7. st' = IF Mine(k) THEN Closed(k) ELSE st
    BY <2>1
  <2> QED BY <2>2, <2>5, <2>6, <2>7, TurnCloses
<1>6. CASE ChatReset
  <2>1. /\ screen = "chat" /\ UNCHANGED <<screen, tab, lists>>
        /\ st' = [ChatInit EXCEPT !.key = st.key + 1]
        /\ calls' = calls \/ calls' = [k \in DOMAIN calls |-> [calls[k] EXCEPT !.done = TRUE]]
    BY <1>6 DEF ChatReset, User, tableVars
  <2>2. DOMAIN st' = ChatFields /\ st'.turns = <<>>
    BY <2>1 DEF ChatInit, ChatFields
  <2>3. CallsOk'
    <3>1. CASE calls' = calls
      BY <3>1 DEF CallsOk
    <3>2. CASE calls' = [k \in DOMAIN calls |-> [calls[k] EXCEPT !.done = TRUE]]
      <4> DEFINE F(k) == [calls[k] EXCEPT !.done = TRUE]
      <4>1. calls' = [k \in DOMAIN calls |-> F(k)]
        BY <3>2
      <4>2. \A k \in DOMAIN calls : DOMAIN F(k) = CallFields /\ F(k).done \in BOOLEAN
        BY DEF CallsOk, CallFields
      <4>3. PICK S : calls \in Seq(S)
        BY DEF CallsOk
      <4> HIDE DEF F
      <4>4. (\E R : calls' \in Seq(R)) /\ DOMAIN calls' = DOMAIN calls
            /\ \A k \in DOMAIN calls : calls'[k] = F(k)
        <5>1. calls' = [k \in DOMAIN calls |-> calls'[k]]
          BY <4>1
        <5> QED BY <4>1, <4>3, <5>1, IsSequence
      <4> QED BY <4>2, <4>4 DEF CallsOk
    <3> QED BY <2>1, <3>1, <3>2
  <2>4. ChatInv'
    <3>1. <<>> \in Seq({})
      OBVIOUS
    <3>2. \E S : st'.turns \in Seq(S)
      BY <2>2, <3>1
    <3> QED BY <2>2, <3>2 DEF ChatInv
  <2> QED BY <2>1, <2>3, <2>4
<1> QED BY <1>1, <1>2, <1>3, <1>4, <1>5, <1>6, Zenon DEF ChatNext
-----------------------------------------------------------------------------
(* Induction over the numbers up to a bound, and the filter of a list.       *)

LEMMA LeastNumber ==
    ASSUME NEW T \in SUBSET Nat, NEW t \in T
    PROVE  \E n \in T : \A m \in T : n <= m
<1> DEFINE I(m) == 0 .. m
           D == {I(m) : m \in {m \in T : m <= t}}
<1>1. \A m \in Nat : I(m) \in FiniteSubsetsOf(Nat)
  <2> SUFFICES ASSUME NEW m \in Nat PROVE I(m) \in FiniteSubsetsOf(Nat)
    OBVIOUS
  <2>1. IsFiniteSet(I(m))
    BY FS_Interval
  <2> QED BY <2>1 DEF FiniteSubsetsOf
<1>2. D \subseteq FiniteSubsetsOf(Nat) /\ D # {}
  BY <1>1
<1>3. \E x \in D : \A y \in D : <<y, x>> \notin StrictSubsetOrdering(Nat)
  <2>1. IsWellFoundedOn(StrictSubsetOrdering(Nat), FiniteSubsetsOf(Nat))
    BY FS_StrictSubsetOrderingWellFounded
  <2> HIDE DEF D
  <2> QED BY <1>2, <2>1, WFMin
<1>4. PICK n \in T : n <= t /\ \A y \in D : <<y, I(n)>> \notin StrictSubsetOrdering(Nat)
  BY <1>3
<1>5. ASSUME NEW m \in T, m < n PROVE FALSE
  <2>1. I(m) \in D
    BY <1>4, <1>5
  <2>2. I(m) \subseteq I(n) /\ I(m) # I(n)
    <3>1. n \in I(n) /\ n \notin I(m)
      BY <1>5
    <3> QED BY <1>5, <3>1
  <2>3. I(m) \in SUBSET Nat /\ I(n) \in SUBSET Nat
    OBVIOUS
  <2> HIDE DEF I, D
  <2> QED BY <1>4, <2>1, <2>2, <2>3 DEF StrictSubsetOrdering
<1> QED BY <1>4, <1>5

\* A set that has 0, and the successor of each of its members up to n, has all.
LEMMA SetInduction ==
    ASSUME NEW n \in Nat, NEW S, 0 \in S, \A k \in 0 .. n - 1 : k \in S => k + 1 \in S
    PROVE  \A k \in 0 .. n : k \in S
<1> DEFINE T == {k \in 0 .. n : k \notin S}
<1>1. SUFFICES ASSUME NEW t \in T PROVE FALSE
  OBVIOUS
<1>2. T \in SUBSET Nat
  OBVIOUS
<1>3. PICK m \in T : \A k \in T : m <= k
  <2> HIDE DEF T
  <2> QED BY <1>1, <1>2, LeastNumber
<1>4. m # 0 /\ m - 1 \in 0 .. n - 1 /\ ~(m <= m - 1)
  BY <1>3
<1>5. m - 1 \in S
  BY <1>3, <1>4
<1>6. (m - 1) + 1 \in S /\ (m - 1) + 1 = m
  BY <1>4, <1>5
<1> QED BY <1>6


\* f filters the first n items.
Filters(f, n, items, keep) ==
    f = [i \in 0 .. n |-> IF i = 0 THEN <<>>
                          ELSE IF i \in keep THEN Append(f[i - 1], items[i]) ELSE f[i - 1]]

LEMMA FilterExists ==
    ASSUME NEW S, NEW items \in Seq(S), NEW keep
    PROVE  \E f \in [0 .. Len(items) -> Seq(S)] : Filters(f, Len(items), items, keep)
<1> DEFINE n == Len(items)
           Has(m) == \E f \in [0 .. m -> Seq(S)] : Filters(f, m, items, keep)
           T == {m \in 0 .. n : Has(m)}
<1>1. n \in Nat
  OBVIOUS
<1>2. Has(0)
  <2> DEFINE f == [i \in 0 .. 0 |-> <<>>]
  <2>1. f \in [0 .. 0 -> Seq(S)]
    OBVIOUS
  <2>2. Filters(f, 0, items, keep)
    BY DEF Filters
  <2> QED BY <2>1, <2>2
<1>3. ASSUME NEW m \in 0 .. n - 1, Has(m) PROVE Has(m + 1)
  <2>1. PICK f \in [0 .. m -> Seq(S)] : Filters(f, m, items, keep)
    BY <1>3
  <2>2. PICK k \in 1 .. n : k = m + 1
    OBVIOUS
  <2>3. PICK e : e = IF k \in keep THEN Append(f[m], items[k]) ELSE f[m]
    OBVIOUS
  <2>4. e \in Seq(S)
    <3>1. f[m] \in Seq(S) /\ items[k] \in S
      OBVIOUS
    <3>2. Append(f[m], items[k]) \in Seq(S)
      BY <3>1
    <3> QED BY <2>3, <3>1, <3>2
  <2> DEFINE g == [i \in 0 .. k |-> IF i = k THEN e ELSE f[i]]
  <2>5. \A i \in 0 .. k : i # k => i \in 0 .. m
    BY <2>2
  <2>6. g \in [0 .. k -> Seq(S)]
    BY <2>4, <2>5
  <2>7. ASSUME NEW i \in 0 .. k
        PROVE  g[i] = IF i = 0 THEN <<>>
                      ELSE IF i \in keep THEN Append(g[i - 1], items[i]) ELSE g[i - 1]
    <3>1. CASE i = k
      <4>1. i # 0 /\ i - 1 = m /\ m \in 0 .. k /\ m # k
        BY <2>2, <3>1
      <4>2. g[i] = e /\ g[i - 1] = f[m]
        BY <3>1, <4>1
      <4> HIDE DEF g
      <4> QED BY <2>3, <3>1, <4>1, <4>2
    <3>2. CASE i # k
      <4>1. i \in 0 .. m
        BY <2>5, <3>2
      <4>2. f[i] = IF i = 0 THEN <<>>
                   ELSE IF i \in keep THEN Append(f[i - 1], items[i]) ELSE f[i - 1]
        BY <2>1, <4>1 DEF Filters
      <4>3. i # 0 => i - 1 \in 0 .. k /\ i - 1 # k
        BY <2>2, <4>1
      <4>4. g[i] = f[i] /\ (i # 0 => g[i - 1] = f[i - 1])
        BY <3>2, <4>3
      <4> HIDE DEF g
      <4> QED BY <4>2, <4>4
    <3> QED BY <3>1, <3>2
  <2>8. g = [i \in 0 .. k |-> g[i]]
    OBVIOUS
  <2>9. Filters(g, k, items, keep)
    <3> HIDE DEF g
    <3> QED BY <2>7, <2>8, Zenon DEF Filters
  <2> HIDE DEF g
  <2> QED BY <2>2, <2>6, <2>9
<1>4. 0 \in T /\ \A m \in 0 .. n - 1 : m \in T => m + 1 \in T
  <2> HIDE DEF Has
  <2>1. \A m \in 0 .. n - 1 : m + 1 \in 0 .. n
    BY <1>1
  <2> QED BY <1>1, <1>2, <1>3, <2>1
<1>5. n \in T
  <2> HIDE DEF T, n
  <2>1. \A m \in 0 .. n : m \in T
    BY <1>1, <1>4, SetInduction
  <2> QED BY <1>1, <2>1
<1> QED BY <1>5

LEMMA FilterIn ==
    ASSUME NEW S, NEW items \in Seq(S), NEW keep
    PROVE  Filter(items, keep) \in Seq(S)
<1> DEFINE f == CHOOSE f : Filters(f, Len(items), items, keep)
<1>1. Filters(f, Len(items), items, keep)
  BY FilterExists
<1>2. Filter(items, keep) = f[Len(items)]
  BY DEF Filter, Filters
<1> HIDE DEF f
<1> DEFINE T == {m \in 0 .. Len(items) : f[m] \in Seq(S)}
<1>3. Len(items) \in Nat
  OBVIOUS
<1>4. 0 \in T
  BY <1>1, <1>3 DEF Filters
<1>5. ASSUME NEW m \in 0 .. Len(items) - 1, m \in T PROVE m + 1 \in T
  <2>1. PICK k \in 1 .. Len(items) : k = m + 1 /\ k - 1 = m
    OBVIOUS
  <2>2. f[k] = IF k \in keep THEN Append(f[m], items[k]) ELSE f[m]
    <3>1. k \in 0 .. Len(items) /\ k # 0
      OBVIOUS
    <3>2. f[k] = IF k = 0 THEN <<>>
                 ELSE IF k \in keep THEN Append(f[k - 1], items[k]) ELSE f[k - 1]
      BY <1>1, <3>1, Zenon DEF Filters
    <3> QED BY <2>1, <3>1, <3>2
  <2>3. f[m] \in Seq(S) /\ items[k] \in S
    BY <1>5
  <2>4. Append(f[m], items[k]) \in Seq(S)
    BY <2>3
  <2>5. f[k] \in Seq(S)
    BY <2>2, <2>3, <2>4
  <2> QED BY <2>1, <2>5
<1>6. \A m \in 0 .. Len(items) : m \in T
  <2> HIDE DEF T
  <2> QED BY <1>3, <1>4, <1>5, SetInduction
<1> QED BY <1>2, <1>3, <1>6-----------------------------------------------------------------------------
(* The evals page: its sets are lists of items and one of them is chosen; a *)
(* run has a verdict for every item it has come to, and its results are      *)
(* shown when it is over.                                                    *)

Item == [id : Nat, q : {"q"}]
Verdict == [id : Nat, is : Outcomes]
EvalFields == {"sets", "chosen", "loading", "error", "results", "reading", "file", "next"}

EvalsState(s) ==
    /\ DOMAIN s = EvalFields /\ s.next \in Nat
    /\ \A n \in DOMAIN s.sets : s.sets[n] \in Seq(Item)
    /\ s.reading = <<>> \/ \E f \in Formats : s.reading = <<f>>
    /\ s.file = <<>> \/ \E f \in Formats : s.file = <<f>>
HasChosen(s) == IF DOMAIN s.sets = {} THEN s.chosen = "" ELSE s.chosen \in DOMAIN s.sets
ResultsOf(r, cs) ==
    r = <<>> \/ \E k \in DOMAIN cs : r = <<k>> /\ cs[k].kind = "eval" /\ cs[k].done
RunOk(c) ==
    /\ c.of.items \in Seq(Item) /\ c.got \in Seq(Verdict)
    /\ Len(c.got) <= Len(c.of.items)
    /\ c.done <=> Len(c.got) = Len(c.of.items)
    /\ \A i \in DOMAIN c.got : c.got[i].id = c.of.items[i].id

EvalsInv ==
    screen = "evals" =>
        /\ EvalsState(st) /\ HasChosen(st) /\ ResultsOf(st.results, calls)
        /\ \A k \in DOMAIN calls : Is(k, "eval") => RunOk(calls[k])

LEMMA WithIn ==
    ASSUME NEW sets, \A n \in DOMAIN sets : sets[n] \in Seq(Item), NEW name, NEW items \in Seq(Item)
    PROVE  /\ DOMAIN With(sets, name, items) = DOMAIN sets \cup {name}
           /\ \A n \in DOMAIN With(sets, name, items) : With(sets, name, items)[n] \in Seq(Item)
<1> HIDE DEF Item
<1> QED BY DEF With

\* The effect that selects a set if none is.
LEMMA DefaultChosen ==
    ASSUME NEW t, EvalsState(t), t.chosen = "" \/ t.chosen \in DOMAIN t.sets,
           NEW u \in DefaultSet(t)
    PROVE  EvalsState(u) /\ HasChosen(u) /\ u.results = t.results
<1>1. CASE t.chosen = "" /\ DOMAIN t.sets # {}
  <2>1. PICK n \in DOMAIN t.sets : u = [t EXCEPT !.chosen = n]
    BY <1>1 DEF DefaultSet, EvalSetNames
  <2>2. DOMAIN t = EvalFields
    BY DEF EvalsState
  <2>3. /\ DOMAIN u = EvalFields /\ u.chosen = n /\ u.sets = t.sets /\ u.results = t.results
        /\ u.reading = t.reading /\ u.file = t.file /\ u.next = t.next
    BY <2>1, <2>2 DEF EvalFields
  <2> QED BY <2>3 DEF EvalsState, HasChosen
<1>2. CASE ~(t.chosen = "" /\ DOMAIN t.sets # {})
  <2>1. u = t
    BY <1>2 DEF DefaultSet
  <2> QED BY <1>2, <2>1 DEF HasChosen
<1> QED BY <1>1, <1>2

LEMMA EvalsEdit ==
    ASSUME CallsOk, EvalsInv, User("evals"), NEW t, Evals(t), EvalsState(t),
           t.chosen = "" \/ t.chosen \in DOMAIN t.sets, ResultsOf(t.results, calls)
    PROVE  CallsOk' /\ EvalsInv' /\ UNCHANGED <<screen, tab, lists>> /\ screen = "evals"
<1>1. screen = "evals" /\ UNCHANGED <<screen, tab, lists, calls>> /\ st' \in DefaultSet(t)
  BY DEF User, Evals, Only
<1>2. EvalsState(st') /\ HasChosen(st') /\ st'.results = t.results
  BY <1>1, DefaultChosen
<1>3. CallsOk' /\ \A k \in DOMAIN calls' : Is(k, "eval")' => RunOk(calls'[k])
  BY <1>1 DEF CallsOk, EvalsInv, Is
<1>4. EvalsInv'
  BY <1>1, <1>2, <1>3 DEF EvalsInv
<1> QED BY <1>1, <1>3, <1>4
LEMMA SetEventInv ==
    ASSUME CallsOk, EvalsInv, screen = "evals",
           (\E n \in Names : HandleCreateSet(n) \/ ChooseSet(n)) \/ HandleDeleteSet
    PROVE  CallsOk' /\ EvalsInv' /\ UNCHANGED <<screen, tab, lists>> /\ screen = "evals"
<1>1. EvalsState(st) /\ HasChosen(st) /\ ResultsOf(st.results, calls) /\ DOMAIN st = EvalFields
  BY DEF EvalsInv, EvalsState
<1>2. ASSUME NEW n, HandleCreateSet(n)
      PROVE  CallsOk' /\ EvalsInv' /\ UNCHANGED <<screen, tab, lists>> /\ screen = "evals"
  <2>1. PICK t, w : /\ w = With(st.sets, n, <<>>) /\ t = [st EXCEPT !.sets = w, !.chosen = n]
                    /\ User("evals") /\ Evals(t)
    BY <1>2, Zenon DEF HandleCreateSet, CreateEvalSet
  <2>2. DOMAIN w = DOMAIN st.sets \cup {n} /\ \A m \in DOMAIN w : w[m] \in Seq(Item)
    <3>1. <<>> \in Seq(Item) /\ \A m \in DOMAIN st.sets : st.sets[m] \in Seq(Item)
      BY <1>1 DEF EvalsState
    <3> QED BY <2>1, <3>1, WithIn
  <2>3. /\ DOMAIN t = EvalFields /\ t.sets = w /\ t.chosen = n /\ t.results = st.results
        /\ t.reading = st.reading /\ t.file = st.file /\ t.next = st.next
    BY <1>1, <2>1 DEF EvalFields
  <2>4. EvalsState(t) /\ t.chosen \in DOMAIN t.sets
    BY <1>1, <2>2, <2>3 DEF EvalsState
  <2> QED BY <1>1, <2>1, <2>3, <2>4, EvalsEdit
<1>3. ASSUME NEW n, ChooseSet(n)
      PROVE  CallsOk' /\ EvalsInv' /\ UNCHANGED <<screen, tab, lists>> /\ screen = "evals"
  <2>1. PICK t : /\ n \in DOMAIN st.sets /\ t = [st EXCEPT !.chosen = n]
                 /\ User("evals") /\ Evals(t)
    BY <1>3 DEF ChooseSet, EvalSetNames
  <2>2. /\ DOMAIN t = EvalFields /\ t.sets = st.sets /\ t.chosen = n /\ t.results = st.results
        /\ t.reading = st.reading /\ t.file = st.file /\ t.next = st.next
    BY <1>1, <2>1 DEF EvalFields
  <2>3. EvalsState(t) /\ t.chosen \in DOMAIN t.sets
    BY <1>1, <2>1, <2>2 DEF EvalsState
  <2> QED BY <1>1, <2>1, <2>2, <2>3, EvalsEdit
<1>4. CASE HandleDeleteSet
  <2>1. PICK t, w : /\ w = [n \in DOMAIN st.sets \ {st.chosen} |-> st.sets[n]]
                    /\ t = [st EXCEPT !.sets = w, !.chosen = "", !.results = <<>>]
                    /\ User("evals") /\ Evals(t)
    <3>1. st.chosen \in DOMAIN st.sets /\ User("evals")
      BY <1>1, <1>4 DEF HandleDeleteSet, HasChosen
    <3>2. Evals([st EXCEPT !.sets = DeleteEvalSet(st.sets, @, st.chosen),
                           !.chosen = "", !.results = <<>>])
      BY <1>4 DEF HandleDeleteSet
    <3>3. DeleteEvalSet(st.sets, st.sets, st.chosen) = [n \in DOMAIN st.sets \ {st.chosen} |-> st.sets[n]]
      BY <3>1 DEF DeleteEvalSet
    <3> QED BY <3>1, <3>2, <3>3, Zenon
  <2>2. \A m \in DOMAIN w : w[m] \in Seq(Item)
    <3> HIDE DEF Item
    <3> QED BY <1>1, <2>1 DEF EvalsState
  <2>3. /\ DOMAIN t = EvalFields /\ t.sets = w /\ t.chosen = "" /\ t.results = <<>>
        /\ t.reading = st.reading /\ t.file = st.file /\ t.next = st.next
    BY <1>1, <2>1 DEF EvalFields
  <2>4. EvalsState(t) /\ t.chosen = "" /\ ResultsOf(t.results, calls)
    BY <1>1, <2>2, <2>3 DEF EvalsState, ResultsOf
  <2> QED BY <2>1, <2>4, EvalsEdit
<1> QED BY <1>2, <1>3, <1>4

LEMMA ItemEventInv ==
    ASSUME CallsOk, EvalsInv, screen = "evals",
           HandleAddItem \/ \E i \in DOMAIN SelectedSet : HandleRemoveItem(i)
    PROVE  CallsOk' /\ EvalsInv' /\ UNCHANGED <<screen, tab, lists>> /\ screen = "evals"
<1>1. EvalsState(st) /\ HasChosen(st) /\ ResultsOf(st.results, calls) /\ DOMAIN st = EvalFields
  BY DEF EvalsInv, EvalsState
<1>2. \A m \in DOMAIN st.sets : st.sets[m] \in Seq(Item)
  BY <1>1 DEF EvalsState
<1>3. CASE HandleAddItem
  <2>1. PICK item, n : item = [id |-> st.next, q |-> "q"] /\ n = st.chosen
    OBVIOUS
  <2>2. /\ n \in DOMAIN st.sets /\ User("evals")
        /\ Evals([st EXCEPT !.sets = AddItem(st.sets, @, n, item), !.next = @ + 1])
    BY <1>1, <1>3, <2>1 DEF HandleAddItem, HasChosen
  <2>3. PICK t, w : /\ w = With(st.sets, n, Append(st.sets[n], item))
                    /\ t = [st EXCEPT !.sets = w, !.next = st.next + 1] /\ Evals(t)
    BY <2>2, Zenon DEF AddItem
  <2>4. st.next \in Nat /\ item \in Item
    BY <1>1, <2>1 DEF EvalsState, Item
  <2>5. Append(st.sets[n], item) \in Seq(Item)
    <3> HIDE DEF Item
    <3>1. st.sets[n] \in Seq(Item)
      BY <1>2, <2>2
    <3> QED BY <2>4, <3>1
  <2>6. DOMAIN w = DOMAIN st.sets \cup {n} /\ \A m \in DOMAIN w : w[m] \in Seq(Item)
    BY <1>2, <2>3, <2>5, WithIn
  <2>7. /\ DOMAIN t = EvalFields /\ t.sets = w /\ t.chosen = st.chosen /\ t.results = st.results
        /\ t.reading = st.reading /\ t.file = st.file /\ t.next = st.next + 1
    BY <1>1, <2>3 DEF EvalFields
  <2>8. st.next + 1 \in Nat
    BY <2>4
  <2>9. EvalsState(t) /\ t.chosen \in DOMAIN t.sets
    BY <1>1, <2>1, <2>6, <2>7, <2>8 DEF EvalsState
  <2> QED BY <1>1, <2>2, <2>3, <2>7, <2>9, EvalsEdit
<1>4. ASSUME NEW i \in DOMAIN SelectedSet, HandleRemoveItem(i)
      PROVE  CallsOk' /\ EvalsInv' /\ UNCHANGED <<screen, tab, lists>> /\ screen = "evals"
  <2>1. PICK id, n : id = SelectedSet[i].id /\ n = st.chosen
    OBVIOUS
  <2>2. n \in DOMAIN st.sets
    BY <2>1 DEF SelectedSet
  <2>3. PICK t, w : /\ w = RemoveItem(st.sets, st.sets, n, id) /\ t = [st EXCEPT !.sets = w]
                    /\ Evals(t) /\ User("evals")
    BY <1>4, <2>1, Zenon DEF HandleRemoveItem
  <2>4. \E keep : w = st.sets \/ w = With(st.sets, n, Filter(st.sets[n], keep))
    BY <2>3, Zenon DEF RemoveItem
  <2>5. PICK keep : w = st.sets \/ w = With(st.sets, n, Filter(st.sets[n], keep))
    BY <2>4
  <2>6. Filter(st.sets[n], keep) \in Seq(Item)
    BY <1>2, <2>2, FilterIn
  <2>7. n \in DOMAIN w /\ \A m \in DOMAIN w : w[m] \in Seq(Item)
    <3>1. CASE w = st.sets
      BY <1>2, <2>2, <3>1
    <3>2. CASE w = With(st.sets, n, Filter(st.sets[n], keep))
      <4>1. PICK items \in Seq(Item) : items = Filter(st.sets[n], keep)
        BY <2>6
      <4>2. /\ DOMAIN With(st.sets, n, items) = DOMAIN st.sets \cup {n}
            /\ \A m \in DOMAIN With(st.sets, n, items) : With(st.sets, n, items)[m] \in Seq(Item)
        BY <1>2, WithIn, Zenon
      <4> HIDE DEF Item
      <4> QED BY <3>2, <4>1, <4>2
    <3> QED BY <2>5, <3>1, <3>2
  <2>8. /\ DOMAIN t = EvalFields /\ t.sets = w /\ t.chosen = st.chosen /\ t.results = st.results
        /\ t.reading = st.reading /\ t.file = st.file /\ t.next = st.next
    BY <1>1, <2>3 DEF EvalFields
  <2>9. EvalsState(t) /\ t.chosen \in DOMAIN t.sets
    BY <1>1, <2>1, <2>7, <2>8 DEF EvalsState
  <2> QED BY <1>1, <2>3, <2>8, <2>9, EvalsEdit
<1> QED BY <1>3, <1>4
LEMMA LoadSampleInv ==
    ASSUME CallsOk, EvalsInv, LoadSampleSet
    PROVE  CallsOk' /\ EvalsInv' /\ UNCHANGED <<screen, tab, lists>> /\ screen = "evals"
<1>1. screen = "evals" /\ User("evals")
  BY DEF LoadSampleSet, User
<1>2. EvalsState(st) /\ ResultsOf(st.results, calls) /\ DOMAIN st = EvalFields
  BY <1>1 DEF EvalsInv, EvalsState
<1>3. \A m \in DOMAIN st.sets : st.sets[m] \in Seq(Item)
  BY <1>2 DEF EvalsState
<1>4. PICK n : n = SampleName
  OBVIOUS
<1>5. CASE n \in DOMAIN st.sets
  <2>1. PICK t : t = [st EXCEPT !.chosen = n] /\ Evals(t)
    BY <1>4, <1>5, Zenon DEF LoadSampleSet
  <2>2. /\ DOMAIN t = EvalFields /\ t.sets = st.sets /\ t.chosen = n /\ t.results = st.results
        /\ t.reading = st.reading /\ t.file = st.file /\ t.next = st.next
    BY <1>2, <2>1 DEF EvalFields
  <2>3. EvalsState(t)
    BY <1>2, <2>2 DEF EvalsState
  <2> QED BY <1>1, <1>2, <1>5, <2>1, <2>2, <2>3, EvalsEdit
<1>6. CASE n \notin DOMAIN st.sets
  <2>1. PICK t, w, item : /\ t = [st EXCEPT !.sets = w, !.chosen = n, !.next = st.next + 1] /\ Evals(t)
                          /\ w = AddItem(st.sets, CreateEvalSet(st.sets, st.sets, n), n, item)
    BY <1>4, <1>6, Zenon DEF LoadSampleSet
  <2>2. w = With(st.sets, n, <<>>)
    <3>1. CanCreate(st.sets, n)
      BY <1>4, <1>6 DEF CanCreate, SampleName
    <3> QED BY <1>6, <2>1, <3>1 DEF AddItem, CreateEvalSet
  <2>3. n \in DOMAIN w /\ \A m \in DOMAIN w : w[m] \in Seq(Item)
    <3>1. <<>> \in Seq(Item)
      OBVIOUS
    <3>2. /\ DOMAIN With(st.sets, n, <<>>) = DOMAIN st.sets \cup {n}
          /\ \A m \in DOMAIN With(st.sets, n, <<>>) : With(st.sets, n, <<>>)[m] \in Seq(Item)
      BY <1>3, <3>1, WithIn, Zenon
    <3> HIDE DEF Item
    <3> QED BY <2>2, <3>2
  <2>4. /\ DOMAIN t = EvalFields /\ t.sets = w /\ t.chosen = n /\ t.results = st.results
        /\ t.reading = st.reading /\ t.file = st.file /\ t.next = st.next + 1
    BY <1>2, <2>1 DEF EvalFields
  <2>5. st.next + 1 \in Nat
    BY <1>2 DEF EvalsState
  <2>6. EvalsState(t)
    BY <1>2, <2>3, <2>4, <2>5 DEF EvalsState
  <2> QED BY <1>1, <1>2, <2>1, <2>3, <2>4, <2>6, EvalsEdit
<1> QED BY <1>5, <1>6

\* An import of a file of a format that the page knows makes the set it selects.
LEMMA ImportInv ==
    ASSUME CallsOk, EvalsInv, NEW raw, HandleImport(raw)
    PROVE  CallsOk' /\ EvalsInv' /\ UNCHANGED <<screen, tab, lists>> /\ screen = "evals"
<1>1. screen = "evals" /\ User("evals") /\ st.file # <<>>
  BY DEF HandleImport, User
<1>2. /\ EvalsState(st) /\ HasChosen(st) /\ ResultsOf(st.results, calls)
      /\ DOMAIN st = EvalFields /\ st.next \in Nat
  BY <1>1 DEF EvalsInv, EvalsState
<1>3. \A m \in DOMAIN st.sets : st.sets[m] \in Seq(Item)
  BY <1>2 DEF EvalsState
<1>4. PICK f \in Formats : st.file = <<f>> /\ st.file[1] = f
  BY <1>1, <1>2 DEF EvalsState
<1>5. PICK item, n : item = [id |-> st.next, q |-> "q"] /\ n = Trim[raw]
  OBVIOUS
<1>6. item \in Item /\ <<item>> \in Seq(Item)
  <2>1. item \in Item
    BY <1>2, <1>5 DEF Item
  <2> HIDE DEF Item
  <2> QED BY <2>1
<1>7. CASE ~Importable(f, raw)
  <2>1. PICK t : t = [st EXCEPT !.error = TRUE] /\ Evals(t)
    BY <1>4, <1>7, Zenon DEF HandleImport
  <2>2. /\ DOMAIN t = EvalFields /\ t.sets = st.sets /\ t.chosen = st.chosen
        /\ t.results = st.results
        /\ t.reading = st.reading /\ t.file = st.file /\ t.next = st.next
    BY <1>2, <2>1 DEF EvalFields
  <2>3. EvalsState(t) /\ (t.chosen = "" \/ t.chosen \in DOMAIN t.sets)
    BY <1>2, <2>2 DEF EvalsState, HasChosen
  <2> QED BY <1>1, <1>2, <2>1, <2>2, <2>3, EvalsEdit
<1>8. CASE Importable(f, raw)
  <2>1. PICK t, w : /\ t = [st EXCEPT !.chosen = n, !.file = <<>>, !.next = st.next + 1, !.sets = w]
                    /\ Evals(t)
                    /\ w = IF f = "native" THEN ImportEvalSet(st.sets, st.sets, raw, n, <<item>>)
                           ELSE ImportPromptfooSet(st.sets, st.sets, n, <<item>>)
    BY <1>4, <1>5, <1>8, Zenon DEF HandleImport
  <2>2. PICK items : /\ items = Filter(<<item>>, Valid(<<item>>)) /\ items \in Seq(Item)
    BY <1>6, FilterIn
  <2>3. w = With(st.sets, n, items)
    <3>1. CASE f = "native"
      <4>1. CanImport(st.sets, raw)
        BY <1>8, <3>1 DEF Importable
      <4> QED BY <2>1, <2>2, <3>1, <4>1 DEF ImportEvalSet
    <3>2. CASE f = "promptfoo"
      <4>1. CanCreate(st.sets, n)
        BY <1>5, <1>8, <3>2 DEF Importable
      <4>2. 1 \in Valid(<<item>>)
        <5>1. item.q # ""
          BY <1>5
        <5>2. <<item>>[1] = item /\ 1 \in DOMAIN <<item>>
          OBVIOUS
        <5> QED BY <5>1, <5>2, Zenon DEF Valid
      <4> QED BY <2>1, <2>2, <3>2, <4>1, <4>2 DEF ImportPromptfooSet
    <3>3. CASE f = "unknown"
      BY <1>8, <3>3 DEF Importable
    <3> QED BY <3>1, <3>2, <3>3 DEF Formats
  <2>4. n \in DOMAIN w /\ \A m \in DOMAIN w : w[m] \in Seq(Item)
    <3>1. /\ DOMAIN With(st.sets, n, items) = DOMAIN st.sets \cup {n}
          /\ \A m \in DOMAIN With(st.sets, n, items) : With(st.sets, n, items)[m] \in Seq(Item)
      BY <1>3, <2>2, WithIn, Zenon
    <3> HIDE DEF Item
    <3> QED BY <2>3, <3>1
  <2>5. /\ DOMAIN t = EvalFields /\ t.sets = w /\ t.chosen = n /\ t.results = st.results
        /\ t.reading = st.reading /\ t.file = <<>> /\ t.next = st.next + 1
    BY <1>2, <2>1 DEF EvalFields
  <2>6. st.next + 1 \in Nat
    BY <1>2
  <2>7. EvalsState(t)
    BY <1>2, <2>4, <2>5, <2>6 DEF EvalsState
  <2> QED BY <1>1, <1>2, <2>1, <2>4, <2>5, <2>7, EvalsEdit
<1> QED BY <1>7, <1>8

\* The dialog of an import, the file in it, and the Reset.
LEMMA DialogInv ==
    ASSUME CallsOk, EvalsInv,
           (\E f \in Formats : HandleImportFile(f)) \/ FileRead \/ CloseImport \/ EvalsReset
    PROVE  CallsOk' /\ EvalsInv' /\ UNCHANGED <<screen, tab, lists>> /\ screen = "evals"
<1>1. screen = "evals"
  BY DEF HandleImportFile, FileRead, CloseImport, EvalsReset, User
<1>2. EvalsState(st) /\ HasChosen(st) /\ ResultsOf(st.results, calls) /\ DOMAIN st = EvalFields
  BY <1>1 DEF EvalsInv, EvalsState
<1>3. CASE FileRead
  <2>1. /\ UNCHANGED <<screen, tab, lists, calls>>
        /\ st' = [st EXCEPT !.file = st.reading, !.reading = <<>>]
    BY <1>3 DEF FileRead, Quiet
  <2>2. /\ DOMAIN st' = EvalFields /\ st'.sets = st.sets /\ st'.chosen = st.chosen
        /\ st'.results = st.results
        /\ st'.reading = <<>> /\ st'.file = st.reading /\ st'.next = st.next
    BY <1>2, <2>1 DEF EvalFields
  <2>3. EvalsState(st') /\ HasChosen(st') /\ ResultsOf(st'.results, calls)
    BY <1>2, <2>2 DEF EvalsState, HasChosen
  <2>4. CallsOk' /\ \A k \in DOMAIN calls' : Is(k, "eval")' => RunOk(calls'[k])
    BY <1>1, <2>1 DEF CallsOk, EvalsInv, Is
  <2>5. EvalsInv'
    BY <2>1, <2>3, <2>4 DEF EvalsInv
  <2> QED BY <1>1, <2>1, <2>4, <2>5
<1>4. CASE (\E f \in Formats : HandleImportFile(f)) \/ CloseImport \/ EvalsReset
  <2>1. PICK t : /\ User("evals") /\ Evals(t)
                 /\ \/ \E f \in Formats : t = [st EXCEPT !.reading = <<f>>]
                    \/ t = [st EXCEPT !.file = <<>>]
                    \/ t = [st EXCEPT !.results = <<>>, !.error = FALSE]
    BY <1>4, Zenon DEF HandleImportFile, CloseImport, EvalsReset
  <2>2. /\ DOMAIN t = EvalFields /\ t.sets = st.sets /\ t.chosen = st.chosen
        /\ t.results = st.results \/ t.results = <<>>
        /\ t.reading = st.reading \/ \E f \in Formats : t.reading = <<f>>
        /\ t.file = st.file \/ t.file = <<>>
        /\ t.next = st.next
    BY <1>2, <2>1 DEF EvalFields
  <2>3. /\ EvalsState(t) /\ (t.chosen = "" \/ t.chosen \in DOMAIN t.sets)
        /\ ResultsOf(t.results, calls)
    BY <1>2, <2>2 DEF EvalsState, HasChosen, ResultsOf
  <2> QED BY <2>1, <2>3, EvalsEdit
<1> QED BY <1>3, <1>4
LEMMA RunEvalsInv ==
    ASSUME CallsOk, EvalsInv, RunEvals
    PROVE  CallsOk' /\ EvalsInv' /\ UNCHANGED <<screen, tab, lists>> /\ screen = "evals"
<1>1. PICK c : /\ c = [name |-> st.chosen, items |-> SelectedSet] /\ Start("eval", c)
               /\ screen = "evals" /\ UNCHANGED <<screen, tab, lists>> /\ SelectedSet # <<>>
               /\ st' = [st EXCEPT !.loading = TRUE, !.error = FALSE, !.results = <<>>]
  BY DEF RunEvals, User, tableVars
<1>2. EvalsState(st) /\ HasChosen(st) /\ DOMAIN st = EvalFields
  BY <1>1 DEF EvalsInv, EvalsState
<1>3. /\ DOMAIN st' = EvalFields /\ st'.sets = st.sets /\ st'.chosen = st.chosen /\ st'.results = <<>>
      /\ st'.reading = st.reading /\ st'.file = st.file /\ st'.next = st.next
  BY <1>1, <1>2 DEF EvalFields
<1>4. EvalsState(st') /\ HasChosen(st') /\ ResultsOf(st'.results, calls')
  BY <1>2, <1>3 DEF EvalsState, HasChosen, ResultsOf
<1>5. /\ CallsOk' /\ DOMAIN calls' = 1 .. Len(calls) + 1 /\ DOMAIN calls = 1 .. Len(calls)
      /\ Len(calls) \in Nat /\ \A k \in DOMAIN calls : calls'[k] = calls[k]
      /\ calls'[Len(calls) + 1].of = c /\ ~calls'[Len(calls) + 1].done
      /\ calls'[Len(calls) + 1].got = <<>>
  BY <1>1, StartFacts, CallsRange
<1>6. c.items \in Seq(Item) /\ c.items # <<>>
  <2>1. st.chosen \in DOMAIN st.sets
    BY <1>1 DEF SelectedSet
  <2>2. c.items = st.sets[st.chosen]
    BY <1>1, <2>1 DEF SelectedSet
  <2> QED BY <1>1, <1>2, <2>1, <2>2 DEF EvalsState
<1>7. RunOk(calls'[Len(calls) + 1])
  <2>1. PICK r : r = calls'[Len(calls) + 1]
    OBVIOUS
  <2>2. r.of.items = c.items /\ ~r.done /\ r.got = <<>>
    BY <1>5, <2>1
  <2>3. Len(r.of.items) \in Nat /\ Len(r.of.items) # 0
    <3> HIDE DEF Item
    <3> QED BY <1>6, <2>2
  <2>4. r.got \in Seq(Verdict) /\ Len(r.got) = 0 /\ DOMAIN r.got = {}
    <3> HIDE DEF Verdict
    <3> QED BY <2>2
  <2>5. Len(r.got) <= Len(r.of.items) /\ Len(r.got) # Len(r.of.items)
    BY <2>3, <2>4
  <2>6. RunOk(r)
    BY <1>6, <2>2, <2>4, <2>5 DEF RunOk
  <2> QED BY <2>1, <2>6
<1>8. \A k \in DOMAIN calls' : Is(k, "eval")' => RunOk(calls'[k])
  <2>1. \A k \in DOMAIN calls' : k \in DOMAIN calls \/ k = Len(calls) + 1
    BY <1>5
  <2>2. \A k \in DOMAIN calls : Is(k, "eval") => RunOk(calls[k])
    BY <1>1 DEF EvalsInv
  <2> QED BY <1>5, <1>7, <2>1, <2>2 DEF Is
<1>9. EvalsInv'
  BY <1>4, <1>8 DEF EvalsInv
<1> QED BY <1>1, <1>5, <1>9

\* A verdict comes for the item the run has come to.
LEMMA EvalItemInv ==
    ASSUME CallsOk, EvalsInv, NEW k \in DOMAIN calls, NEW o \in Outcomes, EvalItem(k, o)
    PROVE  CallsOk' /\ EvalsInv' /\ UNCHANGED <<screen, tab, lists>> /\ screen = "evals"
<1>1. screen = "evals" /\ UNCHANGED <<screen, tab, lists>>
  BY DEF EvalItem, Quiet, tableVars
<1>2. EvalsState(st) /\ HasChosen(st) /\ ResultsOf(st.results, calls) /\ DOMAIN st = EvalFields
  BY <1>1 DEF EvalsInv, EvalsState
<1>item. PICK items, got, at, v, more, last :
            /\ items = calls[k].of.items /\ got = calls[k].got /\ at = Len(got) + 1
            /\ v = [id |-> items[at].id, is |-> o] /\ more = Append(got, v)
            /\ last = (Len(more) = Len(items))
  OBVIOUS
<1>last. last \in BOOLEAN /\ (last <=> Len(more) = Len(items))
  BY <1>item
<1>3. /\ calls[k].kind = "eval" /\ ~calls[k].done
      /\ calls' = [calls EXCEPT ![k] = [calls[k] EXCEPT !.got = more, !.done = last]]
      /\ st' = IF last THEN [st EXCEPT !.results = <<k>>, !.loading = FALSE] ELSE st
  <2>1. /\ calls[k].kind = "eval" /\ ~calls[k].done
        /\ calls' = [calls EXCEPT ![k].got = more, ![k].done = last]
        /\ st' = IF last THEN [st EXCEPT !.results = <<k>>, !.loading = FALSE] ELSE st
    BY <1>item, Zenon DEF EvalItem
  <2>2. calls' = [calls EXCEPT ![k] = [calls[k] EXCEPT !.got = more, !.done = last]]
    BY <2>1
  <2> QED BY <2>1, <2>2
<1>parts. /\ items = calls[k].of.items /\ got = calls[k].got /\ at = Len(got) + 1
          /\ v = [id |-> items[at].id, is |-> o] /\ more = Append(got, v)
  BY <1>item
<1>4. RunOk(calls[k])
  BY <1>1, <1>3 DEF EvalsInv, Is
<1>5. PICK c : c = [calls[k] EXCEPT !.got = more, !.done = last]
  OBVIOUS
<1>6. /\ DOMAIN c = CallFields /\ c.done = last /\ c.got = more /\ c.of = calls[k].of
      /\ c.kind = "eval" /\ c.done \in BOOLEAN
  <2>1. DOMAIN calls[k] = CallFields
    BY DEF CallsOk
  <2>2. /\ DOMAIN c = CallFields /\ c.done = last /\ c.got = more /\ c.of = calls[k].of
        /\ c.kind = calls[k].kind
    BY <1>5, <2>1 DEF CallFields
  <2> QED BY <1>3, <1>last, <2>2
<1>7. /\ CallsOk' /\ DOMAIN calls' = DOMAIN calls
      /\ calls'[k] = c /\ \A j \in DOMAIN calls : j # k => calls'[j] = calls[j]
  BY <1>3, <1>5, <1>6, WrittenFacts, Zenon
<1>8. /\ items \in Seq(Item) /\ got \in Seq(Verdict) /\ Len(got) < Len(items)
      /\ \A i \in DOMAIN got : got[i].id = items[i].id
  <2>1. Len(got) \in Nat /\ Len(items) \in Nat /\ Len(got) <= Len(items) /\ Len(got) # Len(items)
    <3>1. items \in Seq(Item) /\ got \in Seq(Verdict)
      BY <1>parts, <1>4 DEF RunOk
    <3>2. Len(got) <= Len(items) /\ Len(got) # Len(items)
      BY <1>3, <1>parts, <1>4 DEF RunOk
    <3> HIDE DEF Item, Verdict
    <3> QED BY <3>1, <3>2
  <2>2. Len(got) < Len(items)
    BY <2>1
  <2> QED BY <1>parts, <1>4, <2>2 DEF RunOk
<1>9. v \in Verdict /\ v.id = items[at].id
  <2>1. items[at] \in Item
    <3> HIDE DEF Item, Verdict
    <3> QED BY <1>parts, <1>8
  <2> QED BY <1>parts, <2>1 DEF Item, Verdict
<1>10. RunOk(c)
  <2> HIDE DEF Item, Verdict
  <2>1. /\ more \in Seq(Verdict) /\ Len(more) = Len(got) + 1 /\ DOMAIN more = 1 .. at
        /\ more[at] = v /\ \A i \in DOMAIN got : more[i] = got[i]
        /\ \A i \in 1 .. at : i \in DOMAIN got \/ i = at
    BY <1>parts, <1>8, <1>9
  <2>2. Len(more) <= Len(items)
    <3>1. Len(got) \in Nat /\ Len(items) \in Nat
      BY <1>8
    <3> QED BY <1>8, <2>1, <3>1
  <2>3. \A i \in DOMAIN more : more[i].id = items[i].id
    BY <1>8, <1>9, <2>1
  <2>4. c.of.items = items
    BY <1>parts, <1>6
  <2>5. c.done <=> Len(more) = Len(items)
    BY <1>last, <1>6
  <2> QED BY <1>6, <1>8, <2>1, <2>2, <2>3, <2>4, <2>5, Zenon DEF RunOk
<1>11. \A j \in DOMAIN calls' : Is(j, "eval")' => RunOk(calls'[j])
  BY <1>1, <1>7, <1>10 DEF EvalsInv, Is
<1>12. EvalsState(st') /\ HasChosen(st') /\ ResultsOf(st'.results, calls')
  <2>1. CASE last
    <3>1. st' = [st EXCEPT !.results = <<k>>, !.loading = FALSE]
      BY <1>3, <2>1
    <3>2. /\ DOMAIN st' = EvalFields /\ st'.sets = st.sets /\ st'.chosen = st.chosen
          /\ st'.results = <<k>>
          /\ st'.reading = st.reading /\ st'.file = st.file /\ st'.next = st.next
      BY <1>2, <3>1 DEF EvalFields
    <3>3. k \in DOMAIN calls' /\ calls'[k].kind = "eval" /\ calls'[k].done
      BY <1>6, <1>7, <2>1
    <3>4. EvalsState(st') /\ HasChosen(st')
      BY <1>2, <3>2 DEF EvalsState, HasChosen
    <3>5. ResultsOf(st'.results, calls')
      BY <3>2, <3>3, Zenon DEF ResultsOf
    <3> QED BY <3>4, <3>5
  <2>2. CASE ~last
    <3>1. st' = st
      BY <1>3, <2>2
    <3>2. ASSUME NEW j \in DOMAIN calls, calls[j].kind = "eval", calls[j].done
          PROVE  j \in DOMAIN calls' /\ calls'[j] = calls[j]
      BY <1>3, <1>7, <3>2
    <3>3. ResultsOf(st.results, calls')
      <4>1. CASE st.results = <<>>
        BY <4>1 DEF ResultsOf
      <4>2. ASSUME NEW j \in DOMAIN calls, st.results = <<j>>, calls[j].kind = "eval", calls[j].done
            PROVE  ResultsOf(st.results, calls')
        <5>1. j \in DOMAIN calls' /\ calls'[j] = calls[j]
          BY <3>2, <4>2
        <5> QED BY <4>2, <5>1, Zenon DEF ResultsOf
      <4> QED BY <1>2, <4>1, <4>2, Zenon DEF ResultsOf
    <3> QED BY <1>2, <3>1, <3>3
  <2> QED BY <1>last, <2>1, <2>2, Zenon
<1>13. EvalsInv'
  BY <1>11, <1>12 DEF EvalsInv
<1> QED BY <1>1, <1>7, <1>13

LEMMA EvalsNextInv ==
    ASSUME CallsOk, EvalsInv, EvalsNext
    PROVE  CallsOk' /\ EvalsInv' /\ UNCHANGED <<screen, tab, lists>> /\ screen = "evals"
<1>1. CASE screen = "evals" /\ \E n \in Names : HandleCreateSet(n) \/ ChooseSet(n)
  BY <1>1, SetEventInv
<1>2. CASE HandleDeleteSet
  BY <1>2, SetEventInv DEF HandleDeleteSet, User
<1>3. CASE HandleAddItem
  BY <1>3, ItemEventInv DEF HandleAddItem, User
<1>4. CASE screen = "evals" /\ \E i \in DOMAIN SelectedSet : HandleRemoveItem(i)
  BY <1>4, ItemEventInv
<1>5. CASE LoadSampleSet
  BY <1>5, LoadSampleInv
<1>6. CASE (\E f \in Formats : HandleImportFile(f)) \/ FileRead \/ CloseImport \/ EvalsReset
  BY <1>6, DialogInv
<1>7. CASE \E raw \in DOMAIN Trim : HandleImport(raw)
  BY <1>7, ImportInv
<1>8. CASE RunEvals
  BY <1>8, RunEvalsInv
<1>9. CASE \E k \in DOMAIN calls, o \in Outcomes : EvalItem(k, o)
  BY <1>9, EvalItemInv
<1> QED BY <1>1, <1>2, <1>3, <1>4, <1>5, <1>6, <1>7, <1>8, <1>9, Zenon DEF EvalsNext-----------------------------------------------------------------------------
(* All pages. *)

\* The page of the pipeline only writes over its calls.
LEMMA RagNextInv ==
    ASSUME CallsOk, RagNext
    PROVE  CallsOk' /\ UNCHANGED <<screen, tab, lists>> /\ screen = "rag"
<1>1. CASE \/ \E t \in Words : RagSetQuery(t) \/ OnFollowupClick(t)
           \/ \E s \in Optional : RagToggle(s)
           \/ screen = "rag" /\ \E s \in ToSet(AllSteps) : HandleSelectStep(s)
           \/ RagReset
  <2>1. screen = "rag" /\ UNCHANGED <<screen, tab, lists, calls>>
    BY <1>1, Zenon DEF RagSetQuery, OnFollowupClick, RagToggle, HandleSelectStep, RagReset, User, Only
  <2> QED BY <2>1 DEF CallsOk
<1>2. CASE RagSubmit
  <2>1. screen = "rag" /\ UNCHANGED <<screen, tab, lists>> /\ \E of : Start("rag", of)
    BY <1>2 DEF RagSubmit, User, tableVars
  <2> QED BY <2>1, StartFacts
<1>3. ASSUME NEW k \in DOMAIN calls, NEW ps, NEW p, Event(k, ps, p)
      PROVE  CallsOk' /\ UNCHANGED <<screen, tab, lists>> /\ screen = "rag"
  <2>1. PICK c, g, d : /\ g = <<p>> /\ d = (p = "ended")
                       /\ c = [calls[k] EXCEPT !.got = g, !.done = d]
    OBVIOUS
  <2>2. /\ screen = "rag" /\ UNCHANGED <<screen, tab, lists>>
        /\ calls' = [calls EXCEPT ![k].got = g, ![k].done = d]
    BY <1>3, <2>1 DEF Event, Quiet, tableVars
  <2>3. calls' = [calls EXCEPT ![k] = c] /\ d \in BOOLEAN
    BY <2>1, <2>2
  <2>4. DOMAIN c = CallFields /\ c.done \in BOOLEAN
    BY <2>1, <2>3 DEF CallsOk, CallFields
  <2> QED BY <2>2, <2>3, <2>4, WrittenFacts
<1>4. CASE \E k \in DOMAIN calls :
              \/ HandleClassification(k) \/ HandleHit(k) \/ HandleAnswerChunk(k)
              \/ HandleFollowUpQuestion(k) \/ HandleConfidence(k)
              \/ HandleStreamEnd(k) \/ HandleError(k) \/ StreamStops(k)
  <2>1. \E k \in DOMAIN calls : \E ps, p : Event(k, ps, p)
    BY <1>4, Zenon DEF HandleClassification, HandleHit, HandleAnswerChunk, HandleFollowUpQuestion,
                       HandleConfidence, HandleStreamEnd, HandleError, StreamStops
  <2> QED BY <1>3, <2>1
<1> QED BY <1>1, <1>2, <1>4, Zenon DEF RagNext

\* The inductive invariant: the calls, the table, and the page that is open.
Inv == CallsOk /\ TabInv /\ ExploreInv /\ RerankInv /\ ChunkInv /\ EvalsInv /\ ChatInv

LEMMA InitInv == Init => Inv
<1> SUFFICES ASSUME Init PROVE Inv
  OBVIOUS
<1>1. calls = <<>> /\ st = Opened(screen)
  BY DEF Init
<1>2. DOMAIN calls = {} /\ <<>> \in Seq({})
  BY <1>1
<1>3. CallsOk
  BY <1>1, <1>2 DEF CallsOk
<1>4. TabInv
  <2>1. PICK t :
           /\ t \in AllTables \/ t = ""
           /\ tab = [NoTable EXCEPT !.table = t, !.loading = (t # "")]
           /\ lists = IF t = "" THEN <<>> ELSE <<[of |-> t, done |-> FALSE]>>
    BY DEF Init
  <2>2. PICK b : b = (t # "") /\ tab = [NoTable EXCEPT !.table = t, !.loading = b]
    BY <2>1
  <2>3. IsTab(tab) /\ tab.table = t
    BY <2>2 DEF IsTab, TabFields, NoTable
  <2>4. CASE t = ""
    <3>1. lists = <<>>
      BY <2>1, <2>4
    <3>2. <<>> \in Seq(Entry)
      OBVIOUS
    <3> QED BY <2>3, <2>4, <3>1, <3>2 DEF TabInv, Lists
  <2>5. CASE t # ""
    <3>1. PICK e : e = [of |-> t, done |-> FALSE]
      OBVIOUS
    <3>2. e \in Entry /\ e.of = t /\ e.done = FALSE
      BY <2>1, <2>5, <3>1 DEF Entry
    <3>3. lists = <<e>>
      BY <2>1, <2>5, <3>1
    <3>4. <<e>> \in Seq(Entry) /\ Len(<<e>>) = 1 /\ <<e>>[1] = e
      BY <3>2
    <3>5. lists \in Lists /\ Len(lists) = 1 /\ lists[Len(lists)] = e
      BY <3>3, <3>4 DEF Lists
    <3>6. Len(lists) > 0
      BY <3>5
    <3> QED BY <2>3, <3>2, <3>5, <3>6 DEF TabInv
  <2> QED BY <2>4, <2>5
<1>5. ExploreInv
  <2>1. ASSUME screen = "explore" PROVE st = ExploreInit
    BY <1>1, <2>1 DEF Opened
  <2>2. DOMAIN ExploreInit = ExploreFields /\ ExploreInit.overlap = FALSE /\ ExploreInit.result = 0
    BY DEF ExploreInit, ExploreFields
  <2> QED BY <1>2, <2>1, <2>2 DEF ExploreInv, InOrder
<1>6. RerankInv
  <2>1. ASSUME screen = "rerank" PROVE st = RerankInit
    BY <1>1, <2>1 DEF Opened
  <2>2. /\ DOMAIN RerankInit = RerankFields /\ RerankInit.overlap = FALSE
        /\ RerankInit.result = 0 /\ RerankInit.reranked = 0
    BY DEF RerankInit, RerankFields
  <2> QED BY <1>2, <2>1, <2>2 DEF RerankInv, InOrder, RerankOfHits
<1>7. ChunkInv
  <2>1. ASSUME screen = "chunk" PROVE st = DocInit
    BY <1>1, <2>1 DEF Opened
  <2>2. DOMAIN DocInit = DocFields /\ DocInit.edited = FALSE /\ DocInit.result = 0
    BY DEF DocInit, DocFields
  <2> QED BY <1>2, <2>1, <2>2 DEF ChunkInv
<1>8. EvalsInv
  <2>1. ASSUME screen = "evals" PROVE st = EvalsInit
    BY <1>1, <2>1 DEF Opened
  <2>2. /\ DOMAIN EvalsInit = EvalFields /\ EvalsInit.next = 1 /\ DOMAIN EvalsInit.sets = {}
        /\ EvalsInit.chosen = "" /\ EvalsInit.results = <<>>
        /\ EvalsInit.reading = <<>> /\ EvalsInit.file = <<>>
    BY DEF EvalsInit, EvalFields, NoSets
  <2>3. EvalsInit.next \in Nat /\ \A n \in DOMAIN EvalsInit.sets : EvalsInit.sets[n] \in Seq(Item)
    <3>1. EvalsInit.next = 1
      BY <2>2
    <3>2. EvalsInit.next \in Nat
      BY <3>1
    <3>3. \A n \in DOMAIN EvalsInit.sets : EvalsInit.sets[n] \in Seq(Item)
      BY <2>2, Zenon
    <3> QED BY <3>2, <3>3
  <2>4. EvalsState(EvalsInit) /\ HasChosen(EvalsInit) /\ ResultsOf(EvalsInit.results, calls)
    BY <2>2, <2>3, Zenon DEF EvalsState, HasChosen, ResultsOf
  <2> QED BY <1>2, <2>1, <2>4 DEF EvalsInv
<1>9. ChatInv
  <2>1. ASSUME screen = "chat" PROVE st = ChatInit
    BY <1>1, <2>1 DEF Opened
  <2>2. DOMAIN ChatInit = ChatFields /\ ChatInit.turns = <<>>
    BY DEF ChatInit, ChatFields
  <2>3. \E S : ChatInit.turns \in Seq(S)
    BY <1>2, <2>2
  <2>4. DOMAIN ChatInit.turns = {}
    BY <2>2
  <2> QED BY <2>1, <2>2, <2>3, <2>4, Zenon DEF ChatInv
<1> QED BY <1>3, <1>4, <1>5, <1>6, <1>7, <1>8, <1>9 DEF Inv

\* A step that leaves the page and its calls alone.
LEMMA PagesKept ==
    ASSUME Inv, UNCHANGED <<screen, st, calls>>
    PROVE  CallsOk' /\ ExploreInv' /\ RerankInv' /\ ChunkInv' /\ EvalsInv' /\ ChatInv'
<1>1. CallsOk'
  BY DEF Inv, CallsOk
<1>2. ExploreInv'
  BY DEF Inv, ExploreInv, InOrder, IsOpen, Is
<1>3. RerankInv'
  BY DEF Inv, RerankInv, RerankOfHits, InOrder, IsOpen, Is
<1>4. ChunkInv'
  BY DEF Inv, ChunkInv, IsOpen
<1>5. EvalsInv'
  BY DEF Inv, EvalsInv, Is
<1>6. ChatInv'
  BY DEF Inv, ChatInv
<1> QED BY <1>1, <1>2, <1>3, <1>4, <1>5, <1>6

LEMMA NextInv == Inv /\ [Next]_vars => Inv'
<1> SUFFICES ASSUME Inv, [Next]_vars PROVE Inv'
  OBVIOUS
<1>1. CASE UNCHANGED vars
  BY <1>1, PagesKept, TabKept DEF Inv, vars, tableVars
<1>2. CASE TableNext
  BY <1>2, TableInv, PagesKept DEF Inv
<1>3. ASSUME UNCHANGED <<screen, tab, lists>>, CallsOk'
      PROVE  /\ TabInv'
             /\ screen # "explore" => ExploreInv'
             /\ screen # "rerank" => RerankInv'
             /\ screen # "chunk" => ChunkInv'
             /\ screen # "evals" => EvalsInv'
             /\ screen # "chat" => ChatInv'
  <2>1. TabInv'
    BY <1>3, TabKept DEF Inv, tableVars
  <2> QED BY <1>3, <2>1 DEF ExploreInv, RerankInv, ChunkInv, EvalsInv, ChatInv
<1>4. CASE ExploreNext
  <2>1. CallsOk' /\ ExploreInv' /\ UNCHANGED <<screen, tab, lists>> /\ screen = "explore"
    BY <1>4, ExploreNextInv DEF Inv
  <2> QED BY <1>3, <2>1 DEF Inv
<1>5. CASE RerankNext
  <2>1. CallsOk' /\ RerankInv' /\ UNCHANGED <<screen, tab, lists>> /\ screen = "rerank"
    BY <1>5, RerankNextInv DEF Inv
  <2> QED BY <1>3, <2>1 DEF Inv
<1>6. CASE DocNext
  <2>1. CallsOk' /\ ChunkInv' /\ UNCHANGED <<screen, tab, lists>> /\ screen = "chunk"
    BY <1>6, DocNextInv DEF Inv
  <2> QED BY <1>3, <2>1 DEF Inv
<1>7. CASE EvalsNext
  <2>1. CallsOk' /\ EvalsInv' /\ UNCHANGED <<screen, tab, lists>> /\ screen = "evals"
    BY <1>7, EvalsNextInv DEF Inv
  <2> QED BY <1>3, <2>1 DEF Inv
<1>8. CASE RagNext
  <2>1. CallsOk' /\ UNCHANGED <<screen, tab, lists>> /\ screen = "rag"
    BY <1>8, RagNextInv DEF Inv
  <2> QED BY <1>3, <2>1 DEF Inv
<1>9. CASE ChatNext
  <2>1. CallsOk' /\ ChatInv' /\ UNCHANGED <<screen, tab, lists>> /\ screen = "chat"
    BY <1>9, ChatNextInv DEF Inv
  <2> QED BY <1>3, <2>1 DEF Inv
<1> QED BY <1>1, <1>2, <1>4, <1>5, <1>6, <1>7, <1>8, <1>9 DEF Next

LEMMA Invariance == Spec => []Inv
BY InitInv, NextInv, PTL DEF Spec
-----------------------------------------------------------------------------
(* Theorems *)

\* What a page shows is of its latest list of indexes, search, text and chat: the
\* contexts and handlers of the playground pages apply their answers in any order,
\* and only what the histories name (a list of indexes or a search that was
\* overtaken, a text that was edited) may be of an older one.
THEOREM Latest == Spec => []LatestShown
<1>1. ASSUME Inv PROVE LatestShown
  <2>1. IndexOfTable
    <3>1. (\A k \in DOMAIN lists : lists[k].done) /\ Len(lists) > 0 => lists[Len(lists)].done
      <4>1. Len(lists) \in Nat /\ DOMAIN lists = 1 .. Len(lists)
        BY <1>1, TabFacts DEF Inv
      <4> QED BY <4>1
    <3> SUFFICES ASSUME tab.table # "", ~tab.overtaken, \A k \in DOMAIN lists : lists[k].done
                 PROVE  /\ tab.index \in ToSet(IndexesOf[tab.table]) \cup {""}
                        /\ ToSet(tab.indexes) \subseteq ToSet(IndexesOf[tab.table])
                        /\ ToSet(tab.chatIndexes) \subseteq ToSet(ChatIndexesOf[tab.table])
      BY DEF IndexOfTable
    <3>2. lists[Len(lists)].done
      BY <1>1, <3>1, Zenon DEF Inv, TabInv
    <3> QED BY <1>1, <3>2 DEF Inv, TabInv
  <2>2. LatestSearchShown
    <3>1. CASE screen = "explore"
      BY <1>1, <3>1 DEF LatestSearchShown, Inv, ExploreInv, InOrder, Is
    <3>2. CASE screen = "rerank"
      BY <1>1, <3>2 DEF LatestSearchShown, Inv, RerankInv, RerankOfHits, InOrder, Is
    <3> QED BY <3>1, <3>2 DEF LatestSearchShown
  <2>3. ChunksOfText
    BY <1>1 DEF ChunksOfText, Inv, ChunkInv
  <2>4. ChatOfItsKey
    BY <1>1, Zenon DEF ChatOfItsKey, Inv, ChatInv, TurnOk
  <2> QED BY <2>1, <2>2, <2>3, <2>4 DEF LatestShown
<1> QED BY <1>1, Invariance, PTL

\* The summary counts every verdict once.
LEMMA SummaryCounts ==
    ASSUME NEW got \in Seq(Verdict)
    PROVE  Summary(got)["pass"] + Summary(got)["fail"] + Summary(got)["error"] = Len(got)
<1> DEFINE Of(o) == {i \in DOMAIN got : got[i].is = o}
<1>1. Len(got) \in Nat /\ DOMAIN got = 1 .. Len(got) /\ \A i \in DOMAIN got : got[i] \in Verdict
  BY ElementOf, Zenon
<1>2. IsFiniteSet(DOMAIN got) /\ Cardinality(DOMAIN got) = Len(got)
  <2>1. IsFiniteSet(1 .. Len(got)) /\ Cardinality(1 .. Len(got)) = Len(got)
    BY <1>1, FS_Interval
  <2> QED BY <1>1, <2>1
<1>3. /\ Of("pass") \cap Of("fail") = {}
      /\ (Of("pass") \cup Of("fail")) \cap Of("error") = {}
      /\ (Of("pass") \cup Of("fail")) \cup Of("error") = DOMAIN got
  <2>1. \A i \in DOMAIN got : got[i].is = "pass" \/ got[i].is = "fail" \/ got[i].is = "error"
    BY <1>1 DEF Verdict, Outcomes
  <2> QED BY <2>1
<1>4. \A o : IsFiniteSet(Of(o))
  <2> SUFFICES ASSUME NEW o PROVE IsFiniteSet(Of(o))
    OBVIOUS
  <2>1. Of(o) \subseteq DOMAIN got
    OBVIOUS
  <2> HIDE DEF Of
  <2> QED BY <1>2, <2>1, FS_Subset
<1>5. PICK P, F, E : P = Of("pass") /\ F = Of("fail") /\ E = Of("error")
  OBVIOUS
<1>6. IsFiniteSet(P) /\ IsFiniteSet(F) /\ IsFiniteSet(E)
  BY <1>4, <1>5
<1>7. Cardinality({}) = 0
  BY FS_EmptySet
<1>8. P \cap F = {} /\ (P \cup F) \cap E = {} /\ (P \cup F) \cup E = DOMAIN got
  BY <1>3, <1>5
<1>9. /\ Summary(got)["pass"] = Cardinality(P) /\ Summary(got)["fail"] = Cardinality(F)
      /\ Summary(got)["error"] = Cardinality(E)
  BY <1>5 DEF Summary, Outcomes
<1>10. Cardinality(P \cup F) = Cardinality(P) + Cardinality(F) - 0 /\ IsFiniteSet(P \cup F)
  BY <1>6, <1>7, <1>8, FS_Union
<1>11. Cardinality((P \cup F) \cup E) = Cardinality(P \cup F) + Cardinality(E) - 0
  <2>1. PICK U : U = P \cup F
    OBVIOUS
  <2>2. IsFiniteSet(U) /\ IsFiniteSet(E) /\ U \cap E = {}
    BY <1>6, <1>8, <1>10, <2>1
  <2>3. Cardinality(U \cup E) = Cardinality(U) + Cardinality(E) - Cardinality(U \cap E)
    BY <2>2, FS_Union, Zenon
  <2> QED BY <1>7, <2>1, <2>2, <2>3
<1>12. Cardinality(P) \in Nat /\ Cardinality(F) \in Nat /\ Cardinality(E) \in Nat
  BY <1>6, FS_CardinalityType
<1>13. Cardinality((P \cup F) \cup E) = Len(got)
  BY <1>2, <1>8
<1> QED BY <1>9, <1>10, <1>11, <1>12, <1>13

\* An eval run and the eval sets survive each other: the results have a verdict
\* for every item of the set as it was when runEvals started, in order, and
\* after every order of creating, deleting, importing and the effect of
\* EvalsPlaygroundPage a set is selected whenever there is one.
THEOREM RunsAndSets == Spec => []EvalsIntact
<1>1. ASSUME Inv PROVE EvalsIntact
  <2>1. SelectedSetExists
    BY <1>1 DEF SelectedSetExists, Inv, EvalsInv, HasChosen
  <2>2. EvalResultsComplete
    <3> SUFFICES ASSUME screen = "evals", st.results # <<>>
                 PROVE  LET run == calls[st.results[1]]
                        IN /\ [i \in DOMAIN run.got |-> run.got[i].id]
                                  = [i \in DOMAIN run.of.items |-> run.of.items[i].id]
                           /\ Summary(run.got)["pass"] + Summary(run.got)["fail"]
                                  + Summary(run.got)["error"] = Len(run.of.items)
      BY DEF EvalResultsComplete
    <3>1. PICK k \in DOMAIN calls : st.results = <<k>> /\ calls[k].kind = "eval" /\ calls[k].done
      BY <1>1 DEF Inv, EvalsInv, ResultsOf
    <3>2. PICK run : run = calls[k]
      OBVIOUS
    <3>3. st.results[1] = k
      BY <3>1
    <3>4. RunOk(run) /\ run.done
      BY <1>1, <3>1, <3>2 DEF Inv, EvalsInv, Is
    <3>5. /\ run.got \in Seq(Verdict) /\ run.of.items \in Seq(Item)
          /\ Len(run.got) = Len(run.of.items)
          /\ \A i \in DOMAIN run.got : run.got[i].id = run.of.items[i].id
      BY <3>4 DEF RunOk
    <3>6. DOMAIN run.got = DOMAIN run.of.items
      <4>1. DOMAIN run.got = 1 .. Len(run.got) /\ DOMAIN run.of.items = 1 .. Len(run.of.items)
        BY <3>5, ElementOf, Zenon
      <4> QED BY <3>5, <4>1
    <3>7. [i \in DOMAIN run.got |-> run.got[i].id]
              = [i \in DOMAIN run.of.items |-> run.of.items[i].id]
      BY <3>5, <3>6, Zenon
    <3>8. Summary(run.got)["pass"] + Summary(run.got)["fail"] + Summary(run.got)["error"]
              = Len(run.of.items)
      BY <3>5, SummaryCounts
    <3> QED BY <3>2, <3>3, <3>7, <3>8
  <2> QED BY <2>1, <2>2 DEF EvalsIntact
<1> QED BY <1>1, Invariance, PTL
=============================================================================
