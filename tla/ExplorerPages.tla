--------------------------- MODULE ExplorerPages ---------------------------
(***************************************************************************)
(* The pages that search a table: AntflyEmbeddingPlaygroundPage            *)
(* ("explore") and AntflyRerankingPlaygroundPage ("rerank").               *)
(*                                                                         *)
(* Their buttons are disabled while a call is running; the Enter key of    *)
(* their inputs is not, and the AbortController of a search reaches no     *)
(* call. overlap (history): a call was started while another was running   *)
(* whose answer it competes with.                                          *)
(***************************************************************************)
EXTENDS TableProvider, TLC

CONSTANTS
    MaxHits,      \* bound on the hits of a search
    RerankScores, \* scores of a reranker
    Rerankers     \* lists of rerankers that Termite may offer

ASSUME ExplorerAssumption == MaxHits \in Nat /\ RerankScores \subseteq Nat

Typed == Words \cup {""}

\* What both search pages do once the checks are passed, with the fields c
\* cleared; the button is also refused while busy.
Search(enter, busy, ok, c) ==
    /\ enter \/ (~busy /\ ok)
    /\ IF ~ok THEN Only([st EXCEPT !.error = TRUE])
       ELSE /\ Start("search", [query |-> st.query, table |-> tab.table, index |-> tab.index])
            /\ st' = [c EXCEPT !.error = FALSE, !.overlap = @ \/ Open("search") # {}]
            /\ UNCHANGED tableVars

-----------------------------------------------------------------------------
(* AntflyEmbeddingPlaygroundPage *)

ExploreInit == [query |-> "", loading |-> FALSE, error |-> FALSE, result |-> 0,
                raw |-> FALSE, overlap |-> FALSE]

ExploreSetQuery(t) == User("explore") /\ Only([st EXCEPT !.query = t])
ExploreToggleRaw ==
    User("explore") /\ st.result # 0 /\ Only([st EXCEPT !.raw = ~@])

ExploreChecks == st.query # "" /\ tab.table # "" /\ tab.index # ""

ExploreSearch(enter) ==
    /\ User("explore")
    /\ Search(enter, st.loading, ExploreChecks, [st EXCEPT !.loading = TRUE, !.result = 0])

ExploreSettles(k) ==
    /\ screen = "explore"
    /\ \E n \in 0 .. MaxHits :
          Ends(k, "search", <<n>>) /\ st' = [st EXCEPT !.result = k, !.loading = FALSE]

\* Mutant of ExploreFails: a failure leaves isLoading on.
ExploreFailsLoading(k) ==
    /\ screen = "explore"
    /\ Ends(k, "search", <<>>)
    /\ st' = [st EXCEPT !.error = TRUE]

ExploreFails(k) ==
    /\ screen = "explore"
    /\ Ends(k, "search", <<>>)
    /\ st' = [st EXCEPT !.error = TRUE, !.loading = FALSE]

ExploreReset ==
    /\ User("explore")
    /\ Only([st EXCEPT !.query = "", !.result = 0, !.error = FALSE])

\* The cards are numbered; the bar of a hit is relative to the best score.
ExplorePanels ==
    (IF tab.table = "" THEN {"select a table"} ELSE {})
        \cup (IF st.error THEN {"error"} ELSE {})
        \cup (IF st.result # 0 THEN {"stats", IF calls[st.result].got = <<0>> THEN "no results" ELSE "hits"}
              ELSE IF ~st.error /\ tab.table # "" THEN {"hint"} ELSE {})

ExploreNext ==
    \/ \E t \in Typed : ExploreSetQuery(t)
    \/ ExploreToggleRaw \/ ExploreReset
    \/ \E enter \in BOOLEAN : ExploreSearch(enter)
    \/ \E k \in DOMAIN calls : ExploreSettles(k) \/ ExploreFails(k)

-----------------------------------------------------------------------------
(* AntflyRerankingPlaygroundPage *)

RerankInit == [query |-> "", searching |-> FALSE, reranking |-> FALSE, error |-> FALSE,
               result |-> 0, reranked |-> 0, model |-> "", offered |-> <<>>,
               loaded |-> FALSE, overlap |-> FALSE]

\* GET /api/models: the builtin reranker is preferred.
RerankModels(ms) ==
    /\ screen = "rerank" /\ ~st.loaded
    /\ st' = [st EXCEPT !.loaded = TRUE, !.offered = ms,
                 !.model = IF ms = <<>> THEN @
                           ELSE IF "builtin" \in ToSet(ms) THEN "builtin" ELSE Head(ms)]
    /\ Quiet /\ UNCHANGED <<tab, lists, calls>>

RerankSetQuery(t) == User("rerank") /\ Only([st EXCEPT !.query = t])
RerankSetModel(m) ==
    User("rerank") /\ m \in ToSet(st.offered) /\ Only([st EXCEPT !.model = m])

RerankChecks == st.query # "" /\ tab.table # ""

\* handleSearch; an open rerank of the hits before keeps running.
RerankSearch(enter) ==
    /\ User("rerank")
    /\ Search(enter, st.searching, RerankChecks,
              [st EXCEPT !.searching = TRUE, !.result = 0, !.reranked = 0,
                         !.overlap = @ \/ Open("rerank") # {}])

RerankSettles(k) ==
    /\ screen = "rerank"
    /\ \E n \in 0 .. MaxHits :
          Ends(k, "search", <<n>>) /\ st' = [st EXCEPT !.result = k, !.searching = FALSE]

RerankFails(k) ==
    /\ screen = "rerank"
    /\ \/ Ends(k, "search", <<>>) /\ st' = [st EXCEPT !.error = TRUE, !.searching = FALSE]
       \/ Ends(k, "rerank", <<>>) /\ st' = [st EXCEPT !.error = TRUE, !.reranking = FALSE]

\* The hits of the render in which the button was pressed.
HitsOf(k) == calls[k].got[1]
HandleRerank ==
    /\ User("rerank")
    /\ st.result # 0 /\ HitsOf(st.result) > 0
    /\ st.reranked = 0 /\ ~st.reranking /\ st.model # ""
    /\ Start("rerank", [search |-> st.result])
    /\ st' = [st EXCEPT !.reranking = TRUE, !.error = FALSE, !.reranked = 0]
    /\ UNCHANGED tableVars

\* A stable sort by score, best first; the ranks and their changes.
Reranked(scores) ==
    LET hits == [i \in DOMAIN scores |-> [rank |-> i, score |-> scores[i]]]
        sorted == SortSeq(hits, LAMBDA a, b : a.score > b.score \/ (a.score = b.score /\ a.rank < b.rank))
    IN [i \in DOMAIN sorted |-> [rank |-> sorted[i].rank, score |-> sorted[i].score,
                                 new |-> i, change |-> sorted[i].rank + MaxHits - i]]

\* As many scores as hits, or an error.
HandleReranked(k) ==
    /\ screen = "rerank"
    /\ calls[k].kind = "rerank"
    /\ \E scores \in [1 .. HitsOf(calls[k].of.search) -> RerankScores] :
          /\ Ends(k, "rerank", <<Reranked(scores)>>)
          /\ st' = [st EXCEPT !.reranked = k, !.reranking = FALSE]

RerankReset ==
    /\ User("rerank")
    /\ Only([st EXCEPT !.query = "", !.result = 0, !.reranked = 0, !.error = FALSE])

RerankPanels ==
    (IF tab.table = "" THEN {"select a table"} ELSE {})
        \cup (IF st.error THEN {"error"} ELSE {})
        \cup (IF st.result = 0 THEN (IF st.error \/ tab.table = "" THEN {} ELSE {"hint"})
              ELSE {"stats"} \cup (IF HitsOf(st.result) > 0 THEN {"hits"} ELSE {})
                             \cup (IF st.reranked # 0 THEN {"reranked"} ELSE {}))

RerankNext ==
    \/ \E ms \in Rerankers : RerankModels(ms)
    \/ \E m \in UNION {ToSet(ms) : ms \in Rerankers} : screen = "rerank" /\ RerankSetModel(m)
    \/ \E t \in Typed : RerankSetQuery(t)
    \/ \E enter \in BOOLEAN : RerankSearch(enter)
    \/ HandleRerank \/ RerankReset
    \/ \E k \in DOMAIN calls : RerankSettles(k) \/ RerankFails(k) \/ HandleReranked(k)

=============================================================================
