---------------------------- MODULE AntflyPages ----------------------------
(***************************************************************************)
(* The Antfly playground pages of Antfarm over the shared table and index: *)
(* one of them is open while the tables and their indexes are loaded,      *)
(* switched and answered.                                                  *)
(***************************************************************************)
EXTENDS DocumentChunkPage, EvalsPage, RagPage, ChatPage

Opened(s) ==
    CASE s = "explore" -> ExploreInit
      [] s = "rerank" -> RerankInit
      [] s = "chunk" -> DocInit
      [] s = "evals" -> EvalsInit
      [] s = "rag" -> RagInit
      [] s = "chat" -> ChatInit

\* The table may be given by the URL: its indexes are asked for at once.
Init ==
    /\ screen \in Screens
    /\ \E t \in AllTables \cup {""} :
          /\ tab = [NoTable EXCEPT !.table = t, !.loading = (t # "")]
          /\ lists = IF t = "" THEN <<>> ELSE <<[of |-> t, done |-> FALSE]>>
    /\ st = Opened(screen)
    /\ calls = <<>> /\ events = 0

\* Answers of the servers: every call ends.
Answers ==
    \/ \E k \in DOMAIN lists : IndexesArrive(k) \/ IndexesFail(k)
    \/ \E k \in DOMAIN calls :
          \/ ExploreSettles(k) \/ ExploreFails(k) \/ RerankSettles(k) \/ RerankFails(k)
          \/ HandleReranked(k) \/ DocsFound(k) \/ DocumentLoaded(k) \/ DocFails(k)
          \/ Chunked(k) \/ ChatEnds(k) \/ HandleStreamEnd(k) \/ HandleError(k)
          \/ \E o \in Outcomes : EvalItem(k, o)

Next ==
    \/ TableNext \/ ExploreNext \/ RerankNext \/ DocNext \/ EvalsNext \/ RagNext \/ ChatNext

\* A call is answered or its connection fails.
Spec == Init /\ [][Next]_vars /\ WF_vars(Answers)

-----------------------------------------------------------------------------
(* Properties *)

\* The shared state and the calls have their types.
TypeOK ==
    /\ screen \in Screens /\ events \in Nat
    /\ tab.table \in AllTables \cup {""} /\ tab.loading \in BOOLEAN
    /\ tab.tables \in TableLists \cup {<<>>}
    /\ \A k \in DOMAIN lists : lists[k].of \in AllTables /\ lists[k].done \in BOOLEAN
    /\ \A k \in DOMAIN calls : calls[k].done \in BOOLEAN
    /\ Len(calls) <= MaxCalls /\ Len(lists) <= MaxCalls

\* Once the lists of indexes are in, the selected index and the indexes of the
\* chat are those of the selected table, unless an older list came after a later
\* one (table-provider.tsx does not cancel it).
IndexOfTable ==
    tab.table # "" /\ ~tab.overtaken /\ (\A k \in DOMAIN lists : lists[k].done) =>
        /\ tab.index \in ToSet(IndexesOf[tab.table]) \cup {""}
        /\ ToSet(tab.indexes) \subseteq ToSet(IndexesOf[tab.table])
        /\ ToSet(tab.chatIndexes) \subseteq ToSet(ChatIndexesOf[tab.table])

\* The hits that are shown are those of the last search, not of an older one
\* that stayed or came late; so is their rerank. The Enter key can start a
\* search over another: then the older one may win. Which table the search was
\* sent for is not part of this: the pages keep the hits of the table before
\* when another one is selected (AntflyEmbeddingPlaygroundPage.tsx:104-162).
LatestSearchShown ==
    screen \in {"explore", "rerank"} /\ ~st.overlap /\ st.result # 0 =>
        /\ \A k \in DOMAIN calls : calls[k].kind = "search" => k <= st.result
        /\ screen = "rerank" /\ st.reranked # 0 => calls[st.reranked].of.search = st.result

\* Reranking permutes the hits: best score first, ties in the order of the
\* search, and the rank changes cancel out.
RerankIsPermutation ==
    screen = "rerank" /\ st.reranked # 0 =>
        LET r == calls[st.reranked].got[1]
            total == FoldLeft(LAMBDA n, h : n + h.change, 0, r)
        IN /\ IsInjective([i \in DOMAIN r |-> r[i].rank])
           /\ Len(r) = HitsOf(calls[st.reranked].of.search)
           /\ total = MaxHits * Len(r)
           /\ \A i, j \in DOMAIN r : i < j =>
                 r[i].score > r[j].score \/ (r[i].score = r[j].score /\ r[i].rank < r[j].rank)

\* The chunks are drawn over the text they were made from, unless the user has
\* replaced it since: loading a document drops them.
ChunksOfText ==
    screen = "chunk" /\ st.result # 0 /\ ~st.edited => calls[st.result].of.text = st.text

\* Results of an eval run have one entry for each item of the set it was
\* started with, in order, whatever was removed, imported or deleted meanwhile
\* and whichever items failed.
EvalResultsComplete ==
    screen = "evals" /\ st.results # <<>> =>
        LET run == calls[st.results[1]]
        IN /\ [i \in DOMAIN run.got |-> run.got[i].id] = [i \in DOMAIN run.of.items |-> run.of.items[i].id]
           /\ Summary(run.got)["pass"] + Summary(run.got)["fail"] + Summary(run.got)["error"]
                  = Len(run.of.items)

\* A set is selected whenever there is one, and it exists: after every order of
\* creating, deleting and importing.
SelectedSetExists ==
    screen = "evals" =>
        IF DOMAIN st.sets = {} THEN st.chosen = "" ELSE st.chosen \in DOMAIN st.sets

\* The pipeline advances in order: no generation before the search is complete,
\* no search before a classification that takes part, and nothing of these open
\* once the answer is complete. It says "running" only while the page loads.
PipelineOrdered ==
    screen = "rag" /\ DOMAIN st.steps # {} =>
        /\ st.steps["generation"] # "pending" => st.steps["search"] = "complete"
        /\ "classification" \in DOMAIN st.steps /\ st.steps["search"] = "running" =>
              st.steps["classification"] = "complete"
        /\ st.overall = "complete" =>
              /\ st.steps["search"] = "complete" /\ st.steps["generation"] = "complete"
              /\ "followup" \in DOMAIN st.steps => st.steps["followup"] # "running"
        /\ st.overall = "running" => st.loading

\* The nodes of the pipeline do not overlap and none is left of the first
\* column; consecutive ones are neighbours.
NodesApart ==
    screen = "rag" =>
        LET n == Layout(Len(Drawn))
            Dist(a, b) == IF a >= b THEN a - b ELSE b - a
        IN /\ IsInjective(n)
           /\ \A i \in DOMAIN n : n[i].col >= 0 /\ n[i].col < TopCount(Len(Drawn))
           /\ \A i \in 1 .. Len(Drawn) - 1 :
                 Dist(n[i].row, n[i + 1].row) + Dist(n[i].col, n[i + 1].col) = 1

\* No turn of a fresh chat streams or shows text of a call of the chat that the
\* Reset replaced.
ChatOfItsKey ==
    screen = "chat" => \A i \in DOMAIN st.turns :
        /\ calls[st.turns[i].call].of.key = st.key
        /\ st.turns[i].open => ~calls[st.turns[i].call].done
        /\ st.turns[i].text \in {0, st.turns[i].call}

\* What is drawn agrees with the calls: no hits of a search beside the spinner
\* of the next one, no chunks while the text is chunked again, no active edge
\* in a pipeline that is complete, and the details of a step only beside the
\* pipeline it belongs to.
PanelsAgree ==
    /\ screen = "explore" /\ "hits" \in ExplorePanels => ~st.loading \/ st.overlap
    /\ screen = "rerank" /\ "reranked" \in RerankPanels =>
          (~st.searching /\ ~st.reranking) \/ st.overlap
    /\ screen = "chunk" /\ "highlighted" \in DocPanels => ~st.loading
    /\ screen = "rag" =>
          /\ st.overall = "complete" => \A i \in DOMAIN Edges : Edges[i] # "active"
          /\ DetailOpen => "pipeline" \in RagPanels

\* What a page shows is of its latest list of indexes, search, text and chat, in
\* whatever order the calls are answered: except where the histories say that a
\* list or a search was overtaken, or that the text was edited after.
LatestShown == IndexOfTable /\ LatestSearchShown /\ ChunksOfText /\ ChatOfItsKey

\* An eval run and the eval sets survive each other.
EvalsIntact == EvalResultsComplete /\ SelectedSetExists

\* What is drawn is one consistent state of its calls.
DrawnHonest ==
    TypeOK /\ PipelineOrdered /\ PanelsAgree /\ NodesApart /\ RerankIsPermutation

\* The spinners of the pages. (RagPage's isLoading stays on after a stream that
\* just ends, and is left out.)
Loading ==
    \/ tab.loading
    \/ screen = "explore" /\ st.loading
    \/ screen = "rerank" /\ (st.searching \/ st.reranking)
    \/ screen = "chunk" /\ (st.searching \/ st.fetching \/ st.loading)
    \/ screen = "evals" /\ st.loading
    \/ screen = "chat" /\ Streaming

\* Every spinner ends, of the indexes, the searches, the eval runs and the turns
\* (the finally blocks of the handlers), also when calls fail or overtake each
\* other, and no later call keeps it on for ever.
SpinnersEnd == []<>(~Loading)

=============================================================================
