--------------------------- MODULE DocumentPages ---------------------------
(***************************************************************************)
(* RerankingPlaygroundPage (page "rerank") and EmbeddingPlaygroundPage     *)
(* (page "embed"): a query against a list of documents.                    *)
(***************************************************************************)
EXTENDS Playground

CONSTANT MaxDocs   \* bound on the documents

Builtin == "builtin"   \* antfly-builtin-reranker, a bge-small embedder

\* The keys React knows the inputs by: doc-init-i, then doc-n from a counter.
InitKeys(n) == [i \in 1 .. n |-> <<"init", i>>]
NextDocKey(f) == <<"doc", f.next + 1>>

DocDefaults(p) ==
    [query |-> "", docs |-> <<"">>, model |-> ""]
        @@ (IF p = "rerank" THEN [keys |-> InitKeys(1), next |-> 0] ELSE [spark |-> TRUE])

\* useState from localStorage; the keys are numbered anew.
RerankRestore(s) ==
    IF s = <<>> THEN DocDefaults("rerank")
    ELSE [s[1] EXCEPT !.keys = InitKeys(Len(s[1].docs)), !.next = 0]

NonEmpty(ds) == SelectSeq(ds, LAMBDA d : d # "")

-----------------------------------------------------------------------------
(* RerankingPlaygroundPage *)

RerankModels(ms) ==
    /\ page = "rerank"
    /\ LET kept == IF form.model # "" /\ form.model \in ToSet(ms) THEN form.model
                   ELSE IF Builtin \in ToSet(ms) THEN Builtin ELSE First(ms)
       IN ModelsArrive(ms, [form EXCEPT !.model = ByParam(kept, ms)])

RerankSetQuery(q) == User("rerank") /\ OnlyForm([form EXCEPT !.query = q])

RerankSetModel(m) ==
    /\ User("rerank") /\ ModelEnabled /\ m \in ToSet(models.list)
    /\ OnlyForm([form EXCEPT !.model = m])

\* A change of the documents drops the result, whose scores go by position.
RerankSetDocs(f) ==
    /\ SetForm(f)
    /\ view' = [view EXCEPT !.result = 0, !.data = <<>>]
    /\ UNCHANGED <<models, reqs>>

RerankAddDocument ==
    /\ User("rerank")
    /\ Len(form.docs) < MaxDocs
    /\ RerankSetDocs([form EXCEPT !.docs = Append(@, ""),
                          !.keys = Append(@, NextDocKey(form)), !.next = @ + 1])

\* The list of documents, each with a button that removes it.
RerankRemovable == IF Len(form.docs) > 1 THEN DOMAIN form.docs ELSE {}

RerankRemoveDocument(i) ==
    /\ User("rerank")
    /\ i \in RerankRemovable
    /\ RerankSetDocs([form EXCEPT !.docs = RemoveAt(@, i), !.keys = RemoveAt(@, i)])

RerankUpdateDocument(i, t) ==
    /\ User("rerank")
    /\ RerankSetDocs([form EXCEPT !.docs[i] = t])

\* A sample keeps the result that is shown.
RerankLoadSample(q, ds) ==
    /\ User("rerank")
    /\ OnlyForm([form EXCEPT !.query = q, !.docs = ds,
                    !.keys = [i \in DOMAIN ds |-> <<"doc", form.next + i>>],
                    !.next = @ + Len(ds)])

RerankChecks == form.query # "" /\ NonEmpty(form.docs) # <<>> /\ form.model # ""
RerankButton == ~view.loading /\ RerankChecks

\* The button, or Cmd+Enter whatever the button says.
HandleRerank(click) ==
    /\ User("rerank") /\ (click => RerankButton)
    /\ IF RerankChecks THEN StartRun(form) ELSE Refuse

\* One score for each document that was sent.
RerankSettles(k) ==
    /\ page = "rerank"
    /\ \/ \E s \in [DOMAIN NonEmpty(reqs[k].of.docs) -> {1, 2}] :
             Settles(k, Shown(k, s))
       \/ Settles(k, Failed)
    /\ UNCHANGED <<form, saved>>

RerankReset ==
    /\ User("rerank")
    /\ SetForm([form EXCEPT !.query = "", !.docs = <<"">>,
                            !.keys = <<NextDocKey(form)>>, !.next = @ + 1])
    /\ view' = [NoView EXCEPT !.loading = view.loading]
    /\ UNCHANGED <<models, reqs>>

\* getRankedDocuments: a score is shown with the document that is now at its
\* position, best first, with its rank.
RankedDocuments ==
    LET docs == NonEmpty(form.docs)
        scored == [i \in DOMAIN view.data |->
                      [index |-> i, score |-> view.data[i],
                       text |-> IF i \in DOMAIN docs THEN docs[i] ELSE ""]]
    IN SortSeq(scored, LAMBDA a, b : a.score > b.score)

\* The bar of a score, in percent of the best.
BarWidth(d) ==
    LET best == RankedDocuments[1].score
    IN IF best > 0 THEN (d.score * 100) \div best ELSE 0

RerankPanels ==
    (IF view.result # 0 THEN {"stats", "ranking"} ELSE {"hint"})
        \cup (IF models.loaded /\ models.list = <<>> THEN {"no models"} ELSE {})
        \cup (IF view.error THEN {"error"} ELSE {})

-----------------------------------------------------------------------------
(* EmbeddingPlaygroundPage: the controller's signal is not given to the client. *)

EmbedModels(ms) ==
    /\ page = "embed"
    /\ ModelsArrive(ms, IF ms = <<>> THEN form ELSE
          [form EXCEPT !.model = IF Builtin \in ToSet(ms) THEN Builtin ELSE Head(ms)])

EmbedSetQuery(q) == User("embed") /\ OnlyForm([form EXCEPT !.query = q])

EmbedSetModel(m) ==
    /\ User("embed") /\ ModelEnabled /\ m \in ToSet(models.list)
    /\ OnlyForm([form EXCEPT !.model = m])

\* Editing keeps the result: it has its own copy of the documents.
EmbedAddDocument ==
    /\ User("embed")
    /\ Len(form.docs) < MaxDocs
    /\ OnlyForm([form EXCEPT !.docs = Append(@, "")])

EmbedRemoveDocument(i) ==
    /\ User("embed")
    /\ Len(form.docs) > 1
    /\ OnlyForm([form EXCEPT !.docs = RemoveAt(@, i)])

EmbedUpdateDocument(i, t) ==
    /\ User("embed")
    /\ OnlyForm([form EXCEPT !.docs[i] = t])

EmbedLoadSample(q, ds) ==
    /\ User("embed")
    /\ OnlyForm([form EXCEPT !.query = q, !.docs = ds])

EmbedSpark == User("embed") /\ view.result # 0 /\ OnlyForm([form EXCEPT !.spark = ~@])

EmbedButton ==
    ~view.loading /\ form.query # "" /\ NonEmpty(form.docs) # <<>> /\ form.model # ""

\* Only the button calls the handler, so its checks never fail.
HandleEmbed ==
    /\ User("embed") /\ EmbedButton
    /\ Len(reqs) < MaxRuns
    /\ reqs' = Append(reqs, Run(form))
    /\ view' = [NoView EXCEPT !.loading = TRUE]
    /\ UNCHANGED <<form, saved, models>>

\* cosineSimilarity of each document with the query, best first.
EmbedSettles(k) ==
    /\ page = "embed"
    /\ \/ \E s \in [DOMAIN NonEmpty(reqs[k].of.docs) -> {0, 1}] :
             LET docs == NonEmpty(reqs[k].of.docs)
                 scored == [i \in DOMAIN docs |->
                               [index |-> i, score |-> s[i], text |-> docs[i]]]
             IN Settles(k, Shown(k, SortSeq(scored,
                               LAMBDA a, b : a.score > b.score)))
       \/ Settles(k, Failed)   \* also for fewer than two embeddings
    /\ UNCHANGED <<form, saved>>

EmbedReset ==
    /\ User("embed")
    /\ SetForm([form EXCEPT !.query = "", !.docs = <<"">>])
    /\ view' = [NoView EXCEPT !.loading = view.loading]
    /\ UNCHANGED <<models, reqs>>

\* SimilarityBar, EmbeddingSparkline: a bar in percent, vectors when asked for.
SimilarityBar(d) == IF view.data[1].score > 0 THEN d.score * 100 ELSE 0

EmbedPanels ==
    (IF view.result # 0 THEN {"stats", "similarities"} ELSE {"hint"})
        \cup (IF view.result # 0 /\ form.spark THEN {"vectors"} ELSE {})
        \cup (IF models.loaded /\ models.list = <<>> THEN {"no models"} ELSE {})
        \cup (IF view.error THEN {"error"} ELSE {})

-----------------------------------------------------------------------------
RerankNext ==
    \/ \E ms \in ModelLists : RerankModels(ms)
    \/ \E q \in Inputs : RerankSetQuery(q)
    \/ \E m \in AllModels : RerankSetModel(m)
    \/ RerankAddDocument \/ RerankReset
    \/ \E click \in BOOLEAN : HandleRerank(click)
    \/ page = "rerank" /\ \E i \in DOMAIN form.docs :
          RerankRemoveDocument(i) \/ \E t \in Inputs : RerankUpdateDocument(i, t)
    \/ \E t \in Texts : RerankLoadSample(t, <<t, t>>)
    \/ \E k \in DOMAIN reqs : RerankSettles(k)

EmbedNext ==
    \/ \E ms \in ModelLists : EmbedModels(ms)
    \/ \E q \in Inputs : EmbedSetQuery(q)
    \/ \E m \in AllModels : EmbedSetModel(m)
    \/ EmbedAddDocument \/ EmbedSpark \/ HandleEmbed \/ EmbedReset
    \/ page = "embed" /\ \E i \in DOMAIN form.docs :
          EmbedRemoveDocument(i) \/ \E t \in Inputs : EmbedUpdateDocument(i, t)
    \/ \E t \in Texts : EmbedLoadSample(t, <<t, t>>)
    \/ \E k \in DOMAIN reqs : EmbedSettles(k)

=============================================================================
