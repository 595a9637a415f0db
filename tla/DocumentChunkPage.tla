------------------------- MODULE DocumentChunkPage -------------------------
(***************************************************************************)
(* AntflyChunkingPlaygroundPage ("chunk"): a document is searched for and  *)
(* loaded from the table, or its text is pasted, and chunked by Termite.   *)
(*                                                                         *)
(* Loading and searching are not cancelled. The chunks are drawn over the  *)
(* text of the input, not over the text that was chunked. edited           *)
(* (history): that text has changed since the last run was started.        *)
(***************************************************************************)
EXTENDS ExplorerPages

CONSTANTS Docs    \* documents of a table; the text of d is d

ChunkConfig == [model |-> "fixed", target |-> 500, overlap |-> 50, max |-> 50]

DocInit == [text |-> "", docId |-> "", source |-> "table", query |-> "", config |-> ChunkConfig,
            hits |-> <<>>, searching |-> FALSE, fetching |-> FALSE, loading |-> FALSE,
            error |-> FALSE, result |-> 0, edited |-> FALSE]

\* Text t replaces what a run or its result is about.
Edit(s, t) == [s EXCEPT !.text = t, !.edited = @ \/ (t # s.text /\ (s.result # 0 \/ Open("chunk") # {}))]

DocSetText(t) == User("chunk") /\ Only(Edit(st, t))
DocSetQuery(t) == User("chunk") /\ st.source = "table" /\ Only([st EXCEPT !.query = t])
DocSetId(d) == User("chunk") /\ st.source = "table" /\ Only([st EXCEPT !.docId = d])
DocSetSource(s) ==
    User("chunk") /\ (s = "table" => tab.table # "") /\ Only([st EXCEPT !.source = s])

\* An empty or zero number falls back to the default.
DocSetModel(m) ==
    User("chunk") /\ Only([st EXCEPT !.config.model = m])
DocSetTarget(n) ==
    /\ User("chunk")
    /\ Only([st EXCEPT !.config.target =
                 IF n = 0 /\ st.config.model = "fixed" THEN ChunkConfig.target ELSE n])

\* The picker is there when a table is.
Picker == st.source = "table" /\ tab.table # ""

HandleSearchDocuments(enter) ==
    /\ User("chunk") /\ Picker /\ st.query # ""
    /\ enter \/ ~st.searching
    /\ Start("docs", [query |-> st.query, table |-> tab.table])
    /\ st' = [st EXCEPT !.searching = TRUE, !.error = FALSE]
    /\ UNCHANGED tableVars

DocsFound(k) ==
    /\ screen = "chunk"
    /\ \E ds \in SUBSET Docs :
          /\ Ends(k, "docs", <<ds>>)
          /\ st' = [st EXCEPT !.hits = <<ds>>, !.searching = FALSE]

\* A hit, the Load button, or Enter in the field of the identifier.
HandleFetchDocument(d) ==
    /\ User("chunk") /\ Picker
    /\ d = st.docId \/ (st.hits # <<>> /\ d \in st.hits[1])
    /\ d # ""
    /\ Start("doc", [text |-> d])
    /\ st' = [st EXCEPT !.fetching = TRUE, !.error = FALSE]
    /\ UNCHANGED tableVars

\* The document replaces the text and the identifier, and drops the chunks
\* and the hits.
DocumentLoaded(k) ==
    /\ screen = "chunk"
    /\ Ends(k, "doc", <<>>)
    /\ st' = [Edit([st EXCEPT !.result = 0], calls[k].of.text) EXCEPT
                 !.docId = calls[k].of.text, !.hits = <<>>, !.fetching = FALSE]

\* Any of the calls fails, or the document is not found.
DocFails(k) ==
    /\ screen = "chunk"
    /\ \/ Ends(k, "docs", <<>>) /\ st' = [st EXCEPT !.error = TRUE, !.searching = FALSE]
       \/ Ends(k, "doc", <<>>) /\ st' = [st EXCEPT !.error = TRUE, !.fetching = FALSE]
       \/ Ends(k, "chunk", <<>>) /\ st' = [st EXCEPT !.error = TRUE, !.loading = FALSE]

\* The button is disabled while a run is open, so none is ever aborted.
HandleChunk ==
    /\ User("chunk")
    /\ ~st.loading /\ st.text # ""
    /\ Start("chunk", [text |-> st.text])
    /\ st' = [st EXCEPT !.loading = TRUE, !.error = FALSE, !.result = 0, !.edited = FALSE]
    /\ UNCHANGED tableVars

Chunked(k) ==
    /\ screen = "chunk"
    /\ Ends(k, "chunk", <<>>)
    /\ st' = [st EXCEPT !.result = k, !.loading = FALSE]

DocReset ==
    /\ User("chunk")
    /\ Only([Edit([st EXCEPT !.result = 0], "") EXCEPT !.config = ChunkConfig, !.docId = "",
                !.error = FALSE, !.hits = <<>>, !.query = ""])

\* renderHighlightedText slices st.text by the chunks of the result.
DocPanels ==
    (IF st.error THEN {"error"} ELSE {})
        \cup (IF st.result # 0 THEN {"stats", "highlighted", "chunks"} ELSE {"preview"})
        \cup (IF Picker THEN {"picker"} ELSE {})

DocNext ==
    \/ \E t \in Words : DocSetText(t) \/ DocSetQuery(t)
    \/ \E d \in Docs : DocSetId(d) \/ HandleFetchDocument(d)
    \/ \E s \in {"table", "manual"} : DocSetSource(s)
    \/ \E m \in {"fixed", "semantic"} : DocSetModel(m)
    \/ \E n \in {0, 100} : DocSetTarget(n)
    \/ \E enter \in BOOLEAN : HandleSearchDocuments(enter)
    \/ HandleChunk \/ DocReset
    \/ \E k \in DOMAIN calls : DocsFound(k) \/ DocumentLoaded(k) \/ DocFails(k) \/ Chunked(k)

=============================================================================
