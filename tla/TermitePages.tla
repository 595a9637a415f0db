---------------------------- MODULE TermitePages ----------------------------
(***************************************************************************)
(* The Termite pages of Antfarm together: one of them is mounted; the      *)
(* directory of models opens another one; any of them may be reloaded.     *)
(***************************************************************************)
EXTENDS NERPage, DocumentPages, RewritePage, ChunkPage, ReaderPage,
        TranscribePage, KGPage, ModelsPage

Restored(p, s) ==
    CASE p = "ner" -> NerRestore(s)
      [] p = "rerank" -> RerankRestore(s)
      [] p = "embed" -> DocDefaults(p)
      [] p = "rewrite" -> RewriteRestore(s)
      [] p = "chunk" -> ChunkRestore(s)
      [] p = "read" -> ReadDefaults
      [] p = "transcribe" -> TranscribeDefaults
      [] p = "kg" -> KGRestore(s)
      [] p = "models" -> ModelsDefaults(IF s = <<>> THEN <<>> ELSE s[1])

\* A page is mounted: it asks for the models, the directory for the registry
\* unless that is cached.
Fetches(p, s) == p = "models" /\ s = <<>>
MountedModels(p, param) == [NoModels(param) EXCEPT !.loaded = (p = "models")]
MountedReqs(p, s) == IF Fetches(p, s) THEN FetchRegistry(<<>>) ELSE <<>>
MountedView(p, s) == [NoView EXCEPT !.loading = Fetches(p, s)]

Init ==
    /\ page \in Pages
    /\ saved = <<>> /\ steps = 0
    /\ form = Restored(page, <<>>)
    /\ \E param \in AllModels \cup {""} :
          /\ page \in {"embed", "read", "transcribe", "models"} => param = ""
          /\ models = MountedModels(page, param)
    /\ reqs = MountedReqs(page, <<>>)
    /\ view = MountedView(page, <<>>)

\* The answers still to come for the page that was there find no component.
Mount(p, s, param) ==
    /\ page' = p /\ saved' = s
    /\ form' = Restored(p, s)
    /\ models' = MountedModels(p, param)
    /\ reqs' = MountedReqs(p, s)
    /\ view' = MountedView(p, s)

\* Reload. The page of the microphone is not left here.
Remount ==
    /\ steps < MaxSteps[page] /\ steps' = steps + 1
    /\ page # "transcribe"
    /\ Mount(page, saved, "")

\* "Open in Playground" of the sheet.
OpenInPlayground(p) ==
    /\ page = "models" /\ form.sheet /\ ~view.loading /\ ~view.error
    /\ steps < MaxSteps[page] /\ steps' = 0
    /\ Mount(p, <<>>, form.selected)

\* The chunking and embedding requests of these pages are plain fetches.
Retrying(k) ==
    /\ page \notin {"embed", "chunk"}
    /\ RetryLater(k) \/ RetryFires(k)

\* Steps of the browser and the server.
Progress ==
    \/ \E k \in DOMAIN reqs :
          \/ NerSettles(k) \/ RerankSettles(k) \/ EmbedSettles(k) \/ RewriteSettles(k)
          \/ ChunkSettles(k) \/ ReadSettles(k) \/ KGSettles(k) \/ RegistryFails(k)
          \/ page \notin {"embed", "chunk"} /\ RetryFires(k)
          \/ page = "transcribe" /\ (Chunked(k) \/ Transcribed(k) \/ Cleaned(k))
    \/ RewriteTimer

Next ==
    \/ NerNext \/ RerankNext \/ EmbedNext \/ RewriteNext \/ ChunkNext \/ ReadNext
    \/ TranscribeNext \/ KGNext \/ ModelsNext
    \/ ModelsFail \/ Remount
    \/ page = "models" /\ form.selected # "" /\ \E p \in PlaygroundOf : OpenInPlayground(p)
    \/ \E k \in DOMAIN reqs : Retrying(k)

\* A server answers, or the connection fails, and timers fire.
Spec == Init /\ [][Next]_vars /\ WF_vars(Progress)

-----------------------------------------------------------------------------
(* Properties *)

\* The fields that every page shares have their types.
TypeOK ==
    /\ page \in Pages
    /\ view.loading \in BOOLEAN /\ view.error \in BOOLEAN
    /\ view.result \in 0 .. Len(reqs)
    /\ \A k \in DOMAIN reqs : reqs[k].phase \in {"sent", "waiting", "held", "done"}
    /\ Len(reqs) <= MaxRuns /\ steps \in Nat

\* A result on the screen is that of the last run, however late an aborted or
\* retried one ends: abortControllerRef of every handler.
LatestRunWins == view.result # 0 => view.result = Len(reqs)

\* isLoading is never left on without a run whose end will clear it. (The
\* converse does not hold: the finally of an aborted run clears it too early.)
LoadingAccounted == view.loading => \E k \in DOMAIN reqs : reqs[k].phase # "done"

\* No segment of a superseded transcription is written into the list of the
\* next one: the signal is checked after every await of processSegment.
SegmentsOfLatestRun ==
    page = "transcribe" => \A i \in DOMAIN view.data : view.data[i].of = Len(reqs)

\* The selected model is one that the server offers, whatever was stored, was
\* asked for in the URL or is offered now; there is none only when no model can
\* do what is wanted. (The chunking page keeps a stored choice, and "fixed".)
ModelKnown ==
    models.loaded /\ models.list # <<>> /\ page \notin {"chunk", "models"} =>
        \/ form.model \in ToSet(models.list)
        \/ page = "ner" /\ form.model = "" /\ NerAvailable(form.mode, models.list) = <<>>

\* Indexes into lists that other handlers shorten: the image that is selected,
\* the node and the edge whose details are open; one key for each document.
SelectionInRange ==
    /\ page = "read" /\ form.images # <<>> => form.selected \in DOMAIN form.images
    /\ page = "kg" /\ view.result # 0 =>
          form.node \in 0 .. Len(Graph.nodes) /\ form.edge \in 0 .. Len(Graph.edges)
    /\ page = "rerank" => Len(form.keys) = Len(form.docs) /\ IsInjective(form.keys)

\* The tab that is open is one the selected image's result has, after every
\* order of selecting, removing, resetting and answers.
TabOffered == page = "read" => form.tab \in OutputTabs(form, view.data)

Disjoint(spans) ==
    \A i, j \in DOMAIN spans : i # j => spans[i].end <= spans[j].start \/ spans[j].end <= spans[i].start
Covers(parts, n) ==
    /\ parts[1].from = 0 /\ parts[Len(parts)].to = n
    /\ \A i \in 1 .. Len(parts) - 1 : parts[i].to = parts[i + 1].from

\* Highlighting loses and repeats nothing of the text, in whatever order the
\* spans come and whichever of them the threshold hides.
HighlightKeepsText ==
    /\ page = "ner" /\ Disjoint(Filtered) => Covers(Highlighted, TextLength)
    /\ page = "chunk" /\ Disjoint(view.data) => Covers(ChunkParts, ChunkedLength)

\* Requests for the microphone that do not overlap leave no stream open once
\* the recording has ended.
MicReleased ==
    page = "transcribe" /\ ~form.overlapped /\ ~form.recording => form.live = {}

\* A node of the graph carries its most confident mention, and no mention is
\* lost.
StrongestMention ==
    page = "kg" /\ view.result # 0 =>
        LET entities == view.data[1].entities
        IN /\ {entities[i].key : i \in DOMAIN entities}
                  = {Graph.nodes[i].key : i \in DOMAIN Graph.nodes}
           /\ IsInjective([i \in DOMAIN Graph.nodes |-> Graph.nodes[i].key])
           /\ \A i \in DOMAIN Graph.nodes, j \in DOMAIN entities :
                 entities[j].key = Graph.nodes[i].key => entities[j].score <= Graph.nodes[i].score

\* The command of the sheet names a variant that the model has, not one chosen
\* for the model opened before.
VariantOffered ==
    page = "models" /\ form.sheet /\ form.variant # ""
        => DownloadCommand[2] \in ToSet(Named(form.selected).variants)

\* What is drawn agrees with what was run: no result in the layout of the other
\* mode, no bar longer than the best score's, no details of a node or an edge
\* that is gone, no hint over a finished list of segments or over the results
\* of the images that were read; every model of the directory in one section,
\* no more than its pill counts.
DrawnAgrees ==
    /\ page = "ner" /\ "stats" \in NerPanels => reqs[view.result].of.mode = form.mode
    /\ page = "rerank" /\ "ranking" \in RerankPanels =>
          \A i \in DOMAIN RankedDocuments : BarWidth(RankedDocuments[i]) <= 100
    /\ page = "embed" /\ "similarities" \in EmbedPanels =>
          \A i \in DOMAIN view.data : SimilarityBar(view.data[i]) <= SimilarityBar(view.data[1])
    /\ page = "kg" =>
          IF "hint" \in KGPanels THEN form.node = 0 /\ form.edge = 0
          ELSE KGDetails.node \cup KGDetails.ends \subseteq
                  {view.data[1].entities[i].key : i \in DOMAIN view.data[1].entities}
    /\ page = "chunk" /\ {"chunks", "error"} \subseteq ChunkPanels => form.text = ""
    /\ page = "read" /\ {"stats", "hint"} \subseteq ReadPanels =>
          form.images # reqs[view.result].of.images
    /\ page = "transcribe" /\ "hint" \in TranscribePanels => view.result = 0
    /\ page = "models" =>
          /\ FoldFunction(LAMBDA s, n : Len(s) + n, 0, ModelsByType(form)) = Len(FilteredModels(form))
          /\ \A t \in ModelTypes : Len(ModelsByType(form)[t]) <= ModelCounts(form)[t]
          /\ TypeContextBanner # {} => ModelsScreen # "sections"

\* A run that was superseded, aborted or retried leaves nothing behind: no
\* result, no segment, no spinner and no open microphone.
NothingLeftBehind == LatestRunWins /\ SegmentsOfLatestRun /\ LoadingAccounted /\ MicReleased

\* What is selected exists, after every order of loading, choosing, removing and
\* answering: model, image, node, edge, tab and variant.
SelectionsValid == ModelKnown /\ SelectionInRange /\ TabOffered /\ VariantOffered

\* What is drawn is what was answered.
DrawnHonest == TypeOK /\ DrawnAgrees /\ HighlightKeepsText /\ StrongestMention

\* The spinner ends (the finally of every handler), whichever runs are aborted,
\* retried after a 502 or held before they notice the abort.
LoadingEnds == []<>(~view.loading)

=============================================================================
