----------------------------- MODULE ChunkPage -----------------------------
(***************************************************************************)
(* ChunkingPlaygroundPage: the chunks of a text.                           *)
(***************************************************************************)
EXTENDS Playground

CONSTANTS
    ChunkLists,  \* chunks of a text: sequences of spans
    ChunkedLength \* length of a text that is chunked

\* DEFAULT_CONFIG; numbers are 1 where the default is, 0 is "0 or not a number".
ChunkDefaults == [text |-> "", model |-> "fixed", target |-> 1, overlap |-> 1,
                  maxChunks |-> 1, threshold |-> 1, separator |-> "par"]
ChunkRestore(s) == IF s = <<>> THEN ChunkDefaults ELSE s[1]

\* data.chunkers is stored as it comes; the choice of a model is not touched.
ChunkModels(ms) ==
    /\ page = "chunk"
    /\ ModelsArrive(ms, [form EXCEPT !.model = ByParam(@, ms)])

ChunkSetText(t) == User("chunk") /\ OnlyForm([form EXCEPT !.text = t])

ChunkSetModel(m) ==
    /\ User("chunk") /\ ModelEnabled /\ m \in ToSet(models.list)
    /\ OnlyForm([form EXCEPT !.model = m])

\* The options of a fixed model: 0 falls back to the default, but for overlap.
ChunkFixedOption(v) ==
    /\ User("chunk") /\ form.model = "fixed"
    /\ \/ OnlyForm([form EXCEPT !.target = IF v = 0 THEN 1 ELSE v])
       \/ OnlyForm([form EXCEPT !.overlap = v])
       \/ \E s \in {"par", "line"} : OnlyForm([form EXCEPT !.separator = s])

\* Those of a semantic model take 0; a threshold that does not parse is ignored.
ChunkSemanticOption(v) ==
    /\ User("chunk") /\ form.model # "fixed"
    /\ \/ OnlyForm([form EXCEPT !.target = v])
       \/ OnlyForm([form EXCEPT !.threshold = v])

ChunkSetMax(v) ==
    /\ User("chunk")
    /\ OnlyForm([form EXCEPT !.maxChunks = IF v = 0 THEN 1 ELSE v])

ChunkButton == ~view.loading /\ form.text # ""

HandleChunk(click) ==
    /\ User("chunk") /\ (click => ChunkButton)
    /\ IF form.text # "" THEN StartRun(form) ELSE Refuse

ChunkSettles(k) ==
    /\ page = "chunk"
    /\ \/ \E cs \in ChunkLists : Settles(k, Shown(k, cs))
       \/ Settles(k, Failed)
    /\ UNCHANGED <<form, saved>>

ChunkReset ==
    /\ User("chunk")
    /\ SetForm(ChunkDefaults)
    /\ view' = [NoView EXCEPT !.loading = view.loading]
    /\ UNCHANGED <<models, reqs>>

\* renderHighlightedText: gaps and chunks are cut from the text of the form.
ChunkParts ==
    LET Step(acc, c) ==
            [parts |-> acc.parts
                 \o (IF c.start > acc.last THEN <<[from |-> acc.last, to |-> c.start]>>
                     ELSE <<>>)
                 \o <<[from |-> c.start, to |-> c.end]>>,
             last |-> c.end]
        done == FoldLeft(Step, [parts |-> <<>>, last |-> 0], view.data)
    IN done.parts \o (IF done.last < ChunkedLength
                      THEN <<[from |-> done.last, to |-> ChunkedLength]>> ELSE <<>>)

ChunkPanels ==
    (IF view.loading THEN {"skeleton"}
     ELSE IF view.result = 0 THEN {"hint"} ELSE {"chunks"})
        \cup (IF view.result # 0 THEN {"stats"} ELSE {})
        \cup (IF models.loaded /\ models.list = <<>> THEN {"no models"} ELSE {})
        \cup (IF view.error THEN {"error"} ELSE {})

ChunkNext ==
    \/ \E ms \in ModelLists : ChunkModels(ms)
    \/ \E t \in Inputs : ChunkSetText(t)
    \/ \E m \in AllModels : ChunkSetModel(m)
    \/ \E v \in {0, 2} : ChunkFixedOption(v) \/ ChunkSemanticOption(v) \/ ChunkSetMax(v)
    \/ \E click \in BOOLEAN : HandleChunk(click)
    \/ ChunkReset
    \/ \E k \in DOMAIN reqs : ChunkSettles(k)

=============================================================================
