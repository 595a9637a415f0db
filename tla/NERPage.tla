------------------------------ MODULE NERPage ------------------------------
(***************************************************************************)
(* NERPlaygroundPage: named entities of a text (mode "recognize") and      *)
(* structured extraction (mode "extract").                                 *)
(***************************************************************************)
EXTENDS Playground

CONSTANTS
    Labels, DefaultLabels,  \* entity labels
    TextLength,             \* length of every text
    Scores                  \* confidences and thresholds

\* A structure of the schema: its name and how many fields it has.
DefaultSchema == <<[name |-> "s", fields |-> 1]>>

NerDefaults == [mode |-> "recognize", text |-> "", model |-> "",
                labels |-> DefaultLabels, threshold |-> 1,
                schema |-> DefaultSchema, options |-> {}]

\* useState from localStorage: an empty list falls back to the default.
NerRestore(s) ==
    IF s = <<>> THEN NerDefaults
    ELSE [s[1] EXCEPT !.labels = IF @ = {} THEN DefaultLabels ELSE @,
                      !.schema = IF @ = <<>> THEN DefaultSchema ELSE @]

NerAvailable(mode, ms) ==
    IF mode = "recognize" THEN ms ELSE SelectSeq(ms, LAMBDA m : m \in Extractors)

\* GET /api/models, the effect that follows the mode, then that of ?model=.
NerModels(ms) ==
    /\ page = "ner"
    /\ LET kept == Keep(Keep(form.model, ms), NerAvailable(form.mode, ms))
       IN ModelsArrive(ms, [form EXCEPT !.model = ByParam(kept, ms)])

NerSetMode(mode) ==
    /\ User("ner")
    /\ mode # form.mode
    /\ OnlyForm([form EXCEPT !.mode = mode,
                    !.model = Keep(@, NerAvailable(mode, models.list))])

-----------------------------------------------------------------------------
(* The form *)

NerSetText(t) == User("ner") /\ OnlyForm([form EXCEPT !.text = t])

NerSetModel(m) ==
    /\ User("ner")
    /\ models.loaded /\ m \in ToSet(NerAvailable(form.mode, models.list))
    /\ OnlyForm([form EXCEPT !.model = m])

NerSetThreshold(s) ==
    /\ User("ner")
    /\ OnlyForm([form EXCEPT !.threshold = s])

NerAddLabel(l) ==
    /\ User("ner") /\ form.mode = "recognize"
    /\ l \notin form.labels
    /\ OnlyForm([form EXCEPT !.labels = @ \cup {l}])

NerRemoveLabel(l) ==
    /\ User("ner") /\ form.mode = "recognize"
    /\ l \in form.labels
    /\ OnlyForm([form EXCEPT !.labels = @ \ {l}])

\* The panel of the schema: add, remove, rename a structure; add, remove a
\* field (a structure keeps one). Names and types of fields are left out.
NerSchemas ==
    LET s == form.schema
        i(j, st) == [s EXCEPT ![j] = st]
    IN {Append(s, [name |-> "", fields |-> 1])}
       \cup {RemoveAt(s, j) : j \in DOMAIN s}
       \cup {i(j, [s[j] EXCEPT !.name = n]) : j \in DOMAIN s, n \in {"", "s"}}
       \cup {i(j, [s[j] EXCEPT !.fields = @ + 1]) : j \in DOMAIN s}
       \cup {i(j, [s[j] EXCEPT !.fields = @ - 1]) :
                j \in {k \in DOMAIN s : s[k].fields > 1}}

NerSetSchema(s) ==
    /\ User("ner") /\ form.mode = "extract"
    /\ s \in NerSchemas
    /\ OnlyForm([form EXCEPT !.schema = s])

\* Include confidence, include spans.
NerToggle(option) ==
    /\ User("ner") /\ form.mode = "extract"
    /\ OnlyForm([form EXCEPT !.options =
                    IF option \in @ THEN @ \ {option} ELSE @ \cup {option}])

\* A sample sets the text and, by mode, the labels or the schema.
NerLoadSample(t) ==
    /\ User("ner")
    /\ OnlyForm(IF form.mode = "recognize"
                THEN [form EXCEPT !.text = t, !.labels = Labels]
                ELSE [form EXCEPT !.text = t, !.schema = DefaultSchema])

-----------------------------------------------------------------------------
(* Running *)

NerChecks ==
    /\ form.text # "" /\ form.model # ""
    /\ form.mode = "recognize" => form.labels # {}
    /\ form.mode = "extract" => form.schema # <<>>

\* The button asks for less than the handler, and for isLoading; Cmd+Enter
\* calls the handler whatever the button says.
NerButton == ~view.loading /\ form.text # "" /\ form.model # ""

HandleRecognize(click) ==
    /\ User("ner") /\ (click => NerButton)
    /\ IF NerChecks THEN StartRun(form) ELSE Refuse

\* The entities of an answer: spans in the text that was sent.
NerEntities == [start : 0 .. TextLength - 1, end : 1 .. TextLength, score : Scores]
NerAnswers == {<<>>} \cup {<<e>> : e \in {x \in NerEntities : x.start < x.end}}
           \cup {<<[start |-> 1, end |-> 2, score |-> 1],
                   [start |-> 0, end |-> 1, score |-> 2]>>}

NerSettles(k) ==
    /\ page = "ner"
    /\ \/ \E es \in IF reqs[k].of.mode = "recognize" THEN NerAnswers ELSE {<<>>} :
             Settles(k, Shown(k, es))
       \/ Settles(k, Failed)
    /\ UNCHANGED <<form, saved>>

\* Reset does not abort: a run in flight still shows its result. The removed
\* entry is written again by the effect, with the form it was reset to.
NerReset ==
    /\ User("ner")
    /\ SetForm([NerDefaults EXCEPT !.mode = form.mode, !.model = form.model])
    /\ view' = [NoView EXCEPT !.loading = view.loading]
    /\ UNCHANGED <<models, reqs>>

-----------------------------------------------------------------------------
(* What is shown *)

\* getFilteredEntities
Filtered == SelectSeq(view.data, LAMBDA e : e.score >= form.threshold)

\* Mutant of Highlighted: the entities are taken in the order of the answer.
HighlightedUnsorted ==
    LET Step(acc, e) ==
            [parts |-> acc.parts
                 \o (IF e.start > acc.last THEN <<[from |-> acc.last, to |-> e.start]>>
                     ELSE <<>>)
                 \o <<[from |-> e.start, to |-> e.end]>>,
             last |-> e.end]
        done == FoldLeft(Step, [parts |-> <<>>, last |-> 0], Filtered)
    IN done.parts \o (IF done.last < TextLength
                      THEN <<[from |-> done.last, to |-> TextLength]>> ELSE <<>>)

\* renderHighlightedText: the parts of the text, in order. An entity shows the
\* text it was answered with; the gaps are cut from the text of the form.
Highlighted ==
    LET sorted == SortSeq(Filtered, LAMBDA a, b : a.start < b.start)
        Step(acc, e) ==
            [parts |-> acc.parts
                 \o (IF e.start > acc.last THEN <<[from |-> acc.last, to |-> e.start]>>
                     ELSE <<>>)
                 \o <<[from |-> e.start, to |-> e.end]>>,
             last |-> e.end]
        done == FoldLeft(Step, [parts |-> <<>>, last |-> 0], sorted)
    IN done.parts \o (IF done.last < TextLength
                      THEN <<[from |-> done.last, to |-> TextLength]>> ELSE <<>>)

\* The output panel; a result of the other mode is not shown.
NerOutput ==
    CASE view.loading -> "skeleton"
      [] ~view.loading /\ view.result # 0
            /\ reqs[view.result].of.mode = form.mode ->
             IF form.mode = "extract" THEN "structures"
             ELSE IF Filtered = <<>> THEN "none" ELSE "entities"
      [] OTHER -> "hint"

\* The bar of badges, the guide of missing models and the configuration.
NerPanels ==
    (IF NerOutput \in {"structures", "none", "entities"} THEN {"stats"} ELSE {})
        \cup (IF models.loaded /\ NerAvailable(form.mode, models.list) = <<>>
              THEN {"no models"} ELSE {})
        \cup (IF form.mode = "extract" THEN {"schema", "options"} ELSE {"labels"})
        \cup (IF view.error THEN {"error"} ELSE {})

NerNext ==
    \/ \E ms \in ModelLists : NerModels(ms)
    \/ \E m \in {"recognize", "extract"} : NerSetMode(m)
    \/ \E t \in Inputs : NerSetText(t)
    \/ \E m \in AllModels : NerSetModel(m)
    \/ \E s \in Scores : NerSetThreshold(s)
    \/ \E l \in Labels : NerAddLabel(l) \/ NerRemoveLabel(l)
    \/ page = "ner" /\ \E s \in NerSchemas : NerSetSchema(s)
    \/ \E o \in {"confidence", "spans"} : NerToggle(o)
    \/ \E t \in Texts : NerLoadSample(t)
    \/ \E click \in BOOLEAN : HandleRecognize(click)
    \/ NerReset
    \/ \E k \in DOMAIN reqs : NerSettles(k)

=============================================================================
