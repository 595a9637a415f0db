----------------------------- MODULE ReaderPage -----------------------------
(***************************************************************************)
(* ReaderPlaygroundPage: text of uploaded images.                          *)
(***************************************************************************)
EXTENDS Playground

CONSTANTS MaxImages, Donuts   \* a bound; the models that want a task prompt

ReadDefaults == [images |-> <<>>, next |-> 1, loading |-> {}, selected |-> 1,
                 prompt |-> "", model |-> "", tab |-> "text", copied |-> FALSE]

\* The effect that follows the model: a prompt it once set itself is replaced.
AutoPrompt(f) ==
    IF f.model = "" \/ f.prompt \notin {"", "auto"} THEN f
    ELSE [f EXCEPT !.prompt = IF f.model \in Donuts THEN "auto" ELSE ""]

ReadModels(ms) ==
    /\ page = "read"
    /\ ModelsArrive(ms, IF ms = <<>> THEN form
                        ELSE AutoPrompt([form EXCEPT !.model = Head(ms)]))

ReadSetModel(m) ==
    /\ User("read") /\ ModelEnabled /\ m \in ToSet(models.list)
    /\ OnlyForm(AutoPrompt([form EXCEPT !.model = m]))

ReadSetPrompt(t) == User("read") /\ OnlyForm(AutoPrompt([form EXCEPT !.prompt = t]))

-----------------------------------------------------------------------------
(* Results: one for each image, by position *)

\* The result of the selected image, from the results data.
ResultOf(f, data) == IF f.selected \in DOMAIN data THEN {data[f.selected]} ELSE {}
CurrentResult == ResultOf(form, view.data)

OutputTabs(f, data) ==
    {"text", "json"} \cup (IF TRUE \in ResultOf(f, data) THEN {"fields"} ELSE {})

\* The effect that leaves a tab the selected result does not have.
FixTab(f, data) ==
    IF f.tab \in OutputTabs(f, data) THEN f ELSE [f EXCEPT !.tab = "text"]

-----------------------------------------------------------------------------
(* Images *)

\* processImageFiles: a file is appended when the browser has decoded it.
ReadDrop ==
    /\ User("read")
    /\ Len(form.images) + Cardinality(form.loading) < MaxImages
    /\ OnlyForm([form EXCEPT !.loading = @ \cup {form.next}, !.next = @ + 1])

ImageDecoded(id) ==
    /\ page = "read" /\ id \in form.loading
    /\ SetForm([form EXCEPT !.images = Append(@, id), !.loading = @ \ {id}])
    /\ UNCHANGED <<page, view, models, reqs, steps>>

ReadSelect(i) ==
    /\ User("read") /\ i \in DOMAIN form.images
    /\ OnlyForm(FixTab([form EXCEPT !.selected = i], view.data))

\* Mutant of RemoveImage: the selection is not moved.
RemoveImageOnly(i) ==
    /\ User("read") /\ i \in DOMAIN form.images
    /\ OnlyForm(FixTab([form EXCEPT !.images = RemoveAt(@, i)], view.data))

RemoveImage(i) ==
    /\ User("read") /\ i \in DOMAIN form.images
    /\ LET left == RemoveAt(form.images, i)
           at == form.selected
       IN OnlyForm(FixTab([form EXCEPT !.images = left,
              !.selected = IF at > Len(left) THEN IF left = <<>> THEN 1 ELSE Len(left)
                           ELSE IF i < at THEN at - 1 ELSE at], view.data))

\* The sample replaces the images and drops the result.
ReadLoadSample ==
    /\ User("read")
    /\ SetForm(FixTab([form EXCEPT !.images = <<form.next>>, !.next = @ + 1,
                                   !.selected = 1], <<>>))
    /\ view' = [NoView EXCEPT !.loading = view.loading]
    /\ UNCHANGED <<models, reqs>>

-----------------------------------------------------------------------------
(* Reading *)

ReadButton == ~view.loading /\ form.images # <<>> /\ form.model # ""

HandleReadImages ==
    /\ User("read") /\ ReadButton
    /\ Launch(form)
    /\ SetForm(FixTab(form, <<>>))

\* data: for each image that was sent, whether it has fields.
ReadSettles(k) ==
    /\ page = "read"
    /\ \/ \E fields \in [DOMAIN reqs[k].of.images -> BOOLEAN] :
             /\ Settles(k, Shown(k, fields))
             /\ SetForm([form EXCEPT !.selected = 1, !.tab = "text"])
       \/ Settles(k, Failed) /\ UNCHANGED <<form, saved>>

\* Here the reset aborts, and clears isLoading itself.
ReadReset ==
    /\ User("read")
    /\ SetForm(FixTab(AutoPrompt([form EXCEPT !.images = <<>>, !.prompt = "",
                                  !.selected = 1, !.copied = FALSE]), <<>>))
    /\ view' = NoView
    /\ reqs' = AbortAll(reqs)
    /\ UNCHANGED models

-----------------------------------------------------------------------------
(* Output *)

ReadSetTab(t) ==
    /\ User("read") /\ view.result # 0 /\ t \in OutputTabs(form, view.data)
    /\ OnlyForm([form EXCEPT !.tab = t])

HandleCopy == User("read") /\ CurrentResult # {} /\ OnlyForm([form EXCEPT !.copied = TRUE])

CopyTimer ==
    /\ page = "read" /\ form.copied
    /\ SetForm([form EXCEPT !.copied = FALSE])
    /\ UNCHANGED <<page, view, models, reqs, steps>>

ReadPanels ==
    (IF view.result # 0 THEN {"stats"} ELSE {})
        \cup (IF view.result # 0 /\ CurrentResult # {} THEN {form.tab} ELSE {"hint"})
        \cup (IF models.loaded /\ models.list = <<>> THEN {"no models"} ELSE {})
        \cup (IF form.images # <<>> THEN {"preview"} ELSE {})

ReadNext ==
    \/ \E ms \in ModelLists : ReadModels(ms)
    \/ \E m \in AllModels : ReadSetModel(m)
    \/ \E t \in Texts \cup {""} : ReadSetPrompt(t)
    \/ page = "read" /\ \E id \in form.loading : ImageDecoded(id)
    \/ page = "read" /\ \E i \in DOMAIN form.images : ReadSelect(i) \/ RemoveImage(i)
    \/ \E t \in {"text", "json", "fields"} : ReadSetTab(t)
    \/ ReadDrop \/ ReadLoadSample \/ HandleReadImages \/ ReadReset
    \/ HandleCopy \/ CopyTimer
    \/ \E k \in DOMAIN reqs : ReadSettles(k)

=============================================================================
