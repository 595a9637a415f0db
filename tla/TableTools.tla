----------------------------- MODULE TableTools -----------------------------
(***************************************************************************)
(* The tools on the page of one table: the form of its document schemas    *)
(* ("schema"), the upload of a file ("insert") and the assistant that      *)
(* proposes a filter ("assistant"). TablePages has the page around them.   *)
(***************************************************************************)
EXTENDS TablePages

CONSTANTS
    Samples,   \* documents of a table or of a text: sequences of [type, fields]
    Files,     \* files to upload: the content and, by line, its fields
    MaxSchemas \* bound on the schemas of the form

ASSUME ToolsAssumption == MaxSchemas \in Nat /\ "" \notin DOMAIN Files

-----------------------------------------------------------------------------
(* DocumentSchemasForm. A schema is a sequence of [name, fields]; a name may  *)
(* still be "". In the form the fields of an entry are a set of names.        *)

Unnamed == [name |-> "", fields |-> {}]
Reserved == {"_id"}

\* acc[name] = value of a reduce over entries with names.
Put(acc, s) ==
    LET at == {i \in DOMAIN acc : acc[i].name = s.name}
    IN IF at = {} THEN Append(acc, s) ELSE [i \in DOMAIN acc |-> IF i \in at THEN s ELSE acc[i]]

\* What the form stands for: unnamed entries and fields are left out, of two
\* entries with one name the last counts.
Formatted(f) ==
    FoldLeft(LAMBDA acc, s : IF s.name = "" THEN acc ELSE Put(acc, [s EXCEPT !.fields = @ \ {""}]),
             <<>>, f)

\* The documents by type, the fields of a type together.
DetectionGroups(docs) ==
    LET TypeOf(d) == IF d.type = "" THEN "default" ELSE d.type
        FieldsOf(type) == UNION {docs[i].fields : i \in {j \in DOMAIN docs : TypeOf(docs[j]) = type}}
    IN FoldLeft(LAMBDA acc, d : Put(acc, [name |-> TypeOf(d), fields |-> FieldsOf(TypeOf(d)) \ Reserved]),
                <<>>, docs)

\* Where the fields of a type go: to the first schema of that name in the form
\* as it was before the merge, or behind its end.
TargetIndex(f, type) ==
    LET at == {i \in DOMAIN f : f[i].name = type}
    IN IF at = {} THEN Len(f) + 1 ELSE CHOOSE i \in at : \A j \in at : i <= j

\* Mutant of Merged: a schema of that name that is there is not looked for.
MergedAtEnd(f, groups) ==
    FoldLeft(LAMBDA acc, g :
                 LET grown == Append(acc, [name |-> g.name, fields |-> {}])
                 IN [grown EXCEPT ![Len(f) + 1].fields = @ \cup g.fields],
             f, groups)

\* The merge of detected groups. Each type without a schema appends one, and
\* all of them write to the place of the first.
Merged(f, groups) ==
    FoldLeft(LAMBDA acc, g :
                 LET i == TargetIndex(f, g.name)
                     grown == IF i > Len(f) THEN Append(acc, [name |-> g.name, fields |-> {}]) ELSE acc
                 IN [grown EXCEPT ![i].fields = @ \cup g.fields],
             f, groups)

\* The page: tableSchema (shown), isEditingSchema, and the form's own state.
\* mount counts the forms; opened (history): the table whose schema the form
\* started from; fresh (history): the groups the form was just changed by.
\* The first schema has arrived.
SchemaInit(t) ==
    LET one == <<[name |-> "a", fields |-> {"x"}]>>
    IN \E some \in SUBSET TableNames :
          st = [server |-> [n \in TableNames |-> IF n \in some THEN one ELSE <<>>],
                table |-> t, shown |-> IF t \in some THEN one ELSE <<>>, shownOf |-> t, editing |-> FALSE,
                mount |-> 1, opened |-> t, form |-> <<>>, json |-> <<>>, view |-> "form",
                detecting |-> FALSE, error |-> FALSE, fresh |-> <<>>, moved |-> FALSE, late |-> FALSE]

\* The form is there to edit the schema, or because there is none to show.
FormShown(s) == s.editing \/ s.shown = <<>>
InForm == User("schema") /\ FormShown(st) /\ st.view = "form"

\* A form that appears starts from the schema to edit, or from nothing.
Remounted(s) ==
    IF s.editing = st.editing /\ FormShown(s) = FormShown(st) THEN s
    ELSE LET start == IF s.editing THEN s.shown ELSE <<>>
         IN [s EXCEPT !.mount = @ + 1, !.form = start, !.json = start, !.view = "form",
                      !.opened = IF s.editing THEN s.shownOf ELSE s.table,
                      !.detecting = FALSE, !.fresh = <<>>]

\* The subscription: in the form view the JSON follows every change.
Watched(s) == IF s.view = "form" THEN [s EXCEPT !.json = Formatted(s.form)] ELSE s

Edited(f) == Only(Watched([st EXCEPT !.form = f, !.fresh = <<>>]))

AppendDocumentSchema == InForm /\ Len(st.form) < MaxSchemas /\ Edited(Append(st.form, Unnamed))
RemoveDocumentSchema(i) == InForm /\ i \in DOMAIN st.form /\ Edited(RemoveAt(st.form, i))
NameSchema(i, n) ==
    InForm /\ i \in DOMAIN st.form /\ n # st.form[i].name /\ Edited([st.form EXCEPT ![i].name = n])
\* "Add Field", the rows' names and their delete buttons.
EditFields(i, fs) ==
    InForm /\ i \in DOMAIN st.form /\ fs # st.form[i].fields /\ Edited([st.form EXCEPT ![i].fields = fs])

\* The fields the form got and, when only one type was new, where from.
WithGroups(s, groups) ==
    LET new == {g \in ToSet(groups) : TargetIndex(s.form, g.name) > Len(s.form)}
    IN Watched([s EXCEPT !.form = Merged(s.form, groups),
                         !.fresh = IF Cardinality(new) <= 1 /\ s.view = "form" THEN groups ELSE <<>>])

\* handleDetect and detect of useFieldDetection.
HandleDetect ==
    /\ InForm /\ ~st.detecting
    /\ Start("detect", [table |-> st.table, mount |-> st.mount])
    /\ st' = [st EXCEPT !.detecting = TRUE, !.error = FALSE]

\* The hits, or none. The form may be gone, or another one be there.
FieldsDetected(k, docs, ok) ==
    /\ screen = "schema"
    /\ CallEnds(k, "detect", <<>>)
    /\ st' = CASE calls[k].of.mount # st.mount -> st
               [] calls[k].of.mount = st.mount /\ ok /\ docs # <<>> ->
                     [WithGroups(st, DetectionGroups(docs)) EXCEPT !.detecting = FALSE]
               [] OTHER -> [st EXCEPT !.detecting = FALSE, !.error = TRUE]

HandleDetectFromJson(docs) ==
    InForm /\ docs # <<>> /\ Only(WithGroups(st, DetectionGroups(docs)))

\* handleImport of SchemaEditor: the types are inferred in another task, and
\* written to the place the editor had.
HandleImport(i, docs) ==
    /\ InForm /\ i \in DOMAIN st.form /\ docs # <<>>
    /\ Start("import", [at |-> i, docs |-> docs, mount |-> st.mount])
    /\ UNCHANGED st
Imported(k) ==
    /\ screen = "schema"
    /\ CallEnds(k, "import", <<>>)
    /\ LET of == calls[k].of
           fields == UNION {of.docs[i].fields : i \in DOMAIN of.docs} \ Reserved
           form == [i \in 1 .. (IF of.at > Len(st.form) THEN of.at ELSE Len(st.form)) |->
                       IF i \in DOMAIN st.form THEN st.form[i] ELSE Unnamed]
       IN st' = IF of.mount # st.mount THEN st
                ELSE Watched([st EXCEPT !.form = [form EXCEPT ![of.at].fields = fields], !.fresh = <<>>])

\* handleViewChange: the form is written from the JSON again.
HandleViewChange(v) ==
    /\ User("schema") /\ FormShown(st) /\ v # st.view
    /\ Only(IF v = "json" THEN [st EXCEPT !.view = v]
            ELSE Watched([st EXCEPT !.view = v, !.form = st.json, !.fresh = <<>>]))

\* The resolver: every name has a character.
Valid(f) == \A i \in DOMAIN f : f[i].name # "" /\ "" \notin f[i].fields

\* handleFormSubmit and handleUpdateSchema; in either view the form is validated.
HandleFormSubmit ==
    /\ User("schema") /\ FormShown(st) /\ Valid(st.form)
    /\ Start("update", [table |-> st.table, opened |-> st.opened,
                        schema |-> IF st.view = "json" THEN st.json ELSE Formatted(st.form)])
    /\ UNCHANGED st

\* "Edit Schema" and "Cancel".
ToggleEditor == User("schema") /\ Only(Remounted([st EXCEPT !.editing = ~@]))

\* Another table: the form stays, whosever it is.
OtherTable(t) ==
    /\ User("schema") /\ t # st.table
    /\ Start("schema", [table |-> t])
    /\ st' = [st EXCEPT !.table = t, !.moved = TRUE]

ServeSchema(k) ==
    /\ screen = "schema" /\ ~calls[k].done /\ ~Served(k) /\ calls[k].kind \in {"schema", "update"}
    /\ calls' = [calls EXCEPT ![k].got = <<st.server[calls[k].of.table]>>]
    /\ st' = IF calls[k].kind = "schema" THEN st
             ELSE [st EXCEPT !.server[calls[k].of.table] = calls[k].of.schema]
    /\ Quiet

SchemaFetched(k, ok) ==
    /\ screen = "schema" /\ (ok => Served(k))
    /\ CallEnds(k, "schema", calls[k].got)
    /\ st' = Remounted([st EXCEPT !.shown = IF ok THEN calls[k].got[1] ELSE <<>>,
                                  !.shownOf = calls[k].of.table, !.late = @ \/ ~ok \/ Overtaken(k)])

FormSaved(k, ok) ==
    /\ screen = "schema" /\ calls[k].kind = "update" /\ ~calls[k].done /\ (ok => Served(k)) /\ Quiet
    /\ IF ok
       THEN /\ EndsThen(k, "schema", [table |-> calls[k].of.table])
            /\ st' = Remounted([st EXCEPT !.editing = FALSE, !.late = @ \/ calls[k].of.table # st.table])
       ELSE /\ calls' = [calls EXCEPT ![k].done = TRUE]
            /\ st' = [st EXCEPT !.late = @ \/ Lost(k, ok)]

SchemaAnswers ==
    \E k \in DOMAIN calls, ok \in BOOLEAN :
        \/ ServeSchema(k) \/ SchemaFetched(k, ok) \/ FormSaved(k, ok) \/ Imported(k)
        \/ \E docs \in Samples : FieldsDetected(k, docs, ok)

SchemaNext ==
    \/ SchemaAnswers
    \/ AppendDocumentSchema \/ HandleDetect \/ HandleFormSubmit \/ ToggleEditor
    \/ \E i \in 1 .. MaxSchemas :
          \/ RemoveDocumentSchema(i)
          \/ \E n \in {"", "a"} : NameSchema(i, n)
          \/ \E fs \in {{""}, {"x"}} : EditFields(i, fs)
          \/ \E docs \in Samples : HandleImport(i, docs)
    \/ \E docs \in Samples : HandleDetectFromJson(docs)
    \/ \E v \in {"form", "json"} : HandleViewChange(v)
    \/ \E t \in TableNames : OtherTable(t)

-----------------------------------------------------------------------------
(* BulkInsert. An ID is a field's name, or a template over fields, with or    *)
(* without text around them.                                                  *)

NoId == [text |-> "", at |-> {}]

\* The fields a document needs for its ID.
NeededFields(id) == IF id.at # {} THEN id.at ELSE {id.text}

\* All lines parse and have an ID, or nothing is sent.
Insertable(file, id) ==
    /\ Files[file].text
    /\ \A i \in DOMAIN Files[file].lines :
          Files[file].lines[i].json /\ NeededFields(id) \subseteq Files[file].lines[i].fields

\* server (environment): what was inserted. late (history): a file was not read,
\* or only after another one was chosen or the form was reset.
InsertInit(t) ==
    [server |-> [n \in TableNames |-> {}], table |-> t, file |-> "", content |-> "", suggestions |-> {},
     id |-> NoId, error |-> FALSE, success |-> FALSE, loading |-> FALSE, late |-> FALSE]

\* The effect of the table: the key of its default schema, if it has one.
KeyArrives(k, key) ==
    /\ screen = "insert"
    /\ CallEnds(k, "key", <<>>)
    /\ st' = [st EXCEPT !.id = IF key = "" THEN @ ELSE [NoId EXCEPT !.text = key]]
InsertInto(t) ==
    /\ User("insert") /\ t # st.table
    /\ Start("key", [table |-> t])
    /\ st' = [st EXCEPT !.table = t]

HandleFileChange(f) ==
    /\ User("insert") /\ f # st.file
    /\ Start("read", [file |-> f])
    /\ st' = [st EXCEPT !.file = f]

\* The reader of the preview; an empty file leaves the suggestions alone.
PreviewRead(k, ok) ==
    /\ screen = "insert"
    /\ CallEnds(k, "read", <<>>)
    /\ LET f == calls[k].of.file
           first == Files[f].lines[1]
       IN st' = [st EXCEPT !.late = @ \/ ~ok \/ f # st.file,
                           !.content = IF ~ok THEN @ ELSE IF Files[f].text THEN f ELSE "",
                           !.suggestions = IF ok /\ ~Files[f].text THEN @
                                           ELSE IF ok /\ first.json THEN first.fields ELSE {}]

EditIdField(v) == User("insert") /\ v # st.id.text /\ Only([st EXCEPT !.id = [text |-> v, at |-> {}]])
InsertFieldAtCursor(f) ==
    User("insert") /\ f \in st.suggestions \ st.id.at /\ Only([st EXCEPT !.id.at = @ \cup {f}])

\* onSubmit, which reads the file once more.
UploadFile ==
    /\ User("insert") /\ st.file # "" /\ st.id # NoId /\ ~st.loading
    /\ Start("upload", [file |-> st.file, id |-> st.id, table |-> st.table])
    /\ st' = [st EXCEPT !.loading = TRUE, !.error = FALSE, !.success = FALSE]

UploadRead(k, ok) ==
    /\ screen = "insert" /\ calls[k].kind = "upload" /\ ~calls[k].done /\ Quiet
    /\ IF ok /\ Insertable(calls[k].of.file, calls[k].of.id)
       THEN EndsThen(k, "batch", calls[k].of) /\ UNCHANGED st
       ELSE /\ calls' = [calls EXCEPT ![k].done = TRUE]
            /\ st' = [st EXCEPT !.error = TRUE, !.loading = FALSE]

ServeBatch(k) ==
    /\ screen = "insert" /\ calls[k].kind = "batch" /\ ~calls[k].done /\ ~Served(k)
    /\ calls' = [calls EXCEPT ![k].got = <<"ok">>]
    /\ st' = [st EXCEPT !.server[calls[k].of.table] = @ \cup {calls[k].of}]
    /\ Quiet

\* The batch is answered; after a success the form is reset, also when another
\* file was chosen meanwhile.
BatchInserted(k, ok) ==
    /\ screen = "insert" /\ (ok => Served(k))
    /\ CallEnds(k, "batch", calls[k].got)
    /\ st' = IF ok THEN [st EXCEPT !.loading = FALSE, !.success = TRUE, !.file = "", !.content = "",
                                   !.suggestions = {}, !.id = NoId]
             ELSE [st EXCEPT !.loading = FALSE, !.error = TRUE]

InsertAnswers ==
    \E k \in DOMAIN calls, ok \in BOOLEAN :
        \/ PreviewRead(k, ok) \/ UploadRead(k, ok) \/ ServeBatch(k) \/ BatchInserted(k, ok)
        \/ \E key \in {"", "id"} : KeyArrives(k, key)

InsertNext ==
    \/ InsertAnswers \/ UploadFile
    \/ \E t \in TableNames : InsertInto(t)
    \/ \E f \in DOMAIN Files : HandleFileChange(f)
    \/ \E v \in {"", "id", "x"} : EditIdField(v)
    \/ \E f \in {"id", "x"} : InsertFieldAtCursor(f)

-----------------------------------------------------------------------------
(* AIQueryAssistant. The result and the filter are those of a call. *)

\* over (history): two calls were under way at once.
AssistantInit(t) ==
    [table |-> t, intent |-> "", loading |-> FALSE, error |-> FALSE, result |-> 0, filter |-> 0, over |-> FALSE]

SetIntent(i) == User("assistant") /\ i # st.intent /\ Only([st EXCEPT !.intent = i])
AssistantTable(t) == User("assistant") /\ t # st.table /\ Only([st EXCEPT !.table = t])

\* handleGenerate: the button waits for the call before, Ctrl+Enter does not.
HandleGenerate(click) ==
    /\ User("assistant") /\ (click => ~st.loading /\ st.intent # "")
    /\ IF st.intent = "" THEN Only([st EXCEPT !.error = TRUE])
       ELSE /\ Start("generate", [intent |-> st.intent, table |-> st.table])
            /\ st' = [st EXCEPT !.loading = TRUE, !.error = FALSE, !.result = 0,
                                !.over = @ \/ Open("generate") # {}]

QueryGenerated(k, ok) ==
    /\ screen = "assistant"
    /\ CallEnds(k, "generate", <<>>)
    /\ st' = [st EXCEPT !.loading = FALSE, !.result = IF ok THEN k ELSE @, !.error = @ \/ ~ok]

\* handleApply, handleApplyAndRun, handleDiscard.
CloseProposal(apply) ==
    /\ User("assistant") /\ st.result # 0
    /\ Only([st EXCEPT !.result = 0, !.filter = IF apply THEN st.result ELSE @])

AssistantNext ==
    \/ \E k \in DOMAIN calls, ok \in BOOLEAN : QueryGenerated(k, ok)
    \/ \E i \in {"", "i1", "i2"} : SetIntent(i)
    \/ \E t \in TableNames : AssistantTable(t)
    \/ \E b \in BOOLEAN : HandleGenerate(b) \/ CloseProposal(b)

=============================================================================
