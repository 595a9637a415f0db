----------------------------- MODULE TablePages -----------------------------
(***************************************************************************)
(* The list of tables ("tables") and the page of one table ("details"),    *)
(* with its indexes, its schema and the query builder.                     *)
(***************************************************************************)
EXTENDS AdminPages

CONSTANTS
    TableNames,   \* tables
    Filters,      \* filter values, "" aside
    IndexNames    \* embeddings indexes of the tables; the full-text one is apart

-----------------------------------------------------------------------------
(* TablesListPage. server (environment): the tables that exist.              *)

\* Which tables a filter lets through (external).
Passes(filter) == IF filter = "" THEN TableNames ELSE {t \in TableNames : t = filter}

\* late (history): a list was overtaken or not loaded, or a drop was lost.
TablesInit ==
    [server |-> TableNames, tables |-> {}, error |-> FALSE, open |-> FALSE, table |-> "",
     dropping |-> FALSE, timer |-> <<>>, loading |-> TRUE, mode |-> "prefix", filter |-> "",
     late |-> FALSE]

ServeTables(k) ==
    /\ screen = "tables" /\ ~calls[k].done /\ ~Served(k)
    /\ IF calls[k].kind = "list"
       THEN /\ calls' = [calls EXCEPT ![k].got = <<st.server \cap Passes(calls[k].of.filter)>>]
            /\ UNCHANGED st
       ELSE /\ calls[k].of.table \in st.server
            /\ calls' = [calls EXCEPT ![k].got = <<{}>>]
            /\ st' = [st EXCEPT !.server = @ \ {calls[k].of.table}]
    /\ Quiet

\* initialFetch and fetchTables end. An error message stays for good.
TablesArrive(k, ok) ==
    /\ screen = "tables" /\ (ok => Served(k))
    /\ CallEnds(k, "list", calls[k].got)
    /\ st' = [st EXCEPT !.loading = FALSE, !.tables = IF ok THEN calls[k].got[1] ELSE @,
                        !.error = @ \/ ~ok, !.late = @ \/ ~ok \/ Overtaken(k)]

\* fetchTables: the reload button, handleApplyFilter by its button or, whatever
\* is loading, by the Enter key.
FetchTables(enter) ==
    /\ User("tables") /\ ~st.open /\ (enter \/ ~st.loading)
    /\ Start("list", [filter |-> st.filter, mode |-> st.mode])
    /\ st' = [st EXCEPT !.loading = TRUE]

EditFilter(f) == User("tables") /\ ~st.open /\ f # st.filter /\ Only([st EXCEPT !.filter = f])
SetFilterMode(m) == User("tables") /\ ~st.open /\ m # st.mode /\ Only([st EXCEPT !.mode = m])
HandleClearFilter ==
    /\ User("tables") /\ ~st.open /\ ~st.loading /\ st.filter # ""
    /\ Only([st EXCEPT !.filter = "", !.mode = "prefix"])

HandleOpenDropDialog(t) ==
    /\ User("tables") /\ ~st.open /\ t \in st.tables
    /\ Only([st EXCEPT !.open = TRUE, !.table = t])

\* "Cancel" is a trigger of the dialog, as is "Drop": it closes it.
CancelDrop == User("tables") /\ st.open /\ ~st.dropping /\ Only([st EXCEPT !.open = FALSE])

\* handleDropTable; its closures are those of the click.
HandleDropTable ==
    /\ User("tables") /\ st.open /\ ~st.dropping /\ st.table # ""
    /\ Start("drop", [table |-> st.table, filter |-> st.filter, mode |-> st.mode])
    /\ st' = [st EXCEPT !.dropping = TRUE, !.open = FALSE]

TableDropped(k, ok) ==
    /\ screen = "tables" /\ (ok => Served(k))
    /\ CallEnds(k, "drop", calls[k].got)
    /\ st' = IF ok THEN [st EXCEPT !.timer = Append(@, calls[k].of)]
             ELSE [st EXCEPT !.error = TRUE, !.dropping = FALSE, !.late = @ \/ Lost(k, ok)]

\* A second later the list is fetched, and the dialog closed, be it another one.
DropTimer ==
    /\ screen = "tables" /\ st.timer # <<>>
    /\ calls' = Append(calls, Call("list", [filter |-> st.timer[1].filter, mode |-> st.timer[1].mode]))
    /\ st' = [st EXCEPT !.timer = Tail(@), !.loading = TRUE, !.open = FALSE, !.table = "",
                        !.dropping = FALSE]
    /\ Quiet

TablesNext ==
    \/ \E k \in DOMAIN calls, ok \in BOOLEAN :
          ServeTables(k) \/ TablesArrive(k, ok) \/ TableDropped(k, ok)
    \/ \E b \in BOOLEAN : FetchTables(b)
    \/ \E f \in Filters \cup {""} : EditFilter(f)
    \/ \E m \in {"prefix", "regex"} : SetFilterMode(m)
    \/ \E t \in TableNames : HandleOpenDropDialog(t)
    \/ HandleClearFilter \/ CancelDrop \/ HandleDropTable \/ DropTimer

-----------------------------------------------------------------------------
(* TableDetailsPage. server (environment): the indexes and the schema of each *)
(* table, a schema being the number of its changes. A filter is "{}", "f" or  *)
(* text that is no JSON ("?").                                                *)

\* The builder's part of the state, and the request it stands for.
BuilderInit == [query |-> "", indexes |-> {}, filter |-> "{}", limit |-> 0]

HasSemanticQuery(b) == b.query # "" /\ b.indexes # {}
HasFilterQuery(b) == b.filter \notin {"{}", "?"}

DefaultLimit == 10

\* semanticQueryRequestString, as a record; limit 0 is none, 10 the default.
QueryRequest(b) ==
    [indexes |-> IF HasSemanticQuery(b) THEN b.indexes ELSE {},
     query |-> IF HasSemanticQuery(b) THEN b.query ELSE "",
     limit |-> IF b.limit = 0 THEN DefaultLimit ELSE b.limit,
     filter |-> IF HasFilterQuery(b) THEN b.filter ELSE "{}"]

\* Mutant of BuilderOf: the filter of the request is not taken over.
BuilderOfNoFilter(r) ==
    [query |-> r.query, indexes |-> r.indexes, filter |-> "{}", limit |-> r.limit]

\* The other way: handleQueryModeChange to the builder.
BuilderOf(r) ==
    [query |-> r.query, indexes |-> r.indexes, filter |-> r.filter, limit |-> r.limit]

FullText == "full_text_index_v0"
Embeddings(indexes) == indexes \ {FullText}

\* The effect that selects the first index when none is selected.
AutoSelected(s) ==
    IF s.b.indexes = {} /\ Embeddings(s.indexes) # {}
    THEN [s EXCEPT !.b.indexes = {CHOOSE i \in Embeddings(s.indexes) : TRUE}] ELSE s

\* of: whose indexes and schema are shown; json: the text of the JSON tab.
DetailsInit(t, section) ==
    [server |-> [n \in TableNames |-> [indexes |-> IndexNames \cup {FullText}, schema |-> 0]],
     table |-> t, indexes |-> {}, indexesOf |-> "", schema |-> 0, schemaOf |-> "",
     error |-> FALSE, late |-> FALSE, editing |-> FALSE, drop |-> "", creating |-> FALSE,
     b |-> BuilderInit, mode |-> "builder", json |-> QueryRequest(BuilderInit), result |-> 0, section |-> section]

\* Both fetches of a table.
DetailsCalls(t) == <<Call("indexes", [table |-> t]), Call("schema", [table |-> t])>>

ServeDetails(k) ==
    /\ screen = "details" /\ ~calls[k].done /\ ~Served(k) /\ calls[k].kind # "query"
    /\ LET c == calls[k]
           of == st.server[c.of.table]
           Reply(r, server) == calls' = [calls EXCEPT ![k].got = <<r>>] /\ st' = [st EXCEPT !.server[c.of.table] = server]
       IN CASE c.kind = "indexes" -> Reply(of.indexes, of)
            [] c.kind = "schema" -> Reply(of.schema, of)
            [] c.kind = "update" -> Reply(0, [of EXCEPT !.schema = @ + 1])
            [] c.kind = "drop" -> c.of.index \in of.indexes /\ Reply(0, [of EXCEPT !.indexes = @ \ {c.of.index}])
            [] c.kind = "create" -> c.of.index \notin of.indexes /\ Reply(0, [of EXCEPT !.indexes = @ \cup {c.of.index}])
    /\ Quiet

\* fetchIndexes and fetchTableSchema end; without a schema there is none to show.
FetchTableIndexes(k, ok) ==
    /\ screen = "details" /\ (ok => Served(k))
    /\ CallEnds(k, "indexes", calls[k].got)
    /\ st' = IF ok
             THEN AutoSelected([st EXCEPT !.indexes = calls[k].got[1], !.indexesOf = calls[k].of.table,
                                          !.late = @ \/ Overtaken(k)])
             ELSE [st EXCEPT !.error = TRUE, !.late = TRUE]
FetchTableSchema(k, ok) ==
    /\ screen = "details" /\ (ok => Served(k))
    /\ CallEnds(k, "schema", calls[k].got)
    /\ st' = [st EXCEPT !.schema = IF ok THEN calls[k].got[1] ELSE 0, !.schemaOf = calls[k].of.table,
                        !.late = @ \/ ~ok \/ Overtaken(k)]

\* The sidebar goes to another table or section. The page stays mounted: all
\* that is fetched again are the indexes and the schema.
GoToTable(t) ==
    /\ User("details") /\ t # st.table /\ st.drop = "" /\ ~st.creating /\ Len(calls) < MaxCalls
    /\ calls' = calls \o DetailsCalls(t)
    /\ st' = [st EXCEPT !.table = t]
GoToSection(s) ==
    User("details") /\ st.drop = "" /\ ~st.creating /\ s # st.section /\ Only([st EXCEPT !.section = s])

\* Rows of the indexes by type, the types in order; the full-text index has no
\* working Drop button.
GroupedIndexes(s) ==
    [type \in (IF Embeddings(s.indexes) = {} THEN {} ELSE {"embeddings"})
                  \cup (IF FullText \in s.indexes THEN {"full_text"} ELSE {}) |->
        IF type = "embeddings" THEN Embeddings(s.indexes) ELSE {FullText}]
Droppable(s) == UNION {GroupedIndexes(s)[t] : t \in DOMAIN GroupedIndexes(s)} \ {FullText}

ReloadIndexes ==
    User("details") /\ st.section = "indexes" /\ Start("indexes", [table |-> st.table]) /\ UNCHANGED st

OpenDropIndex(i) ==
    /\ User("details") /\ st.section = "indexes" /\ st.drop = "" /\ ~st.creating /\ i \in Droppable(st)
    /\ Only([st EXCEPT !.drop = i])
CancelDropIndex == User("details") /\ st.drop # "" /\ Only([st EXCEPT !.drop = ""])

\* handleDropIndex; "Drop" closes the dialog as "Cancel" does.
HandleDropIndex ==
    /\ User("details") /\ st.drop # ""
    /\ Start("drop", [table |-> st.table, index |-> st.drop])
    /\ st' = [st EXCEPT !.drop = ""]

\* CreateIndexDialog.
OpenCreateIndex ==
    /\ User("details") /\ st.section = "indexes" /\ st.drop = "" /\ ~st.creating
    /\ Only([st EXCEPT !.creating = TRUE])
CreateIndex(i) ==
    /\ User("details") /\ st.creating
    /\ Start("create", [table |-> st.table, index |-> i]) /\ UNCHANGED st
CancelCreate == User("details") /\ st.creating /\ Only([st EXCEPT !.creating = FALSE])

\* A drop or a new index is answered: the indexes of the table of the click are
\* fetched and the dialog, be it another one, is closed. A refused index keeps
\* its dialog, with the error in it.
IndexChanged(k, ok) ==
    /\ screen = "details" /\ calls[k].kind \in {"drop", "create"} /\ ~calls[k].done /\ (ok => Served(k)) /\ Quiet
    /\ IF ok
       THEN /\ EndsThen(k, "indexes", [table |-> calls[k].of.table])
            /\ st' = [st EXCEPT !.drop = IF calls[k].kind = "drop" THEN "" ELSE @,
                                !.creating = @ /\ calls[k].kind # "create",
                                !.late = @ \/ calls[k].of.table # st.table]
       ELSE /\ calls' = [calls EXCEPT ![k].done = TRUE]
            /\ st' = [st EXCEPT !.error = @ \/ calls[k].kind = "drop", !.late = @ \/ Lost(k, ok)]

\* The schema's editor; without a schema it is open.
ToggleEditing == User("details") /\ st.section = "schema" /\ Only([st EXCEPT !.editing = ~@])
HandleUpdateSchema ==
    /\ User("details") /\ st.section = "schema" /\ (st.editing \/ st.schema = 0)
    /\ Start("update", [table |-> st.table]) /\ UNCHANGED st
SchemaUpdated(k, ok) ==
    /\ screen = "details" /\ calls[k].kind = "update" /\ ~calls[k].done /\ (ok => Served(k)) /\ Quiet
    /\ IF ok
       THEN /\ EndsThen(k, "schema", [table |-> calls[k].of.table])
            /\ st' = [st EXCEPT !.editing = FALSE, !.late = @ \/ calls[k].of.table # st.table]
       ELSE /\ calls' = [calls EXCEPT ![k].done = TRUE]
            /\ st' = [st EXCEPT !.error = TRUE, !.late = @ \/ Lost(k, ok)]

-----------------------------------------------------------------------------
(* The query builder of the "semantic" section; the fields and aggregations  *)
(* it also sends are passed through.                                         *)

InBuilder == User("details") /\ st.section = "semantic" /\ st.mode = "builder"

\* The fields of the builder, the assistant's filter among them.
EditQuery(q) == InBuilder /\ q # st.b.query /\ Only([st EXCEPT !.b.query = q])
EditQueryFilter(f) == InBuilder /\ f # st.b.filter /\ Only([st EXCEPT !.b.filter = f])
EditLimit(n) == InBuilder /\ n # st.b.limit /\ Only([st EXCEPT !.b.limit = n])
HandleQueryIndexChange(is) ==
    /\ InBuilder /\ is \subseteq Embeddings(st.indexes) /\ is # st.b.indexes
    /\ Only(AutoSelected([st EXCEPT !.b.indexes = is]))

\* handleQueryModeChange. The text of the JSON tab is always what the builder
\* wrote: its editor only replaces the viewer when the text does not parse.
HandleQueryModeChange(m) ==
    /\ User("details") /\ st.section = "semantic" /\ m # st.mode
    /\ Only(IF m = "json" THEN [st EXCEPT !.mode = m, !.json = QueryRequest(st.b)]
            ELSE AutoSelected([st EXCEPT !.mode = m, !.b = BuilderOf(st.json), !.error = FALSE]))

\* handleRunQuery, by the button or by Ctrl+Enter, which the button's guard does
\* not hold back.
HandleRunQuery(click) ==
    /\ User("details") /\ st.section = "semantic"
    /\ click => HasSemanticQuery(st.b) \/ HasFilterQuery(st.b)
    /\ Start("query", [table |-> st.table,
                       request |-> IF st.mode = "json" THEN st.json ELSE QueryRequest(st.b)])
    /\ UNCHANGED st

QueryAnswered(k, ok) ==
    /\ screen = "details"
    /\ CallEnds(k, "query", <<>>)
    /\ st' = IF ok THEN [st EXCEPT !.result = k] ELSE [st EXCEPT !.error = TRUE]

\* The assistant applies a filter and runs: the run is deferred, its closure is
\* of the render before.
ApplyAndRun(f) ==
    /\ InBuilder
    /\ Start("query", [table |-> st.table, request |-> QueryRequest(st.b)])
    /\ st' = [st EXCEPT !.b.filter = f]

DetailsAnswers ==
    \E k \in DOMAIN calls, ok \in BOOLEAN :
        \/ ServeDetails(k) \/ FetchTableIndexes(k, ok) \/ FetchTableSchema(k, ok)
        \/ IndexChanged(k, ok) \/ SchemaUpdated(k, ok) \/ QueryAnswered(k, ok)

DetailsNext ==
    \/ DetailsAnswers
    \/ \E t \in TableNames : GoToTable(t)
    \/ \E s \in {"indexes", "schema", "semantic"} : GoToSection(s)
    \/ ReloadIndexes \/ OpenCreateIndex \/ CancelCreate \/ CancelDropIndex \/ HandleDropIndex \/ ToggleEditing \/ HandleUpdateSchema
    \/ \E i \in IndexNames : OpenDropIndex(i) \/ CreateIndex(i)
    \/ \E q \in {"", "q"} : EditQuery(q)
    \/ \E f \in {"{}", "f", "?"} : EditQueryFilter(f)
    \/ \E f \in {"{}", "f"} : ApplyAndRun(f)
    \/ \E n \in {0, 5} : EditLimit(n)
    \/ \E is \in SUBSET IndexNames : HandleQueryIndexChange(is)
    \/ \E m \in {"builder", "json"} : HandleQueryModeChange(m)
    \/ \E b \in BOOLEAN : HandleRunQuery(b)

=============================================================================
