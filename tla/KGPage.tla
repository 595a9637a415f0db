------------------------------- MODULE KGPage -------------------------------
(***************************************************************************)
(* KnowledgeGraphPlaygroundPage: a graph of the entities and relations of  *)
(* a text.                                                                 *)
(***************************************************************************)
EXTENDS Playground

CONSTANTS
    Rebels,          \* the models whose name contains "rebel"
    KGAnswers        \* answers of /api/recognize: [entities, relations]

KGLabels == {"person"}        \* DEFAULT_ENTITY_LABELS
KGRelationLabels == {"founded"}

KGDefaults == [text |-> "", model |-> "", labels |-> KGLabels,
               relations |-> KGRelationLabels, similarity |-> 85,
               options |-> {"type", "dedupe", "provenance"},
               node |-> 0, edge |-> 0]

\* Lists that were emptied come back with their defaults; the selection of a
\* node is not stored.
KGRestore(s) ==
    IF s = <<>> THEN KGDefaults
    ELSE [s[1] EXCEPT !.labels = IF @ = {} THEN KGLabels ELSE @,
                      !.relations = IF @ = {} THEN KGRelationLabels ELSE @,
                      !.node = 0, !.edge = 0]

\* REBEL models are listed with a prefix; the ?model= parameter has none.
Listed(m) == IF m \in Rebels THEN "rel:" \o m ELSE m
KGList(ms) == [i \in DOMAIN ms |-> Listed(ms[i])]
IsRebelModel(m) == \E r \in Rebels : m = Listed(r)

KGModels(ms) ==
    /\ page = "kg"
    /\ LET listed == KGList(ms)
       IN ModelsArrive(listed, [form EXCEPT !.model = ByParam(Keep(@, listed), listed)])

KGSetText(t) == User("kg") /\ OnlyForm([form EXCEPT !.text = t])

KGSetModel(m) ==
    /\ User("kg") /\ ModelEnabled /\ m \in ToSet(models.list)
    /\ OnlyForm([form EXCEPT !.model = m])

\* parseFloat(...) || 0.85: zero cannot be chosen.
KGSetSimilarity(v) ==
    /\ User("kg")
    /\ OnlyForm([form EXCEPT !.similarity = IF v = 0 THEN 85 ELSE v])

\* Both lists of labels are shown for a GLiNER model only.
KGAddLabel(f, l) ==
    /\ User("kg") /\ ~IsRebelModel(form.model)
    /\ l \notin form[f]
    /\ OnlyForm([form EXCEPT ![f] = @ \cup {l}])

KGRemoveLabel(f, l) ==
    /\ User("kg") /\ ~IsRebelModel(form.model)
    /\ l \in form[f]
    /\ OnlyForm([form EXCEPT ![f] = @ \ {l}])

KGToggle(o) ==
    /\ User("kg")
    /\ OnlyForm([form EXCEPT !.options = IF o \in @ THEN @ \ {o} ELSE @ \cup {o}])

-----------------------------------------------------------------------------
(* Building the graph *)

KGChecks ==
    /\ form.text # "" /\ form.model # ""
    /\ ~IsRebelModel(form.model) => form.labels # {}
KGButton == ~view.loading /\ form.text # "" /\ form.model # ""

HandleBuildGraph(click) ==
    /\ User("kg") /\ (click => KGButton)
    /\ IF KGChecks
       THEN Launch(form) /\ SetForm([form EXCEPT !.node = 0, !.edge = 0])
       ELSE Refuse

\* buildGraphFromResponse: one node for each key, a text and a label without
\* case, in order of appearance; a node takes the name of its most confident
\* mention. An edge needs both of its nodes.
BuildGraph(answer) ==
    LET AddEntity(ns, e) ==
            LET at == {i \in DOMAIN ns : ns[i].key = e.key}
            IN IF at = {} THEN Append(ns, e)
               ELSE LET i == CHOOSE j \in at : TRUE
                    IN IF e.score > ns[i].score THEN [ns EXCEPT ![i] = e] ELSE ns
        nodes == FoldLeft(AddEntity, <<>>, answer.entities)
        NodeOf(key) == CHOOSE i \in DOMAIN nodes : nodes[i].key = key
        known == {nodes[i].key : i \in DOMAIN nodes}
        joined == SelectSeq(answer.relations,
                            LAMBDA r : r.head \in known /\ r.tail \in known)
    IN [nodes |-> nodes,
        edges |-> [i \in DOMAIN joined |->
                      [source |-> NodeOf(joined[i].head), target |-> NodeOf(joined[i].tail)]]]

KGSettles(k) ==
    /\ page = "kg"
    /\ \/ \E a \in KGAnswers : Settles(k, Shown(k, <<a, BuildGraph(a)>>))
       \/ Settles(k, Failed)
    /\ UNCHANGED <<form, saved>>

\* Reset does not abort.
KGReset ==
    /\ User("kg")
    /\ SetForm([KGDefaults EXCEPT !.model = form.model])
    /\ view' = [NoView EXCEPT !.loading = view.loading]
    /\ UNCHANGED <<models, reqs>>

-----------------------------------------------------------------------------
(* The graph on the screen *)

Graph == IF view.result = 0 THEN [nodes |-> <<>>, edges |-> <<>>] ELSE view.data[2]

KGSelectNode(i) ==
    /\ User("kg") /\ i \in DOMAIN Graph.nodes
    /\ OnlyForm([form EXCEPT !.node = i])

KGSelectEdge(i) ==
    /\ User("kg") /\ i \in DOMAIN Graph.edges
    /\ OnlyForm([form EXCEPT !.edge = i])

\* The details below the drawing: the node's, the names at the edge's ends.
KGDetails ==
    [node |-> IF form.node = 0 THEN {} ELSE {Graph.nodes[form.node].key},
     ends |-> IF form.edge = 0 THEN {}
              ELSE LET e == Graph.edges[form.edge]
                   IN {Graph.nodes[e.source].key, Graph.nodes[e.target].key}]

KGPanels ==
    (IF view.result # 0 THEN {"stats", "graph", "nodes", "edges"} ELSE {"hint"})
        \cup (IF IsRebelModel(form.model) THEN {} ELSE {"labels"})
        \cup (IF models.loaded /\ models.list = <<>> THEN {"no models"} ELSE {})
        \cup (IF view.error THEN {"error"} ELSE {})

KGNext ==
    \/ \E ms \in ModelLists : KGModels(ms)
    \/ \E t \in Inputs : KGSetText(t)
    \/ \E m \in AllModels : KGSetModel(Listed(m))
    \/ \E v \in {0, 90} : KGSetSimilarity(v)
    \/ page = "kg" /\ \E f \in {"labels", "relations"} : \E l \in {"person", "founded", "place"} :
          KGAddLabel(f, l) \/ KGRemoveLabel(f, l)
    \/ \E o \in KGDefaults.options : KGToggle(o)
    \/ \E click \in BOOLEAN : HandleBuildGraph(click)
    \/ KGReset
    \/ page = "kg" /\ \E i \in 1 .. 2 : KGSelectNode(i) \/ KGSelectEdge(i)
    \/ \E k \in DOMAIN reqs : KGSettles(k)

=============================================================================
