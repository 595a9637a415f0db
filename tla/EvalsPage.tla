----------------------------- MODULE EvalsPage -----------------------------
(***************************************************************************)
(* EvalsPlaygroundPage ("evals"): edits the eval sets, imports and exports *)
(* them, and runs the selected one item by item against the retrieval      *)
(* agent. Everything can be edited while a run is open: the run works on   *)
(* the set as it was when it was started.                                  *)
(***************************************************************************)
EXTENDS TableProvider, EvalSets

CONSTANTS
    Names,      \* names of eval sets
    Trim,       \* the names a user may give to an import, and those trimmed
    MaxItems    \* bound on the items that are ever made

SampleName == "sample"

\* reading, file: the format of the file that is being read, and of the one in
\* the dialog.
EvalsInit == [sets |-> NoSets, chosen |-> "", loading |-> FALSE, error |-> FALSE,
              results |-> <<>>, reading |-> <<>>, file |-> <<>>, next |-> 1]

\* The effect on [selectedSetName, getEvalSetNames] selects the first set.
DefaultSet(s) ==
    IF s.chosen = "" /\ DOMAIN s.sets # {}
    THEN {[s EXCEPT !.chosen = n] : n \in EvalSetNames(s.sets)}
    ELSE {s}

Evals(s) == \E t \in DefaultSet(s) : Only(t)

HandleCreateSet(n) ==
    /\ User("evals") /\ CanCreate(st.sets, n)
    /\ Evals([st EXCEPT !.sets = CreateEvalSet(st.sets, @, n), !.chosen = n])

ChooseSet(n) ==
    User("evals") /\ n \in EvalSetNames(st.sets) /\ Evals([st EXCEPT !.chosen = n])

\* The dialog asks first; the effect then picks another set.
HandleDeleteSet ==
    /\ User("evals") /\ st.chosen # ""
    /\ Evals([st EXCEPT !.sets = DeleteEvalSet(st.sets, @, st.chosen),
                        !.chosen = "", !.results = <<>>])

HandleAddItem ==
    /\ User("evals") /\ st.chosen # "" /\ st.next <= MaxItems
    /\ Evals([st EXCEPT !.sets = AddItem(st.sets, @, st.chosen, [id |-> st.next, q |-> "q"]),
                        !.next = @ + 1])

SelectedSet == IF st.chosen \in DOMAIN st.sets THEN st.sets[st.chosen] ELSE <<>>

HandleRemoveItem(i) ==
    /\ User("evals") /\ i \in DOMAIN SelectedSet
    /\ Evals([st EXCEPT !.sets = RemoveItem(st.sets, @, st.chosen, SelectedSet[i].id)])

\* addItem still looks at the sets from before createEvalSet.
LoadSampleSet ==
    /\ User("evals") /\ st.next <= MaxItems
    /\ LET item == [id |-> st.next, q |-> "q"]
           created == CreateEvalSet(st.sets, st.sets, SampleName)
       IN IF SampleName \in DOMAIN st.sets THEN Evals([st EXCEPT !.chosen = SampleName])
          ELSE Evals([st EXCEPT !.sets = AddItem(st.sets, created, SampleName, item),
                                !.chosen = SampleName, !.next = @ + 1])

\* handleImportFile: the file is read, and its format found, later.
Formats == {"native", "promptfoo", "unknown"}
HandleImportFile(f) ==
    User("evals") /\ st.file = <<>> /\ Evals([st EXCEPT !.reading = <<f>>])

FileRead ==
    /\ screen = "evals" /\ st.reading # <<>>
    /\ st' = [st EXCEPT !.file = st.reading, !.reading = <<>>]
    /\ Quiet /\ UNCHANGED <<tab, lists, calls>>

\* importEvalSet looks the name up as it was typed, importPromptfooSet trimmed;
\* a file of another format is neither.
Importable(format, raw) ==
    CASE format = "native" -> CanImport(st.sets, raw)
      [] format = "promptfoo" -> CanCreate(st.sets, Trim[raw])
      [] format = "unknown" -> FALSE

\* handleImport of a file with one item: an error leaves the dialog open.
HandleImport(raw) ==
    /\ User("evals") /\ st.file # <<>> /\ st.next <= MaxItems
    /\ LET item == <<[id |-> st.next, q |-> "q"]>>
           imported ==
               IF st.file[1] = "native" THEN ImportEvalSet(st.sets, st.sets, raw, Trim[raw], item)
               ELSE ImportPromptfooSet(st.sets, st.sets, Trim[raw], item)
       IN IF Importable(st.file[1], raw)
          THEN Evals([st EXCEPT !.chosen = Trim[raw], !.file = <<>>, !.next = @ + 1,
                                !.sets = imported])
          ELSE Evals([st EXCEPT !.error = TRUE])

CloseImport == User("evals") /\ st.file # <<>> /\ Evals([st EXCEPT !.file = <<>>])

EvalsReset == User("evals") /\ Evals([st EXCEPT !.results = <<>>, !.error = FALSE])

\* runEvals; the button needs a set with items, a table and an index.
RunEvals ==
    /\ User("evals")
    /\ ~st.loading /\ SelectedSet # <<>> /\ tab.table # "" /\ tab.index # ""
    /\ Start("eval", [name |-> st.chosen, items |-> SelectedSet])
    /\ st' = [st EXCEPT !.loading = TRUE, !.error = FALSE, !.results = <<>>]
    /\ UNCHANGED tableVars

\* Mutant of EvalItem: an item that fails has no entry.
EvalItemSkips(k, outcome) ==
    /\ screen = "evals" /\ calls[k].kind = "eval" /\ ~calls[k].done
    /\ LET run == calls[k].of
           at == Len(calls[k].got) + 1
           got == IF outcome = "error" THEN calls[k].got
                  ELSE Append(calls[k].got, [id |-> run.items[at].id, is |-> outcome])
           last == at = Len(run.items)
       IN /\ calls' = [calls EXCEPT ![k].got = got, ![k].done = last]
          /\ st' = IF last THEN [st EXCEPT !.results = <<k>>, !.loading = FALSE] ELSE st
    /\ Quiet /\ UNCHANGED tableVars

\* One item: a verdict, or the error of the judge or of the call.
EvalItem(k, outcome) ==
    /\ screen = "evals" /\ calls[k].kind = "eval" /\ ~calls[k].done
    /\ LET run == calls[k].of
           got == Append(calls[k].got, [id |-> run.items[Len(calls[k].got) + 1].id, is |-> outcome])
           last == Len(got) = Len(run.items)
       IN /\ calls' = [calls EXCEPT ![k].got = got, ![k].done = last]
          /\ st' = IF last THEN [st EXCEPT !.results = <<k>>, !.loading = FALSE] ELSE st
    /\ Quiet /\ UNCHANGED tableVars

Outcomes == {"pass", "fail", "error"}
Summary(got) ==
    [o \in Outcomes |-> Cardinality({i \in DOMAIN got : got[i].is = o})]

EvalsNext ==
    \/ screen = "evals" /\ \E n \in Names : HandleCreateSet(n) \/ ChooseSet(n)
    \/ HandleDeleteSet \/ HandleAddItem \/ LoadSampleSet \/ EvalsReset \/ RunEvals
    \/ screen = "evals" /\ \E i \in DOMAIN SelectedSet : HandleRemoveItem(i)
    \/ \E f \in Formats : HandleImportFile(f)
    \/ \E raw \in DOMAIN Trim : HandleImport(raw)
    \/ FileRead \/ CloseImport
    \/ \E k \in DOMAIN calls, o \in Outcomes : EvalItem(k, o)

=============================================================================
