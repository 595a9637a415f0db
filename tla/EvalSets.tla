------------------------------ MODULE EvalSets ------------------------------
(***************************************************************************)
(* The eval sets of hooks/use-eval-sets.ts: named lists of questions with  *)
(* reference answers, loaded from localStorage when a page mounts and      *)
(* written back by an effect whenever they change.                         *)
(*                                                                         *)
(* The callbacks check the sets of the render they were made in (seen) and *)
(* update the current ones (sets): in one event handler both differ as     *)
(* soon as a first callback has changed something.                         *)
(***************************************************************************)
EXTENDS Naturals, FiniteSets, Sequences, SequencesExt

\* A set is a sequence of items [id, q]; sets are functions from names.
NoSets == [n \in {} |-> <<>>]

With(sets, name, items) ==
    [n \in DOMAIN sets \cup {name} |-> IF n = name THEN items ELSE sets[n]]

\* createEvalSet: refused for an empty or a known name.
CanCreate(seen, name) == name # "" /\ name \notin DOMAIN seen
CreateEvalSet(seen, sets, name) ==
    IF CanCreate(seen, name) THEN With(sets, name, <<>>) ELSE sets

DeleteEvalSet(seen, sets, name) ==
    IF name \notin DOMAIN seen THEN sets
    ELSE [n \in DOMAIN sets \ {name} |-> sets[n]]

\* addItem: refused when the set is not one of the render's.
AddItem(seen, sets, name, item) ==
    IF name \notin DOMAIN seen THEN sets
    ELSE With(sets, name, Append(sets[name], item))

\* Array.filter: the items at the positions keep, in their order.
Filter(items, keep) ==
    LET f[i \in 0 .. Len(items)] ==
            IF i = 0 THEN <<>>
            ELSE IF i \in keep THEN Append(f[i - 1], items[i]) ELSE f[i - 1]
    IN f[Len(items)]

RemoveItem(seen, sets, name, id) ==
    IF name \notin DOMAIN seen \/ ~\E i \in DOMAIN seen[name] : seen[name][i].id = id
    THEN sets
    ELSE With(sets, name,
              Filter(sets[name], {i \in DOMAIN sets[name] : sets[name][i].id # id}))

\* getEvalSetNames sorts; the first name is the least.
EvalSetNames(sets) == DOMAIN sets

\* exportEvalSet, and what importEvalSet makes of it: the name is looked up
\* before it is trimmed (raw is the untrimmed form of a name) and items
\* without a question or an answer are dropped.
Valid(items) == {i \in DOMAIN items : items[i].q # ""}
CanImport(seen, raw) == raw # "" /\ raw \notin DOMAIN seen
ImportEvalSet(seen, sets, raw, trimmed, items) ==
    IF CanImport(seen, raw) THEN With(sets, trimmed, Filter(items, Valid(items))) ELSE sets

\* importPromptfooSet trims first, makes fresh ids, and refuses a list without
\* a valid item.
ImportPromptfooSet(seen, sets, name, items) ==
    IF CanCreate(seen, name) /\ Valid(items) # {}
    THEN With(sets, name, Filter(items, Valid(items))) ELSE sets

=============================================================================
