------------------------------- MODULE Search -------------------------------
(***************************************************************************)
(* The search widgets of ts/packages/components around their shared        *)
(* context: a QueryBox with an Autosuggest child, Results with Pagination, *)
(* a Facet, ActiveFilters, and the Listener that turns the registered      *)
(* widgets into one multiquery request.                                    *)
(*                                                                         *)
(* A user event and the React effects it triggers are one step (React      *)
(* flushes them before the next event); timers, the deferred listener      *)
(* effect and answers of the server are steps of their own.                *)
(***************************************************************************)
EXTENDS Integers, FiniteSets, Sequences, SequencesExt

CONSTANTS
    Texts,      \* non-empty contents of the search box
    Short,      \* the texts of fewer than minChars characters
    Terms,      \* values of the facet
    Filters,    \* values the host passes as Results' filterQuery
    NoFilter,   \* the one Results is mounted with
    Totals,     \* numbers of hits (suggestions) or pages an answer may have
    PropsSet,   \* the props the widgets may be mounted with
    SugLimit,   \* Autosuggest's limit
    MaxSteps,   \* bound on the user's events
    MaxFacetSteps, \* the same where a Facet is mounted
    MaxNet,     \* bound on the requests in flight
    MaxFacetNet \* the same where a Facet is mounted

Props == [mode : {"live", "submit"}, semantic : BOOLEAN, clear : BOOLEAN,
          facet : BOOLEAN]

ASSUME SearchAssumption ==
    /\ "" \notin Texts
    /\ Short \subseteq Texts
    /\ NoFilter \in Filters
    /\ PropsSet \subseteq Props
    /\ 0 \in Totals /\ Totals \subseteq Nat
    /\ SugLimit \in Nat
    /\ MaxSteps \in Nat /\ MaxFacetSteps \in 0 .. MaxSteps
    /\ MaxNet \in Nat \ {0} /\ MaxFacetNet \in 1 .. MaxNet

\* A value of PropsSet for TLC: the forms of the QueryBox, with a Facet and
\* without one.
MountedProps ==
    {[mode |-> "live", semantic |-> FALSE, clear |-> FALSE, facet |-> TRUE],
     [mode |-> "live", semantic |-> FALSE, clear |-> FALSE, facet |-> FALSE],
     [mode |-> "submit", semantic |-> FALSE, clear |-> TRUE, facet |-> FALSE],
     [mode |-> "submit", semantic |-> TRUE, clear |-> FALSE, facet |-> FALSE]}

VARIABLES
    props,      \* mode, semantic, clearOnSubmit, whether a Facet is mounted
    box,        \* QueryBox: value, isSuggestOpen
    timer,      \* Autosuggest: text of the pending debounced query, "" if none
    index,      \* Autosuggest: selectedIndex + 1
    facet,      \* Facet: its local value
    widgets,    \* SharedState.widgets
    result,     \* result of each widget: <<>> or <<answer>>
    lis,        \* Listener: armed debounce timer with its closure, or <<>>
    effect,     \* SharedState.listenerEffect with its closure, or <<>>
    sent,       \* prevGroupKeysRef
    net,        \* multiquery requests without an answer, oldest first
    overtaken,  \* history: an answer arrived before that of an older request
    steps       \* user events so far

vars == <<props, box, timer, index, facet, widgets, result, lis, effect,
          sent, net, overtaken, steps>>

Ids == {"res", "fac", "sug"}
Values == Texts \cup {""}

QueryBoxState == [value : Values, open : BOOLEAN]

\* The widgets of the shared state, cut down to what requests depend on.
Widgets == [box : Values,
            res : [q : Values, page : Nat, filt : Filters],
            fac : [on : BOOLEAN, value : SUBSET Terms],
            sug : [q : Values, loading : BOOLEAN]]

Requests == [id : Ids, q : Values, page : Nat, filt : Filters,
             fac : SUBSET Terms]
Answers == [req : Requests, ok : BOOLEAN, n : Totals]

-----------------------------------------------------------------------------
(* Views *)

Long(v) == v \notin Short \cup {""}

\* The searchValue prop QueryBox gives its Autosuggest child.
SearchValue(b) == IF props.mode = "submit" /\ ~b.open THEN "" ELSE b.value

\* Suggestions on offer: the hits of the widget's result, cut to limit.
Suggestions ==
    IF result["sug"] # <<>> /\ result["sug"][1].ok
    THEN IF result["sug"][1].n < SugLimit THEN result["sug"][1].n ELSE SugLimit
    ELSE 0

\* Inside a QueryBox the dropdown follows the box's isSuggestOpen alone.
DropdownShown == box.open /\ Suggestions > 0

\* The total Results shows, in pages.
Pages == IF result["res"] # <<>> /\ result["res"][1].ok
         THEN result["res"][1].n ELSE 0

\* The page numbers Pagination offers.
Buttons(page, max) ==
    CASE page < 5 \/ page > max ->
             (1 .. IF max < 5 THEN max ELSE 5) \cup (IF max > 6 THEN {max} ELSE {})
      [] page >= 5 /\ page <= max - 4 ->
             {1, max} \cup (page - 2 .. page + 2)
      [] page = 5 /\ max = 5 -> 1 .. 5
      [] OTHER -> {1} \cup (max - 4 .. max)

\* ActiveFilters lists the widgets that have a value.
ActiveFilters ==
    (IF widgets.box # "" THEN {"box"} ELSE {})
        \cup (IF widgets.fac.on /\ widgets.fac.value # {} THEN {"fac"} ELSE {})

-----------------------------------------------------------------------------
(* What a render derives from the widgets *)

\* Results' hash of every widget that needs a query; Autosuggest's is one.
QueryHash(w) ==
    <<IF props.semantic THEN "" ELSE w.res.q, w.fac, w.sug.q>>

\* Results' effects: register the query of the linked box, and go back to
\* the first page when the hash of the queries changed.
Render(w) ==
    LET r == [w EXCEPT !.res.q = w.box]
    IN IF QueryHash(r) # QueryHash(widgets) THEN [r EXCEPT !.res.page = 1] ELSE r

\* Mutant of NonAutosuggestGroupKey: the page is left out of the key.
NonAutosuggestGroupKeyNoPage(w) == <<w.res.q, w.fac>>

\* The serialized inputs of the two groups of requests.
AutosuggestGroupKey(w) == <<w.sug.q>>
NonAutosuggestGroupKey(w) == <<w.res.q, w.res.page, w.fac>>

\* Every widget that needs a query has one: a semantic Results with an empty
\* box has neither a query nor a semantic query.
QueriesReady(w) == props.semantic => w.res.q # ""

\* Mutant of Listen: only the inputs of Results are dependencies of the effect.
ListenResultsOnly(w) ==
    IF NonAutosuggestGroupKey(w) = NonAutosuggestGroupKey(widgets) THEN lis
    ELSE IF QueriesReady(w) THEN <<w>> ELSE <<>>

\* Listener's effect: a change of a key (or of the sets of widgets, which the
\* keys determine here) clears the timer and arms it when everything is ready.
Listen(w) ==
    IF /\ AutosuggestGroupKey(w) = AutosuggestGroupKey(widgets)
       /\ NonAutosuggestGroupKey(w) = NonAutosuggestGroupKey(widgets)
    THEN lis
    ELSE IF QueriesReady(w) THEN <<w>> ELSE <<>>

\* Autosuggest's effect on a new searchValue: a long one arms the debounce
\* timer, a short one clears the timer, the query and the suggestions.
ClearsSuggestions(b) ==
    SearchValue(b) # SearchValue(box) /\ ~Long(SearchValue(b))

Suggest(b, r) ==
    /\ timer' = IF SearchValue(b) = SearchValue(box) THEN timer
                ELSE IF Long(SearchValue(b)) THEN SearchValue(b) ELSE ""
    /\ result' = IF ClearsSuggestions(b) THEN [r EXCEPT !["sug"] = <<>>] ELSE r

\* The flush after an event that left the box as b and the widgets as w.
FlushWith(b, w, r) ==
    LET w1 == IF ClearsSuggestions(b)
              THEN [w EXCEPT !.sug = [q |-> "", loading |-> FALSE]] ELSE w
        w2 == Render(w1)
    IN /\ box' = b
       /\ widgets' = w2
       /\ lis' = Listen(w2)
       /\ Suggest(b, r)

Flush(b, w) == FlushWith(b, w, result)

\* setSelectedIndex(-1) when the searchValue changed.
ResetIndex(b) ==
    index' = IF SearchValue(b) # SearchValue(box) THEN 0 ELSE index

User ==
    /\ steps < IF props.facet THEN MaxFacetSteps ELSE MaxSteps
    /\ steps' = steps + 1
    /\ UNCHANGED <<props, effect, sent, net, overtaken>>

-----------------------------------------------------------------------------
(* QueryBox *)

Init ==
    /\ props \in PropsSet
    /\ box = [value |-> "", open |-> FALSE]
    /\ timer = ""
    /\ index = 0
    /\ facet = {}
    /\ widgets = [box |-> "",
                  res |-> [q |-> "", page |-> 1, filt |-> NoFilter],
                  fac |-> [on |-> props.facet, value |-> {}],
                  sug |-> [q |-> "", loading |-> FALSE]]
    /\ result = [i \in Ids |-> <<>>]
    /\ lis = IF QueriesReady(widgets) THEN <<widgets>> ELSE <<>>
    /\ effect = <<>>
    /\ sent = [autosuggest |-> <<>>, nonAutosuggest |-> <<>>]
    /\ net = <<>>
    /\ overtaken = FALSE
    /\ steps = 0

\* handleChange: only a live box writes its widget; text opens the dropdown.
HandleChange(v) ==
    LET b == [value |-> v, open |-> v # "" \/ box.open]
    IN /\ v # box.value
       /\ Flush(b, IF props.mode = "live" THEN [widgets EXCEPT !.box = v] ELSE widgets)
       /\ ResetIndex(b)
       /\ User
       /\ UNCHANGED facet

\* submitValue, from the button, the form or Enter (which may submit "").
SubmitValue ==
    LET b == [value |-> IF props.clear THEN "" ELSE box.value, open |-> FALSE]
    IN /\ props.mode = "submit"
       /\ Flush(b, [widgets EXCEPT !.box = box.value])
       /\ ResetIndex(b)
       /\ User
       /\ UNCHANGED facet

\* handleClear, from the clear button (shown when there is a value) or Escape.
HandleClear ==
    LET b == [value |-> "", open |-> FALSE]
    IN /\ Flush(b, [widgets EXCEPT !.box = ""])
       /\ ResetIndex(b)
       /\ User
       /\ UNCHANGED facet

\* Escape: a live box closes the dropdown first, and clears only then.
HandleEscape ==
    \/ /\ props.mode = "live" /\ box.open
       /\ Flush([box EXCEPT !.open = FALSE], widgets)
       /\ index' = 0
       /\ User
       /\ UNCHANGED facet
    \/ /\ IF props.mode = "live" THEN ~box.open /\ box.value # "" ELSE TRUE
       /\ HandleClear

\* handleSuggestionSelect, from a click or from Enter on the selected item:
\* the box takes the text of the hit and the widget its new value, in both
\* modes. Enter leaves selectedIndex alone (justSelectedRef).
HandleSuggestionSelect(v) ==
    LET b == [value |-> v, open |-> FALSE]
    IN /\ DropdownShown
       /\ \/ index' = 0
          \/ index \in 1 .. Suggestions /\ props.mode = "live" /\ index' = index
       /\ Flush(b, [widgets EXCEPT !.box = v])
       /\ User
       /\ UNCHANGED facet

\* The host passes another initialValue: the box and its widget take it.
InitialValueChanged(v) ==
    LET b == [box EXCEPT !.value = v]
    IN /\ v # box.value
       /\ Flush(b, [widgets EXCEPT !.box = v])
       /\ ResetIndex(b)
       /\ User
       /\ UNCHANGED facet

-----------------------------------------------------------------------------
(* Autosuggest *)

\* ArrowDown and ArrowUp, and the mouse entering an item.
MoveSelection ==
    /\ DropdownShown
    /\ index' \in 1 .. Suggestions \cup {IF index > 1 THEN index - 1 ELSE 0}
    /\ index' # index
    /\ User
    /\ UNCHANGED <<box, timer, facet, widgets, result, lis>>

\* Mutant of DispatchQuery: the debounce timer is an interval.
DispatchQueryAgain ==
    /\ timer # ""
    /\ LET w == Render([widgets EXCEPT !.sug = [q |-> timer, loading |-> TRUE]])
       IN widgets' = w /\ lis' = Listen(w)
    /\ UNCHANGED <<props, box, timer, index, facet, result, effect, sent, net,
                   overtaken, steps>>

\* dispatchQuery after the debounce: register the query, mark it loading and
\* keep the previous result.
DispatchQuery ==
    /\ timer # ""
    /\ LET w == Render([widgets EXCEPT !.sug = [q |-> timer, loading |-> TRUE]])
       IN widgets' = w /\ lis' = Listen(w)
    /\ timer' = ""
    /\ UNCHANGED <<props, box, index, facet, result, effect, sent, net,
                   overtaken, steps>>

-----------------------------------------------------------------------------
(* Results, Facet, ActiveFilters *)

SetPage(p) ==
    /\ ~props.semantic
    /\ p \in Buttons(widgets.res.page, Pages) \ {widgets.res.page}
    /\ Flush(box, [widgets EXCEPT !.res.page = p])
    /\ User
    /\ UNCHANGED <<index, facet>>

\* The host passes another filterQuery: registered, but in no group key.
SetFilterQuery(f) ==
    /\ f # widgets.res.filt
    /\ Flush(box, [widgets EXCEPT !.res.filt = f])
    /\ User
    /\ UNCHANGED <<index, facet>>

\* Facet's handleChange sets the local value; its effects follow.
FacetHandleChange(t) ==
    /\ widgets.fac.on
    /\ facet' = IF t \in facet THEN facet \ {t} ELSE facet \cup {t}
    /\ User
    /\ UNCHANGED <<box, timer, index, widgets, result, lis>>

\* Facet's effects when its local value is not the widget's: the first one
\* dispatches the local value, the second sets the local value to the widget's.
FacetEffects ==
    /\ widgets.fac.on
    /\ facet # widgets.fac.value
    /\ facet' = widgets.fac.value
    /\ Flush(box, [widgets EXCEPT !.fac.value = facet])
    /\ UNCHANGED <<props, index, effect, sent, net, overtaken, steps>>

\* The host unmounts the facet (deleteWidget) or mounts it again.
ToggleFacet ==
    /\ props.facet
    /\ facet' = {}
    /\ FlushWith(box, [widgets EXCEPT !.fac = [on |-> ~@.on, value |-> {}]],
                 [result EXCEPT !["fac"] = <<>>])
    /\ User
    /\ UNCHANGED index

\* removeFilter: the widget's value is emptied. A live box and the Facet then
\* take the value of their widget; a box in submit mode keeps its text.
RemoveFilter(i) ==
    /\ i \in ActiveFilters
    /\ \/ /\ i = "box"
          /\ LET b == [box EXCEPT !.value = IF props.mode = "live" THEN "" ELSE @]
             IN Flush(b, [widgets EXCEPT !.box = ""]) /\ ResetIndex(b)
          /\ UNCHANGED facet
       \/ /\ i = "fac" /\ facet = widgets.fac.value
          /\ Flush(box, [widgets EXCEPT !.fac.value = {}])
          /\ facet' = {}
          /\ UNCHANGED index
    /\ User

-----------------------------------------------------------------------------
(* Listener *)

\* The debounce timer fires: the closure becomes the listener effect.
TimerFires ==
    /\ lis # <<>>
    /\ effect' = lis
    /\ lis' = <<>>
    /\ UNCHANGED <<props, box, timer, index, facet, widgets, result, sent, net,
                   overtaken, steps>>

\* The query object built for widget i from the widgets w of the closure:
\* Autosuggest asks for its own query only, a Facet not for its own.
Request(i, w) ==
    [id |-> i,
     q |-> IF i = "sug" THEN w.sug.q ELSE w.res.q,
     page |-> IF i = "res" THEN w.res.page ELSE 1,
     filt |-> w.res.filt,
     fac |-> IF i = "res" THEN w.fac.value ELSE {}]

\* The listener effect: one multiquery for the widgets of the groups whose
\* key changed since the last time, and the effect is destroyed.
RunListenerEffect ==
    /\ effect # <<>>
    /\ Len(net) < IF props.facet THEN MaxFacetNet ELSE MaxNet
    /\ LET w == effect[1]
           autosuggestChanged == AutosuggestGroupKey(w) # sent.autosuggest
           nonAutosuggestChanged == NonAutosuggestGroupKey(w) # sent.nonAutosuggest
           ids == {i \in Ids : \/ i = "res" /\ nonAutosuggestChanged
                               \/ i = "fac" /\ nonAutosuggestChanged /\ w.fac.on
                               \/ i = "sug" /\ autosuggestChanged /\ w.sug.q # ""}
       IN /\ sent' = [autosuggest |-> AutosuggestGroupKey(w),
                      nonAutosuggest |-> NonAutosuggestGroupKey(w)]
          /\ net' = IF ids = {} THEN net
                    ELSE Append(net, [i \in ids |-> Request(i, w)])
    /\ effect' = <<>>
    /\ UNCHANGED <<props, box, timer, index, facet, widgets, result, lis,
                   overtaken, steps>>

\* setWidgetResult of the reducer: nothing for a widget that was deleted.
SetWidgetResult(i, answer) ==
    IF i = "fac" /\ ~widgets.fac.on THEN result[i] ELSE <<answer>>

\* The answer to one multiquery, in any order: every response is a result or
\* an error of its own (a lost connection is an error of all).
Respond(k, ok, n) ==
    LET reqs == net[k]
    IN /\ result' = [i \in Ids |->
                        IF i \in DOMAIN reqs
                        THEN SetWidgetResult(i, [req |-> reqs[i], ok |-> i \in ok,
                                     n |-> IF i \in ok THEN n ELSE 0])
                        ELSE result[i]]
       /\ widgets' = IF "sug" \in DOMAIN reqs
                     THEN [widgets EXCEPT !.sug.loading = FALSE] ELSE widgets
       /\ overtaken' = (overtaken \/ \E j \in 1 .. k - 1 :
                                        DOMAIN net[j] \cap DOMAIN reqs # {})
       /\ net' = RemoveAt(net, k)
       /\ UNCHANGED <<props, box, timer, index, facet, lis, effect, sent, steps>>

-----------------------------------------------------------------------------
Answer ==
    \E k \in 1 .. Len(net) : \E ok \in SUBSET DOMAIN net[k] :
        \E n \in IF ok = {} THEN {0} ELSE Totals : Respond(k, ok, n)

Next ==
    \/ \E v \in Values : HandleChange(v) \/ InitialValueChanged(v)
    \/ \E v \in Texts : HandleSuggestionSelect(v)
    \/ SubmitValue
    \/ box.value # "" /\ HandleClear
    \/ HandleEscape
    \/ MoveSelection
    \/ DispatchQuery
    \/ \E p \in Buttons(widgets.res.page, Pages) : SetPage(p)
    \/ \E f \in Filters : SetFilterQuery(f)
    \/ \E t \in Terms : FacetHandleChange(t)
    \/ FacetEffects
    \/ ToggleFacet
    \/ \E i \in {"box", "fac"} : RemoveFilter(i)
    \/ TimerFires
    \/ RunListenerEffect
    \/ Answer

\* The browser runs timers and effects, and a fetch resolves or rejects: one of
\* what is due goes on.
Browser == DispatchQuery \/ FacetEffects \/ TimerFires \/ RunListenerEffect \/ Answer

Spec == Init /\ [][Next]_vars /\ WF_vars(Browser)

-----------------------------------------------------------------------------
(* Properties *)

\* Types of the widgets, of the effects pending and of the answers.
TypeOK ==
    /\ props \in Props
    /\ box \in QueryBoxState
    /\ timer \in Values
    /\ index \in Nat
    /\ facet \subseteq Terms
    /\ widgets \in Widgets
    /\ \A i \in Ids : result[i] = <<>> \/ result[i][1] \in Answers
    /\ lis = <<>> \/ lis[1] \in Widgets
    /\ effect = <<>> \/ effect[1] \in Widgets
    /\ overtaken \in BOOLEAN
    /\ steps \in 0 .. MaxSteps

\* No debounce timer, listener effect, facet effect or request is pending.
Idle == /\ lis = <<>> /\ effect = <<>> /\ net = <<>> /\ timer = ""
        /\ widgets.fac.on => facet = widgets.fac.value

\* A change of the inputs is never forgotten: while the inputs of a group
\* differ from those last asked for, a timer or an effect is still pending,
\* however the debounce, the deferral and the events interleave.
NothingForgotten ==
    (/\ QueriesReady(widgets)
     /\ \/ AutosuggestGroupKey(widgets) # sent.autosuggest
        \/ NonAutosuggestGroupKey(widgets) # sent.nonAutosuggest)
        => lis # <<>> \/ effect # <<>>

\* Once everything is quiet, Results shows the answer to the query, page and
\* facets on screen, unless an answer overtook an older one (the code keeps no
\* sequence number), whatever order timers, effects and events came in.
ResultsFresh ==
    (Idle /\ QueriesReady(widgets) /\ ~overtaken) =>
        /\ result["res"] # <<>>
        /\ LET r == result["res"][1].req
           IN <<r.q, r.page, r.fac>>
                = <<widgets.res.q, widgets.res.page, widgets.fac.value>>

\* A Facet that was unmounted is not brought back by a late answer, and one
\* mounted again never shows an answer from before: setWidgetResult skips
\* deleted widgets.
NoResurrection == ~widgets.fac.on => result["fac"] = <<>>

\* The page Results is on is among the buttons Pagination offers, whatever
\* the totals of the answers that came in between.
CurrentPageShown ==
    widgets.res.page \in 1 .. Pages
        => widgets.res.page \in Buttons(widgets.res.page, Pages)

\* What is on screen belongs to what was asked: the four parts above, after
\* every interleaving of typing, facets, pages, timers, effects and answers.
ShownIsCurrent == TypeOK /\ ResultsFresh /\ NoResurrection /\ CurrentPageShown

\* When the user stops, every debounce, effect and request comes to an end
\* (without a Facet: its two effects undo each other for ever).
Settles == <>[](Idle \/ props.facet)
=============================================================================
