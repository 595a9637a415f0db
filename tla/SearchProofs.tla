---------------------------- MODULE SearchProofs ----------------------------
(***************************************************************************)
(* Proofs about the search widgets: a change of the inputs is never        *)
(* forgotten between the debounce timer, the deferred listener effect and  *)
(* the keys last asked for, and what is shown is the answer to what is     *)
(* asked.                                                                  *)
(***************************************************************************)
EXTENDS Search, TLAPS

-----------------------------------------------------------------------------
(* The inductive invariant. *)

ResultOf == {<<>>} \cup {<<a>> : a \in Answers}
Multiquery == UNION {[S -> Requests] : S \in SUBSET Ids}

SameKeys(w) ==
    /\ AutosuggestGroupKey(w) = AutosuggestGroupKey(widgets)
    /\ NonAutosuggestGroupKey(w) = NonAutosuggestGroupKey(widgets)

\* The closure that is due last, or what was sent, has the keys on screen.
Pending ==
    QueriesReady(widgets) =>
        /\ lis # <<>> => SameKeys(lis[1])
        /\ lis = <<>> /\ effect # <<>> => SameKeys(effect[1])
        /\ lis = <<>> /\ effect = <<>> =>
              /\ sent.autosuggest = AutosuggestGroupKey(widgets)
              /\ sent.nonAutosuggest = NonAutosuggestGroupKey(widgets)

\* Query, page and facets of a request are those of key.
Asks(r, key) == r.q = key[1] /\ r.page = key[2] /\ r.fac = key[3].value

\* The last request of Results that has no answer, or the answer it shows, is
\* for the key that was sent last, unless answers overtook each other.
Newest(ns, res, key) ==
    /\ \A k \in 1 .. Len(ns) :
          "res" \in DOMAIN ns[k] /\ (\A j \in k + 1 .. Len(ns) : "res" \notin DOMAIN ns[j])
              => Asks(ns[k]["res"], key)
    /\ (\A k \in 1 .. Len(ns) : "res" \notin DOMAIN ns[k])
              => res # <<>> /\ Asks(res[1].req, key)

Answered ==
    ~overtaken /\ sent.nonAutosuggest # <<>> =>
        Newest(net, result["res"], sent.nonAutosuggest)

IInv ==
    /\ TypeOK /\ result \in [Ids -> ResultOf] /\ net \in Seq(Multiquery)
    /\ Pending /\ Answered /\ NoResurrection

-----------------------------------------------------------------------------
(* What a render and the listener's effect leave. *)

LEMMA RenderFields ==
    ASSUME widgets \in Widgets, NEW w \in Widgets
    PROVE  Render(w) \in Widgets /\ Render(w).fac = w.fac
<1> DEFINE r == [w EXCEPT !.res.q = w.box]
           p == [r EXCEPT !.res.page = 1]
<1>1. r \in Widgets /\ r.fac = w.fac
  BY DEF Widgets
<1>2. p \in Widgets /\ p.fac = r.fac
  <2> HIDE DEF r
  <2> QED BY <1>1 DEF Widgets
<1>3. Render(w) \in {r, p}
  BY DEF Render
<1> HIDE DEF r, p
<1> QED BY <1>1, <1>2, <1>3

LEMMA ListenPending ==
    ASSUME Pending, NEW w \in Widgets, widgets' = w, lis' = Listen(w),
           UNCHANGED <<props, effect, sent>>, lis = <<>> \/ lis[1] \in Widgets
    PROVE  Pending' /\ (lis' = <<>> \/ lis'[1] \in Widgets)
<1>1. CASE SameKeys(w)
  <2>1. lis' = lis
    BY <1>1 DEF Listen, SameKeys
  <2>2. QueriesReady(w) <=> QueriesReady(widgets)
    BY <1>1 DEF SameKeys, QueriesReady, NonAutosuggestGroupKey
  <2>3. QueriesReady(widgets)' <=> QueriesReady(widgets)
    BY <2>2 DEF QueriesReady
  <2>4. \A c : SameKeys(c)' <=> SameKeys(c)
    BY <1>1 DEF SameKeys
  <2>5. /\ AutosuggestGroupKey(widgets)' = AutosuggestGroupKey(widgets)
        /\ NonAutosuggestGroupKey(widgets)' = NonAutosuggestGroupKey(widgets)
    BY <1>1 DEF SameKeys
  <2> QED BY <2>1, <2>3, <2>4, <2>5 DEF Pending
<1>2. CASE ~SameKeys(w)
  <2>1. lis' = IF QueriesReady(w) THEN <<w>> ELSE <<>>
    BY <1>2 DEF Listen, SameKeys
  <2>2. QueriesReady(widgets)' <=> QueriesReady(w)
    BY DEF QueriesReady
  <2>3. \A c : c = w => SameKeys(c)'
    BY DEF SameKeys
  <2>4. <<w>> # <<>> /\ <<w>>[1] = w
    OBVIOUS
  <2> QED BY <2>1, <2>2, <2>3, <2>4 DEF Pending
<1> QED BY <1>1, <1>2

\* A flush ends in the invariant when the event's own writes are typed.
LEMMA FlushInv ==
    ASSUME IInv, NEW b \in QueryBoxState, NEW w \in Widgets, NEW r \in [Ids -> ResultOf],
           FlushWith(b, w, r), UNCHANGED <<props, effect, sent, net, overtaken>>,
           index' \in Nat, facet' \subseteq Terms, steps' \in 0 .. MaxSteps,
           r["res"] = result["res"], ~w.fac.on => r["fac"] = <<>>
    PROVE  IInv'
<1>1. TypeOK /\ Pending /\ Answered /\ NoResurrection /\ net \in Seq(Multiquery)
  BY DEF IInv
<1> DEFINE w1 == IF ClearsSuggestions(b)
                 THEN [w EXCEPT !.sug = [q |-> "", loading |-> FALSE]] ELSE w
           w2 == Render(w1)
<1>2. w1 \in Widgets /\ w1.fac = w.fac
  BY DEF Widgets, Values
<1> HIDE DEF w1
<1>3. w2 \in Widgets /\ w2.fac = w.fac
  BY <1>1, <1>2, RenderFields DEF TypeOK
<1>4. box' = b /\ widgets' = w2 /\ lis' = Listen(w2) /\ Suggest(b, r)
  BY DEF FlushWith, w1
<1> HIDE DEF w2
<1>5. Pending' /\ (lis' = <<>> \/ lis'[1] \in Widgets)
  BY <1>1, <1>3, <1>4, ListenPending DEF TypeOK
<1>6. /\ result' \in [Ids -> ResultOf]
      /\ result'["res"] = r["res"] /\ result'["fac"] = r["fac"]
  <2>1. <<>> \in ResultOf
    BY DEF ResultOf
  <2> HIDE DEF ResultOf
  <2> QED BY <1>4, <2>1 DEF Suggest, Ids
<1>7. timer' \in Values
  <2>1. SearchValue(b) \in Values /\ "" \in Values
    BY DEF SearchValue, QueryBoxState, Values
  <2> QED BY <1>1, <1>4, <2>1 DEF Suggest, TypeOK
<1>8. \A i \in Ids : result'[i] = <<>> \/ result'[i][1] \in Answers
  BY <1>6 DEF ResultOf
<1>9. TypeOK'
  BY <1>1, <1>3, <1>4, <1>5, <1>7, <1>8 DEF TypeOK
<1>10. NoResurrection'
  BY <1>3, <1>4, <1>6 DEF NoResurrection
<1>11. Answered'
  BY <1>1, <1>6 DEF Answered
<1> QED BY <1>1, <1>5, <1>6, <1>9, <1>10, <1>11 DEF IInv

LEMMA UserStep ==
    ASSUME IInv, User
    PROVE  steps' \in 0 .. MaxSteps /\ UNCHANGED <<props, effect, sent, net, overtaken>>
<1>1. steps \in 0 .. MaxSteps
  BY DEF IInv, TypeOK
<1>2. MaxSteps \in Nat /\ MaxFacetSteps \in 0 .. MaxSteps
  BY SearchAssumption
<1>3. steps < MaxFacetSteps \/ steps < MaxSteps
  BY DEF User
<1> QED BY <1>1, <1>2, <1>3 DEF User
-----------------------------------------------------------------------------
(* The user's events. *)

LEMMA IInvFacts ==
    ASSUME IInv
    PROVE  /\ TypeOK /\ result \in [Ids -> ResultOf] /\ net \in Seq(Multiquery)
           /\ Pending /\ Answered /\ NoResurrection
           /\ widgets \in Widgets /\ box \in QueryBoxState /\ index \in Nat /\ facet \subseteq Terms
           /\ steps \in 0 .. MaxSteps
BY DEF IInv, TypeOK

\* An event that leaves the Facet alone.
LEMMA EventInv ==
    ASSUME IInv, NEW b \in QueryBoxState, NEW w \in Widgets, Flush(b, w), w.fac = widgets.fac,
           UNCHANGED <<props, effect, sent, net, overtaken>>, steps' \in 0 .. MaxSteps,
           index' \in Nat, facet' \subseteq Terms
    PROVE  IInv'
BY IInvFacts, FlushInv DEF Flush, NoResurrection

\* The widget of the box is written.
LEMMA BoxWritten ==
    ASSUME widgets \in Widgets, NEW v \in Values
    PROVE  [widgets EXCEPT !.box = v] \in Widgets /\ [widgets EXCEPT !.box = v].fac = widgets.fac
BY DEF Widgets

LEMMA ResetIndexType ==
    ASSUME IInv, NEW b, ResetIndex(b)
    PROVE  index' \in Nat
BY IInvFacts DEF ResetIndex

LEMMA ZeroNat == 0 \in Nat
OBVIOUS

LEMMA BoxInv ==
    ASSUME IInv,
           \/ \E v \in Values : HandleChange(v) \/ InitialValueChanged(v)
           \/ \E v \in Texts : HandleSuggestionSelect(v)
           \/ SubmitValue
           \/ HandleClear
           \/ HandleEscape
    PROVE  IInv'
<1>1. /\ widgets \in Widgets /\ box \in QueryBoxState /\ "" \in Values /\ Texts \subseteq Values
      /\ facet \subseteq Terms /\ index \in Nat
  BY IInvFacts DEF Values
<1>2. box.value \in Values /\ box.open \in BOOLEAN
  BY <1>1 DEF QueryBoxState
<1>3. ASSUME NEW v \in Values, HandleChange(v) PROVE IInv'
  <2> DEFINE b == [value |-> v, open |-> v # "" \/ box.open]
             w == IF props.mode = "live" THEN [widgets EXCEPT !.box = v] ELSE widgets
  <2>1. b \in QueryBoxState
    BY <1>2 DEF QueryBoxState
  <2>2. w \in Widgets /\ w.fac = widgets.fac
    BY <1>1, BoxWritten
  <2>3. Flush(b, w) /\ ResetIndex(b) /\ User /\ facet' = facet
    BY <1>3 DEF HandleChange
  <2> HIDE DEF b, w
  <2> QED BY <1>1, <2>1, <2>2, <2>3, ResetIndexType, UserStep, EventInv
<1>4. ASSUME NEW v \in Values, InitialValueChanged(v) PROVE IInv'
  <2> DEFINE b == [box EXCEPT !.value = v]
             w == [widgets EXCEPT !.box = v]
  <2>1. b \in QueryBoxState
    BY <1>1 DEF QueryBoxState
  <2>2. w \in Widgets /\ w.fac = widgets.fac
    BY <1>1, BoxWritten
  <2>3. Flush(b, w) /\ ResetIndex(b) /\ User /\ facet' = facet
    BY <1>4 DEF InitialValueChanged
  <2> HIDE DEF b, w
  <2> QED BY <1>1, <2>1, <2>2, <2>3, ResetIndexType, UserStep, EventInv
<1>5. ASSUME NEW v \in Texts, HandleSuggestionSelect(v) PROVE IInv'
  <2> DEFINE b == [value |-> v, open |-> FALSE]
             w == [widgets EXCEPT !.box = v]
  <2>1. b \in QueryBoxState
    BY <1>1 DEF QueryBoxState
  <2>2. w \in Widgets /\ w.fac = widgets.fac
    BY <1>1, BoxWritten
  <2>3. Flush(b, w) /\ User /\ facet' = facet /\ (index' = 0 \/ index' = index)
    BY <1>5, Zenon DEF HandleSuggestionSelect
  <2> HIDE DEF b, w
  <2>4. index' \in Nat
    BY <1>1, <2>3, ZeroNat, Zenon
  <2> QED BY <1>1, <2>1, <2>2, <2>3, <2>4, UserStep, EventInv
<1>6. CASE SubmitValue
  <2> DEFINE b == [value |-> IF props.clear THEN "" ELSE box.value, open |-> FALSE]
             w == [widgets EXCEPT !.box = box.value]
  <2>1. b \in QueryBoxState
    BY <1>1, <1>2 DEF QueryBoxState
  <2>2. w \in Widgets /\ w.fac = widgets.fac
    BY <1>1, <1>2, BoxWritten
  <2>3. Flush(b, w) /\ ResetIndex(b) /\ User /\ facet' = facet
    BY <1>6 DEF SubmitValue
  <2> HIDE DEF b, w
  <2> QED BY <1>1, <2>1, <2>2, <2>3, ResetIndexType, UserStep, EventInv
<1>7. ASSUME HandleClear PROVE IInv'
  <2> DEFINE b == [value |-> "", open |-> FALSE]
             w == [widgets EXCEPT !.box = ""]
  <2>1. b \in QueryBoxState
    BY <1>1 DEF QueryBoxState
  <2>2. w \in Widgets /\ w.fac = widgets.fac
    BY <1>1, BoxWritten
  <2>3. Flush(b, w) /\ ResetIndex(b) /\ User /\ facet' = facet
    BY <1>7 DEF HandleClear
  <2> HIDE DEF b, w
  <2> QED BY <1>1, <2>1, <2>2, <2>3, ResetIndexType, UserStep, EventInv
<1>8. CASE HandleEscape
  <2>1. CASE HandleClear
    BY <1>7, <2>1
  <2>2. CASE ~HandleClear
    <3> DEFINE b == [box EXCEPT !.open = FALSE]
    <3>1. b \in QueryBoxState
      BY <1>1 DEF QueryBoxState
    <3>2. Flush(b, widgets) /\ index' = 0 /\ User /\ facet' = facet
      BY <1>8, <2>2 DEF HandleEscape
    <3> HIDE DEF b
    <3> QED BY <1>1, <3>1, <3>2, UserStep, EventInv
  <2> QED BY <2>1, <2>2
<1> QED BY <1>3, <1>4, <1>5, <1>6, <1>7, <1>8
\* The pages Pagination offers, for any page and any number of pages: the page
\* one is on is always among them.
LEMMA ButtonsType ==
    ASSUME NEW page \in Nat, NEW max \in Nat
    PROVE  Buttons(page, max) \subseteq Nat /\ (page \in 1 .. max => page \in Buttons(page, max))
<1>1. CASE page < 5 \/ page > max
  BY <1>1 DEF Buttons
<1>2. CASE ~(page < 5 \/ page > max) /\ page <= max - 4
  BY <1>2 DEF Buttons
<1>3. CASE ~(page < 5 \/ page > max) /\ ~(page <= max - 4)
  <2>1. CASE page = 5 /\ max = 5
    BY <1>3, <2>1 DEF Buttons
  <2>2. CASE ~(page = 5 /\ max = 5)
    <3>1. Buttons(page, max) = {1} \cup (max - 4 .. max)
      BY <1>3, <2>2 DEF Buttons
    <3>2. max - 4 \in Nat /\ page \in max - 4 .. max
      BY <1>3
    <3> QED BY <3>1, <3>2
  <2> QED BY <2>1, <2>2
<1> QED BY <1>1, <1>2, <1>3

LEMMA Shown ==
    ASSUME IInv
    PROVE  Suggestions \in Nat /\ Pages \in Nat /\ widgets.res.page \in Nat
<1>1. \A i \in Ids : result[i] # <<>> => result[i][1].n \in Nat
  <2> SUFFICES ASSUME NEW i \in Ids, result[i] # <<>> PROVE result[i][1].n \in Nat
    OBVIOUS
  <2>1. result[i][1] \in Answers
    BY IInvFacts DEF TypeOK
  <2> QED BY <2>1, SearchAssumption DEF Answers
<1>2. widgets.res.page \in Nat
  BY IInvFacts DEF Widgets
<1>3. "sug" \in Ids /\ "res" \in Ids
  BY DEF Ids
<1> QED BY <1>1, <1>2, <1>3, SearchAssumption DEF Suggestions, Pages

LEMMA MoveSelectionInv ==
    ASSUME IInv, MoveSelection
    PROVE  IInv'
<1>1. index' \in Nat
  <2>1. index \in Nat /\ Suggestions \in Nat
    BY IInvFacts, Shown
  <2>2. index' \in 1 .. Suggestions \cup {IF index > 1 THEN index - 1 ELSE 0}
    BY DEF MoveSelection
  <2> HIDE DEF MoveSelection
  <2> QED BY <2>1, <2>2
<1>2. User /\ UNCHANGED <<box, timer, facet, widgets, result, lis>>
  BY DEF MoveSelection
<1>3. steps' \in 0 .. MaxSteps /\ UNCHANGED <<props, effect, sent, net, overtaken>>
  BY <1>2, UserStep
<1>4. /\ TypeOK' /\ Answered' /\ NoResurrection'
  BY <1>1, <1>2, <1>3, IInvFacts DEF TypeOK, Answered, NoResurrection
<1>5. Pending'
  BY <1>2, <1>3, IInvFacts DEF Pending, SameKeys, QueriesReady
<1> QED BY <1>2, <1>3, <1>4, <1>5, IInvFacts DEF IInv

LEMMA ResultsInv ==
    ASSUME IInv,
           \/ \E p \in Buttons(widgets.res.page, Pages) : SetPage(p)
           \/ \E f \in Filters : SetFilterQuery(f)
    PROVE  IInv'
<1>1. widgets \in Widgets /\ box \in QueryBoxState /\ facet \subseteq Terms /\ index \in Nat
  BY IInvFacts
<1>2. PICK w \in Widgets : w.fac = widgets.fac /\ Flush(box, w)
  <2>1. CASE \E p \in Buttons(widgets.res.page, Pages) : SetPage(p)
    <3>1. PICK p \in Buttons(widgets.res.page, Pages) : SetPage(p)
      BY <2>1
    <3>2. p \in Nat
      BY Shown, ButtonsType
    <3> DEFINE w == [widgets EXCEPT !.res.page = p]
    <3>3. w \in Widgets /\ w.fac = widgets.fac
      BY <1>1, <3>2 DEF Widgets
    <3>4. Flush(box, w)
      BY <3>1 DEF SetPage
    <3> HIDE DEF w
    <3> QED BY <3>3, <3>4
  <2>2. CASE \E f \in Filters : SetFilterQuery(f)
    <3>1. PICK f \in Filters : SetFilterQuery(f)
      BY <2>2
    <3> DEFINE w == [widgets EXCEPT !.res.filt = f]
    <3>2. w \in Widgets /\ w.fac = widgets.fac
      BY <1>1 DEF Widgets
    <3>3. Flush(box, w)
      BY <3>1 DEF SetFilterQuery
    <3> HIDE DEF w
    <3> QED BY <3>2, <3>3
  <2> QED BY <2>1, <2>2
<1>3. User /\ index' = index /\ facet' = facet
  BY DEF SetPage, SetFilterQuery
<1> QED BY <1>1, <1>2, <1>3, UserStep, EventInv
LEMMA FacetHandleChangeInv ==
    ASSUME IInv, NEW t \in Terms, FacetHandleChange(t)
    PROVE  IInv'
<1>1. User /\ UNCHANGED <<box, timer, index, widgets, result, lis>> /\ facet' \subseteq Terms
  BY IInvFacts DEF FacetHandleChange
<1>2. steps' \in 0 .. MaxSteps /\ UNCHANGED <<props, effect, sent, net, overtaken>>
  BY <1>1, UserStep
<1>3. TypeOK' /\ Answered' /\ NoResurrection'
  BY <1>1, <1>2, IInvFacts DEF TypeOK, Answered, NoResurrection
<1>4. Pending'
  BY <1>1, <1>2, IInvFacts DEF Pending, SameKeys, QueriesReady
<1> QED BY <1>1, <1>2, <1>3, <1>4, IInvFacts DEF IInv

\* The value of the Facet's widget is written.
LEMMA FacetWritten ==
    ASSUME widgets \in Widgets, NEW x \in SUBSET Terms
    PROVE  LET w == [widgets EXCEPT !.fac.value = x]
           IN w \in Widgets /\ w.fac.on = widgets.fac.on
BY DEF Widgets

LEMMA FacetEffectsInv ==
    ASSUME IInv, FacetEffects
    PROVE  IInv'
<1>1. widgets \in Widgets /\ box \in QueryBoxState /\ facet \subseteq Terms /\ index \in Nat
  BY IInvFacts
<1> DEFINE w == [widgets EXCEPT !.fac.value = facet]
<1>2. w \in Widgets /\ w.fac.on = widgets.fac.on
  BY <1>1, FacetWritten
<1>3. /\ Flush(box, w) /\ facet' = widgets.fac.value
      /\ UNCHANGED <<props, index, effect, sent, net, overtaken, steps>>
  BY DEF FacetEffects
<1> HIDE DEF w
<1>4. facet' \subseteq Terms
  BY <1>1, <1>3 DEF Widgets
<1> QED BY <1>1, <1>2, <1>3, <1>4, IInvFacts, FlushInv DEF Flush, NoResurrection

LEMMA ToggleFacetInv ==
    ASSUME IInv, ToggleFacet
    PROVE  IInv'
<1>1. /\ widgets \in Widgets /\ box \in QueryBoxState /\ index \in Nat
      /\ result \in [Ids -> ResultOf]
  BY IInvFacts
<1> DEFINE w == [widgets EXCEPT !.fac = [on |-> ~@.on, value |-> {}]]
           r == [result EXCEPT !["fac"] = <<>>]
<1>2. w \in Widgets
  BY <1>1 DEF Widgets
<1>3. r \in [Ids -> ResultOf] /\ r["res"] = result["res"] /\ r["fac"] = <<>>
  <2>1. <<>> \in ResultOf
    BY DEF ResultOf
  <2> HIDE DEF ResultOf
  <2> QED BY <1>1, <2>1 DEF Ids
<1>4. FlushWith(box, w, r) /\ User /\ facet' = {} /\ index' = index
  BY DEF ToggleFacet
<1> HIDE DEF w, r
<1> QED BY <1>1, <1>2, <1>3, <1>4, UserStep, FlushInv

LEMMA RemoveFilterInv ==
    ASSUME IInv, NEW i \in {"box", "fac"}, RemoveFilter(i)
    PROVE  IInv'
<1>1. /\ widgets \in Widgets /\ box \in QueryBoxState /\ facet \subseteq Terms /\ index \in Nat
      /\ "" \in Values /\ {} \in SUBSET Terms
  BY IInvFacts DEF Values
<1>2. User
  BY DEF RemoveFilter
<1>3. CASE i = "box"
  <2> DEFINE b == [box EXCEPT !.value = IF props.mode = "live" THEN "" ELSE @]
             w == [widgets EXCEPT !.box = ""]
  <2>1. b \in QueryBoxState
    BY <1>1 DEF QueryBoxState
  <2>2. w \in Widgets /\ w.fac = widgets.fac
    BY <1>1, BoxWritten
  <2>3. Flush(b, w) /\ ResetIndex(b) /\ facet' = facet
    BY <1>3 DEF RemoveFilter
  <2> HIDE DEF b, w
  <2> QED BY <1>1, <1>2, <2>1, <2>2, <2>3, ResetIndexType, UserStep, EventInv
<1>4. CASE i = "fac"
  <2> DEFINE w == [widgets EXCEPT !.fac.value = {}]
  <2>1. w \in Widgets /\ w.fac.on = widgets.fac.on
    BY <1>1, FacetWritten
  <2>2. Flush(box, w) /\ facet' = {} /\ index' = index
    BY <1>4 DEF RemoveFilter
  <2> HIDE DEF w
  <2> QED BY <1>1, <1>2, <2>1, <2>2, UserStep, IInvFacts, FlushInv DEF Flush, NoResurrection
<1> QED BY <1>3, <1>4

-----------------------------------------------------------------------------
(* Timers, effects and answers. *)

LEMMA DispatchQueryInv ==
    ASSUME IInv, DispatchQuery
    PROVE  IInv'
<1>1. /\ widgets \in Widgets /\ timer \in Values /\ Pending
      /\ lis = <<>> \/ lis[1] \in Widgets
  BY IInvFacts DEF TypeOK
<1> DEFINE w0 == [widgets EXCEPT !.sug = [q |-> timer, loading |-> TRUE]]
           w == Render(w0)
<1>2. w0 \in Widgets /\ w0.fac = widgets.fac
  BY <1>1 DEF Widgets
<1> HIDE DEF w0
<1>3. w \in Widgets /\ w.fac = widgets.fac
  BY <1>1, <1>2, RenderFields
<1>4. /\ widgets' = w /\ lis' = Listen(w) /\ timer' = ""
      /\ UNCHANGED <<props, box, index, facet, result, effect, sent, net, overtaken, steps>>
  BY DEF DispatchQuery, w0
<1> HIDE DEF w
<1>5. Pending' /\ (lis' = <<>> \/ lis'[1] \in Widgets)
  BY <1>1, <1>3, <1>4, ListenPending
<1>6. "" \in Values
  BY DEF Values
<1>7. TypeOK' /\ Answered' /\ NoResurrection'
  BY <1>3, <1>4, <1>5, <1>6, IInvFacts DEF TypeOK, Answered, NoResurrection
<1> QED BY <1>4, <1>5, <1>7, IInvFacts DEF IInv

LEMMA TimerFiresInv ==
    ASSUME IInv, TimerFires
    PROVE  IInv'
<1>1. /\ lis # <<>> /\ effect' = lis /\ lis' = <<>>
      /\ UNCHANGED <<props, box, timer, index, facet, widgets, result, sent, net, overtaken, steps>>
  BY DEF TimerFires
<1>2. TypeOK' /\ Answered' /\ NoResurrection'
  BY <1>1, IInvFacts DEF TypeOK, Answered, NoResurrection
<1>3. Pending'
  BY <1>1, IInvFacts DEF Pending, SameKeys, QueriesReady
<1> QED BY <1>1, <1>2, <1>3, IInvFacts DEF IInv
-----------------------------------------------------------------------------
(* The newest request of Results, as requests are sent and answered. *)

LEMMA RemoveAtFacts ==
    ASSUME NEW S, NEW ns \in Seq(S), NEW k \in 1 .. Len(ns)
    PROVE  /\ RemoveAt(ns, k) \in Seq(S)
           /\ Len(RemoveAt(ns, k)) = Len(ns) - 1
           /\ \A i \in 1 .. Len(ns) - 1 :
                 RemoveAt(ns, k)[i] = IF i < k THEN ns[i] ELSE ns[i + 1]
<1> DEFINE a == SubSeq(ns, 1, k - 1)
           b == SubSeq(ns, k + 1, Len(ns))
<1>1. a \in Seq(S) /\ Len(a) = k - 1 /\ \A i \in 1 .. k - 1 : a[i] = ns[i]
  OBVIOUS
<1>2. b \in Seq(S) /\ Len(b) = Len(ns) - k /\ \A i \in 1 .. Len(ns) - k : b[i] = ns[k + i]
  OBVIOUS
<1>3. RemoveAt(ns, k) = a \o b
  BY DEF RemoveAt
<1> HIDE DEF a, b
<1>4. a \o b \in Seq(S) /\ Len(a \o b) = Len(ns) - 1
  <2>1. a \o b \in Seq(S)
    BY <1>1, <1>2
  <2>2. Len(a \o b) = Len(a) + Len(b)
    <3>1. a \in Seq(S) /\ b \in Seq(S)
      BY <1>1, <1>2
    <3> QED BY <3>1
  <2>3. Len(ns) \in Nat
    OBVIOUS
  <2> QED BY <1>1, <1>2, <2>1, <2>2, <2>3
<1>5. ASSUME NEW i \in 1 .. Len(ns) - 1
      PROVE  (a \o b)[i] = IF i < k THEN ns[i] ELSE ns[i + 1]
  <2>1. CASE i < k
    BY <1>1, <1>2, <2>1
  <2>2. CASE ~(i < k)
    <3>1. (a \o b)[i] = b[i - (k - 1)] /\ i - (k - 1) \in 1 .. Len(ns) - k
      BY <1>1, <1>2, <2>2
    <3> QED BY <1>2, <2>2, <3>1
  <2> QED BY <2>1, <2>2
<1> QED BY <1>3, <1>4, <1>5

LEMMA NewestSent ==
    ASSUME NEW ns \in Seq(Multiquery), NEW m \in Multiquery, NEW res, NEW key,
           IF "res" \in DOMAIN m THEN Asks(m["res"], key) ELSE Newest(ns, res, key)
    PROVE  Newest(Append(ns, m), res, key)
<1> DEFINE t == Append(ns, m)
<1>1. /\ Len(t) = Len(ns) + 1 /\ t[Len(ns) + 1] = m
      /\ \A i \in 1 .. Len(ns) : t[i] = ns[i]
  OBVIOUS
<1> HIDE DEF t
<1>2. Len(ns) \in Nat
  OBVIOUS
<1>3. ASSUME NEW k \in 1 .. Len(t), "res" \in DOMAIN t[k],
             \A j \in k + 1 .. Len(t) : "res" \notin DOMAIN t[j]
      PROVE  Asks(t[k]["res"], key)
  <2>1. CASE "res" \in DOMAIN m
    <3>1. k = Len(ns) + 1
      BY <1>1, <1>2, <1>3, <2>1
    <3> QED BY <1>1, <2>1, <3>1
  <2>2. CASE "res" \notin DOMAIN m
    <3>1. k \in 1 .. Len(ns)
      BY <1>1, <1>2, <1>3, <2>2
    <3>2. \A j \in k + 1 .. Len(ns) : "res" \notin DOMAIN ns[j]
      BY <1>1, <1>2, <1>3, <3>1
    <3>3. Asks(ns[k]["res"], key)
      BY <1>1, <1>3, <2>2, <3>1, <3>2 DEF Newest
    <3> QED BY <1>1, <3>1, <3>3
  <2> QED BY <2>1, <2>2
<1>4. ASSUME \A k \in 1 .. Len(t) : "res" \notin DOMAIN t[k]
      PROVE  res # <<>> /\ Asks(res[1].req, key)
  <2>1. "res" \notin DOMAIN m
    BY <1>1, <1>2, <1>4
  <2>2. \A k \in 1 .. Len(ns) : "res" \notin DOMAIN ns[k]
    BY <1>1, <1>2, <1>4
  <2> QED BY <2>1, <2>2 DEF Newest
<1> QED BY <1>3, <1>4 DEF Newest, t

LEMMA NewestAnswered ==
    ASSUME NEW ns \in Seq(Multiquery), NEW k \in 1 .. Len(ns), NEW res, NEW now, NEW key,
           Newest(ns, res, key),
           \A j \in 1 .. k - 1 : DOMAIN ns[j] \cap DOMAIN ns[k] = {},
           IF "res" \in DOMAIN ns[k] THEN now # <<>> /\ now[1].req = ns[k]["res"]
                                     ELSE now = res
    PROVE  Newest(RemoveAt(ns, k), now, key)
<1> DEFINE t == RemoveAt(ns, k)
<1>1. /\ Len(t) = Len(ns) - 1 /\ Len(ns) \in Nat
      /\ \A i \in 1 .. Len(ns) - 1 : t[i] = IF i < k THEN ns[i] ELSE ns[i + 1]
  <2>1. Len(ns) \in Nat
    OBVIOUS
  <2> QED BY <2>1, RemoveAtFacts, Zenon
<1> HIDE DEF t
<1>2. ASSUME NEW i \in 1 .. Len(t), "res" \in DOMAIN t[i],
             \A j \in i + 1 .. Len(t) : "res" \notin DOMAIN t[j]
      PROVE  Asks(t[i]["res"], key)
  <2> DEFINE f == IF i < k THEN i ELSE i + 1
  <2>1. f \in 1 .. Len(ns) /\ t[i] = ns[f]
    BY <1>1
  <2>2. ASSUME NEW j \in f + 1 .. Len(ns) PROVE "res" \notin DOMAIN ns[j]
    <3>1. CASE j = k
      <4>1. i \in 1 .. k - 1 /\ t[i] = ns[i]
        BY <1>1, <2>2, <3>1
      <4> QED BY <1>2, <3>1, <4>1
    <3>2. CASE j < k
      <4>1. j \in i + 1 .. Len(t) /\ t[j] = ns[j]
        BY <1>1, <2>2, <3>2
      <4> QED BY <1>2, <4>1
    <3>3. CASE j > k
      <4>1. j - 1 \in i + 1 .. Len(t) /\ t[j - 1] = ns[j]
        BY <1>1, <2>2, <3>3
      <4> QED BY <1>2, <4>1
    <3> QED BY <1>1, <2>2, <3>1, <3>2, <3>3
  <2> HIDE DEF f
  <2>3. Asks(ns[f]["res"], key)
    BY <1>2, <2>1, <2>2 DEF Newest
  <2> QED BY <2>1, <2>3
<1>3. ASSUME \A i \in 1 .. Len(t) : "res" \notin DOMAIN t[i]
      PROVE  now # <<>> /\ Asks(now[1].req, key)
  <2>1. ASSUME NEW j \in 1 .. Len(ns), j # k PROVE "res" \notin DOMAIN ns[j]
    <3>1. CASE j < k
      <4>1. j \in 1 .. Len(t) /\ t[j] = ns[j]
        BY <1>1, <2>1, <3>1
      <4> QED BY <1>3, <4>1
    <3>2. CASE j > k
      <4>1. j - 1 \in 1 .. Len(t) /\ t[j - 1] = ns[j]
        BY <1>1, <2>1, <3>2
      <4> QED BY <1>3, <4>1
    <3> QED BY <1>1, <2>1, <3>1, <3>2
  <2>2. CASE "res" \in DOMAIN ns[k]
    <3>1. \A j \in k + 1 .. Len(ns) : "res" \notin DOMAIN ns[j]
      BY <2>1
    <3>2. Asks(ns[k]["res"], key)
      BY <2>2, <3>1 DEF Newest
    <3> QED BY <2>2, <3>2
  <2>3. CASE "res" \notin DOMAIN ns[k]
    <3>1. \A j \in 1 .. Len(ns) : "res" \notin DOMAIN ns[j]
      BY <2>1, <2>3
    <3> QED BY <2>3, <3>1 DEF Newest
  <2> QED BY <2>2, <2>3
<1> QED BY <1>2, <1>3 DEF Newest, t
LEMMA RequestType ==
    ASSUME NEW w \in Widgets, NEW i \in Ids
    PROVE  Request(i, w) \in Requests
<1>1. w.res.q \in Values /\ w.sug.q \in Values /\ w.res.page \in Nat /\ w.res.filt \in Filters
      /\ w.fac.value \in SUBSET Terms
  BY DEF Widgets
<1>2. 1 \in Nat /\ {} \in SUBSET Terms
  OBVIOUS
<1> QED BY <1>1, <1>2 DEF Request, Requests

LEMMA RunListenerEffectInv ==
    ASSUME IInv, RunListenerEffect
    PROVE  IInv'
<1> DEFINE w == effect[1]
           autosuggestChanged == AutosuggestGroupKey(w) # sent.autosuggest
           nonAutosuggestChanged == NonAutosuggestGroupKey(w) # sent.nonAutosuggest
           ids == {i \in Ids : \/ i = "res" /\ nonAutosuggestChanged
                               \/ i = "fac" /\ nonAutosuggestChanged /\ w.fac.on
                               \/ i = "sug" /\ autosuggestChanged /\ w.sug.q # ""}
           m == [i \in ids |-> Request(i, w)]
<1>1. /\ effect # <<>> /\ effect' = <<>>
      /\ UNCHANGED <<props, box, timer, index, facet, widgets, result, lis, overtaken, steps>>
  BY DEF RunListenerEffect
<1>2. /\ sent' = [autosuggest |-> AutosuggestGroupKey(w),
                  nonAutosuggest |-> NonAutosuggestGroupKey(w)]
      /\ net' = IF ids = {} THEN net ELSE Append(net, m)
  BY DEF RunListenerEffect
<1>3. w \in Widgets
  BY <1>1, IInvFacts DEF TypeOK
<1>4. "res" \in ids <=> nonAutosuggestChanged
  BY DEF Ids
<1>5. ids \subseteq Ids
  OBVIOUS
<1> HIDE DEF ids
<1>6. m \in Multiquery /\ DOMAIN m = ids
  <2>1. m \in [ids -> Requests]
    BY <1>3, <1>5, RequestType
  <2> HIDE DEF m
  <2> QED BY <1>5, <2>1 DEF Multiquery
<1>7. "res" \in ids => Asks(m["res"], NonAutosuggestGroupKey(w))
  <2>1. "res" \in ids => m["res"] = Request("res", w)
    OBVIOUS
  <2> HIDE DEF m, w
  <2> QED BY <2>1 DEF Asks, Request, NonAutosuggestGroupKey
<1> HIDE DEF m, w
<1>8. net' \in Seq(Multiquery)
  BY <1>2, <1>6, IInvFacts
<1>9. sent'.nonAutosuggest = NonAutosuggestGroupKey(w)
      /\ sent'.autosuggest = AutosuggestGroupKey(w)
  BY <1>2
<1>10. NonAutosuggestGroupKey(w) # <<>>
  BY DEF NonAutosuggestGroupKey
<1>11. Answered'
  <2> SUFFICES ASSUME ~overtaken
               PROVE  Newest(net', result["res"], NonAutosuggestGroupKey(w))
    BY <1>1, <1>9 DEF Answered
  <2>1. CASE "res" \in ids
    <3>1. ids # {}
      BY <2>1
    <3> QED BY <1>2, <1>6, <1>7, <2>1, <3>1, NewestSent, IInvFacts
  <2>2. CASE "res" \notin ids
    <3>1. sent.nonAutosuggest = NonAutosuggestGroupKey(w)
      BY <1>4, <2>2
    <3>2. Newest(net, result["res"], NonAutosuggestGroupKey(w))
      BY <1>10, <3>1, IInvFacts DEF Answered
    <3> QED BY <1>2, <1>6, <2>2, <3>2, NewestSent, IInvFacts
  <2> QED BY <2>1, <2>2
<1>12. Pending'
  <2>1. /\ QueriesReady(widgets)' <=> QueriesReady(widgets)
        /\ \A c : SameKeys(c)' <=> SameKeys(c)
        /\ AutosuggestGroupKey(widgets)' = AutosuggestGroupKey(widgets)
        /\ NonAutosuggestGroupKey(widgets)' = NonAutosuggestGroupKey(widgets)
    BY <1>1 DEF QueriesReady, SameKeys
  <2>2. QueriesReady(widgets) /\ lis = <<>> => SameKeys(w)
    BY <1>1, IInvFacts DEF Pending, w
  <2>3. QueriesReady(widgets) /\ lis # <<>> => SameKeys(lis[1])
    BY IInvFacts DEF Pending
  <2> QED BY <1>1, <1>9, <2>1, <2>2, <2>3 DEF Pending, SameKeys
<1>13. TypeOK' /\ NoResurrection'
  BY <1>1, IInvFacts DEF TypeOK, NoResurrection
<1> QED BY <1>1, <1>8, <1>11, <1>12, <1>13, IInvFacts DEF IInv

LEMMA RespondInv ==
    ASSUME IInv, NEW k \in 1 .. Len(net), NEW ok \in SUBSET DOMAIN net[k],
           NEW n \in Totals, Respond(k, ok, n)
    PROVE  IInv'
<1> DEFINE reqs == net[k]
           a(i) == [req |-> reqs[i], ok |-> i \in ok, n |-> IF i \in ok THEN n ELSE 0]
<1>1. /\ result' = [i \in Ids |-> IF i \in DOMAIN reqs THEN SetWidgetResult(i, a(i)) ELSE result[i]]
      /\ widgets' = IF "sug" \in DOMAIN reqs THEN [widgets EXCEPT !.sug.loading = FALSE] ELSE widgets
      /\ overtaken' = (overtaken \/ \E j \in 1 .. k - 1 : DOMAIN net[j] \cap DOMAIN reqs # {})
      /\ net' = RemoveAt(net, k)
      /\ UNCHANGED <<props, box, timer, index, facet, lis, effect, sent, steps>>
  BY DEF Respond
<1>2. reqs \in Multiquery
  BY IInvFacts
<1>3. DOMAIN reqs \subseteq Ids /\ \A i \in DOMAIN reqs : reqs[i] \in Requests
  <2> HIDE DEF reqs
  <2>1. PICK S \in SUBSET Ids : reqs \in [S -> Requests]
    BY <1>2 DEF Multiquery
  <2> HIDE DEF Requests
  <2> QED BY <2>1
<1> HIDE DEF reqs
<1>4. ASSUME NEW i \in DOMAIN reqs PROVE a(i) \in Answers
  <2>1. reqs[i] \in Requests /\ (i \in ok) \in BOOLEAN /\ (IF i \in ok THEN n ELSE 0) \in Totals
    <3>1. n \in Totals /\ 0 \in Totals
      BY SearchAssumption
    <3>2. (IF i \in ok THEN n ELSE 0) \in Totals
      BY <3>1
    <3>3. reqs[i] \in Requests
      BY <1>3, Zenon
    <3> QED BY <3>2, <3>3
  <2> HIDE DEF Requests
  <2> QED BY <2>1 DEF Answers
<1>5. /\ "res" \in DOMAIN reqs => result'["res"] = <<a("res")>>
      /\ "res" \notin DOMAIN reqs => result'["res"] = result["res"]
      /\ ~widgets.fac.on => result'["fac"] = result["fac"]
  BY <1>1 DEF SetWidgetResult, Ids
<1>6. result' \in [Ids -> ResultOf]
  <2>1. ASSUME NEW i \in Ids
        PROVE  (IF i \in DOMAIN reqs THEN SetWidgetResult(i, a(i)) ELSE result[i]) \in ResultOf
    <3>1. result[i] \in ResultOf
      BY IInvFacts
    <3>2. i \in DOMAIN reqs => <<a(i)>> \in ResultOf
      <4>1. i \in DOMAIN reqs => a(i) \in Answers
        BY <1>4
      <4> HIDE DEF a, Answers
      <4> QED BY <4>1 DEF ResultOf
    <3> HIDE DEF a, ResultOf
    <3> QED BY <3>1, <3>2 DEF SetWidgetResult
  <2> HIDE DEF a, ResultOf
  <2> QED BY <1>1, <2>1
<1>7. \A i \in Ids : result'[i] = <<>> \/ result'[i][1] \in Answers
  BY <1>6 DEF ResultOf
<1>8. widgets' \in Widgets /\ widgets'.fac = widgets.fac
      /\ widgets'.res = widgets.res /\ widgets'.sug.q = widgets.sug.q
  BY <1>1, IInvFacts DEF Widgets
<1>9. Pending'
  <2>1. /\ QueriesReady(widgets)' <=> QueriesReady(widgets)
        /\ AutosuggestGroupKey(widgets)' = AutosuggestGroupKey(widgets)
        /\ NonAutosuggestGroupKey(widgets)' = NonAutosuggestGroupKey(widgets)
    BY <1>1, <1>8 DEF QueriesReady, AutosuggestGroupKey, NonAutosuggestGroupKey
  <2>2. \A c : SameKeys(c)' <=> SameKeys(c)
    BY <2>1 DEF SameKeys
  <2> QED BY <1>1, <2>1, <2>2, IInvFacts DEF Pending
<1>10. Answered'
  <2> SUFFICES ASSUME ~overtaken', sent.nonAutosuggest # <<>>
               PROVE  Newest(RemoveAt(net, k), result'["res"], sent.nonAutosuggest)
    BY <1>1 DEF Answered
  <2>1. ~overtaken /\ \A j \in 1 .. k - 1 : DOMAIN net[j] \cap DOMAIN net[k] = {}
    BY <1>1 DEF reqs
  <2>2. Newest(net, result["res"], sent.nonAutosuggest)
    BY <2>1, IInvFacts DEF Answered
  <2>3. <<a("res")>> # <<>> /\ <<a("res")>>[1].req = reqs["res"]
    OBVIOUS
  <2>4. IF "res" \in DOMAIN net[k] THEN result'["res"] # <<>> /\ result'["res"][1].req = net[k]["res"]
                                   ELSE result'["res"] = result["res"]
    <3> HIDE DEF a
    <3> QED BY <1>5, <2>3 DEF reqs
  <2>5. net \in Seq(Multiquery)
    BY IInvFacts
  <2> HIDE DEF a
  <2> QED BY <2>1, <2>2, <2>4, <2>5, NewestAnswered
<1>11. net' \in Seq(Multiquery)
  BY <1>1, IInvFacts, RemoveAtFacts
<1>12. TypeOK'
  <2>1. overtaken' \in BOOLEAN
    BY <1>1, IInvFacts DEF TypeOK
  <2> QED BY <1>1, <1>7, <1>8, <2>1, IInvFacts DEF TypeOK
<1>13. NoResurrection'
  BY <1>5, <1>8, IInvFacts DEF NoResurrection
<1> QED BY <1>6, <1>9, <1>10, <1>11, <1>12, <1>13 DEF IInv
-----------------------------------------------------------------------------
(* The invariant and what it says. *)

LEMMA InitInv == Init => IInv
<1> SUFFICES ASSUME Init PROVE IInv
  OBVIOUS
<1>1. widgets \in Widgets
  BY SearchAssumption DEF Init, Widgets, Values, Props
<1>2. props \in Props /\ box \in QueryBoxState
  BY SearchAssumption DEF Init, QueryBoxState, Values
<1>3. result \in [Ids -> ResultOf] /\ (\A i \in Ids : result[i] = <<>>) /\ net \in Seq(Multiquery)
  <2>1. <<>> \in ResultOf
    BY DEF ResultOf
  <2>2. result = [i \in Ids |-> <<>>] /\ net = <<>>
    BY DEF Init
  <2>3. <<>> \in Seq(Multiquery)
    OBVIOUS
  <2> HIDE DEF ResultOf
  <2> QED BY <2>1, <2>2, <2>3
<1>4. TypeOK
  <2>1. timer \in Values /\ index \in Nat /\ facet \subseteq Terms /\ overtaken \in BOOLEAN
    BY DEF Init, Values
  <2>2. steps \in 0 .. MaxSteps
    <3>1. steps = 0 /\ MaxSteps \in Nat
      BY SearchAssumption DEF Init
    <3> QED BY <3>1
  <2>3. (lis = <<>> \/ lis[1] \in Widgets) /\ effect = <<>>
    BY <1>1 DEF Init
  <2> QED BY <1>1, <1>2, <1>3, <2>1, <2>2, <2>3 DEF TypeOK
<1>5. Pending
  <2>1. QueriesReady(widgets) => lis = <<widgets>>
    BY DEF Init
  <2>2. lis = <<widgets>> => lis # <<>> /\ lis[1] = widgets
    OBVIOUS
  <2>3. SameKeys(widgets)
    BY DEF SameKeys
  <2> QED BY <2>1, <2>2, <2>3 DEF Pending
<1>6. Answered
  BY DEF Init, Answered
<1>7. NoResurrection
  BY <1>3 DEF NoResurrection, Ids
<1> QED BY <1>3, <1>4, <1>5, <1>6, <1>7 DEF IInv

LEMMA NextInv == IInv /\ [Next]_vars => IInv'
<1> SUFFICES ASSUME IInv, [Next]_vars PROVE IInv'
  OBVIOUS
<1>1. CASE UNCHANGED vars
  <2>1. UNCHANGED <<props, box, timer, index, facet, widgets, result, lis, effect,
                    sent, net, overtaken, steps>>
    BY <1>1 DEF vars
  <2>2. Pending'
    <3>1. \A c : SameKeys(c)' <=> SameKeys(c)
      BY <2>1 DEF SameKeys
    <3> QED BY <2>1, <3>1, IInvFacts DEF Pending, QueriesReady
  <2>3. TypeOK' /\ Answered' /\ NoResurrection'
    BY <2>1, IInvFacts DEF TypeOK, Answered, NoResurrection
  <2> QED BY <2>1, <2>2, <2>3, IInvFacts DEF IInv
<1>2. CASE \/ \E v \in Values : HandleChange(v) \/ InitialValueChanged(v)
           \/ \E v \in Texts : HandleSuggestionSelect(v)
           \/ SubmitValue
           \/ HandleClear
           \/ HandleEscape
  BY <1>2, BoxInv, Zenon
<1>3. CASE \/ \E p \in Buttons(widgets.res.page, Pages) : SetPage(p)
           \/ \E f \in Filters : SetFilterQuery(f)
  BY <1>3, ResultsInv, Zenon
<1>4. CASE (\E t \in Terms : FacetHandleChange(t)) \/ FacetEffects \/ ToggleFacet
           \/ (\E i \in {"box", "fac"} : RemoveFilter(i))
  BY <1>4, FacetHandleChangeInv, FacetEffectsInv, ToggleFacetInv, RemoveFilterInv, Zenon
<1>5. CASE MoveSelection \/ DispatchQuery \/ TimerFires \/ RunListenerEffect
  BY <1>5, MoveSelectionInv, DispatchQueryInv, TimerFiresInv, RunListenerEffectInv, Zenon
<1>6. CASE Answer
  <2>1. PICK k \in 1 .. Len(net) : \E ok \in SUBSET DOMAIN net[k] :
                 \E n \in IF ok = {} THEN {0} ELSE Totals : Respond(k, ok, n)
    BY <1>6, Zenon DEF Answer
  <2>2. PICK ok \in SUBSET DOMAIN net[k] :
                 \E n \in IF ok = {} THEN {0} ELSE Totals : Respond(k, ok, n)
    BY <2>1, Zenon
  <2>3. PICK n \in IF ok = {} THEN {0} ELSE Totals : Respond(k, ok, n)
    BY <2>2, Zenon
  <2>4. 0 \in Totals
    BY SearchAssumption
  <2>5. n \in Totals
    BY <2>4, Zenon
  <2> QED BY <2>3, <2>5, RespondInv, Zenon
<1>7. QED
  BY <1>1, <1>2, <1>3, <1>4, <1>5, <1>6, Zenon DEF Next

LEMMA Invariance == Spec => []IInv
<1>1. Spec => Init /\ [][Next]_vars
  BY PTL DEF Spec
<1> QED BY <1>1, InitInv, NextInv, PTL

\* Whatever the interleaving of typing, facets, pages, the debounce timer, the
\* deferred listener effect and the answers of the server: inputs that differ
\* from those last asked for always have a timer or an effect pending, so that
\* the Listener of the code will ask for them.
THEOREM Remembered == Spec => []NothingForgotten
<1>1. IInv => NothingForgotten
  BY IInvFacts DEF NothingForgotten, Pending
<1> QED BY <1>1, Invariance, PTL

\* What is on screen belongs to what was asked: once all is quiet Results shows
\* the answer to the query, page and facets on screen unless an answer overtook
\* an older one, an unmounted Facet has no result, and Pagination offers the
\* page one is on - for any texts, terms, totals and numbers of steps.
THEOREM Current == Spec => []ShownIsCurrent
<1>1. ASSUME IInv, Idle, QueriesReady(widgets), ~overtaken
      PROVE  /\ result["res"] # <<>>
             /\ LET r == result["res"][1].req
                IN <<r.q, r.page, r.fac>>
                     = <<widgets.res.q, widgets.res.page, widgets.fac.value>>
  <2> DEFINE key == NonAutosuggestGroupKey(widgets)
  <2>1. lis = <<>> /\ effect = <<>> /\ net = <<>>
    BY <1>1 DEF Idle
  <2>2. sent.nonAutosuggest = key
    BY <1>1, <2>1, IInvFacts DEF Pending
  <2>3. key # <<>> /\ key[1] = widgets.res.q /\ key[2] = widgets.res.page /\ key[3] = widgets.fac
    BY DEF NonAutosuggestGroupKey
  <2> HIDE DEF key
  <2>4. Newest(net, result["res"], key)
    BY <1>1, <2>2, <2>3, IInvFacts DEF Answered
  <2>5. Len(net) = 0
    BY <2>1
  <2>6. result["res"] # <<>> /\ Asks(result["res"][1].req, key)
    BY <2>4, <2>5 DEF Newest
  <2> QED BY <2>3, <2>6 DEF Asks
<1>2. IInv => ResultsFresh
  BY <1>1 DEF ResultsFresh
<1>3. IInv => CurrentPageShown
  BY Shown, ButtonsType DEF CurrentPageShown
<1>4. IInv => ShownIsCurrent
  BY <1>2, <1>3, IInvFacts DEF ShownIsCurrent
<1> QED BY <1>4, Invariance, PTL
=============================================================================
