--------------------------- MODULE TermiteProofs ---------------------------
(***************************************************************************)
(* Proofs about the Termite pages: a run that was superseded, aborted or   *)
(* retried leaves nothing behind, on any of the nine pages and for any     *)
(* number of runs.                                                         *)
(***************************************************************************)
EXTENDS TermitePages, TLAPS

-----------------------------------------------------------------------------
(* The inductive invariant. *)

Phases == {"sent", "waiting", "held", "done"}
IsRun(r) == {"phase", "aborted"} \subseteq DOMAIN r /\ r.phase \in Phases /\ r.aborted \in BOOLEAN

\* A run that can show nothing any more: what is left of it ends by itself.
Over(r) == r.phase = "done" \/ (r.aborted /\ r.phase # "sent")

\* Every run but the last is over.
RunsOk(rs) ==
    /\ \E S : rs \in Seq(S)
    /\ \A k \in DOMAIN rs : IsRun(rs[k]) /\ (k < Len(rs) => Over(rs[k]))

\* The result is the last run's, and the spinner has a run that will end it.
ViewFields == {"loading", "error", "result", "data"}
ViewOk(v, rs) ==
    /\ DOMAIN v = ViewFields /\ v.loading \in BOOLEAN
    /\ v.result # 0 => v.result = Len(rs)
    /\ v.loading => \E k \in DOMAIN rs : rs[k].phase # "done"

Core(v, rs) == RunsOk(rs) /\ ViewOk(v, rs)

\* The pages whose handler does not abort have one run at a time: their buttons
\* are disabled while isLoading.
OneRun(v, rs, phase) ==
    \A k \in DOMAIN rs : rs[k].phase = "done" \/ (rs[k].phase = phase /\ k = Len(rs) /\ v.loading)

\* The segments on the screen are those of run n.
SegmentFields == {"of", "status", "cleaned"}
Segments(data, n) == \A i \in DOMAIN data : DOMAIN data[i] = SegmentFields /\ data[i].of = n

\* While no request for the microphone overlaps another, the refs hold the one
\* stream that is open, from the answer of getUserMedia to the end of the
\* recording.
MicFields == {"overlapped", "recording", "live", "asked", "stream"}
Mic(f) ==
    /\ MicFields \subseteq DOMAIN f
    /\ f.overlapped \in BOOLEAN /\ f.recording \in BOOLEAN
    /\ ~f.overlapped =>
          IF f.recording THEN f.live = {f.stream} /\ f.asked = 0
          ELSE f.live = {} /\ f.asked \in {0, 1}

Transcribing == Core(view, reqs) /\ Segments(view.data, Len(reqs)) /\ Mic(form)

Inv ==
    /\ Core(view, reqs)
    /\ page = "embed" => OneRun(view, reqs, "sent")
    /\ page = "models" => OneRun(view, reqs, "held")
    /\ page = "transcribe" => Transcribing

-----------------------------------------------------------------------------
(* Runs. *)

\* A function over the positions of a sequence is one.
LEMMA IsSequence ==
    ASSUME NEW S, NEW s \in Seq(S), NEW t, t = [i \in DOMAIN s |-> t[i]]
    PROVE  (\E R : t \in Seq(R)) /\ Len(t) = Len(s) /\ DOMAIN t = DOMAIN s
<1>1. Len(s) \in Nat /\ t = [i \in 1 .. Len(s) |-> t[i]]
  OBVIOUS
<1>2. t \in Seq({t[i] : i \in 1 .. Len(s)})
  BY <1>1
<1>3. DOMAIN t = 1 .. Len(s) /\ DOMAIN t = DOMAIN s
  BY <1>1
<1>4. Len(t) = Len(s)
  <2>1. Len(t) \in Nat /\ DOMAIN t = 1 .. Len(t)
    BY <1>2
  <2> QED BY <1>1, <1>3, <2>1
<1> QED BY <1>2, <1>3, <1>4

LEMMA Range1 ==
    ASSUME NEW rs, RunsOk(rs)
    PROVE  Len(rs) \in Nat /\ DOMAIN rs = 1 .. Len(rs)
BY DEF RunsOk

\* After abort() every run is over.
LEMMA AbortAllFacts ==
    ASSUME NEW rs, RunsOk(rs)
    PROVE  /\ \E S : AbortAll(rs) \in Seq(S)
           /\ Len(AbortAll(rs)) = Len(rs) /\ DOMAIN AbortAll(rs) = DOMAIN rs
           /\ \A k \in DOMAIN rs : IsRun(AbortAll(rs)[k]) /\ Over(AbortAll(rs)[k])
<1>1. PICK S : rs \in Seq(S)
  BY DEF RunsOk
<1>2. PICK t : t = AbortAll(rs)
  OBVIOUS
<1>3. t = [k \in DOMAIN rs |-> t[k]]
  BY <1>2 DEF AbortAll
<1>4. (\E R : t \in Seq(R)) /\ Len(t) = Len(rs) /\ DOMAIN t = DOMAIN rs
  BY <1>1, <1>3, IsSequence
<1>5. ASSUME NEW k \in DOMAIN rs PROVE IsRun(t[k]) /\ Over(t[k])
  <2>1. IsRun(rs[k])
    BY DEF RunsOk
  <2>2. t[k] = CASE rs[k].phase = "sent" -> [rs[k] EXCEPT !.phase = "done"]
                 [] rs[k].phase \in {"waiting", "held"} -> [rs[k] EXCEPT !.aborted = TRUE]
                 [] OTHER -> rs[k]
    BY <1>2 DEF AbortAll
  <2>3. CASE rs[k].phase = "sent"
    BY <2>1, <2>2, <2>3 DEF IsRun, Over, Phases
  <2>4. CASE rs[k].phase \in {"waiting", "held"}
    BY <2>1, <2>2, <2>4 DEF IsRun, Over, Phases
  <2>5. CASE rs[k].phase = "done"
    <3>1. t[k] = rs[k]
      BY <2>2, <2>5
    <3> QED BY <2>1, <2>5, <3>1 DEF Over
  <2> QED BY <2>1, <2>3, <2>4, <2>5 DEF IsRun, Phases
<1> QED BY <1>2, <1>4, <1>5

\* A run is appended to runs that are over.
LEMMA AppendRun ==
    ASSUME NEW S, NEW rs \in Seq(S), \A k \in DOMAIN rs : IsRun(rs[k]) /\ Over(rs[k]),
           NEW r, IsRun(r)
    PROVE  /\ RunsOk(Append(rs, r)) /\ Len(Append(rs, r)) = Len(rs) + 1
           /\ DOMAIN Append(rs, r) = 1 .. Len(rs) + 1
           /\ Append(rs, r)[Len(rs) + 1] = r
           /\ \A k \in DOMAIN rs : Append(rs, r)[k] = rs[k]
<1>1. PICK t : t = Append(rs, r)
  OBVIOUS
<1>2. Len(rs) \in Nat /\ DOMAIN rs = 1 .. Len(rs) /\ rs \in Seq(S \cup {r}) /\ r \in S \cup {r}
  OBVIOUS
<1>3. /\ t \in Seq(S \cup {r}) /\ Len(t) = Len(rs) + 1 /\ DOMAIN t = 1 .. Len(rs) + 1
      /\ t[Len(rs) + 1] = r /\ \A k \in DOMAIN rs : t[k] = rs[k]
  BY <1>1, <1>2
<1>4. RunsOk(t)
  <2>1. ASSUME NEW k \in DOMAIN t PROVE IsRun(t[k]) /\ (k < Len(t) => Over(t[k]))
    <3>1. CASE k = Len(rs) + 1
      BY <1>2, <1>3, <3>1
    <3>2. CASE k \in DOMAIN rs
      BY <1>3, <3>2
    <3> QED BY <1>2, <1>3, <3>1, <3>2
  <2> QED BY <1>3, <2>1 DEF RunsOk
<1> QED BY <1>1, <1>3, <1>4

\* A run becomes another one of its kind; only the last may go on.
LEMMA ChangeRun ==
    ASSUME RunsOk(reqs), NEW k \in DOMAIN reqs, NEW r, IsRun(r), k < Len(reqs) => Over(r),
           reqs' = [reqs EXCEPT ![k] = r]
    PROVE  /\ RunsOk(reqs') /\ Len(reqs') = Len(reqs) /\ DOMAIN reqs' = DOMAIN reqs
           /\ reqs'[k] = r /\ \A j \in DOMAIN reqs : j # k => reqs'[j] = reqs[j]
<1>1. PICK S : reqs \in Seq(S)
  BY DEF RunsOk
<1>2. /\ reqs' = [i \in DOMAIN reqs |-> reqs'[i]] /\ reqs'[k] = r
      /\ \A j \in DOMAIN reqs : j # k => reqs'[j] = reqs[j]
  OBVIOUS
<1>3. (\E R : reqs' \in Seq(R)) /\ Len(reqs') = Len(reqs) /\ DOMAIN reqs' = DOMAIN reqs
  BY <1>1, <1>2, IsSequence
<1>4. ASSUME NEW j \in DOMAIN reqs' PROVE IsRun(reqs'[j]) /\ (j < Len(reqs') => Over(reqs'[j]))
  BY <1>2, <1>3 DEF RunsOk
<1>5. RunsOk(reqs')
  BY <1>3, <1>4 DEF RunsOk
<1> QED BY <1>2, <1>3, <1>5

-----------------------------------------------------------------------------
(* What a step may do to the runs and the view. *)

\* A reset, a refusal, an edit that drops the result.
LEMMA ClearedCore ==
    ASSUME Core(view, reqs), UNCHANGED reqs, DOMAIN view' = ViewFields,
           view'.loading \in {view.loading, FALSE}, view'.result \in {0, view.result}
    PROVE  Core(view, reqs)'
BY DEF Core, ViewOk

\* A new run, after the abort of those before.
LEMMA LaunchedCore ==
    ASSUME Core(view, reqs), NEW r, IsRun(r), r.phase # "done",
           reqs' = Append(AbortAll(reqs), r),
           DOMAIN view' = ViewFields, view'.loading \in BOOLEAN,
           view'.result \in {0, Len(reqs) + 1}
    PROVE  Core(view, reqs)' /\ Len(reqs') = Len(reqs) + 1
<1>1. RunsOk(reqs)
  BY DEF Core
<1>2. PICK a : a = AbortAll(reqs)
  OBVIOUS
<1>3. PICK S : a \in Seq(S)
  BY <1>1, <1>2, AbortAllFacts
<1>4. Len(a) = Len(reqs) /\ \A k \in DOMAIN a : IsRun(a[k]) /\ Over(a[k])
  BY <1>1, <1>2, AbortAllFacts
<1>5. /\ RunsOk(reqs') /\ Len(reqs') = Len(reqs) + 1 /\ DOMAIN reqs' = 1 .. Len(reqs) + 1
      /\ reqs'[Len(reqs) + 1] = r
  BY <1>2, <1>3, <1>4, AppendRun
<1>6. Len(reqs) + 1 \in DOMAIN reqs'
  BY <1>1, <1>5, Range1
<1>7. ViewOk(view', reqs')
  BY <1>5, <1>6 DEF ViewOk
<1> QED BY <1>5, <1>7 DEF Core

\* The reset that aborts.
LEMMA AbortedCore ==
    ASSUME Core(view, reqs), reqs' = AbortAll(reqs), view' = NoView
    PROVE  Core(view, reqs)' /\ Len(reqs') = Len(reqs)
<1>1. RunsOk(reqs)
  BY DEF Core
<1>2. PICK a : a = AbortAll(reqs)
  OBVIOUS
<1>3. /\ \E S : a \in Seq(S)
      /\ Len(a) = Len(reqs) /\ DOMAIN a = DOMAIN reqs
      /\ \A k \in DOMAIN a : IsRun(a[k]) /\ Over(a[k])
  BY <1>1, <1>2, AbortAllFacts
<1>4. RunsOk(a)
  BY <1>3 DEF RunsOk
<1>5. ViewOk(NoView, a)
  BY DEF ViewOk, NoView, ViewFields
<1> QED BY <1>2, <1>3, <1>4, <1>5 DEF Core

\* One run goes on or ends.
LEMMA ChangedCore ==
    ASSUME Core(view, reqs), NEW k \in DOMAIN reqs, NEW r, IsRun(r), k < Len(reqs) => Over(r),
           reqs' = [reqs EXCEPT ![k] = r],
           DOMAIN view' = ViewFields, view'.loading \in BOOLEAN,
           view'.loading => r.phase # "done",
           view'.result \in {0, view.result} \/ (view'.result = k /\ k = Len(reqs))
    PROVE  /\ Core(view, reqs)' /\ Len(reqs') = Len(reqs) /\ DOMAIN reqs' = DOMAIN reqs
           /\ reqs'[k] = r /\ \A j \in DOMAIN reqs : j # k => reqs'[j] = reqs[j]
<1>1. RunsOk(reqs)
  BY DEF Core
<1>2. /\ RunsOk(reqs') /\ Len(reqs') = Len(reqs) /\ DOMAIN reqs' = DOMAIN reqs
      /\ reqs'[k] = r /\ \A j \in DOMAIN reqs : j # k => reqs'[j] = reqs[j]
  BY <1>1, ChangeRun
<1>3. view.result # 0 => view.result = Len(reqs)
  BY Zenon DEF Core, ViewOk
<1>4. view'.loading => \E j \in DOMAIN reqs' : reqs'[j].phase # "done"
  BY <1>2
<1>5. view'.result # 0 => view'.result = Len(reqs')
  BY <1>2, <1>3
<1>6. ViewOk(view', reqs')
  BY <1>4, <1>5, Zenon DEF ViewOk
<1> QED BY <1>2, <1>6 DEF Core

\* A run that is sent is the last one, and so is one that is not aborted.
LEMMA LastRun ==
    ASSUME Core(view, reqs), NEW k \in DOMAIN reqs,
           reqs[k].phase = "sent" \/ (reqs[k].phase # "done" /\ ~reqs[k].aborted)
    PROVE  k = Len(reqs)
<1>1. ~Over(reqs[k])
  BY DEF Over
<1> QED BY <1>1, Range1 DEF Core, RunsOk

LEMMA ShownFields ==
    ASSUME Core(view, reqs), NEW k, NEW data, NEW v, v \in {Shown(k, data), Failed}
    PROVE  DOMAIN v = ViewFields /\ v.result \in {view.result, k} /\ v.data \in {view.data, data}
BY DEF Core, ViewOk, ViewFields, Shown, Failed

LEMMA SettlesCore ==
    ASSUME Core(view, reqs), NEW k \in DOMAIN reqs, NEW v, Settles(k, v),
           DOMAIN v = ViewFields, v.result \in {view.result, k}
    PROVE  /\ Core(view, reqs)' /\ Len(reqs') = Len(reqs) /\ DOMAIN reqs' = DOMAIN reqs
           /\ k = Len(reqs) /\ reqs'[k].phase = "done" /\ UNCHANGED page
           /\ \A j \in DOMAIN reqs : j # k => reqs'[j] = reqs[j]
           /\ view'.data = v.data
<1> DEFINE r == [reqs[k] EXCEPT !.phase = "done"]
<1>1. IsRun(reqs[k]) /\ reqs[k].phase = "sent" /\ UNCHANGED page
  BY DEF Core, RunsOk, Settles
<1>2. IsRun(r) /\ Over(r) /\ r.phase = "done"
  BY <1>1 DEF IsRun, Over, Phases
<1>3. reqs' = [reqs EXCEPT ![k] = r] /\ view' = [v EXCEPT !.loading = FALSE]
  BY DEF Settles
<1>4. k = Len(reqs)
  BY <1>1, LastRun
<1> HIDE DEF r
<1>5. /\ DOMAIN view' = ViewFields /\ view'.loading = FALSE /\ view'.result = v.result
      /\ view'.data = v.data
  BY <1>3 DEF ViewFields
<1>6. view'.result \in {0, view.result} \/ (view'.result = k /\ k = Len(reqs))
  BY <1>4, <1>5
<1>7. /\ Core(view, reqs)' /\ Len(reqs') = Len(reqs) /\ DOMAIN reqs' = DOMAIN reqs
      /\ reqs'[k] = r /\ \A j \in DOMAIN reqs : j # k => reqs'[j] = reqs[j]
  BY <1>2, <1>3, <1>4, <1>5, <1>6, ChangedCore
<1> QED BY <1>1, <1>2, <1>4, <1>5, <1>7

\* fetchWithRetry after a 502.
LEMMA RetryCore ==
    ASSUME Core(view, reqs), NEW k \in DOMAIN reqs, RetryLater(k) \/ RetryFires(k)
    PROVE  Core(view, reqs)' /\ Len(reqs') = Len(reqs) /\ view'.data = view.data
<1>1. IsRun(reqs[k]) /\ DOMAIN view = ViewFields /\ view.loading \in BOOLEAN
  BY DEF Core, RunsOk, ViewOk
<1>2. CASE RetryLater(k)
  <2> DEFINE q == [reqs[k] EXCEPT !.phase = "waiting"]
             r == [q EXCEPT !.retried = TRUE]
  <2>1. IsRun(r) /\ r.phase = "waiting"
    BY <1>1 DEF IsRun, Phases
  <2>2. k = Len(reqs)
    BY <1>2, LastRun DEF RetryLater
  <2>3. reqs' = [reqs EXCEPT ![k] = r] /\ view' = view
    BY <1>2 DEF RetryLater
  <2> HIDE DEF r
  <2>5. (k < Len(reqs) => Over(r)) /\ (view'.loading => r.phase # "done")
    BY <2>1, <2>2, <2>3, Range1 DEF Core
  <2>6. DOMAIN view' = ViewFields /\ view'.loading \in BOOLEAN /\ view'.result \in {0, view.result}
    BY <1>1, <2>3
  <2>4. Core(view, reqs)' /\ Len(reqs') = Len(reqs)
    BY <1>1, <2>1, <2>2, <2>3, <2>5, <2>6, ChangedCore, Zenon
  <2> QED BY <2>3, <2>4
<1>3. CASE RetryFires(k) /\ reqs[k].aborted
  <2> DEFINE r == [reqs[k] EXCEPT !.phase = "done"]
  <2>1. IsRun(r) /\ r.phase = "done" /\ Over(r)
    BY <1>1 DEF IsRun, Phases, Over
  <2>2. reqs' = [reqs EXCEPT ![k] = r] /\ view' = [view EXCEPT !.loading = FALSE]
    BY <1>3 DEF RetryFires
  <2> HIDE DEF r
  <2>3. /\ DOMAIN view' = ViewFields /\ view'.loading = FALSE
        /\ view'.result = view.result /\ view'.data = view.data
    BY <1>1, <2>2 DEF ViewFields
  <2>4. Core(view, reqs)' /\ Len(reqs') = Len(reqs)
    BY <2>1, <2>2, <2>3, ChangedCore
  <2> QED BY <2>3, <2>4
<1>4. CASE RetryFires(k) /\ ~reqs[k].aborted
  <2> DEFINE r == [reqs[k] EXCEPT !.phase = "sent"]
  <2>1. IsRun(r) /\ r.phase = "sent"
    BY <1>1 DEF IsRun, Phases
  <2>2. reqs' = [reqs EXCEPT ![k] = r] /\ view' = view
    BY <1>4 DEF RetryFires
  <2>3. k = Len(reqs)
    BY <1>4, LastRun DEF RetryFires
  <2> HIDE DEF r
  <2>5. (k < Len(reqs) => Over(r)) /\ (view'.loading => r.phase # "done")
    BY <2>1, <2>2, <2>3, Range1 DEF Core
  <2>6. DOMAIN view' = ViewFields /\ view'.loading \in BOOLEAN /\ view'.result \in {0, view.result}
    BY <1>1, <2>2
  <2>4. Core(view, reqs)' /\ Len(reqs') = Len(reqs)
    BY <1>1, <2>1, <2>2, <2>3, <2>5, <2>6, ChangedCore, Zenon
  <2> QED BY <2>2, <2>4
<1> QED BY <1>2, <1>3, <1>4

-----------------------------------------------------------------------------
(* The pages whose handler aborts the run before. *)

\* Nothing of the runs and of what is shown changes.
Calm(p) == page = p /\ UNCHANGED <<page, view, reqs>>

LEMMA CalmCore ==
    ASSUME Core(view, reqs), NEW p, Calm(p)
    PROVE  Core(view, reqs)' /\ page = p /\ page' = p
BY DEF Calm

LEMMA RunFields == \A f : IsRun(Run(f)) /\ Run(f).phase = "sent"
BY DEF IsRun, Run, Phases

LEMMA LaunchCore ==
    ASSUME Core(view, reqs), NEW f, Launch(f)
    PROVE  Core(view, reqs)'
<1>1. reqs' = Append(AbortAll(reqs), Run(f)) /\ view' = [NoView EXCEPT !.loading = ~Interrupts]
  BY DEF Launch
<1>2. DOMAIN view' = ViewFields /\ view'.loading \in BOOLEAN /\ view'.result = 0
  BY <1>1 DEF NoView, ViewFields, Interrupts
<1>3. PICK r : r = Run(f)
  OBVIOUS
<1>4. IsRun(r) /\ r.phase # "done"
  BY <1>3, RunFields
<1> QED BY <1>1, <1>2, <1>3, <1>4, LaunchedCore

LEMMA RefuseCore ==
    ASSUME Core(view, reqs), Refuse
    PROVE  Core(view, reqs)'
<1>1. DOMAIN view = ViewFields
  BY DEF Core, ViewOk
<1>2. DOMAIN view' = ViewFields /\ view'.loading = view.loading /\ view'.result = view.result
  BY <1>1 DEF Refuse, ViewFields
<1> QED BY <1>2, ClearedCore DEF Refuse

\* A reset that does not abort.
LEMMA ResetCore ==
    ASSUME Core(view, reqs), view' = [NoView EXCEPT !.loading = view.loading], UNCHANGED reqs
    PROVE  Core(view, reqs)'
<1>1. DOMAIN view' = ViewFields /\ view'.loading = view.loading /\ view'.result = 0
  BY DEF NoView, ViewFields
<1> QED BY <1>1, ClearedCore

\* A run's answer is shown, or its error.
LEMMA EndCore ==
    ASSUME Core(view, reqs), NEW k \in DOMAIN reqs, NEW data,
           Settles(k, Shown(k, data)) \/ Settles(k, Failed)
    PROVE  Core(view, reqs)' /\ UNCHANGED page
<1>1. PICK v : v \in {Shown(k, data), Failed} /\ Settles(k, v)
  OBVIOUS
<1>2. DOMAIN v = ViewFields /\ v.result \in {view.result, k}
  BY <1>1, ShownFields
<1> QED BY <1>1, <1>2, SettlesCore

LEMMA NerNextInv ==
    ASSUME Core(view, reqs), NerNext
    PROVE  Core(view, reqs)' /\ page = "ner" /\ page' = "ner"
<1>1. ASSUME NEW click \in BOOLEAN, HandleRecognize(click)
      PROVE  Core(view, reqs)' /\ page = "ner" /\ page' = "ner"
  BY <1>1, LaunchCore, RefuseCore DEF HandleRecognize, User, StartRun
<1>2. CASE NerReset
  BY <1>2, ResetCore DEF NerReset, User
<1>3. ASSUME NEW k \in DOMAIN reqs, NerSettles(k)
      PROVE  Core(view, reqs)' /\ page = "ner" /\ page' = "ner"
  BY <1>3, EndCore, Zenon DEF NerSettles
<1>4. CASE ~((\E click \in BOOLEAN : HandleRecognize(click)) \/ NerReset
                \/ \E k \in DOMAIN reqs : NerSettles(k))
  <2>1. Calm("ner")
    BY <1>4, Zenon DEF NerNext, NerModels, ModelsArrive, NerSetMode, NerSetText, NerSetModel,
                       NerSetThreshold, NerAddLabel, NerRemoveLabel, NerSetSchema, NerToggle,
                       NerLoadSample, User, OnlyForm, Calm
  <2> QED BY <2>1, CalmCore
<1> QED BY <1>1, <1>2, <1>3, <1>4

LEMMA RerankNextInv ==
    ASSUME Core(view, reqs), RerankNext
    PROVE  Core(view, reqs)' /\ page = "rerank" /\ page' = "rerank"
<1> DEFINE G == Core(view, reqs)' /\ page = "rerank" /\ page' = "rerank"
<1>1. ASSUME NEW click \in BOOLEAN, HandleRerank(click) PROVE G
  BY <1>1, LaunchCore, RefuseCore DEF HandleRerank, User, StartRun
<1>2. CASE RerankReset
  BY <1>2, ResetCore DEF RerankReset, User
<1>3. ASSUME NEW k \in DOMAIN reqs, RerankSettles(k) PROVE G
  BY <1>3, EndCore, Zenon DEF RerankSettles
<1>4. ASSUME NEW f, RerankSetDocs(f) PROVE Core(view, reqs)'
  <2>1. DOMAIN view = ViewFields
    BY DEF Core, ViewOk
  <2>2. /\ DOMAIN view' = ViewFields /\ view'.loading = view.loading /\ view'.result = 0
        /\ UNCHANGED reqs
    BY <1>4, <2>1 DEF RerankSetDocs, ViewFields
  <2> QED BY <2>2, ClearedCore
<1>5. CASE \/ RerankAddDocument
           \/ \E i \in DOMAIN form.docs :
                 RerankRemoveDocument(i) \/ \E t \in Inputs : RerankUpdateDocument(i, t)
  <2>1. page = "rerank" /\ page' = page /\ \E f : RerankSetDocs(f)
    BY <1>5, Zenon DEF RerankAddDocument, RerankRemoveDocument, RerankUpdateDocument, User
  <2> QED BY <1>4, <2>1
<1>6. CASE \/ \E ms \in ModelLists : RerankModels(ms)
           \/ \E q \in Inputs : RerankSetQuery(q)
           \/ \E m \in AllModels : RerankSetModel(m)
           \/ \E t \in Texts : RerankLoadSample(t, <<t, t>>)
  <2>1. Calm("rerank")
    BY <1>6, Zenon DEF RerankModels, ModelsArrive, RerankSetQuery, RerankSetModel,
                       RerankLoadSample, User, OnlyForm, Calm
  <2> QED BY <2>1, CalmCore
<1> QED BY <1>1, <1>2, <1>3, <1>5, <1>6, Zenon DEF RerankNext

LEMMA RewriteNextInv ==
    ASSUME Core(view, reqs), RewriteNext
    PROVE  Core(view, reqs)' /\ page = "rewrite" /\ page' = "rewrite"
<1> DEFINE G == Core(view, reqs)' /\ page = "rewrite" /\ page' = "rewrite"
<1>1. ASSUME NEW click \in BOOLEAN, HandleGenerate(click) PROVE G
  BY <1>1, LaunchCore, RefuseCore DEF HandleGenerate, User, StartRun
<1>2. CASE RewriteReset
  BY <1>2, ResetCore DEF RewriteReset, User
<1>3. ASSUME NEW k \in DOMAIN reqs, RewriteSettles(k) PROVE G
  BY <1>3, EndCore, Zenon DEF RewriteSettles
<1>4. CASE ~((\E click \in BOOLEAN : HandleGenerate(click)) \/ RewriteReset
                \/ \E k \in DOMAIN reqs : RewriteSettles(k))
  <2>1. Calm("rewrite")
    BY <1>4, Zenon DEF RewriteNext, RewriteModels, ModelsArrive, RewriteSetContext,
            RewriteSetAnswer, RewriteSetModel, RewriteLoadSample, OpenAddToEvalSetDialog,
            RewriteChooseSet, RewriteTypeName, RewriteCreateSet, HandleAddToEvalSet,
            RewriteTimer, RewriteCancel, User, OnlyForm, Calm
  <2> QED BY <2>1, CalmCore
<1> QED BY <1>1, <1>2, <1>3, <1>4

LEMMA ChunkNextInv ==
    ASSUME Core(view, reqs), ChunkNext
    PROVE  Core(view, reqs)' /\ page = "chunk" /\ page' = "chunk"
<1> DEFINE G == Core(view, reqs)' /\ page = "chunk" /\ page' = "chunk"
<1>1. ASSUME NEW click \in BOOLEAN, HandleChunk(click) PROVE G
  BY <1>1, LaunchCore, RefuseCore DEF HandleChunk, User, StartRun
<1>2. CASE ChunkReset
  BY <1>2, ResetCore DEF ChunkReset, User
<1>3. ASSUME NEW k \in DOMAIN reqs, ChunkSettles(k) PROVE G
  BY <1>3, EndCore, Zenon DEF ChunkSettles
<1>4. CASE ~((\E click \in BOOLEAN : HandleChunk(click)) \/ ChunkReset
                \/ \E k \in DOMAIN reqs : ChunkSettles(k))
  <2>1. Calm("chunk")
    BY <1>4, Zenon DEF ChunkNext, ChunkModels, ModelsArrive, ChunkSetText, ChunkSetModel,
            ChunkFixedOption, ChunkSemanticOption, ChunkSetMax, User, OnlyForm, Calm
  <2> QED BY <2>1, CalmCore
<1> QED BY <1>1, <1>2, <1>3, <1>4

LEMMA ReadNextInv ==
    ASSUME Core(view, reqs), ReadNext
    PROVE  Core(view, reqs)' /\ page = "read" /\ page' = "read"
<1> DEFINE G == Core(view, reqs)' /\ page = "read" /\ page' = "read"
<1>1. CASE HandleReadImages
  BY <1>1, LaunchCore DEF HandleReadImages, User
<1>2. CASE ReadLoadSample
  BY <1>2, ResetCore DEF ReadLoadSample, User
<1>3. ASSUME NEW k \in DOMAIN reqs, ReadSettles(k) PROVE G
  BY <1>3, EndCore, Zenon DEF ReadSettles
<1>4. CASE ReadReset
  BY <1>4, AbortedCore DEF ReadReset, User
<1>5. CASE ~(HandleReadImages \/ ReadLoadSample \/ ReadReset \/ \E k \in DOMAIN reqs : ReadSettles(k))
  <2>1. Calm("read")
    BY <1>5, Zenon DEF ReadNext, ReadModels, ModelsArrive, ReadSetModel, ReadSetPrompt,
            ImageDecoded, ReadSelect, RemoveImage, ReadSetTab, ReadDrop, HandleCopy, CopyTimer,
            User, OnlyForm, Calm
  <2> QED BY <2>1, CalmCore
<1> QED BY <1>1, <1>2, <1>3, <1>4, <1>5

LEMMA KGNextInv ==
    ASSUME Core(view, reqs), KGNext
    PROVE  Core(view, reqs)' /\ page = "kg" /\ page' = "kg"
<1> DEFINE G == Core(view, reqs)' /\ page = "kg" /\ page' = "kg"
<1>1. ASSUME NEW click \in BOOLEAN, HandleBuildGraph(click) PROVE G
  BY <1>1, LaunchCore, RefuseCore DEF HandleBuildGraph, User
<1>2. CASE KGReset
  BY <1>2, ResetCore DEF KGReset, User
<1>3. ASSUME NEW k \in DOMAIN reqs, KGSettles(k) PROVE G
  BY <1>3, EndCore, Zenon DEF KGSettles
<1>4. CASE ~((\E click \in BOOLEAN : HandleBuildGraph(click)) \/ KGReset
                \/ \E k \in DOMAIN reqs : KGSettles(k))
  <2>1. Calm("kg")
    BY <1>4, Zenon DEF KGNext, KGModels, ModelsArrive, KGSetText, KGSetModel, KGSetSimilarity,
            KGAddLabel, KGRemoveLabel, KGToggle, KGSelectNode, KGSelectEdge, User, OnlyForm, Calm
  <2> QED BY <2>1, CalmCore
<1> QED BY <1>1, <1>2, <1>3, <1>4

-----------------------------------------------------------------------------
(* The pages whose handler does not abort: one run at a time. *)

\* A run is started when none is open.
LEMMA OneMore ==
    ASSUME Core(view, reqs), NEW p, OneRun(view, reqs, p), ~view.loading, p # "done",
           NEW r, IsRun(r), r.phase = p, reqs' = Append(reqs, r),
           view' = [NoView EXCEPT !.loading = TRUE]
    PROVE  Core(view, reqs)' /\ OneRun(view', reqs', p)
<1>1. \A k \in DOMAIN reqs : reqs[k].phase = "done" /\ IsRun(reqs[k]) /\ Over(reqs[k])
  BY DEF OneRun, Over, Core, RunsOk
<1>2. PICK S : reqs \in Seq(S)
  BY DEF Core, RunsOk
<1>3. /\ RunsOk(reqs') /\ Len(reqs') = Len(reqs) + 1 /\ DOMAIN reqs' = 1 .. Len(reqs) + 1
      /\ reqs'[Len(reqs) + 1] = r /\ \A k \in DOMAIN reqs : reqs'[k] = reqs[k]
  BY <1>1, <1>2, AppendRun
<1>4. Len(reqs) \in Nat /\ DOMAIN reqs = 1 .. Len(reqs)
  BY Range1 DEF Core
<1>5. DOMAIN view' = ViewFields /\ view'.loading = TRUE /\ view'.result = 0
  BY DEF NoView, ViewFields
<1>6. \E k \in DOMAIN reqs' : reqs'[k].phase # "done"
  BY <1>3, <1>4
<1>7. ViewOk(view', reqs')
  BY <1>5, <1>6 DEF ViewOk
<1>8. OneRun(view', reqs', p)
  BY <1>1, <1>3, <1>4, <1>5 DEF OneRun
<1> QED BY <1>3, <1>7, <1>8 DEF Core

LEMMA EmbedNextInv ==
    ASSUME Core(view, reqs), OneRun(view, reqs, "sent"), EmbedNext
    PROVE  Core(view, reqs)' /\ OneRun(view, reqs, "sent")' /\ page = "embed" /\ page' = "embed"
<1> DEFINE G == /\ Core(view, reqs)' /\ OneRun(view, reqs, "sent")'
                /\ page = "embed" /\ page' = "embed"
<1>1. CASE HandleEmbed
  <2>1. /\ page = "embed" /\ page' = "embed" /\ ~view.loading
        /\ reqs' = Append(reqs, Run(form)) /\ view' = [NoView EXCEPT !.loading = TRUE]
    BY <1>1 DEF HandleEmbed, EmbedButton, User
  <2>2. PICK r : r = Run(form)
    OBVIOUS
  <2>3. IsRun(r) /\ r.phase = "sent"
    BY <2>2, RunFields
  <2> QED BY <2>1, <2>2, <2>3, OneMore
<1>2. CASE EmbedReset
  <2>1. view' = [NoView EXCEPT !.loading = view.loading] /\ UNCHANGED reqs
    BY <1>2 DEF EmbedReset
  <2>2. view'.loading = view.loading
    BY <2>1 DEF NoView
  <2> QED BY <1>2, <2>1, <2>2, ResetCore DEF EmbedReset, User, OneRun
<1>3. ASSUME NEW k \in DOMAIN reqs, EmbedSettles(k) PROVE G
  <2>1. page = "embed" /\ \E data : Settles(k, Shown(k, data)) \/ Settles(k, Failed)
    BY <1>3, Zenon DEF EmbedSettles
  <2>2. PICK data, v : v \in {Shown(k, data), Failed} /\ Settles(k, v)
    BY <2>1
  <2>3. DOMAIN v = ViewFields /\ v.result \in {view.result, k}
    BY <2>2, ShownFields
  <2>4. /\ Core(view, reqs)' /\ DOMAIN reqs' = DOMAIN reqs /\ page' = page
        /\ k = Len(reqs) /\ reqs'[k].phase = "done"
        /\ \A j \in DOMAIN reqs : j # k => reqs'[j] = reqs[j]
    BY <2>2, <2>3, SettlesCore
  <2>5. \A j \in DOMAIN reqs' : reqs'[j].phase = "done"
    BY <2>4 DEF OneRun
  <2> QED BY <2>1, <2>4, <2>5 DEF OneRun
<1>4. CASE ~(HandleEmbed \/ EmbedReset \/ \E k \in DOMAIN reqs : EmbedSettles(k))
  <2>1. Calm("embed")
    BY <1>4, Zenon DEF EmbedNext, EmbedModels, ModelsArrive, EmbedSetQuery, EmbedSetModel,
            EmbedAddDocument, EmbedSpark, EmbedRemoveDocument, EmbedUpdateDocument,
            EmbedLoadSample, User, OnlyForm, Calm
  <2> QED BY <2>1, CalmCore DEF Calm, OneRun
<1> QED BY <1>1, <1>2, <1>3, <1>4

\* The run that is open ends.
LEMMA OneLess ==
    ASSUME Core(view, reqs), NEW p, OneRun(view, reqs, p), NEW k \in DOMAIN reqs,
           reqs[k].phase = p, p # "done", reqs' = [reqs EXCEPT ![k].phase = "done"],
           DOMAIN view' = ViewFields, view'.loading = FALSE, view'.result \in {view.result, k}
    PROVE  Core(view, reqs)' /\ OneRun(view', reqs', p)
<1> DEFINE r == [reqs[k] EXCEPT !.phase = "done"]
<1>1. IsRun(reqs[k]) /\ k = Len(reqs)
  BY DEF Core, RunsOk, OneRun
<1>2. IsRun(r) /\ Over(r) /\ r.phase = "done"
  BY <1>1 DEF IsRun, Over, Phases
<1>3. reqs' = [reqs EXCEPT ![k] = r]
  OBVIOUS
<1> HIDE DEF r
<1>4. view'.result \in {0, view.result} \/ (view'.result = k /\ k = Len(reqs))
  BY <1>1
<1>5. /\ Core(view, reqs)' /\ Len(reqs') = Len(reqs) /\ DOMAIN reqs' = DOMAIN reqs
      /\ reqs'[k] = r /\ \A j \in DOMAIN reqs : j # k => reqs'[j] = reqs[j]
  BY <1>2, <1>3, <1>4, ChangedCore
<1>6. \A j \in DOMAIN reqs' : reqs'[j].phase = "done"
  BY <1>1, <1>2, <1>5 DEF OneRun
<1> QED BY <1>5, <1>6 DEF OneRun

LEMMA ModelsNextInv ==
    ASSUME Core(view, reqs), OneRun(view, reqs, "held"), ModelsNext
    PROVE  Core(view, reqs)' /\ OneRun(view, reqs, "held")' /\ page = "models" /\ page' = "models"
<1> DEFINE G == /\ Core(view, reqs)' /\ OneRun(view, reqs, "held")'
                /\ page = "models" /\ page' = "models"
<1>1. DOMAIN view = ViewFields
  BY DEF Core, ViewOk
<1>2. ASSUME NEW k \in DOMAIN reqs, NEW ms, RegistryArrives(k, ms) PROVE G
  <2>1. /\ page = "models" /\ page' = page /\ reqs[k].phase = "held"
        /\ reqs' = [reqs EXCEPT ![k].phase = "done"]
        /\ view' = [view EXCEPT !.loading = FALSE, !.result = k]
    BY <1>2 DEF RegistryArrives
  <2>2. DOMAIN view' = ViewFields /\ view'.loading = FALSE /\ view'.result = k
    BY <1>1, <2>1 DEF ViewFields
  <2> QED BY <2>1, <2>2, OneLess
<1>3. ASSUME NEW k \in DOMAIN reqs, RegistryFails(k) PROVE G
  <2>1. /\ page = "models" /\ page' = page /\ reqs[k].phase = "held"
        /\ reqs' = [reqs EXCEPT ![k].phase = "done"]
        /\ view' = [view EXCEPT !.loading = FALSE, !.error = TRUE]
    BY <1>3 DEF RegistryFails
  <2>2. DOMAIN view' = ViewFields /\ view'.loading = FALSE /\ view'.result = view.result
    BY <1>1, <2>1 DEF ViewFields
  <2> QED BY <2>1, <2>2, OneLess
<1>4. CASE RetryRegistry
  <2>1. /\ page = "models" /\ page' = page /\ ~view.loading
        /\ view' = [NoView EXCEPT !.loading = TRUE]
        /\ reqs' = Append(reqs, [Run("registry") EXCEPT !.phase = "held"])
    BY <1>4 DEF RetryRegistry, FetchRegistry, User
  <2>2. PICK r : r = [Run("registry") EXCEPT !.phase = "held"]
    OBVIOUS
  <2>3. IsRun(r) /\ r.phase = "held"
    BY <2>2 DEF Run, IsRun, Phases
  <2> QED BY <2>1, <2>2, <2>3, OneMore
<1>5. CASE ~(RetryRegistry \/ \E k \in DOMAIN reqs :
                RegistryFails(k) \/ \E ms \in Registries : RegistryArrives(k, ms))
  <2>1. Calm("models")
    BY <1>5, Zenon DEF ModelsNext, DownloadsChecked, StatsArrive, StatsFail, ModelsSetQuery,
            ModelsSetType, ClearFilters, HandleModelClick, CloseSheet, ToggleAllVariants,
            HandleCopyCommand, CommandCopiedTimer, SelectPreset, ChooseVariant, Directory,
            Browse, User, Calm
  <2> QED BY <2>1, CalmCore DEF Calm, OneRun
<1> QED BY <1>2, <1>3, <1>4, <1>5

-----------------------------------------------------------------------------
(* The page of the microphone. *)

\* The fields of the microphone stay.
MicSame(f) == MicFields \subseteq DOMAIN f /\ \A x \in MicFields : f[x] = form[x]

LEMMA MicKept ==
    ASSUME Mic(form), NEW f, MicSame(f)
    PROVE  Mic(f)
BY DEF Mic, MicSame, MicFields

\* Only other fields of the form change.
LEMMA QuietInv ==
    ASSUME Transcribing, MicSame(form'), UNCHANGED <<view, reqs>>
    PROVE  Transcribing'
BY MicKept DEF Transcribing

LEMMA FormInv ==
    ASSUME Transcribing, page = "transcribe",
           \/ \E ms \in ModelLists : TranscribeModels(ms)
           \/ \E m \in AllModels : TranscribeSetModel(m)
           \/ \E m \in {"mic", "file"} : TranscribeSetMode(m)
           \/ \E t \in Inputs : TranscribeSetLanguage(t)
           \/ \E f \in {"vad", "cleanup"} : TranscribeToggle(f)
           \/ \E v \in {0, 11} : TranscribeSetVad(v)
           \/ RemoveAudio \/ MetadataLoaded \/ AudioCaptured
           \/ TranscribeCopy \/ TranscribeCopyTimer
           \/ \E id \in form.reading : AudioFileRead(id)
           \/ \E id \in form.encoding : RecordingEncoded(id)
    PROVE  Transcribing' /\ page' = "transcribe"
<1> DEFINE G == MicSame(form') /\ UNCHANGED <<page, view, reqs>>
<1> USE DEF MicSame, MicFields, SetForm, OnlyForm, User
<1>0. MicFields \subseteq DOMAIN form
  BY DEF Transcribing, Mic
<1>1. ASSUME NEW ms \in ModelLists, TranscribeModels(ms) PROVE G
  BY <1>0, <1>1 DEF TranscribeModels, ModelsArrive
<1>2. ASSUME NEW m \in AllModels, TranscribeSetModel(m) PROVE G
  BY <1>0, <1>2 DEF TranscribeSetModel
<1>3. ASSUME NEW m \in {"mic", "file"}, TranscribeSetMode(m) PROVE G
  BY <1>0, <1>3 DEF TranscribeSetMode
<1>4. ASSUME NEW t \in Inputs, TranscribeSetLanguage(t) PROVE G
  BY <1>0, <1>4 DEF TranscribeSetLanguage
<1>5. ASSUME NEW f \in {"vad", "cleanup"}, TranscribeToggle(f) PROVE G
  BY <1>0, <1>5 DEF TranscribeToggle
<1>6. ASSUME NEW v \in {0, 11}, TranscribeSetVad(v) PROVE G
  BY <1>0, <1>6 DEF TranscribeSetVad
<1>7. ASSUME RemoveAudio PROVE G
  BY <1>0, <1>7 DEF RemoveAudio
<1>8. ASSUME MetadataLoaded PROVE G
  BY <1>0, <1>8 DEF MetadataLoaded
<1>9. ASSUME AudioCaptured PROVE G
  BY <1>0, <1>9 DEF AudioCaptured
<1>10. ASSUME TranscribeCopy PROVE G
  BY <1>0, <1>10 DEF TranscribeCopy
<1>11. ASSUME TranscribeCopyTimer PROVE G
  BY <1>0, <1>11 DEF TranscribeCopyTimer
<1>12. ASSUME NEW id, AudioFileRead(id) PROVE G
  BY <1>0, <1>12 DEF AudioFileRead
<1>13. ASSUME NEW id, RecordingEncoded(id) PROVE G
  BY <1>0, <1>13 DEF RecordingEncoded
<1>14. G
  BY <1>1, <1>2, <1>3, <1>4, <1>5, <1>6, <1>7, <1>8, <1>9, <1>10, <1>11, <1>12, <1>13, Zenon
<1> QED BY <1>14, QuietInv

\* The view is cleared, or an error is shown.
LEMMA ViewInv ==
    ASSUME Transcribing, UNCHANGED reqs, Mic(form)', DOMAIN view' = ViewFields,
           view'.loading = view.loading, view'.result \in {0, view.result},
           view'.data \in {<<>>, view.data}
    PROVE  Transcribing'
<1>1. Core(view, reqs)'
  BY ClearedCore DEF Transcribing
<1>2. Segments(view.data, Len(reqs))'
  BY DEF Segments, Transcribing
<1> QED BY <1>1, <1>2 DEF Transcribing

\* getUserMedia, and the end of a recording.
LEMMA MicrophoneInv ==
    ASSUME Transcribing, page = "transcribe",
           StartRecording \/ MicrophoneGranted \/ MicrophoneDenied \/ StopRecording
               \/ ProcessAudioFile
    PROVE  Transcribing' /\ page' = "transcribe"
<1> USE DEF SetForm, OnlyForm, User
<1>0. Mic(form) /\ MicFields \subseteq DOMAIN form /\ DOMAIN view = ViewFields
  BY DEF Transcribing, Mic, Core, ViewOk
<1>1. CASE StartRecording
  <2>1. /\ form'.asked = form.asked + 1
        /\ form'.overlapped = (form.overlapped \/ form.asked > 0 \/ form.live # {})
        /\ form'.recording = form.recording /\ ~form.recording
        /\ form'.live = form.live /\ form'.stream = form.stream
        /\ MicFields \subseteq DOMAIN form'
        /\ UNCHANGED <<page, view, reqs>>
    BY <1>0, <1>1 DEF StartRecording, MicFields
  <2>2. /\ form'.overlapped \in BOOLEAN
        /\ ~form'.overlapped => ~form.overlapped /\ ~(form.asked > 0) /\ form.live = {}
    BY <2>1, Zenon
  <2>3. ~form'.overlapped => form'.live = {} /\ form'.asked = 1
    BY <1>0, <2>1, <2>2 DEF Mic
  <2>4. Mic(form')
    BY <1>0, <2>1, <2>2, <2>3 DEF Mic
  <2> QED BY <2>1, <2>4 DEF Transcribing
<1>2. CASE MicrophoneGranted
  <2>1. /\ form'.asked = form.asked - 1 /\ form'.overlapped = form.overlapped
        /\ form'.recording = TRUE /\ form'.live = form.live \cup {form.nextStream}
        /\ form'.stream = form.nextStream /\ MicFields \subseteq DOMAIN form' /\ form.asked > 0
    BY <1>0, <1>2 DEF MicrophoneGranted, MicFields
  <2>2. ~form.overlapped => ~form.recording /\ form.live = {} /\ form.asked = 1
    BY <1>0, <2>1 DEF Mic
  <2>3. ~form.overlapped => form'.live = {form'.stream} /\ form'.asked = 0
    BY <2>1, <2>2
  <2>4. Mic(form')
    BY <1>0, <2>1, <2>3 DEF Mic
  <2>5. /\ view'.loading = view.loading /\ view'.result = 0 /\ view'.data = <<>>
        /\ DOMAIN view' = ViewFields
        /\ UNCHANGED <<page, reqs>>
    BY <1>0, <1>2 DEF MicrophoneGranted, ViewFields
  <2> QED BY <2>4, <2>5, ViewInv
<1>3. CASE MicrophoneDenied
  <2>1. /\ form'.asked = form.asked - 1 /\ form'.overlapped = form.overlapped
        /\ form'.recording = form.recording /\ form'.live = form.live
        /\ form'.stream = form.stream /\ MicFields \subseteq DOMAIN form' /\ form.asked > 0
    BY <1>0, <1>3 DEF MicrophoneDenied, MicFields
  <2>2. ~form.overlapped => ~form.recording /\ form.live = {} /\ form.asked = 1
    BY <1>0, <2>1 DEF Mic
  <2>3. ~form.overlapped => form'.live = {} /\ form'.asked = 0
    BY <2>1, <2>2
  <2>4. Mic(form')
    BY <1>0, <2>1, <2>2, <2>3 DEF Mic
  <2>5. /\ view'.loading = view.loading /\ view'.result = view.result /\ view'.data = view.data
        /\ DOMAIN view' = ViewFields
        /\ UNCHANGED <<page, reqs>>
    BY <1>0, <1>3 DEF MicrophoneDenied, ViewFields
  <2> QED BY <2>4, <2>5, ViewInv
<1>4. CASE StopRecording
  <2> DEFINE f == [CleanupRecording(form) EXCEPT !.recording = FALSE, !.captured = FALSE]
  <2>1. /\ f.recording = FALSE /\ f.live = form.live \ {form.stream} /\ f.asked = form.asked
        /\ f.overlapped = form.overlapped /\ f.stream = 0
        /\ MicFields \subseteq DOMAIN f
    BY <1>0 DEF CleanupRecording, MicFields
  <2>2. /\ page' = page /\ form.recording
        /\ \/ /\ form' = [f EXCEPT !.encoding = @ \cup {form.nextFile}, !.nextFile = @ + 1]
              /\ UNCHANGED <<view, reqs>>
           \/ form' = f /\ view' = [view EXCEPT !.error = TRUE] /\ UNCHANGED reqs
    BY <1>4 DEF StopRecording
  <2> HIDE DEF f
  <2>3. /\ form'.recording = FALSE /\ form'.live = form.live \ {form.stream}
        /\ form'.asked = form.asked /\ form'.overlapped = form.overlapped
        /\ MicFields \subseteq DOMAIN form'
    BY <2>1, <2>2 DEF MicFields
  <2>4. Mic(form')
    BY <1>0, <2>2, <2>3 DEF Mic
  <2>5. /\ view'.loading = view.loading /\ view'.result = view.result /\ view'.data = view.data
        /\ DOMAIN view' = ViewFields
        /\ UNCHANGED <<page, reqs>>
    BY <1>0, <2>2 DEF ViewFields
  <2> QED BY <2>4, <2>5, ViewInv
<1>5. CASE ProcessAudioFile
  <2>1. CASE Refuse
    <3>1. /\ view'.loading = view.loading /\ view'.result = view.result /\ view'.data = view.data
          /\ DOMAIN view' = ViewFields
          /\ UNCHANGED <<form, reqs>>
      BY <1>0, <2>1 DEF Refuse, ViewFields
    <3> QED BY <1>0, <1>5, <3>1, ViewInv DEF ProcessAudioFile
  <2>2. CASE OnlyForm([form EXCEPT !.reading = @ \cup {form.nextFile}, !.nextFile = @ + 1])
    <3>1. MicSame(form') /\ UNCHANGED <<view, reqs>>
      BY <1>0, <2>2 DEF MicSame, MicFields
    <3> QED BY <1>5, <3>1, QuietInv DEF ProcessAudioFile
  <2> QED BY <1>5, <2>1, <2>2 DEF ProcessAudioFile
<1> QED BY <1>1, <1>2, <1>3, <1>4, <1>5

\* The segments of a run.
LEMMA SegmentFacts ==
    \A k, status : DOMAIN Segment(k, status) = SegmentFields /\ Segment(k, status).of = k
BY DEF Segment, SegmentFields

LEMMA PendingSegments == \A k : \A n \in Nat : Segments(Pending(k, n), k)
BY SegmentFacts DEF Segments, Pending

LEMMA UpdatedSegments ==
    ASSUME NEW data, NEW k, Segments(data, k), NEW i, NEW status
    PROVE  Segments(UpdateSegment(data, i, k, status), k)
<1>1. CASE i \in DOMAIN data
  <2>1. PICK s : s = [Segment(k, status) EXCEPT !.cleaned = data[i].cleaned]
    OBVIOUS
  <2>2. DOMAIN s = SegmentFields /\ s.of = k
    BY <2>1, SegmentFacts
  <2>3. UpdateSegment(data, i, k, status) = [data EXCEPT ![i] = s]
    BY <1>1, <2>1 DEF UpdateSegment
  <2> QED BY <1>1, <2>2, <2>3 DEF Segments
<1> QED BY <1>1 DEF UpdateSegment

LEMMA TranscribeRunFacts ==
    ASSUME NEW f, NEW stage, NEW phase \in {"sent", "held"}
    PROVE  IsRun(TranscribeRun(f, stage, phase)) /\ TranscribeRun(f, stage, phase).phase = phase
BY DEF TranscribeRun, IsRun, Phases

LEMMA HandleTranscribeInv ==
    ASSUME Transcribing, HandleTranscribe
    PROVE  Transcribing' /\ page = "transcribe" /\ page' = "transcribe"
<1>1. page = "transcribe" /\ page' = "transcribe" /\ UNCHANGED form /\ Core(view, reqs) /\ Mic(form)
  BY DEF HandleTranscribe, User, Transcribing
<1>2. PICK k : k = Len(reqs) + 1
  OBVIOUS
<1>3. PICK stage, phase, data :
          /\ phase \in {"sent", "held"} /\ Segments(data, k)
          /\ reqs' = Append(AbortAll(reqs), TranscribeRun(form, stage, phase))
          /\ view' \in {[NoView EXCEPT !.loading = ~Interrupts],
                        [NoView EXCEPT !.loading = ~Interrupts, !.result = k, !.data = data]}
  <2>1. CASE form.vad /\ form.long
    <3>1. Segments(<<>>, k)
      BY DEF Segments
    <3> QED BY <2>1, <3>1 DEF HandleTranscribe
  <2>2. CASE ~(form.vad /\ form.long)
    <3>1. PICK data : data = UpdateSegment(Pending(k, 1), 1, k, "transcribing")
      OBVIOUS
    <3>2. Segments(data, k)
      BY <3>1, PendingSegments, UpdatedSegments
    <3>3. /\ reqs' = Append(AbortAll(reqs), TranscribeRun(form, "transcribe", "held"))
          /\ view' = [NoView EXCEPT !.loading = ~Interrupts, !.result = k, !.data = data]
      BY <1>2, <2>2, <3>1 DEF HandleTranscribe
    <3> QED BY <3>2, <3>3
  <2> QED BY <2>1, <2>2
<1>4. PICK r : r = TranscribeRun(form, stage, phase)
  OBVIOUS
<1>5. IsRun(r) /\ r.phase # "done"
  BY <1>3, <1>4, TranscribeRunFacts
<1>6. /\ DOMAIN view' = ViewFields /\ view'.loading \in BOOLEAN /\ view'.result \in {0, k}
      /\ view'.data \in {<<>>, data}
  BY <1>3 DEF NoView, ViewFields, Interrupts
<1>7. Core(view, reqs)' /\ Len(reqs') = k
  BY <1>1, <1>2, <1>3, <1>4, <1>5, <1>6, LaunchedCore
<1>8. Segments(view'.data, k)
  BY <1>3, <1>6 DEF Segments
<1> QED BY <1>1, <1>7, <1>8 DEF Transcribing
\* The last run goes on to its next call, or ends.
LEMMA GoesOn ==
    ASSUME Transcribing, NEW k \in DOMAIN reqs, k = Len(reqs), NEW r, IsRun(r),
           reqs' = [reqs EXCEPT ![k] = r], UNCHANGED form,
           DOMAIN view' = ViewFields, view'.loading \in BOOLEAN,
           view'.loading => r.phase # "done",
           view'.result \in {view.result, k}, Segments(view'.data, k)
    PROVE  Transcribing'
<1>1. Core(view, reqs) /\ Len(reqs) \in Nat
  BY Range1 DEF Transcribing, Core
<1>2. (k < Len(reqs) => Over(r)) /\ (view'.result \in {0, view.result} \/ (view'.result = k /\ k = Len(reqs)))
  BY <1>1
<1>3. Core(view, reqs)' /\ Len(reqs') = Len(reqs)
  BY <1>1, <1>2, ChangedCore
<1>4. Segments(view'.data, Len(reqs'))
  BY <1>3
<1> QED BY <1>3, <1>4 DEF Transcribing

LEMMA NextSegmentInv ==
    ASSUME Transcribing, NEW k \in DOMAIN reqs, k = Len(reqs), reqs[k].phase # "done",
           NEW data, Segments(data, k), NextSegment(k, data), UNCHANGED form
    PROVE  Transcribing'
<1>1. IsRun(reqs[k]) /\ DOMAIN view = ViewFields /\ view.loading \in BOOLEAN
  BY DEF Transcribing, Core, RunsOk, ViewOk
<1>2. CASE reqs[k].at < reqs[k].n
  <2> DEFINE r1 == [reqs[k] EXCEPT !.at = @ + 1]
             r2 == [r1 EXCEPT !.stage = "transcribe"]
             r3 == [r2 EXCEPT !.phase = "held"]
             r == [r3 EXCEPT !.retried = FALSE]
  <2>1. PICK d : /\ d = UpdateSegment(data, reqs[k].at + 1, k, "transcribing")
                 /\ view' = [view EXCEPT !.data = d]
    BY <1>2 DEF NextSegment
  <2>2. Segments(d, k)
    BY <2>1, UpdatedSegments
  <2>3. reqs' = [reqs EXCEPT ![k] = r]
    BY <1>2 DEF NextSegment
  <2>4. IsRun(r) /\ r.phase = "held"
    BY <1>1 DEF IsRun, Phases
  <2> HIDE DEF r
  <2>5. /\ DOMAIN view' = ViewFields /\ view'.loading = view.loading
        /\ view'.result = view.result /\ view'.data = d
    BY <1>1, <2>1 DEF ViewFields
  <2> QED BY <1>1, <2>2, <2>3, <2>4, <2>5, GoesOn
<1>3. CASE ~(reqs[k].at < reqs[k].n)
  <2> DEFINE r == [reqs[k] EXCEPT !.phase = "done"]
  <2>1. reqs' = [reqs EXCEPT ![k] = r] /\ view' = [view EXCEPT !.data = data, !.loading = FALSE]
    BY <1>3 DEF NextSegment
  <2>2. IsRun(r)
    BY <1>1 DEF IsRun, Phases
  <2> HIDE DEF r
  <2>3. /\ DOMAIN view' = ViewFields /\ view'.loading = FALSE
        /\ view'.result = view.result /\ view'.data = data
    BY <1>1, <2>1 DEF ViewFields
  <2> QED BY <2>1, <2>2, <2>3, GoesOn
<1> QED BY <1>2, <1>3

\* An aborted run ends, or any run fails.
LEMMA StopsInv ==
    ASSUME Transcribing, NEW k \in DOMAIN reqs, reqs' = [reqs EXCEPT ![k].phase = "done"],
           UNCHANGED form, DOMAIN view' = ViewFields, view'.loading = FALSE,
           view'.result = view.result, view'.data = view.data
    PROVE  Transcribing'
<1> DEFINE r == [reqs[k] EXCEPT !.phase = "done"]
<1>1. IsRun(reqs[k]) /\ Core(view, reqs)
  BY DEF Transcribing, Core, RunsOk
<1>2. IsRun(r) /\ Over(r)
  BY <1>1 DEF IsRun, Phases, Over
<1>3. reqs' = [reqs EXCEPT ![k] = r]
  OBVIOUS
<1> HIDE DEF r
<1>4. Core(view, reqs)' /\ Len(reqs') = Len(reqs)
  BY <1>1, <1>2, <1>3, ChangedCore
<1> QED BY <1>4 DEF Transcribing

LEMMA ChunkedInv ==
    ASSUME Transcribing, NEW k \in DOMAIN reqs, Chunked(k)
    PROVE  Transcribing' /\ page = "transcribe" /\ page' = "transcribe"
<1>1. /\ reqs[k].phase = "sent" /\ UNCHANGED form /\ page = "transcribe"
      /\ Core(view, reqs) /\ Mic(form) /\ IsRun(reqs[k])
  BY DEF Chunked, Transcribing, Core, RunsOk
<1>2. k = Len(reqs)
  BY <1>1, LastRun
<1>3. DOMAIN view = ViewFields /\ view.loading \in BOOLEAN
  BY <1>1 DEF Core, ViewOk
<1>4. CASE Settles(k, Failed)
  <2>1. /\ reqs' = [reqs EXCEPT ![k].phase = "done"] /\ page' = page
        /\ view' = [[view EXCEPT !.error = TRUE] EXCEPT !.loading = FALSE]
    BY <1>4 DEF Settles, Failed
  <2>2. /\ DOMAIN view' = ViewFields /\ view'.loading = FALSE
        /\ view'.result = view.result /\ view'.data = view.data
    BY <1>3, <2>1 DEF ViewFields
  <2> QED BY <1>1, <2>1, <2>2, StopsInv
<1>5. ASSUME NEW n \in 1 .. MaxSegments,
             reqs' = [reqs EXCEPT ![k].stage = "transcribe", ![k].phase = "held", ![k].n = n,
                                  ![k].retried = FALSE],
             view' = [view EXCEPT !.result = k,
                          !.data = UpdateSegment(Pending(k, n), 1, k, "transcribing")],
             UNCHANGED page
      PROVE  Transcribing' /\ page' = page
  <2> DEFINE r1 == [reqs[k] EXCEPT !.stage = "transcribe"]
             r2 == [r1 EXCEPT !.phase = "held"]
             r3 == [r2 EXCEPT !.n = n]
             r == [r3 EXCEPT !.retried = FALSE]
  <2>1. PICK d : d = UpdateSegment(Pending(k, n), 1, k, "transcribing")
    OBVIOUS
  <2>2. Segments(d, k)
    BY <2>1, PendingSegments, UpdatedSegments
  <2>3. reqs' = [reqs EXCEPT ![k] = r]
    BY <1>5
  <2>4. IsRun(r) /\ r.phase = "held"
    BY <1>1 DEF IsRun, Phases
  <2> HIDE DEF r
  <2>5. /\ DOMAIN view' = ViewFields /\ view'.loading = view.loading
        /\ view'.result = k /\ view'.data = d
    BY <1>3, <1>5, <2>1 DEF ViewFields
  <2> QED BY <1>1, <1>2, <1>3, <1>5, <2>2, <2>3, <2>4, <2>5, GoesOn
<1> QED BY <1>1, <1>4, <1>5 DEF Chunked

LEMMA TranscribedInv ==
    ASSUME Transcribing, NEW k \in DOMAIN reqs, Transcribed(k)
    PROVE  Transcribing' /\ page = "transcribe" /\ page' = "transcribe"
<1>1. /\ reqs[k].phase = "held" /\ UNCHANGED <<page, form>> /\ page = "transcribe"
      /\ Core(view, reqs) /\ IsRun(reqs[k])
  BY DEF Transcribed, Transcribing, Core, RunsOk
<1>2. ~reqs[k].aborted => k = Len(reqs)
  BY <1>1, LastRun
<1>3. DOMAIN view = ViewFields /\ view.loading \in BOOLEAN
  BY <1>1 DEF Core, ViewOk
<1>4. CASE /\ reqs' = [reqs EXCEPT ![k].phase = "done"]
           /\ \/ view' = [view EXCEPT !.loading = FALSE, !.error = TRUE]
              \/ view' = [view EXCEPT !.loading = FALSE]
  <2>1. /\ DOMAIN view' = ViewFields /\ view'.loading = FALSE
        /\ view'.result = view.result /\ view'.data = view.data
    BY <1>3, <1>4 DEF ViewFields
  <2> QED BY <1>1, <1>4, <2>1, StopsInv
<1>5. CASE /\ ~reqs[k].aborted
           /\ reqs' = [reqs EXCEPT ![k].stage = "clean", ![k].phase = "sent"]
           /\ view' = [view EXCEPT !.data = UpdateSegment(@, reqs[k].at, k, "cleaning")]
  <2> DEFINE r1 == [reqs[k] EXCEPT !.stage = "clean"]
             r == [r1 EXCEPT !.phase = "sent"]
  <2>1. PICK d : d = UpdateSegment(view.data, reqs[k].at, k, "cleaning")
    OBVIOUS
  <2>2. Segments(d, k)
    BY <1>2, <1>5, <2>1, UpdatedSegments DEF Transcribing
  <2>3. reqs' = [reqs EXCEPT ![k] = r]
    BY <1>5
  <2>4. IsRun(r) /\ r.phase = "sent"
    BY <1>1 DEF IsRun, Phases
  <2> HIDE DEF r
  <2>5. /\ DOMAIN view' = ViewFields /\ view'.loading = view.loading
        /\ view'.result = view.result /\ view'.data = d
    BY <1>3, <1>5, <2>1 DEF ViewFields
  <2> QED BY <1>1, <1>2, <1>3, <1>5, <2>2, <2>3, <2>4, <2>5, GoesOn
<1>6. CASE ~reqs[k].aborted /\ NextSegment(k, UpdateSegment(view.data, reqs[k].at, k, "done"))
  <2>1. PICK d : d = UpdateSegment(view.data, reqs[k].at, k, "done")
    OBVIOUS
  <2>2. Segments(d, k)
    BY <1>2, <1>6, <2>1, UpdatedSegments DEF Transcribing
  <2> QED BY <1>1, <1>2, <1>6, <2>1, <2>2, NextSegmentInv
<1> QED BY <1>4, <1>5, <1>6 DEF Transcribed

LEMMA CleanedInv ==
    ASSUME Transcribing, NEW k \in DOMAIN reqs, Cleaned(k)
    PROVE  Transcribing' /\ page = "transcribe" /\ page' = "transcribe"
<1>1. /\ reqs[k].phase = "sent" /\ UNCHANGED <<page, form>> /\ page = "transcribe"
      /\ Core(view, reqs)
  BY DEF Cleaned, Transcribing
<1>2. k = Len(reqs)
  BY <1>1, LastRun
<1>3. PICK d : d = UpdateSegment(view.data, reqs[k].at, k, "done")
  OBVIOUS
<1>4. Segments(d, k)
  BY <1>2, <1>3, UpdatedSegments DEF Transcribing
<1>5. PICK e : NextSegment(k, e) /\ e \in {d, [d EXCEPT ![reqs[k].at].cleaned = TRUE]}
  BY <1>3 DEF Cleaned
<1>6. Segments(e, k)
  BY <1>4, <1>5 DEF Segments, SegmentFields
<1> QED BY <1>1, <1>2, <1>5, <1>6, NextSegmentInv
LEMMA TranscribeResetInv ==
    ASSUME Transcribing, TranscribeReset
    PROVE  Transcribing' /\ page = "transcribe" /\ page' = "transcribe"
<1> DEFINE f == IF form.recording THEN [CleanupRecording(form) EXCEPT !.recording = FALSE]
                ELSE form
           f1 == [f EXCEPT !.file = 0, !.long = FALSE, !.lang = ""]
<1>1. /\ page = "transcribe" /\ page' = "transcribe" /\ view' = NoView /\ reqs' = AbortAll(reqs)
      /\ form' = [f EXCEPT !.file = 0, !.long = FALSE, !.lang = "", !.copied = FALSE,
                           !.threshold = 3]
  BY DEF TranscribeReset, User, SetForm
<1>2. Mic(form) /\ MicFields \subseteq DOMAIN form /\ Core(view, reqs)
  BY DEF Transcribing, Mic
<1>3. /\ MicFields \subseteq DOMAIN f /\ f.recording = FALSE /\ f.overlapped = form.overlapped
      /\ f.asked = form.asked
      /\ f.live = IF form.recording THEN form.live \ {form.stream} ELSE form.live
  BY <1>2 DEF CleanupRecording, MicFields, Mic
<1>4. form' = [f1 EXCEPT !.copied = FALSE, !.threshold = 3]
  BY <1>1
<1> HIDE DEF f
<1>5. /\ MicFields \subseteq DOMAIN f1 /\ f1.recording = FALSE /\ f1.overlapped = form.overlapped
      /\ f1.asked = form.asked
      /\ f1.live = IF form.recording THEN form.live \ {form.stream} ELSE form.live
  BY <1>3 DEF MicFields
<1> HIDE DEF f1
<1>6. /\ MicFields \subseteq DOMAIN form' /\ form'.recording = FALSE
      /\ form'.overlapped = form.overlapped /\ form'.asked = form.asked
      /\ form'.live = IF form.recording THEN form.live \ {form.stream} ELSE form.live
  BY <1>4, <1>5 DEF MicFields
<1>7. Mic(form')
  BY <1>2, <1>6 DEF Mic
<1>8. Core(view, reqs)'
  BY <1>1, <1>2, AbortedCore
<1>9. Segments(view'.data, Len(reqs'))
  BY <1>1 DEF Segments, NoView
<1> QED BY <1>1, <1>7, <1>8, <1>9 DEF Transcribing

LEMMA PageOfTranscribe == TranscribeNext => page = "transcribe"
BY Zenon DEF TranscribeNext, TranscribeModels, TranscribeSetModel, TranscribeSetMode,
        TranscribeSetLanguage, ProcessAudioFile, RemoveAudio, MetadataLoaded, StartRecording,
        MicrophoneGranted, MicrophoneDenied, AudioCaptured, StopRecording, HandleTranscribe,
        TranscribeReset, TranscribeCopy, TranscribeCopyTimer, User

LEMMA TranscribeNextInv ==
    ASSUME Transcribing, TranscribeNext
    PROVE  Transcribing' /\ page = "transcribe" /\ page' = "transcribe"
<1>1. page = "transcribe"
  BY PageOfTranscribe
<1> QED BY <1>1, FormInv, MicrophoneInv, HandleTranscribeInv, TranscribeResetInv, ChunkedInv,
           TranscribedInv, CleanedInv, Zenon DEF TranscribeNext

-----------------------------------------------------------------------------
(* Every page. *)

\* A page that is mounted has at most one run, for the registry.
LEMMA MountedFacts ==
    ASSUME NEW p, NEW s
    PROVE  /\ Core(MountedView(p, s), MountedReqs(p, s))
           /\ p = "embed" => OneRun(MountedView(p, s), MountedReqs(p, s), "sent")
           /\ OneRun(MountedView(p, s), MountedReqs(p, s), "held")
           /\ \A n : Segments(MountedView(p, s).data, n)
<1>1. PICK v, rs : v = MountedView(p, s) /\ rs = MountedReqs(p, s)
  OBVIOUS
<1>2. /\ DOMAIN v = ViewFields /\ v.loading = Fetches(p, s)
      /\ v.loading \in BOOLEAN /\ v.result = 0 /\ v.data = <<>>
  BY <1>1 DEF MountedView, NoView, ViewFields, Fetches
<1>3. \A n : Segments(v.data, n)
  BY <1>2 DEF Segments
<1>4. CASE Fetches(p, s)
  <2>1. PICK r : r = [Run("registry") EXCEPT !.phase = "held"]
    OBVIOUS
  <2>2. IsRun(r) /\ r.phase = "held" /\ p = "models"
    BY <1>4, <2>1 DEF Run, IsRun, Phases, Fetches
  <2>3. rs = Append(<<>>, r)
    BY <1>1, <1>4, <2>1 DEF MountedReqs, FetchRegistry
  <2>4. rs \in Seq({r}) /\ Len(rs) = 1 /\ DOMAIN rs = {1} /\ rs[1] = r
    BY <2>3
  <2>5. \A k \in DOMAIN rs : rs[k] = r /\ k = Len(rs) /\ ~(k < Len(rs))
    BY <2>4
  <2>6. RunsOk(rs)
    BY <2>2, <2>4, <2>5 DEF RunsOk
  <2>7. ViewOk(v, rs)
    BY <1>2, <2>2, <2>4 DEF ViewOk
  <2>8. OneRun(v, rs, "held")
    BY <1>2, <1>4, <2>2, <2>5 DEF OneRun
  <2> QED BY <1>1, <1>3, <2>2, <2>6, <2>7, <2>8 DEF Core
<1>5. CASE ~Fetches(p, s)
  <2>1. rs = <<>> /\ DOMAIN rs = {} /\ rs \in Seq({})
    BY <1>1, <1>5 DEF MountedReqs
  <2>2. Core(v, rs)
    BY <1>2, <1>5, <2>1 DEF Core, RunsOk, ViewOk
  <2>3. OneRun(v, rs, "sent") /\ OneRun(v, rs, "held")
    BY <2>1 DEF OneRun
  <2> QED BY <1>1, <1>3, <2>2, <2>3
<1> QED BY <1>4, <1>5

LEMMA MicAtRest == \A s : Mic(Restored("transcribe", s))
<1>1. PICK f : f = TranscribeDefaults
  OBVIOUS
<1>2. MicFields \subseteq DOMAIN f
  BY <1>1 DEF MicFields, TranscribeDefaults
<1>3. /\ f.overlapped = FALSE /\ f.recording = FALSE /\ f.live = {} /\ f.asked = 0
  BY <1>1 DEF TranscribeDefaults
<1>4. Mic(f)
  BY <1>2, <1>3 DEF Mic
<1> QED BY <1>1, <1>4 DEF Restored

\* A page is mounted.
LEMMA MountInv ==
    ASSUME NEW s, form' = Restored(page', s),
           reqs' = MountedReqs(page', s), view' = MountedView(page', s)
    PROVE  Inv'
<1>1. /\ Core(view', reqs')
      /\ page' = "embed" => OneRun(view', reqs', "sent")
      /\ OneRun(view', reqs', "held")
      /\ Segments(view'.data, Len(reqs'))
  BY MountedFacts
<1>2. page' = "transcribe" => Mic(form')
  BY MicAtRest
<1> QED BY <1>1, <1>2 DEF Inv, Transcribing

\* What the client does after a 502 on a page that is not of those two.
LEMMA RetryingInv ==
    ASSUME Inv, NEW k \in DOMAIN reqs, Retrying(k)
    PROVE  Inv'
<1>1. /\ page \notin {"embed", "chunk"}
      /\ RetryLater(k) \/ RetryFires(k)
      /\ UNCHANGED <<page, form>>
  BY DEF Retrying, RetryLater, RetryFires
<1>2. Core(view, reqs)' /\ Len(reqs') = Len(reqs) /\ view'.data = view.data
  BY <1>1, RetryCore DEF Inv
<1>3. page # "models"
  <2>1. reqs[k].phase \in {"sent", "waiting"}
    BY <1>1 DEF RetryLater, RetryFires
  <2> QED BY <2>1 DEF Inv, OneRun
<1>4. page = "transcribe" => Transcribing'
  BY <1>1, <1>2 DEF Inv, Transcribing
<1> QED BY <1>1, <1>2, <1>3, <1>4 DEF Inv

LEMMA StutterInv ==
    ASSUME Inv, UNCHANGED <<page, form, view, reqs>>
    PROVE  Inv'
BY DEF Inv, Core, Transcribing

LEMMA InitInv == Init => Inv
<1> SUFFICES ASSUME Init PROVE Inv
  OBVIOUS
<1>1. /\ Core(view, reqs)
      /\ page = "embed" => OneRun(view, reqs, "sent")
      /\ OneRun(view, reqs, "held")
      /\ Segments(view.data, Len(reqs))
  BY MountedFacts DEF Init
<1>2. page = "transcribe" => Mic(form)
  BY MicAtRest DEF Init
<1> QED BY <1>1, <1>2 DEF Inv, Transcribing

LEMMA NextInv ==
    ASSUME Inv, Next
    PROVE  Inv'
<1>1. CASE NerNext
  BY <1>1, NerNextInv DEF Inv
<1>2. CASE RerankNext
  BY <1>2, RerankNextInv DEF Inv
<1>3. CASE EmbedNext
  <2>1. page = "embed"
    BY <1>3, Zenon DEF EmbedNext, EmbedModels, EmbedSetQuery, EmbedSetModel, EmbedAddDocument,
            EmbedSpark, EmbedRemoveDocument, EmbedUpdateDocument, EmbedLoadSample, HandleEmbed,
            EmbedReset, EmbedSettles, User
  <2> QED BY <1>3, <2>1, EmbedNextInv DEF Inv
<1>4. CASE RewriteNext
  BY <1>4, RewriteNextInv DEF Inv
<1>5. CASE ChunkNext
  BY <1>5, ChunkNextInv DEF Inv
<1>6. CASE ReadNext
  BY <1>6, ReadNextInv DEF Inv
<1>7. CASE TranscribeNext
  <2>1. page = "transcribe"
    BY <1>7, PageOfTranscribe
  <2>2. Transcribing' /\ page' = "transcribe"
    BY <1>7, <2>1, TranscribeNextInv DEF Inv
  <2>3. Core(view, reqs)'
    BY <2>2 DEF Transcribing
  <2> QED BY <2>2, <2>3 DEF Inv
<1>8. CASE KGNext
  BY <1>8, KGNextInv DEF Inv
<1>9. CASE ModelsNext
  <2>1. page = "models"
    BY <1>9, Zenon DEF ModelsNext, DownloadsChecked, StatsArrive, StatsFail, ModelsSetQuery,
            ModelsSetType, ClearFilters, HandleModelClick, CloseSheet, ToggleAllVariants,
            HandleCopyCommand, CommandCopiedTimer, SelectPreset, ChooseVariant, Directory,
            RegistryArrives, RegistryFails, RetryRegistry, User
  <2> QED BY <1>9, <2>1, ModelsNextInv DEF Inv
<1>10. CASE ModelsFail
  BY <1>10, StutterInv DEF ModelsFail
<1>11. CASE Remount
  BY <1>11, MountInv DEF Remount, Mount
<1>12. ASSUME NEW p \in PlaygroundOf, OpenInPlayground(p) PROVE Inv'
  BY <1>12, MountInv DEF OpenInPlayground, Mount
<1>13. ASSUME NEW k \in DOMAIN reqs, Retrying(k) PROVE Inv'
  BY <1>13, RetryingInv
<1> QED BY <1>1, <1>2, <1>3, <1>4, <1>5, <1>6, <1>7, <1>8, <1>9, <1>10, <1>11, <1>12, <1>13
        DEF Next
LEMMA Invariance == Spec => []Inv
<1>1. Init => Inv
  BY InitInv
<1>2. Inv /\ [Next]_vars => Inv'
  BY NextInv, StutterInv DEF vars
<1> QED BY <1>1, <1>2, PTL DEF Spec

\* Whatever order runs are started, aborted, retried after a 502 and answered in,
\* on every playground page: abortControllerRef and the check of the signal after
\* each await keep the results and the segments those of the last run, the
\* finally of a run that is still going will clear isLoading, and the refs of
\* the recorder release the one microphone stream there is when requests for it
\* do not overlap.
THEOREM LeavesNothing == Spec => []NothingLeftBehind
<1>1. ASSUME Inv PROVE NothingLeftBehind
  <2>1. LatestRunWins /\ LoadingAccounted
    BY <1>1 DEF Inv, Core, ViewOk, LatestRunWins, LoadingAccounted
  <2>2. SegmentsOfLatestRun
    BY <1>1 DEF Inv, Transcribing, Segments, SegmentsOfLatestRun
  <2>3. MicReleased
    BY <1>1 DEF Inv, Transcribing, Mic, MicReleased
  <2> QED BY <2>1, <2>2, <2>3 DEF NothingLeftBehind
<1> QED BY <1>1, Invariance, PTL
=============================================================================
