----------------------------- MODULE Playground -----------------------------
(***************************************************************************)
(* What the playground pages of Antfarm have in common: a form (kept in    *)
(* localStorage by most of them), the models that the server offers, and a *)
(* request per run, guarded by an AbortController, retried once after a    *)
(* 502 by fetchWithRetry. The modules of the pages extend this one.        *)
(*                                                                         *)
(* An abort makes the pending fetch reject at once: the handler's finally  *)
(* clears isLoading right after the next run has set it. A handler that    *)
(* sleeps before its retry, or waits for a call without a signal (phase    *)
(* "held"), only notices afterwards.                                       *)
(***************************************************************************)
EXTENDS Naturals, FiniteSets, Sequences, SequencesExt

CONSTANTS
    Pages,        \* the pages a run mounts
    Texts,        \* texts a user may enter
    ModelLists,   \* lists of models a server may offer
    Extractors,   \* models with the "extraction" capability
    MaxSteps,     \* bound on the user's events, by page
    MaxRuns       \* bound on the runs

ASSUME PlaygroundAssumption ==
    /\ "" \notin Texts
    /\ ModelLists \subseteq Seq(STRING)
    /\ MaxSteps \in [Pages -> Nat] /\ MaxRuns \in Nat

VARIABLES
    page,    \* the page that is mounted
    form,    \* what the user entered, a record of the page's fields
    view,    \* isLoading, error, the run whose result is shown, its data
    models,  \* availableModels, modelsLoaded, and the ?model= parameter
    reqs,    \* the runs since the page was mounted
    saved,   \* the page's entry in localStorage: <<>> or <<form>>
    steps    \* user events so far

vars == <<page, form, view, models, reqs, saved, steps>>

AllModels == UNION {ToSet(ms) : ms \in ModelLists}
Inputs == Texts \cup {""}

\* of: the form the run was started with.
Run(f) == [of |-> f, phase |-> "sent", aborted |-> FALSE, retried |-> FALSE]
NoView == [loading |-> FALSE, error |-> FALSE, result |-> 0, data |-> <<>>]
NoModels(param) == [list |-> <<>>, loaded |-> FALSE, param |-> param]

\* The pages that keep their form in localStorage.
Persisting == {"ner", "rerank", "rewrite", "chunk", "kg"}
Save(f) == IF page \in Persisting THEN <<f>> ELSE saved

\* One event of the user on page p.
User(p) == page = p /\ steps < MaxSteps[page] /\ steps' = steps + 1 /\ UNCHANGED page

\* The form changes; the effect of a page that persists stores it.
SetForm(f) ==
    /\ form' = f
    /\ saved' = Save(f)

OnlyForm(f) == SetForm(f) /\ UNCHANGED <<view, models, reqs>>

-----------------------------------------------------------------------------
(* A run *)

\* abortControllerRef.current.abort()
AbortAll(rs) ==
    [k \in DOMAIN rs |->
        CASE rs[k].phase = "sent" -> [rs[k] EXCEPT !.phase = "done"]
          [] rs[k].phase \in {"waiting", "held"} -> [rs[k] EXCEPT !.aborted = TRUE]
          [] OTHER -> rs[k]]

Interrupts == \E k \in DOMAIN reqs : reqs[k].phase = "sent"

\* The handler after its checks: it aborts the run before, whose finally then
\* clears the isLoading this one set.
Launch(f) ==
    /\ Len(reqs) < MaxRuns
    /\ reqs' = Append(AbortAll(reqs), Run(f))
    /\ view' = [NoView EXCEPT !.loading = ~Interrupts]
    /\ UNCHANGED models

StartRun(f) == Launch(f) /\ UNCHANGED <<form, saved>>

\* A check of the handler failed.
Refuse ==
    /\ view' = [view EXCEPT !.error = TRUE]
    /\ UNCHANGED <<form, saved, models, reqs>>

\* fetchWithRetry: a 502 on the first attempt waits two seconds.
RetryLater(k) ==
    /\ reqs[k].phase = "sent" /\ ~reqs[k].retried
    /\ reqs' = [reqs EXCEPT ![k].phase = "waiting", ![k].retried = TRUE]
    /\ UNCHANGED <<page, form, view, models, saved, steps>>

\* The timer fires: the fetch of an aborted run rejects at once.
RetryFires(k) ==
    /\ reqs[k].phase = "waiting"
    /\ reqs' = [reqs EXCEPT ![k].phase = IF reqs[k].aborted THEN "done" ELSE "sent"]
    /\ view' = IF reqs[k].aborted THEN [view EXCEPT !.loading = FALSE] ELSE view
    /\ UNCHANGED <<page, form, models, saved, steps>>

\* Mutant of Settles: the finally does not clear isLoading.
SettlesLoading(k, v) ==
    /\ reqs[k].phase = "sent"
    /\ reqs' = [reqs EXCEPT ![k].phase = "done"]
    /\ view' = v
    /\ UNCHANGED <<page, models, steps>>

\* The end of a run that was not aborted: v is what the handler shows.
Settles(k, v) ==
    /\ reqs[k].phase = "sent"
    /\ reqs' = [reqs EXCEPT ![k].phase = "done"]
    /\ view' = [v EXCEPT !.loading = FALSE]
    /\ UNCHANGED <<page, models, steps>>

Shown(k, data) == [view EXCEPT !.result = k, !.data = data]
Failed == [view EXCEPT !.error = TRUE]

-----------------------------------------------------------------------------
(* The models *)

First(ms) == IF ms = <<>> THEN "" ELSE Head(ms)

\* setSelectedModel of a page that keeps its choice when it is offered.
Keep(prev, ms) == IF prev # "" /\ prev \in ToSet(ms) THEN prev ELSE First(ms)

\* The effect of the ?model= parameter, once the models are loaded.
ByParam(m, ms) == IF models.param \in ToSet(ms) THEN models.param ELSE m

\* The answer to GET /api/models: the list ms and the form with its choice.
ModelsArrive(ms, f) ==
    /\ ~models.loaded
    /\ models' = [list |-> ms, loaded |-> TRUE,
                  param |-> IF models.param \in ToSet(ms) THEN "" ELSE models.param]
    /\ SetForm(f)
    /\ UNCHANGED <<page, view, reqs, steps>>

\* It failed: nothing but modelsLoaded changes.
ModelsFail ==
    /\ ~models.loaded
    /\ models' = [models EXCEPT !.loaded = TRUE]
    /\ UNCHANGED <<page, form, view, reqs, saved, steps>>

\* The Select of the model.
ModelEnabled == models.loaded /\ models.list # <<>>

=============================================================================
