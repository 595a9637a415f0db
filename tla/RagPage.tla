------------------------------ MODULE RagPage ------------------------------
(***************************************************************************)
(* RagPlaygroundPage ("rag"): a question is answered by a stream of        *)
(* AnswerResults, whose callbacks drive the pipeline of pipeline-types.ts  *)
(* that PipelineTrace draws. The server sends the classification first,    *)
(* then hits, chunks, and at last follow-up questions and the confidence.  *)
(***************************************************************************)
EXTENDS TableProvider

CONSTANTS MaxParts    \* bound on the hits, chunks and questions of an answer

AllSteps == <<"classification", "search", "generation", "confidence", "followup">>
Optional == {"classification", "confidence", "followup"}

\* pipeline: the status of each step that takes part; overall: its status.
\* The refs: hits, answer and followups so far, and searchCompletedRef.
RagInit == [query |-> "", on |-> {}, loading |-> FALSE, error |-> FALSE,
            steps |-> [s \in {} |-> ""], overall |-> "idle",
            hits |-> 0, answer |-> 0, followups |-> 0, searched |-> FALSE, picked |-> ""]

-----------------------------------------------------------------------------
(* pipelineReducer *)

StepTo(steps, id, status) ==
    [s \in DOMAIN steps |-> IF s = id THEN status ELSE steps[s]]
STEP_START(steps, id) == StepTo(steps, id, "running")
STEP_COMPLETE(steps, id) == StepTo(steps, id, "complete")
START(on) == [s \in on \cup {"search", "generation"} |-> "pending"]

\* PipelineGraph: the steps that take part, in their order.
Drawn == SelectSeq(AllSteps, LAMBDA s : s \in DOMAIN st.steps)

\* computeLayout: one row, or two rows of which the second runs backwards.
TopCount(n) == IF n <= 3 THEN n ELSE (n + 1) \div 2
Layout(n) ==
    [i \in 1 .. n |->
        IF i <= TopCount(n) THEN [row |-> 0, col |-> i - 1]
        ELSE [row |-> 1, col |-> TopCount(n) - 1 - (i - TopCount(n) - 1)]]

EdgeState(from, to) ==
    CASE from = "error" \/ to = "error" -> "error"
      [] from = "complete" /\ to = "complete" -> "complete"
      [] from = "complete" /\ to = "running" -> "active"
      [] OTHER -> "pending"
Edges == [i \in 1 .. Len(Drawn) - 1 |-> EdgeState(st.steps[Drawn[i]], st.steps[Drawn[i + 1]])]

\* handleSelectStep; a step that is pending cannot be pressed.
HandleSelectStep(s) ==
    /\ User("rag") /\ s \in DOMAIN st.steps /\ st.steps[s] # "pending"
    /\ Only([st EXCEPT !.picked = IF @ = s THEN "" ELSE s])
DetailOpen == st.picked \in DOMAIN st.steps

-----------------------------------------------------------------------------
(* The page *)

RagSetQuery(t) == User("rag") /\ Only([st EXCEPT !.query = t])
RagToggle(s) ==
    User("rag") /\ Only([st EXCEPT !.on = IF s \in @ THEN @ \ {s} ELSE @ \cup {s}])

\* handleReset leaves isLoading as it is.
RagReset ==
    /\ User("rag")
    /\ Only([RagInit EXCEPT !.loading = st.loading, !.hits = st.hits, !.answer = st.answer,
                !.followups = st.followups, !.searched = st.searched, !.picked = st.picked])

\* The button or Ctrl+Enter, and handleStreamStart.
RagSubmit ==
    /\ User("rag")
    /\ st.query # "" /\ tab.table # "" /\ tab.index # "" /\ ~st.loading
    /\ Start("rag", [question |-> st.query, on |-> st.on])
    /\ st' = [st EXCEPT !.loading = TRUE, !.error = FALSE, !.overall = "running",
                 !.hits = 0, !.answer = 0, !.followups = 0, !.searched = FALSE,
                 !.steps = STEP_START(START(st.on),
                     IF "classification" \in st.on THEN "classification" ELSE "search")]
    /\ UNCHANGED tableVars

\* An event of stream k while it is in one of the phases ps; it is in phase p
\* afterwards.
Event(k, ps, p) ==
    /\ screen = "rag" /\ calls[k].kind = "rag" /\ ~calls[k].done
    /\ (IF calls[k].got = <<>> THEN "begun" ELSE calls[k].got[1]) \in ps
    /\ calls' = [calls EXCEPT ![k].got = <<p>>, ![k].done = (p = "ended")]
    /\ Quiet /\ UNCHANGED tableVars

\* AnswerResults always asks for a classification.
HandleClassification(k) ==
    /\ Event(k, {"begun"}, "hits")
    /\ st' = [st EXCEPT !.steps = STEP_START(STEP_COMPLETE(@, "classification"), "search")]

HandleHit(k) ==
    /\ Event(k, {"begun", "hits"}, "hits") /\ st.hits < MaxParts
    /\ st' = [st EXCEPT !.hits = @ + 1]

\* Mutant of HandleAnswerChunk: the first chunk does not end the search.
HandleAnswerChunkOnly(k) ==
    /\ Event(k, {"begun", "hits", "answer"}, "answer") /\ st.answer < MaxParts
    /\ st' = [st EXCEPT !.answer = @ + 1, !.searched = TRUE, !.steps = STEP_START(@, "generation")]

\* The first chunk ends the search.
HandleAnswerChunk(k) ==
    /\ Event(k, {"begun", "hits", "answer"}, "answer") /\ st.answer < MaxParts
    /\ st' = [st EXCEPT !.answer = @ + 1, !.searched = TRUE, !.steps =
                 IF st.searched THEN @ ELSE STEP_START(STEP_COMPLETE(@, "search"), "generation")]

HandleFollowUpQuestion(k) ==
    /\ screen = "rag" /\ "followup" \in calls[k].of.on
    /\ Event(k, {"answer", "more"}, "more") /\ st.followups < MaxParts
    /\ st' = [st EXCEPT !.followups = @ + 1, !.steps = STEP_START(@, "followup")]

HandleConfidence(k) ==
    /\ screen = "rag" /\ "confidence" \in calls[k].of.on
    /\ Event(k, {"answer", "more"}, "more")
    /\ st' = [st EXCEPT !.steps = STEP_COMPLETE(@, "confidence")]

AnyPhase == {"begun", "hits", "answer", "more"}

\* The steps of the search, the generation and the questions are completed.
HandleStreamEnd(k) ==
    /\ Event(k, AnyPhase, "ended")
    /\ LET searched == IF st.searched THEN st.steps ELSE STEP_COMPLETE(st.steps, "search")
           generated == STEP_COMPLETE(searched, "generation")
       IN st' = [st EXCEPT !.loading = FALSE, !.searched = TRUE, !.overall = "complete",
                    !.steps = IF st.followups > 0 THEN STEP_COMPLETE(generated, "followup")
                              ELSE generated]

HandleError(k) ==
    /\ Event(k, AnyPhase, "ended")
    /\ st' = [st EXCEPT !.error = TRUE, !.loading = FALSE, !.overall = "error"]

\* The connection ends without a done event: no callback is called.
StreamStops(k) == Event(k, AnyPhase, "ended") /\ UNCHANGED st

\* A follow-up question of the answer or of the panel fills the input.
OnFollowupClick(t) ==
    User("rag") /\ st.followups > 0 /\ Only([st EXCEPT !.query = t])

RagPanels ==
    (IF tab.table = "" THEN {"select a table"} ELSE {})
        \cup (IF st.error THEN {"error"} ELSE {})
        \cup (IF st.overall # "idle" THEN {"stats"} ELSE {})
        \cup (IF st.overall = "idle" \/ DOMAIN st.steps = {} THEN {"no pipeline"} ELSE {"pipeline"})

RagNext ==
    \/ \E t \in Words : RagSetQuery(t) \/ OnFollowupClick(t)
    \/ \E s \in Optional : RagToggle(s)
    \/ screen = "rag" /\ \E s \in ToSet(AllSteps) : HandleSelectStep(s)
    \/ RagReset \/ RagSubmit
    \/ \E k \in DOMAIN calls :
          \/ HandleClassification(k) \/ HandleHit(k) \/ HandleAnswerChunk(k)
          \/ HandleFollowUpQuestion(k) \/ HandleConfidence(k)
          \/ HandleStreamEnd(k) \/ HandleError(k) \/ StreamStops(k)

=============================================================================
