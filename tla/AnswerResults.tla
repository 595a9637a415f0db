--------------------------- MODULE AnswerResults ---------------------------
(***************************************************************************)
(* The consumers of one answer at a time: the AnswerResults component with *)
(* its AnswerFeedback child (host "answer") and the useAnswerStream hook   *)
(* (host "hook"), with the numbering of the citations in an answer.        *)
(***************************************************************************)
EXTENDS RetrievalStream

CONSTANTS CitedIds,   \* resource ids an answer may cite
          Scale       \* AnswerFeedback's scale

ASSUME AnswerAssumption == Scale \in Nat

NoRating == Scale + 1

\* The optional sections below an answer, by what fills them.
Parts == {"reasoning", "followup"}

\* useState of AnswerResults and of AnswerFeedback; answer is the list of
\* chunks, each with the stream it came from and the id it cites.
\* cleanup: the last run of the effect returned its cleanup function.
AnswerState == [query |-> "", submitted |-> FALSE, cleanup |-> FALSE,
                answer |-> <<>>, extras |-> {}, streaming |-> FALSE,
                error |-> FALSE, mounted |-> TRUE,
                rating |-> NoRating, rated |-> "", sent |-> FALSE]

\* The types of that state, after n requests.
AnswerUI(n) == [query : Questions \cup {""}, submitted : BOOLEAN, cleanup : BOOLEAN,
                answer : Seq([stream : 1 .. n, id : CitedIds]), extras : SUBSET Parts,
                streaming : BOOLEAN, error : BOOLEAN, mounted : BOOLEAN,
                rating : 0 .. NoRating, rated : Questions \cup {""}, sent : BOOLEAN]

AnswerInit ==
    /\ host \in {"answer", "hook"}
    /\ ui = AnswerState
    /\ streams = <<>>
    /\ ctl = 0

\* The state a new stream starts from.
StartState(u) ==
    [u EXCEPT !.answer = <<>>, !.extras = {}, !.streaming = TRUE,
              !.error = FALSE]

\* AnswerFeedback's effect: another query resets rating and submission.
ResetFeedback(u) ==
    IF u.query = ui.query THEN u
    ELSE [u EXCEPT !.rating = NoRating, !.rated = "", !.sent = FALSE]

-----------------------------------------------------------------------------
(* AnswerResults *)

\* The linked QueryBox was submitted: the effect's cleanup and body abort the
\* stream they know, and another starts.
AnswerSubmit(q) ==
    /\ host = "answer" /\ ui.mounted
    /\ Latest < MaxStreams
    /\ ui' = ResetFeedback(StartState([ui EXCEPT !.query = q, !.submitted = TRUE,
                                                 !.cleanup = TRUE]))
    /\ streams' = Fetch(GiveUp(streams))
    /\ UNCHANGED <<host, ctl>>

\* The widget of the box is written without a submission (typed into in live
\* mode, cleared), or the host renders with other callbacks (the same q): the
\* cleanup aborts the stream, the body returns early, isStreaming stays. Only
\* a run of the effect that started a stream left a cleanup.
AnswerCleanup(q) ==
    /\ host = "answer" /\ ui.mounted
    /\ ui.cleanup \/ q # ui.query
    /\ ui' = ResetFeedback([ui EXCEPT !.query = q, !.cleanup = FALSE,
                                      !.submitted = @ /\ q = ui.query])
    /\ streams' = IF ui.cleanup THEN Aborted(streams) ELSE streams
    /\ UNCHANGED <<host, ctl>>

\* Only AnswerResults aborts when it unmounts; the hook leaves its stream.
AnswerUnmount ==
    /\ host \in {"answer", "hook"} /\ ui.mounted
    /\ ui' = [ui EXCEPT !.mounted = FALSE]
    /\ streams' = IF host = "answer" THEN GiveUp(streams) ELSE streams
    /\ UNCHANGED <<host, ctl>>

\* What AnswerResults renders.
AnswerPanel ==
    (IF ui.error THEN {"error"} ELSE IF ui.answer # <<>> THEN {"answer"} ELSE {})
        \cup (IF ~ui.error /\ ui.answer = <<>> /\ ui.streaming
                 /\ "reasoning" \notin ui.extras THEN {"loading"} ELSE {})
        \cup (IF ~ui.error /\ ui.answer = <<>> /\ ~ui.streaming
              THEN {"empty"} ELSE {})
        \cup (IF ui.streaming THEN ui.extras \ {"followup"} ELSE ui.extras)

-----------------------------------------------------------------------------
(* AnswerFeedback, a child of AnswerResults *)

\* Shown for an answer with text that is not streaming.
FeedbackShown ==
    host = "answer" /\ ui.mounted /\ ~ui.streaming /\ ~ui.sent /\ ui.answer # <<>>

\* The renderers of feedback-renderers.tsx offer the values 0 .. scale.
HandleRate(r) ==
    /\ FeedbackShown
    /\ ui' = [ui EXCEPT !.rating = r, !.rated = ui.query]
    /\ UNCHANGED <<host, streams, ctl>>

HandleSubmit ==
    /\ FeedbackShown
    /\ ui.rating # NoRating
    /\ ui' = [ui EXCEPT !.sent = TRUE]
    /\ UNCHANGED <<host, streams, ctl>>

-----------------------------------------------------------------------------
(* useAnswerStream *)

StartStream(q) ==
    /\ host = "hook" /\ ui.mounted
    /\ Latest < MaxStreams
    /\ ui' = [StartState(ui) EXCEPT !.query = q]
    /\ streams' = Fetch(GiveUp(streams))
    /\ UNCHANGED <<host, ctl>>

StopStream ==
    /\ host = "hook" /\ ui.mounted
    /\ ui' = [ui EXCEPT !.streaming = FALSE]
    /\ streams' = GiveUp(streams)
    /\ ctl' = 0
    /\ UNCHANGED host

Reset ==
    /\ host = "hook" /\ ui.mounted
    /\ ui' = [ui EXCEPT !.streaming = FALSE, !.answer = <<>>, !.extras = {},
                        !.error = FALSE]
    /\ streams' = GiveUp(streams)
    /\ ctl' = 0
    /\ UNCHANGED host

-----------------------------------------------------------------------------
(* The callbacks both give to streamAnswer. React drops a state update of an *)
(* unmounted component.                                                      *)

Mounted(u) == IF ui.mounted THEN u ELSE ui

OnGeneration(k, id) ==
    /\ Event(k)
    /\ ui' = Mounted([ui EXCEPT !.answer = Append(@, [stream |-> k, id |-> id])])
    /\ UNCHANGED host

\* onClassification, onReasoning, onHit, onFollowup, onConfidence, onEvalResult.
OnOther(k, part) ==
    /\ Event(k)
    /\ ui' = Mounted([ui EXCEPT !.extras = @ \cup {part}])
    /\ UNCHANGED host

\* onDone: onRetrievalAgentResult, which only AnswerResults gives, replaces
\* what was streamed (by nothing, when no answer was generated), and
\* onComplete ends.
OnDone(k) ==
    /\ \/ LastEvent(k)
       \/ Answers(k)
    /\ \E full \in {<<>>} \cup {<<[stream |-> k, id |-> id]>> : id \in CitedIds} :
          ui' = Mounted([ui EXCEPT !.streaming = FALSE,
                            !.answer = IF host = "answer" THEN full ELSE @])
    /\ UNCHANGED host

\* Mutant of OnError: an error leaves isStreaming on.
OnErrorStreaming(k) ==
    /\ \/ LastEvent(k)
       \/ Answers(k)
    /\ ui' = Mounted([ui EXCEPT !.error = TRUE])
    /\ UNCHANGED host

OnError(k) ==
    /\ \/ LastEvent(k)
       \/ Answers(k)
    /\ ui' = Mounted([ui EXCEPT !.streaming = FALSE, !.error = TRUE])
    /\ UNCHANGED host

-----------------------------------------------------------------------------
(* citations.ts, on the ids an answer cites in their order *)

CitedInOrder(answer) == [i \in DOMAIN answer |-> answer[i].id]

\* extractAllCitationIds: each id once, where it first appears.
AllCitationIds(answer) ==
    LET ids == CitedInOrder(answer)
        Step(acc, id) == IF Contains(acc, id) THEN acc ELSE Append(acc, id)
    IN FoldLeft(Step, <<>>, ids)

\* renderAsSequentialLinks: the number shown for an id.
SequentialNum(answer, id) == SelectInSeq(AllCitationIds(answer), LAMBDA v : v = id)

\* getCitedResourceIds
CitedResourceIds(answer) == ToSet(CitedInOrder(answer))

-----------------------------------------------------------------------------
AnswerNext ==
    \/ \E q \in Questions : AnswerSubmit(q) \/ StartStream(q)
    \/ \E q \in Questions \cup {""} : AnswerCleanup(q)
    \/ AnswerUnmount \/ StopStream \/ Reset \/ HandleSubmit
    \/ \E r \in 0 .. Scale : HandleRate(r)
    \/ \E k \in 1 .. Latest :
          \/ Resolves(k) /\ UNCHANGED <<host, ui>>
          \/ EndsSilently(k)
          \/ \E id \in CitedIds : OnGeneration(k, id)
          \/ \E part \in Parts : OnOther(k, part)
          \/ OnDone(k) \/ OnError(k)

\* What the client and the server owe a stream: it is answered, read and ended.
StreamEnds(k) ==
    k \in 1 .. Latest /\ (EndsSilently(k) \/ OnDone(k) \/ OnError(k))

=============================================================================
