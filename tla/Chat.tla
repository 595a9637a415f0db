-------------------------------- MODULE Chat --------------------------------
(***************************************************************************)
(* The conversation of ChatBar: the turns of the useChatStream hook, the   *)
(* ChatInput that is locked while a stream runs, and the buttons of        *)
(* ChatMessages (follow-ups of the last turn, clarifications of any turn), *)
(* which are not.                                                          *)
(***************************************************************************)
EXTENDS AnswerResults

\* A turn is numbered like its stream. msg: the streams its text came from.
Turn(k, q) == [id |-> k, q |-> q, msg |-> <<>>, follow |-> FALSE,
               clarify |-> FALSE, error |-> FALSE, streaming |-> TRUE]

\* The turns of n requests at most.
ChatTurn(n) == [id : 1 .. n, q : Questions, msg : Seq(1 .. n), follow : BOOLEAN,
                clarify : BOOLEAN, error : BOOLEAN, streaming : BOOLEAN]

ChatUI(n) == [turns : Seq(ChatTurn(n)), streaming : BOOLEAN, mounted : BOOLEAN]

ChatInit ==
    /\ host = "chat"
    /\ ui = [turns |-> <<>>, streaming |-> FALSE, mounted |-> TRUE]
    /\ streams = <<>>
    /\ ctl = 0

\* updateTurn, with the updater as a function of turns; the turn may be gone
\* (reset).
UpdateTurn(u, k, updater) ==
    [u EXCEPT !.turns = [i \in DOMAIN @ |-> IF @[i].id = k THEN updater[@[i]] ELSE @[i]]]

Turns == {ui.turns[i] : i \in DOMAIN ui.turns}

-----------------------------------------------------------------------------
(* ChatInput and ChatMessages *)

InputEnabled == ~ui.streaming

\* Buttons that send: options of a clarification, follow-ups of the last turn.
ButtonEnabled ==
    \E i \in DOMAIN ui.turns :
        /\ ~ui.turns[i].streaming
        /\ ui.turns[i].clarify \/ (i = Len(ui.turns) /\ ui.turns[i].follow)

\* What is shown of a turn besides the user's message.
TurnPanel(t) ==
    (IF t.error THEN {"error"} ELSE {})
        \cup (IF t.streaming /\ t.msg = <<>> /\ ~t.error THEN {"thinking"} ELSE {})
        \cup (IF t.msg # <<>> THEN {"message"} ELSE {})

-----------------------------------------------------------------------------
(* useChatStream under ChatBar *)

\* sendMessage aborts the stream it knows; the turn of that stream keeps its
\* isStreaming.
SendMessage(q) ==
    /\ host = "chat" /\ ui.mounted
    /\ InputEnabled \/ ButtonEnabled
    /\ Latest < MaxStreams
    /\ ui' = [ui EXCEPT !.turns = Append(@, Turn(Latest + 1, q)),
                        !.streaming = TRUE]
    /\ streams' = Fetch(GiveUp(streams))
    /\ UNCHANGED <<host, ctl>>

Settled(u) ==
    [u EXCEPT !.streaming = FALSE,
              !.turns = [i \in DOMAIN @ |-> [@[i] EXCEPT !.streaming = FALSE]]]

\* Offered to the host's renderInput; also run by reset and on unmount.
ChatAbort ==
    /\ host = "chat" /\ ui.mounted
    /\ ui' = Settled(ui)
    /\ streams' = GiveUp(streams)
    /\ ctl' = 0
    /\ UNCHANGED host

ChatReset ==
    /\ host = "chat" /\ ui.mounted
    /\ ui' = [Settled(ui) EXCEPT !.turns = <<>>]
    /\ streams' = GiveUp(streams)
    /\ ctl' = 0
    /\ UNCHANGED host

ChatUnmount ==
    /\ host = "chat" /\ ui.mounted
    /\ ui' = [ui EXCEPT !.mounted = FALSE]
    /\ streams' = GiveUp(streams)
    /\ ctl' = 0
    /\ UNCHANGED host

\* Mutant of ChatGeneration: a chunk goes to the last turn.
ChatGenerationLast(k) ==
    /\ host = "chat" /\ Event(k)
    /\ LET F == [t \in Turns |-> [t EXCEPT !.msg = Append(@, k)]]
       IN ui' = Mounted(UpdateTurn(ui, Latest, F))
    /\ UNCHANGED host

ChatGeneration(k) ==
    /\ host = "chat" /\ Event(k)
    /\ LET F == [t \in Turns |-> [t EXCEPT !.msg = Append(@, k)]]
       IN ui' = Mounted(UpdateTurn(ui, k, F))
    /\ UNCHANGED host

\* onFollowup; the other events of a turn are not told apart.
ChatFollowup(k) ==
    /\ host = "chat" /\ Event(k)
    /\ LET F == [t \in Turns |-> [t EXCEPT !.follow = TRUE]]
       IN ui' = Mounted(UpdateTurn(ui, k, F))
    /\ UNCHANGED host

\* onRetrievalAgentResult and onComplete. isStreaming is shared by the turns.
ChatDone(k) ==
    /\ host = "chat"
    /\ \/ LastEvent(k)
       \/ Answers(k)
    /\ \E more \in BOOLEAN, clarify \in BOOLEAN :
          LET F == [t \in Turns |-> [t EXCEPT !.msg = <<k>>, !.follow = more,
                                               !.clarify = clarify, !.streaming = FALSE]]
          IN ui' = Mounted([UpdateTurn(ui, k, F) EXCEPT !.streaming = FALSE])
    /\ UNCHANGED host

\* Mutant of ChatError: an error of a turn leaves isStreaming on.
ChatErrorStreaming(k) ==
    /\ host = "chat"
    /\ \/ LastEvent(k)
       \/ Answers(k)
    /\ LET F == [t \in Turns |-> [t EXCEPT !.error = TRUE, !.streaming = FALSE]]
       IN ui' = Mounted(UpdateTurn(ui, k, F))
    /\ UNCHANGED host

ChatError(k) ==
    /\ host = "chat"
    /\ \/ LastEvent(k)
       \/ Answers(k)
    /\ LET F == [t \in Turns |-> [t EXCEPT !.error = TRUE, !.streaming = FALSE]]
       IN ui' = Mounted([UpdateTurn(ui, k, F) EXCEPT !.streaming = FALSE])
    /\ UNCHANGED host

-----------------------------------------------------------------------------
vars == <<host, ui, streams, ctl>>

Init == AnswerInit \/ ChatInit

ChatStep ==
    \/ \E q \in Questions : SendMessage(q)
    \/ ChatAbort \/ ChatReset \/ ChatUnmount
    \/ \E k \in 1 .. Latest :
          ChatGeneration(k) \/ ChatFollowup(k) \/ ChatDone(k) \/ ChatError(k)

Next ==
    \/ host # "chat" /\ AnswerNext
    \/ ChatStep
    \/ host = "chat" /\ \E k \in 1 .. Latest :
          (Resolves(k) /\ UNCHANGED <<host, ui>>) \/ EndsSilently(k)

\* The server answers or closes every stream; the user owes nothing.
Ends(k) ==
    \/ host # "chat" /\ StreamEnds(k)
    \/ k \in 1 .. Latest /\ host = "chat" /\ (EndsSilently(k) \/ ChatDone(k) \/ ChatError(k))

Spec == Init /\ [][Next]_vars /\ \A k \in 1 .. MaxStreams : WF_vars(Ends(k))

-----------------------------------------------------------------------------
(* Properties *)

\* Types of the streams, of the controller and of the state of each host.
TypeOK ==
    /\ streams \in Seq(Stream) /\ Latest <= MaxStreams
    /\ ctl \in 0 .. Latest
    /\ host \in {"answer", "hook", "chat"}
    /\ host = "chat" => ui \in ChatUI(Latest)
    /\ host # "chat" => ui \in AnswerUI(Latest)

\* An answer is never put together from the chunks of two requests
\* (startStream clears it and aborts the stream before), unless a request was
\* given up while its fetch was pending, when there is nothing to abort.
AnswersUnmixed ==
    host # "chat" /\ NoneLate =>
        \A i \in DOMAIN ui.answer : ui.answer[i].stream = Latest

\* The text of a turn only comes from the request of that turn, whatever runs
\* late (updateTurn looks its turn up by id).
TurnsUnmixed ==
    host = "chat" =>
        \A i \in DOMAIN ui.turns : ToSet(ui.turns[i].msg) \subseteq {ui.turns[i].id}

\* At most one stream is being read at a time, and the controller that abort
\* and unmount use is that stream's, again unless one was given up unresolved.
OneOpenStream ==
    NoneLate => \A k \in 1 .. Latest :
        streams[k].phase = "open" => k = Latest /\ ctl = k

\* A host that says isStreaming has a request under way, or one that ended
\* without a word: no callback clears the flag after the body just ends.
StreamingAccounted ==
    ui.mounted /\ ui.streaming =>
        Active(Latest) \/ streams[Latest].silent

\* While a request is under way its host shows it: no empty answer and no turn
\* without spinner, text or error, however the callbacks of a request that it
\* superseded come in between.
BusyIsShown ==
    ui.mounted /\ NoneLate /\ Latest > 0 /\ Active(Latest) =>
        /\ host # "chat" => "empty" \notin AnswerPanel
        /\ host = "chat" => \A i \in DOMAIN ui.turns :
              ui.turns[i].id = Latest => TurnPanel(ui.turns[i]) # {}

\* A rating is never submitted for another question than the one on screen
\* when the user gave it (AnswerFeedback resets itself when the query changes).
RatingForItsQuestion ==
    host # "chat" /\ ui.rating # NoRating => ui.rated = ui.query

\* AnswerResults and ChatBar leave no stream open when they unmount, except
\* one whose fetch had not resolved; a request given up earlier may have put
\* its controller in the place of a later one's.
NoneLeaked ==
    ~ui.mounted /\ host # "hook" /\ (\A k \in 1 .. Latest - 1 : ~streams[k].late) =>
        \A k \in 1 .. Latest : Active(k) => streams[k].late

\* The number of a citation is the one it had when only a part of the answer
\* was there (renderAsSequentialLinks numbers ids by first appearance).
CitationNumbersStable ==
    host # "chat" => \A n \in 0 .. Len(ui.answer) :
        LET shown == SubSeq(ui.answer, 1, n)
        IN \A id \in CitedResourceIds(shown) :
              SequentialNum(shown, id) = SequentialNum(ui.answer, id)

\* What is on screen is of one request: answer, turns, citations and rating,
\* however the chunks of requests that were superseded come in between.
TextOfItsRequest ==
    /\ AnswersUnmixed /\ TurnsUnmixed
    /\ RatingForItsQuestion /\ CitationNumbersStable

\* isStreaming and the panels agree with the requests that are under way.
StreamingHonest == TypeOK /\ StreamingAccounted /\ BusyIsShown

\* The stream that is read can be stopped: by the next request, by abort and by
\* the unmount.
StreamsControlled == OneOpenStream /\ NoneLeaked

\* Every stream ends, and then the host no longer says isStreaming unless one
\* of them ended without a word.
Settles ==
    <>[](/\ \A k \in 1 .. Latest : ~Active(k)
         /\ ui.mounted /\ ui.streaming =>
               \E k \in 1 .. Latest : streams[k].silent)

=============================================================================
