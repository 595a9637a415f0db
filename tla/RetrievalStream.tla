-------------------------- MODULE RetrievalStream --------------------------
(***************************************************************************)
(* The streaming side of the TypeScript client: performRetrievalAgent of   *)
(* sdk/src/client.ts under streamAnswer of components/src/utils.ts.        *)
(*                                                                         *)
(* A caller gets the AbortController of a stream only when the fetch has   *)
(* resolved: a stream that is still being fetched cannot be aborted. A     *)
(* stream that is aborted, cut, or closed by the server without a "done"   *)
(* or "error" event calls none of the callbacks.                           *)
(***************************************************************************)
EXTENDS Naturals, FiniteSets, Sequences, SequencesExt

CONSTANTS
    Questions,    \* texts a user may send
    MaxStreams,   \* bound on the requests of a behaviour
    MaxEvents     \* bound on the content events of a behaviour

ASSUME StreamAssumption ==
    /\ "" \notin Questions
    /\ MaxStreams \in Nat /\ MaxEvents \in Nat

VARIABLES
    host,     \* the component that uses the client
    ui,       \* its React state
    streams,  \* every request it made
    ctl       \* abortControllerRef: a stream, or 0 (null, or a dummy)


\* late: its caller gave it up while the fetch was pending.
\* silent: it ended without calling back.
Stream == [phase : {"fetching", "open", "closed"},
           events : 0 .. MaxEvents, late : BOOLEAN, silent : BOOLEAN]

Active(k) == streams[k].phase # "closed"
Latest == Len(streams)
EventCount == FoldLeft(LAMBDA n, s : n + s.events, 0, streams)
NoneLate == \A k \in 1 .. Latest : ~streams[k].late

\* controller.abort(): the reader rejects with AbortError, which is swallowed.
\* Without effect on a stream that has ended and on a dummy controller.
Aborted(ss) ==
    IF ctl # 0 /\ ss[ctl].phase = "open"
    THEN [ss EXCEPT ![ctl] = [@ EXCEPT !.phase = "closed", !.silent = TRUE]]
    ELSE ss

\* Mutant of GiveUp: the stream that is being read is not aborted.
GiveUpUnresolved(ss) ==
    [k \in DOMAIN ss |->
        IF ss[k].phase = "fetching" THEN [ss[k] EXCEPT !.late = TRUE] ELSE ss[k]]

\* What the caller gives up: the stream it can abort is, those it cannot go on.
GiveUp(ss) ==
    [k \in DOMAIN ss |->
        IF ss[k].phase = "fetching" THEN [Aborted(ss)[k] EXCEPT !.late = TRUE]
        ELSE Aborted(ss)[k]]

\* fetch() of a new request.
Fetch(ss) ==
    Append(ss, [phase |-> "fetching", events |-> 0, late |-> FALSE,
                silent |-> FALSE])

-----------------------------------------------------------------------------
\* The response is an event stream: the background reader starts and the
\* caller stores the controller.
Resolves(k) ==
    /\ streams[k].phase = "fetching"
    /\ streams' = [streams EXCEPT ![k].phase = "open"]
    /\ ctl' = k

\* The response is JSON, or an error (status, empty body, no connection): one
\* callback, and a dummy controller.
Answers(k) ==
    /\ streams[k].phase = "fetching"
    /\ streams' = [streams EXCEPT ![k].phase = "closed"]
    /\ ctl' = 0

\* One event of the stream with content (classification, reasoning, hit,
\* generation, step, confidence, followup, eval). Data that does not parse is
\* skipped with a warning: no step here.
Event(k) ==
    /\ streams[k].phase = "open"
    /\ EventCount < MaxEvents
    /\ streams' = [streams EXCEPT ![k].events = @ + 1]
    /\ UNCHANGED ctl

\* "done" returns from the reader, "error" throws out of it: nothing after
\* either is read.
LastEvent(k) ==
    /\ streams[k].phase = "open"
    /\ streams' = [streams EXCEPT ![k].phase = "closed"]
    /\ UNCHANGED ctl

\* The body ends without a final event, or the read fails: logged only.
EndsSilently(k) ==
    /\ streams[k].phase = "open"
    /\ streams' = [streams EXCEPT ![k] = [@ EXCEPT !.phase = "closed", !.silent = TRUE]]
    /\ UNCHANGED <<ctl, host, ui>>

=============================================================================
