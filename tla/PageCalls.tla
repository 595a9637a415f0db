----------------------------- MODULE PageCalls -----------------------------
(***************************************************************************)
(* What the pages of Antfarm have in common: a record of React state and   *)
(* the calls the page has made. No call is cancelled: each answer is       *)
(* applied when it comes, in whatever order. The pages that do cancel      *)
(* their calls are those of Playground.tla.                                *)
(***************************************************************************)
EXTENDS Naturals, FiniteSets, Sequences, SequencesExt

CONSTANTS
    Screens,      \* the pages a run opens
    MaxEvents,    \* bound on the user's events, by screen
    MaxCalls      \* bound on the calls of a page

ASSUME CallsAssumption == MaxEvents \in [Screens -> Nat] /\ MaxCalls \in Nat

VARIABLES
    screen,   \* the page that is open
    st,       \* the page's state
    calls,    \* the page's calls, in order
    events    \* user events so far

\* One event of the user on screen s.
User(s) ==
    /\ screen = s /\ events < MaxEvents[screen]
    /\ events' = events + 1 /\ UNCHANGED screen

\* Steps of the browser and the servers.
Quiet == UNCHANGED <<screen, events>>

\* kind: what is called; of: its arguments; got: what came so far.
Call(kind, of) == [kind |-> kind, of |-> of, done |-> FALSE, got |-> <<>>]

Start(kind, of) ==
    /\ Len(calls) < MaxCalls
    /\ calls' = Append(calls, Call(kind, of))

Open(kind) == {k \in DOMAIN calls : calls[k].kind = kind /\ ~calls[k].done}

\* Call k of a page ends with an answer.
CallEnds(k, kind, got) ==
    /\ calls[k].kind = kind /\ ~calls[k].done
    /\ calls' = [calls EXCEPT ![k].done = TRUE, ![k].got = got]
    /\ Quiet

=============================================================================
