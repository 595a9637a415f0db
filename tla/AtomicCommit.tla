---------------------------- MODULE AtomicCommit ----------------------------
(***************************************************************************)
(* What a distributed transaction promises, with neither orchestrator,     *)
(* record, recovery nor messages: every participant ends up with all of    *)
(* its part or with none of it, all participants alike, and what the       *)
(* caller is told agrees with what they do.                                *)
(***************************************************************************)
CONSTANTS
    Txns,
    Parts       \* Parts[t]: the shards that hold a part of t

VARIABLES
    state,      \* state[t][s]: how far shard s is with its part of t
    told        \* told[t]: what the caller of t knows

vars == <<state, told>>

Init ==
    /\ state = [t \in Txns |-> [s \in Parts[t] |-> "working"]]
    /\ told = [t \in Txns |-> "nothing"]

\* All of t's parts are safe: none of them can be lost any more.
CanCommit(t) == \A s \in Parts[t] : state[t][s] \in {"prepared", "committed"}

NoneCommitted(t) == \A s \in Parts[t] : state[t][s] # "committed"

Move(t, s, from, to) ==
    /\ state[t][s] \in from
    /\ state' = [state EXCEPT ![t][s] = to]
    /\ UNCHANGED told

Prepare(t, s) == Move(t, s, {"working"}, "prepared")

Commit(t, s) ==
    /\ CanCommit(t) /\ told[t] # "failed"
    /\ Move(t, s, {"prepared"}, "committed")

Abort(t, s) ==
    /\ NoneCommitted(t) /\ told[t] # "success"
    /\ Move(t, s, {"working", "prepared"}, "aborted")

Report(t, what) ==
    /\ told[t] = "nothing"
    /\ what = "success" => CanCommit(t)
    /\ what = "failed" => NoneCommitted(t)
    /\ told' = [told EXCEPT ![t] = what]
    /\ UNCHANGED state

Next ==
    \E t \in Txns :
        \/ \E s \in Parts[t] : Prepare(t, s) \/ Commit(t, s) \/ Abort(t, s)
        \/ \E what \in {"success", "failed"} : Report(t, what)

Spec == Init /\ [][Next]_vars
=============================================================================
