------------------------------- MODULE MCTxn -------------------------------
(***************************************************************************)
(* Small instances of Txn for TLC.                                         *)
(***************************************************************************)
EXTENDS Txn, TLC

CONSTANTS s1, s2, k1, k2, t1, t2, r1, r2

TwoShards == (k1 :> s1) @@ (k2 :> s2)
OneShard == [k \in Keys |-> s1]
AllKeys == [t \in Txns |-> Keys]
NoKeys == [t \in Txns |-> {}]
FirstKey == [t \in Txns |-> {k1}]
SecondKey == [t \in Txns |-> {k2}]

\* The replicas are alike, and with TwoShards and AllKeys so are the shards,
\* each with its key.
Symmetry ==
    {p @@ q : p \in Permutations({r1, r2}),
              q \in {(s1 :> s1) @@ (s2 :> s2) @@ (k1 :> k1) @@ (k2 :> k2),
                     (s1 :> s2) @@ (s2 :> s1) @@ (k1 :> k2) @@ (k2 :> k1)}}

\* Transactions that read and write the same keys are alike.
TxnSymmetry == Permutations(Txns)
=============================================================================
