------------------------------ MODULE MCApply ------------------------------
(***************************************************************************)
(* The apply path on small instances: the batches of one key that meet in  *)
(* a commit.                                                               *)
(***************************************************************************)
EXTENDS ApplyPath

CONSTANTS k1, r1, r2

Write(ts) == BatchOp(ts, {k1}, {}, NoKeys)
Delete == BatchOp(0, {}, {k1}, NoKeys)
Change(upsert) == BatchOp(0, {}, {}, [k \in {k1} |-> upsert])

MCBatches == {Write(0), Write(1), Delete, Change(FALSE)}
MCTogether == {<<Write(0), Change(TRUE)>>}
MCWrites == {Write(0)}

Symmetry == Permutations(Replicas)

=============================================================================
