----------------------------- MODULE MCTermite -----------------------------
(***************************************************************************)
(* Instances of the Termite pages: two models, one text, two runs.         *)
(***************************************************************************)
EXTENDS TermitePages

MCModelLists == {<<>>, <<"m1">>, <<"m2", "builtin">>}

MCChunkLists == {<<>>, <<[start |-> 0, end |-> 2]>>,
                 <<[start |-> 0, end |-> 1], [start |-> 1, end |-> 3]>>}

Mention(k, s) == [key |-> k, score |-> s]
MCKGAnswers ==
    {[entities |-> <<>>, relations |-> <<>>],
     [entities |-> <<Mention("a", 1), Mention("b", 2), Mention("a", 2)>>,
      relations |-> <<[head |-> "a", tail |-> "b"], [head |-> "a", tail |-> "c"]>>]}

MCRegistries ==
    {<<[name |-> "m1", type |-> "reranker", variants |-> <<"f16", "i8">>],
       [name |-> "m2", type |-> "generator", variants |-> <<"i4">>]>>}
\* The pages with few options get more of the user's events.
MCSteps ==
    [p \in Pages |-> CASE p = "rewrite" -> 7
                       [] p \in {"embed", "read", "transcribe", "models"} -> 6
                       [] OTHER -> 4]

MCPlaygrounds == [reranker |-> "rerank"]

=============================================================================
