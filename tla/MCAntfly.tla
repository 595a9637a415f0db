------------------------------ MODULE MCAntfly ------------------------------
(***************************************************************************)
(* Instance of the Antfly pages: a table with a full-text index only, and   *)
(* one with two embedding indexes.                                         *)
(***************************************************************************)
EXTENDS AntflyPages

MCTableLists == {<<"a", "b">>}
MCIndexesOf == [a |-> <<>>, b |-> <<"ib", "jb">>]
MCChatIndexesOf == [a |-> <<"fa">>, b |-> <<"ib", "jb">>]
MCRerankers == {<<>>, <<"r1", "builtin">>}
MCTrim == ("s1" :> "s1") @@ (" s1" :> "s1")
MCEvents ==
    [s \in Screens |-> CASE s = "evals" -> 7 [] s \in {"explore", "rag", "chat"} -> 6
                         [] OTHER -> 5]

=============================================================================
