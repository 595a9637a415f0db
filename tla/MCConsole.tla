----------------------------- MODULE MCConsole -----------------------------
(***************************************************************************)
(* Instance of the console: two users, two addresses, two nodes.           *)
(***************************************************************************)
EXTENDS Console

MCEvents ==
    [s \in Screens |-> CASE s = "session" -> 6
                         [] s \in {"secrets", "users"} -> 5
                         [] s \in {"tables", "insert", "assistant"} -> 4 [] s = "connection" -> 2
                         [] OTHER -> 3]

MCShard(t, peers, leader, phase) == [table |-> t, peers |-> peers, leader |-> leader, phase |-> phase]
MCSnapshots ==
    {[stores |-> {"n1", "n2"}, shards |-> <<>>],
     [stores |-> {"n1", "n2"},
      shards |-> <<MCShard("t", {"n1", "n2"}, "n1", ""), MCShard("u", {"n2", "n3"}, "n3", ""),
                   MCShard("u", {"n2"}, "n2", "splitting")>>],
     [stores |-> {"n1"}, shards |-> <<MCShard("t", {"n1"}, "", "initializing")>>]}

MCDoc(type, fields) == [type |-> type, fields |-> fields]
MCSamples ==
    {<<MCDoc("a", {"y"}), MCDoc("b", {"x", "_id"}), MCDoc("a", {"x"})>>, <<MCDoc("", {"x"})>>}

MCLine(json, fields) == [json |-> json, fields |-> fields]
MCFiles ==
    [good |-> [text |-> TRUE, lines |-> <<MCLine(TRUE, {"id", "x"}), MCLine(TRUE, {"id"})>>],
     bad |-> [text |-> TRUE, lines |-> <<MCLine(TRUE, {"id"}), MCLine(FALSE, {})>>],
     none |-> [text |-> FALSE, lines |-> <<>>]]

=============================================================================
