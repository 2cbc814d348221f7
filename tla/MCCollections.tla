---------------------------- MODULE MCCollections ----------------------------
(* Two books of one library: its owner files both under one name, as a tag,  *)
(* a series or a column's value, and one of them under that name twice.      *)
EXTENDS Collections

MCUsers == {"ann", "bob"}
MCBooks == {"b1", "b2"}
MCSources == {"s"}
MCBookSource == [b \in MCBooks |-> "s"]
MCTags == 1 .. 4
MCNames == {"sea", "sky"}

MCSays == [b \in MCBooks |->
  IF b = "b1" THEN { [tags |-> {"sea"}, series |-> "", columns |-> [l \in {"mood", "read"} |-> IF l = "mood" THEN {"sky"} ELSE {"sea"}]],
                     [tags |-> {"sea"}, series |-> "", columns |-> [l \in {"mood", "read"} |-> IF l = "mood" THEN {"sea"} ELSE {}]] }
  ELSE { [tags |-> {}, series |-> "sea", columns |-> [l \in {"mood", "read"} |-> {}]] }]
=============================================================================
