----------------------------- MODULE MCKoboSync -----------------------------
(* KoboSync on small libraries, with the properties of a sync. *)
EXTENDS KoboSync

(* Books 1..n come from rows of the same number; odd rows and even rows *)
(* belong to the first and the second of two sources, if there are two. *)
MCRowSource == [r \in Rows |-> IF 2 \in Sources /\ r % 2 = 0 THEN 2 ELSE 1]
AllSeeded == [r \in Rows |-> r]
OneUnseeded == [r \in Rows \ {2} |-> r]
SameUser == [d \in Devices |-> CHOOSE u \in Users : TRUE]
SameTagUser == [t \in Tags |-> CHOOSE u \in Users : TRUE]
=============================================================================
