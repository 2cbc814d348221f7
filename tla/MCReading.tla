----------------------------- MODULE MCReading -----------------------------
(* Reading with one book of two documents, in two versions. *)
EXTENDS Reading

MCDocOf == [p \in Positions |-> p]

\* One book is measured, in its second version.
MCIndexes == {[b \in Books |-> IF b = 1 THEN v ELSE 0] : v \in {2}}

\* One reader has every book and reports in full, the other has one book and
\* leaves sections out.
Full     == CHOOSE d \in Devices : TRUE
MCHolds  == [d \in Devices |-> IF d = Full THEN Books ELSE {1}]
MCShapes == [d \in Devices |->
              IF d = Full THEN {{"status", "bookmark", "location", "statistics"}}
              ELSE {{"status"}, {"status", "bookmark", "statistics"}}]

\* One reader has a clock that is behind, the other does not tell the time.
MCLagOf == [d \in Devices |-> IF d = Full THEN 2 ELSE None]

\* The first version has no spans in its second document; the second has
\* gained a paragraph at its beginning.
MCMeasured ==
    << [words |-> 9, block |-> [p \in {1} |-> 0], doc |-> [c \in {1, 2} |-> 2 * (c - 1)]],
       [words |-> 12, block |-> [p \in Positions |-> 3 * p], doc |-> [c \in {1, 2} |-> 3 * c]] >>
=============================================================================
