---------------------------- MODULE MCWebImport ----------------------------
(* WebImport with titles of two chapters: all of them, from the second on, *)
(* and only the first, which is a last chapter set.                        *)
EXTENDS WebImport
CONSTANTS l1, l2, r1
EachItsTitle == [l \in Links |-> <<"title", l>>]
MCTitles     == {<<"title", l>> : l \in Links}
MCRanges     == {{1, 2}, {2}, {1}}
FirstOnly    == {{1}}
=============================================================================
