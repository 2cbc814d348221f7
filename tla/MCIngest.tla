------------------------------ MODULE MCIngest ------------------------------
(* Two copies of one book in two libraries, one of them re-titled now and   *)
(* then into another book, and a third row imported from a link or uploaded. *)
EXTENDS Ingest

MCBooks == 1 .. 3
MCRows == 1 .. 3
MCSources == 1 .. 2
MCRowSource == [r \in MCRows |-> IF r = 3 THEN 2 ELSE 1]
MCFirstKinds == [s \in MCSources |-> IF s = 1 THEN {"calibre"} ELSE {"web", "upload"}]
MCFormat == [r \in MCRows |-> CASE r = 1 -> "EPUB" [] r = 2 -> "FB2" [] r = 3 -> "FIXED"]

Road == [words |-> <<"the", "road">>, aside |-> FALSE]
RoadUnabridged == [words |-> <<"road">>, aside |-> TRUE]
Sea == [words |-> <<"sea">>, aside |-> FALSE]
Isbn10 == <<0, 3, 0, 6, 4, 0, 6, 1, 5, 2>>
Isbn13 == <<9, 7, 8, 0, 3, 0, 6, 4, 0, 6, 1, 5, 7>>

MCEditions == [r \in MCRows |->
  CASE r = 1 -> { [uuid |-> "u1", isbn |-> <<>>, title |-> Road, authors |-> <<"mccarthy">>, link |-> NoText, cover |-> TRUE, present |-> TRUE],
                  [uuid |-> "u1", isbn |-> Isbn10, title |-> Sea, authors |-> <<"banville">>, link |-> NoText, cover |-> TRUE, present |-> FALSE] }
    [] r = 2 -> { [uuid |-> "u2", isbn |-> <<>>, title |-> RoadUnabridged, authors |-> <<"mccarthy", "foe">>, link |-> NoText, cover |-> FALSE, present |-> TRUE],
                  [uuid |-> "u9", isbn |-> <<>>, title |-> Sea, authors |-> <<"banville">>, link |-> NoText, cover |-> TRUE, present |-> TRUE] }
    [] r = 3 -> { [uuid |-> NoText, isbn |-> Isbn13, title |-> Road, authors |-> <<"mccarthy">>, link |-> "l", cover |-> FALSE, present |-> TRUE] }]
=============================================================================
