---------------------------- MODULE MCCoverCache ----------------------------
(* One book held as EPUB and one that has to be converted.  Readers, and    *)
(* requests for covers, are interchangeable.                                *)
EXTENDS CoverCache, TLC
Interchangeable == Permutations(Readers) \cup Permutations(Viewers)
=============================================================================
