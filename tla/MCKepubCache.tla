---------------------------- MODULE MCKepubCache ----------------------------
(* KepubCache with one book, one download at a time besides the prewarmer and *)
(* the janitor, one conversion slot, and a budget that evicts everything.     *)
EXTENDS KepubCache
CONSTANTS b1, dev, pre, jan
=============================================================================
