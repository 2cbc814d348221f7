SPECIFICATION Spec
CONSTANTS
  Books <- MCBooks
  Rows <- MCRows
  Sources <- MCSources
  RowSource <- MCRowSource
  FirstKinds <- MCFirstKinds
  Format <- MCFormat
  Convertible = {"FB2"}
  Editions <- MCEditions
  Series = {"saga"}
  Happens = {"ingest", "file", "vanish", "split", "rejoin", "hide", "series", "purge", "fail", "toggle", "edit", "remove", "restart", "upgrade"}
  MaxChanges = 5
INVARIANTS KeysLeadHome SplitApart OfferIsCurrent KeptIsHere
PROPERTY RevisionsAreEarned
CHECK_DEADLOCK FALSE
