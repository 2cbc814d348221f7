SPECIFICATION Spec
CONSTANTS
  Users <- MCUsers
  Readers = {"ann"}
  Books <- MCBooks
  Sources <- MCSources
  BookSource <- MCBookSource
  Tags <- MCTags
  Names <- MCNames
  Labels = {"mood", "read"}
  Usable = {"mood"}
  Says <- MCSays
  Modes = {"off", "both"}
  LooseNames = {"", "sky"}
  Happens = {"device", "setting", "sharing", "series", "hide", "toggle", "columns", "edit", "force", "merge", "fail", "restart"}
  MaxChanges = 4
INVARIANTS ThrownAwayStaysGone  
PROPERTY RevMovesWithTheShelf
CHECK_DEADLOCK FALSE
