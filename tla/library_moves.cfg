SPECIFICATION FairSpec
CONSTANTS
  Books = {1, 2}
  Rows = {1, 2}
  Sources = {1, 2}
  RowSource <- MCRowSource
  Users = {u1, u2}
  Devices = {d1}
  Owner <- SameUser
  Tags = {}
  TagUser <- SameTagUser
  Seed <- AllSeeded
  None = None
  Happens = {"hide", "unhide", "toggle", "share", "ingest", "merge", "vanish", "delete", "forget"}
  MaxChanges = 2
  Points = {p1, p2, p3}
  Batch = 1
INVARIANT SnapshotIsHeld
PROPERTY NeverLosesBooks
