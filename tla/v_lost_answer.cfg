SPECIFICATION FairSpec
CONSTANTS
  Books = {1, 2}
  Rows = {1, 2}
  Sources = {1}
  RowSource <- MCRowSource
  Users = {u1}
  Devices = {d1}
  Owner <- SameUser
  Tags = {}
  TagUser <- SameTagUser
  Seed <- AllSeeded
  None = None
  Happens = {"giveup"}
  MaxChanges = 1
  Points = {p1, p2, p3}
  Batch = 1
INVARIANT SnapshotIsHeld
