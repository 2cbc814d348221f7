SPECIFICATION FairSpec
CONSTANTS
  Books = {1, 2}
  Rows = {1, 2}
  Sources = {1}
  RowSource <- MCRowSource
  Users = {u1}
  Devices = {d1}
  Owner <- SameUser
  Tags = {1}
  TagUser <- SameTagUser
  Seed <- AllSeeded
  None = None
  Happens = {"ingest", "read", "delete", "tag", "hide"}
  MaxChanges = 3
  Points = {p1, p2, p3}
  Batch = 1
INVARIANT TypeOK
INVARIANT SnapshotIsHeld
INVARIANT NothingExtra
PROPERTY NothingMissed
PROPERTY Converges
PROPERTY HiddenIsRetracted
