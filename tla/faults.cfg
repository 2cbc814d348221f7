SPECIFICATION FairSpec
CONSTANTS
  Books = {1, 2}
  Rows = {1, 2}
  Sources = {1}
  RowSource <- MCRowSource
  Users = {u1}
  Devices = {d1}
  Owner <- SameUser
  Tags = {}
  TagUser <- SameTagUser
  Seed <- OneUnseeded
  None = None
  Happens = {"vanish", "giveup", "fail", "restart", "devrestart", "janitor", "reset", "ingest"}
  MaxChanges = 3
  Points = {p1, p2, p3, p4, p5, p6, p7}
  Batch = 1
 
PROPERTY SyncEnds
