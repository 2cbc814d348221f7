SPECIFICATION Spec
CONSTANTS
  s1 = s1
  c1 = c1
  c2 = c2
  r1 = r1
  None = None
  Sources = {s1}
  Unknown = {s1}
  CBooks = {c1, c2}
  Requests = {r1}
  vanishFloor = 1
  MaxChanges = 3
  Happens = {"edit", "wal", "unmount", "fail", "add", "toggle", "scan", "crash"}
INVARIANTS
  SkipIsSound
  OnlyTheGoneAreMissing
PROPERTIES
  Ingested
CHECK_DEADLOCK FALSE
