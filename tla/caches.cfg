SPECIFICATION Spec
CONSTANTS
  Plain = {"plain"}
  Convertible = {"fb2"}
  Readers = {r1}
  Prewarmer = "prewarmer"
  Builder = "builder"
  Viewers = {v1, v2}
  Slots = 1
  Budget = 1
  MaxVersion = 2
  MaxChanges = 4
  Happens = {"replace", "fail", "cancel", "evict", "crash", "cover"}
SYMMETRY Interchangeable
INVARIANTS IndexIsOfItsFile 
PROPERTY GivenOnDemand
CHECK_DEADLOCK FALSE
