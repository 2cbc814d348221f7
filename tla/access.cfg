SPECIFICATION Spec
CONSTANTS
  Users = {"ann"}
  Tokens = {t1, t2}
  Ids = {i1, i2}
  Rows <- MCRows
  BookIDs = {"b"}
  Requests = {r1, r2}
  MaxChanges = 4
SYMMETRY Interchangeable
INVARIANTS OneReaderOneRow
 
CHECK_DEADLOCK FALSE
