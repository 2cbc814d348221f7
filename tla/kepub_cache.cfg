SPECIFICATION Spec
CONSTANTS
  b1 = b1
  dev = dev
  pre = pre
  jan = jan
  Books = {b1}
  Devices = {dev}
  Browsers = {}
  Prewarmer = pre
  Janitor = jan
  Slots = 1
  Budget = 0
  MaxVersion = 2
  MaxChanges = 3
  Happens = {"replace", "fail", "cancel", "rebuild", "evict", "crash"}
INVARIANTS
  OneConversion
  NeverStale
PROPERTIES
  Answered
  GetsConverted
