SPECIFICATION Spec
CONSTANTS
  l1 = l1
  l2 = l2
  r1 = r1
  Links = {l1}
  Titles <- MCTitles
  TitleOf <- EachItsTitle
  Chapters = {1, 2}
  Ranges <- MCRanges
  Closed <- FirstOnly
  Requests = {r1}
  Sweeper = "sweeper"
  None = None
  MaxVersion = 1
  MaxChanges = 4
  Happens = {"publish", "import", "refresh", "rebuild", "redownload", "purge", "fail", "crash"}
INVARIANTS
  OneAtATime
  
PROPERTIES
  
  ChaptersArrive
  FileComesBack
