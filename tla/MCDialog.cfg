CONSTANTS
  Report = 4
  Heap = {h1, h2, h3, h4}
  Stack = stack
  QueueLimit = 3
  Saves = 2
SPECIFICATION FairSpec
INVARIANTS
  TextInOrder
  BuffersOwned
PROPERTY ReportShown
