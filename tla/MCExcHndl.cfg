SPECIFICATION ExcHndlSpec
CONSTANTS
  t1 = t1
  t2 = t2
  Thread <- MCThread
  InitThreads <- MCInitThreads
  Depth = 2
  File <- MCFile
  Writable <- MCWritable
  StdErr = "stderr"
  MaxCrashes = 2
INVARIANTS ExcHndlTypeOK BorrowedReturned FilterSane
PROPERTIES ImplementsReportLog FaultsReported FilterReturns
