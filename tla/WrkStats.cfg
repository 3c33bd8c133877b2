CONSTANTS
  t1 = t1
  t2 = t2
  Thread <- Threads
  MaxValue = 5
  Percents = {0, 50, 75, 90, 99}
  MaxInterval = 3
  MaxRecords = 2
SPECIFICATION Spec
CHECK_DEADLOCK FALSE
INVARIANT TableIsExact
INVARIANT CorrectionIsOfRecorded
INVARIANT SummaryIsOfTable
