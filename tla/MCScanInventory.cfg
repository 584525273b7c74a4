SPECIFICATION MCSpec
CONSTANTS
  Workers = {w1, w2}
  Total = 3
  Retries = 1
INVARIANTS NoImageDropped NoReportOfCancelledScan CleanupAlone OneScanPerImage AtMostOneLateScan
PROPERTIES ResultsAreFinal EventuallyReturns KeepsPromise
CHECK_DEADLOCK FALSE
