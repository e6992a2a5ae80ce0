SPECIFICATION Spec
CONSTANTS
  Row = {"a", "b", "x"}
  TableOf <- MCTableOf
  BatchSize = 2
  Object = {"o", "p"}
  Concurrency = 2
  Flushes <- MCFlushes
  MaxRetries = 1
  MaxRuns = 2
INVARIANTS LastPutWins LastWindowWins
PROPERTIES RefinesDelivery ExecutionEnds
