SPECIFICATION Spec
CONSTANTS
  Segment = {1, 2}
  Pos <- MCPos
  SegmentOf <- MCSegmentOf
  Setups <- MCSetups
  UserFilter <- MCUserFilter
  Fresh <- MCFresh
  QueryLimit = 2
  PageLimit = 2
  BatchSize = 2
  FlushEvery = 3
INVARIANTS ScanIsExact SiblingsAgree KeysStayApart EveryRowArrives ConvertedOrWarned ClaimedByItsOwn
  MetadataHasItsObject SnapshotTellsTheRun
