SPECIFICATION Spec
CONSTANTS
  Segment = {1, 2}
  Pos <- MCPos
  SegmentOf <- MCSegmentOf
  Setups <- MCMisplaced
  UserFilter <- MCUserFilter
  Fresh <- MCFresh
  QueryLimit = 2
  PageLimit = 2
  BatchSize = 2
  FlushEvery = 3
INVARIANT EveryRichTextConverted
