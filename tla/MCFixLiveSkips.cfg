SPECIFICATION Spec
CONSTANTS
  a = a
  b = b
  Entry <- OneEntry
  Internal = {}
  Table = "ddb"
  Segment = {0}
  SegmentOf <- MCSegmentOf
  Concurrency = 2
  MaxVersion = 2
  RevisionSk <- MCRevisionSk
  NoVersion = NoVersion
  NoLive = NoLive
  EmptyLive = EmptyLive
  Absent = Absent
  None = None
  Content <- MCContent
  Groups <- DdbGroups
  MaxRetries = 0
  MaxEdits = 1
  MaxRuns = 2
INVARIANTS
  SkipLeavesEntryUntouched
