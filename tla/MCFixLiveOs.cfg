SPECIFICATION Spec
CONSTANTS
  a = a
  b = b
  Entry <- MCEntry
  Internal <- MCInternal
  Table = "os"
  Segment = {0, 1}
  SegmentOf <- MCSegmentOf
  Concurrency = 2
  MaxVersion = 2
  RevisionSk <- MCRevisionSk
  NoVersion = NoVersion
  NoLive = NoLive
  EmptyLive = EmptyLive
  Absent = Absent
  None = None
  Content <- OsContent
  Groups <- OsGroups
  MaxRetries = 1
  MaxEdits = 1
  MaxRuns = 2
INVARIANTS
  SettledOrReported
  WrittenWhenCertain
PROPERTIES
  NoFresherRowOverwritten
  RunsEnd
