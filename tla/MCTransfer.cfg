SPECIFICATION Spec
CONSTANTS
  ddb = ddb
  os = os
  NumSegments = 2
  Processor <- MCProcessor
  NumBefore = 1
  NumAfter = 2
  MaxRuns = 3
INVARIANTS
  TypeOK
  NoSegmentForgotten
  HooksBracketWorkers
  TotalsAreHonest
PROPERTIES
  AfterHooksGetTheirTurn
  EveryRunEnds
