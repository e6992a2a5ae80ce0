SPECIFICATION Spec
CONSTANTS
  MaxRows = 4
  FlushEvery = 2
  NumProcessors = 2
  Key <- MCKey
  Claims <- MCClaims
  HonoursDryRun <- MCHonoursDryRun
  HasOptionalTarget <- MCHasOptionalTarget
  EmitsOnEnd <- MCEmitsOnEnd
  HasAfterShard <- MCHasAfterShard
  Pipeline <- MCPipeline
  ProcessorsOf <- MCProcessorsOf
  IsBlackhole <- MCIsBlackhole
INVARIANT DryRunWritesNothing
