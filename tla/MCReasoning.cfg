\* Changes of three files with any hunks and imports, one whose agents talk, and every kind of file
\* at every forge.
SPECIFICATION ReviewSpec
CONSTANTS
  NoAnswer = NoAnswer
  MaxShards = 7
  shardConcurrency = 2
  parallelShards = TRUE
  maxDeepSegments = 2
  maxTitle = 3
  maxBody = 8
  shardBytes = 4
  neighborBytes = 4
  clusterWindow = 2
  Answers <- MCAnswers
  Inputs <- MCInputs
  Says <- MCSays
  Packs <- MCPacks
  disabledRules = {"off"}
  maxListed = 3
  FileSizes <- MCFileSizes
  Memories <- MCMemories
  severityOverrides <- MCOverrides
  ImportExtensions <- MCExtensions
INVARIANTS
  DiffIsWhole
  CoverageIsHonest
  ShardsPartitionDiff
  NothingSwallowed
  SuppressedIffAccepted
  ReportedAreSound
PROPERTIES
  ReasonEnds
CHECK_DEADLOCK FALSE
