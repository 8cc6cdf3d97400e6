SPECIFICATION SequentialSpec
CONSTANTS
  Instants <- MCInstants
  Milliseconds <- MCMilliseconds
  Word32 = 4096
  Builds = {4096, 16777216}
  TimeT32 = 518400
  NsPerTick = 2
  TicksPerMilli = 2
  MillisPerSecond = 4
  EpochDays = 5
  MinDay <- MCMinDay
  MaxDay = 11
  Readings <- MCReadings
  MaxReading = 1440000
  Zones <- MCZones
  SystemTimes <- MCSystemTimes
  FileTimes <- MCFileTimes
  BLOCK = 2
  FILE_BLOCKS = 6
  WRITE_SIZE = 4
  Batches = 2
  Rows = 2
  Count = 4
  Picks = 2
  Prepared = 2
  Added = 2
  CsBlocks = 3
  CsBatches = 12
  CsRows = 12
INVARIANTS DeadlineIsExact TimesSurvive ProgramsKeepTheirWord
PROPERTIES CheckerEnds
CHECK_DEADLOCK FALSE
