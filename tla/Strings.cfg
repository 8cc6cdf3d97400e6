SPECIFICATION StringsSpec
CHECK_DEADLOCK FALSE
CONSTANTS
  WordSize = 2
  Unroll = 3
  RSIZE_MAX_MEM = 20
  UINT_MAX = 255
  RSIZE_MAX_STR = 99
  STRTOK_DELIM_MAX_LEN = 2
  SAFE_STR_PASSWORD_MIN_LENGTH = 2
  SAFE_STR_PASSWORD_MAX_LENGTH = 4
  SAFE_STR_MIN_LOWERCASE = 1
  SAFE_STR_MIN_UPPERCASE = 1
  SAFE_STR_MIN_NUMBERS = 0
  SAFE_STR_MIN_SPECIALS = 0
  MAX_FORMAT_ELEMENTS = 3
  MoveMemories <- MCMoveMemories
  CopyMemories <- MCCopyMemories
  QueryMemories <- MCQueryMemories
  ClassMemories <- MCClassMemories
  TokenMemories <- MCTokenMemories
  Lengths = {0, 1, 2, 3, 99}
  Spans = {0, 1, 2}
  Delimiters = 6
  Pieces <- MCPieces
  Handlers = {"abort_handler_s", "ignore_handler_s"}
  SIZE_MAX = 99
  INT32_MAX = 9999
  HEAP_WORK_SIZE = 8
  UINT64_MAX = 65535
  Texts <- MCTexts
  Rooms = {0, 1, 2, 3, 4, 7, 9}
  Paths <- MCPaths
  Buffers <- MCBuffers
  Numbers <- MCNumbers
  Radixes = {1, 2, 8, 10, 16, 36, 37}
  WidePieces <- MCWidePieces
  OddFormats <- MCOddFormats
  MaxPieces = 2
  MaxTokens = 5
INVARIANTS MemoryIsExact  CopiesAreExact QueriesAgree TokenizersAgree ConversionsAreExact 
