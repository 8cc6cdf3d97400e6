SPECIFICATION FairSpec
CONSTANTS
  Thread = {t1, t2}
  NoThread = NoThread
  Obj = {o1}
  NullWord = null
  NoText = none
  Text = {none}
  MinInt <- MCMinInt
  MaxInt = 1
  InfiniteBits = 3
  DwordBits = 3
  Timeouts = {1, 7}
  Operations = {"CreateMutexA", "WaitForSingleObject", "ReleaseMutex", "CloseHandle"}
  Careful = TRUE
  PthreadFails = FALSE
  MaxCalls = 5
PROPERTIES ReleasedMutexIsGranted BoundedCallsReturn
CHECK_DEADLOCK FALSE
