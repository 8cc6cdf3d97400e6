SPECIFICATION Spec
CONSTANTS
  Thread = {t1, t2}
  NoThread = NoThread
  Obj = {o1, o2}
  NullWord = null
  NoText = none
  Text = {none, n}
  MinInt <- MCMinInt
  MaxInt = 1
  InfiniteBits = 3
  DwordBits = 3
  Timeouts = {1, 7}
  Operations = {"CreateMutexA", "CreateEventA", "WaitForSingleObject", "ReleaseMutex", "SetEvent", "ResetEvent", "CloseHandle"}
  Careful = FALSE
  PthreadFails = TRUE
  MaxCalls = 4
SYMMETRY Symmetric
INVARIANTS HoldsMatchLock OneMutexPerName
CHECK_DEADLOCK FALSE
