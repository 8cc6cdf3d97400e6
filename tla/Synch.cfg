SPECIFICATION Spec
CONSTANTS
  Thread = {t1, t2}
  NoThread = NoThread
  Obj = {o1, o2}
  NullWord = null
  NoText = none
  Text = {none, n}
  MinInt <- MCMinInt
  MaxInt = 1
  InfiniteBits = 3
  DwordBits = 3
  Timeouts = {1, 6, 7}
  Operations = {"CreateMutexA", "CreateEventA", "WaitForSingleObject", "ReleaseMutex", "SetEvent", "ResetEvent", "CloseHandle"}
  Careful = TRUE
  PthreadFails = FALSE
  MaxCalls = 4
SYMMETRY Symmetric
INVARIANTS TypeOK HoldsMatchLock WaitsAnswerTruly OneMutexPerName HandlesMatchObjects
CHECK_DEADLOCK FALSE
