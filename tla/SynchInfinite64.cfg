SPECIFICATION Spec
CONSTANTS
  Thread = {t1, t2}
  NoThread = NoThread
  Obj = {o1, o2}
  NullWord = null
  NoText = none
  Text = {none}
  MinInt <- MCMinInt
  MaxInt = 1
  InfiniteBits = 2
  DwordBits = 3
  Timeouts = {3}
  Operations = {"CreateMutexA", "WaitForSingleObject"}
  Careful = TRUE
  PthreadFails = FALSE
  MaxCalls = 5
SYMMETRY Symmetric
INVARIANTS InfiniteNeverTimesOut
CHECK_DEADLOCK FALSE
