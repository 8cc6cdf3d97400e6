SPECIFICATION Spec
CONSTANTS
  Thread = {t1, t2}
  NoThread = NoThread
  Obj = {o1, o2}
  NullWord = null
  NoText = none
  Text = {none}
  MinInt <- MCMinInt
  MaxInt = 1
  InfiniteBits = 3
  DwordBits = 3
  Timeouts = {6}
  Operations = {"CreateEventA", "WaitForSingleObject"}
  Careful = TRUE
  PthreadFails = FALSE
  MaxCalls = 5
SYMMETRY Symmetric
INVARIANTS SuccessMeansAcquired
CHECK_DEADLOCK FALSE
