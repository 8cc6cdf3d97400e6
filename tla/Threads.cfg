SPECIFICATION Spec
CONSTANTS
  Tid = {m, a}
  Main = m
  CutTid = cut
  Zero = zero
  STILL_ACTIVE = active
  Codes = {c}
  NoText = none
  MinInt <- MCMinInt
  MaxInt = 1
  Settings <- MCSettings
  MaxThreads = 3
  MaxCalls = 4
INVARIANTS TypeOK TableMatchesThreads CriticalSectionExcludes
PROPERTIES  CallsReturn
CHECK_DEADLOCK FALSE
