SPECIFICATION FairSpec
CONSTANTS
  Thread = {t1, t2, t3}
  NoThread = NoThread
  init_state = FALSE
  Failing = {}
  TimeoutTakesSignal = FALSE
  MaxCalls = 4
  MaxSpurious = 1
INVARIANTS TypeOK StateIsStable OneWaitPerSet NoLostWakeup
PROPERTIES EventCallsReturn ImplementsWin32Event
CHECK_DEADLOCK FALSE
