SPECIFICATION Spec
CONSTANTS
  Thread = {t1, t2, t3}
  NoThread = NoThread
  init_state = TRUE
  Failing = {"pthread_mutex_lock", "pthread_mutex_unlock", "pthread_cond_wait", "pthread_cond_timedwait", "pthread_cond_signal"}
  TimeoutTakesSignal = TRUE
  MaxCalls = 4
  MaxSpurious = 1
SYMMETRY Threads
PROPERTIES ImplementsWin32Event
CHECK_DEADLOCK FALSE
