\* One thread, and the callbacks of the timer it set.
SPECIFICATION TimerThreadSpec
CONSTANTS
  TimerUsers = {u}
  MaxTimerThreads = 1
  MaxTimerCalls = 2
  MaxCallbacks = 1
PROPERTIES ScheduleReturns
CHECK_DEADLOCK FALSE
