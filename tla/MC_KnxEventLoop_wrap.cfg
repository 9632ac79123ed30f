CONSTANTS
  MAX_TIME = 6
  MAX_MSGS = 3
  MSG_BUFS = 1
  TIMER_DELAY = 2
  UINT32_RANGE = 100
  NoTimer = NoTimer
SPECIFICATION Spec
CHECK_DEADLOCK FALSE
INVARIANT WaitEndsByNextTimer
