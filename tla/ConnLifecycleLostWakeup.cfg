\* Two threads sharing the wait queue of one socket; a send buffer of one frame.
CONSTANTS
  MaxCount = 1
  MaxDest = 1
  MaxCalls = 5
  Threads = {t1, t2}
  SndBuf = 1
  RcvQ = 1
SPECIFICATION Spec
PROPERTY SendWaitEnds
CHECK_DEADLOCK FALSE
