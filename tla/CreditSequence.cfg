\* A sequence stream of items longer than either window, written by one task.
CONSTANTS
  t1 = t1  t2 = t2  b1 = b1
  Tasks = {t1}
  Threads = {}
  SendWindow = 2
  RecvWindow = 2
  ItemFrames = 3
  Items = 4
  ConsumerCall = "recv"
SPECIFICATION FairSpec
INVARIANT NoViolation
PROPERTY Delivered
\* A handler cancelled before it opened its output may really hang; the
\* liveness properties say where it may not.
CHECK_DEADLOCK FALSE
