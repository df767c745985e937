\* A scalar stream written by an async task and a blocking thread at once,
\* against a receiver whose batch is larger than the sender's window.
CONSTANTS
  t1 = t1  t2 = t2  b1 = b1
  Tasks = {t1, t2}
  Threads = {b1}
  SendWindow = 2
  RecvWindow = 6
  ItemFrames = 1
  Items = 2
  ConsumerCall = "recv"
SPECIFICATION FairSpec
INVARIANTS Conservation NoLostWakeup
PROPERTIES Delivered CloseReleases PipeSpec
\* A handler cancelled before it opened its output may really hang; the
\* liveness properties say where it may not.
CHECK_DEADLOCK FALSE
