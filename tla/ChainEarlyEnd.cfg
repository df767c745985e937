\* A pipeline of two steps whose last one may end before it has read its input.
CONSTANTS
  Plan <- OneChain
  Needs <- NoNeeds
  PoolsOf <- OnePool
  Capacity <- OneEach
  Streaming = {}
  TakesStream = {}
  Fails <- NoneFail
  Refusable = {}
  Early = {"b"}
  Retries <- NoRetry
  Tolerated = {}
  Window = 1
  Chunks = 1
SPECIFICATION FairSpec
INVARIANT OnlyErrorsFail
CHECK_DEADLOCK FALSE
