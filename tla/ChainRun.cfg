\* Two chains over two pools of one slot; caps fail and one ENDs early, requests
\* are refused at the head and inside of a segment, one chain has a policy.
CONSTANTS
  Plan <- TwoChains
  Needs <- NoNeeds
  PoolsOf <- TwoPools
  Capacity <- OneEach
  Streaming = {}
  TakesStream = {}
  Fails <- SomeFail
  Refusable = {"d", "e"}
  Early = {"d"}
  Retries <- OneRetry
  Tolerated <- OnlyTried
  Window = 1
  Chunks = 1
SPECIFICATION FairSpec
INVARIANTS NothingLeft FailureHasCause
PROPERTY RunEnds
\* When the scope has returned nothing more happens.
CHECK_DEADLOCK FALSE
