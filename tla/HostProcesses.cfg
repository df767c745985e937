\* One install that two calls want, while it leaves the roster and returns, and
\* its process fails.
CONSTANTS
  a = a  b = b  c1 = c1  c2 = c2  p1 = p1
  Installs = {a}  NoInstall = NoInstall
  Calls = {c1, c2}
  Peers = {}
  Local = {}  Away = {}
  Parent <- OfFirst
  FirstRoster <- OnlyOne
  Wants <- FirstThenSecond
  MaxSlots = 2
  MaxSyncs = 2
  MaxFaults = 1
  Frail = {1, 2}
  Cancels = {}
  Kinds = {}
  LateDeath = TRUE
  EarlyReply = FALSE
SPECIFICATION FairSpec
INVARIANTS RosterFollowed ReasonOfThisLife
PROPERTIES AnsweredOnce DrainSpared DrainEnds
\* When every call has been answered nothing more happens.
CHECK_DEADLOCK FALSE
