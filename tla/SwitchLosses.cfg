\* A call, its peer request and that one's own, two masters and two pumps; one
\* connection is lost or one write fails, and the call may be cancelled.
CONSTANTS
  m1 = m1  m2 = m2  c1 = c1  c2 = c2  p1 = p1  p2 = p2  k1 = k1  k2 = k2  NoOne = NoOne
  Masters = {m1, m2}
  Calls = {c1}
  Peers = {p1, p2}
  Parent <- Lineage
  Unwanted = {c1}
  Returning = {}
  Pumps = {k1, k2}
  ProbesFail = FALSE
  BadInventories = FALSE
  MaxLosses = 1
  MaxNotices = 0
SPECIFICATION FairSpec
INVARIANTS OneTerminal NoSilentEnd CascadeComplete
PROPERTIES CallsEnd
\* When all has been answered nothing more happens.
CHECK_DEADLOCK FALSE
