\* One slot whose caps change, with an identity probe, and whose host comes back.
CONSTANTS
  m1 = m1  m2 = m2  c1 = c1  c2 = c2  p1 = p1  p2 = p2  k1 = k1  k2 = k2  NoOne = NoOne
  Masters = {m1}
  Calls = {c1}
  Peers = {}
  Parent <- Lineage
  Unwanted = {}
  Returning = {m1}
  Pumps = {k1}
  ProbesFail = TRUE
  BadInventories = TRUE
  MaxLosses = 2
  MaxNotices = 1
SPECIFICATION FairSpec
INVARIANT InHand
PROPERTIES DeadDetached
\* When all has been answered nothing more happens.
CHECK_DEADLOCK FALSE
