\* Two requests over two pools whose capacities change, and two outages.
CONSTANTS
  r1 = r1  r3 = r3  cap = cap  all = all
  Requests = {r1, r3}
  Pools = {cap, all}
  Chain <- OverlappingChains
  Capacities = {1, 2}
  Grace = 2
  MaxOutages = 2
SPECIFICATION FairSpec
INVARIANTS SlotsMatchPermits NoLostTurn WaitWithinGrace
PROPERTIES NotOvertaken WaitingEnds
\* When every request has ended nothing more happens.
CHECK_DEADLOCK FALSE
