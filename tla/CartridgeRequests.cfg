\* Two requests and a third that only competes, one slot or two.
CONSTANTS
  r1 = r1  r2 = r2  r3 = r3  all = all
  Requests = {r1, r2, r3}
  Pools = {all}
  Chain <- OnePool
  Capacities = {1, 2}
  Callers = {r2}
  BigArgs = {r2}
  Writers = {r2}
  Before <- InOrder
  MaxChanges = 1
  MaxInbox = 1
  Cancellable = {r2}
SPECIFICATION FairSpec
INVARIANTS OneTerminal Accounted SlotsMatchHandlers NoLostTurn
PROPERTIES NotOvertaken RequestEnds
\* When every request has ended nothing more happens.
CHECK_DEADLOCK FALSE
