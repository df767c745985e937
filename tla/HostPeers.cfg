\* A call with a peer request to another cartridge, of the host or of another
\* host; the call may be cancelled and its cartridge may fail.
CONSTANTS
  a = a  b = b  c1 = c1  c2 = c2  p1 = p1
  Installs = {a, b}  NoInstall = NoInstall
  Calls = {c1}
  Peers = {p1}
  Local = {p1}  Away = {p1}
  Parent <- OfFirst
  FirstRoster <- Both
  Wants <- FirstThenSecond
  MaxSlots = 2
  MaxSyncs = 0
  MaxFaults = 1
  Frail = {1}
  Cancels = {c1}
  Kinds = {"CANCEL", "KILL"}
  LateDeath = TRUE
  EarlyReply = FALSE
SPECIFICATION FairSpec
INVARIANTS NobodyForgotten RoutedRight
PROPERTIES RequestEnds
\* When every call has been answered nothing more happens.
CHECK_DEADLOCK FALSE
