\* Two runs that are scheduled; one may be killed with the lock in hand.
CONSTANTS
  Runs = {r1, r2}
  Nobody = Nobody
  MaxVms = 2
  NumPorts = 2
  MaxTaken = 0
  MaxCrashes = 1
  MaxRemovals = 0
SPECIFICATION FairSpec
PROPERTIES RunEnds
\* Every run is over and nothing is left to remove.
CHECK_DEADLOCK FALSE
