\* Two runs that begin together.
CONSTANTS
  Runs = {r1, r2}
  Nobody = Nobody
  MaxVms = 2
  NumPorts = 2
  MaxTaken = 0
  MaxCrashes = 0
  MaxRemovals = 0
SYMMETRY RunSymmetry
SPECIFICATION Spec
INVARIANTS MutualExclusion
\* Every run is over and nothing is left to remove.
CHECK_DEADLOCK FALSE
