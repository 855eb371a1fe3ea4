\* Two runs, one of which may be killed, a port that may be taken, and two
\* calls of `vm rm`, which may come at any time.
CONSTANTS
  Runs = {r1, r2}
  Nobody = Nobody
  MaxVms = 2
  NumPorts = 2
  MaxTaken = 1
  MaxCrashes = 1
  MaxRemovals = 2
SYMMETRY RunSymmetry
VIEW CreationView
SPECIFICATION Spec
INVARIANTS TypeOK OwnDirectory PortsDistinct RecordedVmIsKept
PROPERTIES  ImplementsIds
\* Every run is over and nothing is left to remove.
CHECK_DEADLOCK FALSE
