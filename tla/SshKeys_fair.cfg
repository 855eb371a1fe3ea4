\* Two runs, either of which may be killed, two calls of `vm rm` at any time.
CONSTANTS
  Runs = {r1, r2}
  Before = Before
  NoKey = NoKey
  Blank = Blank
  Nobody = Nobody
  MaxAttempts = 2
  MaxRetries = 2
  MaxRemovals = 2
SPECIFICATION KeyFairSpec
INVARIANTS KeyTypeOK LockIsOwn LockedRunsAgree VerifiedVmKeepsKey
PROPERTIES KeyRunEnds
\* Every run is over and nothing is left to remove.
CHECK_DEADLOCK FALSE
