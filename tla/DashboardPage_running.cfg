\* Two tasks in one or two runs: when does the page stop saying they run?
CONSTANTS
  Ids = {t1, t2}
  Capacity = 2
  ReplayCapacity = 2
  ChannelCapacity = 2
  MaxChatter = 0
  MaxBreaks = 0
  Others = TRUE
SYMMETRY IdSymmetry
VIEW PageView
CONSTRAINT Trusted
SPECIFICATION Spec
INVARIANTS RunningRecovers
\* Every task submitted and settled, every event handled: nothing is left to do.
CHECK_DEADLOCK FALSE
