\* One task, overflowing buffer and channel, two breaks, other clients at work.
CONSTANTS
  Ids = {t1}
  Capacity = 2
  ReplayCapacity = 2
  ChannelCapacity = 2
  MaxChatter = 2
  MaxBreaks = 2
  Others = TRUE
SYMMETRY IdSymmetry
VIEW PageView
SPECIFICATION Spec
INVARIANTS TypeOK CardsConverge
\* Every task submitted and settled, every event handled: nothing is left to do.
CHECK_DEADLOCK FALSE
