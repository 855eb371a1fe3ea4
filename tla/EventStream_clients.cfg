\* A buffer and a channel small enough to overflow while two clients connect.
CONSTANTS
  Conns = {c1, c2}
  ReplayCapacity = 2
  ChannelCapacity = 3
  MaxEvents = 6
SPECIFICATION FairSpec
INVARIANTS BufferIsRecent
PROPERTIES StreamHasNoGap EventReachesClient
\* Bounded events: idle connections and no event left to push.
CHECK_DEADLOCK FALSE
