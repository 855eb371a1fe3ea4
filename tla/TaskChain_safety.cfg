\* Two chains over three tasks, one after the other or at once.
CONSTANTS
  Chains = {c1, c2}
  Dirs = {d1, d2, d3}
  NoDir = NoDir
  Artifacts = {a1}
  MaxCommands = 1
SYMMETRY TaskSymmetry
VIEW HostView
SPECIFICATION Spec
INVARIANTS TypeOK PlanIsFinite HandoffIsOwn HostIsClean
PROPERTIES CloneOutlivesVm
\* Every chain is over.
CHECK_DEADLOCK FALSE
