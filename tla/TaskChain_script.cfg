\* A script that exits non-zero.
CONSTANTS
  Chains = {c1}
  Dirs = {d1}
  NoDir = NoDir
  Artifacts = {a1}
  MaxCommands = 1
SYMMETRY TaskSymmetry
SPECIFICATION Spec
INVARIANTS ScriptFailureIsReported
\* Every chain is over.
CHECK_DEADLOCK FALSE
