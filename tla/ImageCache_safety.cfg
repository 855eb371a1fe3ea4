\* Three runs, one with --force-download, and a cache that may hold anything.
CONSTANTS
  Runs = {r1, r2, r3}
  Before = Before
  NoFile = NoFile
  Forced = {r1}
  Contents = {"whole", "cut", "junk", "empty"}
SYMMETRY UnforcedSymmetry
VIEW ImageView
SPECIFICATION ImageSpec
INVARIANTS ImageTypeOK CutImageHasCause
PROPERTIES ImageIsNotLost
\* Every run is over.
CHECK_DEADLOCK FALSE
