SPECIFICATION MCSpec
CONSTANTS
  P1 = P1
  P2 = P2
  P3 = P3
  Procs <- Three
  Missing = Missing
  Empty = Empty
  Junk = Junk
  StartFiles <- AnyFile
  Kinds = {"release", "kill", "unlinkFails"}
  Overlap = TRUE
  Prompt = TRUE
INVARIANT MutualExclusion
PROPERTIES NeverLockedOut
\* in a race every process ends up holding the lock or gone
CHECK_DEADLOCK FALSE
