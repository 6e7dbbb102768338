SPECIFICATION Spec
CONSTANTS
  Procs = {P1, P2, P3}
  Missing = Missing
  Empty = Empty
  Junk = Junk
  StartFiles = {Junk}
  Kinds = {}
  Overlap = TRUE
  Prompt = TRUE
CHECK_DEADLOCK FALSE
PROPERTIES OverwritesOnlyStale
