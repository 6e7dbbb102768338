SPECIFICATION FairSpec
CONSTANTS
  None = None
  Offline = Offline
  MaxM = 1
  MaxStep = 1
  Tol = 0
  GapMax = 1
  Headroom = 0
  CommandGrace = FALSE
  StartTargets = {0}
  StartActuals = {0}
  Sources = {3}
  Faults = {"write", "modeWrite", "statusRead", "lag", "panel", "leak", "offline", "slowPoll"}
  Commands = {"abort"}
  Targets = {4}
  Ceilings = {8}
  Readings <- WithSpike
  ArrivalTol = 0
  Overshoot = 0
  Reach = 1
  Reapproach = 2
  ApproachMargin = 0
  AutoArm = TRUE
PROPERTIES Reapproaches AbortLeadsToMeasure
