SPECIFICATION Spec
CONSTANTS
  None = None
  Offline = Offline
  MaxM = 2
  MaxStep = 1
  Tol = 0
  GapMax = 1
  Headroom = 0
  CommandGrace = FALSE
  StartTargets = {0, 2}
  StartActuals = {0, 1}
  Sources = {3}
  Faults = {}
  Commands = {"pause"}
  Targets = {4}
  Ceilings = {8}
  Readings <- Steady
  ArrivalTol = 0
  Overshoot = 0
  Reach = 1
  Reapproach = 2
  ApproachMargin = 0
  AutoArm = TRUE
PROPERTY FlagsBlockEnable
