SPECIFICATION ScheduleSpec
CONSTANTS
  None = None
  Offline = Offline
  MaxM = 1
  MaxStep = 1
  Tol = 0
  GapMax = 1
  Headroom = 0
  CommandGrace = FALSE
  StartTargets = {0}
  StartActuals = {0}
  Sources = {3}
  Faults = {"ruby"}
  Commands = {}
  Targets = {4}
  Ceilings = {8}
  Readings <- FarOr4
  ArrivalTol = 0
  Overshoot = 0
  Reach = 1
  Reapproach = 2
  ApproachMargin = 0
  AutoArm = TRUE
  Steps <- Pair
  WaitTicks = 2
  MaxInbox = 1
PROPERTIES ReachedAtTarget
