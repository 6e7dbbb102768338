SPECIFICATION Spec
CONSTANTS
  None = None
  Offline = Offline
  MaxM = 2
  MaxStep = 1
  Tol = 0
  GapMax = 1
  Headroom = 0
  CommandGrace = FALSE
  StartTargets = {2}
  StartActuals = {0}
  Sources = {1, 3}
  Faults = {"drift", "source", "noTarget"}
  Commands = {"pause", "resume", "target", "abort", "configure"}
  Targets = {4, 6}
  Ceilings = {4, 8}
  Readings <- Near
  ArrivalTol = 0
  Overshoot = 0
  Reach = 1
  Reapproach = 2
  ApproachMargin = 0
  AutoArm = TRUE
INVARIANT TypeOK
PROPERTIES NoPushWhileReduced PushesOnlyBelowTarget
