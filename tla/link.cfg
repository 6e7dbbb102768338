SPECIFICATION Spec
CONSTANTS
  None = None
  Offline = Offline
  MaxM = 2
  MaxStep = 1
  Tol = 0
  GapMax = 1
  Headroom = 0
  CommandGrace = TRUE
  StartTargets = {0, 3}
  StartActuals = {1}
  Sources = {3}
  Faults = {"write", "modeWrite", "slowPoll", "ruby", "noStep"}
  Commands = {"pause", "reset", "target", "quit"}
  Targets = {4, 6}
  Ceilings = {8}
  Readings <- Rushed
  ArrivalTol = 0
  Overshoot = 0
  Reach = 1
  Reapproach = 3
  ApproachMargin = 0
  AutoArm = TRUE
INVARIANTS EnableVetted NeverDrivenDown StepsNotStacked EnableMatchesVerdict ConfirmedStopHolds
PROPERTIES ArmedAboveActual LoweredOnlyInMeasure LostWriteReconciled ImplementsDrive
\* after a quit the polling thread ends and the operator thread exits
CHECK_DEADLOCK FALSE
