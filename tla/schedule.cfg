SPECIFICATION FairSchedule
CONSTANTS
  None = None
  Offline = Offline
  MaxM = 1
  MaxStep = 1
  Tol = 0
  GapMax = 1
  Headroom = 0
  CommandGrace = FALSE
  StartTargets = {0}
  StartActuals = {0}
  Sources = {3}
  Faults = {"noMode", "noReading"}
  Commands = {"abort"}
  Targets = {4}
  Ceilings = {8}
  Readings <- Rising
  ArrivalTol = 0
  Overshoot = 0
  Reach = 1
  Reapproach = 2
  ApproachMargin = 0
  AutoArm = TRUE
  Steps <- Climb
  WaitTicks = 2
  MaxInbox = 2
INVARIANTS ScheduleTypeOK
PROPERTIES ScheduleFinishes ReachedAtTarget
