SPECIFICATION Spec
CONSTANTS
  None = None
  Endpoints = {"a", "b"}
  Fronts = {"gui", "cli"}
  Updates = FALSE
  MaxTries = 1
INVARIANTS SessionTypeOK DrivesOnlyOwned EnabledWhereStaged NothingAfterClose ConfirmedStopStays EndReasonTrue
PROPERTY LeaveEnds
