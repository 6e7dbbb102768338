SPECIFICATION FairSpec
CONSTANTS
  None = None
  Values = {0, 2}
  Idles = {2}
  IoTimes = {0, 1}
  Window = 3
  Smoothing = 7
  SlopeWindow = 3
  MinPoints = 3
  MaxAge = 1
  MaxJump = 1
  HardJump = 1
  RateCap = 1
  MaxStale = 2
  MaxInvalid = 2
  MaxJumps = 2
  MaxErrors = 3
  RubyAfter = 3
  MembraneAfter = 3
  PollEvery = 3
INVARIANTS SensingTypeOK SilenceBounded
PROPERTIES WithinChoices GoodReadsClear
