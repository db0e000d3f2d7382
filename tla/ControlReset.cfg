\* One emergency, its reset, and a request that is not START.
SPECIFICATION Spec
CONSTANTS
  Requests = {"POSITION"}
  MaxGeneration = 1
  JoystickReports = {}
INVARIANT DisabledUntilStarted
