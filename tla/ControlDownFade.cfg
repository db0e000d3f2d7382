\* One DOWN, played to its end.
SPECIFICATION Spec
CONSTANTS
  Requests = {"START", "LIE_TO_STAND", "WALK", "DOWN"}
  MaxGeneration = 0
  JoystickReports = {}
INVARIANT FadeStartsFromPolicyCommand
