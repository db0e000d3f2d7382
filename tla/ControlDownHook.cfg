\* A DOWN that is left for WALK, a glimpse of a lost joystick, and a DOWN again.
SPECIFICATION Spec
CONSTANTS
  Requests = {"START", "LIE_TO_STAND", "WALK", "DOWN"}
  MaxGeneration = 0
  JoystickReports = {TRUE, FALSE}
PROPERTY NewDownRunsItsEntryHook
