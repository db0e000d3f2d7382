\* Two emergencies: enough for a reset bound to the first one to meet the second.
\* The requests drive the robot up to WALK, past the ones that ask for start_control.
\* Fair control cycles against an unfair stream of messages.
SPECIFICATION FairSpec
CONSTANTS
  Requests = {"START", "POSITION", "LIE_TO_STAND", "WALK"}
  MaxGeneration = 2
  JoystickReports = {FALSE}
INVARIANTS StopsWithinTheCycle ResetDiscardsRequests
PROPERTIES StaleResetNeverClears StopIsEventuallyObeyed
