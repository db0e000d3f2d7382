\* A joystick that comes and goes while WALK, DOWN and UP are played, aborted,
\* completed and entered again, and the requests of the poses that lead there;
\* shutdowns and restarts of the controller.
SPECIFICATION Spec
CONSTANTS
  Requests = {"START", "POSITION", "SWITCH_MODE", "WALK", "DOWN", "UP"}
  MaxGeneration = 0
  JoystickReports = {TRUE, FALSE}
INVARIANTS ActivePolicyMatchesMode LostJoystickStandsStill MotionNeedsStart
PROPERTIES CompletionNeedsPlaying ImplementsLadder
