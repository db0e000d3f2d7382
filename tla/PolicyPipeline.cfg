\* Enough epochs to leave a policy (or stop and restart the controller) with a
\* run on its way and to come back to it; a motion with its preparation (UP).
\* The bounds on the clock and the epochs stop the model.
SPECIFICATION FairSpec
CONSTANTS
  Motions = {"UP"}
  Timeout = 2
  Period = 1
  MaxEpoch = 5
  MaxObservations = 2
  MaxTime = 5
INVARIANTS DrivenByThisVisit
PROPERTIES NoStaleAction CompletionDrivesLastFrame MotionsEnd
CHECK_DEADLOCK FALSE
