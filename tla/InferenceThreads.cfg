\* An observation may overtake another and the controller be stopped and restarted
\* wherever the inference thread is; with and without it.
SPECIFICATION FairSpec
CONSTANTS
  MaxObservations = 2
  MaxToggles = 3
INVARIANTS NoLostWakeup
PROPERTIES ShutdownCompletes ObservationsAreTaken
