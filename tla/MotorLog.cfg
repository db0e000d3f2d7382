\* Two motors and one fault: a queue of two is full as soon as a fault comes and goes,
\* and a round of the worker writes less than what is queued.
SPECIFICATION FairLogSpec
CONSTANTS
  NumJoints = 2
  Faults = {f1}
  Places = 2
  BatchSize = 1
  Stride = 2
  Period = 1
  Settings = {TRUE, FALSE}
INVARIANTS LastWordIsTrue
PROPERTIES GapsAreAnnounced FaultsBecomeKnown
