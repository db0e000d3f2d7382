\* Two places in the ring of samples and one in the queue of events: both are full
\* while the publisher pauses.  The bounds let the indices wrap.
SPECIFICATION FairNodeSpec
CONSTANTS
  Capacity = 3
  Decimation = 2
  MaxReads = 4
  EventCapacity = 1
  MaxEvents = 2
  Attempts = 3
INVARIANTS TeardownIsOrdered EventsAreAccountedFor
PROPERTIES ImplementsQueue PublishedInOrder MarksAreTrue PublicationCatchesUp NodeStops
