SPECIFICATION FairSpec
CONSTANTS
  Slots = 2
  Motions = {"DANCE"}
  MaxEpoch = 4
  MaxRuns = 2
  Width = 8
INVARIANTS TypeOK SummariesAreTrue
PROPERTIES ReportedOnce SummariesArrive
