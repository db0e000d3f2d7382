\* Two samples make a fault; counters that wrap; a window in which one lost
\* exchange is allowed.
SPECIFICATION Spec
CONSTANTS
  Motors = {m1, m2}
  Channels = {c1}
  Enabled = {c1}
  WindowCycles = 3
  MaxErrors = 1
  DeltaThreshold = 1
  FaultSamples = 2
  RecoverySamples = 2
  Width = 6
  Growth = {0, 2}
INVARIANTS MotorFaultsFailClosed BusFaultsFailClosed NoLeftoverCommand WholeFrames
PROPERTIES LatchesAreJustified
