\* Time-outs of 200 ms, the gap of 250 ms and the debounce of 500 ms become 1, 2 and 3
\* units.  Either the stick or START is used: the two share no state
\* but the radio's.  Three messages of /cmd_vel arrive, enough for the buffer's word
\* to come back while update() is between its load and its compare-exchange; how many
\* more are sent and lost is not bounded.
SPECIFICATION OperatorSpec
CONSTANTS
  MaxPackets = 3
  Devices = {"sbus", "joy"}
  CommandSets = {{"walk"}, {"start"}}
  SignalTimeout = 1
  CommandTimeout = 1
  ReleaseGap = 2
  Debounce = 3
  MaxPresses = 3
INVARIANTS NoTornRead StickBehindMotion DeliberatePressActs
PROPERTIES ImplementsMailbox PressActsOnce
