\* Two readers that select for both directions.
SPECIFICATION FairSpec
CONSTANTS
  Readers = {r1, r2}
  Writers = {w1}
  Pollers = {r1, r2, w1}
  Sleepers = {}
  Counts = {1}
  Initial = 0
  MaxSignals = 0
  MaxFaults = 0
PROPERTY WritesReturn
CHECK_DEADLOCK FALSE
