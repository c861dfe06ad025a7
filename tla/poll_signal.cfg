\* Either driver with one reader and one writer, and one signal.
SPECIFICATION MCFairSpec
CONSTANTS
  Readers = {r1}
  Writers = {w1}
  Pollers = {r1, w1}
  Sleepers = {}
  Sleepers1 = {}
  Counts = {1}
  Initial = 2
  MaxSignals = 1
  MaxFaults = 0
PROPERTY ToldCanWrite
CHECK_DEADLOCK FALSE
