\* Either driver with one reader and one writer that select() before they
\* call; those of poll_select2.c only for their own direction.
SPECIFICATION MCFairSpec
CONSTANTS
  Readers = {r1}
  Writers = {w1}
  Pollers = {r1, w1}
  Sleepers = {r1, w1}
  Sleepers1 = {}
  Counts = {1, 2}
  Initial = 2
  MaxSignals = 2
  MaxFaults = 0
PROPERTIES WritesReturn DataGetsRead
CHECK_DEADLOCK FALSE
