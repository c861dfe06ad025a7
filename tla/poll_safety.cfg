\* Either driver, every kind of caller, a signal and a failed copy.
SPECIFICATION MCSpec
CONSTANTS
  Readers = {r1, r2}
  Writers = {w1, w2}
  Pollers = {r1, w1}
  Sleepers = {r1}
  Sleepers1 = {r1}
  Counts = {0, 1}
  Initial = 2
  MaxSignals = 1
  MaxFaults = 1
INVARIANTS TypeOK SemaphoreKeeps ClearsWhatItCopied
PROPERTY UnreadKept
CHECK_DEADLOCK FALSE
