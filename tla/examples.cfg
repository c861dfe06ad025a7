\* One of the small programs: the completion driver with two threads and a
\* 2-byte buffer; a driver being loaded, with two callers; a timer or
\* workqueue module; the list with three cells; the sorting programs on 4
\* and the binary search on 5 numbers.
SPECIFICATION MCFairSpec
CONSTANTS
  Threads = {t1, t2}
  MAX = 2
  Counts = {1, 3}
  Offsets <- MCOffsets
  MaxCalls = 2
  MaxSignals = 1
  MaxFaults = 1
  Values = {v1, v2}
  MaxLength = 3
  Indexes <- MCIndexes
  Length = 4
  Numbers = {1, 2, 3, 4}
  Callers = {c1, c2}
  Tickets = 4
INVARIANTS
  TypesOK ReadsAreWritten OnePerWrite
  OnlyHasteHarms GoneForGood RingWhole RightResult
PROPERTIES ReadsReturn KeepsList ProgramsEnd
CHECK_DEADLOCK FALSE
