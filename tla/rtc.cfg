\* Two callers and two seconds, next to every carry of the clock; or two
\* threads on the bus, where the second device address is not on it.
SPECIFICATION MCSpec
CONSTANTS
  Callers = {c1, c2}
  Times <- MCTimes
  StartTimes <- MCStartTimes
  StartModes = {TRUE, FALSE}
  StartHalts = {TRUE, FALSE}
  MaxTicks = 2
  MaxCalls = 1
  Threads = {t1, t2}
  NoThread = none
  Chip = 208
  Devices = {208, 160}
  Addrs = {0, 5}
  Values = {0, 89}
INVARIANTS
  TypesOK ReadNotBehind ReadExact ReadStartsChip SetLands
  BusIdleBetweenCalls AbsentReadsOnes
PROPERTY AtomicRegisters
SYMMETRY Symmetry
CHECK_DEADLOCK FALSE
