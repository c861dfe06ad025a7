\* Two processes with any command lines, beside the chip.
SPECIFICATION FairSpec
CONSTANTS
  Clients = {c1, c2}
  LastTag = 1
  LastEntry = 2
  MaxSpoilt = 1
  LastPhy = 8
  Rounds = 1
  CommandLines <- MCCommandLines
  Flusher = c1
  Regs <- MCRegs
  Factory <- MCFactory
  Noise <- MCNoise
  Struck <- MCStruck
  DumpPages <- MCDumpPages
  DumpRegs <- MCDumpRegs
INVARIANT OthersKept
PROPERTIES FlushLands ClientsEnd
CHECK_DEADLOCK FALSE
