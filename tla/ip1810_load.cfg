\* demo_init beside two users that write a PHY command or count packets of a port.
SPECIFICATION DriverSpec
CONSTANTS
  Threads = {insmod, u1, u2}
  BarePagers = {}
  MdcAtBoot = FALSE
  NoThread = none
  Loader = insmod
  Pages <- MCPages
  Regs <- MCRegs
  Values <- MCValues
  Noise <- MCNoise
  Struck <- MCStruck
  Factory <- MCFactory
  PhyData <- MCPhyData
  UserOps <- LoadOps
  MaxOps = 1
  LastTag = 2
  LastEntry = 1
INVARIANT SwitchProgrammed
PROPERTIES CounterSelected WritesKept
SYMMETRY UserSymmetry
CHECK_DEADLOCK FALSE
