\* demo_init beside one user that reads a PHY or a register, or resets the switch.
SPECIFICATION FairDriverSpec
CONSTANTS
  Threads = {insmod, u1}
  BarePagers = {u1}
  MdcAtBoot = FALSE
  NoThread = none
  Loader = insmod
  Pages <- MCPages
  Regs <- MCRegs
  Values <- MCValues
  Noise <- MCNoise
  Struck <- MCStruck
  Factory <- MCFactory
  PhyData <- MCPhyData
  UserOps <- DisturbOps
  MaxOps = 1
  LastTag = 1
  LastEntry = 1
INVARIANT LockedFramesDisjoint
PROPERTY AllReturn
CHECK_DEADLOCK FALSE
