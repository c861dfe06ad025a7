\* MDIO_PHY_READ beside demo_init.
SPECIFICATION DriverSpec
CONSTANTS
  Threads = {insmod, u1}
  BarePagers = {u1}
  MdcAtBoot = TRUE
  NoThread = none
  Loader = insmod
  Pages <- MCPages
  Regs <- MCRegs
  Values <- MCValues
  Noise <- MCNoise
  Struck <- MCStruck
  Factory <- MCFactory
  PhyData <- MCPhyData
  UserOps <- PhyOps
  MaxOps = 1
  LastTag = 1
  LastEntry = 1
INVARIANT PhyReadsData
CHECK_DEADLOCK FALSE
