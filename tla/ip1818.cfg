\* Two threads: one loads the driver, each issues an ioctl.
SPECIFICATION FairSpec
CONSTANTS
  Threads = {insmod, u1}
  Loader = insmod
  UserOps <- MCUserOps
  MaxOps = 1
  Regs <- MCRegs
  Values = {0, 1}
  NoiseCmds <- MCNoiseCmds
  Struck <- MCStruck
  Phys <- MCPhys
INVARIANTS TypeOK PhyReadExact PhyWriteLands
PROPERTY UndisturbedReturns
CHECK_DEADLOCK FALSE
