\* Two threads, two pages of one register; frames of 10 bits after 10 ones.
SPECIFICATION PinsSpec
CONSTANTS
  Threads = {t1, t2}
  NoThread = none
  Pages = {1, 2}
  Regs = {1}
  Values = {1, 2}
  Noise = {1, 2}
  Struck = {1}
  BarePagers = {}
  MdcAtBoot = TRUE
  AddrBits = 1
  ValBits = 2
  Preamble = 10
  PageReg = 2
INVARIANTS TypeOK RightPage
PROPERTIES AtomicRegisters FramesDelivered
