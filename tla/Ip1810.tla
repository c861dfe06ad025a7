------------------------------- MODULE Ip1810 -------------------------------
(***************************************************************************)
(* The IP1810 driver above its register accesses: demo_init, which         *)
(* programs the switch while the module loads, the commands of misc_ioctl  *)
(* (drv/ip1810/mdio.c) and ip1829_phy_reg_read (smi.c).  Each is a list of *)
(* instructions, one per register access, run on Ip1810Access: accesses of *)
(* other threads, and the chip itself, may come between two of them.       *)
(***************************************************************************)
EXTENDS Ip1810Access, Ip1810Script

CONSTANTS
  Loader,      \* the thread that runs demo_init
  UserOps,     \* the ioctls that users issue
  MaxOps,      \* bound: ioctls per user
  Factory,     \* the VLAN table before: entry -> field -> value
  PhyData      \* the registers of the PHYs: <<phy, reg>> -> value

(* The ioctls of misc_ioctl and their arguments. *)
Requests ==
  [name: {"read"}, page: Pages, reg: Regs]
  \union [name: {"write"}, page: Pages, reg: Regs, val: Values]
  \union [name: {"count"}, cmd: Values]
  \union [name: {"phy"}, phy: Nat, reg: Nat]
  \union [name: {"reset"}]

(* The registers programmed are there, those of the ports come before      *)
(* those of the table, and an entry of the table is named by 14 bits.      *)
ASSUME Ip1810Assumption ==
  /\ Loader \in Threads
  /\ LastTag \in Nat \ {0} /\ LastEntry \in Nat \ {0}
  /\ TagReg(LastTag - 1) < TableCommand
  /\ Values = SUBSET (0..15)
  /\ {0, 2, 3} \subseteq Pages
  /\ {1, 6, 100, 101, 102, TableCommand, PhyCommand, PhyResult} \union Fields
       \union {TagReg(i) : i \in 0..(LastTag - 1)} \subseteq Regs
  /\ UserOps \subseteq Requests
  /\ 1..LastEntry \subseteq DOMAIN Factory
  /\ \A e \in DOMAIN Factory : e \in Nat /\ e < 2^14
  /\ Factory \in [DOMAIN Factory -> [Fields -> Values]]
  /\ \A a \in DOMAIN PhyData : PhyData[a] \in Values

VARIABLES
  op,       \* the operation each thread is in
  pc,       \* its next instruction
  local,    \* its local variables: data (or val, l_val) and tmp (or h_val)
  result,   \* what its last ioctl returned
  used,     \* ioctls each user has issued
  vlan      \* the VLAN table inside the chip

hostVars == <<op, pc, local, result, used>>
vars == <<accessVars, hostVars, vlan>>
-----------------------------------------------------------------------------
NoOp == [name |-> "none"]

NoResult == [op |-> NoOp, ret |-> 0, val |-> {}]

Users == Threads \ {Loader}

(* misc_register is the first call of demo_init: from then on users issue  *)
(* ioctls while the switch is being programmed.                            *)
DriverInit ==
  /\ lock = NoThread /\ mdcOut = MdcAtBoot /\ page = 0
  /\ mem = [a \in Addrs |-> {}]
  /\ io = [t \in Threads |-> NoAccess]
  /\ bus = {} /\ clash = {} /\ stale = {}
  /\ op = [t \in Threads |-> IF t = Loader THEN [name |-> "init"] ELSE NoOp]
  /\ pc = [t \in Threads |-> 1]
  /\ local = [t \in Threads |-> [data |-> {}, tmp |-> {}]]
  /\ result = [t \in Threads |-> NoResult]
  /\ used = [t \in Threads |-> 0]
  /\ vlan = Factory

(* A user enters misc_ioctl. *)
Begin(t) ==
  /\ op[t] = NoOp /\ used[t] < MaxOps
  /\ \E o \in UserOps : op' = [op EXCEPT ![t] = o]
  /\ pc' = [pc EXCEPT ![t] = 1]
  /\ local' = [local EXCEPT ![t] = [data |-> {}, tmp |-> {}]]
  /\ used' = [used EXCEPT ![t] = @ + 1]
  /\ UNCHANGED <<accessVars, result, vlan>>

Running(t) == op[t] # NoOp /\ op[t].name # "reset"

Left(t) == pc[t] \in DOMAIN Script(op[t])

Current(t) == Script(op[t])[pc[t]]

Kind(do) == IF do \in {"store", "or"} THEN "write"
            ELSE IF do = "page" THEN "page" ELSE "read"

(* The thread calls me_mdio_read, me_mdio_write or IP2Page. *)
Issue(t) ==
  /\ Running(t) /\ Left(t)
  /\ LET i == Current(t)
         v == IF i.do = "or" THEN local[t].data \union i.val ELSE i.val
     IN /\ Call(t, Kind(i.do), i.page, i.reg, v)
        /\ local' = IF i.do = "or" THEN [local EXCEPT ![t].data = v] ELSE local
  /\ UNCHANGED <<op, pc, result, used, vlan>>

Shift(t) == Transfer(t) /\ UNCHANGED <<hostVars, vlan>>

(* The access returns: keep what it read, and go on or go round again. *)
Complete(t) ==
  /\ Running(t)
  /\ Return(t)
  /\ LET i == Current(t) IN
     /\ local' = IF Kind(i.do) # "read" THEN local
                 ELSE IF i.do = "data" THEN [local EXCEPT ![t].data = io[t].val]
                 ELSE [local EXCEPT ![t].tmp = io[t].val]
     /\ pc' = [pc EXCEPT ![t] = @ + 1 - Back(i.do, io[t].val)]
                                  \* "whileOne" is the last of 3 in its loop
  /\ UNCHANGED <<op, result, used, vlan>>

(* What misc_ioctl hands back.  ip1829_phy_reg_read returns val, or -1 for *)
(* a bad PHY; the u16 field it is stored in never equals -1.               *)
Outcome(t) ==
  IF op[t].name = "phy" /\ op[t].phy < 8
  THEN LET val == (-1) % 65536 IN
       [op |-> op[t], ret |-> IF val = -1 THEN -1 ELSE 0, val |-> Word(val)]
  ELSE [op |-> op[t], ret |-> 0, val |-> local[t].data]

Finish(t) ==
  /\ Running(t) /\ ~Left(t)
  /\ op' = [op EXCEPT ![t] = NoOp]
  /\ result' = [result EXCEPT ![t] = Outcome(t)]
  /\ UNCHANGED <<accessVars, pc, local, used, vlan>>

(* SWITCH_RESET drives the reset line of the chip low, without the lock.   *)
(* A chip in reset answers to no frame: every frame is a garbled one.      *)
PullReset(t) ==
  /\ op[t].name = "reset" /\ t \notin bus
  /\ bus' = bus \union {t}
  /\ clash' = clash \union bus \union {t}
  /\ UNCHANGED <<lock, mdcOut, page, mem, io, stale, hostVars, vlan>>

(* It drives the line high again: the chip restarts with its defaults. *)
ReleaseReset(t) ==
  /\ op[t].name = "reset" /\ t \in bus
  /\ LeaveBus(t)
  /\ page' = 0
  /\ mem' = [a \in Addrs |-> {}]
  /\ vlan' = Factory
  /\ op' = [op EXCEPT ![t] = NoOp]
  /\ UNCHANGED <<lock, mdcOut, io, stale, pc, local, result, used>>

(* The chip carries out the VLAN table command. *)
VlanEngine ==
  /\ 15 \in mem[<<2, TableCommand>>]
  /\ mem' = TableDone(mem, vlan).mem
  /\ vlan' = TableDone(mem, vlan).vlan
  /\ UNCHANGED <<lock, mdcOut, page, io, bus, clash, stale, hostVars>>

(* The chip fetches a PHY register and clears the busy bit. *)
PhyEngine ==
  /\ 15 \in mem[<<3, PhyCommand>>]
  /\ \E v \in {PhyData[a] : a \in {b \in DOMAIN PhyData :
                 PhyWord(b[1], b[2]) = mem[<<3, PhyCommand>>]}} \union {{}} :
       /\ v = {} => \A b \in DOMAIN PhyData :
                      PhyWord(b[1], b[2]) # mem[<<3, PhyCommand>>]
       /\ mem' = [mem EXCEPT ![<<3, PhyCommand>>] = @ \ {15},
                             ![<<3, PhyResult>>] = v]
  /\ UNCHANGED <<lock, mdcOut, page, io, bus, clash, stale, hostVars, vlan>>

Host(t) == Issue(t) \/ Shift(t) \/ Complete(t) \/ Finish(t)

DriverNext ==
  \/ \E t \in Users : Begin(t) \/ PullReset(t) \/ ReleaseReset(t)
  \/ \E t \in Threads : Host(t)
  \/ VlanEngine
  \/ PhyEngine

DriverSpec == DriverInit /\ [][DriverNext]_vars

(* A thread inside a call keeps running (the holder of the spinlock is     *)
(* not preempted, and nobody waits for more), the ticket spinlocks of ARM  *)
(* serve their waiters in order, a frame has a last bit however often its  *)
(* sender writes the direction register back, and the chip carries out its *)
(* commands.                                                               *)
FairDriverSpec ==
  /\ DriverSpec
  /\ \A t \in Threads : WF_vars(Host(t)) /\ SF_vars((Acquire(t) \/ EndPage(t)) /\ Shift(t))
  /\ \A t \in Users : WF_vars(PullReset(t) \/ ReleaseReset(t))
  /\ WF_vars(VlanEngine) /\ WF_vars(PhyEngine)
-----------------------------------------------------------------------------
(* While other threads read registers and count packets, demo_init leaves  *)
(* the switch as its comments say: tag based VLANs enabled (page 2,        *)
(* register 6), every port with its tag, and every VLAN entry the one the  *)
(* chip had with the new bits added; the other entries are untouched.      *)
Programmed(i) ==
  [Factory[i] EXCEPT ![211] = Word(i),
                     ![212] = @ \union {1, 13, 14, 15},
                     ![213] = @ \union 0..4,
                     ![216] = @ \union {15}]

SwitchProgrammed ==
  op[Loader] = NoOp =>
    /\ {1, 3} \subseteq mem[<<2, 6>>]
    /\ \A i \in 0..(LastTag - 1) : mem[<<2, TagReg(i)>>] = TagWord(i)
    /\ \A i \in DOMAIN Factory :
         vlan[i] = IF i \in 1..LastEntry THEN Programmed(i) ELSE Factory[i]

(* The instructions of a thread that have taken effect: a write has when   *)
(* its second frame ends.                                                  *)
Done(t) ==
  IF io[t].at \in {"unlock", "done"} /\ io[t].op = "write" THEN pc[t] ELSE pc[t] - 1

(* A count has written the command of its counter, its fourth access. *)
Selected(t) == op[t].name = "count" /\ Done(t) >= 4

(* MDIO_COUNT selects the counter of its command, and from then on until   *)
(* both halves are read nothing takes the counter away from it but another *)
(* MDIO_COUNT that selects its own: demo_init, reads, writes of other      *)
(* registers and the page changes of all of them do not.                   *)
CounterSelected ==
  [][\A t \in Users : Selected(t)' =>
       \/ mem'[<<0, 100>>] = op'[t].cmd
       \/ Selected(t) /\ mem[<<0, 100>>] # op[t].cmd
       \/ \E u \in Users \ {t} : ~Selected(u) /\ Selected(u)']_vars

(* Loading the module ends, and so does every ioctl, even when resets and  *)
(* bare page changes make it talk to the wrong page or to a dead chip.     *)
AllReturn == \A t \in Threads : op[t] # NoOp ~> op[t] = NoOp

(* MDIO_PHY_READ returns the PHY register it was asked for: the comment    *)
(* above the command word says that bit 15 of 0x13 is 1 until the chip is  *)
(* idle and that 0x14 then holds the data read back.                       *)
PhyReadsData == \A t \in Users :
  LET r == result[t] IN
  r.op.name = "phy" /\ r.op.phy >= 8 => r.val = PhyData[<<r.op.phy, r.op.reg>>]
=============================================================================
