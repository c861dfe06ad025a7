------------------------------- MODULE Ip1818 -------------------------------
(***************************************************************************)
(* The IP1818 driver of drv/gpio_mdio: misc_ioctl and demo_init (main.c)   *)
(* on the frames of smi.c.  Nothing is locked.  A frame takes time; frames *)
(* that overlap are garbled and may leave the chip in the middle of what   *)
(* it takes for a frame, which the 6 clocks of smi_reset do not undo.  The *)
(* chip and the PHYs behind it are external.                               *)
(***************************************************************************)
EXTENDS Integers, Sequences

CONSTANTS
  Threads,
  Loader,       \* the one that runs demo_init; it may go on to use the device
  UserOps,      \* the ioctls they issue
  MaxOps,       \* bound: ioctls per thread
  Regs,         \* registers of the chip, Cmd and Data among them
  Values,       \* 16-bit values, but for those of Cmd
  NoiseCmds,    \* what a garbled frame may say in Cmd
  Struck,       \* bound: registers a garbled frame may write
  Phys          \* the registers of the PHYs: <<phy, reg>>

Cmd == 218      \* 0xda: bit 15 start, 14 write, 13 done, 9-5 reg, 4-0 phy
Data == 219     \* 0xdb

Commands == [phy: 0..31, reg: 0..31, write: BOOLEAN, start: BOOLEAN, done: BOOLEAN]

(* A value as the register it goes to takes it. *)
Holds(r) == IF r = Cmd THEN Commands ELSE Values

(* What the ioctls are given: any numbers. *)
IsRequest(o) ==
  \/ o \in [name: {"PHY_READ"}, phy: Nat, reg: Nat]
  \/ o \in [name: {"PHY_WRITE"}, phy: Nat, reg: Nat, val: Values]
  \/ o \in [name: {"MD_READ"}, reg: Nat]
  \/ o \in [name: {"MD_WRITE"}, reg: Nat, val: Holds(o.reg % 256)]

ASSUME Ip1818Assumption ==
  /\ Loader \in Threads
  /\ \A o \in UserOps : IsRequest(o)
  /\ MaxOps \in Nat
  /\ {Cmd, Data} \subseteq Regs /\ Regs \subseteq 0..255
  /\ Values # {} /\ NoiseCmds # {} /\ NoiseCmds \subseteq Commands
  /\ Struck \subseteq Regs
  /\ Phys \subseteq (0..31) \X (0..31)

VARIABLES
  mem,      \* the registers of the chip
  phys,     \* the registers of the PHYs
  synced,   \* does the chip wait for a frame to begin when none is sent?
  bus,      \* threads that are shifting a frame
  clash,    \* those of them whose frame overlapped another one
  op,       \* the ioctl each thread is in
  pc,       \* its next frame
  data,     \* what its last read returned
  used,     \* ioctls each thread has issued
  since     \* history: was the thread alone, the chip in step and idle?

chip == <<mem, phys>>
vars == <<chip, synced, bus, clash, op, pc, data, used, since>>

Noise(r) == IF r = Cmd THEN NoiseCmds ELSE Values
-----------------------------------------------------------------------------
(* An ioctl as its list of frames; "poll" reads Cmd until bit 13 is set.   *)
Frame(do, r, v) == <<[do |-> do, reg |-> r, val |-> v]>>
Rd(r) == Frame("read", r % 256, 0)
Wr(r, v) == Frame("write", r % 256, v)
Poll == Frame("poll", Cmd, 0)

MutCommand(phy, reg, write) ==   \* the PHY address is not masked
  [phy |-> phy, reg |-> reg % 32, write |-> write, start |-> TRUE, done |-> FALSE]

Command(phy, reg, write) ==
  [phy |-> phy % 32, reg |-> reg % 32, write |-> write, start |-> TRUE, done |-> FALSE]

MutIP1818_SMI_WRITE(phy, reg, v) ==   \* the command goes out before its data
  Wr(Cmd, Command(phy, reg, TRUE)) \o Wr(Data, v) \o Poll

IP1818_SMI_WRITE(phy, reg, v) ==
  Wr(Data, v) \o Wr(Cmd, Command(phy, reg, TRUE)) \o Poll

MutIP1818_SMI_READ(phy, reg) ==   \* the data is read at once
  Wr(Cmd, Command(phy, reg, FALSE)) \o Rd(Data)

IP1818_SMI_READ(phy, reg) ==
  Wr(Cmd, Command(phy, reg, FALSE)) \o Poll \o Rd(Data)

Script(o) ==
  CASE o.name = "init"      -> Rd(3) \o Rd(4) \o Rd(250)
    [] o.name = "PHY_READ"  -> IP1818_SMI_READ(o.phy, o.reg)
    [] o.name = "PHY_WRITE" -> IP1818_SMI_WRITE(o.phy, o.reg, o.val)
    [] o.name = "MD_READ"   -> Rd(o.reg)
    [] o.name = "MD_WRITE"  -> Wr(o.reg, o.val)

MutAgain(cmd) == TRUE   \* != 1, which 0x2000 is too

(* while((reg_data&(0x1<<13))==0) *)
Again(cmd) == ~cmd.done

-----------------------------------------------------------------------------
NoOp == [name |-> "none"]

Since == [alone: BOOLEAN, synced: BOOLEAN, idle: BOOLEAN]

TypeOK ==
  /\ \A r \in Regs : mem[r] \in Holds(r)
  /\ phys \in [Phys -> Values]
  /\ synced \in BOOLEAN
  /\ clash \subseteq bus /\ bus \subseteq Threads
  /\ \A t \in Threads : op[t] \in UserOps \union {NoOp, [name |-> "init"]}
  /\ pc \in [Threads -> 1..4]
  /\ since \in [Threads -> Since]
  /\ used \in [Threads -> 0..MaxOps]

Clean == [alone |-> TRUE, synced |-> TRUE, idle |-> TRUE]
Zero == CHOOSE v \in Values : TRUE
NoCommand == [phy |-> 0, reg |-> 0, write |-> FALSE, start |-> FALSE, done |-> FALSE]

(* misc_register is the first call of demo_init. *)
Init ==
  /\ mem = [r \in Regs |-> IF r = Cmd THEN NoCommand ELSE Zero]
  /\ phys \in [Phys -> Values]
  /\ synced = TRUE /\ bus = {} /\ clash = {}
  /\ op = [t \in Threads |-> IF t = Loader THEN [name |-> "init"] ELSE NoOp]
  /\ pc = [t \in Threads |-> 1]
  /\ data = [t \in Threads |-> Zero]
  /\ used = [t \in Threads |-> 0]
  /\ since = [t \in Threads |-> Clean]

Busy(t) == op[t] # NoOp
Left(t) == Busy(t) /\ pc[t] <= Len(Script(op[t]))
Current(t) == Script(op[t])[pc[t]]

Begin(t) ==
  /\ ~Busy(t)
  /\ used[t] < MaxOps /\ used' = [used EXCEPT ![t] = @ + 1]
  /\ \E o \in UserOps : op' = [op EXCEPT ![t] = o]
  /\ since' = [u \in Threads |->
       IF u = t THEN [alone |-> \A w \in Threads : ~Busy(w),
                      synced |-> synced, idle |-> ~mem[Cmd].start]
       ELSE [since[u] EXCEPT !.alone = ~Busy(u)]]
  /\ UNCHANGED <<chip, synced, bus, clash, pc, data>>

(* The first clock of smi_reset goes out. *)
StartFrame(t) ==
  /\ Left(t) /\ t \notin bus
  /\ bus' = bus \union {t}
  /\ clash' = IF bus = {} THEN clash ELSE clash \union bus \union {t}
  /\ UNCHANGED <<chip, synced, op, pc, data, used, since>>

Arrives(t) == synced /\ t \notin clash

EndFrame(t) ==
  /\ Left(t) /\ t \in bus
  /\ bus' = bus \ {t} /\ clash' = clash \ {t}
  /\ IF Arrives(t) THEN UNCHANGED synced ELSE synced' \in BOOLEAN
  /\ UNCHANGED <<phys, op, used, since>>

(* A garbled frame, read or write, may write something somewhere. *)
Garbled ==
  \/ UNCHANGED mem
  \/ \E r \in Struck : \E v \in Noise(r) : mem' = [mem EXCEPT ![r] = v]

(* The last clock of stmmac_gpio_mdio_write. *)
EndWrite(t) ==
  /\ EndFrame(t)
  /\ Current(t).do = "write"
  /\ IF Arrives(t) /\ Current(t).reg \in Regs
     THEN mem' = [mem EXCEPT ![Current(t).reg] = Current(t).val]
     ELSE IF Arrives(t) THEN UNCHANGED mem ELSE Garbled
  /\ pc' = [pc EXCEPT ![t] = @ + 1]
  /\ UNCHANGED data

(* The last clock of stmmac_gpio_mdio_read. *)
EndRead(t) ==
  /\ EndFrame(t)
  /\ Current(t).do \in {"read", "poll"}
  /\ IF Arrives(t) THEN UNCHANGED mem ELSE Garbled
  /\ LET r == Current(t).reg IN
     \E v \in IF Arrives(t) /\ r \in Regs THEN {mem[r]} ELSE Noise(r) :
       IF Current(t).do = "poll"
       THEN /\ pc' = [pc EXCEPT ![t] = IF Again(v) THEN @ ELSE @ + 1]
            /\ UNCHANGED data
       ELSE /\ pc' = [pc EXCEPT ![t] = @ + 1]
            /\ data' = [data EXCEPT ![t] = v]

Return(t) ==
  /\ Busy(t) /\ ~Left(t)
  /\ op' = [op EXCEPT ![t] = NoOp]
  /\ pc' = [pc EXCEPT ![t] = 1]
  /\ data' = [data EXCEPT ![t] = Zero]
  /\ since' = [since EXCEPT ![t] = Clean]
  /\ UNCHANGED <<chip, synced, bus, clash, used>>

(* The chip carries out the command in Cmd and reports that it is done. *)
Engine ==
  /\ mem[Cmd].start
  /\ LET a == <<mem[Cmd].phy, mem[Cmd].reg>>
         done == [mem EXCEPT ![Cmd].start = FALSE, ![Cmd].done = TRUE]
     IN IF mem[Cmd].write
        THEN /\ mem' = done
             /\ phys' = IF a \in Phys THEN [phys EXCEPT ![a] = mem[Data]] ELSE phys
        ELSE /\ mem' = [done EXCEPT ![Data] = IF a \in Phys THEN phys[a] ELSE Zero]
             /\ UNCHANGED phys
  /\ UNCHANGED <<synced, bus, clash, op, pc, data, used, since>>

Inside(t) == StartFrame(t) \/ EndWrite(t) \/ EndRead(t) \/ Return(t)

Next == Engine \/ \E t \in Threads : Begin(t) \/ Inside(t)

Spec == Init /\ [][Next]_vars

(* A thread in the kernel runs on, and so does the chip. *)
FairSpec == Spec /\ WF_vars(Engine) /\ \A t \in Threads : WF_vars(Inside(t))
-----------------------------------------------------------------------------
Ended(t, name) == op[t].name = name /\ ~Left(t)

Undisturbed(t) == since[t].alone /\ since[t].synced

Phy(o) == <<o.phy % 32, o.reg % 32>>

(* PHY_READ waits for the chip: when no other ioctl overlaps it and the    *)
(* chip was in step when it began, it returns the register of the PHY it   *)
(* named, whatever commands and garbled frames came before.                *)
PhyReadExact == \A t \in Threads :
  Ended(t, "PHY_READ") /\ Undisturbed(t) /\ Phy(op[t]) \in Phys =>
    data[t] = phys[Phy(op[t])]

(* PHY_WRITE returns after the PHY has the value; here a command that was  *)
(* still running could have put its own data in between.                   *)
PhyWriteLands == \A t \in Threads :
  Ended(t, "PHY_WRITE") /\ Undisturbed(t) /\ since[t].idle /\ Phy(op[t]) \in Phys =>
    phys[Phy(op[t])] = op[t].val

(* The polling loops end, unless another ioctl begins and disturbs them. *)
UndisturbedReturns == \A t \in Threads :
  (Busy(t) /\ Undisturbed(t)) ~> (~Busy(t) \/ ~Undisturbed(t))
=============================================================================
