---------------------------- MODULE Ip1810Access ----------------------------
(***************************************************************************)
(* Register access to the IP1810 switch (drv/ip1810/smi.c).                *)
(*                                                                         *)
(* The chip has pages of registers.  me_mdio_read and me_mdio_write take   *)
(* the spinlock, shift one frame that selects the page (IP2Page), shift a  *)
(* second frame that reads or writes a register of the selected page, and  *)
(* release the lock.  ip1829_phy_reg_read also calls IP2Page on its own,   *)
(* without the lock.  A frame takes time: it is a step that starts to      *)
(* shift and a step that ends; frames that overlap garble each other.      *)
(***************************************************************************)
CONSTANTS
  Threads,      \* threads that use the driver
  NoThread,     \* the holder of a free lock
  Pages,        \* pages of the chip
  Regs,         \* registers of a page, without 0xff, the page register
  Values,       \* 16-bit values
  Noise,        \* what a garbled or unclocked frame may carry
  Struck,       \* bound: registers a garbled write may land in
  BarePagers,   \* threads that may call IP2Page without the lock
  MdcAtBoot     \* is the MDC pin already an output before the first call?

ASSUME AccessAssumption ==
  /\ NoThread \notin Threads
  /\ Noise \subseteq Values /\ Noise # {}
  /\ Struck \subseteq Regs
  /\ BarePagers \subseteq Threads
  /\ MdcAtBoot \in BOOLEAN

VARIABLES
  lock,     \* holder of the spinlock of smi.c
  mdcOut,   \* direction of the MDC pin: TRUE when it is an output
  page,     \* the page selected in the chip
  mem,      \* the registers of the chip
  io,       \* the access each thread is in
  bus,      \* threads that are shifting a frame
  clash,    \* those of them whose frame overlapped another one
  stale     \* those that read the direction register before MDC became an
            \* output and are about to write it back

accessVars == <<lock, mdcOut, page, mem, io, bus, clash, stale>>

Addrs == Pages \X Regs

NoAccess == [at |-> "idle"]

Phases == {"lock", "page", "pageBits", "access", "accessBits", "unlock", "done"}

Accesses == [at: Phases, op: {"read", "write", "page"},
             page: Pages, reg: Regs, val: Values]

TypeOK ==
  /\ lock \in Threads \union {NoThread}
  /\ mdcOut \in BOOLEAN
  /\ page \in Pages
  /\ mem \in [Addrs -> Values]
  /\ io \in [Threads -> Accesses \union {NoAccess}]
  /\ bus \subseteq Threads
  /\ clash \subseteq Threads
  /\ stale \subseteq Threads

AccessInit ==
  /\ lock = NoThread
  /\ mdcOut = MdcAtBoot
  /\ page \in Pages
  /\ mem \in [Addrs -> Values]
  /\ io = [t \in Threads |-> NoAccess]
  /\ bus = {}
  /\ clash = {}
  /\ stale = {}
-----------------------------------------------------------------------------
At(t, phase) == io[t].at = phase

Goto(t, phase) == io' = [io EXCEPT ![t].at = phase]

(* A call of me_mdio_read, me_mdio_write or, without the lock, IP2Page. *)
Call(t, op, p, r, v) ==
  /\ At(t, "idle")
  /\ io' = [io EXCEPT ![t] =
              [at |-> IF op = "page" THEN "page" ELSE "lock",
               op |-> op, page |-> p, reg |-> r, val |-> v]]
  /\ UNCHANGED <<lock, mdcOut, page, mem, bus, clash, stale>>

(* Bugs a change of the code could introduce, for the mutation runs: a lock *)
(* taken without waiting, a page frame skipped for writes, a return path of *)
(* reads that keeps the lock.                                               *)
MutAcquireAnyway(t) ==
  /\ At(t, "lock")
  /\ lock' = t
  /\ Goto(t, "page")
  /\ UNCHANGED <<mdcOut, page, mem, bus, clash, stale>>

MutEndPageReadsOnly(t) ==
  /\ At(t, "pageBits")
  /\ page' = IF io[t].op = "write" THEN page ELSE io[t].page
  /\ Goto(t, IF io[t].op = "page" THEN "done" ELSE "access")
  /\ bus' = bus \ {t}
  /\ clash' = clash \ {t}
  /\ UNCHANGED <<lock, mdcOut, mem, stale>>

MutReleaseWritesOnly(t) ==
  /\ At(t, "unlock")
  /\ lock' = IF io[t].op = "write" THEN NoThread ELSE lock
  /\ Goto(t, "done")
  /\ UNCHANGED <<mdcOut, page, mem, bus, clash, stale>>
-----------------------------------------------------------------------------
(* spin_lock(&lock) *)
Acquire(t) ==
  /\ At(t, "lock")
  /\ lock = NoThread
  /\ lock' = t
  /\ Goto(t, "page")
  /\ UNCHANGED <<mdcOut, page, mem, bus, clash, stale>>

(* The first bit of a frame goes out.  Only a read calls smi_reset, and    *)
(* only smi_reset makes MDC an output.  mdio_1 and mdio_0 read, change and *)
(* write the direction register for every bit: a thread that shifts its    *)
(* IP2Page without the lock may just have read it.                         *)
Overtaken(t) ==
  IF io[t].op = "read" /\ ~mdcOut
  THEN {u \in bus : At(u, "pageBits") /\ io[u].op = "page"} ELSE {}

StartPage(t) ==
  /\ At(t, "page")
  /\ mdcOut' = (mdcOut \/ io[t].op = "read")
  /\ bus' = bus \union {t}
  /\ clash' = IF bus = {} THEN clash ELSE clash \union bus \union {t}
  /\ \E S \in SUBSET Overtaken(t) : stale' = stale \union S
  /\ Goto(t, "pageBits")
  /\ UNCHANGED <<lock, page, mem>>

(* It writes back what it read: MDC is an input again. *)
WriteBack(t) ==
  /\ t \in stale
  /\ mdcOut' = FALSE
  /\ stale' = stale \ {t}
  /\ UNCHANGED <<lock, page, mem, io, bus, clash>>

StartAccess(t) ==
  /\ At(t, "access")
  /\ bus' = bus \union {t}
  /\ clash' = IF bus = {} THEN clash ELSE clash \union bus \union {t}
  /\ Goto(t, "accessBits")
  /\ UNCHANGED <<lock, mdcOut, page, mem, stale>>

Delivered(t) == mdcOut /\ t \notin clash

LeaveBus(t) ==
  /\ bus' = bus \ {t}
  /\ clash' = clash \ {t}

Strike ==
  \E r \in Struck, v \in Noise : mem' = [mem EXCEPT ![<<page, r>>] = v]

(* The last bit of IP2Page: the chip selects the page, unless the frame    *)
(* was garbled, or never clocked because MDC is an input.                  *)
EndPage(t) ==
  /\ At(t, "pageBits") /\ t \notin stale
  /\ \/ Delivered(t) /\ page' = io[t].page /\ UNCHANGED mem
     \/ ~mdcOut /\ UNCHANGED <<page, mem>>
     \/ mdcOut /\ t \in clash /\ page' \in Pages /\ UNCHANGED mem
     \/ mdcOut /\ t \in clash /\ UNCHANGED page /\ Strike
  /\ Goto(t, IF io[t].op = "page" THEN "done" ELSE "access")
  /\ LeaveBus(t)
  /\ UNCHANGED <<lock, mdcOut, stale>>

(* The last bit of ip1829_mdio_wr: the chip stores into the page it has    *)
(* selected, which is not necessarily the page the caller asked for.       *)
EndWrite(t) ==
  /\ At(t, "accessBits")
  /\ io[t].op = "write"
  /\ \/ Delivered(t) /\ mem' = [mem EXCEPT ![<<page, io[t].reg>>] = io[t].val]
     \/ ~Delivered(t) /\ UNCHANGED mem
     \/ mdcOut /\ t \in clash /\ Strike
  /\ Goto(t, "unlock")
  /\ LeaveBus(t)
  /\ UNCHANGED <<lock, mdcOut, page, stale>>

(* The last bit of Read_Reg: the chip has shifted out its register. *)
EndRead(t) ==
  /\ At(t, "accessBits")
  /\ io[t].op = "read"
  /\ \E v \in (IF Delivered(t) THEN {mem[<<page, io[t].reg>>]} ELSE Noise) :
       io' = [io EXCEPT ![t].at = "unlock", ![t].val = v]
  /\ LeaveBus(t)
  /\ UNCHANGED <<lock, mdcOut, page, mem, stale>>

(* spin_unlock(&lock) *)
Release(t) ==
  /\ At(t, "unlock")
  /\ lock' = NoThread
  /\ Goto(t, "done")
  /\ UNCHANGED <<mdcOut, page, mem, bus, clash, stale>>

Return(t) ==
  /\ At(t, "done")
  /\ io' = [io EXCEPT ![t] = NoAccess]
  /\ UNCHANGED <<lock, mdcOut, page, mem, bus, clash, stale>>

(* The steps of an access once it is called. *)
Transfer(t) ==
  Acquire(t) \/ StartPage(t) \/ WriteBack(t) \/ EndPage(t) \/ StartAccess(t)
  \/ EndWrite(t) \/ EndRead(t) \/ Release(t)

CallSome(t) ==
  \E op \in {"read", "write", "page"}, p \in Pages, r \in Regs, v \in Values :
    /\ op = "page" => t \in BarePagers
    /\ Call(t, op, p, r, v)

Next == \E t \in Threads : CallSome(t) \/ Transfer(t) \/ Return(t)

Spec == AccessInit /\ [][Next]_accessVars

-----------------------------------------------------------------------------
(* Two locked accesses never have a frame on the wires at the same time:   *)
(* whatever overlaps the frame of one is an IP2Page sent without the lock, *)
(* the call ip1829_phy_reg_read makes before its first locked access, or   *)
(* the chip in reset.                                                      *)
LockedFrame(t) ==
  t \in bus /\ (At(t, "pageBits") \/ At(t, "accessBits")) /\ io[t].op # "page"

LockedFramesDisjoint ==
  \A t, u \in Threads : LockedFrame(t) /\ LockedFrame(u) => t = u

(* A thread about to shift its second frame finds the chip on the page its *)
(* own IP2Page selected: nobody re-paged the chip between the two frames   *)
(* of me_mdio_read or me_mdio_write.                                       *)
RightPage == \A t \in Threads :
  (At(t, "access") \/ At(t, "accessBits")) /\ mdcOut => page = io[t].page

(* Once any read has made MDC an output (smi_reset), a finished            *)
(* me_mdio_write has stored its value in the register and page it named.   *)
WritesKept ==
  [][\A t \in Threads :
       /\ At(t, "accessBits") /\ io[t].op = "write" /\ mdcOut
       /\ ~At(t, "accessBits")'
       => mem'[<<io[t].page, io[t].reg>>] = io[t].val]_accessVars

(* me_mdio_read and me_mdio_write are atomic reads and writes of one       *)
(* register: the abstract call is applied when its second frame ends.      *)
CallOf(a) ==
  IF a.at = "idle" THEN [stage |-> "idle"] ELSE
       [stage |-> IF a.at \in {"unlock", "done"} THEN "applied" ELSE "called",
        op |-> a.op, addr |-> <<a.page, a.reg>>, val |-> a.val]

Device == INSTANCE RegisterDevice
            WITH call <- [t \in Threads |-> CallOf(io[t])]

AtomicRegisters == Device!Spec
=============================================================================
