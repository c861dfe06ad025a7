----------------------------- MODULE Ip1810App -----------------------------
(***************************************************************************)
(* The command line client of the IP1810 driver (drv/ip1810/app.c), one    *)
(* process per invocation, any number of them at a time, beside the chip.  *)
(* An invocation is a list of ioctls, each a list of register accesses.    *)
(* An access takes effect at one instant (Ip1810Access!AtomicRegisters),   *)
(* unless it overlaps the unlocked IP2Page of a MDIO_PHY_READ or a reset,  *)
(* which garble it.                                                        *)
(***************************************************************************)
EXTENDS Ip1810Script, SequencesExt

CONSTANTS
  Clients,       \* processes that run the program
  CommandLines,  \* those each of them may run it with
  Regs,          \* registers of the chip: pairs of a page and a register
  Factory,       \* the VLAN table after a reset: entry -> field -> value
  Noise,         \* what a garbled read may return
  Struck,        \* bound: registers a garbled write may land in
  MaxSpoilt,     \* bound: accesses that are garbled in a behaviour
  DumpPages,     \* bound: the pages of -a (0..0xc in the code)
  DumpRegs,      \* bound: the registers of -a (0..0xff)
  LastPhy,       \* bound: the last PHY of -b (15)
  Rounds         \* bound: how often no arguments count packets (17)

VARIABLES
  mem,         \* the registers of the chip
  vlan,        \* its VLAN table
  run,         \* the command line of each process
  status,      \* whether it runs, and how it ended
  pc,          \* its next instruction
  data,        \* its variable data
  opened,      \* did open() succeed?
  busy,        \* processes in a register access, an IP2Page or a reset
  exposed,     \* those that overlap an unlocked IP2Page or a reset
  spoilt,      \* accesses garbled so far
  disturbed,   \* history: processes that another one may have disturbed
  was          \* history: the VLAN table when the process began

chipVars == <<mem, vlan>>
historyVars == <<disturbed, was>>
vars == <<chipVars, run, status, pc, data, opened, busy, exposed, spoilt, historyVars>>

NotRun == [name |-> "none"]
-----------------------------------------------------------------------------
(* data&= ~(1<<6 | 1<<7) before a write. *)
ClearBits(p, r, v) == <<Rd(p, r), Instruction("clear", p, r, v)>>

(* me_mdio_write of app.c is a MDIO_WRITE.  The driver reads the register  *)
(* back after it, into a variable that nothing uses: that is left out.     *)
me_mdio_write(p, r, v) == Wr(p, r, v)

Resets == <<Instruction("pull", 0, 0, {})>>

MutMember(i) ==   \* the fields are written while the chip still fetches
  <<me_mdio_write(2, TableCommand, FetchWord(i)),
    me_mdio_write(2, 211, IF i = LastEntry THEN 0..7 ELSE {i - 1}),
    me_mdio_write(2, 212, Word(4352)), me_mdio_write(2, 216, {15}),
    me_mdio_write(2, TableCommand, StoreWord(i)), WaitTable>>

(* The body of the loop of -e: have the chip fetch entry i, set its        *)
(* member, tag and valid fields, have the chip store it.                   *)
Member(i) ==
  <<me_mdio_write(2, TableCommand, FetchWord(i)), WaitTable,
    me_mdio_write(2, 211, IF i = LastEntry THEN 0..7 ELSE {i - 1}),
    me_mdio_write(2, 212, Word(4352)), me_mdio_write(2, 216, {15}),
    me_mdio_write(2, TableCommand, StoreWord(i)), WaitTable>>

(* The loop over the ports, and the accesses of the one over the entries. *)
PortMembers == [n \in 1..LastTag |-> me_mdio_write(2, TagReg(n - 1), Word(n))]

MemberLen == Len(Member(1))

Members(last) ==
  [n \in 1..(last * MemberLen) |->
     Member(((n - 1) \div MemberLen) + 1)[((n - 1) % MemberLen) + 1]]

Setup ==
  <<me_mdio_write(3, 18, Word(315)), me_mdio_write(12, 10, Word(1458))>>
  \o SetBits(2, 6, {1}) \o ClearBits(3, 23, {6, 7})
  \o PortMembers
  \o <<me_mdio_write(2, 47, Word(10)),
       me_mdio_write(2, 205, Word(4352)), me_mdio_write(2, 206, 0..7)>>

MutFlush == Setup \o Members(LastEntry + 1)   \* the loop goes one entry too far

Flush == Setup \o Members(LastEntry)

PhySweep ==
  FlattenSeq([i \in 1..(LastPhy - 7) |-> PhyRead(i + 7, 0)])
  \o FlattenSeq([i \in 1..(LastPhy - 7) |-> PhyRead(i + 7, 1)])

Dump == FlattenSeq([p \in 1..Len(DumpPages) |->
          [r \in 1..Len(DumpRegs) |-> Rd(DumpPages[p], DumpRegs[r])]])

Counts == FlattenSeq([i \in 1..Rounds |-> Count(0..15)])

(* The ioctls of a command line.  The case of -a has no break: it goes on  *)
(* with the PHYs.  With the single argument -r register, argc is 3 and     *)
(* the option is taken for page 0 of "./app page reg".                     *)
Program(o) ==
  CASE o.name = "-a"    -> Dump \o PhySweep
    [] o.name = "-b"    -> PhySweep
    [] o.name = "-q"    -> <<me_mdio_write(12, 0, {0})>>
    [] o.name = "-w"    -> <<me_mdio_write(12, 0, {4})>>
    [] o.name = "-u"    -> Resets
    [] o.name = "-i"    -> <<me_mdio_write(0, 90, {}), me_mdio_write(0, 91, {}),
                             me_mdio_write(0, 91, {})>>
    [] o.name = "-e"    -> Flush
    [] o.name = "-p"    -> <<>>
    [] o.name = "-p -r" -> PhyRead(o.phy, o.reg)
    [] o.name = "-r"    -> <<Rd(0, o.reg)>>
    [] o.name = "read"  -> <<Rd(o.page, o.reg)>>
    [] o.name = "write" -> <<me_mdio_write(o.page, o.reg, o.val)>>
    [] o.name = "count" -> Counts
-----------------------------------------------------------------------------
Init ==
  /\ mem = [a \in Regs |-> {}]
  /\ vlan = Factory
  /\ run = [c \in Clients |-> NotRun]
  /\ status = [c \in Clients |-> "new"]
  /\ pc = [c \in Clients |-> 1]
  /\ data = [c \in Clients |-> {}]
  /\ opened = [c \in Clients |-> FALSE]
  /\ busy = {} /\ exposed = {} /\ spoilt = 0 /\ disturbed = {}
  /\ was = [c \in Clients |-> Factory]

Left(c) == pc[c] \in DOMAIN Program(run[c])

Current(c) == Program(run[c])[pc[c]]

Unlocked(i) == i.do \in {"page", "pull"}

Stores(i) == i.do \in {"store", "or", "clear"}

(* The registers of -e: those it writes, and the fields of the entry that  *)
(* the chip fetches and stores for it.                                     *)
FlushRegs ==
  {<<Flush[i].page, Flush[i].reg>> : i \in {j \in DOMAIN Flush : Stores(Flush[j])}}
    \union {<<2, f>> : f \in Fields}

ASSUME AppAssumption ==
  /\ LastTag \in Nat \ {0} /\ LastEntry \in Nat \ {0}
  /\ TagReg(LastTag - 1) < 47
  /\ \A a \in Regs : a = <<a[1], a[2]>>
  /\ FlushRegs \union {<<12, 0>>} \subseteq Regs
  /\ 1..LastEntry \subseteq DOMAIN Factory
  /\ \A e \in DOMAIN Factory : e \in Nat /\ e < 2^14
  /\ Factory \in [DOMAIN Factory -> [Fields -> SUBSET (0..15)]]
  /\ \A c \in Clients : \A o \in CommandLines[c] : o.name # "none"

(* Command lines that can spoil a -e that runs at the same time: they send *)
(* frames without the lock, reset the chip, write registers of -e, or may  *)
(* set the bit that resets the switch.                                     *)
Harmful(o) == \E i \in Range(Program(o)) :
  \/ Unlocked(i)
  \/ Stores(i) /\ <<i.page, i.reg>> \in FlushRegs
  \/ Stores(i) /\ <<i.page, i.reg>> = <<12, 0>> /\ (i.do # "store" \/ 4 \in i.val)

Running == {c \in Clients : status[c] = "running"}

Unsettled ==
  exposed # {} \/ 15 \in mem[<<2, TableCommand>>] \/ 4 \in mem[<<12, 0>>]

(* A process starts: open(), and the command line goes to getopt. *)
Exec(c) ==
  /\ status[c] = "new"
  /\ status' = [status EXCEPT ![c] = "running"]
  /\ \E o \in CommandLines[c], ok \in BOOLEAN :
       /\ run' = [run EXCEPT ![c] = o]
       /\ opened' = [opened EXCEPT ![c] = ok]
       /\ disturbed' = disturbed
            \union (IF Harmful(o) THEN Running ELSE {})
            \union (IF Unsettled \/ \E u \in Running : Harmful(run[u])
                    THEN {c} ELSE {})
  /\ was' = [was EXCEPT ![c] = vlan]
  /\ UNCHANGED <<chipVars, pc, data, busy, exposed, spoilt>>

End(c, how) == status' = [status EXCEPT ![c] = how]

(* open() failed, and main goes on: -e waits in its first loop for bit 15  *)
(* of -1 to clear; the others fail at their first ioctl, or ignore it.     *)
NoDevice(c) ==
  /\ status[c] = "running" /\ ~opened[c] /\ run[c].name # "count"
  /\ End(c, CASE run[c].name = "-e" -> "spinning"
              [] run[c].name \in {"-a", "-b", "-u", "-p", "-p -r"} -> "failed"
              [] OTHER -> "ended")
  /\ UNCHANGED <<chipVars, run, pc, data, opened, busy, exposed, spoilt, historyVars>>

(* Without arguments strcmp is called on a null pointer.  A build may test *)
(* argc first, and then goes on to count, with the device or without.      *)
NullArgument(c) ==
  /\ status[c] = "running" /\ run[c].name = "count" /\ pc[c] = 1 /\ c \notin busy
  /\ \/ End(c, "crashed")
     \/ ~opened[c] /\ End(c, "ended")
  /\ UNCHANGED <<chipVars, run, pc, data, opened, busy, exposed, spoilt, historyVars>>

(* An ioctl begins a register access. *)
Issue(c) ==
  /\ status[c] = "running" /\ opened[c] /\ Left(c) /\ c \notin busy
  /\ busy' = busy \union {c}
  /\ exposed' = exposed
       \union (IF Unlocked(Current(c)) THEN busy ELSE {})
       \union (IF \E u \in busy : Unlocked(Current(u)) THEN {c} ELSE {})
  /\ UNCHANGED <<chipVars, run, status, pc, data, opened, spoilt, historyVars>>

Leave(c) == busy' = busy \ {c} /\ exposed' = exposed \ {c}

(* An access that is exposed to other frames may come to no harm.  If it   *)
(* does, it reaches the register on another page, or says something else,  *)
(* or nothing.                                                             *)
Exact == UNCHANGED spoilt

Spoilt(c) == c \in exposed /\ spoilt < MaxSpoilt /\ spoilt' = spoilt + 1

OtherPages(i) == {a \in Regs : a[2] = i.reg /\ a[1] # i.page}

Written(c) ==
  LET i == Current(c) IN
  CASE i.do = "store" -> i.val
    [] i.do = "or"    -> data[c] \union i.val
    [] i.do = "clear" -> data[c] \ i.val

Write(c) ==
  /\ c \in busy /\ Stores(Current(c))
  /\ LET i == Current(c) IN
     \/ Exact /\ mem' = [mem EXCEPT ![<<i.page, i.reg>>] = Written(c)]
     \/ /\ Spoilt(c)
        /\ \/ \E a \in OtherPages(i) : mem' = [mem EXCEPT ![a] = Written(c)]
           \/ \E a \in Struck, v \in Noise : mem' = [mem EXCEPT ![a] = v]
           \/ UNCHANGED mem
  /\ pc' = [pc EXCEPT ![c] = @ + 1]
  /\ Leave(c)
  /\ UNCHANGED <<vlan, run, status, data, opened, historyVars>>

Read(c) ==
  /\ c \in busy /\ ~Stores(Current(c)) /\ ~Unlocked(Current(c))
  /\ \E v \in Noise \union Range(mem) :
       /\ LET i == Current(c) IN
          \/ Exact /\ v = mem[<<i.page, i.reg>>]
          \/ Spoilt(c) /\ v \in Noise \union {mem[a] : a \in OtherPages(i)}
       /\ data' = IF Current(c).do = "data" THEN [data EXCEPT ![c] = v] ELSE data
       /\ pc' = [pc EXCEPT ![c] = @ + 1 - Back(Current(c).do, v)]
  /\ Leave(c)
  /\ UNCHANGED <<chipVars, run, status, opened, historyVars>>

(* The bare IP2Page of a MDIO_PHY_READ ends, or the reset line is released. *)
EndUnlocked(c) ==
  /\ c \in busy /\ Unlocked(Current(c))
  /\ IF Current(c).do = "page" THEN UNCHANGED chipVars
     ELSE mem' = [a \in Regs |-> {}] /\ vlan' = Factory
  /\ pc' = [pc EXCEPT ![c] = @ + 1]
  /\ Leave(c)
  /\ UNCHANGED <<run, status, data, opened, spoilt, historyVars>>

(* close() and return. *)
Exit(c) ==
  /\ status[c] = "running" /\ opened[c] /\ ~Left(c)
  /\ End(c, IF run[c].name = "-p" THEN "failed" ELSE "ended")
  /\ UNCHANGED <<chipVars, run, pc, data, opened, busy, exposed, spoilt, historyVars>>

Main(c) ==
  \/ NoDevice(c) \/ NullArgument(c) \/ Issue(c) \/ Write(c) \/ Read(c)
  \/ EndUnlocked(c) \/ Exit(c)

VlanEngine ==
  /\ 15 \in mem[<<2, TableCommand>>]
  /\ mem' = TableDone(mem, vlan).mem
  /\ vlan' = TableDone(mem, vlan).vlan
  /\ UNCHANGED <<run, status, pc, data, opened, busy, exposed, spoilt, historyVars>>

(* The PHYs are not told apart here: a command only becomes idle. *)
PhyEngine ==
  /\ 15 \in mem[<<3, PhyCommand>>]
  /\ mem' = [mem EXCEPT ![<<3, PhyCommand>>] = @ \ {15}]
  /\ UNCHANGED <<vlan, run, status, pc, data, opened, busy, exposed, spoilt, historyVars>>

(* Bit 0 resets the switch and maintains its parameters, bit 4 does not. *)
SoftReset ==
  /\ mem[<<12, 0>>] \intersect {0, 4} # {}
  /\ IF 4 \in mem[<<12, 0>>]
     THEN mem' = [a \in Regs |-> {}] /\ vlan' = Factory
     ELSE mem' = [mem EXCEPT ![<<12, 0>>] = @ \ {0}] /\ UNCHANGED vlan
  /\ UNCHANGED <<run, status, pc, data, opened, busy, exposed, spoilt, historyVars>>

Next ==
  \/ \E c \in Clients : Exec(c) \/ Main(c)
  \/ VlanEngine \/ PhyEngine \/ SoftReset

Spec == Init /\ [][Next]_vars

(* A process runs on, and the chip carries out its commands. *)
FairSpec ==
  /\ Spec
  /\ \A c \in Clients : WF_vars(Main(c))
  /\ WF_vars(VlanEngine) /\ WF_vars(PhyEngine) /\ WF_vars(SoftReset)
-----------------------------------------------------------------------------
(* A -e that nothing disturbs leaves the switch as it says: every entry it *)
(* names valid with its member and tag bits and the field 0xd5 it had, all *)
(* other entries as they were, ports and VLAN mode set; whatever was left  *)
(* in the registers before, and whatever reads and counts beside it.       *)
Flushed(old) ==
  /\ \A i \in DOMAIN vlan : vlan[i] =
       IF i \notin 1..LastEntry THEN old[i]
       ELSE [old[i] EXCEPT ![211] = IF i = LastEntry THEN 0..7 ELSE {i - 1},
                           ![212] = {8, 12}, ![216] = {15}]
  /\ 1 \in mem[<<2, 6>>] /\ mem[<<3, 23>>] \intersect {6, 7} = {}
  /\ \A i \in 1..LastTag : mem[<<2, TagReg(i - 1)>>] = Word(i)

FlushLands ==
  [][\A c \in Clients :
       /\ run[c].name = "-e" /\ c \notin disturbed
       /\ status[c] = "running" /\ status'[c] = "ended"
       => Flushed(was[c])]_vars

(* Processes that flush at the same time share the registers that hold one *)
(* entry, and may mix up the entries they name; but no entry beyond those  *)
(* is ever touched, for the index and the command are written together.    *)
OthersKept ==
  (\A c \in Clients : run[c].name \in {"none", "-e"} \/ ~Harmful(run[c]))
  => \A i \in DOMAIN Factory \ 1..LastEntry : vlan[i] = Factory[i]

(* With the device open every command ends, even when resets and PHY reads *)
(* of others garble its accesses or clear the command it waits for.        *)
ClientsEnd == \A c \in Clients :
  status[c] = "running" /\ opened[c] ~> status[c] \in {"ended", "failed", "crashed"}
=============================================================================
