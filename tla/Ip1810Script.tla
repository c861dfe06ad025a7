---------------------------- MODULE Ip1810Script ----------------------------
(***************************************************************************)
(* What the ioctls of the IP1810 driver (drv/ip1810/mdio.c and             *)
(* ip1829_phy_reg_read of smi.c) and demo_init do, as lists of             *)
(* instructions, one per register access, and what the chip's VLAN table   *)
(* engine does with its registers.                                         *)
(***************************************************************************)
EXTENDS Integers, Sequences

CONSTANTS
  LastTag,     \* port VLAN registers programmed (16 at load, 8 by app.c)
  LastEntry    \* VLAN table entries programmed (8 at load, 10 by app.c)

(* A 16-bit word is the set of its bits that are 1. *)
Word(n) == {b \in 0..15 : (n \div 2^b) % 2 = 1}

(* The registers that mean something to the chip. *)
TableCommand == 210              \* 0xd2 of page 2: bit 15 busy, bit 14 store
Fields == {211, 212, 213, 216}   \* 0xd3, 0xd4, 0xd5, 0xd8: one VLAN entry
PhyCommand == 19                 \* 0x13 of page 3: bit 15 busy
PhyResult == 20                  \* 0x14 of page 3

(* One instruction is one register access and what its caller does with    *)
(* it.  "or" writes local data with more bits set; a read with a test goes *)
(* back some instructions while the test holds of what it read.            *)
Instruction(what, p, r, v) == [do |-> what, page |-> p, reg |-> r, val |-> v]

Rd(p, r) == Instruction("data", p, r, {})
RdTmp(p, r) == Instruction("tmp", p, r, {})
Wr(p, r, v) == Instruction("store", p, r, v)
WrOr(p, r, v) == Instruction("or", p, r, v)
SetBits(p, r, v) == <<Rd(p, r), WrOr(p, r, v)>>

(* while(me_mdio_read(NULL,0x2,0xd2)&0x8000); *)
WaitTable == Instruction("whileBusy", 2, TableCommand, {})

(* The commands to fetch entry i and to store it. *)
FetchWord(i) == Word(i) \union {15}
StoreWord(i) == Word(i) \union {14, 15}

(* The body of demo_init's last loop: have the chip fetch entry i into the *)
(* fields, change them, have the chip store them. *)
VlanEntry(i) ==
  <<Wr(2, TableCommand, FetchWord(i)), WaitTable,
    Wr(2, 211, Word(i)),
    Rd(2, 212), WrOr(2, 212, {1}), Rd(2, 216), WrOr(2, 216, {15}),
    Rd(2, 212), WrOr(2, 212, {13, 14, 15}), Rd(2, 213), WrOr(2, 213, 0..4),
    Wr(2, TableCommand, StoreWord(i)), WaitTable>>

(* The register of port i of the port based VLAN. *)
TagReg(i) == 19 + i
TagWord(i) == Word(i + 1) \union {15}

(* The loop over the ports and the accesses of the loop over the entries. *)
Ports == [n \in 1..LastTag |-> Wr(2, TagReg(n - 1), TagWord(n - 1))]

EntryLen == Len(VlanEntry(1))

MutTable == [n \in 1..((LastEntry - 1) * EntryLen) |->   \* one entry less
               VlanEntry(((n - 1) \div EntryLen) + 1)[((n - 1) % EntryLen) + 1]]

Table == [n \in 1..(LastEntry * EntryLen) |->
            VlanEntry(((n - 1) \div EntryLen) + 1)[((n - 1) % EntryLen) + 1]]

DemoInit == SetBits(2, 6, {1, 3}) \o Ports \o Table

Count(cmd) ==
  <<Rd(0, 1), WrOr(0, 1, {9}), WrOr(0, 1, {9}),
    Wr(0, 100, cmd), Rd(0, 101), RdTmp(0, 102)>>

(* phyaddr<<0 | phyreg<<5 | 1<<15, of two bytes. *)
PhyWord(phy, reg) ==
  Word(phy % 256) \union {b + 5 : b \in Word(reg % 256)} \union {15}

PhyRead(phy, reg) ==
  LET IP2Page == Instruction("page", 3, 1, {})
      Again == Instruction("whileOne", 3, PhyCommand, {})
  IN IF phy < 8 THEN <<IP2Page>>
     ELSE <<IP2Page, Wr(3, PhyCommand, PhyWord(phy, reg)),
            Rd(3, PhyResult), Rd(3, PhyResult), Again>>

Script(o) ==
  CASE o.name = "init"  -> DemoInit
    [] o.name = "read"  -> <<Rd(o.page, o.reg)>>
    [] o.name = "write" -> <<Wr(o.page, o.reg, o.val), Rd(o.page, o.reg)>>
    [] o.name = "count" -> Count(o.cmd)
    [] o.name = "phy"   -> PhyRead(o.phy, o.reg)
    [] o.name = "reset" -> <<>>

MutBack(do, v) ==   \* the busy loops wait for the store bit as well
  IF do = "whileBusy" /\ v \intersect {14, 15} # {} THEN 1 ELSE 0

(* How far the loop a read ends goes back; 0 when the loop ends.  The test *)
(* (tmp&(1<<15)) == 1 compares 0 or 32768 with 1.                          *)
Back(do, v) ==
  IF do = "whileBusy" /\ v \intersect {15} # {} THEN 1
  ELSE IF do = "whileOne" /\ v \intersect {15} = Word(1) THEN 3
  ELSE 0

(* The chip has carried out the VLAN table command: it has stored the      *)
(* fields in the entry the low bits name, or fetched them from it, and     *)
(* cleared the busy bit.                                                   *)
Entry(cmd, vlan) == {e \in DOMAIN vlan : Word(e) = cmd \ {14, 15}}

TableDone(mem, vlan) ==
  LET cmd == mem[<<2, TableCommand>>]
      done == [mem EXCEPT ![<<2, TableCommand>>] = cmd \ {15}]
      fields == [f \in Fields |-> mem[<<2, f>>]]
  IN CASE 14 \in cmd ->
            [mem |-> done,
             vlan |-> [e \in DOMAIN vlan |->
                         IF e \in Entry(cmd, vlan) THEN fields ELSE vlan[e]]]
       [] 14 \notin cmd /\ Entry(cmd, vlan) # {} ->
            LET e == CHOOSE x \in Entry(cmd, vlan) : TRUE
            IN [mem |-> [a \in DOMAIN mem |-> IF a[1] = 2 /\ a[2] \in Fields
                                             THEN vlan[e][a[2]] ELSE done[a]],
                vlan |-> vlan]
       [] OTHER -> [mem |-> done, vlan |-> vlan]
=============================================================================
