------------------------------ MODULE MCIp1810 ------------------------------
(* Instances of Ip1810 for TLC: small tables, and the ioctls of each run. *)
EXTENDS Ip1810, TLC

MCPages == {0, 2, 3}

MCRegs == {1, 6, 100, 101, 102, TableCommand, PhyCommand, PhyResult}
            \union Fields \union {TagReg(i) : i \in 0..(LastTag - 1)}

MCValues == SUBSET (0..15)

(* One bit of every entry tells its old contents from any other's. *)
MCFactory ==
  [i \in 1..(LastEntry + 1) |->
     [f \in Fields |-> IF f \in {212, 213} THEN {5 + i} ELSE {}]]

MCPhyData == (<<8, 1>> :> {0, 7}) @@ (<<9, 1>> :> {1})

(* The worst a garbled frame can say to a loop: still busy. *)
MCNoise == {{15}}

MCStruck == {TableCommand}

ReadOp == [name |-> "read", page |-> 2, reg |-> TableCommand]
(* A PHY command sent with MDIO_WRITE. *)
WriteOp == [name |-> "write", page |-> 3, reg |-> PhyCommand, val |-> PhyWord(8, 1)]
(* The packets of two ports. *)
CountOp(port) == [name |-> "count", cmd |-> {6, 8, 15} \union Word(port)]
PhyOp(phy) == [name |-> "phy", phy |-> phy, reg |-> 1]
ResetOp == [name |-> "reset"]

LoadOps == {WriteOp, CountOp(0), CountOp(1)}
(* PHY 7 does not exist: the read is over after its bare IP2Page. *)
DisturbOps == {PhyOp(7), ResetOp, ReadOp}
PhyOps == {PhyOp(8), PhyOp(9)}

(* Users differ in nothing but their names. *)
UserSymmetry == Permutations(Users)
=============================================================================
