------------------------------ MODULE MCIp1818 ------------------------------
(* An instance of Ip1818 for TLC. *)
EXTENDS Ip1818

MCRegs == {Cmd, Data, 3}

(* What a garbled frame may leave in Cmd: nothing, or a command to write   *)
(* that is still to be carried out.                                        *)
MCNoiseCmds == {NoCommand, Command(8, 1, TRUE)}
MCStruck == {Cmd, Data}
MCPhys == {<<8, 1>>}

(* PHY 40 is PHY 8 to the driver, register 475 is Data. *)
MCUserOps ==
  {[name |-> "PHY_READ", phy |-> 40, reg |-> 1],
   [name |-> "PHY_WRITE", phy |-> 8, reg |-> 33, val |-> 1],
   [name |-> "MD_READ", reg |-> 475],
   [name |-> "MD_WRITE", reg |-> Cmd, val |-> Command(9, 1, FALSE)]}
=============================================================================
