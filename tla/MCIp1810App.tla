---------------------------- MODULE MCIp1810App ----------------------------
(* An instance of Ip1810App for TLC: short tables, a few registers. *)
EXTENDS Ip1810App

CONSTANT Flusher   \* the process that runs -e

MCRegs ==
  FlushRegs \union {<<0, r>> : r \in {1, 90, 91, 100, 101, 102}}
    \union {<<3, PhyCommand>>, <<3, PhyResult>>, <<12, 0>>}

(* One bit of every entry tells its old contents from any other's. *)
MCFactory ==
  [i \in 1..(LastEntry + 1) |->
     [f \in Fields |-> IF f \in {212, 213} THEN {i} ELSE {}]]

(* The worst a garbled frame can say to a loop: still busy. *)
MCNoise == {{15}}

MCStruck == {<<2, TableCommand>>}

MCDumpPages == <<2>>
MCDumpRegs == <<TableCommand>>

Named(names) == {[name |-> n] : n \in names}

(* -b is the end of -a. *)
Others ==
  Named({"-a", "-q", "-w", "-u", "-i", "-e", "-p", "count"})
  \union {[name |-> "-p -r", phy |-> 7, reg |-> 0],
          [name |-> "-r", reg |-> 100],
          [name |-> "read", page |-> 2, reg |-> 6],
          [name |-> "write", page |-> 2, reg |-> TableCommand, val |-> {1, 14, 15}],
       [name |-> "write", page |-> 2, reg |-> 213, val |-> {0}]}

(* One process flushes; what runs beside it, or before, is anything. *)
MCCommandLines ==
  [c \in Clients |-> IF c = Flusher THEN Named({"-e"}) ELSE Others]
=============================================================================
