--------------------------- MODULE RegisterDevice ---------------------------
(***************************************************************************)
(* What a bit-banged register bus promises its callers: a read or a write  *)
(* of one register takes effect at one instant between the call and the    *)
(* return, whatever the other threads do.  The GPIO drivers of the IP1810  *)
(* switch and of the RTC are shown to implement this specification.        *)
(***************************************************************************)
CONSTANTS
  Threads,   \* the kernel threads that call the driver
  Addrs,     \* the registers of the device
  Values     \* what a register holds

VARIABLES
  mem,       \* the registers
  call       \* the call each thread is in

vars == <<mem, call>>

NoCall == [stage |-> "idle"]

Calls == [stage: {"called", "applied"}, op: {"read", "write"},
          addr: Addrs, val: Values]

TypeOK == /\ mem \in [Addrs -> Values]
          /\ call \in [Threads -> Calls \union {NoCall}]

Init == /\ mem \in [Addrs -> Values]
        /\ call = [t \in Threads |-> NoCall]

(* A thread calls the driver.  The value of a read is not known yet: the   *)
(* field holds whatever the caller's buffer held.                          *)
Invoke(t) ==
  /\ call[t] = NoCall
  /\ \E o \in {"read", "write"}, a \in Addrs, v \in Values :
       call' = [call EXCEPT ![t] = [stage |-> "called", op |-> o,
                                    addr |-> a, val |-> v]]
  /\ UNCHANGED mem

(* The instant a write takes effect ... *)
ApplyWrite(t) ==
  /\ call[t].stage = "called"
  /\ call[t].op = "write"
  /\ mem' = [mem EXCEPT ![call[t].addr] = call[t].val]
  /\ call' = [call EXCEPT ![t].stage = "applied"]

(* ... and the instant whose value a read returns. *)
ApplyRead(t) ==
  /\ call[t].stage = "called"
  /\ call[t].op = "read"
  /\ call' = [call EXCEPT ![t].stage = "applied",
                          ![t].val = mem[call[t].addr]]
  /\ UNCHANGED mem

Return(t) ==
  /\ call[t].stage = "applied"
  /\ call' = [call EXCEPT ![t] = NoCall]
  /\ UNCHANGED mem

Next == \E t \in Threads :
          Invoke(t) \/ ApplyWrite(t) \/ ApplyRead(t) \/ Return(t)

Spec == Init /\ [][Next]_vars
=============================================================================
