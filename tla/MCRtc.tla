------------------------------- MODULE MCRtc -------------------------------
(***************************************************************************)
(* The two halves of the RTC driver for TLC: the ioctls of rtc.c beside a  *)
(* ticking chip, or the pins of gpio_i2c_rtc.c beside a slave.  Which half *)
(* runs is chosen at the start; RtcClock takes from GpioI2cRtc that a      *)
(* register access is one step, which AtomicRegisters says.                *)
(***************************************************************************)
EXTENDS GpioI2cRtc, RtcClock, TLC

VARIABLE half

mcVars == <<vars, clockVars, half>>

Time(y, mo, d, h, mi, s, w) ==
  [year |-> y, month |-> mo, date |-> d, hour |-> h, minute |-> mi,
   second |-> s, week |-> w]

(* A tick or two from midnight, one of them the last of the century, and   *)
(* from noon.                                                              *)
NewYear == Time(2013, 12, 31, 23, 59, 58, 3)
Century == Time(2099, 12, 31, 23, 59, 58, 4)
Noon == Time(2013, 7, 31, 11, 59, 59, 4)

MCStartTimes == {NewYear, Century, Noon}
MCTimes == {Time(2014, 10, 19, 20, 59, 58, 1)}

(* The half that does not run has one initial state only. *)
MCInit ==
  /\ half \in {"clock", "bus"}
  /\ half = "clock" \/ (clock = Noon /\ mode12 = FALSE /\ halted = FALSE)
  /\ half = "bus" \/ (winner = 0 /\ mem = [a \in Addrs |-> 0])
  /\ Init /\ ClockInit

MCNext ==
  /\ UNCHANGED half
  /\ \/ half = "clock" /\ ClockNext /\ UNCHANGED vars
     \/ half = "bus" /\ Next /\ UNCHANGED clockVars

MCSpec == MCInit /\ [][MCNext]_mcVars

Symmetry == Permutations(Threads) \union Permutations(Callers)
-----------------------------------------------------------------------------
(* The types of both halves: no wrong byte, no field of a time beyond its  *)
(* range, whatever garbage the ioctls and the bus may make of each other.  *)
TypesOK == TypeOK /\ ClockTypeOK
=============================================================================
