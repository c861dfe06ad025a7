------------------------------ MODULE RtcClock ------------------------------
(***************************************************************************)
(* The clock of drv/rtc/hym1307/rtc.c.  HI_RTC_RD_TIME and HI_RTC_SET_TIME *)
(* read and write the registers of the chip one by one while the chip      *)
(* ticks and other callers do the same.  Each register access is one step: *)
(* gpio_i2c_rtc_read and gpio_i2c_rtc_write hold their lock throughout     *)
(* (module GpioI2cRtc).  The chip is external.                             *)
(***************************************************************************)
EXTENDS Integers, Sequences

CONSTANTS
  Callers,
  Times,       \* the times callers set
  StartTimes,  \* the times the chip may show at first
  StartModes,  \* may it count hours to 12?  a subset of BOOLEAN
  StartHalts,  \* may it be halted?  a subset of BOOLEAN
  MaxTicks,    \* bound: seconds that pass
  MaxCalls     \* bound: calls of each caller

(* What the registers of the chip can hold. *)
Clocks == [second: 0..59, minute: 0..59, hour: 0..23, date: 1..31,
           month: 1..12, year: 2000..2099, week: 0..9]

ASSUME ClockAssumption ==
  /\ StartModes \subseteq BOOLEAN /\ StartHalts \subseteq BOOLEAN
  /\ StartTimes \union Times \subseteq Clocks
  /\ MaxTicks \in Nat /\ MaxCalls \in Nat

VARIABLES
  clock,      \* the time the chip keeps
  mode12,     \* bit 7 of its hour register: count hours to 12
  halted,     \* bit 7 of its second register: do not count
  call,       \* the ioctl each caller is in, and how far it is
  time,       \* its rtc_time
  since,      \* history: clock when its ioctl began
  alone,      \* history: has nobody else been in an ioctl since?
  ticked,     \* history: the carries since it began
  ticks, calls

chip == <<clock, mode12, halted>>
history == <<since, alone, ticked>>
clockVars == <<chip, call, time, history, ticks, calls>>
-----------------------------------------------------------------------------
BCD(a) == (a \div 10) * 16 + (a % 10)

MutIBCD(a) == a   \* the byte is taken as a binary number

IBCD(a) == ((a \div 16) % 16) * 10 + (a % 16)

MutOrder == <<"year", "second", "minute", "hour", "date", "month", "week">>

(* The registers in the order both ioctls go through them. *)
Order == <<"second", "minute", "hour", "date", "month", "year", "week">>

(* What the chip shows in a register, and how rtc_ioctl reads it. *)
Shown(f) ==
  CASE f = "second" -> BCD(clock.second) + (IF halted THEN 128 ELSE 0)
    [] f = "hour" /\ mode12 ->
         128 + (IF clock.hour >= 12 THEN 32 ELSE 0)
             + BCD(IF clock.hour % 12 = 0 THEN 12 ELSE clock.hour % 12)
    [] f = "year" -> BCD(clock.year % 100)
    [] OTHER -> BCD(clock[f])

MutHour(data) == IBCD(data % 64)   \* the mode bit is not looked at

Hour(data) ==
  IF data >= 128
  THEN IBCD(data % 32) + (IF (data \div 32) % 2 = 1 THEN 12 ELSE 0)
  ELSE IBCD(data % 64)

Decode(f, data) ==
  CASE f = "hour" -> Hour(data)
    [] f \in {"second", "minute"} -> IBCD(data % 128)
    [] f = "date" -> IBCD(data % 64)
    [] f = "month" -> IBCD(data % 32)
    [] f = "week" -> IBCD(data % 16)
    [] f = "year" -> IBCD(data) + 2000

(* The byte HI_RTC_SET_TIME writes. *)
Encode(f, t) ==
  CASE f \in {"second", "minute"} -> BCD(t[f] % 60) % 128
    [] f = "hour" -> BCD(t.hour % 24) % 64
    [] f = "date" -> BCD(t.date) % 64
    [] f = "month" -> BCD(t.month) % 32
    [] f = "year" -> BCD(t.year % 100)
    [] f = "week" -> BCD(t.week) % 16
-----------------------------------------------------------------------------
DaysIn(m, y) == CASE m = 2 -> IF y % 4 = 0 THEN 29 ELSE 28
                  [] m \in {4, 6, 9, 11} -> 30
                  [] OTHER -> 31

(* One second later, as the chip counts; a field that overflows carries. *)
NextSecond(c) ==
  LET s == c.second = 59
      m == s /\ c.minute = 59
      h == m /\ c.hour = 23
      d == h /\ c.date >= DaysIn(c.month, c.year)
      n == d /\ c.month = 12
  IN [second |-> IF s THEN 0 ELSE c.second + 1,
      minute |-> IF m THEN 0 ELSE IF s THEN c.minute + 1 ELSE c.minute,
      hour   |-> IF h THEN 0 ELSE IF m THEN c.hour + 1 ELSE c.hour,
      date   |-> IF d THEN 1 ELSE IF h THEN c.date + 1 ELSE c.date,
      month  |-> IF n THEN 1 ELSE IF d THEN c.month + 1 ELSE c.month,
      year   |-> IF n THEN 2000 + ((c.year + 1) % 100) ELSE c.year,
      week   |-> IF h THEN (c.week % 7) + 1 ELSE c.week]

Idle == [op |-> "none", at |-> 0]

Zero == [f \in {Order[i] : i \in 1..7} |-> 0]

NotTicked == [second |-> FALSE, minute |-> FALSE, century |-> FALSE]

(* What a caller's rtc_time may hold; hour 24 is noon read in 12 hour mode. *)
RtcTimes == [second: 0..59, minute: 0..59, hour: 0..24, date: 0..31,
             month: 0..12, year: {0} \union (2000..2099), week: 0..9]

ClockTypeOK ==
  /\ mode12 \in BOOLEAN /\ halted \in BOOLEAN
  /\ clock \in Clocks
  /\ call \in [Callers -> [op: {"none", "read", "start", "set"}, at: 0..8]]
  /\ time \in [Callers -> RtcTimes]
  /\ ticks \in 0..MaxTicks /\ calls \in [Callers -> 0..MaxCalls]

ClockInit ==
  /\ clock \in StartTimes /\ mode12 \in StartModes /\ halted \in StartHalts
  /\ call = [c \in Callers |-> Idle]
  /\ time = [c \in Callers |-> Zero]
  /\ since = [c \in Callers |-> Zero]
  /\ alone = [c \in Callers |-> FALSE]
  /\ ticked = [c \in Callers |-> NotTicked]
  /\ ticks = 0 /\ calls = [c \in Callers |-> 0]

Busy(c) == call[c].op # "none"

Begin(c) ==
  /\ ~Busy(c) /\ calls[c] < MaxCalls
  /\ \/ /\ call' = [call EXCEPT ![c] = [op |-> "read", at |-> 1]]
        /\ time' = [time EXCEPT ![c] = Zero]
     \/ /\ call' = [call EXCEPT ![c] = [op |-> "set", at |-> 1]]
        /\ \E t \in Times : time' = [time EXCEPT ![c] = t]
  /\ since' = [since EXCEPT ![c] = clock]
  /\ alone' = [d \in Callers |-> IF d = c THEN \A e \in Callers : ~Busy(e)
                                 ELSE FALSE]
  /\ ticked' = [ticked EXCEPT ![c] = NotTicked]
  /\ calls' = [calls EXCEPT ![c] = @ + 1]
  /\ UNCHANGED <<chip, ticks>>

Field(c) == Order[call[c].at]

Onward(c) == call' = [call EXCEPT ![c] = [op |-> @.op, at |-> @.at + 1]]

MutReadField(c) ==   \* a halted chip is left halted
  /\ call[c].op = "read" /\ call[c].at \in 1..7
  /\ time' = [time EXCEPT ![c][Field(c)] = Decode(Field(c), Shown(Field(c)))]
  /\ Onward(c)
  /\ UNCHANGED <<chip, history, ticks, calls>>

(* A register is read.  A set bit 7 of the second register means that the  *)
(* chip is halted: the next access writes the seconds back without it.     *)
ReadField(c) ==
  /\ call[c].op = "read" /\ call[c].at \in 1..7
  /\ time' = [time EXCEPT ![c][Field(c)] = Decode(Field(c), Shown(Field(c)))]
  /\ IF Field(c) = "second" /\ Shown("second") >= 128
     THEN call' = [call EXCEPT ![c].op = "start"]
     ELSE Onward(c)
  /\ UNCHANGED <<chip, history, ticks, calls>>

StartChip(c) ==
  /\ call[c].op = "start"
  /\ halted' = FALSE
  /\ clock' = [clock EXCEPT !.second = time[c].second]
  /\ call' = [call EXCEPT ![c] = [op |-> "read", at |-> 2]]
  /\ UNCHANGED <<mode12, time, history, ticks, calls>>

MutWriteField(c) ==   \* hours are written in 12 hour mode
  /\ call[c].op = "set" /\ call[c].at \in 1..7
  /\ LET f == Field(c)
         data == Encode(f, time[c]) IN
     /\ clock' = [clock EXCEPT ![f] = IF f = "hour" THEN IBCD(data % 32) ELSE Decode(f, data)]
     /\ mode12' = mode12
     /\ halted' = IF f = "second" THEN FALSE ELSE halted
  /\ Onward(c)
  /\ UNCHANGED <<time, history, ticks, calls>>

(* A register is written: bit 7 of the byte is 0 for seconds and hours. *)
WriteField(c) ==
  /\ call[c].op = "set" /\ call[c].at \in 1..7
  /\ LET f == Field(c)
         data == Encode(f, time[c]) IN
     /\ clock' = [clock EXCEPT ![f] = Decode(f, data)]
     /\ mode12' = IF f = "hour" THEN FALSE ELSE mode12
     /\ halted' = IF f = "second" THEN FALSE ELSE halted
  /\ Onward(c)
  /\ UNCHANGED <<time, history, ticks, calls>>

(* The ioctl returns, and gives its rtc_time away. *)
End(c) ==
  /\ Busy(c) /\ call[c].at = 8
  /\ call' = [call EXCEPT ![c] = Idle]
  /\ time' = [time EXCEPT ![c] = Zero]
  /\ since' = [since EXCEPT ![c] = Zero]
  /\ alone' = [alone EXCEPT ![c] = FALSE]
  /\ ticked' = [ticked EXCEPT ![c] = NotTicked]
  /\ UNCHANGED <<chip, ticks, calls>>

(* The chip counts a second. *)
Tick ==
  /\ ~halted /\ ticks < MaxTicks
  /\ clock' = NextSecond(clock)
  /\ ticks' = ticks + 1
  /\ ticked' = [c \in Callers |->
                  [second |-> Busy(c),
                   minute |-> ticked[c].minute
                                \/ (clock.second = 59 /\ call[c].at > 1),
                   century |-> ticked[c].century
                                 \/ (NextSecond(clock).year < clock.year /\ Busy(c))]]
  /\ UNCHANGED <<mode12, halted, call, time, since, alone, calls>>

ClockNext ==
  \/ \E c \in Callers :
       Begin(c) \/ ReadField(c) \/ StartChip(c) \/ WriteField(c) \/ End(c)
  \/ Tick

ClockSpec == ClockInit /\ [][ClockNext]_clockVars
-----------------------------------------------------------------------------
Count(t) == <<t.year, t.month, t.date, t.hour, t.minute, t.second>>

NotBefore(t, u) ==
  \/ Count(t) = Count(u)
  \/ \E i \in 1..6 : /\ \A j \in 1..(i - 1) : Count(t)[j] = Count(u)[j]
                     /\ Count(t)[i] > Count(u)[i]

Done(c, op) == call[c] = [op |-> op, at |-> 8]

(* HI_RTC_RD_TIME reads the registers one by one while the chip counts on: *)
(* what it returns may mix two times, but it is never behind the time at   *)
(* which the ioctl began, as long as the century does not end in between.  *)
ReadNotBehind == \A c \in Callers :
  Done(c, "read") /\ alone[c] /\ ~ticked[c].century => NotBefore(time[c], since[c])

(* A read during which the chip does not tick returns the time, in both    *)
(* hour modes, but for the hour from 12 to 1 of the 12 hour mode, which    *)
(* the driver returns 12 hours late.                                       *)
ReadExact == \A c \in Callers :
  Done(c, "read") /\ alone[c] /\ ~ticked[c].second =>
    Count(time[c]) = Count([since[c] EXCEPT
      !.hour = IF mode12 /\ since[c].hour % 12 = 0 THEN @ + 12 ELSE @])

(* After HI_RTC_RD_TIME the chip is counting, whatever state it was in. *)
ReadStartsChip == \A c \in Callers :
  Done(c, "read") => ~halted

(* HI_RTC_SET_TIME writes the seconds first: as long as they do not carry  *)
(* into the minutes before it is done, the chip shows the time set, and in *)
(* 24 hour mode.                                                           *)
SetLands == \A c \in Callers :
  Done(c, "set") /\ alone[c] /\ ~ticked[c].minute =>
    /\ ~mode12
    /\ Count([clock EXCEPT !.second = time[c].second]) = Count(time[c])
    /\ clock.second >= time[c].second
=============================================================================
